------------------------------ MODULE KeyRecovery ------------------------------
(***************************************************************************)
(* The key recovery service: items keys that the client's root key does    *)
(* not decrypt are queued, and the user is asked for the password of each, *)
(* while more keys arrive, passwords change here and elsewhere, and the    *)
(* application ends.                                                       *)
(*                                                                         *)
(* The root keys of the account are numbered as its passwords changed; the *)
(* parameters of a root key stand for it.  Each has an items key of its    *)
(* number, created with it, so that the numbers are created_at as well.    *)
(* All are of one version, which makes serverKeyParamsAreSafe true.        *)
(***************************************************************************)
EXTENDS Naturals, Sequences, FiniteSets, SequencesExt, Filter

CONSTANTS
  MaxRoot,     \* bound: root keys
  MaxElsewhere, \* bound: changes of the password by other clients
  MaxWizards,  \* bound: calls of presentKeyRecoveryWizard
  MaxEnds      \* bound: ends of the application

ASSUME BoundAssumption == MaxRoot \in Nat \ {0} /\ {MaxElsewhere, MaxWizards, MaxEnds} \subseteq Nat

Root == 1 .. MaxRoot
None == 0  \* no root key, no parameters, not on the server
Key == Root
Item == [key : Key, params : Root, ignored : BOOLEAN]
Quiet == {"off", "idle"}

VARIABLES
  account,      \* the server's root key
  encrypted,    \* the root key that the server's copy of each key is encrypted with
  rootKey,      \* the client's root key
  passcode,     \* hasPasscode
  stored,       \* the database: the root keys that keys are encrypted with
  record,       \* KeyRecoveryUndecryptableItems, in the same way
  seen,         \* the copy of each key that was last retrieved
  open,         \* keys in memory, decrypted
  errored,      \* and errorDecrypting
  serverParams,
  queue,        \* decryptionQueue
  processing,   \* where beginProcessingQueue is; "idle" when isProcessingQueue is false
  current,      \* what popQueueItem works on
  saving,       \* what calls of saveToUndecryptables that are awaited have put there
  logins,       \* sign-ins with serverParams, asked for after a queue
  opened,       \* history: the copy of each key that was last decrypted and stored
  left          \* what remains of the bounds

server == <<account, encrypted>>
device == <<rootKey, stored, record, seen>>
memory == <<open, errored, serverParams, queue, processing, current, saving, logins>>
vars == <<server, device, passcode, memory, opened, left>>

Nothing == [items |-> <<>>, replaces |-> FALSE]
Copies == UNION {[ks -> Root \union {None}] : ks \in SUBSET Key}

TypeOK ==
  /\ account \in Root /\ rootKey \in Root \union {None} /\ passcode \in BOOLEAN
  /\ encrypted \in [Key -> Root \union {None}]
  /\ seen \in [Key -> Root \union {None}] /\ opened \in [Key -> Root \union {None}]
  /\ {stored, record, errored} \subseteq Copies /\ saving \subseteq Copies
  /\ open \subseteq Key
  /\ serverParams \in Root \union {None}
  /\ queue \in Seq(Item)
  /\ processing \in Quiet \union {"params", "head", "next", "asked", "wrap", "stuck"}
  /\ current.items \in Seq(Item) /\ current.replaces \in BOOLEAN
  /\ logins \in Nat

-------------------------------------------------------------------------------
(***************************************************************************)
(* The queue.                                                              *)
(***************************************************************************)
\* What f has, and what g has of the rest.
Over(f, g) == [k \in DOMAIN f \union DOMAIN g |-> IF k \in DOMAIN f THEN f[k] ELSE g[k]]

Without(f, ks) == Restrict(f, DOMAIN f \ ks)
Keys(items) == {i.key : i \in ToSet(items)}

\* addKeysToQueue.
Items(copies, ignored) ==
  SetToSeq({[key |-> k, params |-> copies[k], ignored |-> ignored] : k \in DOMAIN copies})

Matching(params) == Where(queue, {i \in Item : i.params = params})
Nonmatching(params) == Where(queue, {i \in Item : i.params # params})
Ignored(items) == Keys(Where(items, {i \in Item : i.ignored}))

\* A client without credentials starts with the head of the queue, whether there is one or not.
Started(q) ==
  IF rootKey # None \/ passcode THEN "next" ELSE IF q = <<>> THEN "stuck" ELSE "head"

\* Items are added, and the queue is processed if it is not already.
Queued(items) ==
  /\ queue' = queue \o items
  /\ processing' = IF processing # "idle" THEN processing
                   ELSE IF serverParams = None /\ rootKey # None THEN "params"
                   ELSE Started(queue \o items)

\* Decrypted keys are emitted and stored, encrypted with the root key there is.
Emitted(items, key) ==
  /\ open' = open \union Keys(items)
  /\ errored' = Without(errored, Keys(items))
  /\ stored' = Over([k \in Keys(items) |-> key], stored)
  /\ opened' = [k \in Key |-> IF k \in Keys(items)
                              THEN (CHOOSE i \in ToSet(items) : i.key = k).params ELSE opened[k]]

\* The callbacks remove from storage what was put there; a failed one leaves it.  Variant with a
\* bug first: whatever the result is.
RemoveAlways(items, success) ==
  record' = Without(record, Ignored(items))
Callbacks(items, success) ==
  record' = IF success THEN Without(record, Ignored(items))
            ELSE record

\* The server's parameters, wanted once in a session; the request may fail.
ParamsAnswered ==
  /\ processing = "params"
  /\ serverParams' \in {account, None}
  /\ processing' = Started(queue)
  /\ UNCHANGED <<server, device, passcode, open, errored, queue, current, saving, logins, opened,
                 left>>

\* Whether the root key may become the one of an item.  Variant with a bug first: whatever the age
\* of the items key is.
ReplacesAnyKey(i) ==
  /\ serverParams # None /\ rootKey # None
  /\ rootKey # serverParams /\ i.params = serverParams
Replaces(i) ==
  /\ serverParams # None /\ rootKey # None
  /\ rootKey # serverParams /\ i.params = serverParams
  /\ \A k \in open : i.key > k

PopQueueItem ==
  /\ processing = "next" /\ queue # <<>>
  /\ queue' = Tail(queue)
  /\ current' = [items |-> <<Head(queue)>>, replaces |-> Replaces(Head(queue))]
  /\ processing' = "asked"
  /\ UNCHANGED <<server, device, passcode, open, errored, serverParams, saving, logins, opened, left>>

Dismissed ==
  /\ processing = "asked"
  /\ Callbacks(current.items, FALSE)
  /\ processing' = "next" /\ current' = Nothing
  /\ UNCHANGED <<server, rootKey, stored, seen, passcode, open, errored, serverParams, queue,
                 saving, logins, opened, left>>

\* A wrong password puts the item back.  Variant with a bug first: the promise of the item is the
\* one that is awaited, and never settled.
ReaddAndWait ==
  /\ processing = "asked"
  /\ queue' = current.items \o queue
  /\ processing' = "stuck" /\ current' = Nothing
  /\ UNCHANGED <<server, device, passcode, open, errored, serverParams, saving, logins, opened, left>>
WrongPassword ==
  /\ processing = "asked"
  /\ queue' = current.items \o queue
  /\ processing' = "next" /\ current' = Nothing
  /\ UNCHANGED <<server, device, passcode, open, errored, serverParams, saving, logins, opened, left>>

\* All keys with the item's parameters are decrypted at once.
Decrypted ==
  LET params == Head(current.items).params
      items == current.items \o Matching(params)
  IN /\ processing = "asked"
     /\ queue' = Nonmatching(params)
     /\ Emitted(items, rootKey)
     /\ IF current.replaces
        THEN /\ processing' = "wrap" /\ current' = [current EXCEPT !.items = items]
             /\ UNCHANGED record
        ELSE /\ processing' = "next" /\ current' = Nothing
             /\ Callbacks(items, TRUE)
     /\ UNCHANGED <<server, rootKey, seen, passcode, serverParams, saving, logins, left>>

\* The passcode is asked for until it is given, if there is one; the root key is set.
RootKeyReplaced ==
  /\ processing = "wrap"
  /\ rootKey' = Head(current.items).params
  /\ Callbacks(current.items, TRUE)
  /\ processing' = "next" /\ current' = Nothing
  /\ UNCHANGED <<server, stored, seen, passcode, open, errored, serverParams, queue, saving,
                 logins, opened, left>>

\* The end of the queue: the service no longer processes it, and asks for a sign-in if the
\* server's parameters are not the client's.
EndQueue ==
  /\ processing = "next" /\ queue = <<>>
  /\ processing' = "idle"
  /\ logins' = IF serverParams # None /\ rootKey # None /\ serverParams # rootKey
               THEN logins + 1 ELSE logins
  /\ UNCHANGED <<server, device, passcode, open, errored, serverParams, queue, current, saving,
                 opened, left>>

-------------------------------------------------------------------------------
(***************************************************************************)
(* Signing in.  It succeeds with the account's parameters and password;    *)
(* after anything else the user is asked again.                            *)
(***************************************************************************)
SignedIn ==
  /\ logins > 0 /\ serverParams = account
  /\ rootKey' = serverParams
  /\ logins' = logins - 1
  /\ UNCHANGED <<server, stored, record, seen, passcode, open, errored, serverParams, queue,
                 processing, current, saving, opened, left>>

SignInCanceled ==
  /\ logins > 0
  /\ logins' = logins - 1
  /\ UNCHANGED <<server, device, passcode, open, errored, serverParams, queue, processing,
                 current, saving, opened, left>>

\* Without credentials; neither promises nor callbacks of what is decrypted are dealt with.
HeadSignedIn ==
  LET params == Head(queue).params
  IN /\ processing = "head" /\ params = account
     /\ rootKey' = params
     /\ Emitted(Matching(params), params)
     /\ queue' = Nonmatching(params)
     /\ processing' = "next"
     /\ UNCHANGED <<server, record, seen, passcode, serverParams, current, saving, logins, left>>

HeadCanceled ==
  /\ processing = "head"
  /\ processing' = "next"
  /\ UNCHANGED <<server, device, passcode, open, errored, serverParams, queue, current, saving,
                 logins, opened, left>>

-------------------------------------------------------------------------------
(***************************************************************************)
(* Keys arrive.  One that is decrypted here already is not overwritten by  *)
(* a copy that is not: that is ignored, and put in storage of its own.     *)
(***************************************************************************)
\* The value is there at once, but for the disk; the keys are queued once that has it.
SaveToUndecryptables(copies) == record' = Over(copies, record)

\* payloadsByDecryptingPayloads: a key that is stored without any key can be read.
Readable(copies) ==
  {k \in DOMAIN copies : copies[k] = rootKey \/ (copies[k] = None /\ ~passcode)}

\* mergePayloadsOntoMaster: what keys that can not be decrypted do not overwrite.
Protected(ks) == ks \intersect open

Retrieve(ks) ==
  LET got == Restrict(encrypted, ks)
      fine == Readable(got)
      ignored == Protected(ks \ fine)
      bad == ks \ (fine \union ignored)
  IN /\ processing # "off" /\ rootKey # None
     /\ ks # {} /\ \A k \in ks : encrypted[k] # seen[k]
     /\ seen' = Over(got, seen)
     /\ opened' = [k \in Key |-> IF k \in fine THEN got[k] ELSE opened[k]]
     /\ stored' = Over(Restrict(got, fine \union bad), stored)
     /\ open' = open \union fine
     /\ errored' = Over(Restrict(got, bad), Without(errored, fine))
     /\ SaveToUndecryptables(Restrict(got, ignored))
     /\ saving' = IF ignored = {} THEN saving ELSE saving \union {Restrict(got, ignored)}
     /\ IF bad = {} THEN UNCHANGED <<queue, processing>> ELSE Queued(Items(Restrict(got, bad), FALSE))
     /\ UNCHANGED <<server, rootKey, passcode, serverParams, current, logins, left>>

Saved(copies) ==
  /\ saving' = saving \ {copies}
  /\ Queued(Items(copies, TRUE))
  /\ UNCHANGED <<server, device, passcode, open, errored, serverParams, current, logins, opened,
                 left>>

\* processPersistedUndecryptables, when the user wants it.
PresentKeyRecoveryWizard ==
  /\ processing # "off" /\ left.wizards > 0
  /\ DOMAIN record # {}
  /\ Queued(Items(record, TRUE))
  /\ left' = [left EXCEPT !.wizards = @ - 1]
  /\ UNCHANGED <<server, device, passcode, open, errored, serverParams, current, saving, logins,
                 opened>>

\* Launching: what the database has is emitted, then what is in storage of its own is queued.
Launch ==
  LET fine == Readable(stored)
      items == Items(Without(stored, fine), FALSE) \o Items(record, TRUE)
  IN /\ processing = "off"
     /\ open' = fine
     /\ errored' = Without(stored, fine)
     /\ queue' = items
     /\ processing' = IF items = <<>> THEN "idle"
                      ELSE IF rootKey # None THEN "params" ELSE Started(items)
     /\ UNCHANGED <<server, device, passcode, serverParams, current, saving, logins, opened, left>>

\* Not while a record is being stored: ItemSync's token is ahead of it then.
End ==
  /\ processing # "off" /\ saving = {} /\ left.ends > 0
  /\ left' = [left EXCEPT !.ends = @ - 1]
  /\ open' = {} /\ errored' = <<>> /\ serverParams' = None /\ queue' = <<>>
  /\ processing' = "off" /\ current' = Nothing /\ logins' = 0
  /\ UNCHANGED <<server, device, passcode, saving, opened>>

-------------------------------------------------------------------------------
(***************************************************************************)
(* The password changes: elsewhere, where the new parameters are there     *)
(* before the keys are encrypted anew, or here.  Assumed: the user does    *)
(* not change it here while being asked for one, and with a client that    *)
(* has the account's keys.                                                 *)
(***************************************************************************)
ChangeElsewhere ==
  /\ left.elsewhere > 0 /\ account < MaxRoot /\ encrypted[account] # None
  /\ account' = account + 1
  /\ left' = [left EXCEPT !.elsewhere = @ - 1]
  /\ UNCHANGED <<encrypted, device, passcode, memory, opened>>

ReencryptElsewhere ==
  /\ encrypted[account] = None
  /\ encrypted' = [k \in Key |-> IF k <= account THEN account ELSE None]
  /\ UNCHANGED <<account, device, passcode, memory, opened, left>>

ChangePassword ==
  LET new == account + 1
      ks == open \union {new}
      anew == [k \in ks |-> new]
  IN /\ processing = "idle" /\ saving = {} /\ logins = 0
     /\ account < MaxRoot /\ rootKey = account /\ seen = encrypted
     /\ account' = new /\ rootKey' = new
     /\ encrypted' = Over(anew, encrypted) /\ seen' = Over(anew, seen)
     /\ opened' = Over(anew, opened) /\ stored' = Over(anew, stored)
     /\ open' = ks
     /\ UNCHANGED <<record, passcode, errored, serverParams, queue, processing, current, saving,
                    logins, left>>

-------------------------------------------------------------------------------
\* A client of the account, or one that has lost what it knew of it but a key.
Init ==
  LET one == [k \in Key |-> IF k = 1 THEN 1 ELSE None]
  IN /\ account = 1 /\ encrypted = one
     /\ rootKey \in {1, None}
     /\ passcode \in BOOLEAN
     /\ stored = [k \in {1} |-> 1] /\ record = <<>>
     /\ seen = IF rootKey = None THEN [k \in Key |-> None] ELSE one
     /\ opened = seen
     /\ open = {} /\ errored = <<>> /\ serverParams = None /\ queue = <<>>
     /\ processing = "off" /\ current = Nothing /\ saving = {} /\ logins = 0
     /\ left = [elsewhere |-> MaxElsewhere, wizards |-> MaxWizards, ends |-> MaxEnds]

Processes == ParamsAnswered \/ PopQueueItem \/ EndQueue
Answers == Dismissed \/ Decrypted

Next ==
  \/ Processes \/ Answers \/ WrongPassword \/ RootKeyReplaced
  \/ SignedIn \/ SignInCanceled \/ HeadSignedIn \/ HeadCanceled
  \/ \E ks \in SUBSET Key : Retrieve(ks)
  \/ \E copies \in saving : Saved(copies)
  \/ PresentKeyRecoveryWizard \/ Launch \/ End
  \/ ChangeElsewhere \/ ReencryptElsewhere \/ ChangePassword

\* The server answers; the user, asked again and again, answers or gives up.
Fairness ==
  /\ WF_vars(Processes) /\ SF_vars(Answers)
  /\ WF_vars(RootKeyReplaced) /\ WF_vars(HeadSignedIn \/ HeadCanceled)

Spec == Init /\ [][Next]_vars /\ Fairness

-------------------------------------------------------------------------------
(***************************************************************************)
(* Properties.                                                             *)
(***************************************************************************)
Has(copies, k, root) == k \in DOMAIN copies /\ copies[k] = root

\* A copy of a key that was retrieved is decrypted at some time, or it is kept where the next
\* launch finds it, also if what is in memory could not be overwritten by it.
NothingForgotten ==
  \A k \in Key :
    \/ seen[k] \in {None, opened[k]}
    \/ Has(stored, k, seen[k]) \/ Has(record, k, seen[k])

\* The root key is never replaced by an older one of the account, though the server's parameters
\* are asked for once and keys of all ages are recovered.
RootKeyNeverGoesBack == [][rootKey' >= rootKey]_vars

\* No key is left in the queue with nobody to process it, whatever arrives while the user is
\* asked and however often a wrong password is given: the service comes to its end each time.
QueueDrains == (queue # <<>> \/ processing \notin Quiet) ~> (queue = <<>> /\ processing \in Quiet)

\* What the code does not keep (README).  The next launch can open what is open now: recovered
\* keys are stored before the root key is replaced, and the others are not stored again.
OpenStaysStored == processing \in Quiet => \A k \in open : Has(stored, k, rootKey)

\* The sign-in after a queue can succeed: the parameters it is asked with are from the first
\* queue of the session, and the password may have changed since.
LoginCanSucceed == logins > 0 => serverParams >= rootKey
===============================================================================
