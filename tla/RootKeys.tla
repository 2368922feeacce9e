-------------------------------- MODULE RootKeys --------------------------------
(*****************************************************************************)
(* The protocol service's key management, with the credential service that   *)
(* drives it and the storage service that keeps its result: passcodes,       *)
(* registering, signing in, changing the password, signing out, and what is  *)
(* left on the device when the application ends in between.                  *)
(*                                                                           *)
(* What can be read depends on a chain: an item is encrypted with an items   *)
(* key, items keys and the stored values with the root key, and the root key *)
(* is in the keychain, or stored wrapped with the passcode's key, or is the  *)
(* passcode's key itself.  Each link is written by itself.                   *)
(*                                                                           *)
(* Data are encrypted by a key or not at all (None); protocol versions, the  *)
(* contents and the failures of cryptography are left out.                   *)
(*****************************************************************************)
EXTENDS Naturals, Sequences, FiniteSets

CONSTANTS
  AccountKey,    \* root keys computed from account passwords
  PasscodeKey,   \* root keys computed from passcodes: wrapping keys
  ItemsKey,      \* items keys
  None,
  Kinds,         \* the operations considered
  EndsAt,        \* the steps at which the application may end
  MaxOperations, \* bound: operations of the user
  MaxEnds,       \* bound: ends of the application
  MaxWrites,     \* bound: values set by other services
  MaxFailures    \* bound: failures of requests

Operations == {"add", "remove", "change", "signin", "register", "password", "signout"}
PC == {"idle", "wrap", "params", "unparams", "keychain", "delete", "rewrite", "request",
       "root", "store", "mark", "itemskey", "sync", "syncing", "synced", "clear"}

ASSUME KindAssumption == Kinds \subseteq Operations /\ EndsAt \subseteq PC
ASSUME BoundAssumption == {MaxOperations, MaxEnds, MaxWrites, MaxFailures} \subseteq Nat

RootKey == AccountKey \union PasscodeKey
Absent == "absent"
Note == "note"

ASSUME KeyAssumption ==
  /\ AccountKey \intersect PasscodeKey = {} /\ {None, Absent} \intersect RootKey = {}
  /\ {None, Absent, Note} \intersect ItemsKey = {} /\ None # Absent

Unwrapped == [key |-> None, by |-> None]

VARIABLES
  running,   \* the application runs
  keyMode,   \* keyMode
  rootKey,   \* the root key in memory
  values,    \* the nonwrapped values: wrapper key parameters, wrapped root key, account key
             \* parameters
  writes,    \* writes of the values under way: the key they are encrypted with, and whether
             \* the operation waits for it
  disk,      \* the written values, and the key the other values are encrypted with
  keychain,  \* the device's keychain
  keys,      \* the items keys in memory: known, deleted, default, synced, unreadable
  dirty,     \* the items keys to upload, and the note
  stored,    \* the database: how each items key and the note are encrypted, and the flags
             \* the items keys are stored with
  server,    \* the account's root key, its items keys and what they are encrypted with
  op,        \* the operation under way
  locked,    \* lockSyncing
  sync,      \* the sync under way, whether one that downloads first is due, what was sent
  used,      \* the keys used so far
  interrupted, \* history: the application was ended during an operation
  undone,    \* history: the items keys that a failed change of the password took back
  left       \* what remains of the bounds

memory == <<running, keyMode, rootKey, values, writes>>
device == <<disk, keychain, stored>>
items == <<keys, dirty>>
history == <<undone, interrupted>>
vars == <<memory, device, items, server, op, locked, sync, used, undone, interrupted, left>>

\* What the state is made of.  An operation knows what it has yet to write, or to take back.
Key == RootKey \union {None}
Encrypted == [ItemsKey -> Key \union {Absent}]
Marks == SUBSET (ItemsKey \union {Note})
KeyState == [known : SUBSET ItemsKey, deleted : SUBSET ItemsKey, default : SUBSET ItemsKey,
             synced : SUBSET ItemsKey, unreadable : SUBSET ItemsKey]
Stored == [keys : Encrypted, note : ItemsKey \union {None, Absent}, deleted : SUBSET ItemsKey,
           default : SUBSET ItemsKey, synced : SUBSET ItemsKey, dirty : SUBSET ItemsKey]
Wrapped == [key : Key, by : Key]
Values == [wrapper : Key, wrapped : Wrapped, params : Key]
Write == [by : Key, owner : {"operation", "other"}]
Disk == [by : Key, wrapper : Key, wrapped : Wrapped, params : Key]
Server == [root : Key, keys : Encrypted, default : SUBSET ItemsKey]
Operation ==
  [kind : Operations \union {"none"}, pc : PC, key : Key, old : Key, by : Key,
   itemsKey : ItemsKey \union {None}, was : ItemsKey \union {None}, back : BOOLEAN,
   payloads : {<<>>} \union (KeyState \X Marks \X Encrypted)]
SyncState == [pc : {"idle", "saved"}, first : BOOLEAN, sent : Marks, gone : SUBSET ItemsKey,
              by : Key, online : BOOLEAN]
Bounds == [operations : Nat, ends : Nat, writes : Nat, failures : Nat]
TypeOK ==
  /\ running \in BOOLEAN /\ locked \in BOOLEAN /\ interrupted \in BOOLEAN
  /\ keyMode \in {"none", "wrapper", "root", "both"}
  /\ rootKey \in Key /\ keychain \in Key
  /\ values \in Values /\ writes \in Seq(Write)
  /\ disk \in Disk /\ stored \in Stored /\ server \in Server
  /\ keys \in KeyState /\ dirty \in Marks
  /\ op \in Operation /\ sync \in SyncState /\ left \in Bounds
  /\ op.pc = "rewrite" => op.payloads # <<>>
  /\ op.back \/ op.pc \in {"sync", "syncing", "synced"} => op.itemsKey \in ItemsKey
  /\ used \subseteq ItemsKey \union RootKey /\ undone \subseteq ItemsKey

Idle == [kind |-> "none", pc |-> "idle", key |-> None, old |-> None, by |-> None,
         itemsKey |-> None, was |-> None, back |-> FALSE,
         payloads |-> <<>>]

hasAccount == keyMode \in {"root", "both"}
hasPasscode == keyMode \in {"wrapper", "both"}

Spend(kind) == left[kind] > 0 /\ left' = [left EXCEPT ![kind] = @ - 1]

\* A user of the application before it had a passcode or an account: there is an items key
\* that was never uploaded.  There may be an account, made elsewhere, with a key of its own.
Init ==
  \E k0 \in ItemsKey :
    /\ running = TRUE
    /\ keyMode = "none" /\ rootKey = None
    /\ values = [wrapper |-> None, wrapped |-> Unwrapped, params |-> None]
    /\ writes = <<>>
    /\ disk = [by |-> None, wrapper |-> None, wrapped |-> Unwrapped, params |-> None]
    /\ keychain = None
    /\ keys = [known |-> {k0}, deleted |-> {}, default |-> {k0}, synced |-> {}, unreadable |-> {}]
    /\ dirty = {}
    /\ stored = [keys |-> [k \in ItemsKey |-> IF k = k0 THEN None ELSE Absent], note |-> k0,
                 deleted |-> {}, default |-> {k0}, synced |-> {}, dirty |-> {}]
    /\ \/ /\ server = [root |-> None, keys |-> [k \in ItemsKey |-> Absent], default |-> {}]
          /\ used = {k0}
       \/ \E a \in AccountKey, k \in ItemsKey \ {k0} :
            /\ server = [root |-> a, keys |-> [j \in ItemsKey |-> IF j = k THEN a ELSE Absent],
                         default |-> {k}]
            /\ used = {k0, k, a}
    /\ op = Idle /\ locked = FALSE /\ undone = {} /\ interrupted = FALSE
    /\ sync = [pc |-> "idle", first |-> FALSE, sent |-> {}, gone |-> {}, by |-> None,
             online |-> FALSE]
    /\ left = [operations |-> MaxOperations, ends |-> MaxEnds, writes |-> MaxWrites,
               failures |-> MaxFailures]

-------------------------------------------------------------------------------
(*****************************************************************************)
(* The storage service: each value that is set has all of them encrypted and *)
(* written.  The key is looked up at once; the nonwrapped values are shared  *)
(* with the object that is written, and go as they are when it is.           *)
(*****************************************************************************)
PersistValues(by, owner) == writes' = Append(writes, [by |-> by, owner |-> owner])
Own == \E n \in DOMAIN writes : writes[n].owner = "operation"

SetValue(field, value) == values' = [values EXCEPT ![field] = value]

\* removeValue writes only if there was a value.
RemoveValue(field, nothing, by) ==
  IF values[field] = nothing THEN UNCHANGED <<values, writes>>
  ELSE SetValue(field, nothing) /\ PersistValues(by, "operation")

SetRawStorageValue ==
  /\ running /\ writes # <<>>
  /\ disk' = [by |-> Head(writes).by, wrapper |-> values.wrapper, wrapped |-> values.wrapped,
              params |-> values.params]
  /\ writes' = Tail(writes)
  /\ UNCHANGED <<running, keyMode, rootKey, values, keychain, stored, items, server, op, locked,
                 sync, used, left, history>>

\* Another service sets a value, as the sync token.
SetOtherValue ==
  /\ running
  /\ Spend("writes")
  /\ PersistValues(rootKey, "other")
  /\ UNCHANGED <<running, keyMode, rootKey, values, device, items, server, op,
                 locked, sync, used, history>>

\* getDefaultItemsKey.  A key that cannot be read is not known to be a default one.
DefaultKeys ==
  LET default == (keys.known \intersect keys.default) \ keys.unreadable
  IN IF Cardinality(keys.known) = 1 THEN keys.known
     ELSE IF default = {} THEN {None} ELSE default

\* savePayloads, of items keys and perhaps the note, in one write: of the keys in ks with the
\* flags they are to have.  A key that cannot be read is stored as it is.
Saved(s, ks, note, by, flags, dirtied) ==
  [s EXCEPT !.keys = [k \in ItemsKey |-> IF k \in ks \ flags.unreadable THEN by ELSE @[k]],
            !.note = note,
            !.default = (@ \ ks) \union (flags.default \intersect ks),
            !.synced = (@ \ ks) \union (flags.synced \intersect ks),
            !.dirty = (@ \ ks) \union (dirtied \intersect ks)]
Discarded(s, ks) == [s EXCEPT !.keys = [k \in ItemsKey |-> IF k \in ks THEN Absent ELSE @[k]]]

\* clearAllPayloads
Erased == [keys |-> [k \in ItemsKey |-> Absent], note |-> Absent, deleted |-> {}, default |-> {},
           synced |-> {}, dirty |-> {}]

-------------------------------------------------------------------------------
(********************************************************************************)
(* The operations of the credential service.  One is under way at a time; syncs *)
(* and writes of other services go on beside it.                                *)
(********************************************************************************)
Begin(kind) ==
  /\ running /\ op = Idle
  /\ kind \in Kinds
  /\ Spend("operations")

At(pc) == running /\ op.pc = pc /\ ~Own
Goto(pc) == op' = [op EXCEPT !.pc = pc]

\* setNewRootKeyWrapper: the mode changes and the keychain is cleared.  Variant with a bug first:
\* the root key stays in the keychain.
SetWrapperBesideKeychain(p, o) ==
  /\ keyMode' = IF keyMode \in {"none", "wrapper"} THEN "wrapper" ELSE "both"
  /\ UNCHANGED keychain
  /\ op' = [o EXCEPT !.pc = "wrap", !.key = p]
  /\ used' = used \union {p}
SetWrapper(p, o) ==
  /\ keyMode' = IF keyMode \in {"none", "wrapper"} THEN "wrapper" ELSE "both"
  /\ keychain' = None
  /\ op' = [o EXCEPT !.pc = "wrap", !.key = p]
  /\ used' = used \union {p}

AddPasscode(p) ==
  /\ Begin("add")
  /\ ~hasPasscode
  /\ p \notin used
  /\ SetWrapper(p, [Idle EXCEPT !.kind = "add"])
  /\ UNCHANGED <<running, rootKey, values, writes, disk, stored, items, server,
                 locked, sync, history>>

\* Then the root key is wrapped, or the passcode's key becomes the root key.
Wrap ==
  /\ At("wrap")
  /\ \/ /\ keyMode = "wrapper"
        /\ rootKey' = op.key
        /\ dirty' = dirty \union keys.known
        /\ sync' = [sync EXCEPT !.sent = @ \ keys.known]
        /\ UNCHANGED <<values, writes>>
     \/ /\ keyMode = "both"
        /\ SetValue("wrapped", [key |-> rootKey, by |-> op.key])
        /\ PersistValues(rootKey, "operation")
        /\ UNCHANGED <<rootKey, dirty, sync>>
  /\ Goto("params")
  /\ UNCHANGED <<running, keyMode, device, keys, server, locked, used, left, history>>

SetWrapperParams ==
  /\ At("params")
  /\ SetValue("wrapper", op.key)
  /\ PersistValues(rootKey, "operation")
  /\ Goto("delete")
  /\ UNCHANGED <<running, keyMode, rootKey, device, items, server, locked, sync,
                 used, left, history>>

\* removeRootKeyWrapper
RemoveWrapper(kind) ==
  LET root == IF keyMode = "wrapper" THEN None ELSE rootKey
  IN /\ Begin(kind)
     /\ hasPasscode
     /\ keyMode' = IF keyMode = "wrapper" THEN "none" ELSE "root"
     /\ rootKey' = root
     /\ RemoveValue("wrapped", Unwrapped, root)
     /\ op' = [Idle EXCEPT !.kind = kind, !.pc = "unparams"]
     /\ UNCHANGED <<running, device, items, server, locked, sync, used, history>>

RemovePasscode == RemoveWrapper("remove") \/ RemoveWrapper("change")

RemoveWrapperParams ==
  /\ At("unparams")
  /\ RemoveValue("wrapper", None, rootKey)
  /\ Goto("keychain")
  /\ UNCHANGED <<running, keyMode, rootKey, device, items, server, locked, sync,
                 used, left, history>>

SaveRootKeyToKeychain ==
  /\ At("keychain")
  /\ keychain' = IF keyMode = "root" THEN rootKey ELSE keychain
  /\ Goto("delete")
  /\ UNCHANGED <<memory, disk, stored, items, server, locked, sync, used, left, history>>

\* rewriteItemsKeys: the items keys are deleted from the database and written again, as they
\* were at first; those that cannot be read are encrypted already.
DeleteItemsKeys ==
  /\ At("delete")
  /\ stored' = Discarded(stored, keys.known)
  /\ op' = [op EXCEPT !.pc = "rewrite", !.payloads = <<keys, dirty, stored.keys>>]
  /\ UNCHANGED <<memory, disk, keychain, items, server, locked, sync, used, left, history>>

\* Changing the passcode goes on with setting the new one.  Variant with a bug first: the keys
\* are not written again.
NoRewriteItemsKeys(p) ==
  /\ At("rewrite")
  /\ IF op.kind = "change" /\ ~hasPasscode
     THEN p \notin used /\ SetWrapper(p, op)
     ELSE op' = Idle /\ UNCHANGED <<keyMode, keychain, used, history>>
  /\ UNCHANGED <<running, rootKey, values, writes, disk, stored, items, server,
                 locked, sync, left, history>>
RewriteItemsKeys(p) ==
  /\ At("rewrite")
  /\ LET flags == op.payloads[1]
         s == Saved(stored, flags.known, stored.note, rootKey, flags, op.payloads[2])
     IN stored' = [s EXCEPT !.keys = [k \in ItemsKey |->
                     IF k \in flags.known \intersect flags.unreadable THEN op.payloads[3][k]
                     ELSE @[k]]]
  /\ IF op.kind = "change" /\ ~hasPasscode
     THEN p \notin used /\ SetWrapper(p, op)
     ELSE op' = Idle /\ UNCHANGED <<keyMode, keychain, used, history>>
  /\ UNCHANGED <<running, rootKey, values, writes, disk, items, server, locked, sync,
                 left, history>>

\* register and signIn: the passcode has been asked for, and the request is made.
Authenticate(kind, a) ==
  /\ Begin(kind)
  /\ ~hasAccount
  /\ IF kind = "register" THEN a \notin used ELSE a = server.root
  /\ locked' = TRUE
  /\ op' = [Idle EXCEPT !.kind = kind, !.pc = "request", !.key = a, !.by = values.wrapper]
  /\ used' = used \union {a}
  /\ UNCHANGED <<memory, device, items, server, sync, history>>

\* changePassword.  syncing may be under way still.
ChangePassword(a) ==
  /\ Begin("password")
  /\ hasAccount
  /\ a \notin used
  /\ locked' = TRUE
  /\ op' = [Idle EXCEPT !.kind = "password", !.pc = "request", !.key = a, !.old = rootKey,
                        !.by = values.wrapper]
  /\ used' = used \union {a}
  /\ UNCHANGED <<memory, device, items, server, sync, history>>

\* What becomes of an operation whose request failed.  Going back to the old password, the
\* result is not looked at.
Fails ==
  /\ locked' = FALSE
  /\ IF op.back
     THEN /\ dirty' = dirty \union keys.known
          /\ sync' = [sync EXCEPT !.sent = @ \ keys.known]
          /\ op' = [op EXCEPT !.pc = "itemskey"]
     ELSE op' = Idle /\ UNCHANGED <<dirty, sync>>

Request ==
  /\ At("request")
  /\ \/ /\ op.kind = "register" => server.root = None
        /\ server' = [server EXCEPT !.root = op.key]
        /\ Goto("root")
        /\ UNCHANGED <<dirty, sync, locked, left>>
     \/ \* refused, or not delivered, or its answer is lost
        /\ IF op.back THEN UNCHANGED left ELSE Spend("failures")
        /\ \/ UNCHANGED server
           \/ /\ op.kind = "register" => server.root = None
              /\ server' = [server EXCEPT !.root = op.key]
        /\ Fails
  /\ UNCHANGED <<memory, device, keys, used, history>>

\* setRootKey
SetRootKey ==
  /\ At("root")
  /\ keyMode' = IF keyMode \in {"wrapper", "both"} THEN "both" ELSE "root"
  /\ rootKey' = op.key
  /\ SetValue("params", op.key)
  /\ PersistValues(op.key, "operation")
  /\ Goto("store")
  /\ UNCHANGED <<running, device, items, server, locked, sync, used, left, history>>

\* Variant with a bug first: the root key is not wrapped again.
StoreRootKeyInKeychain ==
  /\ At("store")
  /\ keychain' = rootKey
  /\ UNCHANGED <<values, writes>>
  /\ Goto("mark")
  /\ UNCHANGED <<running, keyMode, rootKey, disk, stored, items, server, locked,
                 sync, used, left, history>>
StoreRootKey ==
  /\ At("store")
  /\ \/ /\ keyMode = "root"
        /\ keychain' = rootKey
        /\ UNCHANGED <<values, writes>>
     \/ /\ keyMode = "both"
        /\ SetValue("wrapped", [key |-> rootKey, by |-> op.by])
        /\ PersistValues(rootKey, "operation")
        /\ UNCHANGED keychain
  /\ Goto("mark")
  /\ UNCHANGED <<running, keyMode, rootKey, disk, stored, items, server, locked,
                 sync, used, left, history>>

\* The user and the session are stored.  After signing in everything is marked as needing sync,
\* and stored, or, not merging, everything local is removed.
MarkAllItems ==
  /\ At("mark")
  /\ op.kind \in {"register", "signin"}
  /\ PersistValues(rootKey, "other")
  /\ \/ /\ dirty' = keys.known \union {Note}
        /\ \E d \in DefaultKeys :
             stored' = Saved(stored, keys.known, d, rootKey, keys, keys.known)
        /\ UNCHANGED keys
     \/ /\ keys' = [known |-> {}, deleted |-> {}, default |-> {}, synced |-> {}, unreadable |-> {}]
        /\ dirty' = {}
        /\ stored' = Erased
  /\ sync' = [sync EXCEPT !.first = TRUE, !.sent = {}, !.gone = {}]
  /\ locked' = FALSE
  /\ op' = Idle
  /\ UNCHANGED <<running, keyMode, rootKey, values, disk, keychain, server, used,
                 left, history>>

PasswordChanged ==
  /\ At("mark")
  /\ op.kind = "password"
  /\ PersistValues(rootKey, "other")
  /\ Goto("itemskey")
  /\ locked' = FALSE
  /\ UNCHANGED <<running, keyMode, rootKey, values, device, items, server, sync,
                 used, left, history>>

\* createNewDefaultItemsKey
Created(k) ==
  /\ k \in ItemsKey \ used
  /\ keys' = [keys EXCEPT !.known = @ \union {k}, !.default = (@ \intersect keys.unreadable) \union {k}]
  /\ used' = used \union {k}

\* createNewItemsKeyWithRollback and reencryptItemsKeys.  Variant with a bug first: the keys
\* there are already are not encrypted again.
OnlyNewItemsKey(k) ==
  /\ At("itemskey")
  /\ ~op.back
  /\ Created(k)
  /\ dirty' = dirty \union {k}
  /\ UNCHANGED sync
  /\ \E d \in DefaultKeys : op' = [op EXCEPT !.pc = "sync", !.itemsKey = k, !.was = d]
  /\ UNCHANGED <<memory, device, server, locked, left, history>>
NewItemsKey(k) ==
  /\ At("itemskey")
  /\ ~op.back
  /\ Created(k)
  /\ dirty' = dirty \union keys.known \union {k}
  /\ sync' = [sync EXCEPT !.sent = @ \ keys.known]
  /\ \E d \in DefaultKeys : op' = [op EXCEPT !.pc = "sync", !.itemsKey = k, !.was = d]
  /\ UNCHANGED <<memory, device, server, locked, left, history>>

\* The sync that was awaited is over.  If the new items key was not uploaded, the password is
\* changed back; syncing is not locked this time.
AwaitedSync ==
  /\ At("synced")
  /\ op' = IF op.back \/ \A k \in DefaultKeys : k \in keys.synced THEN Idle
           ELSE [op EXCEPT !.pc = "request", !.key = op.old, !.back = TRUE]
  /\ UNCHANGED <<memory, device, items, server, locked, sync, used, left, history>>

\* The rollback deletes the new items key and makes the old one the default again.
Rollback ==
  /\ At("itemskey")
  /\ op.back
  /\ keys' = [keys EXCEPT !.known = @ \ {op.itemsKey}, !.deleted = @ \union {op.itemsKey},
                          !.default = (@ \ {op.itemsKey}) \union ({op.was} \intersect keys.known)]
  /\ dirty' = (dirty \union keys.known) \ {op.itemsKey}
  /\ sync' = [sync EXCEPT !.sent = @ \ keys.known]
  /\ undone' = undone \union {op.itemsKey}
  /\ Goto("sync")
  /\ UNCHANGED <<memory, device, server, locked, used, interrupted, left>>

\* signOut: clearLocalKeyState, clearAllData, and the application ends.
SignOut ==
  /\ Begin("signout")
  /\ keychain' = None
  /\ values' = [wrapper |-> None, wrapped |-> Unwrapped, params |-> None]
  /\ PersistValues(rootKey, "operation")
  /\ keyMode' = "none" /\ rootKey' = None
  /\ op' = [Idle EXCEPT !.kind = "signout", !.pc = "clear"]
  /\ locked' = TRUE
  /\ UNCHANGED <<running, disk, stored, items, server, sync, used, history>>

ClearAllData ==
  /\ At("clear")
  /\ disk' = [by |-> None, wrapper |-> None, wrapped |-> Unwrapped, params |-> None]
  /\ stored' = Erased
  /\ running' = FALSE
  /\ writes' = <<>>
  /\ UNCHANGED <<keyMode, rootKey, values, keychain, items, server, op, locked, sync,
                 used, left, history>>

-------------------------------------------------------------------------------
(***************************************************************************)
(* The sync service, as far as keys are concerned.                         *)
(***************************************************************************)
Edit ==
  /\ running
  /\ Note \notin dirty
  /\ dirty' = dirty \union {Note}
  /\ UNCHANGED <<memory, device, keys, server, op, locked, sync, used, left, history>>

\* getDirtyItems: those that can be read.
DirtyItems == dirty \ keys.unreadable

\* Before anything else, what is dirty is stored.  With an unreadable default key neither this
\* nor the request is possible.  Deleted keys lose their content; those never uploaded wait.
Save ==
  LET deleted == keys.deleted \intersect keys.synced
      saved == DirtyItems \intersect keys.known
  IN /\ running /\ ~locked
     /\ sync.pc = "idle"
     /\ DirtyItems # {} \/ keys.deleted # {} \/ sync.first \/ op.pc = "sync" \/ DefaultKeys = {None}
     /\ sync' = [sync EXCEPT !.pc = "saved", !.sent = DirtyItems, !.gone = keys.deleted,
                             !.by = rootKey, !.online = hasAccount]
     /\ \E d \in DefaultKeys :
          /\ ~(Note \in dirty /\ d \in keys.unreadable)
          /\ LET s == Saved(stored, saved, IF Note \in dirty THEN d ELSE stored.note, rootKey,
                            keys, dirty)
             IN stored' = [Discarded(s, deleted) EXCEPT !.deleted = @ \union deleted]
     /\ Goto(IF op.pc = "sync" THEN "syncing" ELSE op.pc)
     /\ UNCHANGED <<memory, disk, keychain, items, server, locked, used, left, history>>

\* A download retrieves the account's items keys.  The client's own are kept if they are to be
\* uploaded or deleted, and those it can read, when what is retrieved cannot be.
Retrieved == {k \in ItemsKey : server.keys[k] # Absent}
Mapped ==
  {k \in Retrieved \ (keys.deleted \union DirtyItems) :
     server.keys[k] = rootKey \/ k \notin keys.known \ keys.unreadable}

\* When it is complete, items keys that were never uploaded go if the account has a default one.
KeptKeys(known, synced, default) ==
  IF synced \intersect default # {} THEN known \intersect synced ELSE known

DownloadFirst ==
  LET known == keys.known \union Mapped
      synced == keys.synced \union Retrieved
      default == (keys.default \ Mapped) \union (server.default \intersect Mapped)
      unreadable == (keys.unreadable \ Mapped) \union {k \in Mapped : server.keys[k] # rootKey}
      kept == KeptKeys(known, synced, default \ unreadable)
      discarded == sync.gone \ keys.synced
      after == [known |-> kept, deleted |-> (keys.deleted \ discarded) \union (known \ kept),
                default |-> default, synced |-> synced, unreadable |-> unreadable]
      s == Saved(stored, Mapped, stored.note, rootKey, after, {})
  IN /\ running
     /\ sync.pc = "saved" /\ sync.online /\ sync.first
     /\ op.pc \notin {"root", "store", "mark"}
     /\ keys' = after
     /\ dirty' = dirty \ (Mapped \union (known \ kept))
     /\ stored' = [s EXCEPT !.keys = [k \in ItemsKey |->
                     IF k \in discarded THEN Absent
                     ELSE IF k \in Mapped \intersect unreadable THEN server.keys[k] ELSE @[k]]]
     /\ sync' = [pc |-> "idle", first |-> FALSE, sent |-> {}, gone |-> {}, by |-> None,
                 online |-> FALSE]
     /\ UNCHANGED <<memory, disk, keychain, server, op, locked, used, left, history>>

SyncEnds == Goto(IF op.pc = "syncing" THEN "synced" ELSE op.pc)

\* What was sent is saved by the server, and stored again; deletions are made there, and those
\* of keys that were not uploaded when the sync began here alone.  Without a default key one is
\* created, and, with a passcode alone, everything is stored again.
Uploaded(fresh) ==
  LET sent == sync.sent \intersect ItemsKey
      now == IF sync.online THEN [keys EXCEPT !.synced = @ \union sent, !.deleted = @ \ sync.gone]
             ELSE [keys EXCEPT !.deleted = @ \ sync.gone]
  IN /\ running
     /\ sync.pc = "saved" /\ ~(sync.first /\ sync.online)
     /\ server' = IF ~sync.online THEN server
                  ELSE [server EXCEPT !.keys = [k \in ItemsKey |-> IF k \in sent THEN sync.by
                                                  ELSE IF k \in sync.gone \intersect keys.synced
                                                       THEN Absent ELSE @[k]],
                                      !.default = (@ \ sent) \union (now.default \intersect sent)]
     /\ \/ /\ DefaultKeys # {None}
           /\ fresh = None
           /\ keys' = now
           /\ dirty' = dirty \ sync.sent
           /\ UNCHANGED used
        \/ /\ DefaultKeys = {None}
           /\ fresh \in ItemsKey \ used
           /\ keys' = [now EXCEPT !.known = @ \union {fresh}, !.default = {fresh}]
           /\ dirty' = (dirty \ sync.sent) \union {fresh}
           /\ used' = used \union {fresh}
     /\ stored' =
          LET s == [Discarded(Saved(stored, sent \intersect keys.known, stored.note, rootKey, now, {}),
                              sync.gone)
                    EXCEPT !.deleted = @ \ sync.gone]
          IN IF fresh = None \/ keyMode # "wrapper" THEN s
             ELSE Saved(s, keys'.known, IF s.note = Absent THEN Absent ELSE fresh, rootKey, keys',
                        dirty')
     /\ sync' = [sync EXCEPT !.pc = "idle", !.sent = {}, !.gone = {}]
     /\ SyncEnds
     /\ UNCHANGED <<memory, disk, keychain, locked, left, history>>

SyncFails ==
  /\ running
  /\ sync.pc = "saved" /\ sync.online
  /\ Spend("failures")
  /\ sync' = [sync EXCEPT !.pc = "idle", !.sent = {}, !.gone = {}]
  /\ SyncEnds
  /\ UNCHANGED <<memory, device, items, server, locked, used, history>>

\* The key recovery service has the user enter an earlier password.
RecoverKeys ==
  /\ running /\ op = Idle /\ sync.pc = "idle"
  /\ keys.unreadable # {}
  /\ keys' = [keys EXCEPT !.unreadable = {}]
  /\ dirty' = dirty \union keys.unreadable
  /\ stored' = Saved(stored, keys.unreadable, stored.note, rootKey, [keys EXCEPT !.unreadable = {}],
                     keys.unreadable)
  /\ UNCHANGED <<memory, disk, keychain, server, op, locked, sync, used, left, history>>

-------------------------------------------------------------------------------
(***************************************************************************)
(* The end of the application, and its launch.                             *)
(***************************************************************************)
End ==
  /\ running
  /\ op.pc \in EndsAt
  /\ Spend("ends")
  /\ running' = FALSE
  /\ writes' = <<>>
  /\ interrupted' = (interrupted \/ op # Idle)
  /\ UNCHANGED <<keyMode, rootKey, values, device, items, server, op, locked, sync,
                 used, undone>>

\* initialize: the key mode, from what is stored.
HasRootKey == disk.wrapped # Unwrapped \/ disk.params # None
StoredMode ==
  IF disk.wrapper # None THEN IF HasRootKey THEN "both" ELSE "wrapper"
  ELSE IF HasRootKey THEN "root" ELSE "none"

\* needsKeychainRepair: the keychain is empty, and the user enters the account's password.
NeedsKeychainRepair == disk.params # None /\ disk.wrapper = None /\ keychain = None

\* The root key after the user has answered all challenges.
OpenedKey ==
  CASE StoredMode = "none" -> None
    [] StoredMode = "wrapper" -> disk.wrapper
    [] StoredMode = "root" -> IF NeedsKeychainRepair THEN disk.params ELSE keychain
    [] StoredMode = "both" -> disk.wrapped.key

Reads(key, by) == by = None \/ by = key

Launch ==
  /\ ~running
  /\ running' = TRUE
  /\ keyMode' = StoredMode
  /\ rootKey' = OpenedKey
  /\ keychain' = IF NeedsKeychainRepair THEN disk.params ELSE keychain
  /\ values' = [wrapper |-> disk.wrapper, wrapped |-> disk.wrapped, params |-> disk.params]
  /\ writes' = <<>>
  /\ LET known == {k \in ItemsKey : stored.keys[k] # Absent}
     IN keys' = [known |-> known, deleted |-> stored.deleted,
                 default |-> stored.default \intersect known, synced |-> stored.synced,
                 unreadable |-> {k \in known : ~Reads(OpenedKey, stored.keys[k])}]
  /\ dirty' = {k \in ItemsKey : stored.keys[k] # Absent} \intersect stored.dirty
  /\ op' = Idle /\ locked' = FALSE
  /\ sync' = [pc |-> "idle", first |-> TRUE, sent |-> {}, gone |-> {}, by |-> None,
             online |-> FALSE]
  /\ UNCHANGED <<disk, stored, server, used, left, history>>

-------------------------------------------------------------------------------
User ==
  \/ \E p \in PasscodeKey : AddPasscode(p)
  \/ RemovePasscode
  \/ \E a \in AccountKey : \/ Authenticate("register", a) \/ Authenticate("signin", a)
                           \/ ChangePassword(a)
  \/ SignOut \/ Edit
Credentials ==
  \/ Wrap \/ SetWrapperParams \/ RemoveWrapperParams \/ SaveRootKeyToKeychain
  \/ DeleteItemsKeys \/ \E p \in PasscodeKey : RewriteItemsKeys(p)
  \/ Request \/ SetRootKey \/ StoreRootKey \/ MarkAllItems \/ PasswordChanged
  \/ \E k \in ItemsKey : NewItemsKey(k)
  \/ AwaitedSync \/ Rollback \/ ClearAllData
Sync ==
  \/ Save \/ DownloadFirst \/ \E k \in ItemsKey \union {None} : Uploaded(k)
  \/ SyncFails \/ RecoverKeys

Next == User \/ Credentials \/ Sync \/ SetRawStorageValue \/ SetOtherValue \/ End \/ Launch

Spec == Init /\ [][Next]_vars

-------------------------------------------------------------------------------
(****************************************************************************)
(* Whenever the application has ended, the user gets in again: the passcode *)
(* is or unwraps the root key, or the keychain has it, and with it the      *)
(* stored values are decrypted.  Nobody has to repair the keychain.         *)
(****************************************************************************)
Unlocks ==
  ~running =>
    /\ StoredMode = "both" => disk.wrapped.by = disk.wrapper
    /\ ~NeedsKeychainRepair
    /\ Reads(OpenedKey, disk.by)

(******************************************************************************)
(* And no item in the database is lost: its items key is there, and decrypts  *)
(* with the root key then opened or with one from an earlier password.  Left  *)
(* out are items stored under a key that a failed change of the password took *)
(* back: see NothingIsLost.                                                   *)
(******************************************************************************)
Readable(k) == stored.keys[k] \in {None, OpenedKey} \union AccountKey
ItemsReadable == ~running /\ stored.note \in ItemsKey \ undone => Readable(stored.note)

(***************************************************************************)
(* "Roll back on failure": a change of the password that fails leaves the  *)
(* items as they were, so that they can be read still.  No run checks it:  *)
(* it does not hold of items that a sync wrote under the new items key     *)
(* meanwhile.                                                              *)
(***************************************************************************)
NothingIsLost == ~running /\ stored.note \in ItemsKey => Readable(stored.note)

(*******************************************************************************)
(* Once an operation and the syncs it asked for are over, nothing is left that *)
(* goes around it, unless the operation was cut short: with a passcode the     *)
(* keychain is empty, and values and items keys are on the device under the    *)
(* current root key only.                                                      *)
(*******************************************************************************)
Settled ==
  /\ running /\ op = Idle /\ writes = <<>> /\ sync.pc = "idle" /\ ~sync.first
  /\ dirty = {} /\ keys.unreadable = {}
NothingIsBare ==
  Settled /\ ~interrupted /\ keyMode # "none" =>
    /\ keychain = IF hasPasscode THEN None ELSE rootKey
    /\ disk.by = rootKey
    /\ \A k \in keys.known : stored.keys[k] = rootKey

(****************************************************************************)
(* Unless a request failed or an operation was cut short, the client's root *)
(* key is the account's, whatever was changed, and its items keys are       *)
(* encrypted on the server with it.                                         *)
(****************************************************************************)
RootKeyIsAccounts ==
  Settled /\ ~interrupted /\ hasAccount /\ left.failures = MaxFailures =>
    /\ rootKey = server.root
    /\ \A k \in keys.known : server.keys[k] = rootKey
===============================================================================
