------------------------------- MODULE Singletons -------------------------------
(***************************************************************************)
(* The singleton manager and the preferences service, on the devices of an *)
(* account: each looks for its only UserPrefs item after a sync, creates   *)
(* one if there is none, and deletes all but the earliest if there are     *)
(* several, while other devices do the same.                               *)
(*                                                                         *)
(* An item is the time of its creation, whether it is deleted, whether it  *)
(* is dirty, and whether it waits for a key.  A sync is two steps: the     *)
(* server answers, the device takes the answer in; ItemSync has what is    *)
(* between, and its failures.                                              *)
(***************************************************************************)
EXTENDS Naturals, FiniteSets, FiniteSetsExt

CONSTANTS
  Device,
  None,
  Stored,    \* the item that the account has, if it has one
  MaxPrefs,  \* bound: items at the same time, enough for what the other bounds allow
  MaxEdits,  \* bound: values set by users
  MaxErrors  \* bound: items retrieved before their key

ASSUME PrefsAssumption == MaxPrefs \in Nat /\ Stored \in 1 .. MaxPrefs /\ None \notin 1 .. MaxPrefs
ASSUME BoundAssumption == MaxEdits \in Nat /\ MaxErrors \in Nat

\* The items with the predicate, by created_at.
Prefs == 1 .. MaxPrefs
Dirty == {"no", "sent", "yes"}  \* dirtiedDate against lastSyncBegan
Item == [deleted : BOOLEAN, errorDecrypting : BOOLEAN, dirty : Dirty, synced : BOOLEAN]

VARIABLES
  items,      \* on each device, or None
  server,     \* "none", "live" or "deleted"
  unseen,     \* what the server has that a device has not retrieved
  response,   \* what the server has answered a device, or None
  event,      \* completed syncs that the observers have not been told of, or are busy with
  queue,      \* resolveQueue
  service,    \* the preferences service
  left,       \* what remains of the bounds
  dropped     \* whether settings that could not be decrypted were deleted

vars == <<items, server, unseen, response, event, queue, service, left, dropped>>

Live(d) == {p \in Prefs : items[d][p] # None /\ ~items[d][p].deleted}
Valid(d) == {p \in Live(d) : ~items[d][p].errorDecrypting}

\* A new item has a new uuid; what everyone has forgotten can stand for it.
Unused(d) ==
  {p \in Prefs :
     /\ server[p] # "live"
     /\ \A e \in Device :
          /\ items[e][p] = None /\ p \notin unseen[e]
          /\ response[e] # None => p \notin DOMAIN response[e].answered
          /\ e = d \/ service[e].preferences # p}

Fresh == [deleted |-> FALSE, errorDecrypting |-> FALSE, dirty |-> "yes", synced |-> FALSE]
Service == [preferences |-> None, shouldReload |-> TRUE, reloading |-> FALSE]

\* Deleting marks an item; what was never uploaded goes with the next sync.
Deletes(map, gone) ==
  [p \in Prefs |-> IF p \in gone THEN [map[p] EXCEPT !.deleted = TRUE, !.dirty = "yes"] ELSE map[p]]

-------------------------------------------------------------------------------
(***************************************************************************)
(* Syncs.                                                                  *)
(***************************************************************************)
NeverSyncedDeleted(d) ==
  {p \in Prefs : items[d][p] # None /\ items[d][p].deleted /\ ~items[d][p].synced}

\* The server saves what it has not changed since the device last saw it.  An item that waits
\* for its key is only sent to be deleted.  The first request only downloads.  Bound: none is made
\* before observers were told of the last.
Request(d) ==
  LET first == "first" \in event[d]
      sent == IF first THEN {}
              ELSE {p \in Prefs : /\ items[d][p] # None /\ items[d][p].dirty # "no"
                                  /\ p \notin NeverSyncedDeleted(d)
                                  /\ items[d][p].errorDecrypting => items[d][p].deleted}
      saved == sent \ unseen[d]
      answered == [p \in unseen[d] |-> server[p]]
  IN /\ response[d] = None
     /\ event[d] \intersect {"download", "resolve"} = {}
     /\ response' = [response EXCEPT ![d] = [saved |-> saved, conflicts |-> sent \intersect unseen[d],
                                             answered |-> answered, first |-> first]]
     /\ server' = [p \in Prefs |-> IF p \notin saved THEN server[p]
                                   ELSE IF items[d][p].deleted THEN "deleted" ELSE "live"]
     /\ unseen' = [e \in Device |-> IF e = d THEN {} ELSE unseen[e] \union saved]
     /\ items' = [items EXCEPT ![d] = [p \in Prefs |-> IF p \in sent THEN [@[p] EXCEPT !.dirty = "sent"]
                                                       ELSE @[p]]]
     /\ event' = [event EXCEPT ![d] = @ \ {"first"}]
     /\ UNCHANGED <<queue, service, left, dropped>>

\* ConflictDelta of a singleton: the local one is kept, and uploaded again.
KeepLeft(item) == [item EXCEPT !.dirty = "yes"]

Retrieved(item, status, lacksKey) ==
  IF status = "deleted" THEN None
  ELSE IF item # None /\ item.dirty # "no" /\ ~item.errorDecrypting THEN KeepLeft(item)
  ELSE [deleted |-> FALSE, errorDecrypting |-> lacksKey, synced |-> TRUE,
        dirty |-> IF item # None /\ item.dirty = "yes" THEN "yes" ELSE "no"]

Saved(item) ==
  IF item.dirty = "yes" THEN [item EXCEPT !.synced = TRUE]
  ELSE IF item.deleted THEN None ELSE [item EXCEPT !.dirty = "no", !.synced = TRUE]

\* The service reloads after any change.  Variant with a bug first: after what is inserted.
AnnouncesInserted(before, after) == \E p \in Prefs : before[p] = None /\ after[p] # None
Announces(before, after) == before # after

\* What the observers of inserted items are given is queued.  The deleted items that were never
\* uploaded are dropped, and then the event is notified.
Receive(d) ==
  LET r == response[d]
      known == DOMAIN r.answered \ r.conflicts
  IN /\ r # None
     /\ \E lacking \in SUBSET {p \in known : r.answered[p] = "live"} :
          /\ Cardinality(lacking) <= left.errors
          /\ lacking # {} => left.edits = MaxEdits
          /\ left' = [left EXCEPT !.errors = @ - Cardinality(lacking)]
          /\ items' = [items EXCEPT ![d] =
               [p \in Prefs |->
                  IF p \in NeverSyncedDeleted(d) \ (r.saved \union DOMAIN r.answered) THEN None
                  ELSE IF p \in r.saved THEN Saved(@[p])
                  ELSE IF p \in r.conflicts /\ @[p] # None THEN KeepLeft(@[p])
                  ELSE IF p \in DOMAIN r.answered THEN Retrieved(@[p], r.answered[p], p \in lacking)
                  ELSE @[p]]]
     /\ queue' = [queue EXCEPT ![d] = @ \union {p \in Prefs : items[d][p] = None /\ items'[d][p] # None}]
     /\ service' = [service EXCEPT ![d].shouldReload = @ \/ Announces(items[d], items'[d])]
     /\ response' = [response EXCEPT ![d] = None]
     /\ event' = [event EXCEPT ![d] = @ \union {IF r.first THEN "download" ELSE "resolve"}]
     /\ UNCHANGED <<server, unseen, dropped>>

-------------------------------------------------------------------------------
(***************************************************************************)
(* The singleton manager.                                                  *)
(***************************************************************************)
\* handleStrategy: KeepEarliest.  Variant with a bug first: the one in use.
KeptInUse(d, matching) ==
  IF service[d].preferences \in matching THEN {service[d].preferences} ELSE {Min(matching)}
Kept(d, matching) == {Min(matching)}

\* Variant with a bug first: a pair is left alone.
SuperfluousPair(d, matching) == IF Cardinality(matching) <= 2 THEN {} ELSE matching \ Kept(d, matching)
Superfluous(d, matching) == IF Cardinality(matching) <= 1 THEN {} ELSE matching \ Kept(d, matching)

\* resolveSingletonsForItems: only for what was queued, of which every one matches the same.
\* After a full sync it syncs again, and then the preferences are reloaded.
Resolve(d, name) ==
  LET valid == Valid(d)
      gone == IF queue[d] = {} THEN {} ELSE Superfluous(d, valid)
  IN /\ name \in event[d]
     /\ items' = [items EXCEPT ![d] = Deletes(@, gone)]
     /\ queue' = [queue EXCEPT ![d] = {}]
     /\ service' = [service EXCEPT ![d].shouldReload = @ \/ gone # {}]
     /\ event' = [event EXCEPT ![d] = (@ \ {name}) \union (IF name = "resolve" THEN {"reload"} ELSE {})]
     /\ UNCHANGED <<server, unseen, response, left, dropped>>

\* A key has come: the item is decrypted, which is queued.
Decrypt(d, p) ==
  /\ p \in Live(d) /\ items[d][p].errorDecrypting
  /\ items' = [items EXCEPT ![d][p].errorDecrypting = FALSE]
  /\ queue' = [queue EXCEPT ![d] = @ \union {p}]
  /\ service' = [service EXCEPT ![d].shouldReload = TRUE]
  /\ UNCHANGED <<server, unseen, response, event, left, dropped>>

-------------------------------------------------------------------------------
(***************************************************************************)
(* The preferences service, and findOrCreateSingleton which it calls.      *)
(***************************************************************************)
\* Found, or nothing to do.
Reload(d) ==
  /\ "reload" \in event[d]
  /\ event' = [event EXCEPT ![d] = @ \ {"reload"}]
  /\ \/ /\ ~service[d].shouldReload \/ service[d].reloading
        /\ UNCHANGED <<items, service, dropped>>
     \/ /\ service[d].shouldReload /\ ~service[d].reloading
        /\ \E p \in Valid(d) :
             service' = [service EXCEPT ![d].preferences = p, ![d].shouldReload = FALSE]
        /\ UNCHANGED <<items, dropped>>
     \/ \* none is found: those without a key are deleted, and a uuid is generated
        /\ service[d].shouldReload /\ ~service[d].reloading
        /\ Valid(d) = {}
        /\ items' = [items EXCEPT ![d] = Deletes(@, Live(d))]
        /\ dropped' = (dropped \/ Live(d) # {})
        /\ service' = [service EXCEPT ![d].reloading = TRUE]
  /\ UNCHANGED <<server, unseen, response, queue, left>>

Create(d) ==
  /\ service[d].reloading
  /\ \E p \in Unused(d) :
       /\ items' = [items EXCEPT ![d][p] = Fresh]
       /\ queue' = [queue EXCEPT ![d] = @ \union {p}]
       /\ service' = [service EXCEPT ![d] = [preferences |-> p, shouldReload |-> FALSE, reloading |-> FALSE]]
  /\ UNCHANGED <<server, unseen, response, event, left, dropped>>

\* The value goes to the item that was found last.  If it is deleted, this throws.  A conflict
\* over an item that another device cannot decrypt would stop its syncs: the bound is either of
\* values or of items without a key.
SetValue(d) ==
  LET p == service[d].preferences
  IN /\ left.edits > 0 /\ left' = [left EXCEPT !.edits = @ - 1]
     /\ left.errors = MaxErrors
     /\ p \in Valid(d)
     /\ items' = [items EXCEPT ![d][p].dirty = "yes"]
     /\ service' = [service EXCEPT ![d].shouldReload = TRUE]
     /\ UNCHANGED <<server, unseen, response, event, queue, dropped>>

-------------------------------------------------------------------------------
\* The account may have settings.  A device has a copy of them, or has none, or has settings of
\* its own from before it signed in.
Init ==
  \E own \in [Device -> Prefs], has \in [Device -> {"nothing", "copy", "own"}], exists \in BOOLEAN :
    /\ \A d \in Device :
         /\ has[d] = "copy" => exists
         /\ has[d] = "own" <=> own[d] # Stored
         /\ \A e \in Device \ {d} : has[d] = "own" => own[d] # own[e]
    /\ server = [p \in Prefs |-> IF exists /\ p = Stored THEN "live" ELSE "none"]
    /\ items = [d \in Device |-> [p \in Prefs |->
                  IF has[d] = "copy" /\ p = Stored THEN [Fresh EXCEPT !.dirty = "no", !.synced = TRUE]
                  ELSE IF has[d] = "own" /\ p = own[d] THEN Fresh ELSE None]]
    /\ unseen = [d \in Device |-> IF exists /\ has[d] # "copy" THEN {Stored} ELSE {}]
    /\ queue = [d \in Device |-> {p \in Prefs : items[d][p] # None}]
    /\ service = [d \in Device |-> [Service EXCEPT !.preferences =
                    IF has[d] = "nothing" THEN None ELSE own[d]]]
    /\ response = [d \in Device |-> None]
    /\ event = [d \in Device |-> {"first"}]
    /\ left = [edits |-> MaxEdits, errors |-> MaxErrors]
    /\ dropped = FALSE

DeviceStep(d) ==
  \/ Request(d) \/ Receive(d)
  \/ Resolve(d, "download") \/ Resolve(d, "resolve") \/ Reload(d) \/ Create(d)
  \/ \E p \in Prefs : Decrypt(d, p)

Next == \E d \in Device : DeviceStep(d) \/ SetValue(d)

\* A timer syncs; observers are called; a key comes in the end.
Fairness ==
  \A d \in Device :
    /\ WF_vars(Request(d)) /\ WF_vars(Receive(d))
    /\ WF_vars(Resolve(d, "download")) /\ WF_vars(Resolve(d, "resolve"))
    /\ WF_vars(Reload(d)) /\ WF_vars(Create(d))
    /\ \A p \in Prefs : WF_vars(Decrypt(d, p))

Spec == Init /\ [][Next]_vars /\ Fairness

-------------------------------------------------------------------------------
(***************************************************************************)
(* Devices that delete what they take for duplicates at the same time do   *)
(* not delete each other's: once the account has settings there always are *)
(* some, unless a device gave up those that it could not decrypt.          *)
(***************************************************************************)
SettingsSurvive ==
  ~dropped /\ (\E p \in Prefs : server[p] # "none") => \E p \in Prefs : server[p] = "live"

(****************************************************************************)
(* "the end result is that only 1 item remains, and the others are deleted" *)
(* (registerPredicate): once nobody sets values any more every device comes *)
(* to have the same one, and nothing to upload.                             *)
(****************************************************************************)
Remains(p) ==
  \A d \in Device : Live(d) = {p} /\ items[d][p].dirty = "no" /\ ~items[d][p].errorDecrypting
OneRemains == <>[](\E p \in Prefs : Remains(p))

(***************************************************************************)
(* And the preferences service of each device reads and changes that one,  *)
(* though items come and go while it reloads.                              *)
(***************************************************************************)
PreferencesFollow == <>[](\E p \in Prefs : \A d \in Device : service[d].preferences = p /\ p \in Live(d))
===============================================================================
