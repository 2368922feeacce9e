------------------------------- MODULE ItemSync -------------------------------
(****************************************************************************)
(* What syncing does to the items: the edits of this client, the collection *)
(* in its memory, its database, the sync token, and the requests that bring *)
(* them together with the server, where other clients write too.            *)
(*                                                                          *)
(* SyncQueue is about which requests are made, and that they never overlap; *)
(* this module takes one request at a time, from reading the dirty items to *)
(* storing what the response leaves.  A step is the code between two awaits *)
(* that really wait, so edits fall between any two steps.                   *)
(*                                                                          *)
(* The content of an item is a number, a new one for each edit; contents    *)
(* that differ, differ in more than references.  Of dates, only what the    *)
(* code compares is kept: dirtiedDate with lastSyncBegan, and the versions  *)
(* of an item.                                                              *)
(****************************************************************************)
EXTENDS Naturals, FiniteSets, Sequences

CONSTANTS
  Items,            \* how many items there are at first, in sync
  MaxUuid,          \* bound: the uuids, for items and conflicted copies
  None,             \* no payload, no item
  UpLimit,          \* SyncUpDownLimit: payloads in one request, 150 in the code
  EditWhileStoring, \* whether items of a response change while it is being stored
  MaxEdits,         \* bound: edits by the user
  MaxCreates,       \* bound: items created by the user
  MaxDeletes,       \* bound: items deleted by the user
  MaxRemote,        \* bound: edits by other clients
  MaxRemoteDeletes, \* bound: deletions by other clients
  MaxFaults,        \* bound: lost requests and responses
  MaxCrashes        \* bound: restarts of the application

ASSUME UuidAssumption == Items \in Nat /\ MaxUuid \in Nat /\ Items <= MaxUuid
ASSUME BoundAssumption ==
  /\ {MaxEdits, MaxCreates, MaxDeletes, MaxRemote, MaxRemoteDeletes, MaxFaults,
      MaxCrashes} \subseteq Nat
  /\ UpLimit \in Nat \ {0}
  /\ EditWhileStoring \in BOOLEAN

VARIABLES
  master,    \* payloadManager.collection
  conflictMap, \* its conflictMap: the conflicted copies of each item
  history,   \* the history manager's staged and newest revision of each item
  disk,      \* the payloads in the database
  token,     \* syncToken
  diskToken, \* what storage has of it
  firstDone, \* completedOnlineDownloadFirstSync
  op,        \* the request that runs
  server,    \* the server's items
  clock,     \* the server's newest version
  uuids,     \* how many uuids are in use, or were
  copyOf,    \* conflict_of, part of the content of a conflicted copy
  written,   \* every content so far: the item it was written in, what it replaces
  uploaded,  \* history: the contents that have been on the server
  deletions, \* history: the uuids of the items that were deleted
  missed,    \* history: the items with a state the client will not be told of again
  left       \* what remains of the bounds

items == <<master, conflictMap, history>>
store == <<disk, token, diskToken, firstDone>>
client == <<items, store>>
account == <<server, clock, uploaded>>
names == <<uuids, copyOf, written>>
past == <<deletions, missed>>
vars == <<client, op, account, names, past, left>>

Uuid == 1..MaxUuid
Initial == 1..Items

Content == Nat
NoContent == 0

(****************************************************************************)
(* dirtied is dirtiedDate: unset, before lastSyncBegan or not.  began tells *)
(* whether lastSyncBegan is set.  version is updated_at_timestamp.          *)
(****************************************************************************)
Payload == [content : Content, version : Nat, deleted : BOOLEAN, dirty : BOOLEAN,
            dirtied : {"unset", "before", "since"}, began : BOOLEAN]

ServerItem == [content : Content, version : Nat, deleted : BOOLEAN]

ASSUME NoneAssumption == None \notin Payload \cup ServerItem

(***************************************************************************)
(* An element of an emitted collection: saved payloads have no content.    *)
(***************************************************************************)
Element == [p : Payload, saved : BOOLEAN]

NoResponse == [saved |-> {}, retrieved |-> {}, conflicts |-> {},
               data |-> [u \in Uuid |-> None], token |-> 0]

NoSync == [pc |-> "idle", mode |-> "Default", items |-> [u \in Uuid |-> None],
           unsynced |-> {}, pending |-> {}, token |-> 0,
           resp |-> NoResponse, collections |-> <<>>, unsaved |-> <<>>]

Present(f) == {u \in Uuid : f[u] # None}
DirtyItems == {u \in Present(master) : master[u].dirty}
neverSynced(p) == p.version = 0
discardable(p) == p.deleted /\ ~p.dirty

\* The fields that go to the database.
Stored(p) == [p EXCEPT !.dirtied = "unset", !.began = FALSE]

\* savePayloads: f is a function from the uuids of the payloads saved.
Save(f) ==
  [u \in Uuid |-> IF u \notin DOMAIN f THEN disk[u]
                  ELSE IF discardable(f[u]) THEN None ELSE Stored(f[u])]

\* recordNewHistoryForItems: the staged revision is kept when the next one differs.
Record(h, content) ==
  IF h.staged \in {NoContent, content, h.newest}
  THEN [h EXCEPT !.staged = content]
  ELSE [staged |-> content, newest |-> h.staged]

\* The history once the payloads of f are mapped.
Recorded(f) ==
  [u \in Uuid |-> IF u \in DOMAIN f /\ ~f[u].deleted THEN Record(history[u], f[u].content)
                  ELSE history[u]]

\* The master collection once the payloads of f are mapped.
Mapped(f) ==
  [u \in Uuid |-> IF u \notin DOMAIN f THEN master[u]
                  ELSE IF discardable(f[u]) THEN None ELSE f[u]]

\* Its conflict map, then: a deleted payload has no content to say what it is a copy of,
\* and one that is discarded leaves the map.
Related(f) ==
  LET gone == {v \in DOMAIN f : discardable(f[v])}
      copies(u) == {v \in DOMAIN f : ~f[v].deleted /\ copyOf'[v] = u}
  IN [u \in Uuid |-> IF u \in gone THEN {} ELSE (conflictMap[u] \ gone) \cup copies(u)]

Only(u, p) == [v \in {u} |-> p]

\* Content d is c, or was written over it.
Carries(d, c) == d # NoContent /\ (d = c \/ c \in written[d].replaces)

-----------------------------------------------------------------------------
(***************************************************************************)
(* The user and the other clients.                                         *)
(***************************************************************************)

\* Item u has elements still to be mapped of the response that is being stored.
InWindow(u) == \E i \in DOMAIN op.collections : u \in DOMAIN op.collections[i]

MayChange(u) == EditWhileStoring \/ ~InWindow(u)

Write(u, old) == Append(written, [item |-> u,
                                  replaces |-> IF old = NoContent THEN {}
                                               ELSE {old} \cup written[old].replaces])

MapLocally(u, p) ==
  /\ master' = Mapped(Only(u, p))
  /\ history' = Recorded(Only(u, p))

Edit(u) ==
  /\ left.edits > 0
  /\ master[u] # None
  /\ ~master[u].deleted
  /\ MayChange(u)
  /\ written' = Write(u, master[u].content)
  /\ MapLocally(u, [master[u] EXCEPT !.content = Len(written'), !.dirty = TRUE,
                                     !.dirtied = "since"])
  /\ left' = [left EXCEPT !.edits = @ - 1]
  /\ UNCHANGED <<conflictMap, store, op, account, uuids, copyOf, past>>

\* createItem does not set dirtiedDate.
Create ==
  /\ left.creates > 0
  /\ uuids < MaxUuid
  /\ uuids' = uuids + 1
  /\ written' = Write(uuids', NoContent)
  /\ MapLocally(uuids', [content |-> Len(written'), version |-> 0, deleted |-> FALSE,
                         dirty |-> TRUE, dirtied |-> "unset", began |-> FALSE])
  /\ left' = [left EXCEPT !.creates = @ - 1]
  /\ UNCHANGED <<conflictMap, store, op, account, copyOf, past>>

\* setItemToBeDeleted
Delete(u) ==
  /\ left.deletes > 0
  /\ master[u] # None
  /\ ~master[u].deleted
  /\ MayChange(u)
  /\ MapLocally(u, [master[u] EXCEPT !.content = NoContent, !.deleted = TRUE,
                                     !.dirty = TRUE, !.dirtied = "since"])
  /\ deletions' = deletions \cup {u}
  /\ left' = [left EXCEPT !.deletes = @ - 1]
  /\ UNCHANGED <<conflictMap, store, op, account, names, missed>>

RemoteEdit(u) ==
  /\ left.remote > 0
  /\ server[u] # None
  /\ ~server[u].deleted
  /\ written' = Write(u, server[u].content)
  /\ clock' = clock + 1
  /\ server' = [server EXCEPT ![u] = [content |-> Len(written'), version |-> clock',
                                      deleted |-> FALSE]]
  /\ uploaded' = uploaded \cup {Len(written')}
  /\ left' = [left EXCEPT !.remote = @ - 1]
  /\ UNCHANGED <<client, op, uuids, copyOf, past>>

RemoteDelete(u) ==
  /\ left.remoteDeletes > 0
  /\ server[u] # None
  /\ ~server[u].deleted
  /\ clock' = clock + 1
  /\ server' = [server EXCEPT ![u] = [content |-> NoContent, version |-> clock',
                                      deleted |-> TRUE]]
  /\ left' = [left EXCEPT !.remoteDeletes = @ - 1]
  /\ deletions' = deletions \cup {u}
  /\ UNCHANGED <<client, op, uploaded, names, missed>>

-----------------------------------------------------------------------------
(***************************************************************************)
(* The request, up to the response.                                        *)
(***************************************************************************)

(***************************************************************************)
(* sync() reads the dirty items and begins to save them.  lastSyncBegan is *)
(* mapped a little later with the date of this moment; nothing looks at it *)
(* in between.                                                             *)
(***************************************************************************)
BeginSync ==
  /\ op.pc = "idle"
  /\ LET unsynced == {u \in DirtyItems : neverSynced(master[u]) /\ master[u].deleted}
         captured == DirtyItems \ unsynced
         mode == IF firstDone THEN "Default" ELSE "DownloadFirst"
     IN /\ op' = [NoSync EXCEPT
                    !.pc = IF captured = {} THEN "ready" ELSE "saving",
                    !.mode = mode,
                    !.items = [u \in Uuid |-> IF u \in captured THEN master[u] ELSE None],
                    !.unsynced = unsynced,
                    !.pending = IF mode = "Default" THEN captured ELSE {},
                    !.token = token]
        /\ master' = [u \in Uuid |->
                        IF u \notin captured THEN master[u]
                        ELSE [master[u] EXCEPT
                                !.began = TRUE,
                                !.dirtied = IF @ = "unset" THEN @ ELSE "before"]]
        /\ missed' = missed \cup (unsynced \cap Present(server))
  /\ UNCHANGED <<conflictMap, history, store, account, names, deletions, left>>

Captured == Present(op.items)

PreSyncSaved ==
  /\ op.pc = "saving"
  /\ disk' = Save([u \in Captured |-> op.items[u]])
  /\ op' = [op EXCEPT !.pc = "ready"]
  /\ UNCHANGED <<items, token, diskToken, firstDone, account, names, past, left>>

\* popPayloads
Batches ==
  {S \in SUBSET op.pending :
     Cardinality(S) = IF Cardinality(op.pending) < UpLimit THEN Cardinality(op.pending)
                      ELSE UpLimit}

\* The server saves a payload that is new to it or has the version it has.
Accepts(u) == server[u] = None \/ server[u].version = op.items[u].version

\* The server's answer to batch S: what it saved, what other clients changed since the
\* token, and what it has of the payloads it refused.
Serve(S) ==
  LET saved == {u \in S : Accepts(u)}
      now == IF saved = {} THEN clock ELSE clock + 1
      then == [u \in Uuid |->
                  IF u \notin saved THEN server[u]
                  ELSE [content |-> op.items[u].content, version |-> now,
                        deleted |-> op.items[u].deleted]]
  IN /\ server' = then
     /\ clock' = now
     /\ uploaded' = uploaded \cup ({then[u].content : u \in saved} \ {NoContent})
     /\ op' = [op EXCEPT
                 !.pc = "sent",
                 !.pending = @ \ S,
                 !.resp = [saved |-> saved, conflicts |-> S \ saved,
                           retrieved |-> {u \in Uuid \ S : server[u] # None
                                                    /\ server[u].version > op.token},
                           data |-> then, token |-> now]]

\* The payload captured of item u is not what the client has, nor will the client see that
\* it has changed since.
Outdated(u) ==
  IF op.items[u].deleted THEN master[u] # None /\ ~master[u].deleted
  ELSE \/ master[u] = None
       \/ master[u].dirtied # "since" /\ master[u].content # op.items[u].content

Send ==
  /\ op.pc = "ready"
  /\ \E S \in Batches : Serve(S)
  /\ missed' = missed \cup {u \in op'.resp.saved : Outdated(u)}
  /\ UNCHANGED <<client, names, deletions, left>>

(***************************************************************************)
(* A page that failed: the operation goes on with the payloads it has not  *)
(* sent yet, without a token since the answer has none.                    *)
(***************************************************************************)
PageFailed(pending) ==
  op' = IF pending = {} THEN NoSync
        ELSE [op EXCEPT !.pc = "ready", !.pending = pending, !.token = 0,
                        !.resp = NoResponse]

RequestLost ==
  /\ left.faults > 0
  /\ op.pc = "ready"
  /\ \E S \in Batches : PageFailed(op.pending \ S)
  /\ left' = [left EXCEPT !.faults = @ - 1]
  /\ UNCHANGED <<client, account, names, past>>

ResponseLost ==
  /\ left.faults > 0
  /\ op.pc = "sent"
  /\ PageFailed(op.pending)
  /\ left' = [left EXCEPT !.faults = @ - 1]
  /\ UNCHANGED <<client, account, names, past>>

\* Variant with a bug: the token of the response is not kept for the next request.
ReceiveKeepingToken ==
  /\ op.pc = "sent"
  /\ op' = [op EXCEPT !.pc = "received", !.token = op.resp.token]
  /\ UNCHANGED <<client, account, names, past, left>>

\* handleSuccessServerResponse, up to decrypting the payloads.
Receive ==
  /\ op.pc = "sent"
  /\ token' = op.resp.token
  /\ op' = [op EXCEPT !.pc = "received", !.token = op.resp.token]
  /\ UNCHANGED <<items, disk, diskToken, firstDone, account, names, past, left>>

\* Storage has written the token; nobody waits for that.
TokenStored ==
  /\ diskToken # token
  /\ diskToken' = token
  /\ UNCHANGED <<items, disk, token, firstDone, op, account, names, past, left>>

-----------------------------------------------------------------------------
(***************************************************************************)
(* The deltas: what the response makes of the collection as it is at that  *)
(* moment.                                                                 *)
(***************************************************************************)

Incoming(u) == op.resp.data[u]

\* payloadsSavedOrSaving, of the payloads that are uploaded at all
SavedOrSaving == IF op.mode = "Default" THEN Captured \ op.pending ELSE {}

\* Variant with a bug: a dirty item that is not part of the request is not looked at.
ContestedInFlight ==
  {u \in op.resp.retrieved : ~Incoming(u).deleted /\ u \in SavedOrSaving}

\* DeltaRemoteRetrieved: the retrieved items that are not simply taken over.
Contested ==
  {u \in op.resp.retrieved : /\ ~Incoming(u).deleted
                             /\ \/ u \in SavedOrSaving
                                \/ u \in DirtyItems}

\* The items for which a ConflictDelta is made.
Conflicted == (Contested \cup op.resp.conflicts) \cap Present(master)

\* conflictsOf(u)[0]
Copies(u) == conflictMap[u] \cap Present(master)
FirstCopy(u) == CHOOSE v \in Copies(u) : \A w \in Copies(u) : v <= w

\* The content of a deleted payload is read as an object: that throws.
Throws ==
  \E u \in Conflicted : /\ Copies(u) # {}
                        /\ Incoming(u).deleted \/ master[FirstCopy(u)].deleted

HasSameCopy(u) == Copies(u) # {} /\ master[FirstCopy(u)].content = Incoming(u).content

\* The newest revision of u is what the server refused an update of.
BuiltOnIncoming(u) == u \in op.resp.conflicts /\ history[u].newest = Incoming(u).content

\* Variant with a bug: what the server has always wins.
ServerWins(u, recent) == "KeepRight"

\* strategyWhenConflictingWithItem; recent: the user edited it in the last 20 seconds.
strategy(u, recent) ==
  IF HasSameCopy(u) THEN "KeepLeft"
  ELSE IF master[u].deleted \/ Incoming(u).deleted
            \/ master[u].content = Incoming(u).content THEN "KeepRight"
  ELSE IF BuiltOnIncoming(u) THEN "KeepLeft"
  ELSE IF recent THEN "KeepLeftDuplicateRight"
  ELSE "DuplicateLeftKeepRight"

Duplicated ==
  {u \in Conflicted : strategy(u, TRUE) = "KeepLeftDuplicateRight"}

\* PayloadsByDuplicating: the uuid of the copy made of u.
CopyUuid(u) == uuids + Cardinality({v \in Duplicated : v <= u})

Copied(S) == {CopyUuid(u) : u \in S \cap Duplicated}

\* Variant with a bug: the payload kept is not marked dirty.
KeptLeftClean(u) ==
  [master[u] EXCEPT !.version = IF Incoming(u).version > @ THEN Incoming(u).version ELSE @,
                    !.dirty = FALSE, !.dirtied = "since"]

KeptLeft(u) ==
  [master[u] EXCEPT !.version = IF Incoming(u).version > @ THEN Incoming(u).version ELSE @,
                    !.dirty = TRUE, !.dirtied = "since"]

TakenOver(u) ==
  [content |-> Incoming(u).content, version |-> Incoming(u).version,
   deleted |-> Incoming(u).deleted, dirty |-> FALSE, dirtied |-> "unset",
   began |-> master[u] # None /\ master[u].began]

CopyMade(content, version) ==
  [content |-> content, version |-> version, deleted |-> FALSE, dirty |-> TRUE,
   dirtied |-> "since", began |-> FALSE]

\* DeltaRemoteSaved: a deletion made meanwhile stays, and stays to be uploaded.
SavedState(u) ==
  LET gone == IF master[u] # None THEN master[u].deleted ELSE Incoming(u).deleted
  IN [TakenOver(u) EXCEPT !.deleted = gone, !.dirty = gone]

\* Variant with a bug: edits made since the request began do not count.
SentIsClean(u, p) == p.dirty

\* finalDirtyStateForPayload
finalDirtyState(u, p) ==
  IF u \notin Present(master) \/ master[u].dirtied = "unset" \/ p.dirtied = "since"
  THEN p.dirty
  ELSE ~discardable(p) /\ master[u].began /\ master[u].dirtied = "since"

Final(u, p) ==
  LET dirty == finalDirtyState(u, p)
  IN [p EXCEPT !.dirty = dirty, !.dirtied = IF dirty THEN "since" ELSE "unset"]

\* What the ConflictDeltas of the items in S give; recent is the set of those edited
\* in the last 20 seconds.
Resolved(S, recent) ==
  [v \in S \cup Copied(S) |->
     [saved |-> FALSE,
      p |-> IF v \in S
            THEN Final(v, IF strategy(v, v \in recent) \in {"KeepLeft",
                                                            "KeepLeftDuplicateRight"}
                          THEN KeptLeft(v) ELSE TakenOver(v))
            ELSE LET u == CHOOSE w \in S \cap Duplicated : CopyUuid(w) = v
                 IN IF u \in recent THEN CopyMade(Incoming(u).content, Incoming(u).version)
                    ELSE CopyMade(master[u].content, master[u].version)]]

Applied(S) == [u \in S |-> [saved |-> FALSE, p |-> Final(u, TakenOver(u))]]

Both(f, g) == [u \in DOMAIN f \cup DOMAIN g |-> IF u \in DOMAIN f THEN f[u] ELSE g[u]]

NonEmpty(f) == IF DOMAIN f = {} THEN <<>> ELSE <<f>>

\* collectionsByProcessingResponse
CollectionsByProcessingResponse(recent) ==
  LET retrieved == Both(Applied(op.resp.retrieved \ Contested),
                        Resolved(Contested \cap Conflicted, recent))
      saved == [u \in op.resp.saved |-> [saved |-> TRUE, p |-> Final(u, SavedState(u))]]
      dataConflicts == Both(Applied(op.resp.conflicts \ Conflicted),
                            Resolved(op.resp.conflicts \cap Conflicted, recent))
  IN NonEmpty(retrieved) \o NonEmpty(saved) \o NonEmpty(dataConflicts)

-----------------------------------------------------------------------------
(***************************************************************************)
(* Mapping and storing the collections, one after the other.               *)
(***************************************************************************)

\* PayloadByMerging: a payload of the response with the fields it has over those of the master.
MergedWith(p, element) ==
  IF element.saved /\ p # None
  THEN [p EXCEPT !.version = element.p.version, !.deleted = element.p.deleted,
                 !.dirty = element.p.dirty, !.dirtied = element.p.dirtied]
  ELSE element.p

\* mergePayloadsOntoMaster, but for discarding: the payloads to persist.
Merged(collection) == [u \in DOMAIN collection |-> MergedWith(master[u], collection[u])]

\* emitCollection of the first collection, and the call of persistPayloads.
EmitNext(collections) ==
  IF collections = <<>>
  THEN /\ op' = [op EXCEPT !.pc = "stored", !.collections = <<>>, !.unsaved = <<>>]
       /\ UNCHANGED items
  ELSE LET payloads == Merged(Head(collections))
       IN /\ master' = Mapped(payloads)
          /\ conflictMap' = Related(payloads)
          /\ history' = Recorded(payloads)
          /\ op' = [op EXCEPT !.pc = "storing", !.collections = Tail(collections),
                              !.unsaved = payloads]

\* The payloads are decrypted; from the snapshot to the first mapping nothing waits.
ProcessResponse ==
  /\ op.pc = "received"
  /\ ~Throws
  /\ uuids + Cardinality(Duplicated) <= MaxUuid
  /\ uuids' = uuids + Cardinality(Duplicated)
  /\ copyOf' = [v \in Uuid |-> IF v \in Copied(Uuid)
                               THEN CHOOSE u \in Duplicated : CopyUuid(u) = v
                               ELSE copyOf[v]]
  /\ \E recent \in SUBSET Duplicated :
       EmitNext(CollectionsByProcessingResponse(recent))
  /\ UNCHANGED <<disk, token, diskToken, firstDone, account, written, past, left>>

\* The exception leaves sync() with the lock taken: no request follows.
ProcessingThrows ==
  /\ op.pc = "received"
  /\ Throws
  /\ op' = [op EXCEPT !.pc = "stuck"]
  /\ UNCHANGED <<client, account, names, past, left>>

CollectionStored ==
  /\ op.pc = "storing"
  /\ UNCHANGED <<token, diskToken, firstDone, account, names, past, left>>
  /\ disk' = Save(op.unsaved)
  /\ EmitNext(op.collections)

\* The items of the response; and those that it says are deleted.
Responded == op.resp.saved \cup op.resp.retrieved \cup op.resp.conflicts
DeletedPayloads == {u \in Responded : Incoming(u).deleted}

Gone == [content |-> NoContent, version |-> 0, deleted |-> TRUE, dirty |-> FALSE,
         dirtied |-> "unset", began |-> FALSE]

Cleared == [u \in op.unsynced |-> Gone]

\* The page ends with deletePayloads, the operation with handleNeverSyncedDeleted.
EndPage ==
  /\ op.pc = "stored"
  /\ UNCHANGED <<history, token, diskToken, account, names, past, left>>
  /\ disk' = [u \in Uuid |-> IF u \in DeletedPayloads THEN None ELSE disk[u]]
  /\ \/ /\ op.pending # {}
        /\ op' = [op EXCEPT !.pc = "ready", !.resp = NoResponse]
        /\ UNCHANGED <<master, conflictMap, firstDone>>
     \/ /\ op.pending = {}
        /\ op.unsynced # {}
        /\ master' = Mapped(Cleared)
        /\ conflictMap' = Related(Cleared)
        /\ op' = [op EXCEPT !.pc = "clearing", !.unsaved = Cleared]
        /\ UNCHANGED firstDone
     \/ /\ op.pending = {}
        /\ op.unsynced = {}
        /\ op' = NoSync
        /\ firstDone' = TRUE
        /\ UNCHANGED <<master, conflictMap>>

NeverSyncedCleared ==
  /\ op.pc = "clearing"
  /\ disk' = Save(op.unsaved)
  /\ op' = NoSync
  /\ firstDone' = TRUE
  /\ UNCHANGED <<items, token, diskToken, account, names, past, left>>

-----------------------------------------------------------------------------
\* The write that storage has not confirmed yet.
PendingWrite ==
  CASE op.pc = "saving" -> [u \in Captured |-> op.items[u]]
    [] op.pc \in {"storing", "clearing"} -> op.unsaved
    [] OTHER -> <<>>

\* The items whose states came with a token that is in storage, when they are not.
PassedOver(landed) ==
  {u \in Responded :
     /\ diskToken = op.resp.token
     /\ disk'[u] = None \/ ~disk'[u].dirty
     /\ \/ op.pc \in {"received", "stuck"}
        \/ op.pc = "storing" /\ (InWindow(u) \/ (~landed /\ u \in DOMAIN op.unsaved))}

\* The application ends and starts again; a pending write may have been carried out.
Restart ==
  /\ left.crashes > 0
  /\ \E landed \in BOOLEAN :
       /\ disk' = IF landed THEN Save(PendingWrite) ELSE disk
       /\ missed' = missed \cup PassedOver(landed)
  /\ master' = disk'
  /\ conflictMap' = [u \in Uuid |->
                       {v \in Present(disk') : copyOf[v] = u /\ ~disk'[v].deleted}]
  /\ history' = [u \in Uuid |->
                   [staged |-> IF disk'[u] = None THEN NoContent ELSE disk'[u].content,
                    newest |-> NoContent]]
  /\ token' = diskToken
  /\ firstDone' = FALSE
  /\ op' = NoSync
  /\ left' = [left EXCEPT !.crashes = @ - 1]
  /\ UNCHANGED <<diskToken, account, names, deletions>>

Init ==
  /\ master = [u \in Uuid |->
                 IF u \in Initial
                 THEN [content |-> u, version |-> 1, deleted |-> FALSE, dirty |-> FALSE,
                       dirtied |-> "unset", began |-> FALSE]
                 ELSE None]
  /\ disk = master
  /\ conflictMap = [u \in Uuid |-> {}]
  /\ history = [u \in Uuid |-> [staged |-> IF u \in Initial THEN u ELSE NoContent,
                                newest |-> NoContent]]
  /\ server = [u \in Uuid |-> IF u \in Initial
                              THEN [content |-> u, version |-> 1, deleted |-> FALSE]
                              ELSE None]
  /\ token = 1
  /\ diskToken = 1
  /\ firstDone \in BOOLEAN
  /\ op = NoSync
  /\ clock = 1
  /\ uuids = Items
  /\ copyOf = [u \in Uuid |-> 0]
  /\ written = [u \in Initial |-> [item |-> u, replaces |-> {}]]
  /\ uploaded = Initial
  /\ deletions = {}
  /\ missed = {}
  /\ left = [edits |-> MaxEdits, creates |-> MaxCreates, deletes |-> MaxDeletes,
             remote |-> MaxRemote, remoteDeletes |-> MaxRemoteDeletes,
             faults |-> MaxFaults, crashes |-> MaxCrashes]

\* What the service does of its own accord, and the server and storage for it.
Progress ==
  \/ BeginSync
  \/ PreSyncSaved
  \/ Send
  \/ Receive
  \/ ProcessResponse
  \/ ProcessingThrows
  \/ CollectionStored
  \/ EndPage
  \/ NeverSyncedCleared

Surroundings ==
  \/ \E u \in Uuid : Edit(u) \/ Delete(u) \/ RemoteEdit(u) \/ RemoteDelete(u)
  \/ Create
  \/ RequestLost
  \/ ResponseLost
  \/ TokenStored
  \/ Restart

Next == Progress \/ Surroundings

Spec == Init /\ [][Next]_vars

(***************************************************************************)
(* Fairness: the autosync interval makes one request after the other, and  *)
(* each goes on while storage and the server answer.  Nothing makes a user *)
(* or another client act; requests are lost only so often.                 *)
(***************************************************************************)
FairSpec == Spec /\ WF_vars(Progress)

-----------------------------------------------------------------------------
Some(f, S) == \A u \in DOMAIN f : u \in Uuid /\ f[u] \in S

OperationOK ==
  /\ op.pc \in {"idle", "saving", "ready", "sent", "received", "storing", "stored",
                "clearing", "stuck"}
  /\ op.mode \in {"Default", "DownloadFirst"}
  /\ op.items \in [Uuid -> Payload \cup {None}]
  /\ {op.unsynced, op.pending, op.resp.saved, op.resp.retrieved, op.resp.conflicts}
       \subseteq SUBSET Uuid
  /\ {op.token, op.resp.token} \subseteq Nat
  /\ op.resp.data \in [Uuid -> ServerItem \cup {None}]
  /\ \A i \in DOMAIN op.collections : Some(op.collections[i], Element)
  /\ Some(op.unsaved, Payload)

\* A discardable payload is neither kept in memory nor in the database, and dates of
\* this session are not in the database.
TypeOK ==
  /\ master \in [Uuid -> Payload \cup {None}]
  /\ disk \in [Uuid -> Payload \cup {None}]
  /\ \A u \in Present(master) : ~discardable(master[u])
  /\ \A u \in Present(disk) : ~discardable(disk[u]) /\ disk[u] = Stored(disk[u])
  /\ server \in [Uuid -> ServerItem \cup {None}]
  /\ history \in [Uuid -> [staged : Content, newest : Content]]
  /\ copyOf \in [Uuid -> Uuid \cup {0}]
  /\ conflictMap \in [Uuid -> SUBSET Uuid]
  /\ firstDone \in BOOLEAN
  /\ {deletions, missed} \subseteq SUBSET Uuid
  /\ {token, diskToken, clock, uuids} \subseteq Nat
  /\ uploaded \subseteq Content
  /\ written \in Seq([item : Uuid, replaces : SUBSET Content])
  /\ OperationOK

\* Some payload of f carries content c.
CarriedIn(f, c) == \E u \in Present(f) : Carries(f[u].content, c)

Contents == 1..Len(written)

(****************************************************************************)
(* The client forgets that an item is dirty only if the server has had its  *)
(* content: "marking items dirty after or within the same millisecond cycle *)
(* of lastSyncBegan should cause them to sync again".                       *)
(****************************************************************************)
CleanMeansUploaded ==
  \A u \in Present(master) : master[u].dirty \/ master[u].content \in uploaded

\* The items of the family of u: the item, its copies, the copies of those.
Original(u) == IF copyOf[u] = 0 THEN u ELSE copyOf[u]

\* Someone has deleted an item with content c, or one that it was copied from.
DeletedSomewhere(c) ==
  \E u \in deletions : Original(Original(u)) = Original(Original(written[c].item))

(****************************************************************************)
(* What is in the database or on the server is never lost: no conflict, no  *)
(* response, no restart replaces the last copy of an edit by something that *)
(* was not written over it.  Deleted items are the exception.               *)
(****************************************************************************)
StoredEditsSurvive ==
  [][\A c \in Contents :
       (CarriedIn(disk, c) \/ CarriedIn(server, c))
         => CarriedIn(disk, c)' \/ CarriedIn(server, c)' \/ DeletedSomewhere(c)']_vars

(***************************************************************************)
(* The same of memory, but for restarts: a response does not take an edit  *)
(* from the user that is nowhere else.                                     *)
(***************************************************************************)
EditsSurvive ==
  [][\A c \in Contents :
       CarriedIn(master, c) /\ left'.crashes = left.crashes
         => CarriedIn(master, c)' \/ CarriedIn(server, c)' \/ DeletedSomewhere(c)']_vars

(***************************************************************************)
(* A response makes a conflicted copy of an item only when the contents of *)
(* client and server were written without knowledge of each other.         *)
(***************************************************************************)
ConflictIsReal ==
  [][op.pc = "received" /\ op'.pc # "received" /\ uuids' > uuids =>
       \A u \in Duplicated : /\ ~Carries(master[u].content, Incoming(u).content)
                             /\ ~Carries(Incoming(u).content, master[u].content)]_vars

\* The client has what the server has of item u.
Same(u) ==
  IF server[u] = None \/ server[u].deleted THEN master[u] = None
  ELSE master[u] # None /\ ~master[u].dirty /\ master[u].content = server[u].content

(****************************************************************************)
(* What the server saves of this client is what the client has: "if server  *)
(* says not deleted but client says deleted, keep server state", and then   *)
(* the deletion is not uploaded after all.  It does not hold after a failed *)
(* page (README), and no run checks it: Outdated items go to missed.        *)
(****************************************************************************)
UploadsAreCurrent ==
  [][op.pc = "ready" /\ op'.pc = "sent" => \A u \in op'.resp.saved : ~Outdated(u)]_vars

(****************************************************************************)
(* The sync token never runs ahead of the collection: between requests, the *)
(* client has every state of an item that the server will not tell it of    *)
(* again, or has a change of its own to upload.                             *)
(****************************************************************************)
TokenCoversItems ==
  op.pc = "idle" =>
    \A u \in Present(server) \ missed :
      server[u].version <= token => Same(u) \/ u \in DirtyItems

(****************************************************************************)
(* When users and failures come to rest, client and server come to have the *)
(* same items with the same contents, and stay so.                          *)
(****************************************************************************)
Converges == <>[](\A u \in Uuid \ missed : Same(u))
=============================================================================
