--------------------------- MODULE SyncQueueProofs ---------------------------
(***************************************************************************)
(* Proofs about the scheduling of sync(), for any number of calls and any  *)
(* bounds; for any environment, but where a theorem assumes Orderly.       *)
(***************************************************************************)
EXTENDS SyncQueue, TLAPS, FiniteSetTheorems

-----------------------------------------------------------------------------
(* Facts about the operators. *)

\* The records a slot is reset to are records of a slot.
LEMMA BlankType == NoOptions \in Options /\ Blank \in CallRecord
BY DEF Blank, NoOptions, CallRecord, Options, Strategy, Mode, PC

\* Settling promises leaves the slots records of a slot.
LEMMA SettleType ==
  ASSUME NEW fn \in [Call -> CallRecord], NEW S, NEW outcome \in PC
  PROVE  Settle(fn, S, outcome) \in [Call -> CallRecord]
<1>1. SUFFICES ASSUME NEW c \in Call
               PROVE  (IF c \notin S THEN fn[c]
                       ELSE IF fn[c].kept
                       THEN [Blank EXCEPT !.pc = outcome, !.kept = TRUE, !.ran = fn[c].ran]
                       ELSE Blank) \in CallRecord
  BY DEF Settle
<1>2. fn[c] \in CallRecord
  OBVIOUS
<1>3. [Blank EXCEPT !.pc = outcome, !.kept = TRUE, !.ran = fn[c].ran] \in CallRecord
  BY <1>2, BlankType DEF CallRecord
<1> QED
  BY <1>1, <1>2, <1>3, BlankType

\* A slot taken from the free ones is one of them.
LEMMA FreshIsFree == Free # {} => Fresh \in Free
BY DEF Fresh

\* Room for an outside call leaves a free slot.
LEMMA RoomIsFree == Room => Free # {}
BY BoundAssumption, FS_EmptySet DEF Room

-----------------------------------------------------------------------------
(* Type correctness. *)

\* What the entry of sync() reads and writes keeps its type.
EntryTypes ==
  /\ syncLock \in BOOLEAN /\ syncing \in BOOLEAN /\ error \in BOOLEAN
  /\ dirtiedSince \in BOOLEAN
  /\ resolveQueue \subseteq Call
  /\ spawnQueue \in Seq(Call)
  /\ writes \in Seq(Call)
  /\ call \in [Call -> CallRecord]

\* A call that passed its pre-sync save leaves every slot a record of a slot.
LEMMA ArriveType ==
  ASSUME TypeOK, NEW c \in Call, NEW r \in CallRecord,
         NEW fn \in [Call -> CallRecord], NEW q \in Seq(Call), Arrive(c, r, fn, q)
  PROVE  /\ syncing' \in BOOLEAN
         /\ resolveQueue' \subseteq Call
         /\ spawnQueue' \in Seq(Call)
         /\ call' \in [Call -> CallRecord]
<1>1. CASE r.runs
  <2>1. [r EXCEPT !.pc = "beginning", !.ran = TRUE, !.inTime = resolveQueue,
                  !.sent = TRUE] \in CallRecord
    BY DEF TypeOK, CallRecord, PC
  <2> QED
    BY <1>1, <2>1 DEF Arrive, TypeOK
<1>2. CASE ~r.runs /\ r.opts.strategy = "ResolveOnNext"
  <2>1. [Blank EXCEPT !.pc = "onNext", !.kept = r.kept, !.sent = r.sent] \in CallRecord
    BY BlankType DEF CallRecord, PC
  <2> QED
    BY <1>2, <2>1 DEF Arrive, TypeOK
<1>3. CASE ~r.runs /\ r.opts.strategy = "ForceSpawnNew"
  <2> DEFINE queued == [r.opts EXCEPT !.awaitAll = FALSE]
  <2>1. queued \in Options
    BY DEF CallRecord, Options
  <2>2. [Blank EXCEPT !.pc = "toSpawn", !.kept = r.kept, !.opts = queued] \in CallRecord
    BY <2>1, BlankType DEF CallRecord, PC
  <2>3. Append(q, c) \in Seq(Call)
    OBVIOUS
  <2> QED
    BY <1>3, <2>2, <2>3 DEF Arrive, TypeOK
<1> QED
  BY <1>1, <1>2, <1>3 DEF Arrive

\* So does the entry of sync().
LEMMA StartSyncType ==
  ASSUME TypeOK, NEW c \in Call, NEW o \in Options, NEW kept \in BOOLEAN,
         NEW fn \in [Call -> CallRecord], NEW q \in Seq(Call),
         StartSync(c, o, kept, fn, q)
  PROVE  EntryTypes'
<1>1. CASE locked
  <2>1. (IF kept THEN [Blank EXCEPT !.pc = "resolved", !.kept = TRUE] ELSE Blank)
          \in CallRecord
    BY ZenonT(30), BlankType DEF CallRecord, PC
  <2> QED
    BY <1>1, <2>1 DEF StartSync, TypeOK, EntryTypes, locks
<1>2. CASE ~locked
  <2> DEFINE old == [d \in Call |-> [fn[d] EXCEPT !.snap = @ \ {c}]]
             r == [Blank EXCEPT !.opts = o, !.items = dirty, !.runs = MayRun,
                                !.kept = kept, !.sent = ~dirty,
                                !.snap = IF MayRun THEN Unsent(fn) ELSE {}]
  <2>1. old \in [Call -> CallRecord]
    BY DEF CallRecord
  <2>2. MayRun \in BOOLEAN
    BY DEF MayRun, databaseLoaded
  <2>3. Unsent(fn) \subseteq Call
    BY DEF Unsent
  <2>4. r \in CallRecord
    BY <2>2, <2>3, BlankType DEF CallRecord, TypeOK
  <2>5. /\ syncLock' \in BOOLEAN /\ dirtiedSince' \in BOOLEAN /\ error' \in BOOLEAN
        /\ dirty => /\ call' = [old EXCEPT ![c] = [r EXCEPT !.pc = "persisting"]]
                    /\ writes' = Append(writes, c)
                    /\ spawnQueue' = q
                    /\ UNCHANGED <<syncing, resolveQueue>>
        /\ ~dirty => Arrive(c, r, old, q) /\ UNCHANGED writes
    BY <1>2 DEF StartSync, TypeOK
  <2> HIDE DEF r, old
  <2>6. CASE dirty
    <3>1. [r EXCEPT !.pc = "persisting"] \in CallRecord
      BY <2>4 DEF CallRecord, PC
    <3>2. Append(writes, c) \in Seq(Call)
      BY DEF TypeOK
    <3> QED
      BY <2>1, <2>5, <2>6, <3>1, <3>2 DEF TypeOK, EntryTypes
  <2>7. CASE ~dirty
    BY <2>1, <2>4, <2>5, <2>7, ArriveType DEF TypeOK, EntryTypes
  <2> QED
    BY <2>6, <2>7 DEF TypeOK
<1> QED
  BY <1>1, <1>2 DEF TypeOK

\* What a completed call starts next keeps the types, too.
LEMMA StartAwaitedType ==
  ASSUME TypeOK, NEW c \in Call, NEW o \in Options, NEW pc \in PC,
         StartAwaited(c, o, pc)
  PROVE  EntryTypes' /\ UNCHANGED <<service, dirty, firstSync, differs>>
<1>1. Fresh \in Call
  BY FreshIsFree DEF StartAwaited, Free, At
<1>2. call[c] \in CallRecord
  BY DEF TypeOK
<1>3. [call[c] EXCEPT !.pc = pc, !.sub = Fresh] \in CallRecord
  BY <1>1, <1>2 DEF CallRecord
<1>4. [call EXCEPT ![c] = [@ EXCEPT !.pc = pc, !.sub = Fresh]] \in [Call -> CallRecord]
  BY <1>3 DEF TypeOK
<1> QED
  BY <1>1, <1>4, StartSyncType DEF StartAwaited, TypeOK

LEMMA FinishType ==
  ASSUME TypeOK, NEW c \in Call
  PROVE  Finish(call, c) \in [Call -> CallRecord]
BY SettleType DEF TypeOK, Finish, PC

LEMMA StartMaybeAwaitedType ==
  ASSUME TypeOK, NEW c \in Call, NEW o \in Options, StartMaybeAwaited(c, o)
  PROVE  EntryTypes' /\ UNCHANGED <<service, dirty, firstSync, differs>>
<1>1. CASE StartAwaited(c, o, "awaiting")
  BY <1>1, StartAwaitedType DEF PC
<1>2. CASE /\ Free # {}
           /\ StartSync(Fresh, o, FALSE, Finish(call, c), spawnQueue)
           /\ UNCHANGED <<service, dirty, firstSync, differs>>
  <2>1. Fresh \in Call
    BY <1>2, FreshIsFree DEF Free, At
  <2> QED
    BY <1>2, <2>1, StartSyncType, FinishType DEF TypeOK
<1> QED
  BY <1>1, <1>2 DEF StartMaybeAwaited

\* A call from outside keeps the types.
LEMMA OutsideSyncType ==
  ASSUME TypeOK, NEW o \in Options, NEW kept \in BOOLEAN, Room,
         StartSync(Fresh, o, kept, call, spawnQueue)
  PROVE  EntryTypes' /\ Fresh \in Call
<1>1. Fresh \in Call
  BY RoomIsFree, FreshIsFree DEF Free, At
<1> QED
  BY <1>1, StartSyncType DEF TypeOK

LEMMA EndOperationType ==
  ASSUME TypeOK, NEW c \in Call, NEW failed \in BOOLEAN, EndOperation(c, failed)
  PROVE  /\ syncLock' \in BOOLEAN /\ syncing' \in BOOLEAN /\ error' \in BOOLEAN
         /\ completedOnlineDownloadFirstSync' \in BOOLEAN
         /\ call' \in [Call -> CallRecord]
         /\ UNCHANGED <<locked, launch, online>>
<1>1. Settle(call, {c}, "resolved") \in [Call -> CallRecord]
  BY SettleType DEF TypeOK, PC
<1>2. call[c] \in CallRecord
  BY DEF TypeOK
<1>3. [call[c] EXCEPT !.pc = "completed", !.items = FALSE] \in CallRecord
  BY <1>2 DEF CallRecord, PC
<1>4. [call EXCEPT ![c] = [@ EXCEPT !.pc = "completed", !.items = FALSE]]
        \in [Call -> CallRecord]
  BY <1>3 DEF TypeOK
<1> QED
  BY <1>1, <1>4 DEF EndOperation, TypeOK

\* Storage completing a write leaves a sequence of calls.
LEMMA WriteDoneType ==
  ASSUME TypeOK, NEW c \in Call, WriteDone(c)
  PROVE  writes' \in Seq(Call)
<1>1. PICK i \in DOMAIN writes : writes' = RemoveAt(writes, i)
  BY DEF WriteDone
<1>2. i \in 1..Len(writes) /\ writes \in Seq(Call)
  BY <1>1 DEF TypeOK
<1>3. SubSeq(writes, 1, i - 1) \in Seq(Call) /\ SubSeq(writes, i + 1, Len(writes)) \in Seq(Call)
  BY <1>2
<1> QED
  BY <1>1, <1>3 DEF RemoveAt

\* Spending what is left of a bound leaves natural numbers.
LEMMA SpendType ==
  ASSUME NEW l \in Budget
  PROVE  /\ l.calls > 0 => [l EXCEPT !.calls = @ - 1] \in Budget
         /\ l.edits > 0 => [l EXCEPT !.edits = @ - 1] \in Budget
         /\ l.faults > 0 => [l EXCEPT !.faults = @ - 1] \in Budget
         /\ l.pages > 0 => [l EXCEPT !.pages = @ - 1] \in Budget
         /\ l.flips > 0 => [l EXCEPT !.flips = @ - 1] \in Budget
         /\ l.observers > 0 => [l EXCEPT !.observers = @ - 1] \in Budget
         /\ l.faults > 0 /\ l.pages > 0 =>
              [l EXCEPT !.faults = @ - 1, !.pages = @ - 1] \in Budget
<1>1. \A n \in Nat : n > 0 => n - 1 \in Nat
  OBVIOUS
<1>2. \A n \in Nat : /\ [l EXCEPT !.calls = n] \in Budget
                    /\ [l EXCEPT !.edits = n] \in Budget
                    /\ [l EXCEPT !.faults = n] \in Budget
                    /\ [l EXCEPT !.pages = n] \in Budget
                    /\ [l EXCEPT !.flips = n] \in Budget
                    /\ [l EXCEPT !.observers = n] \in Budget
  BY DEF Budget
<1>3. \A n, m \in Nat : [l EXCEPT !.faults = n, !.pages = m] \in Budget
  BY DEF Budget
<1>4. /\ l.calls \in Nat /\ l.edits \in Nat /\ l.faults \in Nat
      /\ l.pages \in Nat /\ l.flips \in Nat /\ l.observers \in Nat
  BY DEF Budget
<1> QED
  BY <1>1, <1>2, <1>3, <1>4

\* An integrity check leaves a natural number of failures in a row.
LEMMA DiscordanceType ==
  ASSUME TypeOK, NEW c \in Call, SetIntegrityHashes(c)
  PROVE  discordance' \in Nat
BY DEF TypeOK, SetIntegrityHashes

\* The steps of a call up to the server's answer keep the types.
LEMMA RequestStepType ==
  ASSUME TypeOK, NEW c \in Call,
         Persisted(c) \/ BeginSync(c) \/ Send(c) \/ Fail(c) \/ AnswerPart(c)
           \/ Mapped(c) \/ Answer(c) \/ Saved(c) \/ Throw(c)
  PROVE  TypeOK'
<1> USE DEF service, locks, queues
<1>0. call[c] \in CallRecord /\ left \in Budget
  BY DEF TypeOK
<1>1. CASE Persisted(c)
  BY <1>0, <1>1, ArriveType, WriteDoneType DEF Persisted, TypeOK
<1>2. CASE BeginSync(c)
  <2>1. UseMode(call[c].opts) \in Mode
    BY <1>0 DEF UseMode, CallRecord, Options, Mode
  <2>2. [call[c] EXCEPT !.pc = "preparing", !.account = online,
                        !.mode = UseMode(call[c].opts)] \in CallRecord
    BY <1>0, <2>1 DEF CallRecord, PC, TypeOK
  <2>3. call' \in [Call -> CallRecord]
    BY <1>2, <2>2 DEF BeginSync, TypeOK
  <2> QED
    BY <1>2, <2>3 DEF BeginSync, RemainingQueue, TypeOK
<1>3. CASE Send(c)
  <2>1. [call[c] EXCEPT !.pc = "sent", !.snap = {}, !.sent = TRUE] \in CallRecord
    BY <1>0 DEF CallRecord, PC
  <2>2. ASSUME NEW d \in Call PROVE [call[d] EXCEPT !.sent = TRUE] \in CallRecord
    <3>1. call[d] \in CallRecord
      BY DEF TypeOK
    <3> QED
      BY <3>1 DEF CallRecord
  <2>3. call' \in [Call -> CallRecord]
    BY <1>3, <2>1, <2>2 DEF Send, TypeOK
  <2> QED
    BY <1>3, <2>3 DEF Send, TypeOK
<1>4. CASE Fail(c)
  <2>1. /\ syncLock' \in BOOLEAN /\ syncing' \in BOOLEAN /\ error' \in BOOLEAN
        /\ completedOnlineDownloadFirstSync' \in BOOLEAN
        /\ call' \in [Call -> CallRecord]
        /\ UNCHANGED <<locked, launch, online>>
    BY <1>4, EndOperationType DEF Fail, TypeOK
  <2>2. left' \in Budget
    BY <1>0, <1>4, SpendType DEF Fail
  <2> QED
    BY <1>4, <2>1, <2>2 DEF Fail, TypeOK
<1>5. CASE AnswerPart(c)
  <2>1. [call[c] EXCEPT !.pc = "mapping"] \in CallRecord
    BY <1>0 DEF CallRecord, PC
  <2>2. left' \in Budget
    BY <1>0, <1>5, SpendType DEF AnswerPart
  <2>3. call' \in [Call -> CallRecord] /\ writes' \in Seq(Call)
    BY <1>5, <2>1 DEF AnswerPart, TypeOK
  <2>4. error' \in BOOLEAN
    BY <1>5 DEF AnswerPart
  <2> QED
    BY <1>5, <2>2, <2>3, <2>4 DEF AnswerPart, TypeOK
<1>6. CASE Mapped(c)
  <2>1. [call[c] EXCEPT !.pc = "sent"] \in CallRecord
    BY <1>0 DEF CallRecord, PC
  <2>2. call' \in [Call -> CallRecord]
    BY <1>6, <2>1 DEF Mapped, TypeOK
  <2> QED
    BY <1>6, <2>2, WriteDoneType DEF Mapped, TypeOK
<1>7. CASE Answer(c)
  <2>1. CASE /\ call' = [call EXCEPT ![c] = [@ EXCEPT !.pc = "saving", !.items = FALSE]]
             /\ writes' = Append(writes, c)
             /\ error' = FALSE
             /\ DirtyAfter(c)
             /\ UNCHANGED <<syncLock, syncing, service>>
    <3>1. [call[c] EXCEPT !.pc = "saving", !.items = FALSE] \in CallRecord
      BY <1>0 DEF CallRecord, PC
    <3>2. call' \in [Call -> CallRecord] /\ writes' \in Seq(Call)
      BY <2>1, <3>1 DEF TypeOK
    <3>3. left' \in Budget
      BY <1>0, <2>1, SpendType DEF DirtyAfter
    <3>4. dirty' \in BOOLEAN /\ error' \in BOOLEAN
      BY <2>1 DEF DirtyAfter, TypeOK
    <3> QED
      BY <1>7, <2>1, <3>2, <3>3, <3>4 DEF Answer, TypeOK
  <2>2. CASE /\ SetIntegrityHashes(c)
             /\ EndOperation(c, FALSE)
             /\ UNCHANGED <<writes, dirty, left>>
    BY <1>7, <2>2, EndOperationType, DiscordanceType DEF Answer, TypeOK
  <2> QED
    BY <1>7, <2>1, <2>2 DEF Answer
<1>8. CASE Saved(c)
  <2>1. /\ WriteDone(c) /\ SetIntegrityHashes(c) /\ EndOperation(c, FALSE)
        /\ UNCHANGED <<dirty, dirtiedSince, queues, firstSync, differs, left>>
    BY <1>8 DEF Saved
  <2> QED
    BY <2>1, EndOperationType, WriteDoneType, DiscordanceType DEF TypeOK
<1>9. CASE Throw(c)
  <2>1. call' \in [Call -> CallRecord]
    BY <1>9, SettleType DEF Throw, TypeOK, PC
  <2>2. left' \in Budget
    BY <1>0, <1>9, SpendType DEF Throw
  <2>3. /\ error' \in BOOLEAN
        /\ UNCHANGED <<syncLock, syncing, service, dirty, dirtiedSince, queues, writes,
                       firstSync, differs>>
    BY <1>9 DEF Throw
  <2> QED
    BY <2>1, <2>2, <2>3 DEF TypeOK
<1> QED
  BY <1>1, <1>2, <1>3, <1>4, <1>5, <1>6, <1>7, <1>8, <1>9

\* The steps of a completed call, and of one that is woken, keep the types.
LEMMA CompletionStepType ==
  ASSUME TypeOK, NEW c \in Call,
         ObserverSync(c) \/ AfterDownloadFirst(c) \/ PopSpawnQueue(c)
           \/ SyncFromResolveQueue(c) \/ SyncMoreDirtyItems(c)
           \/ SyncFromIntegrityCheck(c) \/ EndSync(c) \/ Resume(c)
  PROVE  TypeOK'
<1> USE DEF service, locks, queues
<1>0. call[c] \in CallRecord /\ left \in Budget /\ NoOptions \in Options
  BY BlankType DEF TypeOK
<1>1. CASE ObserverSync(c)
  <2>1. EntryTypes' /\ UNCHANGED <<service, dirty, firstSync, differs>>
    BY <1>0, <1>1, StartAwaitedType DEF ObserverSync, PC
  <2>2. left' \in Budget
    BY <1>0, <1>1, SpendType DEF ObserverSync
  <2> QED
    BY <2>1, <2>2 DEF TypeOK, EntryTypes
<1>2. CASE AfterDownloadFirst(c)
  <2>1. [NoOptions EXCEPT !.integrity = TRUE, !.awaitAll = call[c].opts.awaitAll] \in Options
    BY <1>0 DEF Options, CallRecord
  <2>2. EntryTypes' /\ UNCHANGED <<service, dirty, firstSync, differs, left>>
    BY <1>2, <2>1, StartAwaitedType DEF AfterDownloadFirst, PC
  <2> QED
    BY <2>2 DEF TypeOK, EntryTypes
<1>3. CASE PopSpawnQueue(c)
  <2> DEFINE head == Head(spawnQueue)
             popped == [call EXCEPT ![c].pc = "popped",
                                    ![head] = [@ EXCEPT !.pc = "spawned", !.sub = Fresh]]
  <2>1. head \in Call /\ Tail(spawnQueue) \in Seq(Call)
    BY <1>3 DEF PopSpawnQueue, TypeOK
  <2>2. Fresh \in Call
    BY <1>3, FreshIsFree DEF PopSpawnQueue, Free, At
  <2>3. [call[c] EXCEPT !.pc = "popped"] \in CallRecord
    BY <1>0 DEF CallRecord, PC
  <2>4. [call EXCEPT ![c].pc = "popped"] \in [Call -> CallRecord]
    BY <2>3 DEF TypeOK
  <2>5. ASSUME NEW s \in CallRecord
        PROVE  [s EXCEPT !.pc = "spawned", !.sub = Fresh] \in CallRecord
    BY <2>2 DEF CallRecord, PC
  <2>6. popped \in [Call -> CallRecord]
    BY <2>1, <2>4, <2>5
  <2>7. call[head].opts \in Options
    BY <2>1 DEF TypeOK, CallRecord
  <2>8. /\ StartSync(Fresh, call[head].opts, TRUE, popped, Tail(spawnQueue))
        /\ UNCHANGED <<service, dirty, firstSync, differs, left>>
    BY <1>3 DEF PopSpawnQueue
  <2> HIDE DEF popped
  <2>9. EntryTypes'
    BY <2>1, <2>2, <2>6, <2>7, <2>8, StartSyncType
  <2> QED
    BY <2>8, <2>9 DEF TypeOK, EntryTypes
<1>4. CASE SyncFromResolveQueue(c)
  <2>1. [NoOptions EXCEPT !.integrity = call[c].opts.integrity] \in Options
    BY <1>0 DEF Options, CallRecord
  <2>2. EntryTypes' /\ UNCHANGED <<service, dirty, firstSync, differs, left>>
    BY <1>4, <2>1, StartMaybeAwaitedType DEF SyncFromResolveQueue
  <2> QED
    BY <2>2 DEF TypeOK, EntryTypes
<1>5. CASE SyncMoreDirtyItems(c)
  <2>1. [NoOptions EXCEPT !.integrity = call[c].opts.integrity,
                          !.awaitAll = call[c].opts.awaitAll] \in Options
    BY <1>0 DEF Options, CallRecord
  <2>2. EntryTypes' /\ UNCHANGED <<service, dirty, firstSync, differs, left>>
    BY <1>5, <2>1, StartAwaitedType DEF SyncMoreDirtyItems, PC
  <2> QED
    BY <2>2 DEF TypeOK, EntryTypes
<1>6. CASE SyncFromIntegrityCheck(c)
  <2>1. [call[c].opts EXCEPT !.strategy = "ForceSpawnNew", !.mode = "Default"] \in Options
    BY <1>0 DEF Options, CallRecord, Strategy, Mode
  <2>2. EntryTypes' /\ UNCHANGED <<service, dirty, firstSync, differs, left>>
    BY <1>6, <2>1, StartMaybeAwaitedType DEF SyncFromIntegrityCheck
  <2> QED
    BY <2>2 DEF TypeOK, EntryTypes
<1>7. CASE EndSync(c)
  BY <1>7, FinishType DEF EndSync, TypeOK
<1>8. CASE Resume(c)
  <2> DEFINE sub == call[c].sub
             fn == [call EXCEPT ![sub] = Blank,
                                ![c] = [call[c] EXCEPT !.sub = None,
                                                       !.ran = @ \/ call[sub].ran]]
  <2>1. sub \in Call
    BY <1>8 DEF Resume, Settled, At
  <2>2. call[sub].ran \in BOOLEAN
    BY <2>1 DEF TypeOK, CallRecord
  <2>3. [call[c] EXCEPT !.sub = None, !.ran = @ \/ call[sub].ran] \in CallRecord
    BY <1>0, <2>2 DEF CallRecord
  <2>4. [call EXCEPT ![sub] = Blank] \in [Call -> CallRecord]
    BY <2>1, BlankType DEF TypeOK
  <2>5. fn \in [Call -> CallRecord]
    BY <2>3, <2>4
  <2>6. /\ call' = IF call[sub].pc = "rejected" THEN Settle(fn, {c}, "rejected")
                   ELSE IF call[c].pc = "observing"
                   THEN [fn EXCEPT ![c].pc = "completed"]
                   ELSE Finish(fn, c)
        /\ UNCHANGED <<locks, service, dirty, dirtiedSince, queues, writes, firstSync,
                       differs, left>>
    BY <1>8 DEF Resume
  <2> HIDE DEF fn
  <2>7. Settle(fn, {c}, "rejected") \in [Call -> CallRecord]
    BY <2>5, SettleType DEF PC
  <2>8. Finish(fn, c) \in [Call -> CallRecord]
    BY <2>5, SettleType DEF PC, Finish
  <2>9. [fn EXCEPT ![c].pc = "completed"] \in [Call -> CallRecord]
    <3>1. fn[c] \in CallRecord
      BY <2>5
    <3>2. [fn[c] EXCEPT !.pc = "completed"] \in CallRecord
      BY <3>1 DEF CallRecord, PC
    <3> QED
      BY <2>5, <3>2
  <2>10. call' \in [Call -> CallRecord]
    BY <2>6, <2>7, <2>8, <2>9
  <2> QED
    BY <2>6, <2>10 DEF TypeOK
<1> QED
  BY <1>1, <1>2, <1>3, <1>4, <1>5, <1>6, <1>7, <1>8

\* As long as downloadFirstSync goes on, it has tries left.
TriesLeft == firstSync.pc \in {"signedOut", "signingIn", "signedIn", "trying"}
               => firstSync.tries < MaxTries

\* The steps of the callers and of the events around them keep the types.
LEMMA SurroundingsType ==
  ASSUME TypeOK, TriesLeft, Surroundings
  PROVE  TypeOK' /\ TriesLeft'
<1> USE DEF service, locks, queues
<1>0. left \in Budget /\ NoOptions \in Options /\ firstSync \in LoopState
  BY BlankType DEF TypeOK, TriesLeft
<1>1. ASSUME NEW o \in ExternalOptions, ExternalSync(o) PROVE TypeOK' /\ TriesLeft'
  <2>1. EntryTypes' /\ UNCHANGED <<service, dirty, firstSync, differs>>
    BY <1>1, OutsideSyncType, OptionsAssumption DEF ExternalSync
  <2>2. left' \in Budget
    BY <1>0, <1>1, SpendType DEF ExternalSync
  <2> QED
    BY <2>1, <2>2 DEF TypeOK, EntryTypes, TriesLeft
<1>2. CASE LoadDatabase
  BY <1>2 DEF LoadDatabase, TypeOK, TriesLeft
<1>3. CASE LaunchSync
  <2>1. [NoOptions EXCEPT !.mode = "DownloadFirst"] \in Options
    BY <1>0 DEF Options, Mode
  <2>2. /\ EntryTypes'
        /\ launch' = "launched"
        /\ UNCHANGED <<locked, online, completedOnlineDownloadFirstSync, discordance,
                       dirty, firstSync, differs, left>>
    BY <1>3, <2>1, OutsideSyncType DEF LaunchSync
  <2> QED
    BY <2>2 DEF TypeOK, EntryTypes, TriesLeft
<1>4. CASE Edit
  <2>1. left' \in Budget
    BY <1>0, <1>4, SpendType DEF Edit
  <2>2. /\ dirty' \in BOOLEAN /\ dirtiedSince' \in BOOLEAN
        /\ UNCHANGED <<locks, service, queues, writes, call, firstSync, differs>>
    BY <1>4 DEF Edit
  <2> QED
    BY <2>1, <2>2 DEF TypeOK, TriesLeft
<1>5. CASE Diverge
  <2>1. left' \in Budget
    BY <1>0, <1>5, SpendType DEF Diverge
  <2>2. /\ differs' \in BOOLEAN
        /\ UNCHANGED <<locks, service, dirty, dirtiedSince, queues, writes, call, firstSync>>
    BY <1>5 DEF Diverge, TypeOK
  <2> QED
    BY <2>1, <2>2 DEF TypeOK, TriesLeft
<1>6. CASE AutoSync
  <2>1. EntryTypes' /\ UNCHANGED <<service, dirty, firstSync, differs, left>>
    BY <1>0, <1>6, OutsideSyncType DEF AutoSync
  <2> QED
    BY <2>1 DEF TypeOK, EntryTypes, TriesLeft
<1>7. CASE Lock \/ Unlock
  <2>1. /\ locked' \in BOOLEAN
        /\ UNCHANGED <<launch, online, completedOnlineDownloadFirstSync, discordance, locks,
                       dirty, dirtiedSince, queues, writes, call, firstSync, differs, left>>
    BY <1>7 DEF Lock, Unlock
  <2> QED
    BY <2>1 DEF TypeOK, TriesLeft
<1>8. CASE SignIn
  <2>1. /\ locked' \in BOOLEAN
        /\ UNCHANGED <<launch, online, completedOnlineDownloadFirstSync, discordance, locks,
                       dirty, dirtiedSince, queues, writes, call, differs, left>>
    BY <1>8 DEF SignIn
  <2>2. firstSync' \in LoopState /\ TriesLeft'
    BY <1>0, <1>8 DEF SignIn, LoopState, TriesLeft
  <2> QED
    BY <2>1, <2>2 DEF TypeOK, TriesLeft
<1>9. ASSUME NEW ok \in BOOLEAN, SignInAnswered(ok) PROVE TypeOK' /\ TriesLeft'
  <2>1. /\ locked' \in BOOLEAN /\ online' \in BOOLEAN
        /\ UNCHANGED <<launch, completedOnlineDownloadFirstSync, locks, dirty, dirtiedSince,
                       queues, writes, call, differs, left>>
    BY <1>9 DEF SignInAnswered
  <2>2. discordance' \in Nat
    BY <1>9 DEF SignInAnswered, TypeOK
  <2>3. firstSync' \in LoopState /\ TriesLeft'
    BY <1>0, <1>9 DEF SignInAnswered, LoopState, TriesLeft
  <2> QED
    BY <2>1, <2>2, <2>3 DEF TypeOK, TriesLeft
<1>10. ASSUME NEW mergeLocal \in BOOLEAN, SignedIn(mergeLocal) PROVE TypeOK' /\ TriesLeft'
  <2>1. /\ locked' \in BOOLEAN /\ dirty' \in BOOLEAN /\ dirtiedSince' \in BOOLEAN
        /\ UNCHANGED <<launch, online, completedOnlineDownloadFirstSync, discordance, locks,
                       queues, writes, call, differs, left>>
    BY <1>10 DEF SignedIn
  <2>2. firstSync' \in LoopState /\ TriesLeft'
    BY <1>0, <1>10 DEF SignedIn, LoopState, TriesLeft
  <2> QED
    BY <2>1, <2>2 DEF TypeOK, TriesLeft
<1>11. ASSUME NEW o \in ExternalOptions, TryDownloadFirst(o) PROVE TypeOK' /\ TriesLeft'
  <2>1. [o EXCEPT !.mode = "DownloadFirst", !.strategy = "ForceSpawnNew"] \in Options
    BY OptionsAssumption DEF Options, Mode, Strategy
  <2>2. /\ EntryTypes' /\ Fresh \in Call
        /\ UNCHANGED <<service, dirty, differs, left>>
    BY <1>11, <2>1, OutsideSyncType DEF TryDownloadFirst
  <2>3. firstSync.tries + 1 \in 0..MaxTries
    BY <1>0, <1>11, BoundAssumption DEF TryDownloadFirst, LoopState, TriesLeft
  <2>4. firstSync' \in LoopState /\ TriesLeft'
    BY <1>11, <2>2, <2>3 DEF TryDownloadFirst, LoopState, TriesLeft
  <2> QED
    BY <2>2, <2>4 DEF TypeOK, EntryTypes
<1>12. CASE CheckDownloadFirst
  <2>1. [call EXCEPT ![firstSync.sub] = Blank] \in [Call -> CallRecord]
    BY BlankType DEF TypeOK, TriesLeft
  <2>2. /\ call' \in [Call -> CallRecord]
        /\ UNCHANGED <<locks, service, dirty, dirtiedSince, queues, writes, differs, left>>
    BY <1>12, <2>1 DEF CheckDownloadFirst
  <2>3. firstSync' \in LoopState
    BY <1>0, <1>12 DEF CheckDownloadFirst, LoopState
  <2>4. firstSync.tries \in Nat /\ MaxTries \in Nat
    BY <1>0, BoundAssumption DEF LoopState
  <2>5. TriesLeft'
    BY <1>0, <1>12, <2>4 DEF CheckDownloadFirst, OutOfTries, TriesLeft, LoopState
  <2> QED
    BY <2>2, <2>3, <2>5 DEF TypeOK
<1> QED
  BY <1>1, <1>2, <1>3, <1>4, <1>5, <1>6, <1>7, <1>8, <1>9, <1>10, <1>11, <1>12
     DEF Surroundings, SignInLoop

\* The strengthening of TypeOK: downloadFirstSync counts its tries up to MaxTries only.
TypeInv == TypeOK /\ TriesLeft

LEMMA TypeInvInit == Init => TypeInv
<1> SUFFICES ASSUME Init PROVE TypeInv
  OBVIOUS
<1>1. call \in [Call -> CallRecord]
  BY BlankType DEF Init
<1>2. left \in Budget
  BY BoundAssumption DEF Init, Budget
<1>3. firstSync \in LoopState /\ TriesLeft
  BY BoundAssumption DEF Init, LoopState, TriesLeft
<1>4. online \in BOOLEAN
  BY EnvAssumption DEF Init
<1>5. spawnQueue \in Seq(Call) /\ writes \in Seq(Call)
  BY DEF Init
<1>6. /\ locked \in BOOLEAN /\ differs \in BOOLEAN /\ syncLock \in BOOLEAN
      /\ syncing \in BOOLEAN /\ error \in BOOLEAN /\ dirty \in BOOLEAN
      /\ dirtiedSince \in BOOLEAN /\ completedOnlineDownloadFirstSync \in BOOLEAN
  BY DEF Init
<1>7. /\ launch \in {"loading", "loaded", "launched"}
      /\ discordance \in Nat
      /\ resolveQueue \subseteq Call
  BY DEF Init
<1> QED
  BY <1>1, <1>2, <1>3, <1>4, <1>5, <1>6, <1>7 DEF TypeOK, TypeInv

LEMMA TypeInvNext == TypeInv /\ [Next]_vars => TypeInv'
<1> SUFFICES ASSUME TypeOK, TriesLeft, [Next]_vars PROVE TypeOK' /\ TriesLeft'
  BY DEF TypeInv
<1>1. ASSUME NEW c \in Call, Step(c) PROVE TypeOK' /\ TriesLeft'
  <2>1. UNCHANGED firstSync
    BY <1>1 DEF Step, Continue, Event, Persisted, BeginSync, Send, Fail, AnswerPart, Mapped,
                Answer, Saved, Throw, ObserverSync, AfterDownloadFirst, PopSpawnQueue,
                SyncFromResolveQueue, SyncMoreDirtyItems, SyncFromIntegrityCheck, EndSync,
                Resume, StartAwaited, StartMaybeAwaited
  <2>2. TypeOK'
    BY <1>1, RequestStepType, CompletionStepType DEF Step, Continue, Event
  <2> QED
    BY <2>1, <2>2 DEF TriesLeft
<1>2. CASE Surroundings
  BY <1>2, SurroundingsType
<1>3. CASE UNCHANGED vars
  BY <1>3 DEF vars, service, locks, queues, TypeOK, TriesLeft
<1> QED
  BY <1>1, <1>2, <1>3 DEF Next

(***************************************************************************)
(* Whatever the callers, the server and the user do, the variables keep    *)
(* their types; among others, downloadFirstSync() gives up after MaxTries. *)
(***************************************************************************)
THEOREM TypeCorrect == Spec => []TypeOK
<1>1. Spec => []TypeInv
  BY TypeInvInit, TypeInvNext, PTL DEF Spec
<1>2. TypeInv => TypeOK
  BY DEF TypeInv
<1> QED
  BY <1>1, <1>2, PTL

-----------------------------------------------------------------------------
(* Mutual exclusion of requests. *)

\* The calls that fn shows between captureLock and releaseLock.
HeldBy(fn) == {c \in Call : /\ fn[c].runs
                            /\ fn[c].pc \in {"persisting", "beginning", "preparing",
                                             "sent", "mapping", "saving"}}

\* A call past its pre-sync save has passed the entry checks.
PassedChecks(fn) ==
  \A c \in Call : fn[c].pc \in {"beginning", "preparing", "sent", "mapping", "saving"}
                    => fn[c].runs

(***************************************************************************)
(* The inductive invariant: the lock is set as long as some call has it.   *)
(* SingleFlight alone is not inductive, since an entering call looks only  *)
(* at the lock and not at the other calls.                                 *)
(***************************************************************************)
LockInv ==
  /\ PassedChecks(call)
  /\ HeldBy(call) # {} => syncLock
  /\ \A c, d \in HeldBy(call) : c = d

\* No call takes the lock on the way from call to fn.
Releases(fn) == PassedChecks(fn) /\ HeldBy(fn) \subseteq HeldBy(call)

\* Settling promises takes no lock.
LEMMA SettleReleases ==
  ASSUME NEW fn \in [Call -> CallRecord], Releases(fn), NEW S,
         NEW outcome \in {"resolved", "rejected"}
  PROVE  Releases(Settle(fn, S, outcome))
<1> DEFINE g == Settle(fn, S, outcome)
<1>1. ASSUME NEW d \in Call
      PROVE  g[d] = fn[d] \/ g[d].pc \in {"idle", "resolved", "rejected"}
  BY BlankType DEF Settle, Blank, CallRecord
<1> HIDE DEF g
<1>2. PassedChecks(g)
  BY <1>1 DEF Releases, PassedChecks
<1>3. HeldBy(g) \subseteq HeldBy(call)
  BY <1>1 DEF Releases, HeldBy
<1> QED
  BY <1>2, <1>3 DEF Releases, g

\* Moving one slot to a point outside the lock takes no lock.
LEMMA MoveReleases ==
  ASSUME NEW fn \in [Call -> CallRecord], Releases(fn), NEW c \in Call, NEW r \in CallRecord,
         r.pc \notin {"persisting", "beginning", "preparing", "sent", "mapping", "saving"}
  PROVE  Releases([fn EXCEPT ![c] = r])
<1> DEFINE g == [fn EXCEPT ![c] = r]
<1>1. ASSUME NEW d \in Call PROVE g[d] = IF d = c THEN r ELSE fn[d]
  OBVIOUS
<1> HIDE DEF g
<1>2. PassedChecks(g)
  BY <1>1 DEF Releases, PassedChecks
<1>3. HeldBy(g) \subseteq HeldBy(call)
  BY <1>1 DEF Releases, HeldBy
<1> QED
  BY <1>2, <1>3 DEF Releases, g

\* The entry of sync() takes the lock only if nobody has it.
LEMMA StartSyncLocks ==
  ASSUME TypeOK, LockInv, NEW c \in Call, NEW o \in Options, NEW kept \in BOOLEAN,
         NEW fn \in [Call -> CallRecord], NEW q \in Seq(Call), Releases(fn),
         StartSync(c, o, kept, fn, q)
  PROVE  LockInv'
<1>1. CASE locked
  <2> DEFINE v == IF kept THEN [Blank EXCEPT !.pc = "resolved", !.kept = TRUE] ELSE Blank
  <2>1. v \in CallRecord /\ v.pc \in {"idle", "resolved"}
    BY BlankType DEF CallRecord, PC, Blank
  <2>2. call' = [fn EXCEPT ![c] = v] /\ UNCHANGED syncLock
    BY <1>1 DEF StartSync, locks
  <2> HIDE DEF v
  <2>3. Releases(call')
    BY <2>1, <2>2, MoveReleases
  <2> QED
    BY <2>2, <2>3 DEF LockInv, Releases
<1>2. CASE ~locked
  <2> DEFINE old == [d \in Call |-> [fn[d] EXCEPT !.snap = @ \ {c}]]
             r == [Blank EXCEPT !.opts = o, !.items = dirty, !.runs = MayRun,
                                !.kept = kept, !.sent = ~dirty,
                                !.snap = IF MayRun THEN Unsent(fn) ELSE {}]
  <2>1. ASSUME NEW d \in Call
        PROVE  old[d].pc = fn[d].pc /\ old[d].runs = fn[d].runs
    <3>1. fn[d] \in CallRecord
      OBVIOUS
    <3> QED
      BY <3>1 DEF CallRecord
  <2>2. r.runs = MayRun
    BY DEF Blank
  <2>3. /\ syncLock' = (syncLock \/ MayRun)
        /\ \/ call' = [old EXCEPT ![c] = [r EXCEPT !.pc = "persisting"]]
           \/ Arrive(c, r, old, q)
    BY <1>2 DEF StartSync, Captures, TypeOK
  <2>4. /\ DOMAIN old = Call
        /\ [r EXCEPT !.pc = "persisting"].pc = "persisting"
        /\ [r EXCEPT !.pc = "persisting"].runs = r.runs
    BY DEF Blank
  <2> HIDE DEF old, r
  <2>5. ASSUME NEW d \in Call, d # c
        PROVE  call'[d] = old[d]
    BY <2>3, <2>4, <2>5 DEF Arrive
  <2>6. \/ /\ call'[c].pc \in {"persisting", "beginning"}
           /\ call'[c].runs = MayRun
           /\ call'[c].pc = "beginning" => call'[c].runs
        \/ call'[c].pc \in {"onNext", "toSpawn"}
    <3>1. CASE call' = [old EXCEPT ![c] = [r EXCEPT !.pc = "persisting"]]
      BY <2>2, <2>4, <3>1
    <3>2. CASE Arrive(c, r, old, q) /\ r.runs
      <4>1. DOMAIN r = DOMAIN Blank
        BY DEF r
      <4>2. call'[c] = [r EXCEPT !.pc = "beginning", !.ran = TRUE,
                                 !.inTime = resolveQueue, !.sent = TRUE]
        BY <2>4, <3>2 DEF Arrive
      <4> QED
        BY <2>2, <3>2, <4>1, <4>2 DEF Blank
    <3>3. CASE Arrive(c, r, old, q) /\ ~r.runs
      BY <2>4, <3>3 DEF Arrive, Blank
    <3> QED
      BY <2>3, <3>1, <3>2, <3>3
  <2>8. PassedChecks(call')
    BY <2>1, <2>5, <2>6 DEF PassedChecks, Releases
  <2>9. HeldBy(call') \subseteq HeldBy(call) \cup {c}
    BY <2>1, <2>5 DEF HeldBy, Releases
  <2>10. c \in HeldBy(call') => MayRun
    BY <2>6 DEF HeldBy
  <2>11. MayRun => ~syncLock
    BY DEF MayRun
  <2>12. CASE MayRun
    <3>1. HeldBy(call') \subseteq {c} /\ syncLock'
      BY <2>3, <2>9, <2>11, <2>12 DEF LockInv
    <3> QED
      BY <2>8, <3>1 DEF LockInv
  <2>13. CASE ~MayRun
    <3>1. HeldBy(call') \subseteq HeldBy(call)
      BY <2>9, <2>10, <2>13
    <3>2. syncLock' = syncLock
      BY <2>3, <2>13 DEF TypeOK
    <3> QED
      BY <2>8, <3>1, <3>2 DEF LockInv
  <2> QED
    BY <2>12, <2>13
<1> QED
  BY <1>1, <1>2 DEF TypeOK

\* A step that releases and leaves the lock alone keeps the invariant.
LEMMA ReleasesKeeps ==
  ASSUME LockInv, Releases(call'), syncLock' = syncLock
  PROVE  LockInv'
BY DEF LockInv, Releases

\* The end of an operation leaves nobody with the lock.
LEMMA EndOperationLocks ==
  ASSUME TypeOK, LockInv, NEW c \in Call, NEW failed \in BOOLEAN,
         c \in HeldBy(call), EndOperation(c, failed)
  PROVE  LockInv'
<1>1. call[c] \in CallRecord /\ Releases(call)
  BY DEF TypeOK, LockInv, Releases
<1>2. [call[c] EXCEPT !.pc = "completed", !.items = FALSE] \in CallRecord
  BY <1>1 DEF CallRecord, PC
<1>3. [call[c] EXCEPT !.pc = "completed", !.items = FALSE].pc = "completed"
  BY <1>1 DEF CallRecord
<1>4. call' \in [Call -> CallRecord] /\ call'[c].pc \in {"completed", "resolved", "idle"}
  <2>1. Settle(call, {c}, "resolved")[c].pc \in {"resolved", "idle"}
    BY BlankType DEF Settle, Blank
  <2> QED
    BY <1>3, <2>1, EndOperationType DEF EndOperation, TypeOK
<1>5. Releases(call')
  <2> DEFINE done == [call[c] EXCEPT !.pc = "completed", !.items = FALSE]
  <2>1. call \in [Call -> CallRecord]
    BY DEF TypeOK
  <2>2. \/ call' = Settle(call, {c}, "resolved")
        \/ call' = [call EXCEPT ![c] = done]
    BY DEF EndOperation
  <2> HIDE DEF done
  <2>3. Releases(Settle(call, {c}, "resolved"))
    BY <1>1, <2>1, SettleReleases
  <2>4. Releases([call EXCEPT ![c] = done])
    BY <1>1, <1>2, <1>3, <2>1, MoveReleases DEF done
  <2> QED
    BY <2>2, <2>3, <2>4
<1>6. HeldBy(call') = {}
  BY <1>4, <1>5 DEF LockInv, Releases, HeldBy
<1> QED
  BY <1>5, <1>6 DEF LockInv, Releases

\* The steps of a call up to the server's answer keep the lock's invariant.
LEMMA RequestStepLocks ==
  ASSUME TypeOK, LockInv, NEW c \in Call,
         Persisted(c) \/ BeginSync(c) \/ Send(c) \/ Fail(c) \/ AnswerPart(c)
           \/ Mapped(c) \/ Answer(c) \/ Saved(c) \/ Throw(c)
  PROVE  LockInv'
<1>0. /\ call \in [Call -> CallRecord] /\ call[c] \in CallRecord
      /\ Releases(call) /\ PassedChecks(call)
  BY DEF TypeOK, LockInv, Releases
<1>1. CASE Persisted(c)
  <2>1. /\ call[c].pc = "persisting" /\ syncLock' = syncLock
        /\ Arrive(c, call[c], call, spawnQueue)
    BY <1>1 DEF Persisted
  <2>2. \A d \in Call : d # c => call'[d] = call[d]
    BY <1>0, <2>1 DEF Arrive
  <2>3. \/ call[c].runs /\ call'[c].runs /\ call'[c].pc = "beginning"
        \/ call'[c].pc \in {"onNext", "toSpawn"}
    <3>1. CASE call[c].runs
      <4>1. call'[c] = [call[c] EXCEPT !.pc = "beginning", !.ran = TRUE,
                                       !.inTime = resolveQueue, !.sent = TRUE]
        BY <1>0, <2>1, <3>1 DEF Arrive
      <4> QED
        BY <1>0, <3>1, <4>1 DEF CallRecord
    <3>2. CASE ~call[c].runs
      BY <1>0, <2>1, <3>2 DEF Arrive, Blank
    <3> QED
      BY <3>1, <3>2
  <2>4. Releases(call')
    BY <1>0, <2>1, <2>2, <2>3 DEF Releases, PassedChecks, HeldBy
  <2> QED
    BY <2>1, <2>4, ReleasesKeeps
<1>2. CASE BeginSync(c) \/ Send(c) \/ AnswerPart(c) \/ Mapped(c)
           \/ (Answer(c) /\ ~EndOperation(c, FALSE))
  <2>1. /\ call[c].pc \in {"beginning", "preparing", "sent", "mapping"}
        /\ syncLock' = syncLock
    BY <1>2 DEF BeginSync, Send, AnswerPart, Mapped, Answer, locks
  <2>2. \A d \in Call : call'[d].runs = call[d].runs /\ (d # c => call'[d].pc = call[d].pc)
    <3>1. CASE BeginSync(c)
      <4> DEFINE next == [call[c] EXCEPT !.pc = "preparing", !.account = online,
                                         !.mode = UseMode(call[c].opts)]
      <4>1. call' = [call EXCEPT ![c] = next]
        BY <3>1 DEF BeginSync
      <4>2. next.runs = call[c].runs
        BY <1>0 DEF CallRecord
      <4> HIDE DEF next
      <4> QED
        BY <1>0, <4>1, <4>2
    <3>2. CASE Send(c)
      <4>1. \A d \in Call : call[d] \in CallRecord
        BY <1>0
      <4> QED
        BY <3>2, <4>1 DEF Send, CallRecord
    <3>3. CASE AnswerPart(c) \/ Mapped(c)
      <4>1. \/ call' = [call EXCEPT ![c] = [call[c] EXCEPT !.pc = "mapping"]]
            \/ call' = [call EXCEPT ![c] = [call[c] EXCEPT !.pc = "sent"]]
        BY <3>3 DEF AnswerPart, Mapped
      <4>2. /\ [call[c] EXCEPT !.pc = "mapping"].runs = call[c].runs
            /\ [call[c] EXCEPT !.pc = "sent"].runs = call[c].runs
        BY <1>0 DEF CallRecord
      <4> QED
        BY <1>0, <4>1, <4>2
    <3>4. CASE Answer(c) /\ ~EndOperation(c, FALSE)
      <4> DEFINE next == [call[c] EXCEPT !.pc = "saving", !.items = FALSE]
      <4>1. call' = [call EXCEPT ![c] = next]
        BY <3>4 DEF Answer
      <4>2. next.runs = call[c].runs
        BY <1>0 DEF CallRecord
      <4> HIDE DEF next
      <4> QED
        BY <1>0, <4>1, <4>2
    <3> QED
      BY <1>2, <3>1, <3>2, <3>3, <3>4
  <2>4. call[c].runs
    BY <1>0, <2>1 DEF PassedChecks
  <2>5. Releases(call')
    BY <1>0, <2>1, <2>2, <2>4 DEF Releases, PassedChecks, HeldBy
  <2> QED
    BY <2>1, <2>5, ReleasesKeeps
<1>3. CASE \/ Fail(c) /\ EndOperation(c, TRUE)
           \/ Answer(c) /\ EndOperation(c, FALSE)
           \/ Saved(c)
  <2>1. call[c].pc \in {"sent", "saving"}
    BY <1>3 DEF Fail, Answer, Saved
  <2>2. c \in HeldBy(call)
    BY <1>0, <2>1 DEF PassedChecks, HeldBy
  <2>3. EndOperation(c, TRUE) \/ EndOperation(c, FALSE)
    BY <1>3 DEF Saved
  <2> QED
    BY <2>2, <2>3, EndOperationLocks
<1>4. CASE Fail(c) /\ ~EndOperation(c, TRUE)
  BY <1>0, <1>4, ReleasesKeeps DEF Fail, Releases, PassedChecks, HeldBy
<1>5. CASE Throw(c)
  <2>1. call' = Settle(call, {c}, "rejected") /\ syncLock' = syncLock
    BY <1>5 DEF Throw
  <2> QED
    BY <1>0, <2>1, SettleReleases, ReleasesKeeps
<1> QED
  BY <1>1, <1>2, <1>3, <1>4, <1>5

LEMMA StartAwaitedLocks ==
  ASSUME TypeOK, LockInv, NEW c \in Call, NEW o \in Options,
         NEW pc \in {"observing", "awaiting"}, StartAwaited(c, o, pc)
  PROVE  LockInv'
<1> DEFINE moved == [call[c] EXCEPT !.pc = pc, !.sub = Fresh]
<1>1. Fresh \in Call
  BY FreshIsFree DEF StartAwaited, Free, At
<1>2. call \in [Call -> CallRecord] /\ call[c] \in CallRecord /\ Releases(call)
  BY DEF TypeOK, LockInv, Releases
<1>3. moved \in CallRecord /\ moved.pc = pc
  BY <1>1, <1>2 DEF CallRecord, PC
<1>4. StartSync(Fresh, o, TRUE, [call EXCEPT ![c] = moved], spawnQueue)
  BY DEF StartAwaited
<1> HIDE DEF moved
<1>5. [call EXCEPT ![c] = moved] \in [Call -> CallRecord]
  BY <1>2, <1>3
<1>6. Releases([call EXCEPT ![c] = moved])
  BY <1>2, <1>3, MoveReleases
<1> QED
  BY <1>1, <1>4, <1>5, <1>6, StartSyncLocks DEF TypeOK

LEMMA StartMaybeAwaitedLocks ==
  ASSUME TypeOK, LockInv, NEW c \in Call, NEW o \in Options, StartMaybeAwaited(c, o)
  PROVE  LockInv'
<1>1. CASE StartAwaited(c, o, "awaiting")
  BY <1>1, StartAwaitedLocks
<1>2. CASE /\ Free # {}
           /\ StartSync(Fresh, o, FALSE, Finish(call, c), spawnQueue)
  <2>1. Fresh \in Call
    BY <1>2, FreshIsFree DEF Free, At
  <2>2. Releases(Finish(call, c))
    BY SettleReleases DEF TypeOK, LockInv, Releases, Finish
  <2> QED
    BY <1>2, <2>1, <2>2, StartSyncLocks, FinishType DEF TypeOK
<1> QED
  BY <1>1, <1>2 DEF StartMaybeAwaited

\* The steps of a completed call, and of one that is woken, keep the lock's invariant.
LEMMA CompletionStepLocks ==
  ASSUME TypeOK, LockInv, NEW c \in Call,
         ObserverSync(c) \/ AfterDownloadFirst(c) \/ PopSpawnQueue(c)
           \/ SyncFromResolveQueue(c) \/ SyncMoreDirtyItems(c)
           \/ SyncFromIntegrityCheck(c) \/ EndSync(c) \/ Resume(c)
  PROVE  LockInv'
<1>0. /\ call \in [Call -> CallRecord] /\ call[c] \in CallRecord
      /\ Releases(call) /\ NoOptions \in Options /\ call[c].opts \in Options
  BY BlankType DEF TypeOK, LockInv, Releases, CallRecord
<1>1. CASE ObserverSync(c) \/ AfterDownloadFirst(c) \/ SyncMoreDirtyItems(c)
  <2>1. PICK o, pc : /\ o \in Options
                    /\ pc \in {"observing", "awaiting"}
                    /\ StartAwaited(c, o, pc)
    <3>1. /\ [NoOptions EXCEPT !.integrity = TRUE, !.awaitAll = call[c].opts.awaitAll]
               \in Options
          /\ [NoOptions EXCEPT !.integrity = call[c].opts.integrity,
                               !.awaitAll = call[c].opts.awaitAll] \in Options
      BY <1>0 DEF Options
    <3> QED
      BY <1>0, <1>1, <3>1 DEF ObserverSync, AfterDownloadFirst, SyncMoreDirtyItems
  <2> QED
    BY <2>1, StartAwaitedLocks
<1>2. CASE SyncFromResolveQueue(c) \/ SyncFromIntegrityCheck(c)
  <2>1. PICK o \in Options : StartMaybeAwaited(c, o)
    <3>1. /\ [NoOptions EXCEPT !.integrity = call[c].opts.integrity] \in Options
          /\ [call[c].opts EXCEPT !.strategy = "ForceSpawnNew", !.mode = "Default"]
               \in Options
      BY <1>0 DEF Options, Strategy, Mode
    <3> QED
      BY <1>2, <3>1 DEF SyncFromResolveQueue, SyncFromIntegrityCheck
  <2> QED
    BY <2>1, StartMaybeAwaitedLocks
<1>3. CASE PopSpawnQueue(c)
  <2> DEFINE head == Head(spawnQueue)
             base == [call EXCEPT ![c].pc = "popped"]
             spawned == [base[head] EXCEPT !.pc = "spawned", !.sub = Fresh]
             popped == [call EXCEPT ![c].pc = "popped",
                                    ![head] = [@ EXCEPT !.pc = "spawned", !.sub = Fresh]]
  <2>1. head \in Call /\ Tail(spawnQueue) \in Seq(Call)
    BY <1>3 DEF PopSpawnQueue, TypeOK
  <2>2. Fresh \in Call
    BY <1>3, FreshIsFree DEF PopSpawnQueue, Free, At
  <2>3. /\ [call[c] EXCEPT !.pc = "popped"] \in CallRecord
        /\ [call[c] EXCEPT !.pc = "popped"].pc = "popped"
    BY <1>0 DEF CallRecord, PC
  <2>4. base \in [Call -> CallRecord] /\ Releases(base)
    BY <1>0, <2>3, MoveReleases
  <2>5. popped = [base EXCEPT ![head] = spawned]
    OBVIOUS
  <2>6. /\ StartSync(Fresh, call[head].opts, TRUE, popped, Tail(spawnQueue))
        /\ call[head].opts \in Options
    BY <1>0, <1>3, <2>1 DEF PopSpawnQueue, CallRecord
  <2> HIDE DEF base, popped
  <2>7. spawned \in CallRecord /\ spawned.pc = "spawned"
    <3>1. base[head] \in CallRecord
      BY <2>1, <2>4
    <3> QED
      BY <2>2, <3>1 DEF CallRecord, PC
  <2> HIDE DEF spawned
  <2>8. popped \in [Call -> CallRecord] /\ Releases(popped)
    BY <2>1, <2>4, <2>5, <2>7, MoveReleases
  <2> QED
    BY <2>1, <2>2, <2>6, <2>8, StartSyncLocks
<1>4. CASE EndSync(c)
  BY <1>0, <1>4, SettleReleases, ReleasesKeeps DEF EndSync, Finish, locks
<1>5. CASE Resume(c)
  <2> DEFINE sub == call[c].sub
             base == [call EXCEPT ![sub] = Blank]
             woken == [call[c] EXCEPT !.sub = None, !.ran = @ \/ call[sub].ran]
             fn == [call EXCEPT ![sub] = Blank, ![c] = woken]
  <2>1. sub \in Call
    BY <1>5 DEF Resume, Settled, At
  <2>2. call[sub].ran \in BOOLEAN
    BY <1>0, <2>1 DEF CallRecord
  <2>3. woken \in CallRecord /\ woken.pc = call[c].pc
    BY <1>0, <2>2 DEF CallRecord
  <2>4. Blank.pc = "idle"
    BY DEF Blank
  <2>5. base \in [Call -> CallRecord] /\ Releases(base)
    BY <1>0, <2>1, <2>4, BlankType, MoveReleases
  <2>6. fn = [base EXCEPT ![c] = woken]
    OBVIOUS
  <2>7. /\ \/ call' = Settle(fn, {c}, "rejected")
           \/ call' = [fn EXCEPT ![c].pc = "completed"]
           \/ call' = Finish(fn, c)
        /\ syncLock' = syncLock
        /\ call[c].pc \in {"observing", "awaiting", "spawned"}
    BY <1>5 DEF Resume, locks
  <2> HIDE DEF base, woken, fn
  <2>8. fn \in [Call -> CallRecord] /\ Releases(fn)
    BY <2>3, <2>5, <2>6, <2>7, MoveReleases
  <2>9. fn[c] \in CallRecord
    BY <2>8
  <2>10. /\ [fn[c] EXCEPT !.pc = "completed"] \in CallRecord
         /\ [fn[c] EXCEPT !.pc = "completed"].pc = "completed"
    BY <2>9 DEF CallRecord, PC
  <2>11. Releases([fn EXCEPT ![c].pc = "completed"])
    BY <2>8, <2>10, MoveReleases
  <2>12. Releases(call')
    BY <2>7, <2>8, <2>11, SettleReleases DEF Finish
  <2> QED
    BY <2>7, <2>12, ReleasesKeeps
<1> QED
  BY <1>1, <1>2, <1>3, <1>4, <1>5

\* The steps of the callers and of the events around them keep the lock's invariant.
LEMMA SurroundingsLocks ==
  ASSUME TypeOK, LockInv, Surroundings
  PROVE  LockInv'
<1>0. /\ call \in [Call -> CallRecord] /\ spawnQueue \in Seq(Call)
      /\ Releases(call) /\ NoOptions \in Options
  BY BlankType DEF TypeOK, LockInv, Releases
<1>1. ASSUME NEW o \in Options, NEW kept \in BOOLEAN, Room,
             StartSync(Fresh, o, kept, call, spawnQueue)
      PROVE  LockInv'
  <2>1. Fresh \in Call
    BY <1>1, RoomIsFree, FreshIsFree DEF Free, At
  <2> QED
    BY <1>0, <1>1, <2>1, StartSyncLocks
<1>2. ASSUME NEW o \in ExternalOptions, ExternalSync(o) PROVE LockInv'
  BY <1>1, <1>2, OptionsAssumption DEF ExternalSync
<1>3. CASE LaunchSync
  <2>1. [NoOptions EXCEPT !.mode = "DownloadFirst"] \in Options
    BY <1>0 DEF Options, Mode
  <2> QED
    BY <1>1, <1>3, <2>1 DEF LaunchSync
<1>4. CASE AutoSync
  BY <1>0, <1>1, <1>4 DEF AutoSync
<1>5. ASSUME NEW o \in ExternalOptions, TryDownloadFirst(o) PROVE LockInv'
  <2>1. [o EXCEPT !.mode = "DownloadFirst", !.strategy = "ForceSpawnNew"] \in Options
    BY OptionsAssumption DEF Options, Mode, Strategy
  <2> QED
    BY <1>1, <1>5, <2>1 DEF TryDownloadFirst
<1>6. CASE CheckDownloadFirst
  <2>1. call' = [call EXCEPT ![firstSync.sub] = Blank] /\ syncLock' = syncLock
        /\ firstSync.sub \in Call
    BY <1>6 DEF CheckDownloadFirst, locks, Settled, At
  <2>2. Blank.pc = "idle"
    BY DEF Blank
  <2> QED
    BY <1>0, <2>1, <2>2, BlankType, MoveReleases, ReleasesKeeps
<1>7. CASE UNCHANGED <<call, syncLock>>
  BY <1>0, <1>7, ReleasesKeeps DEF Releases, PassedChecks, HeldBy
<1>8. LoadDatabase \/ Edit \/ Diverge \/ Lock \/ Unlock \/ SignIn
        \/ (\E ok \in BOOLEAN : SignInAnswered(ok))
        \/ (\E mergeLocal \in BOOLEAN : SignedIn(mergeLocal))
        => UNCHANGED <<call, syncLock>>
  BY DEF LoadDatabase, Edit, Diverge, Lock, Unlock, SignIn, SignInAnswered, SignedIn, locks
<1> QED
  BY <1>2, <1>3, <1>4, <1>5, <1>6, <1>7, <1>8 DEF Surroundings, SignInLoop

LEMMA LockInvInit == Init => LockInv
BY DEF Init, LockInv, PassedChecks, HeldBy, Blank

LEMMA LockInvNext == TypeOK /\ LockInv /\ [Next]_vars => LockInv'
<1> SUFFICES ASSUME TypeOK, LockInv, [Next]_vars PROVE LockInv'
  OBVIOUS
<1>1. ASSUME NEW c \in Call, Step(c) PROVE LockInv'
  BY <1>1, RequestStepLocks, CompletionStepLocks DEF Step, Continue, Event
<1>2. CASE Surroundings
  BY <1>2, SurroundingsLocks
<1>3. CASE UNCHANGED vars
  BY <1>3 DEF vars, locks, LockInv, PassedChecks, HeldBy
<1> QED
  BY <1>1, <1>2, <1>3 DEF Next

(***************************************************************************)
(* Two calls of sync() never prepare or run a request at the same time,    *)
(* however many callers, observers, retries and failures there are: the    *)
(* checks of sync() that read the lock once, before their first wait, are  *)
(* enough.                                                                 *)
(***************************************************************************)
THEOREM RequestsNeverOverlap == Spec => []SingleFlight
<1>1. LockInv => SingleFlight
  BY DEF LockInv, SingleFlight, Holder, HeldBy
<1>2. Spec => []LockInv
  BY TypeCorrect, LockInvInit, LockInvNext, PTL DEF Spec
<1> QED
  BY <1>1, <1>2, PTL

-----------------------------------------------------------------------------
(***************************************************************************)
(* Uploads wait for the first download.  UploadInv says it of every call,  *)
(* wherever it is, since a call decides once how it runs: no other step    *)
(* makes it an upload.                                                     *)
(***************************************************************************)
Uploads(r) == r.account /\ r.mode = "Default"

UploadInv == \A c \in Call : Uploads(call[c]) => completedOnlineDownloadFirstSync

\* No call becomes an upload on the way from call to fn.
Quiet(fn) == \A c \in Call : Uploads(fn[c]) => Uploads(call[c])

LEMMA BlankQuiet == ~Uploads(Blank)
BY DEF Uploads, Blank

LEMMA SettleQuiet ==
  ASSUME NEW fn \in [Call -> CallRecord], Quiet(fn), NEW S, NEW outcome
  PROVE  Quiet(Settle(fn, S, outcome))
<1> DEFINE g == Settle(fn, S, outcome)
<1>1. ASSUME NEW d \in Call PROVE g[d] = fn[d] \/ ~Uploads(g[d])
  BY DEF Settle, Blank, Uploads
<1> QED
  BY <1>1 DEF Quiet

LEMMA MoveQuiet ==
  ASSUME NEW fn \in [Call -> CallRecord], Quiet(fn), NEW c \in Call, NEW r,
         Uploads(r) => Uploads(fn[c])
  PROVE  Quiet([fn EXCEPT ![c] = r])
BY DEF Quiet

LEMMA ArriveQuiet ==
  ASSUME NEW c \in Call, NEW r \in CallRecord, NEW fn \in [Call -> CallRecord], Quiet(fn),
         Uploads(r) => Uploads(fn[c]), NEW q, Arrive(c, r, fn, q)
  PROVE  Quiet(call')
<1>1. PICK s : call' = [fn EXCEPT ![c] = s] /\ (Uploads(s) => Uploads(r))
  <2>1. CASE r.runs
    <3>1. Uploads([r EXCEPT !.pc = "beginning", !.ran = TRUE, !.inTime = resolveQueue,
                            !.sent = TRUE]) <=> Uploads(r)
      BY DEF CallRecord, Uploads
    <3> QED
      BY <2>1, <3>1 DEF Arrive
  <2>2. CASE ~r.runs
    <3>1. \A k, s, o : /\ ~Uploads([Blank EXCEPT !.pc = "onNext", !.kept = k, !.sent = s])
                       /\ ~Uploads([Blank EXCEPT !.pc = "toSpawn", !.kept = k, !.opts = o])
      BY DEF Blank, Uploads
    <3> QED
      BY <2>2, <3>1 DEF Arrive
  <2> QED
    BY <2>1, <2>2
<1> QED
  BY <1>1, MoveQuiet

LEMMA StartSyncQuiet ==
  ASSUME TypeOK, NEW c \in Call, NEW o \in Options, NEW kept \in BOOLEAN,
         NEW fn \in [Call -> CallRecord], NEW q, Quiet(fn), StartSync(c, o, kept, fn, q)
  PROVE  Quiet(call')
<1>1. CASE locked
  <2>1. ~Uploads(IF kept THEN [Blank EXCEPT !.pc = "resolved", !.kept = TRUE] ELSE Blank)
    BY DEF Blank, Uploads
  <2> QED
    BY <1>1, <2>1, MoveQuiet DEF StartSync
<1>2. CASE ~locked
  <2> DEFINE old == [d \in Call |-> [fn[d] EXCEPT !.snap = @ \ {c}]]
             r == [Blank EXCEPT !.opts = o, !.items = dirty, !.runs = MayRun,
                                !.kept = kept, !.sent = ~dirty,
                                !.snap = IF MayRun THEN Unsent(fn) ELSE {}]
  <2>1. old \in [Call -> CallRecord]
    BY DEF CallRecord
  <2>2. Quiet(old)
    <3>1. ASSUME NEW d \in Call PROVE Uploads(old[d]) => Uploads(fn[d])
      <4>1. fn[d] \in CallRecord
        OBVIOUS
      <4> QED
        BY <4>1 DEF CallRecord, Uploads
    <3> QED
      BY <3>1 DEF Quiet
  <2>3. r \in CallRecord
    <3>1. MayRun \in BOOLEAN /\ Unsent(fn) \subseteq Call
      BY DEF MayRun, databaseLoaded, Unsent
    <3> QED
      BY ZenonT(30), <3>1, BlankType DEF CallRecord, TypeOK
  <2>4. ~Uploads(r) /\ ~Uploads([r EXCEPT !.pc = "persisting"])
    BY DEF Blank, Uploads
  <2>5. \/ call' = [old EXCEPT ![c] = [r EXCEPT !.pc = "persisting"]]
        \/ Arrive(c, r, old, q)
    BY <1>2 DEF StartSync
  <2> HIDE DEF old, r
  <2> QED
    BY <2>1, <2>2, <2>3, <2>4, <2>5, MoveQuiet, ArriveQuiet
<1> QED
  BY <1>1, <1>2 DEF TypeOK

LEMMA StartAwaitedQuiet ==
  ASSUME TypeOK, NEW c \in Call, NEW o \in Options, NEW pc \in PC, StartAwaited(c, o, pc)
  PROVE  Quiet(call')
<1> DEFINE moved == [call[c] EXCEPT !.pc = pc, !.sub = Fresh]
<1>1. Fresh \in Call /\ call[c] \in CallRecord /\ call \in [Call -> CallRecord]
  BY FreshIsFree DEF StartAwaited, Free, At, TypeOK
<1>2. moved \in CallRecord /\ (Uploads(moved) => Uploads(call[c]))
  BY <1>1 DEF CallRecord, Uploads
<1>3. StartSync(Fresh, o, TRUE, [call EXCEPT ![c] = moved], spawnQueue)
  BY DEF StartAwaited
<1> HIDE DEF moved
<1>4. [call EXCEPT ![c] = moved] \in [Call -> CallRecord]
  BY <1>1, <1>2
<1>5. Quiet([call EXCEPT ![c] = moved])
  BY <1>1, <1>2, MoveQuiet DEF Quiet
<1> QED
  BY <1>1, <1>3, <1>4, <1>5, StartSyncQuiet

LEMMA StartMaybeAwaitedQuiet ==
  ASSUME TypeOK, NEW c \in Call, NEW o \in Options, StartMaybeAwaited(c, o)
  PROVE  Quiet(call')
<1>1. CASE StartAwaited(c, o, "awaiting")
  BY <1>1, StartAwaitedQuiet DEF PC
<1>2. CASE Free # {} /\ StartSync(Fresh, o, FALSE, Finish(call, c), spawnQueue)
  <2>1. Fresh \in Call
    BY <1>2, FreshIsFree DEF Free, At
  <2>2. Quiet(Finish(call, c))
    BY SettleQuiet DEF TypeOK, Quiet, Finish
  <2> QED
    BY <1>2, <2>1, <2>2, StartSyncQuiet, FinishType
<1> QED
  BY <1>1, <1>2 DEF StartMaybeAwaited

\* Every step makes none an upload, but for the one that decides on it.
LEMMA RequestStepQuiet ==
  ASSUME TypeOK, NEW c \in Call,
         Persisted(c) \/ Send(c) \/ Fail(c) \/ AnswerPart(c) \/ Mapped(c) \/ Answer(c)
           \/ Saved(c) \/ Throw(c)
  PROVE  /\ Quiet(call')
         /\ completedOnlineDownloadFirstSync => completedOnlineDownloadFirstSync'
<1>0. call \in [Call -> CallRecord] /\ call[c] \in CallRecord /\ Quiet(call)
  BY DEF TypeOK, Quiet
<1>1. CASE Persisted(c)
  BY <1>0, <1>1, ArriveQuiet DEF Persisted, service
<1>2. CASE Send(c)
  <2>1. ASSUME NEW d \in Call PROVE Uploads(call'[d]) => Uploads(call[d])
    <3>1. call[d] \in CallRecord
      BY <1>0
    <3> QED
      BY <1>2, <3>1 DEF Send, CallRecord, Uploads
  <2> QED
    BY <1>2, <2>1 DEF Quiet, Send, service
<1>3. ASSUME NEW failed \in BOOLEAN, EndOperation(c, failed)
      PROVE  /\ Quiet(call')
             /\ completedOnlineDownloadFirstSync => completedOnlineDownloadFirstSync'
  <2> DEFINE r == [call[c] EXCEPT !.pc = "completed", !.items = FALSE]
  <2>1. Uploads(r) => Uploads(call[c])
    BY <1>0 DEF CallRecord, Uploads
  <2>2. CASE failed
    BY <1>0, <1>3, <2>2, SettleQuiet DEF EndOperation
  <2>3. CASE ~failed
    <3>1. call' = [call EXCEPT ![c] = r]
      BY <1>3, <2>3 DEF EndOperation
    <3>2. completedOnlineDownloadFirstSync => completedOnlineDownloadFirstSync'
      BY <1>3, <2>3 DEF EndOperation
    <3> HIDE DEF r
    <3> QED
      BY <1>0, <2>1, <3>1, <3>2, MoveQuiet
  <2> QED
    BY <2>2, <2>3
<1>4. CASE Fail(c) \/ Saved(c)
  <2>1. CASE Saved(c)
    BY <1>3, <2>1 DEF Saved
  <2>2. CASE Fail(c)
    <3>1. \/ UNCHANGED <<call, completedOnlineDownloadFirstSync>>
          \/ EndOperation(c, TRUE)
      BY <2>2 DEF Fail
    <3>2. CASE UNCHANGED <<call, completedOnlineDownloadFirstSync>>
      BY <3>2 DEF Quiet
    <3> QED
      BY <1>3, <3>1, <3>2
  <2> QED
    BY <1>4, <2>1, <2>2
<1>5. CASE AnswerPart(c) \/ Mapped(c) \/ (Answer(c) /\ ~EndOperation(c, FALSE))
  <2>1. PICK r : /\ call' = [call EXCEPT ![c] = r] /\ UNCHANGED service
                 /\ \/ r = [call[c] EXCEPT !.pc = "mapping"]
                    \/ r = [call[c] EXCEPT !.pc = "sent"]
                    \/ r = [call[c] EXCEPT !.pc = "saving", !.items = FALSE]
    BY <1>5 DEF AnswerPart, Mapped, Answer
  <2>2. Uploads(r) => Uploads(call[c])
    BY <1>0, <2>1 DEF CallRecord, Uploads
  <2> QED
    BY <1>0, <2>1, <2>2, MoveQuiet DEF service
<1>6. CASE Answer(c) /\ EndOperation(c, FALSE)
  BY <1>3, <1>6
<1>7. CASE Throw(c)
  BY <1>0, <1>7, SettleQuiet DEF Throw, service
<1> QED
  BY <1>1, <1>2, <1>4, <1>5, <1>6, <1>7

LEMMA CompletionStepQuiet ==
  ASSUME TypeOK, NEW c \in Call,
         ObserverSync(c) \/ AfterDownloadFirst(c) \/ PopSpawnQueue(c)
           \/ SyncFromResolveQueue(c) \/ SyncMoreDirtyItems(c)
           \/ SyncFromIntegrityCheck(c) \/ EndSync(c) \/ Resume(c)
  PROVE  Quiet(call') /\ UNCHANGED service
<1>0. /\ call \in [Call -> CallRecord] /\ call[c] \in CallRecord /\ Quiet(call)
      /\ NoOptions \in Options /\ call[c].opts \in Options
  BY BlankType DEF TypeOK, Quiet, CallRecord
<1>1. CASE ObserverSync(c) \/ AfterDownloadFirst(c) \/ SyncMoreDirtyItems(c)
  <2>1. PICK o, pc : /\ o \in Options
                    /\ pc \in {"observing", "awaiting"}
                    /\ StartAwaited(c, o, pc)
    <3>1. /\ [NoOptions EXCEPT !.integrity = TRUE, !.awaitAll = call[c].opts.awaitAll]
               \in Options
          /\ [NoOptions EXCEPT !.integrity = call[c].opts.integrity,
                               !.awaitAll = call[c].opts.awaitAll] \in Options
      BY <1>0 DEF Options
    <3> QED
      BY <1>0, <1>1, <3>1 DEF ObserverSync, AfterDownloadFirst, SyncMoreDirtyItems
  <2> QED
    BY <2>1, StartAwaitedQuiet DEF PC, StartAwaited
<1>2. CASE SyncFromResolveQueue(c) \/ SyncFromIntegrityCheck(c)
  <2>1. PICK o \in Options : StartMaybeAwaited(c, o)
    <3>1. /\ [NoOptions EXCEPT !.integrity = call[c].opts.integrity] \in Options
          /\ [call[c].opts EXCEPT !.strategy = "ForceSpawnNew", !.mode = "Default"]
               \in Options
      BY <1>0 DEF Options, Strategy, Mode
    <3> QED
      BY <1>2, <3>1 DEF SyncFromResolveQueue, SyncFromIntegrityCheck
  <2> QED
    BY <2>1, StartMaybeAwaitedQuiet DEF StartMaybeAwaited, StartAwaited
<1>3. CASE PopSpawnQueue(c)
  <2> DEFINE head == Head(spawnQueue)
             base == [call EXCEPT ![c].pc = "popped"]
             spawned == [base[head] EXCEPT !.pc = "spawned", !.sub = Fresh]
             popped == [call EXCEPT ![c].pc = "popped",
                                    ![head] = [@ EXCEPT !.pc = "spawned", !.sub = Fresh]]
  <2>1. head \in Call /\ Fresh \in Call
    BY <1>3, FreshIsFree DEF PopSpawnQueue, TypeOK, Free, At
  <2>2. /\ [call[c] EXCEPT !.pc = "popped"] \in CallRecord
        /\ Uploads([call[c] EXCEPT !.pc = "popped"]) => Uploads(call[c])
    BY <1>0 DEF CallRecord, PC, Uploads
  <2>3. base \in [Call -> CallRecord] /\ Quiet(base)
    BY <1>0, <2>2, MoveQuiet
  <2>4. popped = [base EXCEPT ![head] = spawned]
    OBVIOUS
  <2>5. /\ StartSync(Fresh, call[head].opts, TRUE, popped, Tail(spawnQueue))
        /\ call[head].opts \in Options /\ UNCHANGED service
    BY <1>0, <1>3, <2>1 DEF PopSpawnQueue, CallRecord
  <2> HIDE DEF base, popped
  <2>6. spawned \in CallRecord /\ (Uploads(spawned) => Uploads(base[head]))
    <3>1. base[head] \in CallRecord
      BY <2>1, <2>3
    <3> QED
      BY <2>1, <3>1 DEF CallRecord, PC, Uploads
  <2> HIDE DEF spawned
  <2>7. popped \in [Call -> CallRecord] /\ Quiet(popped)
    BY <2>1, <2>3, <2>4, <2>6, MoveQuiet
  <2> QED
    BY <2>1, <2>5, <2>7, StartSyncQuiet
<1>4. CASE EndSync(c)
  BY <1>0, <1>4, SettleQuiet DEF EndSync, Finish
<1>5. CASE Resume(c)
  <2> DEFINE sub == call[c].sub
             base == [call EXCEPT ![sub] = Blank]
             woken == [call[c] EXCEPT !.sub = None, !.ran = @ \/ call[sub].ran]
             fn == [call EXCEPT ![sub] = Blank, ![c] = woken]
  <2>1. sub \in Call
    BY <1>5 DEF Resume, Settled, At
  <2>2. call[sub].ran \in BOOLEAN
    BY <1>0, <2>1 DEF CallRecord
  <2>3. woken \in CallRecord /\ (Uploads(woken) => Uploads(call[c]))
    BY <1>0, <2>2 DEF CallRecord, Uploads
  <2>4. base \in [Call -> CallRecord]
    BY <1>0, <2>1, BlankType
  <2>5. fn = [base EXCEPT ![c] = woken]
    OBVIOUS
  <2>6. /\ \/ call' = Settle(fn, {c}, "rejected")
           \/ call' = [fn EXCEPT ![c].pc = "completed"]
           \/ call' = Finish(fn, c)
        /\ UNCHANGED service
    BY <1>5 DEF Resume
  <2>7. \A d \in Call : fn[d] = IF d = c THEN woken ELSE IF d = sub THEN Blank ELSE call[d]
    BY <1>0
  <2> HIDE DEF base, woken, fn
  <2>8. fn \in [Call -> CallRecord]
    BY <2>3, <2>4, <2>5
  <2>9. Quiet(fn)
    BY <2>3, <2>7, BlankQuiet DEF Quiet
  <2>10. Uploads([fn[c] EXCEPT !.pc = "completed"]) => Uploads(fn[c])
    BY <2>8 DEF CallRecord, Uploads
  <2> QED
    BY <2>6, <2>8, <2>9, <2>10, SettleQuiet, MoveQuiet DEF Finish
<1> QED
  BY <1>1, <1>2, <1>3, <1>4, <1>5

LEMMA SurroundingsQuiet ==
  ASSUME TypeOK, Surroundings
  PROVE  Quiet(call') /\ UNCHANGED completedOnlineDownloadFirstSync
<1>0. /\ call \in [Call -> CallRecord] /\ Quiet(call) /\ NoOptions \in Options
  BY BlankType DEF TypeOK, Quiet
<1>1. ASSUME NEW o \in Options, NEW kept \in BOOLEAN, Room,
             StartSync(Fresh, o, kept, call, spawnQueue)
      PROVE  Quiet(call')
  <2>1. Fresh \in Call
    BY <1>1, RoomIsFree, FreshIsFree DEF Free, At
  <2> QED
    BY <1>0, <1>1, <2>1, StartSyncQuiet
<1>2. ASSUME NEW o \in ExternalOptions, ExternalSync(o) PROVE Quiet(call') /\ UNCHANGED service
  BY <1>1, <1>2, OptionsAssumption DEF ExternalSync
<1>3. CASE LaunchSync
  <2>1. [NoOptions EXCEPT !.mode = "DownloadFirst"] \in Options
    BY <1>0 DEF Options, Mode
  <2> QED
    BY <1>1, <1>3, <2>1 DEF LaunchSync
<1>4. CASE AutoSync
  BY <1>0, <1>1, <1>4 DEF AutoSync, service
<1>5. ASSUME NEW o \in ExternalOptions, TryDownloadFirst(o) PROVE Quiet(call') /\ UNCHANGED service
  <2>1. [o EXCEPT !.mode = "DownloadFirst", !.strategy = "ForceSpawnNew"] \in Options
    BY OptionsAssumption DEF Options, Mode, Strategy
  <2> QED
    BY <1>1, <1>5, <2>1 DEF TryDownloadFirst
<1>6. CASE CheckDownloadFirst
  <2>1. call' = [call EXCEPT ![firstSync.sub] = Blank] /\ UNCHANGED service
        /\ firstSync.sub \in Call
    BY <1>6 DEF CheckDownloadFirst, Settled, At
  <2> QED
    BY <1>0, <2>1, BlankQuiet, MoveQuiet DEF service
<1>7. LoadDatabase \/ Edit \/ Diverge \/ Lock \/ Unlock \/ SignIn
        \/ (\E ok \in BOOLEAN : SignInAnswered(ok))
        \/ (\E mergeLocal \in BOOLEAN : SignedIn(mergeLocal))
        => UNCHANGED <<call, completedOnlineDownloadFirstSync>>
  BY DEF LoadDatabase, Edit, Diverge, Lock, Unlock, SignIn, SignInAnswered, SignedIn, service
<1> QED
  BY <1>0, <1>2, <1>3, <1>4, <1>5, <1>6, <1>7 DEF Surroundings, SignInLoop, service

LEMMA UploadInvNext == TypeOK /\ UploadInv /\ [Next]_vars => UploadInv'
<1> SUFFICES ASSUME TypeOK, UploadInv, [Next]_vars PROVE UploadInv'
  OBVIOUS
<1>1. ASSUME Quiet(call'), completedOnlineDownloadFirstSync => completedOnlineDownloadFirstSync'
      PROVE  UploadInv'
  BY <1>1 DEF Quiet, UploadInv
<1>2. ASSUME NEW c \in Call, BeginSync(c) PROVE UploadInv'
  <2>1. call \in [Call -> CallRecord] /\ call[c] \in CallRecord
    BY DEF TypeOK
  <2> DEFINE r == [call[c] EXCEPT !.pc = "preparing", !.account = online,
                                  !.mode = UseMode(call[c].opts)]
  <2>2. call' = [call EXCEPT ![c] = r] /\ UNCHANGED completedOnlineDownloadFirstSync
    BY <1>2 DEF BeginSync, service
  <2>3. Uploads(r) => completedOnlineDownloadFirstSync
    BY <2>1 DEF CallRecord, Uploads, UseMode, TypeOK
  <2> HIDE DEF r
  <2> QED
    BY <2>1, <2>2, <2>3 DEF UploadInv
<1>3. ASSUME NEW c \in Call, Step(c), ~BeginSync(c) PROVE UploadInv'
  BY <1>1, <1>3, RequestStepQuiet, CompletionStepQuiet DEF Step, Continue, Event, service
<1>4. CASE Surroundings
  BY <1>1, <1>4, SurroundingsQuiet
<1>5. CASE UNCHANGED vars
  BY <1>1, <1>5 DEF vars, service, Quiet
<1> QED
  BY <1>2, <1>3, <1>4, <1>5 DEF Next

(***************************************************************************)
(* DownloadBeforeUpload holds of every behaviour: whatever mode callers    *)
(* ask for, and whenever the user signs in, requests fail or pages come,   *)
(* nothing is uploaded to an account that was not downloaded first.        *)
(***************************************************************************)
THEOREM DownloadsComeFirst == Spec => []DownloadBeforeUpload
<1>1. Init => UploadInv
  BY BlankQuiet DEF Init, UploadInv
<1>2. UploadInv => DownloadBeforeUpload
  BY DEF UploadInv, DownloadBeforeUpload, Uploads
<1> QED
  BY <1>1, <1>2, UploadInvNext, TypeCorrect, PTL DEF Spec

-----------------------------------------------------------------------------
(***************************************************************************)
(* Waiting calls are served.  Calls, failed requests and the autosync      *)
(* timer come in any order and number; excluded are a lock held elsewhere, *)
(* an exception, writes that overtake others and a sign-in: with each of   *)
(* them alone, TLC finds calls that wait for nothing (README).             *)
(***************************************************************************)
Orderly == Env \subseteq {"fail", "timer"}

\* The two records differ at most in what the server is sent, and from whom.
Alike(r, s) ==
  /\ r.pc = s.pc /\ r.runs = s.runs /\ r.inTime = s.inTime
  /\ r.kept = s.kept /\ r.ran = s.ran /\ r.sub = s.sub /\ r.opts = s.opts

\* The calls that have a request to make or one to conclude.
ServedBy(fn) == HeldBy(fn) \cup {c \in Call : fn[c].pc = "completed"}

\* The calls that found the service busy and save before they queue.
Late(fn) == {c \in Call : fn[c].pc = "persisting" /\ ~fn[c].runs}

(***************************************************************************)
(* Who waits is in one place: a promise in the queue or among the in-time  *)
(* callbacks of one call only, and in the spawn queue once.                *)
(***************************************************************************)
WaitInv(fn, rq, sq) ==
  /\ \A d \in rq : fn[d].pc = "onNext"
  /\ \A c \in Call : \A d \in fn[c].inTime : fn[d].pc = "onNext"
  /\ \A c, e \in Call : c # e => fn[c].inTime \cap fn[e].inTime = {}
  /\ \A c \in Call : fn[c].pc # "beginning" => fn[c].inTime \cap rq = {}
  /\ \A i \in 1..Len(sq) : fn[sq[i]].pc = "toSpawn"
  /\ \A i, j \in 1..Len(sq) : sq[i] = sq[j] => i = j

Writing == {"persisting", "mapping", "saving"}

\* The calls that await storage are those with a write, and each has one.
WriteInv(fn, w) ==
  /\ \A c \in Call : fn[c].pc \in Writing => \E i \in 1..Len(w) : w[i] = c
  /\ \A i \in 1..Len(w) : fn[w[i]].pc \in Writing
  /\ \A i, j \in 1..Len(w) : w[i] = w[j] => i = j

(***************************************************************************)
(* The items for which a late call came are dirty still, or are on their   *)
(* way to storage behind the call's own write.                             *)
(***************************************************************************)
LateInv(fn, dirt, w) ==
  \/ dirt
  \/ \A c \in Late(fn) :
       \E i, j \in 1..Len(w) : i < j /\ w[i] = c /\ fn[w[j]].pc = "saving"

AfterRun == {"completed", "popped", "observing"}

\* Requests are made once the database is loaded.
LoadInv(fn) ==
  \A c \in Call : c \in HeldBy(fn) \/ fn[c].pc \in AfterRun => databaseLoaded

Ready(fn, rq, sq) ==
  /\ PassedChecks(fn)
  /\ WaitInv(fn, rq, sq)
  /\ WriteInv(fn, writes)
  /\ LateInv(fn, dirty, writes)
  /\ LoadInv(fn)

\* Only a call that serves sets the flags that keep others from running.
FlagInv == (syncLock \/ syncing) => HeldBy(call) # {}

(***************************************************************************)
(* The inductive invariant.  Besides the queues it counts the late calls   *)
(* as waiting; a call that has just popped the spawn queue does not count  *)
(* as serving, since the one it started, or another, has the lock.         *)
(***************************************************************************)
ServeInv ==
  /\ Ready(call, resolveQueue, spawnQueue)
  /\ FlagInv
  /\ ~locked /\ firstSync.pc = "signedOut"
  /\ (launch = "launched" /\ ~error
       /\ (resolveQueue # {} \/ spawnQueue # <<>> \/ Late(call) # {}))
          => ServedBy(call) # {}
  /\ At("popped") # {} => HeldBy(call) # {}

\* Where a call neither waits, nor has a write or a request.
Off == {"idle", "completed", "popped", "observing", "awaiting", "spawned", "resolved",
        "rejected"}

\* Calls that move between such points leave what others rely on.
LEMMA OffReady ==
  ASSUME NEW fn \in [Call -> CallRecord], NEW g \in [Call -> CallRecord],
         NEW rq \in SUBSET Call, NEW sq \in Seq(Call), writes \in Seq(Call),
         Ready(fn, rq, sq),
         \A d \in Call : \/ Alike(g[d], fn[d])
                         \/ /\ fn[d].pc \in Off /\ g[d].pc \in Off
                            /\ g[d].inTime \subseteq fn[d].inTime
                            /\ g[d].pc \in AfterRun => databaseLoaded
  PROVE  Ready(g, rq, sq) /\ HeldBy(g) = HeldBy(fn) /\ Late(g) = Late(fn)
<1>1. \A d \in Call : /\ fn[d].inTime \subseteq Call
                      /\ g[d].inTime \subseteq fn[d].inTime
                      /\ \/ fn[d].pc = g[d].pc /\ fn[d].runs = g[d].runs
                         \/ fn[d].pc \in Off /\ g[d].pc \in Off
  BY DEF CallRecord, Alike
<1>2. WaitInv(g, rq, sq)
  <2>1. \A d \in Call : /\ fn[d].pc = "onNext" => g[d].pc = "onNext"
                        /\ fn[d].pc = "toSpawn" => g[d].pc = "toSpawn"
                        /\ fn[d].pc = "beginning" => g[d].pc = "beginning"
    BY <1>1 DEF Off
  <2>2. WaitInv(fn, rq, sq)
    BY DEF Ready
  <2>3. \A d \in rq : g[d].pc = "onNext"
    BY <2>1, <2>2 DEF WaitInv
  <2>4. \A c \in Call : \A d \in g[c].inTime : g[d].pc = "onNext"
    BY <1>1, <2>1, <2>2 DEF WaitInv
  <2>5. \A c, e \in Call : c # e => g[c].inTime \cap g[e].inTime = {}
    BY <1>1, <2>2 DEF WaitInv
  <2>6. \A c \in Call : g[c].pc # "beginning" => g[c].inTime \cap rq = {}
    BY <1>1, <2>1, <2>2 DEF WaitInv
  <2>7. \A i \in 1..Len(sq) : g[sq[i]].pc = "toSpawn"
    BY <2>1, <2>2 DEF WaitInv
  <2> QED
    BY <2>2, <2>3, <2>4, <2>5, <2>6, <2>7 DEF WaitInv
<1>3. \A d \in Call : /\ fn[d].pc \in Writing <=> g[d].pc \in Writing
                      /\ fn[d].pc = "saving" <=> g[d].pc = "saving"
  BY <1>1 DEF Off, Writing
<1>4. WriteInv(g, writes)
  BY <1>3 DEF Ready, WriteInv
<1>5. HeldBy(g) = HeldBy(fn) /\ Late(g) = Late(fn)
  BY <1>1 DEF HeldBy, Late, Off
<1>6. LateInv(g, dirty, writes)
  <2>1. \A j \in 1..Len(writes) : writes[j] \in Call
    OBVIOUS
  <2> QED
    BY <1>3, <1>5, <2>1 DEF Ready, LateInv
<1>7. LoadInv(g)
  BY <1>5 DEF Ready, LoadInv, Alike
<1>8. PassedChecks(g)
  BY <1>1 DEF Ready, PassedChecks, Off
<1> QED
  BY <1>2, <1>4, <1>5, <1>6, <1>7, <1>8 DEF Ready

\* A call that settles is over.
LEMMA SettleStep ==
  ASSUME NEW fn, NEW S, NEW outcome
  PROVE  \A d \in Call :
           IF d \in S THEN /\ Settle(fn, S, outcome)[d].pc \in {"idle", outcome}
                          /\ Settle(fn, S, outcome)[d].inTime = {}
           ELSE Settle(fn, S, outcome)[d] = fn[d]
BY DEF Settle, Blank

\* The end of sync() answers nobody else's promises.
LEMMA FinishReady ==
  ASSUME NEW fn \in [Call -> CallRecord], NEW c \in Call, fn[c].pc \in Off,
         NEW rq \in SUBSET Call, NEW sq \in Seq(Call), writes \in Seq(Call),
         Ready(fn, rq, sq)
  PROVE  /\ Finish(fn, c) \in [Call -> CallRecord]
         /\ Ready(Finish(fn, c), rq, sq)
         /\ HeldBy(Finish(fn, c)) = HeldBy(fn) /\ Late(Finish(fn, c)) = Late(fn)
         /\ \A d \in Call : d # c /\ fn[d].pc # "onNext" => Alike(Finish(fn, c)[d], fn[d])
         /\ Finish(fn, c)[c].pc \in {"idle", "resolved"}
         /\ \A d \in Call : Finish(fn, c)[d].pc = "popped" => fn[d].pc = "popped"
<1> DEFINE g == Finish(fn, c)
           S == fn[c].inTime \cup {c}
<1>1. g \in [Call -> CallRecord]
  BY SettleType DEF Finish, PC
<1>2. \A d \in Call : IF d \in S THEN g[d].pc \in {"idle", "resolved"} /\ g[d].inTime = {}
                      ELSE g[d] = fn[d]
  BY SettleStep DEF Finish
<1>3. WaitInv(fn, rq, sq) /\ fn[c].inTime \subseteq Call
  BY DEF Ready, CallRecord
<1>4. \A d \in Call : d \in S => fn[d].pc \in Off \cup {"onNext"}
  BY <1>3 DEF WaitInv
<1>5. \A d \in rq : d \notin S
  BY <1>3 DEF WaitInv, Off
<1>6. \A e \in Call : e # c => fn[e].inTime \cap S = {}
  BY <1>3 DEF WaitInv, Off
<1>7. \A d \in Call : fn[d].inTime \subseteq Call
  BY DEF CallRecord
<1> HIDE DEF g, S
<1>8. c \in S
  BY DEF S
<1>9. WaitInv(g, rq, sq)
  <2>1. \A d \in rq : g[d].pc = "onNext"
    BY <1>2, <1>3, <1>5 DEF WaitInv
  <2>2. \A e \in Call : \A d \in g[e].inTime : g[d].pc = "onNext"
    <3> TAKE e \in Call
    <3> TAKE d \in g[e].inTime
    <3>1. e \notin S /\ g[e].inTime = fn[e].inTime
      BY <1>2
    <3>2. d \notin S /\ d \in Call
      BY <1>6, <1>7, <1>8, <3>1
    <3> QED
      BY <1>2, <1>3, <3>1, <3>2 DEF WaitInv
  <2>3. \A d, e \in Call : d # e => g[d].inTime \cap g[e].inTime = {}
    BY <1>2, <1>3 DEF WaitInv
  <2>4. \A d \in Call : g[d].pc # "beginning" => g[d].inTime \cap rq = {}
    BY <1>2, <1>3 DEF WaitInv
  <2>5. \A i \in 1..Len(sq) : g[sq[i]].pc = "toSpawn"
    <3> TAKE i \in 1..Len(sq)
    <3>1. sq[i] \in Call /\ fn[sq[i]].pc = "toSpawn"
      BY <1>3 DEF WaitInv
    <3>2. sq[i] \notin S
      BY <1>4, <3>1 DEF Off
    <3> QED
      BY <1>2, <3>1, <3>2
  <2> QED
    BY <1>3, <2>1, <2>2, <2>3, <2>4, <2>5 DEF WaitInv
<1>10. \A d \in Call : \/ g[d] = fn[d]
                       \/ /\ g[d].pc \in {"idle", "resolved"}
                          /\ fn[d].pc \in Off \cup {"onNext"}
  BY <1>2, <1>4
<1>11. \A d \in Call : /\ fn[d].pc \in Writing <=> g[d].pc \in Writing
                       /\ fn[d].pc = "saving" <=> g[d].pc = "saving"
  BY <1>10 DEF Off, Writing
<1>12. WriteInv(g, writes)
  <2>1. \A j \in 1..Len(writes) : writes[j] \in Call
    OBVIOUS
  <2>2. WriteInv(fn, writes)
    BY DEF Ready
  <2> QED
    BY <1>11, <2>1, <2>2 DEF WriteInv
<1>13. HeldBy(g) = HeldBy(fn) /\ Late(g) = Late(fn)
  BY <1>10 DEF HeldBy, Late, Off
<1>14. LateInv(g, dirty, writes)
  <2>1. \A j \in 1..Len(writes) : writes[j] \in Call
    OBVIOUS
  <2> QED
    BY <1>11, <1>13, <2>1 DEF Ready, LateInv
<1>15. LoadInv(g)
  BY <1>10, <1>13 DEF Ready, LoadInv, AfterRun
<1>16. \A d \in Call : d # c /\ fn[d].pc # "onNext" => g[d] = fn[d]
  BY <1>2, <1>3 DEF WaitInv, S
<1>17. g[c].pc \in {"idle", "resolved"}
  BY <1>2, <1>8
<1>18. PassedChecks(g)
  BY <1>10 DEF Ready, PassedChecks
<1>19. \A d \in Call : g[d].pc = "popped" => fn[d].pc = "popped"
  BY <1>10
<1> QED
  BY <1>1, <1>9, <1>12, <1>13, <1>14, <1>15, <1>16, <1>17, <1>18, <1>19 DEF Ready, Alike, g

\* A call that waits for storage now has the youngest write.
LEMMA AppendWrites ==
  ASSUME NEW fn \in [Call -> CallRecord], NEW g \in [Call -> CallRecord],
         NEW w \in Seq(Call), NEW c \in Call, NEW dirt, WriteInv(fn, w),
         fn[c].pc \notin Writing, g[c].pc \in Writing,
         \A d \in Call : d # c => Alike(g[d], fn[d])
  PROVE  /\ WriteInv(g, Append(w, c))
         /\ g[c].pc = "saving" => LateInv(g, dirt, Append(w, c))
<1> DEFINE v == Append(w, c)
<1>1. /\ v \in Seq(Call) /\ Len(v) = Len(w) + 1
      /\ \A i \in 1..Len(w) : v[i] = w[i] /\ w[i] \in Call
      /\ v[Len(w) + 1] = c
  OBVIOUS
<1>2. \A i \in 1..Len(w) : w[i] # c
  BY DEF WriteInv
<1>3. Len(w) \in Nat
  OBVIOUS
<1> HIDE DEF v
<1>4. \A i \in 1..Len(v) : IF i = Len(w) + 1 THEN v[i] = c
                           ELSE i \in 1..Len(w) /\ v[i] = w[i] /\ v[i] \in Call /\ v[i] # c
  BY <1>1, <1>2, <1>3
<1>5. \A i \in 1..Len(v) : g[v[i]].pc \in Writing
  BY <1>1, <1>4 DEF WriteInv, Alike
<1>6. \A i, j \in 1..Len(v) : v[i] = v[j] => i = j
  BY <1>4 DEF WriteInv
<1>7. \A d \in Call : d # c /\ g[d].pc \in Writing => \E i \in 1..Len(w) : w[i] = d
  BY DEF WriteInv, Alike
<1>8. \A d \in Call : g[d].pc \in Writing => \E i \in 1..Len(v) : v[i] = d
  BY <1>1, <1>3, <1>7
<1>9. \A d \in Call : d # c /\ g[d].pc \in Writing =>
        \E i, j \in 1..Len(v) : i < j /\ v[i] = d /\ v[j] = c
  <2> TAKE d \in Call
  <2> HAVE d # c /\ g[d].pc \in Writing
  <2>1. PICK i \in 1..Len(w) : w[i] = d
    BY <1>7
  <2>2. i \in 1..Len(v) /\ Len(w) + 1 \in 1..Len(v) /\ i < Len(w) + 1
    BY <1>1, <1>3
  <2> QED
    BY <1>1, <2>1, <2>2
<1>10. g[c].pc = "saving" => LateInv(g, dirt, v)
  <2> HAVE g[c].pc = "saving"
  <2>1. \A d \in Late(g) : \E i, j \in 1..Len(v) : i < j /\ v[i] = d /\ g[v[j]].pc = "saving"
    BY <1>9 DEF Late, Writing
  <2> QED
    BY <2>1 DEF LateInv
<1> QED
  BY <1>5, <1>6, <1>8, <1>10 DEF WriteInv, v

\* With writes in order, the call that goes on had the oldest.
LEMMA WriteDoneIs ==
  ASSUME Orderly, writes \in Seq(Call), NEW c \in Call, WriteDone(c)
  PROVE  writes # <<>> /\ writes[1] = c /\ writes' = Tail(writes)
<1>1. PICK i \in DOMAIN writes : /\ writes[i] = c /\ i = 1
                                /\ writes' = RemoveAt(writes, i)
  BY DEF Orderly, WriteDone
<1>2. SubSeq(writes, 1, 0) = <<>> /\ Len(writes) >= 1
  BY <1>1
<1>3. writes' = <<>> \o SubSeq(writes, 2, Len(writes))
  BY <1>1, <1>2 DEF RemoveAt
<1>4. SubSeq(writes, 2, Len(writes)) = Tail(writes)
  BY <1>2
<1> QED
  BY <1>1, <1>2, <1>3, <1>4

LEMMA TailWrites ==
  ASSUME NEW fn \in [Call -> CallRecord], NEW g \in [Call -> CallRecord],
         NEW w \in Seq(Call), w # <<>>, WriteInv(fn, w), NEW dirt, LateInv(fn, dirt, w),
         g[w[1]].pc \notin Writing,
         \A d \in Call : d # w[1] => Alike(g[d], fn[d])
  PROVE  WriteInv(g, Tail(w)) /\ LateInv(g, dirt, Tail(w))
<1> DEFINE v == Tail(w)
<1>1. /\ v \in Seq(Call) /\ Len(v) = Len(w) - 1 /\ Len(w) \in Nat /\ Len(w) >= 1
      /\ \A i \in 1..Len(v) : v[i] = w[i + 1] /\ v[i] \in Call
      /\ \A i \in 1..Len(w) : w[i] \in Call
  OBVIOUS
<1> HIDE DEF v
<1>2. \A i \in 1..Len(v) : i + 1 \in 1..Len(w) /\ v[i] = w[i + 1] /\ v[i] # w[1]
  BY <1>1 DEF WriteInv
<1>3. \A i \in 1..Len(v) : g[v[i]].pc \in Writing
  <2>1. \A i \in 1..Len(v) : g[v[i]].pc = fn[v[i]].pc
    BY <1>1, <1>2 DEF Alike
  <2> QED
    BY <1>2, <2>1 DEF WriteInv
<1>4. \A i, j \in 1..Len(v) : v[i] = v[j] => i = j
  BY <1>1, <1>2 DEF WriteInv
<1>5. \A i \in 1..Len(w) : w[i] # w[1] => i - 1 \in 1..Len(v) /\ v[i - 1] = w[i]
  BY <1>1
<1>6. \A d \in Call : g[d].pc \in Writing => \E i \in 1..Len(v) : v[i] = d
  <2> TAKE d \in Call
  <2> HAVE g[d].pc \in Writing
  <2>1. d # w[1]
    OBVIOUS
  <2>2. PICK i \in 1..Len(w) : w[i] = d
    BY <2>1 DEF WriteInv, Alike
  <2> QED
    BY <1>5, <2>1, <2>2
<1>7. LateInv(g, dirt, v)
  <2>1. CASE dirt
    BY <2>1 DEF LateInv
  <2>2. CASE ~dirt
    <3>1. SUFFICES ASSUME NEW c \in Late(g)
                   PROVE  \E i, j \in 1..Len(v) : i < j /\ v[i] = c /\ g[v[j]].pc = "saving"
      BY DEF LateInv
    <3>2. c \in Call /\ c # w[1] /\ c \in Late(fn)
      BY DEF Late, Writing, Alike
    <3>3. PICK i, j \in 1..Len(w) : i < j /\ w[i] = c /\ fn[w[j]].pc = "saving"
      BY <2>2, <3>2 DEF LateInv
    <3>4. w[j] # w[1]
      BY <1>1, <3>3 DEF WriteInv
    <3>5. /\ i - 1 \in 1..Len(v) /\ v[i - 1] = c
          /\ j - 1 \in 1..Len(v) /\ v[j - 1] = w[j] /\ i - 1 < j - 1
      BY <1>1, <1>5, <3>2, <3>3, <3>4
    <3>6. g[w[j]].pc = "saving"
      BY <1>1, <3>3, <3>4 DEF Alike
    <3> QED
      BY <3>5, <3>6
  <2> QED
    BY <2>1, <2>2
<1> QED
  BY <1>3, <1>4, <1>6, <1>7 DEF WriteInv, v

\* Call c runs, or is in one of the queues.
Arrives(c, runs, q) ==
  \/ /\ runs /\ call'[c].runs /\ call'[c].pc = "beginning"
     /\ call'[c].inTime = resolveQueue
     /\ syncing' = TRUE
     /\ resolveQueue' = resolveQueue /\ spawnQueue' = q
  \/ /\ ~runs /\ ~call'[c].runs /\ call'[c].pc = "onNext"
     /\ call'[c].inTime = {}
     /\ syncing' = syncing
     /\ resolveQueue' = resolveQueue \cup {c} /\ spawnQueue' = q
  \/ /\ ~runs /\ ~call'[c].runs /\ call'[c].pc = "toSpawn"
     /\ call'[c].inTime = {}
     /\ syncing' = syncing
     /\ resolveQueue' = resolveQueue /\ spawnQueue' = Append(q, c)

\* What becomes of a call after its pre-sync save, or without one.
LEMMA ArriveStep ==
  ASSUME NEW c \in Call, NEW r \in CallRecord, NEW fn \in [Call -> CallRecord],
         NEW q, Arrive(c, r, fn, q)
  PROVE  /\ \A d \in Call : d # c => call'[d] = fn[d]
         /\ Arrives(c, r.runs, q)
<1>1. CASE r.runs
  <2> DEFINE s == [r EXCEPT !.pc = "beginning", !.ran = TRUE, !.inTime = resolveQueue,
                            !.sent = TRUE]
  <2>1. s.runs = r.runs /\ s.pc = "beginning" /\ s.inTime = resolveQueue
    BY DEF CallRecord
  <2>2. /\ call' = [fn EXCEPT ![c] = s]
        /\ syncing' = TRUE /\ resolveQueue' = resolveQueue /\ spawnQueue' = q
    BY <1>1 DEF Arrive
  <2> HIDE DEF s
  <2> QED
    BY <1>1, <2>1, <2>2 DEF Arrives
<1>2. CASE ~r.runs /\ r.opts.strategy = "ResolveOnNext"
  <2> DEFINE s == [Blank EXCEPT !.pc = "onNext", !.kept = r.kept, !.sent = r.sent]
  <2>1. ~s.runs /\ s.pc = "onNext" /\ s.inTime = {}
    BY DEF Blank
  <2>2. /\ call' = [fn EXCEPT ![c] = s]
        /\ syncing' = syncing /\ resolveQueue' = resolveQueue \cup {c} /\ spawnQueue' = q
    BY <1>2 DEF Arrive
  <2> HIDE DEF s
  <2> QED
    BY <1>2, <2>1, <2>2 DEF Arrives
<1>3. CASE ~r.runs /\ r.opts.strategy = "ForceSpawnNew"
  <2> DEFINE s == [Blank EXCEPT !.pc = "toSpawn", !.kept = r.kept,
                                !.opts = [r.opts EXCEPT !.awaitAll = FALSE]]
  <2>1. ~s.runs /\ s.pc = "toSpawn" /\ s.inTime = {}
    BY DEF Blank
  <2>2. /\ call' = [fn EXCEPT ![c] = s]
        /\ syncing' = syncing /\ resolveQueue' = resolveQueue /\ spawnQueue' = Append(q, c)
    BY <1>3 DEF Arrive
  <2> HIDE DEF s
  <2> QED
    BY <1>3, <2>1, <2>2 DEF Arrives
<1> QED
  BY <1>1, <1>2, <1>3 DEF Arrive

\* The entry of sync(), seen from the outside.
LEMMA EntryStep ==
  ASSUME TypeOK, ~locked, NEW c \in Call, NEW o \in Options, NEW kept \in BOOLEAN,
         NEW fn \in [Call -> CallRecord], NEW q \in Seq(Call),
         StartSync(c, o, kept, fn, q)
  PROVE  /\ \A d \in Call : d # c => Alike(call'[d], fn[d])
         /\ syncLock' = (syncLock \/ MayRun)
         /\ error' = error
         /\ \/ /\ dirty /\ call'[c].pc = "persisting" /\ call'[c].runs = MayRun
               /\ call'[c].inTime = {}
               /\ syncing' = syncing /\ writes' = Append(writes, c)
               /\ resolveQueue' = resolveQueue /\ spawnQueue' = q
            \/ /\ MayRun /\ call'[c].runs /\ call'[c].pc = "beginning"
               /\ call'[c].inTime = resolveQueue
               /\ writes' = writes
               /\ resolveQueue' = resolveQueue /\ spawnQueue' = q
            \/ /\ ~MayRun /\ ~call'[c].runs /\ call'[c].pc = "onNext"
               /\ call'[c].inTime = {}
               /\ syncing' = syncing /\ writes' = writes
               /\ resolveQueue' = resolveQueue \cup {c} /\ spawnQueue' = q
            \/ /\ ~MayRun /\ ~call'[c].runs /\ call'[c].pc = "toSpawn"
               /\ call'[c].inTime = {}
               /\ syncing' = syncing /\ writes' = writes
               /\ resolveQueue' = resolveQueue /\ spawnQueue' = Append(q, c)
<1> DEFINE old == [d \in Call |-> [fn[d] EXCEPT !.snap = @ \ {c}]]
           r == [Blank EXCEPT !.opts = o, !.items = dirty, !.runs = MayRun,
                              !.kept = kept, !.sent = ~dirty,
                              !.snap = IF MayRun THEN Unsent(fn) ELSE {}]
<1>1. old \in [Call -> CallRecord] /\ \A d \in Call : Alike(old[d], fn[d])
  <2>1. ASSUME NEW d \in Call
        PROVE  /\ [fn[d] EXCEPT !.snap = @ \ {c}] \in CallRecord
               /\ Alike([fn[d] EXCEPT !.snap = @ \ {c}], fn[d])
    <3>1. fn[d] \in CallRecord
      OBVIOUS
    <3> QED
      BY <3>1 DEF CallRecord, Alike
  <2> QED
    BY <2>1
<1>2. r \in CallRecord
  <2>1. MayRun \in BOOLEAN /\ Unsent(fn) \subseteq Call
    BY DEF MayRun, databaseLoaded, Unsent
  <2> QED
    BY ZenonT(30), <2>1, BlankType DEF CallRecord, TypeOK
<1>3. /\ r.runs = MayRun
      /\ [r EXCEPT !.pc = "persisting"].pc = "persisting"
      /\ [r EXCEPT !.pc = "persisting"].runs = MayRun
      /\ [r EXCEPT !.pc = "persisting"].inTime = {}
  BY DEF Blank
<1>4. /\ syncLock' = (syncLock \/ MayRun)
      /\ error' = error
      /\ \/ /\ dirty
            /\ call' = [old EXCEPT ![c] = [r EXCEPT !.pc = "persisting"]]
            /\ writes' = Append(writes, c)
            /\ spawnQueue' = q
            /\ UNCHANGED <<syncing, resolveQueue>>
         \/ Arrive(c, r, old, q) /\ writes' = writes
  BY DEF StartSync, Captures
<1> HIDE DEF old, r
<1>5. CASE /\ dirty
           /\ call' = [old EXCEPT ![c] = [r EXCEPT !.pc = "persisting"]]
           /\ writes' = Append(writes, c)
           /\ spawnQueue' = q
           /\ UNCHANGED <<syncing, resolveQueue>>
  BY <1>1, <1>3, <1>4, <1>5
<1>6. CASE Arrive(c, r, old, q) /\ writes' = writes
  <2>1. \A d \in Call : d # c => call'[d] = old[d]
    BY <1>1, <1>2, <1>6, ArriveStep
  <2>2. \A d \in Call : d # c => Alike(call'[d], fn[d])
    BY <1>1, <2>1
  <2>3. Arrives(c, r.runs, q)
    BY <1>1, <1>2, <1>6, ArriveStep
  <2> QED
    BY <1>3, <1>4, <1>6, <2>2, <2>3 DEF Arrives
<1> QED
  BY <1>4, <1>5, <1>6

\* A call that neither had a write nor gets one leaves the others' alone.
LEMMA KeepWrites ==
  ASSUME NEW fn \in [Call -> CallRecord], NEW g \in [Call -> CallRecord],
         NEW w \in Seq(Call), NEW dirt, NEW c \in Call,
         WriteInv(fn, w), LateInv(fn, dirt, w),
         fn[c].pc \notin Writing, g[c].pc \notin Writing,
         \A d \in Call : d # c => Alike(g[d], fn[d])
  PROVE  WriteInv(g, w) /\ LateInv(g, dirt, w)
<1>1. \A i \in 1..Len(w) : w[i] \in Call /\ w[i] # c
  BY DEF WriteInv
<1>2. \A d \in Call : /\ g[d].pc \in Writing <=> fn[d].pc \in Writing
                      /\ d \in Late(g) <=> d \in Late(fn)
  BY DEF Alike, Late, Writing
<1>3. WriteInv(g, w)
  BY <1>1, <1>2 DEF WriteInv
<1>4. Late(g) = Late(fn)
  BY <1>2 DEF Late
<1>5. LateInv(g, dirt, w)
  BY <1>1, <1>4 DEF LateInv, Alike
<1> QED
  BY <1>3, <1>5

\* A call that takes its place in a queue, or the in-time callbacks, leaves every waiting
\* call in one place.
LEMMA EnterWaits ==
  ASSUME NEW fn \in [Call -> CallRecord], NEW g \in [Call -> CallRecord],
         NEW rq \in SUBSET Call, NEW sq \in Seq(Call), NEW c \in Call,
         NEW rqn, NEW sqn,
         WaitInv(fn, rq, sq), fn[c].pc \in {"idle", "persisting"},
         \A d \in Call : d # c => Alike(g[d], fn[d]),
         \/ /\ g[c].pc = "persisting" /\ g[c].inTime = {}
            /\ rqn = rq /\ sqn = sq
         \/ /\ g[c].pc = "beginning" /\ g[c].inTime = rq
            /\ \A d \in Call : d # c => fn[d].pc # "beginning"
            /\ rqn = rq /\ sqn = sq
         \/ /\ g[c].pc = "onNext" /\ g[c].inTime = {}
            /\ rqn = rq \cup {c} /\ sqn = sq
         \/ /\ g[c].pc = "toSpawn" /\ g[c].inTime = {}
            /\ rqn = rq /\ sqn = Append(sq, c)
  PROVE  WaitInv(g, rqn, sqn)
<1>1. /\ c \notin rq
      /\ \A d \in Call : c \notin fn[d].inTime
      /\ \A i \in 1..Len(sq) : sq[i] # c /\ sq[i] \in Call
  BY DEF WaitInv
<1>2. \A d \in Call : fn[d].inTime \subseteq Call
  BY DEF CallRecord
<1>3. \A d \in rqn : g[d].pc = "onNext"
  BY <1>1 DEF WaitInv, Alike
<1>4. \A d \in Call : d # c => g[d].inTime = fn[d].inTime /\ g[d].pc = fn[d].pc
  BY DEF Alike
<1>5. g[c].inTime = {} \/ g[c].inTime = rq
  OBVIOUS
<1>6. \A e \in Call : \A d \in g[e].inTime : g[d].pc = "onNext"
  BY <1>1, <1>2, <1>4, <1>5 DEF WaitInv
<1>7. \A e \in Call : e # c => g[e].inTime \cap g[c].inTime = {}
  BY <1>4 DEF WaitInv
<1>8. \A d, e \in Call : d # e => g[d].inTime \cap g[e].inTime = {}
  BY <1>4, <1>7 DEF WaitInv
<1>9. \A d \in Call : g[d].pc # "beginning" => g[d].inTime \cap rqn = {}
  BY <1>1, <1>4 DEF WaitInv
<1>10. CASE sqn = sq
  BY <1>1, <1>3, <1>4, <1>6, <1>8, <1>9, <1>10 DEF WaitInv
<1>11. CASE g[c].pc = "toSpawn" /\ sqn = Append(sq, c)
  <2>1. /\ Len(sqn) = Len(sq) + 1 /\ Len(sq) \in Nat
        /\ \A i \in 1..Len(sq) : sqn[i] = sq[i]
        /\ sqn[Len(sq) + 1] = c
    BY <1>11
  <2>2. \A i \in 1..Len(sqn) : IF i = Len(sq) + 1 THEN sqn[i] = c
                               ELSE /\ i \in 1..Len(sq) /\ sqn[i] = sq[i]
                                    /\ sqn[i] \in Call /\ sqn[i] # c
    BY <1>1, <2>1
  <2>3. \A i \in 1..Len(sqn) : g[sqn[i]].pc = "toSpawn"
    BY <1>4, <1>11, <2>2 DEF WaitInv
  <2>4. \A i, j \in 1..Len(sqn) : sqn[i] = sqn[j] => i = j
    BY <2>2 DEF WaitInv
  <2> QED
    BY <1>3, <1>6, <1>8, <1>9, <2>3, <2>4 DEF WaitInv
<1> QED
  BY <1>10, <1>11

\* A new call of sync(), with the database loaded, runs or finds one that serves.
LEMMA EntryServes ==
  ASSUME TypeOK, LockInv, FlagInv, ~locked,
         NEW c \in Call, NEW o \in Options, NEW kept \in BOOLEAN,
         NEW fn \in [Call -> CallRecord], NEW q \in Seq(Call),
         fn[c].pc = "idle", HeldBy(fn) = HeldBy(call), Ready(fn, resolveQueue, q),
         StartSync(c, o, kept, fn, q), LockInv',
         UNCHANGED dirty, databaseLoaded' = databaseLoaded
  PROVE  /\ Ready(call, resolveQueue, spawnQueue)'
         /\ FlagInv'
         /\ databaseLoaded => HeldBy(call') # {}
         /\ \A d \in Call : d # c => Alike(call'[d], fn[d])
         /\ call'[c].pc \in {"persisting", "beginning", "onNext", "toSpawn"}
         /\ error' = error
<1>1. call' \in [Call -> CallRecord] /\ writes \in Seq(Call) /\ resolveQueue \in SUBSET Call
  BY StartSyncType DEF EntryTypes, TypeOK
<1>2. /\ \A d \in Call : d # c => Alike(call'[d], fn[d])
      /\ error' = error
      /\ syncLock' = (syncLock \/ MayRun)
      /\ \/ MayRun
         \/ ~MayRun /\ syncing' = syncing
      /\ call'[c].pc \in {"persisting", "beginning", "onNext", "toSpawn"}
      /\ MayRun => call'[c].runs /\ call'[c].pc \in {"persisting", "beginning"}
      /\ ~MayRun => ~call'[c].runs
  BY EntryStep DEF TypeOK
<1>3. \A d \in Call : d \in HeldBy(call') <=> d \in HeldBy(call) \/ (d = c /\ MayRun)
  BY <1>2 DEF HeldBy, Alike
<1>4. MayRun => HeldBy(call) = {} /\ databaseLoaded
  BY DEF MayRun, LockInv
<1>5. databaseLoaded => HeldBy(call') # {}
  BY <1>3 DEF MayRun, FlagInv, HeldBy
<1>6. FlagInv'
  BY <1>2, <1>3, <1>4, <1>5 DEF FlagInv, TypeOK, HeldBy
<1>7. LoadInv(call)'
  <2>1. \A d \in Call : /\ d \in HeldBy(call') => databaseLoaded
                        /\ call'[d].pc \in AfterRun => databaseLoaded
    BY <1>2, <1>3, <1>4 DEF Ready, LoadInv, Alike, AfterRun
  <2> QED
    BY <2>1 DEF LoadInv
<1>8. WaitInv(call, resolveQueue, spawnQueue)'
  <2>1. MayRun => \A d \in Call : fn[d].pc # "beginning"
    BY <1>4 DEF Ready, PassedChecks, HeldBy
  <2>2. \/ /\ call'[c].pc = "persisting" /\ call'[c].inTime = {}
           /\ resolveQueue' = resolveQueue /\ spawnQueue' = q
        \/ /\ call'[c].pc = "beginning" /\ call'[c].inTime = resolveQueue
           /\ \A d \in Call : d # c => fn[d].pc # "beginning"
           /\ resolveQueue' = resolveQueue /\ spawnQueue' = q
        \/ /\ call'[c].pc = "onNext" /\ call'[c].inTime = {}
           /\ resolveQueue' = resolveQueue \cup {c} /\ spawnQueue' = q
        \/ /\ call'[c].pc = "toSpawn" /\ call'[c].inTime = {}
           /\ resolveQueue' = resolveQueue /\ spawnQueue' = Append(q, c)
    BY <2>1, EntryStep
  <2>3. WaitInv(fn, resolveQueue, q)
    BY DEF Ready
  <2>4. WaitInv(call', resolveQueue', spawnQueue')
    BY <1>1, <1>2, <2>2, <2>3, EnterWaits
  <2> QED
    BY <2>4 DEF WaitInv
<1>9. WriteInv(call', writes') /\ LateInv(call', dirty, writes')
  <2>1. CASE dirty /\ call'[c].pc = "persisting" /\ writes' = Append(writes, c)
    BY <1>1, <1>2, <2>1, AppendWrites DEF Ready, LateInv, Writing
  <2>2. CASE call'[c].pc # "persisting" /\ writes' = writes
    BY <1>1, <1>2, <2>2, KeepWrites DEF Ready, Writing
  <2> QED
    BY <2>1, <2>2, EntryStep
<1>10. WriteInv(call, writes)' /\ LateInv(call, dirty, writes)'
  BY <1>9 DEF WriteInv, LateInv, Late
<1> QED
  BY <1>2, <1>5, <1>6, <1>7, <1>8, <1>10 DEF Ready, LockInv

\* A call of sync() with the database loaded keeps the invariant.
LEMMA StartServes ==
  ASSUME TypeOK, LockInv, ServeInv, LockInv',
         NEW c \in Call, NEW o \in Options, NEW kept \in BOOLEAN,
         NEW fn \in [Call -> CallRecord], NEW q \in Seq(Call),
         fn[c].pc = "idle", HeldBy(fn) = HeldBy(call), Ready(fn, resolveQueue, q),
         StartSync(c, o, kept, fn, q), databaseLoaded, databaseLoaded',
         UNCHANGED <<locked, dirty, firstSync>>
  PROVE  ServeInv'
<1>1. /\ Ready(call, resolveQueue, spawnQueue)'
      /\ FlagInv'
      /\ HeldBy(call') # {}
  BY EntryServes DEF ServeInv
<1>2. ServedBy(call)' # {}
  BY <1>1 DEF ServedBy, HeldBy
<1> QED
  BY <1>1, <1>2 DEF ServeInv

LEMMA StartAwaitedServes ==
  ASSUME TypeOK, LockInv, ServeInv, LockInv', NEW c \in Call, NEW o \in Options,
         NEW pc \in {"observing", "awaiting"}, StartAwaited(c, o, pc),
         call[c].pc \in {"completed", "popped"}
  PROVE  ServeInv'
<1> DEFINE moved == [call[c] EXCEPT !.pc = pc, !.sub = Fresh]
           fn == [call EXCEPT ![c] = moved]
<1>1. Fresh \in Call /\ call[Fresh].pc = "idle" /\ Fresh # c
  BY FreshIsFree DEF StartAwaited, Free, At
<1>2. call \in [Call -> CallRecord] /\ call[c] \in CallRecord
      /\ writes \in Seq(Call) /\ spawnQueue \in Seq(Call) /\ resolveQueue \in SUBSET Call
  BY DEF TypeOK
<1>3. /\ moved \in CallRecord /\ moved.pc = pc
      /\ moved.inTime = call[c].inTime
  BY <1>1, <1>2 DEF CallRecord, PC
<1>4. /\ StartSync(Fresh, o, TRUE, fn, spawnQueue)
      /\ UNCHANGED <<service, dirty, firstSync, differs>>
  BY DEF StartAwaited
<1> HIDE DEF moved
<1>5. fn \in [Call -> CallRecord] /\ fn[Fresh].pc = "idle"
  BY <1>1, <1>2, <1>3
<1>6. databaseLoaded
  BY DEF ServeInv, Ready, LoadInv, AfterRun
<1>7. \A d \in Call : \/ Alike(fn[d], call[d])
                      \/ /\ call[d].pc \in Off /\ fn[d].pc \in Off
                         /\ fn[d].inTime \subseteq call[d].inTime
                         /\ fn[d].pc \in AfterRun => databaseLoaded
  BY <1>2, <1>3, <1>6 DEF Alike, Off
<1> HIDE DEF fn
<1>8. Ready(fn, resolveQueue, spawnQueue) /\ HeldBy(fn) = HeldBy(call)
  BY <1>2, <1>5, <1>7, OffReady DEF ServeInv
<1>9. databaseLoaded' /\ UNCHANGED <<locked, dirty, firstSync>>
  BY <1>4, <1>6 DEF service, databaseLoaded
<1> QED
  BY <1>1, <1>2, <1>4, <1>5, <1>6, <1>8, <1>9, StartServes

LEMMA StartMaybeAwaitedServes ==
  ASSUME TypeOK, LockInv, ServeInv, LockInv', NEW c \in Call, NEW o \in Options,
         StartMaybeAwaited(c, o), call[c].pc \in {"completed", "popped"}
  PROVE  ServeInv'
<1>1. CASE StartAwaited(c, o, "awaiting")
  BY <1>1, StartAwaitedServes
<1>2. CASE /\ Free # {}
           /\ StartSync(Fresh, o, FALSE, Finish(call, c), spawnQueue)
           /\ UNCHANGED <<service, dirty, firstSync, differs>>
  <2>1. Fresh \in Call /\ call[Fresh].pc = "idle" /\ Fresh # c
    BY <1>2, FreshIsFree DEF Free, At
  <2>2. call \in [Call -> CallRecord]
        /\ writes \in Seq(Call) /\ spawnQueue \in Seq(Call) /\ resolveQueue \in SUBSET Call
    BY DEF TypeOK
  <2>3. call[c].pc \in Off /\ Ready(call, resolveQueue, spawnQueue)
    BY DEF Off, ServeInv
  <2>4. /\ Finish(call, c) \in [Call -> CallRecord]
        /\ Ready(Finish(call, c), resolveQueue, spawnQueue)
        /\ HeldBy(Finish(call, c)) = HeldBy(call)
        /\ Finish(call, c)[Fresh].pc = "idle"
    BY <2>1, <2>2, <2>3, FinishReady DEF Alike
  <2>5. databaseLoaded
    BY DEF ServeInv, Ready, LoadInv, AfterRun
  <2>6. databaseLoaded' /\ UNCHANGED <<locked, dirty, firstSync>>
    BY <1>2, <2>5 DEF service, databaseLoaded
  <2> QED
    BY <1>2, <2>1, <2>2, <2>4, <2>5, <2>6, StartServes
<1> QED
  BY <1>1, <1>2 DEF StartMaybeAwaited

\* The head of the spawn queue follows the call made for it, and waits no more.
LEMMA PopReady ==
  ASSUME NEW fn \in [Call -> CallRecord], NEW g \in [Call -> CallRecord],
         NEW rq \in SUBSET Call, NEW sq \in Seq(Call), writes \in Seq(Call),
         sq # <<>>, Ready(fn, rq, sq), g[Head(sq)].pc = "spawned",
         g[Head(sq)].inTime = fn[Head(sq)].inTime,
         \A d \in Call : d # Head(sq) => Alike(g[d], fn[d])
  PROVE  Ready(g, rq, Tail(sq)) /\ HeldBy(g) = HeldBy(fn)
<1> DEFINE h == Head(sq)
           v == Tail(sq)
<1>1. /\ v \in Seq(Call) /\ h \in Call /\ h = sq[1]
      /\ \A i \in 1..Len(v) : i + 1 \in 1..Len(sq) /\ v[i] = sq[i + 1] /\ i + 1 # 1
      /\ \A i, j \in 1..Len(v) : i + 1 = j + 1 => i = j
      /\ 1 \in 1..Len(sq)
  OBVIOUS
<1>2. fn[h].pc = "toSpawn" /\ WaitInv(fn, rq, sq)
  BY <1>1 DEF Ready, WaitInv
<1> HIDE DEF h, v
<1>3. g[h].pc = "spawned" /\ g[h].inTime = fn[h].inTime
      /\ \A d \in Call : d # h => g[d].pc = fn[d].pc /\ g[d].inTime = fn[d].inTime
                                  /\ g[d].runs = fn[d].runs
  BY DEF h, Alike
<1>4. \A i \in 1..Len(v) : v[i] \in Call /\ v[i] # h
  BY <1>1, <1>2 DEF WaitInv
<1>5. \A d \in Call : fn[d].inTime \subseteq Call
  BY DEF CallRecord
<1>6. WaitInv(g, rq, v)
  <2>1. \A d \in rq : g[d].pc = "onNext"
    BY <1>2, <1>3 DEF WaitInv
  <2>2. \A e \in Call : \A d \in g[e].inTime : g[d].pc = "onNext"
    BY <1>2, <1>3, <1>5 DEF WaitInv
  <2>3. \A d, e \in Call : d # e => g[d].inTime \cap g[e].inTime = {}
    BY <1>2, <1>3 DEF WaitInv
  <2>4. \A d \in Call : g[d].pc # "beginning" => g[d].inTime \cap rq = {}
    BY <1>2, <1>3 DEF WaitInv
  <2>5. \A i \in 1..Len(v) : g[v[i]].pc = "toSpawn"
    BY <1>1, <1>2, <1>3, <1>4 DEF WaitInv
  <2>6. \A i, j \in 1..Len(v) : v[i] = v[j] => i = j
    BY <1>1, <1>2 DEF WaitInv
  <2> QED
    BY <2>1, <2>2, <2>3, <2>4, <2>5, <2>6 DEF WaitInv
<1>7. WriteInv(g, writes) /\ LateInv(g, dirty, writes)
  <2>1. \A d \in Call : d # h => Alike(g[d], fn[d])
    BY DEF h
  <2> QED
    BY <1>1, <1>2, <1>3, <2>1, KeepWrites DEF Ready, Writing
<1>8. HeldBy(g) = HeldBy(fn)
  BY <1>1, <1>2, <1>3 DEF HeldBy
<1>9. LoadInv(g) /\ PassedChecks(g)
  BY <1>2, <1>3, <1>8 DEF Ready, LoadInv, PassedChecks, AfterRun
<1> QED
  BY <1>6, <1>7, <1>8, <1>9 DEF Ready, v

\* The steps of a completed call, and of one that is woken, leave nobody unserved.
LEMMA CompletionStepServes ==
  ASSUME TypeOK, LockInv, ServeInv, LockInv', NEW c \in Call,
         ObserverSync(c) \/ AfterDownloadFirst(c) \/ PopSpawnQueue(c)
           \/ SyncFromResolveQueue(c) \/ SyncMoreDirtyItems(c)
           \/ SyncFromIntegrityCheck(c) \/ EndSync(c) \/ Resume(c)
  PROVE  ServeInv'
<1>0. /\ call \in [Call -> CallRecord] /\ call[c] \in CallRecord
      /\ writes \in Seq(Call) /\ spawnQueue \in Seq(Call) /\ resolveQueue \in SUBSET Call
      /\ NoOptions \in Options /\ call[c].opts \in Options
      /\ Ready(call, resolveQueue, spawnQueue)
  BY BlankType DEF TypeOK, CallRecord, ServeInv
<1>1. CASE ObserverSync(c) \/ AfterDownloadFirst(c) \/ SyncMoreDirtyItems(c)
  <2>1. PICK o, pc : /\ o \in Options
                    /\ pc \in {"observing", "awaiting"}
                    /\ StartAwaited(c, o, pc)
    <3>1. /\ [NoOptions EXCEPT !.integrity = TRUE, !.awaitAll = call[c].opts.awaitAll]
               \in Options
          /\ [NoOptions EXCEPT !.integrity = call[c].opts.integrity,
                               !.awaitAll = call[c].opts.awaitAll] \in Options
      BY <1>0 DEF Options
    <3> QED
      BY <1>0, <1>1, <3>1 DEF ObserverSync, AfterDownloadFirst, SyncMoreDirtyItems
  <2>2. call[c].pc \in {"completed", "popped"}
    BY <1>1 DEF ObserverSync, AfterDownloadFirst, SyncMoreDirtyItems, QueuesHandled
  <2> QED
    BY <2>1, <2>2, StartAwaitedServes
<1>2. CASE SyncFromResolveQueue(c) \/ SyncFromIntegrityCheck(c)
  <2>1. PICK o \in Options : StartMaybeAwaited(c, o)
    <3>1. /\ [NoOptions EXCEPT !.integrity = call[c].opts.integrity] \in Options
          /\ [call[c].opts EXCEPT !.strategy = "ForceSpawnNew", !.mode = "Default"]
               \in Options
      BY <1>0 DEF Options, Strategy, Mode
    <3> QED
      BY <1>2, <3>1 DEF SyncFromResolveQueue, SyncFromIntegrityCheck
  <2>2. call[c].pc \in {"completed", "popped"}
    BY <1>2 DEF SyncFromResolveQueue, SyncFromIntegrityCheck, QueuesHandled
  <2> QED
    BY <2>1, <2>2, StartMaybeAwaitedServes
<1>3. CASE PopSpawnQueue(c)
  <2> DEFINE head == Head(spawnQueue)
             base == [call EXCEPT ![c].pc = "popped"]
             spawned == [base[head] EXCEPT !.pc = "spawned", !.sub = Fresh]
             popped == [call EXCEPT ![c].pc = "popped",
                                    ![head] = [@ EXCEPT !.pc = "spawned", !.sub = Fresh]]
  <2>1. /\ spawnQueue # <<>> /\ head \in Call /\ Tail(spawnQueue) \in Seq(Call)
        /\ call[c].pc = "completed" /\ head = spawnQueue[1] /\ 1 \in 1..Len(spawnQueue)
    BY <1>0, <1>3 DEF PopSpawnQueue
  <2>2. Fresh \in Call /\ call[Fresh].pc = "idle" /\ Fresh # c
    BY <1>3, <2>1, FreshIsFree DEF PopSpawnQueue, Free, At
  <2>3. call[head].pc = "toSpawn"
    BY <1>0, <2>1 DEF Ready, WaitInv
  <2>4. /\ [call[c] EXCEPT !.pc = "popped"] \in CallRecord
        /\ [call[c] EXCEPT !.pc = "popped"].pc = "popped"
        /\ [call[c] EXCEPT !.pc = "popped"].inTime = call[c].inTime
    BY <1>0 DEF CallRecord, PC
  <2>5. popped = [base EXCEPT ![head] = spawned]
    OBVIOUS
  <2>6. /\ StartSync(Fresh, call[head].opts, TRUE, popped, Tail(spawnQueue))
        /\ call[head].opts \in Options
        /\ UNCHANGED <<service, dirty, firstSync>>
    BY <1>0, <1>3, <2>1 DEF PopSpawnQueue, CallRecord
  <2>7. databaseLoaded
    BY <1>0, <2>1 DEF Ready, LoadInv, AfterRun
  <2>8. base \in [Call -> CallRecord]
        /\ \A d \in Call : \/ Alike(base[d], call[d])
                           \/ /\ call[d].pc \in Off /\ base[d].pc \in Off
                              /\ base[d].inTime \subseteq call[d].inTime
                              /\ base[d].pc \in AfterRun => databaseLoaded
    BY <1>0, <2>1, <2>4, <2>7 DEF Alike, Off
  <2> HIDE DEF base, popped
  <2>9. Ready(base, resolveQueue, spawnQueue) /\ HeldBy(base) = HeldBy(call)
    BY <1>0, <2>8, OffReady
  <2>10. /\ spawned \in CallRecord /\ spawned.pc = "spawned"
         /\ spawned.inTime = base[head].inTime
    <3>1. base[head] \in CallRecord
      BY <2>1, <2>8
    <3> QED
      BY <2>2, <3>1 DEF CallRecord, PC
  <2> HIDE DEF spawned
  <2>11. /\ popped \in [Call -> CallRecord] /\ popped[head].pc = "spawned"
         /\ popped[head].inTime = base[head].inTime
         /\ \A d \in Call : d # head => popped[d] = base[d]
    BY <2>1, <2>5, <2>8, <2>10
  <2>12. Ready(popped, resolveQueue, Tail(spawnQueue)) /\ HeldBy(popped) = HeldBy(call)
    BY <1>0, <2>1, <2>8, <2>9, <2>11, PopReady DEF Alike
  <2>13. popped[Fresh].pc = "idle"
    <3>1. base[Fresh].pc = "idle"
      BY <1>0, <2>2 DEF base
    <3> QED
      BY <2>2, <2>3, <2>11, <3>1
  <2>14. databaseLoaded' /\ UNCHANGED <<locked, dirty, firstSync>>
    BY <2>6, <2>7 DEF service, databaseLoaded
  <2> QED
    BY <2>1, <2>2, <2>6, <2>7, <2>11, <2>12, <2>13, <2>14, StartServes
<1>4. CASE EndSync(c)
  <2>1. /\ call' = Finish(call, c) /\ QueuesHandled(c) /\ ~dirty
        /\ UNCHANGED <<locks, service, dirty, queues, writes, firstSync>>
    BY <1>4 DEF EndSync
  <2>2. call[c].pc \in {"completed", "popped"} /\ call[c].pc \in Off
    BY <2>1 DEF QueuesHandled, Off
  <2>3. /\ Ready(call', resolveQueue, spawnQueue)
        /\ HeldBy(call') = HeldBy(call) /\ Late(call') = Late(call)
        /\ \A d \in Call : d # c /\ call[d].pc # "onNext" => Alike(call'[d], call[d])
        /\ call'[c].pc \in {"idle", "resolved"}
    BY <1>0, <2>1, <2>2, FinishReady
  <2>4. Ready(call, resolveQueue, spawnQueue)' /\ FlagInv'
    BY <2>1, <2>3 DEF Ready, WaitInv, WriteInv, LateInv, LoadInv, Late, HeldBy, PassedChecks,
       ServeInv, FlagInv, queues, locks, service, databaseLoaded
  <2>8. At("popped")' # {} => HeldBy(call') # {}
    <3>1. \A d \in Call : call'[d].pc = "popped" => call[d].pc = "popped"
      BY <1>0, <2>1, <2>2, FinishReady
    <3> QED
      BY <2>3, <3>1 DEF At, ServeInv
  <2>5. HeldBy(call') # {} => ServedBy(call)' # {}
    BY DEF ServedBy, HeldBy
  <2>6. CASE call[c].pc = "popped"
    <3>1. HeldBy(call') # {}
      BY <2>3, <2>6 DEF ServeInv, At
    <3> QED
      BY <2>1, <2>4, <2>8, <2>5, <3>1 DEF ServeInv, service
  <2>7. CASE call[c].pc = "completed"
    <3>1. spawnQueue' = <<>> /\ resolveQueue' = {}
      BY <2>1, <2>7 DEF QueuesHandled, queues
    <3>2. Late(call') # {} => HeldBy(call') # {}
      <4> HAVE Late(call') # {}
      <4>1. PICK j \in 1..Len(writes) : call[writes[j]].pc = "saving"
        BY <1>0, <2>1, <2>3 DEF Ready, LateInv
      <4>2. writes[j] \in Call
        BY <1>0
      <4> QED
        BY <1>0, <2>3, <4>1, <4>2 DEF Ready, PassedChecks, HeldBy
    <3>3. Late(call)' # {} => ServedBy(call)' # {}
      BY <2>5, <3>2 DEF Late
    <3> QED
      BY <2>1, <2>4, <2>8, <3>1, <3>3 DEF ServeInv, service
  <2> QED
    BY <2>2, <2>6, <2>7
<1>5. CASE Resume(c)
  <2> DEFINE sub == call[c].sub
             base == [call EXCEPT ![sub] = Blank]
             woken == [call[c] EXCEPT !.sub = None, !.ran = @ \/ call[sub].ran]
             fn == [call EXCEPT ![sub] = Blank, ![c] = woken]
  <2>1. /\ sub \in Call /\ call[sub].pc \in {"resolved", "rejected"}
        /\ call[c].pc \in {"observing", "awaiting", "spawned"} /\ sub # c
    BY <1>5 DEF Resume, Settled, At
  <2>2. call[sub].ran \in BOOLEAN
    BY <1>0, <2>1 DEF CallRecord
  <2>3. /\ woken \in CallRecord /\ woken.pc = call[c].pc
        /\ woken.inTime = call[c].inTime /\ woken.runs = call[c].runs
    BY <1>0, <2>2 DEF CallRecord
  <2>4. Blank.pc = "idle" /\ Blank.inTime = {}
    BY DEF Blank
  <2>5. base \in [Call -> CallRecord]
    BY <1>0, <2>1, BlankType
  <2>6. fn = [base EXCEPT ![c] = woken]
    OBVIOUS
  <2>7. /\ \/ call' = Settle(fn, {c}, "rejected")
           \/ call[c].pc = "observing" /\ call' = [fn EXCEPT ![c].pc = "completed"]
           \/ call' = Finish(fn, c)
        /\ UNCHANGED <<locks, service, dirty, queues, writes, firstSync>>
    BY <1>5 DEF Resume
  <2>8. \A d \in Call : fn[d] = IF d = c THEN woken ELSE IF d = sub THEN Blank ELSE call[d]
    BY <1>0
  <2> HIDE DEF base, woken, fn, sub
  <2>9. fn \in [Call -> CallRecord]
    BY <2>3, <2>5, <2>6
  <2>10. Ready(fn, resolveQueue, spawnQueue) /\ HeldBy(fn) = HeldBy(call)
         /\ Late(fn) = Late(call)
    <3>1. \A d \in Call : \/ Alike(fn[d], call[d])
                          \/ /\ call[d].pc \in Off /\ fn[d].pc \in Off
                             /\ fn[d].inTime \subseteq call[d].inTime
                             /\ fn[d].pc \in AfterRun => databaseLoaded
      <4>1. \A d \in Call : d # c /\ d # sub => Alike(fn[d], call[d])
        BY <2>8 DEF Alike
      <4>2. call[c].pc = "observing" => databaseLoaded
        BY <1>0 DEF Ready, LoadInv, AfterRun
      <4>3. /\ call[c].pc \in Off /\ fn[c].pc \in Off
            /\ fn[c].inTime \subseteq call[c].inTime
            /\ fn[c].pc \in AfterRun => databaseLoaded
        BY <2>1, <2>3, <2>8, <4>2 DEF Off, AfterRun
      <4>4. /\ call[sub].pc \in Off /\ fn[sub].pc \in Off
            /\ fn[sub].inTime \subseteq call[sub].inTime
            /\ fn[sub].pc \notin AfterRun
        BY <2>1, <2>4, <2>8 DEF Off, AfterRun
      <4> QED
        BY <4>1, <4>3, <4>4
    <3> QED
      BY <1>0, <2>9, <3>1, OffReady
  <2>11. fn[c] \in CallRecord /\ fn[c].pc = call[c].pc /\ fn[c].pc \in Off
    BY <2>1, <2>3, <2>8, <2>9 DEF Off
  <2>12. /\ Ready(call', resolveQueue, spawnQueue)
         /\ HeldBy(call') = HeldBy(fn) /\ Late(call') = Late(fn)
         /\ \A d \in Call : d # c /\ fn[d].pc = "completed" => call'[d].pc = "completed"
         /\ \A d \in Call : call'[d].pc = "popped" => fn[d].pc = "popped"
    <3>1. CASE call' = Finish(fn, c)
      <4>1. /\ Ready(Finish(fn, c), resolveQueue, spawnQueue)
            /\ HeldBy(Finish(fn, c)) = HeldBy(fn) /\ Late(Finish(fn, c)) = Late(fn)
            /\ \A d \in Call : d # c /\ fn[d].pc # "onNext"
                               => Alike(Finish(fn, c)[d], fn[d])
            /\ \A d \in Call : Finish(fn, c)[d].pc = "popped" => fn[d].pc = "popped"
        BY <1>0, <2>9, <2>10, <2>11, FinishReady
      <4> QED
        BY <3>1, <4>1 DEF Alike
    <3>2. CASE call' # Finish(fn, c)
      <4>1. PICK r \in CallRecord : /\ call' = [fn EXCEPT ![c] = r]
                                    /\ r.pc \in {"idle", "rejected", "completed"}
                                    /\ r.pc = "completed" => fn[c].pc = "observing"
                                    /\ r.inTime \subseteq fn[c].inTime
        <5>1. CASE call' = Settle(fn, {c}, "rejected")
          <6> DEFINE r == call'[c]
          <6>1. call' \in [Call -> CallRecord]
            BY <2>9, <5>1, SettleType DEF PC
          <6>2. r \in CallRecord
            BY <6>1
          <6>3. call'[c].pc \in {"idle", "rejected"} /\ call'[c].inTime = {}
            BY <5>1, SettleStep
          <6>4. r.pc \in {"idle", "rejected"} /\ r.inTime = {}
            BY <6>3
          <6>5. \A d \in Call : d # c => call'[d] = fn[d]
            BY <5>1, SettleStep
          <6> HIDE DEF r
          <6>6. call' = [fn EXCEPT ![c] = r]
            BY <2>9, <6>1, <6>5 DEF r
          <6> QED
            BY <6>2, <6>4, <6>6
        <5>2. CASE call[c].pc = "observing" /\ call' = [fn EXCEPT ![c].pc = "completed"]
          <6> DEFINE r == [fn[c] EXCEPT !.pc = "completed"]
          <6>1. r \in CallRecord /\ r.pc = "completed" /\ r.inTime = fn[c].inTime
            BY <2>11 DEF CallRecord, PC
          <6>2. call' = [fn EXCEPT ![c] = r]
            BY <5>2
          <6> HIDE DEF r
          <6> QED
            BY <2>11, <5>2, <6>1, <6>2
        <5> QED
          BY <2>7, <3>2, <5>1, <5>2
      <4>2. fn[c].pc = "observing" => databaseLoaded
        BY <2>10 DEF Ready, LoadInv, AfterRun
      <4>3. call' \in [Call -> CallRecord]
        BY <2>9, <4>1
      <4>4. \A d \in Call : \/ Alike(call'[d], fn[d])
                            \/ /\ fn[d].pc \in Off /\ call'[d].pc \in Off
                               /\ call'[d].inTime \subseteq fn[d].inTime
                               /\ call'[d].pc \in AfterRun => databaseLoaded
        BY <2>9, <2>11, <4>1, <4>2 DEF Alike, Off, AfterRun
      <4>5. /\ \A d \in Call : d # c => call'[d] = fn[d]
            /\ call'[c].pc # "popped"
        BY <2>9, <4>1
      <4> QED
        BY <1>0, <2>9, <2>10, <4>3, <4>4, <4>5, OffReady
    <3> QED
      BY <3>1, <3>2
  <2>13. Ready(call, resolveQueue, spawnQueue)' /\ FlagInv'
    BY <2>7, <2>10, <2>12 DEF Ready, WaitInv, WriteInv, LateInv, LoadInv, Late, HeldBy,
       PassedChecks, ServeInv, FlagInv, queues, locks, service, databaseLoaded
  <2>14. \A d \in Call : call[d].pc = "completed" => call'[d].pc = "completed"
    <3>1. \A d \in Call : call[d].pc = "completed" => d # c /\ fn[d] = call[d]
      BY <2>1, <2>8
    <3> QED
      BY <2>12, <3>1
  <2>15. ServedBy(call) # {} => ServedBy(call)' # {}
    <3>1. ServedBy(call) \subseteq ServedBy(call')
      BY <2>10, <2>12, <2>14 DEF ServedBy
    <3> QED
      BY <3>1 DEF ServedBy, HeldBy
  <2>16. At("popped")' # {} => HeldBy(call)' # {}
    <3>1. \A d \in Call : fn[d].pc = "popped" => call[d].pc = "popped"
      BY <2>1, <2>3, <2>4, <2>8
    <3>2. \A d \in Call : call'[d].pc = "popped" => call[d].pc = "popped"
      BY <2>12, <3>1
    <3>3. HeldBy(call)' = HeldBy(call)
      BY <2>10, <2>12 DEF HeldBy
    <3> QED
      BY <3>2, <3>3 DEF At, ServeInv
  <2>17. Late(call)' = Late(call)
    BY <2>10, <2>12 DEF Late
  <2> QED
    BY <2>7, <2>13, <2>15, <2>16, <2>17 DEF ServeInv, queues, locks, service
<1> QED
  BY <1>1, <1>2, <1>3, <1>4, <1>5

\* A call that does not wait, and gives up nothing that others wait for.
LEMMA MoveWaits ==
  ASSUME NEW fn \in [Call -> CallRecord], NEW g \in [Call -> CallRecord],
         NEW rq \in SUBSET Call, NEW sq \in Seq(Call), NEW c \in Call, WaitInv(fn, rq, sq),
         fn[c].pc \notin {"onNext", "toSpawn", "beginning"},
         g[c].inTime \subseteq fn[c].inTime,
         \A d \in Call : d # c => Alike(g[d], fn[d])
  PROVE  WaitInv(g, rq, sq)
<1>1. /\ \A d \in Call : fn[d].inTime \subseteq Call /\ g[d].inTime \subseteq fn[d].inTime
      /\ \A d \in Call : d # c => g[d].pc = fn[d].pc
  BY DEF CallRecord, Alike
<1>2. /\ \A d \in rq : d # c
      /\ \A d \in Call : c \notin fn[d].inTime
      /\ \A i \in 1..Len(sq) : sq[i] # c /\ sq[i] \in Call
  BY DEF WaitInv
<1>3. \A d \in rq : g[d].pc = "onNext"
  BY <1>1, <1>2 DEF WaitInv
<1>4. \A e \in Call : \A d \in g[e].inTime : g[d].pc = "onNext"
  BY <1>1, <1>2 DEF WaitInv
<1>5. \A d, e \in Call : d # e => g[d].inTime \cap g[e].inTime = {}
  BY <1>1 DEF WaitInv
<1>6. \A d \in Call : g[d].pc # "beginning" => g[d].inTime \cap rq = {}
  BY <1>1 DEF WaitInv
<1>7. \A i \in 1..Len(sq) : g[sq[i]].pc = "toSpawn"
  BY <1>1, <1>2 DEF WaitInv
<1> QED
  BY <1>3, <1>4, <1>5, <1>6, <1>7 DEF WaitInv

\* A write of a call that processes a response comes behind those of late calls.
LEMMA AppendLate ==
  ASSUME NEW fn \in [Call -> CallRecord], NEW g \in [Call -> CallRecord],
         NEW w \in Seq(Call), NEW c \in Call, NEW dirt, LateInv(fn, dirt, w),
         fn[c].pc = "sent", g[c].pc # "persisting",
         \A d \in Call : d # c => Alike(g[d], fn[d])
  PROVE  LateInv(g, dirt, Append(w, c))
<1>1. CASE dirt
  BY <1>1 DEF LateInv
<1>2. CASE ~dirt
  <2>1. SUFFICES ASSUME NEW d \in Late(g)
                 PROVE  \E i, j \in 1..Len(Append(w, c)) :
                          /\ i < j /\ Append(w, c)[i] = d
                          /\ g[Append(w, c)[j]].pc = "saving"
    BY DEF LateInv
  <2>2. d \in Late(fn)
    BY DEF Late, Alike
  <2>3. PICK i, j \in 1..Len(w) : i < j /\ w[i] = d /\ fn[w[j]].pc = "saving"
    BY <1>2, <2>2 DEF LateInv
  <2>4. /\ i \in 1..Len(Append(w, c)) /\ j \in 1..Len(Append(w, c))
        /\ Append(w, c)[i] = d /\ Append(w, c)[j] = w[j] /\ w[j] \in Call
    BY <2>3
  <2>5. g[w[j]].pc = "saving"
    BY <2>3, <2>4 DEF Alike
  <2> QED
    BY <2>3, <2>4, <2>5
<1> QED
  BY <1>1, <1>2

\* A step of the call that has the lock.
LEMMA HeldServes ==
  ASSUME ServeInv, LockInv', NEW c \in HeldBy(call), c \in ServedBy(call') \/ error' = TRUE,
         \A d \in Call : d # c => Alike(call'[d], call[d]),
         At("popped") = {}, call'[c].pc # "popped",
         c \in HeldBy(call') \/ ~(syncLock' \/ syncing'),
         WaitInv(call', resolveQueue', spawnQueue'), WriteInv(call', writes'),
         LateInv(call', dirty', writes'), UNCHANGED <<locked, launch, firstSync>>
  PROVE  ServeInv'
<1>1. databaseLoaded /\ databaseLoaded'
  BY DEF ServeInv, Ready, LoadInv, databaseLoaded, HeldBy
<1>2. LoadInv(call)'
  BY <1>1 DEF LoadInv
<1>3. WaitInv(call, resolveQueue, spawnQueue)' /\ WriteInv(call, writes)'
      /\ LateInv(call, dirty, writes)'
  BY DEF WaitInv, WriteInv, LateInv, Late
<1>4. Ready(call, resolveQueue, spawnQueue)'
  BY <1>2, <1>3 DEF Ready, LockInv
<1>5. FlagInv'
  BY DEF FlagInv, HeldBy
<1>6. At("popped")' = {}
  BY DEF At, Alike, HeldBy
<1>7. error' = TRUE \/ ServedBy(call)' # {}
  BY DEF ServedBy, HeldBy
<1> QED
  BY <1>4, <1>5, <1>6, <1>7 DEF ServeInv

\* The operation of call c is over, with or without a write before.
LEMMA EndOperationServes ==
  ASSUME TypeOK, LockInv, ServeInv, LockInv', call' \in [Call -> CallRecord],
         NEW c \in Call, NEW failed \in BOOLEAN, EndOperation(c, failed),
         call[c].pc \in {"sent", "saving"}, At("popped") = {},
         \/ call[c].pc = "sent" /\ writes' = writes
         \/ writes # <<>> /\ writes[1] = c /\ writes' = Tail(writes),
         UNCHANGED <<queues, dirty, firstSync>>
  PROVE  ServeInv'
<1>1. /\ call \in [Call -> CallRecord] /\ call[c] \in CallRecord
      /\ writes \in Seq(Call) /\ resolveQueue \in SUBSET Call /\ spawnQueue \in Seq(Call)
      /\ Ready(call, resolveQueue, spawnQueue)
  BY DEF TypeOK, ServeInv
<1>2. c \in HeldBy(call)
  BY DEF LockInv, PassedChecks, HeldBy
<1>3. /\ \A d \in Call : d # c => Alike(call'[d], call[d])
      /\ call'[c].pc \in {"idle", "resolved", "completed"}
      /\ call'[c].inTime \subseteq call[c].inTime
      /\ ~failed => call'[c].pc = "completed"
  <2>1. CASE failed
    <3>1. call' = Settle(call, {c}, "resolved")
      BY <2>1 DEF EndOperation
    <3>2. /\ \A d \in Call : d # c => call'[d] = call[d]
          /\ call'[c].pc \in {"idle", "resolved"} /\ call'[c].inTime = {}
      BY <3>1, SettleStep
    <3> QED
      BY <2>1, <3>2 DEF Alike
  <2>2. CASE ~failed
    <3> DEFINE r == [call[c] EXCEPT !.pc = "completed", !.items = FALSE]
    <3>1. r.pc = "completed" /\ r.inTime = call[c].inTime
      BY <1>1 DEF CallRecord
    <3>2. call' = [call EXCEPT ![c] = r]
      BY <2>2 DEF EndOperation
    <3> HIDE DEF r
    <3> QED
      BY <1>1, <2>2, <3>1, <3>2 DEF Alike
  <2> QED
    BY <2>1, <2>2
<1>4. /\ ~(syncLock' \/ syncing') /\ error' = failed
      /\ UNCHANGED <<locked, launch, firstSync>>
      /\ resolveQueue' = resolveQueue /\ spawnQueue' = spawnQueue /\ dirty' = dirty
  BY DEF EndOperation, queues
<1>5. WaitInv(call', resolveQueue', spawnQueue')
  BY <1>1, <1>3, <1>4, MoveWaits DEF Ready
<1>6. WriteInv(call', writes') /\ LateInv(call', dirty', writes')
  <2>1. CASE call[c].pc = "sent" /\ writes' = writes
    BY <1>1, <1>3, <1>4, <2>1, KeepWrites DEF Ready, Writing
  <2>2. CASE writes # <<>> /\ writes[1] = c /\ writes' = Tail(writes)
    BY <1>1, <1>3, <1>4, <2>2, TailWrites DEF Ready, Writing
  <2> QED
    BY <2>1, <2>2
<1>7. c \in ServedBy(call') \/ error' = TRUE
  BY <1>3, <1>4 DEF ServedBy
<1> QED
  BY <1>2, <1>3, <1>4, <1>5, <1>6, <1>7, HeldServes

\* The last answer, with payloads to save.
AnswerToSave(c) ==
  /\ call[c].pc = "sent"
  /\ call' = [call EXCEPT ![c] = [@ EXCEPT !.pc = "saving", !.items = FALSE]]
  /\ writes' = Append(writes, c)
  /\ UNCHANGED <<service, queues, firstSync>>

\* The steps of a call up to the server's answer leave nobody unserved.
LEMMA RequestStepServes ==
  ASSUME Orderly, TypeOK, LockInv, ServeInv, TypeOK', LockInv', NEW c \in Call,
         At("popped") = {},
         Persisted(c) \/ BeginSync(c) \/ Send(c) \/ Fail(c) \/ AnswerPart(c)
           \/ Mapped(c) \/ Answer(c) \/ Saved(c)
  PROVE  ServeInv'
<1>0. /\ call \in [Call -> CallRecord] /\ call[c] \in CallRecord
      /\ call' \in [Call -> CallRecord]
      /\ writes \in Seq(Call) /\ resolveQueue \in SUBSET Call /\ spawnQueue \in Seq(Call)
      /\ WaitInv(call, resolveQueue, spawnQueue) /\ WriteInv(call, writes)
      /\ LateInv(call, dirty, writes)
  BY DEF TypeOK, ServeInv, Ready
<1>1. CASE Persisted(c)
  <2>1. /\ call[c].pc = "persisting" /\ WriteDone(c)
        /\ Arrive(c, call[c], call, spawnQueue)
        /\ UNCHANGED <<syncLock, error, dirty, firstSync, locked, launch>>
    BY <1>1 DEF Persisted, service
  <2>2. writes # <<>> /\ writes[1] = c /\ writes' = Tail(writes)
    BY <1>0, <2>1, WriteDoneIs
  <2>3. /\ \A d \in Call : d # c => call'[d] = call[d]
        /\ Arrives(c, call[c].runs, spawnQueue)
    BY <1>0, <2>1, ArriveStep
  <2>4. \A d \in Call : d # c => Alike(call'[d], call[d])
    BY <2>3 DEF Alike
  <2>5. call[c].runs => \A d \in Call : d # c => call[d].pc # "beginning"
    BY <2>1 DEF LockInv, PassedChecks, HeldBy
  <2>6. WaitInv(call', resolveQueue', spawnQueue')
    BY <1>0, <2>1, <2>3, <2>4, <2>5, EnterWaits DEF Arrives
  <2>7. WriteInv(call', writes') /\ LateInv(call', dirty', writes')
    <3>1. call'[c].pc \notin Writing
      BY <2>3 DEF Arrives, Writing
    <3> QED
      BY <1>0, <2>1, <2>2, <2>4, <3>1, TailWrites
  <2>8. CASE call[c].runs
    <3>1. c \in HeldBy(call) /\ c \in HeldBy(call') /\ call'[c].pc # "popped"
      BY <2>1, <2>3, <2>8 DEF HeldBy, Arrives
    <3>2. c \in ServedBy(call')
      BY <3>1 DEF ServedBy
    <3> QED
      BY <2>1, <2>4, <2>6, <2>7, <3>1, <3>2, HeldServes
  <2>9. CASE ~call[c].runs
    <3>1. /\ call'[c].pc \in {"onNext", "toSpawn"} /\ ~call'[c].runs
          /\ syncing' = syncing
      BY <2>3, <2>9 DEF Arrives
    <3>2. HeldBy(call') = HeldBy(call) /\ c \in Late(call) /\ ServedBy(call') = ServedBy(call)
      BY <2>1, <2>3, <2>9, <3>1 DEF HeldBy, Late, ServedBy
    <3>3. LoadInv(call')
      BY <2>3, <3>1, <3>2 DEF ServeInv, Ready, LoadInv, AfterRun
    <3>4. LoadInv(call)' /\ WaitInv(call, resolveQueue, spawnQueue)' /\ WriteInv(call, writes)'
          /\ LateInv(call, dirty, writes)'
      BY <2>1, <2>6, <2>7, <3>3 DEF LoadInv, WaitInv, WriteInv, LateInv, Late, HeldBy,
         databaseLoaded
    <3>5. Ready(call, resolveQueue, spawnQueue)'
      BY <3>4 DEF Ready, LockInv
    <3>6. FlagInv' /\ ServedBy(call)' = ServedBy(call) /\ At("popped")' = {}
      BY <2>1, <2>3, <3>1, <3>2 DEF ServeInv, FlagInv, HeldBy, ServedBy, At
    <3>7. launch = "launched" /\ ~error => ServedBy(call) # {}
      BY <3>2 DEF ServeInv
    <3> QED
      BY <2>1, <3>5, <3>6, <3>7 DEF ServeInv
  <2> QED
    BY <2>8, <2>9
<1>2. CASE BeginSync(c)
  <2> DEFINE r == [call[c] EXCEPT !.pc = "preparing", !.account = online,
                                  !.mode = UseMode(call[c].opts)]
  <2>1. r.pc = "preparing" /\ r.runs = call[c].runs /\ r.inTime = call[c].inTime
    BY <1>0 DEF CallRecord
  <2>2. /\ call[c].pc = "beginning" /\ call' = [call EXCEPT ![c] = r]
        /\ resolveQueue' = resolveQueue \ call[c].inTime /\ spawnQueue' = spawnQueue
        /\ UNCHANGED <<locked, launch, firstSync, dirty, writes>>
    BY <1>2 DEF BeginSync, RemainingQueue, service
  <2> HIDE DEF r
  <2>3. /\ \A d \in Call : d # c => Alike(call'[d], call[d]) /\ call'[d] = call[d]
        /\ call'[c].pc = "preparing" /\ call'[c].runs /\ call'[c].inTime = call[c].inTime
    BY <1>0, <2>1, <2>2 DEF Alike, LockInv, PassedChecks
  <2>4. WaitInv(call', resolveQueue', spawnQueue')
    <3>1. /\ \A d \in resolveQueue : d # c
          /\ \A d \in Call : c \notin call[d].inTime /\ call[d].inTime \subseteq Call
          /\ \A i \in 1..Len(spawnQueue) : spawnQueue[i] # c /\ spawnQueue[i] \in Call
      <4>1. \A d \in Call : call[d] \in CallRecord
        BY <1>0
      <4> QED
        BY <1>0, <2>2, <4>1 DEF WaitInv, CallRecord
    <3>2. \A d \in resolveQueue' : call'[d].pc = "onNext"
      BY <1>0, <2>2, <2>3, <3>1 DEF WaitInv
    <3>3. \A e \in Call : \A d \in call'[e].inTime : call'[d].pc = "onNext"
      BY <1>0, <2>3, <3>1 DEF WaitInv
    <3>4. \A d, e \in Call : d # e => call'[d].inTime \cap call'[e].inTime = {}
      BY <1>0, <2>3 DEF WaitInv
    <3>5. \A d \in Call : call'[d].pc # "beginning" => call'[d].inTime \cap resolveQueue' = {}
      BY <1>0, <2>2, <2>3 DEF WaitInv
    <3>6. \A i \in 1..Len(spawnQueue') : call'[spawnQueue'[i]].pc = "toSpawn"
      BY <1>0, <2>2, <2>3, <3>1 DEF WaitInv
    <3> QED
      BY <1>0, <2>2, <3>2, <3>3, <3>4, <3>5, <3>6 DEF WaitInv
  <2>5. WriteInv(call', writes') /\ LateInv(call', dirty', writes')
    BY <1>0, <2>2, <2>3, KeepWrites DEF Writing
  <2>6. c \in HeldBy(call) /\ c \in HeldBy(call') /\ c \in ServedBy(call')
    BY <2>2, <2>3 DEF HeldBy, ServedBy, LockInv, PassedChecks
  <2> QED
    BY <2>2, <2>3, <2>4, <2>5, <2>6, HeldServes
<1>3. CASE Send(c) \/ AnswerPart(c) \/ Mapped(c) \/ AnswerToSave(c)
  <2>1. /\ call[c].pc \in {"preparing", "sent", "mapping"}
        /\ call'[c].pc \in {"sent", "mapping", "saving"}
        /\ call'[c].runs = call[c].runs /\ call'[c].inTime = call[c].inTime
        /\ \A d \in Call : d # c => Alike(call'[d], call[d])
        /\ UNCHANGED <<locked, launch, firstSync, queues>>
    <3>1. CASE Send(c)
      <4>1. ASSUME NEW d \in Call
            PROVE  /\ d # c => Alike(call'[d], call[d])
                   /\ call'[c].pc = "sent" /\ call'[c].runs = call[c].runs
                   /\ call'[c].inTime = call[c].inTime
        <5>1. call[d] \in CallRecord
          BY <1>0
        <5> QED
          BY <1>0, <3>1, <5>1 DEF Send, CallRecord, Alike
      <4> QED
        BY <3>1, <4>1 DEF Send, service
    <3>2. CASE AnswerPart(c) \/ Mapped(c) \/ AnswerToSave(c)
      <4>1. PICK r : /\ call' = [call EXCEPT ![c] = r] /\ UNCHANGED <<service, queues, firstSync>>
                     /\ call[c].pc \in {"sent", "mapping"}
                     /\ \/ r = [call[c] EXCEPT !.pc = "mapping"]
                        \/ r = [call[c] EXCEPT !.pc = "sent"]
                        \/ r = [call[c] EXCEPT !.pc = "saving", !.items = FALSE]
        BY <3>2 DEF AnswerPart, Mapped, AnswerToSave
      <4>2. /\ r.pc \in {"sent", "mapping", "saving"}
            /\ r.runs = call[c].runs /\ r.inTime = call[c].inTime
        BY <1>0, <4>1 DEF CallRecord
      <4> QED
        BY <1>0, <4>1, <4>2 DEF Alike, service
    <3> QED
      BY <1>3, <3>1, <3>2
  <2>2. c \in HeldBy(call) /\ c \in HeldBy(call') /\ c \in ServedBy(call')
    BY <2>1 DEF HeldBy, ServedBy, LockInv, PassedChecks
  <2>3. WaitInv(call', resolveQueue', spawnQueue')
    BY <1>0, <2>1, MoveWaits DEF queues
  <2>4. WriteInv(call', writes') /\ LateInv(call', dirty', writes')
    <3>1. CASE Send(c)
      <4>1. call[c].pc = "preparing" /\ call'[c].pc = "sent" /\ UNCHANGED <<writes, dirty>>
        BY <1>0, <3>1 DEF Send, CallRecord
      <4> QED
        BY <1>0, <2>1, <4>1, KeepWrites DEF Writing
    <3>2. CASE AnswerPart(c)
      <4>1. /\ call[c].pc = "sent" /\ call'[c].pc = "mapping"
            /\ writes' = Append(writes, c) /\ dirty' = dirty
        BY <1>0, <3>2 DEF AnswerPart, CallRecord
      <4> QED
        BY <1>0, <2>1, <4>1, AppendWrites, AppendLate DEF Writing
    <3>3. CASE Mapped(c)
      <4>1. /\ call'[c].pc = "sent" /\ WriteDone(c) /\ dirty' = dirty
        BY <1>0, <3>3 DEF Mapped, CallRecord
      <4>2. writes # <<>> /\ writes[1] = c /\ writes' = Tail(writes)
        BY <1>0, <4>1, WriteDoneIs
      <4> QED
        BY <1>0, <2>1, <4>1, <4>2, TailWrites DEF Writing
    <3>4. CASE AnswerToSave(c)
      <4>1. /\ call[c].pc = "sent" /\ call'[c].pc = "saving" /\ writes' = Append(writes, c)
        BY <1>0, <3>4 DEF AnswerToSave, CallRecord
      <4>2. call[c].pc \notin Writing /\ call'[c].pc \in Writing
        BY <4>1 DEF Writing
      <4>3. WriteInv(call', Append(writes, c)) /\ LateInv(call', dirty', Append(writes, c))
        BY <1>0, <2>1, <4>1, <4>2, AppendWrites
      <4> QED
        BY <4>1, <4>3
    <3> QED
      BY <1>3, <3>1, <3>2, <3>3, <3>4
  <2> QED
    BY <2>1, <2>2, <2>3, <2>4, HeldServes
<1>4. CASE \/ Fail(c) /\ EndOperation(c, TRUE)
           \/ Answer(c) /\ EndOperation(c, FALSE) /\ UNCHANGED <<writes, dirty>>
  <2>1. /\ call[c].pc = "sent" /\ writes' = writes /\ UNCHANGED <<queues, dirty, firstSync>>
    BY <1>4 DEF Fail, Answer
  <2> QED
    BY <1>0, <1>4, <2>1, EndOperationServes
<1>5. CASE Saved(c)
  <2>1. /\ call[c].pc = "saving" /\ WriteDone(c) /\ EndOperation(c, FALSE)
        /\ UNCHANGED <<queues, dirty, firstSync>>
    BY <1>5 DEF Saved
  <2>2. writes # <<>> /\ writes[1] = c /\ writes' = Tail(writes)
    BY <1>0, <2>1, WriteDoneIs
  <2> QED
    BY <1>0, <2>1, <2>2, EndOperationServes
<1>6. CASE Fail(c) /\ ~EndOperation(c, TRUE)
  <2>1. /\ UNCHANGED <<syncLock, syncing, call, locked, launch, writes, queues, dirty, firstSync>>
        /\ error' = TRUE
    BY <1>6 DEF Fail
  <2>2. Ready(call, resolveQueue, spawnQueue)' /\ FlagInv' /\ At("popped")' = {}
    BY <2>1 DEF ServeInv, Ready, WaitInv, WriteInv, LateInv, LoadInv, Late, HeldBy,
       PassedChecks, FlagInv, At, queues, databaseLoaded
  <2> QED
    BY <2>1, <2>2 DEF ServeInv
<1> QED
  BY <1>1, <1>2, <1>3, <1>4, <1>5, <1>6 DEF Answer, AnswerToSave

\* The steps of the callers and of the events around them leave nobody unserved.
LEMMA SurroundingsServes ==
  ASSUME Orderly, TypeOK, LockInv, ServeInv, LockInv', Surroundings
  PROVE  ServeInv'
<1>0. /\ call \in [Call -> CallRecord] /\ spawnQueue \in Seq(Call)
      /\ NoOptions \in Options /\ Ready(call, resolveQueue, spawnQueue)
  BY BlankType DEF TypeOK, ServeInv
<1>1. ASSUME NEW o \in Options, Room, StartSync(Fresh, o, FALSE, call, spawnQueue),
             UNCHANGED <<locked, dirty, firstSync>>,
             launch' = launch \/ (databaseLoaded /\ databaseLoaded')
      PROVE  ServeInv'
  <2>1. Fresh \in Call /\ call[Fresh].pc = "idle"
    BY RoomIsFree, FreshIsFree, <1>1 DEF Free, At
  <2>2. CASE databaseLoaded
    <3>1. databaseLoaded'
      BY <1>1, <2>2 DEF databaseLoaded
    <3> QED
      BY <1>0, <1>1, <2>1, <2>2, <3>1, StartServes
  <2>3. CASE ~databaseLoaded
    <3>1. launch' = launch /\ launch # "launched" /\ databaseLoaded' = databaseLoaded
      BY <1>1, <2>3 DEF databaseLoaded
    <3>2. /\ Ready(call, resolveQueue, spawnQueue)'
          /\ FlagInv'
          /\ \A d \in Call : d # Fresh => Alike(call'[d], call[d])
          /\ call'[Fresh].pc \in {"persisting", "beginning", "onNext", "toSpawn"}
      BY <1>0, <1>1, <2>1, <3>1, EntryServes DEF ServeInv
    <3>3. \A d \in Call : call[d].pc # "popped"
      BY <1>0, <2>3 DEF Ready, LoadInv, AfterRun
    <3>4. At("popped")' = {}
      BY <3>2, <3>3 DEF At, Alike
    <3> QED
      BY <1>1, <3>1, <3>2, <3>4 DEF ServeInv
  <2> QED
    BY <2>2, <2>3
<1>2. ASSUME NEW o \in ExternalOptions, ExternalSync(o) PROVE ServeInv'
  BY <1>1, <1>2, OptionsAssumption DEF ExternalSync, service
<1>3. CASE LaunchSync
  <2>1. [NoOptions EXCEPT !.mode = "DownloadFirst"] \in Options
    BY <1>0 DEF Options, Mode
  <2> QED
    BY <1>1, <1>3, <2>1 DEF LaunchSync, databaseLoaded
<1>4. CASE AutoSync
  BY <1>0, <1>1, <1>4 DEF AutoSync, service
<1>5. CASE LoadDatabase \/ Edit \/ Diverge
  <2>1. /\ UNCHANGED <<call, queues, locks, writes, locked, firstSync>>
        /\ launch' = launch \/ launch' = "loaded"
        /\ dirty' = dirty \/ dirty' = TRUE
    BY <1>5 DEF LoadDatabase, Edit, Diverge, service
  <2>2. WaitInv(call, resolveQueue, spawnQueue)' /\ WriteInv(call, writes)'
        /\ LateInv(call, dirty, writes)' /\ PassedChecks(call)'
    BY <1>0, <2>1 DEF Ready, WaitInv, WriteInv, LateInv, Late, PassedChecks, queues
  <2>3. LoadInv(call)'
    BY <1>0, <2>1 DEF Ready, LoadInv, HeldBy, databaseLoaded
  <2>4. /\ FlagInv' /\ ServedBy(call)' = ServedBy(call) /\ Late(call)' = Late(call)
        /\ HeldBy(call)' = HeldBy(call) /\ At("popped")' = At("popped")
    BY <2>1 DEF ServeInv, FlagInv, ServedBy, HeldBy, Late, At, locks
  <2> QED
    BY <2>1, <2>2, <2>3, <2>4 DEF ServeInv, Ready, queues, locks
<1>6. ~Lock /\ ~Unlock /\ ~SignIn /\ ~SignInLoop
  BY DEF Orderly, Lock, Unlock, SignIn, SignInLoop, SignInAnswered, SignedIn,
     TryDownloadFirst, CheckDownloadFirst, ServeInv
<1> QED
  BY <1>2, <1>3, <1>4, <1>5, <1>6 DEF Surroundings

LEMMA ServeInvInit == Init => ServeInv
<1> SUFFICES ASSUME Init PROVE ServeInv
  OBVIOUS
<1>1. /\ \A c \in Call : call[c].pc = "idle" /\ ~call[c].runs /\ call[c].inTime = {}
      /\ resolveQueue = {} /\ spawnQueue = <<>> /\ writes = <<>>
      /\ ~syncLock /\ ~syncing /\ ~locked /\ launch = "loading"
      /\ firstSync.pc = "signedOut"
  BY DEF Init, Blank
<1>2. Len(spawnQueue) = 0 /\ Len(writes) = 0
  BY <1>1
<1>3. WaitInv(call, resolveQueue, spawnQueue) /\ WriteInv(call, writes)
  BY <1>1, <1>2 DEF WaitInv, WriteInv, Writing
<1>4. LateInv(call, dirty, writes) /\ LoadInv(call) /\ PassedChecks(call)
  BY <1>1 DEF LateInv, Late, LoadInv, HeldBy, AfterRun, PassedChecks
<1> QED
  BY <1>1, <1>3, <1>4 DEF ServeInv, Ready, FlagInv, At

LEMMA ServeInvNext ==
  ASSUME Orderly
  PROVE  TypeOK /\ LockInv /\ ServeInv /\ TypeOK' /\ LockInv' /\ [Next]_vars => ServeInv'
<1> SUFFICES ASSUME TypeOK, LockInv, ServeInv, TypeOK', LockInv', [Next]_vars
             PROVE  ServeInv'
  OBVIOUS
<1>1. ASSUME NEW c \in Call, Continue(c) PROVE ServeInv'
  BY <1>1, CompletionStepServes DEF Continue
<1>2. ASSUME NEW c \in Call, Continuing = {}, Event(c) PROVE ServeInv'
  <2>1. At("popped") = {}
    BY <1>2 DEF Continuing, At
  <2>2. ~Throw(c)
    BY DEF Orderly, Throw
  <2> QED
    BY <1>2, <2>1, <2>2, RequestStepServes, CompletionStepServes DEF Event
<1>3. CASE Surroundings
  BY <1>3, SurroundingsServes
<1>4. CASE UNCHANGED vars
  BY <1>4 DEF vars, locks, service, queues, ServeInv, Ready, WaitInv, WriteInv, LateInv,
     LoadInv, Late, HeldBy, ServedBy, PassedChecks, FlagInv, At, databaseLoaded
<1> QED
  BY <1>1, <1>2, <1>3, <1>4 DEF Next, Step

(***************************************************************************)
(* WaitersAreServed holds of every behaviour in which nothing holds the    *)
(* hard lock, throws or lets writes overtake each other, however many      *)
(* calls and failures there are: a call of sync() that found the service   *)
(* busy, and saved before it queued, is in the queue before the request it *)
(* waits for is over, or that request's successor is under way.            *)
(***************************************************************************)
THEOREM NobodyWaitsForNothing ==
  ASSUME Orderly
  PROVE  Spec => []WaitersAreServed
<1>1. ServeInv => WaitersAreServed
  <2> SUFFICES ASSUME ServeInv, launch = "launched", ~error,
                      resolveQueue # {} \/ spawnQueue # <<>>
               PROVE  AtWork # {}
    BY DEF WaitersAreServed
  <2>1. ServedBy(call) # {}
    BY DEF ServeInv
  <2> QED
    BY <2>1 DEF ServedBy, HeldBy, AtWork
<1>2. Spec => []LockInv
  BY TypeCorrect, LockInvInit, LockInvNext, PTL DEF Spec
<1> QED
  BY <1>1, <1>2, TypeCorrect, ServeInvInit, ServeInvNext, PTL DEF Spec

-----------------------------------------------------------------------------
(***************************************************************************)
(* Forced requests are made.  A caller that forced a request waits in the  *)
(* spawn queue until it is popped, then for the call made on its behalf;   *)
(* that call may have to queue itself, but in the spawn queue again, so    *)
(* that in the end it, or one made for it, runs.                           *)
(***************************************************************************)
Parents == {"observing", "awaiting", "spawned"}

Forces(r) == r.opts.strategy = "ForceSpawnNew"

\* A call that a forced caller may follow: it will have run before it settles.
Honours(r) ==
  /\ r.kept /\ r.pc \notin {"idle", "onNext"}
  /\ r.pc \in {"persisting", "toSpawn"} => Forces(r)
  /\ r.pc \in {"persisting", "toSpawn", "spawned"} \/ r.ran

Lives(r) == r.kept /\ r.pc # "idle"

(***************************************************************************)
(* The inductive invariant: the slot of an awaited call is not given away  *)
(* before the one call that awaits it has gone on.                         *)
(***************************************************************************)
ForceInv(fn) ==
  /\ \A c \in Call : fn[c].pc \in Parents => fn[c].sub \in Call /\ Lives(fn[fn[c].sub])
  /\ \A c, d \in Call :
       fn[c].pc \in Parents /\ fn[d].pc \in Parents /\ fn[c].sub = fn[d].sub => c = d
  /\ \A c \in Call : fn[c].pc = "toSpawn" => Forces(fn[c])
  /\ \A c \in Call : fn[c].pc = "spawned" => Honours(fn[fn[c].sub])

\* What s, the later record of a slot, keeps of r.
Keeps(s, r) ==
  /\ Lives(r) => Lives(s)
  /\ Honours(r) => Honours(s)
  /\ s.pc \in Parents => s.pc = r.pc /\ s.sub = r.sub
  /\ s.pc = "toSpawn" => Forces(s) \/ (r.pc = "toSpawn" /\ s.opts = r.opts)

\* A forced caller still waits.
Stays(s, r) == r.pc \in {"toSpawn", "spawned"} => s.pc \in {"toSpawn", "spawned"}

\* What ForcedRequestIsMade says of a step.
ForcedStep ==
  \A c \in Call :
    (call[c].pc \in {"toSpawn", "spawned"} /\ Settles(c))
      => call[c].pc = "spawned" /\ call[call[c].sub].ran

LEMMA AlikeKeeps ==
  ASSUME NEW s, NEW r, Alike(s, r)
  PROVE  Keeps(s, r) /\ Stays(s, r)
BY DEF Alike, Keeps, Stays, Lives, Honours, Forces

LEMMA StaysForced ==
  ASSUME \A d \in Call : Stays(call'[d], call[d])
  PROVE  ForcedStep
BY DEF Stays, ForcedStep, Settles

LEMMA KeepsForces ==
  ASSUME NEW fn \in [Call -> CallRecord], NEW g \in [Call -> CallRecord], ForceInv(fn),
         \A d \in Call : Keeps(g[d], fn[d])
  PROVE  ForceInv(g)
<1>1. \A c \in Call : g[c].pc \in Parents =>
        fn[c].pc = g[c].pc /\ fn[c].sub = g[c].sub /\ g[c].sub \in Call
  BY DEF Keeps, ForceInv
<1>2. \A c \in Call : g[c].pc \in Parents => Lives(g[g[c].sub])
  BY <1>1 DEF Keeps, ForceInv
<1>3. \A c, d \in Call :
        g[c].pc \in Parents /\ g[d].pc \in Parents /\ g[c].sub = g[d].sub => c = d
  BY <1>1 DEF ForceInv
<1>4. \A c \in Call : g[c].pc = "toSpawn" => Forces(g[c])
  BY DEF Keeps, ForceInv, Forces
<1>5. \A c \in Call : g[c].pc = "spawned" => Honours(g[g[c].sub])
  BY <1>1 DEF Keeps, ForceInv, Parents
<1> QED
  BY <1>1, <1>2, <1>3, <1>4, <1>5 DEF ForceInv

\* A call awaits one that it has just made.
LEMMA ChildForces ==
  ASSUME NEW fn \in [Call -> CallRecord], NEW g \in [Call -> CallRecord], ForceInv(fn),
         NEW p \in Call, NEW e \in Call, p # e, fn[e].pc = "idle",
         g[p].pc \in Parents, g[p].sub = e,
         Lives(fn[p]) => Lives(g[p]), Honours(fn[p]) => Honours(g[p]),
         Lives(g[e]), g[e].pc \notin Parents, g[e].pc = "toSpawn" => Forces(g[e]),
         g[p].pc = "spawned" => Honours(g[e]),
         \A d \in Call : d # p /\ d # e => Keeps(g[d], fn[d])
  PROVE  ForceInv(g)
<1>1. \A c \in Call : c # p /\ g[c].pc \in Parents =>
        /\ fn[c].pc = g[c].pc /\ fn[c].sub = g[c].sub
        /\ g[c].sub \in Call /\ g[c].sub # e /\ Lives(fn[g[c].sub])
  BY DEF Keeps, ForceInv, Lives
<1>2. \A c \in Call : g[c].pc \in Parents => g[c].sub \in Call /\ Lives(g[g[c].sub])
  BY <1>1 DEF Keeps
<1>3. \A c, d \in Call :
        g[c].pc \in Parents /\ g[d].pc \in Parents /\ g[c].sub = g[d].sub => c = d
  BY <1>1 DEF ForceInv
<1>4. \A c \in Call : g[c].pc = "toSpawn" => Forces(g[c])
  BY DEF Keeps, ForceInv, Forces, Parents
<1>5. \A c \in Call : g[c].pc = "spawned" => Honours(g[g[c].sub])
  <2> TAKE c \in Call
  <2> HAVE g[c].pc = "spawned"
  <2>1. CASE c = p
    BY <2>1
  <2>2. CASE c # p
    <3>1. fn[c].pc = "spawned" /\ fn[c].sub = g[c].sub /\ g[c].sub \in Call /\ g[c].sub # e
      BY <1>1, <2>2 DEF Parents
    <3>2. Honours(fn[g[c].sub])
      BY <3>1 DEF ForceInv
    <3> QED
      BY <3>1, <3>2 DEF Keeps
  <2> QED
    BY <2>1, <2>2
<1> QED
  BY <1>2, <1>3, <1>4, <1>5 DEF ForceInv

\* The slot of an awaited call is given away when its caller has gone on.
LEMMA ReleaseForces ==
  ASSUME NEW fn \in [Call -> CallRecord], NEW g \in [Call -> CallRecord], ForceInv(fn),
         NEW e \in Call, g[e].pc = "idle",
         \A d \in Call : fn[d].pc \in Parents /\ fn[d].sub = e => g[d].pc \notin Parents,
         \A d \in Call : d # e => Keeps(g[d], fn[d])
  PROVE  ForceInv(g)
<1>1. \A c \in Call : g[c].pc \in Parents =>
        /\ fn[c].pc = g[c].pc /\ fn[c].sub = g[c].sub
        /\ g[c].sub \in Call /\ g[c].sub # e /\ Lives(fn[g[c].sub])
  BY DEF Keeps, ForceInv, Parents
<1>2. \A c \in Call : g[c].pc \in Parents => g[c].sub \in Call /\ Lives(g[g[c].sub])
  BY <1>1 DEF Keeps
<1>3. \A c, d \in Call :
        g[c].pc \in Parents /\ g[d].pc \in Parents /\ g[c].sub = g[d].sub => c = d
  BY <1>1 DEF ForceInv
<1>4. \A c \in Call : g[c].pc = "toSpawn" => Forces(g[c])
  BY DEF Keeps, ForceInv, Forces
<1>5. \A c \in Call : g[c].pc = "spawned" => Honours(g[g[c].sub])
  BY <1>1 DEF Keeps, ForceInv, Parents
<1> QED
  BY <1>2, <1>3, <1>4, <1>5 DEF ForceInv

\* Settling promises, of calls that have run or that only wait.
LEMMA SettleKeeps ==
  ASSUME NEW fn \in [Call -> CallRecord], NEW S, NEW outcome \in {"resolved", "rejected"},
         \A d \in Call : d \in S /\ fn[d].pc \in {"persisting", "toSpawn", "spawned"}
                           => fn[d].ran
  PROVE  \A d \in Call : /\ Keeps(Settle(fn, S, outcome)[d], fn[d])
                         /\ d \notin S => Stays(Settle(fn, S, outcome)[d], fn[d])
<1> TAKE d \in Call
<1> DEFINE g == Settle(fn, S, outcome)[d]
<1>1. g = IF d \notin S THEN fn[d]
          ELSE IF fn[d].kept
               THEN [Blank EXCEPT !.pc = outcome, !.kept = TRUE, !.ran = fn[d].ran]
               ELSE Blank
  BY DEF Settle
<1> HIDE DEF g
<1>2. CASE d \notin S
  BY <1>1, <1>2 DEF Keeps, Stays, g
<1>3. CASE d \in S /\ fn[d].kept
  <2>1. g.pc = outcome /\ g.kept /\ g.ran = fn[d].ran
    BY <1>1, <1>3 DEF Blank
  <2>2. Honours(fn[d]) => fn[d].ran
    BY <1>3 DEF Honours
  <2>3. Keeps(g, fn[d])
    BY <1>3, <2>1, <2>2 DEF Keeps, Lives, Honours, Parents
  <2> QED
    BY <1>3, <2>3 DEF g
<1>4. CASE d \in S /\ ~fn[d].kept
  <2>1. g.pc = "idle"
    BY <1>1, <1>4 DEF Blank
  <2>2. Keeps(g, fn[d])
    BY <1>4, <2>1 DEF Keeps, Lives, Honours, Parents
  <2> QED
    BY <1>4, <2>2 DEF g
<1> QED
  BY <1>2, <1>3, <1>4

\* A forced call that may not run queues to be spawned.
LEMMA ArriveKeeps ==
  ASSUME NEW c \in Call, NEW r \in CallRecord, NEW fn \in [Call -> CallRecord],
         NEW q, Arrive(c, r, fn, q)
  PROVE  /\ call'[c].kept = r.kept
         /\ call'[c].pc \in {"beginning", "onNext", "toSpawn"}
         /\ call'[c].pc = "toSpawn" => Forces(call'[c])
         /\ r.kept /\ Forces(r) => Honours(call'[c])
<1>1. CASE r.runs
  <2> DEFINE s == [r EXCEPT !.pc = "beginning", !.ran = TRUE, !.inTime = resolveQueue,
                            !.sent = TRUE]
  <2>1. s.pc = "beginning" /\ s.kept = r.kept /\ s.ran
    BY DEF CallRecord
  <2>2. call' = [fn EXCEPT ![c] = s]
    BY <1>1 DEF Arrive
  <2> HIDE DEF s
  <2> QED
    BY <2>1, <2>2 DEF Honours
<1>2. CASE ~r.runs /\ r.opts.strategy = "ResolveOnNext"
  <2> DEFINE s == [Blank EXCEPT !.pc = "onNext", !.kept = r.kept, !.sent = r.sent]
  <2>1. s.pc = "onNext" /\ s.kept = r.kept
    BY DEF Blank
  <2>2. call' = [fn EXCEPT ![c] = s]
    BY <1>2 DEF Arrive
  <2> HIDE DEF s
  <2> QED
    BY <1>2, <2>1, <2>2 DEF Forces
<1>3. CASE ~r.runs /\ r.opts.strategy = "ForceSpawnNew"
  <2> DEFINE o == [r.opts EXCEPT !.awaitAll = FALSE]
             s == [Blank EXCEPT !.pc = "toSpawn", !.kept = r.kept, !.opts = o]
  <2>1. o.strategy = "ForceSpawnNew"
    BY <1>3 DEF CallRecord, Options
  <2> HIDE DEF o
  <2>2. s.pc = "toSpawn" /\ s.kept = r.kept /\ s.opts = o
    BY DEF Blank
  <2>3. call' = [fn EXCEPT ![c] = s]
    BY <1>3 DEF Arrive, o
  <2> HIDE DEF s
  <2> QED
    BY <2>1, <2>2, <2>3 DEF Honours, Forces
<1> QED
  BY <1>1, <1>2, <1>3 DEF Arrive

LEMMA EntryKeeps ==
  ASSUME TypeOK, ~locked, NEW c \in Call, NEW o \in Options, NEW kept \in BOOLEAN,
         NEW fn \in [Call -> CallRecord], NEW q \in Seq(Call),
         StartSync(c, o, kept, fn, q)
  PROVE  /\ call'[c].kept = kept
         /\ call'[c].pc \in {"persisting", "beginning", "onNext", "toSpawn"}
         /\ call'[c].pc = "toSpawn" => Forces(call'[c])
         /\ kept /\ o.strategy = "ForceSpawnNew" => Honours(call'[c])
<1> DEFINE old == [d \in Call |-> [fn[d] EXCEPT !.snap = @ \ {c}]]
           r == [Blank EXCEPT !.opts = o, !.items = dirty, !.runs = MayRun,
                              !.kept = kept, !.sent = ~dirty,
                              !.snap = IF MayRun THEN Unsent(fn) ELSE {}]
           s == [r EXCEPT !.pc = "persisting"]
<1>1. old \in [Call -> CallRecord]
  BY DEF CallRecord
<1>2. r \in CallRecord
  <2>1. MayRun \in BOOLEAN /\ Unsent(fn) \subseteq Call
    BY DEF MayRun, databaseLoaded, Unsent
  <2> QED
    BY ZenonT(30), <2>1, BlankType DEF CallRecord, TypeOK
<1>3. r.kept = kept /\ r.opts = o
  BY DEF Blank
<1>4. s.pc = "persisting" /\ s.kept = kept /\ s.opts = o
  BY DEF Blank
<1>5. call' = [old EXCEPT ![c] = s] \/ Arrive(c, r, old, q)
  BY DEF StartSync
<1> HIDE DEF old, r, s
<1>6. CASE call' = [old EXCEPT ![c] = s]
  BY <1>1, <1>4, <1>6 DEF Honours, Forces
<1>7. CASE Arrive(c, r, old, q)
  BY <1>1, <1>2, <1>3, <1>7, ArriveKeeps DEF Forces
<1> QED
  BY <1>5, <1>6, <1>7

\* The steps of a call up to the server's answer.
LEMMA RequestStepForces ==
  ASSUME TypeOK, TypeOK', ForceInv(call), LockInv, NEW c \in Call,
         Persisted(c) \/ BeginSync(c) \/ Send(c) \/ Fail(c) \/ AnswerPart(c)
           \/ Mapped(c) \/ Answer(c) \/ Saved(c)
  PROVE  ForceInv(call') /\ ForcedStep
<1>0. /\ call \in [Call -> CallRecord] /\ call[c] \in CallRecord
      /\ call' \in [Call -> CallRecord]
  BY DEF TypeOK
<1> SUFFICES \A d \in Call : Keeps(call'[d], call[d]) /\ Stays(call'[d], call[d])
  BY <1>0, KeepsForces, StaysForced
<1>1. CASE Persisted(c)
  <2>1. call[c].pc = "persisting" /\ Arrive(c, call[c], call, spawnQueue)
    BY <1>1 DEF Persisted
  <2>2. \A d \in Call : d # c => call'[d] = call[d]
    BY <1>0, <2>1, ArriveStep
  <2>3. /\ call'[c].kept = call[c].kept
        /\ call'[c].pc \in {"beginning", "onNext", "toSpawn"}
        /\ call'[c].pc = "toSpawn" => Forces(call'[c])
        /\ call[c].kept /\ Forces(call[c]) => Honours(call'[c])
    BY <1>0, <2>1, ArriveKeeps
  <2>4. Keeps(call'[c], call[c]) /\ Stays(call'[c], call[c])
    BY <2>1, <2>3 DEF Keeps, Stays, Lives, Honours, Parents
  <2> QED
    BY <2>2, <2>4, AlikeKeeps DEF Alike
<1>2. ASSUME NEW r \in CallRecord, call' = [call EXCEPT ![c] = r],
             call[c].pc \in {"beginning", "sent", "mapping", "saving"},
             r.pc \in {"preparing", "sent", "mapping", "saving", "completed"},
             r.kept = call[c].kept, r.ran = call[c].ran
      PROVE  \A d \in Call : Keeps(call'[d], call[d]) /\ Stays(call'[d], call[d])
  <2>1. \A d \in Call : d # c => Alike(call'[d], call[d])
    BY <1>2 DEF Alike
  <2>2. call'[c] = r
    BY <1>0, <1>2
  <2>3. Keeps(call'[c], call[c]) /\ Stays(call'[c], call[c])
    BY <1>2, <2>2 DEF Keeps, Stays, Lives, Honours, Parents
  <2> QED
    BY <2>1, <2>3, AlikeKeeps
<1>3. ASSUME NEW failed \in BOOLEAN, EndOperation(c, failed),
             call[c].pc \in {"sent", "saving"}
      PROVE  \A d \in Call : Keeps(call'[d], call[d]) /\ Stays(call'[d], call[d])
  <2>1. CASE failed
    <3>1. call' = Settle(call, {c}, "resolved")
      BY <1>3, <2>1 DEF EndOperation
    <3>2. Stays(call'[c], call[c])
      BY <1>3 DEF Stays
    <3> QED
      BY <1>0, <1>3, <3>1, <3>2, SettleKeeps
  <2>2. CASE ~failed
    <3> DEFINE r == [call[c] EXCEPT !.pc = "completed", !.items = FALSE]
    <3>1. r \in CallRecord /\ r.pc = "completed" /\ r.kept = call[c].kept
          /\ r.ran = call[c].ran
      BY <1>0 DEF CallRecord, PC
    <3>2. call' = [call EXCEPT ![c] = r]
      BY <1>3, <2>2 DEF EndOperation
    <3> HIDE DEF r
    <3> QED
      BY <1>2, <1>3, <3>1, <3>2
  <2> QED
    BY <2>1, <2>2
<1>4. CASE BeginSync(c) \/ AnswerPart(c) \/ Mapped(c) \/ AnswerToSave(c)
  <2>1. PICK r : /\ call' = [call EXCEPT ![c] = r]
                 /\ call[c].pc \in {"beginning", "sent", "mapping"}
                 /\ \/ r = [call[c] EXCEPT !.pc = "preparing", !.account = online,
                                           !.mode = UseMode(call[c].opts)]
                    \/ r = [call[c] EXCEPT !.pc = "mapping"]
                    \/ r = [call[c] EXCEPT !.pc = "sent"]
                    \/ r = [call[c] EXCEPT !.pc = "saving", !.items = FALSE]
    BY <1>4 DEF BeginSync, AnswerPart, Mapped, AnswerToSave
  <2>2. /\ r.pc \in {"preparing", "sent", "mapping", "saving"}
        /\ r.kept = call[c].kept /\ r.ran = call[c].ran
    <3>1. CASE r = [call[c] EXCEPT !.pc = "preparing", !.account = online,
                                   !.mode = UseMode(call[c].opts)]
      BY <1>0, <3>1 DEF CallRecord
    <3>2. CASE r = [call[c] EXCEPT !.pc = "mapping"]
      BY <1>0, <3>2 DEF CallRecord
    <3>3. CASE r = [call[c] EXCEPT !.pc = "sent"]
      BY <1>0, <3>3 DEF CallRecord
    <3>4. CASE r = [call[c] EXCEPT !.pc = "saving", !.items = FALSE]
      BY <1>0, <3>4 DEF CallRecord
    <3> QED
      BY <2>1, <3>1, <3>2, <3>3, <3>4
  <2>3. r \in CallRecord
    BY <1>0, <2>1
  <2> QED
    BY <1>2, <2>1, <2>2, <2>3
<1>5. CASE Send(c)
  <2>1. ASSUME NEW d \in Call
        PROVE  Keeps(call'[d], call[d]) /\ Stays(call'[d], call[d])
    <3>1. call[d] \in CallRecord
      BY <1>0
    <3>2. CASE d # c
      BY <1>5, <3>1, <3>2, AlikeKeeps DEF Send, CallRecord, Alike
    <3>3. CASE d = c
      <4>1. call[d].pc = "preparing" /\ call'[d].pc = "sent"
            /\ call'[d].kept = call[d].kept /\ call'[d].ran = call[d].ran
        BY <1>5, <3>1, <3>3 DEF Send, CallRecord
      <4> QED
        BY <4>1 DEF Keeps, Stays, Lives, Honours, Parents
    <3> QED
      BY <3>2, <3>3
  <2> QED
    BY <2>1
<1>6. CASE Fail(c)
  <2>1. CASE EndOperation(c, TRUE)
    BY <1>3, <1>6, <2>1 DEF Fail
  <2>2. CASE UNCHANGED call
    BY <2>2, AlikeKeeps DEF Alike
  <2> QED
    BY <1>6, <2>1, <2>2 DEF Fail
<1>7. CASE call[c].pc \in {"sent", "saving"} /\ EndOperation(c, FALSE)
  BY <1>3, <1>7
<1> QED
  BY <1>1, <1>4, <1>5, <1>6, <1>7 DEF Answer, AnswerToSave, Saved

\* Call c awaits the call it makes, and is not popped for it.
LEMMA StartAwaitedForces ==
  ASSUME TypeOK, TypeOK', ~locked, ForceInv(call), NEW c \in Call, NEW o \in Options,
         NEW pc \in {"observing", "awaiting"}, StartAwaited(c, o, pc),
         call[c].pc \in {"completed", "popped"}
  PROVE  ForceInv(call') /\ ForcedStep
<1> DEFINE moved == [call[c] EXCEPT !.pc = pc, !.sub = Fresh]
           fn == [call EXCEPT ![c] = moved]
<1>1. Fresh \in Call /\ call[Fresh].pc = "idle" /\ Fresh # c
  BY FreshIsFree DEF StartAwaited, Free, At
<1>2. /\ call \in [Call -> CallRecord] /\ call[c] \in CallRecord
      /\ call' \in [Call -> CallRecord] /\ spawnQueue \in Seq(Call)
  BY DEF TypeOK
<1>3. /\ moved \in CallRecord /\ moved.pc = pc /\ moved.sub = Fresh
      /\ moved.kept = call[c].kept /\ moved.ran = call[c].ran
  BY <1>1, <1>2 DEF CallRecord, PC
<1>4. StartSync(Fresh, o, TRUE, fn, spawnQueue)
  BY DEF StartAwaited
<1> HIDE DEF moved
<1>5. fn \in [Call -> CallRecord] /\ fn[c] = moved
      /\ \A d \in Call : d # c => fn[d] = call[d]
  BY <1>2, <1>3
<1> HIDE DEF fn
<1>6. \A d \in Call : d # Fresh => Alike(call'[d], fn[d])
  BY <1>1, <1>2, <1>4, <1>5, EntryStep
<1>7. /\ call'[Fresh].kept = TRUE
      /\ call'[Fresh].pc \in {"persisting", "beginning", "onNext", "toSpawn"}
      /\ call'[Fresh].pc = "toSpawn" => Forces(call'[Fresh])
  BY <1>1, <1>2, <1>4, <1>5, EntryKeeps
<1>8. /\ call'[c].pc = pc /\ call'[c].sub = Fresh
      /\ call'[c].kept = call[c].kept /\ call'[c].ran = call[c].ran
  BY <1>1, <1>3, <1>5, <1>6 DEF Alike
<1>9. \A d \in Call : d # c /\ d # Fresh =>
        Keeps(call'[d], call[d]) /\ Stays(call'[d], call[d])
  BY <1>5, <1>6, AlikeKeeps
<1>10. Lives(call[c]) => Lives(call'[c])
  BY <1>8 DEF Lives
<1>11. Honours(call[c]) => Honours(call'[c])
  BY <1>8 DEF Honours
<1>12. call'[c].pc \in Parents /\ Lives(call'[Fresh]) /\ call'[Fresh].pc \notin Parents
  BY <1>7, <1>8 DEF Parents, Lives
<1>13. ForceInv(call')
  BY <1>1, <1>2, <1>7, <1>8, <1>9, <1>10, <1>11, <1>12, ChildForces
<1>14. Stays(call'[c], call[c]) /\ Stays(call'[Fresh], call[Fresh])
  BY <1>1 DEF Stays
<1> QED
  BY <1>9, <1>13, <1>14, StaysForced

\* A call of sync() that nobody awaits.
LEMMA StartForces ==
  ASSUME TypeOK, TypeOK', ~locked, NEW c \in Call, NEW o \in Options,
         NEW fn \in [Call -> CallRecord], NEW q \in Seq(Call), ForceInv(fn),
         fn[c].pc = "idle", call[c].pc = "idle",
         \A d \in Call : Stays(fn[d], call[d]), StartSync(c, o, FALSE, fn, q)
  PROVE  ForceInv(call') /\ ForcedStep
<1>1. call' \in [Call -> CallRecord]
  BY DEF TypeOK
<1>2. \A d \in Call : d # c => Alike(call'[d], fn[d])
  BY EntryStep
<1>3. /\ call'[c].pc \in {"persisting", "beginning", "onNext", "toSpawn"}
      /\ call'[c].pc = "toSpawn" => Forces(call'[c])
  BY EntryKeeps
<1>4. Keeps(call'[c], fn[c])
  BY <1>3 DEF Keeps, Lives, Honours, Parents
<1>5. \A d \in Call : Keeps(call'[d], fn[d])
  BY <1>2, <1>4, AlikeKeeps
<1>6. \A d \in Call : Stays(call'[d], call[d])
  <2>1. \A d \in Call : d # c => Stays(call'[d], call[d])
    BY <1>2 DEF Stays, Alike
  <2> QED
    BY <2>1 DEF Stays
<1> QED
  BY <1>1, <1>5, <1>6, KeepsForces, StaysForced

\* What the end of sync() settles are promises that wait for the next request.
LEMMA FinishForces ==
  ASSUME NEW fn \in [Call -> CallRecord], NEW c \in Call,
         fn[c].pc \in {"completed", "popped", "observing", "awaiting", "spawned"},
         fn[c].pc = "spawned" => fn[c].ran,
         \A d \in fn[c].inTime : fn[d].pc = "onNext"
  PROVE  /\ Finish(fn, c) \in [Call -> CallRecord]
         /\ \A d \in Call : /\ Keeps(Finish(fn, c)[d], fn[d])
                            /\ d # c => Stays(Finish(fn, c)[d], fn[d])
<1>1. \A d \in Call : d \in fn[c].inTime \cup {c}
                        /\ fn[d].pc \in {"persisting", "toSpawn", "spawned"} => fn[d].ran
  OBVIOUS
<1>2. \A d \in Call : d # c => Stays(Finish(fn, c)[d], fn[d])
  <2> TAKE d \in Call
  <2> HAVE d # c
  <2>1. CASE d \in fn[c].inTime
    BY <2>1 DEF Stays
  <2>2. CASE d \notin fn[c].inTime
    BY <1>1, <2>2, SettleKeeps DEF Finish
  <2> QED
    BY <2>1, <2>2
<1>3. \A d \in Call : Keeps(Finish(fn, c)[d], fn[d])
  BY <1>1, SettleKeeps DEF Finish
<1>4. Finish(fn, c) \in [Call -> CallRecord]
  BY SettleType DEF Finish, PC
<1> QED
  BY <1>2, <1>3, <1>4

LEMMA StartMaybeAwaitedForces ==
  ASSUME TypeOK, TypeOK', ServeInv, ForceInv(call), NEW c \in Call, NEW o \in Options,
         StartMaybeAwaited(c, o), call[c].pc \in {"completed", "popped"}
  PROVE  ForceInv(call') /\ ForcedStep
<1>1. CASE StartAwaited(c, o, "awaiting")
  BY <1>1, StartAwaitedForces DEF ServeInv
<1>2. CASE /\ Free # {}
           /\ StartSync(Fresh, o, FALSE, Finish(call, c), spawnQueue)
  <2>1. Fresh \in Call /\ call[Fresh].pc = "idle" /\ Fresh # c
    BY <1>2, FreshIsFree DEF Free, At
  <2>2. /\ call \in [Call -> CallRecord] /\ spawnQueue \in Seq(Call)
        /\ WaitInv(call, resolveQueue, spawnQueue) /\ ~locked
    BY DEF TypeOK, ServeInv, Ready
  <2>3. /\ Finish(call, c) \in [Call -> CallRecord]
        /\ \A d \in Call : /\ Keeps(Finish(call, c)[d], call[d])
                           /\ d # c => Stays(Finish(call, c)[d], call[d])
    BY <2>2, FinishForces DEF WaitInv
  <2>4. Finish(call, c)[Fresh].pc = "idle"
    <3>1. Fresh \notin call[c].inTime \cup {c}
      BY <2>1, <2>2 DEF WaitInv
    <3> QED
      BY <2>1, <3>1, SettleStep DEF Finish
  <2>5. \A d \in Call : Stays(Finish(call, c)[d], call[d])
    <3>1. Stays(Finish(call, c)[c], call[c])
      BY DEF Stays
    <3> QED
      BY <2>3, <3>1
  <2>6. ForceInv(Finish(call, c))
    BY <2>2, <2>3, KeepsForces
  <2> QED
    BY <1>2, <2>1, <2>2, <2>3, <2>4, <2>5, <2>6, StartForces
<1> QED
  BY <1>1, <1>2 DEF StartMaybeAwaited

\* The head of the spawn queue follows a call made for it, which it forces in turn.
LEMMA PopForces ==
  ASSUME TypeOK, TypeOK', ServeInv, ForceInv(call), NEW c \in Call, PopSpawnQueue(c)
  PROVE  ForceInv(call') /\ ForcedStep
<1> DEFINE head == Head(spawnQueue)
           base == [call EXCEPT ![c].pc = "popped"]
           spawned == [base[head] EXCEPT !.pc = "spawned", !.sub = Fresh]
           popped == [call EXCEPT ![c].pc = "popped",
                                  ![head] = [@ EXCEPT !.pc = "spawned", !.sub = Fresh]]
<1>1. /\ call \in [Call -> CallRecord] /\ call' \in [Call -> CallRecord]
      /\ spawnQueue \in Seq(Call) /\ spawnQueue # <<>> /\ ~locked
      /\ call[c].pc = "completed"
      /\ WaitInv(call, resolveQueue, spawnQueue)
  BY DEF PopSpawnQueue, TypeOK, ServeInv, Ready
<1>2. /\ head \in Call /\ Tail(spawnQueue) \in Seq(Call)
      /\ head = spawnQueue[1] /\ 1 \in 1..Len(spawnQueue)
  BY <1>1
<1>3. Fresh \in Call /\ call[Fresh].pc = "idle" /\ Fresh # c
  BY <1>1, FreshIsFree DEF PopSpawnQueue, Free, At
<1>4. call[head].pc = "toSpawn" /\ Forces(call[head]) /\ head # c /\ head # Fresh
  BY <1>1, <1>2, <1>3 DEF WaitInv, ForceInv
<1>5. StartSync(Fresh, call[head].opts, TRUE, popped, Tail(spawnQueue))
  BY DEF PopSpawnQueue
<1>6. call[head].opts \in Options
  BY <1>1, <1>2 DEF CallRecord
<1>7. popped = [base EXCEPT ![head] = spawned]
  OBVIOUS
<1>8. /\ base \in [Call -> CallRecord]
      /\ \A d \in Call : d # c => base[d] = call[d]
      /\ base[c].pc = "popped" /\ base[c].kept = call[c].kept /\ base[c].ran = call[c].ran
  <2>1. [call[c] EXCEPT !.pc = "popped"] \in CallRecord
    BY <1>1 DEF CallRecord, PC
  <2> QED
    BY <1>1, <2>1 DEF CallRecord
<1> HIDE DEF base, popped, head
<1>9. /\ spawned \in CallRecord /\ spawned.pc = "spawned" /\ spawned.sub = Fresh
      /\ spawned.kept = call[head].kept
  <2>1. base[head] = call[head] /\ base[head] \in CallRecord
    BY <1>2, <1>4, <1>8
  <2> QED
    BY <1>3, <2>1 DEF CallRecord, PC
<1> HIDE DEF spawned
<1>10. /\ popped \in [Call -> CallRecord] /\ popped[head] = spawned
       /\ \A d \in Call : d # head => popped[d] = base[d]
  BY <1>2, <1>7, <1>8, <1>9
<1>11. \A d \in Call : d # Fresh => Alike(call'[d], popped[d])
  BY <1>1, <1>2, <1>3, <1>5, <1>6, <1>10, EntryStep
<1>12. /\ call'[Fresh].kept = TRUE
       /\ call'[Fresh].pc \in {"persisting", "beginning", "onNext", "toSpawn"}
       /\ call'[Fresh].pc = "toSpawn" => Forces(call'[Fresh])
       /\ Honours(call'[Fresh])
  <2>1. call[head].opts.strategy = "ForceSpawnNew"
    BY <1>4 DEF Forces
  <2> QED
    BY <1>1, <1>2, <1>3, <1>5, <1>6, <1>10, <2>1, EntryKeeps
<1>13. ForceInv(base)
  <2>1. Keeps(base[c], call[c])
    BY <1>1, <1>8 DEF Keeps, Lives, Honours, Parents
  <2>2. \A d \in Call : Keeps(base[d], call[d])
    BY <1>8, <2>1, AlikeKeeps DEF Alike
  <2> QED
    BY <1>1, <1>8, <2>2, KeepsForces
<1>14. /\ call'[head].pc = "spawned" /\ call'[head].sub = Fresh
       /\ call'[head].kept = call[head].kept
  BY <1>2, <1>4, <1>9, <1>10, <1>11 DEF Alike
<1>15. base[head] = call[head] /\ base[Fresh].pc = "idle"
  BY <1>2, <1>3, <1>4, <1>8
<1>16. /\ Lives(base[head]) => Lives(call'[head])
       /\ Honours(base[head]) => Honours(call'[head])
  BY <1>14, <1>15 DEF Lives, Honours
<1>17. \A d \in Call : d # head /\ d # Fresh => Keeps(call'[d], base[d])
  BY <1>10, <1>11, AlikeKeeps
<1>18. call'[head].pc \in Parents /\ Lives(call'[Fresh]) /\ call'[Fresh].pc \notin Parents
  BY <1>12, <1>14 DEF Parents, Lives
<1>19. ForceInv(call')
  BY <1>1, <1>2, <1>3, <1>4, <1>8, <1>12, <1>13, <1>14, <1>15, <1>16, <1>17, <1>18, ChildForces
<1>20. \A d \in Call : Stays(call'[d], call[d])
  <2>1. \A d \in Call : d # head /\ d # Fresh /\ d # c => Stays(call'[d], call[d])
    BY <1>8, <1>10, <1>11 DEF Alike, Stays
  <2>2. Stays(call'[head], call[head]) /\ Stays(call'[Fresh], call[Fresh])
        /\ Stays(call'[c], call[c])
    BY <1>1, <1>3, <1>14 DEF Stays
  <2> QED
    BY <2>1, <2>2
<1> QED
  BY <1>19, <1>20, StaysForced

\* A woken call has run if the call made for it has, and its slot is not awaited twice.
LEMMA ResumeForces ==
  ASSUME TypeOK, TypeOK', ServeInv, ForceInv(call), NEW c \in Call, Resume(c)
  PROVE  ForceInv(call') /\ ForcedStep
<1> DEFINE sub == call[c].sub
           base == [call EXCEPT ![sub] = Blank]
           woken == [call[c] EXCEPT !.sub = None, !.ran = @ \/ call[sub].ran]
           fn == [call EXCEPT ![sub] = Blank, ![c] = woken]
<1>1. /\ call \in [Call -> CallRecord] /\ call' \in [Call -> CallRecord]
      /\ call[c] \in CallRecord /\ WaitInv(call, resolveQueue, spawnQueue)
  BY DEF TypeOK, ServeInv, Ready
<1>2. /\ sub \in Call /\ call[sub].pc \in {"resolved", "rejected"}
      /\ call[c].pc \in {"observing", "awaiting", "spawned"} /\ sub # c
  BY DEF Resume, Settled, At
<1>3. call[sub].ran \in BOOLEAN
  BY <1>1, <1>2 DEF CallRecord
<1>4. /\ woken \in CallRecord /\ woken.pc = call[c].pc /\ woken.inTime = call[c].inTime
      /\ woken.kept = call[c].kept /\ woken.ran = (call[c].ran \/ call[sub].ran)
  BY <1>1, <1>3 DEF CallRecord
<1>5. Blank.pc = "idle"
  BY DEF Blank
<1>6. base \in [Call -> CallRecord] /\ fn = [base EXCEPT ![c] = woken]
  BY <1>1, <1>2, BlankType
<1>7. \/ call' = Settle(fn, {c}, "rejected")
      \/ call' = [fn EXCEPT ![c] = [fn[c] EXCEPT !.pc = "completed"]]
      \/ call' = Finish(fn, c)
  BY <1>1, <1>2 DEF Resume
<1>8. \A d \in Call : fn[d] = IF d = c THEN woken ELSE IF d = sub THEN Blank ELSE call[d]
  BY <1>1
<1>9. call[c].pc = "spawned" => call[sub].ran
  <2>1. call[c].pc = "spawned" => Honours(call[sub])
    BY DEF ForceInv
  <2> QED
    BY <1>2, <2>1 DEF Honours
<1>10. \A d \in Call : call[d].pc \in Parents /\ call[d].sub = sub => d = c
  BY <1>2 DEF ForceInv, Parents
<1> HIDE DEF base, woken, fn, sub
<1>11. fn \in [Call -> CallRecord] /\ fn[c] = woken /\ fn[sub] = Blank
  BY <1>2, <1>4, <1>6, <1>8
<1>12. \A d \in fn[c].inTime : fn[d].pc = "onNext" /\ d # sub
  <2>1. \A d \in call[c].inTime : d \in Call /\ call[d].pc = "onNext"
    BY <1>1 DEF WaitInv, CallRecord
  <2>2. \A d \in call[c].inTime : d # c /\ d # sub
    BY <1>2, <2>1
  <2> QED
    BY <1>4, <1>8, <1>11, <2>1, <2>2
<1>13. fn[c].pc \in {"observing", "awaiting", "spawned"}
       /\ (fn[c].pc = "spawned" => fn[c].ran)
  BY <1>2, <1>4, <1>9, <1>11
<1>14. /\ \A d \in Call : /\ Keeps(call'[d], fn[d])
                          /\ d # c => Stays(call'[d], fn[d])
       /\ call'[sub].pc = "idle" /\ call'[c].pc \notin Parents \cup {"toSpawn"}
  <2>1. CASE call' = Settle(fn, {c}, "rejected")
    <3>1. \A d \in Call : /\ Keeps(call'[d], fn[d])
                          /\ d # c => Stays(call'[d], fn[d])
      <4>1. \A d \in Call : d \in {c} /\ fn[d].pc \in {"persisting", "toSpawn", "spawned"}
                              => fn[d].ran
        BY <1>13
      <4> QED
        BY <1>11, <2>1, <4>1, SettleKeeps
    <3>2. call'[sub] = fn[sub] /\ call'[c].pc \in {"idle", "rejected"}
      BY <1>2, <2>1, SettleStep
    <3> QED
      BY <1>5, <1>11, <3>1, <3>2 DEF Parents
  <2>2. CASE call' = [fn EXCEPT ![c] = [fn[c] EXCEPT !.pc = "completed"]]
    <3>1. /\ call'[c].pc = "completed" /\ call'[c].kept = fn[c].kept
          /\ call'[c].ran = fn[c].ran
          /\ \A d \in Call : d # c => call'[d] = fn[d]
      BY <1>11, <2>2, <1>4 DEF CallRecord
    <3>2. Keeps(call'[c], fn[c])
      BY <1>13, <3>1 DEF Keeps, Lives, Honours, Parents
    <3> QED
      BY <1>2, <1>5, <1>11, <3>1, <3>2, AlikeKeeps DEF Alike, Parents
  <2>3. CASE call' = Finish(fn, c)
    <3>1. \A d \in Call : /\ Keeps(call'[d], fn[d])
                          /\ d # c => Stays(call'[d], fn[d])
      BY <1>11, <1>12, <1>13, <2>3, FinishForces
    <3>2. call'[sub] = fn[sub] /\ call'[c].pc \in {"idle", "resolved"}
      BY <1>2, <1>12, <2>3, SettleStep DEF Finish
    <3> QED
      BY <1>5, <1>11, <3>1, <3>2 DEF Parents
  <2> QED
    BY <1>7, <2>1, <2>2, <2>3
<1>15. Keeps(call'[c], call[c])
  <2>1. /\ Lives(call[c]) => Lives(fn[c])
        /\ Honours(call[c]) => Honours(fn[c])
    BY <1>2, <1>4, <1>9, <1>11 DEF Lives, Honours
  <2> QED
    BY <1>14, <2>1 DEF Keeps
<1>16. \A d \in Call : d # sub => Keeps(call'[d], call[d])
  BY <1>8, <1>14, <1>15
<1>17. ForceInv(call')
  BY <1>1, <1>2, <1>10, <1>14, <1>16, ReleaseForces
<1>18. ForcedStep
  <2> SUFFICES ASSUME NEW d \in Call, call[d].pc \in {"toSpawn", "spawned"}, Settles(d)
               PROVE  call[d].pc = "spawned" /\ call[call[d].sub].ran
    BY DEF ForcedStep
  <2>1. CASE d = c
    BY <1>2, <1>9, <2>1 DEF sub
  <2>2. CASE d # c
    <3>1. d # sub /\ fn[d] = call[d]
      BY <1>2, <1>8, <2>2
    <3>2. Stays(call'[d], call[d])
      BY <1>14, <2>2, <3>1
    <3> QED
      BY <3>2 DEF Stays, Settles
  <2> QED
    BY <2>1, <2>2
<1> QED
  BY <1>17, <1>18

\* The steps of a completed call, and of one that is woken.
LEMMA CompletionStepForces ==
  ASSUME TypeOK, TypeOK', ServeInv, ForceInv(call), NEW c \in Call,
         ObserverSync(c) \/ AfterDownloadFirst(c) \/ PopSpawnQueue(c)
           \/ SyncFromResolveQueue(c) \/ SyncMoreDirtyItems(c)
           \/ SyncFromIntegrityCheck(c) \/ EndSync(c) \/ Resume(c)
  PROVE  ForceInv(call') /\ ForcedStep
<1>0. /\ call \in [Call -> CallRecord] /\ call' \in [Call -> CallRecord]
      /\ NoOptions \in Options /\ call[c].opts \in Options
      /\ WaitInv(call, resolveQueue, spawnQueue) /\ ~locked
  BY BlankType DEF TypeOK, CallRecord, ServeInv, Ready
<1>1. CASE ObserverSync(c) \/ AfterDownloadFirst(c) \/ SyncMoreDirtyItems(c)
  <2>1. PICK o, pc : /\ o \in Options
                     /\ pc \in {"observing", "awaiting"}
                     /\ StartAwaited(c, o, pc)
    <3>1. /\ [NoOptions EXCEPT !.integrity = TRUE, !.awaitAll = call[c].opts.awaitAll]
               \in Options
          /\ [NoOptions EXCEPT !.integrity = call[c].opts.integrity,
                               !.awaitAll = call[c].opts.awaitAll] \in Options
      BY <1>0 DEF Options
    <3> QED
      BY <1>0, <1>1, <3>1 DEF ObserverSync, AfterDownloadFirst, SyncMoreDirtyItems
  <2>2. call[c].pc \in {"completed", "popped"}
    BY <1>1 DEF ObserverSync, AfterDownloadFirst, SyncMoreDirtyItems, QueuesHandled
  <2> QED
    BY <1>0, <2>1, <2>2, StartAwaitedForces
<1>2. CASE SyncFromResolveQueue(c) \/ SyncFromIntegrityCheck(c)
  <2>1. PICK o \in Options : StartMaybeAwaited(c, o)
    <3>1. /\ [NoOptions EXCEPT !.integrity = call[c].opts.integrity] \in Options
          /\ [call[c].opts EXCEPT !.strategy = "ForceSpawnNew", !.mode = "Default"]
               \in Options
      BY <1>0 DEF Options, Strategy, Mode
    <3> QED
      BY <1>2, <3>1 DEF SyncFromResolveQueue, SyncFromIntegrityCheck
  <2>2. call[c].pc \in {"completed", "popped"}
    BY <1>2 DEF SyncFromResolveQueue, SyncFromIntegrityCheck, QueuesHandled
  <2> QED
    BY <2>1, <2>2, StartMaybeAwaitedForces
<1>3. CASE EndSync(c)
  <2>1. call' = Finish(call, c) /\ call[c].pc \in {"completed", "popped"}
    BY <1>3 DEF EndSync, QueuesHandled
  <2>2. \A d \in Call : /\ Keeps(call'[d], call[d])
                        /\ d # c => Stays(call'[d], call[d])
    BY <1>0, <2>1, FinishForces DEF WaitInv
  <2>3. Stays(call'[c], call[c])
    BY <2>1 DEF Stays
  <2> QED
    BY <1>0, <2>2, <2>3, KeepsForces, StaysForced
<1> QED
  BY <1>1, <1>2, <1>3, PopForces, ResumeForces

\* The steps of the callers and of the events around them.
LEMMA SurroundingsForces ==
  ASSUME Orderly, TypeOK, TypeOK', ServeInv, ForceInv(call), Surroundings
  PROVE  ForceInv(call') /\ ForcedStep
<1>0. /\ call \in [Call -> CallRecord] /\ spawnQueue \in Seq(Call)
      /\ NoOptions \in Options /\ ~locked
  BY BlankType DEF TypeOK, ServeInv, Ready
<1>1. ASSUME NEW o \in Options, Room, StartSync(Fresh, o, FALSE, call, spawnQueue)
      PROVE  ForceInv(call') /\ ForcedStep
  <2>1. Fresh \in Call /\ call[Fresh].pc = "idle"
    BY RoomIsFree, FreshIsFree, <1>1 DEF Free, At
  <2>2. \A d \in Call : Stays(call[d], call[d])
    BY DEF Stays
  <2> QED
    BY <1>0, <1>1, <2>1, <2>2, StartForces
<1>2. ASSUME NEW o \in ExternalOptions, ExternalSync(o)
      PROVE  ForceInv(call') /\ ForcedStep
  BY <1>1, <1>2, OptionsAssumption DEF ExternalSync
<1>3. CASE LaunchSync
  <2>1. [NoOptions EXCEPT !.mode = "DownloadFirst"] \in Options
    BY <1>0 DEF Options, Mode
  <2> QED
    BY <1>1, <1>3, <2>1 DEF LaunchSync
<1>4. CASE AutoSync
  BY <1>0, <1>1, <1>4 DEF AutoSync
<1>5. CASE LoadDatabase \/ Edit \/ Diverge
  <2>1. call' = call
    BY <1>5 DEF LoadDatabase, Edit, Diverge
  <2>2. \A d \in Call : Stays(call'[d], call[d])
    BY <2>1 DEF Stays
  <2> QED
    BY <2>1, <2>2, StaysForced
<1>6. ~Lock /\ ~Unlock /\ ~SignIn /\ ~SignInLoop
  BY DEF Orderly, Lock, Unlock, SignIn, SignInLoop, SignInAnswered, SignedIn,
     TryDownloadFirst, CheckDownloadFirst, ServeInv
<1> QED
  BY <1>2, <1>3, <1>4, <1>5, <1>6 DEF Surroundings

LEMMA ForceInvInit == Init => ForceInv(call)
<1> SUFFICES ASSUME Init PROVE ForceInv(call)
  OBVIOUS
<1>1. \A c \in Call : call[c].pc = "idle"
  BY DEF Init, Blank
<1> QED
  BY <1>1 DEF ForceInv, Parents

LEMMA ForceInvNext ==
  ASSUME Orderly
  PROVE  TypeOK /\ LockInv /\ ServeInv /\ ForceInv(call) /\ TypeOK' /\ [Next]_vars
           => ForceInv(call)' /\ ForcedStep
<1> SUFFICES ASSUME TypeOK, LockInv, ServeInv, ForceInv(call), TypeOK', [Next]_vars
             PROVE  ForceInv(call') /\ ForcedStep
  BY DEF ForceInv, Lives, Honours, Forces
<1>1. ASSUME NEW c \in Call, Continue(c) PROVE ForceInv(call') /\ ForcedStep
  BY <1>1, CompletionStepForces DEF Continue
<1>2. ASSUME NEW c \in Call, Event(c) PROVE ForceInv(call') /\ ForcedStep
  <2>1. ~Throw(c)
    BY DEF Orderly, Throw
  <2> QED
    BY <1>2, <2>1, RequestStepForces, CompletionStepForces DEF Event
<1>3. CASE Surroundings
  BY <1>3, SurroundingsForces
<1>4. CASE UNCHANGED vars
  <2>1. call' = call
    BY <1>4 DEF vars
  <2>2. \A d \in Call : Stays(call'[d], call[d])
    BY <2>1 DEF Stays
  <2> QED
    BY <2>1, <2>2, StaysForced
<1> QED
  BY <1>1, <1>2, <1>3, <1>4 DEF Next, Step

(***************************************************************************)
(* ForcedRequestIsMade holds of the same behaviours: a caller that forced  *)
(* a request of its own is not answered before it was popped from the      *)
(* spawn queue and the call made for it, or one made for that call in      *)
(* turn, has made a request.                                               *)
(***************************************************************************)
THEOREM ForcedCallersAreHonoured ==
  ASSUME Orderly
  PROVE  Spec => ForcedRequestIsMade
<1>1. Spec => []LockInv
  BY TypeCorrect, LockInvInit, LockInvNext, PTL DEF Spec
<1>2. TypeOK /\ LockInv /\ ServeInv /\ ForceInv(call) /\ TypeOK' /\ [Next]_vars
        => [\A c \in Call : (call[c].pc \in {"toSpawn", "spawned"} /\ Settles(c))
              => call[c].pc = "spawned" /\ call[call[c].sub].ran]_vars
  BY ForceInvNext DEF ForcedStep
<1> QED
  BY <1>1, <1>2, TypeCorrect, ServeInvInit, ServeInvNext, ForceInvInit, ForceInvNext, PTL
     DEF Spec, ForcedRequestIsMade
===============================================================================
