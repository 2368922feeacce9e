------------------------------ MODULE SyncQueue ------------------------------
(*****************************************************************************)
(* The control of SNSyncService.sync(): which of the concurrent calls runs   *)
(* a request, which wait in resolveQueue or spawnQueue, what a finished      *)
(* request starts next, and which promises it settles.                       *)
(*                                                                           *)
(* JavaScript runs one callback at a time, so a step is the code between     *)
(* two awaits that really wait: for storage, for the server, for observers,  *)
(* for another call of sync().  An await that only passes through the        *)
(* microtask queue lets no I/O event in: it does not end a step, or, where a *)
(* promise's settling wakes another call, that call goes on before the next  *)
(* event (Continuing).                                                       *)
(*                                                                           *)
(* Data is abstracted to one bit: whether the item manager has dirty items.  *)
(*****************************************************************************)
EXTENDS Naturals, FiniteSets, SequencesExt

CONSTANTS
  Call,            \* the slots for invocations of sync() that have not ended
  None,            \* stands for no call
  ExternalOptions, \* the options that callers outside the service pass
  OnlineAtLaunch,  \* whether a session is restored from disk: a set of Booleans
  Env,             \* what the environment does, a subset of Environment
  MaxCalls,        \* bound: external calls of sync()
  MaxEdits,        \* bound: steps that leave dirty items behind
  MaxFaults,       \* bound: failed requests and exceptions
  MaxPages,        \* bound: extra round trips of the operations
  MaxFlips,        \* bound: times the data starts or stops to differ
  MaxObserverSyncs,\* bound: calls of sync() awaited by an observer
  MaxDiscordance,  \* maxDiscordance, 5 in the code
  MaxTries,        \* maxTries of downloadFirstSync, 5 in the code
  Spare            \* bound: free slots an external call leaves to internal ones

(***************************************************************************)
(* "fail": the server answers with an error.  "throw": processing a        *)
(* response throws.  "lock": some caller holds the hard lock for a while.  *)
(* "reorder": storage completes writes out of order.  "timer": autosync.   *)
(* "signIn": the user signs in while the application runs.                 *)
(***************************************************************************)
Environment == {"fail", "throw", "lock", "reorder", "timer", "signIn"}

Strategy == {"ResolveOnNext", "ForceSpawnNew"}
Mode == {"Default", "DownloadFirst"}
Options == [strategy : Strategy, mode : Mode, integrity : BOOLEAN, awaitAll : BOOLEAN]

ASSUME CallAssumption == None \notin Call
ASSUME OptionsAssumption == ExternalOptions \subseteq Options
ASSUME EnvAssumption == Env \subseteq Environment /\ OnlineAtLaunch \subseteq BOOLEAN
ASSUME BoundAssumption ==
  /\ {MaxCalls, MaxEdits, MaxFaults, MaxPages, MaxFlips, MaxObserverSyncs,
       Spare} \subseteq Nat
  /\ {MaxDiscordance, MaxTries} \subseteq Nat \ {0}

VARIABLES
  locked,        \* the hard lock
  launch,        \* "loading", then "loaded", then "launched"
  online,        \* sessionManager.online()
  syncLock,      \* a call has begun preparing its request
  syncing,       \* opStatus.syncing
  error,         \* opStatus.error is set
  completedOnlineDownloadFirstSync,
  discordance,   \* SyncState.discordance
  dirty,         \* itemManager has dirty items
  dirtiedSince,  \* some of them were dirtied after the running call read them
  resolveQueue,  \* the calls whose promises wait for the next request
  spawnQueue,    \* the calls that each wait for a request of their own
  writes,        \* the calls with a write in storage, in the order issued
  call,          \* the record of each slot
  firstSync,     \* downloadFirstSync, as signing in runs it
  differs,       \* the client's integrity hash is not the server's
  left           \* what remains of the bounds

queues == <<resolveQueue, spawnQueue>>
locks == <<syncLock, syncing, error>>
service == <<locked, launch, online, completedOnlineDownloadFirstSync, discordance>>
vars == <<locks, service, dirty, dirtiedSince, queues, writes, call, firstSync,
          differs, left>>

PC == {"idle", "persisting", "onNext", "toSpawn", "spawned", "beginning", "preparing",
       "sent", "mapping", "saving", "completed", "observing", "popped", "awaiting",
       "resolved", "rejected"}

NoOptions == [strategy |-> "ResolveOnNext", mode |-> "Default",
              integrity |-> FALSE, awaitAll |-> FALSE]

(***************************************************************************)
(* A slot: the step the call is at; its options; whether it found dirty    *)
(* items on entry; whether its entry checks, read once, let it run; the    *)
(* kind and mode of its operation; inTimeResolveQueue; the call it awaits; *)
(* whether its caller keeps its promise.  Three fields are history for the *)
(* properties: the waiting calls whose edits were dirty when it read the   *)
(* dirty items, whether the call's own edits have been part of a request,  *)
(* whether it ran a request.                                               *)
(***************************************************************************)
CallRecord ==
  [pc : PC, opts : Options, items : BOOLEAN, runs : BOOLEAN, account : BOOLEAN, mode : Mode,
   inTime : SUBSET Call, sub : Call \cup {None}, kept : BOOLEAN,
   snap : SUBSET Call, sent : BOOLEAN, ran : BOOLEAN]

Blank ==
  [pc |-> "idle", opts |-> NoOptions, items |-> FALSE, runs |-> FALSE, account |-> FALSE,
   mode |-> "Default", inTime |-> {}, sub |-> None, kept |-> FALSE,
   snap |-> {}, sent |-> FALSE, ran |-> FALSE]

At(pc) == {c \in Call : call[c].pc = pc}
Free == At("idle")
Fresh == CHOOSE c \in Free : TRUE
Settled == At("resolved") \cup At("rejected")

\* The calls between captureLock and releaseLock.
Holder == {c \in Call : /\ call[c].runs
                        /\ call[c].pc \in {"persisting", "beginning", "preparing",
                                           "sent", "mapping", "saving"}}

databaseLoaded == launch # "loading"

needsSync == discordance > 0 /\ discordance < MaxDiscordance

(***************************************************************************)
(* The promises of the calls in S settle.  A promise nobody keeps is       *)
(* forgotten, and its slot is free.                                        *)
(***************************************************************************)
Settle(fn, S, outcome) ==
  [c \in Call |->
     IF c \notin S THEN fn[c]
     ELSE IF fn[c].kept
          THEN [Blank EXCEPT !.pc = outcome, !.kept = TRUE, !.ran = fn[c].ran]
          ELSE Blank]

\* Variant with a bug: the in-time callbacks are not called.
FinishSelf(fn, c) == Settle(fn, {c}, "resolved")

\* The last statement of sync(): settle the in-time callbacks and the call itself.
Finish(fn, c) == Settle(fn, fn[c].inTime \cup {c}, "resolved")

-----------------------------------------------------------------------------
(***************************************************************************)
(* The entry of sync().                                                    *)
(***************************************************************************)

\* After the pre-sync save: run, or queue by strategy.  q is the spawn queue by now.
Arrive(c, r, fn, q) ==
  \/ /\ r.runs
     /\ syncing' = TRUE
     /\ call' = [fn EXCEPT ![c] = [r EXCEPT !.pc = "beginning", !.ran = TRUE,
                                            !.inTime = resolveQueue,
                                            !.sent = TRUE]]
     /\ spawnQueue' = q
     /\ UNCHANGED resolveQueue
  \/ /\ ~r.runs
     /\ r.opts.strategy = "ResolveOnNext"
     /\ resolveQueue' = resolveQueue \cup {c}
     /\ call' = [fn EXCEPT ![c] = [Blank EXCEPT !.pc = "onNext", !.kept = r.kept,
                                                !.sent = r.sent]]
     /\ spawnQueue' = q
     /\ UNCHANGED syncing
  \/ /\ ~r.runs
     /\ r.opts.strategy = "ForceSpawnNew"
     /\ spawnQueue' = Append(q, c)
     /\ LET queued == [r.opts EXCEPT !.awaitAll = FALSE]
        IN call' = [fn EXCEPT ![c] = [Blank EXCEPT !.pc = "toSpawn", !.kept = r.kept,
                                                   !.opts = queued]]
     /\ UNCHANGED <<syncing, resolveQueue>>

\* Variant with a bug: the lock taken before is not looked at.
MayRunUnlocked == databaseLoaded /\ ~syncing

\* canExecuteSync, databaseLoaded and not syncInProgress.
MayRun == databaseLoaded /\ ~syncing /\ ~syncLock

\* The condition of captureLock().
Captures == MayRun

\* The waiting calls with edits among the dirty items that no request carried yet.
Unsent(fn) == {d \in Call : fn[d].pc \in {"persisting", "onNext"} /\ ~fn[d].sent}

\* sync(o), up to its first wait.  fn and q are call and spawnQueue with the caller's
\* own step applied; kept tells whether the caller keeps the promise.
StartSync(c, o, kept, fn, q) ==
  \/ /\ locked
     /\ call' = [fn EXCEPT ![c] = IF kept THEN [Blank EXCEPT !.pc = "resolved",
                                                             !.kept = TRUE]
                                          ELSE Blank]
     /\ spawnQueue' = q
     /\ UNCHANGED <<locks, dirtiedSince, resolveQueue, writes>>
  \/ /\ ~locked
     /\ LET runs == MayRun
            old == [d \in Call |-> [fn[d] EXCEPT !.snap = @ \ {c}]]
            r == [Blank EXCEPT !.opts = o, !.items = dirty, !.runs = runs, !.kept = kept,
                               !.sent = ~dirty,
                               !.snap = IF runs THEN Unsent(fn) ELSE {}]
        IN /\ syncLock' = (syncLock \/ Captures)
           /\ dirtiedSince' = (dirtiedSince /\ ~runs)
           /\ \/ /\ dirty
                 /\ call' = [old EXCEPT ![c] = [r EXCEPT !.pc = "persisting"]]
                 /\ writes' = Append(writes, c)
                 /\ spawnQueue' = q
                 /\ UNCHANGED <<syncing, resolveQueue>>
              \/ /\ ~dirty
                 /\ Arrive(c, r, old, q)
                 /\ UNCHANGED writes
     /\ UNCHANGED error

\* Storage completes the write c waits for: the oldest, unless writes may overtake.
WriteDone(c) ==
  \E i \in DOMAIN writes :
    /\ writes[i] = c
    /\ "reorder" \in Env \/ i = 1
    /\ writes' = RemoveAt(writes, i)

Persisted(c) ==
  /\ call[c].pc = "persisting"
  /\ WriteDone(c)
  /\ Arrive(c, call[c], call, spawnQueue)
  /\ UNCHANGED <<syncLock, error, service, dirty, dirtiedSince, firstSync, differs, left>>

-----------------------------------------------------------------------------
(***************************************************************************)
(* The call that runs: from opStatus.setDidBegin to the server's answer.   *)
(***************************************************************************)

\* Variant with a bug: the first online sync may upload.
UseRequestedMode(o) == o.mode

UseMode(o) ==
  IF online /\ ~completedOnlineDownloadFirstSync THEN "DownloadFirst" ELSE o.mode

\* subtractFromArray(this.resolveQueue, inTimeResolveQueue)
RemainingQueue(c) == resolveQueue \ call[c].inTime

\* Variant with a bug: the queue is sliced only now, after the dirty items were read.
BeginSyncSlicingLate(c) ==
  /\ call[c].pc = "beginning"
  /\ resolveQueue' = {}
  /\ call' = [call EXCEPT ![c] = [@ EXCEPT !.pc = "preparing", !.account = online,
                                         !.mode = UseMode(call[c].opts),
                                         !.inTime = resolveQueue]]
  /\ UNCHANGED <<locks, service, dirty, dirtiedSince, spawnQueue, writes,
                 firstSync, differs, left>>

\* The observers of SyncWillBegin are done; the in-time callbacks leave the queue.
BeginSync(c) ==
  /\ call[c].pc = "beginning"
  /\ resolveQueue' = RemainingQueue(c)
  /\ call' = [call EXCEPT ![c] = [@ EXCEPT !.pc = "preparing", !.account = online,
                                         !.mode = UseMode(call[c].opts)]]
  /\ UNCHANGED <<locks, service, dirty, dirtiedSince, spawnQueue, writes,
                 firstSync, differs, left>>

\* Payloads are encrypted and the tokens read; operation.run() sends the request.
Send(c) ==
  /\ call[c].pc = "preparing"
  /\ call' = [d \in Call |->
                IF d = c THEN [call[c] EXCEPT !.pc = "sent", !.snap = {}, !.sent = TRUE]
                ELSE IF d \in call[c].snap /\ call[c].mode = "Default"
                THEN [call[d] EXCEPT !.sent = TRUE]
                ELSE call[d]]
  /\ UNCHANGED <<locks, service, dirty, dirtiedSince, queues, writes,
                 firstSync, differs, left>>

\* Variant with a bug: a failed request returns before it releases the lock.
KeepLockOnError(c, failed) ==
  /\ syncing' = FALSE
  /\ syncLock' = failed
  /\ error' = failed
  /\ call' = IF failed THEN Settle(call, {c}, "resolved")
             ELSE [call EXCEPT ![c].pc = "completed"]
  /\ UNCHANGED <<locked, launch, online, completedOnlineDownloadFirstSync>>

\* operation.run() returned: release, and stop here if the operation ended in error.
EndOperation(c, failed) ==
  /\ syncing' = FALSE
  /\ syncLock' = FALSE
  /\ error' = failed
  /\ \/ /\ failed
        /\ call' = Settle(call, {c}, "resolved")
        /\ UNCHANGED completedOnlineDownloadFirstSync
     \/ /\ ~failed
        /\ call' = [call EXCEPT ![c] = [@ EXCEPT !.pc = "completed", !.items = FALSE]]
        /\ completedOnlineDownloadFirstSync' =
             (completedOnlineDownloadFirstSync
                \/ (call[c].account /\ call[c].mode = "DownloadFirst"))
  /\ UNCHANGED <<locked, launch, online>>

\* handleErrorServerResponse.  An error carries no cursor, so only an upload that has
\* payloads left goes on; the error stays set until a later page succeeds.
Fail(c) ==
  /\ "fail" \in Env
  /\ left.faults > 0
  /\ call[c].pc = "sent"
  /\ call[c].account
  /\ \/ /\ call[c].items /\ call[c].mode = "Default" /\ left.pages > 0
        /\ error' = TRUE
        /\ left' = [left EXCEPT !.faults = @ - 1, !.pages = @ - 1]
        /\ UNCHANGED <<syncLock, syncing, call, completedOnlineDownloadFirstSync,
                       locked, launch, online>>
     \/ /\ EndOperation(c, TRUE)
        /\ left' = [left EXCEPT !.faults = @ - 1]
  /\ UNCHANGED <<discordance, dirty, dirtiedSince, queues, writes, firstSync, differs>>

\* A collection of payloads is mapped and being saved, and it is not the last one of
\* the operation: the page has others, payloads are pending, or there is a cursor.
AnswerPart(c) ==
  /\ call[c].pc = "sent"
  /\ call[c].account
  /\ left.pages > 0
  /\ call' = [call EXCEPT ![c].pc = "mapping"]
  /\ writes' = Append(writes, c)
  /\ error' = FALSE
  /\ left' = [left EXCEPT !.pages = @ - 1]
  /\ UNCHANGED <<syncLock, syncing, service, dirty, dirtiedSince, queues, firstSync,
                 differs>>

Mapped(c) ==
  /\ call[c].pc = "mapping"
  /\ WriteDone(c)
  /\ call' = [call EXCEPT ![c].pc = "sent"]
  /\ UNCHANGED <<locks, service, dirty, dirtiedSince, queues, firstSync, differs, left>>

\* Variant with a bug: that the data differs is noted, not how often.
SetIntegrityHashesOnce(c) ==
  discordance' =
    IF ~(call[c].account /\ call[c].opts.integrity) THEN discordance
    ELSE IF differs THEN 1 ELSE 0

\* What SyncState.setIntegrityHashes makes of equal and of different hashes.
SetIntegrityHashes(c) ==
  discordance' =
    IF ~(call[c].account /\ call[c].opts.integrity) THEN discordance
    ELSE IF differs THEN discordance + 1 ELSE 0

\* What mapping the last payloads leaves dirty: edits made meanwhile, and conflicts.
DirtyAfter(c) ==
  LET kept == IF call[c].mode = "Default" THEN dirtiedSince ELSE dirty
  IN \/ dirty' = kept /\ left' = left
     \/ ~kept /\ left.edits > 0 /\ dirty' = TRUE
        /\ left' = [left EXCEPT !.edits = @ - 1]

\* The last success response arrives, with payloads to map and save or without any.
\* What was uploaded comes back as saved or in conflict, so an upload has some.
Answer(c) ==
  /\ call[c].pc = "sent"
  /\ \/ /\ call' = [call EXCEPT ![c] = [@ EXCEPT !.pc = "saving", !.items = FALSE]]
        /\ writes' = Append(writes, c)
        /\ error' = FALSE
        /\ DirtyAfter(c)
        /\ UNCHANGED <<syncLock, syncing, service>>
     \/ /\ ~(call[c].items /\ call[c].mode = "Default")
        /\ SetIntegrityHashes(c)
        /\ EndOperation(c, FALSE)
        /\ UNCHANGED <<writes, dirty, left>>
  /\ UNCHANGED <<dirtiedSince, queues, firstSync, differs>>

Saved(c) ==
  /\ call[c].pc = "saving"
  /\ WriteDone(c)
  /\ SetIntegrityHashes(c)
  /\ EndOperation(c, FALSE)
  /\ UNCHANGED <<dirty, dirtiedSince, queues, firstSync, differs, left>>

\* An exception leaves operation.run(): nothing after it in sync() is executed.
Throw(c) ==
  /\ "throw" \in Env
  /\ left.faults > 0
  /\ call[c].pc = "sent"
  /\ error' = FALSE
  /\ call' = Settle(call, {c}, "rejected")
  /\ left' = [left EXCEPT !.faults = @ - 1]
  /\ UNCHANGED <<syncLock, syncing, service, dirty, dirtiedSince, queues, writes,
                 firstSync, differs>>

-----------------------------------------------------------------------------
(***************************************************************************)
(* What a completed request does next.  Each of these calls sync() itself. *)
(***************************************************************************)

\* c awaits the call it starts with options o, at program point pc.
StartAwaited(c, o, pc) ==
  /\ Free # {}
  /\ StartSync(Fresh, o, TRUE, [call EXCEPT ![c] = [@ EXCEPT !.pc = pc, !.sub = Fresh]],
               spawnQueue)
  /\ UNCHANGED <<service, dirty, firstSync, differs>>

\* c starts a call it awaits only if its caller asked for that.
StartMaybeAwaited(c, o) ==
  \/ call[c].opts.awaitAll /\ StartAwaited(c, o, "awaiting")
  \/ /\ ~call[c].opts.awaitAll
     /\ Free # {}
     /\ StartSync(Fresh, o, FALSE, Finish(call, c), spawnQueue)
     /\ UNCHANGED <<service, dirty, firstSync, differs>>

\* An observer of the completion event awaits a sync() of its own.
ObserverSync(c) ==
  /\ call[c].pc = "completed"
  /\ left.observers > 0
  /\ StartAwaited(c, NoOptions, "observing")
  /\ left' = [left EXCEPT !.observers = @ - 1]

AfterDownloadFirst(c) ==
  /\ call[c].pc = "completed"
  /\ call[c].mode = "DownloadFirst"
  /\ StartAwaited(c, [NoOptions EXCEPT !.integrity = TRUE,
                                       !.awaitAll = call[c].opts.awaitAll], "awaiting")
  /\ UNCHANGED left

\* Variant with a bug: the promise is resolved when the call made for it starts.
PopSpawnQueueNow(c) ==
  /\ call[c].pc = "completed"
  /\ call[c].mode = "Default"
  /\ spawnQueue # <<>>
  /\ Free # {}
  /\ LET head == Head(spawnQueue)
     IN StartSync(Fresh, call[head].opts, FALSE,
                  Settle([call EXCEPT ![c].pc = "popped"], {head}, "resolved"),
                  Tail(spawnQueue))
  /\ UNCHANGED <<service, dirty, firstSync, differs, left>>

\* popSpawnQueue: the head's promise follows the call made on its behalf.
PopSpawnQueue(c) ==
  /\ call[c].pc = "completed"
  /\ call[c].mode = "Default"
  /\ spawnQueue # <<>>
  /\ Free # {}
  /\ LET head == Head(spawnQueue)
     IN StartSync(Fresh, call[head].opts, TRUE,
                  [call EXCEPT ![c].pc = "popped",
                               ![head] = [@ EXCEPT !.pc = "spawned", !.sub = Fresh]],
                  Tail(spawnQueue))
  /\ UNCHANGED <<service, dirty, firstSync, differs, left>>

\* Promises wait and nothing was spawned.
SyncFromResolveQueue(c) ==
  /\ call[c].pc = "completed"
  /\ call[c].mode = "Default"
  /\ spawnQueue = <<>>
  /\ resolveQueue # {}
  /\ StartMaybeAwaited(c, [NoOptions EXCEPT !.integrity = call[c].opts.integrity])
  /\ UNCHANGED left

\* Variant with a bug: only the spawn queue is looked at.
SpawnQueueHandled(c) ==
  \/ call[c].pc = "popped"
  \/ call[c].pc = "completed" /\ call[c].mode = "Default" /\ spawnQueue = <<>>

\* The test on the queues failed; popSpawnQueue having spawned a call fails it too.
QueuesHandled(c) ==
  \/ call[c].pc = "popped"
  \/ /\ call[c].pc = "completed"
     /\ call[c].mode = "Default"
     /\ spawnQueue = <<>>
     /\ resolveQueue = {}

SyncMoreDirtyItems(c) ==
  /\ QueuesHandled(c)
  /\ dirty
  /\ StartAwaited(c, [NoOptions EXCEPT !.integrity = call[c].opts.integrity,
                                       !.awaitAll = call[c].opts.awaitAll], "awaiting")
  /\ UNCHANGED left

\* The operation checked integrity, and the data still differs.
RetriesIntegrity(c) == call[c].account /\ call[c].opts.integrity /\ needsSync

SyncFromIntegrityCheck(c) ==
  /\ QueuesHandled(c)
  /\ ~dirty
  /\ RetriesIntegrity(c)
  /\ StartMaybeAwaited(c, [call[c].opts EXCEPT !.strategy = "ForceSpawnNew",
                                               !.mode = "Default"])
  /\ UNCHANGED left

EndSync(c) ==
  /\ QueuesHandled(c)
  /\ ~dirty
  /\ ~RetriesIntegrity(c)
  /\ call' = Finish(call, c)
  /\ UNCHANGED <<locks, service, dirty, dirtiedSince, queues, writes,
                 firstSync, differs, left>>

(***************************************************************************)
(* A promise that a call awaits has settled.  A rejection leaves sync() at *)
(* the await, so the in-time callbacks are not reached.                    *)
(***************************************************************************)
Resume(c) ==
  /\ call[c].pc \in {"observing", "awaiting", "spawned"}
  /\ call[c].sub \in Settled
  /\ LET sub == call[c].sub
         fn == [call EXCEPT ![sub] = Blank,
                            ![c] = [call[c] EXCEPT !.sub = None,
                                                   !.ran = @ \/ call[sub].ran]]
     IN call' = IF call[sub].pc = "rejected" THEN Settle(fn, {c}, "rejected")
                ELSE IF call[c].pc = "observing"
                THEN [fn EXCEPT ![c].pc = "completed"]
                ELSE Finish(fn, c)
  /\ UNCHANGED <<locks, service, dirty, dirtiedSince, queues, writes,
                 firstSync, differs, left>>

-----------------------------------------------------------------------------
(***************************************************************************)
(* The callers, and the events around them.                                *)
(***************************************************************************)

\* Room for a call from outside and for those it causes.
Room == Cardinality(Free) > Spare

ExternalSync(o) ==
  /\ left.calls > 0
  /\ Room
  /\ StartSync(Fresh, o, FALSE, call, spawnQueue)
  /\ left' = [left EXCEPT !.calls = @ - 1]
  /\ UNCHANGED <<service, dirty, firstSync, differs>>

\* loadDatabasePayloads ends, then the stage handlers run, then the launch syncs.
LoadDatabase ==
  /\ launch = "loading"
  /\ launch' = "loaded"
  /\ UNCHANGED <<locked, online, completedOnlineDownloadFirstSync, discordance, locks,
                 dirty, dirtiedSince, queues, writes, call, firstSync, differs, left>>

LaunchSync ==
  /\ launch = "loaded"
  /\ Room
  /\ launch' = "launched"
  /\ StartSync(Fresh, [NoOptions EXCEPT !.mode = "DownloadFirst"], FALSE, call, spawnQueue)
  /\ UNCHANGED <<locked, online, completedOnlineDownloadFirstSync, discordance,
                 dirty, firstSync, differs, left>>

\* Some item is changed.
Edit ==
  /\ left.edits > 0
  /\ dirty' = TRUE
  /\ dirtiedSince' = TRUE
  /\ left' = [left EXCEPT !.edits = @ - 1]
  /\ UNCHANGED <<locks, service, queues, writes, call, firstSync, differs>>

\* A promise that nobody is going to settle.
Lost(c) ==
  /\ call[c].pc = "onNext"
  /\ c \notin resolveQueue
  /\ \A d \in Call : c \notin call[d].inTime

\* Another client writes to the account, or an operation evens out a difference.
Diverge ==
  /\ left.flips > 0
  /\ differs' = ~differs
  /\ left' = [left EXCEPT !.flips = @ - 1]
  /\ UNCHANGED <<locks, service, dirty, dirtiedSince, queues, writes, call, firstSync>>

\* The calls that something other than a call of sync() is going to wake.
AtWork == {c \in Call : call[c].pc \in {"persisting", "beginning", "preparing", "sent",
                                        "mapping", "saving", "completed", "popped"}}
Resting == AtWork = {}

\* The autosync interval elapses.  Bound: only when no call is at work; at another time
\* the call would queue like one of ExternalSync.
AutoSync ==
  /\ "timer" \in Env
  /\ launch = "launched"
  /\ Resting
  /\ Room
  /\ StartSync(Fresh, NoOptions, FALSE, call, spawnQueue)
  /\ UNCHANGED <<service, dirty, firstSync, differs, left>>

\* A password change, or another that holds the hard lock for a while.
Lock ==
  /\ "lock" \in Env
  /\ ~locked
  /\ locked' = TRUE
  /\ UNCHANGED <<launch, online, completedOnlineDownloadFirstSync, discordance, locks,
                 dirty, dirtiedSince, queues, writes, call, firstSync, differs, left>>

Unlock ==
  /\ "lock" \in Env
  /\ locked
  /\ locked' = FALSE
  /\ UNCHANGED <<launch, online, completedOnlineDownloadFirstSync, discordance, locks,
                 dirty, dirtiedSince, queues, writes, call, firstSync, differs, left>>

SignIn ==
  /\ "signIn" \in Env
  /\ firstSync.pc = "signedOut"
  /\ ~online
  /\ locked' = TRUE
  /\ firstSync' = [firstSync EXCEPT !.pc = "signingIn"]
  /\ UNCHANGED <<launch, online, completedOnlineDownloadFirstSync, discordance, locks,
                 dirty, dirtiedSince, queues, writes, call, differs, left>>

\* The server answers the sign-in request.
SignInAnswered(ok) ==
  /\ firstSync.pc = "signingIn"
  /\ locked' = ok
  /\ online' = ok
  /\ discordance' = IF ok THEN 0 ELSE discordance
  /\ firstSync' = [firstSync EXCEPT !.pc = IF ok THEN "signedIn" ELSE "done"]
  /\ UNCHANGED <<launch, completedOnlineDownloadFirstSync, locks, dirty, dirtiedSince,
                 queues, writes, call, differs, left>>

\* The local items are marked dirty, to be merged into the account, or dropped.
SignedIn(mergeLocal) ==
  /\ firstSync.pc = "signedIn"
  /\ locked' = FALSE
  /\ dirty' = mergeLocal
  /\ dirtiedSince' = mergeLocal
  /\ firstSync' = [firstSync EXCEPT !.pc = "trying"]
  /\ UNCHANGED <<launch, online, completedOnlineDownloadFirstSync, discordance, locks,
                 queues, writes, call, differs, left>>

\* One iteration of downloadFirstSync calls sync() and awaits it.
TryDownloadFirst(o) ==
  /\ firstSync.pc = "trying"
  /\ Room
  /\ firstSync' = [pc |-> "waiting", tries |-> firstSync.tries + 1, sub |-> Fresh]
  /\ LET opts == [o EXCEPT !.mode = "DownloadFirst", !.strategy = "ForceSpawnNew"]
     IN StartSync(Fresh, opts, TRUE, call, spawnQueue)
  /\ UNCHANGED <<service, dirty, differs, left>>

OutOfTries == firstSync.tries >= MaxTries

CheckDownloadFirst ==
  /\ firstSync.pc = "waiting"
  /\ firstSync.sub \in Settled
  /\ call' = [call EXCEPT ![firstSync.sub] = Blank]
  /\ firstSync' = [firstSync EXCEPT
                     !.sub = None,
                     !.pc = IF completedOnlineDownloadFirstSync \/ OutOfTries
                            THEN "done" ELSE "trying"]
  /\ UNCHANGED <<locks, service, dirty, dirtiedSince, queues, writes, differs, left>>

-----------------------------------------------------------------------------
Init ==
  /\ locked = FALSE
  /\ launch = "loading"
  /\ online \in OnlineAtLaunch
  /\ syncLock = FALSE
  /\ syncing = FALSE
  /\ error = FALSE
  /\ completedOnlineDownloadFirstSync = FALSE
  /\ discordance = 0
  /\ dirty \in BOOLEAN
  /\ dirtiedSince = FALSE
  /\ resolveQueue = {}
  /\ spawnQueue = <<>>
  /\ writes = <<>>
  /\ call = [c \in Call |-> Blank]
  /\ firstSync = [pc |-> "signedOut", tries |-> 0, sub |-> None]
  /\ differs \in BOOLEAN
  /\ left = [calls |-> MaxCalls, edits |-> MaxEdits, faults |-> MaxFaults,
             pages |-> MaxPages, flips |-> MaxFlips,
             observers |-> MaxObserverSyncs]

\* The calls that go on in the microtask queue, before any other event.
Continuing == {c \in Call : call[c].pc = "popped" \/ call[c].sub \in Settled}

Continue(c) ==
  /\ c \in Continuing
  /\ \/ SyncMoreDirtyItems(c)
     \/ SyncFromIntegrityCheck(c)
     \/ EndSync(c)
     \/ Resume(c)

\* What storage, the server or the observers let call c do.
Event(c) ==
  \/ Persisted(c)
  \/ BeginSync(c)
  \/ Send(c)
  \/ Fail(c)
  \/ AnswerPart(c)
  \/ Mapped(c)
  \/ Answer(c)
  \/ Saved(c)
  \/ Throw(c)
  \/ ObserverSync(c)
  \/ AfterDownloadFirst(c)
  \/ PopSpawnQueue(c)
  \/ SyncFromResolveQueue(c)
  \/ SyncMoreDirtyItems(c)
  \/ SyncFromIntegrityCheck(c)
  \/ EndSync(c)

Step(c) == Continue(c) \/ (Continuing = {} /\ Event(c))

SignInLoop ==
  \/ \E ok \in BOOLEAN : SignInAnswered(ok)
  \/ \E mergeLocal \in BOOLEAN : SignedIn(mergeLocal)
  \/ \E o \in ExternalOptions : TryDownloadFirst(o)
  \/ CheckDownloadFirst

Surroundings ==
  \/ \E o \in ExternalOptions : ExternalSync(o)
  \/ LoadDatabase
  \/ LaunchSync
  \/ Edit
  \/ Diverge
  \/ AutoSync
  \/ Lock
  \/ Unlock
  \/ SignIn
  \/ SignInLoop

Next ==
  \/ \E c \in Call : Step(c)
  \/ Continuing = {} /\ Surroundings

Spec == Init /\ [][Next]_vars

(***************************************************************************)
(* Fairness: as long as a write, a request, an observer, the launch or the *)
(* interval is pending, something pending happens.  Nothing says what      *)
(* happens first, and nothing makes a user call sync(), edit, sign in or   *)
(* take the hard lock.                                                     *)
(***************************************************************************)
Progress ==
  \/ \E c \in Call : Step(c)
  \/ /\ Continuing = {}
     /\ LoadDatabase \/ LaunchSync \/ AutoSync \/ Unlock \/ SignInLoop

Fairness == WF_vars(Progress)

FairSpec == Spec /\ Fairness

-----------------------------------------------------------------------------
Budget == [calls : Nat, edits : Nat, faults : Nat, pages : Nat, flips : Nat,
           observers : Nat]

LoopState == [pc : {"signedOut", "signingIn", "signedIn", "trying", "waiting", "done"},
              tries : 0..MaxTries, sub : Call \cup {None}]

TypeOK ==
  /\ locked \in BOOLEAN /\ online \in BOOLEAN /\ differs \in BOOLEAN
  /\ syncLock \in BOOLEAN /\ syncing \in BOOLEAN /\ error \in BOOLEAN
  /\ dirty \in BOOLEAN /\ dirtiedSince \in BOOLEAN
  /\ completedOnlineDownloadFirstSync \in BOOLEAN
  /\ launch \in {"loading", "loaded", "launched"}
  /\ discordance \in Nat
  /\ resolveQueue \subseteq Call
  /\ spawnQueue \in Seq(Call)
  /\ writes \in Seq(Call)
  /\ call \in [Call -> CallRecord]
  /\ firstSync \in LoopState
  /\ left \in Budget

(***************************************************************************)
(* At most one call is between taking the lock and releasing it: however   *)
(* calls, callbacks and retries interleave, two requests never overlap.    *)
(***************************************************************************)
SingleFlight == \A c, d \in Holder : c = d

(***************************************************************************)
(* A promise that waits for the next request is known to the service: in   *)
(* the queue, or among the in-time callbacks of a call that has not ended. *)
(***************************************************************************)
NoWaiterLost == \A c \in At("onNext") : ~Lost(c)

(***************************************************************************)
(* Unless the last request failed, a promise that waits has a call at work *)
(* that will serve it: a sync() that found the service busy does not come  *)
(* too late to the queue.                                                  *)
(***************************************************************************)
WaitersAreServed ==
  (launch = "launched" /\ ~error /\ (resolveQueue # {} \/ spawnQueue # <<>>)) =>
     AtWork \cup Continuing # {}

\* Call c's promise settles in this step.
Settles(c) ==
  /\ call[c].pc \notin {"idle", "resolved", "rejected"}
  /\ call'[c].pc \in {"idle", "resolved", "rejected"}

(***************************************************************************)
(* No data is uploaded to an account before a download-first sync brought  *)
(* the account's data: "A DownloadFirst sync must always be the first sync *)
(* completed".                                                             *)
(***************************************************************************)
DownloadBeforeUpload ==
  \A c \in Call :
     (call[c].account /\ call[c].mode = "Default"
        /\ call[c].pc \in {"preparing", "sent", "mapping", "saving"})
       => completedOnlineDownloadFirstSync

(***************************************************************************)
(* A queued caller is answered only after a request that could carry its   *)
(* edits: "anything in the in time resolve queue will have made it in time *)
(* to piggyback on the current request".                                   *)
(***************************************************************************)
PiggybackCarriesEdits ==
  [][\A c \in Call : (call[c].pc = "onNext" /\ Settles(c)) => call[c].sent]_vars

(***************************************************************************)
(* A caller that forced a request of its own is answered only once a call  *)
(* made for it has run one.                                                *)
(***************************************************************************)
ForcedRequestIsMade ==
  [][\A c \in Call :
        (call[c].pc \in {"toSpawn", "spawned"} /\ Settles(c))
          => call[c].pc = "spawned" /\ call[call[c].sub].ran]_vars

\* The calls whose promises have not settled.
Pending == {c \in Call : call[c].pc \notin {"idle", "resolved", "rejected"}}

(***************************************************************************)
(* Every call of sync() settles.  The calls are bounded, so it is enough   *)
(* that again and again none is pending.                                   *)
(***************************************************************************)
EveryCallSettles == []<>(Pending = {})

(****************************************************************************)
(* Whatever requests fail before, every caller that forced a request of its *)
(* own gets its turn, as long as the autosync timer keeps calling: "no      *)
(* matter how long it takes".                                               *)
(****************************************************************************)
SpawnQueueDrains == []<>(spawnQueue = <<>>)

(*****************************************************************************)
(* The service comes to rest: the requests it makes of its own accord, after *)
(* conflicts and failed integrity checks, end.                               *)
(*****************************************************************************)
ComesToRest == <>[](Resting /\ ~syncLock)
=============================================================================
