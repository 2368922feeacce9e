# Formal models of the Standard Notes JavaScript library

This directory holds TLA+ specifications of snjs (`src/packages/snjs`), the
library under the Standard Notes applications: TLC configurations that check
them on small instances, and TLAPS proofs that hold for every value of the
constants.  The reference is always the code; comments, tests and documents are
quoted only where a property states what they promise.

Contents: [the system](#the-system), [modules](#modules),
[runs](#runs-and-what-they-show), [known deviations](#known-deviations),
[proofs](#proofs), [what is not modelled](#what-is-not-modelled),
[plan](#plan), [how to run](#how-to-run).

## The system

snjs keeps a user's items (notes, tags, keys, preferences, extensions)
encrypted in a local database and on a sync server, and lets several clients of
an account edit them, online or not.  It is a single JavaScript thread: all
concurrency is between callbacks, and every `await` that really waits lets any
other callback run.

| Component | Source (under `src/packages/snjs/lib`) | State it keeps | Operations | Talks to | Modelled in |
|---|---|---|---|---|---|
| Sync scheduling | `services/sync/sync_service.ts`, `sync_state.ts`, `sync_op_status.ts`, `account/operation.ts` | sync lock, in-progress flag, hard lock, resolve queue, spawn queue, download-first flag, discordance | `sync`, `downloadFirstSync`, `lockSyncing`, `loadDatabasePayloads` | everybody calls `sync()`; observers are called back and call it again | `SyncQueue` |
| Sync data path | `services/sync/sync_service.ts`, `account/operation.ts`, `account/response_resolver.ts`, `response.ts` | sync token, the operation's pending payloads | collect dirty items, pre-sync save, upload by pages, process a response, persist | payload manager, history, storage, API | `ItemSync` |
| Deltas, conflict strategy | `protocol/payloads/deltas/*`, `protocol/payloads/functions.ts`, `models/core/item.ts` | none (functions of a collection, a response and the history) | resolve retrieved, saved, conflicting payloads | the response resolver, file import | `ItemSync`, `Singletons` |
| Payload manager, collections | `services/payload_manager.ts`, `protocol/collection/*` | master collection, its type, dirty, reference and conflict indexes | emit payloads, merge, discard, notify | item manager, history, sync | `Items`, `UuidMap` |
| Item manager | `services/item_manager.ts` | the items mapped from payloads, streams | create, change, delete, duplicate | payload manager, UI | `Items` |
| Item history | `services/history/history_manager.ts` | revisions and a staged revision of each item | record, prune, persist | read by the conflict strategy | `ItemSync` |
| Storage | `services/storage_service.ts` | value store (wrapped, unwrapped), persistence policy | set and get values, save and delete payloads | all services | `RootKeys`, `ItemSync` |
| Protocol and root keys | `services/protocol_service.ts`, `protocol/*` | root key, key mode, items keys | wrap, unwrap, encrypt, decrypt, create keys | storage, sync | `RootKeys` |
| Credentials | `services/credential_service.ts` | none | sign in, register, change password, passcode | protocol, API, sync | `RootKeys`, `SyncQueue` |
| API and sessions | `services/api/*` | session, in-progress flags | requests, session refresh, re-authentication | server | `Sessions` |
| Challenges | `services/challenge/*`, `challenges.ts` | open operations, observers | prompt, validate, submit, cancel, complete | UI, protocol | `Challenges`, `Prompts` |
| Protections | `services/protection_service.ts` | session expiry and its timer | authorize actions | challenges | `Challenges` |
| Key recovery | `services/key_recovery_service.ts` | decryption queue, undecryptable keys in storage, the server's parameters | queue keys, ask for passwords, decrypt, replace the root key | challenges, protocol, sync | `KeyRecovery` |
| Singletons, preferences | `services/singleton_manager.ts`, `preferences_service.ts` | resolve queue; preferences item | find or create, delete duplicates, reload | item manager, sync events | `Singletons` |
| Components | `services/component_manager.ts` | registered extensions, permissions, windows, streams | messages, permissions, themes | UI windows | `Components` |
| Application, groups | `application.ts`, `application_group.ts` | launch stage, autosync timer, streams | launch, prepare, sign out, deinit | all services | parts, in several |
| Migrations | `services/migration_service.ts`, `migrations/*` | stored version | stage handlers | storage, keychain | the base migration, in `RootKeys` and `Challenges` |
| Actions, cryptography, models, predicates | `services/actions_service.ts`, `protocol/operator/*`, `models/*` | little or none | pure functions, request plumbing | – | not modelled |

The other packages (`auth`, `time`, `config`, `domain-events`) are type
declarations and adapters without state of their own.

What is hard here:

* **Interleaving.** `sync()` is called by the UI, a timer, observers of its own
  events, the sign-in flow and itself; several calls may be between two awaits.
  Dialogs, requests and timers of the other services overlap in the same way.
* **Reentrance.** An observer that is told of a change changes something itself.
* **Stale state.** A response is processed against a snapshot of the collection;
  what a dialog was opened for may have changed when it is answered.
* **Failure.** Requests and responses are lost; uploads come in pages, one of
  which may fail; the application may end between any two writes.
* **Other clients.** The server's state changes between two requests, and
  conflicts must be resolved without losing an edit and without endless copies.
* **Forgotten promises and flags.** Every early return and every exception is a
  chance to leave a caller waiting or a flag set.

What makes each component correct is stated with its run below; the hazards,
each at its line and with the properties that would catch it, are in
`PROJECT.json`.

## Modules

Every module `M` that is checked has an `MCM` for TLC, which EXTENDS it and gives
sets and symmetries; `MProofs` EXTENDS it with its theorems.

| Module | Models | Besides `MC…` |
|---|---|---|
| `SyncQueue` | who runs a request, who waits, what is settled and retried | `SyncQueueProofs` |
| `ItemSync` | what a request does to the items, here, in storage and on the server | `ItemSyncProofs` |
| `Items` | the collection in memory, its indexes, observers and display | `ItemsProofs`; uses `UuidMap` |
| `UuidMap` | references in both directions (constant operators) | lemmas in `ItemsProofs` |
| `Singletons` | several devices and the server, with the singleton manager and preferences of each | |
| `Components` | extensions, their permissions, windows, streams, themes | `ComponentsProofs`; uses `Filter` |
| `Challenges` | the challenge service with those who ask through it | `ChallengesProofs`; implements `Prompts` |
| `Prompts` | abstract: what whoever asks the user is promised | |
| `Sessions` | requests, refreshes, renewals of the session | `SessionsProofs` |
| `RootKeys` | the chain from passcode and keychain to items keys, as it is written | `RootKeysProofs` |
| `KeyRecovery` | keys that the root key does not open | `KeyRecoveryProofs`; uses `Filter` |
| `Filter` | arrays filtered by what their elements are (a constant operator) | lemmas in `KeyRecoveryProofs` and `ComponentsProofs` |

`SyncQueue` and `ItemSync` cut `SNSyncService` in control and data.  `SyncQueue`
reduces data to one bit (are there dirty items?) and shows that requests never
overlap (`SingleFlight`, proved); `ItemSync` relies on that and takes one request at
a time, but lets edits, other clients, faults and restarts fall between any two
of its steps.  `Singletons` composes devices with the server, where a sync is two
steps.  `RootKeys` has the chain of keys of one client; `KeyRecovery` has what
follows when another client replaced a link of it.  `Challenges` shows that a
prompt has one outcome, which `Sessions`, `RootKeys` and `KeyRecovery` rely on where
they take the user's answer as one step.

A step of a module is the code between two awaits that wait for I/O, the user, a
timer or another call.  Awaits that only pass through the microtask queue do not
end a step.

### SyncQueue

Each invocation of `sync()` occupies a slot of `Call` with the place it has
reached (`pc`), its options and its in-time callbacks.

| Action | Code |
|---|---|
| `ExternalSync`, `StartSync`, `Persisted`, `Arrive` | the entry: flags read, pre-sync save, queue or run |
| `BeginSync`, `UseMode`, `Send` | in-time queue taken, mode chosen, request sent |
| `AnswerPart`, `Mapped`, `Answer`, `Saved`, `Fail`, `Throw` | pages, processing, error, exception |
| `EndOperation`, `AfterDownloadFirst`, `PopSpawnQueue`, `Resume`, `SyncFromResolveQueue`, `SyncMoreDirtyItems`, `SyncFromIntegrityCheck`, `EndSync` | what a finished request starts next, in the order of the code |
| `ObserverSync` | an observer that awaits a `sync()` of its own inside an event |
| `LoadDatabase`, `LaunchSync`, `AutoSync`, `Lock`, `Unlock` | launch, timer, hard lock |
| `SignIn` … `CheckDownloadFirst` | `signIn` and the `downloadFirstSync` loop |

Where a settled promise wakes another call, `Continuing` makes that call go on
before any other event, as the JavaScript runtime does.

### ItemSync

| Variable | Code |
|---|---|
| `master`, `conflictMap` | the payload manager's collection and its index of conflicted copies |
| `history` | the staged and the newest revision of each item |
| `disk` | the database's payloads, without the fields `ejected()` leaves out |
| `token`, `diskToken` | `syncToken`, and what storage has of it |
| `op` | the running operation: payloads captured, pending pages, response, collections still to map |
| `server`, `clock` | the server's items and newest `updated_at_timestamp` |
| `written`, `uploaded`, `deletions`, `missed` | history variables, read by properties only |

`BeginSync` freezes the dirty items and `lastSyncBegan`; `PreSyncSaved` stores
them; `Send` uploads a page of at most `UpLimit` payloads and lets the server
answer; `Receive` keeps the new token (stored later by `TokenStored`);
`ProcessResponse` computes the collections of retrieved, saved and conflicting
items from a snapshot and maps the first; `CollectionStored` stores one
collection and maps the next; `EndPage` and `NeverSyncedCleared` finish.
`RequestLost` and `ResponseLost` are failed pages, after which the operation
goes on (`PageFailed`), and `Restart` ends the application at any moment, with a
pending write carried out or not.

A content is a number, new for each edit, and `written` keeps which contents it
was written over: that is all conflict resolution tells apart, but for
references.  Dates are reduced to the comparisons the code makes: `dirtiedDate`
before or since `lastSyncBegan`.  Whether the user edited an item in the last 20
seconds, which picks the side that keeps the uuid, is a free choice.

The server is external.  Its rule is the one the code relies on: a payload is
saved when its version is the server's, and is a conflict otherwise; the answer
lists what is newer than the token sent.

### Items and UuidMap

An emission (`emitPayloads`) is queued; the first of the queue is merged into the
collection and told to every observer in turn, and an observer may emit again
before the next is told.  Streams are such observers: `s1` and `s2` keep what they
were told and may answer an insertion by a change of their own.  The operations
are those of the item manager: creating, changing, duplicating and deleting
items (a deletion reads its referrers first and changes each), what a sync
retrieves or reports saved, and what a consumer asks of the display.  The
sorted list keeps the code's rule that it is sorted again only when a value it
sorts by changed.  `UuidMap` holds the two maps of references and the operators
`SetAllRelationships` and `RemoveFromMap`.

### Singletons

Every device has the items it knows of, the queue of items to resolve
(`resolveQueue`), the preferences service (its item, `shouldReload`, whether it is
reloading) and the events it has still to be told of.  `Request` and `Receive` are
a sync, `Resolve` the two observers of its completion, `Decrypt` the arrival of
a key, `Reload` and `Create` the preferences service, `SetValue` the user.

### Components

`requests` are the dialogs and what waits for their answers, `dialogs` the service's
list of them (`permissionDialogs`), and `shown` the one the user sees.  `windows`
has the window registered for each component and its session key; `regs` are the
registrations whose key is still being generated, and `keys` what each window was
told.  `streams` is what each component observes, `told` the items of which its
window has the newest state, and `toggles` the themes that wait ten milliseconds
before they switch others off.  Each kind of message is an action;
`RunWithPermissions` decides between running, opening a dialog and waiting behind
another one, and `Answer` carries out what an answer covers and presents the next.
Changes to items reach their observers within the step.

### Challenges and Prompts

`Challenges` has three owners of challenges, as the code has: the protection
service (values validated by the service, biometrics, the length of the
session), the renewal of a session (values tried out by signing in) and the
migrations (values tried out on stored keys, asked again when wrong).  A
submission is a list of values in `work`, validated one after another while more
are submitted; a challenge is canceled or completed by its caller meanwhile.  The
protection session is its expiry, the timer that announces its end, and the
writes in between.  `Prompts` is the promise: each challenge is asked once, takes
values, and has one outcome.  The refinement maps the service's operations and
promises to it (`ImplementsPrompts`).

### Sessions

A call has a place, the token it was sent with and the server's reply.  A
request may be answered 498, upon which it refreshes the session, stores it and
is made again, or 401, upon which the user is asked to sign in again; while a
refresh, a sign-in or a password change is under way others are refused.  Writes
to storage complete in order; answers in any order.  Calls and answers can be
lost and the application restarted.

### RootKeys

In memory there are the values (`values`), the root key and key mode, and the items
keys (`keys`, `dirty`); on the device the keychain, the stored values with the key
they are under (`disk`) and the items keys of the database (`stored`); and there is
the `server`.  `writes` are the writes of values under way.
Every write of adding, removing and changing a passcode, registering, signing
in, changing the password with its rollback, and signing out is a step of its
own, in the order of the code; syncs of items keys and other writes of values
fall between them.  `End` ends the application at the places of `EndsAt`; `Launch`
reads what is left.

### KeyRecovery

Root keys are numbered as the account's passwords changed.  `Retrieve` takes keys
from a sync: those the root key opens, those it does not (queued), and those it
does not while an opened copy is here (ignored: recorded, queued when the record
is stored).  `ParamsAnswered`, `PopQueueItem`, `Dismissed`, `WrongPassword`,
`Decrypted`, `RootKeyReplaced` and `EndQueue` are `beginProcessingQueue` and
`popQueueItem`; `HeadSignedIn` and `SignedIn` the sign-ins before and after a queue.
Passwords change elsewhere in two steps (account, then keys) and here in one, not
while the user is asked for a password.  The application ends at any time but while
a record is being stored.

## Runs and what they show

Bounds are constants of the modules; each is spent by one kind of event and the
`left` variable counts what remains, so every behaviour ends its surprises and
the liveness properties speak about what follows.  Symmetry is used over
components and themes, challenges of a kind, streams and keys of a kind, and only
in runs without liveness properties.

| Run | Checks | Bounds |
|---|---|---|
| `sync_queue_settle` | `PiggybackCarriesEdits`, `EveryCallSettles`, `ComesToRest` | one outside call, plain or forced, with the launch's; an edit, an observer's `sync()`; data may differ from the start; nothing fails |
| `sync_queue_retry` | `SingleFlight`, `WaitersAreServed`, `ForcedRequestIsMade`, `SpawnQueueDrains` | a forced call, the launch's and the timer's; an edit, a failed request, the data starting or ceasing to differ once |
| `sync_queue_sign_in` | `DownloadBeforeUpload` | launch and sign-in, a failure or exception, an extra page, hard lock, writes completing out of order |
| `item_sync` | `CleanMeansUploaded`, `TokenCoversItems`, `StoredEditsSurvive`, `EditsSurvive` | one item and its copies, two edits, an edit and a deletion elsewhere, a lost request or response, a restart, pages of two |
| `item_rest` | `ConflictIsReal`, `Converges` | two items (one created here), an edit here and one elsewhere, a deletion here |
| `items` | `StreamsAgree`, `DisplayIsCurrent`, `DeletionUnlinks` | two notes and a tag, one note stored; two streams that may react; three operations |
| `singletons` | `SettingsSurvive`, `OneRemains`, `PreferencesFollow` | two devices, each starting with none, its own or the account's item; one edit or one item before its key |
| `components` | `RunsWithPermission`, `WaitingIsShown`, `StreamsAreCurrent`, `WindowsAreBridged`, `OneThemeIsActive` | two components, a (locked) note and a tag, two themes; two requests, windows and toggles, one event |
| `challenges` | `GrantsAreEarned`, `WaitingIsOpen`, `PresentedIsOpen`, `SessionHasTimer`, `ImplementsPrompts` | two of five challenges; two submissions at once; three ticks of the clock |
| `sessions` | `OneRefresh`, `SessionIsNewest`, `Recovers` | two calls; one expired token, ended session, lost message and restart |
| `root_keys` | `Unlocks`, `ItemsReadable`, `NothingIsBare`, `RootKeyIsAccounts` | three operations of seven kinds; two account and two passcode keys, three items keys; one end, one other write, one failure |
| `key_recovery` | `NothingForgotten`, `RootKeyNeverGoesBack`, `QueueDrains` | three root keys and items keys: a password changed elsewhere and one here; an end, a wizard; any number of wrong passwords |

Every property is broken by a mutant of a modelled definition, listed in
`PROJECT.json`; the mutated forms stand before the definitions they replace,
marked "Variant with a bug".

### What the properties say

Syncing.  *`SingleFlight`*: two requests never overlap.  *`WaitersAreServed`*: unless
the last request failed, a promise that waits has a call at work for it.
*`PiggybackCarriesEdits`*: a caller that shares a request has its edits in it.
*`ForcedRequestIsMade`*, *`SpawnQueueDrains`*: a forced caller gets a request of its
own.  *`EveryCallSettles`*, *`ComesToRest`*: each promise settles, and the retries the
service makes of itself end.  *`DownloadBeforeUpload`*: nothing is uploaded after a
sign-in before everything was downloaded.

Items.  *`CleanMeansUploaded`*: an item that is not dirty has a content the server
had.  *`StoredEditsSurvive`*: what is in the database or on the server stays in one
of the two, itself or under something written over it, unless someone deletes
the item; *`EditsSurvive`* says the same of memory, but for restarts.
*`TokenCoversItems`*: between requests the client has every state that its token
tells the server not to send again, or a change to upload.  *`ConflictIsReal`*:
copies are made only of contents written without knowledge of each other.
*`Converges`*: once the surroundings are quiet, client and server have the same
items with the same contents, and stay so.

Memory.  *`StreamsAgree`*: when the queue of emissions is empty, every stream has
what the collection has, however observers reacted.  *`DisplayIsCurrent`*: the
sorted list and the notes view have the collection's items, in order.
*`DeletionUnlinks`*: after a deletion nothing refers to the item
but what the server sent since.  (An item discarded locally is not announced, and
is excepted from the first two.)

Singletons.  *`SettingsSurvive`*: once the account has settings, an item
with settings stays live on the server, unless a device gave up some that it
cannot decrypt.
*`OneRemains`*, *`PreferencesFollow`*: in the end there is one, and every device's
preferences are that one.

Components.  *`RunsWithPermission`*: nothing runs without all it needs.
*`WaitingIsShown`*: as long as requests wait, one of them is on the screen, or is of
a component that was removed.  *`StreamsAreCurrent`*: a component that is shown has the newest state of what
it streams.  *`WindowsAreBridged`*: every window gets its key.  *`OneThemeIsActive`*:
overlapping toggles leave one theme that does not layer.

Challenges.  *`GrantsAreEarned`*: an action or a session is granted only after every
prompt was answered rightly (or not asked, within a session that was earned so).  *`WaitingIsOpen`*: whoever waits has an operation that
can be answered.  *`PresentedIsOpen`*: the flag of the renewal says whether one is
open.  *`SessionHasTimer`*: a protection session has a timer for its end.

Sessions.  *`OneRefresh`*: one refresh and one sign-in at a time, and the flags are
set exactly as long.  *`SessionIsNewest`*: whenever no refresh is being completed, both
the session in memory and the one on the disk have a token the server has not
replaced, unless the answer that brought the newer one was lost.  *`Recovers`*: the client gets a valid
session, or the user is asked for one.

Keys.  *`Unlocks`*: the application can be opened with what the user knows and the
device has, and nobody has to repair the keychain.  *`ItemsReadable`*: then all items can be read, but for
those under an items key that a rollback deleted (deviation 8).  *`NothingIsBare`*: when no
operation is under way and none was cut short, the root key is in the keychain
exactly if there is no passcode, and the values and the items keys are stored under
the current key.
*`RootKeyIsAccounts`*: unless a request failed or an operation was cut short, the
root key is the account's, and the items keys on the server are under it.  *`NothingForgotten`*: a copy of a key that was retrieved was
opened, or is stored for the next launch.  *`RootKeyNeverGoesBack`*: no older root
key replaces a newer one.  *`QueueDrains`*: recovery comes to its end.

### Why the bounds are enough

Three or four concurrent calls fill each role of `SyncQueue` at once (one running,
one queued, one forced, one that has only been popped); `Spare` keeps slots for
calls the service makes of itself and `SlotsSuffice`, an invariant of
`MCSyncQueue`, says that no run is cut short by their number.  `MaxDiscordance` and
`MaxTries` are 2 instead of 5: one value below the limit and the limit.  One item
is enough for a conflict, its copy, and the copy of a copy, which is where items
interact in `ItemSync`; more items matter for pages only.  `EditWhileStoring` is
`FALSE` in its runs (deviation 3).  Two devices, calls, components, challenges or
submissions are the fewest that can race, and each module's interactions are
pairwise: a third finds the same flags set as the second does.  The second key
of a kind in `RootKeys` is the one that a change brings in, the third items key is
for a rollback followed by another change.  `EndsAt` names the safe places of
`RootKeys` (deviation 7).  In `singletons` there are edits or errored items but not
both (deviation 11), and ids are used again once everyone forgot them.

### Fairness

* `SyncQueue`: `WF(Progress)`.  While a write, a request, an observer, the launch or
  the interval is pending, something pending happens; no order is assumed.
* `ItemSync`: `WF(Progress)`.  The autosync interval makes one request after the
  other, and each goes on while storage and server answer; `SyncQueue` shows that
  the service gets there.
* `Sessions`: the interval makes requests, every message is answered or lost, and
  every call goes on.  The user is not forced to do anything: `Recovers` is
  satisfied by a prompt that is shown.
* `Singletons`: the interval syncs each device, observers are called, and keys
  arrive in the end.
* `KeyRecovery`: the server answers, and a user who is asked again and again answers
  or gives up in the end (strong fairness, as each wrong password closes a dialog
  and opens the next).

`CHECK_DEADLOCK FALSE` appears where the system comes to rest: without the timer,
when the user does nothing, or when the bounds are spent.  `items` and `singletons`
never rest and are checked for deadlocks.

## Known deviations

Where the code does something else than a comment or a test says, or than it
should.  The runs exclude each by the constant or the history variable named, and
giving the constant the value named (with `NoWaiterLost` and others that no run
lists as INVARIANT) shows it.

1. *A waiter is forgotten when a request fails* (`sync_service.ts:643`).  The in-time
   callbacks are out of the queue already when `sync()` returns early, though
   `sync_service.ts:50` promises them the next request.  `NoWaiterLost`,
   `Env <- Failing`, `MaxFaults = 1`.
2. *A forced caller gets no request* (`sync_service.ts:483`) when syncing is
   hard-locked at the moment it is popped.  `ForcedRequestIsMade`, `Env <- Locking`.
3. *An edit becomes clean without being uploaded* (`sync_service.ts:898`).  The dirty
   states of a response are decided from a snapshot, and mapped after database
   writes during which the user may edit, against the comment at
   `response_resolver.ts:132`.  `CleanMeansUploaded`, `EditWhileStoring = TRUE`.
4. *Syncing stops* (`conflict.ts:52`).  Comparing a conflicted copy with a payload that
   the server deleted throws; `sync()` has no `finally`, so the lock stays.
   `Converges`, `MaxRemoteDeletes = 1`.
5. *A copy nobody needs* (`item.ts:344`).  After a lost response and three edits only
   the newest revision is compared with what the server has.  `ConflictIsReal`.
6. *A dropped change is uploaded after all* (`operation.ts:77`).  An operation goes on
   after a failed page, without a token, with payloads captured before.
   `UploadsAreCurrent`, three dirty items in pages of one, a lost page.
7. *Unsafe windows of key operations*: ended at the steps `wrap`, `params`, `unparams`,
   `keychain`, `delete`, `rewrite`, `store`, `mark` or `clear`, the application can not
   be opened, has lost its items keys, or keeps something bare.  `EndsAt`.
8. *A rollback deletes an items key in use* (`credential_service.ts:297`) when an autosync
   uploaded it and something was encrypted with it.  `NothingIsLost`.
9. *A late 401 prompts the user* although the token it answers was replaced since.
   `PromptIsNeeded`.
10. *A deletion stops half way* (`item.ts:593`): a referrer that is itself deleted has no
    content, the change throws, and the remaining referrers keep their reference.
    `DeletionUnlinks`, `Tag = {t1, t2}`, `Deletable = {n1, t1, t2}`.  An item that is
    restored does not know its referrers (`Restores = TRUE`).
11. *A conflict over a singleton that this device cannot decrypt* throws in
    `conflict.ts`.
12. *Recovered keys are stored under the root key that is then replaced*
    (`key_recovery_service.ts:517` before `:521`), and the other keys stay so as well, though
    `protocol_service.ts:1417` says that items keys must be encrypted anew when the root
    key changes: after the next launch the user is asked for the old password.
    `OpenStaysStored`.
13. *A sign-in that cannot succeed* (`key_recovery_service.ts:350`, `:396`): the server's
    parameters are fetched once in a session and asked for after the password was
    changed here.  `LoginCanSucceed`.
14. *A newer ignored copy is forgotten with the older* (`key_recovery_service.ts:229`), as the
    record is emptied by uuid.  `NothingForgotten`, `MaxElsewhere = 2`, `MaxRoot = 4`.
15. *An approval for a deleted component* throws and leaves its dialog
    (`ApproveRemoved`).

Exempted in `ItemSync` by the history variable `missed`, at the step where it
happens: the sync token is stored before the payloads it came with
(`PassedOver`); an item whose first upload was answered by a lost response counts
as never synced, and stays on the server when deleted (`BeginSync`); what an
outdated upload does to the item (`Send`): the payload was captured before the
client's state of it came, and the change will not be noticed (`Outdated`, deviation 6).

## Proofs

For every value of the constants that satisfies the modules' assumptions, which
TLC evaluates in every run.  Each inductive invariant was checked by TLC on a small
instance before it was proved.

`SyncQueueProofs`

* `TypeCorrect`: `Spec => []TypeOK`.  The inductive invariant adds that
  `downloadFirstSync` starts an iteration only with tries left (`TriesLeft`): without
  it, the counter's range is not inductive.
* `RequestsNeverOverlap`: `Spec => []SingleFlight`.  `SingleFlight` alone is not
  inductive: an entering call looks at the lock and the syncing flag, not at the
  other calls.  `LockInv` adds that `syncLock` is set while some call holds it, and
  that a call past its pre-sync save passed the entry checks (`PassedChecks`).
  Most steps only move or release (`ReleasesKeeps`); those that start a `sync()`
  are reduced to `StartSyncLocks`.
* `DownloadsComeFirst`: `Spec => []DownloadBeforeUpload`.  `UploadInv` says it of every
  call that has taken an uploading mode, wherever it is: only `UseMode` makes an
  upload of a call, all other steps make none (`Quiet`), and the flag stays set.
* `NobodyWaitsForNothing`: if the environment is `Orderly`, that is, has failures and
  the autosync timer only, `Spec => []WaitersAreServed`.  With a lock taken elsewhere,
  an exception, writes that overtake others, or a sign-in, each alone, the statement
  is false, as TLC shows.  `ServeInv` says who waits where:
  - `WaitInv`: a waiting promise is in one place, the queue or the in-time callbacks of
    one call, and in the spawn queue once;
  - `LateInv`: a call that found the service busy and saves before it queues may reach
    the queue after `sync()` looked at it, but not unseen.  The items it came for are
    dirty still, so that `sync()` goes on, or are being saved by the operation, behind
    the call's own write (`WriteInv`: every call that awaits storage has one write);
  - between requests some call is at work when anybody waits, unless the last request
    failed.  `Ready` is the part that `Arrive`, `Settle` and a change of a call's place
    keep on their own, whatever the queues are meanwhile.
* `ForcedCallersAreHonoured`: if the environment is `Orderly`, `Spec =>
  ForcedRequestIsMade`, an action property.  `ForceInv`: the slot of an awaited call is
  not given away before the one call that awaits it has gone on, a call in the spawn
  queue has forced its request, and the call made for it may have to queue only there
  again, so that it has run when it settles (`Honours`).  Which slots a step may change,
  and how (`Keeps`), is the same for all steps but those that make or release a child.

`ItemSyncProofs`

* `TypeCorrect`: `Spec => []TypeOK`.  Contents are numbered as they are written, so the
  inductive invariant is that there is a number `n` of contents for which all
  payloads are of `Payloads(n)`: a step that writes moves to `n + 1`.
* `EditsAreUploaded`: `EditWhileStoring = FALSE` implies `Spec => []CleanMeansUploaded`.
  The hypothesis excludes one moment only, an edit of an item that a collection not
  yet mapped has (deviation 3): with it the statement is false, as TLC shows.
  `EditInv` follows a content through the operation:
  - `AllSound`: nothing in memory, in the database, among the captured payloads or
    being stored is clean without having been uploaded, and whatever the server
    has or answered was;
  - `Following`: a captured payload that has yet to be sent is what the client has,
    or the client's is marked as changed since (`dirtiedDate`), or the item was
    deleted by others.  What the server saved is likewise what the client has, or
    marked.  This is what `finalDirtyStateForPayload` relies on;
  - `Remaining`: whatever is in the collections still to be mapped is sound *when
    merged* with the payload the collection will find then, as a saved payload
    brings only some fields (`MergedWith`), and keeps the item followed.  A saved
    item is in one collection only (`Separate`), so mapping one does not disturb
    what is said of the next;
  - `Request`, `Names`: saved, pending and conflicting items are disjoint, and no uuid
    is in use that was not given out, so copies are new.
* `TokenIsNotAhead`: under the same hypothesis `Spec => []TokenCoversItems`, but for the
  items that the code fails with (`missed`).  Between requests only is the property
  true; `CoverInv` says what is true meanwhile, of memory and of the database:
  - `Tokens`: the stored token is not newer than the one in memory, and neither than
    the server's clock; from its processing on it is the response's;
  - `Response`: what the response says of an item is what the server still has, or
    else a newer version came since, which the token does not cover;
  - `InMemory`: memory covers the token, and while a response waits, or is mapped, it
    covers the *response's* token but for the items that are still to come.  Those
    are right once they are merged with what memory has (`AllLand`), also when they
    remove an item, which only one that is deleted on the server may;
  - `OnDisk`: the same of the database, for which the payloads being written are also
    still to come; and as long as the response's token is not stored, the database
    covers the stored one without any exception.  So a restart finds either the old
    token and all it covers, or the new one with what `PassedOver` says is lost;
  - `Capturing`, `Saving`: what was captured and is no longer in memory was deleted by
    others, and a saved item is what memory has or has changed since: a saved
    payload brings no content, so `MergedWith` is only right then.

  The proof needed more of `missed` than the runs do: `Outdated` has to compare with
  what the client will notice, and `PassedOver` has to take in saved items, whose
  older state on disk passes for current.  The shortest case has two items in pages
  of one, a page lost, a deletion between two pages, and a restart after the token
  was stored (`Items = 2`, `UpLimit = 1`, `MaxDeletes = 1`).

`ItemsProofs`

* `StreamsAreGivenAll`: `Spec => []StreamsAgree`.  An observer that changes an item
  while it is notified emits again, and a stream may begin while others are being
  notified.  `StreamInv`: one emission is notified at a time, and the collection has
  taken it over (`TakenOver`); the streams that have yet to be given it agree with
  the collection but for its items, all others agree (`Notifying`).  This rests on the
  queue of emissions: with an emission that goes ahead of the one being notified,
  TLC finds a stream that is left with what is old.
* `SetAllKeepsConverse`, `RemoveKeepsConverse`: the operators on the two maps of
  references keep them converses of each other, and removing leaves no reference.
* `DeletionsUnlink`: if the server restores nothing that was discarded here
  (`~Restores`) and a tag is deleted only if there is no other (`OneReferrer`,
  deviation 10), `Spec => []DeletionUnlinks`.  An item is dead when it is deleted and
  not yet saved, or was discarded.  `LinkInv`: the index has the references of live
  items, all but those to dead ones (`Indexed`), so that the deletion of a live note
  captures whoever refers to it; a live item that refers to a dead one is yet to be
  reached by its deletion, is being changed by it, or was sent by the server since
  (`Links`); and what an emission brings refers to nothing dead but such items
  (`Coming`).  With it goes that only one emission deletes and is the first: consumers
  change live items only.  What an emission makes of the index is a fold over its
  items in an order that CHOOSE picks; `FoldExists` and `SetReferencesIs` say what it
  computes, by induction on the cardinality (`Ranked`, `UpTo`).

`ChallengesProofs`

* `WaitersCanBeAnswered`, `RenewalIsKnown`: `WaitingIsOpen` and `PresentedIsOpen`.  The
  inductive invariant says that an operation is deleted only once its promise is
  settled, that one renewal is open at a time, and that what is still being
  handled of a challenge that is over settles nothing.
* `NothingIsUnearned`: `GrantsAreEarned`.  `ValuesInv`: the values taken for a challenge
  and those being validated are of its prompts, one for each, and right ones were
  proved by the user.  `EarnedInv`: a session being stored belongs to a challenge
  all of whose prompts were proved, and one that lasts ends no later than such a
  one allowed.
* `SessionsAreTimed`: `SessionHasTimer`.  `TimerInv`: the timer is set to the stored end,
  or a pending write will set it and none after that write stores another.
* `PromptsAreImplemented`: `Spec => Promised!Spec`.  Under the mapping (`accepted` is
  the prompts of the valid values, while a promise waits) each step of the service
  is the step of one challenge in `Prompts` or none: `Asks`, `Drops`, `GoesOn` and
  `Finishes`, `Cancels`.  That the outcome is an answer exactly when all prompts have
  a valid value is `ValuesInv` again: without "one value for each prompt" counting
  them, as the code does, would not say so.

`SessionsProofs`

* `OneRefreshAtATime`: `OneRefresh`.  The invariant counts, for each flag, the calls at
  the places between setting and clearing it: one if it is set, none otherwise.  A
  step moves one call (`StepOf`), which cannot be at another's place, or none
  (`NobodyMoves`).
* `TheNewestSessionIsKept`: `SessionIsNewest`.  `NewestInv`: a token in memory, on the disk or
  about to be written is the newest of its session, or the refresh that replaced it
  is under way and brings the newest (`Covered`).  It rests on `OneInv` (a second
  refresh would replace the token the first one brings), on `WritesInv` (writes of one
  session end in the order of its tokens), and on `FreshInv` (a session that a
  sign-in brings has been used by nobody before it is stored).

`KeyRecoveryProofs`

* `TheRootKeyNeverGoesBack`: `RootKeyNeverGoesBack`.  The code compares a key only with the
  server's parameters, which were asked for once, and not with the root key it
  replaces.  `KeyInv` says why this is enough: if the parameters are behind the
  client's root key, the client has an items key open that is as new as any copy
  encrypted with the root key they stand for (`Passed`), wherever that copy is, in the
  queue, in storage, being stored or on the server; and a key that is not newer
  than an open one does not replace the root key.
* The lemmas on the queue come first: what `Where` leaves (`WhereElements`), by the
  least counterexample, since the library's induction theorems take an operator as
  a parameter.

`RootKeysProofs`

* `TypeCorrect`: `Spec => []TypeOK`.
* `TheUserGetsIn`: if the process ends at the steps of `Quiet` only (`SafeEnds`),
  `Spec => []Unlocks`, whatever fails, whoever else writes values and whenever they
  are written.  The excluded ends are those of deviation 7 but for `rewrite`, where
  the user gets in and what is lost is the items keys.  `Unlocks` speaks of the disk
  and the keychain alone, and is not inductive.  `ChainInv` follows the operation in
  memory: at the `Quiet` steps the keychain, the values and the root key fit
  together for the mode (`Chain`), and at the others `Links` says which link is missing;
  what is on the disk is what is in memory or the operation waits for its write
  (`Own`, `Written`), and is at no `Quiet` step while it does (`Waits`); its last write,
  and those of others that follow it, are made with the current root key (`Current`),
  but at three steps where one with the new key is yet to come (`Lags`).  After the
  process has ended, the mode and the key that a launch finds are a chain with what
  is on the disk (`Opened`).
* `NothingIsLeftInKeychain`: `Spec => []ValuesCovered`, the part of `NothingIsBare` that
  is about the keychain and the values, between all operations and wherever the
  application may end: `ChainInv` holds until an operation is cut short.

`ComponentsProofs`

* `EveryWindowIsBridged`: `WindowsAreBridged`.  Every window has its key or a
  registration of the current window that will bring it (`WillBridge`); pending
  registrations of windows that were replaced come before the current one's, and
  ids are fresh.
* `OneThemeIsLeft`: `OneThemeIsActive`.  Besides one theme, all active ones that do not
  layer are in a pending toggle, which deactivates them.
* `NothingRunsUnpermitted`: `RunsWithPermission`, `WaitingIsAnswerable`:
  `WaitingIsShown`, `StreamsStayCurrent`: `StreamsAreCurrent`.  `PromptInv` says that a
  request waits only for a question that asks for all it lacks (`Waiting`), and that
  questions have ids of their own.  What an answer carries out is a recursive function
  on the list of requests (`RunAll`); what each of its actions keeps, all of them keep
  (`RunAllKeeps`).  The induction is by the least counterexample (`Least`, `UpTo`) and
  over a set of states instead of a predicate (`From`: those the actions of an answer
  can lead to), since the library's induction theorems take an operator.

Only model-checked:

* the liveness properties (fairness and `ENABLED` are out of the prover's reach);
* what holds within the bounds of its run because these exclude a deviation that no
  constant names alone: `NothingForgotten` (deviation 14), `ConflictIsReal` (5);
* `StoredEditsSurvive` and `EditsSurvive`, which need the history of
  replaced contents, and `PiggybackCarriesEdits`;
* `ItemsReadable`, `RootKeyIsAccounts` and the part of `NothingIsBare` that is about
  items keys, of `RootKeys`, which need an
  invariant on what each items key is stored under, and where the server's copy of it
  stands, across syncs;
* `DisplayIsCurrent` of `Items`: the provers have no facts about `SortSeq`, whose
  definition chooses a permutation and leaves open which one when two keys are equal;
* `Singletons`.

## What is not modelled

* Syncing: uuid conflicts, the offline operation, paged downloads, out-of-sync
  resolution, file import, differences in references only (`KeepLeftMergeRefs`),
  two dates in the same millisecond, failing database writes.  `conflictsOf(u)[0]`
  is the oldest copy in the model; after a restart the code's order is the one in
  which payloads are loaded.
* Items: searching, tag hierarchies and counts (computed from the collection);
  snapshots of a collection that share arrays with it; a throwing observer, after
  which the queue of emissions stays blocked.
* Keys: versions of the protocol and their upgrades, backups, the encryption itself,
  ephemeral and disabled storage; keys that arrive while a root key is being
  replaced.  In `KeyRecovery` all keys are of one version, so that the comparison
  of versions, which compares the server's with itself at line 425, is vacuous.
* Sessions: JWT sessions, codes of a second factor, passcode prompts inside a
  renewal.
* Components: native extensions, rooms and sizes of windows.
* Challenges: which prompts apply to which action is a choice.
* Singletons: `findOrCreateSingleton` during a first sync; equal `created_at`.
* Application: groups, deinit; the migration to 2.0.0, which converts a layout no
  other code of the repository has.
* Actions service, cryptography, models, predicates, the shared packages: pure
  functions or request plumbing without control of their own.

## Plan

1. `Deltas` as pure operators with references, import and out-of-sync, against
   reference definitions over all small collections.
2. Collections as snapshots that share arrays.
3. Proofs: the rest of `NothingIsBare`, and `ItemsReadable`, of `RootKeys`
   (what an items key is stored under, and what the server has of it while it is
   unreadable here); type correctness of the other modules.
4. An abstract specification of the sync service as a serial executor of requests,
   implemented by `SyncQueue`.

## How to run

With the TLA+ tools and TLAPS installed, in this directory:

    tlc -workers 2 -config ItemSync.cfg MCItemSync.tla
    tlapm SyncQueueProofs.tla

Each run takes from a few seconds to about two minutes, the proofs of a module a
few minutes.
