# AISideQuest in TLA+

A verification project for AISideQuest: a web application that tracks the AI
coding sessions of a user (Codex), reported by a local plugin, and offers quests
and reading while a session runs. The modules here model the parts of the system
where order, failure and concurrency matter; TLC checks them on small instances, and
TLAPS proves their invariants and action properties, and that the session core
implements its abstract specification, for every instance. Liveness is model-checked
only.

Paths in this file are relative to `src/`, the repository.

## 1. The system

| Component | Where | State | Operations |
|---|---|---|---|
| AI sessions | `server/src/sessions`, `common/idempotency` | `ai_sessions`, `integration_events`, `api_idempotency_keys` | plugin event, manual start and end, recovery job |
| Plugin delivery queue | `plugins/aisidequest/scripts`: `delivery-queue`, `queue-worker`, `process-lock`, `record-event`, `event-sender` | queue file, checkpoint, dead letters, two lock directories | enqueue, deliver the head, launch and leave as worker |
| Turn state and heartbeats | `turn-state.mjs`, `heartbeat-worker.mjs` | `active-turn.json`, a lock directory | activate, refresh, deactivate, heartbeat round |
| Device linking | `server/src/devices`, `connect-device.mjs` | `devices`, link codes and requests, `device.json` | create link, redeem, approve, poll, rotate, revoke |
| Quest attempts, points | `server/src/quests`, `points` | `quest_attempts`, answers, `point_ledger` | start, answer, submit, read, expiry job |
| Discover feed and adapters | `server/src/discover` | source cache, advisory lock, in-flight refreshes, request gates | list, refresh, call upstream, purge |
| Discover page | `src/pages/DiscoverPage.tsx` and the API behind it | ranking, saved items, interests, the page | list, page on, save, remove, choose interests |
| Authentication, user data | `server/src/auth` | OAuth states, web sessions, identities, users | log in, log out, re-authenticate, delete |
| Web session view | `src/contexts/SessionContext.tsx` | active and past sessions, request in flight | load, poll |
| Old records | `src/storage/appStorage.ts`, `LegacyDataMigrationGate.tsx` | `localStorage` | inspect, keep or discard |
| Rate limits, statistics, catalogue | `server/src/security`, `statistics`, `quests` | fixed windows; none; none | one SQL statement each |
| Infrastructure | database, observability, config, scripts, deploy | pool, counters | |

How they interact: Codex runs a hook process per event; the hook writes
`active-turn.json`, puts the event in the queue and tries once to deliver it; a
detached worker delivers the rest, another adds heartbeats while the turn lasts. The
server authenticates the device, applies the event to the session of its turn in one
transaction and answers. The web polls sessions. A quest attempt is bound to the AI
session it was started in, and may be submitted until five minutes after that session
ended. The session recovery job therefore decides, through the end it writes, when
attempts expire. A device gets its token from a code or an approval of a signed-in
user; a user is reached by a GitHub identity; deleting the account removes all of it
while events and logins may be under way. The Discover feed has no part in this: its
instances share one table and one lock per source, and the page reads it with cursors.

What is hard here:

* *Order.* Hooks race, so a stop may reach the server before the start of its turn;
  a request that timed out may be served after newer ones; pages of a list are computed
  one by one while the list changes.
* *Time.* Handlers read the database clock and then wait for locks; the recovery
  job dates ends back to the last activity; caches, gates and leases live by the clock.
* *Locks that are not shared.* Session handlers take an advisory lock per user, the
  recovery jobs do not; quest starts and submissions share only a row lock, on a
  session that may be over; redemptions and deletions take their locks in other orders
  than those they meet.
* *No lock at all.* `active-turn.json` is read and written by hooks and workers as they
  come, `localStorage` by any tab.
* *Processes that die.* Hooks are killed after 5 seconds, at any point between two
  file writes; lock directories outlive their owners; API processes are replaced.
* *Retries.* Every request may have been served before it is repeated.

`PROJECT.json` lists each hazard at its line, with the properties that cover it or
the reason why none does. Where the code does not do what a document promises and no run
shows it, the note says so.

## 2. Modules

| Module | What it is |
|---|---|
| `SessionLifecycle` | abstract: what a reader of the session API may rely on |
| `AiSessions` | the session core of the server for one user |
| `AiSessionsProps` | its properties with the refinement of `SessionLifecycle` |
| `AiSessions_proofs` | theorems and proofs about the rows and the refinement; about the ledger, the stored responses and when sessions end |
| `DeliveryQueue` | the plugin's queue files, locks and processes |
| `TurnState` | `active-turn.json`, hooks and heartbeat workers |
| `DeviceLinking` | codes, requests, tokens and the connect program |
| `QuestAttempts` | the attempts of a user at one quest |
| `DiscoverItems` | what becomes of an upstream reply and of a page of raw items (operators only) |
| `DiscoverFeed` | the refresh of a source by several API instances; extends `DiscoverItems` |
| `DiscoverPage` | the Discover page, ranking, cursors, saved items, interests |
| `DiscoverPageInv` | its inductive invariant |
| `Discover_proofs` | theorems and proofs about the refresh of a source and about the page, which share nothing |
| `Accounts` | login, sessions, logout, deletion |
| `LegacyMigration` | the gate for old records, in several tabs |
| `SessionView` | the sessions shown by one tab, and the history read page by page |
| `WebClient` | the two composed as `main.tsx` does |
| `WebClient_proofs` | theorems and proofs about the old records and the sessions in view |
| `QuestAttempts_proofs`, `Accounts_proofs`, `DeviceLinking_proofs`, `DeliveryQueue_proofs`, `TurnState_proofs` | theorems and proofs about those modules |
| `*Props`, `MC_*` | the properties of a module, and its instances for TLC |

Operators marked *Mutant* are never used by a specification: each is a variant of
the definition that follows it, with a plausible bug, and shows that a property
notices the bug when the variant replaces the definition.

### AiSessions

*State.* `sessions` is the table of rows (a row of status `NONE` is an identifier not
used yet), `events` the ledger `integration_events`, `replies` the stored responses of
the manual API, `tx` the holder of the user's advisory lock with the clock reading its
transaction works with, `clock` the database clock.

*Actions.* `processIntegrationEvent` is two steps, `BeginEvent` (lock, clock, ledger
look-up) and one of `StartSessionEvent`, `DeferEvent`, `ApplyEvent`, `RepeatTurnStart`,
`LinkManualSession` and `CreateTurnSession`, which do everything up to the commit,
`reprocessDeferredEvents` included. Only `RunCleanup`, the recovery job, and time can
come between the two, and that is the interleaving the code does not exclude: the
advisory lock keeps the user's other handlers out, and the first statement on
`ai_sessions` locks the row against the job. `startManualSession` is
`BeginManualStart` and `StartManualSession`; `endSession` reads the clock with its row
already locked and is one step. `Rollback` is a lost connection or a dying server.

`RunCleanup` is the whole transaction of the job: a row is updated by at most one of its
statements, and their clock readings are taken as one.

Answers from the ledger, and refused events, change no row and are left out as steps;
`Accepted` is the condition under which neither applies. A repeated request
is thus a step that changes nothing. Left out of rows: labels, `version`,
`updated_at`, device diagnostics.

### DeliveryQueue

*State.* `queue` is what `readQueue` finds in the file, after its rule that a later line
with a sequence number takes the place of an earlier one; `state` is
`delivery-state.json`; `lock` is the creator of the directory `delivery-queue.lock`, `owner` what
`delivery-worker.lock` names; `pc` and `job` are the processes. `inside` are the processes
that have entered the critical section and not left it, `breakers` those that found a stale
directory and have yet to remove it. `strays` are requests whose sender gave up and which may still
be served, `stored` is the server's ledger for this device, `aged` the events older than 48
hours.

*Actions.* A process is named by the event that caused it. A hook does `AppendItem`,
`SaveNextSequence` (the two writes of `enqueueEvent`), one delivery attempt, then
becomes the worker it launches; a round of the heartbeat worker does the same
without the attempt, or merges its event (`MergeHeartbeat`). `processNextEvent` is
`FindEmpty`, `FindWaiting` or `Prepare`, then an answer, then `FindSettled`, `Acknowledge`,
`BlockOnAuth`, `ScheduleRetry` or `AppendDeadLetter` with `SaveDeadLetter`. A critical
section is one step where it makes one write that others can notice, and two steps,
with the lock held in between, where it makes two. `Normalized` and `Discarded`, the effect
of `normalizeQueue`, are part of every step that reads the queue.
`acquireProcessLock` is four steps, because its parts are not atomic: `LaunchWorker`,
`RemoveStale`, `RemakeDirectory`, `WriteOwner`.

`acquireLock` is `Enter` (the directory is made), `SeeStaleLock` and `RemoveLock`: its `stat`
and its `rm` are two awaits. Only the directory of a killed process becomes stale, but it is
removed whosever it is by then: of two processes that found it stale the slower one removes
the directory that the faster one has made since, and enters beside it. `overlap`
remembers that this has happened, and a release, too, removes the directory of whoever is
there.

*Faults.* `timeout` (no answer, 408, 429, 5xx), `refuse` (another 4xx), `age`, `revoke`,
`crash` (a process is killed at any step, with the lock in hand if the step takes it).
`Faults` says which of them an instance has; `MaxMishaps` bounds all but
timeouts in a behaviour.

Left out: old file formats and corrupt lines, diagnostics, the size limit in
bytes (the limit in items stands for both), the 24-hour limit on retries (the limit on
attempts stands for both), the compaction of the dead-letter file, and a process
suspended for 30 seconds inside a critical section.

### QuestAttempts

*State.* `sessions` reduced to when each starts and ends, `attempts`, `answers` by what they
are worth, `ledger` the attempts with a reward, `replies`, the transaction of each API
call in `calls`, `clock`.

*Actions.* `startAttempt` is one step per statement (`BeginStart`, `LockSessions`,
`ExpireAttempts`, `CheckPassed`, `ReturnActive` or `InsertAttempt`), as nothing it locks
excludes a submission of an attempt whose session is over. `submitAttempt` is
`BeginSubmit` (the clock reading) and, with the row locks held, one of `RefuseSubmit`,
`ReturnGraded`, `Grade`. `replaceAnswers` and `getAttempt` are one step each, `RunCleanup`
is the job's one UPDATE, with the CHECK constraint that may refuse it. `CloseSession`
dates the end at most `MaxLag` back: a session that a user or a stop ends is not dated
back at all, one that the recovery job abandons by as much as the job is late.

The status `SUBMITTED` is never written by the code and is left out. A quest is
taken as published and valid.

### TurnState

*State.* `file` is `active-turn.json`; `lock` the worker's lock directory with its owner;
`hooks` and `workers` the processes, each with the copy of the file it has read; `turns` what
hooks put in the queue, `beats` the last heartbeat of each turn, `diedAt` when a Codex
process ended.

*Actions.* A hook is `Prompt`, `UseTool`, `Stop` or `StartSession` (the event goes in the
queue) and then `ActivateTurn`, `RefreshTurn` or `DeactivateTurn`, each a read and, as a step
of its own, the rename or removal; then `LaunchHeartbeatWorker`. A worker is
`AcquireProcessLock` in its non-atomic parts, then rounds of `ReadTurn`, `EnqueueHeartbeat`,
`MarkHeartbeat`, or `RemoveTurn` and `ReleaseLock`. `KillWorker`, `EndHookEarly` and
`CloseWindow` are the faults. A window runs one hook and one turn at a time; process ids
are not used twice.

What the code does and no property forbids: a stale copy that is written back can bring a
stopped turn back, and a turn activated while the worker leaves has no heartbeats until its
next hook.

### DeviceLinking

*State.* The tables `devices`, `requests` (browser link requests), `codes` (recovery and
rotation codes) and `stored` (idempotency), the API calls with the step of their
transaction, the runs of `connect-device.mjs` and `config`, the `device.json` of a machine.

*Actions.* A call locks the row of its request or code (`LockRequest`, `LockCode`), waits for
the user's advisory lock, and decides (`DecideApproval`, `DecideRedemption`, `CreateLink`,
`RevokeDevice`); a redemption that connects a device also consumes the user's other codes
(`SweptBy`) and, where another redemption holds one of them, waits with everything held
(`SWEEPING`) until `FinishSweep`, or until the database ends one of the two
(`AbortDeadlocked`). `DeliverTwice` is a call that arrives twice with its key; answers are lost
when a run is `Interrupt`ed. A token is named by the run that made it, so that "holds the token"
is a comparison.

### DiscoverItems and DiscoverFeed

`DiscoverItems` is pure: `Outcome` is `fetchOnce` on a reply, `Retryable` is `isRetryable`, the
`Parse...` sets are the defects an adapter refuses an item for, and `Accepted` says which
pages a refresh goes on with. A raw item is its id and its defects; how a link, date or tag is
parsed is abstracted to whether it is one of the defects.

*State of `DiscoverFeed`.* `cache` (the time the row was refreshed at), `lock` (the
advisory lock), and per instance `refresh` (the in-flight map) and `gate` (the request gate,
in memory); `requests` with what they read and were answered; `last`, who asked what
when, for the properties.

*Actions.* `Ask` reads the row, `LoadSource` decides and joins or starts a refresh, and
the refresh goes `TryLock`, `Recheck` or `ReadLatest`, calls in order
(`CallSucceeds`, `CallSucceedsWithWait`, `QuotaRunsOut`, `CallIsInvalid`, `PageIsRefused`,
`CallFails`, `CallIsRateLimited`) and `WriteCache`. `ReadSourceStatus`, `PurgeExpired` and `Restart`
are the rest. Sources share nothing, so one is modelled, of every kind in turn.

Hacker News asks for its four feeds in one `Promise.all`. A call therefore has a `width`, the
number of requests made at once, and `attempts`; `refresh` counts the ones that were answered
(`FeedArrives`) and the ones tried again. The first that fails for good fails the refresh: the
transaction ends and the lock is free, while the others still run and are tried again.
`orphans` holds the failed refreshes that have left such requests behind, until they end
(`OrphansEnd`), which the timeouts bound by `RefreshTime`.

Left out: a transaction that loses its connection while it waits for an answer, and the
connections of the pool.

### DiscoverPage

*State.* `feed`, `interests`, `saved` and `events` are the server's tables, `page` the state of the
React component, `calls` its requests. `basis` and `known` remember what a list was begun
from, for the properties.

*Actions.* One per handler of the page (`SelectCategory`, `ShowExplore`, `ShowSaved`, `LoadMore`,
`LoadMoreSaved`, `ToggleSaved`, `SaveInterests`), one per statement of the API handlers where
another tab can come in between (`ListDiscover` and `FindSavedItemReferences`; `ReadCache`,
`InsertSavedItem` and the read of the conflicting row), one per answer, `LoseAnswer`, and
`Elsewhere` for refreshes and the other tab. `LoseAnswer` is a handler that fails before its next step
as well as an answer lost on its way: the page shows its error for either. `Ranking` is
`rankDiscoverItems`: matches, band of age, engagement, clarity, then date and id;
`Behind` is the comparison with a cursor. `InOrder` and `Kept` are `sort` and `filter`, defined by what
they return and without recursion, so that the proofs can use them.

`Stamp` gives each row of the saved items, in the order of creation, its `saved_at` (a millisecond
and the microseconds in it) and its id. The list is ordered by both (`Precedes`), but the cursor is an ISO
string with the millisecond only (`Truncated`, `CursorOf`), as `toISOString` makes it, and the next
page begins below that: the older rows of the same millisecond are passed over. Times need not follow the
order of creation, since `saved_at` is read at the INSERT and the row is there at the commit.

### Accounts

*State.* `logins`, `account`, `users`, `auth` are tables; `rows` says how many rows a user has in the
tables of the deletion (`Order`), some of which restrict others (`ChildOf`); `jar` the cookies of the browser, `ended` the sessions it was
told are over; `calls` with the locks their transactions hold.

*Actions.* A login is `ConsumeOAuthState`, the profile from GitHub (`GetAuthenticatedUser`),
`FindUser` under the advisory lock of the identity, and `UpdateUser` or `CreateUser` with
`CreateSession`. `Authenticate` is the guard, `Logout` and the deletion (`LockUser`, `DeleteRows`
table by table, `DeleteUser`) follow it; `LockParent` and `InsertChild` are an event of the
plugin or a submission. `CanLock` is PostgreSQL's row locks with their conflicts, `ReferenceHolds` the
foreign key, `AbortDeadlocked` its deadlock detector.
What an insert locks is what its row refers to (`AlsoRefersTo`): a reward, and an event that starts a session, come with a
row that refers to the user, and wait for a deletion's FOR UPDATE; any other event refers to its device, and perhaps to a session,
and gets in between two DELETEs. `gone` counts the rows that a deletion has found: `DELETE FROM devices` fails with 23503 when an event was committed since. `LoseAnswer` leaves the browser with its
old cookies.

### LegacyMigration, SessionView, WebClient

`LegacyMigration`: `store` is `localStorage` with the two old records, the marker and the
summary; `gate` what each tab shows. `Choose` is `completeLegacyDataMigration`, whose writes
(`Written`: summary, marker, two removals) may stop after any of them, for a quota, a refusal
or a kill; `OpenTab` repeats a clean-up that was not finished. A call runs to its end before
another tab's.

`SessionView`: `server` is the user's sessions in the order they started, `view` what the
provider shows, `request` the load or poll under way: the active sessions and the
history, page by page with a cursor, are read at different times. `Released` is the
`finally` that lowers the in-flight flag. `shown` are the sessions the view has shown since the page was loaded; a
retry after an error does not begin it anew. A full load reads the active sessions and the history in parallel,
and a session that ends in between is in neither answer: `slipped` names those of the last load
(`BetweenReads`), until a poll shows the history again.

`WebClient` mounts the provider behind the gate, as `main.tsx` does. What other tabs do
to the storage, and what provider and server do, commute; only one order of them is
taken: another tab acts while the provider is not mounted, and the server acts
while the gate is passed.

## 3. What is checked

Timeouts keep their order but are a few ticks of the clock. Liveness runs use no symmetry.
Every property has a mutant in `PROJECT.json`: a variant of one definition that makes TLC
find it violated under the same configuration.

| Run | Instance | Result |
|---|---|---|
| `traffic` | 2 rows, 2 devices, 2 turns, 6 events, clock to 3 | ledger and sessions stay consistent (`NothingDeferredAfterStart`, `OneStopCompletes`, `AbandonedAtDeadline`, `LedgerMatchesSession`), silent sessions end (`SilentSessionsEnd`) |
| `manual` | 3 rows, 5 events, 2 idempotency keys, clock to 3 | no constraint is violated (`SchemaHolds`), one row per key (`ManualRowPerKey`); `AiSessions` implements `SessionLifecycle` |
| `queue_heartbeats` | 1 hook, 2 heartbeats, capacity 2, 1 mishap of any kind | lifecycle events are lost only through a torn enqueue or a lock that was removed twice (`LostOnlyWhenTorn`), `CheckpointMonotone` until then |
| `queue_hooks` | 2 hooks, timeouts at will, 1 kill | events arrive in order under the same conditions (`InOrder`); a worker that runs drains the queue (`WorkerDrains`) |
| `quests` | 2 sessions, 2 attempts, 2 + 2 calls, clock to 3 | `OneAttemptInProgress`, `RewardedIffPassed`, `GradedInGrace` |
| `devices` | 2 users, 2 runs, 1 machine, 2 codes, 4 calls | codes are spent once and answers agree (`AnswersAgree`), `ConfigHoldsItsDevice`, `NoCallStuck`, grants are final and other codes end (`GrantsSettled`) |
| `turns` | 2 windows (one with a known process id), 2 turns, 2 workers, 1 kill, clock to 3 | no heartbeat of a turn that cannot be alive (`BeatsBounded`), workers end (`WorkersEnd`) |
| `feed` | every adapter, 4 feeds at once, 2 instances, 2 requests, 1 restart or failed read, clock to 5 | one refresh in a call, beside it only requests left behind by a failed one, and backoffs honoured (`UpstreamSpared`), no answer too old or older than what was read (`AnswersInTime`) |
| `page` | 3 items, pages of 1, 4 clicks, 2 calls, 2 changes elsewhere, 6 rows with times | pages are a prefix of one ranking, nothing twice or under another tab (`ListsSound`); only rows behind another of their millisecond are missing (`SavedComplete`) |
| `accounts` | 2 identities, 2 states, 3 calls, 1 lost answer, clock to 2 | one user per identity (in `TypeOK`), `StateSpentOnce`, `FailsForCause`, `LoggedOutStaysOut` |
| `web` | 2 tabs, 3 contents of the old records, 3 sessions, pages of 1, 1 refusal, 1 network fault | `RecordsSafe`, `ViewComplete`, `EndedLeave` |
| `quest_lag` | recovery 3 ticks late, grace 1 | `OverdueAttemptsExpire` is violated |

The violated property states what `docs/ai/DATABASE_SCHEMA.md:91` promises; the
finding in `PROJECT.json` quotes it and tells the behaviour TLC found: an attempt whose
deadline lies before its start makes the one UPDATE fail, for every user.

`LostOnlyWhenTorn` promises less than `docs/ai/BETA_IMPLEMENTATION_PLAN.md:189`, which is
`NothingLost` without a condition. With two hooks, a heartbeat and one kill TLC finds that one
violated (checked apart from the runs above): a hook killed between its two writes leaves an event in
the queue whose number the next hook uses again, and the acknowledgement of the first drops the
second. That window is two consecutive file writes. The other one is the stale lock: three processes and
one kill, with nobody suspended, put two processes in the critical section, and then the slower one can write an
older checkpoint or queue back, or both take one number. TLC finds `LostOnlyWhenTorn`, `InOrder` and `CheckpointMonotone`
violated when their condition on `overlap` is taken away, and `OneInside` too. The properties say that there is no third way.

Three more properties have an exemption that the code makes necessary; TLC finds each one violated without it.
`SavedComplete` excuses rows that another row of their millisecond is listed before, `NothingLost` of
`SessionView` sessions that ended between the two reads of a load, and `DeletionFailsForCause` an event
committed after the DELETE of the events. `OneUpstreamRefresh` is what is kept of `docs/ai/DISCOVER_CONTRACT.md:57-58`: one
*refresh* at a time, not one *request*, because of the requests that a failed `Promise.all` leaves
behind; `OnlyOrphansBeside` bounds how long they last, and nothing bounds how many there are.

*Are the bounds enough?* The traffic of `MC_AiSessions` is chosen so that every branch
of the handler is taken: a stop before its start, two stops of two devices for one
turn, a start repeated by another device, a later turn of the same Codex session, an
event id and a sequence number used twice, a turn at its limit of events. Two turns and
three rows are as many as one step touches (a superseded row, a new one) and one
more. The clock reaches past every timeout. For the queue, a race is between two
processes and what a third finds, which is also what it takes to remove a stale lock twice (one is killed, two
wait); capacity 2 makes three events overflow it. For quests,
the second attempt exists only once the first is over, and two sessions let a start and
a submission hold different ones.

`devices`: a deadlock is between two redemptions, a repeated call needs one more, and one call
is left to revoke or approve. One machine, because runs on two share no file. `turns`: a file race
is between a hook and a worker, or two workers; the interval, lease and longest turn are
1, 2 and 3 ticks, so each of them ends first in some behaviour. `feed`: two instances for
the lock, two requests for the in-flight map; fresh and stale for 2 ticks, purged after 3 and
forgotten after 4, so that in 5 ticks a row passes every threshold; three requests let a
refresh fail and another begin, beside what the first has left behind. `page`: three items and pages of one give a first, a middle and a
last page; the newest item comes and goes, which moves another between bands of
age. Six times are more than the clicks and the other tab can use; among them are rows of one millisecond, of
one microsecond, and one that is older than the row created before it. `accounts`: a third call lets an event meet a deletion and a login at once; the second
user is the one a deleted identity gets when it logs in again. `web`: three sessions and pages
of one let a session start above and one end below a cursor, and the fault makes a second load, in which one ends
between the two reads.

*Deadlock.* The session runs check it: the recovery job is always enabled. The other
instances end when their events, calls, clicks and clock ticks are used up, so
deadlock is not checked there; in `devices`, `NoCallStuck` says that calls do not wait for one another.

*Fairness.* `AiSessions`: the recovery job runs every 30 seconds and time passes; no
request is certain to arrive or finish. `DeliveryQueue`: processes that are alive are
scheduled, and waits for the next attempt end; kills, timeouts and launches are
not fair, and so neither is the arrival of hooks. `TurnState`: hooks and workers that are alive are
scheduled and the clock goes on; kills, the end of a window and new hooks are not fair. `WebClient`:
requests are answered or fail, and a page that is looked at polls on; opening and closing tabs,
choices, logins and the server's sessions are not fair. `QuestAttempts`, in `quest_lag`: transactions
run to their end; the expiry job is strongly fair, because where it meets a locked row it queues for
it in PostgreSQL and does not skip its turn.

## 4. What is proved

Each theorem holds for all constants that satisfy the named assumptions of its module:

* `AiSessions`: a finite set of well-formed messages; `Null` outside the sets it is compared with;
  messages and `Idempotency-Key`s apart; timeouts are natural numbers, and positive.
* `LegacyMigration`: `Null` outside the values and modes.
* `SessionView`: at least one session and one row on a page; `NoRequest` is not a request.
* `QuestAttempts`: starts and submissions have different keys; a positive grace period.
* `Accounts`: positive lifetimes, at least one user and session identifier, `Null` outside the states and
  answers; an account does not start with a row whose parent is missing.
* `DiscoverFeed`: the durations ordered as the constants of the source are (a refresh takes less than an
  entry is fresh, which is at most as long as it may be shown, and that less than it is kept); an adapter makes
  at least one call, calls each method once, tries a request at most twice, and makes one request at a time if it has a gate.
* `DiscoverPage`: finitely many items, each in one tab and with scores; at least one item on a page; rows with
  different ids and with microseconds below 1000; `Nil` is no cursor.
* `DeliveryQueue`: a finite set of events, heartbeats among them; room for an item and an attempt at least.
* `TurnState`: the processes that are known are among the windows; positive interval, lease and longest turn; `Null`
  is no window, turn, worker or time.
* `DeviceLinking`: a code lives for a positive time; every run has a machine; `Null` is no row, answer or call.

| Module | Theorem | Statement |
|---|---|---|
| `AiSessions_proofs` | `TypeCorrectness` | `Spec => []TypeOK` |
| | `SchemaSafety` | `Spec => []SchemaHolds` |
| | `DeferredSettled` | `Spec => []NothingDeferredAfterStart` |
| | `Refinement` | `Spec => LifecycleSpec` |
| | `StopCompletesOnce` | `Spec => []OneStopCompletes` |
| | `EndsAtDeadline` | `Spec => []AbandonedAtDeadline` |
| | `LedgerAgrees` | `Spec => []LedgerMatchesSession` |
| | `ManualStartOnce` | `Spec => []ManualRowPerKey` |
| `QuestAttempts_proofs` | `TypeCorrectness` | `Spec => []TypeOK` |
| | `SingleAttempt` | `Spec => []OneAttemptInProgress` |
| | `SingleReward` | `Spec => []RewardedIffPassed` |
| | `GradedInTime` | `MaxLag <= Grace => (Spec => []GradedInGrace)` |
| `Discover_proofs` | `TypeCorrectness` | `Spec => []TypeOK` |
| | `ServiceSpared` | `Spec => []UpstreamSpared` |
| | `TimelyAnswers` | `Spec => []AnswersInTime` |
| | `PageTypeCorrect` | `PageSpec => []PageTypeOK` |
| | `PageListsSound` | `PageSpec => []ListsSound` |
| | `SavedListComplete` | `PageSpec => []SavedComplete` |
| `Accounts_proofs` | `TypeCorrectness` | `Spec => []TypeOK` |
| | `SpentOnce` | `Spec => []StateSpentOnce` |
| | `FailureHasCause` | `Spec => []FailsForCause` |
| | `NoWayBack` | `Spec => LoggedOutStaysOut` |
| `DeviceLinking_proofs` | `TypeCorrectness` | `Spec => []TypeOK` |
| | `AnswersFit` | `Spec => []AnswersAgree` |
| | `ConfigIsSound` | `Spec => []ConfigHoldsItsDevice` |
| | `GrantsStaySettled` | `Spec => GrantsSettled` |
| `DeliveryQueue_proofs` | `TypeCorrectness` | `Spec => []TypeOK` |
| | `NothingLostUnlessTorn` | `Spec => []LostOnlyWhenTorn` |
| | `ServerOrder` | `Spec => []InOrder` |
| | `CheckpointNeverBack` | `Spec => CheckpointMonotone` |
| `TurnState_proofs` | `TypeCorrectness` | `Spec => []TypeOK` |
| | `BeatsAreBounded` | `Spec => []BeatsBounded` |
| `WebClient_proofs` | `TypeCorrectness` | `Spec => []TypeOK` |
| | `RecordsAreSafe` | `Spec => []RecordsSafe` |
| | `ViewMissesNothing` | `Spec => []ViewComplete` |

None of these properties is inductive. The proofs are laid out alike: an inductive invariant that says
what the calls and processes in progress know of the shared state, lemmas about the operators, one lemma per
action (`...KeepsIInv`), `InitIInv`, `NextIInv`, and the theorems from `InductiveInvariant`. TLC has checked each
inductive invariant as an invariant of the instances of section 3, or of smaller ones.

*Session rows.* `IInv` is `TypeOK /\ TableOK(sessions) /\
DeferredWait`. `TableOK` is the parts of `SchemaHolds` and one more: a row not used yet has
no turn, without which a new session of a turn could be the second one.
`DeferredWait` says that a deferred event names a turn and that this turn has no session yet;
without it a start could leave an event deferred, because only the events of the started turn
are replayed.
Rows change by few operators, and one lemma for each (`AfterEventEvolves`, `TouchedEvolves`,
`EndedRow`, `AbandonedRow`, `NewRowOK`) says that the row keeps its constraints and, where it
matters, that it `Evolves`: the same session, in a status at least as far along. `Evolves` is
reflexive and transitive, so it survives the replay of any number of deferred events:
`ReplayUnfolds` unfolds that recursive function and `ReplayEvolves` takes a least
counterexample (`LeastElement`, from the well-foundedness of `<` on `Nat`), since an induction
theorem over an operator cannot be instantiated. `FinishKeepsIInv`, `LinkedTable` and
`NewTurnTableOK` lift the row lemmas to the table, one lemma per action puts them together, and
`NextIInv` and `InductiveInvariant` conclude. For the refinement `LifecycleStep` is the one
fact the actions share: every row but at most one stays or ends, and that one opens or is
revised; `NextInLifecycle` shows it for each action.

*The session ledger.* `LInv` adds the four properties to `IInv`, with what makes them inductive: the
event or key that the transaction in progress answers has no answer yet (`HolderFresh`: two steps
earlier the handler looked it up, under the lock it still holds), and a row not used yet is not a manual
one. What makes `OneStopCompletes` hard is the replay: a start applies all the deferred events of its turn, in any order, and
any number of them may be stops. `OneHit` shows that at most one of them ends the row, since what it leaves is
refused by `EventResult`; `OrdersAreBijections` that the chosen order meets every deferred event once, because
a surjection between finite sets of the same size is injective; `FinishLedger` carries both over to the
ledger rows the replay writes.

*Attempts.* `Held` says what a start has locked stays as it was read: its sessions open, the
attempts it found overdue still to be expired. `OneStart` is the advisory lock of the quest. With them an attempt is inserted only where none is in progress,
although between two steps a session may end, a submission may grade or the expiry job may expire. The
ledger is exactly the passed attempts, and the unique index of `point_ledger` keeps it at one. `GradedByStep`
shows that an attempt is graded by one action only, and from an attempt that was not overdue when the submission read
the clock. `GradedInTime` has
a hypothesis: no session is dated back by more than the grace period. The session core dates an abandoned session
back to its deadline, so this says that the recovery job is not late by more than 5 minutes; the
run `quest_lag` is the instance where it is, and does not check `GradedInGrace`.

*The feed.* `Locked` identifies the holder of the advisory lock with the refresh that is past its
re-check, and keeps the row as old as it was found there. `GatesShut` says that a gate opens no earlier than the last answers
of its instance asked for, which must survive an answer that sets the gate and a later one that does not
(`AskedKeepsGates`, `NotedAnswer`, `OpenAnswer`, `SpentAnswer` for the three kinds of gate); `MayStillAsk` that
the calls a refresh has reserved and not yet made are allowed at the time it reserved them, since it looks
at the gate once. For the answers, `RowGrows` and `ReadsOrdered`
say that whoever has read the row has the newest one of that moment, and `JoinedOK` that a request
joins only a refresh that has read no older row than its own: without the order of the two reads
in `loadSource` an answer could go back in time. `LeftOver` says where the requests that run without the lock come
from: a failed refresh whose call had more than one under way. It is proved from `IInv` and does not take part in it, since
orphans read and write nothing that the rest depends on.

*The page.* The invariant, `PageInv` in `DiscoverPageInv`, has four parts (`PageInvariant`).
`PageShaped` says what is under way: a call has the fields and the step of its kind, the answer to a list
request is a page of one ranking, and the call the page waits for (`Awaited`) asked for the tab
shown or for what follows the cursor shown. `CurrentCalls` adds that it waits for one answer per list and that
no two toggles of an item run at once (`Clash`). This is where `requestSequence` and the
disabled buttons do their work: without them a late answer is a clash. Each action has its lemma (`...Shape`).
`ListsInv` strengthens `ListsSound` with the cursor (`RankedUpTo`): it holds the keys of the last item
shown, in the ranking the list was begun from. `ComesBeforeOrders` shows that the comparison is a
strict total order on keys of one length, `InOrderSorts` that a finite set has its one sequence in such an
order (`InOrder` is defined by counting, so this needs no induction over a list), and `NextPageRanked` that
filtering a ranking by the keys of its `m`-th item leaves what follows it: the next page
continues the list with no gap and no repetition.
`RowsOwned` says that some function gives every row ever created the item it was created for, and that all who name a
row agree with it: the table, the page, and every answer on its way. Without it, deleting one item could take the
row of another off the list.
`SavedInv` says that a list of saved items shown up to a cursor holds all rows of when it was begun down
to that cursor, and that an answer on its way holds all those between its two cursors (`AnswerComplete`), although rows
come and go meanwhile; of rows in one millisecond both promise only the one listed first, since the cursor has passed over the others
(`PastCursor`, `UpTo`). A row that is created does not belong to those of when the list was begun, and can only take the
promise from one of them (`RowsStay`, `FirstStays`). `PageFrame`, `ListTaken`,
`SavedTaken` and `ToggleTaken` say what a step may do to the lists, `HandlerFrame` what it may do to the rows; the last
three parts use only these and the first.

*Accounts.* `CallOK` says what each call in progress knows: a login between its state and its session
holds a spent state that no session names; one that found its user holds the two advisory locks of its identity, and if
it found none there is none; a deletion holds the row of its user in the strongest mode, so that no reward comes
back once the ledger is emptied (`DeletedSoFar`: a reward refers to the user too). Events do come back, and `MetEvent`
says that one of them is what a deletion failed for, at the devices. `Apart` keeps two logins at different states and, once they hold
locks, at different identities. `CallKept` states once what a step must
leave alone so that the other calls keep this, and each action only has to show that much. `NoWayBack` is an action
property: its lemma `OnlyAuthenticatePasses` goes through the actions, and `BrowserOK` says that a session
the browser was told is over is over in the table.

*Device linking.* `RowsOK` says of the tables what the schema does not: a token on a device belongs to a run
that has started, and a code that exists was asked for by a call. `CallOK` says of a call what it was sent for
(`Asked`), that what it read of the row it holds is still true (`Reads`), what is in place once its key
has an answer (`CarriedOut`) and what is not before (`NotYet`), and that a refusal has a reason that does not go away
(`RefusedFor`): this is what makes a second delivery, whose steps may run
much later, come to the same answer. `Fits` relates two calls: the lock of a row has one holder (`Apart`),
a code is spent by one (`SpentOnce`), and after one call found a row expired no other still believes it active
(`Lapses`), since a call reads the clock when it locks the row and decides later. The actions share
`Grows`, in which no grant, spent code or revocation is ever undone; `CallKept` and `FitsKept` show that a call
keeps its facts under any step that `Grows` and `Spares` it, and `StoreKeepsCalls` puts them together for the
steps that write an answer. `RedeemKeepsIInv` serves the connection and the rotation: a swept code is not held
by another call, so no call has read a row that the sweep changes. `StepSettles` goes through the
actions once more for `GrantsSettled`.

*The delivery queue.* `IInv` has three layers. `Typed` holds through any fault: the item a process carries and the queue it has
read keep their types (`JobOK`), nobody has heard of an event before it starts, and `NumbersCounted` bounds the next
number by the processes that have started. `Sound` holds until a waiting process removes the directory of one that is inside (`overlap`):
one process is inside, and the files are as it has read them (`OneInside`, `ProcessOK`). The rest, `Ordered`, needs that and that no enqueue is torn
(`overlap` and a torn process stay, so both may be assumed of both ends of a step). `Sent` is every item a request was, is or
may still be made about: those carried by a process, the strays, and the ledger of the server.
`SentInTurn` says that nothing was sent before what is queued ahead of it, `SentIsKept` and `AckedIsSettled`
that a lifecycle item which was sent is still queued, dead, or covered by a checkpoint that has settled it, and
`NumbersOwn` that a number belongs to one event or to heartbeats merged into each other. `OvertakesNone` draws the
conclusion: an item that the server does not know and nobody gave up has nothing behind it in `Sent`, so a
request that arrives, however late, finds only smaller numbers in the ledger. One lemma for each kind of step
says how the order survives it: `OrderAtRest`, `OrderOfArrival`, `OrderOfCheckpoint` (acknowledging one
item settles all before it) and `OrderOfReading` (for every step that discards, merges or appends). The proof also
corrected the property: with four hooks, one torn enqueue and one item given up, two events have one
number and the server receives them out of turn, which the instances of section 3 are too small to show; hence the
condition in `InOrder`. `CheckpointNeverBack` needs only `Sound`: an answer is recorded after the checkpoint
was read again under the lock, so a torn enqueue does not matter to it.

*The turn state.* `CopyOK` says of every copy of the file, in the file itself, in a hook about to rewrite it or in a
worker about to mark it, that it tells of its turn what hooks of that turn have said: a stale copy may
be behind, but never names a later hook, another start or another process. `BeatOK` is what `BeatsBounded` says of one
heartbeat, already while the worker carries it. Both grow old well, because a turn keeps its window and start, its
last hook only gets later, and a window closes no earlier than now (`CopyKept`, `BeatKept`). One action
breaks that: `ActivateTurn` sets the start of its turn. So `Mentioned` collects the turns that anything speaks
of, and `HookOK` keeps a turn out of it until it is activated. `Framed` states once that a step keeps
the invariant if it keeps it for what it touches and mentions no such turn; `HookMovesKeepsIInv` and
`PloddingKeepsIInv` specialise it to a hook and a worker.

*The old records.* `RecordsSafe` is not inductive: a call that was cut off between the summary
and the marker leaves a summary that a later choice must replace. `LooseEnds` says that such a summary
is whole and that every marker was asked for. `RemovedParts`, `InspectedParts` and `WrittenParts` say
which fields the writes of a call touch, after any number of them; `SummaryIsWhole` that a choice to keep
the records is only completed without a marker, on all of them; `WrittenKeepsIInv` and
`CleanedKeepsIInv` put these together for a call that stops anywhere. The number of tabs, of
refusals and of sessions plays no part.

*The sessions in view.* `HistoryOK` is the loop of `getAllSessionHistory`: of the sessions that were over
when the history was asked for, each one down to the cursor has been read. A page keeps it because of
`PageIsWhole`: what is below the cursor and not below the next one is on the page, although sessions start
and end meanwhile; this counts the rows above a row (`SmallerSet`) and needs a row on every page
that is not the last (`GreatestElement`). `RequestOK` says why a poll loses nothing that was shown: a
session that was shown as active and is not read as active is over by then (`ReadActiveKeepsView`), so it is
among those of the history, which is asked for later. A load asks for both at once: `ReadsAnew` says that a
session shown before is read as active, or is over and read or still below the cursor, and `ServerReadsAnew` that a session
which ends meanwhile stays so, unless it slips between the two reads.
The flag and the status follow the request: a load runs under "loading" and a poll under "ready", so
neither starts beside the other. `GateMoves` keeps the view behind its gate.

*Only model-checked:* liveness under fairness and the one property with ENABLED (`NoCallStuck`), which TLAPS does not
handle. Every other invariant and action property without fairness that a run checks is a theorem.

## 5. Not modelled

* *Rate limits, statistics, quest catalogue*: one atomic SQL statement or read-only queries.
* *Infrastructure, scripts, deployment*: pool, metrics, logging, configuration. That a refresh of a
  source keeps a connection of the pool while it calls upstream is a hazard of real time.
* *Pages without shared state of their own* (`DevicesPage`, `QuestAttemptPage`, the point and quest
  contexts): each sends requests that the server's models cover, and shows the last answer.
* *What an item, a session or a profile says*: text, links, tags, labels, names.
* Per module, what section 2 names as left out.

## 6. What is left

1. `PluginToServer`: `TurnState` and `DeliveryQueue` with the server's reaction of `AiSessions`
   instead of a bare ledger. Promise: a turn whose stop was enqueued is completed at the server, or
   the stop is dead-lettered. The product of the three state spaces is beyond TLC as they
   stand; abstract versions of the first two would be needed.
2. The fault of a process suspended for 30 seconds inside a critical section of the queue.
