# Formal model of the E-Class quest agent

TLA+ specifications of the program in `src/` — a terminal assistant that keeps
a mirror of a student's E-Class (LMS) data, warns about changes and deadlines,
and answers requests through a Manager model and specialist handlers — with the
TLC runs that check them on small instances and the TLAPS proofs of the
theorems that hold for instances of any size.

`PROJECT.json` is the machine-readable index: components, runs, one mutant per
checked property, the map from definitions to source lines, the finding, hazards
and theorems. This file is the guide.

## 1. The system

### Parts, state and operations

| Part | Source | State | Operations |
|---|---|---|---|
| Background synchronisation | `app/sync/`, `app/storage/snapshot_repository.py`, `_perform_sync` in `app/tui/app.py` | `SyncService._lock`, `_paused_for_auth`, `_closed`; tables `sync_history`, `entity_snapshots`, `change_events`, `notification_history`, the entity tables | start a worker (start-up, heartbeat, manual), sync, deliver events, mark events, close |
| Missions | `app/storage/mission_repository.py`, `app/agent/mission_handler.py` | table `missions` | create/update from a sync, complete, rename, list |
| Terminal UI | `app/tui/app.py` | operation state, flags, timers, transcript, active playback id | submit input, F2, timers, show results |
| Assistant runtime | `app/runtime/assistant_runtime.py` | `SessionContext`, active playback refs, last exchange, event queue | user request, system event, F2 stop, plan execution |
| MCP client | `app/agent/eclass_mcp_handler.py` | server connection, its lifecycle task, verified references | connect, call a tool, drop the connection, close |
| Playback service | `mcp_server/services/playback.py` | `_runs`, a timer task and a browser for each run | play, stop, timer expiry, close |
| E-Class reading | `mcp_server/services/eclass_read.py`, `course_resolution.py`, adapters, parsers | per-user lock, cache of verified lecture references | read courses, lectures, ..., dashboard snapshot |
| Downloads | `mcp_server/services/downloads.py` | files and their manifest | download, expire |
| Browser session files | `mcp_server/browser/session.py`, `login.py` | encrypted storage state, key file | save, load, refresh |
| Documents | `app/agent/document_handler.py`, `app/document_analysis.py`, `document_mcp_server/` | the file references of one plan | analyse the given files |
| Approval gate | `app/approval.py` | table `pending_approvals` | suspend, resume |
| Event queue | `app/runtime/event_queue.py` | `asyncio.Queue`, known event ids | publish, get, close |
| Database access | `app/storage/database.py`, `models.py`, `alembic/` | connection pool, schema | session, dispose |
| Set-up, deployment, scripts | `app/setup_*.py`, `scripts/`, Docker files | configuration files | — |

### How they interact

`on_mount`, a timer and the user start *sync workers* (Textual worker tasks).
They share one `SyncService`; its lock covers reading E-Class and the database
transaction, not the delivery that follows: `_perform_sync` hands the events of
a completed sync to `ProactiveAssistantRuntime.handle_system_event`, one at a
time, and then marks the change events processed in a transaction of its own.
User requests go through the same runtime object; specialist steps call the
MCP client, which talks to an MCP server process over stdio; that process owns
the browser, the lecture references and the running playbacks. Shared mutable
state between tasks: the SyncService fields, the runtime's session context and
active playback references, the MCP connection, the database rows.

### What is hard

* Workers overlap: a heartbeat while a manual sync reads, a second sync while
  the first one's events are still with the Manager.
* Every await can raise, time out or be cancelled, in the error handlers too.
* A transaction's answer can be lost; a process can end between any two steps.
* Change events must survive all that (at-least-once), deadline warnings must
  never be repeated (at-most-once), and both live in one transaction.
* Snapshots are keyed by fingerprint, so a payload that comes back is not new.
* Timers race with requests (playback expiry against stop).
* A cancellation can be lost on its way: the worker goes on while the TUI quits.

## 2. Modules

| Module | What it is |
|---|---|
| `ChangeStore` | constant-level operators: what `record_snapshot` and `get_pending_manager_events` compute from the rows they find |
| `Sync` | the sync workers, the service, the tables and the delivery; its properties and its inductive invariant `IInv` |
| `AlertOutbox` | abstract specification: at-least-once change events, at-most-once warnings |
| `SyncLive` | fairness and liveness of `Sync` |
| `MCSync` | symmetry of the workers for TLC |
| `Sync_proofs` | type correctness, `IInv`, the safety theorems of `Sync`, and that it implements `AlertOutbox` |
| `Playback` | the playback service, the client's call, and the references the runtime and the TUI keep; its properties and its `IInv` |
| `Playback_proofs` | type correctness, `IInv` and the safety theorems of `Playback` |
| `McpLifecycle` | the connection to the MCP server process, its lifecycle task, its callers, quitting; its properties and its `IInv` |
| `McpLifecycle_proofs` | type correctness, `IInv` and the safety theorems of `McpLifecycle` |
| `Targets` | constant-level operators: how a text and the slots of a task become targets, in the runtime and in the E-Class handler |
| `PlanRuntime`, `MCPlanRuntime` | requests and events, the binding of a plan, its steps, references and audit, the shared context |
| `SpecialistStep` | abstract specification: what the runtime may rely on when it awaits a specialist |
| `EclassStep`, `MCEclassStep` | one call of the E-Class handler: direct routes, the Agent's tool calls, the capture of their answers, the result; implements `SpecialistStep` |
| `Targets_proofs` | what `Keep`, `Distinct` and `SelectForDownload` compute; the invariants and the safety theorems of `EclassStep` and `PlanRuntime`; the safety part of `SpecialistStep` |
| `EclassRead`, `MCEclassRead` | the read service of the MCP server: operations under the user's lock, terms, references, snapshots |
| `EclassRead_proofs` | the invariant and the safety theorems of `EclassRead` |
| `Session` | the stored login, its refresh, reads, downloads and snapshots of two processes |
| `Session_proofs` | the invariant and the safety theorems of `Session` |
| `Downloads` | the download directories: storing, removing, converting, crashes |
| `Downloads_proofs` | the invariant, the safety theorems and `RemovalIsComplete` of `Downloads` |
| `Missions` | the mission rows under overlapping transactions |
| `Missions_proofs` | type correctness, the invariants and `CompletedStays` of `Missions` |

How they fit together: `PlanRuntime` awaits specialist steps and takes their
answers as `SpecialistStep` promises them, which `EclassStep` implements; both
choose attachments by `Targets`. A tool call of `EclassStep` is a call of
`EclassRead`, `Playback` or `Downloads` over the connection of `McpLifecycle`;
an operation of `EclassRead` gets its session as in `Session`. `Sync` hands
events to the runtime (`Notify` of `PlanRuntime`), and the mission rows of its
transaction are those of `Missions`. They are composed through these
interfaces and not as one state space: the parts share no other state.

### ChangeStore and Sync

*Time.* Tasks of one asyncio loop interleave at awaits only, so an action runs
from one await to the next and covers everything in between: `Refuse` is the
whole of a refused `sync()` and of what `_perform_sync` does with its result;
`Persist` is the transaction, the assignments after it and the built events.
A worker's `pc` names the await it is suspended at:

| `pc` | suspended at |
|---|---|
| `scheduled` | `run_worker` was called, the task has not run yet |
| `starting` | `_start_history` inside `wait_for(..., 8)` |
| `reading` | `reader.get_dashboard_snapshot()` |
| `persisting` | the transaction of `persist_entities` |
| `failAuth`, `failTemp` | `_finish_failure` inside the try block |
| `refailing`, `cancelling` | `_finish_failure` in `except Exception` and in `except CancelledError` |
| `delivering` | `runtime.handle_system_event` for one of `job.todo` |
| `marking` | `mark_change_events_processed` |
| `idle`, `raised` | no task; `raised` if `sync()` ended with an exception |

*Database.* A session commits as one step; its reads are those of its start
(MySQL's REPEATABLE READ), which matters for the pending events: `read.seen`
is fixed by `Read`, and another worker may mark events processed before
`Persist`. A commit whose answer is lost (`PersistFails`, `CancelInTry`) is
applied or not, nondeterministically. `row` is the status of the history row
of a running sync; of the rows of earlier syncs only "one is COMPLETED"
(`completed`) is ever read.

*Data.* A payload and its SHA-256 fingerprint are one model value of `Values`.
An entity that is not listed reads as `NoValue` and is left alone, as in the
code, which never deletes. The entity tables hold the last committed reading
(`lastSeen`). A deadline is a pair of an item and one of `Thresholds` warning
windows, the dedupe key of `_candidate`; an item whose due date moves gets new
dedupe keys in the code and is a new item here. The order in which one
transaction creates change events is that of the LMS listing, hence arbitrary
(`Numberings`). `payload.changes[:50]` never cuts, as pending events are
limited to 50 (`PendingLimit`) by their query.

*Manager.* `handle_system_event` is its result: the plan FAILED, or anything
else (`succeeds`), which includes AUTH_REQUIRED and CAPABILITY_NOT_READY; or it
raises, as a document step without an API key does.

*Quitting.* `on_unmount` cancels the worker group, waits for it and closes the
service. The cancellation arrives at the await a worker is suspended at, once
for each. It ends a delivering worker (`CancelOutside`), unless it arrives while
the E-Class handler waits for the cleanup of a stale connection
(`eclass_mcp_handler.py:2763`): then it is swallowed (`CancelSwallowed`, `deaf`),
and the worker goes on delivering and marking while the TUI waits for it
(`GoesOn`). The wait is Textual's; it is modelled by what `on_unmount` uses it
for (`WorkersDone`). Should it raise instead, the process ends from `quitting`
without `Close`, which `ProcessEnds` covers. `ProcessEnds` is also a crash, at
any moment; everything in memory is gone, the tables stay.

*Not in the model:* the `_user_task_running` guards of what is displayed; the
checklists; mission rows, which `persist_entities` writes in the same
transaction and no part of a sync reads (see `Missions`); the cut of a deadline event at 50
items (see hazards).

### AlertOutbox

Four actions over five variables: `Commit` (new events and reservations, all
or nothing; the reservations may be lost with the answer), `Hear`, `Settle`,
`Warn` (some warnings reach the Manager, some never will). `Sync` implements
it with `event <- status`, `heard <- handled`, `owed <- InTransit`,
`warned <- tried`.

### Playback

Two processes. In the *server*, everything `play`, `stop` and a timer do happens
under one `asyncio.Lock`, so `work` names its one holder (task, playback, the
await it is at), `queued` the tool calls waiting for it, and `timer` the
`_stop_after` task of each playback: sleeping, waiting for the lock, done.
`parts` is what is open of Playwright, Chromium and the context; `play()` opens
them in order (`OpenNext`), may fail at any point (`StartRaises`,
`OpenRaises`), registers the run only when the player runs (`Register`), and
`_finish` closes them innermost first (`ClosePart`, `CloseRaises`). The page is
part of the context. `row` is the audit row; a failure to write it is swallowed
(`_record_safely`), so `RecordStart` and `RecordEnd` write it or not.

In the *client*, the TUI handles one request at a time (`call`). `GiveUp` is the
180 s limit of the MCP session or an agent run that fails: the server is not
told and goes on. `Answered` gives an answer only to the call that still waits
for it. The runtime remembers playbacks (`refs`) if the specialist step
completed (`kept`); the TUI's list of verified references and the active
playback additionally need the whole plan to complete (`shown`).

A server that died is gone until the next request finds its connection broken
and connects to a new process (`Reconnect`), which knows nothing of the
playbacks of the old one; their ids stay with the runtime and the TUI.

An id stands for one play request. Bounds: the set of ids; no second stop call
for a playback while one is in the server. Textual handles a key only when the
previous message is done, so neither F2 nor quitting interrupts a call.

### McpLifecycle

`_ensure_server`, `_run_server_lifecycle`, `_clear_server_state` and `close` of
`EclassMcpSpecialistHandler`. Callers are sync workers, whose events start
specialist steps, and the user's request; `pc` is the await each is at, `lock`
the holder of `_server_lock`. The four `_server*` fields are set and reset
together and appear as `current`, an identity of a connection; `life`, `ready`
and `close` are the lifecycle task, ready future and close event of each, `alive`
its subprocess. `Replace` and `Forget` are the two assignments to the fields; an
object nothing refers to is garbage, and its identity is used again.

`on_unmount` cancels the workers. At `await ready` the future is cancelled and
the caller still waits for the cleanup (`CancelConnecting`, `unwinding`). While
it waits for the lifecycle task of a failed connection, asyncio cancels that
task, inside `cleanup()`, whose `except Exception` does not catch it, and
`_clear_server_state` swallows what comes back: the worker goes on with its next
event, and may connect once more while the TUI quits (`CancelClearing`, `deaf`).
Whether the client library left the subprocess behind is not known here (`left`).
`Quit` waits for the user's request as in `Playback`. A specialist step is one
stay inside of the lock; the tools it calls are not distinguished.

### Targets and PlanRuntime

Two actors, the `user` and an `event` of the synchronisation, work on the one
`SessionContext` of the runtime: `history` is `last_verified_entity_refs`,
`snap` is `verified_entity_snapshots`, `current` is `last_request_id`. `job` is
what `handle_user_request` and `handle_system_event` have on their stack; `pc`
is the await: planning (`_create_plan_with_retry`, its second try), running (a
specialist), auditing. Between awaits everything is one action: `Planned` is
the plan with all its bindings, `Admit` the checks of dependencies, `Delegate`
the start of a step with the references a document step gets.

A text is what it matches: the items its number, titles, week, file name or
query select. What the regular expressions accept is not modelled, nor is the
wording of answers. A download is a pair of its number and the file, so that a
new copy of a file differs from an old one. Each step has slots of its own,
which repeat some of what the text says (`ManagerTasks`); the instruction of a
task counts as part of the text. The slots that bind nothing only tell steps
apart: two steps with equal slots in the model may or may not have the same
`step_key` (`Alike`). Event plans are bound to nothing, as events have no text. Left out: the
guardrail's refusal of a text, the JSON lists of older versions, the
conversation, which only prompts read, and the splitting of a task that is cut
at four (`MaxSteps`: a plan with a download step put in front is cut the same
way).

### SpecialistStep and EclassStep

A run of the handler: `task` is drawn from all combinations that the validator
of `ManagerTask` admits. `at` is the await of the direct routes (`resolve`,
`play`, `announcement`, `details`, `list`, `download`) or the Agent's run. The
Agent calls any tool that the allowlist gives the task, in any order, each with
any outcome, ends at any time or raises; `capture` keeps of each tool the last
answer, as `on_tool_end` does. `QueryStatus` is `_expected_operation_guard`.
A tool is named by its role for the entity of the task. `heard`, `plays` and
`lost` are histories: what tools answered, what the server really started, and
which of it never reached the handler: a play that times out or whose answer is
garbled may have started a playback nobody knows of (`Plays`).

### EclassRead

A tool call is a sequence of adapter operations, each under the user's lock,
and other calls run in between (`pc` is the next operation). E-Class changes its
default term (`NextTerm`), lectures appear (`Publish`), the clock advances, the
server restarts and forgets. `Best` is the scoring of `course_resolution.py`:
a score of 100 or more is a
match of the letters in order; mere similarities below that tie within four.
`NOT_FOUND` stands for "no single course" in a call that names one, and, with
the course, for an assignment title that nothing of the course fits
(`ListItems`). A title that is blank or too long is refused at once for a
lecture, after the list was read for an assignment. Filters by
date and the sorting of results are left out.

### Session

A file is a name and a node, as in a file system: `OpenTemp` truncates the node
that the temporary name has, `ReplaceStored` moves whatever node it has. Between
the two the other process may do the same: `clash` records that. A session is
the number of its login. `load`, `page`, `renew`, `login` are the awaits of
`_run_with_auto_relogin` and `refresh_encrypted_session`. What differs between
the four kinds of call is what they do outside of these: a read or a snapshot
takes the user's lock and renews a session that it cannot load; a read that
names its course is two operations with the lock released between them
(`Named`, `Length`); a play has a lock of its own, answers AUTH_REQUIRED if it
cannot load the session, and renews only after a login page; a download takes no
lock and looks at the answer of the LMS instead of a page, which for an `.html`
file it takes for the file, the login page included (`Responses`). `Crash` ends a process or both; it frees their locks and leaves the files.

### Downloads

Storing and removing run without an await, so the calls of the server do not
interleave there; the converter is another process and does. A removal is
taken apart into what `shutil.rmtree` does: list the entries, unlink each,
remove the directory, which fails if Markdown has appeared since
(`RemoveDirectory`). `Crash` ends the server at any of these steps.

### Missions

A transaction (`tx`) reads the rows as of its start (`snap`) and writes the
columns that differ from what it read (`write`); a written row is locked.
`SyncBegins`, `SyncRow`, `SyncCommits` are the mission part of
`persist_entities`; `StepBegins`, `StepFlushes`, `StepCommits` are
`MissionServiceHandler.__call__`, which opens a database of its own for each
step. `Stored` is what the driver and MySQL make of a Seoul time: the same clock
reading without a zone. The listings only read and are left out, and so are titles.

## 3. Runs

The sync, playback and connection runs, `eclass_step`, `plan_runtime` and
`missions` check deadlock. `session`, `downloads` and `eclass_read` do not: each
call is made once, and when all are answered the model stops. Each checked
property has a mutant: the named definition with a plausible bug, under which
the run must fail.

| Run | Instance | What it shows |
|---|---|---|
| `sync_overlap` | 2 workers, 1 entity, 2 payloads | `ProcessedWasHandled`, `OneBaseline`, `NoSpuriousEvent`, `PausedMeansNoHeartbeat`, `ImplementsOutbox` |
| `sync_deadlines` | 2 workers, no entity, an assignment and a lecture | `NoSecondWarning`, with attendance warnings and the start-up briefing |
| `sync_live` | 1 worker, 2 entities, batches of 1 | `QuitCompletes`, `EveryChangeSettled`, with a backlog longer than a batch |
| `playback` | 2 playbacks | `TimersMatchRuns`, `NoOrphanBrowser`, `StopMeansClosed`, `OutcomeIsFinal`, `WindowsClose`, `CallAnswered` |
| `mcp_lifecycle` | 2 workers, 1 user, 4 connections | `Reachable`, `NoHalfOpen`, `ClosedMeansGone`, `StepEnds`, `QuitEnds` |
| `eclass_step` | all task types, 3 files, batches of 2, 3 tool calls | `StatusIsEarned`, `BatchIsWhole`, `IsOneAnswer` (implements `SpecialistStep`), `EclassStepInv`: no playback is hidden, a target plays once and as itself |
| `plan_runtime` | 2 requests, 1 event, plans of 2 steps, 4 references | `DocumentGetsItsFiles`, `BoundAsShown`, `RequestAnswered`, `PlanRuntimeInv`: audits, the file that was named |
| `session` | 3 of: a read that names its course, a download, a play, a snapshot of 2 operations; 1 fault | `WholeUnlessClash`, `AuthMeansRefused`, `Answered`, `SessionInv`: bounded logins |
| `downloads` | 3 downloads, 1 converter, 1 crash | `ServedUntilExpiry`, `RemovalIsComplete`, `DownloadsInv`: manifests vouch for files, no original is left behind |
| `eclass_read` | 2 calls of every kind, 2 terms, 1 restart | `PlayedWasResolved`, `EclassReadInv`: one term in a call |
| `missions` | a sync, 2 steps, 1 item, deadlines on both sides of each limit | `CompletedStays`, `PrioritySettles`, `MissionsInv`: completions are stored, priorities right unless transactions overlapped |
| `plan_doc_substitute` | as `plan_runtime` | see Findings |

The names ending in `Inv` of the last six modules are conjunctions of the
module's type invariant and named state invariants, stated above them.

*Bounds.* Two workers give every overlap: the lock admits one into the
critical section, and delivery involves only the worker itself and the rows.
One entity suffices for what relates payloads, as entities are independent in
the store; two payloads give A, B, A, and an entity unlisted and listed again.
Two entities and `PendingLimit = 1` make the batch limit bite. `Thresholds` is
3 in the code; windows are passed in order and are independent keys. There is no bound on faults, restarts, heartbeats or
requests: these runs explore complete, finite state spaces. Workers are
interchangeable (no CHOOSE, no order among them), hence the symmetry of the
safety runs; the liveness run uses none. Its one worker is enough: a worker
that finds the lock taken does not wait for it, it is refused.

Two playbacks give every race for the service's lock: of a stop with the timer
of its playback, of either with the start or the end of another one, of an
abandoned call with its successor. The space is finite without further bounds.

Four connections are enough for two workers: each can leave at most one
subprocess behind, and a connection is replaced by another one.

`eclass_step`: with three tool calls the Agent can list, act and act again; a
fourth only repeats. Lists of zero to three files against a batch of two give
the empty, the whole and the oversized selection, in an order other than that
of the names. `plan_runtime`: a second request refers to what the first one
listed, an event runs before, during or after either; four utterances bring
number, file name, query and back-references, and tasks repeat all of it or
nothing (`Full`, `Bare`). Four references make the
cut of the history bite (100 in the code), two steps that of the plan (4).
`session`: the server's read, download and play share a process, the snapshot is
in the other one; the second operation of a read or a snapshot can lose the
session the first one had. A behaviour has any three of the four calls
(`MaxCalls`): two can meet in one process while the other saves. One fault each of expiry and death already interleaves with every step. `downloads`:
three, so that one can fail to be removed, one expire after it, and one do the
removing. `eclass_read`: interference is of pairs of calls; a course listed in one term
only and a title that fits two lectures make the answers differ.
`missions`: rows are independent of each other; two steps and a sync give
three transactions on one row. The clock runs past the deadline and past the
shifted one.

*Fairness of `McpLifecycle`.* Weak fairness of a caller inside of the lock, of
the lifecycle task of each connection and of `close()`: their awaits are limited
by the client session's timeout or are `await`s of each other. Strong fairness
of getting the lock, and of a worker's last event, as a sync has finitely many.
The subprocess may die or not; a dead one may never be noticed.

*Fairness of `Playback`.* Weak fairness of the lock holder (`ServiceStep`: every
await of Playwright and of the database returns or raises) and of the sleeping
timers; strong fairness of getting the lock, as `asyncio.Lock` is first come,
first served. None of the client: it may never ask, answer or quit.

*Fairness* (`SyncLive`). A task that can take a step takes one, good or bad:
weak fairness of `SyncStep(w) \/ SyncFault(w)`, of `DeliveryStep(w)` and of
`Cancel(w)` is the event loop together with awaits that return, which the
code secures by the 8 s limit on the first transaction, the 5 s limits of the
pool and the driver, Playwright's default timeouts and the model client's.
The heartbeat timer keeps ticking. `EveryChangeSettled` further assumes that
from some time on the program is up, is not paused for a login and has no
fault; nothing is assumed about what happened before.

*The others.* `EclassStep` and `PlanRuntime`: weak fairness of the step that is
awaited, as calls of tools and models have time limits and the Agent a limit of
turns. `Session`: weak fairness of the calls together; locks go
to whoever takes them, and as each call is made once and has finitely many
steps, none waits for ever unless nothing can move.
`PrioritySettles` assumes no fairness of the specification; its premises are
that complete syncs recur and that titles are at some time no longer updated.

## 4. Proofs

`Sync_proofs` proves, for any finite sets of entities and payloads, any
workers, deadlines and batch limit (`StoreAssumption`, `SyncAssumption`):

* `TypeCorrect`: `Spec => []TypeOK`;
* `InvCorrect`: `Spec => []IInv`, and from it `ChangeDeliveredBeforeSettled`,
  `WarnedAtMostOnce`, `ChangesRecorded`, `PausedStaysQuiet`;
* `EventsAreNews`: `Spec => NoSpuriousEvent`.

and the refinement `SyncImplementsOutbox`: `Spec => ImplementsOutbox`.

*The invariant.* No safety property is inductive alone. `ProcessedWasHandled`
needs to know, when a batch is marked, that the Manager handled it: that is
`BatchInv` for a task whose remaining events hold no LMS_CHANGED, and `TaskInv`
for one that is `marking`. `NoSecondWarning` needs that what is in flight is
reserved, and by one worker only (`DueInv`): reservation in the transaction is
what keeps a later sync away. `OneBaseline` needs that an entity without a
newest snapshot has none, and that events have snapshots; `NoSpuriousEvent`
that a payload read last is either the newest snapshot or has its event
(`StoreInv`). `PausedMeansNoHeartbeat` needs the lock (`LockInv`): whoever
pauses is alone inside.

*The argument.* `StepEffect` sorts the steps once, by what they do to tables
and deliveries; each part of the invariant is then preserved for a few kinds of
step. The refinement uses the same sorting: an answered commit is `Commit` with
its reservations owed, an unanswered one `Commit` without, an answer of the
Manager `Hear` or `Warn`, a marking `Settle`, the end of a task `Warn({}, L)`.

`Playback_proofs` proves for any set of playbacks `InvCorrect`, `TypeCorrect`,
`TimersAreExact`, `NothingOrphaned`, `StopIsTruthful` and `OneOutcome`. Its
invariant adds to the properties what the lock gives: a fresh playback has
nothing (`FreshInv`), the place of the lock holder says what is open and which
row is written (`WorkInv`, `RunInv`), a server that is gone has nothing
(`GoneInv`), and a playback whose stop succeeded is over (`StoppedInv`).
`OutcomeIsFinal` follows since a record is only written by the holder, whose
playback has no final row: stop and timer both take the run out of `_runs`.

`McpLifecycle_proofs` proves for any callers and connections `InvCorrect`,
`TypeCorrect`, `OneConnection`, `NoneHalfOpen`, `ClosedIsGone` and
`ClearingWaits`. `Reachable` needs that whoever resets the fields holds the lock
(`LockInv`) and that the connection it waits for is the one it reset
(`PlaceInv`); `NoHalfOpen` that an error is handed to the caller only when cleanup
has begun (`CurrentInv`); `ClosedMeansGone` that nobody is left when `close()`
runs (`QuitInv`).

`Missions_proofs` proves for any items, mission steps and deadlines
(`MissionAssumption`) `MissionsCorrect` (`Spec => []MissionsInv`) and
`CompletionsStay` (`Spec => CompletedStays`). A transaction writes columns, not
rows, and of a row it may have read long ago: `Merge` is the fact that the
columns which differ between a row and a rewrite of it that reopens nothing,
put into whatever the row has become meanwhile, reopen nothing either. It needs
that a row which was read as completed is completed still (`SnapInv`), and that
what is not completed is never rated LOW (`Sound`); a row completed since is in
`overlapped`, which is what `LowUnlessOverlapped` makes of the lost update of a
priority. `WriteInv` says that only the one sync inserts rows.

`Targets_proofs` proves of `EclassStep`, for any targets, lists of files, batch limits and
outcomes of the Agent (`StepAssumption`) `ResultsAreEarned`, `BatchesAreWhole`,
`EclassStepCorrect`, and `AnswersOnce`, the safety part of `IsOneAnswer`. The
properties speak of the end of a step, the invariant of every moment before it:
what is captured of a tool is an answer that was heard, and of a tool the task
allows (`CaptureInv`); the evidence an Agent run has is of every playback so
far that was answered for, and a direct route plays only what was found again (`PlayInv`); a batch
under way is in the order of the loaded list, within the limit and not yet
complete (`BatchInv`).

Of `PlanRuntime` it proves, for any files, texts, lists, orders of steps and limits
(`RuntimeAssumption`), `DocumentsAreSupplied`, `BindsWhatWasShown` and
`RuntimeCorrect`. The invariant `RuntimeIInv` has a part for the context and one
for each request. `BoundAsShown` needs that the list in the last completed answer
is the one the context holds (`ContextOK`), and that a request which nothing
overlaps still sees that list when its plan arrives (`Undisturbed`): a plan that
fails must leave the context as it was. `DocumentGetsItsFiles` needs that references
of a plan are numbered in the order of their downloads (`NewerLater`), so that
the last copy of a file in the pool is the newest, and that the plan's
own come after those of the history; that all files of a step are in the pool
is what `DocumentRefs` looks at before it answers (`DocumentRefsMutant` does not). `NamedFileOnly` needs that what a plan is bound to, and what its steps
have downloaded so far, are files the text names (`WellNamed`); for the download
without targets this is `SelectionIs`. Its premise is the behaviour that the
finding is about: every download has the name in its slots, or what its slots say
fits no other file (`NamePassedOn`).
`AuditIsOwn` needs no more than that a lone request is the current one.

Both rest on `Keep` and `Distinct` (`dict.fromkeys`), which are recursive functions
on the length of a list. Induction over `Nat` is done with
sets: a set of numbers that contains each number whose smaller ones it contains
is `Nat` (`SetInduction`, from the library's theorem that `<` is well-founded).
Applied to the lengths for which `Keep` has an order-preserving embedding into
its list that misses no match, it gives `KeepIs`, and that `SelectionIs`; for
`Distinct` it gives that the items are those of the list, each once (`DistinctIs`).

`EclassRead_proofs` proves for any courses, lectures, terms, references and
calls (`WorldAssumption`, `NumbersAssumption`, `RequestsAssumption`)
`PlaysWhatWasResolved` and `EclassReadCorrect`. `PlayedWasResolved` needs that a
reference which the server remembers was issued, for the lecture it is
remembered for and with the expiry it has (`ReferenceInv`). That a call works in
one term needs to know, at each place of a call, what its operations so far have
fixed: the course found is one of its term's list (`NamedInv`), a follow-up has
the term of the list before it (`FollowUpInv`), the parts of a snapshot are of
one term (`SnapshotInv`); other calls change `lastTerm` meanwhile.

`Downloads_proofs` proves for any downloads, converters and times
(`IdsAssumption`, `TimeAssumption`) `ServedStays`, `DownloadsCorrect` and
`RemovalCompletes`. A served reference needs what there is of a download at each
place of its call (`PlaceInv`), that what is being removed has expired and keeps
neither file nor manifest that was not listed (`RemovalInv`), that a whole
manifest vouches for a whole file until then (`VouchInv`), and that of the
server's calls only one is between two steps (`MutexInv`); `PairInv` says that
without faults neither file nor manifest is left alone. `RemovalIsComplete` is
an action property: while a removal runs, whatever had expired when it began is
being taken, or still on its list (`SweepInv`).

`Session_proofs` proves for any finite sets of calls, any number of operations
of a synchronisation and of faults (`CallsAssumption`, `BoundsAssumption`)
`StoredStaysWhole`, `AuthHasAReason` and `SessionCorrect`. The file stays whole
because, as long as no two calls have saved at once, the one that saves owns
the node of the temporary name, another one than the stored (`FileInv`); a
counting argument says that such a node exists (`FreshNodeIs`). A call that has
renewed the session finds a renewed one, and the LMS accepts those until it
ends one (`RenewInv`), and where a session was set up there is always a file:
hence `AuthMeansRefused`, which excepts a play where none was. `NoLoginStorm` compares two
numbers and is not inductive; the invariant is that there are at most as many
logins as operations that can log in no more (`Spent`, `StormInv`), and a login
adds its own operation to that set.

*Only model-checked:* liveness (out of the prover's reach: `QuitCompletes`,
`EveryChangeSettled`, `WindowsClose`, `CallAnswered`, `StepEnds`, `QuitEnds`,
`RequestAnswered`, `Answered`, `PrioritySettles`, and of `IsOneAnswer` that the answer
comes), and the finding, which is a counterexample. Every safety property that a
passing run checks is stated by a theorem.

## 5. Findings and known deviations

`plan_doc_substitute` is a run that refutes a statement of the repository's own
text (`PROJECT.json` quotes it): the user names a file that does not exist, the
Manager leaves the name out of the slots, the runtime binds nothing, and the
E-Class handler, which sees only the slots, downloads the other files of the
assignment for the document step.

Also met while modelling; each is the behaviour of the models:

* *Sync.* `sync()` raises instead of returning a result when the history row of
  a failed sync cannot be written either (`service.py:159`; the comment at 62-63
  wants a result always). A refused worker clears `_sync_in_progress` while
  another one is syncing (`app.py:695`). A reserved deadline is lost when the
  answer of the commit is lost or the delivery is cancelled, and no later sync
  warns (`persistence.py:212`). After payloads A, B, A the newest snapshot row
  is B, so a change back to B goes unnoticed (`snapshot_repository.py:58-59`).
* *Playback.* F2 after the timer is answered NOT_FOUND, and the TUI keeps the
  playback as active (`app.py:1052`). `_active_playback_id` is one slot, set by
  PLAY only: during a preview F2 says that nothing is playing (`app.py:987`).
* *Missions.* `update_mission` rates a deadline read from the database nine
  hours late, the zone having been lost (`mission_repository.py:107`); the next
  sync puts it right (`PrioritySettles`). The sync also overwrites a title the user gave
  (`:69`). A mission completed while a sync holds it as PENDING may keep its old
  priority until the next sync (`overlapped`). "Today" is a day in UTC (`:127`).
* *Quitting.* A worker whose cancellation is swallowed goes on with its events,
  and marks them, while `on_unmount` waits (`eclass_mcp_handler.py:2763`).
* *Runtime.* "그 파일" takes the last file first seen, not the one downloaded
  last (`assistant_runtime.py:1308`). Splitting a task into one per file may
  push a later step out of the plan unnoticed (`:1168`). A document step
  without an API key raises past the end of the audit (`document_handler.py:77`).
  A step of a request that an event overtakes is audited under the event's id
  (`assistant_runtime.py:1350`): `AuditIsOwn` speaks of the others.
* *E-Class handler.* Lectures of an ambiguous answer are remembered without
  their course, so that choosing one by number always fails
  (`eclass_mcp_handler.py:2128`). A play of the Agent whose answer is lost is
  played again by the handler (`:1685`): two windows, the first of them unknown to
  the user until its timer closes it.
* *E-Class reading.* Only `list_assignments` inherits the term of the last
  course list (`eclass_read.py:78` speaks of the next tool).
* *Sessions.* A call that waited for a login logs in again (the comment at
  `credential_login.py:20` says otherwise). Two processes that save at once can
  leave a torn file (`session.py:60-63`). Downloads and playback do not take the
  user's lock (`locks.py:10`). A download without a session file answers
  TEMPORARY_FAILURE, not AUTH_REQUIRED (`downloads.py:107`, `253`). A play
  without one answers AUTH_REQUIRED and tries no login, although one is
  configured (`playback.py:131`, `167-180`). For an `.html` file a login page is
  stored as the file (`downloads.py:148`).
* *Downloads.* Markdown written during the removal leaves a directory without
  a manifest that nothing removes (`downloads.py:265`), and so does a crash
  before the manifest is written.

## 6. Not modelled

* *Approval gate, event queue*: nothing in the program calls the gate, and the
  queue is created and closed but never used.
* *Operation state, timers and transcript of the TUI*: only the display reads
  them.
* *Parsers, guardrails, validators of text*: functions of data without state.
* *Document analysis*: calls of a converter and a model in one request; what it
  gets and leaves behind is in `PlanRuntime` and `Downloads`.
* *Set-up, deployment, migrations, scripts*: run once, by hand.
* *Mission listings, the cut of deadline events at 50 items*: see the hazards.

## 7. Plan

Done: all the modules of section 2 with their runs, and proofs of all the safety
properties they check.

Next, in this order: more than 50 items in one deadline event; the answers of
the MCP client told apart by request, so that one may be taken for that of a
later call; the operation state of the TUI; the parsers as functions of an
abstract page.
