-------------------------------- MODULE Sync ---------------------------------
(***************************************************************************)
(* Background synchronisation: the TUI's sync workers (_perform_sync), the *)
(* SyncService they share, the MySQL tables of SyncPersistence and the     *)
(* delivery of change and deadline events to the LMS Manager.              *)
(*                                                                         *)
(* A worker is one Textual worker task.  Tasks interleave at every await,  *)
(* so an action runs from one await to the next.  A database session is    *)
(* one transaction: its effect is one step, except that the rows it reads  *)
(* are those of its start (REPEATABLE READ), and that a commit whose       *)
(* answer never arrives may or may not have been applied.                  *)
(***************************************************************************)
EXTENDS ChangeStore

CONSTANTS
    Workers,       \* sync tasks alive at the same time
    Free,          \* owner of an unlocked lock
    Assignments,   \* open assignments with a due date
    Lectures,      \* open lectures with an attendance deadline
    Thresholds     \* warning windows before a deadline: 24 h, 6 h and 1 h

ASSUME SyncAssumption ==
    /\ Workers # {}
    /\ Free \notin Workers
    /\ Assignments \cap Lectures = {}
    /\ Thresholds \in Nat \ {0}

VARIABLES
    \* E-Class and the clock
    lms,           \* payload each entity is listed with, NoValue if unlisted
    window,        \* warning window of each item: Thresholds + 1 is "more
                   \* than 24 hours left", 0 is "passed or handed in"
    \* MySQL
    stored, latest, status, created,   \* see ChangeStore
    lastSeen,      \* the entity tables: payload of the last committed reading
    reserved,      \* dedupe keys in notification_history
    completed,     \* a row of sync_history says COMPLETED
    row,           \* status of the sync_history row of a running sync
    \* the TUI process
    app,           \* "down", "up", "quitting" (on_unmount), "closed"
    lock,          \* SyncService._lock: its owner, or Free
    paused,        \* SyncService._paused_for_auth
    inProgress,    \* EclassQuestApp._sync_in_progress
    pc, trigger,   \* where a worker is suspended, and its SyncTrigger
    read,          \* what sync() holds between its reading and its commit
    job,           \* what _perform_sync() holds of a COMPLETED result
    deaf,          \* workers whose cancellation was swallowed
    \* history kept for the properties only
    handled,       \* change keys the Manager handled without failing
    tried          \* deadline keys that were handed to the Manager

envVars   == <<lms, window>>
storeVars == <<stored, latest, status, created, reserved, lastSeen>>
logVars   == <<completed, row>>
appVars   == <<app, paused, inProgress>>
taskVars  == <<pc, trigger, read, job, deaf>>
heardVars == <<handled, tried>>
vars == <<envVars, storeVars, logVars, appVars, lock, taskVars, heardVars>>

-----------------------------------------------------------------------------
DueItems == Assignments \cup Lectures
DueKeys  == DueItems \X (1..Thresholds)

Triggers   == {"STARTUP", "HEARTBEAT", "MANUAL"}
EventTypes == {"LMS_CHANGED", "DEADLINE_WARNING", "ATTENDANCE_WARNING",
               "STARTUP_BRIEFING"}
RowStatus  == {"none", "RUNNING", "COMPLETED", "FAILED", "AUTH_REQUIRED"}

\* Suspension points inside `async with self._lock'.
Critical == {"starting", "reading", "persisting", "failAuth", "failTemp",
             "refailing", "cancelling"}
Delivering == {"delivering", "marking"}
\* "raised": sync() ended with an exception that is not a cancellation.
Ended  == {"idle", "raised"}
Places == Ended \cup {"scheduled"} \cup Critical \cup Delivering

NoRead == [view |-> [e \in Entities |-> NoValue],
           seen |-> {}, due |-> {}, open |-> FALSE]
NoJob  == [batch |-> {}, due |-> {}, todo |-> {}, ok |-> TRUE]

Reads == [view : [Entities -> Values \cup {NoValue}],
          seen : SUBSET Keys, due : SUBSET DueKeys, open : BOOLEAN]
Jobs  == [batch : SUBSET Keys, due : SUBSET DueKeys,
          todo : SUBSET EventTypes, ok : BOOLEAN]

\* Well-typedness; every other invariant assumes it.
TypeOK ==
    /\ lms \in [Entities -> Values \cup {NoValue}]
    /\ window \in [DueItems -> 0..(Thresholds + 1)]
    /\ stored \in [Entities -> SUBSET Values]
    /\ latest \in [Entities -> Values \cup {NoValue}]
    /\ status \in [Keys -> EventStatus]
    /\ created \in [Keys -> Nat]
    /\ reserved \subseteq DueKeys
    /\ lastSeen \in [Entities -> Values \cup {NoValue}]
    /\ completed \in BOOLEAN
    /\ row \in [Workers -> RowStatus]
    /\ app \in {"down", "up", "quitting", "closed"}
    /\ lock \in Workers \cup {Free}
    /\ paused \in BOOLEAN
    /\ inProgress \in BOOLEAN
    /\ pc \in [Workers -> Places]
    /\ trigger \in [Workers -> Triggers]
    /\ read \in [Workers -> Reads]
    /\ job \in [Workers -> Jobs]
    /\ deaf \subseteq Workers
    /\ handled \subseteq Keys
    /\ tried \subseteq DueKeys

Init ==
    /\ lms \in [Entities -> Values \cup {NoValue}]
    /\ window = [d \in DueItems |-> Thresholds + 1]
    /\ stored = [e \in Entities |-> {}]
    /\ latest = [e \in Entities |-> NoValue]
    /\ status = [k \in Keys |-> "none"]
    /\ created = [k \in Keys |-> 0]
    /\ reserved = {}
    /\ lastSeen = [e \in Entities |-> NoValue]
    /\ completed = FALSE
    /\ row = [w \in Workers |-> "none"]
    /\ app = "down"
    /\ lock = Free
    /\ paused = FALSE
    /\ inProgress = FALSE
    /\ pc = [w \in Workers |-> "idle"]
    /\ trigger = [w \in Workers |-> "HEARTBEAT"]
    /\ read = [w \in Workers |-> NoRead]
    /\ job = [w \in Workers |-> NoJob]
    /\ deaf = {}
    /\ handled = {}
    /\ tried = {}

-----------------------------------------------------------------------------
(***************************************************************************)
(* E-Class: an entity is listed, edited or unlisted; a deadline comes into *)
(* the next window or passes; the student hands in or watches.             *)
(***************************************************************************)
LmsChange(e, v) ==
    /\ lms[e] # v
    /\ lms' = [lms EXCEPT ![e] = v]
    /\ UNCHANGED <<window, storeVars, logVars, appVars, lock, taskVars, heardVars>>

DeadlineNears(d) ==
    /\ window[d] > 0
    /\ window' = [window EXCEPT ![d] = @ - 1]
    /\ UNCHANGED <<lms, storeVars, logVars, appVars, lock, taskVars, heardVars>>

HandIn(d) ==
    /\ window[d] > 1
    /\ window' = [window EXCEPT ![d] = 0]
    /\ UNCHANGED <<lms, storeVars, logVars, appVars, lock, taskVars, heardVars>>

-----------------------------------------------------------------------------
\* A task that goes on to p, and one that ends, with its locals.
GoTo(w, p) == pc' = [pc EXCEPT ![w] = p] /\ UNCHANGED deaf

End(w, p) ==
    /\ pc' = [pc EXCEPT ![w] = p]
    /\ trigger' = [trigger EXCEPT ![w] = "HEARTBEAT"]
    /\ read' = [read EXCEPT ![w] = NoRead]
    /\ job' = [job EXCEPT ![w] = NoJob]
    /\ deaf' = deaf \ {w}

(***************************************************************************)
(* Starting a worker: on_mount, the heartbeat timer, a manual request.     *)
(***************************************************************************)

\* run_worker(): the task is created and runs at a later turn of the loop.
StartWorker(w, t) ==
    /\ pc[w] \in Ended
    /\ pc' = [pc EXCEPT ![w] = "scheduled"]
    /\ trigger' = [trigger EXCEPT ![w] = t]
    /\ UNCHANGED <<read, job, deaf>>

\* eclass_sync_on_startup decides whether on_mount starts a worker.
Launch ==
    /\ app = "down"
    /\ app' = "up"
    /\ \/ \E w \in Workers : StartWorker(w, "STARTUP")
       \/ UNCHANGED taskVars
    /\ UNCHANGED <<envVars, storeVars, logVars, paused, inProgress, lock, heardVars>>

Heartbeat(w) ==
    /\ app = "up"
    /\ StartWorker(w, "HEARTBEAT")
    /\ UNCHANGED <<envVars, storeVars, logVars, appVars, lock, heardVars>>

\* The user asks for an update, after logging in again if that was needed.
ManualRequest(w) ==
    /\ app = "up"
    /\ StartWorker(w, "MANUAL")
    /\ paused' = FALSE
    /\ UNCHANGED <<envVars, storeVars, logVars, app, inProgress, lock, heardVars>>

-----------------------------------------------------------------------------
(***************************************************************************)
(* sync(): admission.  The checks, the acquisition of a free lock and, for *)
(* a refused call, the rest of _perform_sync run without an await.         *)
(***************************************************************************)
AdmittedMutant(w) == lock = Free

Admitted(w) == lock = Free /\ ~(paused /\ trigger[w] = "HEARTBEAT")

Refuse(w) ==
    /\ app = "up"
    /\ pc[w] = "scheduled"
    /\ ~Admitted(w)
    /\ inProgress' = FALSE
    /\ End(w, "idle")
    /\ UNCHANGED <<envVars, storeVars, logVars, app, paused, lock, heardVars>>

Acquire(w) ==
    /\ app = "up"
    /\ pc[w] = "scheduled"
    /\ Admitted(w)
    /\ lock' = w
    /\ inProgress' = TRUE
    /\ GoTo(w, "starting")
    /\ UNCHANGED <<envVars, storeVars, logVars, app, paused,
                   trigger, read, job, heardVars>>

\* Leaving the critical section with the lock held.
RetireMutant(w, s) ==
    /\ completed' = (completed \/ s = "COMPLETED")
    /\ row' = [row EXCEPT ![w] = "none"]
    /\ lock' = lock

\* The row of w's sync keeps status s for good and the lock is released.
Retire(w, s) ==
    /\ completed' = (completed \/ s = "COMPLETED")
    /\ row' = [row EXCEPT ![w] = "none"]
    /\ lock' = Free

StartHistory(w) ==
    /\ app = "up"
    /\ pc[w] = "starting"
    /\ row' = [row EXCEPT ![w] = "RUNNING"]
    /\ GoTo(w, "reading")
    /\ UNCHANGED <<envVars, storeVars, completed, appVars, lock,
                   trigger, read, job, heardVars>>

\* Exception or 8 s timeout: FAILED is returned and shown.
StartHistoryFails(w) ==
    /\ app = "up"
    /\ pc[w] = "starting"
    /\ Retire(w, "RUNNING")
    /\ inProgress' = FALSE
    /\ End(w, "idle")
    /\ UNCHANGED <<envVars, storeVars, app, paused, heardVars>>

-----------------------------------------------------------------------------
(***************************************************************************)
(* sync(): reading the dashboard, all or nothing, and opening the          *)
(* transaction, whose view of change_events is fixed from here on.         *)
(***************************************************************************)

\* DeadlineService.evaluate: the current window of each open item.
Candidates == {k \in DueKeys : window[k[1]] = k[2]}

Read(w) ==
    /\ app = "up"
    /\ pc[w] = "reading"
    /\ read' = [read EXCEPT ![w] =
                  [view |-> lms,
                   seen |-> {k \in Keys : status[k] = "PENDING"},
                   due  |-> Candidates,
                   open |-> \E d \in DueItems : window[d] > 0]]
    /\ GoTo(w, "persisting")
    /\ UNCHANGED <<envVars, storeVars, logVars, appVars, lock, trigger, job, heardVars>>

\* The session is gone: _finish_failure pauses the heartbeat before it
\* touches the database.
ReadUnauthenticated(w) ==
    /\ app = "up"
    /\ pc[w] = "reading"
    /\ paused' = TRUE
    /\ GoTo(w, "failAuth")
    /\ UNCHANGED <<envVars, storeVars, logVars, app, inProgress, lock,
                   trigger, read, job, heardVars>>

\* Any other error code goes to _finish_failure inside the try block, an
\* exception to the one in the except block.
ReadFails(w) ==
    /\ app = "up"
    /\ pc[w] = "reading"
    /\ \E p \in {"failTemp", "refailing"} : GoTo(w, p)
    /\ UNCHANGED <<envVars, storeVars, logVars, appVars, lock,
                   trigger, read, job, heardVars>>

-----------------------------------------------------------------------------
(***************************************************************************)
(* sync(): persist_entities, one transaction.                              *)
(***************************************************************************)
Inserted(w) == NewEvents(latest, status, read[w].view, completed)

\* Reserving without looking the dedupe key up.
FreshDueMutant(w) == read[w].due

\* _reserve_deadlines: candidates whose dedupe key has no row yet.
FreshDue(w) == read[w].due \ reserved

PersistEntities(w) ==
    /\ stored' = StoreSnapshots(stored, latest, read[w].view)
    /\ latest' = LatestSnapshots(stored, latest, read[w].view)
    /\ status' = [k \in Keys |-> IF k \in Inserted(w) THEN "PENDING" ELSE status[k]]
    /\ \E n \in Numberings(Inserted(w), Cardinality({k \in Keys : status[k] # "none"})) :
          created' = [k \in Keys |-> IF k \in Inserted(w) THEN n[k] ELSE created[k]]
    /\ reserved' = reserved \cup FreshDue(w)
    /\ lastSeen' = [e \in Entities |-> IF read[w].view[e] # NoValue
                                       THEN read[w].view[e] ELSE lastSeen[e]]

\* The items of `due' an event of type t is about.
About(t, due) ==
    {k \in due : \/ t = "DEADLINE_WARNING" /\ k[1] \in Assignments
                 \/ t = "ATTENDANCE_WARNING" /\ k[1] \in Lectures}

BuildEvents(t, batch, due, open) ==
    LET news == {x \in EventTypes : \/ x = "LMS_CHANGED" /\ batch # {}
                                    \/ About(x, due) # {}}
    IN  IF news = {} /\ t = "STARTUP" /\ open THEN {"STARTUP_BRIEFING"} ELSE news

\* Handing over what this sync found and nothing an earlier one left.
BatchMutant(w) == OldestPending(Inserted(w), created')

\* get_pending_manager_events, in the transaction that inserts.
Batch(w) == OldestPending(read[w].seen \cup Inserted(w), created')

\* The transaction commits and sync() returns COMPLETED.
Persist(w) ==
    /\ app = "up"
    /\ pc[w] = "persisting"
    /\ PersistEntities(w)
    /\ Retire(w, "COMPLETED")
    /\ paused' = FALSE
    /\ job' = [job EXCEPT ![w] =
                 [batch |-> Batch(w), due |-> FreshDue(w), ok |-> TRUE,
                  todo |-> BuildEvents(trigger[w], Batch(w), FreshDue(w), read[w].open)]]
    /\ read' = [read EXCEPT ![w] = NoRead]
    /\ GoTo(w, "delivering")
    /\ UNCHANGED <<envVars, app, inProgress, trigger, heardVars>>

\* The transaction has an exception for the service; MySQL may have applied
\* it nevertheless when it was the answer to COMMIT that was lost.
PersistUnknown(w) ==
    \/ /\ PersistEntities(w)
       /\ row' = [row EXCEPT ![w] = "COMPLETED"]
    \/ UNCHANGED <<storeVars, row>>

PersistFails(w) ==
    /\ app = "up"
    /\ pc[w] = "persisting"
    /\ PersistUnknown(w)
    /\ read' = [read EXCEPT ![w] = NoRead]
    /\ GoTo(w, "refailing")
    /\ UNCHANGED <<envVars, completed, appVars, lock, trigger, job, heardVars>>

-----------------------------------------------------------------------------
(***************************************************************************)
(* sync(): _finish_failure, in the try block (failAuth, failTemp) or in    *)
(* its except blocks (refailing, cancelling).                              *)
(***************************************************************************)
FailureCode(w) == IF pc[w] = "failAuth" THEN "AUTH_REQUIRED" ELSE "FAILED"

\* The row is written; _perform_sync shows the result, without an await.
FinishFailure(w) ==
    /\ app = "up"
    /\ pc[w] \in {"failAuth", "failTemp", "refailing"}
    /\ Retire(w, FailureCode(w))
    /\ inProgress' = FALSE
    /\ End(w, "idle")
    /\ UNCHANGED <<envVars, storeVars, app, paused, heardVars>>

\* Inside the try block, the except block tries once more.
FinishFailureRetries(w) ==
    /\ app = "up"
    /\ pc[w] \in {"failAuth", "failTemp"}
    /\ \E s \in {row[w], FailureCode(w)} : row' = [row EXCEPT ![w] = s]
    /\ GoTo(w, "refailing")
    /\ UNCHANGED <<envVars, storeVars, completed, appVars, lock,
                   trigger, read, job, heardVars>>

\* In the except block nothing catches it: sync() raises and the worker ends
\* before it clears _sync_in_progress.
FinishFailureRaises(w) ==
    /\ app = "up"
    /\ pc[w] = "refailing"
    /\ \E s \in {row[w], "FAILED"} : Retire(w, s)
    /\ End(w, "raised")
    /\ UNCHANGED <<envVars, storeVars, appVars, heardVars>>

-----------------------------------------------------------------------------
(***************************************************************************)
(* _perform_sync: delivery of a COMPLETED result, outside the lock.        *)
(***************************************************************************)
Rank == [t \in EventTypes |-> CASE t = "LMS_CHANGED" -> 1
                                [] t = "DEADLINE_WARNING" -> 2
                                [] t = "ATTENDANCE_WARNING" -> 3
                                [] OTHER -> 4]

\* The delivery of w goes on: the program is up, or w has missed that it
\* was cancelled.
GoesOn(w) == app = "up" \/ (app = "quitting" /\ w \in deaf)

IsNextEvent(w, t) ==
    /\ GoesOn(w)
    /\ pc[w] = "delivering"
    /\ t \in job[w].todo
    /\ \A u \in job[w].todo : Rank[t] <= Rank[u]

\* Change keys an event of type t carries.
Carried(w, t) == IF t = "LMS_CHANGED" THEN job[w].batch ELSE {}

\* handle_system_event returns.  The Manager's plan may fail; any other end,
\* AUTH_REQUIRED and CAPABILITY_NOT_READY included, counts as success here.
Handle(w, t, succeeds) ==
    /\ IsNextEvent(w, t)
    /\ job' = [job EXCEPT ![w].todo = @ \ {t}, ![w].ok = @ /\ succeeds]
    /\ handled' = IF succeeds THEN handled \cup Carried(w, t) ELSE handled
    /\ tried' = tried \cup About(t, job[w].due)
    /\ UNCHANGED <<envVars, storeVars, logVars, appVars, lock, pc, trigger, read, deaf>>

\* handle_system_event raises (a missing API key inside a specialist step):
\* the worker ends as it stands.
HandleRaises(w, t) ==
    /\ IsNextEvent(w, t)
    /\ tried' = tried \cup About(t, job[w].due)
    /\ End(w, "idle")
    /\ UNCHANGED <<envVars, storeVars, logVars, appVars, lock, handled>>

\* Marks a batch whose delivery failed as well.
MayMarkMutant(w) == job[w].batch # {}

MayMark(w) == job[w].batch # {} /\ job[w].ok

FinishDelivery(w) ==
    /\ GoesOn(w)
    /\ pc[w] = "delivering"
    /\ job[w].todo = {}
    /\ IF MayMark(w)
       THEN /\ GoTo(w, "marking")
            /\ UNCHANGED <<inProgress, trigger, read, job>>
       ELSE /\ End(w, "idle")
            /\ inProgress' = FALSE
    /\ UNCHANGED <<envVars, storeVars, logVars, app, paused, lock, heardVars>>

\* mark_change_events_processed, one transaction over the batch.
MarkProcessed(w) ==
    status' = [k \in Keys |-> IF k \in job[w].batch /\ status[k] = "PENDING"
                              THEN "PROCESSED" ELSE status[k]]

Mark(w) ==
    /\ GoesOn(w)
    /\ pc[w] = "marking"
    /\ MarkProcessed(w)
    /\ inProgress' = FALSE
    /\ End(w, "idle")
    /\ UNCHANGED <<envVars, stored, latest, created, reserved, lastSeen, logVars, app, paused, lock, heardVars>>

MarkRaises(w) ==
    /\ GoesOn(w)
    /\ pc[w] = "marking"
    /\ MarkProcessed(w) \/ UNCHANGED status
    /\ End(w, "idle")
    /\ UNCHANGED <<envVars, stored, latest, created, reserved, lastSeen, logVars, appVars, lock, heardVars>>

-----------------------------------------------------------------------------
(***************************************************************************)
(* on_unmount: cancel the group, wait for it, close the service.           *)
(***************************************************************************)
Quit ==
    /\ app = "up"
    /\ app' = "quitting"
    /\ UNCHANGED <<envVars, storeVars, logVars, paused, inProgress, lock, taskVars,
                   heardVars>>

\* cancel_group cancels a worker once.
Cancellable(w) == app = "quitting" /\ w \notin deaf

\* CancelledError where it finds nothing to undo: before the first turn, or
\* while a delivery waits for the Manager or for the marking transaction.
CancelOutside(w) ==
    /\ Cancellable(w)
    /\ pc[w] \in {"scheduled"} \cup Delivering
    /\ \/ pc[w] = "marking" /\ MarkProcessed(w)
       \/ UNCHANGED status
    /\ End(w, "idle")
    /\ UNCHANGED <<envVars, stored, latest, created, reserved, lastSeen, logVars, appVars, lock, heardVars>>

\* CancelledError inside the Manager's run, while the E-Class handler waits
\* for the cleanup of a stale connection: `except BaseException' takes it,
\* and the delivery goes on as if the program were up.
CancelSwallowed(w) ==
    /\ Cancellable(w)
    /\ pc[w] = "delivering" /\ job[w].todo # {}
    /\ deaf' = deaf \cup {w}
    /\ UNCHANGED <<envVars, storeVars, logVars, appVars, lock, pc, trigger, read, job, heardVars>>

\* CancelledError in the try block: its handler writes the row once more.
CancelInTry(w) ==
    /\ app = "quitting"
    /\ pc[w] \in {"reading", "persisting", "failAuth", "failTemp"}
    /\ \/ pc[w] = "reading" /\ UNCHANGED <<storeVars, row>>
       \/ pc[w] = "persisting" /\ PersistUnknown(w)
       \/ /\ pc[w] \in {"failAuth", "failTemp"}
          /\ \E s \in {row[w], FailureCode(w)} : row' = [row EXCEPT ![w] = s]
          /\ UNCHANGED storeVars
    /\ read' = [read EXCEPT ![w] = NoRead]
    /\ GoTo(w, "cancelling")
    /\ UNCHANGED <<envVars, completed, appVars, lock, trigger, job, heardVars>>

\* CancelledError inside the lock but outside the try block, and the end of
\* the handler: the lock is released, whatever became of the row.
CancelOut(w) ==
    /\ app = "quitting"
    /\ pc[w] \in {"starting", "refailing", "cancelling"}
    /\ \E s \in {row[w], "FAILED"} : Retire(w, s)
    /\ End(w, "idle")
    /\ UNCHANGED <<envVars, storeVars, appVars, heardVars>>

WorkersDone == \A w \in Workers : pc[w] \in Ended

Close ==
    /\ app = "quitting"
    /\ WorkersDone
    /\ lock = Free
    /\ app' = "closed"
    /\ UNCHANGED <<envVars, storeVars, logVars, paused, inProgress, lock, taskVars,
                   heardVars>>

\* The process ends: after Close, or at any moment by a kill or a crash.
\* The rows of syncs that were running stay as they are.
ProcessEnds ==
    /\ app # "down"
    /\ app' = "down"
    /\ lock' = Free
    /\ paused' = FALSE
    /\ inProgress' = FALSE
    /\ pc' = [w \in Workers |-> "idle"]
    /\ trigger' = [w \in Workers |-> "HEARTBEAT"]
    /\ read' = [w \in Workers |-> NoRead]
    /\ job' = [w \in Workers |-> NoJob]
    /\ deaf' = {}
    /\ completed' = (completed \/ \E w \in Workers : row[w] = "COMPLETED")
    /\ row' = [w \in Workers |-> "none"]
    /\ UNCHANGED <<envVars, storeVars, heardVars>>

-----------------------------------------------------------------------------
Environment ==
    \/ \E e \in Entities : \E v \in Values \cup {NoValue} : LmsChange(e, v)
    \/ \E d \in DueItems : DeadlineNears(d) \/ HandIn(d)

SyncStep(w) ==
    \/ Refuse(w) \/ Acquire(w) \/ StartHistory(w) \/ Read(w) \/ Persist(w)
    \/ FinishFailure(w)

SyncFault(w) ==
    \/ StartHistoryFails(w) \/ ReadUnauthenticated(w) \/ ReadFails(w)
    \/ PersistFails(w) \/ FinishFailureRetries(w) \/ FinishFailureRaises(w)

DeliveryStep(w) ==
    \/ \E t \in EventTypes : \E succeeds \in BOOLEAN : Handle(w, t, succeeds)
    \/ \E t \in EventTypes : HandleRaises(w, t)
    \/ FinishDelivery(w) \/ Mark(w) \/ MarkRaises(w)

Cancel(w) ==
    CancelOutside(w) \/ CancelSwallowed(w) \/ CancelInTry(w) \/ CancelOut(w)

Lifecycle == Launch \/ Quit \/ Close \/ ProcessEnds

Next ==
    \/ Environment
    \/ Lifecycle
    \/ \E w \in Workers : \/ Heartbeat(w) \/ ManualRequest(w)
                          \/ SyncStep(w) \/ SyncFault(w)
                          \/ DeliveryStep(w) \/ Cancel(w)

Spec == Init /\ [][Next]_vars

-----------------------------------------------------------------------------
(***************************************************************************)
(* Safety.                                                                 *)
(***************************************************************************)

\* A change event is marked PROCESSED only after a Manager run that carried
\* it and did not fail: at-least-once delivery, across overlapping workers,
\* failed deliveries, cancellations and crashes.
ProcessedWasHandled ==
    \A k \in Keys : status[k] = "PROCESSED" => k \in handled

\* No deadline is about to be handed to the Manager a second time, by any
\* worker and in any later run of the program: at-most-once delivery.
NoSecondWarning ==
    \A w \in Workers : \A t \in job[w].todo : About(t, job[w].due) \cap tried = {}

\* Every stored payload of an entity but one, its baseline, has a change
\* event: no change to a new payload goes unrecorded, whatever transactions
\* were applied while their sync was reported as failed.
OneBaseline ==
    \A e \in Entities : \A u, v \in stored[e] :
        status[<<e, u>>] = "none" /\ status[<<e, v>>] = "none" => u = v

\* A change event is created only when the entity was last read with
\* another payload, or was never read before.
NoSpuriousEvent ==
    [][\A k \in Keys : status[k] = "none" /\ status'[k] # "none"
                       => lastSeen[k[1]] # k[2]]_vars

\* While synchronisation is paused for a login, no heartbeat is anywhere
\* between its admission and its commit.
PausedMeansNoHeartbeat ==
    paused => \A w \in Workers :
        trigger[w] = "HEARTBEAT" => pc[w] \notin {"starting", "reading", "persisting"}

\* Deadlines that are still to be handed to the Manager.
InTransit ==
    {k \in DueKeys : \E w \in Workers : \E t \in job[w].todo : k \in About(t, job[w].due)}

Outbox == INSTANCE AlertOutbox WITH
    Changes <- Keys, Warnings <- DueKeys,
    event <- status, heard <- handled, reserved <- reserved,
    owed <- InTransit, warned <- tried

\* Synchronisation implements the outbox: every step of a task, a fault, a
\* cancellation or a crash is one step of the outbox or none.
ImplementsOutbox == Outbox!Spec

(***************************************************************************)
(* The strengthening the proofs use.                                       *)
(***************************************************************************)

\* The lock has an owner exactly while that worker is inside it, and only
\* its sync has an unfinished history row.
LockInv ==
    /\ \A w \in Workers : pc[w] \in Critical <=> lock = w
    /\ \A w \in Workers : row[w] # "none" => pc[w] \in Critical

\* What a task holds, by where it is suspended.
TaskInv ==
    \A w \in Workers :
        /\ pc[w] # "persisting" => read[w] = NoRead
        /\ pc[w] \notin Delivering => job[w] = NoJob
        /\ pc[w] = "marking" => job[w].ok /\ job[w].todo = {}

\* What a task takes for a change event is one, and a batch leaves its hands
\* only through the Manager.
BatchInv ==
    \A w \in Workers :
        /\ \A k \in read[w].seen \cup job[w].batch : status[k] # "none"
        /\ job[w].ok /\ "LMS_CHANGED" \notin job[w].todo => job[w].batch \subseteq handled

\* Deadlines in flight are reserved, by one worker each.
DueInv ==
    /\ tried \subseteq reserved
    /\ \A w \in Workers : job[w].due \subseteq reserved
    /\ \A v, w \in Workers : v # w => job[v].due \cap job[w].due = {}

\* How the snapshot rows, the change events and the last reading relate.
StoreInv ==
    \A e \in Entities :
        /\ latest[e] = NoValue => stored[e] = {}
        /\ \A v \in Values : status[<<e, v>>] # "none" => v \in stored[e]
        /\ \A v \in Values : lastSeen[e] = v =>
              latest[e] = v \/ status[<<e, v>>] # "none"

IInv ==
    /\ TypeOK
    /\ LockInv
    /\ TaskInv
    /\ BatchInv
    /\ DueInv
    /\ StoreInv
    /\ ProcessedWasHandled
    /\ NoSecondWarning
    /\ OneBaseline
    /\ PausedMeansNoHeartbeat
=============================================================================
