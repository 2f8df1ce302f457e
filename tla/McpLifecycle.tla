---------------------------- MODULE McpLifecycle ------------------------------
(***************************************************************************)
(* The connection of EclassMcpSpecialistHandler to its MCP server process: *)
(* one lifecycle task per connection connects, waits for its close event   *)
(* and cleans up; callers share the connection under _server_lock and      *)
(* replace it when it is stale.                                            *)
(*                                                                         *)
(* Callers are the tasks that run a specialist step: sync workers that     *)
(* deliver events, which quitting cancels, and the user's request, which   *)
(* it waits for.  The four fields _server, _server_lifecycle_task,         *)
(* _server_close_event and _server_ready are always set and cleared        *)
(* together, without an await in between: `current' stands for them.  The  *)
(* objects of a connection they do not refer to any more are garbage, and  *)
(* its identity is free again unless its subprocess was left behind.       *)
(***************************************************************************)
EXTENDS Naturals, FiniteSets

CONSTANTS
    Workers,    \* sync worker tasks
    Users,      \* tasks of user requests
    Servers,    \* identities of connections
    NoServer, NoOne, Closer

Callers == Workers \cup Users

ASSUME CallerAssumption ==
    /\ Workers \cap Users = {}
    /\ NoOne \notin Callers /\ Closer \notin Callers /\ NoOne # Closer
    /\ NoServer \notin Servers

VARIABLES
    app,        \* the TUI: "open", "quitting", "closing", "clearing", "closed"
    pc,         \* the await each caller is suspended at
    lock,       \* who holds _server_lock
    current,    \* the connection the four fields refer to
    life,       \* the lifecycle task of each connection
    ready,      \* its _server_ready future
    close,      \* its close event is set
    alive,      \* its subprocess runs
    deaf,       \* workers whose cancellation was swallowed
    cut         \* connections whose cleanup was cancelled (history)

connVars == <<life, ready, close, alive, cut>>
vars == <<app, pc, lock, current, connVars, deaf>>

-----------------------------------------------------------------------------
Places == {"idle",          \* not in a specialist step
           "waiting",       \* for _server_lock
           "connecting",    \* for the ready future, in _ensure_server
           "clearing",      \* for the lifecycle, to raise the connect error
           "unwinding",     \* for the lifecycle, to raise CancelledError
           "calling",       \* for a tool call or an agent run
           "ended"}         \* the worker task is over

Lives == {"none", "connecting", "serving", "cleaning", "done"}

\* Well-typedness.
TypeOK ==
    /\ app \in {"open", "quitting", "closing", "clearing", "closed"}
    /\ pc \in [Callers -> Places]
    /\ lock \in Callers \cup {Closer, NoOne}
    /\ current \in Servers \cup {NoServer}
    /\ life \in [Servers -> Lives]
    /\ ready \in [Servers -> {"none", "pending", "ok", "failed", "cancelled"}]
    /\ close \in [Servers -> BOOLEAN]
    /\ alive \in [Servers -> BOOLEAN]
    /\ deaf \subseteq Workers
    /\ cut \subseteq Servers

Init ==
    /\ app = "open"
    /\ pc = [c \in Callers |-> "idle"]
    /\ lock = NoOne
    /\ current = NoServer
    /\ life = [s \in Servers |-> "none"]
    /\ ready = [s \in Servers |-> "none"]
    /\ close = [s \in Servers |-> FALSE]
    /\ alive = [s \in Servers |-> FALSE]
    /\ deaf = {}
    /\ cut = {}

-----------------------------------------------------------------------------
(* Callers.                                                                *)

Goto(c, place) == pc' = [pc EXCEPT ![c] = place]

\* A specialist step begins.  A worker that missed its cancellation goes on
\* with its next event.
Ask(c) ==
    /\ pc[c] = "idle"
    /\ app = "open" \/ (app = "quitting" /\ c \in deaf)
    /\ Goto(c, "waiting")
    /\ UNCHANGED <<app, lock, current, connVars, deaf>>

\* The four fields after the lifecycle of the connection they refer to.
Forget ==
    /\ current' = NoServer
    /\ life' = [life EXCEPT ![current] = "none"]
    /\ ready' = [ready EXCEPT ![current] = "none"]
    /\ close' = [close EXCEPT ![current] = FALSE]

\* A connection, and its lifecycle task, in place of the one (or none) the
\* fields refer to.
Replace(s) ==
    /\ life[s] = "none" /\ ~alive[s]
    /\ current' = s
    /\ life' = [t \in Servers |->
                  IF t = s THEN "connecting" ELSE IF t = current THEN "none" ELSE life[t]]
    /\ ready' = [t \in Servers |->
                   IF t = s THEN "pending" ELSE IF t = current THEN "none" ELSE ready[t]]
    /\ close' = [t \in Servers |-> t # s /\ t # current /\ close[t]]
    /\ alive' = [alive EXCEPT ![s] = TRUE]

\* The test of _ensure_server on the connection it finds.
Stale(s) == life[s] = "done" \/ ready[s] \in {"failed", "cancelled"}

\* _server_lock, then _ensure_server finds a connection to use.
Reuse(c) ==
    /\ pc[c] = "waiting" /\ lock = NoOne
    /\ current # NoServer /\ ~Stale(current)
    /\ lock' = c
    /\ Goto(c, IF ready[current] = "pending" THEN "connecting" ELSE "calling")
    /\ UNCHANGED <<app, current, connVars, deaf>>

\* Mutant: whatever is in the fields is replaced.
ConnectMutant(c, s) ==
    /\ pc[c] = "waiting" /\ lock = NoOne
    /\ life[s] = "none" /\ ~alive[s]
    /\ lock' = c
    /\ current' = s
    /\ life' = [life EXCEPT ![s] = "connecting"]
    /\ ready' = [ready EXCEPT ![s] = "pending"]
    /\ close' = [close EXCEPT ![s] = FALSE]
    /\ alive' = [alive EXCEPT ![s] = TRUE]
    /\ Goto(c, "connecting")
    /\ UNCHANGED <<app, deaf, cut>>

\* _server_lock, then _ensure_server finds no connection, or a stale one:
\* its lifecycle is over (NoHalfOpen), so that clearing it does not wait.
Connect(c, s) ==
    /\ pc[c] = "waiting" /\ lock = NoOne
    /\ current # NoServer => Stale(current)
    /\ lock' = c
    /\ Replace(s)
    /\ Goto(c, "connecting")
    /\ UNCHANGED <<app, deaf, cut>>

\* The ready future has its result.
Connected(c) ==
    /\ pc[c] = "connecting" /\ ready[current] = "ok"
    /\ Goto(c, "calling")
    /\ UNCHANGED <<app, lock, current, connVars, deaf>>

\* The ready future raises: _clear_server_state waits for the lifecycle.
ConnectError(c) ==
    /\ pc[c] = "connecting" /\ ready[current] = "failed"
    /\ close' = [close EXCEPT ![current] = TRUE]
    /\ Goto(c, "clearing")
    /\ UNCHANGED <<app, lock, current, life, ready, alive, cut, deaf>>

\* Mutant: a connection that fails is tried again, without a limit.
ClearedRetryMutant(c) ==
    /\ pc[c] \in {"clearing", "unwinding"} /\ life[current] = "done"
    /\ Forget
    /\ lock' = NoOne
    /\ Goto(c, IF pc[c] = "clearing" THEN "waiting" ELSE "ended")
    /\ UNCHANGED <<app, alive, deaf, cut>>

\* The lifecycle is over: reset the fields, raise the error or CancelledError.
Cleared(c) ==
    /\ pc[c] \in {"clearing", "unwinding"} /\ life[current] = "done"
    /\ Forget
    /\ lock' = NoOne
    /\ Goto(c, IF pc[c] = "clearing" THEN "idle" ELSE "ended")
    /\ UNCHANGED <<app, alive, deaf, cut>>

\* The tool calls of the step are answered, fail or time out.
CallEnds(c) ==
    /\ pc[c] = "calling"
    /\ lock' = NoOne
    /\ Goto(c, "idle")
    /\ UNCHANGED <<app, current, connVars, deaf>>

-----------------------------------------------------------------------------
(* The lifecycle task of connection s.                                     *)

\* connect() returns; if the close event is set already, cleanup begins.
ConnectReturns(s) ==
    /\ life[s] = "connecting"
    /\ ready' = [ready EXCEPT ![s] = IF @ = "pending" THEN "ok" ELSE @]
    /\ life' = [life EXCEPT ![s] = IF close[s] THEN "cleaning" ELSE "serving"]
    /\ UNCHANGED <<app, pc, lock, current, close, alive, cut, deaf>>

\* connect() raises.
ConnectRaises(s) ==
    /\ life[s] = "connecting"
    /\ ready' = [ready EXCEPT ![s] = IF @ = "pending" THEN "failed" ELSE @]
    /\ life' = [life EXCEPT ![s] = "cleaning"]
    /\ UNCHANGED <<app, pc, lock, current, close, alive, cut, deaf>>

\* The close event.
StopServing(s) ==
    /\ life[s] = "serving" /\ close[s]
    /\ life' = [life EXCEPT ![s] = "cleaning"]
    /\ UNCHANGED <<app, pc, lock, current, ready, close, alive, cut, deaf>>

\* The client library gives up the connection to a dead subprocess: its task
\* group cancels the lifecycle.  It may also never notice.
ConnectionBreaks(s) ==
    /\ life[s] = "serving" /\ ~alive[s]
    /\ life' = [life EXCEPT ![s] = "cleaning"]
    /\ UNCHANGED <<app, pc, lock, current, ready, close, alive, cut, deaf>>

\* cleanup() ends, or raises an Exception: the task is over.
CleanupEnds(s) ==
    /\ life[s] = "cleaning"
    /\ life' = [life EXCEPT ![s] = "done"]
    /\ alive' = [alive EXCEPT ![s] = FALSE]
    /\ UNCHANGED <<app, pc, lock, current, ready, close, cut, deaf>>

\* The MCP server process dies.
ServerDies(s) ==
    /\ life[s] = "serving" /\ alive[s]
    /\ alive' = [alive EXCEPT ![s] = FALSE]
    /\ UNCHANGED <<app, pc, lock, current, life, ready, close, cut, deaf>>

-----------------------------------------------------------------------------
(* Quitting: on_unmount cancels the workers, waits for them and closes.    *)

\* Textual handles one message at a time: not during a user's request.
Quit ==
    /\ app = "open"
    /\ \A u \in Users : pc[u] = "idle"
    /\ app' = "quitting"
    /\ UNCHANGED <<pc, lock, current, connVars, deaf>>

Cancellable(c) == app = "quitting" /\ c \in Workers \ deaf

\* Outside of the lock, or waiting for it.
CancelOutside(c) ==
    /\ Cancellable(c) /\ pc[c] \in {"idle", "waiting"}
    /\ Goto(c, "ended")
    /\ UNCHANGED <<app, lock, current, connVars, deaf>>

\* Mutant: a cancelled caller leaves the half-open connection.
CancelConnectingMutant(c) ==
    /\ Cancellable(c) /\ pc[c] = "connecting"
    /\ ready' = [ready EXCEPT ![current] = IF @ = "pending" THEN "cancelled" ELSE @]
    /\ lock' = NoOne
    /\ Goto(c, "ended")
    /\ UNCHANGED <<app, current, life, close, alive, cut, deaf>>

\* While it awaits the ready future, which is cancelled with it.
CancelConnecting(c) ==
    /\ Cancellable(c) /\ pc[c] = "connecting"
    /\ ready' = [ready EXCEPT ![current] = IF @ = "pending" THEN "cancelled" ELSE @]
    /\ close' = [close EXCEPT ![current] = TRUE]
    /\ Goto(c, "unwinding")
    /\ UNCHANGED <<app, lock, current, life, alive, cut, deaf>>

\* While it awaits the lifecycle: that task is cancelled instead, inside
\* cleanup(), whose CancelledError nobody catches; _clear_server_state
\* swallows the caller's.  The subprocess may be left running.
CancelClearing(c, left) ==
    /\ Cancellable(c) /\ pc[c] = "clearing"
    /\ deaf' = deaf \cup {c}
    /\ IF life[current] = "cleaning"
         THEN /\ life' = [life EXCEPT ![current] = "done"]
              /\ alive' = [alive EXCEPT ![current] = @ /\ left]
              /\ cut' = cut \cup {current}
         ELSE UNCHANGED <<life, alive, cut>>
    /\ UNCHANGED <<app, pc, lock, current, ready, close>>

\* During a tool call.
CancelCalling(c) ==
    /\ Cancellable(c) /\ pc[c] = "calling"
    /\ lock' = NoOne
    /\ Goto(c, "ended")
    /\ UNCHANGED <<app, current, connVars, deaf>>

Cancel(c) ==
    \/ CancelOutside(c) \/ CancelConnecting(c) \/ CancelCalling(c)
    \/ \E left \in BOOLEAN : CancelClearing(c, left)

\* A worker that missed its cancellation has delivered its last event.
WorkerEnds(c) ==
    /\ app = "quitting" /\ c \in deaf /\ pc[c] = "idle"
    /\ Goto(c, "ended")
    /\ UNCHANGED <<app, lock, current, connVars, deaf>>

\* All workers are over: runtime.shutdown calls close().
Shutdown ==
    /\ app = "quitting"
    /\ \A w \in Workers : pc[w] = "ended"
    /\ app' = "closing"
    /\ UNCHANGED <<pc, lock, current, connVars, deaf>>

\* close() gets the lock: nothing to wait for.
CloseAtOnce ==
    /\ app = "closing" /\ lock = NoOne
    /\ app' = "closed"
    /\ \/ current = NoServer /\ UNCHANGED <<current, life, ready, close>>
       \/ current # NoServer /\ life[current] = "done" /\ Forget
    /\ UNCHANGED <<pc, lock, alive, deaf, cut>>

\* Mutant: close() does not set the close event.
CloseBeginsMutant ==
    /\ app = "closing" /\ lock = NoOne
    /\ current # NoServer /\ life[current] # "done"
    /\ app' = "clearing"
    /\ lock' = Closer
    /\ UNCHANGED <<pc, current, life, ready, close, alive, cut, deaf>>

\* close() gets the lock: set the close event, wait for the lifecycle.
CloseBegins ==
    /\ app = "closing" /\ lock = NoOne
    /\ current # NoServer /\ life[current] # "done"
    /\ app' = "clearing"
    /\ lock' = Closer
    /\ close' = [close EXCEPT ![current] = TRUE]
    /\ UNCHANGED <<pc, current, life, ready, alive, cut, deaf>>

\* Mutant: close() does not wait for the lifecycle.
CloseEndsMutant ==
    /\ app = "clearing"
    /\ app' = "closed"
    /\ current' = NoServer
    /\ lock' = NoOne
    /\ UNCHANGED <<pc, connVars, deaf>>

\* The lifecycle is over: reset the fields.
CloseEnds ==
    /\ app = "clearing" /\ life[current] = "done"
    /\ app' = "closed"
    /\ Forget
    /\ lock' = NoOne
    /\ UNCHANGED <<pc, alive, deaf, cut>>

\* The TUI is gone.
Closed == app = "closed" /\ UNCHANGED vars

-----------------------------------------------------------------------------
CallerStep(c) ==
    \/ Connected(c) \/ ConnectError(c) \/ Cleared(c) \/ CallEnds(c)
Enter(c) == Reuse(c) \/ \E s \in Servers : Connect(c, s)
LifeStep(s) ==
    ConnectReturns(s) \/ ConnectRaises(s) \/ StopServing(s) \/ CleanupEnds(s)
CloseStep == Shutdown \/ CloseAtOnce \/ CloseBegins \/ CloseEnds

Next ==
    \/ \E c \in Callers : Ask(c) \/ Enter(c) \/ CallerStep(c)
    \/ \E w \in Workers : Cancel(w) \/ WorkerEnds(w)
    \/ \E s \in Servers : LifeStep(s) \/ ServerDies(s) \/ ConnectionBreaks(s)
    \/ Quit \/ CloseStep \/ Closed

Spec == Init /\ [][Next]_vars

\* The event loop runs ready tasks, awaits return, asyncio.Lock is first come,
\* first served; a worker has finitely many events left to deliver.
Fairness ==
    /\ \A c \in Callers : WF_vars(CallerStep(c)) /\ SF_vars(Enter(c))
    /\ \A w \in Workers : WF_vars(Cancel(w)) /\ SF_vars(WorkerEnds(w))
    /\ \A s \in Servers : WF_vars(LifeStep(s))
    /\ WF_vars(CloseStep)

LiveSpec == Spec /\ Fairness

-----------------------------------------------------------------------------
(* The inductive invariant of the proofs.                                  *)

Holding == {"connecting", "clearing", "unwinding", "calling"}

\* Who is inside of the lock.
LockInv ==
    /\ \A c \in Callers : pc[c] \in Holding <=> lock = c
    /\ lock = Closer <=> app = "clearing"

\* The one connection that is not over or garbage.
CurrentInv ==
    /\ \A s \in Servers : life[s] # "none" => current = s
    /\ current # NoServer => /\ life[current] # "none"
                             /\ ready[current] # "none"
                             /\ ready[current] = "pending" => life[current] = "connecting"
                             /\ ready[current] = "failed" => life[current] \in {"cleaning", "done"}
    /\ \A s \in Servers : alive[s] /\ life[s] \in {"none", "done"} => s \in cut

\* What the place of the lock holder says of the connection.
PlaceInv ==
    \A c \in Callers : pc[c] \in Holding =>
        /\ current # NoServer
        /\ pc[c] = "clearing" => life[current] \in {"cleaning", "done"}
        /\ pc[c] = "connecting" => ready[current] \in {"pending", "ok", "failed"}
        /\ pc[c] = "calling" => ready[current] = "ok"

\* What quitting has reached.
QuitInv ==
    /\ app # "open" => \A u \in Users : pc[u] = "idle"
    /\ app \in {"closing", "clearing", "closed"} => \A w \in Workers : pc[w] = "ended"
    /\ app = "clearing" => current # NoServer
    /\ app = "closed" => current = NoServer

-----------------------------------------------------------------------------
(* Properties.                                                             *)

\* A lifecycle task that is not over is the one the fields refer to: close()
\* reaches every subprocess, and a new one is started only after the cleanup
\* of the old one.
Reachable ==
    \A s \in Servers : life[s] \in {"connecting", "serving", "cleaning"} => current = s

\* Whoever gives the lock back leaves no connection or one that was made: a
\* failed or cancelled caller never leaves the next one a half-open object.
NoHalfOpen ==
    (lock = NoOne /\ current # NoServer) => ready[current] = "ok"

\* After close() no subprocess runs and no task is left, unless a cleanup
\* was cancelled.
ClosedMeansGone ==
    app = "closed" => /\ current = NoServer
                      /\ \A s \in Servers : /\ life[s] = "none"
                                            /\ alive[s] => s \in cut

\* The inductive invariant.
IInv ==
    /\ TypeOK /\ LockInv /\ CurrentInv /\ PlaceInv /\ QuitInv
    /\ Reachable /\ NoHalfOpen /\ ClosedMeansGone

\* The references are dropped only after the lifecycle has ended.
ClearWaits ==
    [][(current # NoServer /\ current' # current) => life[current] = "done"]_vars

\* Every specialist step ends, whatever the connection does.
StepEnds ==
    \A c \in Callers : pc[c] = "waiting" ~> pc[c] \in {"idle", "ended"}

\* Quitting does not hang, not even for a worker that missed its cancellation.
QuitEnds == app = "quitting" ~> app = "closed"
=============================================================================
