------------------------------ MODULE Playback -------------------------------
(***************************************************************************)
(* Lecture playback: LecturePlaybackService in the MCP server process      *)
(* (running playbacks, their timer tasks and browsers, its lock), the      *)
(* client's one call at a time, and what the runtime and the TUI remember  *)
(* of a playback to stop it later.                                         *)
(*                                                                         *)
(* Everything the service does happens inside its asyncio.Lock, so `work'  *)
(* is the await its one holder is suspended at.  A call the client gave up *)
(* (180 s) is still executed by the server.                                *)
(***************************************************************************)
EXTENDS Naturals, FiniteSets

CONSTANTS
    Ids,      \* playback ids; uuid4() never gives one twice
    NoId      \* "no playback"

ASSUME PlaybackAssumption == NoId \notin Ids

VARIABLES
    \* the MCP server process
    server,     \* "up", or "gone" until the TUI connects to a new one
    runs,       \* LecturePlaybackService._runs
    timer,      \* the _stop_after task of each playback
    queued,     \* tool calls waiting for LecturePlaybackService._lock
    work,       \* what the holder of that lock is doing
    parts,      \* browser objects that are open for each playback
    used,       \* ids that uuid4() has given
    \* MySQL
    row,        \* playback_runs.status
    \* the TUI process
    app,        \* "open" or "closed"
    call,       \* the tool call it waits for, and the answer it got
    refs,       \* ProactiveAssistantRuntime._active_playback_refs
    known,      \* playback ids among last_verified_entity_refs
    activeId,   \* EclassQuestApp._active_playback_id
    \* history kept for the properties only
    torn        \* playbacks one of whose close() calls raised

serverVars == <<server, runs, timer, queued, work, parts, used, torn>>
clientVars == <<app, refs, known, activeId>>
vars == <<serverVars, row, clientVars, call>>

-----------------------------------------------------------------------------
\* What play() opens, in this order; closed in the opposite one.
AllParts == {"playwright", "browser", "context"}

Calls   == {"play", "stop"}
Plays   == {"PLAY", "PREVIEW"}      \* ManagerAction of a chat request ...
Stops   == {"STOP", "F2"}           \* ... and the two ways to stop
Final   == {"STOPPED", "TIMED_OUT"}
Opening == {"starting", "launching", "session", "opening", "player"}

Free   == [task |-> "none", id |-> NoId, at |-> "free", ok |-> TRUE]
NoCall == [kind |-> "none", id |-> NoId, answer |-> "none"]

Works == {Free} \cup
    [task : {"play", "stop", "timer"}, id : Ids,
     at : Opening \cup {"recordStart", "closing", "recordEnd"}, ok : BOOLEAN]
ClientCalls == {NoCall} \cup
    [kind : Plays \cup Stops, id : Ids, answer : {"none", "ok", "failed"}]

\* Well-typedness.
TypeOK ==
    /\ server \in {"up", "gone"}
    /\ runs \subseteq Ids
    /\ timer \in [Ids -> {"none", "sleeping", "waiting", "done"}]
    /\ queued \subseteq Calls \X Ids
    /\ work \in Works
    /\ parts \in [Ids -> SUBSET AllParts]
    /\ used \subseteq Ids
    /\ row \in [Ids -> {"none", "PLAYING"} \cup Final]
    /\ app \in {"open", "closed"}
    /\ call \in ClientCalls
    /\ refs \subseteq Ids
    /\ known \subseteq Ids
    /\ activeId \in Ids \cup {NoId}
    /\ torn \subseteq Ids

Init ==
    /\ server = "up"
    /\ runs = {}
    /\ timer = [i \in Ids |-> "none"]
    /\ queued = {}
    /\ work = Free
    /\ parts = [i \in Ids |-> {}]
    /\ used = {}
    /\ row = [i \in Ids |-> "none"]
    /\ app = "open"
    /\ call = NoCall
    /\ refs = {}
    /\ known = {}
    /\ activeId = NoId
    /\ torn = {}

-----------------------------------------------------------------------------
(* The client: one request at a time (_user_task_running, _server_lock).   *)

\* A call reaches the server, or fails at once when the process is gone.
Send(kind, i) ==
    call' = [kind |-> kind, id |-> i,
             answer |-> IF server = "up" THEN "none" ELSE "failed"]

Enqueue(op, i) ==
    queued' = IF server = "up" THEN queued \cup {<<op, i>>} ELSE queued

\* A chat request whose plan plays or previews a resolved lecture.
AskPlay(kind, i) ==
    /\ app = "open" /\ call = NoCall
    /\ kind \in Plays
    /\ i \notin used
    /\ Send(kind, i)
    /\ Enqueue("play", i)
    /\ used' = used \cup {i}
    /\ UNCHANGED <<server, runs, timer, work, parts, torn, row, clientVars>>

\* Bound: no second stop call for a playback while one is in the server.
StopOutstanding(i) ==
    <<"stop", i>> \in queued \/ (work.task = "stop" /\ work.id = i)

\* A chat request that stops a playback the user was shown the id of.
AskStop(i) ==
    /\ app = "open" /\ call = NoCall
    /\ i \in known
    /\ ~StopOutstanding(i)
    /\ Send("STOP", i)
    /\ Enqueue("stop", i)
    /\ UNCHANGED <<server, runs, timer, work, parts, used, torn, row, clientVars>>

\* action_stop_playback and stop_verified_playback: F2 stops the active
\* playback, if the runtime still has it among its references.
PressF2 ==
    /\ app = "open" /\ call = NoCall
    /\ activeId # NoId
    /\ ~StopOutstanding(activeId)
    /\ IF activeId \in refs
         THEN Send("F2", activeId) /\ Enqueue("stop", activeId)
         ELSE /\ call' = [kind |-> "F2", id |-> activeId, answer |-> "failed"]
              /\ UNCHANGED queued
    /\ UNCHANGED <<server, runs, timer, work, parts, used, torn, row, clientVars>>

\* The client's 180 s are over, or the agent that made the call failed.
GiveUp ==
    /\ call # NoCall /\ call.answer = "none"
    /\ call' = [call EXCEPT !.answer = "failed"]
    /\ UNCHANGED <<serverVars, row, clientVars>>

\* The answer of a play call.  `kept': the E-Class agent returned it to the
\* runtime.  `shown': the plan's other steps did not fail, so that the TUI
\* gets a COMPLETED result with the evidence.  Only the text of PLAY, not
\* that of PREVIEW, makes the playback the active one.
TakePlayAnswer(kept, shown) ==
    /\ call.kind \in Plays /\ call.answer # "none"
    /\ kept => call.answer = "ok"
    /\ shown => kept
    /\ refs' = IF kept THEN refs \cup {call.id} ELSE refs
    /\ known' = IF shown THEN known \cup {call.id} ELSE known
    /\ activeId' = IF shown /\ call.kind = "PLAY" THEN call.id ELSE activeId
    /\ call' = NoCall
    /\ UNCHANGED <<serverVars, row, app>>

\* The answer of a stop call made by the agent: whichever playback it
\* stopped, the text of the result clears the active one.
TakeStopAnswer(kept, shown) ==
    /\ call.kind = "STOP" /\ call.answer # "none"
    /\ kept => call.answer = "ok"
    /\ shown => kept
    /\ refs' = IF kept THEN refs \ {call.id} ELSE refs
    /\ activeId' = IF shown THEN NoId ELSE activeId
    /\ call' = NoCall
    /\ UNCHANGED <<serverVars, row, app, known>>

\* The answer of F2: only a COMPLETED stop clears anything.
TakeF2Answer ==
    /\ call.kind = "F2" /\ call.answer # "none"
    /\ refs' = IF call.answer = "ok" THEN refs \ {call.id} ELSE refs
    /\ activeId' = IF call.answer = "ok" THEN NoId ELSE activeId
    /\ call' = NoCall
    /\ UNCHANGED <<serverVars, row, app, known>>

-----------------------------------------------------------------------------
(* The service.                                                            *)

\* The lock is released and the call answered, unless nobody waits for it.
Answered(kinds, i, answer) ==
    IF call.kind \in kinds /\ call.id = i /\ call.answer = "none"
    THEN [call EXCEPT !.answer = answer] ELSE call

LockIsFree == server = "up" /\ work = Free
Holds(tasks, places) ==
    server = "up" /\ work.task \in tasks /\ work.at \in places

\* play() gets the lock.
StartPlay(i) ==
    /\ LockIsFree
    /\ <<"play", i>> \in queued
    /\ queued' = queued \ {<<"play", i>>}
    /\ work' = [task |-> "play", id |-> i, at |-> "starting", ok |-> TRUE]
    /\ UNCHANGED <<server, runs, timer, parts, used, torn, row, clientVars, call>>

Gain(at) == CASE at = "starting"  -> {"playwright"}
              [] at = "launching" -> {"browser"}
              [] at = "session"   -> {"context"}
              [] OTHER            -> {}
After(at) == CASE at = "starting"  -> "launching"
               [] at = "launching" -> "session"
               [] at = "session"   -> "opening"
               [] OTHER            -> "player"

\* Playwright, Chromium, the context with the saved session, the lecture page.
OpenNext ==
    /\ Holds({"play"}, Opening \ {"player"})
    /\ parts' = [parts EXCEPT ![work.id] = @ \cup Gain(work.at)]
    /\ work' = [work EXCEPT !.at = After(work.at)]
    /\ UNCHANGED <<server, runs, timer, queued, used, torn, row, clientVars, call>>

\* Mutant: play() creates no timer task.
RegisterMutant ==
    /\ Holds({"play"}, {"player"})
    /\ runs' = runs \cup {work.id}
    /\ work' = [work EXCEPT !.at = "recordStart"]
    /\ UNCHANGED <<server, timer, queued, parts, used, torn, row, clientVars, call>>

\* The player runs: register the playback, create its timer task.
Register ==
    /\ Holds({"play"}, {"player"})
    /\ runs' = runs \cup {work.id}
    /\ timer' = [timer EXCEPT ![work.id] = "sleeping"]
    /\ work' = [work EXCEPT !.at = "recordStart"]
    /\ UNCHANGED <<server, queued, parts, used, torn, row, clientVars, call>>

\* _record_safely: the row is written, or its failure logged.
RecordStart(written) ==
    /\ Holds({"play"}, {"recordStart"})
    /\ row' = IF written THEN [row EXCEPT ![work.id] = "PLAYING"] ELSE row
    /\ call' = Answered(Plays, work.id, "ok")
    /\ work' = Free
    /\ UNCHANGED <<server, runs, timer, queued, parts, used, torn, clientVars>>

\* async_playwright().start() raises, outside of the try block.
StartRaises ==
    /\ Holds({"play"}, {"starting"})
    /\ call' = Answered(Plays, work.id, "failed")
    /\ work' = Free
    /\ UNCHANGED <<server, runs, timer, queued, parts, used, torn, row, clientVars>>

\* Mutant: a failed play() returns without closing.
OpenRaisesMutant ==
    /\ Holds({"play"}, Opening \ {"starting"})
    /\ work' = Free
    /\ call' = Answered(Plays, work.id, "failed")
    /\ UNCHANGED <<server, runs, timer, queued, parts, used, torn, row, clientVars>>

\* AuthRequiredError or any Exception: close what is open.  The playback is
\* not registered yet: nothing raises after that.
OpenRaises ==
    /\ Holds({"play"}, Opening \ {"starting"})
    /\ work' = [work EXCEPT !.at = "closing"]
    /\ UNCHANGED <<server, runs, timer, queued, parts, used, torn, row, clientVars, call>>

\* Mutant: stop() forgets to cancel the timer.
StartStopMutant(i) ==
    /\ LockIsFree
    /\ <<"stop", i>> \in queued
    /\ i \in runs
    /\ queued' = queued \ {<<"stop", i>>}
    /\ runs' = runs \ {i}
    /\ work' = [task |-> "stop", id |-> i, at |-> "closing", ok |-> TRUE]
    /\ UNCHANGED <<server, timer, parts, used, torn, row, clientVars, call>>

\* stop() gets the lock: take the run out, cancel its timer, wherever it is.
StartStop(i) ==
    /\ LockIsFree
    /\ <<"stop", i>> \in queued
    /\ i \in runs
    /\ queued' = queued \ {<<"stop", i>>}
    /\ runs' = runs \ {i}
    /\ timer' = [timer EXCEPT ![i] = "done"]
    /\ work' = [task |-> "stop", id |-> i, at |-> "closing", ok |-> TRUE]
    /\ UNCHANGED <<server, parts, used, torn, row, clientVars, call>>

\* Mutant: stop() of an unknown playback never answers.
StopMissesMutant(i) ==
    /\ LockIsFree
    /\ <<"stop", i>> \in queued
    /\ i \notin runs
    /\ queued' = queued \ {<<"stop", i>>}
    /\ UNCHANGED <<server, runs, timer, work, parts, used, torn, row, clientVars, call>>

\* stop() finds nothing: NOT_FOUND.
StopMisses(i) ==
    /\ LockIsFree
    /\ <<"stop", i>> \in queued
    /\ i \notin runs
    /\ queued' = queued \ {<<"stop", i>>}
    /\ call' = Answered(Stops, i, "failed")
    /\ UNCHANGED <<server, runs, timer, work, parts, used, torn, row, clientVars>>

\* The sleep of _stop_after ends; the task now waits for the lock.
TimerExpires(i) ==
    /\ server = "up"
    /\ timer[i] = "sleeping"
    /\ timer' = [timer EXCEPT ![i] = "waiting"]
    /\ UNCHANGED <<server, runs, queued, work, parts, used, torn, row, clientVars, call>>

\* Mutant: the timer reads _runs instead of popping the run.
TimerStopsMutant(i) ==
    /\ LockIsFree
    /\ timer[i] = "waiting"
    /\ timer' = [timer EXCEPT ![i] = "done"]
    /\ IF i \in runs
         THEN work' = [task |-> "timer", id |-> i, at |-> "closing", ok |-> TRUE]
         ELSE UNCHANGED work
    /\ UNCHANGED <<server, runs, queued, parts, used, torn, row, clientVars, call>>

\* _stop_after gets the lock and takes the run out, if there is one.
TimerStops(i) ==
    /\ LockIsFree
    /\ timer[i] = "waiting"
    /\ timer' = [timer EXCEPT ![i] = "done"]
    /\ runs' = runs \ {i}
    /\ IF i \in runs
         THEN work' = [task |-> "timer", id |-> i, at |-> "closing", ok |-> TRUE]
         ELSE UNCHANGED work
    /\ UNCHANGED <<server, queued, parts, used, torn, row, clientVars, call>>

\* The part that is closed next, as a set.
Innermost(open) == IF "context" \in open THEN {"context"}
               ELSE IF "browser" \in open THEN {"browser"} ELSE {"playwright"}

\* One close() of _finish or of a failed play(); after the last one a failed
\* play() answers, _finish goes on to its record.
ClosePart ==
    /\ Holds({"play", "stop", "timer"}, {"closing"})
    /\ LET rest == parts[work.id] \ Innermost(parts[work.id])
       IN  /\ parts' = [parts EXCEPT ![work.id] = rest]
           /\ IF rest # {}
                THEN UNCHANGED <<work, call>>
                ELSE IF work.task = "play"
                THEN /\ work' = Free
                     /\ call' = Answered(Plays, work.id, "failed")
                ELSE /\ work' = [work EXCEPT !.at = "recordEnd"]
                     /\ UNCHANGED call
    /\ UNCHANGED <<server, runs, timer, queued, used, torn, row, clientVars>>

\* Mutant: _finish swallows the exception of a close().
CloseRaisesMutant ==
    /\ Holds({"play", "stop", "timer"}, {"closing"})
    /\ torn' = torn \cup {work.id}
    /\ IF work.task = "play"
         THEN /\ work' = Free
              /\ call' = Answered(Plays, work.id, "failed")
         ELSE /\ work' = [work EXCEPT !.at = "recordEnd"]
              /\ UNCHANGED call
    /\ UNCHANGED <<server, runs, timer, queued, parts, used, row, clientVars>>

\* A close() raises: the other objects stay open.  _finish still records.
CloseRaises ==
    /\ Holds({"play", "stop", "timer"}, {"closing"})
    /\ torn' = torn \cup {work.id}
    /\ IF work.task = "play"
         THEN /\ work' = Free
              /\ call' = Answered(Plays, work.id, "failed")
         ELSE /\ work' = [task |-> work.task, id |-> work.id,
                          at |-> "recordEnd", ok |-> FALSE]
              /\ UNCHANGED call
    /\ UNCHANGED <<server, runs, timer, queued, parts, used, row, clientVars>>

\* The finally block of _finish, and the end of stop() or of the timer task.
RecordEnd(written) ==
    /\ Holds({"stop", "timer"}, {"recordEnd"})
    /\ row' = IF written
              THEN [row EXCEPT ![work.id] =
                       IF work.task = "stop" THEN "STOPPED" ELSE "TIMED_OUT"]
              ELSE row
    /\ call' = IF work.task = "stop"
               THEN Answered(Stops, work.id, IF work.ok THEN "ok" ELSE "failed")
               ELSE call
    /\ work' = Free
    /\ UNCHANGED <<server, runs, timer, queued, parts, used, torn, clientVars>>

-----------------------------------------------------------------------------
\* The server process ends, and with it the Playwright driver and Chromium.
ProcessEnds ==
    /\ server' = "gone"
    /\ runs' = {}
    /\ timer' = [i \in Ids |-> "none"]
    /\ queued' = {}
    /\ work' = Free
    /\ parts' = [i \in Ids |-> {}]
    /\ UNCHANGED <<used, torn, row>>

ServerDies ==
    /\ server = "up"
    /\ ProcessEnds
    /\ call' = IF call.answer = "none" /\ call # NoCall
               THEN [call EXCEPT !.answer = "failed"] ELSE call
    /\ UNCHANGED clientVars

\* _ensure_server: the next request finds its connection broken and connects
\* to a new process, which knows nothing of the playbacks before it.
Reconnect ==
    /\ app = "open" /\ call = NoCall
    /\ server = "gone"
    /\ server' = "up"
    /\ UNCHANGED <<runs, timer, queued, work, parts, used, torn, row, clientVars, call>>

\* on_unmount -> shutdown -> close: the lifecycle task ends the MCP process.
\* Textual handles one message at a time: not while a call is waited for.
Quit ==
    /\ app = "open" /\ call = NoCall
    /\ app' = "closed"
    /\ ProcessEnds
    /\ UNCHANGED <<refs, known, activeId, call>>

\* Nothing happens in a closed TUI.
Closed == app = "closed" /\ UNCHANGED vars

ServiceStep ==
    \/ OpenNext \/ Register \/ StartRaises \/ OpenRaises
    \/ ClosePart \/ CloseRaises
    \/ \E written \in BOOLEAN : RecordStart(written) \/ RecordEnd(written)

ClientStep ==
    \/ PressF2 \/ GiveUp \/ TakeF2Answer
    \/ \E i \in Ids : AskStop(i) \/ \E kind \in Plays : AskPlay(kind, i)
    \/ \E kept, shown \in BOOLEAN :
          TakePlayAnswer(kept, shown) \/ TakeStopAnswer(kept, shown)

\* A task of playback i gets the lock.
Acquire(i) ==
    StartPlay(i) \/ StartStop(i) \/ StopMisses(i) \/ TimerStops(i)

Next ==
    \/ ClientStep
    \/ ServiceStep
    \/ \E i \in Ids : TimerExpires(i) \/ Acquire(i)
    \/ ServerDies \/ Reconnect
    \/ Quit
    \/ Closed

Spec == Init /\ [][Next]_vars

\* The event loop runs every ready task, asyncio.Lock is first-come
\* first-served, every await returns or raises, timers expire.
Fairness ==
    /\ WF_vars(ServiceStep)
    /\ \A i \in Ids : WF_vars(TimerExpires(i)) /\ SF_vars(Acquire(i))

LiveSpec == Spec /\ Fairness

-----------------------------------------------------------------------------
(* Properties.                                                             *)

\* Every running playback has a timer task that will end it, and a timer task
\* is pending for running playbacks only: stop() cancels it, a timer that
\* fires takes its run out, whichever gets the lock first.
TimersMatchRuns ==
    \A i \in Ids : i \in runs <=> timer[i] \in {"sleeping", "waiting"}

\* A registered playback has its whole browser: play() registers only what
\* has started, and whoever closes a browser has taken its run out before.
RunsAreOpen == \A i \in runs : parts[i] = AllParts

\* No browser is left behind: what is open belongs to a registered playback,
\* to the task that is opening or closing it, or to a close() that raised.
NoOrphanBrowser ==
    \A i \in Ids : parts[i] # {} => i \in runs \/ i \in torn \/ work.id = i

\* A stop the client is told has succeeded has closed the whole browser.
StopMeansClosed ==
    (call.kind \in Stops /\ call.answer = "ok") => parts[call.id] = {}

\* A playback has one outcome: stop and timer never both finish it, and the
\* PLAYING record never comes after the final one.
OutcomeIsFinal ==
    [][\A i \in Ids : row[i] \in Final => row'[i] = row[i]]_vars

\* Every browser that was opened is closed, unless a close() raised: by the
\* failure of play(), by a stop, or by its timer.
WindowsClose ==
    \A i \in Ids : parts[i] # {} ~> parts[i] = {} \/ i \in torn

\* Every tool call is answered, those that find nothing included.
CallAnswered ==
    (call # NoCall /\ call.answer = "none") ~> (call = NoCall \/ call.answer # "none")

-----------------------------------------------------------------------------
(* The inductive invariant.                                                *)

\* The lock holder's place says what its playback has and does not have yet.
Opened(at) == CASE at = "starting"  -> {}
                [] at = "launching" -> {"playwright"}
                [] at = "session"   -> {"playwright", "browser"}
                [] OTHER            -> AllParts

\* Playbacks nothing has been done for.
Fresh(i) == /\ i \notin runs /\ work.id # i /\ timer[i] = "none"
            /\ row[i] = "none" /\ parts[i] = {}

\* Playbacks whose play() has ended and which do not run (any more).
Over(i) == /\ i \in used /\ i \notin runs
           /\ <<"play", i>> \notin queued /\ work.id # i

FreshInv ==
    \A i \in Ids :
        /\ i \notin used => <<"play", i>> \notin queued
        /\ (i \notin used \/ <<"play", i>> \in queued) => Fresh(i)

WorkInv ==
    /\ work.at \in Opening => /\ work.task = "play" /\ work.id \notin runs
                              /\ timer[work.id] = "none" /\ row[work.id] = "none"
                              /\ parts[work.id] = Opened(work.at)
    /\ work.at = "recordStart" => /\ work.task = "play" /\ work.id \in runs
                                  /\ row[work.id] = "none"
    /\ work.at = "closing" => /\ work.id \notin runs /\ parts[work.id] # {}
                              /\ work.task = "play" \/ work.ok
    /\ work.at = "recordEnd" => /\ work.task # "play" /\ work.id \notin runs
                                /\ work.ok => parts[work.id] = {}
                                /\ ~work.ok => work.id \in torn
    /\ work # Free => row[work.id] \notin Final

RunInv == \A i \in runs : row[i] \notin Final

GoneInv ==
    server = "gone" => /\ runs = {} /\ queued = {} /\ work = Free
                       /\ timer = [i \in Ids |-> "none"]
                       /\ parts = [i \in Ids |-> {}]

StoppedInv ==
    (call.kind \in Stops /\ call.answer = "ok") => Over(call.id) /\ parts[call.id] = {}

IInv ==
    /\ TypeOK
    /\ FreshInv
    /\ WorkInv
    /\ RunInv
    /\ GoneInv
    /\ StoppedInv
    /\ TimersMatchRuns
    /\ RunsAreOpen
    /\ NoOrphanBrowser
=============================================================================
