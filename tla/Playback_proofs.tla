--------------------------- MODULE Playback_proofs ---------------------------
(***************************************************************************)
(* Proofs about Playback, for every set of playback ids.                   *)
(***************************************************************************)
EXTENDS Playback, TLAPS

\* Records the lock holder is described by.
LEMMA MadeWork ==
    ASSUME NEW t \in {"play", "stop", "timer"}, NEW i \in Ids, NEW o \in BOOLEAN,
           NEW a \in Opening \cup {"recordStart", "closing", "recordEnd"}
    PROVE  [task |-> t, id |-> i, at |-> a, ok |-> o] \in Works
BY DEF Works

\* Every step preserves well-typedness.
LEMMA TypeStep ==
    ASSUME TypeOK, [Next]_vars
    PROVE  TypeOK'
<1> USE PlaybackAssumption DEF TypeOK, Works, ClientCalls, Free, NoCall, Opening,
        Calls, Plays, Stops, Final, AllParts
<1>1. CASE UNCHANGED vars
  BY <1>1 DEF vars, serverVars, clientVars
<1>2. CASE PressF2
  BY <1>2 DEF PressF2, Send, Enqueue, clientVars
<1>3. CASE GiveUp
  BY <1>3 DEF GiveUp, serverVars, clientVars
<1>4. CASE TakeF2Answer
  BY <1>4 DEF TakeF2Answer, serverVars
<1>5. ASSUME NEW i \in Ids, AskStop(i) PROVE TypeOK'
  BY <1>5 DEF AskStop, Send, Enqueue, clientVars
<1>6. ASSUME NEW kind \in Plays, NEW i \in Ids, AskPlay(kind, i) PROVE TypeOK'
  BY <1>6 DEF AskPlay, Send, Enqueue, clientVars
<1>7. ASSUME NEW kept \in BOOLEAN, NEW shown \in BOOLEAN, TakePlayAnswer(kept, shown)
      PROVE  TypeOK'
  BY <1>7 DEF TakePlayAnswer, serverVars
<1>8. ASSUME NEW kept \in BOOLEAN, NEW shown \in BOOLEAN, TakeStopAnswer(kept, shown)
      PROVE  TypeOK'
  BY <1>8 DEF TakeStopAnswer, serverVars
<1>9. CASE OpenNext
  <2>1. work.id \in Ids /\ work.at \in Opening /\ work \in Works \ {Free}
    BY <1>9 DEF OpenNext, Holds
  <2>2. Gain(work.at) \subseteq AllParts /\ After(work.at) \in Opening
    BY DEF Gain, After
  <2>3. work' \in Works
    <3>1. work' = [work EXCEPT !.at = After(work.at)]
      BY <1>9 DEF OpenNext
    <3>2. QED
      BY <2>1, <2>2, <3>1
  <2>5. parts' \in [Ids -> SUBSET AllParts]
    <3>1. parts' = [parts EXCEPT ![work.id] = @ \cup Gain(work.at)]
      BY <1>9 DEF OpenNext
    <3>2. QED
      BY <2>1, <2>2, <3>1
  <2>4. QED
    BY <1>9, <2>3, <2>5 DEF OpenNext, clientVars
<1>10. CASE Register
  BY <1>10 DEF Register, Holds, clientVars
<1>11. CASE StartRaises
  BY <1>11 DEF StartRaises, Holds, Answered, clientVars
<1>12. CASE OpenRaises
  BY <1>12 DEF OpenRaises, Holds, clientVars
<1>13. CASE ClosePart
  BY <1>13 DEF ClosePart, Holds, Answered, Innermost, clientVars
<1>14. CASE CloseRaises
  <2>1. work.id \in Ids /\ work.task \in {"play", "stop", "timer"}
    BY <1>14 DEF CloseRaises, Holds
  <2>2. work' \in Works
    <3>1. work' = Free \/ work' = [task |-> work.task, id |-> work.id,
                                   at |-> "recordEnd", ok |-> FALSE]
      BY <1>14 DEF CloseRaises
    <3>2. [task |-> work.task, id |-> work.id, at |-> "recordEnd", ok |-> FALSE] \in Works
      BY <2>1, MadeWork
    <3>3. QED
      BY <3>1, <3>2
  <2>3. call' \in ClientCalls
    BY <1>14 DEF CloseRaises, Answered
  <2>4. QED
    BY <1>14, <2>1, <2>2, <2>3 DEF CloseRaises, clientVars
<1>15. ASSUME NEW written \in BOOLEAN, RecordStart(written) PROVE TypeOK'
  BY <1>15 DEF RecordStart, Holds, Answered, clientVars
<1>16. ASSUME NEW written \in BOOLEAN, RecordEnd(written) PROVE TypeOK'
  BY <1>16 DEF RecordEnd, Holds, Answered, clientVars
<1>17. ASSUME NEW i \in Ids, StartPlay(i) PROVE TypeOK'
  BY <1>17 DEF StartPlay, LockIsFree, clientVars
<1>18. ASSUME NEW i \in Ids, StartStop(i) PROVE TypeOK'
  BY <1>18 DEF StartStop, LockIsFree, clientVars
<1>19. ASSUME NEW i \in Ids, StopMisses(i) PROVE TypeOK'
  BY <1>19 DEF StopMisses, LockIsFree, Answered, clientVars
<1>20. ASSUME NEW i \in Ids, TimerExpires(i) PROVE TypeOK'
  BY <1>20 DEF TimerExpires, clientVars
<1>21. ASSUME NEW i \in Ids, TimerStops(i) PROVE TypeOK'
  <2>1. work' \in Works
    <3>1. work' = work \/ work' = [task |-> "timer", id |-> i,
                                   at |-> "closing", ok |-> TRUE]
      BY <1>21 DEF TimerStops
    <3>2. [task |-> "timer", id |-> i, at |-> "closing", ok |-> TRUE] \in Works
      BY MadeWork
    <3>3. QED
      BY <3>1, <3>2
  <2>2. runs' \subseteq Ids /\ timer' \in [Ids -> {"none", "sleeping", "waiting", "done"}]
    BY <1>21 DEF TimerStops
  <2>3. QED
    BY <1>21, <2>1, <2>2 DEF TimerStops, clientVars
<1>22. CASE ServerDies
  BY <1>22 DEF ServerDies, ProcessEnds, clientVars
<1>23. CASE Quit
  BY <1>23 DEF Quit, ProcessEnds
<1>24. CASE Reconnect
  BY <1>24 DEF Reconnect, clientVars
<1>25. QED
  BY <1>1, <1>2, <1>3, <1>4, <1>5, <1>6, <1>7, <1>8, <1>9, <1>10, <1>11, <1>12,
     <1>13, <1>14, <1>15, <1>16, <1>17, <1>18, <1>19, <1>20, <1>21, <1>22, <1>23, <1>24
     DEF Next, ClientStep, ServiceStep, Acquire, Closed

-----------------------------------------------------------------------------
\* The invariant without well-typedness.
Consistent ==
    /\ FreshInv /\ WorkInv /\ RunInv /\ GoneInv /\ StoppedInv
    /\ TimersMatchRuns /\ RunsAreOpen /\ NoOrphanBrowser

\* What is known of the playback the lock holder works on.
LEMMA Holder ==
    ASSUME IInv, work # Free
    PROVE  /\ work.id \in Ids /\ work.task \in {"play", "stop", "timer"}
           /\ work.at \in Opening \cup {"recordStart", "closing", "recordEnd"}
           /\ work.id \in used /\ <<"play", work.id>> \notin queued
<1>1. /\ work.id \in Ids /\ work.task \in {"play", "stop", "timer"}
      /\ work.at \in Opening \cup {"recordStart", "closing", "recordEnd"}
  BY DEF IInv, TypeOK, Works
<1>2. QED
  BY <1>1 DEF IInv, FreshInv, Fresh

\* Every step preserves the inductive invariant.
LEMMA InvStep ==
    ASSUME IInv, [Next]_vars
    PROVE  IInv'
<1> USE PlaybackAssumption DEF Free, NoCall, Opening, Plays, Stops, Final
<1>0. TypeOK /\ TypeOK' /\ Consistent
  BY TypeStep DEF IInv, Consistent
<1>1. ASSUME PressF2 PROVE Consistent'
  BY <1>0, <1>1
     DEF TypeOK, Works, ClientCalls, Consistent, FreshInv, Fresh, WorkInv, Opened,
         RunInv, GoneInv, StoppedInv, Over, TimersMatchRuns, RunsAreOpen,
         NoOrphanBrowser, PressF2, Send, Enqueue
<1>2. ASSUME GiveUp PROVE Consistent'
  BY <1>0, <1>2
     DEF TypeOK, Works, ClientCalls, Consistent, FreshInv, Fresh, WorkInv, Opened,
         RunInv, GoneInv, StoppedInv, Over, TimersMatchRuns, RunsAreOpen,
         NoOrphanBrowser, GiveUp, serverVars
<1>3. ASSUME TakeF2Answer PROVE Consistent'
  BY <1>0, <1>3
     DEF TypeOK, Works, ClientCalls, Consistent, FreshInv, Fresh, WorkInv, Opened,
         RunInv, GoneInv, StoppedInv, Over, TimersMatchRuns, RunsAreOpen,
         NoOrphanBrowser, TakeF2Answer, serverVars
<1>4. ASSUME NEW i \in Ids, AskStop(i) PROVE Consistent'
  BY <1>0, <1>4
     DEF TypeOK, Works, ClientCalls, Consistent, FreshInv, Fresh, WorkInv, Opened,
         RunInv, GoneInv, StoppedInv, Over, TimersMatchRuns, RunsAreOpen,
         NoOrphanBrowser, AskStop, Send, Enqueue
<1>5. ASSUME NEW kind \in Plays, NEW i \in Ids, AskPlay(kind, i) PROVE Consistent'
  BY <1>0, <1>5
     DEF TypeOK, Works, ClientCalls, Consistent, FreshInv, Fresh, WorkInv, Opened,
         RunInv, GoneInv, StoppedInv, Over, TimersMatchRuns, RunsAreOpen,
         NoOrphanBrowser, AskPlay, Send, Enqueue
<1>6. ASSUME NEW kept \in BOOLEAN, NEW shown \in BOOLEAN, TakePlayAnswer(kept, shown)
      PROVE  Consistent'
  BY <1>0, <1>6
     DEF TypeOK, Works, ClientCalls, Consistent, FreshInv, Fresh, WorkInv, Opened,
         RunInv, GoneInv, StoppedInv, Over, TimersMatchRuns, RunsAreOpen,
         NoOrphanBrowser, TakePlayAnswer, serverVars
<1>7. ASSUME NEW kept \in BOOLEAN, NEW shown \in BOOLEAN, TakeStopAnswer(kept, shown)
      PROVE  Consistent'
  BY <1>0, <1>7
     DEF TypeOK, Works, ClientCalls, Consistent, FreshInv, Fresh, WorkInv, Opened,
         RunInv, GoneInv, StoppedInv, Over, TimersMatchRuns, RunsAreOpen,
         NoOrphanBrowser, TakeStopAnswer, serverVars
<1>8. ASSUME OpenNext PROVE Consistent'
  <2>1. FreshInv'
    <3>1. /\ work # Free /\ work'.id = work.id /\ UNCHANGED <<runs, timer, queued, used, row>>
      BY <1>0, <1>8 DEF OpenNext, Holds, TypeOK, Works
    <3>2. \A j \in Ids \ {work.id} : parts'[j] = parts[j]
      BY <1>0, <1>8 DEF OpenNext, TypeOK
    <3>3. QED
      BY <1>0, <3>1, <3>2, Holder DEF Consistent, FreshInv, Fresh
  <2>2. WorkInv'
    <3>1. /\ work # Free /\ work.task = "play" /\ work.at \in {"starting", "launching", "session", "opening"}
          /\ work.id \in Ids /\ UNCHANGED <<runs, timer, row>>
      BY <1>0, <1>8 DEF OpenNext, Holds, TypeOK, Works
    <3>2. /\ work'.id = work.id /\ work'.task = "play" /\ work'.at = After(work.at)
          /\ parts'[work.id] = parts[work.id] \cup Gain(work.at)
      BY <1>0, <1>8, <3>1 DEF OpenNext, TypeOK, Works
    <3>3. After(work.at) \in {"launching", "session", "opening", "player"}
      BY <3>1 DEF After
    <3>4. parts'[work.id] = Opened(After(work.at))
      BY <1>0, <3>1, <3>2 DEF Consistent, WorkInv, Opened, After, Gain, AllParts
    <3>5. QED
      BY <1>0, <3>1, <3>2, <3>3, <3>4 DEF Consistent, WorkInv
  <2>3. RunInv'
    BY <1>0, <1>8
       DEF TypeOK, Works, ClientCalls, Consistent, RunInv, FreshInv, Fresh, WorkInv,
           OpenNext, Holds, Gain, After
  <2>4. GoneInv'
    BY <1>0, <1>8
       DEF TypeOK, Works, ClientCalls, Consistent, GoneInv, OpenNext, Holds, Gain,
           After
  <2>5. StoppedInv'
    BY <1>0, <1>8
       DEF TypeOK, Works, ClientCalls, Consistent, StoppedInv, Over, WorkInv,
           FreshInv, Fresh, OpenNext, Holds, Gain, After
  <2>6. TimersMatchRuns'
    BY <1>0, <1>8
       DEF TypeOK, Works, ClientCalls, Consistent, TimersMatchRuns, WorkInv,
           OpenNext, Holds, Gain, After
  <2>7. RunsAreOpen'
    BY <1>0, <1>8
       DEF TypeOK, Works, ClientCalls, Consistent, RunsAreOpen, WorkInv, Opened,
           AllParts, OpenNext, Holds, Gain, After
  <2>8. NoOrphanBrowser'
    BY <1>0, <1>8
       DEF TypeOK, Works, ClientCalls, Consistent, NoOrphanBrowser, WorkInv,
           FreshInv, Fresh, OpenNext, Holds, Gain, After
  <2>9. QED
    BY <2>1, <2>2, <2>3, <2>4, <2>5, <2>6, <2>7, <2>8 DEF Consistent
<1>9. ASSUME Register PROVE Consistent'
  <2>1. FreshInv'
    <3>1. /\ work # Free /\ work'.id = work.id /\ UNCHANGED <<queued, used, row, parts>>
          /\ runs' = runs \cup {work.id}
      BY <1>0, <1>9 DEF Register, Holds, TypeOK, Works
    <3>2. \A j \in Ids \ {work.id} : timer'[j] = timer[j]
      BY <1>0, <1>9 DEF Register, TypeOK
    <3>3. QED
      BY <1>0, <3>1, <3>2, Holder DEF Consistent, FreshInv, Fresh
  <2>2. WorkInv'
    BY <1>0, <1>9
       DEF TypeOK, Works, ClientCalls, Consistent, WorkInv, Opened, RunInv,
           RunsAreOpen, FreshInv, Fresh, Register, Holds
  <2>3. RunInv'
    BY <1>0, <1>9
       DEF TypeOK, Works, ClientCalls, Consistent, RunInv, FreshInv, Fresh, WorkInv,
           Register, Holds
  <2>4. GoneInv'
    BY <1>0, <1>9 DEF TypeOK, Works, ClientCalls, Consistent, GoneInv, Register, Holds
  <2>5. StoppedInv'
    BY <1>0, <1>9
       DEF TypeOK, Works, ClientCalls, Consistent, StoppedInv, Over, WorkInv,
           FreshInv, Fresh, Register, Holds
  <2>6. TimersMatchRuns'
    BY <1>0, <1>9
       DEF TypeOK, Works, ClientCalls, Consistent, TimersMatchRuns, WorkInv,
           Register, Holds
  <2>7. RunsAreOpen'
    BY <1>0, <1>9
       DEF TypeOK, Works, ClientCalls, Consistent, RunsAreOpen, WorkInv, Opened,
           AllParts, Register, Holds
  <2>8. NoOrphanBrowser'
    BY <1>0, <1>9
       DEF TypeOK, Works, ClientCalls, Consistent, NoOrphanBrowser, WorkInv,
           FreshInv, Fresh, Register, Holds
  <2>9. QED
    BY <2>1, <2>2, <2>3, <2>4, <2>5, <2>6, <2>7, <2>8 DEF Consistent
<1>10. ASSUME StartRaises PROVE Consistent'
  <2>1. FreshInv'
    BY <1>0, <1>10
       DEF TypeOK, Works, ClientCalls, Consistent, FreshInv, Fresh, StartRaises,
           Holds, Answered
  <2>2. WorkInv'
    BY <1>0, <1>10
       DEF TypeOK, Works, ClientCalls, Consistent, WorkInv, Opened, RunInv,
           RunsAreOpen, FreshInv, Fresh, StartRaises, Holds, Answered
  <2>3. RunInv'
    BY <1>0, <1>10
       DEF TypeOK, Works, ClientCalls, Consistent, RunInv, FreshInv, Fresh, WorkInv,
           StartRaises, Holds, Answered
  <2>4. GoneInv'
    BY <1>0, <1>10
       DEF TypeOK, Works, ClientCalls, Consistent, GoneInv, StartRaises, Holds,
           Answered
  <2>5. StoppedInv'
    BY <1>0, <1>10
       DEF TypeOK, Works, ClientCalls, Consistent, StoppedInv, Over, WorkInv,
           FreshInv, Fresh, StartRaises, Holds, Answered
  <2>6. TimersMatchRuns'
    BY <1>0, <1>10
       DEF TypeOK, Works, ClientCalls, Consistent, TimersMatchRuns, WorkInv,
           StartRaises, Holds, Answered
  <2>7. RunsAreOpen'
    BY <1>0, <1>10
       DEF TypeOK, Works, ClientCalls, Consistent, RunsAreOpen, WorkInv, Opened,
           AllParts, StartRaises, Holds, Answered
  <2>8. NoOrphanBrowser'
    <3>1. parts[work.id] = {}
      BY <1>0, <1>10 DEF StartRaises, Holds, Consistent, WorkInv, Opened
    <3>2. QED
      BY <1>0, <1>10, <3>1 DEF StartRaises, Consistent, NoOrphanBrowser
  <2>9. QED
    BY <2>1, <2>2, <2>3, <2>4, <2>5, <2>6, <2>7, <2>8 DEF Consistent
<1>11. ASSUME OpenRaises PROVE Consistent'
  <2>1. FreshInv'
    BY <1>0, <1>11
       DEF TypeOK, Works, ClientCalls, Consistent, FreshInv, Fresh, OpenRaises,
           Holds
  <2>2. WorkInv'
    <3>1. /\ work # Free /\ work.at \in {"launching", "session", "opening", "player"}
          /\ UNCHANGED <<runs, row, parts>>
      BY <1>0, <1>11 DEF OpenRaises, Holds
    <3>2. work'.id = work.id /\ work'.at = "closing" /\ work'.task = work.task
      BY <1>0, <1>11, <3>1 DEF OpenRaises, TypeOK, Works
    <3>3. parts[work.id] # {}
      BY <1>0, <3>1 DEF Consistent, WorkInv, Opened, AllParts
    <3>4. QED
      BY <1>0, <3>1, <3>2, <3>3 DEF Consistent, WorkInv
  <2>3. RunInv'
    BY <1>0, <1>11
       DEF TypeOK, Works, ClientCalls, Consistent, RunInv, FreshInv, Fresh, WorkInv,
           OpenRaises, Holds
  <2>4. GoneInv'
    BY <1>0, <1>11 DEF TypeOK, Works, ClientCalls, Consistent, GoneInv, OpenRaises, Holds
  <2>5. StoppedInv'
    BY <1>0, <1>11
       DEF TypeOK, Works, ClientCalls, Consistent, StoppedInv, Over, WorkInv,
           FreshInv, Fresh, OpenRaises, Holds
  <2>6. TimersMatchRuns'
    BY <1>0, <1>11
       DEF TypeOK, Works, ClientCalls, Consistent, TimersMatchRuns, WorkInv,
           OpenRaises, Holds
  <2>7. RunsAreOpen'
    BY <1>0, <1>11
       DEF TypeOK, Works, ClientCalls, Consistent, RunsAreOpen, WorkInv, Opened,
           AllParts, OpenRaises, Holds
  <2>8. NoOrphanBrowser'
    BY <1>0, <1>11
       DEF TypeOK, Works, ClientCalls, Consistent, NoOrphanBrowser, WorkInv,
           FreshInv, Fresh, OpenRaises, Holds
  <2>9. QED
    BY <2>1, <2>2, <2>3, <2>4, <2>5, <2>6, <2>7, <2>8 DEF Consistent
<1>12. ASSUME ClosePart PROVE Consistent'
  <2>1. FreshInv'
    <3>1. work # Free /\ UNCHANGED <<runs, timer, queued, used, row>>
      BY <1>0, <1>12 DEF ClosePart, Holds
    <3>2. \A j \in Ids \ {work.id} : work'.id # j
      BY <1>0, <1>12 DEF ClosePart, TypeOK, Works
    <3>3. \A j \in Ids \ {work.id} : parts'[j] = parts[j]
      BY <1>0, <1>12 DEF ClosePart, TypeOK
    <3>4. QED
      BY <1>0, <3>1, <3>2, <3>3, Holder DEF Consistent, FreshInv, Fresh
  <2>2. WorkInv'
    <3>1. /\ work # Free /\ work.at = "closing" /\ work.id \in Ids
          /\ UNCHANGED <<runs, row>>
      BY <1>0, <1>12 DEF ClosePart, Holds, TypeOK, Works
    <3>2. CASE parts'[work.id] # {}
      BY <1>0, <1>12, <3>1, <3>2 DEF ClosePart, TypeOK, Consistent, WorkInv
    <3>3. CASE parts'[work.id] = {} /\ work.task = "play"
      BY <1>0, <1>12, <3>1, <3>3 DEF ClosePart, TypeOK, Consistent, WorkInv
    <3>4. CASE parts'[work.id] = {} /\ work.task # "play"
      <4>1. work'.id = work.id /\ work'.task = work.task /\ work'.at = "recordEnd" /\ work'.ok = work.ok
        BY <1>0, <1>12, <3>1, <3>4 DEF ClosePart, TypeOK, Works
      <4>2. work.ok
        BY <1>0, <3>1, <3>4 DEF Consistent, WorkInv
      <4>3. QED
        BY <1>0, <3>1, <3>4, <4>1, <4>2 DEF Consistent, WorkInv
    <3>5. QED
      BY <3>2, <3>3, <3>4
  <2>3. RunInv'
    BY <1>0, <1>12
       DEF TypeOK, Works, ClientCalls, Consistent, RunInv, FreshInv, Fresh, WorkInv,
           ClosePart, Holds, Answered, Innermost
  <2>4. GoneInv'
    BY <1>0, <1>12
       DEF TypeOK, Works, ClientCalls, Consistent, GoneInv, ClosePart, Holds,
           Answered, Innermost
  <2>5. StoppedInv'
    BY <1>0, <1>12
       DEF TypeOK, Works, ClientCalls, Consistent, StoppedInv, Over, WorkInv,
           FreshInv, Fresh, ClosePart, Holds, Answered, Innermost
  <2>6. TimersMatchRuns'
    BY <1>0, <1>12
       DEF TypeOK, Works, ClientCalls, Consistent, TimersMatchRuns, WorkInv,
           ClosePart, Holds, Answered, Innermost
  <2>7. RunsAreOpen'
    BY <1>0, <1>12
       DEF TypeOK, Works, ClientCalls, Consistent, RunsAreOpen, WorkInv, Opened,
           AllParts, ClosePart, Holds, Answered, Innermost
  <2>8. NoOrphanBrowser'
    BY <1>0, <1>12
       DEF TypeOK, Works, ClientCalls, Consistent, NoOrphanBrowser, WorkInv,
           FreshInv, Fresh, ClosePart, Holds, Answered, Innermost
  <2>9. QED
    BY <2>1, <2>2, <2>3, <2>4, <2>5, <2>6, <2>7, <2>8 DEF Consistent
<1>13. ASSUME CloseRaises PROVE Consistent'
  BY <1>0, <1>13
     DEF TypeOK, Works, ClientCalls, Consistent, FreshInv, Fresh, WorkInv, Opened,
         RunInv, GoneInv, StoppedInv, Over, TimersMatchRuns, RunsAreOpen,
         NoOrphanBrowser, CloseRaises, Holds, Answered
<1>14. ASSUME NEW written \in BOOLEAN, RecordStart(written) PROVE Consistent'
  BY <1>0, <1>14
     DEF TypeOK, Works, ClientCalls, Consistent, FreshInv, Fresh, WorkInv, Opened,
         RunInv, GoneInv, StoppedInv, Over, TimersMatchRuns, RunsAreOpen,
         NoOrphanBrowser, RecordStart, Holds, Answered
<1>15. ASSUME NEW written \in BOOLEAN, RecordEnd(written) PROVE Consistent'
  BY <1>0, <1>15
     DEF TypeOK, Works, ClientCalls, Consistent, FreshInv, Fresh, WorkInv, Opened,
         RunInv, GoneInv, StoppedInv, Over, TimersMatchRuns, RunsAreOpen,
         NoOrphanBrowser, RecordEnd, Holds, Answered
<1>16. ASSUME NEW i \in Ids, StartPlay(i) PROVE Consistent'
  BY <1>0, <1>16
     DEF TypeOK, Works, ClientCalls, Consistent, FreshInv, Fresh, WorkInv, Opened,
         RunInv, GoneInv, StoppedInv, Over, TimersMatchRuns, RunsAreOpen,
         NoOrphanBrowser, StartPlay, LockIsFree
<1>17. ASSUME NEW i \in Ids, StartStop(i) PROVE Consistent'
  <2>1. FreshInv'
    <3>1. CASE i \notin runs
      BY <1>0, <1>17, <3>1
         DEF StartStop, LockIsFree, TypeOK, Consistent, FreshInv, Fresh,
             TimersMatchRuns
    <3>2. CASE i \in runs
      <4>1. /\ work'.id = i /\ UNCHANGED <<used, row, parts>>
            /\ queued' \subseteq queued /\ runs' \subseteq runs
        BY <1>17, <3>2 DEF StartStop
      <4>2. \A j \in Ids \ {i} : timer'[j] = timer[j]
        BY <1>0, <1>17 DEF StartStop, TypeOK
      <4>3. i \in used /\ <<"play", i>> \notin queued
        BY <1>0, <3>2 DEF Consistent, FreshInv, Fresh
      <4>4. QED
        BY <1>0, <4>1, <4>2, <4>3 DEF Consistent, FreshInv, Fresh
    <3>3. QED
      BY <3>1, <3>2
  <2>2. WorkInv'
    <3>1. CASE i \in runs
      <4>1. /\ work' = [task |-> "stop", id |-> i, at |-> "closing", ok |-> TRUE]
            /\ UNCHANGED <<row, parts>> /\ runs' = runs \ {i}
        BY <1>17, <3>1 DEF StartStop
      <4>2. row[i] \notin Final /\ parts[i] # {}
        BY <1>0, <3>1 DEF Consistent, RunInv, RunsAreOpen, AllParts
      <4>3. QED
        BY <4>1, <4>2 DEF WorkInv
    <3>2. CASE i \notin runs
      BY <1>0, <1>17, <3>2 DEF StartStop, LockIsFree, Consistent, TimersMatchRuns
    <3>3. QED
      BY <3>1, <3>2
  <2>3. RunInv'
    BY <1>0, <1>17
       DEF TypeOK, Works, ClientCalls, Consistent, RunInv, FreshInv, Fresh, WorkInv,
           StartStop, LockIsFree
  <2>4. GoneInv'
    BY <1>0, <1>17
       DEF TypeOK, Works, ClientCalls, Consistent, GoneInv, StartStop, LockIsFree
  <2>5. StoppedInv'
    BY <1>0, <1>17
       DEF TypeOK, Works, ClientCalls, Consistent, StoppedInv, Over, WorkInv,
           FreshInv, Fresh, StartStop, LockIsFree
  <2>6. TimersMatchRuns'
    BY <1>0, <1>17
       DEF TypeOK, Works, ClientCalls, Consistent, TimersMatchRuns, WorkInv,
           StartStop, LockIsFree
  <2>7. RunsAreOpen'
    BY <1>0, <1>17
       DEF TypeOK, Works, ClientCalls, Consistent, RunsAreOpen, WorkInv, Opened,
           AllParts, StartStop, LockIsFree
  <2>8. NoOrphanBrowser'
    BY <1>0, <1>17
       DEF TypeOK, Works, ClientCalls, Consistent, NoOrphanBrowser, WorkInv,
           FreshInv, Fresh, StartStop, LockIsFree
  <2>9. QED
    BY <2>1, <2>2, <2>3, <2>4, <2>5, <2>6, <2>7, <2>8 DEF Consistent
<1>18. ASSUME NEW i \in Ids, StopMisses(i) PROVE Consistent'
  BY <1>0, <1>18
     DEF TypeOK, Works, ClientCalls, Consistent, FreshInv, Fresh, WorkInv, Opened,
         RunInv, GoneInv, StoppedInv, Over, TimersMatchRuns, RunsAreOpen,
         NoOrphanBrowser, StopMisses, LockIsFree, Answered
<1>19. ASSUME NEW i \in Ids, TimerExpires(i) PROVE Consistent'
  BY <1>0, <1>19
     DEF TypeOK, Works, ClientCalls, Consistent, FreshInv, Fresh, WorkInv, Opened,
         RunInv, GoneInv, StoppedInv, Over, TimersMatchRuns, RunsAreOpen,
         NoOrphanBrowser, TimerExpires
<1>20. ASSUME NEW i \in Ids, TimerStops(i) PROVE Consistent'
  <2>1. FreshInv'
    <3>1. CASE i \notin runs
      BY <1>0, <1>20, <3>1
         DEF TimerStops, LockIsFree, TypeOK, Consistent, FreshInv, Fresh,
             TimersMatchRuns
    <3>2. CASE i \in runs
      <4>1. /\ work'.id = i /\ UNCHANGED <<used, row, parts>>
            /\ queued' \subseteq queued /\ runs' \subseteq runs
        BY <1>20, <3>2 DEF TimerStops
      <4>2. \A j \in Ids \ {i} : timer'[j] = timer[j]
        BY <1>0, <1>20 DEF TimerStops, TypeOK
      <4>3. i \in used /\ <<"play", i>> \notin queued
        BY <1>0, <3>2 DEF Consistent, FreshInv, Fresh
      <4>4. QED
        BY <1>0, <4>1, <4>2, <4>3 DEF Consistent, FreshInv, Fresh
    <3>3. QED
      BY <3>1, <3>2
  <2>2. WorkInv'
    <3>1. CASE i \in runs
      <4>1. /\ work' = [task |-> "timer", id |-> i, at |-> "closing", ok |-> TRUE]
            /\ UNCHANGED <<row, parts>> /\ runs' = runs \ {i}
        BY <1>20, <3>1 DEF TimerStops
      <4>2. row[i] \notin Final /\ parts[i] # {}
        BY <1>0, <3>1 DEF Consistent, RunInv, RunsAreOpen, AllParts
      <4>3. QED
        BY <4>1, <4>2 DEF WorkInv
    <3>2. CASE i \notin runs
      BY <1>0, <1>20, <3>2 DEF TimerStops, LockIsFree, Consistent, TimersMatchRuns
    <3>3. QED
      BY <3>1, <3>2
  <2>3. RunInv'
    BY <1>0, <1>20
       DEF TypeOK, Works, ClientCalls, Consistent, RunInv, FreshInv, Fresh, WorkInv,
           TimerStops, LockIsFree
  <2>4. GoneInv'
    BY <1>0, <1>20
       DEF TypeOK, Works, ClientCalls, Consistent, GoneInv, TimerStops, LockIsFree
  <2>5. StoppedInv'
    BY <1>0, <1>20
       DEF TypeOK, Works, ClientCalls, Consistent, StoppedInv, Over, WorkInv,
           FreshInv, Fresh, TimerStops, LockIsFree
  <2>6. TimersMatchRuns'
    BY <1>0, <1>20
       DEF TypeOK, Works, ClientCalls, Consistent, TimersMatchRuns, WorkInv,
           TimerStops, LockIsFree
  <2>7. RunsAreOpen'
    BY <1>0, <1>20
       DEF TypeOK, Works, ClientCalls, Consistent, RunsAreOpen, WorkInv, Opened,
           AllParts, TimerStops, LockIsFree
  <2>8. NoOrphanBrowser'
    BY <1>0, <1>20
       DEF TypeOK, Works, ClientCalls, Consistent, NoOrphanBrowser, WorkInv,
           FreshInv, Fresh, TimerStops, LockIsFree
  <2>9. QED
    BY <2>1, <2>2, <2>3, <2>4, <2>5, <2>6, <2>7, <2>8 DEF Consistent
<1>21. ASSUME ServerDies PROVE Consistent'
  <2>1. FreshInv'
    BY <1>0, <1>21
       DEF TypeOK, Works, ClientCalls, Consistent, FreshInv, Fresh, ServerDies,
           ProcessEnds
  <2>2. WorkInv'
    BY <1>0, <1>21
       DEF TypeOK, Works, ClientCalls, Consistent, WorkInv, Opened, RunInv,
           RunsAreOpen, FreshInv, Fresh, ServerDies, ProcessEnds
  <2>3. RunInv'
    BY <1>0, <1>21
       DEF TypeOK, Works, ClientCalls, Consistent, RunInv, FreshInv, Fresh, WorkInv,
           ServerDies, ProcessEnds
  <2>4. GoneInv'
    BY <1>0, <1>21
       DEF TypeOK, Works, ClientCalls, Consistent, GoneInv, ServerDies, ProcessEnds
  <2>5. StoppedInv'
    BY <1>0, <1>21
       DEF TypeOK, Works, ClientCalls, Consistent, StoppedInv, Over, WorkInv,
           FreshInv, Fresh, ServerDies, ProcessEnds
  <2>6. TimersMatchRuns'
    BY <1>0, <1>21
       DEF TypeOK, Works, ClientCalls, Consistent, TimersMatchRuns, WorkInv,
           ServerDies, ProcessEnds
  <2>7. RunsAreOpen'
    BY <1>0, <1>21
       DEF TypeOK, Works, ClientCalls, Consistent, RunsAreOpen, WorkInv, Opened,
           AllParts, ServerDies, ProcessEnds
  <2>8. NoOrphanBrowser'
    BY <1>0, <1>21
       DEF TypeOK, Works, ClientCalls, Consistent, NoOrphanBrowser, WorkInv,
           FreshInv, Fresh, ServerDies, ProcessEnds
  <2>9. QED
    BY <2>1, <2>2, <2>3, <2>4, <2>5, <2>6, <2>7, <2>8 DEF Consistent
<1>22. ASSUME Quit PROVE Consistent'
  <2>1. FreshInv'
    BY <1>0, <1>22
       DEF TypeOK, Works, ClientCalls, Consistent, FreshInv, Fresh, Quit,
           ProcessEnds
  <2>2. WorkInv'
    BY <1>0, <1>22
       DEF TypeOK, Works, ClientCalls, Consistent, WorkInv, Opened, RunInv,
           RunsAreOpen, FreshInv, Fresh, Quit, ProcessEnds
  <2>3. RunInv'
    BY <1>0, <1>22
       DEF TypeOK, Works, ClientCalls, Consistent, RunInv, FreshInv, Fresh, WorkInv,
           Quit, ProcessEnds
  <2>4. GoneInv'
    BY <1>0, <1>22 DEF TypeOK, Works, ClientCalls, Consistent, GoneInv, Quit, ProcessEnds
  <2>5. StoppedInv'
    BY <1>0, <1>22
       DEF TypeOK, Works, ClientCalls, Consistent, StoppedInv, Over, WorkInv,
           FreshInv, Fresh, Quit, ProcessEnds
  <2>6. TimersMatchRuns'
    BY <1>0, <1>22
       DEF TypeOK, Works, ClientCalls, Consistent, TimersMatchRuns, WorkInv, Quit,
           ProcessEnds
  <2>7. RunsAreOpen'
    BY <1>0, <1>22
       DEF TypeOK, Works, ClientCalls, Consistent, RunsAreOpen, WorkInv, Opened,
           AllParts, Quit, ProcessEnds
  <2>8. NoOrphanBrowser'
    BY <1>0, <1>22
       DEF TypeOK, Works, ClientCalls, Consistent, NoOrphanBrowser, WorkInv,
           FreshInv, Fresh, Quit, ProcessEnds
  <2>9. QED
    BY <2>1, <2>2, <2>3, <2>4, <2>5, <2>6, <2>7, <2>8 DEF Consistent
<1>23. ASSUME UNCHANGED vars PROVE Consistent'
  BY <1>0, <1>23
     DEF Consistent, FreshInv, Fresh, WorkInv, Opened, RunInv, GoneInv, StoppedInv,
         Over, TimersMatchRuns, RunsAreOpen, NoOrphanBrowser, vars, serverVars,
         clientVars
<1>24. ASSUME Reconnect PROVE Consistent'
  BY <1>0, <1>24
     DEF Consistent, FreshInv, Fresh, WorkInv, Opened, RunInv, GoneInv, StoppedInv,
         Over, TimersMatchRuns, RunsAreOpen, NoOrphanBrowser, Reconnect
<1>25. QED
  BY <1>0, <1>1, <1>2, <1>3, <1>4, <1>5, <1>6, <1>7, <1>8, <1>9, <1>10, <1>11, <1>12,
     <1>13, <1>14, <1>15, <1>16, <1>17, <1>18, <1>19, <1>20, <1>21, <1>22, <1>23, <1>24
     DEF IInv, Consistent, Next, ClientStep, ServiceStep, Acquire, Closed

\* Only the two records write a row, and neither overwrites an outcome.
LEMMA RowStep ==
    ASSUME IInv, [Next]_vars, NEW i \in Ids, row[i] \in Final
    PROVE  row'[i] = row[i]
<1>1. ASSUME NEW written \in BOOLEAN, RecordStart(written) \/ RecordEnd(written)
      PROVE  row'[i] = row[i]
  <2>1. work # Free
    BY <1>1 DEF RecordStart, RecordEnd, Holds, Free
  <2>2. row[work.id] \notin Final
    BY <2>1 DEF IInv, WorkInv
  <2>3. QED
    BY <1>1, <2>2 DEF RecordStart, RecordEnd, IInv, TypeOK
<1>2. CASE UNCHANGED row
  BY <1>2
<1>3. ASSUME ~(\E written \in BOOLEAN : RecordStart(written) \/ RecordEnd(written))
      PROVE  UNCHANGED row
  BY <1>3 DEF Next, ClientStep, ServiceStep, Acquire, Closed, vars, serverVars,
     PressF2, GiveUp, TakeF2Answer, AskStop, AskPlay, TakePlayAnswer, TakeStopAnswer,
     OpenNext, Register, StartRaises, OpenRaises, ClosePart, CloseRaises, StartPlay,
     StartStop, StopMisses, TimerExpires, TimerStops, ServerDies, Reconnect, Quit,
     ProcessEnds
<1>4. QED
  BY <1>1, <1>2, <1>3

\* The initial state satisfies the inductive invariant.
LEMMA InitInv == ASSUME Init PROVE IInv
<1> USE PlaybackAssumption DEF Init, Free, NoCall
<1>1. TypeOK
  BY DEF TypeOK, Works, ClientCalls
<1>2. FreshInv /\ RunInv /\ GoneInv /\ TimersMatchRuns /\ RunsAreOpen /\ NoOrphanBrowser
  BY DEF FreshInv, Fresh, RunInv, GoneInv, TimersMatchRuns, RunsAreOpen, NoOrphanBrowser
<1>3. WorkInv /\ StoppedInv
  BY DEF WorkInv, StoppedInv, Opening, Stops
<1>4. QED
  BY <1>1, <1>2, <1>3 DEF IInv

\* The inductive invariant holds in every reachable state: in particular every
\* running playback has its timer and its browser, and no browser is orphaned.
THEOREM InvCorrect == Spec => []IInv
<1>1. Init => IInv
  BY InitInv
<1>2. IInv /\ [Next]_vars => IInv'
  BY InvStep
<1>3. QED
  BY <1>1, <1>2, PTL DEF Spec

\* Every variable keeps its type.
THEOREM TypeCorrect == Spec => []TypeOK
<1>1. IInv => TypeOK
  BY DEF IInv
<1>2. QED
  BY <1>1, InvCorrect, PTL

\* Whatever stop() and a timer that race do, a run and its timer go together.
THEOREM TimersAreExact == Spec => []TimersMatchRuns
<1>1. IInv => TimersMatchRuns
  BY DEF IInv
<1>2. QED
  BY <1>1, InvCorrect, PTL

\* play(), stop() and the timers leave no browser behind.
THEOREM NothingOrphaned == Spec => []NoOrphanBrowser
<1>1. IInv => NoOrphanBrowser
  BY DEF IInv
<1>2. QED
  BY <1>1, InvCorrect, PTL

\* A successful answer to a stop means that the browser is closed.
THEOREM StopIsTruthful == Spec => []StopMeansClosed
<1>1. IInv => StopMeansClosed
  BY DEF IInv, StoppedInv, StopMeansClosed
<1>2. QED
  BY <1>1, InvCorrect, PTL

\* The outcome of a playback is recorded once.
THEOREM OneOutcome == Spec => OutcomeIsFinal
<1>1. IInv /\ [Next]_vars => [\A i \in Ids : row[i] \in Final => row'[i] = row[i]]_vars
  BY RowStep
<1>2. QED
  BY <1>1, InvCorrect, PTL DEF Spec, OutcomeIsFinal
=============================================================================
