------------------------ MODULE McpLifecycle_proofs -------------------------
(***************************************************************************)
(* Proofs about McpLifecycle, for every set of callers and connections.    *)
(***************************************************************************)
EXTENDS McpLifecycle, TLAPS

\* Every step preserves well-typedness.
LEMMA TypeStep ==
    ASSUME TypeOK, PlaceInv, [Next]_vars
    PROVE  TypeOK'
<1> USE CallerAssumption DEF TypeOK, Lives, Places, Callers, connVars
<1>1. CASE UNCHANGED vars
  BY <1>1 DEF vars
<1>2. ASSUME NEW c \in Callers, Ask(c) PROVE TypeOK'
  BY <1>2 DEF Ask, Goto
<1>3. ASSUME NEW c \in Callers, Reuse(c) PROVE TypeOK'
  BY <1>3 DEF Reuse, Goto, Stale
<1>4. ASSUME NEW c \in Callers, NEW s \in Servers, Connect(c, s) PROVE TypeOK'
  BY <1>4 DEF Connect, Goto, Stale, Replace
<1>5. ASSUME NEW c \in Callers, Connected(c) PROVE TypeOK'
  BY <1>5 DEF Connected, Goto
<1>6. ASSUME NEW c \in Callers, ConnectError(c) PROVE TypeOK'
  BY <1>6 DEF ConnectError, Goto
<1>7. ASSUME NEW c \in Callers, Cleared(c) PROVE TypeOK'
  BY <1>7 DEF Cleared, Goto, Forget
<1>8. ASSUME NEW c \in Callers, CallEnds(c) PROVE TypeOK'
  BY <1>8 DEF CallEnds, Goto
<1>9. ASSUME NEW s \in Servers, ConnectReturns(s) PROVE TypeOK'
  BY <1>9 DEF ConnectReturns
<1>10. ASSUME NEW s \in Servers, ConnectRaises(s) PROVE TypeOK'
  BY <1>10 DEF ConnectRaises
<1>11. ASSUME NEW s \in Servers, StopServing(s) PROVE TypeOK'
  BY <1>11 DEF StopServing
<1>12. ASSUME NEW s \in Servers, ConnectionBreaks(s) PROVE TypeOK'
  BY <1>12 DEF ConnectionBreaks
<1>13. ASSUME NEW s \in Servers, CleanupEnds(s) PROVE TypeOK'
  BY <1>13 DEF CleanupEnds
<1>14. ASSUME NEW s \in Servers, ServerDies(s) PROVE TypeOK'
  BY <1>14 DEF ServerDies
<1>15. CASE Quit
  BY <1>15 DEF Quit
<1>16. ASSUME NEW w \in Workers, CancelOutside(w) PROVE TypeOK'
  BY <1>16 DEF CancelOutside, Goto, Cancellable
<1>17. ASSUME NEW w \in Workers, CancelConnecting(w) PROVE TypeOK'
  BY <1>17 DEF CancelConnecting, Goto, Cancellable
<1>18. ASSUME NEW w \in Workers, NEW left \in BOOLEAN, CancelClearing(w, left)
       PROVE  TypeOK'
  <2>1. alive' \in [Servers -> BOOLEAN]
    <3>1. alive' = alive \/ alive' = [alive EXCEPT ![current] = @ /\ left]
      BY <1>18 DEF CancelClearing
    <3>2. [alive EXCEPT ![current] = @ /\ left] \in [Servers -> BOOLEAN]
      BY Zenon
    <3>3. QED
      BY <3>1, <3>2
  <2>2. life' = life \/ life' = [life EXCEPT ![current] = "done"]
    BY <1>18 DEF CancelClearing
  <2>3. life' \in [Servers -> Lives]
    BY <2>2
  <2>4. cut' \subseteq Servers
    <3>1. cut' = cut \/ (cut' = cut \cup {current} /\ life[current] = "cleaning")
      BY <1>18 DEF CancelClearing
    <3>2. current \in Servers
      BY <1>18 DEF CancelClearing, Cancellable, PlaceInv, Holding
    <3>3. QED
      BY <3>1, <3>2
  <2>5. QED
    BY <1>18, <2>1, <2>3, <2>4 DEF CancelClearing, Cancellable
<1>19. ASSUME NEW w \in Workers, CancelCalling(w) PROVE TypeOK'
  BY <1>19 DEF CancelCalling, Goto, Cancellable
<1>20. ASSUME NEW w \in Workers, WorkerEnds(w) PROVE TypeOK'
  BY <1>20 DEF WorkerEnds, Goto
<1>21. CASE Shutdown
  BY <1>21 DEF Shutdown
<1>22. CASE CloseAtOnce
  BY <1>22 DEF CloseAtOnce, Forget
<1>23. CASE CloseBegins
  BY <1>23 DEF CloseBegins
<1>24. CASE CloseEnds
  BY <1>24 DEF CloseEnds, Forget
<1>25. CASE Closed
  BY <1>1, <1>25 DEF Closed
<1>26. QED
  BY <1>1, <1>2, <1>3, <1>4, <1>5, <1>6, <1>7, <1>8, <1>9, <1>10, <1>11, <1>12, <1>13,
     <1>14, <1>15, <1>16, <1>17, <1>18, <1>19, <1>20, <1>21, <1>22, <1>23, <1>24, <1>25
     DEF Next, Enter, CallerStep, Cancel, LifeStep, CloseStep

\* At most one caller is inside of the lock.
LEMMA LockStep ==
    ASSUME TypeOK, LockInv, PlaceInv, [Next]_vars
    PROVE  LockInv'
<1> USE CallerAssumption DEF TypeOK, LockInv, Holding, Callers, Places, connVars
<1>1. CASE UNCHANGED vars
  BY <1>1 DEF vars
<1>2. ASSUME NEW c \in Callers, Ask(c) PROVE LockInv'
  BY <1>2 DEF Ask, Goto
<1>3. ASSUME NEW c \in Callers, Reuse(c) PROVE LockInv'
  BY <1>3 DEF Reuse, Goto, Stale
<1>4. ASSUME NEW c \in Callers, NEW s \in Servers, Connect(c, s) PROVE LockInv'
  BY <1>4 DEF Connect, Goto, Stale, Replace
<1>5. ASSUME NEW c \in Callers, Connected(c) PROVE LockInv'
  BY <1>5 DEF Connected, Goto
<1>6. ASSUME NEW c \in Callers, ConnectError(c) PROVE LockInv'
  BY <1>6 DEF ConnectError, Goto
<1>7. ASSUME NEW c \in Callers, Cleared(c) PROVE LockInv'
  BY <1>7 DEF Cleared, Goto, Forget
<1>8. ASSUME NEW c \in Callers, CallEnds(c) PROVE LockInv'
  BY <1>8 DEF CallEnds, Goto
<1>9. ASSUME NEW s \in Servers, ConnectReturns(s) PROVE LockInv'
  BY <1>9 DEF ConnectReturns
<1>10. ASSUME NEW s \in Servers, ConnectRaises(s) PROVE LockInv'
  BY <1>10 DEF ConnectRaises
<1>11. ASSUME NEW s \in Servers, StopServing(s) PROVE LockInv'
  BY <1>11 DEF StopServing
<1>12. ASSUME NEW s \in Servers, ConnectionBreaks(s) PROVE LockInv'
  BY <1>12 DEF ConnectionBreaks
<1>13. ASSUME NEW s \in Servers, CleanupEnds(s) PROVE LockInv'
  BY <1>13 DEF CleanupEnds
<1>14. ASSUME NEW s \in Servers, ServerDies(s) PROVE LockInv'
  BY <1>14 DEF ServerDies
<1>15. CASE Quit
  BY <1>15 DEF Quit
<1>16. ASSUME NEW w \in Workers, CancelOutside(w) PROVE LockInv'
  BY <1>16 DEF CancelOutside, Goto, Cancellable
<1>17. ASSUME NEW w \in Workers, CancelConnecting(w) PROVE LockInv'
  BY <1>17 DEF CancelConnecting, Goto, Cancellable
<1>18. ASSUME NEW w \in Workers, NEW left \in BOOLEAN, CancelClearing(w, left)
       PROVE  LockInv'
  BY <1>18 DEF CancelClearing, Cancellable
<1>19. ASSUME NEW w \in Workers, CancelCalling(w) PROVE LockInv'
  BY <1>19 DEF CancelCalling, Goto, Cancellable
<1>20. ASSUME NEW w \in Workers, WorkerEnds(w) PROVE LockInv'
  BY <1>20 DEF WorkerEnds, Goto
<1>21. CASE Shutdown
  BY <1>21 DEF Shutdown
<1>22. CASE CloseAtOnce
  BY <1>22 DEF CloseAtOnce, Forget
<1>23. CASE CloseBegins
  BY <1>23 DEF CloseBegins
<1>24. CASE CloseEnds
  BY <1>24 DEF CloseEnds, Forget
<1>25. CASE Closed
  BY <1>1, <1>25 DEF Closed
<1>26. QED
  BY <1>1, <1>2, <1>3, <1>4, <1>5, <1>6, <1>7, <1>8, <1>9, <1>10, <1>11, <1>12, <1>13,
     <1>14, <1>15, <1>16, <1>17, <1>18, <1>19, <1>20, <1>21, <1>22, <1>23, <1>24, <1>25
     DEF Next, Enter, CallerStep, Cancel, LifeStep, CloseStep

\* The fields refer to the only connection that is not over.
LEMMA CurrentStep ==
    ASSUME TypeOK, LockInv, CurrentInv, PlaceInv, QuitInv, NoHalfOpen, [Next]_vars
    PROVE  (CurrentInv /\ Reachable)'
<1> USE CallerAssumption DEF TypeOK, LockInv, CurrentInv, PlaceInv, QuitInv, NoHalfOpen,
        Reachable, Holding, Callers, connVars
<1>1. CASE UNCHANGED vars
  BY <1>1 DEF vars
<1>2. ASSUME NEW c \in Callers, Ask(c) PROVE (CurrentInv /\ Reachable)'
  BY <1>2 DEF Ask, Goto
<1>3. ASSUME NEW c \in Callers, Reuse(c) PROVE (CurrentInv /\ Reachable)'
  BY <1>3 DEF Reuse, Goto, Stale
<1>4. ASSUME NEW c \in Callers, NEW s \in Servers, Connect(c, s)
       PROVE  (CurrentInv /\ Reachable)'
  BY <1>4 DEF Connect, Goto, Stale, Replace
<1>5. ASSUME NEW c \in Callers, Connected(c) PROVE (CurrentInv /\ Reachable)'
  BY <1>5 DEF Connected, Goto
<1>6. ASSUME NEW c \in Callers, ConnectError(c) PROVE (CurrentInv /\ Reachable)'
  BY <1>6 DEF ConnectError, Goto
<1>7. ASSUME NEW c \in Callers, Cleared(c) PROVE (CurrentInv /\ Reachable)'
  BY <1>7 DEF Cleared, Goto, Forget
<1>8. ASSUME NEW c \in Callers, CallEnds(c) PROVE (CurrentInv /\ Reachable)'
  BY <1>8 DEF CallEnds, Goto
<1>9. ASSUME NEW s \in Servers, ConnectReturns(s) PROVE (CurrentInv /\ Reachable)'
  BY <1>9 DEF ConnectReturns
<1>10. ASSUME NEW s \in Servers, ConnectRaises(s) PROVE (CurrentInv /\ Reachable)'
  BY <1>10 DEF ConnectRaises
<1>11. ASSUME NEW s \in Servers, StopServing(s) PROVE (CurrentInv /\ Reachable)'
  BY <1>11 DEF StopServing
<1>12. ASSUME NEW s \in Servers, ConnectionBreaks(s) PROVE (CurrentInv /\ Reachable)'
  BY <1>12 DEF ConnectionBreaks
<1>13. ASSUME NEW s \in Servers, CleanupEnds(s) PROVE (CurrentInv /\ Reachable)'
  BY <1>13 DEF CleanupEnds
<1>14. ASSUME NEW s \in Servers, ServerDies(s) PROVE (CurrentInv /\ Reachable)'
  BY <1>14 DEF ServerDies
<1>15. CASE Quit
  BY <1>15 DEF Quit
<1>16. ASSUME NEW w \in Workers, CancelOutside(w) PROVE (CurrentInv /\ Reachable)'
  BY <1>16 DEF CancelOutside, Goto, Cancellable
<1>17. ASSUME NEW w \in Workers, CancelConnecting(w) PROVE (CurrentInv /\ Reachable)'
  BY <1>17 DEF CancelConnecting, Goto, Cancellable
<1>18. ASSUME NEW w \in Workers, NEW left \in BOOLEAN, CancelClearing(w, left)
       PROVE  (CurrentInv /\ Reachable)'
  BY <1>18 DEF CancelClearing, Cancellable
<1>19. ASSUME NEW w \in Workers, CancelCalling(w) PROVE (CurrentInv /\ Reachable)'
  BY <1>19 DEF CancelCalling, Goto, Cancellable
<1>20. ASSUME NEW w \in Workers, WorkerEnds(w) PROVE (CurrentInv /\ Reachable)'
  BY <1>20 DEF WorkerEnds, Goto
<1>21. CASE Shutdown
  BY <1>21 DEF Shutdown
<1>22. CASE CloseAtOnce
  BY <1>22 DEF CloseAtOnce, Forget
<1>23. CASE CloseBegins
  BY <1>23 DEF CloseBegins
<1>24. CASE CloseEnds
  BY <1>24 DEF CloseEnds, Forget
<1>25. CASE Closed
  BY <1>1, <1>25 DEF Closed
<1>26. QED
  BY <1>1, <1>2, <1>3, <1>4, <1>5, <1>6, <1>7, <1>8, <1>9, <1>10, <1>11, <1>12, <1>13,
     <1>14, <1>15, <1>16, <1>17, <1>18, <1>19, <1>20, <1>21, <1>22, <1>23, <1>24, <1>25
     DEF Next, Enter, CallerStep, Cancel, LifeStep, CloseStep

\* The place of the lock holder says what the connection is like.
LEMMA PlaceStep ==
    ASSUME TypeOK, LockInv, CurrentInv, PlaceInv, QuitInv, NoHalfOpen, [Next]_vars
    PROVE  PlaceInv'
<1> USE CallerAssumption DEF TypeOK, LockInv, CurrentInv, PlaceInv, QuitInv, NoHalfOpen,
        Holding, Callers, connVars
<1>1. CASE UNCHANGED vars
  BY <1>1 DEF vars
<1>2. ASSUME NEW c \in Callers, Ask(c) PROVE PlaceInv'
  BY <1>2 DEF Ask, Goto
<1>3. ASSUME NEW c \in Callers, Reuse(c) PROVE PlaceInv'
  BY <1>3 DEF Reuse, Goto, Stale
<1>4. ASSUME NEW c \in Callers, NEW s \in Servers, Connect(c, s) PROVE PlaceInv'
  BY <1>4 DEF Connect, Goto, Stale, Replace
<1>5. ASSUME NEW c \in Callers, Connected(c) PROVE PlaceInv'
  BY <1>5 DEF Connected, Goto
<1>6. ASSUME NEW c \in Callers, ConnectError(c) PROVE PlaceInv'
  BY <1>6 DEF ConnectError, Goto
<1>7. ASSUME NEW c \in Callers, Cleared(c) PROVE PlaceInv'
  BY <1>7 DEF Cleared, Goto, Forget
<1>8. ASSUME NEW c \in Callers, CallEnds(c) PROVE PlaceInv'
  BY <1>8 DEF CallEnds, Goto
<1>9. ASSUME NEW s \in Servers, ConnectReturns(s) PROVE PlaceInv'
  BY <1>9 DEF ConnectReturns
<1>10. ASSUME NEW s \in Servers, ConnectRaises(s) PROVE PlaceInv'
  BY <1>10 DEF ConnectRaises
<1>11. ASSUME NEW s \in Servers, StopServing(s) PROVE PlaceInv'
  BY <1>11 DEF StopServing
<1>12. ASSUME NEW s \in Servers, ConnectionBreaks(s) PROVE PlaceInv'
  BY <1>12 DEF ConnectionBreaks
<1>13. ASSUME NEW s \in Servers, CleanupEnds(s) PROVE PlaceInv'
  BY <1>13 DEF CleanupEnds
<1>14. ASSUME NEW s \in Servers, ServerDies(s) PROVE PlaceInv'
  BY <1>14 DEF ServerDies
<1>15. CASE Quit
  BY <1>15 DEF Quit
<1>16. ASSUME NEW w \in Workers, CancelOutside(w) PROVE PlaceInv'
  BY <1>16 DEF CancelOutside, Goto, Cancellable
<1>17. ASSUME NEW w \in Workers, CancelConnecting(w) PROVE PlaceInv'
  BY <1>17 DEF CancelConnecting, Goto, Cancellable
<1>18. ASSUME NEW w \in Workers, NEW left \in BOOLEAN, CancelClearing(w, left)
       PROVE  PlaceInv'
  BY <1>18 DEF CancelClearing, Cancellable
<1>19. ASSUME NEW w \in Workers, CancelCalling(w) PROVE PlaceInv'
  BY <1>19 DEF CancelCalling, Goto, Cancellable
<1>20. ASSUME NEW w \in Workers, WorkerEnds(w) PROVE PlaceInv'
  BY <1>20 DEF WorkerEnds, Goto
<1>21. CASE Shutdown
  BY <1>21 DEF Shutdown
<1>22. CASE CloseAtOnce
  BY <1>22 DEF CloseAtOnce, Forget
<1>23. CASE CloseBegins
  BY <1>23 DEF CloseBegins
<1>24. CASE CloseEnds
  BY <1>24 DEF CloseEnds, Forget
<1>25. CASE Closed
  BY <1>1, <1>25 DEF Closed
<1>26. QED
  BY <1>1, <1>2, <1>3, <1>4, <1>5, <1>6, <1>7, <1>8, <1>9, <1>10, <1>11, <1>12, <1>13,
     <1>14, <1>15, <1>16, <1>17, <1>18, <1>19, <1>20, <1>21, <1>22, <1>23, <1>24, <1>25
     DEF Next, Enter, CallerStep, Cancel, LifeStep, CloseStep

\* Quitting leaves no caller behind.
LEMMA QuitStep ==
    ASSUME TypeOK, LockInv, CurrentInv, PlaceInv, QuitInv, [Next]_vars
    PROVE  QuitInv'
<1> USE CallerAssumption DEF TypeOK, LockInv, PlaceInv, QuitInv, Holding, Callers,
        Places, connVars
<1>1. CASE UNCHANGED vars
  BY <1>1 DEF vars
<1>2. ASSUME NEW c \in Callers, Ask(c) PROVE QuitInv'
  BY <1>2 DEF Ask, Goto
<1>3. ASSUME NEW c \in Callers, Reuse(c) PROVE QuitInv'
  BY <1>3 DEF Reuse, Goto, Stale
<1>4. ASSUME NEW c \in Callers, NEW s \in Servers, Connect(c, s) PROVE QuitInv'
  BY <1>4 DEF Connect, Goto, Stale, Replace
<1>5. ASSUME NEW c \in Callers, Connected(c) PROVE QuitInv'
  BY <1>5 DEF Connected, Goto
<1>6. ASSUME NEW c \in Callers, ConnectError(c) PROVE QuitInv'
  BY <1>6 DEF ConnectError, Goto
<1>7. ASSUME NEW c \in Callers, Cleared(c) PROVE QuitInv'
  BY <1>7 DEF Cleared, Goto, Forget
<1>8. ASSUME NEW c \in Callers, CallEnds(c) PROVE QuitInv'
  BY <1>8 DEF CallEnds, Goto
<1>9. ASSUME NEW s \in Servers, ConnectReturns(s) PROVE QuitInv'
  BY <1>9 DEF ConnectReturns
<1>10. ASSUME NEW s \in Servers, ConnectRaises(s) PROVE QuitInv'
  BY <1>10 DEF ConnectRaises
<1>11. ASSUME NEW s \in Servers, StopServing(s) PROVE QuitInv'
  BY <1>11 DEF StopServing
<1>12. ASSUME NEW s \in Servers, ConnectionBreaks(s) PROVE QuitInv'
  BY <1>12 DEF ConnectionBreaks
<1>13. ASSUME NEW s \in Servers, CleanupEnds(s) PROVE QuitInv'
  BY <1>13 DEF CleanupEnds
<1>14. ASSUME NEW s \in Servers, ServerDies(s) PROVE QuitInv'
  BY <1>14 DEF ServerDies
<1>15. CASE Quit
  BY <1>15 DEF Quit
<1>16. ASSUME NEW w \in Workers, CancelOutside(w) PROVE QuitInv'
  BY <1>16 DEF CancelOutside, Goto, Cancellable
<1>17. ASSUME NEW w \in Workers, CancelConnecting(w) PROVE QuitInv'
  BY <1>17 DEF CancelConnecting, Goto, Cancellable
<1>18. ASSUME NEW w \in Workers, NEW left \in BOOLEAN, CancelClearing(w, left)
       PROVE  QuitInv'
  BY <1>18 DEF CancelClearing, Cancellable
<1>19. ASSUME NEW w \in Workers, CancelCalling(w) PROVE QuitInv'
  BY <1>19 DEF CancelCalling, Goto, Cancellable
<1>20. ASSUME NEW w \in Workers, WorkerEnds(w) PROVE QuitInv'
  BY <1>20 DEF WorkerEnds, Goto
<1>21. CASE Shutdown
  BY <1>21 DEF Shutdown
<1>22. CASE CloseAtOnce
  BY <1>22 DEF CloseAtOnce, Forget
<1>23. CASE CloseBegins
  BY <1>23 DEF CloseBegins
<1>24. CASE CloseEnds
  BY <1>24 DEF CloseEnds, Forget
<1>25. CASE Closed
  BY <1>1, <1>25 DEF Closed
<1>26. QED
  BY <1>1, <1>2, <1>3, <1>4, <1>5, <1>6, <1>7, <1>8, <1>9, <1>10, <1>11, <1>12, <1>13,
     <1>14, <1>15, <1>16, <1>17, <1>18, <1>19, <1>20, <1>21, <1>22, <1>23, <1>24, <1>25
     DEF Next, Enter, CallerStep, Cancel, LifeStep, CloseStep

\* Whoever gives the lock back leaves a connection that was made, or none.
LEMMA HalfOpenStep ==
    ASSUME TypeOK, LockInv, CurrentInv, PlaceInv, QuitInv, NoHalfOpen, [Next]_vars
    PROVE  NoHalfOpen'
<1> USE CallerAssumption DEF TypeOK, LockInv, CurrentInv, PlaceInv, QuitInv, NoHalfOpen,
        Holding, Callers, connVars
<1>1. CASE UNCHANGED vars
  BY <1>1 DEF vars
<1>2. ASSUME NEW c \in Callers, Ask(c) PROVE NoHalfOpen'
  BY <1>2 DEF Ask, Goto
<1>3. ASSUME NEW c \in Callers, Reuse(c) PROVE NoHalfOpen'
  BY <1>3 DEF Reuse, Goto, Stale
<1>4. ASSUME NEW c \in Callers, NEW s \in Servers, Connect(c, s) PROVE NoHalfOpen'
  BY <1>4 DEF Connect, Goto, Stale, Replace
<1>5. ASSUME NEW c \in Callers, Connected(c) PROVE NoHalfOpen'
  BY <1>5 DEF Connected, Goto
<1>6. ASSUME NEW c \in Callers, ConnectError(c) PROVE NoHalfOpen'
  BY <1>6 DEF ConnectError, Goto
<1>7. ASSUME NEW c \in Callers, Cleared(c) PROVE NoHalfOpen'
  BY <1>7 DEF Cleared, Goto, Forget
<1>8. ASSUME NEW c \in Callers, CallEnds(c) PROVE NoHalfOpen'
  BY <1>8 DEF CallEnds, Goto
<1>9. ASSUME NEW s \in Servers, ConnectReturns(s) PROVE NoHalfOpen'
  BY <1>9 DEF ConnectReturns
<1>10. ASSUME NEW s \in Servers, ConnectRaises(s) PROVE NoHalfOpen'
  BY <1>10 DEF ConnectRaises
<1>11. ASSUME NEW s \in Servers, StopServing(s) PROVE NoHalfOpen'
  BY <1>11 DEF StopServing
<1>12. ASSUME NEW s \in Servers, ConnectionBreaks(s) PROVE NoHalfOpen'
  BY <1>12 DEF ConnectionBreaks
<1>13. ASSUME NEW s \in Servers, CleanupEnds(s) PROVE NoHalfOpen'
  BY <1>13 DEF CleanupEnds
<1>14. ASSUME NEW s \in Servers, ServerDies(s) PROVE NoHalfOpen'
  BY <1>14 DEF ServerDies
<1>15. CASE Quit
  BY <1>15 DEF Quit
<1>16. ASSUME NEW w \in Workers, CancelOutside(w) PROVE NoHalfOpen'
  BY <1>16 DEF CancelOutside, Goto, Cancellable
<1>17. ASSUME NEW w \in Workers, CancelConnecting(w) PROVE NoHalfOpen'
  BY <1>17 DEF CancelConnecting, Goto, Cancellable
<1>18. ASSUME NEW w \in Workers, NEW left \in BOOLEAN, CancelClearing(w, left)
       PROVE  NoHalfOpen'
  BY <1>18 DEF CancelClearing, Cancellable
<1>19. ASSUME NEW w \in Workers, CancelCalling(w) PROVE NoHalfOpen'
  BY <1>19 DEF CancelCalling, Goto, Cancellable
<1>20. ASSUME NEW w \in Workers, WorkerEnds(w) PROVE NoHalfOpen'
  BY <1>20 DEF WorkerEnds, Goto
<1>21. CASE Shutdown
  BY <1>21 DEF Shutdown
<1>22. CASE CloseAtOnce
  BY <1>22 DEF CloseAtOnce, Forget
<1>23. CASE CloseBegins
  BY <1>23 DEF CloseBegins
<1>24. CASE CloseEnds
  BY <1>24 DEF CloseEnds, Forget
<1>25. CASE Closed
  BY <1>1, <1>25 DEF Closed
<1>26. QED
  BY <1>1, <1>2, <1>3, <1>4, <1>5, <1>6, <1>7, <1>8, <1>9, <1>10, <1>11, <1>12, <1>13,
     <1>14, <1>15, <1>16, <1>17, <1>18, <1>19, <1>20, <1>21, <1>22, <1>23, <1>24, <1>25
     DEF Next, Enter, CallerStep, Cancel, LifeStep, CloseStep

\* The initial state satisfies the inductive invariant.
LEMMA InitInv ==
    ASSUME Init
    PROVE  IInv
BY CallerAssumption DEF Init, IInv, TypeOK, LockInv, CurrentInv, PlaceInv, QuitInv,
   Reachable,
   NoHalfOpen, ClosedMeansGone, Holding, Callers, Places, Lives

\* Every step preserves the inductive invariant.
LEMMA InvStep ==
    ASSUME IInv, [Next]_vars
    PROVE  IInv'
<1>1. TypeOK /\ LockInv /\ CurrentInv /\ PlaceInv /\ QuitInv /\ NoHalfOpen
  BY DEF IInv
<1>2. TypeOK' /\ LockInv'
  BY <1>1, TypeStep, LockStep
<1>3. CurrentInv' /\ Reachable'
  BY <1>1, CurrentStep
<1>4. PlaceInv'
  BY <1>1, PlaceStep
<1>5. QuitInv' /\ NoHalfOpen'
  BY <1>1, QuitStep, HalfOpenStep
<1>6. ClosedMeansGone'
  BY <1>2, <1>3, <1>5, CallerAssumption DEF TypeOK, Lives, CurrentInv, QuitInv,
     Reachable, ClosedMeansGone
<1>7. QED
  BY <1>2, <1>3, <1>4, <1>5, <1>6 DEF IInv

\* The inductive invariant holds in every reachable state.
THEOREM InvCorrect == Spec => []IInv
<1>1. Init => IInv
  BY InitInv
<1>2. IInv /\ [Next]_vars => IInv'
  BY InvStep
<1>3. QED
  BY <1>1, <1>2, PTL DEF Spec

\* Types are kept.
THEOREM TypeCorrect == Spec => []TypeOK
<1>1. IInv => TypeOK
  BY DEF IInv
<1>2. QED
  BY <1>1, InvCorrect, PTL

\* Every lifecycle task that is not over belongs to the connection the fields
\* refer to: _ensure_server and close() reach all of them.
THEOREM OneConnection == Spec => []Reachable
<1>1. IInv => Reachable
  BY DEF IInv
<1>2. QED
  BY <1>1, InvCorrect, PTL

\* No caller, failed or cancelled, leaves a half-open connection to the next.
THEOREM NoneHalfOpen == Spec => []NoHalfOpen
<1>1. IInv => NoHalfOpen
  BY DEF IInv
<1>2. QED
  BY <1>1, InvCorrect, PTL

\* After close() no subprocess runs but one whose cleanup was cancelled.
THEOREM ClosedIsGone == Spec => []ClosedMeansGone
<1>1. IInv => ClosedMeansGone
  BY DEF IInv
<1>2. QED
  BY <1>1, InvCorrect, PTL

\* The fields change only when the lifecycle they refer to is over.
LEMMA ClearStep ==
    ASSUME IInv, [Next]_vars, current # NoServer, current' # current
    PROVE  life[current] = "done"
<1>1. \/ \E c \in Callers, s \in Servers : Connect(c, s)
      \/ \E c \in Callers : Cleared(c)
      \/ CloseAtOnce
      \/ CloseEnds
  BY DEF Next, Enter, CallerStep, Cancel, LifeStep, CloseStep, Ask, Reuse, Connected,
     ConnectError, CallEnds, ConnectReturns, ConnectRaises, StopServing,
        ConnectionBreaks,
     CleanupEnds, ServerDies, Quit, CancelOutside, CancelConnecting, CancelClearing,
     CancelCalling, WorkerEnds, Shutdown, CloseBegins, Closed, vars
<1>2. ASSUME NEW c \in Callers, NEW s \in Servers, Connect(c, s)
       PROVE  life[current] = "done"
  <2>1. lock = NoOne /\ Stale(current)
    BY <1>2 DEF Connect
  <2>2. QED
    BY <2>1 DEF Stale, IInv, TypeOK, NoHalfOpen
<1>3. ASSUME NEW c \in Callers, Cleared(c) PROVE life[current] = "done"
  BY <1>3 DEF Cleared
<1>4. CASE CloseAtOnce
  BY <1>4 DEF CloseAtOnce
<1>5. CASE CloseEnds
  BY <1>5 DEF CloseEnds
<1>6. QED
  BY <1>1, <1>2, <1>3, <1>4, <1>5

\* No step drops a connection whose lifecycle task is still at work.
THEOREM ClearingWaits == Spec => ClearWaits
<1>1. IInv /\ [Next]_vars => [(current # NoServer /\ current' # current) =>
   life[current] = "done"]_vars
  BY ClearStep
<1>2. QED
  BY <1>1, InvCorrect, PTL DEF Spec, ClearWaits
=============================================================================
