----------------------------- MODULE Sync_proofs ------------------------------
EXTENDS Sync, FiniteSetTheorems, TLAPS

-----------------------------------------------------------------------------
(***************************************************************************)
(* The operators of ChangeStore and the parts of a commit.                 *)
(***************************************************************************)

\* A database has finitely many rows, so counting them gives a number.
LEMMA KeysFinite == IsFiniteSet(Keys) /\ \A S \in SUBSET Keys : Cardinality(S) \in Nat
  <1>1. IsFiniteSet(Keys)
    BY StoreAssumption, FS_Product DEF Keys
  <1>2. ASSUME NEW S \in SUBSET Keys PROVE Cardinality(S) \in Nat
    BY <1>1, FS_Subset, FS_CardinalityType
  <1> QED BY <1>1, <1>2

LEMMA NumberingsType ==
    ASSUME NEW S \in SUBSET Keys, NEW T \in SUBSET Keys,
           NEW n \in Numberings(S, Cardinality(T))
    PROVE  n \in [S -> Nat]
  <1>1. Cardinality(S) \in Nat /\ Cardinality(T) \in Nat
    BY KeysFinite
  <1>2. (Cardinality(T) + 1)..(Cardinality(T) + Cardinality(S)) \subseteq Nat
    BY <1>1
  <1>3. n \in [S -> (Cardinality(T) + 1)..(Cardinality(T) + Cardinality(S))]
    BY DEF Numberings
  <1> QED BY <1>2, <1>3

LEMMA InsertedType == \A w \in Workers : Inserted(w) \subseteq Keys
  BY DEF Inserted, NewEvents

LEMMA AboutType ==
    ASSUME NEW t, NEW D, NEW E
    PROVE  /\ About(t, D) \subseteq D
           /\ D \subseteq E => About(t, D) \subseteq About(t, E)
  BY DEF About

\* An item belongs to events of one type only.
LEMMA AboutDisjoint ==
    ASSUME NEW t, NEW u, t # u, NEW D, NEW E
    PROVE  About(t, D) \cap About(u, E) = {}
  BY SyncAssumption DEF About

\* A batch that is not empty is announced.
LEMMA BuildEventsType ==
    ASSUME NEW t, NEW B, NEW D, NEW o
    PROVE  /\ BuildEvents(t, B, D, o) \subseteq EventTypes
           /\ "LMS_CHANGED" \notin BuildEvents(t, B, D, o) => B = {}
  BY DEF BuildEvents, EventTypes

\* Committing leaves the tables well-typed.
LEMMA PersistType ==
    ASSUME TypeOK, NEW w \in Workers, PersistEntities(w)
    PROVE  /\ stored' \in [Entities -> SUBSET Values]
           /\ latest' \in [Entities -> Values \cup {NoValue}]
           /\ status' \in [Keys -> EventStatus]
           /\ created' \in [Keys -> Nat]
           /\ reserved' \subseteq DueKeys
           /\ lastSeen' \in [Entities -> Values \cup {NoValue}]
  <1>0. read[w] \in Reads
    BY DEF TypeOK
  <1>1. stored' \in [Entities -> SUBSET Values]
    BY <1>0 DEF PersistEntities, StoreSnapshots, Differing, TypeOK, Reads
  <1>2. latest' \in [Entities -> Values \cup {NoValue}]
    BY <1>0 DEF PersistEntities, LatestSnapshots, TypeOK, Reads
  <1>3. status' \in [Keys -> EventStatus]
    BY DEF PersistEntities, TypeOK, EventStatus
  <1>4. created' \in [Keys -> Nat]
    <2> DEFINE T == {k \in Keys : status[k] # "none"}
    <2>1. PICK n \in Numberings(Inserted(w), Cardinality(T)) :
            created' = [k \in Keys |-> IF k \in Inserted(w) THEN n[k] ELSE created[k]]
      BY DEF PersistEntities
    <2>2. T \in SUBSET Keys
      OBVIOUS
    <2>3. n \in [Inserted(w) -> Nat]
      BY <2>1, <2>2, InsertedType, NumberingsType
    <2> QED BY <2>1, <2>3 DEF TypeOK
  <1>5. reserved' \subseteq DueKeys
    BY <1>0 DEF PersistEntities, FreshDue, TypeOK, Reads
  <1>6. lastSeen' \in [Entities -> Values \cup {NoValue}]
    BY <1>0 DEF PersistEntities, TypeOK, Reads
  <1> QED BY <1>1, <1>2, <1>3, <1>4, <1>5, <1>6

\* What a worker holds after the commit is well-typed.
LEMMA JobType ==
    ASSUME TypeOK, NEW w \in Workers
    PROVE  [batch |-> Batch(w), due |-> FreshDue(w), ok |-> TRUE,
            todo |-> BuildEvents(trigger[w], Batch(w), FreshDue(w), read[w].open)]
              \in Jobs
  <1>1. read[w] \in Reads
    BY DEF TypeOK
  <1>2. Batch(w) \subseteq Keys
    BY <1>1, InsertedType DEF Batch, OldestPending, Reads
  <1>3. FreshDue(w) \subseteq DueKeys
    BY <1>1 DEF FreshDue, Reads
  <1> QED BY <1>2, <1>3, BuildEventsType DEF Jobs

\* The places where a task ends, and what it ends with.
LEMMA EndType ==
    ASSUME TypeOK, NEW w \in Workers, NEW p \in Places, End(w, p)
    PROVE  /\ pc' \in [Workers -> Places]
           /\ trigger' \in [Workers -> Triggers]
           /\ read' \in [Workers -> Reads]
           /\ job' \in [Workers -> Jobs]
           /\ deaf' \subseteq Workers
  <1>1. NoRead \in Reads
    BY DEF NoRead, Reads
  <1>2. NoJob \in Jobs
    BY DEF NoJob, Jobs
  <1> QED BY <1>1, <1>2 DEF End, TypeOK, Triggers

\* Every history row keeps a status of the enumeration.
LEMMA PersistUnknownType ==
    ASSUME TypeOK, NEW w \in Workers, PersistUnknown(w)
    PROVE  /\ stored' \in [Entities -> SUBSET Values]
           /\ latest' \in [Entities -> Values \cup {NoValue}]
           /\ status' \in [Keys -> EventStatus]
           /\ created' \in [Keys -> Nat]
           /\ reserved' \subseteq DueKeys
           /\ lastSeen' \in [Entities -> Values \cup {NoValue}]
           /\ row' \in [Workers -> RowStatus]
  <1>1. CASE UNCHANGED <<storeVars, row>>
    BY <1>1 DEF storeVars, TypeOK
  <1>2. CASE PersistEntities(w) /\ row' = [row EXCEPT ![w] = "COMPLETED"]
    BY <1>2, PersistType DEF TypeOK, RowStatus
  <1> QED BY <1>1, <1>2 DEF PersistUnknown

LEMMA MarkType ==
    ASSUME TypeOK, NEW w \in Workers, MarkProcessed(w)
    PROVE  status' \in [Keys -> EventStatus]
  BY DEF MarkProcessed, TypeOK, EventStatus

-----------------------------------------------------------------------------
(***************************************************************************)
(* Type correctness.                                                       *)
(***************************************************************************)
LEMMA TypeInit == Init => TypeOK
  <1> SUFFICES ASSUME Init PROVE TypeOK
    OBVIOUS
  <1>1. NoRead \in Reads
    BY DEF NoRead, Reads
  <1>2. NoJob \in Jobs
    BY DEF NoJob, Jobs
  <1>3. /\ stored \in [Entities -> SUBSET Values]
        /\ window \in [DueItems -> 0..(Thresholds + 1)]
        /\ pc \in [Workers -> Places]
    BY SyncAssumption DEF Init, Places, Ended
  <1> QED BY <1>1, <1>2, <1>3 DEF Init, TypeOK, EventStatus, RowStatus, Triggers

LEMMA TypeStep == TypeOK /\ [Next]_vars => TypeOK'
  <1> SUFFICES ASSUME TypeOK, [Next]_vars PROVE TypeOK'
    OBVIOUS
  <1> USE DEF envVars, storeVars, logVars, appVars, taskVars, heardVars
  <1>1. CASE Environment
    BY <1>1, SyncAssumption DEF Environment, LmsChange, DeadlineNears, HandIn, TypeOK
  <1>2. CASE Launch
    BY <1>2 DEF Launch, StartWorker, TypeOK, Triggers, Places, Ended, Critical, Delivering
  <1>3. CASE Quit \/ Close
    BY <1>3 DEF Quit, Close, TypeOK
  <1>4. CASE ProcessEnds
    <2>1. NoRead \in Reads /\ NoJob \in Jobs
      BY DEF NoRead, NoJob, Reads, Jobs
    <2> QED BY <1>4, <2>1 DEF ProcessEnds, TypeOK, RowStatus, Triggers, Places, Ended
  <1>5. ASSUME NEW w \in Workers, Heartbeat(w) \/ ManualRequest(w) PROVE TypeOK'
    BY <1>5 DEF Heartbeat, ManualRequest, StartWorker, TypeOK, Triggers, Places, Ended, Critical, Delivering
  <1>6. ASSUME NEW w \in Workers, Refuse(w) PROVE TypeOK'
    BY <1>6, EndType DEF Refuse, TypeOK, Places, Ended
  <1>7. ASSUME NEW w \in Workers, Acquire(w) \/ StartHistory(w) PROVE TypeOK'
    BY <1>7 DEF Acquire, StartHistory, GoTo, TypeOK, RowStatus, Places, Ended, Critical, Delivering
  <1>8. ASSUME NEW w \in Workers, StartHistoryFails(w) PROVE TypeOK'
    BY <1>8, EndType DEF StartHistoryFails, Retire, TypeOK, RowStatus, Places, Ended
  <1>9. ASSUME NEW w \in Workers, Read(w) PROVE TypeOK'
    <2>1. read' \in [Workers -> Reads]
      BY <1>9 DEF Read, Reads, Candidates, TypeOK
    <2> QED BY <1>9, <2>1 DEF Read, GoTo, TypeOK, Places, Critical
  <1>10. ASSUME NEW w \in Workers, ReadUnauthenticated(w) \/ ReadFails(w) PROVE TypeOK'
    BY <1>10 DEF ReadUnauthenticated, ReadFails, GoTo, TypeOK, Places, Critical
  <1>11. ASSUME NEW w \in Workers, Persist(w) PROVE TypeOK'
    <2>1. job' \in [Workers -> Jobs]
      BY <1>11, JobType DEF Persist, TypeOK
    <2>2. read' \in [Workers -> Reads]
      BY <1>11 DEF Persist, TypeOK, NoRead, Reads
    <2>3. row' \in [Workers -> RowStatus] /\ completed' \in BOOLEAN /\ lock' \in Workers \cup {Free}
      BY <1>11 DEF Persist, Retire, TypeOK, RowStatus
    <2>4. pc' \in [Workers -> Places]
      BY <1>11 DEF Persist, GoTo, TypeOK, Places, Delivering
    <2> QED BY <1>11, <2>1, <2>2, <2>3, <2>4, PersistType DEF Persist, GoTo, TypeOK
  <1>12. ASSUME NEW w \in Workers, PersistFails(w) PROVE TypeOK'
    <2>1. read' \in [Workers -> Reads]
      BY <1>12 DEF PersistFails, TypeOK, NoRead, Reads
    <2> QED BY <1>12, <2>1, PersistUnknownType DEF PersistFails, GoTo, TypeOK, Places, Critical
  <1>13. ASSUME NEW w \in Workers, FinishFailure(w) \/ FinishFailureRaises(w) PROVE TypeOK'
    BY <1>13, EndType DEF FinishFailure, FinishFailureRaises, FailureCode, Retire, TypeOK, RowStatus, Places, Ended
  <1>14. ASSUME NEW w \in Workers, FinishFailureRetries(w) PROVE TypeOK'
    BY <1>14 DEF FinishFailureRetries, FailureCode, GoTo, TypeOK, RowStatus, Places, Critical
  <1>15. ASSUME NEW w \in Workers, NEW t \in EventTypes, NEW succeeds \in BOOLEAN, Handle(w, t, succeeds) PROVE TypeOK'
    <2>1. job' \in [Workers -> Jobs]
      <3>1. job[w].todo \ {t} \subseteq EventTypes /\ (job[w].ok /\ succeeds) \in BOOLEAN
        BY DEF TypeOK, Jobs
      <3>2. [job[w] EXCEPT !.todo = @ \ {t}, !.ok = @ /\ succeeds] \in Jobs
        BY <3>1 DEF TypeOK, Jobs
      <3>3. job' = [job EXCEPT ![w] = [job[w] EXCEPT !.todo = @ \ {t}, !.ok = @ /\ succeeds]]
        BY <1>15 DEF Handle, TypeOK
      <3> QED BY <3>2, <3>3 DEF TypeOK
    <2>2. handled' \subseteq Keys
      BY <1>15 DEF Handle, Carried, TypeOK, Jobs
    <2>3. tried' \subseteq DueKeys
      BY <1>15, AboutType DEF Handle, TypeOK, Jobs
    <2> QED BY <1>15, <2>1, <2>2, <2>3 DEF Handle, TypeOK
  <1>16. ASSUME NEW w \in Workers, NEW t \in EventTypes, HandleRaises(w, t) PROVE TypeOK'
    <2>1. tried' \subseteq DueKeys
      BY <1>16, AboutType DEF HandleRaises, TypeOK, Jobs
    <2> QED BY <1>16, <2>1, EndType DEF HandleRaises, TypeOK, Places, Ended
  <1>17. ASSUME NEW w \in Workers, FinishDelivery(w) PROVE TypeOK'
    <2>1. CASE GoTo(w, "marking") /\ UNCHANGED <<inProgress, trigger, read, job>>
      BY <1>17, <2>1 DEF FinishDelivery, GoTo, TypeOK, Places, Delivering
    <2>2. CASE End(w, "idle") /\ inProgress' = FALSE
      BY <1>17, <2>2, EndType DEF FinishDelivery, TypeOK, Places, Ended
    <2> QED BY <1>17, <2>1, <2>2 DEF FinishDelivery
  <1>18. ASSUME NEW w \in Workers, Mark(w) \/ MarkRaises(w) \/ CancelOutside(w) PROVE TypeOK'
    BY <1>18, EndType, MarkType DEF Mark, MarkRaises, CancelOutside, TypeOK, Places, Ended
  <1>18a. ASSUME NEW w \in Workers, CancelSwallowed(w) PROVE TypeOK'
    BY <1>18a DEF CancelSwallowed, TypeOK
  <1>19. ASSUME NEW w \in Workers, CancelInTry(w) PROVE TypeOK'
    <2>1. read' \in [Workers -> Reads] /\ pc' \in [Workers -> Places]
      BY <1>19 DEF CancelInTry, GoTo, TypeOK, NoRead, Reads, Places, Critical
    <2>2. /\ stored' \in [Entities -> SUBSET Values]
          /\ latest' \in [Entities -> Values \cup {NoValue}]
          /\ status' \in [Keys -> EventStatus]
          /\ created' \in [Keys -> Nat]
          /\ reserved' \subseteq DueKeys
          /\ lastSeen' \in [Entities -> Values \cup {NoValue}]
          /\ row' \in [Workers -> RowStatus]
      BY <1>19, PersistUnknownType DEF CancelInTry, FailureCode, TypeOK, RowStatus
    <2> QED BY <1>19, <2>1, <2>2 DEF CancelInTry, GoTo, TypeOK
  <1>20. ASSUME NEW w \in Workers, CancelOut(w) PROVE TypeOK'
    BY <1>20, EndType DEF CancelOut, Retire, TypeOK, RowStatus, Places, Ended
  <1>21. CASE UNCHANGED vars
    BY <1>21 DEF vars, TypeOK
  <1> QED
    BY <1>1, <1>2, <1>3, <1>4, <1>5, <1>6, <1>7, <1>8, <1>9, <1>10, <1>11, <1>12, <1>13, <1>14, <1>15, <1>16, <1>17, <1>18, <1>18a, <1>19, <1>20, <1>21 DEF Next, Lifecycle, SyncStep, SyncFault, DeliveryStep, Cancel

\* Every reachable state is well-typed, for any numbers of entities,
\* payloads, deadlines and workers.
THEOREM TypeCorrect == Spec => []TypeOK
  BY TypeInit, TypeStep, PTL DEF Spec

-----------------------------------------------------------------------------
(***************************************************************************)
(* What a step can do to the tables, to the deliveries and to the tasks.   *)
(***************************************************************************)

\* A commit that reaches the tables, answered or not.
Commits(w) == pc[w] = "persisting" /\ PersistEntities(w)

Marks(w) ==
    /\ pc[w] = "marking"
    /\ MarkProcessed(w)
    /\ UNCHANGED <<stored, latest, created, reserved, lastSeen>>

Delivers(w) == \E t \in EventTypes : \/ \E succeeds \in BOOLEAN : Handle(w, t, succeeds)
                                     \/ HandleRaises(w, t)

\* The tasks in S end with what they were to deliver.
Drops(S) ==
    /\ job' = [w \in Workers |-> IF w \in S THEN NoJob ELSE job[w]]
    /\ UNCHANGED <<handled, tried>>

QuietDrop == UNCHANGED storeVars /\ \E S \in SUBSET Workers : Drops(S)

LEMMA StepEffect ==
    ASSUME TypeOK, [Next]_vars
    PROVE  \/ QuietDrop
           \/ \E w \in Workers : \/ Persist(w)
                                 \/ Commits(w) /\ Drops({})
                                 \/ Delivers(w) /\ UNCHANGED storeVars
                                 \/ Marks(w) /\ Drops({w})
  <1>0. ASSUME UNCHANGED <<job, heardVars>>
        PROVE  Drops({}) /\ \E S \in SUBSET Workers : Drops(S)
    <2>1. Drops({})
      BY <1>0 DEF Drops, heardVars, TypeOK
    <2> QED BY <2>1
  <1>a. ASSUME NEW w \in Workers, NEW p, End(w, p), UNCHANGED heardVars
        PROVE  Drops({w}) /\ \E S \in SUBSET Workers : Drops(S)
    <2>1. Drops({w})
      BY <1>a DEF Drops, End, heardVars, TypeOK
    <2> QED BY <2>1
  <1>1. CASE Environment
    BY <1>1, <1>0 DEF Environment, LmsChange, DeadlineNears, HandIn, taskVars, QuietDrop
  <1>2. CASE Launch \/ Quit \/ Close
    BY <1>2, <1>0 DEF Launch, StartWorker, Quit, Close, taskVars, QuietDrop
  <1>3. CASE ProcessEnds
    <2>1. Drops(Workers)
      BY <1>3 DEF ProcessEnds, Drops, heardVars
    <2> QED BY <1>3, <2>1 DEF ProcessEnds, QuietDrop
  <1>4. ASSUME NEW w \in Workers, Heartbeat(w) \/ ManualRequest(w) \/ SyncStep(w)
        PROVE  Persist(w) \/ QuietDrop
    BY <1>4, <1>0, <1>a DEF Heartbeat, ManualRequest, StartWorker, SyncStep, Refuse, Acquire,
                            StartHistory, Read, FinishFailure, QuietDrop
  <1>5. ASSUME NEW w \in Workers, PersistFails(w)
        PROVE  QuietDrop \/ (Commits(w) /\ Drops({}))
    BY <1>5, <1>0 DEF PersistFails, PersistUnknown, Commits, QuietDrop
  <1>6. ASSUME NEW w \in Workers, SyncFault(w), ~PersistFails(w)
        PROVE  QuietDrop
    BY <1>6, <1>0, <1>a DEF SyncFault, StartHistoryFails, ReadUnauthenticated, ReadFails,
                            FinishFailureRetries, FinishFailureRaises, QuietDrop
  <1>7. ASSUME NEW w \in Workers, NEW t \in EventTypes,
               HandleRaises(w, t) \/ \E succeeds \in BOOLEAN : Handle(w, t, succeeds)
        PROVE  Delivers(w) /\ UNCHANGED storeVars
    BY <1>7 DEF Delivers, Handle, HandleRaises
  <1>8. ASSUME NEW w \in Workers, FinishDelivery(w) \/ Mark(w) \/ MarkRaises(w)
        PROVE  QuietDrop \/ (Marks(w) /\ Drops({w}))
    BY <1>8, <1>0, <1>a DEF FinishDelivery, Mark, MarkRaises, Marks, storeVars, QuietDrop
  <1>9. ASSUME NEW w \in Workers, CancelOutside(w) \/ CancelSwallowed(w) \/ CancelOut(w)
        PROVE  QuietDrop \/ (Marks(w) /\ Drops({w}))
    BY <1>9, <1>0, <1>a DEF CancelOutside, CancelSwallowed, CancelOut, Marks, storeVars, QuietDrop
  <1>10. ASSUME NEW w \in Workers, CancelInTry(w)
        PROVE  QuietDrop \/ (Commits(w) /\ Drops({}))
    BY <1>10, <1>0 DEF CancelInTry, PersistUnknown, Commits, QuietDrop
  <1>11. CASE UNCHANGED vars
    BY <1>11, <1>0 DEF vars, taskVars, QuietDrop
  <1> QED
    BY <1>1, <1>2, <1>3, <1>4, <1>5, <1>6, <1>7, <1>8, <1>9, <1>10, <1>11
    DEF Next, Lifecycle, DeliveryStep, Cancel

LEMMA StoreEffect ==
    ASSUME TypeOK, [Next]_vars
    PROVE  \/ UNCHANGED storeVars
           \/ \E w \in Workers : Commits(w) \/ Marks(w)
  BY StepEffect DEF Persist, Commits, QuietDrop

LEMMA JobEffect ==
    ASSUME TypeOK, [Next]_vars
    PROVE  \/ \E w \in Workers : Persist(w) \/ Delivers(w)
           \/ \E S \in SUBSET Workers : Drops(S)
  BY StepEffect DEF QuietDrop

\* What a worker reads is what change_events holds when it reads.
LEMMA ReadEffect ==
    ASSUME TypeOK, [Next]_vars, NEW w \in Workers
    PROVE  \/ read'[w] \in {read[w], NoRead}
           \/ read'[w].seen = {k \in Keys : status[k] = "PENDING"} /\ UNCHANGED status
  <1>1. CASE Environment \/ Launch \/ Quit \/ Close \/ UNCHANGED vars
    BY <1>1 DEF Environment, LmsChange, DeadlineNears, HandIn, Launch, StartWorker, Quit, Close,
                vars, taskVars
  <1>2. CASE ProcessEnds
    BY <1>2 DEF ProcessEnds
  <1>3. ASSUME NEW v \in Workers, Heartbeat(v) \/ ManualRequest(v)
        PROVE  read'[w] = read[w]
    BY <1>3 DEF Heartbeat, ManualRequest, StartWorker
  <1>4. ASSUME NEW v \in Workers, SyncStep(v), ~Read(v)
        PROVE  read'[w] \in {read[w], NoRead}
    BY <1>4 DEF SyncStep, Refuse, Acquire, StartHistory, Persist, FinishFailure, End, TypeOK
  <1>5. ASSUME NEW v \in Workers, Read(v)
        PROVE  \/ read'[w] = read[w]
               \/ read'[w].seen = {k \in Keys : status[k] = "PENDING"} /\ UNCHANGED status
    BY <1>5 DEF Read, TypeOK, storeVars
  <1>6. ASSUME NEW v \in Workers, SyncFault(v)
        PROVE  read'[w] \in {read[w], NoRead}
    BY <1>6 DEF SyncFault, StartHistoryFails, ReadUnauthenticated, ReadFails, PersistFails,
                FinishFailureRetries, FinishFailureRaises, End, TypeOK
  <1>7. ASSUME NEW v \in Workers, DeliveryStep(v) \/ Cancel(v)
        PROVE  read'[w] \in {read[w], NoRead}
    BY <1>7 DEF DeliveryStep, Handle, HandleRaises, FinishDelivery, Mark, MarkRaises,
                Cancel, CancelOutside, CancelSwallowed, CancelInTry, CancelOut, End, TypeOK
  <1> QED BY <1>1, <1>2, <1>3, <1>4, <1>5, <1>6, <1>7 DEF Next, Lifecycle

-----------------------------------------------------------------------------
(***************************************************************************)
(* The lock and the tasks.                                                 *)
(***************************************************************************)
LEMMA LockStep == TypeOK /\ LockInv /\ [Next]_vars => LockInv'
  <1> SUFFICES ASSUME TypeOK, LockInv, [Next]_vars PROVE LockInv'
    OBVIOUS
  <1> USE SyncAssumption DEF Critical
  <1>1. CASE Environment \/ Launch \/ Quit \/ Close \/ UNCHANGED vars
    BY <1>1 DEF Environment, LmsChange, DeadlineNears, HandIn, Launch, StartWorker, Quit, Close,
                vars, taskVars, logVars, LockInv, TypeOK, Ended
  <1>2. CASE ProcessEnds
    BY <1>2 DEF ProcessEnds, LockInv
  <1>3. ASSUME NEW w \in Workers, Heartbeat(w) \/ ManualRequest(w)
        PROVE  LockInv'
    BY <1>3 DEF Heartbeat, ManualRequest, StartWorker, logVars, LockInv, TypeOK, Ended
  <1>4. ASSUME NEW w \in Workers, Refuse(w) \/ Acquire(w)
        PROVE  LockInv'
    BY <1>4 DEF Refuse, Acquire, Admitted, End, GoTo, logVars, LockInv, TypeOK
  <1>5. ASSUME NEW w \in Workers, StartHistory(w) \/ StartHistoryFails(w)
        PROVE  LockInv'
    BY <1>5 DEF StartHistory, StartHistoryFails, Retire, End, GoTo, LockInv, TypeOK
  <1>6. ASSUME NEW w \in Workers, Read(w) \/ ReadUnauthenticated(w) \/ ReadFails(w)
        PROVE  LockInv'
    BY <1>6 DEF Read, ReadUnauthenticated, ReadFails, GoTo, logVars, LockInv, TypeOK
  <1>7. ASSUME NEW w \in Workers, Persist(w) \/ FinishFailure(w) \/ FinishFailureRaises(w)
                                  \/ CancelOut(w)
        PROVE  LockInv'
    BY <1>7 DEF Persist, FinishFailure, FinishFailureRaises, CancelOut, Retire, End, GoTo,
                LockInv, TypeOK
  <1>8. ASSUME NEW w \in Workers, PersistFails(w) \/ FinishFailureRetries(w)
        PROVE  LockInv'
    BY <1>8 DEF PersistFails, PersistUnknown, FinishFailureRetries, GoTo, LockInv, TypeOK
  <1>9. ASSUME NEW w \in Workers, DeliveryStep(w) \/ CancelOutside(w) \/ CancelSwallowed(w)
        PROVE  LockInv'
    BY <1>9 DEF DeliveryStep, IsNextEvent, Handle, HandleRaises, FinishDelivery, Mark,
                MarkRaises, CancelOutside, CancelSwallowed, End, GoTo, logVars, LockInv, TypeOK, Delivering
  <1>10. ASSUME NEW w \in Workers, CancelInTry(w)
        PROVE  LockInv'
    BY <1>10 DEF CancelInTry, PersistUnknown, GoTo, LockInv, TypeOK
  <1> QED
    BY <1>1, <1>2, <1>3, <1>4, <1>5, <1>6, <1>7, <1>8, <1>9, <1>10
    DEF Next, Lifecycle, SyncStep, SyncFault, Cancel

LEMMA TaskStep == TypeOK /\ TaskInv /\ [Next]_vars => TaskInv'
  <1> SUFFICES ASSUME TypeOK, TaskInv, [Next]_vars PROVE TaskInv'
    OBVIOUS
  <1> USE DEF Delivering
  <1>a. ASSUME NEW w \in Workers, NEW p \in Ended, End(w, p)
        PROVE  TaskInv'
    BY <1>a DEF End, Ended, TaskInv, TypeOK
  <1>1. CASE Environment \/ Quit \/ Close \/ UNCHANGED vars
    BY <1>1 DEF Environment, LmsChange, DeadlineNears, HandIn, Quit, Close, vars, taskVars, TaskInv
  <1>2. CASE Launch \/ ProcessEnds
    BY <1>2 DEF Launch, StartWorker, ProcessEnds, taskVars, TaskInv, TypeOK, Ended
  <1>3. ASSUME NEW w \in Workers, Heartbeat(w) \/ ManualRequest(w)
        PROVE  TaskInv'
    BY <1>3 DEF Heartbeat, ManualRequest, StartWorker, TaskInv, TypeOK, Ended
  <1>4. ASSUME NEW w \in Workers, SyncStep(w), ~Persist(w)
        PROVE  TaskInv'
    BY <1>4, <1>a DEF SyncStep, Refuse, Acquire, StartHistory, Read, FinishFailure, GoTo,
                      TaskInv, TypeOK, Ended
  <1>5. ASSUME NEW w \in Workers, Persist(w)
        PROVE  TaskInv'
    BY <1>5 DEF Persist, GoTo, TaskInv, TypeOK
  <1>6. ASSUME NEW w \in Workers, SyncFault(w)
        PROVE  TaskInv'
    BY <1>6, <1>a DEF SyncFault, StartHistoryFails, ReadUnauthenticated, ReadFails, PersistFails,
                      FinishFailureRetries, FinishFailureRaises, GoTo, TaskInv, TypeOK, Ended
  <1>7. ASSUME NEW w \in Workers, DeliveryStep(w)
        PROVE  TaskInv'
    BY <1>7, <1>a DEF DeliveryStep, IsNextEvent, Handle, HandleRaises, FinishDelivery, MayMark,
                      Mark, MarkRaises, GoTo, TaskInv, TypeOK, Ended
  <1>8. ASSUME NEW w \in Workers, Cancel(w)
        PROVE  TaskInv'
    BY <1>8, <1>a DEF Cancel, CancelOutside, CancelSwallowed, CancelInTry, CancelOut, GoTo, TaskInv, TypeOK, Ended
  <1> QED BY <1>1, <1>2, <1>3, <1>4, <1>5, <1>6, <1>7, <1>8 DEF Next, Lifecycle

\* Admission is refused while paused, and whoever pauses holds the lock.
LEMMA PausedStep ==
    TypeOK /\ LockInv /\ PausedMeansNoHeartbeat /\ [Next]_vars => PausedMeansNoHeartbeat'
  <1> SUFFICES ASSUME TypeOK, LockInv, PausedMeansNoHeartbeat, [Next]_vars
               PROVE  PausedMeansNoHeartbeat'
    OBVIOUS
  <1> USE DEF PausedMeansNoHeartbeat
  <1>1. CASE Environment \/ Launch \/ Quit \/ Close \/ UNCHANGED vars
    BY <1>1 DEF Environment, LmsChange, DeadlineNears, HandIn, Launch, StartWorker, Quit, Close,
                vars, taskVars, appVars, TypeOK
  <1>2. CASE ProcessEnds
    BY <1>2 DEF ProcessEnds
  <1>3. ASSUME NEW w \in Workers, Heartbeat(w) \/ ManualRequest(w)
        PROVE  PausedMeansNoHeartbeat'
    BY <1>3 DEF Heartbeat, ManualRequest, StartWorker, appVars, TypeOK
  <1>4. ASSUME NEW w \in Workers, SyncStep(w)
        PROVE  PausedMeansNoHeartbeat'
    BY <1>4 DEF SyncStep, Refuse, Acquire, Admitted, StartHistory, Read, Persist, FinishFailure,
                End, GoTo, appVars, TypeOK
  <1>5. ASSUME NEW w \in Workers, ReadUnauthenticated(w)
        PROVE  PausedMeansNoHeartbeat'
    BY <1>5 DEF ReadUnauthenticated, GoTo, LockInv, Critical, TypeOK
  <1>6. ASSUME NEW w \in Workers, SyncFault(w), ~ReadUnauthenticated(w)
        PROVE  PausedMeansNoHeartbeat'
    BY <1>6 DEF SyncFault, StartHistoryFails, ReadFails, PersistFails, FinishFailureRetries,
                FinishFailureRaises, End, GoTo, appVars, TypeOK
  <1>7. ASSUME NEW w \in Workers, DeliveryStep(w) \/ Cancel(w)
        PROVE  PausedMeansNoHeartbeat'
    BY <1>7 DEF DeliveryStep, Handle, HandleRaises, FinishDelivery, Mark, MarkRaises, Cancel,
                CancelOutside, CancelSwallowed, CancelInTry, CancelOut, End, GoTo, appVars, TypeOK
  <1> QED BY <1>1, <1>2, <1>3, <1>4, <1>5, <1>6, <1>7 DEF Next, Lifecycle

-----------------------------------------------------------------------------
(***************************************************************************)
(* The tables.                                                             *)
(***************************************************************************)
LEMMA HistoryGrows ==
    ASSUME TypeOK, [Next]_vars
    PROVE  handled \subseteq handled' /\ reserved \subseteq reserved'
  <1>1. handled \subseteq handled'
    BY JobEffect DEF Persist, Delivers, Handle, HandleRaises, Drops, heardVars
  <1>2. reserved \subseteq reserved'
    BY StoreEffect DEF storeVars, Commits, PersistEntities, Marks
  <1> QED BY <1>1, <1>2

LEMMA StoreStep == TypeOK /\ StoreInv /\ [Next]_vars => StoreInv'
  <1> SUFFICES ASSUME TypeOK, StoreInv, [Next]_vars PROVE StoreInv'
    OBVIOUS
  <1>1. CASE UNCHANGED storeVars
    BY <1>1 DEF storeVars, StoreInv
  <1>2. ASSUME NEW w \in Workers, Commits(w)
        PROVE  StoreInv'
    <2> DEFINE view == read[w].view
    <2>0. view \in [Entities -> Values \cup {NoValue}]
      BY DEF TypeOK, Reads
    <2> SUFFICES ASSUME NEW e \in Entities
                 PROVE  /\ latest'[e] = NoValue => stored'[e] = {}
                        /\ \A v \in Values : status'[<<e, v>>] # "none" => v \in stored'[e]
                        /\ \A v \in Values : lastSeen'[e] = v =>
                              latest'[e] = v \/ status'[<<e, v>>] # "none"
      BY DEF StoreInv
    <2>1. /\ stored'[e] = IF e \in Differing(latest, view)
                          THEN stored[e] \cup {view[e]} ELSE stored[e]
          /\ latest'[e] = IF e \in Differing(latest, view) /\ view[e] \notin stored[e]
                          THEN view[e] ELSE latest[e]
          /\ lastSeen'[e] = IF view[e] # NoValue THEN view[e] ELSE lastSeen[e]
      BY <1>2 DEF Commits, PersistEntities, StoreSnapshots, LatestSnapshots
    <2>2. \A v \in Values : status'[<<e, v>>] = IF <<e, v>> \in Inserted(w)
                                                THEN "PENDING" ELSE status[<<e, v>>]
      BY <1>2 DEF Commits, PersistEntities, Keys
    <2>3. \A v \in Values : <<e, v>> \in Inserted(w) <=>
              /\ e \in Differing(latest, view)
              /\ v = view[e]
              /\ ~IsBaseline(latest, e, completed)
              /\ status[<<e, v>>] = "none"
      BY DEF Inserted, NewEvents, Keys
    <2>4. e \in Differing(latest, view) <=> view[e] # NoValue /\ view[e] # latest[e]
      BY DEF Differing
    <2>5. /\ latest[e] = NoValue => stored[e] = {}
          /\ \A v \in Values : status[<<e, v>>] # "none" => v \in stored[e]
          /\ \A v \in Values : lastSeen[e] = v => latest[e] = v \/ status[<<e, v>>] # "none"
      BY DEF StoreInv
    <2>6. latest'[e] = NoValue => stored'[e] = {}
      BY <2>0, <2>1, <2>4, <2>5
    <2>7. ASSUME NEW v \in Values, status'[<<e, v>>] # "none" PROVE v \in stored'[e]
      BY <2>7, <2>1, <2>2, <2>3, <2>5
    <2>8. ASSUME NEW v \in Values, lastSeen'[e] = v
          PROVE  latest'[e] = v \/ status'[<<e, v>>] # "none"
      BY <2>8, <2>0, <2>1, <2>2, <2>3, <2>4, <2>5 DEF IsBaseline
    <2> QED BY <2>6, <2>7, <2>8
  <1>3. ASSUME NEW w \in Workers, Marks(w)
        PROVE  StoreInv'
    BY <1>3 DEF Marks, MarkProcessed, StoreInv, Keys
  <1> QED BY <1>1, <1>2, <1>3, StoreEffect

LEMMA BaselineStep == TypeOK /\ StoreInv /\ OneBaseline /\ [Next]_vars => OneBaseline'
  <1> SUFFICES ASSUME TypeOK, StoreInv, OneBaseline, [Next]_vars PROVE OneBaseline'
    OBVIOUS
  <1>1. CASE UNCHANGED storeVars
    BY <1>1 DEF storeVars, OneBaseline
  <1>2. ASSUME NEW w \in Workers, Commits(w)
        PROVE  OneBaseline'
    <2> DEFINE view == read[w].view
    <2>0. view \in [Entities -> Values \cup {NoValue}] /\ stored \in [Entities -> SUBSET Values]
      BY DEF TypeOK, Reads
    <2> SUFFICES ASSUME NEW e \in Entities, NEW u \in stored'[e], NEW v \in stored'[e],
                        status'[<<e, u>>] = "none", status'[<<e, v>>] = "none"
                 PROVE  u = v
      BY DEF OneBaseline
    <2>1. stored'[e] = IF e \in Differing(latest, view)
                       THEN stored[e] \cup {view[e]} ELSE stored[e]
      BY <1>2 DEF Commits, PersistEntities, StoreSnapshots
    <2>2. e \in Differing(latest, view) => view[e] \in Values
      BY <2>0 DEF Differing
    <2>3. u \in Values /\ v \in Values
      BY <2>0, <2>1, <2>2
    <2>4. \A x \in Values : status'[<<e, x>>] = IF <<e, x>> \in Inserted(w)
                                                THEN "PENDING" ELSE status[<<e, x>>]
      BY <1>2 DEF Commits, PersistEntities, Keys
    <2>5. status[<<e, u>>] = "none" /\ status[<<e, v>>] = "none"
      BY <2>3, <2>4
    <2>6. CASE e \in Differing(latest, view) /\ IsBaseline(latest, e, completed)
      <3>1. stored[e] = {}
        BY <2>6 DEF IsBaseline, StoreInv
      <3> QED BY <3>1, <2>1
    <2>7. CASE e \in Differing(latest, view) /\ ~IsBaseline(latest, e, completed)
      <3>1. \A x \in Values : x = view[e] /\ status[<<e, x>>] = "none" => <<e, x>> \in Inserted(w)
        BY <2>7 DEF Inserted, NewEvents, Keys
      <3>2. u # view[e] /\ v # view[e]
        BY <3>1, <2>3, <2>4, <2>5
      <3> QED BY <3>2, <2>1, <2>5 DEF OneBaseline
    <2>8. CASE e \notin Differing(latest, view)
      BY <2>8, <2>1, <2>5 DEF OneBaseline
    <2> QED BY <2>6, <2>7, <2>8
  <1>3. ASSUME NEW w \in Workers, Marks(w)
        PROVE  OneBaseline'
    BY <1>3 DEF Marks, MarkProcessed, OneBaseline, Keys, TypeOK
  <1> QED BY <1>1, <1>2, <1>3, StoreEffect

\* A row turns PROCESSED in a marking only, and then its batch was handled.
LEMMA HandledStep ==
    TypeOK /\ TaskInv /\ BatchInv /\ ProcessedWasHandled /\ [Next]_vars => ProcessedWasHandled'
  <1> SUFFICES ASSUME TypeOK, TaskInv, BatchInv, ProcessedWasHandled, [Next]_vars,
                      NEW k \in Keys, status'[k] = "PROCESSED"
               PROVE  k \in handled'
    BY DEF ProcessedWasHandled
  <1>1. CASE status[k] = "PROCESSED"
    BY <1>1, HistoryGrows DEF ProcessedWasHandled
  <1>2. CASE status[k] # "PROCESSED"
    <2>1. PICK w \in Workers : Commits(w) \/ Marks(w)
      BY <1>2, StoreEffect DEF storeVars
    <2>2. ~Commits(w)
      BY <1>2 DEF Commits, PersistEntities
    <2>3. pc[w] = "marking" /\ k \in job[w].batch
      BY <1>2, <2>1, <2>2 DEF Marks, MarkProcessed
    <2>4. job[w].batch \subseteq handled
      BY <2>3 DEF TaskInv, BatchInv
    <2> QED BY <2>3, <2>4, HistoryGrows
  <1> QED BY <1>1, <1>2

-----------------------------------------------------------------------------
(***************************************************************************)
(* The deliveries.                                                         *)
(***************************************************************************)
LEMMA StatusGrows ==
    ASSUME TypeOK, [Next]_vars, NEW k \in Keys, status[k] # "none"
    PROVE  status'[k] # "none"
  <1>1. CASE UNCHANGED storeVars
    BY <1>1 DEF storeVars
  <1>2. ASSUME NEW w \in Workers, Commits(w) \/ Marks(w) PROVE status'[k] # "none"
    BY <1>2 DEF Commits, PersistEntities, Marks, MarkProcessed
  <1> QED BY <1>1, <1>2, StoreEffect

\* What the commit of w puts into its hands; the other tasks keep theirs.
LEMMA PersistJob ==
    ASSUME TypeOK, NEW w \in Workers, Persist(w)
    PROVE  /\ job'[w].batch = Batch(w)
           /\ job'[w].due = FreshDue(w)
           /\ job'[w].ok
           /\ job'[w].todo = BuildEvents(trigger[w], Batch(w), FreshDue(w), read[w].open)
           /\ \A v \in Workers : v # w => job'[v] = job[v]
           /\ Batch(w) \subseteq read[w].seen \cup Inserted(w)
           /\ FreshDue(w) \subseteq DueKeys
           /\ UNCHANGED <<handled, tried>>
  <1>1. Batch(w) \subseteq read[w].seen \cup Inserted(w)
    BY DEF Batch, OldestPending
  <1>2. FreshDue(w) \subseteq DueKeys
    BY DEF FreshDue, TypeOK, Reads
  <1>3. job'[w] = [batch |-> Batch(w), due |-> FreshDue(w), ok |-> TRUE,
                   todo |-> BuildEvents(trigger[w], Batch(w), FreshDue(w), read[w].open)]
    BY DEF Persist, TypeOK
  <1>4. (\A v \in Workers : v # w => job'[v] = job[v]) /\ UNCHANGED <<handled, tried>>
    BY DEF Persist, TypeOK, heardVars
  <1> QED BY <1>1, <1>2, <1>3, <1>4

\* What is left after an event of type t.
LEMMA HandleJob ==
    ASSUME TypeOK, NEW w \in Workers, NEW t \in EventTypes, NEW succeeds \in BOOLEAN,
           Handle(w, t, succeeds)
    PROVE  /\ t \in job[w].todo
           /\ job'[w].batch = job[w].batch
           /\ job'[w].due = job[w].due
           /\ job'[w].todo = job[w].todo \ {t}
           /\ job'[w].ok = (job[w].ok /\ succeeds)
           /\ \A v \in Workers : v # w => job'[v] = job[v]
           /\ handled' = IF succeeds THEN handled \cup Carried(w, t) ELSE handled
           /\ tried' = tried \cup About(t, job[w].due)
  <1>1. job[w] \in Jobs
    BY DEF TypeOK
  <1>2. job' = [job EXCEPT ![w] = [job[w] EXCEPT !.todo = @ \ {t}, !.ok = @ /\ succeeds]]
    BY DEF Handle, TypeOK
  <1>3. t \in job[w].todo
    BY DEF Handle, IsNextEvent
  <1>4. job'[w].ok = (job[w].ok /\ succeeds)
    BY <1>1, <1>2 DEF Jobs, TypeOK
  <1> QED BY <1>1, <1>2, <1>3, <1>4 DEF Handle, Jobs, TypeOK

LEMMA RaiseJob ==
    ASSUME TypeOK, NEW w \in Workers, NEW t \in EventTypes, HandleRaises(w, t)
    PROVE  /\ t \in job[w].todo
           /\ job'[w] = NoJob
           /\ \A v \in Workers : v # w => job'[v] = job[v]
           /\ handled' = handled
           /\ tried' = tried \cup About(t, job[w].due)
  BY DEF HandleRaises, IsNextEvent, End, TypeOK

LEMMA BatchStep == TypeOK /\ BatchInv /\ [Next]_vars => BatchInv'
  <1> SUFFICES ASSUME TypeOK, BatchInv, [Next]_vars PROVE BatchInv'
    OBVIOUS
  <1>1. \A w \in Workers : \A k \in read'[w].seen : status'[k] # "none"
    <2> SUFFICES ASSUME NEW w \in Workers, NEW k \in read'[w].seen
                 PROVE  status'[k] # "none"
      OBVIOUS
    <2>1. CASE read'[w] = NoRead
      BY <2>1 DEF NoRead
    <2>2. CASE read'[w] = read[w]
      <3>1. k \in Keys
        BY <2>2 DEF TypeOK, Reads
      <3> QED BY <2>2, <3>1, StatusGrows DEF BatchInv
    <2>3. CASE read'[w].seen = {j \in Keys : status[j] = "PENDING"} /\ UNCHANGED status
      BY <2>3
    <2> QED BY <2>1, <2>2, <2>3, ReadEffect
  <1>2. \A w \in Workers : \A k \in job[w].batch : status'[k] # "none"
    BY StatusGrows DEF BatchInv, TypeOK, Jobs
  <1> SUFFICES ASSUME NEW w \in Workers
               PROVE  /\ \A k \in job'[w].batch : status'[k] # "none"
                      /\ job'[w].ok /\ "LMS_CHANGED" \notin job'[w].todo
                           => job'[w].batch \subseteq handled'
    BY <1>1 DEF BatchInv
  <1>3. CASE job'[w] = job[w]
    BY <1>2, <1>3, HistoryGrows DEF BatchInv
  <1>4. CASE job'[w] = NoJob
    BY <1>4 DEF NoJob
  <1>5. CASE Persist(w)
    <2>1. \A k \in Inserted(w) : status'[k] # "none"
      BY <1>5, InsertedType DEF Persist, PersistEntities
    <2>2. \A k \in read[w].seen : status'[k] # "none"
      BY StatusGrows DEF BatchInv, TypeOK, Reads
    <2>3. job'[w].batch \subseteq read[w].seen \cup Inserted(w)
      BY <1>5, PersistJob
    <2>4. "LMS_CHANGED" \notin job'[w].todo => job'[w].batch = {}
      BY <1>5, PersistJob, BuildEventsType
    <2> QED BY <2>1, <2>2, <2>3, <2>4
  <1>6. ASSUME NEW t \in EventTypes, NEW succeeds \in BOOLEAN, Handle(w, t, succeeds)
        PROVE  /\ \A k \in job'[w].batch : status'[k] # "none"
               /\ job'[w].ok /\ "LMS_CHANGED" \notin job'[w].todo
                    => job'[w].batch \subseteq handled'
    <2>1. /\ t \in job[w].todo
          /\ job'[w].batch = job[w].batch
          /\ job'[w].todo = job[w].todo \ {t}
          /\ job'[w].ok = (job[w].ok /\ succeeds)
          /\ handled' = IF succeeds THEN handled \cup Carried(w, t) ELSE handled
      BY <1>6, HandleJob
    <2>2. ASSUME job'[w].ok, "LMS_CHANGED" \notin job'[w].todo
          PROVE  job[w].batch \subseteq handled'
      <3>1. job[w].ok /\ succeeds
        BY <2>1, <2>2
      <3>2. CASE t = "LMS_CHANGED"
        BY <2>1, <3>1, <3>2 DEF Carried
      <3>3. CASE t # "LMS_CHANGED"
        BY <2>1, <2>2, <3>1, <3>3, HistoryGrows DEF BatchInv
      <3> QED BY <3>2, <3>3
    <2> QED BY <1>2, <2>1, <2>2
  <1>7. ASSUME NEW v \in Workers, v # w, Persist(v) \/ Delivers(v)
        PROVE  job'[w] = job[w]
    <2>1. ASSUME NEW t \in EventTypes, HandleRaises(v, t) PROVE job'[w] = job[w]
      BY <1>7, <2>1, RaiseJob
    <2>2. ASSUME NEW t \in EventTypes, NEW succeeds \in BOOLEAN, Handle(v, t, succeeds)
          PROVE  job'[w] = job[w]
      BY <1>7, <2>2, HandleJob
    <2>3. CASE Persist(v)
      BY <1>7, <2>3, PersistJob
    <2> QED BY <1>7, <2>1, <2>2, <2>3 DEF Delivers
  <1>8. ASSUME Delivers(w)
        PROVE  \/ job'[w] = NoJob
               \/ \E t \in EventTypes : \E succeeds \in BOOLEAN : Handle(w, t, succeeds)
    BY <1>8, RaiseJob DEF Delivers
  <1>9. ASSUME NEW S \in SUBSET Workers, Drops(S)
        PROVE  job'[w] \in {job[w], NoJob}
    BY <1>9 DEF Drops
  <1> QED BY <1>3, <1>4, <1>5, <1>6, <1>7, <1>8, <1>9, JobEffect

LEMMA DueStep == TypeOK /\ DueInv /\ [Next]_vars => DueInv'
  <1> SUFFICES ASSUME TypeOK, DueInv, [Next]_vars PROVE DueInv'
    OBVIOUS
  <1>1. reserved \subseteq reserved'
    BY HistoryGrows
  <1>2. ASSUME NEW w \in Workers, Persist(w)
        PROVE  DueInv'
    <2>1. reserved' = reserved \cup FreshDue(w) /\ FreshDue(w) \cap reserved = {}
      BY <1>2 DEF Persist, PersistEntities, FreshDue
    <2>2. /\ job'[w].due = FreshDue(w)
          /\ \A v \in Workers : v # w => job'[v] = job[v]
          /\ tried' = tried
      BY <1>2, PersistJob
    <2> QED BY <2>1, <2>2 DEF DueInv
  <1>3. ASSUME NEW w \in Workers, NEW t \in EventTypes, NEW succeeds \in BOOLEAN,
               Handle(w, t, succeeds)
        PROVE  DueInv'
    BY <1>1, <1>3, HandleJob, AboutType DEF DueInv
  <1>4. ASSUME NEW w \in Workers, NEW t \in EventTypes, HandleRaises(w, t)
        PROVE  DueInv'
    BY <1>1, <1>4, RaiseJob, AboutType DEF DueInv, NoJob
  <1>5. ASSUME NEW S \in SUBSET Workers, Drops(S)
        PROVE  DueInv'
    BY <1>1, <1>5 DEF Drops, DueInv, NoJob
  <1> QED BY <1>2, <1>3, <1>4, <1>5, JobEffect DEF Delivers

LEMMA WarningStep == TypeOK /\ DueInv /\ NoSecondWarning /\ [Next]_vars => NoSecondWarning'
  <1> SUFFICES ASSUME TypeOK, DueInv, NoSecondWarning, [Next]_vars,
                      NEW w \in Workers, NEW u \in job'[w].todo
               PROVE  About(u, job'[w].due) \cap tried' = {}
    BY DEF NoSecondWarning
  <1>1. ASSUME NEW v \in Workers, Persist(v)
        PROVE  About(u, job'[w].due) \cap tried' = {}
    <2>1. CASE w = v
      <3>1. FreshDue(w) \cap tried = {}
        BY DEF FreshDue, DueInv
      <3> QED BY <1>1, <2>1, <3>1, PersistJob, AboutType
    <2>2. CASE w # v
      BY <1>1, <2>2, PersistJob DEF NoSecondWarning
    <2> QED BY <2>1, <2>2
  <1>2. ASSUME NEW v \in Workers, NEW t \in EventTypes, NEW succeeds \in BOOLEAN,
               Handle(v, t, succeeds)
        PROVE  About(u, job'[w].due) \cap tried' = {}
    <2>1. CASE w = v
      <3>1. u # t /\ u \in job[w].todo /\ job'[w].due = job[w].due
        BY <1>2, <2>1, HandleJob
      <3>2. About(u, job[w].due) \cap About(t, job[w].due) = {}
        BY <3>1, AboutDisjoint
      <3> QED BY <1>2, <2>1, <3>1, <3>2, HandleJob DEF NoSecondWarning
    <2>2. CASE w # v
      <3>1. About(u, job[w].due) \cap About(t, job[v].due) = {}
        BY <2>2, AboutType DEF DueInv
      <3> QED BY <1>2, <2>2, <3>1, HandleJob DEF NoSecondWarning
    <2> QED BY <2>1, <2>2
  <1>3. ASSUME NEW v \in Workers, NEW t \in EventTypes, HandleRaises(v, t)
        PROVE  About(u, job'[w].due) \cap tried' = {}
    <2>1. w # v
      BY <1>3, RaiseJob DEF NoJob
    <2>2. About(u, job[w].due) \cap About(t, job[v].due) = {}
      BY <2>1, AboutType DEF DueInv
    <2> QED BY <1>3, <2>1, <2>2, RaiseJob DEF NoSecondWarning
  <1>4. ASSUME NEW S \in SUBSET Workers, Drops(S)
        PROVE  About(u, job'[w].due) \cap tried' = {}
    BY <1>4 DEF Drops, NoSecondWarning, NoJob
  <1> QED BY <1>1, <1>2, <1>3, <1>4, JobEffect DEF Delivers

-----------------------------------------------------------------------------
(***************************************************************************)
(* The invariant and what follows from it.                                 *)
(***************************************************************************)
LEMMA InvInit == Init => IInv
  <1> SUFFICES ASSUME Init PROVE IInv
    OBVIOUS
  <1>1. TypeOK
    BY TypeInit
  <1>2. LockInv /\ TaskInv /\ BatchInv /\ DueInv
    BY SyncAssumption DEF Init, LockInv, TaskInv, BatchInv, DueInv, NoJob, NoRead, Critical,
                          Delivering
  <1>3. StoreInv /\ ProcessedWasHandled /\ OneBaseline
    BY StoreAssumption DEF Init, StoreInv, ProcessedWasHandled, OneBaseline, Keys
  <1>4. NoSecondWarning /\ PausedMeansNoHeartbeat
    BY DEF Init, NoSecondWarning, PausedMeansNoHeartbeat
  <1> QED BY <1>1, <1>2, <1>3, <1>4 DEF IInv

LEMMA InvStep == IInv /\ [Next]_vars => IInv'
  BY TypeStep, LockStep, TaskStep, BatchStep, DueStep, StoreStep, HandledStep, WarningStep,
     BaselineStep, PausedStep
  DEF IInv

\* The conjunction of all safety properties of background synchronisation,
\* with what makes it inductive, holds of every reachable state.
THEOREM InvCorrect == Spec => []IInv
  BY InvInit, InvStep, PTL DEF Spec

\* At-least-once delivery: a change event is settled only after a Manager
\* run that carried it and did not fail.
THEOREM ChangeDeliveredBeforeSettled == Spec => []ProcessedWasHandled
  <1>1. IInv => ProcessedWasHandled
    BY DEF IInv
  <1> QED BY <1>1, InvCorrect, PTL

\* At-most-once delivery: no deadline is on its way to the Manager twice.
THEOREM WarnedAtMostOnce == Spec => []NoSecondWarning
  <1>1. IInv => NoSecondWarning
    BY DEF IInv
  <1> QED BY <1>1, InvCorrect, PTL

\* No payload but the baseline is stored without a change event.
THEOREM ChangesRecorded == Spec => []OneBaseline
  <1>1. IInv => OneBaseline
    BY DEF IInv
  <1> QED BY <1>1, InvCorrect, PTL

\* A heartbeat never works while a login is asked for.
THEOREM PausedStaysQuiet == Spec => []PausedMeansNoHeartbeat
  <1>1. IInv => PausedMeansNoHeartbeat
    BY DEF IInv
  <1> QED BY <1>1, InvCorrect, PTL

\* A reading equal to the previous one creates no event.
THEOREM EventsAreNews == Spec => NoSpuriousEvent
  <1>1. ASSUME IInv, [Next]_vars
        PROVE  [\A k \in Keys : status[k] = "none" /\ status'[k] # "none"
                                => lastSeen[k[1]] # k[2]]_vars
    <2> SUFFICES ASSUME NEW k \in Keys, status[k] = "none", status'[k] # "none"
                 PROVE  lastSeen[k[1]] # k[2]
      OBVIOUS
    <2>1. k[1] \in Entities /\ k[2] \in Values /\ k = <<k[1], k[2]>>
      BY DEF Keys
    <2>2. PICK w \in Workers : Commits(w) \/ Marks(w)
      BY <1>1, StoreEffect DEF storeVars, IInv
    <2>3. k \in Inserted(w)
      BY <2>2 DEF Commits, PersistEntities, Marks, MarkProcessed
    <2>4. latest[k[1]] # k[2]
      BY <2>3 DEF Inserted, NewEvents, Differing
    <2> QED BY <1>1, <2>1, <2>4 DEF IInv, StoreInv
  <1> QED BY <1>1, InvCorrect, PTL DEF Spec, NoSpuriousEvent

-----------------------------------------------------------------------------
(***************************************************************************)
(* Background synchronisation implements the alert outbox: Sync's initial  *)
(* states are initial states of AlertOutbox, and each of its steps is one  *)
(* step of AlertOutbox or leaves its variables alone.                      *)
(***************************************************************************)
OutboxVars == <<status, handled, reserved, InTransit, tried>>

\* A deadline is in transit while an event that is about it is to come.
LEMMA InTransitMember ==
    ASSUME TypeOK, NEW k
    PROVE  k \in InTransit <=>
             \E w \in Workers : \E t \in job[w].todo : k \in About(t, job[w].due)
  BY AboutType DEF InTransit, TypeOK, Jobs

\* Any deadline is about to be announced once its commit is answered.
LEMMA BuiltEventsCover ==
    ASSUME NEW t, NEW B, NEW D \in SUBSET DueKeys, NEW o, NEW k \in D
    PROVE  \E u \in BuildEvents(t, B, D, o) : k \in About(u, D)
  <1>1. k[1] \in Assignments \/ k[1] \in Lectures
    BY DEF DueKeys, DueItems
  <1>2. CASE k[1] \in Assignments
    <2>1. k \in About("DEADLINE_WARNING", D)
      BY <1>2 DEF About
    <2>2. "DEADLINE_WARNING" \in BuildEvents(t, B, D, o)
      BY <2>1 DEF BuildEvents, EventTypes
    <2> QED BY <2>1, <2>2
  <1>3. CASE k[1] \in Lectures
    <2>1. k \in About("ATTENDANCE_WARNING", D)
      BY <1>3 DEF About
    <2>2. "ATTENDANCE_WARNING" \in BuildEvents(t, B, D, o)
      BY <2>1 DEF BuildEvents, EventTypes
    <2> QED BY <2>1, <2>2
  <1> QED BY <1>1, <1>2, <1>3

\* What a commit does to the tables of the outbox.
LEMMA CommitEffect ==
    ASSUME TypeOK, NEW w \in Workers, PersistEntities(w)
    PROVE  /\ Inserted(w) \in SUBSET Keys
           /\ FreshDue(w) \in SUBSET DueKeys
           /\ \A c \in Inserted(w) : status[c] = "none"
           /\ FreshDue(w) \cap reserved = {}
           /\ status' = [c \in Keys |-> IF c \in Inserted(w) THEN "PENDING" ELSE status[c]]
           /\ reserved' = reserved \cup FreshDue(w)
  BY DEF PersistEntities, Inserted, NewEvents, FreshDue, TypeOK, Reads

LEMMA OutboxInit == Init => Outbox!Init
  <1> SUFFICES ASSUME Init PROVE Outbox!Init
    OBVIOUS
  <1>1. InTransit = {}
    BY DEF Init, InTransit, NoJob
  <1> QED BY <1>1 DEF Init, Outbox!Init

LEMMA OutboxPersist ==
    ASSUME IInv, IInv', NEW w \in Workers, Persist(w)
    PROVE  Outbox!Next
  <1>0. TypeOK /\ TypeOK'
    BY DEF IInv
  <1>1. PersistEntities(w) /\ pc[w] = "persisting"
    BY DEF Persist
  <1>2. job[w] = NoJob
    BY <1>1 DEF IInv, TaskInv, Delivering
  <1>3. InTransit' = InTransit \cup FreshDue(w)
    <2>1. /\ job'[w].due = FreshDue(w)
          /\ job'[w].todo = BuildEvents(trigger[w], Batch(w), FreshDue(w), read[w].open)
          /\ \A v \in Workers : v # w => job'[v] = job[v]
          /\ FreshDue(w) \in SUBSET DueKeys
      BY <1>0, PersistJob
    <2>2. ASSUME NEW k \in FreshDue(w) PROVE k \in InTransit'
      <3>1. \E u \in job'[w].todo : k \in About(u, job'[w].due)
        BY <2>1, <2>2, BuiltEventsCover
      <3>2. k \in DueKeys
        BY <2>1
      <3> QED BY <3>1, <3>2 DEF InTransit, DueKeys, DueItems
    <2>3. ASSUME NEW k \in InTransit PROVE k \in InTransit'
      <3>1. PICK v \in Workers : \E t \in job[v].todo : k \in About(t, job[v].due)
        BY DEF InTransit
      <3>2. v # w
        BY <1>2, <3>1 DEF NoJob
      <3> QED BY <2>1, <3>1, <3>2 DEF InTransit, DueKeys, DueItems
    <2>4. ASSUME NEW k \in InTransit', k \notin FreshDue(w) PROVE k \in InTransit
      <3>1. PICK v \in Workers : \E t \in job'[v].todo : k \in About(t, job'[v].due)
        BY DEF InTransit
      <3>2. v # w
        BY <2>1, <2>4, <3>1, AboutType
      <3> QED BY <2>1, <3>1, <3>2 DEF InTransit, DueKeys, DueItems
    <2> QED BY <2>2, <2>3, <2>4
  <1>4. UNCHANGED <<handled, tried>>
    BY <1>0, PersistJob
  <1>5. Outbox!Commit(Inserted(w), FreshDue(w))
    BY <1>0, <1>1, <1>3, <1>4, CommitEffect DEF Outbox!Commit
  <1> QED BY <1>0, <1>1, <1>5, CommitEffect DEF Outbox!Next

LEMMA OutboxLostCommit ==
    ASSUME IInv, NEW w \in Workers, Commits(w), Drops({})
    PROVE  Outbox!Next
  <1>0. TypeOK
    BY DEF IInv
  <1>1. job' = job /\ UNCHANGED <<handled, tried>>
    BY <1>0 DEF Drops, TypeOK
  <1>2. InTransit' = InTransit
    BY <1>1 DEF InTransit, DueKeys, DueItems
  <1>3. Outbox!Commit(Inserted(w), FreshDue(w))
    BY <1>0, <1>1, <1>2, CommitEffect DEF Commits, Outbox!Commit
  <1> QED BY <1>0, <1>3, CommitEffect DEF Commits, Outbox!Next

LEMMA OutboxDrop ==
    ASSUME IInv, NEW S \in SUBSET Workers, Drops(S), UNCHANGED <<status, reserved>>
    PROVE  Outbox!Next
  <1> DEFINE L == InTransit \ InTransit'
  <1>1. InTransit' \subseteq InTransit
    <2> SUFFICES ASSUME NEW k \in InTransit' PROVE k \in InTransit
      OBVIOUS
    <2>1. PICK v \in Workers : \E t \in job'[v].todo : k \in About(t, job'[v].due)
      BY DEF InTransit
    <2>2. v \notin S
      BY <2>1 DEF Drops, NoJob
    <2> QED BY <2>1, <2>2 DEF Drops, InTransit, DueKeys, DueItems
  <1>2. L \in SUBSET DueKeys
    BY DEF InTransit
  <1>3. Outbox!Warn({}, L)
    BY <1>1 DEF Drops, Outbox!Warn
  <1> QED BY <1>2, <1>3 DEF Outbox!Next

LEMMA OutboxMark ==
    ASSUME IInv, NEW w \in Workers, Marks(w), Drops({w})
    PROVE  Outbox!Next
  <1>0. TypeOK
    BY DEF IInv
  <1>1. job[w].ok /\ job[w].todo = {}
    BY DEF Marks, IInv, TaskInv
  <1>2. job[w].batch \in SUBSET Keys /\ job[w].batch \subseteq handled
    BY <1>0, <1>1 DEF IInv, BatchInv, TypeOK, Jobs
  <1>3. InTransit' = InTransit
    <2>1. ASSUME NEW v \in Workers
          PROVE  v = w \/ job'[v] = job[v]
      BY DEF Drops
    <2>2. job'[w].todo = {}
      BY DEF Drops, NoJob
    <2> QED BY <1>1, <2>1, <2>2 DEF InTransit, DueKeys, DueItems
  <1>4. Outbox!Settle(job[w].batch)
    BY <1>2, <1>3 DEF Marks, MarkProcessed, Drops, Outbox!Settle
  <1> QED BY <1>2, <1>4 DEF Outbox!Next

\* The Manager answers, or raises: what was in transit with this event, or
\* with this task, is no more.
LEMMA OutboxDeliver ==
    ASSUME IInv, NEW w \in Workers, Delivers(w), UNCHANGED storeVars
    PROVE  Outbox!Next \/ UNCHANGED OutboxVars
  <1>0. TypeOK
    BY DEF IInv
  <1>1. ASSUME NEW t \in EventTypes, NEW succeeds \in BOOLEAN, Handle(w, t, succeeds)
        PROVE  Outbox!Next \/ UNCHANGED OutboxVars
    <2> DEFINE W == About(t, job[w].due)
    <2>1. /\ t \in job[w].todo
          /\ job'[w].batch = job[w].batch
          /\ job'[w].due = job[w].due
          /\ job'[w].todo = job[w].todo \ {t}
          /\ \A v \in Workers : v # w => job'[v] = job[v]
          /\ handled' = IF succeeds THEN handled \cup Carried(w, t) ELSE handled
          /\ tried' = tried \cup W
      BY <1>0, <1>1, HandleJob
    <2>2. W \subseteq InTransit
      BY <1>0, <2>1, InTransitMember
    <2>3. InTransit' = InTransit \ W
      <3>1. ASSUME NEW k \in InTransit' PROVE k \in InTransit /\ k \notin W
        <4>1. PICK v \in Workers : \E u \in job'[v].todo : k \in About(u, job'[v].due)
          BY DEF InTransit
        <4>2. PICK u \in job'[v].todo : k \in About(u, job'[v].due)
          BY <4>1
        <4>3. u \in job[v].todo /\ k \in About(u, job[v].due)
          BY <2>1, <4>2
        <4>4. CASE v = w
          BY <1>0, <2>1, <4>2, <4>3, <4>4, InTransitMember, AboutDisjoint
        <4>5. CASE v # w
          BY <1>0, <4>3, <4>5, InTransitMember, AboutType DEF IInv, DueInv
        <4> QED BY <4>4, <4>5
      <3>2. ASSUME NEW k \in InTransit, k \notin W PROVE k \in InTransit'
        <4>1. PICK v \in Workers : \E u \in job[v].todo : k \in About(u, job[v].due)
          BY DEF InTransit
        <4>2. PICK u \in job[v].todo : k \in About(u, job[v].due)
          BY <4>1
        <4>3. u \in job'[v].todo /\ k \in About(u, job'[v].due)
          BY <2>1, <3>2, <4>2
        <4> QED BY <4>3 DEF InTransit, DueKeys, DueItems
      <3> QED BY <3>1, <3>2
    <2>4. CASE t = "LMS_CHANGED"
      <3>1. W = {}
        BY <2>4 DEF About
      <3>2. tried' = tried /\ InTransit' = InTransit
        BY <2>1, <2>3, <3>1
      <3>3. CASE succeeds
        <4>1. job[w].batch \in SUBSET Keys /\ \A c \in job[w].batch : status[c] # "none"
          BY <1>0 DEF IInv, BatchInv, TypeOK, Jobs
        <4>2. Outbox!Hear(job[w].batch)
          BY <2>1, <2>4, <3>2, <3>3, <4>1 DEF Outbox!Hear, Carried, storeVars
        <4> QED BY <4>1, <4>2 DEF Outbox!Next
      <3>4. CASE ~succeeds
        BY <2>1, <3>2, <3>4 DEF OutboxVars, storeVars
      <3> QED BY <3>3, <3>4
    <2>5. CASE t # "LMS_CHANGED"
      <3>1. handled' = handled
        BY <2>1, <2>5 DEF Carried
      <3>2. W \in SUBSET DueKeys
        BY <1>0, AboutType DEF TypeOK, Jobs
      <3>3. Outbox!Warn(W, {})
        BY <2>1, <2>2, <2>3, <3>1 DEF Outbox!Warn, storeVars
      <3> QED BY <3>2, <3>3 DEF Outbox!Next
    <2> QED BY <2>4, <2>5
  <1>2. ASSUME NEW t \in EventTypes, HandleRaises(w, t)
        PROVE  Outbox!Next
    <2> DEFINE W == About(t, job[w].due)
               L == InTransit \ InTransit'
    <2>1. /\ t \in job[w].todo
          /\ job'[w] = NoJob
          /\ \A v \in Workers : v # w => job'[v] = job[v]
          /\ handled' = handled
          /\ tried' = tried \cup W
      BY <1>0, <1>2, RaiseJob
    <2>2. W \subseteq InTransit
      BY <1>0, <2>1, InTransitMember
    <2>3. ASSUME NEW k \in InTransit' PROVE k \in InTransit /\ k \notin W
      <3>1. PICK v \in Workers : \E u \in job'[v].todo : k \in About(u, job'[v].due)
        BY DEF InTransit
      <3>2. v # w
        BY <2>1, <3>1 DEF NoJob
      <3>3. PICK u \in job[v].todo : k \in About(u, job[v].due)
        BY <2>1, <3>1, <3>2
      <3> QED BY <1>0, <3>2, <3>3, InTransitMember, AboutType DEF IInv, DueInv
    <2>4. InTransit' = InTransit \ (W \cup L)
      BY <2>3
    <2>5. W \in SUBSET DueKeys /\ L \in SUBSET DueKeys
      BY <1>0, AboutType DEF TypeOK, Jobs, InTransit
    <2>6. Outbox!Warn(W, L)
      BY <2>1, <2>2, <2>4 DEF Outbox!Warn, storeVars
    <2> QED BY <2>5, <2>6 DEF Outbox!Next
  <1> QED BY <1>1, <1>2 DEF Delivers

LEMMA OutboxStep ==
    ASSUME IInv, IInv', [Next]_vars
    PROVE  Outbox!Next \/ UNCHANGED OutboxVars
  <1>1. ASSUME NEW S \in SUBSET Workers, Drops(S), UNCHANGED storeVars
        PROVE  Outbox!Next
    BY <1>1, OutboxDrop DEF storeVars
  <1> QED
    BY <1>1, StepEffect, OutboxPersist, OutboxLostCommit, OutboxDeliver, OutboxMark
    DEF IInv, QuietDrop

\* Synchronisation implements the outbox, for any numbers of workers,
\* entities, payloads and deadlines.
THEOREM SyncImplementsOutbox == Spec => ImplementsOutbox
  <1>1. ASSUME IInv, IInv', [Next]_vars
        PROVE  [Outbox!Next]_(Outbox!alertVars)
    BY <1>1, OutboxStep DEF OutboxVars, Outbox!alertVars
  <1> QED BY <1>1, OutboxInit, InvCorrect, PTL DEF Spec, Outbox!Spec, ImplementsOutbox
=============================================================================
