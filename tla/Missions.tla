------------------------------ MODULE Missions ------------------------------
(***************************************************************************)
(* The rows of the table missions, as the transactions of the sync and of  *)
(* the mission steps of a plan change them (MissionRepository,             *)
(* MissionServiceHandler).                                                 *)
(*                                                                         *)
(* A transaction reads the rows as they were when it started (REPEATABLE   *)
(* READ) and writes, row by row, the columns whose new value differs from  *)
(* the one it read (SQLAlchemy); a written row is locked until it ends.    *)
(* The database keeps no time zone: a deadline of E-Class, which is in     *)
(* Seoul time, comes back as that clock reading without a zone, and        *)
(* calculate_priority takes one without a zone for UTC.                    *)
(***************************************************************************)
EXTENDS Naturals, FiniteSets

CONSTANTS
    Items,          \* assignments and lectures: the keys (source_type, source_id)
    Tasks,          \* what runs mission steps: the user's request, event plans
    Sync,           \* the sync, of which the service's lock admits one
    Dues,           \* deadlines, as instants
    NoDue,          \* an item without a deadline
    UrgentWithin,   \* 6 hours
    HighWithin,     \* 24 hours
    Offset,         \* Seoul is 9 hours ahead of UTC
    MaxTime         \* bound: the clock stops here

ASSUME MissionAssumption ==
    /\ Dues \subseteq Nat
    /\ NoDue \notin Nat
    /\ UrgentWithin \in Nat /\ HighWithin \in Nat /\ Offset \in Nat /\ MaxTime \in Nat
    /\ Sync \notin Tasks

VARIABLES
    now,            \* the clock
    rows,           \* committed rows, by item
    tx,             \* the transaction of each actor
    told,           \* history: items the user was told are completed
    overlapped      \* history: items completed while another transaction held them as PENDING

vars == <<now, rows, tx, told, overlapped>>

Actors == Tasks \cup {Sync}
Statuses == {"PENDING", "COMPLETED"}
Priorities == {"LOW", "NORMAL", "HIGH", "URGENT"}
Deadlines == Dues \cup {NoDue}

\* What a DATETIME column gives back of a Seoul time, read as UTC.
Stored(due) == IF due = NoDue THEN NoDue ELSE due + Offset

Rows == [status : Statuses, priority : Priorities,
         due : {Stored(d) : d \in Deadlines}, stamped : BOOLEAN]

PartialOn(S, T) == UNION {[D -> T] : D \in SUBSET S}

\* E-Class says of an item when it is due and whether it is handed in or watched.
Observed == [due : Deadlines, completed : BOOLEAN]

None == [at |-> "none"]

-----------------------------------------------------------------------------
(* calculate_priority *)

Priority(due, completed) ==
    IF completed THEN "LOW"
    ELSE IF due = NoDue THEN "NORMAL"
    ELSE IF due <= now + UrgentWithin THEN "URGENT"
    ELSE IF due <= now + HighWithin THEN "HIGH"
    ELSE "NORMAL"

\* The columns of new that differ from those of old.
Differing(old, new) ==
    [c \in {x \in DOMAIN old : old[x] # new[x]} |-> new[c]]

\* A row after an UPDATE of some of its columns.
Updated(row, change) ==
    [c \in DOMAIN row |-> IF c \in DOMAIN change THEN change[c] ELSE row[c]]

\* create_or_update, of an item that has no row.
Created(seen) ==
    [status |-> IF seen.completed THEN "COMPLETED" ELSE "PENDING",
     priority |-> Priority(seen.due, seen.completed),
     due |-> Stored(seen.due),
     stamped |-> seen.completed]

\* Bug: a sync puts back what E-Class says.
ReconciledRevertMutant(row, seen) ==
    [status |-> IF seen.completed THEN "COMPLETED" ELSE "PENDING",
     priority |-> Priority(seen.due, seen.completed),
     due |-> Stored(seen.due),
     stamped |-> seen.completed \/ row.stamped]

\* Bug: the priority follows E-Class only, not the row.
ReconciledPriorityMutant(row, seen) ==
    LET done == seen.completed \/ row.status = "COMPLETED"
    IN  [status |-> IF done THEN "COMPLETED" ELSE "PENDING",
         priority |-> Priority(seen.due, seen.completed),
         due |-> Stored(seen.due),
         stamped |-> done]

\* create_or_update, of a row: completed by either, it stays so.
Reconciled(row, seen) ==
    LET done == seen.completed \/ row.status = "COMPLETED"
    IN  [status |-> IF done THEN "COMPLETED" ELSE "PENDING",
         priority |-> Priority(seen.due, done),
         due |-> Stored(seen.due),
         stamped |-> done]

\* update_mission: a new title, and the priority by the deadline of the row.
Renamed(row) == [row EXCEPT !.priority = Priority(row.due, row.status = "COMPLETED")]

\* mark_completed
Completed(row) == [row EXCEPT !.status = "COMPLETED", !.stamped = TRUE, !.priority = "LOW"]

-----------------------------------------------------------------------------
Init ==
    /\ now = 0
    /\ rows = [i \in {} |-> 0]
    /\ tx = [a \in Actors |-> None]
    /\ told = {}
    /\ overlapped = {}

Open(a) == tx[a].at # "none"

\* Another transaction has written the row and is not over.
Locked(a, i) == \E b \in Actors \ {a} : Open(b) /\ i \in DOMAIN tx[b].write

\* Another transaction goes on with i as a PENDING row.
HeldAsPending(a, i) ==
    \E b \in Actors \ {a} :
        Open(b) /\ i \in DOMAIN tx[b].snap /\ tx[b].snap[i].status = "PENDING"

\* Flush one row: an INSERT of the whole, an UPDATE of what differs.
Flush(a, i, new) ==
    LET change == IF i \in DOMAIN tx[a].snap THEN Differing(tx[a].snap[i], new) ELSE new
    IN  [x \in DOMAIN tx[a].write \cup {i} |-> IF x = i THEN change ELSE tx[a].write[x]]

\* The rows once a's transaction is committed.
Committed(a) ==
    [i \in DOMAIN rows \cup DOMAIN tx[a].write |->
        IF i \notin DOMAIN tx[a].write THEN rows[i]
        ELSE IF i \in DOMAIN rows THEN Updated(rows[i], tx[a].write[i])
        ELSE tx[a].write[i]]

NewlyCompleted(a) ==
    {i \in DOMAIN Committed(a) :
        /\ Committed(a)[i].status = "COMPLETED"
        /\ i \in DOMAIN rows => rows[i].status # "COMPLETED"}

Apply(a) ==
    /\ rows' = Committed(a)
    /\ overlapped' = overlapped \cup {i \in NewlyCompleted(a) : HeldAsPending(a, i)}

-----------------------------------------------------------------------------
(* The sync: persist_entities, after the reading of E-Class. *)

\* Its first query fixes what it sees; todo is what E-Class listed.
SyncBegins ==
    /\ ~Open(Sync)
    /\ \E todo \in PartialOn(Items, Observed) :
           tx' = [tx EXCEPT ![Sync] = [at |-> "rows", todo |-> todo, snap |-> rows,
                                       write |-> [i \in {} |-> 0]]]
    /\ UNCHANGED <<now, rows, told, overlapped>>

SyncRow(i) ==
    /\ tx[Sync].at = "rows"
    /\ i \in DOMAIN tx[Sync].todo
    /\ ~Locked(Sync, i)
    /\ LET seen == tx[Sync].todo[i]
           new == IF i \in DOMAIN tx[Sync].snap
                  THEN Reconciled(tx[Sync].snap[i], seen) ELSE Created(seen)
       IN  tx' = [tx EXCEPT ![Sync].write = Flush(Sync, i, new),
                            ![Sync].todo = [j \in DOMAIN tx[Sync].todo \ {i} |->
                                               tx[Sync].todo[j]]]
    /\ UNCHANGED <<now, rows, told, overlapped>>

SyncCommits ==
    /\ tx[Sync].at = "rows"
    /\ tx[Sync].todo = [i \in {} |-> 0]
    /\ Apply(Sync)
    /\ tx' = [tx EXCEPT ![Sync] = None]
    /\ UNCHANGED <<now, told>>

-----------------------------------------------------------------------------
(* A mission step: MissionServiceHandler.__call__, COMPLETE and UPDATE. *)

StepBegins(t, op, i) ==
    /\ ~Open(t)
    /\ tx' = [tx EXCEPT ![t] = [at |-> "read", op |-> op, item |-> i, snap |-> rows,
                                write |-> [x \in {} |-> 0]]]
    /\ UNCHANGED <<now, rows, told, overlapped>>

\* session.get found no row: the answer is "not found", the commit is empty.
NotFound(t) ==
    /\ tx[t].at = "read"
    /\ tx[t].item \notin DOMAIN tx[t].snap
    /\ tx' = [tx EXCEPT ![t] = None]
    /\ UNCHANGED <<now, rows, told, overlapped>>

StepFlushes(t) ==
    /\ tx[t].at = "read"
    /\ tx[t].item \in DOMAIN tx[t].snap
    /\ ~Locked(t, tx[t].item)
    /\ LET row == tx[t].snap[tx[t].item]
           new == IF tx[t].op = "COMPLETE" THEN Completed(row) ELSE Renamed(row)
       IN  tx' = [tx EXCEPT ![t].at = "flushed", ![t].write = Flush(t, tx[t].item, new)]
    /\ UNCHANGED <<now, rows, told, overlapped>>

\* The answer was made before the commit, and is given after it.
StepCommits(t) ==
    /\ tx[t].at = "flushed"
    /\ Apply(t)
    /\ told' = IF tx[t].op = "COMPLETE" THEN told \cup {tx[t].item} ELSE told
    /\ tx' = [tx EXCEPT ![t] = None]
    /\ UNCHANGED now

-----------------------------------------------------------------------------
(* What goes wrong: an exception and its rollback; a commit whose answer is *)
(* lost, which is applied or not and answered FAILED; the end of the process. *)

RollsBack(a) ==
    /\ Open(a)
    /\ tx' = [tx EXCEPT ![a] = None]
    /\ UNCHANGED <<now, rows, told, overlapped>>

\* Bug: the exception of the commit is not seen by whoever answers.
CommitUnansweredMutant(a) ==
    /\ \/ tx[a].at = "flushed"
       \/ tx[a].at = "rows" /\ tx[a].todo = [i \in {} |-> 0]
    /\ Apply(a) \/ UNCHANGED <<rows, overlapped>>
    /\ tx' = [tx EXCEPT ![a] = None]
    /\ told' = IF a \in Tasks /\ tx[a].op = "COMPLETE" THEN told \cup {tx[a].item} ELSE told
    /\ UNCHANGED now

CommitUnanswered(a) ==
    /\ \/ tx[a].at = "flushed"
       \/ tx[a].at = "rows" /\ tx[a].todo = [i \in {} |-> 0]
    /\ Apply(a)
    /\ tx' = [tx EXCEPT ![a] = None]
    /\ UNCHANGED <<now, told>>

ProcessEnds ==
    /\ tx' = [a \in Actors |-> None]
    /\ UNCHANGED <<now, rows, told, overlapped>>

Tick ==
    /\ now < MaxTime
    /\ now' = now + 1
    /\ UNCHANGED <<rows, tx, told, overlapped>>

Next ==
    \/ SyncBegins
    \/ \E i \in Items : SyncRow(i)
    \/ SyncCommits
    \/ \E t \in Tasks : \/ \E op \in {"COMPLETE", "UPDATE"}, i \in Items : StepBegins(t, op, i)
                        \/ NotFound(t)
                        \/ StepFlushes(t)
                        \/ StepCommits(t)
    \/ \E a \in Actors : RollsBack(a) \/ CommitUnanswered(a)
    \/ ProcessEnds
    \/ Tick

Spec == Init /\ [][Next]_vars

-----------------------------------------------------------------------------
(* Properties *)

\* Every variable keeps its type; a whole row, never a part of one, is committed.
TypeOK ==
    /\ now \in 0..MaxTime
    /\ DOMAIN rows \subseteq Items /\ \A i \in DOMAIN rows : rows[i] \in Rows
    /\ \A a \in Actors :
           \/ tx[a] = None
           \/ /\ tx[a].at \in (IF a = Sync THEN {"rows"} ELSE {"read", "flushed"})
              /\ DOMAIN tx[a].snap \subseteq Items
              /\ \A i \in DOMAIN tx[a].snap : tx[a].snap[i] \in Rows
              /\ DOMAIN tx[a].write \subseteq Items
    /\ told \subseteq Items
    /\ overlapped \subseteq Items

\* A completion the user was told of is in the database, whatever a sync that
\* read the row before writes afterwards (mark_completed, create_or_update).
ToldMeansStored ==
    \A i \in told : i \in DOMAIN rows /\ rows[i].status = "COMPLETED" /\ rows[i].stamped

\* A completed mission has the lowest priority, unless it was completed while
\* another transaction had it as PENDING (calculate_priority and its callers).
LowUnlessOverlapped ==
    \A i \in DOMAIN rows \ overlapped : rows[i].status = "COMPLETED" => rows[i].priority = "LOW"

\* Types, completions that are stored, priorities that are right unless
\* transactions overlapped.
MissionsInv == TypeOK /\ ToldMeansStored /\ LowUnlessOverlapped

\* No transaction takes a completion back, and none empties completed_at, in
\* whatever order they read, write and commit (mission_repository.py 66-79, 100-108).
CompletedStays ==
    [][\A i \in DOMAIN rows :
          rows[i].status = "COMPLETED" =>
              i \in DOMAIN rows' /\ rows'[i].status = "COMPLETED" /\ rows'[i].stamped]_vars

\* A sync commits everything E-Class has.
SyncCommitsAll == SyncCommits /\ DOMAIN tx[Sync].write = Items

UpdateFlushed == \E t \in Tasks : StepFlushes(t) /\ tx[t].op = "UPDATE"

\* Whatever an overlap has left behind, and whatever an update made of a
\* deadline it took for one in UTC, the syncs that follow put right: once
\* nobody updates a title any more, every priority is the one of the true
\* deadline and of the completion.
PrioritySettles ==
    []<><<SyncCommitsAll>>_vars /\ <>[][~UpdateFlushed]_vars =>
        <>[](\A i \in DOMAIN rows : \E d \in Deadlines :
                /\ Stored(d) = rows[i].due
                /\ rows[i].priority = Priority(d, rows[i].status = "COMPLETED"))
=============================================================================
