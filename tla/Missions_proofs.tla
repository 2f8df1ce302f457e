--------------------------- MODULE Missions_proofs ---------------------------
(***************************************************************************)
(* Proofs about Missions, for any items, mission steps and deadlines.      *)
(***************************************************************************)
EXTENDS Missions, TLAPS

\* A row that was written whole: what is completed has its time and the lowest
\* priority, what is not has neither.
Whole(r) ==
    /\ r \in Rows
    /\ r.stamped <=> r.status = "COMPLETED"
    /\ r.priority = "LOW" <=> r.status = "COMPLETED"

\* A row that transactions wrote column by column.
Sound(r) ==
    /\ r \in Rows
    /\ r.stamped <=> r.status = "COMPLETED"
    /\ r.status = "PENDING" => r.priority # "LOW"

\* What a transaction writes of a row it read as s: it never reopens it.
Changes(s, w) ==
    \E new \in Rows : /\ Whole(new)
                      /\ s.status = "COMPLETED" => new.status = "COMPLETED"
                      /\ w = Differing(s, new)

-----------------------------------------------------------------------------
\* calculate_priority rates what is completed LOW, and nothing else.
LEMMA PriorityOfRow ==
    ASSUME NEW due, NEW done \in BOOLEAN
    PROVE  /\ Priority(due, done) \in Priorities
           /\ Priority(due, done) = "LOW" <=> done
BY DEF Priority, Priorities

\* A created, reconciled, renamed or completed row is whole.
LEMMA CreatedIsWhole ==
    ASSUME NEW seen \in Observed
    PROVE  Whole(Created(seen))
BY PriorityOfRow DEF Whole, Created, Rows, Observed, Statuses

LEMMA RewriteIsWhole ==
    ASSUME NEW r, Sound(r), NEW seen \in Observed
    PROVE  /\ Whole(Reconciled(r, seen)) /\ Whole(Renamed(r)) /\ Whole(Completed(r))
           /\ r.status = "COMPLETED" => /\ Reconciled(r, seen).status = "COMPLETED"
                                        /\ Renamed(r).status = "COMPLETED"
           /\ Completed(r).status = "COMPLETED"
BY PriorityOfRow DEF Sound, Whole, Reconciled, Renamed, Completed, Rows, Observed, Statuses, Priorities

\* An update of a row that others may have written since it was read as s.
LEMMA Merge ==
    ASSUME NEW r, NEW s, NEW w, Sound(r), Sound(s), Changes(s, w),
           s.status = "COMPLETED" => r.status = "COMPLETED"
    PROVE  LET u == Updated(r, w)
           IN  /\ Sound(u)
               /\ r.status = "COMPLETED" => u.status = "COMPLETED"
               /\ "status" \in DOMAIN w => u.status = "COMPLETED"
               /\ r.status = "PENDING" /\ u.status = "COMPLETED" => u.priority = "LOW"
               /\ s.status = "COMPLETED" /\ r.priority = "LOW" => u.priority = "LOW"
<1> DEFINE u == Updated(r, w)
<1>1. PICK new \in Rows : /\ Whole(new)
                          /\ s.status = "COMPLETED" => new.status = "COMPLETED"
                          /\ w = Differing(s, new)
  BY DEF Changes
<1>2. DOMAIN r = {"status", "priority", "due", "stamped"} /\ DOMAIN s = DOMAIN r
  BY DEF Sound, Rows
<1>3. u = [status |-> IF s.status # new.status THEN new.status ELSE r.status,
           priority |-> IF s.priority # new.priority THEN new.priority ELSE r.priority,
           due |-> IF s.due # new.due THEN new.due ELSE r.due,
           stamped |-> IF s.stamped # new.stamped THEN new.stamped ELSE r.stamped]
  BY <1>1, <1>2 DEF Updated, Differing
<1>4. "status" \in DOMAIN w <=> s.status # new.status
  BY <1>1, <1>2 DEF Differing
<1> QED
  BY <1>1, <1>3, <1>4 DEF Sound, Whole, Rows, Statuses

-----------------------------------------------------------------------------
(* The inductive invariant.                                                *)

\* The record of a transaction.
TxShape(a) ==
    \/ tx[a] = None
    \/ /\ a = Sync
       /\ tx[a] = [at |-> "rows", todo |-> tx[a].todo, snap |-> tx[a].snap, write |-> tx[a].write]
       /\ DOMAIN tx[a].todo \subseteq Items
       /\ \A i \in DOMAIN tx[a].todo : tx[a].todo[i] \in Observed
    \/ /\ a \in Tasks
       /\ tx[a] = [at |-> tx[a].at, op |-> tx[a].op, item |-> tx[a].item, snap |-> tx[a].snap,
                   write |-> tx[a].write]
       /\ tx[a].at \in {"read", "flushed"}
       /\ tx[a].item \in Items

\* What it read is still there, no completion was taken back, and one that was
\* added since is recorded. Only the sync inserts rows, and there is one sync.
SnapInv(a) ==
    /\ a = Sync => DOMAIN rows \subseteq DOMAIN tx[a].snap
    /\ \A i \in DOMAIN tx[a].snap :
        /\ i \in DOMAIN rows /\ Sound(tx[a].snap[i])
        /\ tx[a].snap[i].status = "COMPLETED" => rows[i].status = "COMPLETED"
        /\ tx[a].snap[i].status = "PENDING" /\ rows[i].status = "COMPLETED" => i \in overlapped

\* What it wrote: changes of rows it read, or rows that nobody else can insert.
WriteInv(a) ==
    \A i \in DOMAIN tx[a].write :
        /\ i \in Items
        /\ IF i \in DOMAIN tx[a].snap THEN Changes(tx[a].snap[i], tx[a].write[i])
           ELSE a = Sync /\ Whole(tx[a].write[i]) /\ i \notin DOMAIN rows

\* A flushed completion writes the status, unless it has read it already.
FlushInv(a) ==
    tx[a].at = "flushed" /\ tx[a].op = "COMPLETE" =>
        LET i == tx[a].item
        IN  /\ i \in DOMAIN tx[a].write /\ i \in DOMAIN tx[a].snap
            /\ "status" \in DOMAIN tx[a].write[i] \/ tx[a].snap[i].status = "COMPLETED"

TxInv(a) == TxShape(a) /\ (Open(a) => SnapInv(a) /\ WriteInv(a) /\ FlushInv(a))

RowsInv ==
    /\ DOMAIN rows \subseteq Items
    /\ rows = [i \in DOMAIN rows |-> rows[i]]
    /\ \A i \in DOMAIN rows : Sound(rows[i])

IInv ==
    /\ now \in 0..MaxTime
    /\ RowsInv
    /\ tx = [a \in Actors |-> tx[a]]
    /\ \A a \in Actors : TxInv(a)
    /\ told \subseteq Items /\ overlapped \subseteq Items
    /\ ToldMeansStored
    /\ LowUnlessOverlapped

-----------------------------------------------------------------------------
(* A commit.                                                               *)

\* What the rows are once the transaction of a is committed.
LEMMA CommittedRows ==
    ASSUME IInv, NEW a \in Actors, Open(a)
    PROVE  LET new == Committed(a)
           IN  /\ new = [i \in DOMAIN new |-> new[i]]
               /\ DOMAIN new = DOMAIN rows \cup DOMAIN tx[a].write
               /\ DOMAIN new \subseteq Items
               /\ a # Sync => DOMAIN new = DOMAIN rows
               /\ \A i \in DOMAIN new : Sound(new[i])
               /\ \A i \in DOMAIN new \ DOMAIN rows : Whole(new[i])
               /\ \A i \in DOMAIN rows :
                     /\ rows[i].status = "COMPLETED" => new[i].status = "COMPLETED"
                     /\ rows[i].status = "PENDING" /\ new[i].status = "COMPLETED"
                           => new[i].priority = "LOW"
                     /\ rows[i].status = "COMPLETED" /\ i \notin overlapped
                           => new[i].priority = "LOW"
               /\ tx[a].at = "flushed" /\ tx[a].op = "COMPLETE" =>
                     /\ tx[a].item \in DOMAIN new
                     /\ new[tx[a].item].status = "COMPLETED"
<1> DEFINE new == Committed(a)
           w == tx[a].write
<1>1. /\ SnapInv(a) /\ WriteInv(a) /\ FlushInv(a) /\ RowsInv /\ LowUnlessOverlapped
  BY DEF IInv, TxInv
<1>2. /\ new = [i \in DOMAIN new |-> new[i]]
      /\ DOMAIN new = DOMAIN rows \cup DOMAIN w
  BY DEF Committed
<1>3. DOMAIN new \subseteq Items
  BY <1>1, <1>2 DEF RowsInv, WriteInv
<1>4. a # Sync => DOMAIN new = DOMAIN rows
  BY <1>1, <1>2 DEF WriteInv, SnapInv
<1>5. \A i \in DOMAIN new \ DOMAIN rows : i \in DOMAIN w /\ i \notin DOMAIN tx[a].snap /\ new[i] = w[i]
  BY <1>1, <1>2 DEF SnapInv, Committed
<1>6. \A i \in DOMAIN new \ DOMAIN rows : Whole(new[i]) /\ Sound(new[i])
  BY <1>1, <1>5 DEF WriteInv, Whole, Sound, Rows, Statuses
<1>7. ASSUME NEW i \in DOMAIN rows
      PROVE  /\ Sound(new[i])
             /\ rows[i].status = "COMPLETED" => new[i].status = "COMPLETED"
             /\ rows[i].status = "PENDING" /\ new[i].status = "COMPLETED" => new[i].priority = "LOW"
             /\ rows[i].status = "COMPLETED" /\ i \notin overlapped => new[i].priority = "LOW"
             /\ i \in DOMAIN w /\ "status" \in DOMAIN w[i] => new[i].status = "COMPLETED"
  <2>1. Sound(rows[i])
    BY <1>1 DEF RowsInv
  <2>2. rows[i].status = "COMPLETED" /\ i \notin overlapped => rows[i].priority = "LOW"
    BY <1>1 DEF LowUnlessOverlapped
  <2>3. CASE i \notin DOMAIN w
    <3>1. new[i] = rows[i]
      BY <2>3 DEF Committed
    <3> QED
      BY <2>1, <2>2, <2>3, <3>1
  <2>4. CASE i \in DOMAIN w
    <3>1. new[i] = Updated(rows[i], w[i])
      BY <2>4 DEF Committed
    <3>2. i \in DOMAIN tx[a].snap /\ Changes(tx[a].snap[i], w[i])
      BY <1>1, <2>4 DEF WriteInv
    <3>3. /\ Sound(tx[a].snap[i])
          /\ tx[a].snap[i].status = "COMPLETED" => rows[i].status = "COMPLETED"
          /\ tx[a].snap[i].status = "PENDING" /\ rows[i].status = "COMPLETED" => i \in overlapped
      BY <1>1, <3>2 DEF SnapInv
    <3>4. tx[a].snap[i].status \in {"PENDING", "COMPLETED"}
      BY <3>3 DEF Sound, Rows, Statuses
    <3> HIDE DEF w, new
    <3>5. /\ Sound(new[i])
          /\ rows[i].status = "COMPLETED" => new[i].status = "COMPLETED"
          /\ "status" \in DOMAIN w[i] => new[i].status = "COMPLETED"
          /\ rows[i].status = "PENDING" /\ new[i].status = "COMPLETED" => new[i].priority = "LOW"
          /\ tx[a].snap[i].status = "COMPLETED" /\ rows[i].priority = "LOW" => new[i].priority = "LOW"
      BY <2>1, <3>1, <3>2, <3>3, Merge
    <3> QED
      BY <2>2, <3>3, <3>4, <3>5
  <2> QED
    BY <2>3, <2>4
<1>8. ASSUME tx[a].at = "flushed", tx[a].op = "COMPLETE"
      PROVE  /\ tx[a].item \in DOMAIN new
             /\ new[tx[a].item].status = "COMPLETED"
  <2>1. /\ tx[a].item \in DOMAIN w /\ tx[a].item \in DOMAIN tx[a].snap
        /\ "status" \in DOMAIN w[tx[a].item] \/ tx[a].snap[tx[a].item].status = "COMPLETED"
    BY <1>1, <1>8 DEF FlushInv
  <2>2. /\ tx[a].item \in DOMAIN rows
        /\ tx[a].snap[tx[a].item].status = "COMPLETED" => rows[tx[a].item].status = "COMPLETED"
    BY <1>1, <2>1 DEF SnapInv
  <2> QED
    BY <1>2, <1>7, <2>1, <2>2
<1> QED
  BY <1>2, <1>3, <1>4, <1>6, <1>7, <1>8

\* A commit; what the user is told after it is what it completed.
CommitOf(a) ==
    /\ Open(a)
    /\ Apply(a)
    /\ tx' = [tx EXCEPT ![a] = None]
    /\ now' = now
    /\ \A i \in told' :
           \/ i \in told
           \/ tx[a].at = "flushed" /\ tx[a].op = "COMPLETE" /\ i = tx[a].item

\* A commit, answered or not, preserves the invariant and takes no completion back.
LEMMA ApplyStep ==
    ASSUME IInv, NEW a \in Actors, CommitOf(a)
    PROVE  /\ IInv'
           /\ \A i \in DOMAIN rows :
                rows[i].status = "COMPLETED" =>
                    i \in DOMAIN rows' /\ rows'[i].status = "COMPLETED" /\ rows'[i].stamped
<1> USE DEF CommitOf
<1>1. rows' = Committed(a)
  BY DEF Apply
<1>2. /\ rows' = [i \in DOMAIN rows' |-> rows'[i]]
      /\ DOMAIN rows' = DOMAIN rows \cup DOMAIN tx[a].write
      /\ DOMAIN rows' \subseteq Items
      /\ a # Sync => DOMAIN rows' = DOMAIN rows
      /\ \A i \in DOMAIN rows' : Sound(rows'[i])
      /\ \A i \in DOMAIN rows' \ DOMAIN rows : Whole(rows'[i])
      /\ \A i \in DOMAIN rows :
            /\ rows[i].status = "COMPLETED" => rows'[i].status = "COMPLETED"
            /\ rows[i].status = "PENDING" /\ rows'[i].status = "COMPLETED" => rows'[i].priority = "LOW"
            /\ rows[i].status = "COMPLETED" /\ i \notin overlapped => rows'[i].priority = "LOW"
      /\ tx[a].at = "flushed" /\ tx[a].op = "COMPLETE" =>
            tx[a].item \in DOMAIN rows' /\ rows'[tx[a].item].status = "COMPLETED"
  BY <1>1, CommittedRows
<1>3. /\ overlapped \subseteq overlapped'
      /\ overlapped' \subseteq Items
      /\ \A i \in DOMAIN rows' :
           /\ rows'[i].status = "COMPLETED"
           /\ i \in DOMAIN rows => rows[i].status # "COMPLETED"
           /\ HeldAsPending(a, i)
           => i \in overlapped'
  <2>1. overlapped' = overlapped \cup {i \in NewlyCompleted(a) : HeldAsPending(a, i)}
    BY DEF Apply
  <2>2. /\ \A i \in NewlyCompleted(a) : i \in DOMAIN rows'
        /\ \A i \in DOMAIN rows' :
             /\ rows'[i].status = "COMPLETED"
             /\ i \in DOMAIN rows => rows[i].status # "COMPLETED"
             => i \in NewlyCompleted(a)
    BY <1>1 DEF NewlyCompleted
  <2>3. overlapped \subseteq Items
    BY DEF IInv
  <2> QED
    BY <1>2, <2>1, <2>2, <2>3
<1>4. RowsInv'
  BY <1>2 DEF RowsInv
<1>5. \A i \in DOMAIN rows : rows[i].status \in {"PENDING", "COMPLETED"}
  BY DEF IInv, RowsInv, Sound, Rows, Statuses
<1>6. \A i \in DOMAIN rows' : rows'[i].stamped <=> rows'[i].status = "COMPLETED"
  BY <1>2 DEF Sound
<1>7. ToldMeansStored'
  BY <1>2, <1>6 DEF IInv, ToldMeansStored
<1>8. LowUnlessOverlapped'
  <2> SUFFICES ASSUME NEW i \in DOMAIN rows' \ overlapped', rows'[i].status = "COMPLETED"
               PROVE  rows'[i].priority = "LOW"
    BY DEF LowUnlessOverlapped
  <2>1. CASE i \in DOMAIN rows
    BY <1>2, <1>3, <1>5, <2>1
  <2>2. CASE i \notin DOMAIN rows
    BY <1>2, <2>2 DEF Whole
  <2> QED
    BY <2>1, <2>2
<1>9. tx' = [b \in Actors |-> tx'[b]] /\ tx'[a] = None /\ \A b \in Actors \ {a} : tx'[b] = tx[b]
  BY DEF IInv
<1>10. ASSUME NEW b \in Actors PROVE TxInv(b)'
  <2>1. CASE b = a
    BY <1>9, <2>1 DEF TxInv, TxShape, Open, None
  <2>2. CASE b # a
    <3>1. tx'[b] = tx[b] /\ TxInv(b)
      BY <1>9, <2>2 DEF IInv
    <3>2. TxShape(b)'
      BY <3>1 DEF TxInv, TxShape, Observed, Deadlines
    <3> SUFFICES ASSUME Open(b) PROVE SnapInv(b)' /\ WriteInv(b)' /\ FlushInv(b)'
      BY <3>1, <3>2 DEF TxInv, Open
    <3>3. SnapInv(b)'
      <4>0. b = Sync => DOMAIN rows' \subseteq DOMAIN tx[b].snap
        BY <1>2, <2>2, <3>1 DEF TxInv, SnapInv
      <4> SUFFICES ASSUME NEW i \in DOMAIN tx[b].snap
                   PROVE  /\ i \in DOMAIN rows' /\ Sound(tx[b].snap[i])
                          /\ tx[b].snap[i].status = "COMPLETED" => rows'[i].status = "COMPLETED"
                          /\ tx[b].snap[i].status = "PENDING" /\ rows'[i].status = "COMPLETED"
                                => i \in overlapped'
        BY <3>1, <4>0 DEF SnapInv
      <4>1. /\ i \in DOMAIN rows /\ Sound(tx[b].snap[i])
            /\ tx[b].snap[i].status = "COMPLETED" => rows[i].status = "COMPLETED"
            /\ tx[b].snap[i].status = "PENDING" /\ rows[i].status = "COMPLETED" => i \in overlapped
        BY <3>1 DEF TxInv, SnapInv
      <4>2. tx[b].snap[i].status = "PENDING" => HeldAsPending(a, i)
        BY <2>2 DEF HeldAsPending
      <4> QED
        BY <1>2, <1>3, <4>1, <4>2
    <3>4. WriteInv(b)'
      <4>1. WriteInv(b) /\ (b = Sync => DOMAIN rows' = DOMAIN rows)
        BY <1>2, <2>2, <3>1 DEF TxInv
      <4> QED
        BY <3>1, <4>1 DEF WriteInv
    <3>5. FlushInv(b)'
      BY <3>1 DEF TxInv, FlushInv
    <3> QED
      BY <3>3, <3>4, <3>5
  <2> QED
    BY <2>1, <2>2
<1>11. IInv'
  <2>1. told' \subseteq Items
    BY <1>2, <1>7 DEF ToldMeansStored
  <2> QED
    BY <1>3, <1>4, <1>7, <1>8, <1>9, <1>10, <2>1 DEF IInv
<1> QED
  BY <1>2, <1>6, <1>11

-----------------------------------------------------------------------------
(* The other steps change no row.                                          *)

\* A step of one transaction.
LEMMA TxStep ==
    ASSUME IInv, NEW a \in Actors, NEW r, tx' = [tx EXCEPT ![a] = r],
           UNCHANGED <<now, rows, told, overlapped>>, TxInv(a)'
    PROVE  IInv'
<1>1. tx' = [b \in Actors |-> tx'[b]] /\ \A b \in Actors \ {a} : tx'[b] = tx[b]
  BY DEF IInv
<1>2. ASSUME NEW b \in Actors PROVE TxInv(b)'
  <2>1. CASE b = a
    BY <2>1
  <2>2. CASE b # a
    <3>1. tx'[b] = tx[b] /\ TxInv(b)
      BY <1>1, <2>2 DEF IInv
    <3>2. TxShape(b)'
      BY <3>1 DEF TxInv, TxShape, Observed, Deadlines
    <3> QED
      BY <3>1, <3>2 DEF TxInv, Open, SnapInv, WriteInv, FlushInv
  <2> QED
    BY <2>1, <2>2
<1> QED
  BY <1>1, <1>2 DEF IInv, RowsInv, ToldMeansStored, LowUnlessOverlapped

\* A transaction that has read the rows of now and written nothing.
LEMMA Begins ==
    ASSUME IInv, NEW a \in Actors, rows' = rows, overlapped' = overlapped,
           tx'[a].snap = rows, tx'[a].write = [x \in {} |-> 0], tx'[a].at # "flushed", TxShape(a)'
    PROVE  TxInv(a)'
<1>1. SnapInv(a)'
  <2> SUFFICES ASSUME NEW i \in DOMAIN rows
               PROVE  Sound(rows[i]) /\ ~(rows[i].status = "PENDING" /\ rows[i].status = "COMPLETED")
    BY DEF SnapInv
  <2> QED
    BY DEF IInv, RowsInv
<1> QED
  BY <1>1 DEF TxInv, WriteInv, FlushInv

LEMMA SyncBeginsStep ==
    ASSUME IInv, SyncBegins
    PROVE  IInv'
<1>1. PICK todo \in PartialOn(Items, Observed) :
        tx' = [tx EXCEPT ![Sync] = [at |-> "rows", todo |-> todo, snap |-> rows,
                                    write |-> [i \in {} |-> 0]]]
  BY DEF SyncBegins
<1>2. DOMAIN todo \subseteq Items /\ \A i \in DOMAIN todo : todo[i] \in Observed
  BY DEF PartialOn
<1>3. Sync \in Actors /\ UNCHANGED <<now, rows, told, overlapped>>
  BY DEF Actors, SyncBegins
<1>4. tx'[Sync] = [at |-> "rows", todo |-> todo, snap |-> rows, write |-> [i \in {} |-> 0]]
  BY <1>1, <1>3 DEF IInv
<1>5. TxShape(Sync)'
  BY <1>2, <1>4 DEF TxShape, Observed, Deadlines
<1>6. TxInv(Sync)'
  BY <1>3, <1>4, <1>5, Begins
<1> QED
  BY <1>1, <1>3, <1>6, TxStep

LEMMA StepBeginsStep ==
    ASSUME IInv, NEW t \in Tasks, NEW op \in {"COMPLETE", "UPDATE"}, NEW i \in Items,
           StepBegins(t, op, i)
    PROVE  IInv'
<1> DEFINE r == [at |-> "read", op |-> op, item |-> i, snap |-> rows, write |-> [x \in {} |-> 0]]
<1>1. t \in Actors /\ UNCHANGED <<now, rows, told, overlapped>> /\ tx' = [tx EXCEPT ![t] = r]
  BY DEF Actors, StepBegins
<1>2. tx'[t] = r
  BY <1>1 DEF IInv
<1>3. TxShape(t)'
  BY <1>2 DEF TxShape
<1>4. TxInv(t)'
  BY <1>1, <1>2, <1>3, Begins
<1> QED
  BY <1>1, <1>4, TxStep

\* A transaction is given up.
LEMMA EndsStep ==
    ASSUME IInv, NEW a \in Actors, tx' = [tx EXCEPT ![a] = None],
           UNCHANGED <<now, rows, told, overlapped>>
    PROVE  IInv'
<1>1. tx'[a] = None
  BY DEF IInv
<1>2. TxInv(a)'
  BY <1>1 DEF TxInv, TxShape, Open, None
<1> QED
  BY <1>2, TxStep

\* What differs from the row that was read changes it without reopening it.
LEMMA DifferingChanges ==
    ASSUME NEW s, NEW new, Whole(new), s.status = "COMPLETED" => new.status = "COMPLETED"
    PROVE  Changes(s, Differing(s, new))
BY DEF Changes, Whole

\* Flushing a whole row that reopens nothing keeps what the transaction wrote right.
LEMMA FlushKeeps ==
    ASSUME IInv, NEW a \in Actors, Open(a), NEW i \in Items, NEW new, Whole(new),
           rows' = rows, tx'[a].snap = tx[a].snap, tx'[a].write = Flush(a, i, new),
           IF i \in DOMAIN tx[a].snap
           THEN tx[a].snap[i].status = "COMPLETED" => new.status = "COMPLETED"
           ELSE a = Sync /\ i \notin DOMAIN rows
    PROVE  WriteInv(a)'
<1> DEFINE change == IF i \in DOMAIN tx[a].snap THEN Differing(tx[a].snap[i], new) ELSE new
<1>1. WriteInv(a)
  BY DEF IInv, TxInv
<1>2. /\ DOMAIN tx'[a].write = DOMAIN tx[a].write \cup {i}
      /\ tx'[a].write[i] = change
      /\ \A x \in DOMAIN tx[a].write \ {i} : tx'[a].write[x] = tx[a].write[x]
  BY DEF Flush
<1>3. i \in DOMAIN tx[a].snap => Changes(tx[a].snap[i], change)
  BY DifferingChanges
<1>4. i \notin DOMAIN tx[a].snap => a = Sync /\ Whole(change) /\ i \notin DOMAIN rows
  OBVIOUS
<1> HIDE DEF change
<1>5. ASSUME NEW x \in DOMAIN tx'[a].write
      PROVE  /\ x \in Items
             /\ IF x \in DOMAIN tx[a].snap THEN Changes(tx[a].snap[x], tx'[a].write[x])
                ELSE a = Sync /\ Whole(tx'[a].write[x]) /\ x \notin DOMAIN rows
  <2>1. CASE x = i
    BY <1>2, <1>3, <1>4, <2>1
  <2>2. CASE x # i
    BY <1>1, <1>2, <2>2 DEF WriteInv
  <2> QED
    BY <2>1, <2>2
<1> QED
  BY <1>5 DEF WriteInv

LEMMA SyncRowStep ==
    ASSUME IInv, NEW i \in Items, SyncRow(i)
    PROVE  IInv'
<1> DEFINE seen == tx[Sync].todo[i]
           new == IF i \in DOMAIN tx[Sync].snap
                  THEN Reconciled(tx[Sync].snap[i], seen) ELSE Created(seen)
           rest == [j \in DOMAIN tx[Sync].todo \ {i} |-> tx[Sync].todo[j]]
           r == [at |-> "rows", todo |-> rest, snap |-> tx[Sync].snap,
                 write |-> Flush(Sync, i, new)]
<1>1. /\ Sync \in Actors /\ Open(Sync) /\ tx[Sync].at = "rows" /\ i \in DOMAIN tx[Sync].todo
      /\ UNCHANGED <<now, rows, told, overlapped>>
  BY DEF Actors, SyncRow, Open
<1>2. TxInv(Sync) /\ SnapInv(Sync)
  BY <1>1 DEF IInv, TxInv
<1>3. /\ tx[Sync] = [at |-> "rows", todo |-> tx[Sync].todo, snap |-> tx[Sync].snap,
                     write |-> tx[Sync].write]
      /\ DOMAIN tx[Sync].todo \subseteq Items
      /\ \A j \in DOMAIN tx[Sync].todo : tx[Sync].todo[j] \in Observed
  BY <1>1, <1>2, MissionAssumption DEF TxInv, TxShape, None
<1>4. tx' = [tx EXCEPT ![Sync] = r]
  <2>1. tx' = [tx EXCEPT ![Sync].write = Flush(Sync, i, new), ![Sync].todo = rest]
    BY DEF SyncRow
  <2>2. tx' = [tx EXCEPT ![Sync] = [tx[Sync] EXCEPT !.write = Flush(Sync, i, new), !.todo = rest]]
    BY <2>1
  <2> DEFINE e == [tx[Sync] EXCEPT !.write = Flush(Sync, i, new)]
  <2> HIDE DEF new, rest
  <2>3. e = [at |-> "rows", todo |-> tx[Sync].todo, snap |-> tx[Sync].snap,
             write |-> Flush(Sync, i, new)]
    BY <1>3
  <2> HIDE DEF e
  <2>4. [e EXCEPT !.todo = rest] = r
    BY <2>3
  <2> QED
    BY <2>2, <2>4, Zenon DEF e
<1>5. tx'[Sync] = r
  BY <1>1, <1>4 DEF IInv
<1>6. Whole(new)
  <2>1. seen \in Observed
    BY <1>1, <1>3
  <2>2. i \in DOMAIN tx[Sync].snap => Sound(tx[Sync].snap[i])
    BY <1>2 DEF SnapInv
  <2> QED
    BY <2>1, <2>2, CreatedIsWhole, RewriteIsWhole
<1>7. IF i \in DOMAIN tx[Sync].snap
      THEN tx[Sync].snap[i].status = "COMPLETED" => new.status = "COMPLETED"
      ELSE i \notin DOMAIN rows
  BY <1>2 DEF SnapInv, Reconciled
<1> HIDE DEF new
<1>8. WriteInv(Sync)'
  BY <1>1, <1>5, <1>6, <1>7, FlushKeeps
<1>9. TxShape(Sync)'
  BY <1>3, <1>5 DEF TxShape, Observed, Deadlines
<1>10. SnapInv(Sync)'
  BY <1>1, <1>2, <1>5 DEF SnapInv
<1>11. TxInv(Sync)'
  BY <1>5, <1>8, <1>9, <1>10 DEF TxInv, FlushInv
<1> HIDE DEF r
<1> QED
  BY <1>1, <1>4, <1>11, TxStep

LEMMA StepFlushesStep ==
    ASSUME IInv, NEW t \in Tasks, StepFlushes(t)
    PROVE  IInv'
<1> DEFINE i == tx[t].item
           row == tx[t].snap[i]
           new == IF tx[t].op = "COMPLETE" THEN Completed(row) ELSE Renamed(row)
           r == [at |-> "flushed", op |-> tx[t].op, item |-> i, snap |-> tx[t].snap,
                 write |-> Flush(t, i, new)]
<1>1. /\ t \in Actors /\ t # Sync /\ Open(t) /\ i \in DOMAIN tx[t].snap
      /\ UNCHANGED <<now, rows, told, overlapped>>
  BY MissionAssumption DEF Actors, StepFlushes, Open
<1>2. TxInv(t) /\ SnapInv(t)
  BY <1>1 DEF IInv, TxInv
<1>3. /\ tx[t] = [at |-> tx[t].at, op |-> tx[t].op, item |-> i, snap |-> tx[t].snap,
                  write |-> tx[t].write]
      /\ i \in Items
  BY <1>1, <1>2 DEF TxInv, TxShape, Open, None
<1>4. tx' = [tx EXCEPT ![t] = r]
  <2>1. tx' = [tx EXCEPT ![t].at = "flushed", ![t].write = Flush(t, i, new)]
    BY DEF StepFlushes
  <2>2. tx' = [tx EXCEPT ![t] = [tx[t] EXCEPT !.at = "flushed", !.write = Flush(t, i, new)]]
    BY <2>1
  <2> DEFINE e == [tx[t] EXCEPT !.at = "flushed"]
  <2> HIDE DEF new, i
  <2>3. e = [at |-> "flushed", op |-> tx[t].op, item |-> i, snap |-> tx[t].snap,
             write |-> tx[t].write]
    BY <1>3
  <2> HIDE DEF e
  <2>4. [e EXCEPT !.write = Flush(t, i, new)] = r
    BY <2>3
  <2> QED
    BY <2>2, <2>4, Zenon DEF e
<1>5. tx'[t] = r
  BY <1>1, <1>4 DEF IInv
<1>6. Sound(row)
  BY <1>1, <1>2 DEF SnapInv
<1>7. /\ Whole(new)
      /\ row.status = "COMPLETED" => new.status = "COMPLETED"
      /\ tx[t].op = "COMPLETE" => new.status = "COMPLETED"
  <2>1. Whole(Completed(row)) /\ Completed(row).status = "COMPLETED"
    BY <1>6 DEF Completed, Whole, Sound, Rows, Statuses, Priorities
  <2>2. Whole(Renamed(row)) /\ (row.status = "COMPLETED" => Renamed(row).status = "COMPLETED")
    BY <1>6, PriorityOfRow DEF Renamed, Whole, Sound, Rows, Statuses, Priorities
  <2> QED
    BY <2>1, <2>2
<1>8. FlushInv(t)'
  <2>1. /\ DOMAIN Flush(t, i, new) = DOMAIN tx[t].write \cup {i}
        /\ Flush(t, i, new)[i] = Differing(row, new)
    BY <1>1 DEF Flush
  <2>2. tx[t].op = "COMPLETE" => "status" \in DOMAIN Differing(row, new) \/ row.status = "COMPLETED"
    BY <1>6, <1>7 DEF Differing, Sound, Rows
  <2> HIDE DEF row, new
  <2>3. tx[t].op = "COMPLETE" =>
          "status" \in DOMAIN Flush(t, i, new)[i] \/ tx[t].snap[i].status = "COMPLETED"
    BY <2>1, <2>2 DEF row
  <2> QED
    BY <1>1, <1>5, <2>1, <2>3 DEF FlushInv
<1>9. SnapInv(t)'
  BY <1>1, <1>2, <1>5 DEF SnapInv
<1> HIDE DEF new
<1>10. WriteInv(t)'
  BY <1>1, <1>3, <1>5, <1>7, FlushKeeps
<1>11. TxShape(t)'
  BY <1>3, <1>5 DEF TxShape
<1>12. TxInv(t)'
  BY <1>8, <1>9, <1>10, <1>11 DEF TxInv
<1> HIDE DEF r
<1> QED
  BY <1>1, <1>4, <1>12, TxStep

\* The commits: of the sync, of a mission step, and those whose answer is lost.
LEMMA CommitSteps ==
    ASSUME IInv, \/ SyncCommits
                 \/ \E t \in Tasks : StepCommits(t)
                 \/ \E a \in Actors : CommitUnanswered(a)
    PROVE  /\ IInv'
           /\ \A i \in DOMAIN rows :
                rows[i].status = "COMPLETED" =>
                    i \in DOMAIN rows' /\ rows'[i].status = "COMPLETED" /\ rows'[i].stamped
<1>1. \E a \in Actors : CommitOf(a)
  <2>1. CASE SyncCommits
    <3>1. Sync \in Actors /\ Open(Sync) /\ now' = now /\ \A i \in told' : i \in told
      BY <2>1 DEF SyncCommits, Actors, Open
    <3> QED
      BY <2>1, <3>1, Zenon DEF SyncCommits, CommitOf
  <2>2. ASSUME NEW t \in Tasks, StepCommits(t)
        PROVE  t \in Actors /\ CommitOf(t)
    <3>1. t \in Actors /\ Open(t) /\ now' = now
      BY <2>2 DEF StepCommits, Actors, Open
    <3>2. /\ tx[t].at = "flushed"
          /\ told' = IF tx[t].op = "COMPLETE" THEN told \cup {tx[t].item} ELSE told
      BY <2>2, Zenon DEF StepCommits
    <3>3. \A i \in told' : i \in told \/ (tx[t].op = "COMPLETE" /\ i = tx[t].item)
      BY <3>2
    <3> QED
      BY <2>2, <3>1, <3>2, <3>3, Zenon DEF StepCommits, CommitOf
  <2>3. ASSUME NEW a \in Actors, CommitUnanswered(a)
        PROVE  CommitOf(a)
    <3>1. Open(a) /\ now' = now /\ \A i \in told' : i \in told
      BY <2>3 DEF CommitUnanswered, Open
    <3> QED
      BY <2>3, <3>1, Zenon DEF CommitUnanswered, CommitOf
  <2> QED
    BY <2>1, <2>2, <2>3
<1> QED
  BY <1>1, ApplyStep

-----------------------------------------------------------------------------
(* The theorems.                                                           *)

LEMMA InitHolds == Init => IInv
<1> SUFFICES ASSUME Init PROVE IInv
  OBVIOUS
<1>1. ASSUME NEW a \in Actors PROVE TxInv(a)
  BY DEF Init, TxInv, TxShape, Open, None
<1>2. RowsInv
  BY DEF Init, RowsInv
<1>3. ToldMeansStored /\ LowUnlessOverlapped
  BY DEF Init, ToldMeansStored, LowUnlessOverlapped
<1> QED
  BY <1>1, <1>2, <1>3, MissionAssumption DEF Init, IInv

\* Every step preserves the invariant and takes no completion back.
LEMMA StepHolds ==
    ASSUME IInv, [Next]_vars
    PROVE  /\ IInv'
           /\ \A i \in DOMAIN rows :
                rows[i].status = "COMPLETED" =>
                    i \in DOMAIN rows' /\ rows'[i].status = "COMPLETED" /\ rows'[i].stamped
<1> DEFINE Stays == \A i \in DOMAIN rows :
                rows[i].status = "COMPLETED" =>
                    i \in DOMAIN rows' /\ rows'[i].status = "COMPLETED" /\ rows'[i].stamped
<1>1. rows' = rows => Stays
  BY DEF IInv, RowsInv, Sound
<1>2. CASE SyncCommits \/ (\E t \in Tasks : StepCommits(t)) \/ (\E a \in Actors : CommitUnanswered(a))
  BY <1>2, CommitSteps
<1>3. CASE SyncBegins
  BY <1>1, <1>3, SyncBeginsStep DEF SyncBegins
<1>4. ASSUME NEW i \in Items, SyncRow(i) PROVE IInv' /\ Stays
  BY <1>1, <1>4, SyncRowStep DEF SyncRow
<1>5. ASSUME NEW t \in Tasks, NEW op \in {"COMPLETE", "UPDATE"}, NEW i \in Items,
             StepBegins(t, op, i)
      PROVE  IInv' /\ Stays
  BY <1>1, <1>5, StepBeginsStep DEF StepBegins
<1>6. ASSUME NEW t \in Tasks, StepFlushes(t) PROVE IInv' /\ Stays
  BY <1>1, <1>6, StepFlushesStep DEF StepFlushes
<1>7. ASSUME NEW t \in Tasks, NotFound(t) PROVE IInv' /\ Stays
  BY <1>1, <1>7, EndsStep DEF NotFound, Actors
<1>8. ASSUME NEW a \in Actors, RollsBack(a) PROVE IInv' /\ Stays
  BY <1>1, <1>8, EndsStep DEF RollsBack
<1>9. CASE ProcessEnds
  <2>1. ASSUME NEW a \in Actors PROVE TxInv(a)'
    BY <1>9 DEF ProcessEnds, TxInv, TxShape, Open, None
  <2> QED
    BY <1>1, <1>9, <2>1 DEF ProcessEnds, IInv, RowsInv, ToldMeansStored, LowUnlessOverlapped
<1>10. ASSUME UNCHANGED <<rows, tx, told, overlapped>>, now' \in 0..MaxTime
       PROVE  IInv' /\ Stays
  <2>1. ASSUME NEW a \in Actors PROVE TxInv(a)'
    <3>1. TxInv(a)
      BY DEF IInv
    <3>2. TxShape(a)'
      BY <1>10, <3>1 DEF TxInv, TxShape, Observed, Deadlines
    <3> QED
      BY <1>10, <3>1, <3>2 DEF TxInv, Open, SnapInv, WriteInv, FlushInv
  <2> QED
    BY <1>1, <1>10, <2>1 DEF IInv, RowsInv, ToldMeansStored, LowUnlessOverlapped
<1>11. CASE Tick
  BY <1>10, <1>11, MissionAssumption DEF Tick, IInv
<1>12. CASE UNCHANGED vars
  BY <1>10, <1>12 DEF vars, IInv
<1> QED
  BY <1>2, <1>3, <1>4, <1>5, <1>6, <1>7, <1>8, <1>9, <1>11, <1>12 DEF Next

LEMMA InvariantHolds == Spec => []IInv
BY InitHolds, StepHolds, PTL DEF Spec

\* Whatever rows the transactions of the sync and of the mission steps read,
\* write and commit, and in whatever order: a completion the user was told of is
\* stored, and what is completed has the lowest priority unless it was completed
\* while another transaction had it as PENDING.
THEOREM MissionsCorrect == Spec => []MissionsInv
<1>1. ASSUME IInv PROVE MissionsInv
  <2>1. ASSUME NEW a \in Actors
        PROVE  \/ tx[a] = None
               \/ /\ tx[a].at \in (IF a = Sync THEN {"rows"} ELSE {"read", "flushed"})
                  /\ DOMAIN tx[a].snap \subseteq Items
                  /\ \A i \in DOMAIN tx[a].snap : tx[a].snap[i] \in Rows
                  /\ DOMAIN tx[a].write \subseteq Items
    <3> SUFFICES ASSUME tx[a] # None
                 PROVE  /\ tx[a].at \in (IF a = Sync THEN {"rows"} ELSE {"read", "flushed"})
                        /\ DOMAIN tx[a].snap \subseteq Items
                        /\ \A i \in DOMAIN tx[a].snap : tx[a].snap[i] \in Rows
                        /\ DOMAIN tx[a].write \subseteq Items
      OBVIOUS
    <3>1. TxInv(a) /\ DOMAIN rows \subseteq Items
      BY <1>1 DEF IInv, RowsInv
    <3>2. tx[a].at \in (IF a = Sync THEN {"rows"} ELSE {"read", "flushed"})
      BY <3>1, MissionAssumption DEF TxInv, TxShape
    <3>3. SnapInv(a) /\ WriteInv(a)
      BY <3>1, <3>2 DEF TxInv, Open
    <3> QED
      BY <3>1, <3>2, <3>3 DEF SnapInv, WriteInv, Sound
  <2>2. \A i \in DOMAIN rows : rows[i] \in Rows
    BY <1>1 DEF IInv, RowsInv, Sound
  <2> QED
    BY <1>1, <2>1, <2>2 DEF MissionsInv, TypeOK, IInv, RowsInv
<1> QED
  BY <1>1, InvariantHolds, PTL

\* No commit takes a completion back or empties its time, whatever its
\* transaction had read (the merge of create_or_update, mark_completed).
THEOREM CompletionsStay == Spec => CompletedStays
<1>1. IInv /\ [Next]_vars =>
        [\A i \in DOMAIN rows :
            rows[i].status = "COMPLETED" =>
                i \in DOMAIN rows' /\ rows'[i].status = "COMPLETED" /\ rows'[i].stamped]_vars
  BY StepHolds
<1> QED
  BY <1>1, InvariantHolds, PTL DEF Spec, CompletedStays
=============================================================================
