----------------------------- MODULE ChangeStore -----------------------------
(***************************************************************************)
(* What SnapshotRepository.record_snapshot and                             *)
(* SyncPersistence.persist_entities compute from the rows they find.       *)
(*                                                                         *)
(* A row key of entity_snapshots and of change_events is (entity,          *)
(* fingerprint): both tables carry a unique constraint on it, so a row is  *)
(* a member of a set, or a point of a function, over Keys.  A payload and  *)
(* its SHA-256 fingerprint are one model value: two payloads are the same  *)
(* value iff their fingerprints are equal.                                 *)
(***************************************************************************)
EXTENDS Naturals, FiniteSets

CONSTANTS
    Entities,      \* LMS entities: courses, announcements, assignments, ...
    Values,        \* payloads an entity can be listed with
    NoValue,       \* no snapshot row yet; in a reading: entity not listed
    PendingLimit   \* change events handed over per sync (50 in the code)

ASSUME StoreAssumption ==
    /\ IsFiniteSet(Entities)
    /\ IsFiniteSet(Values)
    /\ NoValue \notin Values
    /\ PendingLimit \in Nat \ {0}

Keys == Entities \X Values

EventStatus == {"none", "PENDING", "PROCESSED"}

(***************************************************************************)
(* record_snapshot.  `stored' holds the snapshot rows, `latest' the newest *)
(* of them, `status' the manager_status of the change event of a key.      *)
(* `view' is one dashboard reading; an entity it does not list is left     *)
(* alone.                                                                  *)
(***************************************************************************)

\* Without the comparison with the newest snapshot.
DifferingMutant(latest, view) ==
    {e \in Entities : view[e] # NoValue}

\* Entities listed with a payload other than that of their newest snapshot.
Differing(latest, view) ==
    {e \in Entities : view[e] # NoValue /\ view[e] # latest[e]}

StoreSnapshots(stored, latest, view) ==
    [e \in Entities |-> IF e \in Differing(latest, view)
                        THEN stored[e] \cup {view[e]}
                        ELSE stored[e]]

\* A payload that is stored already inserts no row, so it does not become
\* the newest one.
LatestSnapshots(stored, latest, view) ==
    [e \in Entities |-> IF e \in Differing(latest, view) /\ view[e] \notin stored[e]
                        THEN view[e]
                        ELSE latest[e]]

\* Silent for as long as no sync has completed, first seen or not.
IsBaselineMutant(latest, e, notify) == ~notify

\* The first collection is a baseline and is not announced.
IsBaseline(latest, e, notify) == latest[e] = NoValue /\ ~notify

\* Keys whose change event the transaction inserts.
NewEvents(latest, status, view, notify) ==
    {k \in Keys : /\ k[1] \in Differing(latest, view)
                  /\ k[2] = view[k[1]]
                  /\ ~IsBaseline(latest, k[1], notify)
                  /\ status[k] = "none"}

(***************************************************************************)
(* get_pending_manager_events: the oldest PendingLimit of `pending', by    *)
(* creation (created_at, id).                                              *)
(***************************************************************************)
OldestPending(pending, created) ==
    {k \in pending :
        Cardinality({j \in pending : created[j] < created[k]}) < PendingLimit}

\* The creation numbers one transaction can give to the keys in `new'; the
\* order inside it is that of the LMS listing, which is arbitrary.
Numberings(new, used) ==
    {f \in [new -> (used + 1)..(used + Cardinality(new))] :
        \A j, k \in new : f[j] = f[k] => j = k}
=============================================================================
