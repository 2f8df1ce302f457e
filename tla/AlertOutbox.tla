----------------------------- MODULE AlertOutbox ------------------------------
(***************************************************************************)
(* What background synchronisation promises about the two kinds of alert   *)
(* it takes from E-Class to the LMS Manager, without tasks, locks,         *)
(* transactions or a process that can die:                                 *)
(*                                                                         *)
(*   - a change event is kept until the Manager has handled it, however    *)
(*     often that takes: at-least-once;                                    *)
(*   - a deadline warning is reserved once, and from then on it is either  *)
(*     handed to the Manager or lost: at-most-once.                        *)
(***************************************************************************)
CONSTANTS
    Changes,     \* change events
    Warnings     \* deadline warnings

VARIABLES
    event,       \* manager_status of each change event
    heard,       \* change events the Manager handled without failing
    reserved,    \* warnings that were ever taken up
    owed,        \* those still on their way to the Manager
    warned       \* those handed to it

alertVars == <<event, heard, reserved, owed, warned>>

TypeOK ==
    /\ event \in [Changes -> {"none", "PENDING", "PROCESSED"}]
    /\ heard \subseteq Changes
    /\ reserved \subseteq Warnings
    /\ owed \subseteq Warnings
    /\ warned \subseteq Warnings

Init ==
    /\ event = [c \in Changes |-> "none"]
    /\ heard = {}
    /\ reserved = {}
    /\ owed = {}
    /\ warned = {}

\* A sync commits: new changes and new warnings, all of them or none.  The
\* answer to the commit may be lost, and then the new warnings with it.
Commit(C, W) ==
    /\ \A c \in C : event[c] = "none"
    /\ W \cap reserved = {}
    /\ event' = [c \in Changes |-> IF c \in C THEN "PENDING" ELSE event[c]]
    /\ reserved' = reserved \cup W
    /\ \E V \in {W, {}} : owed' = owed \cup V
    /\ UNCHANGED <<heard, warned>>

\* The Manager handles a batch of changes, new or seen before.
Hear(C) ==
    /\ \A c \in C : event[c] # "none"
    /\ heard' = heard \cup C
    /\ UNCHANGED <<event, reserved, owed, warned>>

\* Changes are settled once they were heard.
Settle(C) ==
    /\ C \subseteq heard
    /\ event' = [c \in Changes |-> IF c \in C /\ event[c] = "PENDING"
                                   THEN "PROCESSED" ELSE event[c]]
    /\ UNCHANGED <<heard, reserved, owed, warned>>

\* The warnings W reach the Manager; the warnings L never will.
Warn(W, L) ==
    /\ W \cup L \subseteq owed
    /\ warned' = warned \cup W
    /\ owed' = owed \ (W \cup L)
    /\ UNCHANGED <<event, heard, reserved>>

Next ==
    \/ \E C \in SUBSET Changes : \E W \in SUBSET Warnings : Commit(C, W)
    \/ \E C \in SUBSET Changes : Hear(C) \/ Settle(C)
    \/ \E W, L \in SUBSET Warnings : Warn(W, L)

Spec == Init /\ [][Next]_alertVars
=============================================================================
