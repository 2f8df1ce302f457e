------------------------------ MODULE SyncLive --------------------------------
(***************************************************************************)
(* What background synchronisation eventually does.                        *)
(*                                                                         *)
(* Fairness is that of one event loop and of awaits that return: a task    *)
(* that can take a step takes one, in its good or in its bad outcome; a    *)
(* cancelled task sees its cancellation; the heartbeat timer goes on       *)
(* ticking; on_unmount runs to its end.  That an await returns at all is   *)
(* the 8 s limit of the first one and the timeouts of the browser, the     *)
(* database driver and the model API for the others.                       *)
(***************************************************************************)
EXTENDS Sync

Fairness ==
    /\ \A w \in Workers :
        /\ WF_vars(SyncStep(w) \/ SyncFault(w))
        /\ WF_vars(DeliveryStep(w))
        /\ WF_vars(Cancel(w))
    /\ WF_vars(\E w \in Workers : Heartbeat(w))
    /\ WF_vars(Close)

LiveSpec == Spec /\ Fairness

(***************************************************************************)
(* A fault, told by what it does: a sync that fails, an event the Manager  *)
(* fails on, a worker that ends early, a marking that is not applied.      *)
(***************************************************************************)
DeliveryFault(w) ==
    \/ job[w].ok /\ ~job'[w].ok
    \/ pc[w] = "delivering" /\ job[w].todo # {} /\ pc'[w] = "idle"
    \/ pc[w] = "marking" /\ \E k \in job[w].batch : status'[k] = "PENDING"
                         /\ pc'[w] # "marking"

NoFault == \A w \in Workers : ~SyncFault(w) /\ ~DeliveryFault(w)

\* From some time on the program stays up, logged in and without faults.
Recovers ==
    /\ <>[](app = "up" /\ ~paused)
    /\ <>[][NoFault]_vars

\* Nothing that went wrong before makes a change event stay behind: once
\* faults cease, every recorded event reaches the Manager and is settled,
\* over as many batches as it takes.
EveryChangeSettled ==
    Recovers => \A k \in Keys : status[k] = "PENDING" ~> status[k] = "PROCESSED"

\* Quitting does not hang: on_unmount waits for the cancelled workers and
\* for the lock, and gets both.
QuitCompletes == app = "quitting" ~> app \in {"closed", "down"}
=============================================================================
