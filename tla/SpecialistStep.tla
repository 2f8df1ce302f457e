---------------------------- MODULE SpecialistStep -----------------------------
(***************************************************************************)
(* What the runtime may rely on when it awaits a specialist handler for    *)
(* one task of a plan: one SpecialistResult, whose download references are *)
(* those of a whole batch of distinct attachments or none at all, and only *)
(* of a COMPLETED step.                                                    *)
(***************************************************************************)
EXTENDS Naturals, Sequences

CONSTANTS
    Files,      \* attachments of the LMS
    MaxBatch    \* attachments of one download request (5)

VARIABLES
    answered,   \* the handler has returned
    status,     \* SpecialistResult.status
    downloads,  \* the attachments of its download references, in order
    listed      \* the attachments of its verified_followup_context, in order

vars == <<answered, status, downloads, listed>>

Statuses == {"COMPLETED", "FAILED", "AUTH_REQUIRED"}

Init ==
    /\ answered = FALSE
    /\ status = "none"
    /\ downloads = <<>>
    /\ listed = <<>>

\* A result the handler may return.
Promised(s, d) ==
    /\ s \in Statuses
    /\ s # "COMPLETED" => d = <<>>
    /\ Len(d) <= MaxBatch
    /\ \A i, j \in 1..Len(d) : d[i] = d[j] => i = j

Return ==
    /\ ~answered
    /\ answered' = TRUE
    /\ Promised(status', downloads')
    \* A batch comes with the list it was chosen from, when the step read it.
    /\ \A i \in 1..Len(listed') : listed'[i] \in Files

\* The answer comes: the runtime awaits it without a limit of its own.
Spec == Init /\ [][Return]_vars /\ <>answered
=============================================================================
