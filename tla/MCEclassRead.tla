---------------------------- MODULE MCEclassRead ----------------------------
(***************************************************************************)
(* Two terms; course c2 is only in the first, and the second query fits    *)
(* both courses nearly as well; c2 has two lectures, and the title fits both.*)
(***************************************************************************)
EXTENDS EclassRead, TLC

CONSTANTS t1, t2, c1, c2, l1, l2, q1, q2, x1

MCTerms == {t1, t2}
MCCourses == {c1, c2}
MCLectures == {l1, l2}
MCEnrolled == t1 :> {c1, c2} @@ t2 :> {c1}
MCCourseOf == [l \in MCLectures |-> c2]
MCCourseScore == q1 :> (c1 :> 0 @@ c2 :> 300) @@ q2 :> (c1 :> 90 @@ c2 :> 87)
MCTitleScore == x1 :> (l1 :> 250 @@ l2 :> 250)

MCRequests ==
    {Request("courses", None, None, None, t, None) : t \in {None, t1, "bad"}}
    \cup {Request("snapshot", None, None, None, None, None),
          Request("assignments", None, None, c2, None, None),
          Request("items", None, None, c2, None, None),
          Request("items", None, None, None, t2, None),
          Request("byName", q1, None, None, None, None),
          Request("byName", q1, x1, None, None, None),
          Request("byName", q1, "bad", None, None, None),
          Request("byName", q2, None, None, None, None),
          Request("lecture", q1, None, None, None, None),
          Request("lecture", q1, x1, None, t1, None),
          Request("lecture", q1, "bad", None, None, None)}
    \cup {Request("play", None, None, None, None, r) : r \in Calls}
=============================================================================
