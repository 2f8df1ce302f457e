----------------------------- MODULE MCPlanRuntime -----------------------------
EXTENDS PlanRuntime

SmallParent == [f1 |-> "a1", f2 |-> "a1", f3 |-> "a2"]
SmallLists ==
    [ANNOUNCEMENT |-> {<<"n1">>}, ASSIGNMENT |-> {<<"a1", "a2">>},
     LECTURE |-> {<<"l1", "l2">>}, ATTACHMENT |-> {<<>>, <<"f1", "f2">>, <<"f3">>}]

\* Tasks that repeat nothing of the text, and all of it.
Bare(kind) == [kind |-> kind, says |-> {}]
Full(kind) == [kind |-> kind, says |-> Sayings]
SmallPlans ==
    [user |-> {<<>>, <<Full("listFiles")>>, <<Bare("listNotices"), Bare("listAssignments")>>,
               <<Bare("openNotice"), Bare("openNotice")>>, <<Full("openAssignment")>>,
               <<Bare("listLectures"), Full("play")>>,
               <<Bare("download"), Full("document")>>, <<Full("download"), Bare("document")>>,
               <<Full("document"), Bare("mission")>>, <<Bare("mission"), Full("document")>>,
               <<Bare("download"), Full("download")>>},
     event |-> {<<Bare("listFiles")>>}]
Budget == [user |-> 2, event |-> 1]

Word == [NoText EXCEPT !.scope = Items]
File(S) == [given |-> TRUE, matches |-> S, filename |-> TRUE]
SmallUtterances ==
    { [Word EXCEPT !.number = 2, !.scope = {"a1", "l1"}, !.playback = TRUE],
      [Word EXCEPT !.file = File({}), !.vague = TRUE],
      [Word EXCEPT !.plural = TRUE, !.query = [NoQuery EXCEPT !.given = TRUE, !.matches = {"a1"}]],
      [Word EXCEPT !.that = TRUE, !.vague = TRUE, !.suffix = {"f1"}, !.titles = {"a2"},
                   !.week = {"l2"}, !.playback = TRUE] }
================================================================================
