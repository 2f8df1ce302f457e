------------------------------ MODULE PlanRuntime ------------------------------
(***************************************************************************)
(* ProactiveAssistantRuntime: a request of the user, or an event of the    *)
(* background synchronisation, becomes a plan of the Manager (a language   *)
(* model), and the plan a sequence of specialist steps.  The two share one *)
(* context: the last list of each kind, from which a later request is      *)
(* bound to its targets, and the last references, from which a document    *)
(* step gets its files.  Every await lets the other one run.               *)
(*                                                                         *)
(* A step is promised by SpecialistStep: one answer, the references of a   *)
(* whole batch or none.  Each step has slots of its own.                   *)
(***************************************************************************)
EXTENDS Targets

CONSTANTS
    Lists,        \* the lists the LMS returns, by kind
    Parent,       \* the assignment of each attachment
    Utterances,   \* texts of the user, by what they match
    Plans,        \* plans of the Manager, of a request or an event: sequences of
                  \* tasks, <<>> is CHAT
    MaxSteps,     \* steps of a plan (4)
    MaxRefs,      \* references kept in the context (100)
    MaxRequests   \* bound: requests and events

Actors == {"user", "event"}
Attachments == DOMAIN Parent
Items == UNION {UNION {ToSet(l) : l \in Lists[k]} : k \in DOMAIN Lists}

\* Kinds of steps (agent, entity and action of a ManagerTask), with the kind of
\* target they act on and of the list they return.
Needs == [openNotice |-> "ANNOUNCEMENT", openAssignment |-> "ASSIGNMENT",
          listFiles |-> "ASSIGNMENT", download |-> "ASSIGNMENT", play |-> "LECTURE"]
Shows == [listNotices |-> "ANNOUNCEMENT", listAssignments |-> "ASSIGNMENT",
          listLectures |-> "LECTURE", listFiles |-> "ATTACHMENT",
          openAssignment |-> "ATTACHMENT", download |-> "ATTACHMENT"]
EclassKinds == DOMAIN Needs \cup DOMAIN Shows
Kinds == EclassKinds \cup {"document", "mission"}

\* A task as the Manager writes it: its slots repeat some of what the text says
\* and leave out the rest.
Sayings == {"number", "query", "file", "scope"}
ManagerTasks == [kind : Kinds, says : SUBSET Sayings]

\* What words match, and a text (see Targets, and playback: does it name a
\* playback?).
Wordings == [given : BOOLEAN, matches : SUBSET Items, filename : BOOLEAN]
Texts == [number : Nat, query : Wordings, file : Wordings, titles : SUBSET Items,
          that : BOOLEAN, plural : BOOLEAN, suffix : SUBSET Items, vague : BOOLEAN,
          week : SUBSET Items, scope : SUBSET Items, playback : BOOLEAN]

ASSUME RuntimeAssumption ==
    /\ DOMAIN Lists = {"ANNOUNCEMENT", "ASSIGNMENT", "LECTURE", "ATTACHMENT"}
    /\ \A k \in DOMAIN Lists : \A l \in Lists[k] : l \in Seq(Items) /\ IsInjective(l)
    /\ \A l \in Lists["ATTACHMENT"] :
         l \in Seq(Attachments) /\ \A f, g \in ToSet(l) : Parent[f] = Parent[g]
    /\ Utterances \subseteq Texts
    /\ \A u \in Utterances : \A q \in {u.query, u.file} : q.filename => q.given
    /\ \A a \in Actors : \A p \in Plans[a] : p \in Seq(ManagerTasks) /\ Len(p) <= MaxSteps
    /\ {MaxSteps, MaxRefs, MaxBatch} \subseteq Nat \ {0}
    /\ MaxRequests \in [Actors -> Nat]

VARIABLES
    job,       \* what handle_user_request and handle_system_event are doing
    history,   \* context.last_verified_entity_refs
    snap,      \* context.verified_entity_snapshots
    current,   \* whose request context.last_request_id names
    shown,     \* the list of attachments in the last completed answer (history)
    asked,     \* requests and events so far
    downloads  \* downloads so far, each has an id of its own

context == <<history, snap, shown>>
runtimeVars == <<job, context, current, asked, downloads>>

\* A reference: <<n, f>> is the n-th download, of file f; <<0, x>> names item x.
IsDownload(ref) == ref[1] > 0

NoText == [number |-> 0, query |-> NoQuery, file |-> NoQuery, titles |-> {}, that |-> FALSE,
           plural |-> FALSE, suffix |-> {}, vague |-> FALSE, week |-> {}, scope |-> {},
           playback |-> FALSE]

Idle == [pc |-> "idle",
         alone |-> TRUE, logged |-> "none",         \* history: overlap and audit
         text |-> NoText, saw |-> <<>>,             \* the request and the list it was about
         named |-> Attachments,                     \* history: the files its text names
         steps |-> <<>>, reuse |-> FALSE, at |-> 1,
         refs |-> <<>>, lists |-> <<>>,             \* results of the plan so far
         input |-> <<>>, outcome |-> "none"]        \* of the step that runs

\* The slots a ManagerTask has are more than these: the rest tells two steps
\* apart and no more.
Slots == [ordinal : Nat, query : Wordings, scope : SUBSET Items]

Step(kind, slots, item, files) ==
    [kind |-> kind, slots |-> slots, item |-> item, files |-> files]
Steps == [kind : Kinds, slots : Slots, item : SUBSET Items, files : Seq(Attachments)]
Refs == (0..downloads) \X Items

RuntimeTypeOK ==
    /\ DOMAIN job = Actors
    /\ \A a \in Actors :
         /\ DOMAIN job[a] = DOMAIN Idle
         /\ job[a].pc \in {"idle", "planning", "retrying", "planned", "next", "running", "auditing"}
         /\ job[a].logged \in Actors \cup {"none"}
         /\ job[a].steps \in Seq(Steps) /\ Len(job[a].steps) <= MaxSteps
         /\ job[a].at \in 1..(MaxSteps + 1)
         /\ {job[a].refs, job[a].input} \subseteq Seq(Refs)
    /\ history \in Seq(Refs) /\ Len(history) <= MaxRefs
    /\ snap \in [DOMAIN Lists -> {<<>>} \cup UNION {Lists[k] : k \in DOMAIN Lists}]
    /\ shown \in {<<>>} \cup Lists["ATTACHMENT"]
    /\ \A a \in Actors : asked[a] \in 0..MaxRequests[a]
    /\ current \in Actors \cup {"none"} /\ downloads \in Nat

RuntimeInit ==
    /\ job = [a \in Actors |-> Idle]
    /\ history = <<>>
    /\ snap = [k \in DOMAIN Lists |-> <<>>]
    /\ shown = <<>>
    /\ current = "none"
    /\ asked = [a \in Actors |-> 0]
    /\ downloads = 0

Over(a) == job' = [job EXCEPT ![a] = Idle]

-----------------------------------------------------------------------------
(* A request and its plan.                                                 *)

\* Another request sets last_request_id.
Begin(a, u) ==
    /\ job[a].pc = "idle" /\ asked[a] < MaxRequests[a]
    /\ asked' = [asked EXCEPT ![a] = @ + 1] /\ current' = a
    /\ job' = [b \in Actors |->
                 IF b = a THEN [Idle EXCEPT !.pc = "planning", !.text = u,
                                            !.saw = shown,
                                            !.alone = \A c \in Actors : job[c].pc = "idle"]
                 ELSE [job[b] EXCEPT !.alone = FALSE]]
    /\ UNCHANGED <<context, downloads>>

\* handle_user_request
Ask == \E u \in Utterances : Begin("user", u)

\* handle_system_event
Notify == Begin("event", NoText)

\* create_plan raises: it is retried once.
PlanFails(a) ==
    /\ job[a].pc \in {"planning", "retrying"}
    /\ IF job[a].pc = "planning" THEN job' = [job EXCEPT ![a].pc = "retrying"] ELSE Over(a)
    /\ UNCHANGED <<context, current, asked, downloads>>

\* The slots of a task, and what the text says together with them.
SlotsOf(task, u) ==
    [ordinal |-> IF "number" \in task.says THEN u.number ELSE 0,
     query |-> IF "file" \in task.says /\ u.file.given THEN u.file
               ELSE IF "query" \in task.says THEN u.query ELSE NoQuery,
     scope |-> IF "scope" \in task.says THEN u.scope ELSE Items]

Says(u, slots) == [u EXCEPT !.query = slots.query, !.scope = slots.scope]

\* The one target of a step, chosen from the last list of its kind.
Target(kind, u) ==
    IF kind \notin DOMAIN Needs THEN {}
    ELSE LET list == snap[Needs[kind]] IN
         CASE kind = "openNotice" -> ChooseAnnouncement(list, u, u.scope)
           [] kind = "play" -> ChooseLecture(list, u, u.scope)
           [] OTHER -> ChooseAssignment(list, u, u.scope)

Has(tasks, kind) == \E i \in DOMAIN tasks : tasks[i].kind = kind
First(tasks, kind, i) == tasks[i].kind = kind /\ \A k \in 1..(i - 1) : tasks[k].kind # kind

\* The slots of the first download (selector_task), or of the first document
\* step, say which files are meant.
SelectorSlots(tasks, u) ==
    LET kind == IF Has(tasks, "download") THEN "download" ELSE "document"
    IN  SlotsOf(tasks[CHOOSE i \in DOMAIN tasks : First(tasks, kind, i)], u)

\* The files of the plan: those of the last list that the request points at.
PlanFiles(tasks, u) ==
    IF Has(tasks, "download") \/ Has(tasks, "document")
      THEN SelectFiles(snap["ATTACHMENT"], Says(u, SelectorSlots(tasks, u)), Parent) ELSE <<>>

\* The steps with their targets.  A document step that has its files is given
\* a download step; what is then too much is cut off.
Bound(tasks, u) ==
    LET files == PlanFiles(tasks, u)
        isBound(i) == tasks[i].kind = "document" \/ First(tasks, "download", i)
        steps == [i \in DOMAIN tasks |->
                    LET slots == SlotsOf(tasks[i], u) IN
                    Step(tasks[i].kind, slots, Target(tasks[i].kind, Says(u, slots)),
                         IF isBound(i) THEN files ELSE <<>>)]
        all == IF files # <<>> /\ ~Has(tasks, "download")
                 THEN <<Step("download", SelectorSlots(tasks, u), {}, files)>> \o steps ELSE steps
    IN  SubSeq(all, 1, IF Len(all) < MaxSteps THEN Len(all) ELSE MaxSteps)

\* "그 파일" refers to an earlier download only when there is no list.
Reuse(u) == snap["ATTACHMENT"] = <<>> /\ u.that /\ ~u.plural

\* The Manager answers.  Nothing of an event is bound.
Planned(a, plan) ==
    LET u == job[a].text IN
    /\ job[a].pc \in {"planning", "retrying"}
    /\ job' = [job EXCEPT ![a] = [job[a] EXCEPT
                 !.pc = "planned",
                 !.steps = IF a = "user" THEN Bound(plan, u)
                           ELSE [i \in DOMAIN plan |->
                                    Step(plan[i].kind, SlotsOf(plan[i], u), {}, <<>>)],
                 !.reuse = a = "user" /\ Reuse(u),
                 !.named = IF u.file.given /\ u.number = 0 THEN u.file.matches ELSE Attachments]]
    /\ UNCHANGED <<context, current, asked, downloads>>

\* _validate_plan_dependencies
Depends(j) ==
    /\ \A i \in DOMAIN j.steps : j.steps[i].kind = "document" =>
         \/ \E k \in 1..(i - 1) : j.steps[k].kind \in EclassKinds
         \/ LET had == {history[k][2] : k \in {k \in DOMAIN history : IsDownload(history[k])}} IN
            IF j.steps[i].files # <<>> THEN ToSet(j.steps[i].files) \subseteq had
            ELSE j.reuse /\ had # {}
    /\ \A m, d \in DOMAIN j.steps :
         j.steps[m].kind = "mission" /\ j.steps[d].kind = "document" /\ m < d =>
            \E k \in 1..(m - 1) : j.steps[k].kind = "document"

\* The checks of _handle_event and _execute_plan; CHAT is answered at once.
\* (The text is not read any more.)
Admit(a) ==
    /\ job[a].pc = "planned"
    /\ IF /\ job[a].steps # <<>>
          /\ \A i \in DOMAIN job[a].steps : job[a].steps[i].kind = "play" => job[a].text.playback
          /\ Depends(job[a])
         THEN job' = [job EXCEPT ![a] = [job[a] EXCEPT !.pc = "next", !.text = NoText, !.saw = <<>>]]
         ELSE Over(a)
    /\ UNCHANGED <<context, current, asked, downloads>>

-----------------------------------------------------------------------------
(* The steps.                                                              *)

\* dict.fromkeys: each item once, at its first place.
Distinct(l) ==
    LET once[i \in 0..Len(l)] ==
            IF i = 0 THEN <<>>
            ELSE IF \E m \in 1..(i - 1) : l[m] = l[i] THEN once[i - 1]
            ELSE Append(once[i - 1], l[i])
    IN  once[Len(l)]

\* The download references a document step chooses from: those of this plan,
\* after the earlier ones if it may use them.
Pool(j) ==
    LET refs == IF j.steps[j.at].files # <<>> \/ j.reuse THEN history \o j.refs ELSE j.refs
    IN  Keep(refs, (Nat \ {0}) \X Items)

\* latest_ref_by_attachment
Newest(pool, f) == Last(Keep(pool, Nat \X {f}))

\* Mutant: what was downloaded is enough.
DocumentRefsMutant(j) ==
    LET files == j.steps[j.at].files
        pool == Pool(j)
        seen == Keep(files, {pool[k][2] : k \in DOMAIN pool})
    IN  IF files # <<>> THEN [i \in DOMAIN seen |-> Newest(pool, seen[i])] ELSE pool

\* The references of a document step: the newest of each file the plan is bound
\* to, all of them, in the order of the list; without such files those of this
\* plan, or, for "그 파일", the one whose file was first seen last.  <<>> is a
\* refusal.
DocumentRefs(j) ==
    LET files == j.steps[j.at].files
        pool == Pool(j)
        seen == [k \in DOMAIN pool |-> pool[k][2]]
        chosen ==
            IF files # <<>> THEN IF ToSet(files) \subseteq ToSet(seen) THEN files ELSE <<>>
            ELSE IF pool # <<>> /\ j.reuse THEN <<Last(Distinct(seen))>>
            ELSE Distinct(seen)
    IN  [i \in DOMAIN chosen |-> Newest(pool, chosen[i])]

\* Two steps that may have the same step_key.
Alike(s, t) == s.kind = t.kind /\ s.slots = t.slots

\* The next step is handed to its specialist.  A step that repeats an earlier
\* one, and a document step without its references, end the plan.
Delegate(a) ==
    LET j == job[a]
        input == IF j.steps[j.at].kind = "document" THEN DocumentRefs(j) ELSE <<>>
    IN
    /\ j.pc = "next" /\ j.at <= Len(j.steps)
    /\ \/ /\ \/ \E i \in 1..(j.at - 1) : Alike(j.steps[i], j.steps[j.at])
             \/ j.steps[j.at].kind = "document" /\ input = <<>>
          /\ Over(a)
       \/ /\ j.steps[j.at].kind = "document" => input # <<>>
          /\ job' = [job EXCEPT ![a] = [job[a] EXCEPT !.pc = "running", !.input = input]]
    /\ UNCHANGED <<context, current, asked, downloads>>

\* The step returns with its result; it is part of the plan's only.
Answer(a, outcome, refs, lists) ==
    LET j == job[a] IN
    /\ j.pc = "running"
    /\ job' = [job EXCEPT ![a] = [j EXCEPT !.pc = "auditing", !.outcome = outcome,
                                           !.refs = j.refs \o refs, !.lists = j.lists \o lists]]
    /\ UNCHANGED <<context, current, asked>>

Current(a) == job[a].steps[job[a].at]

\* A list, of the assignment the step is bound to if it is bound to one.
ListsFor(kind, item) ==
    {l \in Lists[Shows[kind]] :
        kind \in {"listFiles", "openAssignment", "download"} /\ item # {} =>
            \A f \in ToSet(l) : Parent[f] \in item}

Named(l) == [i \in DOMAIN l |-> <<0, l[i]>>]

ReturnList(a) ==
    LET s == Current(a) IN
    /\ job[a].pc = "running" /\ s.kind \in DOMAIN Shows \ {"download"}
    /\ \E l \in ListsFor(s.kind, s.item) :
         Answer(a, "COMPLETED", Named(l), <<[kind |-> Shows[s.kind], list |-> l]>>)
    /\ UNCHANGED downloads

\* The files of a download: those bound, or those the handler selects from the
\* list it reads; an ordinal that chose the assignment chooses no file.
ReturnDownload(a) ==
    LET s == Current(a)
        Fetched(l, names, show) ==
            /\ l # <<>>
            /\ downloads' = downloads + Len(l)
            /\ Answer(a, "COMPLETED", names \o [i \in DOMAIN l |-> <<downloads + i, l[i]>>], show)
    IN
    /\ job[a].pc = "running" /\ s.kind = "download"
    /\ IF s.files # <<>> THEN Fetched(s.files, <<>>, <<>>)
       ELSE \E l \in ListsFor("download", s.item) :
              LET chosen == SelectForDownload(IF s.item = {} THEN s.slots.ordinal ELSE 0,
                                              s.slots.query, l)
              IN  Fetched(chosen, Named(chosen), <<[kind |-> "ATTACHMENT", list |-> l]>>)

\* A step with neither: details, a playback, an analysis, a mission.
ReturnDone(a) ==
    /\ job[a].pc = "running" /\ Current(a).kind \notin DOMAIN Shows \ {"openAssignment"}
    /\ Answer(a, "COMPLETED", <<>>, <<>>)
    /\ UNCHANGED downloads

\* FAILED, AUTH_REQUIRED, CAPABILITY_NOT_READY
ReturnNothing(a) ==
    /\ Answer(a, "FAILED", <<>>, <<>>)
    /\ UNCHANGED downloads

\* The document handler has no API key: the request ends with an exception.
Raise(a) ==
    /\ job[a].pc = "running" /\ Current(a).kind = "document"
    /\ Over(a)
    /\ UNCHANGED <<context, current, asked, downloads>>

\* dict.fromkeys(old + new)[-MaxRefs:]
Remembered(refs) ==
    LET all == Distinct(history \o refs)
    IN  SubSeq(all, IF Len(all) > MaxRefs THEN Len(all) - MaxRefs + 1 ELSE 1, Len(all))

\* _remember_verified_snapshots: the last list of each kind.
NewLists(before, lists) ==
    [k \in DOMAIN Lists |->
        LET new == Keep(lists, [kind : {k}, list : Lists[k]]) IN
        IF new = <<>> THEN before[k] ELSE Last(new).list]

\* The plan goes on after a step, which is audited under last_request_id.
Advance(a, at) ==
    job' = [job EXCEPT ![a] = [job[a] EXCEPT !.pc = "next", !.at = at, !.logged = current,
                                             !.input = <<>>]]

\* Mutant: a step that fails is tried again.
AuditRetryMutant(a) ==
    /\ job[a].pc = "auditing"
    /\ Advance(a, IF job[a].outcome = "COMPLETED" THEN job[a].at + 1 ELSE job[a].at)
    /\ UNCHANGED <<context, current, asked, downloads>>

\* Mutant: the lists of a plan that ends early are remembered as well.
AuditMutant(a) ==
    /\ job[a].pc = "auditing"
    /\ snap' = NewLists(snap, job[a].lists)
    /\ IF job[a].outcome = "COMPLETED" THEN Advance(a, job[a].at + 1) ELSE Over(a)
    /\ UNCHANGED <<history, shown, current, asked, downloads>>

\* The audit of the step, under last_request_id as it is by now; then the next
\* step, or the end of the plan.
Audit(a) ==
    /\ job[a].pc = "auditing"
    /\ IF job[a].outcome = "COMPLETED" THEN Advance(a, job[a].at + 1) ELSE Over(a)
    /\ UNCHANGED <<context, current, asked, downloads>>

\* All steps completed: only now does the context learn of them.
Conclude(a) ==
    /\ job[a].pc = "next" /\ job[a].at > Len(job[a].steps)
    /\ history' = Remembered(job[a].refs)
    /\ snap' = NewLists(snap, job[a].lists)
    /\ shown' = NewLists([snap EXCEPT !["ATTACHMENT"] = shown], job[a].lists)["ATTACHMENT"]
    /\ Over(a)
    /\ UNCHANGED <<current, asked, downloads>>

-----------------------------------------------------------------------------
Respond(a) ==
    \/ PlanFails(a)
    \/ \E plan \in Plans[a] : Planned(a, plan)
    \/ Admit(a)
    \/ Delegate(a)
    \/ ReturnList(a) \/ ReturnDownload(a) \/ ReturnDone(a) \/ ReturnNothing(a)
    \/ Raise(a)
    \/ Audit(a)
    \/ Conclude(a)

\* Nothing is asked any more.
Rest ==
    /\ asked = MaxRequests /\ \A a \in Actors : job[a].pc = "idle"
    /\ UNCHANGED runtimeVars

RuntimeNext == Ask \/ Notify \/ (\E a \in Actors : Respond(a)) \/ Rest

\* Every await of a request ends: the calls of the API and of the tools have
\* time limits, the audit 0.25 s.
RuntimeSpec ==
    RuntimeInit /\ [][RuntimeNext]_runtimeVars /\ \A a \in Actors : WF_runtimeVars(Respond(a))
-----------------------------------------------------------------------------
(* Properties.                                                             *)

Analyses(a) == job[a].pc = "running" /\ Current(a).kind = "document"
InputFiles(a) == {job[a].input[i][2] : i \in DOMAIN job[a].input}

\* A document step that is bound to files gets all of them, in the order of the
\* list, and of a file this plan downloaded the copy it downloaded; without
\* such files it gets nothing from earlier requests but for "그 파일".
DocumentGetsItsFiles ==
    \A a \in Actors : Analyses(a) =>
        LET j == job[a]
            files == Current(a).files
        IN  /\ files # <<>> =>
                 /\ [i \in DOMAIN j.input |-> j.input[i][2]] = files
                 /\ \A i \in DOMAIN j.input, k \in DOMAIN j.refs :
                      IsDownload(j.refs[k]) /\ j.refs[k][2] = j.input[i][2] =>
                         j.input[i][1] >= j.refs[k][1]
            /\ files = <<>> /\ ~j.reuse => ToSet(j.input) \subseteq ToSet(j.refs)
            /\ files = <<>> /\ j.reuse => Len(j.input) = 1

\* The user names a file and the Manager passes the name on to every download,
\* or writes one there that fits no other file: no other file is analysed, by
\* whichever route it was downloaded.
NamePassedOn(j) ==
    \A i \in DOMAIN j.steps :
        j.steps[i].kind = "download" =>
            LET query == j.steps[i].slots.query
            IN  query.filename /\ query.matches \cap Attachments \subseteq j.named

NamedFileOnly ==
    \A a \in Actors :
        Analyses(a) /\ ~job[a].reuse /\ NamePassedOn(job[a]) => InputFiles(a) \subseteq job[a].named

\* The words of a request select from the list in the last completed answer:
\* what a plan listed that failed half-way, and so did not show, is not meant.
\* They do so with the slots of the first download, whatever the others say.
\* (An event that is handled meanwhile may replace the list.)
BoundAsShown ==
    \A a \in Actors : \A i, d \in DOMAIN job[a].steps :
        LET j == job[a] IN
        /\ j.pc = "planned" /\ j.alone
        /\ j.steps[i].files # <<>> /\ First(j.steps, "download", d)
        => j.steps[i].files = SelectFiles(j.saw, Says(j.text, j.steps[d].slots), Parent)

\* The steps of a request that nothing overlaps are audited as its own.
AuditIsOwn == \A a \in Actors : job[a].alone => job[a].logged \in {"none", a}

\* Types, the audit of a request on its own, and the file the user named.
PlanRuntimeInv == RuntimeTypeOK /\ AuditIsOwn /\ NamedFileOnly

\* Every request and every event is answered.
RequestAnswered == \A a \in Actors : job[a].pc # "idle" ~> job[a].pc = "idle"

\* Said of the code by a comment: the file name in a text is obeyed even when
\* the Manager leaves it out of the slots; no other file gets to the document
\* step.
NoSubstitute == \A a \in Actors : Analyses(a) => InputFiles(a) \subseteq job[a].named
=============================================================================
