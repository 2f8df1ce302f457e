------------------------------ MODULE EclassStep -------------------------------
(***************************************************************************)
(* One call of EclassMcpSpecialistHandler: a typed task is carried out by  *)
(* a direct route when the runtime bound it to a verified target, by the   *)
(* E-Class Agent (a language model that calls the MCP tools the task       *)
(* allows, in any order) otherwise.  Whatever the model claims, the result *)
(* is made from the tool results captured on the way.                      *)
(*                                                                         *)
(* A run of the handler uses the tools of one entity only, so a tool is    *)
(* named by its role for that entity: "list" is list_assignments for an    *)
(* ASSIGNMENT task, get_grades for a GRADE task, and so on.                *)
(***************************************************************************)
EXTENDS Targets

CONSTANTS
    Files,      \* attachments of the LMS
    Listings,   \* attachment lists of an assignment: the parser gives each URL once
    MaxCalls    \* bound: tool calls of an Agent run (max_turns is 8)

ASSUME StepAssumption ==
    /\ \A l \in Listings : l \in Seq(Files) /\ IsInjective(l)
    /\ <<>> \in Listings
    /\ MaxBatch \in Nat /\ MaxCalls \in Nat

VARIABLES
    task,       \* the ManagerTask
    at,         \* the await the handler is suspended at
    calls,      \* tool calls so far, Agent runs only
    capture,    \* _VerifiedMcpOutputCapture: the last parsed result of each tool
    files,      \* the attachments shown by the last listing
    chosen,     \* the attachments to download, in order
    got,        \* how many of them are there
    evidence,   \* playbacks in the captured evidence_refs
    result,     \* the SpecialistResult
    plays,      \* playbacks the server started in this call (history)
    lost,       \* those whose answer never came, or not in a valid form (history)
    heard       \* tools and what they answered (history)

agentVars == <<calls, capture, evidence>>
batchVars == <<files, chosen, got>>
playVars == <<plays, lost>>
vars == <<task, at, agentVars, batchVars, result, playVars, heard>>

-----------------------------------------------------------------------------
(* Tasks.                                                                  *)

Entities == {"COURSE", "ANNOUNCEMENT", "ASSIGNMENT", "ATTACHMENT", "LECTURE", "GRADE"}
Queries == {"LIST", "DETAIL", "DOWNLOAD"}
Controls == {"PLAY", "PREVIEW", "STOP"}

QueryTexts == {NoQuery} \cup [given : {TRUE}, matches : SUBSET Files, filename : BOOLEAN]

\* The verified target the runtime bound.
Targets == {"none", "lecture", "unnamedLecture", "announcement", "assignment", "files"}

\* The combinations ManagerTask admits, with the target the runtime binds to
\* each; the slots matter to a download only.
Combinations ==
    (Entities \X Queries \X {"none"}) \cup
    ({"LECTURE"} \X Controls \X {"none"}) \cup
    ({"LECTURE"} \X {"PLAY", "PREVIEW"} \X {"lecture", "unnamedLecture"}) \cup
    {<<"ANNOUNCEMENT", "DETAIL", "announcement">>, <<"ATTACHMENT", "LIST", "assignment">>} \cup
    ({"ASSIGNMENT", "ATTACHMENT"} \X {"DETAIL"} \X {"assignment"})

Tasks ==
    { [entity |-> c[1], action |-> c[2], target |-> c[3],
       ordinal |-> 0, query |-> NoQuery, files |-> <<>>] : c \in Combinations }
    \cup { [entity |-> "ATTACHMENT", action |-> "DOWNLOAD", target |-> t,
            ordinal |-> o, query |-> q, files |-> <<>>] :
             t \in {"none", "assignment"}, o \in 0..Cardinality(Files), q \in QueryTexts }
    \cup { [entity |-> "ATTACHMENT", action |-> "DOWNLOAD", target |-> "files",
            ordinal |-> 0, query |-> NoQuery, files |-> l] : l \in {k \in Listings : Sound(k)} }

\* _OPERATION_TOOL_ALLOWLIST, as roles.
ListTools(e) ==
    IF e \in {"ANNOUNCEMENT", "ASSIGNMENT", "LECTURE"} THEN {"list", "courseList"} ELSE {"list"}

Allowed(t) ==
    {"session"} \cup
    (IF t.entity = "ATTACHMENT" \/ (t.entity = "GRADE" /\ t.action = "DETAIL") THEN {"list"}
     ELSE CASE t.action = "LIST" -> ListTools(t.entity)
            [] t.action = "DETAIL" -> ListTools(t.entity) \cup {"details"}
            [] t.action \in {"PLAY", "PREVIEW"} -> {"resolve", "play"}
            [] t.action = "STOP" -> {"stop"}
            [] OTHER -> {})

Tools == {"session", "list", "courseList", "details", "resolve", "play", "stop"}

\* Answers of an MCP tool: McpOutcomeStatus, or ok and error code of the older
\* ones (ok is FOUND); "garbled" is an answer that is no valid result, "OTHER"
\* one that is about another lecture or file than the one asked for.
Outcomes == {"FOUND", "NOT_FOUND", "AMBIGUOUS", "AUTH_REQUIRED", "INVALID_REQUEST", "ERROR"}
Answers == Outcomes \cup {"garbled"}

-----------------------------------------------------------------------------
(* Results.                                                                *)

Result(status) == [status |-> status, downloads |-> <<>>, listed |-> <<>>, playbacks |-> {}]
Pending == Result("none")
Failed == Result("FAILED")

\* _semantic_outcome_contract, and _mcp_response_failure_result of a raw tool.
Contract(o) ==
    CASE o \in {"FOUND", "NOT_FOUND", "AMBIGUOUS"} -> "COMPLETED"
      [] o = "AUTH_REQUIRED" -> "AUTH_REQUIRED"
      [] OTHER -> "FAILED"

\* The direct routes do not take an unsuccessful answer for a result.
DirectContract(o) ==
    IF o \in {"FOUND", "AUTH_REQUIRED"} THEN Contract(o) ELSE "FAILED"

TypeOK ==
    /\ task \in Tasks
    /\ at \in {"agent", "fallback", "unnamed", "resolve", "play", "announcement", "details", "list",
               "download", "done"}
    /\ calls \in 0..MaxCalls
    /\ capture \in [Tools -> Answers \cup {"none"}]
    /\ files \in Listings
    /\ chosen \in Seq(Files) /\ got \in 0..Len(chosen)
    /\ plays \in Nat /\ lost \subseteq 1..plays /\ evidence \subseteq 1..plays
    /\ result.playbacks \subseteq 1..plays
    /\ heard \subseteq Tools \X (Answers \cup {"OTHER"})

\* __call__: the order of its branches.  A task bound to both files and their
\* assignment is a download of the files.
Route(t) ==
    CASE t.target = "lecture" -> "resolve"
      [] t.target = "unnamedLecture" -> "unnamed"
      [] t.target = "announcement" -> "announcement"
      [] t.target = "files" -> "download"
      [] t.target = "assignment" -> IF t.entity = "ATTACHMENT" THEN "list" ELSE "details"
      [] OTHER -> "agent"

Init ==
    /\ task \in Tasks
    /\ at = Route(task)
    /\ result = Pending
    /\ calls = 0
    /\ capture = [t \in Tools |-> "none"]
    /\ files = <<>>
    /\ chosen = task.files
    /\ got = 0
    /\ evidence = {}
    /\ plays = 0 /\ lost = {}
    /\ heard = {}

-----------------------------------------------------------------------------
(* The Agent.                                                              *)

Finish(r) == at' = "done" /\ result' = r
Stay == UNCHANGED <<at, result>>

Hear(tool, o) == heard' = heard \cup {<<tool, o>>}

\* A call of the video tool: the playback it has started is known from its
\* answer only; a call that times out may have started one as well.
Plays(o) ==
    \/ o = "FOUND" /\ plays' = plays + 1 /\ UNCHANGED lost
    \/ o = "garbled" /\ plays' = plays + 1 /\ lost' = lost \cup {plays'}
    \/ o # "FOUND" /\ UNCHANGED playVars
Reference(o) == IF o = "FOUND" THEN {plays + 1} ELSE {}

\* on_tool_end: an answer that does not parse leaves the last result, except
\* for the video tools, whose result it clears.
Captured(tool, o) ==
    IF tool = "session" THEN "none"
    ELSE IF o = "garbled" /\ tool \notin {"play", "stop"} THEN capture[tool] ELSE o

AgentCalls(tool, o) ==
    /\ at = "agent" /\ calls < MaxCalls
    /\ tool \in Allowed(task)
    /\ tool = "list" /\ o = "FOUND" => task.entity # "ATTACHMENT"
    /\ calls' = calls + 1
    /\ capture' = [capture EXCEPT ![tool] = Captured(tool, o)]
    /\ Hear(tool, o)
    /\ IF tool = "play"
         THEN Plays(o) /\ evidence' = evidence \cup Reference(o)
         ELSE UNCHANGED <<playVars, evidence>>
    /\ Stay /\ UNCHANGED <<task, batchVars>>

\* The listing of an attachment task, with what it shows.
AgentLists(l) ==
    /\ at = "agent" /\ calls < MaxCalls
    /\ task.entity = "ATTACHMENT" /\ "list" \in Allowed(task)
    /\ calls' = calls + 1
    /\ capture' = [capture EXCEPT !["list"] = "FOUND"]
    /\ files' = l
    /\ Hear("list", "FOUND")
    /\ Stay /\ UNCHANGED <<task, chosen, got, evidence, playVars>>

\* Runner.run raises: the model's API, its turn limit, a timeout of a call.
AgentRaises ==
    /\ at = "agent"
    /\ Finish(Failed)
    /\ IF "play" \in Allowed(task) THEN Plays("garbled") ELSE UNCHANGED playVars
    /\ UNCHANGED <<task, agentVars, batchVars, heard>>

\* The Agent resolved a lecture and called no video tool: the handler does.
NeedsPlayback ==
    /\ task.action \in Controls
    /\ capture["play"] \in {"none", "garbled"} /\ capture["stop"] \in {"none", "garbled"}
    /\ capture["resolve"] = "FOUND"

\* The Agent listed attachments it has no tool to download.
NeedsDownload == task.action = "DOWNLOAD" /\ task.entity = "ATTACHMENT" /\ capture["list"] = "FOUND"

\* _expected_operation_guard and the choice of the final text after it: the
\* status of the tool result the operation ends with.
\* Mutant: a listing stands in for the details.
QueryStatusMutant ==
    LET e == task.entity
        semantic == capture["courseList"]
        raw == IF task.action = "DETAIL" /\ e \notin {"ATTACHMENT", "GRADE"}
                    /\ capture["details"] # "none"
                 THEN capture["details"] ELSE capture["list"]
    IN  IF semantic # "none" THEN Contract(semantic)
        ELSE IF raw = "none" THEN "FAILED" ELSE Contract(raw)

QueryStatus ==
    LET e == task.entity
        semantic == capture["courseList"]
        terminal ==
            IF e \in {"ATTACHMENT", "GRADE"}
              THEN IF e = "ATTACHMENT" /\ task.action = "DOWNLOAD" THEN "none" ELSE capture["list"]
            ELSE CASE task.action = "LIST" -> IF semantic # "none" THEN semantic ELSE capture["list"]
                   [] task.action = "DETAIL" ->
                        IF e \in {"ANNOUNCEMENT", "ASSIGNMENT"} /\ capture["details"] = "none"
                             /\ semantic # "FOUND"
                          THEN semantic ELSE capture["details"]
                   [] OTHER -> "none"
    IN  IF terminal = "none" THEN "FAILED" ELSE Contract(terminal)

\* _verified_playback_specialist_result
PlaybackResult(o, refs) == [Result(Contract(o)) EXCEPT !.playbacks = refs]

\* The result of a video task whose Agent run returned.
ControlResult ==
    CASE capture["play"] \notin {"none", "garbled"} -> PlaybackResult(capture["play"], evidence)
      [] capture["stop"] \notin {"none", "garbled"} -> Result(DirectContract(capture["stop"]))
      [] capture["resolve"] # "none" /\ capture["play"] = "none" -> Result(Contract(capture["resolve"]))
      [] OTHER -> Failed

\* The result of a query: its status and the listing that was shown.
QueryResult ==
    [Result(QueryStatus) EXCEPT
        !.listed = IF QueryStatus = "COMPLETED" /\ capture["list"] = "FOUND" THEN files ELSE <<>>]

\* Runner.run returns.  (Its final output, which the model wrote, is not used.)
AgentReturns ==
    /\ at = "agent"
    /\ IF NeedsPlayback THEN at' = "fallback" /\ UNCHANGED <<result, chosen>>
       ELSE IF NeedsDownload
         THEN LET selected == SelectForDownload(task.ordinal, task.query, files) IN
              /\ chosen' = selected
              /\ IF selected = <<>> THEN Finish([Failed EXCEPT !.listed = files])
                                    ELSE at' = "download" /\ UNCHANGED result
         ELSE /\ Finish(IF task.action \in Controls THEN ControlResult ELSE QueryResult)
              /\ UNCHANGED chosen
    /\ UNCHANGED <<task, agentVars, files, got, playVars, heard>>

\* The handler's own call of the video tool.
FallbackPlays(o) ==
    /\ at = "fallback"
    /\ Plays(o)
    /\ Hear("play", o)
    /\ Finish(IF o = "garbled" THEN Failed ELSE PlaybackResult(o, evidence \cup Reference(o)))
    /\ UNCHANGED <<task, agentVars, batchVars>>

-----------------------------------------------------------------------------
(* The direct routes.                                                      *)

\* _play_verified_lecture cannot resolve a target again without the name of
\* its course.
RefuseUnnamed ==
    /\ at = "unnamed"
    /\ Finish(Failed)
    /\ UNCHANGED <<task, agentVars, batchVars, playVars, heard>>

\* Mutant: whatever is found is played.
ResolveMutant(o) ==
    /\ at = "resolve"
    /\ Hear("resolve", o)
    /\ IF o \in {"FOUND", "OTHER"} THEN at' = "play" /\ UNCHANGED result
       ELSE Finish(Result(Contract(o)))
    /\ UNCHANGED <<task, agentVars, batchVars, playVars>>

\* _play_verified_lecture resolves the target again, and plays it only if what
\* it finds is still the lecture of the list.
Resolve(o) ==
    /\ at = "resolve"
    /\ Hear("resolve", o)
    /\ IF o = "FOUND" THEN at' = "play" /\ UNCHANGED result
       ELSE Finish(Result(Contract(o)))
    /\ UNCHANGED <<task, agentVars, batchVars, playVars>>

PlayTarget(o) ==
    /\ at = "play"
    /\ Hear("play", o)
    /\ Plays(o)
    /\ Finish(IF o = "garbled" THEN Failed ELSE PlaybackResult(o, Reference(o)))
    /\ UNCHANGED <<task, agentVars, batchVars>>

\* _get_verified_announcement_details
OpenAnnouncement(o) ==
    /\ at = "announcement"
    /\ Hear("details", o)
    /\ Finish(Result(DirectContract(o)))
    /\ UNCHANGED <<task, agentVars, batchVars, playVars>>

\* _get_verified_assignment_details: the details and the attachments are two
\* calls; without the second the details are shown alone.
OpenAssignment(o, files2, l) ==
    /\ at = "details"
    /\ heard' = heard \cup {<<"details", o>>, <<"list", files2>>}
    /\ Finish(IF files2 = "garbled" THEN Failed
              ELSE [Result(DirectContract(o)) EXCEPT
                      !.listed = IF o = "FOUND" /\ files2 = "FOUND" THEN l ELSE <<>>])
    /\ UNCHANGED <<task, agentVars, batchVars, playVars>>

\* _list_verified_assignment_attachments, and the first half of
\* _download_verified_assignment_attachments, where the ordinal has chosen the
\* assignment already.
ListFiles(o, l) ==
    /\ at = "list"
    /\ Hear("list", o)
    /\ files' = IF o = "FOUND" THEN l ELSE <<>>
    /\ IF o = "FOUND" /\ task.action = "DOWNLOAD"
         THEN LET selected == SelectForDownload(0, task.query, l) IN
              /\ chosen' = selected
              /\ IF selected = <<>> THEN Finish([Failed EXCEPT !.listed = l])
                                    ELSE at' = "download" /\ UNCHANGED result
         ELSE /\ Finish([Result(DirectContract(o)) EXCEPT !.listed = files'])
              /\ UNCHANGED chosen
    /\ UNCHANGED <<task, agentVars, got, playVars>>

\* Mutant: a batch that fails half-way keeps what it got.
DownloadMutant(o) ==
    /\ at = "download"
    /\ IF o = "FOUND"
         THEN /\ got' = got + 1
              /\ IF got + 1 = Len(chosen)
                   THEN Finish([Result("COMPLETED") EXCEPT !.downloads = chosen, !.listed = files])
                   ELSE Stay
         ELSE /\ Finish([Result(DirectContract(o)) EXCEPT !.downloads = SubSeq(chosen, 1, got)])
              /\ UNCHANGED got
    /\ UNCHANGED <<task, agentVars, files, chosen, playVars, heard>>

\* One download_attachment call of _download_verified_attachment(s): the first
\* failure ends the batch.
Download(o) ==
    /\ at = "download"
    /\ IF o = "FOUND"
         THEN /\ got' = got + 1
              /\ IF got + 1 = Len(chosen)
                   THEN Finish([Result("COMPLETED") EXCEPT !.downloads = chosen, !.listed = files])
                   ELSE Stay
         ELSE /\ Finish(Result(DirectContract(o)))
              /\ UNCHANGED got
    /\ UNCHANGED <<task, agentVars, files, chosen, playVars, heard>>

-----------------------------------------------------------------------------
DirectStep ==
    \/ RefuseUnnamed
    \/ \E o \in Answers \cup {"OTHER"} : Resolve(o)
    \/ \E o \in Answers : PlayTarget(o)
    \/ \E o \in Answers : OpenAnnouncement(o)
    \/ \E o, p \in Answers, l \in Listings : OpenAssignment(o, p, l)
    \/ \E o \in Answers, l \in Listings : ListFiles(o, l)
    \/ \E o \in Answers \cup {"OTHER"} : Download(o)

AgentStep ==
    \/ \E tool \in Tools, o \in Answers : AgentCalls(tool, o)
    \/ \E l \in Listings : AgentLists(l)
    \/ AgentRaises
    \/ AgentReturns
    \/ \E o \in Answers : FallbackPlays(o)

\* The runtime goes on with the result.
Done == at = "done" /\ UNCHANGED vars

Next == DirectStep \/ AgentStep \/ Done

\* Every await of the handler ends: a tool call times out after 180 s and the
\* Agent has a limit of turns.
Spec == Init /\ [][Next]_vars /\ WF_vars(DirectStep) /\ WF_vars(AgentStep)

-----------------------------------------------------------------------------
(* Properties.                                                             *)

\* The tool answers that can complete a task.
Earns(t) ==
    LET Good == {"FOUND", "NOT_FOUND", "AMBIGUOUS"} IN
    CASE t.action = "LIST" -> {"list", "courseList"} \X Good
      [] t.action = "DETAIL" ->
           (IF t.entity \in {"ATTACHMENT", "GRADE"} THEN {"list"} ELSE {"details"}) \X Good
           \cup {"courseList"} \X {"NOT_FOUND", "AMBIGUOUS"}
      [] t.action = "DOWNLOAD" -> {<<"list", "FOUND">>}
      [] t.action = "STOP" -> {<<"stop", "FOUND">>}
      [] OTHER -> {"play"} \X Good \cup {"resolve"} \X {"NOT_FOUND", "AMBIGUOUS"}

\* A result is never better than what the tools said: COMPLETED needs the
\* answer the task asked for, not an intermediate listing, and AUTH_REQUIRED
\* a tool that said so, whatever the Agent called, in whatever order, and
\* claimed at the end.
StatusIsEarned ==
    /\ result.status = "COMPLETED" /\ task.target # "files" => heard \cap Earns(task) # {}
    /\ result.status = "AUTH_REQUIRED" /\ task.action # "DOWNLOAD" =>
         \E tool \in Tools : <<tool, "AUTH_REQUIRED">> \in heard

\* A completed download has every chosen attachment, each once, in the order of
\* the list; a file the user named by a name nothing
\* matches is not replaced by another.
BatchIsWhole ==
    /\ result.status = "COMPLETED" /\ task.action = "DOWNLOAD" =>
         /\ got = Len(chosen) /\ result.downloads = chosen /\ Sound(chosen)
         /\ task.target # "files" =>
              \A i, j \in DOMAIN chosen : i < j =>
                 \E k, m \in DOMAIN files : k < m /\ files[k] = chosen[i] /\ files[m] = chosen[j]
    /\ task.query.filename /\ (task.ordinal = 0 \/ task.target = "assignment") =>
         ToSet(chosen) \subseteq task.query.matches

\* A completed step hides no playback: each one the server answered for is
\* among its references, by which F2 can stop it, whatever the Agent called
\* before and after it.
PlaybacksAreKnown == result.status = "COMPLETED" => result.playbacks = (1..plays) \ lost

\* A verified target plays at most once, and only as that target: no window
\* opens for a task whose target could not be confirmed, and none is left
\* without a reference but the one whose answer was lost.
TargetPlaysOnce ==
    task.target \in {"lecture", "unnamedLecture"} =>
        /\ plays <= 1
        /\ plays = 1 => <<"resolve", "FOUND">> \in heard /\ (result.status = "COMPLETED" \/ lost = {1})

\* Types, no playback that cannot be stopped, no target played twice or as
\* something else.
EclassStepInv == TypeOK /\ PlaybacksAreKnown /\ TargetPlaysOnce

\* The step is one answer the runtime may rely on, and it is given.
Contracted == INSTANCE SpecialistStep WITH
    answered <- at = "done", status <- result.status,
    downloads <- result.downloads, listed <- result.listed
IsOneAnswer == Contracted!Spec
=============================================================================
