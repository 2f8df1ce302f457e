----------------------------- MODULE EclassRead -----------------------------
(***************************************************************************)
(* The read service of the E-Class MCP server (services/eclass_read.py)    *)
(* over its adapter (adapters/hansung_playwright.py): concurrent tool      *)
(* calls, each a sequence of adapter operations, one operation at a time   *)
(* under the user's lock.  Between two operations of a call other calls    *)
(* run, E-Class moves on to its next default term and lectures appear.     *)
(*                                                                         *)
(* The service remembers two things: the term of the last course list, for *)
(* a call that names a course by id and leaves out its term, and the       *)
(* lectures it has verified, under references that playing asks for.       *)
(* How an operation gets a session and when it fails is in Session.        *)
(***************************************************************************)
EXTENDS Naturals, Sequences, FiniteSets

CONSTANTS
    Calls,        \* tool calls; a reference is named by the call that issued it
    Terms, Courses, Lectures, CourseQueries, TitleQueries,
    Enrolled,     \* per term: the courses its list shows
    CourseOf,     \* per lecture: its course
    CourseScore,  \* per query and course: how well the name fits, 0 for not at all
    TitleScore,   \* per query and lecture: likewise
    Requests,     \* what is asked, see AllRequests
    Parts,        \* the areas a snapshot reads after the courses (the code has four)
    Ttl,          \* how long a reference can be played
    MaxTime, MaxRestarts,   \* bounds
    None

ASSUME WorldAssumption ==
    /\ Enrolled \in [Terms -> SUBSET Courses]
    /\ CourseOf \in [Lectures -> Courses]
    /\ CourseScore \in [CourseQueries -> [Courses -> Nat]]
    /\ TitleScore \in [TitleQueries -> [Lectures -> Nat]]
    /\ IsFiniteSet(Courses) /\ IsFiniteSet(Lectures)
    /\ None \notin Terms \cup Courses \cup Lectures \cup TitleQueries \cup Calls
ASSUME NumbersAssumption ==
    Parts \in Nat \ {0} /\ Ttl \in Nat \ {0} /\ MaxTime \in Nat /\ MaxRestarts \in Nat

(***************************************************************************)
(* The requests.  A term is None when the caller leaves it out, and "bad"  *)
(* when it gives a year without a semester or one out of range; a title is *)
(* None when it is left out, and "bad" when it is blank or too long.       *)
(***************************************************************************)
TermArgs == Terms \cup {None, "bad"}
TitleArgs == TitleQueries \cup {None, "bad"}
Request(kind, query, title, course, term, ref) ==
    [kind |-> kind, query |-> query, title |-> title, course |-> course, term |-> term, ref |-> ref]
NoRequest == Request("none", None, None, None, None, None)

\* The kinds of call; "assignments" and "items" name a course by its id, or none.
\* Of the calls "byName" only list_course_assignments has a title.
AllRequests ==
    {Request("courses", None, None, None, t, None) : t \in TermArgs}
    \cup {Request("snapshot", None, None, None, None, None)}
    \cup {Request("items", None, None, c, t, None) : c \in Courses \cup {None}, t \in TermArgs}
    \cup {Request("assignments", None, x, c, t, None) :
              x \in TitleArgs, c \in Courses \cup {None}, t \in TermArgs}
    \cup {Request(kind, q, x, None, t, None) :
              kind \in {"byName", "lecture"}, q \in CourseQueries, x \in TitleArgs, t \in TermArgs}
    \cup {Request("play", None, None, None, None, r) : r \in Calls}

ASSUME RequestsAssumption == Requests \subseteq AllRequests

VARIABLES
    now, default, published,   \* the clock; what E-Class shows
    lastTerm,     \* _last_course_lookup_term
    verified,     \* _verified_lecture_targets: per reference a target or NoTarget
    lock,         \* the user's lock
    pc, request,  \* per call: the next operation, and what was asked
    scope,        \* per call: the course and term it works in, and the last term before it
    parts,        \* per snapshot: the terms its areas came from, in order
    answer,       \* per call
    issued, played,            \* every reference issued; every lecture started
    failed, restarts           \* calls with a failed operation; server restarts

eclass == <<now, default, published>>
memory == <<lastTerm, verified>>
call   == <<pc, request, scope, parts, answer>>
vars   == <<eclass, memory, lock, call, issued, played, failed, restarts>>

NoScope == [course |-> None, term |-> None, recent |-> None]
NoTarget == [lecture |-> None, expires |-> 0]
Outcome(status, course, term) == [status |-> status, course |-> course, term |-> term]
NoAnswer == Outcome("none", None, None)
Statuses == {"none", "FOUND", "NOT_FOUND", "AMBIGUOUS", "INVALID_REQUEST", "FAILED"}

TypeOK ==
    /\ now \in 0 .. MaxTime /\ default \in Terms /\ published \subseteq Lectures
    /\ lastTerm \in Terms \cup {None}
    /\ verified \in [Calls -> [lecture : Lectures \cup {None}, expires : 0 .. MaxTime + Ttl]]
    /\ lock \in Calls \cup {None}
    /\ pc \in [Calls -> {"idle", "courses", "resolve", "list", "snapshot", "play", "done"}]
    /\ request \in [Calls -> Requests \cup {NoRequest}]
    /\ scope \in [Calls -> [course : Courses \cup {None}, term : TermArgs,
                            recent : Terms \cup {None}]]
    /\ \A c \in Calls : Len(parts[c]) <= Parts + 1
    /\ answer \in [Calls -> [status : Statuses, course : Courses \cup {None},
                             term : Terms \cup {None}]]
    /\ failed \subseteq Calls /\ restarts \in 0 .. MaxRestarts

Init ==
    /\ now = 0 /\ default \in Terms /\ published \in SUBSET Lectures
    /\ lastTerm = None /\ verified = [c \in Calls |-> NoTarget]
    /\ lock = None
    /\ pc = [c \in Calls |-> "idle"]
    /\ request = [c \in Calls |-> NoRequest]
    /\ scope = [c \in Calls |-> NoScope]
    /\ parts = [c \in Calls |-> <<>>]
    /\ answer = [c \in Calls |-> NoAnswer]
    /\ issued = {} /\ played = {} /\ failed = {} /\ restarts = 0

(***************************************************************************)
(* Matching a name: of the best score there may be one candidate, none, or *)
(* several, and several are never narrowed down by chance.  A score of at  *)
(* least 100 is a match in order of letters; a mere similarity below that  *)
(* counts as equal to the best one if it is within 4.                      *)
(***************************************************************************)
Tolerance(best) == IF best < 100 THEN 4 ELSE 0
Best(score, S) ==
    {x \in S : score[x] > 0 /\ \A y \in S : score[y] <= score[x] + Tolerance(score[y])}

\* The adapter reads the term it is given, or the one E-Class has selected.
TermRead(arg) == IF arg = None THEN default ELSE arg

\* _inherit_course_lookup_term: only list_assignments takes over the last list's term.
TermAsked(r) ==
    IF r.kind = "assignments" /\ r.course # None /\ r.term = None THEN lastTerm ELSE r.term

Reply(c, outcome) ==
    /\ answer' = [answer EXCEPT ![c] = outcome]
    /\ pc' = [pc EXCEPT ![c] = "done"]
    /\ UNCHANGED request

(***************************************************************************)
(* A tool call arrives.  What needs no adapter is answered at once: a bad  *)
(* term, a bad title of a lecture (that of an assignment is looked at when *)
(* the list is there), and a playing request, which only looks up its      *)
(* reference.                                                              *)
(***************************************************************************)
FirstOperation(r) ==
    CASE r.kind = "courses" -> "courses"
      [] r.kind \in {"assignments", "items"} -> "list"
      [] r.kind \in {"byName", "lecture"} -> "resolve"
      [] OTHER -> r.kind

Refused(r) == r.term = "bad" \/ (r.kind = "lecture" /\ r.title = "bad")

Ask(c, r) ==
    /\ pc[c] = "idle"
    /\ request' = [request EXCEPT ![c] = r]
    /\ scope' = [scope EXCEPT ![c] =
                   [course |-> r.course, term |-> TermAsked(r), recent |-> lastTerm]]
    /\ IF Refused(r)
       THEN /\ answer' = [answer EXCEPT ![c] = Outcome("INVALID_REQUEST", None, None)]
            /\ pc' = [pc EXCEPT ![c] = "done"]
       ELSE /\ pc' = [pc EXCEPT ![c] = FirstOperation(r)]
            /\ UNCHANGED answer
    /\ UNCHANGED <<eclass, memory, lock, parts, issued, played, failed, restarts>>

(***************************************************************************)
(* An operation fails: the session, the page's structure, the network.     *)
(***************************************************************************)
OperationFails(c) ==
    /\ pc[c] \in {"courses", "resolve", "list", "snapshot"}
    /\ lock \in {None, c}
    /\ lock' = None
    /\ failed' = failed \cup {c}
    /\ Reply(c, Outcome("FAILED", None, None))
    /\ UNCHANGED <<eclass, memory, scope, parts, issued, played, restarts>>

\* list_courses: whatever it is asked for, its term is remembered.
ListCourses(c) ==
    /\ pc[c] = "courses" /\ lock = None
    /\ LET t == TermRead(scope[c].term)
       IN  lastTerm' = t /\ Reply(c, Outcome("FOUND", None, t))
    /\ UNCHANGED <<eclass, verified, lock, scope, parts, issued, played, failed, restarts>>

(***************************************************************************)
(* resolve_course, first half of every call that names its course: the     *)
(* operation that follows is told the term of the list just read.          *)
(***************************************************************************)
ResolveCourse(c) ==
    /\ pc[c] = "resolve" /\ lock = None
    /\ LET t == TermRead(scope[c].term)
           matches == Best(CourseScore[request[c].query], Enrolled[t])
       IN  /\ lastTerm' = t
           /\ \/ /\ matches = {}
                 /\ Reply(c, Outcome("NOT_FOUND", None, t)) /\ UNCHANGED scope
              \/ /\ Cardinality(matches) > 1
                 /\ Reply(c, Outcome("AMBIGUOUS", None, t)) /\ UNCHANGED scope
              \/ \E course \in matches :
                 /\ matches = {course}
                 /\ scope' = [scope EXCEPT ![c].course = course, ![c].term = t]
                 /\ pc' = [pc EXCEPT ![c] = "list"]
                 /\ UNCHANGED <<request, answer>>
    /\ UNCHANGED <<eclass, verified, lock, parts, issued, played, failed, restarts>>

\* The adapter lists all courses, or one if its term's course list shows it.
Shown(c) == scope[c].course \in Enrolled[TermRead(scope[c].term)] \cup {None}

\* Of a course found by name an empty choice of its assignments is NOT_FOUND.
ListItems(c) ==
    /\ pc[c] = "list" /\ lock = None /\ request[c].kind # "lecture"
    /\ LET t == TermRead(scope[c].term)
           course == scope[c].course
           title == request[c].title
       IN  \/ ~Shown(c) /\ Reply(c, Outcome("NOT_FOUND", None, None))
           \/ Shown(c) /\ title = "bad" /\ Reply(c, Outcome("INVALID_REQUEST", None, None))
           \/ Shown(c) /\ title # "bad" /\ Reply(c, Outcome("FOUND", course, t))
           \/ /\ Shown(c) /\ request[c].kind = "byName" /\ title \notin {None, "bad"}
              /\ Reply(c, Outcome("NOT_FOUND", course, t))
    /\ UNCHANGED <<eclass, memory, lock, scope, parts, issued, played, failed, restarts>>

(***************************************************************************)
(* resolve_lecture: exactly one candidate gets a reference.  References    *)
(* that are over are forgotten on the way.                                 *)
(***************************************************************************)
Pruned == [r \in Calls |-> IF verified[r].expires <= now THEN NoTarget ELSE verified[r]]

Candidates(c) ==
    LET listed == {x \in published : CourseOf[x] = scope[c].course}
        title == request[c].title
    IN  IF title = None THEN listed ELSE Best(TitleScore[title], listed)

\* Mutant: of several matches one is taken.
ResolveLectureMutant(c) ==
    /\ pc[c] = "list" /\ lock = None /\ request[c].kind = "lecture"
    /\ LET found == IF Shown(c) THEN Candidates(c) ELSE {}
       IN  \/ /\ found = {}
              /\ Reply(c, Outcome("NOT_FOUND", None, None))
              /\ UNCHANGED <<verified, issued>>
           \/ /\ found # {}
              /\ LET x == CHOOSE y \in found : TRUE
                 IN  verified' = [Pruned EXCEPT ![c] = [lecture |-> x, expires |-> now + Ttl]]
              /\ issued' = issued \cup {[ref |-> c, among |-> found, at |-> now]}
              /\ Reply(c, Outcome("FOUND", scope[c].course, TermRead(scope[c].term)))
    /\ UNCHANGED <<eclass, lastTerm, lock, scope, parts, played, failed, restarts>>

ResolveLecture(c) ==
    /\ pc[c] = "list" /\ lock = None /\ request[c].kind = "lecture"
    /\ LET t == TermRead(scope[c].term)
           course == scope[c].course
           found == IF Shown(c) THEN Candidates(c) ELSE {}
       IN  \/ /\ found = {}
              /\ Reply(c, Outcome("NOT_FOUND", None, None))
              /\ UNCHANGED <<verified, issued>>
           \/ /\ Cardinality(found) > 1
              /\ Reply(c, Outcome("AMBIGUOUS", course, t))
              /\ UNCHANGED <<verified, issued>>
           \/ \E x \in found :
              /\ found = {x}
              /\ verified' = [Pruned EXCEPT ![c] = [lecture |-> x, expires |-> now + Ttl]]
              /\ issued' = issued \cup {[ref |-> c, among |-> found, at |-> now]}
              /\ Reply(c, Outcome("FOUND", course, t))
    /\ UNCHANGED <<eclass, lastTerm, lock, scope, parts, played, failed, restarts>>

(***************************************************************************)
(* get_dashboard_snapshot holds the lock throughout: the courses of the    *)
(* default term, then the other areas, each asked for that term.           *)
(***************************************************************************)
SnapshotCourses(c) ==
    /\ pc[c] = "snapshot" /\ lock = None
    /\ lock' = c
    /\ scope' = [scope EXCEPT ![c].term = TermRead(None)]
    /\ parts' = [parts EXCEPT ![c] = <<TermRead(None)>>]
    /\ UNCHANGED <<eclass, memory, pc, request, answer, issued, played, failed, restarts>>

\* Mutant: each area is read in the term E-Class selects.
SnapshotPartMutant(c) ==
    /\ pc[c] = "snapshot" /\ lock = c /\ Len(parts[c]) <= Parts
    /\ parts' = [parts EXCEPT ![c] = Append(@, TermRead(None))]
    /\ UNCHANGED <<eclass, memory, lock, pc, request, scope, answer, issued, played, failed,
                   restarts>>

SnapshotPart(c) ==
    /\ pc[c] = "snapshot" /\ lock = c /\ Len(parts[c]) <= Parts
    /\ parts' = [parts EXCEPT ![c] = Append(@, TermRead(scope[c].term))]
    /\ UNCHANGED <<eclass, memory, lock, pc, request, scope, answer, issued, played, failed,
                   restarts>>

OneTerm(s) == \A i \in 1 .. Len(s) : s[i] = s[1]

SnapshotDone(c) ==
    /\ pc[c] = "snapshot" /\ lock = c /\ Len(parts[c]) = Parts + 1
    /\ lock' = None
    /\ IF OneTerm(parts[c])
       THEN Reply(c, Outcome("FOUND", None, parts[c][1])) /\ lastTerm' = parts[c][1]
       ELSE Reply(c, Outcome("FAILED", None, None)) /\ UNCHANGED lastTerm
    /\ UNCHANGED <<eclass, verified, scope, parts, issued, played, failed, restarts>>

\* play_resolved_lecture: only a reference that is not over is played.
Play(c) ==
    /\ pc[c] = "play"
    /\ verified' = Pruned
    /\ LET target == Pruned[request[c].ref]
       IN  IF target = NoTarget
           THEN Reply(c, Outcome("NOT_FOUND", None, None)) /\ UNCHANGED played
           ELSE /\ Reply(c, Outcome("FOUND", None, None))
                /\ played' = played \cup
                     {[ref |-> request[c].ref, lecture |-> target.lecture, at |-> now]}
    /\ UNCHANGED <<eclass, lastTerm, lock, scope, parts, issued, failed, restarts>>

(***************************************************************************)
(* The environment: time passes, E-Class selects another term by default,  *)
(* a lecture is published or withdrawn, the server is started anew.        *)
(***************************************************************************)
Tick ==
    /\ now < MaxTime
    /\ now' = now + 1
    /\ UNCHANGED <<default, published, memory, lock, call, issued, played, failed, restarts>>

NextTerm ==
    /\ \E t \in Terms \ {default} : default' = t
    /\ UNCHANGED <<now, published, memory, lock, call, issued, played, failed, restarts>>

Publish ==
    /\ \E x \in Lectures : published' \in {published \cup {x}, published \ {x}}
    /\ UNCHANGED <<now, default, memory, lock, call, issued, played, failed, restarts>>

Restart ==
    /\ restarts < MaxRestarts
    /\ restarts' = restarts + 1
    /\ lastTerm' = None /\ verified' = [c \in Calls |-> NoTarget]
    /\ lock' = None
    /\ pc' = [c \in Calls |-> IF pc[c] = "idle" THEN "idle" ELSE "done"]
    /\ UNCHANGED <<eclass, request, scope, parts, answer, issued, played, failed>>

Step(c) ==
    \/ OperationFails(c) \/ ListCourses(c) \/ ResolveCourse(c) \/ ListItems(c)
    \/ ResolveLecture(c) \/ SnapshotCourses(c) \/ SnapshotPart(c) \/ SnapshotDone(c) \/ Play(c)

Next ==
    \/ \E c \in Calls : (\E r \in Requests : Ask(c, r)) \/ Step(c)
    \/ Tick \/ NextTerm \/ Publish \/ Restart

Spec == Init /\ [][Next]_vars

----------------------------------------------------------------------------
(***************************************************************************)
(* A course that was found by name is listed in the term it was found in,  *)
(* also if E-Class selects another one meanwhile: the second half of the   *)
(* call does not lose the course.  What may be missing is an assignment    *)
(* of the title asked for, and the answer still shows the course.          *)
(***************************************************************************)
NamedCourseIsListed ==
    \A c \in Calls :
        LET title == request[c].title
            course == scope[c].course
        IN  /\ request[c].kind = "byName" /\ course # None
            /\ answer[c] # NoAnswer /\ c \notin failed
            => \/ answer[c].status = "FOUND" /\ title # "bad" /\ answer[c].course = course
               \/ answer[c].status = "NOT_FOUND" /\ title # None /\ answer[c].course = course
               \/ answer[c].status = "INVALID_REQUEST" /\ title = "bad"

(***************************************************************************)
(* A course shown by the last course list is found again by its id without *)
(* its term: assignments are not looked for in the default term.           *)
(***************************************************************************)
FollowUpKeepsTerm ==
    \A c \in Calls :
        LET r == request[c]
        IN  /\ r.kind = "assignments" /\ r.term = None /\ scope[c].recent # None
            /\ r.course \in Enrolled[scope[c].recent]
            => answer[c].status # "NOT_FOUND"

(***************************************************************************)
(* What is played was the only match when its reference was issued, and    *)
(* the reference was not over: neither a second match nor the lapse of     *)
(* time nor a new server makes another lecture of it.                      *)
(***************************************************************************)
PlayedWasResolved ==
    \A p \in played : \E i \in issued :
        i.ref = p.ref /\ i.among = {p.lecture} /\ p.at < i.at + Ttl

(***************************************************************************)
(* A snapshot fails only if one of its operations does: a change of the    *)
(* default term while it is being collected does not spoil it.             *)
(***************************************************************************)
SnapshotKeepsTerm ==
    \A c \in Calls :
        request[c].kind = "snapshot" /\ answer[c].status = "FAILED" => c \in failed

(***************************************************************************)
(* Types, and one term for all the operations of a call: of one that names *)
(* its course, of a follow-up by id, and of a snapshot.                    *)
(***************************************************************************)
EclassReadInv == TypeOK /\ NamedCourseIsListed /\ FollowUpKeepsTerm /\ SnapshotKeepsTerm
=============================================================================
