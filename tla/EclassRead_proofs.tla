------------------------- MODULE EclassRead_proofs --------------------------
(***************************************************************************)
(* Proofs about EclassRead, for any terms, courses, lectures and scores,   *)
(* any calls and any requests of the kinds there are.                      *)
(***************************************************************************)
EXTENDS EclassRead, TLAPS

\* Until it is done a call has no answer; each operation is one of its kind.
CallInv ==
    \A c \in Calls :
        /\ pc[c] # "done" => answer[c] = NoAnswer
        /\ pc[c] \in {"courses", "resolve", "list", "snapshot"} =>
              scope[c].term \in Terms \cup {None}
        /\ pc[c] = "play" => request[c].ref \in Calls
        /\ pc[c] = "idle" => request[c] = NoRequest
        /\ pc[c] \in {"courses", "snapshot", "play"} => request[c].kind = pc[c]
        /\ pc[c] = "resolve" => request[c].kind \in {"byName", "lecture"}
        /\ pc[c] = "list" => request[c].kind \in {"assignments", "items", "byName", "lecture"}

\* The course that a call by name works with is in the list of its term.
NamedInv ==
    \A c \in Calls : request[c].kind = "byName" =>
        /\ pc[c] = "resolve" => scope[c].course = None
        /\ pc[c] = "list" => /\ scope[c].course \in Courses /\ scope[c].term \in Terms
                             /\ scope[c].course \in Enrolled[scope[c].term]

\* A follow-up by id without a term looks in the term of the list before it.
FollowUpInv ==
    \A c \in Calls :
        LET r == request[c]
        IN  /\ r.kind = "assignments" /\ r.term = None /\ r.course # None
            /\ pc[c] = "list"
            => scope[c].course = r.course /\ scope[c].term = scope[c].recent

\* The lock is a snapshot's; what it has read so far is of its one term.
SnapshotInv ==
    /\ parts \in [Calls -> Seq(Terms)]
    /\ lock # None => pc[lock] = "snapshot"
    /\ \A c \in Calls : lock = c =>
          /\ Len(parts[c]) >= 1 /\ scope[c].term \in Terms
          /\ \A i \in 1 .. Len(parts[c]) : parts[c][i] = scope[c].term

\* What was issued, and what is remembered of it.
ReferenceInv ==
    /\ \A i \in issued : i.at \in Nat
    /\ \A r \in Calls : verified[r] # NoTarget =>
          \E i \in issued : /\ i.ref = r /\ i.among = {verified[r].lecture}
                            /\ verified[r].expires = i.at + Ttl

IInv ==
    /\ TypeOK /\ CallInv /\ NamedInv /\ FollowUpInv /\ SnapshotInv /\ ReferenceInv
    /\ NamedCourseIsListed /\ FollowUpKeepsTerm /\ SnapshotKeepsTerm /\ PlayedWasResolved

-----------------------------------------------------------------------------
(* Operators.                                                              *)

\* What the requests of each kind name.
LEMMA RequestFields ==
    ASSUME NEW r \in Requests
    PROVE  /\ r.course \in Courses \cup {None} /\ r.term \in TermArgs
           /\ r.kind \in {"courses", "snapshot", "assignments", "items", "byName", "lecture", "play"}
           /\ r.kind \in {"byName", "lecture"} => r.course = None
           /\ r.kind = "play" => r.ref \in Calls
BY RequestsAssumption DEF AllRequests, Request, TermArgs, TitleArgs

LEMMA FirstOperations ==
    ASSUME NEW r \in Requests
    PROVE  /\ FirstOperation(r) \in {"courses", "resolve", "list", "snapshot", "play"}
           /\ FirstOperation(r) \in {"courses", "snapshot", "play"} => r.kind = FirstOperation(r)
           /\ FirstOperation(r) = "resolve" <=> r.kind \in {"byName", "lecture"}
           /\ FirstOperation(r) = "list" => r.kind \in {"assignments", "items"}
BY RequestFields DEF FirstOperation

Answers == [status : Statuses, course : Courses \cup {None}, term : Terms \cup {None}]

LEMMA OutcomeType ==
    ASSUME NEW status \in Statuses, NEW course \in Courses \cup {None}, NEW term \in Terms \cup {None}
    PROVE  Outcome(status, course, term) \in Answers
BY DEF Outcome, Answers

\* A call is answered.
LEMMA ReplyType ==
    ASSUME IInv, NEW c \in Calls, NEW status \in Statuses, NEW course \in Courses \cup {None},
           NEW term \in Terms \cup {None}, answer' = [answer EXCEPT ![c] = Outcome(status, course, term)]
    PROVE  answer' \in [Calls -> [status : Statuses, course : Courses \cup {None},
                                 term : Terms \cup {None}]]
<1>1. answer \in [Calls -> Answers]
  BY DEF IInv, TypeOK, Answers
<1>2. answer' \in [Calls -> Answers]
  BY <1>1, OutcomeType
<1> QED
  BY <1>2 DEF Answers

\* Matching only selects.
LEMMA BestSelects ==
    ASSUME NEW score, NEW S
    PROVE  Best(score, S) \subseteq S
BY DEF Best

LEMMA Reads ==
    ASSUME IInv, NEW arg \in Terms \cup {None}
    PROVE  /\ TermRead(arg) \in Terms
           /\ arg \in Terms => TermRead(arg) = arg
           /\ None \notin Terms
BY WorldAssumption DEF TermRead, IInv, TypeOK

-----------------------------------------------------------------------------
(* A call arrives, and fails.                                              *)

LEMMA AskKeeps ==
    ASSUME IInv, NEW c \in Calls, NEW r \in Requests, Ask(c, r)
    PROVE  IInv'
<1> USE DEF IInv, eclass, memory, call
<1>1. /\ pc[c] = "idle" /\ request' = [request EXCEPT ![c] = r]
      /\ scope' = [scope EXCEPT ![c] =
                     [course |-> r.course, term |-> TermAsked(r), recent |-> lastTerm]]
      /\ UNCHANGED <<now, default, published, lastTerm, verified, lock, parts, issued, played,
                     failed, restarts>>
  BY DEF Ask
<1>2. \/ /\ Refused(r) /\ answer' = [answer EXCEPT ![c] = Outcome("INVALID_REQUEST", None, None)]
         /\ pc' = [pc EXCEPT ![c] = "done"]
      \/ /\ r.term # "bad" /\ answer' = answer /\ pc' = [pc EXCEPT ![c] = FirstOperation(r)]
  BY DEF Ask, Refused
<1>3. /\ TermAsked(r) \in TermArgs
      /\ r.term # "bad" => TermAsked(r) \in Terms \cup {None}
      /\ r.kind = "assignments" /\ r.course # None /\ r.term = None => TermAsked(r) = lastTerm
  BY RequestFields DEF TermAsked, TypeOK, TermArgs
<1>4. TypeOK'
  <2>1. scope' \in [Calls -> [course : Courses \cup {None}, term : TermArgs,
                               recent : Terms \cup {None}]]
    BY <1>1, <1>3, RequestFields DEF TypeOK
  <2>2. /\ pc' \in [Calls -> {"idle", "courses", "resolve", "list", "snapshot", "play", "done"}]
        /\ request' \in [Calls -> Requests \cup {NoRequest}]
    BY <1>1, <1>2, FirstOperations DEF TypeOK
  <2>3. answer' \in [Calls -> [status : Statuses, course : Courses \cup {None},
                               term : Terms \cup {None}]]
    <3>1. CASE answer' = answer
      BY <3>1 DEF TypeOK
    <3>2. "INVALID_REQUEST" \in Statuses
      BY DEF Statuses
    <3> QED
      BY <1>2, <3>1, <3>2, ReplyType
  <2> QED
    BY <1>1, <2>1, <2>2, <2>3 DEF TypeOK
<1>5. CallInv'
  <2> SUFFICES ASSUME NEW a \in Calls
               PROVE  /\ pc'[a] # "done" => answer'[a] = NoAnswer
                      /\ pc'[a] \in {"courses", "resolve", "list", "snapshot"} =>
                            scope'[a].term \in Terms \cup {None}
                      /\ pc'[a] = "play" => request'[a].ref \in Calls
                      /\ pc'[a] = "idle" => request'[a] = NoRequest
                      /\ pc'[a] \in {"courses", "snapshot", "play"} => request'[a].kind = pc'[a]
                      /\ pc'[a] = "resolve" => request'[a].kind \in {"byName", "lecture"}
                      /\ pc'[a] = "list" =>
                            request'[a].kind \in {"assignments", "items", "byName", "lecture"}
    BY DEF CallInv
  <2>1. CASE a = c
    BY <1>1, <1>2, <1>3, <2>1, FirstOperations, RequestFields DEF CallInv, TypeOK
  <2>2. CASE a # c
    BY <1>1, <1>2, <2>2 DEF CallInv, TypeOK
  <2> QED
    BY <2>1, <2>2
<1>6. NamedInv' /\ NamedCourseIsListed'
  BY <1>1, <1>2, RequestFields, FirstOperations DEF NamedInv, NamedCourseIsListed, TypeOK
<1>7. FollowUpInv'
  BY <1>1, <1>2, <1>3 DEF FollowUpInv, TypeOK
<1>8. FollowUpKeepsTerm' /\ SnapshotKeepsTerm'
  <2>1. \A a \in Calls : /\ answer'[a] = answer[a] \/ answer'[a].status = "INVALID_REQUEST"
                         /\ a # c => request'[a] = request[a] /\ scope'[a] = scope[a]
    BY <1>1, <1>2 DEF TypeOK, Outcome
  <2>2. answer[c].status = "none"
    BY <1>1 DEF CallInv, NoAnswer, Outcome
  <2>3. FollowUpKeepsTerm'
    BY <2>1, <2>2 DEF FollowUpKeepsTerm
  <2>4. SnapshotKeepsTerm'
    BY <1>1, <2>1, <2>2 DEF SnapshotKeepsTerm
  <2> QED
    BY <2>3, <2>4
<1>9. SnapshotInv'
  <2>1. lock # c
    BY <1>1, WorldAssumption DEF SnapshotInv
  <2> QED
    BY <1>1, <1>2, <2>1 DEF SnapshotInv, TypeOK
<1>10. ReferenceInv' /\ PlayedWasResolved'
  BY <1>1 DEF ReferenceInv, PlayedWasResolved
<1> QED
  BY <1>4, <1>5, <1>6, <1>7, <1>8, <1>9, <1>10

LEMMA OperationFailsKeeps ==
    ASSUME IInv, NEW c \in Calls, OperationFails(c)
    PROVE  IInv'
<1> USE DEF IInv, eclass, memory, OperationFails, Reply
<1>1. TypeOK'
  BY DEF TypeOK, Outcome, Statuses
<1>2. CallInv' /\ NamedInv' /\ FollowUpInv'
  BY DEF CallInv, NamedInv, FollowUpInv, TypeOK
<1>3. NamedCourseIsListed' /\ SnapshotKeepsTerm'
  BY DEF NamedCourseIsListed, SnapshotKeepsTerm, TypeOK
<1>4. FollowUpKeepsTerm'
  BY DEF FollowUpKeepsTerm, TypeOK, Outcome
<1>5. SnapshotInv'
  BY WorldAssumption DEF SnapshotInv
<1>6. ReferenceInv' /\ PlayedWasResolved'
  BY DEF ReferenceInv, PlayedWasResolved
<1> QED
  BY <1>1, <1>2, <1>3, <1>4, <1>5, <1>6

-----------------------------------------------------------------------------
(* The operations.                                                         *)

LEMMA ListCoursesKeeps ==
    ASSUME IInv, NEW c \in Calls, ListCourses(c)
    PROVE  IInv'
<1> USE DEF IInv, eclass, memory, ListCourses, Reply
<1> DEFINE t == TermRead(scope[c].term)
<1>1. t \in Terms
  BY Reads DEF CallInv
<1>2. TypeOK'
  <2>1. "FOUND" \in Statuses
    BY DEF Statuses
  <2>2. answer' \in [Calls -> [status : Statuses, course : Courses \cup {None},
                               term : Terms \cup {None}]]
    BY <1>1, <2>1, ReplyType
  <2> QED
    BY <1>1, <2>2 DEF TypeOK
<1>3. CallInv' /\ NamedInv' /\ FollowUpInv'
  BY DEF CallInv, NamedInv, FollowUpInv, TypeOK
<1>4. NamedCourseIsListed' /\ FollowUpKeepsTerm' /\ SnapshotKeepsTerm'
  BY DEF CallInv, NamedCourseIsListed, FollowUpKeepsTerm, SnapshotKeepsTerm, TypeOK, Outcome
<1>5. SnapshotInv'
  BY WorldAssumption DEF SnapshotInv
<1>6. ReferenceInv' /\ PlayedWasResolved'
  BY DEF ReferenceInv, PlayedWasResolved
<1> QED
  BY <1>2, <1>3, <1>4, <1>5, <1>6

LEMMA ResolveCourseKeeps ==
    ASSUME IInv, NEW c \in Calls, ResolveCourse(c)
    PROVE  IInv'
<1> USE DEF IInv, eclass, memory
<1> DEFINE t == TermRead(scope[c].term)
<1>1. /\ pc[c] = "resolve" /\ lock = None /\ lastTerm' = t /\ request' = request
      /\ UNCHANGED <<eclass, verified, lock, parts, issued, played, failed, restarts>>
  BY DEF ResolveCourse, Reply
<1>2. t \in Terms /\ None \notin Terms
  BY <1>1, Reads DEF CallInv
<1>3. \/ /\ scope' = scope /\ pc' = [pc EXCEPT ![c] = "done"]
         /\ \E o \in {"NOT_FOUND", "AMBIGUOUS"} : answer' = [answer EXCEPT ![c] = Outcome(o, None, t)]
      \/ \E course \in Enrolled[t] :
            /\ scope' = [scope EXCEPT ![c].course = course, ![c].term = t]
            /\ pc' = [pc EXCEPT ![c] = "list"] /\ answer' = answer
  BY BestSelects DEF ResolveCourse, Reply
<1>4. CASE /\ scope' = scope /\ pc' = [pc EXCEPT ![c] = "done"]
           /\ \E o \in {"NOT_FOUND", "AMBIGUOUS"} : answer' = [answer EXCEPT ![c] = Outcome(o, None, t)]
  <2>1. TypeOK'
    <3>1. {"NOT_FOUND", "AMBIGUOUS"} \subseteq Statuses
      BY DEF Statuses
    <3>2. answer' \in [Calls -> [status : Statuses, course : Courses \cup {None},
                                 term : Terms \cup {None}]]
      BY <1>2, <1>4, <3>1, ReplyType
    <3> QED
      BY <1>1, <1>2, <1>4, <3>2 DEF TypeOK
  <2>2. CallInv' /\ NamedInv' /\ FollowUpInv'
    BY <1>1, <1>4 DEF CallInv, NamedInv, FollowUpInv, TypeOK
  <2>3. NamedCourseIsListed'
    BY <1>1, <1>4 DEF NamedInv, NamedCourseIsListed, TypeOK
  <2>4. FollowUpKeepsTerm' /\ SnapshotKeepsTerm'
    <3>1. \A a \in Calls : \/ answer'[a] = answer[a]
                           \/ a = c /\ answer'[a].status \in {"NOT_FOUND", "AMBIGUOUS"}
      <4>1. PICK o \in {"NOT_FOUND", "AMBIGUOUS"} : answer' = [answer EXCEPT ![c] = Outcome(o, None, t)]
        BY <1>4
      <4>2. answer'[c] = Outcome(o, None, t) /\ \A a \in Calls \ {c} : answer'[a] = answer[a]
        BY <4>1 DEF TypeOK
      <4>3. Outcome(o, None, t).status = o
        BY DEF Outcome
      <4> QED
        BY <4>2, <4>3
    <3>2. request[c].kind \in {"byName", "lecture"}
      BY <1>1 DEF CallInv
    <3> QED
      BY <1>1, <1>4, <3>1, <3>2 DEF FollowUpKeepsTerm, SnapshotKeepsTerm
  <2>5. SnapshotInv'
    BY <1>1, <1>4, WorldAssumption DEF SnapshotInv
  <2> QED
    BY <1>1, <2>1, <2>2, <2>3, <2>4, <2>5 DEF ReferenceInv, PlayedWasResolved
<1>5. ASSUME NEW course \in Enrolled[t],
             scope' = [scope EXCEPT ![c].course = course, ![c].term = t],
             pc' = [pc EXCEPT ![c] = "list"], answer' = answer
      PROVE  IInv'
  <2>1. course \in Courses /\ course # None
    BY <1>2, WorldAssumption
  <2> DEFINE Scopes == [Calls -> [course : Courses \cup {None}, term : TermArgs,
                                  recent : Terms \cup {None}]]
             named == [scope EXCEPT ![c].course = course]
  <2>2. named \in Scopes /\ named[c].course = course /\ \A a \in Calls \ {c} : named[a] = scope[a]
    BY <2>1 DEF TypeOK
  <2> HIDE DEF named
  <2>3. LET s == [named EXCEPT ![c].term = t]
        IN  /\ s \in Scopes /\ s[c].course = course /\ s[c].term = t
            /\ \A a \in Calls \ {c} : s[a] = scope[a]
    BY <1>2, <2>2 DEF TermArgs
  <2>4. scope' = [named EXCEPT ![c].term = t]
    BY <1>5, Zenon DEF named
  <2>5. /\ scope' \in Scopes /\ scope'[c].course = course /\ scope'[c].term = t
        /\ \A a \in Calls \ {c} : scope'[a] = scope[a]
    BY <2>3, <2>4
  <2>6. TypeOK'
    BY <1>1, <1>2, <1>5, <2>5 DEF TypeOK
  <2>7. CallInv'
    BY <1>1, <1>2, <1>5, <2>5 DEF CallInv, TypeOK
  <2>8. NamedInv'
    BY <1>1, <1>2, <1>5, <2>1, <2>5 DEF NamedInv, TypeOK
  <2>9. FollowUpInv'
    BY <1>1, <1>5, <2>5 DEF CallInv, FollowUpInv, TypeOK
  <2>10. NamedCourseIsListed' /\ FollowUpKeepsTerm' /\ SnapshotKeepsTerm'
    BY <1>1, <1>5, <2>5 DEF CallInv, NamedCourseIsListed, FollowUpKeepsTerm, SnapshotKeepsTerm, TypeOK
  <2>11. SnapshotInv'
    BY <1>1, <1>5, WorldAssumption DEF SnapshotInv
  <2> QED
    BY <1>1, <2>6, <2>7, <2>8, <2>9, <2>10, <2>11 DEF ReferenceInv, PlayedWasResolved
<1> QED
  BY <1>3, <1>4, <1>5

\* Listing, with the course shown in the list of the term.
LEMMA ListItemsKeeps ==
    ASSUME IInv, NEW c \in Calls, ListItems(c)
    PROVE  IInv'
<1> USE DEF IInv, eclass, memory
<1> DEFINE t == TermRead(scope[c].term)
<1>1. /\ pc[c] = "list" /\ lock = None /\ request[c].kind # "lecture"
      /\ pc' = [pc EXCEPT ![c] = "done"] /\ request' = request
      /\ UNCHANGED <<eclass, memory, lock, scope, parts, issued, played, failed, restarts>>
  BY DEF ListItems, Reply
<1> DEFINE course == scope[c].course
           title == request[c].title
<1>2. PICK o : /\ answer' = [answer EXCEPT ![c] = o]
               /\ \/ ~Shown(c) /\ o = Outcome("NOT_FOUND", None, None)
                  \/ title = "bad" /\ o = Outcome("INVALID_REQUEST", None, None)
                  \/ title # "bad" /\ o = Outcome("FOUND", course, t)
                  \/ /\ request[c].kind = "byName" /\ title # None
                     /\ o = Outcome("NOT_FOUND", course, t)
  BY DEF ListItems, Reply
<1>3. t \in Terms /\ None \notin Terms /\ (scope[c].term \in Terms => t = scope[c].term)
  BY <1>1, Reads DEF CallInv
<1>4. course \in Courses \cup {None}
  BY DEF TypeOK
<1>5. /\ \/ o.status = "NOT_FOUND" /\ (Shown(c) => request[c].kind = "byName")
         \/ o.status \in {"FOUND", "INVALID_REQUEST"}
      /\ Shown(c) => \/ o.status = "FOUND" /\ title # "bad" /\ o.course = course
                     \/ o.status = "NOT_FOUND" /\ title # None /\ o.course = course
                     \/ o.status = "INVALID_REQUEST" /\ title = "bad"
  BY <1>2 DEF Outcome
<1>6. answer'[c] = o /\ \A a \in Calls \ {c} : answer'[a] = answer[a]
  BY <1>2 DEF TypeOK
<1>7. TypeOK'
  <2>1. {"FOUND", "NOT_FOUND", "INVALID_REQUEST"} \subseteq Statuses
    BY DEF Statuses
  <2>2. o \in Answers
    BY <1>2, <1>3, <1>4, <2>1, OutcomeType
  <2>3. answer' \in [Calls -> Answers]
    BY <1>2, <2>2 DEF TypeOK, Answers
  <2> QED
    BY <1>1, <2>3 DEF TypeOK, Answers
<1>8. CallInv' /\ NamedInv' /\ FollowUpInv'
  BY <1>1, <1>6 DEF CallInv, NamedInv, FollowUpInv, TypeOK
<1>9. NamedCourseIsListed'
  <2>1. request[c].kind = "byName" => Shown(c)
    BY <1>1, <1>3 DEF NamedInv, Shown
  <2> QED
    BY <1>1, <1>5, <1>6, <2>1 DEF NamedCourseIsListed
<1>10. FollowUpKeepsTerm'
  <2> SUFFICES ASSUME NEW a \in Calls, request[a].kind = "assignments", request[a].term = None,
                      scope[a].recent # None, request[a].course \in Enrolled[scope[a].recent]
               PROVE  answer'[a].status # "NOT_FOUND"
    BY <1>1 DEF FollowUpKeepsTerm
  <2>1. CASE a = c
    <3>1. scope[c].recent \in Terms /\ request[c].course # None
      BY <2>1, WorldAssumption DEF TypeOK
    <3>2. course = request[c].course /\ t = scope[c].recent
      BY <1>1, <1>3, <2>1, <3>1 DEF FollowUpInv
    <3>3. Shown(c)
      BY <2>1, <3>2 DEF Shown
    <3> QED
      BY <1>5, <1>6, <2>1, <3>3
  <2>2. CASE a # c
    BY <1>1, <1>6, <2>2 DEF FollowUpKeepsTerm, TypeOK
  <2> QED
    BY <2>1, <2>2
<1>11. SnapshotKeepsTerm'
  BY <1>1, <1>5, <1>6 DEF SnapshotKeepsTerm
<1>12. SnapshotInv'
  BY <1>1, WorldAssumption DEF SnapshotInv
<1> QED
  BY <1>1, <1>7, <1>8, <1>9, <1>10, <1>11, <1>12 DEF ReferenceInv, PlayedWasResolved

\* A reference that is kept when others are forgotten is one that was issued.
LEMMA PrunedKeeps ==
    ASSUME IInv
    PROVE  /\ Pruned \in [Calls -> [lecture : Lectures \cup {None}, expires : 0 .. MaxTime + Ttl]]
           /\ \A r \in Calls : Pruned[r] # NoTarget =>
                 /\ verified[r] # NoTarget /\ Pruned[r] = verified[r] /\ now < Pruned[r].expires
<1>1. NoTarget \in [lecture : Lectures \cup {None}, expires : 0 .. MaxTime + Ttl]
  BY NumbersAssumption DEF NoTarget
<1>2. now \in Nat /\ \A r \in Calls : verified[r].expires \in Nat
  BY NumbersAssumption DEF IInv, TypeOK
<1> QED
  BY <1>1, <1>2 DEF Pruned, IInv, TypeOK

LEMMA ResolveLectureKeeps ==
    ASSUME IInv, NEW c \in Calls, ResolveLecture(c)
    PROVE  IInv'
<1> USE DEF IInv, eclass, memory
<1> DEFINE t == TermRead(scope[c].term)
           course == scope[c].course
<1>1. /\ pc[c] = "list" /\ lock = None /\ request[c].kind = "lecture"
      /\ pc' = [pc EXCEPT ![c] = "done"] /\ request' = request
      /\ UNCHANGED <<eclass, lastTerm, lock, scope, parts, played, failed, restarts>>
  BY DEF ResolveLecture, Reply
<1>2. \/ /\ verified' = verified /\ issued' = issued
         /\ \/ answer' = [answer EXCEPT ![c] = Outcome("NOT_FOUND", None, None)]
            \/ answer' = [answer EXCEPT ![c] = Outcome("AMBIGUOUS", course, t)]
      \/ \E x \in Lectures :
            /\ verified' = [Pruned EXCEPT ![c] = [lecture |-> x, expires |-> now + Ttl]]
            /\ issued' = issued \cup {[ref |-> c, among |-> {x}, at |-> now]}
            /\ answer' = [answer EXCEPT ![c] = Outcome("FOUND", course, t)]
  <2>1. Candidates(c) \subseteq Lectures
    BY BestSelects DEF Candidates, TypeOK
  <2> QED
    BY <2>1 DEF ResolveLecture, Reply
<1>3. t \in Terms /\ course \in Courses \cup {None}
  BY <1>1, Reads DEF CallInv, TypeOK
<1>4. PICK status \in {"FOUND", "NOT_FOUND", "AMBIGUOUS"}, co \in Courses \cup {None},
           te \in Terms \cup {None} : answer' = [answer EXCEPT ![c] = Outcome(status, co, te)]
  BY <1>2, <1>3
<1>5. answer' \in [Calls -> [status : Statuses, course : Courses \cup {None}, term : Terms \cup {None}]]
  <2>1. status \in Statuses
    BY DEF Statuses
  <2> QED
    BY <1>4, <2>1, ReplyType
<1>6. \A a \in Calls : answer'[a] = answer[a] \/ (a = c /\ answer'[a].status # "FAILED")
  BY <1>4 DEF TypeOK, Outcome
<1>7. /\ verified' \in [Calls -> [lecture : Lectures \cup {None}, expires : 0 .. MaxTime + Ttl]]
      /\ ReferenceInv' /\ issued \subseteq issued'
  <2>1. CASE verified' = verified /\ issued' = issued
    BY <2>1 DEF TypeOK, ReferenceInv
  <2>2. ASSUME NEW x \in Lectures,
               verified' = [Pruned EXCEPT ![c] = [lecture |-> x, expires |-> now + Ttl]],
               issued' = issued \cup {[ref |-> c, among |-> {x}, at |-> now]}
        PROVE  /\ verified' \in [Calls -> [lecture : Lectures \cup {None}, expires : 0 .. MaxTime + Ttl]]
               /\ ReferenceInv' /\ issued \subseteq issued'
    <3>1. now \in Nat /\ now + Ttl \in 0 .. MaxTime + Ttl
      BY NumbersAssumption DEF TypeOK
    <3>2. verified' \in [Calls -> [lecture : Lectures \cup {None}, expires : 0 .. MaxTime + Ttl]]
      BY <2>2, <3>1, PrunedKeeps
    <3>3. /\ verified'[c].lecture = x /\ verified'[c].expires = now + Ttl
          /\ \A r \in Calls \ {c} : verified'[r] = Pruned[r]
      BY <2>2, PrunedKeeps
    <3>4. ASSUME NEW r \in Calls, verified'[r] # NoTarget
          PROVE  \E i \in issued' : /\ i.ref = r /\ i.among = {verified'[r].lecture}
                                    /\ verified'[r].expires = i.at + Ttl
      <4>1. CASE r = c
        <5>1. [ref |-> c, among |-> {x}, at |-> now] \in issued'
          BY <2>2
        <5> QED
          BY <3>3, <4>1, <5>1
      <4>2. CASE r # c
        <5>1. verified'[r] = verified[r] /\ verified[r] # NoTarget
          BY <3>3, <3>4, <4>2, PrunedKeeps
        <5>2. PICK i \in issued : /\ i.ref = r /\ i.among = {verified[r].lecture}
                                  /\ verified[r].expires = i.at + Ttl
          BY <5>1 DEF ReferenceInv
        <5> QED
          BY <2>2, <5>1, <5>2
      <4> QED
        BY <4>1, <4>2
    <3>5. \A i \in issued' : i.at \in Nat
      BY <2>2, <3>1 DEF ReferenceInv
    <3> QED
      BY <2>2, <3>2, <3>4, <3>5 DEF ReferenceInv
  <2> QED
    BY <1>2, <2>1, <2>2
<1>8. TypeOK'
  BY <1>1, <1>5, <1>7 DEF TypeOK
<1>9. CallInv' /\ NamedInv' /\ FollowUpInv'
  BY <1>1, <1>6 DEF CallInv, NamedInv, FollowUpInv, TypeOK
<1>10. NamedCourseIsListed' /\ FollowUpKeepsTerm' /\ SnapshotKeepsTerm'
  BY <1>1, <1>6 DEF NamedCourseIsListed, FollowUpKeepsTerm, SnapshotKeepsTerm
<1>11. SnapshotInv' /\ PlayedWasResolved'
  BY <1>1, <1>7, WorldAssumption DEF SnapshotInv, PlayedWasResolved
<1> QED
  BY <1>7, <1>8, <1>9, <1>10, <1>11

-----------------------------------------------------------------------------
(* Snapshots and playing.                                                  *)

LEMMA SnapshotCoursesKeeps ==
    ASSUME IInv, NEW c \in Calls, SnapshotCourses(c)
    PROVE  IInv'
<1> USE DEF IInv, eclass, memory, SnapshotCourses
<1> DEFINE t == TermRead(None)
<1>1. t \in Terms
  BY Reads
<1>2. request[c].kind = "snapshot"
  BY DEF CallInv
<1>3. TypeOK'
  <2>1. scope' \in [Calls -> [course : Courses \cup {None}, term : TermArgs,
                             recent : Terms \cup {None}]]
    BY <1>1 DEF TypeOK, TermArgs
  <2>2. \A a \in Calls : Len(parts'[a]) <= Parts + 1
    BY NumbersAssumption DEF TypeOK, SnapshotInv
  <2> QED
    BY <2>1, <2>2 DEF TypeOK
<1>4. CallInv' /\ NamedInv' /\ FollowUpInv'
  BY <1>1, <1>2 DEF CallInv, NamedInv, FollowUpInv, TypeOK
<1>5. NamedCourseIsListed' /\ FollowUpKeepsTerm' /\ SnapshotKeepsTerm'
  BY <1>2 DEF NamedCourseIsListed, FollowUpKeepsTerm, SnapshotKeepsTerm, TypeOK
<1>6. SnapshotInv'
  <2>1. parts' \in [Calls -> Seq(Terms)] /\ parts'[c] = <<t>>
    BY <1>1 DEF SnapshotInv
  <2>2. lock' = c /\ pc' = pc /\ scope'[c].term = t
    BY DEF TypeOK
  <2> QED
    BY <1>1, <2>1, <2>2 DEF SnapshotInv
<1> QED
  BY <1>3, <1>4, <1>5, <1>6 DEF ReferenceInv, PlayedWasResolved

LEMMA SnapshotPartKeeps ==
    ASSUME IInv, NEW c \in Calls, SnapshotPart(c)
    PROVE  IInv'
<1> USE DEF IInv, eclass, memory, SnapshotPart
<1> DEFINE t == scope[c].term
<1>1. /\ t \in Terms /\ TermRead(t) = t /\ parts[c] \in Seq(Terms)
      /\ \A i \in 1 .. Len(parts[c]) : parts[c][i] = t
  BY Reads DEF SnapshotInv
<1>2. /\ parts' \in [Calls -> Seq(Terms)]
      /\ parts'[c] = Append(parts[c], t)
      /\ \A a \in Calls \ {c} : parts'[a] = parts[a]
  BY <1>1 DEF SnapshotInv
<1>3. /\ Len(parts'[c]) = Len(parts[c]) + 1
      /\ \A i \in 1 .. Len(parts'[c]) : parts'[c][i] = t
  BY <1>1, <1>2
<1>4. TypeOK'
  BY <1>1, <1>2, <1>3, NumbersAssumption DEF TypeOK
<1>5. SnapshotInv'
  BY <1>1, <1>2, <1>3 DEF SnapshotInv
<1>6. CallInv' /\ NamedInv' /\ FollowUpInv'
  BY DEF CallInv, NamedInv, FollowUpInv
<1>7. NamedCourseIsListed' /\ FollowUpKeepsTerm' /\ SnapshotKeepsTerm'
  BY DEF NamedCourseIsListed, FollowUpKeepsTerm, SnapshotKeepsTerm
<1> QED
  BY <1>4, <1>5, <1>6, <1>7 DEF ReferenceInv, PlayedWasResolved

\* All areas are of one term, so that the snapshot is never turned down for it.
LEMMA SnapshotDoneKeeps ==
    ASSUME IInv, NEW c \in Calls, SnapshotDone(c)
    PROVE  IInv'
<1> USE DEF IInv, eclass, memory
<1> DEFINE t == scope[c].term
<1>1. /\ pc[c] = "snapshot" /\ lock = c /\ Len(parts[c]) = Parts + 1 /\ lock' = None
      /\ UNCHANGED <<eclass, verified, scope, parts, issued, played, failed, restarts>>
  BY DEF SnapshotDone
<1>2. /\ t \in Terms /\ parts[c][1] = t /\ OneTerm(parts[c])
  BY <1>1, NumbersAssumption DEF SnapshotInv, OneTerm
<1>3. /\ pc' = [pc EXCEPT ![c] = "done"] /\ request' = request /\ lastTerm' = t
      /\ answer' = [answer EXCEPT ![c] = Outcome("FOUND", None, t)]
  BY <1>2 DEF SnapshotDone, Reply
<1>4. request[c].kind = "snapshot"
  BY <1>1 DEF CallInv
<1>5. TypeOK'
  <2>1. "FOUND" \in Statuses
    BY DEF Statuses
  <2>2. answer' \in [Calls -> [status : Statuses, course : Courses \cup {None},
                               term : Terms \cup {None}]]
    BY <1>2, <1>3, <2>1, ReplyType
  <2> QED
    BY <1>1, <1>2, <1>3, <2>2 DEF TypeOK
<1>6. CallInv' /\ NamedInv' /\ FollowUpInv'
  BY <1>1, <1>3 DEF CallInv, NamedInv, FollowUpInv, TypeOK
<1>7. NamedCourseIsListed' /\ FollowUpKeepsTerm' /\ SnapshotKeepsTerm'
  BY <1>1, <1>3, <1>4 DEF NamedCourseIsListed, FollowUpKeepsTerm, SnapshotKeepsTerm, TypeOK, Outcome
<1>8. SnapshotInv'
  BY <1>1, WorldAssumption DEF SnapshotInv
<1> QED
  BY <1>1, <1>5, <1>6, <1>7, <1>8 DEF ReferenceInv, PlayedWasResolved

LEMMA PlayKeeps ==
    ASSUME IInv, NEW c \in Calls, Play(c)
    PROVE  IInv'
<1> USE DEF IInv, eclass, memory
<1> DEFINE r == request[c].ref
<1>1. /\ pc[c] = "play" /\ verified' = Pruned
      /\ pc' = [pc EXCEPT ![c] = "done"] /\ request' = request
      /\ UNCHANGED <<eclass, lastTerm, lock, scope, parts, issued, failed, restarts>>
  BY DEF Play, Reply
<1>2. r \in Calls /\ request[c].kind = "play"
  BY <1>1 DEF CallInv
<1>3. \/ /\ answer' = [answer EXCEPT ![c] = Outcome("NOT_FOUND", None, None)] /\ played' = played
      \/ /\ answer' = [answer EXCEPT ![c] = Outcome("FOUND", None, None)] /\ Pruned[r] # NoTarget
         /\ played' = played \cup {[ref |-> r, lecture |-> Pruned[r].lecture, at |-> now]}
  BY DEF Play, Reply
<1>4. PICK status \in {"FOUND", "NOT_FOUND"} : answer' = [answer EXCEPT ![c] = Outcome(status, None, None)]
  BY <1>3
<1>5. TypeOK'
  <2>1. status \in Statuses
    BY DEF Statuses
  <2>2. answer' \in [Calls -> [status : Statuses, course : Courses \cup {None},
                               term : Terms \cup {None}]]
    BY <1>4, <2>1, ReplyType
  <2> QED
    BY <1>1, <2>2, PrunedKeeps DEF TypeOK
<1>6. CallInv' /\ NamedInv' /\ FollowUpInv'
  BY <1>1, <1>4 DEF CallInv, NamedInv, FollowUpInv, TypeOK
<1>7. NamedCourseIsListed' /\ FollowUpKeepsTerm' /\ SnapshotKeepsTerm'
  <2>1. \A a \in Calls \ {c} : answer'[a] = answer[a]
    BY <1>4 DEF TypeOK
  <2> QED
    BY <1>1, <1>2, <2>1 DEF NamedCourseIsListed, FollowUpKeepsTerm, SnapshotKeepsTerm
<1>8. SnapshotInv'
  <2>1. lock # c
    BY <1>1, WorldAssumption DEF SnapshotInv
  <2> QED
    BY <1>1, <2>1 DEF SnapshotInv, TypeOK
<1>9. ReferenceInv'
  <2> SUFFICES ASSUME NEW q \in Calls, Pruned[q] # NoTarget
               PROVE  \E i \in issued : /\ i.ref = q /\ i.among = {Pruned[q].lecture}
                                        /\ Pruned[q].expires = i.at + Ttl
    BY <1>1 DEF ReferenceInv
  <2>1. verified[q] # NoTarget /\ Pruned[q] = verified[q]
    BY PrunedKeeps
  <2>2. PICK i \in issued : /\ i.ref = q /\ i.among = {verified[q].lecture}
                            /\ verified[q].expires = i.at + Ttl
    BY <2>1 DEF ReferenceInv
  <2> QED
    BY <2>1, <2>2
<1>10. PlayedWasResolved'
  <2>1. CASE played' = played
    BY <1>1, <2>1 DEF PlayedWasResolved
  <2>2. CASE /\ Pruned[r] # NoTarget
             /\ played' = played \cup {[ref |-> r, lecture |-> Pruned[r].lecture, at |-> now]}
    <3>1. Pruned[r] = verified[r] /\ now < verified[r].expires
      BY <1>2, <2>2, PrunedKeeps
    <3>2. PICK i \in issued : i.ref = r /\ i.among = {verified[r].lecture} /\ verified[r].expires = i.at + Ttl
      BY <1>2, <2>2, <3>1 DEF ReferenceInv
    <3> QED
      BY <1>1, <2>2, <3>1, <3>2 DEF PlayedWasResolved
  <2> QED
    BY <1>3, <2>1, <2>2
<1> QED
  BY <1>5, <1>6, <1>7, <1>8, <1>9, <1>10

-----------------------------------------------------------------------------
(* The environment.                                                        *)

LEMMA WorldKeeps ==
    ASSUME IInv, Tick \/ NextTerm \/ Publish \/ UNCHANGED vars
    PROVE  IInv'
<1>1. /\ UNCHANGED <<memory, lock, call, issued, played, failed, restarts>>
      /\ now' \in 0 .. MaxTime /\ default' \in Terms /\ published' \subseteq Lectures
  <2>1. now' \in 0 .. MaxTime
    BY NumbersAssumption DEF Tick, NextTerm, Publish, vars, eclass, IInv, TypeOK
  <2> QED
    BY <2>1 DEF Tick, NextTerm, Publish, vars, eclass, IInv, TypeOK
<1> USE DEF IInv, memory, call
<1>2. TypeOK'
  BY <1>1 DEF TypeOK
<1>3. CallInv' /\ NamedInv' /\ FollowUpInv' /\ SnapshotInv'
  BY <1>1 DEF CallInv, NamedInv, FollowUpInv, SnapshotInv
<1>4. ReferenceInv' /\ PlayedWasResolved'
  BY <1>1 DEF ReferenceInv, PlayedWasResolved
<1>5. NamedCourseIsListed' /\ FollowUpKeepsTerm' /\ SnapshotKeepsTerm'
  BY <1>1 DEF NamedCourseIsListed, FollowUpKeepsTerm, SnapshotKeepsTerm
<1> QED
  BY <1>2, <1>3, <1>4, <1>5

LEMMA RestartKeeps ==
    ASSUME IInv, Restart
    PROVE  IInv'
<1> USE DEF IInv, eclass, Restart
<1>1. TypeOK'
  BY NumbersAssumption DEF TypeOK, NoTarget
<1>2. CallInv' /\ NamedInv' /\ FollowUpInv'
  BY DEF CallInv, NamedInv, FollowUpInv, TypeOK
<1>3. SnapshotInv'
  BY WorldAssumption DEF SnapshotInv
<1>4. ReferenceInv' /\ PlayedWasResolved'
  BY DEF ReferenceInv, PlayedWasResolved
<1>5. NamedCourseIsListed' /\ FollowUpKeepsTerm' /\ SnapshotKeepsTerm'
  BY DEF NamedCourseIsListed, FollowUpKeepsTerm, SnapshotKeepsTerm
<1> QED
  BY <1>1, <1>2, <1>3, <1>4, <1>5

-----------------------------------------------------------------------------
(* The theorems.                                                           *)

LEMMA InitHolds == Init => IInv
<1> SUFFICES ASSUME Init PROVE IInv
  OBVIOUS
<1> USE DEF Init
<1>1. TypeOK
  <2>1. /\ NoScope \in [course : Courses \cup {None}, term : TermArgs, recent : Terms \cup {None}]
        /\ NoTarget \in [lecture : Lectures \cup {None}, expires : 0 .. MaxTime + Ttl]
    BY NumbersAssumption DEF NoScope, NoTarget, TermArgs
  <2>2. NoAnswer \in [status : Statuses, course : Courses \cup {None}, term : Terms \cup {None}]
    BY DEF NoAnswer, Outcome, Statuses
  <2>3. 0 \in 0 .. MaxTime /\ 0 \in 0 .. MaxRestarts /\ Len(<<>>) <= Parts + 1
    BY NumbersAssumption
  <2> QED
    BY <2>1, <2>2, <2>3 DEF TypeOK
<1>2. CallInv /\ NamedInv /\ FollowUpInv
  BY DEF CallInv, NamedInv, FollowUpInv
<1>3. SnapshotInv /\ ReferenceInv /\ PlayedWasResolved
  BY WorldAssumption DEF SnapshotInv, ReferenceInv, PlayedWasResolved
<1>4. NamedCourseIsListed /\ FollowUpKeepsTerm /\ SnapshotKeepsTerm
  BY DEF NamedCourseIsListed, FollowUpKeepsTerm, SnapshotKeepsTerm, NoRequest, Request
<1> QED
  BY <1>1, <1>2, <1>3, <1>4 DEF IInv

LEMMA InvariantHolds == Spec => []IInv
<1>1. ASSUME IInv, [Next]_vars PROVE IInv'
  <2>1. ASSUME NEW c \in Calls, Step(c) PROVE IInv'
    BY <1>1, <2>1, OperationFailsKeeps, ListCoursesKeeps, ResolveCourseKeeps, ListItemsKeeps,
       ResolveLectureKeeps, SnapshotCoursesKeeps, SnapshotPartKeeps, SnapshotDoneKeeps, PlayKeeps
       DEF Step
  <2> QED
    BY <1>1, <2>1, AskKeeps, WorldKeeps, RestartKeeps DEF Next
<1> QED
  BY <1>1, InitHolds, PTL DEF Spec

\* A lecture is played only under a reference that was issued for it as the one
\* match, and in time: no other call, no restart and no change of what E-Class
\* lists makes a reference play another one.
THEOREM PlaysWhatWasResolved == Spec => []PlayedWasResolved
<1>1. IInv => PlayedWasResolved
  BY DEF IInv
<1> QED
  BY <1>1, InvariantHolds, PTL

\* Every call works in one term from its first operation to its last, whatever
\* the calls in between read and whatever term E-Class selects: a course found
\* by name is listed, a follow-up by id looks where the list before it did, and
\* a snapshot fails only if one of its operations does.
THEOREM EclassReadCorrect == Spec => []EclassReadInv
<1>1. IInv => EclassReadInv
  BY DEF IInv, EclassReadInv
<1> QED
  BY <1>1, InvariantHolds, PTL
=============================================================================
