----------------------------- MODULE Session_proofs -----------------------------
(***************************************************************************)
(* The stored login: whole whenever one call saves at a time, renewed for  *)
(* the call that renewed it, and not renewed without end, for any number   *)
(* of calls, faults and operations of a call.                              *)
(***************************************************************************)
EXTENDS Session, FiniteSetTheorems, TLAPS

-----------------------------------------------------------------------------
(* The inductive invariant.                                                *)

\* A session of a login this project made (the LMS accepts the one of the
\* set-up or not).
Renewals == 2 .. logins

\* What a call has at hand, by its place.
ShapeInv ==
    \A c \in Calls :
        /\ pc[c] \in {"idle", "done"} => ctx[c] = Fresh(c)
        /\ pc[c] = "queued" => ~ctx[c].retried
        /\ ctx[c].left <= Length(c)
        /\ pc[c] = "fetch" => c \in Fetches
        /\ c \notin Fetches \/ pc[c] \in {"load", "queued"} => ctx[c].stage = "first"
        /\ pc[c] \in {"renew", "login", "open", "fill", "replace", "reload"} => ctx[c].retried
        /\ pc[c] \in {"open", "fill", "replace"} => ctx[c].session \in Renewals

\* The session file, as long as no two calls have saved at once: the one that
\* saves writes a node of its own and moves a whole session to its place.
FileInv ==
    /\ temp # Free => temp # stored
    /\ setUp => stored # Free
    /\ ~clash =>
         /\ stored # Free => content[stored] # Torn
         /\ \A c, d \in Calls :
              pc[c] \in {"fill", "replace"} /\ pc[d] \in {"fill", "replace"} => c = d
         /\ \A c \in Calls :
              /\ pc[c] \in {"fill", "replace"} => temp # Free /\ ctx[c].node = temp
              /\ pc[c] = "fill" => content[temp] = Torn
              /\ pc[c] = "replace" => content[temp] = ctx[c].session

\* A call that has renewed the session finds a renewed one, and the LMS accepts
\* those until it ends one.
RenewInv ==
    /\ expiries = 0 => Renewals \subseteq accepted
    /\ ~clash =>
         \A c \in Calls :
            /\ ctx[c].retried /\ pc[c] \in {"load", "page", "fetch", "reload"} =>
                 stored # Free /\ content[stored] \in Renewals
            /\ ctx[c].retried /\ pc[c] \in {"page", "fetch"} => ctx[c].loaded \in Renewals
            /\ pc[c] = "fetch" /\ ctx[c].stage = "viewer" /\ expiries = 0 => ctx[c].loaded \in accepted

\* The operations of the calls, by the number of those left, and the ones that
\* can log in no more.
Renewed(c, k) ==
    \/ pc[c] = "done"
    \/ k > ctx[c].left
    \/ k = ctx[c].left /\ ctx[c].retried /\ pc[c] \notin {"renew", "login"}
Spent == {o \in Operations : Renewed(o[1], o[2])}

StormInv == 1 <= logins /\ logins - 1 <= Cardinality(Spent)

IInv == TypeOK /\ ShapeInv /\ FileInv /\ RenewInv /\ StormInv /\ AuthMeansRefused

-----------------------------------------------------------------------------
(* Sets and numbers.                                                       *)

Ctx == [left : 1 .. SyncLength + 1, stage : {"first", "viewer"}, loaded : Nat,
        retried : BOOLEAN, session : Nat, node : Nodes \cup {Free}]

LEMMA CallsFinite == IsFiniteSet(Calls) /\ Cardinality(Calls) \in Nat
<1>1. IsFiniteSet(Reads \cup Fetches)
  BY CallsAssumption, FS_Union
<1>2. IsFiniteSet((Reads \cup Fetches) \cup Plays)
  BY <1>1, CallsAssumption, FS_Union
<1>3. IsFiniteSet(Calls)
  BY <1>2, CallsAssumption, FS_Union DEF Calls
<1> QED BY <1>3, FS_CardinalityType

LEMMA NodesAre == Nodes \subseteq Nat \ {0} /\ 1 \in Nodes /\ Free \notin Nodes
  BY CallsFinite, CallsAssumption DEF Nodes

LEMMA FreshIs ==
    ASSUME NEW c \in Calls
    PROVE  /\ Fresh(c) \in Ctx
           /\ Fresh(c).left = Length(c) /\ Length(c) \in 1 .. SyncLength + 1
           /\ ~Fresh(c).retried /\ Fresh(c).stage = "first"
<1>1. Length(c) \in 1 .. SyncLength + 1
  BY BoundsAssumption DEF Length
<1> QED BY <1>1 DEF Fresh, Ctx, Torn

\* There are more nodes than names and writers.
LEMMA FreshNodeIs ==
    ASSUME TypeOK, temp = Free
    PROVE  FreshNode \in Nodes /\ FreshNode # stored /\ ~Written(FreshNode)
<1> DEFINE node == [c \in Calls |-> ctx[c].node]
           used == {ctx[c].node : c \in Calls}
<1>1. IsFiniteSet(used) /\ Cardinality(used) <= Cardinality(Calls)
  <2>1. node \in Surjection(Calls, used)
    BY DEF Surjection
  <2> HIDE DEF node, used
  <2> QED BY <2>1, CallsFinite, FS_Surjection
<1>2. IsFiniteSet(used \cup {stored}) /\ Cardinality(used \cup {stored}) <= Cardinality(Calls) + 1
  <2> HIDE DEF used
  <2>1. Cardinality(used) \in Nat
    BY <1>1, FS_CardinalityType
  <2>2. /\ IsFiniteSet(used \cup {stored})
        /\ Cardinality(used \cup {stored}) =
             IF stored \in used THEN Cardinality(used) ELSE Cardinality(used) + 1
    BY <1>1, FS_AddElement
  <2> QED BY <1>1, <2>1, <2>2, CallsFinite
<1>3. IsFiniteSet(Nodes) /\ Cardinality(Nodes) = Cardinality(Calls) + 2
  BY CallsFinite, FS_Interval DEF Nodes
<1>4. \E n \in Nodes : n \notin used \cup {stored}
  <2> HIDE DEF used
  <2>1. SUFFICES ASSUME Nodes \subseteq used \cup {stored} PROVE FALSE
    OBVIOUS
  <2>2. Cardinality(Nodes) <= Cardinality(used \cup {stored})
    BY <1>2, <2>1, FS_Subset
  <2>3. Cardinality(used \cup {stored}) \in Nat
    BY <1>2, FS_CardinalityType
  <2> QED BY <1>2, <1>3, <2>2, <2>3, CallsFinite
<1>5. \E n \in Nodes : n \notin {stored, temp} /\ ~Written(n)
  <2>1. PICK n \in Nodes : n \notin used \cup {stored}
    BY <1>4
  <2>2. n # temp /\ ~Written(n)
    BY <2>1, NodesAre DEF Written
  <2> QED BY <2>1, <2>2
<1>6. FreshNode \in Nodes /\ FreshNode \notin {stored, temp} /\ ~Written(FreshNode)
  BY <1>5, Zenon DEF FreshNode
<1> QED BY <1>6

LEMMA OperationsFinite == IsFiniteSet(Operations) /\ Cardinality(Operations) \in Nat
<1>1. IsFiniteSet(1 .. SyncLength + 1)
  BY BoundsAssumption, FS_Interval
<1>2. IsFiniteSet(Calls \X (1 .. SyncLength + 1))
  BY <1>1, CallsFinite, FS_Product
<1>3. Operations \subseteq Calls \X (1 .. SyncLength + 1)
  BY DEF Operations
<1>4. IsFiniteSet(Operations)
  BY <1>2, <1>3, FS_Subset
<1> QED BY <1>4, FS_CardinalityType

LEMMA SpentFinite ==
    /\ IsFiniteSet(Spent)
    /\ Cardinality(Spent) \in Nat /\ Cardinality(Spent) <= Cardinality(Operations)
  BY OperationsFinite, FS_Subset, FS_CardinalityType DEF Spent

LEMMA InitHolds == Init => IInv
<1> SUFFICES ASSUME Init PROVE IInv
  OBVIOUS
<1>1. \A c \in Calls : pc[c] = "idle" /\ answer[c] = "none" /\ ctx[c] = Fresh(c)
  BY DEF Init
<1>2. TypeOK
  <2>1. {stored, temp} \subseteq Nodes \cup {Free}
    BY NodesAre DEF Init
  <2>2. content \in [Nodes -> Nat]
    BY DEF Init, Torn
  <2>3. pc \in [Calls -> Places] /\ answer \in [Calls -> Answers \cup {"none"}]
    BY DEF Init, Places
  <2>4. ctx \in [Calls -> Ctx]
    BY FreshIs DEF Init
  <2>5. accepted \subseteq 1 .. logins /\ logins \in Nat
    <3>1. logins = 1 /\ accepted \in {{}, {1}}
      BY DEF Init
    <3> QED BY <3>1
  <2>6. {expiries, crashes} \subseteq 0 .. MaxFaults
    BY BoundsAssumption DEF Init
  <2> QED BY <2>1, <2>2, <2>3, <2>4, <2>5, <2>6 DEF Init, TypeOK, Ctx
<1>3. ShapeInv
  <2>1. \A c \in Calls : Length(c) <= Length(c)
    BY FreshIs
  <2> QED BY <1>1, <2>1, FreshIs DEF ShapeInv
<1>4. FileInv
  BY <1>1, NodesAre DEF Init, FileInv, Torn
<1>5. RenewInv
  <2>1. Renewals = {}
    BY DEF Init, Renewals
  <2> QED BY <1>1, <2>1 DEF RenewInv
<1>6. StormInv
  <2>1. logins = 1
    BY DEF Init
  <2> QED BY <2>1, SpentFinite DEF StormInv
<1>7. AuthMeansRefused
  BY <1>1 DEF AuthMeansRefused
<1> QED BY <1>2, <1>3, <1>4, <1>5, <1>6, <1>7 DEF IInv

-----------------------------------------------------------------------------
(* A step of a call that neither saves a session nor logs in.              *)

\* The call c goes to a place with x at hand and answers a (or not yet).
Moves(c, place, x, a) ==
    /\ pc' = [pc EXCEPT ![c] = place]
    /\ ctx' = [ctx EXCEPT ![c] = x]
    /\ answer' = [answer EXCEPT ![c] = a]

LEMMA MovesType ==
    ASSUME TypeOK, NEW c \in Calls, NEW place \in Places, NEW x \in Ctx,
           NEW a \in Answers \cup {"none"}, Moves(c, place, x, a)
    PROVE  /\ pc' \in [Calls -> Places] /\ ctx' \in [Calls -> Ctx]
           /\ answer' \in [Calls -> Answers \cup {"none"}]
           /\ pc'[c] = place /\ ctx'[c] = x /\ answer'[c] = a
           /\ \A d \in Calls : d # c => pc'[d] = pc[d] /\ ctx'[d] = ctx[d] /\ answer'[d] = answer[d]
<1>1. /\ pc \in [Calls -> Places] /\ ctx \in [Calls -> Ctx]
      /\ answer \in [Calls -> Answers \cup {"none"}]
  BY DEF TypeOK, Ctx
<1> QED BY <1>1 DEF Moves

\* An operation of c that can log in no more still cannot.
MovesOn(c, place, x) ==
    \/ place = "done"
    \/ x.left < ctx[c].left
    \/ /\ x.left = ctx[c].left
       /\ ctx[c].retried /\ pc[c] \notin {"renew", "login"} =>
            x.retried /\ place \notin {"renew", "login"}

LEMMA SpentGrows ==
    ASSUME TypeOK, NEW c \in Calls, NEW place \in Places, NEW x \in Ctx,
           NEW a \in Answers \cup {"none"}, Moves(c, place, x, a),
           pc[c] # "done", MovesOn(c, place, x)
    PROVE  Spent \subseteq Spent'
<1>1. /\ pc'[c] = place /\ ctx'[c] = x
      /\ \A d \in Calls : d # c => pc'[d] = pc[d] /\ ctx'[d] = ctx[d]
  BY MovesType
<1>2. x.left \in Nat /\ ctx[c].left \in Nat
  BY BoundsAssumption DEF TypeOK, Ctx
<1>3. SUFFICES ASSUME NEW o \in Operations, Renewed(o[1], o[2]) PROVE Renewed(o[1], o[2])'
  BY DEF Spent, Operations
<1>4. o[1] \in Calls /\ o[2] \in Nat
  BY DEF Operations
<1>5. CASE o[1] = c
  <2>1. \/ o[2] > ctx[c].left
        \/ o[2] = ctx[c].left /\ ctx[c].retried /\ pc[c] \notin {"renew", "login"}
    BY <1>3, <1>5 DEF Renewed
  <2>2. \/ place = "done"
        \/ o[2] > x.left
        \/ o[2] = x.left /\ x.retried /\ place \notin {"renew", "login"}
    BY <2>1, <1>2, <1>4 DEF MovesOn
  <2> QED BY <2>2, <1>1, <1>5 DEF Renewed
<1>6. CASE o[1] # c
  BY <1>1, <1>3, <1>4, <1>6 DEF Renewed
<1> QED BY <1>5, <1>6

LEMMA StormKeeps ==
    ASSUME TypeOK, StormInv, Spent \subseteq Spent', logins' = logins
    PROVE  StormInv'
<1>1. Operations' = Operations
  BY DEF Operations
<1>2. IsFiniteSet(Spent')
  <2>1. Spent' \subseteq Operations
    BY DEF Spent
  <2> QED BY <2>1, OperationsFinite, FS_Subset
<1>3. /\ Cardinality(Spent) <= Cardinality(Spent')
      /\ Cardinality(Spent) \in Nat /\ Cardinality(Spent') \in Nat
  BY <1>2, SpentFinite, FS_Subset, FS_CardinalityType
<1>4. Cardinality(Spent)' = Cardinality(Spent')
  OBVIOUS
<1>5. 1 <= logins /\ logins - 1 <= Cardinality(Spent)
  BY DEF StormInv
<1>6. logins \in Nat
  BY DEF TypeOK
<1> QED BY <1>3, <1>5, <1>6 DEF StormInv

LEMMA QuietKeeps ==
    ASSUME IInv, NEW c \in Calls, NEW place \in Places, NEW x \in Ctx,
           NEW a \in Answers \cup {"none"}, Moves(c, place, x, a),
           UNCHANGED <<autoLogin, setUp, stored, temp, content, accepted, logins, expiries, crashes, clash>>,
           refused' \in BOOLEAN, refused => refused',
           userLock' \in [Procs -> Calls \cup {Free}], refreshLock' \in [Procs -> Calls \cup {Free}],
           pc[c] # "done", place \notin {"open", "fill", "replace"},
           place \in {"idle", "done"} => x = Fresh(c), place = "queued" => ~x.retried,
           place \in {"renew", "login", "reload"} => x.retried,
           x.left <= Length(c), place = "fetch" => c \in Fetches,
           c \notin Fetches \/ place \in {"load", "queued"} => x.stage = "first",
           MovesOn(c, place, x),
           ~clash /\ x.retried /\ place \in {"load", "page", "fetch", "reload"} =>
               stored # Free /\ content[stored] \in Renewals,
           ~clash /\ x.retried /\ place \in {"page", "fetch"} => x.loaded \in Renewals,
           ~clash /\ place = "fetch" /\ x.stage = "viewer" /\ expiries = 0 => x.loaded \in accepted,
           a = "auth" /\ autoLogin /\ ~clash =>
               answer[c] = "auth" \/ refused' \/ expiries > 0 \/ (c \in Plays /\ ~setUp)
    PROVE  IInv'
<1>1. TypeOK /\ ShapeInv /\ FileInv /\ RenewInv /\ StormInv /\ AuthMeansRefused
  BY DEF IInv
<1>2. /\ pc' \in [Calls -> Places] /\ ctx' \in [Calls -> Ctx]
      /\ answer' \in [Calls -> Answers \cup {"none"}]
      /\ pc'[c] = place /\ ctx'[c] = x /\ answer'[c] = a
      /\ \A d \in Calls : d # c => pc'[d] = pc[d] /\ ctx'[d] = ctx[d] /\ answer'[d] = answer[d]
  BY <1>1, MovesType
<1>3. TypeOK'
  BY <1>1, <1>2 DEF TypeOK, Ctx
<1>4. ShapeInv'
  <2>1. Renewals' = Renewals /\ (\A d \in Calls : Fresh(d)' = Fresh(d))
    BY DEF Renewals, Fresh, Length
  <2>2. \A d \in Calls : Length(d)' = Length(d)
    BY DEF Length
  <2> QED BY <1>1, <1>2, <2>1, <2>2 DEF ShapeInv
<1>5. FileInv'
  BY <1>1, <1>2 DEF FileInv
<1>6. RenewInv'
  <2>1. Renewals' = Renewals
    BY DEF Renewals
  <2> QED BY <1>1, <1>2, <2>1 DEF RenewInv
<1>7. StormInv'
  BY <1>1, SpentGrows, StormKeeps
<1>8. AuthMeansRefused'
  <2>1. SUFFICES ASSUME NEW d \in Calls, answer'[d] = "auth", autoLogin, ~clash
                 PROVE  refused' \/ expiries > 0 \/ (d \in Plays /\ ~setUp)
    BY DEF AuthMeansRefused
  <2>2. CASE answer[d] = "auth"
    BY <2>1, <2>2, <1>1 DEF AuthMeansRefused
  <2>3. CASE answer[d] # "auth"
    BY <2>1, <2>3, <1>2
  <2> QED BY <2>2, <2>3
<1> QED BY <1>3, <1>4, <1>5, <1>6, <1>7, <1>8 DEF IInv

LEMMA LeaveType ==
    ASSUME NEW lock \in [Procs -> Calls \cup {Free}], NEW c
    PROVE  Leave(lock, c) \in [Procs -> Calls \cup {Free}]
  BY DEF Leave

\* The call goes on, holding what it has.
LEMMA GoKeeps ==
    ASSUME IInv, NEW c \in Calls, NEW place \in Places, NEW x \in Ctx, Go(c, place, x),
           UNCHANGED <<file, lms, clash>>,
           userLock' \in [Procs -> Calls \cup {Free}], refreshLock' \in [Procs -> Calls \cup {Free}],
           pc[c] # "done", place \notin {"open", "fill", "replace"},
           place \in {"idle", "done"} => x = Fresh(c), place = "queued" => ~x.retried,
           place \in {"renew", "login", "reload"} => x.retried,
           x.left <= Length(c), place = "fetch" => c \in Fetches,
           c \notin Fetches \/ place \in {"load", "queued"} => x.stage = "first",
           MovesOn(c, place, x),
           ~clash /\ x.retried /\ place \in {"load", "page", "fetch", "reload"} =>
               stored # Free /\ content[stored] \in Renewals,
           ~clash /\ x.retried /\ place \in {"page", "fetch"} => x.loaded \in Renewals,
           ~clash /\ place = "fetch" /\ x.stage = "viewer" /\ expiries = 0 => x.loaded \in accepted
    PROVE  IInv'
<1>1. answer[c] \in Answers \cup {"none"} /\ answer \in [Calls -> Answers \cup {"none"}]
  BY DEF IInv, TypeOK
<1>2. Moves(c, place, x, answer[c])
  BY <1>1 DEF Go, Moves
<1>3. refused' \in BOOLEAN /\ (refused => refused')
  BY DEF lms, IInv, TypeOK
<1>4. UNCHANGED <<autoLogin, setUp, stored, temp, content, accepted, logins, expiries, crashes, clash>>
  BY DEF file, lms, Go, config
<1> QED BY <1>1, <1>2, <1>3, <1>4, QuietKeeps

\* The call is answered.
LEMMA AnswerKeeps ==
    ASSUME IInv, NEW c \in Calls, NEW a \in Answers, Answer(c, a),
           UNCHANGED <<file, accepted, logins, expiries, clash>>,
           refused' \in BOOLEAN, refused => refused', pc[c] # "done",
           a = "auth" /\ autoLogin /\ ~clash =>
               refused' \/ expiries > 0 \/ (c \in Plays /\ ~setUp)
    PROVE  IInv'
<1>1. "done" \in Places /\ Fresh(c) \in Ctx /\ ~Fresh(c).retried
  BY FreshIs DEF Places
<1>2. Moves(c, "done", Fresh(c), a)
  BY DEF Answer, Moves
<1>3. UNCHANGED <<autoLogin, setUp, stored, temp, content, accepted, logins, expiries, crashes, clash>>
  BY DEF file, Answer, config
<1>4. /\ userLock' \in [Procs -> Calls \cup {Free}]
      /\ refreshLock' \in [Procs -> Calls \cup {Free}]
  BY LeaveType DEF Answer, IInv, TypeOK
<1>5. Fresh(c).left <= Length(c) /\ Fresh(c).stage = "first"
  BY FreshIs
<1>6. MovesOn(c, "done", Fresh(c))
  BY DEF MovesOn
<1> QED BY <1>1, <1>2, <1>3, <1>4, <1>5, <1>6, QuietKeeps

\* An AuthRequiredError is answered only by a call that has renewed the session.
LEMMA AuthRequiredKeeps ==
    ASSUME IInv, NEW c \in Calls, AuthRequired(c), UNCHANGED <<file, lms, clash>>,
           pc[c] \in {"load", "page", "fetch"},
           ctx[c].retried /\ ~clash => expiries > 0
    PROVE  IInv'
<1>1. TypeOK /\ ShapeInv
  BY DEF IInv
<1>2. ctx[c] \in Ctx
  BY <1>1 DEF TypeOK, Ctx
<1>3. CASE autoLogin /\ ~ctx[c].retried
  <2> DEFINE x == [ctx[c] EXCEPT !.retried = TRUE]
  <2>1. Go(c, "renew", x) /\ UNCHANGED <<userLock, refreshLock>>
    BY <1>3 DEF AuthRequired, locks
  <2>2. x \in Ctx /\ x.retried /\ x.left = ctx[c].left /\ x.stage = ctx[c].stage
    BY <1>2 DEF Ctx
  <2> HIDE DEF x
  <2>3. /\ userLock' \in [Procs -> Calls \cup {Free}]
        /\ refreshLock' \in [Procs -> Calls \cup {Free}]
    BY <1>1, <2>1 DEF TypeOK
  <2>4. x.left <= Length(c) /\ (c \notin Fetches => x.stage = "first")
    BY <1>1, <2>2 DEF ShapeInv
  <2>5. MovesOn(c, "renew", x)
    BY <1>3, <2>2 DEF MovesOn
  <2>6. "renew" \in Places
    BY DEF Places
  <2> QED BY <2>1, <2>2, <2>3, <2>4, <2>5, <2>6, GoKeeps
<1>4. CASE ~ (autoLogin /\ ~ctx[c].retried)
  <2>1. Answer(c, "auth")
    BY <1>4 DEF AuthRequired
  <2>2. "auth" \in Answers /\ refused' = refused /\ refused \in BOOLEAN
    BY <1>1 DEF Answers, lms, TypeOK
  <2>3. UNCHANGED <<file, accepted, logins, expiries, clash>>
    BY DEF lms
  <2> QED BY <1>4, <2>1, <2>2, <2>3, AnswerKeeps
<1> QED BY <1>3, <1>4

-----------------------------------------------------------------------------
(* The reading steps.                                                      *)

LEMMA AskKeeps == ASSUME IInv, NEW c \in Calls, Ask(c) PROVE IInv'
<1> DEFINE place == IF c \in Fetches THEN "load" ELSE "queued"
<1>1. pc[c] = "idle" /\ Go(c, place, ctx[c]) /\ UNCHANGED <<file, lms, locks, clash>>
  BY DEF Ask, At
<1>2. place \in {"load", "queued"} /\ place \in Places
  BY DEF Places
<1> HIDE DEF place
<1>3. ctx[c] = Fresh(c) /\ Fresh(c) \in Ctx /\ ~Fresh(c).retried /\ ctx[c].left <= Length(c)
      /\ ctx[c].stage = "first"
  BY <1>1, FreshIs DEF IInv, ShapeInv
<1>4. /\ userLock' \in [Procs -> Calls \cup {Free}]
      /\ refreshLock' \in [Procs -> Calls \cup {Free}]
  BY <1>1 DEF locks, IInv, TypeOK
<1>5. MovesOn(c, place, ctx[c])
  BY <1>3 DEF MovesOn
<1> QED BY <1>1, <1>2, <1>3, <1>4, <1>5, GoKeeps

LEMMA TakeUserLockKeeps == ASSUME IInv, NEW c \in Calls, TakeUserLock(c) PROVE IInv'
<1>1. /\ pc[c] = "queued" /\ Go(c, "load", ctx[c]) /\ UNCHANGED <<file, lms, refreshLock, clash>>
      /\ userLock' = [userLock EXCEPT ![Proc(c)] = c]
  BY DEF TakeUserLock, At
<1>2. "load" \in Places
  BY DEF Places
<1>3. ctx[c] \in Ctx /\ ~ctx[c].retried /\ ctx[c].left <= Length(c) /\ ctx[c].stage = "first"
  BY <1>1 DEF IInv, TypeOK, ShapeInv, Ctx
<1>4. /\ userLock' \in [Procs -> Calls \cup {Free}]
      /\ refreshLock' \in [Procs -> Calls \cup {Free}]
  BY <1>1 DEF IInv, TypeOK
<1>5. MovesOn(c, "load", ctx[c])
  BY <1>3 DEF MovesOn
<1> QED BY <1>1, <1>2, <1>3, <1>4, <1>5, GoKeeps

LEMMA TakePlayLockKeeps == ASSUME IInv, NEW c \in Calls, TakePlayLock(c) PROVE IInv'
<1>1. pc[c] = "queued" /\ Go(c, "load", ctx[c]) /\ UNCHANGED <<file, lms, locks, clash>>
  BY DEF TakePlayLock, At
<1>2. "load" \in Places
  BY DEF Places
<1>3. ctx[c] \in Ctx /\ ~ctx[c].retried /\ ctx[c].left <= Length(c) /\ ctx[c].stage = "first"
  BY <1>1 DEF IInv, TypeOK, ShapeInv, Ctx
<1>4. /\ userLock' \in [Procs -> Calls \cup {Free}]
      /\ refreshLock' \in [Procs -> Calls \cup {Free}]
  BY <1>1 DEF locks, IInv, TypeOK
<1>5. MovesOn(c, "load", ctx[c])
  BY <1>3 DEF MovesOn
<1> QED BY <1>1, <1>2, <1>3, <1>4, <1>5, GoKeeps

\* Opening the stored file: what a call that has renewed the session finds.
LEMMA StoredIs ==
    ASSUME IInv, NEW c \in Calls, pc[c] \in {"load", "reload"}
    PROVE  /\ ctx[c].retried /\ ~clash => Readable /\ content[stored] \in Renewals
           /\ Readable => WithStored(c) \in Ctx
           /\ WithStored(c).left = ctx[c].left /\ WithStored(c).retried = ctx[c].retried
           /\ WithStored(c).stage = ctx[c].stage /\ WithStored(c).loaded = content[stored]
           /\ ctx[c].left <= Length(c)
           /\ c \notin Fetches \/ pc[c] = "load" => ctx[c].stage = "first"
           /\ setUp /\ ~clash => Readable
<1>1. ctx[c] \in Ctx /\ content \in [Nodes -> Nat] /\ stored \in Nodes \cup {Free}
  BY DEF IInv, TypeOK, Ctx
<1>2. ctx[c].retried /\ ~clash => stored # Free /\ content[stored] \in Renewals
  BY DEF IInv, RenewInv
<1>3. ctx[c].retried /\ ~clash => Readable
  BY <1>2 DEF Readable, Torn, Renewals
<1>4. Readable => content[stored] \in Nat
  BY <1>1 DEF Readable
<1>5. Readable => WithStored(c) \in Ctx
  BY <1>1, <1>4 DEF WithStored, Ctx
<1>6. /\ ctx[c].left <= Length(c)
      /\ c \notin Fetches \/ pc[c] = "load" => ctx[c].stage = "first"
  BY DEF IInv, ShapeInv
<1>7. setUp /\ ~clash => Readable
  BY DEF IInv, FileInv, Readable
<1> QED BY <1>1, <1>2, <1>3, <1>5, <1>6, <1>7 DEF WithStored, Ctx

LEMMA LoadKeeps == ASSUME IInv, NEW c \in Calls, Load(c) PROVE IInv'
<1>1. pc[c] = "load" /\ UNCHANGED <<file, lms, clash>>
  BY DEF Load, At
<1>2. CASE /\ Readable /\ Go(c, IF c \in Fetches THEN "fetch" ELSE "page", WithStored(c))
           /\ UNCHANGED locks
  <2> DEFINE place == IF c \in Fetches THEN "fetch" ELSE "page"
             x == WithStored(c)
  <2>1. place \in {"fetch", "page"} /\ place \in Places /\ (place = "fetch" => c \in Fetches)
    BY DEF Places
  <2>2. Go(c, place, x) /\ UNCHANGED locks
    BY <1>2
  <2> HIDE DEF place
  <2>3. /\ x \in Ctx /\ x.left = ctx[c].left /\ x.retried = ctx[c].retried
        /\ x.stage = ctx[c].stage /\ x.loaded = content[stored]
        /\ ctx[c].left <= Length(c) /\ ctx[c].stage = "first"
        /\ ctx[c].retried /\ ~clash => Readable /\ content[stored] \in Renewals
    BY <1>1, <1>2, StoredIs
  <2> HIDE DEF x
  <2>4. /\ userLock' \in [Procs -> Calls \cup {Free}]
        /\ refreshLock' \in [Procs -> Calls \cup {Free}]
    BY <2>2 DEF locks, IInv, TypeOK
  <2>5. MovesOn(c, place, x)
    BY <2>1, <2>3 DEF MovesOn
  <2> QED BY <1>1, <2>1, <2>2, <2>3, <2>4, <2>5, GoKeeps DEF Readable
<1>3. CASE ~Readable /\ c \in Reads \cup Syncs /\ AuthRequired(c)
  <2>1. ctx[c].retried /\ ~clash => expiries > 0
    BY <1>1, <1>3, StoredIs
  <2> QED BY <1>1, <1>3, <2>1, AuthRequiredKeeps
<1>4. CASE \/ ~Readable /\ c \in Plays /\ Answer(c, "auth")
           \/ ~Readable /\ c \in Fetches /\ Answer(c, "other")
  <2>1. {"auth", "other"} \subseteq Answers /\ refused' = refused /\ refused \in BOOLEAN
    BY <1>1 DEF Answers, lms, IInv, TypeOK
  <2>2. UNCHANGED <<file, accepted, logins, expiries, clash>>
    BY <1>1 DEF lms
  <2>3. ~clash => ~setUp
    BY <1>1, <1>4, StoredIs
  <2> QED BY <1>1, <1>4, <2>1, <2>2, <2>3, AnswerKeeps
<1> QED BY <1>2, <1>3, <1>4, Zenon DEF Load, locks

\* A failure of the network, or of the site, ends the call.
LEMMA FailureKeeps ==
    ASSUME IInv, NEW c \in Calls, Answer(c, "other"),
           UNCHANGED <<file, lms, clash>>, pc[c] # "done"
    PROVE  IInv'
<1>1. "other" \in Answers /\ refused' = refused /\ refused \in BOOLEAN
  BY DEF Answers, lms, IInv, TypeOK
<1>2. UNCHANGED <<file, accepted, logins, expiries, clash>>
  BY DEF lms
<1> QED BY <1>1, <1>2, AnswerKeeps

\* A renewed session is accepted until the LMS ends one.
LEMMA RefusedIs ==
    ASSUME IInv, NEW c \in Calls, pc[c] \in {"page", "fetch"}, ctx[c].loaded \notin accepted,
           ctx[c].retried, ~clash
    PROVE  expiries > 0
<1>1. ctx[c].loaded \in Renewals /\ (expiries = 0 => Renewals \subseteq accepted)
  BY DEF IInv, RenewInv
<1>2. expiries \in 0 .. MaxFaults /\ MaxFaults \in Nat
  BY BoundsAssumption DEF IInv, TypeOK
<1> QED BY <1>1, <1>2

LEMMA PageRefusedKeeps == ASSUME IInv, NEW c \in Calls, PageRefused(c) PROVE IInv'
<1>1. /\ pc[c] = "page" /\ ctx[c].loaded \notin accepted /\ AuthRequired(c)
      /\ UNCHANGED <<file, lms, clash>>
  BY DEF PageRefused, At
<1>2. ctx[c].retried /\ ~clash => expiries > 0
  BY <1>1, RefusedIs
<1> QED BY <1>1, <1>2, AuthRequiredKeeps

LEMMA PageReadKeeps == ASSUME IInv, NEW c \in Calls, PageRead(c) PROVE IInv'
<1>1. pc[c] = "page" /\ UNCHANGED <<file, lms, clash>>
  BY DEF PageRead, At
<1>2. CASE ctx[c].left = 1
  BY <1>1, <1>2, FailureKeeps DEF PageRead
<1>3. ASSUME ctx[c].left > 1,
             NEW place \in {"load", "queued"}, Go(c, place, [Fresh(c) EXCEPT !.left = ctx[c].left - 1]),
             userLock' \in [Procs -> Calls \cup {Free}], refreshLock' = refreshLock
      PROVE  IInv'
  <2> DEFINE x == [Fresh(c) EXCEPT !.left = ctx[c].left - 1]
  <2>1. Go(c, place, x)
    BY <1>3
  <2>2. ctx[c] \in Ctx /\ ctx[c].left <= Length(c)
    BY DEF IInv, TypeOK, ShapeInv, Ctx
  <2>3. /\ ctx[c].left \in 1 .. SyncLength + 1 /\ ctx[c].left - 1 \in 1 .. SyncLength + 1
        /\ ctx[c].left - 1 < ctx[c].left /\ ctx[c].left - 1 <= Length(c)
    BY <1>3, <2>2, FreshIs, BoundsAssumption DEF Ctx
  <2>4. x \in Ctx /\ ~x.retried /\ x.left = ctx[c].left - 1 /\ x.stage = "first"
    BY <2>3, FreshIs DEF Ctx
  <2> HIDE DEF x
  <2>5. MovesOn(c, place, x)
    BY <2>3, <2>4 DEF MovesOn
  <2>6. refreshLock' \in [Procs -> Calls \cup {Free}] /\ place \in Places
    BY <1>3 DEF IInv, TypeOK, Places
  <2> QED BY <1>1, <1>3, <2>1, <2>3, <2>4, <2>5, <2>6, GoKeeps
<1>4. userLock \in [Procs -> Calls \cup {Free}] /\ Leave(userLock, c) \in [Procs -> Calls \cup {Free}]
  BY LeaveType DEF IInv, TypeOK
<1> QED BY <1>2, <1>3, <1>4 DEF PageRead, locks

LEMMA PageFailsKeeps == ASSUME IInv, NEW c \in Calls, PageFails(c) PROVE IInv'
  BY FailureKeeps DEF PageFails, At

LEMMA FetchKeeps == ASSUME IInv, NEW c \in Calls, Fetch(c) PROVE IInv'
<1>1. pc[c] = "fetch" /\ UNCHANGED <<file, lms, clash>>
  BY DEF Fetch, At
<1>2. /\ ctx[c] \in Ctx /\ c \in Fetches /\ ctx[c].left <= Length(c)
      /\ ~clash /\ ctx[c].retried => stored # Free /\ content[stored] \in Renewals
      /\ ~clash /\ ctx[c].retried => ctx[c].loaded \in Renewals
      /\ ~clash /\ ctx[c].stage = "viewer" /\ expiries = 0 => ctx[c].loaded \in accepted
      /\ expiries \in Nat
  BY <1>1, BoundsAssumption DEF IInv, TypeOK, ShapeInv, RenewInv, Ctx
<1>3. PICK r \in Responses(c) :
         \/ r \in {"file", "html", "missing"} /\ Answer(c, "other")
         \/ r = "viewer" /\ Go(c, "fetch", [ctx[c] EXCEPT !.stage = "viewer"]) /\ UNCHANGED locks
         \/ r = "denied" /\ AuthRequired(c)
         \/ r = "page" /\ ctx[c].stage = "first" /\ MayRenew(c) /\ AuthRequired(c)
         \/ r = "page" /\ ~(ctx[c].stage = "first" /\ MayRenew(c)) /\ Answer(c, NotTheFile(c))
  BY DEF Fetch
<1>4. CASE r \in {"file", "html", "missing"} /\ Answer(c, "other")
  BY <1>1, <1>4, FailureKeeps
<1>5. CASE r = "viewer" /\ Go(c, "fetch", [ctx[c] EXCEPT !.stage = "viewer"]) /\ UNCHANGED locks
  <2> DEFINE x == [ctx[c] EXCEPT !.stage = "viewer"]
  <2>1. Go(c, "fetch", x) /\ UNCHANGED locks
    BY <1>5
  <2>2. ctx[c].loaded \in accepted
    BY <1>3, <1>5 DEF Responses
  <2>3. /\ x \in Ctx /\ x.left = ctx[c].left /\ x.retried = ctx[c].retried
        /\ x.loaded = ctx[c].loaded
    BY <1>2 DEF Ctx
  <2> HIDE DEF x
  <2>4. MovesOn(c, "fetch", x)
    BY <2>3 DEF MovesOn
  <2>5. /\ userLock' \in [Procs -> Calls \cup {Free}]
        /\ refreshLock' \in [Procs -> Calls \cup {Free}] /\ "fetch" \in Places
    BY <2>1 DEF locks, IInv, TypeOK, Places
  <2> QED BY <1>1, <1>2, <2>1, <2>2, <2>3, <2>4, <2>5, GoKeeps
<1>6. CASE r = "denied" /\ AuthRequired(c)
  <2>1. ctx[c].loaded \notin accepted
    BY <1>3, <1>6 DEF Responses
  <2>2. ctx[c].retried /\ ~clash => expiries > 0
    BY <1>1, <2>1, RefusedIs
  <2> QED BY <1>1, <1>6, <2>2, AuthRequiredKeeps
<1>7. CASE r = "page" /\ ctx[c].stage = "first" /\ MayRenew(c) /\ AuthRequired(c)
  <2>1. ~ctx[c].retried
    BY <1>7 DEF MayRenew
  <2> QED BY <1>1, <1>7, <2>1, AuthRequiredKeeps
<1>8. CASE r = "page" /\ ~(ctx[c].stage = "first" /\ MayRenew(c)) /\ Answer(c, NotTheFile(c))
  <2>1. CASE ctx[c].loaded \in accepted
    BY <1>1, <1>8, <2>1, FailureKeeps DEF NotTheFile
  <2>2. CASE ctx[c].loaded \notin accepted
    <3>1. Answer(c, "auth") /\ "auth" \in Answers
      BY <1>8, <2>2 DEF NotTheFile, Answers
    <3>2. ~clash /\ autoLogin => expiries > 0
      <4>1. CASE ctx[c].stage = "first"
        <5>1. autoLogin => ctx[c].retried
          BY <1>8, <4>1 DEF MayRenew
        <5> QED BY <1>1, <2>2, <5>1, RefusedIs
      <4>2. CASE ctx[c].stage = "viewer"
        BY <1>2, <2>2, <4>2
      <4> QED BY <4>1, <4>2, <1>2 DEF Ctx
    <3>3. /\ UNCHANGED <<file, accepted, logins, expiries, clash>>
          /\ refused' = refused /\ refused \in BOOLEAN
      BY <1>1 DEF lms, IInv, TypeOK
    <3> QED BY <1>1, <3>1, <3>2, <3>3, AnswerKeeps
  <2> QED BY <2>1, <2>2
<1> QED BY <1>3, <1>4, <1>5, <1>6, <1>7, <1>8

LEMMA FetchFailsKeeps == ASSUME IInv, NEW c \in Calls, FetchFails(c) PROVE IInv'
  BY FailureKeeps DEF FetchFails, At

LEMMA ReloadKeeps == ASSUME IInv, NEW c \in Calls, Reload(c) PROVE IInv'
<1>1. pc[c] = "reload" /\ UNCHANGED <<file, lms, clash>>
  BY DEF Reload, At
<1>2. ctx[c].retried /\ (~clash => Readable)
  <2>1. ctx[c].retried
    BY <1>1 DEF IInv, ShapeInv
  <2> QED BY <1>1, <2>1, StoredIs
<1>3. CASE ~Readable
  <2>1. Answer(c, IF c \in Fetches THEN "other" ELSE "auth")
    BY <1>3 DEF Reload
  <2>2. (IF c \in Fetches THEN "other" ELSE "auth") \in Answers
    BY DEF Answers
  <2>3. /\ UNCHANGED <<file, accepted, logins, expiries, clash>>
        /\ refused' = refused /\ refused \in BOOLEAN
    BY <1>1 DEF lms, IInv, TypeOK
  <2> QED BY <1>1, <1>2, <1>3, <2>1, <2>2, <2>3, AnswerKeeps
<1>4. CASE Readable
  <2> DEFINE place == IF c \in Fetches THEN "fetch" ELSE "page"
             x == WithStored(c)
  <2>1. Go(c, place, x) /\ UNCHANGED locks
    BY <1>4 DEF Reload
  <2>2. place \in {"fetch", "page"} /\ place \in Places /\ (place = "fetch" => c \in Fetches)
    BY DEF Places
  <2> HIDE DEF place
  <2>3. /\ x \in Ctx /\ x.left = ctx[c].left /\ x.retried = ctx[c].retried
        /\ x.stage = ctx[c].stage /\ x.loaded = content[stored]
        /\ ctx[c].left <= Length(c) /\ (c \notin Fetches => ctx[c].stage = "first")
        /\ ctx[c].retried /\ ~clash => Readable /\ content[stored] \in Renewals
    BY <1>1, <1>4, StoredIs
  <2> HIDE DEF x
  <2>4. expiries = 0 => Renewals \subseteq accepted
    BY DEF IInv, RenewInv
  <2>5. MovesOn(c, place, x)
    BY <2>2, <2>3 DEF MovesOn
  <2>6. /\ userLock' \in [Procs -> Calls \cup {Free}]
        /\ refreshLock' \in [Procs -> Calls \cup {Free}]
    BY <2>1 DEF locks, IInv, TypeOK
  <2> QED BY <1>1, <1>2, <2>1, <2>2, <2>3, <2>4, <2>5, <2>6, GoKeeps DEF Readable
<1> QED BY <1>3, <1>4

-----------------------------------------------------------------------------
(* Logging in and saving.                                                  *)

LEMMA TakeRefreshLockKeeps == ASSUME IInv, NEW c \in Calls, TakeRefreshLock(c) PROVE IInv'
<1>1. /\ pc[c] = "renew" /\ Go(c, "login", ctx[c]) /\ UNCHANGED <<file, lms, userLock, clash>>
      /\ refreshLock' = [refreshLock EXCEPT ![Proc(c)] = c]
  BY DEF TakeRefreshLock, At
<1>2. /\ ctx[c] \in Ctx /\ ctx[c].retried /\ ctx[c].left <= Length(c)
      /\ c \notin Fetches => ctx[c].stage = "first"
  BY <1>1 DEF IInv, TypeOK, ShapeInv, Ctx
<1>3. /\ userLock' \in [Procs -> Calls \cup {Free}]
      /\ refreshLock' \in [Procs -> Calls \cup {Free}] /\ "login" \in Places
  BY <1>1 DEF IInv, TypeOK, Places
<1>4. MovesOn(c, "login", ctx[c])
  BY <1>1 DEF MovesOn
<1> QED BY <1>1, <1>2, <1>3, <1>4, GoKeeps

LEMMA LoginRefusedKeeps == ASSUME IInv, NEW c \in Calls, LoginRefused(c) PROVE IInv'
<1> DEFINE a == IF c \in Fetches THEN "other" ELSE "auth"
<1>1. /\ pc[c] = "login" /\ refused' = TRUE /\ Answer(c, a)
      /\ UNCHANGED <<file, accepted, logins, expiries, clash>>
  BY DEF LoginRefused, At
<1>2. a \in Answers
  BY DEF Answers
<1> HIDE DEF a
<1> QED BY <1>1, <1>2, AnswerKeeps

LEMMA LoginFailsKeeps == ASSUME IInv, NEW c \in Calls, LoginFails(c) PROVE IInv'
  BY FailureKeeps DEF LoginFails, At

LEMMA LoginDoneKeeps == ASSUME IInv, NEW c \in Calls, LoginDone(c) PROVE IInv'
<1> DEFINE x == [ctx[c] EXCEPT !.session = logins + 1]
<1>1. TypeOK /\ ShapeInv /\ FileInv /\ RenewInv /\ StormInv /\ AuthMeansRefused
  BY DEF IInv
<1>2. /\ pc[c] = "login" /\ logins' = logins + 1 /\ accepted' = accepted \cup {logins + 1}
      /\ Go(c, "open", x)
      /\ UNCHANGED <<stored, temp, content, userLock, refreshLock, refused, expiries, clash>>
  BY DEF LoginDone, At, file, locks
<1>3. logins \in Nat /\ 1 <= logins /\ accepted \subseteq 1 .. logins
  BY <1>1 DEF TypeOK, StormInv
<1>4. ctx[c] \in Ctx /\ ctx[c].retried
  BY <1>1, <1>2 DEF TypeOK, ShapeInv, Ctx
<1>5. /\ x \in Ctx /\ x.left = ctx[c].left /\ x.retried = ctx[c].retried /\ x.stage = ctx[c].stage
      /\ x.session = logins + 1
  <2>1. logins + 1 \in Nat
    BY <1>3
  <2>2. x \in Ctx
    BY <1>4, <2>1 DEF Ctx
  <2> QED BY <1>4, <2>2 DEF Ctx
<1> HIDE DEF x
<1>6. Moves(c, "open", x, answer[c]) /\ UNCHANGED <<autoLogin, setUp, answer, crashes>>
      /\ answer[c] \in Answers \cup {"none"} /\ "open" \in Places
  BY <1>1, <1>2 DEF Go, Moves, TypeOK, config, Places
<1>7. /\ pc' \in [Calls -> Places] /\ ctx' \in [Calls -> Ctx]
      /\ pc'[c] = "open" /\ ctx'[c] = x
      /\ \A d \in Calls : d # c => pc'[d] = pc[d] /\ ctx'[d] = ctx[d]
  BY <1>1, <1>5, <1>6, MovesType
<1>8. TypeOK'
  <2>1. accepted' \subseteq 1 .. logins' /\ logins' \in Nat
    BY <1>2, <1>3
  <2> QED BY <1>1, <1>2, <1>6, <1>7, <2>1 DEF TypeOK, Ctx
<1>9. Renewals \subseteq Renewals' /\ logins + 1 \in Renewals' /\ Renewals' = Renewals \cup {logins + 1}
  BY <1>2, <1>3 DEF Renewals
<1>10. ShapeInv'
  <2>1. \A d \in Calls : Fresh(d)' = Fresh(d) /\ Length(d)' = Length(d)
    BY DEF Fresh, Length
  <2>2. ASSUME NEW d \in Calls, d # c
        PROVE  /\ pc'[d] \in {"idle", "done"} => ctx'[d] = Fresh(d)
               /\ pc'[d] = "queued" => ~ctx'[d].retried
               /\ ctx'[d].left <= Length(d)
               /\ pc'[d] = "fetch" => d \in Fetches
               /\ d \notin Fetches \/ pc'[d] \in {"load", "queued"} => ctx'[d].stage = "first"
               /\ pc'[d] \in {"renew", "login", "open", "fill", "replace", "reload"} => ctx'[d].retried
               /\ pc'[d] \in {"open", "fill", "replace"} => ctx'[d].session \in Renewals'
    BY <1>1, <1>7, <1>9, <2>2 DEF ShapeInv
  <2>3. /\ x.left <= Length(c)
        /\ c \notin Fetches => x.stage = "first"
    BY <1>1, <1>5 DEF ShapeInv
  <2> QED BY <1>4, <1>5, <1>7, <1>9, <2>1, <2>2, <2>3 DEF ShapeInv
<1>11. FileInv'
  BY <1>1, <1>2, <1>6, <1>7 DEF FileInv
<1>12. RenewInv'
  BY <1>1, <1>2, <1>7, <1>9 DEF RenewInv
<1>13. StormInv'
  <2> DEFINE o == <<c, ctx[c].left>>
  <2>1. o \in Operations
    BY <1>1, <1>4 DEF Operations, Ctx, ShapeInv
  <2>2. ctx[c].left \in Nat
    BY <1>4, BoundsAssumption DEF Ctx
  <2>3. o \notin Spent
    BY <1>2, <2>2 DEF Spent, Renewed
  <2>4. o \in Spent'
    BY <1>4, <1>5, <1>7, <2>1 DEF Spent, Renewed, Operations
  <2>5. MovesOn(c, "open", x)
    BY <1>4, <1>5 DEF MovesOn
  <2>6. Spent \subseteq Spent'
    BY <1>1, <1>2, <1>5, <1>6, <2>5, SpentGrows
  <2> HIDE DEF o
  <2>7. IsFiniteSet(Spent \cup {o}) /\ Cardinality(Spent \cup {o}) = Cardinality(Spent) + 1
    BY <2>3, SpentFinite, FS_AddElement
  <2>8. IsFiniteSet(Spent')
    <3>1. Spent' \subseteq Operations
      BY DEF Spent, Operations
    <3> QED BY <3>1, OperationsFinite, FS_Subset
  <2>9. Cardinality(Spent \cup {o}) <= Cardinality(Spent')
    BY <2>4, <2>6, <2>8, FS_Subset
  <2>10. Cardinality(Spent) \in Nat /\ Cardinality(Spent') \in Nat
    BY <2>8, SpentFinite, FS_CardinalityType
  <2>11. logins - 1 <= Cardinality(Spent)
    BY <1>1 DEF StormInv
  <2> QED BY <1>2, <1>3, <2>7, <2>9, <2>10, <2>11 DEF StormInv
<1>14. AuthMeansRefused'
  BY <1>1, <1>2, <1>6 DEF AuthMeansRefused
<1> QED BY <1>8, <1>10, <1>11, <1>12, <1>13, <1>14 DEF IInv

\* A save begins: no other is under way, unless this is the clash.
LEMMA OpenTempKeeps == ASSUME IInv, NEW c \in Calls, OpenTemp(c) PROVE IInv'
<1> DEFINE n == IF temp = Free THEN FreshNode ELSE temp
           x == [ctx[c] EXCEPT !.node = n]
<1>1. TypeOK /\ ShapeInv /\ FileInv /\ RenewInv /\ StormInv /\ AuthMeansRefused
  BY DEF IInv
<1>2. /\ pc[c] = "open" /\ temp' = n /\ content' = [content EXCEPT ![n] = Torn]
      /\ Go(c, "fill", x)
      /\ clash' = (clash \/ \E d \in Calls \ {c} : pc[d] \in {"fill", "replace"})
      /\ UNCHANGED <<stored, accepted, logins, refused, expiries, userLock, refreshLock>>
  BY DEF OpenTemp, At, lms, locks
<1>3. n \in Nodes /\ n # stored /\ n # Free
  <2>1. CASE temp = Free
    BY <1>1, <2>1, FreshNodeIs, NodesAre
  <2>2. CASE temp # Free
    BY <1>1, <2>2 DEF TypeOK, FileInv
  <2> QED BY <2>1, <2>2
<1>4. ctx[c] \in Ctx /\ ctx[c].retried /\ ctx[c].session \in Renewals
  BY <1>1, <1>2 DEF TypeOK, ShapeInv, Ctx
<1> HIDE DEF n
<1>5. /\ x \in Ctx /\ x.left = ctx[c].left /\ x.retried = ctx[c].retried /\ x.stage = ctx[c].stage
      /\ x.session = ctx[c].session /\ x.node = n
  BY <1>3, <1>4 DEF Ctx
<1> HIDE DEF x
<1>6. Moves(c, "fill", x, answer[c]) /\ UNCHANGED <<autoLogin, setUp, answer, crashes>>
      /\ answer[c] \in Answers \cup {"none"} /\ "fill" \in Places
  BY <1>1, <1>2 DEF Go, Moves, TypeOK, config, Places
<1>7. /\ pc' \in [Calls -> Places] /\ ctx' \in [Calls -> Ctx]
      /\ pc'[c] = "fill" /\ ctx'[c] = x
      /\ \A d \in Calls : d # c => pc'[d] = pc[d] /\ ctx'[d] = ctx[d]
  BY <1>1, <1>5, <1>6, MovesType
<1>8. /\ content' \in [Nodes -> Nat] /\ content'[n] = Torn
      /\ \A m \in Nodes : m # n => content'[m] = content[m]
  BY <1>1, <1>2, <1>3 DEF TypeOK, Torn
<1>9. stored # Free => stored \in Nodes /\ content'[stored] = content[stored]
  BY <1>1, <1>3, <1>8 DEF TypeOK
<1>10. ~clash' => ~clash /\ \A d \in Calls : d # c => pc[d] \notin {"fill", "replace"}
  BY <1>2
<1>11. clash' \in BOOLEAN
  BY <1>1, <1>2 DEF TypeOK
<1>12. Renewals' = Renewals
  BY <1>2 DEF Renewals
<1>13. TypeOK'
  BY <1>1, <1>2, <1>3, <1>6, <1>7, <1>8, <1>11 DEF TypeOK, Ctx
<1>14. ShapeInv'
  <2>1. \A d \in Calls : Fresh(d)' = Fresh(d) /\ Length(d)' = Length(d)
    BY DEF Fresh, Length
  <2>2. x.left <= Length(c) /\ (c \notin Fetches => x.stage = "first")
    BY <1>1, <1>5 DEF ShapeInv
  <2> QED BY <1>1, <1>4, <1>5, <1>7, <1>12, <2>1, <2>2 DEF ShapeInv
<1>15. FileInv'
  <2>1. temp' # Free /\ temp' # stored' /\ (setUp' => stored' # Free)
    BY <1>1, <1>2, <1>3, <1>6 DEF FileInv
  <2>2. ASSUME ~clash' PROVE stored' # Free => content'[stored'] # Torn
    BY <1>1, <1>2, <1>9, <1>10, <2>2 DEF FileInv
  <2>3. ASSUME ~clash', NEW d \in Calls, pc'[d] \in {"fill", "replace"} PROVE d = c
    BY <1>7, <1>10, <2>3
  <2>4. ctx'[c].node = temp' /\ content'[temp'] = Torn /\ pc'[c] # "replace"
    BY <1>2, <1>5, <1>7, <1>8
  <2> QED BY <2>1, <2>2, <2>3, <2>4 DEF FileInv
<1>16. RenewInv'
  BY <1>1, <1>2, <1>7, <1>9, <1>10, <1>12 DEF RenewInv
<1>17. StormInv'
  <2>1. MovesOn(c, "fill", x)
    BY <1>4, <1>5 DEF MovesOn
  <2>2. Spent \subseteq Spent'
    BY <1>1, <1>2, <1>5, <1>6, <2>1, SpentGrows
  <2> QED BY <1>1, <1>2, <2>2, StormKeeps
<1>18. AuthMeansRefused'
  BY <1>1, <1>2, <1>6, <1>10 DEF AuthMeansRefused
<1> QED BY <1>13, <1>14, <1>15, <1>16, <1>17, <1>18 DEF IInv

\* The only writer finds the node as it opened it.
LEMMA FillTempKeeps == ASSUME IInv, NEW c \in Calls, FillTemp(c) PROVE IInv'
<1> DEFINE n == ctx[c].node
           s == ctx[c].session
<1>1. TypeOK /\ ShapeInv /\ FileInv /\ RenewInv /\ StormInv /\ AuthMeansRefused
  BY DEF IInv
<1>2. /\ pc[c] = "fill" /\ Go(c, "replace", ctx[c])
      /\ UNCHANGED <<stored, temp, accepted, logins, refused, expiries, userLock, refreshLock, clash>>
  BY DEF FillTemp, At, lms, locks
<1>3. PICK v \in IF content[n] = Torn THEN {s} ELSE {s, Torn} : content' = [content EXCEPT ![n] = v]
  BY DEF FillTemp
<1>4. ctx[c] \in Ctx /\ ctx[c].retried /\ s \in Renewals /\ s \in Nat
  BY <1>1, <1>2 DEF TypeOK, ShapeInv, Ctx
<1>5. v \in Nat
  BY <1>3, <1>4 DEF Torn
<1>6. Moves(c, "replace", ctx[c], answer[c]) /\ UNCHANGED <<autoLogin, setUp, answer, crashes>>
      /\ answer[c] \in Answers \cup {"none"} /\ "replace" \in Places
  BY <1>1, <1>2 DEF Go, Moves, TypeOK, config, Places
<1>7. /\ pc' \in [Calls -> Places] /\ ctx' \in [Calls -> Ctx]
      /\ pc'[c] = "replace" /\ ctx'[c] = ctx[c]
      /\ \A d \in Calls : d # c => pc'[d] = pc[d] /\ ctx'[d] = ctx[d]
  BY <1>1, <1>4, <1>6, MovesType
<1>8. content' \in [Nodes -> Nat]
  BY <1>1, <1>3, <1>5 DEF TypeOK
<1>9. ~clash => /\ temp \in Nodes /\ n = temp /\ temp # stored /\ content'[temp] = s
                /\ \A m \in Nodes : m # temp => content'[m] = content[m]
                /\ \A d \in Calls : pc[d] \in {"fill", "replace"} => d = c
  <2>1. SUFFICES ASSUME ~clash
                 PROVE  /\ temp \in Nodes /\ n = temp /\ temp # stored /\ content'[temp] = s
                        /\ \A m \in Nodes : m # temp => content'[m] = content[m]
                        /\ \A d \in Calls : pc[d] \in {"fill", "replace"} => d = c
    OBVIOUS
  <2>2. temp # Free /\ n = temp /\ content[temp] = Torn /\ temp # stored
    BY <1>1, <1>2, <2>1 DEF FileInv
  <2>3. temp \in Nodes /\ v = s
    BY <1>1, <1>3, <2>2 DEF TypeOK
  <2>4. \A d \in Calls : pc[d] \in {"fill", "replace"} => d = c
    BY <1>1, <1>2, <2>1 DEF FileInv
  <2> QED BY <1>1, <1>3, <2>2, <2>3, <2>4 DEF TypeOK
<1> HIDE DEF n
<1>10. ~clash /\ stored # Free => content'[stored] = content[stored]
  BY <1>1, <1>9 DEF TypeOK
<1>11. Renewals' = Renewals
  BY <1>2 DEF Renewals
<1>12. TypeOK'
  BY <1>1, <1>2, <1>6, <1>7, <1>8 DEF TypeOK, Ctx
<1>13. ShapeInv'
  <2>1. \A d \in Calls : Fresh(d)' = Fresh(d) /\ Length(d)' = Length(d)
    BY DEF Fresh, Length
  <2> QED BY <1>1, <1>2, <1>4, <1>7, <1>11, <2>1 DEF ShapeInv
<1>14. FileInv'
  <2>1. (temp' # Free => temp' # stored') /\ (setUp' => stored' # Free)
    BY <1>1, <1>2, <1>6 DEF FileInv
  <2>2. ASSUME ~clash'
        PROVE  /\ stored' # Free => content'[stored'] # Torn
               /\ \A d, e \in Calls :
                    pc'[d] \in {"fill", "replace"} /\ pc'[e] \in {"fill", "replace"} => d = e
               /\ \A d \in Calls :
                    /\ pc'[d] \in {"fill", "replace"} => temp' # Free /\ ctx'[d].node = temp'
                    /\ pc'[d] = "fill" => content'[temp'] = Torn
                    /\ pc'[d] = "replace" => content'[temp'] = ctx'[d].session
    <3>1. ~clash /\ temp' = temp /\ stored' = stored
      BY <1>2, <2>2
    <3>2. \A d \in Calls : pc'[d] \in {"fill", "replace"} => d = c
      BY <1>7, <1>9, <3>1
    <3>3. temp # Free /\ ctx'[c].node = temp /\ content'[temp] = ctx'[c].session
      BY <1>1, <1>2, <1>7, <1>9, <3>1 DEF FileInv, n
    <3>4. stored # Free => content'[stored] # Torn
      BY <1>1, <1>10, <3>1 DEF FileInv
    <3> QED BY <1>7, <3>1, <3>2, <3>3, <3>4
  <2> QED BY <2>1, <2>2 DEF FileInv
<1>15. RenewInv'
  BY <1>1, <1>2, <1>7, <1>10, <1>11 DEF RenewInv
<1>16. StormInv'
  <2>1. MovesOn(c, "replace", ctx[c])
    BY <1>4 DEF MovesOn
  <2>2. Spent \subseteq Spent'
    BY <1>1, <1>2, <1>4, <1>6, <2>1, SpentGrows
  <2> QED BY <1>1, <1>2, <2>2, StormKeeps
<1>17. AuthMeansRefused'
  BY <1>1, <1>2, <1>6 DEF AuthMeansRefused
<1> QED BY <1>12, <1>13, <1>14, <1>15, <1>16, <1>17 DEF IInv

\* The rename: the stored name now shows the node its only writer filled.
LEMMA ReplaceStoredKeeps == ASSUME IInv, NEW c \in Calls, ReplaceStored(c) PROVE IInv'
<1> DEFINE place == IF c \in Fetches \cup Plays THEN "reload" ELSE "load"
           x == [ctx[c] EXCEPT !.session = Torn, !.node = Free]
<1>1. TypeOK /\ ShapeInv /\ FileInv /\ RenewInv /\ StormInv /\ AuthMeansRefused
  BY DEF IInv
<1>2. /\ pc[c] = "replace"
      /\ UNCHANGED <<accepted, logins, refused, expiries, clash>>
  BY DEF ReplaceStored, At, lms
<1>3. CASE temp = Free /\ Answer(c, "other") /\ UNCHANGED file
  <2>1. UNCHANGED <<file, lms, clash>>
    BY <1>2, <1>3 DEF lms
  <2> QED BY <1>2, <1>3, <2>1, FailureKeeps
<1>4. ASSUME temp # Free, stored' = temp, temp' = Free,
             content' = [m \in Nodes |-> IF m = stored /\ ~Written(m) THEN Torn ELSE content[m]],
             refreshLock' = Leave(refreshLock, c), Go(c, place, x), UNCHANGED userLock
      PROVE  IInv'
  <2>1. /\ place \in {"reload", "load"} /\ place \in Places
        /\ (place = "load" => c \notin Fetches)
    BY DEF Places
  <2>2. ctx[c] \in Ctx /\ ctx[c].retried /\ ctx[c].session \in Renewals
    BY <1>1, <1>2 DEF TypeOK, ShapeInv, Ctx
  <2>3. /\ x \in Ctx /\ x.left = ctx[c].left /\ x.retried = ctx[c].retried
        /\ x.stage = ctx[c].stage /\ x.loaded = ctx[c].loaded
    BY <2>2 DEF Ctx, Torn
  <2>4. Go(c, place, x)
    BY <1>4
  <2> HIDE DEF place, x
  <2>5. Moves(c, place, x, answer[c]) /\ UNCHANGED <<autoLogin, setUp, answer, crashes>>
        /\ answer[c] \in Answers \cup {"none"}
    BY <1>1, <2>4 DEF Go, Moves, TypeOK, config
  <2>6. /\ pc' \in [Calls -> Places] /\ ctx' \in [Calls -> Ctx]
        /\ pc'[c] = place /\ ctx'[c] = x
        /\ \A d \in Calls : d # c => pc'[d] = pc[d] /\ ctx'[d] = ctx[d]
    BY <1>1, <2>1, <2>3, <2>5, MovesType
  <2>7. temp \in Nodes /\ temp # stored
    BY <1>1, <1>4 DEF TypeOK, FileInv
  <2>8. content' \in [Nodes -> Nat] /\ content'[temp] = content[temp]
    BY <1>1, <1>4, <2>7 DEF TypeOK, Torn
  <2>9. ~clash => /\ content'[temp] \in Renewals
                  /\ \A d \in Calls : pc'[d] \notin {"fill", "replace"}
    <3>1. SUFFICES ASSUME ~clash
                   PROVE  /\ content'[temp] \in Renewals
                          /\ \A d \in Calls : pc'[d] \notin {"fill", "replace"}
      OBVIOUS
    <3>2. content[temp] = ctx[c].session
      BY <1>1, <1>2, <3>1 DEF FileInv
    <3>3. \A d \in Calls : pc[d] \in {"fill", "replace"} => d = c
      BY <1>1, <1>2, <3>1 DEF FileInv
    <3> QED BY <2>1, <2>2, <2>6, <2>8, <3>2, <3>3
  <2>10. Renewals' = Renewals
    BY <1>2 DEF Renewals
  <2>11. TypeOK'
    <3>1. refreshLock' \in [Procs -> Calls \cup {Free}]
      BY <1>1, <1>4, LeaveType DEF TypeOK
    <3> QED BY <1>1, <1>2, <1>4, <2>5, <2>6, <2>7, <2>8, <3>1 DEF TypeOK, Ctx
  <2>12. ShapeInv'
    <3>1. \A d \in Calls : Fresh(d)' = Fresh(d)
      BY DEF Fresh, Length
    <3>2. x.left <= Length(c) /\ (c \notin Fetches => x.stage = "first")
      BY <1>1, <2>3 DEF ShapeInv
    <3> QED BY <1>1, <2>1, <2>2, <2>3, <2>6, <2>10, <3>1, <3>2 DEF ShapeInv
  <2>13. FileInv'
    <3>1. ~clash' => content'[stored'] # Torn
      BY <1>2, <1>4, <2>9 DEF Torn, Renewals
    <3> QED BY <1>2, <1>4, <2>9, <3>1 DEF FileInv
  <2>14. RenewInv'
    <3>1. ~clash' => stored' # Free /\ content'[stored'] \in Renewals'
      BY <1>2, <1>4, <2>9, <2>10
    <3>2. ASSUME ~clash', NEW d \in Calls
          PROVE  /\ ctx'[d].retried /\ pc'[d] \in {"page", "fetch"} => ctx'[d].loaded \in Renewals'
                 /\ pc'[d] = "fetch" /\ ctx'[d].stage = "viewer" /\ expiries' = 0 =>
                      ctx'[d].loaded \in accepted'
      BY <1>1, <1>2, <2>1, <2>6, <2>10, <3>2 DEF RenewInv
    <3> QED BY <1>1, <1>2, <2>10, <3>1, <3>2 DEF RenewInv
  <2>15. StormInv'
    <3>1. MovesOn(c, place, x)
      BY <2>1, <2>2, <2>3 DEF MovesOn
    <3>2. Spent \subseteq Spent'
      BY <1>1, <1>2, <2>1, <2>3, <2>5, <3>1, SpentGrows
    <3> QED BY <1>1, <1>2, <3>2, StormKeeps
  <2>16. AuthMeansRefused'
    BY <1>1, <1>2, <2>5 DEF AuthMeansRefused
  <2> QED BY <2>11, <2>12, <2>13, <2>14, <2>15, <2>16 DEF IInv
<1> QED BY <1>3, <1>4 DEF ReplaceStored

-----------------------------------------------------------------------------
(* The environment, and the whole.                                         *)

\* Once the LMS has ended a session, an authentication error has its reason.
LEMMA ExpireKeeps == ASSUME IInv, Expire PROVE IInv'
<1>1. TypeOK /\ ShapeInv /\ FileInv /\ RenewInv /\ StormInv /\ AuthMeansRefused
  BY DEF IInv
<1>2. /\ expiries + crashes < MaxFaults /\ accepted' \subseteq accepted /\ expiries' = expiries + 1
      /\ UNCHANGED <<autoLogin, setUp, stored, temp, content, logins, refused, userLock, refreshLock,
                     pc, answer, ctx, crashes, clash>>
  BY DEF Expire, file, locks, config
<1>3. expiries \in Nat /\ crashes \in Nat /\ MaxFaults \in Nat
  BY <1>1, BoundsAssumption DEF TypeOK
<1>4. expiries' \in 0 .. MaxFaults /\ expiries' > 0 /\ expiries' # 0
  BY <1>2, <1>3
<1>5. TypeOK'
  BY <1>1, <1>2, <1>4 DEF TypeOK
<1>6. ShapeInv'
  <2>1. Renewals' = Renewals /\ \A d \in Calls : Fresh(d)' = Fresh(d) /\ Length(d)' = Length(d)
    BY <1>2 DEF Renewals, Fresh, Length
  <2> QED BY <1>1, <1>2, <2>1 DEF ShapeInv
<1>7. FileInv'
  BY <1>1, <1>2 DEF FileInv
<1>8. RenewInv'
  <2>1. Renewals' = Renewals
    BY <1>2 DEF Renewals
  <2> QED BY <1>1, <1>2, <1>4, <2>1 DEF RenewInv
<1>9. StormInv'
  <2>1. Spent' = Spent
    BY <1>2 DEF Spent, Renewed, Operations
  <2> QED BY <1>1, <1>2, <2>1, StormKeeps
<1>10. AuthMeansRefused'
  BY <1>4 DEF AuthMeansRefused
<1> QED BY <1>5, <1>6, <1>7, <1>8, <1>9, <1>10 DEF IInv

\* The calls of a dead process have failed; the files stay as they were.
LEMMA CrashKeeps == ASSUME IInv, Crash PROVE IInv'
<1>1. TypeOK /\ ShapeInv /\ FileInv /\ RenewInv /\ StormInv /\ AuthMeansRefused
  BY DEF IInv
<1>2. /\ expiries + crashes < MaxFaults /\ crashes' = crashes + 1
      /\ UNCHANGED <<autoLogin, setUp, stored, temp, content, accepted, logins, refused, expiries, clash>>
  BY DEF Crash, file, lms, config
<1> DEFINE Dies(dead, c) == Proc(c) \in dead /\ pc[c] \notin {"idle", "done"}
<1>3. PICK dead \in SUBSET Procs :
        /\ pc' = [c \in Calls |-> IF Dies(dead, c) THEN "done" ELSE pc[c]]
        /\ answer' = [c \in Calls |-> IF Dies(dead, c) THEN "other" ELSE answer[c]]
        /\ ctx' = [c \in Calls |-> IF Dies(dead, c) THEN Fresh(c) ELSE ctx[c]]
        /\ userLock' = [p \in Procs |-> IF p \in dead THEN Free ELSE userLock[p]]
        /\ refreshLock' = [p \in Procs |-> IF p \in dead THEN Free ELSE refreshLock[p]]
  BY DEF Crash
<1> HIDE DEF Dies
<1>4. /\ pc \in [Calls -> Places] /\ ctx \in [Calls -> Ctx]
      /\ answer \in [Calls -> Answers \cup {"none"}]
      /\ userLock \in [Procs -> Calls \cup {Free}] /\ refreshLock \in [Procs -> Calls \cup {Free}]
  BY <1>1 DEF TypeOK, Ctx
<1>5. \A c \in Calls :
        \/ pc'[c] = "done" /\ answer'[c] = "other" /\ ctx'[c] = Fresh(c)
        \/ pc'[c] = pc[c] /\ answer'[c] = answer[c] /\ ctx'[c] = ctx[c]
  BY <1>3
<1>6. TypeOK'
  <2>1. pc' \in [Calls -> Places]
    BY <1>3, <1>4 DEF Places
  <2>2. answer' \in [Calls -> Answers \cup {"none"}]
    BY <1>3, <1>4 DEF Answers
  <2>3. ctx' \in [Calls -> Ctx]
    BY <1>3, <1>4, FreshIs
  <2>4. /\ userLock' \in [Procs -> Calls \cup {Free}]
        /\ refreshLock' \in [Procs -> Calls \cup {Free}]
    BY <1>3, <1>4
  <2>5. crashes' \in 0 .. MaxFaults
    <3>1. expiries \in Nat /\ crashes \in Nat /\ MaxFaults \in Nat
      BY <1>1, BoundsAssumption DEF TypeOK
    <3> QED BY <1>2, <3>1
  <2> QED BY <1>1, <1>2, <2>1, <2>2, <2>3, <2>4, <2>5 DEF TypeOK, Ctx
<1>7. ShapeInv'
  <2>1. Renewals' = Renewals /\ \A d \in Calls : Fresh(d)' = Fresh(d) /\ Length(d)' = Length(d)
    BY <1>2 DEF Renewals, Fresh, Length
  <2>2. \A d \in Calls : Fresh(d).left <= Length(d) /\ Fresh(d).stage = "first" /\ ~Fresh(d).retried
    BY FreshIs
  <2> QED BY <1>1, <1>5, <2>1, <2>2 DEF ShapeInv
<1>8. FileInv'
  BY <1>1, <1>2, <1>5 DEF FileInv
<1>9. RenewInv'
  <2>1. Renewals' = Renewals /\ \A d \in Calls : ~Fresh(d).retried
    BY <1>2, FreshIs DEF Renewals
  <2> QED BY <1>1, <1>2, <1>5, <2>1 DEF RenewInv
<1>10. StormInv'
  <2>1. \A o \in Operations : o[1] \in Calls
    BY DEF Operations
  <2>2. ASSUME NEW o \in Operations, Renewed(o[1], o[2]) PROVE Renewed(o[1], o[2])'
    BY <1>5, <2>1, <2>2 DEF Renewed
  <2>3. Spent \subseteq Spent'
    BY <2>2 DEF Spent, Operations
  <2> QED BY <1>1, <1>2, <2>3, StormKeeps
<1>11. AuthMeansRefused'
  BY <1>1, <1>2, <1>5 DEF AuthMeansRefused
<1> QED BY <1>6, <1>7, <1>8, <1>9, <1>10, <1>11 DEF IInv

LEMMA StutterHolds == IInv /\ UNCHANGED vars => IInv'
<1> SUFFICES ASSUME IInv, UNCHANGED vars PROVE IInv'
  OBVIOUS
<1>1. UNCHANGED <<autoLogin, setUp, stored, temp, content, accepted, logins, refused, expiries,
                  userLock, refreshLock, pc, answer, ctx, crashes, clash>>
  BY DEF vars, file, lms, locks, config
<1>2. Renewals' = Renewals /\ Spent' = Spent
      /\ \A d \in Calls : Fresh(d)' = Fresh(d) /\ Length(d)' = Length(d)
  BY <1>1 DEF Renewals, Fresh, Length, Spent, Renewed, Operations
<1>3. TypeOK' /\ AuthMeansRefused'
  BY <1>1 DEF IInv, TypeOK, AuthMeansRefused
<1>4. ShapeInv'
  BY <1>1, <1>2 DEF IInv, ShapeInv
<1>5. FileInv'
  BY <1>1 DEF IInv, FileInv
<1>6. RenewInv'
  BY <1>1, <1>2 DEF IInv, RenewInv
<1>7. StormInv'
  BY <1>1, <1>2 DEF IInv, StormInv
<1> QED BY <1>3, <1>4, <1>5, <1>6, <1>7 DEF IInv

LEMMA NextHolds == IInv /\ Next => IInv'
<1> SUFFICES ASSUME IInv, Next PROVE IInv'
  OBVIOUS
<1>1. CASE \E c \in Calls : Ask(c) \/ Step(c)
  <2>1. PICK c \in Calls : Ask(c) \/ Step(c)
    BY <1>1
  <2>2. CASE Ask(c)
    BY <2>2, AskKeeps
  <2>3. CASE TakeUserLock(c) \/ TakePlayLock(c) \/ Load(c)
    BY <2>3, TakeUserLockKeeps, TakePlayLockKeeps, LoadKeeps
  <2>4. CASE PageRefused(c) \/ PageRead(c) \/ PageFails(c)
    BY <2>4, PageRefusedKeeps, PageReadKeeps, PageFailsKeeps
  <2>5. CASE Fetch(c) \/ FetchFails(c) \/ Reload(c)
    BY <2>5, FetchKeeps, FetchFailsKeeps, ReloadKeeps
  <2>6. CASE TakeRefreshLock(c) \/ LoginRefused(c) \/ LoginFails(c) \/ LoginDone(c)
    BY <2>6, TakeRefreshLockKeeps, LoginRefusedKeeps, LoginFailsKeeps, LoginDoneKeeps
  <2>7. CASE OpenTemp(c) \/ FillTemp(c) \/ ReplaceStored(c)
    BY <2>7, OpenTempKeeps, FillTempKeeps, ReplaceStoredKeeps
  <2> QED BY <2>1, <2>2, <2>3, <2>4, <2>5, <2>6, <2>7 DEF Step
<1>2. CASE Expire
  BY <1>2, ExpireKeeps
<1>3. CASE Crash
  BY <1>3, CrashKeeps
<1> QED BY <1>1, <1>2, <1>3 DEF Next

LEMMA Inductive == Spec => []IInv
<1>1. IInv /\ [Next]_vars => IInv'
  BY NextHolds, StutterHolds
<1> QED BY InitHolds, <1>1, PTL DEF Spec

(***************************************************************************)
(* Whatever process dies between the open, the write and the rename of     *)
(* save_encrypted_storage_state, and in whatever order the calls of the    *)
(* two processes renew the session: the stored file is a whole session,    *)
(* unless both processes were inside a save at once.                       *)
(***************************************************************************)
THEOREM StoredStaysWhole == Spec => []WholeUnlessClash
<1>1. IInv => WholeUnlessClash
  BY DEF IInv, FileInv, WholeUnlessClash
<1> QED BY <1>1, Inductive, PTL

(***************************************************************************)
(* A call that renewed the session finds a renewed session that the LMS    *)
(* accepts: with automatic login it answers an authentication error only   *)
(* for a login the LMS refused or a session it ended meanwhile - or it is  *)
(* a play, and no session was stored before the first call.                *)
(***************************************************************************)
THEOREM AuthHasAReason == Spec => []AuthMeansRefused
<1>1. IInv => AuthMeansRefused
  BY DEF IInv
<1> QED BY <1>1, Inductive, PTL

(***************************************************************************)
(* The types, and at most one login per adapter operation, download and    *)
(* play, for any number of calls, of operations of a synchronisation and   *)
(* of faults: each login uses up the one renewal of an operation.          *)
(***************************************************************************)
THEOREM SessionCorrect == Spec => []SessionInv
<1>1. IInv => SessionInv
  <2>1. SUFFICES ASSUME IInv PROVE SessionInv
    OBVIOUS
  <2>2. logins \in Nat /\ logins - 1 <= Cardinality(Spent)
    BY <2>1 DEF IInv, TypeOK, StormInv
  <2> DEFINE Asked == {o \in Operations : pc[o[1]] # "idle"}
  <2>3. Spent \subseteq Asked
    <3>1. SUFFICES ASSUME NEW c \in Calls, NEW k \in 1 .. Length(c), pc[c] = "idle"
                   PROVE  ~Renewed(c, k)
      BY DEF Spent, Operations
    <3>2. ctx[c] = Fresh(c)
      BY <2>1, <3>1 DEF IInv, ShapeInv
    <3>3. Length(c) \in Nat
      BY BoundsAssumption DEF Length
    <3> QED BY <3>1, <3>2, <3>3 DEF Renewed, Fresh
  <2>4. IsFiniteSet(Asked)
    <3>1. Asked \subseteq Operations
      OBVIOUS
    <3> QED BY <3>1, OperationsFinite, FS_Subset
  <2>5. Cardinality(Spent) <= Cardinality(Asked) /\ Cardinality(Asked) \in Nat
    BY <2>3, <2>4, FS_Subset, FS_CardinalityType
  <2>6. NoLoginStorm
    BY <2>2, <2>5, SpentFinite DEF NoLoginStorm
  <2> QED BY <2>1, <2>6 DEF IInv, SessionInv
<1> QED BY <1>1, Inductive, PTL
=============================================================================
