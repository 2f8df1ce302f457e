------------------------------ MODULE Targets_proofs ------------------------------
(***************************************************************************)
(* What words select, and what becomes of it.  First, what the selections  *)
(* are made of keeps of a list.  Then one call of the E-Class handler: its *)
(* results are earned by the tools' answers, its downloads are whole       *)
(* batches, and it answers once, as SpecialistStep promises.  Then the     *)
(* runtime: the files a plan is bound to, and those its document step gets *)
(* from the context that requests and events share.                        *)
(***************************************************************************)
EXTENDS EclassStep, PlanRuntime, SequenceTheorems, WellFoundedInduction, TLAPS

-----------------------------------------------------------------------------
(* Induction over the natural numbers, for a set of them.                  *)

\* The order of Nat as a set of pairs.
Below == {p \in Nat \X Nat : p[1] < p[2]}

LEMMA LeastElement ==
    ASSUME NEW T, T \subseteq Nat, T # {}
    PROVE  \E n \in T : \A m \in T : n <= m
<1>1. IsWellFoundedOn(Below, Nat)
  BY Zenon, NatLessThanWellFounded DEF OpToRel, Below
<1>2. PICK n \in T : \A m \in T : ~ (<<m, n>> \in Below)
  BY <1>1, WFMin, Zenon
<1>3. \A m \in T : ~ (m < n)
  BY <1>2 DEF Below
<1> QED BY <1>3

LEMMA SetInduction ==
    ASSUME NEW P, 0 \in P, \A n \in Nat : n \in P => n + 1 \in P
    PROVE  Nat \subseteq P
<1>1. SUFFICES ASSUME Nat \ P # {} PROVE FALSE
  OBVIOUS
<1>2. PICK n \in Nat \ P : \A m \in Nat \ P : n <= m
  BY <1>1, LeastElement, Zenon
<1>3. n # 0 /\ n - 1 \in Nat
  BY <1>2
<1>4. n - 1 \in P
  BY <1>2, <1>3
<1>5. (n - 1) + 1 \in P
  BY <1>3, <1>4
<1> QED BY <1>2, <1>3, <1>5

-----------------------------------------------------------------------------
(* Keep, which is a recursive function.                                    *)

\* The body of its definition.
KeptStep(l, S, kept, i) ==
    IF i = 0 THEN <<>>
    ELSE IF l[i] \in S THEN Append(kept[i - 1], l[i]) ELSE kept[i - 1]

LEMMA KeepExists ==
    ASSUME NEW l, NEW S, NEW n \in Nat
    PROVE  \E kept : kept = [i \in 0..n |-> KeptStep(l, S, kept, i)]
<1> DEFINE P == {m \in Nat : \E kept : kept = [i \in 0..m |-> KeptStep(l, S, kept, i)]}
<1>1. 0 \in P
  <2> DEFINE k == [i \in 0..0 |-> <<>>]
  <2>1. k = [i \in 0..0 |-> KeptStep(l, S, k, i)]
    BY DEF KeptStep
  <2> QED BY <2>1
<1>2. ASSUME NEW m \in Nat, m \in P PROVE m + 1 \in P
  <2>1. PICK old : old = [i \in 0..m |-> KeptStep(l, S, old, i)]
    BY <1>2
  <2> DEFINE k == [i \in 0..(m + 1) |-> IF i <= m THEN old[i] ELSE KeptStep(l, S, old, i)]
  <2>2. ASSUME NEW i \in 0..(m + 1) PROVE k[i] = KeptStep(l, S, k, i)
    <3>1. i # 0 => k[i - 1] = old[i - 1]
      OBVIOUS
    <3>2. KeptStep(l, S, k, i) = KeptStep(l, S, old, i)
      BY <3>1 DEF KeptStep
    <3>3. i <= m => old[i] = KeptStep(l, S, old, i)
      BY <2>1, i \in 0..m <=> i <= m
    <3> QED BY <3>2, <3>3
  <2>3. k = [i \in 0..(m + 1) |-> KeptStep(l, S, k, i)]
    BY <2>2
  <2> HIDE DEF k
  <2> QED BY <2>3
<1>3. Nat \subseteq P
  <2> HIDE DEF P
  <2> QED BY <1>1, <1>2, SetInduction
<1> QED BY <1>3

\* s has exactly those of the first n items of l that are in S, in their order:
\* e gives the places they come from.
Embeds(e, s, l, S, n) ==
    /\ e \in [1..Len(s) -> 1..n]
    /\ \A k \in 1..Len(s) : s[k] = l[e[k]] /\ s[k] \in S
    /\ \A k, m \in 1..Len(s) : k < m => e[k] < e[m]
    /\ \A j \in 1..n : l[j] \in S => \E k \in 1..Len(s) : e[k] = j

\* _matches filters of the runtime and the E-Class handler: what they keep of a
\* list is every match, in the order of the list, and nothing else.
THEOREM KeepIs ==
    ASSUME NEW X, NEW l \in Seq(X), NEW S
    PROVE  /\ Keep(l, S) \in Seq(X)
           /\ \E e : Embeds(e, Keep(l, S), l, S, Len(l))
<1> DEFINE K == CHOOSE kept : kept = [i \in 0..Len(l) |-> KeptStep(l, S, kept, i)]
<1>1. Keep(l, S) = K[Len(l)]
  BY Zenon DEF Keep, KeptStep
<1>2. K = [i \in 0..Len(l) |-> KeptStep(l, S, K, i)]
  <2>1. Len(l) \in Nat
    OBVIOUS
  <2> QED BY <2>1, KeepExists, Zenon
<1> HIDE DEF K
<1> DEFINE P == {n \in Nat : n <= Len(l) => K[n] \in Seq(X) /\ \E e : Embeds(e, K[n], l, S, n)}
<1>3. 0 \in P
  <2>1. K[0] = <<>>
    BY <1>2 DEF KeptStep
  <2>2. Embeds(<<>>, <<>>, l, S, 0)
    BY DEF Embeds
  <2>3. K[0] \in Seq(X) /\ \E e : Embeds(e, K[0], l, S, 0)
    BY <2>1, <2>2
  <2> QED BY <2>3
<1>4. ASSUME NEW n \in Nat, n \in P PROVE n + 1 \in P
  <2>1. SUFFICES ASSUME n + 1 <= Len(l)
                 PROVE  K[n + 1] \in Seq(X) /\ \E e : Embeds(e, K[n + 1], l, S, n + 1)
    OBVIOUS
  <2>2. K[n] \in Seq(X)
    BY <1>4, <2>1
  <2>3. PICK e : Embeds(e, K[n], l, S, n)
    BY <1>4, <2>1
  <2>4. K[n + 1] = IF l[n + 1] \in S THEN Append(K[n], l[n + 1]) ELSE K[n]
    <3>1. K[n + 1] = KeptStep(l, S, K, n + 1)
      BY <1>2, <2>1
    <3>2. n + 1 # 0 /\ (n + 1) - 1 = n
      OBVIOUS
    <3> QED BY <3>1, <3>2 DEF KeptStep
  <2>5. /\ e \in [1..Len(K[n]) -> 1..n] /\ Len(K[n]) \in Nat
        /\ \A k \in 1..Len(K[n]) : K[n][k] = l[e[k]] /\ K[n][k] \in S /\ e[k] \in 1..n
        /\ \A k, m \in 1..Len(K[n]) : k < m => e[k] < e[m]
        /\ \A j \in 1..n : l[j] \in S => \E k \in 1..Len(K[n]) : e[k] = j
    BY <2>2, <2>3 DEF Embeds
  <2>6. CASE l[n + 1] \notin S
    <3>1. Embeds(e, K[n], l, S, n + 1)
      <4>1. e \in [1..Len(K[n]) -> 1..(n + 1)]
        BY <2>5
      <4>2. \A j \in 1..(n + 1) : l[j] \in S => j \in 1..n
        BY <2>6
      <4> QED BY <2>5, <4>1, <4>2 DEF Embeds
    <3> QED BY <3>1, <2>2, <2>4, <2>6
  <2>7. CASE l[n + 1] \in S
    <3> DEFINE s == Append(K[n], l[n + 1])
               f == [k \in 1..Len(s) |-> IF k <= Len(K[n]) THEN e[k] ELSE n + 1]
    <3>1. l[n + 1] \in X
      BY <2>1
    <3>2. /\ s \in Seq(X) /\ Len(s) = Len(K[n]) + 1 /\ Len(K[n]) \in Nat
          /\ \A k \in 1..Len(K[n]) : s[k] = K[n][k]
          /\ s[Len(K[n]) + 1] = l[n + 1]
      BY <2>2, <3>1
    <3> HIDE DEF s
    <3>3. /\ \A k \in 1..Len(K[n]) : f[k] = e[k] /\ e[k] \in 1..n
          /\ f[Len(K[n]) + 1] = n + 1
      BY <2>5, <3>2
    <3>4. f \in [1..Len(s) -> 1..(n + 1)]
      BY <3>2, <2>5
    <3>5. \A k \in 1..Len(s) : s[k] = l[f[k]] /\ s[k] \in S
      <4> HIDE DEF f
      <4>1. ASSUME NEW k \in 1..Len(s) PROVE s[k] = l[f[k]] /\ s[k] \in S
        <5>1. CASE k = Len(K[n]) + 1
          BY <5>1, <3>2, <3>3, <2>7
        <5>2. CASE k \in 1..Len(K[n])
          BY <5>2, <3>2, <3>3, <2>5
        <5> QED BY <5>1, <5>2, <3>2
      <4> QED BY <4>1
    <3> HIDE DEF f
    <3>6. ASSUME NEW k \in 1..Len(s), NEW m \in 1..Len(s), k < m PROVE f[k] < f[m]
      <4>1. k \in 1..Len(K[n])
        BY <3>6, <3>2
      <4>2. CASE m = Len(K[n]) + 1
        BY <4>1, <4>2, <3>3
      <4>3. CASE m \in 1..Len(K[n])
        BY <4>1, <4>3, <3>6, <3>3, <2>5
      <4> QED BY <4>2, <4>3, <3>2
    <3>7. ASSUME NEW j \in 1..(n + 1), l[j] \in S PROVE \E k \in 1..Len(s) : f[k] = j
      <4>1. CASE j = n + 1
        BY <4>1, <3>2, <3>3
      <4>2. CASE j # n + 1
        <5>1. PICK k \in 1..Len(K[n]) : e[k] = j
          BY <4>2, <3>7, <2>5
        <5>2. k \in 1..Len(s) /\ f[k] = j
          BY <5>1, <3>2, <3>3
        <5> QED BY <5>2
      <4> QED BY <4>1, <4>2
    <3>8. Embeds(f, s, l, S, n + 1)
      BY <3>4, <3>5, <3>6, <3>7 DEF Embeds
    <3>9. K[n + 1] = s
      BY <2>4, <2>7 DEF s
    <3> QED BY <3>8, <3>9, <3>2
  <2> QED BY <2>6, <2>7
<1>5. Nat \subseteq P
  <2> HIDE DEF P
  <2> QED BY <1>3, <1>4, SetInduction
<1>6. Len(l) \in P /\ Len(l) <= Len(l)
  BY <1>5
<1> QED BY <1>1, <1>6

-----------------------------------------------------------------------------
(* Distinct, which is a recursive function as well.                        *)

\* The body of its definition.
OnceStep(l, once, i) ==
    IF i = 0 THEN <<>>
    ELSE IF \E m \in 1..(i - 1) : l[m] = l[i] THEN once[i - 1]
    ELSE Append(once[i - 1], l[i])

LEMMA DistinctExists ==
    ASSUME NEW l, NEW n \in Nat
    PROVE  \E once : once = [i \in 0..n |-> OnceStep(l, once, i)]
<1> DEFINE P == {m \in Nat : \E once : once = [i \in 0..m |-> OnceStep(l, once, i)]}
<1>1. 0 \in P
  <2> DEFINE k == [i \in 0..0 |-> <<>>]
  <2>1. k = [i \in 0..0 |-> OnceStep(l, k, i)]
    BY DEF OnceStep
  <2> QED BY <2>1
<1>2. ASSUME NEW m \in Nat, m \in P PROVE m + 1 \in P
  <2>1. PICK old : old = [i \in 0..m |-> OnceStep(l, old, i)]
    BY <1>2
  <2> DEFINE k == [i \in 0..(m + 1) |-> IF i <= m THEN old[i] ELSE OnceStep(l, old, i)]
  <2>2. ASSUME NEW i \in 0..(m + 1) PROVE k[i] = OnceStep(l, k, i)
    <3>1. i # 0 => k[i - 1] = old[i - 1]
      OBVIOUS
    <3>2. OnceStep(l, k, i) = OnceStep(l, old, i)
      BY <3>1 DEF OnceStep
    <3>3. i <= m => old[i] = OnceStep(l, old, i)
      BY <2>1, i \in 0..m <=> i <= m
    <3> QED BY <3>2, <3>3
  <2>3. k = [i \in 0..(m + 1) |-> OnceStep(l, k, i)]
    BY <2>2
  <2> HIDE DEF k
  <2> QED BY <2>3
<1>3. Nat \subseteq P
  <2> HIDE DEF P
  <2> QED BY <1>1, <1>2, SetInduction
<1> QED BY <1>3

\* s has each of the first n items of l once.
OnceEach(s, l, n) ==
    /\ \A k, m \in 1..Len(s) : s[k] = s[m] => k = m
    /\ \A k \in 1..Len(s) : \E i \in 1..n : s[k] = l[i]
    /\ \A i \in 1..n : \E k \in 1..Len(s) : s[k] = l[i]

\* dict.fromkeys in the memory of the runtime: no reference is lost, none is
\* kept twice, and none is made up.
THEOREM DistinctIs ==
    ASSUME NEW X, NEW l \in Seq(X)
    PROVE  /\ Distinct(l) \in Seq(X)
           /\ ToSet(Distinct(l)) = ToSet(l)
           /\ IsInjective(Distinct(l))
<1> DEFINE O == CHOOSE once : once = [i \in 0..Len(l) |-> OnceStep(l, once, i)]
<1>1. Distinct(l) = O[Len(l)]
  BY Zenon DEF Distinct, OnceStep
<1>2. O = [i \in 0..Len(l) |-> OnceStep(l, O, i)]
  <2>1. Len(l) \in Nat
    OBVIOUS
  <2> QED BY <2>1, DistinctExists, Zenon
<1> HIDE DEF O
<1> DEFINE P == {n \in Nat : n <= Len(l) => O[n] \in Seq(X) /\ OnceEach(O[n], l, n)}
<1>3. 0 \in P
  <2>1. O[0] = <<>>
    BY <1>2 DEF OnceStep
  <2>2. O[0] \in Seq(X) /\ Len(O[0]) = 0
    BY <2>1
  <2> QED BY <2>2 DEF OnceEach
<1>4. ASSUME NEW n \in Nat, n \in P PROVE n + 1 \in P
  <2>1. SUFFICES ASSUME n + 1 <= Len(l)
                 PROVE  O[n + 1] \in Seq(X) /\ OnceEach(O[n + 1], l, n + 1)
    OBVIOUS
  <2> DEFINE s == O[n]
             x == l[n + 1]
  <2>2. /\ s \in Seq(X) /\ Len(s) \in Nat /\ x \in X
        /\ \A k, m \in 1..Len(s) : s[k] = s[m] => k = m
        /\ \A k \in 1..Len(s) : \E i \in 1..n : s[k] = l[i]
        /\ \A i \in 1..n : \E k \in 1..Len(s) : s[k] = l[i]
    BY <1>4, <2>1 DEF OnceEach
  <2>3. O[n + 1] = IF \E m \in 1..n : l[m] = x THEN s ELSE Append(s, x)
    <3>1. O[n + 1] = OnceStep(l, O, n + 1)
      BY <1>2, <2>1
    <3>2. n + 1 # 0 /\ (n + 1) - 1 = n
      OBVIOUS
    <3> QED BY <3>1, <3>2 DEF OnceStep
  <2> HIDE DEF s
  <2>4. \A i \in 1..(n + 1) : i \in 1..n \/ i = n + 1
    OBVIOUS
  <2>5. CASE \E m \in 1..n : l[m] = x
    <3>1. \A k \in 1..Len(s) : \E i \in 1..(n + 1) : s[k] = l[i]
      BY <2>2
    <3>2. \A i \in 1..(n + 1) : \E k \in 1..Len(s) : s[k] = l[i]
      BY <2>2, <2>4, <2>5
    <3>3. OnceEach(s, l, n + 1)
      BY <2>2, <3>1, <3>2 DEF OnceEach
    <3>4. O[n + 1] = s
      BY <2>3, <2>5
    <3> QED BY <2>2, <3>3, <3>4
  <2>6. CASE ~ \E m \in 1..n : l[m] = x
    <3> DEFINE t == Append(s, x)
    <3>1. /\ t \in Seq(X) /\ Len(t) = Len(s) + 1
          /\ \A k \in 1..Len(s) : t[k] = s[k]
          /\ t[Len(s) + 1] = x
      BY <2>2
    <3> HIDE DEF t, x
    <3>2. \A k \in 1..Len(t) : k \in 1..Len(s) \/ k = Len(s) + 1
      BY <2>2, <3>1
    <3>3. \A k \in 1..Len(s) : s[k] # x
      BY <2>2, <2>6
    <3>4. ASSUME NEW k \in 1..Len(t), NEW m \in 1..Len(t), t[k] = t[m] PROVE k = m
      <4>1. CASE k \in 1..Len(s) /\ m \in 1..Len(s)
        <5>1. s[k] = s[m]
          BY <3>1, <3>4, <4>1
        <5> QED BY <2>2, <4>1, <5>1
      <4>2. CASE k \in 1..Len(s) /\ m = Len(s) + 1
        BY <3>1, <3>3, <3>4, <4>2
      <4>3. CASE k = Len(s) + 1 /\ m \in 1..Len(s)
        BY <3>1, <3>3, <3>4, <4>3
      <4> QED BY <3>2, <4>1, <4>2, <4>3
    <3>5. ASSUME NEW k \in 1..Len(t) PROVE \E i \in 1..(n + 1) : t[k] = l[i]
      <4>1. CASE k \in 1..Len(s)
        <5>1. PICK i \in 1..n : s[k] = l[i]
          BY <2>2, <4>1
        <5> QED BY <3>1, <4>1, <5>1
      <4>2. CASE k = Len(s) + 1
        <5>1. t[k] = l[n + 1] /\ n + 1 \in 1..(n + 1)
          BY <3>1, <4>2 DEF x
        <5> QED BY <5>1
      <4> QED BY <3>2, <4>1, <4>2
    <3>6. ASSUME NEW i \in 1..(n + 1) PROVE \E k \in 1..Len(t) : t[k] = l[i]
      <4>1. CASE i \in 1..n
        <5>1. PICK k \in 1..Len(s) : s[k] = l[i]
          BY <2>2, <4>1
        <5> QED BY <2>2, <3>1, <5>1
      <4>2. CASE i = n + 1
        <5>1. t[Len(s) + 1] = l[i] /\ Len(s) + 1 \in 1..Len(t)
          BY <2>2, <3>1, <4>2 DEF x
        <5> QED BY <5>1
      <4> QED BY <2>4, <4>1, <4>2
    <3>7. O[n + 1] = t
      BY <2>3, <2>6 DEF t
    <3> QED BY <3>1, <3>4, <3>5, <3>6, <3>7 DEF OnceEach
  <2> QED BY <2>5, <2>6
<1>5. Nat \subseteq P
  <2> HIDE DEF P
  <2> QED BY <1>3, <1>4, SetInduction
<1> DEFINE d == Distinct(l)
<1>6. d \in Seq(X) /\ OnceEach(d, l, Len(l))
  BY <1>1, <1>5
<1> HIDE DEF d
<1>7. DOMAIN d = 1..Len(d) /\ DOMAIN l = 1..Len(l)
  BY <1>6
<1>8. ToSet(d) = ToSet(l)
  <2>1. /\ \A k \in DOMAIN d : \E i \in DOMAIN l : d[k] = l[i]
        /\ \A i \in DOMAIN l : \E k \in DOMAIN d : d[k] = l[i]
    BY <1>6, <1>7 DEF OnceEach
  <2>2. ASSUME NEW x PROVE x \in ToSet(d) <=> x \in ToSet(l)
    BY <2>1 DEF ToSet
  <2> QED BY <2>2
<1>9. IsInjective(d)
  BY <1>6, <1>7 DEF OnceEach, IsInjective
<1> QED BY <1>6, <1>8, <1>9 DEF d

-----------------------------------------------------------------------------
(* What is kept last.                                                      *)

LEMMA KeptAre ==
    ASSUME NEW X, NEW l \in Seq(X), NEW S
    PROVE  Keep(l, S) \in Seq(X) /\ ToSet(Keep(l, S)) = ToSet(l) \cap S
<1> DEFINE s == Keep(l, S)
<1>1. s \in Seq(X) /\ \E e : Embeds(e, s, l, S, Len(l))
  BY KeepIs
<1> HIDE DEF s
<1>2. PICK e : Embeds(e, s, l, S, Len(l))
  BY <1>1
<1>3. DOMAIN s = 1..Len(s) /\ DOMAIN l = 1..Len(l)
  BY <1>1
<1>4. ToSet(s) = ToSet(l) \cap S
  BY <1>2, <1>3 DEF Embeds, ToSet
<1> QED BY <1>1, <1>4 DEF s

\* The last item kept is the last of the list that is in S.
LEMMA LastKept ==
    ASSUME NEW X, NEW l \in Seq(X), NEW S, Keep(l, S) # <<>>
    PROVE  \E k \in 1..Len(l) :
              /\ Last(Keep(l, S)) = l[k] /\ l[k] \in S
              /\ \A m \in 1..Len(l) : l[m] \in S => m <= k
<1> DEFINE s == Keep(l, S)
<1>1. s \in Seq(X) /\ s # <<>> /\ \E e : Embeds(e, s, l, S, Len(l))
  BY KeepIs
<1> HIDE DEF s
<1>2. PICK e : Embeds(e, s, l, S, Len(l))
  BY <1>1
<1>3. Len(s) \in 1..Len(s) /\ Last(s) = s[Len(s)]
  BY <1>1 DEF Last
<1>4. e \in [1..Len(s) -> 1..Len(l)]
  BY <1>2 DEF Embeds
<1>5. e[Len(s)] \in 1..Len(l) /\ Last(s) = l[e[Len(s)]] /\ Last(s) \in S
  BY <1>2, <1>3, <1>4 DEF Embeds
<1>6. ASSUME NEW m \in 1..Len(l), l[m] \in S PROVE m <= e[Len(s)]
  <2>1. PICK k \in 1..Len(s) : e[k] = m
    BY <1>2, <1>6 DEF Embeds
  <2>2. k = Len(s) \/ k < Len(s)
    BY <1>1
  <2>3. k < Len(s) => e[k] < e[Len(s)]
    BY <1>2, <1>3 DEF Embeds
  <2>4. e[k] \in Nat /\ e[Len(s)] \in Nat
    BY <1>3, <1>4
  <2> QED BY <2>1, <2>2, <2>3, <2>4
<1> QED BY <1>5, <1>6 DEF s

LEMMA JoinIs ==
    ASSUME NEW X, NEW s \in Seq(X), NEW t \in Seq(X)
    PROVE  /\ DOMAIN s = 1..Len(s) /\ Len(s) \in Nat
           /\ DOMAIN (s \o t) = 1..(Len(s) + Len(t))
           /\ \A i \in 1..Len(s) : (s \o t)[i] = s[i]
           /\ \A i \in 1..Len(t) : (s \o t)[Len(s) + i] = t[i]
OBVIOUS

-----------------------------------------------------------------------------
(* The attachments of a download.                                          *)

\* d has items of l, in the order of l.
InOrder(d, l) ==
    \A i, j \in DOMAIN d : i < j =>
        \E k, m \in DOMAIN l : k < m /\ l[k] = d[i] /\ l[m] = d[j]

\* A list in the order of another one without repetitions has none itself.
LEMMA InOrderIsInjective ==
    ASSUME NEW X, NEW d \in Seq(X), NEW l \in Seq(X), IsInjective(l), InOrder(d, l)
    PROVE  IsInjective(d)
<1>1. SUFFICES ASSUME NEW i \in DOMAIN d, NEW j \in DOMAIN d, d[i] = d[j], i < j PROVE FALSE
  BY DEF IsInjective
<1>2. PICK k, m \in DOMAIN l : k < m /\ l[k] = d[i] /\ l[m] = d[j]
  BY <1>1 DEF InOrder
<1> QED BY <1>1, <1>2 DEF IsInjective

LEMMA KeepIsInOrder ==
    ASSUME NEW X, NEW l \in Seq(X), NEW S
    PROVE  Keep(l, S) \in Seq(X) /\ InOrder(Keep(l, S), l) /\ ToSet(Keep(l, S)) \subseteq S
<1> DEFINE s == Keep(l, S)
<1>1. s \in Seq(X) /\ \E e : Embeds(e, s, l, S, Len(l))
  BY KeepIs
<1> HIDE DEF s
<1>2. PICK e : Embeds(e, s, l, S, Len(l))
  BY <1>1
<1>3. /\ DOMAIN s = 1..Len(s) /\ DOMAIN l = 1..Len(l)
      /\ \A k \in 1..Len(s) : s[k] = l[e[k]] /\ s[k] \in S /\ e[k] \in 1..Len(l)
      /\ \A k, m \in 1..Len(s) : k < m => e[k] < e[m]
  BY <1>1, <1>2 DEF Embeds
<1>4. InOrder(s, l)
  BY <1>3 DEF InOrder
<1>5. ToSet(s) \subseteq S
  BY <1>3 DEF ToSet
<1> QED BY <1>1, <1>4, <1>5 DEF s

\* What _select_attachments_for_download chooses: a batch within the limit, in
\* the order of the listing, and of the file the user named when one was named.
THEOREM SelectionIs ==
    ASSUME NEW X, NEW l \in Seq(X), NEW q, q.filename => q.given, NEW n \in Nat
    PROVE  LET d == SelectForDownload(n, q, l) IN
           /\ d \in Seq(X)
           /\ d # <<>> => Sound(d)
           /\ InOrder(d, l)
           /\ q.filename /\ n = 0 => ToSet(d) \subseteq q.matches
<1> DEFINE named == Keep(l, q.matches)
           selected ==
               IF n > 0 THEN IF n <= Len(l) THEN <<l[n]>> ELSE <<>>
               ELSE IF ~q.given THEN l
               ELSE IF named # <<>> THEN named
               ELSE IF q.filename THEN <<>> ELSE l
<1>1. SelectForDownload(n, q, l) = IF Sound(selected) THEN selected ELSE <<>>
  BY Zenon DEF SelectForDownload
<1>2. named \in Seq(X) /\ InOrder(named, l) /\ ToSet(named) \subseteq q.matches
  BY KeepIsInOrder
<1> HIDE DEF named
<1>3. InOrder(l, l) /\ InOrder(<<>>, l) /\ ToSet(<<>>) = {}
  BY DEF InOrder, ToSet
<1>4. ASSUME n > 0, n <= Len(l) PROVE <<l[n]>> \in Seq(X) /\ InOrder(<<l[n]>>, l)
  BY <1>4 DEF InOrder
<1>5. selected \in Seq(X) /\ InOrder(selected, l)
  BY <1>2, <1>3, <1>4
<1>6. ASSUME q.filename, n = 0 PROVE ToSet(selected) \subseteq q.matches
  BY <1>2, <1>3, <1>6
<1> HIDE DEF selected
<1> QED BY <1>1, <1>3, <1>5, <1>6

-----------------------------------------------------------------------------
(* Tasks.                                                                  *)

LEMMA QueryTextIs == ASSUME NEW q \in QueryTexts PROVE q.filename => q.given
<1>1. CASE q = NoQuery
  BY <1>1 DEF NoQuery
<1>2. CASE q \in [given : {TRUE}, matches : SUBSET Files, filename : BOOLEAN]
  <2>1. q.given \in {TRUE}
    BY <1>2
  <2> QED BY <2>1, Zenon
<1> QED BY <1>1, <1>2 DEF QueryTexts

LEMMA TaskIs ==
    ASSUME NEW t \in Tasks
    PROVE  /\ t.target \in Targets
           /\ t.query \in QueryTexts
           /\ t.target = "lecture" => t.action \in {"PLAY", "PREVIEW"}
           /\ t.target = "unnamedLecture" => t.action \in {"PLAY", "PREVIEW"}
           /\ t.target = "announcement" => t.entity = "ANNOUNCEMENT" /\ t.action = "DETAIL"
           /\ t.target = "assignment" =>
                \/ t.entity = "ATTACHMENT" /\ t.action \in Queries
                \/ t.entity = "ASSIGNMENT" /\ t.action = "DETAIL"
           /\ t.target = "files" =>
                /\ t.action = "DOWNLOAD" /\ t.files \in Listings /\ Sound(t.files)
                /\ t.query = NoQuery
           /\ t.target # "files" => t.files = <<>>
           /\ t.action = "DOWNLOAD" \/ t.query = NoQuery
           /\ t.action \in Controls => t.entity = "LECTURE"
           /\ t.entity \in Entities /\ t.action \in Queries \cup Controls
           /\ t.ordinal \in Nat
<1>1. CASE \E c \in Combinations :
             t = [entity |-> c[1], action |-> c[2], target |-> c[3],
                  ordinal |-> 0, query |-> NoQuery, files |-> <<>>]
  <2>1. PICK c \in Combinations :
             t = [entity |-> c[1], action |-> c[2], target |-> c[3],
                  ordinal |-> 0, query |-> NoQuery, files |-> <<>>]
    BY <1>1
  <2>2. c[1] \in Entities /\ c[2] \in Queries \cup Controls /\ c[3] \in Targets \ {"files"}
    BY DEF Combinations, Entities, Queries, Controls, Targets
  <2>3. /\ c[3] \in {"lecture", "unnamedLecture"} => c[2] \in {"PLAY", "PREVIEW"}
        /\ c[3] = "announcement" => c[1] = "ANNOUNCEMENT" /\ c[2] = "DETAIL"
        /\ c[3] = "assignment" =>
             \/ c[1] = "ATTACHMENT" /\ c[2] \in Queries
             \/ c[1] = "ASSIGNMENT" /\ c[2] = "DETAIL"
        /\ c[2] \in Controls => c[1] = "LECTURE"
    BY DEF Combinations, Queries, Controls
  <2>4. NoQuery \in QueryTexts
    BY DEF QueryTexts
  <2> QED BY <2>1, <2>2, <2>3, <2>4
<1>2. CASE \E b \in {"none", "assignment"}, o \in 0..Cardinality(Files), q \in QueryTexts :
             t = [entity |-> "ATTACHMENT", action |-> "DOWNLOAD", target |-> b,
                  ordinal |-> o, query |-> q, files |-> <<>>]
  BY <1>2 DEF Targets, Entities, Queries, Controls
<1>3. CASE \E l \in {k \in Listings : Sound(k)} :
             t = [entity |-> "ATTACHMENT", action |-> "DOWNLOAD", target |-> "files",
                  ordinal |-> 0, query |-> NoQuery, files |-> l]
  BY <1>3 DEF Targets, Entities, Queries, Controls, QueryTexts
<1> QED BY <1>1, <1>2, <1>3 DEF Tasks

-----------------------------------------------------------------------------
(* A call of the E-Class handler: the inductive invariant.                 *)

\* What the await the handler is suspended at says of the task.
PlaceInv ==
    /\ at # "done" => result = Pending
    /\ at \in {"agent", "fallback"} => task.target = "none"
    /\ at = "fallback" => task.action \in {"PLAY", "PREVIEW"}
    /\ at = "unnamed" => task.target = "unnamedLecture"
    /\ at \in {"resolve", "play"} => task.target = "lecture"
    /\ at = "announcement" => task.target = "announcement"
    /\ at \in {"details", "list"} => task.target = "assignment"
    /\ at = "details" => task.entity = "ASSIGNMENT"
    /\ at = "list" => task.entity = "ATTACHMENT"
    /\ at = "download" => task.action = "DOWNLOAD"

\* A captured answer was given, by a tool the task allows.
CaptureInv ==
    \A tool \in Tools :
        /\ capture[tool] # "none" => tool \in Allowed(task)
        /\ capture[tool] \in Outcomes => <<tool, capture[tool]>> \in heard

\* The evidence an Agent run has is of every playback answered for so far; a
\* direct route has started none before its last step.
Known == (1..plays) \ lost
PlayInv ==
    /\ at \in {"agent", "fallback"} => evidence = Known
    /\ at = "agent" /\ capture["play"] = "none" => plays = 0
    /\ plays > 0 => task.action \in {"PLAY", "PREVIEW"}
    /\ at # "done" /\ task.target # "none" => plays = 0
    /\ at = "play" => <<"resolve", "FOUND">> \in heard

\* A batch under way is one the request stands for, and is not yet complete.
BatchInv ==
    /\ at \notin {"download", "done"} => got = 0 /\ (task.target # "files" => chosen = <<>>)
    /\ at = "download" =>
         /\ got < Len(chosen) /\ Sound(chosen) /\ IsInjective(chosen)
         /\ task.target # "files" => InOrder(chosen, files) /\ <<"list", "FOUND">> \in heard

\* What the answer promises.
AnswerInv ==
    at = "done" =>
        /\ result.status \in {"COMPLETED", "FAILED", "AUTH_REQUIRED"}
        /\ result.status # "COMPLETED" => result.downloads = <<>>
        /\ result.downloads \in Seq(Files) /\ IsInjective(result.downloads)
        /\ Len(result.downloads) <= MaxBatch
        /\ result.listed \in Seq(Files)

Earned ==
    /\ StatusIsEarned
    /\ BatchIsWhole
    /\ PlaybacksAreKnown
    /\ TargetPlaysOnce

IInv == TypeOK /\ PlaceInv /\ CaptureInv /\ PlayInv /\ BatchInv /\ AnswerInv /\ Earned

-----------------------------------------------------------------------------
(* Facts about the operators.                                              *)

LEMMA ContractIs ==
    ASSUME NEW o
    PROVE  /\ Contract(o) \in {"COMPLETED", "FAILED", "AUTH_REQUIRED"}
           /\ Contract(o) = "COMPLETED" <=> o \in {"FOUND", "NOT_FOUND", "AMBIGUOUS"}
           /\ Contract(o) = "AUTH_REQUIRED" <=> o = "AUTH_REQUIRED"
           /\ DirectContract(o) \in {"COMPLETED", "FAILED", "AUTH_REQUIRED"}
           /\ DirectContract(o) = "COMPLETED" <=> o = "FOUND"
           /\ DirectContract(o) = "AUTH_REQUIRED" <=> o = "AUTH_REQUIRED"
  BY DEF Contract, DirectContract

LEMMA AllowedIs ==
    ASSUME NEW t \in Tasks
    PROVE  /\ Allowed(t) \subseteq Tools
           /\ "play" \in Allowed(t) \/ "resolve" \in Allowed(t) => t.action \in {"PLAY", "PREVIEW"}
           /\ "stop" \in Allowed(t) => t.action = "STOP"
           /\ "details" \in Allowed(t) => t.action = "DETAIL"
           /\ "list" \in Allowed(t) => t.action \in Queries
           /\ "list" \in Allowed(t) /\ t.action = "DOWNLOAD" => t.entity = "ATTACHMENT"
           /\ "courseList" \in Allowed(t) =>
                t.action \in {"LIST", "DETAIL"} /\ t.entity \notin {"ATTACHMENT", "GRADE"}
<1>1. t.action \in Queries \cup Controls /\ (t.action \in Controls => t.entity = "LECTURE")
  BY TaskIs
<1>2. CASE t.action = "LIST"
  BY <1>2 DEF Allowed, ListTools, Tools, Queries
<1>3. CASE t.action = "DETAIL"
  BY <1>3 DEF Allowed, ListTools, Tools, Queries
<1>4. CASE t.action = "DOWNLOAD"
  BY <1>4 DEF Allowed, ListTools, Tools, Queries
<1>5. CASE t.action \in Controls
  BY <1>1, <1>5 DEF Allowed, ListTools, Tools, Queries, Controls
<1> QED BY <1>1, <1>2, <1>3, <1>4, <1>5 DEF Queries

LEMMA InitHolds == Init => IInv
<1> SUFFICES ASSUME Init PROVE IInv
  OBVIOUS
<1> USE StepAssumption
<1>1. task \in Tasks /\ at = Route(task)
  BY DEF Init
<1>2. task.target # "files" => task.files = <<>>
  BY <1>1, TaskIs
<1>3. task.target = "files" =>
        task.action = "DOWNLOAD" /\ task.files \in Listings /\ Sound(task.files) /\ task.query = NoQuery
  BY <1>1, TaskIs
<1>4. task.files \in Listings
  <2>1. CASE task.target = "files"
    BY <2>1, <1>3
  <2>2. CASE task.target # "files"
    BY <2>2, <1>2
  <2> QED BY <2>1, <2>2
<1>5. chosen = task.files /\ chosen \in Seq(Files) /\ IsInjective(chosen)
  BY <1>4 DEF Init
<1>6. task.target = "assignment" => task.entity \in {"ATTACHMENT", "ASSIGNMENT"}
  BY <1>1, TaskIs
<1>7. task.target \in Targets
  BY <1>1, TaskIs
<1>8. TypeOK
  <2>1. at \in {"agent", "unnamed", "resolve", "announcement", "details", "list", "download"}
    BY <1>1 DEF Route
  <2>2. result.playbacks = {}
    BY DEF Init, Pending, Result
  <2> QED BY <1>1, <1>5, <2>1, <2>2 DEF Init, TypeOK
<1>9. PlaceInv
  BY <1>1, <1>3, <1>6, <1>7 DEF Init, Route, PlaceInv, Targets
<1>10. CaptureInv
  BY DEF Init, CaptureInv, Outcomes
<1>11. PlayInv
  BY <1>1 DEF Init, PlayInv, Known, Route
<1>12. BatchInv
  <2>1. at = "download" => task.target = "files"
    BY <1>1 DEF Route
  <2>2. task.target = "files" => at = "download"
    BY <1>1 DEF Route
  <2>3. Sound(chosen) /\ chosen \in Seq(Files) => 0 < Len(chosen)
    BY DEF Sound
  <2> QED BY <1>2, <1>3, <1>5, <2>1, <2>2, <2>3 DEF Init, BatchInv
<1>13. AnswerInv
  BY <1>1 DEF AnswerInv, Route
<1>14. Earned
  <2>1. result.status = "none"
    BY DEF Init, Pending, Result
  <2>2. plays = 0
    BY DEF Init
  <2>3. task.query.filename /\ (task.ordinal = 0 \/ task.target = "assignment")
          => ToSet(chosen) \subseteq task.query.matches
    <3>1. CASE task.target = "files"
      BY <3>1, <1>3 DEF NoQuery
    <3>2. CASE task.target # "files"
      BY <3>2, <1>2, <1>5 DEF ToSet
    <3> QED BY <3>1, <3>2
  <2> QED BY <2>1, <2>2, <2>3
         DEF Earned, StatusIsEarned, BatchIsWhole, PlaybacksAreKnown, TargetPlaysOnce
<1> QED BY <1>8, <1>9, <1>10, <1>11, <1>12, <1>13, <1>14 DEF IInv

-----------------------------------------------------------------------------
(* What most steps have in common.                                         *)

\* At most one playback is started, by a video task; its answer may be lost.
PlayStep ==
    \/ UNCHANGED playVars
    \/ /\ plays' = plays + 1 /\ lost' \in {lost, lost \cup {plays'}}
       /\ task.action \in {"PLAY", "PREVIEW"}

\* Every call of the video tool is such a step.
LEMMA PlaysStep ==
    ASSUME TypeOK, NEW o, Plays(o)
    PROVE  /\ task.action \in {"PLAY", "PREVIEW"} => PlayStep
           /\ plays \in Nat /\ plays' \in Nat
           /\ o = "FOUND" => plays' = plays + 1
           /\ o \notin {"FOUND", "garbled"} => plays' = plays
           /\ Known' = Known \cup Reference(o)
           /\ plays' # plays => lost' = lost \/ lost' = lost \cup {plays'}
<1>1. plays \in Nat /\ lost \subseteq 1..plays
  BY DEF TypeOK
<1>2. \/ o = "FOUND" /\ plays' = plays + 1 /\ lost' = lost
      \/ o = "garbled" /\ plays' = plays + 1 /\ lost' = lost \cup {plays'}
      \/ o # "FOUND" /\ plays' = plays /\ lost' = lost
  BY DEF Plays, playVars
<1>3. plays + 1 \notin lost /\ plays + 1 \notin 1..plays /\ 1..(plays + 1) = (1..plays) \cup {plays + 1}
  BY <1>1
<1>4. Known' = Known \cup Reference(o)
  <2>1. Known' = (1..plays') \ lost'
    BY DEF Known
  <2>2. CASE o = "FOUND" /\ plays' = plays + 1 /\ lost' = lost
    BY <1>3, <2>1, <2>2 DEF Known, Reference
  <2>3. CASE o = "garbled" /\ plays' = plays + 1 /\ lost' = lost \cup {plays'}
    <3>1. Reference(o) = {}
      BY <2>3 DEF Reference
    <3> QED BY <1>3, <2>1, <2>3, <3>1 DEF Known
  <2>4. CASE o # "FOUND" /\ plays' = plays /\ lost' = lost
    BY <2>1, <2>4 DEF Known, Reference
  <2> QED BY <1>2, <2>2, <2>3, <2>4
<1> QED BY <1>1, <1>2, <1>4 DEF PlayStep, playVars

\* A step that ends the handler with a result without downloads.
LEMMA AnswerKeeps ==
    ASSUME IInv, at # "done", at' = "done",
           UNCHANGED <<task, calls, capture, evidence, chosen, got>>, files' \in Listings,
           heard \subseteq heard', heard' \subseteq Tools \X (Answers \cup {"OTHER"}),
           PlayStep,
           result'.status \in {"COMPLETED", "FAILED", "AUTH_REQUIRED"},
           result'.downloads = <<>>,
           result'.listed \in Seq(Files),
           result'.playbacks \subseteq 1..plays',
           result'.status = "COMPLETED" =>
               /\ task.action # "DOWNLOAD" /\ heard' \cap Earns(task) # {}
               /\ result'.playbacks = Known',
           result'.status = "AUTH_REQUIRED" /\ task.action # "DOWNLOAD" =>
               \E tool \in Tools : <<tool, "AUTH_REQUIRED">> \in heard',
           plays' # plays /\ task.target \in {"lecture", "unnamedLecture"} =>
               <<"resolve", "FOUND">> \in heard' /\ (result'.status = "COMPLETED" \/ lost' = {1})
    PROVE  IInv'
<1> USE StepAssumption
<1>1. TypeOK
  BY DEF IInv
<1>2. plays' \in Nat /\ lost' \subseteq 1..plays' /\ evidence' \subseteq 1..plays'
  <2>1. plays \in Nat /\ lost \subseteq 1..plays /\ evidence \subseteq 1..plays
    BY <1>1 DEF TypeOK
  <2>2. CASE UNCHANGED playVars
    BY <2>1, <2>2 DEF playVars
  <2>3. CASE plays' = plays + 1 /\ lost' \in {lost, lost \cup {plays'}}
    BY <2>1, <2>3
  <2> QED BY <2>2, <2>3 DEF PlayStep
<1>3. TypeOK'
  BY <1>1, <1>2 DEF TypeOK
<1>4. PlaceInv' /\ BatchInv'
  BY DEF PlaceInv, BatchInv
<1>5. CaptureInv'
  BY DEF IInv, CaptureInv
<1>6. PlayInv'
  BY <1>1 DEF IInv, PlayInv, TypeOK, PlayStep, playVars
<1>7. AnswerInv'
  BY DEF AnswerInv, IsInjective
<1>8. StatusIsEarned' /\ PlaybacksAreKnown'
  BY DEF StatusIsEarned, PlaybacksAreKnown, Known
<1>9. BatchIsWhole'
  BY DEF IInv, Earned, BatchIsWhole
<1>10. TargetPlaysOnce'
  <2>1. task.target \in {"lecture", "unnamedLecture"} => plays = 0
    BY DEF IInv, PlayInv
  <2> QED BY <2>1 DEF TargetPlaysOnce, PlayStep, playVars
<1> QED BY <1>3, <1>4, <1>5, <1>6, <1>7, <1>8, <1>9, <1>10 DEF IInv, Earned

\* The same without a playback.
LEMMA QuietAnswerKeeps ==
    ASSUME IInv, at # "done", at' = "done",
           UNCHANGED <<task, calls, capture, evidence, chosen, got, plays, lost>>,
           files' \in Listings,
           heard \subseteq heard', heard' \subseteq Tools \X (Answers \cup {"OTHER"}),
           result'.status \in {"COMPLETED", "FAILED", "AUTH_REQUIRED"},
           result'.downloads = <<>>,
           result'.listed \in Seq(Files),
           result'.playbacks \subseteq 1..plays,
           result'.status = "COMPLETED" =>
               /\ task.action # "DOWNLOAD" /\ heard' \cap Earns(task) # {}
               /\ result'.playbacks = Known',
           result'.status = "AUTH_REQUIRED" /\ task.action # "DOWNLOAD" =>
               \E tool \in Tools : <<tool, "AUTH_REQUIRED">> \in heard'
    PROVE  IInv'
<1>1. PlayStep
  BY DEF PlayStep, playVars
<1>2. UNCHANGED <<task, calls, capture, evidence, chosen, got>> /\ plays' = plays
  OBVIOUS
<1> QED BY <1>1, <1>2, AnswerKeeps

\* A step after which the handler goes on.
LEMMA GoesOn ==
    ASSUME at' # "done", result' = Pending, task' = task, PlayInv',
           task.query.filename /\ (task.ordinal = 0 \/ task.target = "assignment")
             => ToSet(chosen') \subseteq task.query.matches
    PROVE  AnswerInv' /\ Earned'
<1>1. result'.status = "none"
  BY DEF Pending, Result
<1>2. AnswerInv'
  BY DEF AnswerInv
<1>3. StatusIsEarned' /\ PlaybacksAreKnown'
  BY <1>1 DEF StatusIsEarned, PlaybacksAreKnown
<1>4. BatchIsWhole'
  BY <1>1 DEF BatchIsWhole
<1>5. TargetPlaysOnce'
  BY DEF PlayInv, TargetPlaysOnce
<1> QED BY <1>2, <1>3, <1>4, <1>5 DEF Earned

-----------------------------------------------------------------------------
(* The Agent's steps.                                                      *)

LEMMA AgentCallsKeeps ==
    ASSUME IInv, NEW tool \in Tools, NEW o \in Answers, AgentCalls(tool, o)
    PROVE  IInv'
<1> USE StepAssumption
<1>1. TypeOK /\ PlaceInv /\ CaptureInv /\ PlayInv /\ BatchInv /\ Earned
  BY DEF IInv
<1>2. /\ at = "agent" /\ at' = "agent" /\ calls < MaxCalls /\ tool \in Allowed(task)
      /\ calls' = calls + 1 /\ task' = task /\ result' = result
      /\ files' = files /\ chosen' = chosen /\ got' = got
      /\ capture' = [capture EXCEPT ![tool] = Captured(tool, o)]
      /\ heard' = heard \cup {<<tool, o>>}
  BY DEF AgentCalls, Hear, Stay, batchVars
<1>3. \/ tool = "play" /\ Plays(o) /\ evidence' = evidence \cup Reference(o)
      \/ tool # "play" /\ plays' = plays /\ lost' = lost /\ evidence' = evidence
  BY DEF AgentCalls, playVars
<1>4. Captured(tool, o) \in Answers \cup {"none"} /\ capture \in [Tools -> Answers \cup {"none"}]
  <2>1. capture \in [Tools -> Answers \cup {"none"}]
    BY <1>1 DEF TypeOK
  <2>2. capture[tool] \in Answers \cup {"none"}
    BY <2>1
  <2> QED BY <2>1, <2>2 DEF Captured
<1>5. capture' \in [Tools -> Answers \cup {"none"}]
  BY <1>2, <1>4
<1>6. /\ plays \in Nat /\ plays' \in Nat /\ lost' \subseteq 1..plays'
      /\ evidence' = Known' /\ evidence' \subseteq 1..plays'
  <2>1. plays \in Nat /\ lost \subseteq 1..plays /\ evidence = Known
    BY <1>1, <1>2 DEF TypeOK, PlayInv
  <2>2. CASE tool = "play" /\ Plays(o) /\ evidence' = evidence \cup Reference(o)
    <3>1. plays' \in Nat /\ evidence' = Known'
      BY <1>1, <2>1, <2>2, PlaysStep
    <3>2. \/ plays' = plays + 1 /\ lost' \in {lost, lost \cup {plays'}}
          \/ plays' = plays /\ lost' = lost
      BY <2>2 DEF Plays, playVars
    <3>3. 1..(plays + 1) = (1..plays) \cup {plays + 1}
      BY <2>1
    <3>4. lost' \subseteq 1..plays'
      BY <2>1, <3>2, <3>3
    <3> QED BY <2>1, <3>1, <3>4 DEF Known
  <2>3. CASE plays' = plays /\ lost' = lost /\ evidence' = evidence
    BY <2>1, <2>3 DEF Known
  <2> QED BY <1>3, <2>2, <2>3
<1>7. TypeOK'
  <2>1. result'.playbacks \subseteq 1..plays'
    BY <1>1, <1>2 DEF PlaceInv, Pending, Result
  <2>2. calls' \in 0..MaxCalls
    BY <1>1, <1>2 DEF TypeOK
  <2>3. heard' \subseteq Tools \X (Answers \cup {"OTHER"})
    BY <1>1, <1>2 DEF TypeOK
  <2> QED BY <1>1, <1>2, <1>5, <1>6, <2>1, <2>2, <2>3 DEF TypeOK
<1>8. PlaceInv'
  BY <1>1, <1>2 DEF PlaceInv
<1>9. CaptureInv'
  <2>1. ASSUME NEW u \in Tools, u # tool
        PROVE  /\ capture'[u] # "none" => u \in Allowed(task)
               /\ capture'[u] \in Outcomes => <<u, capture'[u]>> \in heard'
    <3>1. capture'[u] = capture[u]
      BY <1>2, <1>4, <2>1
    <3> QED BY <1>1, <1>2, <3>1 DEF CaptureInv
  <2>2. /\ capture'[tool] # "none" => tool \in Allowed(task)
        /\ capture'[tool] \in Outcomes => <<tool, capture'[tool]>> \in heard'
    <3>1. capture'[tool] = Captured(tool, o)
      BY <1>2, <1>4
    <3>2. Captured(tool, o) \in {"none", o, capture[tool]}
      BY DEF Captured
    <3>3. "none" \notin Outcomes
      BY DEF Outcomes
    <3> QED BY <1>1, <1>2, <3>1, <3>2, <3>3 DEF CaptureInv
  <2> QED BY <1>2, <2>1, <2>2 DEF CaptureInv
<1>10. PlayInv'
  <2>1. tool = "play" => task.action \in {"PLAY", "PREVIEW"}
    BY <1>1, <1>2, AllowedIs DEF TypeOK
  <2>2. task.target = "none"
    BY <1>1, <1>2 DEF PlaceInv
  <2>3. capture'["play"] = "none" => capture["play"] = "none" /\ tool # "play"
    <3>1. CASE tool = "play"
      BY <1>2, <1>4, <3>1 DEF Captured, Answers, Outcomes
    <3>2. CASE tool # "play"
      BY <1>2, <1>4, <3>2
    <3> QED BY <3>1, <3>2
  <2> QED BY <1>1, <1>2, <1>3, <1>6, <2>1, <2>2, <2>3 DEF PlayInv
<1>11. BatchInv'
  BY <1>1, <1>2 DEF BatchInv
<1>12. AnswerInv' /\ Earned'
  BY <1>1, <1>2, <1>10, GoesOn DEF Earned, BatchIsWhole, PlaceInv
<1> QED BY <1>7, <1>8, <1>9, <1>10, <1>11, <1>12 DEF IInv

LEMMA AgentListsKeeps ==
    ASSUME IInv, NEW l \in Listings, AgentLists(l)
    PROVE  IInv'
<1> USE StepAssumption
<1>1. TypeOK /\ PlaceInv /\ CaptureInv /\ PlayInv /\ BatchInv /\ Earned
  BY DEF IInv
<1>2. /\ at = "agent" /\ at' = "agent" /\ calls < MaxCalls
      /\ calls' = calls + 1 /\ task' = task /\ result' = result
      /\ files' = l /\ chosen' = chosen /\ got' = got /\ plays' = plays /\ lost' = lost
      /\ evidence' = evidence /\ "list" \in Allowed(task)
      /\ capture' = [capture EXCEPT !["list"] = "FOUND"]
      /\ heard' = heard \cup {<<"list", "FOUND">>}
  BY DEF AgentLists, Hear, Stay, playVars
<1>3. capture \in [Tools -> Answers \cup {"none"}] /\ "list" \in Tools /\ "play" \in Tools
  BY <1>1 DEF TypeOK, Tools
<1>4. /\ capture' \in [Tools -> Answers \cup {"none"}]
      /\ capture'["list"] = "FOUND" /\ capture'["play"] = capture["play"]
      /\ \A u \in Tools : u # "list" => capture'[u] = capture[u]
  BY <1>2, <1>3 DEF Answers, Outcomes
<1>5. TypeOK'
  <2>1. calls' \in 0..MaxCalls
    BY <1>1, <1>2 DEF TypeOK
  <2>2. heard' \subseteq Tools \X (Answers \cup {"OTHER"})
    BY <1>1, <1>2, <1>3 DEF TypeOK, Answers, Outcomes
  <2> QED BY <1>1, <1>2, <1>4, <2>1, <2>2 DEF TypeOK
<1>6. PlaceInv'
  BY <1>1, <1>2 DEF PlaceInv
<1>7. CaptureInv'
  BY <1>1, <1>2, <1>4 DEF CaptureInv
<1>8. PlayInv'
  BY <1>1, <1>2, <1>4 DEF PlayInv, Known
<1>9. BatchInv'
  BY <1>1, <1>2 DEF BatchInv
<1>10. AnswerInv' /\ Earned'
  BY <1>1, <1>2, <1>8, GoesOn DEF Earned, BatchIsWhole, PlaceInv
<1> QED BY <1>5, <1>6, <1>7, <1>8, <1>9, <1>10 DEF IInv

LEMMA AgentRaisesKeeps == ASSUME IInv, AgentRaises PROVE IInv'
<1>1. /\ at = "agent" /\ at' = "done" /\ result' = Failed
      /\ UNCHANGED <<task, calls, capture, evidence, chosen, got, files, heard>>
      /\ IF "play" \in Allowed(task) THEN Plays("garbled") ELSE UNCHANGED playVars
  BY DEF AgentRaises, Finish, agentVars, playVars, batchVars
<1>2. files \in Listings /\ heard \subseteq Tools \X (Answers \cup {"OTHER"})
  BY DEF IInv, TypeOK
<1>3. /\ result'.status = "FAILED" /\ result'.downloads = <<>> /\ result'.listed = <<>>
      /\ result'.playbacks = {}
  BY <1>1 DEF Failed, Result
<1>4. /\ at # "done" /\ files' \in Listings /\ heard \subseteq heard'
      /\ heard' \subseteq Tools \X (Answers \cup {"OTHER"})
      /\ result'.status \in {"COMPLETED", "FAILED", "AUTH_REQUIRED"}
      /\ result'.status \notin {"COMPLETED", "AUTH_REQUIRED"}
      /\ result'.listed \in Seq(Files)
      /\ result'.playbacks \subseteq 1..plays'
  BY <1>1, <1>2, <1>3
<1>5. PlayStep /\ task.target = "none"
  <2>1. TypeOK /\ task \in Tasks /\ task.target = "none"
    BY <1>1 DEF IInv, TypeOK, PlaceInv
  <2> QED BY <1>1, <2>1, AllowedIs, PlaysStep DEF PlayStep
<1> QED BY <1>1, <1>3, <1>4, <1>5, AnswerKeeps

\* A query's result is COMPLETED by the answer of the tool the operation ends with.
LEMMA QueryStatusIs ==
    ASSUME IInv, task.target = "none", task.action \in Queries
    PROVE  /\ QueryStatus \in {"COMPLETED", "FAILED", "AUTH_REQUIRED"}
           /\ QueryStatus = "COMPLETED" => task.action # "DOWNLOAD" /\ heard \cap Earns(task) # {}
           /\ QueryStatus = "AUTH_REQUIRED" => \E tool \in Tools : <<tool, "AUTH_REQUIRED">> \in heard
<1> DEFINE semantic == capture["courseList"]
           terminal ==
              IF task.entity \in {"ATTACHMENT", "GRADE"}
                THEN IF task.entity = "ATTACHMENT" /\ task.action = "DOWNLOAD"
                       THEN "none" ELSE capture["list"]
              ELSE CASE task.action = "LIST" ->
                          IF semantic # "none" THEN semantic ELSE capture["list"]
                     [] task.action = "DETAIL" ->
                          IF task.entity \in {"ANNOUNCEMENT", "ASSIGNMENT"}
                               /\ capture["details"] = "none" /\ semantic # "FOUND"
                            THEN semantic ELSE capture["details"]
                     [] OTHER -> "none"
<1>1. QueryStatus = IF terminal = "none" THEN "FAILED" ELSE Contract(terminal)
  BY DEF QueryStatus
<1>2. /\ "list" \in Tools /\ "courseList" \in Tools /\ "details" \in Tools
      /\ \A tool \in Tools :
            /\ capture[tool] # "none" => tool \in Allowed(task)
            /\ capture[tool] \in Outcomes => <<tool, capture[tool]>> \in heard
  BY DEF IInv, CaptureInv, Tools
<1>3. task \in Tasks
  BY DEF IInv, TypeOK
<1>4. task.action \in {"LIST", "DETAIL", "DOWNLOAD"} /\ task.entity \in Entities
  BY <1>3, TaskIs DEF Queries
<1>5. task.action = "DOWNLOAD" => terminal = "none"
  <2>1. task.entity # "ATTACHMENT" /\ task.action = "DOWNLOAD" => "list" \notin Allowed(task)
    BY <1>3, AllowedIs
  <2>2. task.entity # "ATTACHMENT" /\ task.action = "DOWNLOAD" => capture["list"] = "none"
    BY <1>2, <2>1
  <2>3. CASE task.action = "DOWNLOAD" /\ task.entity = "GRADE"
    BY <2>2, <2>3
  <2>4. CASE task.action = "DOWNLOAD" /\ task.entity = "ATTACHMENT"
    BY <2>4
  <2>5. CASE task.action = "DOWNLOAD" /\ task.entity \notin {"ATTACHMENT", "GRADE"}
    BY <2>5
  <2> QED BY <2>3, <2>4, <2>5
<1>6. CASE task.action = "DOWNLOAD"
  BY <1>1, <1>5, <1>6
<1>7. "none" \notin Outcomes
  BY DEF Outcomes
<1>8. ASSUME NEW tool \in Tools, terminal = capture[tool], task.action # "DOWNLOAD",
             terminal \in {"FOUND", "NOT_FOUND", "AMBIGUOUS"} => <<tool, terminal>> \in Earns(task)
      PROVE  /\ QueryStatus \in {"COMPLETED", "FAILED", "AUTH_REQUIRED"}
             /\ QueryStatus = "COMPLETED" => task.action # "DOWNLOAD" /\ heard \cap Earns(task) # {}
             /\ QueryStatus = "AUTH_REQUIRED" =>
                  \E u \in Tools : <<u, "AUTH_REQUIRED">> \in heard
  <2> HIDE DEF terminal
  <2>1. terminal \in {"FOUND", "NOT_FOUND", "AMBIGUOUS", "AUTH_REQUIRED"} => <<tool, terminal>> \in heard
    BY <1>2, <1>8 DEF Outcomes
  <2> QED BY <1>1, <1>8, <2>1, ContractIs
<1>9. CASE task.action = "LIST"
  <2>1. /\ terminal = semantic \/ terminal = capture["list"]
        /\ Earns(task) = {"list", "courseList"} \X {"FOUND", "NOT_FOUND", "AMBIGUOUS"}
    BY <1>9 DEF Earns
  <2> HIDE DEF terminal
  <2>2. CASE terminal = semantic
    BY <2>1, <2>2, <1>2, <1>8, <1>9
  <2>3. CASE terminal = capture["list"]
    BY <2>1, <2>3, <1>2, <1>8, <1>9
  <2> QED BY <2>1, <2>2, <2>3
<1>10. CASE task.action = "DETAIL"
  <2>1. CASE task.entity \in {"ATTACHMENT", "GRADE"}
    <3>1. /\ terminal = capture["list"]
          /\ {"list"} \X {"FOUND", "NOT_FOUND", "AMBIGUOUS"} \subseteq Earns(task)
      BY <1>10, <2>1 DEF Earns
    <3> HIDE DEF terminal
    <3> QED BY <3>1, <1>2, <1>8, <1>10
  <2>2. CASE task.entity \notin {"ATTACHMENT", "GRADE"}
    <3>1. /\ {"details"} \X {"FOUND", "NOT_FOUND", "AMBIGUOUS"} \subseteq Earns(task)
          /\ {"courseList"} \X {"NOT_FOUND", "AMBIGUOUS"} \subseteq Earns(task)
      BY <1>10, <2>2 DEF Earns
    <3>2. \/ terminal = capture["details"]
          \/ terminal = semantic /\ terminal # "FOUND"
      BY <1>10, <2>2
    <3> HIDE DEF terminal
    <3>3. CASE terminal = capture["details"]
      BY <3>1, <3>3, <1>2, <1>8, <1>10
    <3>4. CASE terminal = semantic /\ terminal # "FOUND"
      BY <3>1, <3>4, <1>2, <1>8, <1>10
    <3> QED BY <3>2, <3>3, <3>4
  <2> QED BY <2>1, <2>2
<1> QED BY <1>4, <1>6, <1>9, <1>10

\* So is a video task's, and it knows every playback of the run.
LEMMA ControlResultIs ==
    ASSUME IInv, at = "agent", task.action \in Controls, ~NeedsPlayback
    PROVE  /\ ControlResult.status \in {"COMPLETED", "FAILED", "AUTH_REQUIRED"}
           /\ ControlResult.downloads = <<>> /\ ControlResult.listed = <<>>
           /\ ControlResult.playbacks \subseteq 1..plays
           /\ ControlResult.status = "COMPLETED" =>
                heard \cap Earns(task) # {} /\ ControlResult.playbacks = Known
           /\ ControlResult.status = "AUTH_REQUIRED" =>
                \E tool \in Tools : <<tool, "AUTH_REQUIRED">> \in heard
<1>1. /\ "play" \in Tools /\ "stop" \in Tools /\ "resolve" \in Tools
      /\ \A tool \in Tools :
            /\ capture[tool] # "none" => tool \in Allowed(task)
            /\ capture[tool] \in Outcomes => <<tool, capture[tool]>> \in heard
  BY DEF IInv, CaptureInv, Tools
<1>2. task \in Tasks /\ capture \in [Tools -> Answers \cup {"none"}] /\ plays \in Nat
  BY DEF IInv, TypeOK
<1>3. /\ capture["play"] # "none" => task.action \in {"PLAY", "PREVIEW"}
      /\ capture["resolve"] # "none" => task.action \in {"PLAY", "PREVIEW"}
      /\ capture["stop"] # "none" => task.action = "STOP"
  BY <1>1, <1>2, AllowedIs
<1>4. /\ evidence = Known /\ Known \subseteq 1..plays
      /\ capture["play"] = "none" => plays = 0
      /\ plays = 0 => Known = {}
  BY DEF IInv, PlayInv, Known
<1>5. /\ task.action \in {"PLAY", "PREVIEW"} =>
           Earns(task) = {"play"} \X {"FOUND", "NOT_FOUND", "AMBIGUOUS"}
                         \cup {"resolve"} \X {"NOT_FOUND", "AMBIGUOUS"}
      /\ task.action = "STOP" => Earns(task) = {<<"stop", "FOUND">>}
  BY DEF Earns
<1>6. CASE capture["play"] \notin {"none", "garbled"}
  <2>1. ControlResult = PlaybackResult(capture["play"], evidence)
    BY <1>3, <1>6 DEF ControlResult
  <2>2. capture["play"] \in Outcomes
    BY <1>1, <1>2, <1>6 DEF Answers
  <2>3. /\ ControlResult.status = Contract(capture["play"]) /\ ControlResult.playbacks = evidence
        /\ ControlResult.downloads = <<>> /\ ControlResult.listed = <<>>
    BY <2>1 DEF PlaybackResult, Result
  <2>4. <<"play", capture["play"]>> \in heard
    BY <2>2, <1>1
  <2>5. capture["play"] \in {"FOUND", "NOT_FOUND", "AMBIGUOUS"} =>
          <<"play", capture["play"]>> \in Earns(task)
    BY <1>3, <1>5, <1>6
  <2> QED BY <2>3, <2>4, <2>5, <1>1, <1>4, ContractIs
<1>7. CASE capture["play"] \in {"none", "garbled"} /\ capture["stop"] \notin {"none", "garbled"}
  <2>1. ControlResult = Result(DirectContract(capture["stop"])) /\ plays = 0
    BY <1>3, <1>4, <1>7 DEF ControlResult
  <2>2. capture["stop"] \in Outcomes
    BY <1>1, <1>2, <1>7 DEF Answers
  <2>3. /\ ControlResult.status = DirectContract(capture["stop"]) /\ ControlResult.playbacks = {}
        /\ ControlResult.downloads = <<>> /\ ControlResult.listed = <<>>
    BY <2>1 DEF Result
  <2>4. <<"stop", capture["stop"]>> \in heard
    BY <2>2, <1>1
  <2>5. <<"stop", "FOUND">> \in Earns(task)
    BY <1>3, <1>5, <1>7
  <2> QED BY <2>1, <2>3, <2>4, <2>5, <1>1, <1>4, ContractIs
<1>8. CASE /\ capture["play"] \in {"none", "garbled"} /\ capture["stop"] \in {"none", "garbled"}
           /\ capture["resolve"] # "none" /\ capture["play"] = "none"
  <2>1. ControlResult = Result(Contract(capture["resolve"])) /\ plays = 0
    BY <1>4, <1>8 DEF ControlResult
  <2>2. capture["resolve"] # "FOUND"
    BY <1>8 DEF NeedsPlayback
  <2>3. capture["resolve"] \in Outcomes \cup {"garbled"}
    BY <1>1, <1>2, <1>8 DEF Answers
  <2>4. /\ ControlResult.status = Contract(capture["resolve"]) /\ ControlResult.playbacks = {}
        /\ ControlResult.downloads = <<>> /\ ControlResult.listed = <<>>
    BY <2>1 DEF Result
  <2>5. capture["resolve"] \in Outcomes => <<"resolve", capture["resolve"]>> \in heard
    BY <1>1
  <2>6. capture["resolve"] \in {"NOT_FOUND", "AMBIGUOUS"} =>
          <<"resolve", capture["resolve"]>> \in Earns(task)
    BY <1>3, <1>5, <1>8
  <2> QED BY <2>1, <2>2, <2>4, <2>5, <2>6, <1>1, <1>4, ContractIs DEF Outcomes
<1>9. CASE /\ capture["play"] \in {"none", "garbled"} /\ capture["stop"] \in {"none", "garbled"}
           /\ ~ (capture["resolve"] # "none" /\ capture["play"] = "none")
  <2>1. ControlResult = Failed
    BY <1>9 DEF ControlResult
  <2> QED BY <2>1 DEF Failed, Result
<1> QED BY <1>6, <1>7, <1>8, <1>9

LEMMA AgentReturnsKeeps == ASSUME IInv, AgentReturns PROVE IInv'
<1> USE StepAssumption
<1>1. TypeOK /\ PlaceInv /\ CaptureInv /\ PlayInv /\ BatchInv /\ Earned
  BY DEF IInv
<1>2. /\ at = "agent"
      /\ UNCHANGED <<task, calls, capture, evidence, files, got, plays, lost, heard>>
  BY DEF AgentReturns, agentVars, playVars
<1>3. /\ task \in Tasks /\ files \in Listings /\ files \in Seq(Files) /\ IsInjective(files)
      /\ heard \subseteq Tools \X (Answers \cup {"OTHER"}) /\ plays \in Nat
  BY <1>1 DEF TypeOK
<1>4. /\ task.target = "none" /\ chosen = <<>> /\ got = 0 /\ result = Pending
      /\ evidence = Known /\ Known' = Known
  BY <1>1, <1>2 DEF PlaceInv, BatchInv, PlayInv, Known
<1>5. CASE NeedsPlayback
  <2>1. at' = "fallback" /\ result' = result /\ chosen' = chosen
    BY <1>5 DEF AgentReturns
  <2>2. task.action \in {"PLAY", "PREVIEW"}
    <3>1. capture["resolve"] = "FOUND" /\ "resolve" \in Tools
      BY <1>5 DEF NeedsPlayback, Tools
    <3>2. "resolve" \in Allowed(task)
      BY <3>1, <1>1 DEF CaptureInv
    <3> QED BY <3>2, <1>3, AllowedIs
  <2>3. TypeOK'
    BY <1>1, <1>2, <2>1 DEF TypeOK
  <2>4. PlaceInv' /\ PlayInv' /\ BatchInv'
    BY <1>1, <1>2, <1>4, <2>1, <2>2 DEF PlaceInv, PlayInv, BatchInv
  <2>5. CaptureInv'
    BY <1>1, <1>2 DEF CaptureInv
  <2>6. AnswerInv' /\ Earned'
    BY <1>1, <1>2, <1>4, <2>1, <2>4, GoesOn DEF Earned, BatchIsWhole
  <2> QED BY <2>3, <2>4, <2>5, <2>6 DEF IInv
<1>6. CASE ~NeedsPlayback /\ NeedsDownload
  <2> DEFINE selected == SelectForDownload(task.ordinal, task.query, files)
  <2>1. /\ chosen' = selected
        /\ selected = <<>> => at' = "done" /\ result' = [Failed EXCEPT !.listed = files]
        /\ selected # <<>> => at' = "download" /\ result' = result
    BY <1>6 DEF AgentReturns, Finish
  <2>2. /\ selected \in Seq(Files) /\ (selected # <<>> => Sound(selected)) /\ InOrder(selected, files)
        /\ task.query.filename /\ task.ordinal = 0 => ToSet(selected) \subseteq task.query.matches
    <3>1. (task.query.filename => task.query.given) /\ task.ordinal \in Nat
      BY <1>3, TaskIs, QueryTextIs
    <3> QED BY <3>1, <1>3, SelectionIs
  <2> HIDE DEF selected
  <2>3. IsInjective(selected)
    BY <2>2, <1>3, InOrderIsInjective
  <2>4. CASE selected = <<>>
    <3>1. /\ result'.status = "FAILED" /\ result'.downloads = <<>> /\ result'.listed = files
          /\ result'.playbacks = {}
      BY <2>1, <2>4 DEF Failed, Result
    <3>2. chosen' = chosen /\ at # "done" /\ at' = "done"
      BY <2>1, <2>4, <1>2, <1>4
    <3> QED BY <3>1, <3>2, <1>2, <1>3, QuietAnswerKeeps
  <2>5. CASE selected # <<>>
    <3>1. at' = "download" /\ result' = result /\ chosen' = selected /\ got' = 0
      BY <2>1, <2>5, <1>2, <1>4
    <3>2. task.action = "DOWNLOAD" /\ <<"list", "FOUND">> \in heard
      <4>1. task.action = "DOWNLOAD" /\ capture["list"] = "FOUND" /\ "list" \in Tools
        BY <1>6 DEF NeedsDownload, Tools
      <4> QED BY <4>1, <1>1 DEF CaptureInv, Outcomes
    <3>3. 0 < Len(selected) /\ Len(selected) \in Nat
      BY <2>2, <2>5
    <3>4. TypeOK'
      <4>1. result'.playbacks \subseteq 1..plays'
        BY <1>1, <1>2, <3>1 DEF TypeOK
      <4> QED BY <1>1, <1>2, <2>2, <3>1, <3>3, <4>1 DEF TypeOK
    <3>5. PlaceInv' /\ PlayInv'
      BY <1>1, <1>2, <1>4, <3>1, <3>2 DEF PlaceInv, PlayInv
    <3>6. CaptureInv'
      BY <1>1, <1>2 DEF CaptureInv
    <3>7. BatchInv'
      BY <1>2, <2>2, <2>3, <2>5, <3>1, <3>2, <3>3 DEF BatchInv
    <3>8. AnswerInv' /\ Earned'
      BY <1>2, <1>4, <2>2, <3>1, <3>5, GoesOn
    <3> QED BY <3>4, <3>5, <3>6, <3>7, <3>8 DEF IInv
  <2> QED BY <2>4, <2>5
<1>7. CASE ~NeedsPlayback /\ ~NeedsDownload
  <2>1. /\ at # "done" /\ at' = "done" /\ chosen' = chosen
        /\ result' = IF task.action \in Controls THEN ControlResult ELSE QueryResult
    BY <1>2, <1>7 DEF AgentReturns, Finish
  <2>2. task.action \in Queries \cup Controls
    BY <1>3, TaskIs
  <2>3. CASE task.action \in Controls
    <3>1. /\ result' = ControlResult /\ task.action # "DOWNLOAD"
      BY <2>1, <2>3 DEF Controls
    <3>2. /\ result'.status \in {"COMPLETED", "FAILED", "AUTH_REQUIRED"}
          /\ result'.downloads = <<>> /\ result'.listed = <<>>
          /\ result'.playbacks \subseteq 1..plays'
          /\ result'.status = "COMPLETED" =>
               heard' \cap Earns(task) # {} /\ result'.playbacks = Known'
          /\ result'.status = "AUTH_REQUIRED" =>
               \E tool \in Tools : <<tool, "AUTH_REQUIRED">> \in heard'
      BY <3>1, <1>2, <1>4, <1>7, <2>3, ControlResultIs
    <3> QED BY <2>1, <3>1, <3>2, <1>2, <1>3, QuietAnswerKeeps
  <2>4. CASE task.action \notin Controls
    <3>1. task.action \in Queries /\ plays = 0 /\ Known = {}
      BY <2>2, <2>4, <1>1, <1>3 DEF PlayInv, Controls, Known
    <3>2. /\ QueryStatus \in {"COMPLETED", "FAILED", "AUTH_REQUIRED"}
          /\ QueryStatus = "COMPLETED" => task.action # "DOWNLOAD" /\ heard \cap Earns(task) # {}
          /\ QueryStatus = "AUTH_REQUIRED" => \E tool \in Tools : <<tool, "AUTH_REQUIRED">> \in heard
      BY <3>1, <1>4, QueryStatusIs
    <3>3. /\ result'.status = QueryStatus /\ result'.downloads = <<>> /\ result'.playbacks = {}
          /\ result'.listed \in {files, <<>>}
      BY <2>1, <2>4 DEF QueryResult, Result
    <3>4. result'.listed \in Seq(Files)
      BY <3>3, <1>3
    <3>5. result'.playbacks = Known' /\ plays' = 0
      BY <3>1, <3>3, <1>2, <1>4
    <3>6. /\ result'.status \in {"COMPLETED", "FAILED", "AUTH_REQUIRED"}
          /\ result'.status = "COMPLETED" => task.action # "DOWNLOAD" /\ heard' \cap Earns(task) # {}
          /\ result'.status = "AUTH_REQUIRED" =>
               \E tool \in Tools : <<tool, "AUTH_REQUIRED">> \in heard'
      BY <3>2, <3>3, <1>2
    <3> QED BY <2>1, <3>1, <3>3, <3>4, <3>5, <3>6, <1>2, <1>3, QuietAnswerKeeps
  <2> QED BY <2>3, <2>4
<1> QED BY <1>5, <1>6, <1>7

LEMMA FallbackPlaysKeeps ==
    ASSUME IInv, NEW o \in Answers, FallbackPlays(o)
    PROVE  IInv'
<1>1. /\ at = "fallback" /\ at' = "done"
      /\ UNCHANGED <<task, calls, capture, evidence, chosen, got, files>>
      /\ heard' = heard \cup {<<"play", o>>}
      /\ Plays(o)
      /\ result' = IF o = "garbled" THEN Failed ELSE PlaybackResult(o, evidence \cup Reference(o))
  BY DEF FallbackPlays, Hear, Finish, agentVars, playVars, batchVars
<1>2. /\ task.action \in {"PLAY", "PREVIEW"} /\ task.target = "none" /\ evidence = Known
      /\ plays \in Nat /\ files \in Listings /\ "play" \in Tools
      /\ heard' \subseteq Tools \X (Answers \cup {"OTHER"})
  BY <1>1 DEF IInv, TypeOK, PlaceInv, PlayInv, Tools
<1>3. PlayStep /\ plays' \in Nat /\ Known' \subseteq 1..plays' /\ (o # "garbled" => result'.playbacks = Known')
  <2>1. TypeOK /\ PlayStep /\ plays' \in Nat /\ Known' = Known \cup Reference(o)
    BY <1>1, <1>2, PlaysStep DEF IInv
  <2>2. Known' \subseteq 1..plays'
    BY DEF Known
  <2> QED BY <1>1, <1>2, <2>1, <2>2 DEF PlaybackResult, Result
<1>4. /\ o = "garbled" => result'.status = "FAILED" /\ result'.playbacks = {}
      /\ o # "garbled" => result'.status = Contract(o)
      /\ result'.downloads = <<>> /\ result'.listed = <<>>
  BY <1>1 DEF PlaybackResult, Failed, Result
<1>5. o \in {"FOUND", "NOT_FOUND", "AMBIGUOUS"} => <<"play", o>> \in Earns(task)
  BY <1>2 DEF Earns
<1>6. result'.status \in {"COMPLETED", "FAILED", "AUTH_REQUIRED"}
  BY <1>4, ContractIs
<1>7. result'.status = "COMPLETED" =>
        /\ task.action # "DOWNLOAD" /\ heard' \cap Earns(task) # {}
        /\ result'.playbacks = Known'
  BY <1>1, <1>2, <1>3, <1>4, <1>5, ContractIs
<1>8. result'.status = "AUTH_REQUIRED" => \E tool \in Tools : <<tool, "AUTH_REQUIRED">> \in heard'
  BY <1>1, <1>2, <1>4, ContractIs
<1>9. result'.playbacks \subseteq 1..plays'
  BY <1>3, <1>4
<1>10. result'.listed \in Seq(Files) /\ at # "done" /\ heard \subseteq heard' /\ files' \in Listings
  <2>1. <<>> \in Seq(Files)
    OBVIOUS
  <2>2. at # "done" /\ heard \subseteq heard' /\ files' = files
    BY <1>1
  <2> QED BY <2>1, <2>2, <1>2, <1>4
<1> QED BY <1>1, <1>2, <1>3, <1>4, <1>6, <1>7, <1>8, <1>9, <1>10, AnswerKeeps

-----------------------------------------------------------------------------
(* The direct routes.                                                      *)

LEMMA RefuseUnnamedKeeps == ASSUME IInv, RefuseUnnamed PROVE IInv'
<1>1. /\ at = "unnamed" /\ at' = "done" /\ result' = Failed
      /\ UNCHANGED <<task, calls, capture, evidence, chosen, got, files, heard, plays, lost>>
  BY DEF RefuseUnnamed, Finish, agentVars, playVars, batchVars
<1>2. files \in Listings /\ heard \subseteq Tools \X (Answers \cup {"OTHER"})
  BY DEF IInv, TypeOK
<1>3. /\ result'.status = "FAILED" /\ result'.downloads = <<>> /\ result'.listed = <<>>
      /\ result'.playbacks = {}
  BY <1>1 DEF Failed, Result
<1>4. at # "done" /\ result'.listed \in Seq(Files)
  BY <1>1, <1>3
<1> QED BY <1>1, <1>2, <1>3, <1>4, QuietAnswerKeeps

LEMMA ResolveKeeps ==
    ASSUME IInv, NEW o \in Answers \cup {"OTHER"}, Resolve(o)
    PROVE  IInv'
<1> USE StepAssumption
<1>1. TypeOK /\ PlaceInv /\ CaptureInv /\ PlayInv /\ BatchInv /\ Earned
  BY DEF IInv
<1>2. /\ at = "resolve"
      /\ UNCHANGED <<task, calls, capture, evidence, chosen, got, files, plays, lost>>
      /\ heard' = heard \cup {<<"resolve", o>>}
  BY DEF Resolve, Hear, agentVars, playVars, batchVars
<1>3. /\ task.action \in {"PLAY", "PREVIEW"} /\ task.target = "lecture" /\ plays = 0
      /\ result = Pending
  BY <1>1, <1>2, TaskIs DEF TypeOK, PlaceInv, PlayInv
<1>4. /\ files \in Listings /\ "resolve" \in Tools
      /\ heard' \subseteq Tools \X (Answers \cup {"OTHER"})
  BY <1>1, <1>2 DEF TypeOK, Tools
<1>5. CASE o = "FOUND"
  <2>1. at' = "play" /\ result' = result
    BY <1>5 DEF Resolve
  <2>2. TypeOK'
    BY <1>1, <1>2, <1>4, <2>1 DEF TypeOK
  <2>3. PlaceInv' /\ PlayInv' /\ BatchInv'
    BY <1>1, <1>2, <1>3, <1>5, <2>1 DEF PlaceInv, PlayInv, BatchInv
  <2>4. CaptureInv'
    BY <1>1, <1>2 DEF CaptureInv
  <2>5. AnswerInv' /\ Earned'
    BY <1>1, <1>2, <1>3, <2>1, <2>3, GoesOn DEF Earned, BatchIsWhole
  <2> QED BY <2>2, <2>3, <2>4, <2>5 DEF IInv
<1>6. CASE o # "FOUND"
  <2>1. at' = "done" /\ result' = Result(Contract(o))
    BY <1>6 DEF Resolve, Finish
  <2>2. /\ result'.status = Contract(o) /\ result'.downloads = <<>> /\ result'.listed = <<>>
        /\ result'.playbacks = {}
    BY <2>1 DEF Result
  <2>3. o \in {"NOT_FOUND", "AMBIGUOUS"} => <<"resolve", o>> \in Earns(task)
    BY <1>3 DEF Earns
  <2>4. result'.status = "COMPLETED" =>
          /\ task.action # "DOWNLOAD" /\ heard' \cap Earns(task) # {}
          /\ result'.playbacks = Known'
    <3>1. Known' = {}
      BY <1>2, <1>3 DEF Known
    <3> QED BY <1>2, <1>3, <1>6, <2>2, <2>3, <3>1, ContractIs
  <2>5. result'.status = "AUTH_REQUIRED" =>
          \E tool \in Tools : <<tool, "AUTH_REQUIRED">> \in heard'
    BY <1>2, <1>4, <2>2, ContractIs
  <2>6. /\ result'.status \in {"COMPLETED", "FAILED", "AUTH_REQUIRED"}
        /\ result'.listed \in Seq(Files) /\ at # "done" /\ heard \subseteq heard'
    BY <1>2, <2>2, ContractIs
  <2> QED BY <1>2, <1>4, <2>1, <2>2, <2>4, <2>5, <2>6, QuietAnswerKeeps
<1> QED BY <1>5, <1>6

LEMMA PlayTargetKeeps ==
    ASSUME IInv, NEW o \in Answers, PlayTarget(o)
    PROVE  IInv'
<1>1. /\ at = "play" /\ at' = "done"
      /\ UNCHANGED <<task, calls, capture, evidence, chosen, got, files>>
      /\ heard' = heard \cup {<<"play", o>>}
      /\ Plays(o)
      /\ result' = IF o = "garbled" THEN Failed ELSE PlaybackResult(o, Reference(o))
  BY DEF PlayTarget, Hear, Finish, agentVars, playVars, batchVars
<1>2. /\ task.action \in {"PLAY", "PREVIEW"} /\ plays = 0 /\ <<"resolve", "FOUND">> \in heard
  BY <1>1, TaskIs DEF IInv, TypeOK, PlaceInv, PlayInv
<1>3. /\ files \in Listings /\ "play" \in Tools
      /\ heard' \subseteq Tools \X (Answers \cup {"OTHER"})
  BY <1>1 DEF IInv, TypeOK, Tools
<1>4. /\ PlayStep /\ Known' = Reference(o) /\ Known' \subseteq 1..plays'
      /\ o # "garbled" => result'.playbacks = Known'
      /\ plays' # plays => o = "FOUND" \/ lost' = {1}
  <2>1. TypeOK /\ lost = {} /\ Known = {} /\ 1..0 = {}
    BY <1>2 DEF IInv, TypeOK, Known
  <2>2. PlayStep /\ plays' \in Nat /\ Known' = Known \cup Reference(o)
    BY <1>1, <1>2, <2>1, PlaysStep
  <2>3. Known' \subseteq 1..plays'
    BY DEF Known
  <2>4. plays' # plays => o = "FOUND" \/ lost' = {1}
    BY <1>1, <1>2, <2>1 DEF Plays, playVars
  <2> QED BY <1>1, <2>1, <2>2, <2>3, <2>4 DEF PlaybackResult, Result
<1>5. /\ o = "garbled" => result'.status = "FAILED" /\ result'.playbacks = {}
      /\ o # "garbled" => result'.status = Contract(o)
      /\ result'.downloads = <<>> /\ result'.listed = <<>>
  BY <1>1 DEF PlaybackResult, Failed, Result
<1>6. o \in {"FOUND", "NOT_FOUND", "AMBIGUOUS"} => <<"play", o>> \in Earns(task)
  BY <1>2 DEF Earns
<1>7. result'.status = "COMPLETED" =>
        /\ task.action # "DOWNLOAD" /\ heard' \cap Earns(task) # {}
        /\ result'.playbacks = Known'
  BY <1>1, <1>2, <1>4, <1>5, <1>6, ContractIs
<1>8. result'.status = "AUTH_REQUIRED" => \E tool \in Tools : <<tool, "AUTH_REQUIRED">> \in heard'
  BY <1>1, <1>3, <1>5, ContractIs
<1>9. /\ result'.playbacks \subseteq 1..plays'
      /\ result'.status \in {"COMPLETED", "FAILED", "AUTH_REQUIRED"}
      /\ result'.listed \in Seq(Files)
  <2>1. result'.playbacks \subseteq 1..plays'
    BY <1>4, <1>5
  <2> QED BY <1>5, <2>1, ContractIs
<1>10. /\ plays' # plays => <<"resolve", "FOUND">> \in heard' /\ (result'.status = "COMPLETED" \/ lost' = {1})
       /\ at # "done" /\ heard \subseteq heard' /\ files' = files
  BY <1>1, <1>2, <1>4, <1>5, ContractIs
<1> QED BY <1>1, <1>3, <1>4, <1>5, <1>7, <1>8, <1>9, <1>10, AnswerKeeps

LEMMA OpenAnnouncementKeeps ==
    ASSUME IInv, NEW o \in Answers, OpenAnnouncement(o)
    PROVE  IInv'
<1>1. /\ at = "announcement" /\ at' = "done"
      /\ UNCHANGED <<task, calls, capture, evidence, chosen, got, files, plays, lost>>
      /\ heard' = heard \cup {<<"details", o>>}
      /\ result' = Result(DirectContract(o))
  BY DEF OpenAnnouncement, Hear, Finish, agentVars, playVars, batchVars
<1>2. /\ task.action = "DETAIL" /\ task.entity = "ANNOUNCEMENT" /\ plays = 0
  BY <1>1, TaskIs DEF IInv, TypeOK, PlaceInv, PlayInv
<1>3. /\ files \in Listings /\ "details" \in Tools
      /\ heard' \subseteq Tools \X (Answers \cup {"OTHER"})
  BY <1>1 DEF IInv, TypeOK, Tools
<1>4. /\ result'.status = DirectContract(o) /\ result'.downloads = <<>> /\ result'.listed = <<>>
      /\ result'.playbacks = {}
  BY <1>1 DEF Result
<1>5. <<"details", "FOUND">> \in Earns(task)
  BY <1>2 DEF Earns
<1>6. result'.status = "COMPLETED" =>
        /\ task.action # "DOWNLOAD" /\ heard' \cap Earns(task) # {}
        /\ result'.playbacks = Known'
  <2>1. Known' = {}
    BY <1>1, <1>2 DEF Known
  <2> QED BY <1>1, <1>2, <1>4, <1>5, <2>1, ContractIs
<1>7. result'.status = "AUTH_REQUIRED" => \E tool \in Tools : <<tool, "AUTH_REQUIRED">> \in heard'
  BY <1>1, <1>3, <1>4, ContractIs
<1>8. /\ result'.status \in {"COMPLETED", "FAILED", "AUTH_REQUIRED"}
      /\ result'.listed \in Seq(Files) /\ at # "done" /\ heard \subseteq heard'
  BY <1>1, <1>4, ContractIs
<1> QED BY <1>1, <1>3, <1>4, <1>6, <1>7, <1>8, QuietAnswerKeeps

LEMMA OpenAssignmentKeeps ==
    ASSUME IInv, NEW o \in Answers, NEW p \in Answers, NEW l \in Listings, OpenAssignment(o, p, l)
    PROVE  IInv'
<1>1. /\ at = "details" /\ at' = "done"
      /\ UNCHANGED <<task, calls, capture, evidence, chosen, got, files, plays, lost>>
      /\ heard' = heard \cup {<<"details", o>>, <<"list", p>>}
      /\ result' = IF p = "garbled" THEN Failed
                    ELSE [Result(DirectContract(o)) EXCEPT
                            !.listed = IF o = "FOUND" /\ p = "FOUND" THEN l ELSE <<>>]
  BY DEF OpenAssignment, Finish, agentVars, playVars, batchVars
<1>2. /\ task.action = "DETAIL" /\ task.entity = "ASSIGNMENT" /\ plays = 0
  BY <1>1, TaskIs DEF IInv, TypeOK, PlaceInv, PlayInv
<1>3. /\ files \in Listings /\ "details" \in Tools /\ "list" \in Tools
      /\ heard' \subseteq Tools \X (Answers \cup {"OTHER"})
  BY <1>1 DEF IInv, TypeOK, Tools
<1>4. /\ result'.status = IF p = "garbled" THEN "FAILED" ELSE DirectContract(o)
      /\ result'.downloads = <<>> /\ result'.listed \in {<<>>, l} /\ result'.playbacks = {}
  BY <1>1 DEF Failed, Result
<1>5. <<"details", "FOUND">> \in Earns(task)
  BY <1>2 DEF Earns
<1>6. result'.status = "COMPLETED" =>
        /\ task.action # "DOWNLOAD" /\ heard' \cap Earns(task) # {}
        /\ result'.playbacks = Known'
  <2>1. Known' = {}
    BY <1>1, <1>2 DEF Known
  <2> QED BY <1>1, <1>2, <1>4, <1>5, <2>1, ContractIs
<1>7. result'.status = "AUTH_REQUIRED" => \E tool \in Tools : <<tool, "AUTH_REQUIRED">> \in heard'
  BY <1>1, <1>3, <1>4, ContractIs
<1>8. /\ result'.status \in {"COMPLETED", "FAILED", "AUTH_REQUIRED"}
      /\ result'.listed \in Seq(Files) /\ at # "done" /\ heard \subseteq heard'
  BY <1>1, <1>4, ContractIs, StepAssumption
<1> QED BY <1>1, <1>3, <1>4, <1>6, <1>7, <1>8, QuietAnswerKeeps

LEMMA ListFilesKeeps ==
    ASSUME IInv, NEW o \in Answers, NEW l \in Listings, ListFiles(o, l)
    PROVE  IInv'
<1> USE StepAssumption
<1>1. TypeOK /\ PlaceInv /\ CaptureInv /\ PlayInv /\ BatchInv /\ Earned
  BY DEF IInv
<1>2. /\ at = "list"
      /\ UNCHANGED <<task, calls, capture, evidence, got, plays, lost>>
      /\ heard' = heard \cup {<<"list", o>>}
      /\ files' = IF o = "FOUND" THEN l ELSE <<>>
  BY DEF ListFiles, Hear, agentVars, playVars
<1>3. /\ task.target = "assignment" /\ task.entity = "ATTACHMENT" /\ plays = 0
      /\ got = 0 /\ chosen = <<>> /\ result = Pending
  BY <1>1, <1>2 DEF PlaceInv, PlayInv, BatchInv
<1>4. task \in Tasks /\ task.action \in {"LIST", "DETAIL", "DOWNLOAD"}
  BY <1>1, <1>3, TaskIs DEF TypeOK, Queries
<1>5. /\ files' \in Listings /\ files' \in Seq(Files)
      /\ "list" \in Tools /\ heard' \subseteq Tools \X (Answers \cup {"OTHER"})
  BY <1>1, <1>2 DEF TypeOK, Tools
<1>6. CASE o = "FOUND" /\ task.action = "DOWNLOAD"
  <2> DEFINE selected == SelectForDownload(0, task.query, l)
  <2>1. /\ chosen' = selected
        /\ selected = <<>> => at' = "done" /\ result' = [Failed EXCEPT !.listed = l]
        /\ selected # <<>> => at' = "download" /\ result' = result
    BY <1>6 DEF ListFiles, Finish
  <2>2. /\ selected \in Seq(Files) /\ (selected # <<>> => Sound(selected)) /\ InOrder(selected, l)
        /\ task.query.filename => ToSet(selected) \subseteq task.query.matches
    <3>1. (task.query.filename => task.query.given) /\ l \in Seq(Files)
      BY <1>4, TaskIs, QueryTextIs
    <3> QED BY <3>1, SelectionIs
  <2> HIDE DEF selected
  <2>3. IsInjective(selected)
    BY <2>2, InOrderIsInjective
  <2>4. CASE selected = <<>>
    <3>1. /\ result'.status = "FAILED" /\ result'.downloads = <<>> /\ result'.listed = l
          /\ result'.playbacks = {}
      BY <2>1, <2>4 DEF Failed, Result
    <3>2. /\ chosen' = chosen /\ at # "done" /\ at' = "done"
          /\ heard \subseteq heard' /\ result'.listed \in Seq(Files)
      BY <2>1, <2>4, <3>1, <1>2, <1>3
    <3> QED BY <3>1, <3>2, <1>2, <1>5, QuietAnswerKeeps
  <2>5. CASE selected # <<>>
    <3>1. at' = "download" /\ result' = result /\ chosen' = selected /\ got' = 0 /\ files' = l
      BY <2>1, <2>5, <1>2, <1>3, <1>6
    <3>2. 0 < Len(selected) /\ Len(selected) \in Nat
      BY <2>2, <2>5
    <3>3. TypeOK'
      <4>1. result'.playbacks \subseteq 1..plays'
        BY <1>1, <1>2, <3>1 DEF TypeOK
      <4> QED BY <1>1, <1>2, <1>5, <2>2, <3>1, <3>2, <4>1 DEF TypeOK
    <3>4. PlaceInv' /\ PlayInv'
      BY <1>1, <1>2, <1>3, <1>6, <3>1 DEF PlaceInv, PlayInv
    <3>5. CaptureInv'
      BY <1>1, <1>2 DEF CaptureInv
    <3>6. BatchInv'
      BY <1>2, <1>6, <2>2, <2>3, <2>5, <3>1, <3>2 DEF BatchInv
    <3>7. AnswerInv' /\ Earned'
      BY <1>2, <1>3, <2>2, <3>1, <3>4, GoesOn
    <3> QED BY <3>3, <3>4, <3>5, <3>6, <3>7 DEF IInv
  <2> QED BY <2>4, <2>5
<1>7. CASE ~ (o = "FOUND" /\ task.action = "DOWNLOAD")
  <2>1. /\ at' = "done" /\ chosen' = chosen
        /\ result' = [Result(DirectContract(o)) EXCEPT !.listed = files']
    BY <1>7 DEF ListFiles, Finish
  <2>2. /\ result'.status = DirectContract(o) /\ result'.downloads = <<>> /\ result'.listed = files'
        /\ result'.playbacks = {}
    BY <2>1 DEF Result
  <2>3. task.action # "DOWNLOAD" => <<"list", "FOUND">> \in Earns(task)
    BY <1>3, <1>4 DEF Earns
  <2>4. result'.status = "COMPLETED" =>
          /\ task.action # "DOWNLOAD" /\ heard' \cap Earns(task) # {}
          /\ result'.playbacks = Known'
    <3>1. Known' = {}
      BY <1>2, <1>3 DEF Known
    <3> QED BY <1>2, <1>7, <2>2, <2>3, <3>1, ContractIs
  <2>5. result'.status = "AUTH_REQUIRED" => \E tool \in Tools : <<tool, "AUTH_REQUIRED">> \in heard'
    BY <1>2, <1>5, <2>2, ContractIs
  <2>6. /\ result'.status \in {"COMPLETED", "FAILED", "AUTH_REQUIRED"}
        /\ at # "done" /\ heard \subseteq heard'
    BY <1>2, <2>2, ContractIs
  <2> QED BY <1>2, <1>5, <2>1, <2>2, <2>4, <2>5, <2>6, QuietAnswerKeeps
<1> QED BY <1>6, <1>7

LEMMA DownloadKeeps ==
    ASSUME IInv, NEW o \in Answers \cup {"OTHER"}, Download(o)
    PROVE  IInv'
<1> USE StepAssumption
<1>1. TypeOK /\ PlaceInv /\ CaptureInv /\ PlayInv /\ BatchInv /\ Earned
  BY DEF IInv
<1>2. /\ at = "download"
      /\ UNCHANGED <<task, calls, capture, evidence, files, chosen, plays, lost, heard>>
  BY DEF Download, agentVars, playVars
<1>3. /\ task.action = "DOWNLOAD" /\ plays = 0 /\ result = Pending
      /\ got < Len(chosen) /\ Sound(chosen) /\ IsInjective(chosen)
      /\ task.target # "files" => InOrder(chosen, files) /\ <<"list", "FOUND">> \in heard
  BY <1>1, <1>2 DEF PlaceInv, PlayInv, BatchInv, TypeOK
<1>4. /\ files \in Listings /\ files \in Seq(Files) /\ chosen \in Seq(Files) /\ got \in Nat
      /\ Len(chosen) \in Nat /\ heard \subseteq Tools \X (Answers \cup {"OTHER"})
  BY <1>1 DEF TypeOK
<1>5. CASE o = "FOUND" /\ got + 1 = Len(chosen)
  <2>1. /\ got' = Len(chosen) /\ at' = "done"
        /\ result' = [Result("COMPLETED") EXCEPT !.downloads = chosen, !.listed = files]
    BY <1>5 DEF Download, Finish
  <2>2. /\ result'.status = "COMPLETED" /\ result'.downloads = chosen /\ result'.listed = files
        /\ result'.playbacks = {}
    BY <2>1 DEF Result
  <2>3. TypeOK'
    BY <1>1, <1>2, <1>4, <2>1, <2>2 DEF TypeOK
  <2>4. PlaceInv' /\ BatchInv'
    BY <2>1 DEF PlaceInv, BatchInv
  <2>5. PlayInv'
    BY <1>2, <1>3, <2>1 DEF PlayInv
  <2>6. CaptureInv'
    BY <1>1, <1>2 DEF CaptureInv
  <2>7. AnswerInv'
    BY <1>3, <1>4, <2>2 DEF AnswerInv, Sound
  <2>8. StatusIsEarned'
    BY <1>2, <1>3, <2>2 DEF StatusIsEarned, Earns
  <2>9. BatchIsWhole'
    BY <1>1, <1>2, <1>3, <2>1, <2>2 DEF BatchIsWhole, Earned, InOrder
  <2>10. PlaybacksAreKnown' /\ TargetPlaysOnce'
    BY <1>2, <1>3, <2>2 DEF PlaybacksAreKnown, TargetPlaysOnce
  <2> QED BY <2>3, <2>4, <2>5, <2>6, <2>7, <2>8, <2>9, <2>10 DEF IInv, Earned
<1>6. CASE o = "FOUND" /\ got + 1 # Len(chosen)
  <2>1. got' = got + 1 /\ at' = at /\ result' = result
    BY <1>6 DEF Download, Stay
  <2>2. got' < Len(chosen)
    BY <1>3, <1>4, <1>6, <2>1
  <2>3. TypeOK'
    BY <1>1, <1>2, <1>4, <2>1, <2>2 DEF TypeOK
  <2>4. PlaceInv' /\ PlayInv'
    BY <1>1, <1>2, <2>1 DEF PlaceInv, PlayInv
  <2>5. CaptureInv'
    BY <1>1, <1>2 DEF CaptureInv
  <2>6. BatchInv'
    BY <1>2, <1>3, <2>1, <2>2 DEF BatchInv
  <2>7. AnswerInv' /\ Earned'
    BY <1>1, <1>2, <1>3, <2>1, <2>4, GoesOn DEF Earned, BatchIsWhole
  <2> QED BY <2>3, <2>4, <2>5, <2>6, <2>7 DEF IInv
<1>7. CASE o # "FOUND"
  <2>1. got' = got /\ at' = "done" /\ result' = Result(DirectContract(o))
    BY <1>7 DEF Download, Finish
  <2>2. /\ result'.status = DirectContract(o) /\ result'.downloads = <<>> /\ result'.listed = <<>>
        /\ result'.playbacks = {}
    BY <2>1 DEF Result
  <2>3. /\ result'.status \in {"FAILED", "AUTH_REQUIRED"}
        /\ result'.listed \in Seq(Files) /\ at # "done"
    BY <1>2, <1>7, <2>2, ContractIs
  <2> QED BY <1>2, <1>3, <1>4, <2>1, <2>2, <2>3, QuietAnswerKeeps
<1> QED BY <1>5, <1>6, <1>7

-----------------------------------------------------------------------------
(* The theorems.                                                           *)

LEMMA StutterHolds == ASSUME IInv, UNCHANGED vars PROVE IInv'
<1> USE DEF vars, agentVars, batchVars, playVars, Known
<1>1. TypeOK' /\ PlaceInv'
  BY DEF IInv, TypeOK, PlaceInv
<1>2. CaptureInv' /\ PlayInv' /\ BatchInv' /\ AnswerInv'
  BY DEF IInv, CaptureInv, PlayInv, BatchInv, AnswerInv
<1>3. StatusIsEarned' /\ BatchIsWhole' /\ PlaybacksAreKnown' /\ TargetPlaysOnce'
  BY DEF IInv, Earned, StatusIsEarned, BatchIsWhole, PlaybacksAreKnown, TargetPlaysOnce
<1> QED BY <1>1, <1>2, <1>3 DEF IInv, Earned

LEMMA NextHolds == IInv /\ [Next]_vars => IInv'
<1> SUFFICES ASSUME IInv, [Next]_vars PROVE IInv'
  OBVIOUS
<1>1. CASE DirectStep
  <2>1. CASE RefuseUnnamed
    BY <2>1, RefuseUnnamedKeeps
  <2>2. CASE \E o \in Answers \cup {"OTHER"} : Resolve(o)
    BY <2>2, ResolveKeeps
  <2>3. CASE \E o \in Answers : PlayTarget(o)
    BY <2>3, PlayTargetKeeps
  <2>4. CASE \E o \in Answers : OpenAnnouncement(o)
    BY <2>4, OpenAnnouncementKeeps
  <2>5. CASE \E o, p \in Answers, l \in Listings : OpenAssignment(o, p, l)
    BY <2>5, OpenAssignmentKeeps
  <2>6. CASE \E o \in Answers, l \in Listings : ListFiles(o, l)
    BY <2>6, ListFilesKeeps
  <2>7. CASE \E o \in Answers \cup {"OTHER"} : Download(o)
    BY <2>7, DownloadKeeps
  <2> QED BY <1>1, <2>1, <2>2, <2>3, <2>4, <2>5, <2>6, <2>7 DEF DirectStep
<1>2. CASE AgentStep
  <2>1. CASE \E tool \in Tools, o \in Answers : AgentCalls(tool, o)
    BY <2>1, AgentCallsKeeps
  <2>2. CASE \E l \in Listings : AgentLists(l)
    BY <2>2, AgentListsKeeps
  <2>3. CASE AgentRaises
    BY <2>3, AgentRaisesKeeps
  <2>4. CASE AgentReturns
    BY <2>4, AgentReturnsKeeps
  <2>5. CASE \E o \in Answers : FallbackPlays(o)
    BY <2>5, FallbackPlaysKeeps
  <2> QED BY <1>2, <2>1, <2>2, <2>3, <2>4, <2>5 DEF AgentStep
<1>3. CASE Done \/ UNCHANGED vars
  BY <1>3, StutterHolds DEF Done
<1> QED BY <1>1, <1>2, <1>3 DEF Next

LEMMA Inductive == Spec => []IInv
  BY InitHolds, NextHolds, PTL DEF Spec

\* Whatever the Agent calls, in whatever order, and claims at the end: a
\* COMPLETED result rests on the tool answer its task asks for, and an
\* AUTH_REQUIRED one on a tool that said so.
THEOREM ResultsAreEarned == Spec => []StatusIsEarned
<1>1. IInv => StatusIsEarned
  BY DEF IInv, Earned
<1> QED BY <1>1, Inductive, PTL

\* A completed download is the whole batch, each attachment once and in the
\* order of the listing, and never of another file than the one named; for
\* every list of attachments and every limit of a batch.
THEOREM BatchesAreWhole == Spec => []BatchIsWhole
<1>1. IInv => BatchIsWhole
  BY DEF IInv, Earned
<1> QED BY <1>1, Inductive, PTL

\* Types, no playback of a completed step that F2 could not stop, no verified
\* target played twice or before it was found again.
THEOREM EclassStepCorrect == Spec => []EclassStepInv
<1>1. IInv => EclassStepInv
  BY DEF IInv, Earned, EclassStepInv
<1> QED BY <1>1, Inductive, PTL

-----------------------------------------------------------------------------
(* The handler implements the contract the runtime relies on.              *)

LEMMA DoneStays == ASSUME [Next]_vars, at = "done" PROVE UNCHANGED vars
<1>1. ~DirectStep
  BY DEF DirectStep, RefuseUnnamed, Resolve, PlayTarget, OpenAnnouncement, OpenAssignment,
         ListFiles, Download
<1>2. ~AgentStep
  BY DEF AgentStep, AgentCalls, AgentLists, AgentRaises, AgentReturns, FallbackPlays
<1> QED BY <1>1, <1>2 DEF Next, Done

LEMMA StepAnswers == IInv /\ IInv' /\ [Next]_vars => [Contracted!Return]_(Contracted!vars)
<1> SUFFICES ASSUME IInv, IInv', [Next]_vars PROVE [Contracted!Return]_(Contracted!vars)
  OBVIOUS
<1> USE DEF Contracted!vars
<1>1. CASE at = "done"
  BY <1>1, DoneStays DEF vars
<1>2. CASE at # "done" /\ at' # "done"
  <2>1. result = Pending /\ result' = Pending
    BY <1>2 DEF IInv, PlaceInv
  <2> QED BY <1>2, <2>1
<1>3. CASE at # "done" /\ at' = "done"
  <2>1. /\ result'.status \in {"COMPLETED", "FAILED", "AUTH_REQUIRED"}
        /\ result'.status # "COMPLETED" => result'.downloads = <<>>
        /\ result'.downloads \in Seq(Files) /\ IsInjective(result'.downloads)
        /\ Len(result'.downloads) <= MaxBatch
        /\ result'.listed \in Seq(Files)
    BY <1>3 DEF IInv, AnswerInv
  <2>2. \A i, j \in 1..Len(result'.downloads) : result'.downloads[i] = result'.downloads[j] => i = j
    BY <2>1 DEF IsInjective
  <2>3. \A i \in 1..Len(result'.listed) : result'.listed[i] \in Files
    BY <2>1
  <2> QED BY <1>3, <2>1, <2>2, <2>3 DEF Contracted!Return, Contracted!Promised, Contracted!Statuses
<1> QED BY <1>1, <1>2, <1>3

\* The safety part of IsOneAnswer: the step gives at most one answer, and the
\* one SpecialistStep promises.
THEOREM AnswersOnce == Spec => Contracted!Init /\ [][Contracted!Return]_(Contracted!vars)
<1>1. Init => Contracted!Init
  <2>1. ASSUME Init PROVE at # "done" /\ result = Pending
    <3>1. at = Route(task)
      BY <2>1 DEF Init
    <3>2. Route(task) # "done"
      BY DEF Route
    <3> QED BY <3>1, <3>2, <2>1 DEF Init
  <2> QED BY <2>1 DEF Contracted!Init, Pending, Result
<1> QED BY <1>1, Inductive, StepAnswers, PTL DEF Spec

-----------------------------------------------------------------------------
(* The invariant of the runtime.                                           *)

Places == {"idle", "planning", "retrying", "planned", "next", "running", "auditing"}

\* References to no later download than the n-th.
RefsUpTo(n) == (0..n) \X Items

\* What a request is made of while n files have been downloaded.
Jobs(n) ==
    [pc : Places, alone : BOOLEAN, logged : Actors \cup {"none"},
     text : Utterances \cup {NoText}, saw : {<<>>} \cup Lists["ATTACHMENT"],
     named : SUBSET (Items \cup Attachments),
     steps : Seq(Steps), reuse : BOOLEAN, at : Nat,
     refs : Seq(RefsUpTo(n)), lists : Seq([kind : DOMAIN Lists, list : Seq(Items)]),
     input : Seq(RefsUpTo(n)), outcome : {"none", "COMPLETED", "FAILED"}]

\* A step of the plan is at hand when one runs, and nothing has been returned
\* before the first.
WellPlaced(j) ==
    /\ Len(j.steps) <= MaxSteps /\ j.at \in 1..(Len(j.steps) + 1)
    /\ j.pc \in {"running", "auditing"} => j.at <= Len(j.steps)
    /\ j.pc \in {"planning", "retrying", "planned"} => j.at = 1 /\ j.refs = <<>> /\ j.lists = <<>>

\* Where the files of the plan come from: those it is bound to fit the name in
\* the text, and those it downloads fit it if the slots carry the name.
WellNamed(j) ==
    /\ \A i \in DOMAIN j.steps :
         /\ ToSet(j.steps[i].files) \subseteq j.named \cap Items
         /\ j.steps[i].slots.ordinal # 0 => j.named = Attachments
         /\ j.steps[i].slots.query.filename => j.steps[i].slots.query.given
    /\ NamePassedOn(j) =>
         \A k \in DOMAIN j.refs : IsDownload(j.refs[k]) => j.refs[k][2] \in j.named

\* Later references are newer downloads.
NewerLater(refs) ==
    \A i, k \in DOMAIN refs :
        i < k /\ IsDownload(refs[i]) /\ IsDownload(refs[k]) => refs[i][1] <= refs[k][1]

\* The references of a document step that wants these files of the plan, given
\* what the plan has returned (DocumentGetsItsFiles, NamedFileOnly).
Supplied(wanted, reuse, refs, input) ==
    /\ wanted # <<>> =>
         /\ [i \in DOMAIN input |-> input[i][2]] = wanted
         /\ \A i \in DOMAIN input, k \in DOMAIN refs :
              IsDownload(refs[k]) /\ refs[k][2] = input[i][2] => input[i][1] >= refs[k][1]
    /\ wanted = <<>> /\ ~reuse =>
         \A i \in DOMAIN input : \E k \in DOMAIN refs : input[i] = refs[k] /\ IsDownload(refs[k])
    /\ wanted = <<>> /\ reuse => Len(input) = 1

WellSupplied(j) ==
    j.pc = "running" /\ j.steps[j.at].kind = "document" =>
        Supplied(j.steps[j.at].files, j.reuse, j.refs, j.input)

\* The files of a plan not yet admitted.
WellBound(j) ==
    \A i, d \in DOMAIN j.steps :
        /\ j.pc = "planned" /\ j.alone
        /\ j.steps[i].files # <<>> /\ First(j.steps, "download", d)
        => j.steps[i].files = SelectFiles(j.saw, Says(j.text, j.steps[d].slots), Parent)

JobOK(n, a, j) ==
    /\ j \in Jobs(n)
    /\ WellPlaced(j)
    /\ WellNamed(j)
    /\ NewerLater(j.refs)
    /\ WellSupplied(j)
    /\ WellBound(j)
    /\ j.alone => j.logged \in {"none", a}

\* A request that nothing overlaps: it is the current one, and until it has its
\* plan the last completed answer is the one it was made after.
Undisturbed(a) ==
    job[a].alone /\ job[a].pc # "idle" =>
        /\ current = a
        /\ \A b \in Actors : b # a => job[b].pc = "idle"
        /\ job[a].pc \in {"planning", "retrying"} => job[a].saw = shown

ContextOK ==
    /\ downloads \in Nat
    /\ history \in Seq(RefsUpTo(downloads)) /\ Len(history) <= MaxRefs
    /\ snap \in [DOMAIN Lists -> Seq(Items)]
    /\ \A k \in DOMAIN Lists : snap[k] \in {<<>>} \cup Lists[k]
    /\ shown = snap["ATTACHMENT"]
    /\ current \in Actors \cup {"none"}
    /\ asked \in [Actors -> Nat] /\ \A a \in Actors : asked[a] <= MaxRequests[a]

RuntimeIInv ==
    /\ ContextOK
    /\ DOMAIN job = Actors
    /\ \A a \in Actors : JobOK(downloads, a, job[a]) /\ Undisturbed(a)

-----------------------------------------------------------------------------
(* The references a document step chooses from.                            *)

Downloaded == (Nat \ {0}) \X Items

LEMMA RefIs ==
    ASSUME NEW n \in Nat, NEW r \in RefsUpTo(n)
    PROVE  /\ r[1] \in 0..n /\ r[2] \in Items
           /\ IsDownload(r) <=> r \in Downloaded
BY DEF RefsUpTo, IsDownload, Downloaded

\* The copy of a file that a step is given: it is in the pool, and none that the
\* plan itself downloaded is newer.
LEMMA NewestIs ==
    ASSUME NEW n \in Nat, NEW h \in Seq(RefsUpTo(n)), NEW r \in Seq(RefsUpTo(n)), NewerLater(r),
           NEW f, NEW x \in ToSet(Keep(h \o r, Downloaded)), x[2] = f
    PROVE  LET new == Newest(Keep(h \o r, Downloaded), f) IN
           /\ new \in ToSet(Keep(h \o r, Downloaded)) /\ new \in RefsUpTo(n) /\ new[2] = f
           /\ \A k \in DOMAIN r : IsDownload(r[k]) /\ r[k][2] = f => new[1] >= r[k][1]
<1> DEFINE all == h \o r
           pool == Keep(all, Downloaded)
           new == Newest(pool, f)
<1>1. /\ all \in Seq(RefsUpTo(n)) /\ Len(all) = Len(h) + Len(r)
      /\ Len(h) \in Nat /\ Len(r) \in Nat
      /\ \A k \in 1..Len(r) : all[Len(h) + k] = r[k]
      /\ DOMAIN r = 1..Len(r)
  OBVIOUS
<1> HIDE DEF all
<1>2. pool \in Seq(RefsUpTo(n)) /\ ToSet(pool) = ToSet(all) \cap Downloaded
  BY <1>1, KeptAre
<1>3. PICK e : Embeds(e, pool, all, Downloaded, Len(all))
  BY <1>1, KeepIs
<1>4. x \in ToSet(pool)
  BY DEF all
<1> HIDE DEF pool
<1>5. DOMAIN pool = 1..Len(pool) /\ Len(pool) \in Nat
  BY <1>2
<1>6. \A y \in RefsUpTo(n) : y \in Nat \X {f} <=> y[2] = f
  BY DEF RefsUpTo
<1>7. PICK p \in 1..Len(pool) : pool[p][2] = f
  BY <1>4, <1>5 DEF ToSet
<1>8. Keep(pool, Nat \X {f}) # <<>>
  <2>1. pool[p] \in Nat \X {f}
    BY <1>2, <1>6, <1>7
  <2>2. ToSet(Keep(pool, Nat \X {f})) = ToSet(pool) \cap (Nat \X {f})
    BY <1>2, KeptAre
  <2>3. pool[p] \in ToSet(Keep(pool, Nat \X {f}))
    BY <1>5, <1>7, <2>1, <2>2 DEF ToSet
  <2>4. ToSet(<<>>) = {}
    BY DEF ToSet
  <2> QED BY <2>3, <2>4
<1>9. PICK q \in 1..Len(pool) :
         /\ new = pool[q] /\ pool[q] \in Nat \X {f}
         /\ \A m \in 1..Len(pool) : pool[m] \in Nat \X {f} => m <= q
  BY <1>2, <1>8, LastKept DEF Newest
<1>10. new \in ToSet(pool) /\ new \in RefsUpTo(n) /\ new[2] = f
  <2>1. pool[q] \in ToSet(pool) /\ pool[q] \in RefsUpTo(n)
    BY <1>2, <1>5 DEF ToSet
  <2>2. pool[q][2] = f
    BY <1>6, <1>9, <2>1
  <2> QED BY <1>9, <2>1, <2>2
<1>11. ASSUME NEW k \in DOMAIN r, IsDownload(r[k]), r[k][2] = f PROVE new[1] >= r[k][1]
  <2>1. k \in 1..Len(r) /\ Len(h) + k \in 1..Len(all) /\ r[k] \in RefsUpTo(n)
    BY <1>1
  <2>2. all[Len(h) + k] \in Downloaded
    BY <1>1, <1>11, <2>1, RefIs
  <2>3. PICK m \in 1..Len(pool) : e[m] = Len(h) + k
    BY <1>3, <2>1, <2>2 DEF Embeds
  <2>4. pool[m] = r[k]
    BY <1>1, <1>3, <2>1, <2>3 DEF Embeds
  <2>5. m <= q
    BY <1>6, <1>9, <1>11, <2>1, <2>4
  <2>6. m = q \/ m < q
    BY <2>3, <2>5
  <2>7. r[k][1] \in 0..n /\ new[1] \in 0..n
    BY <1>10, <2>1, RefIs
  <2>8. CASE m = q
    BY <1>9, <2>4, <2>7, <2>8
  <2>9. CASE m < q
    <3> DEFINE i == e[q] - Len(h)
    <3>1. e \in [1..Len(pool) -> 1..Len(all)] /\ e[m] < e[q]
      BY <1>3, <2>9 DEF Embeds
    <3>2. e[q] \in 1..Len(all) /\ e[q] \in Nat
      <4>1. e[q] \in 1..Len(all)
        BY <3>1
      <4> QED BY <4>1
    <3>3. i \in 1..Len(r) /\ k < i /\ e[q] = Len(h) + i
      BY <1>1, <2>1, <2>3, <3>1, <3>2
    <3>4. pool[q] = all[e[q]] /\ pool[q] \in Downloaded
      BY <1>3 DEF Embeds
    <3> HIDE DEF i
    <3>5. new = r[i]
      BY <1>1, <1>9, <3>3, <3>4
    <3>6. IsDownload(r[i])
      BY <1>9, <1>10, <3>4, <3>5, RefIs
    <3>7. r[k][1] <= r[i][1]
      BY <1>1, <1>11, <2>1, <3>3, <3>6 DEF NewerLater
    <3> QED BY <2>7, <3>5, <3>7
  <2> QED BY <2>6, <2>8, <2>9
<1> QED BY <1>10, <1>11 DEF pool, all

\* What a document step is given, if it is given anything.
LEMMA DocumentRefsIs ==
    ASSUME NEW n \in Nat, history \in Seq(RefsUpTo(n)),
           NEW j, j.refs \in Seq(RefsUpTo(n)), NewerLater(j.refs),
           NEW wanted \in Seq(Items), j.steps[j.at].files = wanted, j.reuse \in BOOLEAN,
           DocumentRefs(j) # <<>>
    PROVE  /\ DocumentRefs(j) \in Seq(RefsUpTo(n))
           /\ Supplied(wanted, j.reuse, j.refs, DocumentRefs(j))
<1> DEFINE h == IF wanted # <<>> \/ j.reuse THEN history ELSE <<>>
           pool == Keep(h \o j.refs, Downloaded)
           seen == [k \in DOMAIN pool |-> pool[k][2]]
           selected ==
               IF wanted # <<>> THEN IF ToSet(wanted) \subseteq ToSet(seen) THEN wanted ELSE <<>>
               ELSE IF pool # <<>> /\ j.reuse THEN <<Last(Distinct(seen))>>
               ELSE Distinct(seen)
           input == [i \in DOMAIN selected |-> Newest(pool, selected[i])]
<1>1. h \in Seq(RefsUpTo(n)) /\ <<>> \o j.refs = j.refs
  OBVIOUS
<1>2. Pool(j) = pool
  BY <1>1, Zenon DEF Pool, Downloaded
<1>3. DocumentRefs(j) = input
  BY <1>2, Zenon DEF DocumentRefs
<1> HIDE DEF h
<1>4. /\ h \o j.refs \in Seq(RefsUpTo(n))
      /\ pool \in Seq(RefsUpTo(n)) /\ ToSet(pool) = ToSet(h \o j.refs) \cap Downloaded
  <2>1. h \o j.refs \in Seq(RefsUpTo(n))
    BY <1>1
  <2> QED BY <2>1, KeptAre
<1> HIDE DEF pool
<1>5. /\ DOMAIN pool = 1..Len(pool)
      /\ \A k \in DOMAIN pool : pool[k] \in RefsUpTo(n) /\ pool[k] \in ToSet(pool)
  BY <1>4 DEF ToSet
<1>6. seen \in Seq(Items) /\ \A k \in DOMAIN pool : seen[k] = pool[k][2]
  <2>1. \A k \in DOMAIN pool : pool[k][2] \in Items
    BY <1>5, RefIs
  <2> QED BY <1>4, <1>5, <2>1
<1>7. \A f \in ToSet(seen) : \E x \in ToSet(pool) : x[2] = f
  BY <1>5, <1>6 DEF ToSet
<1>8. /\ Distinct(seen) \in Seq(Items) /\ ToSet(Distinct(seen)) = ToSet(seen)
      /\ pool # <<>> => Distinct(seen) # <<>>
  <2>1. Distinct(seen) \in Seq(Items) /\ ToSet(Distinct(seen)) = ToSet(seen)
    BY <1>6, DistinctIs
  <2>2. ASSUME pool # <<>> PROVE Distinct(seen) # <<>>
    <3>1. 1 \in DOMAIN seen
      BY <1>4, <1>5, <2>2
    <3>2. seen[1] \in ToSet(seen)
      BY <3>1, Zenon DEF ToSet
    <3>3. ToSet(<<>>) = {}
      BY DEF ToSet
    <3> QED BY <2>1, <3>2, <3>3
  <2> QED BY <2>1, <2>2
<1> HIDE DEF seen
<1>9. selected \in Seq(Items) /\ ToSet(selected) \subseteq ToSet(seen)
  <2>1. ASSUME pool # <<>> PROVE Last(Distinct(seen)) \in ToSet(Distinct(seen))
    <3>1. Len(Distinct(seen)) \in DOMAIN Distinct(seen)
      BY <1>8, <2>1
    <3> QED BY <3>1, Zenon DEF Last, ToSet
  <2>2. \A x \in ToSet(Distinct(seen)) : x \in Items
    BY <1>8 DEF ToSet
  <2>3. \A x : ToSet(<<x>>) = {x}
    BY DEF ToSet
  <2>4. ToSet(<<>>) = {} /\ <<>> \in Seq(Items)
    BY DEF ToSet
  <2>5. pool # <<>> => <<Last(Distinct(seen))>> \in Seq(Items)
    BY <2>1, <2>2
  <2> QED BY <1>8, <2>1, <2>3, <2>4, <2>5
<1>10. wanted = <<>> /\ j.reuse => Len(input) = 1
  <2>1. wanted = <<>> /\ j.reuse /\ pool # <<>> => Len(selected) = 1
    OBVIOUS
  <2>2. ASSUME wanted = <<>>, pool = <<>> PROVE selected = <<>>
    <3>1. seen = <<>>
      BY <2>2 DEF seen
    <3>2. ToSet(seen) = {}
      BY <3>1 DEF ToSet
    <3>3. Distinct(seen) = <<>>
      <4>1. SUFFICES ASSUME Distinct(seen) # <<>> PROVE FALSE
        OBVIOUS
      <4>2. 1 \in DOMAIN Distinct(seen)
        BY <1>8, <4>1
      <4>3. Distinct(seen)[1] \in ToSet(Distinct(seen))
        BY <4>2, Zenon DEF ToSet
      <4> QED BY <1>8, <3>2, <4>3
    <3> QED BY <2>2, <3>3
  <2>3. selected = <<>> => input = <<>>
    OBVIOUS
  <2> HIDE DEF selected
  <2>4. Len(selected) = 1 => Len(input) = 1
    BY <1>9
  <2> QED BY <1>3, <2>1, <2>2, <2>3, <2>4
<1>11. wanted # <<>> => selected = wanted
  <2>1. selected = <<>> => input = <<>>
    OBVIOUS
  <2> QED BY <1>3, <2>1
<1> HIDE DEF selected
<1>12. ASSUME NEW i \in DOMAIN selected
       PROVE  /\ Newest(pool, selected[i]) \in ToSet(pool)
              /\ Newest(pool, selected[i]) \in RefsUpTo(n)
              /\ Newest(pool, selected[i])[2] = selected[i]
              /\ \A k \in DOMAIN j.refs : IsDownload(j.refs[k]) /\ j.refs[k][2] = selected[i] =>
                    Newest(pool, selected[i])[1] >= j.refs[k][1]
  <2>1. selected[i] \in ToSet(seen)
    BY <1>9 DEF ToSet
  <2>2. PICK x \in ToSet(pool) : x[2] = selected[i]
    BY <1>7, <2>1
  <2> QED BY <1>1, <2>2, NewestIs DEF pool
<1>13. /\ DOMAIN input = DOMAIN selected /\ input \in Seq(RefsUpTo(n))
       /\ \A i \in DOMAIN selected : input[i] = Newest(pool, selected[i])
  <2>1. DOMAIN selected = 1..Len(selected) /\ Len(selected) \in Nat
    BY <1>9
  <2> QED BY <1>12, <2>1
<1> HIDE DEF input
<1>14. ASSUME wanted # <<>>
       PROVE  /\ [i \in DOMAIN input |-> input[i][2]] = wanted
              /\ \A i \in DOMAIN input, k \in DOMAIN j.refs :
                   IsDownload(j.refs[k]) /\ j.refs[k][2] = input[i][2] => input[i][1] >= j.refs[k][1]
  <2>1. \A i \in DOMAIN input : input[i][2] = wanted[i]
    BY <1>11, <1>12, <1>13, <1>14
  <2>2. wanted = [i \in DOMAIN wanted |-> wanted[i]] /\ DOMAIN input = DOMAIN wanted
    BY <1>11, <1>13, <1>14
  <2> QED BY <1>12, <1>13, <2>1, <2>2
<1>15. ASSUME wanted = <<>>, ~j.reuse, NEW i \in DOMAIN input
       PROVE  \E k \in DOMAIN j.refs : input[i] = j.refs[k] /\ IsDownload(j.refs[k])
  <2>1. h \o j.refs = j.refs
    BY <1>1, <1>15 DEF h
  <2>2. input[i] \in ToSet(j.refs) /\ input[i] \in Downloaded
    BY <1>4, <1>12, <1>13, <1>15, <2>1
  <2>3. PICK k \in DOMAIN j.refs : input[i] = j.refs[k]
    BY <2>2 DEF ToSet
  <2>4. j.refs[k] \in RefsUpTo(n)
    OBVIOUS
  <2> QED BY <2>2, <2>3, <2>4, RefIs
<1>16. Supplied(wanted, j.reuse, j.refs, input)
  BY <1>10, <1>14, <1>15 DEF Supplied
<1>17. DocumentRefs(j) = input
  BY <1>3 DEF input
<1> QED BY <1>13, <1>16, <1>17

-----------------------------------------------------------------------------
(* What the plan is bound to.                                              *)

LEMMA KeepFrom ==
    ASSUME NEW X, NEW l \in Seq(X), NEW S
    PROVE  Keep(l, S) \in Seq(X) /\ ToSet(Keep(l, S)) \subseteq ToSet(l) \cap S
BY KeptAre

\* The files of a plan are of the list, and those the text names if it names one.
LEMMA SelectFilesIs ==
    ASSUME NEW X, NEW l \in Seq(X), NEW u \in Texts, NEW parent
    PROVE  LET d == SelectFiles(l, u, parent) IN
           /\ d \in Seq(X)
           /\ ToSet(d) \subseteq ToSet(l)
           /\ u.file.given /\ u.number = 0 => ToSet(d) \subseteq u.file.matches
<1> DEFINE titled == ToSet(l) \cap u.titles
           typed == ToSet(l) \cap u.suffix
           matched ==
               IF Explicit(l, u) THEN Denoted(l, u)
               ELSE IF ~Selector(u).given /\ titled # {} THEN titled
               ELSE IF typed # {} THEN typed
               ELSE IF u.plural \/ (Len(l) = 1 /\ u.vague) THEN ToSet(l)
               ELSE {}
           selected == Keep(l, matched)
<1>1. SelectFiles(l, u, parent) = selected \/ SelectFiles(l, u, parent) = <<>>
  BY Zenon DEF SelectFiles
<1>2. selected \in Seq(X) /\ ToSet(selected) = ToSet(l) \cap matched
  BY KeptAre
<1>3. ASSUME u.file.given, u.number = 0 PROVE matched \subseteq u.file.matches
  <2>1. Selector(u) = u.file
    BY <1>3 DEF Selector
  <2>2. Denoted(l, u) = ToSet(l) \cap u.file.matches
    BY <1>3, <2>1 DEF Denoted
  <2>3. Explicit(l, u)
    BY <1>3, <2>1 DEF Explicit
  <2> QED BY <2>2, <2>3
<1> HIDE DEF selected, matched
<1>4. ToSet(<<>>) = {} /\ <<>> \in Seq(X)
  BY DEF ToSet
<1> QED BY <1>1, <1>2, <1>3, <1>4

\* A step acts on items of the term and course of the slots.
LEMMA TargetIs ==
    ASSUME NEW u \in Texts, NEW kind
    PROVE  Target(kind, u) \in SUBSET Items
<1>1. u.scope \subseteq Items
  BY DEF Texts
<1>2. ASSUME NEW l PROVE Matches(l, u, u.scope) \subseteq u.scope
  BY DEF Matches
<1>3. ASSUME NEW S, NEW T, S \subseteq u.scope, T \subseteq u.scope, NEW p
      PROVE  OnlyOne(S, T, p) \subseteq u.scope
  BY <1>3 DEF OnlyOne
<1>4. ASSUME NEW l PROVE /\ ChooseAnnouncement(l, u, u.scope) \subseteq u.scope
                         /\ ChooseAssignment(l, u, u.scope) \subseteq u.scope
  <2>1. ToSet(l) \cap u.scope \subseteq u.scope
    OBVIOUS
  <2> QED BY <1>2, <1>3, <2>1, Zenon DEF ChooseAnnouncement, ChooseAssignment
<1>5. ASSUME NEW l PROVE ChooseLecture(l, u, u.scope) \subseteq u.scope
  <2> DEFINE named == Matches(l, u, u.scope)
             inScope == ToSet(l) \cap u.scope
             T == IF named # {} THEN named ELSE inScope \cap u.week
  <2>1. T \subseteq u.scope /\ inScope \subseteq u.scope
    BY <1>2
  <2>2. ChooseLecture(l, u, u.scope) = OnlyOne(T, inScope, u.that)
    BY Zenon DEF ChooseLecture
  <2> HIDE DEF T, inScope
  <2> QED BY <1>3, <2>1, <2>2
<1>6. CASE kind \notin DOMAIN Needs
  BY <1>6 DEF Target
<1>7. CASE kind \in DOMAIN Needs
  <2> DEFINE l == snap[Needs[kind]]
  <2>1. Target(kind, u) \in {ChooseAnnouncement(l, u, u.scope), ChooseLecture(l, u, u.scope),
                             ChooseAssignment(l, u, u.scope)}
    <3>1. CASE kind = "openNotice"
      BY <1>7, <3>1 DEF Target
    <3>2. CASE kind = "play"
      BY <1>7, <3>2 DEF Target
    <3>3. CASE kind # "openNotice" /\ kind # "play"
      BY <1>7, <3>3 DEF Target
    <3> QED BY <3>1, <3>2, <3>3
  <2> HIDE DEF l
  <2> QED BY <1>1, <1>4, <1>5, <2>1
<1> QED BY <1>6, <1>7

LEMMA TextIs ==
    ASSUME RuntimeAssumption, NEW u \in Utterances \cup {NoText}
    PROVE  /\ u \in Texts
           /\ \A q \in {NoQuery, u.query, u.file} : q \in Wordings /\ (q.filename => q.given)
<1>1. NoQuery \in Wordings /\ ~NoQuery.filename
  BY DEF NoQuery, Wordings
<1>2. NoText \in Texts /\ NoText.query = NoQuery /\ NoText.file = NoQuery
  BY <1>1 DEF NoText, Texts
<1>3. u \in Utterances => u \in Texts /\ \A q \in {u.query, u.file} : q.filename => q.given
  BY DEF RuntimeAssumption
<1>4. u \in Texts => u.query \in Wordings /\ u.file \in Wordings
  BY DEF Texts
<1> QED BY <1>1, <1>2, <1>3, <1>4

\* The slots of any task, and a text that says what they say.
LEMMA SlotsIs ==
    ASSUME RuntimeAssumption, NEW u \in Utterances \cup {NoText}, NEW t
    PROVE  LET slots == SlotsOf(t, u) IN
           /\ slots \in Slots /\ slots.ordinal \in {0, u.number}
           /\ slots.query.filename => slots.query.given
           /\ Says(u, slots) \in Texts
           /\ Says(u, slots).number = u.number /\ Says(u, slots).file = u.file
<1> DEFINE slots == SlotsOf(t, u)
<1>1. /\ u \in Texts
      /\ \A q \in {NoQuery, u.query, u.file} : q \in Wordings /\ (q.filename => q.given)
  BY TextIs
<1>2. u.number \in Nat /\ u.scope \in SUBSET Items
  BY <1>1 DEF Texts
<1>3. /\ slots.ordinal \in {0, u.number} /\ slots.query \in {NoQuery, u.query, u.file}
      /\ slots.scope \in {u.scope, Items}
  BY DEF SlotsOf
<1>4. slots = [ordinal |-> slots.ordinal, query |-> slots.query, scope |-> slots.scope]
  BY DEF SlotsOf
<1> HIDE DEF slots
<1>5. slots \in Slots
  BY <1>1, <1>2, <1>3, <1>4 DEF Slots
<1>6. /\ Says(u, slots) \in Texts
      /\ Says(u, slots).number = u.number /\ Says(u, slots).file = u.file
  BY <1>1, <1>5 DEF Says, Slots, Texts
<1> QED BY <1>1, <1>3, <1>5, <1>6 DEF slots

\* The files of a plan, whatever its tasks are.
LEMMA PlanFilesIs ==
    ASSUME RuntimeAssumption, ContextOK, NEW u \in Utterances \cup {NoText}, NEW plan
    PROVE  LET meant == PlanFiles(plan, u) IN
           /\ meant \in Seq(Attachments \cap Items)
           /\ u.file.given /\ u.number = 0 => ToSet(meant) \subseteq u.file.matches
<1> DEFINE w == Says(u, SelectorSlots(plan, u))
           selected == SelectFiles(snap["ATTACHMENT"], w, Parent)
<1>1. snap["ATTACHMENT"] \in Seq(Attachments \cap Items)
  <2>1. "ATTACHMENT" \in DOMAIN Lists
    BY DEF RuntimeAssumption
  <2>2. snap["ATTACHMENT"] = <<>> \/ snap["ATTACHMENT"] \in Lists["ATTACHMENT"]
    BY <2>1 DEF ContextOK
  <2>3. \A l \in Lists["ATTACHMENT"] : l \in Seq(Attachments) /\ l \in Seq(Items)
    BY <2>1 DEF RuntimeAssumption
  <2>4. \A l : l \in Seq(Attachments) /\ l \in Seq(Items) => l \in Seq(Attachments \cap Items)
    OBVIOUS
  <2>5. CASE snap["ATTACHMENT"] = <<>>
    <3>1. <<>> \in Seq(Attachments \cap Items)
      OBVIOUS
    <3> QED BY <2>5, <3>1, Zenon
  <2>6. CASE snap["ATTACHMENT"] \in Lists["ATTACHMENT"]
    BY <2>3, <2>4, <2>6, Zenon
  <2> QED BY <2>2, <2>5, <2>6, Zenon
<1>2. w \in Texts /\ w.number = u.number /\ w.file = u.file
  BY SlotsIs DEF SelectorSlots
<1> HIDE DEF w
<1>3. /\ selected \in Seq(Attachments \cap Items)
      /\ w.file.given /\ w.number = 0 => ToSet(selected) \subseteq w.file.matches
  BY <1>1, <1>2, SelectFilesIs
<1>4. PlanFiles(plan, u) \in {<<>>, selected}
  BY DEF PlanFiles, w
<1> HIDE DEF selected
<1>5. <<>> \in Seq(Attachments \cap Items) /\ ToSet(<<>>) = {}
  BY DEF ToSet
<1> QED BY <1>2, <1>3, <1>4, <1>5

\* The steps of a plan: within the limit, each with all the files that were
\* selected or with none, and selected by the slots of the first download.
LEMMA BoundIs ==
    ASSUME RuntimeAssumption, ContextOK, NEW u \in Utterances \cup {NoText},
           NEW plan \in Seq(ManagerTasks), Len(plan) <= MaxSteps
    PROVE  LET steps == Bound(plan, u)
               meant == PlanFiles(plan, u) IN
           /\ steps \in Seq(Steps) /\ Len(steps) <= MaxSteps
           /\ \A i \in DOMAIN steps :
                /\ steps[i].files \in {<<>>, meant}
                /\ steps[i].slots.ordinal \in {0, u.number}
                /\ steps[i].slots.query.filename => steps[i].slots.query.given
           /\ \A d \in DOMAIN steps :
                meant # <<>> /\ First(steps, "download", d) =>
                   meant = SelectFiles(snap["ATTACHMENT"], Says(u, steps[d].slots), Parent)
<1> DEFINE bound == PlanFiles(plan, u)
           list == snap["ATTACHMENT"]
           isbound(i) == plan[i].kind = "document" \/ First(plan, "download", i)
           stepOf(i) == Step(plan[i].kind, SlotsOf(plan[i], u),
                             Target(plan[i].kind, Says(u, SlotsOf(plan[i], u))),
                             IF isbound(i) THEN bound ELSE <<>>)
           own == [i \in DOMAIN plan |-> stepOf(i)]
           fetch == Step("download", SelectorSlots(plan, u), {}, bound)
           all == IF bound # <<>> /\ ~Has(plan, "download") THEN <<fetch>> \o own ELSE own
           last == IF Len(all) < MaxSteps THEN Len(all) ELSE MaxSteps
<1>1. Bound(plan, u) = SubSeq(all, 1, last)
  BY Zenon DEF Bound
<1>2. bound \in Seq(Attachments)
  <2>1. bound \in Seq(Attachments \cap Items)
    BY PlanFilesIs
  <2> HIDE DEF bound
  <2> QED BY <2>1
<1>3. bound # <<>> =>
        /\ Has(plan, "download") \/ Has(plan, "document")
        /\ bound = SelectFiles(list, Says(u, SelectorSlots(plan, u)), Parent)
  BY DEF PlanFiles
<1> HIDE DEF bound
<1> DEFINE Good == {s \in Steps : /\ s.files \in {<<>>, bound}
                                  /\ s.slots.ordinal \in {0, u.number}
                                  /\ s.slots.query.filename => s.slots.query.given}
<1>4. ASSUME NEW kind \in Kinds, NEW t, NEW item \in SUBSET Items, NEW d \in {<<>>, bound}
      PROVE  Step(kind, SlotsOf(t, u), item, d) \in Good
  <2> DEFINE slots == SlotsOf(t, u)
  <2>1. /\ slots \in Slots /\ slots.ordinal \in {0, u.number}
        /\ slots.query.filename => slots.query.given
    BY SlotsIs
  <2>2. d \in Seq(Attachments)
    <3>1. <<>> \in Seq(Attachments)
      OBVIOUS
    <3> QED BY <1>2, <1>4, <3>1, Zenon
  <2> HIDE DEF slots
  <2>3. Step(kind, slots, item, d) \in Good
    BY <2>1, <2>2 DEF Step, Steps
  <2> QED BY <2>3 DEF slots
<1>5. /\ DOMAIN plan = 1..Len(plan) /\ Len(plan) \in Nat
      /\ \A i \in DOMAIN plan : plan[i].kind \in Kinds
  <2>1. DOMAIN plan = 1..Len(plan) /\ Len(plan) \in Nat
    OBVIOUS
  <2>2. \A i \in DOMAIN plan : plan[i] \in ManagerTasks
    OBVIOUS
  <2>3. \A x \in ManagerTasks : x.kind \in Kinds
    BY DEF ManagerTasks
  <2> QED BY <2>1, <2>2, <2>3
<1>6. ASSUME NEW i \in DOMAIN plan PROVE stepOf(i) \in Good
  <2> DEFINE d == IF isbound(i) THEN bound ELSE <<>>
             w == Says(u, SlotsOf(plan[i], u))
  <2>1. d \in {<<>>, bound}
    OBVIOUS
  <2>2. w \in Texts
    BY SlotsIs
  <2> HIDE DEF d, w
  <2>3. Target(plan[i].kind, w) \in SUBSET Items
    BY <2>2, TargetIs
  <2>4. Step(plan[i].kind, SlotsOf(plan[i], u), Target(plan[i].kind, w), d) \in Good
    BY <1>4, <1>5, <2>1, <2>3
  <2> QED BY <2>4 DEF d, w
<1>7. \A i \in DOMAIN plan :
        stepOf(i).kind = plan[i].kind /\ stepOf(i).slots = SlotsOf(plan[i], u)
  BY DEF Step
<1>8. fetch \in Good /\ fetch.kind = "download" /\ fetch.slots = SelectorSlots(plan, u)
  <2>1. fetch \in Good
    BY <1>4 DEF Kinds, EclassKinds, Shows, SelectorSlots
  <2> QED BY <2>1 DEF Step
<1> HIDE DEF stepOf, fetch
<1>9. own \in Seq(Good) /\ Len(own) = Len(plan) /\ \A i \in DOMAIN plan : own[i] = stepOf(i)
  <2> HIDE DEF Good
  <2>1. own \in [1..Len(plan) -> Good]
    BY <1>5, <1>6
  <2> QED BY <1>5, <2>1
<1> HIDE DEF own, Good
<1>10. all \in Seq(Good)
  BY <1>8, <1>9
<1>11. MaxSteps \in Nat \ {0} /\ Len(all) \in Nat
  <2>1. Len(all) \in Nat
    <3> HIDE DEF all
    <3> QED BY <1>10
  <2> QED BY <2>1 DEF RuntimeAssumption
<1>12. ASSUME Has(plan, "download") PROVE all = own /\ last = Len(plan) /\ Bound(plan, u) = own
  <2>1. all = own
    BY <1>12
  <2> HIDE DEF all
  <2>2. last = Len(plan)
    <3>1. Len(all) = Len(plan)
      BY <1>9, <2>1
    <3> HIDE DEF all
    <3>2. last = IF Len(plan) < MaxSteps THEN Len(plan) ELSE MaxSteps
      BY <3>1
    <3> HIDE DEF last
    <3>3. Len(plan) \in Nat /\ MaxSteps \in Nat /\ Len(plan) <= MaxSteps
      BY <1>5, <1>11
    <3> QED BY <3>2, <3>3
  <2> HIDE DEF last
  <2>3. SubSeq(own, 1, Len(own)) = own
    BY <1>9
  <2> QED BY <1>1, <1>9, <2>1, <2>2, <2>3
<1>13. ASSUME bound # <<>>, ~Has(plan, "download")
       PROVE  all[1] = fetch /\ 0 < Len(all)
  <2>1. all = <<fetch>> \o own
    BY <1>13
  <2> HIDE DEF all
  <2> QED BY <1>8, <1>9, <2>1
<1> HIDE DEF all
<1>14. last \in Nat /\ last <= Len(all) /\ last <= MaxSteps /\ (0 < Len(all) => 0 < last)
  BY <1>11
<1> HIDE DEF last
<1> DEFINE steps == Bound(plan, u)
<1>15. /\ steps \in Seq(Good) /\ Len(steps) = last /\ DOMAIN steps = 1..last
       /\ \A i \in 1..last : steps[i] = all[i]
  BY <1>1, <1>10, <1>14
<1> HIDE DEF steps
<1>16. /\ steps \in Seq(Steps) /\ Len(steps) <= MaxSteps
       /\ \A i \in DOMAIN steps :
            /\ steps[i].files \in {<<>>, bound}
            /\ steps[i].slots.ordinal \in {0, u.number}
            /\ steps[i].slots.query.filename => steps[i].slots.query.given
  BY <1>14, <1>15 DEF Good
<1>17. ASSUME NEW d \in DOMAIN steps, bound # <<>>, First(steps, "download", d)
       PROVE  bound = SelectFiles(list, Says(u, steps[d].slots), Parent)
  <2>1. SUFFICES steps[d].slots = SelectorSlots(plan, u)
    BY <1>3, <1>17
  <2>2. CASE Has(plan, "download")
    <3> DEFINE c == CHOOSE i \in DOMAIN plan : First(plan, "download", i)
    <3>1. steps = own /\ last = Len(plan)
      BY <1>12, <2>2 DEF steps
    <3>2. /\ \A i \in DOMAIN plan :
               steps[i].kind = plan[i].kind /\ steps[i].slots = SlotsOf(plan[i], u)
          /\ d \in DOMAIN plan
      BY <1>5, <1>7, <1>9, <1>15, <1>17, <3>1
    <3>3. First(plan, "download", d)
      <4>1. \A k \in 1..(d - 1) : k \in DOMAIN plan
        BY <1>5, <3>2
      <4> QED BY <1>17, <3>2, <4>1 DEF First
    <3>4. c \in DOMAIN plan /\ First(plan, "download", c)
      BY <3>2, <3>3
    <3>5. SelectorSlots(plan, u) = SlotsOf(plan[c], u)
      BY <2>2 DEF SelectorSlots
    <3> HIDE DEF c
    <3>6. c = d
      <4>1. c \in Nat /\ d \in Nat /\ 1 <= c /\ 1 <= d
        BY <1>5, <3>2, <3>4
      <4>2. ~(c < d)
        BY <3>3, <3>4, <4>1 DEF First
      <4>3. ~(d < c)
        BY <3>3, <3>4, <4>1 DEF First
      <4> QED BY <4>1, <4>2, <4>3
    <3> QED BY <3>2, <3>5, <3>6
  <2>3. CASE ~Has(plan, "download")
    <3>1. 1 \in 1..last /\ steps[1] = fetch
      BY <1>13, <1>14, <1>15, <1>17, <2>3
    <3>2. d = 1
      <4>1. d \in Nat /\ 1 <= d
        BY <1>14, <1>15
      <4>2. ~(1 < d)
        BY <1>8, <1>17, <3>1, <4>1 DEF First
      <4> QED BY <4>1, <4>2
    <3> QED BY <1>8, <3>1, <3>2
  <2> QED BY <2>2, <2>3
<1> QED BY <1>16, <1>17 DEF steps, bound

-----------------------------------------------------------------------------
(* Requests.                                                               *)

LEMMA IdleIsOK ==
    ASSUME RuntimeAssumption, NEW n \in Nat, NEW a \in Actors
    PROVE  JobOK(n, a, Idle)
<1>1. Idle \in Jobs(n)
  BY DEF Idle, Jobs, Places, Actors
<1>2. WellPlaced(Idle)
  <2>1. MaxSteps \in Nat
    BY DEF RuntimeAssumption
  <2> QED BY <2>1 DEF WellPlaced, Idle
<1>3. WellNamed(Idle) /\ NewerLater(Idle.refs) /\ WellSupplied(Idle) /\ WellBound(Idle)
  BY DEF WellNamed, NewerLater, WellSupplied, WellBound, Idle
<1>4. Idle.logged = "none"
  BY DEF Idle
<1> QED BY <1>1, <1>2, <1>3, <1>4 DEF JobOK

\* More downloads leave every request as it is.
LEMMA JobsGrow ==
    ASSUME NEW n \in Nat, NEW m \in Nat, n <= m, NEW a, NEW j, JobOK(n, a, j)
    PROVE  JobOK(m, a, j)
<1>1. RefsUpTo(n) \subseteq RefsUpTo(m)
  BY DEF RefsUpTo
<1>2. \A s \in Seq(RefsUpTo(n)) : s \in Seq(RefsUpTo(m))
  BY <1>1
<1>3. j \in Jobs(n) => j \in Jobs(m)
  BY <1>2 DEF Jobs
<1> QED BY <1>3 DEF JobOK

LEMMA RuntimeInitHolds == RuntimeAssumption /\ RuntimeInit => RuntimeIInv
<1> SUFFICES ASSUME RuntimeAssumption, RuntimeInit PROVE RuntimeIInv
  OBVIOUS
<1> USE DEF RuntimeInit
<1>1. ContextOK
  <2>1. MaxRefs \in Nat /\ MaxRequests \in [Actors -> Nat] /\ "ATTACHMENT" \in DOMAIN Lists
    BY DEF RuntimeAssumption
  <2> QED BY <2>1 DEF ContextOK
<1>2. ASSUME NEW a \in Actors PROVE JobOK(downloads, a, job[a]) /\ Undisturbed(a)
  <2>1. job[a] = Idle /\ downloads = 0
    OBVIOUS
  <2>2. job[a].pc = "idle"
    BY <2>1 DEF Idle
  <2> QED BY <2>1, <2>2, IdleIsOK DEF Undisturbed
<1> QED BY <1>1, <1>2 DEF RuntimeIInv

\* A step of a request under way, which leaves the other one alone.
LEMMA StepKeeps ==
    ASSUME RuntimeIInv, NEW a \in Actors, job[a].pc # "idle", NEW j,
           job' = [job EXCEPT ![a] = j], ContextOK', current' = current,
           downloads' >= downloads, JobOK(downloads', a, j),
           j.alone /\ j.pc # "idle" =>
             job[a].alone /\ (j.pc \in {"planning", "retrying"} => j.saw = shown')
    PROVE  RuntimeIInv'
<1>1. DOMAIN job' = Actors /\ job'[a] = j /\ \A b \in Actors : b # a => job'[b] = job[b]
  BY DEF RuntimeIInv
<1>2. downloads \in Nat /\ downloads' \in Nat
  BY DEF RuntimeIInv, ContextOK
<1>3. ASSUME NEW b \in Actors PROVE JobOK(downloads', b, job'[b])
  <2>1. CASE b = a
    BY <1>1, <2>1
  <2>2. CASE b # a
    <3>1. JobOK(downloads, b, job[b])
      BY DEF RuntimeIInv
    <3>2. JobOK(downloads', b, job[b])
      BY <1>2, <3>1, JobsGrow
    <3> QED BY <1>1, <2>2, <3>2
  <2> QED BY <2>1, <2>2
<1>4. ASSUME NEW b \in Actors PROVE Undisturbed(b)'
  <2>1. SUFFICES ASSUME job'[b].alone, job'[b].pc # "idle"
                 PROVE  /\ current' = b
                        /\ \A c \in Actors : c # b => job'[c].pc = "idle"
                        /\ job'[b].pc \in {"planning", "retrying"} => job'[b].saw = shown'
    BY DEF Undisturbed
  <2>2. CASE b = a
    <3>1. job[a].alone /\ (j.pc \in {"planning", "retrying"} => j.saw = shown')
      BY <1>1, <2>1, <2>2
    <3>2. current = a /\ \A c \in Actors : c # a => job[c].pc = "idle"
      BY <3>1 DEF RuntimeIInv, Undisturbed
    <3> QED BY <1>1, <2>2, <3>1, <3>2
  <2>3. CASE b # a
    <3>1. job[b].alone /\ job[b].pc # "idle"
      BY <1>1, <2>1, <2>3
    <3>2. job[a].pc = "idle"
      BY <2>3, <3>1 DEF RuntimeIInv, Undisturbed
    <3> QED BY <3>2
  <2> QED BY <2>2, <2>3
<1>5. \A b \in Actors : JobOK(downloads, b, job[b])'
  BY <1>3
<1> QED BY <1>1, <1>4, <1>5 DEF RuntimeIInv

\* The same where only the request changes.
LEMMA OwnStepKeeps ==
    ASSUME RuntimeIInv, NEW a \in Actors, job[a].pc # "idle", NEW j,
           job' = [job EXCEPT ![a] = j], UNCHANGED <<context, current, asked, downloads>>,
           JobOK(downloads, a, j),
           j.alone /\ j.pc # "idle" =>
             job[a].alone /\ (j.pc \in {"planning", "retrying"} => j.saw = shown)
    PROVE  RuntimeIInv'
<1>1. UNCHANGED <<history, snap, shown, current, asked, downloads>>
  BY DEF context
<1>2. ContextOK'
  BY <1>1 DEF RuntimeIInv, ContextOK
<1>3. downloads' = downloads /\ current' = current /\ shown' = shown /\ downloads \in Nat
  BY <1>1 DEF RuntimeIInv, ContextOK
<1>4. downloads' >= downloads /\ JobOK(downloads', a, j)
  BY <1>3
<1> QED BY <1>2, <1>3, <1>4, StepKeeps

LEMMA OverKeeps ==
    ASSUME RuntimeAssumption, RuntimeIInv, NEW a \in Actors, job[a].pc # "idle", Over(a),
           UNCHANGED <<context, current, asked, downloads>>
    PROVE  RuntimeIInv'
<1>1. downloads \in Nat
  BY DEF RuntimeIInv, ContextOK
<1>2. JobOK(downloads, a, Idle) /\ Idle.pc = "idle"
  BY <1>1, IdleIsOK DEF Idle
<1> QED BY <1>2, OwnStepKeeps DEF Over

-----------------------------------------------------------------------------
(* A request and its plan.                                                 *)

LEMMA BeginKeeps ==
    ASSUME RuntimeAssumption, RuntimeIInv, NEW a \in Actors,
           NEW u \in Utterances \cup {NoText}, Begin(a, u)
    PROVE  RuntimeIInv'
<1>1. /\ job[a].pc = "idle" /\ asked[a] < MaxRequests[a]
      /\ asked' = [asked EXCEPT ![a] = @ + 1] /\ current' = a
      /\ UNCHANGED <<history, snap, shown, downloads>>
  BY DEF Begin, context
<1> DEFINE quiet == \A c \in Actors : job[c].pc = "idle"
           new == [Idle EXCEPT !.pc = "planning", !.text = u, !.saw = shown, !.alone = quiet]
<1>2. DOMAIN job = Actors /\ ContextOK /\ downloads \in Nat
  BY DEF RuntimeIInv, ContextOK
<1>3. /\ DOMAIN job' = Actors /\ job'[a] = new
      /\ \A b \in Actors : b # a => job'[b] = [job[b] EXCEPT !.alone = FALSE]
  BY Zenon DEF Begin
<1>4. ContextOK'
  <2>1. MaxRequests \in [Actors -> Nat]
    BY DEF RuntimeAssumption
  <2>2. asked \in [Actors -> Nat] /\ \A b \in Actors : asked[b] <= MaxRequests[b]
    BY <1>2 DEF ContextOK
  <2>3. asked' \in [Actors -> Nat] /\ \A b \in Actors : asked'[b] <= MaxRequests[b]
    <3>1. asked[a] \in Nat /\ MaxRequests[a] \in Nat
      BY <2>1, <2>2
    <3>2. asked[a] + 1 \in Nat /\ asked[a] + 1 <= MaxRequests[a]
      BY <1>1, <3>1
    <3> QED BY <1>1, <2>2, <3>2
  <2> QED BY <1>1, <1>2, <2>3 DEF ContextOK
<1>5. shown \in {<<>>} \cup Lists["ATTACHMENT"]
  <2>1. "ATTACHMENT" \in DOMAIN Lists
    BY DEF RuntimeAssumption
  <2> QED BY <1>2, <2>1 DEF ContextOK
<1>6. quiet \in BOOLEAN
  OBVIOUS
<1> HIDE DEF quiet
<1>7. /\ new.pc = "planning" /\ new.alone = quiet /\ new.logged = "none" /\ new.saw = shown
      /\ new.steps = <<>> /\ new.refs = <<>> /\ new.at = 1 /\ new.lists = <<>>
  BY DEF Idle
<1>8. JobOK(downloads, a, new)
  <2>1. Idle \in Jobs(downloads)
    BY <1>2, IdleIsOK DEF JobOK
  <2>2. new \in Jobs(downloads)
    BY <1>5, <1>6, <2>1 DEF Jobs, Places
  <2> HIDE DEF new
  <2>3. MaxSteps \in Nat
    BY DEF RuntimeAssumption
  <2>4. WellPlaced(new)
    BY <1>7, <2>3 DEF WellPlaced
  <2>5. WellNamed(new) /\ NewerLater(new.refs) /\ WellSupplied(new) /\ WellBound(new)
    BY <1>7 DEF WellNamed, NamePassedOn, NewerLater, WellSupplied, WellBound
  <2> QED BY <1>7, <2>2, <2>4, <2>5 DEF JobOK
<1> HIDE DEF new
<1>9. ASSUME NEW b \in Actors, b # a
      PROVE  JobOK(downloads, b, job'[b]) /\ job'[b].alone = FALSE /\ job'[b].pc = job[b].pc
  <2> DEFINE j == job[b]
             k == [j EXCEPT !.alone = FALSE]
  <2>1. JobOK(downloads, b, j) /\ job'[b] = k
    BY <1>3, <1>9 DEF RuntimeIInv
  <2> HIDE DEF j
  <2>2. k \in Jobs(downloads)
    BY <2>1 DEF JobOK, Jobs
  <2>3. DOMAIN j = DOMAIN Idle
    BY <2>1 DEF JobOK, Jobs, Idle
  <2>4. /\ k.alone = FALSE /\ k.pc = j.pc /\ k.steps = j.steps /\ k.at = j.at /\ k.refs = j.refs
        /\ k.lists = j.lists /\ k.named = j.named
        /\ k.input = j.input /\ k.reuse = j.reuse
    BY <2>3 DEF Idle
  <2> HIDE DEF k
  <2>5. WellPlaced(k) /\ WellNamed(k) /\ NewerLater(k.refs) /\ WellSupplied(k)
    BY <2>1, <2>4 DEF JobOK, WellPlaced, WellNamed, NamePassedOn, WellSupplied
  <2>6. WellBound(k)
    BY <2>4 DEF WellBound
  <2> QED BY <2>1, <2>2, <2>4, <2>5, <2>6 DEF JobOK, j
<1>10. \A b \in Actors : JobOK(downloads, b, job[b])'
  BY <1>1, <1>3, <1>8, <1>9
<1>11. ASSUME NEW b \in Actors PROVE Undisturbed(b)'
  <2>1. CASE b = a
    <3>1. quiet => \A c \in Actors : c # a => job'[c].pc = "idle"
      BY <1>9 DEF quiet
    <3> QED BY <1>1, <1>3, <1>7, <2>1, <3>1 DEF Undisturbed
  <2>2. CASE b # a
    BY <1>9, <2>2 DEF Undisturbed
  <2> QED BY <2>1, <2>2
<1> QED BY <1>3, <1>4, <1>10, <1>11 DEF RuntimeIInv

LEMMA PlanFailsKeeps ==
    ASSUME RuntimeAssumption, RuntimeIInv, NEW a \in Actors, PlanFails(a)
    PROVE  RuntimeIInv'
<1> DEFINE j == job[a]
           k == [j EXCEPT !.pc = "retrying"]
<1>1. /\ j.pc \in {"planning", "retrying"} /\ j.pc # "idle"
      /\ UNCHANGED <<context, current, asked, downloads>>
      /\ job' = [job EXCEPT ![a] = k] \/ Over(a)
  BY DEF PlanFails
<1>2. JobOK(downloads, a, j) /\ Undisturbed(a)
  BY DEF RuntimeIInv
<1>3. CASE Over(a)
  BY <1>1, <1>3, OverKeeps
<1>4. CASE job' = [job EXCEPT ![a] = k]
  <2> HIDE DEF j
  <2>1. k \in Jobs(downloads)
    BY <1>2 DEF JobOK, Jobs, Places
  <2>2. DOMAIN j = DOMAIN Idle
    BY <1>2 DEF JobOK, Jobs, Idle
  <2>3. /\ k.alone = j.alone /\ k.pc = "retrying" /\ k.steps = j.steps /\ k.at = j.at
        /\ k.refs = j.refs /\ k.lists = j.lists /\ k.named = j.named
        /\ k.logged = j.logged /\ k.saw = j.saw
    BY <2>2 DEF Idle
  <2> HIDE DEF k
  <2>4. WellPlaced(k) /\ WellNamed(k) /\ NewerLater(k.refs) /\ WellSupplied(k) /\ WellBound(k)
    BY <1>1, <1>2, <2>3 DEF JobOK, WellPlaced, WellNamed, NamePassedOn, WellSupplied, WellBound
  <2>5. JobOK(downloads, a, k)
    BY <1>2, <2>1, <2>3, <2>4 DEF JobOK
  <2>6. k.alone => job[a].alone /\ k.saw = shown
    BY <1>1, <1>2, <2>3 DEF Undisturbed, j
  <2> QED BY <1>1, <1>4, <2>5, <2>6, OwnStepKeeps DEF j
<1> QED BY <1>1, <1>3, <1>4

LEMMA PlannedKeeps ==
    ASSUME RuntimeAssumption, RuntimeIInv, NEW a \in Actors, NEW plan \in Plans[a], Planned(a, plan)
    PROVE  RuntimeIInv'
<1> DEFINE j == job[a]
           u == j.text
           list == snap["ATTACHMENT"]
           meant == PlanFiles(plan, u)
           quiet == [i \in DOMAIN plan |-> Step(plan[i].kind, SlotsOf(plan[i], u), {}, <<>>)]
           steps == IF a = "user" THEN Bound(plan, u) ELSE quiet
           reuse == a = "user" /\ Reuse(u)
           named == IF u.file.given /\ u.number = 0 THEN u.file.matches ELSE Attachments
           k == [j EXCEPT !.pc = "planned", !.steps = steps, !.reuse = reuse, !.named = named]
<1>1. /\ j.pc \in {"planning", "retrying"} /\ j.pc # "idle"
      /\ UNCHANGED <<context, current, asked, downloads>>
      /\ job' = [job EXCEPT ![a] = k]
  BY Zenon DEF Planned
<1>2. JobOK(downloads, a, j) /\ Undisturbed(a) /\ ContextOK
  BY DEF RuntimeIInv
<1>3. u \in Utterances \cup {NoText}
  BY <1>2 DEF JobOK, Jobs
<1>4. u \in Texts /\ u.number \in Nat /\ u.file \in Wordings
  <2>1. u \in Texts
    BY <1>3, TextIs
  <2> QED BY <2>1 DEF Texts
<1>5. plan \in Seq(ManagerTasks) /\ Len(plan) <= MaxSteps /\ MaxSteps \in Nat
  BY DEF RuntimeAssumption
<1> HIDE DEF u
<1>6. named \in SUBSET (Items \cup Attachments) /\ (u.number # 0 => named = Attachments)
  BY <1>4 DEF Wordings
<1>7. /\ meant \in Seq(Attachments \cap Items)
      /\ u.file.given /\ u.number = 0 => ToSet(meant) \subseteq u.file.matches
  BY <1>2, <1>3, PlanFilesIs
<1> HIDE DEF meant
<1>8. /\ steps \in Seq(Steps) /\ Len(steps) <= MaxSteps
      /\ \A i \in DOMAIN steps :
           /\ steps[i].files \in {<<>>, meant}
           /\ steps[i].slots.ordinal \in {0, u.number}
           /\ steps[i].slots.query.filename => steps[i].slots.query.given
      /\ \A i, d \in DOMAIN steps :
           steps[i].files # <<>> /\ First(steps, "download", d) =>
              steps[i].files = SelectFiles(list, Says(u, steps[d].slots), Parent)
  <2>1. CASE a = "user"
    <3>1. steps = Bound(plan, u)
      BY <2>1
    <3> HIDE DEF steps
    <3>2. /\ steps \in Seq(Steps) /\ Len(steps) <= MaxSteps
          /\ \A i \in DOMAIN steps :
               /\ steps[i].files \in {<<>>, meant}
               /\ steps[i].slots.ordinal \in {0, u.number}
               /\ steps[i].slots.query.filename => steps[i].slots.query.given
          /\ \A d \in DOMAIN steps :
               meant # <<>> /\ First(steps, "download", d) =>
                  meant = SelectFiles(list, Says(u, steps[d].slots), Parent)
      BY <1>2, <1>3, <1>5, <3>1, BoundIs DEF meant
    <3> QED BY <3>2
  <2>2. CASE a # "user"
    <3>1. ASSUME NEW i \in DOMAIN plan
          PROVE  /\ quiet[i] \in Steps /\ quiet[i].files = <<>>
                 /\ quiet[i].slots.ordinal \in {0, u.number}
                 /\ quiet[i].slots.query.filename => quiet[i].slots.query.given
      <4> DEFINE slots == SlotsOf(plan[i], u)
      <4>1. /\ slots \in Slots /\ slots.ordinal \in {0, u.number}
            /\ slots.query.filename => slots.query.given
        BY <1>3, SlotsIs
      <4>2. plan[i].kind \in Kinds
        <5>1. plan[i] \in ManagerTasks
          BY <1>5
        <5> HIDE DEF slots, quiet
        <5> QED BY <5>1 DEF ManagerTasks
      <4>3. quiet[i] = Step(plan[i].kind, slots, {}, <<>>)
        OBVIOUS
      <4> HIDE DEF slots, quiet
      <4> QED BY <4>1, <4>2, <4>3 DEF Step, Steps
    <3>2. DOMAIN quiet = DOMAIN plan /\ DOMAIN plan = 1..Len(plan) /\ Len(plan) \in Nat
      BY <1>5
    <3>3. quiet \in [1..Len(plan) -> Steps]
      <4>1. quiet = [i \in DOMAIN plan |-> quiet[i]]
        OBVIOUS
      <4> HIDE DEF quiet
      <4> QED BY <3>1, <3>2, <4>1
    <3> HIDE DEF quiet
    <3>4. quiet \in Seq(Steps) /\ Len(quiet) = Len(plan)
      BY <3>2, <3>3
    <3>5. steps = quiet
      BY <2>2
    <3> QED BY <1>5, <3>1, <3>2, <3>4, <3>5
  <2> QED BY <2>1, <2>2
<1>9. ToSet(meant) \subseteq named \cap Items /\ ToSet(<<>>) = {}
  <2>1. \A x \in ToSet(meant) : x \in Attachments /\ x \in Items
    BY <1>7 DEF ToSet
  <2>2. ToSet(<<>>) = {}
    BY DEF ToSet
  <2> QED BY <1>7, <2>1, <2>2
<1>10. reuse \in BOOLEAN
  BY DEF Reuse
<1> HIDE DEF steps, named, reuse
<1> HIDE DEF j
<1>11. k \in Jobs(downloads)
  <2>1. j \in Jobs(downloads)
    BY <1>2 DEF JobOK
  <2> QED BY <1>6, <1>8, <1>10, <2>1 DEF Jobs, Places
<1>12. DOMAIN j = DOMAIN Idle
  BY <1>2 DEF JobOK, Jobs, Idle
<1>13. /\ k.alone = j.alone /\ k.pc = "planned" /\ k.steps = steps /\ k.at = j.at
       /\ k.refs = j.refs /\ k.lists = j.lists /\ k.named = named
       /\ k.logged = j.logged /\ k.saw = j.saw /\ k.text = j.text
  BY <1>12 DEF Idle
<1> HIDE DEF k
<1>14. WellPlaced(k)
  <2>1. j.at = 1 /\ j.refs = <<>> /\ j.lists = <<>>
    BY <1>1, <1>2 DEF JobOK, WellPlaced
  <2>2. Len(steps) \in Nat
    BY <1>8
  <2> QED BY <1>8, <1>13, <2>1, <2>2 DEF WellPlaced
<1>15. WellNamed(k)
  <2>1. j.refs = <<>>
    BY <1>1, <1>2 DEF JobOK, WellPlaced
  <2>2. \A i \in DOMAIN steps :
          /\ ToSet(steps[i].files) \subseteq named \cap Items
          /\ steps[i].slots.ordinal # 0 => named = Attachments
          /\ steps[i].slots.query.filename => steps[i].slots.query.given
    BY <1>6, <1>8, <1>9
  <2> QED BY <1>13, <2>1, <2>2 DEF WellNamed
<1>16. NewerLater(k.refs) /\ WellSupplied(k)
  BY <1>2, <1>13 DEF JobOK, WellSupplied
<1>17. WellBound(k)
  <2>1. k.alone => k.saw = list
    BY <1>1, <1>2, <1>13 DEF Undisturbed, ContextOK, j
  <2>2. k.text = u
    BY <1>13 DEF u
  <2> QED BY <1>8, <1>13, <2>1, <2>2 DEF WellBound
<1>18. JobOK(downloads, a, k)
  BY <1>2, <1>11, <1>13, <1>14, <1>15, <1>16, <1>17 DEF JobOK
<1> QED BY <1>1, <1>13, <1>18, OwnStepKeeps DEF j

LEMMA AdmitKeeps ==
    ASSUME RuntimeAssumption, RuntimeIInv, NEW a \in Actors, Admit(a)
    PROVE  RuntimeIInv'
<1> DEFINE j == job[a]
           k == [j EXCEPT !.pc = "next", !.text = NoText, !.saw = <<>>]
<1>1. /\ j.pc = "planned" /\ j.pc # "idle"
      /\ UNCHANGED <<context, current, asked, downloads>>
      /\ job' = [job EXCEPT ![a] = k] \/ Over(a)
  BY DEF Admit
<1>2. JobOK(downloads, a, j)
  BY DEF RuntimeIInv
<1>3. CASE Over(a)
  BY <1>1, <1>3, OverKeeps
<1>4. CASE job' = [job EXCEPT ![a] = k]
  <2> HIDE DEF j
  <2>1. k \in Jobs(downloads)
    BY <1>2 DEF JobOK, Jobs, Places
  <2>2. DOMAIN j = DOMAIN Idle
    BY <1>2 DEF JobOK, Jobs, Idle
  <2>3. /\ k.alone = j.alone /\ k.pc = "next" /\ k.steps = j.steps /\ k.at = j.at
        /\ k.refs = j.refs /\ k.lists = j.lists /\ k.named = j.named
        /\ k.logged = j.logged
    BY <2>2 DEF Idle
  <2> HIDE DEF k
  <2>4. WellPlaced(k) /\ WellNamed(k) /\ NewerLater(k.refs) /\ WellSupplied(k) /\ WellBound(k)
    BY <1>2, <2>3 DEF JobOK, WellPlaced, WellNamed, NamePassedOn, WellSupplied, WellBound
  <2>5. JobOK(downloads, a, k)
    BY <1>2, <2>1, <2>3, <2>4 DEF JobOK
  <2> QED BY <1>1, <1>4, <2>3, <2>5, OwnStepKeeps DEF j
<1> QED BY <1>1, <1>3, <1>4

-----------------------------------------------------------------------------
(* The steps.                                                              *)

LEMMA DelegateKeeps ==
    ASSUME RuntimeAssumption, RuntimeIInv, NEW a \in Actors, Delegate(a)
    PROVE  RuntimeIInv'
<1> DEFINE j == job[a]
           input == IF j.steps[j.at].kind = "document" THEN DocumentRefs(j) ELSE <<>>
           k == [j EXCEPT !.pc = "running", !.input = input]
<1>1. /\ j.pc = "next" /\ j.pc # "idle" /\ j.at <= Len(j.steps)
      /\ UNCHANGED <<context, current, asked, downloads>>
      /\ \/ Over(a)
         \/ /\ j.steps[j.at].kind = "document" => input # <<>>
            /\ job' = [job EXCEPT ![a] = k]
  BY Zenon DEF Delegate
<1>2. JobOK(downloads, a, j) /\ ContextOK
  BY DEF RuntimeIInv
<1>3. CASE Over(a)
  BY <1>1, <1>3, OverKeeps
<1>4. CASE /\ j.steps[j.at].kind = "document" => input # <<>>
           /\ job' = [job EXCEPT ![a] = k]
  <2> HIDE DEF j
  <2> DEFINE wanted == j.steps[j.at].files
  <2>1. /\ j \in Jobs(downloads) /\ downloads \in Nat /\ history \in Seq(RefsUpTo(downloads))
        /\ j.refs \in Seq(RefsUpTo(downloads)) /\ NewerLater(j.refs) /\ j.reuse \in BOOLEAN
        /\ j.steps \in Seq(Steps)
    BY <1>2 DEF JobOK, Jobs, ContextOK
  <2>2. wanted \in Seq(Items)
    <3>1. j.at \in DOMAIN j.steps
      BY <1>1, <1>2, <2>1 DEF JobOK, WellPlaced
    <3>2. wanted \in Seq(Attachments)
      <4>1. j.steps[j.at] \in Steps
        BY <2>1, <3>1
      <4> QED BY <4>1 DEF Steps
    <3>3. ToSet(wanted) \subseteq Items
      BY <1>2, <3>1 DEF JobOK, WellNamed, NamePassedOn
    <3> HIDE DEF wanted
    <3>4. \A i \in DOMAIN wanted : wanted[i] \in Items
      BY <3>3 DEF ToSet
    <3> QED BY <3>2, <3>4
  <2>3. ASSUME j.steps[j.at].kind = "document"
        PROVE  input \in Seq(RefsUpTo(downloads)) /\ Supplied(wanted, j.reuse, j.refs, input)
    <3>1. input = DocumentRefs(j) /\ DocumentRefs(j) # <<>>
      BY <1>4, <2>3
    <3> HIDE DEF input, wanted
    <3>2. j.steps[j.at].files = wanted
      BY DEF wanted
    <3> QED BY <2>1, <2>2, <3>1, <3>2, DocumentRefsIs
  <2>4. input \in Seq(RefsUpTo(downloads))
    <3>1. j.steps[j.at].kind # "document" => input = <<>>
      OBVIOUS
    <3>2. <<>> \in Seq(RefsUpTo(downloads))
      OBVIOUS
    <3> HIDE DEF input
    <3> QED BY <2>3, <3>1, <3>2
  <2> HIDE DEF input
  <2>5. k \in Jobs(downloads)
    BY <2>1, <2>4 DEF Jobs, Places
  <2>6. DOMAIN j = DOMAIN Idle
    BY <2>1 DEF Jobs, Idle
  <2>7. /\ k.alone = j.alone /\ k.pc = "running" /\ k.steps = j.steps /\ k.at = j.at
        /\ k.refs = j.refs /\ k.lists = j.lists /\ k.named = j.named
        /\ k.logged = j.logged /\ k.input = input /\ k.reuse = j.reuse
    BY <2>6 DEF Idle
  <2> HIDE DEF k
  <2>8. WellPlaced(k) /\ WellNamed(k) /\ NewerLater(k.refs) /\ WellBound(k)
    BY <1>1, <1>2, <2>7 DEF JobOK, WellPlaced, WellNamed, NamePassedOn, WellBound
  <2>9. WellSupplied(k)
    BY <2>3, <2>7 DEF WellSupplied
  <2>10. JobOK(downloads, a, k)
    BY <1>2, <2>5, <2>7, <2>8, <2>9 DEF JobOK
  <2> QED BY <1>1, <1>4, <2>7, <2>10, OwnStepKeeps DEF j
<1> QED BY <1>1, <1>3, <1>4

LEMMA NewerAppended ==
    ASSUME NEW n \in Nat, NEW m \in Nat, NEW r \in Seq(RefsUpTo(n)), NEW s \in Seq(RefsUpTo(m)),
           NewerLater(r), NewerLater(s),
           \A i \in DOMAIN s : IsDownload(s[i]) => s[i][1] > n
    PROVE  NewerLater(r \o s)
<1> DEFINE all == r \o s
<1>1. /\ DOMAIN r = 1..Len(r) /\ DOMAIN s = 1..Len(s) /\ DOMAIN all = 1..(Len(r) + Len(s))
      /\ Len(r) \in Nat /\ Len(s) \in Nat
      /\ \A i \in 1..Len(r) : all[i] = r[i]
      /\ \A i \in 1..Len(s) : all[Len(r) + i] = s[i]
  OBVIOUS
<1> HIDE DEF all
<1>2. SUFFICES ASSUME NEW i \in DOMAIN all, NEW k \in DOMAIN all, i < k,
                      IsDownload(all[i]), IsDownload(all[k])
               PROVE  all[i][1] <= all[k][1]
  BY DEF NewerLater, all
<1>3. ASSUME NEW x \in DOMAIN all, x \notin 1..Len(r)
      PROVE  x - Len(r) \in DOMAIN s /\ all[x] = s[x - Len(r)]
  <2>1. x - Len(r) \in 1..Len(s) /\ Len(r) + (x - Len(r)) = x
    BY <1>1, <1>3
  <2> QED BY <1>1, <2>1
<1>4. CASE k \in 1..Len(r)
  <2>1. i \in 1..Len(r)
    BY <1>1, <1>2, <1>4
  <2> QED BY <1>1, <1>2, <1>4, <2>1 DEF NewerLater
<1>5. CASE i \in 1..Len(r) /\ k \notin 1..Len(r)
  <2>1. r[i] \in RefsUpTo(n) /\ s[k - Len(r)] \in RefsUpTo(m)
    BY <1>1, <1>3, <1>5
  <2>2. all[i][1] \in 0..n /\ all[k][1] \in 0..m
    BY <1>1, <1>3, <1>5, <2>1, RefIs
  <2>3. all[k][1] > n
    BY <1>2, <1>3, <1>5
  <2> QED BY <2>2, <2>3
<1>6. CASE i \notin 1..Len(r) /\ k \notin 1..Len(r)
  <2>1. i - Len(r) \in DOMAIN s /\ k - Len(r) \in DOMAIN s /\ i - Len(r) < k - Len(r)
    BY <1>1, <1>2, <1>3, <1>6
  <2> QED BY <1>2, <1>3, <1>6, <2>1 DEF NewerLater
<1> QED BY <1>4, <1>5, <1>6

\* What a step returned is added to what the plan has.
LEMMA ReturnKeeps ==
    ASSUME RuntimeAssumption, RuntimeIInv, NEW a \in Actors, job[a].pc = "running",
           NEW outcome \in {"COMPLETED", "FAILED"}, NEW refs, NEW lists,
           Answer(a, outcome, refs, lists),
           downloads' \in Nat, downloads' >= downloads,
           refs \in Seq(RefsUpTo(downloads')),
           lists \in Seq([kind : DOMAIN Lists, list : Seq(Items)]),
           NewerLater(refs),
           \A k \in DOMAIN refs : IsDownload(refs[k]) =>
              /\ refs[k][1] > downloads
              /\ NamePassedOn(job[a]) => refs[k][2] \in job[a].named
    PROVE  RuntimeIInv'
<1> DEFINE n == downloads'
           j == job[a]
           all == j.refs \o refs
           more == j.lists \o lists
           k == [j EXCEPT !.pc = "auditing", !.outcome = outcome, !.refs = all, !.lists = more]
<1>1. job' = [job EXCEPT ![a] = k] /\ UNCHANGED <<history, snap, shown, current, asked>>
  <2>1. job' = [job EXCEPT ![a] = k]
    BY Zenon DEF Answer
  <2>2. UNCHANGED <<context, current, asked>>
    BY Zenon DEF Answer
  <2> QED BY <2>1, <2>2 DEF context
<1>2. ContextOK /\ JobOK(downloads, a, j) /\ downloads \in Nat
  BY DEF RuntimeIInv, ContextOK
<1>3. JobOK(n, a, j)
  BY <1>2, JobsGrow
<1>4. ContextOK'
  <2>1. RefsUpTo(downloads) \subseteq RefsUpTo(n)
    BY <1>2 DEF RefsUpTo
  <2>2. history \in Seq(RefsUpTo(n))
    BY <1>2, <2>1 DEF ContextOK
  <2> QED BY <1>1, <1>2, <2>2 DEF ContextOK
<1>5. NewerLater(all)
  <2>1. j.refs \in Seq(RefsUpTo(downloads)) /\ NewerLater(j.refs)
    BY <1>2 DEF JobOK, Jobs
  <2> HIDE DEF j
  <2> QED BY <1>2, <2>1, NewerAppended
<1> HIDE DEF n
<1>6. /\ j \in Jobs(n) /\ refs \in Seq(RefsUpTo(n))
      /\ j.refs \in Seq(RefsUpTo(n)) /\ j.lists \in Seq([kind : DOMAIN Lists, list : Seq(Items)])
  BY <1>3 DEF JobOK, Jobs, n
<1>7. \A x \in DOMAIN all : \/ x \in DOMAIN j.refs /\ all[x] = j.refs[x]
                            \/ \E i \in DOMAIN refs : all[x] = refs[i]
  <2> HIDE DEF j
  <2>1. /\ DOMAIN j.refs = 1..Len(j.refs) /\ DOMAIN refs = 1..Len(refs)
        /\ DOMAIN all = 1..(Len(j.refs) + Len(refs)) /\ Len(j.refs) \in Nat /\ Len(refs) \in Nat
        /\ \A i \in 1..Len(j.refs) : all[i] = j.refs[i]
        /\ \A i \in 1..Len(refs) : all[Len(j.refs) + i] = refs[i]
    BY <1>6
  <2> HIDE DEF all
  <2>2. ASSUME NEW x \in DOMAIN all, x \notin DOMAIN j.refs PROVE \E i \in DOMAIN refs : all[x] = refs[i]
    <3>1. x - Len(j.refs) \in 1..Len(refs) /\ Len(j.refs) + (x - Len(j.refs)) = x
      BY <2>1, <2>2
    <3> QED BY <2>1, <3>1
  <2> QED BY <2>1, <2>2
<1>8. ASSUME NamePassedOn(j), NEW x \in DOMAIN all, IsDownload(all[x])
      PROVE  all[x][2] \in j.named
  <2> HIDE DEF all
  <2>1. CASE x \in DOMAIN j.refs /\ all[x] = j.refs[x]
    BY <1>2, <1>8, <2>1 DEF JobOK, WellNamed, NamePassedOn
  <2>2. CASE \E i \in DOMAIN refs : all[x] = refs[i]
    BY <1>8, <2>2
  <2> QED BY <1>7, <2>1, <2>2
<1> HIDE DEF j
<1>9. all \in Seq(RefsUpTo(n)) /\ more \in Seq([kind : DOMAIN Lists, list : Seq(Items)])
  BY <1>6
<1> HIDE DEF all, more
<1>10. k \in Jobs(n)
  BY <1>6, <1>9 DEF Jobs, Places
<1>11. DOMAIN j = DOMAIN Idle
  BY <1>6 DEF Jobs, Idle
<1>12. /\ k.alone = j.alone /\ k.pc = "auditing" /\ k.steps = j.steps /\ k.at = j.at
       /\ k.refs = all /\ k.named = j.named
       /\ k.logged = j.logged
  BY <1>11 DEF Idle
<1> HIDE DEF k
<1>13. j.pc = "running"
  BY DEF j
<1>14. WellPlaced(k) /\ WellSupplied(k) /\ WellBound(k)
  BY <1>3, <1>12, <1>13 DEF JobOK, WellPlaced, WellSupplied, WellBound
<1>15. WellNamed(k)
  BY <1>3, <1>8, <1>12 DEF JobOK, WellNamed, NamePassedOn
<1>16. JobOK(n, a, k)
  BY <1>3, <1>5, <1>10, <1>12, <1>14, <1>15 DEF JobOK
<1> QED BY <1>1, <1>4, <1>12, <1>13, <1>16, StepKeeps DEF n, j

\* The lists of the LMS, and the attachments among them.
LEMMA ListIs ==
    ASSUME RuntimeAssumption, NEW kind \in DOMAIN Shows, NEW item, NEW l \in ListsFor(kind, item)
    PROVE  /\ Shows[kind] \in DOMAIN Lists /\ l \in Seq(Items)
           /\ Shows[kind] = "ATTACHMENT" => l \in Seq(Attachments \cap Items)
           /\ <<[kind |-> Shows[kind], list |-> l]>> \in Seq([kind : DOMAIN Lists, list : Seq(Items)])
<1>1. Shows[kind] \in {"ANNOUNCEMENT", "ASSIGNMENT", "LECTURE", "ATTACHMENT"}
  BY DEF Shows
<1>2. Shows[kind] \in DOMAIN Lists /\ l \in Lists[Shows[kind]]
  BY <1>1 DEF RuntimeAssumption, ListsFor
<1>3. l \in Seq(Items) /\ (Shows[kind] = "ATTACHMENT" => l \in Seq(Attachments))
  BY <1>2 DEF RuntimeAssumption
<1>4. \A s : s \in Seq(Attachments) /\ s \in Seq(Items) => s \in Seq(Attachments \cap Items)
  OBVIOUS
<1> QED BY <1>2, <1>3, <1>4

LEMMA NamedIs ==
    ASSUME NEW n \in Nat, NEW l \in Seq(Items)
    PROVE  /\ Named(l) \in Seq(RefsUpTo(n)) /\ Len(Named(l)) = Len(l)
           /\ \A k \in DOMAIN Named(l) : ~IsDownload(Named(l)[k])
<1> DEFINE s == [i \in DOMAIN l |-> <<0, l[i]>>]
<1>1. \A i \in DOMAIN l : <<0, l[i]>> \in RefsUpTo(n)
  BY DEF RefsUpTo
<1>2. DOMAIN l = 1..Len(l) /\ Len(l) \in Nat
  OBVIOUS
<1>3. s \in Seq(RefsUpTo(n)) /\ Len(s) = Len(l) /\ \A k \in DOMAIN s : s[k][1] = 0
  BY <1>1, <1>2
<1> QED BY <1>3 DEF Named, IsDownload

LEMMA ReturnListKeeps ==
    ASSUME RuntimeAssumption, RuntimeIInv, NEW a \in Actors, ReturnList(a)
    PROVE  RuntimeIInv'
<1> DEFINE s == Current(a)
<1>1. job[a].pc = "running" /\ s.kind \in DOMAIN Shows /\ downloads' = downloads
  BY DEF ReturnList
<1>2. PICK l \in ListsFor(s.kind, s.item) :
         Answer(a, "COMPLETED", Named(l), <<[kind |-> Shows[s.kind], list |-> l]>>)
  BY DEF ReturnList
<1> HIDE DEF s
<1>3. downloads \in Nat
  BY DEF RuntimeIInv, ContextOK
<1>4. /\ l \in Seq(Items)
      /\ <<[kind |-> Shows[s.kind], list |-> l]>> \in Seq([kind : DOMAIN Lists, list : Seq(Items)])
  BY <1>1, ListIs
<1> DEFINE refs == Named(l)
           lists == <<[kind |-> Shows[s.kind], list |-> l]>>
<1>5. /\ refs \in Seq(RefsUpTo(downloads')) /\ \A k \in DOMAIN refs : ~IsDownload(refs[k])
  BY <1>1, <1>3, <1>4, NamedIs
<1>6. Answer(a, "COMPLETED", refs, lists) /\ lists \in Seq([kind : DOMAIN Lists, list : Seq(Items)])
  BY <1>2, <1>4
<1> HIDE DEF refs, lists
<1>7. NewerLater(refs)
  BY <1>5 DEF NewerLater
<1>8. downloads' \in Nat /\ downloads' >= downloads
  BY <1>1, <1>3
<1> QED BY <1>1, <1>5, <1>6, <1>7, <1>8, ReturnKeeps

\* The references of a batch: each download has a number of its own.
LEMMA FetchedIs ==
    ASSUME NEW n \in Nat, NEW l \in Seq(Items),
           NEW names \in Seq(RefsUpTo(0)), \A k \in DOMAIN names : ~IsDownload(names[k])
    PROVE  LET refs == names \o [i \in DOMAIN l |-> <<n + i, l[i]>>] IN
           /\ refs \in Seq(RefsUpTo(n + Len(l)))
           /\ NewerLater(refs)
           /\ \A k \in DOMAIN refs : IsDownload(refs[k]) => refs[k][1] > n /\ refs[k][2] \in ToSet(l)
<1> DEFINE m == n + Len(l)
           new == [i \in DOMAIN l |-> <<n + i, l[i]>>]
           refs == names \o new
<1>1. DOMAIN l = 1..Len(l) /\ Len(l) \in Nat /\ m \in Nat
  OBVIOUS
<1>2. \A i \in DOMAIN l : <<n + i, l[i]>> \in RefsUpTo(m)
  BY <1>1 DEF RefsUpTo
<1>3. /\ new \in Seq(RefsUpTo(m)) /\ DOMAIN new = DOMAIN l /\ Len(new) = Len(l)
      /\ \A i \in DOMAIN l : new[i][1] = n + i /\ new[i][2] = l[i]
  BY <1>1, <1>2
<1> HIDE DEF new
<1>4. NewerLater(new)
  BY <1>1, <1>3 DEF NewerLater
<1>5. 0 \in Nat /\ \A k \in DOMAIN names : ~IsDownload(names[k])
  OBVIOUS
<1>6. NewerLater(names)
  BY <1>5 DEF NewerLater
<1>7. \A i \in DOMAIN new : IsDownload(new[i]) => new[i][1] > 0
  BY DEF IsDownload
<1>8. NewerLater(refs)
  BY <1>1, <1>3, <1>4, <1>5, <1>6, <1>7, NewerAppended
<1>9. names \in Seq(RefsUpTo(m))
  <2>1. RefsUpTo(0) \subseteq RefsUpTo(m)
    BY <1>1 DEF RefsUpTo
  <2> QED BY <1>5, <2>1
<1>10. refs \in Seq(RefsUpTo(m))
  BY <1>3, <1>9
<1>11. ASSUME NEW k \in DOMAIN refs, IsDownload(refs[k])
       PROVE  refs[k][1] > n /\ refs[k][2] \in ToSet(l)
  <2>1. /\ DOMAIN names = 1..Len(names) /\ Len(names) \in Nat
        /\ DOMAIN refs = 1..(Len(names) + Len(l))
        /\ \A i \in 1..Len(names) : refs[i] = names[i]
        /\ \A i \in 1..Len(l) : refs[Len(names) + i] = new[i]
    <3>1. names \in Seq(RefsUpTo(m)) /\ new \in Seq(RefsUpTo(m)) /\ Len(new) = Len(l)
      BY <1>3, <1>9
    <3> HIDE DEF m
    <3>2. /\ DOMAIN names = 1..Len(names) /\ Len(names) \in Nat
          /\ DOMAIN (names \o new) = 1..(Len(names) + Len(new))
          /\ \A i \in 1..Len(names) : (names \o new)[i] = names[i]
          /\ \A i \in 1..Len(new) : (names \o new)[Len(names) + i] = new[i]
      BY <3>1, JoinIs
    <3> QED BY <3>1, <3>2
  <2> HIDE DEF refs
  <2>2. k \notin 1..Len(names)
    BY <1>5, <1>11, <2>1
  <2> DEFINE i == k - Len(names)
  <2>3. i \in 1..Len(l) /\ Len(names) + i = k
    BY <1>1, <1>11, <2>1, <2>2
  <2> HIDE DEF i
  <2>4. refs[k] = new[i] /\ i \in DOMAIN l
    BY <1>1, <2>1, <2>3
  <2>5. l[i] \in ToSet(l)
    BY <2>4 DEF ToSet
  <2> QED BY <1>3, <2>3, <2>4, <2>5
<1> QED BY <1>8, <1>10, <1>11 DEF new

LEMMA ReturnDownloadKeeps ==
    ASSUME RuntimeAssumption, RuntimeIInv, NEW a \in Actors, ReturnDownload(a)
    PROVE  RuntimeIInv'
<1> DEFINE s == Current(a)
           j == job[a]
           query == s.slots.query
           number == IF s.item = {} THEN s.slots.ordinal ELSE 0
<1>1. j.pc = "running" /\ s.kind = "download"
  BY DEF ReturnDownload
<1>2. JobOK(downloads, a, j) /\ downloads \in Nat
  BY DEF RuntimeIInv, ContextOK
<1>3. /\ j.at \in DOMAIN j.steps /\ s.files \in Seq(Attachments)
      /\ ToSet(s.files) \subseteq j.named \cap Items
  <2>1. j.at \in 1..(Len(j.steps) + 1) /\ j.at <= Len(j.steps) /\ j.steps \in Seq(Steps)
    BY <1>1, <1>2 DEF JobOK, WellPlaced, Jobs
  <2>2. j.at \in DOMAIN j.steps
    BY <2>1
  <2>3. s \in Steps
    BY <2>1, <2>2 DEF Current
  <2>4. s.files \in Seq(Attachments)
    BY <2>3 DEF Steps
  <2> QED BY <1>2, <2>2, <2>4 DEF JobOK, WellNamed, NamePassedOn, Current
<1>4. /\ s.slots.ordinal \in Nat /\ (s.slots.ordinal # 0 => j.named = Attachments)
      /\ query.filename => query.given
      /\ NamePassedOn(j) => query.filename /\ query.matches \cap Attachments \subseteq j.named
  <2>1. s.slots \in Slots
    <3>1. j.steps \in Seq(Steps) /\ j.steps[j.at] \in Steps
      BY <1>2, <1>3 DEF JobOK, Jobs
    <3> QED BY <3>1 DEF Steps, Current
  <2>2. s = j.steps[j.at]
    BY DEF Current
  <2>3. NamePassedOn(j) => query.filename /\ query.matches \cap Attachments \subseteq j.named
    BY <1>1, <1>3, <2>2 DEF NamePassedOn
  <2> QED BY <1>2, <1>3, <2>1, <2>2, <2>3 DEF JobOK, WellNamed, Slots
<1>5. PICK l, names, show :
         /\ downloads' = downloads + Len(l)
         /\ Answer(a, "COMPLETED", names \o [i \in DOMAIN l |-> <<downloads + i, l[i]>>], show)
         /\ names \in Seq(RefsUpTo(0)) /\ \A k \in DOMAIN names : ~IsDownload(names[k])
         /\ l \in Seq(Items) /\ show \in Seq([kind : DOMAIN Lists, list : Seq(Items)])
         /\ NamePassedOn(j) => ToSet(l) \subseteq j.named
  <2>1. CASE s.files # <<>>
    <3>1. /\ downloads' = downloads + Len(s.files)
          /\ Answer(a, "COMPLETED",
                    <<>> \o [i \in DOMAIN s.files |-> <<downloads + i, s.files[i]>>], <<>>)
      BY <2>1, Zenon DEF ReturnDownload
    <3> HIDE DEF s
    <3>2. s.files \in Seq(Items)
      <4>1. \A i \in DOMAIN s.files : s.files[i] \in Items
        BY <1>3 DEF ToSet
      <4> QED BY <1>3, <4>1
    <3>3. /\ <<>> \in Seq([kind : DOMAIN Lists, list : Seq(Items)]) /\ <<>> \in Seq(RefsUpTo(0))
          /\ \A k \in DOMAIN <<>> : ~IsDownload(<<>>[k])
      OBVIOUS
    <3> QED BY <1>3, <3>1, <3>2, <3>3, Zenon
  <2>2. CASE s.files = <<>>
    <3>1. PICK l \in ListsFor("download", s.item) :
             LET picked == SelectForDownload(number, query, l) IN
             /\ downloads' = downloads + Len(picked)
             /\ Answer(a, "COMPLETED",
                       Named(picked) \o [i \in DOMAIN picked |-> <<downloads + i, picked[i]>>],
                       <<[kind |-> "ATTACHMENT", list |-> l]>>)
      BY <2>2, Zenon DEF ReturnDownload
    <3> DEFINE d == SelectForDownload(number, query, l)
               show == <<[kind |-> "ATTACHMENT", list |-> l]>>
    <3>2. /\ downloads' = downloads + Len(d)
          /\ Answer(a, "COMPLETED", Named(d) \o [i \in DOMAIN d |-> <<downloads + i, d[i]>>], show)
      BY <3>1, Zenon
    <3>3. "download" \in DOMAIN Shows /\ Shows["download"] = "ATTACHMENT"
      BY DEF Shows
    <3>4. l \in Seq(Attachments \cap Items) /\ show \in Seq([kind : DOMAIN Lists, list : Seq(Items)])
      BY <3>3, ListIs
    <3>5. number \in Nat
      BY <1>4
    <3>6. d \in Seq(Attachments \cap Items)
          /\ (query.filename /\ number = 0 => ToSet(d) \subseteq query.matches)
      <4> HIDE DEF number, query
      <4> QED BY <1>4, <3>4, <3>5, SelectionIs
    <3>7. number # 0 => j.named = Attachments
      BY <1>4
    <3> HIDE DEF d, number, query, show, s, j
    <3>8. d \in Seq(Items) /\ ToSet(d) \subseteq Attachments
      <4>1. d \in Seq(Items)
        BY <3>6
      <4>2. \A i \in DOMAIN d : d[i] \in Attachments
        BY <3>6
      <4> QED BY <4>1, <4>2 DEF ToSet
    <3>9. NamePassedOn(j) => ToSet(d) \subseteq j.named
      BY <1>4, <3>6, <3>7, <3>8
    <3>10. Named(d) \in Seq(RefsUpTo(0)) /\ \A k \in DOMAIN Named(d) : ~IsDownload(Named(d)[k])
      BY <3>8, NamedIs
    <3> QED BY <3>2, <3>4, <3>8, <3>9, <3>10, Zenon
  <2> QED BY <2>1, <2>2
<1> HIDE DEF s, number, query
<1> DEFINE refs == names \o [i \in DOMAIN l |-> <<downloads + i, l[i]>>]
<1>6. /\ refs \in Seq(RefsUpTo(downloads + Len(l))) /\ NewerLater(refs)
      /\ \A k \in DOMAIN refs : IsDownload(refs[k]) => refs[k][1] > downloads /\ refs[k][2] \in ToSet(l)
  BY <1>2, <1>5, FetchedIs
<1>7. Answer(a, "COMPLETED", refs, show)
  BY <1>5, Zenon
<1> HIDE DEF refs
<1>8. downloads' \in Nat /\ downloads' >= downloads /\ refs \in Seq(RefsUpTo(downloads'))
  BY <1>2, <1>5, <1>6
<1>9. \A k \in DOMAIN refs : IsDownload(refs[k]) =>
        /\ refs[k][1] > downloads
        /\ NamePassedOn(j) => refs[k][2] \in j.named
  BY <1>5, <1>6
<1> QED BY <1>1, <1>5, <1>6, <1>7, <1>8, <1>9, ReturnKeeps

\* A step that returns nothing.
LEMMA ReturnEmptyKeeps ==
    ASSUME RuntimeAssumption, RuntimeIInv, NEW a \in Actors, NEW outcome \in {"COMPLETED", "FAILED"},
           Answer(a, outcome, <<>>, <<>>), UNCHANGED downloads
    PROVE  RuntimeIInv'
<1>1. job[a].pc = "running" /\ downloads' = downloads /\ downloads \in Nat
  BY DEF Answer, RuntimeIInv, ContextOK
<1>2. /\ <<>> \in Seq(RefsUpTo(downloads')) /\ <<>> \in Seq([kind : DOMAIN Lists, list : Seq(Items)])
      /\ DOMAIN <<>> = {} /\ downloads' >= downloads
  BY <1>1
<1>3. NewerLater(<<>>)
  BY DEF NewerLater
<1> DEFINE none == <<>>
<1>4. /\ none \in Seq(RefsUpTo(downloads')) /\ none \in Seq([kind : DOMAIN Lists, list : Seq(Items)])
      /\ DOMAIN none = {} /\ downloads' \in Nat /\ downloads' >= downloads
      /\ NewerLater(none) /\ Answer(a, outcome, none, none)
  BY <1>1, <1>2, <1>3
<1> HIDE DEF none
<1>5. \A k \in DOMAIN none : FALSE
  BY <1>4
<1> QED BY <1>1, <1>4, <1>5, ReturnKeeps

LEMMA AuditKeeps ==
    ASSUME RuntimeAssumption, RuntimeIInv, NEW a \in Actors, Audit(a)
    PROVE  RuntimeIInv'
<1> DEFINE j == job[a]
           k == [j EXCEPT !.pc = "next", !.at = j.at + 1, !.logged = current, !.input = <<>>]
<1>1. /\ j.pc = "auditing" /\ j.pc # "idle"
      /\ UNCHANGED <<context, current, asked, downloads>>
      /\ job' = [job EXCEPT ![a] = k] \/ Over(a)
  <2>1. job' = [job EXCEPT ![a] = k] \/ Over(a)
    BY Zenon DEF Audit, Advance
  <2> QED BY <2>1 DEF Audit
<1>2. JobOK(downloads, a, j) /\ Undisturbed(a) /\ current \in Actors \cup {"none"}
  BY DEF RuntimeIInv, ContextOK
<1>3. CASE Over(a)
  BY <1>1, <1>3, OverKeeps
<1>4. CASE job' = [job EXCEPT ![a] = k]
  <2>1. j.alone => current = a
    BY <1>1, <1>2 DEF Undisturbed
  <2> HIDE DEF j
  <2>2. j \in Jobs(downloads) /\ j.at + 1 \in Nat /\ <<>> \in Seq(RefsUpTo(downloads))
    BY <1>2 DEF JobOK, Jobs
  <2>3. k \in Jobs(downloads)
    <3> DEFINE next == j.at + 1
               none == <<>>
    <3>1. next \in Nat /\ none \in Seq(RefsUpTo(downloads)) /\ j \in Jobs(downloads)
      BY <2>2
    <3> HIDE DEF next, none
    <3>2. [j EXCEPT !.pc = "next", !.at = next, !.logged = current, !.input = none] \in Jobs(downloads)
      BY <1>2, <3>1 DEF Jobs, Places
    <3> QED BY <3>2 DEF next, none
  <2>4. DOMAIN j = DOMAIN Idle
    BY <2>2 DEF Jobs, Idle
  <2>5. /\ k.alone = j.alone /\ k.pc = "next" /\ k.steps = j.steps /\ k.at = j.at + 1
        /\ k.refs = j.refs /\ k.lists = j.lists /\ k.named = j.named
        /\ k.logged = current
    BY <2>4 DEF Idle
  <2> HIDE DEF k
  <2>6. WellPlaced(k)
    <3>1. Len(j.steps) \in Nat
      BY <2>2 DEF Jobs
    <3>2. j.at \in 1..(Len(j.steps) + 1) /\ j.at <= Len(j.steps) /\ Len(j.steps) <= MaxSteps
      BY <1>1, <1>2 DEF JobOK, WellPlaced
    <3>3. j.at + 1 \in 1..(Len(j.steps) + 1)
      BY <3>1, <3>2
    <3> QED BY <2>5, <3>2, <3>3 DEF WellPlaced
  <2>7. WellNamed(k) /\ NewerLater(k.refs) /\ WellSupplied(k) /\ WellBound(k)
    BY <1>2, <2>5 DEF JobOK, WellNamed, NamePassedOn, WellSupplied, WellBound
  <2>8. k.alone => k.logged \in {"none", a}
    BY <2>1, <2>5
  <2>9. JobOK(downloads, a, k)
    BY <2>3, <2>6, <2>7, <2>8 DEF JobOK
  <2> QED BY <1>1, <1>4, <2>5, <2>9, OwnStepKeeps DEF j
<1> QED BY <1>1, <1>3, <1>4

LEMMA ConcludeKeeps ==
    ASSUME RuntimeAssumption, RuntimeIInv, NEW a \in Actors, Conclude(a)
    PROVE  RuntimeIInv'
<1>1. /\ job[a].pc = "next" /\ Over(a)
      /\ history' = Remembered(job[a].refs)
      /\ snap' = NewLists(snap, job[a].lists)
      /\ shown' = NewLists([snap EXCEPT !["ATTACHMENT"] = shown], job[a].lists)["ATTACHMENT"]
      /\ current' = current /\ asked' = asked /\ downloads' = downloads
  BY Zenon DEF Conclude
<1>2. ContextOK /\ JobOK(downloads, a, job[a]) /\ downloads \in Nat
  BY DEF RuntimeIInv, ContextOK
<1>3. /\ history \in Seq(RefsUpTo(downloads)) /\ job[a].refs \in Seq(RefsUpTo(downloads))
      /\ job[a].lists \in Seq([kind : DOMAIN Lists, list : Seq(Items)])
  BY <1>2 DEF ContextOK, JobOK, Jobs
<1>4. history' \in Seq(RefsUpTo(downloads)) /\ Len(history') <= MaxRefs
  <2> DEFINE all == Distinct(history \o job[a].refs)
             from == IF Len(all) > MaxRefs THEN Len(all) - MaxRefs + 1 ELSE 1
  <2>1. all \in Seq(RefsUpTo(downloads))
    <3>1. history \o job[a].refs \in Seq(RefsUpTo(downloads))
      BY <1>3
    <3> QED BY <3>1, DistinctIs
  <2>2. history' = SubSeq(all, from, Len(all))
    BY <1>1, Zenon DEF Remembered
  <2> HIDE DEF all
  <2>3. MaxRefs \in Nat \ {0} /\ Len(all) \in Nat
    BY <2>1 DEF RuntimeAssumption
  <2>4. from \in Nat /\ from >= 1 /\ from <= Len(all) + 1 /\ Len(all) - from + 1 <= MaxRefs
    BY <2>3
  <2> HIDE DEF from
  <2>5. /\ SubSeq(all, from, Len(all)) \in Seq(RefsUpTo(downloads))
        /\ Len(SubSeq(all, from, Len(all))) = Len(all) - from + 1
    BY <2>1, <2>3, <2>4, SubSeqProperties
  <2> QED BY <2>2, <2>4, <2>5
<1> DEFINE lists == job[a].lists
           new(k) == Keep(lists, [kind : {k}, list : Lists[k]])
<1>5. ASSUME NEW k \in DOMAIN Lists, new(k) # <<>> PROVE Last(new(k)).list \in Lists[k]
  <2>1. PICK i \in 1..Len(lists) :
           Last(new(k)) = lists[i] /\ lists[i] \in [kind : {k}, list : Lists[k]]
    BY <1>3, <1>5, LastKept
  <2> QED BY <2>1
<1>6. "ATTACHMENT" \in DOMAIN Lists
  BY DEF RuntimeAssumption
<1>7. snap' = [k \in DOMAIN Lists |-> IF new(k) = <<>> THEN snap[k] ELSE Last(new(k)).list]
  BY <1>1, Zenon DEF NewLists
<1> DEFINE before == [snap EXCEPT !["ATTACHMENT"] = shown]
<1>8. shown' = IF new("ATTACHMENT") = <<>> THEN before["ATTACHMENT"] ELSE Last(new("ATTACHMENT")).list
  BY <1>1, <1>6, Zenon DEF NewLists
<1>9. before["ATTACHMENT"] = shown /\ shown = snap["ATTACHMENT"]
  BY <1>2, <1>6 DEF ContextOK
<1> HIDE DEF before, new, lists
<1>10. ContextOK'
  <2>1. ASSUME NEW k \in DOMAIN Lists PROVE snap'[k] \in {<<>>} \cup Lists[k]
    <3>1. snap[k] \in {<<>>} \cup Lists[k]
      BY <1>2 DEF ContextOK
    <3> QED BY <1>5, <1>7, <3>1
  <2>2. snap' \in [DOMAIN Lists -> Seq(Items)]
    <3>1. \A k \in DOMAIN Lists : \A l \in {<<>>} \cup Lists[k] : l \in Seq(Items)
      <4>1. <<>> \in Seq(Items)
        OBVIOUS
      <4>2. \A k \in DOMAIN Lists : \A l \in Lists[k] : l \in Seq(Items)
        BY DEF RuntimeAssumption
      <4> QED BY <4>1, <4>2, Zenon
    <3>2. \A k \in DOMAIN Lists : snap'[k] \in Seq(Items)
      BY <2>1, <3>1
    <3>3. snap' = [k \in DOMAIN Lists |-> snap'[k]]
      BY <1>7
    <3> QED BY <3>2, <3>3
  <2>3. shown' = snap'["ATTACHMENT"]
    BY <1>6, <1>7, <1>8, <1>9
  <2> QED BY <1>1, <1>2, <1>4, <2>1, <2>2, <2>3 DEF ContextOK
<1>11. JobOK(downloads', a, Idle) /\ Idle.pc = "idle" /\ downloads' >= downloads
  <2>1. JobOK(downloads, a, Idle)
    BY <1>2, IdleIsOK
  <2>2. Idle.pc = "idle"
    BY DEF Idle
  <2> QED BY <1>1, <1>2, <2>1, <2>2
<1>12. job' = [job EXCEPT ![a] = Idle] /\ job[a].pc # "idle" /\ current' = current
  BY <1>1 DEF Over
<1> QED BY <1>10, <1>11, <1>12, StepKeeps

-----------------------------------------------------------------------------
(* The theorems about the runtime.                                         *)

LEMMA RuntimeStutters == ASSUME RuntimeIInv, UNCHANGED runtimeVars PROVE RuntimeIInv'
<1>1. UNCHANGED <<job, history, snap, shown, current, asked, downloads>>
  BY DEF runtimeVars, context
<1>2. ContextOK' /\ downloads' = downloads /\ job' = job
  BY <1>1 DEF RuntimeIInv, ContextOK
<1>3. \A a \in Actors : JobOK(downloads', a, job'[a]) /\ Undisturbed(a)'
  BY <1>1 DEF RuntimeIInv, Undisturbed
<1> QED BY <1>2, <1>3 DEF RuntimeIInv

LEMMA RuntimeStepHolds ==
    RuntimeAssumption /\ RuntimeIInv /\ [RuntimeNext]_runtimeVars => RuntimeIInv'
<1> SUFFICES ASSUME RuntimeAssumption, RuntimeIInv, [RuntimeNext]_runtimeVars PROVE RuntimeIInv'
  OBVIOUS
<1>1. CASE Ask
  <2>1. PICK u \in Utterances : Begin("user", u)
    BY <1>1 DEF Ask
  <2> QED BY <2>1, BeginKeeps DEF Actors
<1>2. CASE Notify
  BY <1>2, BeginKeeps DEF Notify, Actors
<1>3. ASSUME NEW a \in Actors, Respond(a) PROVE RuntimeIInv'
  <2>1. CASE PlanFails(a)
    BY <2>1, PlanFailsKeeps
  <2>2. CASE \E plan \in Plans[a] : Planned(a, plan)
    BY <2>2, PlannedKeeps
  <2>3. CASE Admit(a)
    BY <2>3, AdmitKeeps
  <2>4. CASE Delegate(a)
    BY <2>4, DelegateKeeps
  <2>5. CASE ReturnList(a)
    BY <2>5, ReturnListKeeps
  <2>6. CASE ReturnDownload(a)
    BY <2>6, ReturnDownloadKeeps
  <2>7. CASE ReturnDone(a)
    BY <2>7, ReturnEmptyKeeps DEF ReturnDone
  <2>8. CASE ReturnNothing(a)
    BY <2>8, ReturnEmptyKeeps DEF ReturnNothing
  <2>9. CASE Raise(a)
    <3>1. job[a].pc # "idle" /\ Over(a) /\ UNCHANGED <<context, current, asked, downloads>>
      BY <2>9 DEF Raise
    <3> QED BY <3>1, OverKeeps
  <2>10. CASE Audit(a)
    BY <2>10, AuditKeeps
  <2>11. CASE Conclude(a)
    BY <2>11, ConcludeKeeps
  <2> QED BY <1>3, <2>1, <2>2, <2>3, <2>4, <2>5, <2>6, <2>7, <2>8, <2>9, <2>10, <2>11, Zenon DEF Respond
<1>4. CASE UNCHANGED runtimeVars
  BY <1>4, RuntimeStutters
<1>5. CASE Rest
  BY <1>5, RuntimeStutters DEF Rest
<1> QED BY <1>1, <1>2, <1>3, <1>4, <1>5 DEF RuntimeNext

LEMMA RuntimeInductive == RuntimeSpec => []RuntimeIInv
<1>1. RuntimeAssumption
  BY RuntimeAssumption
<1>2. RuntimeInit => RuntimeIInv
  BY <1>1, RuntimeInitHolds
<1>3. RuntimeIInv /\ [RuntimeNext]_runtimeVars => RuntimeIInv'
  BY <1>1, RuntimeStepHolds
<1> QED BY <1>2, <1>3, PTL DEF RuntimeSpec

\* What a document step runs with, from the invariant.
LEMMA SuppliedWhenAnalysing ==
    ASSUME RuntimeIInv, NEW a \in Actors, Analyses(a)
    PROVE  /\ JobOK(downloads, a, job[a]) /\ job[a].at \in DOMAIN job[a].steps
           /\ Supplied(Current(a).files, job[a].reuse, job[a].refs, job[a].input)
<1> DEFINE j == job[a]
<1>1. JobOK(downloads, a, j)
  BY DEF RuntimeIInv
<1>2. j.pc = "running" /\ j.steps[j.at].kind = "document"
  BY DEF Analyses, Current
<1>3. j.steps \in Seq(Steps) /\ j.at \in 1..(Len(j.steps) + 1) /\ j.at <= Len(j.steps)
  BY <1>1, <1>2 DEF JobOK, Jobs, WellPlaced
<1>4. j.at \in DOMAIN j.steps
  BY <1>3
<1> QED BY <1>1, <1>2, <1>4 DEF JobOK, WellSupplied, Current

\* _handle_document_tasks: a document step that is bound to files is given all
\* of them in the order of the list, each in the newest copy the plan made, and
\* one that is bound to none is given downloads of its own plan only, or the one
\* earlier download "그 파일" means, whatever else runs meanwhile.
THEOREM DocumentsAreSupplied == RuntimeSpec => []DocumentGetsItsFiles
<1>1. ASSUME RuntimeIInv PROVE DocumentGetsItsFiles
  <2>1. SUFFICES ASSUME NEW a \in Actors, Analyses(a)
                 PROVE  LET j == job[a]
                            wanted == Current(a).files
                        IN  /\ wanted # <<>> =>
                                 /\ [i \in DOMAIN j.input |-> j.input[i][2]] = wanted
                                 /\ \A i \in DOMAIN j.input, k \in DOMAIN j.refs :
                                      IsDownload(j.refs[k]) /\ j.refs[k][2] = j.input[i][2] =>
                                         j.input[i][1] >= j.refs[k][1]
                            /\ wanted = <<>> /\ ~j.reuse => ToSet(j.input) \subseteq ToSet(j.refs)
                            /\ wanted = <<>> /\ j.reuse => Len(j.input) = 1
    BY Zenon DEF DocumentGetsItsFiles
  <2>2. Supplied(Current(a).files, job[a].reuse, job[a].refs, job[a].input)
    BY <1>1, <2>1, SuppliedWhenAnalysing
  <2>3. ASSUME Current(a).files = <<>>, ~job[a].reuse
        PROVE  ToSet(job[a].input) \subseteq ToSet(job[a].refs)
    BY <2>2, <2>3 DEF Supplied, ToSet
  <2> QED BY <2>2, <2>3, Zenon DEF Supplied
<1> QED BY <1>1, RuntimeInductive, PTL

\* _attach_verified_attachment_target: until a request that nothing overlaps is
\* admitted, the files of its plan are those its words select from the list the
\* user saw in the last completed answer.
THEOREM BindsWhatWasShown == RuntimeSpec => []BoundAsShown
<1>1. ASSUME RuntimeIInv PROVE BoundAsShown
  BY <1>1 DEF RuntimeIInv, JobOK, WellBound, BoundAsShown
<1> QED BY <1>1, RuntimeInductive, PTL

\* The types of the runtime, the audit of a request that nothing overlaps under
\* its own id, and no other file than the one the user named given to a document
\* step, whether the plan was bound to it or a download selected it.
THEOREM RuntimeCorrect == RuntimeSpec => []PlanRuntimeInv
<1>1. ASSUME RuntimeAssumption, RuntimeIInv PROVE RuntimeTypeOK
  <2>1. Refs = RefsUpTo(downloads)
    BY DEF Refs, RefsUpTo
  <2>2. ASSUME NEW a \in Actors
        PROVE  /\ DOMAIN job[a] = DOMAIN Idle
               /\ job[a].pc \in Places
               /\ job[a].logged \in Actors \cup {"none"}
               /\ job[a].steps \in Seq(Steps) /\ Len(job[a].steps) <= MaxSteps
               /\ job[a].at \in 1..(MaxSteps + 1)
               /\ {job[a].refs, job[a].input} \subseteq Seq(Refs)
    <3> DEFINE j == job[a]
    <3>1. j \in Jobs(downloads) /\ WellPlaced(j)
      BY <1>1 DEF RuntimeIInv, JobOK
    <3> HIDE DEF j
    <3>2. /\ DOMAIN j = DOMAIN Idle /\ j.pc \in Places /\ j.logged \in Actors \cup {"none"}
          /\ j.steps \in Seq(Steps) /\ {j.refs, j.input} \subseteq Seq(Refs)
      BY <2>1, <3>1 DEF Jobs, Idle
    <3>3. Len(j.steps) <= MaxSteps /\ Len(j.steps) \in Nat /\ MaxSteps \in Nat
      BY <1>1, <3>1, <3>2 DEF WellPlaced, RuntimeAssumption
    <3>4. j.at \in 1..(Len(j.steps) + 1)
      BY <3>1 DEF WellPlaced
    <3>5. j.at \in 1..(MaxSteps + 1)
      BY <3>3, <3>4
    <3> QED BY <3>2, <3>3, <3>5 DEF j
  <2>3. ContextOK /\ DOMAIN job = Actors /\ "ATTACHMENT" \in DOMAIN Lists
    BY <1>1 DEF RuntimeIInv, RuntimeAssumption
  <2>4. history \in Seq(Refs) /\ Len(history) <= MaxRefs
    BY <2>1, <2>3 DEF ContextOK
  <2>5. snap \in [DOMAIN Lists -> {<<>>} \cup UNION {Lists[k] : k \in DOMAIN Lists}]
    <3>1. snap = [k \in DOMAIN Lists |-> snap[k]]
      BY <2>3 DEF ContextOK
    <3>2. \A k \in DOMAIN Lists : snap[k] \in {<<>>} \cup UNION {Lists[i] : i \in DOMAIN Lists}
      BY <2>3 DEF ContextOK
    <3> QED BY <3>1, <3>2
  <2>6. shown \in {<<>>} \cup Lists["ATTACHMENT"]
    BY <2>3 DEF ContextOK
  <2>7. \A a \in Actors : asked[a] \in 0..MaxRequests[a]
    <3>1. MaxRequests \in [Actors -> Nat]
      BY <1>1 DEF RuntimeAssumption
    <3> QED BY <2>3, <3>1 DEF ContextOK
  <2> QED BY <2>2, <2>3, <2>4, <2>5, <2>6, <2>7 DEF RuntimeTypeOK, ContextOK, Places
<1>2. ASSUME RuntimeIInv PROVE AuditIsOwn
  BY <1>2 DEF RuntimeIInv, JobOK, AuditIsOwn
<1>3. ASSUME RuntimeIInv PROVE NamedFileOnly
  <2>1. SUFFICES ASSUME NEW a \in Actors, Analyses(a), ~job[a].reuse, NamePassedOn(job[a])
                 PROVE  InputFiles(a) \subseteq job[a].named
    BY DEF NamedFileOnly
  <2> DEFINE j == job[a]
             wanted == Current(a).files
  <2>2. /\ JobOK(downloads, a, j) /\ j.at \in DOMAIN j.steps
        /\ Supplied(wanted, j.reuse, j.refs, j.input)
    BY <1>3, <2>1, SuppliedWhenAnalysing
  <2>3. WellNamed(j)
    BY <2>2 DEF JobOK
  <2>4. SUFFICES ASSUME NEW i \in DOMAIN j.input PROVE j.input[i][2] \in j.named
    BY DEF InputFiles
  <2>5. CASE wanted # <<>>
    <3> DEFINE given == [x \in DOMAIN j.input |-> j.input[x][2]]
    <3>1. given = wanted
      BY <2>2, <2>5, Zenon DEF Supplied
    <3>2. i \in DOMAIN given /\ given[i] = j.input[i][2]
      OBVIOUS
    <3> HIDE DEF given
    <3>3. j.input[i][2] \in ToSet(wanted)
      BY <3>1, <3>2, Zenon DEF ToSet
    <3>4. ToSet(wanted) \subseteq j.named
      BY <2>2, <2>3 DEF WellNamed, NamePassedOn, Current
    <3> QED BY <3>3, <3>4
  <2>6. CASE wanted = <<>>
    <3>1. PICK k \in DOMAIN j.refs : j.input[i] = j.refs[k] /\ IsDownload(j.refs[k])
      BY <2>1, <2>2, <2>6 DEF Supplied
    <3> QED BY <2>1, <2>3, <3>1 DEF WellNamed, NamePassedOn
  <2> QED BY <2>5, <2>6
<1>4. RuntimeAssumption
  BY RuntimeAssumption
<1>5. RuntimeIInv => PlanRuntimeInv
  BY <1>1, <1>2, <1>3, <1>4 DEF PlanRuntimeInv
<1> QED BY <1>5, RuntimeInductive, PTL

==================================================================================
