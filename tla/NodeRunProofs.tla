---------------------------- MODULE NodeRunProofs ----------------------------
(***************************************************************************)
(* Proofs about NodeRun and ConnectionRouter, for every set of workflows,  *)
(* inputs and bounds:                                                      *)
(*   Invariance, TypeCorrect  types, and that a run is where its pc says   *)
(*   OrderCorrect             the sort orders the nodes or finds a cycle   *)
(*   RunsBounded              no node runs more often than it is given to  *)
(*   DeliveredCorrect         a node runs on what was sent to it           *)
(*   LoopServes               a loop serves what was sent to it, once      *)
(* First the operators: induction by the least counterexample, Among and   *)
(* FlattenSeq, then routing and the types of outputs.  Then each invariant *)
(* with a lemma for each kind of step.                                     *)
(***************************************************************************)
EXTENDS NodeRun, FiniteSetTheorems, SequenceTheorems, TLAPS

----------------------------------------------------------------------------
(* Induction, by the least counterexample.                                 *)

\* A set of numbers has a least element.
LEMMA LeastNumber ==
  ASSUME NEW F \in SUBSET Nat, F # {}
  PROVE  \E m \in F : \A k \in F : m <= k
<1> DEFINE Less == OpToRel(<, Nat)
<1>1. \E m \in F : \A k \in F : <<k, m>> \notin Less
  <2> HIDE DEF Less
  <2>1. IsWellFoundedOn(Less, Nat)
    BY NatLessThanWellFounded DEF Less
  <2> QED BY <2>1, WFMin
<1>2. \A k, m \in Nat : <<k, m>> \in Less <=> k < m
  BY DEF OpToRel
<1> HIDE DEF Less
<1>3. PICK m \in F : \A k \in F : <<k, m>> \notin Less
  BY <1>1
<1>4. ASSUME NEW k \in F PROVE m <= k
  <2>1. k \in Nat /\ m \in Nat /\ <<k, m>> \notin Less
    BY <1>3
  <2>2. ~ (k < m)
    BY <1>2, <2>1
  <2> QED BY <2>1, <2>2
<1> QED BY <1>4

\* A set that has 0, and n + 1 with n, has every number.
LEMMA SetInduction ==
  ASSUME NEW T, 0 \in T, \A n \in Nat : n \in T => n + 1 \in T
  PROVE  \A n \in Nat : n \in T
<1> DEFINE F == {n \in Nat : n \notin T}
<1> SUFFICES ASSUME NEW n \in Nat, n \notin T PROVE FALSE
  OBVIOUS
<1>1. PICK m \in F : \A k \in F : m <= k
  <2>1. F \in SUBSET Nat /\ n \in F
    OBVIOUS
  <2> QED BY <2>1, LeastNumber
<1>2. m \in Nat /\ m # 0
  OBVIOUS
<1>3. m - 1 \in Nat /\ m - 1 \notin F
  BY <1>1, <1>2
<1>4. m - 1 \in T
  BY <1>3
<1> QED BY <1>2, <1>3, <1>4

\* A set that has the empty sequence, and Append(s, e) with s, has every
\* sequence.
LEMMA SeqInduction ==
  ASSUME NEW A, NEW P, <<>> \in P,
         \A s \in Seq(A), e \in A : s \in P => Append(s, e) \in P
  PROVE  \A s \in Seq(A) : s \in P
<1> DEFINE T == {n \in Nat : \A s \in Seq(A) : Len(s) = n => s \in P}
<1>1. 0 \in T
  <2>1. \A s \in Seq(A) : Len(s) = 0 => s = <<>>
    BY EmptySeq
  <2> QED BY <2>1
<1>2. ASSUME NEW n \in Nat, n \in T PROVE n + 1 \in T
  <2>1. ASSUME NEW s \in Seq(A), Len(s) = n + 1 PROVE s \in P
    <3> DEFINE r == SubSeq(s, 1, n)
    <3>1. r \in Seq(A) /\ Len(r) = n /\ \A i \in 1..n : r[i] = s[i]
      BY <2>1
    <3>2. s[n + 1] \in A
      BY <2>1
    <3> HIDE DEF r
    <3>3. r \in P
      BY <3>1, <1>2
    <3>4. s = Append(r, s[n + 1])
      <4>1. Append(r, s[n + 1]) \in Seq(A) /\ Len(Append(r, s[n + 1])) = n + 1
        BY <3>1, <3>2
      <4>2. \A i \in 1..n + 1 : Append(r, s[n + 1])[i] = s[i]
        BY <3>1, <3>2, <2>1
      <4> QED BY <4>1, <4>2, <2>1, SeqEqual
    <3> QED BY <3>1, <3>2, <3>3, <3>4
  <2> QED BY <2>1
<1>3. \A n \in Nat : n \in T
  <2> HIDE DEF T
  <2> QED BY <1>1, <1>2, SetInduction
<1>4. \A s \in Seq(A) : Len(s) \in Nat
  OBVIOUS
<1> QED BY <1>3, <1>4

----------------------------------------------------------------------------
(* Among.                                                                  *)

KeptBy(f, s, S) ==
  f = [i \in 0..Len(s) |->
         IF i = 0 THEN <<>>
         ELSE IF s[i] \in S THEN Append(f[i - 1], s[i])
         ELSE f[i - 1]]

LEMMA KeptStep ==
  ASSUME NEW s, NEW S, NEW f, KeptBy(f, s, S), Len(s) \in Nat
  PROVE  /\ f[0] = <<>>
         /\ \A i \in 1..Len(s) :
              f[i] = IF s[i] \in S THEN Append(f[i - 1], s[i]) ELSE f[i - 1]
<1>1. 0 \in 0..Len(s) /\ \A i \in 1..Len(s) : i \in 0..Len(s) /\ i # 0
  OBVIOUS
<1> DEFINE e(i) == IF i = 0 THEN <<>>
                   ELSE IF s[i] \in S THEN Append(f[i - 1], s[i])
                   ELSE f[i - 1]
<1>2. f = [i \in 0..Len(s) |-> e(i)]
  BY DEF KeptBy
<1> HIDE DEF e
<1>3. \A i \in 0..Len(s) : f[i] = e(i)
  BY <1>2, Zenon
<1> QED BY <1>1, <1>3 DEF e

LEMMA KeptExists ==
  ASSUME NEW A, NEW S
  PROVE  \A s \in Seq(A) : \E f : KeptBy(f, s, S)
<1> DEFINE P == {s \in Seq(A) : \E f : KeptBy(f, s, S)}
<1>1. <<>> \in P
  <2>1. KeptBy([i \in 0..0 |-> <<>>], <<>>, S)
    BY DEF KeptBy
  <2> QED BY <2>1
<1>2. ASSUME NEW s \in Seq(A), NEW e \in A, s \in P PROVE Append(s, e) \in P
  <2> DEFINE t == Append(s, e)
             n == Len(s)
  <2>1. PICK f : KeptBy(f, s, S)
    BY <1>2
  <2>2. t \in Seq(A) /\ Len(t) = n + 1 /\ n \in Nat /\ \A i \in 1..n : t[i] = s[i]
    OBVIOUS
  <2> DEFINE g == [i \in 0..n + 1 |->
                     IF i <= n THEN f[i]
                     ELSE IF t[i] \in S THEN Append(f[n], t[i]) ELSE f[n]]
  <2>3. \A i \in 0..n : g[i] = f[i]
    BY <2>2
  <2>4. ASSUME NEW i \in 0..n + 1
        PROVE  g[i] = IF i = 0 THEN <<>>
                      ELSE IF t[i] \in S THEN Append(g[i - 1], t[i])
                      ELSE g[i - 1]
    <3>1. CASE i = 0
      BY <3>1, <2>1, <2>2, <2>3 DEF KeptBy
    <3>2. CASE i \in 1..n
      <4>1. g[i] = f[i] /\ g[i - 1] = f[i - 1] /\ t[i] = s[i] /\ i # 0
        BY <3>2, <2>2, <2>3
      <4>2. f[i] = IF s[i] \in S THEN Append(f[i - 1], s[i]) ELSE f[i - 1]
        BY <3>2, <2>1, <2>2, KeptStep
      <4> QED BY <4>1, <4>2
    <3>3. CASE i = n + 1
      <4>1. g[i - 1] = f[n] /\ i # 0
        BY <3>3, <2>2, <2>3
      <4>2. g[i] = IF t[i] \in S THEN Append(f[n], t[i]) ELSE f[n]
        BY <3>3, <2>2
      <4> QED BY <4>1, <4>2
    <3> QED BY <3>1, <3>2, <3>3, <2>2
  <2>5. g = [i \in 0..Len(t) |-> g[i]]
    BY <2>2
  <2>6. KeptBy(g, t, S)
    <3> HIDE DEF g, t
    <3> QED BY <2>2, <2>4, <2>5 DEF KeptBy
  <2> QED BY <2>2, <2>6
<1> HIDE DEF P
<1>3. \A s \in Seq(A) : s \in P
  BY <1>1, <1>2, SeqInduction
<1> QED BY <1>3 DEF P

LEMMA KeptUnique ==
  ASSUME NEW A, NEW S, NEW s \in Seq(A), NEW t \in Seq(A), NEW f, NEW g,
         KeptBy(f, s, S), KeptBy(g, t, S),
         Len(s) <= Len(t), \A i \in 1..Len(s) : s[i] = t[i]
  PROVE  \A i \in 0..Len(s) : f[i] = g[i]
<1> DEFINE T == {i \in Nat : i <= Len(s) => f[i] = g[i]}
<1>1. 0 \in T
  BY DEF KeptBy
<1>2. ASSUME NEW n \in Nat, n \in T PROVE n + 1 \in T
  <2> SUFFICES ASSUME n + 1 <= Len(s) PROVE f[n + 1] = g[n + 1]
    OBVIOUS
  <2>1. n + 1 \in 0..Len(s) /\ n + 1 \in 0..Len(t) /\ n + 1 # 0 /\ (n + 1) - 1 = n
    OBVIOUS
  <2>2. f[n + 1] = IF s[n + 1] \in S THEN Append(f[n], s[n + 1]) ELSE f[n]
    BY <2>1 DEF KeptBy
  <2>3. g[n + 1] = IF t[n + 1] \in S THEN Append(g[n], t[n + 1]) ELSE g[n]
    BY <2>1 DEF KeptBy
  <2> QED BY <1>2, <2>2, <2>3
<1>3. \A n \in Nat : n \in T
  <2> HIDE DEF T
  <2> QED BY <1>1, <1>2, SetInduction
<1> QED BY <1>3

LEMMA AmongIsKept ==
  ASSUME NEW A, NEW S, NEW s \in Seq(A), NEW f, KeptBy(f, s, S)
  PROVE  Among(s, S) = f[Len(s)]
<1> DEFINE k == CHOOSE k : KeptBy(k, s, S)
<1>1. KeptBy(k, s, S)
  <2> HIDE DEF KeptBy
  <2> QED BY Zenon
<1>2. Among(s, S) = k[Len(s)]
  BY Zenon DEF Among, KeptBy
<1> HIDE DEF k
<1>3. \A i \in 0..Len(s) : k[i] = f[i]
  BY <1>1, KeptUnique
<1> QED BY <1>2, <1>3

LEMMA AmongNone ==
  ASSUME NEW S
  PROVE  Among(<<>>, S) = <<>>
<1>1. KeptBy([i \in 0..0 |-> <<>>], <<>>, S) /\ <<>> \in Seq({})
  BY DEF KeptBy
<1> QED BY <1>1, AmongIsKept

LEMMA AmongAppend ==
  ASSUME NEW A, NEW S, NEW s \in Seq(A), NEW e \in A
  PROVE  Among(Append(s, e), S) =
           IF e \in S THEN Append(Among(s, S), e) ELSE Among(s, S)
<1> DEFINE t == Append(s, e)
<1>1. t \in Seq(A) /\ Len(t) = Len(s) + 1 /\ t[Len(s) + 1] = e
        /\ \A i \in 1..Len(s) : t[i] = s[i]
  OBVIOUS
<1>2. PICK f : KeptBy(f, s, S)
  BY KeptExists
<1>3. PICK g : KeptBy(g, t, S)
  BY <1>1, KeptExists
<1> HIDE DEF t
<1>4. Among(s, S) = f[Len(s)] /\ Among(t, S) = g[Len(s) + 1]
  BY <1>1, <1>2, <1>3, AmongIsKept
<1>5. f[Len(s)] = g[Len(s)]
  <2>1. \A i \in 0..Len(s) : f[i] = g[i]
    <3>1. Len(s) <= Len(t) /\ \A i \in 1..Len(s) : s[i] = t[i]
      BY <1>1
    <3> QED BY <1>1, <1>2, <1>3, <3>1, KeptUnique
  <2> QED BY <2>1
<1>6. g[Len(s) + 1] = IF t[Len(s) + 1] \in S THEN Append(g[Len(s)], t[Len(s) + 1])
                      ELSE g[Len(s)]
  <2>1. Len(s) + 1 \in 1..Len(t) /\ (Len(s) + 1) - 1 = Len(s)
    BY <1>1
  <2> QED BY <1>1, <1>3, <2>1, KeptStep
<1> QED BY <1>1, <1>4, <1>5, <1>6 DEF t

\* The places in s of the elements of Among(s, S).
Picks(f, s, S) ==
  LET r == Among(s, S) IN
  /\ f \in [1..Len(r) -> 1..Len(s)]
  /\ \A i, j \in 1..Len(r) : i < j => f[i] < f[j]
  /\ \A i \in 1..Len(r) : r[i] = s[f[i]] /\ r[i] \in S
  /\ \A k \in 1..Len(s) : s[k] \in S => \E i \in 1..Len(r) : f[i] = k

LEMMA AmongPicks ==
  ASSUME NEW A, NEW S
  PROVE  \A s \in Seq(A) : Among(s, S) \in Seq(A) /\ \E f : Picks(f, s, S)
<1> DEFINE T == {s \in Seq(A) : Among(s, S) \in Seq(A) /\ \E f : Picks(f, s, S)}
<1>1. <<>> \in T
  <2>1. Picks([i \in 1..0 |-> 0], <<>>, S)
    <3> DEFINE g == [i \in 1..0 |-> 0]
    <3>1. Among(<<>>, S) = <<>> /\ Len(<<>>) = 0 /\ 1..0 = {}
      BY AmongNone
    <3>2. g \in [1..0 -> 1..0]
      BY <3>1
    <3> HIDE DEF g
    <3>3. Picks(g, <<>>, S)
      BY <3>1, <3>2 DEF Picks
    <3> QED BY <3>3 DEF g
  <2>2. Among(<<>>, S) \in Seq(A) /\ <<>> \in Seq(A)
    <3>1. <<>> \in Seq(A)
      OBVIOUS
    <3> QED BY <3>1, AmongNone, Zenon
  <2>3. \E f : Picks(f, <<>>, S)
    BY <2>1, Zenon
  <2> QED BY <2>2, <2>3
<1>2. ASSUME NEW s \in Seq(A), NEW e \in A, s \in T PROVE Append(s, e) \in T
  <2> DEFINE t == Append(s, e)
             r == Among(s, S)
             n == Len(s)
             m == Len(r)
  <2>1. PICK f : Picks(f, s, S)
    BY <1>2
  <2>2. /\ t \in Seq(A) /\ Len(t) = n + 1 /\ n \in Nat /\ t[n + 1] = e
        /\ \A i \in 1..n : t[i] = s[i]
    OBVIOUS
  <2>3. r \in Seq(A) /\ m \in Nat
    BY <1>2
  <2>4. /\ f \in [1..m -> 1..n]
        /\ \A i, j \in 1..m : i < j => f[i] < f[j]
        /\ \A i \in 1..m : r[i] = s[f[i]] /\ r[i] \in S
        /\ \A k \in 1..n : s[k] \in S => \E i \in 1..m : f[i] = k
    BY <2>1 DEF Picks
  <2>5. Among(t, S) = IF e \in S THEN Append(r, e) ELSE r
    BY AmongAppend
  <2> HIDE DEF t, r, n, m
  <2>6. CASE e \in S
    <3> DEFINE g == [i \in 1..m + 1 |-> IF i = m + 1 THEN n + 1 ELSE f[i]]
    <3>1. /\ Among(t, S) = Append(r, e) /\ Append(r, e) \in Seq(A)
          /\ Len(Append(r, e)) = m + 1 /\ Append(r, e)[m + 1] = e
          /\ \A i \in 1..m : Append(r, e)[i] = r[i]
      BY <2>3, <2>5, <2>6 DEF m
    <3>2. g \in [1..m + 1 -> 1..n + 1] /\ g[m + 1] = n + 1 /\ \A i \in 1..m : g[i] = f[i]
      BY <2>2, <2>3, <2>4
    <3> HIDE DEF g
    <3>3. ASSUME NEW i \in 1..m + 1, NEW j \in 1..m + 1, i < j PROVE g[i] < g[j]
      <4>1. CASE j = m + 1
        <5>1. i \in 1..m
          BY <4>1, <3>3, <2>3
        <5>2. f[i] \in 1..n
          BY <5>1, <2>4
        <5> QED BY <4>1, <5>1, <5>2, <3>2, <2>2
      <4>2. CASE j # m + 1
        <5>1. i \in 1..m /\ j \in 1..m
          BY <4>2, <3>3, <2>3
        <5> QED BY <5>1, <3>2, <3>3, <2>4
      <4> QED BY <4>1, <4>2
    <3>4. ASSUME NEW i \in 1..m + 1
          PROVE Append(r, e)[i] = t[g[i]] /\ Append(r, e)[i] \in S
      <4>1. CASE i = m + 1
        BY <4>1, <3>1, <3>2, <2>2, <2>6
      <4>2. CASE i \in 1..m
        <5>1. f[i] \in 1..n /\ r[i] = s[f[i]] /\ r[i] \in S
          BY <4>2, <2>4
        <5> QED BY <4>2, <5>1, <3>1, <3>2, <2>2
      <4>3. i = m + 1 \/ i \in 1..m
        BY <2>3
      <4> QED BY <4>1, <4>2, <4>3
    <3>5. ASSUME NEW k \in 1..n + 1, t[k] \in S PROVE \E i \in 1..m + 1 : g[i] = k
      <4>1. CASE k = n + 1
        BY <4>1, <3>2, <2>3
      <4>2. CASE k \in 1..n
        <5>1. PICK i \in 1..m : f[i] = k
          BY <4>2, <3>5, <2>2, <2>4
        <5> QED BY <5>1, <3>2, <2>3
      <4> QED BY <4>1, <4>2, <2>2
    <3>6. Picks(g, t, S)
      BY <2>2, <3>1, <3>2, <3>3, <3>4, <3>5 DEF Picks
    <3> QED BY <2>2, <3>1, <3>6 DEF t
  <2>7. CASE e \notin S
    <3>1. Among(t, S) = r
      BY <2>5, <2>7
    <3>2. f \in [1..m -> 1..n + 1]
      BY <2>2, <2>4
    <3>3. ASSUME NEW i \in 1..m PROVE r[i] = t[f[i]] /\ r[i] \in S
      BY <2>2, <2>4
    <3>4. ASSUME NEW k \in 1..n + 1, t[k] \in S PROVE \E i \in 1..m : f[i] = k
      <4>1. k \in 1..n
        BY <2>2, <2>7, <3>4
      <4> QED BY <4>1, <3>4, <2>2, <2>4
    <3>5. Picks(f, t, S)
      <4> USE DEF m
      <4> QED BY <2>2, <2>4, <3>1, <3>2, <3>3, <3>4 DEF Picks
    <3> QED BY <2>2, <2>3, <3>1, <3>5 DEF t
  <2> QED BY <2>6, <2>7
<1> HIDE DEF T
<1>3. \A s \in Seq(A) : s \in T
  BY <1>1, <1>2, SeqInduction
<1> QED BY <1>3 DEF T

LEMMA AmongType ==
  ASSUME NEW A, NEW S, NEW s \in Seq(A)
  PROVE  /\ Among(s, S) \in Seq(A)
         /\ ToSet(Among(s, S)) = ToSet(s) \cap S
         /\ IsInjective(s) => IsInjective(Among(s, S))
<1> DEFINE r == Among(s, S)
<1>1. r \in Seq(A) /\ \E f : Picks(f, s, S)
  BY AmongPicks
<1>2. PICK f : Picks(f, s, S)
  BY <1>1
<1>3. /\ f \in [1..Len(r) -> 1..Len(s)]
      /\ \A i, j \in 1..Len(r) : i < j => f[i] < f[j]
      /\ \A i \in 1..Len(r) : r[i] = s[f[i]] /\ r[i] \in S
      /\ \A k \in 1..Len(s) : s[k] \in S => \E i \in 1..Len(r) : f[i] = k
  BY <1>2 DEF Picks
<1> HIDE DEF r
<1>4. DOMAIN r = 1..Len(r) /\ DOMAIN s = 1..Len(s) /\ Len(r) \in Nat /\ Len(s) \in Nat
  BY <1>1
<1>5. ToSet(r) = ToSet(s) \cap S
  <2>1. ToSet(r) = {r[i] : i \in 1..Len(r)} /\ ToSet(s) = {s[i] : i \in 1..Len(s)}
    BY <1>4 DEF ToSet
  <2>2. ASSUME NEW i \in 1..Len(r) PROVE r[i] \in ToSet(s) \cap S
    BY <1>3, <2>1, <2>2
  <2>3. ASSUME NEW k \in 1..Len(s), s[k] \in S PROVE s[k] \in ToSet(r)
    <3>1. PICK i \in 1..Len(r) : f[i] = k
      BY <1>3, <2>3
    <3>2. r[i] = s[k]
      BY <1>3, <3>1
    <3> QED BY <2>1, <3>2
  <2> QED BY <2>1, <2>2, <2>3
<1>6. ASSUME IsInjective(s), NEW i \in 1..Len(r), NEW j \in 1..Len(r), r[i] = r[j]
      PROVE i = j
  <2>1. f[i] \in 1..Len(s) /\ f[j] \in 1..Len(s) /\ s[f[i]] = s[f[j]]
    BY <1>3, <1>6
  <2>2. f[i] = f[j]
    BY <2>1, <1>4, <1>6 DEF IsInjective
  <2>3. ~(i < j) /\ ~(j < i)
    BY <2>1, <2>2, <1>3
  <2> QED BY <2>3, <1>4
<1>7. IsInjective(s) => IsInjective(r)
  BY <1>4, <1>6 DEF IsInjective
<1> QED BY <1>1, <1>5, <1>7 DEF r

\* A part of a sequence keeps the order of what it keeps.
LEMMA AmongOrder ==
  ASSUME NEW A, NEW S, NEW s \in Seq(A), IsInjective(s), NEW R,
         \A i, j \in DOMAIN s : <<s[j], s[i]>> \in R => j < i
  PROVE  \A i, j \in DOMAIN Among(s, S) :
           <<Among(s, S)[j], Among(s, S)[i]>> \in R => j < i
<1> DEFINE r == Among(s, S)
<1>1. r \in Seq(A) /\ \E f : Picks(f, s, S)
  BY AmongPicks
<1>2. PICK f : Picks(f, s, S)
  BY <1>1
<1>3. /\ f \in [1..Len(r) -> 1..Len(s)]
      /\ \A i, j \in 1..Len(r) : i < j => f[i] < f[j]
      /\ \A i \in 1..Len(r) : r[i] = s[f[i]] /\ r[i] \in S
  BY <1>2 DEF Picks
<1>4. DOMAIN r = 1..Len(r) /\ DOMAIN s = 1..Len(s) /\ Len(r) \in Nat /\ Len(s) \in Nat
  BY <1>1
<1> HIDE DEF r
<1>5. ASSUME NEW i \in 1..Len(r), NEW j \in 1..Len(r), <<r[j], r[i]>> \in R
      PROVE j < i
  <2>1. f[i] \in 1..Len(s) /\ f[j] \in 1..Len(s) /\ r[i] = s[f[i]] /\ r[j] = s[f[j]]
    BY <1>3
  <2>2. f[j] < f[i]
    BY <2>1, <1>4, <1>5
  <2>3. ~(i < j) /\ i # j
    BY <2>1, <2>2, <1>3
  <2> QED BY <2>3, <1>4
<1> QED BY <1>4, <1>5 DEF r

----------------------------------------------------------------------------
(* The depth-first sort.                                                   *)

\* What visitNode looks at, of a node of w: NextDependencies of it, while
\* nothing has been visited.
Waits(w, t) == Sources(w, t) \cup DoneWaitsFor(w, t)

\* Some nodes wait for each other.
Circular(w) ==
  \E S \in (SUBSET Nodes) \ {{}} : \A t \in S : \E s \in S : s \in Waits(w, t)

\* The nodes s lists are distinct, and what a node waits for is before it.
Before(w, s) ==
  /\ IsInjective(s)
  /\ \A i, j \in DOMAIN s : s[j] \in Waits(w, s[i]) => j < i

\* What is known of the marks: the calls under way are distinct and each but
\* the first is of a dependency of the one before; the nodes returned from
\* are distinct, and each is after all it waits for.
Marks(w, p, s) ==
  /\ p \in Seq(Nodes) /\ s \in Seq(Nodes)
  /\ IsInjective(p) /\ IsInjective(s)
  /\ ToSet(p) \cap ToSet(s) = {}
  /\ \A k \in 1..Len(p) : k + 1 \in 1..Len(p) => p[k + 1] \in Waits(w, p[k])
  /\ \A i \in 1..Len(s) : \A d \in Waits(w, s[i]) :
       \E j \in 1..Len(s) : j < i /\ s[j] = d

LEMMA InSeq ==
  ASSUME NEW A, NEW s \in Seq(A)
  PROVE  ToSet(s) = {s[i] : i \in 1..Len(s)} /\ DOMAIN s = 1..Len(s) /\ Len(s) \in Nat
BY DEF ToSet

\* A new element at the end.
LEMMA InjectiveAppend ==
  ASSUME NEW A, NEW s \in Seq(A), NEW e \in A, IsInjective(s), e \notin ToSet(s)
  PROVE  /\ Append(s, e) \in Seq(A)
         /\ IsInjective(Append(s, e))
         /\ ToSet(Append(s, e)) = ToSet(s) \cup {e}
<1> DEFINE t == Append(s, e)
<1>1. /\ t \in Seq(A) /\ Len(t) = Len(s) + 1 /\ t[Len(s) + 1] = e /\ Len(s) \in Nat
      /\ DOMAIN t = 1..Len(s) + 1 /\ DOMAIN s = 1..Len(s)
      /\ \A i \in 1..Len(s) : t[i] = s[i]
  OBVIOUS
<1> HIDE DEF t
<1>2. ToSet(t) = {t[i] : i \in 1..Len(s) + 1} /\ ToSet(s) = {s[i] : i \in 1..Len(s)}
  BY <1>1 DEF ToSet
<1>3. 1..Len(s) + 1 = 1..Len(s) \cup {Len(s) + 1}
  BY <1>1
<1>4. \A i \in 1..Len(s) : s[i] # e
  BY <1>2
<1>5. ASSUME NEW i \in 1..Len(s) + 1, NEW j \in 1..Len(s) + 1, t[i] = t[j] PROVE i = j
  <2>1. CASE i \in 1..Len(s) /\ j \in 1..Len(s)
    BY <2>1, <1>1, <1>5 DEF IsInjective
  <2>2. CASE i = Len(s) + 1 \/ j = Len(s) + 1
    BY <2>2, <1>1, <1>3, <1>4, <1>5
  <2> QED BY <2>1, <2>2, <1>3
<1>6. IsInjective(t)
  BY <1>1, <1>5 DEF IsInjective
<1>7. ToSet(t) = ToSet(s) \cup {e}
  BY <1>1, <1>2, <1>3
<1> QED BY <1>1, <1>6, <1>7 DEF t

LEMMA FrontOf ==
  ASSUME NEW A, NEW s \in Seq(A), s # <<>>
  PROVE  /\ Front(s) \in Seq(A) /\ Len(Front(s)) = Len(s) - 1
         /\ \A k \in 1..Len(s) - 1 : Front(s)[k] = s[k]
<1> DEFINE n == Len(s) - 1
           r == SubSeq(s, 1, n)
<1>1. n \in Nat /\ Len(s) = n + 1
  BY EmptySeq
<1>2. Front(s) = r
  BY DEF Front
<1> HIDE DEF n
<1>3. r \in Seq(A) /\ Len(r) = n /\ \A k \in 1..n : r[k] = s[k]
  BY <1>1
<1> HIDE DEF r
<1>4. Len(s) - 1 = n
  BY <1>1
<1> QED BY <1>2, <1>3, <1>4

LEMMA NextAreWaits ==
  ASSUME NEW w, NEW n
  PROVE  /\ NextDependencies(w, n) \subseteq Waits(w, n) \ Visited
         /\ NextDependencies(w, n) = {} => Waits(w, n) \subseteq Visited
BY DEF NextDependencies, Waits

LEMMA WaitsInNodes ==
  ASSUME NEW w \in Graphs, NEW n \in Nodes
  PROVE  Waits(w, n) \subseteq Nodes
<1>1. \A l : Descendants(w, l, ProcessBranch) \subseteq Nodes
  BY DEF Descendants, ReachableFrom
<1>2. \A l : Anchor(w, l) \subseteq Nodes
  BY <1>1 DEF Anchor
<1> QED BY <1>2 DEF Waits, Sources, DoneWaitsFor

\* visitNode keeps what is known of the marks.
LEMMA VisitKeepsMarks ==
  ASSUME NEW w \in Graphs, Marks(w, path, sorted), Visit(w)
  PROVE  Marks(w, path', sorted')
<1>1. /\ path \in Seq(Nodes) /\ sorted \in Seq(Nodes)
      /\ IsInjective(path) /\ IsInjective(sorted)
      /\ ToSet(path) \cap ToSet(sorted) = {}
      /\ \A k \in 1..Len(path) : k + 1 \in 1..Len(path) =>
                                   path[k + 1] \in Waits(w, path[k])
      /\ \A i \in 1..Len(sorted) : \A d \in Waits(w, sorted[i]) :
           \E j \in 1..Len(sorted) : j < i /\ sorted[j] = d
  BY DEF Marks
<1>2. ASSUME NEW n \in Nodes, VisitNext(w, n) PROVE Marks(w, path', sorted')
  <2>1. path' = <<n>> /\ sorted' = sorted /\ n \notin ToSet(sorted)
    BY <1>2 DEF VisitNext, Visited
  <2>2. /\ <<n>> \in Seq(Nodes) /\ Len(<<n>>) = 1 /\ <<n>>[1] = n
        /\ DOMAIN <<n>> = {1} /\ IsInjective(<<n>>) /\ ToSet(<<n>>) = {n}
        /\ \A k \in 1..Len(<<n>>) : k + 1 \notin 1..Len(<<n>>)
    BY DEF IsInjective, ToSet
  <2> QED BY <1>1, <2>1, <2>2 DEF Marks
<1>3. ASSUME NEW n \in Nodes, VisitDependency(w, n) PROVE Marks(w, path', sorted')
  <2>1. /\ path # <<>> /\ path' = Append(path, n) /\ sorted' = sorted
        /\ n \in NextDependencies(w, Last(path)) /\ n \notin ToSet(path)
    BY <1>3 DEF VisitDependency
  <2>2. n \in Waits(w, Last(path)) /\ n \notin ToSet(sorted)
    BY <2>1, NextAreWaits DEF Visited
  <2>3. Last(path) = path[Len(path)] /\ Len(path) \in Nat /\ Len(path) # 0
    BY <1>1, <2>1, EmptySeq DEF Last
  <2>4. /\ path' \in Seq(Nodes) /\ IsInjective(path')
        /\ ToSet(path') = ToSet(path) \cup {n}
    BY <1>1, <2>1, InjectiveAppend
  <2>5. Len(path') = Len(path) + 1 /\ path'[Len(path) + 1] = n
          /\ \A k \in 1..Len(path) : path'[k] = path[k]
    BY <1>1, <2>1
  <2>6. ASSUME NEW k \in 1..Len(path'), k + 1 \in 1..Len(path')
        PROVE path'[k + 1] \in Waits(w, path'[k])
    <3>1. CASE k = Len(path)
      BY <3>1, <2>2, <2>3, <2>5
    <3>2. CASE k # Len(path)
      <4>1. k \in 1..Len(path) /\ k + 1 \in 1..Len(path)
        BY <3>2, <2>3, <2>5, <2>6
      <4> QED BY <4>1, <2>5, <1>1
    <3> QED BY <3>1, <3>2
  <2> QED BY <1>1, <2>1, <2>2, <2>4, <2>6 DEF Marks
<1>4. ASSUME ReturnVisited(w) PROVE Marks(w, path', sorted')
  <2> DEFINE n == Last(path)
             l == Len(path)
  <2>1. /\ path # <<>> /\ sorted' = Append(sorted, n) /\ path' = Front(path)
        /\ Waits(w, n) \subseteq ToSet(sorted)
    BY <1>4, NextAreWaits DEF ReturnVisited, Visited
  <2>2. n = path[l] /\ l \in Nat /\ l # 0 /\ l \in 1..l /\ n \in Nodes
    BY <1>1, <2>1, EmptySeq DEF Last
  <2>3. path' \in Seq(Nodes) /\ Len(path') = l - 1 /\ \A k \in 1..l - 1 : path'[k] = path[k]
    BY <1>1, <2>1, FrontOf
  <2>4. DOMAIN path = 1..l /\ DOMAIN path' = 1..l - 1
    BY <1>1, <2>3
  <2>5. ToSet(path) = {path[k] : k \in 1..l} /\ ToSet(path') = {path[k] : k \in 1..l - 1}
    BY <2>3, <2>4 DEF ToSet
  <2>6. IsInjective(path') /\ n \notin ToSet(path') /\ n \in ToSet(path)
        /\ ToSet(path') \subseteq ToSet(path)
    <3>1. \A i, j \in 1..l : path[i] = path[j] => i = j
      BY <1>1, <2>4 DEF IsInjective
    <3>2. IsInjective(path')
      BY <3>1, <2>2, <2>3, <2>4 DEF IsInjective
    <3> QED BY <3>1, <3>2, <2>2, <2>5
  <2> HIDE DEF n, l
  <2>7. /\ sorted' \in Seq(Nodes) /\ IsInjective(sorted')
        /\ ToSet(sorted') = ToSet(sorted) \cup {n}
    BY <1>1, <2>1, <2>2, <2>6, InjectiveAppend
  <2>8. ASSUME NEW k \in 1..Len(path'), k + 1 \in 1..Len(path')
        PROVE  path'[k + 1] \in Waits(w, path'[k])
    BY <1>1, <2>2, <2>3, <2>8 DEF l
  <2>9. ASSUME NEW i \in 1..Len(sorted'), NEW d \in Waits(w, sorted'[i])
        PROVE \E j \in 1..Len(sorted') : j < i /\ sorted'[j] = d
    <3>1. /\ Len(sorted') = Len(sorted) + 1 /\ sorted'[Len(sorted) + 1] = n
          /\ \A k \in 1..Len(sorted) : sorted'[k] = sorted[k]
          /\ Len(sorted) \in Nat
      BY <1>1, <2>1, <2>2
    <3>2. CASE i = Len(sorted) + 1
      <4>1. d \in ToSet(sorted)
        BY <3>1, <3>2, <2>1, <2>9
      <4>2. PICK j \in 1..Len(sorted) : sorted[j] = d
        BY <1>1, <4>1, InSeq
      <4> QED BY <3>1, <3>2, <4>2
    <3>3. CASE i # Len(sorted) + 1
      <4>1. i \in 1..Len(sorted) /\ d \in Waits(w, sorted[i])
        BY <3>1, <3>3, <2>9
      <4>2. PICK j \in 1..Len(sorted) : j < i /\ sorted[j] = d
        BY <1>1, <4>1
      <4> QED BY <3>1, <4>2
    <3> QED BY <3>2, <3>3
  <2>10. ToSet(path') \cap ToSet(sorted') = {}
    BY <1>1, <2>6, <2>7
  <2> QED BY <2>3, <2>6, <2>7, <2>8, <2>9, <2>10 DEF Marks
<1> QED BY <1>2, <1>3, <1>4 DEF Visit

\* A call that meets its own temporary mark has met a cycle.
LEMMA CycleIsCircular ==
  ASSUME NEW w \in Graphs, Marks(w, path, sorted), CycleFound(w)
  PROVE  Circular(w)
<1> DEFINE l == Len(path)
<1>1. /\ path \in Seq(Nodes) /\ path # <<>> /\ l \in Nat /\ l # 0 /\ Last(path) = path[l]
      /\ \A k \in 1..l : k + 1 \in 1..l => path[k + 1] \in Waits(w, path[k])
  BY EmptySeq DEF Marks, CycleFound, Last
<1>2. PICK d \in NextDependencies(w, Last(path)) : d \in ToSet(path)
  BY DEF CycleFound
<1>3. PICK k \in 1..l : path[k] = d
  BY <1>1, <1>2, InSeq
<1> DEFINE S == {path[i] : i \in k..l}
<1>4. S \in (SUBSET Nodes) \ {{}}
  <2>1. k \in k..l /\ \A i \in k..l : i \in 1..l
    BY <1>1
  <2>2. \A i \in 1..l : path[i] \in Nodes
    BY <1>1
  <2> QED BY <2>1, <2>2
<1>5. ASSUME NEW t \in S PROVE \E s \in S : s \in Waits(w, t)
  <2>1. PICK i \in k..l : t = path[i]
    OBVIOUS
  <2>2. CASE i = l
    <3>1. d \in Waits(w, t)
      BY <1>1, <1>2, <2>1, <2>2, NextAreWaits
    <3>2. d \in S
      <4>1. k \in k..l
        BY <1>1
      <4> QED BY <1>3, <4>1
    <3> QED BY <3>1, <3>2
  <2>3. CASE i # l
    <3>1. i \in 1..l /\ i + 1 \in 1..l /\ i + 1 \in k..l
      BY <1>1, <2>3
    <3>2. path[i + 1] \in Waits(w, t) /\ path[i + 1] \in S
      BY <1>1, <2>1, <3>1
    <3> QED BY <3>2
  <2> QED BY <2>2, <2>3
<1> HIDE DEF S
<1> QED BY <1>4, <1>5 DEF Circular

\* An order of all the nodes is one in which no nodes wait for each other.
LEMMA OrderIsNotCircular ==
  ASSUME NEW w \in Graphs, NEW p, NEW s, Marks(w, p, s), ToSet(s) = Nodes
  PROVE  ~Circular(w) /\ Before(w, s)
<1>1. /\ s \in Seq(Nodes) /\ IsInjective(s) /\ DOMAIN s = 1..Len(s) /\ Len(s) \in Nat
      /\ \A i \in 1..Len(s) : \A d \in Waits(w, s[i]) :
           \E j \in 1..Len(s) : j < i /\ s[j] = d
      /\ Nodes = {s[i] : i \in 1..Len(s)}
  BY DEF Marks, ToSet
<1>2. ASSUME Circular(w) PROVE FALSE
  <2>1. PICK S \in (SUBSET Nodes) \ {{}} : \A t \in S : \E d \in S : d \in Waits(w, t)
    BY <1>2 DEF Circular
  <2> DEFINE F == {i \in 1..Len(s) : s[i] \in S}
  <2>2. PICK m \in F : \A k \in F : m <= k
    <3>1. F \in SUBSET Nat
      BY <1>1
    <3>2. PICK t \in S : t \in Nodes
      BY <2>1
    <3>3. PICK i \in 1..Len(s) : s[i] = t
      BY <1>1, <3>2
    <3>4. i \in F
      BY <3>2, <3>3
    <3> HIDE DEF F
    <3> QED BY <3>1, <3>4, LeastNumber
  <2>3. PICK d \in S : d \in Waits(w, s[m])
    BY <2>1, <2>2
  <2>4. PICK j \in 1..Len(s) : j < m /\ s[j] = d
    BY <1>1, <2>2, <2>3
  <2>5. j \in F
    BY <2>3, <2>4
  <2> QED BY <1>1, <2>2, <2>4, <2>5
<1>3. ASSUME NEW i \in 1..Len(s), NEW j \in 1..Len(s), s[j] \in Waits(w, s[i])
      PROVE  j < i
  <2>1. PICK k \in 1..Len(s) : k < i /\ s[k] = s[j]
    BY <1>1, <1>3
  <2>2. k = j
    BY <1>1, <2>1 DEF IsInjective
  <2> QED BY <2>1, <2>2
<1> QED BY <1>1, <1>2, <1>3 DEF Before

----------------------------------------------------------------------------
(* FlattenSeq.                                                             *)

FlatBy(f, ss) ==
  f = [i \in 1..Len(ss) |-> IF i = 1 THEN ss[i] ELSE f[i - 1] \o ss[i]]

LEMMA FlatStep ==
  ASSUME NEW ss, NEW f, FlatBy(f, ss), Len(ss) \in Nat
  PROVE  \A i \in 1..Len(ss) : f[i] = IF i = 1 THEN ss[i] ELSE f[i - 1] \o ss[i]
<1> DEFINE e(i) == IF i = 1 THEN ss[i] ELSE f[i - 1] \o ss[i]
<1>1. f = [i \in 1..Len(ss) |-> e(i)]
  BY DEF FlatBy
<1> HIDE DEF e
<1>2. \A i \in 1..Len(ss) : f[i] = e(i)
  BY <1>1, Zenon
<1> QED BY <1>2 DEF e

LEMMA FlatExists ==
  ASSUME NEW A
  PROVE  \A ss \in Seq(A) : \E f : FlatBy(f, ss)
<1> DEFINE P == {ss \in Seq(A) : \E f : FlatBy(f, ss)}
<1>1. <<>> \in P
  <2>1. FlatBy([i \in 1..0 |-> <<>>], <<>>)
    BY DEF FlatBy
  <2> QED BY <2>1
<1>2. ASSUME NEW s \in Seq(A), NEW e \in A, s \in P PROVE Append(s, e) \in P
  <2> DEFINE t == Append(s, e)
             n == Len(s)
  <2>1. PICK f : FlatBy(f, s)
    BY <1>2
  <2>2. t \in Seq(A) /\ Len(t) = n + 1 /\ n \in Nat /\ \A i \in 1..n : t[i] = s[i]
    OBVIOUS
  <2> DEFINE g == [i \in 1..n + 1 |->
                     IF i <= n THEN f[i]
                     ELSE IF i = 1 THEN t[i] ELSE f[n] \o t[i]]
  <2>3. \A i \in 1..n : g[i] = f[i]
    BY <2>2
  <2>4. ASSUME NEW i \in 1..n + 1
        PROVE  g[i] = IF i = 1 THEN t[i] ELSE g[i - 1] \o t[i]
    <3>2. CASE i \in 1..n
      <4>1. g[i] = f[i] /\ t[i] = s[i]
        BY <3>2, <2>2, <2>3
      <4>2. f[i] = IF i = 1 THEN s[i] ELSE f[i - 1] \o s[i]
        BY <3>2, <2>1, <2>2, FlatStep
      <4>3. i # 1 => g[i - 1] = f[i - 1]
        BY <3>2, <2>2, <2>3
      <4> QED BY <4>1, <4>2, <4>3
    <3>3. CASE i = n + 1
      <4>1. g[i] = IF i = 1 THEN t[i] ELSE f[n] \o t[i]
        BY <3>3, <2>2
      <4>2. i # 1 => g[i - 1] = f[n]
        BY <3>3, <2>2, <2>3
      <4> QED BY <4>1, <4>2
    <3> QED BY <3>2, <3>3, <2>2
  <2>5. g = [i \in 1..Len(t) |-> g[i]]
    BY <2>2
  <2>6. FlatBy(g, t)
    <3> HIDE DEF g, t
    <3> QED BY <2>2, <2>4, <2>5 DEF FlatBy
  <2> QED BY <2>2, <2>6
<1> HIDE DEF P
<1>3. \A s \in Seq(A) : s \in P
  BY <1>1, <1>2, SeqInduction
<1> QED BY <1>3 DEF P

LEMMA FlatUnique ==
  ASSUME NEW A, NEW s \in Seq(A), NEW t \in Seq(A), NEW f, NEW g,
         FlatBy(f, s), FlatBy(g, t),
         Len(s) <= Len(t), \A i \in 1..Len(s) : s[i] = t[i]
  PROVE  \A i \in 1..Len(s) : f[i] = g[i]
<1> DEFINE T == {i \in Nat : i \in 1..Len(s) => f[i] = g[i]}
<1>1. 0 \in T
  OBVIOUS
<1>2. ASSUME NEW n \in Nat, n \in T PROVE n + 1 \in T
  <2> SUFFICES ASSUME n + 1 \in 1..Len(s) PROVE f[n + 1] = g[n + 1]
    OBVIOUS
  <2>1. n + 1 \in 1..Len(t) /\ (n + 1) - 1 = n /\ Len(s) \in Nat /\ Len(t) \in Nat
    OBVIOUS
  <2>2. f[n + 1] = IF n + 1 = 1 THEN s[n + 1] ELSE f[n] \o s[n + 1]
    BY <2>1, FlatStep
  <2>3. g[n + 1] = IF n + 1 = 1 THEN t[n + 1] ELSE g[n] \o t[n + 1]
    BY <2>1, FlatStep
  <2>4. n + 1 # 1 => f[n] = g[n]
    BY <1>2, <2>1
  <2> QED BY <2>2, <2>3, <2>4
<1>3. \A n \in Nat : n \in T
  <2> HIDE DEF T
  <2> QED BY <1>1, <1>2, SetInduction
<1> QED BY <1>3

LEMMA FlattenIsFlat ==
  ASSUME NEW A, NEW ss \in Seq(A), ss # <<>>, NEW f, FlatBy(f, ss)
  PROVE  FlattenSeq(ss) = f[Len(ss)]
<1> DEFINE k == CHOOSE k : FlatBy(k, ss)
<1>1. FlatBy(k, ss)
  <2> HIDE DEF FlatBy
  <2> QED BY Zenon
<1>2. Len(ss) # 0 /\ Len(ss) \in 1..Len(ss)
  BY EmptySeq
<1>3. FlattenSeq(ss) = k[Len(ss)]
  BY <1>2, Zenon DEF FlattenSeq, FlatBy
<1> HIDE DEF k
<1>4. \A i \in 1..Len(ss) : k[i] = f[i]
  BY <1>1, FlatUnique
<1> QED BY <1>2, <1>3, <1>4

LEMMA FlattenNone == FlattenSeq(<<>>) = <<>>
BY DEF FlattenSeq

LEMMA FlattenStep ==
  ASSUME NEW A, NEW ss \in Seq(A), NEW s \in A
  PROVE  FlattenSeq(Append(ss, s)) = IF ss = <<>> THEN s ELSE FlattenSeq(ss) \o s
<1> DEFINE t == Append(ss, s)
           n == Len(ss)
<1>1. /\ t \in Seq(A) /\ Len(t) = n + 1 /\ t[n + 1] = s /\ n \in Nat
      /\ \A i \in 1..n : t[i] = ss[i]
  OBVIOUS
<1>2. PICK f : FlatBy(f, ss)
  BY FlatExists
<1>3. PICK g : FlatBy(g, t)
  BY <1>1, FlatExists
<1>4. t # <<>>
  <2>1. Len(t) # 0
    BY <1>1
  <2> QED BY <2>1, <1>1, EmptySeq
<1>5. Append(ss, s) = t
  OBVIOUS
<1> HIDE DEF t
<1>6. FlattenSeq(t) = g[n + 1]
  BY <1>1, <1>3, <1>4, FlattenIsFlat
<1>7. g[n + 1] = IF n + 1 = 1 THEN t[n + 1] ELSE g[n] \o t[n + 1]
  <2>1. n + 1 \in 1..Len(t) /\ (n + 1) - 1 = n
    BY <1>1
  <2> QED BY <1>1, <1>3, <2>1, FlatStep
<1>8. CASE ss = <<>>
  <2>1. n = 0
    BY <1>8
  <2> HIDE DEF n
  <2> QED BY <1>1, <1>5, <1>6, <1>7, <1>8, <2>1
<1>9. CASE ss # <<>>
  <2>1. n # 0 /\ n \in 1..n /\ n + 1 # 1
    BY <1>9, EmptySeq
  <2>2. FlattenSeq(ss) = f[n]
    BY <1>2, <1>9, FlattenIsFlat
  <2>3. f[n] = g[n]
    <3>1. \A i \in 1..Len(ss) : f[i] = g[i]
      <4>1. Len(ss) <= Len(t) /\ \A i \in 1..Len(ss) : ss[i] = t[i]
        BY <1>1
      <4> QED BY <4>1, <1>1, <1>2, <1>3, FlatUnique
    <3> QED BY <2>1, <3>1
  <2> HIDE DEF n
  <2> QED BY <1>1, <1>5, <1>6, <1>7, <1>9, <2>1, <2>2, <2>3
<1> QED BY <1>8, <1>9

LEMMA FlattenAppend ==
  ASSUME NEW A, NEW ss \in Seq(Seq(A)), NEW s \in Seq(A)
  PROVE  FlattenSeq(Append(ss, s)) = FlattenSeq(ss) \o s
<1>1. FlattenSeq(Append(ss, s)) = IF ss = <<>> THEN s ELSE FlattenSeq(ss) \o s
  BY FlattenStep
<1>2. <<>> \o s = s
  OBVIOUS
<1> QED BY <1>1, <1>2, FlattenNone

LEMMA FlattenType ==
  ASSUME NEW A
  PROVE  \A ss \in Seq(Seq(A)) : FlattenSeq(ss) \in Seq(A)
<1> DEFINE T == {ss \in Seq(Seq(A)) : FlattenSeq(ss) \in Seq(A)}
<1>1. <<>> \in T
  <2>1. <<>> \in Seq(A) /\ <<>> \in Seq(Seq(A))
    OBVIOUS
  <2>2. FlattenSeq(<<>>) \in Seq(A)
    BY <2>1, FlattenNone, Zenon
  <2> QED BY <2>1, <2>2
<1>2. ASSUME NEW ss \in Seq(Seq(A)), NEW s \in Seq(A), ss \in T
      PROVE  Append(ss, s) \in T
  <2>1. FlattenSeq(ss) \in Seq(A) /\ FlattenSeq(Append(ss, s)) = FlattenSeq(ss) \o s
    BY <1>2, FlattenAppend
  <2>2. FlattenSeq(ss) \o s \in Seq(A)
    BY <2>1
  <2>3. Append(ss, s) \in Seq(Seq(A))
    OBVIOUS
  <2> QED BY <2>1, <2>2, <2>3
<1> HIDE DEF T
<1>3. \A ss \in Seq(Seq(A)) : ss \in T
  BY <1>1, <1>2, SeqInduction
<1> QED BY <1>3 DEF T

LEMMA FlattenOne ==
  ASSUME NEW A, NEW s \in Seq(A)
  PROVE  FlattenSeq(<<s>>) = s
<1>1. <<>> \in Seq(Seq(A)) /\ <<s>> = Append(<<>>, s) /\ <<>> \o s = s
  OBVIOUS
<1>2. FlattenSeq(<<s>>) = FlattenSeq(<<>>) \o s
  <2>1. FlattenSeq(Append(<<>>, s)) = FlattenSeq(<<>>) \o s
    BY <1>1, FlattenAppend
  <2> QED BY <1>1, <2>1
<1> QED BY <1>1, <1>2, FlattenNone

----------------------------------------------------------------------------
(* The data is of its type.                                                *)

Elements == [item : Items, tag : Nat]

LEMMA GraphFacts ==
  ASSUME NEW w \in Graphs, NEW n \in Nodes
  PROVE  /\ w.main[n] \in Seq(Seq(Nodes))
         /\ Branches(w, n) = 1..Len(w.main[n]) /\ Len(w.main[n]) \in Nat
         /\ \A b \in Branches(w, n) :
              /\ w.main[n][b] \in Seq(Nodes)
              /\ Targets(w, n, b) = ToSet(w.main[n][b])
         /\ \A b : Targets(w, n, b) \subseteq Nodes
         /\ Successors(w, n) \subseteq Nodes
<1>1. w.main[n] \in Seq(Seq(Nodes))
  BY DEF Graphs
<1>2. Branches(w, n) = 1..Len(w.main[n]) /\ Len(w.main[n]) \in Nat
  BY <1>1 DEF Branches
<1>3. \A b \in Branches(w, n) : w.main[n][b] \in Seq(Nodes)
  BY <1>1, <1>2
<1>4. \A b \in Branches(w, n) : Targets(w, n, b) = ToSet(w.main[n][b])
  BY DEF Targets
<1>5. ASSUME NEW b PROVE Targets(w, n, b) \subseteq Nodes
  <2>1. CASE b \in Branches(w, n)
    <3>1. ToSet(w.main[n][b]) = {w.main[n][b][i] : i \in 1..Len(w.main[n][b])}
      BY <2>1, <1>3, InSeq
    <3>2. \A i \in 1..Len(w.main[n][b]) : w.main[n][b][i] \in Nodes
      BY <2>1, <1>3
    <3> QED BY <2>1, <1>4, <3>1, <3>2
  <2>2. CASE b \notin Branches(w, n)
    BY <2>2 DEF Targets
  <2> QED BY <2>1, <2>2
<1>6. Successors(w, n) \subseteq Nodes
  BY <1>5 DEF Successors
<1> QED BY <1>1, <1>2, <1>3, <1>4, <1>5, <1>6

LEMMA UntagType ==
  ASSUME NEW out \in Seq(Elements)
  PROVE  /\ Untag(out) \in Seq(Items)
         /\ DOMAIN Untag(out) = DOMAIN out
         /\ \A i \in DOMAIN out : Untag(out)[i] = out[i].item
<1>1. /\ DOMAIN out = 1..Len(out) /\ Len(out) \in Nat
      /\ \A i \in 1..Len(out) : out[i].item \in Items
  <2>1. \A e \in Elements : e.item \in Items
    BY DEF Elements
  <2> HIDE DEF Elements
  <2>2. \A i \in 1..Len(out) : out[i] \in Elements
    OBVIOUS
  <2> QED BY <2>1, <2>2
<1>2. Untag(out) = [i \in 1..Len(out) |-> out[i].item]
  BY <1>1 DEF Untag
<1> QED BY <1>1, <1>2

LEMMA PlainType ==
  ASSUME NEW s \in Seq(Items)
  PROVE  /\ Plain(s) \in Seq(Elements)
         /\ Untag(Plain(s)) = s
         /\ \A i \in DOMAIN Plain(s) : Plain(s)[i].tag = 0
<1>1. /\ DOMAIN s = 1..Len(s) /\ Len(s) \in Nat
      /\ \A i \in 1..Len(s) : s[i] \in Items
  OBVIOUS
<1>2. Plain(s) = [i \in 1..Len(s) |-> [item |-> s[i], tag |-> 0]]
  BY <1>1 DEF Plain
<1>3. \A i \in 1..Len(s) : [item |-> s[i], tag |-> 0] \in Elements
  BY <1>1 DEF Elements
<1>4. Plain(s) \in Seq(Elements) /\ DOMAIN Plain(s) = 1..Len(s)
  BY <1>1, <1>2, <1>3
<1>5. \A i \in 1..Len(s) : Plain(s)[i] = [item |-> s[i], tag |-> 0]
  BY <1>2
<1>6. Untag(Plain(s)) = [i \in 1..Len(s) |-> s[i]]
  <2> DEFINE r == Plain(s)
  <2> HIDE DEF r
  <2>2. Untag(r) = [i \in DOMAIN r |-> r[i].item]
    BY DEF Untag
  <2>1. Untag(Plain(s)) = [i \in 1..Len(s) |-> Plain(s)[i].item]
    BY <1>4, <2>2 DEF r
  <2>3. \A i \in 1..Len(s) : Plain(s)[i].item = s[i]
    <3>1. \A i \in 1..Len(s) : [item |-> s[i], tag |-> 0].item = s[i]
      OBVIOUS
    <3> QED BY <3>1, <1>5
  <2> HIDE DEF r
  <2> DEFINE q == Plain(s)
  <2>4. \A i \in 1..Len(s) : q[i].item = s[i]
    BY <2>3
  <2>5. Untag(q) = [i \in 1..Len(s) |-> q[i].item]
    BY <2>1
  <2> HIDE DEF q
  <2>6. Untag(q) = [i \in 1..Len(s) |-> s[i]]
    BY <2>4, <2>5
  <2> QED BY <2>6 DEF q
<1>7. s = [i \in 1..Len(s) |-> s[i]]
  BY <1>1
<1> QED BY <1>4, <1>5, <1>6, <1>7

LEMMA BranchItemsType ==
  ASSUME NEW w, NEW n, NEW b, NEW out \in Seq(Elements)
  PROVE  BranchItems(w, n, out, b) \in Seq(Elements)
<1>1. \A S : Among(out, S) \in Seq(Elements)
  BY AmongType
<1> HIDE DEF Elements
<1> QED BY <1>1 DEF BranchItems, Tagged

\* What branch b of n carries to t, connection by connection; and all of it.
ByConnection(w, n, out, b, t) ==
  [c \in DOMAIN w.main[n][b] |->
     IF w.main[n][b][c] = t THEN Untag(BranchItems(w, n, out, b)) ELSE <<>>]
ByBranch(w, n, out, t) ==
  [b \in Branches(w, n) |-> FlattenSeq(ByConnection(w, n, out, b, t))]

LEMMA RouteIsByBranch ==
  ASSUME NEW w, NEW n, NEW out
  PROVE  RouteData(w, n, out) = [t \in Nodes |-> FlattenSeq(ByBranch(w, n, out, t))]
BY Zenon DEF RouteData, ByBranch, ByConnection

LEMMA RouteType ==
  ASSUME NEW w \in Graphs, NEW n \in Nodes, NEW out \in Seq(Elements)
  PROVE  /\ RouteData(w, n, out) \in [Nodes -> Seq(Items)]
         /\ \A t : /\ ByBranch(w, n, out, t) \in Seq(Seq(Items))
                   /\ \A b \in Branches(w, n) :
                        ByConnection(w, n, out, b, t) \in Seq(Seq(Items))
<1>1. ASSUME NEW b \in Branches(w, n), NEW t
      PROVE  ByConnection(w, n, out, b, t) \in Seq(Seq(Items))
  <2>1. Untag(BranchItems(w, n, out, b)) \in Seq(Items)
    BY BranchItemsType, UntagType
  <2>2. w.main[n][b] \in Seq(Nodes)
    BY GraphFacts
  <2>3. DOMAIN w.main[n][b] = 1..Len(w.main[n][b]) /\ Len(w.main[n][b]) \in Nat
    BY <2>2
  <2>4. <<>> \in Seq(Items)
    OBVIOUS
  <2> QED BY <2>1, <2>3, <2>4 DEF ByConnection
<1>2. ASSUME NEW t PROVE ByBranch(w, n, out, t) \in Seq(Seq(Items))
  <2>1. \A b \in Branches(w, n) : FlattenSeq(ByConnection(w, n, out, b, t)) \in Seq(Items)
    BY <1>1, FlattenType
  <2>2. Branches(w, n) = 1..Len(w.main[n]) /\ Len(w.main[n]) \in Nat
    BY GraphFacts
  <2> QED BY <2>1, <2>2 DEF ByBranch
<1>3. ASSUME NEW t PROVE FlattenSeq(ByBranch(w, n, out, t)) \in Seq(Items)
  BY <1>2, FlattenType
<1> QED BY <1>1, <1>2, <1>3, RouteIsByBranch

\* If, guards and switches put a tag on every item, other nodes on none.
TagsItems(n) == wf.kind[n] \in {"if", "guard", "switch"}
WithTag == [item : Items, tag : 1..MaxRule]

LEMMA SeqOfPart ==
  ASSUME NEW A, NEW B, A \subseteq B
  PROVE  Seq(A) \subseteq Seq(B)
<1> SUFFICES ASSUME NEW s \in Seq(A) PROVE s \in Seq(B)
  OBVIOUS
<1>1. Len(s) \in Nat /\ DOMAIN s = 1..Len(s) /\ \A i \in 1..Len(s) : s[i] \in B
  OBVIOUS
<1>2. s = [i \in 1..Len(s) |-> s[i]]
  BY <1>1
<1>3. [i \in 1..Len(s) |-> s[i]] \in Seq(B)
  BY <1>1
<1> QED BY <1>2, <1>3

LEMMA SeqParts ==
  ASSUME NEW A, NEW s \in Seq(A)
  PROVE  /\ DOMAIN s = 1..Len(s) /\ Len(s) \in Nat
         /\ \A k \in 1..Len(s) : s[k] \in A
OBVIOUS

LEMMA MatchesType ==
  ASSUME NEW m \in Matches
  PROVE  m \in Seq(1..MaxRule)
<1>1. CASE m \in {<<>>, <<MaxRule>>}
  <2>1. <<>> \in Seq(1..MaxRule) /\ MaxRule \in 1..MaxRule
    BY DEF MaxRule
  <2>2. Append(<<>>, MaxRule) \in Seq(1..MaxRule)
    BY <2>1
  <2>3. Append(<<>>, MaxRule) = <<MaxRule>>
    OBVIOUS
  <2> QED BY <1>1, <2>1, <2>2, <2>3
<1>2. CASE m \notin {<<>>, <<MaxRule>>}
  <2>1. PICK k \in 1..(MaxRule - 1) : \E c \in 1..k : m = [j \in 1..c |-> k]
    BY <1>2 DEF Matches
  <2>2. PICK c \in 1..k : m = [j \in 1..c |-> k]
    BY <2>1
  <2>3. k \in 1..MaxRule /\ c \in Nat
    BY <2>1 DEF MaxRule
  <2> QED BY <2>2, <2>3
<1> QED BY <1>1, <1>2

LEMMA OutputsType ==
  ASSUME NEW n, NEW s \in Seq(Items), NEW out \in Outputs(n, s)
  PROVE  /\ out \in Seq(Elements)
         /\ TagsItems(n) => out \in Seq(WithTag)
         /\ ~TagsItems(n) => out = Plain(s)
<1>1. DOMAIN s = 1..Len(s) /\ Len(s) \in Nat /\ \A i \in 1..Len(s) : s[i] \in Items
  OBVIOUS
<1>2. \A S : \A r \in Seq(WithTag) : Among(r, S) \in Seq(WithTag)
  BY AmongType
<1>3. Seq(WithTag) \subseteq Seq(Elements)
  <2>1. WithTag \subseteq Elements
    BY DEF WithTag, Elements, MaxRule
  <2> QED BY <2>1, SeqOfPart
<1>4. CASE wf.kind[n] \in {"if", "guard"}
  <2>1. PICK side \in [DOMAIN s -> {1, 2}] : \E r :
          /\ r = [i \in DOMAIN s |-> [item |-> s[i], tag |-> side[i]]]
          /\ out = Tagged(r, 1) \o Tagged(r, 2)
    BY <1>4, Zenon DEF Outputs
  <2>3. PICK r : /\ r = [i \in DOMAIN s |-> [item |-> s[i], tag |-> side[i]]]
                 /\ out = Tagged(r, 1) \o Tagged(r, 2)
    BY <2>1
  <2>2. r \in Seq(WithTag)
    <3>2. \A e \in Items, b \in 1..MaxRule : [item |-> e, tag |-> b] \in WithTag
      BY DEF WithTag
    <3>3. \A i \in 1..Len(s) : side[i] \in {1, 2}
      <4> HIDE <2>1
      <4>1. side \in [1..Len(s) -> {1, 2}]
        BY <1>1
      <4> QED BY <4>1
    <3>4. \A b \in {1, 2} : b \in 1..MaxRule
      BY DEF MaxRule
    <3>1. \A i \in 1..Len(s) : [item |-> s[i], tag |-> side[i]] \in WithTag
      BY <1>1, <3>2, <3>3, <3>4
    <3> QED BY <1>1, <2>3, <3>1
  <2>4. \A b : Tagged(r, b) \in Seq(WithTag)
    BY <1>2, <2>2 DEF Tagged
  <2>5. \A q, t \in Seq(WithTag) : q \o t \in Seq(WithTag)
    OBVIOUS
  <2> QED BY <1>3, <1>4, <2>3, <2>4, <2>5 DEF TagsItems
<1>5. CASE wf.kind[n] = "switch"
  <2>1. PICK match \in [DOMAIN s -> Matches] :
          out = FlattenSeq([i \in DOMAIN s |-> Copied(s[i], match[i])])
    BY <1>5, Zenon DEF Outputs
  <2>2. ASSUME NEW i \in 1..Len(s) PROVE Copied(s[i], match[i]) \in Seq(WithTag)
    <3>0. match[i] \in Matches
      BY <1>1, <2>1
    <3>1. match[i] \in Seq(1..MaxRule)
      BY <3>0, MatchesType
    <3> DEFINE tags == match[i]
    <3>2. tags \in Seq(1..MaxRule)
      BY <3>1
    <3> HIDE DEF tags
    <3>3. /\ DOMAIN tags = 1..Len(tags) /\ Len(tags) \in Nat
          /\ \A k \in 1..Len(tags) : tags[k] \in 1..MaxRule
      BY <3>2, SeqParts
    <3>4. \A k \in 1..Len(tags) : [item |-> s[i], tag |-> tags[k]] \in WithTag
      BY <1>1, <3>3 DEF WithTag
    <3>5. Copied(s[i], tags) \in Seq(WithTag)
      BY <3>3, <3>4 DEF Copied
    <3> QED BY <3>5 DEF tags
  <2>3. [i \in DOMAIN s |-> Copied(s[i], match[i])] \in Seq(Seq(WithTag))
    BY <1>1, <2>2
  <2>4. out \in Seq(WithTag)
    BY <2>1, <2>3, FlattenType
  <2> QED BY <1>3, <1>5, <2>4 DEF TagsItems
<1>6. CASE ~TagsItems(n)
  <2>1. out = Plain(s)
    BY <1>6 DEF Outputs, TagsItems
  <2> QED BY <1>6, <2>1, PlainType
<1> QED BY <1>4, <1>5, <1>6 DEF TagsItems

\* A batch is a part of the input, and some input makes some batch.
LEMMA SplitType ==
  ASSUME NEW A, NEW s \in Seq(A)
  PROVE  /\ SplitIntoBatches(s) \in Seq(Seq(A))
         /\ s # <<>> => SplitIntoBatches(s) # <<>>
<1> DEFINE l == Len(s)
           B == BatchSize
           d == (l + B - 1) \div B
<1>1. B \in Nat /\ B >= 1 /\ l \in Nat
  BY NodeRunAssumption
<1>2. d \in Nat
  BY <1>1
<1>3. s # <<>> => d >= 1
  <2>1. s # <<>> => l >= 1
    BY <1>1, EmptySeq
  <2> HIDE DEF l, B
  <2> QED BY <1>1, <2>1
<1> DEFINE part(k) == SubSeq(s, (k - 1) * B + 1, IF k * B < l THEN k * B ELSE l)
<1>4. SplitIntoBatches(s) = [k \in 1..d |-> part(k)]
  BY DEF SplitIntoBatches
<1>5. ASSUME NEW k \in 1..d PROVE part(k) \in Seq(A)
  <2> DEFINE lo == (k - 1) * B + 1
             hi == IF k * B < l THEN k * B ELSE l
  <2>1. lo \in Nat /\ lo >= 1 /\ hi \in Nat /\ hi <= l
    <3> HIDE DEF B, l
    <3> QED BY <1>1, <1>2
  <2> HIDE DEF lo, hi
  <2>2. SubSeq(s, lo, hi) \in Seq(A)
    BY <2>1
  <2> QED BY <2>2 DEF lo, hi
<1> HIDE DEF part, d
<1>6. SplitIntoBatches(s) \in Seq(Seq(A)) /\ Len(SplitIntoBatches(s)) = d
  BY <1>2, <1>4, <1>5
<1> QED BY <1>1, <1>3, <1>6, EmptySeq

----------------------------------------------------------------------------
(* The inductive invariant: the data is of its type, the place of the run  *)
(* is one the state allows, the marks are those of a depth-first sort, and *)
(* the orders come from such a sort.                                       *)

DataOK ==
  /\ results \in [Nodes -> Seq(Items)]
  /\ ran \in [Nodes -> Seq(Seq(Items))]
  /\ outs \in [Nodes -> Seq(Elements)]
  /\ batches \in Seq(Seq(Items)) /\ aggregated \in Seq(Items)
  /\ body \in Seq(Nodes) /\ done \in Seq(Nodes)

PlaceOK ==
  /\ pc \in Sorts => at = 1
  /\ pc \in {"body", "done", "retry"} => at <= Len(order)
  /\ pc = "body" => batches # <<>>
  /\ pc \in {"body", "done"} => Here \in Loops(wf)
  /\ pc = "retry" => Here \in RetryGuards(wf)

OrdersOK ==
  /\ pc = "order" => order = <<>>
  /\ pc # "order" => IF Circular(wf) THEN order = <<>> ELSE ToSet(order) = Nodes
  /\ Before(wf, order) /\ Before(wf, body) /\ Before(wf, done)

IInv == TypeOK /\ DataOK /\ PlaceOK /\ Marks(wf, path, sorted) /\ OrdersOK

LEMMA EmptyBefore ==
  ASSUME NEW w
  PROVE  Before(w, <<>>) /\ Marks(w, <<>>, <<>>)
BY DEF Before, Marks, IsInjective, ToSet

LEMMA InitIInv == Init => IInv
<1> SUFFICES ASSUME Init PROVE IInv
  OBVIOUS
<1>1. /\ wf \in Workflows /\ input \in Inputs /\ path = <<>> /\ sorted = <<>>
      /\ order = <<>> /\ body = <<>> /\ done = <<>>
      /\ results = [n \in Nodes |-> IF n \in Starts(wf) THEN input ELSE <<>>]
      /\ taken = {} /\ pc = "order" /\ at = 1 /\ inner = 1 /\ iteration = 1
      /\ batches = <<>> /\ aggregated = <<>>
      /\ ran = [n \in Nodes |-> <<>>] /\ outs = [n \in Nodes |-> <<>>]
  BY DEF Init, SortInit
<1>2. input \in Seq(Items) /\ 1 \in 1..MaxIterations
  BY <1>1, NodeRunAssumption
<1>3. DataOK
  <2>1. results \in [Nodes -> Seq(Items)]
    BY <1>1, <1>2
  <2> QED BY <1>1, <2>1 DEF DataOK
<1>4. TypeOK
  <2>1. at \in 1..Len(order) + 1
    BY <1>1
  <2> QED BY <1>1, <1>2, <2>1 DEF TypeOK, Places, Sorts
<1>5. PlaceOK
  BY <1>1 DEF PlaceOK
<1>6. OrdersOK
  BY <1>1, EmptyBefore DEF OrdersOK
<1>7. Marks(wf, path, sorted)
  BY <1>1, EmptyBefore
<1> QED BY <1>3, <1>4, <1>5, <1>6, <1>7 DEF IInv

\* What later steps use of the invariant.
LEMMA InGraph ==
  ASSUME TypeOK
  PROVE  /\ wf \in Graphs /\ input \in Seq(Items)
         /\ \A k, l \in Loops(wf) : k = l
BY NodeRunAssumption DEF TypeOK

\* An order that is taken keeps every node behind what it waits for.
LEMMA AmongBefore ==
  ASSUME NEW w \in Graphs, NEW s \in Seq(Nodes), Before(w, s), NEW S
  PROVE  Among(s, S) \in Seq(Nodes) /\ Before(w, Among(s, S))
<1> DEFINE R == {p \in Nodes \X Nodes : p[1] \in Waits(w, p[2])}
           r == Among(s, S)
<1>1. /\ IsInjective(s) /\ DOMAIN s = 1..Len(s)
      /\ \A i, j \in DOMAIN s : s[j] \in Waits(w, s[i]) => j < i
  BY DEF Before
<1>2. \A m, n \in Nodes : <<m, n>> \in R <=> m \in Waits(w, n)
  OBVIOUS
<1> HIDE DEF R
<1>3. \A i \in DOMAIN s : s[i] \in Nodes
  BY <1>1
<1>4. \A i, j \in DOMAIN s : <<s[j], s[i]>> \in R => j < i
  BY <1>1, <1>2, <1>3
<1>5. r \in Seq(Nodes) /\ IsInjective(r)
  BY <1>1, AmongType
<1>6. \A i, j \in DOMAIN r : <<r[j], r[i]>> \in R => j < i
  BY <1>1, <1>4, AmongOrder
<1> HIDE DEF r
<1>7. \A i \in DOMAIN r : r[i] \in Nodes
  BY <1>5
<1>8. Before(w, r)
  BY <1>2, <1>5, <1>6, <1>7 DEF Before
<1> QED BY <1>5, <1>8 DEF r

LEMMA SortStep ==
  ASSUME IInv, Sort \/ Refuse \/ Ordered
  PROVE  IInv'
<1>1. /\ TypeOK /\ DataOK /\ PlaceOK /\ Marks(wf, path, sorted) /\ OrdersOK
      /\ wf \in Graphs /\ \A k, l \in Loops(wf) : k = l
  BY InGraph DEF IInv
<1>2. path \in Seq(Nodes) /\ sorted \in Seq(Nodes)
  BY <1>1 DEF Marks
<1>3. CASE Sort
  <2>1. /\ Visit(wf) /\ UNCHANGED <<setup, results, taken, pc, at, driver, history>>
    BY <1>3 DEF Sort
  <2>2. Marks(wf, path', sorted')
    BY <1>1, <2>1, VisitKeepsMarks
  <2>3. path' \in Seq(Nodes) /\ sorted' \in Seq(Nodes)
    BY <2>2 DEF Marks
  <2>4. TypeOK' /\ DataOK' /\ PlaceOK'
    BY <1>1, <2>1, <2>3
       DEF TypeOK, DataOK, PlaceOK, Here, setup, driver, history
  <2>5. OrdersOK'
    BY <1>1, <2>1 DEF OrdersOK, setup
  <2>6. Marks(wf, path, sorted)'
    BY <2>1, <2>2 DEF setup
  <2> QED BY <2>4, <2>5, <2>6 DEF IInv
<1>4. CASE Refuse
  <2>1. /\ pc = "order" /\ CycleFound(wf) /\ pc' = "failed"
        /\ UNCHANGED <<sort, setup, results, taken, at, driver, history>>
    BY <1>4 DEF Refuse
  <2>2. Circular(wf) /\ order = <<>>
    BY <1>1, <2>1, CycleIsCircular DEF OrdersOK
  <2>3. TypeOK' /\ DataOK' /\ PlaceOK'
    BY <1>1, <2>1
       DEF TypeOK, DataOK, PlaceOK, Here, setup, driver, history, sort, Places, Sorts
  <2>4. OrdersOK' /\ Marks(wf, path, sorted)'
    BY <1>1, <2>1, <2>2 DEF OrdersOK, setup, sort
  <2> QED BY <2>3, <2>4 DEF IInv
<1>5. CASE Ordered
  <2>1. /\ sorted' = <<>>
        /\ UNCHANGED <<path, wf, input, results, taken, at, driver, history>>
        /\ TakeOrder \/ GetLoopIterationOrder \/ GetLoopDoneOrder
    BY <1>5 DEF Ordered
  <2>2. Sorted /\ pc \in Sorts /\ pc' \in {"main", "bodyOrder", "doneOrder"}
    BY <2>1 DEF TakeOrder, GetLoopIterationOrder, GetLoopDoneOrder, Sorts
  <2>3. path = <<>> /\ ToSet(sorted) = Nodes
    BY <2>2 DEF Sorted, Visited
  <2>4. ~Circular(wf) /\ Before(wf, sorted)
    BY <1>1, <2>3, OrderIsNotCircular
  <2>5. Marks(wf, path, sorted)'
    BY <2>1, <2>3, EmptyBefore
  <2>6. \A S : Among(sorted, S) \in Seq(Nodes) /\ Before(wf, Among(sorted, S))
    BY <1>1, <1>2, <2>4, AmongBefore
  <2>7. /\ order' \in Seq(Nodes) /\ Before(wf, order') /\ ToSet(order') = Nodes
        /\ body' \in Seq(Nodes) /\ Before(wf, body')
        /\ done' \in Seq(Nodes) /\ Before(wf, done')
    <3>1. CASE TakeOrder
      BY <3>1, <1>1, <1>2, <2>3, <2>4 DEF TakeOrder, DataOK, OrdersOK
    <3>2. CASE GetLoopIterationOrder
      <4>1. /\ body' = Among(sorted, Descendants(wf, LoopNode(wf), ProcessBranch))
            /\ order' = order /\ done' = done /\ pc # "order"
        BY <3>2 DEF GetLoopIterationOrder
      <4> QED BY <4>1, <1>1, <2>4, <2>6 DEF DataOK, OrdersOK, TypeOK
    <3>3. CASE GetLoopDoneOrder
      <4>1. /\ done' = Among(sorted, Descendants(wf, LoopNode(wf), DoneBranch))
            /\ order' = order /\ body' = body /\ pc # "order"
        BY <3>3 DEF GetLoopDoneOrder
      <4> QED BY <4>1, <1>1, <2>4, <2>6 DEF DataOK, OrdersOK, TypeOK
    <3> QED BY <2>1, <3>1, <3>2, <3>3
  <2>8. at = 1 /\ at' = 1
    BY <1>1, <2>1, <2>2 DEF PlaceOK
  <2>9. TypeOK'
    <3>1. at' \in 1..Len(order') + 1
      BY <2>7, <2>8
    <3> QED BY <1>1, <1>2, <2>1, <2>2, <2>3, <2>7, <3>1
            DEF TypeOK, Places, Sorts, driver, history
  <2>10. DataOK' /\ PlaceOK'
    BY <1>1, <2>1, <2>2, <2>7, <2>8 DEF DataOK, PlaceOK, driver, history
  <2>11. OrdersOK'
    BY <2>1, <2>2, <2>4, <2>7 DEF OrdersOK
  <2> QED BY <2>5, <2>9, <2>10, <2>11 DEF IInv
<1> QED BY <1>3, <1>4, <1>5

\* No step after the sorts changes an order.
LEMMA OrdersKept ==
  ASSUME IInv, UNCHANGED <<sort, setup>>, pc # "order", pc' # "order"
  PROVE  Marks(wf, path, sorted)' /\ OrdersOK'
BY DEF IInv, OrdersOK, sort, setup

LEMMA GuardFacts ==
  ASSUME NEW w \in Graphs, NEW g \in RetryGuards(w)
  PROVE  /\ g \in Nodes /\ RetryEntry(w, g) \in Nodes
         /\ RetryBodySet(w, g) \subseteq Nodes
         /\ RetryBody(w, g) \in Seq(Nodes) /\ RetryBody(w, g) # <<>>
         /\ ToSet(RetryBody(w, g)) = RetryBodySet(w, g)
         /\ IsInjective(RetryBody(w, g))
<1>1. g \in Nodes /\ Targets(w, g, 1) # {} /\ RetryBodySet(w, g) # {}
  BY DEF RetryGuards
<1>2. RetryEntry(w, g) \in Nodes
  <2>1. 1 \in Branches(w, g) /\ Targets(w, g, 1) = ToSet(w.main[g][1])
    BY <1>1 DEF Targets
  <2>2. w.main[g][1] \in Seq(Nodes) /\ ToSet(w.main[g][1]) # {}
    BY <1>1, <2>1, GraphFacts
  <2>3. w.main[g][1] # <<>>
    BY <2>2 DEF ToSet
  <2>4. w.main[g][1][1] \in Nodes
    BY <2>2, <2>3
  <2> QED BY <2>4 DEF RetryEntry
<1>3. RetryBodySet(w, g) \subseteq Nodes
  BY DEF RetryBodySet, ReachableFrom
<1>4. w.nodes \in Seq(Nodes) /\ IsInjective(w.nodes) /\ ToSet(w.nodes) = Nodes
  BY DEF Graphs
<1>5. /\ RetryBody(w, g) \in Seq(Nodes)
      /\ ToSet(RetryBody(w, g)) = RetryBodySet(w, g)
      /\ IsInjective(RetryBody(w, g))
  <2>1. RetryBody(w, g) = Among(w.nodes, RetryBodySet(w, g))
    BY DEF RetryBody
  <2>2. ToSet(w.nodes) \cap RetryBodySet(w, g) = RetryBodySet(w, g)
    BY <1>3, <1>4
  <2>3. /\ Among(w.nodes, RetryBodySet(w, g)) \in Seq(Nodes)
        /\ ToSet(Among(w.nodes, RetryBodySet(w, g))) = ToSet(w.nodes) \cap RetryBodySet(w, g)
        /\ IsInjective(Among(w.nodes, RetryBodySet(w, g)))
    BY <1>4, AmongType
  <2> QED BY <2>1, <2>2, <2>3
<1>6. RetryBody(w, g) # <<>>
  <2>1. ToSet(<<>>) = {}
    BY DEF ToSet
  <2> QED BY <2>1, <1>1, <1>5
<1> QED BY <1>1, <1>2, <1>3, <1>5, <1>6

\* What storing an output does to the data.
LEMMA StoreData ==
  ASSUME TypeOK, DataOK, NEW n \in Nodes, NEW out \in Seq(Elements), NEW except,
         Store(n, out, except)
  PROVE  results' \in [Nodes -> Seq(Items)]
<1>1. RouteData(wf, n, out) \in [Nodes -> Seq(Items)]
  BY InGraph, RouteType
<1>2. Untag(out) \in Seq(Items)
  BY UntagType
<1> DEFINE routed == RouteData(wf, n, out)
           stored == [results EXCEPT ![n] = Untag(out)]
           sent(t) == IF t \in except THEN <<>> ELSE routed[t]
<1>3. results' = [t \in Nodes |-> stored[t] \o sent(t)]
  BY DEF Store
<1>4. \A t \in Nodes : stored[t] \in Seq(Items) /\ sent(t) \in Seq(Items)
  <2>1. stored \in [Nodes -> Seq(Items)]
    BY <1>2 DEF DataOK
  <2>2. <<>> \in Seq(Items)
    OBVIOUS
  <2> HIDE DEF routed, stored
  <2> QED BY <1>1, <2>1, <2>2 DEF routed
<1> HIDE DEF stored, sent
<1>5. \A r, s \in Seq(Items) : r \o s \in Seq(Items)
  OBVIOUS
<1> QED BY <1>3, <1>4, <1>5

\* The execution of a node keeps the histories' types.
LEMMA RanData ==
  ASSUME DataOK, NEW n \in Nodes, NEW out \in Seq(Elements), Ran(n, out)
  PROVE  ran' \in [Nodes -> Seq(Seq(Items))] /\ outs' \in [Nodes -> Seq(Elements)]
<1>1. results[n] \in Seq(Items) /\ ran[n] \in Seq(Seq(Items))
  BY DEF DataOK
<1>2. Append(ran[n], results[n]) \in Seq(Seq(Items))
  BY <1>1
<1> QED BY <1>2 DEF DataOK, Ran

LEMMA SeedData ==
  ASSUME NEW f \in [Nodes -> Seq(Items)], NEW chain \in Seq(Nodes), NEW s \in Seq(Items)
  PROVE  Seed(f, chain, s) \in [Nodes -> Seq(Items)]
<1>1. chain # <<>> => chain[1] \in Nodes
  OBVIOUS
<1> QED BY <1>1 DEF Seed

LEMMA EdgesData ==
  ASSUME TypeOK, NEW n \in Nodes, NEW out, RecordEdges(n, out)
  PROVE  taken' \subseteq Nodes \X Nat \X Nodes
<1>1. ASSUME NEW b, NEW t \in Targets(wf, n, b) PROVE <<n, b, t>> \in Nodes \X Nat \X Nodes
  <2>1. b \in Branches(wf, n)
    BY <1>1 DEF Targets
  <2>2. b \in Nat /\ t \in Nodes
    BY <2>1, InGraph, GraphFacts
  <2> QED BY <2>2
<1> QED BY <1>1 DEF RecordEdges, TypeOK

\* A step of the main loop.
LEMMA MainStep ==
  ASSUME IInv, NEW n \in Nodes,
         \/ Skip(n) \/ SkipInert(n)
         \/ \E out \in Outputs(n, results[n]) : RunNode(n, out)
  PROVE  IInv'
<1>1. TypeOK /\ DataOK /\ PlaceOK
  BY DEF IInv
<1>2. /\ Main(n) /\ NextNode
      /\ UNCHANGED <<sort, setup, pc, driver>>
  BY DEF Skip, SkipInert, RunNode
<1>3. pc = "main" /\ at <= Len(order) /\ at' = at + 1
  BY <1>2 DEF Main, NextNode
<1>4. Marks(wf, path, sorted)' /\ OrdersOK'
  BY <1>2, <1>3, OrdersKept
<1>5. PlaceOK'
  BY <1>2, <1>3 DEF PlaceOK, Sorts
<1>6. at' \in 1..Len(order') + 1
  BY <1>1, <1>2, <1>3 DEF TypeOK, setup
<1>7. /\ results' \in [Nodes -> Seq(Items)]
      /\ ran' \in [Nodes -> Seq(Seq(Items))] /\ outs' \in [Nodes -> Seq(Elements)]
      /\ taken' \subseteq Nodes \X Nat \X Nodes
  <2>1. CASE Skip(n)
    BY <2>1, <1>1 DEF Skip, DataOK, TypeOK, history
  <2>2. CASE SkipInert(n)
    <3>1. results' = [results EXCEPT ![n] = <<>>] /\ UNCHANGED <<taken, history>>
      BY <2>2 DEF SkipInert
    <3>2. <<>> \in Seq(Items)
      OBVIOUS
    <3>3. results' \in [Nodes -> Seq(Items)]
      BY <3>1, <3>2, <1>1 DEF DataOK
    <3> QED BY <3>1, <3>3, <1>1 DEF DataOK, TypeOK, history
  <2>3. CASE \E out \in Outputs(n, results[n]) : RunNode(n, out)
    <3>1. PICK out \in Outputs(n, results[n]) : RunNode(n, out)
      BY <2>3
    <3>2. out \in Seq(Elements)
      BY <1>1, OutputsType DEF DataOK
    <3>3. Store(n, out, {}) /\ Ran(n, out) /\ RecordEdges(n, out)
      BY <3>1 DEF RunNode
    <3> QED BY <1>1, <3>2, <3>3, StoreData, RanData, EdgesData
  <2> QED BY <2>1, <2>2, <2>3
<1>8. TypeOK'
  BY <1>1, <1>2, <1>6, <1>7
     DEF TypeOK, DataOK, driver, setup, sort
<1>9. DataOK'
  BY <1>1, <1>2, <1>7 DEF DataOK, driver, setup
<1> QED BY <1>4, <1>5, <1>8, <1>9 DEF IInv

\* A step of a driver inside a chain.
LEMMA ChainStep ==
  ASSUME IInv, NEW n \in Nodes,
         \/ SkipChainNode("body", body, n) \/ SkipChainNode("done", done, n)
         \/ pc = "retry" /\ SkipChainNode("retry", Retried, n)
         \/ \E out \in Outputs(n, results[n]) :
              \/ RunChainNode("body", body, n, out)
              \/ RunChainNode("done", done, n, out)
              \/ RunRetryNode(n, out)
  PROVE  IInv'
<1>1. TypeOK /\ DataOK /\ PlaceOK
  BY DEF IInv
<1>2. /\ pc \in {"body", "done", "retry"} /\ inner' = inner + 1
      /\ UNCHANGED <<sort, setup, taken, pc, at, batches, aggregated, iteration>>
  BY DEF SkipChainNode, RunChainNode, RunRetryNode, ChainNode
<1>3. Marks(wf, path, sorted)' /\ OrdersOK'
  BY <1>2, OrdersKept
<1>4. PlaceOK'
  BY <1>1, <1>2 DEF PlaceOK, Here, setup
<1>5. /\ results' \in [Nodes -> Seq(Items)]
      /\ ran' \in [Nodes -> Seq(Seq(Items))] /\ outs' \in [Nodes -> Seq(Elements)]
  <2>1. CASE results' = [results EXCEPT ![n] = <<>>] /\ UNCHANGED history
    BY <2>1, <1>1 DEF DataOK, history
  <2>2. CASE \E out \in Outputs(n, results[n]) :
               Store(n, out, Loops(wf)) /\ Ran(n, out)
    <3>1. PICK out \in Outputs(n, results[n]) : Store(n, out, Loops(wf)) /\ Ran(n, out)
      BY <2>2
    <3>2. out \in Seq(Elements)
      BY <1>1, OutputsType DEF DataOK
    <3> QED BY <1>1, <3>1, <3>2, StoreData, RanData
  <2>3. CASE \E out \in Outputs(n, results[n]) :
               Store(n, Plain(Untag(out)), {Entry}) /\ Ran(n, Plain(Untag(out)))
    <3>1. PICK out \in Outputs(n, results[n]) :
            Store(n, Plain(Untag(out)), {Entry}) /\ Ran(n, Plain(Untag(out)))
      BY <2>3
    <3>2. out \in Seq(Elements)
      BY <1>1, OutputsType DEF DataOK
    <3>3. Plain(Untag(out)) \in Seq(Elements)
      BY <3>2, UntagType, PlainType
    <3> QED BY <1>1, <3>1, <3>3, StoreData, RanData
  <2> QED BY <2>1, <2>2, <2>3 DEF SkipChainNode, RunChainNode, RunRetryNode
<1>6. TypeOK'
  BY <1>1, <1>2, <1>5 DEF TypeOK, DataOK, setup, sort
<1>7. DataOK'
  BY <1>1, <1>2, <1>5 DEF DataOK, setup
<1> QED BY <1>3, <1>4, <1>6, <1>7 DEF IInv

\* The loop driver begins, ends a batch and ends.
LEMMA LoopStep ==
  ASSUME IInv, EndBatch \/ EndDone \/ \E n \in Nodes : StartLoop(n)
  PROVE  IInv'
<1>1. TypeOK /\ DataOK /\ PlaceOK
  BY DEF IInv
<1>2. /\ pc \in {"main", "body", "done"} /\ pc' \in {"main", "body", "done"}
      /\ UNCHANGED <<sort, setup, taken, iteration>>
  BY DEF EndBatch, EndDone, StartLoop, Main, driver
<1>3. Marks(wf, path, sorted)' /\ OrdersOK'
  BY <1>2, OrdersKept
<1>4. CASE EndDone
  <2>1. /\ pc = "done" /\ pc' = "main" /\ at' = at + 1
        /\ UNCHANGED <<sort, setup, results, taken, driver, history>>
    BY <1>4 DEF EndDone, NextNode
  <2>2. at' \in 1..Len(order') + 1
    BY <1>1, <2>1 DEF TypeOK, PlaceOK, setup
  <2>3. TypeOK'
    BY <1>1, <2>1, <2>2 DEF TypeOK, setup, sort, driver, history, Places
  <2>4. DataOK' /\ PlaceOK'
    BY <1>1, <2>1 DEF DataOK, PlaceOK, Sorts, setup, sort, driver, history
  <2> QED BY <1>3, <2>3, <2>4 DEF IInv
<1>5. CASE EndBatch
  <2>1. /\ pc = "body"
        /\ aggregated' = aggregated \o (IF body = <<>> THEN batches[1]
                                           ELSE results[Last(body)])
        /\ batches' = Tail(batches) /\ inner' = 1
        /\ UNCHANGED <<sort, setup, taken, at, iteration, history>>
    BY <1>5 DEF EndBatch
  <2>2. batches # <<>> /\ batches \in Seq(Seq(Items)) /\ Len(batches) \in Nat
          /\ Len(batches) # 0
    BY <1>1, <2>1, EmptySeq DEF DataOK, PlaceOK
  <2>3. /\ Tail(batches) \in Seq(Seq(Items)) /\ batches[1] \in Seq(Items)
        /\ Len(Tail(batches)) = Len(batches) - 1
        /\ MoreBatches => batches[2] \in Seq(Items)
    BY <2>2 DEF MoreBatches
  <2>4. body # <<>> => Last(body) \in Nodes
    BY <1>1, EmptySeq DEF DataOK, Last
  <2>5. aggregated' \in Seq(Items)
    <3>1. (IF body = <<>> THEN batches[1] ELSE results[Last(body)]) \in Seq(Items)
      BY <1>1, <2>3, <2>4 DEF DataOK
    <3>2. \A r, s \in Seq(Items) : r \o s \in Seq(Items)
      OBVIOUS
    <3> QED BY <1>1, <2>1, <3>1, <3>2 DEF DataOK
  <2>6. CASE MoreBatches
    <3>1. pc' = "body" /\ results' = Seed(results, body, batches[2])
      BY <1>5, <2>1, <2>6 DEF EndBatch
    <3>2. results' \in [Nodes -> Seq(Items)]
      BY <1>1, <2>3, <2>6, <3>1, SeedData DEF DataOK
    <3>3. batches' # <<>>
      <4>1. Len(Tail(batches)) > 0 /\ Len(<<>>) = 0
        BY <2>2, <2>3, <2>6 DEF MoreBatches
      <4> DEFINE r == Tail(batches)
      <4>2. Len(r) > 0 /\ batches' = r
        BY <2>1, <4>1
      <4> HIDE DEF r
      <4>3. r # <<>>
        BY <4>1, <4>2
      <4> QED BY <4>2, <4>3
    <3>4. TypeOK'
      BY <1>1, <2>1, <3>1, <3>2 DEF TypeOK, setup, sort, history
    <3>5. DataOK'
      BY <1>1, <2>1, <2>3, <2>5, <3>2 DEF DataOK, setup, history
    <3>6. PlaceOK'
      BY <1>1, <2>1, <3>1, <3>3 DEF PlaceOK, Sorts, Here, setup
    <3> QED BY <1>3, <3>4, <3>5, <3>6 DEF IInv
  <2>7. CASE ~MoreBatches
    <3>1. /\ pc' = "done"
          /\ results' = Seed([results EXCEPT ![Here] = aggregated'], done, aggregated')
      BY <1>5, <2>7 DEF EndBatch
    <3>2. [results EXCEPT ![Here] = aggregated'] \in [Nodes -> Seq(Items)]
      BY <1>1, <2>5 DEF DataOK
    <3>3. results' \in [Nodes -> Seq(Items)]
      BY <1>1, <2>5, <3>1, <3>2, SeedData DEF DataOK
    <3>4. TypeOK'
      BY <1>1, <2>1, <3>1, <3>3 DEF TypeOK, setup, sort, history, Places
    <3>5. DataOK'
      BY <1>1, <2>1, <2>3, <2>5, <3>3 DEF DataOK, setup, history
    <3>6. PlaceOK'
      BY <1>1, <2>1, <3>1 DEF PlaceOK, Sorts, Here, setup
    <3> QED BY <1>3, <3>4, <3>5, <3>6 DEF IInv
  <2> QED BY <2>6, <2>7
<1>6. ASSUME NEW n \in Nodes, StartLoop(n) PROVE IInv'
  <2>1. /\ pc = "main" /\ at <= Len(order) /\ n = Here /\ ~Skipped(n)
        /\ wf.kind[n] = "loop" /\ pc' = "body" /\ inner' = 1
        /\ batches' = SplitIntoBatches(results[n]) /\ aggregated' = <<>>
        /\ results' = Seed(results, body, batches'[1])
        /\ ran' = [ran EXCEPT ![n] = Append(@, results[n])]
        /\ UNCHANGED <<sort, setup, taken, at, iteration, outs>>
    BY <1>6 DEF StartLoop, Main
  <2>2. results[n] \in Seq(Items) /\ results[n] # <<>>
    BY <1>1, <2>1 DEF Skipped, DataOK
  <2>3. batches' \in Seq(Seq(Items)) /\ batches' # <<>>
    BY <2>1, <2>2, SplitType
  <2>4. batches'[1] \in Seq(Items)
    BY <2>3, EmptySeq
  <2>5. results' \in [Nodes -> Seq(Items)]
    BY <1>1, <2>1, <2>4, SeedData DEF DataOK
  <2>6. ran' \in [Nodes -> Seq(Seq(Items))]
    <3>1. Append(ran[n], results[n]) \in Seq(Seq(Items))
      BY <1>1, <2>2 DEF DataOK
    <3> QED BY <1>1, <2>1, <3>1 DEF DataOK
  <2>7. TypeOK'
    BY <1>1, <2>1, <2>5, <2>6 DEF TypeOK, setup, sort, Places
  <2>8. DataOK'
    <3>1. aggregated' \in Seq(Items)
      BY <2>1
    <3> QED BY <1>1, <2>1, <2>3, <2>5, <2>6, <3>1 DEF DataOK, setup
  <2>9. PlaceOK'
    <3>1. Here' = n /\ n \in Loops(wf)
      BY <2>1 DEF Here, Loops, setup
    <3> QED BY <1>1, <2>1, <2>3, <3>1 DEF PlaceOK, Sorts, setup
  <2> QED BY <1>3, <2>7, <2>8, <2>9 DEF IInv
<1> QED BY <1>4, <1>5, <1>6

\* The retry driver begins, and ends an iteration.
LEMMA RetryStep ==
  ASSUME IInv, (\E n \in Nodes : StartRetry(n)) \/ \E more \in BOOLEAN : EndIteration(more)
  PROVE  IInv'
<1>1. TypeOK /\ DataOK /\ PlaceOK /\ wf \in Graphs
  BY InGraph DEF IInv
<1>2. /\ pc \in {"main", "retry"} /\ pc' \in {"main", "retry"}
      /\ UNCHANGED <<sort, setup, taken, batches, aggregated, history>>
  BY DEF StartRetry, EndIteration, Main
<1>3. Marks(wf, path, sorted)' /\ OrdersOK'
  BY <1>2, OrdersKept
<1>4. ASSUME NEW n \in Nodes, StartRetry(n) PROVE IInv'
  <2>1. /\ at <= Len(order) /\ n = Here /\ n \in RetryGuards(wf) /\ pc' = "retry"
        /\ inner' = 1 /\ iteration' = 1 /\ UNCHANGED <<results, at>>
    BY <1>4 DEF StartRetry, Main
  <2>2. 1 \in 1..MaxIterations
    BY NodeRunAssumption
  <2>3. TypeOK'
    BY <1>1, <1>2, <2>1, <2>2 DEF TypeOK, setup, sort, history, Places
  <2>4. DataOK' /\ PlaceOK'
    BY <1>1, <1>2, <2>1 DEF DataOK, PlaceOK, Sorts, Here, setup, history
  <2> QED BY <1>3, <2>3, <2>4 DEF IInv
<1>5. ASSUME NEW more \in BOOLEAN, EndIteration(more) PROVE IInv'
  <2> DEFINE output == results[Last(Retried)]
  <2>1. pc = "retry" /\ Here \in RetryGuards(wf)
    BY <1>1, <1>5 DEF EndIteration, PlaceOK
  <2>2. /\ Here \in Nodes /\ Entry \in Nodes
        /\ Retried \in Seq(Nodes) /\ Retried # <<>>
    BY <1>1, <2>1, GuardFacts DEF Entry, Retried
  <2>3. output \in Seq(Items) /\ results[Entry] \in Seq(Items)
    <3>1. Last(Retried) \in Nodes
      BY <2>2, EmptySeq DEF Last
    <3> QED BY <1>1, <2>2, <3>1 DEF DataOK
  <2>4. CASE more /\ MayRetry
    <3>1. /\ results' = [results EXCEPT ![Entry] = output]
          /\ iteration' = iteration + 1 /\ inner' = 1 /\ UNCHANGED <<pc, at>>
      BY <1>5, <2>4 DEF EndIteration
    <3>2. results' \in [Nodes -> Seq(Items)]
      BY <1>1, <2>3, <3>1 DEF DataOK
    <3>3. iteration' \in 1..MaxIterations
      BY <1>1, <2>4, <3>1, NodeRunAssumption DEF TypeOK, MayRetry
    <3>4. TypeOK'
      BY <1>1, <1>2, <3>1, <3>2, <3>3 DEF TypeOK, setup, sort, history
    <3>5. DataOK' /\ PlaceOK'
      BY <1>1, <1>2, <3>1, <3>2, <2>1 DEF DataOK, PlaceOK, Sorts, Here, setup, history
    <3> QED BY <1>3, <3>4, <3>5 DEF IInv
  <2>5. CASE ~(more /\ MayRetry)
    <3>1. /\ results' = [results EXCEPT ![Here] = IF more THEN results[Entry] ELSE output]
          /\ pc' = "main" /\ at' = at + 1 /\ UNCHANGED <<inner, iteration>>
      BY <1>5, <2>5 DEF EndIteration, NextNode
    <3>2. results' \in [Nodes -> Seq(Items)]
      BY <1>1, <2>3, <3>1 DEF DataOK
    <3>3. at' \in 1..Len(order') + 1
      BY <1>1, <1>2, <2>1, <3>1 DEF TypeOK, PlaceOK, setup
    <3>4. TypeOK'
      BY <1>1, <1>2, <3>1, <3>2, <3>3 DEF TypeOK, setup, sort, history, Places
    <3>5. DataOK' /\ PlaceOK'
      BY <1>1, <1>2, <3>1, <3>2 DEF DataOK, PlaceOK, Sorts, setup, history
    <3> QED BY <1>3, <3>4, <3>5 DEF IInv
  <2> QED BY <2>4, <2>5
<1> QED BY <1>4, <1>5

\* The run ends.
LEMMA EndStep ==
  ASSUME IInv, Finish \/ Fail
  PROVE  IInv'
<1>1. /\ pc \notin Sorts /\ pc' \in {"ended", "failed"}
      /\ UNCHANGED <<sort, setup, results, taken, at, driver, history>>
  BY DEF Finish, Fail, Sorts
<1>2. Marks(wf, path, sorted)' /\ OrdersOK'
  BY <1>1, OrdersKept DEF Sorts
<1>3. TypeOK'
  BY <1>1 DEF IInv, TypeOK, setup, sort, driver, history, Places
<1>4. DataOK' /\ PlaceOK'
  BY <1>1 DEF IInv, DataOK, PlaceOK, Sorts, setup, driver, history
<1> QED BY <1>2, <1>3, <1>4 DEF IInv

LEMMA StepIInv == IInv /\ [Next]_vars => IInv'
<1> SUFFICES ASSUME IInv, [Next]_vars PROVE IInv'
  OBVIOUS
<1>1. CASE Next
  <2>1. CASE Sort \/ Refuse \/ Ordered
    BY <2>1, SortStep
  <2>2. ASSUME NEW n \in Nodes,
               \/ Skip(n) \/ SkipInert(n) \/ Drivers(n)
               \/ \E out \in Outputs(n, results[n]) : RunNode(n, out)
        PROVE  IInv'
    <3>1. CASE Drivers(n)
      BY <3>1, LoopStep, RetryStep, ChainStep DEF Drivers
    <3> QED BY <2>2, <3>1, MainStep
  <2>3. CASE EndBatch \/ EndDone
    BY <2>3, LoopStep
  <2>4. CASE \E more \in BOOLEAN : EndIteration(more)
    BY <2>4, RetryStep
  <2>5. CASE Finish \/ Fail
    BY <2>5, EndStep
  <2>6. CASE Returned
    BY <2>6 DEF Returned, vars, sort, setup, driver, history, IInv, TypeOK, DataOK,
                PlaceOK, OrdersOK, Here
  <2> QED BY <1>1, <2>1, <2>2, <2>3, <2>4, <2>5, <2>6 DEF Next
<1>2. CASE UNCHANGED vars
  BY <1>2 DEF vars, sort, setup, driver, history, IInv, TypeOK, DataOK,
              PlaceOK, OrdersOK, Here
<1> QED BY <1>1, <1>2

\* The inductive invariant holds in every state of every run, for every set of
\* nodes, workflows, inputs and bounds.
THEOREM Invariance == Spec => []IInv
BY InitIInv, StepIInv, PTL DEF Spec

\* Every variable has its type (engine.go:302-360).
THEOREM TypeCorrect == Spec => []TypeOK
<1>1. IInv => TypeOK
  BY DEF IInv
<1> QED BY <1>1, Invariance, PTL

----------------------------------------------------------------------------
(* The order is topological.                                               *)

\* What a node waits for, read off the edges, is what visitNode looks at.
LEMMA WaitsForIsWaits ==
  ASSUME TypeOK, NEW t \in Nodes
  PROVE  WaitsFor(t) = Waits(wf, t)
<1>1. wf \in Graphs
  BY InGraph
<1>2. ASSUME NEW s \in Nodes
      PROVE  (\E b \in Branches(wf, s) : t \in ToSet(wf.main[s][b]))
               <=> t \in Successors(wf, s)
  BY <1>1, GraphFacts DEF Successors
<1>3. wf.kind[t] = "loop" <=> t \in Loops(wf)
  BY DEF Loops
<1>4. {s \in Nodes : /\ wf.kind[t] # "loop"
                     /\ \E b \in Branches(wf, s) : t \in ToSet(wf.main[s][b])
                     /\ ~(s \in RetryGuards(wf) /\ t = RetryEntry(wf, s))}
        = Sources(wf, t)
  BY <1>2, <1>3 DEF Sources, Dropped
<1> QED BY <1>4 DEF WaitsFor, Waits

LEMMA CyclicIsCircular == TypeOK => (Cyclic <=> Circular(wf))
<1> SUFFICES ASSUME TypeOK PROVE Cyclic <=> Circular(wf)
  OBVIOUS
<1>1. \A t \in Nodes : WaitsFor(t) = Waits(wf, t)
  BY WaitsForIsWaits
<1> QED BY <1>1 DEF Cyclic, Circular

LEMMA KeepsIsBefore ==
  ASSUME TypeOK, NEW s \in Seq(Nodes)
  PROVE  Keeps(s) <=> Before(wf, s)
<1>1. \A t \in Nodes : WaitsFor(t) = Waits(wf, t)
  BY WaitsForIsWaits
<1>2. \A i \in DOMAIN s : s[i] \in Nodes
  OBVIOUS
<1> QED BY <1>1, <1>2 DEF Keeps, Before

\* An order lists every node once and after every node it waits for, as do the
\* chains of a loop, and a workflow is refused exactly if some nodes wait for
\* each other: for every graph, however the depth-first sort chooses
\* (router.go:313-422, 671-702, 733-812).
THEOREM OrderCorrect == Spec => []OrderIsTopological
<1>1. IInv => OrderIsTopological
  <2> SUFFICES ASSUME IInv, pc # "order"
               PROVE  /\ IF Cyclic THEN order = <<>> ELSE ToSet(order) = Nodes
                      /\ Keeps(order) /\ Keeps(body) /\ Keeps(done)
    BY DEF OrderIsTopological
  <2>1. TypeOK /\ OrdersOK /\ order \in Seq(Nodes) /\ body \in Seq(Nodes)
          /\ done \in Seq(Nodes)
    BY DEF IInv, DataOK, TypeOK
  <2>2. IF Cyclic THEN order = <<>> ELSE ToSet(order) = Nodes
    BY <2>1, CyclicIsCircular DEF OrdersOK
  <2>3. Keeps(order) /\ Keeps(body) /\ Keeps(done)
    BY <2>1, KeepsIsBefore DEF OrdersOK
  <2> QED BY <2>2, <2>3
<1> QED BY <1>1, Invariance, PTL

----------------------------------------------------------------------------
(* The runs of a node are accounted for: what the main loop, the loop      *)
(* driver and the retry driver have run of it so far.                      *)

Passed(n) == \E i \in 1..Len(order) : i < at /\ order[i] = n
Did(chain, n) == \E k \in 1..Len(chain) : k < inner /\ chain[k] = n
LoopPassed == \E l \in Loops(wf) : Passed(l)
Batched == Len(Split(LoopNode(wf)))
GuardsPassed(n) == {g \in GuardsOver(n) : Passed(g)}

MainRuns(n) ==
  IF n \notin Handled /\ (Passed(n) \/ (pc \in {"body", "done"} /\ n = Here))
  THEN 1 ELSE 0
BodyRuns(n) ==
  IF n \notin ToSet(body) THEN 0
  ELSE IF pc = "body" THEN Batched - Len(batches) + (IF Did(body, n) THEN 1 ELSE 0)
  ELSE IF pc = "done" \/ LoopPassed THEN Batched ELSE 0
DoneRuns(n) ==
  IF n \notin ToSet(done) THEN 0
  ELSE IF pc = "done" THEN IF Did(done, n) THEN 1 ELSE 0
  ELSE IF LoopPassed THEN 1 ELSE 0
NowRetried(n) ==
  IF pc = "retry" /\ n \in RetryBodySet(wf, Here)
  THEN iteration - 1 + (IF Did(Retried, n) THEN 1 ELSE 0) ELSE 0
PastRetried(n) == Cardinality(GuardsPassed(n)) * MaxIterations

Accounted ==
  \A n \in Nodes :
    Len(ran[n]) <= MainRuns(n) + BodyRuns(n) + DoneRuns(n)
                     + (PastRetried(n) + NowRetried(n))

ChainsOK ==
  /\ pc \in {"bodyOrder", "doneOrder"} => Loops(wf) # {}
  /\ Loops(wf) = {} => body = <<>> /\ done = <<>>
  /\ \A l \in Loops(wf) : l \notin ToSet(body) /\ l \notin ToSet(done)

RunsInv ==
  /\ ChainsOK
  /\ pc \in Sorts => \A n \in Nodes : ran[n] = <<>>
  /\ pc = "body" => ran[LoopNode(wf)] # <<>> /\ Len(batches) <= Batched
  /\ IF pc = "failed" THEN RunsAreBounded ELSE Accounted

\* The arithmetic of it: one more group of M.
LEMMA OneMore ==
  ASSUME NEW c \in Nat, NEW M \in Nat
  PROVE  /\ c * M \in Nat /\ (c + 1) * M = c * M + M
         /\ \A d \in Nat : c <= d => c * M <= d * M
<1>1. c * M \in Nat
  OBVIOUS
<1>2. (c + 1) * M = c * M + M
  OBVIOUS
<1>3. ASSUME NEW d \in Nat, c <= d PROVE c * M <= d * M
  <2>1. d = c + (d - c) /\ d - c \in Nat
    BY <1>3
  <2>2. \A e \in Nat : (c + e) * M = c * M + e * M /\ e * M \in Nat
    OBVIOUS
  <2> QED BY <1>1, <2>1, <2>2
<1> QED BY <1>1, <1>2, <1>3

LEMMA LoopNodeIs ==
  ASSUME TypeOK, NEW l \in Loops(wf)
  PROVE  LoopNode(wf) = l /\ l \in Nodes
BY InGraph DEF LoopNode, Loops

SplitOf(r) == IF r = <<>> THEN <<>> ELSE SplitIntoBatches(r[1])

LEMMA SplitOfType ==
  ASSUME NEW r \in Seq(Seq(Items))
  PROVE  /\ Len(SplitOf(r)) \in Nat
         /\ \A s \in Seq(Items) : Len(SplitOf(r)) <= Len(SplitOf(Append(r, s)))
<1>1. \A q \in Seq(Seq(Items)) : Len(SplitOf(q)) \in Nat
  <2> SUFFICES ASSUME NEW q \in Seq(Seq(Items)) PROVE Len(SplitOf(q)) \in Nat
    OBVIOUS
  <2>1. CASE q = <<>>
    BY <2>1 DEF SplitOf
  <2>2. CASE q # <<>>
    <3>1. q[1] \in Seq(Items)
      BY <2>2, EmptySeq
    <3>2. SplitOf(q) = SplitIntoBatches(q[1])
      BY <2>2 DEF SplitOf
    <3>3. SplitIntoBatches(q[1]) \in Seq(Seq(Items))
      BY <3>1, SplitType
    <3> QED BY <3>2, <3>3
  <2> QED BY <2>1, <2>2
<1>2. ASSUME NEW s \in Seq(Items)
      PROVE  Len(SplitOf(r)) <= Len(SplitOf(Append(r, s)))
  <2> DEFINE q == Append(r, s)
  <2>1. q \in Seq(Seq(Items)) /\ q # <<>> /\ (r # <<>> => q[1] = r[1])
    <3>1. q \in Seq(Seq(Items)) /\ Len(q) = Len(r) + 1 /\ Len(r) \in Nat
          /\ \A i \in 1..Len(r) : q[i] = r[i]
      OBVIOUS
    <3>2. r # <<>> => 1 \in 1..Len(r)
      BY EmptySeq
    <3> HIDE DEF q
    <3>3. q # <<>>
      BY <3>1
    <3> QED BY <3>1, <3>2, <3>3
  <2>2. Len(SplitOf(q)) \in Nat
    BY <1>1, <2>1
  <2> HIDE DEF q
  <2>3. CASE r = <<>>
    <3>1. Len(SplitOf(r)) = 0
      BY <2>3 DEF SplitOf
    <3> QED BY <2>2, <3>1 DEF q
  <2>4. CASE r # <<>>
    <3>1. SplitOf(q) = SplitOf(r)
      BY <2>1, <2>4 DEF SplitOf
    <3> QED BY <1>1, <2>1, <3>1 DEF q
  <2> QED BY <2>3, <2>4
<1> QED BY <1>1, <1>2

LEMMA SplitNat ==
  ASSUME DataOK, NEW l \in Nodes
  PROVE  Len(Split(l)) \in Nat
<1>1. ran[l] \in Seq(Seq(Items)) /\ Split(l) = SplitOf(ran[l])
  BY DEF DataOK, Split, SplitOf
<1> QED BY <1>1, SplitOfType

LEMMA GuardsFinite ==
  ASSUME NEW n
  PROVE  /\ IsFiniteSet(GuardsOver(n)) /\ IsFiniteSet(GuardsPassed(n))
         /\ Cardinality(GuardsOver(n)) \in Nat /\ Cardinality(GuardsPassed(n)) \in Nat
         /\ Cardinality(GuardsPassed(n)) <= Cardinality(GuardsOver(n))
<1>1. GuardsOver(n) \in SUBSET Nodes /\ GuardsPassed(n) \in SUBSET GuardsOver(n)
  BY DEF GuardsOver, GuardsPassed, RetryGuards
<1>2. IsFiniteSet(GuardsOver(n))
  BY <1>1, FS_Subset, NodesAssumption
<1>3. IsFiniteSet(GuardsPassed(n))
       /\ Cardinality(GuardsPassed(n)) <= Cardinality(GuardsOver(n))
  BY <1>1, <1>2, FS_Subset
<1> QED BY <1>2, <1>3, FS_CardinalityType

\* The node at work has not been passed, and is passed by the next step.
LEMMA HereIsNext ==
  ASSUME TypeOK, OrdersOK, at <= Len(order)
  PROVE  /\ Here \in Nodes /\ ~Passed(Here)
         /\ \A i \in 1..Len(order) : order[i] = Here => i = at
<1>1. /\ order \in Seq(Nodes) /\ IsInjective(order) /\ at \in 1..Len(order)
      /\ DOMAIN order = 1..Len(order)
  BY DEF TypeOK, OrdersOK, Before
<1>2. Here \in Nodes
  BY <1>1 DEF Here
<1>3. \A i \in 1..Len(order) : order[i] = Here => i = at
  BY <1>1 DEF Here, IsInjective
<1>4. ~Passed(Here)
  BY <1>1, <1>3 DEF Passed
<1> QED BY <1>2, <1>3, <1>4

LEMMA PassesHere ==
  ASSUME TypeOK, at <= Len(order), at' = at + 1, order' = order
  PROVE  \A n : Passed(n)' <=> Passed(n) \/ n = Here
<1>1. order \in Seq(Nodes) /\ at \in 1..Len(order) /\ Len(order) \in Nat
  BY DEF TypeOK
<1>2. \A i \in 1..Len(order) : i < at + 1 <=> i < at \/ i = at
  BY <1>1
<1> QED BY <1>1, <1>2 DEF Passed, Here

LEMMA PassedSame ==
  ASSUME at' = at, order' = order
  PROVE  \A n : Passed(n)' <=> Passed(n)
BY DEF Passed

\* The part that has run of a chain.
LEMMA DidFirst ==
  ASSUME inner' = 1, NEW s \in Seq(Nodes)
  PROVE  \A n : ~ \E k \in 1..Len(s) : k < inner' /\ s[k] = n
OBVIOUS

LEMMA DidNext ==
  ASSUME TypeOK, NEW s \in Seq(Nodes), inner <= Len(s), inner' = inner + 1
  PROVE  \A n : (\E k \in 1..Len(s) : k < inner' /\ s[k] = n)
                  <=> Did(s, n) \/ n = s[inner]
<1>1. inner \in 1..Len(s) /\ Len(s) \in Nat
  BY DEF TypeOK
<1>2. \A k \in 1..Len(s) : k < inner + 1 <=> k < inner \/ k = inner
  BY <1>1
<1> QED BY <1>1, <1>2 DEF Did

LEMMA NotYetDone ==
  ASSUME TypeOK, NEW s \in Seq(Nodes), IsInjective(s), inner <= Len(s)
  PROVE  ~Did(s, s[inner]) /\ s[inner] \in ToSet(s)
<1>1. inner \in 1..Len(s) /\ DOMAIN s = 1..Len(s)
  BY DEF TypeOK
<1>2. \A k \in 1..Len(s) : s[k] = s[inner] => k = inner
  BY <1>1 DEF IsInjective
<1> QED BY <1>1, <1>2 DEF Did, ToSet

\* What is accounted for are numbers, each within its part of the bound.
LEMMA PartsInBound ==
  ASSUME IInv, ChainsOK, NEW n \in Nodes,
         pc = "body" => Len(batches) <= Batched
  PROVE  /\ MainRuns(n) \in Nat /\ MainRuns(n) <= (IF n \in Handled THEN 0 ELSE 1)
         /\ BodyRuns(n) \in Nat
         /\ BodyRuns(n) <= (IF n \in ToSet(body) THEN Len(Split(LoopNode(wf))) ELSE 0)
         /\ (IF n \in ToSet(body) THEN Len(Split(LoopNode(wf))) ELSE 0) \in Nat
         /\ DoneRuns(n) \in Nat /\ DoneRuns(n) <= (IF n \in ToSet(done) THEN 1 ELSE 0)
         /\ PastRetried(n) \in Nat /\ NowRetried(n) \in Nat
         /\ PastRetried(n) + NowRetried(n)
              <= Cardinality(GuardsOver(n)) * MaxIterations
         /\ Cardinality(GuardsOver(n)) * MaxIterations \in Nat
<1>1. TypeOK /\ DataOK /\ PlaceOK /\ OrdersOK /\ wf \in Graphs
  BY InGraph DEF IInv
<1>2. MainRuns(n) \in Nat /\ MainRuns(n) <= (IF n \in Handled THEN 0 ELSE 1)
  BY DEF MainRuns
<1>3. n \in ToSet(body) => Batched \in Nat
  <2>1. n \in ToSet(body) => Loops(wf) # {}
    BY DEF ChainsOK, ToSet
  <2> QED BY <1>1, <2>1, LoopNodeIs, SplitNat DEF Batched
<1>4. pc = "body" => Len(batches) \in Nat /\ Len(batches) >= 1
  BY <1>1, EmptySeq DEF PlaceOK, DataOK
<1>5. /\ BodyRuns(n) \in Nat
      /\ BodyRuns(n) <= (IF n \in ToSet(body) THEN Batched ELSE 0)
      /\ (IF n \in ToSet(body) THEN Batched ELSE 0) \in Nat
  <2> HIDE DEF Batched
  <2> QED BY <1>3, <1>4 DEF BodyRuns
<1>6. DoneRuns(n) \in Nat /\ DoneRuns(n) <= (IF n \in ToSet(done) THEN 1 ELSE 0)
  BY DEF DoneRuns
<1> DEFINE c == Cardinality(GuardsPassed(n))
           d == Cardinality(GuardsOver(n))
           M == MaxIterations
<1>7. c \in Nat /\ d \in Nat /\ c <= d /\ M \in Nat \ {0}
  BY GuardsFinite, NodeRunAssumption
<1>8. iteration \in 1..M
  BY <1>1 DEF TypeOK
<1>9. NowRetried(n) \in Nat /\ NowRetried(n) <= M
  BY <1>7, <1>8 DEF NowRetried
<1>10. NowRetried(n) # 0 => c + 1 <= d
  <2> SUFFICES ASSUME NowRetried(n) # 0 PROVE c + 1 <= d
    OBVIOUS
  <2>1. pc = "retry" /\ n \in RetryBodySet(wf, Here)
    BY DEF NowRetried
  <2>2. Here \in GuardsOver(n) /\ at <= Len(order)
    BY <1>1, <2>1 DEF GuardsOver, PlaceOK
  <2>3. Here \notin GuardsPassed(n)
    BY <1>1, <2>2, HereIsNext DEF GuardsPassed
  <2>4. IsFiniteSet(GuardsPassed(n) \cup {Here})
          /\ Cardinality(GuardsPassed(n) \cup {Here}) = c + 1
    BY <2>3, GuardsFinite, FS_AddElement
  <2>5. GuardsPassed(n) \cup {Here} \in SUBSET GuardsOver(n)
    BY <2>2 DEF GuardsPassed
  <2> QED BY <2>4, <2>5, GuardsFinite, FS_Subset
<1>11. /\ PastRetried(n) = c * M /\ c * M \in Nat /\ d * M \in Nat
       /\ (c + 1) * M = c * M + M
       /\ c * M <= d * M
       /\ c + 1 <= d => (c + 1) * M <= d * M
  <2> HIDE DEF c, d, M
  <2>1. c + 1 \in Nat
    BY <1>7
  <2>2. c * M \in Nat /\ d * M \in Nat /\ (c + 1) * M = c * M + M /\ c * M <= d * M
    BY <1>7, OneMore
  <2>3. c + 1 <= d => (c + 1) * M <= d * M
    BY <1>7, <2>1, OneMore
  <2> QED BY <2>2, <2>3 DEF PastRetried, c, M
<1>12. PastRetried(n) + NowRetried(n) <= d * M
  <2> DEFINE p == c * M
             q == d * M
             r == (c + 1) * M
             x == NowRetried(n)
             y == PastRetried(n)
  <2>1. /\ y = p /\ p \in Nat /\ q \in Nat /\ r = p + M /\ p <= q
        /\ c + 1 <= d => r <= q
        /\ x \in Nat /\ x <= M /\ (x # 0 => c + 1 <= d) /\ M \in Nat
    BY <1>7, <1>9, <1>10, <1>11
  <2> HIDE DEF p, q, r, x, y, c, d, M
  <2>2. y + x <= q
    BY <2>1
  <2> QED BY <2>2 DEF p, q, r, x, y
<1> HIDE DEF c, d, M
<1>13. PastRetried(n) \in Nat
  BY <1>11
<1> QED BY <1>2, <1>5, <1>6, <1>9, <1>11, <1>12, <1>13 DEF Batched, c, d, M

LEMMA AccountedInBound ==
  ASSUME IInv, ChainsOK, Accounted, pc = "body" => Len(batches) <= Batched
  PROVE  RunsAreBounded
<1> SUFFICES ASSUME NEW n \in Nodes
             PROVE  Len(ran[n]) <=
                      (IF n \in Handled THEN 0 ELSE 1)
                        + (IF n \in ToSet(body) THEN Len(Split(LoopNode(wf))) ELSE 0)
                        + (IF n \in ToSet(done) THEN 1 ELSE 0)
                        + Cardinality(GuardsOver(n)) * MaxIterations
  BY DEF RunsAreBounded
<1> DEFINE m == IF n \in Handled THEN 0 ELSE 1
           b == IF n \in ToSet(body) THEN Len(Split(LoopNode(wf))) ELSE 0
           d == IF n \in ToSet(done) THEN 1 ELSE 0
           g == Cardinality(GuardsOver(n)) * MaxIterations
           k == Len(ran[n])
<1>1. /\ MainRuns(n) \in Nat /\ MainRuns(n) <= m
      /\ BodyRuns(n) \in Nat /\ BodyRuns(n) <= b /\ b \in Nat
      /\ DoneRuns(n) \in Nat /\ DoneRuns(n) <= d
      /\ PastRetried(n) \in Nat /\ NowRetried(n) \in Nat
      /\ PastRetried(n) + NowRetried(n) <= g /\ g \in Nat
  BY PartsInBound
<1>2. k <= MainRuns(n) + BodyRuns(n) + DoneRuns(n) + (PastRetried(n) + NowRetried(n))
  BY DEF Accounted
<1>3. m \in Nat /\ d \in Nat /\ k \in Nat
  <2>1. ran[n] \in Seq(Seq(Items))
    BY DEF IInv, DataOK
  <2> QED BY <2>1
<1> HIDE DEF m, b, d, g, k
<1>4. k <= m + b + d + g
  BY <1>1, <1>2, <1>3
<1> QED BY <1>4 DEF m, b, d, g, k

\* How the parts move with the place of the main loop.
LEMMA PastMoves ==
  ASSUME IInv, UNCHANGED setup, at' = at \/ (at' = at + 1 /\ at <= Len(order)),
         NEW n \in Nodes
  PROVE  /\ PastRetried(n) \in Nat /\ PastRetried(n)' \in Nat
         /\ PastRetried(n)' >= PastRetried(n)
         /\ at' = at + 1 /\ Here \in GuardsOver(n) =>
              PastRetried(n)' >= PastRetried(n) + MaxIterations
<1> DEFINE c == Cardinality(GuardsPassed(n))
           e == Cardinality(GuardsPassed(n)')
           M == MaxIterations
<1>1. TypeOK /\ OrdersOK /\ order' = order /\ wf' = wf
  BY DEF IInv, setup
<1>2. at \in Nat /\ Len(order) \in Nat
  BY <1>1 DEF TypeOK
<1>3. GuardsOver(n)' = GuardsOver(n)
  BY <1>1 DEF GuardsOver
<1>4. \A g : Passed(g) => Passed(g)'
  BY <1>1, PassedSame, PassesHere
<1>5. /\ GuardsPassed(n) \subseteq GuardsPassed(n)'
      /\ GuardsPassed(n)' \in SUBSET GuardsOver(n)
  BY <1>3, <1>4 DEF GuardsPassed
<1>6. IsFiniteSet(GuardsPassed(n)') /\ e \in Nat /\ c \in Nat
  BY <1>5, GuardsFinite, FS_Subset, FS_CardinalityType
<1>7. c <= e
  BY <1>5, <1>6, FS_Subset
<1>8. at' = at + 1 /\ Here \in GuardsOver(n) => c + 1 <= e
  <2> SUFFICES ASSUME at' = at + 1, Here \in GuardsOver(n) PROVE c + 1 <= e
    OBVIOUS
  <2>1. at <= Len(order)
    BY <1>2
  <2> DEFINE S == GuardsPassed(n)
             T == GuardsPassed(n)'
  <2>2. PICK h : h = Here
    OBVIOUS
  <2>3. h \notin S /\ Passed(h)' /\ h \in T
    <3>1. h \notin S
      BY <1>1, <2>1, <2>2, HereIsNext DEF GuardsPassed
    <3>2. Passed(h)'
      BY <1>1, <2>1, <2>2, PassesHere
    <3>3. h \in GuardsOver(n)'
      BY <1>3, <2>2
    <3> QED BY <3>1, <3>2, <3>3 DEF GuardsPassed
  <2>4. IsFiniteSet(S \cup {h}) /\ Cardinality(S \cup {h}) = c + 1
    BY <2>3, GuardsFinite, FS_AddElement
  <2>5. S \cup {h} \in SUBSET T
    BY <1>5, <2>3
  <2> QED BY <1>6, <2>4, <2>5, FS_Subset
<1>9. M \in Nat
  BY NodeRunAssumption
<1>10. PastRetried(n) = c * M /\ PastRetried(n)' = e * M
  BY DEF PastRetried
<1> HIDE DEF c, e, M
<1>11. c * M \in Nat /\ e * M \in Nat /\ (c + 1) * M = c * M + M /\ c * M <= e * M
  BY <1>6, <1>7, <1>9, OneMore
<1>12. c + 1 <= e => (c + 1) * M <= e * M
  <2>1. c + 1 \in Nat
    BY <1>6
  <2> QED BY <1>6, <1>9, <2>1, OneMore
<1> DEFINE p == c * M
           q == e * M
           r == (c + 1) * M
<1>13. /\ p \in Nat /\ q \in Nat /\ r = p + M /\ p <= q /\ (c + 1 <= e => r <= q)
  BY <1>11, <1>12
<1> HIDE DEF p, q, r
<1>14. p <= q /\ (c + 1 <= e => p + M <= q)
  BY <1>13
<1> QED BY <1>8, <1>10, <1>13, <1>14 DEF p, q, M

LEMMA HandledKept ==
  ASSUME UNCHANGED setup
  PROVE  /\ Handled' = Handled /\ LoopNode(wf)' = LoopNode(wf)
         /\ Loops(wf)' = Loops(wf) /\ RetryGuards(wf)' = RetryGuards(wf)
BY DEF setup, Handled

\* No more batches than before are accounted for until a loop node runs again.
LEMMA BatchedGrows ==
  ASSUME IInv, UNCHANGED setup, Loops(wf) # {}, NEW l \in Nodes, l = LoopNode(wf),
         ran'[l] = ran[l] \/ ran'[l] = Append(ran[l], results[l])
  PROVE  /\ Batched \in Nat /\ Batched' \in Nat /\ Batched <= Batched'
         /\ ran'[l] = ran[l] => Batched' = Batched
<1>1. Batched = Len(SplitOf(ran[l])) /\ Batched' = Len(SplitOf(ran'[l]))
  BY HandledKept DEF Batched, Split, SplitOf
<1>2. ran[l] \in Seq(Seq(Items)) /\ results[l] \in Seq(Items)
  BY DEF IInv, DataOK
<1>3. Append(ran[l], results[l]) \in Seq(Seq(Items))
  BY <1>2
<1>4. /\ Len(SplitOf(ran[l])) \in Nat /\ Len(SplitOf(Append(ran[l], results[l]))) \in Nat
      /\ Len(SplitOf(ran[l])) <= Len(SplitOf(Append(ran[l], results[l])))
  BY <1>2, <1>3, SplitOfType
<1>5. CASE ran'[l] = ran[l]
  <2>1. Batched' = Batched
    BY <1>1, <1>5
  <2> QED BY <1>1, <1>4, <2>1
<1>6. CASE ran'[l] = Append(ran[l], results[l]) /\ ran'[l] # ran[l]
  <2>1. Batched' = Len(SplitOf(Append(ran[l], results[l])))
    BY <1>1, <1>6
  <2> QED BY <1>1, <1>4, <1>6, <2>1
<1> QED BY <1>5, <1>6

\* A loop with a node of its body or of its done chain is a node.
LEMMA ChainHasLoop ==
  ASSUME IInv, ChainsOK, NEW n, n \in ToSet(body) \/ n \in ToSet(done)
  PROVE  /\ Loops(wf) # {} /\ LoopNode(wf) \in Nodes /\ LoopNode(wf) \in Loops(wf)
         /\ n # LoopNode(wf)
<1>1. Loops(wf) # {}
  BY DEF ChainsOK, ToSet
<1>2. PICK l \in Loops(wf) : TRUE
  BY <1>1
<1>3. LoopNode(wf) = l /\ l \in Nodes
  BY LoopNodeIs DEF IInv
<1> QED BY <1>1, <1>2, <1>3 DEF ChainsOK

LEMMA LoopPassedMoves ==
  ASSUME TypeOK, UNCHANGED setup, at' = at \/ (at' = at + 1 /\ at <= Len(order))
  PROVE  /\ LoopPassed => LoopPassed'
         /\ at' = at => (LoopPassed' <=> LoopPassed)
         /\ at' = at + 1 /\ Here \in Loops(wf) => LoopPassed'
<1>1. order' = order /\ wf' = wf /\ at \in Nat /\ Len(order) \in Nat
  BY DEF TypeOK, setup
<1>2. /\ \A g : Passed(g) => Passed(g)'
      /\ at' = at => \A g : Passed(g)' <=> Passed(g)
  BY <1>1, PassedSame, PassesHere
<1>3. LoopPassed' <=> \E l \in Loops(wf) : Passed(l)'
  BY <1>1 DEF LoopPassed
<1>4. at' = at + 1 /\ Here \in Loops(wf) => LoopPassed'
  <2> SUFFICES ASSUME at' = at + 1, Here \in Loops(wf) PROVE LoopPassed'
    OBVIOUS
  <2>1. PICK h : h = Here
    OBVIOUS
  <2>2. at <= Len(order)
    BY <1>1
  <2>3. Passed(h)'
    BY <1>1, <2>1, <2>2, PassesHere
  <2> QED BY <1>3, <2>1, <2>3
<1> QED BY <1>2, <1>3, <1>4 DEF LoopPassed

LEMMA ChainsKept ==
  ASSUME ChainsOK, UNCHANGED setup, pc' \notin {"bodyOrder", "doneOrder"}
  PROVE  ChainsOK'
BY DEF ChainsOK, setup

\* The lengths of the histories when a node has run.
LEMMA RanLength ==
  ASSUME DataOK, NEW n \in Nodes, ran' = [ran EXCEPT ![n] = Append(@, results[n])]
  PROVE  /\ \A m \in Nodes : Len(ran[m]) \in Nat
         /\ \A m \in Nodes \ {n} : ran'[m] = ran[m]
         /\ ran'[n] = Append(ran[n], results[n])
         /\ Len(ran'[n]) = Len(ran[n]) + 1
<1>1. /\ ran \in [Nodes -> Seq(Seq(Items))] /\ results[n] \in Seq(Items)
      /\ ran[n] \in Seq(Seq(Items))
  BY DEF DataOK
<1>2. Len(Append(ran[n], results[n])) = Len(ran[n]) + 1
  BY <1>1
<1>3. \A m \in Nodes : Len(ran[m]) \in Nat
  BY <1>1
<1> QED BY <1>1, <1>2, <1>3

LEMMA SumNat == \A x, y \in Nat : x + y \in Nat
OBVIOUS

\* If no part is less than before, and one has grown as the history has, the
\* runs are still accounted for.
LEMMA PartsAddUp ==
  ASSUME NEW m \in Nodes, NEW d \in Nat,
         Len(ran[m]) \in Nat, Len(ran'[m]) \in Nat, Len(ran'[m]) <= Len(ran[m]) + d,
         MainRuns(m) \in Nat, BodyRuns(m) \in Nat, DoneRuns(m) \in Nat,
         PastRetried(m) \in Nat, NowRetried(m) \in Nat,
         Len(ran[m]) <= MainRuns(m) + BodyRuns(m) + DoneRuns(m)
                          + (PastRetried(m) + NowRetried(m)),
         MainRuns(m)' \in Nat, BodyRuns(m)' \in Nat, DoneRuns(m)' \in Nat,
         PastRetried(m)' + NowRetried(m)' \in Nat,
         MainRuns(m) <= MainRuns(m)', BodyRuns(m) <= BodyRuns(m)',
         DoneRuns(m) <= DoneRuns(m)',
         PastRetried(m) + NowRetried(m) <= PastRetried(m)' + NowRetried(m)',
         \/ MainRuns(m) + d <= MainRuns(m)'
         \/ BodyRuns(m) + d <= BodyRuns(m)'
         \/ DoneRuns(m) + d <= DoneRuns(m)'
         \/ PastRetried(m) + NowRetried(m) + d <= PastRetried(m)' + NowRetried(m)'
  PROVE  Len(ran'[m]) <= MainRuns(m)' + BodyRuns(m)' + DoneRuns(m)'
                           + (PastRetried(m)' + NowRetried(m)')
<1> DEFINE k == Len(ran[m])
           k1 == Len(ran'[m])
           a == MainRuns(m)
           a1 == MainRuns(m)'
           b == BodyRuns(m)
           b1 == BodyRuns(m)'
           c == DoneRuns(m)
           c1 == DoneRuns(m)'
           r == PastRetried(m) + NowRetried(m)
           r1 == PastRetried(m)' + NowRetried(m)'
<1>1. r \in Nat
  BY SumNat, Zenon
<1>2. /\ k \in Nat /\ k1 \in Nat /\ k1 <= k + d
      /\ a \in Nat /\ b \in Nat /\ c \in Nat /\ r \in Nat
      /\ a1 \in Nat /\ b1 \in Nat /\ c1 \in Nat /\ r1 \in Nat
      /\ a <= a1 /\ b <= b1 /\ c <= c1 /\ r <= r1
      /\ k <= a + b + c + r
      /\ a + d <= a1 \/ b + d <= b1 \/ c + d <= c1 \/ r + d <= r1
  BY <1>1, Zenon
<1> HIDE DEF k, k1, a, a1, b, b1, c, c1, r, r1
<1>3. k1 <= a1 + b1 + c1 + r1
  <2>1. CASE a + d <= a1
    BY <1>2, <2>1
  <2>2. CASE b + d <= b1
    BY <1>2, <2>2
  <2>3. CASE c + d <= c1
    BY <1>2, <2>3
  <2>4. CASE r + d <= r1
    BY <1>2, <2>4
  <2> QED BY <1>2, <2>1, <2>2, <2>3, <2>4
<1> QED BY <1>3 DEF k1, a1, b1, c1, r1

LEMMA MainRunsStep ==
  ASSUME IInv, RunsInv, NEW n \in Nodes,
         \/ Skip(n) \/ SkipInert(n)
         \/ \E out \in Outputs(n, results[n]) : RunNode(n, out)
  PROVE  RunsInv'
<1>1. TypeOK /\ DataOK /\ PlaceOK /\ OrdersOK /\ ChainsOK
  BY DEF IInv, RunsInv
<1>2. /\ n = Here /\ pc = "main" /\ pc' = "main" /\ at' = at + 1 /\ at <= Len(order)
      /\ UNCHANGED <<sort, setup, driver>>
  BY DEF Skip, SkipInert, RunNode, Main, NextNode
<1>3. \/ ran' = ran
      \/ n \notin Handled /\ ran' = [ran EXCEPT ![n] = Append(@, results[n])]
  BY DEF Skip, SkipInert, RunNode, Skipped, Ran, history
<1>4. Accounted
  BY <1>2 DEF RunsInv
<1>5. ASSUME NEW m \in Nodes
      PROVE  Len(ran'[m]) <= MainRuns(m)' + BodyRuns(m)' + DoneRuns(m)'
                               + (PastRetried(m)' + NowRetried(m)')
  <2> DEFINE d == IF ran' # ran /\ m = n THEN 1 ELSE 0
  <2>1. Len(ran[m]) \in Nat /\ Len(ran'[m]) \in Nat /\ Len(ran'[m]) <= Len(ran[m]) + d
        /\ d \in Nat
    <3>1. CASE ran' = ran
      BY <3>1, <1>1 DEF DataOK
    <3>2. CASE ran' # ran
      <4>1. ran' = [ran EXCEPT ![n] = Append(@, results[n])]
        BY <3>2, <1>3
      <4>2. Len(ran[m]) \in Nat
        BY <4>1, <1>1, RanLength
      <4>3. CASE m = n
        BY <3>2, <4>1, <4>2, <4>3, <1>1, RanLength
      <4>4. CASE m # n
        BY <3>2, <4>1, <4>2, <4>4, <1>1, RanLength
      <4> QED BY <4>3, <4>4
    <3> QED BY <3>1, <3>2
  <2>2. MainRuns(m) \in Nat /\ BodyRuns(m) \in Nat /\ DoneRuns(m) \in Nat
        /\ PastRetried(m) \in Nat /\ NowRetried(m) \in Nat
    BY <1>1, <1>2, PartsInBound
  <2>3. Passed(m)' <=> Passed(m) \/ m = n
    BY <1>1, <1>2, PassesHere DEF setup
  <2>4. ~Passed(n)
    BY <1>1, <1>2, HereIsNext
  <2>5. MainRuns(m)' \in Nat /\ MainRuns(m) + d <= MainRuns(m)'
    <3>1. MainRuns(m) = IF m \notin Handled /\ Passed(m) THEN 1 ELSE 0
      BY <1>2 DEF MainRuns
    <3>2. MainRuns(m)' = IF m \notin Handled /\ (Passed(m) \/ m = n) THEN 1 ELSE 0
      BY <1>2, <2>3, HandledKept DEF MainRuns
    <3>3. d = 1 => m = n /\ n \notin Handled
      BY <1>3
    <3>4. d \in {0, 1}
      OBVIOUS
    <3> HIDE DEF d
    <3> QED BY <2>4, <3>1, <3>2, <3>3, <3>4
  <2>6. LoopPassed => LoopPassed'
    BY <1>1, <1>2, LoopPassedMoves
  <2>7. BodyRuns(m)' \in Nat /\ BodyRuns(m) <= BodyRuns(m)'
    <3>1. BodyRuns(m) = IF m \notin ToSet(body) THEN 0
                        ELSE IF LoopPassed THEN Batched ELSE 0
      BY <1>2 DEF BodyRuns
    <3>2. BodyRuns(m)' = IF m \notin ToSet(body) THEN 0
                         ELSE IF LoopPassed' THEN Batched' ELSE 0
      BY <1>2 DEF BodyRuns, setup
    <3>3. ASSUME m \in ToSet(body)
          PROVE  Batched \in Nat /\ Batched' \in Nat /\ Batched <= Batched'
      <4>1. /\ Loops(wf) # {} /\ LoopNode(wf) \in Nodes
        BY <1>1, <3>3, ChainHasLoop
      <4>2. PICK l \in Nodes : l = LoopNode(wf)
        BY <4>1
      <4>3. ran'[l] = ran[l] \/ ran'[l] = Append(ran[l], results[l])
        BY <1>1, <1>3, RanLength
      <4> QED BY <1>2, <4>1, <4>2, <4>3, BatchedGrows
    <3> QED BY <2>6, <3>1, <3>2, <3>3
  <2>8. DoneRuns(m)' \in Nat /\ DoneRuns(m) <= DoneRuns(m)'
    <3>1. DoneRuns(m) = IF m \notin ToSet(done) THEN 0 ELSE IF LoopPassed THEN 1 ELSE 0
      BY <1>2 DEF DoneRuns
    <3>2. DoneRuns(m)' = IF m \notin ToSet(done) THEN 0 ELSE IF LoopPassed' THEN 1 ELSE 0
      BY <1>2 DEF DoneRuns, setup
    <3> QED BY <2>6, <3>1, <3>2
  <2>9. PastRetried(m)' \in Nat /\ PastRetried(m) <= PastRetried(m)'
    BY <1>2, PastMoves
  <2>10. NowRetried(m) = 0 /\ NowRetried(m)' = 0
    BY <1>2 DEF NowRetried
  <2>11. Len(ran[m]) <= MainRuns(m) + BodyRuns(m) + DoneRuns(m)
                          + (PastRetried(m) + NowRetried(m))
    BY <1>4 DEF Accounted
  <2> HIDE DEF d
  <2>12. /\ PastRetried(m)' + NowRetried(m)' \in Nat
         /\ PastRetried(m) + NowRetried(m) <= PastRetried(m)' + NowRetried(m)'
         /\ MainRuns(m) <= MainRuns(m)'
    BY <2>1, <2>2, <2>5, <2>9, <2>10
  <2> QED BY <2>1, <2>2, <2>5, <2>7, <2>8, <2>9, <2>11, <2>12, PartsAddUp
<1>6. Accounted'
  BY <1>5 DEF Accounted
<1> QED BY <1>1, <1>2, <1>6, ChainsKept DEF RunsInv, Sorts

\* What a step inside a driver leaves as it was.
LEMMA DriverFrame ==
  ASSUME IInv, RunsInv, UNCHANGED setup, at' = at,
         pc \in {"body", "done", "retry", "main"}, NEW m \in Nodes
  PROVE  /\ MainRuns(m) \in Nat /\ BodyRuns(m) \in Nat /\ DoneRuns(m) \in Nat
         /\ PastRetried(m) \in Nat /\ NowRetried(m) \in Nat
         /\ PastRetried(m)' \in Nat /\ PastRetried(m) <= PastRetried(m)'
         /\ Len(ran[m]) <= MainRuns(m) + BodyRuns(m) + DoneRuns(m)
                             + (PastRetried(m) + NowRetried(m))
         /\ LoopPassed' <=> LoopPassed
         /\ MainRuns(m)' \in Nat
         /\ (pc \in {"body", "done"} <=> pc' \in {"body", "done"}) =>
              MainRuns(m)' = MainRuns(m)
<1>1. TypeOK /\ ChainsOK /\ Accounted /\ order' = order
  BY DEF IInv, RunsInv, setup
<1>2. /\ MainRuns(m) \in Nat /\ BodyRuns(m) \in Nat /\ DoneRuns(m) \in Nat
      /\ PastRetried(m) \in Nat /\ NowRetried(m) \in Nat
  BY <1>1, PartsInBound DEF RunsInv
<1>3. PastRetried(m)' \in Nat /\ PastRetried(m) <= PastRetried(m)'
  BY <1>2, PastMoves
<1>4. LoopPassed' <=> LoopPassed
  BY <1>1, LoopPassedMoves
<1>5. (Passed(m)' <=> Passed(m)) /\ Handled' = Handled /\ Here' = Here
  BY <1>1, PassedSame, HandledKept DEF Here
<1>6. /\ MainRuns(m)' \in Nat
      /\ (pc \in {"body", "done"} <=> pc' \in {"body", "done"}) =>
           MainRuns(m)' = MainRuns(m)
  BY <1>5 DEF MainRuns
<1> QED BY <1>1, <1>2, <1>3, <1>4, <1>6 DEF Accounted

\* A node of a chain is skipped or run.
LEMMA ChainRunsStep ==
  ASSUME IInv, RunsInv, NEW n \in Nodes,
         \/ SkipChainNode("body", body, n) \/ SkipChainNode("done", done, n)
         \/ pc = "retry" /\ SkipChainNode("retry", Retried, n)
         \/ \E out \in Outputs(n, results[n]) :
              \/ RunChainNode("body", body, n, out)
              \/ RunChainNode("done", done, n, out)
              \/ RunRetryNode(n, out)
  PROVE  RunsInv'
<1>1. TypeOK /\ DataOK /\ PlaceOK /\ OrdersOK /\ ChainsOK /\ wf \in Graphs
  BY InGraph DEF IInv, RunsInv
<1> DEFINE chain == CASE pc = "body" -> body [] pc = "done" -> done [] OTHER -> Retried
<1>2. /\ pc \in {"body", "done", "retry"} /\ pc' = pc /\ inner' = inner + 1
      /\ inner <= Len(chain) /\ n = chain[inner]
      /\ UNCHANGED <<sort, setup, at, batches, iteration>>
  BY DEF SkipChainNode, RunChainNode, RunRetryNode, ChainNode
<1>3. ran' = ran \/ ran' = [ran EXCEPT ![n] = Append(@, results[n])]
  BY DEF SkipChainNode, RunChainNode, RunRetryNode, Ran, history
<1>4. /\ chain \in Seq(Nodes) /\ IsInjective(chain)
      /\ pc = "retry" => Retried \in Seq(Nodes) /\ ToSet(Retried) = RetryBodySet(wf, Here)
  <2>1. pc = "retry" => /\ Retried \in Seq(Nodes) /\ IsInjective(Retried)
                        /\ ToSet(Retried) = RetryBodySet(wf, Here)
    BY <1>1, GuardFacts DEF PlaceOK, Retried
  <2>2. body \in Seq(Nodes) /\ IsInjective(body) /\ done \in Seq(Nodes) /\ IsInjective(done)
    BY <1>1 DEF DataOK, OrdersOK, Before
  <2> QED BY <1>2, <2>1, <2>2
<1>5. ~Did(chain, n) /\ n \in ToSet(chain)
  BY <1>1, <1>2, <1>4, NotYetDone
<1>6. \A m : (\E k \in 1..Len(chain) : k < inner' /\ chain[k] = m) <=> Did(chain, m) \/ m = n
  BY <1>1, <1>2, <1>4, DidNext
<1>7. ChainsOK'
  BY <1>1, <1>2, ChainsKept
<1>8. ASSUME Loops(wf) # {}
      PROVE  Batched \in Nat /\ Batched' \in Nat /\ Batched <= Batched'
  <2>1. PICK l \in Nodes : l = LoopNode(wf)
    <3>1. PICK l \in Loops(wf) : TRUE
      BY <1>8
    <3> QED BY <1>1, <3>1, LoopNodeIs
  <2>2. ran'[l] = ran[l] \/ ran'[l] = Append(ran[l], results[l])
    BY <1>1, <1>3, RanLength
  <2> QED BY <1>2, <1>8, <2>1, <2>2, BatchedGrows
<1>9. ASSUME NEW m \in Nodes
      PROVE  Len(ran'[m]) <= MainRuns(m)' + BodyRuns(m)' + DoneRuns(m)'
                               + (PastRetried(m)' + NowRetried(m)')
  <2> DEFINE d == IF m = n THEN 1 ELSE 0
  <2>1. Len(ran[m]) \in Nat /\ Len(ran'[m]) \in Nat /\ Len(ran'[m]) <= Len(ran[m]) + d
        /\ d \in Nat
    <3>1. Len(ran[m]) \in Nat
      BY <1>1 DEF DataOK
    <3>2. CASE ran' = ran
      <4>1. Len(ran'[m]) = Len(ran[m]) /\ d \in Nat
        BY <3>2
      <4> HIDE DEF d
      <4> QED BY <3>1, <4>1
    <3>3. CASE ran' = [ran EXCEPT ![n] = Append(@, results[n])]
      <4>1. CASE m = n
        BY <3>1, <3>3, <4>1, <1>1, RanLength
      <4>2. CASE m # n
        BY <3>1, <3>3, <4>2, <1>1, RanLength
      <4> QED BY <4>1, <4>2
    <3> QED BY <1>3, <3>2, <3>3
  <2>2. /\ MainRuns(m) \in Nat /\ BodyRuns(m) \in Nat /\ DoneRuns(m) \in Nat
        /\ PastRetried(m) \in Nat /\ NowRetried(m) \in Nat
        /\ PastRetried(m)' \in Nat /\ PastRetried(m) <= PastRetried(m)'
        /\ Len(ran[m]) <= MainRuns(m) + BodyRuns(m) + DoneRuns(m)
                            + (PastRetried(m) + NowRetried(m))
        /\ LoopPassed' <=> LoopPassed
        /\ MainRuns(m)' = MainRuns(m)
    BY <1>2, DriverFrame
  <2>3. m \in ToSet(body) => Loops(wf) # {}
    BY <1>1, ChainHasLoop
  <2>4. (\E k \in 1..Len(chain) : k < inner' /\ chain[k] = m) <=> Did(chain, m) \/ m = n
    BY <1>6
  <2>5. d \in {0, 1} /\ (d = 1 <=> m = n)
    OBVIOUS
  <2> HIDE DEF d
  <2>6. CASE pc = "body"
    <3>1. chain = body /\ body' = body /\ done' = done
      BY <1>2, <2>6 DEF setup
    <3>2. Did(body, m)' <=> Did(body, m) \/ m = n
      BY <2>4, <3>1 DEF Did
    <3>3. BodyRuns(m) = IF m \notin ToSet(body) THEN 0
                        ELSE Batched - Len(batches) + (IF Did(body, m) THEN 1 ELSE 0)
      BY <2>6 DEF BodyRuns
    <3>4. BodyRuns(m)' = IF m \notin ToSet(body) THEN 0
                         ELSE Batched' - Len(batches) + (IF Did(body, m)' THEN 1 ELSE 0)
      BY <1>2, <2>6, <3>1 DEF BodyRuns
    <3>5. m = n => m \in ToSet(body) /\ ~Did(body, m)
      BY <1>5, <3>1
    <3>6. Len(batches) \in Nat /\ (m \in ToSet(body) => Len(batches) <= Batched)
      BY <1>1, <2>6 DEF DataOK, RunsInv
    <3>7. BodyRuns(m)' \in Nat /\ BodyRuns(m) + d <= BodyRuns(m)'
            /\ BodyRuns(m) <= BodyRuns(m)'
      <4>1. CASE m \notin ToSet(body)
        <5>1. BodyRuns(m) = 0 /\ BodyRuns(m)' = 0 /\ d = 0
          BY <2>5, <3>3, <3>4, <3>5, <4>1
        <5> QED BY <5>1
      <4>2. CASE m \in ToSet(body)
        <5> DEFINE x == IF Did(body, m) THEN 1 ELSE 0
                   x1 == IF Did(body, m)' THEN 1 ELSE 0
                   e == Batched
                   e1 == Batched'
                   k == Len(batches)
        <5>1. x \in Nat /\ x1 \in Nat /\ x + d <= x1
          BY <2>5, <3>2, <3>5
        <5>2. /\ e \in Nat /\ e1 \in Nat /\ e <= e1 /\ k \in Nat /\ k <= e
              /\ BodyRuns(m) = e - k + x /\ BodyRuns(m)' = e1 - k + x1
          BY <1>8, <2>3, <3>3, <3>4, <3>6, <4>2
        <5>3. d \in Nat
          BY <2>5
        <5> HIDE DEF x, x1, e, e1, k
        <5>4. e1 - k + x1 \in Nat /\ e - k + x + d <= e1 - k + x1 /\ e - k + x <= e1 - k + x1
          BY <5>1, <5>2, <5>3
        <5> QED BY <5>2, <5>4
      <4> QED BY <4>1, <4>2
    <3>8. DoneRuns(m)' = DoneRuns(m)
      BY <1>2, <2>2, <2>6, <3>1 DEF DoneRuns
    <3>9. NowRetried(m) = 0 /\ NowRetried(m)' = 0
      BY <1>2, <2>6 DEF NowRetried
    <3>10. /\ PastRetried(m)' + NowRetried(m)' \in Nat
           /\ PastRetried(m) + NowRetried(m) <= PastRetried(m)' + NowRetried(m)'
           /\ MainRuns(m)' \in Nat /\ MainRuns(m) <= MainRuns(m)'
           /\ DoneRuns(m)' \in Nat /\ DoneRuns(m) <= DoneRuns(m)'
      BY <2>2, <3>8, <3>9
    <3> QED BY <2>1, <2>2, <3>7, <3>10, PartsAddUp
  <2>7. CASE pc = "done"
    <3>1. chain = done /\ body' = body /\ done' = done
      BY <1>2, <2>7 DEF setup
    <3>2. Did(done, m)' <=> Did(done, m) \/ m = n
      BY <2>4, <3>1 DEF Did
    <3>3. BodyRuns(m) = IF m \notin ToSet(body) THEN 0 ELSE Batched
      BY <2>7 DEF BodyRuns
    <3>4. BodyRuns(m)' = IF m \notin ToSet(body) THEN 0 ELSE Batched'
      BY <1>2, <2>7, <3>1 DEF BodyRuns
    <3>5. m = n => m \in ToSet(done) /\ ~Did(done, m)
      BY <1>5, <3>1
    <3>6. BodyRuns(m)' \in Nat /\ BodyRuns(m) <= BodyRuns(m)'
      BY <1>8, <2>2, <2>3, <3>3, <3>4
    <3>7. DoneRuns(m) = IF m \notin ToSet(done) THEN 0 ELSE IF Did(done, m) THEN 1 ELSE 0
      BY <2>7 DEF DoneRuns
    <3>8. DoneRuns(m)' = IF m \notin ToSet(done) THEN 0
                         ELSE IF Did(done, m)' THEN 1 ELSE 0
      BY <1>2, <2>7, <3>1 DEF DoneRuns
    <3>9. NowRetried(m) = 0 /\ NowRetried(m)' = 0
      BY <1>2, <2>7 DEF NowRetried
    <3>10. /\ PastRetried(m)' + NowRetried(m)' \in Nat
           /\ PastRetried(m) + NowRetried(m) <= PastRetried(m)' + NowRetried(m)'
           /\ MainRuns(m)' \in Nat /\ MainRuns(m) <= MainRuns(m)'
      BY <2>2, <3>9
    <3>11. DoneRuns(m)' \in Nat /\ DoneRuns(m) + d <= DoneRuns(m)'
             /\ DoneRuns(m) <= DoneRuns(m)'
      BY <2>5, <3>2, <3>5, <3>7, <3>8
    <3> QED BY <2>1, <2>2, <3>6, <3>10, <3>11, PartsAddUp
  <2>8. CASE pc = "retry"
    <3>1. /\ chain = Retried /\ body' = body /\ done' = done /\ wf' = wf
          /\ Here' = Here /\ Retried' = Retried
      BY <1>2, <2>8 DEF setup, Here, Retried
    <3>2. Did(Retried, m)' <=> Did(Retried, m) \/ m = n
      BY <2>4, <3>1 DEF Did
    <3>3. BodyRuns(m) = IF m \notin ToSet(body) THEN 0
                        ELSE IF LoopPassed THEN Batched ELSE 0
      BY <2>8 DEF BodyRuns
    <3>4. BodyRuns(m)' = IF m \notin ToSet(body) THEN 0
                         ELSE IF LoopPassed' THEN Batched' ELSE 0
      BY <1>2, <2>8, <3>1 DEF BodyRuns
    <3>5. m = n => m \in RetryBodySet(wf, Here) /\ ~Did(Retried, m)
      BY <1>4, <1>5, <2>8, <3>1
    <3>6. BodyRuns(m)' \in Nat /\ BodyRuns(m) <= BodyRuns(m)'
      BY <1>8, <2>2, <2>3, <3>3, <3>4
    <3>7. DoneRuns(m)' = DoneRuns(m)
      BY <1>2, <2>2, <2>8, <3>1 DEF DoneRuns
    <3>8. NowRetried(m) = IF m \in RetryBodySet(wf, Here)
                          THEN iteration - 1 + (IF Did(Retried, m) THEN 1 ELSE 0) ELSE 0
      BY <2>8 DEF NowRetried
    <3>9. NowRetried(m)' = IF m \in RetryBodySet(wf, Here)
                           THEN iteration - 1 + (IF Did(Retried, m)' THEN 1 ELSE 0) ELSE 0
      BY <1>2, <2>8, <3>1 DEF NowRetried
    <3>10. iteration \in Nat /\ iteration >= 1
      BY <1>1, NodeRunAssumption DEF TypeOK
    <3>11. NowRetried(m)' \in Nat /\ NowRetried(m) + d <= NowRetried(m)'
      BY <2>5, <3>2, <3>5, <3>8, <3>9, <3>10
    <3>12. /\ PastRetried(m)' + NowRetried(m)' \in Nat
           /\ PastRetried(m) + NowRetried(m) <= PastRetried(m)' + NowRetried(m)'
           /\ PastRetried(m) + NowRetried(m) + d <= PastRetried(m)' + NowRetried(m)'
           /\ MainRuns(m)' \in Nat /\ MainRuns(m) <= MainRuns(m)'
           /\ DoneRuns(m)' \in Nat /\ DoneRuns(m) <= DoneRuns(m)'
      <4> DEFINE p == PastRetried(m)
                 p1 == PastRetried(m)'
                 q == NowRetried(m)
                 q1 == NowRetried(m)'
      <4>1. /\ p \in Nat /\ p1 \in Nat /\ p <= p1 /\ q \in Nat /\ q1 \in Nat /\ q + d <= q1
            /\ d \in Nat
        BY <2>1, <2>2, <3>11
      <4>2. /\ MainRuns(m)' \in Nat /\ MainRuns(m) <= MainRuns(m)'
            /\ DoneRuns(m)' \in Nat /\ DoneRuns(m) <= DoneRuns(m)'
        BY <2>2, <3>7
      <4> HIDE DEF p, p1, q, q1
      <4>3. p1 + q1 \in Nat /\ p + q <= p1 + q1 /\ p + q + d <= p1 + q1
        BY <4>1
      <4> QED BY <4>2, <4>3 DEF p, p1, q, q1
    <3> QED BY <2>1, <2>2, <3>6, <3>12, PartsAddUp
  <2> QED BY <1>2, <2>6, <2>7, <2>8
<1>10. Accounted'
  BY <1>9 DEF Accounted
<1>11. pc' = "body" => ran'[LoopNode(wf)'] # <<>> /\ Len(batches') <= Batched'
  <2> SUFFICES ASSUME pc = "body"
               PROVE  ran'[LoopNode(wf)'] # <<>> /\ Len(batches') <= Batched'
    BY <1>2
  <2>1. Loops(wf) # {} /\ LoopNode(wf) \in Nodes
    BY <1>1, LoopNodeIs DEF PlaceOK
  <2>2. PICK l \in Nodes : l = LoopNode(wf)
    BY <2>1
  <2>3. ran[l] # <<>> /\ Len(batches) <= Batched /\ Len(batches) \in Nat
    BY <1>1, <2>2 DEF RunsInv, DataOK
  <2>4. ran'[l] # <<>>
    <3>1. ran'[l] = ran[l] \/ ran'[l] = Append(ran[l], results[l])
      BY <1>1, <1>3, RanLength
    <3>2. ran[l] \in Seq(Seq(Items)) /\ results[l] \in Seq(Items)
      BY <1>1 DEF DataOK
    <3>3. Append(ran[l], results[l]) # <<>>
      <4>1. Len(Append(ran[l], results[l])) = Len(ran[l]) + 1 /\ Len(ran[l]) \in Nat
        BY <3>2
      <4> DEFINE q == Append(ran[l], results[l])
      <4>2. Len(q) # 0
        BY <4>1
      <4> HIDE DEF q
      <4>3. q # <<>>
        BY <4>2
      <4> QED BY <4>3 DEF q
    <3> QED BY <2>3, <3>1, <3>3
  <2>5. LoopNode(wf)' = l
    BY <1>2, <2>2, HandledKept
  <2> QED BY <1>2, <1>8, <2>1, <2>3, <2>4, <2>5
<1> QED BY <1>2, <1>7, <1>10, <1>11 DEF RunsInv, Sorts

\* A loop node that is run by the main loop has not been run.
LEMMA LoopHasNotRun ==
  ASSUME IInv, RunsInv, pc = "main", at <= Len(order), NEW l \in Loops(wf),
         l = Here, l \notin Handled
  PROVE  ran[l] = <<>> /\ ~LoopPassed
<1>1. /\ TypeOK /\ DataOK /\ OrdersOK /\ ChainsOK /\ Accounted
      /\ l \in Nodes /\ \A k \in Loops(wf) : k = l
  BY InGraph, LoopNodeIs DEF IInv, RunsInv
<1>2. ~Passed(l)
  BY <1>1, HereIsNext
<1>3. ~LoopPassed
  BY <1>1, <1>2 DEF LoopPassed
<1>4. MainRuns(l) = 0
  BY <1>2 DEF MainRuns
<1>5. BodyRuns(l) = 0 /\ DoneRuns(l) = 0
  BY <1>1 DEF BodyRuns, DoneRuns, ChainsOK
<1>6. NowRetried(l) = 0
  BY DEF NowRetried
<1>7. PastRetried(l) = 0
  <2>1. GuardsPassed(l) = {}
    BY DEF GuardsPassed, GuardsOver, Handled
  <2>2. Cardinality({}) = 0
    BY FS_EmptySet
  <2>3. 0 * MaxIterations = 0
    BY NodeRunAssumption
  <2> QED BY <2>1, <2>2, <2>3 DEF PastRetried
<1>8. Len(ran[l]) <= 0
  BY <1>1, <1>4, <1>5, <1>6, <1>7 DEF Accounted
<1>9. ran[l] \in Seq(Seq(Items))
  BY <1>1 DEF DataOK
<1>10. Len(ran[l]) = 0
  BY <1>8, <1>9
<1> QED BY <1>3, <1>9, <1>10, EmptySeq

LEMMA StartLoopRuns ==
  ASSUME IInv, RunsInv, NEW n \in Nodes, StartLoop(n)
  PROVE  RunsInv'
<1>1. TypeOK /\ DataOK /\ PlaceOK /\ OrdersOK /\ ChainsOK /\ wf \in Graphs
  BY InGraph DEF IInv, RunsInv
<1>2. /\ pc = "main" /\ at <= Len(order) /\ n = Here /\ n \notin Handled
      /\ n \in Loops(wf) /\ results[n] # <<>> /\ pc' = "body" /\ inner' = 1
      /\ batches' = SplitIntoBatches(results[n])
      /\ ran' = [ran EXCEPT ![n] = Append(@, results[n])]
      /\ UNCHANGED <<sort, setup, at>>
  BY DEF StartLoop, Main, Skipped, Loops
<1>3. ran[n] = <<>> /\ ~LoopPassed
  BY <1>2, LoopHasNotRun
<1>4. LoopNode(wf) = n /\ LoopNode(wf)' = n
  BY <1>1, <1>2, LoopNodeIs, HandledKept
<1>5. ran'[n] # <<>> /\ Batched' = Len(batches') /\ Len(batches') \in Nat
  <2>1. results[n] \in Seq(Items) /\ ran'[n] = Append(<<>>, results[n])
    BY <1>1, <1>2, <1>3 DEF DataOK
  <2>2. Append(<<>>, results[n]) # <<>> /\ Append(<<>>, results[n])[1] = results[n]
    BY <2>1
  <2>3. Batched' = Len(SplitIntoBatches(results[n]))
    <3>1. Batched' = Len(SplitOf(ran'[n]))
      BY <1>4 DEF Batched, Split, SplitOf
    <3>2. SplitOf(ran'[n]) = SplitIntoBatches(results[n])
      BY <2>1, <2>2 DEF SplitOf
    <3> QED BY <3>1, <3>2
  <2>4. SplitIntoBatches(results[n]) \in Seq(Seq(Items))
    BY <2>1, SplitType
  <2>5. ran'[n] # <<>>
    BY <2>1, <2>2
  <2>6. batches' = SplitIntoBatches(results[n])
    BY <1>2
  <2>7. Len(SplitIntoBatches(results[n])) \in Nat
    BY <2>4
  <2> QED BY <2>3, <2>5, <2>6, <2>7
<1>6. ASSUME NEW m \in Nodes
      PROVE  Len(ran'[m]) <= MainRuns(m)' + BodyRuns(m)' + DoneRuns(m)'
                               + (PastRetried(m)' + NowRetried(m)')
  <2> DEFINE d == IF m = n THEN 1 ELSE 0
  <2>1. Len(ran[m]) \in Nat /\ Len(ran'[m]) \in Nat /\ Len(ran'[m]) <= Len(ran[m]) + d
        /\ d \in Nat
    <3>1. CASE m = n
      BY <3>1, <1>1, <1>2, RanLength
    <3>2. CASE m # n
      BY <3>2, <1>1, <1>2, RanLength
    <3> QED BY <3>1, <3>2
  <2>2. /\ MainRuns(m) \in Nat /\ BodyRuns(m) \in Nat /\ DoneRuns(m) \in Nat
        /\ PastRetried(m) \in Nat /\ NowRetried(m) \in Nat
        /\ PastRetried(m)' \in Nat /\ PastRetried(m) <= PastRetried(m)'
        /\ Len(ran[m]) <= MainRuns(m) + BodyRuns(m) + DoneRuns(m)
                            + (PastRetried(m) + NowRetried(m))
        /\ LoopPassed' <=> LoopPassed
    BY <1>2, DriverFrame
  <2>3. (Passed(m)' <=> Passed(m)) /\ Handled' = Handled /\ Here' = n /\ ~Passed(n)
    BY <1>1, <1>2, PassedSame, HandledKept, HereIsNext DEF Here, setup
  <2>4. d = 1 => m = n
    OBVIOUS
  <2>5. d \in {0, 1}
    OBVIOUS
  <2> HIDE DEF d
  <2>6. MainRuns(m) = IF m \notin Handled /\ Passed(m) THEN 1 ELSE 0
    BY <1>2 DEF MainRuns
  <2>7. MainRuns(m)' = IF m \notin Handled /\ (Passed(m) \/ m = n) THEN 1 ELSE 0
    BY <1>2, <2>3 DEF MainRuns
  <2>8. MainRuns(m)' \in Nat /\ MainRuns(m) + d <= MainRuns(m)' /\ MainRuns(m) <= MainRuns(m)'
    BY <1>2, <2>3, <2>4, <2>5, <2>6, <2>7
  <2>9. BodyRuns(m) = 0 /\ BodyRuns(m)' = 0
    <3>1. BodyRuns(m) = 0
      BY <1>2, <1>3 DEF BodyRuns
    <3>2. ~Did(body, m)'
      <4>1. body \in Seq(Nodes) /\ body' = body
        BY <1>1, <1>2 DEF DataOK, setup
      <4>2. ~ \E k \in 1..Len(body) : k < inner' /\ body[k] = m
        BY <1>2, <4>1, DidFirst
      <4> QED BY <4>1, <4>2 DEF Did
    <3>3. BodyRuns(m)' = 0
      BY <1>2, <1>5, <3>2 DEF BodyRuns
    <3> QED BY <3>1, <3>3
  <2>10. DoneRuns(m) = 0 /\ DoneRuns(m)' = 0 /\ NowRetried(m) = 0 /\ NowRetried(m)' = 0
    BY <1>2, <1>3, <2>2 DEF DoneRuns, NowRetried
  <2>11. /\ PastRetried(m)' + NowRetried(m)' \in Nat
         /\ PastRetried(m) + NowRetried(m) <= PastRetried(m)' + NowRetried(m)'
         /\ BodyRuns(m)' \in Nat /\ BodyRuns(m) <= BodyRuns(m)'
         /\ DoneRuns(m)' \in Nat /\ DoneRuns(m) <= DoneRuns(m)'
    BY <2>2, <2>9, <2>10
  <2> QED BY <2>1, <2>2, <2>8, <2>11, PartsAddUp
<1>7. Accounted'
  BY <1>6 DEF Accounted
<1> QED BY <1>1, <1>2, <1>4, <1>5, <1>7, ChainsKept DEF RunsInv, Sorts

\* A batch or the done chain ends.
LEMMA EndRuns ==
  ASSUME IInv, RunsInv, EndBatch \/ EndDone
  PROVE  RunsInv'
<1>1. /\ TypeOK /\ DataOK /\ PlaceOK /\ OrdersOK /\ ChainsOK /\ wf \in Graphs
      /\ body \in Seq(Nodes) /\ done \in Seq(Nodes)
  BY InGraph DEF IInv, RunsInv, DataOK
<1>2. /\ pc \in {"body", "done"} /\ UNCHANGED <<sort, setup, iteration, ran>>
      /\ body' = body /\ done' = done /\ wf' = wf
  BY DEF EndBatch, EndDone, driver, history, setup
<1>3. /\ Here \in Loops(wf) /\ LoopNode(wf) = Here /\ Here \in Nodes /\ at <= Len(order)
      /\ ~LoopPassed
  <2>1. Here \in Loops(wf) /\ at <= Len(order)
    BY <1>1, <1>2 DEF PlaceOK
  <2>2. LoopNode(wf) = Here /\ \A k \in Loops(wf) : k = Here
    BY <1>1, <2>1, LoopNodeIs, InGraph
  <2>3. Here \in Nodes /\ ~Passed(Here)
    BY <1>1, <2>1, HereIsNext
  <2> QED BY <2>1, <2>2, <2>3 DEF LoopPassed
<1>4. Batched' = Batched /\ Batched \in Nat
  <2>1. PICK l \in Nodes : l = LoopNode(wf)
    BY <1>3
  <2> QED BY <1>2, <1>3, <2>1, BatchedGrows
<1>5. \A m \in Nodes : Len(ran[m]) \in Nat
  BY <1>1 DEF DataOK
<1>6. CASE EndBatch
  <2>1. /\ pc = "body" /\ batches' = Tail(batches) /\ inner' = 1 /\ at' = at
        /\ IF MoreBatches THEN pc' = "body" ELSE pc' = "done"
    BY <1>6 DEF EndBatch
  <2> DEFINE k == Len(batches)
  <2>2. /\ k \in Nat /\ k >= 1 /\ Len(batches') = k - 1 /\ k <= Batched
        /\ ran[LoopNode(wf)] # <<>> /\ (pc' = "body" => k >= 2)
    <3>1. batches \in Seq(Seq(Items)) /\ batches # <<>>
      BY <1>1, <2>1 DEF DataOK, PlaceOK
    <3>2. Len(batches') = k - 1 /\ k \in Nat /\ k >= 1
      BY <2>1, <3>1, EmptySeq
    <3>3. k <= Batched /\ ran[LoopNode(wf)] # <<>>
      BY <2>1 DEF RunsInv
    <3> QED BY <2>1, <3>2, <3>3 DEF MoreBatches
  <2> HIDE DEF k
  <2>3. ASSUME NEW m \in Nodes
        PROVE  Len(ran'[m]) <= MainRuns(m)' + BodyRuns(m)' + DoneRuns(m)'
                                 + (PastRetried(m)' + NowRetried(m)')
    <3>1. /\ MainRuns(m) \in Nat /\ BodyRuns(m) \in Nat /\ DoneRuns(m) \in Nat
          /\ PastRetried(m) \in Nat /\ NowRetried(m) \in Nat
          /\ PastRetried(m)' \in Nat /\ PastRetried(m) <= PastRetried(m)'
          /\ Len(ran[m]) <= MainRuns(m) + BodyRuns(m) + DoneRuns(m)
                              + (PastRetried(m) + NowRetried(m))
          /\ LoopPassed' <=> LoopPassed
          /\ MainRuns(m)' = MainRuns(m)
      BY <1>2, <2>1, DriverFrame
    <3>2. BodyRuns(m) = IF m \notin ToSet(body) THEN 0
                        ELSE Batched - k + (IF Did(body, m) THEN 1 ELSE 0)
      BY <2>1 DEF BodyRuns, k
    <3>3. BodyRuns(m)' = IF m \notin ToSet(body) THEN 0
                         ELSE IF pc' = "body" THEN Batched - (k - 1) ELSE Batched
      <4>1. ~ Did(body, m)'
        <5>1. ~ \E i \in 1..Len(body) : i < inner' /\ body[i] = m
          BY <1>1, <2>1, DidFirst
        <5> QED BY <1>2, <5>1 DEF Did
      <4>2. pc' # "body" => pc' = "done"
        BY <2>1
      <4>3. CASE pc' = "body"
        BY <1>2, <1>4, <2>2, <4>1, <4>3 DEF BodyRuns
      <4>4. CASE pc' = "done"
        BY <1>2, <1>4, <4>4 DEF BodyRuns
      <4> QED BY <4>2, <4>3, <4>4
    <3>4. BodyRuns(m)' \in Nat /\ BodyRuns(m) <= BodyRuns(m)'
      <4> DEFINE e == Batched
                 x == IF Did(body, m) THEN 1 ELSE 0
      <4>1. e \in Nat /\ x \in {0, 1} /\ k \in Nat /\ k >= 1 /\ k <= e
        BY <1>4, <2>2
      <4>2. CASE m \notin ToSet(body)
        BY <3>2, <3>3, <4>2
      <4>3. CASE m \in ToSet(body)
        <5>1. BodyRuns(m) = e - k + x /\ BodyRuns(m)' \in {e - (k - 1), e}
          BY <3>2, <3>3, <4>3
        <5> HIDE DEF e, x
        <5>2. /\ e - (k - 1) \in Nat /\ e - k + x <= e - (k - 1) /\ e - k + x <= e
          BY <4>1
        <5> QED BY <4>1, <5>1, <5>2
      <4> QED BY <4>2, <4>3
    <3>5. DoneRuns(m) = 0 /\ DoneRuns(m)' = 0
      <4>1. DoneRuns(m) = 0
        BY <1>3, <2>1 DEF DoneRuns
      <4>2. ~ Did(done, m)'
        <5>1. ~ \E i \in 1..Len(done) : i < inner' /\ done[i] = m
          BY <1>1, <2>1, DidFirst
        <5> QED BY <1>2, <5>1 DEF Did
      <4>3. DoneRuns(m)' = 0
        BY <1>3, <2>1, <3>1, <4>2 DEF DoneRuns
      <4> QED BY <4>1, <4>3
    <3>6. NowRetried(m) = 0 /\ NowRetried(m)' = 0
      BY <2>1 DEF NowRetried
    <3>7. /\ PastRetried(m)' + NowRetried(m)' \in Nat
          /\ PastRetried(m) + NowRetried(m) <= PastRetried(m)' + NowRetried(m)'
          /\ MainRuns(m)' \in Nat /\ MainRuns(m) <= MainRuns(m)'
          /\ DoneRuns(m)' \in Nat /\ DoneRuns(m) <= DoneRuns(m)'
          /\ Len(ran'[m]) \in Nat /\ Len(ran'[m]) <= Len(ran[m]) + 0
          /\ MainRuns(m) + 0 <= MainRuns(m)'
      BY <1>2, <1>5, <3>1, <3>5, <3>6
    <3> QED BY <1>5, <3>1, <3>4, <3>7, PartsAddUp
  <2>4. Accounted'
    BY <2>3 DEF Accounted
  <2>5. pc' = "body" => ran'[LoopNode(wf)'] # <<>> /\ Len(batches') <= Batched'
    BY <1>2, <1>4, <2>2
  <2>6. pc' \in {"body", "done"}
    BY <2>1
  <2> QED BY <1>1, <1>2, <2>4, <2>5, <2>6, ChainsKept DEF RunsInv, Sorts
<1>7. CASE EndDone
  <2>1. pc = "done" /\ pc' = "main" /\ at' = at + 1
    BY <1>7 DEF EndDone, NextNode
  <2>2. LoopPassed'
    BY <1>1, <1>2, <1>3, <2>1, LoopPassedMoves
  <2>3. ASSUME NEW m \in Nodes
        PROVE  Len(ran'[m]) <= MainRuns(m)' + BodyRuns(m)' + DoneRuns(m)'
                                 + (PastRetried(m)' + NowRetried(m)')
    <3>1. /\ MainRuns(m) \in Nat /\ BodyRuns(m) \in Nat /\ DoneRuns(m) \in Nat
          /\ PastRetried(m) \in Nat /\ NowRetried(m) \in Nat
      BY <1>1, <2>1, PartsInBound
    <3>2. Len(ran[m]) <= MainRuns(m) + BodyRuns(m) + DoneRuns(m)
                           + (PastRetried(m) + NowRetried(m))
      BY <2>1 DEF RunsInv, Accounted
    <3>3. PastRetried(m)' \in Nat /\ PastRetried(m) <= PastRetried(m)'
      BY <1>2, <1>3, <2>1, PastMoves
    <3>4. MainRuns(m)' \in Nat /\ MainRuns(m) <= MainRuns(m)'
      <4>1. Passed(m)' <=> Passed(m) \/ m = Here
        BY <1>1, <1>2, <1>3, <2>1, PassesHere DEF setup
      <4> QED BY <1>2, <2>1, <4>1, HandledKept DEF MainRuns
    <3>5. BodyRuns(m)' = BodyRuns(m)
      BY <1>2, <1>4, <2>1, <2>2 DEF BodyRuns
    <3>6. DoneRuns(m)' \in Nat /\ DoneRuns(m) <= DoneRuns(m)'
      BY <1>2, <2>1, <2>2 DEF DoneRuns
    <3>7. NowRetried(m) = 0 /\ NowRetried(m)' = 0
      BY <2>1 DEF NowRetried
    <3>8. /\ PastRetried(m)' + NowRetried(m)' \in Nat
          /\ PastRetried(m) + NowRetried(m) <= PastRetried(m)' + NowRetried(m)'
          /\ BodyRuns(m)' \in Nat /\ BodyRuns(m) <= BodyRuns(m)'
          /\ Len(ran'[m]) \in Nat /\ Len(ran'[m]) <= Len(ran[m]) + 0
          /\ BodyRuns(m) + 0 <= BodyRuns(m)'
      BY <1>2, <1>5, <3>1, <3>3, <3>5, <3>7
    <3> QED BY <1>5, <3>1, <3>2, <3>4, <3>6, <3>8, PartsAddUp
  <2>4. Accounted'
    BY <2>3 DEF Accounted
  <2> QED BY <1>1, <1>2, <2>1, <2>4, ChainsKept DEF RunsInv, Sorts
<1> QED BY <1>6, <1>7

\* The retry driver begins, and ends an iteration.
LEMMA RetryRuns ==
  ASSUME IInv, RunsInv,
         (\E n \in Nodes : StartRetry(n)) \/ \E more \in BOOLEAN : EndIteration(more)
  PROVE  RunsInv'
<1>1. TypeOK /\ DataOK /\ PlaceOK /\ OrdersOK /\ ChainsOK /\ wf \in Graphs /\ Accounted
  BY InGraph DEF IInv, RunsInv, StartRetry, EndIteration, Main
<1>2. /\ pc \in {"main", "retry"} /\ pc' \in {"main", "retry"}
      /\ at <= Len(order) /\ at' \in {at, at + 1}
      /\ UNCHANGED <<sort, setup, ran>>
      /\ body' = body /\ done' = done /\ wf' = wf /\ order' = order
  BY <1>1 DEF StartRetry, EndIteration, Main, NextNode, history, setup, PlaceOK
<1>3. Here \in RetryGuards(wf)
  BY <1>1 DEF StartRetry, EndIteration, PlaceOK, Main
<1>4. /\ Here \in Nodes /\ Retried \in Seq(Nodes)
  BY <1>1, <1>3, GuardFacts DEF Retried
<1>5. iteration \in 1..MaxIterations /\ MaxIterations \in Nat
  BY <1>1, NodeRunAssumption DEF TypeOK
<1>6. ASSUME NEW m \in Nodes
      PROVE  Len(ran'[m]) <= MainRuns(m)' + BodyRuns(m)' + DoneRuns(m)'
                               + (PastRetried(m)' + NowRetried(m)')
  <2>1. /\ MainRuns(m) \in Nat /\ BodyRuns(m) \in Nat /\ DoneRuns(m) \in Nat
        /\ PastRetried(m) \in Nat /\ NowRetried(m) \in Nat
    BY <1>1, <1>2, PartsInBound
  <2>2. Len(ran[m]) <= MainRuns(m) + BodyRuns(m) + DoneRuns(m)
                         + (PastRetried(m) + NowRetried(m))
    BY <1>1 DEF Accounted
  <2>3. Len(ran[m]) \in Nat /\ Len(ran'[m]) \in Nat /\ Len(ran'[m]) <= Len(ran[m]) + 0
    <3>1. Len(ran[m]) \in Nat
      BY <1>1 DEF DataOK
    <3> QED BY <1>2, <3>1
  <2>4. MainRuns(m)' \in Nat /\ MainRuns(m) <= MainRuns(m)'
    <3>1. Passed(m) => Passed(m)'
      BY <1>1, <1>2, PassesHere, PassedSame
    <3>2. MainRuns(m) = IF m \notin Handled /\ Passed(m) THEN 1 ELSE 0
      BY <1>2 DEF MainRuns
    <3>3. MainRuns(m)' = IF m \notin Handled /\ Passed(m)' THEN 1 ELSE 0
      BY <1>2, HandledKept DEF MainRuns
    <3> QED BY <3>1, <3>2, <3>3
  <2>5. LoopPassed => LoopPassed'
    BY <1>1, <1>2, LoopPassedMoves
  <2>6. m \in ToSet(body) => Batched' = Batched /\ Batched \in Nat
    <3> SUFFICES ASSUME m \in ToSet(body) PROVE Batched' = Batched /\ Batched \in Nat
      OBVIOUS
    <3>1. Loops(wf) # {} /\ LoopNode(wf) \in Nodes
      BY <1>1, ChainHasLoop
    <3>2. PICK l \in Nodes : l = LoopNode(wf)
      BY <3>1
    <3> QED BY <1>2, <3>1, <3>2, BatchedGrows
  <2>7. BodyRuns(m)' \in Nat /\ BodyRuns(m) <= BodyRuns(m)'
    <3>1. BodyRuns(m) = IF m \notin ToSet(body) THEN 0
                        ELSE IF LoopPassed THEN Batched ELSE 0
      BY <1>2 DEF BodyRuns
    <3>2. BodyRuns(m)' = IF m \notin ToSet(body) THEN 0
                         ELSE IF LoopPassed' THEN Batched' ELSE 0
      BY <1>2 DEF BodyRuns
    <3> QED BY <2>5, <2>6, <3>1, <3>2
  <2>8. DoneRuns(m)' \in Nat /\ DoneRuns(m) <= DoneRuns(m)'
    <3>1. DoneRuns(m) = IF m \notin ToSet(done) THEN 0 ELSE IF LoopPassed THEN 1 ELSE 0
      BY <1>2 DEF DoneRuns
    <3>2. DoneRuns(m)' = IF m \notin ToSet(done) THEN 0 ELSE IF LoopPassed' THEN 1 ELSE 0
      BY <1>2 DEF DoneRuns
    <3> QED BY <2>5, <3>1, <3>2
  <2> DEFINE p == PastRetried(m)
             p1 == PastRetried(m)'
             q == NowRetried(m)
             q1 == NowRetried(m)'
  <2>9. /\ p1 \in Nat /\ p <= p1
        /\ at' = at + 1 /\ Here \in GuardsOver(m) => p1 >= p + MaxIterations
    BY <1>2, PastMoves
  <2>10. p1 + q1 \in Nat /\ p + q <= p1 + q1
    <3>1. ASSUME inner' = 1, pc' = "retry", at' = at
          PROVE  q1 = IF m \in RetryBodySet(wf, Here) THEN iteration' - 1 ELSE 0
      <4>1. Here' = Here /\ Retried' = Retried
        BY <1>2, <3>1 DEF Here, Retried
      <4>2. ~ Did(Retried, m)'
        <5>1. ~ \E i \in 1..Len(Retried) : i < inner' /\ Retried[i] = m
          BY <1>4, <3>1, DidFirst
        <5> QED BY <4>1, <5>1 DEF Did
      <4>3. q1 = IF m \in RetryBodySet(wf, Here) THEN iteration' - 1 + 0 ELSE 0
        BY <1>2, <3>1, <4>1, <4>2 DEF NowRetried
      <4> QED BY <4>3, <1>2, <1>5 DEF StartRetry, EndIteration
    <3>2. CASE \E n \in Nodes : StartRetry(n)
      <4>1. pc = "main" /\ pc' = "retry" /\ inner' = 1 /\ iteration' = 1 /\ at' = at
        BY <3>2 DEF StartRetry, Main
      <4>2. q = 0 /\ q1 = 0
        BY <3>1, <4>1 DEF NowRetried
      <4> QED BY <2>1, <2>9, <4>2
    <3>3. ASSUME NEW more \in BOOLEAN, EndIteration(more)
          PROVE  p1 + q1 \in Nat /\ p + q <= p1 + q1
      <4>1. pc = "retry"
        BY <3>3 DEF EndIteration
      <4> DEFINE x == IF Did(Retried, m) THEN 1 ELSE 0
      <4>2. q = IF m \in RetryBodySet(wf, Here) THEN iteration - 1 + x ELSE 0
        BY <4>1 DEF NowRetried
      <4>3. x \in {0, 1}
        OBVIOUS
      <4> HIDE DEF x
      <4>4. CASE more /\ MayRetry
        <5>1. pc' = "retry" /\ inner' = 1 /\ iteration' = iteration + 1 /\ at' = at
          BY <3>3, <4>1, <4>4 DEF EndIteration
        <5>2. q1 = IF m \in RetryBodySet(wf, Here) THEN iteration' - 1 ELSE 0
          BY <3>1, <5>1
        <5> HIDE DEF p, p1, q, q1
        <5>3. q1 \in Nat /\ q <= q1
          BY <1>5, <4>2, <4>3, <5>1, <5>2
        <5>4. p \in Nat /\ q \in Nat /\ p1 \in Nat /\ p <= p1
          BY <2>1, <2>9 DEF p, q
        <5> QED BY <5>3, <5>4
      <4>5. CASE ~(more /\ MayRetry)
        <5>1. pc' = "main" /\ at' = at + 1
          BY <3>3, <4>5 DEF EndIteration, NextNode
        <5>2. q1 = 0
          BY <5>1 DEF NowRetried
        <5>3. m \in RetryBodySet(wf, Here) => Here \in GuardsOver(m)
          BY <1>3 DEF GuardsOver
        <5>4. p \in Nat /\ q \in Nat
          BY <2>1
        <5> HIDE DEF p, p1, q, q1
        <5>5. q <= MaxIterations /\ (q # 0 => m \in RetryBodySet(wf, Here))
          BY <1>5, <4>2, <4>3
        <5>6. q # 0 => p1 >= p + MaxIterations
          BY <2>9, <5>1, <5>3, <5>5
        <5> QED BY <1>5, <2>9, <5>2, <5>4, <5>5, <5>6
      <4> QED BY <4>4, <4>5
    <3> QED BY <3>2, <3>3
  <2>11. MainRuns(m) + 0 <= MainRuns(m)'
    BY <2>1, <2>4
  <2> QED BY <2>1, <2>2, <2>3, <2>4, <2>7, <2>8, <2>10, <2>11, PartsAddUp
<1>7. Accounted'
  BY <1>6 DEF Accounted
<1> QED BY <1>1, <1>2, <1>7, ChainsKept DEF RunsInv, Sorts

\* Before the main loop begins nothing has run.
LEMMA SortRuns ==
  ASSUME IInv, IInv', RunsInv, Sort \/ Refuse \/ Ordered
  PROVE  RunsInv'
<1>1. /\ TypeOK /\ DataOK /\ PlaceOK /\ ChainsOK /\ wf \in Graphs
      /\ \A k, l \in Loops(wf) : k = l
  BY InGraph DEF IInv, RunsInv
<1>2. /\ pc \in Sorts /\ at = 1 /\ at' = 1 /\ ran' = ran
      /\ pc' \in Sorts \cup {"main", "failed"} /\ wf' = wf
  BY <1>1 DEF Sort, Refuse, Ordered, TakeOrder, GetLoopIterationOrder, GetLoopDoneOrder,
              setup, history, Sorts, PlaceOK
<1>3. \A n \in Nodes : ran[n] = <<>>
  BY <1>2 DEF RunsInv
<1>4. ChainsOK'
  <2>1. CASE Sort \/ Refuse
    BY <2>1, <1>1 DEF Sort, Refuse, ChainsOK, setup
  <2>2. CASE Ordered
    <3>1. wf' = wf /\ (TakeOrder \/ GetLoopIterationOrder \/ GetLoopDoneOrder)
          /\ path = <<>> /\ sorted \in Seq(Nodes)
      BY <2>2, <1>1 DEF Ordered, TakeOrder, GetLoopIterationOrder, GetLoopDoneOrder, Sorted,
                        TypeOK
    <3>2. \A b : Loops(wf) # {} =>
            \A l \in Loops(wf) : l \notin ToSet(Among(sorted, Descendants(wf, LoopNode(wf), b)))
      <4>1. \A l \in Loops(wf) : LoopNode(wf) = l
        BY <1>1, LoopNodeIs
      <4>2. \A b : LoopNode(wf) \notin Descendants(wf, LoopNode(wf), b)
        BY DEF Descendants
      <4>3. \A S : ToSet(Among(sorted, S)) = ToSet(sorted) \cap S
        BY <3>1, AmongType
      <4> QED BY <4>1, <4>2, <4>3
    <3>3. CASE TakeOrder
      BY <3>1, <3>3, <1>1 DEF TakeOrder, ChainsOK
    <3>4. CASE GetLoopIterationOrder
      <4>1. /\ body' = Among(sorted, Descendants(wf, LoopNode(wf), ProcessBranch))
            /\ done' = done /\ pc = "bodyOrder" /\ pc' = "doneOrder"
        BY <3>4 DEF GetLoopIterationOrder
      <4> QED BY <3>1, <3>2, <4>1, <1>1 DEF ChainsOK
    <3>5. CASE GetLoopDoneOrder
      <4>1. /\ done' = Among(sorted, Descendants(wf, LoopNode(wf), DoneBranch))
            /\ body' = body /\ pc = "doneOrder" /\ pc' = "main"
        BY <3>5 DEF GetLoopDoneOrder
      <4> QED BY <3>1, <3>2, <4>1, <1>1 DEF ChainsOK
    <3> QED BY <3>1, <3>3, <3>4, <3>5
  <2> QED BY <2>1, <2>2
<1>5. ASSUME NEW n \in Nodes
      PROVE  /\ MainRuns(n)' \in Nat /\ BodyRuns(n)' = 0 /\ DoneRuns(n)' = 0
             /\ PastRetried(n)' = 0 /\ NowRetried(n)' = 0
  <2>1. \A m : ~Passed(m)'
    <3>1. order' \in Seq(Nodes)
      BY DEF IInv, TypeOK
    <3> QED BY <1>2, <3>1 DEF Passed
  <2>2. ~LoopPassed'
    BY <1>2, <2>1 DEF LoopPassed
  <2>3. GuardsPassed(n)' = {}
    BY <2>1 DEF GuardsPassed
  <2>4. PastRetried(n)' = 0
    <3>1. Cardinality({}) = 0 /\ 0 * MaxIterations = 0
      BY FS_EmptySet, NodeRunAssumption
    <3> QED BY <2>3, <3>1 DEF PastRetried
  <2>5. pc' \notin {"body", "done", "retry"}
    BY <1>2 DEF Sorts
  <2> QED BY <2>2, <2>4, <2>5 DEF MainRuns, BodyRuns, DoneRuns, NowRetried
<1>6. ASSUME NEW n \in Nodes
      PROVE  Len(ran'[n]) <= MainRuns(n)' + BodyRuns(n)' + DoneRuns(n)'
                               + (PastRetried(n)' + NowRetried(n)')
  <2>1. Len(ran'[n]) = 0
    BY <1>2, <1>3
  <2> QED BY <1>5, <2>1
<1>7. Accounted'
  BY <1>6 DEF Accounted
<1>8. pc' = "failed" => RunsAreBounded'
  <2> SUFFICES ASSUME pc' = "failed" PROVE RunsAreBounded'
    OBVIOUS
  <2>1. /\ UNCHANGED setup /\ pc = "order"
    BY DEF Sort, Refuse, Ordered, TakeOrder, GetLoopIterationOrder, GetLoopDoneOrder, Sorts
  <2>2. RunsAreBounded
    BY <1>1, <2>1, AccountedInBound DEF RunsInv
  <2>3. Handled' = Handled /\ LoopNode(wf)' = LoopNode(wf) /\ wf' = wf
    BY <2>1, HandledKept DEF setup
  <2> QED BY <1>2, <2>1, <2>2, <2>3 DEF RunsAreBounded, GuardsOver, Split, setup
<1> QED BY <1>2, <1>3, <1>4, <1>7, <1>8 DEF RunsInv, Sorts

\* The end, and a step that changes nothing.
LEMMA EndedRuns ==
  ASSUME IInv, RunsInv, Finish \/ Fail \/ UNCHANGED vars
  PROVE  RunsInv'
<1>1. UNCHANGED <<sort, setup, at, driver, history>>
  BY DEF Finish, Fail, vars, driver
<1>2. /\ Handled' = Handled /\ LoopNode(wf)' = LoopNode(wf)
      /\ wf' = wf /\ order' = order /\ body' = body /\ done' = done
      /\ at' = at /\ inner' = inner /\ iteration' = iteration /\ batches' = batches
      /\ ran' = ran
  BY <1>1, HandledKept DEF setup, driver, history
<1>3. RunsAreBounded
  BY AccountedInBound DEF RunsInv
<1>4. RunsAreBounded'
  BY <1>2, <1>3 DEF RunsAreBounded, GuardsOver, Split
<1>5. CASE Fail
  <2>1. pc' = "failed"
    BY <1>5 DEF Fail
  <2> QED BY <1>2, <1>4, <2>1 DEF RunsInv, ChainsOK, Sorts
<1>6. CASE Finish
  <2>1. pc = "main" /\ pc' = "ended"
    BY <1>6 DEF Finish
  <2>2. Accounted
    BY <2>1 DEF RunsInv
  <2>3. Accounted'
    <3>1. \A n : Passed(n)' <=> Passed(n)
      BY <1>2, PassedSame
    <3>2. LoopPassed' <=> LoopPassed
      BY <1>2, <3>1 DEF LoopPassed
    <3>3. \A n : GuardsPassed(n)' = GuardsPassed(n)
      BY <1>2, <3>1 DEF GuardsPassed, GuardsOver
    <3>4. Batched' = Batched
      BY <1>2 DEF Batched, Split
    <3>5. \A n : MainRuns(n)' = MainRuns(n)
      BY <1>2, <2>1, <3>1 DEF MainRuns
    <3>6. \A n : BodyRuns(n)' = BodyRuns(n) /\ DoneRuns(n)' = DoneRuns(n)
      BY <1>2, <2>1, <3>2, <3>4 DEF BodyRuns, DoneRuns
    <3>7. \A n : PastRetried(n)' = PastRetried(n)
      BY <3>3 DEF PastRetried
    <3>8. \A n : NowRetried(n)' = 0 /\ NowRetried(n) = 0
      BY <2>1 DEF NowRetried
    <3> QED BY <1>2, <2>2, <3>5, <3>6, <3>7, <3>8 DEF Accounted
  <2> QED BY <1>2, <2>1, <2>3 DEF RunsInv, ChainsOK, Sorts
<1>7. CASE UNCHANGED vars
  <2>1. pc' = pc
    BY <1>7 DEF vars
  <2>2. Accounted' <=> Accounted
    BY <1>2, <2>1 DEF Accounted, MainRuns, BodyRuns, DoneRuns, PastRetried, NowRetried,
      Passed, LoopPassed, GuardsPassed, GuardsOver, Batched, Split, Did, Here, Retried
  <2>3. Batched' = Batched
    BY <1>2 DEF Batched, Split
  <2> QED BY <1>2, <1>4, <2>1, <2>2, <2>3 DEF RunsInv, ChainsOK, Sorts
<1> QED BY <1>5, <1>6, <1>7

LEMMA RunsStep == IInv /\ IInv' /\ RunsInv /\ [Next]_vars => RunsInv'
<1> SUFFICES ASSUME IInv, IInv', RunsInv, [Next]_vars PROVE RunsInv'
  OBVIOUS
<1>1. CASE Next
  <2>1. CASE Sort \/ Refuse \/ Ordered
    BY <2>1, SortRuns
  <2>2. ASSUME NEW n \in Nodes,
               \/ Skip(n) \/ SkipInert(n) \/ Drivers(n)
               \/ \E out \in Outputs(n, results[n]) : RunNode(n, out)
        PROVE  RunsInv'
    <3>1. CASE Drivers(n)
      BY <3>1, StartLoopRuns, RetryRuns, ChainRunsStep DEF Drivers
    <3> QED BY <2>2, <3>1, MainRunsStep
  <2>3. CASE EndBatch \/ EndDone
    BY <2>3, EndRuns
  <2>4. CASE \E more \in BOOLEAN : EndIteration(more)
    BY <2>4, RetryRuns
  <2>5. CASE Finish \/ Fail \/ Returned
    BY <2>5, EndedRuns DEF Returned
  <2> QED BY <1>1, <2>1, <2>2, <2>3, <2>4, <2>5 DEF Next
<1>2. CASE UNCHANGED vars
  BY <1>2, EndedRuns
<1> QED BY <1>1, <1>2

LEMMA InitRuns == Init => RunsInv
<1> SUFFICES ASSUME Init PROVE RunsInv
  OBVIOUS
<1>1. /\ pc = "order" /\ at = 1 /\ body = <<>> /\ done = <<>> /\ order = <<>>
      /\ ran = [n \in Nodes |-> <<>>]
  BY DEF Init
<1>2. ChainsOK
  BY <1>1 DEF ChainsOK, ToSet
<1>3. Accounted
  <2> SUFFICES ASSUME NEW n \in Nodes
               PROVE  Len(ran[n]) <= MainRuns(n) + BodyRuns(n) + DoneRuns(n)
                                       + (PastRetried(n) + NowRetried(n))
    BY DEF Accounted
  <2>1. IInv
    BY InitIInv
  <2>2. /\ MainRuns(n) \in Nat /\ BodyRuns(n) \in Nat /\ DoneRuns(n) \in Nat
        /\ PastRetried(n) \in Nat /\ NowRetried(n) \in Nat
    BY <1>1, <1>2, <2>1, PartsInBound
  <2>3. Len(ran[n]) = 0
    BY <1>1
  <2> QED BY <2>2, <2>3
<1> QED BY <1>1, <1>2, <1>3 DEF RunsInv

LEMMA RunsHold == Spec => []RunsInv
<1>1. Init /\ []IInv /\ [][Next]_vars => []RunsInv
  BY InitRuns, RunsStep, PTL
<1> QED BY <1>1, Invariance, PTL DEF Spec

\* A node runs once in the main loop if no driver has it, once a batch in the
\* body of a loop, once in its done chain, and no more than MaxIterations times
\* in the body of each retry, whatever the guards and the nodes do
\* (engine.go:427-459, 841-866, 1235-1286).
THEOREM RunsBounded == Spec => []RunsAreBounded
<1>1. IInv /\ RunsInv => RunsAreBounded
  BY AccountedInBound DEF RunsInv
<1> QED BY <1>1, RunsHold, Invariance, PTL

----------------------------------------------------------------------------
(* Counting copies.                                                        *)

LEMMA AmongAll ==
  ASSUME NEW A, NEW S
  PROVE  \A s \in Seq(A) : ToSet(s) \subseteq S => Among(s, S) = s
<1> DEFINE P == {s \in Seq(A) : ToSet(s) \subseteq S => Among(s, S) = s}
<1>1. <<>> \in P
  BY AmongNone
<1>2. ASSUME NEW s \in Seq(A), NEW e \in A, s \in P PROVE Append(s, e) \in P
  <2> DEFINE t == Append(s, e)
  <2>1. /\ t \in Seq(A) /\ Len(t) = Len(s) + 1 /\ Len(s) \in Nat
        /\ t[Len(s) + 1] = e /\ \A i \in 1..Len(s) : t[i] = s[i]
    OBVIOUS
  <2>2. ToSet(t) = {t[i] : i \in 1..Len(t)} /\ ToSet(s) = {s[i] : i \in 1..Len(s)}
    BY <2>1, InSeq
  <2>3. e \in ToSet(t) /\ ToSet(s) \subseteq ToSet(t)
    <3> HIDE DEF t
    <3>1. Len(s) + 1 \in 1..Len(t) /\ \A i \in 1..Len(s) : i \in 1..Len(t)
      BY <2>1
    <3>2. t[Len(s) + 1] \in ToSet(t) /\ \A i \in 1..Len(s) : t[i] \in ToSet(t)
      BY <2>2, <3>1
    <3> QED BY <2>1, <2>2, <3>2
  <2>4. Among(t, S) = IF e \in S THEN Append(Among(s, S), e) ELSE Among(s, S)
    BY AmongAppend
  <2>5. ToSet(t) \subseteq S => Among(t, S) = t
    BY <1>2, <2>3, <2>4
  <2> QED BY <2>1, <2>5
<1> HIDE DEF P
<1>3. \A s \in Seq(A) : s \in P
  BY <1>1, <1>2, SeqInduction
<1> QED BY <1>3 DEF P

LEMMA CopiesNone ==
  ASSUME NEW i
  PROVE  Copies(i, <<>>) = 0
<1>1. {k \in DOMAIN <<>> : <<>>[k] = i} = {}
  OBVIOUS
<1> QED BY <1>1, FS_EmptySet DEF Copies

LEMMA CopiesType ==
  ASSUME NEW A, NEW s \in Seq(A), NEW i
  PROVE  /\ IsFiniteSet({k \in DOMAIN s : s[k] = i})
         /\ Copies(i, s) \in Nat
<1>1. DOMAIN s = 1..Len(s) /\ Len(s) \in Nat
  OBVIOUS
<1>2. IsFiniteSet(1..Len(s))
  BY <1>1, FS_Interval
<1>3. {k \in DOMAIN s : s[k] = i} \in SUBSET (1..Len(s))
  BY <1>1
<1>4. IsFiniteSet({k \in DOMAIN s : s[k] = i})
  BY <1>2, <1>3, FS_Subset
<1> QED BY <1>4, FS_CardinalityType DEF Copies

LEMMA CopiesAppend ==
  ASSUME NEW A, NEW s \in Seq(A), NEW e \in A, NEW i
  PROVE  Copies(i, Append(s, e)) = Copies(i, s) + (IF e = i THEN 1 ELSE 0)
<1> DEFINE t == Append(s, e)
           n == Len(s)
           K == {k \in DOMAIN s : s[k] = i}
           L == {k \in DOMAIN t : t[k] = i}
<1>1. /\ t \in Seq(A) /\ DOMAIN t = 1..n + 1 /\ n \in Nat /\ DOMAIN s = 1..n
      /\ t[n + 1] = e /\ \A k \in 1..n : t[k] = s[k]
  OBVIOUS
<1>2. IsFiniteSet(K) /\ Copies(i, s) = Cardinality(K) /\ Cardinality(K) \in Nat
  BY CopiesType, FS_CardinalityType DEF Copies
<1>3. Copies(i, t) = Cardinality(L)
  BY DEF Copies
<1>4. n + 1 \notin K
  BY <1>1
<1>5. L = IF e = i THEN K \cup {n + 1} ELSE K
  <2> HIDE DEF t, n
  <2>1. \A k : k \in 1..n + 1 <=> k \in 1..n \/ k = n + 1
    BY <1>1
  <2> QED BY <1>1, <2>1
<1>6. Cardinality(K \cup {n + 1}) = Cardinality(K) + 1
  BY <1>2, <1>4, FS_AddElement
<1> HIDE DEF K, L, t, n
<1>7. CASE e = i
  BY <1>2, <1>3, <1>5, <1>6, <1>7 DEF t
<1>8. CASE e # i
  BY <1>2, <1>3, <1>5, <1>8 DEF t
<1> QED BY <1>7, <1>8

LEMMA CopiesConcat ==
  ASSUME NEW A, NEW s \in Seq(A), NEW i
  PROVE  \A t \in Seq(A) : Copies(i, s \o t) = Copies(i, s) + Copies(i, t)
<1> DEFINE P == {t \in Seq(A) : Copies(i, s \o t) = Copies(i, s) + Copies(i, t)}
<1>0. Copies(i, s) \in Nat
  BY CopiesType
<1>1. <<>> \in P
  <2>1. s \o <<>> = s /\ <<>> \in Seq(A)
    OBVIOUS
  <2> QED BY <1>0, <2>1, CopiesNone
<1>2. ASSUME NEW t \in Seq(A), NEW e \in A, t \in P PROVE Append(t, e) \in P
  <2>1. s \o Append(t, e) = Append(s \o t, e) /\ s \o t \in Seq(A)
        /\ Append(t, e) \in Seq(A)
    OBVIOUS
  <2>2. /\ Copies(i, Append(s \o t, e)) = Copies(i, s \o t) + (IF e = i THEN 1 ELSE 0)
        /\ Copies(i, Append(t, e)) = Copies(i, t) + (IF e = i THEN 1 ELSE 0)
    BY <2>1, CopiesAppend
  <2>3. Copies(i, t) \in Nat
    BY CopiesType
  <2>4. Copies(i, s \o t) = Copies(i, s) + Copies(i, t)
    BY <1>2
  <2>5. Copies(i, s \o Append(t, e)) = Copies(i, s) + Copies(i, Append(t, e))
    BY <1>0, <2>1, <2>2, <2>3, <2>4
  <2> QED BY <2>1, <2>5
<1> HIDE DEF P
<1>3. \A t \in Seq(A) : t \in P
  BY <1>1, <1>2, SeqInduction
<1> QED BY <1>3 DEF P

\* Sets without a common element that have as many elements as the sequences
\* have copies of i have as many together as their concatenation.
Fits(F, ss, i) ==
  /\ \A j \in 1..Len(ss) : /\ IsFiniteSet(F[j])
                           /\ Cardinality(F[j]) = Copies(i, ss[j])
  /\ \A j, k \in 1..Len(ss) : j # k => F[j] \cap F[k] = {}
Joins(V, F, ss) == \A d : d \in V <=> \E j \in 1..Len(ss) : d \in F[j]

LEMMA FlattenCount ==
  ASSUME NEW A, NEW i, NEW s \in Seq(Seq(A)), NEW f, Fits(f, s, i),
         NEW V, Joins(V, f, s)
  PROVE  IsFiniteSet(V) /\ Cardinality(V) = Copies(i, FlattenSeq(s))
<1> DEFINE All(F, ss) == UNION {F[j] : j \in 1..Len(ss)}
           Counted(F, ss) ==
             /\ IsFiniteSet(All(F, ss))
             /\ Cardinality(All(F, ss)) = Copies(i, FlattenSeq(ss))
           P == {ss \in Seq(Seq(A)) : \A F : Fits(F, ss, i) => Counted(F, ss)}
<1>1. <<>> \in P
  <2>1. \A F : All(F, <<>>) = {}
    OBVIOUS
  <2>4. /\ Copies(i, FlattenSeq(<<>>)) = 0
        /\ IsFiniteSet({}) /\ Cardinality({}) = 0
    BY FlattenNone, CopiesNone, FS_EmptySet
  <2> HIDE DEF All
  <2>2. \A F : Counted(F, <<>>)
    BY <2>1, <2>4
  <2>3. <<>> \in Seq(Seq(A))
    OBVIOUS
  <2> QED BY <2>2, <2>3
<1>2. ASSUME NEW ss \in Seq(Seq(A)), NEW r \in Seq(A), ss \in P
      PROVE  Append(ss, r) \in P
  <2> DEFINE t == Append(ss, r)
             n == Len(ss)
  <2>1. /\ t \in Seq(Seq(A)) /\ Len(t) = n + 1 /\ n \in Nat /\ t[n + 1] = r
        /\ \A j \in 1..n : t[j] = ss[j]
    OBVIOUS
  <2>2. FlattenSeq(ss) \in Seq(A) /\ FlattenSeq(t) = FlattenSeq(ss) \o r
    BY FlattenType, FlattenAppend
  <2>3. Copies(i, FlattenSeq(t)) = Copies(i, FlattenSeq(ss)) + Copies(i, r)
    BY <2>2, CopiesConcat
  <2>4. ASSUME NEW F, Fits(F, t, i) PROVE Counted(F, t)
    <3> HIDE DEF t
    <3>1. 1..n \subseteq 1..n + 1 /\ n + 1 \in 1..n + 1 /\ n + 1 \notin 1..n
          /\ \A j \in 1..n + 1 : j \in 1..n \/ j = n + 1
      BY <2>1
    <3>2. Fits(F, ss, i)
      BY <2>1, <2>4, <3>1 DEF Fits
    <3>3. Counted(F, ss)
      BY <1>2, <3>2
    <3>4. IsFiniteSet(F[n + 1]) /\ Cardinality(F[n + 1]) = Copies(i, r)
      BY <2>1, <2>4, <3>1 DEF Fits
    <3>5. All(F, ss) \cap F[n + 1] = {}
      <4>1. \A j \in 1..n : F[j] \cap F[n + 1] = {}
        BY <2>1, <2>4, <3>1 DEF Fits
      <4> QED BY <4>1
    <3>6. All(F, t) = All(F, ss) \cup F[n + 1]
      BY <2>1, <3>1
    <3> HIDE DEF All, n
    <3>7. /\ IsFiniteSet(All(F, ss) \cup F[n + 1])
          /\ Cardinality(All(F, ss) \cup F[n + 1])
               = Cardinality(All(F, ss)) + Cardinality(F[n + 1])
                   - Cardinality(All(F, ss) \cap F[n + 1])
      BY <3>3, <3>4, FS_Union
    <3>8. Cardinality(All(F, ss) \cap F[n + 1]) = 0
      BY <3>5, FS_EmptySet
    <3>9. Cardinality(All(F, ss)) \in Nat /\ Cardinality(F[n + 1]) \in Nat
      BY <3>3, <3>4, FS_CardinalityType
    <3> QED BY <2>3, <3>3, <3>4, <3>6, <3>7, <3>8, <3>9
  <2> HIDE DEF Counted
  <2> QED BY <2>1, <2>4
<1>3. \A ss \in Seq(Seq(A)) : ss \in P
  <2> HIDE DEF P
  <2> QED BY <1>1, <1>2, SeqInduction
<1>4. \A F : Fits(F, s, i) => Counted(F, s)
  <2>1. s \in P
    BY <1>3
  <2> HIDE DEF Counted
  <2> QED BY <2>1
<1>6. Counted(f, s)
  <2> HIDE DEF Counted
  <2> QED BY <1>4
<1>7. V = All(f, s)
  BY DEF Joins
<1> QED BY <1>6, <1>7

----------------------------------------------------------------------------
(* What a connection carries, of outputs o.                                *)

CarriedBy(w, o, s, b) ==
  Among(o[s], {e \in ToSet(o[s]) :
    \/ e.tag \in {0, b}
    \/ w.kind[s] = "switch" /\ b = Len(w.main[s]) /\ e.tag > b})
DeliveredBy(w, o, t) ==
  UNION {UNION {{<<s, b, c, k>> :
                   c \in {c \in DOMAIN w.main[s][b] : w.main[s][b][c] = t},
                   k \in DOMAIN CarriedBy(w, o, s, b)} :
                  b \in Branches(w, s)} : s \in Nodes}
CopiesBy(w, o, i, t) ==
  {d \in DeliveredBy(w, o, t) : CarriedBy(w, o, d[1], d[2])[d[4]].item = i}

LEMMA ArrivingIs ==
  ASSUME NEW i, NEW t
  PROVE  /\ Arriving(i, t, Nodes) = Cardinality(CopiesBy(wf, outs, i, t))
         /\ Arriving(i, t, Nodes)' = Cardinality(CopiesBy(wf', outs', i, t))
<1>1. /\ \A s, b : Sends(s, b) = CarriedBy(wf, outs, s, b)
      /\ \A s, b : Sends(s, b)' = CarriedBy(wf', outs', s, b)
  BY DEF Sends, CarriedBy
<1>2. /\ Deliveries(t, Nodes) = DeliveredBy(wf, outs, t)
      /\ Deliveries(t, Nodes)' = DeliveredBy(wf', outs', t)
  BY <1>1 DEF Deliveries, DeliveredBy
<1> QED BY <1>1, <1>2 DEF Arriving, CopiesBy

LEMMA CopyIs ==
  ASSUME NEW w, NEW o, NEW i, NEW t, NEW d
  PROVE  d \in CopiesBy(w, o, i, t) <=>
           \E s \in Nodes : \E b \in Branches(w, s) :
             \E c \in DOMAIN w.main[s][b], k \in DOMAIN CarriedBy(w, o, s, b) :
               /\ d = <<s, b, c, k>>
               /\ w.main[s][b][c] = t /\ CarriedBy(w, o, s, b)[k].item = i
<1>1. d \in DeliveredBy(w, o, t) <=>
        \E s \in Nodes : \E b \in Branches(w, s) :
          \E c \in DOMAIN w.main[s][b], k \in DOMAIN CarriedBy(w, o, s, b) :
            d = <<s, b, c, k>> /\ w.main[s][b][c] = t
  BY DEF DeliveredBy
<1>2. d \in CopiesBy(w, o, i, t) <=>
        /\ d \in DeliveredBy(w, o, t)
        /\ CarriedBy(w, o, d[1], d[2])[d[4]].item = i
  BY DEF CopiesBy
<1> QED BY <1>1, <1>2

\* Nothing is among no elements.
LEMMA AmongEmpty ==
  ASSUME NEW A, NEW s \in Seq(A)
  PROVE  Among(s, {}) = <<>>
<1> DEFINE r == Among(s, {})
<1>1. r \in Seq(A) /\ ToSet(r) = {}
  BY AmongType
<1> HIDE DEF r
<1>2. Len(r) = 0
  <2>1. ToSet(r) = {r[i] : i \in 1..Len(r)} /\ Len(r) \in Nat
    BY <1>1, InSeq
  <2>2. 1 \notin 1..Len(r)
    BY <1>1, <2>1
  <2> QED BY <2>1, <2>2
<1> QED BY <1>1, <1>2, EmptySeq DEF r

\* A workflow each of whose switches has a branch for every tag, or none.  One
\* with none, or whose branches are not all connected, leaves its tags in the
\* maps of its input: NoStrayTags, of NodeRunAssumption, says no other node has
\* those.
Wide(w) ==
  \A n \in Nodes : w.kind[n] = "switch" =>
    w.main[n] = <<>> \/ Len(w.main[n]) >= MaxRule

\* Then RouteData gives a connection what it promises.
LEMMA CarriedIsRouted ==
  ASSUME TypeOK, Wide(wf), NEW n \in Nodes, NEW s \in Seq(Items),
         NEW out \in Outputs(n, s), NEW o, o[n] = out, NEW b \in Branches(wf, n)
  PROVE  CarriedBy(wf, o, n, b) = BranchItems(wf, n, out, b)
<1> DEFINE S == {e \in ToSet(out) :
                   \/ e.tag \in {0, b}
                   \/ wf.kind[n] = "switch" /\ b = Len(wf.main[n]) /\ e.tag > b}
           last == Len(wf.main[n])
<1>1. CarriedBy(wf, o, n, b) = Among(out, S)
  BY DEF CarriedBy
<1>2. /\ out \in Seq(Elements)
      /\ TagsItems(n) => out \in Seq(WithTag)
      /\ ~TagsItems(n) => out = Plain(s)
  BY OutputsType
<1>3. last \in Nat /\ b \in 1..last
  BY InGraph, GraphFacts
<1>4. ToSet(out) = {out[i] : i \in 1..Len(out)} /\ DOMAIN out = 1..Len(out)
      /\ Len(out) \in Nat
  BY <1>2, InSeq
<1>5. CASE TagsItems(n)
  <2>1. \A i \in 1..Len(out) : out[i].tag \in 1..MaxRule
    <3>1. \A i \in 1..Len(out) : out[i] \in WithTag
      BY <1>2, <1>5, SeqParts
    <3> QED BY <3>1 DEF WithTag
  <2>2. \A e \in ToSet(out) : e.tag \in 1..MaxRule
    BY <1>4, <2>1
  <2>3. wf.kind[n] = "switch" => last >= MaxRule
    <3>1. wf.main[n] # <<>>
      BY <1>3
    <3> QED BY <3>1 DEF Wide
  <2>4. S = {e \in ToSet(out) : e.tag = b}
    <3>1. \A e \in ToSet(out) : e.tag # 0
      BY <2>2 DEF MaxRule
    <3>2. \A e \in ToSet(out) :
            ~(wf.kind[n] = "switch" /\ b = Len(wf.main[n]) /\ e.tag > b)
      BY <1>3, <2>2, <2>3 DEF MaxRule
    <3> QED BY <3>1, <3>2
  <2>5. CASE out = <<>>
    <3>1. BranchItems(wf, n, out, b) = out
      BY <2>5 DEF BranchItems, Branchable
    <3> QED BY <1>1, <2>5, <3>1, AmongNone
  <2>6. CASE out # <<>>
    <3>1. Branchable(out)
      BY <1>4, <2>1, <2>6 DEF Branchable, MaxRule
    <3> DEFINE own == Tagged(out, b)
               over == {e \in ToSet(out) : e.tag > last}
    <3>2. own = Among(out, S)
      BY <2>4 DEF Tagged
    <3>3. BranchItems(wf, n, out, b) =
            IF wf.kind[n] = "switch" /\ b = last /\ own = <<>>
            THEN Among(out, over) ELSE own
      BY <3>1, Zenon DEF BranchItems
    <3>4. wf.kind[n] = "switch" => over = {}
      BY <1>3, <2>2, <2>3 DEF MaxRule
    <3>5. Among(out, {}) = <<>>
      BY <1>2, AmongEmpty
    <3> HIDE DEF own, over, S, last
    <3> QED BY <1>1, <3>2, <3>3, <3>4, <3>5
  <2> QED BY <2>5, <2>6
<1>6. CASE ~TagsItems(n)
  <2>1. \A i \in 1..Len(out) : out[i].tag = 0
    BY <1>2, <1>4, <1>6, PlainType
  <2>2. ToSet(out) \subseteq S
    BY <1>4, <2>1
  <2>3. Among(out, S) = out
    <3> HIDE DEF S
    <3> QED BY <1>2, <2>2, AmongAll
  <2>4. ~Branchable(out)
    <3>1. out # <<>> => 1 \in DOMAIN out
      BY <1>2, <1>4, EmptySeq
    <3> QED BY <1>4, <2>1, <3>1 DEF Branchable
  <2>5. BranchItems(wf, n, out, b) = out
    BY <2>4 DEF BranchItems
  <2> QED BY <1>1, <2>3, <2>5
<1> QED BY <1>5, <1>6

\* The places of i in s, with a name in front.
PlacesOf(V, s, i, n, b, c) ==
  \A d : d \in V <=> \E k \in DOMAIN s : d = <<n, b, c, k>> /\ s[k] = i

LEMMA NamedPlaces ==
  ASSUME NEW A, NEW s \in Seq(A), NEW i, NEW n, NEW b, NEW c,
         NEW V, PlacesOf(V, s, i, n, b, c)
  PROVE  IsFiniteSet(V) /\ Cardinality(V) = Copies(i, s)
<1> DEFINE K == {k \in DOMAIN s : s[k] = i}
           f == [k \in K |-> <<n, b, c, k>>]
<1>1. IsFiniteSet(K) /\ Copies(i, s) = Cardinality(K)
  BY CopiesType DEF Copies
<1>2. \A d : d \in V <=> \E k \in K : d = <<n, b, c, k>>
  BY DEF PlacesOf
<1>3. f \in Bijection(K, V)
  <2> HIDE DEF K
  <2>1. f \in [K -> V]
    BY <1>2
  <2>2. \A j, k \in K : f[j] = f[k] => j = k
    OBVIOUS
  <2>3. \A d \in V : \E k \in K : f[k] = d
    BY <1>2
  <2> HIDE DEF f
  <2> QED BY <2>1, <2>2, <2>3 DEF Bijection, Injection, Surjection, IsInjective
<1>4. ExistsBijection(K, V)
  BY <1>3 DEF ExistsBijection
<1> HIDE DEF K, f
<1> QED BY <1>1, <1>4, FS_Bijection

\* What connections tg to t carry of i, if each of them carries u.
CarryEach(cs, tg, u, t) ==
  /\ DOMAIN cs = DOMAIN tg
  /\ \A c \in DOMAIN tg : cs[c] = IF tg[c] = t THEN u ELSE <<>>
SentOn(V, tg, u, t, i, n, b) ==
  \A d : d \in V <=>
    \E c \in DOMAIN tg, k \in DOMAIN u :
      d = <<n, b, c, k>> /\ tg[c] = t /\ u[k] = i

LEMMA BranchCount ==
  ASSUME NEW A, NEW u \in Seq(A), NEW tg \in Seq(Nodes), NEW t, NEW i,
         NEW n, NEW b, NEW cs \in Seq(Seq(A)), CarryEach(cs, tg, u, t),
         NEW V, SentOn(V, tg, u, t, i, n, b)
  PROVE  IsFiniteSet(V) /\ Cardinality(V) = Copies(i, FlattenSeq(cs))
<1> DEFINE T(c) == {<<n, b, c, k>> : k \in {k \in DOMAIN u : u[k] = i}}
           F == [c \in DOMAIN tg |-> IF tg[c] = t THEN T(c) ELSE {}]
<1>1. DOMAIN tg = 1..Len(cs)
  BY DEF CarryEach
<1>2. ASSUME NEW c PROVE IsFiniteSet(T(c)) /\ Cardinality(T(c)) = Copies(i, u)
  <2>1. PlacesOf(T(c), u, i, n, b, c)
    BY DEF PlacesOf
  <2> HIDE DEF T
  <2> QED BY <2>1, NamedPlaces
<1>3. \A c, d : c # d => T(c) \cap T(d) = {}
  OBVIOUS
<1>4. \A d : \A c : d \in T(c) <=> \E k \in DOMAIN u : d = <<n, b, c, k>> /\ u[k] = i
  OBVIOUS
<1> HIDE DEF T
<1>5. \A c \in 1..Len(cs) : F[c] = IF tg[c] = t THEN T(c) ELSE {}
  BY <1>1
<1> HIDE DEF F
<1>6. Joins(V, F, cs)
  <2>1. ASSUME NEW d PROVE d \in V <=> \E c \in 1..Len(cs) : tg[c] = t /\ d \in T(c)
    <3>1. d \in V <=> \E c \in DOMAIN tg : \E k \in DOMAIN u :
                        d = <<n, b, c, k>> /\ tg[c] = t /\ u[k] = i
      BY DEF SentOn
    <3>2. \A c : d \in T(c) <=> \E k \in DOMAIN u : d = <<n, b, c, k>> /\ u[k] = i
      BY <1>4
    <3>3. d \in V <=> \E c \in DOMAIN tg : tg[c] = t /\ d \in T(c)
      BY <3>1, <3>2
    <3> QED BY <1>1, <3>3
  <2>2. \A d : \A c \in 1..Len(cs) : d \in F[c] <=> tg[c] = t /\ d \in T(c)
    BY <1>5
  <2> QED BY <2>1, <2>2 DEF Joins
<1>7. \A c \in 1..Len(cs) :
        IsFiniteSet(F[c]) /\ Cardinality(F[c]) = Copies(i, cs[c])
  <2> SUFFICES ASSUME NEW c \in 1..Len(cs)
               PROVE  IsFiniteSet(F[c]) /\ Cardinality(F[c]) = Copies(i, cs[c])
    OBVIOUS
  <2>1. CASE tg[c] = t
    <3>1. F[c] = T(c) /\ cs[c] = u
      BY <1>1, <1>5, <2>1 DEF CarryEach
    <3> QED BY <1>2, <3>1
  <2>2. CASE tg[c] # t
    <3>1. F[c] = {} /\ cs[c] = <<>>
      BY <1>1, <1>5, <2>2 DEF CarryEach
    <3> QED BY <3>1, CopiesNone, FS_EmptySet
  <2> QED BY <2>1, <2>2
<1>8. \A c, d \in 1..Len(cs) : c # d => F[c] \cap F[d] = {}
  BY <1>3, <1>5
<1>9. Fits(F, cs, i)
  BY <1>7, <1>8 DEF Fits
<1> QED BY <1>6, <1>9, FlattenCount

\* The copies that n sends to t are as many as RouteData gives to t.
SentBy(D, n, w, o, i, t) ==
  \A d : d \in D <=> d \in CopiesBy(w, o, i, t) /\ d[1] = n

LEMMA RouteCount ==
  ASSUME NEW w \in Graphs, NEW n \in Nodes, NEW out \in Seq(Elements), NEW o,
         \A b \in Branches(w, n) :
           CarriedBy(w, o, n, b) = BranchItems(w, n, out, b),
         NEW t \in Nodes, NEW i, NEW D, SentBy(D, n, w, o, i, t)
  PROVE  IsFiniteSet(D) /\ Cardinality(D) = Copies(i, RouteData(w, n, out)[t])
<1> DEFINE
           ss == ByBranch(w, n, out, t)
           U(b) == Untag(BranchItems(w, n, out, b))
           Sent(d, b) == \E c \in DOMAIN w.main[n][b], k \in DOMAIN U(b) :
                           d = <<n, b, c, k>> /\ w.main[n][b][c] = t /\ U(b)[k] = i
           G == [b \in Branches(w, n) |-> {d \in D : d[2] = b}]
<1>1. /\ Branches(w, n) = 1..Len(w.main[n]) /\ Len(w.main[n]) \in Nat
      /\ \A b \in Branches(w, n) : w.main[n][b] \in Seq(Nodes)
  BY GraphFacts
<1>2. ASSUME NEW b \in Branches(w, n)
      PROVE  /\ U(b) \in Seq(Items)
             /\ DOMAIN U(b) = DOMAIN CarriedBy(w, o, n, b)
             /\ \A k \in DOMAIN U(b) : U(b)[k] = CarriedBy(w, o, n, b)[k].item
  <2>1. BranchItems(w, n, out, b) \in Seq(Elements)
    BY BranchItemsType
  <2> QED BY <2>1, UntagType
<1>3. ASSUME NEW d
      PROVE  d \in D <=> \E b \in Branches(w, n) : Sent(d, b)
  <2>1. ASSUME d \in D PROVE \E b \in Branches(w, n) : Sent(d, b)
    <3>1. d \in CopiesBy(w, o, i, t) /\ d[1] = n
      BY <2>1 DEF SentBy
    <3>2. PICK s \in Nodes : \E b \in Branches(w, s) :
            \E c \in DOMAIN w.main[s][b], k \in DOMAIN CarriedBy(w, o, s, b) :
              /\ d = <<s, b, c, k>>
              /\ w.main[s][b][c] = t /\ CarriedBy(w, o, s, b)[k].item = i
      BY <3>1, CopyIs
    <3>3. s = n
      BY <3>1, <3>2
    <3>4. PICK b \in Branches(w, n) :
            \E c \in DOMAIN w.main[n][b], k \in DOMAIN CarriedBy(w, o, n, b) :
              /\ d = <<n, b, c, k>>
              /\ w.main[n][b][c] = t /\ CarriedBy(w, o, n, b)[k].item = i
      BY <3>2, <3>3
    <3> HIDE DEF U
    <3>5. Sent(d, b)
      BY <1>2, <3>4
    <3> QED BY <3>5
  <2>2. ASSUME NEW b \in Branches(w, n), Sent(d, b) PROVE d \in D
    <3> HIDE DEF U
    <3>1. \E c \in DOMAIN w.main[n][b], k \in DOMAIN CarriedBy(w, o, n, b) :
              /\ d = <<n, b, c, k>>
              /\ w.main[n][b][c] = t /\ CarriedBy(w, o, n, b)[k].item = i
      BY <1>2, <2>2
    <3>2. d \in CopiesBy(w, o, i, t)
      BY <3>1, CopyIs
    <3>3. d[1] = n
      BY <3>1
    <3> QED BY <3>2, <3>3 DEF SentBy
  <2> HIDE DEF Sent
  <2> QED BY <2>1, <2>2
<1>4. ASSUME NEW d, NEW b, Sent(d, b) PROVE d[2] = b
  BY <1>4
<1>5. ASSUME NEW b \in Branches(w, n)
      PROVE  IsFiniteSet(G[b]) /\ Cardinality(G[b]) = Copies(i, ss[b])
  <2> DEFINE cs == ByConnection(w, n, out, b, t)
             tg == w.main[n][b]
             u == U(b)
             V == G[b]
  <2>1. cs \in Seq(Seq(Items))
    BY RouteType
  <2>2. CarryEach(cs, tg, u, t)
    BY DEF ByConnection, CarryEach
  <2>3. ss[b] = FlattenSeq(cs)
    BY DEF ByBranch
  <2>4. SentOn(V, tg, u, t, i, n, b)
    <3>1. \A d : d \in V <=> d \in D /\ d[2] = b
      OBVIOUS
    <3>2. \A d : d \in V <=> Sent(d, b)
      <4> HIDE DEF Sent, V
      <4> QED BY <1>3, <1>4, <3>1
    <3> QED BY <3>2 DEF SentOn
  <2>5. u \in Seq(Items) /\ tg \in Seq(Nodes)
    BY <1>1, <1>2
  <2> HIDE DEF cs, tg, u, V
  <2>6. IsFiniteSet(V) /\ Cardinality(V) = Copies(i, FlattenSeq(cs))
    BY <2>1, <2>2, <2>4, <2>5, BranchCount
  <2> QED BY <2>3, <2>6 DEF V
<1>6. ss \in Seq(Seq(Items)) /\ 1..Len(ss) = Branches(w, n)
  <2>1. ss \in Seq(Seq(Items))
    BY RouteType
  <2>2. DOMAIN ss = Branches(w, n)
    BY DEF ByBranch
  <2> HIDE DEF ss
  <2> QED BY <2>1, <2>2
<1>7. Joins(D, G, ss)
  <2>1. \A b \in 1..Len(ss) : G[b] = {d \in D : d[2] = b}
    BY <1>6
  <2> HIDE DEF G, ss, Sent
  <2> QED BY <1>3, <1>4, <1>6, <2>1 DEF Joins
<1>8. \A a, b \in 1..Len(ss) : a # b => G[a] \cap G[b] = {}
  <2>1. \A b \in 1..Len(ss) : G[b] = {d \in D : d[2] = b}
    BY <1>6
  <2> HIDE DEF G, ss
  <2> QED BY <2>1
<1>9. RouteData(w, n, out)[t] = FlattenSeq(ss)
  BY RouteIsByBranch
<1> HIDE DEF G, ss
<1>10. IsFiniteSet(D) /\ Cardinality(D) = Copies(i, FlattenSeq(ss))
  <2>1. Fits(G, ss, i)
    BY <1>5, <1>6, <1>8 DEF Fits
  <2> QED BY <1>6, <1>7, <2>1, FlattenCount
<1> QED BY <1>9, <1>10

\* When a node that has put out nothing puts out something, the copies it sends
\* are added to what its targets are sent, and nothing else changes.
FirstOutput(n, o, p) == o[n] = <<>> /\ \A s \in Nodes \ {n} : p[s] = o[s]

LEMMA OneSends ==
  ASSUME NEW w, NEW n \in Nodes, NEW o, NEW p, FirstOutput(n, o, p), NEW i, NEW t
  PROVE  /\ CopiesBy(w, o, i, t) \subseteq CopiesBy(w, p, i, t)
         /\ \A d \in CopiesBy(w, p, i, t) :
              d \in CopiesBy(w, o, i, t) <=> d[1] # n
<1> DEFINE X == CopiesBy(w, o, i, t)
           Y == CopiesBy(w, p, i, t)
           Sent(q, d, s) ==
             \E b \in Branches(w, s) :
               \E c \in DOMAIN w.main[s][b], k \in DOMAIN CarriedBy(w, q, s, b) :
                 /\ d = <<s, b, c, k>>
                 /\ w.main[s][b][c] = t /\ CarriedBy(w, q, s, b)[k].item = i
<1>1. \A s \in Nodes \ {n} : \A b : CarriedBy(w, p, s, b) = CarriedBy(w, o, s, b)
  BY DEF CarriedBy, FirstOutput
<1>2. \A b : CarriedBy(w, o, n, b) = <<>>
  BY AmongNone DEF CarriedBy, FirstOutput
<1>3. /\ \A d : d \in X <=> \E s \in Nodes : Sent(o, d, s)
      /\ \A d : d \in Y <=> \E s \in Nodes : Sent(p, d, s)
  BY CopyIs
<1>4. \A d : \A s : (Sent(o, d, s) \/ Sent(p, d, s)) => d[1] = s
  OBVIOUS
<1>5. \A d : ~Sent(o, d, n)
  BY <1>2
<1>6. \A d : \A s \in Nodes \ {n} : Sent(o, d, s) <=> Sent(p, d, s)
  BY <1>1
<1> HIDE DEF X, Y, Sent
<1>7. X \subseteq Y /\ \A d \in Y : d \in X <=> d[1] # n
  BY <1>3, <1>4, <1>5, <1>6
<1> QED BY <1>7 DEF X, Y

\* A node sends nothing to a node it is not connected to.
LEMMA SendsToSuccessors ==
  ASSUME NEW w \in Graphs, NEW o, NEW i, NEW t, NEW n \in Nodes,
         t \notin Successors(w, n)
  PROVE  \A d \in CopiesBy(w, o, i, t) : d[1] # n
<1> SUFFICES ASSUME NEW d \in CopiesBy(w, o, i, t), d[1] = n PROVE FALSE
  OBVIOUS
<1>1. PICK s \in Nodes : \E b \in Branches(w, s) :
        \E c \in DOMAIN w.main[s][b], k \in DOMAIN CarriedBy(w, o, s, b) :
          /\ d = <<s, b, c, k>>
          /\ w.main[s][b][c] = t /\ CarriedBy(w, o, s, b)[k].item = i
  BY CopyIs
<1>2. PICK b \in Branches(w, s) :
        \E c \in DOMAIN w.main[s][b], k \in DOMAIN CarriedBy(w, o, s, b) :
          d = <<s, b, c, k>> /\ w.main[s][b][c] = t
  BY <1>1
<1>3. s = n /\ t \in ToSet(w.main[s][b])
  BY <1>2 DEF ToSet
<1> QED BY <1>2, <1>3, GraphFacts DEF Successors

LEMMA NothingSent ==
  ASSUME NEW w, NEW o, \A s \in Nodes : o[s] = <<>>, NEW i, NEW t
  PROVE  CopiesBy(w, o, i, t) = {}
<1> SUFFICES ASSUME NEW d \in CopiesBy(w, o, i, t) PROVE FALSE
  OBVIOUS
<1>1. PICK s \in Nodes : \E b \in Branches(w, s) :
        \E c \in DOMAIN w.main[s][b], k \in DOMAIN CarriedBy(w, o, s, b) :
          /\ d = <<s, b, c, k>>
          /\ w.main[s][b][c] = t /\ CarriedBy(w, o, s, b)[k].item = i
  BY CopyIs
<1>2. \A b : CarriedBy(w, o, s, b) = <<>>
  BY AmongNone DEF CarriedBy
<1> QED BY <1>1, <1>2

----------------------------------------------------------------------------
(* What a node has been given, or is to be given when its turn comes, are  *)
(* the copies sent to it so far.                                           *)

Given(n) == IF Passed(n) THEN FlattenSeq(ran[n]) ELSE results[n]

GivenIsSent(n) ==
  n \notin Starts(wf) /\ wf.kind[n] # "inert" =>
    \A i : /\ IsFiniteSet(CopiesBy(wf, outs, i, n))
           /\ Copies(i, Given(n)) = Cardinality(CopiesBy(wf, outs, i, n))

Untouched(n) == ~Passed(n) => ran[n] = <<>> /\ outs[n] = <<>>

FlowInv ==
  NoLoops /\ Wide(wf) =>
    \A n \in Nodes : Len(ran[n]) <= 1 /\ Untouched(n) /\ GivenIsSent(n)

LEMMA InitFlow == Init => FlowInv
<1> SUFFICES ASSUME Init PROVE FlowInv
  OBVIOUS
<1>1. /\ pc = "order" /\ order = <<>> /\ at = 1
      /\ results = [n \in Nodes |-> IF n \in Starts(wf) THEN input ELSE <<>>]
      /\ ran = [n \in Nodes |-> <<>>] /\ outs = [n \in Nodes |-> <<>>]
  BY DEF Init
<1>2. \A n : ~Passed(n)
  BY <1>1 DEF Passed
<1>3. ASSUME NEW n \in Nodes PROVE GivenIsSent(n)
  <2> SUFFICES ASSUME n \notin Starts(wf), NEW i
               PROVE  /\ IsFiniteSet(CopiesBy(wf, outs, i, n))
                      /\ Copies(i, Given(n)) = Cardinality(CopiesBy(wf, outs, i, n))
    BY DEF GivenIsSent
  <2>1. Given(n) = <<>>
    BY <1>1, <1>2 DEF Given
  <2>2. CopiesBy(wf, outs, i, n) = {}
    BY <1>1, NothingSent
  <2> QED BY <2>1, <2>2, CopiesNone, FS_EmptySet
<1>4. \A n \in Nodes : Len(ran[n]) <= 1
  BY <1>1
<1> QED BY <1>1, <1>3, <1>4 DEF FlowInv, Untouched

\* A node runs: it is given nothing more, as nothing it waits for is left,
\* and its targets are given what it sends.
LEMMA RunNodeFlows ==
  ASSUME IInv, NoLoops, Wide(wf), NEW n \in Nodes, NEW out \in Outputs(n, results[n]),
         RunNode(n, out),
         \A m \in Nodes : Len(ran[m]) <= 1 /\ Untouched(m) /\ GivenIsSent(m)
  PROVE  \A m \in Nodes : Len(ran'[m]) <= 1 /\ Untouched(m)' /\ GivenIsSent(m)'
<1>1. TypeOK /\ DataOK /\ OrdersOK /\ wf \in Graphs
  BY InGraph DEF IInv
<1>2. /\ n = Here /\ at <= Len(order) /\ at' = at + 1 /\ order' = order /\ wf' = wf
      /\ Store(n, out, {}) /\ ran' = [ran EXCEPT ![n] = Append(@, results[n])]
      /\ outs' = [outs EXCEPT ![n] = out]
  BY DEF RunNode, Main, NextNode, Ran, setup
<1>3. /\ results \in [Nodes -> Seq(Items)] /\ ran \in [Nodes -> Seq(Seq(Items))]
      /\ outs \in [Nodes -> Seq(Elements)] /\ out \in Seq(Elements)
  BY <1>1, OutputsType DEF DataOK
<1>4. ~Passed(n) /\ \A m : Passed(m)' <=> Passed(m) \/ m = n
  BY <1>1, <1>2, HereIsNext, PassesHere
<1>5. ran[n] = <<>> /\ outs[n] = <<>>
  BY <1>4 DEF Untouched
<1>6. ran'[n] = <<results[n]>> /\ \A m \in Nodes \ {n} : ran'[m] = ran[m]
  <2>1. ran'[n] = Append(<<>>, results[n])
    BY <1>2, <1>3, <1>5
  <2>2. Append(<<>>, results[n]) = <<results[n]>>
    OBVIOUS
  <2> QED BY <1>2, <1>3, <2>1, <2>2
<1> DEFINE routed == RouteData(wf, n, out)
<1>7. \A t \in Nodes \ {n} : results'[t] = results[t] \o routed[t]
  <2> DEFINE stored == [results EXCEPT ![n] = Untag(out)]
  <2>1. results' = [t \in Nodes |->
                      stored[t] \o (IF t \in {} THEN <<>> ELSE routed[t])]
    BY <1>2 DEF Store
  <2>2. \A t \in Nodes \ {n} : stored[t] = results[t]
    BY <1>3
  <2> HIDE DEF stored, routed
  <2> QED BY <2>1, <2>2
<1>8. \A t \in Nodes : Passed(t) \/ t = n => t \notin Successors(wf, n)
  <2> SUFFICES ASSUME NEW t \in Nodes, Passed(t) \/ t = n, t \in Successors(wf, n)
               PROVE  FALSE
    OBVIOUS
  <2>1. n \in Waits(wf, t)
    BY DEF NoLoops, Waits, Sources, Dropped
  <2>2. order \in Seq(Nodes) /\ at \in 1..Len(order) /\ order[at] = n
        /\ DOMAIN order = 1..Len(order)
    BY <1>1, <1>2 DEF TypeOK, Here
  <2>3. PICK j \in 1..Len(order) : j <= at /\ order[j] = t
    BY <2>2 DEF Passed
  <2>4. at < j
    BY <1>1, <2>1, <2>2, <2>3 DEF OrdersOK, Before
  <2> QED BY <2>2, <2>3, <2>4
<1>9. ASSUME NEW m \in Nodes PROVE Len(ran'[m]) <= 1 /\ Untouched(m)'
  <2>1. CASE m = n
    <3>1. Len(<<results[n]>>) = 1
      OBVIOUS
    <3>2. Passed(n)'
      BY <1>4
    <3>3. Len(ran'[m]) = 1
      BY <1>6, <2>1, <3>1
    <3>4. Untouched(m)'
      BY <2>1, <3>2 DEF Untouched
    <3> QED BY <3>3, <3>4
  <2>2. CASE m # n
    <3>1. ran'[m] = ran[m] /\ outs'[m] = outs[m]
      BY <1>2, <1>3, <1>6, <2>2
    <3>2. Passed(m)' <=> Passed(m)
      BY <1>4, <2>2
    <3> QED BY <3>1, <3>2 DEF Untouched
  <2> QED BY <2>1, <2>2
<1>10. ASSUME NEW m \in Nodes, m \notin Starts(wf), wf.kind[m] # "inert", NEW i
       PROVE  /\ IsFiniteSet(CopiesBy(wf, outs', i, m))
              /\ Copies(i, Given(m)') = Cardinality(CopiesBy(wf, outs', i, m))
  <2> DEFINE X == CopiesBy(wf, outs, i, m)
             Y == CopiesBy(wf, outs', i, m)
             D == {d \in Y : d[1] = n}
  <2>1. IsFiniteSet(X) /\ Copies(i, Given(m)) = Cardinality(X)
    BY <1>10 DEF GivenIsSent
  <2>2. Y = X \cup D /\ X \cap D = {}
    <3>1. FirstOutput(n, outs, outs')
      BY <1>2, <1>3, <1>5 DEF FirstOutput
    <3>2. X \subseteq Y /\ \A d \in Y : d \in X <=> d[1] # n
      BY <3>1, OneSends
    <3> HIDE DEF X, Y
    <3> QED BY <3>2
  <2>3. CASE Passed(m) \/ m = n
    <3>1. m \notin Successors(wf, n)
      BY <1>8, <2>3
    <3>2. Y = X
      <4>1. \A d \in Y : d[1] # n
        BY <1>1, <3>1, SendsToSuccessors
      <4> HIDE DEF X, Y
      <4> QED BY <2>2, <4>1
    <3>3. Given(m)' = Given(m)
      <4>1. CASE m = n
        <5>1. results[n] \in Seq(Items)
          BY <1>3
        <5>2. FlattenSeq(<<results[n]>>) = results[n]
          BY <5>1, FlattenOne
        <5> QED BY <1>4, <1>6, <4>1, <5>2 DEF Given
      <4>2. CASE m # n
        BY <1>4, <1>6, <2>3, <4>2 DEF Given
      <4> QED BY <4>1, <4>2
    <3> HIDE DEF X, Y
    <3> QED BY <2>1, <3>2, <3>3 DEF Y
  <2>4. CASE ~Passed(m) /\ m # n
    <3>1. Given(m) = results[m] /\ Given(m)' = results[m] \o routed[m]
      BY <1>4, <1>7, <2>4 DEF Given
    <3>2. results[m] \in Seq(Items) /\ routed[m] \in Seq(Items)
      BY <1>1, <1>3, RouteType
    <3>3. Copies(i, Given(m)') = Copies(i, results[m]) + Copies(i, routed[m])
      <4>1. Copies(i, results[m] \o routed[m]) = Copies(i, results[m]) + Copies(i, routed[m])
        <5> HIDE DEF routed
        <5> QED BY <3>2, CopiesConcat
      <4> QED BY <3>1, <4>1
    <3>4. IsFiniteSet(D) /\ Cardinality(D) = Copies(i, routed[m])
      <4>1. outs'[n] = out
        BY <1>2, <1>3
      <4>2. \A b \in Branches(wf, n) :
              CarriedBy(wf, outs', n, b) = BranchItems(wf, n, out, b)
        BY <1>1, <1>3, <4>1, CarriedIsRouted
      <4>3. SentBy(D, n, wf, outs', i, m)
        BY DEF SentBy
      <4> HIDE DEF D
      <4> QED BY <1>1, <1>3, <4>2, <4>3, RouteCount
    <3> HIDE DEF X, Y, D, routed
    <3>5. /\ IsFiniteSet(X \cup D)
          /\ Cardinality(X \cup D)
               = Cardinality(X) + Cardinality(D) - Cardinality(X \cap D)
      BY <2>1, <3>4, FS_Union
    <3>6. Cardinality(X \cap D) = 0
      BY <2>2, FS_EmptySet
    <3>7. Cardinality(X) \in Nat /\ Cardinality(D) \in Nat
      BY <2>1, <3>4, FS_CardinalityType
    <3>8. Cardinality(Y) = Copies(i, results[m]) + Copies(i, routed[m])
      BY <2>1, <2>2, <3>1, <3>4, <3>5, <3>6, <3>7
    <3> QED BY <2>2, <3>3, <3>5, <3>8 DEF Y
  <2> QED BY <2>3, <2>4
<1>11. ASSUME NEW m \in Nodes PROVE GivenIsSent(m)'
  <2>1. Starts(wf)' = Starts(wf)
    BY <1>2
  <2> QED BY <1>2, <1>10, <2>1 DEF GivenIsSent
<1> QED BY <1>9, <1>11

\* Any other step that keeps the histories.
LEMMA OtherFlows ==
  ASSUME UNCHANGED <<wf, history>>,
         \A m \in Nodes : Len(ran[m]) <= 1 /\ Untouched(m) /\ GivenIsSent(m),
         \A m \in Nodes : Passed(m) => Passed(m)',
         \A m \in Nodes : wf.kind[m] # "inert" => Given(m)' = Given(m)
  PROVE  \A m \in Nodes : Len(ran'[m]) <= 1 /\ Untouched(m)' /\ GivenIsSent(m)'
<1>1. wf' = wf /\ ran' = ran /\ outs' = outs
  BY DEF history
<1>2. \A m \in Nodes : Len(ran'[m]) <= 1 /\ Untouched(m)'
  BY <1>1 DEF Untouched
<1>3. Starts(wf)' = Starts(wf)
  BY <1>1
<1>4. ASSUME NEW m \in Nodes PROVE GivenIsSent(m)'
  BY <1>1, <1>3 DEF GivenIsSent
<1> QED BY <1>2, <1>4

\* A node is passed over, or puts out nothing.
LEMMA SkipFlows ==
  ASSUME IInv, RunsInv, NoLoops, NEW n \in Nodes, Skip(n) \/ SkipInert(n),
         \A m \in Nodes : Len(ran[m]) <= 1 /\ Untouched(m) /\ GivenIsSent(m)
  PROVE  \A m \in Nodes : Len(ran'[m]) <= 1 /\ Untouched(m)' /\ GivenIsSent(m)'
<1>1. TypeOK /\ DataOK /\ OrdersOK /\ ChainsOK
  BY DEF IInv, RunsInv
<1>2. /\ n = Here /\ at <= Len(order) /\ at' = at + 1 /\ order' = order
      /\ UNCHANGED <<wf, history>>
  BY DEF Skip, SkipInert, Main, NextNode, setup
<1>3. ~Passed(n) /\ \A m : Passed(m)' <=> Passed(m) \/ m = n
  BY <1>1, <1>2, HereIsNext, PassesHere
<1>4. ran[n] = <<>> /\ ran' = ran
  BY <1>2, <1>3 DEF Untouched, history
<1>5. \A m \in Nodes \ {n} : results'[m] = results[m]
  <2>1. CASE Skip(n)
    BY <2>1 DEF Skip
  <2>2. CASE SkipInert(n)
    BY <2>2, <1>1 DEF SkipInert, DataOK
  <2> QED BY <2>1, <2>2
<1>6. Handled = {}
  <2>1. body = <<>> /\ done = <<>> /\ RetryGuards(wf) = {}
    BY <1>1 DEF ChainsOK, NoLoops
  <2> QED BY <2>1 DEF Handled, ToSet
<1>7. wf.kind[n] # "inert" => results[n] = <<>>
  BY <1>6 DEF Skip, SkipInert, Skipped
<1>8. ASSUME NEW m \in Nodes, wf.kind[m] # "inert" PROVE Given(m)' = Given(m)
  <2>1. CASE m = n
    BY <1>3, <1>4, <1>7, <1>8, <2>1, FlattenNone DEF Given
  <2>2. CASE m # n
    BY <1>3, <1>4, <1>5, <2>2 DEF Given
  <2> QED BY <2>1, <2>2
<1> QED BY <1>2, <1>3, <1>8, OtherFlows

\* A sort, the end, or a step that changes nothing.
LEMMA StillFlows ==
  ASSUME IInv, RunsInv, NoLoops,
         Sort \/ Refuse \/ Ordered \/ Finish \/ Fail \/ UNCHANGED vars,
         \A m \in Nodes : Len(ran[m]) <= 1 /\ Untouched(m) /\ GivenIsSent(m)
  PROVE  \A m \in Nodes : Len(ran'[m]) <= 1 /\ Untouched(m)' /\ GivenIsSent(m)'
<1>1. /\ UNCHANGED <<wf, history>> /\ results' = results /\ at' = at
      /\ order' = order \/ (pc = "order" /\ at = 1)
  <2>1. CASE Sort \/ Refuse \/ Finish \/ Fail \/ UNCHANGED vars
    BY <2>1 DEF Sort, Refuse, Finish, Fail, vars, setup
  <2>2. CASE Ordered
    BY <2>2 DEF Ordered, TakeOrder, GetLoopIterationOrder, GetLoopDoneOrder, IInv, PlaceOK,
                Sorts
  <2> QED BY <2>1, <2>2
<1>2. \A m : Passed(m)' <=> Passed(m)
  <2>1. CASE order' = order
    BY <1>1, <2>1, PassedSame
  <2>2. CASE pc = "order" /\ at = 1
    BY <1>1, <2>2 DEF Passed
  <2> QED BY <1>1, <2>1, <2>2
<1>3. \A m \in Nodes : Given(m)' = Given(m)
  BY <1>1, <1>2 DEF Given, history
<1> QED BY <1>1, <1>2, <1>3, OtherFlows

LEMMA FlowStep == IInv /\ RunsInv /\ FlowInv /\ [Next]_vars => FlowInv'
<1> SUFFICES ASSUME IInv, RunsInv, FlowInv, [Next]_vars, (NoLoops /\ Wide(wf))'
             PROVE  \A n \in Nodes : Len(ran'[n]) <= 1 /\ Untouched(n)' /\ GivenIsSent(n)'
  BY DEF FlowInv
<1>1. TypeOK /\ PlaceOK
  BY DEF IInv
<1>2. wf' = wf
  <2>1. CASE Sort \/ Refuse \/ Ordered \/ Finish \/ Fail \/ UNCHANGED vars
    BY <2>1 DEF Sort, Refuse, Ordered, Finish, Fail, vars, setup
  <2>2. CASE EndBatch \/ EndDone \/ \E more \in BOOLEAN : EndIteration(more)
    BY <2>2 DEF EndBatch, EndDone, EndIteration, setup
  <2>3. ASSUME NEW n \in Nodes,
               \/ Skip(n) \/ SkipInert(n)
               \/ \E out \in Outputs(n, results[n]) : RunNode(n, out)
        PROVE  wf' = wf
    BY <2>3 DEF Skip, SkipInert, RunNode, setup
  <2>4. ASSUME NEW n \in Nodes, Drivers(n) PROVE wf' = wf
    BY <2>4 DEF Drivers, StartLoop, StartRetry, SkipChainNode, RunChainNode, RunRetryNode, setup
  <2> QED BY <2>1, <2>2, <2>3, <2>4 DEF Next, Returned
<1>3. /\ NoLoops /\ Wide(wf)
      /\ \A n \in Nodes : Len(ran[n]) <= 1 /\ Untouched(n) /\ GivenIsSent(n)
  BY <1>2 DEF NoLoops, FlowInv
<1>4. CASE Sort \/ Refuse \/ Ordered \/ Finish \/ Fail \/ UNCHANGED vars
  BY <1>3, <1>4, StillFlows
<1>5. ASSUME NEW n \in Nodes,
             \/ Skip(n) \/ SkipInert(n)
             \/ \E out \in Outputs(n, results[n]) : RunNode(n, out)
      PROVE  \A m \in Nodes : Len(ran'[m]) <= 1 /\ Untouched(m)' /\ GivenIsSent(m)'
  BY <1>3, <1>5, SkipFlows, RunNodeFlows
<1>6. ASSUME NEW n \in Nodes PROVE ~Drivers(n)
  <2>1. ~(\/ wf.kind[n] = "loop" \/ n \in RetryGuards(wf)
          \/ pc \in {"body", "done", "retry"})
    BY <1>1, <1>3 DEF NoLoops, PlaceOK, Loops
  <2> QED BY <2>1 DEF Drivers, StartLoop, StartRetry, SkipChainNode, RunChainNode, RunRetryNode,
                      ChainNode
<1>7. ~(EndBatch \/ EndDone \/ \E more \in BOOLEAN : EndIteration(more))
  BY <1>1, <1>3 DEF NoLoops, PlaceOK, EndBatch, EndDone, EndIteration
<1> QED BY <1>4, <1>5, <1>6, <1>7 DEF Next, Returned

\* Once the order is taken it lists every node, and at the end all are passed.
WholeOrder ==
  /\ pc \notin {"order", "failed"} => ToSet(order) = Nodes
  /\ pc = "ended" => at > Len(order)

LEMMA WholeStep == WholeOrder /\ [Next]_vars => WholeOrder'
<1> SUFFICES ASSUME WholeOrder, [Next]_vars PROVE WholeOrder'
  OBVIOUS
<1>1. CASE TakeOrder
  BY <1>1 DEF TakeOrder, Sorted, Visited, WholeOrder
<1>2. CASE Finish \/ Fail \/ Refuse \/ UNCHANGED vars
  BY <1>2 DEF Finish, Fail, Refuse, vars, setup, WholeOrder
<1>3. CASE Sort \/ GetLoopIterationOrder \/ GetLoopDoneOrder
  BY <1>3 DEF Sort, GetLoopIterationOrder, GetLoopDoneOrder, setup, Sorts, WholeOrder
<1>4. CASE EndBatch \/ EndDone \/ \E more \in BOOLEAN : EndIteration(more)
  BY <1>4 DEF EndBatch, EndDone, EndIteration, setup, WholeOrder
<1>5. ASSUME NEW n \in Nodes,
             \/ Skip(n) \/ SkipInert(n)
             \/ \E out \in Outputs(n, results[n]) : RunNode(n, out)
      PROVE  WholeOrder'
  BY <1>5 DEF Skip, SkipInert, RunNode, Main, setup, WholeOrder
<1>6. ASSUME NEW n \in Nodes, Drivers(n) PROVE WholeOrder'
  BY <1>6 DEF Drivers, StartLoop, StartRetry, SkipChainNode, RunChainNode, RunRetryNode,
              ChainNode, Main, setup, WholeOrder
<1> QED BY <1>1, <1>2, <1>3, <1>4, <1>5, <1>6 DEF Next, Ordered, Returned

LEMMA WholeOrderHolds == Spec => []WholeOrder
<1>1. Init => WholeOrder
  BY DEF Init, WholeOrder
<1> QED BY <1>1, WholeStep, PTL DEF Spec

LEMMA AllPassed ==
  ASSUME IInv, WholeOrder, pc = "ended", NEW n \in Nodes
  PROVE  Passed(n)
<1>1. order \in Seq(Nodes) /\ ToSet(order) = Nodes /\ at > Len(order) /\ at \in Nat
  BY DEF IInv, TypeOK, WholeOrder
<1>2. PICK j \in 1..Len(order) : order[j] = n
  BY <1>1, InSeq
<1>3. j < at
  BY <1>1
<1> QED BY <1>2, <1>3 DEF Passed

\* In a workflow without loops a node has run once at the end, on as many copies
\* of every item as its upstream nodes have sent it, and not at all if they
\* sent none, whichever branches the nodes chose: if every switch has a branch
\* for each tag, or none, and no switch leaves a tag in an item of another node,
\* which NodeRunAssumption says of every workflow (engine.go:372-404, 532,
\* 712-722).
THEOREM DeliveredCorrect == Spec => [](Wide(wf) => DeliveredIsRun)
<1>1. IInv /\ FlowInv /\ WholeOrder => (Wide(wf) => DeliveredIsRun)
  <2> SUFFICES ASSUME IInv, FlowInv, WholeOrder, Wide(wf), pc = "ended", NoLoops,
                      NEW n \in Nodes \ Starts(wf)
               PROVE  /\ Len(ran[n]) <= 1
                      /\ wf.kind[n] # "inert" => \A i \in ToSet(input) :
                           Copies(i, FlattenSeq(ran[n])) = Arriving(i, n, Nodes)
    BY DEF DeliveredIsRun
  <2>1. Passed(n)
    BY AllPassed
  <2>2. Len(ran[n]) <= 1 /\ GivenIsSent(n)
    BY DEF FlowInv
  <2> QED BY <2>1, <2>2, ArrivingIs DEF GivenIsSent, Given
<1>2. Init /\ []IInv /\ []RunsInv /\ [][Next]_vars => []FlowInv
  BY InitFlow, FlowStep, PTL
<1> QED BY <1>1, <1>2, RunsHold, WholeOrderHolds, Invariance, PTL DEF Spec

----------------------------------------------------------------------------
(* Batches, put together, are what was split.                              *)

LEMMA ConcatAssoc ==
  ASSUME NEW A, NEW r \in Seq(A), NEW s \in Seq(A), NEW t \in Seq(A)
  PROVE  (r \o s) \o t = r \o (s \o t)
<1> DEFINE x == (r \o s) \o t
           y == r \o (s \o t)
<1>1. x \in Seq(A) /\ y \in Seq(A) /\ Len(x) = Len(y)
  OBVIOUS
<1>2. \A i \in 1..Len(x) : x[i] = y[i]
  OBVIOUS
<1> HIDE DEF x, y
<1>3. x = y
  BY <1>1, <1>2, SeqEqual
<1> QED BY <1>3 DEF x, y

LEMMA FlattenConcat ==
  ASSUME NEW A, NEW ss \in Seq(Seq(A))
  PROVE  \A tt \in Seq(Seq(A)) :
           FlattenSeq(ss \o tt) = FlattenSeq(ss) \o FlattenSeq(tt)
<1> DEFINE P == {tt \in Seq(Seq(A)) :
                   FlattenSeq(ss \o tt) = FlattenSeq(ss) \o FlattenSeq(tt)}
<1>0. \A tt \in Seq(Seq(A)) : FlattenSeq(tt) \in Seq(A)
  BY FlattenType
<1>1. <<>> \in P
  <2>1. ss \o <<>> = ss /\ <<>> \in Seq(Seq(A))
    OBVIOUS
  <2>2. \A r \in Seq(A) : r \o <<>> = r
    OBVIOUS
  <2>3. FlattenSeq(ss) \o <<>> = FlattenSeq(ss)
    BY <1>0, <2>2
  <2> QED BY <2>1, <2>3, FlattenNone
<1>2. ASSUME NEW tt \in Seq(Seq(A)), NEW s \in Seq(A), tt \in P
      PROVE  Append(tt, s) \in P
  <2> DEFINE q == ss \o tt
  <2>1. q \in Seq(Seq(A)) /\ ss \o Append(tt, s) = Append(q, s)
        /\ Append(tt, s) \in Seq(Seq(A))
    OBVIOUS
  <2>2. /\ FlattenSeq(Append(q, s)) = FlattenSeq(q) \o s
        /\ FlattenSeq(Append(tt, s)) = FlattenSeq(tt) \o s
    <3> HIDE DEF q
    <3> QED BY <2>1, FlattenAppend
  <2>3. FlattenSeq(q) = FlattenSeq(ss) \o FlattenSeq(tt)
    BY <1>2
  <2>4. (FlattenSeq(ss) \o FlattenSeq(tt)) \o s = FlattenSeq(ss) \o (FlattenSeq(tt) \o s)
    BY <1>0, ConcatAssoc
  <2> HIDE DEF q
  <2> QED BY <2>1, <2>2, <2>3, <2>4
<1> HIDE DEF P
<1>3. \A tt \in Seq(Seq(A)) : tt \in P
  BY <1>1, <1>2, SeqInduction
<1> QED BY <1>3 DEF P

LEMMA FlattenFirst ==
  ASSUME NEW A, NEW ss \in Seq(Seq(A)), ss # <<>>
  PROVE  /\ ss[1] \in Seq(A) /\ Tail(ss) \in Seq(Seq(A))
         /\ FlattenSeq(ss) = ss[1] \o FlattenSeq(Tail(ss))
         /\ Len(Tail(ss)) = Len(ss) - 1
<1>1. ss[1] \in Seq(A) /\ Tail(ss) \in Seq(Seq(A)) /\ Len(Tail(ss)) = Len(ss) - 1
  BY EmptySeq
<1>2. ss = <<ss[1]>> \o Tail(ss)
  OBVIOUS
<1> DEFINE a == ss[1]
           t == Tail(ss)
<1>3. <<a>> \in Seq(Seq(A))
  BY <1>1
<1> HIDE DEF a, t
<1>4. FlattenSeq(<<a>> \o t) = FlattenSeq(<<a>>) \o FlattenSeq(t)
  BY <1>1, <1>3, FlattenConcat DEF t
<1>5. FlattenSeq(<<a>>) = a
  BY <1>1, FlattenOne DEF a
<1> QED BY <1>1, <1>2, <1>4, <1>5 DEF a, t

LEMMA SubSeqConcat ==
  ASSUME NEW A, NEW s \in Seq(A), NEW a \in Nat, NEW b \in Nat, a <= b, b <= Len(s)
  PROVE  SubSeq(s, 1, a) \o SubSeq(s, a + 1, b) = SubSeq(s, 1, b)
<1> DEFINE x == SubSeq(s, 1, a)
           y == SubSeq(s, a + 1, b)
           z == SubSeq(s, 1, b)
<1>1. x \in Seq(A) /\ Len(x) = a /\ \A i \in 1..a : x[i] = s[i]
  OBVIOUS
<1>2. y \in Seq(A) /\ Len(y) = b - a /\ \A i \in 1..(b - a) : y[i] = s[a + i]
  OBVIOUS
<1>3. z \in Seq(A) /\ Len(z) = b /\ \A i \in 1..b : z[i] = s[i]
  OBVIOUS
<1> HIDE DEF x, y, z
<1>4. /\ x \o y \in Seq(A) /\ Len(x \o y) = Len(x) + Len(y)
      /\ \A i \in 1..Len(x) + Len(y) :
           (x \o y)[i] = IF i <= Len(x) THEN x[i] ELSE y[i - Len(x)]
  <2>1. x \in Seq(A) /\ y \in Seq(A)
    BY <1>1, <1>2
  <2> QED BY <2>1, ConcatProperties
<1> DEFINE w == x \o y
<1> HIDE DEF w
<1>5. w \in Seq(A) /\ Len(w) = b
      /\ \A i \in 1..b : w[i] = IF i <= a THEN x[i] ELSE y[i - a]
  <2>1. Len(x) + Len(y) = b
    BY <1>1, <1>2
  <2> QED BY <1>1, <1>4, <2>1 DEF w
<1>6. \A i \in 1..b : w[i] = s[i]
  <2> SUFFICES ASSUME NEW i \in 1..b PROVE w[i] = s[i]
    OBVIOUS
  <2>1. CASE i <= a
    <3>1. i \in 1..a
      BY <2>1
    <3> QED BY <1>1, <1>5, <2>1, <3>1
  <2>2. CASE ~(i <= a)
    <3>1. i - a \in 1..(b - a) /\ a + (i - a) = i
      BY <2>2
    <3>2. w[i] = y[i - a]
      BY <1>5, <2>2
    <3> QED BY <1>2, <3>1, <3>2
  <2> QED BY <2>1, <2>2
<1>7. w = z
  BY <1>3, <1>6, <1>5, SeqEqual
<1> QED BY <1>7 DEF w, x, y, z

\* How many batches there are: enough, and the last is not empty.
LEMMA BatchesAreEnough ==
  ASSUME NEW l \in Nat, NEW B \in Nat \ {0}
  PROVE  LET d == (l + B - 1) \div B
         IN  d \in Nat /\ l <= d * B /\ \A m \in 0..d : m < d => m * B < l
<1> DEFINE d == (l + B - 1) \div B
           r == (l + B - 1) % B
<1>1. l + B - 1 \in Nat /\ d \in Nat /\ r \in 0..(B - 1) /\ l + B - 1 = B * d + r
  OBVIOUS
<1> HIDE DEF d, r
<1>2. d * B = B * d /\ d * B \in Nat
  BY <1>1
<1>3. l <= d * B /\ d * B <= l + B - 1
  <2> DEFINE x == d * B
  <2>1. x = B * d /\ x \in Nat
    BY <1>2
  <2> HIDE DEF x
  <2>2. l + B - 1 = x + r
    BY <1>1, <2>1
  <2>3. l <= x /\ x <= l + B - 1
    BY <1>1, <2>1, <2>2
  <2> QED BY <2>3 DEF x
<1>4. ASSUME NEW m \in 0..d, m < d PROVE m * B < l
  <2>1. m \in Nat /\ m + 1 <= d /\ m + 1 \in Nat
    BY <1>1, <1>4
  <2>2. (m + 1) * B = m * B + B /\ (m + 1) * B <= d * B /\ m * B \in Nat
    BY <1>1, <2>1, OneMore
  <2> DEFINE x == m * B
             y == d * B
             z == (m + 1) * B
  <2>3. z = x + B /\ z <= y /\ x \in Nat /\ y \in Nat /\ y <= l + B - 1
    BY <1>2, <1>3, <2>2
  <2> HIDE DEF x, y, z
  <2>4. x < l
    BY <2>3
  <2> QED BY <2>4 DEF x
<1> QED BY <1>1, <1>3, <1>4 DEF d

LEMMA BatchesAreAll ==
  ASSUME NEW A, NEW s \in Seq(A)
  PROVE  /\ FlattenSeq(SplitIntoBatches(s)) = s
         /\ \A k \in 1..Len(SplitIntoBatches(s)) :
              Len(SplitIntoBatches(s)[k]) <= BatchSize
<1> DEFINE l == Len(s)
           B == BatchSize
           d == (l + B - 1) \div B
           end(k) == IF k * B < l THEN k * B ELSE l
           part(k) == SubSeq(s, (k - 1) * B + 1, end(k))
           first(m) == [k \in 1..m |-> part(k)]
           T == {m \in Nat : m <= d => FlattenSeq(first(m)) = SubSeq(s, 1, end(m))}
<1>1. B \in Nat \ {0} /\ l \in Nat
  BY NodeRunAssumption
<1>2. d \in Nat /\ l <= d * B /\ \A m \in 0..d : m < d => m * B < l
  BY <1>1, BatchesAreEnough
<1>3. SplitIntoBatches(s) = first(d)
  BY DEF SplitIntoBatches
<1> HIDE DEF B, l, d
<1>4. \A k \in Nat : k * B \in Nat /\ end(k) \in 0..l
  BY <1>1
<1>5. \A m \in Nat : m < d => end(m) = m * B /\ (m + 1) * B = m * B + B
                               /\ end(m) <= end(m + 1) /\ end(m + 1) <= end(m) + B
  <2> SUFFICES ASSUME NEW m \in Nat, m < d
               PROVE  end(m) = m * B /\ (m + 1) * B = m * B + B
                       /\ end(m) <= end(m + 1) /\ end(m + 1) <= end(m) + B
    OBVIOUS
  <2>1. m * B < l
    BY <1>2
  <2>2. (m + 1) * B = m * B + B
    BY <1>1, OneMore
  <2> DEFINE x == m * B
             y == (m + 1) * B
  <2>3. x \in Nat /\ y = x + B /\ x < l
    BY <1>4, <2>1, <2>2
  <2>4. end(m) = x /\ end(m + 1) = IF y < l THEN y ELSE l
    BY <2>3
  <2> HIDE DEF x, y, end
  <2>5. end(m) = x /\ y = x + B /\ end(m) <= end(m + 1) /\ end(m + 1) <= end(m) + B
    BY <1>1, <2>3, <2>4
  <2> QED BY <2>5 DEF x, y
<1>6. \A m \in Nat : m < d => part(m + 1) = SubSeq(s, end(m) + 1, end(m + 1))
  <2> SUFFICES ASSUME NEW m \in Nat, m < d
               PROVE  part(m + 1) = SubSeq(s, end(m) + 1, end(m + 1))
    OBVIOUS
  <2>1. ((m + 1) - 1) * B + 1 = end(m) + 1
    <3>1. (m + 1) - 1 = m
      OBVIOUS
    <3> QED BY <3>1, <1>5
  <2> HIDE DEF end
  <2> QED BY <2>1
<1> HIDE DEF end, part
<1>7. \A m \in Nat : m < d => /\ part(m + 1) \in Seq(A) /\ Len(part(m + 1)) <= B
                              /\ SubSeq(s, 1, end(m)) \o part(m + 1) = SubSeq(s, 1, end(m + 1))
  <2> SUFFICES ASSUME NEW m \in Nat, m < d
               PROVE  /\ part(m + 1) \in Seq(A) /\ Len(part(m + 1)) <= B
                      /\ SubSeq(s, 1, end(m)) \o part(m + 1) = SubSeq(s, 1, end(m + 1))
    OBVIOUS
  <2> DEFINE a == end(m)
             b == end(m + 1)
  <2>1. a \in Nat /\ b \in Nat /\ a <= b /\ b <= Len(s) /\ b <= a + B
    BY <1>4, <1>5 DEF l
  <2>2. part(m + 1) = SubSeq(s, a + 1, b)
    BY <1>6
  <2> HIDE DEF a, b
  <2>3. SubSeq(s, a + 1, b) \in Seq(A) /\ Len(SubSeq(s, a + 1, b)) = b - a
    BY <2>1
  <2>4. SubSeq(s, 1, a) \o SubSeq(s, a + 1, b) = SubSeq(s, 1, b)
    BY <2>1, SubSeqConcat
  <2>5. b - a <= B
    BY <1>1, <2>1
  <2> QED BY <2>2, <2>3, <2>4, <2>5 DEF a, b
<1>8. \A m \in Nat : m <= d => first(m) \in Seq(Seq(A))
  <2> SUFFICES ASSUME NEW m \in Nat, m <= d PROVE first(m) \in Seq(Seq(A))
    OBVIOUS
  <2>1. ASSUME NEW k \in 1..m PROVE part(k) \in Seq(A)
    <3>1. k - 1 \in Nat /\ k - 1 < d /\ (k - 1) + 1 = k
      BY <1>2
    <3>2. part((k - 1) + 1) \in Seq(A)
      BY <1>7, <3>1
    <3> QED BY <3>1, <3>2
  <2> QED BY <2>1
<1>9. 0 \in T
  <2>1. first(0) = <<>>
    OBVIOUS
  <2>2. end(0) = 0
    <3>1. 0 * B = 0
      BY <1>1
    <3> QED BY <3>1, <1>1 DEF end
  <2>3. SubSeq(s, 1, 0) = <<>>
    OBVIOUS
  <2> HIDE DEF first
  <2> QED BY <2>1, <2>2, <2>3, FlattenNone
<1>10. ASSUME NEW m \in Nat, m \in T PROVE m + 1 \in T
  <2> SUFFICES ASSUME m + 1 <= d
               PROVE  FlattenSeq(first(m + 1)) = SubSeq(s, 1, end(m + 1))
    OBVIOUS
  <2>1. m <= d /\ m < d
    BY <1>2
  <2>2. FlattenSeq(first(m)) = SubSeq(s, 1, end(m))
    BY <1>10, <2>1
  <2>3. first(m) \in Seq(Seq(A)) /\ part(m + 1) \in Seq(A)
    BY <1>7, <1>8, <2>1
  <2>4. first(m + 1) = Append(first(m), part(m + 1))
    <3>1. first(m + 1) \in Seq(Seq(A))
      BY <1>8
    <3>2. Len(first(m)) = m /\ Len(first(m + 1)) = m + 1
      OBVIOUS
    <3> DEFINE g == first(m)
               e == part(m + 1)
    <3>3. /\ Append(g, e) \in Seq(Seq(A)) /\ Len(Append(g, e)) = m + 1
          /\ Append(g, e)[m + 1] = e /\ \A i \in 1..m : Append(g, e)[i] = g[i]
      <4> HIDE DEF g, e
      <4>1. g \in Seq(Seq(A)) /\ Len(g) = m /\ e \in Seq(A)
        BY <2>3, <3>2 DEF g, e
      <4> QED BY <4>1
    <3>4. first(m + 1)[m + 1] = e /\ \A i \in 1..m : first(m + 1)[i] = g[i]
      OBVIOUS
    <3>5. \A i \in 1..m + 1 : i \in 1..m \/ i = m + 1
      OBVIOUS
    <3> DEFINE f == first(m + 1)
               h == Append(g, e)
    <3>6. f \in Seq(Seq(A)) /\ h \in Seq(Seq(A)) /\ Len(f) = m + 1 /\ Len(h) = m + 1
      BY <3>1, <3>2, <3>3
    <3>7. \A i \in 1..m + 1 : f[i] = h[i]
      <4>1. f[m + 1] = h[m + 1] /\ \A i \in 1..m : f[i] = h[i]
        BY <3>3, <3>4
      <4> HIDE DEF f, h
      <4> QED BY <3>5, <4>1
    <3> HIDE DEF f, h
    <3>8. f = h
      BY <3>6, <3>7, SeqEqual
    <3> QED BY <3>8 DEF f, h
  <2> HIDE DEF first
  <2>5. FlattenSeq(first(m + 1)) = FlattenSeq(first(m)) \o part(m + 1)
    BY <2>3, <2>4, FlattenAppend
  <2> QED BY <1>7, <2>1, <2>2, <2>5
<1>11. d \in T
  <2> HIDE DEF T
  <2> QED BY <1>2, <1>9, <1>10, SetInduction
<1>12. FlattenSeq(first(d)) = s
  <2>1. end(d) = l
    BY <1>1, <1>2, <1>4 DEF end
  <2>2. SubSeq(s, 1, l) = s
    BY DEF l
  <2>3. FlattenSeq(first(d)) = SubSeq(s, 1, end(d))
    <3> HIDE DEF first
    <3> QED BY <1>2, <1>11
  <2> HIDE DEF first
  <2> QED BY <2>1, <2>2, <2>3
<1>13. \A k \in 1..Len(first(d)) : Len(first(d)[k]) <= B
  <2>1. Len(first(d)) = d
    BY <1>2
  <2> SUFFICES ASSUME NEW k \in 1..d PROVE Len(first(d)[k]) <= B
    BY <2>1
  <2>2. k - 1 \in Nat /\ k - 1 < d /\ (k - 1) + 1 = k
    BY <1>2
  <2>3. Len(part((k - 1) + 1)) <= B
    BY <1>7, <2>2
  <2>4. first(d)[k] = part(k)
    OBVIOUS
  <2> HIDE DEF first
  <2> QED BY <2>2, <2>3, <2>4
<1> QED BY <1>3, <1>12, <1>13 DEF B

----------------------------------------------------------------------------
(* The items that reach a loop.                                            *)

\* The copies of i that nodes but P send to t.
CopiesBut(P, o, i, t) == {d \in CopiesBy(wf, o, i, t) : d[1] # P}

LEMMA ArrivingButIs ==
  ASSUME NEW i, NEW t, NEW P
  PROVE  Arriving(i, t, Nodes \ {P}) = Cardinality(CopiesBut(P, outs, i, t))
<1>1. \A s, b : Sends(s, b) = CarriedBy(wf, outs, s, b)
  BY DEF Sends, CarriedBy
<1> DEFINE X == {d \in Deliveries(t, Nodes \ {P}) : Sends(d[1], d[2])[d[4]].item = i}
           Sent(d, s) ==
             \E b \in Branches(wf, s) :
               \E c \in DOMAIN wf.main[s][b], k \in DOMAIN CarriedBy(wf, outs, s, b) :
                 /\ d = <<s, b, c, k>>
                 /\ wf.main[s][b][c] = t /\ CarriedBy(wf, outs, s, b)[k].item = i
<1>2. \A d : d \in CopiesBy(wf, outs, i, t) <=> \E s \in Nodes : Sent(d, s)
  BY CopyIs
<1>3. \A d : d \in Deliveries(t, Nodes \ {P}) <=>
        \E s \in Nodes \ {P} : \E b \in Branches(wf, s) :
          \E c \in DOMAIN wf.main[s][b], k \in DOMAIN CarriedBy(wf, outs, s, b) :
            d = <<s, b, c, k>> /\ wf.main[s][b][c] = t
  BY <1>1 DEF Deliveries
<1>4. \A d : d \in X <=> \E s \in Nodes \ {P} : Sent(d, s)
  <2> SUFFICES ASSUME NEW d PROVE d \in X <=> \E s \in Nodes \ {P} : Sent(d, s)
    OBVIOUS
  <2>1. d \in X <=> /\ d \in Deliveries(t, Nodes \ {P})
                    /\ CarriedBy(wf, outs, d[1], d[2])[d[4]].item = i
    BY <1>1
  <2> HIDE DEF X
  <2> QED BY <1>3, <2>1
<1>5. \A d : \A s : Sent(d, s) => d[1] = s
  OBVIOUS
<1> HIDE DEF Sent, X
<1>6. X = CopiesBut(P, outs, i, t)
  <2>1. \A d : d \in CopiesBut(P, outs, i, t) <=>
                 (\E s \in Nodes : Sent(d, s)) /\ d[1] # P
    BY <1>2 DEF CopiesBut
  <2>2. \A d : (\E s \in Nodes : Sent(d, s)) /\ d[1] # P
                 <=> \E s \in Nodes \ {P} : Sent(d, s)
    BY <1>5
  <2> QED BY <1>4, <2>1, <2>2
<1> QED BY <1>6 DEF Arriving, X

\* A node that is not connected to another is not routed to it.
LEMMA RoutesToSuccessors ==
  ASSUME TypeOK, Wide(wf), NEW n \in Nodes, NEW s \in Seq(Items),
         NEW out \in Outputs(n, s), NEW t \in Nodes, t \notin Successors(wf, n)
  PROVE  RouteData(wf, n, out)[t] = <<>>
<1> DEFINE o == [m \in Nodes |-> out]
           r == RouteData(wf, n, out)[t]
<1>1. wf \in Graphs /\ out \in Seq(Elements) /\ r \in Seq(Items) /\ o[n] = out
  <2>1. wf \in Graphs /\ out \in Seq(Elements)
    BY InGraph, OutputsType
  <2> QED BY <2>1, RouteType
<1>2. \A b \in Branches(wf, n) : CarriedBy(wf, o, n, b) = BranchItems(wf, n, out, b)
  <2> HIDE DEF o
  <2> QED BY <1>1, CarriedIsRouted
<1> HIDE DEF o
<1>3. \A i : Copies(i, r) = 0
  <2> SUFFICES ASSUME NEW i PROVE Copies(i, r) = 0
    OBVIOUS
  <2>1. SentBy({}, n, wf, o, i, t)
    BY <1>1, SendsToSuccessors DEF SentBy
  <2>2. Cardinality({}) = Copies(i, RouteData(wf, n, out)[t])
    BY <1>1, <1>2, <2>1, RouteCount
  <2> QED BY <2>2, FS_EmptySet
<1> HIDE DEF r
<1>4. r = <<>>
  <2> SUFFICES ASSUME r # <<>> PROVE FALSE
    OBVIOUS
  <2>1. 1 \in DOMAIN r
    BY <1>1, EmptySeq
  <2> DEFINE K == {k \in DOMAIN r : r[k] = r[1]}
  <2>2. 1 \in K /\ IsFiniteSet(K) /\ Cardinality(K) = 0
    BY <1>1, <1>3, <2>1, CopiesType DEF Copies
  <2>3. K = {}
    <3> HIDE DEF K
    <3> QED BY <2>2, FS_EmptySet
  <2> QED BY <2>2, <2>3
<1> QED BY <1>4 DEF r

\* When n has put out something for the first time, the copies it sends to t are
\* added; and nothing changes if it is not connected to t, or is left out.
LEMMA ButSends ==
  ASSUME TypeOK, Wide(wf), NEW n \in Nodes, NEW s \in Seq(Items),
         NEW out \in Outputs(n, s), FirstOutput(n, outs, outs'), outs'[n] = out,
         NEW P, P # n, NEW t \in Nodes, NEW i,
         IsFiniteSet(CopiesBut(P, outs, i, t))
  PROVE  /\ IsFiniteSet(CopiesBut(P, outs', i, t))
         /\ Cardinality(CopiesBut(P, outs', i, t))
              = Cardinality(CopiesBut(P, outs, i, t)) + Copies(i, RouteData(wf, n, out)[t])
<1> DEFINE X == CopiesBut(P, outs, i, t)
           Y == CopiesBut(P, outs', i, t)
           D == {d \in CopiesBy(wf, outs', i, t) : d[1] = n}
<1>1. wf \in Graphs /\ out \in Seq(Elements)
  BY InGraph, OutputsType
<1>2. IsFiniteSet(D) /\ Cardinality(D) = Copies(i, RouteData(wf, n, out)[t])
  <2>1. \A b \in Branches(wf, n) :
          CarriedBy(wf, outs', n, b) = BranchItems(wf, n, out, b)
    BY CarriedIsRouted
  <2>2. SentBy(D, n, wf, outs', i, t)
    BY DEF SentBy
  <2> HIDE DEF D
  <2> QED BY <1>1, <2>1, <2>2, RouteCount
<1>3. Y = X \cup D /\ X \cap D = {}
  <2> DEFINE x == CopiesBy(wf, outs, i, t)
             y == CopiesBy(wf, outs', i, t)
  <2>1. x \subseteq y /\ \A d \in y : d \in x <=> d[1] # n
    BY OneSends
  <2> HIDE DEF x, y
  <2>2. X = {d \in x : d[1] # P} /\ Y = {d \in y : d[1] # P} /\ D = {d \in y : d[1] = n}
    BY DEF CopiesBut, x, y
  <2> HIDE DEF X, Y, D
  <2> QED BY <2>1, <2>2
<1> HIDE DEF D
<1>4. /\ IsFiniteSet(X \cup D)
      /\ Cardinality(X \cup D)
           = Cardinality(X) + Cardinality(D) - Cardinality(X \cap D)
  BY <1>2, FS_Union
<1>5. Cardinality(X \cap D) = 0
  BY <1>3, FS_EmptySet
<1>6. Cardinality(X) \in Nat /\ Cardinality(D) \in Nat
  BY <1>2, FS_CardinalityType
<1> HIDE DEF X, Y
<1>7. IsFiniteSet(Y) /\ Cardinality(Y) = Cardinality(X) + Cardinality(D)
  BY <1>3, <1>4, <1>5, <1>6
<1> QED BY <1>2, <1>7 DEF X, Y

LEMMA ButSame ==
  ASSUME TypeOK, NEW n \in Nodes, \A m \in Nodes \ {n} : outs'[m] = outs[m],
         NEW P, NEW t, P = n \/ t \notin Successors(wf, n), NEW i
  PROVE  CopiesBut(P, outs', i, t) = CopiesBut(P, outs, i, t)
<1> DEFINE Sent(q, d, s) ==
             \E b \in Branches(wf, s) :
               \E c \in DOMAIN wf.main[s][b], k \in DOMAIN CarriedBy(wf, q, s, b) :
                 /\ d = <<s, b, c, k>>
                 /\ wf.main[s][b][c] = t /\ CarriedBy(wf, q, s, b)[k].item = i
           x == CopiesBy(wf, outs, i, t)
           y == CopiesBy(wf, outs', i, t)
<1>1. \A s \in Nodes \ {n} : \A b : CarriedBy(wf, outs', s, b) = CarriedBy(wf, outs, s, b)
  BY DEF CarriedBy
<1>2. /\ \A d : d \in x <=> \E s \in Nodes : Sent(outs, d, s)
      /\ \A d : d \in y <=> \E s \in Nodes : Sent(outs', d, s)
  BY CopyIs
<1>3. \A d : \A s : (Sent(outs, d, s) \/ Sent(outs', d, s)) => d[1] = s
  OBVIOUS
<1>4. \A d : \A s \in Nodes \ {n} : Sent(outs, d, s) <=> Sent(outs', d, s)
  BY <1>1
<1>5. P # n => \A d : (d \in x => d[1] # n) /\ (d \in y => d[1] # n)
  BY InGraph, SendsToSuccessors
<1> HIDE DEF Sent, x, y
<1>6. {d \in x : d[1] # P} = {d \in y : d[1] # P}
  BY <1>2, <1>3, <1>4, <1>5
<1> QED BY <1>6 DEF CopiesBut, x, y

----------------------------------------------------------------------------
(* The loop driver serves what has reached the loop.                       *)

\* A loop in a workflow without retries, whose body and done chain have no node
\* in common, and that other nodes feed: all those connected to it, but for its
\* body, are run by the main loop, before it.
LoopIsApart ==
  /\ RetryGuards(wf) = {} /\ Wide(wf)
  /\ ToSet(body) \cap ToSet(done) = {}
  /\ \A l \in Loops(wf) :
       /\ l \notin Starts(wf)
       /\ \A s \in Nodes : l \in Successors(wf, s) /\ s \notin ToSet(body) =>
            /\ s \notin ToSet(done)
            /\ \E i, j \in DOMAIN order : i < j /\ order[i] = s /\ order[j] = l
OneInBody == Loops(wf) # {} /\ Len(body) = 1 /\ wf.kind[body[1]] = "plain"

\* The driver has the loop node L, or it has been passed.
Begun(L) == pc \in {"body", "done"} \/ Passed(L)

\* What is to be served, or was, are the copies sent to the loop node.
Taken(L) == IF Begun(L) THEN FlattenSeq(ran[L]) ELSE results[L]
Arrives(L, P) ==
  /\ ~Begun(L) => \A n \in Nodes : ~Passed(n) => outs[n] = <<>>
  /\ \A i : /\ IsFiniteSet(CopiesBut(P, outs, i, L))
            /\ Cardinality(CopiesBut(P, outs, i, L)) = Copies(i, Taken(L))

\* The batches served, and those to serve, are what the loop node was run on.
ServedBy(P) == FlattenSeq(ran[P])
DoneServed(P) ==
  done # <<>> /\ ServedBy(P) # <<>> /\ wf.kind[done[1]] # "inert" =>
    ran[done[1]] = <<ServedBy(P)>>
Rest == IF inner = 1 THEN batches ELSE Tail(batches)
InBody(L, P) ==
  /\ inner \in {1, 2}
  /\ ServedBy(P) \o FlattenSeq(Rest) = FlattenSeq(ran[L])
  /\ \A k \in 1..Len(batches) : Len(batches[k]) <= BatchSize
  /\ results[P] = batches[1]
  /\ ServedBy(P) = IF inner = 1 THEN aggregated ELSE aggregated \o batches[1]
InDone(P) ==
  IF inner = 1 THEN done # <<>> => results[done[1]] = ServedBy(P) /\ ran[done[1]] = <<>>
               ELSE DoneServed(P)
Serves(L, P) ==
  /\ ~Begun(L) => ran[L] = <<>> /\ ran[P] = <<>>
  /\ (~Begun(L) \/ pc = "body") /\ done # <<>> => ran[done[1]] = <<>>
  /\ \A k \in 1..Len(ran[P]) : Len(ran[P][k]) <= BatchSize
  /\ pc = "body" => InBody(L, P)
  /\ pc = "done" => ServedBy(P) = FlattenSeq(ran[L]) /\ InDone(P)
  /\ Passed(L) => ServedBy(P) = FlattenSeq(ran[L]) /\ DoneServed(P)

LoopInv ==
  /\ pc \in Sorts => /\ \A n \in Nodes : outs[n] = <<>>
                     /\ \A n \in Nodes \ Starts(wf) : results[n] = <<>>
  /\ LoopIsApart /\ OneInBody /\ pc \notin Sorts \cup {"failed"} =>
       Arrives(LoopNode(wf), body[1]) /\ Serves(LoopNode(wf), body[1])

\* Where the nodes of such a loop are.
LEMMA LoopFacts ==
  ASSUME IInv, RunsInv, LoopIsApart, OneInBody, NEW L, NEW P,
         L = LoopNode(wf), P = body[1]
  PROVE  /\ L \in Nodes /\ P \in Nodes /\ Loops(wf) = {L} /\ ToSet(body) = {P}
         /\ P # L /\ L \notin ToSet(done) /\ P \notin ToSet(done)
         /\ done # <<>> => done[1] \in Nodes /\ done[1] \in ToSet(done)
         /\ Handled = {P} \cup ToSet(done)
         /\ pc \in {"body", "done"} => Here = L /\ at <= Len(order) /\ ~Passed(L)
         /\ pc # "retry" /\ L \notin Starts(wf) /\ wf.kind[P] = "plain"
<1>1. /\ TypeOK /\ DataOK /\ PlaceOK /\ OrdersOK /\ ChainsOK
  BY DEF IInv, RunsInv
<1>2. body \in Seq(Nodes) /\ done \in Seq(Nodes) /\ Len(body) = 1
  BY <1>1 DEF DataOK, OneInBody
<1>3. P \in Nodes /\ ToSet(body) = {P}
  <2>1. ToSet(body) = {body[k] : k \in 1..Len(body)}
    BY <1>2, InSeq
  <2>2. 1..Len(body) = {1}
    BY <1>2
  <2>3. body[1] \in Nodes
    <3>1. \A k \in 1..Len(body) : body[k] \in Nodes
      BY <1>2, SeqParts
    <3> QED BY <2>2, <3>1
  <2> QED BY <2>1, <2>2, <2>3
<1>4. L \in Nodes /\ Loops(wf) = {L}
  BY <1>1, InGraph, LoopNodeIs DEF OneInBody
<1>5. P # L /\ L \notin ToSet(done) /\ P \notin ToSet(done)
  BY <1>1, <1>3, <1>4 DEF ChainsOK, LoopIsApart
<1>6. done # <<>> => done[1] \in Nodes /\ done[1] \in ToSet(done)
  <2>1. ToSet(done) = {done[k] : k \in 1..Len(done)}
    BY <1>2, InSeq
  <2>2. done # <<>> => 1 \in 1..Len(done) /\ done[1] \in Nodes
    BY <1>2, EmptySeq
  <2> QED BY <2>1, <2>2
<1>7. Handled = {P} \cup ToSet(done)
  BY <1>3 DEF Handled, LoopIsApart
<1>8. pc \in {"body", "done"} => Here = L /\ at <= Len(order) /\ ~Passed(L)
  <2> SUFFICES ASSUME pc \in {"body", "done"}
               PROVE  Here = L /\ at <= Len(order) /\ ~Passed(L)
    OBVIOUS
  <2>1. Here = L /\ at <= Len(order)
    BY <1>1, <1>4 DEF PlaceOK
  <2>2. ~Passed(Here)
    BY <1>1, <2>1, HereIsNext
  <2> QED BY <2>1, <2>2
<1>9. pc # "retry"
  BY <1>1 DEF PlaceOK, LoopIsApart
<1> QED BY <1>3, <1>4, <1>5, <1>6, <1>7, <1>8, <1>9 DEF LoopIsApart, OneInBody

\* After the sorts neither the graph nor the chains change.
LEMMA LoopSame ==
  ASSUME UNCHANGED setup
  PROVE  /\ LoopIsApart' <=> LoopIsApart
         /\ OneInBody' <=> OneInBody
         /\ LoopNode(wf)' = LoopNode(wf) /\ body' = body /\ done' = done
         /\ wf' = wf /\ order' = order /\ Starts(wf)' = Starts(wf)
<1>1. wf' = wf /\ body' = body /\ done' = done /\ order' = order
  BY DEF setup
<1> QED BY <1>1 DEF LoopIsApart, OneInBody

\* Only nodes that have not come before the loop node can be connected to it.
LEMMA FedBefore ==
  ASSUME IInv, RunsInv, LoopIsApart, OneInBody, NEW L, NEW P,
         L = LoopNode(wf), P = body[1], NEW n \in Nodes, n # P,
         \/ n \in ToSet(done)
         \/ Passed(L) /\ at <= Len(order) /\ n = Here
  PROVE  L \notin Successors(wf, n)
<1> SUFFICES ASSUME L \in Successors(wf, n) PROVE FALSE
  OBVIOUS
<1>1. /\ L \in Loops(wf) /\ n \notin ToSet(body)
  BY LoopFacts
<1>2. /\ n \notin ToSet(done)
      /\ \E i, j \in DOMAIN order : i < j /\ order[i] = n /\ order[j] = L
  BY <1>1 DEF LoopIsApart
<1>3. TypeOK /\ OrdersOK
  BY DEF IInv
<1>4. order \in Seq(Nodes) /\ DOMAIN order = 1..Len(order) /\ IsInjective(order)
      /\ at \in Nat
  BY <1>3 DEF TypeOK, OrdersOK, Before
<1>5. PICK i, j \in 1..Len(order) : i < j /\ order[i] = n /\ order[j] = L
  BY <1>2, <1>4
<1>6. PICK k \in 1..Len(order) : k < at /\ order[k] = L
  BY <1>2 DEF Passed
<1>7. k = j
  BY <1>4, <1>5, <1>6 DEF IsInjective
<1>8. i = at
  BY <1>2, <1>3, <1>5, HereIsNext
<1> QED BY <1>4, <1>5, <1>6, <1>7, <1>8

LEMMA InitLoop == Init => LoopInv
BY DEF Init, LoopInv, Sorts

\* Nothing has run and nothing has arrived when the main loop begins.
LEMMA SortLoop ==
  ASSUME IInv, RunsInv, LoopInv, IInv', RunsInv', Sort \/ Refuse \/ Ordered
  PROVE  LoopInv'
<1>1. /\ pc \in Sorts /\ at = 1 /\ at' = 1 /\ wf' = wf
      /\ UNCHANGED <<results, history>>
      /\ pc' \in Sorts \cup {"main", "failed"}
  BY DEF IInv, PlaceOK, Sort, Refuse, Ordered, TakeOrder, GetLoopIterationOrder,
         GetLoopDoneOrder, setup, Sorts
<1>2. /\ results' = results /\ ran' = ran /\ outs' = outs
      /\ \A n \in Nodes : outs[n] = <<>> /\ ran[n] = <<>>
      /\ \A n \in Nodes \ Starts(wf) : results[n] = <<>>
  BY <1>1 DEF LoopInv, RunsInv, history
<1>3. Starts(wf)' = Starts(wf)
  BY <1>1
<1>4. ASSUME LoopIsApart', OneInBody', pc' = "main"
      PROVE  (Arrives(LoopNode(wf), body[1]) /\ Serves(LoopNode(wf), body[1]))'
  <2>1. PICK L : L = LoopNode(wf)'
    OBVIOUS
  <2>2. PICK P : P = body'[1]
    OBVIOUS
  <2>3. /\ L \in Nodes /\ P \in Nodes /\ L \notin Starts(wf)
        /\ (done # <<>> => done[1] \in Nodes)'
    <3>1. L = LoopNode(wf) /\ Loops(wf) # {}
      BY <1>1, <1>4, <2>1 DEF OneInBody
    <3>2. L \in Loops(wf) /\ L \in Nodes
      BY <3>1, LoopNodeIs DEF IInv
    <3>3. L \notin Starts(wf)
      BY <1>1, <1>4, <3>2 DEF LoopIsApart
    <3>4. body' \in Seq(Nodes) /\ done' \in Seq(Nodes) /\ Len(body') = 1
      BY <1>4 DEF IInv, DataOK, OneInBody
    <3>5. /\ \A k \in 1..Len(body') : body'[k] \in Nodes
          /\ \A k \in 1..Len(done') : done'[k] \in Nodes
      BY <3>4, SeqParts
    <3>6. P \in Nodes
      <4>1. 1 \in 1..Len(body')
        BY <3>4
      <4> QED BY <2>2, <3>5, <4>1
    <3>7. done' # <<>> => done'[1] \in Nodes
      <4>1. done' # <<>> => 1 \in 1..Len(done')
        BY <3>4, EmptySeq
      <4> QED BY <3>5, <4>1
    <3> QED BY <3>2, <3>3, <3>6, <3>7
  <2>4. \A n : ~Passed(n)'
    <3>1. order' \in Seq(Nodes)
      BY DEF IInv, TypeOK
    <3> QED BY <1>1, <3>1 DEF Passed
  <2>5. ~Begun(L)'
    BY <1>4, <2>4 DEF Begun
  <2>6. Arrives(L, P)'
    <3>1. \A i : CopiesBut(P, outs, i, L)' = {}
      BY <1>2, NothingSent DEF CopiesBut
    <3>2. Taken(L)' = <<>>
      BY <1>2, <2>3, <2>5 DEF Taken
    <3>3. \A n \in Nodes : outs'[n] = <<>>
      BY <1>2
    <3>4. \A i : /\ IsFiniteSet(CopiesBut(P, outs, i, L)')
                 /\ Cardinality(CopiesBut(P, outs, i, L)') = Copies(i, Taken(L)')
      BY <3>1, <3>2, CopiesNone, FS_EmptySet
    <3> QED BY <2>5, <3>3, <3>4 DEF Arrives
  <2>7. Serves(L, P)'
    <3>1. ran'[P] = <<>> /\ ran'[L] = <<>>
      BY <1>2, <2>3
    <3>2. (done # <<>> => ran[done[1]] = <<>>)'
      BY <1>2, <2>3
    <3>3. Len(ran'[P]) = 0
      BY <3>1
    <3> QED BY <1>4, <2>4, <3>1, <3>2, <3>3 DEF Serves
  <2> QED BY <2>1, <2>2, <2>6, <2>7
<1>5. pc' \in Sorts => /\ \A n \in Nodes : outs'[n] = <<>>
                       /\ \A n \in Nodes \ Starts(wf)' : results'[n] = <<>>
  BY <1>2, <1>3
<1> QED BY <1>1, <1>4, <1>5 DEF LoopInv

\* Of a node that neither serves nor is served, nothing changes.
LEMMA MainServes ==
  ASSUME IInv, RunsInv, LoopIsApart, OneInBody, NEW L, NEW P,
         L = LoopNode(wf), P = body[1], Serves(L, P), pc = "main", pc' = "main",
         UNCHANGED setup, at <= Len(order), at' = at + 1,
         Here = L => ran[L] = <<>> /\ ran[P] = <<>>,
         \A n \in {L, P} \cup ToSet(done) : ran'[n] = ran[n]
  PROVE  Serves(L, P)'
<1>1. \A n : Passed(n)' <=> Passed(n) \/ n = Here
  BY PassesHere DEF IInv, setup
<1>2. ran'[L] = ran[L] /\ ran'[P] = ran[P] /\ (done # <<>> => ran'[done[1]] = ran[done[1]])
  BY LoopFacts
<1>3. ServedBy(P)' = ServedBy(P) /\ done' = done /\ wf' = wf
  BY <1>2 DEF ServedBy, setup
<1>4. DoneServed(P)' <=> DoneServed(P)
  BY <1>2, <1>3 DEF DoneServed
<1>5. Passed(L)' => ServedBy(P) = FlattenSeq(ran[L]) /\ DoneServed(P)
  <2>1. CASE Passed(L)
    BY <2>1 DEF Serves
  <2>2. CASE Here = L
    <3>1. ServedBy(P) = <<>> /\ FlattenSeq(ran[L]) = <<>>
      BY <2>2, FlattenNone DEF ServedBy
    <3> QED BY <3>1 DEF DoneServed
  <2> QED BY <1>1, <2>1, <2>2
<1>6. (~Begun(L))' => ~Begun(L)
  BY <1>1 DEF Begun
<1> QED BY <1>2, <1>3, <1>4, <1>5, <1>6 DEF Serves, Begun

\* A node of the main loop that is not L is run.
LEMMA RunServes ==
  ASSUME IInv, RunsInv, LoopIsApart, OneInBody, NEW L, NEW P,
         L = LoopNode(wf), P = body[1], Arrives(L, P), Serves(L, P),
         NEW n \in Nodes, NEW out \in Outputs(n, results[n]), RunNode(n, out)
  PROVE  Arrives(L, P)' /\ Serves(L, P)'
<1>1. TypeOK /\ DataOK /\ OrdersOK /\ wf \in Graphs /\ Wide(wf)
  BY InGraph DEF IInv, LoopIsApart
<1>2. /\ n = Here /\ at <= Len(order) /\ at' = at + 1 /\ order' = order /\ wf' = wf
      /\ Store(n, out, {}) /\ ran' = [ran EXCEPT ![n] = Append(@, results[n])]
      /\ outs' = [outs EXCEPT ![n] = out] /\ UNCHANGED setup
      /\ pc = "main" /\ pc' = "main" /\ n \notin Handled /\ wf.kind[n] # "loop"
  BY DEF RunNode, Main, NextNode, Ran, setup, Skipped
<1>3. /\ L \in Nodes /\ P \in Nodes /\ Loops(wf) = {L} /\ Handled = {P} \cup ToSet(done)
  BY LoopFacts
<1>4. n # P /\ n # L /\ n \notin ToSet(done)
  BY <1>2, <1>3 DEF Loops
<1>5. /\ results \in [Nodes -> Seq(Items)] /\ ran \in [Nodes -> Seq(Seq(Items))]
      /\ outs \in [Nodes -> Seq(Elements)] /\ out \in Seq(Elements)
      /\ results[n] \in Seq(Items)
  BY <1>1, OutputsType DEF DataOK
<1>6. /\ \A m \in Nodes \ {n} : ran'[m] = ran[m] /\ outs'[m] = outs[m]
      /\ outs'[n] = out
  BY <1>2, <1>5
<1>7. \A m : Passed(m)' <=> Passed(m) \/ m = n
  BY <1>1, <1>2, PassesHere
<1>8. Serves(L, P)'
  <2>1. \A m \in ToSet(done) : m \in Nodes
    <3>1. done \in Seq(Nodes)
      BY <1>1 DEF DataOK
    <3> QED BY <3>1, InSeq
  <2>2. \A m \in {L, P} \cup ToSet(done) : ran'[m] = ran[m]
    BY <1>3, <1>4, <1>6, <2>1
  <2>3. Here # L
    BY <1>2, <1>4
  <2> QED BY <1>2, <2>2, <2>3, MainServes
<1>9. (Begun(L)' <=> Passed(L)) /\ (Begun(L) <=> Passed(L))
  BY <1>2, <1>4, <1>7 DEF Begun
<1>10. ASSUME NEW i
       PROVE  /\ IsFiniteSet(CopiesBut(P, outs', i, L))
              /\ Cardinality(CopiesBut(P, outs', i, L)) = Copies(i, Taken(L)')
  <2>1. /\ IsFiniteSet(CopiesBut(P, outs, i, L))
        /\ Cardinality(CopiesBut(P, outs, i, L)) = Copies(i, Taken(L))
    BY DEF Arrives
  <2>2. CASE Passed(L)
    <3>1. L \notin Successors(wf, n)
      BY <1>2, <1>4, <2>2, FedBefore
    <3>2. CopiesBut(P, outs', i, L) = CopiesBut(P, outs, i, L)
      BY <1>1, <1>6, <3>1, ButSame
    <3>3. Taken(L)' = Taken(L)
      BY <1>3, <1>4, <1>6, <1>9, <2>2 DEF Taken
    <3> QED BY <2>1, <3>2, <3>3
  <2>3. CASE ~Passed(L)
    <3> DEFINE routed == RouteData(wf, n, out)
    <3>1. outs[n] = <<>>
      <4>1. ~Passed(n)
        BY <1>1, <1>2, HereIsNext
      <4> QED BY <1>9, <2>3, <4>1 DEF Arrives
    <3>2. FirstOutput(n, outs, outs')
      BY <1>6, <3>1 DEF FirstOutput
    <3>3. /\ IsFiniteSet(CopiesBut(P, outs', i, L))
          /\ Cardinality(CopiesBut(P, outs', i, L))
               = Cardinality(CopiesBut(P, outs, i, L)) + Copies(i, routed[L])
      <4>1. /\ TypeOK /\ Wide(wf) /\ results[n] \in Seq(Items)
            /\ out \in Outputs(n, results[n]) /\ outs'[n] = out /\ P # n
            /\ L \in Nodes /\ n \in Nodes /\ IsFiniteSet(CopiesBut(P, outs, i, L))
        BY <1>1, <1>3, <1>4, <1>5, <1>6, <2>1
      <4> QED BY <3>2, <4>1, ButSends
    <3>4. results'[L] = results[L] \o routed[L]
      <4> DEFINE stored == [results EXCEPT ![n] = Untag(out)]
      <4>1. results' = [t \in Nodes |->
                          stored[t] \o (IF t \in {} THEN <<>> ELSE routed[t])]
        BY <1>2 DEF Store
      <4>2. stored[L] = results[L]
        BY <1>3, <1>4, <1>5
      <4> HIDE DEF stored, routed
      <4> QED BY <1>3, <4>1, <4>2
    <3>5. Taken(L)' = results[L] \o routed[L] /\ Taken(L) = results[L]
      BY <1>9, <2>3, <3>4 DEF Taken
    <3>6. results[L] \in Seq(Items) /\ routed[L] \in Seq(Items)
      BY <1>1, <1>3, <1>5, RouteType
    <3> HIDE DEF routed
    <3>7. Copies(i, results[L] \o routed[L]) = Copies(i, results[L]) + Copies(i, routed[L])
      BY <3>6, CopiesConcat
    <3> QED BY <2>1, <3>3, <3>5, <3>7
  <2> QED BY <2>2, <2>3
<1>11. ~Begun(L)' => \A m \in Nodes : ~Passed(m)' => outs'[m] = <<>>
  BY <1>6, <1>7, <1>9 DEF Arrives
<1>12. \A i : CopiesBut(P, outs, i, L)' = CopiesBut(P, outs', i, L)
  BY <1>2 DEF CopiesBut
<1> QED BY <1>8, <1>10, <1>11, <1>12 DEF Arrives

\* A node of the main loop is passed over, or puts out nothing.
LEMMA SkipServes ==
  ASSUME IInv, RunsInv, LoopIsApart, OneInBody, NEW L, NEW P,
         L = LoopNode(wf), P = body[1], Arrives(L, P), Serves(L, P),
         NEW n \in Nodes, Skip(n) \/ SkipInert(n)
  PROVE  Arrives(L, P)' /\ Serves(L, P)'
<1>1. TypeOK /\ DataOK /\ OrdersOK /\ wf \in Graphs
  BY InGraph DEF IInv
<1>2. /\ n = Here /\ at <= Len(order) /\ at' = at + 1 /\ order' = order /\ wf' = wf
      /\ ran' = ran /\ outs' = outs /\ UNCHANGED setup
      /\ pc = "main" /\ pc' = "main"
  BY DEF Skip, SkipInert, Main, NextNode, setup, history
<1>3. /\ L \in Nodes /\ L \notin Handled /\ wf.kind[L] = "loop"
  <2>1. L \in Nodes /\ P # L /\ L \notin ToSet(done) /\ Loops(wf) = {L}
        /\ Handled = {P} \cup ToSet(done)
    BY LoopFacts
  <2> QED BY <2>1 DEF Loops
<1>4. \A m : Passed(m)' <=> Passed(m) \/ m = n
  BY <1>1, <1>2, PassesHere
<1>5. ~Passed(n)
  BY <1>1, <1>2, HereIsNext
<1>6. results'[L] = results[L] /\ (n = L => results[L] = <<>>)
  <2>1. CASE Skip(n)
    BY <1>3, <2>1 DEF Skip, Skipped
  <2>2. CASE SkipInert(n)
    BY <1>1, <1>3, <2>2 DEF SkipInert, DataOK
  <2> QED BY <2>1, <2>2
<1>7. n = L => ran[L] = <<>> /\ ran[P] = <<>>
  BY <1>2, <1>5 DEF Serves, Begun
<1>8. Serves(L, P)'
  BY <1>2, <1>7, MainServes
<1>9. (Begun(L)' <=> Passed(L) \/ n = L) /\ (Begun(L) <=> Passed(L))
  BY <1>2, <1>4 DEF Begun
<1>10. Taken(L)' = Taken(L)
  <2>1. CASE n = L
    BY <1>2, <1>5, <1>6, <1>7, <1>9, <2>1, FlattenNone DEF Taken
  <2>2. CASE n # L
    BY <1>2, <1>6, <1>9, <2>2 DEF Taken
  <2> QED BY <2>1, <2>2
<1>11. \A i : CopiesBut(P, outs, i, L)' = CopiesBut(P, outs, i, L)
  BY <1>2 DEF CopiesBut
<1> QED BY <1>2, <1>4, <1>8, <1>9, <1>10, <1>11 DEF Arrives

\* The end, or a step that changes nothing.
LEMMA StillServes ==
  ASSUME Finish \/ UNCHANGED vars, NEW L, NEW P, Arrives(L, P), Serves(L, P)
  PROVE  Arrives(L, P)' /\ Serves(L, P)'
<1>1. /\ wf' = wf /\ order' = order /\ done' = done /\ at' = at
      /\ results' = results /\ ran' = ran /\ outs' = outs /\ inner' = inner
      /\ batches' = batches /\ aggregated' = aggregated
      /\ pc' = pc \/ (pc = "main" /\ pc' = "ended")
  BY DEF Finish, vars, setup, driver, history
<1>2. (Begun(L)' <=> Begun(L)) /\ (Passed(L)' <=> Passed(L))
      /\ \A n : Passed(n)' <=> Passed(n)
  BY <1>1 DEF Begun, Passed
<1>3. Arrives(L, P)'
  BY <1>1, <1>2 DEF Arrives, Taken, CopiesBut
<1>4. Serves(L, P)'
  <2>1. ServedBy(P)' = ServedBy(P)
    BY <1>1 DEF ServedBy
  <2>2. DoneServed(P)' <=> DoneServed(P)
    BY <1>1, <2>1 DEF DoneServed
  <2>3. InBody(L, P)' <=> InBody(L, P)
    BY <1>1, <2>1 DEF InBody, Rest
  <2>4. InDone(P)' <=> InDone(P)
    BY <1>1, <2>1, <2>2 DEF InDone
  <2>5. pc' \in {"body", "done"} => pc' = pc
    BY <1>1
  <2>6. /\ (~Begun(L))' => ran'[L] = <<>> /\ ran'[P] = <<>>
        /\ ((~Begun(L) \/ pc = "body") /\ done # <<>> => ran[done[1]] = <<>>)'
        /\ (\A k \in 1..Len(ran[P]) : Len(ran[P][k]) <= BatchSize)'
    BY <1>1, <1>2, <2>5 DEF Serves
  <2>7. /\ (pc = "body" => InBody(L, P))'
        /\ (pc = "done" => ServedBy(P) = FlattenSeq(ran[L]) /\ InDone(P))'
        /\ (Passed(L) => ServedBy(P) = FlattenSeq(ran[L]) /\ DoneServed(P))'
    BY <1>1, <1>2, <2>1, <2>2, <2>3, <2>4, <2>5 DEF Serves
  <2> QED BY <2>6, <2>7 DEF Serves
<1> QED BY <1>3, <1>4

\* The types of what a driver works on, and the body's node in its place.
LEMMA LoopTypes ==
  ASSUME IInv, RunsInv, LoopIsApart, OneInBody, NEW L, NEW P,
         L = LoopNode(wf), P = body[1]
  PROVE  /\ results \in [Nodes -> Seq(Items)] /\ ran \in [Nodes -> Seq(Seq(Items))]
         /\ outs \in [Nodes -> Seq(Elements)]
         /\ batches \in Seq(Seq(Items)) /\ aggregated \in Seq(Items)
         /\ ran[P] \in Seq(Seq(Items)) /\ ServedBy(P) \in Seq(Items)
         /\ results[P] \in Seq(Items)
         /\ body \in Seq(Nodes) /\ body # <<>> /\ Last(body) = P
         /\ P \notin Successors(wf, P) /\ P \notin Loops(wf)
<1>1. TypeOK /\ DataOK /\ OrdersOK
  BY DEF IInv
<1>2. P \in Nodes /\ Loops(wf) = {L} /\ P # L
  BY LoopFacts
<1>3. ran[P] \in Seq(Seq(Items)) /\ ServedBy(P) \in Seq(Items) /\ results[P] \in Seq(Items)
  BY <1>1, <1>2, FlattenType DEF DataOK, ServedBy
<1>4. body \in Seq(Nodes) /\ Len(body) = 1
  BY <1>1 DEF DataOK, OneInBody
<1>5. body # <<>> /\ Last(body) = P
  <2>1. Len(<<>>) = 0 /\ 1 # 0
    OBVIOUS
  <2>2. body # <<>>
    BY <1>4, <2>1, Zenon
  <2>3. Last(body) = P
    BY <1>4 DEF Last
  <2> QED BY <2>2, <2>3
<1>6. P \notin Successors(wf, P)
  <2>1. 1 \in DOMAIN body
    BY <1>4, InSeq
  <2>2. P \notin Waits(wf, P)
    <3>1. body[1] \in Waits(wf, body[1]) => 1 < 1
      BY <1>1, <2>1 DEF OrdersOK, Before
    <3>2. ~(1 < 1)
      OBVIOUS
    <3> QED BY <3>1, <3>2
  <2>3. P \notin Sources(wf, P)
    BY <2>2 DEF Waits
  <2> QED BY <1>2, <2>3 DEF Sources, Dropped, LoopIsApart
<1> QED BY <1>1, <1>2, <1>3, <1>4, <1>5, <1>6 DEF DataOK

\* What has arrived stays so in a driver that puts out nothing more to L.
LEMMA DriverArrives ==
  ASSUME IInv, RunsInv, LoopIsApart, OneInBody, NEW L, NEW P,
         L = LoopNode(wf), P = body[1], Arrives(L, P), Begun(L)', UNCHANGED setup,
         Taken(L)' = Taken(L),
         \/ outs' = outs
         \/ \E n \in Nodes : /\ \A m \in Nodes \ {n} : outs'[m] = outs[m]
                             /\ P = n \/ L \notin Successors(wf, n)
  PROVE  Arrives(L, P)'
<1>1. TypeOK /\ wf' = wf
  BY DEF IInv, setup
<1>2. \A i : CopiesBut(P, outs', i, L) = CopiesBut(P, outs, i, L)
  <2> SUFFICES ASSUME NEW i
               PROVE  CopiesBut(P, outs', i, L) = CopiesBut(P, outs, i, L)
    OBVIOUS
  <2>1. CASE outs' = outs
    BY <2>1
  <2>2. ASSUME NEW n \in Nodes, \A m \in Nodes \ {n} : outs'[m] = outs[m],
               P = n \/ L \notin Successors(wf, n)
        PROVE  CopiesBut(P, outs', i, L) = CopiesBut(P, outs, i, L)
    BY <1>1, <2>2, ButSame
  <2> QED BY <2>1, <2>2
<1>3. \A i : CopiesBut(P, outs, i, L)' = CopiesBut(P, outs', i, L)
  BY <1>1 DEF CopiesBut
<1> QED BY <1>2, <1>3 DEF Arrives

\* The loop node is reached: its input is split.
LEMMA StartServes ==
  ASSUME IInv, RunsInv, LoopIsApart, OneInBody, NEW L, NEW P,
         L = LoopNode(wf), P = body[1], Arrives(L, P), Serves(L, P),
         NEW n \in Nodes, StartLoop(n)
  PROVE  Arrives(L, P)' /\ Serves(L, P)'
<1>1. /\ TypeOK /\ DataOK /\ OrdersOK
      /\ L \in Nodes /\ P \in Nodes /\ Loops(wf) = {L} /\ P # L /\ L \notin ToSet(done)
      /\ P \notin ToSet(done) /\ (done # <<>> => done[1] \in Nodes /\ done[1] \in ToSet(done))
  BY LoopFacts DEF IInv
<1>2. /\ n = L /\ n = Here /\ at <= Len(order) /\ at' = at /\ order' = order
      /\ pc = "main" /\ pc' = "body" /\ inner' = 1 /\ aggregated' = <<>>
      /\ batches' = SplitIntoBatches(results[L])
      /\ results' = Seed(results, body, batches'[1])
      /\ ran' = [ran EXCEPT ![L] = Append(@, results[L])]
      /\ outs' = outs /\ UNCHANGED setup /\ done' = done
  BY <1>1 DEF StartLoop, Main, setup, Loops
<1>3. ~Passed(L) /\ ~Passed(L)'
  BY <1>1, <1>2, HereIsNext, PassedSame
<1>4. ran[L] = <<>> /\ ran[P] = <<>> /\ (done # <<>> => ran[done[1]] = <<>>)
  BY <1>2, <1>3 DEF Serves, Begun
<1>5. /\ ran \in [Nodes -> Seq(Seq(Items))] /\ results[L] \in Seq(Items)
      /\ results \in [Nodes -> Seq(Items)]
  BY <1>1 DEF DataOK
<1>6. ran'[L] = <<results[L]>> /\ ran'[P] = <<>> /\ (done # <<>> => ran'[done[1]] = <<>>)
  <2>1. ran'[L] = Append(<<>>, results[L])
    BY <1>1, <1>2, <1>4, <1>5
  <2>2. Append(<<>>, results[L]) = <<results[L]>>
    OBVIOUS
  <2> QED BY <1>1, <1>2, <1>4, <1>5, <2>1, <2>2
<1>7. FlattenSeq(ran'[L]) = results[L]
  BY <1>5, <1>6, FlattenOne
<1>8. Begun(L)' /\ ~Begun(L)
  BY <1>2, <1>3 DEF Begun
<1>9. Taken(L)' = Taken(L)
  BY <1>7, <1>8 DEF Taken
<1>10. ServedBy(P)' = <<>>
  BY <1>6, FlattenNone DEF ServedBy
<1>11. InBody(L, P)'
  <2>1. /\ batches' \in Seq(Seq(Items)) /\ FlattenSeq(batches') = results[L]
        /\ \A k \in 1..Len(batches') : Len(batches'[k]) <= BatchSize
    <3> DEFINE s == results[L]
    <3>1. s \in Seq(Items) /\ batches' = SplitIntoBatches(s)
      BY <1>2, <1>5
    <3> HIDE DEF s
    <3>2. /\ SplitIntoBatches(s) \in Seq(Seq(Items)) /\ FlattenSeq(SplitIntoBatches(s)) = s
          /\ \A k \in 1..Len(SplitIntoBatches(s)) :
               Len(SplitIntoBatches(s)[k]) <= BatchSize
      BY <3>1, SplitType, BatchesAreAll
    <3> QED BY <3>1, <3>2 DEF s
  <2>2. Rest' = batches'
    BY <1>2 DEF Rest
  <2>3. <<>> \o results[L] = results[L]
    BY <1>5
  <2>4. results'[P] = batches'[1]
    <3>1. results' = [results EXCEPT ![P] = batches'[1]]
      BY <1>2, LoopTypes DEF Seed
    <3> QED BY <1>1, <1>5, <3>1
  <2>5. (inner \in {1, 2})' /\ ServedBy(P)' = aggregated' /\ inner' = 1
    BY <1>2, <1>10
  <2>6. (ServedBy(P) \o FlattenSeq(Rest))' = FlattenSeq(ran'[L])
    BY <1>7, <1>10, <2>1, <2>2, <2>3
  <2> QED BY <2>1, <2>4, <2>5, <2>6 DEF InBody
<1>12. Serves(L, P)'
  <2>1. Len(ran'[P]) = 0
    BY <1>6
  <2> QED BY <1>2, <1>3, <1>6, <1>8, <1>11, <2>1 DEF Serves
<1>13. Arrives(L, P)'
  BY <1>2, <1>8, <1>9, DriverArrives
<1> QED BY <1>12, <1>13

\* The body's node is run on the batch, or skipped where the batch is empty.
LEMMA BodyServes ==
  ASSUME IInv, RunsInv, LoopIsApart, OneInBody, NEW L, NEW P,
         L = LoopNode(wf), P = body[1], Arrives(L, P), Serves(L, P),
         NEW n \in Nodes,
         \/ SkipChainNode("body", body, n)
         \/ \E out \in Outputs(n, results[n]) : RunChainNode("body", body, n, out)
  PROVE  Arrives(L, P)' /\ Serves(L, P)'
<1>1. /\ TypeOK /\ DataOK /\ OrdersOK /\ PlaceOK /\ wf \in Graphs /\ Wide(wf)
      /\ L \in Nodes /\ P \in Nodes /\ Loops(wf) = {L} /\ P # L /\ L \notin ToSet(done)
      /\ P \notin ToSet(done) /\ (done # <<>> => done[1] \in Nodes /\ done[1] \in ToSet(done))
      /\ wf.kind[P] = "plain" /\ Len(body) = 1
  BY LoopFacts, InGraph DEF IInv, LoopIsApart, OneInBody
<1>2. /\ pc = "body" /\ inner <= Len(body) /\ n = body[inner] /\ inner' = inner + 1
      /\ UNCHANGED <<setup, pc, at, batches, aggregated>>
  BY DEF SkipChainNode, RunChainNode, ChainNode
<1>3. InBody(L, P) /\ Begun(L) /\ ~Passed(L)
  BY <1>2, LoopFacts DEF Serves, Begun
<1>4. inner = 1 /\ n = P /\ inner' = 2
  BY <1>1, <1>2, <1>3 DEF InBody
<1>5. Begun(L)' /\ ~Passed(L)' /\ wf' = wf /\ done' = done
  BY <1>2, <1>3, PassedSame DEF Begun, setup
<1>6. /\ ServedBy(P) \o FlattenSeq(batches) = FlattenSeq(ran[L])
      /\ results[P] = batches[1] /\ ServedBy(P) = aggregated
      /\ \A k \in 1..Len(batches) : Len(batches[k]) <= BatchSize
  BY <1>3, <1>4 DEF InBody, Rest
<1>7. /\ batches # <<>> /\ batches \in Seq(Seq(Items)) /\ ServedBy(P) \in Seq(Items)
      /\ ran[P] \in Seq(Seq(Items)) /\ ran \in [Nodes -> Seq(Seq(Items))]
      /\ results \in [Nodes -> Seq(Items)] /\ outs \in [Nodes -> Seq(Elements)]
  BY <1>1, <1>2, LoopTypes DEF PlaceOK
<1> DEFINE b == batches[1]
           r == FlattenSeq(Tail(batches))
           s == ServedBy(P)
<1>8. /\ b \in Seq(Items) /\ r \in Seq(Items) /\ s \in Seq(Items)
      /\ FlattenSeq(batches) = b \o r /\ Rest' = Tail(batches)
      /\ 1 \in 1..Len(batches)
  <2> DEFINE bs == batches
             t == Tail(bs)
  <2>1. bs \in Seq(Seq(Items)) /\ bs # <<>>
    BY <1>7
  <2> HIDE DEF bs
  <2>2. /\ bs[1] \in Seq(Items) /\ t \in Seq(Seq(Items))
        /\ FlattenSeq(bs) = bs[1] \o FlattenSeq(t)
    BY <2>1, FlattenFirst
  <2>3. 1 \in 1..Len(bs)
    BY <2>1, EmptySeq
  <2> HIDE DEF t
  <2>4. FlattenSeq(t) \in Seq(Items)
    BY <2>2, FlattenType
  <2>5. Rest' = Tail(batches)
    BY <1>2, <1>4 DEF Rest
  <2> QED BY <1>7, <2>2, <2>3, <2>4, <2>5 DEF bs, t
<1>9. /\ ServedBy(P)' = s \o b /\ results'[P] = b
      /\ \A m \in Nodes \ {P} : ran'[m] = ran[m] /\ outs'[m] = outs[m]
      /\ \A k \in 1..Len(ran'[P]) : Len(ran'[P][k]) <= BatchSize
  <2>1. CASE SkipChainNode("body", body, n)
    <3>1. results[P] = <<>> /\ results' = [results EXCEPT ![P] = <<>>]
          /\ ran' = ran /\ outs' = outs
      BY <1>1, <1>4, <2>1 DEF SkipChainNode, history
    <3>2. b = <<>> /\ s \o <<>> = s
      BY <1>6, <1>8, <3>1
    <3>3. ServedBy(P)' = s
      BY <3>1 DEF ServedBy
    <3>4. results'[P] = <<>>
      BY <1>1, <1>7, <3>1
    <3>5. \A k \in 1..Len(ran'[P]) : Len(ran'[P][k]) <= BatchSize
      BY <3>1 DEF Serves
    <3> QED BY <3>1, <3>2, <3>3, <3>4, <3>5
  <2>2. CASE \E out \in Outputs(n, results[n]) : RunChainNode("body", body, n, out)
    <3>1. PICK out \in Outputs(P, b) : RunChainNode("body", body, P, out)
      BY <1>4, <1>6, <2>2
    <3>2. /\ Store(P, out, {L}) /\ ran' = [ran EXCEPT ![P] = Append(@, results[P])]
          /\ outs' = [outs EXCEPT ![P] = out]
      BY <1>1, <3>1 DEF RunChainNode, Ran
    <3>3. out = Plain(b) /\ Untag(out) = b /\ out \in Seq(Elements)
      <4>1. out \in Seq(Elements) /\ out = Plain(b)
        BY <1>1, <1>8, OutputsType DEF TagsItems
      <4> QED BY <1>8, <4>1, PlainType
    <3>4. RouteData(wf, P, out)[P] = <<>>
      <4>1. P \notin Successors(wf, P) /\ b \in Seq(Items)
        BY <1>8, LoopTypes
      <4> HIDE DEF b
      <4> QED BY <1>1, <4>1, RoutesToSuccessors
    <3>5. results'[P] = b
      <4> DEFINE stored == [results EXCEPT ![P] = Untag(out)]
                 routed == RouteData(wf, P, out)
      <4>1. results' = [t \in Nodes |->
                          stored[t] \o (IF t \in {L} THEN <<>> ELSE routed[t])]
        BY <3>2 DEF Store
      <4>2. stored[P] = b
        BY <1>1, <1>7, <3>3
      <4>3. b \o <<>> = b
        BY <1>8
      <4> HIDE DEF stored, routed, b
      <4> QED BY <1>1, <3>4, <4>1, <4>2, <4>3 DEF routed
    <3>6. ran'[P] = Append(ran[P], b)
      BY <1>1, <1>6, <1>7, <3>2
    <3>7. ServedBy(P)' = s \o b
      BY <1>7, <1>8, <3>6, FlattenAppend DEF ServedBy
    <3>8. \A m \in Nodes \ {P} : ran'[m] = ran[m] /\ outs'[m] = outs[m]
      BY <1>7, <3>2
    <3>9. \A k \in 1..Len(ran'[P]) : Len(ran'[P][k]) <= BatchSize
      <4> DEFINE q == ran[P]
                 e == b
      <4>1. /\ \A k \in 1..Len(q) : Len(q[k]) <= BatchSize
            /\ Len(e) <= BatchSize /\ q \in Seq(Seq(Items)) /\ e \in Seq(Items)
            /\ ran'[P] = Append(q, e)
        BY <1>6, <1>7, <1>8, <3>6 DEF Serves
      <4> HIDE DEF q, e
      <4>2. /\ Len(Append(q, e)) = Len(q) + 1 /\ Len(q) \in Nat
            /\ \A k \in 1..Len(q) + 1 : k \in 1..Len(q) \/ k = Len(q) + 1
            /\ \A k \in 1..Len(q) : Append(q, e)[k] = q[k]
            /\ Append(q, e)[Len(q) + 1] = e
        BY <4>1
      <4> QED BY <4>1, <4>2
    <3> QED BY <3>5, <3>7, <3>8, <3>9
  <2> QED BY <2>1, <2>2
<1>10. ran'[L] = ran[L] /\ (done # <<>> => ran'[done[1]] = ran[done[1]])
  BY <1>1, <1>9
<1>11. InBody(L, P)'
  <2>1. (s \o b) \o r = s \o (b \o r)
    <3>1. s \in Seq(Items) /\ b \in Seq(Items) /\ r \in Seq(Items)
      BY <1>8
    <3> HIDE DEF s, b, r
    <3> QED BY <3>1, ConcatAssoc
  <2>2. (ServedBy(P) \o FlattenSeq(Rest))' = FlattenSeq(ran'[L])
    BY <1>6, <1>8, <1>9, <1>10, <2>1
  <2>3. batches' = batches /\ aggregated' = aggregated /\ inner' = 2
    BY <1>2, <1>4
  <2> QED BY <1>6, <1>9, <2>2, <2>3 DEF InBody
<1>12. Serves(L, P)'
  <2>1. done # <<>> => ran[done[1]] = <<>>
    BY <1>2 DEF Serves
  <2>2. pc' = "body"
    BY <1>2
  <2> QED BY <1>5, <1>9, <1>10, <1>11, <2>1, <2>2 DEF Serves
<1>13. Arrives(L, P)'
  <2>1. Taken(L)' = Taken(L)
    BY <1>3, <1>5, <1>10 DEF Taken
  <2> QED BY <1>1, <1>2, <1>5, <1>9, <2>1, DriverArrives
<1> QED BY <1>12, <1>13

\* A batch has been served: the next one, or the done chain.
LEMMA EndBatchServes ==
  ASSUME IInv, RunsInv, LoopIsApart, OneInBody, NEW L, NEW P,
         L = LoopNode(wf), P = body[1], Arrives(L, P), Serves(L, P), EndBatch
  PROVE  Arrives(L, P)' /\ Serves(L, P)'
<1>1. /\ TypeOK /\ DataOK /\ PlaceOK
      /\ L \in Nodes /\ P \in Nodes /\ P # L /\ Len(body) = 1
      /\ (done # <<>> => done[1] \in Nodes)
  BY LoopFacts DEF IInv, OneInBody
<1>2. /\ pc = "body" /\ inner > Len(body) /\ inner' = 1 /\ batches' = Tail(batches)
      /\ body # <<>> /\ Last(body) = P
      /\ aggregated' = aggregated \o results[P]
      /\ UNCHANGED <<setup, at, history>>
      /\ ran' = ran /\ outs' = outs /\ wf' = wf /\ done' = done /\ Here = L
      /\ IF MoreBatches
         THEN pc' = "body" /\ results' = [results EXCEPT ![P] = batches[2]]
         ELSE /\ pc' = "done"
              /\ results' = Seed([results EXCEPT ![L] = aggregated'], done, aggregated')
  BY LoopTypes, LoopFacts DEF EndBatch, Seed, setup, history
<1>3. InBody(L, P) /\ Begun(L) /\ ~Passed(L)
  BY <1>2, LoopFacts DEF Serves, Begun
<1>4. /\ inner = 2 /\ ServedBy(P) \o FlattenSeq(Tail(batches)) = FlattenSeq(ran[L])
      /\ \A k \in 1..Len(batches) : Len(batches[k]) <= BatchSize
      /\ results[P] = batches[1] /\ ServedBy(P) = aggregated \o batches[1]
  <2>1. inner = 2
    BY <1>1, <1>2, <1>3 DEF InBody
  <2>2. inner # 1 /\ Rest = Tail(batches)
    BY <2>1 DEF Rest
  <2> QED BY <1>3, <2>1, <2>2 DEF InBody
<1>5. Begun(L)' /\ ~Passed(L)' /\ ServedBy(P)' = ServedBy(P) /\ aggregated' = ServedBy(P)
  <2>1. pc' \in {"body", "done"}
    BY <1>2
  <2> QED BY <1>2, <1>3, <1>4, <2>1, PassedSame DEF Begun, setup, ServedBy
<1>6. /\ batches \in Seq(Seq(Items)) /\ batches # <<>> /\ results \in [Nodes -> Seq(Items)]
      /\ ServedBy(P) \in Seq(Items)
  BY <1>1, <1>2, LoopTypes DEF PlaceOK
<1>7. /\ Tail(batches) \in Seq(Seq(Items)) /\ Len(Tail(batches)) = Len(batches) - 1
      /\ Len(batches) \in Nat \ {0}
      /\ \A k \in 1..Len(batches) - 1 : Tail(batches)[k] = batches[k + 1]
  BY <1>6, EmptySeq
<1>8. done # <<>> => ran[done[1]] = <<>>
  BY <1>2 DEF Serves
<1>9. \A k \in 1..Len(ran'[P]) : Len(ran'[P][k]) <= BatchSize
  BY <1>2 DEF Serves
<1>10. Serves(L, P)'
  <2>1. CASE MoreBatches
    <3>1. pc' = "body" /\ results'[P] = batches[2]
      BY <1>1, <1>2, <1>6, <2>1
    <3>2. batches'[1] = batches[2]
      BY <1>2, <1>7, <2>1 DEF MoreBatches
    <3>3. \A k \in 1..Len(batches') : Len(batches'[k]) <= BatchSize
      <4> SUFFICES ASSUME NEW k \in 1..Len(batches') PROVE Len(batches'[k]) <= BatchSize
        OBVIOUS
      <4>1. k \in 1..Len(batches) - 1 /\ k + 1 \in 1..Len(batches)
        BY <1>2, <1>7
      <4> QED BY <1>2, <1>4, <1>7, <4>1
    <3>4. Rest' = batches'
      BY <1>2 DEF Rest
    <3>5. (inner \in {1, 2})' /\ inner' = 1
      BY <1>2
    <3>6. (ServedBy(P) \o FlattenSeq(Rest))' = FlattenSeq(ran'[L])
      BY <1>2, <1>4, <1>5, <3>4
    <3>7. InBody(L, P)'
      BY <1>5, <3>1, <3>2, <3>3, <3>5, <3>6 DEF InBody
    <3> QED BY <1>2, <1>5, <1>8, <1>9, <3>1, <3>7 DEF Serves
  <2>2. CASE ~MoreBatches
    <3>1. pc' = "done" /\ results' = Seed([results EXCEPT ![L] = aggregated'], done, aggregated')
      BY <1>2, <2>2
    <3>2. ServedBy(P) = FlattenSeq(ran[L])
      <4>1. Len(Tail(batches)) = 0
        BY <1>7, <2>2 DEF MoreBatches
      <4>2. Tail(batches) = <<>>
        BY <1>7, <4>1, EmptySeq
      <4>3. ServedBy(P) \o <<>> = ServedBy(P)
        BY <1>6
      <4> QED BY <1>4, <4>2, <4>3, FlattenNone
    <3>3. done # <<>> => results'[done[1]] = ServedBy(P)
      <4> DEFINE f == [results EXCEPT ![L] = aggregated']
      <4>1. DOMAIN f = Nodes
        BY <1>6
      <4> HIDE DEF f
      <4>2. done # <<>> => results' = [f EXCEPT ![done[1]] = aggregated']
        BY <3>1 DEF Seed, f
      <4> QED BY <1>1, <1>5, <4>1, <4>2
    <3>4. InDone(P)'
      BY <1>2, <1>5, <1>8, <3>3 DEF InDone
    <3>5. (ServedBy(P) = FlattenSeq(ran[L]))'
      BY <1>2, <1>5, <3>2
    <3> QED BY <1>2, <1>5, <1>9, <3>1, <3>4, <3>5 DEF Serves
  <2> QED BY <2>1, <2>2
<1>11. Arrives(L, P)'
  <2>1. Taken(L)' = Taken(L)
    BY <1>2, <1>3, <1>5 DEF Taken
  <2> QED BY <1>2, <1>5, <2>1, DriverArrives
<1> QED BY <1>10, <1>11

\* The first node of the done chain is run on all that was served; the others do
\* not matter, as none of them is connected to the loop node.
LEMMA DoneServes ==
  ASSUME IInv, RunsInv, LoopIsApart, OneInBody, NEW L, NEW P,
         L = LoopNode(wf), P = body[1], Arrives(L, P), Serves(L, P),
         NEW n \in Nodes,
         \/ SkipChainNode("done", done, n)
         \/ \E out \in Outputs(n, results[n]) : RunChainNode("done", done, n, out)
  PROVE  Arrives(L, P)' /\ Serves(L, P)'
<1>1. /\ TypeOK /\ DataOK /\ OrdersOK
      /\ L \in Nodes /\ P \in Nodes /\ P # L /\ L \notin ToSet(done)
      /\ P \notin ToSet(done)
  BY LoopFacts DEF IInv
<1>2. /\ pc = "done" /\ inner <= Len(done) /\ n = done[inner] /\ inner' = inner + 1
      /\ UNCHANGED <<setup, pc, at>> /\ pc' = "done" /\ done' = done /\ wf' = wf
      /\ inner \in Nat \ {0}
  BY <1>1 DEF SkipChainNode, RunChainNode, ChainNode, setup, TypeOK
<1>3. /\ done \in Seq(Nodes) /\ IsInjective(done) /\ DOMAIN done = 1..Len(done)
      /\ ToSet(done) = {done[k] : k \in 1..Len(done)} /\ Len(done) \in Nat
  BY <1>1, InSeq DEF DataOK, OrdersOK, Before
<1>4. n \in ToSet(done) /\ n # P /\ n # L /\ inner \in 1..Len(done)
  BY <1>1, <1>2, <1>3
<1>5. /\ \A m \in Nodes \ {n} : ran'[m] = ran[m] /\ outs'[m] = outs[m]
      /\ \/ ran' = ran /\ (results[n] = <<>> \/ wf.kind[n] = "inert")
         \/ ran'[n] = Append(ran[n], results[n])
  <2>1. ran \in [Nodes -> Seq(Seq(Items))] /\ outs \in [Nodes -> Seq(Elements)]
    BY <1>1 DEF DataOK
  <2> QED BY <2>1 DEF SkipChainNode, RunChainNode, Ran, history
<1>6. Begun(L) /\ Begun(L)' /\ ~Passed(L)'
  BY <1>2, LoopFacts, PassedSame DEF Begun, setup
<1>7. ran'[P] = ran[P] /\ ran'[L] = ran[L] /\ ServedBy(P)' = ServedBy(P)
  BY <1>1, <1>4, <1>5 DEF ServedBy
<1>8. ServedBy(P) = FlattenSeq(ran[L]) /\ InDone(P)
  BY <1>2 DEF Serves
<1>9. DoneServed(P)'
  <2> SUFFICES ASSUME done # <<>>, ServedBy(P) # <<>>, wf.kind[done[1]] # "inert"
               PROVE  ran'[done[1]] = <<ServedBy(P)>>
    BY <1>2, <1>7 DEF DoneServed
  <2>1. CASE inner = 1
    <3>1. n = done[1] /\ results[n] = ServedBy(P) /\ ran[n] = <<>>
      BY <1>2, <1>8, <2>1 DEF InDone
    <3>2. ran'[n] = Append(<<>>, ServedBy(P))
      BY <1>5, <3>1
    <3>3. Append(<<>>, ServedBy(P)) = <<ServedBy(P)>>
      OBVIOUS
    <3> QED BY <3>1, <3>2, <3>3
  <2>2. CASE inner # 1
    <3>1. ran[done[1]] = <<ServedBy(P)>>
      BY <1>8, <2>2 DEF InDone, DoneServed
    <3>2. done[1] # n /\ done[1] \in Nodes
      <4>1. 1 \in 1..Len(done) /\ inner \in 1..Len(done)
        BY <1>3, <1>4
      <4>2. done[1] # done[inner]
        BY <1>3, <2>2, <4>1 DEF IsInjective
      <4> QED BY <1>2, <1>3, <4>1, <4>2, SeqParts
    <3> QED BY <1>5, <3>1, <3>2
  <2> QED BY <2>1, <2>2
<1>10. Serves(L, P)'
  <2>1. InDone(P)'
    BY <1>2, <1>9 DEF InDone
  <2>2. \A k \in 1..Len(ran'[P]) : Len(ran'[P][k]) <= BatchSize
    BY <1>7 DEF Serves
  <2> QED BY <1>2, <1>6, <1>7, <1>8, <2>1, <2>2 DEF Serves
<1>11. Arrives(L, P)'
  <2>1. Taken(L)' = Taken(L)
    BY <1>6, <1>7 DEF Taken
  <2>2. L \notin Successors(wf, n)
    BY <1>4, FedBefore
  <2> QED BY <1>2, <1>5, <1>6, <2>1, <2>2, DriverArrives
<1> QED BY <1>10, <1>11

\* The loop is left.
LEMMA EndDoneServes ==
  ASSUME IInv, RunsInv, LoopIsApart, OneInBody, NEW L, NEW P,
         L = LoopNode(wf), P = body[1], Arrives(L, P), Serves(L, P), EndDone
  PROVE  Arrives(L, P)' /\ Serves(L, P)'
<1>1. TypeOK /\ DataOK /\ OrdersOK
  BY DEF IInv
<1>2. /\ pc = "done" /\ inner > Len(done) /\ pc' = "main" /\ at' = at + 1
      /\ UNCHANGED <<setup, history>> /\ ran' = ran /\ outs' = outs
      /\ done' = done /\ wf' = wf /\ order' = order
  BY DEF EndDone, NextNode, setup, history
<1>3. Here = L /\ at <= Len(order)
  BY <1>2, LoopFacts
<1>4. Passed(L)' /\ Begun(L)' /\ Begun(L)
  BY <1>1, <1>2, <1>3, PassesHere DEF Begun
<1>5. DoneServed(P)
  <2>1. CASE done = <<>>
    BY <2>1 DEF DoneServed
  <2>2. CASE done # <<>>
    <3>1. Len(done) \in Nat /\ Len(done) # 0
      BY <1>1, <2>2, EmptySeq DEF DataOK
    <3>2. inner # 1
      BY <1>1, <1>2, <3>1 DEF TypeOK
    <3> QED BY <1>2, <3>2 DEF Serves, InDone
  <2> QED BY <2>1, <2>2
<1>6. ServedBy(P)' = ServedBy(P) /\ (DoneServed(P)' <=> DoneServed(P))
  BY <1>2 DEF ServedBy, DoneServed
<1>7. Serves(L, P)'
  <2>1. /\ ServedBy(P) = FlattenSeq(ran[L])
        /\ \A k \in 1..Len(ran'[P]) : Len(ran'[P][k]) <= BatchSize
    BY <1>2 DEF Serves
  <2> QED BY <1>2, <1>4, <1>5, <1>6, <2>1 DEF Serves
<1>8. Arrives(L, P)'
  <2>1. Taken(L)' = Taken(L)
    BY <1>2, <1>4 DEF Taken
  <2> QED BY <1>2, <1>4, <2>1, DriverArrives
<1> QED BY <1>7, <1>8

\* A driver's step, of the loop's own chains: a workflow that is apart has no
\* other driver.
LEMMA DriversServe ==
  ASSUME IInv, RunsInv, LoopIsApart, OneInBody, NEW L, NEW P,
         L = LoopNode(wf), P = body[1], Arrives(L, P), Serves(L, P),
         NEW n \in Nodes, Drivers(n)
  PROVE  Arrives(L, P)' /\ Serves(L, P)'
<1>1. pc # "retry" /\ RetryGuards(wf) = {}
  BY LoopFacts DEF LoopIsApart
<1>2. \/ StartLoop(n)
      \/ SkipChainNode("body", body, n)
      \/ \E out \in Outputs(n, results[n]) : RunChainNode("body", body, n, out)
      \/ SkipChainNode("done", done, n)
      \/ \E out \in Outputs(n, results[n]) : RunChainNode("done", done, n, out)
  BY <1>1 DEF Drivers, StartRetry, RunRetryNode, ChainNode
<1> QED BY <1>2, StartServes, BodyServes, DoneServes

LEMMA LoopInvStep ==
  IInv /\ RunsInv /\ IInv' /\ RunsInv' /\ LoopInv /\ [Next]_vars => LoopInv'
<1> SUFFICES ASSUME IInv, RunsInv, IInv', RunsInv', LoopInv, [Next]_vars PROVE LoopInv'
  OBVIOUS
<1>1. CASE Sort \/ Refuse \/ Ordered
  BY <1>1, SortLoop
<1>2. CASE Fail
  BY <1>2 DEF Fail, LoopInv, Sorts
<1>3. CASE UNCHANGED vars /\ pc \in Sorts \cup {"failed"}
  <2>1. /\ pc' = pc /\ wf' = wf /\ results' = results /\ outs' = outs
        /\ Starts(wf)' = Starts(wf)
    BY <1>3 DEF vars, setup, history
  <2> QED BY <1>3, <2>1 DEF LoopInv, Sorts
<1> DEFINE Step ==
      \/ Finish \/ (UNCHANGED vars /\ pc \notin Sorts \cup {"failed"})
      \/ EndBatch \/ EndDone \/ \E more \in BOOLEAN : EndIteration(more)
      \/ \E n \in Nodes : \/ Skip(n) \/ SkipInert(n) \/ Drivers(n)
                          \/ \E out \in Outputs(n, results[n]) : RunNode(n, out)
<1>4. CASE Step
  <2>1. UNCHANGED setup /\ pc \notin Sorts \cup {"failed"} /\ pc' \notin Sorts
    <3>1. CASE \E n \in Nodes : Drivers(n)
      BY <3>1 DEF Drivers, StartLoop, StartRetry, SkipChainNode, RunChainNode, RunRetryNode,
                  ChainNode, Main, Sorts
    <3>2. CASE \E n \in Nodes : \/ Skip(n) \/ SkipInert(n)
                                \/ \E out \in Outputs(n, results[n]) : RunNode(n, out)
      BY <3>2 DEF Skip, SkipInert, RunNode, Main, Sorts
    <3>3. CASE EndBatch \/ EndDone \/ \E more \in BOOLEAN : EndIteration(more)
      BY <3>3 DEF EndBatch, EndDone, EndIteration, Sorts
    <3>4. CASE Finish \/ (UNCHANGED vars /\ pc \notin Sorts \cup {"failed"})
      BY <3>4 DEF Finish, vars, Sorts
    <3> QED BY <1>4, <3>1, <3>2, <3>3, <3>4
  <2>2. ASSUME LoopIsApart', OneInBody'
        PROVE  (Arrives(LoopNode(wf), body[1]) /\ Serves(LoopNode(wf), body[1]))'
    <3>1. PICK L : L = LoopNode(wf)
      OBVIOUS
    <3>2. PICK P : P = body[1]
      OBVIOUS
    <3>3. /\ LoopIsApart /\ OneInBody /\ L = LoopNode(wf)' /\ P = body'[1]
      BY <2>1, <2>2, <3>1, <3>2, LoopSame
    <3>4. Arrives(L, P) /\ Serves(L, P)
      BY <2>1, <3>1, <3>2, <3>3 DEF LoopInv
    <3>5. Arrives(L, P)' /\ Serves(L, P)'
      <4>1. CASE Finish \/ UNCHANGED vars
        BY <3>4, <4>1, StillServes
      <4>2. ASSUME NEW n \in Nodes, Skip(n) \/ SkipInert(n)
            PROVE  Arrives(L, P)' /\ Serves(L, P)'
        BY <3>1, <3>2, <3>3, <3>4, <4>2, SkipServes
      <4>3. ASSUME NEW n \in Nodes, NEW out \in Outputs(n, results[n]), RunNode(n, out)
            PROVE  Arrives(L, P)' /\ Serves(L, P)'
        BY <3>1, <3>2, <3>3, <3>4, <4>3, RunServes
      <4>4. ASSUME NEW n \in Nodes, Drivers(n)
            PROVE  Arrives(L, P)' /\ Serves(L, P)'
        BY <3>1, <3>2, <3>3, <3>4, <4>4, DriversServe
      <4>5. CASE EndBatch
        BY <3>1, <3>2, <3>3, <3>4, <4>5, EndBatchServes
      <4>6. CASE EndDone
        BY <3>1, <3>2, <3>3, <3>4, <4>6, EndDoneServes
      <4>7. ~ \E more \in BOOLEAN : EndIteration(more)
        <5>1. pc # "retry"
          BY <3>1, <3>2, <3>3, LoopFacts
        <5> QED BY <5>1 DEF EndIteration
      <4> QED BY <1>4, <4>1, <4>2, <4>3, <4>4, <4>5, <4>6, <4>7
    <3> QED BY <3>3, <3>5
  <2> QED BY <2>1, <2>2 DEF LoopInv
<1>5. Next \/ UNCHANGED vars
  OBVIOUS
<1> QED BY <1>1, <1>2, <1>3, <1>4, <1>5 DEF Next, Returned

LEMMA LoopInvHolds == Spec => []LoopInv
<1>1. Init /\ []IInv /\ []RunsInv /\ [][Next]_vars => []LoopInv
  BY InitLoop, LoopInvStep, PTL
<1> QED BY <1>1, RunsHold, Invariance, PTL DEF Spec

\* A loop of one node, fed by the main loop alone and apart from its done chain,
\* puts every item sent to it through the body once, in order and in batches no
\* larger than BatchSize, and then runs the head of its done chain once, on all
\* of them, whatever the size of the input and of a batch: in the workflows of
\* NodeRunAssumption, where no item sent to the loop is lost to the stray tag of
\* a switch that shared it (engine.go:841-866).
THEOREM LoopServes == Spec => [](LoopIsApart => LoopServesEveryItem)
<1>1. IInv /\ RunsInv /\ WholeOrder /\ LoopInv => (LoopIsApart => LoopServesEveryItem)
  <2> SUFFICES ASSUME IInv, RunsInv, WholeOrder, LoopInv, LoopIsApart,
                      pc = "ended", Loops(wf) # {}, Len(body) = 1,
                      wf.kind[body[1]] = "plain"
               PROVE  /\ ServesAll(LoopNode(wf), body[1])
                      /\ \A i \in ToSet(input) :
                           Copies(i, FlattenSeq(ran[body[1]]))
                             = Arriving(i, LoopNode(wf), Nodes \ {body[1]})
    BY DEF LoopServesEveryItem
  <2>1. PICK L : L = LoopNode(wf)
    OBVIOUS
  <2>2. PICK P : P = body[1]
    OBVIOUS
  <2>3. OneInBody
    BY DEF OneInBody
  <2>4. Arrives(L, P) /\ Serves(L, P)
    BY <2>1, <2>2, <2>3 DEF LoopInv, Sorts
  <2>5. L \in Nodes /\ P \in Nodes
    BY <2>1, <2>2, <2>3, LoopFacts
  <2>6. Passed(L)
    BY <2>5, AllPassed
  <2>7. /\ ServedBy(P) = FlattenSeq(ran[L]) /\ DoneServed(P)
        /\ \A k \in 1..Len(ran[P]) : Len(ran[P][k]) <= BatchSize
    BY <2>4, <2>6 DEF Serves
  <2>8. ServesAll(L, P)
    <3>1. DOMAIN ran[P] = 1..Len(ran[P])
      BY <2>1, <2>2, <2>3, LoopTypes
    <3> QED BY <2>7, <3>1 DEF ServesAll, ServedBy, DoneServed
  <2>9. ASSUME NEW i
        PROVE  Copies(i, FlattenSeq(ran[P])) = Arriving(i, L, Nodes \ {P})
    <3>1. Taken(L) = FlattenSeq(ran[P])
      BY <2>6, <2>7 DEF Taken, Begun, ServedBy
    <3> QED BY <2>4, <3>1, ArrivingButIs DEF Arrives
  <2> QED BY <2>1, <2>2, <2>8, <2>9
<1> QED BY <1>1, LoopInvHolds, RunsHold, WholeOrderHolds, Invariance, PTL
=============================================================================
