------------------------- MODULE FlattenedSequences -------------------------
(***************************************************************************)
(* Facts about FlattenSeq, which joins texts in ChatHubCall and ChatTurn   *)
(* and messages in AgentConversation: a recursive function over a sequence, *)
(* taken apart from the end by the least number at which a claim about it   *)
(* would fail.                                                             *)
(***************************************************************************)
EXTENDS Integers, SequencesExt, SequenceTheorems, WellFoundedInduction, TLAPS

LEMMA LeastExists ==
    ASSUME NEW S, S \subseteq Nat, S # {}
    PROVE  \E k \in S : \A j \in S : k <= j
<1>1. PICK k \in S : \A j \in S : ~(<<j, k>> \in OpToRel(<, Nat))
  BY NatLessThanWellFounded, WFMin
<1>2. ASSUME NEW j \in S PROVE k <= j
  <2>1. ~(j < k)
    BY <1>1 DEF OpToRel
  <2>2. QED
    BY <2>1
<1>3. QED
  BY <1>2

Flattening(ss, n, F) == F = [i \in 1..n |-> IF i = 1 THEN ss[i] ELSE F[i - 1] \o ss[i]]

LEMMA FlatteningExists ==
    ASSUME NEW ss, NEW n \in Nat
    PROVE  \E F : Flattening(ss, n, F)
<1> DEFINE Bad == {m \in Nat : ~\E F : Flattening(ss, m, F)}
<1>1. SUFFICES ASSUME Bad # {} PROVE FALSE
  OBVIOUS
<1>2. PICK m \in Bad : \A j \in Bad : m <= j
  BY <1>1, LeastExists
<1>3. m # 0
  <2> DEFINE E == [i \in 1..0 |-> <<>>]
  <2>1. 1..0 = {}
    OBVIOUS
  <2>2. E = [i \in 1..0 |-> IF i = 1 THEN ss[i] ELSE E[i - 1] \o ss[i]]
    BY <2>1
  <2>3. Flattening(ss, 0, E)
    BY <2>2 DEF Flattening
  <2>4. QED
    BY <2>3
<1>4. m - 1 \in Nat /\ m - 1 \notin Bad
  BY <1>2, <1>3
<1>5. PICK G : Flattening(ss, m - 1, G)
  BY <1>4
<1> DEFINE F == [i \in 1..m |-> IF i < m THEN G[i]
                                ELSE IF i = 1 THEN ss[i] ELSE G[i - 1] \o ss[i]]
<1>6. F = [i \in 1..m |-> IF i = 1 THEN ss[i] ELSE F[i - 1] \o ss[i]]
  <2>1. ASSUME NEW i \in 1..m
        PROVE  F[i] = IF i = 1 THEN ss[i] ELSE F[i - 1] \o ss[i]
    <3>1. i \in 1..m - 1 => G[i] = IF i = 1 THEN ss[i] ELSE G[i - 1] \o ss[i]
      BY <1>5 DEF Flattening
    <3>2. i # 1 => i - 1 \in 1..m - 1 /\ F[i - 1] = G[i - 1]
      BY <1>4
    <3>3. QED
      BY <1>4, <3>1, <3>2
  <2>2. QED
    BY <2>1
<1>7. QED
  BY <1>6, <1>2 DEF Flattening

LEMMA FlatteningAt ==
    ASSUME NEW ss, NEW n, NEW F, Flattening(ss, n, F), NEW k \in 1..n
    PROVE  F[k] = IF k = 1 THEN ss[k] ELSE F[k - 1] \o ss[k]
<1> DEFINE e(i) == IF i = 1 THEN ss[i] ELSE F[i - 1] \o ss[i]
<1>1. F = [i \in 1..n |-> e(i)]
  BY DEF Flattening
<1> HIDE DEF e
<1>2. F[k] = e(k)
  BY <1>1
<1>3. QED
  BY <1>2 DEF e

SameUpTo(n, s, t) == \A i \in 1..n : s[i] = t[i]

LEMMA FlatteningAgrees ==
    ASSUME NEW ss, NEW tt, NEW m \in Nat, NEW n \in Nat, m <= n,
           SameUpTo(m, ss, tt),
           NEW F, NEW G, Flattening(ss, m, F), Flattening(tt, n, G)
    PROVE  SameUpTo(m, F, G)
<1> USE DEF SameUpTo
<1> DEFINE Bad == {i \in 1..m : F[i] # G[i]}
<1>1. SUFFICES ASSUME Bad # {} PROVE FALSE
  OBVIOUS
<1>2. PICK k \in Bad : \A j \in Bad : k <= j
  <2>1. Bad \subseteq Nat
    OBVIOUS
  <2>2. QED
    BY <1>1, <2>1, LeastExists
<1>3. /\ F[k] = IF k = 1 THEN ss[k] ELSE F[k - 1] \o ss[k]
      /\ G[k] = IF k = 1 THEN tt[k] ELSE G[k - 1] \o tt[k]
  BY FlatteningAt
<1>4. k # 1 => k - 1 \in 1..m /\ k - 1 \notin Bad
  BY <1>2
<1>5. QED
  BY <1>3, <1>4

LEMMA FlattenIs ==
    ASSUME NEW A, NEW ss \in Seq(A), ss # <<>>
    PROVE  \E F : Flattening(ss, Len(ss), F) /\ FlattenSeq(ss) = F[Len(ss)]
<1> DEFINE F == CHOOSE f : f = [i \in 1..Len(ss) |-> IF i = 1 THEN ss[i] ELSE f[i - 1] \o ss[i]]
<1>1. Len(ss) \in Nat /\ Len(ss) # 0
  BY EmptySeq
<1>2. \E f : f = [i \in 1..Len(ss) |-> IF i = 1 THEN ss[i] ELSE f[i - 1] \o ss[i]]
  BY <1>1, FlatteningExists DEF Flattening
<1>3. Flattening(ss, Len(ss), F)
  BY <1>2 DEF Flattening
<1>4. FlattenSeq(ss) = F[Len(ss)]
  BY <1>1 DEF FlattenSeq
<1>5. QED
  BY <1>3, <1>4

LEMMA FlattenNothing == FlattenSeq(<<>>) = <<>>
BY DEF FlattenSeq

LEMMA FlattenIsASeq ==
    ASSUME NEW A, NEW ss \in Seq(Seq(A))
    PROVE  FlattenSeq(ss) \in Seq(A)
<1> DEFINE n == Len(ss)
<1>1. n \in Nat /\ \A i \in 1..n : ss[i] \in Seq(A)
  BY LenProperties, ElementOfSeq
<1>2. CASE ss = <<>>
  BY <1>2, FlattenNothing, EmptySeq
<1>3. CASE ss # <<>>
  <2>1. PICK F : Flattening(ss, n, F) /\ FlattenSeq(ss) = F[n]
    BY <1>3, FlattenIs
  <2>2. n # 0
    BY <1>3, EmptySeq
  <2> HIDE DEF n
  <2> DEFINE Bad == {k \in 1..n : F[k] \notin Seq(A)}
  <2>3. Bad = {}
    <3>1. SUFFICES ASSUME Bad # {} PROVE FALSE
      OBVIOUS
    <3>2. PICK k \in Bad : \A j \in Bad : k <= j
      <4>1. Bad \subseteq Nat
        OBVIOUS
      <4>2. QED
        BY <3>1, <4>1, LeastExists
    <3>3. F[k] = IF k = 1 THEN ss[k] ELSE F[k - 1] \o ss[k]
      BY <2>1, FlatteningAt
    <3>4. k # 1 => k - 1 \in 1..n /\ k - 1 \notin Bad
      BY <1>1, <3>2
    <3>5. k # 1 => F[k - 1] \in Seq(A)
      BY <3>4
    <3>6. ss[k] \in Seq(A)
      BY <1>1
    <3>7. QED
      BY <3>3, <3>5, <3>6, ConcatProperties, ZenonT(60)
  <2>4. QED
    BY <1>1, <2>1, <2>2, <2>3
<1>4. QED
  BY <1>2, <1>3

LEMMA FlattenAppend ==
    ASSUME NEW A, NEW ss \in Seq(Seq(A)), NEW t \in Seq(A), FlattenSeq(ss) \in Seq(A)
    PROVE  FlattenSeq(Append(ss, t)) = FlattenSeq(ss) \o t
<1> DEFINE n == Len(ss)
           tt == Append(ss, t)
<1>1. /\ tt \in Seq(Seq(A)) /\ tt # <<>> /\ Len(tt) = n + 1 /\ n \in Nat
      /\ \A i \in 1..n : tt[i] = ss[i]
      /\ tt[n + 1] = t
  BY AppendProperties, LenProperties
<1>2. PICK G : Flattening(tt, n + 1, G) /\ FlattenSeq(tt) = G[n + 1]
  BY <1>1, FlattenIs
<1> HIDE DEF tt, n
<1>3. G[n + 1] = IF n + 1 = 1 THEN t ELSE G[n] \o t
  <2>1. n + 1 \in 1..n + 1 /\ n + 1 - 1 = n
    BY <1>1
  <2>2. QED
    BY <1>1, <1>2, <2>1, FlatteningAt
<1>4. CASE ss = <<>>
  <2>1. n = 0
    BY <1>4 DEF n
  <2>2. FlattenSeq(ss) \o t = t
    BY <1>4, FlattenNothing, ConcatEmptySeq
  <2>3. QED
    BY <1>2, <1>3, <2>1, <2>2 DEF tt
<1>5. CASE ss # <<>>
  <2>1. PICK F : Flattening(ss, n, F) /\ FlattenSeq(ss) = F[n]
    BY <1>5, FlattenIs DEF n
  <2>2. n # 0
    BY <1>5, EmptySeq DEF n
  <2>3. F[n] = G[n]
    <3>1. SameUpTo(n, ss, tt)
      BY <1>1 DEF SameUpTo
    <3>2. n \in Nat /\ n + 1 \in Nat /\ n <= n + 1 /\ n \in 1..n
      BY <1>1, <2>2
    <3>3. SameUpTo(n, F, G)
      BY <1>2, <2>1, <3>1, <3>2, FlatteningAgrees
    <3>4. QED
      BY <3>2, <3>3 DEF SameUpTo
  <2>4. QED
    BY <1>1, <1>2, <1>3, <2>1, <2>2, <2>3, SMTT(30) DEF tt
<1>6. QED
  BY <1>4, <1>5

LEMMA FlattenConcat ==
    ASSUME NEW A, NEW ss \in Seq(Seq(A)), NEW tt \in Seq(Seq(A))
    PROVE  FlattenSeq(ss \o tt) = FlattenSeq(ss) \o FlattenSeq(tt)
<1> DEFINE First(k) == SubSeq(tt, 1, k)
           Joins(k) == FlattenSeq(ss \o First(k)) = FlattenSeq(ss) \o FlattenSeq(First(k))
           Bad == {k \in 0..Len(tt) : ~Joins(k)}
<1>1. Len(tt) \in Nat /\ \A i \in 1..Len(tt) : tt[i] \in Seq(A)
  BY LenProperties, ElementOfSeq
<1>2. \A k \in 0..Len(tt) : First(k) \in Seq(Seq(A)) /\ Len(First(k)) = k
  BY <1>1, SubSeqProperties
<1>3. Bad = {}
  <2>1. SUFFICES ASSUME Bad # {} PROVE FALSE
    OBVIOUS
  <2>2. PICK k \in Bad : \A j \in Bad : k <= j
    <3>1. Bad \subseteq Nat
      BY <1>1
    <3>2. QED
      BY <2>1, <3>1, LeastExists
  <2>3. k # 0
    <3>1. First(0) = <<>>
      BY <1>1, <1>2, EmptySeq
    <3>2. ss \o <<>> = ss /\ FlattenSeq(ss) \o <<>> = FlattenSeq(ss)
      BY FlattenIsASeq, ConcatEmptySeq
    <3>3. Joins(0)
      BY <3>1, <3>2, FlattenNothing
    <3>4. QED
      BY <2>2, <3>3
  <2>4. k - 1 \in 0..Len(tt) /\ k \in 1..Len(tt) /\ Joins(k - 1)
    <3> HIDE DEF Joins
    <3>1. k - 1 \in 0..Len(tt) /\ k \in 1..Len(tt) /\ ~(k <= k - 1)
      BY <1>1, <2>2, <2>3
    <3>2. QED
      BY <2>2, <3>1
  <2>5. First(k) = Append(First(k - 1), tt[k])
    <3>1. SubSeq(tt, 1, k) = Append(SubSeq(tt, 1, k - 1), tt[k])
      BY <1>1, <1>2, <2>4, SMTT(30)
    <3>2. QED
      BY <3>1
  <2> DEFINE u == First(k - 1)
             t == tt[k]
  <2>6. u \in Seq(Seq(A)) /\ t \in Seq(A) /\ ss \o u \in Seq(Seq(A))
    BY <1>1, <1>2, <2>4, ConcatProperties
  <2>7. FlattenSeq(ss \o u) = FlattenSeq(ss) \o FlattenSeq(u)
    BY <2>4
  <2>8. ss \o First(k) = Append(ss \o u, t)
    BY <2>5, <2>6, SMTT(30)
  <2> HIDE DEF u, t, First
  <2>9. FlattenSeq(Append(ss \o u, t)) = FlattenSeq(ss \o u) \o t
    BY <2>6, FlattenIsASeq, FlattenAppend
  <2>10. FlattenSeq(Append(u, t)) = FlattenSeq(u) \o t
    BY <2>6, FlattenIsASeq, FlattenAppend
  <2>11. (FlattenSeq(ss) \o FlattenSeq(u)) \o t = FlattenSeq(ss) \o (FlattenSeq(u) \o t)
    <3>1. /\ FlattenSeq(ss) \in Seq(A) /\ FlattenSeq(u) \in Seq(A)
      BY <2>6, FlattenIsASeq
    <3> DEFINE p == FlattenSeq(ss)
               q == FlattenSeq(u)
    <3>2. p \in Seq(A) /\ q \in Seq(A)
      BY <3>1
    <3> HIDE DEF p, q
    <3>3. (p \o q) \o t = p \o (q \o t)
      BY <2>6, <3>2, SMTT(30)
    <3>4. QED
      BY <3>3 DEF p, q
  <2>12. Joins(k)
    BY <2>5, <2>7, <2>8, <2>9, <2>10, <2>11 DEF u, t
  <2>13. QED
    BY <2>2, <2>12
<1>4. Joins(Len(tt))
  <2> HIDE DEF Joins
  <2>1. Len(tt) \in 0..Len(tt)
    BY <1>1
  <2>2. QED
    BY <1>3, <2>1
<1>5. First(Len(tt)) = tt
  BY <1>1, SMTT(30)
<1>6. QED
  BY <1>4, <1>5
=============================================================================
