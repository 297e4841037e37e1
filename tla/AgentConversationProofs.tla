----------------------- MODULE AgentConversationProofs -----------------------
(***************************************************************************)
(* What is proved of every conversation.                                    *)
(*  - The ledger: the counts it keeps while it reads the results one after   *)
(*    the other (AgentLedger) are those of the occurrences of a call, so a   *)
(*    call is held back only when it is stuck or failing.                    *)
(*  - The protocol: reading the messages one by one (ReadConversation) finds *)
(*    them valid exactly when every result answers a call that still waits   *)
(*    for it, a statement about positions (Follows, Waits) that survives     *)
(*    cutting a conversation where a unit starts: what the portable history  *)
(*    stores and what the prompt rebuilds can be read again.                 *)
(*  - The way on: what was stored is a fixed point of the bounding, and the  *)
(*    overlap of an offered history with it is exactly the repetition, so no *)
(*    message is lost and none is stored twice.                              *)
(*  - The prompt: the chosen units are gathered as the messages at           *)
(*    increasing positions, so every result follows its call, and each step  *)
(*    of the choice (instructions and current turn, anchors, recent tail)    *)
(*    stays within the budget.                                               *)
(* The readings are taken one by one, by the least message after which a     *)
(* claim about them would fail.                                              *)
(***************************************************************************)
EXTENDS AgentConversation, FlattenedSequences, FiniteSetTheorems, TLAPS

---------------------------------------------------------------------------
(* The greatest of a bounded set.                                          *)

LEMMA GreatestExists ==
    ASSUME NEW S, S \subseteq Nat, S # {}, NEW b \in Nat, \A x \in S : x <= b
    PROVE  \E m \in S : \A x \in S : x <= m
<1> DEFINE D == {d \in Nat : d <= b /\ b - d \in S}
<1>1. D # {}
  <2>1. PICK x \in S : TRUE
    OBVIOUS
  <2>2. b - x \in Nat /\ b - (b - x) = x /\ b - x <= b
    BY <2>1
  <2>3. b - x \in D
    BY <2>2
  <2>4. QED
    BY <2>3
<1>2. PICK k \in D : \A j \in D : k <= j
  <2>1. D \subseteq Nat
    OBVIOUS
  <2>2. QED
    BY <1>1, <2>1, LeastExists
<1>3. ASSUME NEW x \in S PROVE x <= b - k
  <2>1. x \in Nat /\ b - x \in Nat /\ b - (b - x) = x /\ b - x <= b
    OBVIOUS
  <2>2. b - x \in D
    BY <2>1
  <2>3. k <= b - x /\ k \in Nat
    BY <1>2, <2>2
  <2>4. QED
    BY <2>1, <2>3
<1>4. QED
  BY <1>2, <1>3

LEMMA MaxIsGreatest ==
    ASSUME NEW S, S \subseteq Nat, S # {}, NEW b \in Nat, \A x \in S : x <= b
    PROVE  Max(S) \in S /\ \A x \in S : x <= Max(S)
<1>1. \E m \in S : \A x \in S : m >= x
  <2>1. PICK m \in S : \A x \in S : x <= m
    BY GreatestExists
  <2>2. \A x \in S : m >= x
    BY <2>1
  <2>3. QED
    BY <2>2
<1>2. Max(S) \in S /\ \A x \in S : Max(S) >= x
  BY <1>1 DEF Max
<1>3. QED
  BY <1>2

---------------------------------------------------------------------------
(* What the ledger has seen after k results.                               *)

\* j is the next time the call of i has a result.
NextTime(d, i, j) ==
    /\ i < j
    /\ d[i].sig = d[j].sig
    /\ \A k \in (i + 1)..(j - 1) : d[k].sig # d[i].sig

Again(d, i, j) == NextTime(d, i, j) /\ d[i].result = d[j].result

LastTime(d, n, j) == \A k \in (j + 1)..n : d[k].sig # d[j].sig

StuckOn(d, n, s) ==
    \E i, j, k \in 1..n : d[i].sig = s /\ Again(d, i, j) /\ Again(d, j, k)

SameFailure(d, i, j) ==
    /\ i < j
    /\ d[i].sig = d[j].sig
    /\ d[i].result \in FailedTexts /\ d[j].result \in FailedTexts
    /\ FailureKey(d[i].result) = FailureKey(d[j].result)

FailingOn(d, n, s) == \E i, j \in 1..n : d[i].sig = s /\ SameFailure(d, i, j)

SigsSeen(d, n, w) == DOMAIN w.stagnant = {d[i].sig : i \in 1..n}

CountsWell(d, n, w, j) ==
    LET known == w.stagnant[d[j].sig] IN
    /\ known.result = d[j].result
    /\ known.count \in Nat \ {0}
    /\ known.count >= 2 <=> \E i \in 1..n : Again(d, i, j)

Counted(d, n, w) == \A j \in 1..n : LastTime(d, n, j) => CountsWell(d, n, w, j)

FailuresSeen(d, n, w) ==
    w.failures = {<<d[i].sig, FailureKey(d[i].result)>> :
                     i \in {x \in 1..n : d[x].result \in FailedTexts}}

RepeatsSeen(d, n, w) ==
    /\ w.repeatedCall \in BOOLEAN /\ w.repeatedFailure \in BOOLEAN
    /\ w.repeatedCall <=> \E s : StuckOn(d, n, s)
    /\ w.repeatedFailure <=> \E s : FailingOn(d, n, s)

Repeats(w) == w.repeatedCall \/ w.repeatedFailure

SignatureSeen(d, n, w) ==
    /\ w.signature # NoText => Repeats(w)
    /\ Repeats(w) => StuckOn(d, n, w.signature) \/ FailingOn(d, n, w.signature)

SeenWell(d, n, w) ==
    /\ SigsSeen(d, n, w) /\ Counted(d, n, w) /\ FailuresSeen(d, n, w)
    /\ RepeatsSeen(d, n, w) /\ SignatureSeen(d, n, w)

LEMMA NothingSeenWell == ASSUME NEW d PROVE SeenWell(d, 0, NoProgressSeen)
<1>1. 1..0 = {}
  OBVIOUS
<1>2. SigsSeen(d, 0, NoProgressSeen) /\ Counted(d, 0, NoProgressSeen)
  BY <1>1 DEF SigsSeen, Counted, NoProgressSeen
<1>3. FailuresSeen(d, 0, NoProgressSeen)
  BY <1>1 DEF FailuresSeen, NoProgressSeen
<1>4. ~(\E s : StuckOn(d, 0, s)) /\ ~(\E s : FailingOn(d, 0, s))
  BY <1>1 DEF StuckOn, FailingOn
<1>5. RepeatsSeen(d, 0, NoProgressSeen) /\ SignatureSeen(d, 0, NoProgressSeen)
  BY <1>4 DEF RepeatsSeen, SignatureSeen, Repeats, NoProgressSeen
<1>6. QED
  BY <1>2, <1>3, <1>5 DEF SeenWell

\* The last time before n that the call of n had a result, when there is one.
LEMMA LastTimeExists ==
    ASSUME NEW d, NEW n \in Nat \ {0}, NEW i \in 1..(n - 1), d[i].sig = d[n].sig
    PROVE  \E j \in 1..(n - 1) : LastTime(d, n - 1, j) /\ NextTime(d, j, n)
<1> DEFINE S == {x \in 1..(n - 1) : d[x].sig = d[n].sig}
<1>1. S \subseteq Nat /\ S # {} /\ n \in Nat /\ \A x \in S : x <= n
  OBVIOUS
<1>2. PICK j \in S : \A x \in S : x <= j
  BY <1>1, GreatestExists
<1>3. \A x \in (j + 1)..(n - 1) : d[x].sig # d[j].sig
  BY <1>2
<1>4. QED
  BY <1>2, <1>3 DEF LastTime, NextTime

LEMMA NextTimeIsLastTime ==
    ASSUME NEW d, NEW n \in Nat \ {0}, NEW j \in 1..(n - 1)
    PROVE  NextTime(d, j, n) <=> LastTime(d, n - 1, j) /\ d[j].sig = d[n].sig
BY DEF NextTime, LastTime

---------------------------------------------------------------------------
(* Weighing one more result.                                               *)

LEMMA CountOfNext ==
    ASSUME NEW d, NEW n \in Nat \ {0}, NEW w, SigsSeen(d, n - 1, w), Counted(d, n - 1, w)
    PROVE  LET count == Stagnation(w, d[n]) IN
           /\ count \in Nat \ {0}
           /\ count >= 2 <=> \E i \in 1..(n - 1) : Again(d, i, n)
           /\ count >= 3 <=> \E i, j \in 1..(n - 1) : Again(d, i, j) /\ Again(d, j, n)
<1> DEFINE e == d[n]
           count == Stagnation(w, e)
           Known == e.sig \in DOMAIN w.stagnant /\ w.stagnant[e.sig].result = e.result
<1>1. ASSUME NEW j \in 1..(n - 1), Again(d, j, n)
      PROVE  Known /\ CountsWell(d, n - 1, w, j) /\ d[j].sig = e.sig
  <2>1. LastTime(d, n - 1, j) /\ d[j].sig = e.sig /\ d[j].result = e.result
    BY <1>1, NextTimeIsLastTime DEF Again
  <2>2. CountsWell(d, n - 1, w, j)
    BY <2>1 DEF Counted
  <2>3. e.sig \in DOMAIN w.stagnant
    BY <2>1 DEF SigsSeen
  <2>4. w.stagnant[e.sig].result = e.result
    BY <2>1, <2>2 DEF CountsWell
  <2>5. QED
    BY <2>1, <2>2, <2>3, <2>4
<1>2. ASSUME Known
      PROVE  \E j \in 1..(n - 1) : Again(d, j, n) /\ CountsWell(d, n - 1, w, j) /\ d[j].sig = e.sig
  <2>1. PICK i \in 1..(n - 1) : d[i].sig = e.sig
    BY <1>2 DEF SigsSeen
  <2>2. PICK j \in 1..(n - 1) : LastTime(d, n - 1, j) /\ NextTime(d, j, n)
    BY <2>1, LastTimeExists
  <2>3. CountsWell(d, n - 1, w, j) /\ d[j].sig = e.sig
    BY <2>2, NextTimeIsLastTime DEF Counted
  <2>4. d[j].result = e.result
    BY <1>2, <2>3 DEF CountsWell
  <2>5. QED
    BY <2>2, <2>3, <2>4 DEF Again
<1>3. CASE ~Known
  <2>1. count = 1
    BY <1>3 DEF Stagnation
  <2>2. ~\E j \in 1..(n - 1) : Again(d, j, n)
    BY <1>1, <1>3
  <2>3. QED
    BY <2>1, <2>2
<1>4. CASE Known
  <2> DEFINE old == w.stagnant[e.sig].count
  <2>1. count = old + 1
    BY <1>4 DEF Stagnation
  <2>2. PICK j \in 1..(n - 1) : Again(d, j, n) /\ CountsWell(d, n - 1, w, j) /\ d[j].sig = e.sig
    BY <1>2, <1>4
  <2>3. /\ old \in Nat \ {0}
        /\ old >= 2 <=> \E i \in 1..(n - 1) : Again(d, i, j)
    BY <2>2 DEF CountsWell
  <2>4. ASSUME NEW i \in 1..(n - 1), NEW l \in 1..(n - 1), Again(d, i, l), Again(d, l, n)
        PROVE  old >= 2
    <3>1. CountsWell(d, n - 1, w, l) /\ d[l].sig = e.sig
      BY <1>1, <2>4
    <3>2. QED
      BY <2>4, <3>1 DEF CountsWell
  <2> HIDE DEF old, count
  <2>5. count >= 2 /\ (count >= 3 <=> old >= 2) /\ count \in Nat \ {0}
    BY <2>1, <2>3
  <2>6. QED
    BY <2>2, <2>3, <2>4, <2>5 DEF count
<1>5. QED
  BY <1>3, <1>4

\* What a repeat is after n results, in terms of what it was after n - 1.
LEMMA StuckOnOneMore ==
    ASSUME NEW d, NEW n \in Nat \ {0}, NEW s
    PROVE  StuckOn(d, n, s) <=>
              \/ StuckOn(d, n - 1, s)
              \/ /\ s = d[n].sig
                 /\ \E i, j \in 1..(n - 1) : Again(d, i, j) /\ Again(d, j, n)
<1> DEFINE New == \E i, j \in 1..(n - 1) : Again(d, i, j) /\ Again(d, j, n)
<1>1. ASSUME StuckOn(d, n, s) PROVE StuckOn(d, n - 1, s) \/ (s = d[n].sig /\ New)
  <2>1. PICK i, j, k \in 1..n : d[i].sig = s /\ Again(d, i, j) /\ Again(d, j, k)
    BY <1>1 DEF StuckOn
  <2>2. i < j /\ j < k /\ d[k].sig = s
    BY <2>1 DEF Again, NextTime
  <2>3. i \in 1..(n - 1) /\ j \in 1..(n - 1)
    BY <2>2
  <2>4. CASE k = n
    BY <2>1, <2>2, <2>3, <2>4
  <2>5. CASE k # n
    <3>1. k \in 1..(n - 1)
      BY <2>5
    <3>2. QED
      BY <2>1, <2>3, <3>1 DEF StuckOn
  <2>6. QED
    BY <2>4, <2>5
<1>2. ASSUME StuckOn(d, n - 1, s) PROVE StuckOn(d, n, s)
  <2>1. PICK i, j, k \in 1..(n - 1) : d[i].sig = s /\ Again(d, i, j) /\ Again(d, j, k)
    BY <1>2 DEF StuckOn
  <2>2. i \in 1..n /\ j \in 1..n /\ k \in 1..n
    OBVIOUS
  <2>3. QED
    BY <2>1, <2>2 DEF StuckOn
<1>3. ASSUME s = d[n].sig, New PROVE StuckOn(d, n, s)
  <2>1. PICK i, j \in 1..(n - 1) : Again(d, i, j) /\ Again(d, j, n)
    BY <1>3
  <2>2. i \in 1..n /\ j \in 1..n /\ n \in 1..n
    OBVIOUS
  <2>3. d[i].sig = s
    BY <1>3, <2>1 DEF Again, NextTime
  <2>4. QED
    BY <2>1, <2>2, <2>3 DEF StuckOn
<1>4. QED
  BY <1>1, <1>2, <1>3

LEMMA FailingOnOneMore ==
    ASSUME NEW d, NEW n \in Nat \ {0}, NEW s
    PROVE  FailingOn(d, n, s) <=>
              \/ FailingOn(d, n - 1, s)
              \/ s = d[n].sig /\ \E i \in 1..(n - 1) : SameFailure(d, i, n)
<1>1. ASSUME FailingOn(d, n, s)
      PROVE  FailingOn(d, n - 1, s) \/ (s = d[n].sig /\ \E i \in 1..(n - 1) : SameFailure(d, i, n))
  <2>1. PICK i, j \in 1..n : d[i].sig = s /\ SameFailure(d, i, j)
    BY <1>1 DEF FailingOn
  <2>2. i < j /\ d[j].sig = s
    BY <2>1 DEF SameFailure
  <2>3. i \in 1..(n - 1)
    BY <2>2
  <2>4. CASE j = n
    BY <2>1, <2>2, <2>3, <2>4
  <2>5. CASE j # n
    <3>1. j \in 1..(n - 1)
      BY <2>5
    <3>2. QED
      BY <2>1, <2>3, <3>1 DEF FailingOn
  <2>6. QED
    BY <2>4, <2>5
<1>2. ASSUME FailingOn(d, n - 1, s) PROVE FailingOn(d, n, s)
  <2>1. PICK i, j \in 1..(n - 1) : d[i].sig = s /\ SameFailure(d, i, j)
    BY <1>2 DEF FailingOn
  <2>2. i \in 1..n /\ j \in 1..n
    OBVIOUS
  <2>3. QED
    BY <2>1, <2>2 DEF FailingOn
<1>3. ASSUME s = d[n].sig, NEW i \in 1..(n - 1), SameFailure(d, i, n) PROVE FailingOn(d, n, s)
  <2>1. i \in 1..n /\ n \in 1..n
    OBVIOUS
  <2>2. d[i].sig = s
    BY <1>3 DEF SameFailure
  <2>3. QED
    BY <1>3, <2>1, <2>2 DEF FailingOn
<1>4. QED
  BY <1>1, <1>2, <1>3

LEMMA OneMoreSeenWell ==
    ASSUME NEW d, NEW n \in Nat \ {0}, NEW w, SeenWell(d, n - 1, w)
    PROVE  SeenWell(d, n, WeighEvidence(w, d[n]))
<1> DEFINE e == d[n]
           v == WeighEvidence(w, e)
           count == Stagnation(w, e)
           failure == <<e.sig, FailureKey(e.result)>>
           stuck == count >= 3
           failing == e.result \in FailedTexts /\ failure \in w.failures
<1>1. /\ SigsSeen(d, n - 1, w) /\ Counted(d, n - 1, w) /\ FailuresSeen(d, n - 1, w)
      /\ RepeatsSeen(d, n - 1, w) /\ SignatureSeen(d, n - 1, w)
  BY DEF SeenWell
<1>2. /\ v.stagnant = [s \in DOMAIN w.stagnant \cup {e.sig} |->
                          IF s = e.sig THEN [result |-> e.result, count |-> count]
                                       ELSE w.stagnant[s]]
      /\ v.failures = IF e.result \in FailedTexts THEN w.failures \cup {failure} ELSE w.failures
      /\ v.repeatedCall = (w.repeatedCall \/ stuck)
      /\ v.repeatedFailure = (w.repeatedFailure \/ failing)
      /\ v.signature = IF failing \/ (stuck /\ w.signature = NoText) THEN e.sig ELSE w.signature
  BY DEF WeighEvidence
<1>3. /\ count \in Nat \ {0}
      /\ count >= 2 <=> \E i \in 1..(n - 1) : Again(d, i, n)
      /\ stuck <=> \E i, j \in 1..(n - 1) : Again(d, i, j) /\ Again(d, j, n)
  BY <1>1, CountOfNext
<1>4. 1..n = (1..(n - 1)) \cup {n}
  OBVIOUS
<1>5. failing <=> \E i \in 1..(n - 1) : SameFailure(d, i, n)
  <2>1. ASSUME NEW i \in 1..(n - 1), SameFailure(d, i, n) PROVE failing
    <3>1. <<d[i].sig, FailureKey(d[i].result)>> \in w.failures
      BY <1>1, <2>1 DEF FailuresSeen, SameFailure
    <3>2. QED
      BY <2>1, <3>1 DEF SameFailure
  <2>2. ASSUME failing PROVE \E i \in 1..(n - 1) : SameFailure(d, i, n)
    <3>1. PICK i \in 1..(n - 1) :
              d[i].result \in FailedTexts /\ failure = <<d[i].sig, FailureKey(d[i].result)>>
      BY <1>1, <2>2 DEF FailuresSeen
    <3>2. i < n /\ d[i].sig = e.sig /\ FailureKey(d[i].result) = FailureKey(e.result)
      BY <3>1
    <3>3. QED
      BY <2>2, <3>1, <3>2 DEF SameFailure
  <2>3. QED
    BY <2>1, <2>2
<1> HIDE DEF v, count, failing, stuck
<1>6. SigsSeen(d, n, v)
  <2>1. DOMAIN v.stagnant = DOMAIN w.stagnant \cup {e.sig}
    BY <1>2
  <2>2. {d[i].sig : i \in 1..n} = {d[i].sig : i \in 1..(n - 1)} \cup {d[n].sig}
    BY <1>4
  <2>3. QED
    BY <1>1, <2>1, <2>2 DEF SigsSeen
<1>7. FailuresSeen(d, n, v)
  <2> DEFINE F(i) == <<d[i].sig, FailureKey(d[i].result)>>
             B(i) == d[i].result \in FailedTexts
  <2>1. w.failures = {F(i) : i \in {x \in 1..(n - 1) : B(x)}}
    BY <1>1 DEF FailuresSeen
  <2>2. v.failures = IF B(n) THEN w.failures \cup {F(n)} ELSE w.failures
    BY <1>2
  <2> HIDE DEF F, B
  <2>3. v.failures = {F(i) : i \in {x \in 1..n : B(x)}}
    BY <1>4, <2>1, <2>2
  <2>4. QED
    BY <2>3 DEF FailuresSeen, F, B
<1>8. Counted(d, n, v)
  <2> SUFFICES ASSUME NEW j \in 1..n, LastTime(d, n, j) PROVE CountsWell(d, n, v, j)
    BY DEF Counted
  <2>1. CASE j = n
    <3>1. v.stagnant[d[j].sig] = [result |-> e.result, count |-> count]
      BY <1>2, <2>1
    <3>2. \A i \in 1..n : Again(d, i, n) => i \in 1..(n - 1)
      BY DEF Again, NextTime
    <3>3. (\E i \in 1..n : Again(d, i, n)) <=> \E i \in 1..(n - 1) : Again(d, i, n)
      BY <1>4, <3>2
    <3>4. QED
      BY <1>3, <2>1, <3>1, <3>3 DEF CountsWell
  <2>2. CASE j # n
    <3>1. j \in 1..(n - 1) /\ n \in (j + 1)..n
      BY <2>2
    <3>2. d[j].sig # e.sig
      BY <3>1 DEF LastTime
    <3>3. LastTime(d, n - 1, j)
      BY <3>1 DEF LastTime
    <3>4. CountsWell(d, n - 1, w, j)
      BY <1>1, <3>1, <3>3 DEF Counted
    <3>5. v.stagnant[d[j].sig] = w.stagnant[d[j].sig]
      BY <1>1, <1>2, <3>1, <3>2 DEF SigsSeen
    <3>6. \A i \in 1..n : Again(d, i, j) => i \in 1..(n - 1)
      BY DEF Again, NextTime
    <3>7. (\E i \in 1..n : Again(d, i, j)) <=> \E i \in 1..(n - 1) : Again(d, i, j)
      BY <1>4, <3>6
    <3>8. QED
      BY <3>4, <3>5, <3>7 DEF CountsWell
  <2>3. QED
    BY <2>1, <2>2
<1>9. \A s : StuckOn(d, n, s) <=> StuckOn(d, n - 1, s) \/ (s = e.sig /\ stuck)
  BY <1>3, StuckOnOneMore
<1>10. \A s : FailingOn(d, n, s) <=> FailingOn(d, n - 1, s) \/ (s = e.sig /\ failing)
  BY <1>5, FailingOnOneMore
<1>11. RepeatsSeen(d, n, v)
  <2>1. /\ w.repeatedCall \in BOOLEAN /\ w.repeatedFailure \in BOOLEAN
        /\ w.repeatedCall <=> \E s : StuckOn(d, n - 1, s)
        /\ w.repeatedFailure <=> \E s : FailingOn(d, n - 1, s)
    BY <1>1 DEF RepeatsSeen
  <2>2. stuck \in BOOLEAN /\ failing \in BOOLEAN
    BY DEF stuck, failing
  <2>3. v.repeatedCall \in BOOLEAN /\ v.repeatedFailure \in BOOLEAN
    BY <1>2, <2>1, <2>2
  <2>4. v.repeatedCall <=> \E s : StuckOn(d, n, s)
    BY <1>2, <1>9, <2>1, <2>2
  <2>5. v.repeatedFailure <=> \E s : FailingOn(d, n, s)
    BY <1>2, <1>10, <2>1, <2>2
  <2>6. QED
    BY <2>3, <2>4, <2>5 DEF RepeatsSeen
<1>12. SignatureSeen(d, n, v)
  <2>1. /\ w.signature # NoText => Repeats(w)
        /\ Repeats(w) => StuckOn(d, n - 1, w.signature) \/ FailingOn(d, n - 1, w.signature)
    BY <1>1 DEF SignatureSeen
  <2>2. Repeats(v) <=> Repeats(w) \/ stuck \/ failing
    BY <1>1, <1>2 DEF Repeats, RepeatsSeen, stuck, failing
  <2>3. CASE failing
    BY <1>2, <1>10, <2>2, <2>3 DEF SignatureSeen
  <2>4. CASE ~failing /\ stuck /\ w.signature = NoText
    BY <1>2, <1>9, <2>2, <2>4 DEF SignatureSeen
  <2>5. CASE ~failing /\ ~(stuck /\ w.signature = NoText)
    <3>1. v.signature = w.signature
      BY <1>2, <2>5
    <3>2. Repeats(v) => Repeats(w)
      BY <2>1, <2>2, <2>5
    <3>3. QED
      BY <1>9, <1>10, <2>1, <2>2, <3>1, <3>2 DEF SignatureSeen
  <2>6. QED
    BY <2>3, <2>4, <2>5
<1>13. QED
  BY <1>6, <1>7, <1>8, <1>11, <1>12 DEF SeenWell, v

---------------------------------------------------------------------------
(* The reading of all results.                                             *)

Reading(d, m, S) ==
    S = [k \in 0..m |-> IF k = 0 THEN NoProgressSeen ELSE WeighEvidence(S[k - 1], d[k])]

LEMMA ReadingExists ==
    ASSUME NEW d, NEW n \in Nat
    PROVE  \E S : Reading(d, n, S)
<1> DEFINE Bad == {m \in Nat : ~\E S : Reading(d, m, S)}
<1>1. SUFFICES ASSUME Bad # {} PROVE FALSE
  OBVIOUS
<1>2. PICK m \in Bad : \A j \in Bad : m <= j
  BY <1>1, LeastExists
<1>3. m # 0
  <2> DEFINE E == [k \in 0..0 |-> NoProgressSeen]
  <2>1. 0..0 = {0}
    OBVIOUS
  <2>2. E = [k \in 0..0 |-> IF k = 0 THEN NoProgressSeen ELSE WeighEvidence(E[k - 1], d[k])]
    BY <2>1
  <2>3. QED
    BY <2>2 DEF Reading
<1>4. m - 1 \in Nat /\ m - 1 \notin Bad
  BY <1>2, <1>3
<1>5. PICK G : Reading(d, m - 1, G)
  BY <1>4
<1> DEFINE e(k, H) == IF k = 0 THEN NoProgressSeen ELSE WeighEvidence(H[k - 1], d[k])
           F == [k \in 0..m |-> IF k < m THEN G[k] ELSE e(k, G)]
<1>6. ASSUME NEW k \in 0..m PROVE F[k] = e(k, F)
  <2>1. G = [i \in 0..(m - 1) |-> e(i, G)]
    BY <1>5 DEF Reading
  <2>2. k # 0 => F[k - 1] = G[k - 1]
    BY <1>4
  <2>3. e(k, F) = e(k, G)
    BY <2>2
  <2> HIDE DEF e
  <2>4. k \in 0..(m - 1) => G[k] = e(k, G)
    BY <2>1
  <2>5. F[k] = IF k < m THEN G[k] ELSE e(k, G)
    OBVIOUS
  <2>6. QED
    BY <1>4, <2>3, <2>4, <2>5
<1>7. F = [k \in 0..m |-> e(k, F)]
  <2> DEFINE C == [k \in 0..m |-> e(k, F)]
  <2>1. \A k \in 0..m : F[k] = C[k]
    BY <1>6
  <2>2. QED
    BY <2>1
<1>8. Reading(d, m, F)
  BY <1>7 DEF Reading
<1>9. QED
  BY <1>2, <1>8

LEMMA ReadingAt ==
    ASSUME NEW d, NEW n, NEW S, Reading(d, n, S), NEW k \in 0..n
    PROVE  S[k] = IF k = 0 THEN NoProgressSeen ELSE WeighEvidence(S[k - 1], d[k])
<1> DEFINE e(i) == IF i = 0 THEN NoProgressSeen ELSE WeighEvidence(S[i - 1], d[i])
<1>1. S = [i \in 0..n |-> e(i)]
  BY DEF Reading
<1> HIDE DEF e
<1>2. S[k] = e(k)
  BY <1>1
<1>3. QED
  BY <1>2 DEF e

LEMMA ReadingSeesWell ==
    ASSUME NEW d, NEW n \in Nat, NEW S, Reading(d, n, S)
    PROVE  SeenWell(d, n, S[n])
<1> DEFINE Bad == {k \in 0..n : ~SeenWell(d, k, S[k])}
<1>1. SUFFICES ASSUME Bad # {} PROVE FALSE
  OBVIOUS
<1>2. PICK k \in Bad : \A j \in Bad : k <= j
  <2>1. Bad \subseteq Nat
    OBVIOUS
  <2>2. QED
    BY <1>1, <2>1, LeastExists
<1>3. k # 0
  <2>1. 0 \in 0..n
    OBVIOUS
  <2>2. S[0] = NoProgressSeen
    BY <2>1, ReadingAt
  <2>3. QED
    BY <1>2, <2>2, NothingSeenWell
<1>4. k \in Nat \ {0} /\ k - 1 \in 0..n /\ k - 1 \notin Bad
  BY <1>2, <1>3
<1>5. SeenWell(d, k - 1, S[k - 1])
  BY <1>4
<1>6. S[k] = WeighEvidence(S[k - 1], d[k])
  BY <1>3, ReadingAt
<1>7. SeenWell(d, k, S[k])
  BY <1>4, <1>5, <1>6, OneMoreSeenWell
<1>8. QED
  BY <1>2, <1>7

LEMMA LedgerSeesWell ==
    ASSUME NEW h, Len(Completed(h)) \in Nat
    PROVE  SeenWell(Completed(h), Len(Completed(h)), AgentLedger(h))
<1> DEFINE d == Completed(h)
           n == Len(d)
           S == CHOOSE f : f = [k \in 0..n |-> IF k = 0 THEN NoProgressSeen
                                               ELSE WeighEvidence(f[k - 1], d[k])]
<1>1. \E f : f = [k \in 0..n |-> IF k = 0 THEN NoProgressSeen ELSE WeighEvidence(f[k - 1], d[k])]
  BY ReadingExists DEF Reading
<1>2. Reading(d, n, S)
  BY <1>1 DEF Reading
<1>3. AgentLedger(h) = S[n]
  BY DEF AgentLedger
<1>4. QED
  BY <1>2, <1>3, ReadingSeesWell

---------------------------------------------------------------------------
(* What a conversation is made of.                                         *)

Texts == UserTexts \cup Results \cup {"short", "done", NoText}

Call == [id : Nat \ {0}, sig : Signatures]

Shape == [role : PortableRoles, text : Texts, calls : Seq(Call), callId : Nat]

\* Only an assistant asks, for calls with IDs of their own and no more than are kept, only a
\* tool answers, and whoever does neither says something.
Sendable(m) ==
    /\ m.role # "assistant" => m.calls = <<>>
    /\ \A a, b \in DOMAIN m.calls : m.calls[a].id = m.calls[b].id => a = b
    /\ Len(m.calls) <= MaxPortableToolCalls
    /\ m.role = "tool" <=> m.callId # NoCall
    /\ m.role = "tool" \/ m.text # NoText \/ m.calls # <<>>

Message == {m \in Shape : Sendable(m)}

\* Every call has an ID, so none is dropped.
LEMMA NamedCallsAreAll ==
    ASSUME NEW calls \in Seq(Call)
    PROVE  NamedCalls(calls) = calls
<1>1. \A a \in DOMAIN calls : calls[a] \in Call
  BY ElementOfSeq
<1>2. \A c \in ToSet(calls) : c \in Call
  BY <1>1 DEF ToSet
<1>3. \A c \in ToSet(calls) : IsNamed(c)
  BY <1>2 DEF Call, NoCall, IsNamed
<1>4. QED
  BY <1>3 DEF NamedCalls

LEMMA AskedCallsAreCalls ==
    ASSUME NEW h \in Seq(Message)
    PROVE  AskedCalls(h) \in Seq(Call)
<1> DEFINE Asks(i) == IF h[i].role = "assistant" THEN NamedCalls(h[i].calls) ELSE <<>>
           all == [i \in DOMAIN h |-> Asks(i)]
<1>1. ASSUME NEW i \in DOMAIN h PROVE Asks(i) \in Seq(Call)
  <2>1. h[i] \in Message
    BY ElementOfSeq
  <2>2. h[i].calls \in Seq(Call)
    BY <2>1 DEF Message, Shape
  <2>3. NamedCalls(h[i].calls) \in Seq(Call)
    BY <2>2, NamedCallsAreAll
  <2>4. <<>> \in Seq(Call)
    OBVIOUS
  <2>5. QED
    BY <2>3, <2>4
<1>2. AskedCalls(h) = FlattenSeq(all)
  BY DEF AskedCalls
<1> HIDE DEF Asks
<1>3. all \in Seq(Seq(Call))
  BY <1>1, LenProperties
<1>4. FlattenSeq(all) \in Seq(Call)
  BY <1>3, FlattenIsASeq
<1>5. QED
  BY <1>2, <1>4

LEMMA ResultIsText ==
    ASSUME NEW h \in Seq(Message), NEW id
    PROVE  ResultOf(h, id) \in Texts
<1> DEFINE answers == {i \in DOMAIN h : h[i].role = "tool" /\ h[i].callId = id
                                         /\ i > LastAsked(h, id)}
<1>1. Len(h) \in Nat /\ answers \subseteq Nat /\ \A i \in answers : i <= Len(h)
  BY LenProperties
<1>2. CASE answers = {}
  BY <1>2 DEF ResultOf, Texts
<1>3. CASE answers # {}
  <2>1. Max(answers) \in answers
    BY <1>1, <1>3, MaxIsGreatest
  <2>2. h[Max(answers)] \in Message
    BY <2>1, ElementOfSeq
  <2>3. h[Max(answers)].text \in Texts
    BY <2>2 DEF Message, Shape
  <2>4. ResultOf(h, id) = h[Max(answers)].text
    BY <1>3 DEF ResultOf
  <2>5. QED
    BY <2>3, <2>4
<1>4. QED
  BY <1>2, <1>3

Proof == [id : Nat \ {0}, sig : Signatures, result : Texts]

LEMMA EvidenceIsTyped ==
    ASSUME NEW h \in Seq(Message)
    PROVE  Evidence(h) \in Seq(Proof)
<1> DEFINE asked == AskedCalls(h)
           same(i) == {j \in DOMAIN asked : asked[j].id = asked[i].id}
           e(i) == [id |-> asked[i].id, sig |-> asked[Max(same(i))].sig,
                    result |-> ResultOf(h, asked[i].id)]
<1>1. asked \in Seq(Call)
  BY AskedCallsAreCalls
<1> HIDE DEF asked
<1>2. Len(asked) \in Nat /\ DOMAIN asked = 1..Len(asked)
  BY <1>1, LenProperties
<1>3. ASSUME NEW i \in DOMAIN asked PROVE e(i) \in Proof
  <2>1. /\ same(i) \subseteq Nat /\ same(i) # {}
        /\ \A j \in same(i) : j <= Len(asked)
    BY <1>2
  <2>2. Max(same(i)) \in same(i)
    BY <1>2, <2>1, MaxIsGreatest
  <2>3. Max(same(i)) \in DOMAIN asked
    BY <2>2
  <2> HIDE DEF same
  <2>4. asked[i] \in Call /\ asked[Max(same(i))] \in Call
    BY <1>1, <2>3, ElementOfSeq
  <2>5. ResultOf(h, asked[i].id) \in Texts
    BY ResultIsText
  <2>6. QED
    BY <2>4, <2>5 DEF Call, Proof
<1>4. Evidence(h) = [i \in DOMAIN asked |-> e(i)]
  BY DEF Evidence, asked
<1> HIDE DEF e
<1>5. QED
  BY <1>2, <1>3, <1>4

LEMMA CompletedIsTyped ==
    ASSUME NEW h \in Seq(Message)
    PROVE  Completed(h) \in Seq(Proof)
<1> DEFINE all == Evidence(h)
           Sieve(i) == IF all[i].result # NoText THEN <<all[i]>> ELSE <<>>
           ss == [i \in DOMAIN all |-> Sieve(i)]
<1>1. all \in Seq(Proof)
  BY EvidenceIsTyped
<1>2. Completed(h) = FlattenSeq(ss)
  BY DEF Completed
<1> HIDE DEF all
<1>3. Len(all) \in Nat /\ DOMAIN all = 1..Len(all)
  BY <1>1, LenProperties
<1>4. ASSUME NEW i \in DOMAIN all PROVE Sieve(i) \in Seq(Proof)
  BY <1>1, ElementOfSeq
<1> HIDE DEF Sieve
<1>5. ss \in Seq(Seq(Proof))
  BY <1>3, <1>4
<1>6. QED
  BY <1>2, <1>5, FlattenIsASeq

LEMMA PendingIsTyped ==
    ASSUME NEW h \in Seq(Message)
    PROVE  Pending(h) \in Seq(Proof)
<1> DEFINE all == Evidence(h)
           Sieve(i) == IF all[i].result = NoText THEN <<all[i]>> ELSE <<>>
           ss == [i \in DOMAIN all |-> Sieve(i)]
<1>1. all \in Seq(Proof)
  BY EvidenceIsTyped
<1>2. Pending(h) = FlattenSeq(ss)
  BY DEF Pending
<1> HIDE DEF all
<1>3. Len(all) \in Nat /\ DOMAIN all = 1..Len(all)
  BY <1>1, LenProperties
<1>4. ASSUME NEW i \in DOMAIN all PROVE Sieve(i) \in Seq(Proof)
  BY <1>1, ElementOfSeq
<1> HIDE DEF Sieve
<1>5. ss \in Seq(Seq(Proof))
  BY <1>3, <1>4
<1>6. QED
  BY <1>2, <1>5, FlattenIsASeq

LEMMA BoundExists ==
    ASSUME NEW s, NEW n \in Nat, \A i \in 1..n : s[i] \in Nat
    PROVE  \E b \in Nat : \A i \in 1..n : s[i] <= b
<1> DEFINE Bounded(m) == \E b \in Nat : \A i \in 1..m : s[i] <= b
           Bad == {m \in 0..n : ~Bounded(m)}
<1>1. SUFFICES ASSUME Bad # {} PROVE FALSE
  <2> HIDE DEF Bounded
  <2>1. n \in 0..n
    OBVIOUS
  <2>2. Bounded(n) => \E b \in Nat : \A i \in 1..n : s[i] <= b
    BY DEF Bounded
  <2>3. QED
    BY <2>1, <2>2
<1>2. PICK m \in Bad : \A j \in Bad : m <= j
  <2>1. Bad \subseteq Nat
    OBVIOUS
  <2>2. QED
    BY <1>1, <2>1, LeastExists
<1>3. m # 0
  <2>1. \A i \in 1..0 : s[i] <= 0
    OBVIOUS
  <2>2. QED
    BY <1>2, <2>1
<1>4. m - 1 \in 0..n /\ m - 1 \notin Bad /\ m \in 1..n
  <2> HIDE DEF Bounded
  <2>1. QED
    BY <1>2, <1>3
<1>5. PICK b \in Nat : \A i \in 1..(m - 1) : s[i] <= b
  BY <1>4
<1>6. PICK c \in Nat : b <= c /\ s[m] <= c
  <2>1. b + s[m] \in Nat /\ b <= b + s[m] /\ s[m] <= b + s[m]
    BY <1>4
  <2>2. QED
    BY <2>1
<1>7. \A i \in 1..m : s[i] <= c
  <2>1. ASSUME NEW i \in 1..m PROVE s[i] <= c
    <3>1. i = m \/ i \in 1..(m - 1)
      BY <1>4
    <3>2. s[i] \in Nat
      BY <1>4
    <3>3. QED
      BY <1>5, <1>6, <3>1, <3>2
  <2>2. QED
    BY <2>1
<1>8. QED
  BY <1>2, <1>7

LEMMA LastCallIsANumber ==
    ASSUME messages \in Seq(Message)
    PROVE  LastCall \in Nat
<1> DEFINE asked == AskedCalls(messages)
           ids == {c.id : c \in ToSet(asked)} \cup {NoCall}
           n == Len(asked)
           s == [i \in 1..n |-> asked[i].id]
<1>1. asked \in Seq(Call)
  BY AskedCallsAreCalls
<1>2. LastCall = Max(ids)
  BY DEF LastCall
<1> HIDE DEF asked
<1>3. n \in Nat /\ DOMAIN asked = 1..n /\ \A i \in 1..n : asked[i] \in Call
  BY <1>1, LenProperties, ElementOfSeq
<1>4. \A i \in 1..n : s[i] \in Nat /\ s[i] = asked[i].id
  BY <1>3 DEF Call
<1>5. PICK b \in Nat : \A i \in 1..n : s[i] <= b
  <2> HIDE DEF s
  <2>1. QED
    BY <1>3, <1>4, BoundExists
<1>6. ids = {asked[i].id : i \in 1..n} \cup {0}
  BY <1>3 DEF ToSet, NoCall
<1> HIDE DEF ids
<1>7. ids \subseteq Nat /\ ids # {} /\ \A x \in ids : x <= b
  <2>1. \A i \in 1..n : asked[i].id \in Nat /\ asked[i].id <= b
    BY <1>4, <1>5
  <2>2. QED
    BY <1>5, <1>6, <2>1
<1>8. Max(ids) \in ids
  BY <1>7, MaxIsGreatest
<1>9. QED
  BY <1>2, <1>7, <1>8

---------------------------------------------------------------------------
(* The conversation stays typed, and its ledger is right.                  *)

\* Every message is one a client can send: its calls have an ID and a signature.
ConversationTyped == messages \in Seq(Message)

LEMMA StartIsTyped == Init => ConversationTyped
BY DEF Init, ConversationTyped

LEMMA SendKeepsTyped ==
    ASSUME ConversationTyped, NEW m \in Message, Send(m)
    PROVE  ConversationTyped'
BY DEF ConversationTyped, Send

LEMMA SaidIsMessage ==
    ASSUME NEW role \in PortableRoles \ {"tool"}, NEW text \in UserTexts \cup {"short"}
    PROVE  [role |-> role, text |-> text, calls |-> <<>>, callId |-> NoCall] \in Message
<1> DEFINE none == <<>>
           m == [role |-> role, text |-> text, calls |-> none, callId |-> NoCall]
<1>1. none \in Seq(Call) /\ Len(none) = 0 /\ DOMAIN none = {}
  OBVIOUS
<1>2. text # NoText /\ 0 <= MaxPortableToolCalls
  BY ConversationAssumption, LimitsAssumption DEF NoText
<1>3. m \in Shape
  BY <1>1 DEF Shape, Texts, NoCall
<1>4. Sendable(m)
  BY <1>1, <1>2 DEF Sendable
<1>5. QED
  BY <1>3, <1>4 DEF Message

LEMMA AskedIsMessage ==
    ASSUME NEW calls \in Seq(Call), calls # <<>>, Len(calls) <= MaxPortableToolCalls,
           \A a, b \in DOMAIN calls : calls[a].id = calls[b].id => a = b
    PROVE  AssistantMessage(NoText, calls) \in Message
<1>1. AssistantMessage(NoText, calls) \in Shape
  BY DEF AssistantMessage, Shape, PortableRoles, Texts, NoCall
<1>2. Sendable(AssistantMessage(NoText, calls))
  BY DEF AssistantMessage, Sendable
<1>3. QED
  BY <1>1, <1>2 DEF Message

LEMMA ReturnedIsMessage ==
    ASSUME NEW id \in Nat \ {0}, NEW text \in Texts
    PROVE  ToolMessage(id, text) \in Message
<1> DEFINE none == <<>>
           m == [role |-> "tool", text |-> text, calls |-> none, callId |-> id]
<1>1. none \in Seq(Call) /\ Len(none) = 0 /\ DOMAIN none = {}
  OBVIOUS
<1>2. 0 <= MaxPortableToolCalls
  BY LimitsAssumption
<1>3. m \in Shape
  BY <1>1 DEF Shape, PortableRoles
<1>4. Sendable(m)
  BY <1>1, <1>2 DEF Sendable, NoCall
<1>5. ToolMessage(id, text) = m
  BY DEF ToolMessage
<1>6. QED
  BY <1>3, <1>4, <1>5 DEF Message

LEMMA StepKeepsTyped == ConversationTyped /\ [Next]_vars => ConversationTyped'
<1> SUFFICES ASSUME ConversationTyped, [Next]_vars PROVE ConversationTyped'
  OBVIOUS
<1>0. LastCall \in Nat
  BY LastCallIsANumber DEF ConversationTyped
<1>1. CASE Instruct
  <2>1. [UserMessage("short") EXCEPT !.role = "system"]
           = [role |-> "system", text |-> "short", calls |-> <<>>, callId |-> NoCall]
    BY DEF UserMessage
  <2>2. [UserMessage("short") EXCEPT !.role = "system"] \in Message
    BY <2>1, SaidIsMessage DEF PortableRoles
  <2>3. QED
    BY <1>1, <2>2, SendKeepsTyped DEF Instruct
<1>2. ASSUME NEW text \in UserTexts, UserSays(text) PROVE ConversationTyped'
  <2>1. UserMessage(text) \in Message
    BY SaidIsMessage DEF UserMessage, PortableRoles
  <2>2. QED
    BY <1>2, <2>1, SendKeepsTyped DEF UserSays
<1>3. ASSUME NEW text \in UserTexts, AssistantAnswers(text) PROVE ConversationTyped'
  <2>1. AssistantMessage(text, <<>>) \in Message
    BY SaidIsMessage DEF AssistantMessage, PortableRoles
  <2>2. QED
    BY <1>3, <2>1, SendKeepsTyped DEF AssistantAnswers
<1>4. ASSUME NEW n \in 1..MaxParallel, NEW sigs \in [1..n -> Signatures], AssistantCalls(sigs)
      PROVE  ConversationTyped'
  <2> DEFINE calls == [i \in DOMAIN sigs |-> [id |-> LastCall + i, sig |-> sigs[i]]]
  <2>1. n \in Nat \ {0} /\ DOMAIN sigs = 1..n /\ n <= MaxPortableToolCalls
    BY ConversationAssumption, LimitsAssumption
  <2>2. \A i \in 1..n : [id |-> LastCall + i, sig |-> sigs[i]] \in Call
    BY <1>0, <2>1 DEF Call
  <2>3. /\ calls \in Seq(Call) /\ Len(calls) = n /\ DOMAIN calls = 1..n
        /\ \A i \in 1..n : calls[i].id = LastCall + i
    BY <2>1, <2>2
  <2>4. Send(AssistantMessage(NoText, calls))
    BY <1>4 DEF AssistantCalls
  <2> HIDE DEF calls
  <2>5. \A a, b \in DOMAIN calls : calls[a].id = calls[b].id => a = b
    BY <1>0, <2>1, <2>3
  <2>6. calls # <<>>
    BY <2>1, <2>3, EmptySeq
  <2>7. AssistantMessage(NoText, calls) \in Message
    BY <2>1, <2>3, <2>5, <2>6, AskedIsMessage
  <2>8. QED
    BY <2>4, <2>7, SendKeepsTyped
<1>5. ASSUME NEW id \in Open, NEW text \in Results, ToolReturns(id, text) PROVE ConversationTyped'
  <2>1. Pending(messages) \in Seq(Proof)
    BY PendingIsTyped DEF ConversationTyped
  <2>2. PICK e \in ToSet(Pending(messages)) : id = e.id
    BY DEF Open
  <2>3. e \in Proof
    <3> DEFINE p == Pending(messages)
    <3>1. p \in Seq(Proof) /\ \E i \in DOMAIN p : e = p[i]
      BY <2>1, <2>2 DEF ToSet
    <3> HIDE DEF p
    <3>2. QED
      BY <3>1, ElementOfSeq
  <2>4. id \in Nat \ {0}
    BY <2>2, <2>3 DEF Proof
  <2>5. ToolMessage(id, text) \in Message
    BY <2>4, ReturnedIsMessage DEF Texts
  <2>6. QED
    BY <1>5, <2>5, SendKeepsTyped DEF ToolReturns
<1>6. ASSUME NEW m \in StrayMessages, Stray(m) PROVE ConversationTyped'
  <2>1. ASSUME NEW id \in 1..(LastCall + 1) PROVE ToolMessage(id, "done") \in Message
    BY <1>0, ReturnedIsMessage DEF Texts
  <2>2. ASSUME NEW id \in 1..LastCall, NEW s \in Signatures
        PROVE  AssistantMessage(NoText, <<[id |-> id, sig |-> s]>>) \in Message
    <3> DEFINE c == [id |-> id, sig |-> s]
               calls == <<c>>
    <3>1. c \in Call
      BY <1>0 DEF Call
    <3> HIDE DEF c
    <3>2. calls \in Seq(Call) /\ Len(calls) = 1 /\ DOMAIN calls = {1} /\ calls # <<>>
      BY <3>1
    <3>3. Len(calls) <= MaxPortableToolCalls
      BY <3>2, LimitsAssumption
    <3> HIDE DEF calls
    <3>4. AssistantMessage(NoText, calls) \in Message
      BY <3>2, <3>3, AskedIsMessage
    <3>5. QED
      BY <3>4 DEF calls, c
  <2>3. UserMessage("short") \in Message
    BY SaidIsMessage DEF UserMessage, PortableRoles
  <2>4. m \in Message
    <3> DEFINE Orphans == {ToolMessage(id, "done") : id \in (1..(LastCall + 1)) \ Open}
               Reuse(id, s) == AssistantMessage(NoText, <<[id |-> id, sig |-> s]>>)
               Reuses == {Reuse(id, s) : id \in 1..LastCall, s \in Signatures}
               CutsIn == IF Open = {} THEN {} ELSE {UserMessage("short")}
    <3>1. StrayMessages = Orphans \cup Reuses \cup CutsIn
      BY DEF StrayMessages
    <3>2. Orphans \subseteq Message
      BY <2>1
    <3>3. Reuses \subseteq Message
      <4>1. \A id \in 1..LastCall, s \in Signatures : Reuse(id, s) \in Message
        BY <2>2
      <4> HIDE DEF Reuse
      <4>2. QED
        BY <4>1
    <3>4. CutsIn \subseteq Message
      BY <2>3
    <3> HIDE DEF Orphans, Reuses, CutsIn
    <3>5. QED
      BY <1>6, <3>1, <3>2, <3>3, <3>4
  <2>5. QED
    BY <1>6, <2>4, SendKeepsTyped DEF Stray
<1>7. CASE UNCHANGED vars
  BY <1>7 DEF vars, ConversationTyped
<1>8. QED
  BY <1>1, <1>2, <1>3, <1>4, <1>5, <1>6, <1>7 DEF Next

\* Every message of a conversation is typed, whatever the client sends: its calls have an ID
\* and a signature, and what it answers is a call's ID (portableMessage).
THEOREM ConversationsAreTyped == Spec => []ConversationTyped
BY StartIsTyped, StepKeepsTyped, PTL DEF Spec

LEMMA LedgerIsRight == ConversationTyped => OnlyStuckCallsAreHeldBack
<1> SUFFICES ASSUME ConversationTyped PROVE OnlyStuckCallsAreHeldBack
  OBVIOUS
<1> DEFINE d == Completed(messages)
           n == Len(d)
           w == AgentLedger(messages)
<1>1. d \in Seq(Proof)
  BY CompletedIsTyped DEF ConversationTyped
<1>2. n \in Nat /\ DOMAIN d = 1..n /\ \A i \in 1..n : d[i].sig \in Signatures
  <2> HIDE DEF d
  <2>1. n \in Nat /\ DOMAIN d = 1..n /\ \A i \in 1..n : d[i] \in Proof
    BY <1>1, LenProperties, ElementOfSeq
  <2>2. QED
    BY <2>1 DEF Proof
<1>3. RepeatsSeen(d, n, w) /\ SignatureSeen(d, n, w)
  BY <1>2, LedgerSeesWell DEF SeenWell
<1> DEFINE next(i, j) == i < j /\ d[i].sig = d[j].sig
                               /\ \A k \in (i + 1)..(j - 1) : d[k].sig # d[i].sig
           stuck(s) == \E i, j, k \in DOMAIN d :
                          /\ d[i].sig = s /\ next(i, j) /\ next(j, k)
                          /\ d[i].result = d[j].result /\ d[j].result = d[k].result
           failing(s) == \E i, j \in DOMAIN d :
                            /\ i < j /\ d[i].sig = s /\ d[j].sig = s
                            /\ {d[i].result, d[j].result} \subseteq FailedTexts
                            /\ FailureKey(d[i].result) = FailureKey(d[j].result)
<1>4. OnlyStuckCallsAreHeldBack <=>
         /\ w.repeatedCall <=> \E s \in Signatures : stuck(s)
         /\ w.repeatedFailure <=> \E s \in Signatures : failing(s)
         /\ \A s \in Signatures : BlocksRepeatedToolCall(w, s) => stuck(s) \/ failing(s)
  BY ZenonT(30) DEF OnlyStuckCallsAreHeldBack
<1> HIDE DEF d, w
<1>5. \A s : stuck(s) <=> StuckOn(d, n, s)
  BY <1>2 DEF StuckOn, Again, NextTime
<1>6. \A s : failing(s) <=> FailingOn(d, n, s)
  BY <1>2 DEF FailingOn, SameFailure
<1>7. \A s : StuckOn(d, n, s) \/ FailingOn(d, n, s) => s \in Signatures
  BY <1>2 DEF StuckOn, FailingOn
<1> HIDE DEF stuck, failing
<1>8. w.repeatedCall <=> \E s \in Signatures : stuck(s)
  BY <1>3, <1>5, <1>7 DEF RepeatsSeen
<1>9. w.repeatedFailure <=> \E s \in Signatures : failing(s)
  BY <1>3, <1>6, <1>7 DEF RepeatsSeen
<1>10. \A s \in Signatures : BlocksRepeatedToolCall(w, s) => stuck(s) \/ failing(s)
  BY <1>3, <1>5, <1>6 DEF SignatureSeen, Repeats, BlocksRepeatedToolCall
<1>11. QED
  BY <1>4, <1>8, <1>9, <1>10

\* The ledger calls a call stuck exactly when it has returned one result three times in a row,
\* failing exactly when it has returned one failure twice, and holds back only such calls
\* (buildAgentLedger, removeRepeatedToolCalls).
THEOREM HeldBackOnlyWhenStuck == Spec => []OnlyStuckCallsAreHeldBack
<1>1. ConversationTyped => OnlyStuckCallsAreHeldBack
  BY LedgerIsRight
<1>2. QED
  BY <1>1, ConversationsAreTyped, PTL

---------------------------------------------------------------------------
(* Reading a conversation against the tool protocol.                       *)

\* i is the last message before j that no tool sent.
Leads(h, i, j) ==
    /\ i \in 1..(j - 1)
    /\ h[i].role # "tool"
    /\ \A k \in (i + 1)..(j - 1) : h[k].role = "tool"

\* Just before message j the call x has no result yet.
Waits(h, j, x) ==
    \E i \in 1..(j - 1) :
        Leads(h, i, j) /\ x \in CallIds(h[i]) /\ \A k \in (i + 1)..(j - 1) : h[k].callId # x

\* What the protocol demands of message j, given those before it.
Follows(h, j) ==
    /\ h[j].role = "tool" => Waits(h, j, h[j].callId)
    /\ h[j].role # "tool" =>
          /\ \A x : ~Waits(h, j, x)
          /\ \A i \in 1..(j - 1) : CallIds(h[i]) \cap CallIds(h[j]) = {}

AllFollow(h, n) == \A j \in 1..n : Follows(h, j)

Asked(h, n, x) == \E i \in 1..n : x \in CallIds(h[i])

ReadWell(h, n, r) ==
    /\ r.valid \in BOOLEAN
    /\ r.valid <=> AllFollow(h, n)
    /\ r.valid => /\ \A x : x \in r.pending <=> Waits(h, n + 1, x)
                  /\ \A x : x \in r.completed <=> Asked(h, n, x) /\ x \notin r.pending

LEMMA CallIdsAre ==
    ASSUME NEW m \in Message
    PROVE  /\ CallIds(m) = {m.calls[a].id : a \in DOMAIN m.calls}
           /\ CallIds(m) \subseteq Nat \ {0}
           /\ m.role # "assistant" => CallIds(m) = {}
           /\ m.calls = <<>> <=> CallIds(m) = {}
           /\ IsFiniteSet(CallIds(m)) /\ Cardinality(CallIds(m)) = Len(m.calls)
<1> DEFINE calls == m.calls
           n == Len(calls)
           f == [a \in DOMAIN calls |-> calls[a].id]
<1>1. calls \in Seq(Call) /\ Sendable(m)
  BY DEF Message, Shape
<1>2. /\ n \in Nat /\ DOMAIN calls = 1..n /\ \A a \in 1..n : calls[a] \in Call
      /\ m.role # "assistant" => calls = <<>>
      /\ \A a, b \in 1..n : calls[a].id = calls[b].id => a = b
      /\ calls = <<>> <=> n = 0
  <2>1. n \in Nat /\ DOMAIN calls = 1..n /\ \A a \in 1..n : calls[a] \in Call
    BY <1>1, LenProperties, ElementOfSeq
  <2>2. calls = <<>> <=> n = 0
    BY <1>1, EmptySeq
  <2>3. QED
    BY <1>1, <2>1, <2>2 DEF Sendable
<1>3. CallIds(m) = {f[a] : a \in DOMAIN f}
  BY DEF CallIds, ToSet
<1> HIDE DEF calls, n
<1>4. f \in [1..n -> CallIds(m)] /\ CallIds(m) = {f[a] : a \in 1..n} /\ \A a \in 1..n : f[a] = calls[a].id
  BY <1>2, <1>3
<1>5. f \in Bijection(1..n, CallIds(m))
  <2> HIDE DEF f
  <2>1. \A a, b \in 1..n : f[a] = f[b] => a = b
    BY <1>2, <1>4
  <2>2. \A x \in CallIds(m) : \E a \in 1..n : f[a] = x
    BY <1>4
  <2>3. QED
    BY <1>4, <2>1, <2>2 DEF Bijection, Injection, Surjection, IsInjective
<1>6. IsFiniteSet(1..n) /\ Cardinality(1..n) = n
  BY <1>2, FS_Interval
<1>7. IsFiniteSet(CallIds(m)) /\ Cardinality(CallIds(m)) = n
  BY <1>5, <1>6, FS_Bijection DEF ExistsBijection
<1>8. CallIds(m) \subseteq Nat \ {0}
  BY <1>2, <1>4 DEF Call
<1>9. CallIds(m) = {} <=> n = 0
  <2> HIDE DEF f
  <2>1. n # 0 => 1 \in 1..n /\ f[1] \in CallIds(m)
    BY <1>2, <1>4
  <2>2. n = 0 => 1..n = {}
    OBVIOUS
  <2>3. QED
    BY <1>4, <2>1, <2>2
<1>10. CallIds(m) = {calls[a].id : a \in DOMAIN calls}
  BY <1>2, <1>4
<1>11. m.role # "assistant" => CallIds(m) = {}
  BY <1>2, <1>9
<1>12. calls = <<>> <=> CallIds(m) = {}
  BY <1>2, <1>9
<1>13. QED
  BY <1>7, <1>8, <1>10, <1>11, <1>12 DEF calls, n

LEMMA WaitsAfterTool ==
    ASSUME NEW h, NEW n \in Nat \ {0}, h[n].role = "tool", NEW x
    PROVE  Waits(h, n + 1, x) <=> Waits(h, n, x) /\ h[n].callId # x
<1>1. ASSUME NEW i \in 1..(n - 1) PROVE Leads(h, i, n + 1) <=> Leads(h, i, n)
  BY DEF Leads
<1>2. ~Leads(h, n, n + 1)
  BY DEF Leads
<1>3. 1..n = (1..(n - 1)) \cup {n} /\ n + 1 - 1 = n
  OBVIOUS
<1>4. ASSUME NEW i \in 1..(n - 1)
      PROVE  (\A k \in (i + 1)..n : h[k].callId # x)
                <=> (\A k \in (i + 1)..(n - 1) : h[k].callId # x) /\ h[n].callId # x
  <2>1. (i + 1)..n = ((i + 1)..(n - 1)) \cup {n}
    OBVIOUS
  <2>2. QED
    BY <2>1
<1>5. QED
  BY <1>1, <1>2, <1>3, <1>4 DEF Waits

LEMMA WaitsAfterOther ==
    ASSUME NEW h, NEW n \in Nat \ {0}, h[n].role # "tool", NEW x
    PROVE  Waits(h, n + 1, x) <=> x \in CallIds(h[n])
<1>1. ASSUME NEW i \in 1..n, Leads(h, i, n + 1) PROVE i = n
  BY <1>1 DEF Leads
<1>2. Leads(h, n, n + 1) /\ n \in 1..(n + 1 - 1) /\ n + 1 - 1 = n
  BY DEF Leads
<1>3. (n + 1)..n = {}
  OBVIOUS
<1>4. QED
  BY <1>1, <1>2, <1>3 DEF Waits

LEMMA NothingReadWell == ASSUME NEW h PROVE ReadWell(h, 0, NothingRead)
<1>1. 1..0 = {} /\ 1..(0 + 1 - 1) = {}
  OBVIOUS
<1>2. AllFollow(h, 0) /\ \A x : ~Waits(h, 0 + 1, x) /\ ~Asked(h, 0, x)
  BY <1>1 DEF AllFollow, Waits, Asked
<1>3. QED
  BY <1>2 DEF ReadWell, NothingRead

LEMMA OneMoreReadWell ==
    ASSUME NEW h, NEW n \in Nat \ {0}, h[n] \in Message, NEW r, ReadWell(h, n - 1, r)
    PROVE  ReadWell(h, n, ReadMessage(r, h[n]))
<1> DEFINE m == h[n]
           v == ReadMessage(r, m)
<1>1. 1..n = (1..(n - 1)) \cup {n} /\ n - 1 + 1 = n
  OBVIOUS
<1>2. /\ r.valid \in BOOLEAN
      /\ r.valid <=> AllFollow(h, n - 1)
      /\ r.valid => /\ \A x : x \in r.pending <=> Waits(h, n, x)
                    /\ \A x : x \in r.completed <=> Asked(h, n - 1, x) /\ x \notin r.pending
  BY <1>1 DEF ReadWell
<1>3. AllFollow(h, n) <=> AllFollow(h, n - 1) /\ Follows(h, n)
  BY <1>1 DEF AllFollow
<1>4. \A x : Asked(h, n, x) <=> Asked(h, n - 1, x) \/ x \in CallIds(m)
  BY <1>1 DEF Asked
<1>5. /\ CallIds(m) \subseteq Nat \ {0}
      /\ m.role # "assistant" => CallIds(m) = {}
      /\ Cardinality(CallIds(m)) = Len(m.calls)
  BY CallIdsAre
<1>6. CASE m.role = "tool"
  <2>1. v = [pending   |-> r.pending \ {m.callId},
             completed |-> r.completed \cup {m.callId},
             valid     |-> r.valid /\ m.callId # NoCall /\ m.callId \in r.pending]
    BY <1>6 DEF ReadMessage, ReadTool
  <2>2. m.callId # NoCall
    BY <1>6 DEF Message, Sendable
  <2>3. /\ v.pending = r.pending \ {m.callId} /\ v.completed = r.completed \cup {m.callId}
        /\ v.valid <=> r.valid /\ m.callId \in r.pending
        /\ v.valid \in BOOLEAN
    <3> HIDE DEF v, m
    <3>1. /\ v.pending = r.pending \ {m.callId} /\ v.completed = r.completed \cup {m.callId}
          /\ v.valid = (r.valid /\ m.callId # NoCall /\ m.callId \in r.pending)
      BY <2>1
    <3>2. QED
      BY <1>2, <2>2, <3>1
  <2>4. Follows(h, n) <=> Waits(h, n, m.callId)
    BY <1>6 DEF Follows
  <2>5. v.valid <=> AllFollow(h, n)
    BY <1>2, <1>3, <2>3, <2>4
  <2>6. \A x : Waits(h, n + 1, x) <=> Waits(h, n, x) /\ m.callId # x
    BY <1>6, WaitsAfterTool
  <2>7. CallIds(m) = {}
    BY <1>5, <1>6
  <2>8. ASSUME Waits(h, n, m.callId) PROVE Asked(h, n - 1, m.callId)
    BY <2>8 DEF Waits, Asked
  <2> HIDE DEF v, m
  <2>9. ASSUME v.valid, NEW x PROVE x \in v.pending <=> Waits(h, n + 1, x)
    BY <1>2, <2>3, <2>6, <2>9
  <2>10. ASSUME v.valid, NEW x PROVE x \in v.completed <=> Asked(h, n, x) /\ x \notin v.pending
    BY <1>2, <1>4, <2>3, <2>7, <2>8, <2>10
  <2>11. QED
    BY <2>3, <2>5, <2>9, <2>10 DEF ReadWell, v, m
<1>7. CASE m.role # "tool"
  <2>1. \A x : Waits(h, n + 1, x) <=> x \in CallIds(m)
    BY <1>7, WaitsAfterOther
  <2>2. Follows(h, n) <=> /\ \A x : ~Waits(h, n, x)
                          /\ \A i \in 1..(n - 1) : CallIds(h[i]) \cap CallIds(m) = {}
    BY <1>7 DEF Follows
  <2>3. CASE r.pending # {}
    <3>1. v.valid = FALSE
      BY <1>7, <2>3 DEF ReadMessage
    <3>2. ~AllFollow(h, n)
      BY <1>2, <1>3, <2>2, <2>3
    <3>3. QED
      BY <3>1, <3>2 DEF ReadWell
  <2>4. CASE r.pending = {}
    <3>1. /\ v.pending = r.pending \cup CallIds(m) /\ v.completed = r.completed
          /\ v.valid <=> r.valid /\ CallIds(m) \cap r.completed = {}
          /\ v.valid \in BOOLEAN
      <4>1. CASE m.role = "assistant"
        <5>1. v = ReadAssistant(r, m)
          BY <2>4, <4>1 DEF ReadMessage
        <5>2. /\ v.pending = r.pending \cup CallIds(m) /\ v.completed = r.completed
              /\ v.valid = (/\ r.valid
                            /\ NoCall \notin CallIds(m)
                            /\ Cardinality(CallIds(m)) = Len(m.calls)
                            /\ CallIds(m) \cap r.completed = {})
          BY <5>1 DEF ReadAssistant
        <5>3. NoCall \notin CallIds(m)
          BY <1>5 DEF NoCall
        <5>4. QED
          BY <1>2, <1>5, <5>2, <5>3
      <4>2. CASE m.role # "assistant"
        <5>1. v = r
          BY <1>7, <2>4, <4>2 DEF ReadMessage
        <5>2. CallIds(m) = {}
          BY <1>5, <4>2
        <5>3. QED
          BY <1>2, <5>1, <5>2
      <4>3. QED
        BY <4>1, <4>2
    <3> HIDE DEF v, m
    <3>2. ASSUME r.valid
          PROVE  CallIds(m) \cap r.completed = {}
                    <=> \A i \in 1..(n - 1) : CallIds(h[i]) \cap CallIds(m) = {}
      BY <1>2, <2>4, <3>2 DEF Asked
    <3>3. v.valid <=> AllFollow(h, n)
      BY <1>2, <1>3, <2>2, <2>4, <3>1, <3>2
    <3>4. ASSUME v.valid, NEW x PROVE x \in v.pending <=> Waits(h, n + 1, x)
      BY <2>1, <2>4, <3>1
    <3>5. ASSUME v.valid, NEW x PROVE x \in v.completed <=> Asked(h, n, x) /\ x \notin v.pending
      BY <1>2, <1>4, <2>4, <3>1, <3>5
    <3>6. QED
      BY <3>1, <3>3, <3>4, <3>5 DEF ReadWell, v, m
  <2>5. QED
    BY <2>3, <2>4
<1>8. QED
  BY <1>6, <1>7

ReadingIn(h, m, S) ==
    S = [k \in 0..m |-> IF k = 0 THEN NothingRead ELSE ReadMessage(S[k - 1], h[k])]

LEMMA ReadingInExists ==
    ASSUME NEW h, NEW n \in Nat
    PROVE  \E S : ReadingIn(h, n, S)
<1> DEFINE Bad == {m \in Nat : ~\E S : ReadingIn(h, m, S)}
<1>1. SUFFICES ASSUME Bad # {} PROVE FALSE
  OBVIOUS
<1>2. PICK m \in Bad : \A j \in Bad : m <= j
  BY <1>1, LeastExists
<1>3. m # 0
  <2> DEFINE E == [k \in 0..0 |-> NothingRead]
  <2>1. 0..0 = {0}
    OBVIOUS
  <2>2. E = [k \in 0..0 |-> IF k = 0 THEN NothingRead ELSE ReadMessage(E[k - 1], h[k])]
    BY <2>1
  <2>3. QED
    BY <2>2 DEF ReadingIn
<1>4. m - 1 \in Nat /\ m - 1 \notin Bad
  BY <1>2, <1>3
<1>5. PICK G : ReadingIn(h, m - 1, G)
  BY <1>4
<1> DEFINE e(k, H) == IF k = 0 THEN NothingRead ELSE ReadMessage(H[k - 1], h[k])
           F == [k \in 0..m |-> IF k < m THEN G[k] ELSE e(k, G)]
<1>6. ASSUME NEW k \in 0..m PROVE F[k] = e(k, F)
  <2>1. G = [i \in 0..(m - 1) |-> e(i, G)]
    BY <1>5 DEF ReadingIn
  <2>2. k # 0 => F[k - 1] = G[k - 1]
    BY <1>4
  <2>3. e(k, F) = e(k, G)
    BY <2>2
  <2> HIDE DEF e
  <2>4. k \in 0..(m - 1) => G[k] = e(k, G)
    BY <2>1
  <2>5. F[k] = IF k < m THEN G[k] ELSE e(k, G)
    OBVIOUS
  <2>6. QED
    BY <1>4, <2>3, <2>4, <2>5
<1>7. F = [k \in 0..m |-> e(k, F)]
  <2> DEFINE C == [k \in 0..m |-> e(k, F)]
  <2>1. \A k \in 0..m : F[k] = C[k]
    BY <1>6
  <2>2. QED
    BY <2>1
<1>8. ReadingIn(h, m, F)
  BY <1>7 DEF ReadingIn
<1>9. QED
  BY <1>2, <1>8

LEMMA ReadingInAt ==
    ASSUME NEW h, NEW n, NEW S, ReadingIn(h, n, S), NEW k \in 0..n
    PROVE  S[k] = IF k = 0 THEN NothingRead ELSE ReadMessage(S[k - 1], h[k])
<1> DEFINE e(i) == IF i = 0 THEN NothingRead ELSE ReadMessage(S[i - 1], h[i])
<1>1. S = [i \in 0..n |-> e(i)]
  BY DEF ReadingIn
<1> HIDE DEF e
<1>2. S[k] = e(k)
  BY <1>1
<1>3. QED
  BY <1>2 DEF e

LEMMA ReadingInReadsWell ==
    ASSUME NEW h, NEW n \in Nat, \A k \in 1..n : h[k] \in Message, NEW S, ReadingIn(h, n, S)
    PROVE  ReadWell(h, n, S[n])
<1> DEFINE Bad == {k \in 0..n : ~ReadWell(h, k, S[k])}
<1>1. SUFFICES ASSUME Bad # {} PROVE FALSE
  OBVIOUS
<1>2. PICK k \in Bad : \A j \in Bad : k <= j
  <2>1. Bad \subseteq Nat
    OBVIOUS
  <2>2. QED
    BY <1>1, <2>1, LeastExists
<1>3. k # 0
  <2>1. 0 \in 0..n
    OBVIOUS
  <2>2. S[0] = NothingRead
    BY <2>1, ReadingInAt
  <2>3. QED
    BY <1>2, <2>2, NothingReadWell
<1>4. k \in Nat \ {0} /\ k \in 1..n /\ k - 1 \in 0..n /\ k - 1 \notin Bad
  BY <1>2, <1>3
<1>5. ReadWell(h, k - 1, S[k - 1])
  BY <1>4
<1>6. S[k] = ReadMessage(S[k - 1], h[k])
  BY <1>3, ReadingInAt
<1>7. ReadWell(h, k, S[k])
  BY <1>4, <1>5, <1>6, OneMoreReadWell
<1>8. QED
  BY <1>2, <1>7


LEMMA ConversationReadsWell ==
    ASSUME NEW h \in Seq(Message)
    PROVE  ReadWell(h, Len(h), ReadConversation(h))
<1> DEFINE n == Len(h)
           S == CHOOSE f : f = [k \in 0..n |-> IF k = 0 THEN NothingRead
                                               ELSE ReadMessage(f[k - 1], h[k])]
<1>1. n \in Nat /\ \A k \in 1..n : h[k] \in Message
  BY LenProperties, ElementOfSeq
<1>2. \E f : f = [k \in 0..n |-> IF k = 0 THEN NothingRead ELSE ReadMessage(f[k - 1], h[k])]
  BY <1>1, ReadingInExists DEF ReadingIn
<1>3. ReadingIn(h, n, S)
  BY <1>2 DEF ReadingIn
<1>4. ReadConversation(h) = S[n]
  BY DEF ReadConversation
<1>5. QED
  BY <1>1, <1>3, <1>4, ReadingInReadsWell

LEMMA ValidIs ==
    ASSUME NEW h \in Seq(Message)
    PROVE  ValidToolConversation(h)
              <=> AllFollow(h, Len(h)) /\ \A x : ~Waits(h, Len(h) + 1, x)
<1> DEFINE r == ReadConversation(h)
           n == Len(h)
<1>1. /\ r.valid <=> AllFollow(h, n)
      /\ r.valid => \A x : x \in r.pending <=> Waits(h, n + 1, x)
  BY ConversationReadsWell DEF ReadWell
<1>2. ValidToolConversation(h) <=> r.valid /\ r.pending = {}
  BY DEF ValidToolConversation
<1> HIDE DEF r, n
<1>3. r.valid => (r.pending = {} <=> \A x : ~Waits(h, n + 1, x))
  BY <1>1
<1>4. QED
  BY <1>1, <1>2, <1>3 DEF n

---------------------------------------------------------------------------
(* The protocol, as ObeysToolProtocol defines it.                          *)

Answers(h, i) == {j \in DOMAIN h : j > i /\ \A k \in (i + 1)..j : h[k].role = "tool"}

Disjoint(h) == \A i, j \in DOMAIN h : i # j => CallIds(h[i]) \cap CallIds(h[j]) = {}

AnsweredOnce(h) ==
    \A i \in DOMAIN h : CallIds(h[i]) # {} =>
        /\ {h[j].callId : j \in Answers(h, i)} = CallIds(h[i])
        /\ Cardinality(Answers(h, i)) = Cardinality(CallIds(h[i]))

AnswersAsked(h) ==
    \A j \in DOMAIN h : h[j].role = "tool" =>
        \E i \in DOMAIN h : CallIds(h[i]) # {} /\ j \in Answers(h, i)

LEMMA ObeysIs ==
    ASSUME NEW h \in Seq(Message)
    PROVE  ObeysToolProtocol(h) <=> Disjoint(h) /\ AnsweredOnce(h) /\ AnswersAsked(h)
<1> DEFINE asks(i) == IF i \in DOMAIN h /\ h[i].role = "assistant" THEN CallIds(h[i]) ELSE {}
<1>1. \A i \in DOMAIN h : asks(i) = CallIds(h[i])
  <2>1. \A i \in DOMAIN h : h[i] \in Message
    BY ElementOfSeq
  <2>2. QED
    BY <2>1, CallIdsAre
<1>2. ObeysToolProtocol(h) <=>
         /\ \A i, j \in DOMAIN h : i # j => asks(i) \cap asks(j) = {}
         /\ \A i \in DOMAIN h : asks(i) # {} =>
               /\ {h[j].callId : j \in Answers(h, i)} = asks(i)
               /\ Cardinality(Answers(h, i)) = Cardinality(asks(i))
         /\ \A j \in DOMAIN h : h[j].role = "tool" =>
               \E i \in DOMAIN h : asks(i) # {} /\ j \in Answers(h, i)
  BY ZenonT(30) DEF ObeysToolProtocol, Answers
<1> HIDE DEF asks
<1>3. (\A i, j \in DOMAIN h : i # j => asks(i) \cap asks(j) = {}) <=> Disjoint(h)
  BY <1>1 DEF Disjoint
<1>4. (\A i \in DOMAIN h : asks(i) # {} =>
          /\ {h[j].callId : j \in Answers(h, i)} = asks(i)
          /\ Cardinality(Answers(h, i)) = Cardinality(asks(i))) <=> AnsweredOnce(h)
  BY <1>1 DEF AnsweredOnce
<1>5. (\A j \in DOMAIN h : h[j].role = "tool" =>
          \E i \in DOMAIN h : asks(i) # {} /\ j \in Answers(h, i)) <=> AnswersAsked(h)
  BY <1>1 DEF AnswersAsked
<1>6. QED
  BY <1>2, <1>3, <1>4, <1>5

\* What both sides of the equivalence know of a conversation.
LEMMA ConversationIs ==
    ASSUME NEW h \in Seq(Message)
    PROVE  /\ Len(h) \in Nat /\ DOMAIN h = 1..Len(h)
           /\ \A i \in 1..Len(h) :
                 /\ h[i] \in Message
                 /\ CallIds(h[i]) # {} => h[i].role = "assistant"
                 /\ IsFiniteSet(CallIds(h[i]))
<1>1. Len(h) \in Nat /\ DOMAIN h = 1..Len(h) /\ \A i \in 1..Len(h) : h[i] \in Message
  BY LenProperties, ElementOfSeq
<1>2. QED
  BY <1>1, CallIdsAre

LEMMA ReadIsObeyed ==
    ASSUME NEW h \in Seq(Message), AllFollow(h, Len(h)), \A x : ~Waits(h, Len(h) + 1, x)
    PROVE  Disjoint(h) /\ AnsweredOnce(h) /\ AnswersAsked(h)
<1> DEFINE n == Len(h)
<1>1. /\ n \in Nat /\ DOMAIN h = 1..n
      /\ \A i \in 1..n : /\ h[i] \in Message
                         /\ CallIds(h[i]) # {} => h[i].role = "assistant"
                         /\ IsFiniteSet(CallIds(h[i]))
  BY ConversationIs
<1>2. \A j \in 1..n : Follows(h, j)
  BY DEF AllFollow
<1>3. \A x : ~Waits(h, n + 1, x)
  OBVIOUS
<1> HIDE DEF n
<1>4. ASSUME NEW i \in 1..n, NEW j \in 1..n, i < j PROVE CallIds(h[i]) \cap CallIds(h[j]) = {}
  <2>1. CASE h[j].role = "tool"
    BY <1>1, <2>1
  <2>2. CASE h[j].role # "tool"
    <3>1. i \in 1..(j - 1)
      BY <1>4
    <3>2. QED
      BY <1>2, <2>2, <3>1 DEF Follows
  <2>3. QED
    BY <2>1, <2>2
<1>5. Disjoint(h)
  <2>1. \A i, j \in 1..n : i # j => i < j \/ j < i
    BY <1>1
  <2>2. \A i, j \in 1..n : i # j => CallIds(h[i]) \cap CallIds(h[j]) = {}
    BY <1>4, <2>1
  <2>3. QED
    BY <1>1, <2>2 DEF Disjoint
<1>6. AnswersAsked(h)
  <2> SUFFICES ASSUME NEW j \in 1..n, h[j].role = "tool"
               PROVE  \E i \in 1..n : CallIds(h[i]) # {} /\ j \in Answers(h, i)
    BY <1>1 DEF AnswersAsked
  <2>1. Waits(h, j, h[j].callId)
    BY <1>2 DEF Follows
  <2>2. PICK i \in 1..(j - 1) : Leads(h, i, j) /\ h[j].callId \in CallIds(h[i])
    BY <2>1 DEF Waits
  <2>3. i \in 1..n /\ j > i /\ \A k \in (i + 1)..j : h[k].role = "tool"
    <3>1. i \in 1..n /\ j > i /\ (i + 1)..j = ((i + 1)..(j - 1)) \cup {j}
      BY <1>1
    <3>2. \A k \in (i + 1)..(j - 1) : h[k].role = "tool"
      BY <2>2 DEF Leads
    <3>3. QED
      BY <3>1, <3>2
  <2>4. j \in Answers(h, i)
    BY <1>1, <2>3 DEF Answers
  <2>5. QED
    BY <2>2, <2>3, <2>4
<1>7. AnsweredOnce(h)
  <2> SUFFICES ASSUME NEW i \in 1..n, CallIds(h[i]) # {}
               PROVE  /\ {h[j].callId : j \in Answers(h, i)} = CallIds(h[i])
                      /\ Cardinality(Answers(h, i)) = Cardinality(CallIds(h[i]))
    BY <1>1 DEF AnsweredOnce
  <2> DEFINE A == Answers(h, i)
             f == [j \in A |-> h[j].callId]
  <2>1. h[i].role # "tool"
    BY <1>1
  <2>2. \A j \in A : j \in 1..n /\ j > i /\ \A k \in (i + 1)..j : h[k].role = "tool"
    BY <1>1 DEF Answers
  <2>3. ASSUME NEW j \in A
        PROVE  /\ h[j].callId \in CallIds(h[i])
               /\ \A k \in (i + 1)..(j - 1) : h[k].callId # h[j].callId
    <3>1. h[j].role = "tool" /\ j \in 1..n /\ j > i
      BY <2>2
    <3>2. Waits(h, j, h[j].callId)
      BY <1>2, <3>1 DEF Follows
    <3>3. PICK l \in 1..(j - 1) : /\ Leads(h, l, j) /\ h[j].callId \in CallIds(h[l])
                                  /\ \A k \in (l + 1)..(j - 1) : h[k].callId # h[j].callId
      BY <3>2 DEF Waits
    <3>4. ~(l < i)
      <4>1. l < i => i \in (l + 1)..(j - 1)
        BY <3>1
      <4>2. QED
        BY <2>1, <3>3, <4>1 DEF Leads
    <3>5. ~(i < l)
      <4>1. i < l => l \in (i + 1)..j
        BY <3>1
      <4>2. QED
        BY <2>2, <3>3, <4>1 DEF Leads
    <3>6. l = i
      BY <3>4, <3>5
    <3>7. QED
      BY <3>3, <3>6
  <2>4. ASSUME NEW x \in CallIds(h[i]) PROVE \E j \in A : h[j].callId = x
    <3> DEFINE E == {j \in Nat : j > i /\ (j = n + 1 \/ (j \in 1..n /\ h[j].role # "tool"))}
    <3>1. E \subseteq Nat /\ n + 1 \in E
      BY <1>1
    <3>2. PICK e \in E : \A j \in E : e <= j
      BY <3>1, LeastExists
    <3>3. e \in 1..(n + 1) /\ i \in 1..(e - 1)
      BY <1>1, <3>2
    <3>4. \A k \in (i + 1)..(e - 1) : k \in 1..n /\ h[k].role = "tool"
      <4>1. ASSUME NEW k \in (i + 1)..(e - 1) PROVE k \in 1..n /\ h[k].role = "tool"
        <5>1. k \in 1..n /\ k > i /\ k < e
          BY <1>1, <3>3
        <5>2. k \notin E
          BY <3>2, <5>1
        <5>3. QED
          BY <5>1, <5>2
      <4>2. QED
        BY <4>1
    <3>5. Leads(h, i, e)
      BY <2>1, <3>3, <3>4 DEF Leads
    <3>6. ~Waits(h, e, x)
      <4>1. CASE e = n + 1
        BY <1>3, <4>1
      <4>2. CASE e # n + 1
        <5>1. e \in 1..n /\ h[e].role # "tool"
          BY <3>2, <4>2
        <5>2. QED
          BY <1>2, <5>1 DEF Follows
      <4>3. QED
        BY <4>1, <4>2
    <3>7. PICK k \in (i + 1)..(e - 1) : h[k].callId = x
      BY <3>3, <3>5, <3>6 DEF Waits
    <3>8. k \in A
      <4>1. k \in 1..n /\ k > i
        BY <3>4, <3>7
      <4>2. \A l \in (i + 1)..k : l \in (i + 1)..(e - 1)
        BY <3>3, <3>7
      <4>3. \A l \in (i + 1)..k : h[l].role = "tool"
        BY <3>4, <4>2
      <4>4. QED
        BY <1>1, <4>1, <4>3 DEF Answers
    <3>9. QED
      BY <3>7, <3>8
  <2>5. \A j, k \in A : h[j].callId = h[k].callId => j = k
    <3>1. ASSUME NEW j \in A, NEW k \in A, k < j PROVE h[j].callId # h[k].callId
      <4>1. k \in (i + 1)..(j - 1)
        BY <2>2, <3>1
      <4>2. QED
        BY <2>3, <4>1
    <3>2. \A j, k \in A : j \in Nat /\ k \in Nat
      BY <2>2
    <3> HIDE DEF A
    <3>3. \A j, k \in A : j = k \/ k < j \/ j < k
      BY <3>2
    <3>4. QED
      BY <3>1, <3>3
  <2>6. {h[j].callId : j \in A} = CallIds(h[i])
    BY <2>3, <2>4
  <2>7. f \in Bijection(A, CallIds(h[i]))
    <3> HIDE DEF A
    <3>1. f \in [A -> CallIds(h[i])] /\ \A j \in A : f[j] = h[j].callId
      BY <2>3
    <3> HIDE DEF f
    <3>2. \A j, k \in A : f[j] = f[k] => j = k
      BY <2>5, <3>1
    <3>3. \A x \in CallIds(h[i]) : \E j \in A : f[j] = x
      BY <2>4, <3>1
    <3>4. QED
      BY <3>1, <3>2, <3>3 DEF Bijection, Injection, Surjection, IsInjective
  <2>8. IsFiniteSet(A)
    <3>1. A \subseteq 1..n /\ IsFiniteSet(1..n)
      BY <1>1, <2>2, FS_Interval
    <3>2. QED
      BY <3>1, FS_Subset
  <2> HIDE DEF A, f
  <2>9. Cardinality(CallIds(h[i])) = Cardinality(A)
    BY <2>7, <2>8, FS_Bijection DEF ExistsBijection
  <2>10. QED
    BY <2>6, <2>9 DEF A
<1>8. QED
  BY <1>5, <1>6, <1>7

LEMMA ObeyedIsRead ==
    ASSUME NEW h \in Seq(Message), Disjoint(h), AnsweredOnce(h), AnswersAsked(h)
    PROVE  AllFollow(h, Len(h)) /\ \A x : ~Waits(h, Len(h) + 1, x)
<1> DEFINE n == Len(h)
<1>1. /\ n \in Nat /\ DOMAIN h = 1..n
      /\ \A i \in 1..n : /\ h[i] \in Message
                         /\ CallIds(h[i]) # {} => h[i].role = "assistant"
                         /\ IsFiniteSet(CallIds(h[i]))
  BY ConversationIs
<1> HIDE DEF n
<1>2. ASSUME NEW e \in 1..(n + 1), e = n + 1 \/ h[e].role # "tool", NEW x PROVE ~Waits(h, e, x)
  <2> SUFFICES ASSUME NEW i \in 1..(e - 1), Leads(h, i, e), x \in CallIds(h[i]),
                      \A k \in (i + 1)..(e - 1) : h[k].callId # x
               PROVE  FALSE
    BY DEF Waits
  <2>1. i \in 1..n
    BY <1>1
  <2>2. x \in {h[j].callId : j \in Answers(h, i)}
    BY <1>1, <2>1 DEF AnsweredOnce
  <2>3. PICK j \in Answers(h, i) : h[j].callId = x
    BY <2>2
  <2>4. j \in 1..n /\ j > i /\ \A k \in (i + 1)..j : h[k].role = "tool"
    BY <1>1 DEF Answers
  <2>5. e <= j => e \in 1..n /\ e \in (i + 1)..j
    BY <1>1, <2>4
  <2>6. j < e
    BY <1>1, <1>2, <2>4, <2>5
  <2>7. j \in (i + 1)..(e - 1)
    BY <2>4, <2>6
  <2>8. QED
    BY <2>3, <2>7
<1>3. ASSUME NEW j \in 1..n, h[j].role = "tool" PROVE Waits(h, j, h[j].callId)
  <2>1. PICK i \in 1..n : CallIds(h[i]) # {} /\ j \in Answers(h, i)
    BY <1>1, <1>3 DEF AnswersAsked
  <2> DEFINE A == Answers(h, i)
             f == [k \in A |-> h[k].callId]
  <2>2. \A k \in A : k \in 1..n /\ k > i /\ \A l \in (i + 1)..k : h[l].role = "tool"
    BY <1>1 DEF Answers
  <2>3. /\ {h[k].callId : k \in A} = CallIds(h[i])
        /\ Cardinality(A) = Cardinality(CallIds(h[i]))
    BY <1>1, <2>1 DEF AnsweredOnce
  <2>4. f \in Surjection(A, CallIds(h[i]))
    <3> HIDE DEF A
    <3>1. f \in [A -> CallIds(h[i])] /\ \A k \in A : f[k] = h[k].callId
      BY <2>3
    <3> HIDE DEF f
    <3>2. \A x \in CallIds(h[i]) : \E k \in A : f[k] = x
      BY <2>3, <3>1
    <3>3. QED
      BY <3>1, <3>2 DEF Surjection
  <2>5. IsFiniteSet(A)
    <3>1. A \subseteq 1..n /\ IsFiniteSet(1..n)
      BY <1>1, <2>2, FS_Interval
    <3>2. QED
      BY <3>1, FS_Subset
  <2>6. f \in Injection(A, CallIds(h[i]))
    <3> HIDE DEF A, f
    <3>1. QED
      BY <2>3, <2>4, <2>5, FS_SurjSameCardinalityImpliesInj
  <2>7. \A k \in A : h[k].callId = h[j].callId => k = j
    <3>1. \A k \in A : f[k] = h[k].callId
      OBVIOUS
    <3> HIDE DEF A, f
    <3>2. \A k, l \in A : f[k] = f[l] => k = l
      BY <2>6 DEF Injection, IsInjective
    <3>3. j \in A
      BY <2>1 DEF A
    <3>4. QED
      BY <3>1, <3>2, <3>3
  <2>8. i \in 1..(j - 1) /\ h[i].role # "tool" /\ h[j].callId \in CallIds(h[i])
    BY <1>1, <2>1, <2>2, <2>3
  <2>9. \A k \in (i + 1)..(j - 1) : k \in A /\ h[k].role = "tool" /\ k # j
    <3>1. ASSUME NEW k \in (i + 1)..(j - 1) PROVE k \in A /\ h[k].role = "tool" /\ k # j
      <4>1. k \in 1..n /\ k > i /\ k \in (i + 1)..j /\ k # j
        BY <1>1
      <4>2. \A l \in (i + 1)..k : l \in (i + 1)..j
        BY <2>1, <2>2
      <4>3. \A l \in (i + 1)..k : h[l].role = "tool"
        BY <2>1, <2>2, <4>2
      <4>4. k \in A
        BY <1>1, <4>1, <4>3 DEF Answers
      <4>5. QED
        BY <4>1, <4>3, <4>4
    <3>2. QED
      BY <3>1
  <2>10. Leads(h, i, j)
    BY <2>8, <2>9 DEF Leads
  <2>11. \A k \in (i + 1)..(j - 1) : h[k].callId # h[j].callId
    BY <2>7, <2>9
  <2>12. QED
    BY <2>8, <2>10, <2>11 DEF Waits
<1>4. ASSUME NEW j \in 1..n, NEW i \in 1..(j - 1) PROVE CallIds(h[i]) \cap CallIds(h[j]) = {}
  <2>1. i \in 1..n /\ i # j
    BY <1>1
  <2>2. QED
    BY <1>1, <2>1 DEF Disjoint
<1>5. AllFollow(h, n)
  <2>1. ASSUME NEW j \in 1..n PROVE Follows(h, j)
    <3>1. j \in 1..(n + 1)
      BY <1>1
    <3>2. QED
      BY <1>2, <1>3, <1>4, <3>1 DEF Follows
  <2>2. QED
    BY <2>1 DEF AllFollow
<1>6. n + 1 \in 1..(n + 1)
  BY <1>1
<1>7. QED
  BY <1>2, <1>5, <1>6 DEF n

LEMMA AcceptedIsObeyed ==
    ASSUME NEW h \in Seq(Message)
    PROVE  ValidToolConversation(h) <=> ObeysToolProtocol(h)
BY ValidIs, ObeysIs, ReadIsObeyed, ObeyedIsRead

---------------------------------------------------------------------------
(* What is kept of a conversation that obeys.                              *)

LEMMA MinIsLeast ==
    ASSUME NEW S, S \subseteq Nat, S # {}
    PROVE  Min(S) \in S /\ \A x \in S : Min(S) <= x
<1>1. \E m \in S : \A x \in S : m <= x
  BY LeastExists
<1>2. QED
  BY <1>1 DEF Min

LEMMA MessageIsKept ==
    ASSUME NEW m \in Message
    PROVE  SanitizedMessage(m) = m /\ IsPortable(m)
<1> DEFINE calls == m.calls
           n == Len(calls)
           whole == SubSeq(calls, 1, Min({n, MaxPortableToolCalls}))
<1>1. calls \in Seq(Call) /\ Sendable(m) /\ m \in Shape
  BY DEF Message, Shape
<1>2. n \in Nat /\ DOMAIN calls = 1..n /\ n <= MaxPortableToolCalls
  BY <1>1, LenProperties DEF Sendable
<1>3. whole = calls
  <2>1. Min({n, MaxPortableToolCalls}) = n
    <3>1. {n, MaxPortableToolCalls} \subseteq Nat
      BY <1>2, LimitsAssumption
    <3> DEFINE least == Min({n, MaxPortableToolCalls})
    <3>2. least \in {n, MaxPortableToolCalls} /\ least <= n
      BY <3>1, MinIsLeast
    <3> HIDE DEF least, n
    <3>3. QED
      BY <1>2, <3>1, <3>2 DEF least
  <2> HIDE DEF calls
  <2>2. SubSeq(calls, 1, n) = calls
    BY <1>1, <1>2, SMTT(30)
  <2>3. QED
    BY <2>1, <2>2
<1>4. NamedCalls(whole) = calls
  <2> HIDE DEF whole, calls
  <2>1. NamedCalls(calls) = calls
    BY <1>1, NamedCallsAreAll
  <2>2. QED
    BY <1>3, <2>1
<1>5. m.role # "assistant" => calls = <<>>
  BY <1>1 DEF Sendable
<1>6. SanitizedMessage(m) = [m EXCEPT !.calls = IF m.role = "assistant" THEN calls ELSE <<>>,
                                      !.callId = IF m.role = "tool" THEN m.callId ELSE NoCall]
  BY <1>4 DEF SanitizedMessage
<1>7. SanitizedMessage(m) = [m EXCEPT !.calls = m.calls, !.callId = m.callId]
  BY <1>1, <1>5, <1>6 DEF Sendable
<1>8. SanitizedMessage(m) = m
  BY <1>1, <1>7 DEF Shape
<1>9. IsPortable(m)
  BY <1>1, <1>8 DEF IsPortable, Sendable, Shape
<1>10. QED
  BY <1>8, <1>9

LEMMA ConversationIsKept ==
    ASSUME NEW h \in Seq(Message)
    PROVE  SanitizedMessages(h) = h
<1>1. \A i \in DOMAIN h : h[i] \in Message
  BY ElementOfSeq
<1>2. \A m \in ToSet(h) : m \in Message
  BY <1>1 DEF ToSet
<1>3. \A m \in ToSet(h) : SanitizedMessage(m) = m /\ IsPortable(m)
  BY <1>2, MessageIsKept
<1>4. QED
  BY <1>3 DEF SanitizedMessages

\* A tail that starts with a unit, or is empty, after one message.
CutTail(h, u, t) == <<h[u]>> \o From(h, t)

CutsAtUnit(h, u, t) ==
    /\ u \in 1..Len(h) /\ h[u].role = "user"
    /\ t \in (u + 1)..(Len(h) + 1)
    /\ t \in 1..Len(h) => StartsUnit(h, t)

\* Message j of the tail, from the second on, is message j + t - 2 of the conversation.
Shifts(h, g, t) ==
    /\ Len(g) = Len(h) - t + 2
    /\ \A j \in 2..Len(g) : g[j] = h[j + t - 2]

LEMMA CutTailIs ==
    ASSUME NEW h \in Seq(Message), NEW u, NEW t, CutsAtUnit(h, u, t)
    PROVE  LET g == CutTail(h, u, t) IN
           g \in Seq(Message) /\ g[1] = h[u] /\ Shifts(h, g, t)
<1> DEFINE n == Len(h)
           rest == SubSeq(h, t, n)
           one == <<h[u]>>
           g == one \o rest
<1>1. n \in Nat /\ u \in 1..n /\ t \in (u + 1)..(n + 1) /\ \A i \in 1..n : h[i] \in Message
  BY LenProperties, ElementOfSeq DEF CutsAtUnit
<1>2. t \in Nat \ {0} /\ t <= n + 1
  BY <1>1
<1>3. one \in Seq(Message) /\ Len(one) = 1 /\ one[1] = h[u]
  BY <1>1
<1>4. rest \in Seq(Message) /\ Len(rest) = n - t + 1 /\ \A i \in 1..(n - t + 1) : rest[i] = h[i + t - 1]
  <2>1. \A i \in t..n : h[i] \in Message
    BY <1>1, <1>2
  <2>2. t \in 1..(n + 1)
    BY <1>2
  <2> HIDE DEF n
  <2>3. /\ rest \in Seq(Message)
        /\ Len(rest) = IF t <= n THEN n - t + 1 ELSE 0
        /\ \A i \in 1..(n - t + 1) : rest[i] = h[t + i - 1]
    BY <1>1, <1>2, <2>1, SubSeqProperties DEF n
  <2>4. Len(rest) = n - t + 1
    BY <1>1, <1>2, <2>3
  <2>5. \A i \in 1..(n - t + 1) : t + i - 1 = i + t - 1
    BY <1>1, <1>2
  <2>6. QED
    BY <2>3, <2>4, <2>5
<1> HIDE DEF one, rest, n
<1>5. /\ g \in Seq(Message) /\ Len(g) = 1 + Len(rest)
      /\ g[1] = one[1]
      /\ \A j \in 2..(1 + Len(rest)) : g[j] = rest[j - 1]
  <2>1. /\ g \in Seq(Message) /\ Len(g) = Len(one) + Len(rest)
        /\ \A j \in 1..(Len(one) + Len(rest)) :
              g[j] = IF j <= Len(one) THEN one[j] ELSE rest[j - Len(one)]
    BY <1>3, <1>4, ConcatProperties
  <2> HIDE DEF g
  <2>2. Len(rest) \in Nat
    BY <1>4, LenProperties
  <2>3. \A j \in 1..(1 + Len(rest)) : g[j] = IF j <= 1 THEN one[j] ELSE rest[j - 1]
    BY <1>3, <2>1
  <2>4. g[1] = one[1]
    BY <2>2, <2>3
  <2>5. \A j \in 2..(1 + Len(rest)) : g[j] = rest[j - 1]
    BY <2>2, <2>3
  <2>6. QED
    BY <1>3, <2>1, <2>4, <2>5
<1>6. Len(g) = n - t + 2
  BY <1>1, <1>4, <1>5
<1>7. ASSUME NEW j \in 2..Len(g) PROVE g[j] = h[j + t - 2]
  <2>1. j - 1 \in 1..(n - t + 1) /\ (j - 1) + t - 1 = j + t - 2 /\ j \in 2..(1 + Len(rest))
    BY <1>1, <1>4, <1>5, <1>6
  <2>2. g[j] = rest[j - 1]
    BY <1>5, <2>1
  <2>3. rest[j - 1] = h[(j - 1) + t - 1]
    BY <1>4, <2>1
  <2>4. QED
    BY <2>1, <2>2, <2>3
<1>8. CutTail(h, u, t) = g
  BY DEF CutTail, From, one, rest, n
<1>9. QED
  BY <1>3, <1>5, <1>6, <1>7, <1>8 DEF Shifts, n

LEMMA TailFollows ==
    ASSUME NEW h \in Seq(Message), NEW u, NEW t, CutsAtUnit(h, u, t), AllFollow(h, Len(h))
    PROVE  LET g == CutTail(h, u, t) IN AllFollow(g, Len(g))
<1> DEFINE n == Len(h)
           g == CutTail(h, u, t)
           N == Len(g)
           at(j) == j + t - 2
<1>1. /\ n \in Nat
      /\ \A i \in 1..n : /\ h[i] \in Message
                         /\ CallIds(h[i]) # {} => h[i].role = "assistant"
                         /\ h[i].calls = <<>> <=> CallIds(h[i]) = {}
      /\ \A j \in 1..n : Follows(h, j)
  BY ConversationIs, CallIdsAre DEF AllFollow
<1>2. /\ u \in 1..n /\ h[u].role = "user"
      /\ t \in (u + 1)..(n + 1)
      /\ t \in 1..n => StartsUnit(h, t)
  BY DEF CutsAtUnit
<1>3. g[1] = h[u] /\ N = n - t + 2 /\ \A j \in 2..N : g[j] = h[at(j)]
  BY CutTailIs DEF Shifts
<1> HIDE DEF g, n, N
<1>4. t \in Nat \ {0} /\ N \in Nat /\ N >= 1 /\ u < t
  BY <1>1, <1>2, <1>3
<1>5. \A j \in 2..N : at(j) \in t..n /\ at(j) \in 1..n
  BY <1>1, <1>3, <1>4
<1>6. CallIds(g[1]) = {} /\ g[1].role = "user"
  BY <1>1, <1>2, <1>3
\* The message that leads a message of the tail belongs to the tail.
<1>7. ASSUME NEW j \in 2..N, h[at(j)].role = "tool",
             NEW i \in 1..(at(j) - 1), Leads(h, i, at(j)), CallIds(h[i]) # {}
      PROVE  i >= t
  <2>1. SUFFICES ASSUME i < t PROVE FALSE
    BY <1>4
  <2>2. at(j) \in t..n /\ i \in 1..n /\ t \in 1..n /\ i \in 1..(t - 1)
    BY <1>1, <1>4, <1>5, <2>1
  <2>3. StartsUnit(h, t)
    BY <1>2, <2>2
  <2>4. h[i].role = "assistant" /\ h[i].calls # <<>>
    BY <1>1, <1>7, <2>2
  <2>5. \A k \in (i + 1)..t : k \in (i + 1)..(at(j) - 1) \/ k = at(j)
    BY <2>2
  <2>6. \A k \in (i + 1)..t : h[k].role = "tool"
    BY <1>7, <2>5 DEF Leads
  <2>7. h[t].role = "tool"
    BY <2>2, <2>6
  <2>8. QED
    BY <2>2, <2>3, <2>4, <2>6, <2>7 DEF StartsUnit
<1>8. ASSUME NEW j \in 2..N, g[j].role = "tool" PROVE Waits(g, j, g[j].callId)
  <2> DEFINE J == at(j)
             x == g[j].callId
  <2>1. J \in 1..n /\ J \in t..n /\ g[j] = h[J]
    BY <1>3, <1>5
  <2>2. Waits(h, J, x)
    BY <1>1, <1>8, <2>1 DEF Follows
  <2> HIDE DEF x
  <2>3. PICK i \in 1..(J - 1) : /\ Leads(h, i, J) /\ x \in CallIds(h[i])
                                /\ \A k \in (i + 1)..(J - 1) : h[k].callId # x
    BY <2>2 DEF Waits
  <2>4. i >= t
    BY <1>7, <1>8, <2>1, <2>3
  <2> DEFINE l == i - t + 2
  <2>5. l \in 2..N /\ l \in 1..(j - 1) /\ at(l) = i
    BY <1>1, <1>3, <1>4, <2>1, <2>3, <2>4
  <2>6. g[l] = h[i]
    BY <1>3, <2>5
  <2>7. \A k \in (l + 1)..(j - 1) : k \in 2..N /\ at(k) \in (i + 1)..(J - 1)
    BY <1>1, <1>4, <2>4, <2>5
  <2>8. \A k \in (l + 1)..(j - 1) : g[k].role = "tool" /\ g[k].callId # x
    <3> HIDE DEF at, l, J
    <3>1. QED
      BY <1>3, <2>3, <2>7 DEF Leads
  <2>9. h[i].role # "tool"
    BY <2>3 DEF Leads
  <2> HIDE DEF l
  <2>10. Leads(g, l, j)
    BY <2>5, <2>6, <2>8, <2>9 DEF Leads
  <2>11. Waits(g, j, x)
    BY <2>3, <2>5, <2>6, <2>8, <2>10 DEF Waits
  <2>12. QED
    BY <2>11 DEF x
<1>9. ASSUME NEW j \in 2..N, g[j].role # "tool", NEW x PROVE ~Waits(g, j, x)
  <2> DEFINE J == at(j)
  <2>1. J \in 1..n /\ J \in t..n /\ g[j] = h[J]
    BY <1>3, <1>5
  <2>2. ~Waits(h, J, x)
    BY <1>1, <1>9, <2>1 DEF Follows
  <2> SUFFICES ASSUME NEW l \in 1..(j - 1), Leads(g, l, j), x \in CallIds(g[l]),
                      \A k \in (l + 1)..(j - 1) : g[k].callId # x
               PROVE  FALSE
    BY DEF Waits
  <2>3. l # 1
    BY <1>6
  <2> DEFINE i == at(l)
  <2>4. l \in 2..N /\ i \in 1..(J - 1)
    BY <1>4, <2>3
  <2>5. g[l] = h[i]
    BY <1>3, <2>4
  <2>6. ASSUME NEW k \in (i + 1)..(J - 1)
        PROVE  h[k].role = "tool" /\ h[k].callId # x
    <3> DEFINE o == k - t + 2
    <3>1. o \in (l + 1)..(j - 1) /\ o \in 2..N /\ at(o) = k
      BY <1>4, <2>4
    <3>2. g[o] = h[k]
      BY <1>3, <3>1
    <3> HIDE DEF o
    <3>3. QED
      BY <3>1, <3>2 DEF Leads
  <2>7. g[l].role # "tool"
    BY DEF Leads
  <2> HIDE DEF i, J
  <2>8. Leads(h, i, J)
    BY <2>4, <2>5, <2>6, <2>7 DEF Leads
  <2>9. QED
    BY <2>2, <2>4, <2>5, <2>6, <2>8 DEF Waits
<1>10. ASSUME NEW j \in 2..N, g[j].role # "tool", NEW l \in 1..(j - 1)
       PROVE  CallIds(g[l]) \cap CallIds(g[j]) = {}
  <2>1. CASE l = 1
    BY <1>6, <2>1
  <2>2. CASE l # 1
    <3>1. l \in 2..N /\ at(l) \in 1..(at(j) - 1)
      BY <1>4, <2>2
    <3>2. g[l] = h[at(l)] /\ g[j] = h[at(j)] /\ at(j) \in 1..n
      BY <1>3, <1>5, <3>1
    <3> HIDE DEF at
    <3>3. QED
      BY <1>1, <1>10, <3>1, <3>2 DEF Follows
  <2>3. QED
    BY <2>1, <2>2
<1>11. Follows(g, 1)
  <2>1. 1..(1 - 1) = {}
    OBVIOUS
  <2>2. QED
    BY <1>6, <2>1 DEF Follows, Waits
<1>12. \A j \in 1..N : Follows(g, j)
  <2>1. ASSUME NEW j \in 2..N PROVE Follows(g, j)
    BY <1>8, <1>9, <1>10 DEF Follows
  <2>2. \A j \in 1..N : j = 1 \/ j \in 2..N
    BY <1>4
  <2>3. QED
    BY <1>11, <2>1, <2>2
<1>13. QED
  BY <1>12 DEF AllFollow, g, N

LEMMA LastUserIs ==
    ASSUME NEW h \in Seq(Message), LastUser(h) > 0
    PROVE  LastUser(h) \in 1..Len(h) /\ h[LastUser(h)].role = "user"
<1> DEFINE u == LastUser(h)
           n == Len(h)
           users == {i \in DOMAIN h : h[i].role = "user"} \cup {0}
<1>1. n \in Nat /\ DOMAIN h = 1..n
  BY LenProperties
<1>2. users \subseteq Nat /\ users # {} /\ \A i \in users : i <= n
  BY <1>1
<1>3. u \in users
  BY <1>1, <1>2, MaxIsGreatest DEF LastUser
<1>4. u # 0
  BY <1>2, <1>3
<1> HIDE DEF u
<1>5. u \in 1..n /\ h[u].role = "user"
  BY <1>1, <1>3, <1>4
<1>6. QED
  BY <1>5 DEF u

LEMMA AnchoredTailIs ==
    ASSUME NEW h \in Seq(Message), LastUser(h) > 0
    PROVE  \E t : /\ CutsAtUnit(h, LastUser(h), t)
                  /\ AnchoredTail(h) = CutTail(h, LastUser(h), t)
                  /\ t = Len(h) + 1 \/ Fits(AnchoredTail(h))
<1> DEFINE u == LastUser(h)
           n == Len(h)
           starts == {i \in (u + 1)..n : StartsUnit(h, i)}
           taken == {i \in starts : \A j \in starts : j >= i => Fits(<<h[u]>> \o From(h, j))}
           t == Min(taken \cup {n + 1})
<1>1. n \in Nat /\ u \in 1..n /\ h[u].role = "user"
  BY LastUserIs, LenProperties
<1> HIDE DEF u
<1>2. AnchoredTail(h) = <<h[u]>> \o From(h, t)
  BY DEF AnchoredTail, u
<1>3. taken \cup {n + 1} \subseteq Nat /\ taken \cup {n + 1} # {}
  BY <1>1
<1>4. t \in taken \cup {n + 1}
  BY <1>3, MinIsLeast
<1> HIDE DEF t
<1>5. t \in (u + 1)..(n + 1) /\ (t \in 1..n => StartsUnit(h, t))
  BY <1>1, <1>4
<1>6. t = n + 1 \/ Fits(<<h[u]>> \o From(h, t))
  <2>1. CASE t \in taken
    <3>1. t \in starts /\ t >= t
      BY <1>1, <2>1
    <3>2. QED
      BY <2>1, <3>1
  <2>2. QED
    BY <1>4, <2>1
<1>7. CutsAtUnit(h, u, t)
  BY <1>1, <1>5 DEF CutsAtUnit
<1>8. QED
  BY <1>2, <1>6, <1>7 DEF CutTail, u

LEMMA NothingWeighsNothing == PortableMessagesBytes(<<>>) = 0
<1>1. {i \in DOMAIN <<>> : <<>>[i].text = LargeText} = {}
  OBVIOUS
<1>2. Cardinality({}) = 0
  BY FS_EmptySet
<1>3. QED
  BY <1>1, <1>2 DEF PortableMessagesBytes

LEMMA EmptyFits == Fits(<<>>)
  BY NothingWeighsNothing, LimitsAssumption DEF Fits

LEMMA BoundedIs ==
    ASSUME NEW h \in Seq(Message)
    PROVE  LET g == BoundedPortableMessages(h) IN
           \/ g = h /\ (h = <<>> \/ Fits(h))
           \/ ~Fits(h) /\ h # <<>> /\ LastUser(h) > 0 /\ g = AnchoredTail(h)
           \/ ~Fits(h) /\ h # <<>> /\ ~(LastUser(h) > 0) /\ g = FittingTail(h)
<1>1. SanitizedMessages(h) = h
  BY ConversationIsKept
<1>2. BoundedPortableMessages(h) = CASE h = <<>> \/ Fits(h) -> h
                                     [] ~Fits(h) /\ LastUser(h) > 0 -> AnchoredTail(h)
                                     [] OTHER -> FittingTail(h)
  BY <1>1 DEF BoundedPortableMessages
<1> DEFINE small == h = <<>> \/ Fits(h)
           large == ~Fits(h) /\ LastUser(h) > 0
           g == BoundedPortableMessages(h)
<1>3. g = CASE small -> h [] large -> AnchoredTail(h) [] OTHER -> FittingTail(h)
  BY <1>2
<1>4. \/ small
      \/ large /\ ~small
      \/ ~large /\ ~small /\ ~Fits(h) /\ h # <<>> /\ ~(LastUser(h) > 0)
  OBVIOUS
<1>5. large /\ ~small => ~Fits(h) /\ h # <<>> /\ LastUser(h) > 0
  OBVIOUS
<1>6. small => ~large
  BY EmptyFits
<1> HIDE DEF g, small, large
<1>7. CASE small
  <2>1. g = h
    BY <1>3, <1>7, <1>6
  <2>2. QED
    BY <1>7, <2>1 DEF small, g
<1>8. CASE large /\ ~small
  <2>1. g = AnchoredTail(h)
    BY <1>3, <1>8
  <2>2. QED
    BY <1>5, <1>8, <2>1 DEF g
<1>9. CASE ~large /\ ~small
  <2>1. g = FittingTail(h)
    BY <1>3, <1>9
  <2>2. QED
    BY <1>4, <1>9, <2>1 DEF g
<1>10. QED
  BY <1>7, <1>8, <1>9

LEMMA BoundedFollows ==
    ASSUME NEW h \in Seq(Message), AllFollow(h, Len(h)), LastUser(h) > 0
    PROVE  LET g == BoundedPortableMessages(h) IN g \in Seq(Message) /\ AllFollow(g, Len(g))
<1>1. BoundedPortableMessages(h) = h \/ BoundedPortableMessages(h) = AnchoredTail(h)
  BY BoundedIs
<1>2. PICK t : CutsAtUnit(h, LastUser(h), t) /\ AnchoredTail(h) = CutTail(h, LastUser(h), t)
  BY AnchoredTailIs
<1>3. LET g == CutTail(h, LastUser(h), t) IN g \in Seq(Message) /\ AllFollow(g, Len(g))
  BY <1>2, CutTailIs, TailFollows
<1>4. QED
  BY <1>1, <1>2, <1>3

LEMMA ProtocolIsRight == ConversationTyped => ToolProtocolIsKept
<1> SUFFICES ASSUME ConversationTyped PROVE ToolProtocolIsKept
  OBVIOUS
<1>1. messages \in Seq(Message)
  BY DEF ConversationTyped
<1>2. ValidToolConversation(messages) <=> ObeysToolProtocol(messages)
  BY <1>1, AcceptedIsObeyed
<1>3. ASSUME ReadConversation(messages).valid, LastUser(messages) > 0
      PROVE  ReadConversation(BoundedPortableMessages(messages)).valid
  <2> DEFINE g == BoundedPortableMessages(messages)
  <2>1. AllFollow(messages, Len(messages))
    BY <1>1, <1>3, ConversationReadsWell DEF ReadWell
  <2>2. g \in Seq(Message) /\ AllFollow(g, Len(g))
    BY <1>1, <1>3, <2>1, BoundedFollows
  <2> HIDE DEF g
  <2>3. ReadConversation(g).valid
    BY <2>2, ConversationReadsWell DEF ReadWell
  <2>4. QED
    BY <2>3 DEF g
<1>4. QED
  BY <1>2, <1>3 DEF ToolProtocolIsKept

\* The gateway accepts a conversation exactly when every call has one result right after the
\* message that asked for it, and what it keeps of one that names its user parts no result from
\* its call (validateToolConversation, boundedPortableMessages).
THEOREM ProtocolSurvivesBounding == Spec => []ToolProtocolIsKept
<1>1. ConversationTyped => ToolProtocolIsKept
  BY ProtocolIsRight
<1>2. QED
  BY <1>1, ConversationsAreTyped, PTL

---------------------------------------------------------------------------
(* Bounding twice, transitions and merges.                                 *)

LEMMA FromIs ==
    ASSUME NEW h \in Seq(Message), NEW t \in 1..(Len(h) + 1)
    PROVE  /\ From(h, t) \in Seq(Message)
           /\ Len(From(h, t)) = Len(h) - t + 1
           /\ \A i \in 1..(Len(h) - t + 1) : From(h, t)[i] = h[t + i - 1]
<1> DEFINE n == Len(h)
           g == From(h, t)
<1>1. n \in Nat /\ \A i \in 1..n : h[i] \in Message
  BY LenProperties, ElementOfSeq
<1>2. g = SubSeq(h, t, n)
  BY DEF From
<1> HIDE DEF n
<1>3. t \in 1..(n + 1)
  BY DEF n
<1>4. \A i \in t..n : h[i] \in Message
  BY <1>1, <1>3
<1>5. /\ g \in Seq(Message) /\ Len(g) = IF t <= n THEN n - t + 1 ELSE 0
      /\ \A i \in 1..(n - t + 1) : g[i] = h[t + i - 1]
  BY <1>1, <1>2, <1>3, <1>4, SubSeqProperties
<1> HIDE DEF g
<1>6. Len(g) = n - t + 1
  BY <1>1, <1>3, <1>5
<1>7. QED
  BY <1>5, <1>6 DEF g, n

LEMMA StartIs ==
    ASSUME NEW h \in Seq(Message), NEW k \in 0..Len(h)
    PROVE  /\ SubSeq(h, 1, k) \in Seq(Message)
           /\ Len(SubSeq(h, 1, k)) = k
           /\ \A i \in 1..k : SubSeq(h, 1, k)[i] = h[i]
<1>1. k \in Nat /\ \A i \in 1..k : h[i] \in Message
  BY LenProperties, ElementOfSeq
<1>2. /\ SubSeq(h, 1, k) \in Seq(Message)
      /\ Len(SubSeq(h, 1, k)) = IF 1 <= k THEN k - 1 + 1 ELSE 0
      /\ \A i \in 1..(k - 1 + 1) : SubSeq(h, 1, k)[i] = h[1 + i - 1]
  BY <1>1, SubSeqProperties
<1>3. QED
  BY <1>1, <1>2

LEMMA SameMessages ==
    ASSUME NEW g \in Seq(Message), NEW h \in Seq(Message), Len(g) = Len(h),
           \A i \in 1..Len(h) : g[i] = h[i]
    PROVE  g = h
BY SeqEqual

LEMMA JoinIs ==
    ASSUME NEW g \in Seq(Message), NEW h \in Seq(Message)
    PROVE  /\ g \o h \in Seq(Message) /\ Len(g \o h) = Len(g) + Len(h)
           /\ \A i \in 1..Len(g) : (g \o h)[i] = g[i]
           /\ \A i \in (Len(g) + 1)..(Len(g) + Len(h)) : (g \o h)[i] = h[i - Len(g)]
<1> DEFINE j == g \o h
<1>1. /\ j \in Seq(Message) /\ Len(j) = Len(g) + Len(h)
      /\ \A i \in 1..(Len(g) + Len(h)) : j[i] = IF i <= Len(g) THEN g[i] ELSE h[i - Len(g)]
  BY ConcatProperties
<1>2. Len(g) \in Nat /\ Len(h) \in Nat
  BY LenProperties
<1> HIDE DEF j
<1>3. \A i \in 1..Len(g) : j[i] = g[i]
  BY <1>1, <1>2
<1>4. \A i \in (Len(g) + 1)..(Len(g) + Len(h)) : j[i] = h[i - Len(g)]
  BY <1>1, <1>2
<1>5. QED
  BY <1>1, <1>3, <1>4 DEF j

LEMMA SplitIs ==
    ASSUME NEW h \in Seq(Message), NEW k \in 0..Len(h)
    PROVE  SubSeq(h, 1, k) \o From(h, k + 1) = h
<1> DEFINE a == SubSeq(h, 1, k)
           b == From(h, k + 1)
           n == Len(h)
           j == a \o b
<1>1. n \in Nat /\ k \in Nat /\ k + 1 \in 1..(n + 1) /\ k \in 0..n
  BY LenProperties
<1>2. a \in Seq(Message) /\ Len(a) = k /\ \A i \in 1..k : a[i] = h[i]
  BY StartIs
<1>3. b \in Seq(Message) /\ Len(b) = n - (k + 1) + 1 /\ \A i \in 1..(n - (k + 1) + 1) : b[i] = h[k + 1 + i - 1]
  BY <1>1, FromIs
<1>4. /\ j \in Seq(Message) /\ Len(j) = Len(a) + Len(b)
      /\ \A i \in 1..Len(a) : j[i] = a[i]
      /\ \A i \in (Len(a) + 1)..(Len(a) + Len(b)) : j[i] = b[i - Len(a)]
  BY <1>2, <1>3, JoinIs
<1> HIDE DEF a, b, n, j
<1>5. Len(j) = n
  BY <1>1, <1>2, <1>3, <1>4
<1>6. ASSUME NEW i \in 1..n PROVE j[i] = h[i]
  <2>1. CASE i <= k
    BY <1>1, <1>2, <1>4, <2>1
  <2>2. CASE i > k
    <3>1. i \in (Len(a) + 1)..(Len(a) + Len(b)) /\ i - k \in 1..(n - (k + 1) + 1) /\ k + 1 + (i - k) - 1 = i
      BY <1>1, <1>2, <1>3, <2>2
    <3>2. j[i] = b[i - k] /\ b[i - k] = h[k + 1 + (i - k) - 1]
      BY <1>2, <1>3, <1>4, <3>1
    <3>3. QED
      BY <3>1, <3>2
  <2>3. QED
    BY <1>1, <2>1, <2>2
<1>7. j = h
  BY <1>4, <1>5, <1>6, SameMessages DEF n
<1>8. QED
  BY <1>7 DEF j, a, b

\* A part of what fits does.
LEMMA PartFits ==
    ASSUME NEW h \in Seq(Message), NEW g \in Seq(Message), NEW c \in Nat,
           Len(g) + c <= Len(h), \A i \in 1..Len(g) : g[i] = h[i + c], Fits(h)
    PROVE  Fits(g)
<1> DEFINE Large(s) == {i \in DOMAIN s : s[i].text = LargeText}
           f == [i \in Large(g) |-> i + c]
<1>1. /\ Len(g) \in Nat /\ DOMAIN g = 1..Len(g)
      /\ Len(h) \in Nat /\ DOMAIN h = 1..Len(h)
  BY LenProperties
<1>2. \A i \in Large(g) : i \in Nat /\ i + c \in Large(h)
  BY <1>1
<1>3. IsFiniteSet(Large(h)) /\ IsFiniteSet(Large(g))
  <2>1. IsFiniteSet(1..Len(h)) /\ IsFiniteSet(1..Len(g))
    BY <1>1, FS_Interval
  <2>2. Large(h) \subseteq 1..Len(h) /\ Large(g) \subseteq 1..Len(g)
    BY <1>1
  <2> HIDE DEF Large
  <2>3. QED
    BY <2>1, <2>2, FS_Subset
<1> HIDE DEF Large
<1>4. f \in Injection(Large(g), Large(h))
  <2>1. f \in [Large(g) -> Large(h)] /\ \A i \in Large(g) : f[i] = i + c /\ i \in Nat
    BY <1>2
  <2> HIDE DEF f
  <2>2. \A i, j \in Large(g) : f[i] = f[j] => i = j
    BY <2>1
  <2>3. QED
    BY <2>1, <2>2 DEF Injection, IsInjective
<1>5. Cardinality(Large(g)) <= Cardinality(Large(h))
  BY <1>3, <1>4, FS_Injection
<1>6. Cardinality(Large(g)) \in Nat /\ Cardinality(Large(h)) \in Nat
  BY <1>3, FS_CardinalityType
<1>7. /\ PortableMessagesBytes(g) = Len(g) + 2 * Cardinality(Large(g))
      /\ PortableMessagesBytes(h) = Len(h) + 2 * Cardinality(Large(h))
  BY DEF PortableMessagesBytes, Large
<1>8. Len(h) <= MaxPortableMessages /\ PortableMessagesBytes(h) <= MaxPortableBytes
  BY DEF Fits
<1> HIDE DEF f
<1>9. Len(g) <= MaxPortableMessages /\ PortableMessagesBytes(g) <= MaxPortableBytes
  BY <1>1, <1>5, <1>6, <1>7, <1>8, LimitsAssumption
<1>10. QED
  BY <1>9 DEF Fits

LEMMA OneMessageIsStable ==
    ASSUME NEW g \in Seq(Message), Len(g) = 1
    PROVE  BoundedPortableMessages(g) = g
<1>1. \/ BoundedPortableMessages(g) = g
      \/ LastUser(g) > 0 /\ BoundedPortableMessages(g) = AnchoredTail(g)
      \/ BoundedPortableMessages(g) = FittingTail(g)
  BY BoundedIs
<1>2. CASE LastUser(g) > 0 /\ BoundedPortableMessages(g) = AnchoredTail(g)
  <2>1. LastUser(g) = 1
    BY <1>2, LastUserIs
  <2>2. PICK t : CutsAtUnit(g, 1, t) /\ AnchoredTail(g) = CutTail(g, 1, t)
    BY <1>2, <2>1, AnchoredTailIs
  <2>3. t = 2
    BY <2>2 DEF CutsAtUnit
  <2> DEFINE a == CutTail(g, 1, 2)
  <2>4. a \in Seq(Message) /\ a[1] = g[1] /\ Shifts(g, a, 2)
    BY <2>2, <2>3, CutTailIs
  <2> HIDE DEF a
  <2>5. Len(a) = 1
    BY <2>4 DEF Shifts
  <2>6. a = g
    BY <2>4, <2>5, SameMessages
  <2>7. QED
    BY <1>2, <2>2, <2>3, <2>6 DEF a
<1>3. CASE BoundedPortableMessages(g) = FittingTail(g)
  <2> DEFINE S == {i \in DOMAIN g : Fits(From(g, i))} \cup {Len(g)}
             m == Min(S)
  <2>1. S \subseteq {1} /\ S # {} /\ S \subseteq Nat
    BY LenProperties
  <2>2. m = 1
    BY <2>1, MinIsLeast
  <2>3. FittingTail(g) = From(g, m)
    BY DEF FittingTail
  <2>4. From(g, 1) = g
    <3>1. /\ From(g, 1) \in Seq(Message) /\ Len(From(g, 1)) = 1
          /\ \A i \in 1..1 : From(g, 1)[i] = g[1 + i - 1]
      <4> DEFINE f == From(g, 1)
      <4>1. 1 \in 1..(Len(g) + 1)
        OBVIOUS
      <4>2. f \in Seq(Message) /\ Len(f) = Len(g) - 1 + 1 /\ \A i \in 1..(Len(g) - 1 + 1) : f[i] = g[1 + i - 1]
        BY <4>1, FromIs
      <4> HIDE DEF f
      <4>3. Len(g) - 1 + 1 = 1
        OBVIOUS
      <4>4. f \in Seq(Message) /\ Len(f) = 1 /\ \A i \in 1..1 : f[i] = g[1 + i - 1]
        BY <4>2, <4>3
      <4>5. QED
        BY <4>4 DEF f
    <3>2. \A i \in 1..1 : From(g, 1)[i] = g[i]
      BY <3>1
    <3>3. QED
      BY <3>1, <3>2, SameMessages
  <2>5. QED
    BY <1>3, <2>2, <2>3, <2>4
<1>4. QED
  BY <1>1, <1>2, <1>3

LEMMA BoundedIsStable ==
    ASSUME NEW h \in Seq(Message)
    PROVE  LET g == BoundedPortableMessages(h) IN
           g \in Seq(Message) /\ BoundedPortableMessages(g) = g /\ (Fits(g) \/ Len(g) = 1)
<1> DEFINE g == BoundedPortableMessages(h)
<1>1. g \in Seq(Message) /\ (Fits(g) \/ Len(g) = 1)
  <2>1. CASE g = h /\ (h = <<>> \/ Fits(h))
    BY <2>1, EmptyFits
  <2>2. CASE LastUser(h) > 0 /\ g = AnchoredTail(h)
    <3>1. PICK t : /\ CutsAtUnit(h, LastUser(h), t)
                   /\ AnchoredTail(h) = CutTail(h, LastUser(h), t)
                   /\ t = Len(h) + 1 \/ Fits(AnchoredTail(h))
      BY <2>2, AnchoredTailIs
    <3> HIDE DEF g
    <3>2. g \in Seq(Message) /\ Len(g) = Len(h) - t + 2
      BY <2>2, <3>1, CutTailIs DEF Shifts
    <3>3. Len(h) \in Nat
      BY LenProperties
    <3>4. t = Len(h) + 1 => Len(g) = 1
      BY <3>2, <3>3
    <3>5. QED
      BY <2>2, <3>1, <3>2, <3>4
  <2>3. CASE h # <<>> /\ g = FittingTail(h)
    <3> DEFINE S == {i \in DOMAIN h : Fits(From(h, i))} \cup {Len(h)}
               m == Min(S)
    <3>1. Len(h) \in Nat \ {0} /\ DOMAIN h = 1..Len(h)
      BY <2>3, LenProperties, EmptySeq
    <3>2. S \subseteq 1..Len(h) /\ S \subseteq Nat /\ S # {}
      BY <3>1
    <3>3. m \in S
      BY <3>2, MinIsLeast
    <3>4. g = From(h, m)
      BY <2>3 DEF FittingTail
    <3> HIDE DEF m, g
    <3>5. m \in 1..Len(h) /\ m \in 1..(Len(h) + 1) /\ (m = Len(h) \/ Fits(From(h, m)))
      BY <3>1, <3>2, <3>3
    <3>6. g \in Seq(Message) /\ Len(g) = Len(h) - m + 1
      BY <3>4, <3>5, FromIs
    <3>7. m = Len(h) => Len(g) = 1
      BY <3>1, <3>6
    <3>8. QED
      BY <3>4, <3>5, <3>6, <3>7
  <2>4. QED
    BY <2>1, <2>2, <2>3, BoundedIs
<1> HIDE DEF g
<1>2. BoundedPortableMessages(g) = g
  <2>1. CASE Fits(g)
    BY <1>1, <2>1, BoundedIs
  <2>2. QED
    BY <1>1, <2>1, OneMessageIsStable
<1>3. QED
  BY <1>1, <1>2 DEF g

LEMMA OverlapIs ==
    ASSUME NEW l \in Seq(Message), NEW r \in Seq(Message)
    PROVE  LET o == Overlap(l, r) IN
           /\ o \in 0..Len(l) /\ o \in 0..Len(r)
           /\ From(l, Len(l) - o + 1) = SubSeq(r, 1, o)
           /\ \A m \in Nat : m <= Len(l) /\ m <= Len(r)
                                /\ From(l, Len(l) - m + 1) = SubSeq(r, 1, m) => m <= o
<1> DEFINE b == Min({Len(l), Len(r)})
           S == {n \in 0..b : From(l, Len(l) - n + 1) = SubSeq(r, 1, n)}
           o == Max(S)
<1>1. Len(l) \in Nat /\ Len(r) \in Nat
  BY LenProperties
<1>2. b \in Nat /\ b <= Len(l) /\ b <= Len(r) /\ (b = Len(l) \/ b = Len(r))
  <2>1. {Len(l), Len(r)} \subseteq Nat /\ {Len(l), Len(r)} # {}
    BY <1>1
  <2>2. b \in {Len(l), Len(r)} /\ \A x \in {Len(l), Len(r)} : b <= x
    BY <2>1, MinIsLeast
  <2> HIDE DEF b
  <2>3. QED
    BY <1>1, <2>2
<1>3. Overlap(l, r) = o
  BY DEF Overlap
<1> HIDE DEF b
<1>4. 0 \in S
  <2> DEFINE P(n) == From(l, Len(l) - n + 1) = SubSeq(r, 1, n)
  <2>1. Len(l) - 0 + 1 \in Int /\ Len(l) < Len(l) - 0 + 1
    BY <1>1
  <2>2. SubSeq(l, Len(l) - 0 + 1, Len(l)) = <<>> /\ SubSeq(r, 1, 0) = <<>>
    BY <1>1, <2>1, SubSeqEmpty
  <2>3. P(0)
    BY <2>2 DEF From
  <2> HIDE DEF P
  <2>4. 0 \in {n \in 0..b : P(n)}
    BY <1>2, <2>3
  <2>5. QED
    BY <2>4 DEF P
<1>5. S \subseteq Nat /\ S # {} /\ \A x \in S : x <= b
  BY <1>2, <1>4, SMTT(30)
<1>6. o \in S /\ \A x \in S : x <= o
  BY <1>2, <1>5, MaxIsGreatest
<1> HIDE DEF o
<1>7. \A m \in Nat : m <= Len(l) /\ m <= Len(r) => m \in 0..b
  BY <1>1, <1>2
<1>8. \A m \in Nat : m <= Len(l) /\ m <= Len(r)
                        /\ From(l, Len(l) - m + 1) = SubSeq(r, 1, m) => m <= o
  BY <1>6, <1>7
<1>9. o \in 0..Len(l) /\ o \in 0..Len(r) /\ From(l, Len(l) - o + 1) = SubSeq(r, 1, o)
  BY <1>1, <1>2, <1>6
<1>10. QED
  BY <1>3, <1>8, <1>9

LEMMA TransitionRebuilds ==
    ASSUME NEW parent \in Seq(Message), NEW h \in Seq(Message)
    PROVE  LET p == BoundedPortableMessages(parent)
               t == PortableTransition(p, h)
           IN /\ t.drop \in 0..Len(p)
              /\ BoundedPortableMessages(From(p, t.drop + 1) \o t.delta) = BoundedPortableMessages(h)
<1> DEFINE p == BoundedPortableMessages(parent)
           g == BoundedPortableMessages(h)
           t == PortableTransition(p, h)
           o == Overlap(p, g)
<1>1. /\ p \in Seq(Message) /\ BoundedPortableMessages(p) = p
      /\ g \in Seq(Message) /\ BoundedPortableMessages(g) = g
  BY BoundedIsStable
<1>2. /\ o \in 0..Len(p) /\ o \in 0..Len(g) /\ Len(p) \in Nat
      /\ From(p, Len(p) - o + 1) = SubSeq(g, 1, o)
  BY <1>1, OverlapIs, LenProperties
<1>3. t.drop = Len(p) - o /\ t.delta = From(g, o + 1)
  BY <1>1 DEF PortableTransition
<1> HIDE DEF p, g, t, o
<1>4. t.drop \in 0..Len(p)
  BY <1>2, <1>3
<1>5. From(p, t.drop + 1) \o t.delta = g
  <2>1. From(p, t.drop + 1) = SubSeq(g, 1, o)
    BY <1>2, <1>3
  <2>2. QED
    BY <1>1, <1>2, <1>3, <2>1, SplitIs
<1>6. QED
  BY <1>1, <1>4, <1>5 DEF p, g, t

\* What ends with an assistant overlaps what repeats it from message k on, and goes on with
\* users and tools only, in just the messages that are repeated.
LEMMA OverlapIsRepetition ==
    ASSUME NEW h \in Seq(Message), NEW n \in 1..Len(h), h[n].role = "assistant",
           NEW k \in 1..(n + 1), \A i \in (n + 1)..Len(h) : h[i].role \in {"user", "tool"}
    PROVE  Overlap(SubSeq(h, 1, n), From(h, k)) = n - k + 1
<1> DEFINE N == Len(h)
           l == SubSeq(h, 1, n)
           r == From(h, k)
           o == Overlap(l, r)
           same == n - k + 1
<1>1. N \in Nat /\ n \in 1..N /\ n \in 0..N /\ k \in 1..(N + 1) /\ same \in Nat
  BY LenProperties
<1>2. l \in Seq(Message) /\ Len(l) = n /\ \A i \in 1..n : l[i] = h[i]
  BY <1>1, StartIs
<1>3. r \in Seq(Message) /\ Len(r) = N - k + 1 /\ \A i \in 1..(N - k + 1) : r[i] = h[k + i - 1]
  BY <1>1, FromIs
<1>4. /\ o \in 0..Len(l) /\ o \in 0..Len(r)
      /\ From(l, Len(l) - o + 1) = SubSeq(r, 1, o)
      /\ \A m \in Nat : m <= Len(l) /\ m <= Len(r)
                           /\ From(l, Len(l) - m + 1) = SubSeq(r, 1, m) => m <= o
  BY <1>2, <1>3, OverlapIs
<1>5. \A i \in (n + 1)..N : h[i].role \in {"user", "tool"}
  OBVIOUS
<1> HIDE DEF N, l, r, o
<1>6. From(l, k) = SubSeq(r, 1, same)
  <2> DEFINE a == From(l, k)
             b == SubSeq(r, 1, same)
  <2>1. k \in 1..(Len(l) + 1) /\ same \in 0..Len(r)
    BY <1>1, <1>2, <1>3
  <2>2. a \in Seq(Message) /\ Len(a) = Len(l) - k + 1 /\ \A i \in 1..(Len(l) - k + 1) : a[i] = l[k + i - 1]
    BY <1>2, <2>1, FromIs
  <2>3. b \in Seq(Message) /\ Len(b) = same /\ \A i \in 1..same : b[i] = r[i]
    BY <1>3, <2>1, StartIs
  <2> HIDE DEF a, b
  <2>4. ASSUME NEW i \in 1..same PROVE a[i] = b[i]
    <3>1. i \in 1..(Len(l) - k + 1) /\ k + i - 1 \in 1..n /\ i \in 1..(N - k + 1)
      BY <1>1, <1>2
    <3>2. a[i] = l[k + i - 1] /\ l[k + i - 1] = h[k + i - 1]
      BY <1>2, <2>2, <3>1
    <3>3. b[i] = r[i] /\ r[i] = h[k + i - 1]
      BY <1>3, <2>3, <3>1
    <3>4. QED
      BY <3>2, <3>3
  <2>5. Len(a) = same
    BY <1>2, <2>2
  <2>6. a = b
    BY <2>2, <2>3, <2>4, <2>5, SameMessages
  <2>7. QED
    BY <2>6 DEF a, b
<1>7. same <= o
  <2>1. Len(l) - same + 1 = k /\ same <= Len(l) /\ same <= Len(r)
    BY <1>1, <1>2, <1>3
  <2> HIDE DEF same
  <2>2. QED
    BY <1>1, <1>4, <1>6, <2>1
<1>8. ~(same < o)
  <2> SUFFICES ASSUME same < o PROVE FALSE
    OBVIOUS
  <2>1. /\ o \in Nat /\ o >= 1 /\ o <= n /\ o <= N - k + 1
        /\ n - o + 1 \in 1..(Len(l) + 1) /\ Len(l) - o + 1 = n - o + 1
    BY <1>1, <1>2, <1>3, <1>4
  <2> DEFINE a == From(l, n - o + 1)
             b == SubSeq(r, 1, o)
  <2>2. /\ a \in Seq(Message) /\ Len(a) = Len(l) - (n - o + 1) + 1
        /\ \A i \in 1..(Len(l) - (n - o + 1) + 1) : a[i] = l[n - o + 1 + i - 1]
    BY <1>2, <2>1, FromIs
  <2>3. b \in Seq(Message) /\ Len(b) = o /\ \A i \in 1..o : b[i] = r[i]
    BY <1>3, <1>4, StartIs
  <2>4. a = b
    BY <1>4, <2>1
  <2> HIDE DEF a, b
  <2>5. a[o] = h[n]
    <3>1. o \in 1..(Len(l) - (n - o + 1) + 1) /\ n - o + 1 + o - 1 = n /\ n \in 1..n
      BY <1>1, <1>2, <2>1
    <3>2. a[o] = l[n - o + 1 + o - 1]
      BY <2>2, <3>1
    <3>3. QED
      BY <1>2, <3>1, <3>2
  <2>6. b[o] = h[k + o - 1]
    <3>1. o \in 1..o /\ o \in 1..(N - k + 1)
      BY <2>1
    <3>2. QED
      BY <1>3, <2>3, <3>1
  <2>7. k + o - 1 \in (n + 1)..N
    BY <1>1, <2>1
  <2>8. h[k + o - 1].role \in {"user", "tool"}
    BY <1>5, <2>7
  <2>9. QED
    BY <2>4, <2>5, <2>6, <2>8
<1>9. o = same
  BY <1>1, <1>2, <1>4, <1>7, <1>8
<1>10. QED
  BY <1>9 DEF o, l, r

LEMMA MergeContinues ==
    ASSUME NEW h \in Seq(Message), Fits(h), NEW n \in 1..Len(h), h[n].role = "assistant",
           NEW k \in 1..(n + 1), \A i \in (n + 1)..Len(h) : h[i].role \in {"user", "tool"}
    PROVE  MergePortableMessages(SubSeq(h, 1, n), From(h, k)) = h
<1> DEFINE N == Len(h)
           l == SubSeq(h, 1, n)
           r == From(h, k)
           same == n - k + 1
<1>1. N \in Nat /\ n \in 1..N /\ n \in 0..N /\ k \in 1..(N + 1) /\ same \in Nat
  BY LenProperties
<1>2. l \in Seq(Message) /\ Len(l) = n /\ \A i \in 1..n : l[i] = h[i]
  BY <1>1, StartIs
<1>3. r \in Seq(Message) /\ Len(r) = N - k + 1 /\ \A i \in 1..(N - k + 1) : r[i] = h[k + i - 1]
  BY <1>1, FromIs
<1>4. Overlap(l, r) = same
  BY OverlapIsRepetition
<1>5. MergePortableMessages(l, r)
         = BoundedPortableMessages(BoundedPortableMessages(l)
              \o From(BoundedPortableMessages(r),
                      Overlap(BoundedPortableMessages(l), BoundedPortableMessages(r)) + 1))
  BY DEF MergePortableMessages
<1> HIDE DEF N, l, r
<1>6. BoundedPortableMessages(l) = l
  <2>1. \A i \in 1..Len(l) : l[i] = h[i + 0]
    BY <1>1, <1>2
  <2>2. Len(l) + 0 <= Len(h) /\ 0 \in Nat
    BY <1>1, <1>2 DEF N
  <2>3. Fits(l)
    BY <1>2, <2>1, <2>2, PartFits
  <2>4. QED
    BY <1>2, <2>3, BoundedIs
<1>7. BoundedPortableMessages(r) = r
  <2>1. k - 1 \in Nat /\ Len(r) + (k - 1) <= Len(h)
    BY <1>1, <1>3 DEF N
  <2>2. \A i \in 1..Len(r) : r[i] = h[i + (k - 1)]
    <3>1. \A i \in 1..Len(r) : i \in 1..(N - k + 1) /\ k + i - 1 = i + (k - 1)
      BY <1>1, <1>3
    <3>2. QED
      BY <1>3, <3>1
  <2>3. Fits(r)
    BY <1>3, <2>1, <2>2, PartFits
  <2>4. QED
    BY <1>3, <2>3, BoundedIs
<1>8. From(r, same + 1) = From(h, n + 1)
  <2> DEFINE a == From(r, same + 1)
             b == From(h, n + 1)
  <2>1. same + 1 \in 1..(Len(r) + 1) /\ n + 1 \in 1..(Len(h) + 1)
    BY <1>1, <1>3 DEF N
  <2>2. /\ a \in Seq(Message) /\ Len(a) = Len(r) - (same + 1) + 1
        /\ \A i \in 1..(Len(r) - (same + 1) + 1) : a[i] = r[same + 1 + i - 1]
    BY <1>3, <2>1, FromIs
  <2>3. /\ b \in Seq(Message) /\ Len(b) = N - (n + 1) + 1
        /\ \A i \in 1..(N - (n + 1) + 1) : b[i] = h[n + 1 + i - 1]
    BY <2>1, FromIs DEF N
  <2> HIDE DEF a, b
  <2>4. Len(a) = Len(b)
    BY <1>1, <1>3, <2>2, <2>3
  <2>5. ASSUME NEW i \in 1..Len(b) PROVE a[i] = b[i]
    <3>1. /\ i \in 1..(Len(r) - (same + 1) + 1) /\ i \in 1..(N - (n + 1) + 1)
          /\ same + 1 + i - 1 \in 1..(N - k + 1)
          /\ k + (same + 1 + i - 1) - 1 = n + 1 + i - 1
      BY <1>1, <1>3, <2>3
    <3>2. a[i] = r[same + 1 + i - 1]
      BY <2>2, <3>1
    <3>3. r[same + 1 + i - 1] = h[k + (same + 1 + i - 1) - 1]
      BY <1>3, <3>1
    <3>4. b[i] = h[n + 1 + i - 1]
      BY <2>3, <3>1
    <3>5. QED
      BY <3>1, <3>2, <3>3, <3>4
  <2>6. a = b
    BY <2>2, <2>3, <2>4, <2>5, SameMessages
  <2>7. QED
    BY <2>6 DEF a, b
<1>9. l \o From(h, n + 1) = h
  BY <1>1, SplitIs DEF l, N
<1>10. BoundedPortableMessages(h) = h
  BY BoundedIs
<1> HIDE DEF same
<1>11. MergePortableMessages(l, r) = h
  BY <1>4, <1>5, <1>6, <1>7, <1>8, <1>9, <1>10
<1>12. QED
  BY <1>11 DEF l, r

LEMMA ConversationGoesOn == ConversationTyped => ConversationsContinue
<1> SUFFICES ASSUME ConversationTyped PROVE ConversationsContinue
  OBVIOUS
<1>1. messages \in Seq(Message)
  BY DEF ConversationTyped
<1>2. BoundingIsStable
  BY <1>1, BoundedIsStable DEF BoundingIsStable
<1>3. TransitionIsExact
  <2>1. ASSUME NEW parent \in Prefixes(messages) PROVE parent \in Seq(Message)
    <3>1. PICK n \in 0..Len(messages) : parent = SubSeq(messages, 1, n)
      BY DEF Prefixes
    <3>2. QED
      BY <1>1, <3>1, StartIs
  <2>2. QED
    BY <1>1, <2>1, TransitionRebuilds DEF TransitionIsExact
<1>4. BothClientStylesContinue
  BY <1>1, MergeContinues DEF BothClientStylesContinue
<1>5. QED
  BY <1>2, <1>3, <1>4 DEF ConversationsContinue

\* A conversation goes on as it was: bounding what was bounded changes nothing, a response
\* stored as a transition from its parent reads back exactly, and a client that sends only what
\* is new or repeats any end of what the gateway has continues the same conversation
\* (materializeHistoryLocked, portableTransition, mergePortableMessages).
THEOREM ConversationsGoOn == Spec => []ConversationsContinue
<1>1. ConversationTyped => ConversationsContinue
  BY ConversationGoesOn
<1>2. QED
  BY <1>1, ConversationsAreTyped, PTL

---------------------------------------------------------------------------
(* What is sent upstream: the units of a conversation, and where they end.  *)

EndOf(h, u) == UnitEnd(PromptUnits(h), h, u)

LEMMA UnitsAre ==
    ASSUME NEW h \in Seq(Message)
    PROVE  /\ PromptUnits(h) \subseteq 1..Len(h)
           /\ h # <<>> => 1 \in PromptUnits(h)
           /\ \A i \in 1..Len(h) : h[i].role # "tool" => i \in PromptUnits(h)
           /\ \A i \in 1..Len(h) : i \in PromptUnits(h) <=> StartsUnit(h, i)
<1>1. Len(h) \in Nat /\ DOMAIN h = 1..Len(h) /\ (h # <<>> => Len(h) # 0)
  BY LenProperties, EmptySeq
<1>2. PromptUnits(h) = {i \in 1..Len(h) : StartsUnit(h, i)}
  BY <1>1 DEF PromptUnits
<1>3. StartsUnit(h, 1)
  <2>1. 1..(1 - 1) = {}
    OBVIOUS
  <2>2. QED
    BY <2>1 DEF StartsUnit
<1>4. \A i \in 1..Len(h) : h[i].role # "tool" => StartsUnit(h, i)
  BY DEF StartsUnit
<1>5. h # <<>> => 1 \in 1..Len(h)
  BY <1>1
<1>6. QED
  BY <1>2, <1>3, <1>4, <1>5

LEMMA EndIs ==
    ASSUME NEW h \in Seq(Message), NEW u \in PromptUnits(h)
    PROVE  /\ u \in 1..Len(h)
           /\ EndOf(h, u) \in u..Len(h)
           /\ \A v \in PromptUnits(h) : v > u => v > EndOf(h, u)
           /\ EndOf(h, u) = Len(h) \/ EndOf(h, u) + 1 \in PromptUnits(h)
<1> DEFINE n == Len(h)
           units == PromptUnits(h)
           later == {v \in units : v > u} \cup {n + 1}
           next == Min(later)
<1>1. n \in Nat /\ units \subseteq 1..n /\ u \in 1..n
  BY UnitsAre, LenProperties
<1> HIDE DEF n, units
<1>2. later \subseteq Nat /\ later # {} /\ \A v \in later : v > u /\ v <= n + 1
  <2>1. n + 1 \in later /\ n + 1 \in Nat /\ n + 1 > u
    BY <1>1
  <2>2. ASSUME NEW v \in later PROVE v \in Nat /\ v > u /\ v <= n + 1
    <3>1. CASE v = n + 1
      BY <2>1, <3>1
    <3>2. CASE v \in units /\ v > u
      BY <1>1, <3>2
    <3>3. QED
      BY <3>1, <3>2
  <2> HIDE DEF later
  <2>3. QED
    BY <2>1, <2>2
<1>3. next \in later /\ \A v \in later : next <= v
  BY <1>2, MinIsLeast
<1>4. EndOf(h, u) = next - 1
  BY DEF EndOf, UnitEnd, units, n
<1> HIDE DEF next
<1>5. next \in Nat /\ next > u /\ next <= n + 1 /\ next - 1 + 1 = next
  BY <1>2, <1>3
<1>6. next - 1 \in u..n
  BY <1>1, <1>5
<1>7. next - 1 = n \/ next \in units
  BY <1>1, <1>3, <1>5
<1>8. \A v \in units : v > u => v > next - 1
  BY <1>1, <1>3, <1>5
<1>9. QED
  BY <1>1, <1>4, <1>5, <1>6, <1>7, <1>8 DEF n, units

\* Every message belongs to a unit.
LEMMA UnitOfMessage ==
    ASSUME NEW h \in Seq(Message), NEW i \in 1..Len(h)
    PROVE  \E u \in PromptUnits(h) : /\ i \in u..EndOf(h, u)
                                     /\ \A v \in PromptUnits(h) : v <= i => v <= u
<1> DEFINE before == {u \in PromptUnits(h) : u <= i}
<1>1. Len(h) \in Nat /\ h # <<>> /\ PromptUnits(h) \subseteq 1..Len(h)
  BY UnitsAre, LenProperties, EmptySeq
<1>2. 1 \in before
  BY <1>1, UnitsAre
<1>3. before \subseteq Nat /\ before # {} /\ \A u \in before : u <= i
  BY <1>1, <1>2
<1>4. PICK u \in before : \A v \in before : v <= u
  <2>1. i \in Nat
    BY <1>1
  <2> HIDE DEF before
  <2>2. QED
    BY <1>3, <2>1, GreatestExists
<1>5. u \in PromptUnits(h) /\ u <= i
  BY <1>4
<1>6. /\ EndOf(h, u) \in u..Len(h)
      /\ \A v \in PromptUnits(h) : v > u => v > EndOf(h, u)
      /\ EndOf(h, u) = Len(h) \/ EndOf(h, u) + 1 \in PromptUnits(h)
  BY <1>5, EndIs
<1>7. i <= EndOf(h, u)
  <2>1. SUFFICES ASSUME i > EndOf(h, u) PROVE FALSE
    BY <1>1, <1>6
  <2>2. EndOf(h, u) + 1 \in before
    BY <1>1, <1>6, <2>1
  <2>3. QED
    BY <1>1, <1>4, <1>6, <2>2
<1>8. QED
  BY <1>1, <1>4, <1>5, <1>6, <1>7

---------------------------------------------------------------------------
(* The messages of chosen units, as the messages at certain positions.      *)

Covered(h, chosen, k) == {i \in 1..Len(h) : \E u \in chosen : u <= k /\ i \in u..EndOf(h, u)}

\* q lists the positions in M upwards, and g has the messages there.
Lists(h, g, M, q) ==
    /\ q \in [1..Len(g) -> M]
    /\ \A a, b \in 1..Len(g) : a < b => q[a] < q[b]
    /\ \A i \in M : \E a \in 1..Len(g) : q[a] = i
    /\ \A a \in 1..Len(g) : g[a] = h[q[a]]

Gathers(h, g, M) == \E q : Lists(h, g, M, q)

LEMMA PartIs ==
    ASSUME NEW h \in Seq(Message), NEW u \in 1..Len(h), NEW e \in u..Len(h)
    PROVE  LET p == SubSeq(h, u, e) IN
           /\ p \in Seq(Message) /\ Len(p) = e - u + 1
           /\ \A i \in 1..(e - u + 1) : p[i] = h[u + i - 1]
<1> DEFINE p == SubSeq(h, u, e)
<1>1. Len(h) \in Nat /\ \A i \in u..e : h[i] \in Message
  BY LenProperties, ElementOfSeq
<1>2. /\ p \in Seq(Message)
      /\ Len(p) = IF u <= e THEN e - u + 1 ELSE 0
      /\ \A i \in 1..(e - u + 1) : p[i] = h[u + i - 1]
  BY <1>1, SubSeqProperties
<1> HIDE DEF p
<1>3. Len(p) = e - u + 1
  BY <1>1, <1>2
<1>4. QED
  BY <1>2, <1>3 DEF p

LEMMA GathersMore ==
    ASSUME NEW h \in Seq(Message), NEW g \in Seq(Message), NEW M, M \subseteq 1..Len(h),
           Gathers(h, g, M), NEW u \in 1..Len(h), NEW e \in u..Len(h), \A i \in M : i < u
    PROVE  Gathers(h, g \o SubSeq(h, u, e), M \cup (u..e))
<1> DEFINE p == SubSeq(h, u, e)
           l == Len(g)
           w == g \o p
           N == M \cup (u..e)
<1>1. PICK q : Lists(h, g, M, q)
  BY DEF Gathers
<1>2. p \in Seq(Message) /\ Len(p) = e - u + 1 /\ \A i \in 1..(e - u + 1) : p[i] = h[u + i - 1]
  BY PartIs
<1>3. l \in Nat /\ u \in Nat /\ e \in Nat /\ u <= e /\ Len(h) \in Nat
  BY LenProperties
<1>4. /\ w \in Seq(Message) /\ Len(w) = l + Len(p)
      /\ \A i \in 1..l : w[i] = g[i]
      /\ \A i \in (l + 1)..(l + Len(p)) : w[i] = p[i - l]
  BY <1>2, JoinIs
<1>5. /\ q \in [1..l -> M]
      /\ \A a, b \in 1..l : a < b => q[a] < q[b]
      /\ \A i \in M : \E a \in 1..l : q[a] = i
      /\ \A a \in 1..l : g[a] = h[q[a]]
  BY <1>1 DEF Lists
<1>6. Len(w) = l + (e - u + 1) /\ Len(w) \in Nat
  BY <1>2, <1>3, <1>4
<1> HIDE DEF p, l, w
<1> DEFINE r == [a \in 1..Len(w) |-> IF a <= l THEN q[a] ELSE u + (a - l) - 1]
<1>7. \A a \in 1..Len(w) : \/ a \in 1..l /\ r[a] = q[a] /\ r[a] \in M /\ w[a] = h[r[a]]
                           \/ /\ a \in (l + 1)..Len(w) /\ r[a] = u + (a - l) - 1 /\ r[a] \in u..e
                              /\ w[a] = h[r[a]]
  <2>1. ASSUME NEW a \in 1..l PROVE a \in 1..Len(w) /\ r[a] = q[a] /\ r[a] \in M /\ w[a] = h[r[a]]
    <3>1. a \in 1..Len(w) /\ a <= l
      BY <1>3, <1>6
    <3>2. r[a] = q[a]
      BY <3>1
    <3> HIDE DEF r
    <3>3. QED
      BY <1>4, <1>5, <3>1, <3>2
  <2>2. ASSUME NEW a \in (l + 1)..Len(w)
        PROVE  a \in 1..Len(w) /\ r[a] = u + (a - l) - 1 /\ r[a] \in u..e /\ w[a] = h[r[a]]
    <3>1. a \in 1..Len(w) /\ ~(a <= l) /\ a - l \in 1..(e - u + 1)
      BY <1>3, <1>6
    <3>2. r[a] = u + (a - l) - 1
      BY <3>1
    <3>3. w[a] = p[a - l] /\ p[a - l] = h[u + (a - l) - 1]
      BY <1>2, <1>4, <3>1
    <3>4. u + (a - l) - 1 \in u..e
      BY <1>3, <3>1
    <3>5. QED
      BY <3>1, <3>2, <3>3, <3>4
  <2>3. \A a \in 1..Len(w) : a \in 1..l \/ a \in (l + 1)..Len(w)
    BY <1>3, <1>6
  <2>4. QED
    BY <2>1, <2>2, <2>3
<1>8. r \in [1..Len(w) -> N]
  <2>1. \A a \in 1..Len(w) : r[a] \in N
    BY <1>7
  <2>2. QED
    BY <2>1
<1> HIDE DEF r
<1>9. ASSUME NEW a \in 1..Len(w), NEW b \in 1..Len(w), a < b PROVE r[a] < r[b]
  <2>1. CASE a \in 1..l /\ b \in 1..l
    <3>1. r[a] = q[a] /\ r[b] = q[b]
      BY <1>3, <1>7, <2>1
    <3>2. QED
      BY <1>5, <1>9, <2>1, <3>1
  <2>2. CASE a \in 1..l /\ b \in (l + 1)..Len(w)
    <3>1. r[a] \in M /\ r[b] \in u..e
      BY <1>3, <1>7, <2>2
    <3>2. r[a] < u /\ r[a] \in Nat
      <4>1. r[a] \in 1..Len(h) /\ r[a] < u
        BY <3>1
      <4>2. QED
        BY <1>3, <4>1
    <3>3. QED
      BY <1>3, <3>1, <3>2
  <2>3. CASE a \in (l + 1)..Len(w) /\ b \in (l + 1)..Len(w)
    <3>1. r[a] = u + (a - l) - 1 /\ r[b] = u + (b - l) - 1
      BY <1>3, <1>7, <2>3
    <3>2. QED
      BY <1>3, <1>6, <1>9, <3>1
  <2>4. QED
    BY <1>3, <1>6, <1>9, <2>1, <2>2, <2>3
<1>10. ASSUME NEW i \in N PROVE \E a \in 1..Len(w) : r[a] = i
  <2>1. CASE i \in M
    <3>1. PICK a \in 1..l : q[a] = i
      BY <1>5, <2>1
    <3>2. a \in 1..Len(w) /\ ~(a \in (l + 1)..Len(w))
      BY <1>3, <1>6
    <3>3. QED
      BY <1>7, <3>1, <3>2
  <2>2. CASE i \in u..e
    <3> DEFINE a == l + (i - u) + 1
    <3>1. a \in 1..Len(w) /\ ~(a \in 1..l) /\ u + (a - l) - 1 = i
      BY <1>3, <1>6, <2>2
    <3> HIDE DEF a
    <3>2. r[a] = i
      BY <1>7, <3>1
    <3>3. QED
      BY <3>1, <3>2
  <2>3. QED
    BY <2>1, <2>2
<1>11. \A a \in 1..Len(w) : w[a] = h[r[a]]
  BY <1>7
<1> HIDE DEF N
<1>12. Lists(h, w, N, r)
  BY <1>8, <1>9, <1>10, <1>11 DEF Lists
<1>13. QED
  BY <1>12 DEF Gathers, N, w, p

LEMMA BytesJoin ==
    ASSUME NEW g \in Seq(Message), NEW h \in Seq(Message)
    PROVE  /\ PortableMessagesBytes(g) \in Nat /\ PortableMessagesBytes(h) \in Nat
           /\ PortableMessagesBytes(g \o h) = PortableMessagesBytes(g) + PortableMessagesBytes(h)
<1> DEFINE Large(s) == {i \in DOMAIN s : s[i].text = LargeText}
           l == Len(g)
           w == g \o h
           shift == [i \in Large(h) |-> i + l]
           A == Large(g)
           B == Large(h)
           S == {i + l : i \in B}
<1>1. l \in Nat /\ DOMAIN g = 1..l /\ Len(h) \in Nat /\ DOMAIN h = 1..Len(h)
  BY LenProperties
<1>2. /\ w \in Seq(Message) /\ Len(w) = l + Len(h)
      /\ \A i \in 1..l : w[i] = g[i]
      /\ \A i \in (l + 1)..(l + Len(h)) : w[i] = h[i - l]
  BY JoinIs
<1>3. DOMAIN w = 1..(l + Len(h))
  BY <1>2, LenProperties
<1> HIDE DEF l, w
<1>4. IsFiniteSet(A) /\ IsFiniteSet(B)
  <2>1. IsFiniteSet(1..l) /\ IsFiniteSet(1..Len(h))
    BY <1>1, FS_Interval
  <2>2. A \subseteq 1..l /\ B \subseteq 1..Len(h)
    BY <1>1
  <2> HIDE DEF A, B
  <2>3. QED
    BY <2>1, <2>2, FS_Subset
<1>5. Large(w) = A \cup S
  <2>1. ASSUME NEW i \in Large(w) PROVE i \in A \cup S
    <3>1. i \in 1..(l + Len(h)) /\ w[i].text = LargeText
      BY <1>3
    <3>2. CASE i \in 1..l
      BY <1>1, <1>2, <3>1, <3>2
    <3>3. CASE i \notin 1..l
      <4>1. i \in (l + 1)..(l + Len(h)) /\ i - l \in 1..Len(h) /\ (i - l) + l = i
        BY <1>1, <3>1, <3>3
      <4>2. i - l \in B
        BY <1>1, <1>2, <3>1, <4>1
      <4>3. QED
        BY <4>1, <4>2
    <3>4. QED
      BY <3>2, <3>3
  <2>2. ASSUME NEW i \in A PROVE i \in Large(w)
    <3>1. i \in 1..l /\ g[i].text = LargeText
      BY <1>1
    <3>2. i \in 1..(l + Len(h)) /\ w[i] = g[i]
      BY <1>1, <1>2, <3>1
    <3>3. QED
      BY <1>3, <3>1, <3>2
  <2>3. ASSUME NEW i \in B PROVE i + l \in Large(w)
    <3>1. i \in 1..Len(h) /\ h[i].text = LargeText
      BY <1>1
    <3>2. i + l \in (l + 1)..(l + Len(h)) /\ i + l \in 1..(l + Len(h)) /\ (i + l) - l = i
      BY <1>1, <3>1
    <3>3. w[i + l] = h[i]
      BY <1>2, <3>2
    <3>4. QED
      BY <1>3, <3>1, <3>2, <3>3
  <2> HIDE DEF Large
  <2>4. QED
    BY <2>1, <2>2, <2>3
<1>6. A \cap S = {}
  BY <1>1
<1>7. shift \in Bijection(B, S)
  <2>1. \A i \in B : i \in Nat
    BY <1>1
  <2>2. shift \in [B -> S] /\ \A i \in B : shift[i] = i + l
    OBVIOUS
  <2> HIDE DEF shift, B
  <2>3. \A i, j \in B : shift[i] = shift[j] => i = j
    BY <1>1, <2>1, <2>2
  <2>4. \A x \in S : \E i \in B : shift[i] = x
    BY <2>2
  <2>5. QED
    BY <2>2, <2>3, <2>4 DEF Bijection, Injection, Surjection, IsInjective
<1> HIDE DEF Large, A, B, S, shift
<1>8. IsFiniteSet(S) /\ Cardinality(S) = Cardinality(B)
  BY <1>4, <1>7, FS_Bijection DEF ExistsBijection
<1>9. Cardinality(A \cap S) = 0
  BY <1>6, FS_EmptySet
<1>10. Cardinality(A) \in Nat /\ Cardinality(B) \in Nat
  BY <1>4, FS_CardinalityType
<1>11. Cardinality(A \cup S) = Cardinality(A) + Cardinality(S) - Cardinality(A \cap S)
  BY <1>4, <1>8, FS_Union
<1>12. Cardinality(Large(w)) = Cardinality(A) + Cardinality(B)
  BY <1>5, <1>8, <1>9, <1>10, <1>11
<1>13. /\ PortableMessagesBytes(g) = l + 2 * Cardinality(A)
       /\ PortableMessagesBytes(h) = Len(h) + 2 * Cardinality(B)
       /\ PortableMessagesBytes(w) = Len(w) + 2 * Cardinality(Large(w))
  BY DEF PortableMessagesBytes, Large, A, B, l
<1>14. /\ PortableMessagesBytes(g) \in Nat /\ PortableMessagesBytes(h) \in Nat
       /\ PortableMessagesBytes(w) = PortableMessagesBytes(g) + PortableMessagesBytes(h)
  BY <1>1, <1>2, <1>10, <1>12, <1>13, SMTT(30)
<1>15. QED
  BY <1>14 DEF w

---------------------------------------------------------------------------
(* Tokens of the chosen units, added up unit by unit.                      *)

Piece(h, c, u) == IF u \in c THEN SubSeq(h, u, EndOf(h, u)) ELSE <<>>

Cost(h, c, u) == IF u \in c THEN UnitTokens(PromptUnits(h), h, u) ELSE 0

Summing(h, c, n, S) == S = [k \in 0..n |-> IF k = 0 THEN 0 ELSE S[k - 1] + Cost(h, c, k)]

LEMMA SummingExists ==
    ASSUME NEW h, NEW c, NEW n \in Nat
    PROVE  \E S : Summing(h, c, n, S)
<1> DEFINE Bad == {m \in Nat : ~\E S : Summing(h, c, m, S)}
<1>1. SUFFICES ASSUME Bad # {} PROVE FALSE
  OBVIOUS
<1>2. PICK m \in Bad : \A j \in Bad : m <= j
  BY <1>1, LeastExists
<1>3. m # 0
  <2> DEFINE E == [k \in 0..0 |-> 0]
  <2>1. 0..0 = {0}
    OBVIOUS
  <2>2. E = [k \in 0..0 |-> IF k = 0 THEN 0 ELSE E[k - 1] + Cost(h, c, k)]
    BY <2>1
  <2>3. QED
    BY <2>2 DEF Summing
<1>4. m - 1 \in Nat /\ m - 1 \notin Bad
  BY <1>2, <1>3
<1>5. PICK G : Summing(h, c, m - 1, G)
  BY <1>4
<1> DEFINE e(k, H) == IF k = 0 THEN 0 ELSE H[k - 1] + Cost(h, c, k)
           F == [k \in 0..m |-> IF k < m THEN G[k] ELSE e(k, G)]
<1>6. ASSUME NEW k \in 0..m PROVE F[k] = e(k, F)
  <2>1. G = [i \in 0..(m - 1) |-> e(i, G)]
    BY <1>5 DEF Summing
  <2>2. k # 0 => F[k - 1] = G[k - 1]
    BY <1>4
  <2>3. e(k, F) = e(k, G)
    BY <2>2
  <2> HIDE DEF e
  <2>4. k \in 0..(m - 1) => G[k] = e(k, G)
    BY <2>1
  <2>5. F[k] = IF k < m THEN G[k] ELSE e(k, G)
    OBVIOUS
  <2>6. QED
    BY <1>4, <2>3, <2>4, <2>5
<1>7. F = [k \in 0..m |-> e(k, F)]
  <2> DEFINE C == [k \in 0..m |-> e(k, F)]
  <2>1. \A k \in 0..m : F[k] = C[k]
    BY <1>6
  <2>2. QED
    BY <2>1
<1>8. Summing(h, c, m, F)
  BY <1>7 DEF Summing
<1>9. QED
  BY <1>2, <1>8

LEMMA SummingAt ==
    ASSUME NEW h, NEW c, NEW n, NEW S, Summing(h, c, n, S), NEW k \in 0..n
    PROVE  S[k] = IF k = 0 THEN 0 ELSE S[k - 1] + Cost(h, c, k)
<1> DEFINE e(i) == IF i = 0 THEN 0 ELSE S[i - 1] + Cost(h, c, i)
<1>1. S = [i \in 0..n |-> e(i)]
  BY DEF Summing
<1> HIDE DEF e
<1>2. S[k] = e(k)
  BY <1>1
<1>3. QED
  BY <1>2 DEF e

LEMMA TokensAre ==
    ASSUME NEW h \in Seq(Message), NEW c
    PROVE  \E S : /\ Summing(h, c, Len(h), S)
                  /\ TokensOf(PromptUnits(h), h, c) = S[Len(h)]
<1> DEFINE n == Len(h)
           Sums(f) == f = [k \in 0..n |-> IF k = 0 THEN 0 ELSE f[k - 1] +
                               (IF k \in c THEN UnitTokens(PromptUnits(h), h, k) ELSE 0)]
           S == CHOOSE f : Sums(f)
<1>1. n \in Nat
  BY LenProperties
<1>2. \A f : Sums(f) <=> Summing(h, c, n, f)
  BY DEF Summing, Cost
<1>3. TokensOf(PromptUnits(h), h, c) = S[n]
  BY DEF TokensOf
<1> HIDE DEF Sums
<1>4. \E f : Sums(f)
  BY <1>1, <1>2, SummingExists
<1>5. Sums(S)
  BY <1>4
<1>6. QED
  BY <1>2, <1>3, <1>5

LEMMA PieceIs ==
    ASSUME NEW h \in Seq(Message), NEW c, c \subseteq PromptUnits(h), NEW u \in 1..Len(h)
    PROVE  /\ Piece(h, c, u) \in Seq(Message)
           /\ Cost(h, c, u) \in Nat
           /\ Cost(h, c, u) = PortableMessagesBytes(Piece(h, c, u))
<1>1. CASE u \notin c
  BY <1>1, NothingWeighsNothing, EmptySeq DEF Piece, Cost
<1>2. CASE u \in c
  <2>1. u \in 1..Len(h) /\ EndOf(h, u) \in u..Len(h)
    BY <1>2, EndIs
  <2>2. Piece(h, c, u) = SubSeq(h, u, EndOf(h, u)) /\ Piece(h, c, u) \in Seq(Message)
    BY <1>2, <2>1, PartIs DEF Piece
  <2>3. Cost(h, c, u) = PortableMessagesBytes(Piece(h, c, u))
    BY <1>2, <2>2 DEF Cost, UnitTokens, EndOf
  <2>4. QED
    BY <2>2, <2>3, BytesJoin
<1>3. QED
  BY <1>1, <1>2

LEMMA CoveredMore ==
    ASSUME NEW h \in Seq(Message), NEW c, c \subseteq PromptUnits(h), NEW k \in 1..Len(h)
    PROVE  /\ Covered(h, c, k - 1) \subseteq 1..Len(h)
           /\ k \notin c => Covered(h, c, k) = Covered(h, c, k - 1)
           /\ k \in c => /\ EndOf(h, k) \in k..Len(h)
                         /\ Covered(h, c, k) = Covered(h, c, k - 1) \cup (k..EndOf(h, k))
                         /\ \A i \in Covered(h, c, k - 1) : i < k
<1> DEFINE n == Len(h)
<1>1. n \in Nat /\ c \subseteq 1..n
  BY UnitsAre, LenProperties
<1>2. \A u \in c : /\ EndOf(h, u) \in u..n
                   /\ \A v \in c : v > u => v > EndOf(h, u)
  BY EndIs
<1> HIDE DEF n
<1>3. Covered(h, c, k) = {i \in 1..n : \E u \in c : u <= k /\ i \in u..EndOf(h, u)}
  BY DEF Covered, n
<1>4. Covered(h, c, k - 1) = {i \in 1..n : \E u \in c : u <= k - 1 /\ i \in u..EndOf(h, u)}
  BY DEF Covered, n
<1>5. k \in 1..n
  BY DEF n
<1>6. \A u \in c : u <= k <=> u <= k - 1 \/ u = k
  BY <1>1, <1>5
<1>7. k \notin c => Covered(h, c, k) = Covered(h, c, k - 1)
  BY <1>3, <1>4, <1>6
<1>8. ASSUME k \in c
      PROVE  /\ EndOf(h, k) \in k..n
             /\ Covered(h, c, k) = Covered(h, c, k - 1) \cup (k..EndOf(h, k))
             /\ \A i \in Covered(h, c, k - 1) : i < k
  <2>1. EndOf(h, k) \in k..n
    BY <1>2, <1>8
  <2>2. k..EndOf(h, k) \subseteq 1..n
    BY <1>1, <1>5, <2>1
  <2>3. \A i \in 1..n : i \in Covered(h, c, k) <=> i \in Covered(h, c, k - 1) \/ i \in k..EndOf(h, k)
    BY <1>3, <1>4, <1>5, <1>6, <1>8
  <2>4. Covered(h, c, k) \subseteq 1..n /\ Covered(h, c, k - 1) \subseteq 1..n
    BY <1>3, <1>4
  <2>5. Covered(h, c, k) = Covered(h, c, k - 1) \cup (k..EndOf(h, k))
    BY <2>2, <2>3, <2>4
  <2>6. ASSUME NEW i \in Covered(h, c, k - 1) PROVE i < k
    <3>1. PICK u \in c : u <= k - 1 /\ i \in u..EndOf(h, u)
      BY <1>4
    <3>2. u \in 1..n /\ k > u
      BY <1>1, <1>5, <3>1
    <3>3. k > EndOf(h, u) /\ EndOf(h, u) \in u..n
      BY <1>2, <1>8, <3>2
    <3>4. QED
      BY <1>1, <1>5, <3>1, <3>2, <3>3
  <2>7. QED
    BY <2>1, <2>5, <2>6
<1>9. Covered(h, c, k - 1) \subseteq 1..n
  BY <1>4
<1>10. QED
  BY <1>7, <1>8, <1>9 DEF n

\* The messages of the chosen among the first k units, and what they weigh.
GatheredWell(h, c, k, g, t) ==
    /\ g \in Seq(Message)
    /\ Gathers(h, g, Covered(h, c, k))
    /\ PortableMessagesBytes(g) = t

LEMMA NothingGathered ==
    ASSUME NEW h \in Seq(Message), NEW c, c \subseteq PromptUnits(h)
    PROVE  GatheredWell(h, c, 0, <<>>, 0)
<1>1. \A u \in c : ~(u <= 0)
  BY UnitsAre, LenProperties
<1>2. Covered(h, c, 0) = {}
  BY <1>1 DEF Covered
<1> DEFINE q == [a \in 1..0 |-> 0]
<1>3. 1..0 = {} /\ Len(<<>>) = 0 /\ <<>> \in Seq(Message)
  BY EmptySeq
<1>4. Lists(h, <<>>, {}, q)
  BY <1>3 DEF Lists
<1>5. QED
  BY <1>2, <1>3, <1>4, NothingWeighsNothing DEF GatheredWell, Gathers

LEMMA OneMoreGathered ==
    ASSUME NEW h \in Seq(Message), NEW c, c \subseteq PromptUnits(h), NEW k \in 1..Len(h),
           NEW g, NEW t, GatheredWell(h, c, k - 1, g, t)
    PROVE  GatheredWell(h, c, k, g \o Piece(h, c, k), t + Cost(h, c, k))
<1>1. g \in Seq(Message) /\ Gathers(h, g, Covered(h, c, k - 1)) /\ PortableMessagesBytes(g) = t
  BY DEF GatheredWell
<1>2. /\ Piece(h, c, k) \in Seq(Message)
      /\ Cost(h, c, k) = PortableMessagesBytes(Piece(h, c, k))
  BY PieceIs
<1>3. /\ g \o Piece(h, c, k) \in Seq(Message)
      /\ PortableMessagesBytes(g \o Piece(h, c, k)) = t + Cost(h, c, k)
  BY <1>1, <1>2, JoinIs, BytesJoin
<1>4. /\ Covered(h, c, k - 1) \subseteq 1..Len(h)
      /\ k \notin c => Covered(h, c, k) = Covered(h, c, k - 1)
      /\ k \in c => /\ EndOf(h, k) \in k..Len(h)
                    /\ Covered(h, c, k) = Covered(h, c, k - 1) \cup (k..EndOf(h, k))
                    /\ \A i \in Covered(h, c, k - 1) : i < k
  BY CoveredMore
<1>5. Gathers(h, g \o Piece(h, c, k), Covered(h, c, k))
  <2>1. CASE k \notin c
    <3>1. Piece(h, c, k) = <<>>
      BY <2>1 DEF Piece
    <3>2. g \o Piece(h, c, k) = g
      BY <1>1, <3>1, ConcatEmptySeq
    <3>3. QED
      BY <1>1, <1>4, <2>1, <3>2
  <2>2. CASE k \in c
    <3>1. Gathers(h, g \o SubSeq(h, k, EndOf(h, k)), Covered(h, c, k - 1) \cup (k..EndOf(h, k)))
      BY <1>1, <1>4, <2>2, GathersMore
    <3>2. QED
      BY <1>4, <2>2, <3>1 DEF Piece
  <2>3. QED
    BY <2>1, <2>2
<1>6. QED
  BY <1>3, <1>5 DEF GatheredWell

Pieces(h, c, k) == [u \in 1..k |-> Piece(h, c, u)]

LEMMA FirstUnitsGathered ==
    ASSUME NEW h \in Seq(Message), NEW c, c \subseteq PromptUnits(h),
           NEW S, Summing(h, c, Len(h), S)
    PROVE  GatheredWell(h, c, Len(h), FlattenSeq(Pieces(h, c, Len(h))), S[Len(h)])
<1> DEFINE n == Len(h)
           Well(k) == GatheredWell(h, c, k, FlattenSeq(Pieces(h, c, k)), S[k])
           Bad == {k \in 0..n : ~Well(k)}
<1>1. n \in Nat
  BY LenProperties
<1>2. Bad = {}
  <2>1. SUFFICES ASSUME Bad # {} PROVE FALSE
    OBVIOUS
  <2>2. PICK k \in Bad : \A j \in Bad : k <= j
    <3>1. Bad \subseteq Nat
      BY <1>1
    <3>2. QED
      BY <2>1, <3>1, LeastExists
  <2>3. k # 0
    <3>1. Pieces(h, c, 0) = <<>>
      BY DEF Pieces
    <3>2. 0 \in 0..n
      BY <1>1
    <3>3. S[0] = 0
      BY <3>2, SummingAt
    <3>4. Well(0)
      BY <3>1, <3>3, NothingGathered, FlattenNothing
    <3>5. QED
      BY <2>2, <3>4
  <2>4. k \in 1..n /\ k \in 0..n /\ k - 1 \in 0..n /\ Well(k - 1)
    <3> HIDE DEF Well
    <3>1. k \in 1..n /\ k \in 0..n /\ k - 1 \in 0..n /\ ~(k <= k - 1)
      BY <1>1, <2>2, <2>3
    <3>2. QED
      BY <2>2, <3>1
  <2>5. S[k] = S[k - 1] + Cost(h, c, k)
    BY <2>3, <2>4, SummingAt
  <2>6. \A u \in 1..n : Piece(h, c, u) \in Seq(Message)
    BY PieceIs
  <2>7. Pieces(h, c, k) = Append(Pieces(h, c, k - 1), Piece(h, c, k))
    <3>1. k \in Nat \ {0}
      BY <1>1, <2>4
    <3> HIDE DEF n
    <3>2. QED
      BY <3>1, SMTT(30) DEF Pieces
  <2>8. Pieces(h, c, k - 1) \in Seq(Seq(Message)) /\ Piece(h, c, k) \in Seq(Message)
    <3>1. k - 1 \in Nat /\ \A u \in 1..(k - 1) : Piece(h, c, u) \in Seq(Message)
      BY <1>1, <2>4, <2>6
    <3>2. Piece(h, c, k) \in Seq(Message)
      BY <2>4, <2>6
    <3> HIDE DEF n
    <3>3. QED
      BY <3>1, <3>2 DEF Pieces
  <2>9. FlattenSeq(Pieces(h, c, k)) = FlattenSeq(Pieces(h, c, k - 1)) \o Piece(h, c, k)
    BY <2>7, <2>8, FlattenIsASeq, FlattenAppend
  <2>10. Well(k)
    BY <2>4, <2>5, <2>9, OneMoreGathered
  <2>11. QED
    BY <2>2, <2>10
<1>3. n \in 0..n
  BY <1>1
<1> HIDE DEF Well
<1>4. Well(n)
  BY <1>2, <1>3
<1>5. QED
  BY <1>4 DEF Well, n

LEMMA MessagesGathered ==
    ASSUME NEW h \in Seq(Message), NEW c, c \subseteq PromptUnits(h)
    PROVE  LET g == MessagesOf(PromptUnits(h), h, c) IN
           /\ g \in Seq(Message)
           /\ Gathers(h, g, Covered(h, c, Len(h)))
           /\ PortableMessagesBytes(g) = TokensOf(PromptUnits(h), h, c)
           /\ TokensOf(PromptUnits(h), h, c) \in Nat
<1> DEFINE g == MessagesOf(PromptUnits(h), h, c)
<1>1. PICK S : Summing(h, c, Len(h), S) /\ TokensOf(PromptUnits(h), h, c) = S[Len(h)]
  BY TokensAre
<1>2. DOMAIN h = 1..Len(h)
  BY LenProperties
<1>3. g = FlattenSeq(Pieces(h, c, Len(h)))
  BY <1>2 DEF MessagesOf, Pieces, Piece, EndOf
<1>4. GatheredWell(h, c, Len(h), g, S[Len(h)])
  BY <1>1, <1>3, FirstUnitsGathered
<1> HIDE DEF g
<1>5. QED
  BY <1>1, <1>4, BytesJoin DEF GatheredWell, g

---------------------------------------------------------------------------
(* Whole units of a conversation that obeys the protocol obey it.           *)

LEMMA OneUnit ==
    ASSUME NEW h \in Seq(Message), NEW u \in PromptUnits(h), NEW v \in PromptUnits(h),
           NEW i, i \in u..EndOf(h, u), i \in v..EndOf(h, v)
    PROVE  u = v
<1>1. u \in Nat /\ v \in Nat /\ EndOf(h, u) \in Nat /\ EndOf(h, v) \in Nat
  BY EndIs, LenProperties
<1>2. (v > u => v > EndOf(h, u)) /\ (u > v => u > EndOf(h, v))
  BY EndIs
<1>3. i \in Nat /\ i <= EndOf(h, u) /\ i <= EndOf(h, v) /\ u <= i /\ v <= i
  BY <1>1
<1>4. QED
  BY <1>1, <1>2, <1>3

\* A conversation that can be read to its end.
Whole(h) == AllFollow(h, Len(h)) /\ \A x : ~Waits(h, Len(h) + 1, x)

\* Every call has its result in its own unit.
LEMMA CallsAreAnswered ==
    ASSUME NEW h \in Seq(Message), Whole(h), NEW i \in 1..Len(h), NEW x \in CallIds(h[i])
    PROVE  i \in PromptUnits(h) /\ \E k \in (i + 1)..EndOf(h, i) : h[k].callId = x
<1> DEFINE n == Len(h)
           e == EndOf(h, i)
<1>1. /\ n \in Nat /\ i \in 1..n
      /\ h[i].role = "assistant" /\ h[i].calls # <<>>
  BY ConversationIs, CallIdsAre
<1>2. i \in PromptUnits(h)
  BY <1>1, UnitsAre
<1>3. /\ e \in i..n
      /\ \A v \in PromptUnits(h) : v > i => v > e
      /\ e = n \/ e + 1 \in PromptUnits(h)
  BY <1>2, EndIs
<1>4. \A j \in 1..n : /\ Follows(h, j)
                      /\ h[j].role # "tool" => j \in PromptUnits(h)
                      /\ j \in PromptUnits(h) <=> StartsUnit(h, j)
  BY UnitsAre DEF Whole, AllFollow
<1>5. \A y : ~Waits(h, n + 1, y)
  BY DEF Whole
<1> HIDE DEF n, e
<1>6. ASSUME NEW k \in (i + 1)..e PROVE h[k].role = "tool"
  <2>1. k \in 1..n /\ k > i /\ ~(k > e)
    BY <1>1, <1>3
  <2>2. QED
    BY <1>3, <1>4, <2>1
<1>7. ~Waits(h, e + 1, x)
  <2>1. CASE e = n
    BY <1>5, <2>1
  <2>2. CASE e # n
    <3>1. e + 1 \in 1..n /\ e + 1 \in PromptUnits(h)
      BY <1>1, <1>3, <2>2
    <3>2. h[e + 1].role # "tool"
      <4>1. SUFFICES ASSUME h[e + 1].role = "tool" PROVE FALSE
        OBVIOUS
      <4>2. i \in 1..((e + 1) - 1) /\ \A k \in (i + 1)..(e + 1) : k \in (i + 1)..e \/ k = e + 1
        BY <1>1, <1>3
      <4>3. \A k \in (i + 1)..(e + 1) : h[k].role = "tool"
        BY <1>6, <4>1, <4>2
      <4>4. StartsUnit(h, e + 1)
        BY <1>4, <3>1
      <4>5. QED
        BY <1>1, <4>1, <4>2, <4>3, <4>4 DEF StartsUnit
    <3>3. Follows(h, e + 1)
      BY <1>4, <3>1
    <3>4. QED
      BY <3>2, <3>3 DEF Follows
  <2>3. QED
    BY <2>1, <2>2
<1>8. Leads(h, i, e + 1)
  <2>1. i \in 1..((e + 1) - 1) /\ (e + 1) - 1 = e
    BY <1>1, <1>3
  <2>2. QED
    BY <1>1, <1>6, <2>1 DEF Leads
<1>9. \E k \in (i + 1)..e : h[k].callId = x
  <2>1. i \in 1..((e + 1) - 1) /\ (e + 1) - 1 = e
    BY <1>1, <1>3
  <2>2. QED
    BY <1>7, <1>8, <2>1 DEF Waits
<1>10. QED
  BY <1>2, <1>9 DEF e

\* A result stands in the unit of its call.
LEMMA ResultsStayInside ==
    ASSUME NEW h \in Seq(Message), NEW j \in 1..Len(h), h[j].role = "tool",
           NEW i \in 1..(j - 1), Leads(h, i, j), CallIds(h[i]) # {}
    PROVE  i \in PromptUnits(h) /\ j \in i..EndOf(h, i)
<1> DEFINE n == Len(h)
           e == EndOf(h, i)
<1>1. /\ n \in Nat /\ j \in 1..n /\ i \in 1..n /\ i < j
  BY LenProperties
<1>2. h[i].role = "assistant" /\ h[i].calls # <<>>
  <2>1. h[i] \in Message
    BY <1>1, ElementOfSeq
  <2>2. QED
    BY <2>1, CallIdsAre
<1>3. i \in PromptUnits(h)
  BY <1>1, <1>2, UnitsAre
<1>4. e \in i..n /\ (e = n \/ e + 1 \in PromptUnits(h))
  BY <1>3, EndIs
<1>5. e + 1 \in PromptUnits(h) => StartsUnit(h, e + 1)
  <2>1. PromptUnits(h) \subseteq 1..n
    BY UnitsAre
  <2>2. QED
    BY <2>1, UnitsAre
<1> HIDE DEF n, e
<1>6. j <= e
  <2>1. SUFFICES ASSUME e < j PROVE FALSE
    BY <1>1, <1>4
  <2>2. e + 1 \in PromptUnits(h)
    BY <1>1, <1>4, <2>1
  <2>3. \A k \in (i + 1)..(e + 1) : k \in (i + 1)..(j - 1) \/ k = j
    BY <1>1, <1>4, <2>1
  <2>4. \A k \in (i + 1)..(e + 1) : h[k].role = "tool"
    BY <2>3 DEF Leads
  <2>5. i \in 1..((e + 1) - 1) /\ e + 1 \in (i + 1)..(e + 1)
    BY <1>1, <1>4
  <2>6. QED
    BY <1>2, <1>5, <2>2, <2>4, <2>5 DEF StartsUnit
<1>7. j \in i..e
  BY <1>1, <1>4, <1>6
<1>8. QED
  BY <1>3, <1>7 DEF e

LEMMA ChosenAreWhole ==
    ASSUME NEW h \in Seq(Message), Whole(h), NEW c, c \subseteq PromptUnits(h),
           NEW g \in Seq(Message), Gathers(h, g, Covered(h, c, Len(h)))
    PROVE  Whole(g)
<1> DEFINE n == Len(h)
           N == Len(g)
           M == Covered(h, c, n)
<1>1. PICK q : Lists(h, g, M, q)
  BY DEF Gathers
<1>2. /\ q \in [1..N -> M]
      /\ \A a, b \in 1..N : a < b => q[a] < q[b]
      /\ \A i \in M : \E a \in 1..N : q[a] = i
      /\ \A a \in 1..N : g[a] = h[q[a]]
  BY <1>1 DEF Lists
<1>3. n \in Nat /\ N \in Nat /\ PromptUnits(h) \subseteq 1..n
  BY UnitsAre, LenProperties
<1>4. M = {i \in 1..n : \E u \in c : i \in u..EndOf(h, u)}
  <2>1. \A u \in c : u <= n
    BY <1>3
  <2>2. QED
    BY <2>1 DEF Covered
<1>5. \A j \in 1..n : Follows(h, j)
  BY DEF Whole, AllFollow
<1>6. \A u \in PromptUnits(h) : u \in 1..n /\ EndOf(h, u) \in u..n
  BY EndIs
<1>7. \A a \in 1..N : q[a] \in M /\ q[a] \in 1..n /\ g[a] = h[q[a]]
  BY <1>2, <1>4
<1> HIDE DEF n, N, M
\* What is later in the prompt is later in the conversation, and the other way round.
<1>8. \A a, b \in 1..N : q[a] < q[b] => a < b
  <2>1. SUFFICES ASSUME NEW a \in 1..N, NEW b \in 1..N, q[a] < q[b], ~(a < b) PROVE FALSE
    OBVIOUS
  <2>2. a = b \/ b < a
    BY <1>3, <2>1
  <2>3. q[a] \in Nat /\ q[b] \in Nat /\ (b < a => q[b] < q[a])
    BY <1>2, <1>3, <1>7
  <2>4. QED
    BY <2>1, <2>2, <2>3
\* A call that is chosen is answered in the prompt before anybody else speaks.
<1>9. ASSUME NEW a \in 1..N, NEW x \in CallIds(g[a]), NEW p \in (a + 1)..(N + 1),
             Leads(g, a, p), p \in 1..N => g[p].role # "tool"
      PROVE  \E b \in (a + 1)..(p - 1) : g[b].callId = x
  <2> DEFINE i == q[a]
  <2>1. i \in 1..n /\ i \in M /\ g[a] = h[i]
    BY <1>7
  <2>2. i \in PromptUnits(h) /\ \E k \in (i + 1)..EndOf(h, i) : h[k].callId = x
    BY <1>9, <2>1, CallsAreAnswered, ZenonT(60) DEF n
  <2>3. PICK k \in (i + 1)..EndOf(h, i) : h[k].callId = x
    BY <2>2
  <2>4. EndOf(h, i) \in i..n
    BY <1>6, <2>2
  <2>5. PICK u \in c : i \in u..EndOf(h, u)
    BY <1>4, <2>1
  <2>6. u = i
    <3>1. i \in i..EndOf(h, i) /\ u \in PromptUnits(h)
      BY <2>1, <2>4
    <3>2. QED
      BY <2>2, <2>5, <3>1, OneUnit
  <2> HIDE DEF i
  <2>7. k \in 1..n /\ k \in i..EndOf(h, i) /\ i < k
    BY <1>3, <2>1, <2>4
  <2>8. k \in M
    BY <1>4, <2>5, <2>6, <2>7
  <2>9. PICK b \in 1..N : q[b] = k
    BY <1>2, <2>8
  <2>10. a < b
    BY <1>8, <2>7, <2>9 DEF i
  <2>11. b < p
    <3>1. SUFFICES ASSUME p <= b PROVE FALSE
      BY <1>3
    <3>2. p \in 1..N /\ g[p].role # "tool" /\ a < p
      BY <1>3, <1>9, <3>1
    <3>3. q[p] \in 1..n /\ h[q[p]].role # "tool" /\ i < q[p] /\ q[p] <= k
      <4>1. q[p] \in 1..n /\ h[q[p]].role # "tool"
        BY <1>7, <3>2
      <4>2. q[a] < q[p]
        BY <1>2, <3>2
      <4>3. p = b \/ p < b
        BY <1>3, <3>1, <3>2
      <4>4. q[p] <= k
        BY <1>2, <1>3, <2>7, <2>9, <3>2, <4>1, <4>3
      <4>5. QED
        BY <4>1, <4>2, <4>4 DEF i
    <3>4. q[p] \in PromptUnits(h) /\ q[p] \in i..EndOf(h, i)
      <4>1. q[p] \in PromptUnits(h)
        BY <3>3, UnitsAre DEF n
      <4>2. QED
        BY <1>3, <2>1, <2>4, <2>7, <3>3, <4>1, SMTT(30)
    <3>5. q[p] \in q[p]..EndOf(h, q[p])
      BY <1>3, <1>6, <3>3, <3>4, SMTT(30)
    <3>6. q[p] = i
      BY <2>2, <3>4, <3>5, OneUnit
    <3>7. QED
      BY <2>1, <3>3, <3>6
  <2>12. b \in (a + 1)..(p - 1) /\ g[b] = h[k]
    BY <1>3, <1>7, <2>9, <2>10, <2>11
  <2>13. QED
    BY <2>3, <2>12
<1>10. ASSUME NEW p \in 1..(N + 1), p \in 1..N => g[p].role # "tool", NEW x
       PROVE  ~Waits(g, p, x)
  <2> SUFFICES ASSUME NEW a \in 1..(p - 1), Leads(g, a, p), x \in CallIds(g[a]),
                      \A b \in (a + 1)..(p - 1) : g[b].callId # x
               PROVE  FALSE
    BY DEF Waits
  <2>1. a \in 1..N /\ p \in (a + 1)..(N + 1)
    BY <1>3
  <2>2. QED
    BY <1>9, <1>10, <2>1, ZenonT(60)
<1>11. ASSUME NEW p \in 1..N, g[p].role = "tool" PROVE Waits(g, p, g[p].callId)
  <2> DEFINE j == q[p]
             x == g[p].callId
  <2>1. j \in 1..n /\ j \in M /\ g[p] = h[j]
    BY <1>7
  <2>2. Waits(h, j, x)
    BY <1>5, <1>11, <2>1 DEF Follows
  <2> HIDE DEF x
  <2>3. PICK i \in 1..(j - 1) : /\ Leads(h, i, j) /\ x \in CallIds(h[i])
                                /\ \A k \in (i + 1)..(j - 1) : h[k].callId # x
    BY <2>2 DEF Waits
  <2> HIDE DEF j
  <2>4. i \in PromptUnits(h) /\ j \in i..EndOf(h, i) /\ i \in 1..n /\ i < j
    <3>1. h[j].role = "tool" /\ CallIds(h[i]) # {} /\ j \in 1..Len(h)
      BY <1>11, <2>1, <2>3 DEF n
    <3>2. i \in PromptUnits(h) /\ j \in i..EndOf(h, i)
      BY <2>3, <3>1, ResultsStayInside
    <3>3. QED
      BY <1>3, <2>1, <2>3, <3>2
  <2>5. PICK u \in c : j \in u..EndOf(h, u)
    BY <1>4, <2>1
  <2>6. u = i
    BY <2>4, <2>5, OneUnit
  <2>7. i \in M
    <3>1. i \in i..EndOf(h, i)
      BY <1>6, <2>4
    <3>2. QED
      BY <1>4, <2>4, <2>5, <2>6, <3>1
  <2>8. PICK a \in 1..N : q[a] = i
    BY <1>2, <2>7
  <2>9. a < p /\ a \in 1..(p - 1) /\ g[a] = h[i]
    <3>1. a < p
      BY <1>8, <2>4, <2>8 DEF j
    <3>2. QED
      BY <1>3, <1>7, <2>8, <3>1
  <2>10. ASSUME NEW b \in (a + 1)..(p - 1) PROVE g[b].role = "tool" /\ g[b].callId # x
    <3>1. b \in 1..N /\ a < b /\ b < p
      BY <1>3
    <3>2. i < q[b] /\ q[b] < j /\ q[b] \in 1..n /\ g[b] = h[q[b]]
      BY <1>2, <1>7, <2>8, <3>1 DEF j
    <3>3. q[b] \in (i + 1)..(j - 1)
      BY <2>1, <2>4, <3>2, SMTT(30)
    <3>4. QED
      BY <2>3, <3>2, <3>3 DEF Leads
  <2>11. Leads(g, a, p)
    BY <2>3, <2>9, <2>10 DEF Leads
  <2>12. Waits(g, p, x)
    BY <2>3, <2>9, <2>10, <2>11 DEF Waits
  <2>13. QED
    BY <2>12 DEF x
<1>12. ASSUME NEW p \in 1..N, g[p].role # "tool", NEW a \in 1..(p - 1)
       PROVE  CallIds(g[a]) \cap CallIds(g[p]) = {}
  <2>1. a \in 1..N /\ a < p
    BY <1>3
  <2>2. q[a] < q[p] /\ q[a] \in 1..n /\ q[p] \in 1..n /\ g[a] = h[q[a]] /\ g[p] = h[q[p]]
    BY <1>2, <1>7, <2>1
  <2>3. q[a] \in 1..(q[p] - 1)
    BY <1>3, <2>2
  <2>4. Follows(h, q[p]) /\ h[q[p]].role # "tool"
    BY <1>5, <1>12, <2>2
  <2>5. QED
    BY <2>2, <2>3, <2>4 DEF Follows
<1>13. ASSUME NEW p \in 1..N PROVE Follows(g, p)
  <2>1. CASE g[p].role = "tool"
    BY <1>11, <2>1 DEF Follows
  <2>2. CASE g[p].role # "tool"
    <3>1. p \in 1..(N + 1)
      BY <1>3
    <3>2. \A x : ~Waits(g, p, x)
      BY <1>10, <2>2, <3>1
    <3>3. QED
      BY <1>12, <2>2, <3>2 DEF Follows
  <2>3. QED
    BY <2>1, <2>2
<1>14. \A x : ~Waits(g, N + 1, x)
  <2>1. N + 1 \in 1..(N + 1) /\ N + 1 \notin 1..N
    BY <1>3
  <2>2. QED
    BY <1>10, <2>1
<1>15. QED
  BY <1>13, <1>14 DEF Whole, AllFollow, N

---------------------------------------------------------------------------
(* What is chosen.                                                         *)

LEMMA TokensOfOneMore ==
    ASSUME NEW h \in Seq(Message), NEW c, c \subseteq PromptUnits(h), NEW u \in PromptUnits(h)
    PROVE  /\ UnitTokens(PromptUnits(h), h, u) \in Nat
           /\ TokensOf(PromptUnits(h), h, c) \in Nat
           /\ TokensOf(PromptUnits(h), h, c \cup {u})
                 <= TokensOf(PromptUnits(h), h, c) + UnitTokens(PromptUnits(h), h, u)
<1> DEFINE n == Len(h)
           d == c \cup {u}
           t == UnitTokens(PromptUnits(h), h, u)
<1>1. PICK S : Summing(h, c, n, S) /\ TokensOf(PromptUnits(h), h, c) = S[n]
  BY TokensAre
<1>2. PICK T : Summing(h, d, n, T) /\ TokensOf(PromptUnits(h), h, d) = T[n]
  BY TokensAre
<1>3. n \in Nat /\ u \in 1..n /\ d \subseteq PromptUnits(h)
  BY UnitsAre, LenProperties
<1>4. \A k \in 1..n : Cost(h, c, k) \in Nat /\ Cost(h, d, k) \in Nat
  BY <1>3, PieceIs
<1>5. t \in Nat
  <2>1. Cost(h, d, u) = t
    BY DEF Cost
  <2>2. QED
    BY <1>3, <1>4, <2>1
<1>6. \A k \in 1..n : k # u => Cost(h, d, k) = Cost(h, c, k)
  BY DEF Cost
<1>7. Cost(h, d, u) <= t + Cost(h, c, u)
  <2>1. Cost(h, d, u) = t
    BY DEF Cost
  <2>2. QED
    BY <1>3, <1>4, <1>5, <2>1
<1>8. \A k \in 0..n : /\ S[k] = IF k = 0 THEN 0 ELSE S[k - 1] + Cost(h, c, k)
                      /\ T[k] = IF k = 0 THEN 0 ELSE T[k - 1] + Cost(h, d, k)
  BY <1>1, <1>2, SummingAt
<1> HIDE DEF n, d, t
<1> DEFINE Near(k) == /\ S[k] \in Nat /\ T[k] \in Nat
                      /\ k < u => T[k] <= S[k]
                      /\ T[k] <= S[k] + t
           Bad == {k \in 0..n : ~Near(k)}
<1>9. Bad = {}
  <2>1. SUFFICES ASSUME Bad # {} PROVE FALSE
    OBVIOUS
  <2>2. PICK k \in Bad : \A j \in Bad : k <= j
    <3>1. Bad \subseteq Nat
      BY <1>3
    <3>2. QED
      BY <2>1, <3>1, LeastExists
  <2>3. CASE k = 0
    <3>1. S[0] = 0 /\ T[0] = 0
      BY <1>3, <1>8
    <3>2. Near(0)
      BY <1>5, <3>1
    <3>3. QED
      BY <2>2, <2>3, <3>2
  <2>4. CASE k # 0
    <3>1. k \in 1..n /\ k \in 0..n /\ k - 1 \in 0..n /\ Near(k - 1)
      <4> HIDE DEF Near
      <4>1. k \in 1..n /\ k \in 0..n /\ k - 1 \in 0..n /\ ~(k <= k - 1)
        BY <1>3, <2>2, <2>4
      <4>2. QED
        BY <2>2, <4>1
    <3>2. S[k] = S[k - 1] + Cost(h, c, k) /\ T[k] = T[k - 1] + Cost(h, d, k)
      BY <1>8, <2>4, <3>1
    <3>3. Cost(h, c, k) \in Nat /\ Cost(h, d, k) \in Nat
      BY <1>4, <3>1
    <3>4. CASE k = u
      <4>1. Cost(h, d, k) <= t + Cost(h, c, k) /\ T[k - 1] <= S[k - 1]
        BY <1>3, <1>7, <3>1, <3>4
      <4>2. Near(k)
        BY <1>5, <3>1, <3>2, <3>3, <3>4, <4>1, SMTT(30)
      <4>3. QED
        BY <2>2, <4>2
    <3>5. CASE k # u
      <4>1. Cost(h, d, k) = Cost(h, c, k)
        BY <1>6, <3>1, <3>5
      <4>2. k < u => k - 1 < u
        BY <1>3, <3>1
      <4>3. Near(k)
        BY <1>5, <3>1, <3>2, <3>3, <4>1, <4>2, SMTT(30)
      <4>4. QED
        BY <2>2, <4>3
    <3>6. QED
      BY <3>4, <3>5
  <2>5. QED
    BY <2>3, <2>4
<1>10. Near(n)
  <2> HIDE DEF Near
  <2>1. n \in 0..n
    BY <1>3
  <2>2. QED
    BY <1>9, <2>1
<1>11. QED
  BY <1>1, <1>2, <1>5, <1>10 DEF d, t

LEMMA LastUserUnitIs ==
    ASSUME NEW h \in Seq(Message), h # <<>>
    PROVE  LastUserUnit(PromptUnits(h), h) \in PromptUnits(h)
<1> DEFINE units == PromptUnits(h)
           users == {u \in units : h[u].role = "user"} \cup {Min(units)}
<1>1. Len(h) \in Nat /\ units \subseteq 1..Len(h) /\ 1 \in units
  BY UnitsAre, LenProperties
<1> HIDE DEF units
<1>2. units \subseteq Nat /\ units # {}
  BY <1>1
<1>3. Min(units) \in units
  BY <1>2, MinIsLeast
<1>4. users \subseteq units /\ users # {}
  BY <1>3
<1>5. users \subseteq Nat /\ \A u \in users : u <= Len(h)
  <2> HIDE DEF users
  <2>1. QED
    BY <1>1, <1>2, <1>4
<1>6. Max(users) \in users
  BY <1>1, <1>4, <1>5, MaxIsGreatest
<1>7. LastUserUnit(units, h) \in units
  BY <1>4, <1>6 DEF LastUserUnit
<1>8. QED
  BY <1>7 DEF units

LEMMA TaskAnchorsAre ==
    ASSUME NEW h \in Seq(Message), NEW u \in TaskAnchors(PromptUnits(h), h)
    PROVE  u \in PromptUnits(h) /\ IsTaskAnchor(PromptUnits(h), h, u)
<1> DEFINE units == PromptUnits(h)
           found == {v \in units : v < LastUserUnit(units, h) /\ IsTaskAnchor(units, h, v)}
           newest == {v \in found : Cardinality({w \in found : w > v}) < MaxTaskAnchorUnits - 1}
<1>1. units \subseteq Nat
  BY UnitsAre, LenProperties
<1>2. TaskAnchors(units, h) = IF found = {} THEN {} ELSE newest \cup {Min(found)}
  BY DEF TaskAnchors
<1>3. found \subseteq Nat
  BY <1>1
<1>4. found # {} => Min(found) \in found
  BY <1>3, MinIsLeast
<1>5. newest \subseteq found
  OBVIOUS
<1>6. u \in TaskAnchors(units, h)
  OBVIOUS
<1> HIDE DEF found, newest, units
<1>7. u \in found
  BY <1>2, <1>4, <1>5, <1>6
<1>8. QED
  BY <1>7 DEF found, units

Anchoring(h, c, m, S) ==
    S = [k \in 0..m |->
            IF k = 0 THEN [chosen |-> c, spent |-> 0]
            ELSE IF k \in TaskAnchors(PromptUnits(h), h) THEN AddTaskAnchor(PromptUnits(h), h, S[k - 1], k)
            ELSE S[k - 1]]

LEMMA AnchoringExists ==
    ASSUME NEW h, NEW c, NEW n \in Nat
    PROVE  \E S : Anchoring(h, c, n, S)
<1> DEFINE Bad == {m \in Nat : ~\E S : Anchoring(h, c, m, S)}
           e(k, H) == IF k = 0 THEN [chosen |-> c, spent |-> 0]
                      ELSE IF k \in TaskAnchors(PromptUnits(h), h)
                           THEN AddTaskAnchor(PromptUnits(h), h, H[k - 1], k)
                      ELSE H[k - 1]
<1>1. SUFFICES ASSUME Bad # {} PROVE FALSE
  OBVIOUS
<1>2. PICK m \in Bad : \A j \in Bad : m <= j
  BY <1>1, LeastExists
<1>3. m # 0
  <2> DEFINE E == [k \in 0..0 |-> [chosen |-> c, spent |-> 0]]
  <2>1. 0..0 = {0}
    OBVIOUS
  <2>2. E = [k \in 0..0 |-> e(k, E)]
    BY <2>1
  <2>3. QED
    BY <2>2 DEF Anchoring
<1>4. m - 1 \in Nat /\ m - 1 \notin Bad
  BY <1>2, <1>3
<1>5. PICK G : Anchoring(h, c, m - 1, G)
  BY <1>4
<1> DEFINE F == [k \in 0..m |-> IF k < m THEN G[k] ELSE e(k, G)]
<1>6. ASSUME NEW k \in 0..m PROVE F[k] = e(k, F)
  <2>1. G = [i \in 0..(m - 1) |-> e(i, G)]
    BY <1>5 DEF Anchoring
  <2>2. k # 0 => F[k - 1] = G[k - 1]
    BY <1>4
  <2>3. e(k, F) = e(k, G)
    BY <2>2
  <2> HIDE DEF e
  <2>4. k \in 0..(m - 1) => G[k] = e(k, G)
    BY <2>1
  <2>5. F[k] = IF k < m THEN G[k] ELSE e(k, G)
    OBVIOUS
  <2>6. QED
    BY <1>4, <2>3, <2>4, <2>5
<1>7. F = [k \in 0..m |-> e(k, F)]
  <2> DEFINE C == [k \in 0..m |-> e(k, F)]
  <2>1. \A k \in 0..m : F[k] = C[k]
    BY <1>6
  <2>2. QED
    BY <2>1
<1>8. Anchoring(h, c, m, F)
  BY <1>7 DEF Anchoring
<1>9. QED
  BY <1>2, <1>8

LEMMA AnchoringAt ==
    ASSUME NEW h, NEW c, NEW n, NEW S, Anchoring(h, c, n, S), NEW k \in 0..n
    PROVE  /\ k = 0 => S[k].chosen = c
           /\ k # 0 /\ k \in TaskAnchors(PromptUnits(h), h)
                => S[k] = AddTaskAnchor(PromptUnits(h), h, S[k - 1], k)
           /\ k # 0 /\ k \notin TaskAnchors(PromptUnits(h), h) => S[k] = S[k - 1]
<1> DEFINE e(i) == IF i = 0 THEN [chosen |-> c, spent |-> 0]
                   ELSE IF i \in TaskAnchors(PromptUnits(h), h)
                        THEN AddTaskAnchor(PromptUnits(h), h, S[i - 1], i)
                   ELSE S[i - 1]
<1>1. S = [i \in 0..n |-> e(i)]
  BY DEF Anchoring
<1> HIDE DEF e
<1>2. S[k] = e(k)
  BY <1>1
<1>3. QED
  BY <1>2 DEF e

\* Nothing is lost by looking for anchors, only anchors are added, and the budget holds.
AnchoredWell(h, c, d) ==
    /\ c \subseteq d
    /\ d \subseteq PromptUnits(h)
    /\ \A u \in d \ c : IsTaskAnchor(PromptUnits(h), h, u)
    /\ TokensOf(PromptUnits(h), h, d) <= InputBudget

LEMMA OneMoreAnchored ==
    ASSUME NEW h \in Seq(Message), NEW c, NEW acc, AnchoredWell(h, c, acc.chosen),
           NEW u \in TaskAnchors(PromptUnits(h), h)
    PROVE  AnchoredWell(h, c, AddTaskAnchor(PromptUnits(h), h, acc, u).chosen)
<1> DEFINE units == PromptUnits(h)
           t == UnitTokens(units, h, u)
           r == AddTaskAnchor(units, h, acc, u)
           refused == acc.spent + t > MaxTaskAnchorTokens \/ TokensOf(units, h, acc.chosen) + t > InputBudget
<1>1. r = IF refused THEN acc ELSE [chosen |-> acc.chosen \cup {u}, spent |-> acc.spent + t]
  BY DEF AddTaskAnchor
<1>2. u \in units /\ IsTaskAnchor(units, h, u)
  BY TaskAnchorsAre
<1>3. /\ t \in Nat /\ TokensOf(units, h, acc.chosen) \in Nat
      /\ TokensOf(units, h, acc.chosen \cup {u}) <= TokensOf(units, h, acc.chosen) + t
      /\ TokensOf(units, h, acc.chosen \cup {u}) \in Nat
  <2>1. acc.chosen \subseteq units /\ acc.chosen \cup {u} \subseteq units
    BY <1>2 DEF AnchoredWell
  <2>2. QED
    BY <1>2, <2>1, TokensOfOneMore
<1>4. ~refused => TokensOf(units, h, acc.chosen) + t <= InputBudget
  BY <1>3, BudgetAssumption
<1> HIDE DEF r, t, refused, units
<1>5. CASE refused
  BY <1>1, <1>5 DEF r, units
<1>6. CASE ~refused
  <2>1. r.chosen = acc.chosen \cup {u}
    BY <1>1, <1>6
  <2>2. TokensOf(units, h, acc.chosen \cup {u}) <= InputBudget
    BY <1>3, <1>4, <1>6, BudgetAssumption
  <2>3. AnchoredWell(h, c, r.chosen)
    BY <1>2, <2>1, <2>2 DEF AnchoredWell, units
  <2>4. QED
    BY <2>3 DEF r, units
<1>7. QED
  BY <1>5, <1>6

LEMMA AnchorsFit ==
    ASSUME NEW h \in Seq(Message), NEW c, AnchoredWell(h, c, c)
    PROVE  AnchoredWell(h, c, WithTaskAnchors(PromptUnits(h), h, c))
<1> DEFINE n == Len(h)
           anchors == TaskAnchors(PromptUnits(h), h)
           Adds(f) == f = [k \in 0..n |->
                    IF k = 0 THEN [chosen |-> c, spent |-> 0]
                    ELSE IF k \in anchors THEN AddTaskAnchor(PromptUnits(h), h, f[k - 1], k)
                    ELSE f[k - 1]]
           S == CHOOSE f : Adds(f)
<1>1. n \in Nat
  BY LenProperties
<1>2. Anchoring(h, c, n, S)
  <2>1. \A f : Adds(f) <=> Anchoring(h, c, n, f)
    BY DEF Anchoring
  <2> HIDE DEF Adds
  <2>2. \E f : Adds(f)
    BY <1>1, <2>1, AnchoringExists
  <2>3. Adds(S)
    BY <2>2
  <2>4. QED
    BY <2>1, <2>3
<1>3. WithTaskAnchors(PromptUnits(h), h, c) = S[n].chosen
  BY DEF WithTaskAnchors
<1> HIDE DEF S, n
<1> DEFINE Bad == {k \in 0..n : ~AnchoredWell(h, c, S[k].chosen)}
<1>4. Bad = {}
  <2>1. SUFFICES ASSUME Bad # {} PROVE FALSE
    OBVIOUS
  <2>2. PICK k \in Bad : \A j \in Bad : k <= j
    <3>1. Bad \subseteq Nat
      BY <1>1
    <3>2. QED
      BY <2>1, <3>1, LeastExists
  <2>3. k \in 0..n /\ ~AnchoredWell(h, c, S[k].chosen)
    BY <2>2
  <2>4. /\ k = 0 => S[k].chosen = c
        /\ k # 0 /\ k \in anchors => S[k] = AddTaskAnchor(PromptUnits(h), h, S[k - 1], k)
        /\ k # 0 /\ k \notin anchors => S[k] = S[k - 1]
    <3>1. k \in 0..n
      BY <2>3
    <3> HIDE DEF Bad
    <3>2. QED
      BY <1>2, <3>1, AnchoringAt
  <2>5. k # 0
    <3>1. k = 0 => S[k].chosen = c
      BY <2>4
    <3>2. QED
      BY <2>3, <3>1
  <2>6. AnchoredWell(h, c, S[k - 1].chosen)
    <3>1. k - 1 \in 0..n /\ ~(k <= k - 1)
      BY <1>1, <2>3, <2>5
    <3>2. QED
      BY <2>2, <3>1
  <2> HIDE DEF anchors
  <2>7. CASE k \in anchors
    <3>1. S[k] = AddTaskAnchor(PromptUnits(h), h, S[k - 1], k)
      BY <2>4, <2>5, <2>7
    <3>2. AnchoredWell(h, c, S[k].chosen)
      BY <2>6, <2>7, <3>1, OneMoreAnchored DEF anchors
    <3>3. QED
      BY <2>3, <3>2
  <2>8. CASE k \notin anchors
    BY <2>3, <2>4, <2>5, <2>6, <2>8
  <2>9. QED
    BY <2>7, <2>8
<1>5. n \in 0..n
  BY <1>1
<1>6. QED
  BY <1>3, <1>4, <1>5

LEMMA HistoryIsWithin ==
    ASSUME NEW continuing \in BOOLEAN
    PROVE  HistoryLimit(continuing) \in Nat /\ HistoryLimit(continuing) <= InputBudget
<1>1. InputBudget \in Nat
  BY BudgetAssumption
<1>2. ASSUME NEW s \in 0..10
      PROVE  (InputBudget * s) \div 10 \in Nat /\ (InputBudget * s) \div 10 <= InputBudget
  <2>1. s \in {0, 1, 2, 3, 4, 5, 6, 7, 8, 9, 10}
    OBVIOUS
  <2>2. QED
    BY <1>1, <2>1
<1>3. ContinuingHistoryShare \in 0..10
  BY BudgetAssumption
<1>4. QED
  BY <1>1, <1>2, <1>3 DEF HistoryLimit

\* What is added from the history fits, and is all there is since its oldest unit.
LEMMA RecentTailFits ==
    ASSUME NEW h \in Seq(Message), h # <<>>, NEW c, c \subseteq PromptUnits(h),
           TokensOf(PromptUnits(h), h, c) <= InputBudget, NEW limit \in Nat, limit <= InputBudget
    PROVE  LET tail == RecentTail(PromptUnits(h), h, c, limit) IN
           /\ tail \subseteq PromptUnits(h) /\ tail \cap c = {}
           /\ TokensOf(PromptUnits(h), h, c \cup tail) <= InputBudget
           /\ \A v \in tail : \A u \in PromptUnits(h) \ c :
                 v < u /\ u < LastUserUnit(PromptUnits(h), h) /\ h[u].role # "system" => u \in tail
<1> DEFINE units == PromptUnits(h)
           rest == {u \in units \ c : u < LastUserUnit(units, h) /\ h[u].role # "system"}
           since(v) == {w \in rest : w >= v}
           tail == RecentTail(units, h, c, limit)
<1>1. tail = {u \in rest : \A v \in rest : v >= u => TokensOf(units, h, c \cup since(v)) <= limit}
  BY DEF RecentTail
<1>2. units \subseteq Nat /\ rest \subseteq Nat /\ rest \subseteq units \ c
  BY UnitsAre, LenProperties
<1>3. tail \subseteq rest
  BY <1>1
<1>4. tail \subseteq units /\ tail \cap c = {}
  BY <1>2, <1>3
<1>5. ASSUME NEW v \in tail, NEW u \in rest, v <= u PROVE u \in tail
  <2>1. \A w \in rest : w >= u => w >= v
    BY <1>2, <1>3, <1>5
  <2> HIDE DEF rest, since, tail
  <2>2. \A w \in rest : w >= u => TokensOf(units, h, c \cup since(w)) <= limit
    BY <1>1, <1>5, <2>1
  <2>3. QED
    BY <1>1, <2>2
<1>6. TokensOf(units, h, c \cup tail) <= InputBudget
  <2>1. CASE tail = {}
    <3>1. c \cup tail = c
      BY <2>1
    <3>2. QED
      BY <3>1
  <2>2. CASE tail # {}
    <3>1. PICK m \in tail : \A v \in tail : m <= v
      <4>1. tail \subseteq Nat
        BY <1>2, <1>3
      <4>2. QED
        BY <2>2, <4>1, LeastExists
    <3>2. m \in rest /\ m >= m
      BY <1>2, <1>3
    <3>3. tail = since(m)
      BY <1>2, <1>3, <1>5, <3>1, <3>2
    <3> HIDE DEF rest, since, tail
    <3>4. TokensOf(units, h, c \cup since(m)) <= limit
      BY <1>1, <3>1, <3>2
    <3>5. TokensOf(units, h, c \cup tail) <= limit /\ TokensOf(units, h, c \cup tail) \in Nat
      <4>1. c \cup tail \subseteq PromptUnits(h)
        BY <1>4 DEF units
      <4>2. TokensOf(units, h, c \cup tail) \in Nat
        BY <4>1, MessagesGathered DEF units
      <4>3. QED
        BY <3>3, <3>4, <4>2
    <3>6. QED
      BY <3>5, BudgetAssumption
  <2>3. QED
    BY <2>1, <2>2
<1>7. ASSUME NEW v \in tail, NEW u \in units \ c, v < u, u < LastUserUnit(units, h), h[u].role # "system"
      PROVE  u \in tail
  <2>1. u \in rest /\ v <= u
    BY <1>2, <1>3, <1>7
  <2>2. QED
    BY <1>5, <2>1
<1> HIDE DEF tail, rest, since
<1>8. QED
  BY <1>4, <1>6, <1>7 DEF tail, units

\* What is chosen: all that is indispensable, within the budget, and of the rest what is not
\* older than something that was left out, except for task anchors.
LEMMA SelectionIs ==
    ASSUME NEW h \in Seq(Message), h # <<>>, ~PromptExceeded(PromptUnits(h), h),
           NEW continuing \in BOOLEAN
    PROVE  LET units  == PromptUnits(h)
               chosen == SelectedUnits(units, h, continuing)
           IN /\ chosen \subseteq units
              /\ Indispensable(units, h) \subseteq chosen
              /\ TokensOf(units, h, chosen) <= InputBudget
              /\ \A u \in units : u \notin chosen /\ ~IsTaskAnchor(units, h, u) =>
                    /\ h[u].role # "system"
                    /\ \A v \in chosen : v < u => h[v].role = "system" \/ IsTaskAnchor(units, h, v)
<1> DEFINE units == PromptUnits(h)
           needed == Indispensable(units, h)
           anchored == WithTaskAnchors(units, h, needed)
           limit == HistoryLimit(continuing)
           tail == RecentTail(units, h, anchored, limit)
           chosen == SelectedUnits(units, h, continuing)
           last == LastUserUnit(units, h)
<1>1. chosen = anchored \cup tail
  BY DEF SelectedUnits
<1>2. /\ units \subseteq Nat /\ last \in units
      /\ needed = {u \in units : h[u].role = "system"} \cup {u \in units : u >= last}
  BY UnitsAre, LenProperties, LastUserUnitIs DEF Indispensable, Instructions, CurrentTurn
<1>3. AnchoredWell(h, needed, needed)
  <2>1. needed \subseteq units
    BY <1>2
  <2>2. TokensOf(units, h, needed) \in Nat
    BY <2>1, MessagesGathered
  <2>3. ~(TokensOf(units, h, needed) > InputBudget)
    BY DEF PromptExceeded
  <2> HIDE DEF needed, units
  <2>4. TokensOf(units, h, needed) <= InputBudget
    BY <2>2, <2>3, BudgetAssumption
  <2>5. QED
    BY <2>1, <2>4 DEF AnchoredWell, units
<1>4. AnchoredWell(h, needed, anchored)
  BY <1>3, AnchorsFit
<1>5. limit \in Nat /\ limit <= InputBudget
  BY HistoryIsWithin
<1> HIDE DEF units, needed, anchored, limit, tail, chosen, last
<1>6. /\ needed \subseteq anchored /\ anchored \subseteq units
      /\ \A u \in anchored \ needed : IsTaskAnchor(units, h, u)
      /\ TokensOf(units, h, anchored) <= InputBudget
  BY <1>4 DEF AnchoredWell, units
<1>7. /\ tail \subseteq units /\ tail \cap anchored = {}
      /\ TokensOf(units, h, anchored \cup tail) <= InputBudget
      /\ \A v \in tail : \A u \in units \ anchored :
            v < u /\ u < last /\ h[u].role # "system" => u \in tail
  BY <1>5, <1>6, RecentTailFits DEF tail, units, last
<1>8. ASSUME NEW u \in units, u \notin chosen, ~IsTaskAnchor(units, h, u)
      PROVE  /\ h[u].role # "system"
             /\ \A v \in chosen : v < u => h[v].role = "system" \/ IsTaskAnchor(units, h, v)
  <2>1. u \notin needed /\ u \notin anchored /\ u \notin tail
    BY <1>1, <1>6, <1>8
  <2>2. h[u].role # "system" /\ u < last
    BY <1>2, <2>1
  <2>3. ASSUME NEW v \in chosen, v < u PROVE h[v].role = "system" \/ IsTaskAnchor(units, h, v)
    <3>1. v \notin tail
      BY <1>7, <1>8, <2>1, <2>2, <2>3
    <3>2. v \in anchored /\ v \in units
      BY <1>1, <1>6, <3>1
    <3>3. CASE v \in needed
      <4>1. ~(v >= last)
        BY <1>2, <2>2, <2>3, <3>2
      <4>2. QED
        BY <1>2, <3>3, <4>1
    <3>4. CASE v \notin needed
      BY <1>6, <3>2, <3>4
    <3>5. QED
      BY <3>3, <3>4
  <2>4. QED
    BY <2>2, <2>3
<1>9. chosen \subseteq units /\ needed \subseteq chosen /\ TokensOf(units, h, chosen) <= InputBudget
  BY <1>1, <1>6, <1>7
<1>10. QED
  BY <1>8, <1>9 DEF units, needed, chosen

\* The messages from a unit on are among those of the chosen units, if all later units are.
LEMMA CurrentTurnIsSent ==
    ASSUME NEW h \in Seq(Message), NEW c, c \subseteq PromptUnits(h), NEW l \in PromptUnits(h),
           \A u \in PromptUnits(h) : u >= l => u \in c
    PROVE  ToSet(From(h, l)) \subseteq ToSet(MessagesOf(PromptUnits(h), h, c))
<1> DEFINE n == Len(h)
           g == MessagesOf(PromptUnits(h), h, c)
           f == From(h, l)
<1>1. n \in Nat /\ l \in 1..n /\ PromptUnits(h) \subseteq 1..n
  BY UnitsAre, LenProperties
<1>2. f \in Seq(Message) /\ Len(f) = n - l + 1 /\ \A i \in 1..(n - l + 1) : f[i] = h[l + i - 1]
  <2>1. l \in 1..(n + 1)
    BY <1>1
  <2>2. QED
    BY <2>1, FromIs
<1>3. g \in Seq(Message) /\ Gathers(h, g, Covered(h, c, n))
  BY MessagesGathered
<1>4. PICK q : Lists(h, g, Covered(h, c, n), q)
  BY <1>3 DEF Gathers
<1>5. /\ \A i \in Covered(h, c, n) : \E a \in 1..Len(g) : q[a] = i
      /\ \A a \in 1..Len(g) : g[a] = h[q[a]]
  BY <1>4 DEF Lists
<1>6. DOMAIN f = 1..(n - l + 1) /\ DOMAIN g = 1..Len(g)
  BY <1>1, <1>2, <1>3, LenProperties
<1> HIDE DEF n, f, g
<1>7. ASSUME NEW i \in DOMAIN f PROVE \E a \in DOMAIN g : g[a] = f[i]
  <2> DEFINE j == l + i - 1
  <2>1. j \in 1..n /\ l <= j /\ f[i] = h[j]
    BY <1>1, <1>2, <1>6
  <2> HIDE DEF j
  <2>2. PICK u \in PromptUnits(h) : j \in u..EndOf(h, u) /\ \A v \in PromptUnits(h) : v <= j => v <= u
    BY <2>1, UnitOfMessage DEF n
  <2>3. u \in c /\ u <= n
    BY <1>1, <2>1, <2>2
  <2>4. j \in Covered(h, c, n)
    BY <2>1, <2>2, <2>3 DEF Covered, n
  <2>5. PICK a \in 1..Len(g) : q[a] = j
    BY <1>5, <2>4
  <2>6. QED
    BY <1>5, <1>6, <2>1, <2>5
<1>8. ToSet(f) \subseteq ToSet(g)
  BY <1>7 DEF ToSet
<1>9. QED
  BY <1>8 DEF f, g

LEMMA PromptIsRight == ConversationTyped => PromptIsWhole
<1> SUFFICES ASSUME ConversationTyped PROVE PromptIsWhole
  OBVIOUS
<1> DEFINE h == messages
           units == PromptUnits(h)
           U == {i \in DOMAIN h : StartsUnit(h, i)}
           Chosen(b) == SelectedUnits(units, h, b)
           Prompt(b) == SelectPromptMessages(h, b)
           Passed(b) == {u \in U : u \notin Chosen(b) /\ ~IsTaskAnchor(U, h, u)}
           Sent(b) == /\ ObeysToolProtocol(Prompt(b))
                      /\ PortableMessagesBytes(Prompt(b)) <= InputBudget
                      /\ ToSet(From(h, LastUserUnit(U, h))) \subseteq ToSet(Prompt(b))
                      /\ \A u \in Passed(b) :
                            /\ h[u].role # "system"
                            /\ \A v \in Chosen(b) : v < u => \/ h[v].role = "system"
                                                             \/ IsTaskAnchor(U, h, v)
<1>1. h \in Seq(Message)
  BY DEF ConversationTyped
<1>2. U = units
  BY DEF PromptUnits
<1>3. ASSUME NEW b \in BOOLEAN, h # <<>>, ~TurnedAway(h), ~PromptExceeded(units, h)
      PROVE  Sent(b)
  <2> DEFINE c == Chosen(b)
             g == Prompt(b)
             last == LastUserUnit(units, h)
  <2>1. Whole(h)
    BY <1>1, <1>3, ValidIs DEF TurnedAway, Whole
  <2>2. /\ c \subseteq units
        /\ Indispensable(units, h) \subseteq c
        /\ TokensOf(units, h, c) <= InputBudget
        /\ \A u \in units : u \notin c /\ ~IsTaskAnchor(units, h, u) =>
              /\ h[u].role # "system"
              /\ \A v \in c : v < u => h[v].role = "system" \/ IsTaskAnchor(units, h, v)
    BY <1>1, <1>3, SelectionIs
  <2>3. g = MessagesOf(units, h, c)
    BY DEF SelectPromptMessages, SelectedPrompt
  <2>4. /\ g \in Seq(Message) /\ Gathers(h, g, Covered(h, c, Len(h)))
        /\ PortableMessagesBytes(g) = TokensOf(units, h, c)
    BY <1>1, <2>2, <2>3, MessagesGathered
  <2>5. ObeysToolProtocol(g)
    <3>1. Whole(g)
      BY <1>1, <2>1, <2>2, <2>4, ChosenAreWhole
    <3>2. ValidToolConversation(g)
      BY <2>4, <3>1, ValidIs DEF Whole
    <3>3. QED
      BY <2>4, <3>2, AcceptedIsObeyed
  <2>6. ToSet(From(h, last)) \subseteq ToSet(g)
    <3>1. last \in units
      BY <1>1, <1>3, LastUserUnitIs
    <3>2. \A u \in units : u >= last => u \in c
      BY <2>2 DEF Indispensable, CurrentTurn
    <3>3. QED
      BY <1>1, <2>2, <2>3, <3>1, <3>2, CurrentTurnIsSent
  <2>7. PortableMessagesBytes(g) <= InputBudget
    BY <2>2, <2>4
  <2> HIDE DEF h, units, U, Chosen, Prompt, c, g, last
  <2>8. QED
    BY <1>2, <2>2, <2>5, <2>6, <2>7 DEF c, g, last
<1>4. PromptIsWhole <=> \A b \in BOOLEAN :
          h # <<>> /\ ~TurnedAway(h) /\ ~PromptExceeded(U, h) => Sent(b)
  BY <1>2 DEF PromptIsWhole
<1> HIDE DEF Sent, U, units
<1>5. QED
  BY <1>2, <1>3, <1>4

\* A conversation that is let through goes upstream with its instructions and its current turn
\* whole, every result beside its call, within the budget, and without a hole other than around
\* a task anchor (selectPromptMessages).
THEOREM PromptsAreWhole == Spec => []PromptIsWhole
<1>1. ConversationTyped => PromptIsWhole
  BY PromptIsRight
<1>2. QED
  BY <1>1, ConversationsAreTyped, PTL
=============================================================================
