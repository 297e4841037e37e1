--------------------------- MODULE ChatTurnProofs ---------------------------
(***************************************************************************)
(* Proofs about ChatTurn: a turn has one ending, the thread is bound to the  *)
(* account whose answer the client was sent, and the text that reaches the   *)
(* client is one answer.                                                   *)
(*                                                                         *)
(* The invariant has a part for what the handler holds, MeOK, one for what it *)
(* has sent, WireOK, one for the keep-alive goroutines, HeartOK, and one for the *)
(* stored binding, BindOK. The first two take the request and whether the client *)
(* is there as parameters, so that a step which leaves these alone keeps them by *)
(* their names. The handler's pieces of text carry the account that wrote them; *)
(* TextOf(t, a) is the text a turn without tools can hold on account a, and any *)
(* text at all for a turn with tools, which may carry one account's text over to *)
(* the next.                                                                *)
(*                                                                         *)
(* A fifth part, TextOK, follows the text from what upstream says through the *)
(* guards to the wire. It rests on the others and none of them on it, so it    *)
(* comes after them, with its own lemma for every action.                    *)
(***************************************************************************)
EXTENDS ChatTurn, FlattenedSequences, SequenceTheorems, FiniteSetTheorems, WellFoundedInduction,
        TLAPS

PieceOf(t, a) == [by : IF t.tools THEN 0..2 ELSE {a}, n : Nat, part : Part]
TextOf(t, a) == Seq(PieceOf(t, a))
ConvsOf(a) == {NoConversation, Conversation(a, "thread")}

AnyPiece == [by : 0..2, n : Nat, part : Part]
AnyResult == [text : Seq(AnyPiece), conversation : ConvsOf(1) \cup ConvsOf(2),
              capped : BOOLEAN, calls : BOOLEAN, spent : BOOLEAN]
Guard(t, a) == [pending : TextOf(t, a), released : BOOLEAN]

Deciding == {"route", "repair", "require", "save calls", "send calls"}
Answered == {"settle", "resume", "continue", "finish", "save answer", "conclude"}
Over == {"ended", "returned"}

\* The handler's locals on account a.
MeOf(t, a) ==
    [pc : Deciding \cup {"answer"} \cup Answered \cup Over, account : {a}, switched : BOOLEAN,
     cut : BOOLEAN, lost : BOOLEAN, conversation : ConvsOf(a), told : Nat, said : TextOf(t, a),
     guard : Guard(t, a), tail : Guard(t, a), delivered : TextOf(t, a), visible : BOOLEAN,
     broke : BOOLEAN, reached : BOOLEAN, incomplete : BOOLEAN, segment : Nat, result : AnyResult,
     failure : {"none", "network", "quota", "refused", "ended"},
     saved : {"no", "yes", "stale"}, gap : BOOLEAN]

\* A turn that the router must find a call for.
MustCall(t) == Required(t) /\ t.rounds

\* Nothing has been said to the client or is waiting to be.
Untouched(m) ==
    /\ m.said = <<>> /\ m.delivered = <<>> /\ m.guard = EmptyGuard /\ m.tail = EmptyGuard
    /\ ~m.visible

Locals(t, m) == m.account \in {1, 2} /\ m \in MeOf(t, m.account)

\* A write breaks only for a client that is gone; what the client sees was delivered.
Writing(h, m) == (m.broke => ~h) /\ (m.visible => m.delivered # <<>>)

ResultFits(t, m) ==
    m.result.text \in TextOf(t, m.account) /\ m.result.conversation \in ConvsOf(m.account)

MeOK(t, h, m) ==
    /\ Locals(t, m)
    /\ Writing(h, m)
    /\ m.pc \in Deciding => Untouched(m)
    /\ m.pc = "answer" => /\ m.tail = EmptyGuard
                          /\ m.delivered # <<>> => t.tools \/ (t.stream /\ (m.visible \/ m.broke))
    /\ m.pc \in Answered => ResultFits(t, m)
    /\ m.pc = "resume" => m.visible
    /\ m.saved = "no" \/ m.pc \in {"send calls", "conclude"} \cup Over
    /\ m.pc \in {"send calls", "conclude"} => m.saved # "no"
    /\ MustCall(t) => m.pc \in Deciding \cup Over

\* The frames that may stand before an ending.
TextFrame(t, a) == [kind : {"text"}, text : TextOf(t, a)]
OpenFrame(t, a) == {Frame("call")} \cup IF MustCall(t) THEN {} ELSE TextFrame(t, a)
Open(t, a) == Seq(OpenFrame(t, a))

Close(t, kind) == IF t.stream THEN <<Frame(kind), Frame("done")>> ELSE <<Frame(kind)>>
Closed(t, m, w) ==
    \E u \in Open(t, m.account), kind \in EndingKinds :
       /\ w = u \o Close(t, kind)
       /\ kind # "error" => m.saved # "no"
       /\ MustCall(t) => kind # "stop"

WireOK(t, h, m, w) ==
    /\ m.pc \notin Over => w \in Open(t, m.account)
    /\ m.pc \in Over => Closed(t, m, w) \/ (~h /\ w \in Open(t, m.account))
    /\ m.pc \in Deciding => w = <<>>
    /\ m.pc = "answer" /\ w # <<>> => t.stream /\ m.visible

HeartOK ==
    /\ heart \in [ticker : {"on", "off"}, middleware : {"on", "done"}]
    /\ heart.ticker = "on" => turn.stream /\ me.pc # "returned"
    /\ me.pc = "returned" => heart.middleware = "done"
    /\ stray = FALSE

BindOK(m, b) ==
    /\ b \in [account : 0..3, conversation : ConvsOf(1) \cup ConvsOf(2) \cup ConvsOf(3)]
    /\ b.conversation \in ConvsOf(b.account)
    /\ m.saved = "yes" => b.account = m.account

IInv ==
    /\ turn \in Turns
    /\ client \in {"there", "gone"}
    /\ MeOK(turn, Here, me)
    /\ WireOK(turn, Here, me, wire)
    /\ HeartOK
    /\ BindOK(me, binding)

---------------------------------------------------------------------------
(* Texts.                                                                  *)

LEMMA TurnFields ==
    ASSUME turn \in Turns
    PROVE  /\ turn.stream \in BOOLEAN /\ turn.tools \in BOOLEAN /\ turn.rounds \in BOOLEAN
           /\ turn.limited \in BOOLEAN /\ turn.evidence \in BOOLEAN
           /\ turn.stored \in {"none", "own", "other"}
BY TurnAssumption DEF Turn

LEMMA TextTypes ==
    ASSUME NEW t \in Turn, NEW a \in {1, 2}
    PROVE  /\ <<>> \in TextOf(t, a)
           /\ TextOf(t, a) \subseteq Seq(AnyPiece)
           /\ EmptyGuard \in Guard(t, a)
           /\ t.tools => TextOf(t, 1) = TextOf(t, 2) /\ Unverified \in TextOf(t, a)
<1>1. <<>> \in TextOf(t, a)
  BY DEF TextOf
<1>2. PieceOf(t, a) \subseteq AnyPiece
  BY DEF PieceOf, AnyPiece
<1>3. TextOf(t, a) \subseteq Seq(AnyPiece)
  BY <1>2, SeqMonotonic DEF TextOf
<1>4. ASSUME t.tools
      PROVE  TextOf(t, 1) = TextOf(t, 2) /\ Unverified \in TextOf(t, a)
  <2>1. PieceOf(t, 1) = PieceOf(t, 2)
    BY <1>4 DEF PieceOf
  <2>2. [by |-> 0, n |-> 1, part |-> "prose"] \in PieceOf(t, a)
    BY <1>4 DEF PieceOf, Part
  <2>3. QED
    BY <2>1, <2>2 DEF TextOf, Unverified
<1>5. QED
  BY <1>1, <1>3, <1>4 DEF EmptyGuard, Guard

LEMMA Concats ==
    ASSUME NEW S, NEW s \in Seq(S), NEW u \in Seq(S)
    PROVE  /\ s \o u \in Seq(S)
           /\ Len(s \o u) = Len(s) + Len(u)
           /\ s \o u = <<>> <=> s = <<>> /\ u = <<>>
BY ConcatProperties, ConcatEqualIffEmpty

(* A start of a text is a text.                                            *)
LEMMA Starts ==
    ASSUME NEW S, NEW s \in Seq(S), NEW n \in Int, n <= Len(s)
    PROVE  SubSeq(s, 1, n) \in Seq(S)
<1>1. \A i \in 1..n : s[i] \in S
  BY ElementOfSeq, LenProperties
<1>2. QED
  BY <1>1, SubSeqProperties

(* A bounded nonempty set of naturals has a greatest element.              *)
LEMMA GreatestExists ==
    ASSUME NEW S, S \subseteq Nat, S # {}, NEW n \in Nat, \A x \in S : x <= n
    PROVE  \E g \in S : \A x \in S : x <= g
<1> DEFINE T == {n - x : x \in S}
<1>1. T \subseteq Nat /\ T # {}
  <2>1. \A x \in S : n - x \in Nat
    OBVIOUS
  <2>2. QED
    BY <2>1
<1>2. PICK k \in T : \A j \in T : ~(<<j, k>> \in OpToRel(<, Nat))
  BY <1>1, NatLessThanWellFounded, WFMin
<1>3. PICK g \in S : k = n - g
  OBVIOUS
<1>4. ASSUME NEW x \in S PROVE x <= g
  <2>1. n - x \in T
    OBVIOUS
  <2>2. ~(<<n - x, k>> \in OpToRel(<, Nat))
    BY <1>2, <2>1
  <2>3. ~(n - x < k)
    BY <1>1, <2>1, <2>2 DEF OpToRel
  <2>4. QED
    BY <1>3, <2>3
<1>5. QED
  BY <1>4

LEMMA TrimmedIsText ==
    ASSUME NEW S, NEW s, NEW u \in Seq(S)
    PROVE  TrimContinuationOverlap(s, u) \in Seq(S)
<1> DEFINE overlaps == {k \in 1..Len(u) : k <= Len(s) /\ IsSuffix(SubSeq(u, 1, k), s)}
           top == Max(overlaps \cup {0})
<1>1. Len(u) \in Nat
  BY LenProperties
<1>2. overlaps \cup {0} \subseteq 0..Len(u)
  BY <1>1
<1>3. \E g \in overlaps \cup {0} : \A x \in overlaps \cup {0} : x <= g
  <2> HIDE DEF overlaps
  <2>1. overlaps \cup {0} \subseteq Nat /\ overlaps \cup {0} # {}
        /\ \A x \in overlaps \cup {0} : x <= Len(u)
    BY <1>1, <1>2
  <2>2. QED
    BY <1>1, <2>1, GreatestExists
<1>4. top \in 0..Len(u)
  <2> HIDE DEF overlaps
  <2>1. top \in overlaps \cup {0}
    <3>1. \E g \in overlaps \cup {0} : \A x \in overlaps \cup {0} : g >= x
      BY <1>2, <1>3
    <3>2. QED
      BY <3>1 DEF Max
  <2>2. QED
    BY <1>2, <2>1
<1>5. TrimContinuationOverlap(s, u) = SubSeq(u, 1 + top, Len(u))
  BY DEF TrimContinuationOverlap
<1> HIDE DEF top
<1>6. \A i \in 1 + top .. Len(u) : u[i] \in S
  BY <1>1, <1>4, ElementOfSeq
<1>7. QED
  BY <1>1, <1>4, <1>5, <1>6, SubSeqProperties

LEMMA CountIsNatural ==
    ASSUME NEW S, NEW u \in Seq(S), NEW k
    PROVE  Cardinality({i \in DOMAIN u : u[i].n > k}) \in Nat
<1>1. Len(u) \in Nat /\ DOMAIN u = 1..Len(u)
  BY LenProperties
<1>2. IsFiniteSet(1..Len(u))
  BY <1>1, FS_Interval
<1>3. {i \in DOMAIN u : u[i].n > k} \subseteq 1..Len(u)
  BY <1>1
<1>4. IsFiniteSet({i \in DOMAIN u : u[i].n > k})
  BY <1>2, <1>3, FS_Subset
<1>5. QED
  BY <1>4, FS_CardinalityType

---------------------------------------------------------------------------
(* Speaking to the client.                                                 *)

SameTurn(m, n) ==
    /\ n.pc = m.pc /\ n.account = m.account /\ n.saved = m.saved
    /\ n.tail = m.tail /\ n.result = m.result

\* What writing a delta may do to the handler's locals, and the frames it may send.
Spoken(m, e) ==
    /\ Locals(turn, e.to) /\ Writing(Here, e.to) /\ SameTurn(m, e.to)
    /\ e.frames \in Seq(TextFrame(turn, m.account))
    /\ e.frames # <<>> => ~turn.tools /\ e.to.visible
    /\ m.visible => e.to.visible
    /\ m.broke => e.to.broke
    /\ e.to.delivered # m.delivered => turn.tools \/ e.to.visible \/ e.to.broke

LEMMA FeedTypes ==
    ASSUME NEW a, NEW g \in Guard(turn, a), NEW text \in TextOf(turn, a), text # <<>>
    PROVE  LET fed == Feed(g, text)
           IN /\ fed.guard \in Guard(turn, a) /\ fed.out \in TextOf(turn, a)
              /\ fed.held \in BOOLEAN
              /\ ~fed.held => fed.out # <<>>
<1>1. g.pending \o text \in TextOf(turn, a) /\ g.pending \o text # <<>> /\ <<>> \in TextOf(turn, a)
  BY Concats DEF Guard, TextOf
<1>2. CASE g.released
  <2>1. Feed(g, text) = [guard |-> g, out |-> text, held |-> FALSE]
    BY <1>2 DEF Feed
  <2>2. QED
    BY <2>1
<1>3. CASE ~g.released /\ IsPrefix(Parts(g.pending \o text), Overload)
  <2>1. Feed(g, text) = [guard |-> [g EXCEPT !.pending = g.pending \o text], out |-> <<>>,
                         held |-> TRUE]
    BY <1>3 DEF Feed
  <2>2. [g EXCEPT !.pending = g.pending \o text] \in Guard(turn, a)
    BY <1>1 DEF Guard
  <2>3. QED
    BY <1>1, <2>1, <2>2
<1>4. CASE ~g.released /\ ~IsPrefix(Parts(g.pending \o text), Overload)
  <2>1. Feed(g, text) = [guard |-> [pending |-> <<>>, released |-> TRUE],
                         out |-> g.pending \o text, held |-> FALSE]
    BY <1>4 DEF Feed
  <2>2. [pending |-> <<>>, released |-> TRUE] \in Guard(turn, a)
    BY <1>1 DEF Guard
  <2>3. QED
    BY <1>1, <2>1, <2>2
<1>5. QED
  BY <1>2, <1>3, <1>4

LEMMA ClipTypes ==
    ASSUME turn \in Turns, NEW m, Locals(turn, m),
           NEW text \in TextOf(turn, m.account), text # <<>>
    PROVE  LET clip == Clip(m, text)
           IN /\ clip.text \in TextOf(turn, m.account) /\ clip.reached \in BOOLEAN
              /\ m.delivered \o clip.text \in TextOf(turn, m.account)
              /\ m.delivered \o clip.text # <<>>
<1> DEFINE a == m.account
           room == OutputLimit - Len(m.delivered)
<1>1. /\ m.delivered \in TextOf(turn, a) /\ m.reached \in BOOLEAN
      /\ Len(m.delivered) \in Nat /\ Len(text) \in Nat /\ OutputLimit \in Nat \ {0}
      /\ Len(m.delivered) = 0 <=> m.delivered = <<>>
  <2>1. m.delivered \in TextOf(turn, a) /\ m.reached \in BOOLEAN
    BY DEF Locals, MeOf
  <2>2. QED
    BY <2>1, LenProperties, EmptySeq, TurnAssumption DEF TextOf
<1>2. CASE turn.limited /\ Len(m.delivered) + Len(text) > OutputLimit
  <2>1. Clip(m, text) = [text |-> SubSeq(text, 1, room), reached |-> TRUE]
    BY <1>2 DEF Clip
  <2>2. room \in Int /\ room <= Len(text)
    BY <1>1, <1>2
  <2>3. SubSeq(text, 1, room) \in TextOf(turn, a)
    BY <2>2, Starts DEF TextOf
  <2>4. m.delivered = <<>> => SubSeq(text, 1, room) # <<>>
    <3> SUFFICES ASSUME m.delivered = <<>> PROVE SubSeq(text, 1, room) # <<>>
      OBVIOUS
    <3>1. \A i \in 1..room : text[i] \in PieceOf(turn, a)
      BY <1>1, <2>2, ElementOfSeq DEF TextOf
    <3>2. Len(SubSeq(text, 1, room)) = IF 1 <= room THEN room - 1 + 1 ELSE 0
      BY <2>2, <3>1, SubSeqProperties
    <3>3. room >= 1
      BY <1>1
    <3>4. Len(SubSeq(text, 1, room)) # 0
      BY <1>1, <3>2, <3>3
    <3>5. QED
      BY <3>4, EmptySeq
  <2>5. QED
    BY <1>1, <2>1, <2>3, <2>4, Concats DEF TextOf
<1>3. CASE ~(turn.limited /\ Len(m.delivered) + Len(text) > OutputLimit)
  <2>1. Clip(m, text) = [text |-> text, reached |-> m.reached]
    BY <1>3 DEF Clip
  <2>2. QED
    BY <1>1, <2>1, Concats DEF TextOf
<1>4. QED
  BY <1>2, <1>3

LEMMA DeliveredIsSpoken ==
    ASSUME turn \in Turns, NEW m, Locals(turn, m), Writing(Here, m),
           NEW text \in TextOf(turn, m.account), text # <<>>
    PROVE  Spoken(m, Delivered(m, text))
<1> DEFINE a == m.account
           clip == Clip(m, text)
           d == [m EXCEPT !.delivered = m.delivered \o clip.text, !.reached = clip.reached]
           frame == Text(clip.text)
<1>1. /\ clip.text \in TextOf(turn, a) /\ clip.reached \in BOOLEAN
      /\ m.delivered \o clip.text \in TextOf(turn, a)
      /\ m.delivered \o clip.text # <<>>
  BY ClipTypes
<1> HIDE DEF clip
<1>2. /\ Locals(turn, d) /\ Writing(Here, d) /\ SameTurn(m, d)
      /\ d.visible = m.visible /\ d.broke = m.broke /\ d.delivered # <<>> /\ d.account = a
      /\ d \in MeOf(turn, a)
  <2>1. d \in MeOf(turn, a) /\ d.visible = m.visible /\ d.broke = m.broke /\ SameTurn(m, d)
        /\ d.delivered = m.delivered \o clip.text
    BY <1>1 DEF Locals, MeOf, SameTurn
  <2>2. QED
    BY <1>1, <2>1 DEF Locals, Writing, SameTurn
<1>3. <<>> \in Seq(TextFrame(turn, a)) /\ <<frame>> \in Seq(TextFrame(turn, a))
  <2>1. frame \in TextFrame(turn, a)
    BY <1>1 DEF TextFrame, Text
  <2>2. QED
    BY <2>1
<1>4. CASE m.reached
  <2>1. Delivered(m, text) = [to |-> m, frames |-> <<>>]
    BY <1>4 DEF Delivered
  <2>2. QED
    BY <1>3, <2>1 DEF Spoken, SameTurn
<1>5. CASE ~m.reached /\ Guarded
  <2>1. Delivered(m, text) = [to |-> d, frames |-> <<>>]
    BY <1>5 DEF Delivered, clip
  <2> HIDE DEF d
  <2>2. QED
    BY <1>2, <1>3, <1>5, <2>1 DEF Spoken, Guarded
<1>6. CASE ~m.reached /\ ~Guarded /\ Here
  <2> DEFINE v == [d EXCEPT !.visible = TRUE]
  <2>1. Delivered(m, text) = [to |-> v, frames |-> <<frame>>]
    BY <1>6 DEF Delivered, clip
  <2>2. v \in MeOf(turn, a) /\ v.visible /\ v.broke = d.broke /\ SameTurn(d, v)
        /\ v.delivered = d.delivered
    <3> HIDE DEF d
    <3>1. QED
      BY <1>2 DEF MeOf, SameTurn
  <2>3. Locals(turn, v) /\ Writing(Here, v) /\ SameTurn(m, v)
    <3> HIDE DEF d, v
    <3>1. QED
      BY <1>2, <2>2 DEF Locals, Writing, SameTurn
  <2>4. QED
    <3> DEFINE e == Delivered(m, text)
    <3> HIDE DEF d, v, frame
    <3>1. e.to = v /\ e.frames = <<frame>>
      BY <2>1
    <3> HIDE DEF e
    <3>2. Spoken(m, e)
      BY <1>2, <1>3, <1>6, <2>2, <2>3, <3>1 DEF Spoken, Guarded
    <3>3. QED
      BY <3>2 DEF e
<1>7. CASE ~m.reached /\ ~Guarded /\ ~Here
  <2> DEFINE v == [d EXCEPT !.broke = TRUE]
  <2>1. Delivered(m, text) = [to |-> v, frames |-> <<>>]
    BY <1>7 DEF Delivered, clip
  <2>2. v \in MeOf(turn, a) /\ v.broke /\ v.visible = m.visible /\ SameTurn(d, v)
        /\ v.delivered = d.delivered
    <3> HIDE DEF d
    <3>1. QED
      BY <1>2 DEF MeOf, SameTurn
  <2>3. Locals(turn, v) /\ Writing(Here, v) /\ SameTurn(m, v)
    <3> HIDE DEF d, v
    <3>1. QED
      BY <1>2, <1>7, <2>2 DEF Locals, Writing, SameTurn
  <2>4. QED
    <3> HIDE DEF d, v
    <3>1. QED
      BY <1>3, <2>1, <2>2, <2>3 DEF Spoken
<1>8. QED
  BY <1>4, <1>5, <1>6, <1>7 DEF Locals, MeOf

LEMMA EmitIsSpoken ==
    ASSUME turn \in Turns, NEW m, Locals(turn, m), Writing(Here, m),
           NEW text \in TextOf(turn, m.account), text # <<>>
    PROVE  Spoken(m, EmitDelta(m, text))
<1> DEFINE a == m.account
           fed == Feed(m.guard, text)
           g == [m EXCEPT !.guard = fed.guard]
<1>1. /\ fed.guard \in Guard(turn, a) /\ fed.out \in TextOf(turn, a)
      /\ ~fed.held => fed.out # <<>>
      /\ fed.held \in BOOLEAN
  <2>1. m.guard \in Guard(turn, a)
    BY DEF Locals, MeOf
  <2>2. QED
    BY <2>1, FeedTypes
<1> HIDE DEF fed
<1>2. /\ Locals(turn, g) /\ Writing(Here, g) /\ SameTurn(m, g)
      /\ g.visible = m.visible /\ g.broke = m.broke /\ g.delivered = m.delivered
      /\ g.account = a
  <2>1. g \in MeOf(turn, a) /\ g.visible = m.visible /\ g.broke = m.broke /\ SameTurn(m, g)
        /\ g.delivered = m.delivered
    BY <1>1 DEF Locals, MeOf, SameTurn
  <2>2. QED
    <3> HIDE DEF g
    <3>1. QED
      BY <2>1 DEF Locals, Writing, SameTurn
<1>3. <<>> \in Seq(TextFrame(turn, a))
  OBVIOUS
<1>4. CASE m.reached
  <2>1. EmitDelta(m, text) = [to |-> m, frames |-> <<>>]
    BY <1>4 DEF EmitDelta
  <2>2. QED
    BY <1>3, <2>1 DEF Spoken, SameTurn
<1>5. CASE ~m.reached /\ fed.held
  <2>1. EmitDelta(m, text) = [to |-> g, frames |-> <<>>]
    BY <1>5 DEF EmitDelta, fed
  <2> HIDE DEF g
  <2>2. QED
    BY <1>2, <1>3, <2>1 DEF Spoken
<1>6. CASE ~m.reached /\ ~fed.held
  <2>1. EmitDelta(m, text) = Delivered(g, fed.out)
    BY <1>6 DEF EmitDelta, fed
  <2> HIDE DEF g
  <2>2. Spoken(g, Delivered(g, fed.out))
    BY <1>1, <1>2, <1>6, DeliveredIsSpoken
  <2>3. QED
    BY <1>2, <2>1, <2>2 DEF Spoken, SameTurn
<1>7. QED
  BY <1>1, <1>4, <1>5, <1>6 DEF Locals, MeOf

LEMMA SpeakTypes ==
    ASSUME turn \in Turns, NEW m, Locals(turn, m), NEW parts \in Seq(Part)
    PROVE  /\ Speak(m, parts) \in TextOf(turn, m.account)
           /\ Len(Speak(m, parts)) = Len(parts)
           /\ Speak(m, parts) = <<>> <=> parts = <<>>
<1>1. /\ m.told \in Nat /\ m.account \in 0..2 /\ Len(parts) \in Nat /\ DOMAIN parts = 1..Len(parts)
      /\ \A k \in DOMAIN parts : parts[k] \in Part
  BY LenProperties, ElementOfSeq DEF Locals, MeOf
<1>2. \A k \in DOMAIN parts : Piece(m, k, parts[k]) \in PieceOf(turn, m.account)
  BY <1>1 DEF Piece, PieceOf
<1>3. Speak(m, parts) \in [1..Len(parts) -> PieceOf(turn, m.account)]
  BY <1>1, <1>2 DEF Speak
<1>4. Speak(m, parts) \in TextOf(turn, m.account)
  BY <1>1, <1>3, SeqDef DEF TextOf
<1>5. Len(Speak(m, parts)) = Len(parts)
  <2>1. DOMAIN Speak(m, parts) = 1..Len(parts)
    BY <1>3
  <2>2. DOMAIN Speak(m, parts) = 1..Len(Speak(m, parts)) /\ Len(Speak(m, parts)) \in Nat
    BY <1>4, LenProperties DEF TextOf
  <2>3. QED
    BY <1>1, <2>1, <2>2
<1>6. QED
  BY <1>1, <1>4, <1>5, EmptySeq DEF TextOf

\* What a step leaves behind: a handler and a wire that are all right, on the same account unless
\* nothing was saved yet.
After(n, w) ==
    /\ MeOK(turn, Here, n) /\ WireOK(turn, Here, n, w)
    /\ n.saved = me.saved /\ (n.account = me.account \/ n.saved = "no")
    /\ n.pc # "returned"

LEMMA DoneTypes ==
    ASSUME turn \in Turns, NEW m, Locals(turn, m),
           NEW pc \in Answered \cup Over
    PROVE  LET d == Done(m, pc)
           IN /\ Locals(turn, d) /\ d.account = m.account /\ d.saved = m.saved /\ d.pc = pc
              /\ ~d.visible /\ ~d.broke /\ d.result = m.result /\ Writing(Here, d)
<1>1. turn \in Turn
  BY TurnAssumption
<1>2. <<>> \in TextOf(turn, m.account) /\ EmptyGuard \in Guard(turn, m.account)
  BY <1>1, TextTypes DEF Locals
<1> DEFINE d == Done(m, pc)
<1>3. /\ d \in MeOf(turn, m.account) /\ d.account = m.account /\ d.saved = m.saved
      /\ d.pc = pc /\ ~d.visible /\ ~d.broke /\ d.result = m.result
  BY <1>2, ZenonT(60) DEF Done, Locals, MeOf
<1> HIDE DEF d
<1>4. Locals(turn, d) /\ Writing(Here, d)
  BY <1>3 DEF Locals, Writing
<1>5. QED
  BY <1>3, <1>4 DEF d

(* A handler that has ended looks at nothing any more.                     *)
LEMMA EndedIsOK ==
    ASSUME turn \in Turns, NEW m, Locals(turn, m)
    PROVE  /\ MeOK(turn, Here, Ended(m))
           /\ Ended(m).pc = "ended" /\ Ended(m).account = m.account /\ Ended(m).saved = m.saved
<1> DEFINE d == Done(m, "ended")
           e == [d EXCEPT !.conversation = NoConversation, !.reached = FALSE, !.incomplete = FALSE,
                          !.result = NoResult, !.failure = "none", !.switched = FALSE]
<1>1. /\ Locals(turn, d) /\ d.account = m.account /\ d.saved = m.saved /\ d.pc = "ended"
      /\ ~d.visible /\ ~d.broke
  BY DoneTypes DEF Over
<1>2. NoResult \in AnyResult /\ NoConversation \in ConvsOf(m.account)
  BY EmptySeq DEF NoResult, AnyResult, ConvsOf
<1> HIDE DEF d
<1>3. /\ e \in MeOf(turn, m.account) /\ e.account = m.account /\ e.saved = m.saved
      /\ e.pc = "ended" /\ ~e.visible /\ ~e.broke
  <2>1. d \in MeOf(turn, m.account)
    BY <1>1 DEF Locals
  <2>2. e \in MeOf(turn, m.account)
    BY <1>2, <2>1, ZenonT(60) DEF MeOf
  <2>3. QED
    BY <1>1, <2>1, <2>2, ZenonT(60) DEF MeOf
<1>4. e = Ended(m)
  BY DEF Ended, d
<1> HIDE DEF e
<1>5. MeOK(turn, Here, e)
  BY <1>3 DEF MeOK, Locals, Writing, Deciding, Answered, Over
<1>6. QED
  BY <1>3, <1>4, <1>5

(* The turn's one ending.                                                  *)
LEMMA ClosesWith ==
    ASSUME turn \in Turns, NEW m, Locals(turn, m),
           wire \in Open(turn, m.account),
           NEW u, wire \o u \in Open(turn, m.account),
           NEW kind \in EndingKinds, kind # "error" => m.saved # "no", MustCall(turn) => kind # "stop",
           me' = Ended(m),
           wire' = IF Here THEN (wire \o u) \o Close(turn, kind) ELSE wire
    PROVE  /\ MeOK(turn, Here, me') /\ WireOK(turn, Here, me', wire')
           /\ me'.pc = "ended" /\ me'.account = m.account /\ me'.saved = m.saved
<1>1. /\ MeOK(turn, Here, me') /\ me'.pc = "ended" /\ me'.account = m.account
      /\ me'.saved = m.saved
  BY EndedIsOK
<1>2. Closed(turn, me', wire') \/ (~Here /\ wire' \in Open(turn, me'.account))
  BY <1>1 DEF Closed
<1>3. WireOK(turn, Here, me', wire')
  BY <1>1, <1>2 DEF WireOK, Deciding, Over
<1>4. QED
  BY <1>1, <1>3

(* A handler whose client has left ends without a word.                    *)
LEMMA LeavesQuietly ==
    ASSUME turn \in Turns, NEW m, Locals(turn, m), wire \in Open(turn, m.account), ~Here,
           me' = Ended(m), wire' = wire
    PROVE  /\ MeOK(turn, Here, me') /\ WireOK(turn, Here, me', wire')
           /\ me'.pc = "ended" /\ me'.account = m.account /\ me'.saved = m.saved
<1>1. /\ MeOK(turn, Here, me') /\ me'.pc = "ended" /\ me'.account = m.account
      /\ me'.saved = m.saved
  BY EndedIsOK
<1>2. WireOK(turn, Here, me', wire')
  BY <1>1 DEF WireOK, Deciding, Over
<1>3. QED
  BY <1>1, <1>2

LEMMA EndingIsClose ==
    ASSUME turn \in Turns, NEW kind
    PROVE  Ending(<<Frame(kind)>>) = Close(turn, kind)
<1>1. Append(<<Frame(kind)>>, Frame("done")) = <<Frame(kind), Frame("done")>>
  <2> DEFINE f == Frame(kind)
             g == Frame("done")
             S == {f, g}
  <2> HIDE DEF f, g
  <2>1. <<f>> \in Seq(S) /\ <<f, g>> \in Seq(S) /\ Len(<<f>>) = 1 /\ Len(<<f, g>>) = 2
        /\ <<f>>[1] = f /\ <<f, g>>[1] = f /\ <<f, g>>[2] = g
    OBVIOUS
  <2>2. /\ Append(<<f>>, g) \in Seq(S) /\ Len(Append(<<f>>, g)) = 2
        /\ Append(<<f>>, g)[1] = f /\ Append(<<f>>, g)[2] = g
    BY <2>1, AppendProperties
  <2>3. Append(<<f>>, g) = <<f, g>>
    <3> HIDE DEF S
    <3> DEFINE x == Append(<<f>>, g)
               y == <<f, g>>
    <3> SUFFICES x = y
      OBVIOUS
    <3>1. x \in Seq(S) /\ y \in Seq(S) /\ Len(x) = Len(y) /\ \A i \in 1..Len(x) : x[i] = y[i]
      BY <2>1, <2>2
    <3> HIDE DEF x, y
    <3>2. QED
      BY <3>1, SeqEqual
  <2>4. QED
    BY <2>3 DEF f, g
<1>2. QED
  BY <1>1 DEF Ending, Close

LEMMA FailsOnce ==
    ASSUME turn \in Turns, NEW m, Locals(turn, m), wire \in Open(turn, m.account), FailsWith(m)
    PROVE  /\ MeOK(turn, Here, me') /\ WireOK(turn, Here, me', wire')
           /\ me'.pc = "ended" /\ me'.account = m.account /\ me'.saved = m.saved
<1>1. wire \o <<>> = wire
  BY ConcatEmptySeq DEF Open
<1>2. me' = Ended(m) /\ wire' = IF Here THEN (wire \o <<>>) \o Close(turn, "error") ELSE wire
  BY <1>1, EndingIsClose DEF FailsWith, Send
<1>3. QED
  BY <1>1, <1>2, ClosesWith DEF EndingKinds

(* What was said keeps the handler and the wire in order.                  *)
LEMMA SpokenKeeps ==
    ASSUME turn \in Turns, NEW m, MeOK(turn, Here, m), WireOK(turn, Here, m, wire),
           m.pc \in {"answer"} \cup Answered, m.pc = "answer" => turn.stream,
           NEW e, Spoken(m, e), Send(e.frames)
    PROVE  /\ MeOK(turn, Here, e.to) /\ WireOK(turn, Here, e.to, wire')
           /\ e.to.account = m.account /\ e.to.saved = m.saved /\ e.to.pc = m.pc
<1> DEFINE n == e.to
           a == m.account
<1>1. /\ Locals(turn, n) /\ Writing(Here, n) /\ n.pc = m.pc /\ n.account = a
      /\ n.saved = m.saved /\ n.tail = m.tail /\ n.result = m.result
      /\ m.visible => n.visible
      /\ m.broke => n.broke
      /\ n.delivered # m.delivered => turn.tools \/ n.visible \/ n.broke
      /\ e.frames \in Seq(TextFrame(turn, a))
      /\ e.frames # <<>> => n.visible
  BY DEF Spoken, SameTurn
<1> HIDE DEF n
<1>2. m.pc \notin Deciding /\ m.pc \notin Over /\ ~MustCall(turn)
  BY DEF MeOK, Answered, Deciding, Over
<1>3. MeOK(turn, Here, n)
  BY <1>1, <1>2 DEF MeOK, ResultFits
<1>4. wire' \in Open(turn, a) /\ (wire' # <<>> => wire # <<>> \/ e.frames # <<>>)
  <2>1. TextFrame(turn, a) \subseteq OpenFrame(turn, a)
    BY <1>2 DEF OpenFrame
  <2>2. e.frames \in Open(turn, a) /\ wire \in Open(turn, a)
    BY <1>1, <1>2, <2>1, SeqMonotonic DEF Open, WireOK
  <2>3. QED
    BY <2>2, Concats DEF Send, Open
<1>5. WireOK(turn, Here, n, wire')
  BY <1>1, <1>2, <1>4 DEF WireOK
<1>6. QED
  BY <1>1, <1>3, <1>5 DEF n

---------------------------------------------------------------------------
(* The tool router.                                                        *)

\* The parts of the invariant a step of the handler starts from.
Ready ==
    /\ turn \in Turns
    /\ MeOK(turn, Here, me) /\ WireOK(turn, Here, me, wire)

LEMMA GoesFields ==
    ASSUME turn \in Turns, NEW m, Locals(turn, m),
           NEW pc \in Deciding \cup {"answer"} \cup Answered \cup Over
    PROVE  LET n == Goes(m, pc)
           IN /\ Locals(turn, n) /\ n.pc = pc /\ n.account = m.account /\ n.saved = m.saved
              /\ n.result = m.result /\ n.tail = m.tail
              /\ n.delivered = m.delivered /\ n.visible = m.visible /\ n.broke = m.broke
              /\ (Writing(Here, m) => Writing(Here, n))
              /\ (Untouched(m) => Untouched(n))
<1> DEFINE n == Goes(m, pc)
<1>1. /\ n \in MeOf(turn, m.account) /\ n.pc = pc /\ n.account = m.account /\ n.saved = m.saved
      /\ n.result = m.result /\ n.tail = m.tail /\ n.said = m.said /\ n.guard = m.guard
      /\ n.delivered = m.delivered /\ n.visible = m.visible /\ n.broke = m.broke
  BY DEF Goes, Locals, MeOf
<1> HIDE DEF n
<1>2. QED
  <2>1. Locals(turn, n)
    BY <1>1 DEF Locals
  <2>2. QED
    BY <1>1, <2>1 DEF Writing, Untouched, n

(* A turn that the router is deciding about is still silent.               *)
LEMMA DecidedOK ==
    ASSUME turn \in Turns, NEW m, MeOK(turn, Here, m), m.pc \in {"route", "repair", "require"},
           wire = <<>>, m.saved = me.saved,
           NEW decision, Decided(m, decision)
    PROVE  After(me', wire')
<1>1. /\ Locals(turn, m) /\ Writing(Here, m) /\ Untouched(m) /\ m.saved = "no"
  BY DEF MeOK, Deciding, Over
<1>2. wire \in Open(turn, m.account) /\ wire \in Open(turn, 1) /\ wire \in Open(turn, 2)
  BY DEF Open
<1>3. ASSUME NEW pc \in {"save calls", "repair", "require", "answer"},
             pc = "answer" => ~Required(turn),
             me' = Goes(m, pc), UNCHANGED wire
      PROVE  After(me', wire')
  <2>0. pc \in Deciding \cup {"answer"} \cup Answered \cup Over
    BY DEF Deciding
  <2>1. /\ Locals(turn, me') /\ me'.pc = pc /\ me'.account = m.account /\ me'.saved = "no"
        /\ Writing(Here, me') /\ Untouched(me')
    BY <1>1, <1>3, <2>0, GoesFields, ZenonT(60)
  <2>2. pc \notin Over /\ pc \notin Answered /\ pc \notin {"send calls", "conclude"}
    BY <1>3 DEF Over, Answered
  <2>3. MeOK(turn, Here, me')
    BY <1>3, <2>1, <2>2 DEF MeOK, Untouched, MustCall, Deciding
  <2>4. WireOK(turn, Here, me', wire')
    BY <1>2, <1>3, <2>1, <2>2 DEF WireOK
  <2>5. QED
    BY <1>1, <2>1, <2>2, <2>3, <2>4 DEF After, Over
<1>4. ASSUME FailsWith(m) PROVE After(me', wire')
  BY <1>1, <1>2, <1>4, FailsOnce DEF After
<1>5. QED
  BY <1>3, <1>4 DEF Decided

LEMMA RouterDecidesOK ==
    ASSUME Ready, NEW d, RouterDecides(d)
    PROVE  After(me', wire')
<1>1. wire = <<>>
  BY DEF Ready, WireOK, RouterDecides, Routing, Deciding
<1>2. QED
  BY <1>1, DecidedOK DEF Ready, RouterDecides, Routing

LEMMA CutFields ==
    ASSUME turn \in Turns, NEW m, Locals(turn, m)
    PROVE  LET n == [m EXCEPT !.cut = TRUE]
           IN /\ Locals(turn, n) /\ n.pc = m.pc /\ n.account = m.account /\ n.saved = m.saved
              /\ n.result = m.result
              /\ (MeOK(turn, Here, m) => MeOK(turn, Here, n))
<1> DEFINE n == [m EXCEPT !.cut = TRUE]
<1>1. /\ n \in MeOf(turn, m.account) /\ n.pc = m.pc /\ n.account = m.account /\ n.saved = m.saved
      /\ n.result = m.result /\ n.tail = m.tail /\ n.said = m.said /\ n.guard = m.guard
      /\ n.delivered = m.delivered /\ n.visible = m.visible /\ n.broke = m.broke
  BY DEF Locals, MeOf
<1> HIDE DEF n
<1>2. Locals(turn, n)
  BY <1>1 DEF Locals
<1>3. MeOK(turn, Here, m) => MeOK(turn, Here, n)
  BY <1>1, <1>2 DEF MeOK, Writing, Untouched, ResultFits
<1>4. QED
  BY <1>1, <1>2, <1>3 DEF n

LEMMA RouterFailsOK ==
    ASSUME Ready, NEW failure, RouterFails(failure)
    PROVE  After(me', wire')
<1>1. /\ wire = <<>> /\ me.pc \in {"route", "repair", "require"} /\ Locals(turn, me)
      /\ Untouched(me) /\ me.saved = "no" /\ Writing(Here, me)
  BY DEF Ready, WireOK, MeOK, RouterFails, Routing, Deciding, Over
<1>2. PICK a \in ActivateNextAccount(me, failure, NoResult, FALSE) :
         CASE a.moved -> me' = a.to /\ UNCHANGED wire
           [] ~a.moved /\ me.pc = "route" -> FailsWith(a.to)
           [] OTHER -> Decided(a.to, "invalid")
  BY DEF RouterFails
<1>3. CASE a.moved = FALSE /\ a.to \in {me, [me EXCEPT !.cut = TRUE]}
  <2>1. /\ MeOK(turn, Here, a.to) /\ Locals(turn, a.to) /\ a.to.pc = me.pc
        /\ a.to.saved = me.saved
    BY <1>1, <1>3, CutFields DEF Ready
  <2>2. wire \in Open(turn, a.to.account)
    BY <1>1 DEF Open
  <2>3. CASE me.pc = "route"
    <3>1. FailsWith(a.to)
      BY <1>2, <1>3, <2>3
    <3>2. QED
      BY <1>1, <2>1, <2>2, <3>1, FailsOnce DEF Ready, After
  <2>4. CASE me.pc # "route"
    <3>1. Decided(a.to, "invalid")
      BY <1>2, <1>3, <2>4
    <3>2. QED
      BY <1>1, <2>1, <3>1, DecidedOK DEF Ready
  <2>5. QED
    BY <2>3, <2>4
<1>4. CASE /\ a.moved = TRUE
           /\ a.to = [me EXCEPT !.account = 2, !.switched = TRUE,
                                !.conversation = NoConversation, !.told = 0]
  <2>1. /\ me' = [me EXCEPT !.account = 2, !.switched = TRUE,
                            !.conversation = NoConversation, !.told = 0]
        /\ wire' = wire
    BY <1>2, <1>4
  <2>2. turn \in Turn
    BY TurnAssumption DEF Ready
  <2>3. /\ me' \in MeOf(turn, 2) /\ me'.account = 2 /\ me'.pc = me.pc /\ me'.saved = me.saved
        /\ me'.said = <<>> /\ me'.delivered = <<>> /\ me'.guard = EmptyGuard /\ me'.tail = EmptyGuard
        /\ ~me'.visible /\ me'.broke = me.broke
    <3>1. /\ <<>> \in TextOf(turn, 2) /\ EmptyGuard \in Guard(turn, 2)
          /\ NoConversation \in ConvsOf(2)
      BY <2>2, TextTypes DEF ConvsOf
    <3>2. /\ me.said = <<>> /\ me.delivered = <<>> /\ me.guard = EmptyGuard
          /\ me.tail = EmptyGuard /\ ~me.visible
      BY <1>1 DEF Untouched
    <3>3. me \in MeOf(turn, me.account)
      BY <1>1 DEF Locals
    <3>4. QED
      BY <2>1, <3>1, <3>2, <3>3, ZenonT(60) DEF MeOf
  <2>4. Locals(turn, me') /\ Writing(Here, me') /\ Untouched(me')
    BY <1>1, <2>3 DEF Locals, Writing, Untouched
  <2>5. me.pc \in Deciding /\ me.pc \notin Over /\ me.pc \notin Answered
        /\ me.pc \notin {"send calls", "conclude", "answer", "resume", "returned"}
    BY <1>1 DEF Deciding, Over, Answered
  <2>6. MeOK(turn, Here, me')
    BY <1>1, <2>3, <2>4, <2>5 DEF MeOK
  <2>7. WireOK(turn, Here, me', wire')
    <3>1. me'.pc \notin Over /\ me'.pc # "answer"
      BY <2>3, <2>5
    <3>2. wire' = <<>> /\ wire' \in Open(turn, me'.account)
      BY <1>1, <2>1 DEF Open
    <3>3. QED
      BY <3>1, <3>2 DEF WireOK
  <2>8. me'.saved = me.saved /\ me'.saved = "no" /\ me'.pc # "returned"
    BY <1>1, <2>3, <2>5
  <2>9. QED
    BY <2>6, <2>7, <2>8 DEF After
<1>5. \/ a.moved = FALSE /\ a.to \in {me, [me EXCEPT !.cut = TRUE]}
      \/ /\ a.moved = TRUE
         /\ a.to = [me EXCEPT !.account = 2, !.switched = TRUE,
                              !.conversation = NoConversation, !.told = 0]
  BY DEF ActivateNextAccount, ShouldFailoverAccount
<1>6. QED
  BY <1>3, <1>4, <1>5

---------------------------------------------------------------------------
(* The answer.                                                             *)

LEMMA SaysFields ==
    ASSUME turn \in Turns, NEW m, Locals(turn, m), NEW text \in TextOf(turn, m.account)
    PROVE  LET n == Says(m, text)
           IN /\ Locals(turn, n) /\ n.pc = m.pc /\ n.account = m.account /\ n.saved = m.saved
              /\ (Writing(Here, m) => Writing(Here, n))
              /\ (m.pc \in {"answer"} \cup Answered /\ MeOK(turn, Here, m) =>
                    MeOK(turn, Here, n) /\ (WireOK(turn, Here, m, wire) => WireOK(turn, Here, n, wire)))
<1> DEFINE n == Says(m, text)
<1>1. m.said \o text \in TextOf(turn, m.account) /\ m.told + Len(text) \in Nat
  <2>1. m.said \in TextOf(turn, m.account) /\ m.told \in Nat
    BY DEF Locals, MeOf
  <2>2. QED
    BY <2>1, Concats, LenProperties DEF TextOf
<1>2. /\ n \in MeOf(turn, m.account) /\ n.pc = m.pc /\ n.account = m.account /\ n.saved = m.saved
      /\ n.result = m.result /\ n.tail = m.tail /\ n.guard = m.guard
      /\ n.delivered = m.delivered /\ n.visible = m.visible /\ n.broke = m.broke
  BY <1>1, ZenonT(60) DEF Says, Locals, MeOf
<1> HIDE DEF n
<1>3. Locals(turn, n) /\ (Writing(Here, m) => Writing(Here, n))
  BY <1>2 DEF Locals, Writing
<1>4. ASSUME m.pc \in {"answer"} \cup Answered, MeOK(turn, Here, m)
      PROVE  MeOK(turn, Here, n) /\ (WireOK(turn, Here, m, wire) => WireOK(turn, Here, n, wire))
  <2>1. m.pc \notin Deciding /\ m.pc \notin Over
    BY <1>4 DEF Answered, Deciding, Over
  <2>2. MeOK(turn, Here, n)
    BY <1>2, <1>3, <1>4, <2>1 DEF MeOK, ResultFits
  <2>3. WireOK(turn, Here, m, wire) => WireOK(turn, Here, n, wire)
    BY <1>2, <2>1 DEF WireOK
  <2>4. QED
    BY <2>2, <2>3
<1>5. QED
  BY <1>2, <1>3, <1>4 DEF n

LEMMA AnswerDeltaOK ==
    ASSUME Ready, NEW part \in Part, AnswerDelta(part)
    PROVE  After(me', wire')
<1> DEFINE text == Speak(me, <<part>>)
           m == Says(me, text)
           e == EmitDelta(m, text)
<1>1. me.pc = "answer" /\ turn.stream /\ me' = e.to /\ Send(e.frames)
  BY DEF AnswerDelta
<1>2. Locals(turn, me) /\ Writing(Here, me) /\ MeOK(turn, Here, me) /\ me.saved = "no"
  BY <1>1 DEF Ready, MeOK, Over
<1>3. text \in TextOf(turn, me.account) /\ text # <<>>
  <2>1. <<part>> \in Seq(Part) /\ <<part>> # <<>>
    OBVIOUS
  <2>2. QED
    BY <1>2, <2>1, SpeakTypes DEF Ready
<1> HIDE DEF text
<1>4. /\ MeOK(turn, Here, m) /\ WireOK(turn, Here, m, wire) /\ m.pc = "answer"
      /\ m.account = me.account /\ m.saved = me.saved /\ Locals(turn, m) /\ Writing(Here, m)
  BY <1>1, <1>2, <1>3, SaysFields DEF Ready
<1> HIDE DEF m
<1>5. Spoken(m, e)
  BY <1>3, <1>4, EmitIsSpoken DEF Ready
<1> HIDE DEF e
<1>6. /\ MeOK(turn, Here, e.to) /\ WireOK(turn, Here, e.to, wire')
      /\ e.to.account = m.account /\ e.to.saved = m.saved /\ e.to.pc = m.pc
  BY <1>1, <1>4, <1>5, SpokenKeeps DEF Ready
<1>7. QED
  BY <1>1, <1>4, <1>6 DEF After

(* The end of the answering call, however it ended.                        *)
LEMMA AnswerEndsOK ==
    ASSUME turn \in Turns, NEW h, MeOK(turn, Here, h), WireOK(turn, Here, h, wire),
           h.pc = "answer", h.account = me.account, h.saved = me.saved,
           NEW failure \in {"none", "network", "quota", "refused", "ended"},
           NEW result \in AnyResult, result.text \in TextOf(turn, h.account),
           result.conversation \in ConvsOf(h.account),
           AnswerEnds(h, failure, result)
    PROVE  After(me', wire')
<1> DEFINE m == [h EXCEPT !.failure = failure, !.result = result]
<1>1. /\ Locals(turn, h) /\ Writing(Here, h) /\ h.tail = EmptyGuard /\ h.saved = "no"
      /\ h.delivered # <<>> => turn.tools \/ (turn.stream /\ (h.visible \/ h.broke))
      /\ wire \in Open(turn, h.account)
      /\ wire # <<>> => turn.stream /\ h.visible
      /\ ~MustCall(turn)
  BY DEF MeOK, WireOK, Over, Deciding
<1>2. /\ m \in MeOf(turn, h.account) /\ m.pc = "answer" /\ m.account = h.account
      /\ m.saved = h.saved /\ m.result = result /\ m.tail = h.tail
      /\ m.delivered = h.delivered /\ m.visible = h.visible /\ m.broke = h.broke
  BY <1>1, ZenonT(60) DEF Locals, MeOf
<1> HIDE DEF m
<1>3. Locals(turn, m) /\ Writing(Here, m)
  BY <1>1, <1>2 DEF Locals, Writing
<1>4. PICK a \in IF turn.stream /\ (m.broke \/ ~Here) THEN {[moved |-> FALSE, to |-> m]}
                 ELSE ActivateNextAccount(m, failure, result, turn.stream /\ m.visible) :
         me' = IF a.moved THEN Replays(a.to) ELSE Goes(a.to, "settle")
  BY DEF AnswerEnds, m
<1>5. wire' = wire
  BY DEF AnswerEnds
<1>6. CASE a.moved = FALSE /\ a.to \in {m, [m EXCEPT !.cut = TRUE]}
  <2>1. /\ Locals(turn, a.to) /\ a.to.account = m.account /\ a.to.saved = m.saved
        /\ a.to.result = m.result
    BY <1>3, <1>6, CutFields, ZenonT(60)
  <2>2. Writing(Here, a.to)
    <3>1. CASE a.to = m
      BY <1>3, <3>1
    <3>2. CASE a.to = [m EXCEPT !.cut = TRUE]
      BY <1>2, <1>3, <3>2 DEF MeOf, Writing
    <3>3. QED
      BY <1>6, <3>1, <3>2
  <2>3. me' = Goes(a.to, "settle")
    BY <1>4, <1>6
  <2>4. /\ Locals(turn, me') /\ me'.pc = "settle" /\ me'.account = m.account
        /\ me'.saved = "no" /\ me'.result = result /\ Writing(Here, me')
    <3>1. "settle" \in Answered
      BY DEF Answered
    <3> DEFINE n == Goes(a.to, "settle")
    <3>2. /\ Locals(turn, n) /\ n.pc = "settle" /\ n.account = a.to.account
          /\ n.saved = a.to.saved /\ n.result = a.to.result /\ Writing(Here, n)
      BY <2>1, <2>2, <3>1, GoesFields
    <3> HIDE DEF n
    <3>3. QED
      BY <1>1, <1>2, <2>1, <2>3, <3>2 DEF n
  <2>5. MeOK(turn, Here, me')
    BY <1>1, <1>2, <2>4 DEF MeOK, ResultFits, Deciding
  <2>6. WireOK(turn, Here, me', wire')
    BY <1>1, <1>2, <1>5, <2>4 DEF WireOK, Over, Deciding
  <2>7. QED
    BY <1>1, <1>2, <2>4, <2>5, <2>6 DEF After
<1>7. CASE /\ a.moved = TRUE /\ ~(turn.stream /\ m.visible) /\ ~(turn.stream /\ m.broke)
           /\ a.to = [m EXCEPT !.account = 2, !.switched = TRUE,
                               !.conversation = NoConversation, !.told = 0]
  <2>1. me' = Replays([m EXCEPT !.account = 2, !.switched = TRUE,
                                !.conversation = NoConversation, !.told = 0])
    BY <1>4, <1>7
  <2>2. turn \in Turn
    BY TurnAssumption
  <2>3. m.delivered \in TextOf(turn, 2) /\ wire = <<>>
    <3>1. m.delivered \in TextOf(turn, h.account) /\ h.account \in {1, 2}
      BY <1>1, <1>2 DEF Locals, MeOf
    <3>2. turn.tools \/ m.delivered = <<>>
      BY <1>1, <1>2, <1>7
    <3>3. QED
      BY <1>1, <1>2, <1>7, <2>2, <3>1, <3>2, TextTypes
  <2>4. /\ <<>> \in TextOf(turn, 2) /\ EmptyGuard \in Guard(turn, 2)
        /\ NoConversation \in ConvsOf(2)
    BY <2>2, TextTypes DEF ConvsOf
  <2>5. /\ me' \in MeOf(turn, 2) /\ me'.account = 2 /\ me'.pc = "answer" /\ me'.saved = "no"
        /\ me'.tail = EmptyGuard /\ me'.delivered = m.delivered
        /\ me'.visible = m.visible /\ me'.broke = m.broke
    <3>1. m \in MeOf(turn, m.account) /\ m.tail = EmptyGuard
      BY <1>1, <1>2
    <3>2. QED
      BY <1>1, <1>2, <2>1, <2>3, <2>4, <3>1, ZenonT(60) DEF MeOf, Replays
  <2>6. MeOK(turn, Here, me')
    <3>1. Locals(turn, me') /\ Writing(Here, me')
      BY <1>3, <2>5 DEF Locals, Writing
    <3>2. me'.delivered # <<>> => turn.tools
      BY <1>1, <1>2, <1>7, <2>5
    <3>3. QED
      BY <1>1, <2>5, <3>1, <3>2 DEF MeOK, Deciding, Answered
  <2>7. wire' = <<>> /\ wire' \in Open(turn, me'.account)
    BY <1>5, <2>3 DEF Open
  <2>8. WireOK(turn, Here, me', wire')
    BY <2>5, <2>7 DEF WireOK, Over
  <2>9. QED
    BY <1>1, <2>5, <2>6, <2>8 DEF After
<1>8. QED
  <2>1. CASE turn.stream /\ (m.broke \/ ~Here)
    <3>1. a = [moved |-> FALSE, to |-> m]
      BY <1>4, <2>1
    <3>2. QED
      BY <1>6, <3>1
  <2>2. CASE ~(turn.stream /\ (m.broke \/ ~Here))
    <3>1. \/ a.moved = FALSE /\ a.to \in {m, [m EXCEPT !.cut = TRUE]}
          \/ /\ a.moved = TRUE /\ ~(turn.stream /\ m.visible)
             /\ a.to = [m EXCEPT !.account = 2, !.switched = TRUE,
                                 !.conversation = NoConversation, !.told = 0]
      <4>1. a \in ActivateNextAccount(m, failure, result, turn.stream /\ m.visible)
        BY <1>4, <2>2
      <4>2. QED
        BY <4>1 DEF ActivateNextAccount, ShouldFailoverAccount
    <3>2. QED
      BY <1>6, <1>7, <2>2, <3>1
  <2>3. QED
    BY <2>1, <2>2

\* A handler that differs only in its books: what it counted and remembers of the call.
Alike(m, n) ==
    /\ Locals(turn, n)
    /\ n.pc = m.pc /\ n.account = m.account /\ n.saved = m.saved /\ n.result = m.result
    /\ n.tail = m.tail /\ n.delivered = m.delivered /\ n.visible = m.visible /\ n.broke = m.broke
    /\ n.said = m.said

LEMMA AlikeKeeps ==
    ASSUME turn \in Turns, NEW m, NEW n, Alike(m, n), m.pc \in {"answer"} \cup Answered,
           MeOK(turn, Here, m)
    PROVE  MeOK(turn, Here, n) /\ (WireOK(turn, Here, m, wire) => WireOK(turn, Here, n, wire))
<1>1. m.pc \notin Deciding /\ m.pc \notin Over
  BY DEF Answered, Deciding, Over
<1>2. MeOK(turn, Here, n)
  BY <1>1 DEF MeOK, ResultFits, Alike, Writing
<1>3. WireOK(turn, Here, m, wire) => WireOK(turn, Here, n, wire)
  BY <1>1 DEF WireOK, Alike
<1>4. QED
  BY <1>2, <1>3

LEMMA TalliesAreAlike ==
    ASSUME turn \in Turns, NEW m, Locals(turn, m), NEW text \in TextOf(turn, m.account), NEW long
    PROVE  Alike(m, Gap(Told(m, text), text, long))
<1> DEFINE told == Told(m, text)
           missed == told.gap \/ (turn.stream /\ long /\ told.said = <<>> /\ text # <<>>)
           n == [told EXCEPT !.gap = missed]
<1>1. m \in MeOf(turn, m.account) /\ m.told \in Nat /\ Len(text) \in Nat
  BY LenProperties DEF Locals, MeOf, TextOf
<1>2. /\ told \in MeOf(turn, m.account) /\ told.account = m.account
      /\ Alike(m, told)
  BY <1>1 DEF Told, MeOf, Alike, Locals
<1> HIDE DEF told
<1>3. missed \in BOOLEAN
  BY DEF MeOf
<1> HIDE DEF missed
<1>4. n \in MeOf(turn, m.account) /\ Alike(told, n)
  BY <1>2, <1>3 DEF MeOf, Alike, Locals
<1>5. n = Gap(told, text, long)
  BY DEF Gap, missed
<1> HIDE DEF n
<1>6. QED
  BY <1>2, <1>4, <1>5 DEF Alike, told

LEMMA ConversationTypes ==
    ASSUME turn \in Turns, NEW m, Locals(turn, m)
    PROVE  InConversation(m) \in ConvsOf(m.account)
BY DEF InConversation, Locals, MeOf, ConvsOf

LEMMA WholeTextTypes == WholeTexts \subseteq Seq(Part)
<1>1. /\ <<>> \in Seq(Part) /\ <<"prose">> \in Seq(Part) /\ <<"prose", "prose">> \in Seq(Part)
      /\ Overload \in Seq(Part) /\ <<"claim">> \in Seq(Part)
  BY DEF Part, Overload
<1>2. QED
  BY <1>1 DEF WholeTexts

LEMMA AnswerSucceedsOK ==
    ASSUME Ready, AnswerSucceeds
    PROVE  After(me', wire')
<1>1. /\ me.pc = "answer" /\ Locals(turn, me) /\ MeOK(turn, Here, me) /\ WireOK(turn, Here, me, wire)
      /\ me.said \in TextOf(turn, me.account)
  BY DEF Ready, AnswerSucceeds, MeOK, Locals, MeOf
<1>2. PICK r \in Results(me, me.said) :
         AnswerEnds(Gap(Told(me, r.text), r.text, r.capped), "none", r)
  BY DEF AnswerSucceeds
<1>3. turn \in Turn /\ me.account \in {1, 2}
  BY <1>1, TurnAssumption DEF Ready, Locals
<1>4. /\ r.text \in TextOf(turn, me.account) /\ r.conversation \in ConvsOf(me.account)
      /\ r \in AnyResult
  <2>1. r.text \in TextOf(turn, me.account)
    <3>1. \A t \in WholeTexts : Speak(me, t) \in TextOf(turn, me.account)
      BY <1>1, SpeakTypes, WholeTextTypes DEF Ready
    <3>2. r.text \in IF me.said # <<>> THEN {me.said} ELSE {Speak(me, t) : t \in WholeTexts}
      BY <1>2 DEF Results
    <3>3. QED
      BY <1>1, <3>1, <3>2
  <2>2. InConversation(me) \in ConvsOf(me.account) /\ r.conversation = InConversation(me)
    BY <1>1, <1>2, ConversationTypes DEF Ready, Results
  <2>3. r.text \in Seq(AnyPiece) /\ r.conversation \in ConvsOf(1) \cup ConvsOf(2)
    BY <1>3, <2>1, <2>2, TextTypes
  <2>4. r = [text |-> r.text, conversation |-> r.conversation, capped |-> r.capped,
             calls |-> r.calls, spent |-> r.spent]
        /\ r.capped \in BOOLEAN /\ r.calls \in BOOLEAN /\ r.spent \in BOOLEAN
    BY <1>2 DEF Results
  <2>5. QED
    BY <2>1, <2>2, <2>3, <2>4 DEF AnyResult
<1> DEFINE h == Gap(Told(me, r.text), r.text, r.capped)
<1>5. Alike(me, h)
  BY <1>1, <1>4, TalliesAreAlike DEF Ready
<1>6. AnswerEnds(h, "none", r)
  BY <1>2
<1> HIDE DEF h
<1>7. /\ MeOK(turn, Here, h) /\ WireOK(turn, Here, h, wire) /\ h.pc = "answer"
      /\ h.account = me.account /\ h.saved = me.saved
  <2>1. MeOK(turn, Here, h) /\ WireOK(turn, Here, h, wire)
    BY <1>1, <1>5, AlikeKeeps DEF Ready
  <2>2. QED
    BY <1>1, <1>5, <2>1 DEF Alike
<1>8. QED
  BY <1>4, <1>6, <1>7, AnswerEndsOK DEF Ready

LEMMA AnswerFailsOK ==
    ASSUME Ready, NEW failure \in {"network", "quota", "refused", "ended"}, AnswerFails(failure)
    PROVE  After(me', wire')
<1>1. /\ me.pc = "answer" /\ Locals(turn, me) /\ MeOK(turn, Here, me) /\ WireOK(turn, Here, me, wire)
      /\ me.said \in TextOf(turn, me.account)
  BY DEF Ready, AnswerFails, MeOK, Locals, MeOf
<1>2. PICK r \in {NoResult, [NoResult EXCEPT !.text = me.said, !.conversation = InConversation(me)]} :
         AnswerEnds(me, failure, r)
  BY DEF AnswerFails
<1>3. turn \in Turn /\ me.account \in {1, 2}
  BY <1>1, TurnAssumption DEF Ready, Locals
<1>4. /\ r.text \in TextOf(turn, me.account) /\ r.conversation \in ConvsOf(me.account)
      /\ r \in AnyResult
  <2>1. InConversation(me) \in ConvsOf(me.account) /\ NoConversation \in ConvsOf(me.account)
    BY <1>1, ConversationTypes DEF Ready, ConvsOf
  <2>2. /\ me.said \in Seq(AnyPiece) /\ <<>> \in Seq(AnyPiece) /\ <<>> \in TextOf(turn, me.account)
        /\ InConversation(me) \in ConvsOf(1) \cup ConvsOf(2)
        /\ NoConversation \in ConvsOf(1) \cup ConvsOf(2)
    BY <1>1, <1>3, <2>1, TextTypes
  <2>3. CASE r = NoResult
    BY <2>1, <2>2, <2>3 DEF AnyResult, NoResult
  <2>4. CASE r = [NoResult EXCEPT !.text = me.said, !.conversation = InConversation(me)]
    <3>1. r = [text |-> me.said, conversation |-> InConversation(me), capped |-> FALSE,
               calls |-> FALSE, spent |-> FALSE]
      BY <2>4 DEF NoResult
    <3>2. QED
      BY <1>1, <2>1, <2>2, <3>1 DEF AnyResult
  <2>5. QED
    BY <1>2, <2>3, <2>4
<1>5. QED
  BY <1>1, <1>2, <1>4, AnswerEndsOK DEF Ready

---------------------------------------------------------------------------
(* Repairing a stream.                                                     *)

LEMMA RecoveredOK ==
    ASSUME turn \in Turns, NEW m, MeOK(turn, Here, m), WireOK(turn, Here, m, wire),
           m.pc \in {"settle", "resume"}, m.account = me.account, m.saved = me.saved,
           Recovered(m)
    PROVE  After(me', wire')
<1>1. /\ Locals(turn, m) /\ Writing(Here, m) /\ ResultFits(turn, m) /\ m.saved = "no"
      /\ wire \in Open(turn, m.account) /\ ~MustCall(turn)
  BY DEF MeOK, WireOK, Answered, Over, Deciding
<1>2. CASE FailsWith(m)
  BY <1>1, <1>2, FailsOnce DEF After
<1>3. CASE ~(m.failure = "none" /\ QuotaFailureWithoutContent(m.result))
  <2> DEFINE pending == m.guard.pending
             ready == [m EXCEPT !.guard = Flushed(m.guard), !.said = <<>>, !.pc = NextPc(m)]
             e == Delivered(ready, pending)
  <2>1. IF pending = <<>> THEN me' = ready /\ UNCHANGED wire ELSE Writes(e, ready)
    BY <1>3 DEF Recovered
  <2>2. /\ pending \in TextOf(turn, m.account) /\ Flushed(m.guard) \in Guard(turn, m.account)
        /\ <<>> \in TextOf(turn, m.account) /\ NextPc(m) \in {"continue", "finish"}
    <3>1. m.guard \in Guard(turn, m.account) /\ <<>> \in TextOf(turn, m.account)
      BY <1>1, EmptySeq DEF Locals, MeOf, TextOf
    <3>2. QED
      BY <3>1 DEF Guard, Flushed, NextPc
  <2>3. /\ ready \in MeOf(turn, m.account) /\ ready.pc \in {"continue", "finish"}
        /\ ready.account = m.account /\ ready.saved = "no" /\ ready.result = m.result
        /\ ready.delivered = m.delivered /\ ready.visible = m.visible /\ ready.broke = m.broke
    BY <1>1, <2>2, ZenonT(60) DEF Locals, MeOf, Answered
  <2> HIDE DEF ready, pending
  <2>4. /\ Locals(turn, ready) /\ Writing(Here, ready) /\ MeOK(turn, Here, ready)
        /\ WireOK(turn, Here, ready, wire) /\ ready.pc \in Answered
    <3>1. Locals(turn, ready) /\ Writing(Here, ready) /\ ResultFits(turn, ready)
      BY <1>1, <2>3 DEF Locals, Writing, ResultFits
    <3>2. ready.pc \notin Over /\ ready.pc \notin Deciding /\ ready.pc \in Answered
          /\ ready.pc # "answer"
      BY <2>3 DEF Over, Deciding, Answered
    <3>3. MeOK(turn, Here, ready)
      BY <1>1, <2>3, <3>1, <3>2 DEF MeOK
    <3>4. WireOK(turn, Here, ready, wire)
      BY <1>1, <2>3, <3>2 DEF WireOK
    <3>5. QED
      BY <3>1, <3>2, <3>3, <3>4
  <2>5. CASE pending = <<>>
    <3>1. me' = ready /\ wire' = wire
      BY <2>1, <2>5
    <3>2. ready.saved = me.saved /\ ready.account = me.account /\ ready.pc # "returned"
      BY <1>1, <2>3
    <3>3. QED
      BY <2>4, <3>1, <3>2 DEF After
  <2>6. CASE pending # <<>>
    <3>1. Spoken(ready, e)
      BY <2>2, <2>3, <2>4, <2>6, DeliveredIsSpoken
    <3>2. Send(e.frames) /\ me' = IF e.to.broke /\ ~ready.broke THEN Ended(e.to) ELSE e.to
      BY <2>1, <2>6 DEF Writes
    <3> HIDE DEF e
    <3>3. /\ Locals(turn, e.to) /\ Writing(Here, e.to) /\ e.to.account = m.account
          /\ e.to.saved = "no"
      BY <2>3, <3>1 DEF Spoken, SameTurn
    <3>4. CASE e.to.broke /\ ~ready.broke
      <4>1. ~Here /\ wire' = wire /\ me' = Ended(e.to)
        BY <3>2, <3>3, <3>4 DEF Writing, Send
      <4>2. QED
        BY <1>1, <3>3, <4>1, LeavesQuietly DEF After
    <3>5. CASE ~(e.to.broke /\ ~ready.broke)
      <4>1. me' = e.to
        BY <3>2, <3>5
      <4>2. /\ MeOK(turn, Here, e.to) /\ WireOK(turn, Here, e.to, wire') /\ e.to.pc = ready.pc
        BY <2>3, <2>4, <3>1, <3>2, SpokenKeeps
      <4>3. QED
        BY <1>1, <2>3, <3>3, <4>1, <4>2 DEF After
    <3>6. QED
      BY <3>4, <3>5
  <2>7. QED
    BY <2>5, <2>6
<1>4. QED
  BY <1>2, <1>3 DEF Recovered

(* What has to hold of a handler between its answer and its ending.        *)
LEMMA Midway ==
    ASSUME turn \in Turns, ~MustCall(turn), NEW n, Locals(turn, n), Writing(Here, n),
           ResultFits(turn, n), n.pc \in {"settle", "resume", "continue", "finish", "save answer"},
           n.pc = "resume" => n.visible, n.saved = "no", NEW w \in Open(turn, n.account)
    PROVE  MeOK(turn, Here, n) /\ WireOK(turn, Here, n, w)
<1>1. n.pc \notin Over /\ n.pc \notin Deciding /\ n.pc # "answer"
  BY DEF Over, Deciding
<1>2. MeOK(turn, Here, n)
  BY <1>1 DEF MeOK
<1>3. WireOK(turn, Here, n, w)
  BY <1>1 DEF WireOK
<1>4. QED
  BY <1>2, <1>3

LEMMA MidwayFacts ==
    ASSUME turn \in Turns, NEW m, MeOK(turn, Here, m), WireOK(turn, Here, m, wire),
           m.pc \in {"settle", "resume", "continue", "finish", "save answer"}
    PROVE  /\ ~MustCall(turn) /\ Locals(turn, m) /\ Writing(Here, m) /\ ResultFits(turn, m)
           /\ m.saved = "no" /\ wire \in Open(turn, m.account) /\ m.pc \in Answered
           /\ m.pc = "resume" => m.visible /\ m.delivered # <<>>
           /\ turn \in Turn /\ m.account \in {1, 2} /\ m \in MeOf(turn, m.account)
           /\ m.delivered \in TextOf(turn, m.account) /\ m.said \in TextOf(turn, m.account)
           /\ m.guard \in Guard(turn, m.account) /\ m.tail \in Guard(turn, m.account)
           /\ m.result \in AnyResult
<1>1. turn \in Turn
  BY TurnAssumption
<1>2. m.pc \in Answered /\ m.pc \notin Over /\ m.pc \notin Deciding
  BY DEF Answered, Over, Deciding
<1>3. /\ ~MustCall(turn) /\ Locals(turn, m) /\ Writing(Here, m) /\ ResultFits(turn, m)
      /\ m.saved = "no" /\ wire \in Open(turn, m.account)
      /\ m.pc = "resume" => m.visible /\ m.delivered # <<>>
  BY <1>2 DEF MeOK, WireOK, Writing
<1>4. QED
  BY <1>1, <1>2, <1>3 DEF Locals, MeOf

LEMMA RetextedResult ==
    ASSUME NEW r \in AnyResult, NEW text \in Seq(AnyPiece), NEW capped \in BOOLEAN,
           NEW calls \in BOOLEAN
    PROVE  /\ [r EXCEPT !.text = text] \in AnyResult
           /\ [r EXCEPT !.text = text, !.capped = capped] \in AnyResult
           /\ [r EXCEPT !.text = text, !.capped = capped, !.calls = calls] \in AnyResult
           /\ [r EXCEPT !.calls = calls] \in AnyResult
BY DEF AnyResult

LEMMA SettleStreamOK ==
    ASSUME Ready, SettleStream
    PROVE  After(me', wire')
<1> DEFINE m == Excused(me)
<1>1. /\ turn \in Turns /\ me.pc = "settle" /\ MeOK(turn, Here, me) /\ WireOK(turn, Here, me, wire)
      /\ IF Resumable(m) THEN me' = Goes(m, "resume") /\ UNCHANGED wire ELSE Recovered(m)
  BY DEF SettleStream, Ready
<1>2. /\ ~MustCall(turn) /\ Locals(turn, me) /\ Writing(Here, me) /\ ResultFits(turn, me)
      /\ me.saved = "no" /\ wire \in Open(turn, me.account)
      /\ turn \in Turn /\ me.account \in {1, 2} /\ me \in MeOf(turn, me.account)
      /\ me.delivered \in TextOf(turn, me.account) /\ me.result \in AnyResult
  BY <1>1, MidwayFacts
<1>3. /\ Locals(turn, m) /\ Writing(Here, m) /\ ResultFits(turn, m)
      /\ m.pc = "settle" /\ m.account = me.account /\ m.saved = "no"
  <2>1. CASE me.failure # "none" /\ me.reached /\ me.visible
    <3> DEFINE r == [me.result EXCEPT !.text = me.delivered]
    <3>1. m = [me EXCEPT !.failure = "none", !.result = r]
      BY <1>2, <2>1 DEF Excused, MeOf
    <3>2. me.delivered \in Seq(AnyPiece)
      BY <1>2, TextTypes
    <3>3. r \in AnyResult /\ r.text = me.delivered /\ r.conversation = me.result.conversation
      BY <1>2, <3>2, RetextedResult, ZenonT(60) DEF AnyResult
    <3> HIDE DEF r, m
    <3>4. /\ m \in MeOf(turn, me.account) /\ m.pc = "settle" /\ m.account = me.account
          /\ m.saved = "no" /\ m.result = r /\ m.delivered = me.delivered
          /\ m.visible = me.visible /\ m.broke = me.broke
      BY <1>1, <1>2, <3>1, <3>3, ZenonT(60) DEF MeOf
    <3>5. QED
      BY <1>2, <3>3, <3>4 DEF Locals, Writing, ResultFits
  <2>2. CASE ~(me.failure # "none" /\ me.reached /\ me.visible)
    BY <1>1, <1>2, <2>2 DEF Excused
  <2>3. QED
    BY <2>1, <2>2
<1> HIDE DEF m
<1>4. CASE Resumable(m) /\ me' = Goes(m, "resume") /\ UNCHANGED wire
  <2>1. "resume" \in Answered
    BY DEF Answered
  <2>2. /\ Locals(turn, me') /\ me'.pc = "resume" /\ me'.account = me.account /\ me'.saved = "no"
        /\ Writing(Here, me') /\ me'.result = m.result /\ me'.visible
    BY <1>1, <1>3, <1>4, <2>1, GoesFields, ZenonT(60) DEF Resumable
  <2>3. ResultFits(turn, me')
    BY <1>3, <2>2 DEF ResultFits
  <2>4. MeOK(turn, Here, me') /\ WireOK(turn, Here, me', wire')
    BY <1>1, <1>2, <1>4, <2>2, <2>3, Midway
  <2>5. QED
    BY <1>2, <2>2, <2>4 DEF After
<1>5. CASE Recovered(m)
  <2>1. MeOK(turn, Here, m) /\ WireOK(turn, Here, m, wire)
    BY <1>1, <1>2, <1>3, Midway
  <2>2. QED
    BY <1>1, <1>2, <1>3, <1>5, <2>1, RecoveredOK
<1>6. QED
  BY <1>1, <1>4, <1>5

LEMMA SettleSyncOK ==
    ASSUME Ready, SettleSync
    PROVE  After(me', wire')
<1>1. /\ turn \in Turns /\ me.pc = "settle" /\ MeOK(turn, Here, me) /\ WireOK(turn, Here, me, wire)
      /\ me' = Goes(me, NextPc(me)) /\ wire' = wire
  BY DEF SettleSync, Ready
<1>2. /\ ~MustCall(turn) /\ Locals(turn, me) /\ Writing(Here, me) /\ ResultFits(turn, me)
      /\ me.saved = "no" /\ wire \in Open(turn, me.account)
  BY <1>1, MidwayFacts
<1>3. NextPc(me) \in {"continue", "finish"} /\ NextPc(me) \in Answered
  BY DEF NextPc, Answered
<1>4. /\ Locals(turn, me') /\ me'.pc = NextPc(me) /\ me'.account = me.account /\ me'.saved = "no"
      /\ Writing(Here, me') /\ me'.result = me.result
  BY <1>1, <1>2, <1>3, GoesFields
<1>5. ResultFits(turn, me')
  BY <1>2, <1>4 DEF ResultFits
<1>6. MeOK(turn, Here, me') /\ WireOK(turn, Here, me', wire')
  BY <1>1, <1>2, <1>3, <1>4, <1>5, Midway
<1>7. QED
  BY <1>2, <1>3, <1>4, <1>6 DEF After

LEMMA ResumeFailsOK ==
    ASSUME Ready, NEW failure, ResumeFails(failure)
    PROVE  After(me', wire')
BY RecoveredOK DEF Ready, ResumeFails

(* What upstream may say when the conversation is taken up again.          *)
LEMMA ResumptionTypes ==
    ASSUME turn \in Turns, NEW m, Locals(turn, m), m.delivered # <<>>, NEW text \in Resumptions(m)
    PROVE  text \in TextOf(turn, m.account)
<1>1. /\ m.delivered \in TextOf(turn, m.account)
      /\ \A t \in WholeTexts \cup {<<>>, <<"prose">>} : Speak(m, t) \in TextOf(turn, m.account)
  <2>1. {<<>>, <<"prose">>} \subseteq Seq(Part)
    BY DEF Part
  <2>2. QED
    BY <2>1, SpeakTypes, WholeTextTypes DEF Locals, MeOf
<1>2. <<Last(m.delivered)>> \in TextOf(turn, m.account)
  <2>1. Len(m.delivered) \in 1..Len(m.delivered)
    BY <1>1, EmptySeq, LenProperties DEF TextOf
  <2>2. Last(m.delivered) \in PieceOf(turn, m.account)
    BY <1>1, <2>1, ElementOfSeq DEF TextOf, Last
  <2>3. QED
    BY <2>2 DEF TextOf
<1>3. CASE text \in {Speak(m, t) : t \in WholeTexts}
  BY <1>1, <1>3
<1>4. CASE text \in {<<Last(m.delivered)>> \o Speak(m, t) : t \in {<<>>, <<"prose">>}}
  <2>1. PICK t \in {<<>>, <<"prose">>} : text = <<Last(m.delivered)>> \o Speak(m, t)
    BY <1>4
  <2>2. Speak(m, t) \in TextOf(turn, m.account)
    BY <1>1
  <2>3. QED
    BY <1>2, <2>1, <2>2, Concats DEF TextOf
<1>5. QED
  BY <1>3, <1>4 DEF Resumptions

LEMMA SilentIsSpoken ==
    ASSUME turn \in Turns, NEW m, Locals(turn, m), Writing(Here, m)
    PROVE  Spoken(m, [to |-> m, frames |-> <<>>])
BY DEF Spoken, SameTurn

LEMMA SpokenOpens ==
    ASSUME NEW m, NEW e, Spoken(m, e), ~MustCall(turn), wire \in Open(turn, m.account),
           Send(e.frames)
    PROVE  wire' \in Open(turn, m.account)
<1>1. TextFrame(turn, m.account) \subseteq OpenFrame(turn, m.account)
  BY DEF OpenFrame
<1>2. e.frames \in Open(turn, m.account)
  BY <1>1, SeqMonotonic DEF Open, Spoken
<1>3. QED
  BY <1>2, Concats DEF Send, Open

LEMMA ResumeOK ==
    ASSUME Ready, NEW text \in Resumptions(me), Resume(text)
    PROVE  After(me', wire')
<1> DEFINE new == TrimContinuationOverlap(me.delivered, text)
           e == IF new = <<>> THEN [to |-> me, frames |-> <<>>] ELSE EmitDelta(me, new)
           fresh == Cardinality({i \in DOMAIN text : text[i].n > me.told})
           told == [me EXCEPT !.told = me.told + fresh]
           done == [e.to EXCEPT !.failure = "none", !.told = @ + fresh,
                                !.result.text = e.to.delivered, !.result.capped = FALSE]
           left == [done EXCEPT !.said = <<>>, !.pc = NextPc(done)]
<1>1. /\ turn \in Turns /\ me.pc = "resume" /\ MeOK(turn, Here, me) /\ WireOK(turn, Here, me, wire)
      /\ IF text = <<>> \/ IsPlaceholder(text) THEN Recovered(told)
         ELSE IF done.broke THEN me' = Ended(done) /\ UNCHANGED wire
         ELSE Send(e.frames) /\ me' = left
  BY DEF Resume, Ready
<1>2. /\ ~MustCall(turn) /\ Locals(turn, me) /\ Writing(Here, me) /\ ResultFits(turn, me)
      /\ me.saved = "no" /\ wire \in Open(turn, me.account) /\ me.delivered # <<>>
      /\ turn \in Turn /\ me.account \in {1, 2} /\ me \in MeOf(turn, me.account)
      /\ me.pc \in Answered
  BY <1>1, MidwayFacts
<1>3. text \in TextOf(turn, me.account)
  BY <1>1, <1>2, ResumptionTypes
<1>4. fresh \in Nat
  BY <1>3, CountIsNatural DEF TextOf
<1>5. Spoken(me, e)
  <2>1. new \in TextOf(turn, me.account)
    BY <1>3, TrimmedIsText DEF TextOf
  <2> HIDE DEF new
  <2>2. CASE new = <<>>
    BY <1>1, <1>2, <2>2, SilentIsSpoken
  <2>3. CASE new # <<>>
    BY <1>1, <1>2, <2>1, <2>3, EmitIsSpoken
  <2>4. QED
    BY <2>2, <2>3
<1> HIDE DEF e, fresh, new
<1>6. CASE Recovered(told)
  <2>1. Alike(me, told)
    <3>1. told \in MeOf(turn, me.account) /\ me.told + fresh \in Nat
      BY <1>2, <1>4 DEF MeOf
    <3>2. QED
      BY <1>2, <3>1 DEF Alike, Locals, MeOf
  <2> HIDE DEF told
  <2>2. MeOK(turn, Here, told) /\ WireOK(turn, Here, told, wire)
    BY <1>1, <1>2, <2>1, AlikeKeeps
  <2>3. told.pc = "resume" /\ told.account = me.account /\ told.saved = me.saved
    BY <1>1, <2>1 DEF Alike
  <2>4. QED
    BY <1>1, <1>6, <2>2, <2>3, RecoveredOK
<1>7. /\ Locals(turn, e.to) /\ Writing(Here, e.to) /\ e.to.account = me.account
      /\ e.to.saved = "no" /\ e.to.result = me.result /\ e.to \in MeOf(turn, me.account)
  BY <1>2, <1>5 DEF Spoken, SameTurn, Locals
<1> DEFINE r == [e.to.result EXCEPT !.text = e.to.delivered, !.capped = FALSE]
<1>8. r \in AnyResult /\ r.text \in TextOf(turn, me.account) /\ r.conversation \in ConvsOf(me.account)
  <2>1. /\ e.to.delivered \in TextOf(turn, me.account) /\ e.to.result \in AnyResult
    BY <1>7 DEF MeOf
  <2>2. e.to.delivered \in Seq(AnyPiece)
    BY <1>2, <2>1, TextTypes, SMTT(30)
  <2>3. r \in AnyResult
    BY <2>1, <2>2, RetextedResult
  <2>4. r.text = e.to.delivered /\ r.conversation = me.result.conversation
    BY <1>7, <2>1 DEF AnyResult
  <2>5. QED
    BY <1>2, <2>1, <2>3, <2>4 DEF ResultFits
<1>9. done = [e.to EXCEPT !.failure = "none", !.told = e.to.told + fresh, !.result = r]
  BY <1>7 DEF MeOf
<1> HIDE DEF r, done
<1>10. /\ done \in MeOf(turn, me.account) /\ done.account = me.account /\ done.saved = "no"
       /\ done.result = r /\ done.broke = e.to.broke /\ done.visible = e.to.visible
       /\ done.delivered = e.to.delivered
  <2>1. e.to.told + fresh \in Nat
    BY <1>4, <1>7 DEF MeOf
  <2>2. QED
    BY <1>7, <1>8, <1>9, <2>1, ZenonT(60) DEF MeOf
<1>11. CASE done.broke /\ me' = Ended(done) /\ UNCHANGED wire
  <2>1. Locals(turn, done) /\ ~Here
    BY <1>2, <1>7, <1>10, <1>11 DEF Locals, Writing
  <2>2. QED
    BY <1>1, <1>2, <1>10, <1>11, <2>1, LeavesQuietly DEF After
<1>12. CASE Send(e.frames) /\ me' = left
  <2>1. NextPc(done) \in {"continue", "finish"} /\ <<>> \in TextOf(turn, me.account)
        /\ NextPc(done) \in Answered
    BY <1>2, TextTypes DEF NextPc, Answered
  <2>2. /\ left \in MeOf(turn, me.account) /\ left.account = me.account /\ left.saved = "no"
        /\ left.result = r /\ left.broke = e.to.broke /\ left.visible = e.to.visible
        /\ left.delivered = e.to.delivered /\ left.pc = NextPc(done)
    BY <1>10, <2>1 DEF MeOf
  <2> HIDE DEF left
  <2>3. wire' \in Open(turn, me.account)
    BY <1>2, <1>5, <1>12, SpokenOpens
  <2>4. Locals(turn, left) /\ Writing(Here, left) /\ ResultFits(turn, left)
    BY <1>2, <1>7, <1>8, <2>2 DEF Locals, Writing, ResultFits
  <2>5. MeOK(turn, Here, left) /\ WireOK(turn, Here, left, wire')
    BY <1>1, <1>2, <2>1, <2>2, <2>3, <2>4, Midway
  <2>6. QED
    BY <1>2, <1>12, <2>1, <2>2, <2>5 DEF After
<1>13. QED
  BY <1>1, <1>6, <1>11, <1>12

---------------------------------------------------------------------------
(* Continuing an answer.                                                   *)

LEMMA ContinuationDeltaOK ==
    ASSUME Ready, NEW part \in Part, ContinuationDelta(part)
    PROVE  After(me', wire')
<1> DEFINE text == Speak(me, <<part>>)
           fed == Feed(me.tail, text)
           said == Says(me, text)
           m == [said EXCEPT !.tail = fed.guard]
           e == IF fed.held THEN [to |-> m, frames |-> <<>>] ELSE EmitDelta(m, fed.out)
<1>1. /\ turn \in Turns /\ me.pc = "continue" /\ MeOK(turn, Here, me) /\ WireOK(turn, Here, me, wire)
      /\ me' = e.to /\ Send(e.frames)
  BY DEF ContinuationDelta, Ready
<1>2. /\ ~MustCall(turn) /\ Locals(turn, me) /\ Writing(Here, me) /\ ResultFits(turn, me)
      /\ me.saved = "no" /\ wire \in Open(turn, me.account) /\ me.pc \in Answered
      /\ me.tail \in Guard(turn, me.account)
  BY <1>1, MidwayFacts
<1>3. text \in TextOf(turn, me.account) /\ text # <<>>
  <2>1. <<part>> \in Seq(Part) /\ <<part>> # <<>>
    OBVIOUS
  <2>2. QED
    BY <1>1, <1>2, <2>1, SpeakTypes
<1> HIDE DEF text
<1>4. /\ fed.guard \in Guard(turn, me.account) /\ fed.out \in TextOf(turn, me.account)
      /\ ~fed.held => fed.out # <<>>
  BY <1>2, <1>3, FeedTypes
<1> HIDE DEF fed
<1>5. /\ Locals(turn, said) /\ Writing(Here, said) /\ said.pc = me.pc /\ said.saved = me.saved
      /\ said.account = me.account /\ MeOK(turn, Here, said) /\ ResultFits(turn, said)
  <2>1. /\ Locals(turn, said) /\ Writing(Here, said) /\ said.pc = me.pc /\ said.saved = me.saved
        /\ said.account = me.account /\ MeOK(turn, Here, said)
    BY <1>1, <1>2, <1>3, SaysFields
  <2> HIDE DEF said
  <2>2. QED
    BY <1>2, <2>1 DEF MeOK
<1> HIDE DEF said
<1>6. /\ Locals(turn, m) /\ Writing(Here, m) /\ m.pc = "continue" /\ m.saved = "no"
      /\ m.account = me.account /\ ResultFits(turn, m)
  <2>1. /\ m \in MeOf(turn, me.account) /\ m.pc = said.pc /\ m.saved = said.saved
        /\ m.account = said.account /\ m.result = said.result /\ m.visible = said.visible
        /\ m.broke = said.broke /\ m.delivered = said.delivered
    BY <1>4, <1>5 DEF Locals, MeOf
  <2> HIDE DEF m
  <2>2. QED
    BY <1>1, <1>2, <1>5, <2>1 DEF Locals, Writing, ResultFits
<1> HIDE DEF m
<1>7. Spoken(m, e)
  <2>1. CASE fed.held
    BY <1>1, <1>6, <2>1, SilentIsSpoken
  <2>2. CASE ~fed.held
    BY <1>1, <1>4, <1>6, <2>2, EmitIsSpoken
  <2>3. QED
    BY <2>1, <2>2
<1> HIDE DEF e
<1>8. MeOK(turn, Here, m) /\ WireOK(turn, Here, m, wire)
  BY <1>1, <1>2, <1>6, Midway
<1>9. /\ MeOK(turn, Here, e.to) /\ WireOK(turn, Here, e.to, wire')
      /\ e.to.account = m.account /\ e.to.saved = m.saved /\ e.to.pc = m.pc
  BY <1>1, <1>6, <1>7, <1>8, SpokenKeeps DEF Answered
<1>10. QED
  BY <1>1, <1>2, <1>6, <1>9 DEF After

LEMMA CutShortFields ==
    ASSUME turn \in Turns, NEW m, Locals(turn, m), Writing(Here, m), ResultFits(turn, m)
    PROVE  LET n == CutShort(m)
           IN /\ Locals(turn, n) /\ Writing(Here, n) /\ ResultFits(turn, n)
              /\ n.pc = "finish" /\ n.account = m.account /\ n.saved = m.saved
<1> DEFINE n == CutShort(m)
<1>1. /\ n \in MeOf(turn, m.account) /\ n.pc = "finish" /\ n.account = m.account
      /\ n.saved = m.saved /\ n.result = m.result /\ n.visible = m.visible /\ n.broke = m.broke
      /\ n.delivered = m.delivered
  BY DEF CutShort, Locals, MeOf, Answered
<1> HIDE DEF n
<1>2. QED
  BY <1>1 DEF Locals, Writing, ResultFits, n

LEMMA ExtendedFields ==
    ASSUME turn \in Turns, NEW m, Locals(turn, m), Writing(Here, m), ResultFits(turn, m),
           NEW text \in TextOf(turn, m.account), NEW capped \in BOOLEAN, NEW calls \in BOOLEAN
    PROVE  LET n == Extended(m, text, capped, calls)
           IN /\ Locals(turn, n) /\ Writing(Here, n) /\ ResultFits(turn, n)
              /\ n.pc = m.pc /\ n.account = m.account /\ n.saved = m.saved /\ n.broke = m.broke
<1> DEFINE r == [m.result EXCEPT !.text = m.result.text \o text, !.capped = capped,
                                 !.calls = m.result.calls \/ calls]
           n == [m EXCEPT !.result = r, !.segment = m.segment + 1, !.said = <<>>,
                          !.tail = EmptyGuard]
<1>1. /\ m \in MeOf(turn, m.account) /\ m.result \in AnyResult /\ turn \in Turn
      /\ m.account \in {1, 2} /\ m.segment \in Nat
  BY TurnAssumption DEF Locals, MeOf
<1>2. m.result.text \o text \in TextOf(turn, m.account)
  BY Concats DEF ResultFits, TextOf
<1>3. r \in AnyResult /\ r.text = m.result.text \o text /\ r.conversation = m.result.conversation
  <2>1. m.result.text \o text \in Seq(AnyPiece)
    BY <1>1, <1>2, TextTypes
  <2>2. r \in AnyResult
    BY <1>1, <2>1, RetextedResult, ZenonT(60) DEF AnyResult
  <2>3. QED
    BY <1>1, <2>2 DEF AnyResult
<1>4. n = Extended(m, text, capped, calls)
  BY <1>1, ZenonT(60) DEF Extended, MeOf, AnyResult
<1>5. <<>> \in TextOf(turn, m.account) /\ EmptyGuard \in Guard(turn, m.account)
  BY <1>1, TextTypes
<1> HIDE DEF r
<1>6. /\ n \in MeOf(turn, m.account) /\ n.pc = m.pc /\ n.account = m.account
      /\ n.saved = m.saved /\ n.result = r /\ n.visible = m.visible /\ n.broke = m.broke
      /\ n.delivered = m.delivered
  <2> DEFINE s == m.segment + 1
  <2>1. s \in Nat
    BY <1>1
  <2> HIDE DEF s
  <2>2. n = [m EXCEPT !.result = r, !.segment = s, !.said = <<>>, !.tail = EmptyGuard]
    BY DEF s
  <2> HIDE DEF n
  <2>3. QED
    BY <1>1, <1>3, <1>5, <2>1, <2>2, ZenonT(60) DEF MeOf
<1> HIDE DEF n
<1>7. Locals(turn, n) /\ Writing(Here, n) /\ ResultFits(turn, n)
  BY <1>1, <1>2, <1>3, <1>6 DEF Locals, Writing, ResultFits
<1>8. QED
  BY <1>4, <1>6, <1>7

LEMMA ContinuationFailsOK ==
    ASSUME Ready, NEW failure, ContinuationFails(failure)
    PROVE  After(me', wire')
<1>1. /\ turn \in Turns /\ me.pc = "continue" /\ MeOK(turn, Here, me) /\ WireOK(turn, Here, me, wire)
      /\ me' = CutShort(me) /\ wire' = wire
  BY DEF ContinuationFails, Ready
<1>2. /\ ~MustCall(turn) /\ Locals(turn, me) /\ Writing(Here, me) /\ ResultFits(turn, me)
      /\ me.saved = "no" /\ wire \in Open(turn, me.account)
  BY <1>1, MidwayFacts
<1>3. /\ Locals(turn, me') /\ Writing(Here, me') /\ ResultFits(turn, me')
      /\ me'.pc = "finish" /\ me'.account = me.account /\ me'.saved = me.saved
  BY <1>1, <1>2, CutShortFields
<1>4. MeOK(turn, Here, me') /\ WireOK(turn, Here, me', wire')
  BY <1>1, <1>2, <1>3, Midway
<1>5. QED
  BY <1>2, <1>3, <1>4 DEF After

(* How a segment leaves the turn: cut short, asking for another, or finished. *)
LEMMA SegmentLeaves ==
    ASSUME turn \in Turns, ~MustCall(turn), NEW m, Locals(turn, m), Writing(Here, m),
           ResultFits(turn, m), m.pc = "continue", m.saved = "no", me.saved = "no",
           m.account = me.account, wire' \in Open(turn, me.account),
           me' \in {CutShort(m), m, Goes(m, "finish")}
    PROVE  After(me', wire')
<1>1. /\ Locals(turn, me') /\ Writing(Here, me') /\ ResultFits(turn, me')
      /\ me'.pc \in {"continue", "finish"} /\ me'.account = me.account /\ me'.saved = "no"
  <2>1. CASE me' = CutShort(m)
    BY <2>1, CutShortFields
  <2>2. CASE me' = m
    BY <2>2
  <2>3. CASE me' = Goes(m, "finish")
    <3>1. "finish" \in Answered
      BY DEF Answered
    <3>2. /\ Locals(turn, me') /\ Writing(Here, me') /\ me'.pc = "finish"
          /\ me'.account = m.account /\ me'.saved = m.saved /\ me'.result = m.result
      BY <2>3, <3>1, GoesFields
    <3>3. QED
      BY <3>2 DEF ResultFits
  <2>4. QED
    BY <2>1, <2>2, <2>3
<1>2. MeOK(turn, Here, me') /\ WireOK(turn, Here, me', wire')
  BY <1>1, Midway
<1>3. QED
  BY <1>1, <1>2 DEF After

LEMMA ContinuationEndsOK ==
    ASSUME Ready, NEW whole \in WholeTexts, NEW capped \in BOOLEAN, NEW calls \in BOOLEAN,
           ContinuationEnds(whole, capped, calls)
    PROVE  After(me', wire')
<1> DEFINE text == IF me.said = <<>> THEN Speak(me, whole) ELSE me.said
           known == Gap(Told(me, text), text, TRUE)
           pending == me.tail.pending
           e == IF pending = <<>> THEN [to |-> known, frames |-> <<>>] ELSE EmitDelta(known, pending)
           m == Extended(e.to, text, capped, calls)
           last == m.segment = MaxContinuations
<1>1. /\ turn \in Turns /\ me.pc = "continue" /\ MeOK(turn, Here, me) /\ WireOK(turn, Here, me, wire)
      /\ IF text = <<>> THEN me' = CutShort(me) /\ UNCHANGED wire
         ELSE IF IsPlaceholder(text) THEN me' = CutShort(known) /\ UNCHANGED wire
         ELSE IF m.broke THEN me' = Ended(m) /\ UNCHANGED wire
         ELSE /\ Send(e.frames)
              /\ me' = IF capped /\ last THEN CutShort(m)
                       ELSE IF capped /\ ~m.reached THEN m ELSE Goes(m, "finish")
  BY DEF ContinuationEnds, Ready
<1>2. /\ ~MustCall(turn) /\ Locals(turn, me) /\ Writing(Here, me) /\ ResultFits(turn, me)
      /\ me.saved = "no" /\ wire \in Open(turn, me.account) /\ me.pc \in Answered
      /\ me.tail \in Guard(turn, me.account) /\ me.said \in TextOf(turn, me.account)
  BY <1>1, MidwayFacts, ZenonT(60)
<1>3. text \in TextOf(turn, me.account) /\ pending \in TextOf(turn, me.account)
  BY <1>1, <1>2, SpeakTypes, WholeTextTypes DEF Guard
<1> HIDE DEF text, pending
<1>4. /\ Locals(turn, known) /\ Writing(Here, known) /\ ResultFits(turn, known)
      /\ known.pc = "continue" /\ known.account = me.account /\ known.saved = "no"
  <2>1. Alike(me, known)
    BY <1>1, <1>2, <1>3, TalliesAreAlike
  <2> HIDE DEF known
  <2>2. QED
    BY <1>1, <1>2, <2>1 DEF Alike, Writing, ResultFits
<1> HIDE DEF known
<1>5. Spoken(known, e)
  <2>1. CASE pending = <<>>
    BY <1>1, <1>4, <2>1, SilentIsSpoken
  <2>2. CASE pending # <<>>
    BY <1>1, <1>3, <1>4, <2>2, EmitIsSpoken
  <2>3. QED
    BY <2>1, <2>2
<1> HIDE DEF e
<1>6. /\ Locals(turn, e.to) /\ Writing(Here, e.to) /\ ResultFits(turn, e.to)
      /\ e.to.pc = "continue" /\ e.to.account = me.account /\ e.to.saved = "no"
  BY <1>4, <1>5 DEF Spoken, SameTurn, ResultFits
<1>7. /\ Locals(turn, m) /\ Writing(Here, m) /\ ResultFits(turn, m)
      /\ m.pc = "continue" /\ m.account = me.account /\ m.saved = "no"
  BY <1>1, <1>3, <1>6, ExtendedFields
<1> HIDE DEF m, last
<1>8. CASE me' = CutShort(me) /\ wire' = wire
  BY <1>1, <1>2, <1>8, SegmentLeaves
<1>9. CASE me' = CutShort(known) /\ wire' = wire
  BY <1>1, <1>2, <1>4, <1>9, SegmentLeaves
<1>10. CASE m.broke /\ me' = Ended(m) /\ wire' = wire
  <2>1. ~Here
    BY <1>7, <1>10 DEF Writing
  <2>2. QED
    BY <1>1, <1>2, <1>7, <1>10, <2>1, LeavesQuietly DEF After
<1>11. CASE Send(e.frames) /\ me' \in {CutShort(m), m, Goes(m, "finish")}
  <2>1. wire' \in Open(turn, me.account)
    BY <1>2, <1>4, <1>5, <1>11, SpokenOpens
  <2>2. QED
    BY <1>1, <1>2, <1>7, <1>11, <2>1, SegmentLeaves
<1>12. QED
  BY <1>1, <1>8, <1>9, <1>10, <1>11, SMTT(30)

LEMMA SegmentEndsOK ==
    ASSUME Ready, NEW parts \in WholeTexts, NEW capped \in BOOLEAN, NEW calls \in BOOLEAN,
           SegmentEnds(parts, capped, calls)
    PROVE  After(me', wire')
<1> DEFINE text == Speak(me, parts)
           said == Says(me, text)
           m == Extended(said, text, capped, calls)
<1>1. /\ turn \in Turns /\ me.pc = "continue" /\ MeOK(turn, Here, me) /\ WireOK(turn, Here, me, wire)
      /\ wire' = wire
      /\ me' \in {CutShort(me), CutShort(m), m, Goes(m, "finish")}
  BY DEF SegmentEnds, Ready
<1>2. /\ ~MustCall(turn) /\ Locals(turn, me) /\ Writing(Here, me) /\ ResultFits(turn, me)
      /\ me.saved = "no" /\ wire \in Open(turn, me.account) /\ me.pc \in Answered
  BY <1>1, MidwayFacts
<1>3. text \in TextOf(turn, me.account)
  BY <1>1, <1>2, SpeakTypes, WholeTextTypes
<1> HIDE DEF text
<1>4. /\ Locals(turn, said) /\ Writing(Here, said) /\ said.pc = me.pc /\ said.saved = me.saved
      /\ said.account = me.account /\ MeOK(turn, Here, said)
  BY <1>1, <1>2, <1>3, SaysFields
<1> HIDE DEF said
<1>5. ResultFits(turn, said)
  BY <1>2, <1>4 DEF MeOK
<1>6. /\ Locals(turn, m) /\ Writing(Here, m) /\ ResultFits(turn, m)
      /\ m.pc = "continue" /\ m.account = me.account /\ m.saved = "no"
  BY <1>1, <1>2, <1>3, <1>4, <1>5, ExtendedFields
<1> HIDE DEF m
<1>7. CASE me' = CutShort(me)
  BY <1>1, <1>2, <1>7, SegmentLeaves
<1>8. CASE me' \in {CutShort(m), m, Goes(m, "finish")}
  BY <1>1, <1>2, <1>6, <1>8, SegmentLeaves
<1>9. QED
  BY <1>1, <1>7, <1>8

---------------------------------------------------------------------------
(* Finishing an answer.                                                    *)

LEMMA LimitedIsText ==
    ASSUME turn \in Turns, NEW a \in {1, 2}, NEW text \in TextOf(turn, a)
    PROVE  Limited(text) \in TextOf(turn, a)
<1>1. OutputLimit \in Nat /\ Len(text) \in Nat
  BY TurnAssumption, LenProperties DEF TextOf
<1>2. CASE turn.limited /\ Len(text) > OutputLimit
  BY <1>1, <1>2, Starts DEF Limited, TextOf
<1>3. CASE ~(turn.limited /\ Len(text) > OutputLimit)
  BY <1>3 DEF Limited
<1>4. QED
  BY <1>2, <1>3

LEMMA BackfillIsSpoken ==
    ASSUME turn \in Turns, NEW m, Locals(turn, m), Writing(Here, m), ResultFits(turn, m)
    PROVE  Spoken(m, BackfillTerminalStreamText(m))
<1> DEFINE text == Limited(m.result.text)
           n == [m EXCEPT !.delivered = text]
<1>1. text \in TextOf(turn, m.account)
  BY LimitedIsText DEF ResultFits, Locals
<1>2. CASE m.delivered # <<>> \/ text = <<>>
  <2>1. BackfillTerminalStreamText(m) = [to |-> m, frames |-> <<>>]
    BY <1>2 DEF BackfillTerminalStreamText
  <2>2. QED
    BY <2>1, SilentIsSpoken
<1>3. CASE m.delivered = <<>> /\ text # <<>> /\ Guarded
  <2>1. BackfillTerminalStreamText(m) = [to |-> n, frames |-> <<>>]
    BY <1>3 DEF BackfillTerminalStreamText
  <2> HIDE DEF text
  <2>2. /\ n \in MeOf(turn, m.account) /\ n.delivered = text /\ n.visible = m.visible
        /\ n.broke = m.broke /\ SameTurn(m, n)
    BY <1>1 DEF Locals, MeOf, SameTurn
  <2> HIDE DEF n
  <2>3. Locals(turn, n) /\ Writing(Here, n)
    BY <1>3, <2>2 DEF Locals, Writing, SameTurn
  <2>4. QED
    BY <1>3, <2>1, <2>2, <2>3 DEF Spoken, Guarded
<1>4. CASE m.delivered = <<>> /\ text # <<>> /\ ~Guarded
  <2>1. BackfillTerminalStreamText(m) = EmitDelta(m, text)
    BY <1>4 DEF BackfillTerminalStreamText
  <2>2. QED
    BY <1>1, <1>4, <2>1, EmitIsSpoken
<1>5. QED
  BY <1>2, <1>3, <1>4

\* A step that prepares the ending keeps the account, the session and the conversation.
Prepared(m, n) ==
    /\ Locals(turn, n) /\ ResultFits(turn, n)
    /\ n.pc = m.pc /\ n.account = m.account /\ n.saved = m.saved

LEMMA CheckedIsPrepared ==
    ASSUME turn \in Turns, NEW m, Locals(turn, m), ResultFits(turn, m)
    PROVE  Prepared(m, Checked(m))
<1>1. /\ turn \in Turn /\ m.account \in {1, 2} /\ m \in MeOf(turn, m.account)
      /\ m.result \in AnyResult
  BY TurnAssumption DEF Locals, MeOf
<1>2. CASE Guarded /\ ~m.result.calls /\ ~EvidenceAllows(Limited(m.result.text))
  <2> DEFINE r == [m.result EXCEPT !.text = Unverified]
             n == [m EXCEPT !.delivered = Unverified, !.result = r]
  <2>1. Unverified \in TextOf(turn, m.account) /\ Unverified \in Seq(AnyPiece)
    BY <1>1, <1>2, TextTypes DEF Guarded
  <2>2. r \in AnyResult /\ r.text = Unverified /\ r.conversation = m.result.conversation
    BY <1>1, <2>1, RetextedResult, ZenonT(60) DEF AnyResult
  <2>3. Checked(m) = n
    BY <1>1, <1>2 DEF Checked, MeOf
  <2> HIDE DEF r
  <2>4. /\ n \in MeOf(turn, m.account) /\ n.pc = m.pc /\ n.account = m.account
        /\ n.saved = m.saved /\ n.result = r
    BY <1>1, <2>1, <2>2, ZenonT(60) DEF MeOf
  <2> HIDE DEF n
  <2>5. QED
    BY <1>1, <2>1, <2>2, <2>3, <2>4 DEF Prepared, Locals, ResultFits
<1>3. CASE ~(Guarded /\ ~m.result.calls /\ ~EvidenceAllows(Limited(m.result.text)))
  BY <1>3 DEF Checked, Prepared
<1>4. QED
  BY <1>2, <1>3

LEMMA FittedIsPrepared ==
    ASSUME turn \in Turns, NEW m, Locals(turn, m), ResultFits(turn, m), NEW fits
    PROVE  Prepared(m, Fitted(m, fits))
<1> DEFINE r == [m.result EXCEPT !.calls = FALSE]
           n == [m EXCEPT !.result = r, !.reached = TRUE]
<1>1. m.account \in {1, 2} /\ m \in MeOf(turn, m.account) /\ m.result \in AnyResult
  BY DEF Locals, MeOf
<1>2. r \in AnyResult /\ r.text = m.result.text /\ r.conversation = m.result.conversation
  BY <1>1, RetextedResult, ZenonT(60) DEF AnyResult
<1>3. Fitted(m, fits) \in {m, n}
  BY <1>1 DEF Fitted, MeOf
<1> HIDE DEF r
<1>4. /\ n \in MeOf(turn, m.account) /\ n.pc = m.pc /\ n.account = m.account
      /\ n.saved = m.saved /\ n.result = r
  BY <1>1, <1>2 DEF MeOf
<1> HIDE DEF n
<1>5. Prepared(m, n)
  BY <1>1, <1>2, <1>4 DEF Prepared, Locals, ResultFits
<1>6. Prepared(m, m)
  BY DEF Prepared
<1>7. QED
  BY <1>3, <1>5, <1>6

(* The session is saved next; what the handler keeps of the answer fits.   *)
LEMMA SaveNext ==
    ASSUME turn \in Turns, ~MustCall(turn), NEW m, Locals(turn, m), ResultFits(turn, m),
           m.saved = "no", me.saved = "no", m.account = me.account,
           wire' \in Open(turn, me.account),
           NEW text \in TextOf(turn, m.account), NEW reached \in BOOLEAN,
           me' = [Done(m, "save answer") EXCEPT !.result.text = text, !.reached = reached]
    PROVE  After(me', wire')
<1> DEFINE d == Done(m, "save answer")
           r == [d.result EXCEPT !.text = text]
<1>1. /\ Locals(turn, d) /\ d.account = m.account /\ d.saved = m.saved /\ d.pc = "save answer"
      /\ ~d.visible /\ ~d.broke /\ d.result = m.result /\ Writing(Here, d)
  BY DoneTypes DEF Answered
<1>2. /\ turn \in Turn /\ m.account \in {1, 2} /\ m.result \in AnyResult
  BY TurnAssumption DEF Locals, MeOf
<1> HIDE DEF d
<1>3. r \in AnyResult /\ r.text = text /\ r.conversation = m.result.conversation
  <2>1. text \in Seq(AnyPiece)
    BY <1>2, TextTypes
  <2>2. QED
    BY <1>1, <1>2, <2>1, RetextedResult, ZenonT(60) DEF AnyResult
<1>4. me' = [d EXCEPT !.result = r, !.reached = reached]
  BY <1>1 DEF d, Locals, MeOf
<1> HIDE DEF r
<1>5. /\ me' \in MeOf(turn, m.account) /\ me'.account = m.account /\ me'.saved = "no"
      /\ me'.pc = "save answer" /\ ~me'.visible /\ ~me'.broke /\ me'.result = r
  <2>1. d \in MeOf(turn, m.account) /\ d.account = m.account /\ d.pc = "save answer"
        /\ d.saved = "no" /\ ~d.visible /\ ~d.broke
    BY <1>1 DEF Locals
  <2>2. me' \in MeOf(turn, m.account)
    BY <1>3, <1>4, <2>1, ZenonT(60) DEF MeOf
  <2>3. QED
    BY <1>4, <2>1, <2>2, ZenonT(60) DEF MeOf
<1>6. Locals(turn, me') /\ Writing(Here, me') /\ ResultFits(turn, me')
  BY <1>2, <1>3, <1>5 DEF Locals, Writing, ResultFits
<1>7. MeOK(turn, Here, me') /\ WireOK(turn, Here, me', wire')
  BY <1>5, <1>6, Midway
<1>8. QED
  BY <1>5, <1>7 DEF After

LEMMA FinishStreamOK ==
    ASSUME Ready, NEW fits, FinishStream(fits)
    PROVE  After(me', wire')
<1> DEFINE e == BackfillTerminalStreamText(me)
           c == Checked(e.to)
           m == Fitted(c, fits)
           held == IF Guarded /\ m.delivered # <<>> THEN <<Text(m.delivered)>> ELSE <<>>
           called == IF m.result.calls THEN <<Frame("call")>> ELSE <<>>
           frames == (e.frames \o held) \o called
<1>1. /\ turn \in Turns /\ me.pc = "finish" /\ MeOK(turn, Here, me) /\ WireOK(turn, Here, me, wire)
      /\ IF (frames # <<>> /\ ~Here) \/ (e.to.broke /\ ~me.broke)
         THEN me' = Ended(m) /\ UNCHANGED wire
         ELSE Send(frames) /\ me' = [Done(m, "save answer") EXCEPT !.result.text = <<>>]
  BY DEF FinishStream, Ready
<1>2. /\ ~MustCall(turn) /\ Locals(turn, me) /\ Writing(Here, me) /\ ResultFits(turn, me)
      /\ me.saved = "no" /\ wire \in Open(turn, me.account)
  BY <1>1, MidwayFacts
<1>3. Spoken(me, e)
  BY <1>1, <1>2, BackfillIsSpoken
<1> HIDE DEF e
<1>4. /\ Locals(turn, e.to) /\ Writing(Here, e.to) /\ ResultFits(turn, e.to)
      /\ e.to.account = me.account /\ e.to.saved = "no"
  BY <1>2, <1>3 DEF Spoken, SameTurn, ResultFits
<1>5. Locals(turn, c) /\ ResultFits(turn, c) /\ c.account = me.account /\ c.saved = "no"
  BY <1>1, <1>4, CheckedIsPrepared DEF Prepared
<1> HIDE DEF c
<1>6. Locals(turn, m) /\ ResultFits(turn, m) /\ m.account = me.account /\ m.saved = "no"
  BY <1>1, <1>5, FittedIsPrepared DEF Prepared
<1> HIDE DEF m
<1>7. frames \in Open(turn, me.account)
  <2> DEFINE S == OpenFrame(turn, me.account)
  <2>1. e.frames \in Seq(S)
    <3>1. TextFrame(turn, me.account) \subseteq S
      BY <1>2 DEF OpenFrame
    <3>2. QED
      BY <1>3, <3>1, SeqMonotonic DEF Spoken
  <2>2. held \in Seq(S)
    <3>1. m.delivered \in TextOf(turn, me.account)
      BY <1>6 DEF Locals, MeOf
    <3>2. Text(m.delivered) \in S
      BY <1>2, <3>1 DEF OpenFrame, TextFrame, Text
    <3> HIDE DEF S
    <3>3. QED
      BY <3>2
  <2>3. called \in Seq(S)
    <3>1. Frame("call") \in S
      BY DEF OpenFrame
    <3> HIDE DEF S
    <3>2. QED
      BY <3>1
  <2> HIDE DEF S, held, called
  <2>4. e.frames \o held \in Seq(S)
    BY <2>1, <2>2, Concats
  <2>5. QED
    BY <2>3, <2>4, Concats DEF Open, S
<1> HIDE DEF frames, held, called
<1>8. CASE /\ (frames # <<>> /\ ~Here) \/ (e.to.broke /\ ~me.broke)
           /\ me' = Ended(m) /\ UNCHANGED wire
  <2>1. ~Here
    BY <1>4, <1>8 DEF Writing
  <2>2. QED
    BY <1>1, <1>2, <1>6, <1>8, <2>1, LeavesQuietly DEF After
<1>9. CASE Send(frames) /\ me' = [Done(m, "save answer") EXCEPT !.result.text = <<>>]
  <2>1. wire' \in Open(turn, me.account)
    BY <1>2, <1>7, <1>9, Concats DEF Send, Open
  <2>2. <<>> \in TextOf(turn, m.account) /\ m.reached \in BOOLEAN
    BY <1>6, EmptySeq DEF TextOf, Locals, MeOf
  <2>3. me' = [Done(m, "save answer") EXCEPT !.result.text = <<>>, !.reached = m.reached]
    <3> DEFINE d == Done(m, "save answer")
    <3>1. d.reached = m.reached /\ d \in MeOf(turn, m.account)
      <4>1. Locals(turn, d) /\ d.account = m.account
        BY <1>1, <1>6, DoneTypes, ZenonT(60) DEF Answered
      <4>2. d.reached = m.reached
        BY <1>6 DEF Done, Locals, MeOf
      <4>3. QED
        BY <4>1, <4>2 DEF Locals
    <3> HIDE DEF d
    <3>2. [d EXCEPT !.result.text = <<>>] = [d EXCEPT !.result.text = <<>>, !.reached = m.reached]
      BY <3>1 DEF MeOf
    <3>3. QED
      BY <1>9, <3>2 DEF d
  <2>4. QED
    BY <1>1, <1>2, <1>6, <2>1, <2>2, <2>3, SaveNext
<1>10. QED
  BY <1>1, <1>8, <1>9

LEMMA FailStreamOK ==
    ASSUME Ready, FailStream
    PROVE  After(me', wire')
<1>1. /\ turn \in Turns /\ me.pc = "finish" /\ MeOK(turn, Here, me) /\ WireOK(turn, Here, me, wire)
      /\ IF me.broke \/ ~Here THEN me' = Ended(me) /\ UNCHANGED wire ELSE FailsWith(me)
  BY DEF FailStream, Ready
<1>2. Locals(turn, me) /\ Writing(Here, me) /\ me.saved = "no" /\ wire \in Open(turn, me.account)
  BY <1>1, MidwayFacts
<1>3. CASE me.broke \/ ~Here
  BY <1>1, <1>2, <1>3, LeavesQuietly DEF Writing, After
<1>4. CASE ~(me.broke \/ ~Here)
  BY <1>1, <1>2, <1>4, FailsOnce DEF After
<1>5. QED
  BY <1>3, <1>4

LEMMA FinishSyncOK ==
    ASSUME Ready, FinishSync
    PROVE  After(me', wire')
<1>1. /\ turn \in Turns /\ me.pc = "finish" /\ MeOK(turn, Here, me) /\ WireOK(turn, Here, me, wire)
  BY DEF FinishSync, Ready
<1>2. /\ ~MustCall(turn) /\ Locals(turn, me) /\ Writing(Here, me) /\ ResultFits(turn, me)
      /\ me.saved = "no" /\ wire \in Open(turn, me.account) /\ me.account \in {1, 2}
  BY <1>1, MidwayFacts
<1> DEFINE text == Limited(me.result.text)
           d == Done(me, "save answer")
<1>3. \/ FailsWith(me)
      \/ /\ me' = [d EXCEPT !.result.text = Limited(@), !.reached = text # me.result.text]
         /\ UNCHANGED wire
  BY DEF FinishSync
<1>4. CASE FailsWith(me)
  BY <1>1, <1>2, <1>4, FailsOnce DEF After
<1>5. CASE /\ me' = [d EXCEPT !.result.text = Limited(@), !.reached = text # me.result.text]
           /\ UNCHANGED wire
  <2>1. text \in TextOf(turn, me.account)
    BY <1>1, <1>2, LimitedIsText DEF ResultFits
  <2>2. me' = [d EXCEPT !.result.text = text, !.reached = text # me.result.text]
    <3>1. d.result = me.result
      BY <1>1, <1>2, DoneTypes DEF Answered
    <3> HIDE DEF d
    <3>2. QED
      BY <1>5, <3>1
  <2> DEFINE reached == text # me.result.text
  <2>3. reached \in BOOLEAN
    OBVIOUS
  <2>4. me' = [d EXCEPT !.result.text = text, !.reached = reached]
    BY <2>2
  <2> HIDE DEF text, reached, d
  <2>5. me' = [Done(me, "save answer") EXCEPT !.result.text = text, !.reached = reached]
    BY <2>4 DEF d
  <2>6. wire' \in Open(turn, me.account)
    BY <1>2, <1>5
  <2>7. QED
    BY <1>1, <1>2, <2>1, <2>3, <2>5, <2>6, SaveNext
<1>6. QED
  BY <1>3, <1>4, <1>5

---------------------------------------------------------------------------
(* Saving the session and ending the turn.                                 *)

\* After, for the steps that write the binding as well.
Handled(n, w, b) ==
    MeOK(turn, Here, n) /\ WireOK(turn, Here, n, w) /\ BindOK(n, b) /\ n.pc # "returned"

LEMMA AfterIsHandled ==
    ASSUME BindOK(me, binding), After(me', wire'), binding' = binding
    PROVE  Handled(me', wire', binding')
BY DEF After, Handled, BindOK

LEMMA PersistedFits ==
    ASSUME BindOK(me, binding), me.account \in {1, 2},
           NEW conv \in ConvsOf(me.account), NEW clear,
           binding' \in {Persisted(me, conv, clear),
                         [Persisted(me, conv, clear) EXCEPT !.conversation = NoConversation]}
    PROVE  /\ binding' \in [account : 0..3,
                            conversation : ConvsOf(1) \cup ConvsOf(2) \cup ConvsOf(3)]
           /\ binding'.account = me.account /\ binding'.conversation \in ConvsOf(me.account)
<1> DEFINE c == IF ~clear /\ conv = NoConversation /\ binding.account = me.account
                THEN binding.conversation ELSE conv
           new == Persisted(me, conv, clear)
<1>1. c \in ConvsOf(me.account) /\ NoConversation \in ConvsOf(me.account)
  BY DEF BindOK, ConvsOf
<1>2. new = [account |-> me.account, conversation |-> c]
  BY DEF Persisted
<1> HIDE DEF c, new
<1>3. binding' = [account |-> me.account, conversation |-> c]
      \/ binding' = [account |-> me.account, conversation |-> NoConversation]
  BY <1>2 DEF new
<1>4. ConvsOf(me.account) \subseteq ConvsOf(1) \cup ConvsOf(2) \cup ConvsOf(3)
  OBVIOUS
<1>5. QED
  BY <1>1, <1>3, <1>4

\* Where a turn goes on when its session was saved, and what it holds there.
SavedAt(pc) ==
    \/ pc = "send calls" /\ Untouched(me) /\ wire = <<>>
    \/ pc = "conclude" /\ ResultFits(turn, me) /\ ~MustCall(turn)

LEMMA Persists ==
    ASSUME turn \in Turns, Locals(turn, me), Writing(Here, me), me.saved = "no",
           BindOK(me, binding), wire \in Open(turn, me.account), NEW pc, SavedAt(pc),
           NEW conv \in ConvsOf(me.account), NEW clear,
           PersistSession(me, conv, clear, pc)
    PROVE  Handled(me', wire', binding')
<1>1. me.account \in {1, 2}
  BY DEF Locals
<1>2. ASSUME NEW saved \in {"yes", "stale"},
             me' = [me EXCEPT !.pc = pc, !.saved = saved], wire' = wire
      PROVE  /\ MeOK(turn, Here, me') /\ WireOK(turn, Here, me', wire')
             /\ me'.account = me.account /\ me'.saved = saved /\ me'.pc # "returned"
  <2>1. /\ me' \in MeOf(turn, me.account) /\ me'.pc = pc /\ me'.account = me.account
        /\ me'.saved = saved /\ me'.result = me.result /\ me'.visible = me.visible
        /\ me'.broke = me.broke /\ me'.delivered = me.delivered /\ me'.said = me.said
        /\ me'.guard = me.guard /\ me'.tail = me.tail
    BY <1>2, ZenonT(60) DEF SavedAt, Locals, MeOf, Deciding, Answered
  <2>2. Locals(turn, me') /\ Writing(Here, me')
    BY <1>1, <2>1 DEF Locals, Writing
  <2>3. CASE pc = "send calls" /\ Untouched(me) /\ wire = <<>>
    <3>1. MeOK(turn, Here, me')
      BY <1>2, <2>1, <2>2, <2>3 DEF MeOK, Untouched, Deciding, Answered
    <3>2. WireOK(turn, Here, me', wire')
      BY <1>2, <2>1, <2>3 DEF WireOK, Over
    <3>3. QED
      BY <2>1, <2>3, <3>1, <3>2
  <2>4. CASE pc = "conclude" /\ ResultFits(turn, me) /\ ~MustCall(turn)
    <3>1. MeOK(turn, Here, me')
      BY <1>2, <2>1, <2>2, <2>4 DEF MeOK, ResultFits, Deciding
    <3>2. WireOK(turn, Here, me', wire')
      BY <1>2, <2>1, <2>4 DEF WireOK, Over, Deciding
    <3>3. QED
      BY <2>1, <2>4, <3>1, <3>2
  <2>5. QED
    BY <2>3, <2>4 DEF SavedAt
<1> DEFINE new == Persisted(me, conv, clear)
<1>3. CASE /\ binding' \in {new, [new EXCEPT !.conversation = NoConversation]}
           /\ me' = [me EXCEPT !.pc = pc, !.saved = "yes"]
           /\ UNCHANGED wire
  <2>1. /\ binding' \in [account : 0..3, conversation : ConvsOf(1) \cup ConvsOf(2) \cup ConvsOf(3)]
        /\ binding'.account = me.account /\ binding'.conversation \in ConvsOf(me.account)
    BY <1>1, <1>3, PersistedFits
  <2>2. /\ MeOK(turn, Here, me') /\ WireOK(turn, Here, me', wire')
        /\ me'.account = me.account /\ me'.saved = "yes" /\ me'.pc # "returned"
    BY <1>2, <1>3
  <2>3. QED
    BY <2>1, <2>2 DEF Handled, BindOK
<1>4. CASE me' = [me EXCEPT !.pc = pc, !.saved = "stale"] /\ UNCHANGED <<binding, wire>>
  <2>1. /\ MeOK(turn, Here, me') /\ WireOK(turn, Here, me', wire')
        /\ me'.account = me.account /\ me'.saved = "stale" /\ me'.pc # "returned"
    BY <1>2, <1>4
  <2>2. QED
    BY <1>4, <2>1 DEF Handled, BindOK
<1>5. CASE FailsWith(me) /\ UNCHANGED binding
  <2>1. /\ MeOK(turn, Here, me') /\ WireOK(turn, Here, me', wire')
        /\ me'.pc = "ended" /\ me'.account = me.account /\ me'.saved = me.saved
    BY <1>5, FailsOnce
  <2>2. QED
    BY <1>5, <2>1 DEF Handled, BindOK
<1>6. QED
  BY <1>3, <1>4, <1>5 DEF PersistSession

LEMMA SaveCallsOK ==
    ASSUME Ready, BindOK(me, binding), SaveCalls
    PROVE  Handled(me', wire', binding')
<1>1. /\ Locals(turn, me) /\ Writing(Here, me) /\ me.saved = "no" /\ Untouched(me) /\ wire = <<>>
      /\ wire \in Open(turn, me.account)
  BY DEF Ready, MeOK, WireOK, SaveCalls, Deciding, Over
<1>2. PersistSession(me, NoConversation, me.switched, "send calls")
  BY DEF SaveCalls
<1>3. NoConversation \in ConvsOf(me.account)
  BY DEF ConvsOf
<1>4. SavedAt("send calls")
  BY <1>1 DEF SavedAt
<1>5. QED
  BY <1>1, <1>2, <1>3, <1>4, Persists DEF Ready

LEMMA SaveAnswerOK ==
    ASSUME Ready, BindOK(me, binding), SaveAnswer
    PROVE  Handled(me', wire', binding')
<1>1. me.pc = "save answer" /\ PersistSession(me, me.result.conversation, me.reached, "conclude")
  BY DEF SaveAnswer
<1>2. /\ ~MustCall(turn) /\ Locals(turn, me) /\ Writing(Here, me) /\ ResultFits(turn, me)
      /\ me.saved = "no" /\ wire \in Open(turn, me.account)
  BY <1>1, MidwayFacts DEF Ready
<1>3. me.result.conversation \in ConvsOf(me.account)
  BY <1>2 DEF ResultFits
<1>4. SavedAt("conclude")
  BY <1>2 DEF SavedAt
<1>5. QED
  BY <1>1, <1>2, <1>3, <1>4, Persists DEF Ready

LEMMA TwoFrames ==
    \A f, g, h : <<f, g>> = <<f>> \o <<g>> /\ Append(<<f, g>>, h) = <<f>> \o <<g, h>>
<1> TAKE f, g, h
<1> DEFINE S == {f, g, h}
<1>1. /\ <<f>> \in Seq(S) /\ <<g>> \in Seq(S) /\ <<f, g>> \in Seq(S) /\ <<g, h>> \in Seq(S)
      /\ Len(<<f>>) = 1 /\ Len(<<g>>) = 1 /\ Len(<<f, g>>) = 2 /\ Len(<<g, h>>) = 2
      /\ <<f>>[1] = f /\ <<g>>[1] = g /\ <<f, g>>[1] = f /\ <<f, g>>[2] = g
      /\ <<g, h>>[1] = g /\ <<g, h>>[2] = h
  OBVIOUS
<1>2. <<f, g>> = <<f>> \o <<g>>
  <2> DEFINE x == <<f, g>>
             y == <<f>> \o <<g>>
  <2>1. x \in Seq(S) /\ y \in Seq(S) /\ Len(x) = Len(y) /\ \A i \in 1..Len(x) : x[i] = y[i]
    BY <1>1, ConcatProperties
  <2> HIDE DEF x, y, S
  <2>2. x = y
    BY <2>1, SeqEqual
  <2>3. QED
    BY <2>2 DEF x, y
<1>3. Append(<<f, g>>, h) = <<f>> \o <<g, h>>
  <2> DEFINE x == Append(<<f, g>>, h)
             y == <<f>> \o <<g, h>>
  <2>1. x \in Seq(S) /\ y \in Seq(S) /\ Len(x) = 3 /\ Len(y) = 3
    BY <1>1, ConcatProperties, AppendProperties
  <2>2. x[1] = f /\ x[2] = g /\ x[3] = h
    BY <1>1, AppendProperties
  <2>3. y[1] = f /\ y[2] = g /\ y[3] = h
    BY <1>1, ConcatProperties
  <2> HIDE DEF x, y, S
  <2>4. \A i \in 1..Len(x) : x[i] = y[i]
    BY <2>1, <2>2, <2>3
  <2>5. x = y
    BY <2>1, <2>4, SeqEqual
  <2>6. QED
    BY <2>5 DEF x, y
<1>4. QED
  BY <1>2, <1>3

(* What stands before the ending and the ending are sent together.         *)
LEMMA EndsAfter ==
    ASSUME turn \in Turns, NEW m, Locals(turn, m), wire \in Open(turn, m.account),
           NEW u \in Open(turn, m.account), NEW kind \in EndingKinds,
           kind # "error" => m.saved # "no", MustCall(turn) => kind # "stop",
           Send(u \o Close(turn, kind)), me' = Ended(m)
    PROVE  /\ MeOK(turn, Here, me') /\ WireOK(turn, Here, me', wire')
           /\ me'.pc = "ended" /\ me'.account = m.account /\ me'.saved = m.saved
<1> DEFINE S == OpenFrame(turn, m.account) \cup {Frame(kind), Frame("done")}
<1>1. wire \in Seq(S) /\ u \in Seq(S) /\ Close(turn, kind) \in Seq(S)
  <2>1. wire \in Seq(S) /\ u \in Seq(S)
    <3>1. OpenFrame(turn, m.account) \subseteq S
      OBVIOUS
    <3> HIDE DEF S
    <3>2. QED
      BY <3>1, SeqMonotonic DEF Open
  <2>2. Frame(kind) \in S /\ Frame("done") \in S
    OBVIOUS
  <2> HIDE DEF S
  <2>3. QED
    BY <2>1, <2>2 DEF Close
<1> HIDE DEF S
<1>2. wire \o (u \o Close(turn, kind)) = (wire \o u) \o Close(turn, kind)
  BY <1>1, ConcatAssociative, SMTT(30)
<1>3. wire \o u \in Open(turn, m.account)
  BY Concats DEF Open
<1>4. wire' = IF Here THEN (wire \o u) \o Close(turn, kind) ELSE wire
  BY <1>2 DEF Send
<1>5. QED
  BY <1>3, <1>4, ClosesWith

(* Tool calls are announced and closed, or given up for their length.      *)
LEMMA CallFramesClose ==
    ASSUME turn \in Turns, NEW a, NEW fits
    PROVE  \E u \in Open(turn, a), kind \in {"tool_calls", "length"} :
              /\ Ending(CallFrames(fits)) = u \o Close(turn, kind)
              /\ u = <<>> \/ u = <<Frame("call")>>
<1> DEFINE called == Frame("call")
           ending == Frame("tool_calls")
           over == Frame("done")
           long == Frame("length")
<1>1. <<called>> \in Open(turn, a) /\ <<>> \in Open(turn, a)
  <2>1. called \in OpenFrame(turn, a)
    BY DEF OpenFrame
  <2>2. QED
    BY <2>1 DEF Open
<1>2. CASE fits
  <2>1. /\ CallFrames(fits) = <<called, ending>>
        /\ Close(turn, "tool_calls") = IF turn.stream THEN <<ending, over>> ELSE <<ending>>
        /\ Ending(CallFrames(fits)) = IF turn.stream THEN Append(CallFrames(fits), over)
                                      ELSE CallFrames(fits)
    BY <1>2 DEF CallFrames, Close, Ending
  <2> HIDE DEF called, ending, over
  <2>2. Ending(CallFrames(fits)) = <<called>> \o Close(turn, "tool_calls")
    <3>a. /\ Append(<<called, ending>>, over) = <<called>> \o <<ending, over>>
          /\ <<called, ending>> = <<called>> \o <<ending>>
      BY TwoFrames
    <3>1. CASE turn.stream
      BY <2>1, <3>a, <3>1
    <3>2. CASE ~turn.stream
      BY <2>1, <3>a, <3>2
    <3>3. QED
      BY <3>1, <3>2
  <2>3. <<called>> = <<Frame("call")>>
    BY DEF called
  <2>4. QED
    BY <1>1, <2>2, <2>3
<1>3. CASE ~fits
  <2>1. Ending(CallFrames(fits)) = Close(turn, "length")
    BY <1>3, EndingIsClose DEF CallFrames
  <2>2. Close(turn, "length") = <<>> \o Close(turn, "length")
    <3>1. Close(turn, "length") \in Seq({long, over})
      <4> HIDE DEF long, over
      <4>1. <<long>> \in Seq({long, over}) /\ <<long, over>> \in Seq({long, over})
        OBVIOUS
      <4>2. QED
        BY <4>1 DEF Close, long, over
    <3>2. QED
      BY <3>1, ConcatEmptySeq
  <2>3. QED
    BY <1>1, <2>1, <2>2
<1>4. QED
  BY <1>2, <1>3

LEMMA SendCallsOK ==
    ASSUME Ready, BindOK(me, binding), SendCalls
    PROVE  Handled(me', wire', binding')
<1>1. /\ Locals(turn, me) /\ wire \in Open(turn, me.account) /\ me.saved # "no"
  BY DEF Ready, MeOK, WireOK, SendCalls, Over
<1>2. PICK fits : Send(Ending(CallFrames(fits)))
  BY DEF SendCalls
<1>3. PICK u \in Open(turn, me.account), kind \in {"tool_calls", "length"} :
         Ending(CallFrames(fits)) = u \o Close(turn, kind)
  BY CallFramesClose DEF Ready
<1>4. Send(u \o Close(turn, kind)) /\ me' = Ended(me) /\ binding' = binding
  BY <1>2, <1>3 DEF SendCalls
<1>5. kind \in EndingKinds /\ kind # "stop"
  BY DEF EndingKinds
<1>6. /\ MeOK(turn, Here, me') /\ WireOK(turn, Here, me', wire')
      /\ me'.pc = "ended" /\ me'.account = me.account /\ me'.saved = me.saved
  BY <1>1, <1>4, <1>5, EndsAfter DEF Ready
<1>7. QED
  BY <1>4, <1>6 DEF Handled, BindOK

LEMMA SavedAnswer ==
    ASSUME Ready, me.pc = "conclude"
    PROVE  /\ turn \in Turns /\ Locals(turn, me) /\ wire \in Open(turn, me.account)
           /\ ResultFits(turn, me) /\ me.saved # "no" /\ ~MustCall(turn)
BY DEF Ready, MeOK, WireOK, Deciding, Answered, Over

LEMMA ConcludeStreamOK ==
    ASSUME Ready, BindOK(me, binding), ConcludeStream
    PROVE  Handled(me', wire', binding')
<1> DEFINE kind == IF me.result.calls THEN "tool_calls" ELSE Reason
<1>1. /\ turn \in Turns /\ Locals(turn, me) /\ wire \in Open(turn, me.account)
      /\ me.saved # "no" /\ ~MustCall(turn)
  BY SavedAnswer DEF ConcludeStream
<1>2. Send(Ending(<<Frame(kind)>>)) /\ me' = Ended(me) /\ binding' = binding
  BY DEF ConcludeStream
<1>3. kind \in EndingKinds
  BY DEF Reason, EndingKinds
<1> HIDE DEF kind
<1>4. wire \o <<>> = wire
  BY <1>1, ConcatEmptySeq DEF Open
<1>5. wire' = IF Here THEN (wire \o <<>>) \o Close(turn, kind) ELSE wire
  BY <1>1, <1>2, <1>4, EndingIsClose DEF Send
<1>6. /\ MeOK(turn, Here, me') /\ WireOK(turn, Here, me', wire')
      /\ me'.pc = "ended" /\ me'.account = me.account /\ me'.saved = me.saved
  BY <1>1, <1>2, <1>3, <1>4, <1>5, ClosesWith
<1>7. QED
  BY <1>2, <1>6 DEF Handled, BindOK

LEMMA ConcludeSyncOK ==
    ASSUME Ready, BindOK(me, binding), NEW fits, ConcludeSync(fits)
    PROVE  Handled(me', wire', binding')
<1>1. /\ turn \in Turns /\ Locals(turn, me) /\ wire \in Open(turn, me.account)
      /\ ResultFits(turn, me) /\ me.saved # "no" /\ ~MustCall(turn) /\ ~turn.stream
      /\ me' = Ended(me) /\ binding' = binding
  BY SavedAnswer DEF ConcludeSync
<1> DEFINE m == IF turn.tools THEN Checked(me) ELSE me
           text == m.result.text
           frames == IF me.result.calls THEN CallFrames(fits) ELSE <<Text(text), Frame(Reason)>>
<1>2. Send(frames)
  BY DEF ConcludeSync
<1>3. ResultFits(turn, m) /\ m.account = me.account
  BY <1>1, CheckedIsPrepared DEF Prepared
<1>4. text \in TextOf(turn, me.account)
  BY <1>3 DEF ResultFits
<1> HIDE DEF m, text
<1>5. \E u \in Open(turn, me.account), kind \in EndingKinds : frames = u \o Close(turn, kind)
  <2>1. CASE me.result.calls
    <3>1. frames = Ending(CallFrames(fits))
      BY <1>1, <2>1 DEF Ending
    <3>2. {"tool_calls", "length"} \subseteq EndingKinds
      BY DEF EndingKinds
    <3>3. PICK u \in Open(turn, me.account), kind \in {"tool_calls", "length"} :
             Ending(CallFrames(fits)) = u \o Close(turn, kind)
      BY <1>1, CallFramesClose, ZenonT(60)
    <3>4. QED
      BY <3>1, <3>2, <3>3, ZenonT(60)
  <2>2. CASE ~me.result.calls
    <3> DEFINE f == Text(text)
               g == Frame(Reason)
    <3>1. frames = <<f>> \o <<g>>
      BY <2>2, TwoFrames
    <3>2. Reason \in EndingKinds
      BY DEF Reason, EndingKinds
    <3>3. Close(turn, Reason) = <<g>>
      BY <1>1 DEF Close
    <3>4. f \in OpenFrame(turn, me.account)
      BY <1>1, <1>4 DEF OpenFrame, TextFrame, Text
    <3> HIDE DEF f, g
    <3>5. <<f>> \in Open(turn, me.account)
      BY <3>4 DEF Open
    <3>6. QED
      BY <3>1, <3>2, <3>3, <3>5
  <2>3. QED
    BY <2>1, <2>2
<1> HIDE DEF frames
<1>6. PICK u \in Open(turn, me.account), kind \in EndingKinds : frames = u \o Close(turn, kind)
  BY <1>5
<1>7. Send(u \o Close(turn, kind))
  BY <1>2, <1>6
<1>8. /\ MeOK(turn, Here, me') /\ WireOK(turn, Here, me', wire')
      /\ me'.pc = "ended" /\ me'.account = me.account /\ me'.saved = me.saved
  BY <1>1, <1>6, <1>7, EndsAfter
<1>9. QED
  BY <1>1, <1>8 DEF Handled, BindOK

---------------------------------------------------------------------------
(* The invariant, step by step.                                            *)

\* What the goroutines and the client are left with by a step of the handler itself.
Alone ==
    /\ turn' = turn /\ client' = client /\ stray' = stray
    /\ heart' \in {heart, [heart EXCEPT !.ticker = "off"]}

LEMMA HandlerKeeps ==
    ASSUME IInv, Alone, Handled(me', wire', binding')
    PROVE  IInv'
<1>1. Here' = Here /\ turn' = turn
  BY DEF Alone, Here
<1>2. /\ turn' \in Turns /\ client' \in {"there", "gone"}
      /\ MeOK(turn', Here', me') /\ WireOK(turn', Here', me', wire') /\ BindOK(me', binding')
  BY <1>1 DEF IInv, Alone, Handled
<1>3. HeartOK'
  <2>1. /\ heart \in [ticker : {"on", "off"}, middleware : {"on", "done"}]
        /\ heart.ticker = "on" => turn.stream
        /\ stray = FALSE /\ me'.pc # "returned"
    BY DEF IInv, HeartOK, Handled
  <2>2. /\ heart' \in [ticker : {"on", "off"}, middleware : {"on", "done"}]
        /\ heart'.ticker = "on" => heart.ticker = "on"
        /\ stray' = FALSE /\ turn' = turn
    BY <2>1 DEF Alone
  <2>3. QED
    BY <2>1, <2>2 DEF HeartOK
<1>4. QED
  BY <1>2, <1>3 DEF IInv

LEMMA AfterKeeps ==
    ASSUME IInv, After(me', wire'), UNCHANGED <<turn, client, binding, heart, stray>>
    PROVE  IInv'
<1>1. Handled(me', wire', binding')
  BY AfterIsHandled DEF IInv
<1>2. QED
  BY <1>1, HandlerKeeps DEF Alone

\* The steps of the handler that neither save the session nor end a saved turn.
Talks ==
    \/ \E d \in {"invalid", "nothing", "calls"} : RouterDecides(d)
    \/ \E f \in {"network", "quota", "refused", "ended"} :
          RouterFails(f) \/ AnswerFails(f) \/ ResumeFails(f) \/ ContinuationFails(f)
    \/ \E part \in Part : AnswerDelta(part) \/ ContinuationDelta(part)
    \/ AnswerSucceeds \/ SettleStream \/ SettleSync
    \/ me.pc = "resume" /\ \E text \in Resumptions(me) : Resume(text)
    \/ \E capped, calls \in BOOLEAN :
          \E parts \in WholeTexts :
             ContinuationEnds(parts, capped, calls) \/ SegmentEnds(parts, capped, calls)
    \/ \E fits \in BOOLEAN : FinishStream(fits)
    \/ FailStream \/ FinishSync

LEMMA TalksKeeps ==
    ASSUME IInv, Talks
    PROVE  IInv'
<1>1. Ready
  BY DEF IInv, Ready
<1>2. ASSUME NEW d \in {"invalid", "nothing", "calls"}, RouterDecides(d)
      PROVE  IInv'
  <2>1. UNCHANGED <<turn, client, binding, heart, stray>>
    BY <1>2 DEF RouterDecides
  <2>2. QED
    BY <1>1, <1>2, <2>1, RouterDecidesOK, AfterKeeps
<1>3. ASSUME NEW f \in {"network", "quota", "refused", "ended"}, RouterFails(f)
      PROVE  IInv'
  <2>1. UNCHANGED <<turn, client, binding, heart, stray>>
    BY <1>3 DEF RouterFails
  <2>2. QED
    BY <1>1, <1>3, <2>1, RouterFailsOK, AfterKeeps
<1>4. ASSUME NEW f \in {"network", "quota", "refused", "ended"}, AnswerFails(f)
      PROVE  IInv'
  <2>1. UNCHANGED <<turn, client, binding, heart, stray>>
    BY <1>4 DEF AnswerFails, AnswerEnds
  <2>2. QED
    BY <1>1, <1>4, <2>1, AnswerFailsOK, AfterKeeps
<1>5. ASSUME NEW f \in {"network", "quota", "refused", "ended"}, ResumeFails(f)
      PROVE  IInv'
  <2>1. UNCHANGED <<turn, client, binding, heart, stray>>
    BY <1>5 DEF ResumeFails
  <2>2. QED
    BY <1>1, <1>5, <2>1, ResumeFailsOK, AfterKeeps
<1>6. ASSUME NEW f \in {"network", "quota", "refused", "ended"}, ContinuationFails(f)
      PROVE  IInv'
  <2>1. UNCHANGED <<turn, client, binding, heart, stray>>
    BY <1>6 DEF ContinuationFails
  <2>2. QED
    BY <1>1, <1>6, <2>1, ContinuationFailsOK, AfterKeeps
<1>7. ASSUME NEW part \in Part, AnswerDelta(part)
      PROVE  IInv'
  <2>1. UNCHANGED <<turn, client, binding, heart, stray>>
    BY <1>7 DEF AnswerDelta
  <2>2. QED
    BY <1>1, <1>7, <2>1, AnswerDeltaOK, AfterKeeps
<1>8. ASSUME NEW part \in Part, ContinuationDelta(part)
      PROVE  IInv'
  <2>1. UNCHANGED <<turn, client, binding, heart, stray>>
    BY <1>8 DEF ContinuationDelta
  <2>2. QED
    BY <1>1, <1>8, <2>1, ContinuationDeltaOK, AfterKeeps
<1>9. ASSUME AnswerSucceeds
      PROVE  IInv'
  <2>1. UNCHANGED <<turn, client, binding, heart, stray>>
    BY <1>9 DEF AnswerSucceeds, AnswerEnds
  <2>2. QED
    BY <1>1, <1>9, <2>1, AnswerSucceedsOK, AfterKeeps
<1>10. ASSUME SettleStream
       PROVE  IInv'
  <2>1. UNCHANGED <<turn, client, binding, heart, stray>>
    BY <1>10 DEF SettleStream
  <2>2. QED
    BY <1>1, <1>10, <2>1, SettleStreamOK, AfterKeeps
<1>11. ASSUME SettleSync
       PROVE  IInv'
  <2>1. UNCHANGED <<turn, client, binding, heart, stray>>
    BY <1>11 DEF SettleSync
  <2>2. QED
    BY <1>1, <1>11, <2>1, SettleSyncOK, AfterKeeps
<1>12. ASSUME NEW text \in Resumptions(me), Resume(text)
       PROVE  IInv'
  <2>1. UNCHANGED <<turn, client, binding, heart, stray>>
    BY <1>12 DEF Resume
  <2>2. QED
    BY <1>1, <1>12, <2>1, ResumeOK, AfterKeeps
<1>13. ASSUME NEW capped \in BOOLEAN, NEW calls \in BOOLEAN, NEW parts \in WholeTexts,
              ContinuationEnds(parts, capped, calls)
       PROVE  IInv'
  <2>1. UNCHANGED <<turn, client, binding, heart, stray>>
    BY <1>13 DEF ContinuationEnds
  <2>2. QED
    BY <1>1, <1>13, <2>1, ContinuationEndsOK, AfterKeeps
<1>14. ASSUME NEW capped \in BOOLEAN, NEW calls \in BOOLEAN, NEW parts \in WholeTexts,
              SegmentEnds(parts, capped, calls)
       PROVE  IInv'
  <2>1. UNCHANGED <<turn, client, binding, heart, stray>>
    BY <1>14 DEF SegmentEnds
  <2>2. QED
    BY <1>1, <1>14, <2>1, SegmentEndsOK, AfterKeeps
<1>15. ASSUME NEW fits \in BOOLEAN, FinishStream(fits)
       PROVE  IInv'
  <2>1. UNCHANGED <<turn, client, binding, heart, stray>>
    BY <1>15 DEF FinishStream
  <2>2. QED
    BY <1>1, <1>15, <2>1, FinishStreamOK, AfterKeeps
<1>16. ASSUME FailStream
       PROVE  IInv'
  <2>1. UNCHANGED <<turn, client, binding, heart, stray>>
    BY <1>16 DEF FailStream
  <2>2. QED
    BY <1>1, <1>16, <2>1, FailStreamOK, AfterKeeps
<1>17. ASSUME FinishSync
       PROVE  IInv'
  <2>1. UNCHANGED <<turn, client, binding, heart, stray>>
    BY <1>17 DEF FinishSync
  <2>2. QED
    BY <1>1, <1>17, <2>1, FinishSyncOK, AfterKeeps
<1>18. QED
  BY <1>2, <1>3, <1>4, <1>5, <1>6, <1>7, <1>8, <1>9, <1>10, <1>11, <1>12, <1>13, <1>14, <1>15,
     <1>16, <1>17 DEF Talks

\* The steps that save the session or end a saved turn.
Concludes ==
    \/ SaveCalls \/ SendCalls \/ SaveAnswer \/ ConcludeStream
    \/ \E fits \in BOOLEAN : ConcludeSync(fits)

LEMMA ConcludesKeeps ==
    ASSUME IInv, Concludes
    PROVE  IInv'
<1>1. Ready /\ BindOK(me, binding)
  BY DEF IInv, Ready
<1>2. ASSUME SaveCalls
      PROVE  IInv'
  <2>1. Alone
    BY <1>2 DEF SaveCalls, Alone
  <2>2. QED
    BY <1>1, <1>2, <2>1, SaveCallsOK, HandlerKeeps
<1>3. ASSUME SendCalls
      PROVE  IInv'
  <2>1. Alone
    BY <1>3 DEF SendCalls, Alone
  <2>2. QED
    BY <1>1, <1>3, <2>1, SendCallsOK, HandlerKeeps
<1>4. ASSUME SaveAnswer
      PROVE  IInv'
  <2>1. Alone
    BY <1>4 DEF SaveAnswer, Alone
  <2>2. QED
    BY <1>1, <1>4, <2>1, SaveAnswerOK, HandlerKeeps
<1>5. ASSUME ConcludeStream
      PROVE  IInv'
  <2>1. Alone
    BY <1>5 DEF ConcludeStream, Alone
  <2>2. QED
    BY <1>1, <1>5, <2>1, ConcludeStreamOK, HandlerKeeps
<1>6. ASSUME NEW fits \in BOOLEAN, ConcludeSync(fits)
      PROVE  IInv'
  <2>1. Alone
    BY <1>6 DEF ConcludeSync, Alone
  <2>2. QED
    BY <1>1, <1>6, <2>1, ConcludeSyncOK, HandlerKeeps
<1>7. QED
  BY <1>2, <1>3, <1>4, <1>5, <1>6 DEF Concludes

---------------------------------------------------------------------------
(* The client, the lease and the keep-alive goroutines.                    *)

LEMMA LoseClientKeeps ==
    ASSUME IInv, LoseClient
    PROVE  IInv'
<1>1. Here /\ ~Here' /\ client' \in {"there", "gone"} /\ UNCHANGED <<turn, me, binding, wire, heart, stray>>
  BY DEF LoseClient, Here
<1>2. MeOK(turn, FALSE, me)
  BY DEF IInv, MeOK, Writing
<1>3. WireOK(turn, FALSE, me, wire)
  BY <1>1 DEF IInv, WireOK
<1>4. Here' = FALSE
  BY <1>1 DEF Here
<1>5. MeOK(turn', Here', me') /\ WireOK(turn', Here', me', wire') /\ BindOK(me', binding')
  BY <1>1, <1>2, <1>3, <1>4 DEF IInv
<1>6. HeartOK'
  BY <1>1 DEF IInv, HeartOK
<1>7. QED
  BY <1>1, <1>5, <1>6 DEF IInv

LEMMA LoseLeaseKeeps ==
    ASSUME IInv, LoseLease
    PROVE  IInv'
<1> DEFINE cut == [me EXCEPT !.cut = TRUE]
           n == [cut EXCEPT !.lost = TRUE]
<1>1. /\ UNCHANGED <<turn, client, binding, wire, heart, stray>>
      /\ me' = [me EXCEPT !.cut = TRUE, !.lost = TRUE] /\ me.pc # "returned"
  BY DEF LoseLease
<1>2. turn \in Turns /\ MeOK(turn, Here, me) /\ WireOK(turn, Here, me, wire) /\ Locals(turn, me)
  BY DEF IInv, MeOK
<1>3. me' = n
  BY <1>1, <1>2 DEF Locals, MeOf
<1>4. /\ Locals(turn, cut) /\ MeOK(turn, Here, cut) /\ cut.pc = me.pc /\ cut.account = me.account
      /\ cut.saved = me.saved /\ cut.visible = me.visible
  <2>1. cut.visible = me.visible
    BY <1>2 DEF Locals, MeOf
  <2>2. QED
    BY <1>2, <2>1, CutFields
<1> HIDE DEF cut
<1>5. /\ n \in MeOf(turn, cut.account) /\ n.pc = cut.pc /\ n.account = cut.account
      /\ n.saved = cut.saved /\ n.result = cut.result /\ n.tail = cut.tail /\ n.said = cut.said
      /\ n.guard = cut.guard /\ n.delivered = cut.delivered /\ n.visible = cut.visible
      /\ n.broke = cut.broke
  BY <1>4 DEF Locals, MeOf
<1> HIDE DEF n
<1>6. Locals(turn, n)
  BY <1>4, <1>5 DEF Locals
<1>7. MeOK(turn, Here, n)
  BY <1>4, <1>5, <1>6 DEF MeOK, Writing, Untouched, ResultFits
<1>8. WireOK(turn, Here, n, wire)
  BY <1>2, <1>4, <1>5 DEF WireOK, Closed
<1>9. BindOK(n, binding)
  BY <1>4, <1>5 DEF IInv, BindOK
<1>10. Handled(me', wire', binding')
  BY <1>1, <1>3, <1>4, <1>5, <1>7, <1>8, <1>9 DEF Handled
<1>11. QED
  BY <1>1, <1>10, HandlerKeeps DEF Alone

(* A comment is written only while the handler has a stream.               *)
LEMMA CommentKeeps ==
    ASSUME IInv, TickerWrites \/ MiddlewareBeats
    PROVE  IInv'
<1>1. UNCHANGED <<turn, me, client, binding, wire, heart>> /\ Comment
  BY DEF TickerWrites, MiddlewareBeats
<1>2. stray' = FALSE
  BY <1>1 DEF IInv, HeartOK, TickerWrites, MiddlewareBeats, Comment
<1>3. Here' = Here
  BY <1>1 DEF Here
<1>4. MeOK(turn', Here', me') /\ WireOK(turn', Here', me', wire') /\ BindOK(me', binding')
  BY <1>1, <1>3 DEF IInv
<1>5. HeartOK'
  BY <1>1, <1>2 DEF IInv, HeartOK
<1>6. QED
  BY <1>1, <1>4, <1>5 DEF IInv

LEMMA StopsKeeps ==
    ASSUME IInv, StopKeepAlive \/ MiddlewareStops
    PROVE  IInv'
<1>1. /\ UNCHANGED <<turn, me, client, binding, wire, stray>>
      /\ heart' \in {[heart EXCEPT !.ticker = "off"], [heart EXCEPT !.middleware = "done"]}
  BY DEF StopKeepAlive, MiddlewareStops
<1>2. Here' = Here
  BY <1>1 DEF Here
<1>3. MeOK(turn', Here', me') /\ WireOK(turn', Here', me', wire') /\ BindOK(me', binding')
  BY <1>1, <1>2 DEF IInv
<1>4. HeartOK'
  BY <1>1 DEF IInv, HeartOK
<1>5. QED
  BY <1>1, <1>3, <1>4 DEF IInv

LEMMA ReturnKeeps ==
    ASSUME IInv, Return
    PROVE  IInv'
<1>1. /\ me.pc = "ended" /\ heart.ticker = "off" /\ heart.middleware = "done"
      /\ me' = Goes(me, "returned") /\ UNCHANGED <<turn, client, binding, wire, heart, stray>>
  BY DEF Return
<1>2. /\ turn \in Turns /\ MeOK(turn, Here, me) /\ WireOK(turn, Here, me, wire)
      /\ Locals(turn, me) /\ Writing(Here, me)
  BY DEF IInv, MeOK
<1> DEFINE n == Goes(me, "returned")
<1>3. /\ Locals(turn, n) /\ n.pc = "returned" /\ n.account = me.account /\ n.saved = me.saved
      /\ Writing(Here, n)
  BY <1>2, GoesFields DEF Over
<1> HIDE DEF n
<1>4. MeOK(turn, Here, n)
  BY <1>3 DEF MeOK, Deciding, Answered, Over
<1>5. WireOK(turn, Here, n, wire)
  BY <1>1, <1>2, <1>3 DEF WireOK, Closed, Deciding, Over
<1>6. BindOK(n, binding)
  BY <1>3 DEF IInv, BindOK
<1>7. Here' = Here /\ me' = n
  BY <1>1 DEF Here, n
<1>8. MeOK(turn', Here', me') /\ WireOK(turn', Here', me', wire') /\ BindOK(me', binding')
  BY <1>1, <1>4, <1>5, <1>6, <1>7
<1>9. HeartOK'
  BY <1>1 DEF IInv, HeartOK
<1>10. QED
  BY <1>1, <1>8, <1>9 DEF IInv

LEMMA InitIInv == Init => IInv
<1> SUFFICES ASSUME Init PROVE IInv
  OBVIOUS
<1>1. turn \in Turns /\ turn \in Turn /\ client = "there" /\ Here /\ wire = <<>> /\ stray = FALSE
  BY TurnAssumption DEF Init, Here
<1>2. /\ <<>> \in TextOf(turn, 1) /\ EmptyGuard \in Guard(turn, 1)
      /\ NoResult \in AnyResult
      /\ {NoConversation, Conversation(1, "thread")} \subseteq ConvsOf(1)
  BY <1>1, TextTypes, EmptySeq DEF NoResult, AnyResult, ConvsOf
<1>3. me.pc \in {"route", "answer"} /\ (MustCall(turn) => me.pc = "route")
  BY DEF Init, MustCall, Required, RoutesTools
<1>4. {"route", "answer"} \subseteq Deciding \cup {"answer"} \cup Answered \cup Over
  BY DEF Deciding
<1>5. /\ me \in MeOf(turn, 1) /\ me.account = 1 /\ me.saved = "no"
      /\ me.said = <<>> /\ me.delivered = <<>> /\ me.guard = EmptyGuard /\ me.tail = EmptyGuard
      /\ ~me.visible /\ ~me.broke
  BY <1>1, <1>2, <1>3, <1>4 DEF Init, MeOf
<1>6. Locals(turn, me) /\ Writing(Here, me) /\ Untouched(me)
  BY <1>5 DEF Locals, Writing, Untouched
<1>7. MeOK(turn, Here, me)
  BY <1>3, <1>5, <1>6 DEF MeOK, Deciding, Answered
<1>8. WireOK(turn, Here, me, wire)
  BY <1>1, <1>3, EmptySeq DEF WireOK, Open, Over
<1>9. HeartOK
  BY <1>1, <1>3 DEF Init, HeartOK, Turn
<1>10. BindOK(me, binding)
  <2>1. \/ binding = [account |-> 0, conversation |-> NoConversation]
        \/ binding = [account |-> 1, conversation |-> Conversation(1, "thread")]
        \/ binding = [account |-> 3, conversation |-> Conversation(3, "thread")]
    BY <1>1 DEF Init, Turn
  <2>2. QED
    BY <1>5, <2>1 DEF BindOK, ConvsOf
<1>11. QED
  BY <1>1, <1>7, <1>8, <1>9, <1>10 DEF IInv

LEMMA NextIInv == IInv /\ [Next]_vars => IInv'
<1> SUFFICES ASSUME IInv, [Next]_vars PROVE IInv'
  OBVIOUS
<1>1. HandlerStep => Talks \/ Concludes \/ StopKeepAlive \/ Return
  BY DEF HandlerStep, Talks, Concludes
<1>2. CASE UNCHANGED vars
  <2>1. /\ UNCHANGED <<turn, me, client, binding, wire, heart, stray>> /\ Here' = Here
    BY <1>2 DEF vars, Here
  <2>2. MeOK(turn', Here', me') /\ WireOK(turn', Here', me', wire') /\ BindOK(me', binding')
    BY <2>1 DEF IInv
  <2>3. HeartOK'
    BY <2>1 DEF IInv, HeartOK
  <2>4. QED
    BY <2>1, <2>2, <2>3 DEF IInv
<1>3. QED
  BY <1>1, <1>2, TalksKeeps, ConcludesKeeps, LoseClientKeeps, LoseLeaseKeeps, CommentKeeps,
     StopsKeeps, ReturnKeeps DEF Next

LEMMA AlwaysIInv == Spec => []IInv
BY InitIInv, NextIInv, PTL DEF Spec

---------------------------------------------------------------------------
(* What the invariant says of the frames.                                  *)

EndAt(u) == Len(u) + 1   \* where the ending stands

LEMMA OpenFrames ==
    ASSUME turn \in Turns, NEW a, NEW f \in OpenFrame(turn, a)
    PROVE  /\ f.kind \notin EndingKinds /\ (MustCall(turn) => f.kind \notin {"text", "stop"})
           /\ f.kind = "text" => f.text \in TextOf(turn, a)
BY DEF OpenFrame, TextFrame, Frame, EndingKinds

LEMMA OneElement ==
    ASSUME NEW S, NEW k \in Int, wire[k] \in S
    PROVE  /\ SubSeq(wire, k, k) \in Seq(S) /\ Len(SubSeq(wire, k, k)) = 1
           /\ SubSeq(wire, k, k)[1] = wire[k]
<1>1. \A i \in k..k : wire[i] \in S
  <2>1. \A i \in k..k : i = k
    OBVIOUS
  <2>2. QED
    BY <2>1
<1>2. /\ SubSeq(wire, k, k) \in Seq(S)
      /\ Len(SubSeq(wire, k, k)) = IF k <= k THEN k - k + 1 ELSE 0
      /\ \A i \in 1..(k - k + 1) : SubSeq(wire, k, k)[i] = wire[k + i - 1]
  BY <1>1, SubSeqProperties
<1>3. k <= k /\ k - k + 1 = 1 /\ 1 \in 1..(k - k + 1) /\ k + 1 - 1 = k
  OBVIOUS
<1>4. Len(SubSeq(wire, k, k)) = 1
  BY <1>2, <1>3
<1>5. SubSeq(wire, k, k)[1] = wire[k + 1 - 1]
  BY <1>2, <1>3
<1>6. QED
  BY <1>2, <1>3, <1>4, <1>5

\* An ended wire: what was open, the one ending, the end of the stream.
EndsAs(a, u, kind) ==
    /\ EndAt(u) \in DOMAIN wire /\ wire[EndAt(u)] = Frame(kind)
    /\ \A i \in DOMAIN wire : i < EndAt(u) => wire[i] \in OpenFrame(turn, a)
    /\ \A i \in DOMAIN wire : i > EndAt(u) => wire[i] = Frame("done")
    /\ SubSeq(wire, EndAt(u) + 1, Len(wire)) = IF turn.stream THEN <<Frame("done")>> ELSE <<>>
    /\ EndAt(u) \in Nat /\ DOMAIN wire \subseteq Nat

LEMMA EndedWire ==
    ASSUME turn \in Turns, NEW a, NEW u \in Open(turn, a), NEW kind \in EndingKinds,
           wire = u \o Close(turn, kind)
    PROVE  EndsAs(a, u, kind)
<1> DEFINE f == Frame(kind)
           over == Frame("done")
           S == OpenFrame(turn, a) \cup {f, over}
           c == IF turn.stream THEN <<f, over>> ELSE <<f>>
<1>1. wire = u \o c
  BY DEF Close
<1>2. u \in Seq(S)
  <2>1. OpenFrame(turn, a) \subseteq S
    OBVIOUS
  <2> HIDE DEF S
  <2>2. QED
    BY <2>1, SeqMonotonic DEF Open
<1>3. f \in S /\ over \in S
  OBVIOUS
<1> HIDE DEF S, f, over
<1>4. /\ c \in Seq(S) /\ Len(c) = (IF turn.stream THEN 2 ELSE 1) /\ c[1] = f
      /\ turn.stream => c[2] = over
  BY <1>3
<1> HIDE DEF c
<1>5. /\ wire \in Seq(S) /\ Len(wire) = Len(u) + Len(c)
      /\ \A i \in 1..Len(u) : wire[i] = u[i]
      /\ \A i \in 1..Len(c) : wire[Len(u) + i] = c[i]
  BY <1>1, <1>2, <1>4, ConcatProperties, SMTT(30)
<1>6. Len(u) \in Nat /\ DOMAIN wire = 1..Len(wire) /\ \A i \in 1..Len(u) : u[i] \in OpenFrame(turn, a)
  BY <1>5 DEF Open
<1>7. EndAt(u) \in DOMAIN wire /\ wire[EndAt(u)] = f
  BY <1>4, <1>5, <1>6 DEF EndAt
<1>8. \A i \in DOMAIN wire : i < EndAt(u) => wire[i] \in OpenFrame(turn, a)
  BY <1>5, <1>6 DEF EndAt
<1>9. \A i \in DOMAIN wire : i > EndAt(u) => i = Len(u) + 2 /\ turn.stream
  BY <1>4, <1>5, <1>6 DEF EndAt
<1>10. \A i \in DOMAIN wire : i > EndAt(u) => wire[i] = over
  BY <1>4, <1>5, <1>6, <1>9
<1>11. SubSeq(wire, EndAt(u) + 1, Len(wire)) = IF turn.stream THEN <<over>> ELSE <<>>
  <2>1. CASE turn.stream
    <3> DEFINE x == SubSeq(wire, Len(u) + 2, Len(u) + 2)
    <3>1. /\ x \in Seq(S) /\ Len(x) = 1 /\ x[1] = wire[Len(u) + 2]
      <4> DEFINE k == Len(u) + 2
      <4>1. k \in Int /\ wire[k] \in S
        BY <1>4, <1>5, <1>6, <2>1
      <4> HIDE DEF k
      <4>2. SubSeq(wire, k, k) \in Seq(S) /\ Len(SubSeq(wire, k, k)) = 1
            /\ SubSeq(wire, k, k)[1] = wire[k]
        BY <4>1, OneElement
      <4>3. QED
        BY <4>2 DEF k
    <3>2. x[1] = over
      BY <1>4, <1>5, <1>6, <2>1, <3>1
    <3>3. EndAt(u) + 1 = Len(u) + 2 /\ Len(wire) = Len(u) + 2
      BY <1>4, <1>5, <1>6, <2>1 DEF EndAt
    <3> DEFINE y == <<over>>
    <3>4. y \in Seq(S) /\ Len(y) = 1 /\ y[1] = over
      BY <1>3
    <3> HIDE DEF x, y
    <3>5. \A i \in 1..Len(x) : x[i] = y[i]
      BY <3>1, <3>2, <3>4
    <3>6. x = y
      BY <3>1, <3>4, <3>5, SeqEqual
    <3>7. QED
      BY <2>1, <3>3, <3>6 DEF x, y
  <2>2. CASE ~turn.stream
    <3>1. EndAt(u) + 1 \in Int /\ Len(wire) \in Int /\ Len(wire) < EndAt(u) + 1
      BY <1>4, <1>5, <1>6, <2>2 DEF EndAt
    <3>2. QED
      BY <2>2, <3>1, SubSeqEmpty
  <2>3. QED
    BY <2>1, <2>2
<1>12. EndAt(u) \in Nat /\ DOMAIN wire \subseteq Nat
  <2>1. Len(wire) \in Nat
    BY <1>5
  <2>2. QED
    BY <1>6, <2>1 DEF EndAt
<1>13. QED
  BY <1>7, <1>8, <1>10, <1>11, <1>12 DEF f, over, EndsAs

LEMMA EndedOnce ==
    ASSUME turn \in Turns, NEW a, NEW u \in Open(turn, a), NEW kind \in EndingKinds,
           wire = u \o Close(turn, kind), MustCall(turn) => kind # "stop"
    PROVE  /\ Sent(EndingKinds) = {EndAt(u)}
           /\ SubSeq(wire, EndAt(u) + 1, Len(wire))
                = IF turn.stream THEN <<Frame("done")>> ELSE <<>>
           /\ Sent(SuccessKinds) # {} => kind # "error"
           /\ MustCall(turn) => Sent({"text", "stop"}) = {}
           /\ \A i \in Sent({"text"}) : wire[i] \in OpenFrame(turn, a)
<1>0. EndsAs(a, u, kind)
  BY EndedWire
<1>1. /\ EndAt(u) \in DOMAIN wire /\ wire[EndAt(u)] = Frame(kind)
      /\ \A i \in DOMAIN wire : i < EndAt(u) => wire[i] \in OpenFrame(turn, a)
      /\ \A i \in DOMAIN wire : i > EndAt(u) => wire[i] = Frame("done")
      /\ SubSeq(wire, EndAt(u) + 1, Len(wire)) = IF turn.stream THEN <<Frame("done")>> ELSE <<>>
      /\ EndAt(u) \in Nat /\ DOMAIN wire \subseteq Nat
  BY <1>0 DEF EndsAs
<1> DEFINE n == EndAt(u)
<1>2. Frame(kind).kind = kind /\ Frame("done").kind = "done"
  BY DEF Frame
<1>3. \A i \in DOMAIN wire : i = n \/ wire[i] \in OpenFrame(turn, a) \/ wire[i] = Frame("done")
  BY <1>1, SMTT(30)
<1>4. \A i \in DOMAIN wire : \/ i = n /\ wire[i].kind = kind
                             \/ wire[i] \in OpenFrame(turn, a)
                             \/ wire[i].kind = "done"
  BY <1>1, <1>2, <1>3
<1> HIDE DEF n
<1>5. \A i \in DOMAIN wire : wire[i] \in OpenFrame(turn, a) =>
         /\ wire[i].kind \notin EndingKinds
         /\ MustCall(turn) => wire[i].kind \notin {"text", "stop"}
  BY OpenFrames
<1>6. n \in DOMAIN wire /\ wire[n].kind = kind
  BY <1>1, <1>2 DEF n
<1>7. kind # "text" /\ kind # "done" /\ "done" \notin EndingKinds /\ SuccessKinds = EndingKinds \ {"error"}
  BY DEF EndingKinds, SuccessKinds
<1>8. Sent(EndingKinds) = {n}
  BY <1>4, <1>5, <1>6, <1>7 DEF Sent
<1>9. Sent(SuccessKinds) # {} => kind # "error"
  BY <1>4, <1>5, <1>7 DEF Sent
<1>10. MustCall(turn) => Sent({"text", "stop"}) = {}
  BY <1>4, <1>5, <1>7 DEF Sent
<1>11. \A i \in Sent({"text"}) : wire[i] \in OpenFrame(turn, a)
  BY <1>4, <1>7 DEF Sent
<1>12. QED
  BY <1>1, <1>8, <1>9, <1>10, <1>11 DEF n

(* A wire that is still open holds no ending.                              *)
LEMMA OpenOnly ==
    ASSUME turn \in Turns, NEW a, wire \in Open(turn, a)
    PROVE  /\ Sent(EndingKinds) = {} /\ Sent(SuccessKinds) = {}
           /\ MustCall(turn) => Sent({"text", "stop"}) = {}
           /\ \A i \in Sent({"text"}) : wire[i] \in OpenFrame(turn, a)
<1>1. \A i \in DOMAIN wire : wire[i] \in OpenFrame(turn, a)
  BY DEF Open
<1>2. \A i \in DOMAIN wire :
         /\ wire[i].kind \notin EndingKinds
         /\ MustCall(turn) => wire[i].kind \notin {"text", "stop"}
  BY <1>1, OpenFrames
<1>3. QED
  BY <1>1, <1>2 DEF Sent, SuccessKinds

LEMMA IInvOneEnding == IInv => OneEnding
<1> SUFFICES ASSUME IInv PROVE OneEnding
  OBVIOUS
<1> DEFINE a == me.account
<1>1. turn \in Turns /\ WireOK(turn, Here, me, wire) /\ ~stray
  BY DEF IInv, HeartOK
<1>2. MustCall(turn) <=> Required(turn) /\ turn.rounds
  BY DEF MustCall
<1>3. CASE Closed(turn, me, wire)
  <2>1. PICK u \in Open(turn, a), kind \in EndingKinds :
           /\ wire = u \o Close(turn, kind)
           /\ kind # "error" => me.saved # "no"
           /\ MustCall(turn) => kind # "stop"
    BY <1>3 DEF Closed
  <2>2. /\ Sent(EndingKinds) = {EndAt(u)}
        /\ SubSeq(wire, EndAt(u) + 1, Len(wire)) = IF turn.stream THEN <<Frame("done")>> ELSE <<>>
        /\ Sent(SuccessKinds) # {} => kind # "error"
        /\ MustCall(turn) => Sent({"text", "stop"}) = {}
    BY <1>1, <2>1, EndedOnce
  <2>3. QED
    BY <1>1, <1>2, <2>1, <2>2 DEF OneEnding
<1>4. CASE ~Closed(turn, me, wire)
  <2>1. wire \in Open(turn, a) /\ (me.pc = "returned" => ~Here)
    BY <1>1, <1>4 DEF WireOK, Over
  <2>2. /\ Sent(EndingKinds) = {} /\ Sent(SuccessKinds) = {}
        /\ MustCall(turn) => Sent({"text", "stop"}) = {}
    BY <1>1, <2>1, OpenOnly
  <2>3. QED
    BY <1>1, <1>2, <2>1, <2>2 DEF OneEnding
<1>5. QED
  BY <1>3, <1>4

LEMMA IInvBinding == IInv => BindingFitsTheAnswer
<1> SUFFICES ASSUME IInv PROVE BindingFitsTheAnswer
  OBVIOUS
<1> DEFINE a == me.account
<1>1. turn \in Turns /\ WireOK(turn, Here, me, wire) /\ BindOK(me, binding)
  BY DEF IInv
<1>2. \A i \in Sent({"text"}) : wire[i] \in OpenFrame(turn, a)
  <2>1. CASE Closed(turn, me, wire)
    <3>1. PICK u \in Open(turn, a), kind \in EndingKinds :
             wire = u \o Close(turn, kind) /\ (MustCall(turn) => kind # "stop")
      BY <2>1 DEF Closed
    <3>2. QED
      BY <1>1, <3>1, EndedOnce
  <2>2. CASE ~Closed(turn, me, wire)
    <3>1. wire \in Open(turn, a)
      BY <1>1, <2>2 DEF WireOK
    <3>2. QED
      BY <1>1, <3>1, OpenOnly
  <2>3. QED
    BY <2>1, <2>2
<1>3. \A i \in Sent({"text"}) : wire[i].text \in TextOf(turn, a)
  BY <1>1, <1>2, OpenFrames DEF Sent
<1>4. ~Guarded => \A i \in Sent({"text"}) : \A k \in DOMAIN wire[i].text : wire[i].text[k].by = a
  <2> SUFFICES ASSUME ~turn.tools, NEW i \in Sent({"text"}), NEW k \in DOMAIN wire[i].text
               PROVE  wire[i].text[k].by = a
    BY DEF Guarded
  <2>1. wire[i].text[k] \in PieceOf(turn, a)
    BY <1>3 DEF TextOf
  <2>2. QED
    BY <2>1 DEF PieceOf
<1>5. /\ binding.conversation # NoConversation =>
           binding.conversation.of = binding.account /\ binding.conversation.role = "thread"
      /\ me.saved = "yes" => binding.account = me.account
  BY <1>1 DEF BindOK, ConvsOf, Conversation
<1>6. QED
  BY <1>4, <1>5 DEF BindingFitsTheAnswer

---------------------------------------------------------------------------
(* Whatever upstream, the account router, the client and the deadlines do, and however many pieces
   and continuations a turn has: a client that stays is sent exactly one ending, with nothing
   after it but the end of the stream; a turn that must call a tool is never answered in prose; a
   success is announced only once the session was saved; and the keep-alive goroutines write into
   streams only, and never after the handler has returned (server.go openaiChat, sse_keepalive.go).  *)
THEOREM EveryTurnHasOneEnding == Spec => []OneEnding
<1>1. IInv => OneEnding
  BY IInvOneEnding
<1>2. QED
  BY <1>1, AlwaysIInv, PTL

(* The thread is left with a conversation only of the account it is bound to and never with the
   router's throw-away chat, it is bound to the account that answered, and every piece of text a
   client without tools was sent came from that account, also when the turn failed over on its
   way (persistSession, activateNextAccount and emitDelta in server.go).   *)
THEOREM BindingsFitTheirAnswers == Spec => []BindingFitsTheAnswer
<1>1. IInv => BindingFitsTheAnswer
  BY IInvBinding
<1>2. QED
  BY <1>1, AlwaysIInv, PTL

---------------------------------------------------------------------------
(* The text of the answer: one run of pieces, from upstream to the client.  *)

\* Pieces k + 1, k + 2, ... of what an account said.
Run(s, a, k) == \A i \in DOMAIN s : s[i].by = a /\ s[i].n = k + i

\* The turns TextIsOneAnswer speaks of.
Clear(t, m) == ~m.gap /\ ~(t.stream /\ t.tools /\ m.account = 2)

\* What came in and was sent, is kept for the check against the tools, or is held back.
Kept(m) == (m.delivered \o m.guard.pending) \o m.tail.pending
Whole(m) == ~m.reached /\ ~m.incomplete

FreeGuard == [pending |-> <<>>, released |-> TRUE]

\* A guard that is open holds nothing back, and one that let something pass is open.
GuardOK(m) ==
    /\ m.guard.released => m.guard.pending = <<>>
    /\ m.delivered # <<>> => m.guard.released

Answering(m) ==
    /\ Run(m.said, m.account, 0) /\ Len(m.said) = m.told
    /\ GuardOK(m)
    /\ ~m.reached => Run(Kept(m), m.account, 0) /\ Len(Kept(m)) = m.told

Settling(m) ==
    /\ GuardOK(m)
    /\ m.tail = EmptyGuard
    /\ ~m.reached => Run(Kept(m), m.account, 0)
    /\ ~m.reached => \/ Len(Kept(m)) = m.told
                     \/ Kept(m) = <<>> /\ m.failure = "none" /\ ~m.result.capped
    /\ m.failure = "none" => Run(m.result.text, m.account, 0) /\ Len(m.result.text) = m.told

Resuming(m) ==
    /\ m.guard = FreeGuard /\ m.tail = EmptyGuard /\ ~m.reached
    /\ Len(m.delivered) = m.told /\ m.failure = "network"

Continuing(m) ==
    /\ m.guard = FreeGuard /\ m.failure = "none"
    /\ m.tail.released => m.tail.pending = <<>>
    /\ Run(m.result.text, m.account, 0) /\ Run(m.said, m.account, Len(m.result.text))
    /\ Len(m.result.text) + Len(m.said) = m.told
    /\ ~m.reached => Run(Kept(m), m.account, 0) /\ Len(Kept(m)) = m.told

Finishing(m) ==
    m.failure = "none" =>
       /\ m.guard = FreeGuard
       /\ Run(m.result.text, m.account, 0)
       /\ Whole(m) => /\ Len(m.result.text) = m.told
                      /\ m.delivered = <<>> \/ Len(m.delivered) = m.told

\* What a stream holds.
StreamBooks(t, m, w) ==
    /\ m.pc \in {"answer", "settle", "resume", "continue", "finish"} =>
          /\ Run(m.delivered, m.account, 0)
          /\ TextIn(w) = IF t.tools THEN <<>> ELSE m.delivered
    /\ m.pc = "answer"   => Answering(m)
    /\ m.pc = "settle"   => Settling(m)
    /\ m.pc = "resume"   => Resuming(m)
    /\ m.pc = "continue" => Continuing(m)
    /\ m.pc = "finish"   => Finishing(m)
    /\ m.pc \in {"save answer", "conclude"} /\ Whole(m) =>
          TextIn(w) = Unverified \/ Len(TextIn(w)) = m.told

\* What a turn without a stream holds.
PlainBooks(m, w) ==
    /\ TextIn(w) = <<>> \/ m.pc \in Over
    /\ m.pc # "resume"
    /\ m.pc = "answer" => m.told = 0 /\ m.said = <<>>
    /\ m.pc \in {"settle", "continue", "finish"} /\ m.failure = "none" =>
          Run(m.result.text, m.account, 0) /\ Len(m.result.text) = m.told
    /\ m.pc \in {"save answer", "conclude"} =>
          Run(m.result.text, m.account, 0) /\ (~m.reached => Len(m.result.text) = m.told)

Books(t, m, w) ==
    /\ m.pc \in Deciding => m.told = 0
    /\ IF t.stream THEN StreamBooks(t, m, w) ELSE PlainBooks(m, w)

Stopped(w) == \E i \in DOMAIN w : w[i].kind = "stop"

OneText(w) == TextIn(w) = Unverified \/ \E b \in 0..2 : Run(TextIn(w), b, 0)
OneAnswer(m, w) ==
    OneText(w) /\ (Stopped(w) => TextIn(w) = Unverified \/ Len(TextIn(w)) = m.told)

TextOK(t, h, m, w) == Clear(t, m) => OneAnswer(m, w) /\ (h => Books(t, m, w))

AnyFrame == [kind : {"text", "call", "done"} \cup EndingKinds, text : Seq(AnyPiece)]

LEMMA TextInConcat ==
    ASSUME NEW w \in Seq(AnyFrame), NEW u \in Seq(AnyFrame)
    PROVE  /\ TextIn(w) \in Seq(AnyPiece)
           /\ TextIn(w \o u) = TextIn(w) \o TextIn(u)
<1> DEFINE texts(x) == [i \in DOMAIN x |-> x[i].text]
<1>1. ASSUME NEW x \in Seq(AnyFrame)
      PROVE  texts(x) \in Seq(Seq(AnyPiece)) /\ Len(texts(x)) = Len(x)
  <2>1. DOMAIN x = 1..Len(x) /\ Len(x) \in Nat /\ \A i \in 1..Len(x) : x[i] \in AnyFrame
    BY LenProperties, ElementOfSeq
  <2>2. \A f \in AnyFrame : f.text \in Seq(AnyPiece)
    BY DEF AnyFrame
  <2>3. texts(x) \in [1..Len(x) -> Seq(AnyPiece)]
    BY <2>1, <2>2, Zenon
  <2> DEFINE y == texts(x)
             n == Len(x)
  <2> HIDE DEF y, n
  <2>4. y \in [1..n -> Seq(AnyPiece)] /\ n \in Nat
    BY <2>1, <2>3 DEF y, n
  <2>5. y \in Seq(Seq(AnyPiece))
    BY <2>4, SeqDef
  <2>6. Len(y) = n
    BY <2>4, <2>5, LenProperties
  <2>7. QED
    BY <2>5, <2>6 DEF y, n
<1>2. texts(w \o u) = texts(w) \o texts(u)
  <2>1. w \o u \in Seq(AnyFrame) /\ Len(w \o u) = Len(w) + Len(u)
    BY ConcatProperties
  <2> DEFINE x == texts(w \o u)
             y == texts(w) \o texts(u)
  <2>2. /\ x \in Seq(Seq(AnyPiece)) /\ y \in Seq(Seq(AnyPiece))
        /\ Len(x) = Len(w) + Len(u) /\ Len(y) = Len(w) + Len(u)
    <3>1. /\ texts(w \o u) \in Seq(Seq(AnyPiece)) /\ Len(texts(w \o u)) = Len(w \o u)
          /\ texts(w) \in Seq(Seq(AnyPiece)) /\ Len(texts(w)) = Len(w)
          /\ texts(u) \in Seq(Seq(AnyPiece)) /\ Len(texts(u)) = Len(u)
      BY <1>1, <2>1, Zenon
    <3> DEFINE p == texts(w)
               q == texts(u)
    <3>2. p \in Seq(Seq(AnyPiece)) /\ Len(p) = Len(w) /\ q \in Seq(Seq(AnyPiece)) /\ Len(q) = Len(u)
      BY <3>1
    <3> HIDE DEF p, q
    <3> DEFINE S == Seq(AnyPiece)
    <3>3. p \in Seq(S) /\ q \in Seq(S)
      BY <3>2
    <3> HIDE DEF S
    <3>4. p \o q \in Seq(S) /\ Len(p \o q) = Len(p) + Len(q)
      BY <3>3, Concats
    <3>5. QED
      BY <2>1, <3>1, <3>2, <3>4 DEF p, q, S
  <2>3. ASSUME NEW i \in 1..Len(w) + Len(u) PROVE x[i] = y[i]
    <3>1. x[i] = (w \o u)[i].text
      BY <2>1, LenProperties
    <3>2. CASE i <= Len(w)
      <4>1. (w \o u)[i] = w[i] /\ i \in DOMAIN w
        BY <3>2, ConcatProperties, LenProperties
      <4>2. y[i] = texts(w)[i]
        <5> HIDE DEF texts
        <5>1. QED
          BY <1>1, <3>2, ConcatProperties
      <4>3. QED
        BY <3>1, <4>1, <4>2
    <3>3. CASE i > Len(w)
      <4>1. (w \o u)[i] = u[i - Len(w)] /\ i - Len(w) \in DOMAIN u
        BY <3>3, ConcatProperties, LenProperties
      <4>2. y[i] = texts(u)[i - Len(w)]
        <5> HIDE DEF texts
        <5>1. QED
          BY <1>1, <3>3, ConcatProperties, SMTT(30)
      <4>3. QED
        BY <3>1, <4>1, <4>2
    <3>4. QED
      BY <3>2, <3>3, LenProperties
  <2> HIDE DEF x, y
  <2>4. x = y
    BY <2>2, <2>3, SeqEqual
  <2>5. QED
    BY <2>4 DEF x, y
<1>3. TextIn(w) = FlattenSeq(texts(w)) /\ TextIn(u) = FlattenSeq(texts(u))
      /\ TextIn(w \o u) = FlattenSeq(texts(w \o u))
  BY DEF TextIn
<1> HIDE DEF texts
<1>4. FlattenSeq(texts(w) \o texts(u)) = FlattenSeq(texts(w)) \o FlattenSeq(texts(u))
  BY <1>1, FlattenConcat
<1>5. FlattenSeq(texts(w)) \in Seq(AnyPiece)
  BY <1>1, FlattenIsASeq
<1>6. QED
  BY <1>2, <1>3, <1>4, <1>5

LEMMA TextInOne ==
    /\ TextIn(<<>>) = <<>>
    /\ \A f \in AnyFrame : TextIn(<<f>>) = f.text /\ <<f>> \in Seq(AnyFrame)
<1>1. TextIn(<<>>) = <<>>
  <2>1. [i \in DOMAIN <<>> |-> <<>>[i].text] = <<>>
    OBVIOUS
  <2>2. QED
    BY <2>1, FlattenNothing DEF TextIn
<1>2. ASSUME NEW f \in AnyFrame PROVE TextIn(<<f>>) = f.text /\ <<f>> \in Seq(AnyFrame)
  <2>1. [i \in DOMAIN <<f>> |-> <<f>>[i].text] = <<f.text>>
    OBVIOUS
  <2>2. <<f.text>> = Append(<<>>, f.text) /\ f.text \in Seq(AnyPiece)
    BY DEF AnyFrame
  <2>3. FlattenSeq(Append(<<>>, f.text)) = FlattenSeq(<<>>) \o f.text
    BY <2>2, FlattenAppend, FlattenIsASeq, EmptySeq
  <2>4. QED
    <3>1. TextIn(<<f>>) = FlattenSeq(<<f.text>>)
      BY <2>1 DEF TextIn
    <3>2. <<>> \o f.text = f.text
      BY <2>2, ConcatEmptySeq
    <3>3. TextIn(<<f>>) = f.text
      BY <2>2, <2>3, <3>1, <3>2, FlattenNothing
    <3>4. QED
      BY <3>3
<1>3. QED
  BY <1>1, <1>2

LEMMA RunConcat ==
    ASSUME NEW s \in Seq(AnyPiece), NEW u \in Seq(AnyPiece), NEW a, NEW k \in Nat
    PROVE  Run(s \o u, a, k) <=> Run(s, a, k) /\ Run(u, a, k + Len(s))
<1> DEFINE x == s \o u
<1>1. /\ DOMAIN s = 1..Len(s) /\ DOMAIN u = 1..Len(u) /\ DOMAIN x = 1..Len(s) + Len(u)
      /\ Len(s) \in Nat /\ Len(u) \in Nat
      /\ \A i \in 1..Len(s) : x[i] = s[i]
      /\ \A i \in 1..Len(u) : x[Len(s) + i] = u[i]
  BY ConcatProperties, LenProperties
<1> HIDE DEF x
<1>2. ASSUME Run(x, a, k) PROVE Run(s, a, k) /\ Run(u, a, k + Len(s))
  <2>1. ASSUME NEW i \in 1..Len(s) PROVE s[i].by = a /\ s[i].n = k + i
    <3>1. i \in DOMAIN x /\ x[i] = s[i]
      BY <1>1
    <3>2. QED
      BY <1>2, <3>1, Zenon DEF Run
  <2>2. ASSUME NEW i \in 1..Len(u) PROVE u[i].by = a /\ u[i].n = (k + Len(s)) + i
    <3>1. Len(s) + i \in DOMAIN x /\ x[Len(s) + i] = u[i] /\ k + (Len(s) + i) = (k + Len(s)) + i
      BY <1>1
    <3>2. u[i].by = a /\ u[i].n = k + (Len(s) + i)
      BY <1>2, <3>1, Zenon DEF Run
    <3>3. QED
      BY <3>1, <3>2
  <2>3. QED
    BY <1>1, <2>1, <2>2 DEF Run
<1>3. ASSUME Run(s, a, k), Run(u, a, k + Len(s)) PROVE Run(x, a, k)
  <2>1. ASSUME NEW i \in 1..Len(s) + Len(u) PROVE x[i].by = a /\ x[i].n = k + i
    <3>1. CASE i <= Len(s)
      BY <1>1, <1>3, <3>1 DEF Run
    <3>2. CASE i > Len(s)
      <4>1. i - Len(s) \in 1..Len(u) /\ x[i] = u[i - Len(s)]
        BY <1>1, <3>2
      <4>2. u[i - Len(s)].by = a /\ u[i - Len(s)].n = (k + Len(s)) + (i - Len(s))
        BY <1>1, <1>3, <4>1 DEF Run
      <4>3. QED
        BY <1>1, <4>1, <4>2
    <3>3. QED
      BY <1>1, <3>1, <3>2
  <2>2. QED
    BY <1>1, <2>1 DEF Run
<1>4. QED
  BY <1>2, <1>3 DEF x

LEMMA RunEmpty == \A a, k : Run(<<>>, a, k)
BY DEF Run

LEMMA RunStart ==
    ASSUME NEW s \in Seq(AnyPiece), NEW a, NEW k, Run(s, a, k), NEW n \in Int, n <= Len(s)
    PROVE  Run(SubSeq(s, 1, n), a, k)
<1>1. \A i \in 1..n : s[i] \in AnyPiece
  BY ElementOfSeq, LenProperties
<1>2. /\ \A i \in DOMAIN SubSeq(s, 1, n) : i \in 1..n /\ SubSeq(s, 1, n)[i] = s[i]
      /\ DOMAIN s = 1..Len(s) /\ Len(s) \in Nat
  BY <1>1, SubSeqProperties, LenProperties
<1>3. QED
  BY <1>2 DEF Run

LEMMA SpeakRuns ==
    ASSUME turn \in Turns, NEW m, Locals(turn, m), NEW parts \in Seq(Part)
    PROVE  Run(Speak(m, parts), m.account, m.told)
BY DEF Run, Speak, Piece

---------------------------------------------------------------------------
(* What writing a delta does to the books.                                 *)

\* Everything but the guard and what was delivered.
SameBooks(m, n) ==
    /\ n.pc = m.pc /\ n.account = m.account /\ n.told = m.told /\ n.said = m.said
    /\ n.tail = m.tail /\ n.result = m.result /\ n.failure = m.failure /\ n.gap = m.gap
    /\ n.incomplete = m.incomplete

StaysARun(text, s) == \A b : \A k : Run(text, b, k) => Run(s, b, k)

\* Of the text, s is let through: a start of it, which a turn without tools also sends.
LetsPass(m, e, text, s) ==
    /\ s \in Seq(AnyPiece) /\ e.to.delivered = m.delivered \o s
    /\ StaysARun(text, s)
    /\ Here => TextIn(e.frames) = IF turn.tools THEN <<>> ELSE s

LEMMA TextTypesOf ==
    ASSUME turn \in Turns, NEW m, Locals(turn, m)
    PROVE  /\ turn \in Turn /\ m.account \in {1, 2} /\ m \in MeOf(turn, m.account)
           /\ \A text \in TextOf(turn, m.account) : text \in Seq(AnyPiece)
           /\ m.delivered \in Seq(AnyPiece) /\ m.said \in Seq(AnyPiece) /\ m.told \in Nat
           /\ m.guard.pending \in Seq(AnyPiece) /\ m.guard.released \in BOOLEAN
           /\ m.tail.pending \in Seq(AnyPiece) /\ m.tail.released \in BOOLEAN
           /\ m.reached \in BOOLEAN /\ m.incomplete \in BOOLEAN /\ m.gap \in BOOLEAN
           /\ m.result \in AnyResult /\ m.result.text \in Seq(AnyPiece)
<1>1. turn \in Turn /\ m.account \in {1, 2} /\ m \in MeOf(turn, m.account)
  BY TurnAssumption DEF Locals
<1>2. \A text \in TextOf(turn, m.account) : text \in Seq(AnyPiece)
  BY <1>1, TextTypes
<1>3. /\ m.delivered \in TextOf(turn, m.account) /\ m.said \in TextOf(turn, m.account)
      /\ m.guard \in Guard(turn, m.account) /\ m.tail \in Guard(turn, m.account) /\ m.told \in Nat
      /\ m.reached \in BOOLEAN /\ m.incomplete \in BOOLEAN /\ m.gap \in BOOLEAN
      /\ m.result \in AnyResult
  BY <1>1 DEF MeOf
<1>4. \A g \in Guard(turn, m.account) : g.pending \in TextOf(turn, m.account) /\ g.released \in BOOLEAN
  BY DEF Guard
<1>5. m.result.text \in Seq(AnyPiece)
  BY <1>3 DEF AnyResult
<1>6. QED
  BY <1>1, <1>2, <1>3, <1>4, <1>5, Zenon

LEMMA ClipStarts ==
    ASSUME turn \in Turns, NEW m, Locals(turn, m),
           NEW text \in TextOf(turn, m.account), text # <<>>
    PROVE  LET clip == Clip(m, text)
           IN /\ clip.text \in Seq(AnyPiece)
              /\ ~clip.reached => clip.text = text
              /\ StaysARun(text, clip.text)
<1> DEFINE room == OutputLimit - Len(m.delivered)
<1>1. /\ text \in Seq(AnyPiece) /\ Len(m.delivered) \in Nat /\ OutputLimit \in Nat
      /\ Len(text) \in Nat
  BY TextTypesOf, LenProperties, TurnAssumption
<1>2. CASE turn.limited /\ Len(m.delivered) + Len(text) > OutputLimit
  <2>1. Clip(m, text) = [text |-> SubSeq(text, 1, room), reached |-> TRUE]
    BY <1>2 DEF Clip
  <2>2. room \in Int /\ room <= Len(text)
    BY <1>1, <1>2
  <2> HIDE DEF room
  <2>3. SubSeq(text, 1, room) \in Seq(AnyPiece)
    BY <1>1, <2>2, Starts
  <2>4. StaysARun(text, SubSeq(text, 1, room))
    BY <1>1, <2>2, RunStart DEF StaysARun
  <2>5. QED
    BY <2>1, <2>3, <2>4
<1>3. CASE ~(turn.limited /\ Len(m.delivered) + Len(text) > OutputLimit)
  <2>1. Clip(m, text) = [text |-> text, reached |-> m.reached]
    BY <1>3 DEF Clip
  <2>2. QED
    BY <1>1, <2>1 DEF StaysARun
<1>4. QED
  BY <1>2, <1>3

LEMMA DeliveredBooks ==
    ASSUME turn \in Turns, NEW m, Locals(turn, m),
           NEW text \in TextOf(turn, m.account), text # <<>>,
           NEW e, e = Delivered(m, text)
    PROVE  /\ SameBooks(m, e.to) /\ e.to.guard = m.guard
           /\ m.reached => e.to.reached
           /\ ~e.to.reached => e.to.delivered = m.delivered \o text
           /\ \E s : LetsPass(m, e, text, s)
<1> DEFINE clip == Clip(m, text)
           d == [m EXCEPT !.delivered = m.delivered \o clip.text, !.reached = clip.reached]
           frame == Text(clip.text)
<1>1. /\ clip.text \in Seq(AnyPiece)
      /\ ~clip.reached => clip.text = text
      /\ StaysARun(text, clip.text)
  BY ClipStarts
<1>2. m \in MeOf(turn, m.account) /\ m.delivered \in Seq(AnyPiece)
  BY TextTypesOf
<1> HIDE DEF clip
<1>3. /\ SameBooks(m, d) /\ d.guard = m.guard /\ d.reached = clip.reached
      /\ d.delivered = m.delivered \o clip.text
      /\ DOMAIN d = DOMAIN m
  BY <1>2 DEF MeOf, SameBooks
<1>4. TextIn(<<>>) = <<>> /\ TextIn(<<frame>>) = clip.text
  <2>1. frame \in AnyFrame /\ frame.text = clip.text
    BY <1>1 DEF frame, Text, AnyFrame
  <2>2. QED
    BY <2>1, TextInOne
<1>5. CASE m.reached
  <2>1. e = [to |-> m, frames |-> <<>>]
    BY <1>5 DEF Delivered
  <2>2. m.delivered \o <<>> = m.delivered /\ <<>> \in Seq(AnyPiece)
    BY <1>2, ConcatEmptySeq
  <2>3. LetsPass(m, e, text, <<>>)
    <3>1. e.to = m /\ e.frames = <<>> /\ StaysARun(text, <<>>)
      BY <2>1, RunEmpty DEF StaysARun
    <3>2. QED
      BY <1>4, <2>2, <3>1, Zenon DEF LetsPass
  <2>4. e.to = m /\ SameBooks(m, m)
    BY <2>1 DEF SameBooks
  <2>5. QED
    BY <1>5, <2>3, <2>4, Zenon
<1> HIDE DEF frame
<1>6. CASE ~m.reached /\ Guarded
  <2>1. e = [to |-> d, frames |-> <<>>]
    BY <1>6 DEF Delivered, clip
  <2> HIDE DEF d
  <2>2. e.to = d /\ e.frames = <<>>
    BY <2>1
  <2>3. LetsPass(m, e, text, clip.text)
    BY <1>1, <1>3, <1>4, <1>6, <2>2, Zenon DEF LetsPass, Guarded
  <2>4. QED
    BY <1>1, <1>3, <1>6, <2>2, <2>3, Zenon
<1>7. CASE ~m.reached /\ ~Guarded /\ Here
  <2> DEFINE v == [d EXCEPT !.visible = TRUE]
  <2>1. e = [to |-> v, frames |-> <<frame>>]
    BY <1>7 DEF Delivered, clip, frame
  <2>2. SameBooks(m, v) /\ v.guard = d.guard /\ v.reached = d.reached /\ v.delivered = d.delivered
    BY <1>2, <1>3 DEF MeOf, SameBooks
  <2> HIDE DEF d, v
  <2>3. e.to = v /\ e.frames = <<frame>>
    BY <2>1
  <2>4. LetsPass(m, e, text, clip.text)
    BY <1>1, <1>3, <1>4, <1>7, <2>2, <2>3, Zenon DEF LetsPass, Guarded
  <2>5. QED
    BY <1>1, <1>3, <1>7, <2>2, <2>3, <2>4, Zenon
<1>8. CASE ~m.reached /\ ~Guarded /\ ~Here
  <2> DEFINE v == [d EXCEPT !.broke = TRUE]
  <2>1. e = [to |-> v, frames |-> <<>>]
    BY <1>8 DEF Delivered, clip
  <2>2. SameBooks(m, v) /\ v.guard = d.guard /\ v.reached = d.reached /\ v.delivered = d.delivered
    BY <1>2, <1>3 DEF MeOf, SameBooks
  <2> HIDE DEF d, v
  <2>3. e.to = v /\ e.frames = <<>>
    BY <2>1
  <2>4. LetsPass(m, e, text, clip.text)
    BY <1>1, <1>3, <1>8, <2>2, <2>3, Zenon DEF LetsPass
  <2>5. QED
    BY <1>1, <1>3, <1>8, <2>2, <2>3, <2>4, Zenon
<1>9. QED
  BY <1>5, <1>6, <1>7, <1>8

LEMMA FeedBooks ==
    ASSUME turn \in Turns, NEW m, Locals(turn, m), NEW g \in Guard(turn, m.account),
           NEW text \in TextOf(turn, m.account), text # <<>>, g.released => g.pending = <<>>,
           NEW fed, fed = Feed(g, text)
    PROVE  /\ g.released => fed.guard = g /\ ~fed.held
           /\ fed.held => /\ fed.out = <<>> /\ fed.guard.pending = g.pending \o text
                          /\ ~fed.guard.released /\ ~g.released
           /\ ~fed.held => fed.out = g.pending \o text /\ fed.guard = FreeGuard
<1>1. /\ text \in Seq(AnyPiece) /\ g.pending \in Seq(AnyPiece) /\ g.released \in BOOLEAN
      /\ g = [pending |-> g.pending, released |-> g.released]
  BY TextTypesOf DEF Guard
<1>2. CASE g.released
  <2>1. fed = [guard |-> g, out |-> text, held |-> FALSE]
    BY <1>2 DEF Feed
  <2>2. g.pending \o text = text
    BY <1>1, <1>2, ConcatEmptySeq
  <2>3. g = FreeGuard
    BY <1>1, <1>2 DEF FreeGuard
  <2>4. QED
    BY <1>2, <2>1, <2>2, <2>3
<1>3. CASE ~g.released /\ IsPrefix(Parts(g.pending \o text), Overload)
  <2>1. fed = [guard |-> [g EXCEPT !.pending = g.pending \o text], out |-> <<>>, held |-> TRUE]
    BY <1>3 DEF Feed
  <2> DEFINE all == g.pending \o text
             h == [g EXCEPT !.pending = all]
  <2>2. /\ fed.guard.pending = g.pending \o text /\ fed.guard.released = FALSE
        /\ fed.out = <<>> /\ fed.held = TRUE
    <3> HIDE DEF all
    <3>1. h.pending = all /\ h.released = FALSE
      BY <1>1, <1>3
    <3> HIDE DEF h
    <3>2. fed.guard = h /\ fed.out = <<>> /\ fed.held = TRUE
      BY <2>1 DEF h, all
    <3>3. QED
      BY <3>1, <3>2, Zenon DEF all
  <2>3. QED
    BY <1>3, <2>2, Zenon
<1>4. CASE ~g.released /\ ~IsPrefix(Parts(g.pending \o text), Overload)
  <2>1. fed = [guard |-> FreeGuard, out |-> g.pending \o text, held |-> FALSE]
    BY <1>4, SMTT(30) DEF Feed, FreeGuard
  <2>2. QED
    BY <1>4, <2>1
<1>5. QED
  BY <1>1, <1>2, <1>3, <1>4

\* What writing a delta has let through, and what it holds back.
Passed(m, text, e) ==
    /\ SameBooks(m, e.to)
    /\ e.to.guard.released => e.to.guard.pending = <<>>
    /\ m.guard.released => e.to.guard = m.guard
    /\ (m.delivered # <<>> => m.guard.released) =>
          (e.to.delivered # <<>> => e.to.guard.released)
    /\ m.reached => e.to.reached
    /\ ~e.to.reached =>
          e.to.delivered \o e.to.guard.pending = (m.delivered \o m.guard.pending) \o text
    /\ \E s : LetsPass(m, e, m.guard.pending \o text, s)

LEMMA EmitBooks ==
    ASSUME turn \in Turns, NEW m, Locals(turn, m),
           NEW text \in TextOf(turn, m.account), text # <<>>,
           m.guard.released => m.guard.pending = <<>>,
           NEW e, e = EmitDelta(m, text)
    PROVE  Passed(m, text, e)
<1> USE DEF Passed
<1> DEFINE fed == Feed(m.guard, text)
           g == [m EXCEPT !.guard = fed.guard]
           all == m.guard.pending \o text
<1>1. /\ m \in MeOf(turn, m.account) /\ m.delivered \in Seq(AnyPiece)
      /\ m.guard.pending \in Seq(AnyPiece) /\ text \in Seq(AnyPiece) /\ m.reached \in BOOLEAN
  BY TextTypesOf
<1>2. m.guard \in Guard(turn, m.account)
  BY <1>1 DEF MeOf
<1>3. /\ m.guard.released => fed.guard = m.guard /\ ~fed.held
      /\ fed.held => /\ fed.out = <<>> /\ fed.guard.pending = all
                     /\ ~fed.guard.released /\ ~m.guard.released
      /\ ~fed.held => fed.out = all /\ fed.guard = FreeGuard
  BY <1>2, FeedBooks
<1>4. fed.guard \in Guard(turn, m.account) /\ fed.out \in TextOf(turn, m.account)
      /\ (~fed.held => fed.out # <<>>) /\ fed.held \in BOOLEAN
  BY <1>2, FeedTypes
<1> HIDE DEF fed
<1>5. /\ SameBooks(m, g) /\ g.guard = fed.guard /\ g.delivered = m.delivered
      /\ g.reached = m.reached /\ Locals(turn, g)
  BY <1>1, <1>4 DEF MeOf, SameBooks, Locals
<1>6. m.delivered \o <<>> = m.delivered /\ <<>> \in Seq(AnyPiece) /\ TextIn(<<>>) = <<>>
  BY <1>1, TextInOne, ConcatEmptySeq
<1>7. m.delivered \o all = (m.delivered \o m.guard.pending) \o text
  <2> DEFINE p == m.delivered
             q == m.guard.pending
  <2>1. p \in Seq(AnyPiece) /\ q \in Seq(AnyPiece)
    BY <1>1
  <2> HIDE DEF p, q
  <2>2. p \o (q \o text) = (p \o q) \o text
    BY <1>1, <2>1, SMTT(30)
  <2>3. QED
    BY <2>2 DEF p, q
<1> HIDE DEF all
<1>8. CASE m.reached
  <2>1. e = [to |-> m, frames |-> <<>>]
    BY <1>8 DEF EmitDelta
  <2>2. e.to = m /\ e.frames = <<>> /\ StaysARun(all, <<>>) /\ SameBooks(m, m)
    BY <2>1, RunEmpty DEF StaysARun, SameBooks
  <2>3. LetsPass(m, e, all, <<>>)
    BY <1>6, <2>2, Zenon DEF LetsPass
  <2>4. QED
    BY <1>8, <2>2, <2>3, Zenon DEF all
<1>9. CASE ~m.reached /\ fed.held
  <2>1. e = [to |-> g, frames |-> <<>>]
    BY <1>9 DEF EmitDelta, fed
  <2> HIDE DEF g
  <2>2. e.to = g /\ e.frames = <<>> /\ StaysARun(all, <<>>)
    BY <2>1, RunEmpty DEF StaysARun
  <2>3. LetsPass(m, e, all, <<>>)
    BY <1>5, <1>6, <2>2, Zenon DEF LetsPass
  <2>4. /\ e.to.guard.pending = all /\ ~e.to.guard.released /\ ~m.guard.released
        /\ e.to.delivered = m.delivered /\ SameBooks(m, e.to)
    BY <1>3, <1>5, <1>9, <2>2, Zenon
  <2>5. QED
    BY <1>7, <1>9, <2>3, <2>4, Zenon DEF all
<1>10. CASE ~m.reached /\ ~fed.held
  <2>1. e = Delivered(g, fed.out)
    BY <1>10 DEF EmitDelta, fed
  <2> HIDE DEF g
  <2>2. /\ SameBooks(g, e.to) /\ e.to.guard = g.guard
        /\ ~e.to.reached => e.to.delivered = g.delivered \o fed.out
        /\ \E s : LetsPass(g, e, fed.out, s)
    <3>1. g.account = m.account
      BY <1>5 DEF SameBooks
    <3>2. fed.out \in TextOf(turn, g.account) /\ fed.out # <<>>
      BY <1>4, <1>10, <3>1
    <3> DEFINE out == fed.out
    <3> HIDE DEF out
    <3>3. out \in TextOf(turn, g.account) /\ out # <<>> /\ e = Delivered(g, out) /\ Locals(turn, g)
      BY <1>5, <2>1, <3>2, Zenon DEF out
    <3>4. /\ SameBooks(g, e.to) /\ e.to.guard = g.guard
          /\ ~e.to.reached => e.to.delivered = g.delivered \o out
          /\ \E s : LetsPass(g, e, out, s)
      BY <3>3, DeliveredBooks, SMTT(30)
    <3>5. QED
      BY <3>4, Zenon DEF out
  <2>3. PICK s : LetsPass(g, e, fed.out, s)
    BY <2>2
  <2>4. LetsPass(m, e, all, s)
    BY <1>3, <1>5, <1>10, <2>3, Zenon DEF LetsPass
  <2>5. SameBooks(m, e.to)
    BY <1>5, <2>2 DEF SameBooks
  <2>6. e.to.guard = FreeGuard
    BY <1>3, <1>5, <1>10, <2>2
  <2>7. ~e.to.reached => e.to.delivered \o e.to.guard.pending = m.delivered \o all
    <3>1. SUFFICES ASSUME ~e.to.reached
                   PROVE  e.to.delivered \o e.to.guard.pending = m.delivered \o all
      OBVIOUS
    <3>2. e.to.delivered = m.delivered \o all
      BY <1>3, <1>5, <1>10, <2>2, <3>1
    <3>3. e.to.delivered \in Seq(AnyPiece)
      BY <1>1, <3>2, Concats DEF all
    <3>4. QED
      BY <2>6, <3>2, <3>3, ConcatEmptySeq DEF FreeGuard
  <2>8. QED
    <3>1. /\ e.to.guard.pending = <<>> /\ e.to.guard.released
          /\ m.guard.released => e.to.guard = m.guard
      BY <1>3, <1>5, <1>10, <2>2, <2>6 DEF FreeGuard
    <3>2. QED
      BY <1>7, <1>10, <2>4, <2>5, <2>7, <3>1, Zenon DEF all
<1>11. QED
  BY <1>1, <1>4, <1>8, <1>9, <1>10

---------------------------------------------------------------------------
(* What a step has to show of the text.                                    *)

\* The handler's books, without the place it is at.
SameText(m, n) ==
    /\ n.account = m.account /\ n.told = m.told /\ n.said = m.said /\ n.guard = m.guard
    /\ n.tail = m.tail /\ n.delivered = m.delivered /\ n.result = m.result
    /\ n.failure = m.failure /\ n.gap = m.gap /\ n.reached = m.reached
    /\ n.incomplete = m.incomplete

\* What the steps of the handler start from, and what they have to show.
Telling == Ready /\ After(me', wire') /\ TextOK(turn, Here, me, wire)

\* A turn loses no account and no gap is forgotten.
Onward(m, n) == Clear(turn, n) => Clear(turn, m)

Tells ==
    /\ Onward(me, me')
    /\ ~Here => wire' = wire
    /\ Here /\ Clear(turn, me') => Books(turn, me', wire') /\ OneAnswer(me', wire')

LEMMA OpenIsText ==
    ASSUME turn \in Turns, NEW a \in {1, 2}, NEW w, w \in Open(turn, a)
    PROVE  w \in Seq(AnyFrame) /\ ~Stopped(w)
<1>1. turn \in Turn
  BY TurnAssumption
<1>2. TextOf(turn, a) \subseteq Seq(AnyPiece)
  BY <1>1, TextTypes
<1>3. ASSUME NEW f \in OpenFrame(turn, a) PROVE f \in AnyFrame /\ f.kind # "stop"
  <2>1. CASE f = Frame("call")
    BY <2>1, EmptySeq DEF AnyFrame, Frame
  <2>2. CASE f \in TextFrame(turn, a)
    <3> DEFINE S == TextOf(turn, a)
    <3>1. f \in [kind : {"text"}, text : S] /\ S \subseteq Seq(AnyPiece)
      BY <1>2, <2>2 DEF TextFrame
    <3> HIDE DEF S
    <3>2. f = [kind |-> "text", text |-> f.text] /\ f.text \in Seq(AnyPiece)
      BY <3>1
    <3>3. QED
      BY <3>2 DEF AnyFrame
  <2>3. QED
    BY <2>1, <2>2 DEF OpenFrame
<1> DEFINE S == OpenFrame(turn, a)
<1>4. w \in Seq(S) /\ S \subseteq AnyFrame
  BY <1>3 DEF Open
<1>5. \A f \in S : f.kind # "stop"
  BY <1>3
<1> HIDE DEF S
<1>6. \A i \in DOMAIN w : w[i] \in S
  BY <1>4
<1>7. QED
  BY <1>4, <1>5, <1>6, SeqMonotonic DEF Stopped

(* A handler whose client has left keeps what it was told to say.          *)
LEMMA TellsKeeps ==
    ASSUME turn \in Turns, ~Stopped(wire), TextOK(turn, Here, me, wire), Tells
    PROVE  TextOK(turn, Here, me', wire')
<1>1. CASE ~Here
  BY <1>1 DEF Tells, Onward, TextOK, OneAnswer
<1>2. CASE Here
  BY <1>2 DEF Tells, TextOK
<1>3. QED
  BY <1>1, <1>2

LEMMA RunIsOneText ==
    ASSUME NEW w, \/ TextIn(w) = <<>>
                  \/ \E b \in {1, 2} : Run(TextIn(w), b, 0)
    PROVE  OneText(w)
<1>1. CASE TextIn(w) = <<>>
  <2>1. Run(TextIn(w), 0, 0)
    BY <1>1, RunEmpty
  <2>2. 0 \in 0..2
    OBVIOUS
  <2>3. QED
    BY <2>1, <2>2, Zenon DEF OneText
<1>2. CASE \E b \in {1, 2} : Run(TextIn(w), b, 0)
  <2>1. \A b \in {1, 2} : b \in 0..2
    OBVIOUS
  <2>2. QED
    BY <1>2, <2>1, Zenon DEF OneText
<1>3. QED
  BY <1>1, <1>2

(* Before its ending, the wire of a stream holds what was delivered, and any other holds nothing. *)
LEMMA BooksAreOneText ==
    ASSUME turn \in Turns, NEW m, MeOK(turn, Here, m), NEW w, WireOK(turn, Here, m, w),
           Books(turn, m, w),
           m.pc \notin Over, turn.stream => m.pc \notin {"save answer", "conclude"}
    PROVE  OneAnswer(m, w)
<1>1. /\ m.account \in {1, 2} /\ Locals(turn, m) /\ w \in Open(turn, m.account)
      /\ m.pc \in Deciding => w = <<>>
      /\ m.pc \in Deciding \cup {"answer"} \cup Answered
  BY DEF MeOK, Locals, WireOK, MeOf
<1>2. ~Stopped(w)
  BY <1>1, OpenIsText
<1>3. OneText(w)
  <2>1. CASE m.pc \in Deciding \/ ~turn.stream
    <3>1. TextIn(w) = <<>>
      BY <1>1, <2>1, TextInOne DEF Books, PlainBooks
    <3>2. QED
      BY <3>1, RunIsOneText, Zenon
  <2>2. CASE m.pc \notin Deciding /\ turn.stream
    <3>1. /\ Run(m.delivered, m.account, 0)
          /\ TextIn(w) = IF turn.tools THEN <<>> ELSE m.delivered
      <4>1. m.pc \in {"answer", "settle", "resume", "continue", "finish"}
        BY <1>1, <2>2 DEF Answered
      <4>2. QED
        BY <2>2, <4>1 DEF Books, StreamBooks
    <3>2. Run(TextIn(w), m.account, 0)
      BY <3>1, RunEmpty
    <3>3. QED
      BY <1>1, <3>2, RunIsOneText, Zenon
  <2>3. QED
    BY <2>1, <2>2
<1>4. QED
  BY <1>2, <1>3 DEF OneAnswer

(* A turn that is over has no books any more.                              *)
LEMMA OverBooks ==
    ASSUME NEW m, NEW w, m.pc \in Over
    PROVE  Books(turn, m, w)
<1>1. m.pc \in {"ended", "returned"}
  BY DEF Over
<1>2. StreamBooks(turn, m, w)
  BY <1>1 DEF StreamBooks
<1>3. PlainBooks(m, w)
  BY <1>1 DEF PlainBooks
<1>4. m.pc \notin Deciding
  BY <1>1 DEF Deciding
<1>5. QED
  BY <1>2, <1>3, <1>4 DEF Books

LEMMA StoppedConcat ==
    ASSUME NEW w \in Seq(AnyFrame), NEW u \in Seq(AnyFrame)
    PROVE  Stopped(w \o u) => Stopped(w) \/ Stopped(u)
<1> DEFINE x == w \o u
<1>1. /\ DOMAIN w = 1..Len(w) /\ DOMAIN u = 1..Len(u) /\ DOMAIN x = 1..Len(w) + Len(u)
      /\ Len(w) \in Nat /\ Len(u) \in Nat
      /\ \A i \in 1..Len(w) : x[i] = w[i]
      /\ \A i \in 1..Len(u) : x[Len(w) + i] = u[i]
  BY ConcatProperties, LenProperties
<1> HIDE DEF x
<1>2. ASSUME NEW i \in DOMAIN x, x[i].kind = "stop" PROVE Stopped(w) \/ Stopped(u)
  <2>1. CASE i <= Len(w)
    BY <1>1, <1>2, <2>1 DEF Stopped
  <2>2. CASE i > Len(w)
    <3>1. i - Len(w) \in 1..Len(u) /\ x[i] = u[i - Len(w)]
      BY <1>1, <2>2
    <3>2. QED
      BY <1>1, <1>2, <3>1 DEF Stopped
  <2>3. QED
    BY <1>1, <2>1, <2>2
<1>3. QED
  BY <1>2 DEF Stopped, x

(* The ending says nothing more.                                           *)
LEMMA CloseIsWordless ==
    ASSUME NEW kind \in EndingKinds
    PROVE  /\ Close(turn, kind) \in Seq(AnyFrame) /\ TextIn(Close(turn, kind)) = <<>>
           /\ Stopped(Close(turn, kind)) => kind = "stop"
<1> DEFINE f == Frame(kind)
           g == Frame("done")
<1>1. /\ f \in AnyFrame /\ f.text = <<>> /\ f.kind = kind
      /\ g \in AnyFrame /\ g.text = <<>> /\ g.kind = "done"
  BY EmptySeq DEF Frame, AnyFrame
<1>2. Close(turn, kind) = IF turn.stream THEN <<f, g>> ELSE <<f>>
  BY DEF Close
<1> HIDE DEF f, g
<1>3. <<f>> \in Seq(AnyFrame) /\ TextIn(<<f>>) = <<>> /\ (Stopped(<<f>>) => kind = "stop")
  BY <1>1, TextInOne DEF Stopped
<1>4. <<g>> \in Seq(AnyFrame) /\ TextIn(<<g>>) = <<>> /\ ~Stopped(<<g>>)
  BY <1>1, TextInOne DEF Stopped
<1>5. <<f, g>> = <<f>> \o <<g>>
  BY TwoFrames
<1>6. <<f>> \o <<g>> \in Seq(AnyFrame) /\ (Stopped(<<f>> \o <<g>>) => kind = "stop")
  BY <1>3, <1>4, Concats, StoppedConcat
<1>7. TextIn(<<f>> \o <<g>>) = <<>>
  <2>1. TextIn(<<f>> \o <<g>>) = TextIn(<<f>>) \o TextIn(<<g>>)
    BY <1>3, <1>4, TextInConcat
  <2>2. <<>> \o <<>> = <<>>
    BY EmptySeq, ConcatEmptySeq
  <2>3. QED
    BY <1>3, <1>4, <2>1, <2>2
<1>8. QED
  BY <1>2, <1>3, <1>5, <1>6, <1>7, Zenon

(* What stands before the ending is all that was said.                     *)
LEMMA ClosedText ==
    ASSUME NEW w \in Seq(AnyFrame), ~Stopped(w), NEW kind \in EndingKinds
    PROVE  /\ TextIn(w \o Close(turn, kind)) = TextIn(w)
           /\ Stopped(w \o Close(turn, kind)) => kind = "stop"
<1> DEFINE c == Close(turn, kind)
<1>1. c \in Seq(AnyFrame) /\ TextIn(c) = <<>> /\ (Stopped(c) => kind = "stop")
  BY CloseIsWordless
<1> HIDE DEF c
<1>2. TextIn(w \o c) = TextIn(w) \o TextIn(c) /\ TextIn(w) \in Seq(AnyPiece)
  BY <1>1, TextInConcat
<1>3. TextIn(w) \o <<>> = TextIn(w)
  BY <1>2, ConcatEmptySeq
<1>4. Stopped(w \o c) => kind = "stop"
  BY <1>1, StoppedConcat
<1>5. QED
  BY <1>1, <1>2, <1>3, <1>4 DEF c

LEMMA TellingFacts ==
    ASSUME Telling, Onward(me, me'), Clear(turn, me')
    PROVE  OneText(wire) /\ (Here => Books(turn, me, wire)) /\ Clear(turn, me)
BY DEF Telling, Onward, TextOK, OneAnswer

LEMMA OpenIsOneAnswer ==
    ASSUME turn \in Turns, NEW m, MeOK(turn, Here, m), NEW w, WireOK(turn, Here, m, w),
           m.pc \notin Over, OneText(w)
    PROVE  OneAnswer(m, w)
<1>1. m.account \in {1, 2} /\ w \in Open(turn, m.account)
  BY DEF MeOK, Locals, WireOK
<1>2. ~Stopped(w)
  BY <1>1, OpenIsText
<1>3. QED
  BY <1>2 DEF OneAnswer

LEMMA EndedText ==
    ASSUME turn \in Turns, NEW m, Locals(turn, m)
    PROVE  /\ Ended(m).pc = "ended" /\ Ended(m).account = m.account /\ Ended(m).told = m.told
           /\ Ended(m).gap = m.gap /\ Ended(m).pc \in Over
<1> DEFINE d == Done(m, "ended")
<1>1. m \in MeOf(turn, m.account)
  BY DEF Locals
<1>2. d.pc = "ended" /\ d.account = m.account /\ d.told = m.told /\ d.gap = m.gap
  BY <1>1, ZenonT(60) DEF Done, MeOf
<1>3. Locals(turn, d)
  BY DoneTypes DEF Over
<1>4. Ended(m) = [d EXCEPT !.conversation = NoConversation, !.reached = FALSE, !.incomplete = FALSE,
                           !.result = NoResult, !.failure = "none", !.switched = FALSE]
  BY DEF Ended
<1> HIDE DEF d
<1>5. d \in MeOf(turn, d.account)
  BY <1>3 DEF Locals
<1> DEFINE e == Ended(m)
<1>6. e.pc = d.pc /\ e.account = d.account /\ e.told = d.told /\ e.gap = d.gap
  BY <1>4, <1>5, ZenonT(60) DEF MeOf
<1>7. QED
  BY <1>2, <1>6 DEF Over

(* A turn that fails says no more.                                         *)
LEMMA FailsTells ==
    ASSUME turn \in Turns, NEW m, Locals(turn, m), wire \in Open(turn, m.account),
           FailsWith(m)
    PROVE  /\ me'.account = m.account /\ me'.gap = m.gap /\ me'.told = m.told
           /\ ~Here => wire' = wire
           /\ Books(turn, me', wire')
           /\ OneText(wire) => OneAnswer(me', wire')
<1> DEFINE c == Close(turn, "error")
<1>1. /\ me' = Ended(m)
      /\ wire' = IF Here THEN wire \o c ELSE wire
  BY EndingIsClose DEF FailsWith, Send
<1>2. /\ me'.pc \in Over /\ me'.account = m.account /\ me'.gap = m.gap /\ me'.told = m.told
  BY <1>1, EndedText
<1>3. m.account \in {1, 2}
  BY DEF Locals
<1>4. wire \in Seq(AnyFrame) /\ ~Stopped(wire)
  BY <1>3, OpenIsText
<1>5. TextIn(wire \o c) = TextIn(wire) /\ (Stopped(wire \o c) => "error" = "stop")
  BY <1>4, ClosedText DEF EndingKinds
<1> HIDE DEF c
<1>6. TextIn(wire') = TextIn(wire) /\ ~Stopped(wire')
  BY <1>1, <1>4, <1>5
<1>7. OneText(wire) => OneAnswer(me', wire')
  BY <1>6 DEF OneText, OneAnswer
<1>8. Books(turn, me', wire')
  BY <1>2, OverBooks
<1>9. QED
  BY <1>1, <1>2, <1>7, <1>8

LEMMA GoesText ==
    ASSUME turn \in Turns, NEW m, Locals(turn, m), NEW pc
    PROVE  SameText(m, Goes(m, pc)) /\ Goes(m, pc).pc = pc
BY DEF SameText, Goes, Locals, MeOf

LEMMA CutText ==
    ASSUME turn \in Turns, NEW m, Locals(turn, m)
    PROVE  LET n == [m EXCEPT !.cut = TRUE] IN SameText(m, n) /\ n.pc = m.pc
BY DEF SameText, Locals, MeOf

(* An answer starts with nothing said.                                     *)
LEMMA StartsAnswer ==
    ASSUME turn \in Turns, NEW m, Locals(turn, m), m.pc = "answer", m.told = 0, m.said = <<>>,
           m.delivered = <<>>, m.guard = EmptyGuard, m.tail = EmptyGuard
    PROVE  Books(turn, m, <<>>)
<1>1. m.pc \notin Deciding /\ m.pc \notin Over
  BY DEF Deciding, Over
<1>2. TextIn(<<>>) = <<>> /\ Run(<<>>, m.account, 0) /\ Len(<<>>) = 0 /\ <<>> \o <<>> = <<>>
  BY TextInOne, RunEmpty, EmptySeq, ConcatEmptySeq
<1>3. m.guard.pending = <<>> /\ ~m.guard.released /\ m.tail.pending = <<>>
  BY DEF EmptyGuard
<1>4. Kept(m) = <<>>
  BY <1>2, <1>3 DEF Kept
<1>5. Answering(m)
  BY <1>2, <1>3, <1>4 DEF Answering, GuardOK
<1>6. StreamBooks(turn, m, <<>>)
  BY <1>2, <1>5 DEF StreamBooks
<1>7. PlainBooks(m, <<>>)
  BY <1>2 DEF PlainBooks
<1>8. QED
  BY <1>1, <1>6, <1>7 DEF Books

---------------------------------------------------------------------------
(* The tool router.                                                        *)

LEMMA DecidedTells ==
    ASSUME turn \in Turns, NEW m, MeOK(turn, Here, m), m.pc \in {"route", "repair", "require"},
           wire = <<>>, NEW decision, Decided(m, decision), After(me', wire')
    PROVE  /\ me'.account = m.account /\ me'.gap = m.gap
           /\ ~Here => wire' = wire
           /\ m.told = 0 => Books(turn, me', wire') /\ OneAnswer(me', wire')
<1>1. /\ Locals(turn, m) /\ Untouched(m) /\ m.account \in {1, 2}
  BY DEF MeOK, Deciding, Locals
<1>2. wire \in Open(turn, m.account) /\ OneText(wire)
  BY TextInOne, RunIsOneText DEF Open
<1>3. CASE FailsWith(m)
  BY <1>1, <1>2, <1>3, FailsTells
<1>4. ASSUME NEW pc \in {"save calls", "repair", "require", "answer"},
             me' = Goes(m, pc), UNCHANGED wire
      PROVE  /\ me'.account = m.account /\ me'.gap = m.gap
             /\ ~Here => wire' = wire
             /\ m.told = 0 => Books(turn, me', wire') /\ OneAnswer(me', wire')
  <2>1. SameText(m, me') /\ me'.pc = pc
    BY <1>1, <1>4, GoesText
  <2>2. MeOK(turn, Here, me') /\ WireOK(turn, Here, me', wire') /\ Locals(turn, me')
    BY DEF After, MeOK
  <2>3. ASSUME m.told = 0 PROVE Books(turn, me', wire')
    <3>1. me'.told = 0 /\ me'.said = <<>> /\ me'.delivered = <<>> /\ me'.guard = EmptyGuard
          /\ me'.tail = EmptyGuard
      BY <1>1, <2>1, <2>3 DEF SameText, Untouched
    <3>2. CASE pc = "answer"
      <4>1. Books(turn, me', <<>>)
        BY <2>1, <2>2, <3>1, <3>2, StartsAnswer
      <4>2. QED
        BY <1>4, <4>1
    <3>3. CASE pc # "answer"
      <4>1. me'.pc \in {"save calls", "repair", "require"}
        BY <2>1, <3>3
      <4>2. TextIn(wire') = <<>>
        BY <1>4, TextInOne
      <4>3. QED
        BY <3>1, <4>1, <4>2 DEF Books, StreamBooks, PlainBooks
    <3>4. QED
      BY <3>2, <3>3
  <2>4. me'.pc \notin Over /\ me'.pc \notin {"save answer", "conclude"}
    BY <2>1 DEF Over
  <2>5. ASSUME m.told = 0 PROVE OneAnswer(me', wire')
    BY <2>2, <2>3, <2>4, <2>5, BooksAreOneText
  <2>6. QED
    BY <1>4, <2>1, <2>3, <2>5 DEF SameText
<1>5. QED
  BY <1>3, <1>4 DEF Decided

LEMMA RouterDecidesTells ==
    ASSUME Telling, NEW d, RouterDecides(d)
    PROVE  Tells
<1>1. /\ turn \in Turns /\ MeOK(turn, Here, me) /\ WireOK(turn, Here, me, wire)
      /\ me.pc \in {"route", "repair", "require"} /\ Decided(me, d) /\ After(me', wire')
  BY DEF Telling, Ready, RouterDecides, Routing
<1>2. me.pc \in Deciding /\ wire = <<>>
  BY <1>1 DEF WireOK, Deciding
<1>3. /\ me'.account = me.account /\ me'.gap = me.gap
      /\ ~Here => wire' = wire
      /\ me.told = 0 => Books(turn, me', wire') /\ OneAnswer(me', wire')
  BY <1>1, <1>2, DecidedTells
<1>4. Onward(me, me')
  BY <1>3 DEF Onward, Clear
<1>5. ASSUME Here, Clear(turn, me') PROVE me.told = 0
  BY <1>2, <1>4, <1>5, TellingFacts DEF Books
<1>6. QED
  BY <1>3, <1>4, <1>5 DEF Tells

LEMMA RouterFailsTells ==
    ASSUME Telling, NEW failure, RouterFails(failure)
    PROVE  Tells
<1>1. /\ turn \in Turns /\ MeOK(turn, Here, me) /\ WireOK(turn, Here, me, wire)
      /\ me.pc \in {"route", "repair", "require"} /\ After(me', wire') /\ Locals(turn, me)
      /\ MeOK(turn, Here, me') /\ WireOK(turn, Here, me', wire') /\ Locals(turn, me')
  BY DEF Telling, Ready, RouterFails, Routing, After, MeOK
<1>2. me.pc \in Deciding /\ wire = <<>>
  BY <1>1 DEF WireOK, Deciding
<1>3. PICK a \in ActivateNextAccount(me, failure, NoResult, FALSE) :
         CASE a.moved -> me' = a.to /\ UNCHANGED wire
           [] ~a.moved /\ me.pc = "route" -> FailsWith(a.to)
           [] OTHER -> Decided(a.to, "invalid")
  BY DEF RouterFails
<1>4. CASE a.moved = FALSE /\ a.to \in {me, [me EXCEPT !.cut = TRUE]}
  <2>1. /\ MeOK(turn, Here, a.to) /\ Locals(turn, a.to) /\ a.to.pc = me.pc
        /\ a.to.told = me.told /\ a.to.account = me.account /\ a.to.gap = me.gap
    <3>1. CASE a.to = me
      BY <1>1, <3>1
    <3>2. CASE a.to = [me EXCEPT !.cut = TRUE]
      <4> DEFINE n == [me EXCEPT !.cut = TRUE]
      <4>1. /\ Locals(turn, n) /\ MeOK(turn, Here, n) /\ SameText(me, n) /\ n.pc = me.pc
        BY <1>1, CutFields, CutText
      <4> HIDE DEF n
      <4>2. QED
        BY <3>2, <4>1 DEF SameText, n
    <3>3. QED
      BY <1>4, <3>1, <3>2
  <2>2. /\ me'.account = a.to.account /\ me'.gap = a.to.gap
        /\ ~Here => wire' = wire
        /\ a.to.told = 0 => Books(turn, me', wire') /\ OneAnswer(me', wire')
    <3>1. CASE FailsWith(a.to)
      <4>1. wire \in Open(turn, a.to.account) /\ OneText(wire)
        BY <1>2, TextInOne, RunIsOneText DEF Open
      <4>2. QED
        BY <1>1, <2>1, <3>1, <4>1, FailsTells
    <3>2. CASE Decided(a.to, "invalid")
      BY <1>1, <1>2, <2>1, <3>2, DecidedTells
    <3>3. QED
      BY <1>3, <1>4, <3>1, <3>2
  <2>3. Onward(me, me')
    BY <2>1, <2>2 DEF Onward, Clear
  <2>4. ASSUME Here, Clear(turn, me') PROVE me.told = 0
    BY <1>2, <2>3, <2>4, TellingFacts DEF Books
  <2>5. QED
    BY <2>1, <2>2, <2>3, <2>4 DEF Tells
<1>5. CASE /\ a.moved = TRUE
           /\ a.to = [me EXCEPT !.account = 2, !.switched = TRUE,
                                !.conversation = NoConversation, !.told = 0]
  <2>1. /\ me' = [me EXCEPT !.account = 2, !.switched = TRUE,
                            !.conversation = NoConversation, !.told = 0]
        /\ wire' = wire
    BY <1>3, <1>5
  <2>2. me'.told = 0 /\ me'.pc = me.pc /\ me'.gap = me.gap /\ me'.account = 2
    <3>1. me \in MeOf(turn, me.account)
      BY <1>1 DEF Locals
    <3>2. QED
      BY <2>1, <3>1 DEF MeOf
  <2>3. Onward(me, me')
    BY <2>2 DEF Onward, Clear
  <2>4. TextIn(wire') = <<>>
    BY <1>2, <2>1, TextInOne
  <2>5. Books(turn, me', wire')
    BY <1>1, <2>2, <2>4 DEF Books, StreamBooks, PlainBooks
  <2>6. me'.pc \notin Over /\ me'.pc \notin {"save answer", "conclude"}
    BY <1>1, <2>2 DEF Over
  <2>7. OneAnswer(me', wire')
    BY <1>1, <2>5, <2>6, BooksAreOneText
  <2>8. QED
    BY <2>1, <2>3, <2>5, <2>7 DEF Tells
<1>6. \/ a.moved = FALSE /\ a.to \in {me, [me EXCEPT !.cut = TRUE]}
      \/ /\ a.moved = TRUE
         /\ a.to = [me EXCEPT !.account = 2, !.switched = TRUE,
                              !.conversation = NoConversation, !.told = 0]
  BY DEF ActivateNextAccount, ShouldFailoverAccount
<1>7. QED
  BY <1>4, <1>5, <1>6

---------------------------------------------------------------------------
(* The streamed answer.                                                    *)

LEMMA Associates ==
    ASSUME NEW x \in Seq(AnyPiece), NEW y \in Seq(AnyPiece), NEW z \in Seq(AnyPiece)
    PROVE  x \o (y \o z) = (x \o y) \o z
BY SMTT(30)

LEMMA NothingMore ==
    ASSUME NEW x \in Seq(AnyPiece)
    PROVE  x \o <<>> = x /\ <<>> \o x = x
BY ConcatEmptySeq

LEMMA LengthsAdd ==
    ASSUME NEW x \in Seq(AnyPiece), NEW y \in Seq(AnyPiece)
    PROVE  Len(x \o y) = Len(x) + Len(y) /\ Len(x) \in Nat /\ Len(y) \in Nat
BY Concats, LenProperties

LEMMA RunFromStart ==
    ASSUME NEW s \in Seq(AnyPiece), NEW u \in Seq(AnyPiece), NEW a
    PROVE  Run(s \o u, a, 0) <=> Run(s, a, 0) /\ Run(u, a, Len(s))
<1>1. Len(s) \in Nat
  BY LenProperties
<1>2. 0 + Len(s) = Len(s) /\ 0 \in Nat
  BY <1>1
<1>3. Run(s \o u, a, 0) <=> Run(s, a, 0) /\ Run(u, a, 0 + Len(s))
  BY <1>2, RunConcat
<1>4. QED
  BY <1>2, <1>3, Zenon

(* The client is sent what is delivered, and that is one run.              *)
LEMMA EmitRuns ==
    ASSUME turn \in Turns, Here, NEW m, Locals(turn, m), Writing(Here, m),
           NEW text \in TextOf(turn, m.account), text # <<>>,
           m.guard.released => m.guard.pending = <<>>,
           NEW e, e = EmitDelta(m, text), NEW a,
           Run(m.delivered, a, 0),
           ~m.reached => Run((m.delivered \o m.guard.pending) \o text, a, 0),
           NEW w \in Seq(AnyFrame), TextIn(w) = IF turn.tools THEN <<>> ELSE m.delivered
    PROVE  /\ Run(e.to.delivered, a, 0)
           /\ TextIn(w \o e.frames) = IF turn.tools THEN <<>> ELSE e.to.delivered
<1> DEFINE d == m.delivered
           all == m.guard.pending \o text
<1>1. /\ d \in Seq(AnyPiece) /\ m.guard.pending \in Seq(AnyPiece) /\ text \in Seq(AnyPiece)
      /\ turn \in Turn /\ m.account \in {1, 2}
  BY TextTypesOf
<1>2. all \in Seq(AnyPiece) /\ d \o all = (d \o m.guard.pending) \o text
  <2> DEFINE p == m.guard.pending
  <2>1. p \in Seq(AnyPiece)
    BY <1>1
  <2> HIDE DEF p, d
  <2>2. p \o text \in Seq(AnyPiece) /\ d \o (p \o text) = (d \o p) \o text
    BY <1>1, <2>1, Concats, Associates, SMTT(30)
  <2>3. QED
    BY <2>2 DEF p
<1>3. e.frames \in Seq(AnyFrame)
  <2>1. e.frames \in Seq(TextFrame(turn, m.account))
    BY EmitIsSpoken DEF Spoken
  <2>2. TextFrame(turn, m.account) \subseteq AnyFrame
    <3> DEFINE S == TextOf(turn, m.account)
    <3>1. S \subseteq Seq(AnyPiece)
      BY <1>1, TextTypes
    <3>2. TextFrame(turn, m.account) = [kind : {"text"}, text : S]
      BY DEF TextFrame
    <3> HIDE DEF S
    <3>3. QED
      BY <3>1, <3>2 DEF AnyFrame
  <2>3. QED
    BY <2>1, <2>2, SeqMonotonic
<1>4. TextIn(w \o e.frames) = TextIn(w) \o TextIn(e.frames)
  BY <1>3, TextInConcat
<1>5. <<>> \o <<>> = <<>> /\ d \o <<>> = d
  BY <1>1, NothingMore, EmptySeq
<1>6. CASE m.reached
  <2>1. e = [to |-> m, frames |-> <<>>]
    BY <1>6 DEF EmitDelta
  <2>2. e.to = m /\ e.frames = <<>> /\ TextIn(<<>>) = <<>>
    BY <2>1, TextInOne
  <2>3. TextIn(w \o e.frames) = TextIn(w) \o <<>>
    BY <1>4, <2>2
  <2>4. QED
    BY <1>5, <2>2, <2>3
<1>7. CASE ~m.reached
  <2>1. PICK s : LetsPass(m, e, all, s)
    <3>1. Passed(m, text, e)
      BY EmitBooks, ZenonT(30)
    <3>2. QED
      BY <3>1 DEF Passed
  <2>2. /\ s \in Seq(AnyPiece) /\ e.to.delivered = d \o s /\ StaysARun(all, s)
        /\ TextIn(e.frames) = IF turn.tools THEN <<>> ELSE s
    BY <2>1 DEF LetsPass
  <2>3. Run(d \o all, a, 0)
    BY <1>2, <1>7
  <2> HIDE DEF all, d
  <2>4. d \in Seq(AnyPiece) /\ all \in Seq(AnyPiece)
    BY <1>1, <1>2
  <2>5. Run(d, a, 0) /\ Run(all, a, Len(d))
    BY <2>3, <2>4, RunFromStart
  <2>6. Run(s, a, Len(d))
    BY <2>2, <2>5, Zenon DEF StaysARun
  <2>7. Run(d \o s, a, 0)
    BY <2>2, <2>4, <2>5, <2>6, RunFromStart
  <2>8. TextIn(w) = IF turn.tools THEN <<>> ELSE d
    BY DEF d
  <2>9. QED
    BY <1>4, <1>5, <2>2, <2>7, <2>8
<1>8. QED
  BY <1>6, <1>7

\* What saying text changes.
SaidMore(m, text, n) ==
    /\ n.account = m.account /\ n.gap = m.gap /\ n.guard = m.guard /\ n.tail = m.tail
    /\ n.delivered = m.delivered /\ n.result = m.result /\ n.failure = m.failure
    /\ n.reached = m.reached /\ n.incomplete = m.incomplete /\ n.pc = m.pc
    /\ n.said = m.said \o text /\ n.told = m.told + Len(text)

LEMMA SaysText ==
    ASSUME turn \in Turns, NEW m, Locals(turn, m), NEW text, NEW n, n = Says(m, text)
    PROVE  SaidMore(m, text, n)
<1>1. m \in MeOf(turn, m.account)
  BY DEF Locals
<1>2. QED
  BY <1>1, ZenonT(60) DEF Says, MeOf, SaidMore

LEMMA SpeaksOn ==
    ASSUME turn \in Turns, NEW m, Locals(turn, m), NEW parts \in Seq(Part),
           NEW k \in Nat, Run(m.said, m.account, k), k + Len(m.said) = m.told
    PROVE  LET text == Speak(m, parts)
           IN /\ Run(m.said \o text, m.account, k)
              /\ k + Len(m.said \o text) = m.told + Len(text)
              /\ Len(text) = Len(parts) /\ Run(text, m.account, m.told)
              /\ text \in TextOf(turn, m.account) /\ text \in Seq(AnyPiece)
<1> DEFINE text == Speak(m, parts)
<1>1. /\ text \in TextOf(turn, m.account) /\ text \in Seq(AnyPiece) /\ m.said \in Seq(AnyPiece)
      /\ Len(text) = Len(parts)
  BY SpeakTypes, TextTypesOf
<1>2. Run(text, m.account, m.told)
  BY SpeakRuns
<1> HIDE DEF text
<1>3. Run(m.said \o text, m.account, k)
  BY <1>1, <1>2, RunConcat
<1>4. Len(m.said \o text) = Len(m.said) + Len(text) /\ Len(m.said) \in Nat /\ Len(text) \in Nat
  <2> DEFINE s == m.said
  <2>1. s \in Seq(AnyPiece)
    BY <1>1
  <2> HIDE DEF s
  <2>2. text \in Seq(AnyPiece)
    BY <1>1
  <2>3. Len(s \o text) = Len(s) + Len(text) /\ Len(s) \in Nat /\ Len(text) \in Nat
    BY <2>1, <2>2, LengthsAdd, Zenon
  <2>4. QED
    BY <2>3 DEF s
<1>5. QED
  BY <1>1, <1>2, <1>3, <1>4, SMTT(30) DEF text

(* Writing a delta keeps what the turn was told, whatever the guard holds. *)
LEMMA EmitSameBooks ==
    ASSUME turn \in Turns, NEW m, Locals(turn, m),
           NEW text \in TextOf(turn, m.account), text # <<>>, NEW e, e = EmitDelta(m, text)
    PROVE  SameBooks(m, e.to)
<1> DEFINE fed == Feed(m.guard, text)
           g == [m EXCEPT !.guard = fed.guard]
<1>1. m \in MeOf(turn, m.account) /\ m.guard \in Guard(turn, m.account) /\ m.reached \in BOOLEAN
  BY DEF Locals, MeOf
<1>2. fed.guard \in Guard(turn, m.account) /\ fed.out \in TextOf(turn, m.account)
      /\ (~fed.held => fed.out # <<>>) /\ fed.held \in BOOLEAN
  BY <1>1, FeedTypes
<1> HIDE DEF fed
<1>3. SameBooks(m, g) /\ Locals(turn, g) /\ g.account = m.account
  BY <1>1, <1>2 DEF MeOf, SameBooks, Locals
<1>4. CASE m.reached
  <2>1. e.to = m
    BY <1>4 DEF EmitDelta
  <2>2. QED
    BY <2>1 DEF SameBooks
<1>5. CASE ~m.reached /\ fed.held
  <2>1. e = [to |-> g, frames |-> <<>>]
    BY <1>5 DEF EmitDelta, fed
  <2> HIDE DEF g
  <2>2. QED
    BY <1>3, <2>1
<1>6. CASE ~m.reached /\ ~fed.held
  <2>1. e = Delivered(g, fed.out)
    BY <1>6 DEF EmitDelta, fed
  <2> HIDE DEF g
  <2> DEFINE out == fed.out
  <2>2. out \in TextOf(turn, g.account) /\ out # <<>> /\ e = Delivered(g, out)
    BY <1>2, <1>3, <1>6, <2>1
  <2> HIDE DEF out
  <2>3. SameBooks(g, e.to)
    BY <1>3, <2>2, DeliveredBooks, SMTT(30)
  <2>4. QED
    BY <1>3, <2>3 DEF SameBooks
<1>7. QED
  BY <1>1, <1>2, <1>4, <1>5, <1>6

\* What the client may be told next, and what telling it does.
Sayable(m, text, w) ==
    /\ GuardOK(m) /\ Run(m.delivered, m.account, 0)
    /\ ~m.reached => Run((m.delivered \o m.guard.pending) \o text, m.account, 0)
    /\ TextIn(w) = IF turn.tools THEN <<>> ELSE m.delivered

Emits(m, text, e, w) ==
    /\ GuardOK(e.to) /\ Run(e.to.delivered, m.account, 0)
    /\ m.guard.released => e.to.guard = m.guard
    /\ m.reached => e.to.reached
    /\ ~e.to.reached =>
          e.to.delivered \o e.to.guard.pending = (m.delivered \o m.guard.pending) \o text
    /\ TextIn(w \o e.frames) = IF turn.tools THEN <<>> ELSE e.to.delivered

LEMMA Emitted ==
    ASSUME turn \in Turns, Here, NEW m, Locals(turn, m), Writing(Here, m),
           NEW text \in TextOf(turn, m.account), text # <<>>, NEW e, e = EmitDelta(m, text),
           NEW w \in Seq(AnyFrame), Sayable(m, text, w)
    PROVE  Emits(m, text, e, w)
<1>1. /\ m.guard.released => m.guard.pending = <<>>
      /\ m.delivered # <<>> => m.guard.released
      /\ Run(m.delivered, m.account, 0)
      /\ ~m.reached => Run((m.delivered \o m.guard.pending) \o text, m.account, 0)
      /\ TextIn(w) = IF turn.tools THEN <<>> ELSE m.delivered
  BY DEF Sayable, GuardOK
<1>2. /\ Run(e.to.delivered, m.account, 0)
      /\ TextIn(w \o e.frames) = IF turn.tools THEN <<>> ELSE e.to.delivered
  BY <1>1, EmitRuns, ZenonT(30)
<1>3. Passed(m, text, e)
  BY <1>1, EmitBooks, ZenonT(30)
<1>4. QED
  BY <1>1, <1>2, <1>3, Zenon DEF Emits, GuardOK, Passed

LEMMA AnswerDeltaTells ==
    ASSUME Telling, NEW part \in Part, AnswerDelta(part)
    PROVE  Tells
<1> DEFINE text == Speak(me, <<part>>)
           m == Says(me, text)
           e == EmitDelta(m, text)
           a == me.account
<1>1. /\ turn \in Turns /\ me.pc = "answer" /\ turn.stream /\ me' = e.to /\ Send(e.frames)
      /\ MeOK(turn, Here, me) /\ Locals(turn, me) /\ Writing(Here, me) /\ me.tail = EmptyGuard
      /\ wire \in Open(turn, a) /\ a \in {1, 2}
      /\ MeOK(turn, Here, me') /\ WireOK(turn, Here, me', wire')
  <2>1. MeOK(turn, Here, me) /\ me.pc = "answer" /\ turn.stream /\ me' = e.to /\ Send(e.frames)
        /\ turn \in Turns /\ WireOK(turn, Here, me, wire)
        /\ MeOK(turn, Here, me') /\ WireOK(turn, Here, me', wire')
    BY DEF AnswerDelta, Telling, Ready, After
  <2> HIDE DEF e
  <2>2. QED
    BY <2>1 DEF MeOK, WireOK, Over, Locals
<1>2. <<part>> \in Seq(Part) /\ <<part>> # <<>> /\ Len(<<part>>) = 1
  OBVIOUS
<1>3. text \in TextOf(turn, a) /\ text # <<>> /\ text \in Seq(AnyPiece) /\ Len(text) \in Nat
  <2>1. text \in TextOf(turn, a) /\ text # <<>>
    BY <1>1, <1>2, SpeakTypes
  <2>2. QED
    BY <1>1, <2>1, TextTypesOf, LenProperties
<1>4. /\ Locals(turn, m) /\ Writing(Here, m)
  <2> HIDE DEF text
  <2>1. QED
    BY <1>1, <1>3, SaysFields
<1>5. /\ m.account = a /\ m.gap = me.gap /\ m.guard = me.guard /\ m.tail = me.tail
      /\ m.delivered = me.delivered /\ m.reached = me.reached /\ m.pc = "answer"
      /\ m.said = me.said \o text /\ m.told = me.told + Len(text)
  <2>1. m = Says(me, text)
    OBVIOUS
  <2> HIDE DEF text, m
  <2>2. SaidMore(me, text, m)
    BY <1>1, <2>1, SaysText
  <2>3. QED
    BY <1>1, <2>2 DEF SaidMore
<1> HIDE DEF m
<1>6. SameBooks(m, e.to)
  <2> HIDE DEF text
  <2>1. QED
    BY <1>1, <1>3, <1>4, <1>5, EmitSameBooks
<1>7. Onward(me, me')
  <2> HIDE DEF e
  <2>1. QED
    BY <1>1, <1>5, <1>6 DEF Onward, Clear, SameBooks
<1>8. ASSUME Here, Clear(turn, me')
      PROVE  Books(turn, me', wire') /\ OneAnswer(me', wire')
  <2>1. /\ Answering(me) /\ Run(me.delivered, a, 0)
        /\ TextIn(wire) = IF turn.tools THEN <<>> ELSE me.delivered
    <3>1. Books(turn, me, wire)
      BY <1>7, <1>8, TellingFacts
    <3>2. QED
      BY <1>1, <3>1 DEF Books, StreamBooks
  <2> DEFINE kept == me.delivered \o me.guard.pending
  <2>2. /\ me.said \in Seq(AnyPiece) /\ me.told \in Nat /\ me.delivered \in Seq(AnyPiece)
        /\ me.guard.pending \in Seq(AnyPiece)
    BY <1>1, TextTypesOf
  <2>3. kept \in Seq(AnyPiece) /\ Kept(me) = kept /\ Len(kept) \in Nat
    <3>1. kept \in Seq(AnyPiece) /\ kept \o <<>> = kept
      BY <2>2, Concats, NothingMore
    <3>2. me.tail.pending = <<>>
      BY <1>1 DEF EmptyGuard
    <3>3. QED
      BY <3>1, <3>2, LenProperties DEF Kept
  <2>4. /\ Run(me.said \o text, a, 0) /\ Len(me.said \o text) = me.told + Len(text)
        /\ Run(text, a, me.told)
    <3>1. 0 \in Nat /\ Run(me.said, a, 0) /\ 0 + Len(me.said) = me.told
      BY <2>1, <2>2 DEF Answering
    <3>2. 0 + Len(me.said \o text) = me.told + Len(text) /\ Run(me.said \o text, a, 0)
          /\ Run(text, a, me.told)
      BY <1>1, <1>2, <3>1, SpeaksOn
    <3>3. Len(me.said \o text) \in Nat
      BY <1>3, <2>2, Concats, LenProperties
    <3>4. QED
      BY <3>2, <3>3
  <2> HIDE DEF text
  <2>5. ~me.reached => Run(kept \o text, a, 0) /\ Len(kept \o text) = me.told + Len(text)
    <3> HIDE DEF kept
    <3>1. SUFFICES ASSUME ~me.reached
                   PROVE  Run(kept \o text, a, 0) /\ Len(kept \o text) = me.told + Len(text)
      OBVIOUS
    <3>2. Run(kept, a, 0) /\ Len(kept) = me.told /\ 0 + Len(kept) = me.told
      BY <2>1, <2>2, <2>3, <3>1 DEF Answering
    <3>3. Run(kept \o text, a, 0)
      BY <1>3, <2>3, <2>4, <3>2, RunConcat
    <3>4. QED
      BY <1>3, <2>3, <3>2, <3>3, Concats
  <2>6. wire' = wire \o e.frames
    BY <1>1, <1>8 DEF Send
  <2>7. me.guard.released => me.guard.pending = <<>>
    BY <2>1 DEF Answering, GuardOK
  <2>k. m.guard = me.guard /\ m.delivered = me.delivered /\ m.reached = me.reached
        /\ m.account = a /\ kept = m.delivered \o m.guard.pending
    BY <1>5
  <2> HIDE DEF kept
  <2>8. Emits(m, text, e, wire)
    <3>1. wire \in Seq(AnyFrame)
      BY <1>1, OpenIsText
    <3>2. Sayable(m, text, wire)
      BY <2>1, <2>5, <2>k DEF Sayable, GuardOK, Answering
    <3>3. text \in TextOf(turn, m.account)
      BY <1>3, <2>k
    <3>4. e = EmitDelta(m, text) /\ turn \in Turns /\ Here /\ text # <<>>
      BY <1>1, <1>3, <1>8, SMTT(30)
    <3> HIDE DEF e
    <3>5. QED
      BY <1>4, <3>1, <3>2, <3>3, <3>4, Emitted
  <2> HIDE DEF e
  <2>9. /\ GuardOK(e.to) /\ Run(e.to.delivered, a, 0)
        /\ me.reached => e.to.reached
        /\ ~e.to.reached => e.to.delivered \o e.to.guard.pending = kept \o text
        /\ TextIn(wire \o e.frames) = IF turn.tools THEN <<>> ELSE e.to.delivered
    BY <2>8, <2>k DEF Emits
  <2>10. /\ me'.account = a /\ me'.told = me.told + Len(text) /\ me'.said = me.said \o text
         /\ me'.tail = EmptyGuard /\ me'.pc = "answer"
    BY <1>1, <1>5, <1>6 DEF SameBooks
  <2>11. ~me'.reached => Kept(me') = kept \o text
    <3>1. kept \o text \in Seq(AnyPiece) /\ (kept \o text) \o <<>> = kept \o text
      BY <1>3, <2>3, Concats, NothingMore
    <3>2. me'.tail.pending = <<>>
      BY <2>10 DEF EmptyGuard
    <3>3. QED
      BY <1>1, <2>9, <3>1, <3>2 DEF Kept
  <2>12. GuardOK(me')
    BY <1>1, <2>9
  <2>13. Answering(me')
    BY <1>1, <2>4, <2>5, <2>9, <2>10, <2>11, <2>12 DEF Answering
  <2>14. Books(turn, me', wire')
    BY <1>1, <2>6, <2>9, <2>10, <2>13 DEF Books, StreamBooks, Deciding
  <2>15. OneAnswer(me', wire')
    BY <1>1, <2>10, <2>14, BooksAreOneText DEF Over
  <2>16. QED
    BY <2>14, <2>15
<1>9. ~Here => wire' = wire
  BY <1>1 DEF Send
<1>10. QED
  BY <1>7, <1>8, <1>9 DEF Tells

---------------------------------------------------------------------------
(* The end of the answering call.                                          *)

\* What the call's end leaves behind, wherever the handler goes from there.
Settles(m, w) ==
    IF turn.stream
    THEN /\ Run(m.delivered, m.account, 0)
         /\ TextIn(w) = IF turn.tools THEN <<>> ELSE m.delivered
         /\ Settling(m)
    ELSE /\ TextIn(w) = <<>>
         /\ m.failure = "none" =>
               Run(m.result.text, m.account, 0) /\ Len(m.result.text) = m.told

LEMMA SettlesBooks ==
    ASSUME NEW m, NEW n, NEW w, SameText(m, n), Settles(m, w), n.pc = "settle"
    PROVE  Books(turn, n, w)
<1>1. Kept(n) = Kept(m) /\ GuardOK(n) = GuardOK(m)
  BY DEF SameText, Kept, GuardOK
<1>2. CASE turn.stream
  <2>1. /\ Run(n.delivered, n.account, 0) /\ Settling(n)
        /\ TextIn(w) = IF turn.tools THEN <<>> ELSE n.delivered
    BY <1>1, <1>2 DEF Settles, SameText, Settling
  <2>2. QED
    BY <1>2, <2>1 DEF Books, StreamBooks, Deciding
<1>3. CASE ~turn.stream
  <2>1. TextIn(w) = <<>>
    BY <1>3 DEF Settles
  <2>2. n.failure = "none" => Run(n.result.text, n.account, 0) /\ Len(n.result.text) = n.told
    BY <1>3, Zenon DEF Settles, SameText
  <2>3. QED
    BY <1>3, <2>1, <2>2 DEF Books, PlainBooks, Deciding
<1>4. QED
  BY <1>2, <1>3

LEMMA AnswerEndsTells ==
    ASSUME turn \in Turns, NEW h, MeOK(turn, Here, h), WireOK(turn, Here, h, wire),
           h.pc = "answer", NEW failure \in {"none", "network", "quota", "refused", "ended"},
           NEW result \in AnyResult, AnswerEnds(h, failure, result), After(me', wire'),
           NEW m, m = [h EXCEPT !.failure = failure, !.result = result],
           Here /\ Clear(turn, h) => Settles(m, wire)
    PROVE  /\ Onward(h, me') /\ wire' = wire
           /\ Here /\ Clear(turn, me') => Books(turn, me', wire') /\ OneAnswer(me', wire')
<1>1. /\ Locals(turn, h) /\ h \in MeOf(turn, h.account) /\ h.tail = EmptyGuard
      /\ h.broke => ~Here
      /\ h.delivered # <<>> => turn.tools \/ (turn.stream /\ (h.visible \/ h.broke))
      /\ wire # <<>> => turn.stream /\ h.visible
      /\ h.account \in {1, 2} /\ wire' = wire
  BY DEF MeOK, WireOK, Locals, Writing, AnswerEnds
<1>2. /\ Locals(turn, m) /\ m.account = h.account /\ m.gap = h.gap /\ m.delivered = h.delivered
      /\ m.tail = h.tail /\ m.visible = h.visible /\ m.broke = h.broke
  BY <1>1, ZenonT(60) DEF Locals, MeOf
<1>3. PICK a \in IF turn.stream /\ (m.broke \/ ~Here) THEN {[moved |-> FALSE, to |-> m]}
                 ELSE ActivateNextAccount(m, failure, result, turn.stream /\ m.visible) :
         me' = IF a.moved THEN Replays(a.to) ELSE Goes(a.to, "settle")
  BY DEF AnswerEnds
<1>4. MeOK(turn, Here, me') /\ WireOK(turn, Here, me', wire')
  BY DEF After
<1>5. CASE a.moved = FALSE /\ a.to \in {m, [m EXCEPT !.cut = TRUE]}
  <2>1. SameText(m, a.to) /\ Locals(turn, a.to)
    <3>1. SameText(m, m)
      BY DEF SameText
    <3> DEFINE n == [m EXCEPT !.cut = TRUE]
    <3>2. SameText(m, n) /\ Locals(turn, n)
      BY <1>2, CutText, CutFields
    <3> HIDE DEF n
    <3>3. a.to \in {m, n}
      BY <1>5 DEF n
    <3>4. QED
      BY <1>2, <3>1, <3>2, <3>3
  <2>2. me' = Goes(a.to, "settle")
    BY <1>3, <1>5
  <2>3. SameText(a.to, me') /\ me'.pc = "settle"
    BY <2>1, <2>2, GoesText
  <2>4. SameText(m, me')
    BY <2>1, <2>3 DEF SameText
  <2>5. me'.account = h.account /\ me'.gap = h.gap
    BY <1>2, <2>4 DEF SameText
  <2>6. Onward(h, me')
    BY <2>5 DEF Onward, Clear
  <2>7. ASSUME Here, Clear(turn, me') PROVE Books(turn, me', wire') /\ OneAnswer(me', wire')
    <3>1. Settles(m, wire)
      BY <2>6, <2>7 DEF Onward
    <3>2. Books(turn, me', wire)
      BY <2>3, <2>4, <3>1, SettlesBooks
    <3>3. OneAnswer(me', wire')
      BY <1>1, <1>4, <2>3, <3>2, BooksAreOneText DEF Over
    <3>4. QED
      BY <1>1, <3>2, <3>3
  <2>8. QED
    BY <1>1, <2>6, <2>7
<1>6. CASE /\ a.moved = TRUE /\ ~(turn.stream /\ m.visible)
           /\ a.to = [m EXCEPT !.account = 2, !.switched = TRUE,
                               !.conversation = NoConversation, !.told = 0]
  <2> DEFINE n == [m EXCEPT !.account = 2, !.switched = TRUE,
                            !.conversation = NoConversation, !.told = 0]
             p == [n EXCEPT !.said = <<>>, !.guard = EmptyGuard]
  <2>1. m \in MeOf(turn, m.account) /\ m.pc = "answer"
    BY <1>1, <1>2 DEF Locals, MeOf
  <2>2. /\ n.account = 2 /\ n.told = 0 /\ n.gap = m.gap /\ n.delivered = m.delivered
        /\ n.tail = m.tail /\ n.pc = "answer" /\ DOMAIN n = DOMAIN m
    BY <2>1, ZenonT(60) DEF MeOf
  <2>3. DOMAIN m = {"pc", "account", "switched", "cut", "lost", "conversation", "told", "said", "guard",
                    "tail", "delivered", "visible", "broke", "reached", "incomplete", "segment",
                    "result", "failure", "saved", "gap"}
    BY <2>1, ZenonT(60) DEF MeOf
  <2>4. me' = p
    BY <1>3, <1>6 DEF Replays
  <2> HIDE DEF n
  <2>5. /\ p.account = 2 /\ p.told = 0 /\ p.gap = m.gap /\ p.delivered = m.delivered
        /\ p.tail = m.tail /\ p.pc = "answer" /\ p.said = <<>> /\ p.guard = EmptyGuard
    BY <2>2, <2>3, ZenonT(60)
  <2> HIDE DEF p
  <2>6. Onward(h, me')
    BY <1>1, <1>2, <2>4, <2>5 DEF Onward, Clear
  <2>7. ASSUME Here, Clear(turn, me') PROVE Books(turn, me', wire')
    <3>1. wire' = <<>> /\ TextIn(wire') = <<>>
      BY <1>1, <1>2, <1>6, TextInOne
    <3>2. CASE turn.stream
      <4>1. ~turn.tools
        BY <2>4, <2>5, <2>7, <3>2 DEF Clear
      <4>2. m.delivered = <<>>
        BY <1>1, <1>2, <1>6, <2>7, <3>2, <4>1
      <4>3. me'.pc = "answer" /\ me'.told = 0 /\ me'.said = <<>> /\ me'.delivered = <<>>
            /\ me'.guard = EmptyGuard /\ me'.tail = EmptyGuard
        BY <1>1, <1>2, <2>4, <2>5, <4>2
      <4>4. Locals(turn, me')
        BY <1>4 DEF MeOK
      <4>5. Books(turn, me', <<>>)
        BY <4>3, <4>4, StartsAnswer
      <4>6. QED
        BY <3>1, <4>5
    <3>3. CASE ~turn.stream
      BY <2>4, <2>5, <3>1, <3>3 DEF Books, PlainBooks, Deciding
    <3>4. QED
      BY <3>2, <3>3
  <2>8. ASSUME Here, Clear(turn, me') PROVE OneAnswer(me', wire')
    <3>1. me'.pc = "answer"
      BY <2>4, <2>5
    <3>2. QED
      BY <1>4, <2>7, <2>8, <3>1, BooksAreOneText DEF Over
  <2>9. QED
    BY <1>1, <2>6, <2>7, <2>8
<1>7. \/ a.moved = FALSE /\ a.to \in {m, [m EXCEPT !.cut = TRUE]}
      \/ /\ a.moved = TRUE /\ ~(turn.stream /\ m.visible)
         /\ a.to = [m EXCEPT !.account = 2, !.switched = TRUE,
                             !.conversation = NoConversation, !.told = 0]
  BY DEF ActivateNextAccount, ShouldFailoverAccount
<1>8. QED
  BY <1>5, <1>6, <1>7

\* The fields the call's end sets.
LEMMA EndedCallText ==
    ASSUME turn \in Turns, NEW h, Locals(turn, h), NEW failure, NEW result
    PROVE  LET m == [h EXCEPT !.failure = failure, !.result = result]
           IN /\ m.account = h.account /\ m.told = h.told /\ m.guard = h.guard /\ m.tail = h.tail
              /\ m.delivered = h.delivered /\ m.reached = h.reached
              /\ m.failure = failure /\ m.result = result
<1>1. h \in MeOf(turn, h.account)
  BY DEF Locals
<1>2. QED
  BY <1>1, ZenonT(60) DEF MeOf

LEMMA AnsweringKept ==
    ASSUME turn \in Turns, NEW m, Locals(turn, m), m.tail = EmptyGuard
    PROVE  Kept(m) \in Seq(AnyPiece) /\ Len(Kept(m)) \in Nat
<1> DEFINE k == m.delivered \o m.guard.pending
<1>1. m.delivered \in Seq(AnyPiece) /\ m.guard.pending \in Seq(AnyPiece) /\ m.tail.pending = <<>>
  BY TextTypesOf DEF EmptyGuard
<1>2. k \in Seq(AnyPiece) /\ k \o <<>> = k
  BY <1>1, Concats, NothingMore
<1>3. QED
  BY <1>1, <1>2, LenProperties DEF Kept

LEMMA AnswerFailsTells ==
    ASSUME Telling, NEW failure \in {"network", "quota", "refused", "ended"}, AnswerFails(failure)
    PROVE  Tells
<1>1. /\ me.pc = "answer" /\ Locals(turn, me) /\ MeOK(turn, Here, me) /\ WireOK(turn, Here, me, wire)
      /\ turn \in Turns /\ me.tail = EmptyGuard /\ me.said \in TextOf(turn, me.account)
      /\ After(me', wire')
  BY DEF Telling, Ready, AnswerFails, MeOK, Locals, MeOf
<1>2. PICK r \in {NoResult, [NoResult EXCEPT !.text = me.said, !.conversation = InConversation(me)]} :
         AnswerEnds(me, failure, r)
  BY DEF AnswerFails
<1>3. r \in AnyResult
  <2>1. turn \in Turn /\ me.account \in {1, 2}
    BY <1>1, TurnAssumption DEF Locals
  <2>2. /\ me.said \in Seq(AnyPiece) /\ <<>> \in Seq(AnyPiece)
        /\ InConversation(me) \in ConvsOf(1) \cup ConvsOf(2)
        /\ NoConversation \in ConvsOf(1) \cup ConvsOf(2)
    BY <1>1, <2>1, ConversationTypes, TextTypes DEF ConvsOf
  <2>3. CASE r = NoResult
    BY <2>2, <2>3 DEF AnyResult, NoResult
  <2>4. CASE r = [NoResult EXCEPT !.text = me.said, !.conversation = InConversation(me)]
    <3>1. r = [text |-> me.said, conversation |-> InConversation(me), capped |-> FALSE,
               calls |-> FALSE, spent |-> FALSE]
      BY <2>4 DEF NoResult
    <3>2. QED
      BY <2>2, <3>1 DEF AnyResult
  <2>5. QED
    BY <1>2, <2>3, <2>4
<1> DEFINE m == [me EXCEPT !.failure = failure, !.result = r]
<1>4. /\ m.account = me.account /\ m.told = me.told /\ m.guard = me.guard /\ m.tail = me.tail
      /\ m.delivered = me.delivered /\ m.reached = me.reached
      /\ m.failure = failure /\ m.result = r /\ failure # "none"
  BY <1>1, EndedCallText
<1>5. m = [me EXCEPT !.failure = failure, !.result = r]
  OBVIOUS
<1> HIDE DEF m
<1>6. ASSUME Here, Clear(turn, me) PROVE Settles(m, wire)
  <2>1. Books(turn, me, wire)
    BY <1>6 DEF Telling, TextOK
  <2>2. CASE turn.stream
    <3>1. /\ Run(me.delivered, me.account, 0) /\ Answering(me)
          /\ TextIn(wire) = IF turn.tools THEN <<>> ELSE me.delivered
      BY <1>1, <2>1, <2>2 DEF Books, StreamBooks
    <3>2. Kept(m) = Kept(me) /\ GuardOK(m) = GuardOK(me)
      BY <1>4 DEF Kept, GuardOK
    <3>3. Settling(m)
      BY <1>1, <1>4, <3>1, <3>2 DEF Settling, Answering
    <3>4. QED
      BY <1>4, <2>2, <3>1, <3>3 DEF Settles
  <2>3. CASE ~turn.stream
    <3>1. TextIn(wire) = <<>>
      BY <1>1, <2>1, <2>3 DEF Books, PlainBooks, Over
    <3>2. QED
      BY <1>4, <2>3, <3>1 DEF Settles
  <2>4. QED
    BY <2>2, <2>3
<1>7. /\ Onward(me, me') /\ wire' = wire
      /\ Here /\ Clear(turn, me') => Books(turn, me', wire') /\ OneAnswer(me', wire')
  <2>1. failure \in {"none", "network", "quota", "refused", "ended"}
    OBVIOUS
  <2>2. m = [me EXCEPT !.failure = failure, !.result = r]
    BY <1>5
  <2>3. QED
    BY <1>1, <1>2, <1>3, <1>6, <2>1, <2>2, AnswerEndsTells
<1>8. QED
  BY <1>7 DEF Tells

\* What the tallies of a call's end change.
\* What the end of a call adds to the books.
Tallied(m, h, text, long) ==
    /\ Alike(m, h) /\ h.guard = m.guard /\ h.reached = m.reached
    /\ h.incomplete = m.incomplete /\ h.failure = m.failure
    /\ h.told = (IF m.said = <<>> THEN m.told + Len(text) ELSE m.told)
    /\ h.gap <=> (m.gap \/ (turn.stream /\ long /\ m.said = <<>> /\ text # <<>>))

LEMMA TalliesText ==
    ASSUME turn \in Turns, NEW m, Locals(turn, m), NEW text \in TextOf(turn, m.account),
           NEW long \in BOOLEAN, NEW h, h = Gap(Told(m, text), text, long)
    PROVE  Tallied(m, h, text, long)
<1> DEFINE n == Told(m, text)
           missed == n.gap \/ (turn.stream /\ long /\ n.said = <<>> /\ text # <<>>)
           p == [n EXCEPT !.gap = missed]
<1>1. m \in MeOf(turn, m.account) /\ m.told \in Nat /\ Len(text) \in Nat
  BY LenProperties DEF Locals, MeOf, TextOf
<1>2. Alike(m, h)
  BY TalliesAreAlike
<1>3. /\ n \in MeOf(turn, m.account) /\ n.said = m.said /\ n.gap = m.gap /\ n.guard = m.guard
      /\ n.reached = m.reached /\ n.incomplete = m.incomplete /\ n.failure = m.failure
      /\ n.told = (IF m.said = <<>> THEN m.told + Len(text) ELSE m.told)
  BY <1>1 DEF Told, MeOf
<1>4. h = p
  BY DEF Gap
<1> HIDE DEF n
<1>5. missed \in BOOLEAN
  BY <1>3 DEF MeOf
<1>6. missed <=> (m.gap \/ (turn.stream /\ long /\ m.said = <<>> /\ text # <<>>))
  BY <1>3
<1> HIDE DEF missed
<1>7. p.gap = missed /\ p.guard = n.guard /\ p.reached = n.reached /\ p.incomplete = n.incomplete
      /\ p.failure = n.failure /\ p.told = n.told
  BY <1>3 DEF MeOf
<1> HIDE DEF p
<1>8. QED
  BY <1>2, <1>3, <1>4, <1>6, <1>7 DEF Tallied

\* A text that comes whole is a run of its own.
LEMMA WholeTextRuns ==
    ASSUME turn \in Turns, NEW m, Locals(turn, m), NEW whole \in WholeTexts
    PROVE  /\ Run(Speak(m, whole), m.account, m.told)
           /\ Speak(m, whole) \in TextOf(turn, m.account) /\ Speak(m, whole) \in Seq(AnyPiece)
           /\ Len(Speak(m, whole)) = Len(whole) /\ Len(whole) \in Nat
<1>1. whole \in Seq(Part) /\ Len(whole) \in Nat
  BY WholeTextTypes, LenProperties
<1>2. QED
  BY <1>1, SpeakRuns, SpeakTypes, TextTypesOf

LEMMA AnswerSucceedsTells ==
    ASSUME Telling, AnswerSucceeds
    PROVE  Tells
<1> DEFINE a == me.account
<1>1. /\ me.pc = "answer" /\ Locals(turn, me) /\ MeOK(turn, Here, me) /\ WireOK(turn, Here, me, wire)
      /\ turn \in Turns /\ me.tail = EmptyGuard /\ After(me', wire') /\ a \in {1, 2}
  BY DEF Telling, Ready, AnswerSucceeds, MeOK, Locals
<1>2. PICK r \in Results(me, me.said) :
         AnswerEnds(Gap(Told(me, r.text), r.text, r.capped), "none", r)
  BY DEF AnswerSucceeds
<1>3. /\ me.said \in Seq(AnyPiece) /\ me.said \in TextOf(turn, a) /\ me.told \in Nat
      /\ r.capped \in BOOLEAN
  BY <1>1, <1>2, TextTypesOf DEF Results, Locals, MeOf
<1>4. \/ me.said # <<>> /\ r.text = me.said
      \/ me.said = <<>> /\ \E t \in WholeTexts : r.text = Speak(me, t)
  BY <1>2 DEF Results
<1>5. r.text \in TextOf(turn, a) /\ r.text \in Seq(AnyPiece) /\ Len(r.text) \in Nat
      /\ (me.said = <<>> => Run(r.text, a, me.told))
  <2>1. CASE me.said # <<>>
    BY <1>3, <1>4, <2>1, LenProperties
  <2>2. CASE me.said = <<>>
    <3>1. PICK t \in WholeTexts : r.text = Speak(me, t)
      BY <1>4, <2>2
    <3>2. QED
      BY <1>1, <3>1, WholeTextRuns
  <2>3. QED
    BY <2>1, <2>2
<1>6. r \in AnyResult
  <2>1. turn \in Turn
    BY <1>1, TurnAssumption
  <2>2. InConversation(me) \in ConvsOf(1) \cup ConvsOf(2) /\ r.conversation = InConversation(me)
    BY <1>1, <1>2, ConversationTypes DEF Results
  <2>3. r = [text |-> r.text, conversation |-> r.conversation, capped |-> r.capped,
             calls |-> r.calls, spent |-> r.spent]
        /\ r.calls \in BOOLEAN /\ r.spent \in BOOLEAN
    BY <1>2 DEF Results
  <2>4. QED
    BY <1>3, <1>5, <2>2, <2>3 DEF AnyResult
<1> DEFINE h == Gap(Told(me, r.text), r.text, r.capped)
<1>7. /\ Alike(me, h) /\ h.guard = me.guard /\ h.reached = me.reached
      /\ h.told = (IF me.said = <<>> THEN me.told + Len(r.text) ELSE me.told)
      /\ h.gap <=> (me.gap \/ (turn.stream /\ r.capped /\ me.said = <<>> /\ r.text # <<>>))
  BY <1>1, <1>3, <1>5, TalliesText DEF Tallied
<1>8. AnswerEnds(h, "none", r)
  BY <1>2
<1> HIDE DEF h
<1>9. /\ MeOK(turn, Here, h) /\ WireOK(turn, Here, h, wire) /\ h.pc = "answer"
      /\ Locals(turn, h) /\ h.account = a /\ h.tail = EmptyGuard /\ h.delivered = me.delivered
  <2>1. MeOK(turn, Here, h) /\ WireOK(turn, Here, h, wire)
    BY <1>1, <1>7, AlikeKeeps
  <2>2. QED
    BY <1>1, <1>7, <2>1 DEF Alike
<1> DEFINE m == [h EXCEPT !.failure = "none", !.result = r]
<1>10. /\ m.account = a /\ m.told = h.told /\ m.guard = me.guard /\ m.tail = EmptyGuard
       /\ m.delivered = me.delivered /\ m.reached = me.reached
       /\ m.failure = "none" /\ m.result = r
  BY <1>1, <1>7, <1>9, EndedCallText
<1>11. m = [h EXCEPT !.failure = "none", !.result = r]
  OBVIOUS
<1> HIDE DEF m
<1>12. Onward(me, h)
  BY <1>7, <1>9 DEF Onward, Clear
<1>13. ASSUME Here, Clear(turn, h) PROVE Settles(m, wire)
  <2>1. Books(turn, me, wire)
    BY <1>12, <1>13 DEF Telling, TextOK, Onward
  <2>2. CASE turn.stream
    <3>1. /\ Run(me.delivered, a, 0) /\ Answering(me)
          /\ TextIn(wire) = IF turn.tools THEN <<>> ELSE me.delivered
      BY <1>1, <2>1, <2>2 DEF Books, StreamBooks
    <3>2. Kept(m) = Kept(me) /\ GuardOK(m) = GuardOK(me)
      BY <1>1, <1>10 DEF Kept, GuardOK
    <3>3. Run(r.text, a, 0) /\ Len(r.text) = h.told
      <4>1. CASE me.said # <<>>
        BY <1>4, <1>7, <3>1, <4>1 DEF Answering
      <4>2. CASE me.said = <<>>
        <5>1. me.told = 0
          BY <3>1, <4>2, EmptySeq DEF Answering
        <5>2. QED
          BY <1>5, <1>7, <4>2, <5>1
      <4>3. QED
        BY <4>1, <4>2
    <3>4. ASSUME ~me.reached
          PROVE  \/ Len(Kept(me)) = h.told
                 \/ Kept(me) = <<>> /\ ~r.capped
      <4>1. Len(Kept(me)) = me.told /\ Kept(me) \in Seq(AnyPiece)
        BY <1>1, <3>1, <3>4, AnsweringKept DEF Answering
      <4>2. CASE me.said # <<>>
        BY <1>7, <4>1, <4>2
      <4>3. CASE me.said = <<>>
        <5>1. me.told = 0
          BY <3>1, <4>3, EmptySeq DEF Answering
        <5>2. Kept(me) = <<>>
          BY <4>1, <5>1, EmptySeq
        <5>3. CASE r.text = <<>>
          BY <1>7, <4>1, <4>3, <5>1, <5>3, EmptySeq
        <5>4. CASE r.text # <<>>
          BY <1>3, <1>7, <1>13, <2>2, <4>3, <5>2, <5>4 DEF Clear
        <5>5. QED
          BY <5>3, <5>4
      <4>4. QED
        BY <4>2, <4>3
    <3>5. Settling(m)
      BY <1>10, <3>1, <3>2, <3>3, <3>4 DEF Settling, Answering
    <3>6. QED
      BY <1>10, <2>2, <3>1, <3>5 DEF Settles
  <2>3. CASE ~turn.stream
    <3>1. TextIn(wire) = <<>> /\ me.told = 0 /\ me.said = <<>>
      BY <1>1, <2>1, <2>3 DEF Books, PlainBooks, Over
    <3>2. Run(r.text, a, 0) /\ Len(r.text) = h.told
      BY <1>5, <1>7, <3>1
    <3>3. QED
      BY <1>10, <2>3, <3>1, <3>2 DEF Settles
  <2>4. QED
    BY <2>2, <2>3
<1>14. /\ Onward(h, me') /\ wire' = wire
       /\ Here /\ Clear(turn, me') => Books(turn, me', wire') /\ OneAnswer(me', wire')
  BY <1>1, <1>6, <1>8, <1>9, <1>11, <1>13, AnswerEndsTells
<1>15. QED
  BY <1>12, <1>14 DEF Tells, Onward

---------------------------------------------------------------------------
(* Repairing a stream.                                                     *)

\* A guard that holds nothing back lets a delta pass as it is.
LEMMA FreeGuardLetsPass ==
    ASSUME turn \in Turns, NEW m, Locals(turn, m), m.guard = FreeGuard, NEW text
    PROVE  EmitDelta(m, text) = Delivered(m, text)
<1> DEFINE fed == Feed(m.guard, text)
<1>1. m \in MeOf(turn, m.account) /\ m.guard.released /\ m.reached \in BOOLEAN
  BY DEF Locals, MeOf, FreeGuard
<1>2. fed = [guard |-> m.guard, out |-> text, held |-> FALSE]
  BY <1>1 DEF Feed
<1>3. fed.guard = m.guard /\ fed.out = text /\ fed.held = FALSE
  BY <1>2
<1>4. [m EXCEPT !.guard = m.guard] = m
  BY <1>1 DEF MeOf
<1>5. EmitDelta(m, text) =
        IF m.reached \/ fed.held
        THEN [to |-> IF m.reached THEN m ELSE [m EXCEPT !.guard = fed.guard], frames |-> <<>>]
        ELSE Delivered([m EXCEPT !.guard = fed.guard], fed.out)
  BY DEF EmitDelta
<1> HIDE DEF fed
<1>6. CASE m.reached
  <2>1. EmitDelta(m, text) = [to |-> m, frames |-> <<>>]
    BY <1>5, <1>6
  <2>2. Delivered(m, text) = [to |-> m, frames |-> <<>>]
    BY <1>6 DEF Delivered
  <2>3. QED
    BY <2>1, <2>2
<1>7. CASE ~m.reached
  BY <1>3, <1>4, <1>5, <1>7
<1>8. QED
  BY <1>1, <1>6, <1>7

\* What a stream holds when it is to be repaired.
Mendable(m, w) ==
    /\ turn.stream
    /\ GuardOK(m) /\ m.tail = EmptyGuard
    /\ Run(m.delivered, m.account, 0)
    /\ TextIn(w) = IF turn.tools THEN <<>> ELSE m.delivered
    /\ ~m.reached => Run(Kept(m), m.account, 0)
    /\ m.failure = "none" =>
          /\ Run(m.result.text, m.account, 0)
          /\ ~m.reached => /\ Len(m.result.text) = m.told
                           /\ Len(Kept(m)) = m.told \/ (Kept(m) = <<>> /\ ~m.result.capped)

\* What the guard held back has been released.
Mended(m, n, w) ==
    /\ n.account = m.account /\ n.gap = m.gap /\ n.told = m.told /\ n.tail = m.tail
    /\ n.result = m.result /\ n.failure = m.failure
    /\ n.said = <<>> /\ n.guard = FreeGuard /\ n.pc = NextPc(m)
    /\ m.reached => n.reached
    /\ ~n.reached => n.delivered = Kept(m)
    /\ Run(n.delivered, m.account, 0)
    /\ TextIn(w) = IF turn.tools THEN <<>> ELSE n.delivered

LEMMA MendedBooks ==
    ASSUME turn \in Turns, NEW m, Locals(turn, m), NEW n, Locals(turn, n), NEW v,
           Mendable(m, v), NEW w, Mended(m, n, w)
    PROVE  Books(turn, n, w) /\ n.pc \in {"continue", "finish"}
<1>1. /\ m.tail = EmptyGuard /\ n.tail.pending = <<>> /\ n.guard.pending = <<>> /\ n.guard = FreeGuard
      /\ n.said = <<>> /\ ~n.tail.released
      /\ n.account = m.account /\ n.told = m.told /\ n.result = m.result /\ n.failure = m.failure
      /\ n.pc = NextPc(m) /\ (m.reached => n.reached)
      /\ Run(n.delivered, n.account, 0)
      /\ TextIn(w) = IF turn.tools THEN <<>> ELSE n.delivered
      /\ m.reached \in BOOLEAN /\ n.reached \in BOOLEAN /\ turn.stream
  BY TextTypesOf DEF Mendable, Mended, EmptyGuard, FreeGuard
<1>2. /\ n.delivered \in Seq(AnyPiece) /\ m.result.text \in Seq(AnyPiece) /\ m.told \in Nat
      /\ Len(m.result.text) \in Nat
  BY TextTypesOf, LenProperties
<1>3. Kept(n) = n.delivered
  <2> DEFINE d == n.delivered
  <2>1. d \o <<>> = d /\ Kept(n) = (d \o <<>>) \o <<>>
    BY <1>1, <1>2, NothingMore DEF Kept
  <2> HIDE DEF d
  <2>2. Kept(n) = d
    BY <2>1
  <2>3. QED
    BY <2>2 DEF d
<1>4. ~n.reached => n.delivered = Kept(m) /\ ~m.reached
  BY <1>1 DEF Mended
<1>5. CASE Continuable(m)
  <2>1. n.pc = "continue" /\ m.failure = "none" /\ ~m.reached /\ m.result.capped
    BY <1>1, <1>5 DEF NextPc, Continuable
  <2>2. /\ Run(m.result.text, m.account, 0) /\ Len(m.result.text) = m.told
        /\ Len(Kept(m)) = m.told /\ Run(Kept(m), m.account, 0)
    BY <2>1 DEF Mendable
  <2>3. Len(n.said) = 0 /\ Run(n.said, n.account, Len(n.result.text))
    BY <1>1, RunEmpty, EmptySeq
  <2>4. Len(n.result.text) + Len(n.said) = n.told
    BY <1>1, <1>2, <2>2, <2>3
  <2>5. Continuing(n)
    BY <1>1, <1>3, <1>4, <2>1, <2>2, <2>3, <2>4 DEF Continuing
  <2>6. QED
    BY <1>1, <2>1, <2>5 DEF Books, StreamBooks, Deciding
<1>6. CASE ~Continuable(m)
  <2>1. n.pc = "finish"
    BY <1>1, <1>6 DEF NextPc
  <2>2. ASSUME m.failure = "none", ~n.reached
        PROVE  Len(m.result.text) = m.told /\ (n.delivered = <<>> \/ Len(n.delivered) = m.told)
    BY <1>4, <2>2 DEF Mendable
  <2>3. m.failure = "none" => Run(m.result.text, m.account, 0)
    BY DEF Mendable
  <2>4. Finishing(n)
    BY <1>1, <2>2, <2>3 DEF Finishing, Whole
  <2>5. QED
    BY <1>1, <2>1, <2>4 DEF Books, StreamBooks, Deciding
<1>7. QED
  BY <1>5, <1>6

\* The handler's fields once the guard is released.
LEMMA ReadyFields ==
    ASSUME turn \in Turns, NEW m, Locals(turn, m), Writing(Here, m), m.pc \in {"settle", "resume"},
           NEW n, n = [m EXCEPT !.guard = Flushed(m.guard), !.said = <<>>, !.pc = NextPc(m)]
    PROVE  /\ Locals(turn, n) /\ Writing(Here, n)
           /\ n.account = m.account /\ n.gap = m.gap /\ n.told = m.told /\ n.tail = m.tail
           /\ n.result = m.result /\ n.failure = m.failure /\ n.delivered = m.delivered
           /\ n.reached = m.reached /\ n.said = <<>> /\ n.guard = FreeGuard /\ n.pc = NextPc(m)
<1>1. m \in MeOf(turn, m.account) /\ m.guard \in Guard(turn, m.account) /\ m.account \in {1, 2}
      /\ <<>> \in TextOf(turn, m.account)
  BY EmptySeq DEF Locals, MeOf, TextOf
<1>2. Flushed(m.guard) = FreeGuard /\ FreeGuard \in Guard(turn, m.account)
  <2> DEFINE S == TextOf(turn, m.account)
             h == m.guard
  <2>1. h \in [pending : S, released : BOOLEAN] /\ <<>> \in S
    BY <1>1 DEF Guard
  <2> HIDE DEF S, h
  <2>2. Flushed(h) = [pending |-> <<>>, released |-> TRUE]
    <3> DEFINE x == Flushed(h)
    <3>1. x \in [pending : S, released : BOOLEAN] /\ x.pending = <<>> /\ x.released = TRUE
      BY <2>1 DEF Flushed
    <3> HIDE DEF x
    <3>2. x = [pending |-> x.pending, released |-> x.released]
      BY <3>1
    <3>3. QED
      BY <3>1, <3>2 DEF x
  <2>3. FreeGuard = [pending |-> <<>>, released |-> TRUE]
        /\ FreeGuard \in [pending : S, released : BOOLEAN]
    BY <2>1 DEF FreeGuard
  <2>4. QED
    BY <2>2, <2>3 DEF S, h, Guard
<1>3. NextPc(m) \in Answered
  BY DEF NextPc, Answered
<1> DEFINE g == Flushed(m.guard)
           pc == NextPc(m)
<1> HIDE DEF g, pc
<1>4. n = [m EXCEPT !.guard = g, !.said = <<>>, !.pc = pc] /\ g \in Guard(turn, m.account)
      /\ pc \in Answered /\ g = FreeGuard
  BY <1>2, <1>3 DEF g, pc
<1>5. /\ n \in MeOf(turn, m.account)
      /\ n.account = m.account /\ n.gap = m.gap /\ n.told = m.told /\ n.tail = m.tail
      /\ n.result = m.result /\ n.failure = m.failure /\ n.delivered = m.delivered
      /\ n.reached = m.reached /\ n.said = <<>> /\ n.guard = FreeGuard /\ n.pc = pc
      /\ n.visible = m.visible /\ n.broke = m.broke
  BY <1>1, <1>4, ZenonT(60) DEF MeOf
<1>6. QED
  BY <1>1, <1>5 DEF Locals, Writing, pc

LEMMA RecoveredTells ==
    ASSUME turn \in Turns, NEW m, MeOK(turn, Here, m), WireOK(turn, Here, m, wire),
           m.pc \in {"settle", "resume"}, Recovered(m), After(me', wire'),
           Here /\ Clear(turn, m) => Mendable(m, wire)
    PROVE  /\ Onward(m, me') /\ (~Here => wire' = wire)
           /\ Here /\ Clear(turn, me') => Books(turn, me', wire') /\ OneAnswer(me', wire')
<1>1. /\ Locals(turn, m) /\ Writing(Here, m) /\ wire \in Open(turn, m.account) /\ m.account \in {1, 2}
      /\ MeOK(turn, Here, me') /\ WireOK(turn, Here, me', wire') /\ Locals(turn, me')
  BY DEF MeOK, WireOK, Over, After, Locals
<1>2. CASE FailsWith(m)
  <2>1. /\ me'.account = m.account /\ me'.gap = m.gap
        /\ Books(turn, me', wire') /\ (OneText(wire) => OneAnswer(me', wire'))
    BY <1>1, <1>2, FailsTells
  <2>2. Onward(m, me')
    BY <2>1 DEF Onward, Clear
  <2>3. ASSUME Here, Clear(turn, me') PROVE OneText(wire)
    <3>1. Mendable(m, wire)
      BY <2>2, <2>3 DEF Onward
    <3>2. Run(TextIn(wire), m.account, 0)
      BY <3>1, RunEmpty DEF Mendable
    <3>3. QED
      BY <1>1, <3>2, RunIsOneText, Zenon
  <2>4. ~Here => wire' = wire
    BY <1>2 DEF FailsWith, Send
  <2>5. QED
    BY <2>1, <2>2, <2>3, <2>4
<1>3. CASE ~(m.failure = "none" /\ QuotaFailureWithoutContent(m.result))
  <2> DEFINE pending == m.guard.pending
             n == [m EXCEPT !.guard = Flushed(m.guard), !.said = <<>>, !.pc = NextPc(m)]
  <2>1. IF pending = <<>> THEN me' = n /\ UNCHANGED wire ELSE Writes(Delivered(n, pending), n)
    BY <1>3 DEF Recovered
  <2>2. /\ Locals(turn, n) /\ Writing(Here, n)
        /\ n.account = m.account /\ n.gap = m.gap /\ n.told = m.told /\ n.tail = m.tail
        /\ n.result = m.result /\ n.failure = m.failure /\ n.delivered = m.delivered
        /\ n.reached = m.reached /\ n.said = <<>> /\ n.guard = FreeGuard /\ n.pc = NextPc(m)
    BY <1>1, ReadyFields
  <2> HIDE DEF n
  <2>3. /\ m.delivered \in Seq(AnyPiece) /\ pending \in Seq(AnyPiece) /\ pending \in TextOf(turn, m.account)
    <3>1. m.guard \in Guard(turn, m.account)
      BY <1>1 DEF Locals, MeOf
    <3>2. QED
      BY <1>1, <3>1, TextTypesOf DEF Guard
  <2>4. ASSUME m.tail = EmptyGuard PROVE Kept(m) = m.delivered \o pending
    <3> DEFINE k == m.delivered \o pending
    <3>1. k \in Seq(AnyPiece) /\ k \o <<>> = k
      BY <2>3, Concats, NothingMore
    <3>2. m.tail.pending = <<>>
      BY <2>4 DEF EmptyGuard
    <3>3. QED
      BY <3>1, <3>2 DEF Kept
  <2> HIDE DEF pending
  <2>5. ASSUME me'.account = m.account, me'.gap = m.gap, ~Here => wire' = wire,
               Here /\ Clear(turn, m) => Mended(m, me', wire')
        PROVE  /\ Onward(m, me') /\ (~Here => wire' = wire)
               /\ Here /\ Clear(turn, me') => Books(turn, me', wire') /\ OneAnswer(me', wire')
    <3>1. Onward(m, me')
      BY <2>5 DEF Onward, Clear
    <3>2. ASSUME Here, Clear(turn, me') PROVE Books(turn, me', wire') /\ OneAnswer(me', wire')
      <4>1. Mended(m, me', wire') /\ Mendable(m, wire)
        BY <2>5, <3>1, <3>2 DEF Onward
      <4>2. Books(turn, me', wire') /\ me'.pc \in {"continue", "finish"}
        BY <1>1, <4>1, MendedBooks
      <4>3. OneAnswer(me', wire')
        BY <1>1, <4>2, BooksAreOneText DEF Over
      <4>4. QED
        BY <4>2, <4>3
    <3>3. QED
      BY <2>5, <3>1, <3>2
  <2>6. CASE pending = <<>>
    <3>1. me' = n /\ wire' = wire
      BY <2>1, <2>6
    <3>2. ASSUME Here /\ Clear(turn, m) PROVE Mended(m, me', wire')
      <4>1. Mendable(m, wire)
        BY <3>2
      <4>2. m.delivered \o pending = m.delivered
        BY <2>3, <2>6, NothingMore
      <4>3. Kept(m) = m.delivered
        BY <2>4, <4>1, <4>2 DEF Mendable
      <4>4. QED
        BY <2>2, <3>1, <4>1, <4>3 DEF Mended, Mendable
    <3>3. QED
      BY <2>2, <2>5, <3>1, <3>2
  <2>7. CASE pending # <<>>
    <3> DEFINE e == EmitDelta(n, pending)
    <3>1. e = Delivered(n, pending)
      BY <2>2, FreeGuardLetsPass
    <3>2. Send(e.frames) /\ me' = IF e.to.broke /\ ~n.broke THEN Ended(e.to) ELSE e.to
      BY <2>1, <2>7, <3>1 DEF Writes
    <3>3. pending \in TextOf(turn, n.account)
      BY <2>2, <2>3
    <3>4. Spoken(n, e) /\ SameBooks(n, e.to)
      BY <2>2, <2>7, <3>3, EmitIsSpoken, EmitSameBooks
    <3>5. ASSUME Here, Mendable(m, wire) PROVE Emits(n, pending, e, wire)
      <4>1. /\ Run(m.delivered, m.account, 0) /\ m.tail = EmptyGuard
            /\ TextIn(wire) = IF turn.tools THEN <<>> ELSE m.delivered
            /\ ~m.reached => Run(Kept(m), m.account, 0)
        BY <3>5 DEF Mendable
      <4>2. n.guard.pending = <<>> /\ n.guard.released
        BY <2>2 DEF FreeGuard
      <4>7. (n.delivered \o n.guard.pending) \o pending = Kept(m)
        BY <2>2, <2>3, <2>4, <4>1, <4>2, NothingMore
      <4>3. Sayable(n, pending, wire)
        BY <2>2, <4>1, <4>2, <4>7 DEF Sayable, GuardOK
      <4>4. wire \in Seq(AnyFrame)
        BY <1>1, OpenIsText
      <4>5. e = EmitDelta(n, pending)
        OBVIOUS
      <4> HIDE DEF e
      <4>6. QED
        BY <2>2, <2>7, <3>3, <3>5, <4>3, <4>4, <4>5, Emitted
    <3> HIDE DEF e
    <3>6. Locals(turn, e.to) /\ Writing(Here, e.to)
      BY <3>4 DEF Spoken
    <3>7. me'.account = m.account /\ me'.gap = m.gap /\ (~Here => wire' = wire)
      <4>1. e.to.account = m.account /\ e.to.gap = m.gap
        BY <2>2, <3>4 DEF SameBooks
      <4>2. Ended(e.to).account = e.to.account /\ Ended(e.to).gap = e.to.gap
        BY <3>6, EndedText
      <4>3. QED
        BY <3>2, <4>1, <4>2 DEF Send
    <3>8. ASSUME Here /\ Clear(turn, m) PROVE Mended(m, me', wire')
      <4>1. Mendable(m, wire)
        BY <3>8
      <4>2. Emits(n, pending, e, wire)
        BY <3>5, <3>8, <4>1
      <4>3. me' = e.to /\ wire' = wire \o e.frames
        BY <3>2, <3>6, <3>8 DEF Send, Writing
      <4>4. /\ e.to.account = m.account /\ e.to.gap = m.gap /\ e.to.told = m.told
            /\ e.to.tail = m.tail /\ e.to.result = m.result /\ e.to.failure = m.failure
            /\ e.to.said = <<>> /\ e.to.pc = NextPc(m)
        BY <2>2, <3>4 DEF SameBooks
      <4>5. /\ e.to.guard = FreeGuard /\ Run(e.to.delivered, m.account, 0)
            /\ m.reached => e.to.reached
            /\ ~e.to.reached => e.to.delivered \o <<>> = (m.delivered \o <<>>) \o pending
            /\ TextIn(wire \o e.frames) = IF turn.tools THEN <<>> ELSE e.to.delivered
        <5>1. n.guard.pending = <<>> /\ n.guard.released
          BY <2>2 DEF FreeGuard
        <5>2. /\ e.to.guard = n.guard /\ Run(e.to.delivered, m.account, 0)
              /\ m.reached => e.to.reached
              /\ TextIn(wire \o e.frames) = IF turn.tools THEN <<>> ELSE e.to.delivered
          BY <2>2, <4>2, <5>1 DEF Emits
        <5>3. e.to.guard.pending = <<>>
          BY <5>1, <5>2
        <5>4. ~e.to.reached => e.to.delivered \o e.to.guard.pending
                                 = (n.delivered \o n.guard.pending) \o pending
          BY <4>2 DEF Emits
        <5>5. QED
          BY <2>2, <5>1, <5>2, <5>3, <5>4
      <4>6. e.to.delivered \o <<>> = e.to.delivered /\ m.delivered \o <<>> = m.delivered
        BY <2>3, <3>6, NothingMore, TextTypesOf
      <4>7. Kept(m) = m.delivered \o pending
        BY <2>4, <4>1 DEF Mendable
      <4>8. QED
        BY <4>3, <4>4, <4>5, <4>6, <4>7 DEF Mended
    <3>9. QED
      BY <2>5, <3>7, <3>8
  <2>8. QED
    BY <2>6, <2>7
<1>4. QED
  BY <1>2, <1>3 DEF Recovered

LEMMA OpenGuardIsFree ==
    ASSUME NEW t, NEW a, NEW g \in Guard(t, a), g.released, g.pending = <<>>
    PROVE  g = FreeGuard
<1>1. g = [pending |-> g.pending, released |-> g.released] /\ g.released = TRUE
  BY DEF Guard
<1>2. QED
  BY <1>1 DEF FreeGuard

LEMMA ExcusedText ==
    ASSUME turn \in Turns, NEW m, Locals(turn, m), NEW n, n = Excused(m)
    PROVE  /\ Locals(turn, n) /\ n.account = m.account /\ n.gap = m.gap /\ n.told = m.told
           /\ n.guard = m.guard /\ n.tail = m.tail /\ n.delivered = m.delivered
           /\ n.reached = m.reached
           /\ \/ n = m /\ (m.failure = "none" \/ ~m.reached \/ ~m.visible)
              \/ m.reached /\ n.failure = "none" /\ n.result.text = m.delivered
<1>1. CASE m.failure # "none" /\ m.reached /\ m.visible
  <2> DEFINE r == [m.result EXCEPT !.text = m.delivered]
  <2>1. m \in MeOf(turn, m.account) /\ m.account \in {1, 2}
    BY DEF Locals
  <2>2. n = [m EXCEPT !.failure = "none", !.result = r]
    BY <1>1, <2>1 DEF Excused, MeOf
  <2>3. m.delivered \in Seq(AnyPiece) /\ m.result \in AnyResult
    BY TextTypesOf
  <2>4. r \in AnyResult /\ r.text = m.delivered
    BY <2>3, RetextedResult, ZenonT(60) DEF AnyResult
  <2> HIDE DEF r
  <2>5. /\ n \in MeOf(turn, m.account) /\ n.account = m.account /\ n.gap = m.gap /\ n.told = m.told
        /\ n.guard = m.guard /\ n.tail = m.tail /\ n.delivered = m.delivered
        /\ n.reached = m.reached /\ n.failure = "none" /\ n.result = r
    BY <2>1, <2>2, <2>4, ZenonT(60) DEF MeOf
  <2>6. QED
    BY <1>1, <2>1, <2>4, <2>5 DEF Locals
<1>2. CASE ~(m.failure # "none" /\ m.reached /\ m.visible)
  BY <1>2 DEF Excused
<1>3. QED
  BY <1>1, <1>2

LEMMA SettleStreamTells ==
    ASSUME Telling, SettleStream
    PROVE  Tells
<1> DEFINE m == Excused(me)
<1>1. /\ turn \in Turns /\ me.pc = "settle" /\ MeOK(turn, Here, me) /\ WireOK(turn, Here, me, wire)
      /\ turn.stream /\ After(me', wire') /\ MeOK(turn, Here, me') /\ WireOK(turn, Here, me', wire')
      /\ IF Resumable(m) THEN me' = Goes(m, "resume") /\ UNCHANGED wire ELSE Recovered(m)
  BY DEF SettleStream, Telling, Ready, After
<1>2. /\ ~MustCall(turn) /\ Locals(turn, me) /\ Writing(Here, me) /\ ResultFits(turn, me)
      /\ me.saved = "no" /\ wire \in Open(turn, me.account)
  BY <1>1, MidwayFacts
<1>3. /\ Locals(turn, m) /\ m.account = me.account /\ m.gap = me.gap /\ m.told = me.told
      /\ m.guard = me.guard /\ m.tail = me.tail /\ m.delivered = me.delivered
      /\ m.reached = me.reached
      /\ \/ m = me /\ (me.failure = "none" \/ ~me.reached \/ ~me.visible)
         \/ me.reached /\ m.failure = "none" /\ m.result.text = me.delivered
  BY <1>1, <1>2, ExcusedText
<1>4. Writing(Here, m) /\ ResultFits(turn, m) /\ m.pc = "settle" /\ m.saved = "no"
  <2>1. CASE me.failure # "none" /\ me.reached /\ me.visible
    <3> DEFINE r == [me.result EXCEPT !.text = me.delivered]
    <3>1. /\ me \in MeOf(turn, me.account) /\ me.result \in AnyResult
          /\ me.delivered \in TextOf(turn, me.account)
      BY <1>1, MidwayFacts
    <3>2. m = [me EXCEPT !.failure = "none", !.result = r]
      BY <2>1, <3>1 DEF Excused, MeOf
    <3>3. r.text = me.delivered /\ r.conversation = me.result.conversation
      BY <3>1, ZenonT(60) DEF AnyResult
    <3> HIDE DEF r, m
    <3>4. /\ m.pc = "settle" /\ m.account = me.account /\ m.saved = "no" /\ m.result = r
          /\ m.delivered = me.delivered /\ m.visible = me.visible /\ m.broke = me.broke
      BY <1>1, <1>2, <3>1, <3>2, ZenonT(60) DEF MeOf
    <3>5. QED
      BY <1>2, <3>1, <3>3, <3>4 DEF Writing, ResultFits
  <2>2. CASE ~(me.failure # "none" /\ me.reached /\ me.visible)
    BY <1>1, <1>2, <2>2 DEF Excused
  <2>3. QED
    BY <2>1, <2>2
<1> HIDE DEF m
<1>5. ASSUME Clear(turn, m), Here
      PROVE  /\ Run(me.delivered, me.account, 0) /\ Settling(me)
             /\ TextIn(wire) = IF turn.tools THEN <<>> ELSE me.delivered
  <2>1. Clear(turn, me)
    BY <1>3, <1>5 DEF Clear
  <2>2. Books(turn, me, wire)
    BY <1>5, <2>1 DEF Telling, TextOK
  <2>3. QED
    BY <1>1, <2>2 DEF Books, StreamBooks
<1>6. CASE Resumable(m) /\ me' = Goes(m, "resume") /\ UNCHANGED wire
  <2>1. SameText(m, me') /\ me'.pc = "resume"
    BY <1>1, <1>3, <1>6, GoesText
  <2>2. Onward(me, me') /\ Onward(m, me')
    BY <1>3, <2>1 DEF Onward, Clear, SameText
  <2>3. ASSUME Here, Clear(turn, me') PROVE Books(turn, me', wire') /\ OneAnswer(me', wire')
    <3>1. /\ Run(me.delivered, me.account, 0) /\ Settling(me)
          /\ TextIn(wire) = IF turn.tools THEN <<>> ELSE me.delivered
      BY <1>5, <2>2, <2>3 DEF Onward
    <3>2. /\ m.failure = "network" /\ m = me /\ me.visible /\ ~me.reached
      BY <1>3, <1>6 DEF Resumable, IsTransientUpstream
    <3>3. me.delivered # <<>>
      BY <1>2, <3>2 DEF Writing
    <3>4. /\ me.guard.released /\ me.guard.pending = <<>> /\ me.tail = EmptyGuard
          /\ Len(Kept(me)) = me.told
      BY <3>1, <3>2, <3>3 DEF Settling, GuardOK
    <3>5. me.guard = FreeGuard
      <4>1. me.guard \in Guard(turn, me.account)
        BY <1>2 DEF Locals, MeOf
      <4>2. QED
        BY <3>4, <4>1, OpenGuardIsFree
    <3>6. Kept(me) = me.delivered
      <4>1. me.delivered \in Seq(AnyPiece) /\ me.tail.pending = <<>>
        BY <1>1, <1>2, <3>4, TextTypesOf DEF EmptyGuard
      <4>2. Kept(me) = (me.delivered \o <<>>) \o <<>>
        BY <3>4, <4>1 DEF Kept
      <4>3. QED
        BY <4>1, <4>2, NothingMore
    <3>7. Resuming(me')
      BY <2>1, <3>2, <3>4, <3>5, <3>6 DEF Resuming, SameText
    <3>8. Books(turn, me', wire')
      BY <1>1, <1>6, <2>1, <3>1, <3>2, <3>7 DEF Books, StreamBooks, SameText, Deciding
    <3>9. OneAnswer(me', wire')
      BY <1>1, <2>1, <3>8, BooksAreOneText DEF Over
    <3>10. QED
      BY <3>8, <3>9
  <2>4. QED
    BY <1>6, <2>2, <2>3 DEF Tells
<1>7. CASE Recovered(m)
  <2>1. MeOK(turn, Here, m) /\ WireOK(turn, Here, m, wire)
    BY <1>1, <1>2, <1>3, <1>4, Midway
  <2>2. ASSUME Here /\ Clear(turn, m) PROVE Mendable(m, wire)
    <3>1. /\ Run(me.delivered, me.account, 0) /\ Settling(me)
          /\ TextIn(wire) = IF turn.tools THEN <<>> ELSE me.delivered
      BY <1>5, <2>2
    <3>2. Kept(m) = Kept(me) /\ GuardOK(m) = GuardOK(me)
      BY <1>3 DEF Kept, GuardOK
    <3>3. CASE m = me
      BY <1>1, <3>1, <3>3 DEF Mendable, Settling
    <3>4. CASE me.reached /\ m.failure = "none" /\ m.result.text = me.delivered
      BY <1>1, <1>3, <3>1, <3>2, <3>4 DEF Mendable, Settling
    <3>5. QED
      BY <1>3, <3>3, <3>4
  <2>3. /\ Onward(m, me') /\ (~Here => wire' = wire)
        /\ Here /\ Clear(turn, me') => Books(turn, me', wire') /\ OneAnswer(me', wire')
    BY <1>1, <1>4, <1>7, <2>1, <2>2, RecoveredTells
  <2>4. Onward(me, me')
    BY <1>3, <2>3 DEF Onward, Clear
  <2>5. QED
    BY <2>3, <2>4 DEF Tells
<1>8. QED
  BY <1>1, <1>6, <1>7

LEMMA SettleSyncTells ==
    ASSUME Telling, SettleSync
    PROVE  Tells
<1>1. /\ turn \in Turns /\ me.pc = "settle" /\ ~turn.stream /\ Locals(turn, me)
      /\ MeOK(turn, Here, me') /\ WireOK(turn, Here, me', wire')
      /\ me' = Goes(me, NextPc(me)) /\ wire' = wire
  BY DEF SettleSync, Telling, Ready, After, MeOK
<1>2. SameText(me, me') /\ me'.pc = NextPc(me)
  BY <1>1, GoesText
<1>3. me'.pc \in {"continue", "finish"}
  BY <1>2 DEF NextPc
<1>4. Onward(me, me')
  BY <1>2 DEF Onward, Clear, SameText
<1>5. ASSUME Here, Clear(turn, me') PROVE Books(turn, me', wire') /\ OneAnswer(me', wire')
  <2>1. Books(turn, me, wire)
    BY <1>4, <1>5, TellingFacts
  <2>2. TextIn(wire') = <<>>
    BY <1>1, <2>1 DEF Books, PlainBooks, Over
  <2>3. me'.failure = "none" => Run(me'.result.text, me'.account, 0) /\ Len(me'.result.text) = me'.told
    BY <1>1, <1>2, <2>1 DEF Books, PlainBooks, SameText
  <2>4. Books(turn, me', wire')
    BY <1>1, <1>3, <2>2, <2>3 DEF Books, PlainBooks, Deciding
  <2>5. OneAnswer(me', wire')
    BY <1>1, <1>3, <2>4, BooksAreOneText DEF Over
  <2>6. QED
    BY <2>4, <2>5
<1>6. QED
  BY <1>1, <1>4, <1>5 DEF Tells

\* What is resumed can be repaired again.
LEMMA ResumingIsMendable ==
    ASSUME turn \in Turns, Locals(turn, me), me.pc = "resume",
           Books(turn, me, wire)
    PROVE  Mendable(me, wire) /\ Resuming(me) /\ me.delivered \in Seq(AnyPiece)
           /\ Kept(me) = me.delivered /\ me.failure = "network"
<1>1. /\ Run(me.delivered, me.account, 0) /\ Resuming(me)
      /\ TextIn(wire) = IF turn.tools THEN <<>> ELSE me.delivered
      /\ turn.stream
  BY DEF Books, StreamBooks, PlainBooks
<1>2. /\ me.guard = FreeGuard /\ me.tail = EmptyGuard /\ me.failure = "network"
      /\ me.delivered \in Seq(AnyPiece)
  BY <1>1, TextTypesOf DEF Resuming
<1>3. me.guard.released /\ me.guard.pending = <<>> /\ me.tail.pending = <<>>
  BY <1>2 DEF FreeGuard, EmptyGuard
<1>4. Kept(me) = me.delivered
  <2>1. Kept(me) = (me.delivered \o <<>>) \o <<>>
    BY <1>3 DEF Kept
  <2>2. QED
    BY <1>2, <2>1, NothingMore
<1>5. QED
  BY <1>1, <1>2, <1>3, <1>4 DEF Mendable, GuardOK

LEMMA ResumeFailsTells ==
    ASSUME Telling, NEW failure, ResumeFails(failure)
    PROVE  Tells
<1>1. /\ turn \in Turns /\ me.pc = "resume" /\ MeOK(turn, Here, me) /\ WireOK(turn, Here, me, wire)
      /\ After(me', wire') /\ Recovered(me) /\ Locals(turn, me)
  BY DEF ResumeFails, Telling, Ready, MeOK
<1>2. Here /\ Clear(turn, me) => Mendable(me, wire)
  BY <1>1, ResumingIsMendable DEF Telling, TextOK
<1>3. /\ Onward(me, me') /\ (~Here => wire' = wire)
      /\ Here /\ Clear(turn, me') => Books(turn, me', wire') /\ OneAnswer(me', wire')
  BY <1>1, <1>2, RecoveredTells
<1>4. QED
  BY <1>3 DEF Tells

---------------------------------------------------------------------------
(* What a resumed conversation repeats.                                    *)

LEMMA ReversedSeq ==
    ASSUME NEW S, NEW s \in Seq(S)
    PROVE  /\ Reverse(s) \in Seq(S) /\ Len(Reverse(s)) = Len(s)
           /\ s # <<>> => Len(s) \in 1..Len(s) /\ Reverse(s)[1] = s[Len(s)]
<1> DEFINE n == Len(s)
           r == [i \in 1..n |-> s[(n - i) + 1]]
<1>1. n \in Nat
  BY LenProperties
<1>2. \A i \in 1..n : s[(n - i) + 1] \in S
  <2>1. \A i \in 1..n : (n - i) + 1 \in 1..Len(s)
    BY <1>1
  <2>2. QED
    BY <2>1, ElementOfSeq
<1>3. Reverse(s) = r
  BY DEF Reverse
<1> HIDE DEF n
<1>4. r \in Seq(S) /\ Len(r) = n
  BY <1>1, <1>2, IsASeq
<1>5. s # <<>> => n \in 1..n /\ r[1] = s[n]
  <2>1. SUFFICES ASSUME s # <<>> PROVE n \in 1..n /\ r[1] = s[n]
    OBVIOUS
  <2>2. n # 0
    BY <2>1, EmptySeq DEF n
  <2>3. 1 \in 1..n /\ n \in 1..n /\ (n - 1) + 1 = n
    BY <1>1, <2>2
  <2>4. QED
    BY <2>3
<1>6. QED
  BY <1>3, <1>4, <1>5 DEF n

LEMMA SuffixEnds ==
    ASSUME NEW S, NEW x \in Seq(S), NEW s \in Seq(S), x # <<>>, Len(x) <= Len(s)
    PROVE  /\ IsSuffix(x, s) => x[Len(x)] = s[Len(s)]
           /\ Len(x) = 1 /\ x[1] = s[Len(s)] => IsSuffix(x, s)
<1> DEFINE p == Reverse(x)
           q == Reverse(s)
<1>1. Len(x) \in Nat /\ Len(s) \in Nat /\ Len(x) # 0 /\ s # <<>>
  BY LenProperties, EmptySeq
<1>2. /\ p \in Seq(S) /\ Len(p) = Len(x) /\ p[1] = x[Len(x)]
      /\ q \in Seq(S) /\ Len(q) = Len(s) /\ q[1] = s[Len(s)]
  BY <1>1, ReversedSeq
<1>3. IsSuffix(x, s) <=> Len(p) <= Len(q) /\ SubSeq(p, 1, Len(p)) = SubSeq(q, 1, Len(p))
  BY DEF IsSuffix, IsPrefix
<1> HIDE DEF p, q
<1>4. (\A i \in 1..Len(p) : p[i] \in S) /\ (\A i \in 1..Len(p) : q[i] \in S)
  <2>1. \A i \in 1..Len(p) : i \in 1..Len(q)
    BY <1>1, <1>2
  <2>2. QED
    BY <1>2, <2>1, ElementOfSeq
<1> DEFINE n == Len(p)
           f == SubSeq(p, 1, n)
           g == SubSeq(q, 1, n)
<1>5. /\ f \in Seq(S) /\ Len(f) = n /\ \A i \in 1..n : f[i] = p[i]
      /\ g \in Seq(S) /\ Len(g) = n /\ \A i \in 1..n : g[i] = q[i]
  <2>1. n \in Nat /\ n >= 1 /\ 1 \in Int /\ n \in Int /\ \A i \in Int : 1 + i - 1 = i
    BY <1>1, <1>2
  <2> HIDE DEF n
  <2>2. /\ f \in Seq(S) /\ Len(f) = n - 1 + 1 /\ \A i \in 1 .. n - 1 + 1 : f[i] = p[1 + i - 1]
        /\ g \in Seq(S) /\ Len(g) = n - 1 + 1 /\ \A i \in 1 .. n - 1 + 1 : g[i] = q[1 + i - 1]
    BY <1>4, <2>1, SubSeqProperties DEF n
  <2>3. QED
    BY <2>1, <2>2
<1>6. n = Len(x) /\ 1 \in 1..n
  BY <1>1, <1>2
<1>7. IsSuffix(x, s) => x[Len(x)] = s[Len(s)]
  <2>1. SUFFICES ASSUME IsSuffix(x, s) PROVE x[Len(x)] = s[Len(s)]
    OBVIOUS
  <2>2. f = g
    BY <1>3, <2>1
  <2> HIDE DEF f, g
  <2>3. f[1] = p[1] /\ g[1] = q[1]
    BY <1>5, <1>6
  <2>4. QED
    BY <1>2, <2>2, <2>3
<1>8. Len(x) = 1 /\ x[1] = s[Len(s)] => IsSuffix(x, s)
  <2>1. SUFFICES ASSUME Len(x) = 1, x[1] = s[Len(s)] PROVE IsSuffix(x, s)
    OBVIOUS
  <2>2. n = 1 /\ p[1] = q[1]
    BY <1>2, <1>6, <2>1
  <2>3. \A i \in 1..n : f[i] = g[i]
    <3> HIDE DEF f, g
    <3>1. \A i \in 1..n : i = 1
      BY <2>2
    <3>2. QED
      BY <1>5, <2>2, <3>1
  <2> HIDE DEF f, g
  <2>4. f = g
    BY <1>5, <2>3, SeqEqual
  <2>5. QED
    BY <1>1, <1>2, <1>3, <2>4 DEF f, g, n
<1>9. QED
  BY <1>7, <1>8

LEMMA GreatestIs ==
    ASSUME NEW S, S \subseteq Nat, NEW n \in S, \A x \in S : x <= n
    PROVE  Max(S) = n
<1> DEFINE P(x) == x \in S /\ \A y \in S : x >= y
<1>1. P(n)
  OBVIOUS
<1>2. \A x \in S : P(x) => x = n
  <2>1. SUFFICES ASSUME NEW x \in S, P(x) PROVE x = n
    OBVIOUS
  <2>2. x >= n /\ x <= n /\ x \in Nat /\ n \in Nat
    BY <2>1
  <2>3. QED
    BY <2>2
<1>3. Max(S) \in S /\ \A y \in S : Max(S) >= y
  BY <1>1 DEF Max
<1>4. QED
  BY <1>2, <1>3

\* Upstream repeats j pieces, none or the last one; what is new comes after them.
LEMMA TrimsRepeated ==
    ASSUME NEW d \in Seq(AnyPiece), NEW k \in Nat, Len(d) = k, d # <<>>, Last(d).n = k,
           NEW u \in Seq(AnyPiece), NEW j \in {0, 1}, j <= Len(u),
           \A i \in 1..Len(u) : u[i].n = (k - j) + i,
           j = 1 => u[1] = Last(d)
    PROVE  /\ TrimContinuationOverlap(d, u) = SubSeq(u, 1 + j, Len(u))
           /\ Cardinality({i \in DOMAIN u : u[i].n > k}) = Len(u) - j
<1> DEFINE overlaps == {x \in 1..Len(u) : x <= Len(d) /\ IsSuffix(SubSeq(u, 1, x), d)}
<1>1. Len(u) \in Nat /\ DOMAIN u = 1..Len(u) /\ j \in Nat /\ Len(d) # 0
  BY LenProperties, EmptySeq
<1>2. ASSUME NEW x \in 1..Len(u), x <= Len(d)
      PROVE  /\ SubSeq(u, 1, x) \in Seq(AnyPiece) /\ Len(SubSeq(u, 1, x)) = x
             /\ SubSeq(u, 1, x)[x] = u[x] /\ SubSeq(u, 1, x)[1] = u[1] /\ SubSeq(u, 1, x) # <<>>
  <2>1. \A i \in 1..x : u[i] \in AnyPiece
    <3>1. \A i \in 1..x : i \in 1..Len(u)
      BY <1>1, <1>2
    <3>2. QED
      BY <3>1, ElementOfSeq
  <2>2. x \in Int /\ 1 \in Int /\ x >= 1 /\ x - 1 + 1 = x /\ 1 + x - 1 = x /\ 1 + 1 - 1 = 1
        /\ x \in 1 .. x - 1 + 1 /\ 1 \in 1 .. x - 1 + 1
    BY <1>1, <1>2
  <2> DEFINE f == SubSeq(u, 1, x)
  <2>3. /\ f \in Seq(AnyPiece) /\ Len(f) = x - 1 + 1
        /\ \A i \in 1 .. x - 1 + 1 : f[i] = u[1 + i - 1]
    BY <2>1, <2>2, SubSeqProperties
  <2> HIDE DEF f
  <2>4. f[x] = u[x] /\ f[1] = u[1] /\ Len(f) = x /\ f # <<>>
    BY <2>2, <2>3, EmptySeq
  <2>5. QED
    BY <2>3, <2>4 DEF f
<1>3. ASSUME NEW x \in overlaps PROVE x = j
  <2>1. x \in 1..Len(u) /\ x <= Len(d) /\ IsSuffix(SubSeq(u, 1, x), d)
    OBVIOUS
  <2> HIDE DEF overlaps
  <2> DEFINE f == SubSeq(u, 1, x)
  <2>2. f \in Seq(AnyPiece) /\ Len(f) = x /\ f[x] = u[x] /\ f # <<>> /\ IsSuffix(f, d)
    BY <1>2, <2>1
  <2> HIDE DEF f
  <2>3. f[Len(f)] = d[Len(d)]
    BY <2>1, <2>2, SuffixEnds
  <2>4. u[x].n = k /\ u[x].n = (k - j) + x
    BY <2>1, <2>2, <2>3 DEF Last
  <2>5. QED
    BY <1>1, <2>1, <2>4
<1>4. j = 1 => 1 \in overlaps
  <2>1. SUFFICES ASSUME j = 1 PROVE 1 \in overlaps
    OBVIOUS
  <2>2. 1 \in 1..Len(u) /\ 1 <= Len(d)
    BY <1>1, <2>1
  <2> DEFINE f == SubSeq(u, 1, 1)
  <2>3. f \in Seq(AnyPiece) /\ Len(f) = 1 /\ f[1] = u[1] /\ f # <<>>
    BY <1>2, <2>2
  <2> HIDE DEF f
  <2>4. IsSuffix(f, d)
    BY <2>1, <2>2, <2>3, SuffixEnds DEF Last
  <2>5. QED
    BY <2>2, <2>4 DEF f
<1>5. Max(overlaps \cup {0}) = j
  <2> DEFINE T == overlaps \cup {0}
  <2>1. \A x \in overlaps : x \in Nat
    BY <1>1
  <2> HIDE DEF overlaps
  <2>2. T \subseteq Nat /\ j \in T /\ \A x \in T : x <= j
    BY <1>1, <1>3, <1>4, <2>1
  <2> HIDE DEF T
  <2>3. Max(T) = j
    BY <2>2, GreatestIs
  <2>4. QED
    BY <2>3 DEF T
<1>6. TrimContinuationOverlap(d, u) = SubSeq(u, 1 + j, Len(u))
  BY <1>5 DEF TrimContinuationOverlap
<1>7. {i \in DOMAIN u : u[i].n > k} = (1 + j)..Len(u)
  BY <1>1
<1>8. Cardinality((1 + j)..Len(u)) = Len(u) - j
  <2>1. 1 + j \in Int /\ Len(u) \in Int
    BY <1>1
  <2>2. Cardinality((1 + j)..Len(u)) = IF 1 + j > Len(u) THEN 0 ELSE Len(u) - (1 + j) + 1
    BY <2>1, FS_Interval
  <2>3. QED
    BY <1>1, <2>2
<1>9. QED
  BY <1>6, <1>7, <1>8

LEMMA WholeIsSubSeq ==
    ASSUME NEW u \in Seq(AnyPiece)
    PROVE  SubSeq(u, 1 + 0, Len(u)) = u
<1>1. 1 + 0 = 1
  OBVIOUS
<1>2. SubSeq(u, 1, Len(u)) = u
  BY SubSeqFull
<1>3. QED
  BY <1>1, <1>2

LEMMA RestOfSeq ==
    ASSUME NEW l \in AnyPiece, NEW u \in Seq(AnyPiece), NEW s, s = <<l>> \o u
    PROVE  /\ s \in Seq(AnyPiece) /\ Len(s) = 1 + Len(u) /\ s[1] = l
           /\ \A i \in 1..Len(s) : i # 1 => (i - 1 \in 1..Len(u) /\ s[i] = u[i - 1])
           /\ SubSeq(s, 1 + 1, Len(s)) = u
<1>1. <<l>> \in Seq(AnyPiece) /\ Len(<<l>>) = 1 /\ <<l>>[1] = l /\ Len(u) \in Nat
  BY LenProperties
<1>2. /\ s \in Seq(AnyPiece) /\ Len(s) = 1 + Len(u) /\ s[1] = l
      /\ \A i \in 1..Len(s) : i # 1 => (i - 1 \in 1..Len(u) /\ s[i] = u[i - 1])
  <2> DEFINE p == <<l>>
  <2>1. p \in Seq(AnyPiece) /\ Len(p) = 1 /\ p[1] = l /\ s = p \o u
    BY <1>1
  <2> HIDE DEF p
  <2>2. /\ s \in Seq(AnyPiece) /\ Len(s) = Len(p) + Len(u)
        /\ \A i \in 1 .. Len(p) + Len(u) : s[i] = IF i <= Len(p) THEN p[i] ELSE u[i - Len(p)]
    BY <2>1, ConcatProperties
  <2>3. QED
    BY <1>1, <2>1, <2>2
<1> DEFINE f == SubSeq(s, 2, Len(s))
<1>3. /\ f \in Seq(AnyPiece) /\ Len(f) = (IF 2 <= Len(s) THEN Len(s) - 2 + 1 ELSE 0)
      /\ \A i \in 1 .. Len(s) - 2 + 1 : f[i] = s[2 + i - 1]
  <2>1. 2 \in Int /\ Len(s) \in Int
    BY <1>1, <1>2
  <2>2. \A i \in 2..Len(s) : s[i] \in AnyPiece
    <3>1. \A i \in 2..Len(s) : i \in 1..Len(s)
      BY <2>1
    <3>2. QED
      BY <1>2, <3>1, ElementOfSeq
  <2>3. QED
    BY <2>1, <2>2, SubSeqProperties
<1> HIDE DEF f
<1>4. Len(f) = Len(u)
  BY <1>1, <1>2, <1>3
<1>5. ASSUME NEW i \in 1..Len(f) PROVE f[i] = u[i]
  <2>1. i \in 1 .. Len(s) - 2 + 1 /\ 2 + i - 1 = i + 1 /\ i + 1 \in 1..Len(s) /\ i + 1 # 1
        /\ (i + 1) - 1 = i
    BY <1>1, <1>2, <1>4
  <2>2. f[i] = s[i + 1]
    BY <1>3, <2>1
  <2>3. s[i + 1] = u[(i + 1) - 1]
    BY <1>2, <2>1
  <2>4. QED
    BY <2>1, <2>2, <2>3
<1>6. f = u
  BY <1>3, <1>4, <1>5, SeqEqual
<1>7. 1 + 1 = 2
  OBVIOUS
<1>8. QED
  BY <1>2, <1>6, <1>7 DEF f

(* What is new goes on where the turn was told to.                         *)
LEMMA ResumedText ==
    ASSUME turn \in Turns, NEW m, Locals(turn, m), NEW k \in Nat, m.told = k,
           NEW d \in Seq(AnyPiece), d = m.delivered, Run(d, m.account, 0), Len(d) = k, d # <<>>,
           NEW text \in Resumptions(m),
           NEW new, new = TrimContinuationOverlap(d, text)
    PROVE  /\ new \in TextOf(turn, m.account) /\ new \in Seq(AnyPiece)
           /\ Run(new, m.account, k)
           /\ Cardinality({i \in DOMAIN text : text[i].n > k}) = Len(new)
<1>1. k # 0 /\ k \in 1..k /\ DOMAIN d = 1..k
  <2>1. Len(d) # 0 /\ DOMAIN d = 1..Len(d)
    BY EmptySeq, LenProperties
  <2>2. QED
    BY <2>1
<1>2. Last(d) \in AnyPiece /\ Last(d).n = k
  <2>1. d[k] \in AnyPiece
    BY <1>1, ElementOfSeq
  <2>2. d[k].n = 0 + k
    BY <1>1, Zenon DEF Run
  <2>3. Last(d) = d[k]
    BY DEF Last
  <2>4. QED
    BY <2>1, <2>2, <2>3
<1>3. ASSUME NEW t \in Seq(Part)
      PROVE  /\ Speak(m, t) \in TextOf(turn, m.account) /\ Speak(m, t) \in Seq(AnyPiece)
             /\ Run(Speak(m, t), m.account, k)
             /\ Len(Speak(m, t)) \in Nat /\ DOMAIN Speak(m, t) = 1..Len(Speak(m, t))
  <2>1. Speak(m, t) \in TextOf(turn, m.account) /\ Speak(m, t) \in Seq(AnyPiece)
    BY SpeakTypes, TextTypesOf
  <2>2. Run(Speak(m, t), m.account, k)
    BY SpeakRuns
  <2>3. QED
    BY <2>1, <2>2, LenProperties
<1>4. CASE \E t \in WholeTexts : text = Speak(m, t)
  <2>1. /\ text \in TextOf(turn, m.account) /\ text \in Seq(AnyPiece) /\ Run(text, m.account, k)
        /\ Len(text) \in Nat /\ DOMAIN text = 1..Len(text)
    BY <1>3, <1>4, WholeTextTypes
  <2>2. \A i \in 1..Len(text) : text[i].n = (k - 0) + i
    <3>1. k - 0 = k
      OBVIOUS
    <3>2. QED
      BY <2>1, <3>1, Zenon DEF Run
  <2>3. 0 \in {0, 1} /\ 0 <= Len(text) /\ ~(0 = 1)
    BY <2>1
  <2>4. /\ TrimContinuationOverlap(d, text) = SubSeq(text, 1 + 0, Len(text))
        /\ Cardinality({i \in DOMAIN text : text[i].n > k}) = Len(text) - 0
    BY <1>2, <2>1, <2>2, <2>3, TrimsRepeated
  <2>5. new = text /\ Len(text) - 0 = Len(text)
    BY <2>1, <2>4, WholeIsSubSeq
  <2>6. QED
    BY <2>1, <2>4, <2>5
<1>5. CASE \E t \in {<<>>, <<"prose">>} : text = <<Last(d)>> \o Speak(m, t)
  <2>1. PICK t \in {<<>>, <<"prose">>} : text = <<Last(d)>> \o Speak(m, t)
    BY <1>5
  <2>2. t \in Seq(Part)
    <3>1. <<>> \in Seq(Part)
      BY EmptySeq
    <3>2. <<"prose">> \in Seq(Part)
      BY DEF Part
    <3>3. QED
      BY <2>1, <3>1, <3>2
  <2> DEFINE u == Speak(m, t)
             l == Last(d)
  <2>3. /\ u \in TextOf(turn, m.account) /\ u \in Seq(AnyPiece) /\ Run(u, m.account, k)
        /\ Len(u) \in Nat /\ DOMAIN u = 1..Len(u)
    BY <1>3, <2>2
  <2>4. l \in AnyPiece /\ l.n = k /\ text = <<l>> \o u /\ l = Last(d)
    BY <1>2, <2>1
  <2> HIDE DEF u, l
  <2>5. /\ text \in Seq(AnyPiece) /\ Len(text) = 1 + Len(u) /\ text[1] = l
        /\ \A i \in 1..Len(text) : i # 1 => (i - 1 \in 1..Len(u) /\ text[i] = u[i - 1])
        /\ SubSeq(text, 1 + 1, Len(text)) = u
    BY <2>3, <2>4, RestOfSeq
  <2>6. ASSUME NEW i \in 1..Len(text) PROVE text[i].n = (k - 1) + i
    <3>1. CASE i = 1
      BY <2>4, <2>5, <3>1
    <3>2. CASE i # 1
      <4>1. i - 1 \in 1..Len(u) /\ text[i] = u[i - 1]
        BY <2>5, <3>2
      <4>2. u[i - 1].n = k + (i - 1)
        BY <2>3, <4>1, Zenon DEF Run
      <4>3. QED
        BY <4>1, <4>2
    <3>3. QED
      BY <3>1, <3>2
  <2>7. 1 \in {0, 1} /\ 1 <= Len(text) /\ text[1] = Last(d)
    BY <2>3, <2>4, <2>5
  <2>8. /\ TrimContinuationOverlap(d, text) = SubSeq(text, 1 + 1, Len(text))
        /\ Cardinality({i \in DOMAIN text : text[i].n > k}) = Len(text) - 1
    BY <1>2, <2>5, <2>6, <2>7, TrimsRepeated
  <2>9. new = u /\ Len(text) - 1 = Len(u)
    BY <2>3, <2>5, <2>8
  <2>10. QED
    BY <2>3, <2>8, <2>9
<1>6. \/ \E t \in WholeTexts : text = Speak(m, t)
      \/ \E t \in {<<>>, <<"prose">>} : text = <<Last(d)>> \o Speak(m, t)
  BY DEF Resumptions
<1>7. QED
  BY <1>4, <1>5, <1>6

\* Nothing to say leaves things as they are.
LEMMA SilentEmits ==
    ASSUME turn \in Turns, NEW m, Locals(turn, m), NEW w \in Seq(AnyFrame), Sayable(m, <<>>, w),
           NEW e, e = [to |-> m, frames |-> <<>>]
    PROVE  Emits(m, <<>>, e, w)
<1>1. e.to = m /\ e.frames = <<>>
  OBVIOUS
<1>2. m.delivered \in Seq(AnyPiece) /\ m.guard.pending \in Seq(AnyPiece)
  BY TextTypesOf
<1> DEFINE d == m.delivered
           p == m.guard.pending
<1>3. (d \o p) \o <<>> = d \o p
  <2>1. d \in Seq(AnyPiece) /\ p \in Seq(AnyPiece)
    BY <1>2
  <2> HIDE DEF d, p
  <2>2. d \o p \in Seq(AnyPiece)
    BY <2>1, Concats
  <2>3. QED
    BY <2>2, NothingMore
<1>4. w \o <<>> = w
  BY ConcatEmptySeq
<1>5. QED
  BY <1>1, <1>3, <1>4, Zenon DEF Sayable, Emits

LEMMA Uttered ==
    ASSUME turn \in Turns, NEW m, Locals(turn, m), Writing(Here, m),
           NEW text \in TextOf(turn, m.account),
           NEW e, e = IF text = <<>> THEN [to |-> m, frames |-> <<>>] ELSE EmitDelta(m, text),
           NEW w \in Seq(AnyFrame)
    PROVE  /\ Spoken(m, e) /\ SameBooks(m, e.to)
           /\ Here /\ Sayable(m, text, w) => Emits(m, text, e, w)
<1>1. CASE text = <<>>
  <2>1. e = [to |-> m, frames |-> <<>>]
    BY <1>1
  <2>2. Spoken(m, e)
    BY <2>1, SilentIsSpoken
  <2>3. SameBooks(m, e.to)
    BY <2>1 DEF SameBooks
  <2>4. Sayable(m, <<>>, w) => Emits(m, <<>>, e, w)
    BY <2>1, SilentEmits
  <2>5. QED
    BY <1>1, <2>2, <2>3, <2>4
<1>2. CASE text # <<>>
  <2>1. e = EmitDelta(m, text)
    BY <1>2
  <2>2. Spoken(m, e)
    BY <1>2, <2>1, EmitIsSpoken
  <2>3. SameBooks(m, e.to)
    BY <1>2, <2>1, EmitSameBooks
  <2>4. Here /\ Sayable(m, text, w) => Emits(m, text, e, w)
    BY <1>2, <2>1, Emitted
  <2>5. QED
    BY <2>2, <2>3, <2>4
<1>3. QED
  BY <1>1, <1>2

LEMMA ResumeTells ==
    ASSUME Telling, NEW text \in Resumptions(me), Resume(text)
    PROVE  Tells
<1> DEFINE new == TrimContinuationOverlap(me.delivered, text)
           e == IF new = <<>> THEN [to |-> me, frames |-> <<>>] ELSE EmitDelta(me, new)
           fresh == Cardinality({i \in DOMAIN text : text[i].n > me.told})
           told == [me EXCEPT !.told = me.told + fresh]
           done == [e.to EXCEPT !.failure = "none", !.told = @ + fresh,
                                !.result.text = e.to.delivered, !.result.capped = FALSE]
           left == [done EXCEPT !.said = <<>>, !.pc = NextPc(done)]
           a == me.account
<1>1. /\ turn \in Turns /\ me.pc = "resume" /\ MeOK(turn, Here, me) /\ WireOK(turn, Here, me, wire)
      /\ IF text = <<>> \/ IsPlaceholder(text) THEN Recovered(told)
         ELSE IF done.broke THEN me' = Ended(done) /\ UNCHANGED wire
         ELSE Send(e.frames) /\ me' = left
  BY DEF Resume, Telling, Ready
<1>2. /\ Locals(turn, me) /\ Writing(Here, me) /\ wire \in Open(turn, a) /\ me.delivered # <<>>
      /\ turn \in Turn /\ a \in {1, 2} /\ me \in MeOf(turn, a) /\ me.pc \in Answered
      /\ me.told \in Nat /\ me.delivered \in Seq(AnyPiece)
      /\ wire \in Seq(AnyFrame)
  BY <1>1, MidwayFacts, TextTypesOf, OpenIsText
<1>r. After(me', wire') /\ MeOK(turn, Here, me') /\ WireOK(turn, Here, me', wire')
  BY DEF Telling, After
<1>3. text \in TextOf(turn, a)
  BY <1>1, <1>2, ResumptionTypes
<1>4. fresh \in Nat
  BY <1>3, CountIsNatural DEF TextOf
<1>5. new \in TextOf(turn, a)
  BY <1>3, <1>2, TrimmedIsText DEF TextOf, Locals, MeOf
<1>6. Here /\ Clear(turn, me) =>
         /\ Mendable(me, wire) /\ Resuming(me) /\ Kept(me) = me.delivered
         /\ Run(me.delivered, a, 0) /\ Len(me.delivered) = me.told
  BY <1>1, <1>2, ResumingIsMendable DEF Telling, TextOK, Mendable, Resuming
<1>7. Here /\ Clear(turn, me) =>
         /\ new \in Seq(AnyPiece) /\ Run(new, a, me.told) /\ fresh = Len(new)
  <2> DEFINE d == me.delivered
             k == me.told
  <2>1. SUFFICES ASSUME Here /\ Clear(turn, me)
                 PROVE  new \in Seq(AnyPiece) /\ Run(new, a, me.told) /\ fresh = Len(new)
    OBVIOUS
  <2>2. /\ turn \in Turns /\ Locals(turn, me) /\ k \in Nat /\ me.told = k /\ d \in Seq(AnyPiece)
        /\ d = me.delivered /\ Run(d, me.account, 0) /\ Len(d) = k /\ d # <<>>
        /\ new = TrimContinuationOverlap(d, text)
    BY <1>1, <1>2, <1>6, <2>1
  <2>3. fresh = Cardinality({i \in DOMAIN text : text[i].n > k})
    OBVIOUS
  <2> HIDE DEF d, k, new, fresh
  <2>4. /\ new \in Seq(AnyPiece) /\ Run(new, me.account, k)
        /\ Cardinality({i \in DOMAIN text : text[i].n > k}) = Len(new)
    BY <2>2, ResumedText
  <2>5. QED
    BY <2>3, <2>4 DEF k
<1>8. /\ Spoken(me, e) /\ SameBooks(me, e.to)
      /\ Here /\ Sayable(me, new, wire) => Emits(me, new, e, wire)
  <2>1. e = IF new = <<>> THEN [to |-> me, frames |-> <<>>] ELSE EmitDelta(me, new)
    OBVIOUS
  <2> HIDE DEF e, new
  <2>2. QED
    BY <1>1, <1>2, <1>5, <2>1, Uttered
<1> HIDE DEF e, fresh, new
<1>9. CASE Recovered(told)
  <2>1. told \in MeOf(turn, a) /\ me.told + fresh \in Nat
    BY <1>2, <1>4, SMTT(30) DEF MeOf
  <2>2. /\ Alike(me, told) /\ told.gap = me.gap /\ told.guard = me.guard
        /\ told.reached = me.reached /\ told.failure = me.failure
    BY <1>2, <2>1 DEF Alike, Locals, MeOf
  <2> HIDE DEF told
  <2>3. MeOK(turn, Here, told) /\ WireOK(turn, Here, told, wire) /\ told.pc = "resume"
    BY <1>1, <1>2, <2>2, AlikeKeeps DEF Alike
  <2>4. Clear(turn, told) <=> Clear(turn, me)
    BY <2>2 DEF Clear, Alike
  <2>5. ASSUME Here /\ Clear(turn, told) PROVE Mendable(told, wire)
    <3>1. Mendable(me, wire) /\ me.failure = "network"
      BY <1>6, <2>4, <2>5 DEF Resuming
    <3>2. Kept(told) = Kept(me) /\ GuardOK(told) = GuardOK(me)
      BY <2>2 DEF Alike, Kept, GuardOK
    <3>3. QED
      BY <2>2, <3>1, <3>2 DEF Alike, Mendable
  <2>6. /\ Onward(told, me') /\ (~Here => wire' = wire)
        /\ Here /\ Clear(turn, me') => Books(turn, me', wire') /\ OneAnswer(me', wire')
    BY <1>1, <1>r, <1>9, <2>3, <2>5, RecoveredTells
  <2>7. Onward(me, me')
    BY <2>4, <2>6 DEF Onward
  <2>8. QED
    BY <2>6, <2>7 DEF Tells
<1>10. /\ Locals(turn, e.to) /\ Writing(Here, e.to) /\ e.to.account = a
       /\ e.to.result = me.result /\ e.to \in MeOf(turn, a) /\ e.to.gap = me.gap
       /\ e.to.told = me.told /\ e.to.tail = me.tail /\ e.to.incomplete = me.incomplete
       /\ e.to.delivered \in Seq(AnyPiece)
  BY <1>1, <1>2, <1>8, TextTypesOf DEF Spoken, SameBooks, Locals
<1> DEFINE r == [e.to.result EXCEPT !.text = e.to.delivered, !.capped = FALSE]
<1>11. r \in AnyResult /\ r.text = e.to.delivered /\ r.capped = FALSE
  <2>1. e.to.result \in AnyResult
    BY <1>10 DEF MeOf
  <2>2. r \in AnyResult
    BY <1>10, <2>1, RetextedResult
  <2>3. QED
    BY <1>10, <2>1, ZenonT(60) DEF AnyResult
<1>12. done = [e.to EXCEPT !.failure = "none", !.told = e.to.told + fresh, !.result = r]
  BY <1>10 DEF MeOf
<1> HIDE DEF r, done
<1>13. /\ done \in MeOf(turn, a) /\ done.account = a /\ done.result = r
       /\ done.broke = e.to.broke /\ done.delivered = e.to.delivered
       /\ done.gap = me.gap /\ done.told = me.told + fresh /\ done.failure = "none"
       /\ done.guard = e.to.guard /\ done.tail = me.tail /\ done.reached = e.to.reached
       /\ done.incomplete = me.incomplete /\ done.visible = e.to.visible
  <2>1. e.to.told + fresh \in Nat
    BY <1>4, <1>10 DEF MeOf
  <2>2. QED
    BY <1>10, <1>11, <1>12, <2>1, ZenonT(60) DEF MeOf
<1>14. CASE done.broke /\ me' = Ended(done) /\ UNCHANGED wire
  <2>1. Locals(turn, done) /\ ~Here
    BY <1>2, <1>10, <1>13, <1>14 DEF Locals, Writing
  <2>2. me'.account = me.account /\ me'.gap = me.gap
    BY <1>1, <1>13, <1>14, <2>1, EndedText
  <2>3. QED
    BY <1>14, <2>1, <2>2 DEF Tells, Onward, Clear
<1>15. CASE Send(e.frames) /\ me' = left
  <2>1. NextPc(done) = "finish"
    BY <1>11, <1>13 DEF NextPc, Continuable
  <2>2. left = [done EXCEPT !.said = <<>>, !.pc = "finish"]
    BY <2>1
  <2> HIDE DEF left
  <2>3. /\ left.account = a /\ left.result = r /\ left.delivered = e.to.delivered
        /\ left.gap = me.gap /\ left.told = me.told + fresh /\ left.failure = "none"
        /\ left.guard = e.to.guard /\ left.reached = e.to.reached /\ left.pc = "finish"
    BY <1>13, <2>2, ZenonT(60) DEF MeOf
  <2>4. Onward(me, me')
    BY <1>15, <2>3 DEF Onward, Clear
  <2>5. ASSUME Here, Clear(turn, me') PROVE Books(turn, me', wire') /\ OneAnswer(me', wire')
    <3>1. /\ Mendable(me, wire) /\ Resuming(me)
          /\ Run(me.delivered, a, 0) /\ Len(me.delivered) = me.told
          /\ new \in Seq(AnyPiece) /\ Run(new, a, me.told) /\ fresh = Len(new)
      BY <1>6, <1>7, <2>4, <2>5 DEF Onward
    <3>2. me.guard = FreeGuard /\ me.guard.pending = <<>> /\ me.guard.released
      BY <3>1 DEF Resuming, FreeGuard
    <3>3. (me.delivered \o me.guard.pending) \o new = me.delivered \o new
      BY <1>2, <3>2, NothingMore
    <3>4. Run(me.delivered \o new, a, 0)
      <4> DEFINE d == me.delivered
      <4>1. d \in Seq(AnyPiece) /\ Run(d, a, 0) /\ Run(new, a, Len(d))
        BY <1>2, <3>1
      <4> HIDE DEF d
      <4>2. Run(d \o new, a, 0)
        BY <3>1, <4>1, RunFromStart
      <4>3. QED
        BY <4>2 DEF d
    <3>5. Sayable(me, new, wire)
      BY <3>1, <3>2, <3>3, <3>4 DEF Sayable, GuardOK, Mendable
    <3>6. Emits(me, new, e, wire)
      BY <1>8, <2>5, <3>5
    <3>7. /\ e.to.guard = FreeGuard /\ Run(e.to.delivered, a, 0)
          /\ TextIn(wire \o e.frames) = IF turn.tools THEN <<>> ELSE e.to.delivered
      BY <3>2, <3>6 DEF Emits
    <3>8. ~e.to.reached => e.to.delivered = me.delivered \o new
      <4>1. e.to.guard.pending = <<>>
        BY <3>7 DEF FreeGuard
      <4>2. e.to.delivered \o <<>> = e.to.delivered
        BY <1>10, NothingMore
      <4>3. ~e.to.reached => e.to.delivered \o e.to.guard.pending
                               = (me.delivered \o me.guard.pending) \o new
        BY <3>6 DEF Emits
      <4>4. QED
        BY <3>3, <4>1, <4>2, <4>3
    <3>9. Len(me.delivered \o new) = me.told + fresh
      BY <1>2, <3>1, LengthsAdd
    <3>10. Finishing(me')
      BY <1>11, <1>15, <2>3, <3>7, <3>8, <3>9 DEF Finishing, Whole
    <3>11. wire' = wire \o e.frames /\ turn.stream
      BY <1>15, <2>5, <3>1 DEF Send, Mendable
    <3>12. Books(turn, me', wire')
      BY <1>15, <2>3, <3>7, <3>10, <3>11 DEF Books, StreamBooks, Deciding
    <3>13. OneAnswer(me', wire')
      BY <1>1, <1>r, <1>15, <2>3, <3>12, BooksAreOneText DEF Over
    <3>14. QED
      BY <3>12, <3>13
  <2>6. ~Here => wire' = wire
    BY <1>15 DEF Send
  <2>7. QED
    BY <2>4, <2>5, <2>6 DEF Tells
<1>16. QED
  BY <1>1, <1>9, <1>14, <1>15

---------------------------------------------------------------------------
(* Continuing an answer.                                                   *)

\* What breaking a continuation off changes.
BrokenOff(m, n) ==
    /\ n.pc = "finish" /\ n.incomplete = TRUE /\ n.account = m.account /\ n.told = m.told
    /\ n.guard = m.guard /\ n.delivered = m.delivered /\ n.result = m.result
    /\ n.failure = m.failure /\ n.gap = m.gap /\ n.reached = m.reached

LEMMA CutShortText ==
    ASSUME turn \in Turns, NEW m, Locals(turn, m), NEW n, n = CutShort(m)
    PROVE  BrokenOff(m, n)
<1>1. m \in MeOf(turn, m.account)
  BY DEF Locals
<1>2. QED
  BY <1>1, ZenonT(60) DEF CutShort, MeOf, BrokenOff

\* The answer goes on with text.
Lengthened(m, n, text) ==
    /\ n.pc = m.pc /\ n.incomplete = m.incomplete /\ n.account = m.account /\ n.told = m.told
    /\ n.guard = m.guard /\ n.delivered = m.delivered /\ n.failure = m.failure
    /\ n.gap = m.gap /\ n.reached = m.reached
    /\ n.said = <<>> /\ n.tail = EmptyGuard
    /\ n.result.text = m.result.text \o text

LEMMA ExtendedText ==
    ASSUME turn \in Turns, NEW m, Locals(turn, m), NEW text \in Seq(AnyPiece),
           NEW capped \in BOOLEAN, NEW calls \in BOOLEAN, NEW n, n = Extended(m, text, capped, calls)
    PROVE  Lengthened(m, n, text)
<1> DEFINE r == [m.result EXCEPT !.text = m.result.text \o text, !.capped = capped,
                                 !.calls = m.result.calls \/ calls]
           s == m.segment + 1
<1>1. m \in MeOf(turn, m.account) /\ m.result \in AnyResult
  BY DEF Locals, MeOf
<1>2. r.text = m.result.text \o text
  BY <1>1, ZenonT(60) DEF AnyResult
<1>3. n = [m EXCEPT !.result = r, !.segment = s, !.said = <<>>, !.tail = EmptyGuard]
  BY <1>1, ZenonT(60) DEF Extended, MeOf, AnyResult
<1> HIDE DEF r, s
<1>4. /\ n.pc = m.pc /\ n.incomplete = m.incomplete /\ n.account = m.account /\ n.told = m.told
      /\ n.guard = m.guard /\ n.delivered = m.delivered /\ n.failure = m.failure
      /\ n.gap = m.gap /\ n.reached = m.reached
      /\ n.said = <<>> /\ n.tail = EmptyGuard /\ n.result = r
  BY <1>1, <1>3, ZenonT(60) DEF MeOf
<1>5. QED
  BY <1>2, <1>4 DEF Lengthened

\* The segment's guard lets out go, and keeps the rest.
LetsGo(m, out, rest, e, w) ==
    /\ e.to.guard = FreeGuard /\ Run(e.to.delivered, m.account, 0)
    /\ m.reached => e.to.reached
    /\ ~e.to.reached => e.to.delivered \o rest = m.delivered \o (out \o rest)
    /\ TextIn(w \o e.frames) = IF turn.tools THEN <<>> ELSE e.to.delivered

\* What may be let go next.
MayGo(m, out, rest, w) ==
    /\ m.guard = FreeGuard /\ Run(m.delivered, m.account, 0)
    /\ TextIn(w) = IF turn.tools THEN <<>> ELSE m.delivered
    /\ ~m.reached => Run(m.delivered \o (out \o rest), m.account, 0)

(* What the guard of a segment lets go, before what it still holds.        *)
LEMMA TailSays ==
    ASSUME turn \in Turns, NEW m, Locals(turn, m), Writing(Here, m), Here,
           NEW out \in TextOf(turn, m.account), NEW rest \in Seq(AnyPiece),
           NEW e, e = IF out = <<>> THEN [to |-> m, frames |-> <<>>] ELSE EmitDelta(m, out),
           NEW w \in Seq(AnyFrame), MayGo(m, out, rest, w)
    PROVE  LetsGo(m, out, rest, e, w)
<1> DEFINE d == m.delivered
           a == m.account
<1>m. /\ m.guard = FreeGuard /\ Run(d, a, 0)
      /\ TextIn(w) = IF turn.tools THEN <<>> ELSE d
      /\ ~m.reached => Run(d \o (out \o rest), a, 0)
  BY DEF MayGo
<1>1. /\ d \in Seq(AnyPiece) /\ out \in Seq(AnyPiece)
      /\ m.guard.released /\ m.guard.pending = <<>>
  BY <1>m, TextTypesOf DEF FreeGuard
<1>2. Spoken(m, e)
  BY Uttered
<1>3. e.to.delivered \in Seq(AnyPiece)
  BY <1>2, TextTypesOf DEF Spoken
<1>4. (d \o m.guard.pending) \o out = d \o out
  BY <1>1, NothingMore
<1>5. d \o (out \o rest) = (d \o out) \o rest /\ d \o out \in Seq(AnyPiece)
  <2> HIDE DEF d
  <2>1. QED
    BY <1>1, Associates, Concats, SMTT(30)
<1>6. ~m.reached => Run(d \o out, a, 0)
  <2> DEFINE x == d \o out
  <2>1. x \in Seq(AnyPiece) /\ (~m.reached => Run(x \o rest, a, 0))
    BY <1>m, <1>5
  <2> HIDE DEF x, a
  <2>2. ~m.reached => Run(x, a, 0)
    BY <2>1, RunFromStart
  <2>3. QED
    BY <2>2 DEF x
<1>7. Sayable(m, out, w)
  BY <1>1, <1>m, <1>4, <1>6 DEF Sayable, GuardOK
<1>8. Emits(m, out, e, w)
  BY <1>7, Uttered
<1>9. e.to.guard = FreeGuard /\ e.to.guard.pending = <<>>
  BY <1>1, <1>m, <1>8 DEF Emits, FreeGuard
<1>10. ~e.to.reached => e.to.delivered = d \o out
  <2>1. e.to.delivered \o <<>> = e.to.delivered
    BY <1>3, NothingMore
  <2>2. QED
    BY <1>4, <1>8, <1>9, <2>1 DEF Emits
<1>11. QED
  BY <1>5, <1>8, <1>9, <1>10 DEF Emits, LetsGo

LEMMA KeptOpen ==
    ASSUME turn \in Turns, NEW m, Locals(turn, m), m.guard = FreeGuard
    PROVE  /\ Kept(m) = m.delivered \o m.tail.pending /\ Kept(m) \in Seq(AnyPiece)
           /\ Len(Kept(m)) \in Nat
<1>1. /\ m.delivered \in Seq(AnyPiece) /\ m.tail.pending \in Seq(AnyPiece)
      /\ m.guard.pending = <<>>
  BY TextTypesOf DEF FreeGuard
<1>2. m.delivered \o <<>> = m.delivered
  BY <1>1, NothingMore
<1>3. Kept(m) = m.delivered \o m.tail.pending
  BY <1>1, <1>2 DEF Kept
<1> DEFINE d == m.delivered
           p == m.tail.pending
<1>4. d \o p \in Seq(AnyPiece)
  <2>1. d \in Seq(AnyPiece) /\ p \in Seq(AnyPiece)
    BY <1>1
  <2> HIDE DEF d, p
  <2>2. QED
    BY <2>1, Concats
<1>5. QED
  BY <1>3, <1>4, LenProperties

(* What a guard lets go and what it holds back is what it held and was given. *)
LEMMA FedText ==
    ASSUME turn \in Turns, NEW m, Locals(turn, m), NEW g \in Guard(turn, m.account),
           NEW text \in TextOf(turn, m.account), text # <<>>, g.released => g.pending = <<>>,
           NEW fed, fed = Feed(g, text)
    PROVE  /\ fed.out \o fed.guard.pending = g.pending \o text
           /\ fed.guard.released => fed.guard.pending = <<>>
<1>1. /\ fed.held => /\ fed.out = <<>> /\ fed.guard.pending = g.pending \o text
                     /\ ~fed.guard.released
      /\ ~fed.held => fed.out = g.pending \o text /\ fed.guard = FreeGuard
  BY FeedBooks
<1>2. g.pending \o text \in Seq(AnyPiece)
  <2> DEFINE p == g.pending
  <2>1. p \in Seq(AnyPiece) /\ text \in Seq(AnyPiece)
    BY TextTypesOf DEF Guard
  <2> HIDE DEF p
  <2>2. p \o text \in Seq(AnyPiece)
    BY <2>1, Concats
  <2>3. QED
    BY <2>2 DEF p
<1> DEFINE all == g.pending \o text
<1>3. all \o <<>> = all /\ <<>> \o all = all
  <2> HIDE DEF all
  <2>1. all \in Seq(AnyPiece)
    BY <1>2 DEF all
  <2>2. QED
    BY <2>1, NothingMore
<1> HIDE DEF all
<1>4. fed.held => fed.out = <<>> /\ fed.guard.pending = all /\ ~fed.guard.released
  BY <1>1 DEF all
<1>5. ~fed.held => fed.out = all /\ fed.guard.pending = <<>>
  BY <1>1 DEF all, FreeGuard
<1>6. QED
  BY <1>3, <1>4, <1>5 DEF all

LEMMA ContinuationDeltaTells ==
    ASSUME Telling, NEW part \in Part, ContinuationDelta(part)
    PROVE  Tells
<1> DEFINE text == Speak(me, <<part>>)
           fed == Feed(me.tail, text)
           said == Says(me, text)
           m == [said EXCEPT !.tail = fed.guard]
           e == IF fed.held THEN [to |-> m, frames |-> <<>>] ELSE EmitDelta(m, fed.out)
           a == me.account
<1>1. /\ turn \in Turns /\ me.pc = "continue" /\ MeOK(turn, Here, me) /\ WireOK(turn, Here, me, wire)
      /\ me' = e.to /\ Send(e.frames) /\ turn.stream
      /\ MeOK(turn, Here, me') /\ WireOK(turn, Here, me', wire')
  <2>1. After(me', wire') /\ me.pc = "continue" /\ Ready /\ turn.stream /\ me' = e.to /\ Send(e.frames)
    BY DEF ContinuationDelta, Telling
  <2> HIDE DEF e
  <2>2. QED
    BY <2>1 DEF Ready, After
<1>2. /\ Locals(turn, me) /\ Writing(Here, me) /\ wire \in Seq(AnyFrame)
      /\ me.tail \in Guard(turn, a) /\ a \in {1, 2}
      /\ me.told \in Nat /\ me.said \in Seq(AnyPiece) /\ me.result.text \in Seq(AnyPiece)
      /\ Len(me.result.text) \in Nat
  BY <1>1, MidwayFacts, TextTypesOf, OpenIsText, LenProperties
<1>3. <<part>> \in Seq(Part) /\ <<part>> # <<>>
  OBVIOUS
<1>4. /\ text \in TextOf(turn, a) /\ text # <<>> /\ text \in Seq(AnyPiece) /\ Len(text) \in Nat
  BY <1>1, <1>2, <1>3, SpeakTypes, TextTypesOf, LenProperties
<1>5. Here /\ Clear(turn, me) =>
        /\ Continuing(me) /\ Run(me.delivered, a, 0)
        /\ TextIn(wire) = IF turn.tools THEN <<>> ELSE me.delivered
        /\ Run(me.said \o text, a, Len(me.result.text)) /\ Run(text, a, me.told)
        /\ Len(me.result.text) + Len(me.said \o text) = me.told + Len(text)
  <2>1. SUFFICES ASSUME Here, Clear(turn, me)
                 PROVE  /\ Continuing(me) /\ Run(me.delivered, a, 0)
                        /\ TextIn(wire) = IF turn.tools THEN <<>> ELSE me.delivered
                        /\ Run(me.said \o text, a, Len(me.result.text)) /\ Run(text, a, me.told)
                        /\ Len(me.result.text) + Len(me.said \o text) = me.told + Len(text)
    OBVIOUS
  <2>2. /\ Continuing(me) /\ Run(me.delivered, a, 0)
        /\ TextIn(wire) = IF turn.tools THEN <<>> ELSE me.delivered
    BY <1>1, <2>1 DEF Telling, TextOK, Books, StreamBooks
  <2> DEFINE k == Len(me.result.text)
  <2>3. Run(me.said, me.account, k) /\ k + Len(me.said) = me.told /\ k \in Nat
    BY <1>2, <2>2 DEF Continuing
  <2> HIDE DEF k
  <2>4. /\ Run(me.said \o text, a, k) /\ k + Len(me.said \o text) = me.told + Len(text)
        /\ Run(text, a, me.told)
    BY <1>1, <1>2, <1>3, <2>3, SpeaksOn
  <2>5. QED
    BY <2>2, <2>4 DEF k
<1> HIDE DEF text
<1>6. /\ fed.guard \in Guard(turn, a) /\ fed.out \in TextOf(turn, a)
      /\ ~fed.held => fed.out # <<>>
      /\ fed.guard.pending \in Seq(AnyPiece) /\ fed.out \in Seq(AnyPiece)
  <2>1. /\ fed.guard \in Guard(turn, a) /\ fed.out \in TextOf(turn, a)
        /\ ~fed.held => fed.out # <<>>
    BY <1>2, <1>4, FeedTypes
  <2> HIDE DEF fed
  <2>2. fed.guard.pending \in TextOf(turn, a)
    BY <2>1 DEF Guard
  <2>3. QED
    BY <1>1, <1>2, <2>1, <2>2, TextTypesOf
<1>7. fed.held => fed.out = <<>>
  BY DEF Feed
<1>8. (me.tail.released => me.tail.pending = <<>>) =>
        /\ fed.out \o fed.guard.pending = me.tail.pending \o text
        /\ fed.guard.released => fed.guard.pending = <<>>
  BY <1>1, <1>2, <1>4, FedText
<1> HIDE DEF fed
<1>9. /\ said.account = a /\ said.gap = me.gap /\ said.guard = me.guard
      /\ said.delivered = me.delivered /\ said.result = me.result /\ said.failure = me.failure
      /\ said.reached = me.reached /\ said.incomplete = me.incomplete /\ said.pc = me.pc
      /\ said.said = me.said \o text /\ said.told = me.told + Len(text)
      /\ Locals(turn, said) /\ Writing(Here, said)
  <2>1. Locals(turn, said) /\ Writing(Here, said)
    BY <1>1, <1>2, <1>4, SaysFields
  <2>2. SaidMore(me, text, said)
    BY <1>1, <1>2, SaysText
  <2> HIDE DEF said
  <2>3. QED
    BY <1>1, <2>1, <2>2 DEF SaidMore
<1> HIDE DEF said
<1>10. /\ m.account = a /\ m.gap = me.gap /\ m.guard = me.guard
       /\ m.delivered = me.delivered /\ m.result = me.result /\ m.failure = me.failure
       /\ m.reached = me.reached /\ m.pc = me.pc
       /\ m.said = me.said \o text /\ m.told = me.told + Len(text) /\ m.tail = fed.guard
       /\ Locals(turn, m) /\ Writing(Here, m)
  <2>1. said \in MeOf(turn, said.account) /\ said.account = a
    BY <1>9 DEF Locals
  <2>2. /\ m \in MeOf(turn, a)
        /\ m.account = a /\ m.gap = said.gap /\ m.guard = said.guard
        /\ m.delivered = said.delivered /\ m.result = said.result /\ m.failure = said.failure
        /\ m.reached = said.reached /\ m.pc = said.pc /\ m.said = said.said /\ m.told = said.told
        /\ m.tail = fed.guard /\ m.visible = said.visible /\ m.broke = said.broke
    BY <1>6, <2>1, ZenonT(60) DEF MeOf
  <2> HIDE DEF m
  <2>3. QED
    BY <1>2, <1>9, <2>2 DEF Locals, Writing
<1> HIDE DEF m
<1>11. e = IF fed.out = <<>> THEN [to |-> m, frames |-> <<>>] ELSE EmitDelta(m, fed.out)
  BY <1>6, <1>7
<1> HIDE DEF e
<1>12. SameBooks(m, e.to) /\ Locals(turn, e.to)
  <2> DEFINE out == fed.out
  <2>1. /\ e = IF out = <<>> THEN [to |-> m, frames |-> <<>>] ELSE EmitDelta(m, out)
        /\ out \in TextOf(turn, m.account)
    BY <1>6, <1>10, <1>11
  <2> HIDE DEF out
  <2>2. SameBooks(m, e.to) /\ Spoken(m, e)
    BY <1>1, <1>2, <1>10, <2>1, Uttered
  <2>3. QED
    BY <2>2 DEF Spoken
<1>13. Onward(me, me')
  BY <1>1, <1>10, <1>12 DEF Onward, Clear, SameBooks
<1>14. ASSUME Here, Clear(turn, me') PROVE Books(turn, me', wire') /\ OneAnswer(me', wire')
  <2> DEFINE d == me.delivered
             p == me.tail.pending
             out == fed.out
             rest == fed.guard.pending
  <2>1. /\ Continuing(me) /\ Run(me.delivered, a, 0)
        /\ TextIn(wire) = IF turn.tools THEN <<>> ELSE me.delivered
        /\ Run(me.said \o text, a, Len(me.result.text)) /\ Run(text, a, me.told)
        /\ Len(me.result.text) + Len(me.said \o text) = me.told + Len(text)
    BY <1>5, <1>13, <1>14 DEF Onward
  <2>2. /\ out \o rest = p \o text /\ (fed.guard.released => rest = <<>>)
        /\ me.guard = FreeGuard /\ me.failure = "none"
    BY <1>8, <2>1 DEF Continuing
  <2>3. Kept(me) = d \o p /\ Kept(me) \in Seq(AnyPiece) /\ Len(Kept(me)) \in Nat
    BY <1>1, <1>2, <2>2, KeptOpen
  <2>4. d \in Seq(AnyPiece) /\ p \in Seq(AnyPiece) /\ out \in Seq(AnyPiece) /\ rest \in Seq(AnyPiece)
        /\ out \in TextOf(turn, m.account)
    BY <1>1, <1>2, <1>6, <1>10, TextTypesOf
  <2>5. d \o (out \o rest) = Kept(me) \o text
    <3> DEFINE q == out \o rest
    <3> HIDE DEF q
    <3>1. q = p \o text
      BY <2>2 DEF q
    <3> HIDE DEF d, p
    <3>2. d \o (p \o text) = (d \o p) \o text
      BY <1>4, <2>4, Associates, SMTT(30)
    <3>3. d \o q = Kept(me) \o text
      BY <2>3, <3>1, <3>2
    <3>4. QED
      BY <3>3 DEF q
  <2>6. ~me.reached => Run(Kept(me) \o text, a, 0) /\ Len(Kept(me) \o text) = me.told + Len(text)
    <3> DEFINE k == Kept(me)
    <3>1. SUFFICES ASSUME ~me.reached
                   PROVE  Run(k \o text, a, 0) /\ Len(k \o text) = me.told + Len(text)
      OBVIOUS
    <3>2. k \in Seq(AnyPiece) /\ Run(k, a, 0) /\ Len(k) = me.told
      BY <2>1, <2>3, <3>1 DEF Continuing
    <3> HIDE DEF k
    <3>3. Run(text, a, Len(k))
      BY <2>1, <3>2
    <3>4. Run(k \o text, a, 0)
      BY <1>4, <3>2, <3>3, RunFromStart, SMTT(30)
    <3>5. QED
      BY <1>4, <3>2, <3>4, LengthsAdd
  <2>7. /\ e.to.guard = FreeGuard /\ Run(e.to.delivered, a, 0)
        /\ m.reached => e.to.reached
        /\ ~e.to.reached => e.to.delivered \o rest = d \o (out \o rest)
        /\ TextIn(wire \o e.frames) = IF turn.tools THEN <<>> ELSE e.to.delivered
    <3>1. /\ m.guard = FreeGuard /\ Run(m.delivered, m.account, 0) /\ m.delivered = d
          /\ TextIn(wire) = IF turn.tools THEN <<>> ELSE m.delivered
          /\ e = IF out = <<>> THEN [to |-> m, frames |-> <<>>] ELSE EmitDelta(m, out)
      BY <1>10, <1>11, <2>1, <2>2
    <3>2. ~m.reached => Run(m.delivered \o (out \o rest), m.account, 0)
      <4> DEFINE q == out \o rest
      <4> HIDE DEF q, d
      <4>1. d \o q = Kept(me) \o text
        BY <2>5 DEF q
      <4>2. m.delivered \o q = Kept(me) \o text
        BY <3>1, <4>1
      <4>3. QED
        BY <1>10, <2>6, <4>2 DEF q
    <3>3. MayGo(m, out, rest, wire)
      BY <3>1, <3>2 DEF MayGo
    <3>4. LetsGo(m, out, rest, e, wire)
      <4> HIDE DEF d, p, out, rest
      <4>1. QED
        BY <1>1, <1>2, <1>10, <1>14, <2>4, <3>1, <3>3, TailSays
    <3>5. QED
      BY <1>10, <3>1, <3>4 DEF LetsGo
  <2>8. /\ me'.account = a /\ me'.told = me.told + Len(text) /\ me'.said = me.said \o text
        /\ me'.tail = fed.guard /\ me'.pc = "continue" /\ me'.result = me.result
        /\ me'.failure = "none" /\ me'.guard = FreeGuard
    BY <1>1, <1>10, <1>12, <2>2, <2>7 DEF SameBooks
  <2>9. ~me'.reached => Kept(me') = Kept(me) \o text /\ ~me.reached
    <3>1. Kept(me') = e.to.delivered \o rest
      BY <1>1, <1>12, <2>8, KeptOpen
    <3>2. me'.reached \in BOOLEAN /\ me.reached \in BOOLEAN /\ m.reached = me.reached
      BY <1>1, <1>2, <1>10, <1>12, TextTypesOf
    <3>3. QED
      BY <1>1, <2>5, <2>7, <3>1, <3>2
  <2> HIDE DEF d, p, out, rest
  <2>10. Continuing(me')
    <3>1. me'.tail.released => me'.tail.pending = <<>>
      BY <2>2, <2>8 DEF rest
    <3>2. QED
      BY <2>1, <2>6, <2>8, <2>9, <3>1 DEF Continuing
  <2>11. wire' = wire \o e.frames
    BY <1>1, <1>14 DEF Send
  <2>12. Books(turn, me', wire')
    BY <1>1, <2>7, <2>8, <2>10, <2>11 DEF Books, StreamBooks, Deciding
  <2>13. OneAnswer(me', wire')
    BY <1>1, <2>8, <2>12, BooksAreOneText DEF Over
  <2>14. QED
    BY <2>12, <2>13
<1>15. ~Here => wire' = wire
  BY <1>1 DEF Send
<1>16. QED
  BY <1>13, <1>14, <1>15 DEF Tells

LEMMA ContinuationFailsTells ==
    ASSUME Telling, NEW failure, ContinuationFails(failure)
    PROVE  Tells
<1>1. /\ turn \in Turns /\ me.pc = "continue" /\ MeOK(turn, Here, me)
      /\ MeOK(turn, Here, me') /\ WireOK(turn, Here, me', wire')
      /\ me' = CutShort(me) /\ wire' = wire /\ Locals(turn, me)
  BY DEF ContinuationFails, Telling, Ready, After, MeOK
<1>2. /\ me'.pc = "finish" /\ me'.incomplete = TRUE /\ me'.account = me.account
      /\ me'.told = me.told /\ me'.guard = me.guard /\ me'.delivered = me.delivered
      /\ me'.result = me.result /\ me'.failure = me.failure /\ me'.gap = me.gap
  <2>1. BrokenOff(me, me')
    BY <1>1, CutShortText
  <2>2. QED
    BY <2>1 DEF BrokenOff
<1>3. Onward(me, me')
  BY <1>2 DEF Onward, Clear
<1>4. ASSUME Here, Clear(turn, me') PROVE Books(turn, me', wire') /\ OneAnswer(me', wire')
  <2>1. Books(turn, me, wire)
    BY <1>3, <1>4, TellingFacts
  <2>2. ASSUME turn.stream PROVE Books(turn, me', wire')
    <3>1. /\ Continuing(me) /\ Run(me.delivered, me.account, 0)
          /\ TextIn(wire) = IF turn.tools THEN <<>> ELSE me.delivered
      BY <1>1, <2>1, <2>2 DEF Books, StreamBooks
    <3>2. Finishing(me')
      BY <1>2, <3>1 DEF Finishing, Continuing, Whole
    <3>3. QED
      BY <1>1, <1>2, <2>2, <3>1, <3>2 DEF Books, StreamBooks, Deciding
  <2>3. ASSUME ~turn.stream PROVE Books(turn, me', wire')
    BY <1>1, <1>2, <2>1, <2>3 DEF Books, PlainBooks, Deciding, Over
  <2>4. OneAnswer(me', wire')
    BY <1>1, <1>2, <2>2, <2>3, BooksAreOneText DEF Over
  <2>5. QED
    BY <2>2, <2>3, <2>4
<1>5. QED
  BY <1>1, <1>3, <1>4 DEF Tells

\* Where a segment leaves the turn.
Segmented(m, w) ==
    /\ m.pc = "continue" /\ m.guard = FreeGuard /\ m.failure = "none"
    /\ m.tail = EmptyGuard /\ m.said = <<>>
    /\ Run(m.result.text, m.account, 0) /\ Len(m.result.text) = m.told
    /\ Run(m.delivered, m.account, 0)
    /\ TextIn(w) = IF turn.tools THEN <<>> ELSE m.delivered
    /\ ~m.reached => Len(m.delivered) = m.told

LEMMA SegmentedBooks ==
    ASSUME turn \in Turns, turn.stream, NEW m, Locals(turn, m), NEW w, Segmented(m, w),
           NEW n \in {CutShort(m), m, Goes(m, "finish")}
    PROVE  Books(turn, n, w) /\ n.pc \in {"continue", "finish"}
<1>1. /\ m.pc = "continue" /\ m.guard = FreeGuard /\ m.failure = "none"
      /\ m.tail = EmptyGuard /\ m.said = <<>>
      /\ Run(m.result.text, m.account, 0) /\ Len(m.result.text) = m.told
      /\ Run(m.delivered, m.account, 0)
      /\ TextIn(w) = IF turn.tools THEN <<>> ELSE m.delivered
      /\ ~m.reached => Len(m.delivered) = m.told
  BY DEF Segmented
<1>2. CASE n = CutShort(m)
  <2>1. /\ n.pc = "finish" /\ n.incomplete = TRUE /\ n.account = m.account
        /\ n.told = m.told /\ n.guard = m.guard /\ n.delivered = m.delivered
        /\ n.result = m.result /\ n.failure = m.failure
    <3>1. BrokenOff(m, n)
      BY <1>2, CutShortText
    <3>2. QED
      BY <3>1 DEF BrokenOff
  <2>2. Finishing(n)
    BY <1>1, <2>1 DEF Finishing, Whole
  <2>3. QED
    BY <1>1, <2>1, <2>2 DEF Books, StreamBooks, Deciding
<1>3. CASE n = m
  <2>1. Kept(m) = m.delivered
    <3>1. m.tail.pending = <<>> /\ m.delivered \in Seq(AnyPiece)
      BY <1>1, TextTypesOf DEF EmptyGuard
    <3>2. Kept(m) = m.delivered \o m.tail.pending
      BY <1>1, KeptOpen
    <3>3. QED
      BY <3>1, <3>2, NothingMore
  <2>2. Len(<<>>) = 0 /\ Run(<<>>, m.account, Len(m.result.text)) /\ m.told \in Nat
    BY RunEmpty, TextTypesOf
  <2>3. ~m.tail.released
    BY <1>1 DEF EmptyGuard
  <2>4. Len(m.result.text) + Len(m.said) = m.told
    BY <1>1, <2>2
  <2>5. Continuing(m)
    BY <1>1, <2>1, <2>2, <2>3, <2>4 DEF Continuing
  <2>6. QED
    BY <1>1, <1>3, <2>5 DEF Books, StreamBooks, Deciding
<1>4. CASE n = Goes(m, "finish")
  <2>1. SameText(m, n) /\ n.pc = "finish"
    BY <1>4, GoesText
  <2>2. Finishing(n)
    BY <1>1, <2>1 DEF Finishing, Whole, SameText
  <2>3. QED
    BY <1>1, <2>1, <2>2 DEF Books, StreamBooks, Deciding, SameText
<1>5. QED
  BY <1>2, <1>3, <1>4

LEMMA ContinuationEndsTells ==
    ASSUME Telling, NEW whole \in WholeTexts, NEW capped \in BOOLEAN, NEW calls \in BOOLEAN,
           ContinuationEnds(whole, capped, calls)
    PROVE  Tells
<1> DEFINE text == IF me.said = <<>> THEN Speak(me, whole) ELSE me.said
           known == Gap(Told(me, text), text, TRUE)
           pending == me.tail.pending
           e == IF pending = <<>> THEN [to |-> known, frames |-> <<>>] ELSE EmitDelta(known, pending)
           m == Extended(e.to, text, capped, calls)
           last == m.segment = MaxContinuations
           a == me.account
<1>1. /\ turn \in Turns /\ me.pc = "continue" /\ MeOK(turn, Here, me) /\ WireOK(turn, Here, me, wire)
      /\ turn.stream
      /\ \/ text = <<>> /\ me' = CutShort(me) /\ wire' = wire
         \/ text # <<>> /\ me' = CutShort(known) /\ wire' = wire
         \/ text # <<>> /\ m.broke /\ me' = Ended(m) /\ wire' = wire
         \/ text # <<>> /\ Send(e.frames) /\ me' \in {CutShort(m), m, Goes(m, "finish")}
  <2>1. /\ IF text = <<>> THEN me' = CutShort(me) /\ UNCHANGED wire
           ELSE IF IsPlaceholder(text) THEN me' = CutShort(known) /\ UNCHANGED wire
           ELSE IF m.broke THEN me' = Ended(m) /\ UNCHANGED wire
           ELSE /\ Send(e.frames)
                /\ me' = IF capped /\ last THEN CutShort(m)
                         ELSE IF capped /\ ~m.reached THEN m ELSE Goes(m, "finish")
        /\ me.pc = "continue" /\ turn.stream
    BY DEF ContinuationEnds
  <2> HIDE DEF text, known, pending, e, m, last
  <2>2. QED
    BY <2>1 DEF Telling, Ready
<1>r. MeOK(turn, Here, me') /\ WireOK(turn, Here, me', wire')
  BY DEF Telling, After
<1>2. /\ Locals(turn, me) /\ Writing(Here, me) /\ wire \in Seq(AnyFrame)
      /\ me.tail \in Guard(turn, a) /\ a \in {1, 2} /\ me.said \in TextOf(turn, a)
      /\ me.told \in Nat /\ me.said \in Seq(AnyPiece) /\ me.result.text \in Seq(AnyPiece)
      /\ Len(me.result.text) \in Nat /\ me.delivered \in Seq(AnyPiece)
      /\ me.tail.pending \in Seq(AnyPiece) /\ turn.stream \in BOOLEAN
  BY <1>1, MidwayFacts, TextTypesOf, OpenIsText, LenProperties DEF Turn
<1>3. text \in TextOf(turn, a) /\ text \in Seq(AnyPiece) /\ pending \in TextOf(turn, a)
  <2>1. text \in TextOf(turn, a) /\ pending \in TextOf(turn, a)
    BY <1>1, <1>2, SpeakTypes, WholeTextTypes DEF Guard
  <2> HIDE DEF text, pending
  <2>2. QED
    BY <1>1, <1>2, <2>1, TextTypesOf
<1>4. text # <<>> /\ me.said # <<>> => text = me.said
  OBVIOUS
<1> HIDE DEF text
<1>5. Here /\ Clear(turn, me) =>
        /\ Continuing(me) /\ Run(me.delivered, a, 0)
        /\ TextIn(wire) = IF turn.tools THEN <<>> ELSE me.delivered
  BY <1>1 DEF Telling, TextOK, Books, StreamBooks
<1>6. /\ Alike(me, known) /\ known.guard = me.guard /\ known.reached = me.reached
      /\ known.incomplete = me.incomplete /\ known.failure = me.failure
      /\ known.told = (IF me.said = <<>> THEN me.told + Len(text) ELSE me.told)
      /\ known.gap <=> (me.gap \/ (turn.stream /\ TRUE /\ me.said = <<>> /\ text # <<>>))
  <2>1. TRUE \in BOOLEAN
    OBVIOUS
  <2> HIDE DEF known
  <2>2. known = Gap(Told(me, text), text, TRUE)
    BY DEF known
  <2>3. Tallied(me, known, text, TRUE)
    BY <1>1, <1>2, <1>3, <2>1, <2>2, TalliesText
  <2>4. QED
    BY <2>3 DEF Tallied
<1>7. /\ Locals(turn, known) /\ Writing(Here, known) /\ known.account = a
      /\ known.pc = "continue" /\ known.tail = me.tail /\ known.delivered = me.delivered
      /\ known.result = me.result
  <2> HIDE DEF known
  <2>1. QED
    BY <1>1, <1>2, <1>6 DEF Alike, Writing
<1> HIDE DEF known, pending
<1>8. /\ Spoken(known, e) /\ SameBooks(known, e.to) /\ Locals(turn, e.to) /\ Writing(Here, e.to)
  <2>1. e = IF pending = <<>> THEN [to |-> known, frames |-> <<>>] ELSE EmitDelta(known, pending)
    OBVIOUS
  <2> HIDE DEF e
  <2>2. Spoken(known, e) /\ SameBooks(known, e.to)
    BY <1>1, <1>2, <1>3, <1>7, <2>1, Uttered
  <2>3. QED
    BY <2>2 DEF Spoken
<1>e. e = IF pending = <<>> THEN [to |-> known, frames |-> <<>>] ELSE EmitDelta(known, pending)
  OBVIOUS
<1> HIDE DEF e
<1>9. /\ m.pc = "continue" /\ m.account = a /\ m.told = known.told
      /\ m.guard = e.to.guard /\ m.delivered = e.to.delivered /\ m.failure = me.failure
      /\ m.gap = known.gap /\ m.reached = e.to.reached
      /\ m.said = <<>> /\ m.tail = EmptyGuard
      /\ m.result.text = me.result.text \o text
  <2>1. m = Extended(e.to, text, capped, calls)
    OBVIOUS
  <2> HIDE DEF m
  <2>2. Lengthened(e.to, m, text)
    BY <1>1, <1>3, <1>8, <2>1, ExtendedText
  <2>3. QED
    BY <1>6, <1>7, <1>8, <2>2 DEF SameBooks, Lengthened
<1>10. Locals(turn, m) /\ Writing(Here, m)
  <2>1. ResultFits(turn, e.to) /\ e.to.account = a
    <3>1. ResultFits(turn, me)
      BY <1>1, MidwayFacts
    <3>2. QED
      BY <1>7, <1>8, <3>1 DEF ResultFits, SameBooks
  <2>2. QED
    BY <1>1, <1>3, <1>8, <2>1, ExtendedFields
<1> HIDE DEF m
<1>11. ASSUME NEW n \in {me, known}, me' = CutShort(n), wire' = wire PROVE Tells
  <2>1. /\ Locals(turn, n) /\ n.account = a /\ n.guard = me.guard /\ n.delivered = me.delivered
        /\ n.result = me.result /\ (n.gap = me.gap \/ n.gap = known.gap)
    BY <1>2, <1>6, <1>7, <1>11
  <2>2. /\ me'.pc = "finish" /\ me'.incomplete = TRUE /\ me'.account = a
        /\ me'.guard = me.guard /\ me'.delivered = me.delivered
        /\ me'.result = me.result /\ me'.gap = n.gap
    <3>1. BrokenOff(n, me')
      BY <1>1, <1>11, <2>1, CutShortText
    <3>2. QED
      BY <2>1, <3>1 DEF BrokenOff
  <2>3. Onward(me, me')
    BY <1>6, <2>1, <2>2 DEF Onward, Clear
  <2>4. ASSUME Here, Clear(turn, me') PROVE Books(turn, me', wire') /\ OneAnswer(me', wire')
    <3>1. /\ Continuing(me) /\ Run(me.delivered, a, 0)
          /\ TextIn(wire) = IF turn.tools THEN <<>> ELSE me.delivered
      BY <1>5, <2>3, <2>4 DEF Onward
    <3>2. Finishing(me')
      BY <2>2, <3>1 DEF Finishing, Continuing, Whole
    <3>3. Books(turn, me', wire')
      BY <1>1, <1>11, <2>2, <3>1, <3>2 DEF Books, StreamBooks, Deciding
    <3>4. OneAnswer(me', wire')
      BY <1>1, <1>r, <2>2, <3>3, BooksAreOneText DEF Over
    <3>5. QED
      BY <3>3, <3>4
  <2>5. QED
    BY <1>11, <2>3, <2>4 DEF Tells
<1>13. CASE text # <<>> /\ m.broke /\ me' = Ended(m) /\ wire' = wire
  <2>1. ~Here
    BY <1>10, <1>13 DEF Writing
  <2>2. me'.account = a /\ me'.gap = known.gap
    BY <1>1, <1>9, <1>10, <1>13, EndedText
  <2>3. Onward(me, me')
    BY <1>6, <2>2 DEF Onward, Clear
  <2>4. QED
    BY <1>13, <2>1, <2>3 DEF Tells
<1>14. CASE text # <<>> /\ Send(e.frames) /\ me' \in {CutShort(m), m, Goes(m, "finish")}
  <2>1. me'.account = a /\ me'.gap = known.gap
    <3>1. CASE me' = CutShort(m)
      <4>1. BrokenOff(m, me')
        BY <1>1, <1>9, <1>10, <3>1, CutShortText
      <4>2. QED
        BY <1>9, <1>10, <4>1 DEF BrokenOff
    <3>2. CASE me' = m
      BY <1>9, <3>2
    <3>3. CASE me' = Goes(m, "finish")
      BY <1>1, <1>9, <1>10, <3>3, GoesText DEF SameText
    <3>4. QED
      BY <1>14, <3>1, <3>2, <3>3
  <2>2. Onward(me, me')
    BY <1>6, <2>1 DEF Onward, Clear
  <2>3. ASSUME Here, Clear(turn, me') PROVE Books(turn, me', wire') /\ OneAnswer(me', wire')
    <3>1. /\ Continuing(me) /\ Run(me.delivered, a, 0)
          /\ TextIn(wire) = IF turn.tools THEN <<>> ELSE me.delivered
      BY <1>5, <2>2, <2>3 DEF Onward
    <3>2. text = me.said /\ known.told = me.told
      <4>1. ~known.gap
        BY <2>1, <2>3 DEF Clear
      <4>2. me.said # <<>>
        BY <1>1, <1>6, <1>14, <4>1
      <4>3. QED
        BY <1>4, <1>6, <1>14, <4>2
    <3>3. Kept(me) = me.delivered \o pending
      BY <1>1, <1>2, <3>1, KeptOpen DEF Continuing, pending
    <3>4. pending \in Seq(AnyPiece) /\ pending \o <<>> = pending /\ <<>> \in Seq(AnyPiece)
      BY <1>2, NothingMore, EmptySeq DEF pending
    <3>5. MayGo(known, pending, <<>>, wire)
      BY <1>6, <1>7, <3>1, <3>3, <3>4 DEF MayGo, Continuing
    <3>6. LetsGo(known, pending, <<>>, e, wire)
      <4>1. pending \in TextOf(turn, known.account)
        BY <1>3, <1>7
      <4>2. QED
        BY <1>1, <1>2, <1>7, <1>e, <2>3, <3>4, <3>5, <4>1, TailSays
    <3>7. e.to.delivered \o <<>> = e.to.delivered /\ e.to.reached \in BOOLEAN
      BY <1>1, <1>8, TextTypesOf, NothingMore
    <3>8. /\ e.to.guard = FreeGuard /\ Run(e.to.delivered, a, 0)
          /\ ~e.to.reached => e.to.delivered = Kept(me) /\ ~me.reached
          /\ TextIn(wire \o e.frames) = IF turn.tools THEN <<>> ELSE e.to.delivered
      BY <1>6, <1>7, <3>3, <3>4, <3>6, <3>7 DEF LetsGo
    <3>9. Run(me.result.text \o text, a, 0) /\ Len(me.result.text \o text) = me.told
      <4> DEFINE s == me.result.text
      <4>1. /\ s \in Seq(AnyPiece) /\ Run(s, a, 0) /\ Run(text, a, Len(s))
            /\ Len(s) + Len(text) = me.told
        BY <1>2, <3>1, <3>2 DEF Continuing
      <4> HIDE DEF s
      <4>2. Run(s \o text, a, 0) /\ Len(s \o text) = me.told
        BY <1>3, <4>1, RunFromStart, LengthsAdd
      <4>3. QED
        BY <4>2 DEF s
    <3>10. wire' = wire \o e.frames
      BY <1>14, <2>3 DEF Send
    <3>11. Segmented(m, wire')
      BY <1>9, <3>1, <3>2, <3>8, <3>9, <3>10 DEF Segmented, Continuing
    <3>12. Books(turn, me', wire') /\ me'.pc \in {"continue", "finish"}
      BY <1>1, <1>10, <1>14, <3>11, SegmentedBooks
    <3>13. OneAnswer(me', wire')
      BY <1>1, <1>r, <3>12, BooksAreOneText DEF Over
    <3>14. QED
      BY <3>12, <3>13
  <2>4. ~Here => wire' = wire
    BY <1>14 DEF Send
  <2>5. QED
    BY <2>2, <2>3, <2>4 DEF Tells
<1>15. QED
  BY <1>1, <1>11, <1>13, <1>14

LEMMA SegmentEndsTells ==
    ASSUME Telling, NEW parts \in WholeTexts, NEW capped \in BOOLEAN, NEW calls \in BOOLEAN,
           SegmentEnds(parts, capped, calls)
    PROVE  Tells
<1> DEFINE text == Speak(me, parts)
           said == Says(me, text)
           m == Extended(said, text, capped, calls)
           a == me.account
<1>1. /\ turn \in Turns /\ me.pc = "continue" /\ MeOK(turn, Here, me) /\ WireOK(turn, Here, me, wire)
      /\ ~turn.stream /\ wire' = wire
      /\ me' \in {CutShort(me), CutShort(m), m, Goes(m, "finish")}
  BY DEF SegmentEnds, Telling, Ready
<1>r. MeOK(turn, Here, me') /\ WireOK(turn, Here, me', wire')
  BY DEF Telling, After
<1>2. /\ Locals(turn, me) /\ Writing(Here, me) /\ ResultFits(turn, me) /\ me.told \in Nat
      /\ me.result.text \in Seq(AnyPiece)
  BY <1>1, MidwayFacts, TextTypesOf
<1>3. /\ text \in TextOf(turn, a) /\ text \in Seq(AnyPiece) /\ Run(text, a, me.told)
  BY <1>1, <1>2, SpeakTypes, SpeakRuns, WholeTextTypes, TextTypesOf
<1> HIDE DEF text
<1>4. /\ Locals(turn, said) /\ Writing(Here, said) /\ said.account = a /\ said.gap = me.gap
      /\ said.result = me.result /\ said.failure = me.failure /\ said.pc = me.pc
      /\ said.told = me.told + Len(text)
  <2>1. Locals(turn, said) /\ Writing(Here, said)
    BY <1>1, <1>2, <1>3, SaysFields
  <2>2. SaidMore(me, text, said)
    BY <1>1, <1>2, SaysText
  <2> HIDE DEF said
  <2>3. QED
    BY <1>1, <2>1, <2>2 DEF SaidMore
<1> HIDE DEF said
<1>5. ResultFits(turn, said)
  BY <1>2, <1>4 DEF ResultFits
<1>6. Locals(turn, m)
  BY <1>1, <1>3, <1>4, <1>5, ExtendedFields
<1>7. /\ m.pc = "continue" /\ m.account = a /\ m.told = me.told + Len(text)
      /\ m.failure = me.failure /\ m.gap = me.gap
      /\ m.result.text = me.result.text \o text
  <2>1. m = Extended(said, text, capped, calls)
    OBVIOUS
  <2> HIDE DEF m
  <2>2. Lengthened(said, m, text)
    BY <1>1, <1>3, <1>4, <2>1, ExtendedText
  <2>3. QED
    BY <1>1, <1>4, <2>2 DEF Lengthened
<1> HIDE DEF m
<1>8. /\ me'.pc \in {"continue", "finish"} /\ me'.account = a /\ me'.gap = me.gap
      /\ me'.failure = me.failure
      /\ \/ me'.told = me.told /\ me'.result.text = me.result.text
         \/ me'.told = me.told + Len(text) /\ me'.result.text = me.result.text \o text
  <2> DEFINE Leaves(n) ==
                /\ me'.pc \in {"continue", "finish"} /\ me'.account = n.account
                /\ me'.gap = n.gap /\ me'.failure = n.failure /\ me'.told = n.told
                /\ me'.result = n.result
  <2>1. ASSUME NEW n, Locals(turn, n), me' = CutShort(n) PROVE Leaves(n)
    <3>1. /\ me'.pc = "finish" /\ me'.account = n.account /\ me'.told = n.told
          /\ me'.result = n.result /\ me'.failure = n.failure /\ me'.gap = n.gap
      <4>1. BrokenOff(n, me')
        BY <1>1, <2>1, CutShortText
      <4>2. QED
        BY <4>1 DEF BrokenOff
    <3>2. QED
      BY <3>1
  <2>2. ASSUME me' = m PROVE Leaves(m)
    BY <1>7, <2>2
  <2>3. ASSUME me' = Goes(m, "finish") PROVE Leaves(m)
    BY <1>1, <1>6, <2>3, GoesText DEF SameText
  <2>4. Leaves(me) \/ Leaves(m)
    <3> HIDE DEF Leaves
    <3>1. QED
      BY <1>1, <1>2, <1>6, <2>1, <2>2, <2>3
  <2>5. QED
    BY <1>7, <2>4
<1>9. Onward(me, me')
  BY <1>8 DEF Onward, Clear
<1>10. ASSUME Here, Clear(turn, me') PROVE Books(turn, me', wire') /\ OneAnswer(me', wire')
  <2>1. Books(turn, me, wire)
    BY <1>9, <1>10, TellingFacts
  <2>2. /\ TextIn(wire) = <<>>
        /\ me.failure = "none" => Run(me.result.text, a, 0) /\ Len(me.result.text) = me.told
    BY <1>1, <2>1 DEF Books, PlainBooks, Over
  <2>3. me.failure = "none" =>
           Run(me.result.text \o text, a, 0) /\ Len(me.result.text \o text) = me.told + Len(text)
    <3> DEFINE s == me.result.text
    <3>1. SUFFICES ASSUME me.failure = "none"
                   PROVE  Run(s \o text, a, 0) /\ Len(s \o text) = me.told + Len(text)
      OBVIOUS
    <3>2. s \in Seq(AnyPiece) /\ Run(s, a, 0) /\ Len(s) = me.told /\ Run(text, a, Len(s))
      BY <1>2, <1>3, <2>2, <3>1
    <3> HIDE DEF s
    <3>3. QED
      BY <1>3, <3>2, RunFromStart, LengthsAdd
  <2>4. me'.failure = "none" =>
           Run(me'.result.text, me'.account, 0) /\ Len(me'.result.text) = me'.told
    BY <1>8, <2>2, <2>3
  <2>5. Books(turn, me', wire')
    BY <1>1, <1>8, <2>2, <2>4 DEF Books, PlainBooks, Deciding
  <2>6. OneAnswer(me', wire')
    BY <1>1, <1>r, <1>8, <2>5, BooksAreOneText DEF Over
  <2>7. QED
    BY <2>5, <2>6
<1>11. QED
  BY <1>1, <1>9, <1>10 DEF Tells

---------------------------------------------------------------------------
(* Finishing an answer.                                                    *)

Shortened(s, a, text) ==
    /\ text \in Seq(AnyPiece) /\ (Run(s, a, 0) => Run(text, a, 0))
    /\ text = <<>> => s = <<>>
    /\ text # s => turn.limited /\ Len(text) = OutputLimit

LEMMA LimitedText ==
    ASSUME turn \in Turns, NEW s \in Seq(AnyPiece), NEW a, NEW text, text = Limited(s)
    PROVE  Shortened(s, a, text)
<1>1. OutputLimit \in Nat \ {0} /\ Len(s) \in Nat
  BY TurnAssumption, LenProperties
<1>2. CASE turn.limited /\ Len(s) > OutputLimit
  <2>1. text = SubSeq(s, 1, OutputLimit)
    BY <1>2 DEF Limited
  <2>2. OutputLimit \in Int /\ OutputLimit <= Len(s)
    BY <1>1, <1>2
  <2>3. text \in Seq(AnyPiece) /\ (Run(s, a, 0) => Run(text, a, 0))
    BY <2>1, <2>2, Starts, RunStart
  <2>4. Len(text) = OutputLimit
    <3>1. \A i \in 1..OutputLimit : s[i] \in AnyPiece
      <4>1. \A i \in 1..OutputLimit : i \in 1..Len(s)
        BY <1>1, <2>2
      <4>2. QED
        BY <4>1, ElementOfSeq
    <3>2. Len(SubSeq(s, 1, OutputLimit)) = IF 1 <= OutputLimit THEN OutputLimit - 1 + 1 ELSE 0
      BY <1>1, <3>1, SubSeqProperties
    <3>3. QED
      BY <1>1, <2>1, <3>2
  <2>5. text # <<>>
    BY <1>1, <2>4, EmptySeq
  <2>6. QED
    BY <1>2, <2>3, <2>4, <2>5 DEF Shortened
<1>3. CASE ~(turn.limited /\ Len(s) > OutputLimit)
  BY <1>3 DEF Limited, Shortened
<1>4. QED
  BY <1>2, <1>3

\* The answer as it stands before the last frames.
Backfilled(m, e, w) ==
    /\ Run(e.to.delivered, m.account, 0)
    /\ TextIn(w \o e.frames) = IF turn.tools THEN <<>> ELSE e.to.delivered
    /\ Whole(e.to) /\ ~(turn.limited /\ Len(e.to.delivered) >= OutputLimit) =>
          Len(e.to.delivered) = m.told

LEMMA BackfillText ==
    ASSUME turn \in Turns, NEW m, Locals(turn, m), Writing(Here, m), ResultFits(turn, m),
           NEW e, e = BackfillTerminalStreamText(m), NEW w \in Seq(AnyFrame)
    PROVE  /\ SameBooks(m, e.to)
           /\ /\ Here /\ Finishing(m) /\ m.failure = "none" /\ Run(m.delivered, m.account, 0)
              /\ TextIn(w) = IF turn.tools THEN <<>> ELSE m.delivered
              => Backfilled(m, e, w)
<1> DEFINE text == Limited(m.result.text)
           n == [m EXCEPT !.delivered = text]
           a == m.account
           Before == /\ Here /\ Finishing(m) /\ m.failure = "none" /\ Run(m.delivered, a, 0)
                     /\ TextIn(w) = IF turn.tools THEN <<>> ELSE m.delivered
<1>1. /\ text \in TextOf(turn, a) /\ m \in MeOf(turn, a) /\ a \in {1, 2}
      /\ m.result.text \in Seq(AnyPiece) /\ m.delivered \in Seq(AnyPiece)
      /\ m.told \in Nat /\ OutputLimit \in Nat \ {0}
  BY LimitedIsText, TextTypesOf, TurnAssumption DEF ResultFits, Locals
<1>2. /\ text \in Seq(AnyPiece) /\ (Run(m.result.text, a, 0) => Run(text, a, 0))
      /\ text = <<>> => m.result.text = <<>>
      /\ text # m.result.text => turn.limited /\ Len(text) = OutputLimit
  <2>1. text = Limited(m.result.text)
    OBVIOUS
  <2> HIDE DEF text
  <2>2. Shortened(m.result.text, a, text)
    BY <1>1, <2>1, LimitedText
  <2>3. QED
    BY <2>2 DEF Shortened
<1>3. w \o <<>> = w
  BY ConcatEmptySeq
<1>4. ASSUME Before, ~m.reached, ~m.incomplete
      PROVE  /\ Len(m.result.text) = m.told
             /\ m.delivered = <<>> \/ Len(m.delivered) = m.told
  BY <1>4 DEF Finishing, Whole
<1>5. CASE m.delivered # <<>> \/ text = <<>>
  <2>1. e = [to |-> m, frames |-> <<>>]
    BY <1>5 DEF BackfillTerminalStreamText
  <2>2. e.to = m /\ e.frames = <<>>
    BY <2>1
  <2>3. SameBooks(m, e.to)
    BY <2>2 DEF SameBooks
  <2>4. ASSUME Before PROVE Backfilled(m, e, w)
    <3>1. Whole(m) => Len(m.delivered) = m.told
      <4>1. SUFFICES ASSUME ~m.reached, ~m.incomplete PROVE Len(m.delivered) = m.told
        BY DEF Whole
      <4>2. CASE m.delivered # <<>>
        BY <1>4, <2>4, <4>1, <4>2
      <4>3. CASE m.delivered = <<>>
        <5>1. m.result.text = <<>>
          BY <1>2, <1>5, <4>3
        <5>2. QED
          BY <1>4, <2>4, <4>1, <4>3, <5>1
      <4>4. QED
        BY <4>2, <4>3
    <3>2. QED
      BY <1>3, <2>2, <2>4, <3>1 DEF Backfilled
  <2>5. QED
    BY <2>3, <2>4
<1>6. ASSUME Before, m.delivered = <<>>, text # <<>>,
             Run(e.to.delivered, a, 0), ~e.to.reached => e.to.delivered = text,
             TextIn(w \o e.frames) = IF turn.tools THEN <<>> ELSE e.to.delivered,
             e.to.incomplete = m.incomplete, m.reached => e.to.reached, m.reached \in BOOLEAN
      PROVE  Backfilled(m, e, w)
  <2>1. ASSUME Whole(e.to), ~(turn.limited /\ Len(e.to.delivered) >= OutputLimit)
        PROVE  Len(e.to.delivered) = m.told
    <3>1. ~m.reached /\ ~m.incomplete /\ e.to.delivered = text
      BY <1>6, <2>1 DEF Whole
    <3>2. text = m.result.text
      BY <1>1, <1>2, <2>1, <3>1
    <3>3. QED
      BY <1>4, <1>6, <3>1, <3>2
  <2>2. QED
    BY <1>6, <2>1 DEF Backfilled
<1> HIDE DEF text
<1>7. CASE m.delivered = <<>> /\ text # <<>> /\ Guarded
  <2>1. e = [to |-> n, frames |-> <<>>]
    BY <1>7 DEF BackfillTerminalStreamText, text
  <2>2. n.delivered = text /\ n.reached = m.reached /\ SameBooks(m, n)
    BY <1>1 DEF MeOf, SameBooks
  <2> HIDE DEF n
  <2>3. e.to = n /\ e.frames = <<>>
    BY <2>1
  <2>4. m.reached \in BOOLEAN
    BY <1>1 DEF MeOf
  <2>5. ASSUME Before PROVE Backfilled(m, e, w)
    <3>1. Run(e.to.delivered, a, 0)
      BY <1>2, <2>2, <2>3, <2>5 DEF Finishing
    <3>2. TextIn(w \o e.frames) = IF turn.tools THEN <<>> ELSE e.to.delivered
      BY <1>3, <1>7, <2>3, <2>5 DEF Guarded
    <3>3. QED
      BY <1>6, <1>7, <2>2, <2>3, <2>4, <2>5, <3>1, <3>2 DEF SameBooks
  <2>6. QED
    BY <2>2, <2>3, <2>5
<1>8. CASE m.delivered = <<>> /\ text # <<>> /\ ~Guarded
  <2>1. e = EmitDelta(m, text)
    BY <1>8 DEF BackfillTerminalStreamText, text
  <2>2. SameBooks(m, e.to) /\ Spoken(m, e)
    BY <1>1, <1>8, <2>1, EmitSameBooks, EmitIsSpoken
  <2>3. ASSUME Before PROVE Backfilled(m, e, w)
    <3>1. /\ m.guard = FreeGuard /\ Run(m.result.text, a, 0) /\ Run(text, a, 0)
          /\ m.guard.pending = <<>> /\ m.guard.released
      BY <1>2, <2>3 DEF Finishing, FreeGuard
    <3>2. (m.delivered \o m.guard.pending) \o text = text
      <4>1. <<>> \o <<>> = <<>> /\ <<>> \o text = text
        BY <1>2, NothingMore, EmptySeq
      <4>2. QED
        BY <1>8, <3>1, <4>1
    <3>3. Sayable(m, text, w)
      BY <2>3, <3>1, <3>2 DEF Sayable, GuardOK
    <3>4. Emits(m, text, e, w)
      BY <1>1, <1>8, <2>1, <2>3, <3>3, Emitted
    <3>5. e.to.delivered \in Seq(AnyPiece)
      BY <2>2, TextTypesOf DEF Spoken
    <3>6. e.to.guard.pending = <<>> /\ e.to.delivered \o <<>> = e.to.delivered
      BY <3>1, <3>4, <3>5, NothingMore DEF Emits
    <3>7. /\ Run(e.to.delivered, a, 0) /\ (~e.to.reached => e.to.delivered = text)
          /\ TextIn(w \o e.frames) = IF turn.tools THEN <<>> ELSE e.to.delivered
          /\ m.reached => e.to.reached
      BY <3>2, <3>4, <3>6 DEF Emits
    <3>8. e.to.incomplete = m.incomplete /\ m.reached \in BOOLEAN
      BY <1>1, <2>2 DEF SameBooks, MeOf
    <3>9. QED
      BY <1>6, <1>8, <2>3, <3>7, <3>8
  <2>4. QED
    BY <2>2, <2>3
<1>9. QED
  BY <1>5, <1>7, <1>8

\* What is left of an answer whose session is to be saved.
Saving(m, text) == [Done(m, "save answer") EXCEPT !.result.text = text]
SavingAs(m, text, reached) ==
    [Done(m, "save answer") EXCEPT !.result.text = text, !.reached = reached]

SavesText(m, n, text, reached) ==
    /\ n.pc = "save answer" /\ n.account = m.account /\ n.told = m.told /\ n.gap = m.gap
    /\ n.incomplete = m.incomplete /\ n.result.text = text /\ n.reached = reached

LEMMA DoneText ==
    ASSUME turn \in Turns, NEW m, Locals(turn, m), NEW text
    PROVE  /\ SavesText(m, Saving(m, text), text, m.reached)
           /\ \A reached : SavesText(m, SavingAs(m, text, reached), text, reached)
<1> DEFINE d == Done(m, "save answer")
           r == [d.result EXCEPT !.text = text]
<1>1. m \in MeOf(turn, m.account) /\ m.result \in AnyResult
  BY DEF Locals, MeOf
<1>2. /\ d.pc = "save answer" /\ d.account = m.account /\ d.told = m.told /\ d.gap = m.gap
      /\ d.incomplete = m.incomplete /\ d.result = m.result /\ d.reached = m.reached
  BY <1>1, ZenonT(60) DEF Done, MeOf
<1>3. Locals(turn, d)
  BY DoneTypes DEF Answered
<1> HIDE DEF d
<1>4. d \in MeOf(turn, d.account)
  BY <1>3 DEF Locals
<1>5. r.text = text
  BY <1>1, <1>2, ZenonT(60) DEF AnyResult
<1> DEFINE n == [d EXCEPT !.result = r]
<1>6. n = Saving(m, text)
  BY <1>4 DEF d, MeOf, Saving
<1>7. ASSUME NEW reached
      PROVE  [d EXCEPT !.result = r, !.reached = reached] = SavingAs(m, text, reached)
  BY <1>4 DEF d, MeOf, SavingAs
<1> HIDE DEF r
<1>8. SavesText(m, n, text, m.reached)
  BY <1>2, <1>4, <1>5, ZenonT(60) DEF MeOf, SavesText
<1>9. ASSUME NEW reached
      PROVE  SavesText(m, [d EXCEPT !.result = r, !.reached = reached], text, reached)
  BY <1>2, <1>4, <1>5, ZenonT(60) DEF MeOf, SavesText
<1>10. QED
  BY <1>6, <1>7, <1>8, <1>9, Zenon

\* What the last looks at an answer leave alone.
SameTally(m, n) ==
    /\ n.account = m.account /\ n.told = m.told /\ n.gap = m.gap /\ n.incomplete = m.incomplete

Looked(m, n) ==
    /\ SameTally(m, n) /\ n.reached = m.reached
    /\ n.delivered = m.delivered \/ (Guarded /\ n.delivered = Unverified)

LEMMA CheckedText ==
    ASSUME turn \in Turns, NEW m, Locals(turn, m), NEW n, n = Checked(m)
    PROVE  Looked(m, n)
<1>1. m \in MeOf(turn, m.account)
  BY DEF Locals
<1> DEFINE r == [m.result EXCEPT !.text = Unverified]
<1>2. CASE n = m
  BY <1>2 DEF SameTally, Looked
<1>3. CASE Guarded /\ n = [m EXCEPT !.delivered = Unverified, !.result = r]
  <2> HIDE DEF r
  <2>1. n.account = m.account /\ n.told = m.told /\ n.gap = m.gap /\ n.incomplete = m.incomplete
        /\ n.reached = m.reached /\ n.delivered = Unverified
    BY <1>1, <1>3, ZenonT(60) DEF MeOf
  <2>2. QED
    BY <1>3, <2>1 DEF SameTally, Looked
<1>4. QED
  BY <1>2, <1>3 DEF Checked

LEMMA FittedText ==
    ASSUME turn \in Turns, NEW m, Locals(turn, m), NEW fits, NEW n, n = Fitted(m, fits)
    PROVE  /\ SameTally(m, n) /\ n.delivered = m.delivered
           /\ ~n.reached => ~m.reached /\ ~(turn.limited /\ Len(m.delivered) >= OutputLimit)
<1>1. m \in MeOf(turn, m.account)
  BY DEF Locals
<1> DEFINE r == [m.result EXCEPT !.calls = FALSE]
           full == turn.limited /\ Len(m.delivered) >= OutputLimit
<1>2. CASE n = m /\ ~full
  BY <1>2 DEF SameTally
<1>3. CASE n = [m EXCEPT !.result = r, !.reached = TRUE]
  <2> HIDE DEF r
  <2>1. n.account = m.account /\ n.told = m.told /\ n.gap = m.gap /\ n.incomplete = m.incomplete
        /\ n.reached = TRUE /\ n.delivered = m.delivered
    BY <1>1, <1>3, ZenonT(60) DEF MeOf
  <2>2. QED
    BY <2>1 DEF SameTally
<1>4. QED
  BY <1>2, <1>3 DEF Fitted

LEMMA TextFramesText ==
    ASSUME turn \in Turns, NEW a \in {1, 2}, NEW w \in Seq(TextFrame(turn, a))
    PROVE  w \in Seq(AnyFrame)
<1>1. turn \in Turn
  BY TurnAssumption
<1> DEFINE S == TextOf(turn, a)
           F == TextFrame(turn, a)
<1>2. S \subseteq Seq(AnyPiece)
  BY <1>1, TextTypes
<1>3. F = [kind : {"text"}, text : S]
  BY DEF TextFrame
<1> HIDE DEF S
<1>4. F \subseteq AnyFrame
  BY <1>2, <1>3 DEF AnyFrame
<1> HIDE DEF F
<1>5. QED
  BY <1>4, SeqMonotonic DEF F

\* Text that was held back until now, and the answer's call.
HeldText(m) == IF Guarded /\ m.delivered # <<>> THEN <<Text(m.delivered)>> ELSE <<>>
LastCall(m) == IF m.result.calls THEN <<Frame("call")>> ELSE <<>>

(* What a stream's last frames make of its text.                           *)
Closing(m, u, held, called) ==
    /\ held \in Seq(AnyFrame) /\ called \in Seq(AnyFrame)
    /\ TextIn(u \o held) = TextIn(u) \o (IF Guarded THEN m.delivered ELSE <<>>)
    /\ TextIn((u \o held) \o called) = TextIn(u \o held)

LEMMA LastFramesText ==
    ASSUME turn \in Turns, NEW m, Locals(turn, m), NEW u \in Seq(AnyFrame), NEW held, NEW called,
           held = HeldText(m), called = LastCall(m)
    PROVE  Closing(m, u, held, called)
<1>1. m.delivered \in Seq(AnyPiece) /\ TextIn(u) \in Seq(AnyPiece)
  BY TextTypesOf, TextInConcat, EmptySeq
<1>2. held \in Seq(AnyFrame) /\ TextIn(held) = IF Guarded THEN m.delivered ELSE <<>>
  <2>1. CASE Guarded /\ m.delivered # <<>>
    <3> DEFINE f == Text(m.delivered)
    <3>1. f \in AnyFrame /\ f.text = m.delivered
      BY <1>1 DEF AnyFrame, Text
    <3> HIDE DEF f
    <3>2. <<f>> \in Seq(AnyFrame) /\ TextIn(<<f>>) = m.delivered
      BY <3>1, TextInOne
    <3>3. QED
      BY <2>1, <3>2 DEF f, HeldText
  <2>2. CASE ~(Guarded /\ m.delivered # <<>>)
    BY <2>2, TextInOne, EmptySeq DEF HeldText
  <2>3. QED
    BY <2>1, <2>2
<1>3. called \in Seq(AnyFrame) /\ TextIn(called) = <<>>
  <2> DEFINE f == Frame("call")
  <2>1. f \in AnyFrame /\ f.text = <<>>
    BY EmptySeq DEF AnyFrame, Frame
  <2> HIDE DEF f
  <2>2. <<f>> \in Seq(AnyFrame) /\ TextIn(<<f>>) = <<>>
    BY <2>1, TextInOne
  <2>3. QED
    BY <2>2, TextInOne, EmptySeq DEF f, LastCall
<1>4. u \o held \in Seq(AnyFrame) /\ TextIn(u \o held) = TextIn(u) \o TextIn(held)
  BY <1>2, Concats, TextInConcat
<1>5. TextIn((u \o held) \o called) = TextIn(u \o held) \o TextIn(called)
      /\ TextIn(u \o held) \in Seq(AnyPiece)
  BY <1>3, <1>4, TextInConcat
<1>6. TextIn(u \o held) \o <<>> = TextIn(u \o held)
  BY <1>5, ConcatEmptySeq
<1>7. QED
  BY <1>2, <1>3, <1>4, <1>5, <1>6 DEF Closing

(* A turn that fails with what it holds tells no more.                     *)
LEMMA FailingTells ==
    ASSUME turn \in Turns, Locals(turn, me), wire \in Open(turn, me.account), FailsWith(me),
           TextOK(turn, Here, me, wire)
    PROVE  Tells
<1>1. /\ me'.account = me.account /\ me'.gap = me.gap
      /\ ~Here => wire' = wire
      /\ Books(turn, me', wire')
      /\ OneText(wire) => OneAnswer(me', wire')
  BY FailsTells
<1>2. Clear(turn, me') => OneText(wire)
  BY <1>1 DEF TextOK, OneAnswer, Clear
<1>3. QED
  BY <1>1, <1>2 DEF Tells, Onward, Clear

LEMMA FinishStreamTells ==
    ASSUME Telling, NEW fits, FinishStream(fits)
    PROVE  Tells
<1> DEFINE e == BackfillTerminalStreamText(me)
           c == Checked(e.to)
           m == Fitted(c, fits)
           held == IF Guarded /\ m.delivered # <<>> THEN <<Text(m.delivered)>> ELSE <<>>
           called == IF m.result.calls THEN <<Frame("call")>> ELSE <<>>
           frames == (e.frames \o held) \o called
           saved == [Done(m, "save answer") EXCEPT !.result.text = <<>>]
<1>1. /\ turn \in Turns /\ turn.stream /\ me.pc = "finish" /\ me.failure = "none"
      /\ MeOK(turn, Here, me) /\ WireOK(turn, Here, me, wire) /\ After(me', wire')
      /\ IF (frames # <<>> /\ ~Here) \/ (e.to.broke /\ ~me.broke)
         THEN me' = Ended(m) /\ UNCHANGED wire
         ELSE Send(frames) /\ me' = saved
  BY DEF FinishStream, Telling, Ready
<1>2. /\ Locals(turn, me) /\ Writing(Here, me) /\ ResultFits(turn, me)
      /\ wire \in Open(turn, me.account) /\ me.account \in {1, 2}
  BY <1>1, MidwayFacts
<1>3. wire \in Seq(AnyFrame)
  BY <1>1, <1>2, OpenIsText
<1>4. Spoken(me, e)
  BY <1>1, <1>2, BackfillIsSpoken
<1>5. /\ SameBooks(me, e.to)
      /\ /\ Here /\ Finishing(me) /\ me.failure = "none" /\ Run(me.delivered, me.account, 0)
         /\ TextIn(wire) = IF turn.tools THEN <<>> ELSE me.delivered
         => Backfilled(me, e, wire)
  BY <1>1, <1>2, <1>3, BackfillText
<1> HIDE DEF e
<1>6. /\ Locals(turn, e.to) /\ Writing(Here, e.to) /\ ResultFits(turn, e.to)
      /\ e.frames \in Seq(TextFrame(turn, me.account))
  BY <1>2, <1>4 DEF Spoken, SameTurn, ResultFits
<1>7. /\ SameTally(e.to, c) /\ c.reached = e.to.reached /\ Locals(turn, c) /\ ResultFits(turn, c)
      /\ c.delivered = e.to.delivered \/ (Guarded /\ c.delivered = Unverified)
  <2>1. turn \in Turns /\ c = Checked(e.to)
    BY <1>1
  <2> HIDE DEF c
  <2>2. Looked(e.to, c)
    BY <1>6, <2>1, CheckedText
  <2>3. Prepared(e.to, Checked(e.to))
    BY <1>6, <2>1, CheckedIsPrepared
  <2>4. QED
    BY <2>1, <2>2, <2>3 DEF Looked, Prepared
<1> HIDE DEF c
<1>8. /\ SameTally(c, m) /\ m.delivered = c.delivered /\ Locals(turn, m)
      /\ ~m.reached => ~c.reached /\ ~(turn.limited /\ Len(c.delivered) >= OutputLimit)
  BY <1>1, <1>7, FittedText, FittedIsPrepared DEF Prepared
<1> HIDE DEF m
<1>9. /\ m.account = me.account /\ m.told = me.told /\ m.gap = me.gap
      /\ m.incomplete = e.to.incomplete
  BY <1>5, <1>7, <1>8 DEF SameBooks, SameTally
<1>10. e.frames \in Seq(AnyFrame)
  BY <1>1, <1>2, <1>6, TextFramesText
<1>11. /\ held \in Seq(AnyFrame) /\ called \in Seq(AnyFrame)
       /\ TextIn(e.frames \o held) = TextIn(e.frames) \o (IF Guarded THEN m.delivered ELSE <<>>)
       /\ TextIn((e.frames \o held) \o called) = TextIn(e.frames \o held)
  <2>1. held = HeldText(m) /\ called = LastCall(m)
    BY DEF HeldText, LastCall
  <2> HIDE DEF held, called
  <2>2. Closing(m, e.frames, held, called)
    BY <1>1, <1>8, <1>10, <2>1, LastFramesText
  <2>3. QED
    BY <2>2 DEF Closing
<1> HIDE DEF held, called
<1>12. frames \in Seq(AnyFrame)
  BY <1>10, <1>11, Concats
<1>13. TextIn(frames) = TextIn(e.frames) \o (IF Guarded THEN m.delivered ELSE <<>>)
  BY <1>11
<1> HIDE DEF frames
<1>14. CASE me' = Ended(m) /\ UNCHANGED wire
            /\ ((frames # <<>> /\ ~Here) \/ (e.to.broke /\ ~me.broke))
  <2>1. ~Here
    BY <1>6, <1>14 DEF Writing
  <2>2. me'.account = me.account /\ me'.gap = me.gap
    BY <1>1, <1>8, <1>9, <1>14, EndedText
  <2>3. QED
    BY <1>14, <2>1, <2>2 DEF Tells, Onward, Clear
<1>15. CASE Send(frames) /\ me' = saved
  <2>1. /\ me'.pc = "save answer" /\ me'.account = me.account /\ me'.told = me.told
        /\ me'.gap = me.gap /\ me'.incomplete = m.incomplete /\ me'.reached = m.reached
    <3>1. me' = Saving(m, <<>>)
      BY <1>15 DEF saved, Saving
    <3>2. SavesText(m, me', <<>>, m.reached)
      BY <1>1, <1>8, <3>1, DoneText
    <3>3. QED
      BY <1>9, <3>2 DEF SavesText
  <2> HIDE DEF saved
  <2>2. Onward(me, me') /\ (~Here => wire' = wire)
    BY <1>15, <2>1 DEF Onward, Clear, Send
  <2>3. ASSUME Here, Clear(turn, me') PROVE Books(turn, me', wire') /\ OneAnswer(me', wire')
    <3>1. /\ Finishing(me) /\ Run(me.delivered, me.account, 0)
          /\ TextIn(wire) = IF turn.tools THEN <<>> ELSE me.delivered
      <4>1. Books(turn, me, wire)
        BY <2>2, <2>3, TellingFacts
      <4>2. QED
        BY <1>1, <4>1 DEF Books, StreamBooks
    <3>2. Backfilled(me, e, wire)
      BY <1>1, <1>5, <2>3, <3>1
    <3>3. TextIn(wire') = m.delivered
      <4> DEFINE x == IF Guarded THEN m.delivered ELSE <<>>
      <4>1. wire' = wire \o frames
        BY <1>15, <2>3 DEF Send
      <4>2. TextIn(wire') = TextIn(wire) \o (TextIn(e.frames) \o x)
        BY <1>3, <1>12, <1>13, <4>1, TextInConcat
      <4>3. /\ m.delivered \in Seq(AnyPiece) /\ TextIn(wire) \in Seq(AnyPiece)
            /\ TextIn(e.frames) \in Seq(AnyPiece)
            /\ TextIn(wire \o e.frames) = TextIn(wire) \o TextIn(e.frames)
        BY <1>1, <1>3, <1>8, <1>10, TextTypesOf, TextInConcat
      <4>4. x \in Seq(AnyPiece)
        BY <4>3, EmptySeq
      <4> HIDE DEF x
      <4>5. TextIn(wire') = TextIn(wire \o e.frames) \o x
        BY <4>2, <4>3, <4>4, Associates
      <4>6. TextIn(wire \o e.frames) = IF turn.tools THEN <<>> ELSE e.to.delivered
        BY <3>2 DEF Backfilled
      <4>7. ~Guarded => m.delivered = e.to.delivered
        BY <1>7, <1>8
      <4>8. QED
        BY <4>3, <4>5, <4>6, <4>7, NothingMore DEF x, Guarded
    <3>4. m.delivered = e.to.delivered \/ m.delivered = Unverified
      BY <1>7, <1>8
    <3>5. OneText(wire')
      <4>1. CASE m.delivered = Unverified
        BY <3>3, <4>1 DEF OneText
      <4>2. CASE m.delivered = e.to.delivered
        <5>1. Run(TextIn(wire'), me.account, 0)
          BY <3>2, <3>3, <4>2 DEF Backfilled
        <5>2. QED
          BY <1>2, <5>1, RunIsOneText, Zenon
      <4>3. QED
        BY <3>4, <4>1, <4>2
    <3>6. MeOK(turn, Here, me') /\ WireOK(turn, Here, me', wire') /\ me'.pc \notin Over
      BY <1>1, <2>1 DEF After, Over
    <3>7. OneAnswer(me', wire')
      BY <1>1, <3>5, <3>6, OpenIsOneAnswer
    <3>8. ASSUME Whole(me') PROVE TextIn(wire') = Unverified \/ Len(TextIn(wire')) = me'.told
      <4>1. /\ ~m.reached /\ ~m.incomplete /\ ~c.reached
            /\ ~(turn.limited /\ Len(c.delivered) >= OutputLimit)
        BY <1>8, <2>1, <3>8 DEF Whole
      <4>2. Whole(e.to)
        BY <1>7, <1>9, <4>1 DEF Whole
      <4>3. CASE m.delivered = e.to.delivered
        <5>1. ~(turn.limited /\ Len(e.to.delivered) >= OutputLimit)
          BY <1>8, <4>1, <4>3
        <5>2. Len(e.to.delivered) = me.told
          BY <3>2, <4>2, <5>1 DEF Backfilled
        <5>3. QED
          BY <2>1, <3>3, <4>3, <5>2
      <4>4. QED
        BY <3>3, <3>4, <4>3
    <3>9. StreamBooks(turn, me', wire') /\ me'.pc \notin Deciding
      BY <2>1, <3>8 DEF StreamBooks, Deciding
    <3>10. QED
      BY <1>1, <3>7, <3>9 DEF Books
  <2>4. QED
    BY <2>2, <2>3 DEF Tells
<1>16. QED
  BY <1>1, <1>14, <1>15

LEMMA FailStreamTells ==
    ASSUME Telling, FailStream
    PROVE  Tells
<1>1. /\ turn \in Turns /\ me.pc = "finish" /\ MeOK(turn, Here, me) /\ WireOK(turn, Here, me, wire)
      /\ IF me.broke \/ ~Here THEN me' = Ended(me) /\ UNCHANGED wire ELSE FailsWith(me)
  BY DEF FailStream, Telling, Ready
<1>2. Locals(turn, me) /\ Writing(Here, me) /\ wire \in Open(turn, me.account)
  BY <1>1, MidwayFacts
<1>3. CASE me.broke \/ ~Here
  <2>1. ~Here /\ wire' = wire /\ me'.account = me.account /\ me'.gap = me.gap
    BY <1>1, <1>2, <1>3, EndedText DEF Writing
  <2>2. QED
    BY <2>1 DEF Tells, Onward, Clear
<1>4. CASE FailsWith(me)
  BY <1>1, <1>2, <1>4, FailingTells DEF Telling
<1>5. QED
  BY <1>1, <1>3, <1>4

LEMMA FinishSyncTells ==
    ASSUME Telling, FinishSync
    PROVE  Tells
<1> DEFINE text == Limited(me.result.text)
           d == Done(me, "save answer")
           cut == text # me.result.text
<1>1. /\ turn \in Turns /\ ~turn.stream /\ me.pc = "finish"
      /\ MeOK(turn, Here, me) /\ WireOK(turn, Here, me, wire) /\ After(me', wire')
      /\ \/ FailsWith(me)
         \/ /\ me.failure = "none" /\ UNCHANGED wire
            /\ me' = [d EXCEPT !.result.text = Limited(@), !.reached = cut]
  BY DEF FinishSync, Telling, Ready
<1>2. Locals(turn, me) /\ wire \in Open(turn, me.account) /\ me.account \in {1, 2}
  BY <1>1, MidwayFacts
<1>3. CASE FailsWith(me)
  BY <1>1, <1>2, <1>3, FailingTells DEF Telling
<1>4. CASE /\ me.failure = "none" /\ UNCHANGED wire
           /\ me' = [d EXCEPT !.result.text = Limited(@), !.reached = cut]
  <2>1. me.result.text \in Seq(AnyPiece) /\ me.result \in AnyResult
    BY <1>1, <1>2, TextTypesOf
  <2>2. text \in Seq(AnyPiece) /\ (Run(me.result.text, me.account, 0) => Run(text, me.account, 0))
    <3>1. text = Limited(me.result.text)
      OBVIOUS
    <3> HIDE DEF text
    <3>2. Shortened(me.result.text, me.account, text)
      BY <1>1, <2>1, <3>1, LimitedText
    <3>3. QED
      BY <3>2 DEF Shortened
  <2>3. me' = [d EXCEPT !.result.text = text, !.reached = cut]
    <3>1. d.result = me.result
      BY <1>1, <1>2, DoneTypes DEF Answered
    <3> HIDE DEF d
    <3>2. QED
      BY <1>4, <3>1
  <2>4. d.reached \in BOOLEAN /\ Locals(turn, d)
    BY <1>1, <1>2, DoneTypes DEF Answered, Locals, MeOf
  <2>5. /\ me'.pc = "save answer" /\ me'.account = me.account /\ me'.told = me.told
        /\ me'.gap = me.gap /\ me'.result.text = text
    <3>1. me' = SavingAs(me, text, cut)
      BY <2>3 DEF d, SavingAs
    <3> HIDE DEF text, cut
    <3>2. SavesText(me, me', text, cut)
      BY <1>1, <1>2, <3>1, DoneText
    <3>3. QED
      BY <3>2 DEF SavesText
  <2>6. me'.reached = cut
    <3>1. d \in MeOf(turn, d.account)
      BY <2>4 DEF Locals
    <3> HIDE DEF text, cut, d
    <3>2. QED
      BY <2>3, <3>1, ZenonT(60) DEF MeOf
  <2>7. Onward(me, me')
    BY <2>5 DEF Onward, Clear
  <2>8. ASSUME Here, Clear(turn, me') PROVE Books(turn, me', wire') /\ OneAnswer(me', wire')
    <3>1. TextIn(wire) = <<>> /\ Run(me.result.text, me.account, 0) /\ Len(me.result.text) = me.told
      <4>1. Books(turn, me, wire)
        BY <2>7, <2>8, TellingFacts
      <4>2. QED
        BY <1>1, <1>4, <4>1 DEF Books, PlainBooks, Over
    <3>2. TextIn(wire') = <<>>
      BY <1>4, <3>1
    <3>3. Run(me'.result.text, me'.account, 0) /\ (~me'.reached => Len(me'.result.text) = me'.told)
      BY <2>2, <2>5, <2>6, <3>1
    <3>4. PlainBooks(me', wire') /\ me'.pc \notin Deciding
      BY <2>5, <3>2, <3>3 DEF PlainBooks, Deciding
    <3>5. Books(turn, me', wire')
      BY <1>1, <3>4 DEF Books
    <3>6. MeOK(turn, Here, me') /\ WireOK(turn, Here, me', wire') /\ me'.pc \notin Over
      BY <1>1, <2>5 DEF After, Over
    <3>7. OneText(wire')
      BY <3>2, RunIsOneText, Zenon
    <3>8. QED
      BY <1>1, <3>5, <3>6, <3>7, OpenIsOneAnswer
  <2>9. QED
    BY <1>4, <2>7, <2>8 DEF Tells
<1>5. QED
  BY <1>1, <1>3, <1>4

---------------------------------------------------------------------------
(* Saving the session and ending the turn.                                 *)

\* What the steps that save the session or end a saved turn start from.
Concluding == Ready /\ Handled(me', wire', binding') /\ TextOK(turn, Here, me, wire)

SavedAs(m, pc, saved) == [m EXCEPT !.pc = pc, !.saved = saved]
SavedWell(m, n, pc)   == SameText(m, n) /\ n.pc = pc

LEMMA SavedText ==
    ASSUME turn \in Turns, NEW m, Locals(turn, m), NEW pc, NEW saved
    PROVE  SavedWell(m, SavedAs(m, pc, saved), pc)
<1>1. m \in MeOf(turn, m.account)
  BY DEF Locals
<1>2. QED
  BY <1>1, ZenonT(60) DEF SameText, MeOf, SavedAs, SavedWell

LEMMA PersistsTells ==
    ASSUME Concluding, Locals(turn, me), wire \in Open(turn, me.account),
           NEW pc, NEW conv, NEW clear, PersistSession(me, conv, clear, pc),
           \/ me.pc = "save calls" /\ pc = "send calls" /\ wire = <<>>
           \/ me.pc = "save answer" /\ pc = "conclude"
    PROVE  Tells
<1>1. turn \in Turns /\ TextOK(turn, Here, me, wire)
  BY DEF Concluding, Ready
<1>2. CASE FailsWith(me)
  BY <1>1, <1>2, FailingTells
<1>3. ASSUME NEW saved, me' = [me EXCEPT !.pc = pc, !.saved = saved], wire' = wire
      PROVE  Tells
  <2>1. SameText(me, me') /\ me'.pc = pc
    <3>1. me' = SavedAs(me, pc, saved)
      BY <1>3 DEF SavedAs
    <3>2. SavedWell(me, SavedAs(me, pc, saved), pc)
      BY <1>1, SavedText
    <3>3. QED
      BY <3>1, <3>2 DEF SavedWell
  <2>2. Onward(me, me') /\ me'.account = me.account /\ me'.told = me.told
    BY <2>1 DEF SameText, Onward, Clear
  <2>3. ASSUME Here, Clear(turn, me') PROVE Books(turn, me', wire') /\ OneAnswer(me', wire')
    <3>1. Books(turn, me, wire) /\ OneText(wire)
      BY <1>1, <2>2, <2>3 DEF Onward, TextOK, OneAnswer
    <3>2. ASSUME me.pc = "save calls", pc = "send calls", wire = <<>>
          PROVE  Books(turn, me', wire')
      <4>1. me.told = 0 /\ TextIn(wire') = <<>>
        BY <1>3, <3>1, <3>2, TextInOne DEF Books, Deciding
      <4>2. QED
        <5>1. me'.pc = "send calls" /\ me'.told = 0
          BY <2>1, <2>2, <3>2, <4>1
        <5>2. StreamBooks(turn, me', wire') /\ PlainBooks(me', wire')
          BY <4>1, <5>1 DEF StreamBooks, PlainBooks
        <5>3. Books(turn, me', wire')
          BY <5>1, <5>2 DEF Books
        <5>4. QED
          BY <5>3
    <3>3. ASSUME me.pc = "save answer", pc = "conclude"
          PROVE  Books(turn, me', wire')
      <4>1. /\ turn.stream => (Whole(me) => TextIn(wire) = Unverified \/ Len(TextIn(wire)) = me.told)
            /\ ~turn.stream => /\ TextIn(wire) = <<>> /\ Run(me.result.text, me.account, 0)
                               /\ ~me.reached => Len(me.result.text) = me.told
        BY <3>1, <3>3 DEF Books, StreamBooks, PlainBooks, Over
      <4>2. StreamBooks(turn, me', wire') \/ ~turn.stream
        BY <1>3, <2>1, <2>2, <3>3, <4>1 DEF StreamBooks, Whole, SameText
      <4>3. PlainBooks(me', wire') \/ turn.stream
        BY <1>3, <2>1, <2>2, <3>3, <4>1 DEF PlainBooks, SameText
      <4>4. me'.pc \notin Deciding
        BY <2>1, <3>3 DEF Deciding
      <4>5. QED
        BY <4>2, <4>3, <4>4 DEF Books
    <3>4. MeOK(turn, Here, me') /\ WireOK(turn, Here, me', wire') /\ me'.pc \notin Over
      BY <2>1 DEF Concluding, Handled, Over
    <3>5. OneAnswer(me', wire')
      BY <1>1, <1>3, <3>1, <3>4, OpenIsOneAnswer
    <3>6. QED
      BY <3>2, <3>3, <3>5
  <2>4. QED
    BY <1>3, <2>2, <2>3 DEF Tells
<1>4. QED
  BY <1>2, <1>3 DEF PersistSession

LEMMA SaveCallsTells ==
    ASSUME Concluding, SaveCalls
    PROVE  Tells
<1>1. Locals(turn, me) /\ wire = <<>> /\ wire \in Open(turn, me.account)
  BY DEF Concluding, Ready, MeOK, WireOK, SaveCalls, Deciding, Over
<1>2. me.pc = "save calls" /\ PersistSession(me, NoConversation, me.switched, "send calls")
  BY DEF SaveCalls
<1>3. QED
  BY <1>1, <1>2, PersistsTells

LEMMA SaveAnswerTells ==
    ASSUME Concluding, SaveAnswer
    PROVE  Tells
<1>1. me.pc = "save answer" /\ PersistSession(me, me.result.conversation, me.reached, "conclude")
  BY DEF SaveAnswer
<1>2. Locals(turn, me) /\ wire \in Open(turn, me.account)
  BY <1>1, MidwayFacts DEF Concluding, Ready
<1>3. QED
  BY <1>1, <1>2, PersistsTells

(* The last frames of a turn, and what they say.                           *)
LEMMA EndsText ==
    ASSUME turn \in Turns, Locals(turn, me), wire \in Open(turn, me.account),
           NEW u \in Open(turn, me.account), NEW kind \in EndingKinds,
           Send(u \o Close(turn, kind)), me' = Ended(me)
    PROVE  /\ Onward(me, me') /\ (~Here => wire' = wire)
           /\ Books(turn, me', wire') /\ me'.told = me.told
           /\ Here => /\ TextIn(wire') = TextIn(wire) \o TextIn(u)
                      /\ Stopped(wire') => kind = "stop"
<1> DEFINE c == Close(turn, kind)
<1>1. me'.pc \in Over /\ me'.account = me.account /\ me'.gap = me.gap /\ me'.told = me.told
  BY EndedText
<1>2. me.account \in {1, 2}
  BY DEF Locals
<1>3. wire \in Seq(AnyFrame) /\ ~Stopped(wire) /\ u \in Seq(AnyFrame) /\ ~Stopped(u)
  BY <1>2, OpenIsText
<1>4. c \in Seq(AnyFrame) /\ (Stopped(c) => kind = "stop")
  BY CloseIsWordless
<1>5. TextIn(u \o c) = TextIn(u)
  BY <1>3, ClosedText
<1>6. wire' = IF Here THEN wire \o (u \o c) ELSE wire
  BY DEF Send
<1> HIDE DEF c
<1>7. u \o c \in Seq(AnyFrame) /\ (Stopped(u \o c) => kind = "stop")
  BY <1>3, <1>4, Concats, StoppedConcat
<1>8. /\ TextIn(wire \o (u \o c)) = TextIn(wire) \o TextIn(u)
      /\ Stopped(wire \o (u \o c)) => kind = "stop"
  BY <1>3, <1>5, <1>7, TextInConcat, StoppedConcat, ZenonT(60)
<1>9. Books(turn, me', wire')
  BY <1>1, OverBooks
<1>10. QED
  BY <1>1, <1>6, <1>8, <1>9 DEF Onward, Clear

(* Announcing a call says nothing.                                         *)
LEMMA CallEndsText ==
    ASSUME turn \in Turns, Locals(turn, me), wire \in Open(turn, me.account),
           NEW fits, Send(Ending(CallFrames(fits))), me' = Ended(me),
           TextOK(turn, Here, me, wire)
    PROVE  Tells
<1>1. PICK u \in Open(turn, me.account), kind \in {"tool_calls", "length"} :
         /\ Ending(CallFrames(fits)) = u \o Close(turn, kind)
         /\ u = <<>> \/ u = <<Frame("call")>>
  BY CallFramesClose
<1>2. Send(u \o Close(turn, kind)) /\ kind \in EndingKinds /\ kind # "stop"
  BY <1>1 DEF EndingKinds
<1>3. /\ Onward(me, me') /\ (~Here => wire' = wire)
      /\ Books(turn, me', wire') /\ me'.told = me.told
      /\ Here => /\ TextIn(wire') = TextIn(wire) \o TextIn(u)
                 /\ Stopped(wire') => kind = "stop"
  BY <1>2, EndsText
<1>4. TextIn(u) = <<>>
  <2> DEFINE f == Frame("call")
  <2>1. f \in AnyFrame /\ f.text = <<>>
    BY EmptySeq DEF AnyFrame, Frame
  <2>2. u = <<>> \/ u = <<f>>
    BY <1>1
  <2> HIDE DEF f
  <2>3. QED
    BY <2>1, <2>2, TextInOne
<1>5. TextIn(wire) \o <<>> = TextIn(wire)
  <2>1. wire \in Seq(AnyFrame)
    BY OpenIsText DEF Locals
  <2>2. QED
    BY <2>1, TextInConcat, EmptySeq, NothingMore
<1>6. ASSUME Here, Clear(turn, me') PROVE OneAnswer(me', wire')
  <2>1. OneText(wire)
    BY <1>3, <1>6 DEF Onward, TextOK, OneAnswer
  <2>2. TextIn(wire') = TextIn(wire) /\ ~Stopped(wire')
    BY <1>2, <1>3, <1>4, <1>5, <1>6
  <2>3. QED
    BY <2>1, <2>2 DEF OneText, OneAnswer
<1>7. QED
  BY <1>3, <1>6 DEF Tells

LEMMA SendCallsTells ==
    ASSUME Concluding, SendCalls
    PROVE  Tells
<1>1. /\ turn \in Turns /\ Locals(turn, me) /\ wire \in Open(turn, me.account)
      /\ TextOK(turn, Here, me, wire)
  BY DEF Concluding, Ready, MeOK, WireOK, SendCalls, Over
<1>2. PICK fits : Send(Ending(CallFrames(fits)))
  BY DEF SendCalls
<1>3. QED
  BY <1>1, <1>2, CallEndsText DEF SendCalls

LEMMA ConcludeStreamTells ==
    ASSUME Concluding, ConcludeStream
    PROVE  Tells
<1> DEFINE kind == IF me.result.calls THEN "tool_calls" ELSE Reason
<1>1. /\ turn \in Turns /\ Locals(turn, me) /\ wire \in Open(turn, me.account)
      /\ TextOK(turn, Here, me, wire) /\ me.pc = "conclude" /\ turn.stream
  BY SavedAnswer DEF Concluding, ConcludeStream
<1>2. Send(Ending(<<Frame(kind)>>)) /\ me' = Ended(me)
  BY DEF ConcludeStream
<1>3. kind \in EndingKinds /\ (kind = "stop" => Whole(me))
  BY DEF Reason, EndingKinds, Whole
<1> HIDE DEF kind
<1> DEFINE c == Close(turn, kind)
<1>4. wire' = IF Here THEN wire \o c ELSE wire
  BY <1>1, <1>2, EndingIsClose DEF Send
<1>5. wire \in Seq(AnyFrame) /\ ~Stopped(wire)
  BY <1>1, OpenIsText DEF Locals
<1>6. TextIn(wire \o c) = TextIn(wire) /\ (Stopped(wire \o c) => kind = "stop")
  BY <1>3, <1>5, ClosedText
<1> HIDE DEF c
<1>7. /\ me'.pc \in Over /\ me'.account = me.account /\ me'.gap = me.gap /\ me'.told = me.told
  BY <1>1, <1>2, EndedText
<1>8. Onward(me, me')
  BY <1>7 DEF Onward, Clear
<1>9. ASSUME Here, Clear(turn, me') PROVE Books(turn, me', wire') /\ OneAnswer(me', wire')
  <2>1. Books(turn, me, wire) /\ OneText(wire)
    BY <1>1, <1>8, <1>9 DEF Onward, TextOK, OneAnswer
  <2>2. Whole(me) => TextIn(wire) = Unverified \/ Len(TextIn(wire)) = me.told
    BY <1>1, <2>1 DEF Books, StreamBooks
  <2>3. TextIn(wire') = TextIn(wire) /\ (Stopped(wire') => Whole(me))
    BY <1>3, <1>4, <1>6, <1>9
  <2>4. OneAnswer(me', wire')
    BY <1>7, <2>1, <2>2, <2>3 DEF OneText, OneAnswer
  <2>5. Books(turn, me', wire')
    BY <1>7, OverBooks
  <2>6. QED
    BY <2>4, <2>5
<1>10. QED
  BY <1>4, <1>8, <1>9 DEF Tells

LEMMA CheckedResult ==
    ASSUME turn \in Turns, Locals(turn, me), ResultFits(turn, me),
           NEW text, text = (IF turn.tools THEN Checked(me) ELSE me).result.text
    PROVE  /\ text \in TextOf(turn, me.account)
           /\ text = me.result.text \/ text = Unverified
<1>1. me \in MeOf(turn, me.account) /\ me.result \in AnyResult
  BY DEF Locals, MeOf
<1> DEFINE r == [me.result EXCEPT !.text = Unverified]
           n == Checked(me)
<1>2. Prepared(me, n)
  BY CheckedIsPrepared
<1>3. n.result.text \in TextOf(turn, me.account) /\ me.result.text \in TextOf(turn, me.account)
  BY <1>2 DEF Prepared, ResultFits
<1>4. r.text = Unverified
  BY <1>1, ZenonT(60) DEF AnyResult
<1>5. n = me \/ n = [me EXCEPT !.delivered = Unverified, !.result = r]
  BY <1>1 DEF Checked, MeOf
<1> HIDE DEF r, n
<1>6. n = me \/ n.result = r
  BY <1>1, <1>5, ZenonT(60) DEF MeOf
<1>7. n.result.text = me.result.text \/ n.result.text = Unverified
  BY <1>4, <1>6
<1>8. QED
  BY <1>3, <1>7 DEF n

LEMMA ConcludeSyncTells ==
    ASSUME Concluding, NEW fits, ConcludeSync(fits)
    PROVE  Tells
<1> DEFINE text == (IF turn.tools THEN Checked(me) ELSE me).result.text
           f == Text(text)
           g == Frame(Reason)
<1>1. /\ turn \in Turns /\ Locals(turn, me) /\ wire \in Open(turn, me.account)
      /\ ResultFits(turn, me) /\ ~MustCall(turn) /\ ~turn.stream /\ me.pc = "conclude"
      /\ me' = Ended(me) /\ TextOK(turn, Here, me, wire)
  BY SavedAnswer DEF ConcludeSync, Concluding
<1>2. Send(IF me.result.calls THEN CallFrames(fits) ELSE <<f, g>>)
  BY DEF ConcludeSync
<1>3. text \in TextOf(turn, me.account) /\ (text = me.result.text \/ text = Unverified)
  BY <1>1, CheckedResult
<1> HIDE DEF text
<1>4. CASE me.result.calls
  <2>1. Send(Ending(CallFrames(fits)))
    BY <1>1, <1>2, <1>4 DEF Ending
  <2>2. QED
    BY <1>1, <2>1, CallEndsText
<1>5. CASE ~me.result.calls
  <2>1. <<f, g>> = <<f>> \o <<g>> /\ Close(turn, Reason) = <<g>> /\ Reason \in EndingKinds
    BY <1>1, TwoFrames DEF Close, Reason, EndingKinds
  <2>2. f \in OpenFrame(turn, me.account) /\ f.text = text
    BY <1>1, <1>3 DEF OpenFrame, TextFrame, Text
  <2>3. f \in AnyFrame
    <3>1. text \in Seq(AnyPiece)
      BY <1>1, <1>3, TextTypesOf
    <3>2. QED
      BY <3>1 DEF AnyFrame, Text
  <2> HIDE DEF f, g
  <2>4. <<f>> \in Open(turn, me.account)
    BY <2>2 DEF Open
  <2>5. Send(<<f>> \o Close(turn, Reason))
    BY <1>2, <1>5, <2>1
  <2>6. /\ Onward(me, me') /\ (~Here => wire' = wire)
        /\ Books(turn, me', wire') /\ me'.told = me.told
        /\ Here => /\ TextIn(wire') = TextIn(wire) \o TextIn(<<f>>)
                   /\ Stopped(wire') => Reason = "stop"
    BY <1>1, <2>1, <2>4, <2>5, EndsText
  <2>7. TextIn(<<f>>) = text
    BY <2>2, <2>3, TextInOne
  <2>8. ASSUME Here, Clear(turn, me') PROVE OneAnswer(me', wire')
    <3>1. Books(turn, me, wire)
      BY <1>1, <2>6, <2>8 DEF Onward, TextOK
    <3>2. /\ TextIn(wire) = <<>> /\ Run(me.result.text, me.account, 0)
          /\ ~me.reached => Len(me.result.text) = me.told
      BY <1>1, <3>1 DEF Books, PlainBooks, Over
    <3>3. TextIn(wire') = text
      <4>1. text \in Seq(AnyPiece)
        BY <1>1, <1>3, TextTypesOf
      <4>2. QED
        BY <2>6, <2>7, <2>8, <3>2, <4>1, NothingMore
    <3>4. OneText(wire')
      <4>1. CASE text = Unverified
        BY <3>3, <4>1 DEF OneText
      <4>2. CASE text = me.result.text
        <5>1. Run(TextIn(wire'), me.account, 0) /\ me.account \in {1, 2}
          BY <1>1, <3>2, <3>3, <4>2 DEF Locals
        <5>2. QED
          BY <5>1, RunIsOneText, Zenon
      <4>3. QED
        BY <1>3, <4>1, <4>2
    <3>5. Stopped(wire') => ~me.reached
      BY <2>6, <2>8 DEF Reason
    <3>6. QED
      BY <1>3, <2>6, <3>2, <3>3, <3>4, <3>5 DEF OneAnswer
  <2>9. QED
    BY <2>6, <2>8 DEF Tells
<1>6. QED
  BY <1>4, <1>5

---------------------------------------------------------------------------
(* The text, step by step.                                                 *)

LEMMA TalksTell ==
    ASSUME Ready, TextOK(turn, Here, me, wire), Talks
    PROVE  Tells
<1>1. After(me', wire') => Telling
  BY DEF Telling
<1>2. ASSUME NEW d, RouterDecides(d)
      PROVE  Tells
  BY <1>1, <1>2, RouterDecidesOK, RouterDecidesTells
<1>3. ASSUME NEW f, RouterFails(f)
      PROVE  Tells
  BY <1>1, <1>3, RouterFailsOK, RouterFailsTells
<1>4. ASSUME NEW f \in {"network", "quota", "refused", "ended"}, AnswerFails(f)
      PROVE  Tells
  BY <1>1, <1>4, AnswerFailsOK, AnswerFailsTells
<1>5. ASSUME NEW f, ResumeFails(f)
      PROVE  Tells
  BY <1>1, <1>5, ResumeFailsOK, ResumeFailsTells
<1>6. ASSUME NEW f, ContinuationFails(f)
      PROVE  Tells
  BY <1>1, <1>6, ContinuationFailsOK, ContinuationFailsTells
<1>7. ASSUME NEW part \in Part, AnswerDelta(part)
      PROVE  Tells
  BY <1>1, <1>7, AnswerDeltaOK, AnswerDeltaTells
<1>8. ASSUME NEW part \in Part, ContinuationDelta(part)
      PROVE  Tells
  BY <1>1, <1>8, ContinuationDeltaOK, ContinuationDeltaTells
<1>9. ASSUME AnswerSucceeds
      PROVE  Tells
  BY <1>1, <1>9, AnswerSucceedsOK, AnswerSucceedsTells
<1>10. ASSUME SettleStream
      PROVE  Tells
  BY <1>1, <1>10, SettleStreamOK, SettleStreamTells
<1>11. ASSUME SettleSync
      PROVE  Tells
  BY <1>1, <1>11, SettleSyncOK, SettleSyncTells
<1>12. ASSUME NEW text \in Resumptions(me), Resume(text)
      PROVE  Tells
  BY <1>1, <1>12, ResumeOK, ResumeTells
<1>13. ASSUME NEW capped \in BOOLEAN, NEW calls \in BOOLEAN, NEW parts \in WholeTexts,
             ContinuationEnds(parts, capped, calls)
      PROVE  Tells
  BY <1>1, <1>13, ContinuationEndsOK, ContinuationEndsTells
<1>14. ASSUME NEW capped \in BOOLEAN, NEW calls \in BOOLEAN, NEW parts \in WholeTexts,
             SegmentEnds(parts, capped, calls)
      PROVE  Tells
  BY <1>1, <1>14, SegmentEndsOK, SegmentEndsTells
<1>15. ASSUME NEW fits \in BOOLEAN, FinishStream(fits)
      PROVE  Tells
  BY <1>1, <1>15, FinishStreamOK, FinishStreamTells
<1>16. ASSUME FailStream
      PROVE  Tells
  BY <1>1, <1>16, FailStreamOK, FailStreamTells
<1>17. ASSUME FinishSync
      PROVE  Tells
  BY <1>1, <1>17, FinishSyncOK, FinishSyncTells
<1>18. QED
  BY <1>2, <1>3, <1>4, <1>5, <1>6, <1>7, <1>8, <1>9, <1>10, <1>11, <1>12, <1>13, <1>14, <1>15, <1>16, <1>17 DEF Talks

LEMMA TalksAreBeforeTheEnd ==
    ASSUME Talks
    PROVE  UNCHANGED <<turn, client>> /\ me.pc \notin Over
<1>1. ASSUME NEW d, RouterDecides(d)
      PROVE  UNCHANGED <<turn, client>> /\ me.pc \notin Over
  BY <1>1 DEF RouterDecides, Routing, Over
<1>2. ASSUME NEW f, RouterFails(f)
      PROVE  UNCHANGED <<turn, client>> /\ me.pc \notin Over
  BY <1>2 DEF RouterFails, Routing, Over
<1>3. ASSUME NEW f, AnswerFails(f)
      PROVE  UNCHANGED <<turn, client>> /\ me.pc \notin Over
  BY <1>3 DEF AnswerFails, AnswerEnds, Over
<1>4. ASSUME NEW f, ResumeFails(f)
      PROVE  UNCHANGED <<turn, client>> /\ me.pc \notin Over
  BY <1>4 DEF ResumeFails, Over
<1>5. ASSUME NEW f, ContinuationFails(f)
      PROVE  UNCHANGED <<turn, client>> /\ me.pc \notin Over
  BY <1>5 DEF ContinuationFails, Over
<1>6. ASSUME NEW part, AnswerDelta(part)
      PROVE  UNCHANGED <<turn, client>> /\ me.pc \notin Over
  BY <1>6 DEF AnswerDelta, Over
<1>7. ASSUME NEW part, ContinuationDelta(part)
      PROVE  UNCHANGED <<turn, client>> /\ me.pc \notin Over
  BY <1>7 DEF ContinuationDelta, Over
<1>8. ASSUME AnswerSucceeds
      PROVE  UNCHANGED <<turn, client>> /\ me.pc \notin Over
  BY <1>8 DEF AnswerSucceeds, AnswerEnds, Over
<1>9. ASSUME SettleStream
      PROVE  UNCHANGED <<turn, client>> /\ me.pc \notin Over
  BY <1>9 DEF SettleStream, Over
<1>10. ASSUME SettleSync
      PROVE  UNCHANGED <<turn, client>> /\ me.pc \notin Over
  BY <1>10 DEF SettleSync, Over
<1>11. ASSUME NEW text, Resume(text)
      PROVE  UNCHANGED <<turn, client>> /\ me.pc \notin Over
  BY <1>11 DEF Resume, Over
<1>12. ASSUME NEW capped, NEW calls, NEW parts,
             ContinuationEnds(parts, capped, calls)
      PROVE  UNCHANGED <<turn, client>> /\ me.pc \notin Over
  BY <1>12 DEF ContinuationEnds, Over
<1>13. ASSUME NEW capped, NEW calls, NEW parts,
             SegmentEnds(parts, capped, calls)
      PROVE  UNCHANGED <<turn, client>> /\ me.pc \notin Over
  BY <1>13 DEF SegmentEnds, Over
<1>14. ASSUME NEW fits, FinishStream(fits)
      PROVE  UNCHANGED <<turn, client>> /\ me.pc \notin Over
  BY <1>14 DEF FinishStream, Over
<1>15. ASSUME FailStream
      PROVE  UNCHANGED <<turn, client>> /\ me.pc \notin Over
  BY <1>15 DEF FailStream, Over
<1>16. ASSUME FinishSync
      PROVE  UNCHANGED <<turn, client>> /\ me.pc \notin Over
  BY <1>16 DEF FinishSync, Over
<1>17. QED
  BY <1>1, <1>2, <1>3, <1>4, <1>5, <1>6, <1>7, <1>8, <1>9, <1>10, <1>11, <1>12, <1>13, <1>14, <1>15, <1>16 DEF Talks

LEMMA ConcludesTells ==
    ASSUME Ready, BindOK(me, binding), TextOK(turn, Here, me, wire), Concludes
    PROVE  Tells
<1>1. Handled(me', wire', binding') => Concluding
  BY DEF Concluding
<1>2. ASSUME SaveCalls
      PROVE  Tells
  BY <1>1, <1>2, SaveCallsOK, SaveCallsTells
<1>3. ASSUME SendCalls
      PROVE  Tells
  BY <1>1, <1>3, SendCallsOK, SendCallsTells
<1>4. ASSUME SaveAnswer
      PROVE  Tells
  BY <1>1, <1>4, SaveAnswerOK, SaveAnswerTells
<1>5. ASSUME ConcludeStream
      PROVE  Tells
  BY <1>1, <1>5, ConcludeStreamOK, ConcludeStreamTells
<1>6. ASSUME NEW fits, ConcludeSync(fits)
      PROVE  Tells
  BY <1>1, <1>6, ConcludeSyncOK, ConcludeSyncTells
<1>7. QED
  BY <1>2, <1>3, <1>4, <1>5, <1>6 DEF Concludes

LEMMA ConcludesAreBeforeTheEnd ==
    ASSUME Concludes
    PROVE  UNCHANGED <<turn, client>> /\ me.pc \notin Over
BY DEF Concludes, SaveCalls, SendCalls, SaveAnswer, ConcludeStream, ConcludeSync, Over

\* The invariant with the text in it.
TextInv == IInv /\ TextOK(turn, Here, me, wire)

LEMMA HandlerTells ==
    ASSUME TextInv, Talks \/ Concludes
    PROVE  TextOK(turn, Here, me, wire)'
<1>1. Ready /\ BindOK(me, binding) /\ TextOK(turn, Here, me, wire)
  BY DEF TextInv, IInv, Ready
<1>2. Tells
  BY <1>1, TalksTell, ConcludesTells
<1>3. UNCHANGED <<turn, client>> /\ me.pc \notin Over
  BY TalksAreBeforeTheEnd, ConcludesAreBeforeTheEnd
<1>4. turn \in Turns /\ me.account \in {1, 2} /\ wire \in Open(turn, me.account)
  BY <1>1, <1>3 DEF Ready, MeOK, Locals, WireOK
<1>5. ~Stopped(wire)
  BY <1>4, OpenIsText
<1>6. TextOK(turn, Here, me', wire')
  BY <1>1, <1>2, <1>4, <1>5, TellsKeeps
<1>7. turn' = turn /\ Here' = Here
  BY <1>3 DEF Here
<1>8. QED
  BY <1>6, <1>7

(* The handler returns with nothing left to say.                           *)
LEMMA ReturnTells ==
    ASSUME TextInv, Return
    PROVE  TextOK(turn, Here, me, wire)'
<1>1. /\ turn \in Turns /\ Locals(turn, me) /\ me' = Goes(me, "returned")
      /\ turn' = turn /\ wire' = wire /\ Here' = Here /\ TextOK(turn, Here, me, wire)
  BY DEF TextInv, IInv, MeOK, Return, Here
<1>2. SameText(me, me') /\ me'.pc = "returned"
  BY <1>1, GoesText
<1>3. Books(turn, me', wire')
  BY <1>2, OverBooks DEF Over
<1>4. TextOK(turn, Here, me', wire')
  BY <1>1, <1>2, <1>3 DEF TextOK, Clear, OneAnswer, SameText
<1>5. QED
  BY <1>1, <1>4

(* The books do not say who holds the lease.                               *)
LEMMA SameTextBooks ==
    ASSUME NEW m, NEW n, NEW w, SameText(m, n), n.pc = m.pc, Books(turn, m, w)
    PROVE  Books(turn, n, w)
<1>1. /\ n.account = m.account /\ n.told = m.told /\ n.said = m.said /\ n.guard = m.guard
      /\ n.tail = m.tail /\ n.delivered = m.delivered /\ n.result = m.result
      /\ n.failure = m.failure /\ n.gap = m.gap /\ n.reached = m.reached
      /\ n.incomplete = m.incomplete /\ n.pc = m.pc
  BY DEF SameText
<1>2. Kept(n) = Kept(m) /\ Whole(n) = Whole(m) /\ GuardOK(n) = GuardOK(m)
  BY <1>1 DEF Kept, Whole, GuardOK
<1>3. /\ Answering(m) => Answering(n)
      /\ Settling(m) => Settling(n)
      /\ Resuming(m) => Resuming(n)
      /\ Continuing(m) => Continuing(n)
      /\ Finishing(m) => Finishing(n)
  BY <1>1, <1>2 DEF Answering, Settling, Resuming, Continuing, Finishing
<1>4. StreamBooks(turn, m, w) => StreamBooks(turn, n, w)
  BY <1>1, <1>2, <1>3 DEF StreamBooks
<1>5. PlainBooks(m, w) => PlainBooks(n, w)
  BY <1>1 DEF PlainBooks
<1>6. QED
  BY <1>1, <1>4, <1>5 DEF Books

(* A turn that loses its lease has said what it has said.                  *)
LEMMA LoseLeaseTells ==
    ASSUME TextInv, LoseLease
    PROVE  TextOK(turn, Here, me, wire)'
<1>1. /\ turn \in Turns /\ me \in MeOf(turn, me.account)
      /\ me' = [me EXCEPT !.cut = TRUE, !.lost = TRUE]
      /\ turn' = turn /\ wire' = wire /\ Here' = Here /\ TextOK(turn, Here, me, wire)
  BY DEF TextInv, IInv, MeOK, Locals, LoseLease, Here
<1>2. SameText(me, me') /\ me'.pc = me.pc
  BY <1>1, ZenonT(60) DEF SameText, MeOf
<1>3. Books(turn, me, wire) => Books(turn, me', wire)
  BY <1>2, SameTextBooks
<1>4. TextOK(turn, Here, me', wire)
  BY <1>1, <1>2, <1>3 DEF TextOK, Clear, OneAnswer, SameText
<1>5. QED
  BY <1>1, <1>4

LEMMA LoseClientTells ==
    ASSUME TextInv, LoseClient
    PROVE  TextOK(turn, Here, me, wire)'
<1>1. turn' = turn /\ me' = me /\ wire' = wire /\ ~Here' /\ TextOK(turn, Here, me, wire)
  BY DEF TextInv, LoseClient, Here
<1>2. TextOK(turn, FALSE, me, wire)
  BY <1>1 DEF TextOK
<1>3. Here' = FALSE
  BY <1>1 DEF Here
<1>4. QED
  BY <1>1, <1>2, <1>3

LEMMA InitTextInv == Init => TextInv
<1> SUFFICES ASSUME Init PROVE TextInv
  OBVIOUS
<1>1. IInv
  BY InitIInv
<1>2. /\ turn \in Turns /\ MeOK(turn, Here, me) /\ WireOK(turn, Here, me, wire)
      /\ Locals(turn, me)
  BY <1>1 DEF IInv, MeOK
<1>3. /\ me.pc \in {"route", "answer"} /\ me.told = 0 /\ me.said = <<>> /\ me.delivered = <<>>
      /\ me.guard = EmptyGuard /\ me.tail = EmptyGuard /\ wire = <<>>
  BY DEF Init
<1>4. Books(turn, me, wire)
  <2>1. CASE me.pc = "answer"
    <3>1. Books(turn, me, <<>>)
      BY <1>2, <1>3, <2>1, StartsAnswer
    <3>2. QED
      BY <1>3, <3>1
  <2>2. CASE me.pc = "route"
    <3>1. TextIn(wire) = <<>>
      BY <1>3, TextInOne
    <3>2. StreamBooks(turn, me, wire) /\ PlainBooks(me, wire)
      BY <2>2, <3>1 DEF StreamBooks, PlainBooks
    <3>3. QED
      BY <1>3, <3>2 DEF Books
  <2>3. QED
    BY <1>3, <2>1, <2>2
<1>5. me.pc \notin Over /\ me.pc \notin {"save answer", "conclude"}
  BY <1>3 DEF Over
<1>6. OneAnswer(me, wire)
  BY <1>2, <1>4, <1>5, BooksAreOneText
<1>7. QED
  BY <1>1, <1>4, <1>6 DEF TextInv, TextOK

LEMMA NextTextInv == TextInv /\ [Next]_vars => TextInv'
<1> SUFFICES ASSUME TextInv, [Next]_vars PROVE TextInv'
  OBVIOUS
<1>1. IInv'
  BY NextIInv DEF TextInv
<1>2. ASSUME UNCHANGED <<turn, me, client, wire>> PROVE TextOK(turn, Here, me, wire)'
  BY <1>2 DEF TextInv, Here
<1>3. \/ Talks \/ Concludes \/ Return \/ LoseClient \/ LoseLease
      \/ UNCHANGED <<turn, me, client, wire>>
  BY DEF Next, HandlerStep, Talks, Concludes, StopKeepAlive, MiddlewareStops, TickerWrites,
         MiddlewareBeats, vars
<1>4. TextOK(turn, Here, me, wire)'
  BY <1>2, <1>3, HandlerTells, ReturnTells, LoseClientTells, LoseLeaseTells
<1>5. QED
  BY <1>1, <1>4 DEF TextInv

LEMMA WireIsText ==
    ASSUME IInv
    PROVE  wire \in Seq(AnyFrame)
<1>1. turn \in Turns /\ me.account \in {1, 2} /\ WireOK(turn, Here, me, wire)
  BY DEF IInv, MeOK, Locals
<1>2. CASE wire \in Open(turn, me.account)
  BY <1>1, <1>2, OpenIsText
<1>3. CASE Closed(turn, me, wire)
  <2>1. PICK u \in Open(turn, me.account), kind \in EndingKinds : wire = u \o Close(turn, kind)
    BY <1>3 DEF Closed
  <2>2. u \in Seq(AnyFrame) /\ Close(turn, kind) \in Seq(AnyFrame)
    BY <1>1, OpenIsText, CloseIsWordless
  <2>3. QED
    BY <2>1, <2>2, Concats
<1>4. QED
  BY <1>1, <1>2, <1>3 DEF WireOK

(* The pieces on the wire are numbered through and have one author, and a stop comes after all of *)
(* them.                                                                   *)
LEMMA TextInvOneAnswer == TextInv => TextIsOneAnswer
<1> SUFFICES ASSUME TextInv, Shown # Unverified, ~me.gap,
                    ~(turn.stream /\ Guarded /\ me.account = 2)
             PROVE  /\ \A i \in DOMAIN Shown : Shown[i].n = i /\ Shown[i].by = Shown[1].by
                    /\ Sent({"stop"}) # {} => Len(Shown) = me.told
  BY DEF TextIsOneAnswer
<1>1. OneAnswer(me, wire)
  BY DEF TextInv, TextOK, Clear, Guarded
<1>2. PICK b \in 0..2 : Run(Shown, b, 0)
  BY <1>1 DEF OneAnswer, OneText, Shown
<1>3. wire \in Seq(AnyFrame)
  BY WireIsText DEF TextInv
<1>4. Shown \in Seq(AnyPiece)
  BY <1>3, TextInConcat, EmptySeq DEF Shown
<1>5. ASSUME NEW i \in DOMAIN Shown PROVE Shown[i].n = i /\ Shown[i].by = Shown[1].by
  <2>1. DOMAIN Shown = 1..Len(Shown) /\ Len(Shown) \in Nat
    BY <1>4, LenProperties
  <2>2. 1 \in DOMAIN Shown /\ 0 + i = i
    BY <2>1
  <2>3. Shown[i].by = b /\ Shown[i].n = 0 + i /\ Shown[1].by = b
    BY <1>2, <2>2, Zenon DEF Run
  <2>4. QED
    BY <2>2, <2>3
<1>6. ASSUME Sent({"stop"}) # {} PROVE Len(Shown) = me.told
  <2>1. Stopped(wire)
    BY <1>6 DEF Sent, Stopped
  <2>2. QED
    BY <1>1, <2>1 DEF OneAnswer, Shown
<1>7. QED
  BY <1>5, <1>6

\* Text that reaches the client is one answer of one account, every piece once and in order, and
\* an answer that ends with "stop" is all upstream said (server.go 1771-2310): for any limits,
\* any number of continuations and any number of losses.
THEOREM TextReachesAsOneAnswer == Spec => []TextIsOneAnswer
BY InitTextInv, NextTextInv, TextInvOneAnswer, PTL DEF Spec

=============================================================================
