-------------------------- MODULE PortableHistory --------------------------
(***************************************************************************)
(* The messages a session keeps (portable_history.go), the tool protocol    *)
(* they must obey (tool_state.go), and what the agent loop reads from them   *)
(* (agent_ledger.go): pure functions on sequences of messages.              *)
(*                                                                         *)
(* A message is [role, text, calls, callId]: calls is the sequence of       *)
(* [id, sig] an assistant asks for (sig stands for the name with the        *)
(* normalised arguments), callId is what a tool message answers.            *)
(***************************************************************************)
EXTENDS Naturals, Sequences, SequencesExt, FiniteSetsExt

CONSTANTS MaxPortableMessages,   \* maxPortableMessages
          MaxPortableBytes,      \* maxPortableHistoryBytes, in units of a short message
          MaxPortableToolCalls   \* maxPortableToolCalls

ASSUME LimitsAssumption ==
    /\ MaxPortableMessages \in Nat \ {0}
    /\ MaxPortableBytes \in Nat \ {0}
    /\ MaxPortableToolCalls \in Nat \ {0}

NoText == "none"
NoCall == 0
PortableRoles == {"system", "user", "assistant", "tool"}

\* Results that tell a failure; two that differ in a number are one failure.
LargeText == "large"
FailedTexts == {"exit 1", "exit 2"}
FailureKey(text) == IF text \in FailedTexts THEN "exit #" ELSE text

UserMessage(text) == [role |-> "user", text |-> text, calls |-> <<>>, callId |-> NoCall]
AssistantMessage(text, calls) ==
    [role |-> "assistant", text |-> text, calls |-> calls, callId |-> NoCall]
ToolMessage(id, text) == [role |-> "tool", text |-> text, calls |-> <<>>, callId |-> id]

---------------------------------------------------------------------------
(* What is kept of a message, and of a conversation.                       *)

IsNamed(c) == c.id # NoCall

\* The calls that have an ID.
NamedCalls(calls) ==
    IF \A c \in ToSet(calls) : IsNamed(c) THEN calls ELSE SelectSeq(calls, IsNamed)

\* Only an assistant asks for calls, and only the first ones are kept.
SanitizedMessage(m) ==
    [m EXCEPT !.calls = IF m.role = "assistant"
                        THEN NamedCalls(SubSeq(m.calls, 1, Min({Len(m.calls), MaxPortableToolCalls})))
                        ELSE <<>>,
              !.callId = IF m.role = "tool" THEN m.callId ELSE NoCall]

\* What is left of a message is worth keeping.
IsPortable(m) ==
    /\ m.role \in PortableRoles
    /\ m.text # NoText \/ m.role = "tool" \/ m.calls # <<>>

\* A history of which nothing is dropped is kept as it is.
SanitizedMessages(h) ==
    IF \A m \in ToSet(h) : SanitizedMessage(m) = m /\ IsPortable(m) THEN h
    ELSE LET clean == [i \in DOMAIN h |-> SanitizedMessage(h[i])] IN SelectSeq(clean, IsPortable)

\* A large message weighs as much as three short ones.
PortableMessagesBytes(h) == Len(h) + 2 * Cardinality({i \in DOMAIN h : h[i].text = LargeText})

Fits(h) == Len(h) <= MaxPortableMessages /\ PortableMessagesBytes(h) <= MaxPortableBytes

From(h, i) == SubSeq(h, i, Len(h))

LastUser(h) == Max({i \in DOMAIN h : h[i].role = "user"} \cup {0})

\* An assistant with calls and the tool messages right after it are one unit.
StartsUnit(h, i) ==
    ~ /\ h[i].role = "tool"
      /\ \E j \in 1..(i - 1) :
            /\ h[j].role = "assistant" /\ h[j].calls # <<>>
            /\ \A k \in (j + 1)..i : h[k].role = "tool"

\* Slip: the history is cut at any message.
SlipAnchoredTailAnywhere(h) ==
    LET u     == LastUser(h)
        taken == {i \in (u + 1)..Len(h) : Fits(<<h[u]>> \o From(h, i))}
    IN <<h[u]>> \o From(h, Min(taken \cup {Len(h) + 1}))

\* The last user message, and the longest tail of whole units that fits after it.
AnchoredTail(h) ==
    LET u      == LastUser(h)
        anchor == <<h[u]>>
        starts == {i \in (u + 1)..Len(h) : StartsUnit(h, i)}
        taken  == {i \in starts : \A j \in starts : j >= i => Fits(anchor \o From(h, j))}
    IN anchor \o From(h, Min(taken \cup {Len(h) + 1}))

\* Without a user message the oldest messages go, one at a time.
FittingTail(h) ==
    From(h, Min({i \in DOMAIN h : Fits(From(h, i))} \cup {Len(h)}))

BoundedPortableMessages(h) ==
    LET clean == SanitizedMessages(h) IN
    CASE clean = <<>> \/ Fits(clean) -> clean
      [] ~Fits(clean) /\ LastUser(clean) > 0 -> AnchoredTail(clean)
      [] OTHER -> FittingTail(clean)

---------------------------------------------------------------------------
(* Two histories against each other.                                       *)

\* The longest end of left that is a beginning of right.
Overlap(left, right) ==
    Max({n \in 0..Min({Len(left), Len(right)}) :
            From(left, Len(left) - n + 1) = SubSeq(right, 1, n)})

PortableTransition(parent, target) ==
    LET p == BoundedPortableMessages(parent)
        t == BoundedPortableMessages(target)
        n == Overlap(p, t)
    IN [drop |-> Len(p) - n, delta |-> From(t, n + 1)]

\* Slip: what the client repeats is appended again.
SlipMergePortableMessagesTwice(history, incoming) ==
    BoundedPortableMessages(BoundedPortableMessages(history) \o BoundedPortableMessages(incoming))

MergePortableMessages(history, incoming) ==
    LET h == BoundedPortableMessages(history)
        i == BoundedPortableMessages(incoming)
    IN BoundedPortableMessages(h \o From(i, Overlap(h, i) + 1))
=============================================================================
