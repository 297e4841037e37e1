---------------------------- MODULE ToolProtocol ----------------------------
(***************************************************************************)
(* The tool protocol of a conversation (tool_state.go) and the evidence the *)
(* agent loop gathers from it (agent_ledger.go), as functions on sequences   *)
(* of messages.                                                            *)
(***************************************************************************)
EXTENDS PortableHistory

CONSTANT MaxToolRounds   \* maxToolRounds()

ASSUME RoundsAssumption == MaxToolRounds \in Nat \ {0}

CallIds(m) == ToSet([i \in DOMAIN m.calls |-> m.calls[i].id])

---------------------------------------------------------------------------
(* validateToolConversation: a state over the messages read so far.         *)

NothingRead == [pending |-> {}, completed |-> {}, valid |-> TRUE]

ReadAssistant(state, m) ==
    [state EXCEPT
       !.pending = @ \cup CallIds(m),
       !.valid   = /\ @
                   /\ NoCall \notin CallIds(m)
                   /\ Cardinality(CallIds(m)) = Len(m.calls)
                   /\ CallIds(m) \cap state.completed = {}]

ReadTool(state, m) ==
    [pending   |-> state.pending \ {m.callId},
     completed |-> state.completed \cup {m.callId},
     valid     |-> state.valid /\ m.callId # NoCall /\ m.callId \in state.pending]

ReadMessage(state, m) ==
    IF state.pending # {} /\ m.role # "tool" THEN [state EXCEPT !.valid = FALSE]
    ELSE CASE m.role = "assistant" -> ReadAssistant(state, m)
           [] m.role = "tool"      -> ReadTool(state, m)
           [] OTHER                -> state

ReadConversation(h) ==
    LET read[k \in 0..Len(h)] == IF k = 0 THEN NothingRead ELSE ReadMessage(read[k - 1], h[k])
    IN read[Len(h)]

ValidToolConversation(h) == ReadConversation(h).valid /\ ReadConversation(h).pending = {}

---------------------------------------------------------------------------
(* buildAgentLedger and what is decided from it.                            *)

\* Only the current user turn counts.
ActiveMessages(h) == IF LastUser(h) <= 1 THEN h ELSE From(h, LastUser(h))

AskedCalls(h) ==
    FlattenSeq([i \in DOMAIN h |->
        IF h[i].role = "assistant" THEN NamedCalls(h[i].calls) ELSE <<>>])

ToolRounds(h) ==
    Cardinality({i \in DOMAIN h : h[i].role = "assistant" /\ CallIds(h[i]) \ {NoCall} # {}})

LastAsked(h, id) == Max({i \in DOMAIN h : h[i].role = "assistant" /\ id \in CallIds(h[i])} \cup {0})

\* The last result that answers the last time the call was made.
ResultOf(h, id) ==
    LET answers == {i \in DOMAIN h : h[i].role = "tool" /\ h[i].callId = id /\ i > LastAsked(h, id)}
    IN IF answers = {} THEN NoText ELSE h[Max(answers)].text

\* The calls in the order they were asked; an ID asked twice means what it meant last.
Evidence(h) ==
    LET asked   == AskedCalls(h)
        last(i) == Max({j \in DOMAIN asked : asked[j].id = asked[i].id})
    IN [i \in DOMAIN asked |->
           [id |-> asked[i].id, sig |-> asked[last(i)].sig, result |-> ResultOf(h, asked[i].id)]]

Completed(h) ==
    LET all == Evidence(h) IN
    FlattenSeq([i \in DOMAIN all |-> IF all[i].result # NoText THEN <<all[i]>> ELSE <<>>])

Pending(h) ==
    LET all == Evidence(h) IN
    FlattenSeq([i \in DOMAIN all |-> IF all[i].result = NoText THEN <<all[i]>> ELSE <<>>])

NoProgressSeen == [stagnant |-> <<>>, failures |-> {}, repeatedCall |-> FALSE,
                   repeatedFailure |-> FALSE, signature |-> NoText]

\* Slip: the count is not reset when the result changes.
SlipStagnationForever(seen, e) ==
    IF e.sig \in DOMAIN seen.stagnant THEN seen.stagnant[e.sig].count + 1 ELSE 1

\* How often a call in a row has returned what it returns now.
Stagnation(seen, e) ==
    IF e.sig \in DOMAIN seen.stagnant /\ seen.stagnant[e.sig].result = e.result
    THEN seen.stagnant[e.sig].count + 1
    ELSE 1

WeighEvidence(seen, e) ==
    LET count   == Stagnation(seen, e)
        failure == <<e.sig, FailureKey(e.result)>>
        stuck   == count >= 3
        failing == e.result \in FailedTexts /\ failure \in seen.failures
    IN [stagnant        |-> [s \in DOMAIN seen.stagnant \cup {e.sig} |->
                                IF s = e.sig THEN [result |-> e.result, count |-> count]
                                             ELSE seen.stagnant[s]],
        failures        |-> IF e.result \in FailedTexts THEN seen.failures \cup {failure}
                                                        ELSE seen.failures,
        repeatedCall    |-> seen.repeatedCall \/ stuck,
        repeatedFailure |-> seen.repeatedFailure \/ failing,
        signature       |-> IF failing \/ (stuck /\ seen.signature = NoText) THEN e.sig
                                                                              ELSE seen.signature]

AgentLedger(h) ==
    LET done == Completed(h)
        seen[k \in 0..Len(done)] ==
            IF k = 0 THEN NoProgressSeen ELSE WeighEvidence(seen[k - 1], done[k])
    IN seen[Len(done)]

BlocksRepeatedToolCall(ledger, sig) ==
    (ledger.repeatedFailure \/ ledger.repeatedCall) /\ ledger.signature = sig

RemoveRepeatedToolCalls(calls, ledger) ==
    SelectSeq(calls, LAMBDA c : ~BlocksRepeatedToolCall(ledger, c.sig))

LimitToolCalls(calls, n) == SubSeq(calls, 1, Min({Len(calls), Max({n, 1})}))

\* openaiChat turns the conversation away before it is sent anywhere.
TurnedAway(h) ==
    \/ ~ValidToolConversation(h)
    \/ Pending(ActiveMessages(h)) # <<>>
    \/ /\ AgentLedger(ActiveMessages(h)).repeatedFailure
       /\ ToolRounds(ActiveMessages(h)) >= MaxToolRounds
=============================================================================
