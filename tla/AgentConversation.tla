-------------------------- MODULE AgentConversation --------------------------
(***************************************************************************)
(* The conversations an agent client builds, one message at a time, and what *)
(* the gateway makes of each: what it keeps (PortableHistory), what it lets   *)
(* through (ToolProtocol) and what it sends upstream (PromptBudget). The      *)
(* client keeps the tool protocol, except for MaxStray messages.              *)
(***************************************************************************)
EXTENDS PromptBudget

CONSTANTS Signatures,    \* the calls a model can ask for
          UserTexts,     \* what a user or an answer says
          Results,       \* what a call returns
          MaxLength,     \* bound: messages of the conversation
          MaxParallel,   \* bound: calls asked for at once
          MaxStray       \* bound: messages against the protocol

ASSUME ConversationAssumption ==
    /\ MaxParallel \in 1..MaxPortableToolCalls
    /\ NoText \notin UserTexts

VARIABLES messages,   \* the conversation so far
          stray       \* messages sent against the protocol

vars == <<messages, stray>>

LastCall == Max({c.id : c \in ToSet(AskedCalls(messages))} \cup {NoCall})

Open == {e.id : e \in ToSet(Pending(messages))}

Send(m) ==
    /\ Len(messages) < MaxLength
    /\ messages' = Append(messages, m)

Init == messages = <<>> /\ stray = 0

\* The client's instructions come first.
Instruct ==
    /\ messages = <<>>
    /\ Send([UserMessage("short") EXCEPT !.role = "system"])
    /\ UNCHANGED stray

UserSays(text) ==
    /\ Open = {}
    /\ Send(UserMessage(text))
    /\ UNCHANGED stray

AssistantAnswers(text) ==
    /\ Open = {} /\ messages # <<>>
    /\ Send(AssistantMessage(text, <<>>))
    /\ UNCHANGED stray

\* The model asks for calls; the gateway gives each a fresh ID.
AssistantCalls(sigs) ==
    /\ Open = {} /\ messages # <<>>
    /\ Send(AssistantMessage(NoText, [i \in DOMAIN sigs |-> [id |-> LastCall + i, sig |-> sigs[i]]]))
    /\ UNCHANGED stray

ToolReturns(id, text) ==
    /\ id \in Open
    /\ Send(ToolMessage(id, text))
    /\ UNCHANGED stray

\* A result nobody asked for or sent twice, a call whose ID is used again, a user who cuts in.
Stray(m) ==
    /\ stray < MaxStray
    /\ Send(m)
    /\ stray' = stray + 1

StrayMessages ==
    {ToolMessage(id, "done") : id \in (1..(LastCall + 1)) \ Open}
        \cup {AssistantMessage(NoText, <<[id |-> id, sig |-> s]>>) : id \in 1..LastCall, s \in Signatures}
        \cup (IF Open = {} THEN {} ELSE {UserMessage("short")})

Next ==
    \/ Instruct
    \/ \E text \in UserTexts : UserSays(text)
    \/ \E text \in UserTexts : AssistantAnswers(text)
    \/ \E n \in 1..MaxParallel : \E sigs \in [1..n -> Signatures] : AssistantCalls(sigs)
    \/ \E id \in Open, text \in Results : ToolReturns(id, text)
    \/ \E m \in StrayMessages : Stray(m)

Spec == Init /\ [][Next]_vars

---------------------------------------------------------------------------
(* Properties.                                                             *)

\* Bounding is stable, since it is applied on every read and every write
\* (materializeHistoryLocked), and goes over the limits only when it keeps one message.
BoundingIsStable ==
    LET kept == BoundedPortableMessages(messages) IN
    /\ BoundedPortableMessages(kept) = kept
    /\ Fits(kept) \/ Len(kept) = 1

\* A response stored as a transition from its parent reads back as it was
\* (portableTransition: "represents target exactly as parent[drop:]+delta").
TransitionIsExact ==
    \A parent \in Prefixes(messages) :
        LET p == BoundedPortableMessages(parent)
            t == PortableTransition(p, messages)
        IN /\ t.drop \in 0..Len(p)
           /\ BoundedPortableMessages(From(p, t.drop + 1) \o t.delta) = BoundedPortableMessages(messages)

\* A client may send only what is new, or repeat any end of what the gateway has: the
\* conversation it continues is the same, nothing doubled and nothing lost
\* (mergePortableMessages: "handles both Responses client styles").
BothClientStylesContinue ==
    Fits(messages) =>
        \A n \in 1..Len(messages) :
            messages[n].role = "assistant" =>
                \A k \in 1..(n + 1) :
                    (\A i \in (n + 1)..Len(messages) : messages[i].role \in {"user", "tool"}) =>
                        MergePortableMessages(SubSeq(messages, 1, n), From(messages, k)) = messages

\* A conversation goes on as it was: what a turn stores reads back exactly, bounding it again
\* changes nothing, and the client that continues it finds it whole.
ConversationsContinue == BoundingIsStable /\ TransitionIsExact /\ BothClientStylesContinue

\* The reference definition of the tool protocol: IDs are never used twice, and the messages
\* after an assistant with calls are exactly one result for each of them
\* (validateToolConversation).
ObeysToolProtocol(h) ==
    LET asks(i)    == IF i \in DOMAIN h /\ h[i].role = "assistant" THEN CallIds(h[i]) ELSE {}
        results(i) == {j \in DOMAIN h : j > i /\ \A k \in (i + 1)..j : h[k].role = "tool"}
    IN /\ \A i, j \in DOMAIN h : i # j => asks(i) \cap asks(j) = {}
       /\ \A i \in DOMAIN h : asks(i) # {} =>
             /\ {h[j].callId : j \in results(i)} = asks(i)
             /\ Cardinality(results(i)) = Cardinality(asks(i))
       /\ \A j \in DOMAIN h : h[j].role = "tool" => \E i \in DOMAIN h : asks(i) # {} /\ j \in results(i)

\* What the gateway accepts as a conversation is what the protocol defines, and what it keeps
\* of one that names its user still obeys: no result is parted from its call, however much had
\* to go (boundedPortableMessages: "blindly slicing the tail would create an orphan tool
\* result").
ToolProtocolIsKept ==
    /\ ValidToolConversation(messages) <=> ObeysToolProtocol(messages)
    /\ ReadConversation(messages).valid /\ LastUser(messages) > 0 =>
          ReadConversation(BoundedPortableMessages(messages)).valid

\* A call is taken for stuck exactly when it has returned one result three times in a row or
\* one failure twice, and the call that is held back is one of those
\* (buildAgentLedger, removeRepeatedToolCalls).
OnlyStuckCallsAreHeldBack ==
    LET ledger == AgentLedger(messages)
        done   == Completed(messages)
        next(i, j) == i < j /\ done[i].sig = done[j].sig
                            /\ \A k \in (i + 1)..(j - 1) : done[k].sig # done[i].sig
        stuck(s) == \E i, j, k \in DOMAIN done :
                        /\ done[i].sig = s /\ next(i, j) /\ next(j, k)
                        /\ done[i].result = done[j].result /\ done[j].result = done[k].result
        failing(s) == \E i, j \in DOMAIN done :
                        /\ i < j /\ done[i].sig = s /\ done[j].sig = s
                        /\ {done[i].result, done[j].result} \subseteq FailedTexts
                        /\ FailureKey(done[i].result) = FailureKey(done[j].result)
    IN /\ ledger.repeatedCall <=> \E s \in Signatures : stuck(s)
       /\ ledger.repeatedFailure <=> \E s \in Signatures : failing(s)
       /\ \A s \in Signatures :
             BlocksRepeatedToolCall(ledger, s) =>
                 stuck(s) \/ failing(s)

\* A conversation that is let through goes upstream with all its instructions and its whole
\* current turn, with every result beside its call, within the budget, and without a hole
\* other than around a task anchor (selectPromptMessages).
PromptIsWhole ==
    \A continuing \in BOOLEAN :
        LET units  == {i \in DOMAIN messages : StartsUnit(messages, i)}
            chosen == SelectedUnits(PromptUnits(messages), messages, continuing)
            prompt == SelectPromptMessages(messages, continuing)
            passed == {u \in units : u \notin chosen /\ ~IsTaskAnchor(units, messages, u)}
        IN messages # <<>> /\ ~TurnedAway(messages) /\ ~PromptExceeded(units, messages) =>
              /\ ObeysToolProtocol(prompt)
              /\ PortableMessagesBytes(prompt) <= InputBudget
              /\ ToSet(From(messages, LastUserUnit(units, messages))) \subseteq ToSet(prompt)
              /\ \A u \in passed :
                    /\ messages[u].role # "system"
                    /\ \A v \in chosen : v < u => \/ messages[v].role = "system"
                                                  \/ IsTaskAnchor(units, messages, v)
=============================================================================
