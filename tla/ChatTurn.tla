------------------------------ MODULE ChatTurn ------------------------------
(***************************************************************************)
(* One turn of openaiChat (internal/web/server.go) from the moment it owns its *)
(* lease: the tool router, the answer with its single failover, the repair of a *)
(* stream that broke, the continuations, and the one ending the client gets. *)
(*                                                                         *)
(* A piece of text is numbered within the answer it belongs to and says which *)
(* of the turn's identities wrote it. The account router is reduced to what it *)
(* may answer here (AccountRequests has the rest): identity 1 is the account the *)
(* turn starts with, 2 its successor.                                          *)
(***************************************************************************)
EXTENDS Integers, FiniteSets, SequencesExt

CONSTANTS Turns,             \* the requests a client may send
          OutputLimit,       \* pieces that fit a limited answer
          MaxContinuations,  \* segments a long answer may be continued by
          MaxPieces,         \* bound: pieces of one upstream call
          MaxDisturbances    \* bound: the client leaves, the lease ends

VARIABLES turn,      \* the request
          me,        \* the handler's locals
          client,    \* "there" or "gone"
          binding,   \* what the session store holds for the turn's thread
          wire,      \* the frames the client was sent
          heart,     \* the goroutines that write keep-alive comments
          stray      \* history: a comment was written where none may be

vars == <<turn, me, client, binding, wire, heart, stray>>

\* accountId and conversation of the thread, as stored by an earlier turn: none, one of the
\* account the turn runs on, or one of an account that is not active any more.
Turn == [stream : BOOLEAN, tools : BOOLEAN, choice : {"auto", "required"}, rounds : BOOLEAN,
         limited : BOOLEAN, evidence : BOOLEAN, stored : {"none", "own", "other"}]

ASSUME TurnAssumption ==
    /\ Turns \subseteq Turn
    /\ OutputLimit \in Nat \ {0} /\ MaxContinuations \in Nat \ {0}
    /\ MaxPieces \in Nat \ {0} /\ MaxDisturbances \in Nat

Overload == <<"over", "load">>   \* upstream's sentence about too many requests
Part == {"prose", "claim", "over", "load"}
Unverified == <<[by |-> 0, n |-> 1, part |-> "prose"]>>   \* the gateway's own refusal

Parts(text) == [i \in DOMAIN text |-> text[i].part]
IsPlaceholder(text) == Parts(text) = Overload

NoConversation == [of |-> 0, role |-> "none"]
Conversation(account, role) == [of |-> account, role |-> role]

EmptyGuard == [pending |-> <<>>, released |-> FALSE]
NoResult == [text |-> <<>>, conversation |-> NoConversation, capped |-> FALSE,
             calls |-> FALSE, spent |-> FALSE]

RoutesTools(t) == t.tools /\ t.rounds
Required(t) == t.tools /\ t.choice = "required"

Init ==
    /\ turn \in Turns
    /\ client = "there"
    /\ binding = CASE turn.stored = "none"  -> [account |-> 0, conversation |-> NoConversation]
                   [] turn.stored = "own"   -> [account |-> 1, conversation |-> Conversation(1, "thread")]
                   [] turn.stored = "other" -> [account |-> 3, conversation |-> Conversation(3, "thread")]
    /\ me = [pc |-> IF RoutesTools(turn) THEN "route" ELSE "answer",
             account |-> 1, switched |-> turn.stored = "other",
             cut |-> FALSE, lost |-> FALSE,
             conversation |-> IF turn.stored = "own" THEN Conversation(1, "thread") ELSE NoConversation,
             told |-> 0, said |-> <<>>, guard |-> EmptyGuard, tail |-> EmptyGuard,
             delivered |-> <<>>, visible |-> FALSE, broke |-> FALSE, reached |-> FALSE,
             incomplete |-> FALSE, segment |-> 0, result |-> NoResult, failure |-> "none",
             saved |-> "no", gap |-> FALSE]
    /\ wire = <<>>
    /\ heart = [ticker |-> IF turn.stream THEN "on" ELSE "off", middleware |-> "on"]
    /\ stray = FALSE

---------------------------------------------------------------------------
(* What the handler's steps are made of.                                   *)

Here == client = "there"
Cut == me.cut \/ ~Here      \* ctx.Err() # nil
Goes(m, pc) == [m EXCEPT !.pc = pc]

\* What the handler does not look at any more is out of scope.
Done(m, pc) ==
    [m EXCEPT !.pc = pc, !.said = <<>>, !.guard = EmptyGuard, !.tail = EmptyGuard,
              !.delivered = <<>>, !.visible = FALSE, !.broke = FALSE, !.segment = 0]
Ended(m) ==
    [Done(m, "ended") EXCEPT !.conversation = NoConversation, !.reached = FALSE, !.incomplete = FALSE,
                             !.result = NoResult, !.failure = "none", !.switched = FALSE]

Frame(kind) == [kind |-> kind, text |-> <<>>]
Text(text) == [kind |-> "text", text |-> text]

\* A frame is written for a client that is there; a failed write is ignored.
Send(frames) == wire' = IF Here THEN wire \o frames ELSE wire

\* A JSON body answers at once; a stream says it is over.
Ending(frames) == IF turn.stream THEN Append(frames, Frame("done")) ELSE frames

\* How a call may end without an answer. A request that was cancelled during the handshake looks
\* like a broken connection.
Failures == IF Cut THEN {"ended", "network"} ELSE {"network", "quota", "refused"}
IsUpstreamAccountFailure(failure) == failure \in {"network", "quota"}
IsTransientUpstream(failure) == failure = "network"

QuotaFailureWithoutContent(result) ==
    IsPlaceholder(result.text) \/ (result.text = <<>> /\ ~result.calls /\ result.spent)

\* Mutant: a turn may move on as often as it fails.
SlipShouldFailoverAccount(m, failure, result, visible) ==
    ~visible /\ IF failure # "none" THEN IsUpstreamAccountFailure(failure)
                ELSE QuotaFailureWithoutContent(result)

ShouldFailoverAccount(m, failure, result, visible) ==
    /\ ~m.switched /\ ~visible
    /\ IF failure # "none" THEN IsUpstreamAccountFailure(failure)
       ELSE QuotaFailureWithoutContent(result)

\* activateNextAccount: the router may not advance or have no usable successor, the successor may
\* be replaced before the turn holds its lease, in which case the turn is left with the lease it
\* has given up; else the turn goes on under the successor.
ActivateNextAccount(m, failure, result, visible) ==
    IF Cut \/ ~ShouldFailoverAccount(m, failure, result, visible)
    THEN {[moved |-> FALSE, to |-> m]}
    ELSE {[moved |-> FALSE, to |-> m],
          [moved |-> FALSE, to |-> [m EXCEPT !.cut = TRUE]],
          [moved |-> TRUE, to |-> [m EXCEPT !.account = 2, !.switched = TRUE,
                                            !.conversation = NoConversation, !.told = 0]]}

\* Mutant: the failed turn says so without ending its stream.
SlipFailsWith(m) == Send(<<Frame("error")>>) /\ me' = Ended(m)

\* A turn that fails has one frame for it.
FailsWith(m) ==
    /\ Send(Ending(<<Frame("error")>>))
    /\ me' = Ended(m)

---------------------------------------------------------------------------
(* The client, the lease and the keep-alive goroutines.                    *)

Undisturbed == (IF me.lost THEN 1 ELSE 0) + (IF Here THEN 0 ELSE 1) < MaxDisturbances

LoseClient ==
    /\ Here /\ me.pc # "returned" /\ Undisturbed
    /\ client' = "gone"
    /\ UNCHANGED <<turn, me, binding, wire, heart, stray>>

\* The request's deadline passes, or its account is taken out of the pool.
LoseLease ==
    /\ ~me.cut /\ me.pc \notin {"ended", "returned"} /\ Undisturbed
    /\ me' = [me EXCEPT !.cut = TRUE, !.lost = TRUE]
    /\ UNCHANGED <<turn, client, binding, wire, heart, stray>>

Comment == stray' = (stray \/ ~turn.stream \/ me.pc = "returned")

\* The handler's own ticker, which answers to the handler alone.
TickerWrites ==
    /\ heart.ticker = "on" /\ Here
    /\ Comment
    /\ UNCHANGED <<turn, me, client, binding, wire, heart>>

\* The middleware beats once the response is known to be a stream.
MiddlewareBeats ==
    /\ heart.middleware = "on" /\ Here /\ turn.stream
    /\ Comment
    /\ UNCHANGED <<turn, me, client, binding, wire, heart>>

\* It stops for a client that is gone, and when the handler has returned.
MiddlewareStops ==
    /\ heart.middleware = "on"
    /\ ~Here \/ (me.pc = "ended" /\ heart.ticker = "off")
    /\ heart' = [heart EXCEPT !.middleware = "done"]
    /\ UNCHANGED <<turn, me, client, binding, wire, stray>>

\* stopKeepAlive, deferred.
StopKeepAlive ==
    /\ me.pc = "ended" /\ heart.ticker = "on"
    /\ heart' = [heart EXCEPT !.ticker = "off"]
    /\ UNCHANGED <<turn, me, client, binding, wire, stray>>

Return ==
    /\ me.pc = "ended" /\ heart.ticker = "off" /\ heart.middleware = "done"
    /\ me' = Goes(me, "returned")
    /\ UNCHANGED <<turn, client, binding, wire, heart, stray>>

---------------------------------------------------------------------------
(* The tool router.                                                        *)

Routing == me.pc \in {"route", "repair", "require"}

\* What a decision leads to when it came without error; "invalid" is one that cannot be parsed.
Decided(m, decision) ==
    CASE decision = "calls" -> me' = Goes(m, "save calls") /\ UNCHANGED wire
      [] decision = "invalid" /\ m.pc = "route" -> me' = Goes(m, "repair") /\ UNCHANGED wire
      [] decision = "invalid" /\ m.pc # "route" /\ ~turn.stream -> FailsWith(m)
      [] OTHER -> IF ~Required(turn) THEN me' = Goes(m, "answer") /\ UNCHANGED wire
                  ELSE IF m.pc # "require" THEN me' = Goes(m, "require") /\ UNCHANGED wire
                  ELSE FailsWith(m)

\* A call that repeats a stuck one is dropped, as if none had been selected.
RouterDecides(decision) ==
    /\ Routing
    /\ Decided(me, decision)
    /\ UNCHANGED <<turn, client, binding, heart, stray>>

\* A failed call is repeated once under the successor. Only the first call's failure ends the
\* turn.
RouterFails(failure) ==
    /\ Routing /\ failure \in Failures
    /\ \E a \in ActivateNextAccount(me, failure, NoResult, FALSE) :
         CASE a.moved -> me' = a.to /\ UNCHANGED wire
           [] ~a.moved /\ me.pc = "route" -> FailsWith(a.to)
           [] OTHER -> Decided(a.to, "invalid")
    /\ UNCHANGED <<turn, client, binding, heart, stray>>

---------------------------------------------------------------------------
(* Ending with an answer or with tool calls.                               *)

\* Mutant: the thread is bound to the chat that just answered, though that was the router's.
SlipPersisted(m, conversation, clear) ==
    [account |-> m.account,
     conversation |-> IF conversation = NoConversation THEN Conversation(m.account, "router")
                      ELSE conversation]

\* What persistSession writes; a turn without a conversation of its own keeps the stored one.
Persisted(m, conversation, clear) ==
    [account |-> m.account,
     conversation |->
        IF ~clear /\ conversation = NoConversation /\ binding.account = m.account
        THEN binding.conversation ELSE conversation]

\* The write may fail; it may be ignored as stale; near the message cap the conversation is left.
PersistSession(m, conversation, clear, pc) ==
    LET new == Persisted(m, conversation, clear)
    IN \/ /\ binding' \in {new, [new EXCEPT !.conversation = NoConversation]}
          /\ me' = [m EXCEPT !.pc = pc, !.saved = "yes"]
          /\ UNCHANGED wire
       \/ /\ me' = [m EXCEPT !.pc = pc, !.saved = "stale"]
          /\ UNCHANGED <<binding, wire>>
       \/ /\ FailsWith(m)
          /\ UNCHANGED binding

\* The router's chat is thrown away: the thread keeps its conversation, or loses that of the
\* account the turn has left.
SaveCalls ==
    /\ me.pc = "save calls"
    /\ PersistSession(me, NoConversation, me.switched, "send calls")
    /\ UNCHANGED <<turn, client, heart, stray>>

\* A call that does not fit the limit is not sent in part.
CallFrames(fits) ==
    IF fits THEN <<Frame("call"), Frame("tool_calls")>> ELSE <<Frame("length")>>

\* The streaming response is written after the ticker has stopped.
SendCalls ==
    /\ me.pc = "send calls"
    /\ \E fits \in IF turn.limited THEN BOOLEAN ELSE {TRUE} : Send(Ending(CallFrames(fits)))
    /\ me' = Ended(me)
    /\ heart' = [heart EXCEPT !.ticker = "off"]
    /\ UNCHANGED <<turn, client, binding, stray>>

---------------------------------------------------------------------------
(* The streamed answer.                                                    *)

\* Feed: text that may still become the overload sentence is held back.
Feed(guard, text) ==
    LET pending == guard.pending \o text
    IN CASE guard.released -> [guard |-> guard, out |-> text, held |-> FALSE]
         [] ~guard.released /\ IsPrefix(Parts(pending), Overload) ->
              [guard |-> [guard EXCEPT !.pending = pending], out |-> <<>>, held |-> TRUE]
         [] OTHER -> [guard |-> [pending |-> <<>>, released |-> TRUE], out |-> pending, held |-> FALSE]

Guarded == turn.tools   \* text waits until it can be checked against the tools' evidence

\* truncateToOutputLimit, over what was delivered before.
Clip(m, text) ==
    IF turn.limited /\ Len(m.delivered) + Len(text) > OutputLimit
    THEN [text |-> SubSeq(text, 1, OutputLimit - Len(m.delivered)), reached |-> TRUE]
    ELSE [text |-> text, reached |-> m.reached]

\* emitDelta, behind the placeholder guard.
Delivered(m, text) ==
    LET clip == Clip(m, text)
        d == [m EXCEPT !.delivered = @ \o clip.text, !.reached = clip.reached]
    IN CASE m.reached          -> [to |-> m, frames |-> <<>>]
         [] ~m.reached /\ Guarded -> [to |-> d, frames |-> <<>>]
         [] ~m.reached /\ ~Guarded /\ Here ->
              [to |-> [d EXCEPT !.visible = TRUE], frames |-> <<Text(clip.text)>>]
         [] OTHER              -> [to |-> [d EXCEPT !.broke = TRUE], frames |-> <<>>]

EmitDelta(m, text) ==
    LET fed == Feed(m.guard, text)
        g == [m EXCEPT !.guard = fed.guard]
    IN IF m.reached \/ fed.held THEN [to |-> IF m.reached THEN m ELSE g, frames |-> <<>>]
       ELSE Delivered(g, fed.out)

Piece(m, k, part) == [by |-> m.account, n |-> m.told + k, part |-> part]

\* Upstream numbers the pieces of its answer on from what it has told in this conversation.
Speak(m, parts) == [k \in DOMAIN parts |-> Piece(m, k, parts[k])]

Says(m, text) == [m EXCEPT !.said = @ \o text, !.told = @ + Len(text)]

\* The second half of the overload sentence alone is prose; claims matter beside tools.
Speakable(part) ==
    /\ Len(me.said) < MaxPieces
    /\ part = "load" => me.said # <<>> /\ Last(me.said).part = "over"
    /\ part = "claim" => turn.tools

AnswerDelta(part) ==
    /\ me.pc = "answer" /\ turn.stream /\ Speakable(part) /\ ~me.broke
    /\ LET text == Speak(me, <<part>>)
           e == EmitDelta(Says(me, text), text)
       IN me' = e.to /\ Send(e.frames)
    /\ UNCHANGED <<turn, client, binding, heart, stray>>

\* The conversation a call took place in: a new one of its account if it named none.
InConversation(m) ==
    IF m.conversation = NoConversation THEN Conversation(m.account, "thread") ELSE m.conversation

\* Answers that come whole: at the end of a call, or as the result of one that does not stream.
WholeTexts ==
    {<<>>, <<"prose">>, <<"prose", "prose">>, Overload} \cup IF turn.tools THEN {<<"claim">>} ELSE {}

\* How a call that was streamed, or one that was not, may end well: a call that brought no text
\* brings a call of its own or the news that the quota is spent; a long one was cut short.
Results(m, streamed) ==
    [text : IF streamed # <<>> THEN {streamed} ELSE {Speak(m, t) : t \in WholeTexts},
     conversation : {InConversation(m)}, capped : BOOLEAN,
     calls : IF turn.tools THEN BOOLEAN ELSE {FALSE}, spent : BOOLEAN]

Sensible(r) ==
    /\ r.text = <<>> => (r.calls \/ r.spent) /\ ~r.capped
    /\ r.capped => ~IsPlaceholder(r.text) /\ ~r.calls
    /\ r.spent => r.text = <<>> /\ ~r.calls

\* The whole request is sent again, into a conversation of its own. Only the guard is reset.
Replays(a) == [a EXCEPT !.said = <<>>, !.guard = EmptyGuard]

\* The end of the answering call: with an answer, or with a failure and what was said so far.
AnswerEnds(h, failure, result) ==
    /\ LET m == [h EXCEPT !.failure = failure, !.result = result]
           stays == [moved |-> FALSE, to |-> m]
       IN \E a \in IF turn.stream /\ (m.broke \/ ~Here) THEN {stays}
                   ELSE ActivateNextAccount(m, failure, result, turn.stream /\ m.visible) :
            me' = IF a.moved THEN Replays(a.to) ELSE Goes(a.to, "settle")
    /\ UNCHANGED <<turn, client, binding, wire, heart, stray>>

\* A text that came whole counts as told when the call ends.
Told(m, text) == IF m.said = <<>> THEN [m EXCEPT !.told = @ + Len(text)] ELSE m

\* History: a part of a long streamed answer came without deltas.
Gap(m, text, long) ==
    [m EXCEPT !.gap = @ \/ (turn.stream /\ long /\ m.said = <<>> /\ text # <<>>)]

AnswerSucceeds ==
    /\ me.pc = "answer" /\ ~me.broke
    /\ \E r \in {r \in Results(me, me.said) : Sensible(r)} :
          AnswerEnds(Gap(Told(me, r.text), r.text, r.capped), "none", r)

\* A call that was cut off hands back what it has; one that failed otherwise has no result.
AnswerFails(failure) ==
    /\ me.pc = "answer"
    /\ failure \in IF me.broke THEN {"ended"} ELSE Failures
    /\ \E r \in {NoResult, [NoResult EXCEPT !.text = me.said, !.conversation = InConversation(me)]} :
          AnswerEnds(me, failure, r)

---------------------------------------------------------------------------
(* Repairing and continuing an answer.                                     *)

\* A stream that was cut off by the limit is an answer.
Excused(m) ==
    IF m.failure # "none" /\ m.reached /\ m.visible
    THEN [m EXCEPT !.failure = "none", !.result.text = m.delivered] ELSE m

Resumable(m) ==
    /\ m.visible /\ ~m.broke /\ Here /\ ~turn.tools
    /\ IsTransientUpstream(m.failure)
    /\ m.result.conversation # NoConversation

\* Finish(FALSE): what the guard still holds is released; from then on it holds nothing back.
Flushed(guard) == [guard EXCEPT !.pending = <<>>, !.released = TRUE]

\* A write that fails while the handler itself writes ends it on the spot.
Writes(e, m) ==
    /\ Send(e.frames)
    /\ me' = IF e.to.broke /\ ~m.broke THEN Ended(e.to) ELSE e.to

Continuable(m) ==
    /\ m.failure = "none" /\ ~m.reached /\ m.result.capped
    /\ turn.stream \/ ~turn.limited \/ Len(m.result.text) < OutputLimit

NextPc(m) == IF Continuable(m) THEN "continue" ELSE "finish"

Recovered(m) ==
    IF m.failure = "none" /\ QuotaFailureWithoutContent(m.result)
    THEN FailsWith(m)
    ELSE LET pending == m.guard.pending
             ready == [m EXCEPT !.guard = Flushed(@), !.said = <<>>, !.pc = NextPc(m)]
         IN IF pending = <<>> THEN me' = ready /\ UNCHANGED wire
            ELSE Writes(Delivered(ready, pending), ready)

SettleStream ==
    /\ me.pc = "settle" /\ turn.stream
    /\ LET m == Excused(me)
       IN IF Resumable(m) THEN me' = Goes(m, "resume") /\ UNCHANGED wire ELSE Recovered(m)
    /\ UNCHANGED <<turn, client, binding, heart, stray>>

\* Mutant: what upstream repeats is not taken out.
SlipTrimContinuationOverlap(partial, continuation) == continuation

\* The longest start of the continuation that the partial text ends with is not repeated.
TrimContinuationOverlap(partial, continuation) ==
    LET overlaps == {k \in 1..Len(continuation) :
                        k <= Len(partial) /\ IsSuffix(SubSeq(continuation, 1, k), partial)}
    IN SubSeq(continuation, 1 + Max(overlaps \cup {0}), Len(continuation))

\* The same conversation goes on after the text the client has; upstream may repeat the last piece.
Resumptions(m) ==
    {Speak(m, t) : t \in WholeTexts} \cup
    {<<Last(m.delivered)>> \o Speak(m, t) : t \in {<<>>, <<"prose">>}}

Resume(text) ==
    /\ me.pc = "resume"
    /\ LET new == TrimContinuationOverlap(me.delivered, text)
           e == IF new = <<>> THEN [to |-> me, frames |-> <<>>] ELSE EmitDelta(me, new)
           fresh == Cardinality({i \in DOMAIN text : text[i].n > me.told})
           done == [e.to EXCEPT !.failure = "none", !.told = @ + fresh,
                                !.result.text = e.to.delivered, !.result.capped = FALSE]
       IN IF text = <<>> \/ IsPlaceholder(text)
          THEN Recovered([me EXCEPT !.told = @ + fresh])
          ELSE IF done.broke THEN me' = Ended(done) /\ UNCHANGED wire
          ELSE Send(e.frames) /\ me' = [done EXCEPT !.said = <<>>, !.pc = NextPc(done)]
    /\ UNCHANGED <<turn, client, binding, heart, stray>>

ResumeFails(failure) ==
    /\ me.pc = "resume" /\ failure \in Failures
    /\ Recovered(me)
    /\ UNCHANGED <<turn, client, binding, heart, stray>>

ContinuationDelta(part) ==
    /\ me.pc = "continue" /\ turn.stream /\ Speakable(part) /\ ~me.broke
    /\ LET text == Speak(me, <<part>>)
           fed == Feed(me.tail, text)
           m == [Says(me, text) EXCEPT !.tail = fed.guard]
           e == IF fed.held THEN [to |-> m, frames |-> <<>>] ELSE EmitDelta(m, fed.out)
       IN me' = e.to /\ Send(e.frames)
    /\ UNCHANGED <<turn, client, binding, heart, stray>>

CutShort(m) == [m EXCEPT !.incomplete = TRUE, !.pc = "finish"]

Extended(m, text, capped, calls) ==
    [m EXCEPT !.result.text = @ \o text, !.result.capped = capped, !.result.calls = @ \/ calls,
              !.segment = @ + 1, !.said = <<>>, !.tail = EmptyGuard]

\* A streamed segment counts unless it is empty or the overload sentence. One that came without
\* deltas counts as well, and is not sent.
ContinuationEnds(whole, capped, calls) ==
    /\ me.pc = "continue" /\ turn.stream /\ ~me.broke
    /\ whole # <<>> => me.said = <<>>
    /\ calls => turn.tools
    /\ LET text == IF me.said = <<>> THEN Speak(me, whole) ELSE me.said
           known == Gap(Told(me, text), text, TRUE)
           pending == me.tail.pending
           e == IF pending = <<>> THEN [to |-> known, frames |-> <<>>] ELSE EmitDelta(known, pending)
           m == Extended(e.to, text, capped, calls)
           last == m.segment = MaxContinuations
       IN /\ capped => text # <<>>
          /\ IF text = <<>> THEN me' = CutShort(me) /\ UNCHANGED wire
             ELSE IF IsPlaceholder(text) THEN me' = CutShort(known) /\ UNCHANGED wire
             ELSE IF m.broke THEN me' = Ended(m) /\ UNCHANGED wire
             ELSE /\ Send(e.frames)
                  /\ me' = IF capped /\ last THEN CutShort(m)
                           ELSE IF capped /\ ~m.reached THEN m ELSE Goes(m, "finish")
    /\ UNCHANGED <<turn, client, binding, heart, stray>>

ContinuationFails(failure) ==
    /\ me.pc = "continue"
    /\ failure \in IF me.broke THEN {"ended"} ELSE Failures
    /\ me' = CutShort(me)
    /\ UNCHANGED <<turn, client, binding, wire, heart, stray>>

SettleSync ==
    /\ me.pc = "settle" /\ ~turn.stream
    /\ me' = Goes(me, NextPc(me))
    /\ UNCHANGED <<turn, client, binding, wire, heart, stray>>

\* Without a stream the segment is taken as it is.
SegmentEnds(parts, capped, calls) ==
    /\ me.pc = "continue" /\ ~turn.stream
    /\ capped => parts # <<>>
    /\ calls => turn.tools
    /\ LET m == Extended(Says(me, Speak(me, parts)), Speak(me, parts), capped, calls)
           full == turn.limited /\ Len(m.result.text) >= OutputLimit
       IN me' = IF parts = <<>> THEN CutShort(me)
                ELSE IF full \/ (capped /\ m.segment = MaxContinuations) THEN CutShort(m)
                ELSE IF capped THEN m ELSE Goes(m, "finish")
    /\ UNCHANGED <<turn, client, binding, wire, heart, stray>>

---------------------------------------------------------------------------
(* Finishing.                                                              *)

Claims(text) == \E i \in DOMAIN text : text[i].part = "claim"
EvidenceAllows(text) == Claims(text) => turn.evidence

Limited(text) == IF turn.limited /\ Len(text) > OutputLimit THEN SubSeq(text, 1, OutputLimit) ELSE text

BackfillTerminalStreamText(m) ==
    LET text == Limited(m.result.text)
    IN CASE m.delivered # <<>> \/ text = <<>> -> [to |-> m, frames |-> <<>>]
         [] m.delivered = <<>> /\ text # <<>> /\ Guarded ->
              [to |-> [m EXCEPT !.delivered = text], frames |-> <<>>]
         [] OTHER -> EmitDelta(m, text)

\* A claim without evidence is replaced, unless the turn itself calls a tool.
Checked(m) ==
    IF Guarded /\ ~m.result.calls /\ ~EvidenceAllows(Limited(m.result.text))
    THEN [m EXCEPT !.delivered = Unverified, !.result.text = Unverified] ELSE m

\* Calls that do not fit what the text has left are dropped, and the answer counts as cut short.
Fitted(m, fits) ==
    IF turn.limited /\ (Len(m.delivered) >= OutputLimit \/ (m.result.calls /\ ~fits))
    THEN [m EXCEPT !.result.calls = FALSE, !.reached = TRUE] ELSE m

FinishStream(fits) ==
    /\ me.pc = "finish" /\ turn.stream /\ me.failure = "none"
    /\ ~fits => turn.limited /\ me.result.calls
    /\ LET e == BackfillTerminalStreamText(me)
           m == Fitted(Checked(e.to), fits)
           held == IF Guarded /\ m.delivered # <<>> THEN <<Text(m.delivered)>> ELSE <<>>
           frames == e.frames \o held \o IF m.result.calls THEN <<Frame("call")>> ELSE <<>>
       IN IF (frames # <<>> /\ ~Here) \/ (e.to.broke /\ ~me.broke)
          THEN me' = Ended(m) /\ UNCHANGED wire
          ELSE Send(frames) /\ me' = [Done(m, "save answer") EXCEPT !.result.text = <<>>]
    /\ UNCHANGED <<turn, client, binding, heart, stray>>

\* A failure goes to the client if it is there, and to the account only then.
FailStream ==
    /\ me.pc = "finish" /\ turn.stream /\ me.failure # "none"
    /\ IF me.broke \/ ~Here THEN me' = Ended(me) /\ UNCHANGED wire
       ELSE FailsWith(me)
    /\ UNCHANGED <<turn, client, binding, heart, stray>>

FinishSync ==
    /\ me.pc = "finish" /\ ~turn.stream
    /\ CASE me.failure # "none" -> FailsWith(me)
         [] me.failure = "none" /\ QuotaFailureWithoutContent(me.result) ->
              FailsWith(me)
         [] OTHER ->
              /\ me' = [Done(me, "save answer") EXCEPT
                           !.result.text = Limited(@),
                           !.reached = Limited(me.result.text) # me.result.text]
              /\ UNCHANGED wire
    /\ UNCHANGED <<turn, client, binding, heart, stray>>

SaveAnswer ==
    /\ me.pc = "save answer"
    /\ PersistSession(me, me.result.conversation, me.reached, "conclude")
    /\ UNCHANGED <<turn, client, heart, stray>>

Reason == IF me.reached \/ me.incomplete THEN "length" ELSE "stop"

ConcludeStream ==
    /\ me.pc = "conclude" /\ turn.stream
    /\ Send(Ending(<<Frame(IF me.result.calls THEN "tool_calls" ELSE Reason)>>))
    /\ me' = Ended(me)
    /\ UNCHANGED <<turn, client, binding, heart, stray>>

\* Calls found in the answer take its place.
ConcludeSync(fits) ==
    /\ me.pc = "conclude" /\ ~turn.stream
    /\ ~fits => turn.limited /\ me.result.calls
    /\ Send(IF me.result.calls THEN CallFrames(fits)
            ELSE LET m == IF turn.tools THEN Checked(me) ELSE me
                 IN <<Text(m.result.text), Frame(Reason)>>)
    /\ me' = Ended(me)
    /\ UNCHANGED <<turn, client, binding, heart, stray>>

---------------------------------------------------------------------------
HandlerStep ==
    \/ \E d \in {"invalid", "nothing", "calls"} : RouterDecides(d)
    \/ \E f \in {"network", "quota", "refused", "ended"} :
          RouterFails(f) \/ AnswerFails(f) \/ ResumeFails(f) \/ ContinuationFails(f)
    \/ SaveCalls \/ SendCalls
    \/ \E part \in Part : AnswerDelta(part) \/ ContinuationDelta(part)
    \/ AnswerSucceeds \/ SettleStream \/ SettleSync
    \/ me.pc = "resume" /\ \E text \in Resumptions(me) : Resume(text)
    \/ \E capped, calls \in BOOLEAN :
          \E parts \in WholeTexts :
             ContinuationEnds(parts, capped, calls) \/ SegmentEnds(parts, capped, calls)
    \/ \E fits \in BOOLEAN : FinishStream(fits) \/ ConcludeSync(fits)
    \/ FailStream \/ FinishSync \/ SaveAnswer \/ ConcludeStream
    \/ StopKeepAlive \/ Return

Next ==
    \/ HandlerStep
    \/ MiddlewareStops \/ TickerWrites \/ MiddlewareBeats
    \/ LoseClient \/ LoseLease

Spec == Init /\ [][Next]_vars

\* The handler runs, its calls end within their deadlines, and the goroutine it waits for gets a
\* turn. Nothing is asked of the client, the lease or the comments.
Fairness == WF_vars(HandlerStep) /\ WF_vars(MiddlewareStops)

FairSpec == Spec /\ Fairness

---------------------------------------------------------------------------
TypeOK ==
    /\ turn \in Turns
    /\ me.pc \in {"route", "repair", "require", "answer", "settle", "resume", "continue", "finish",
                  "save calls", "send calls", "save answer", "conclude", "ended", "returned"}
    /\ me.account \in {1, 2} /\ me.failure \in {"none", "network", "quota", "refused", "ended"}
    /\ client \in {"there", "gone"}
    /\ heart.ticker \in {"on", "off"} /\ heart.middleware \in {"on", "done"}

EndingKinds == {"error", "stop", "length", "tool_calls"}
SuccessKinds == EndingKinds \ {"error"}

Sent(kinds) == {i \in DOMAIN wire : wire[i].kind \in kinds}

\* The text of all frames; the others carry none.
TextIn(frames) == FlattenSeq([i \in DOMAIN frames |-> frames[i].text])
Shown == TextIn(wire)

\* A client that stays gets exactly one ending, after everything else and followed only by the
\* end of the stream; a turn that must call a tool never ends as prose; an answer is announced
\* as finished only after its session was saved; and no keep-alive comment is
\* written into a plain answer or after the handler has returned (server.go 1771-2310, sse_keepalive.go 138-154).
OneEnding ==
    /\ \A i, j \in Sent(EndingKinds) : i = j
    /\ \A i \in Sent(EndingKinds) :
          SubSeq(wire, i + 1, Len(wire)) = (IF turn.stream THEN <<Frame("done")>> ELSE <<>>)
    /\ me.pc = "returned" /\ Here => Sent(EndingKinds) # {}
    /\ ~stray
    /\ Required(turn) /\ turn.rounds => Sent({"text", "stop"}) = {}
    /\ Sent(SuccessKinds) # {} => me.saved # "no"

\* Text that reaches the client is one answer of one account, every piece once and in order, and
\* an answer that ends with "stop" is all upstream said. (Held-back text of a turn that changed
\* its account is the exception NothingUnverifiedIsShown is about.)
TextIsOneAnswer ==
    Shown # Unverified /\ ~me.gap /\ ~(turn.stream /\ Guarded /\ me.account = 2) =>
        /\ \A i \in DOMAIN Shown : Shown[i].n = i /\ Shown[i].by = Shown[1].by
        /\ Sent({"stop"}) # {} => Len(Shown) = me.told

\* The thread is left with a conversation only of the account it is bound to, and never with the
\* throw-away chat of the router; and the account it is bound to is the one that answered.
BindingFitsTheAnswer ==
    /\ binding.conversation # NoConversation =>
          binding.conversation.of = binding.account /\ binding.conversation.role = "thread"
    /\ me.saved = "yes" => binding.account = me.account
    /\ me.saved = "yes" /\ ~Guarded =>
          \A i \in Sent({"text"}) : \A k \in DOMAIN wire[i].text :
             wire[i].text[k].by = binding.account

\* Every turn ends, whatever upstream, the client and the account router do.
TurnsReturn == <>(me.pc = "returned")

\* What the repository says, and the code does not do (server.go 1820-1823): "hold
\* natural-language deltas until the full answer can be checked against the current turn's tool
\* evidence. Once a client has seen a false 'deployed successfully' delta it cannot be
\* retracted." What the first account said is neither checked nor dropped when the turn moves on.
NothingUnverifiedIsShown ==
    turn.stream /\ Guarded /\ Sent({"call"}) = {} => EvidenceAllows(Shown)
=============================================================================
