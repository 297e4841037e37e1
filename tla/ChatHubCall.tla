----------------------------- MODULE ChatHubCall -----------------------------
(***************************************************************************)
(* One call of the ChatHub client (chathub/client.go): the calling goroutine,  *)
(* the watcher that hangs up when the request is cancelled and the pinger that *)
(* keeps the connection alive, over one WebSocket. Upstream sends any frames; *)
(* the network may fail at any time.                                          *)
(*                                                                         *)
(* Every write holds writeMu and ends within its own deadline, so a write is   *)
(* one step. A frame's size stands for its bytes; an update has one argument.  *)
(***************************************************************************)
EXTENDS AnswerStream

CONSTANTS Ids,                     \* the message IDs upstream uses
          Frames,                  \* what upstream may send
          MaxRetainedEventCount,
          MaxRetainedEventBytes,
          Chars,                   \* what texts are made of
          MaxFrames, MaxParts, MaxPings, MaxDisturbances   \* bounds

Text == Seq(Chars)

UpstreamMessage ==
    [kind : STRING, id : Ids \cup {NoId}, text : Text, completed : BOOLEAN, call : STRING]

\* What the read loop can take apart: a frame of one of the types, the parts of an update or of
\* a result in their places.
ASSUME FrameAssumption ==
    /\ NoId \notin Ids /\ Implicit \notin Ids /\ Implicit # NoId /\ NoId \notin Text
    /\ MaxRetainedEventCount \in Nat /\ MaxRetainedEventBytes \in Nat
    /\ \A f \in Frames :
          /\ f.size \in Nat
          /\ f.type = "update" =>
                /\ f.cursor \in Ids \cup {NoId} /\ f.write \in Text
                /\ f.last \in BOOLEAN /\ f.refused \in BOOLEAN /\ IsFiniteSet(f.calls)
                /\ f.messages \in Seq(UpstreamMessage)
          /\ f.type = "result" => f.message \in Text \cup {NoId} /\ f.error \in BOOLEAN
          /\ f.type = "completion" => f.error \in BOOLEAN

VARIABLES call,      \* where the calling goroutine stands and what it returns
          view,      \* what it has made of the frames so far
          conn,      \* the connection
          closer,    \* auxiliary: who hung up first
          cancelled, \* the request's context has ended: its client left, or its budget is spent
          late,      \* the overall deadline has passed
          watcher, pinger,
          pingErr,   \* the pinger's report is in the channel
          stopSent,  \* the stop frame is on the wire
          log,       \* auxiliary: the frames handled so far
          used       \* how much of each bound is used

vars == <<call, view, conn, closer, cancelled, late, watcher, pinger, pingErr, stopSent, log, used>>

EmptyView ==
    [answers |-> NewAnswerStream, streamed |-> <<>>, final |-> <<>>, resultError |-> FALSE,
     throttling |-> "unknown", events |-> <<>>, truncated |-> FALSE, reported |-> <<>>,
     grace |-> FALSE]

Init ==
    /\ call = [pc |-> "dial", parts |-> 0, outcome |-> "none", text |-> <<>>]
    /\ view = EmptyView
    /\ conn = "none" /\ closer = "nobody"
    /\ cancelled = FALSE /\ late = FALSE
    /\ watcher = "off" /\ pinger = "off" /\ pingErr = FALSE /\ stopSent = FALSE
    /\ log = <<>>
    /\ used = [pings |-> 0, disturbances |-> 0]

Goes(pc) == call' = [call EXCEPT !.pc = pc]

\* Every return runs the deferred functions first, those of the pinger only if it was started.
Returns(outcome, text) ==
    call' = [pc |-> IF pinger = "off" THEN "stop watcher" ELSE "stop pinger",
             parts |-> 0, outcome |-> outcome, text |-> text]

\* A context that ends, a deadline, a break and a caller's failure disturb the call.
Disturbs ==
    /\ used.disturbances < MaxDisturbances
    /\ used' = [used EXCEPT !.disturbances = @ + 1]

HangUp(who) ==
    /\ conn' = "closed"
    /\ closer' = IF closer = "nobody" THEN who ELSE closer

CanWrite == conn \in {"open", "broken"}
CannotWrite == conn \in {"broken", "closed"}

---------------------------------------------------------------------------
(* Establishing the connection.                                            *)

DialSucceeds ==
    /\ call.pc = "dial" /\ ~cancelled
    /\ conn' = "open"
    /\ watcher' = "starting"
    /\ Goes("hello")
    /\ UNCHANGED <<view, closer, cancelled, late, pinger, pingErr, stopSent, log, used>>

\* A refused upgrade carries its status; 429 is a rate limit of its own.
DialFails(outcome) ==
    /\ call.pc = "dial"
    /\ cancelled => outcome = "dial"
    /\ call' = [call EXCEPT !.pc = "done", !.outcome = outcome]
    /\ UNCHANGED <<view, conn, closer, cancelled, late, watcher, pinger, pingErr, stopSent, log, used>>

SendHello ==
    /\ call.pc = "hello"
    /\ \/ CanWrite /\ Goes("greeting")
       \/ CannotWrite /\ Returns("handshake", <<>>)
    /\ UNCHANGED <<view, conn, closer, cancelled, late, watcher, pinger, pingErr, stopSent, log, used>>

\* The acknowledgement starts the pinger; no answer within 45 s, a rejection or anything else fails.
ReadGreeting ==
    /\ call.pc = "greeting"
    /\ \/ conn = "open" /\ Goes("payload") /\ pinger' = "ticking"
       \/ Returns("handshake", <<>>) /\ UNCHANGED pinger
    /\ UNCHANGED <<view, conn, closer, cancelled, late, watcher, pingErr, stopSent, log, used>>

SendPayload ==
    /\ call.pc = "payload"
    /\ \/ CanWrite /\ Goes("loop")
       \/ CannotWrite /\ Returns("send", <<>>)
    /\ UNCHANGED <<view, conn, closer, cancelled, late, watcher, pinger, pingErr, stopSent, log, used>>

---------------------------------------------------------------------------
(* The goroutines beside the call.                                         *)

\* A goroutine that waits in its select is committed by the first channel that closes.
ContextEnds ==
    /\ ~cancelled /\ call.pc # "done"
    /\ cancelled' = TRUE
    /\ watcher' = IF watcher = "waiting" THEN "woken" ELSE watcher
    /\ Disturbs
    /\ UNCHANGED <<call, view, conn, closer, late, pinger, pingErr, stopSent, log>>

\* One that gets no turn before the call ends finds either channel closed.
WatcherStarts ==
    /\ watcher = "starting"
    /\ \/ ~cancelled /\ call.pc # "await watcher" /\ watcher' = "waiting"
       \/ cancelled /\ watcher' = "woken"
       \/ call.pc = "await watcher" /\ watcher' = "missed"
    /\ UNCHANGED <<call, view, conn, closer, cancelled, late, pinger, pingErr, stopSent, log, used>>

\* Mutant: it hangs up before the stop frame is written.
SlipWatcherSendsStop ==
    /\ watcher = "woken"
    /\ watcher' = "hanging up"
    /\ HangUp("watcher")
    /\ UNCHANGED <<call, view, cancelled, late, pinger, pingErr, stopSent, log, used>>

WatcherSendsStop ==
    /\ watcher = "woken"
    /\ watcher' = "hanging up"
    /\ \/ CanWrite /\ stopSent' = TRUE
       \/ CannotWrite /\ UNCHANGED stopSent
    /\ UNCHANGED <<call, view, conn, closer, cancelled, late, pinger, pingErr, log, used>>

\* Mutant: the stop frame is all that a cancelled call sends.
SlipWatcherHangsUp ==
    /\ watcher = "hanging up"
    /\ watcher' = "done"
    /\ UNCHANGED <<call, view, conn, closer, cancelled, late, pinger, pingErr, stopSent, log, used>>

\* Closing the connection is what wakes a blocked read.
WatcherHangsUp ==
    /\ watcher = "hanging up"
    /\ HangUp("watcher")
    /\ watcher' = "done"
    /\ UNCHANGED <<call, view, cancelled, late, pinger, pingErr, stopSent, log, used>>

\* A tick sends a control ping, then a SignalR ping.
PingerTicks ==
    /\ \/ pinger = "ticking" /\ used.pings < MaxPings /\ used' = [used EXCEPT !.pings = @ + 1]
       \/ pinger = "between" /\ UNCHANGED used
    /\ \/ CanWrite /\ pinger' = (IF pinger = "ticking" THEN "between" ELSE "ticking")
       \/ CannotWrite /\ pinger' = "failed"
    /\ UNCHANGED <<call, view, conn, closer, cancelled, late, watcher, pingErr, stopSent, log>>

\* Mutant: it hangs up first and reports afterwards.
SlipPingerReports ==
    /\ pinger \in {"failed", "hanging up"}
    /\ IF pinger = "failed"
       THEN HangUp("pinger") /\ pinger' = "hanging up" /\ UNCHANGED pingErr
       ELSE pingErr' = TRUE /\ pinger' = "done" /\ UNCHANGED <<conn, closer>>
    /\ UNCHANGED <<call, view, cancelled, late, watcher, stopSent, log, used>>

PingerReports ==
    /\ pinger \in {"failed", "hanging up"}
    /\ IF pinger = "failed"
       THEN pingErr' = TRUE /\ pinger' = "hanging up" /\ UNCHANGED <<conn, closer>>
       ELSE HangUp("pinger") /\ pinger' = "done" /\ UNCHANGED pingErr
    /\ UNCHANGED <<call, view, cancelled, late, watcher, stopSent, log, used>>

PingerStops ==
    /\ pinger = "ticking"
    /\ cancelled \/ call.pc = "await pinger"
    /\ pinger' = "done"
    /\ UNCHANGED <<call, view, conn, closer, cancelled, late, watcher, pingErr, stopSent, log, used>>

ConnectionBreaks ==
    /\ conn = "open"
    /\ conn' = "broken"
    /\ Disturbs
    /\ UNCHANGED <<call, view, closer, cancelled, late, watcher, pinger, pingErr, stopSent, log>>

DeadlinePasses ==
    /\ ~late /\ call.pc \in {"loop", "reading", "parts"}
    /\ late' = TRUE
    /\ Disturbs
    /\ UNCHANGED <<call, view, conn, closer, cancelled, watcher, pinger, pingErr, stopSent, log>>

---------------------------------------------------------------------------
(* What a frame does to the view.                                          *)

Bytes(events) == FoldSeq(LAMBDA f, sum : f.size + sum, 0, events)

Fits(events) ==
    Len(events) <= MaxRetainedEventCount /\ Bytes(events) <= MaxRetainedEventBytes

\* A frame that cannot be kept is skipped; otherwise the oldest ones give way.
Retain(v, f) ==
    IF f.size > MaxRetainedEventBytes THEN [v EXCEPT !.truncated = TRUE]
    ELSE LET all == Append(v.events, f)
             drop == Min({n \in 0..Len(all) : Fits(SubSeq(all, n + 1, Len(all)))})
         IN [v EXCEPT !.events = SubSeq(all, drop + 1, Len(all)), !.truncated = @ \/ drop > 0]

Calls(f) == f.calls \cup {m.call : m \in {x \in Range(f.messages) : x.call # "none"}}

\* The events of an update: calls found anywhere in it that are new, then those of the messages.
Reports(v, f) ==
    LET ofMessage(m) == IF m.call # "none" /\ m.kind # "memory" THEN <<m.call>> ELSE <<>> IN
    SetToSeq(Calls(f) \ Range(v.reported))
        \o FlattenSeq([i \in DOMAIN f.messages |-> ofMessage(f.messages[i])])

Emit(v, id, text) ==
    IF text = <<>> THEN v
    ELSE [v EXCEPT !.streamed = Append(@, [id |-> id, text |-> text])]

ObserveAnswer(v, f) ==
    LET shown == VisibleIndex(f.messages, f.cursor)
        m     == f.messages[shown]
        id    == TrackID(IF m.id = NoId THEN f.cursor ELSE m.id)
    IN IF shown = 0 THEN v
       ELSE [Emit(v, id, UnseenTail(v.answers, id, m.text))
                EXCEPT !.answers = ObserveSnapshot(@, id, m.text, f.last \/ m.completed)]

WriteAtCursor(v, f) ==
    IF ~Appends(v.answers, f.write) THEN v
    ELSE [Emit(v, TrackID(v.answers.currentID), f.write)
             EXCEPT !.answers = AppendAtCursor(@, f.write)]

AfterUpdate(v, f) ==
    LET heard    == [v EXCEPT !.reported = @ \o Reports(v, f),
                              !.throttling = IF f.throttling = "none" THEN @ ELSE f.throttling]
        observed == ObserveAnswer(heard, f)
        selected == [observed EXCEPT !.answers = SelectCursor(@, f.cursor)]
    IN [WriteAtCursor(selected, f) EXCEPT !.grace = @ \/ f.last]

AfterResult(v, f) ==
    [v EXCEPT !.throttling = IF f.throttling = "none" THEN @ ELSE f.throttling,
              !.final = IF f.message = NoId THEN @ ELSE f.message,
              !.resultError = @ \/ f.error,
              !.grace = TRUE]

Joined(streamed) == FlattenSeq([i \in DOMAIN streamed |-> streamed[i].text])

AnswerText(v) ==
    CASE v.final # <<>> -> v.final
      [] v.final = <<>> /\ BestText(v.answers) # <<>> -> BestText(v.answers)
      [] OTHER -> Joined(v.streamed)

\* What a completion frame makes of the call; an exhausted quota counts only without an answer.
CompletionOutcome(v, f) ==
    CASE AnswerText(v) = <<>> /\ v.throttling = "out" -> "quota"
      [] f.error          -> "upstream"
      [] v.resultError    -> "upstream"
      [] AnswerText(v) = <<>> -> "empty"
      [] OTHER            -> "answer"

---------------------------------------------------------------------------
(* The read loop.                                                          *)

LoopStarts ==
    /\ call.pc = "loop"
    /\ CASE late      -> Returns("deadline", AnswerText(view))
         [] cancelled /\ ~late -> Returns("context", <<>>)
         [] OTHER     -> Goes("reading")
    /\ UNCHANGED <<view, conn, closer, cancelled, late, watcher, pinger, pingErr, stopSent, log, used>>

ReadMessage ==
    /\ call.pc = "reading" /\ conn = "open"
    /\ \E n \in 1..MaxParts :
          Len(log) + n <= MaxFrames /\ call' = [call EXCEPT !.pc = "parts", !.parts = n]
    /\ UNCHANGED <<view, conn, closer, cancelled, late, watcher, pinger, pingErr, stopSent, log, used>>

ReadFails ==
    /\ call.pc = "reading"
    /\ conn # "open" \/ late \/ view.grace
    /\ Goes("failed")
    /\ UNCHANGED <<view, conn, closer, cancelled, late, watcher, pinger, pingErr, stopSent, log, used>>

ExplainFailure ==
    /\ call.pc = "failed"
    /\ CASE cancelled             -> /\ Returns("context", AnswerText(view))
                                     /\ UNCHANGED pingErr
         [] ~cancelled /\ pingErr -> /\ Returns("keepalive", AnswerText(view))
                                     /\ pingErr' = FALSE
         [] OTHER                 -> /\ Returns("read", AnswerText(view))
                                     /\ UNCHANGED pingErr
    /\ UNCHANGED <<view, conn, closer, cancelled, late, watcher, pinger, stopSent, log, used>>

NextPart == call' = [call EXCEPT !.parts = @ - 1, !.pc = IF call.parts = 1 THEN "loop" ELSE "parts"]

Handles(f, type) ==
    /\ call.pc = "parts" /\ f.type = type
    /\ log' = Append(log, f)
    /\ UNCHANGED <<conn, closer, cancelled, late, watcher, pinger, pingErr, stopSent>>

HandleGarbage(f) ==
    /\ Handles(f, "garbage")
    /\ Returns("protocol", <<>>)
    /\ view' = Retain(view, f)
    /\ UNCHANGED used

HandlePing(f) ==
    /\ Handles(f, "ping")
    /\ \/ CanWrite /\ NextPart
       \/ CannotWrite /\ Returns("ping reply", <<>>)
    /\ view' = Retain(view, f)
    /\ UNCHANGED used

\* A refused prompt ends the call, after its events were reported. So does a caller that
\* can no longer take an event or a delta.
HandleUpdate(f) ==
    /\ Handles(f, "update")
    /\ LET kept == Retain(view, f)
           next == AfterUpdate(kept, f)
       IN \/ /\ ~f.refused
             /\ view' = next
             /\ NextPart
             /\ UNCHANGED used
          \/ /\ f.refused
             /\ view' = [kept EXCEPT !.reported = next.reported]
             /\ Returns("refused", <<>>)
             /\ UNCHANGED used
          \/ /\ Len(next.reported) > Len(kept.reported)
                    \/ (~f.refused /\ Len(next.streamed) > Len(kept.streamed))
             /\ Disturbs
             /\ view' = kept
             /\ Returns("caller", <<>>)

HandleResult(f) ==
    /\ Handles(f, "result")
    /\ view' = AfterResult(Retain(view, f), f)
    /\ NextPart
    /\ UNCHANGED used

HandleCompletion(f) ==
    /\ Handles(f, "completion")
    /\ view' = Retain(view, f)
    /\ LET outcome == CompletionOutcome(view, f) IN
       Returns(outcome, IF outcome = "answer" THEN AnswerText(view) ELSE <<>>)
    /\ UNCHANGED used

HandleClose(f) ==
    /\ Handles(f, "close")
    /\ view' = Retain(view, f)
    /\ Returns("closed", AnswerText(view))
    /\ UNCHANGED used

---------------------------------------------------------------------------
(* The deferred functions, last one first.                                 *)

StopPinger ==
    /\ \/ call.pc = "stop pinger" /\ Goes("await pinger")
       \/ call.pc = "await pinger" /\ pinger = "done" /\ Goes("stop watcher")
    /\ UNCHANGED <<view, conn, closer, cancelled, late, watcher, pinger, pingErr, stopSent, log, used>>

StopWatcher ==
    /\ \/ /\ call.pc = "stop watcher"
          /\ watcher' = (IF watcher = "waiting" THEN "done" ELSE watcher)
          /\ Goes("await watcher")
          /\ UNCHANGED <<conn, closer>>
       \/ /\ call.pc = "await watcher" /\ watcher \in {"done", "missed"}
          /\ HangUp("call")
          /\ Goes("done")
          /\ UNCHANGED watcher
    /\ UNCHANGED <<view, cancelled, late, pinger, pingErr, stopSent, log, used>>

---------------------------------------------------------------------------
CallStep ==
    \/ DialSucceeds
    \/ \E outcome \in {"dial", "status", "rate limit"} : DialFails(outcome)
    \/ SendHello \/ ReadGreeting \/ SendPayload
    \/ LoopStarts \/ ReadFails \/ ExplainFailure
    \/ \E f \in Frames :
          \/ HandleGarbage(f) \/ HandlePing(f) \/ HandleUpdate(f)
          \/ HandleResult(f) \/ HandleCompletion(f) \/ HandleClose(f)
    \/ StopPinger \/ StopWatcher

WatcherStep == WatcherStarts \/ WatcherSendsStop \/ WatcherHangsUp

PingerStep == PingerTicks \/ PingerReports \/ PingerStops

Next ==
    \/ CallStep \/ WatcherStep \/ PingerStep
    \/ ReadMessage \/ ContextEnds \/ ConnectionBreaks \/ DeadlinePasses

Spec == Init /\ [][Next]_vars

\* The goroutines run, writes and timed reads end; nothing is asked of upstream or of the ticker.
FairSpec == Spec /\ WF_vars(CallStep) /\ WF_vars(WatcherStep) /\ WF_vars(PingerStep)

---------------------------------------------------------------------------
(* Upstream's own account of its answers, read off the frames of a log L.    *)

Streams == Ids \cup {Implicit}

Updates(L) == {i \in DOMAIN L : L[i].type = "update" /\ ~L[i].refused}

Shown(f) == VisibleIndex(f.messages, f.cursor)
ShownID(f) == LET m == f.messages[Shown(f)] IN TrackID(IF m.id = NoId THEN f.cursor ELSE m.id)
SnapshotOf(f) == f.messages[Shown(f)].text

Shows(L, i, id) == i \in Updates(L) /\ Shown(L[i]) # 0 /\ ShownID(L[i]) = id

\* Where the cursor is when update i writes: the last place it was put, or the last answer shown.
CursorMoves(L, i) == {j \in Updates(L) : j <= i /\ (L[j].cursor # NoId \/ Shown(L[j]) # 0)}

Aim(L, i) ==
    LET moves == CursorMoves(L, i)
        last  == L[Max(moves)]
    IN CASE moves = {} -> Implicit
         [] moves # {} /\ last.cursor # NoId -> last.cursor
         [] OTHER -> ShownID(last)

\* Text written anywhere but in an answer that was shown, or before any cursor, is internal.
WritesTo(L, i, id) ==
    /\ i \in Updates(L) /\ L[i].write # <<>> /\ Aim(L, i) = id
    /\ id = Implicit \/ \E j \in 1..i : Shows(L, j, id)

\* The text of an answer after the first n frames.
Answer(L, id) ==
    LET text[n \in 0..Len(L)] ==
            IF n = 0 THEN <<>>
            ELSE (IF Shows(L, n, id) THEN SnapshotOf(L[n]) ELSE text[n - 1])
                     \o (IF WritesTo(L, n, id) THEN L[n].write ELSE <<>>)
    IN text

Rewritten(L, id) ==
    \E i \in 1..Len(L) : Shows(L, i, id) /\ ~IsPrefix(Answer(L, id)[i - 1], SnapshotOf(L[i]))

Completing(L) ==
    {i \in Updates(L) : /\ Shown(L[i]) # 0
                        /\ L[i].last \/ L[i].messages[Shown(L[i])].completed}

Telling(L) == {i \in Updates(L) : \E id \in Streams : Shows(L, i, id) \/ WritesTo(L, i, id)}

\* The answer that counts: the last one declared complete, else the last one that moved.
ChosenAnswers(L) ==
    LET last == Max(Telling(L)) IN
    CASE Completing(L) # {} -> {ShownID(L[Max(Completing(L))])}
      [] Completing(L) = {} /\ Telling(L) # {} ->
             {IF \E id \in Streams : WritesTo(L, last, id) THEN Aim(L, last) ELSE ShownID(L[last])}
      [] OTHER -> {}

\* What the caller was given of an answer.
Given(streamed, id) ==
    FlattenSeq([i \in DOMAIN streamed |-> IF streamed[i].id = id THEN streamed[i].text ELSE <<>>])

---------------------------------------------------------------------------
TypeOK ==
    /\ call.pc \in {"dial", "hello", "greeting", "payload", "loop", "reading", "parts", "failed",
                    "stop pinger", "await pinger", "stop watcher", "await watcher", "done"}
    /\ call.parts \in 0..MaxParts
    /\ conn \in {"none", "open", "broken", "closed"}
    /\ closer \in {"nobody", "watcher", "pinger", "call"}
    /\ cancelled \in BOOLEAN /\ late \in BOOLEAN
    /\ watcher \in {"off", "starting", "waiting", "woken", "hanging up", "done", "missed"}
    /\ pinger \in {"off", "ticking", "between", "failed", "hanging up", "done"}
    /\ pingErr \in BOOLEAN /\ stopSent \in BOOLEAN
    /\ Len(log) <= MaxFrames
    /\ view.grace \in BOOLEAN /\ Bytes(view.events) <= MaxRetainedEventBytes

\* The caller is given each visible answer piece by piece, nothing twice and nothing left out,
\* as long as upstream does not take back what it showed; a cursor at an internal card never
\* reaches the caller (answer_stream.go 42-118).
StreamAddsUp ==
    \A id \in Streams :
        call.outcome # "caller" /\ ~Rewritten(log, id) =>
            Given(view.streamed, id) = Answer(log, id)[Len(log)]

\* A call succeeds only when upstream completes it without an error, and then with the text of
\* the result frame or else of the answer that counts as upstream last stated it, whatever was
\* streamed before (client.go 893-945).
ResultIsTheAuthority ==
    LET stated == {i \in DOMAIN log : log[i].type = "result" /\ log[i].message # NoId} IN
    call.outcome = "answer" =>
        /\ log[Len(log)].type = "completion"
        /\ \A i \in DOMAIN log : log[i].type \in {"result", "completion"} => ~log[i].error
        /\ \A i \in DOMAIN log : log[i].type = "update" => ~log[i].refused
        /\ IF stated # {} /\ log[Max(stated)].message # <<>>
           THEN call.text = log[Max(stated)].message
           ELSE \A id \in ChosenAnswers(log) :
                   ~Rewritten(log, id) \/ (\A i \in DOMAIN log : ~WritesTo(log, i, id))
                       => call.text = Answer(log, id)[Len(log)]

\* A call that is cut off hands back what it has, so that nobody takes a caller who has seen
\* text for one who has seen nothing; a spent quota is reported only where there is no text.
VisibleTextIsNotLost ==
    /\ call.outcome \in {"read", "keepalive", "closed", "deadline"} /\ view.streamed # <<>>
           => call.text # <<>>
    /\ call.outcome \in {"quota", "empty"} => view.streamed = <<>>

\* The kept events are the newest ones that fit, in order, and the caller is told when one is
\* missing (client.go 675-690).
KeptEventsAreTheNewest ==
    LET small    == {i \in DOMAIN log : log[i].size <= MaxRetainedEventBytes}
        age(i)   == Cardinality({j \in small : j >= i})
        kept     == view.events
    IN /\ Bytes(kept) <= MaxRetainedEventBytes
       /\ Len(kept) <= MaxRetainedEventCount
       /\ Len(kept) <= Cardinality(small)
       /\ \A i \in small : age(i) <= Len(kept) => kept[Len(kept) + 1 - age(i)] = log[i]
       /\ view.truncated <=> Len(kept) < Len(log)

\* A call that upstream makes in an update, be it a refusal, is reported wherever in the update it
\* stands, and once if it stands outside the messages (stream_events.go 66-94).
CallsAreReported ==
    LET updates == {i \in DOMAIN log : log[i].type = "update"} IN
    \A c \in UNION {Calls(log[i]) : i \in updates} :
        LET times == Cardinality({i \in DOMAIN view.reported : view.reported[i] = c}) IN
        call.outcome # "caller" =>
            /\ times >= 1
            /\ (\A i \in updates : \A m \in Range(log[i].messages) : m.call # c) => times = 1

\* What the caller hears while the call runs and keeps after it: each text and each call once,
\* and the newest events, or word that some are missing.
CallerIsToldOnce == StreamAddsUp /\ CallsAreReported /\ KeptEventsAreTheNewest

\* A call ends in success only by upstream's word, and in failure with what it already has.
OutcomesAreEarned == ResultIsTheAuthority /\ VisibleTextIsNotLost

\* A read that fails because this call's own goroutine hung up is blamed on that goroutine's
\* reason: a cancelled request is not an upstream failure, a dead heartbeat is not a dropped
\* stream (client.go 655-669).
FailureNamesItsCause ==
    [][call'.outcome = "read" /\ call.outcome = "none" => closer = "nobody"]_vars

\* A call that ends because it was cancelled, and had no other trouble, has told upstream to
\* stop, unless its watcher never got a turn (client.go 479-511).
CancelledCallsAreStopped ==
    call.pc = "done" /\ call.outcome = "context" /\ used.disturbances = 1 =>
        stopSent \/ watcher = "missed"

\* A cancelled or overdue call returns, however silent upstream is, and leaves no goroutine and
\* no connection behind (client.go 498-511, 526-577).
CallsReturn ==
    (cancelled \/ late) ~>
        /\ call.pc = "done"
        /\ watcher \in {"off", "done", "missed"} /\ pinger \in {"off", "done"}
        /\ conn \in {"none", "closed"}
=============================================================================
