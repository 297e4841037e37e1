-------------------------- MODULE ChatHubCallProofs --------------------------
(***************************************************************************)
(* What one call of the ChatHub client does, for every set of frames and every *)
(* bound of ChatHubCall, in two parts.                                        *)
(*                                                                         *)
(* The goroutines: whose fault a failed read is and what a cancelled call tells *)
(* upstream. Most steps of the call only move it on or end it (Moves, Ends     *)
(* below); the invariant IInv is shown to survive these two kinds once, and    *)
(* then every step of the goroutines beside the call.                         *)
(*                                                                         *)
(* The record: what the caller hears of the frames and what the call returns   *)
(* by them. A log is summed up (which answers were told, where the cursor is,  *)
(* the text of each answer); one more frame is shown to change the summary and *)
(* the answer stream alike (Mirrors, Follows), and the stream never to have    *)
(* delivered anything but what the caller was given (Gives). RInv adds the     *)
(* calls, the kept events and the outcome.                                    *)
(***************************************************************************)
EXTENDS ChatHubCall, FlattenedSequences, SequenceTheorems, FiniteSetTheorems, WellFoundedInduction,
        TLAPS

Ended == call.outcome # "none"

Returning == {"stop pinger", "await pinger", "stop watcher", "await watcher", "done"}

Shape ==
    /\ {"pc", "outcome"} \subseteq DOMAIN call /\ "disturbances" \in DOMAIN used
    /\ used.disturbances \in Nat
    /\ conn \in {"none", "open", "broken", "closed"}
    /\ closer \in {"nobody", "watcher", "pinger", "call"}
    /\ watcher \in {"off", "starting", "waiting", "woken", "hanging up", "done", "missed"}
    /\ cancelled \in BOOLEAN /\ late \in BOOLEAN /\ pingErr \in BOOLEAN /\ stopSent \in BOOLEAN

\* Each of the three that hang up leaves its reason behind first.
Blame ==
    /\ call.pc \in Returning <=> Ended
    /\ watcher \in {"woken", "hanging up"} \/ closer = "watcher" => cancelled
    /\ pinger = "hanging up" \/ closer = "pinger" => pingErr \/ Ended
    /\ closer = "call" => Ended

\* Nothing has happened to the call but the end of its request's context.
Quiet == used.disturbances = 0 \/ (cancelled /\ used.disturbances = 1)

\* Which of the three can be where: a connection lives from the dial until one of them hangs up,
\* and a woken watcher ends before its call does.
Places ==
    /\ cancelled => watcher # "waiting"
    /\ call.outcome = "context" => cancelled
    /\ conn = "closed" <=> closer # "nobody"
    /\ conn = "none" <=> watcher = "off"
    /\ conn = "none" => pinger = "off"
    /\ closer = "watcher" => watcher = "done"
    /\ closer = "call" => watcher \in {"done", "missed"}
    /\ call.pc = "done" => watcher \in {"off", "done", "missed"}
    /\ watcher = "off" => call.pc \in {"dial", "done"} /\ call.outcome # "context"
    /\ call.pc = "dial" => watcher = "off"

Counted == cancelled => used.disturbances > 0

\* The watcher is the first to hang up, and has written the stop frame by then.
StopComesFirst ==
    /\ conn # "broken" /\ closer # "pinger"
    /\ pinger \in {"failed", "hanging up"} => conn = "closed"
    /\ watcher = "hanging up" => stopSent
    /\ watcher = "done" /\ call.outcome \in {"none", "context"} => stopSent

Stopping == Quiet => StopComesFirst

IInv == Shape /\ Blame /\ Places /\ Counted /\ Stopping

-----------------------------------------------------------------------------
(* The steps of the call, by what they do to its place and outcome.          *)

\* The goroutines beside the call and the connection are left alone.
OthersStay == UNCHANGED <<conn, closer, cancelled, late, watcher, stopSent>>

AtWork == call.pc \notin Returning \cup {"dial"}

\* The call goes on; an acknowledged handshake starts the pinger.
Moves ==
    /\ AtWork /\ OthersStay
    /\ {"pc", "outcome"} \subseteq DOMAIN call'
    /\ call'.pc \notin Returning \cup {"dial"} /\ call'.outcome = call.outcome
    /\ pinger' \in {pinger, "ticking"}
    /\ UNCHANGED <<pingErr, used>>

\* It returns; only ExplainFailure blames the read, and it looks for the request's end and for
\* the pinger's report first.
Ends ==
    /\ AtWork /\ OthersStay
    /\ {"pc", "outcome"} \subseteq DOMAIN call'
    /\ call'.pc \in {"stop watcher", "stop pinger"} /\ call'.outcome # "none"
    /\ call'.outcome = "context" => cancelled
    /\ call'.outcome = "read" => ~cancelled /\ ~pingErr
    /\ UNCHANGED pinger /\ pingErr' \in {pingErr, FALSE}
    /\ \/ UNCHANGED used
       \/ /\ "disturbances" \in DOMAIN used'
          /\ used'.disturbances = used.disturbances + 1
          /\ call'.outcome = "caller"

LEMMA CompletionOutcomes ==
    ASSUME NEW v, NEW f
    PROVE  CompletionOutcome(v, f) \in {"quota", "upstream", "empty", "answer"}
BY DEF CompletionOutcome

LEMMA CallReturns ==
    ASSUME NEW outcome, NEW text, Returns(outcome, text)
    PROVE  /\ {"pc", "outcome"} \subseteq DOMAIN call'
           /\ call'.pc \in {"stop watcher", "stop pinger"}
           /\ call'.outcome = outcome
BY DEF Returns

LEMMA CallGoes ==
    ASSUME {"pc", "outcome"} \subseteq DOMAIN call, NEW pc, Goes(pc)
    PROVE  /\ {"pc", "outcome"} \subseteq DOMAIN call'
           /\ call'.pc = pc /\ call'.outcome = call.outcome
BY DEF Goes

LEMMA CallTakesParts ==
    ASSUME {"pc", "outcome"} \subseteq DOMAIN call,
           NEW n, call' = [call EXCEPT !.pc = "parts", !.parts = n]
    PROVE  /\ {"pc", "outcome"} \subseteq DOMAIN call'
           /\ call'.pc = "parts" /\ call'.outcome = call.outcome
OBVIOUS

LEMMA CallHasNextPart ==
    ASSUME {"pc", "outcome"} \subseteq DOMAIN call, NextPart
    PROVE  /\ {"pc", "outcome"} \subseteq DOMAIN call'
           /\ call'.pc \in {"parts", "loop"} /\ call'.outcome = call.outcome
BY DEF NextPart

LEMMA DisturbanceIsCounted ==
    ASSUME "disturbances" \in DOMAIN used, Disturbs
    PROVE  "disturbances" \in DOMAIN used' /\ used'.disturbances = used.disturbances + 1
BY DEF Disturbs

LEMMA FramesMoveOrEnd ==
    ASSUME {"pc", "outcome"} \subseteq DOMAIN call, "disturbances" \in DOMAIN used,
           NEW f, \/ HandleGarbage(f) \/ HandlePing(f) \/ HandleUpdate(f)
                  \/ HandleResult(f) \/ HandleCompletion(f) \/ HandleClose(f)
    PROVE  Moves \/ Ends
<1>1. CASE HandleGarbage(f)
  <2>1. call.pc = "parts" /\ OthersStay /\ UNCHANGED <<pinger, pingErr, used>>
    BY <1>1, Zenon DEF OthersStay, HandleGarbage, Handles
  <2>2. /\ {"pc", "outcome"} \subseteq DOMAIN call'
        /\ call'.pc \in {"stop watcher", "stop pinger"} /\ call'.outcome = "protocol"
    BY <1>1, CallReturns, Zenon DEF HandleGarbage, Handles
  <2>q. QED
    BY <2>1, <2>2 DEF AtWork, Moves, Ends, Returning
<1>2. CASE HandlePing(f)
  <2>1. call.pc = "parts" /\ OthersStay /\ UNCHANGED <<pinger, pingErr, used>>
    BY <1>2, Zenon DEF OthersStay, HandlePing, Handles
  <2>2. \/ /\ {"pc", "outcome"} \subseteq DOMAIN call'
           /\ call'.pc \in {"parts", "loop"} /\ call'.outcome = call.outcome
        \/ /\ {"pc", "outcome"} \subseteq DOMAIN call'
           /\ call'.pc \in {"stop watcher", "stop pinger"} /\ call'.outcome = "ping reply"
    BY <1>2, CallHasNextPart, CallReturns, Zenon DEF HandlePing, Handles
  <2>q. QED
    BY <2>1, <2>2 DEF AtWork, Moves, Ends, Returning
<1>3. CASE HandleResult(f)
  <2>1. call.pc = "parts" /\ OthersStay /\ UNCHANGED <<pinger, pingErr, used>>
    BY <1>3, Zenon DEF OthersStay, HandleResult, Handles
  <2>2. /\ {"pc", "outcome"} \subseteq DOMAIN call'
        /\ call'.pc \in {"parts", "loop"} /\ call'.outcome = call.outcome
    BY <1>3, CallHasNextPart, Zenon DEF HandleResult, Handles
  <2>q. QED
    BY <2>1, <2>2 DEF AtWork, Moves, Ends, Returning
<1>4. CASE HandleCompletion(f)
  <2>1. call.pc = "parts" /\ OthersStay /\ UNCHANGED <<pinger, pingErr, used>>
    BY <1>4, Zenon DEF OthersStay, HandleCompletion, Handles
  <2>2. /\ {"pc", "outcome"} \subseteq DOMAIN call'
        /\ call'.pc \in {"stop watcher", "stop pinger"}
        /\ call'.outcome \in {"quota", "upstream", "empty", "answer"}
    BY <1>4, CompletionOutcomes, CallReturns, Zenon DEF HandleCompletion, Handles
  <2>q. QED
    BY <2>1, <2>2 DEF AtWork, Moves, Ends, Returning
<1>5. CASE HandleClose(f)
  <2>1. call.pc = "parts" /\ OthersStay /\ UNCHANGED <<pinger, pingErr, used>>
    BY <1>5, Zenon DEF OthersStay, HandleClose, Handles
  <2>2. /\ {"pc", "outcome"} \subseteq DOMAIN call'
        /\ call'.pc \in {"stop watcher", "stop pinger"} /\ call'.outcome = "closed"
    BY <1>5, CallReturns, Zenon DEF HandleClose, Handles
  <2>q. QED
    BY <2>1, <2>2 DEF AtWork, Moves, Ends, Returning
<1>6. CASE HandleUpdate(f)
  <2>1. call.pc = "parts" /\ OthersStay /\ UNCHANGED <<pinger, pingErr>>
    BY <1>6, Zenon DEF OthersStay, HandleUpdate, Handles
  <2>2. \/ /\ {"pc", "outcome"} \subseteq DOMAIN call'
           /\ call'.pc \in {"parts", "loop"} /\ call'.outcome = call.outcome
           /\ UNCHANGED used
        \/ /\ {"pc", "outcome"} \subseteq DOMAIN call'
           /\ call'.pc \in {"stop watcher", "stop pinger"} /\ call'.outcome = "refused"
           /\ UNCHANGED used
        \/ /\ {"pc", "outcome"} \subseteq DOMAIN call'
           /\ call'.pc \in {"stop watcher", "stop pinger"} /\ call'.outcome = "caller"
           /\ "disturbances" \in DOMAIN used' /\ used'.disturbances = used.disturbances + 1
    BY <1>6, CallHasNextPart, DisturbanceIsCounted, CallReturns, Zenon DEF HandleUpdate, Handles
  <2>q. QED
    BY <2>1, <2>2 DEF AtWork, Moves, Ends, Returning
<1>q. QED
  BY <1>1, <1>2, <1>3, <1>4, <1>5, <1>6

LEMMA CallStepsMoveOrEnd ==
    ASSUME {"pc", "outcome"} \subseteq DOMAIN call, pingErr \in BOOLEAN,
           \/ SendHello \/ ReadGreeting \/ SendPayload \/ LoopStarts
           \/ ReadMessage \/ ReadFails \/ ExplainFailure
    PROVE  Moves \/ Ends
<1>1. CASE SendHello
  <2>1. call.pc = "hello" /\ OthersStay /\ UNCHANGED <<pinger, pingErr, used>>
    BY <1>1, Zenon DEF OthersStay, SendHello
  <2>2. \/ /\ {"pc", "outcome"} \subseteq DOMAIN call'
           /\ call'.pc = "greeting" /\ call'.outcome = call.outcome
        \/ /\ {"pc", "outcome"} \subseteq DOMAIN call'
           /\ call'.pc \in {"stop watcher", "stop pinger"} /\ call'.outcome = "handshake"
    BY <1>1, CallGoes, CallReturns, Zenon DEF SendHello
  <2>q. QED
    BY <2>1, <2>2 DEF AtWork, Moves, Ends, Returning
<1>2. CASE ReadGreeting
  <2>1. call.pc = "greeting" /\ OthersStay /\ UNCHANGED <<pingErr, used>>
    BY <1>2, Zenon DEF OthersStay, ReadGreeting
  <2>2. \/ /\ {"pc", "outcome"} \subseteq DOMAIN call'
           /\ call'.pc = "payload" /\ call'.outcome = call.outcome
           /\ pinger' = "ticking"
        \/ /\ {"pc", "outcome"} \subseteq DOMAIN call'
           /\ call'.pc \in {"stop watcher", "stop pinger"} /\ call'.outcome = "handshake"
           /\ UNCHANGED pinger
    BY <1>2, CallGoes, CallReturns, Zenon DEF ReadGreeting
  <2>q. QED
    BY <2>1, <2>2 DEF AtWork, Moves, Ends, Returning
<1>3. CASE SendPayload
  <2>1. call.pc = "payload" /\ OthersStay /\ UNCHANGED <<pinger, pingErr, used>>
    BY <1>3, Zenon DEF OthersStay, SendPayload
  <2>2. \/ /\ {"pc", "outcome"} \subseteq DOMAIN call'
           /\ call'.pc = "loop" /\ call'.outcome = call.outcome
        \/ /\ {"pc", "outcome"} \subseteq DOMAIN call'
           /\ call'.pc \in {"stop watcher", "stop pinger"} /\ call'.outcome = "send"
    BY <1>3, CallGoes, CallReturns, Zenon DEF SendPayload
  <2>q. QED
    BY <2>1, <2>2 DEF AtWork, Moves, Ends, Returning
<1>4. CASE LoopStarts
  <2>1. call.pc = "loop" /\ OthersStay /\ UNCHANGED <<pinger, pingErr, used>>
    BY <1>4, Zenon DEF OthersStay, LoopStarts
  <2>2. \/ /\ {"pc", "outcome"} \subseteq DOMAIN call'
           /\ call'.pc \in {"stop watcher", "stop pinger"} /\ call'.outcome = "deadline"
        \/ /\ {"pc", "outcome"} \subseteq DOMAIN call'
           /\ call'.pc \in {"stop watcher", "stop pinger"} /\ call'.outcome = "context" /\ cancelled
        \/ /\ {"pc", "outcome"} \subseteq DOMAIN call'
           /\ call'.pc = "reading" /\ call'.outcome = call.outcome
    BY <1>4, CallGoes, CallReturns, Zenon DEF LoopStarts
  <2>q. QED
    BY <2>1, <2>2 DEF AtWork, Moves, Ends, Returning
<1>5. CASE ReadMessage
  <2>1. call.pc = "reading" /\ OthersStay /\ UNCHANGED <<pinger, pingErr, used>>
    BY <1>5, Zenon DEF OthersStay, ReadMessage
  <2>2. /\ {"pc", "outcome"} \subseteq DOMAIN call'
        /\ call'.pc = "parts" /\ call'.outcome = call.outcome
    BY <1>5, CallTakesParts, Zenon DEF ReadMessage
  <2>q. QED
    BY <2>1, <2>2 DEF AtWork, Moves, Ends, Returning
<1>6. CASE ReadFails
  <2>1. call.pc = "reading" /\ OthersStay /\ UNCHANGED <<pinger, pingErr, used>>
    BY <1>6, Zenon DEF OthersStay, ReadFails
  <2>2. /\ {"pc", "outcome"} \subseteq DOMAIN call'
        /\ call'.pc = "failed" /\ call'.outcome = call.outcome
    BY <1>6, CallGoes, Zenon DEF ReadFails
  <2>q. QED
    BY <2>1, <2>2 DEF AtWork, Moves, Ends, Returning
<1>7. CASE ExplainFailure
  <2>1. call.pc = "failed" /\ OthersStay /\ UNCHANGED <<pinger, used>>
    BY <1>7, Zenon DEF OthersStay, ExplainFailure
  <2>2. \/ /\ {"pc", "outcome"} \subseteq DOMAIN call'
           /\ call'.pc \in {"stop watcher", "stop pinger"} /\ call'.outcome = "context" /\ cancelled
           /\ UNCHANGED pingErr
        \/ /\ {"pc", "outcome"} \subseteq DOMAIN call'
           /\ call'.pc \in {"stop watcher", "stop pinger"} /\ call'.outcome = "keepalive"
           /\ pingErr' = FALSE
        \/ /\ {"pc", "outcome"} \subseteq DOMAIN call'
           /\ call'.pc \in {"stop watcher", "stop pinger"}
           /\ call'.outcome = "read" /\ ~cancelled /\ ~pingErr
           /\ UNCHANGED pingErr
    BY <1>7, CallReturns, Zenon DEF ExplainFailure
  <2>q. QED
    BY <2>1, <2>2 DEF AtWork, Moves, Ends, Returning
<1>q. QED
  BY <1>1, <1>2, <1>3, <1>4, <1>5, <1>6, <1>7

-----------------------------------------------------------------------------
(* The invariant, step by step.                                              *)

LEMMA InvariantAtInit == Init => IInv
<1> SUFFICES ASSUME Init PROVE IInv
  OBVIOUS
<1>1. /\ {"pc", "outcome"} \subseteq DOMAIN call /\ call.pc = "dial" /\ call.outcome = "none"
      /\ "disturbances" \in DOMAIN used /\ used.disturbances = 0
  BY DEF Init
<1>2. /\ conn = "none" /\ closer = "nobody" /\ watcher = "off" /\ pinger = "off"
      /\ ~cancelled /\ cancelled \in BOOLEAN /\ late \in BOOLEAN
      /\ pingErr \in BOOLEAN /\ stopSent \in BOOLEAN
  BY DEF Init
<1>q. QED
  BY <1>1, <1>2 DEF IInv, Shape, Blame, Places, Counted, Stopping, StopComesFirst, Ended, Returning

LEMMA MovesKeepTheInvariant == IInv /\ Moves => IInv'
<1> SUFFICES ASSUME IInv, Moves PROVE IInv'
  OBVIOUS
<1>1. Shape'
  BY ZenonT(60) DEF IInv, Shape, Moves, AtWork, OthersStay
<1>2. Blame'
  BY DEF IInv, Shape, Blame, Ended, Returning, Moves, AtWork, OthersStay
<1>3. Places'
  BY DEF IInv, Shape, Blame, Ended, Returning, Places, Moves, AtWork, OthersStay
<1>4. Counted'
  BY DEF IInv, Shape, Counted, Moves, AtWork, OthersStay
<1>5. Stopping'
  BY DEF IInv, Shape, Blame, Ended, Returning, Places, Counted, Stopping, StopComesFirst, Quiet, Moves, AtWork, OthersStay
<1>q. QED
  BY <1>1, <1>2, <1>3, <1>4, <1>5 DEF IInv

LEMMA EndsKeepTheInvariant == IInv /\ Ends => IInv'
<1> SUFFICES ASSUME IInv, Ends PROVE IInv'
  OBVIOUS
<1>1. /\ AtWork /\ OthersStay /\ UNCHANGED pinger
      /\ {"pc", "outcome"} \subseteq DOMAIN call'
      /\ call'.pc \in {"stop watcher", "stop pinger"} /\ call'.outcome # "none"
      /\ call'.outcome = "context" => cancelled
  BY DEF Ends
<1>2. /\ "disturbances" \in DOMAIN used'
      /\ used'.disturbances \in {used.disturbances, used.disturbances + 1}
  BY DEF IInv, Shape, Ends
<1>3. /\ used.disturbances \in Nat /\ cancelled \in BOOLEAN /\ cancelled' = cancelled
      /\ cancelled => used.disturbances > 0
  BY <1>1 DEF IInv, Shape, Counted, OthersStay
<1>4. used'.disturbances \in Nat /\ (cancelled => used'.disturbances > 0)
  BY <1>2, <1>3
<1>5. used'.disturbances = 0 \/ (cancelled' /\ used'.disturbances = 1) => Quiet
  BY <1>2, <1>3 DEF Quiet
<1>6. Shape'
  <2>1. {"pc", "outcome"} \subseteq DOMAIN call /\ UNCHANGED <<conn, closer, watcher, late, stopSent>>
    BY <1>1 DEF IInv, Shape, OthersStay
  <2>2. pingErr' \in BOOLEAN
    BY DEF IInv, Shape, Ends
  <2>q. QED
    BY <1>1, <1>2, <1>3, <1>4, <2>1, <2>2, ZenonT(60) DEF IInv, Shape
<1>7. Blame'
  BY <1>1 DEF IInv, Shape, Blame, Ended, Returning, AtWork, OthersStay
<1>8. Places'
  BY <1>1 DEF IInv, Shape, Blame, Ended, Returning, Places, AtWork, OthersStay
<1>9. Counted'
  BY <1>3, <1>4 DEF Counted
<1>10. Stopping'
  <2>1. SUFFICES ASSUME Quiet PROVE StopComesFirst'
    BY <1>5 DEF Stopping, Quiet
  <2>2. StopComesFirst
    BY <2>1 DEF IInv, Stopping
  <2>3. ~Ended
    BY <1>1 DEF AtWork, Returning, IInv, Blame
  <2>q. QED
    BY <1>1, <2>2, <2>3 DEF StopComesFirst, OthersStay, Ended
<1>q. QED
  BY <1>6, <1>7, <1>8, <1>9, <1>10 DEF IInv

LEMMA InvariantIsKept == IInv /\ [Next]_vars => IInv'
<1> SUFFICES ASSUME IInv, [Next]_vars PROVE IInv'
  OBVIOUS
<1>0. {"pc", "outcome"} \subseteq DOMAIN call /\ "disturbances" \in DOMAIN used /\ pingErr \in BOOLEAN
  BY DEF IInv, Shape
<1>s. Shape
  BY DEF IInv
<1>1. CASE \/ SendHello \/ ReadGreeting \/ SendPayload \/ LoopStarts
           \/ ReadMessage \/ ReadFails \/ ExplainFailure
  BY <1>0, <1>1, CallStepsMoveOrEnd, MovesKeepTheInvariant, EndsKeepTheInvariant, Zenon
<1>2. CASE \E f \in Frames : \/ HandleGarbage(f) \/ HandlePing(f) \/ HandleUpdate(f)
                            \/ HandleResult(f) \/ HandleCompletion(f) \/ HandleClose(f)
  BY <1>0, <1>2, FramesMoveOrEnd, MovesKeepTheInvariant, EndsKeepTheInvariant, Zenon
<1>3. CASE DialSucceeds
  <2>1. Shape'
    BY <1>3, <1>s DEF Shape, DialSucceeds, Goes
  <2>2. Blame'
    BY <1>3 DEF IInv, Shape, Blame, Ended, Returning, DialSucceeds, Goes
  <2>3. Places'
    BY <1>3 DEF IInv, Shape, Blame, Ended, Returning, Places, DialSucceeds, Goes
  <2>4. Counted'
    BY <1>3 DEF IInv, Shape, Counted, DialSucceeds, Goes
  <2>5. Stopping'
    BY <1>3
       DEF IInv, Shape, Blame, Ended, Returning, Places, Counted, Stopping, StopComesFirst, Quiet,
           DialSucceeds, Goes
  <2>q. QED
    BY <2>1, <2>2, <2>3, <2>4, <2>5 DEF IInv
<1>4. ASSUME NEW outcome \in {"dial", "status", "rate limit"}, DialFails(outcome)
      PROVE  IInv'
  <2>1. /\ call.pc = "dial" /\ UNCHANGED <<conn, closer, cancelled, late, watcher, pinger, pingErr,
                                          stopSent, used>>
    BY <1>4 DEF DialFails
  <2>2. /\ {"pc", "outcome"} \subseteq DOMAIN call'
        /\ call'.pc = "done" /\ call'.outcome \notin {"none", "context"}
    BY <1>0, <1>4 DEF DialFails
  <2>3. Shape'
    BY <2>1, <2>2, <1>s, ZenonT(60) DEF Shape
  <2>4. Blame'
    BY <2>1, <2>2 DEF IInv, Shape, Blame, Ended, Returning
  <2>5. Places'
    BY <2>1, <2>2 DEF IInv, Shape, Blame, Ended, Returning, Places
  <2>6. Counted'
    BY <2>1, <2>2 DEF IInv, Shape, Counted
  <2>7. Stopping'
    BY <2>1, <2>2
       DEF IInv, Shape, Blame, Ended, Returning, Places, Counted, Stopping, StopComesFirst, Quiet
  <2>q. QED
    BY <2>3, <2>4, <2>5, <2>6, <2>7 DEF IInv
<1>5. CASE StopPinger
  <2>1. Shape'
    BY <1>5, <1>s, ZenonT(60) DEF Shape, StopPinger, Goes
  <2>2. Blame'
    BY <1>5 DEF IInv, Shape, Blame, Ended, Returning, StopPinger, Goes
  <2>3. Places'
    BY <1>5 DEF IInv, Shape, Blame, Ended, Returning, Places, StopPinger, Goes
  <2>4. Counted'
    BY <1>5 DEF IInv, Shape, Counted, StopPinger, Goes
  <2>5. Stopping'
    BY <1>5
       DEF IInv, Shape, Blame, Ended, Returning, Places, Counted, Stopping, StopComesFirst, Quiet,
           StopPinger, Goes
  <2>q. QED
    BY <2>1, <2>2, <2>3, <2>4, <2>5 DEF IInv
<1>6. CASE StopWatcher
  <2>1. Shape'
    BY <1>6, <1>s, ZenonT(60) DEF Shape, StopWatcher, Goes, HangUp
  <2>2. Blame'
    BY <1>6 DEF IInv, Shape, Blame, Ended, Returning, StopWatcher, Goes, HangUp
  <2>3. Places'
    BY <1>6 DEF IInv, Shape, Blame, Ended, Returning, Places, StopWatcher, Goes, HangUp
  <2>4. Counted'
    BY <1>6 DEF IInv, Shape, Counted, StopWatcher, Goes, HangUp
  <2>5. Stopping'
    BY <1>6
       DEF IInv, Shape, Blame, Ended, Returning, Places, Counted, Stopping, StopComesFirst, Quiet,
           StopWatcher, Goes, HangUp
  <2>q. QED
    BY <2>1, <2>2, <2>3, <2>4, <2>5 DEF IInv
<1>7. CASE WatcherStarts
  <2>1. Shape'
    BY <1>7, <1>s, ZenonT(60) DEF Shape, WatcherStarts
  <2>2. Blame'
    BY <1>7 DEF IInv, Shape, Blame, Ended, Returning, WatcherStarts
  <2>3. Places'
    BY <1>7 DEF IInv, Shape, Blame, Ended, Returning, Places, WatcherStarts
  <2>4. Counted'
    BY <1>7 DEF IInv, Shape, Counted, WatcherStarts
  <2>5. Stopping'
    BY <1>7
       DEF IInv, Shape, Blame, Ended, Returning, Places, Counted, Stopping, StopComesFirst, Quiet,
           WatcherStarts
  <2>q. QED
    BY <2>1, <2>2, <2>3, <2>4, <2>5 DEF IInv
<1>8. CASE WatcherSendsStop
  <2>1. Shape'
    BY <1>8, <1>s DEF Shape, WatcherSendsStop, CanWrite, CannotWrite
  <2>2. Blame'
    BY <1>8 DEF IInv, Shape, Blame, Ended, Returning, WatcherSendsStop, CanWrite, CannotWrite
  <2>3. Places'
    BY <1>8
       DEF IInv, Shape, Blame, Ended, Returning, Places, WatcherSendsStop, CanWrite, CannotWrite
  <2>4. Counted'
    BY <1>8 DEF IInv, Shape, Counted, WatcherSendsStop, CanWrite, CannotWrite
  <2>5. Stopping'
    BY <1>8
       DEF IInv, Shape, Blame, Ended, Returning, Places, Counted, Stopping, StopComesFirst, Quiet,
           WatcherSendsStop, CanWrite, CannotWrite
  <2>q. QED
    BY <2>1, <2>2, <2>3, <2>4, <2>5 DEF IInv
<1>9. CASE WatcherHangsUp
  <2>1. Shape'
    BY <1>9, <1>s DEF Shape, WatcherHangsUp, HangUp
  <2>2. Blame'
    BY <1>9 DEF IInv, Shape, Blame, Ended, Returning, WatcherHangsUp, HangUp
  <2>3. Places'
    BY <1>9 DEF IInv, Shape, Blame, Ended, Returning, Places, WatcherHangsUp, HangUp
  <2>4. Counted'
    BY <1>9 DEF IInv, Shape, Counted, WatcherHangsUp, HangUp
  <2>5. Stopping'
    BY <1>9
       DEF IInv, Shape, Blame, Ended, Returning, Places, Counted, Stopping, StopComesFirst, Quiet,
           WatcherHangsUp, HangUp
  <2>q. QED
    BY <2>1, <2>2, <2>3, <2>4, <2>5 DEF IInv
<1>10. CASE PingerTicks
  <2>1. Shape'
    BY <1>10, <1>s, ZenonT(60) DEF Shape, PingerTicks, CanWrite, CannotWrite
  <2>2. Blame'
    BY <1>10 DEF IInv, Shape, Blame, Ended, Returning, PingerTicks, CanWrite, CannotWrite
  <2>3. Places'
    BY <1>10 DEF IInv, Shape, Blame, Ended, Returning, Places, PingerTicks, CanWrite, CannotWrite
  <2>4. Counted'
    BY <1>10 DEF IInv, Shape, Counted, PingerTicks, CanWrite, CannotWrite
  <2>5. Stopping'
    BY <1>10
       DEF IInv, Shape, Blame, Ended, Returning, Places, Counted, Stopping, StopComesFirst, Quiet,
           PingerTicks, CanWrite, CannotWrite
  <2>q. QED
    BY <2>1, <2>2, <2>3, <2>4, <2>5 DEF IInv
<1>11. CASE PingerReports
  <2>1. Shape'
    BY <1>11, <1>s, ZenonT(60) DEF Shape, PingerReports, HangUp
  <2>2. Blame'
    BY <1>11 DEF IInv, Shape, Blame, Ended, Returning, PingerReports, HangUp
  <2>3. Places'
    <3>1. UNCHANGED <<call, cancelled, watcher>> /\ conn # "none"
      BY <1>11 DEF PingerReports, IInv, Places
    <3>2. CASE UNCHANGED <<conn, closer>>
      BY <3>1, <3>2 DEF IInv, Places
    <3>3. CASE conn' = "closed" /\ closer = "nobody" /\ closer' = "pinger"
      BY <3>1, <3>3 DEF IInv, Shape, Places
    <3>4. CASE conn' = "closed" /\ closer # "nobody" /\ closer' = closer
      BY <3>1, <3>4 DEF IInv, Shape, Places
    <3>q. QED
      BY <1>11, <3>2, <3>3, <3>4 DEF PingerReports, HangUp
  <2>4. Counted'
    BY <1>11 DEF IInv, Shape, Counted, PingerReports, HangUp
  <2>5. Stopping'
    BY <1>11
       DEF IInv, Shape, Blame, Ended, Returning, Places, Counted, Stopping, StopComesFirst, Quiet,
           PingerReports, HangUp
  <2>q. QED
    BY <2>1, <2>2, <2>3, <2>4, <2>5 DEF IInv
<1>12. CASE PingerStops
  <2>1. Shape'
    BY <1>12, <1>s, ZenonT(60) DEF Shape, PingerStops
  <2>2. Blame'
    BY <1>12 DEF IInv, Shape, Blame, Ended, Returning, PingerStops
  <2>3. Places'
    BY <1>12 DEF IInv, Shape, Blame, Ended, Returning, Places, PingerStops
  <2>4. Counted'
    BY <1>12 DEF IInv, Shape, Counted, PingerStops
  <2>5. Stopping'
    BY <1>12
       DEF IInv, Shape, Blame, Ended, Returning, Places, Counted, Stopping, StopComesFirst, Quiet,
           PingerStops
  <2>q. QED
    BY <2>1, <2>2, <2>3, <2>4, <2>5 DEF IInv
<1>13. CASE UNCHANGED vars
  <2>1. Shape'
    BY <1>13, <1>s, ZenonT(60) DEF Shape, vars
  <2>2. Blame'
    BY <1>13 DEF IInv, Shape, Blame, Ended, Returning, vars
  <2>3. Places'
    BY <1>13 DEF IInv, Shape, Blame, Ended, Returning, Places, vars
  <2>4. Counted'
    BY <1>13 DEF IInv, Shape, Counted, vars
  <2>5. Stopping'
    BY <1>13
       DEF IInv, Shape, Blame, Ended, Returning, Places, Counted, Stopping, StopComesFirst, Quiet,
           vars
  <2>q. QED
    BY <2>1, <2>2, <2>3, <2>4, <2>5 DEF IInv
<1>14. CASE ContextEnds
  <2>1. /\ "disturbances" \in DOMAIN used' /\ used'.disturbances = used.disturbances + 1
        /\ used.disturbances \in Nat /\ (cancelled => used.disturbances > 0)
    BY <1>14 DEF IInv, Shape, Counted, ContextEnds, Disturbs
  <2>2. used'.disturbances \in Nat /\ used'.disturbances > 0
    BY <2>1
  <2>3. /\ UNCHANGED <<call, conn, closer, pinger, stopSent>> /\ ~cancelled /\ cancelled' = TRUE
        /\ call.pc # "done" /\ watcher' = IF watcher = "waiting" THEN "woken" ELSE watcher
    BY <1>14 DEF ContextEnds
  <2>4. Shape'
    BY <1>14, <2>1, <2>2 DEF IInv, Shape, ContextEnds
  <2>5. Blame'
    BY <1>14, <2>1, <2>2 DEF IInv, Shape, Blame, Ended, Returning, ContextEnds
  <2>6. Places'
    BY <1>14, <2>1, <2>2 DEF IInv, Shape, Blame, Ended, Returning, Places, ContextEnds
  <2>7. Counted'
    BY <2>2 DEF Counted
  <2>8. used'.disturbances = 0 \/ (cancelled' /\ used'.disturbances = 1) => Quiet
    BY <2>1 DEF Quiet
  <2>9. Stopping'
    <3>1. SUFFICES ASSUME Quiet PROVE StopComesFirst'
      BY <2>8 DEF Stopping, Quiet
    <3>2. StopComesFirst
      BY <3>1 DEF IInv, Stopping
    <3>q. QED
      BY <2>3, <3>2 DEF IInv, Shape, StopComesFirst
  <2>q. QED
    BY <2>4, <2>5, <2>6, <2>7, <2>9 DEF IInv
<1>15. CASE ConnectionBreaks
  <2>1. /\ "disturbances" \in DOMAIN used' /\ used'.disturbances = used.disturbances + 1
        /\ used.disturbances \in Nat /\ (cancelled => used.disturbances > 0)
    BY <1>15 DEF IInv, Shape, Counted, ConnectionBreaks, Disturbs
  <2>2. used'.disturbances \in Nat /\ used'.disturbances > 0
    BY <2>1
  <2>3. /\ UNCHANGED <<call, closer, cancelled, watcher, pinger, stopSent>> /\ conn = "open" /\ conn' = "broken"
    BY <1>15 DEF ConnectionBreaks
  <2>4. Shape'
    BY <1>15, <2>1, <2>2 DEF IInv, Shape, ConnectionBreaks
  <2>5. Blame'
    BY <1>15, <2>1, <2>2 DEF IInv, Shape, Blame, Ended, Returning, ConnectionBreaks
  <2>6. Places'
    BY <1>15, <2>1, <2>2 DEF IInv, Shape, Blame, Ended, Returning, Places, ConnectionBreaks
  <2>7. Counted'
    BY <2>2 DEF Counted
  <2>8. ~(used'.disturbances = 0 \/ (cancelled' /\ used'.disturbances = 1))
    BY <2>1, <2>3
  <2>9. Stopping'
    BY <2>8 DEF Stopping, Quiet
  <2>q. QED
    BY <2>4, <2>5, <2>6, <2>7, <2>9 DEF IInv
<1>16. CASE DeadlinePasses
  <2>1. /\ "disturbances" \in DOMAIN used' /\ used'.disturbances = used.disturbances + 1
        /\ used.disturbances \in Nat /\ (cancelled => used.disturbances > 0)
    BY <1>16 DEF IInv, Shape, Counted, DeadlinePasses, Disturbs
  <2>2. used'.disturbances \in Nat /\ used'.disturbances > 0
    BY <2>1
  <2>3. /\ UNCHANGED <<call, conn, closer, cancelled, watcher, pinger, stopSent>>
    BY <1>16 DEF DeadlinePasses
  <2>4. Shape'
    BY <1>16, <2>1, <2>2, ZenonT(60) DEF IInv, Shape, DeadlinePasses
  <2>5. Blame'
    BY <1>16, <2>1, <2>2 DEF IInv, Shape, Blame, Ended, Returning, DeadlinePasses
  <2>6. Places'
    BY <1>16, <2>1, <2>2 DEF IInv, Shape, Blame, Ended, Returning, Places, DeadlinePasses
  <2>7. Counted'
    BY <2>2 DEF Counted
  <2>8. ~(used'.disturbances = 0 \/ (cancelled' /\ used'.disturbances = 1))
    BY <2>1, <2>3
  <2>9. Stopping'
    BY <2>8 DEF Stopping, Quiet
  <2>q. QED
    BY <2>4, <2>5, <2>6, <2>7, <2>9 DEF IInv
<1>q. QED
  BY <1>1, <1>2, <1>3, <1>4, <1>5, <1>6, <1>7, <1>8, <1>9, <1>10, <1>11, <1>12, <1>13, <1>14,
     <1>15, <1>16
     DEF Next, CallStep, WatcherStep, PingerStep

LEMMA InvariantHolds == Spec => []IInv
BY InvariantAtInit, InvariantIsKept, PTL DEF Spec

-----------------------------------------------------------------------------
LEMMA ReadsAreBlamedLast ==
    ASSUME IInv, [Next]_vars, call'.outcome = "read", call.outcome = "none"
    PROVE  closer = "nobody"
<1>0. {"pc", "outcome"} \subseteq DOMAIN call /\ "disturbances" \in DOMAIN used /\ pingErr \in BOOLEAN
  BY DEF IInv, Shape
<1>1. CASE \/ SendHello \/ ReadGreeting \/ SendPayload \/ LoopStarts
           \/ ReadMessage \/ ReadFails \/ ExplainFailure
           \/ \E f \in Frames : \/ HandleGarbage(f) \/ HandlePing(f) \/ HandleUpdate(f)
                                \/ HandleResult(f) \/ HandleCompletion(f) \/ HandleClose(f)
  <2>1. Moves \/ Ends
    BY <1>0, <1>1, CallStepsMoveOrEnd, FramesMoveOrEnd, Zenon
  <2>2. ~Moves
    BY DEF Moves
  <2>3. ~cancelled /\ ~pingErr
    BY <2>1, <2>2 DEF Ends
  <2>q. QED
    BY <2>3 DEF IInv, Shape, Blame, Ended
<1>2. CASE \E outcome \in {"dial", "status", "rate limit"} : DialFails(outcome)
  BY <1>0, <1>2 DEF DialFails
<1>3. CASE DialSucceeds \/ StopPinger \/ StopWatcher
  BY <1>0, <1>3 DEF DialSucceeds, StopPinger, StopWatcher, Goes
<1>4. CASE WatcherStep \/ PingerStep \/ ContextEnds \/ ConnectionBreaks \/ DeadlinePasses
             \/ UNCHANGED vars
  BY <1>4 DEF WatcherStep, WatcherStarts, WatcherSendsStop, WatcherHangsUp, PingerStep,
              PingerTicks, PingerReports, PingerStops, ContextEnds, ConnectionBreaks,
              DeadlinePasses, vars
<1>q. QED
  BY <1>1, <1>2, <1>3, <1>4 DEF Next, CallStep

\* A read that fails because one of the call's own goroutines hung up is blamed on the reason of
\* that goroutine (client.go 655-669), whatever the frames and however the three interleave.
THEOREM FailuresAreExplained == Spec => FailureNamesItsCause
<1>1. IInv /\ [Next]_vars
          => [call'.outcome = "read" /\ call.outcome = "none" => closer = "nobody"]_vars
  BY ReadsAreBlamedLast
<1>q. QED
  BY <1>1, InvariantHolds, PTL DEF Spec, FailureNamesItsCause

\* A call that ends because its request was cancelled, and had no other trouble, has told
\* upstream to stop, unless its watcher never got a turn (client.go 479-511).
THEOREM UpstreamIsToldToStop == Spec => []CancelledCallsAreStopped
<1>1. IInv => CancelledCallsAreStopped
  BY DEF IInv, Shape, Blame, Places, Stopping, StopComesFirst, Quiet, Ended, Returning, CancelledCallsAreStopped
<1>q. QED
  BY <1>1, InvariantHolds, PTL

-----------------------------------------------------------------------------
(* The greatest number of a set.                                             *)

LEMMA MaxIs ==
    ASSUME NEW S, S \subseteq Nat, NEW x \in S, \A y \in S : y <= x
    PROVE  Max(S) = x
<1>1. \A y \in S : x >= y
  OBVIOUS
<1>2. \A z \in S : (\A y \in S : z >= y) => z = x
  <2>1. SUFFICES ASSUME NEW z \in S, \A y \in S : z >= y PROVE z = x
    OBVIOUS
  <2>2. z >= x /\ x >= z /\ z \in Nat /\ x \in Nat
    BY <2>1
  <2>3. QED
    BY <2>2
<1>3. QED
  BY <1>1, <1>2 DEF Max

LEMMA GreatestExists ==
    ASSUME NEW n \in Nat, NEW S, S \subseteq 0..n, S # {}
    PROVE  \E x \in S : \A y \in S : y <= x
<1> DEFINE T == {k \in 0..n : n - k \in S}
<1>1. T \subseteq Nat /\ T # {}
  <2>1. PICK s \in S : TRUE
    OBVIOUS
  <2>2. n - s \in T
    BY <2>1
  <2>3. QED
    BY <2>2
<1>2. PICK k \in T : \A j \in T : k <= j
  BY <1>1, LeastExists
<1>3. \A y \in S : n - y \in T
  OBVIOUS
<1>4. n - k \in S /\ \A y \in S : y <= n - k
  BY <1>2, <1>3
<1>5. QED
  BY <1>4

LEMMA MaxIsGreatest ==
    ASSUME NEW n \in Nat, NEW S, S \subseteq 0..n, S # {}
    PROVE  Max(S) \in S /\ \A y \in S : y <= Max(S)
<1>1. PICK x \in S : \A y \in S : y <= x
  BY GreatestExists
<1>2. S \subseteq Nat
  OBVIOUS
<1>3. Max(S) = x
  BY <1>1, <1>2, MaxIs
<1>4. QED
  BY <1>1, <1>3

-----------------------------------------------------------------------------
(* What upstream may send.                                                   *)

Answering(f) == f.type = "update" /\ ~f.refused

LEMMA Identities ==
    /\ NoId \notin Streams /\ Implicit \in Streams /\ Ids \subseteq Streams
    /\ \A id \in Streams : TrackID(id) = id
    /\ \A id \in Ids \cup {NoId} : TrackID(id) \in Streams
    /\ TrackID(NoId) = Implicit
BY FrameAssumption DEF Streams, TrackID

LEMMA UpdateParts ==
    ASSUME NEW f \in Frames, f.type = "update"
    PROVE  /\ f.cursor \in Ids \cup {NoId} /\ f.write \in Text
           /\ f.last \in BOOLEAN /\ f.refused \in BOOLEAN /\ IsFiniteSet(f.calls)
           /\ f.messages \in Seq(UpstreamMessage)
BY FrameAssumption

LEMMA WhatIsShown ==
    ASSUME NEW f \in Frames, f.type = "update"
    PROVE  /\ Shown(f) = 0 \/ Shown(f) \in 1..Len(f.messages)
           /\ Shown(f) # 0 => SnapshotOf(f) \in Text /\ SnapshotOf(f) # <<>> /\ ShownID(f) \in Streams
<1> DEFINE ms == f.messages
           visible == {i \in DOMAIN ms : VisibleAnswerMessage(ms[i])}
           named == {i \in visible : ms[i].id = f.cursor}
           unnamed == {i \in visible : ms[i].id = NoId}
<1>1. ms \in Seq(UpstreamMessage) /\ Len(ms) \in Nat /\ DOMAIN ms = 1..Len(ms)
  BY UpdateParts, LenProperties
<1>2. visible \subseteq 1..Len(ms) /\ named \subseteq visible /\ unnamed \subseteq visible
  BY <1>1
<1>3. ASSUME NEW S, S \subseteq visible
      PROVE  /\ Max(S \cup {0}) \in S \cup {0}
             /\ S # {} => Max(S) \in S
  <2>1. S \subseteq 0..Len(ms) /\ S \cup {0} \subseteq 0..Len(ms)
    BY <1>1, <1>2, <1>3
  <2>2. QED
    BY <1>1, <2>1, MaxIsGreatest
<1>4. Shown(f) \in visible \cup {0}
  <2> HIDE DEF ms
  <2>1. Shown(f) = VisibleIndex(ms, f.cursor)
    BY DEF Shown, ms
  <2> HIDE DEF visible, named, unnamed
  <2>2. CASE f.cursor = NoId
    <3>1. VisibleIndex(ms, f.cursor) = Max(visible \cup {0})
      BY <2>2 DEF VisibleIndex, visible
    <3>2. QED
      BY <2>1, <3>1, <1>3
  <2>3. CASE f.cursor # NoId /\ named # {}
    <3>1. VisibleIndex(ms, f.cursor) = Max(named)
      BY <2>3 DEF VisibleIndex, visible, named
    <3>2. Max(named) \in named
      BY <2>3, <1>2, <1>3, Zenon
    <3>3. QED
      BY <2>1, <3>1, <3>2, <1>2
  <2>4. CASE f.cursor # NoId /\ named = {}
    <3>1. VisibleIndex(ms, f.cursor) = Max(unnamed \cup {0})
      BY <2>4 DEF VisibleIndex, visible, named, unnamed
    <3>2. Max(unnamed \cup {0}) \in unnamed \cup {0}
      BY <1>2, <1>3, Zenon
    <3>3. QED
      BY <2>1, <3>1, <3>2, <1>2
  <2>5. QED
    BY <2>2, <2>3, <2>4
<1>5. ASSUME Shown(f) # 0
      PROVE  /\ ms[Shown(f)] \in UpstreamMessage /\ ms[Shown(f)].text # <<>>
  <2>1. Shown(f) \in visible
    BY <1>4, <1>5
  <2>2. QED
    BY <2>1, <1>1, ElementOfSeq DEF VisibleAnswerMessage
<1>6. ASSUME Shown(f) # 0
      PROVE  SnapshotOf(f) \in Text /\ SnapshotOf(f) # <<>>
  BY <1>5, <1>6 DEF SnapshotOf, UpstreamMessage
<1>7. ASSUME Shown(f) # 0
      PROVE  ShownID(f) \in Streams
  <2>1. ms[Shown(f)].id \in Ids \cup {NoId} /\ f.cursor \in Ids \cup {NoId}
    BY <1>5, <1>7, UpdateParts DEF UpstreamMessage
  <2>2. QED
    BY <2>1, Identities DEF ShownID
<1>8. QED
  BY <1>1, <1>4, <1>6, <1>7

-----------------------------------------------------------------------------
(* One more frame in the log: what was said of the earlier ones stays said.  *)

LEMMA LogAppend ==
    ASSUME NEW L \in Seq(Frames), NEW f \in Frames
    PROVE  /\ Append(L, f) \in Seq(Frames)
           /\ Len(L) \in Nat /\ DOMAIN L = 1..Len(L)
           /\ Len(Append(L, f)) = Len(L) + 1 /\ DOMAIN Append(L, f) = 1..Len(L) + 1
           /\ Append(L, f)[Len(L) + 1] = f
           /\ \A i \in 1..Len(L) : Append(L, f)[i] = L[i] /\ L[i] \in Frames
<1>1. /\ Append(L, f) \in Seq(Frames) /\ Len(Append(L, f)) = Len(L) + 1
      /\ \A i \in 1..Len(L) : Append(L, f)[i] = L[i]
      /\ Append(L, f)[Len(L) + 1] = f
  BY AppendProperties
<1>2. Len(L) \in Nat /\ DOMAIN L = 1..Len(L)
  BY LenProperties
<1>3. DOMAIN Append(L, f) = 1..Len(L) + 1
  BY <1>1, LenProperties
<1>4. QED
  BY <1>1, <1>2, <1>3, ElementOfSeq

LEMMA UpdatesAppend ==
    ASSUME NEW L \in Seq(Frames), NEW f \in Frames
    PROVE  /\ Updates(L) \subseteq 1..Len(L)
           /\ Updates(Append(L, f)) =
                 IF Answering(f) THEN Updates(L) \cup {Len(L) + 1} ELSE Updates(L)
<1> DEFINE M == Append(L, f)
           n == Len(L)
<1>1. /\ n \in Nat /\ DOMAIN L = 1..n /\ DOMAIN M = 1..n + 1
      /\ M[n + 1] = f /\ \A i \in 1..n : M[i] = L[i]
  BY LogAppend
<1> HIDE DEF M, n
<1>2. Updates(L) = {i \in 1..n : Answering(L[i])}
  BY <1>1 DEF Updates, Answering
<1>3. Updates(M) = {i \in 1..n + 1 : Answering(M[i])}
  BY <1>1 DEF Updates, Answering
<1>4. \A i \in 1..n : i \in Updates(M) <=> i \in Updates(L)
  BY <1>1, <1>2, <1>3
<1>5. n + 1 \in Updates(M) <=> Answering(f)
  BY <1>1, <1>3
<1>6. 1..n + 1 = 1..n \cup {n + 1} /\ n + 1 \notin 1..n
  BY <1>1
<1>7. Updates(M) = IF Answering(f) THEN Updates(L) \cup {n + 1} ELSE Updates(L)
  BY <1>2, <1>3, <1>4, <1>5, <1>6
<1>8. QED
  BY <1>2, <1>7 DEF M, n

Moving(f) == Answering(f) /\ (f.cursor # NoId \/ Shown(f) # 0)

LEMMA CursorMovesAppend ==
    ASSUME NEW L \in Seq(Frames), NEW f \in Frames
    PROVE  /\ \A i \in 1..Len(L) : CursorMoves(Append(L, f), i) = CursorMoves(L, i)
           /\ \A i \in 0..Len(L) : CursorMoves(L, i) \subseteq 1..Len(L)
           /\ CursorMoves(Append(L, f), Len(L) + 1) =
                 IF Moving(f) THEN CursorMoves(L, Len(L)) \cup {Len(L) + 1}
                 ELSE CursorMoves(L, Len(L))
<1> DEFINE M == Append(L, f)
           n == Len(L)
           m(e) == e.cursor # NoId \/ Shown(e) # 0
<1>1. /\ n \in Nat /\ M[n + 1] = f /\ \A i \in 1..n : M[i] = L[i]
  BY LogAppend
<1>2. /\ Updates(L) \subseteq 1..n
      /\ Updates(M) = IF Answering(f) THEN Updates(L) \cup {n + 1} ELSE Updates(L)
  BY UpdatesAppend
<1>3. \A i : CursorMoves(L, i) = {j \in Updates(L) : j <= i /\ m(L[j])}
  BY DEF CursorMoves
<1>4. \A i : CursorMoves(M, i) = {j \in Updates(M) : j <= i /\ m(M[j])}
  BY DEF CursorMoves
<1>m. Moving(f) <=> Answering(f) /\ m(f)
  BY DEF Moving
<1> HIDE DEF M, n, m
<1>5. ASSUME NEW i \in 1..n
      PROVE  CursorMoves(M, i) = CursorMoves(L, i)
  <2>1. \A j \in Updates(M) : j <= i => j \in Updates(L)
    BY <1>1, <1>2
  <2>2. \A j \in Updates(L) : j \in Updates(M) /\ M[j] = L[j]
    BY <1>1, <1>2
  <2>3. QED
    BY <1>3, <1>4, <2>1, <2>2
<1>6. CursorMoves(M, n + 1) = IF Moving(f) THEN CursorMoves(L, n) \cup {n + 1}
                              ELSE CursorMoves(L, n)
  <2>1. \A j \in Updates(L) : j \in Updates(M) /\ M[j] = L[j] /\ j <= n /\ j <= n + 1
    BY <1>1, <1>2
  <2>2. \A j \in Updates(M) : j \in Updates(L) \/ (j = n + 1 /\ Answering(f))
    BY <1>2
  <2>3. Answering(f) => n + 1 \in Updates(M)
    BY <1>2
  <2>4. n + 1 <= n + 1
    BY <1>1
  <2>5. \A j : j \in CursorMoves(M, n + 1) <=>
                  j \in CursorMoves(L, n) \/ (j = n + 1 /\ Moving(f))
    BY <1>1, <1>3, <1>4, <1>m, <2>1, <2>2, <2>3, <2>4
  <2>6. QED
    BY <2>5
<1>7. \A i \in 0..n : CursorMoves(L, i) \subseteq 1..n
  BY <1>2, <1>3
<1>8. QED
  BY <1>5, <1>6, <1>7 DEF M, n

LEMMA AimAppend ==
    ASSUME NEW L \in Seq(Frames), NEW f \in Frames
    PROVE  /\ \A i \in 1..Len(L) : Aim(Append(L, f), i) = Aim(L, i)
           /\ Aim(Append(L, f), Len(L) + 1) =
                 IF ~Moving(f) THEN Aim(L, Len(L))
                 ELSE IF f.cursor # NoId THEN f.cursor ELSE ShownID(f)
<1> DEFINE M == Append(L, f)
           n == Len(L)
<1>1. /\ n \in Nat /\ M[n + 1] = f /\ \A i \in 1..n : M[i] = L[i]
  BY LogAppend
<1>2. /\ \A i \in 1..n : CursorMoves(M, i) = CursorMoves(L, i)
      /\ \A i \in 0..n : CursorMoves(L, i) \subseteq 1..n
      /\ CursorMoves(M, n + 1) = IF Moving(f) THEN CursorMoves(L, n) \cup {n + 1}
                                 ELSE CursorMoves(L, n)
  BY CursorMovesAppend
<1> HIDE DEF M, n
<1>3. ASSUME NEW i \in 0..n, NEW k \in 1..n + 1, CursorMoves(M, k) = CursorMoves(L, i)
      PROVE  Aim(M, k) = Aim(L, i)
  <2>1. CASE CursorMoves(L, i) = {}
    BY <1>3, <2>1 DEF Aim
  <2>2. CASE CursorMoves(L, i) # {}
    <3>1. Max(CursorMoves(L, i)) \in 1..n
      <4>1. CursorMoves(L, i) \subseteq 0..n /\ CursorMoves(L, i) \subseteq 1..n
        BY <1>2, <1>1
      <4>2. QED
        BY <1>1, <2>2, <4>1, MaxIsGreatest
    <3>2. M[Max(CursorMoves(L, i))] = L[Max(CursorMoves(L, i))]
      BY <1>1, <3>1
    <3>3. QED
      BY <1>3, <2>2, <3>2 DEF Aim
  <2>3. QED
    BY <2>1, <2>2
<1>4. \A i \in 1..n : Aim(M, i) = Aim(L, i)
  BY <1>1, <1>2, <1>3
<1>5. CASE ~Moving(f)
  <2>1. Aim(M, n + 1) = Aim(L, n)
    BY <1>1, <1>2, <1>3, <1>5
  <2>2. QED
    BY <1>4, <1>5, <2>1 DEF M, n
<1>6. CASE Moving(f)
  <2> DEFINE S == CursorMoves(M, n + 1)
  <2>1. S = CursorMoves(L, n) \cup {n + 1} /\ CursorMoves(L, n) \subseteq 1..n
    BY <1>1, <1>2, <1>6
  <2>2. S \subseteq Nat /\ n + 1 \in S /\ \A y \in S : y <= n + 1
    BY <1>1, <2>1
  <2>3. Max(S) = n + 1
    BY <1>1, <2>2, MaxIs
  <2>4. Aim(M, n + 1) = IF f.cursor # NoId THEN f.cursor ELSE ShownID(f)
    BY <1>1, <2>2, <2>3 DEF Aim
  <2>5. QED
    BY <1>4, <1>6, <2>4 DEF M, n
<1>7. QED
  BY <1>5, <1>6

LEMMA ShowsAppend ==
    ASSUME NEW L \in Seq(Frames), NEW f \in Frames
    PROVE  /\ \A i \in 1..Len(L), id \in Streams : Shows(Append(L, f), i, id) <=> Shows(L, i, id)
           /\ \A i, id : Shows(L, i, id) => i \in 1..Len(L)
           /\ \A id : Shows(Append(L, f), Len(L) + 1, id) <=>
                         Answering(f) /\ Shown(f) # 0 /\ ShownID(f) = id
<1>1. /\ Len(L) \in Nat /\ Append(L, f)[Len(L) + 1] = f
      /\ \A i \in 1..Len(L) : Append(L, f)[i] = L[i]
  BY LogAppend
<1>2. /\ Updates(L) \subseteq 1..Len(L)
      /\ Updates(Append(L, f)) = IF Answering(f) THEN Updates(L) \cup {Len(L) + 1} ELSE Updates(L)
  BY UpdatesAppend
<1>3. \A i \in 1..Len(L) : i \in Updates(Append(L, f)) <=> i \in Updates(L)
  BY <1>1, <1>2
<1>4. Len(L) + 1 \in Updates(Append(L, f)) <=> Answering(f)
  <2>1. Len(L) + 1 \notin Updates(L)
    BY <1>1, <1>2
  <2>2. QED
    BY <1>2, <2>1
<1>5. \A i \in 1..Len(L), id \in Streams : Shows(Append(L, f), i, id) <=> Shows(L, i, id)
  BY <1>1, <1>3 DEF Shows
<1>6. \A i, id : Shows(L, i, id) => i \in 1..Len(L)
  BY <1>2 DEF Shows
<1>7. \A id : Shows(Append(L, f), Len(L) + 1, id) <=>
                 Answering(f) /\ Shown(f) # 0 /\ ShownID(f) = id
  BY <1>1, <1>4 DEF Shows
<1>8. QED
  BY <1>5, <1>6, <1>7

LEMMA WritesAppend ==
    ASSUME NEW L \in Seq(Frames), NEW f \in Frames
    PROVE  /\ \A i \in 1..Len(L), id \in Streams :
                 WritesTo(Append(L, f), i, id) <=> WritesTo(L, i, id)
           /\ \A i, id : WritesTo(L, i, id) => i \in 1..Len(L)
           /\ \A id \in Streams : WritesTo(Append(L, f), Len(L) + 1, id) <=>
                 /\ Answering(f) /\ f.write # <<>> /\ Aim(Append(L, f), Len(L) + 1) = id
                 /\ id = Implicit \/ \E j \in 1..Len(L) + 1 : Shows(Append(L, f), j, id)
<1>1. /\ Len(L) \in Nat /\ Append(L, f)[Len(L) + 1] = f
      /\ \A i \in 1..Len(L) : Append(L, f)[i] = L[i]
  BY LogAppend
<1>2. /\ Updates(L) \subseteq 1..Len(L)
      /\ Updates(Append(L, f)) = IF Answering(f) THEN Updates(L) \cup {Len(L) + 1} ELSE Updates(L)
  BY UpdatesAppend
<1>3. \A i \in 1..Len(L) : i \in Updates(Append(L, f)) <=> i \in Updates(L)
  BY <1>1, <1>2
<1>4. Len(L) + 1 \in Updates(Append(L, f)) <=> Answering(f)
  <2>1. Len(L) + 1 \notin Updates(L)
    BY <1>1, <1>2
  <2>2. QED
    BY <1>2, <2>1
<1>5. ASSUME NEW i \in 1..Len(L), NEW id \in Streams
      PROVE  WritesTo(Append(L, f), i, id) <=> WritesTo(L, i, id)
  <2>1. \A j \in 1..i : Shows(Append(L, f), j, id) <=> Shows(L, j, id)
    BY <1>1, ShowsAppend
  <2>2. Aim(Append(L, f), i) = Aim(L, i)
    BY AimAppend
  <2>3. Append(L, f)[i] = L[i] /\ (i \in Updates(Append(L, f)) <=> i \in Updates(L))
    BY <1>1, <1>3
  <2>4. QED
    BY <2>1, <2>2, <2>3 DEF WritesTo
<1>6. \A i, id : WritesTo(L, i, id) => i \in 1..Len(L)
  BY <1>2 DEF WritesTo
<1>7. \A id \in Streams : WritesTo(Append(L, f), Len(L) + 1, id) <=>
         /\ Answering(f) /\ f.write # <<>> /\ Aim(Append(L, f), Len(L) + 1) = id
         /\ id = Implicit \/ \E j \in 1..Len(L) + 1 : Shows(Append(L, f), j, id)
  BY <1>1, <1>4 DEF WritesTo
<1>8. QED
  BY <1>5, <1>6, <1>7

-----------------------------------------------------------------------------
(* The recursion of an answer's text.                                        *)

\* What frame n makes of the text t.
TextAfter(L, n, id, t) ==
    (IF Shows(L, n, id) THEN SnapshotOf(L[n]) ELSE t)
        \o (IF WritesTo(L, n, id) THEN L[n].write ELSE <<>>)

Telltale(L, id, m, F) == F = [n \in 0..m |-> IF n = 0 THEN <<>> ELSE TextAfter(L, n, id, F[n - 1])]

LEMMA TelltaleExists ==
    ASSUME NEW L, NEW id, NEW n \in Nat
    PROVE  \E F : Telltale(L, id, n, F)
<1> DEFINE Bad == {m \in Nat : ~\E F : Telltale(L, id, m, F)}
<1>1. SUFFICES ASSUME Bad # {} PROVE FALSE
  OBVIOUS
<1>2. PICK m \in Bad : \A j \in Bad : m <= j
  BY <1>1, LeastExists
<1>3. m # 0
  <2> DEFINE E == [i \in 0..0 |-> <<>>]
  <2>1. E = [i \in 0..0 |-> IF i = 0 THEN <<>> ELSE TextAfter(L, i, id, E[i - 1])]
    OBVIOUS
  <2>2. Telltale(L, id, 0, E)
    BY <2>1 DEF Telltale
  <2>3. QED
    BY <2>2
<1>4. m - 1 \in Nat /\ m - 1 \notin Bad
  BY <1>2, <1>3
<1>5. PICK G : Telltale(L, id, m - 1, G)
  BY <1>4
<1> DEFINE F == [i \in 0..m |-> IF i < m THEN G[i] ELSE TextAfter(L, i, id, G[i - 1])]
<1>6. F = [i \in 0..m |-> IF i = 0 THEN <<>> ELSE TextAfter(L, i, id, F[i - 1])]
  <2>1. ASSUME NEW i \in 0..m
        PROVE  F[i] = IF i = 0 THEN <<>> ELSE TextAfter(L, i, id, F[i - 1])
    <3>1. i \in 0..m - 1 => G[i] = IF i = 0 THEN <<>> ELSE TextAfter(L, i, id, G[i - 1])
      BY <1>5 DEF Telltale
    <3>2. i # 0 => i - 1 \in 0..m - 1 /\ F[i - 1] = G[i - 1]
      BY <1>4
    <3>3. QED
      BY <1>3, <1>4, <3>1, <3>2
  <2>2. QED
    BY <2>1
<1>7. QED
  BY <1>6, <1>2 DEF Telltale

LEMMA TelltaleAt ==
    ASSUME NEW L, NEW id, NEW n, NEW F, Telltale(L, id, n, F), NEW k \in 0..n
    PROVE  F[k] = IF k = 0 THEN <<>> ELSE TextAfter(L, k, id, F[k - 1])
<1> DEFINE e(i) == IF i = 0 THEN <<>> ELSE TextAfter(L, i, id, F[i - 1])
<1>1. F = [i \in 0..n |-> e(i)]
  BY DEF Telltale
<1> HIDE DEF e
<1>2. F[k] = e(k)
  BY <1>1
<1>3. QED
  BY <1>2 DEF e

LEMMA AnswerIs ==
    ASSUME NEW L \in Seq(Frames), NEW id
    PROVE  Telltale(L, id, Len(L), Answer(L, id))
<1> DEFINE A == CHOOSE F : Telltale(L, id, Len(L), F)
<1>1. Len(L) \in Nat
  BY LenProperties
<1>2. Telltale(L, id, Len(L), A)
  BY <1>1, TelltaleExists
<1>3. Answer(L, id) = A
  BY DEF Answer, Telltale, TextAfter
<1>4. QED
  BY <1>2, <1>3

SameTexts(n, F, G) == \A i \in 0..n : F[i] = G[i]

LEMMA AnswerAppend ==
    ASSUME NEW L \in Seq(Frames), NEW f \in Frames, NEW id \in Streams
    PROVE  /\ SameTexts(Len(L), Answer(Append(L, f), id), Answer(L, id))
           /\ Answer(Append(L, f), id)[Len(L) + 1] =
                 TextAfter(Append(L, f), Len(L) + 1, id, Answer(L, id)[Len(L)])
<1> DEFINE M == Append(L, f)
           n == Len(L)
           A == Answer(L, id)
           B == Answer(M, id)
<1>1. /\ n \in Nat /\ Len(M) = n + 1 /\ M \in Seq(Frames)
      /\ \A i \in 1..n : M[i] = L[i]
  BY LogAppend
<1>2. \A k \in 0..n : A[k] = IF k = 0 THEN <<>> ELSE TextAfter(L, k, id, A[k - 1])
  BY AnswerIs, TelltaleAt
<1>3. \A k \in 0..n + 1 : B[k] = IF k = 0 THEN <<>> ELSE TextAfter(M, k, id, B[k - 1])
  <2>1. Telltale(M, id, n + 1, B)
    BY <1>1, AnswerIs
  <2>2. QED
    BY <2>1, TelltaleAt
<1>4. ASSUME NEW k \in 1..n, NEW t
      PROVE  TextAfter(M, k, id, t) = TextAfter(L, k, id, t)
  <2>1. /\ M[k] = L[k] /\ (Shows(M, k, id) <=> Shows(L, k, id))
        /\ (WritesTo(M, k, id) <=> WritesTo(L, k, id))
    BY <1>1, ShowsAppend, WritesAppend
  <2>2. QED
    BY <2>1 DEF TextAfter
<1> HIDE DEF M, n, A, B
<1>5. SameTexts(n, B, A)
  <2> DEFINE Bad == {k \in 0..n : B[k] # A[k]}
  <2>1. SUFFICES ASSUME Bad # {} PROVE FALSE
    BY DEF SameTexts
  <2>2. PICK k \in Bad : \A j \in Bad : k <= j
    <3>1. Bad \subseteq Nat
      OBVIOUS
    <3>2. QED
      BY <2>1, <3>1, LeastExists
  <2>3. k # 0
    BY <1>1, <1>2, <1>3
  <2>4. k \in 1..n /\ k - 1 \in 0..n /\ k - 1 \notin Bad
    BY <1>1, <2>2, <2>3
  <2>5. A[k] = TextAfter(L, k, id, A[k - 1]) /\ B[k] = TextAfter(M, k, id, B[k - 1])
    BY <1>1, <1>2, <1>3, <2>2, <2>3
  <2>6. QED
    BY <1>4, <2>4, <2>5
<1>6. B[n + 1] = TextAfter(M, n + 1, id, A[n])
  <2>1. n + 1 \in 0..n + 1 /\ n + 1 # 0 /\ n + 1 - 1 = n /\ n \in 0..n
    BY <1>1
  <2>2. B[n + 1] = TextAfter(M, n + 1, id, B[n])
    BY <1>3, <2>1
  <2>3. QED
    BY <1>5, <2>1, <2>2 DEF SameTexts
<1>7. QED
  BY <1>5, <1>6 DEF M, n, A, B

-----------------------------------------------------------------------------
(* A log in summary, and what one more frame adds to it.                     *)

Told(L) == {id \in Streams : \E i \in 1..Len(L) : Shows(L, i, id) \/ WritesTo(L, i, id)}

Written(L) == {id \in Streams : \E i \in DOMAIN L : WritesTo(L, i, id)}

TextOf(L, id) == Answer(L, id)[Len(L)]

AimOf(L) == Aim(L, Len(L))

CompletedID(L) ==
    IF Completing(L) = {} THEN NoId ELSE ShownID(L[Max(Completing(L))])

LatestID(L) ==
    LET last == Max(Telling(L)) IN
    IF Telling(L) = {} THEN NoId
    ELSE IF \E id \in Streams : WritesTo(L, last, id) THEN Aim(L, last) ELSE ShownID(L[last])

Presents(f) == Answering(f) /\ Shown(f) # 0

Declares(f) == Presents(f) /\ (f.last \/ f.messages[Shown(f)].completed)

\* The frame f after the log L writes where the caller can see it.
Adds(L, f) ==
    /\ Answering(f) /\ f.write # <<>>
    /\ \/ AimOf(Append(L, f)) = Implicit
       \/ AimOf(Append(L, f)) \in Told(L)
       \/ Presents(f) /\ ShownID(f) = AimOf(Append(L, f))

LEMMA AimIsAStream ==
    ASSUME NEW L \in Seq(Frames)
    PROVE  AimOf(L) \in Streams
<1> DEFINE n == Len(L)
           S == CursorMoves(L, n)
<1>1. n \in Nat /\ DOMAIN L = 1..n /\ \A i \in 1..n : L[i] \in Frames
  BY LenProperties, ElementOfSeq
<1>2. CASE S = {}
  BY <1>2, Identities DEF AimOf, Aim
<1>3. CASE S # {}
  <2>1. S \subseteq 1..n /\ S \subseteq 0..n
    BY <1>1 DEF CursorMoves, Updates
  <2>2. Max(S) \in S
    BY <1>1, <1>3, <2>1, MaxIsGreatest, SMTT(30)
  <2> DEFINE last == L[Max(S)]
  <2>3. last \in Frames /\ last.type = "update" /\ (last.cursor # NoId \/ Shown(last) # 0)
    BY <1>1, <2>1, <2>2 DEF CursorMoves, Updates
  <2>4. last.cursor \in Ids \cup {NoId} /\ (Shown(last) # 0 => ShownID(last) \in Streams)
    BY <2>3, UpdateParts, WhatIsShown
  <2>5. AimOf(L) = IF last.cursor # NoId THEN last.cursor ELSE ShownID(last)
    BY <1>3 DEF AimOf, Aim
  <2> HIDE DEF last
  <2>6. QED
    BY <2>3, <2>4, <2>5, Identities
<1>4. QED
  BY <1>2, <1>3

\* What is told but not shown has no ID.
LEMMA ToldIsShown ==
    ASSUME NEW L \in Seq(Frames), NEW id \in Told(L), id # Implicit
    PROVE  \E j \in 1..Len(L) : Shows(L, j, id)
<1>1. PICK i \in 1..Len(L) : Shows(L, i, id) \/ WritesTo(L, i, id)
  BY DEF Told
<1>2. CASE WritesTo(L, i, id)
  <2>1. PICK j \in 1..i : Shows(L, j, id)
    BY <1>2 DEF WritesTo
  <2>2. QED
    BY <1>1, <2>1, LenProperties
<1>3. QED
  BY <1>1, <1>2

LEMMA AddsIs ==
    ASSUME NEW L \in Seq(Frames), NEW f \in Frames, NEW id \in Streams
    PROVE  WritesTo(Append(L, f), Len(L) + 1, id)
              <=> Adds(L, f) /\ id = AimOf(Append(L, f))
<1> DEFINE M == Append(L, f)
           n == Len(L)
<1>1. n \in Nat /\ Len(M) = n + 1 /\ AimOf(M) = Aim(M, n + 1)
  BY LogAppend DEF AimOf
<1>2. /\ \A j \in 1..n : Shows(M, j, id) <=> Shows(L, j, id)
      /\ Shows(M, n + 1, id) <=> Presents(f) /\ ShownID(f) = id
  <2>1. Shows(M, n + 1, id) <=> Answering(f) /\ Shown(f) # 0 /\ ShownID(f) = id
    BY ShowsAppend
  <2>2. \A j \in 1..n : Shows(M, j, id) <=> Shows(L, j, id)
    BY ShowsAppend
  <2>3. QED
    BY <2>1, <2>2 DEF Presents
<1>3. WritesTo(M, n + 1, id) <=>
         /\ Answering(f) /\ f.write # <<>> /\ Aim(M, n + 1) = id
         /\ id = Implicit \/ \E j \in 1..n + 1 : Shows(M, j, id)
  BY WritesAppend
<1>a. Adds(L, f) <=> /\ Answering(f) /\ f.write # <<>>
                     /\ \/ AimOf(M) = Implicit
                        \/ AimOf(M) \in Told(L)
                        \/ Presents(f) /\ ShownID(f) = AimOf(M)
  BY DEF Adds
<1> HIDE DEF M, n
<1>4. (\E j \in 1..n + 1 : Shows(M, j, id))
         <=> (\E j \in 1..n : Shows(L, j, id)) \/ (Presents(f) /\ ShownID(f) = id)
  <2>1. \A j \in 1..n + 1 : j \in 1..n \/ j = n + 1
    BY <1>1
  <2>2. 1..n \subseteq 1..n + 1 /\ n + 1 \in 1..n + 1
    BY <1>1
  <2>3. QED
    BY <1>2, <2>1, <2>2
<1>5. id # Implicit => (id \in Told(L) <=> \E j \in 1..n : Shows(L, j, id))
  BY ToldIsShown DEF Told, n
<1>6. QED
  BY <1>1, <1>3, <1>4, <1>5, <1>a DEF M, n

LEMMA PresentedIs ==
    ASSUME NEW f \in Frames, Presents(f)
    PROVE  SnapshotOf(f) \in Text /\ SnapshotOf(f) # <<>> /\ ShownID(f) \in Streams
BY WhatIsShown DEF Presents, Answering

LEMMA ToldAppend ==
    ASSUME NEW L \in Seq(Frames), NEW f \in Frames
    PROVE  /\ Told(Append(L, f)) = Told(L)
                 \cup (IF Presents(f) THEN {ShownID(f)} ELSE {})
                 \cup (IF Adds(L, f) THEN {AimOf(Append(L, f))} ELSE {})
           /\ Written(Append(L, f)) = Written(L)
                 \cup (IF Adds(L, f) THEN {AimOf(Append(L, f))} ELSE {})
<1> DEFINE M == Append(L, f)
           n == Len(L)
           s(i, id) == Shows(M, i, id)
           w(i, id) == WritesTo(M, i, id)
<1>1. n \in Nat /\ Len(M) = n + 1 /\ DOMAIN M = 1..n + 1 /\ DOMAIN L = 1..n /\ M \in Seq(Frames)
  BY LogAppend
<1>2. \A id \in Streams : s(n + 1, id) <=> Presents(f) /\ ShownID(f) = id
  BY ShowsAppend DEF Presents
<1>3. \A id \in Streams : w(n + 1, id) <=> Adds(L, f) /\ id = AimOf(M)
  BY AddsIs
<1>4. \A id \in Streams : \A i \in 1..n : (s(i, id) <=> Shows(L, i, id)) /\ (w(i, id) <=> WritesTo(L, i, id))
  BY ShowsAppend, WritesAppend
<1>5. AimOf(M) \in Streams /\ (Presents(f) => ShownID(f) \in Streams)
  BY <1>1, AimIsAStream, PresentedIs
<1>6. Told(M) = {id \in Streams : \E i \in 1..n + 1 : s(i, id) \/ w(i, id)}
  BY <1>1 DEF Told
<1>7. Written(M) = {id \in Streams : \E i \in 1..n + 1 : w(i, id)}
  BY <1>1 DEF Written
<1>8. Told(L) = {id \in Streams : \E i \in 1..n : Shows(L, i, id) \/ WritesTo(L, i, id)}
  BY DEF Told
<1>9. Written(L) = {id \in Streams : \E i \in 1..n : WritesTo(L, i, id)}
  BY <1>1 DEF Written
<1> HIDE DEF M, n, s, w
<1>10. \A i \in 1..n + 1 : i \in 1..n \/ i = n + 1
  BY <1>1
<1>11. 1..n \subseteq 1..n + 1 /\ n + 1 \in 1..n + 1
  BY <1>1
<1>12. ASSUME NEW id \in Streams
       PROVE  /\ id \in Told(M) <=> id \in Told(L) \/ (Presents(f) /\ ShownID(f) = id)
                                        \/ (Adds(L, f) /\ id = AimOf(M))
              /\ id \in Written(M) <=> id \in Written(L) \/ (Adds(L, f) /\ id = AimOf(M))
  <2>1. /\ id \in Told(M) <=> \E i \in 1..n + 1 : s(i, id) \/ w(i, id)
        /\ id \in Told(L) <=> \E i \in 1..n : s(i, id) \/ w(i, id)
        /\ id \in Written(M) <=> \E i \in 1..n + 1 : w(i, id)
        /\ id \in Written(L) <=> \E i \in 1..n : w(i, id)
    BY <1>4, <1>6, <1>7, <1>8, <1>9
  <2>2. /\ s(n + 1, id) <=> Presents(f) /\ ShownID(f) = id
        /\ w(n + 1, id) <=> Adds(L, f) /\ id = AimOf(M)
    BY <1>2, <1>3
  <2>3. QED
    BY <1>10, <1>11, <2>1, <2>2
<1>13. Told(M) \subseteq Streams /\ Told(L) \subseteq Streams /\ Written(M) \subseteq Streams /\ Written(L) \subseteq Streams
  BY <1>6, <1>7, <1>8, <1>9
<1>14. Told(M) = Told(L) \cup (IF Presents(f) THEN {ShownID(f)} ELSE {})
                 \cup (IF Adds(L, f) THEN {AimOf(M)} ELSE {})
  BY <1>5, <1>12, <1>13
<1>15. Written(M) = Written(L) \cup (IF Adds(L, f) THEN {AimOf(M)} ELSE {})
  BY <1>5, <1>12, <1>13
<1>16. QED
  BY <1>14, <1>15 DEF M, n

LEMMA TextAppend ==
    ASSUME NEW L \in Seq(Frames), NEW f \in Frames, NEW id \in Streams
    PROVE  TextOf(Append(L, f), id) =
              (IF Presents(f) /\ ShownID(f) = id THEN SnapshotOf(f) ELSE TextOf(L, id))
                  \o (IF Adds(L, f) /\ id = AimOf(Append(L, f)) THEN f.write ELSE <<>>)
<1> DEFINE M == Append(L, f)
           n == Len(L)
<1>1. n \in Nat /\ Len(M) = n + 1 /\ M[n + 1] = f
  BY LogAppend
<1>2. Shows(M, n + 1, id) <=> Presents(f) /\ ShownID(f) = id
  <2>1. Shows(M, n + 1, id) <=> Answering(f) /\ Shown(f) # 0 /\ ShownID(f) = id
    BY ShowsAppend
  <2>2. QED
    BY <2>1 DEF Presents
<1>3. WritesTo(M, n + 1, id) <=> Adds(L, f) /\ id = AimOf(M)
  BY AddsIs
<1>4. Answer(M, id)[n + 1] = TextAfter(M, n + 1, id, Answer(L, id)[n])
  BY AnswerAppend
<1> HIDE DEF M, n
<1>5. Answer(M, id)[n + 1] =
        (IF Presents(f) /\ ShownID(f) = id THEN SnapshotOf(f) ELSE Answer(L, id)[n])
            \o (IF Adds(L, f) /\ id = AimOf(M) THEN f.write ELSE <<>>)
  BY <1>1, <1>2, <1>3, <1>4 DEF TextAfter
<1>6. QED
  BY <1>1, <1>5 DEF TextOf, M, n

LEMMA RewrittenAppend ==
    ASSUME NEW L \in Seq(Frames), NEW f \in Frames, NEW id \in Streams
    PROVE  Rewritten(Append(L, f), id) <=>
              \/ Rewritten(L, id)
              \/ Presents(f) /\ ShownID(f) = id /\ ~IsPrefix(TextOf(L, id), SnapshotOf(f))
<1> DEFINE M == Append(L, f)
           n == Len(L)
           A == Answer(L, id)
           B == Answer(M, id)
           r(i) == Shows(M, i, id) /\ ~IsPrefix(B[i - 1], SnapshotOf(M[i]))
           q(i) == Shows(L, i, id) /\ ~IsPrefix(A[i - 1], SnapshotOf(L[i]))
<1>1. /\ n \in Nat /\ Len(M) = n + 1 /\ M[n + 1] = f
      /\ \A i \in 1..n : M[i] = L[i]
  BY LogAppend
<1>2. Shows(M, n + 1, id) <=> Presents(f) /\ ShownID(f) = id
  <2>1. Shows(M, n + 1, id) <=> Answering(f) /\ Shown(f) # 0 /\ ShownID(f) = id
    BY ShowsAppend
  <2>2. QED
    BY <2>1 DEF Presents
<1>3. \A i \in 1..n : Shows(M, i, id) <=> Shows(L, i, id)
  BY ShowsAppend
<1>4. \A i \in 0..n : B[i] = A[i]
  BY AnswerAppend DEF SameTexts
<1>5. (Rewritten(M, id) <=> \E i \in 1..n + 1 : r(i)) /\ (Rewritten(L, id) <=> \E i \in 1..n : q(i))
  BY <1>1 DEF Rewritten
<1>6. \A i \in 1..n : r(i) <=> q(i)
  <2>1. \A i \in 1..n : B[i - 1] = A[i - 1]
    BY <1>1, <1>4
  <2>2. QED
    BY <1>1, <1>3, <2>1
<1>7. r(n + 1) <=> Presents(f) /\ ShownID(f) = id /\ ~IsPrefix(TextOf(L, id), SnapshotOf(f))
  <2>1. n + 1 - 1 = n /\ n \in 0..n
    BY <1>1
  <2>2. B[n + 1 - 1] = TextOf(L, id)
    BY <1>4, <2>1 DEF TextOf
  <2>3. QED
    BY <1>1, <1>2, <2>2
<1> HIDE DEF M, n, A, B, r, q
<1>8. \A i \in 1..n + 1 : i \in 1..n \/ i = n + 1
  BY <1>1
<1>9. 1..n \subseteq 1..n + 1 /\ n + 1 \in 1..n + 1
  BY <1>1
<1>10. (\E i \in 1..n + 1 : r(i)) <=> (\E i \in 1..n : q(i)) \/ r(n + 1)
  BY <1>6, <1>8, <1>9
<1>11. QED
  BY <1>5, <1>7, <1>10 DEF M, n

LEMMA CompletedAppend ==
    ASSUME NEW L \in Seq(Frames), NEW f \in Frames
    PROVE  CompletedID(Append(L, f)) = IF Declares(f) THEN ShownID(f) ELSE CompletedID(L)
<1> DEFINE M == Append(L, f)
           n == Len(L)
           d(e) == Shown(e) # 0 /\ (e.last \/ e.messages[Shown(e)].completed)
<1>1. /\ n \in Nat /\ M[n + 1] = f
      /\ \A i \in 1..n : M[i] = L[i]
  BY LogAppend
<1>2. /\ Updates(L) \subseteq 1..n
      /\ Updates(M) = IF Answering(f) THEN Updates(L) \cup {n + 1} ELSE Updates(L)
  BY UpdatesAppend
<1>3. /\ Completing(L) = {i \in Updates(L) : d(L[i])}
      /\ Completing(M) = {i \in Updates(M) : d(M[i])}
  BY DEF Completing
<1>d. Declares(f) <=> Answering(f) /\ d(f)
  BY DEF Declares, Presents
<1> HIDE DEF M, n, d
<1>4. Completing(L) \subseteq 1..n
  BY <1>2, <1>3
<1>5. \A j \in Updates(L) : M[j] = L[j]
  BY <1>1, <1>2
<1>6. CASE Declares(f)
  <2>1. n + 1 \in Completing(M)
    BY <1>1, <1>2, <1>3, <1>6, <1>d
  <2>2. Completing(M) \subseteq 1..n + 1
    BY <1>1, <1>2, <1>3
  <2>3. Completing(M) \subseteq Nat /\ \A y \in Completing(M) : y <= n + 1
    BY <1>1, <2>2
  <2>4. Max(Completing(M)) = n + 1
    BY <2>1, <2>3, MaxIs
  <2>5. CompletedID(M) = ShownID(f)
    BY <1>1, <2>1, <2>4 DEF CompletedID
  <2>6. QED
    BY <1>6, <2>5 DEF M
<1>7. CASE ~Declares(f)
  <2>1. Completing(M) = Completing(L)
    BY <1>1, <1>2, <1>3, <1>5, <1>7, <1>d
  <2>2. CASE Completing(L) = {}
    BY <1>7, <2>1, <2>2 DEF CompletedID, M
  <2>3. CASE Completing(L) # {}
    <3>1. Completing(L) \subseteq 0..n
      BY <1>1, <1>4
    <3>2. Max(Completing(L)) \in 1..n
      BY <1>1, <1>4, <2>3, <3>1, MaxIsGreatest
    <3>3. M[Max(Completing(L))] = L[Max(Completing(L))]
      BY <1>1, <3>2
    <3>4. QED
      BY <1>7, <2>1, <3>3 DEF CompletedID, M
  <2>4. QED
    BY <2>2, <2>3
<1>8. QED
  BY <1>6, <1>7

LEMMA LatestAppend ==
    ASSUME NEW L \in Seq(Frames), NEW f \in Frames
    PROVE  LatestID(Append(L, f)) = IF Adds(L, f) THEN AimOf(Append(L, f))
                                    ELSE IF Presents(f) THEN ShownID(f) ELSE LatestID(L)
<1> DEFINE M == Append(L, f)
           n == Len(L)
           t(i) == \E id \in Streams : Shows(L, i, id) \/ WritesTo(L, i, id)
           u(i) == \E id \in Streams : Shows(M, i, id) \/ WritesTo(M, i, id)
           w(i) == \E id \in Streams : WritesTo(L, i, id)
           x(i) == \E id \in Streams : WritesTo(M, i, id)
<1>1. /\ n \in Nat /\ M[n + 1] = f /\ Len(M) = n + 1 /\ M \in Seq(Frames)
      /\ \A i \in 1..n : M[i] = L[i]
  BY LogAppend
<1>2. /\ Updates(L) \subseteq 1..n
      /\ Updates(M) = IF Answering(f) THEN Updates(L) \cup {n + 1} ELSE Updates(L)
  BY UpdatesAppend
<1>3. Telling(L) = {i \in Updates(L) : t(i)} /\ Telling(M) = {i \in Updates(M) : u(i)}
  BY DEF Telling
<1>4. \A i \in 1..n : (u(i) <=> t(i)) /\ (x(i) <=> w(i)) /\ Aim(M, i) = Aim(L, i)
  BY ShowsAppend, WritesAppend, AimAppend
<1>5. AimOf(M) \in Streams /\ (Presents(f) => ShownID(f) \in Streams) /\ AimOf(M) = Aim(M, n + 1)
  BY <1>1, AimIsAStream, PresentedIs DEF AimOf
<1>6. x(n + 1) <=> Adds(L, f)
  BY <1>5, AddsIs
<1>7. u(n + 1) <=> Adds(L, f) \/ Presents(f)
  <2>1. \A id \in Streams : Shows(M, n + 1, id) <=> Presents(f) /\ ShownID(f) = id
    BY ShowsAppend DEF Presents
  <2>2. QED
    BY <1>5, <1>6, <2>1
<1>a. Adds(L, f) \/ Presents(f) => Answering(f)
  BY DEF Adds, Presents
<1>l. /\ LatestID(L) = IF Telling(L) = {} THEN NoId
                       ELSE IF w(Max(Telling(L))) THEN Aim(L, Max(Telling(L)))
                       ELSE ShownID(L[Max(Telling(L))])
      /\ LatestID(M) = IF Telling(M) = {} THEN NoId
                       ELSE IF x(Max(Telling(M))) THEN Aim(M, Max(Telling(M)))
                       ELSE ShownID(M[Max(Telling(M))])
  BY DEF LatestID
<1> HIDE DEF M, n, t, u, w, x
<1>8. CASE Adds(L, f) \/ Presents(f)
  <2>1. n + 1 \in Telling(M)
    BY <1>2, <1>3, <1>7, <1>8, <1>a
  <2>2. Telling(M) \subseteq Nat /\ \A y \in Telling(M) : y <= n + 1
    BY <1>1, <1>2, <1>3
  <2>3. Max(Telling(M)) = n + 1
    BY <2>1, <2>2, MaxIs
  <2>4. LatestID(M) = IF Adds(L, f) THEN AimOf(M) ELSE ShownID(f)
    BY <1>1, <1>5, <1>6, <1>l, <2>1, <2>3
  <2>5. QED
    BY <1>8, <2>4 DEF M
<1>9. CASE ~(Adds(L, f) \/ Presents(f))
  <2>1. Telling(M) = Telling(L)
    <3>1. \A i \in Updates(M) : u(i) => i \in Updates(L)
      BY <1>2, <1>7, <1>9
    <3>2. \A i \in Updates(L) : i \in Updates(M) /\ (u(i) <=> t(i))
      BY <1>2, <1>4
    <3>3. QED
      BY <1>3, <3>1, <3>2
  <2>2. CASE Telling(L) = {}
    BY <1>9, <1>l, <2>1, <2>2 DEF M
  <2>3. CASE Telling(L) # {}
    <3>1. Telling(L) \subseteq 0..n /\ Telling(L) \subseteq 1..n
      BY <1>1, <1>2, <1>3
    <3>2. Max(Telling(L)) \in 1..n
      BY <1>1, <2>3, <3>1, MaxIsGreatest
    <3>3. /\ M[Max(Telling(L))] = L[Max(Telling(L))]
          /\ x(Max(Telling(L))) <=> w(Max(Telling(L)))
          /\ Aim(M, Max(Telling(L))) = Aim(L, Max(Telling(L)))
      BY <1>1, <1>4, <3>2
    <3>4. QED
      BY <1>9, <1>l, <2>1, <2>3, <3>3 DEF M
  <2>4. QED
    BY <2>2, <2>3
<1>10. QED
  BY <1>8, <1>9

-----------------------------------------------------------------------------
(* Prefixes.                                                                 *)

LEMMA EmptyIsPrefix == ASSUME NEW t \in Text PROVE IsPrefix(<<>>, t)
<1>1. Len(t) \in Nat /\ Len(<<>>) = 0
  BY LenProperties, EmptySeq DEF Text
<1>2. SubSeq(<<>>, 1, 0) = <<>> /\ SubSeq(t, 1, 0) = <<>>
  BY SubSeqEmpty
<1>3. QED
  BY <1>1, <1>2 DEF IsPrefix

LEMMA PrefixOfConcat == ASSUME NEW s \in Text, NEW t \in Text PROVE IsPrefix(s, s \o t)
<1>1. /\ Len(s) \in Nat /\ Len(t) \in Nat /\ s \o t \in Seq(Chars)
      /\ Len(s \o t) = Len(s) + Len(t)
  BY LenProperties, ConcatProperties DEF Text
<1>2. SubSeq(s \o t, 1, Len(s)) = SubSeq(s, 1, Len(s))
  <2>1. CASE Len(s) = 0
    BY <2>1, SubSeqEmpty
  <2>2. CASE Len(s) # 0
    <3>1. 1 \in 1..Len(s) /\ Len(s) \in 1..Len(s)
      BY <1>1, <2>2, SMTT(30)
    <3>2. QED
      BY <3>1, SubSeqOfConcat1 DEF Text
  <2>3. QED
    BY <2>1, <2>2
<1>3. QED
  BY <1>1, <1>2 DEF IsPrefix

LEMMA PrefixAndTail ==
    ASSUME NEW s \in Text, NEW t \in Text, IsPrefix(s, t)
    PROVE  /\ SubSeq(t, Len(s) + 1, Len(t)) \in Text
           /\ s \o SubSeq(t, Len(s) + 1, Len(t)) = t
<1>1. Len(s) \in Nat /\ Len(t) \in Nat /\ Len(s) <= Len(t) /\ DOMAIN t = 1..Len(t)
  BY LenProperties DEF Text, IsPrefix
<1>2. \A i \in Len(s) + 1..Len(t) : t[i] \in Chars
  BY <1>1, ElementOfSeq DEF Text
<1>3. SubSeq(t, Len(s) + 1, Len(t)) \in Text
  BY <1>1, <1>2, SubSeqProperties DEF Text
<1>4. SubSeq(t, 1, Len(s)) = s
  BY SubSeqFull DEF IsPrefix, Text
<1>5. 1 \in 1..Len(t) + 1 /\ Len(s) \in 1 - 1..Len(t) /\ Len(t) \in Len(s)..Len(t)
  BY <1>1
<1>6. SubSeq(t, 1, Len(s)) \o SubSeq(t, Len(s) + 1, Len(t)) = SubSeq(t, 1, Len(t))
  BY <1>5, ConcatAdjacentSubSeq DEF Text
<1>7. SubSeq(t, 1, Len(t)) = t
  BY SubSeqFull DEF Text
<1>8. QED
  BY <1>3, <1>4, <1>6, <1>7

LEMMA NoTextIsText == <<>> \in Text /\ \A t \in Text : t \o <<>> = t
BY EmptySeq, ConcatEmptySeq DEF Text

LEMMA Joining ==
    ASSUME NEW s \in Text, NEW t \in Text
    PROVE  s \o t \in Text /\ (t # <<>> => s \o t # <<>>)
BY ConcatProperties, ConcatEqualIffEmpty DEF Text

-----------------------------------------------------------------------------
(* The answer stream mirrors the summary of the log.                         *)

Tracks == [authoritative : Text, delivered : Text]

AnswerStreams(T) ==
    [tracks : [T -> Tracks], currentID : Streams \cup {NoId}, lastVisibleID : Streams \cup {NoId},
     finalID : Streams \cup {NoId}, blockedCursor : BOOLEAN]

\* T: what was told; aim: where the cursor is; text, R, W: the text of each answer, whether it was
\* rewritten and written; the answers declared complete and told last.
Heads(a, T, aim, complete, latest) ==
    /\ IF a.blockedCursor THEN a.currentID = NoId /\ aim \notin T \cup {Implicit}
       ELSE TrackID(a.currentID) = aim /\ aim \in T \cup {Implicit}
    /\ a.finalID = complete /\ complete \in T \cup {NoId}
    /\ a.lastVisibleID = latest /\ latest \in T \cup {NoId} /\ (T # {} => latest \in T)

Texts(a, T, text, R, W) ==
    /\ \A id \in Streams \ T : text[id] = <<>>
    /\ \A id \in T :
          /\ a.tracks[id].authoritative # <<>>
          /\ id \notin R => a.tracks[id].authoritative = text[id] /\ a.tracks[id].delivered = text[id]
          /\ id \notin W => a.tracks[id].authoritative = text[id]

Mirrors(a, T, aim, text, R, W, complete, latest) ==
    /\ T \subseteq Streams /\ a \in AnswerStreams(T) /\ text \in [Streams -> Text]
    /\ aim \in Streams
    /\ Heads(a, T, aim, complete, latest)
    /\ Texts(a, T, text, R, W)

LEMMA AdvanceIs ==
    ASSUME NEW T, T \subseteq Streams, NEW a \in AnswerStreams(T), NEW id \in Streams,
           NEW t \in Tracks, NEW b, b = Advance(a, id, t)
    PROVE  /\ b \in AnswerStreams(T \cup {id})
           /\ b.tracks[id] = t
           /\ \A x \in T : x # id => b.tracks[x] = a.tracks[x]
           /\ b.currentID = id /\ b.lastVisibleID = id
           /\ b.finalID = a.finalID /\ b.blockedCursor = a.blockedCursor
<1> DEFINE tr == [x \in DOMAIN a.tracks \cup {id} |-> IF x = id THEN t ELSE a.tracks[x]]
<1>1. a.tracks \in [T -> Tracks] /\ DOMAIN a.tracks = T
  BY DEF AnswerStreams
<1>2. tr = [x \in T \cup {id} |-> IF x = id THEN t ELSE a.tracks[x]]
  BY <1>1
<1>3. tr \in [T \cup {id} -> Tracks] /\ tr[id] = t /\ \A x \in T : x # id => tr[x] = a.tracks[x]
  BY <1>1, <1>2
<1> HIDE DEF tr
<1>4. b = [a EXCEPT !.tracks = tr, !.currentID = id, !.lastVisibleID = id]
  BY DEF Advance, tr
<1>5. QED
  BY <1>3, <1>4 DEF AnswerStreams

LEMMA TrackIs ==
    ASSUME NEW T, T \subseteq Streams, NEW a \in AnswerStreams(T), NEW id
    PROVE  /\ Track(a, id) \in Tracks
           /\ id \in T => Track(a, id) = a.tracks[id]
           /\ id \notin T => Track(a, id).authoritative = <<>> /\ Track(a, id).delivered = <<>>
BY NoTextIsText DEF Track, AnswerStreams, EmptyTrack, Tracks

LEMMA SnapshotIsMirrored ==
    ASSUME NEW a, NEW T, NEW aim, NEW text, NEW R, NEW W, NEW c, NEW l,
           Mirrors(a, T, aim, text, R, W, c, l),
           NEW id \in Streams, NEW t \in Text, t # <<>>, NEW final \in BOOLEAN
    PROVE  Mirrors(ObserveSnapshot(a, id, t, final), T \cup {id}, id, [text EXCEPT ![id] = t],
                   IF IsPrefix(text[id], t) THEN R ELSE R \cup {id}, W,
                   IF final THEN id ELSE c, id)
<1> DEFINE old == Track(a, id).delivered
           tk == [authoritative |-> t, delivered |-> IF IsPrefix(old, t) THEN t ELSE old]
           b == Advance(a, id, tk)
           e == ObserveSnapshot(a, id, t, final)
           text2 == [text EXCEPT ![id] = t]
           R2 == IF IsPrefix(text[id], t) THEN R ELSE R \cup {id}
<1>1. /\ T \subseteq Streams /\ a \in AnswerStreams(T) /\ text \in [Streams -> Text]
      /\ Heads(a, T, aim, c, l) /\ Texts(a, T, text, R, W)
  BY DEF Mirrors
<1>2. old \in Text /\ (id \in T => old = a.tracks[id].delivered) /\ (id \notin T => old = <<>>)
  BY <1>1, TrackIs DEF Tracks
<1>3. tk \in Tracks
  BY <1>2 DEF Tracks
<1> HIDE DEF old
<1>a. T \subseteq Streams /\ a \in AnswerStreams(T)
  BY <1>1
<1>4. /\ b \in AnswerStreams(T \cup {id})
      /\ b.tracks[id] = tk
      /\ \A x \in T : x # id => b.tracks[x] = a.tracks[x]
      /\ b.currentID = id /\ b.lastVisibleID = id
      /\ b.finalID = a.finalID
  <2>1. b = Advance(a, id, tk)
    OBVIOUS
  <2> HIDE DEF tk, b
  <2>2. QED
    BY <1>a, <1>3, <2>1, AdvanceIs
<1>5. e = [b EXCEPT !.finalID = IF final THEN id ELSE b.finalID, !.blockedCursor = FALSE]
  BY DEF ObserveSnapshot, old
<1> HIDE DEF b, e
<1>6. /\ e \in AnswerStreams(T \cup {id}) /\ e.tracks = b.tracks /\ e.currentID = id
      /\ e.lastVisibleID = id /\ e.finalID = (IF final THEN id ELSE a.finalID)
      /\ e.blockedCursor = FALSE
  BY <1>4, <1>5 DEF AnswerStreams
<1>7. Heads(e, T \cup {id}, id, IF final THEN id ELSE c, id)
  BY <1>1, <1>6, Identities DEF Heads
<1>8. text2 \in [Streams -> Text] /\ text2[id] = t /\ \A x \in Streams : x # id => text2[x] = text[x]
  BY <1>1
<1>9. id \notin R2 => old = text[id] /\ IsPrefix(old, t)
  <2>1. id \notin R2 => IsPrefix(text[id], t) /\ id \notin R
    OBVIOUS
  <2>2. id \notin R => old = text[id]
    BY <1>1, <1>2 DEF Texts
  <2>3. QED
    BY <2>1, <2>2
<1>10. Texts(e, T \cup {id}, text2, R2, W)
  <2>1. \A x \in Streams \ (T \cup {id}) : text2[x] = <<>>
    BY <1>1, <1>8 DEF Texts
  <2>2. e.tracks[id].authoritative = t /\ e.tracks[id].delivered = (IF IsPrefix(old, t) THEN t ELSE old)
    BY <1>4, <1>6
  <2>3. \A x \in T : x # id => e.tracks[x] = a.tracks[x] /\ (x \notin R2 => x \notin R) /\ text2[x] = text[x]
    BY <1>1, <1>4, <1>6, <1>8
  <2> HIDE DEF text2, R2
  <2>4. ASSUME NEW x \in T \cup {id}
        PROVE  /\ e.tracks[x].authoritative # <<>>
               /\ x \notin R2 => e.tracks[x].authoritative = text2[x] /\ e.tracks[x].delivered = text2[x]
               /\ x \notin W => e.tracks[x].authoritative = text2[x]
    <3>1. CASE x = id
      BY <1>8, <1>9, <2>2, <3>1
    <3>2. CASE x # id
      BY <1>1, <2>3, <2>4, <3>2 DEF Texts
    <3>3. QED
      BY <3>1, <3>2
  <2>5. QED
    BY <2>1, <2>4 DEF Texts
<1>11. QED
  <2>1. T \cup {id} \subseteq Streams
    BY <1>1
  <2> HIDE DEF text2, R2
  <2>2. Mirrors(e, T \cup {id}, id, text2, R2, W, IF final THEN id ELSE c, id)
    BY <1>6, <1>7, <1>8, <1>10, <2>1 DEF Mirrors
  <2>3. QED
    BY <2>2 DEF e, text2, R2

LEMMA CursorIsMirrored ==
    ASSUME NEW a, NEW T, NEW aim, NEW text, NEW R, NEW W, NEW c, NEW l,
           Mirrors(a, T, aim, text, R, W, c, l), NEW id \in Ids
    PROVE  Mirrors(SelectCursor(a, id), T, id, text, R, W, c, l)
<1> DEFINE e == SelectCursor(a, id)
<1>1. /\ T \subseteq Streams /\ a \in AnswerStreams(T) /\ text \in [Streams -> Text]
      /\ Heads(a, T, aim, c, l) /\ Texts(a, T, text, R, W)
  BY DEF Mirrors
<1>2. DOMAIN a.tracks = T /\ id # NoId /\ id # Implicit /\ id \in Streams /\ TrackID(id) = id
  BY <1>1, FrameAssumption, Identities DEF AnswerStreams
<1>3. e = IF id \in T THEN [a EXCEPT !.currentID = id, !.blockedCursor = FALSE]
          ELSE [a EXCEPT !.currentID = NoId, !.blockedCursor = TRUE]
  BY <1>2 DEF SelectCursor
<1> HIDE DEF e
<1>4. /\ e \in AnswerStreams(T) /\ e.tracks = a.tracks
      /\ e.lastVisibleID = a.lastVisibleID /\ e.finalID = a.finalID
      /\ e.blockedCursor = (id \notin T)
      /\ e.currentID = (IF id \in T THEN id ELSE NoId)
  <2>1. CASE id \in T
    BY <1>1, <1>2, <1>3, <2>1 DEF AnswerStreams
  <2>2. CASE id \notin T
    BY <1>1, <1>2, <1>3, <2>2 DEF AnswerStreams
  <2>3. QED
    BY <2>1, <2>2
<1>5. Heads(e, T, id, c, l)
  BY <1>1, <1>2, <1>4 DEF Heads
<1>6. Texts(e, T, text, R, W)
  BY <1>1, <1>4 DEF Texts
<1>7. QED
  BY <1>1, <1>2, <1>4, <1>5, <1>6 DEF Mirrors, e

LEMMA AppendsIs ==
    ASSUME NEW a, NEW T, NEW aim, NEW text, NEW R, NEW W, NEW c, NEW l,
           Mirrors(a, T, aim, text, R, W, c, l), NEW delta
    PROVE  /\ Appends(a, delta) <=> delta # <<>> /\ aim \in T \cup {Implicit}
           /\ Appends(a, delta) => TrackID(a.currentID) = aim
BY DEF Mirrors, Heads, Appends, AnswerStreams

LEMMA WriteIsMirrored ==
    ASSUME NEW a, NEW T, NEW aim, NEW text, NEW R, NEW W, NEW c, NEW l,
           Mirrors(a, T, aim, text, R, W, c, l), NEW delta \in Text, Appends(a, delta)
    PROVE  Mirrors(AppendAtCursor(a, delta), T \cup {aim}, aim,
                   [text EXCEPT ![aim] = text[aim] \o delta], R, W \cup {aim}, c, aim)
<1> DEFINE old == Track(a, aim)
           deliv == old.delivered \o delta
           auth == IF IsPrefix(old.authoritative, deliv) THEN deliv ELSE old.authoritative
           tk == [delivered |-> deliv, authoritative |-> auth]
           e == AppendAtCursor(a, delta)
           text2 == [text EXCEPT ![aim] = text[aim] \o delta]
<1>1. /\ T \subseteq Streams /\ a \in AnswerStreams(T) /\ text \in [Streams -> Text]
      /\ aim \in Streams
      /\ Heads(a, T, aim, c, l) /\ Texts(a, T, text, R, W)
  BY DEF Mirrors
<1>a. T \subseteq Streams /\ a \in AnswerStreams(T) /\ aim \in Streams
  BY <1>1
<1>2. TrackID(a.currentID) = aim /\ delta # <<>> /\ ~a.blockedCursor
  BY AppendsIs DEF Appends
<1>3. /\ old \in Tracks /\ (aim \in T => old = a.tracks[aim])
      /\ (aim \notin T => old.authoritative = <<>> /\ old.delivered = <<>>)
  BY <1>a, TrackIs
<1>4. deliv \in Text /\ deliv # <<>>
  BY <1>2, <1>3, Joining DEF Tracks
<1> HIDE DEF old
<1>5. auth \in Text /\ auth # <<>>
  <2>1. old.authoritative = <<>> => IsPrefix(old.authoritative, deliv)
    BY <1>4, EmptyIsPrefix
  <2>2. QED
    BY <1>3, <1>4, <2>1 DEF Tracks
<1>6. tk \in Tracks
  BY <1>4, <1>5 DEF Tracks
<1>7. e = Advance(a, aim, tk)
  BY <1>2 DEF AppendAtCursor, old
<1>8. tk.delivered = deliv /\ tk.authoritative = auth
  OBVIOUS
<1> HIDE DEF tk, e, deliv, auth
<1>9. /\ e \in AnswerStreams(T \cup {aim})
      /\ e.tracks[aim] = tk
      /\ \A x \in T : x # aim => e.tracks[x] = a.tracks[x]
      /\ e.currentID = aim /\ e.lastVisibleID = aim
      /\ e.finalID = a.finalID /\ e.blockedCursor = a.blockedCursor
  BY <1>a, <1>6, <1>7, AdvanceIs
<1>10. Heads(e, T \cup {aim}, aim, c, aim)
  BY <1>1, <1>2, <1>9, Identities DEF Heads
<1>11. /\ text[aim] \in Text /\ text[aim] \o delta \in Text
       /\ text2 \in [Streams -> Text] /\ text2[aim] = text[aim] \o delta
       /\ \A x \in Streams : x # aim => text2[x] = text[x]
  <2>1. text[aim] \in Text /\ text[aim] \o delta \in Text
    BY <1>1, Joining
  <2>2. QED
    BY <1>1, <2>1
<1>12. aim \notin R => deliv = text[aim] \o delta /\ auth = deliv
  <2>1. aim \notin R => old.delivered = text[aim] /\ old.authoritative = text[aim]
    BY <1>1, <1>3 DEF Texts
  <2>2. IsPrefix(text[aim], text[aim] \o delta)
    BY <1>11, PrefixOfConcat
  <2>3. QED
    BY <2>1, <2>2 DEF deliv, auth
<1>13. Texts(e, T \cup {aim}, text2, R, W \cup {aim})
  <2>1. \A x \in Streams \ (T \cup {aim}) : text2[x] = <<>>
    BY <1>1, <1>11 DEF Texts
  <2> HIDE DEF text2
  <2>2. ASSUME NEW x \in T \cup {aim}
        PROVE  /\ e.tracks[x].authoritative # <<>>
               /\ x \notin R => e.tracks[x].authoritative = text2[x] /\ e.tracks[x].delivered = text2[x]
               /\ x \notin W \cup {aim} => e.tracks[x].authoritative = text2[x]
    <3>1. CASE x = aim
      BY <1>5, <1>8, <1>9, <1>11, <1>12, <3>1
    <3>2. CASE x # aim
      BY <1>1, <1>9, <1>11, <2>2, <3>2 DEF Texts
    <3>3. QED
      BY <3>1, <3>2
  <2>3. QED
    BY <2>1, <2>2 DEF Texts
<1>14. QED
  <2>1. T \cup {aim} \subseteq Streams
    BY <1>1
  <2> HIDE DEF text2
  <2>2. Mirrors(e, T \cup {aim}, aim, text2, R, W \cup {aim}, c, aim)
    BY <1>1, <1>9, <1>10, <1>11, <1>13, <2>1 DEF Mirrors
  <2>3. QED
    BY <2>2 DEF e, text2

LEMMA NothingIsMirrored ==
    ASSUME NEW text, text = [id \in Streams |-> <<>>], NEW R, NEW W
    PROVE  Mirrors(NewAnswerStream, {}, Implicit, text, R, W, NoId, NoId)
<1>1. text \in [Streams -> Text] /\ \A id \in Streams : text[id] = <<>>
  BY NoTextIsText
<1>2. NewAnswerStream \in AnswerStreams({})
  <2>1. <<>> \in [{} -> Tracks]
    <3>1. DOMAIN <<>> = {}
      OBVIOUS
    <3>2. <<>> = [x \in {} |-> NoId]
      OBVIOUS
    <3>3. QED
      BY <3>2
  <2>2. QED
    BY <2>1 DEF NewAnswerStream, AnswerStreams
<1>3. Heads(NewAnswerStream, {}, Implicit, NoId, NoId)
  BY Identities DEF Heads, NewAnswerStream
<1>4. QED
  BY <1>1, <1>2, <1>3, Identities DEF Mirrors, Texts

-----------------------------------------------------------------------------
(* What the caller was given.                                                *)

Pieces == [id : Streams, text : Text]

\* The pieces of one answer, the others blank.
PiecesOf(s, id) == [i \in DOMAIN s |-> IF s[i].id = id THEN s[i].text ELSE <<>>]

LEMMA PiecesAppend ==
    ASSUME NEW s \in Seq(Pieces), NEW e \in Pieces, NEW id
    PROVE  /\ PiecesOf(s, id) \in Seq(Text)
           /\ PiecesOf(Append(s, e), id) =
                 Append(PiecesOf(s, id), IF e.id = id THEN e.text ELSE <<>>)
<1> DEFINE p == PiecesOf(s, id)
           t == IF e.id = id THEN e.text ELSE <<>>
           r == Append(s, e)
           q == PiecesOf(r, id)
           g(x) == IF x.id = id THEN x.text ELSE <<>>
<1>1. \A x \in Pieces : g(x) \in Text
  BY NoTextIsText DEF Pieces
<1>2. /\ Len(s) \in Nat /\ DOMAIN s = 1..Len(s) /\ r \in Seq(Pieces) /\ Len(r) = Len(s) + 1
      /\ DOMAIN r = 1..Len(s) + 1 /\ \A i \in 1..Len(s) : r[i] = s[i] /\ s[i] \in Pieces
      /\ r[Len(s) + 1] = e
  <2>1. r \in Seq(Pieces) /\ Len(r) = Len(s) + 1
    BY AppendProperties
  <2>2. QED
    BY <2>1, AppendProperties, LenProperties, ElementOfSeq
<1>3. p = [i \in 1..Len(s) |-> g(s[i])] /\ q = [i \in 1..Len(s) + 1 |-> g(r[i])] /\ t = g(e)
  BY <1>2 DEF PiecesOf
<1> HIDE DEF g, p, q, t, r
<1>4. p \in Seq(Text) /\ Len(p) = Len(s) /\ \A i \in 1..Len(s) : p[i] = g(s[i])
  <2>1. p \in [1..Len(s) -> Text]
    BY <1>1, <1>2, <1>3
  <2>2. p \in Seq(Text)
    BY <1>2, <2>1, SeqDef
  <2>3. Len(p) = Len(s)
    BY <1>2, <2>1, <2>2, LenProperties
  <2>4. QED
    BY <1>3, <2>2, <2>3
<1>5. q \in Seq(Text) /\ Len(q) = Len(s) + 1 /\ \A i \in 1..Len(s) + 1 : q[i] = g(r[i])
  <2>1. \A i \in 1..Len(s) + 1 : r[i] \in Pieces
    BY <1>2, ElementOfSeq
  <2>2. q \in [1..Len(s) + 1 -> Text]
    BY <1>1, <1>3, <2>1
  <2>3. q \in Seq(Text)
    BY <1>2, <2>2, SeqDef
  <2>4. Len(q) = Len(s) + 1
    <3>1. DOMAIN q = 1..Len(s) + 1 /\ DOMAIN q = 1..Len(q) /\ Len(q) \in Nat
      BY <2>2, <2>3, LenProperties
    <3>2. QED
      BY <1>2, <3>1
  <2>5. QED
    BY <1>3, <2>3, <2>4
<1>6. /\ Append(p, t) \in Seq(Text) /\ Len(Append(p, t)) = Len(s) + 1
      /\ \A i \in 1..Len(s) : Append(p, t)[i] = p[i]
      /\ Append(p, t)[Len(s) + 1] = t
  <2>1. t \in Text
    BY <1>1, <1>3
  <2>2. QED
    BY <1>4, <2>1, AppendProperties
<1>7. \A i \in 1..Len(s) + 1 : q[i] = Append(p, t)[i]
  <2>1. \A i \in 1..Len(s) + 1 : i \in 1..Len(s) \/ i = Len(s) + 1
    BY <1>2
  <2>2. q[Len(s) + 1] = t
    <3>1. Len(s) + 1 \in 1..Len(s) + 1
      BY <1>2
    <3>2. QED
      BY <1>2, <1>3, <1>5, <3>1
  <2>3. \A i \in 1..Len(s) : q[i] = p[i]
    BY <1>2, <1>4, <1>5
  <2>4. QED
    BY <1>6, <2>1, <2>2, <2>3
<1>8. q = Append(p, t)
  BY <1>5, <1>6, <1>7, SeqEqual
<1>9. QED
  BY <1>4, <1>8 DEF p, q, r, t

LEMMA GivenAppend ==
    ASSUME NEW s \in Seq(Pieces), NEW e \in Pieces, NEW id, Given(s, id) \in Text
    PROVE  Given(Append(s, e), id) = IF e.id = id THEN Given(s, id) \o e.text ELSE Given(s, id)
<1> DEFINE t == IF e.id = id THEN e.text ELSE <<>>
<1>1. t \in Text
  BY NoTextIsText DEF Pieces
<1>2. \A x : Given(x, id) = FlattenSeq(PiecesOf(x, id))
  BY DEF Given, PiecesOf
<1>3. /\ PiecesOf(s, id) \in Seq(Text)
      /\ PiecesOf(Append(s, e), id) = Append(PiecesOf(s, id), t)
  BY PiecesAppend
<1> HIDE DEF t
<1>4. FlattenSeq(Append(PiecesOf(s, id), t)) = FlattenSeq(PiecesOf(s, id)) \o t
  BY <1>1, <1>2, <1>3, FlattenAppend DEF Text
<1>5. Given(Append(s, e), id) = Given(s, id) \o t
  BY <1>2, <1>3, <1>4
<1>6. QED
  BY <1>5, NoTextIsText DEF t

LEMMA NothingGiven == ASSUME NEW id PROVE Given(<<>>, id) = <<>>
<1> DEFINE p == [i \in DOMAIN <<>> |-> IF <<>>[i].id = id THEN <<>>[i].text ELSE <<>>]
<1>1. p = <<>>
  OBVIOUS
<1>2. QED
  BY <1>1, FlattenNothing DEF Given

\* What was given of each answer is what the stream says was delivered of it.
Gives(s, a) ==
    /\ s \in Seq(Pieces)
    /\ \A id \in Streams : Given(s, id) \in Text /\ Given(s, id) = Track(a, id).delivered
    /\ s # <<>> => DOMAIN a.tracks # {}

LEMMA SnapshotIsGiven ==
    ASSUME NEW T, T \subseteq Streams, NEW a \in AnswerStreams(T), NEW s, Gives(s, a),
           NEW id \in Streams, NEW t \in Text, NEW final,
           NEW e, e = ObserveSnapshot(a, id, t, final), NEW u, u = UnseenTail(a, id, t)
    PROVE  /\ u \in Text /\ e \in AnswerStreams(T \cup {id})
           /\ Gives(IF u = <<>> THEN s ELSE Append(s, [id |-> id, text |-> u]), e)
<1> DEFINE old == Track(a, id).delivered
           deliv == IF IsPrefix(old, t) THEN t ELSE old
           tk == [authoritative |-> t, delivered |-> deliv]
           b == Advance(a, id, tk)
           r == IF u = <<>> THEN s ELSE Append(s, [id |-> id, text |-> u])
<1>1. old \in Text
  BY TrackIs DEF Tracks
<1>2. tk \in Tracks /\ deliv \in Text /\ tk.delivered = deliv
  BY <1>1 DEF Tracks
<1>3. u \in Text /\ old \o u = deliv
  <2>1. CASE IsPrefix(old, t)
    <3>1. u = SubSeq(t, Len(old) + 1, Len(t))
      BY <2>1 DEF UnseenTail
    <3>2. QED
      BY <1>1, <2>1, <3>1, PrefixAndTail, ZenonT(60)
  <2>2. CASE ~IsPrefix(old, t)
    <3>1. u = <<>>
      BY <2>2 DEF UnseenTail
    <3>2. QED
      BY <1>1, <2>2, <3>1, NoTextIsText
  <2>3. QED
    BY <2>1, <2>2
<1>4. /\ b \in AnswerStreams(T \cup {id}) /\ b.tracks[id] = tk
      /\ \A x \in T : x # id => b.tracks[x] = a.tracks[x]
  <2>1. b = Advance(a, id, tk)
    OBVIOUS
  <2> HIDE DEF tk, b
  <2>2. QED
    BY <1>2, <2>1, AdvanceIs, SMTT(30)
<1>5. e.tracks = b.tracks /\ e \in AnswerStreams(T \cup {id})
  <2>1. e = [b EXCEPT !.finalID = IF final THEN id ELSE b.finalID, !.blockedCursor = FALSE]
    BY DEF ObserveSnapshot
  <2> HIDE DEF b
  <2>2. QED
    BY <1>4, <2>1 DEF AnswerStreams
<1> HIDE DEF b, tk, deliv, r
<1>6. DOMAIN e.tracks = T \cup {id} /\ DOMAIN a.tracks = T
  BY <1>4, <1>5 DEF AnswerStreams
<1>7. Track(e, id).delivered = deliv
  BY <1>2, <1>4, <1>5, <1>6 DEF Track
<1>8. ASSUME NEW x \in Streams, x # id
      PROVE  Track(e, x).delivered = Track(a, x).delivered
  BY <1>4, <1>5, <1>6, <1>8 DEF Track
<1>9. r \in Seq(Pieces) /\ \A x \in Streams : Given(r, x) = IF x = id THEN Given(s, x) \o u ELSE Given(s, x)
  <2>1. s \in Seq(Pieces) /\ \A x \in Streams : Given(s, x) \in Text
    BY DEF Gives
  <2>2. CASE u = <<>>
    BY <2>1, <2>2, NoTextIsText DEF r
  <2>3. CASE u # <<>>
    <3> DEFINE p == [id |-> id, text |-> u]
    <3>1. p \in Pieces /\ p.id = id /\ p.text = u
      BY <1>3 DEF Pieces
    <3>2. r = Append(s, p)
      BY <2>3 DEF r
    <3> HIDE DEF p
    <3>3. r \in Seq(Pieces)
      BY <2>1, <3>1, <3>2, AppendProperties
    <3>4. ASSUME NEW x \in Streams
          PROVE  Given(r, x) = IF x = id THEN Given(s, x) \o u ELSE Given(s, x)
      BY <2>1, <3>1, <3>2, GivenAppend
    <3>5. QED
      BY <3>3, <3>4
  <2>4. QED
    BY <2>2, <2>3
<1>10. ASSUME NEW x \in Streams
       PROVE  Given(r, x) \in Text /\ Given(r, x) = Track(e, x).delivered
  <2>1. Given(s, x) \in Text /\ Given(s, x) = Track(a, x).delivered
    BY DEF Gives
  <2>2. CASE x = id
    BY <1>2, <1>3, <1>7, <1>9, <2>1, <2>2
  <2>3. CASE x # id
    BY <1>8, <1>9, <2>1, <2>3
  <2>4. QED
    BY <2>2, <2>3
<1>11. Gives(r, e)
  BY <1>6, <1>9, <1>10 DEF Gives
<1>12. QED
  BY <1>3, <1>5, <1>11 DEF r

LEMMA CursorIsGiven ==
    ASSUME NEW T, T \subseteq Streams, NEW a \in AnswerStreams(T), NEW s, Gives(s, a),
           NEW id \in Ids \cup {NoId}
    PROVE  SelectCursor(a, id) \in AnswerStreams(T) /\ Gives(s, SelectCursor(a, id))
<1> DEFINE e == SelectCursor(a, id)
<1>1. e = a \/ e = [a EXCEPT !.currentID = id, !.blockedCursor = FALSE]
            \/ e = [a EXCEPT !.currentID = NoId, !.blockedCursor = TRUE]
  BY DEF SelectCursor
<1> HIDE DEF e
<1>2. e.tracks = a.tracks /\ e \in AnswerStreams(T)
  BY <1>1, Identities, ZenonT(60) DEF AnswerStreams
<1>3. \A x : Track(e, x) = Track(a, x)
  BY <1>2 DEF Track
<1>4. QED
  BY <1>2, <1>3 DEF Gives, e

LEMMA AdvanceIsGiven ==
    ASSUME NEW T, T \subseteq Streams, NEW a \in AnswerStreams(T), NEW s, Gives(s, a),
           NEW id \in Streams, NEW t \in Text,
           NEW tk \in Tracks, NEW e, e = Advance(a, id, tk)
    PROVE  tk.delivered = Track(a, id).delivered \o t
               => Gives(Append(s, [id |-> id, text |-> t]), e)
<1> DEFINE p == [id |-> id, text |-> t]
           r == Append(s, p)
<1>5. /\ e \in AnswerStreams(T \cup {id}) /\ e.tracks[id] = tk
      /\ \A x \in T : x # id => e.tracks[x] = a.tracks[x]
  BY AdvanceIs
<1>a. HAVE tk.delivered = Track(a, id).delivered \o t
<1>6. DOMAIN e.tracks = T \cup {id} /\ DOMAIN a.tracks = T
  BY <1>5 DEF AnswerStreams
<1>7. Track(e, id).delivered = Track(a, id).delivered \o t
  BY <1>5, <1>6, <1>a DEF Track
<1>8. ASSUME NEW x \in Streams, x # id
      PROVE  Track(e, x).delivered = Track(a, x).delivered
  BY <1>5, <1>6, <1>8 DEF Track
<1>9. p \in Pieces /\ p.id = id /\ p.text = t
  BY DEF Pieces
<1>10. s \in Seq(Pieces) /\ \A x \in Streams : Given(s, x) \in Text /\ Given(s, x) = Track(a, x).delivered
  BY DEF Gives
<1> HIDE DEF p
<1>11. r \in Seq(Pieces)
  BY <1>9, <1>10, AppendProperties
<1>12. ASSUME NEW x \in Streams
       PROVE  Given(r, x) = IF x = id THEN Given(s, x) \o t ELSE Given(s, x)
  BY <1>9, <1>10, GivenAppend, ZenonT(60)
<1> HIDE DEF r
<1>13. ASSUME NEW x \in Streams
       PROVE  Given(r, x) \in Text /\ Given(r, x) = Track(e, x).delivered
  <2>1. CASE x = id
    <3>1. Given(r, id) = Given(s, id) \o t /\ Given(s, id) \in Text /\ Given(s, id) = Track(a, id).delivered
      BY <1>10, <1>12
    <3>2. QED
      BY <1>7, <2>1, <3>1, Joining
  <2>2. CASE x # id
    BY <1>8, <1>10, <1>12, <2>2
  <2>3. QED
    BY <2>1, <2>2
<1>14. Gives(r, e)
  BY <1>6, <1>11, <1>13 DEF Gives
<1>15. QED
  BY <1>14 DEF r, p

LEMMA WriteIsGiven ==
    ASSUME NEW T, T \subseteq Streams, NEW a \in AnswerStreams(T), NEW s, Gives(s, a),
           NEW id \in Streams, id = TrackID(a.currentID),
           NEW t \in Text, NEW e, e = AppendAtCursor(a, t)
    PROVE  Gives(Append(s, [id |-> id, text |-> t]), e)
<1> DEFINE old == Track(a, id)
           deliv == old.delivered \o t
           auth == IF IsPrefix(old.authoritative, deliv) THEN deliv ELSE old.authoritative
           tk == [delivered |-> deliv, authoritative |-> auth]
<1>1. old.delivered \in Text /\ old.authoritative \in Text
  BY TrackIs DEF Tracks
<1>2. deliv \in Text /\ auth \in Text
  BY <1>1, Joining
<1>3. tk \in Tracks /\ tk.delivered = Track(a, id).delivered \o t
  BY <1>2 DEF Tracks
<1>4. e = Advance(a, id, tk)
  BY DEF AppendAtCursor
<1> HIDE DEF tk, auth, old, deliv
<1>5. QED
  BY <1>3, <1>4, AdvanceIsGiven

-----------------------------------------------------------------------------
(* The stream of a call mirrors its log.                                     *)

TextsOf(L) == [id \in Streams |-> TextOf(L, id)]
RewrittenIn(L) == {id \in Streams : Rewritten(L, id)}

Follows(L, a) ==
    Mirrors(a, Told(L), AimOf(L), TextsOf(L), RewrittenIn(L), Written(L), CompletedID(L), LatestID(L))

\* The three things an update does to the answer stream.
AfterShown(a, f) ==
    IF Shown(f) = 0 THEN a ELSE ObserveSnapshot(a, ShownID(f), SnapshotOf(f), Declares(f))
AfterCursor(a, f) == SelectCursor(AfterShown(a, f), f.cursor)
AfterWrite(a, f) ==
    IF Appends(AfterCursor(a, f), f.write) THEN AppendAtCursor(AfterCursor(a, f), f.write)
    ELSE AfterCursor(a, f)

LEMMA QuietFramesKeepTheMirror ==
    ASSUME NEW L \in Seq(Frames), NEW f \in Frames, ~Answering(f), NEW a, Follows(L, a)
    PROVE  Follows(Append(L, f), a)
<1>1. ~Presents(f) /\ ~Adds(L, f) /\ ~Declares(f) /\ ~Moving(f)
  BY DEF Presents, Adds, Declares, Moving
<1>2. Told(Append(L, f)) = Told(L) /\ Written(Append(L, f)) = Written(L)
  BY <1>1, ToldAppend
<1>3. AimOf(Append(L, f)) = AimOf(L)
  BY <1>1, AimAppend, LogAppend DEF AimOf
<1>4. CompletedID(Append(L, f)) = CompletedID(L) /\ LatestID(Append(L, f)) = LatestID(L)
  BY <1>1, CompletedAppend, LatestAppend
<1>5. RewrittenIn(Append(L, f)) = RewrittenIn(L)
  BY <1>1, RewrittenAppend DEF RewrittenIn
<1>6. TextsOf(Append(L, f)) = TextsOf(L)
  <2>1. ASSUME NEW id \in Streams
        PROVE  TextOf(Append(L, f), id) = TextOf(L, id)
    <3>1. TextOf(L, id) \in Text
      BY DEF Follows, Mirrors, TextsOf
    <3>2. TextOf(Append(L, f), id) = TextOf(L, id) \o <<>>
      BY <1>1, TextAppend
    <3>3. QED
      BY <3>1, <3>2, NoTextIsText
  <2>2. QED
    BY <2>1 DEF TextsOf
<1>7. QED
  BY <1>2, <1>3, <1>4, <1>5, <1>6 DEF Follows

LEMMA UpdatesKeepTheMirror ==
    ASSUME NEW L \in Seq(Frames), NEW f \in Frames, Answering(f), NEW a, Follows(L, a)
    PROVE  Follows(Append(L, f), AfterWrite(a, f))
<1> DEFINE M == Append(L, f)
           T == Told(L)
           s == ShownID(f)
           T1 == T \cup (IF Presents(f) THEN {s} ELSE {})
           aim1 == IF Presents(f) THEN s ELSE AimOf(L)
           text1 == [id \in Streams |-> IF Presents(f) /\ s = id THEN SnapshotOf(f) ELSE TextOf(L, id)]
           l1 == IF Presents(f) THEN s ELSE LatestID(L)
           a1 == AfterShown(a, f)
           a2 == AfterCursor(a, f)
           R1 == RewrittenIn(M)
           c1 == CompletedID(M)
<1>1. f.type = "update" /\ f.cursor \in Ids \cup {NoId} /\ f.write \in Text
  BY UpdateParts DEF Answering
<1>2. Presents(f) <=> Shown(f) # 0
  BY DEF Presents
<1>3. TextsOf(L) \in [Streams -> Text] /\ \A id \in Streams : TextsOf(L)[id] = TextOf(L, id)
  BY DEF Follows, Mirrors, TextsOf
<1>4. Mirrors(a1, T1, aim1, text1, R1, Written(L), c1, l1)
  <2>1. CASE Presents(f)
    <3>1. SnapshotOf(f) \in Text /\ SnapshotOf(f) # <<>> /\ s \in Streams
      BY <2>1, PresentedIs
    <3>2. Declares(f) \in BOOLEAN
      BY DEF Declares
    <3>3. a1 = ObserveSnapshot(a, s, SnapshotOf(f), Declares(f))
      BY <1>2, <2>1 DEF AfterShown
    <3>a. Mirrors(a, T, AimOf(L), TextsOf(L), RewrittenIn(L), Written(L), CompletedID(L), LatestID(L))
      BY DEF Follows
    <3>4. Mirrors(a1, T \cup {s}, s, [TextsOf(L) EXCEPT ![s] = SnapshotOf(f)],
                  IF IsPrefix(TextsOf(L)[s], SnapshotOf(f)) THEN RewrittenIn(L) ELSE RewrittenIn(L) \cup {s},
                  Written(L), IF Declares(f) THEN s ELSE CompletedID(L), s)
      <4> DEFINE d == Declares(f)
      <4>1. d \in BOOLEAN
        BY <3>2
      <4> HIDE DEF a1, T, s, d
      <4>2. Mirrors(ObserveSnapshot(a, s, SnapshotOf(f), d), T \cup {s}, s,
                    [TextsOf(L) EXCEPT ![s] = SnapshotOf(f)],
                    IF IsPrefix(TextsOf(L)[s], SnapshotOf(f)) THEN RewrittenIn(L) ELSE RewrittenIn(L) \cup {s},
                    Written(L), IF d THEN s ELSE CompletedID(L), s)
        BY <3>1, <3>a, <4>1, SnapshotIsMirrored
      <4>3. QED
        BY <3>3, <4>2 DEF d
    <3>5. [TextsOf(L) EXCEPT ![s] = SnapshotOf(f)] = text1
      BY <1>3, <2>1, <3>1
    <3>6. R1 = IF IsPrefix(TextsOf(L)[s], SnapshotOf(f)) THEN RewrittenIn(L) ELSE RewrittenIn(L) \cup {s}
      <4>1. \A id \in Streams : Rewritten(M, id) <=>
               Rewritten(L, id) \/ (s = id /\ ~IsPrefix(TextOf(L, id), SnapshotOf(f)))
        BY <2>1, RewrittenAppend
      <4>2. QED
        BY <1>3, <3>1, <4>1 DEF RewrittenIn
    <3>7. c1 = IF Declares(f) THEN s ELSE CompletedID(L)
      BY CompletedAppend
    <3> HIDE DEF a1, text1, R1, c1, s
    <3>8. QED
      BY <2>1, <3>4, <3>5, <3>6, <3>7
  <2>2. CASE ~Presents(f)
    <3>1. a1 = a
      BY <1>2, <2>2 DEF AfterShown
    <3>2. T1 = T /\ aim1 = AimOf(L) /\ l1 = LatestID(L)
      BY <2>2
    <3>3. text1 = TextsOf(L)
      BY <2>2 DEF TextsOf
    <3>4. R1 = RewrittenIn(L)
      BY <2>2, RewrittenAppend DEF RewrittenIn
    <3>5. c1 = CompletedID(L)
      BY <2>2, CompletedAppend DEF Declares
    <3> HIDE DEF a1, text1, R1, c1, T1, aim1, l1
    <3>6. QED
      BY <3>1, <3>2, <3>3, <3>4, <3>5 DEF Follows
  <2>3. QED
    BY <2>1, <2>2
<1>5. AimOf(M) = IF f.cursor # NoId THEN f.cursor ELSE aim1
  <2>1. AimOf(M) = Aim(M, Len(L) + 1)
    BY LogAppend DEF AimOf
  <2>2. Moving(f) <=> f.cursor # NoId \/ Presents(f)
    BY <1>2 DEF Moving
  <2>3. Aim(M, Len(L) + 1) = IF ~Moving(f) THEN AimOf(L)
                             ELSE IF f.cursor # NoId THEN f.cursor ELSE s
    BY AimAppend DEF AimOf
  <2>4. QED
    BY <2>1, <2>2, <2>3
<1> HIDE DEF a1, R1, c1
<1>6. Mirrors(a2, T1, AimOf(M), text1, R1, Written(L), c1, l1)
  <2> HIDE DEF T1, text1, aim1, l1, M
  <2>0. a2 = SelectCursor(a1, f.cursor)
    BY DEF AfterCursor, a1
  <2> HIDE DEF a2
  <2>1. CASE f.cursor = NoId
    <3>1. a2 = a1
      <4>1. a1 \in AnswerStreams(T1) /\ T1 \subseteq Streams
        BY <1>4 DEF Mirrors
      <4>2. NoId \notin DOMAIN a1.tracks
        BY <4>1, Identities DEF AnswerStreams
      <4>3. QED
        BY <2>0, <2>1, <4>2 DEF SelectCursor
    <3>2. QED
      BY <1>4, <1>5, <2>1, <3>1
  <2>2. CASE f.cursor # NoId
    <3>1. f.cursor \in Ids
      BY <1>1, <2>2
    <3>2. Mirrors(SelectCursor(a1, f.cursor), T1, f.cursor, text1, R1, Written(L), c1, l1)
      BY <1>4, <3>1, CursorIsMirrored
    <3>3. QED
      BY <1>5, <2>0, <2>2, <3>2
  <2>3. QED
    BY <2>1, <2>2
<1> HIDE DEF a2
<1>7. Appends(a2, f.write) <=> Adds(L, f)
  <2>1. Adds(L, f) <=> f.write # <<>> /\ AimOf(M) \in T1 \cup {Implicit}
    BY DEF Adds
  <2>2. QED
    BY <1>6, <2>1, AppendsIs
<1>8. /\ Told(M) = T1 \cup (IF Adds(L, f) THEN {AimOf(M)} ELSE {})
      /\ Written(M) = Written(L) \cup (IF Adds(L, f) THEN {AimOf(M)} ELSE {})
      /\ LatestID(M) = IF Adds(L, f) THEN AimOf(M) ELSE l1
  BY ToldAppend, LatestAppend
<1>9. AimOf(M) \in Streams
  BY LogAppend, AimIsAStream
<1>10. text1 \in [Streams -> Text]
  <2> HIDE DEF text1
  <2>1. QED
    BY <1>6 DEF Mirrors
<1>11. TextsOf(M) = IF Adds(L, f) THEN [text1 EXCEPT ![AimOf(M)] = text1[AimOf(M)] \o f.write] ELSE text1
  <2>1. \A id \in Streams : text1[id] = IF Presents(f) /\ s = id THEN SnapshotOf(f) ELSE TextOf(L, id)
    OBVIOUS
  <2>2. \A id \in Streams : TextOf(M, id) = text1[id] \o (IF Adds(L, f) /\ id = AimOf(M) THEN f.write ELSE <<>>)
    BY <2>1, TextAppend
  <2> HIDE DEF text1
  <2>3. \A id \in Streams : text1[id] \in Text /\ text1[id] \o <<>> = text1[id]
    BY <1>10, NoTextIsText
  <2>4. \A id \in Streams : TextsOf(M)[id] = TextOf(M, id)
    BY DEF TextsOf
  <2>5. TextsOf(M) = [id \in Streams |-> TextOf(M, id)]
    BY DEF TextsOf
  <2> HIDE DEF M
  <2>6. CASE Adds(L, f)
    BY <1>9, <1>10, <2>2, <2>3, <2>5, <2>6
  <2>7. CASE ~Adds(L, f)
    BY <1>10, <2>2, <2>3, <2>5, <2>7
  <2>8. QED
    BY <2>6, <2>7
<1>12. QED
  <2>0. AfterWrite(a, f) = IF Adds(L, f) THEN AppendAtCursor(a2, f.write) ELSE a2
    BY <1>7 DEF AfterWrite, a2
  <2> HIDE DEF text1, T1, l1, M
  <2>1. CASE Adds(L, f)
    <3>1. Mirrors(AppendAtCursor(a2, f.write), T1 \cup {AimOf(M)}, AimOf(M),
                  [text1 EXCEPT ![AimOf(M)] = text1[AimOf(M)] \o f.write], R1,
                  Written(L) \cup {AimOf(M)}, c1, AimOf(M))
      BY <1>1, <1>6, <1>7, <2>1, WriteIsMirrored
    <3>2. Mirrors(AfterWrite(a, f), Told(M), AimOf(M), TextsOf(M), R1, Written(M), c1, LatestID(M))
      BY <1>8, <1>11, <2>0, <2>1, <3>1
    <3>3. QED
      BY <3>2 DEF Follows, R1, c1, M
  <2>2. CASE ~Adds(L, f)
    <3>1. Told(M) = T1 /\ Written(M) = Written(L) /\ LatestID(M) = l1 /\ TextsOf(M) = text1
      BY <1>8, <1>11, <2>2
    <3>2. Mirrors(AfterWrite(a, f), Told(M), AimOf(M), TextsOf(M), R1, Written(M), c1, LatestID(M))
      BY <1>6, <2>0, <2>2, <3>1
    <3>3. QED
      BY <3>2 DEF Follows, R1, c1, M
  <2>3. QED
    BY <2>1, <2>2

-----------------------------------------------------------------------------
(* What a frame leaves of the view, field by field.                          *)

Fields == {"answers", "streamed", "final", "resultError", "throttling", "events", "truncated",
           "reported", "grace"}

LEMMA RetainIs ==
    ASSUME NEW v, Fields \subseteq DOMAIN v, NEW f, NEW w, w = Retain(v, f)
    PROVE  /\ Fields \subseteq DOMAIN w
           /\ w.answers = v.answers /\ w.streamed = v.streamed /\ w.final = v.final
           /\ w.resultError = v.resultError /\ w.reported = v.reported
           /\ w.throttling = v.throttling
<1>1. \E e, b : w = [v EXCEPT !.truncated = b] \/ w = [v EXCEPT !.events = e, !.truncated = b]
  <2>1. CASE f.size > MaxRetainedEventBytes
    BY <2>1 DEF Retain
  <2>2. CASE ~(f.size > MaxRetainedEventBytes)
    <3> DEFINE all == Append(v.events, f)
               drop == Min({n \in 0..Len(all) : Fits(SubSeq(all, n + 1, Len(all)))})
               ev == SubSeq(all, drop + 1, Len(all))
               b == v.truncated \/ drop > 0
    <3>1. w = [v EXCEPT !.events = ev, !.truncated = b]
      BY <2>2 DEF Retain
    <3> HIDE DEF ev, b
    <3>2. QED
      BY <3>1
  <2>3. QED
    BY <2>1, <2>2
<1>2. PICK e, b : w = [v EXCEPT !.truncated = b] \/ w = [v EXCEPT !.events = e, !.truncated = b]
  BY <1>1
<1>3. QED
  BY <1>2 DEF Fields

LEMMA EmitIs ==
    ASSUME NEW v, Fields \subseteq DOMAIN v, NEW id, NEW text, NEW w, w = Emit(v, id, text)
    PROVE  /\ Fields \subseteq DOMAIN w
           /\ w.streamed = IF text = <<>> THEN v.streamed
                           ELSE Append(v.streamed, [id |-> id, text |-> text])
           /\ w.answers = v.answers /\ w.final = v.final /\ w.resultError = v.resultError
           /\ w.reported = v.reported /\ w.throttling = v.throttling
           /\ w.events = v.events /\ w.truncated = v.truncated
BY DEF Emit, Fields

LEMMA AnswersAre ==
    ASSUME NEW v, Fields \subseteq DOMAIN v, NEW a, NEW w, w = [v EXCEPT !.answers = a]
    PROVE  /\ Fields \subseteq DOMAIN w
           /\ w.answers = a /\ w.streamed = v.streamed
           /\ w.final = v.final /\ w.resultError = v.resultError
           /\ w.reported = v.reported /\ w.throttling = v.throttling
           /\ w.events = v.events /\ w.truncated = v.truncated
BY DEF Fields

\* The streamed pieces, after the message an update shows and after what it writes.
GivenShown(s, a, f) ==
    IF Shown(f) = 0 \/ UnseenTail(a, ShownID(f), SnapshotOf(f)) = <<>> THEN s
    ELSE Append(s, [id |-> ShownID(f), text |-> UnseenTail(a, ShownID(f), SnapshotOf(f))])

GivenWritten(s, a, f) ==
    IF Appends(AfterCursor(a, f), f.write)
    THEN Append(GivenShown(s, a, f),
                [id |-> TrackID(AfterCursor(a, f).currentID), text |-> f.write])
    ELSE GivenShown(s, a, f)

LEMMA ObservedIs ==
    ASSUME NEW v, Fields \subseteq DOMAIN v, NEW f, Answering(f), NEW w, w = ObserveAnswer(v, f)
    PROVE  /\ Fields \subseteq DOMAIN w
           /\ w.answers = AfterShown(v.answers, f)
           /\ w.streamed = GivenShown(v.streamed, v.answers, f)
           /\ w.final = v.final /\ w.resultError = v.resultError
           /\ w.reported = v.reported /\ w.throttling = v.throttling
           /\ w.events = v.events /\ w.truncated = v.truncated
<1> DEFINE m == f.messages[Shown(f)]
           id == ShownID(f)
           u == UnseenTail(v.answers, id, SnapshotOf(f))
           e == Emit(v, id, u)
           o == ObserveSnapshot(e.answers, id, SnapshotOf(f), Declares(f))
<1>1. CASE Shown(f) = 0
  <2>1. w = v
    BY <1>1 DEF ObserveAnswer, Shown
  <2>2. QED
    BY <1>1, <2>1 DEF AfterShown, GivenShown
<1>2. CASE Shown(f) # 0
  <2>1. Declares(f) = (f.last \/ m.completed)
    BY <1>2, SMTT(30) DEF Declares, Presents
  <2>2. w = [e EXCEPT !.answers = ObserveSnapshot(e.answers, id, SnapshotOf(f), f.last \/ m.completed)]
    BY <1>2 DEF ObserveAnswer, Shown, ShownID, SnapshotOf
  <2>3. w = [e EXCEPT !.answers = o]
    BY <2>1, <2>2
  <2> HIDE DEF o, e, u, id, m
  <2>4. /\ Fields \subseteq DOMAIN e
        /\ e.streamed = IF u = <<>> THEN v.streamed ELSE Append(v.streamed, [id |-> id, text |-> u])
        /\ e.answers = v.answers /\ e.final = v.final /\ e.resultError = v.resultError
        /\ e.reported = v.reported /\ e.throttling = v.throttling
        /\ e.events = v.events /\ e.truncated = v.truncated
    <3>1. e = Emit(v, id, u)
      BY DEF e
    <3>2. QED
      BY <3>1, EmitIs
  <2>5. /\ Fields \subseteq DOMAIN w
        /\ w.answers = o /\ w.streamed = e.streamed
        /\ w.final = e.final /\ w.resultError = e.resultError
        /\ w.reported = e.reported /\ w.throttling = e.throttling
        /\ w.events = e.events /\ w.truncated = e.truncated
    BY <2>3, <2>4, AnswersAre
  <2>6. o = AfterShown(v.answers, f)
    BY <1>2, <2>4 DEF AfterShown, o, id
  <2>7. e.streamed = GivenShown(v.streamed, v.answers, f)
    BY <1>2, <2>4 DEF GivenShown, u, id
  <2>8. QED
    BY <2>4, <2>5, <2>6, <2>7
<1>3. QED
  BY <1>1, <1>2

LEMMA WrittenIs ==
    ASSUME NEW v, Fields \subseteq DOMAIN v, NEW f, NEW w, w = WriteAtCursor(v, f)
    PROVE  /\ Fields \subseteq DOMAIN w
           /\ w.answers = IF Appends(v.answers, f.write) THEN AppendAtCursor(v.answers, f.write)
                          ELSE v.answers
           /\ w.streamed = IF Appends(v.answers, f.write)
                           THEN Append(v.streamed, [id |-> TrackID(v.answers.currentID), text |-> f.write])
                           ELSE v.streamed
           /\ w.final = v.final /\ w.resultError = v.resultError
           /\ w.reported = v.reported /\ w.throttling = v.throttling
           /\ w.events = v.events /\ w.truncated = v.truncated
<1> DEFINE id == TrackID(v.answers.currentID)
           e == Emit(v, id, f.write)
           o == AppendAtCursor(e.answers, f.write)
<1>1. CASE ~Appends(v.answers, f.write)
  BY <1>1 DEF WriteAtCursor
<1>2. CASE Appends(v.answers, f.write)
  <2>1. w = [e EXCEPT !.answers = o] /\ f.write # <<>>
    BY <1>2 DEF WriteAtCursor, Appends
  <2> HIDE DEF o, e, id
  <2>4. /\ Fields \subseteq DOMAIN e
        /\ e.streamed = IF f.write = <<>> THEN v.streamed
                        ELSE Append(v.streamed, [id |-> id, text |-> f.write])
        /\ e.answers = v.answers /\ e.final = v.final /\ e.resultError = v.resultError
        /\ e.reported = v.reported /\ e.throttling = v.throttling
        /\ e.events = v.events /\ e.truncated = v.truncated
    <3>1. e = Emit(v, id, f.write)
      BY DEF e
    <3>2. QED
      BY <3>1, EmitIs
  <2>5. /\ Fields \subseteq DOMAIN w
        /\ w.answers = o /\ w.streamed = e.streamed
        /\ w.final = e.final /\ w.resultError = e.resultError
        /\ w.reported = e.reported /\ w.throttling = e.throttling
        /\ w.events = e.events /\ w.truncated = e.truncated
    BY <2>1, <2>4, AnswersAre
  <2>6. o = AppendAtCursor(v.answers, f.write)
    BY <2>4 DEF o
  <2>7. QED
    BY <1>2, <2>1, <2>4, <2>5, <2>6 DEF id
<1>3. QED
  BY <1>1, <1>2

LEMMA UpdatedIs ==
    ASSUME NEW v, Fields \subseteq DOMAIN v, NEW f, Answering(f), NEW w, w = AfterUpdate(v, f)
    PROVE  /\ Fields \subseteq DOMAIN w
           /\ w.answers = AfterWrite(v.answers, f)
           /\ w.streamed = GivenWritten(v.streamed, v.answers, f)
           /\ w.reported = v.reported \o Reports(v, f)
           /\ w.final = v.final /\ w.resultError = v.resultError
           /\ w.events = v.events /\ w.truncated = v.truncated
<1> DEFINE heard == [v EXCEPT !.reported = v.reported \o Reports(v, f),
                              !.throttling = IF f.throttling = "none" THEN v.throttling ELSE f.throttling]
           observed == ObserveAnswer(heard, f)
           selected == [observed EXCEPT !.answers = SelectCursor(observed.answers, f.cursor)]
           written == WriteAtCursor(selected, f)
<1>1. w = [written EXCEPT !.grace = written.grace \/ f.last]
  BY DEF AfterUpdate
<1>2. /\ Fields \subseteq DOMAIN heard
      /\ heard.answers = v.answers /\ heard.streamed = v.streamed
      /\ heard.reported = v.reported \o Reports(v, f)
      /\ heard.final = v.final /\ heard.resultError = v.resultError
      /\ heard.events = v.events /\ heard.truncated = v.truncated
  <2> DEFINE r == v.reported \o Reports(v, f)
             t == IF f.throttling = "none" THEN v.throttling ELSE f.throttling
  <2>1. heard = [v EXCEPT !.reported = r, !.throttling = t]
    OBVIOUS
  <2> HIDE DEF r, t, heard
  <2>2. /\ Fields \subseteq DOMAIN heard
        /\ heard.answers = v.answers /\ heard.streamed = v.streamed
        /\ heard.reported = r
        /\ heard.final = v.final /\ heard.resultError = v.resultError
        /\ heard.events = v.events /\ heard.truncated = v.truncated
    BY <2>1 DEF Fields
  <2>3. QED
    BY <2>2 DEF r
<1>a. observed = ObserveAnswer(heard, f)
  OBVIOUS
<1> HIDE DEF heard
<1>3. /\ Fields \subseteq DOMAIN observed
      /\ observed.answers = AfterShown(v.answers, f)
      /\ observed.streamed = GivenShown(v.streamed, v.answers, f)
      /\ observed.reported = heard.reported
      /\ observed.final = heard.final /\ observed.resultError = heard.resultError
      /\ observed.events = heard.events /\ observed.truncated = heard.truncated
  <2> HIDE DEF observed, selected, written
  <2>1. /\ Fields \subseteq DOMAIN observed
        /\ observed.answers = AfterShown(heard.answers, f)
        /\ observed.streamed = GivenShown(heard.streamed, heard.answers, f)
        /\ observed.reported = heard.reported
        /\ observed.final = heard.final /\ observed.resultError = heard.resultError
        /\ observed.events = heard.events /\ observed.truncated = heard.truncated
    BY <1>2, <1>a, ObservedIs, SMTT(30)
  <2>2. QED
    BY <1>2, <2>1
<1> HIDE DEF observed
<1>4. /\ Fields \subseteq DOMAIN selected
      /\ selected.answers = AfterCursor(v.answers, f)
      /\ selected.streamed = observed.streamed
      /\ selected.reported = observed.reported
      /\ selected.final = observed.final /\ selected.resultError = observed.resultError
      /\ selected.events = observed.events /\ selected.truncated = observed.truncated
  <2> DEFINE a == SelectCursor(observed.answers, f.cursor)
  <2>1. a = AfterCursor(v.answers, f)
    BY <1>3 DEF AfterCursor
  <2>2. selected = [observed EXCEPT !.answers = a]
    OBVIOUS
  <2> HIDE DEF a, selected, written
  <2>3. QED
    BY <1>3, <2>1, <2>2, AnswersAre
<1>b. written = WriteAtCursor(selected, f)
  OBVIOUS
<1> HIDE DEF selected
<1>5. /\ Fields \subseteq DOMAIN written
      /\ written.answers = AfterWrite(v.answers, f)
      /\ written.streamed = GivenWritten(v.streamed, v.answers, f)
      /\ written.reported = selected.reported
      /\ written.final = selected.final /\ written.resultError = selected.resultError
      /\ written.events = selected.events /\ written.truncated = selected.truncated
  <2> HIDE DEF written
  <2>1. /\ Fields \subseteq DOMAIN written
        /\ written.answers = IF Appends(selected.answers, f.write)
                             THEN AppendAtCursor(selected.answers, f.write) ELSE selected.answers
        /\ written.streamed = IF Appends(selected.answers, f.write)
              THEN Append(selected.streamed, [id |-> TrackID(selected.answers.currentID), text |-> f.write])
              ELSE selected.streamed
        /\ written.reported = selected.reported
        /\ written.final = selected.final /\ written.resultError = selected.resultError
        /\ written.events = selected.events /\ written.truncated = selected.truncated
    BY <1>4, <1>b, WrittenIs
  <2>2. written.answers = AfterWrite(v.answers, f)
    BY <1>4, <2>1 DEF AfterWrite
  <2>3. written.streamed = GivenWritten(v.streamed, v.answers, f)
    BY <1>3, <1>4, <2>1 DEF GivenWritten
  <2>4. QED
    BY <2>1, <2>2, <2>3
<1> HIDE DEF written
<1>6. /\ Fields \subseteq DOMAIN w
      /\ w.answers = written.answers /\ w.streamed = written.streamed
      /\ w.reported = written.reported
      /\ w.final = written.final /\ w.resultError = written.resultError
      /\ w.events = written.events /\ w.truncated = written.truncated
  <2> DEFINE g == written.grace \/ f.last
  <2>1. w = [written EXCEPT !.grace = g]
    BY <1>1
  <2> HIDE DEF g
  <2>2. QED
    BY <1>5, <2>1 DEF Fields
<1>7. QED
  BY <1>2, <1>3, <1>4, <1>5, <1>6

LEMMA ObservingReportsNothing ==
    ASSUME NEW v, Fields \subseteq DOMAIN v, NEW f, NEW w, w = ObserveAnswer(v, f)
    PROVE  Fields \subseteq DOMAIN w /\ w.reported = v.reported
<1> DEFINE m == f.messages[VisibleIndex(f.messages, f.cursor)]
           id == TrackID(IF m.id = NoId THEN f.cursor ELSE m.id)
           u == UnseenTail(v.answers, id, m.text)
           o == ObserveSnapshot(Emit(v, id, u).answers, id, m.text, f.last \/ m.completed)
<1>1. w = v \/ w = [Emit(v, id, u) EXCEPT !.answers = o]
  BY DEF ObserveAnswer
<1> HIDE DEF o, u, id
<1>2. \E e : e = Emit(v, id, u) /\ (w = v \/ w = [e EXCEPT !.answers = o])
  BY <1>1
<1>3. PICK e : e = Emit(v, id, u) /\ (w = v \/ w = [e EXCEPT !.answers = o])
  BY <1>2
<1>4. Fields \subseteq DOMAIN e /\ e.reported = v.reported
  <2>1. e = Emit(v, id, u)
    BY <1>3
  <2>2. QED
    BY <2>1 DEF Emit, Fields
<1>5. CASE w = v
  BY <1>5
<1>6. CASE w = [e EXCEPT !.answers = o]
  BY <1>4, <1>6, AnswersAre
<1>7. QED
  BY <1>3, <1>5, <1>6, SMTT(30)

\* A refused update is taken in like any other; only its events are kept.
LEMMA RefusedReports ==
    ASSUME NEW v, Fields \subseteq DOMAIN v, NEW f
    PROVE  AfterUpdate(v, f).reported = v.reported \o Reports(v, f)
<1> DEFINE r == v.reported \o Reports(v, f)
           heard == [v EXCEPT !.reported = r,
                              !.throttling = IF f.throttling = "none" THEN v.throttling ELSE f.throttling]
           observed == ObserveAnswer(heard, f)
           selected == [observed EXCEPT !.answers = SelectCursor(observed.answers, f.cursor)]
           written == WriteAtCursor(selected, f)
           w == [written EXCEPT !.grace = written.grace \/ f.last]
<1>1. AfterUpdate(v, f) = w
  BY DEF AfterUpdate
<1>2. Fields \subseteq DOMAIN heard /\ heard.reported = r
  <2> HIDE DEF r
  <2>1. QED
    BY DEF Fields
<1> HIDE DEF heard
<1>b. observed = ObserveAnswer(heard, f)
  OBVIOUS
<1> HIDE DEF observed
<1>3. Fields \subseteq DOMAIN observed /\ observed.reported = r
  <2>1. Fields \subseteq DOMAIN heard
    BY <1>2
  <2>2. Fields \subseteq DOMAIN observed /\ observed.reported = heard.reported
    BY <1>b, <2>1, ObservingReportsNothing
  <2>3. QED
    BY <1>2, <2>2
<1>4. Fields \subseteq DOMAIN selected /\ selected.reported = r
  BY <1>3, AnswersAre
<1>a. written = WriteAtCursor(selected, f)
  OBVIOUS
<1> HIDE DEF selected, written
<1>5. Fields \subseteq DOMAIN written /\ written.reported = r
  <2>1. Fields \subseteq DOMAIN selected
    BY <1>4
  <2>2. Fields \subseteq DOMAIN written /\ written.reported = selected.reported
    BY <1>a, <2>1, WrittenIs, ZenonT(60)
  <2>3. QED
    BY <1>4, <2>2
<1> HIDE DEF written
<1>6. w.reported = r
  BY <1>5 DEF Fields
<1>7. QED
  BY <1>1, <1>6

LEMMA ResultIs ==
    ASSUME NEW v, Fields \subseteq DOMAIN v, NEW f, NEW w, w = AfterResult(v, f)
    PROVE  /\ Fields \subseteq DOMAIN w
           /\ w.answers = v.answers /\ w.streamed = v.streamed /\ w.reported = v.reported
           /\ w.events = v.events /\ w.truncated = v.truncated
           /\ w.final = (IF f.message = NoId THEN v.final ELSE f.message)
           /\ w.resultError = (v.resultError \/ f.error)
BY DEF AfterResult, Fields

LEMMA UpdatesKeepTheStream ==
    ASSUME NEW L \in Seq(Frames), NEW f \in Frames, Answering(f), NEW a, Follows(L, a),
           NEW s, Gives(s, a)
    PROVE  /\ Follows(Append(L, f), AfterWrite(a, f))
           /\ Gives(GivenWritten(s, a, f), AfterWrite(a, f))
<1> DEFINE T == Told(L)
           T1 == IF Shown(f) = 0 THEN T ELSE T \cup {ShownID(f)}
           a1 == AfterShown(a, f)
           s1 == GivenShown(s, a, f)
           a2 == AfterCursor(a, f)
           a3 == AfterWrite(a, f)
           s3 == GivenWritten(s, a, f)
<1>1. f.type = "update" /\ f.cursor \in Ids \cup {NoId} /\ f.write \in Text
  BY UpdateParts DEF Answering
<1>2. T \subseteq Streams /\ a \in AnswerStreams(T)
  BY DEF Follows, Mirrors
<1> HIDE DEF T
<1>3. Shown(f) # 0 => SnapshotOf(f) \in Text /\ ShownID(f) \in Streams
  BY <1>1, WhatIsShown
<1>4. T1 \subseteq Streams /\ a1 \in AnswerStreams(T1) /\ Gives(s1, a1)
  <2>1. CASE Shown(f) = 0
    BY <1>2, <2>1 DEF AfterShown, GivenShown
  <2>2. CASE Shown(f) # 0
    <3> DEFINE id == ShownID(f)
               t == SnapshotOf(f)
               d == Declares(f)
               u == UnseenTail(a, id, t)
               r == IF u = <<>> THEN s ELSE Append(s, [id |-> id, text |-> u])
    <3>1. a1 = ObserveSnapshot(a, id, t, d) /\ id \in Streams /\ t \in Text /\ s1 = r
      BY <1>3, <2>2 DEF AfterShown, GivenShown
    <3>2. u = UnseenTail(a, id, t)
      OBVIOUS
    <3> HIDE DEF a1, s1, id, t, d, u
    <3>3. a1 \in AnswerStreams(T \cup {id}) /\ Gives(r, a1)
      BY <1>2, <3>1, <3>2, SnapshotIsGiven
    <3>4. QED
      BY <1>2, <2>2, <3>1, <3>3 DEF id
  <2>3. QED
    BY <2>1, <2>2
<1> HIDE DEF T1, s1
<1>5. a2 \in AnswerStreams(T1) /\ Gives(s1, a2)
  <2>1. a2 = SelectCursor(a1, f.cursor)
    BY DEF AfterCursor
  <2> HIDE DEF a1, a2
  <2>2. QED
    BY <1>1, <1>4, <2>1, CursorIsGiven
<1>6. Gives(s3, a3)
  <2>1. CASE Appends(a2, f.write)
    <3> DEFINE id == TrackID(a2.currentID)
               t == f.write
    <3>1. a3 = AppendAtCursor(a2, t) /\ s3 = Append(s1, [id |-> id, text |-> t])
      BY <2>1 DEF AfterWrite, GivenWritten, s1
    <3>2. id \in Streams
      <4>1. a2.currentID \in Streams \cup {NoId}
        BY <1>5 DEF AnswerStreams
      <4>2. QED
        BY <4>1, Identities
    <3>3. id = TrackID(a2.currentID) /\ t \in Text
      BY <1>1
    <3> HIDE DEF a2, a3, s3, id, t
    <3>4. Gives(Append(s1, [id |-> id, text |-> t]), a3)
      BY <1>4, <1>5, <3>1, <3>2, <3>3, WriteIsGiven
    <3>5. QED
      BY <3>1, <3>4
  <2>2. CASE ~Appends(a2, f.write)
    BY <1>5, <2>2 DEF AfterWrite, GivenWritten, s1
  <2>3. QED
    BY <2>1, <2>2
<1>7. QED
  BY <1>6, UpdatesKeepTheMirror

LEMMA TheChosenAnswer ==
    ASSUME NEW L \in Seq(Frames), NEW a, Follows(L, a)
    PROVE  \/ ChosenAnswers(L) = {} /\ Told(L) = {} /\ BestText(a) = <<>>
           \/ /\ BestID(a) \in Told(L) /\ ChosenAnswers(L) = {BestID(a)}
              /\ BestText(a) = a.tracks[BestID(a)].authoritative /\ BestText(a) # <<>>
<1> DEFINE T == Told(L)
<1>1. /\ T \subseteq Streams /\ a \in AnswerStreams(T)
      /\ Heads(a, T, AimOf(L), CompletedID(L), LatestID(L))
      /\ Texts(a, T, TextsOf(L), RewrittenIn(L), Written(L))
  BY DEF Follows, Mirrors
<1>2. DOMAIN a.tracks = T /\ NoId \notin T
  BY <1>1, Identities DEF AnswerStreams
<1>3. a.finalID = CompletedID(L) /\ CompletedID(L) \in T \cup {NoId}
      /\ a.lastVisibleID = LatestID(L) /\ LatestID(L) \in T \cup {NoId} /\ (T # {} => LatestID(L) \in T)
  BY <1>1 DEF Heads
<1>4. Len(L) \in Nat /\ DOMAIN L = 1..Len(L) /\ \A i \in 1..Len(L) : L[i] \in Frames
  BY LenProperties, ElementOfSeq
<1>5. Completing(L) # {} => CompletedID(L) = ShownID(L[Max(Completing(L))]) /\ CompletedID(L) \in T
  <2>1. SUFFICES ASSUME Completing(L) # {}
                 PROVE  CompletedID(L) = ShownID(L[Max(Completing(L))]) /\ CompletedID(L) \in T
    OBVIOUS
  <2>2. Completing(L) \subseteq 0..Len(L) /\ Completing(L) \subseteq 1..Len(L)
    BY <1>4 DEF Completing, Updates
  <2>3. Max(Completing(L)) \in Completing(L)
    BY <1>4, <2>1, <2>2, MaxIsGreatest, SMTT(30)
  <2> DEFINE e == L[Max(Completing(L))]
  <2>4. e \in Frames /\ e.type = "update" /\ Shown(e) # 0
    BY <1>4, <2>2, <2>3 DEF Completing, Updates
  <2>5. CompletedID(L) = ShownID(e)
    BY <2>1 DEF CompletedID
  <2> HIDE DEF e
  <2>6. ShownID(e) \in Streams
    BY <2>4, WhatIsShown
  <2>7. CompletedID(L) \in T
    BY <1>3, <2>5, <2>6, Identities
  <2>8. QED
    BY <2>5, <2>7 DEF e
<1>6. Telling(L) # {} =>
         /\ LatestID(L) = IF \E id \in Streams : WritesTo(L, Max(Telling(L)), id)
                          THEN Aim(L, Max(Telling(L))) ELSE ShownID(L[Max(Telling(L))])
         /\ LatestID(L) \in T
  <2>1. SUFFICES ASSUME Telling(L) # {}
                 PROVE  /\ LatestID(L) = IF \E id \in Streams : WritesTo(L, Max(Telling(L)), id)
                                         THEN Aim(L, Max(Telling(L))) ELSE ShownID(L[Max(Telling(L))])
                        /\ LatestID(L) \in T
    OBVIOUS
  <2> DEFINE k == Max(Telling(L))
  <2>2. LatestID(L) = IF \E id \in Streams : WritesTo(L, k, id) THEN Aim(L, k) ELSE ShownID(L[k])
    BY <2>1 DEF LatestID
  <2>3. Telling(L) \subseteq 0..Len(L)
    BY <1>4 DEF Telling, Updates
  <2>4. k \in Telling(L)
    BY <1>4, <2>1, <2>3, MaxIsGreatest
  <2>5. \E id \in Streams : Shows(L, k, id) \/ WritesTo(L, k, id)
    BY <2>4 DEF Telling
  <2> HIDE DEF k
  <2>6. LatestID(L) \in Streams
    BY <2>2, <2>5 DEF Shows, WritesTo
  <2>7. LatestID(L) \in T
    BY <1>3, <2>6, Identities
  <2>8. QED
    BY <2>2, <2>7 DEF k
<1> HIDE DEF T
<1>7. CASE Completing(L) # {}
  <2>1. BestID(a) = CompletedID(L) /\ CompletedID(L) \in T
    BY <1>2, <1>3, <1>5, <1>7 DEF BestID
  <2>2. ChosenAnswers(L) = {BestID(a)}
    BY <1>5, <1>7, <2>1 DEF ChosenAnswers
  <2>3. QED
    BY <1>1, <1>2, <2>1, <2>2 DEF BestText, Track, Texts, T
<1>8. CASE Completing(L) = {} /\ Telling(L) # {}
  <2>1. CompletedID(L) = NoId
    BY <1>8 DEF CompletedID
  <2>2. BestID(a) = LatestID(L) /\ LatestID(L) \in T
    BY <1>2, <1>3, <1>6, <1>8, <2>1 DEF BestID
  <2>3. ChosenAnswers(L) = {BestID(a)}
    BY <1>6, <1>8, <2>2 DEF ChosenAnswers
  <2>4. QED
    BY <1>1, <1>2, <2>2, <2>3 DEF BestText, Track, Texts, T
<1>9. CASE Completing(L) = {} /\ Telling(L) = {}
  <2>1. ChosenAnswers(L) = {}
    BY <1>9 DEF ChosenAnswers
  <2>2. LatestID(L) = NoId
    BY <1>9 DEF LatestID
  <2>3. T = {}
    BY <1>2, <1>3, <2>2
  <2>4. BestText(a) = <<>>
    BY <1>2, <2>3 DEF BestText, Track, EmptyTrack
  <2>5. QED
    BY <2>1, <2>3, <2>4 DEF T
<1>10. QED
  BY <1>7, <1>8, <1>9

LEMMA GivenIsTheAnswer ==
    ASSUME NEW L \in Seq(Frames), NEW a, Follows(L, a), NEW s, Gives(s, a),
           NEW id \in Streams, ~Rewritten(L, id)
    PROVE  Given(s, id) = Answer(L, id)[Len(L)]
<1>1. /\ Told(L) \subseteq Streams /\ a \in AnswerStreams(Told(L))
      /\ Texts(a, Told(L), TextsOf(L), RewrittenIn(L), Written(L))
  BY DEF Follows, Mirrors
<1>2. id \notin RewrittenIn(L) /\ TextsOf(L)[id] = Answer(L, id)[Len(L)]
  BY DEF RewrittenIn, TextsOf, TextOf
<1>3. Given(s, id) = Track(a, id).delivered
  BY DEF Gives
<1>4. CASE id \in Told(L)
  <2>1. Track(a, id) = a.tracks[id]
    BY <1>1, <1>4, TrackIs
  <2>2. QED
    BY <1>1, <1>2, <1>3, <1>4, <2>1 DEF Texts
<1>5. CASE id \notin Told(L)
  <2>1. Track(a, id).delivered = <<>>
    BY <1>1, <1>5, TrackIs
  <2>2. QED
    BY <1>1, <1>2, <1>3, <1>5, <2>1 DEF Texts
<1>6. QED
  BY <1>4, <1>5

-----------------------------------------------------------------------------
(* Sequences of the elements of a set.                                       *)

LEMMA SetToSeqIs ==
    ASSUME NEW S, IsFiniteSet(S)
    PROVE  /\ SetToSeq(S) \in Seq(S)
           /\ \A c \in S : \E k \in DOMAIN SetToSeq(S) : SetToSeq(S)[k] = c
           /\ \A j, k \in DOMAIN SetToSeq(S) : SetToSeq(S)[j] = SetToSeq(S)[k] => j = k
<1> DEFINE n == Cardinality(S)
           s == SetToSeq(S)
<1>1. n \in Nat /\ ExistsBijection(1..n, S)
  BY FS_CardinalityType
<1>2. \E f \in [1..n -> S] : IsInjective(f)
  BY <1>1 DEF ExistsBijection, Bijection, Injection
<1>3. s \in [1..n -> S] /\ IsInjective(s)
  BY <1>2 DEF SetToSeq
<1> HIDE DEF s
<1>4. s \in Injection(1..n, S)
  BY <1>3 DEF Injection
<1>5. IsFiniteSet(1..n) /\ Cardinality(1..n) = n
  BY <1>1, FS_Interval
<1> HIDE DEF n
<1>6. s \in Surjection(1..n, S)
  BY <1>4, <1>5, FS_Injection DEF n
<1>7. s \in Seq(S)
  BY <1>1, <1>3, SeqDef
<1>8. \A c \in S : \E k \in DOMAIN s : s[k] = c
  BY <1>3, <1>6 DEF Surjection
<1>9. \A j, k \in DOMAIN s : s[j] = s[k] => j = k
  BY <1>3 DEF IsInjective
<1>10. QED
  BY <1>7, <1>8, <1>9 DEF s

LEMMA BytesOfNothing == Bytes(<<>>) = 0
<1> DEFINE D == DOMAIN <<>>
           It == CHOOSE iter : iter = [s \in SUBSET D |->
                    IF s = {} THEN 0
                    ELSE <<>>[CHOOSE x \in s : TRUE].size + iter[s \ {CHOOSE x \in s : TRUE}]]
<1>1. Bytes(<<>>) = It[D]
  BY DEF Bytes, FoldSeq, FoldFunction, FoldFunctionOnSet, MapThenFoldSet
<1>2. D = {}
  OBVIOUS
<1> DEFINE E == [s \in SUBSET D |-> 0]
<1>3. E = [s \in SUBSET D |->
             IF s = {} THEN 0
             ELSE <<>>[CHOOSE x \in s : TRUE].size + E[s \ {CHOOSE x \in s : TRUE}]]
  BY <1>2
<1>4. It = [s \in SUBSET D |->
             IF s = {} THEN 0
             ELSE <<>>[CHOOSE x \in s : TRUE].size + It[s \ {CHOOSE x \in s : TRUE}]]
  <2> HIDE DEF E, D
  <2>1. QED
    BY <1>3, ZenonT(60)
<1>5. It[D] = 0
  <2> HIDE DEF It
  <2>1. {} \in SUBSET D
    OBVIOUS
  <2>2. QED
    BY <1>2, <1>4, <2>1
<1>6. QED
  BY <1>1, <1>5

-----------------------------------------------------------------------------
(* The calls reported.                                                       *)

CallNames == UNION {Calls(f) : f \in {g \in Frames : g.type = "update"}}

MessageCalls(f) == {m.call : m \in {x \in Range(f.messages) : x.call # "none"}}

UpdatesOf(L) == {i \in DOMAIN L : L[i].type = "update"}

Unmentioned(L, c) == \A i \in UpdatesOf(L) : \A m \in Range(L[i].messages) : m.call # c

CallsTold(L, r) ==
    /\ r \in Seq(CallNames)
    /\ \A c \in UNION {Calls(L[i]) : i \in UpdatesOf(L)} : \E k \in DOMAIN r : r[k] = c
    /\ \A c : Unmentioned(L, c) => \A j, k \in DOMAIN r : r[j] = c /\ r[k] = c => j = k

LEMMA CallsAreFew ==
    ASSUME NEW f \in Frames, f.type = "update"
    PROVE  /\ IsFiniteSet(Calls(f)) /\ Calls(f) \subseteq CallNames
           /\ Calls(f) = f.calls \cup MessageCalls(f)
           /\ DOMAIN f.messages = 1..Len(f.messages) /\ Len(f.messages) \in Nat
<1> DEFINE ms == f.messages
           I == {i \in 1..Len(ms) : ms[i].call # "none"}
           g == [i \in I |-> ms[i].call]
<1>1. ms \in Seq(UpstreamMessage) /\ IsFiniteSet(f.calls)
  BY UpdateParts
<1>2. Len(ms) \in Nat /\ DOMAIN ms = 1..Len(ms)
  BY <1>1, LenProperties
<1>3. Calls(f) = f.calls \cup MessageCalls(f)
  BY DEF Calls, MessageCalls
<1>4. IsFiniteSet(I)
  <2>1. IsFiniteSet(1..Len(ms))
    <3> HIDE DEF ms
    <3>1. QED
      BY <1>2, FS_Interval
  <2>2. I \subseteq 1..Len(ms)
    OBVIOUS
  <2> HIDE DEF I, ms
  <2>3. QED
    BY <2>1, <2>2, FS_Subset
<1>5. g \in Surjection(I, MessageCalls(f))
  <2>1. \A i \in I : ms[i].call \in MessageCalls(f)
    BY <1>2 DEF MessageCalls, Range
  <2>2. \A c \in MessageCalls(f) : \E i \in I : ms[i].call = c
    BY <1>2 DEF MessageCalls, Range
  <2> HIDE DEF ms, I
  <2>3. g \in [I -> MessageCalls(f)]
    BY <2>1
  <2>4. QED
    BY <2>2, <2>3 DEF Surjection
<1>6. IsFiniteSet(MessageCalls(f))
  BY <1>4, <1>5, FS_Surjection
<1>7. IsFiniteSet(Calls(f))
  BY <1>1, <1>3, <1>6, FS_Union
<1>8. Calls(f) \subseteq CallNames
  BY DEF CallNames
<1>9. QED
  BY <1>2, <1>3, <1>7, <1>8

LEMMA ReportsAre ==
    ASSUME NEW f \in Frames, f.type = "update", NEW v
    PROVE  \E F \in Seq(MessageCalls(f)) :
              Reports(v, f) = SetToSeq(Calls(f) \ Range(v.reported)) \o F
<1> DEFINE ms == f.messages
           ofMessage(m) == IF m.call # "none" /\ m.kind # "memory" THEN <<m.call>> ELSE <<>>
           ss == [i \in DOMAIN ms |-> ofMessage(ms[i])]
<1>1. Len(ms) \in Nat /\ DOMAIN ms = 1..Len(ms)
  BY CallsAreFew
<1>2. ASSUME NEW i \in 1..Len(ms)
      PROVE  ofMessage(ms[i]) \in Seq(MessageCalls(f))
  <2>1. CASE ms[i].call # "none"
    <3>1. ms[i].call \in MessageCalls(f)
      BY <1>1, <2>1 DEF MessageCalls, Range
    <3>2. <<ms[i].call>> \in Seq(MessageCalls(f)) /\ <<>> \in Seq(MessageCalls(f))
      BY <3>1, EmptySeq
    <3>3. QED
      BY <3>2
  <2>2. CASE ms[i].call = "none"
    BY <2>2, EmptySeq
  <2>3. QED
    BY <2>1, <2>2
<1>3. ss \in Seq(Seq(MessageCalls(f)))
  <2> HIDE DEF ofMessage, ms
  <2>1. ss \in [1..Len(ms) -> Seq(MessageCalls(f))]
    BY <1>1, <1>2
  <2>2. QED
    BY <1>1, <2>1, SeqDef
<1>4. Reports(v, f) = SetToSeq(Calls(f) \ Range(v.reported)) \o FlattenSeq(ss)
  BY DEF Reports
<1> HIDE DEF ss
<1>5. FlattenSeq(ss) \in Seq(MessageCalls(f))
  BY <1>3, FlattenIsASeq
<1>6. QED
  BY <1>4, <1>5

LEMMA CallsAreTold ==
    ASSUME NEW L \in Seq(Frames), NEW f \in Frames, f.type = "update", NEW v,
           CallsTold(L, v.reported)
    PROVE  /\ CallsTold(Append(L, f), v.reported \o Reports(v, f))
           /\ Reports(v, f) \in Seq(CallNames)
<1> DEFINE M == Append(L, f)
           n == Len(L)
           r == v.reported
           C == Calls(f)
           S == SetToSeq(C \ Range(r))
<1>1. /\ n \in Nat /\ DOMAIN L = 1..n /\ DOMAIN M = 1..n + 1 /\ M[n + 1] = f
      /\ \A i \in 1..n : M[i] = L[i]
  BY LogAppend
<1>2. PICK F \in Seq(MessageCalls(f)) : Reports(v, f) = S \o F
  BY ReportsAre
<1>3. IsFiniteSet(C) /\ C \subseteq CallNames /\ C = f.calls \cup MessageCalls(f)
  BY CallsAreFew
<1>4. r \in Seq(CallNames)
  BY DEF CallsTold
<1> HIDE DEF C, M, n, r
<1>5. /\ S \in Seq(C \ Range(r))
      /\ \A c \in C \ Range(r) : \E k \in DOMAIN S : S[k] = c
      /\ \A j, k \in DOMAIN S : S[j] = S[k] => j = k
  <2>1. IsFiniteSet(C \ Range(r))
    BY <1>3, FS_Difference
  <2>2. QED
    BY <2>1, SetToSeqIs
<1> HIDE DEF S
<1>6. /\ S \in Seq(CallNames) /\ F \in Seq(CallNames)
      /\ DOMAIN S = 1..Len(S) /\ Len(S) \in Nat /\ DOMAIN F = 1..Len(F) /\ Len(F) \in Nat
      /\ DOMAIN r = 1..Len(r) /\ Len(r) \in Nat
  <2>1. C \ Range(r) \subseteq CallNames /\ MessageCalls(f) \subseteq CallNames
    BY <1>3
  <2>2. S \in Seq(CallNames) /\ F \in Seq(CallNames)
    BY <1>2, <1>5, <2>1, SeqMonotonic
  <2>3. QED
    BY <1>4, <2>2, LenProperties
<1> DEFINE SF == S \o F
           R == r \o SF
<1>7. /\ SF \in Seq(CallNames) /\ Len(SF) = Len(S) + Len(F)
      /\ \A i \in 1..Len(S) + Len(F) : SF[i] = IF i <= Len(S) THEN S[i] ELSE F[i - Len(S)]
  BY <1>6, ConcatProperties
<1> HIDE DEF SF
<1>8. /\ R \in Seq(CallNames) /\ Len(R) = Len(r) + (Len(S) + Len(F))
      /\ \A i \in 1..Len(r) + (Len(S) + Len(F)) :
            R[i] = IF i <= Len(r) THEN r[i] ELSE SF[i - Len(r)]
  <2>1. SF \in Seq(CallNames) /\ r \in Seq(CallNames)
    BY <1>4, <1>7
  <2>2. /\ R \in Seq(CallNames) /\ Len(R) = Len(r) + Len(SF)
        /\ \A i \in 1..Len(r) + Len(SF) : R[i] = IF i <= Len(r) THEN r[i] ELSE SF[i - Len(r)]
    BY <2>1, ConcatProperties
  <2>3. QED
    BY <1>7, <2>2
<1>9. DOMAIN R = 1..Len(r) + (Len(S) + Len(F))
  BY <1>8, LenProperties
<1> HIDE DEF R
<1>10. /\ \A i \in 1..Len(r) : i \in DOMAIN R /\ R[i] = r[i]
       /\ \A i \in 1..Len(S) : Len(r) + i \in DOMAIN R /\ R[Len(r) + i] = S[i]
       /\ \A k \in DOMAIN R : \/ k \in 1..Len(r) /\ R[k] = r[k]
                              \/ \E i \in 1..Len(S) : k = Len(r) + i /\ R[k] = S[i]
                              \/ \E i \in 1..Len(F) : R[k] = F[i]
  <2>1. \A i \in 1..Len(r) : i \in DOMAIN R /\ R[i] = r[i]
    BY <1>6, <1>8, <1>9
  <2>2. ASSUME NEW i \in 1..Len(S)
        PROVE  Len(r) + i \in DOMAIN R /\ R[Len(r) + i] = S[i]
    <3>1. Len(r) + i \in 1..Len(r) + (Len(S) + Len(F)) /\ ~(Len(r) + i <= Len(r))
          /\ Len(r) + i - Len(r) = i /\ i \in 1..Len(S) + Len(F) /\ i <= Len(S)
      BY <1>6
    <3>2. QED
      <4> DEFINE j == Len(r) + i
      <4>1. /\ j \in 1..Len(r) + (Len(S) + Len(F)) /\ ~(j <= Len(r))
            /\ j - Len(r) = i /\ i \in 1..Len(S) + Len(F) /\ i <= Len(S)
        BY <3>1
      <4> HIDE DEF j
      <4>2. j \in DOMAIN R /\ R[j] = SF[j - Len(r)]
        BY <1>8, <1>9, <4>1, SMTT(30)
      <4>3. SF[i] = S[i]
        BY <1>7, <4>1, SMTT(30)
      <4>4. QED
        BY <4>1, <4>2, <4>3 DEF j
  <2>3. ASSUME NEW k \in DOMAIN R
        PROVE  \/ k \in 1..Len(r) /\ R[k] = r[k]
               \/ \E i \in 1..Len(S) : k = Len(r) + i /\ R[k] = S[i]
               \/ \E i \in 1..Len(F) : R[k] = F[i]
    <3>1. CASE k <= Len(r)
      BY <1>6, <1>8, <1>9, <3>1
    <3>2. CASE ~(k <= Len(r)) /\ k - Len(r) <= Len(S)
      <4>1. k - Len(r) \in 1..Len(S) /\ k = Len(r) + (k - Len(r))
            /\ k - Len(r) \in 1..Len(S) + Len(F)
        BY <1>6, <1>9, <3>2
      <4>2. R[k] = S[k - Len(r)]
        BY <1>7, <1>8, <1>9, <3>2, <4>1
      <4>3. QED
        BY <4>1, <4>2
    <3>3. CASE ~(k <= Len(r)) /\ ~(k - Len(r) <= Len(S))
      <4>1. k - Len(r) - Len(S) \in 1..Len(F) /\ k - Len(r) \in 1..Len(S) + Len(F)
        BY <1>6, <1>9, <3>3
      <4>2. R[k] = F[k - Len(r) - Len(S)]
        BY <1>7, <1>8, <1>9, <3>3, <4>1
      <4>3. QED
        BY <4>1, <4>2
    <3>4. QED
      BY <3>1, <3>2, <3>3
  <2>4. QED
    BY <2>1, <2>2, <2>3
<1>11. UpdatesOf(M) = UpdatesOf(L) \cup {n + 1} /\ UpdatesOf(L) \subseteq 1..n
  <2>1. UpdatesOf(L) = {i \in 1..n : L[i].type = "update"}
    BY <1>1 DEF UpdatesOf
  <2>2. UpdatesOf(M) = {i \in 1..n + 1 : M[i].type = "update"}
    BY <1>1 DEF UpdatesOf
  <2>3. QED
    BY <1>1, <2>1, <2>2
<1>12. ASSUME NEW c \in UNION {Calls(M[i]) : i \in UpdatesOf(M)}
       PROVE  \E k \in DOMAIN R : R[k] = c
  <2>1. PICK i \in UpdatesOf(M) : c \in Calls(M[i])
    BY <1>12
  <2>2. CASE c \in Range(r)
    <3>1. PICK k \in 1..Len(r) : r[k] = c
      BY <1>6, <2>2 DEF Range
    <3>2. QED
      BY <1>10, <3>1
  <2>3. CASE c \notin Range(r)
    <3>1. i = n + 1
      <4>1. SUFFICES ASSUME i \in UpdatesOf(L) PROVE FALSE
        BY <1>11
      <4>2. c \in Calls(L[i])
        BY <1>1, <1>11, <2>1, <4>1
      <4>3. \E k \in DOMAIN r : r[k] = c
        BY <4>1, <4>2 DEF CallsTold, r
      <4>4. QED
        BY <2>3, <4>3 DEF Range
    <3>2. c \in C
      BY <1>1, <2>1, <3>1 DEF C
    <3>3. PICK k \in 1..Len(S) : S[k] = c
      BY <1>5, <1>6, <2>3, <3>2
    <3>4. QED
      BY <1>10, <3>3
  <2>4. QED
    BY <2>2, <2>3
<1>13. ASSUME NEW c, Unmentioned(M, c), NEW j \in DOMAIN R, NEW k \in DOMAIN R, R[j] = c, R[k] = c
       PROVE  j = k
  <2>1. Unmentioned(L, c)
    BY <1>1, <1>11, <1>13 DEF Unmentioned
  <2>2. \A m \in Range(f.messages) : m.call # c
    BY <1>1, <1>11, <1>13 DEF Unmentioned
  <2>3. c \notin MessageCalls(f)
    BY <2>2 DEF MessageCalls
  <2>4. \A i \in 1..Len(F) : F[i] # c
    BY <1>2, <1>6, <2>3, ElementOfSeq
  <2>5. \A i \in 1..Len(S) : S[i] \notin Range(r)
    BY <1>5, <1>6, ElementOfSeq
  <2>6. \A i \in 1..Len(r) : r[i] \in Range(r)
    BY <1>6 DEF Range
  <2>7. \A i, l \in 1..Len(r) : r[i] = c /\ r[l] = c => i = l
    BY <1>6, <2>1 DEF CallsTold, r
  <2>8. \A i, l \in 1..Len(S) : S[i] = S[l] => i = l
    BY <1>5, <1>6
  <2>9. \/ j \in 1..Len(r) /\ r[j] = c
        \/ \E i \in 1..Len(S) : j = Len(r) + i /\ S[i] = c
    BY <1>10, <1>13, <2>4
  <2>10. \/ k \in 1..Len(r) /\ r[k] = c
         \/ \E i \in 1..Len(S) : k = Len(r) + i /\ S[i] = c
    BY <1>10, <1>13, <2>4, SMTT(30)
  <2>11. QED
    BY <2>5, <2>6, <2>7, <2>8, <2>9, <2>10
<1>14. CallsTold(M, R)
  <2>1. \A c : Unmentioned(M, c) => \A j, k \in DOMAIN R : R[j] = c /\ R[k] = c => j = k
    BY <1>13
  <2>2. QED
    BY <1>8, <1>12, <2>1 DEF CallsTold
<1>15. QED
  BY <1>2, <1>7, <1>14 DEF M, R, r, SF

LEMMA OtherFramesKeepTheCalls ==
    ASSUME NEW L \in Seq(Frames), NEW f \in Frames, f.type # "update", NEW r, CallsTold(L, r)
    PROVE  CallsTold(Append(L, f), r)
<1> DEFINE M == Append(L, f)
           n == Len(L)
<1>1. /\ n \in Nat /\ DOMAIN L = 1..n /\ DOMAIN M = 1..n + 1 /\ M[n + 1] = f
      /\ \A i \in 1..n : M[i] = L[i]
  BY LogAppend
<1> HIDE DEF M, n
<1>2. UpdatesOf(M) = UpdatesOf(L) /\ UpdatesOf(L) \subseteq 1..n
  <2>1. UpdatesOf(L) = {i \in 1..n : L[i].type = "update"}
    BY <1>1 DEF UpdatesOf
  <2>2. UpdatesOf(M) = {i \in 1..n + 1 : M[i].type = "update"}
    BY <1>1 DEF UpdatesOf
  <2>3. QED
    BY <1>1, <2>1, <2>2
<1>3. \A i \in UpdatesOf(L) : M[i] = L[i]
  BY <1>1, <1>2
<1>4. r \in Seq(CallNames)
  BY DEF CallsTold
<1>5. ASSUME NEW c \in UNION {Calls(M[i]) : i \in UpdatesOf(M)}
      PROVE  \E k \in DOMAIN r : r[k] = c
  <2>1. PICK i \in UpdatesOf(L) : c \in Calls(L[i])
    BY <1>2, <1>3, <1>5
  <2>2. QED
    BY <2>1 DEF CallsTold
<1>6. ASSUME NEW c, Unmentioned(M, c) PROVE Unmentioned(L, c)
  BY <1>2, <1>3, <1>6 DEF Unmentioned
<1>7. \A c : Unmentioned(M, c) => \A j, k \in DOMAIN r : r[j] = c /\ r[k] = c => j = k
  BY <1>6 DEF CallsTold
<1>8. CallsTold(M, r)
  BY <1>4, <1>5, <1>7 DEF CallsTold
<1>9. QED
  BY <1>8 DEF M

LEMMA NoCallsYet == CallsTold(<<>>, <<>>)
<1>1. DOMAIN <<>> = {} /\ <<>> \in Seq(CallNames)
  BY EmptySeq
<1>2. UpdatesOf(<<>>) = {}
  BY <1>1 DEF UpdatesOf
<1>3. QED
  BY <1>1, <1>2 DEF CallsTold

LEMMA TimesTold ==
    ASSUME NEW A, NEW r \in Seq(A), NEW c, \E k \in DOMAIN r : r[k] = c,
           NEW t, t = Cardinality({i \in DOMAIN r : r[i] = c})
    PROVE  /\ t >= 1
           /\ (\A j, k \in DOMAIN r : r[j] = c /\ r[k] = c => j = k) => t = 1
<1> DEFINE I == {i \in DOMAIN r : r[i] = c}
<1>1. DOMAIN r = 1..Len(r) /\ Len(r) \in Nat
  BY LenProperties
<1>2. IsFiniteSet(DOMAIN r)
  BY <1>1, FS_Interval
<1>3. IsFiniteSet(I)
  <2>1. I \subseteq DOMAIN r
    OBVIOUS
  <2> HIDE DEF I
  <2>2. QED
    BY <1>2, <2>1, FS_Subset
<1>4. PICK k \in DOMAIN r : r[k] = c
  OBVIOUS
<1>5. k \in I
  BY <1>4
<1>6. t = Cardinality(I)
  OBVIOUS
<1>7. (\A j, l \in DOMAIN r : r[j] = c /\ r[l] = c => j = l) => I = {k}
  BY <1>4
<1> HIDE DEF I
<1>8. t \in Nat
  BY <1>3, <1>6, FS_CardinalityType
<1>9. t # 0
  BY <1>3, <1>5, <1>6, FS_EmptySet
<1>10. Cardinality({k}) = 1
  BY FS_Singleton
<1>11. t >= 1
  BY <1>8, <1>9
<1>12. I = {k} => t = 1
  BY <1>6, <1>10
<1>13. QED
  BY <1>7, <1>11, <1>12

-----------------------------------------------------------------------------
(* The events kept.                                                          *)

Small(L) == {i \in DOMAIN L : L[i].size <= MaxRetainedEventBytes}
Age(L, i) == Cardinality({j \in Small(L) : j >= i})

KeptFrom(L, kept, truncated) ==
    /\ kept \in Seq(Frames) /\ truncated \in BOOLEAN
    /\ Bytes(kept) <= MaxRetainedEventBytes
    /\ Len(kept) <= MaxRetainedEventCount
    /\ Len(kept) <= Cardinality(Small(L))
    /\ \A i \in Small(L) : Age(L, i) <= Len(kept) => kept[Len(kept) + 1 - Age(L, i)] = L[i]
    /\ truncated <=> Len(kept) < Len(L)

LEMMA EventsAre ==
    ASSUME NEW v, {"events", "truncated"} \subseteq DOMAIN v, v.events \in Seq(Frames),
           NEW f \in Frames, NEW w, w = Retain(v, f), f.size <= MaxRetainedEventBytes
    PROVE  \E d \in 0..Len(Append(v.events, f)) :
              /\ w.events = SubSeq(Append(v.events, f), d + 1, Len(Append(v.events, f)))
              /\ Fits(w.events)
              /\ w.truncated = (v.truncated \/ d > 0)
<1> DEFINE all == Append(v.events, f)
           D == {n \in 0..Len(all) : Fits(SubSeq(all, n + 1, Len(all)))}
           d == Min(D)
<1>1. all \in Seq(Frames) /\ Len(all) \in Nat
  BY AppendProperties, LenProperties
<1>2. Len(all) \in D
  <2>1. SubSeq(all, Len(all) + 1, Len(all)) = <<>>
    BY <1>1, SubSeqEmpty
  <2>2. Len(<<>>) = 0
    OBVIOUS
  <2>3. Fits(<<>>)
    BY <2>2, BytesOfNothing, FrameAssumption DEF Fits
  <2>4. Fits(SubSeq(all, Len(all) + 1, Len(all)))
    BY <2>1, <2>3, Zenon
  <2>5. Len(all) \in 0..Len(all)
    BY <1>1
  <2>6. QED
    BY <2>4, <2>5
<1>3. D \subseteq Nat
  BY <1>1
<1>4. \E k \in D : \A j \in D : k <= j
  <2> HIDE DEF D
  <2>1. QED
    BY <1>2, <1>3, LeastExists
<1>5. d \in D
  <2> HIDE DEF D
  <2>1. QED
    BY <1>4 DEF Min
<1>6. f.size \in Nat /\ MaxRetainedEventBytes \in Nat
  BY FrameAssumption
<1>7. w = [v EXCEPT !.events = SubSeq(all, d + 1, Len(all)), !.truncated = v.truncated \/ d > 0]
  BY <1>6 DEF Retain
<1> HIDE DEF d, all
<1>8. w.events = SubSeq(all, d + 1, Len(all)) /\ w.truncated = (v.truncated \/ d > 0)
  BY <1>7
<1>9. QED
  BY <1>5, <1>8 DEF all

LEMMA AgesAppend ==
    ASSUME NEW L \in Seq(Frames), NEW f \in Frames, NEW M, M = Append(L, f)
    PROVE  /\ IsFiniteSet(Small(L)) /\ Cardinality(Small(L)) \in Nat
           /\ Cardinality(Small(L)) <= Len(L)
           /\ \A i \in Small(L) : Age(L, i) \in Nat /\ Age(L, i) >= 1
           /\ f.size > MaxRetainedEventBytes =>
                 Small(M) = Small(L) /\ \A i \in Small(L) : Age(M, i) = Age(L, i)
           /\ f.size <= MaxRetainedEventBytes =>
                 /\ Small(M) = Small(L) \cup {Len(L) + 1}
                 /\ Cardinality(Small(M)) = Cardinality(Small(L)) + 1
                 /\ \A i \in Small(L) : Age(M, i) = Age(L, i) + 1
                 /\ Age(M, Len(L) + 1) = 1
<1> DEFINE n == Len(L)
           S == Small(L)
           S2 == Small(M)
<1>1. /\ n \in Nat /\ DOMAIN L = 1..n /\ DOMAIN M = 1..n + 1 /\ M[n + 1] = f
      /\ \A i \in 1..n : M[i] = L[i]
  BY LogAppend
<1>2. f.size \in Nat /\ MaxRetainedEventBytes \in Nat
  BY FrameAssumption
<1> HIDE DEF n
<1>3. S = {i \in 1..n : L[i].size <= MaxRetainedEventBytes}
  BY <1>1 DEF Small
<1>4. S2 = {i \in 1..n + 1 : M[i].size <= MaxRetainedEventBytes}
  BY <1>1 DEF Small
<1>5. f.size > MaxRetainedEventBytes => S2 = S
  BY <1>1, <1>2, <1>3, <1>4
<1>6. f.size <= MaxRetainedEventBytes => S2 = S \cup {n + 1}
  BY <1>1, <1>2, <1>3, <1>4
<1>7. S \subseteq 1..n
  BY <1>3
<1> HIDE DEF S, S2
<1>8. IsFiniteSet(S) /\ Cardinality(S) \in Nat /\ Cardinality(S) <= n
  <2>1. IsFiniteSet(1..n) /\ Cardinality(1..n) = n
    BY <1>1, FS_Interval
  <2>2. QED
    BY <1>7, <2>1, FS_Subset, FS_CardinalityType, ZenonT(60)
<1>9. ASSUME NEW i \in S
      PROVE  /\ Age(L, i) \in Nat /\ Age(L, i) >= 1
             /\ f.size > MaxRetainedEventBytes => Age(M, i) = Age(L, i)
             /\ f.size <= MaxRetainedEventBytes => Age(M, i) = Age(L, i) + 1
  <2> DEFINE J == {j \in S : j >= i}
  <2>1. Age(L, i) = Cardinality(J)
    BY DEF Age, S
  <2>2. i \in J /\ J \subseteq S
    BY <1>7
  <2>3. f.size > MaxRetainedEventBytes => Age(M, i) = Cardinality(J)
    BY <1>5 DEF Age, S2
  <2>4. f.size <= MaxRetainedEventBytes => Age(M, i) = Cardinality(J \cup {n + 1})
    <3>1. SUFFICES ASSUME f.size <= MaxRetainedEventBytes
                   PROVE  {j \in S2 : j >= i} = J \cup {n + 1}
      BY DEF Age, S2
    <3>2. i \in 1..n
      BY <1>7
    <3>3. QED
      BY <1>1, <1>6, <3>1, <3>2
  <2>5. n + 1 \notin J
    BY <1>1, <1>7
  <2> HIDE DEF J
  <2>6. IsFiniteSet(J)
    BY <1>8, <2>2, FS_Subset
  <2>7. Cardinality(J) \in Nat /\ Cardinality(J) # 0
    BY <2>2, <2>6, FS_CardinalityType, FS_EmptySet
  <2>8. Cardinality(J \cup {n + 1}) = Cardinality(J) + 1
    BY <2>5, <2>6, FS_AddElement
  <2>9. QED
    BY <2>1, <2>3, <2>4, <2>7, <2>8
<1>10. ASSUME f.size <= MaxRetainedEventBytes
       PROVE  Cardinality(S2) = Cardinality(S) + 1 /\ Age(M, n + 1) = 1
  <2>1. n + 1 \notin S
    BY <1>1, <1>7
  <2>2. Cardinality(S \cup {n + 1}) = Cardinality(S) + 1
    BY <1>8, <2>1, FS_AddElement
  <2>3. {j \in S2 : j >= n + 1} = {n + 1}
    <3>1. \A j \in S : ~(j >= n + 1)
      BY <1>1, <1>7
    <3>2. S2 = S \cup {n + 1} /\ n + 1 >= n + 1
      BY <1>1, <1>6, <1>10
    <3>3. QED
      BY <3>1, <3>2
  <2>4. Age(M, n + 1) = Cardinality({n + 1})
    BY <2>3 DEF Age, S2
  <2>5. QED
    BY <1>6, <1>10, <2>2, <2>4, FS_Singleton
<1>11. QED
  BY <1>5, <1>6, <1>8, <1>9, <1>10 DEF S, S2, n

LEMMA EventsAreKept ==
    ASSUME NEW L \in Seq(Frames), NEW f \in Frames,
           NEW v, {"events", "truncated"} \subseteq DOMAIN v, KeptFrom(L, v.events, v.truncated),
           NEW w, w = Retain(v, f)
    PROVE  KeptFrom(Append(L, f), w.events, w.truncated)
<1> DEFINE n == Len(L)
           M == Append(L, f)
           k == Len(v.events)
           s == Cardinality(Small(L))
<1>1. /\ n \in Nat /\ Len(M) = n + 1 /\ M[n + 1] = f /\ DOMAIN L = 1..n
      /\ \A i \in 1..n : M[i] = L[i]
  BY LogAppend
<1>2. f.size \in Nat /\ MaxRetainedEventBytes \in Nat
  BY FrameAssumption
<1>3. v.events \in Seq(Frames) /\ k \in Nat /\ v.truncated \in BOOLEAN
  BY LenProperties DEF KeptFrom
<1>4. Small(L) \subseteq 1..n
  BY <1>1 DEF Small
<1>5. /\ s \in Nat /\ s <= n
      /\ \A i \in Small(L) : Age(L, i) \in Nat /\ Age(L, i) >= 1
      /\ f.size > MaxRetainedEventBytes =>
            Small(M) = Small(L) /\ \A i \in Small(L) : Age(M, i) = Age(L, i)
      /\ f.size <= MaxRetainedEventBytes =>
            /\ Small(M) = Small(L) \cup {n + 1} /\ Cardinality(Small(M)) = s + 1
            /\ \A i \in Small(L) : Age(M, i) = Age(L, i) + 1
            /\ Age(M, n + 1) = 1
  BY AgesAppend, ZenonT(60)
<1>6. /\ Bytes(v.events) <= MaxRetainedEventBytes /\ k <= MaxRetainedEventCount /\ k <= s
      /\ \A i \in Small(L) : Age(L, i) <= k => v.events[k + 1 - Age(L, i)] = L[i]
      /\ v.truncated <=> k < n
  BY DEF KeptFrom
<1> HIDE DEF n, M, k, s
<1>7. CASE f.size > MaxRetainedEventBytes
  <2>1. w.events = v.events /\ w.truncated = TRUE
    BY <1>7 DEF Retain
  <2>2. k < Len(M)
    BY <1>1, <1>3, <1>5, <1>6
  <2>3. Cardinality(Small(M)) = s
    BY <1>5, <1>7 DEF s
  <2>4. \A i \in Small(M) : Age(M, i) <= k => v.events[k + 1 - Age(M, i)] = M[i]
    BY <1>1, <1>4, <1>5, <1>6, <1>7
  <2>5. KeptFrom(M, v.events, TRUE)
    BY <1>3, <1>6, <2>2, <2>3, <2>4 DEF KeptFrom, k
  <2>6. QED
    BY <2>1, <2>5 DEF M
<1>8. CASE f.size <= MaxRetainedEventBytes
  <2> DEFINE all == Append(v.events, f)
             e == w.events
  <2>0. \E d \in 0..Len(Append(v.events, f)) :
           /\ w.events = SubSeq(Append(v.events, f), d + 1, Len(Append(v.events, f)))
           /\ Fits(w.events)
           /\ w.truncated = (v.truncated \/ d > 0)
    <3>1. v.events \in Seq(Frames)
      BY <1>3
    <3>2. QED
      BY <1>8, <3>1, EventsAre, ZenonT(60)
  <2>1. PICK d \in 0..Len(all) :
           /\ w.events = SubSeq(all, d + 1, Len(all)) /\ Fits(w.events)
           /\ w.truncated = (v.truncated \/ d > 0)
    BY <2>0
  <2>2. /\ all \in Seq(Frames) /\ Len(all) = k + 1
        /\ \A i \in 1..k : all[i] = v.events[i]
        /\ all[k + 1] = f
    BY <1>3, AppendProperties DEF k
  <2> HIDE DEF all
  <2>3. d \in Nat /\ d <= k + 1
    BY <1>3, <2>1, <2>2
  <2> DEFINE p == d + 1
             q == k + 1
  <2>4. e = SubSeq(all, p, q) /\ p \in Int /\ q \in Int /\ p = d + 1 /\ q = k + 1
    BY <1>3, <2>1, <2>2, <2>3
  <2> HIDE DEF e, p, q
  <2>a. \A i \in p..q : all[i] \in Frames
    <3>1. ASSUME NEW i \in p..q PROVE all[i] \in Frames
      <4>1. i \in 1..Len(all)
        BY <1>3, <2>2, <2>3, <2>4
      <4>2. QED
        BY <2>2, <4>1, ElementOfSeq
    <3>2. QED
      BY <3>1
  <2>b. /\ SubSeq(all, p, q) \in Seq(Frames)
        /\ Len(SubSeq(all, p, q)) = IF p <= q THEN q - p + 1 ELSE 0
        /\ \A i \in 1..q - p + 1 : SubSeq(all, p, q)[i] = all[p + i - 1]
    <3>1. p \in Int /\ q \in Int
      BY <2>4
    <3>2. QED
      BY <2>a, <3>1, SubSeqProperties
  <2>c. /\ e \in Seq(Frames) /\ Len(e) = IF p <= q THEN q - p + 1 ELSE 0
        /\ \A i \in 1..q - p + 1 : e[i] = all[p + i - 1]
    BY <2>4, <2>b
  <2>5. /\ e \in Seq(Frames) /\ Len(e) = k + 1 - d
        /\ \A i \in 1..k + 1 - d : e[i] = all[d + i]
    <3>1. p = d + 1 /\ q = k + 1
      BY <2>4
    <3>2. Len(e) = k + 1 - d /\ q - p + 1 = k + 1 - d
      BY <1>3, <2>3, <2>c, <3>1
    <3>3. ASSUME NEW i \in 1..k + 1 - d PROVE e[i] = all[d + i]
      <4>1. p + i - 1 = d + i /\ i \in 1..q - p + 1
        BY <1>3, <2>3, <3>1, <3>2
      <4>2. QED
        BY <2>c, <4>1
    <3>4. QED
      BY <2>c, <3>2, <3>3
  <2>6. Bytes(e) <= MaxRetainedEventBytes /\ Len(e) <= MaxRetainedEventCount
    BY <2>1 DEF Fits, e
  <2>7. w.truncated \in BOOLEAN /\ (w.truncated <=> v.truncated \/ d > 0)
    BY <1>3, <2>1
  <2>8. Len(e) <= Cardinality(Small(M))
    BY <1>3, <1>5, <1>6, <1>8, <2>3, <2>5
  <2>9. w.truncated <=> Len(e) < Len(M)
    BY <1>1, <1>3, <1>5, <1>6, <2>3, <2>5, <2>7
  <2>10. ASSUME NEW i \in Small(M), Age(M, i) <= Len(e)
         PROVE  e[Len(e) + 1 - Age(M, i)] = M[i]
    <3>1. CASE i = n + 1
      <4>1. Age(M, i) = 1 /\ M[i] = f
        BY <1>1, <1>5, <1>8, <3>1
      <4>2. Len(e) + 1 - Age(M, i) = k + 1 - d /\ k + 1 - d \in 1..k + 1 - d /\ d + (k + 1 - d) = k + 1
        <5>1. k \in Nat /\ d \in 0..k + 1 /\ Len(e) = k + 1 - d /\ 1 <= Len(e)
          BY <1>3, <2>3, <2>5, <2>10, <4>1, SMTT(30)
        <5>2. QED
          BY <4>1, <5>1, SMTT(30)
      <4>3. QED
        BY <2>2, <2>5, <4>1, <4>2, SMTT(30)
    <3>2. CASE i # n + 1
      <4> DEFINE a == Age(L, i)
      <4>1. i \in Small(L) /\ Age(M, i) = a + 1 /\ a \in Nat /\ a >= 1
        BY <1>5, <1>8, <3>2
      <4> HIDE DEF a
      <4>2. /\ Len(e) + 1 - Age(M, i) = k + 1 - d - a /\ k + 1 - d - a \in 1..k + 1 - d
            /\ d + (k + 1 - d - a) = k + 1 - a /\ k + 1 - a \in 1..k /\ a <= k
        BY <1>3, <2>3, <2>5, <2>10, <4>1, SMTT(30)
      <4>3. v.events[k + 1 - a] = L[i]
        BY <1>6, <4>1, <4>2 DEF a
      <4>4. M[i] = L[i]
        BY <1>1, <1>4, <4>1
      <4>5. QED
        BY <2>2, <2>5, <4>2, <4>3, <4>4
    <3>3. QED
      BY <3>1, <3>2
  <2>11. KeptFrom(M, e, w.truncated)
    BY <2>5, <2>6, <2>7, <2>8, <2>9, <2>10 DEF KeptFrom
  <2>12. QED
    BY <2>11 DEF M, e
<1>9. QED
  BY <1>2, <1>7, <1>8

LEMMA NothingIsKept == KeptFrom(<<>>, <<>>, FALSE)
<1>1. DOMAIN <<>> = {} /\ Len(<<>>) = 0 /\ <<>> \in Seq(Frames)
  BY EmptySeq
<1>2. Small(<<>>) = {}
  BY <1>1 DEF Small
<1>3. Cardinality({}) = 0
  BY FS_EmptySet
<1>4. Bytes(<<>>) <= MaxRetainedEventBytes /\ 0 <= MaxRetainedEventCount
  BY BytesOfNothing, FrameAssumption
<1>5. ~(Len(<<>>) < Len(<<>>)) /\ Len(<<>>) <= Cardinality(Small(<<>>))
  BY <1>1, <1>2, <1>3
<1>6. \A i \in Small(<<>>) :
         Age(<<>>, i) <= Len(<<>>) => <<>>[Len(<<>>) + 1 - Age(<<>>, i)] = <<>>[i]
  BY <1>2
<1>7. Len(<<>>) <= MaxRetainedEventCount
  BY <1>1, <1>4
<1>8. QED
  BY <1>1, <1>4, <1>5, <1>6, <1>7 DEF KeptFrom

-----------------------------------------------------------------------------
(* What the call has made of a log, and what one more frame makes of that.    *)

Hears(L, v) == Follows(L, v.answers) /\ Gives(v.streamed, v.answers) /\ CallsTold(L, v.reported)

Stated(L) == {i \in DOMAIN L : L[i].type = "result" /\ L[i].message # NoId}

Concludes(L, v) ==
    /\ IF Stated(L) = {} THEN v.final = <<>> ELSE v.final = L[Max(Stated(L))].message
    /\ \A i \in DOMAIN L : L[i].type = "result" /\ L[i].error => v.resultError

\* Nothing in the log ends the call.
Ongoing(L) ==
    \A i \in DOMAIN L : L[i].type # "completion" /\ (L[i].type = "update" => ~L[i].refused)

Keeps(L, v) ==
    /\ L \in Seq(Frames) /\ Fields \subseteq DOMAIN v
    /\ KeptFrom(L, v.events, v.truncated)

LEMMA FramesAreKept ==
    ASSUME NEW L, NEW v, Keeps(L, v), NEW f \in Frames, NEW w, w = Retain(v, f)
    PROVE  /\ Keeps(Append(L, f), w)
           /\ w.answers = v.answers /\ w.streamed = v.streamed /\ w.final = v.final
           /\ w.resultError = v.resultError /\ w.reported = v.reported
<1>1. /\ L \in Seq(Frames) /\ Fields \subseteq DOMAIN v /\ {"events", "truncated"} \subseteq DOMAIN v
      /\ KeptFrom(L, v.events, v.truncated)
  BY DEF Keeps, Fields
<1>2. /\ Fields \subseteq DOMAIN w /\ w.answers = v.answers /\ w.streamed = v.streamed
      /\ w.final = v.final /\ w.resultError = v.resultError /\ w.reported = v.reported
  BY <1>1, RetainIs
<1>3. KeptFrom(Append(L, f), w.events, w.truncated)
  BY <1>1, EventsAreKept
<1>4. Append(L, f) \in Seq(Frames)
  BY <1>1, LogAppend
<1>5. QED
  BY <1>2, <1>3, <1>4 DEF Keeps

LEMMA OtherFramesAreHeard ==
    ASSUME NEW L \in Seq(Frames), NEW v, Hears(L, v), NEW f \in Frames, f.type # "update",
           NEW w, w.answers = v.answers, w.streamed = v.streamed, w.reported = v.reported
    PROVE  Hears(Append(L, f), w)
<1>1. Follows(Append(L, f), v.answers)
  BY QuietFramesKeepTheMirror DEF Hears, Answering
<1>2. CallsTold(Append(L, f), v.reported)
  BY OtherFramesKeepTheCalls DEF Hears
<1>3. QED
  BY <1>1, <1>2 DEF Hears

LEMMA RefusalsAreHeard ==
    ASSUME NEW L \in Seq(Frames), NEW v, Hears(L, v), NEW f \in Frames,
           f.type = "update", f.refused,
           NEW w, w.answers = v.answers, w.streamed = v.streamed,
           w.reported = v.reported \o Reports(v, f)
    PROVE  Hears(Append(L, f), w)
<1>1. Follows(Append(L, f), v.answers)
  BY QuietFramesKeepTheMirror DEF Hears, Answering
<1>2. CallsTold(Append(L, f), v.reported \o Reports(v, f))
  BY CallsAreTold DEF Hears
<1>3. QED
  BY <1>1, <1>2 DEF Hears

LEMMA UpdatesAreHeard ==
    ASSUME NEW L \in Seq(Frames), NEW v, Hears(L, v), NEW f \in Frames, Answering(f),
           NEW w, w.answers = AfterWrite(v.answers, f),
           w.streamed = GivenWritten(v.streamed, v.answers, f),
           w.reported = v.reported \o Reports(v, f)
    PROVE  Hears(Append(L, f), w)
<1>1. Follows(Append(L, f), AfterWrite(v.answers, f))
      /\ Gives(GivenWritten(v.streamed, v.answers, f), AfterWrite(v.answers, f))
  BY UpdatesKeepTheStream DEF Hears
<1>2. CallsTold(Append(L, f), v.reported \o Reports(v, f))
  BY CallsAreTold DEF Hears, Answering
<1>3. QED
  BY <1>1, <1>2 DEF Hears

LEMMA NothingIsConcluded ==
    ASSUME NEW L \in Seq(Frames), NEW v, Concludes(L, v), NEW f \in Frames, f.type # "result",
           NEW w, w.final = v.final, w.resultError = v.resultError
    PROVE  Concludes(Append(L, f), w) /\ Stated(Append(L, f)) = Stated(L)
           /\ (Stated(L) # {} => Append(L, f)[Max(Stated(L))] = L[Max(Stated(L))])
<1> DEFINE M == Append(L, f)
           n == Len(L)
<1>1. /\ n \in Nat /\ DOMAIN L = 1..n /\ DOMAIN M = 1..n + 1 /\ M[n + 1] = f
      /\ \A i \in 1..n : M[i] = L[i]
  BY LogAppend
<1> HIDE DEF M, n
<1>2. Stated(M) = Stated(L) /\ Stated(L) \subseteq 1..n /\ Stated(L) \subseteq 0..n
  <2>1. Stated(L) = {i \in 1..n : L[i].type = "result" /\ L[i].message # NoId}
    BY <1>1 DEF Stated
  <2>2. Stated(M) = {i \in 1..n + 1 : M[i].type = "result" /\ M[i].message # NoId}
    BY <1>1 DEF Stated
  <2>3. QED
    BY <1>1, <2>1, <2>2
<1>3. ASSUME Stated(L) # {} PROVE M[Max(Stated(L))] = L[Max(Stated(L))]
  <2>1. Max(Stated(L)) \in Stated(L)
    BY <1>1, <1>2, <1>3, MaxIsGreatest
  <2>2. QED
    BY <1>1, <1>2, <2>1
<1>4. \A i \in DOMAIN M : M[i].type = "result" /\ M[i].error => w.resultError
  BY <1>1 DEF Concludes
<1>5. IF Stated(L) = {} THEN w.final = <<>> ELSE w.final = L[Max(Stated(L))].message
  BY DEF Concludes
<1>6. IF Stated(M) = {} THEN w.final = <<>> ELSE w.final = M[Max(Stated(M))].message
  BY <1>2, <1>3, <1>5
<1>7. Concludes(M, w)
  BY <1>4, <1>6 DEF Concludes
<1>8. QED
  BY <1>2, <1>3, <1>7 DEF M

LEMMA ResultsConclude ==
    ASSUME NEW L \in Seq(Frames), NEW v, Concludes(L, v), NEW f \in Frames, f.type = "result",
           NEW w, w.final = (IF f.message = NoId THEN v.final ELSE f.message),
           w.resultError = (v.resultError \/ f.error)
    PROVE  Concludes(Append(L, f), w)
<1> DEFINE M == Append(L, f)
           n == Len(L)
<1>1. /\ n \in Nat /\ DOMAIN L = 1..n /\ DOMAIN M = 1..n + 1 /\ M[n + 1] = f
      /\ \A i \in 1..n : M[i] = L[i]
  BY LogAppend
<1> HIDE DEF M, n
<1>a. Stated(L) = {i \in 1..n : L[i].type = "result" /\ L[i].message # NoId}
  BY <1>1 DEF Stated
<1>b. Stated(M) = {i \in 1..n + 1 : M[i].type = "result" /\ M[i].message # NoId}
  BY <1>1 DEF Stated
<1>2. Stated(L) \subseteq 1..n /\ Stated(L) \subseteq 0..n
  BY <1>1, <1>a
<1>3. \A i \in DOMAIN M : M[i].type = "result" /\ M[i].error => w.resultError
  <2>1. \A i \in DOMAIN L : L[i].type = "result" /\ L[i].error => v.resultError
    BY DEF Concludes
  <2>2. v.resultError \/ f.error => w.resultError
    BY Zenon
  <2>3. ASSUME NEW i \in DOMAIN M, M[i].type = "result", M[i].error PROVE v.resultError \/ f.error
    <3>1. CASE i \in 1..n
      <4>1. M[i] = L[i] /\ i \in DOMAIN L
        BY <1>1, <3>1
      <4>2. L[i].type = "result" /\ L[i].error
        BY <2>3, <4>1
      <4>3. QED
        BY <2>1, <4>1, <4>2
    <3>2. CASE i = n + 1
      BY <1>1, <2>3, <3>2, Zenon
    <3>3. QED
      BY <1>1, <3>1, <3>2
  <2>4. QED
    BY <2>2, <2>3
<1>4. IF Stated(L) = {} THEN v.final = <<>> ELSE v.final = L[Max(Stated(L))].message
  BY DEF Concludes
<1>5. CASE f.message = NoId
  <2>1. Stated(M) = Stated(L)
    BY <1>1, <1>5, <1>a, <1>b
  <2>2. ASSUME Stated(L) # {} PROVE M[Max(Stated(L))] = L[Max(Stated(L))]
    <3>1. Max(Stated(L)) \in Stated(L)
      BY <1>1, <1>2, <2>2, MaxIsGreatest
    <3>2. QED
      BY <1>1, <1>2, <3>1
  <2>3. IF Stated(M) = {} THEN w.final = <<>> ELSE w.final = M[Max(Stated(M))].message
    BY <1>4, <1>5, <2>1, <2>2
  <2>4. QED
    BY <1>3, <2>3 DEF Concludes, M
<1>6. CASE f.message # NoId
  <2>1. Stated(M) = Stated(L) \cup {n + 1}
    BY <1>1, <1>6, <1>a, <1>b
  <2>2. Max(Stated(M)) = n + 1
    <3>1. Stated(M) \subseteq Nat /\ n + 1 \in Stated(M) /\ \A j \in Stated(M) : j <= n + 1
      BY <1>1, <1>2, <2>1
    <3>2. QED
      BY <3>1, MaxIs
  <2>3. IF Stated(M) = {} THEN w.final = <<>> ELSE w.final = M[Max(Stated(M))].message
    BY <1>1, <1>6, <2>1, <2>2
  <2>4. QED
    BY <1>3, <2>3 DEF Concludes, M
<1>7. QED
  BY <1>5, <1>6

LEMMA OngoingStill ==
    ASSUME NEW L \in Seq(Frames), Ongoing(L), NEW f \in Frames,
           f.type # "completion", f.type = "update" => ~f.refused
    PROVE  Ongoing(Append(L, f))
<1> DEFINE M == Append(L, f)
           n == Len(L)
<1>1. /\ n \in Nat /\ DOMAIN L = 1..n /\ DOMAIN M = 1..n + 1 /\ M[n + 1] = f
      /\ \A i \in 1..n : M[i] = L[i]
  BY LogAppend
<1> HIDE DEF M, n
<1>2. Ongoing(M)
  BY <1>1 DEF Ongoing
<1>3. QED
  BY <1>2 DEF M

LEMMA NothingIsHeard ==
    ASSUME NEW v, v.answers = NewAnswerStream, v.streamed = <<>>, v.reported = <<>>
    PROVE  Hears(<<>>, v)
<1> DEFINE L == <<>>
<1>1. DOMAIN L = {} /\ Len(L) = 0 /\ 1..0 = {}
  OBVIOUS
<1> HIDE DEF L
<1>2. Updates(L) = {}
  BY <1>1 DEF Updates
<1>3. Told(L) = {}
  BY <1>1 DEF Told
<1>4. AimOf(L) = Implicit
  BY <1>2 DEF AimOf, Aim, CursorMoves
<1>5. CompletedID(L) = NoId
  BY <1>2 DEF CompletedID, Completing
<1>6. LatestID(L) = NoId
  BY <1>2 DEF LatestID, Telling
<1>7. TextsOf(L) = [id \in Streams |-> <<>>]
  <2>1. ASSUME NEW id PROVE TextOf(L, id) = <<>>
    <3>1. L \in Seq(Frames)
      BY EmptySeq DEF L
    <3>2. Answer(L, id)[0] = <<>>
      BY <3>1, AnswerIs DEF Telltale
    <3>3. QED
      BY <1>1, <3>2 DEF TextOf
  <2>2. QED
    BY <2>1 DEF TextsOf
<1>8. Follows(L, NewAnswerStream)
  BY <1>3, <1>4, <1>5, <1>6, <1>7, NothingIsMirrored DEF Follows
<1>9. Gives(<<>>, NewAnswerStream)
  <2>1. \A id : Given(<<>>, id) = <<>>
    BY NothingGiven
  <2>2. \A id : Track(NewAnswerStream, id).delivered = <<>>
    BY DEF Track, NewAnswerStream, EmptyTrack
  <2>3. <<>> \in Seq(Pieces) /\ <<>> \in Text
    BY EmptySeq DEF Text
  <2>4. QED
    BY <2>1, <2>2, <2>3 DEF Gives
<1>10. QED
  BY <1>8, <1>9, NoCallsYet DEF Hears, L

-----------------------------------------------------------------------------
(* What the summary says of the answer.                                      *)

LEMMA GivenTextIsText ==
    ASSUME NEW L \in Seq(Frames), NEW v, Follows(L, v.answers), Gives(v.streamed, v.answers)
    PROVE  v.streamed # <<>> => AnswerText(v) # <<>>
<1> SUFFICES ASSUME v.streamed # <<>> PROVE AnswerText(v) # <<>>
  OBVIOUS
<1>1. DOMAIN v.answers.tracks # {}
  BY DEF Gives
<1>2. DOMAIN v.answers.tracks = Told(L)
  BY DEF Follows, Mirrors, AnswerStreams
<1>3. BestText(v.answers) # <<>>
  BY <1>1, <1>2, TheChosenAnswer
<1>4. QED
  BY <1>3 DEF AnswerText

LEMMA TextOfTheChosen ==
    ASSUME NEW L \in Seq(Frames), NEW v, Follows(L, v.answers), v.final = <<>>,
           NEW id \in ChosenAnswers(L), ~Rewritten(L, id) \/ \A i \in DOMAIN L : ~WritesTo(L, i, id)
    PROVE  AnswerText(v) = Answer(L, id)[Len(L)]
<1> DEFINE a == v.answers
<1>1. /\ BestID(a) \in Told(L) /\ ChosenAnswers(L) = {BestID(a)}
      /\ BestText(a) = a.tracks[BestID(a)].authoritative /\ BestText(a) # <<>>
  BY TheChosenAnswer
<1>2. AnswerText(v) = BestText(a)
  BY <1>1 DEF AnswerText
<1>3. id = BestID(a) /\ id \in Told(L) /\ id \in Streams
  BY <1>1 DEF Told
<1>4. /\ id \notin RewrittenIn(L) => a.tracks[id].authoritative = TextsOf(L)[id]
      /\ id \notin Written(L) => a.tracks[id].authoritative = TextsOf(L)[id]
  BY <1>3 DEF Follows, Mirrors, Texts
<1>5. id \notin RewrittenIn(L) \/ id \notin Written(L)
  BY DEF RewrittenIn, Written
<1>6. TextsOf(L)[id] = Answer(L, id)[Len(L)]
  BY <1>3 DEF TextsOf, TextOf
<1>7. QED
  BY <1>1, <1>2, <1>3, <1>4, <1>5, <1>6

-----------------------------------------------------------------------------
(* The record of the call, and what it returns by it.                        *)

Recorded ==
    /\ "text" \in DOMAIN call
    /\ Keeps(log, view)
    /\ call.outcome # "caller" => Hears(log, view)
    /\ call.outcome = "none" => Concludes(log, view) /\ Ongoing(log)

RInv == Recorded /\ OutcomesAreEarned

LEMMA TextReturns ==
    ASSUME NEW outcome, NEW text, Returns(outcome, text)
    PROVE  "text" \in DOMAIN call' /\ call'.text = text /\ call'.outcome = outcome
BY DEF Returns

LEMMA TextStays ==
    ASSUME {"pc", "outcome", "text"} \subseteq DOMAIN call,
           (\E pc : Goes(pc)) \/ NextPart \/ \E n : call' = [call EXCEPT !.pc = "parts", !.parts = n]
    PROVE  "text" \in DOMAIN call' /\ call'.text = call.text /\ call'.outcome = call.outcome
<1>1. CASE \E pc : Goes(pc)
  BY <1>1 DEF Goes
<1>2. CASE NextPart
  BY <1>2 DEF NextPart
<1>3. CASE \E n : call' = [call EXCEPT !.pc = "parts", !.parts = n]
  BY <1>3
<1>4. QED
  BY <1>1, <1>2, <1>3

\* The call goes on, or goes on returning.
LEMMA RecordStays ==
    ASSUME RInv, UNCHANGED <<view, log>>, "text" \in DOMAIN call',
           call'.outcome = call.outcome, call'.text = call.text
    PROVE  RInv'
<1>1. Recorded'
  BY DEF RInv, Recorded
<1>2. ResultIsTheAuthority'
  BY DEF RInv, OutcomesAreEarned, ResultIsTheAuthority
<1>3. VisibleTextIsNotLost'
  BY DEF RInv, OutcomesAreEarned, VisibleTextIsNotLost
<1>4. QED
  BY <1>1, <1>2, <1>3 DEF RInv, OutcomesAreEarned

\* It gives up between two frames, with the text it has if it was cut off.
LEMMA RecordReturned ==
    ASSUME RInv, call.outcome = "none", UNCHANGED <<view, log>>, "text" \in DOMAIN call',
           call'.outcome \notin {"none", "answer", "quota", "empty"},
           call'.outcome \in {"read", "keepalive", "closed", "deadline"}
               => call'.text = AnswerText(view)
    PROVE  RInv'
<1>1. log \in Seq(Frames) /\ Hears(log, view)
  BY DEF RInv, Recorded, Keeps
<1>2. view.streamed # <<>> => AnswerText(view) # <<>>
  BY <1>1, GivenTextIsText DEF Hears
<1>3. Recorded'
  BY DEF RInv, Recorded
<1>4. ResultIsTheAuthority'
  BY DEF ResultIsTheAuthority
<1>5. VisibleTextIsNotLost'
  BY <1>2 DEF VisibleTextIsNotLost
<1>6. QED
  BY <1>3, <1>4, <1>5 DEF RInv, OutcomesAreEarned

\* A frame is handled and the call goes on.
LEMMA FrameGoesOn ==
    ASSUME Keeps(log', view'), Hears(log', view'), Concludes(log', view'), Ongoing(log'),
           "text" \in DOMAIN call', call'.outcome = "none"
    PROVE  RInv'
<1>1. Recorded'
  BY DEF Recorded
<1>2. ResultIsTheAuthority'
  BY DEF ResultIsTheAuthority
<1>3. VisibleTextIsNotLost'
  BY DEF VisibleTextIsNotLost
<1>4. QED
  BY <1>1, <1>2, <1>3 DEF RInv, OutcomesAreEarned

\* A frame is handled and ends the call without an answer.
LEMMA FrameEnds ==
    ASSUME Keeps(log', view'), call'.outcome # "caller" => Hears(log', view'),
           "text" \in DOMAIN call', call'.outcome \notin {"none", "answer"},
           call'.outcome \in {"read", "keepalive", "closed", "deadline"} /\ view'.streamed # <<>>
               => call'.text # <<>>,
           call'.outcome \in {"quota", "empty"} => view'.streamed = <<>>
    PROVE  RInv'
<1>1. Recorded'
  BY DEF Recorded
<1>2. ResultIsTheAuthority'
  BY DEF ResultIsTheAuthority
<1>3. VisibleTextIsNotLost'
  BY DEF VisibleTextIsNotLost
<1>4. QED
  BY <1>1, <1>2, <1>3 DEF RInv, OutcomesAreEarned

-----------------------------------------------------------------------------
(* The handlers.                                                             *)

\* Where every handler starts.
LEMMA HandlersStart ==
    ASSUME IInv, RInv, NEW f \in Frames, NEW type, Handles(f, type), NEW w, w = Retain(view, f)
    PROVE  /\ f.type = type /\ log' = Append(log, f) /\ call.outcome = "none"
           /\ {"pc", "outcome", "text"} \subseteq DOMAIN call
           /\ log \in Seq(Frames) /\ Hears(log, view) /\ Concludes(log, view) /\ Ongoing(log)
           /\ Keeps(log', w)
           /\ w.answers = view.answers /\ w.streamed = view.streamed /\ w.final = view.final
           /\ w.resultError = view.resultError /\ w.reported = view.reported
<1>1. call.pc = "parts" /\ f.type = type /\ log' = Append(log, f)
  BY DEF Handles
<1>2. call.outcome = "none"
  BY <1>1 DEF IInv, Blame, Returning, Ended
<1>3. {"pc", "outcome", "text"} \subseteq DOMAIN call
  BY DEF IInv, Shape, RInv, Recorded
<1>4. Keeps(log, view) /\ Hears(log, view) /\ Concludes(log, view) /\ Ongoing(log)
  BY <1>2 DEF RInv, Recorded
<1>5. log \in Seq(Frames)
  BY <1>4 DEF Keeps
<1>6. /\ Keeps(Append(log, f), w)
      /\ w.answers = view.answers /\ w.streamed = view.streamed /\ w.final = view.final
      /\ w.resultError = view.resultError /\ w.reported = view.reported
  BY <1>4, FramesAreKept
<1>7. QED
  BY <1>1, <1>2, <1>3, <1>4, <1>5, <1>6

LEMMA GarbageIsRecorded == ASSUME IInv, RInv, NEW f \in Frames, HandleGarbage(f) PROVE RInv'
<1>1. Handles(f, "garbage") /\ Returns("protocol", <<>>) /\ view' = Retain(view, f)
  BY DEF HandleGarbage
<1>2. /\ f.type = "garbage" /\ log' = Append(log, f) /\ log \in Seq(Frames) /\ Hears(log, view)
      /\ Keeps(log', view') /\ view'.answers = view.answers
      /\ view'.streamed = view.streamed /\ view'.reported = view.reported
  BY <1>1, HandlersStart
<1>3. Hears(log', view')
  BY <1>2, OtherFramesAreHeard
<1>4. "text" \in DOMAIN call' /\ call'.outcome = "protocol"
  BY <1>1, TextReturns
<1>5. QED
  BY <1>2, <1>3, <1>4, FrameEnds

LEMMA PingIsRecorded == ASSUME IInv, RInv, NEW f \in Frames, HandlePing(f) PROVE RInv'
<1>1. /\ Handles(f, "ping") /\ view' = Retain(view, f)
      /\ NextPart \/ Returns("ping reply", <<>>)
  BY DEF HandlePing
<1>2. /\ f.type = "ping" /\ log' = Append(log, f) /\ call.outcome = "none"
      /\ {"pc", "outcome", "text"} \subseteq DOMAIN call
      /\ log \in Seq(Frames) /\ Hears(log, view) /\ Concludes(log, view) /\ Ongoing(log)
      /\ Keeps(log', view') /\ view'.answers = view.answers
      /\ view'.streamed = view.streamed /\ view'.reported = view.reported
      /\ view'.final = view.final /\ view'.resultError = view.resultError
  BY <1>1, HandlersStart, ZenonT(60)
<1>3. Hears(log', view')
  BY <1>2, OtherFramesAreHeard
<1>4. CASE NextPart
  <2>1. "text" \in DOMAIN call' /\ call'.outcome = "none"
    BY <1>2, <1>4, TextStays
  <2>2. Concludes(log', view')
    BY <1>2, NothingIsConcluded
  <2>3. Ongoing(log')
    BY <1>2, OngoingStill
  <2>4. QED
    BY <1>2, <1>3, <2>1, <2>2, <2>3, FrameGoesOn
<1>5. CASE Returns("ping reply", <<>>)
  <2>1. "text" \in DOMAIN call' /\ call'.outcome = "ping reply"
    BY <1>5, TextReturns
  <2>2. QED
    BY <1>2, <1>3, <2>1, FrameEnds
<1>6. QED
  BY <1>1, <1>4, <1>5

LEMMA ResultIsRecorded == ASSUME IInv, RInv, NEW f \in Frames, HandleResult(f) PROVE RInv'
<1> DEFINE kept == Retain(view, f)
<1>1. Handles(f, "result") /\ view' = AfterResult(kept, f) /\ NextPart
  BY DEF HandleResult
<1>2. /\ f.type = "result" /\ log' = Append(log, f) /\ call.outcome = "none"
      /\ {"pc", "outcome", "text"} \subseteq DOMAIN call
      /\ log \in Seq(Frames) /\ Hears(log, view) /\ Concludes(log, view) /\ Ongoing(log)
      /\ Keeps(log', kept) /\ kept.answers = view.answers
      /\ kept.streamed = view.streamed /\ kept.reported = view.reported
      /\ kept.final = view.final /\ kept.resultError = view.resultError
  BY <1>1, HandlersStart
<1> HIDE DEF kept
<1>3. /\ Fields \subseteq DOMAIN view'
      /\ view'.answers = kept.answers /\ view'.streamed = kept.streamed
      /\ view'.reported = kept.reported
      /\ view'.events = kept.events /\ view'.truncated = kept.truncated
      /\ view'.final = (IF f.message = NoId THEN kept.final ELSE f.message)
      /\ view'.resultError = (kept.resultError \/ f.error)
  <2>1. Fields \subseteq DOMAIN kept
    BY <1>2 DEF Keeps
  <2>2. QED
    BY <1>1, <2>1, ResultIs
<1>4. Keeps(log', view')
  BY <1>2, <1>3 DEF Keeps
<1>5. Hears(log', view')
  BY <1>2, <1>3, OtherFramesAreHeard
<1>6. Concludes(log', view')
  BY <1>2, <1>3, ResultsConclude
<1>7. Ongoing(log')
  BY <1>2, OngoingStill
<1>8. "text" \in DOMAIN call' /\ call'.outcome = "none"
  BY <1>1, <1>2, TextStays
<1>9. QED
  BY <1>4, <1>5, <1>6, <1>7, <1>8, FrameGoesOn

LEMMA CloseIsRecorded == ASSUME IInv, RInv, NEW f \in Frames, HandleClose(f) PROVE RInv'
<1>1. Handles(f, "close") /\ view' = Retain(view, f) /\ Returns("closed", AnswerText(view))
  BY DEF HandleClose
<1>2. /\ f.type = "close" /\ log' = Append(log, f) /\ log \in Seq(Frames) /\ Hears(log, view)
      /\ Keeps(log', view') /\ view'.answers = view.answers
      /\ view'.streamed = view.streamed /\ view'.reported = view.reported
  BY <1>1, HandlersStart
<1>3. Hears(log', view')
  BY <1>2, OtherFramesAreHeard
<1>4. "text" \in DOMAIN call' /\ call'.outcome = "closed" /\ call'.text = AnswerText(view)
  BY <1>1, TextReturns
<1>5. view'.streamed # <<>> => call'.text # <<>>
  BY <1>2, <1>4, GivenTextIsText DEF Hears
<1>6. QED
  BY <1>2, <1>3, <1>4, <1>5, FrameEnds

LEMMA UpdateIsRecorded == ASSUME IInv, RInv, NEW f \in Frames, HandleUpdate(f) PROVE RInv'
<1> DEFINE kept == Retain(view, f)
           next == AfterUpdate(kept, f)
<1>1. Handles(f, "update")
  BY DEF HandleUpdate
<1>2. \/ ~f.refused /\ view' = next /\ NextPart
      \/ f.refused /\ view' = [kept EXCEPT !.reported = next.reported] /\ Returns("refused", <<>>)
      \/ view' = kept /\ Returns("caller", <<>>)
  BY DEF HandleUpdate
<1>3. /\ f.type = "update" /\ log' = Append(log, f) /\ call.outcome = "none"
      /\ {"pc", "outcome", "text"} \subseteq DOMAIN call
      /\ log \in Seq(Frames) /\ Hears(log, view) /\ Concludes(log, view) /\ Ongoing(log)
      /\ Keeps(log', kept) /\ kept.answers = view.answers
      /\ kept.streamed = view.streamed /\ kept.reported = view.reported
      /\ kept.final = view.final /\ kept.resultError = view.resultError
  BY <1>1, HandlersStart
<1>4. Hears(log, kept)
  BY <1>3 DEF Hears
<1> HIDE DEF kept
<1>5. Fields \subseteq DOMAIN kept
  BY <1>3 DEF Keeps
<1>6. CASE ~f.refused /\ view' = next /\ NextPart
  <2>1. Answering(f)
    BY <1>3, <1>6 DEF Answering
  <2>2. /\ Fields \subseteq DOMAIN view'
        /\ view'.answers = AfterWrite(kept.answers, f)
        /\ view'.streamed = GivenWritten(kept.streamed, kept.answers, f)
        /\ view'.reported = kept.reported \o Reports(kept, f)
        /\ view'.final = kept.final /\ view'.resultError = kept.resultError
        /\ view'.events = kept.events /\ view'.truncated = kept.truncated
    BY <1>5, <1>6, <2>1, UpdatedIs
  <2>3. Keeps(log', view')
    BY <1>3, <2>2 DEF Keeps
  <2>4. Hears(log', view')
    BY <1>3, <1>4, <2>1, <2>2, UpdatesAreHeard
  <2>5. Concludes(log', view')
    <3>1. view'.final = view.final /\ view'.resultError = view.resultError /\ f.type # "result"
      BY <1>3, <2>2
    <3>2. QED
      BY <1>3, <3>1, NothingIsConcluded
  <2>6. Ongoing(log')
    BY <1>3, <1>6, OngoingStill
  <2>7. "text" \in DOMAIN call' /\ call'.outcome = "none"
    BY <1>3, <1>6, TextStays
  <2>8. QED
    BY <2>3, <2>4, <2>5, <2>6, <2>7, FrameGoesOn
<1>7. CASE f.refused /\ view' = [kept EXCEPT !.reported = next.reported] /\ Returns("refused", <<>>)
  <2>1. next.reported = kept.reported \o Reports(kept, f)
    BY <1>5, RefusedReports
  <2> HIDE DEF next
  <2>2. /\ Fields \subseteq DOMAIN view' /\ view'.reported = next.reported
        /\ view'.answers = kept.answers /\ view'.streamed = kept.streamed
        /\ view'.events = kept.events /\ view'.truncated = kept.truncated
    BY <1>5, <1>7 DEF Fields
  <2>3. Keeps(log', view')
    BY <1>3, <2>2 DEF Keeps
  <2>4. Hears(log', view')
    <3> DEFINE w == view'
    <3>1. /\ log \in Seq(Frames) /\ log' = Append(log, f) /\ f.type = "update" /\ f.refused
          /\ w.answers = kept.answers /\ w.streamed = kept.streamed
          /\ w.reported = kept.reported \o Reports(kept, f)
      BY <1>3, <1>7, <2>1, <2>2
    <3> HIDE DEF w
    <3>2. Hears(Append(log, f), w)
      BY <1>4, <3>1, RefusalsAreHeard, ZenonT(60)
    <3>3. QED
      BY <3>1, <3>2 DEF w
  <2>5. "text" \in DOMAIN call' /\ call'.outcome = "refused"
    BY <1>7, TextReturns
  <2>6. QED
    BY <2>3, <2>4, <2>5, FrameEnds
<1>8. CASE view' = kept /\ Returns("caller", <<>>)
  <2>1. "text" \in DOMAIN call' /\ call'.outcome = "caller"
    BY <1>8, TextReturns
  <2>2. Keeps(log', view')
    BY <1>3, <1>8
  <2>3. QED
    BY <2>1, <2>2, FrameEnds
<1>9. QED
  BY <1>2, <1>6, <1>7, <1>8

LEMMA CompletionIs ==
    ASSUME NEW v, NEW f
    PROVE  /\ CompletionOutcome(v, f) = "answer" => ~f.error /\ ~v.resultError /\ AnswerText(v) # <<>>
           /\ CompletionOutcome(v, f) \in {"quota", "empty"} => AnswerText(v) = <<>>
BY DEF CompletionOutcome

LEMMA CompletionIsRecorded == ASSUME IInv, RInv, NEW f \in Frames, HandleCompletion(f) PROVE RInv'
<1> DEFINE outcome == CompletionOutcome(view, f)
           n == Len(log)
<1>1. /\ Handles(f, "completion") /\ view' = Retain(view, f)
      /\ Returns(outcome, IF outcome = "answer" THEN AnswerText(view) ELSE <<>>)
  BY DEF HandleCompletion
<1>2. /\ f.type = "completion" /\ log' = Append(log, f) /\ call.outcome = "none"
      /\ log \in Seq(Frames) /\ Hears(log, view) /\ Concludes(log, view) /\ Ongoing(log)
      /\ Keeps(log', view') /\ view'.answers = view.answers
      /\ view'.streamed = view.streamed /\ view'.reported = view.reported
      /\ view'.final = view.final /\ view'.resultError = view.resultError
  BY <1>1, HandlersStart
<1>3. Hears(log', view')
  BY <1>2, OtherFramesAreHeard
<1>4. /\ "text" \in DOMAIN call' /\ call'.outcome = outcome
      /\ outcome = "answer" => call'.text = AnswerText(view)
  BY <1>1, TextReturns
<1>5. outcome \in {"quota", "upstream", "empty", "answer"}
  BY CompletionOutcomes
<1>6. /\ outcome = "answer" => ~f.error /\ ~view.resultError /\ AnswerText(view) # <<>>
      /\ outcome \in {"quota", "empty"} => AnswerText(view) = <<>>
  BY CompletionIs
<1> HIDE DEF outcome
<1>7. CASE outcome # "answer"
  <2>1. outcome \in {"quota", "empty"} => view'.streamed = <<>>
    BY <1>2, <1>6, GivenTextIsText DEF Hears
  <2>2. QED
    BY <1>2, <1>3, <1>4, <1>5, <1>7, <2>1, FrameEnds
<1>8. CASE outcome = "answer"
  <2>1. /\ n \in Nat /\ DOMAIN log = 1..n /\ Len(log') = n + 1 /\ DOMAIN log' = 1..n + 1
        /\ log'[n + 1] = f /\ \A i \in 1..n : log'[i] = log[i]
        /\ log' \in Seq(Frames)
    BY <1>2, LogAppend
  <2>2. \A i \in DOMAIN log' : log'[i].type \in {"result", "completion"} => ~log'[i].error
    <3>1. ASSUME NEW i \in 1..n, log[i].type \in {"result", "completion"} PROVE ~log[i].error
      <4>1. log[i].type # "completion"
        BY <1>2, <2>1 DEF Ongoing
      <4>2. log[i].type = "result" /\ log[i].error => view.resultError
        BY <1>2, <2>1 DEF Concludes
      <4>3. QED
        BY <1>6, <1>8, <3>1, <4>1, <4>2
    <3>2. QED
      BY <1>6, <1>8, <2>1, <3>1
  <2>3. \A i \in DOMAIN log' : log'[i].type = "update" => ~log'[i].refused
    BY <1>2, <2>1 DEF Ongoing
  <2>4. Concludes(log', view')
    BY <1>2, NothingIsConcluded, SMTT(30)
  <2> DEFINE stated == Stated(log')
  <2>5. CASE stated # {} /\ log'[Max(stated)].message # <<>>
    <3>1. view.final = log'[Max(stated)].message
      BY <1>2, <2>4, <2>5 DEF Concludes
    <3>2. call'.text = view.final
      BY <1>4, <1>8, <2>5, <3>1, SMTT(30) DEF AnswerText
    <3>3. QED
      BY <1>2, <1>3, <1>4, <1>8, <2>1, <2>2, <2>3, <2>5, <3>1, <3>2, ZenonT(60)
         DEF RInv, Recorded, OutcomesAreEarned, ResultIsTheAuthority, VisibleTextIsNotLost, Stated
  <2>6. CASE ~(stated # {} /\ log'[Max(stated)].message # <<>>)
    <3>1. view'.final = <<>>
      BY <2>4, <2>6 DEF Concludes
    <3>2. AnswerText(view') = AnswerText(view)
      BY <1>2 DEF AnswerText
    <3>3. Follows(log', view'.answers)
      BY <1>3 DEF Hears
    <3>4. ASSUME NEW id \in ChosenAnswers(log'),
                 ~Rewritten(log', id) \/ (\A i \in DOMAIN log' : ~WritesTo(log', i, id))
          PROVE  call'.text = Answer(log', id)[Len(log')]
      BY <1>4, <1>8, <2>1, <3>1, <3>2, <3>3, <3>4, TextOfTheChosen
    <3>5. QED
      BY <1>2, <1>3, <1>4, <1>8, <2>1, <2>2, <2>3, <2>6, <3>4
         DEF RInv, Recorded, OutcomesAreEarned, ResultIsTheAuthority, VisibleTextIsNotLost, Stated
  <2>7. QED
    BY <2>5, <2>6
<1>9. QED
  BY <1>7, <1>8

-----------------------------------------------------------------------------
(* The invariant of the record, step by step.                                *)

LEMMA RecordAtInit == Init => RInv
<1> SUFFICES ASSUME Init PROVE RInv
  OBVIOUS
<1>1. log = <<>> /\ "text" \in DOMAIN call /\ call.outcome = "none" /\ view = EmptyView
  BY DEF Init
<1>2. /\ Fields \subseteq DOMAIN view /\ view.answers = NewAnswerStream /\ view.streamed = <<>>
      /\ view.reported = <<>> /\ view.events = <<>> /\ view.truncated = FALSE
      /\ view.final = <<>> /\ view.resultError = FALSE
  BY <1>1 DEF EmptyView, Fields
<1>3. <<>> \in Seq(Frames) /\ DOMAIN <<>> = {}
  BY EmptySeq
<1>4. Keeps(log, view)
  BY <1>1, <1>2, <1>3, NothingIsKept DEF Keeps
<1>5. Hears(log, view)
  BY <1>1, <1>2, NothingIsHeard
<1>6. Concludes(log, view) /\ Ongoing(log)
  BY <1>1, <1>2, <1>3 DEF Concludes, Ongoing, Stated
<1>7. OutcomesAreEarned
  BY <1>1 DEF OutcomesAreEarned, ResultIsTheAuthority, VisibleTextIsNotLost
<1>8. QED
  BY <1>1, <1>4, <1>5, <1>6, <1>7 DEF RInv, Recorded

LEMMA RecordIsKept == IInv /\ RInv /\ [Next]_vars => RInv'
<1> SUFFICES ASSUME IInv, RInv, [Next]_vars PROVE RInv'
  OBVIOUS
<1>0. {"pc", "outcome", "text"} \subseteq DOMAIN call
  BY DEF IInv, Shape, RInv, Recorded
<1>a. call.pc \notin Returning => call.outcome = "none"
  BY DEF IInv, Blame, Ended
<1>1. CASE \E f \in Frames : \/ HandleGarbage(f) \/ HandlePing(f) \/ HandleUpdate(f)
                            \/ HandleResult(f) \/ HandleCompletion(f) \/ HandleClose(f)
  BY <1>1, GarbageIsRecorded, PingIsRecorded, UpdateIsRecorded, ResultIsRecorded,
     CompletionIsRecorded, CloseIsRecorded, Zenon
<1>2. CASE \/ WatcherStep \/ PingerStep \/ ContextEnds \/ ConnectionBreaks \/ DeadlinePasses
           \/ UNCHANGED vars
  <2>1. UNCHANGED <<view, log, call>>
    BY <1>2 DEF WatcherStep, WatcherStarts, WatcherSendsStop, WatcherHangsUp, PingerStep,
                PingerTicks, PingerReports, PingerStops, ContextEnds, ConnectionBreaks,
                DeadlinePasses, vars
  <2>2. QED
    BY <1>0, <2>1, RecordStays
<1>3. CASE DialSucceeds \/ StopPinger \/ StopWatcher \/ ReadMessage \/ ReadFails
  <2>1. UNCHANGED <<view, log>>
    BY <1>3 DEF DialSucceeds, StopPinger, StopWatcher, ReadMessage, ReadFails
  <2>2. (\E pc : Goes(pc)) \/ \E n : call' = [call EXCEPT !.pc = "parts", !.parts = n]
    BY <1>3, Zenon DEF DialSucceeds, StopPinger, StopWatcher, ReadMessage, ReadFails
  <2>3. "text" \in DOMAIN call' /\ call'.text = call.text /\ call'.outcome = call.outcome
    BY <1>0, <2>2, TextStays
  <2>4. QED
    BY <2>1, <2>3, RecordStays
<1>4. CASE \E outcome \in {"dial", "status", "rate limit"} : DialFails(outcome)
  <2>1. /\ call.outcome = "none" /\ UNCHANGED <<view, log>> /\ "text" \in DOMAIN call'
        /\ call'.outcome \in {"dial", "status", "rate limit"}
    BY <1>0, <1>4, <1>a DEF DialFails, Returning
  <2>2. QED
    BY <2>1, RecordReturned
<1>5. CASE SendHello \/ ReadGreeting \/ SendPayload
  <2>1. UNCHANGED <<view, log>> /\ call.outcome = "none"
    BY <1>5, <1>a DEF SendHello, ReadGreeting, SendPayload, Returning
  <2>2. (\E pc : Goes(pc)) \/ Returns("handshake", <<>>) \/ Returns("send", <<>>)
    BY <1>5, Zenon DEF SendHello, ReadGreeting, SendPayload
  <2>3. CASE \E pc : Goes(pc)
    <3>1. "text" \in DOMAIN call' /\ call'.text = call.text /\ call'.outcome = call.outcome
      BY <1>0, <2>3, TextStays
    <3>2. QED
      BY <2>1, <3>1, RecordStays
  <2>4. CASE Returns("handshake", <<>>) \/ Returns("send", <<>>)
    <3>1. "text" \in DOMAIN call' /\ call'.outcome \in {"handshake", "send"}
      BY <2>4, TextReturns
    <3>2. QED
      BY <2>1, <3>1, RecordReturned
  <2>5. QED
    BY <2>2, <2>3, <2>4
<1>6. CASE LoopStarts
  <2>1. UNCHANGED <<view, log>> /\ call.outcome = "none"
    BY <1>6, <1>a DEF LoopStarts, Returning
  <2>2. Goes("reading") \/ Returns("deadline", AnswerText(view)) \/ Returns("context", <<>>)
    BY <1>6 DEF LoopStarts
  <2>3. CASE Goes("reading")
    <3>1. "text" \in DOMAIN call' /\ call'.text = call.text /\ call'.outcome = call.outcome
      BY <1>0, <2>3, TextStays
    <3>2. QED
      BY <2>1, <3>1, RecordStays
  <2>4. CASE Returns("deadline", AnswerText(view)) \/ Returns("context", <<>>)
    <3>1. /\ "text" \in DOMAIN call' /\ call'.outcome \in {"deadline", "context"}
          /\ call'.outcome = "deadline" => call'.text = AnswerText(view)
      BY <2>4, TextReturns
    <3>2. QED
      BY <2>1, <3>1, RecordReturned
  <2>5. QED
    BY <2>2, <2>3, <2>4
<1>7. CASE ExplainFailure
  <2>1. UNCHANGED <<view, log>> /\ call.outcome = "none"
    BY <1>7, <1>a DEF ExplainFailure, Returning
  <2>2. \E outcome \in {"context", "keepalive", "read"} : Returns(outcome, AnswerText(view))
    BY <1>7 DEF ExplainFailure
  <2>3. /\ "text" \in DOMAIN call' /\ call'.outcome \in {"context", "keepalive", "read"}
        /\ call'.text = AnswerText(view)
    BY <2>2, TextReturns
  <2>4. QED
    BY <2>1, <2>3, RecordReturned
<1>q. QED
  BY <1>1, <1>2, <1>3, <1>4, <1>5, <1>6, <1>7 DEF Next, CallStep

LEMMA RecordHolds == Spec => []RInv
<1>1. Init /\ [][Next]_vars /\ []IInv => []RInv
  BY RecordAtInit, RecordIsKept, PTL
<1>q. QED
  BY <1>1, InvariantHolds, PTL DEF Spec

LEMMA RecordIsTold == ASSUME RInv PROVE CallerIsToldOnce
<1>1. log \in Seq(Frames) /\ KeptFrom(log, view.events, view.truncated)
  BY DEF RInv, Recorded, Keeps
<1>2. call.outcome # "caller" => Hears(log, view)
  BY DEF RInv, Recorded
<1>3. StreamAddsUp
  BY <1>1, <1>2, GivenIsTheAnswer DEF StreamAddsUp, Hears
<1>4. CallsAreReported
  <2>1. SUFFICES ASSUME call.outcome # "caller",
                        NEW c \in UNION {Calls(log[i]) : i \in UpdatesOf(log)},
                        NEW t, t = Cardinality({i \in DOMAIN view.reported : view.reported[i] = c})
                 PROVE  /\ t >= 1
                        /\ Unmentioned(log, c) => t = 1
    BY DEF CallsAreReported, UpdatesOf, Unmentioned
  <2>2. /\ view.reported \in Seq(CallNames)
        /\ \E k \in DOMAIN view.reported : view.reported[k] = c
        /\ Unmentioned(log, c) =>
              \A j, k \in DOMAIN view.reported :
                 view.reported[j] = c /\ view.reported[k] = c => j = k
    BY <1>2, <2>1 DEF Hears, CallsTold
  <2> DEFINE r == view.reported
  <2>3. /\ r \in Seq(CallNames) /\ \E k \in DOMAIN r : r[k] = c
        /\ t = Cardinality({i \in DOMAIN r : r[i] = c})
        /\ Unmentioned(log, c) => \A j, k \in DOMAIN r : r[j] = c /\ r[k] = c => j = k
    BY <2>1, <2>2
  <2> HIDE DEF r
  <2>4. QED
    BY <2>3, TimesTold, SMTT(30)
<1>5. KeptEventsAreTheNewest
  BY <1>1 DEF KeptFrom, KeptEventsAreTheNewest, Small, Age
<1>6. QED
  BY <1>3, <1>4, <1>5 DEF CallerIsToldOnce

\* The caller is given each visible answer once and whole as long as upstream does not take back
\* what it showed (answer_stream.go 42-118), hears of every call, once where it stands outside the
\* messages (stream_events.go 66-94), and keeps the newest events or word that some are missing
\* (client.go 675-690), whatever frames upstream sends and in whatever order.
THEOREM CallersAreToldOnce == Spec => []CallerIsToldOnce
BY RecordHolds, RecordIsTold, PTL

\* A call succeeds only by upstream's word and with the text upstream last stood by, and one that
\* is cut off hands back text whenever its caller has seen some (client.go 893-945).
THEOREM OutcomesHold == Spec => []OutcomesAreEarned
<1>1. RInv => OutcomesAreEarned
  BY DEF RInv
<1>q. QED
  BY <1>1, RecordHolds, PTL
=============================================================================
