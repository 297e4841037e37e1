---------------------------- MODULE MCChatHubCall ----------------------------
(* A small upstream for ChatHubCall: two answers, one internal card, one call. *)
EXTENDS ChatHubCall

CONSTANTS m1, m2, card

MCIds == {m1, m2, card}

Message(kind, id, text, completed, c) ==
    [kind |-> kind, id |-> id, text |-> text, completed |-> completed, call |-> c]

Update(messages, cursor, write) ==
    [type |-> "update", size |-> 1, cursor |-> cursor, messages |-> messages, write |-> write,
     last |-> FALSE, refused |-> FALSE, throttling |-> "none", calls |-> {}]

Result(message, error) ==
    [type |-> "result", size |-> 1, throttling |-> "none", message |-> message, error |-> error]

Other(type) == [type |-> type, size |-> 1]

Completion(error) == [type |-> "completion", size |-> 1, error |-> error]

\* Snapshots that grow, a second answer beside a progress card, an anonymous answer, a rewrite.
Snapshots ==
    {Update(<<Message("answer", m1, <<"a">>, FALSE, "none")>>, NoId, <<>>),
     Update(<<Message("answer", m1, <<"a", "b">>, FALSE, "none")>>, NoId, <<"b">>),
     [Update(<<Message("progress", m2, <<"p">>, FALSE, "search"),
               Message("answer", m2, <<"c">>, TRUE, "none")>>, NoId, <<>>) EXCEPT !.size = 2],
     [Update(<<Message("answer", m1, <<"d">>, FALSE, "none")>>, m1, <<>>) EXCEPT !.last = TRUE]}

\* Deltas: at the current cursor, at a card.
Deltas ==
    {Update(<<>>, NoId, <<"b">>),
     [Update(<<>>, card, <<"x">>) EXCEPT !.calls = {"search"}]}

Refusal == [Update(<<>>, NoId, <<>>) EXCEPT !.refused = TRUE, !.calls = {"search"}]
Exhausted == [Result(NoId, FALSE) EXCEPT !.throttling = "out", !.size = 3]

MCFrames ==
    Snapshots \cup Deltas \cup {Refusal, Exhausted, Result(<<"r">>, FALSE), Result(NoId, TRUE)}
        \cup {Completion(FALSE), Completion(TRUE), Other("ping"), Other("close"), Other("garbage")}
=============================================================================
