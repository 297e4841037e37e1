---------------------------- MODULE AnswerStream ----------------------------
(***************************************************************************)
(* The answer texts of one ChatHub call (chathub/answer_stream.go). Upstream   *)
(* shows a message as a growing snapshot and writes deltas at a cursor; the    *)
(* stream keeps, for each message, what upstream holds it to be                *)
(* (authoritative) and what the caller has been given of it (delivered).       *)
(*                                                                         *)
(* A text is a sequence of characters; blank text is the empty sequence.       *)
(***************************************************************************)
EXTENDS SequencesExt

CONSTANTS NoId,       \* no message ID
          Implicit    \* the track of text that upstream gives no ID

EmptyTrack == [authoritative |-> <<>>, delivered |-> <<>>]

NewAnswerStream ==
    [tracks |-> <<>>, currentID |-> NoId, lastVisibleID |-> NoId, finalID |-> NoId,
     blockedCursor |-> FALSE]

TrackID(id) == IF id = NoId THEN Implicit ELSE id

Track(a, id) == IF id \in DOMAIN a.tracks THEN a.tracks[id] ELSE EmptyTrack

Advance(a, id, track) ==
    [a EXCEPT !.tracks = [x \in DOMAIN a.tracks \cup {id} |-> IF x = id THEN track ELSE a.tracks[x]],
              !.currentID = id, !.lastVisibleID = id]

\* Mutant: what the caller was given is not remembered.
SlipUnseenTail(a, id, text) == text

\* What of a snapshot can still be given: nothing once upstream has rewritten it.
UnseenTail(a, id, text) ==
    LET delivered == Track(a, id).delivered IN
    IF IsPrefix(delivered, text) THEN SubSeq(text, Len(delivered) + 1, Len(text)) ELSE <<>>

ObserveSnapshot(a, id, text, final) ==
    LET delivered == Track(a, id).delivered
        track == [authoritative |-> text,
                  delivered |-> IF IsPrefix(delivered, text) THEN text ELSE delivered]
    IN [Advance(a, id, track) EXCEPT !.finalID = IF final THEN id ELSE @,
                                     !.blockedCursor = FALSE]

\* A cursor at a message that was never shown is at an internal card.
SelectCursor(a, id) ==
    CASE id = NoId              -> a
      [] id \in DOMAIN a.tracks -> [a EXCEPT !.currentID = id, !.blockedCursor = FALSE]
      [] OTHER                  -> [a EXCEPT !.currentID = NoId, !.blockedCursor = TRUE]

Appends(a, delta) == delta # <<>> /\ ~a.blockedCursor

\* Mutant: the snapshot keeps winning over what was written after it.
SlipAppendAtCursor(a, delta) ==
    LET id == TrackID(a.currentID) IN
    Advance(a, id, [Track(a, id) EXCEPT !.delivered = @ \o delta])

AppendAtCursor(a, delta) ==
    LET id == TrackID(a.currentID)
        old == Track(a, id)
        delivered == old.delivered \o delta
    IN Advance(a, id, [delivered |-> delivered,
                       authoritative |-> IF IsPrefix(old.authoritative, delivered)
                                         THEN delivered ELSE old.authoritative])

\* The first of the three that is there: a track that is there has text (Texts, in the proofs).
BestID(a) ==
    CASE a.finalID \in DOMAIN a.tracks -> a.finalID
      [] a.finalID \notin DOMAIN a.tracks /\ a.lastVisibleID \in DOMAIN a.tracks -> a.lastVisibleID
      [] OTHER -> a.currentID

BestText(a) == Track(a, BestID(a)).authoritative

---------------------------------------------------------------------------
(* Which message of an update is the answer.                               *)

VisibleAnswerMessage(m) == m.kind = "answer" /\ m.text # <<>>

\* The message the cursor names; an anonymous one stands in while none was found.
\* Without a cursor the last visible one. 0 if there is none.
VisibleIndex(messages, cursor) ==
    LET visible == {i \in DOMAIN messages : VisibleAnswerMessage(messages[i])}
        named   == {i \in visible : messages[i].id = cursor}
        unnamed == {i \in visible : messages[i].id = NoId}
    IN CASE cursor = NoId -> Max(visible \cup {0})
         [] cursor # NoId /\ named # {} -> Max(named)
         [] OTHER -> Max(unnamed \cup {0})
=============================================================================
