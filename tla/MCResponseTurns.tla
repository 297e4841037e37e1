--------------------------- MODULE MCResponseTurns ---------------------------
(* Small instances of ResponseTurns for TLC. *)
EXTENDS ResponseTurns, TLC

CONSTANTS t1, t2, t3, head, other, old, older, acc1, acc2

Said(text) == <<UserMessage(text), AssistantMessage(text, <<>>)>>

\* A thread whose head refers to its latest response.
Thread ==
    (head :> [AsChild(Record(acc1, head), old, [drop |-> 0, delta |-> <<>>]) EXCEPT !.rank = 1]) @@
    (old  :> [AsRoot(Record(acc1, head), Said("old")) EXCEPT !.alias = TRUE, !.rank = 1])

\* The same written by an older program: the response is a copy of the head.
LegacyCopy(rank) == [AsRoot(Record(acc1, NoKey), Said("old")) EXCEPT !.rank = rank]

LegacyThread == (head :> LegacyCopy(0)) @@ (old :> LegacyCopy(1))

\* The older program again, after a second turn has updated the head.
LegacyLongThread == (older :> LegacyCopy(0)) @@ (head :> LegacyCopy(1)) @@ (old :> LegacyCopy(2))

MCFiles == {<<>>, Thread, LegacyThread}

MCThread == {Thread}

MCLongFile == {LegacyLongThread}

TurnSymmetry == Permutations(Turns)
=============================================================================
