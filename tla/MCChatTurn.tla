----------------------------- MODULE MCChatTurn -----------------------------
(* The requests ChatTurn is checked for: with and without a stream, tools and a limit. *)
EXTENDS ChatTurn

\* What a request without tools would say about them is left out, and combinations whose parts
\* are in another one: a limited answer of a stored thread, one after the router, and so on.
MCTurns ==
    {t \in Turn : /\ ~t.tools => t.choice = "auto" /\ ~t.rounds /\ ~t.evidence
                  /\ t.evidence => t.choice = "auto" /\ ~t.rounds /\ ~t.limited /\ t.stored = "none"
                  /\ t.choice = "required" => t.rounds
                  /\ t.rounds /\ t.choice = "auto" => ~t.limited /\ t.stored = "own"
                  /\ t.tools /\ ~t.rounds => t.stored = "none"
                  /\ t.limited => t.stored = "none"}

UnlimitedTurns == {t \in MCTurns : ~t.limited}
=============================================================================
