-------------------------- MODULE MCSessionBinding --------------------------
(***************************************************************************)
(* Small instances of SessionBinding for TLC.                              *)
(***************************************************************************)
EXTENDS SessionBinding, TLC

CONSTANTS a1, a2, r1, r2, k1, k2

(* Accounts are interchangeable, and so are turns of one kind.              *)
Names ==
    Permutations(Account) \union Permutations(Agents) \union Permutations(Turn \ Agents)

=============================================================================
