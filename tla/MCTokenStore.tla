---------------------------- MODULE MCTokenStore ----------------------------
(***************************************************************************)
(* Small instances of TokenStore for TLC.                                  *)
(***************************************************************************)
EXTENDS TokenStore, TLC

CONSTANTS a1, a2, c1, c2, c3

(* Goroutines are interchangeable.                                         *)
Callers == Permutations(Caller)

=============================================================================
