------------------------- MODULE MCAccountRequests -------------------------
(***************************************************************************)
(* Small instances of AccountRequests for TLC.                             *)
(***************************************************************************)
EXTENDS AccountRequests

CONSTANTS a1, a2, a3, r1, r2

TwoAccounts == <<a1, a2>>
ThreeAccounts == <<a1, a2, a3>>

=============================================================================
