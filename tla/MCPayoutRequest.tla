--------------------------- MODULE MCPayoutRequest ---------------------------
(***************************************************************************)
(* Instances of PayoutRequest for TLC.                                     *)
(***************************************************************************)
EXTENDS PayoutRequest, TLC

CONSTANTS alice, r1, r2, h1, h2

Symmetry == Permutations(Requests) \cup Permutations(Handlers)
=============================================================================
