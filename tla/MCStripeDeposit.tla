--------------------------- MODULE MCStripeDeposit ---------------------------
(***************************************************************************)
(* Instances of StripeDeposit for TLC.                                     *)
(***************************************************************************)
EXTENDS StripeDeposit, TLC

CONSTANTS i1, i2, h1, h2

Symmetry == Permutations(Intents) \cup Permutations(Handlers)
=============================================================================
