----------------------------- MODULE AccountBook -----------------------------
(***************************************************************************)
(* What SudoSOS promises of balances, without tables or a cache: every     *)
(* user has a true balance and a shown one.  The shown balance never moves *)
(* by itself: in every step it follows the money, or misses it, or catches *)
(* up with the truth.                                                      *)
(***************************************************************************)
EXTENDS Integers

CONSTANT Users

VARIABLES
  truth,     \* the sum of all movements of a user
  shown,     \* what the application reads
  lagging    \* the users who missed a movement and have not caught up

vars == <<truth, shown, lagging>>

Init ==
  /\ truth = [u \in Users |-> 0]
  /\ shown = truth
  /\ lagging = {}

(***************************************************************************)
(* The shown balance moves by as much as the true one, if at all: whoever  *)
(* was right stays right, and the error of a lagging user stays the same.  *)
(***************************************************************************)
Follows(u) ==
  /\ shown'[u] - shown[u] = truth'[u] - truth[u]
  /\ u \in lagging' <=> u \in lagging

(***************************************************************************)
(* Money moves and the shown balance stays: the user lags.                 *)
(***************************************************************************)
Misses(u) == shown'[u] = shown[u] /\ u \in lagging'

CatchesUp(u) == shown'[u] = truth'[u] /\ u \notin lagging'

Next == \A u \in Users : Follows(u) \/ Misses(u) \/ CatchesUp(u)

Spec == Init /\ [][Next]_vars
=============================================================================
