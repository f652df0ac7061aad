------------------------------- MODULE Payout -------------------------------
(***************************************************************************)
(* What a payout request promises, without statuses, transfers or          *)
(* handlers: it is decided once, and an approval takes, in the same step,  *)
(* an amount its user has.                                                 *)
(***************************************************************************)
EXTENDS Integers

CONSTANTS Users, Requests, MaxAmount, Balance

VARIABLES
  outcome,    \* what has become of each request
  balance     \* the money of each user

vars == <<outcome, balance>>

Init ==
  /\ outcome = [r \in Requests |-> "none"]
  /\ balance = [u \in Users |-> Balance]

Becomes(r, from, to) == outcome[r] = from /\ outcome' = [outcome EXCEPT ![r] = to]

Open(r) == Becomes(r, "none", "open") /\ UNCHANGED balance

Refuse(r) ==
  /\ Becomes(r, "open", "denied") \/ Becomes(r, "open", "cancelled")
  /\ UNCHANGED balance

Take(u, amount) == balance[u] >= amount /\ balance' = [balance EXCEPT ![u] = @ - amount]

Approve(r, u, amount) == Becomes(r, "open", "approved") /\ Take(u, amount)

Spend(u, amount) == Take(u, amount) /\ UNCHANGED outcome

Next ==
  \/ \E r \in Requests : Open(r) \/ Refuse(r)
  \/ \E u \in Users, amount \in 1 .. MaxAmount :
       Spend(u, amount) \/ \E r \in Requests : Approve(r, u, amount)

Spec == Init /\ [][Next]_vars
=============================================================================
