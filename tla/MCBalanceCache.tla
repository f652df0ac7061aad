--------------------------- MODULE MCBalanceCache ---------------------------
(***************************************************************************)
(* Instances of BalanceCache for TLC, and the parts of the system that the *)
(* runs on one kind of operation look at.                                  *)
(***************************************************************************)
EXTENDS BalanceCache, TLC

CONSTANTS alice, bob, h1, h2

Symmetry == Permutations(Users) \cup Permutations(Handlers)

(***************************************************************************)
(* Transfers dated by the clock, none of them a seller payout.             *)
(***************************************************************************)
Post == \E from, to \in Accounts, amount \in Amounts : PostTransfer(from, to, amount, now)

(***************************************************************************)
(* Only operations that clear the cache, each running to its end.          *)
(***************************************************************************)
ClearingNext ==
  Purchase \/ Post \/ Own \/ UpdateBalances \/ \E h \in Handlers : Step(h)

(***************************************************************************)
(* Updates of transactions, which may be cut short, and no deletions.      *)
(***************************************************************************)
UpdateNext ==
  \/ Purchase
  \/ \E h \in Handlers :
       \/ \E row \in transactions : BeginUpdateTransaction(h, row.id)
       \/ FindTransaction(h) \/ DeleteTransactionRow(h) \/ ClearBalanceCache(h)
       \/ \E from \in Users, pays \in Purchases : SaveTransaction(h, from, pays)
       \/ FailSaveTransaction(h) \/ ReloadTransaction(h) \/ Crash(h)

UpdateSpec == Init /\ [][UpdateNext]_vars
=============================================================================
