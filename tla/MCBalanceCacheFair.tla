------------------------- MODULE MCBalanceCacheFair -------------------------
(***************************************************************************)
(* The behaviours of BalanceCache with a syncing cron process, and next to *)
(* them, told apart by `mode`, the ones of the operations that clear the   *)
(* cache, each running to its end.                                         *)
(***************************************************************************)
EXTENDS MCBalanceCache

VARIABLE mode

FairInit == Init /\ mode \in {"all", "clearing"}

FairNext ==
  /\ \/ mode = "all" /\ Next
     \/ mode = "clearing" /\ ClearingNext
  /\ UNCHANGED mode

SyncingSpec == FairInit /\ [][FairNext]_<<vars, mode>> /\ WF_vars(UpdateBalances)

(***************************************************************************)
(* "The balance cache follows from" the event tables: with no handler in   *)
(* flight every user is shown their sum, as long as only operations run    *)
(* that clear the cache.                                                   *)
(***************************************************************************)
ClearingKeepsBalance == mode = "clearing" => BalanceAtRestIsLedger
=============================================================================
