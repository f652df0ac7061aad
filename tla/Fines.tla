------------------------------- MODULE Fines --------------------------------
(***************************************************************************)
(* Fines for debts (src/service/debtor-service.ts, the waiver of           *)
(* src/controller/user-controller.ts and the subscriber of transfers).     *)
(* A fine is a transfer out and a row in the group of the user's current   *)
(* fines; the group stays current until a transfer to the user brings the  *)
(* balance to zero.  Handing out is one database transaction, everything   *)
(* else a sequence of statements.  Balances are read through the cache,    *)
(* which the removal of a fine or a waiver does not clear.                 *)
(***************************************************************************)
EXTENDS Integers, Server
FineSets == INSTANCE FiniteSetsExt

CONSTANTS
  FineIds,                  \* bounds on the fines, groups of fines
  GroupIds, WaiverIds,      \* and waivers ever made: ids are not used again
  DebtPerFine, FineUnit,    \* a debt of 500 cents costs 100 cents
  MaxFine,                  \* and a fine is at most 500 cents
  Moves,                    \* the amounts of purchases and deposits
  MaxOwed, MaxOwned,        \* bounds on the balance
  Nightly                   \* whether the job that caches the balances runs

VARIABLES
  debt,           \* the balance of each user, as the transfers and purchases sum up
  balanceRow,     \* what of the user's row of `balance` makes that differ from what is read
  newest,         \* the newest transfer of each user
  currentFines,   \* per user, the id of the group its row names, or NoId
  fines,          \* per id, the fine with its group and amount
  fineTransfers,  \* the ids of the fines whose transfer exists
  groups,         \* per id, the group with its user and waivedTransfer
  waivers,        \* per id, the transfer of a waiver
  fineTask        \* the requests being handled

fineTables == <<debt, balanceRow, newest, currentFines, fines, fineTransfers, groups, waivers>>
finesVars  == <<debt, balanceRow, newest, currentFines, fines, fineTransfers, groups, waivers, fineTask>>

NoId == 0

\* The database counts its ids from one.
ASSUME FinesAssumption ==
  /\ FineIds \subseteq Nat \ {NoId} /\ IsFiniteSet(FineIds)
  /\ GroupIds \subseteq Nat \ {NoId} /\ WaiverIds \subseteq Nat \ {NoId}
  /\ DebtPerFine \in Nat \ {0} /\ FineUnit \in Nat \ {0} /\ MaxFine \in Nat
  /\ Moves \subseteq Nat /\ Nightly \in BOOLEAN

Unused == [is |-> "unused"]
Gone   == [is |-> "gone"]

Fine   == [group : GroupIds, amount : Nat]
Group  == [user : Users, waived : WaiverIds \cup {NoId}]
Waiver == [group : GroupIds, amount : Nat]

(***************************************************************************)
(* The transfers a row of `balance` counts, of those that may be removed   *)
(* here, the one it names last, and how far what is read is from the true  *)
(* balance.                                                                *)
(***************************************************************************)
Transfers == ({"fine"} \X FineIds) \cup ({"waiver"} \X WaiverIds)

OtherTransfer == <<"other", NoId>>

BalanceRow == [counted : SUBSET Transfers, last : Transfers \cup {OtherTransfer}, error : Int]

NoRow == [counted |-> {}, last |-> OtherTransfer, error |-> 0]

Exists(row) == row # Unused /\ row # Gone

NextId(rows, id) == rows[id] = Unused /\ \A i \in DOMAIN rows : i < id => rows[i] # Unused

RowsOf(ids, rows, g) == {i \in ids : Exists(rows[i]) /\ rows[i].group = g}

AmountOf(ids, rows, g) == FineSets!MapThenSumSet(LAMBDA i : rows[i].amount, RowsOf(ids, rows, g))

OfGroup(g) == RowsOf(FineIds, fines, g)

Fined(g) == AmountOf(FineIds, fines, g)

Waived(g) == AmountOf(WaiverIds, waivers, g)

FineAt(h, pc) == fineTask[h].pc = pc

FineGo(h, state) == fineTask' = [fineTask EXCEPT ![h] = state]

Pending == {"deposit.read", "deposit.commit"}

(***************************************************************************)
(* A deposit knows which deposits were inserted before it (older), whether *)
(* a newer transfer has been committed meanwhile (overtaken), and where it *)
(* goes on: nowhere, or to the rest of a waiver.                           *)
(***************************************************************************)
Deposit ==
  [pc : Pending, user : Users, amount : Nat, clears : BOOLEAN,
   older : SUBSET Handlers, overtaken : BOOLEAN, group : GroupIds \cup {NoId}, full : BOOLEAN]

FineTask ==
       {Idle} \cup Deposit
  \cup [pc : {"handout.load"}, user : Users, balance : Int]
  \cup [pc : {"handout.commit"}, user : Users, amount : Nat, group : GroupIds \cup {NoId}]
  \cup [pc : {"delete.fine", "delete.transfer", "delete.group", "delete.current"},
        fine : FineIds, group : GroupIds, user : Users, amount : Nat, count : Nat]
  \cup [pc : {"waive.remove", "waive.create", "waive.save", "waive.current"}, user : Users,
        group : GroupIds, amount : Nat, waiver : WaiverIds \cup {NoId}, full : BOOLEAN]

FinesTypeOK ==
  /\ debt \in [Users -> Int]
  /\ balanceRow \in [Users -> BalanceRow]
  /\ newest \in [Users -> Transfers \cup {OtherTransfer}]
  /\ currentFines \in [Users -> GroupIds \cup {NoId}]
  /\ fines \in [FineIds -> {Unused, Gone} \cup Fine]
  /\ fineTransfers \subseteq FineIds
  /\ groups \in [GroupIds -> {Unused, Gone} \cup Group]
  /\ waivers \in [WaiverIds -> {Unused, Gone} \cup Waiver]
  /\ fineTask \in [Handlers -> FineTask]

FinesInit ==
  /\ debt = [u \in Users |-> 0]
  /\ balanceRow = [u \in Users |-> NoRow]
  /\ newest = [u \in Users |-> OtherTransfer]
  /\ currentFines = [u \in Users |-> NoId]
  /\ fines = [f \in FineIds |-> Unused]
  /\ fineTransfers = {}
  /\ groups = [g \in GroupIds |-> Unused]
  /\ waivers = [w \in WaiverIds |-> Unused]
  /\ fineTask = [h \in Handlers |-> Idle]

AddTo(u, amount) == debt' = [debt EXCEPT ![u] = @ + amount]

\* BalanceService.getBalance: the row and what is newer than the row.
ShownBalance(u) == debt[u] + balanceRow[u].error

Booked == ({"fine"} \X fineTransfers) \cup ({"waiver"} \X {w \in WaiverIds : Exists(waivers[w])})

\* The newest transfer is kept where the job runs that reads it.
Dated(u, transfer) == newest' = IF Nightly THEN [newest EXCEPT ![u] = transfer] ELSE newest

(***************************************************************************)
(* manager.remove of a transfer, which moves the balance by an amount: a   *)
(* row that names it last goes with it, one that only counts it stays.     *)
(***************************************************************************)
Remove(transfer, u, amount) ==
  /\ AddTo(u, amount)
  /\ balanceRow' = [balanceRow EXCEPT ![u] =
       IF @.last = transfer THEN NoRow
       ELSE IF transfer \in @.counted
       THEN [@ EXCEPT !.counted = balanceRow[u].counted \ {transfer},
                      !.error = balanceRow[u].error - amount]
       ELSE @]
  /\ IF newest[u] # transfer THEN UNCHANGED newest
     ELSE \E before \in (Booked \ {transfer}) \cup {OtherTransfer} : Dated(u, before)

(***************************************************************************)
(* The nightly updateBalances, one statement that waits for rows that are  *)
(* inserted and not committed.                                             *)
(***************************************************************************)
UpdateBalances ==
  /\ Nightly
  /\ \A h \in Handlers : fineTask[h].pc \notin Pending
  /\ balanceRow' = [u \in Users |-> [counted |-> Booked, last |-> newest[u], error |-> 0]]
  /\ UNCHANGED <<debt, newest, currentFines, fines, fineTransfers, groups, waivers, fineTask>>
-----------------------------------------------------------------------------
(***************************************************************************)
(* A purchase takes money, whatever the fines.                             *)
(***************************************************************************)
Purchase(u, amount) ==
  /\ debt[u] - amount >= - MaxOwed
  /\ AddTo(u, - amount)
  /\ UNCHANGED <<balanceRow, newest, currentFines, fines, fineTransfers, groups, waivers, fineTask>>

(***************************************************************************)
(* A transfer to a user: the row is inserted, and before the insertion is  *)
(* committed the subscriber reads the user, then on another connection the *)
(* balance.  The new transfer is not in that balance; it is added when the *)
(* last transfer counted is older.  With nothing left to pay, the current  *)
(* fines are forgotten in the same database transaction.                   *)
(***************************************************************************)
Inserted(h, u, amount, group, full) ==
  FineGo(h, [pc |-> IF currentFines[u] = NoId THEN "deposit.commit" ELSE "deposit.read",
             user |-> u, amount |-> amount, clears |-> FALSE,
             older |-> {g \in Handlers : fineTask[g].pc \in Pending /\ fineTask[g].user = u},
             overtaken |-> FALSE, group |-> group, full |-> full])

InsertDeposit(h, u, amount) ==
  /\ FineAt(h, "idle")
  /\ debt[u] + amount <= MaxOwned
  /\ Inserted(h, u, amount, NoId, FALSE)
  /\ UNCHANGED fineTables

\* Mutant of ReadForFines: the new transfer is never added.
ReadForFines_Unadded(h) ==
  LET deposit == fineTask[h]
  IN  /\ FineAt(h, "deposit.read")
      /\ FineGo(h, [deposit EXCEPT !.pc = "deposit.commit", !.clears = ShownBalance(deposit.user) >= 0])
      /\ UNCHANGED fineTables

ReadForFines(h) ==
  LET deposit == fineTask[h]
      added   == IF deposit.overtaken THEN 0 ELSE deposit.amount
  IN  /\ FineAt(h, "deposit.read")
      /\ FineGo(h, [deposit EXCEPT !.pc = "deposit.commit",
                                   !.clears = ShownBalance(deposit.user) + added >= 0])
      /\ UNCHANGED fineTables

(***************************************************************************)
(* The tasks after h has committed a transfer and goes on with `next`:     *)
(* deposits inserted before that transfer are overtaken.                   *)
(***************************************************************************)
AfterCommit(h, next, overtaken) ==
  fineTask' = [g \in Handlers |->
                 IF g = h THEN next
                 ELSE IF g \in overtaken /\ fineTask[g].pc \in Pending
                      THEN [fineTask[g] EXCEPT !.overtaken = TRUE, !.older = @ \ {h}]
                 ELSE IF fineTask[g].pc \in Pending
                      THEN [fineTask[g] EXCEPT !.older = @ \ {h}]
                 ELSE fineTask[g]]

CommitDeposit(h, w) ==
  LET deposit == fineTask[h]
      u       == deposit.user
  IN  /\ FineAt(h, "deposit.commit")
      /\ NextId(waivers, w)
      /\ AddTo(u, deposit.amount)
      /\ Dated(u, IF deposit.group = NoId THEN OtherTransfer ELSE <<"waiver", w>>)
      /\ currentFines' = IF deposit.clears THEN [currentFines EXCEPT ![u] = NoId] ELSE currentFines
      /\ AfterCommit(h, IF deposit.group = NoId THEN Idle
                        ELSE [pc |-> "waive.save", user |-> u, group |-> deposit.group, waiver |-> w,
                              amount |-> deposit.amount, full |-> deposit.full],
                     deposit.older)
      /\ waivers' = IF deposit.group = NoId THEN waivers
                    ELSE [waivers EXCEPT ![w] = [group |-> deposit.group, amount |-> deposit.amount]]
      /\ UNCHANGED <<balanceRow, fines, fineTransfers, groups>>
-----------------------------------------------------------------------------
(***************************************************************************)
(* handOutFines: the balance is read first, as it was at the reference     *)
(* date of the request; in a database transaction the user is read with    *)
(* the current group, and the group, the transfer and the fine are written.*)
(***************************************************************************)
calculateFine(balance) ==
  LET fine == ((- balance) \div DebtPerFine) * FineUnit
  IN  IF fine < 0 THEN 0 ELSE IF fine > MaxFine THEN MaxFine ELSE fine

\* What a balance may have been at a date, also an early one, in steps that make a difference.
PastBalances == {- (n * DebtPerFine) : n \in 0 .. (MaxOwed \div DebtPerFine)}

BeginHandout(h, u, balance) ==
  /\ FineAt(h, "idle")
  /\ FineGo(h, [pc |-> "handout.load", user |-> u, balance |-> balance])
  /\ UNCHANGED fineTables

LoadFined(h) ==
  LET u == fineTask[h].user
  IN  /\ FineAt(h, "handout.load")
      /\ FineGo(h, [pc |-> "handout.commit", user |-> u, group |-> currentFines[u],
                    amount |-> calculateFine(fineTask[h].balance)])
      /\ UNCHANGED fineTables

FineGroup(u, g, amount) ==
  /\ groups' = [groups EXCEPT ![g] = [user |-> u, waived |-> NoId]]
  /\ currentFines' = IF amount > 0 THEN [currentFines EXCEPT ![u] = g] ELSE currentFines

CommitFine(h, f, g) ==
  LET handout == fineTask[h]
  IN  /\ FineAt(h, "handout.commit")
      /\ NextId(fines, f)
      /\ IF handout.group = NoId
         THEN NextId(groups, g) /\ FineGroup(handout.user, g, handout.amount)
         ELSE g = handout.group /\ Exists(groups[g]) /\ UNCHANGED <<groups, currentFines>>
      /\ debt[handout.user] - handout.amount >= - MaxOwed
      /\ AddTo(handout.user, - handout.amount)
      /\ Dated(handout.user, <<"fine", f>>)
      /\ fines' = [fines EXCEPT ![f] = [group |-> g, amount |-> handout.amount]]
      /\ fineTransfers' = fineTransfers \cup {f}
      /\ AfterCommit(h, Idle, {p \in Handlers : fineTask[p].pc \in Pending
                                                 /\ fineTask[p].user = handout.user})
      /\ UNCHANGED <<balanceRow, waivers>>
-----------------------------------------------------------------------------
(***************************************************************************)
(* deleteFine: the fine is loaded with its transfer and its group, and     *)
(* then the fine, the transfer and, after its last fine, the group go.     *)
(* The user's row forgets a group that goes (ON DELETE SET NULL).          *)
(***************************************************************************)
LoadFine(h, f) ==
  /\ FineAt(h, "idle")
  /\ Exists(fines[f])
  /\ LET g == fines[f].group
     IN  FineGo(h, [pc |-> "delete.fine", fine |-> f, group |-> g, user |-> groups[g].user,
                    amount |-> fines[f].amount, count |-> Cardinality(OfGroup(g))])
  /\ UNCHANGED fineTables

\* Mutant of RemoveFine: the transfer goes first.
RemoveFine_TransferFirst(h) ==
  LET delete == fineTask[h]
  IN  /\ FineAt(h, "delete.fine")
      /\ fineTransfers' = fineTransfers \ {delete.fine}
      /\ FineGo(h, [delete EXCEPT !.pc = "delete.transfer"])
      /\ UNCHANGED <<debt, balanceRow, newest, currentFines, fines, groups, waivers>>

RemoveFine(h) ==
  LET delete == fineTask[h]
  IN  /\ FineAt(h, "delete.fine")
      /\ fines' = [fines EXCEPT ![delete.fine] = Gone]
      /\ FineGo(h, [delete EXCEPT !.pc = "delete.transfer"])
      /\ UNCHANGED <<debt, balanceRow, newest, currentFines, fineTransfers, groups, waivers>>

RemoveTransfer(h) ==
  LET delete == fineTask[h]
  IN  /\ FineAt(h, "delete.transfer")
      /\ IF delete.fine \in fineTransfers
         THEN Remove(<<"fine", delete.fine>>, delete.user, delete.amount)
         ELSE UNCHANGED <<debt, balanceRow, newest>>
      /\ fineTransfers' = fineTransfers \ {delete.fine}
      /\ FineGo(h, [delete EXCEPT !.pc = "delete.group"])
      /\ UNCHANGED <<currentFines, fines, groups, waivers>>

(***************************************************************************)
(* The group goes if it had one fine when it was loaded; a fine that has   *)
(* joined it since makes the database refuse.                              *)
(***************************************************************************)
RemoveGroup(h) ==
  LET delete == fineTask[h]
      g      == delete.group
  IN  /\ FineAt(h, "delete.group")
      /\ IF delete.count > 1
         THEN FineGo(h, [delete EXCEPT !.pc = "delete.current"]) /\ UNCHANGED <<groups, currentFines>>
         ELSE /\ FineGo(h, Idle)
              /\ IF OfGroup(g) # {} THEN UNCHANGED <<groups, currentFines>>
                 ELSE /\ groups' = [groups EXCEPT ![g] = Gone]
                      /\ currentFines' = [u \in Users |-> IF currentFines[u] = g THEN NoId
                                                          ELSE currentFines[u]]
      /\ UNCHANGED <<debt, balanceRow, newest, fines, fineTransfers, waivers>>

ForgetFines(h) ==
  LET u == fineTask[h].user
  IN  /\ FineAt(h, "delete.current")
      /\ currentFines' = IF ShownBalance(u) < 0 THEN currentFines ELSE [currentFines EXCEPT ![u] = NoId]
      /\ FineGo(h, Idle)
      /\ UNCHANGED <<debt, balanceRow, newest, fines, fineTransfers, groups, waivers>>
-----------------------------------------------------------------------------
(***************************************************************************)
(* waiveFines: the transfer of an earlier waiver is removed, a new one     *)
(* made and linked to the group, and the user's row forgets a group that   *)
(* is waived entirely.                                                     *)
(***************************************************************************)
BeginWaive(h, u, amount) ==
  LET g == currentFines[u]
  IN  /\ FineAt(h, "idle")
      /\ g # NoId
      /\ amount <= Fined(g)
      /\ FineGo(h, [pc |-> IF groups[g].waived # NoId THEN "waive.remove" ELSE "waive.create",
                    user |-> u, group |-> g, amount |-> amount, waiver |-> groups[g].waived,
                    full |-> amount = Fined(g)])
      /\ UNCHANGED fineTables

\* Mutant of RemoveWaived: the group lets go of the transfer, which stays.
RemoveWaived_Unlinked(h) ==
  LET waive == fineTask[h]
  IN  /\ FineAt(h, "waive.remove")
      /\ groups' = [groups EXCEPT ![waive.group].waived = NoId]
      /\ FineGo(h, [waive EXCEPT !.pc = "waive.create"])
      /\ UNCHANGED <<debt, balanceRow, newest, currentFines, fines, fineTransfers, waivers>>

RemoveWaived(h) ==
  LET waive == fineTask[h]
      w     == waive.waiver
  IN  /\ FineAt(h, "waive.remove")
      /\ IF Exists(waivers[w])
         THEN /\ Remove(<<"waiver", w>>, waive.user, - waivers[w].amount)
              /\ waivers' = [waivers EXCEPT ![w] = Gone]
         ELSE UNCHANGED <<debt, balanceRow, newest, waivers>>
      /\ groups' = [g \in GroupIds |-> IF Exists(groups[g]) /\ groups[g].waived = w
                                       THEN [groups[g] EXCEPT !.waived = NoId] ELSE groups[g]]
      /\ FineGo(h, [waive EXCEPT !.pc = "waive.create"])
      /\ UNCHANGED <<currentFines, fines, fineTransfers>>

CreateWaiver(h) ==
  LET waive == fineTask[h]
  IN  /\ FineAt(h, "waive.create")
      /\ Inserted(h, waive.user, waive.amount, waive.group, waive.full)
      /\ UNCHANGED fineTables

SaveWaived(h) ==
  LET waive == fineTask[h]
      g     == waive.group
  IN  /\ FineAt(h, "waive.save")
      /\ groups' = IF Exists(groups[g]) THEN [groups EXCEPT ![g].waived = waive.waiver] ELSE groups
      /\ FineGo(h, IF waive.full THEN [waive EXCEPT !.pc = "waive.current"] ELSE Idle)
      /\ UNCHANGED <<debt, balanceRow, newest, currentFines, fines, fineTransfers, waivers>>

ForgetWaived(h) ==
  /\ FineAt(h, "waive.current")
  /\ currentFines' = [currentFines EXCEPT ![fineTask[h].user] = NoId]
  /\ FineGo(h, Idle)
  /\ UNCHANGED <<debt, balanceRow, newest, fines, fineTransfers, groups, waivers>>
-----------------------------------------------------------------------------
FineFails(h) ==
  /\ ~ FineAt(h, "idle")
  /\ AfterCommit(h, Idle, {})
  /\ UNCHANGED fineTables

FinesStep ==
  \/ UpdateBalances
  \/ \E u \in Users, amount \in Moves : Purchase(u, amount)
  \/ \E h \in Handlers :
       \/ \E u \in Users : \/ \E amount \in Moves : InsertDeposit(h, u, amount)
                           \/ \E balance \in PastBalances : BeginHandout(h, u, balance)
                           \/ \E n \in 1 .. (MaxFine \div FineUnit) : BeginWaive(h, u, n * FineUnit)
       \/ ReadForFines(h) \/ \E w \in WaiverIds : CommitDeposit(h, w)
       \/ LoadFined(h) \/ \E f \in FineIds, g \in GroupIds : CommitFine(h, f, g)
       \/ \E f \in FineIds : LoadFine(h, f)
       \/ RemoveFine(h) \/ RemoveTransfer(h) \/ RemoveGroup(h) \/ ForgetFines(h)
       \/ RemoveWaived(h) \/ CreateWaiver(h) \/ SaveWaived(h) \/ ForgetWaived(h)

FinesNext == FinesStep \/ \E h \in Handlers : FineFails(h)

FinesSpec == FinesInit /\ [][FinesNext]_finesVars

\* Requests and jobs that do not fail half way.
FinesQuietSpec == FinesInit /\ [][FinesStep]_finesVars
-----------------------------------------------------------------------------
(***************************************************************************)
(* Whatever fails and interleaves, a fine that exists was paid: its        *)
(* transfer is there, until the fine is gone.                              *)
(***************************************************************************)
FineIsPaid == \A f \in FineIds : Exists(fines[f]) => f \in fineTransfers

(***************************************************************************)
(* One request at a time: a transfer that leaves a user without a debt     *)
(* leaves the user without current fines, in the same step, unless the     *)
(* balance is shown too low by then, as it is from the removal of a fine   *)
(* that the cached row counts to the next nightly update.  The removal of  *)
(* a fine is no such transfer: it only looks at groups with more fines.    *)
(***************************************************************************)
Clears(u) == debt[u] < 0 /\ debt'[u] >= 0 /\ fineTransfers' = fineTransfers

PaidIsCleared ==
  [][\A u \in Users : Clears(u) /\ ShownBalance(u) >= debt[u] => currentFines'[u] = NoId]_finesVars

(***************************************************************************)
(* What the comment of transfer-subscriber.ts says, of every balance: the  *)
(* unpaid fines are removed when the new balance is positive.              *)
(***************************************************************************)
PositiveIsCleared == [][\A u \in Users : Clears(u) => currentFines'[u] = NoId]_finesVars

(***************************************************************************)
(* One request at a time that does not fail half way: a waiver never       *)
(* brings what was waived of a group above what it was fined, whatever was *)
(* waived of it earlier.                                                   *)
(***************************************************************************)
WaiverIsBounded ==
  [][\A g \in GroupIds : Waived(g)' > Waived(g) => Waived(g)' <= Fined(g)]_finesVars

(***************************************************************************)
(* What the checks of waiveFines are for: at rest no more is waived than   *)
(* was fined.                                                              *)
(***************************************************************************)
WaivedIsFined ==
  (\A h \in Handlers : FineAt(h, "idle")) => \A g \in GroupIds : Waived(g) <= Fined(g)
=============================================================================
