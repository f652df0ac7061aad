--------------------------- MODULE SellerPayouts ----------------------------
(***************************************************************************)
(* Payouts of what a seller sold in a window of time.  The windows of the  *)
(* payouts there are, the report of the sales, the transfer and the payout *)
(* are read and written one await after the other, without a transaction.  *)
(***************************************************************************)
EXTENDS Integers, FiniteSets, Server

CONSTANTS
  Now,            \* the last moment of the model, from 0 on
  MaxPayouts,     \* bound on the payouts made
  MaxSold         \* bound on the sales of one moment

ASSUME SellerPayoutsAssumption == Now \in Nat /\ MaxSold \in Nat /\ MaxPayouts \in Nat

VARIABLES
  sold,             \* what was sold at each moment
  sellerPayouts,    \* the rows of seller_payout, by id
  payoutTransfers,  \* the amounts of their transfers, by the same ids
  lastPayout,       \* the last id that was given
  payoutTask

sellerTables == <<sold, sellerPayouts, payoutTransfers, lastPayout>>
sellerVars   == <<sold, sellerPayouts, payoutTransfers, lastPayout, payoutTask>>

Moments == 0 .. Now

SellerPayoutIds == 1 .. MaxPayouts

Window == {w \in [from : Moments, till : Moments] : w.from <= w.till}

NoPayout == [amount |-> -1]

PayoutRows == [window : Window, amount : Nat] \cup {NoPayout}

PayoutTask ==
       {Idle}
  \cup [pc : {"report", "transfer"}, window : Window, amount : Nat]
  \cup [pc : {"payout"}, window : Window, amount : Nat, id : SellerPayoutIds]
  \cup [pc : {"amount", "amount.transfer"}, id : SellerPayoutIds, amount : Nat]
  \cup [pc : {"remove", "remove.transfer"}, id : SellerPayoutIds]

SellerTypeOK ==
  /\ sold \in [Moments -> Nat]
  /\ sellerPayouts \in [SellerPayoutIds -> PayoutRows]
  /\ payoutTransfers \in [SellerPayoutIds -> Nat \cup {-1}]
  /\ lastPayout \in 0 .. MaxPayouts
  /\ payoutTask \in [Handlers -> PayoutTask]

SellerInit ==
  /\ sold = [t \in Moments |-> 0]
  /\ sellerPayouts = [i \in SellerPayoutIds |-> NoPayout]
  /\ payoutTransfers = [i \in SellerPayoutIds |-> -1]
  /\ lastPayout = 0
  /\ payoutTask = [h \in Handlers |-> Idle]

SellerAt(h, pc) == payoutTask[h].pc = pc

SellerGo(h, state) == payoutTask' = [payoutTask EXCEPT ![h] = state]

PaidOut(i) == sellerPayouts[i] # NoPayout

\* The sales of a window, each one counted: <<t, n>> is the n-th of moment t.
SoldIn(w) ==
  Cardinality({sale \in Moments \X (1 .. MaxSold) :
                 w.from <= sale[1] /\ sale[1] < w.till /\ sale[2] <= sold[sale[1]]})
-----------------------------------------------------------------------------
\* Mutant of Overlaps: a window inside a payout's window is not looked for.
Overlaps_NotWithin(p, w) ==
  \/ p.till > w.from /\ p.till <= w.till
  \/ p.from >= w.from /\ p.from < w.till

\* createFilterWhereDateRange for a payout's window p and a requested window w.
Overlaps(p, w) ==
  \/ p.till > w.from /\ p.till <= w.till
  \/ p.from >= w.from /\ p.from < w.till
  \/ p.from <= w.from /\ p.till >= w.till

\* A sale, at any moment: a point of sale may report one late.
Sell(t) ==
  /\ sold[t] < MaxSold
  /\ sold' = [sold EXCEPT ![t] = @ + 1]
  /\ UNCHANGED <<sellerPayouts, payoutTransfers, lastPayout, payoutTask>>

BeginSellerPayout(h, w) ==
  /\ SellerAt(h, "idle")
  /\ \A i \in SellerPayoutIds : PaidOut(i) => ~ Overlaps(sellerPayouts[i].window, w)
  /\ SellerGo(h, [pc |-> "report", window |-> w, amount |-> 0])
  /\ UNCHANGED sellerTables

ReportSales(h) ==
  LET payout == payoutTask[h]
  IN  /\ SellerAt(h, "report")
      /\ SellerGo(h, [payout EXCEPT !.pc = "transfer", !.amount = SoldIn(payout.window)])
      /\ UNCHANGED sellerTables

TransferPayout(h) ==
  LET payout == payoutTask[h]
      i      == lastPayout + 1
  IN  /\ SellerAt(h, "transfer")
      /\ i \in SellerPayoutIds
      /\ lastPayout' = i
      /\ payoutTransfers' = [payoutTransfers EXCEPT ![i] = payout.amount]
      /\ SellerGo(h, [pc |-> "payout", window |-> payout.window, amount |-> payout.amount, id |-> i])
      /\ UNCHANGED <<sold, sellerPayouts>>

SavePayout(h) ==
  LET payout == payoutTask[h]
  IN  /\ SellerAt(h, "payout")
      /\ sellerPayouts' = [sellerPayouts EXCEPT ![payout.id] =
                             [window |-> payout.window, amount |-> payout.amount]]
      /\ SellerGo(h, Idle)
      /\ UNCHANGED <<sold, payoutTransfers, lastPayout>>
-----------------------------------------------------------------------------
BeginUpdatePayout(h, i, amount) ==
  /\ SellerAt(h, "idle")
  /\ PaidOut(i)
  /\ SellerGo(h, [pc |-> "amount", id |-> i, amount |-> amount])
  /\ UNCHANGED sellerTables

UpdatePayout(h) ==
  LET update == payoutTask[h]
  IN  /\ SellerAt(h, "amount")
      /\ sellerPayouts' = IF PaidOut(update.id)
                          THEN [sellerPayouts EXCEPT ![update.id].amount = update.amount]
                          ELSE sellerPayouts
      /\ SellerGo(h, [update EXCEPT !.pc = "amount.transfer"])
      /\ UNCHANGED <<sold, payoutTransfers, lastPayout>>

\* save() of the transfer that was read: one that was removed is inserted again.
UpdateTransfer(h) ==
  LET update == payoutTask[h]
  IN  /\ SellerAt(h, "amount.transfer")
      /\ payoutTransfers' = [payoutTransfers EXCEPT ![update.id] = update.amount]
      /\ SellerGo(h, Idle)
      /\ UNCHANGED <<sold, sellerPayouts, lastPayout>>

BeginRemovePayout(h, i) ==
  /\ SellerAt(h, "idle")
  /\ PaidOut(i)
  /\ SellerGo(h, [pc |-> "remove", id |-> i])
  /\ UNCHANGED sellerTables

\* Mutant of RemovePayout: the transfer goes first.
RemovePayout_TransferFirst(h) ==
  LET i == payoutTask[h].id
  IN  /\ SellerAt(h, "remove")
      /\ payoutTransfers' = [payoutTransfers EXCEPT ![i] = -1]
      /\ SellerGo(h, Idle)
      /\ UNCHANGED <<sold, sellerPayouts, lastPayout>>

RemovePayout(h) ==
  LET i == payoutTask[h].id
  IN  /\ SellerAt(h, "remove")
      /\ sellerPayouts' = [sellerPayouts EXCEPT ![i] = NoPayout]
      /\ SellerGo(h, [pc |-> "remove.transfer", id |-> i])
      /\ UNCHANGED <<sold, payoutTransfers, lastPayout>>

RemovePayoutTransfer(h) ==
  LET i == payoutTask[h].id
  IN  /\ SellerAt(h, "remove.transfer")
      /\ payoutTransfers' = [payoutTransfers EXCEPT ![i] = -1]
      /\ SellerGo(h, Idle)
      /\ UNCHANGED <<sold, sellerPayouts, lastPayout>>

SellerFails(h) == ~ SellerAt(h, "idle") /\ SellerGo(h, Idle) /\ UNCHANGED sellerTables

SellerStep ==
  \/ \E t \in Moments : Sell(t)
  \/ \E h \in Handlers :
       \/ \E w \in Window : BeginSellerPayout(h, w)
       \/ \E i \in SellerPayoutIds :
            \/ BeginRemovePayout(h, i)
            \/ \E amount \in 0 .. MaxSold : BeginUpdatePayout(h, i, amount)
       \/ ReportSales(h) \/ TransferPayout(h) \/ SavePayout(h) \/ UpdatePayout(h) \/ UpdateTransfer(h)
       \/ RemovePayout(h) \/ RemovePayoutTransfer(h)

SellerNext == SellerStep \/ \E h \in Handlers : SellerFails(h)

SellerSpec == SellerInit /\ [][SellerNext]_sellerVars
-----------------------------------------------------------------------------
(***************************************************************************)
(* However requests interleave and wherever they fail, there is no payout  *)
(* without the transfer that takes its amount off the seller.              *)
(***************************************************************************)
PayoutIsBooked == \A i \in SellerPayoutIds : PaidOut(i) => payoutTransfers[i] # -1

(***************************************************************************)
(* With one request at a time, no sale lies in the windows of two payouts, *)
(* whatever windows are asked for, empty ones and shared bounds included.  *)
(***************************************************************************)
PaidOnce ==
  \A i, j \in SellerPayoutIds : PaidOut(i) /\ PaidOut(j) /\ i # j =>
    \A t \in Moments : LET In(w) == w.from <= t /\ t < w.till
                       IN  ~ (In(sellerPayouts[i].window) /\ In(sellerPayouts[j].window))
=============================================================================
