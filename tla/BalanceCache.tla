---------------------------- MODULE BalanceCache ----------------------------
(***************************************************************************)
(* The event tables `transaction` and `transfer`, the `balance` table that *)
(* caches their sums per user (src/service/balance-service.ts), and every  *)
(* handler that changes them: creation, deletion and update of             *)
(* transactions, creation of transfers, and the services that later delete *)
(* or amend a transfer they made.  Each await of a handler that runs       *)
(* outside a database transaction is a step of its own, so the statements  *)
(* of several handlers, the cron process and a crash interleave; a service *)
(* that amends or removes one transfer writes the event tables once and is *)
(* one step.                                                               *)
(***************************************************************************)
EXTENDS Ledger

CONSTANTS
  Users,         \* users that hold a balance
  Void,          \* a NULL from or to of a transfer: money from outside
  Handlers,      \* request handlers in flight
  MaxTime        \* bound: the clock stops there, so at most MaxTime - 1 rows
                 \* are ever inserted

ASSUME BalanceCacheAssumption ==
  /\ IsFiniteSet(Users)
  /\ Void \notin Users
  /\ MaxTime \in Nat

VARIABLES
  transactions,  \* the rows of transaction and sub_transaction
  transfers,     \* the rows of transfer, each with the entity that owns it
  cache,         \* the balance table
  nextId,        \* the auto-increment counter of both tables
  now,           \* the database clock; every insert has a createdAt of its own
  handler,       \* the request handlers in flight
  outdated       \* history: users with a change their cache row counted
                 \* (or should have) and was not told of

rows   == <<transactions, transfers>>
vars   == <<transactions, transfers, cache, nextId, now, handler, outdated>>

Accounts == Users \cup {Void}

(***************************************************************************)
(* The entity that refers to a transfer (the OneToOne relations that       *)
(* TransferService.deleteTransfer loads).  "owned" stands for deposits,    *)
(* payout requests, write-offs and credit invoices: nothing deletes their  *)
(* transfers or changes the amount.                                        *)
(***************************************************************************)
Uses == {"manual", "owned", "invoice", "sellerPayout", "fine", "waivedFines",
         "inactiveAdministrativeCost"}

Transaction == [id : Nat \ {NoId}, from : Users, to : Users,
                amount : Amounts, createdAt : Nat \ {0}]

Transfer == [id : Nat \ {NoId}, from : Accounts, to : Accounts,
             amount : Amounts, createdAt : Nat \ {0}, use : Uses]

(***************************************************************************)
(* A row of `balance`.  A user without one reads, through the LEFT JOINs   *)
(* and COALESCEs of getBalances, as the row NoRow.                         *)
(***************************************************************************)
CacheRow == [amount : Int, lastTransaction : Nat, lastTransfer : Nat]

NoRow == [amount |-> 0, lastTransaction |-> NoId, lastTransfer |-> NoId]

(***************************************************************************)
(* A handler: where it is, the row it works on, the createdAt it keeps for *)
(* an updated transaction and the users it will remove from the cache.     *)
(***************************************************************************)
Pcs == {"idle", "transaction.findOne", "transaction.delete", "transaction.save",
        "transaction.reload", "clear", "transfer.delete", "waive.create"}

Handler == [pc : Pcs, update : BOOLEAN, id : Nat, createdAt : Nat,
            users : SUBSET Users]

Idle == [pc |-> "idle", update |-> FALSE, id |-> NoId, createdAt |-> 0, users |-> {}]

-----------------------------------------------------------------------------
(***************************************************************************)
(* BalanceService.getBalances, without and with a date.                    *)
(***************************************************************************)
LastTransactionDate(u) == DateOf(transactions, cache[u].lastTransaction)
LastTransferDate(u)    == DateOf(transfers, cache[u].lastTransfer)

getBalance(u) ==
    cache[u].amount
  + Net(After(transactions, LastTransactionDate(u)), u)
  + Net(After(transfers, LastTransferDate(u)), u)

(***************************************************************************)
(* With a date the cached row takes part only when both t1.createdAt <= d  *)
(* and t2.createdAt <= d: a NULL on either side leaves it out.             *)
(***************************************************************************)
\* Mutant of UsableAt: only the last transaction is compared with the date.
UsableAt_OneSide(u, date) ==
  cache[u].lastTransaction # NoId /\ LastTransactionDate(u) <= date

UsableAt(u, date) ==
  /\ cache[u].lastTransaction # NoId /\ LastTransactionDate(u) <= date
  /\ cache[u].lastTransfer # NoId    /\ LastTransferDate(u) <= date

getBalanceAt(u, date) ==
  IF UsableAt(u, date)
  THEN cache[u].amount
       + Net(UpTo(After(transactions, LastTransactionDate(u)), date), u)
       + Net(UpTo(After(transfers, LastTransferDate(u)), date), u)
  ELSE Net(UpTo(transactions, date), u) + Net(UpTo(transfers, date), u)

(***************************************************************************)
(* What the event tables say: the balance the cache is derived from.       *)
(***************************************************************************)
LedgerBalance(u) == Net(transactions, u) + Net(transfers, u)

LedgerBalanceAt(u, date) ==
  Net(UpTo(transactions, date), u) + Net(UpTo(transfers, date), u)
-----------------------------------------------------------------------------
TypeOK ==
  /\ transactions \subseteq Transaction /\ IsFiniteSet(transactions)
  /\ transfers \subseteq Transfer /\ IsFiniteSet(transfers)
  /\ cache \in [Users -> CacheRow]
  /\ nextId \in Nat \ {NoId}
  /\ now \in Nat \ {0}
  /\ handler \in [Handlers -> Handler]
  /\ outdated \subseteq Users

Init ==
  /\ transactions = {}
  /\ transfers = {}
  /\ cache = [u \in Users |-> NoRow]
  /\ nextId = 1
  /\ now = 1
  /\ handler = [h \in Handlers |-> Idle]
  /\ outdated = {}

(***************************************************************************)
(* The users whose cache row already accounts for rows as old as `row`.    *)
(***************************************************************************)
CountTransaction(row) ==
  {u \in Users : Involves(row, u) /\ row.createdAt <= LastTransactionDate(u)}

CountTransfer(row) ==
  {u \in Users : Involves(row, u) /\ row.createdAt <= LastTransferDate(u)}

CountTransactions(R) == UNION {CountTransaction(row) : row \in R}

(***************************************************************************)
(* onDelete: 'CASCADE' of Balance.lastTransaction and Balance.lastTransfer:*)
(* a cache row goes with the row it names last.                            *)
(***************************************************************************)
CascadeTransaction(id) ==
  [u \in Users |-> IF cache[u].lastTransaction = id THEN NoRow ELSE cache[u]]

CascadeTransfer_Restrict(id) == cache    \* mutant of CascadeTransfer: no cascade

CascadeTransfer(id) ==
  [u \in Users |-> IF cache[u].lastTransfer = id THEN NoRow ELSE cache[u]]

Tick == now < MaxTime /\ now' = now + 1

-----------------------------------------------------------------------------
(***************************************************************************)
(* TransactionService.createTransaction: one save of the transaction with  *)
(* its sub-transactions; `pays` gives the users paid and how much.         *)
(***************************************************************************)
CreateTransaction(from, pays) ==
  /\ Tick
  /\ transactions' = transactions \cup
       {[id |-> nextId, from |-> from, to |-> to, amount |-> pays[to],
         createdAt |-> now] : to \in DOMAIN pays}
  /\ nextId' = nextId + 1
  /\ UNCHANGED <<transfers, cache, handler, outdated>>

(***************************************************************************)
(* TransferService.createTransfer: the row takes the requested createdAt,  *)
(* else the clock.  That createdAt may lie behind the one of the           *)
(* lastTransfer of a cached balance, and nothing removes that cache row.   *)
(***************************************************************************)
InsertTransfer(from, to, amount, use, createdAt) ==
  LET row == [id |-> nextId, from |-> from, to |-> to, amount |-> amount,
              createdAt |-> createdAt, use |-> use]
  IN  /\ Tick
      /\ transfers' = transfers \cup {row}
      /\ nextId' = nextId + 1
      /\ outdated' = outdated \cup CountTransfer(row)
      /\ UNCHANGED <<transactions, cache>>

(***************************************************************************)
(* POST /transfers with any createdAt, past or future;                     *)
(* verifyTransferRequest wants a from or a to.                             *)
(***************************************************************************)
PostTransfer(from, to, amount, createdAt) ==
  /\ from \in Users \/ to \in Users
  /\ InsertTransfer(from, to, amount, "manual", createdAt)
  /\ UNCHANGED handler

(***************************************************************************)
(* The transfers other services make for a user, all at the clock: fines,  *)
(* administrative costs and payouts leave the user, invoices, deposits and *)
(* write-offs reach the user.                                              *)
(***************************************************************************)
CreateOwnedTransfer(u, amount, use) ==
  /\ \/ /\ use \in {"fine", "inactiveAdministrativeCost", "owned"}
        /\ InsertTransfer(u, Void, amount, use, now)
     \/ /\ use \in {"invoice", "owned"}
        /\ InsertTransfer(Void, u, amount, use, now)
  /\ UNCHANGED handler

(***************************************************************************)
(* SellerPayoutService.createSellerPayout: createdAt is the end date of    *)
(* the payout, which the controller wants before today.                    *)
(***************************************************************************)
CreateSellerPayout(seller, amount, endDate) ==
  /\ endDate <= now
  /\ InsertTransfer(seller, Void, amount, "sellerPayout", endDate)
  /\ UNCHANGED handler
-----------------------------------------------------------------------------
(***************************************************************************)
(* TransactionService.deleteTransaction and updateTransaction.  Both find  *)
(* the transaction, delete its row (sub-transactions cascade) and clear    *)
(* the cache rows of the users that were found; updateTransaction then     *)
(* saves a row with the old id and createdAt, reads it back and clears the *)
(* cache rows of its users.  Nothing of this is in a database transaction. *)
(***************************************************************************)
Start(h, state) == handler[h].pc = "idle" /\ handler' = [handler EXCEPT ![h] = state]

BeginDeleteTransaction(h, id) ==
  /\ Start(h, [Idle EXCEPT !.pc = "transaction.findOne", !.id = id])
  /\ WithId(transactions, id) # {}
  /\ UNCHANGED <<rows, cache, nextId, now, outdated>>

BeginUpdateTransaction(h, id) ==
  /\ Start(h, [Idle EXCEPT !.pc = "transaction.findOne", !.update = TRUE, !.id = id,
                           !.createdAt = DateOf(transactions, id)])
  /\ WithId(transactions, id) # {}
  /\ UNCHANGED <<rows, cache, nextId, now, outdated>>

(***************************************************************************)
(* getSingleTransaction: the users of the transaction, none if it is gone. *)
(***************************************************************************)
\* Mutant of FindTransaction: the users paid by the transaction are forgotten.
FindTransaction_BuyerOnly(h) ==
  /\ handler[h].pc = "transaction.findOne"
  /\ handler' = [handler EXCEPT ![h].pc = "transaction.delete",
                  ![h].users = {row.from : row \in WithId(transactions, handler[h].id)}]
  /\ UNCHANGED <<rows, cache, nextId, now, outdated>>

FindTransaction(h) ==
  LET found == WithId(transactions, handler[h].id)
  IN  /\ handler[h].pc = "transaction.findOne"
      /\ handler' = [handler EXCEPT ![h].pc = "transaction.delete",
                      ![h].users = {row.from : row \in found} \cup {row.to : row \in found}]
      /\ UNCHANGED <<rows, cache, nextId, now, outdated>>

(***************************************************************************)
(* manager.delete; without a transaction found, invalidateBalanceCache     *)
(* throws right after it and the handler ends.                             *)
(***************************************************************************)
DeleteTransactionRow(h) ==
  LET gone == WithId(transactions, handler[h].id)
  IN  /\ handler[h].pc = "transaction.delete"
      /\ transactions' = transactions \ gone
      /\ cache' = CascadeTransaction(handler[h].id)
      /\ outdated' = {u \in outdated \cup CountTransactions(gone) : cache'[u] # NoRow}
      /\ handler' = [handler EXCEPT ![h] =
                       IF handler[h].users = {} THEN Idle ELSE [@ EXCEPT !.pc = "clear"]]
      /\ UNCHANGED <<transfers, nextId, now>>

(***************************************************************************)
(* BalanceService.clearBalanceCache for the users the handler remembers:   *)
(* the last step of a deletion; an update goes on to save the new row.     *)
(***************************************************************************)
ClearBalanceCache(h) ==
  /\ handler[h].pc = "clear"
  /\ cache' = [u \in Users |-> IF u \in handler[h].users THEN NoRow ELSE cache[u]]
  /\ outdated' = outdated \ handler[h].users
  /\ handler' = [handler EXCEPT ![h] =
                   IF handler[h].update THEN [@ EXCEPT !.pc = "transaction.save"] ELSE Idle]
  /\ UNCHANGED <<rows, nextId, now>>

(***************************************************************************)
(* manager.save of the updated transaction: an insert with the id and the  *)
(* createdAt of the old row.  If another handler saved that id first, the  *)
(* save would orphan its sub-transactions, whose transaction is not        *)
(* nullable: it fails and the handler ends.                                *)
(***************************************************************************)
SaveTransaction(h, from, pays) ==
  LET new == {[id |-> handler[h].id, from |-> from, to |-> to, amount |-> pays[to],
               createdAt |-> handler[h].createdAt] : to \in DOMAIN pays}
  IN  /\ handler[h].pc = "transaction.save"
      /\ WithId(transactions, handler[h].id) = {}
      /\ transactions' = transactions \cup new
      /\ outdated' = outdated \cup CountTransactions(new)
      /\ handler' = [handler EXCEPT ![h].pc = "transaction.reload"]
      /\ UNCHANGED <<transfers, cache, nextId, now>>

FailSaveTransaction(h) ==
  /\ handler[h].pc = "transaction.save"
  /\ WithId(transactions, handler[h].id) # {}
  /\ handler' = [handler EXCEPT ![h] = Idle]
  /\ UNCHANGED <<rows, cache, nextId, now, outdated>>

(***************************************************************************)
(* getSingleTransaction after the save: no clearing when it is gone again. *)
(***************************************************************************)
ReloadTransaction(h) ==
  LET found == WithId(transactions, handler[h].id)
  IN  /\ handler[h].pc = "transaction.reload"
      /\ handler' = [handler EXCEPT ![h] =
           IF found = {} THEN Idle
           ELSE [Idle EXCEPT !.pc = "clear",
                 !.users = {row.from : row \in found} \cup {row.to : row \in found}]]
      /\ UNCHANGED <<rows, cache, nextId, now, outdated>>
-----------------------------------------------------------------------------
(***************************************************************************)
(* Removing a transfer row, whoever does it.                               *)
(***************************************************************************)
RemoveTransfer(row) ==
  /\ row \in transfers
  /\ transfers' = transfers \ {row}
  /\ cache' = CascadeTransfer(row.id)
  /\ outdated' = {u \in outdated \cup CountTransfer(row) : cache'[u] # NoRow}
  /\ UNCHANGED <<transactions, nextId, now>>

(***************************************************************************)
(* TransferService.deleteTransfer refuses a transfer another entity refers *)
(* to; InactiveAdministrativeCostService.deleteInactiveAdministrativeCost  *)
(* removes its own.  Both delete the row and then clear the cache rows of  *)
(* its users.                                                              *)
(***************************************************************************)
\* Mutant of BeginDeleteTransfer: a NULL side is not left out.
BeginDeleteTransfer_NullSide(h, row) ==
  /\ row \in transfers /\ row.use \in {"manual", "inactiveAdministrativeCost"}
  /\ Start(h, [Idle EXCEPT !.pc = "transfer.delete", !.id = row.id,
                           !.users = {row.from, row.to}])
  /\ UNCHANGED <<rows, cache, nextId, now, outdated>>

BeginDeleteTransfer(h, row) ==
  /\ row \in transfers /\ row.use \in {"manual", "inactiveAdministrativeCost"}
  /\ Start(h, [Idle EXCEPT !.pc = "transfer.delete", !.id = row.id,
                           !.users = {row.from, row.to} \cap Users])
  /\ UNCHANGED <<rows, cache, nextId, now, outdated>>

DeleteTransferRow(h) ==
  /\ handler[h].pc = "transfer.delete"
  /\ IF WithId(transfers, handler[h].id) = {}
     THEN UNCHANGED <<rows, cache, nextId, now, outdated>>
     ELSE \E row \in WithId(transfers, handler[h].id) : RemoveTransfer(row)
  /\ handler' = [handler EXCEPT ![h].pc = "clear"]

(***************************************************************************)
(* SellerPayoutService.deleteSellerPayout and DebtorService.deleteFine     *)
(* remove the transfer and leave the cache alone.                          *)
(***************************************************************************)
DeleteSellerPayout(row) ==
  /\ row.use = "sellerPayout"
  /\ RemoveTransfer(row)
  /\ UNCHANGED handler

DeleteFine(row) ==
  /\ row.use = "fine"
  /\ RemoveTransfer(row)
  /\ UNCHANGED handler

(***************************************************************************)
(* DebtorService.waiveFines: the transfer of an earlier waiver, if any, is *)
(* removed, then a new one is created.  The cache is left alone.           *)
(***************************************************************************)
BeginWaiveFines(h, u) ==
  /\ Start(h, [Idle EXCEPT !.pc = "waive.create", !.users = {u}])
  /\ UNCHANGED <<rows, cache, nextId, now, outdated>>

RemoveWaivedTransfer(h, row) ==
  /\ row.use = "waivedFines"
  /\ Start(h, [Idle EXCEPT !.pc = "waive.create", !.users = {row.to}])
  /\ RemoveTransfer(row)

CreateWaivedTransfer(h, amount) ==
  /\ handler[h].pc = "waive.create"
  /\ \E u \in handler[h].users : InsertTransfer(Void, u, amount, "waivedFines", now)
  /\ handler' = [handler EXCEPT ![h] = Idle]

(***************************************************************************)
(* InvoiceService.updateInvoice and SellerPayoutService.updateSellerPayout *)
(* set a new amount on the transfer and leave the cache alone.             *)
(***************************************************************************)
AmendTransfer(row, amount) ==
  /\ row \in transfers
  /\ transfers' = (transfers \ {row}) \cup {[row EXCEPT !.amount = amount]}
  /\ outdated' = outdated \cup CountTransfer(row)
  /\ UNCHANGED <<transactions, cache, nextId, now, handler>>

UpdateInvoice(row, amount) == row.use = "invoice" /\ AmendTransfer(row, amount)

UpdateSellerPayout(row, amount) == row.use = "sellerPayout" /\ AmendTransfer(row, amount)
-----------------------------------------------------------------------------
(***************************************************************************)
(* BalanceService.updateBalances, one REPLACE INTO ... SELECT run at the   *)
(* start of the cron process and every night: users with no row in either  *)
(* table are not in the SELECT and keep what they have.                    *)
(***************************************************************************)
FreshRow(u) == [amount          |-> LedgerBalance(u),
                lastTransaction |-> LatestId(transactions, u),
                lastTransfer    |-> LatestId(transfers, u)]

HasMoney(u) == OfUser(transactions, u) \cup OfUser(transfers, u) # {}

\* Mutant of UpdateBalances: INSERT IGNORE instead of REPLACE.
UpdateBalances_InsertIgnore ==
  /\ cache' = [u \in Users |-> IF HasMoney(u) /\ cache[u] = NoRow THEN FreshRow(u) ELSE cache[u]]
  /\ outdated' = {}
  /\ UNCHANGED <<rows, nextId, now, handler>>

UpdateBalances ==
  /\ cache' = [u \in Users |-> IF HasMoney(u) THEN FreshRow(u) ELSE cache[u]]
  /\ outdated' = {}
  /\ UNCHANGED <<rows, nextId, now, handler>>

(***************************************************************************)
(* The process of a handler dies, or one of its statements fails: what it  *)
(* has written stays and the rest of it never happens.                     *)
(***************************************************************************)
Crash(h) ==
  /\ handler[h].pc # "idle"
  /\ handler' = [handler EXCEPT ![h] = Idle]
  /\ UNCHANGED <<rows, cache, nextId, now, outdated>>
-----------------------------------------------------------------------------
(***************************************************************************)
(* The requests, their steps and the cron job.  A purchase pays any set of *)
(* sellers.                                                                *)
(***************************************************************************)
Purchases == UNION {[sellers -> Amounts] : sellers \in SUBSET Users \ {{}}}

Purchase ==
  \E from \in Users, pays \in Purchases : CreateTransaction(from, pays)

Insert ==
  \E from, to \in Accounts, amount \in Amounts, date \in 1 .. MaxTime :
    PostTransfer(from, to, amount, date)

Own ==
  \E u \in Users, amount \in Amounts, use \in Uses : CreateOwnedTransfer(u, amount, use)

PayOutSeller ==
  \E u \in Users, amount \in Amounts, date \in 1 .. MaxTime : CreateSellerPayout(u, amount, date)

DeleteOrUpdateTransaction(h) ==
  \/ \E row \in transactions : \/ BeginDeleteTransaction(h, row.id)
                               \/ BeginUpdateTransaction(h, row.id)
  \/ FindTransaction(h)
  \/ DeleteTransactionRow(h)
  \/ \E from \in Users, pays \in Purchases : SaveTransaction(h, from, pays)
  \/ FailSaveTransaction(h)
  \/ ReloadTransaction(h)

DeleteTransfer(h) ==
  \/ \E row \in transfers : BeginDeleteTransfer(h, row)
  \/ DeleteTransferRow(h)

RemoveFinesOrPayout == \E row \in transfers : DeleteSellerPayout(row) \/ DeleteFine(row)

WaiveFines(h) ==
  \/ \E u \in Users : BeginWaiveFines(h, u)
  \/ \E row \in transfers : RemoveWaivedTransfer(h, row)
  \/ \E amount \in Amounts : CreateWaivedTransfer(h, amount)

Amend ==
  \E row \in transfers, amount \in Amounts :
    UpdateInvoice(row, amount) \/ UpdateSellerPayout(row, amount)

Step(h) == DeleteOrUpdateTransaction(h) \/ DeleteTransfer(h) \/ ClearBalanceCache(h)

Next ==
  \/ Purchase \/ Insert \/ Own \/ PayOutSeller
  \/ RemoveFinesOrPayout \/ Amend \/ UpdateBalances
  \/ \E h \in Handlers : Step(h) \/ WaiveFines(h) \/ Crash(h)

Spec == Init /\ [][Next]_vars
-----------------------------------------------------------------------------
(***************************************************************************)
(* A cache row names rows of its own user, and a user without any row in   *)
(* the event tables has none: what the cascades of the foreign keys leave. *)
(***************************************************************************)
NamesOwnRow(R, id, u) == id = NoId \/ OfUser(WithId(R, id), u) # {}

CacheNamesOwnRows ==
  \A u \in Users :
    /\ NamesOwnRow(transactions, cache[u].lastTransaction, u)
    /\ NamesOwnRow(transfers, cache[u].lastTransfer, u)
    /\ ~ HasMoney(u) => cache[u] = NoRow

(***************************************************************************)
(* The balance a user is shown is the sum of the event tables, whatever    *)
(* the handlers in flight are doing, unless the user is outdated: a change *)
(* reached behind the user's cache row and nothing has rebuilt it since.   *)
(***************************************************************************)
BalanceIsLedger == \A u \in Users \ outdated : getBalance(u) = LedgerBalance(u)

(***************************************************************************)
(* The same for the balance on a date, which uses the cached row only when *)
(* both of its last rows are on or before that date.                       *)
(***************************************************************************)
HistoryIsLedger ==
  \A u \in Users \ outdated : \A date \in 0 .. now :
    getBalanceAt(u, date) = LedgerBalanceAt(u, date)

(***************************************************************************)
(* The nightly sync repairs every user, however the cache went wrong.      *)
(***************************************************************************)
SyncRepairs ==
  [][UpdateBalances => \A u \in Users : getBalance(u)' = LedgerBalance(u)']_vars

(***************************************************************************)
(* With no handler in flight every user is shown the sum of the event      *)
(* tables: "the balance cache follows from" them.  Holds only without the  *)
(* operations that leave the cache alone (see MCBalanceCache).             *)
(***************************************************************************)
AtRest == \A h \in Handlers : handler[h].pc = "idle"

BalanceAtRestIsLedger == AtRest => \A u \in Users : getBalance(u) = LedgerBalance(u)

(***************************************************************************)
(* With no handler in flight every transaction created and never deleted   *)
(* is there: an update is executed as a whole or not at all.  Stated for   *)
(* behaviours without deletions (see MCBalanceCache).                      *)
(***************************************************************************)
UpdatesKeepTransactions ==
  AtRest => \A id \in 1 .. nextId - 1 : WithId(transactions, id) # {}

(***************************************************************************)
(* Every user is shown the right balance again and again, crashes and      *)
(* unannounced changes included, since the cron process keeps syncing.     *)
(***************************************************************************)
FairSpec == Spec /\ WF_vars(UpdateBalances)

AlwaysRepaired == \A u \in Users : []<>(getBalance(u) = LedgerBalance(u))

(***************************************************************************)
(* The cache implements an account book: the shown balance of a user       *)
(* follows every movement, misses one that happens behind the user's cache *)
(* row (who is outdated from then on), or becomes the sum of the event     *)
(* tables again.                                                           *)
(***************************************************************************)
Book == INSTANCE AccountBook WITH
          truth   <- [u \in Users |-> LedgerBalance(u)],
          shown   <- [u \in Users |-> getBalance(u)],
          lagging <- outdated

ImplementsAccountBook == Book!Spec
=============================================================================
