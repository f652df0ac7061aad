------------------------- MODULE BalanceCache_proofs -------------------------
(***************************************************************************)
(* What holds of the balance cache for any users, handlers, amounts and    *)
(* lengths of run.  First the laws of the sums and selections of Ledger:   *)
(* sums split over disjoint sets of rows and over a date, and a finite set *)
(* of rows has a latest one.  Then an inductive invariant in two layers:   *)
(* WellFormed, about the tables and the handlers alone, and CacheInv,      *)
(* which says what every cache row counts.                                 *)
(***************************************************************************)
EXTENDS MCBalanceCacheFair, FiniteSetTheorems, TLAPS

(***************************************************************************)
(* The cents of a finite set of rows are finitely many, so a sum of the    *)
(* balance queries is a natural number.                                    *)
(***************************************************************************)
LEMMA TotalType ==
  ASSUME NEW R, IsFiniteSet(R)
  PROVE  IsFiniteSet(Cents(R)) /\ Total(R) \in Nat
<1>1. IsFiniteSet(1 .. MaxAmount)
  <2>1. 1 .. MaxAmount \in SUBSET Nat /\ \A s \in 1 .. MaxAmount : s <= MaxAmount
    BY MaxAmountAssumption
  <2> QED BY <2>1, MaxAmountAssumption, FS_BoundedSetOfNaturals
<1>2. IsFiniteSet(R \X (1 .. MaxAmount))
  BY <1>1, FS_Product
<1>3. Cents(R) \in SUBSET (R \X (1 .. MaxAmount))
  BY DEF Cents
<1> QED BY <1>2, <1>3, FS_Subset, FS_CardinalityType DEF Total

(***************************************************************************)
(* A sum over two disjoint sets of rows is the sum of their sums.          *)
(***************************************************************************)
LEMMA TotalUnion ==
  ASSUME NEW R, NEW S, IsFiniteSet(R), IsFiniteSet(S), R \cap S = {}
  PROVE  Total(R \cup S) = Total(R) + Total(S)
<1>1. Cents(R \cup S) = Cents(R) \cup Cents(S)
  BY DEF Cents
<1>2. Cents(R) \cap Cents(S) = {}
  BY DEF Cents
<1>3. Cardinality({}) = 0
  BY FS_EmptySet
<1>4. IsFiniteSet(Cents(R)) /\ IsFiniteSet(Cents(S))
  BY TotalType
<1>5. Cardinality(Cents(R) \cup Cents(S)) =
        Cardinality(Cents(R)) + Cardinality(Cents(S)) - Cardinality(Cents(R) \cap Cents(S))
  BY <1>4, FS_Union
<1>6. Total(R \cup S) = Total(R) + Total(S) - 0
  BY <1>1, <1>2, <1>3, <1>5 DEF Total
<1>7. Total(R) \in Nat /\ Total(S) \in Nat
  BY TotalType
<1> QED BY <1>6, <1>7

(***************************************************************************)
(* What rows add to a balance is an integer, and none add nothing.         *)
(***************************************************************************)
LEMMA NetType ==
  ASSUME NEW R, NEW u, IsFiniteSet(R)
  PROVE  Net(R, u) \in Int
<1>1. {row \in R : row.to = u} \in SUBSET R /\ {row \in R : row.from = u} \in SUBSET R
  OBVIOUS
<1>2. /\ Total({row \in R : row.to = u}) \in Nat
      /\ Total({row \in R : row.from = u}) \in Nat
  BY <1>1, FS_Subset, TotalType
<1> QED BY <1>2 DEF Net

LEMMA NetEmpty ==
  ASSUME NEW u
  PROVE  Net({}, u) = 0
<1>1. Cents({}) = {}
  BY DEF Cents
<1>2. Total({}) = 0
  BY <1>1, FS_EmptySet DEF Total
<1>3. {row \in {} : row.to = u} = {} /\ {row \in {} : row.from = u} = {}
  OBVIOUS
<1> QED BY <1>2, <1>3 DEF Net

(***************************************************************************)
(* What two disjoint sets of rows add to a balance adds up.                *)
(***************************************************************************)
LEMMA NetUnion ==
  ASSUME NEW R, NEW S, NEW u, IsFiniteSet(R), IsFiniteSet(S), R \cap S = {}
  PROVE  Net(R \cup S, u) = Net(R, u) + Net(S, u)
<1> DEFINE Rto   == {row \in R : row.to = u}
           Rfrom == {row \in R : row.from = u}
           Sto   == {row \in S : row.to = u}
           Sfrom == {row \in S : row.from = u}
<1>1. /\ Rto \in SUBSET R /\ Rfrom \in SUBSET R
      /\ Sto \in SUBSET S /\ Sfrom \in SUBSET S
  OBVIOUS
<1>2. /\ IsFiniteSet(Rto) /\ IsFiniteSet(Rfrom)
      /\ IsFiniteSet(Sto) /\ IsFiniteSet(Sfrom)
  BY <1>1, FS_Subset
<1>3. /\ Rto \cap Sto = {} /\ Rfrom \cap Sfrom = {}
  OBVIOUS
<1>4. /\ {row \in R \cup S : row.to = u} = Rto \cup Sto
      /\ {row \in R \cup S : row.from = u} = Rfrom \cup Sfrom
  OBVIOUS
<1> HIDE DEF Rto, Rfrom, Sto, Sfrom
<1>5. /\ Total(Rto \cup Sto) = Total(Rto) + Total(Sto)
      /\ Total(Rfrom \cup Sfrom) = Total(Rfrom) + Total(Sfrom)
  BY <1>2, <1>3, TotalUnion
<1>6. /\ Total(Rto) \in Nat /\ Total(Rfrom) \in Nat
      /\ Total(Sto) \in Nat /\ Total(Sfrom) \in Nat
  BY <1>2, TotalType
<1>7. /\ Net(R \cup S, u) = Total(Rto \cup Sto) - Total(Rfrom \cup Sfrom)
      /\ Net(R, u) = Total(Rto) - Total(Rfrom)
      /\ Net(S, u) = Total(Sto) - Total(Sfrom)
  BY <1>4 DEF Net, Rto, Rfrom, Sto, Sfrom
<1> QED BY <1>5, <1>6, <1>7

(***************************************************************************)
(* A balance splits at any date: what the cached row counts and what the   *)
(* query adds to it.                                                       *)
(***************************************************************************)
LEMMA NetSplit ==
  ASSUME NEW R, NEW u, NEW date \in Int, IsFiniteSet(R),
         \A row \in R : row.createdAt \in Int
  PROVE  /\ Net(R, u) = Net(UpTo(R, date), u) + Net(After(R, date), u)
         /\ Net(UpTo(R, date), u) \in Int
         /\ Net(After(R, date), u) \in Int
<1>1. UpTo(R, date) \in SUBSET R /\ After(R, date) \in SUBSET R
  BY DEF UpTo, After
<1>2. IsFiniteSet(UpTo(R, date)) /\ IsFiniteSet(After(R, date))
  BY <1>1, FS_Subset
<1>3. /\ UpTo(R, date) \cap After(R, date) = {}
      /\ UpTo(R, date) \cup After(R, date) = R
  BY DEF UpTo, After
<1> QED BY <1>2, <1>3, NetUnion, NetType

(***************************************************************************)
(* What rows add to a balance depends on the rows of that user only.       *)
(***************************************************************************)
LEMMA NetOfUser ==
  ASSUME NEW R, NEW S, NEW u, OfUser(R, u) = OfUser(S, u)
  PROVE  Net(R, u) = Net(S, u)
<1>1. /\ {row \in R : row.to = u} = {row \in OfUser(R, u) : row.to = u}
      /\ {row \in R : row.from = u} = {row \in OfUser(R, u) : row.from = u}
      /\ {row \in S : row.to = u} = {row \in OfUser(S, u) : row.to = u}
      /\ {row \in S : row.from = u} = {row \in OfUser(S, u) : row.from = u}
  BY DEF OfUser, Involves
<1> QED BY <1>1 DEF Net

(***************************************************************************)
(* The date of an id is that of any row with it, when rows that share an   *)
(* id share their date; an id without rows has date 0.                     *)
(***************************************************************************)
LEMMA DateOfRow ==
  ASSUME NEW R, NEW row \in R,
         \A r, s \in R : r.id = s.id => r.createdAt = s.createdAt
  PROVE  DateOf(R, row.id) = row.createdAt
<1>1. row \in WithId(R, row.id)
  BY DEF WithId
<1>2. (CHOOSE r \in WithId(R, row.id) : TRUE) \in WithId(R, row.id)
  BY <1>1
<1> QED BY <1>1, <1>2 DEF DateOf, WithId

LEMMA DateOfSame ==
  ASSUME NEW R, NEW S, NEW id, WithId(R, id) = WithId(S, id)
  PROVE  DateOf(R, id) = DateOf(S, id)
<1> DEFINE any(W) == CHOOSE row \in W : TRUE
<1>1. /\ DateOf(R, id) = IF WithId(R, id) = {} THEN 0 ELSE any(WithId(R, id)).createdAt
      /\ DateOf(S, id) = IF WithId(S, id) = {} THEN 0 ELSE any(WithId(S, id)).createdAt
  BY DEF DateOf
<1> HIDE DEF any
<1> QED BY <1>1

LEMMA DateOfNoRow ==
  ASSUME NEW R, NEW id, WithId(R, id) = {}
  PROVE  DateOf(R, id) = 0
BY DEF DateOf

(***************************************************************************)
(* A finite set of rows with a row of u has a latest row of u, the one     *)
(* whose id updateBalances stores.  The rows not before a row, ordered by  *)
(* inclusion, have a minimum.                                              *)
(***************************************************************************)
LEMMA LatestRow ==
  ASSUME NEW R, NEW u, IsFiniteSet(R), OfUser(R, u) # {},
         \A row \in R : row.createdAt \in Int /\ row.id \in Int
  PROVE  \E r \in OfUser(R, u) : /\ LatestId(R, u) = r.id
                                 /\ \A s \in OfUser(R, u) : Later(r, s)
<1> DEFINE U == OfUser(R, u)
           NotBefore(r) == {s \in U : Later(s, r)}
           T == {NotBefore(r) : r \in U}
<1>1. U \in SUBSET R
  BY DEF OfUser
<1>2. IsFiniteSet(U)
  BY <1>1, FS_Subset
<1>3. FiniteSubsetsOf(U) = SUBSET U
  BY <1>2, FS_FiniteSubsetsOfFinite
<1>4. T \subseteq FiniteSubsetsOf(U) /\ T # {}
  <2>1. \A r \in U : NotBefore(r) \in SUBSET U
    OBVIOUS
  <2>2. PICK r \in U : TRUE
    OBVIOUS
  <2> HIDE DEF U, NotBefore
  <2> QED BY <1>3, <2>1, <2>2
<1>5. IsWellFoundedOn(StrictSubsetOrdering(U), FiniteSubsetsOf(U))
  BY FS_StrictSubsetOrderingWellFounded
<1>6. PICK M \in T : \A N \in T : <<N, M>> \notin StrictSubsetOrdering(U)
  <2> HIDE DEF T
  <2> QED BY <1>4, <1>5, WFMin
<1>7. PICK r \in U : M = NotBefore(r)
  OBVIOUS
<1>8. ASSUME NEW s \in U
      PROVE  Later(r, s)
  <2>1. SUFFICES ASSUME ~ Later(r, s) PROVE FALSE
    OBVIOUS
  <2>2. /\ r.createdAt \in Int /\ r.id \in Int /\ s.createdAt \in Int /\ s.id \in Int
        /\ \A q \in U : q.createdAt \in Int /\ q.id \in Int
    BY <1>1
  <2>3. r \in NotBefore(r) /\ r \notin NotBefore(s)
    BY <2>1, <2>2 DEF Later
  <2>4. NotBefore(s) \subseteq NotBefore(r)
    BY <2>1, <2>2 DEF Later
  <2>5. NotBefore(s) \in T /\ NotBefore(s) \in SUBSET U /\ NotBefore(r) \in SUBSET U
    OBVIOUS
  <2>6. <<NotBefore(s), NotBefore(r)>> \in StrictSubsetOrdering(U)
    <3> HIDE DEF NotBefore
    <3> QED BY <2>3, <2>4, <2>5 DEF StrictSubsetOrdering
  <2> QED BY <1>6, <1>7, <2>5, <2>6
<1>9. DEFINE latest == CHOOSE q \in U : \A s \in U : Later(q, s)
<1>10. latest \in U /\ \A s \in U : Later(latest, s)
  BY <1>8
<1>11. LatestId(R, u) = latest.id
  BY DEF LatestId
<1> QED BY <1>10, <1>11

LEMMA LatestIdType ==
  ASSUME NEW R, NEW u, IsFiniteSet(R),
         \A row \in R : row.createdAt \in Int /\ row.id \in Nat
  PROVE  LatestId(R, u) \in Nat
<1>1. CASE OfUser(R, u) = {}
  BY <1>1 DEF LatestId, NoId
<1>2. CASE OfUser(R, u) # {}
  <2>1. PICK r \in OfUser(R, u) : LatestId(R, u) = r.id
    BY <1>2, LatestRow
  <2> QED BY <2>1 DEF OfUser
<1> QED BY <1>1, <1>2
-----------------------------------------------------------------------------
(***************************************************************************)
(* Rows carry an id, and transactions a date, that was handed out before;  *)
(* rows of one transaction share their date, transfers have ids of their   *)
(* own, and what is waived is paid to a user.                              *)
(***************************************************************************)
RowsInv ==
  /\ \A row \in transactions : row.createdAt < now /\ row.id < nextId
  /\ \A row \in transfers : row.id < nextId
  /\ \A r, s \in transactions : r.id = s.id => r.createdAt = s.createdAt
  /\ \A r, s \in transfers : r.id = s.id => r = s
  /\ \A row \in transfers : row.use = "waivedFines" => row.to \in Users

(***************************************************************************)
(* A handler that will save an updated transaction keeps an id and a date  *)
(* that were handed out before.                                            *)
(***************************************************************************)
HandlerInv ==
  \A h \in Handlers :
    /\ handler[h].pc \in {"transaction.save", "transaction.reload"} => handler[h].update
    /\ handler[h].update => /\ handler[h].id \in 1 .. nextId - 1
                            /\ handler[h].createdAt \in 1 .. now - 1

WellFormed == TypeOK /\ RowsInv /\ HandlerInv

(***************************************************************************)
(* The rows of u that a cache row naming `id` accounts for, what a cache   *)
(* row may name, and that its amount is the sum of what it accounts for.   *)
(***************************************************************************)
Counted(R, id, u) == OfUser(UpTo(R, DateOf(R, id)), u)

NamesOwn(T, F, row, u) ==
  /\ NamesOwnRow(T, row.lastTransaction, u)
  /\ NamesOwnRow(F, row.lastTransfer, u)
  /\ row.lastTransaction = NoId /\ row.lastTransfer = NoId => row = NoRow

Exact(T, F, row, u) ==
  row.amount = Net(Counted(T, row.lastTransaction, u), u) + Net(Counted(F, row.lastTransfer, u), u)

CacheInv ==
  \A u \in Users : /\ NamesOwn(transactions, transfers, cache[u], u)
                   /\ u \notin outdated => Exact(transactions, transfers, cache[u], u)

IInv == WellFormed /\ CacheInv
-----------------------------------------------------------------------------
(***************************************************************************)
(* The rows of a purchase or of an updated transaction are finitely many   *)
(* and well typed.                                                         *)
(***************************************************************************)
TransactionRows(id, from, pays, createdAt) ==
  {[id |-> id, from |-> from, to |-> to, amount |-> pays[to], createdAt |-> createdAt]
     : to \in DOMAIN pays}

LEMMA TransactionRowsType ==
  ASSUME NEW id \in Nat \ {NoId}, NEW from \in Users, NEW pays \in Purchases,
         NEW createdAt \in Nat \ {0}
  PROVE  LET new == TransactionRows(id, from, pays, createdAt)
         IN  /\ new \subseteq Transaction /\ IsFiniteSet(new)
             /\ \A row \in new : row.id = id /\ row.createdAt = createdAt
<1> DEFINE D == DOMAIN pays
           new == TransactionRows(id, from, pays, createdAt)
           f == [to \in D |-> [id |-> id, from |-> from, to |-> to, amount |-> pays[to],
                               createdAt |-> createdAt]]
<1>1. PICK sellers \in SUBSET Users : pays \in [sellers -> Amounts]
  BY DEF Purchases
<1>2. D \in SUBSET Users /\ \A to \in D : pays[to] \in Amounts
  BY <1>1
<1>3. IsFiniteSet(D)
  BY <1>2, FS_Subset, BalanceCacheAssumption
<1>4. f \in Surjection(D, new)
  BY DEF Surjection, TransactionRows
<1>5. IsFiniteSet(new)
  <2> HIDE DEF f, new, D
  <2> QED BY <1>3, <1>4, FS_Surjection
<1>6. new \subseteq Transaction /\ \A row \in new : row.id = id /\ row.createdAt = createdAt
  BY <1>2 DEF Transaction, TransactionRows
<1> QED BY <1>5, <1>6

(***************************************************************************)
(* A set of rows stays finite when rows leave or a finite set joins it.    *)
(***************************************************************************)
LEMMA FiniteRows ==
  ASSUME NEW R, IsFiniteSet(R)
  PROVE  /\ \A S : IsFiniteSet(R \ S)
         /\ \A S : IsFiniteSet(S) => IsFiniteSet(R \cup S)
         /\ \A row : IsFiniteSet(R \cup {row})
BY FS_Difference, FS_Union, FS_Singleton

(***************************************************************************)
(* The initial state is well formed.                                       *)
(***************************************************************************)
LEMMA InitWellFormed == Init => WellFormed
<1> SUFFICES ASSUME Init PROVE WellFormed
  OBVIOUS
<1>1. TypeOK
  BY FS_EmptySet DEF Init, TypeOK, CacheRow, NoRow, NoId, Handler, Idle, Pcs
<1>2. RowsInv
  BY DEF Init, RowsInv
<1>3. HandlerInv
  BY DEF Init, HandlerInv, Idle
<1> QED BY <1>1, <1>2, <1>3 DEF WellFormed

(***************************************************************************)
(* Removing a transfer, from whichever handler, keeps the tables typed and *)
(* their rows well formed.                                                 *)
(***************************************************************************)
LEMMA RemoveTransferWellFormed ==
  ASSUME WellFormed, NEW row \in transfers, RemoveTransfer(row)
  PROVE  /\ transactions' \subseteq Transaction /\ IsFiniteSet(transactions')
         /\ transfers' \subseteq Transfer /\ IsFiniteSet(transfers')
         /\ cache' \in [Users -> CacheRow]
         /\ nextId' = nextId /\ now' = now
         /\ outdated' \subseteq Users
         /\ RowsInv'
<1>1. IsFiniteSet(transfers')
  BY FiniteRows DEF WellFormed, TypeOK, RemoveTransfer
<1>2. cache' \in [Users -> CacheRow]
  BY DEF WellFormed, TypeOK, RemoveTransfer, CascadeTransfer, CacheRow, NoRow, NoId
<1>3. outdated' \subseteq Users
  BY DEF WellFormed, TypeOK, RemoveTransfer, CountTransfer
<1>4. RowsInv'
  BY DEF WellFormed, RowsInv, RemoveTransfer
<1> QED BY <1>1, <1>2, <1>3, <1>4 DEF WellFormed, TypeOK, RemoveTransfer

(***************************************************************************)
(* So does inserting one.                                                  *)
(***************************************************************************)
LEMMA InsertTransferWellFormed ==
  ASSUME WellFormed,
         NEW from \in Accounts, NEW to \in Accounts, NEW amount \in Amounts,
         NEW use \in Uses, NEW createdAt \in Nat \ {0},
         use = "waivedFines" => to \in Users,
         InsertTransfer(from, to, amount, use, createdAt)
  PROVE  /\ transactions' \subseteq Transaction /\ IsFiniteSet(transactions')
         /\ transfers' \subseteq Transfer /\ IsFiniteSet(transfers')
         /\ cache' \in [Users -> CacheRow]
         /\ nextId' = nextId + 1 /\ now' = now + 1
         /\ outdated' \subseteq Users
         /\ RowsInv'
<1> DEFINE new == [id |-> nextId, from |-> from, to |-> to, amount |-> amount,
                   createdAt |-> createdAt, use |-> use]
<1>1. /\ transfers' = transfers \cup {new}
      /\ outdated' = outdated \cup CountTransfer(new)
      /\ nextId' = nextId + 1 /\ now' = now + 1
      /\ UNCHANGED <<transactions, cache>>
  BY DEF InsertTransfer, Tick
<1>2. new \in Transfer
  BY DEF Transfer, WellFormed, TypeOK
<1>3. IsFiniteSet(transfers')
  BY <1>1, FiniteRows DEF WellFormed, TypeOK
<1>4. RowsInv'
  BY <1>1, <1>2 DEF WellFormed, TypeOK, RowsInv, Transaction, Transfer
<1>5. outdated' \subseteq Users
  BY <1>1 DEF WellFormed, TypeOK, CountTransfer
<1> QED BY <1>1, <1>2, <1>3, <1>4, <1>5 DEF WellFormed, TypeOK

(***************************************************************************)
(* Every operation keeps the tables and the handlers well formed.          *)
(***************************************************************************)
LEMMA NextWellFormed == WellFormed /\ [Next]_vars => WellFormed'
<1> SUFFICES ASSUME WellFormed, [Next]_vars PROVE WellFormed'
  OBVIOUS
<1> USE DEF WellFormed, NoId
<1>1. CASE Purchase
  <2>1. PICK from \in Users, pays \in Purchases : CreateTransaction(from, pays)
    BY <1>1 DEF Purchase
  <2> DEFINE new == TransactionRows(nextId, from, pays, now)
  <2>2. /\ transactions' = transactions \cup new
        /\ nextId' = nextId + 1 /\ now' = now + 1
        /\ UNCHANGED <<transfers, cache, handler, outdated>>
    BY <2>1 DEF CreateTransaction, Tick, TransactionRows
  <2>3. /\ new \subseteq Transaction /\ IsFiniteSet(new)
        /\ \A row \in new : row.id = nextId /\ row.createdAt = now
    BY TransactionRowsType DEF TypeOK
  <2> HIDE DEF new
  <2>4. TypeOK'
    BY <2>2, <2>3, FiniteRows DEF TypeOK
  <2>5. RowsInv'
    BY <2>2, <2>3 DEF TypeOK, RowsInv, Transaction, Transfer
  <2>6. HandlerInv'
    BY <2>2 DEF TypeOK, HandlerInv, Handler
  <2> QED BY <2>4, <2>5, <2>6
<1>2. CASE Insert
  <2>1. PICK from \in Accounts, to \in Accounts, amount \in Amounts, date \in 1 .. MaxTime :
          PostTransfer(from, to, amount, date)
    BY <1>2 DEF Insert
  <2>2. /\ InsertTransfer(from, to, amount, "manual", date)
        /\ handler' = handler
        /\ "manual" \in Uses /\ date \in Nat \ {0}
    BY <2>1, BalanceCacheAssumption DEF PostTransfer, Uses
  <2>3. TypeOK' /\ RowsInv'
    BY <2>2, InsertTransferWellFormed DEF TypeOK
  <2>4. HandlerInv'
    BY <2>2, InsertTransferWellFormed DEF TypeOK, HandlerInv, Handler
  <2> QED BY <2>3, <2>4
<1>3. CASE Own
  <2>1. PICK u \in Users, amount \in Amounts, use \in Uses : CreateOwnedTransfer(u, amount, use)
    BY <1>3 DEF Own
  <2>2. /\ \/ InsertTransfer(u, Void, amount, use, now)
           \/ InsertTransfer(Void, u, amount, use, now)
        /\ handler' = handler /\ use # "waivedFines"
        /\ u \in Accounts /\ Void \in Accounts /\ now \in Nat \ {0}
    BY <2>1 DEF CreateOwnedTransfer, Accounts, TypeOK
  <2>3. TypeOK' /\ RowsInv'
    BY <2>2, InsertTransferWellFormed DEF TypeOK
  <2>4. nextId' = nextId + 1 /\ now' = now + 1
    BY <2>2, InsertTransferWellFormed
  <2>5. HandlerInv'
    BY <2>2, <2>4 DEF TypeOK, HandlerInv, Handler
  <2> QED BY <2>3, <2>5
<1>4. CASE PayOutSeller
  <2>1. PICK u \in Users, amount \in Amounts, date \in 1 .. MaxTime :
          CreateSellerPayout(u, amount, date)
    BY <1>4 DEF PayOutSeller
  <2>2. /\ InsertTransfer(u, Void, amount, "sellerPayout", date)
        /\ handler' = handler
        /\ "sellerPayout" \in Uses /\ date \in Nat \ {0}
        /\ u \in Accounts /\ Void \in Accounts
    BY <2>1, BalanceCacheAssumption DEF CreateSellerPayout, Uses, Accounts
  <2>3. TypeOK' /\ RowsInv'
    BY <2>2, InsertTransferWellFormed DEF TypeOK
  <2>4. HandlerInv'
    BY <2>2, InsertTransferWellFormed DEF TypeOK, HandlerInv, Handler
  <2> QED BY <2>3, <2>4
<1>5. CASE RemoveFinesOrPayout
  <2>1. PICK row \in transfers : RemoveTransfer(row) /\ handler' = handler
    BY <1>5 DEF RemoveFinesOrPayout, DeleteSellerPayout, DeleteFine
  <2>2. TypeOK' /\ RowsInv'
    BY <2>1, RemoveTransferWellFormed DEF TypeOK
  <2>3. HandlerInv'
    BY <2>1, RemoveTransferWellFormed DEF HandlerInv
  <2> QED BY <2>2, <2>3
<1>6. CASE Amend
  <2>1. PICK row \in transfers, amount \in Amounts : AmendTransfer(row, amount)
    BY <1>6 DEF Amend, UpdateInvoice, UpdateSellerPayout
  <2> DEFINE amended == [row EXCEPT !.amount = amount]
  <2>2. /\ amended \in Transfer /\ amended.id = row.id /\ amended.createdAt = row.createdAt
        /\ amended.use = row.use /\ amended.to = row.to
    BY DEF TypeOK, Transfer
  <2>3. /\ transfers' = (transfers \ {row}) \cup {amended}
        /\ UNCHANGED <<transactions, cache, nextId, now, handler>>
        /\ outdated' = outdated \cup CountTransfer(row)
    BY <2>1 DEF AmendTransfer
  <2> HIDE DEF amended
  <2>4. TypeOK'
    <3>1. IsFiniteSet(transfers')
      BY <2>3, FiniteRows DEF TypeOK
    <3> QED BY <2>2, <2>3, <3>1 DEF TypeOK, CountTransfer
  <2>5. RowsInv'
    BY <2>2, <2>3 DEF TypeOK, RowsInv
  <2>6. HandlerInv'
    BY <2>3 DEF HandlerInv
  <2> QED BY <2>4, <2>5, <2>6
<1>7. CASE UpdateBalances
  <2>1. \A u \in Users : FreshRow(u) \in CacheRow
    <3> TAKE u \in Users
    <3>1. LedgerBalance(u) \in Int
      BY NetType DEF LedgerBalance, TypeOK
    <3>2. LatestId(transactions, u) \in Nat
      BY LatestIdType DEF TypeOK, Transaction
    <3>3. LatestId(transfers, u) \in Nat
      BY LatestIdType DEF TypeOK, Transfer
    <3> QED BY <3>1, <3>2, <3>3 DEF FreshRow, CacheRow
  <2>2. TypeOK'
    BY <1>7, <2>1 DEF UpdateBalances, TypeOK, rows
  <2>3. RowsInv' /\ HandlerInv'
    BY <1>7 DEF UpdateBalances, RowsInv, HandlerInv, rows
  <2> QED BY <2>2, <2>3
<1>8. ASSUME NEW h \in Handlers, DeleteOrUpdateTransaction(h)
      PROVE  WellFormed'
  <2>1. ASSUME NEW row \in transactions, BeginDeleteTransaction(h, row.id)
        PROVE  WellFormed'
    <3>1. row.id \in Nat
      BY DEF TypeOK, Transaction
    <3>2. TypeOK'
      BY <2>1, <3>1 DEF BeginDeleteTransaction, Start, TypeOK, rows, Handler, Idle, Pcs
    <3>3. RowsInv' /\ HandlerInv'
      BY <2>1, <3>1 DEF BeginDeleteTransaction, Start, TypeOK, rows, RowsInv, HandlerInv,
                        Handler, Idle
    <3> QED BY <3>2, <3>3
  <2>2. ASSUME NEW row \in transactions, BeginUpdateTransaction(h, row.id)
        PROVE  WellFormed'
    <3>1. DateOf(transactions, row.id) = row.createdAt
      BY DateOfRow DEF RowsInv
    <3>2. row.id \in 1 .. nextId - 1 /\ row.createdAt \in 1 .. now - 1
      BY DEF TypeOK, Transaction, RowsInv
    <3>3. handler' \in [Handlers -> Handler]
      <4>1. handler' = [handler EXCEPT ![h] =
              [Idle EXCEPT !.pc = "transaction.findOne", !.update = TRUE, !.id = row.id,
                           !.createdAt = row.createdAt]]
        BY <2>2, <3>1 DEF BeginUpdateTransaction, Start
      <4>2. row.id \in Nat /\ row.createdAt \in Nat
        BY <3>2 DEF TypeOK
      <4> QED BY <4>1, <4>2 DEF TypeOK, Handler, Idle, Pcs
    <3>4. TypeOK'
      BY <2>2, <3>3 DEF BeginUpdateTransaction, TypeOK, rows
    <3>5. RowsInv' /\ HandlerInv'
      BY <2>2, <3>1, <3>2 DEF BeginUpdateTransaction, Start, TypeOK, rows, RowsInv, HandlerInv,
                              Handler, Idle
    <3> QED BY <3>4, <3>5
  <2>3. CASE FindTransaction(h)
    <3> DEFINE found == {row.from : row \in WithId(transactions, handler[h].id)} \cup
                        {row.to : row \in WithId(transactions, handler[h].id)}
    <3>1. found \subseteq Users
      BY DEF WithId, TypeOK, Transaction
    <3>2. /\ handler' = [handler EXCEPT ![h].pc = "transaction.delete", ![h].users = found]
          /\ UNCHANGED <<rows, cache, nextId, now, outdated>>
      BY <2>3 DEF FindTransaction
    <3> HIDE DEF found
    <3>3. handler' \in [Handlers -> Handler]
      <4> DEFINE state == [handler[h] EXCEPT !.pc = "transaction.delete", !.users = found]
      <4>1. handler[h] \in Handler /\ handler \in [Handlers -> Handler]
        BY DEF TypeOK
      <4>2. state \in Handler
        BY <3>1, <4>1 DEF Handler, Pcs
      <4>3. handler' = [handler EXCEPT ![h] = state]
        BY <3>2, <4>1 DEF Handler
      <4> HIDE DEF state
      <4> QED BY <4>1, <4>2, <4>3
    <3>4. TypeOK'
      BY <3>2, <3>3 DEF TypeOK, rows
    <3>5. RowsInv' /\ HandlerInv'
      BY <3>2 DEF TypeOK, rows, RowsInv, HandlerInv, Handler
    <3> QED BY <3>4, <3>5
  <2>4. CASE DeleteTransactionRow(h)
    <3>1. IsFiniteSet(transactions')
      BY <2>4, FiniteRows DEF DeleteTransactionRow, TypeOK
    <3>2. cache' \in [Users -> CacheRow]
      BY <2>4 DEF DeleteTransactionRow, CascadeTransaction, TypeOK, CacheRow, NoRow
    <3>3. outdated' \subseteq Users
      BY <2>4 DEF DeleteTransactionRow, TypeOK, CountTransactions, CountTransaction
    <3>4. handler' \in [Handlers -> Handler]
      BY <2>4 DEF DeleteTransactionRow, TypeOK, Handler, Idle, Pcs
    <3>5. TypeOK'
      BY <2>4, <3>1, <3>2, <3>3, <3>4 DEF DeleteTransactionRow, TypeOK
    <3>6. RowsInv' /\ HandlerInv'
      BY <2>4 DEF DeleteTransactionRow, TypeOK, RowsInv, HandlerInv, Handler, Idle
    <3> QED BY <3>5, <3>6
  <2>5. ASSUME NEW from \in Users, NEW pays \in Purchases, SaveTransaction(h, from, pays)
        PROVE  WellFormed'
    <3> DEFINE id == handler[h].id
               new == TransactionRows(id, from, pays, handler[h].createdAt)
    <3>1. handler[h].update /\ id \in 1 .. nextId - 1 /\ handler[h].createdAt \in 1 .. now - 1
      BY <2>5 DEF SaveTransaction, HandlerInv
    <3>2. /\ WithId(transactions, id) = {}
          /\ transactions' = transactions \cup new
          /\ outdated' = outdated \cup CountTransactions(new)
          /\ handler' = [handler EXCEPT ![h].pc = "transaction.reload"]
          /\ UNCHANGED <<transfers, cache, nextId, now>>
      BY <2>5 DEF SaveTransaction, TransactionRows
    <3>3. /\ new \subseteq Transaction /\ IsFiniteSet(new)
          /\ \A row \in new : row.id = id /\ row.createdAt = handler[h].createdAt
      BY <3>1, TransactionRowsType DEF TypeOK
    <3> HIDE DEF new
    <3>4. handler' \in [Handlers -> Handler]
      BY <3>2 DEF TypeOK, Handler, Pcs
    <3>5. IsFiniteSet(transactions') /\ outdated' \subseteq Users
      BY <3>2, <3>3, FiniteRows DEF TypeOK, CountTransactions, CountTransaction
    <3>6. TypeOK'
      BY <3>2, <3>3, <3>4, <3>5 DEF TypeOK
    <3>7. RowsInv'
      BY <3>1, <3>2, <3>3 DEF TypeOK, RowsInv, WithId
    <3>8. HandlerInv'
      BY <3>1, <3>2 DEF TypeOK, HandlerInv, Handler
    <3> QED BY <3>6, <3>7, <3>8
  <2>6. CASE FailSaveTransaction(h)
    <3>1. TypeOK'
      BY <2>6 DEF FailSaveTransaction, TypeOK, rows, Handler, Idle, Pcs
    <3>2. RowsInv' /\ HandlerInv'
      BY <2>6 DEF FailSaveTransaction, TypeOK, rows, RowsInv, HandlerInv, Handler, Idle
    <3> QED BY <3>1, <3>2
  <2>7. CASE ReloadTransaction(h)
    <3>1. {row.from : row \in WithId(transactions, handler[h].id)} \cup
          {row.to : row \in WithId(transactions, handler[h].id)} \subseteq Users
      BY DEF WithId, TypeOK, Transaction
    <3>2. TypeOK'
      BY <2>7, <3>1 DEF ReloadTransaction, TypeOK, rows, Handler, Idle, Pcs
    <3>3. RowsInv' /\ HandlerInv'
      BY <2>7 DEF ReloadTransaction, TypeOK, rows, RowsInv, HandlerInv, Handler, Idle
    <3> QED BY <3>2, <3>3
  <2> QED BY <1>8, <2>1, <2>2, <2>3, <2>4, <2>5, <2>6, <2>7 DEF DeleteOrUpdateTransaction
<1>9. ASSUME NEW h \in Handlers, DeleteTransfer(h)
      PROVE  WellFormed'
  <2>1. ASSUME NEW row \in transfers, BeginDeleteTransfer(h, row)
        PROVE  WellFormed'
    <3>1. row.id \in Nat
      BY DEF TypeOK, Transfer
    <3>2. TypeOK'
      BY <2>1, <3>1 DEF BeginDeleteTransfer, Start, TypeOK, rows, Handler, Idle, Pcs
    <3>3. RowsInv' /\ HandlerInv'
      BY <2>1, <3>1 DEF BeginDeleteTransfer, Start, TypeOK, rows, RowsInv, HandlerInv, Handler, Idle
    <3> QED BY <3>2, <3>3
  <2>2. CASE DeleteTransferRow(h)
    <3>1. handler' \in [Handlers -> Handler]
      BY <2>2 DEF DeleteTransferRow, TypeOK, Handler, Pcs
    <3>2. CASE WithId(transfers, handler[h].id) = {}
      <4>1. UNCHANGED <<transactions, transfers, cache, nextId, now, outdated>>
        BY <2>2, <3>2 DEF DeleteTransferRow, rows
      <4>2. TypeOK' /\ RowsInv'
        BY <3>1, <4>1 DEF TypeOK, RowsInv
      <4>3. HandlerInv'
        BY <2>2, <4>1 DEF DeleteTransferRow, TypeOK, HandlerInv, Handler
      <4> QED BY <4>2, <4>3
    <3>3. CASE WithId(transfers, handler[h].id) # {}
      <4>1. PICK row \in transfers : RemoveTransfer(row)
        BY <2>2, <3>3 DEF DeleteTransferRow, WithId
      <4>2. TypeOK' /\ RowsInv' /\ nextId' = nextId /\ now' = now
        BY <3>1, <4>1, RemoveTransferWellFormed DEF TypeOK
      <4>3. HandlerInv'
        BY <2>2, <4>2 DEF DeleteTransferRow, TypeOK, HandlerInv, Handler
      <4> QED BY <4>2, <4>3
    <3> QED BY <3>2, <3>3
  <2> QED BY <1>9, <2>1, <2>2 DEF DeleteTransfer
<1>10. ASSUME NEW h \in Handlers, ClearBalanceCache(h)
       PROVE  WellFormed'
  <2>1. TypeOK'
    BY <1>10 DEF ClearBalanceCache, TypeOK, rows, CacheRow, NoRow, NoId, Handler, Idle, Pcs
  <2>2. RowsInv' /\ HandlerInv'
    BY <1>10 DEF ClearBalanceCache, TypeOK, rows, RowsInv, HandlerInv, Handler, Idle
  <2> QED BY <2>1, <2>2
<1>11. ASSUME NEW h \in Handlers, WaiveFines(h)
       PROVE  WellFormed'
  <2>1. ASSUME NEW u \in Users, BeginWaiveFines(h, u)
        PROVE  WellFormed'
    <3>1. TypeOK'
      BY <2>1 DEF BeginWaiveFines, Start, TypeOK, rows, Handler, Idle, Pcs
    <3>2. RowsInv' /\ HandlerInv'
      BY <2>1 DEF BeginWaiveFines, Start, TypeOK, rows, RowsInv, HandlerInv, Handler, Idle
    <3> QED BY <3>1, <3>2
  <2>2. ASSUME NEW row \in transfers, RemoveWaivedTransfer(h, row)
        PROVE  WellFormed'
    <3>1. handler' = [handler EXCEPT ![h] = [Idle EXCEPT !.pc = "waive.create", !.users = {row.to}]]
      BY <2>2 DEF RemoveWaivedTransfer, Start
    <3>2. handler' \in [Handlers -> Handler]
      <4>1. row.to \in Users
        BY <2>2 DEF RemoveWaivedTransfer, RowsInv
      <4> QED BY <3>1, <4>1 DEF TypeOK, Handler, Idle, Pcs
    <3>3. TypeOK' /\ RowsInv' /\ nextId' = nextId /\ now' = now
      BY <2>2, <3>2, RemoveTransferWellFormed DEF RemoveWaivedTransfer, TypeOK
    <3>4. HandlerInv'
      BY <3>1, <3>3 DEF TypeOK, HandlerInv, Handler, Idle
    <3> QED BY <3>3, <3>4
  <2>3. ASSUME NEW amount \in Amounts, CreateWaivedTransfer(h, amount)
        PROVE  WellFormed'
    <3>1. PICK u \in handler[h].users : InsertTransfer(Void, u, amount, "waivedFines", now)
      BY <2>3 DEF CreateWaivedTransfer
    <3>2. /\ u \in Users /\ u \in Accounts /\ Void \in Accounts /\ "waivedFines" \in Uses
          /\ now \in Nat \ {0}
      BY DEF TypeOK, Handler, Accounts, Uses
    <3>3. handler' = [handler EXCEPT ![h] = Idle]
      BY <2>3 DEF CreateWaivedTransfer
    <3>4. handler' \in [Handlers -> Handler]
      BY <3>3 DEF TypeOK, Handler, Idle, Pcs
    <3>5. TypeOK' /\ RowsInv' /\ nextId' = nextId + 1 /\ now' = now + 1
      BY <3>1, <3>2, <3>4, InsertTransferWellFormed DEF TypeOK
    <3>6. HandlerInv'
      BY <3>3, <3>5 DEF TypeOK, HandlerInv, Handler, Idle
    <3> QED BY <3>5, <3>6
  <2> QED BY <1>11, <2>1, <2>2, <2>3 DEF WaiveFines
<1>12. ASSUME NEW h \in Handlers, Crash(h)
       PROVE  WellFormed'
  <2>1. TypeOK'
    BY <1>12 DEF Crash, TypeOK, rows, Handler, Idle, Pcs, NoId
  <2>2. RowsInv' /\ HandlerInv'
    BY <1>12 DEF Crash, TypeOK, rows, RowsInv, HandlerInv, Handler, Idle
  <2> QED BY <2>1, <2>2
<1>13. CASE UNCHANGED vars
  BY <1>13 DEF vars, rows, TypeOK, RowsInv, HandlerInv
<1> QED
  BY <1>1, <1>2, <1>3, <1>4, <1>5, <1>6, <1>7, <1>8, <1>9, <1>10, <1>11, <1>12, <1>13
  DEF Next, Step
-----------------------------------------------------------------------------
(***************************************************************************)
(* Ids and dates were handed out before, the rows of one purchase share a  *)
(* date, and an update in progress has the id and the date of its row.     *)
(***************************************************************************)
THEOREM WellFormedAlways == Spec => []WellFormed
BY InitWellFormed, NextWellFormed, PTL DEF Spec

(***************************************************************************)
(* Type correctness: every reachable state is well typed.                  *)
(***************************************************************************)
THEOREM TypeCorrect == Spec => []TypeOK
<1>1. WellFormed => TypeOK
  BY DEF WellFormed
<1> QED BY <1>1, WellFormedAlways, PTL
-----------------------------------------------------------------------------
(***************************************************************************)
(* What becomes of a cache row of u that names `id` when the rows of a     *)
(* table change: Unseen says that u takes no part in a row or that it is   *)
(* later than the row named, so that it was not counted.                   *)
(***************************************************************************)
Unseen(R, id, u, row) == Involves(row, u) => ~ (row.createdAt <= DateOf(R, id))

(***************************************************************************)
(* Rows with another id join, unseen or not.                               *)
(***************************************************************************)
LEMMA RowsJoin ==
  ASSUME NEW R, NEW new, NEW id, NEW u, WithId(new, id) = {}
  PROVE  /\ NamesOwnRow(R, id, u) => NamesOwnRow(R \cup new, id, u)
         /\ (\A row \in new : Unseen(R, id, u, row))
              => Counted(R \cup new, id, u) = Counted(R, id, u)
<1>1. WithId(R \cup new, id) = WithId(R, id)
  BY DEF WithId
<1>2. DateOf(R \cup new, id) = DateOf(R, id)
  BY <1>1, DateOfSame
<1> QED BY <1>1, <1>2 DEF NamesOwnRow, Counted, OfUser, UpTo, Unseen

(***************************************************************************)
(* Rows with another id leave.                                             *)
(***************************************************************************)
LEMMA RowsLeave ==
  ASSUME NEW R, NEW gone, NEW id, NEW u, WithId(gone, id) = {}
  PROVE  /\ NamesOwnRow(R, id, u) => NamesOwnRow(R \ gone, id, u)
         /\ (\A row \in gone : Unseen(R, id, u, row))
              => Counted(R \ gone, id, u) = Counted(R, id, u)
<1>1. WithId(R \ gone, id) = WithId(R, id)
  BY DEF WithId
<1>2. DateOf(R \ gone, id) = DateOf(R, id)
  BY <1>1, DateOfSame
<1> QED BY <1>1, <1>2 DEF NamesOwnRow, Counted, OfUser, UpTo, Unseen

(***************************************************************************)
(* A row changes its amount only.                                          *)
(***************************************************************************)
LEMMA RowAmendedDate ==
  ASSUME NEW R, NEW row \in R, NEW amended, NEW id,
         \A r, s \in R : r.id = s.id => r = s,
         amended.id = row.id, amended.createdAt = row.createdAt
  PROVE  DateOf((R \ {row}) \cup {amended}, id) = DateOf(R, id)
<1> DEFINE S == (R \ {row}) \cup {amended}
<1>1. CASE id = row.id
  <2>1. DateOf(R, row.id) = row.createdAt
    BY DateOfRow
  <2>2. amended \in S /\ \A r, s \in S : r.id = s.id => r.createdAt = s.createdAt
    OBVIOUS
  <2>3. DateOf(S, amended.id) = amended.createdAt
    <3> HIDE DEF S
    <3> QED BY <2>2, DateOfRow
  <2> QED BY <1>1, <2>1, <2>3
<1>2. CASE id # row.id
  <2>1. WithId(S, id) = WithId(R, id)
    BY <1>2 DEF WithId
  <2> QED BY <2>1, DateOfSame
<1> QED BY <1>1, <1>2

LEMMA RowAmended ==
  ASSUME NEW R, NEW row \in R, NEW amended, NEW id, NEW u,
         \A r, s \in R : r.id = s.id => r = s,
         amended.id = row.id, amended.from = row.from, amended.to = row.to,
         amended.createdAt = row.createdAt
  PROVE  /\ NamesOwnRow(R, id, u) => NamesOwnRow((R \ {row}) \cup {amended}, id, u)
         /\ Unseen(R, id, u, row)
              => Counted((R \ {row}) \cup {amended}, id, u) = Counted(R, id, u)
<1> DEFINE S == (R \ {row}) \cup {amended}
<1>1. NamesOwnRow(R, id, u) => NamesOwnRow(S, id, u)
  BY DEF NamesOwnRow, OfUser, WithId, Involves
<1>2. DateOf(S, id) = DateOf(R, id)
  BY RowAmendedDate
<1>3. Unseen(R, id, u, row)
        => OfUser(UpTo(S, DateOf(R, id)), u) = OfUser(UpTo(R, DateOf(R, id)), u)
  BY DEF OfUser, UpTo, Involves, Unseen
<1> QED BY <1>1, <1>2, <1>3 DEF Counted

(***************************************************************************)
(* The row named last by updateBalances counts every row of the user.      *)
(***************************************************************************)
LEMMA CountedLatest ==
  ASSUME NEW R, NEW u, IsFiniteSet(R),
         \A row \in R : row.createdAt \in Int /\ row.id \in Nat \ {NoId},
         \A r, s \in R : r.id = s.id => r.createdAt = s.createdAt
  PROVE  /\ Counted(R, LatestId(R, u), u) = OfUser(R, u)
         /\ NamesOwnRow(R, LatestId(R, u), u)
         /\ LatestId(R, u) = NoId <=> OfUser(R, u) = {}
<1>1. CASE OfUser(R, u) = {}
  BY <1>1 DEF Counted, OfUser, UpTo, NamesOwnRow, LatestId
<1>2. CASE OfUser(R, u) # {}
  <2>1. PICK r \in OfUser(R, u) :
          LatestId(R, u) = r.id /\ \A s \in OfUser(R, u) : Later(r, s)
    BY <1>2, LatestRow
  <2>2. r \in R
    BY DEF OfUser
  <2>3. DateOf(R, r.id) = r.createdAt
    BY <2>2, DateOfRow
  <2>4. \A s \in OfUser(R, u) : s.createdAt <= r.createdAt
    BY <2>1, <2>2 DEF Later, OfUser
  <2>5. Counted(R, r.id, u) = OfUser(R, u)
    BY <2>3, <2>4 DEF Counted, OfUser, UpTo
  <2>6. NamesOwnRow(R, r.id, u)
    BY <2>2 DEF NamesOwnRow, OfUser, WithId
  <2> QED BY <1>2, <2>1, <2>2, <2>5, <2>6
<1> QED BY <1>1, <1>2

(***************************************************************************)
(* A user without a cache row: nothing is counted, and the amount is zero. *)
(***************************************************************************)
LEMMA NoRowExact ==
  ASSUME NEW T, NEW F, NEW u,
         \A row \in T \cup F : row.id \in Nat \ {NoId} /\ row.createdAt \in Nat \ {0}
  PROVE  NamesOwn(T, F, NoRow, u) /\ Exact(T, F, NoRow, u)
<1>1. WithId(T, NoId) = {} /\ WithId(F, NoId) = {}
  BY DEF WithId
<1>2. DateOf(T, NoId) = 0 /\ DateOf(F, NoId) = 0
  BY <1>1, DateOfNoRow
<1>3. Counted(T, NoId, u) = {} /\ Counted(F, NoId, u) = {}
  BY <1>2 DEF Counted, OfUser, UpTo
<1>4. Net({}, u) = 0
  BY NetEmpty
<1>5. NoRow.amount = 0 /\ NoRow.lastTransaction = NoId /\ NoRow.lastTransfer = NoId
  BY DEF NoRow
<1>6. Exact(T, F, NoRow, u)
  BY <1>3, <1>4, <1>5 DEF Exact
<1> QED BY <1>5, <1>6 DEF NamesOwn, NamesOwnRow

(***************************************************************************)
(* The rows updateBalances writes.                                         *)
(***************************************************************************)
LEMMA FreshRowExact ==
  ASSUME WellFormed, NEW u \in Users, HasMoney(u)
  PROVE  /\ NamesOwn(transactions, transfers, FreshRow(u), u)
         /\ Exact(transactions, transfers, FreshRow(u), u)
<1>1. /\ Counted(transactions, LatestId(transactions, u), u) = OfUser(transactions, u)
      /\ NamesOwnRow(transactions, LatestId(transactions, u), u)
      /\ LatestId(transactions, u) = NoId <=> OfUser(transactions, u) = {}
  BY CountedLatest DEF WellFormed, TypeOK, RowsInv, Transaction
<1>2. /\ Counted(transfers, LatestId(transfers, u), u) = OfUser(transfers, u)
      /\ NamesOwnRow(transfers, LatestId(transfers, u), u)
      /\ LatestId(transfers, u) = NoId <=> OfUser(transfers, u) = {}
  BY CountedLatest DEF WellFormed, TypeOK, RowsInv, Transfer
<1>3. /\ Net(OfUser(transactions, u), u) = Net(transactions, u)
      /\ Net(OfUser(transfers, u), u) = Net(transfers, u)
  <2>1. /\ OfUser(OfUser(transactions, u), u) = OfUser(transactions, u)
        /\ OfUser(OfUser(transfers, u), u) = OfUser(transfers, u)
    BY DEF OfUser
  <2> QED BY <2>1, NetOfUser
<1>4. ~ (LatestId(transactions, u) = NoId /\ LatestId(transfers, u) = NoId)
  BY <1>1, <1>2 DEF HasMoney
<1>5. NamesOwn(transactions, transfers, FreshRow(u), u)
  BY <1>1, <1>2, <1>4 DEF NamesOwn, FreshRow
<1>6. Exact(transactions, transfers, FreshRow(u), u)
  BY <1>1, <1>2, <1>3 DEF Exact, FreshRow, LedgerBalance
<1> QED BY <1>5, <1>6
-----------------------------------------------------------------------------
(***************************************************************************)
(* CacheInv for one user.                                                  *)
(***************************************************************************)
UserInv(u) ==
  /\ NamesOwn(transactions, transfers, cache[u], u)
  /\ u \notin outdated => Exact(transactions, transfers, cache[u], u)

(***************************************************************************)
(* A step that leaves the user's cache row in place keeps it right if the  *)
(* rows it names stay and, unless the user is outdated now, so do the rows *)
(* it counts.                                                              *)
(***************************************************************************)
LEMMA KeptRow ==
  ASSUME NEW u \in Users, UserInv(u), cache'[u] = cache[u],
         NamesOwnRow(transactions, cache[u].lastTransaction, u)
           => NamesOwnRow(transactions', cache[u].lastTransaction, u),
         NamesOwnRow(transfers, cache[u].lastTransfer, u)
           => NamesOwnRow(transfers', cache[u].lastTransfer, u),
         u \notin outdated'
           => /\ u \notin outdated
              /\ Counted(transactions', cache[u].lastTransaction, u)
                   = Counted(transactions, cache[u].lastTransaction, u)
              /\ Counted(transfers', cache[u].lastTransfer, u)
                   = Counted(transfers, cache[u].lastTransfer, u)
  PROVE  UserInv(u)'
BY DEF UserInv, NamesOwn, Exact

(***************************************************************************)
(* A user without a cache row is right whatever happened.                  *)
(***************************************************************************)
LEMMA ClearedRow ==
  ASSUME WellFormed', NEW u \in Users, cache'[u] = NoRow
  PROVE  UserInv(u)'
<1>1. \A row \in transactions' \cup transfers' :
        row.id \in Nat \ {NoId} /\ row.createdAt \in Nat \ {0}
  BY DEF WellFormed, TypeOK, Transaction, Transfer
<1>2. /\ NamesOwn(transactions', transfers', NoRow, u)
      /\ Exact(transactions', transfers', NoRow, u)
  BY <1>1, NoRowExact
<1> QED BY <1>2 DEF UserInv

(***************************************************************************)
(* A cache row never names an id that is still to be handed out.           *)
(***************************************************************************)
LEMMA NamedIdsAreOld ==
  ASSUME WellFormed, NEW u \in Users, UserInv(u)
  PROVE  cache[u].lastTransaction # nextId /\ cache[u].lastTransfer # nextId
BY DEF WellFormed, TypeOK, RowsInv, Transaction, Transfer, UserInv, NamesOwn, NamesOwnRow,
       OfUser, WithId, NoId

(***************************************************************************)
(* The dates a cache row counts up to; that of a transaction is past.      *)
(***************************************************************************)
LEMMA DateType ==
  ASSUME NEW R, NEW id, \A row \in R : row.createdAt \in Nat,
         \A r, s \in R : r.id = s.id => r.createdAt = s.createdAt
  PROVE  /\ DateOf(R, id) \in Nat
         /\ \A date \in Nat \ {0} : (\A row \in R : row.createdAt < date) => DateOf(R, id) < date
<1>1. CASE WithId(R, id) = {}
  BY <1>1, DateOfNoRow
<1>2. CASE WithId(R, id) # {}
  <2>1. PICK row \in R : row.id = id
    BY <1>2 DEF WithId
  <2> QED BY <2>1, DateOfRow
<1> QED BY <1>1, <1>2

LEMMA CountedDates ==
  ASSUME WellFormed, NEW u \in Users
  PROVE  /\ LastTransactionDate(u) \in Nat /\ LastTransactionDate(u) < now
         /\ LastTransferDate(u) \in Nat
<1>1. /\ \A row \in transactions : row.createdAt \in Nat /\ row.createdAt < now
      /\ \A row \in transfers : row.createdAt \in Nat
      /\ \A r, s \in transactions : r.id = s.id => r.createdAt = s.createdAt
      /\ \A r, s \in transfers : r.id = s.id => r.createdAt = s.createdAt
      /\ now \in Nat \ {0}
  BY DEF WellFormed, TypeOK, RowsInv, Transaction, Transfer
<1> QED BY <1>1, DateType DEF LastTransactionDate, LastTransferDate

(***************************************************************************)
(* Inserting a transfer, by any handler.                                   *)
(***************************************************************************)
LEMMA InsertTransferCache ==
  ASSUME WellFormed, NEW u \in Users, UserInv(u),
         NEW from, NEW to, NEW amount, NEW use, NEW createdAt,
         InsertTransfer(from, to, amount, use, createdAt)
  PROVE  UserInv(u)'
<1> DEFINE row == [id |-> nextId, from |-> from, to |-> to, amount |-> amount,
                   createdAt |-> createdAt, use |-> use]
           id == cache[u].lastTransfer
<1>1. /\ transfers' = transfers \cup {row}
      /\ outdated' = outdated \cup CountTransfer(row)
      /\ transactions' = transactions /\ cache' = cache
  BY DEF InsertTransfer
<1>2. WithId({row}, id) = {}
  BY NamedIdsAreOld DEF WithId
<1>3. u \notin outdated' => \A r \in {row} : Unseen(transfers, id, u, r)
  BY <1>1 DEF CountTransfer, LastTransferDate, Unseen
<1> HIDE DEF row
<1>4. /\ NamesOwnRow(transfers, id, u) => NamesOwnRow(transfers', id, u)
      /\ u \notin outdated' => Counted(transfers', id, u) = Counted(transfers, id, u)
  BY <1>1, <1>2, <1>3, RowsJoin
<1> QED BY <1>1, <1>4, KeptRow

(***************************************************************************)
(* Removing one.                                                           *)
(***************************************************************************)
LEMMA RemoveTransferCache ==
  ASSUME WellFormed, WellFormed', NEW u \in Users, UserInv(u),
         NEW row \in transfers, RemoveTransfer(row)
  PROVE  UserInv(u)'
<1> DEFINE id == cache[u].lastTransfer
<1>1. /\ transfers' = transfers \ {row}
      /\ transactions' = transactions
      /\ cache'[u] = IF id = row.id THEN NoRow ELSE cache[u]
      /\ cache'[u] # NoRow => (u \notin outdated' => u \notin outdated \cup CountTransfer(row))
  BY DEF RemoveTransfer, CascadeTransfer
<1>2. CASE cache'[u] = NoRow
  BY <1>2, ClearedRow
<1>3. CASE cache'[u] # NoRow
  <2>1. cache'[u] = cache[u] /\ WithId({row}, id) = {}
    BY <1>1, <1>3 DEF WithId
  <2>2. u \notin outdated' => \A r \in {row} : Unseen(transfers, id, u, r)
    BY <1>1, <1>3 DEF CountTransfer, LastTransferDate, Unseen
  <2>3. /\ NamesOwnRow(transfers, id, u) => NamesOwnRow(transfers', id, u)
        /\ u \notin outdated' => Counted(transfers', id, u) = Counted(transfers, id, u)
    BY <1>1, <2>1, <2>2, RowsLeave
  <2> QED BY <1>1, <1>3, <2>1, <2>3, KeptRow
<1> QED BY <1>2, <1>3

(***************************************************************************)
(* Inserting the rows of a transaction, new or updated.                    *)
(***************************************************************************)
LEMMA InsertTransactionsCache ==
  ASSUME NEW u \in Users, UserInv(u), NEW new,
         WithId(new, cache[u].lastTransaction) = {},
         transactions' = transactions \cup new,
         u \notin outdated' => u \notin outdated \cup CountTransactions(new),
         transfers' = transfers, cache' = cache
  PROVE  UserInv(u)'
<1> DEFINE id == cache[u].lastTransaction
<1>1. u \notin outdated' => \A r \in new : Unseen(transactions, id, u, r)
  BY DEF CountTransactions, CountTransaction, LastTransactionDate, Unseen
<1>2. /\ NamesOwnRow(transactions, id, u) => NamesOwnRow(transactions', id, u)
      /\ u \notin outdated' => Counted(transactions', id, u) = Counted(transactions, id, u)
  BY <1>1, RowsJoin
<1> QED BY <1>2, KeptRow

(***************************************************************************)
(* The steps that only a handler notices.                                  *)
(***************************************************************************)
LEMMA QuietStep ==
  ASSUME NEW u \in Users, UserInv(u),
         UNCHANGED <<transactions, transfers, cache, outdated>>
  PROVE  UserInv(u)'
BY DEF UserInv

(***************************************************************************)
(* Every operation keeps every cache row right.                            *)
(***************************************************************************)
LEMMA NextCacheInv ==
  ASSUME WellFormed, WellFormed', CacheInv, [Next]_vars
  PROVE  CacheInv'
<1> SUFFICES ASSUME NEW u \in Users PROVE UserInv(u)'
  BY DEF CacheInv, UserInv
<1>0. UserInv(u)
  BY DEF CacheInv, UserInv
<1>1. CASE Purchase
  <2>1. PICK from \in Users, pays \in Purchases : CreateTransaction(from, pays)
    BY <1>1 DEF Purchase
  <2> DEFINE new == TransactionRows(nextId, from, pays, now)
  <2>2. /\ transactions' = transactions \cup new
        /\ UNCHANGED <<transfers, cache, outdated>>
    BY <2>1 DEF CreateTransaction, TransactionRows
  <2>3. \A row \in new : row.id = nextId /\ row.createdAt = now
    BY DEF TransactionRows
  <2> HIDE DEF new
  <2>4. WithId(new, cache[u].lastTransaction) = {}
    BY <1>0, <2>3, NamedIdsAreOld DEF WithId
  <2>5. u \notin CountTransactions(new)
    <3>1. LastTransactionDate(u) \in Nat /\ LastTransactionDate(u) < now /\ now \in Nat
      BY CountedDates DEF WellFormed, TypeOK
    <3> QED BY <2>3, <3>1 DEF CountTransactions, CountTransaction
  <2> QED BY <1>0, <2>2, <2>4, <2>5, InsertTransactionsCache
<1>2. CASE Insert \/ Own \/ PayOutSeller
  BY <1>0, <1>2, InsertTransferCache
  DEF Insert, PostTransfer, Own, CreateOwnedTransfer, PayOutSeller, CreateSellerPayout
<1>3. CASE RemoveFinesOrPayout
  BY <1>0, <1>3, RemoveTransferCache DEF RemoveFinesOrPayout, DeleteSellerPayout, DeleteFine
<1>4. CASE Amend
  <2>1. PICK row \in transfers, amount \in Amounts : AmendTransfer(row, amount)
    BY <1>4 DEF Amend, UpdateInvoice, UpdateSellerPayout
  <2> DEFINE amended == [row EXCEPT !.amount = amount]
             id == cache[u].lastTransfer
  <2>2. /\ amended.id = row.id /\ amended.from = row.from /\ amended.to = row.to
        /\ amended.createdAt = row.createdAt
    BY DEF WellFormed, TypeOK, Transfer
  <2>3. /\ transfers' = (transfers \ {row}) \cup {amended}
        /\ transactions' = transactions /\ cache' = cache
        /\ outdated' = outdated \cup CountTransfer(row)
    BY <2>1 DEF AmendTransfer
  <2>4. u \notin outdated' => u \notin outdated /\ Unseen(transfers, id, u, row)
    BY <2>3 DEF CountTransfer, LastTransferDate, Unseen
  <2> HIDE DEF amended
  <2>5. /\ NamesOwnRow(transfers, id, u) => NamesOwnRow(transfers', id, u)
        /\ Unseen(transfers, id, u, row) => Counted(transfers', id, u) = Counted(transfers, id, u)
    <3>1. \A r, s \in transfers : r.id = s.id => r = s
      BY DEF WellFormed, RowsInv
    <3> HIDE DEF id
    <3>2. /\ NamesOwnRow(transfers, id, u)
               => NamesOwnRow((transfers \ {row}) \cup {amended}, id, u)
          /\ Unseen(transfers, id, u, row)
               => Counted((transfers \ {row}) \cup {amended}, id, u) = Counted(transfers, id, u)
      BY <2>2, <3>1, RowAmended
    <3> QED BY <2>3, <3>2
  <2> QED BY <1>0, <2>3, <2>4, <2>5, KeptRow
<1>5. CASE UpdateBalances
  <2>1. UNCHANGED <<transactions, transfers>>
    BY <1>5 DEF UpdateBalances, rows
  <2>2. CASE HasMoney(u)
    <3>1. cache'[u] = FreshRow(u)
      BY <1>5, <2>2 DEF UpdateBalances
    <3> QED BY <2>1, <2>2, <3>1, FreshRowExact DEF UserInv
  <2>3. CASE ~ HasMoney(u)
    <3>1. cache'[u] = cache[u]
      BY <1>5, <2>3 DEF UpdateBalances
    <3>2. cache[u] = NoRow
      BY <1>0, <2>3 DEF UserInv, NamesOwn, NamesOwnRow, HasMoney, OfUser, WithId
    <3> QED BY <3>1, <3>2, ClearedRow
  <2> QED BY <2>2, <2>3
<1>6. ASSUME NEW h \in Handlers, DeleteOrUpdateTransaction(h)
      PROVE  UserInv(u)'
  <2>1. CASE DeleteTransactionRow(h)
    <3> DEFINE gone == WithId(transactions, handler[h].id)
               id == cache[u].lastTransaction
    <3>1. /\ transactions' = transactions \ gone
          /\ transfers' = transfers
          /\ cache'[u] = IF id = handler[h].id THEN NoRow ELSE cache[u]
          /\ cache'[u] # NoRow => (u \notin outdated' => u \notin outdated \cup CountTransactions(gone))
      BY <2>1 DEF DeleteTransactionRow, CascadeTransaction
    <3>2. CASE cache'[u] = NoRow
      BY <3>2, ClearedRow
    <3>3. CASE cache'[u] # NoRow
      <4>1. cache'[u] = cache[u] /\ WithId(gone, id) = {}
        BY <3>1, <3>3 DEF WithId
      <4>2. u \notin outdated' => \A r \in gone : Unseen(transactions, id, u, r)
        BY <3>1, <3>3 DEF CountTransactions, CountTransaction, LastTransactionDate, Unseen
      <4> HIDE DEF gone
      <4>3. /\ NamesOwnRow(transactions, id, u) => NamesOwnRow(transactions', id, u)
            /\ u \notin outdated' => Counted(transactions', id, u) = Counted(transactions, id, u)
        BY <3>1, <4>1, <4>2, RowsLeave
      <4> QED BY <1>0, <3>1, <3>3, <4>1, <4>3, KeptRow
    <3> QED BY <3>2, <3>3
  <2>2. ASSUME NEW from \in Users, NEW pays \in Purchases, SaveTransaction(h, from, pays)
        PROVE  UserInv(u)'
    <3> DEFINE new == TransactionRows(handler[h].id, from, pays, handler[h].createdAt)
    <3>1. /\ WithId(transactions, handler[h].id) = {}
          /\ transactions' = transactions \cup new
          /\ outdated' = outdated \cup CountTransactions(new)
          /\ UNCHANGED <<transfers, cache>>
          /\ handler[h].id # NoId
      BY <2>2 DEF SaveTransaction, TransactionRows, WellFormed, HandlerInv, NoId
    <3>2. \A row \in new : row.id = handler[h].id
      BY DEF TransactionRows
    <3>3. cache[u].lastTransaction # handler[h].id
      BY <1>0, <3>1 DEF UserInv, NamesOwn, NamesOwnRow, OfUser
    <3> HIDE DEF new
    <3>4. WithId(new, cache[u].lastTransaction) = {}
      BY <3>2, <3>3 DEF WithId
    <3> QED BY <1>0, <3>1, <3>4, InsertTransactionsCache
  <2>3. CASE \/ \E row \in transactions : \/ BeginDeleteTransaction(h, row.id)
                                          \/ BeginUpdateTransaction(h, row.id)
             \/ FindTransaction(h) \/ FailSaveTransaction(h) \/ ReloadTransaction(h)
    BY <1>0, <2>3, QuietStep
    DEF BeginDeleteTransaction, BeginUpdateTransaction, FindTransaction, FailSaveTransaction,
        ReloadTransaction, rows
  <2> QED BY <1>6, <2>1, <2>2, <2>3 DEF DeleteOrUpdateTransaction
<1>7. ASSUME NEW h \in Handlers, DeleteTransfer(h)
      PROVE  UserInv(u)'
  <2>1. CASE \E row \in transfers : BeginDeleteTransfer(h, row)
    BY <1>0, <2>1, QuietStep DEF BeginDeleteTransfer, rows
  <2>2. CASE DeleteTransferRow(h)
    <3>1. CASE WithId(transfers, handler[h].id) = {}
      BY <1>0, <2>2, <3>1, QuietStep DEF DeleteTransferRow, rows
    <3>2. CASE WithId(transfers, handler[h].id) # {}
      <4>1. PICK row \in transfers : RemoveTransfer(row)
        BY <2>2, <3>2 DEF DeleteTransferRow, WithId
      <4> QED BY <1>0, <4>1, RemoveTransferCache
    <3> QED BY <3>1, <3>2
  <2> QED BY <1>7, <2>1, <2>2 DEF DeleteTransfer
<1>8. ASSUME NEW h \in Handlers, ClearBalanceCache(h)
      PROVE  UserInv(u)'
  <2>1. CASE u \in handler[h].users
    BY <1>8, <2>1, ClearedRow DEF ClearBalanceCache
  <2>2. CASE u \notin handler[h].users
    BY <1>0, <1>8, <2>2 DEF ClearBalanceCache, rows, UserInv
  <2> QED BY <2>1, <2>2
<1>9. ASSUME NEW h \in Handlers, WaiveFines(h)
      PROVE  UserInv(u)'
  <2>1. CASE \E w \in Users : BeginWaiveFines(h, w)
    BY <1>0, <2>1, QuietStep DEF BeginWaiveFines, rows
  <2>2. CASE \E row \in transfers : RemoveWaivedTransfer(h, row)
    BY <1>0, <2>2, RemoveTransferCache DEF RemoveWaivedTransfer
  <2>3. CASE \E amount \in Amounts : CreateWaivedTransfer(h, amount)
    BY <1>0, <2>3, InsertTransferCache DEF CreateWaivedTransfer
  <2> QED BY <1>9, <2>1, <2>2, <2>3 DEF WaiveFines
<1>10. ASSUME NEW h \in Handlers, Crash(h)
       PROVE  UserInv(u)'
  BY <1>0, <1>10, QuietStep DEF Crash, rows
<1>11. CASE UNCHANGED vars
  BY <1>0, <1>11, QuietStep DEF vars, rows
<1> QED
  BY <1>1, <1>2, <1>3, <1>4, <1>5, <1>6, <1>7, <1>8, <1>9, <1>10, <1>11 DEF Next, Step

LEMMA InitInvariant == Init => IInv
<1> SUFFICES ASSUME Init PROVE IInv
  OBVIOUS
<1>1. WellFormed
  BY InitWellFormed
<1>2. \A u \in Users : cache[u] = NoRow
  BY DEF Init
<1>3. \A row \in transactions \cup transfers :
        row.id \in Nat \ {NoId} /\ row.createdAt \in Nat \ {0}
  BY DEF Init
<1>4. CacheInv
  BY <1>2, <1>3, NoRowExact DEF CacheInv
<1> QED BY <1>1, <1>4 DEF IInv

(***************************************************************************)
(* The invariant holds in every reachable state.                           *)
(***************************************************************************)
THEOREM InvariantAlways == Spec => []IInv
<1>1. IInv /\ [Next]_vars => IInv'
  BY NextWellFormed, NextCacheInv DEF IInv
<1> QED BY <1>1, InitInvariant, PTL DEF Spec
-----------------------------------------------------------------------------
(***************************************************************************)
(* A cache row names rows of its own user only, and a user without rows    *)
(* has none.                                                               *)
(***************************************************************************)
THEOREM CacheNamesOwnRowsAlways == Spec => []CacheNamesOwnRows
<1>1. IInv => CacheNamesOwnRows
  BY DEF IInv, CacheInv, NamesOwn, CacheNamesOwnRows, NamesOwnRow, HasMoney, OfUser, WithId
<1> QED BY <1>1, InvariantAlways, PTL

(***************************************************************************)
(* A sum over a table is what a cache row counts and what comes after.     *)
(***************************************************************************)
LEMMA CountedAndAfter ==
  ASSUME NEW R, NEW u, NEW id, IsFiniteSet(R), DateOf(R, id) \in Nat,
         \A row \in R : row.createdAt \in Int
  PROVE  /\ Net(R, u) = Net(Counted(R, id, u), u) + Net(After(R, DateOf(R, id)), u)
         /\ Net(Counted(R, id, u), u) \in Int
         /\ Net(After(R, DateOf(R, id)), u) \in Int
<1> DEFINE date == DateOf(R, id)
<1>1. /\ Net(R, u) = Net(UpTo(R, date), u) + Net(After(R, date), u)
      /\ Net(UpTo(R, date), u) \in Int /\ Net(After(R, date), u) \in Int
  BY NetSplit
<1>2. OfUser(Counted(R, id, u), u) = OfUser(UpTo(R, date), u)
  BY DEF Counted, OfUser
<1>3. Net(Counted(R, id, u), u) = Net(UpTo(R, date), u)
  BY <1>2, NetOfUser
<1> QED BY <1>1, <1>3

(***************************************************************************)
(* The rows the proofs speak of have integer dates.                        *)
(***************************************************************************)
LEMMA RowDates ==
  ASSUME WellFormed
  PROVE  /\ IsFiniteSet(transactions) /\ \A row \in transactions : row.createdAt \in Int
         /\ IsFiniteSet(transfers) /\ \A row \in transfers : row.createdAt \in Int
BY DEF WellFormed, TypeOK, Transaction, Transfer

(***************************************************************************)
(* The balance shown to a user who is not outdated is the sum of the event *)
(* tables, in every state and whatever the handlers are doing.             *)
(***************************************************************************)
LEMMA ExactBalance ==
  ASSUME WellFormed, NEW u \in Users, Exact(transactions, transfers, cache[u], u)
  PROVE  getBalance(u) = LedgerBalance(u)
<1> DEFINE T == cache[u].lastTransaction
           F == cache[u].lastTransfer
<1>1. /\ Net(transactions, u) = Net(Counted(transactions, T, u), u)
                                 + Net(After(transactions, LastTransactionDate(u)), u)
      /\ Net(Counted(transactions, T, u), u) \in Int
      /\ Net(After(transactions, LastTransactionDate(u)), u) \in Int
  BY CountedDates, CountedAndAfter, RowDates DEF LastTransactionDate
<1>2. /\ Net(transfers, u) = Net(Counted(transfers, F, u), u)
                              + Net(After(transfers, LastTransferDate(u)), u)
      /\ Net(Counted(transfers, F, u), u) \in Int
      /\ Net(After(transfers, LastTransferDate(u)), u) \in Int
  BY CountedDates, CountedAndAfter, RowDates DEF LastTransferDate
<1>3. cache[u].amount = Net(Counted(transactions, T, u), u) + Net(Counted(transfers, F, u), u)
  BY DEF Exact
<1> QED BY <1>1, <1>2, <1>3 DEF getBalance, LedgerBalance

(***************************************************************************)
(* getBalances shows every user who is not outdated the sum of the event   *)
(* tables, whatever handlers, crashes and the nightly sync are up to.      *)
(***************************************************************************)
THEOREM BalanceIsLedgerAlways == Spec => []BalanceIsLedger
<1>1. IInv => BalanceIsLedger
  BY ExactBalance DEF IInv, CacheInv, BalanceIsLedger
<1> QED BY <1>1, InvariantAlways, PTL

(***************************************************************************)
(* The rows up to a later date are those up to an earlier one and those    *)
(* between the two.                                                        *)
(***************************************************************************)
LEMMA NetBetween ==
  ASSUME NEW R, NEW u, NEW first \in Nat, NEW date \in Nat, first <= date, IsFiniteSet(R),
         \A row \in R : row.createdAt \in Int
  PROVE  /\ Net(UpTo(R, date), u) = Net(UpTo(R, first), u) + Net(UpTo(After(R, first), date), u)
         /\ Net(UpTo(R, first), u) \in Int
         /\ Net(UpTo(After(R, first), date), u) \in Int
<1> DEFINE S == UpTo(R, date)
<1>1. S \in SUBSET R
  BY DEF UpTo
<1>2. IsFiniteSet(S) /\ \A row \in S : row.createdAt \in Int
  BY <1>1, FS_Subset
<1>3. UpTo(S, first) = UpTo(R, first) /\ After(S, first) = UpTo(After(R, first), date)
  BY DEF UpTo, After
<1> HIDE DEF S
<1>4. /\ Net(S, u) = Net(UpTo(S, first), u) + Net(After(S, first), u)
      /\ Net(UpTo(S, first), u) \in Int /\ Net(After(S, first), u) \in Int
  BY <1>2, NetSplit
<1> QED BY <1>3, <1>4 DEF S

(***************************************************************************)
(* So is the balance on any date, through the cache row or without it.     *)
(***************************************************************************)
LEMMA ExactHistory ==
  ASSUME WellFormed, NEW u \in Users, Exact(transactions, transfers, cache[u], u),
         NEW date \in Nat
  PROVE  getBalanceAt(u, date) = LedgerBalanceAt(u, date)
<1>1. CASE ~ UsableAt(u, date)
  BY <1>1 DEF getBalanceAt, LedgerBalanceAt
<1>2. CASE UsableAt(u, date)
  <2> DEFINE t == LastTransactionDate(u)
             f == LastTransferDate(u)
  <2>1. t \in Nat /\ f \in Nat /\ t <= date /\ f <= date
    BY <1>2, CountedDates DEF UsableAt
  <2>2. /\ Net(UpTo(transactions, date), u)
              = Net(UpTo(transactions, t), u) + Net(UpTo(After(transactions, t), date), u)
        /\ Net(UpTo(transactions, t), u) \in Int
        /\ Net(UpTo(After(transactions, t), date), u) \in Int
    BY <2>1, NetBetween, RowDates
  <2>3. /\ Net(UpTo(transfers, date), u)
              = Net(UpTo(transfers, f), u) + Net(UpTo(After(transfers, f), date), u)
        /\ Net(UpTo(transfers, f), u) \in Int
        /\ Net(UpTo(After(transfers, f), date), u) \in Int
    BY <2>1, NetBetween, RowDates
  <2>4. /\ OfUser(Counted(transactions, cache[u].lastTransaction, u), u)
              = OfUser(UpTo(transactions, t), u)
        /\ OfUser(Counted(transfers, cache[u].lastTransfer, u), u) = OfUser(UpTo(transfers, f), u)
    BY DEF Counted, OfUser, LastTransactionDate, LastTransferDate
  <2>5. cache[u].amount = Net(UpTo(transactions, t), u) + Net(UpTo(transfers, f), u)
    BY <2>4, NetOfUser DEF Exact
  <2>6. getBalanceAt(u, date) = cache[u].amount + Net(UpTo(After(transactions, t), date), u)
                                + Net(UpTo(After(transfers, f), date), u)
    BY <1>2 DEF getBalanceAt
  <2> QED BY <2>2, <2>3, <2>5, <2>6 DEF LedgerBalanceAt
<1> QED BY <1>1, <1>2

(***************************************************************************)
(* getBalances with a date in the past shows the sum of the rows up to it. *)
(***************************************************************************)
THEOREM HistoryIsLedgerAlways == Spec => []HistoryIsLedger
<1>1. IInv => HistoryIsLedger
  <2> SUFFICES ASSUME IInv, NEW u \in Users \ outdated, NEW date \in 0 .. now
               PROVE  getBalanceAt(u, date) = LedgerBalanceAt(u, date)
    BY DEF HistoryIsLedger
  <2>1. date \in Nat
    BY DEF IInv, WellFormed, TypeOK
  <2> QED BY <2>1, ExactHistory DEF IInv, CacheInv
<1> QED BY <1>1, InvariantAlways, PTL

(***************************************************************************)
(* updateBalances leaves every user with the right balance, however the    *)
(* cache went wrong before.                                                *)
(***************************************************************************)
THEOREM SyncRepairsAlways == Spec => SyncRepairs
<1>1. IInv => BalanceIsLedger
  BY ExactBalance DEF IInv, CacheInv, BalanceIsLedger
<1>2. BalanceIsLedger' /\ UpdateBalances
        => \A u \in Users : getBalance(u)' = LedgerBalance(u)'
  BY DEF BalanceIsLedger, UpdateBalances
<1> QED BY <1>1, <1>2, InvariantAlways, PTL DEF SyncRepairs
-----------------------------------------------------------------------------
(***************************************************************************)
(* The rows of u that come on top of a cache row naming `id`, and what it  *)
(* means that a row of the table is counted already.                       *)
(***************************************************************************)
OnTop(R, id, u) == OfUser(After(R, DateOf(R, id)), u)

Seen(R, id, u, row) == Involves(row, u) => row.createdAt <= DateOf(R, id)

LEMMA SeenRowsJoin ==
  ASSUME NEW R, NEW new, NEW id, NEW u, WithId(new, id) = {},
         DateOf(R, id) \in Int, \A row \in new : row.createdAt \in Int,
         \A row \in new : Seen(R, id, u, row)
  PROVE  OnTop(R \cup new, id, u) = OnTop(R, id, u)
<1>1. WithId(R \cup new, id) = WithId(R, id)
  BY DEF WithId
<1>2. DateOf(R \cup new, id) = DateOf(R, id)
  BY <1>1, DateOfSame
<1> QED BY <1>2 DEF OnTop, OfUser, After, Seen

LEMMA SeenRowsLeave ==
  ASSUME NEW R, NEW gone, NEW id, NEW u, WithId(gone, id) = {},
         DateOf(R, id) \in Int, \A row \in gone : row.createdAt \in Int,
         \A row \in gone : Seen(R, id, u, row)
  PROVE  OnTop(R \ gone, id, u) = OnTop(R, id, u)
<1>1. WithId(R \ gone, id) = WithId(R, id)
  BY DEF WithId
<1>2. DateOf(R \ gone, id) = DateOf(R, id)
  BY <1>1, DateOfSame
<1> QED BY <1>2 DEF OnTop, OfUser, After, Seen

LEMMA SeenRowAmended ==
  ASSUME NEW R, NEW row \in R, NEW amended, NEW id, NEW u,
         \A r, s \in R : r.id = s.id => r = s,
         amended.id = row.id, amended.from = row.from, amended.to = row.to,
         amended.createdAt = row.createdAt, row.createdAt \in Int, DateOf(R, id) \in Int,
         Seen(R, id, u, row)
  PROVE  OnTop((R \ {row}) \cup {amended}, id, u) = OnTop(R, id, u)
<1> DEFINE S == (R \ {row}) \cup {amended}
<1>1. DateOf(S, id) = DateOf(R, id)
  BY RowAmendedDate
<1>2. OfUser(After(S, DateOf(R, id)), u) = OfUser(After(R, DateOf(R, id)), u)
  BY DEF OfUser, After, Seen, Involves
<1> QED BY <1>1, <1>2 DEF OnTop

(***************************************************************************)
(* What a step does to the shown balance of one user.                      *)
(***************************************************************************)
Books(u) ==
  \/ /\ getBalance(u)' - getBalance(u) = LedgerBalance(u)' - LedgerBalance(u)
     /\ u \in outdated' <=> u \in outdated
  \/ getBalance(u)' = getBalance(u) /\ u \in outdated'
  \/ getBalance(u)' = LedgerBalance(u)' /\ u \notin outdated'

(***************************************************************************)
(* What the balance query adds to the cached amount is what the rows on    *)
(* top add, and a table adds what is counted and what is on top.           *)
(***************************************************************************)
LEMMA NetOnTop ==
  ASSUME NEW R, NEW id, NEW u
  PROVE  Net(After(R, DateOf(R, id)), u) = Net(OnTop(R, id, u), u)
<1>1. OfUser(OnTop(R, id, u), u) = OfUser(After(R, DateOf(R, id)), u)
  BY DEF OfUser, OnTop
<1> QED BY <1>1, NetOfUser

LEMMA NetParts ==
  ASSUME NEW R, NEW id, NEW u, IsFiniteSet(R), \A row \in R : row.createdAt \in Nat,
         \A r, s \in R : r.id = s.id => r.createdAt = s.createdAt
  PROVE  /\ Net(R, u) = Net(Counted(R, id, u), u) + Net(After(R, DateOf(R, id)), u)
         /\ Net(Counted(R, id, u), u) \in Int
         /\ Net(After(R, DateOf(R, id)), u) \in Int
BY DateType, CountedAndAfter

(***************************************************************************)
(* A step that adds and removes only counted rows is missed.               *)
(***************************************************************************)
LEMMA CountedIsMissed ==
  ASSUME NEW u \in Users, cache'[u] = cache[u], u \in outdated',
         OnTop(transactions', cache[u].lastTransaction, u)
           = OnTop(transactions, cache[u].lastTransaction, u),
         OnTop(transfers', cache[u].lastTransfer, u) = OnTop(transfers, cache[u].lastTransfer, u)
  PROVE  Books(u)
<1> DEFINE T == cache[u].lastTransaction
           F == cache[u].lastTransfer
<1>1. getBalance(u) = cache[u].amount + Net(OnTop(transactions, T, u), u)
                                      + Net(OnTop(transfers, F, u), u)
  BY NetOnTop DEF getBalance, LastTransactionDate, LastTransferDate
<1>2. getBalance(u)' = cache[u].amount + Net(OnTop(transactions', T, u), u)
                                       + Net(OnTop(transfers', F, u), u)
  BY NetOnTop DEF getBalance, LastTransactionDate, LastTransferDate
<1> QED BY <1>1, <1>2 DEF Books

(***************************************************************************)
(* One that adds and removes only rows on top is followed.                 *)
(***************************************************************************)
LEMMA OnTopIsFollowed ==
  ASSUME WellFormed, WellFormed', NEW u \in Users, cache'[u] = cache[u],
         u \in outdated' <=> u \in outdated,
         Counted(transactions', cache[u].lastTransaction, u)
           = Counted(transactions, cache[u].lastTransaction, u),
         Counted(transfers', cache[u].lastTransfer, u) = Counted(transfers, cache[u].lastTransfer, u)
  PROVE  Books(u)
<1> DEFINE T == cache[u].lastTransaction
           F == cache[u].lastTransfer
<1>1. cache[u].amount \in Int
  BY DEF WellFormed, TypeOK, CacheRow
<1>2. /\ Net(transactions, u) = Net(Counted(transactions, T, u), u)
                                 + Net(After(transactions, DateOf(transactions, T)), u)
      /\ Net(Counted(transactions, T, u), u) \in Int
      /\ Net(After(transactions, DateOf(transactions, T)), u) \in Int
  BY NetParts DEF WellFormed, TypeOK, RowsInv, Transaction
<1>3. /\ Net(transfers, u) = Net(Counted(transfers, F, u), u)
                              + Net(After(transfers, DateOf(transfers, F)), u)
      /\ Net(Counted(transfers, F, u), u) \in Int
      /\ Net(After(transfers, DateOf(transfers, F)), u) \in Int
  BY NetParts DEF WellFormed, TypeOK, RowsInv, Transfer
<1>4. /\ Net(transactions', u) = Net(Counted(transactions', T, u), u)
                                  + Net(After(transactions', DateOf(transactions', T)), u)
      /\ Net(After(transactions', DateOf(transactions', T)), u) \in Int
  BY NetParts DEF WellFormed, TypeOK, RowsInv, Transaction
<1>5. /\ Net(transfers', u) = Net(Counted(transfers', F, u), u)
                               + Net(After(transfers', DateOf(transfers', F)), u)
      /\ Net(After(transfers', DateOf(transfers', F)), u) \in Int
  BY NetParts DEF WellFormed, TypeOK, RowsInv, Transfer
<1>6. /\ getBalance(u) = cache[u].amount + Net(After(transactions, DateOf(transactions, T)), u)
                                         + Net(After(transfers, DateOf(transfers, F)), u)
      /\ getBalance(u)' = cache[u].amount + Net(After(transactions', DateOf(transactions', T)), u)
                                          + Net(After(transfers', DateOf(transfers', F)), u)
  BY DEF getBalance, LastTransactionDate, LastTransferDate
<1>7. /\ LedgerBalance(u) = Net(transactions, u) + Net(transfers, u)
      /\ LedgerBalance(u)' = Net(transactions', u) + Net(transfers', u)
  BY DEF LedgerBalance
<1>8. /\ Counted(transactions', T, u) = Counted(transactions, T, u)
      /\ Counted(transfers', F, u) = Counted(transfers, F, u)
  OBVIOUS
<1> HIDE DEF T, F
<1>9. getBalance(u)' - getBalance(u) = LedgerBalance(u)' - LedgerBalance(u)
  BY <1>1, <1>2, <1>3, <1>4, <1>5, <1>6, <1>7, <1>8
<1> QED BY <1>9 DEF Books

(***************************************************************************)
(* The operations, for a user who is outdated after them: a user who is    *)
(* not is right (ExactBalance).                                            *)
(***************************************************************************)
LEMMA InsertTransferBooks ==
  ASSUME WellFormed, WellFormed', NEW u \in Users, UserInv(u), u \in outdated',
         NEW from, NEW to, NEW amount, NEW use, NEW createdAt \in Int,
         InsertTransfer(from, to, amount, use, createdAt)
  PROVE  Books(u)
<1> DEFINE row == [id |-> nextId, from |-> from, to |-> to, amount |-> amount,
                   createdAt |-> createdAt, use |-> use]
           id == cache[u].lastTransfer
<1>1. /\ transfers' = transfers \cup {row}
      /\ outdated' = outdated \cup CountTransfer(row)
      /\ transactions' = transactions /\ cache' = cache
  BY DEF InsertTransfer
<1>2. WithId({row}, id) = {} /\ row.createdAt \in Int
  BY NamedIdsAreOld DEF WithId
<1> HIDE DEF row
<1>3. CASE Seen(transfers, id, u, row)
  <2>1. DateOf(transfers, id) \in Int
    BY CountedDates DEF LastTransferDate
  <2>2. OnTop(transfers', id, u) = OnTop(transfers, id, u)
    BY <1>1, <1>2, <1>3, <2>1, SeenRowsJoin
  <2> QED BY <1>1, <2>2, CountedIsMissed
<1>4. CASE ~ Seen(transfers, id, u, row)
  <2>1. u \in outdated /\ \A r \in {row} : Unseen(transfers, id, u, r)
    BY <1>1, <1>4 DEF CountTransfer, LastTransferDate, Seen, Unseen
  <2>2. Counted(transfers', id, u) = Counted(transfers, id, u)
    BY <1>1, <1>2, <2>1, RowsJoin
  <2> QED BY <1>1, <2>1, <2>2, OnTopIsFollowed
<1> QED BY <1>3, <1>4

LEMMA RemoveTransferBooks ==
  ASSUME WellFormed, WellFormed', NEW u \in Users, UserInv(u), u \in outdated',
         NEW row \in transfers, RemoveTransfer(row)
  PROVE  Books(u)
<1> DEFINE id == cache[u].lastTransfer
<1>1. /\ transfers' = transfers \ {row}
      /\ transactions' = transactions
      /\ cache'[u] = IF id = row.id THEN NoRow ELSE cache[u]
      /\ cache'[u] # NoRow /\ u \in outdated \cup CountTransfer(row)
  BY DEF RemoveTransfer, CascadeTransfer
<1>2. cache'[u] = cache[u] /\ WithId({row}, id) = {} /\ row.createdAt \in Int
  BY <1>1 DEF WithId, WellFormed, TypeOK, Transfer
<1>3. CASE Seen(transfers, id, u, row)
  <2>1. DateOf(transfers, id) \in Int
    BY CountedDates DEF LastTransferDate
  <2>2. OnTop(transfers', id, u) = OnTop(transfers, id, u)
    BY <1>1, <1>2, <1>3, <2>1, SeenRowsLeave
  <2> QED BY <1>1, <1>2, <2>2, CountedIsMissed
<1>4. CASE ~ Seen(transfers, id, u, row)
  <2>1. u \in outdated /\ \A r \in {row} : Unseen(transfers, id, u, r)
    BY <1>1, <1>4 DEF CountTransfer, LastTransferDate, Seen, Unseen
  <2>2. Counted(transfers', id, u) = Counted(transfers, id, u)
    BY <1>1, <1>2, <2>1, RowsLeave
  <2> QED BY <1>1, <1>2, <2>1, <2>2, OnTopIsFollowed
<1> QED BY <1>3, <1>4

(***************************************************************************)
(* The rows of one transaction share their date: they are all counted or   *)
(* all on top, as far as they are of the user.                             *)
(***************************************************************************)
LEMMA SaveTransactionsBooks ==
  ASSUME WellFormed, WellFormed', NEW u \in Users, u \in outdated',
         NEW new, NEW date \in Nat, \A row \in new : row.createdAt = date,
         WithId(new, cache[u].lastTransaction) = {},
         transactions' = transactions \cup new,
         outdated' \subseteq outdated \cup CountTransactions(new),
         transfers' = transfers, cache' = cache
  PROVE  Books(u)
<1> DEFINE id == cache[u].lastTransaction
<1>1. DateOf(transactions, id) \in Nat
  BY CountedDates DEF LastTransactionDate
<1>2. CASE \A row \in new : Seen(transactions, id, u, row)
  <2>1. OnTop(transactions', id, u) = OnTop(transactions, id, u)
    BY <1>1, <1>2, SeenRowsJoin
  <2> QED BY <2>1, CountedIsMissed
<1>3. CASE ~ \A row \in new : Seen(transactions, id, u, row)
  <2>1. ~ date <= DateOf(transactions, id)
    BY <1>3 DEF Seen
  <2>2. \A row \in new : Unseen(transactions, id, u, row)
    BY <2>1 DEF Unseen
  <2>3. u \in outdated
    BY <2>1 DEF CountTransactions, CountTransaction, LastTransactionDate
  <2>4. Counted(transactions', id, u) = Counted(transactions, id, u)
    BY <2>2, RowsJoin
  <2> QED BY <2>3, <2>4, OnTopIsFollowed
<1> QED BY <1>2, <1>3

LEMMA DeleteTransactionBooks ==
  ASSUME WellFormed, WellFormed', NEW u \in Users, u \in outdated',
         NEW h \in Handlers, DeleteTransactionRow(h)
  PROVE  Books(u)
<1> DEFINE gone == WithId(transactions, handler[h].id)
           id == cache[u].lastTransaction
<1>1. /\ transactions' = transactions \ gone
      /\ transfers' = transfers
      /\ cache'[u] = IF id = handler[h].id THEN NoRow ELSE cache[u]
      /\ cache'[u] # NoRow /\ u \in outdated \cup CountTransactions(gone)
  BY DEF DeleteTransactionRow, CascadeTransaction
<1>2. cache'[u] = cache[u] /\ WithId(gone, id) = {}
  BY <1>1 DEF WithId
<1>3. DateOf(transactions, id) \in Nat /\ \A row \in gone : row.createdAt \in Nat
  BY CountedDates DEF LastTransactionDate, WithId, WellFormed, TypeOK, Transaction
<1>4. \A r, s \in gone : r.createdAt = s.createdAt
  BY DEF WellFormed, RowsInv, WithId
<1> HIDE DEF gone
<1>5. CASE \A row \in gone : Seen(transactions, id, u, row)
  <2>1. OnTop(transactions', id, u) = OnTop(transactions, id, u)
    BY <1>1, <1>2, <1>3, <1>5, SeenRowsLeave
  <2> QED BY <1>1, <1>2, <2>1, CountedIsMissed
<1>6. CASE ~ \A row \in gone : Seen(transactions, id, u, row)
  <2>1. \A row \in gone : ~ row.createdAt <= DateOf(transactions, id)
    BY <1>4, <1>6 DEF Seen
  <2>2. \A row \in gone : Unseen(transactions, id, u, row)
    BY <2>1 DEF Unseen
  <2>3. u \in outdated
    BY <1>1, <2>1 DEF CountTransactions, CountTransaction, LastTransactionDate
  <2>4. Counted(transactions', id, u) = Counted(transactions, id, u)
    BY <1>1, <1>2, <2>2, RowsLeave
  <2> QED BY <1>1, <1>2, <2>3, <2>4, OnTopIsFollowed
<1> QED BY <1>5, <1>6

LEMMA AmendBooks ==
  ASSUME WellFormed, WellFormed', NEW u \in Users, u \in outdated',
         NEW row \in transfers, NEW amount \in Amounts, AmendTransfer(row, amount)
  PROVE  Books(u)
<1> DEFINE amended == [row EXCEPT !.amount = amount]
           id == cache[u].lastTransfer
<1>1. /\ amended.id = row.id /\ amended.from = row.from /\ amended.to = row.to
      /\ amended.createdAt = row.createdAt /\ row.createdAt \in Int
  BY DEF WellFormed, TypeOK, Transfer
<1>2. /\ transfers' = (transfers \ {row}) \cup {amended}
      /\ transactions' = transactions /\ cache' = cache
      /\ outdated' = outdated \cup CountTransfer(row)
  BY DEF AmendTransfer
<1>3. (\A r, s \in transfers : r.id = s.id => r = s) /\ DateOf(transfers, id) \in Int
  BY CountedDates DEF LastTransferDate, WellFormed, RowsInv
<1> HIDE DEF amended
<1>4. CASE Seen(transfers, id, u, row)
  <2>1. OnTop(transfers', id, u) = OnTop(transfers, id, u)
    <3> HIDE DEF id
    <3> QED BY <1>1, <1>2, <1>3, <1>4, SeenRowAmended
  <2> QED BY <1>2, <2>1, CountedIsMissed
<1>5. CASE ~ Seen(transfers, id, u, row)
  <2>1. u \in outdated /\ Unseen(transfers, id, u, row)
    BY <1>2, <1>5 DEF CountTransfer, LastTransferDate, Seen, Unseen
  <2>2. Counted(transfers', id, u) = Counted(transfers, id, u)
    <3> HIDE DEF id
    <3>1. /\ NamesOwnRow(transfers, id, u)
               => NamesOwnRow((transfers \ {row}) \cup {amended}, id, u)
          /\ Unseen(transfers, id, u, row)
               => Counted((transfers \ {row}) \cup {amended}, id, u) = Counted(transfers, id, u)
      BY <1>1, <1>3, RowAmended
    <3> QED BY <1>2, <2>1, <3>1
  <2> QED BY <1>2, <2>1, <2>2, OnTopIsFollowed
<1> QED BY <1>4, <1>5

(***************************************************************************)
(* A step that leaves the tables and the cache row of an outdated user     *)
(* alone.                                                                  *)
(***************************************************************************)
LEMMA QuietBooks ==
  ASSUME NEW u \in Users, UNCHANGED <<transactions, transfers>>, cache'[u] = cache[u],
         u \in outdated'
  PROVE  Books(u)
BY CountedIsMissed

(***************************************************************************)
(* Every operation follows the money, misses it, or catches up.            *)
(***************************************************************************)
LEMMA NextBooks ==
  ASSUME IInv, IInv', BalanceIsLedger', [Next]_vars, NEW u \in Users
  PROVE  Books(u)
<1> USE DEF IInv
<1>1. CASE u \notin outdated'
  BY <1>1 DEF BalanceIsLedger, Books
<1>2. CASE u \in outdated'
  <2>0. UserInv(u)
    BY DEF CacheInv, UserInv
  <2>1. CASE Purchase
    <3>1. PICK from \in Users, pays \in Purchases : CreateTransaction(from, pays)
      BY <2>1 DEF Purchase
    <3> DEFINE new == TransactionRows(nextId, from, pays, now)
    <3>2. /\ transactions' = transactions \cup new
          /\ UNCHANGED <<transfers, cache, outdated>>
      BY <3>1 DEF CreateTransaction, TransactionRows
    <3>3. \A row \in new : row.id = nextId /\ row.createdAt = now
      BY DEF TransactionRows
    <3> HIDE DEF new
    <3>4. WithId(new, cache[u].lastTransaction) = {}
      BY <2>0, <3>3, NamedIdsAreOld DEF WithId
    <3>5. now \in Nat
      BY DEF WellFormed, TypeOK
    <3> QED BY <1>2, <3>2, <3>3, <3>4, <3>5, SaveTransactionsBooks
  <2>2. CASE Insert \/ Own \/ PayOutSeller
    <3>1. /\ \A date \in 1 .. MaxTime : date \in Int
          /\ now \in Int
      BY BalanceCacheAssumption DEF WellFormed, TypeOK
    <3> QED BY <1>2, <2>0, <2>2, <3>1, InsertTransferBooks
        DEF Insert, PostTransfer, Own, CreateOwnedTransfer, PayOutSeller, CreateSellerPayout
  <2>3. CASE RemoveFinesOrPayout
    BY <1>2, <2>0, <2>3, RemoveTransferBooks DEF RemoveFinesOrPayout, DeleteSellerPayout, DeleteFine
  <2>4. CASE Amend
    BY <1>2, <2>4, AmendBooks DEF Amend, UpdateInvoice, UpdateSellerPayout
  <2>5. CASE UpdateBalances
    BY <1>2, <2>5 DEF UpdateBalances
  <2>6. ASSUME NEW h \in Handlers, DeleteOrUpdateTransaction(h)
        PROVE  Books(u)
    <3>1. CASE DeleteTransactionRow(h)
      BY <1>2, <3>1, DeleteTransactionBooks
    <3>2. ASSUME NEW from \in Users, NEW pays \in Purchases, SaveTransaction(h, from, pays)
          PROVE  Books(u)
      <4> DEFINE date == handler[h].createdAt
                 new == TransactionRows(handler[h].id, from, pays, date)
      <4>1. /\ WithId(transactions, handler[h].id) = {}
            /\ transactions' = transactions \cup new
            /\ outdated' = outdated \cup CountTransactions(new)
            /\ UNCHANGED <<transfers, cache>>
            /\ handler[h].id # NoId
        BY <3>2 DEF SaveTransaction, TransactionRows, WellFormed, HandlerInv, NoId
      <4>2. \A row \in new : row.id = handler[h].id /\ row.createdAt = date
        BY DEF TransactionRows
      <4>3. cache[u].lastTransaction # handler[h].id
        BY <2>0, <4>1 DEF UserInv, NamesOwn, NamesOwnRow, OfUser
      <4>4. date \in Nat
        BY DEF WellFormed, TypeOK, Handler
      <4> HIDE DEF new, date
      <4>5. WithId(new, cache[u].lastTransaction) = {}
        BY <4>2, <4>3 DEF WithId
      <4> QED BY <1>2, <4>1, <4>2, <4>4, <4>5, SaveTransactionsBooks
    <3>3. CASE \/ \E row \in transactions : \/ BeginDeleteTransaction(h, row.id)
                                            \/ BeginUpdateTransaction(h, row.id)
               \/ FindTransaction(h) \/ FailSaveTransaction(h) \/ ReloadTransaction(h)
      BY <1>2, <3>3, QuietBooks
      DEF BeginDeleteTransaction, BeginUpdateTransaction, FindTransaction, FailSaveTransaction,
          ReloadTransaction, rows
    <3> QED BY <2>6, <3>1, <3>2, <3>3 DEF DeleteOrUpdateTransaction
  <2>7. ASSUME NEW h \in Handlers, DeleteTransfer(h)
        PROVE  Books(u)
    <3>1. CASE \E row \in transfers : BeginDeleteTransfer(h, row)
      BY <1>2, <3>1, QuietBooks DEF BeginDeleteTransfer, rows
    <3>2. CASE DeleteTransferRow(h)
      <4>1. CASE WithId(transfers, handler[h].id) = {}
        BY <1>2, <3>2, <4>1, QuietBooks DEF DeleteTransferRow, rows
      <4>2. CASE WithId(transfers, handler[h].id) # {}
        <5>1. PICK row \in transfers : RemoveTransfer(row)
          BY <3>2, <4>2 DEF DeleteTransferRow, WithId
        <5> QED BY <1>2, <2>0, <5>1, RemoveTransferBooks
      <4> QED BY <4>1, <4>2
    <3> QED BY <2>7, <3>1, <3>2 DEF DeleteTransfer
  <2>8. ASSUME NEW h \in Handlers, ClearBalanceCache(h)
        PROVE  Books(u)
    BY <1>2, <2>8, QuietBooks DEF ClearBalanceCache, rows
  <2>9. ASSUME NEW h \in Handlers, WaiveFines(h)
        PROVE  Books(u)
    <3>1. CASE \E w \in Users : BeginWaiveFines(h, w)
      BY <1>2, <3>1, QuietBooks DEF BeginWaiveFines, rows
    <3>2. CASE \E row \in transfers : RemoveWaivedTransfer(h, row)
      BY <1>2, <2>0, <3>2, RemoveTransferBooks DEF RemoveWaivedTransfer, RemoveTransfer
    <3>3. CASE \E amount \in Amounts : CreateWaivedTransfer(h, amount)
      <4>1. now \in Int
        BY DEF WellFormed, TypeOK
      <4> QED BY <1>2, <2>0, <3>3, <4>1, InsertTransferBooks DEF CreateWaivedTransfer
    <3> QED BY <2>9, <3>1, <3>2, <3>3 DEF WaiveFines
  <2>10. ASSUME NEW h \in Handlers, Crash(h)
         PROVE  Books(u)
    BY <1>2, <2>10, QuietBooks DEF Crash, rows
  <2>11. CASE UNCHANGED vars
    BY <1>2, <2>11, QuietBooks DEF vars, rows
  <2> QED
    BY <2>1, <2>2, <2>3, <2>4, <2>5, <2>6, <2>7, <2>8, <2>9, <2>10, <2>11 DEF Next, Step
<1> QED BY <1>1, <1>2

(***************************************************************************)
(* The cache, with everything that handlers, crashes and unannounced       *)
(* changes do to it, implements the account book: the shown balance of a   *)
(* user follows a movement, misses it and is outdated, or catches up.      *)
(***************************************************************************)
THEOREM ImplementsAccountBookAlways == Spec => ImplementsAccountBook
<1>1. Init => Book!Init
  <2> SUFFICES ASSUME Init PROVE Book!Init
    OBVIOUS
  <2>1. IInv
    BY InitInvariant
  <2>2. \A u \in Users : getBalance(u) = LedgerBalance(u)
    BY <2>1, ExactBalance DEF IInv, CacheInv, Init
  <2>3. \A u \in Users : LedgerBalance(u) = 0
    BY NetEmpty DEF Init, LedgerBalance
  <2> QED BY <2>2, <2>3 DEF Init, Book!Init
<1>2. IInv /\ IInv' /\ BalanceIsLedger' /\ [Next]_vars => Book!Next
  BY NextBooks DEF Books, Book!Next, Book!Follows, Book!Misses, Book!CatchesUp
<1>3. Spec => Init /\ [][Next]_vars
  BY DEF Spec
<1> QED BY <1>1, <1>2, <1>3, InvariantAlways, BalanceIsLedgerAlways, PTL DEF ImplementsAccountBook, Book!Spec
-----------------------------------------------------------------------------
(***************************************************************************)
(* Only operations that clear the cache, one handler, nothing dies: whoever*)
(* is outdated will be cleared by the handler, since a handler that is     *)
(* about to delete rows remembers all their users and a handler that saved *)
(* rows finds their users when it reads them back.                         *)
(***************************************************************************)
WillClear(T, state, u) ==
  \/ state.pc = "clear" /\ u \in state.users
  \/ state.pc = "transaction.reload" /\ OfUser(WithId(T, state.id), u) # {}

OutdatedAreCleared == \A u \in outdated : \E h \in Handlers : WillClear(transactions, handler[h], u)

PastTransfers == \A row \in transfers : row.createdAt < now

KnowsUsers(R, state) ==
  \A row \in WithId(R, state.id), u \in Users : Involves(row, u) => u \in state.users

Knows(T, F, next, state) ==
  /\ state.pc \in {"transaction.findOne", "transaction.delete", "transfer.delete"} => state.id < next
  /\ state.pc = "transaction.delete" => KnowsUsers(T, state)
  /\ state.pc = "transfer.delete" => KnowsUsers(F, state)

HandlersKnow == \A h \in Handlers : Knows(transactions, transfers, nextId, handler[h])

ClearingInv == OutdatedAreCleared /\ PastTransfers /\ HandlersKnow

(***************************************************************************)
(* Rows with a new id, made in one step, change nothing of it.             *)
(***************************************************************************)
LEMMA InsertClears ==
  ASSUME WellFormed, ClearingInv, NEW T, NEW F,
         \A row \in T \cup F : row.id = nextId /\ row.createdAt = now,
         transactions' = transactions \cup T, transfers' = transfers \cup F,
         outdated' = outdated, now' = now + 1, nextId' = nextId + 1, UNCHANGED handler
  PROVE  ClearingInv'
<1>1. nextId \in Nat /\ now \in Nat
  BY DEF WellFormed, TypeOK
<1>2. PastTransfers'
  BY <1>1 DEF ClearingInv, PastTransfers, WellFormed, TypeOK, Transfer
<1>3. OutdatedAreCleared'
  <2>1. ASSUME NEW u, NEW state, WillClear(transactions, state, u)
        PROVE  WillClear(transactions', state, u)
    BY <2>1 DEF WillClear, OfUser, WithId
  <2> QED BY <2>1 DEF ClearingInv, OutdatedAreCleared
<1>4. HandlersKnow'
  <2> SUFFICES ASSUME NEW h \in Handlers
               PROVE  Knows(transactions', transfers', nextId', handler[h])
    BY DEF HandlersKnow
  <2> DEFINE state == handler[h]
  <2>1. Knows(transactions, transfers, nextId, state) /\ state.id \in Nat
    BY DEF ClearingInv, HandlersKnow, WellFormed, TypeOK, Handler
  <2> HIDE DEF state
  <2>2. state.id < nextId => /\ WithId(transactions', state.id) = WithId(transactions, state.id)
                             /\ WithId(transfers', state.id) = WithId(transfers, state.id)
    BY <1>1, <2>1 DEF WithId
  <2>3. state.id < nextId => state.id < nextId'
    BY <1>1, <2>1
  <2> QED BY <2>1, <2>2, <2>3 DEF Knows, KnowsUsers, state
<1> QED BY <1>2, <1>3, <1>4 DEF ClearingInv

LEMMA InsertTransferClears ==
  ASSUME WellFormed, ClearingInv, NEW from, NEW to, NEW amount, NEW use,
         InsertTransfer(from, to, amount, use, now), UNCHANGED handler
  PROVE  ClearingInv'
<1> DEFINE row == [id |-> nextId, from |-> from, to |-> to, amount |-> amount,
                   createdAt |-> now, use |-> use]
<1>1. /\ transfers' = transfers \cup {row} /\ row.id = nextId /\ row.createdAt = now
      /\ outdated' = outdated \cup CountTransfer(row)
      /\ transactions' = transactions \cup {} /\ nextId' = nextId + 1 /\ now' = now + 1
  BY DEF InsertTransfer, Tick
<1> HIDE DEF row
<1>2. CountTransfer(row) = {}
  <2>1. ASSUME NEW u \in Users PROVE ~ now <= LastTransferDate(u)
    <3>1. /\ \A r \in transfers : r.createdAt \in Nat /\ r.createdAt < now
          /\ \A r, s \in transfers : r.id = s.id => r.createdAt = s.createdAt
          /\ now \in Nat \ {0}
      BY DEF ClearingInv, PastTransfers, WellFormed, TypeOK, RowsInv, Transfer
    <3> QED BY <3>1, DateType DEF LastTransferDate
  <2> QED BY <1>1, <2>1 DEF CountTransfer
<1> QED BY <1>1, <1>2, InsertClears

(***************************************************************************)
(* A step of the only handler: what it must leave behind.                  *)
(***************************************************************************)
LEMMA HandlerClears ==
  ASSUME \A g, h \in Handlers : g = h, WellFormed, NEW h \in Handlers, NEW state,
         handler' = [handler EXCEPT ![h] = state],
         PastTransfers', Knows(transactions', transfers', nextId', state),
         \A u \in outdated' : WillClear(transactions', state, u)
  PROVE  ClearingInv'
<1>1. handler'[h] = state /\ \A g \in Handlers : g = h
  BY DEF WellFormed, TypeOK
<1> QED BY <1>1 DEF ClearingInv, OutdatedAreCleared, HandlersKnow

LEMMA OnlyItClears ==
  ASSUME \A g, h \in Handlers : g = h, ClearingInv, NEW h \in Handlers
  PROVE  /\ \A u \in outdated : WillClear(transactions, handler[h], u)
         /\ handler[h].pc \notin {"clear", "transaction.reload"} => outdated = {}
<1>1. \A u \in outdated : WillClear(transactions, handler[h], u)
  BY DEF ClearingInv, OutdatedAreCleared
<1> QED BY <1>1 DEF WillClear

LEMMA StepClears ==
  ASSUME \A g, h \in Handlers : g = h, WellFormed, ClearingInv, NEW h \in Handlers, Step(h)
  PROVE  ClearingInv'
<1> DEFINE id == handler[h].id
<1>0. /\ handler[h] \in Handler /\ id \in Nat /\ handler[h].users \subseteq Users
      /\ Knows(transactions, transfers, nextId, handler[h])
  BY DEF ClearingInv, HandlersKnow, WellFormed, TypeOK, Handler
<1>1. ASSUME NEW row \in transactions,
             BeginDeleteTransaction(h, row.id) \/ BeginUpdateTransaction(h, row.id)
      PROVE  ClearingInv'
  <2>1. PICK state : /\ Start(h, state) /\ state.pc = "transaction.findOne" /\ state.id = row.id
                     /\ UNCHANGED <<rows, cache, nextId, now, outdated>>
    BY <1>1 DEF BeginDeleteTransaction, BeginUpdateTransaction, Idle
  <2>2. outdated = {}
    BY <2>1, OnlyItClears DEF Start
  <2>3. row.id < nextId
    BY DEF WellFormed, RowsInv
  <2>4. Knows(transactions', transfers', nextId', state)
    BY <2>1, <2>3 DEF Knows
  <2> QED BY <2>1, <2>2, <2>4, HandlerClears DEF Start, ClearingInv, PastTransfers, rows
<1>2. CASE FindTransaction(h)
  <2> DEFINE found == WithId(transactions, id)
             users == {row.from : row \in found} \cup {row.to : row \in found}
             state == [handler[h] EXCEPT !.pc = "transaction.delete", !.users = users]
  <2>1. /\ handler' = [handler EXCEPT ![h] = state] /\ handler[h].pc = "transaction.findOne"
        /\ UNCHANGED <<rows, cache, nextId, now, outdated>>
    BY <1>2 DEF FindTransaction, WellFormed, TypeOK
  <2>2. state.pc = "transaction.delete" /\ state.id = id /\ state.users = users
    BY <1>0 DEF Handler
  <2>3. outdated = {}
    BY <2>1, OnlyItClears
  <2>4. KnowsUsers(transactions, state)
    <3> HIDE DEF state
    <3> QED BY <2>2 DEF KnowsUsers, Involves
  <2> HIDE DEF state
  <2>5. Knows(transactions', transfers', nextId', state)
    BY <1>0, <2>1, <2>2, <2>4 DEF Knows, rows
  <2> QED BY <2>1, <2>3, <2>5, HandlerClears DEF ClearingInv, PastTransfers, rows
<1>3. CASE DeleteTransactionRow(h)
  <2> DEFINE gone == WithId(transactions, id)
             state == IF handler[h].users = {} THEN Idle ELSE [handler[h] EXCEPT !.pc = "clear"]
  <2>1. /\ handler' = [handler EXCEPT ![h] = state] /\ handler[h].pc = "transaction.delete"
        /\ outdated' \subseteq outdated \cup CountTransactions(gone)
        /\ UNCHANGED <<transfers, nextId, now>>
    BY <1>3 DEF DeleteTransactionRow
  <2>2. outdated = {} /\ KnowsUsers(transactions, handler[h])
    BY <1>0, <2>1, OnlyItClears DEF Knows
  <2>3. CountTransactions(gone) \subseteq handler[h].users
    BY <2>2 DEF KnowsUsers, CountTransactions, CountTransaction
  <2>4. state.pc \in {"idle", "clear"}
        /\ (handler[h].users # {} => state.pc = "clear" /\ state.users = handler[h].users)
    BY <1>0 DEF Handler, Idle
  <2> HIDE DEF state
  <2>5. Knows(transactions', transfers', nextId', state)
    BY <2>4 DEF Knows
  <2>6. \A u \in outdated' : WillClear(transactions', state, u)
    BY <2>1, <2>2, <2>3, <2>4 DEF WillClear
  <2> QED BY <2>1, <2>5, <2>6, HandlerClears DEF ClearingInv, PastTransfers
<1>4. CASE ClearBalanceCache(h)
  <2> DEFINE state == IF handler[h].update THEN [handler[h] EXCEPT !.pc = "transaction.save"]
                      ELSE Idle
  <2>1. handler' = [handler EXCEPT ![h] = state] /\ state.pc \in {"idle", "transaction.save"}
    BY <1>0, <1>4 DEF ClearBalanceCache, Idle, Handler
  <2> HIDE DEF state
  <2>2. /\ handler[h].pc = "clear" /\ outdated' = outdated \ handler[h].users
        /\ UNCHANGED <<rows, nextId, now>>
    BY <1>4 DEF ClearBalanceCache
  <2>3. outdated' = {}
    BY <2>2, OnlyItClears DEF WillClear
  <2>4. Knows(transactions', transfers', nextId', state)
    BY <2>1 DEF Knows
  <2> QED BY <2>1, <2>2, <2>3, <2>4, HandlerClears DEF ClearingInv, PastTransfers, rows
<1>5. ASSUME NEW from \in Users, NEW pays \in Purchases, SaveTransaction(h, from, pays)
      PROVE  ClearingInv'
  <2> DEFINE new == TransactionRows(id, from, pays, handler[h].createdAt)
             state == [handler[h] EXCEPT !.pc = "transaction.reload"]
  <2>1. /\ handler' = [handler EXCEPT ![h] = state] /\ handler[h].pc = "transaction.save"
        /\ transactions' = transactions \cup new
        /\ outdated' = outdated \cup CountTransactions(new)
        /\ UNCHANGED <<transfers, cache, nextId, now>>
    BY <1>5 DEF SaveTransaction, TransactionRows, WellFormed, TypeOK
  <2>2. state.pc = "transaction.reload" /\ state.id = id
    BY <1>0 DEF Handler
  <2>3. \A row \in new : row.id = id
    BY DEF TransactionRows
  <2>4. outdated = {}
    BY <2>1, OnlyItClears
  <2> HIDE DEF new, state
  <2>5. Knows(transactions', transfers', nextId', state)
    BY <2>2 DEF Knows
  <2>6. \A u \in CountTransactions(new) : OfUser(WithId(transactions', id), u) # {}
    BY <2>1, <2>3 DEF CountTransactions, CountTransaction, OfUser, WithId
  <2>7. \A u \in outdated' : WillClear(transactions', state, u)
    BY <2>1, <2>2, <2>4, <2>6 DEF WillClear
  <2> QED BY <2>1, <2>5, <2>7, HandlerClears DEF ClearingInv, PastTransfers
<1>6. CASE FailSaveTransaction(h)
  <2>1. /\ handler' = [handler EXCEPT ![h] = Idle] /\ handler[h].pc = "transaction.save"
        /\ UNCHANGED <<rows, cache, nextId, now, outdated>>
    BY <1>6 DEF FailSaveTransaction
  <2>2. outdated = {}
    BY <2>1, OnlyItClears
  <2>3. Knows(transactions', transfers', nextId', Idle)
    BY DEF Knows, Idle
  <2> QED BY <2>1, <2>2, <2>3, HandlerClears DEF ClearingInv, PastTransfers, rows
<1>7. CASE ReloadTransaction(h)
  <2> DEFINE found == WithId(transactions, id)
             users == {row.from : row \in found} \cup {row.to : row \in found}
             clear == [Idle EXCEPT !.pc = "clear", !.users = users]
             state == IF found = {} THEN Idle ELSE clear
  <2>1. /\ handler' = [handler EXCEPT ![h] = state] /\ handler[h].pc = "transaction.reload"
        /\ UNCHANGED <<rows, cache, nextId, now, outdated>>
    BY <1>7 DEF ReloadTransaction
  <2>2. \A u \in outdated : OfUser(found, u) # {}
    BY <2>1, OnlyItClears DEF WillClear
  <2>3. \A u \in outdated : u \in users /\ found # {}
    BY <2>2 DEF OfUser, Involves
  <2>4. clear.pc = "clear" /\ clear.users = users /\ Idle.pc = "idle"
    BY DEF Idle
  <2> HIDE DEF clear, users
  <2>5. Knows(transactions', transfers', nextId', state)
    BY <2>4 DEF Knows
  <2>6. \A u \in outdated' : WillClear(transactions', state, u)
    BY <2>1, <2>3, <2>4 DEF WillClear
  <2> HIDE DEF state
  <2> QED BY <2>1, <2>5, <2>6, HandlerClears DEF ClearingInv, PastTransfers, rows
<1>8. ASSUME NEW row \in transfers, BeginDeleteTransfer(h, row) PROVE ClearingInv'
  <2> DEFINE state == [Idle EXCEPT !.pc = "transfer.delete", !.id = row.id,
                                   !.users = {row.from, row.to} \cap Users]
  <2>1. Start(h, state) /\ UNCHANGED <<rows, cache, nextId, now, outdated>>
    BY <1>8 DEF BeginDeleteTransfer
  <2>2. state.pc = "transfer.delete" /\ state.id = row.id /\ state.users = {row.from, row.to} \cap Users
    BY DEF Idle
  <2> HIDE DEF state
  <2>3. WithId(transfers, row.id) = {row} /\ row.id < nextId
    BY DEF WithId, WellFormed, RowsInv
  <2>4. Knows(transactions', transfers', nextId', state)
    BY <2>1, <2>2, <2>3 DEF Knows, KnowsUsers, Involves, rows
  <2>5. outdated = {}
    BY <2>1, OnlyItClears DEF Start
  <2> QED BY <2>1, <2>4, <2>5, HandlerClears DEF Start, ClearingInv, PastTransfers, rows
<1>9. CASE DeleteTransferRow(h)
  <2> DEFINE state == [handler[h] EXCEPT !.pc = "clear"]
  <2>1. handler' = [handler EXCEPT ![h] = state] /\ handler[h].pc = "transfer.delete"
    BY <1>9 DEF DeleteTransferRow, WellFormed, TypeOK
  <2>2. outdated = {} /\ KnowsUsers(transfers, handler[h])
    BY <1>0, <2>1, OnlyItClears DEF Knows
  <2>3. state.pc = "clear" /\ state.users = handler[h].users
    BY <1>0 DEF Handler
  <2> HIDE DEF state
  <2>4. Knows(transactions', transfers', nextId', state)
    BY <2>3 DEF Knows
  <2>5. CASE WithId(transfers, id) = {}
    <3>1. UNCHANGED <<rows, cache, nextId, now, outdated>>
      BY <1>9, <2>5 DEF DeleteTransferRow
    <3> QED BY <2>1, <2>2, <2>4, <3>1, HandlerClears DEF ClearingInv, PastTransfers, rows
  <2>6. CASE WithId(transfers, id) # {}
    <3>1. PICK row \in WithId(transfers, id) : RemoveTransfer(row)
      BY <1>9, <2>6 DEF DeleteTransferRow
    <3>2. /\ outdated' \subseteq CountTransfer(row)
          /\ transfers' \subseteq transfers /\ UNCHANGED <<transactions, nextId, now>>
      BY <2>2, <3>1 DEF RemoveTransfer
    <3>3. CountTransfer(row) \subseteq handler[h].users
      BY <2>2, <3>1 DEF KnowsUsers, CountTransfer
    <3>4. \A u \in outdated' : WillClear(transactions', state, u)
      BY <2>3, <3>2, <3>3 DEF WillClear
    <3>5. PastTransfers'
      BY <3>2 DEF ClearingInv, PastTransfers
    <3> QED BY <2>1, <2>4, <3>4, <3>5, HandlerClears
  <2> QED BY <2>5, <2>6
<1> QED BY <1>1, <1>2, <1>3, <1>4, <1>5, <1>6, <1>7, <1>8, <1>9
    DEF Step, DeleteOrUpdateTransaction, DeleteTransfer

LEMMA ClearingSteps ==
  ASSUME \A g, h \in Handlers : g = h, WellFormed, ClearingInv, ClearingNext
  PROVE  ClearingInv'
<1>1. CASE Purchase
  <2>1. PICK from \in Users, pays \in Purchases : CreateTransaction(from, pays)
    BY <1>1 DEF Purchase
  <2> DEFINE new == TransactionRows(nextId, from, pays, now)
  <2>2. /\ transactions' = transactions \cup new /\ transfers' = transfers \cup {}
        /\ now' = now + 1 /\ nextId' = nextId + 1
        /\ UNCHANGED <<outdated, handler>>
    BY <2>1 DEF CreateTransaction, Tick, TransactionRows
  <2>3. \A row \in new : row.id = nextId /\ row.createdAt = now
    BY DEF TransactionRows
  <2> HIDE DEF new
  <2> QED BY <2>2, <2>3, InsertClears
<1>2. CASE Post \/ Own
  BY <1>2, InsertTransferClears DEF Post, PostTransfer, Own, CreateOwnedTransfer
<1>3. CASE UpdateBalances
  <2>1. outdated' = {} /\ UNCHANGED <<transactions, transfers, nextId, now, handler>>
    BY <1>3 DEF UpdateBalances, rows
  <2> QED BY <2>1 DEF ClearingInv, OutdatedAreCleared, PastTransfers, HandlersKnow
<1>4. ASSUME NEW h \in Handlers, Step(h) PROVE ClearingInv'
  BY <1>4, StepClears
<1> QED BY <1>1, <1>2, <1>3, <1>4 DEF ClearingNext

(***************************************************************************)
(* What the balance service counts on: with one request at a time that     *)
(* runs to its end, and only operations that clear the cache, everybody is *)
(* shown the sum of the event tables whenever no request is in flight.     *)
(***************************************************************************)
THEOREM ClearingKeepsBalanceAlways ==
  ASSUME \A g, h \in Handlers : g = h
  PROVE  SyncingSpec => []ClearingKeepsBalance
<1> DEFINE Inv == IInv /\ mode \in {"all", "clearing"} /\ (mode = "clearing" => ClearingInv)
<1>1. FairInit => Inv
  <2>1. Init => ClearingInv
    BY DEF Init, ClearingInv, OutdatedAreCleared, PastTransfers, HandlersKnow, Knows, Idle
  <2> QED BY <2>1, InitInvariant DEF FairInit
<1>2. WellFormed /\ ClearingNext => Next
  <2> SUFFICES ASSUME WellFormed, Post PROVE Insert
    BY DEF ClearingNext, Next
  <2>1. PICK from, to \in Accounts, amount \in Amounts : PostTransfer(from, to, amount, now)
    BY DEF Post
  <2>2. now \in 1 .. MaxTime
    BY <2>1, BalanceCacheAssumption DEF PostTransfer, InsertTransfer, Tick, WellFormed, TypeOK
  <2> QED BY <2>1, <2>2 DEF Insert
<1>3. Inv /\ [FairNext]_<<vars, mode>> => Inv'
  <2> SUFFICES ASSUME Inv, [FairNext]_<<vars, mode>> PROVE Inv'
    OBVIOUS
  <2>1. IInv /\ [Next]_vars => IInv'
    BY NextWellFormed, NextCacheInv DEF IInv
  <2>2. CASE mode = "all" /\ Next /\ UNCHANGED mode
    BY <2>1, <2>2
  <2>3. CASE mode = "clearing" /\ ClearingNext /\ UNCHANGED mode
    BY <1>2, <2>1, <2>3, ClearingSteps DEF IInv
  <2>4. CASE UNCHANGED <<vars, mode>>
    BY <2>1, <2>4 DEF vars, ClearingInv, OutdatedAreCleared, PastTransfers, HandlersKnow
  <2> QED BY <2>2, <2>3, <2>4 DEF FairNext
<1>4. Inv => ClearingKeepsBalance
  <2> SUFFICES ASSUME Inv, mode = "clearing", AtRest, NEW u \in Users
               PROVE  getBalance(u) = LedgerBalance(u)
    BY DEF ClearingKeepsBalance, BalanceAtRestIsLedger
  <2>1. u \notin outdated
    BY DEF AtRest, ClearingInv, OutdatedAreCleared, WillClear
  <2> QED BY <2>1, ExactBalance DEF IInv, CacheInv
<1> QED BY <1>1, <1>3, <1>4, PTL DEF SyncingSpec
=============================================================================
