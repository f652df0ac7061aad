------------------------------- MODULE Ledger -------------------------------
(***************************************************************************)
(* Arithmetic of the event tables of SudoSOS: the rows of `transaction`    *)
(* (one row here per sub-transaction) and of `transfer`, and the sums the  *)
(* balance queries of src/service/balance-service.ts take over them.       *)
(* A row is a record with at least the fields id, from, to, amount and     *)
(* createdAt.  Rows of one transaction share id, from and createdAt.       *)
(***************************************************************************)
EXTENDS Integers, FiniteSets

CONSTANT MaxAmount      \* bound on the amount of one row, in cents

ASSUME MaxAmountAssumption == MaxAmount \in Nat

NoId == 0               \* a NULL foreign key; auto-increment ids start at 1

Amounts == 1 .. MaxAmount

Involves(row, u) == row.from = u \/ row.to = u

OfUser(R, u) == {row \in R : Involves(row, u)}

WithId(R, id) == {row \in R : row.id = id}

(***************************************************************************)
(* SUM(amount) over a set of rows.  The sum counts the cents of the rows:  *)
(* a definition without recursion, so that its laws follow from the        *)
(* theorems on cardinality (Ledger_proofs).                                *)
(***************************************************************************)
Cents(R) == {cent \in R \X (1 .. MaxAmount) : cent[2] <= cent[1].amount}

Total(R) == Cardinality(Cents(R))

(***************************************************************************)
(* What the rows of R add to the balance of u: the union, in the queries,  *)
(* of the rows u pays (times -1) and the rows u receives.                  *)
(***************************************************************************)
Net(R, u) == Total({row \in R : row.to = u}) - Total({row \in R : row.from = u})

After_Inclusive(R, date) == {row \in R : row.createdAt >= date}   \* mutant of After

UpTo(R, date) == {row \in R : row.createdAt <= date}

After(R, date) == {row \in R : row.createdAt > date}

(***************************************************************************)
(* COALESCE(createdAt, 0) of a LEFT JOIN on an id.                         *)
(***************************************************************************)
DateOf(R, id) ==
  IF WithId(R, id) = {} THEN 0 ELSE (CHOOSE row \in WithId(R, id) : TRUE).createdAt

(***************************************************************************)
(* The row of u with the greatest createdAt, the greatest id among several *)
(* (max(t1.id) over the rows joined on the greatest createdAt).            *)
(***************************************************************************)
Later_ById(r, s) == r.id >= s.id                                  \* mutant of Later

Later(r, s) == \/ r.createdAt > s.createdAt
               \/ r.createdAt = s.createdAt /\ r.id >= s.id

LatestId(R, u) ==
  IF OfUser(R, u) = {} THEN NoId
  ELSE (CHOOSE r \in OfUser(R, u) : \A s \in OfUser(R, u) : Later(r, s)).id
=============================================================================
