------------------------------ MODULE Invoices ------------------------------
(***************************************************************************)
(* Invoices over the rows of purchases.  Each request runs in one database *)
(* transaction: it reads the state as of its first read and its writes     *)
(* appear together when it commits, so a request is a step that reads and  *)
(* a step that commits, and a failure before the commit leaves nothing.    *)
(* The purchases themselves may be deleted, or changed, which deletes      *)
(* their rows and makes new ones, without a look at the invoices.          *)
(***************************************************************************)
EXTENDS Integers, FiniteSets, Server

CONSTANTS
  Purchases,      \* purchases of one user
  MaxMade,        \* bound on the times the row of a purchase is made
  InvoiceIds,
  Amounts,        \* what an invoice may be made out for
  MaxReversed     \* bound on what is undone of an invoice before no more is asked for

ASSUME InvoicesAssumption ==
  0 \notin InvoiceIds /\ Amounts \subseteq Nat /\ MaxReversed \in Nat /\ MaxMade \in Nat \ {0}

VARIABLES
  rows,           \* the rows of purchases there are
  link,           \* the column invoice of each of them, 0: null
  invoice,        \* the rows of `invoice` with their latest state and transfer
  madeFor,        \* history: the rows an invoice was made for
  reversed,       \* history: the sum of the transfers that undid an invoice
  invoiceTask

invoiceTables == <<rows, link, invoice, madeFor, reversed>>
invoicesVars  == <<rows, link, invoice, madeFor, reversed, invoiceTask>>

\* The row of a purchase, as it was made the first, second, ... time.
Rows == Purchases \X (1 .. MaxMade)

States == {"none", "CREATED", "SENT", "PAID", "DELETED"}

Invoice == [state : States, amount : Nat, rowsDeleted : SUBSET Rows]

\* An update without an amount.
NoAmount == -1

NoInvoice == [state |-> "none", amount |-> 0, rowsDeleted |-> {}]

InvoiceTask ==
       {Idle}
  \cup [pc : {"create"}, rows : SUBSET Rows, amount : Amounts]
  \cup [pc : {"delete"}, id : InvoiceIds, read : Invoice, rows : SUBSET Rows]
  \cup [pc : {"update"}, id : InvoiceIds, state : States, amount : Amounts \cup {NoAmount}]
  \cup [pc : {"remake"}, row : Rows]

InvoicesTypeOK ==
  /\ rows \subseteq Rows
  /\ link \in [Rows -> InvoiceIds \cup {0}]
  /\ invoice \in [InvoiceIds -> Invoice]
  /\ madeFor \in [InvoiceIds -> SUBSET Rows]
  /\ reversed \in [InvoiceIds -> Nat]
  /\ invoiceTask \in [Handlers -> InvoiceTask]

InvoicesInit ==
  /\ rows = Purchases \X {1}
  /\ link = [r \in Rows |-> 0]
  /\ invoice = [i \in InvoiceIds |-> NoInvoice]
  /\ madeFor = [i \in InvoiceIds |-> {}]
  /\ reversed = [i \in InvoiceIds |-> 0]
  /\ invoiceTask = [h \in Handlers |-> Idle]

InvoiceAt(h, pc) == invoiceTask[h].pc = pc

InvoiceGo(h, state) == invoiceTask' = [invoiceTask EXCEPT ![h] = state]

Created(i) == invoice[i].state # "none"

Linked(i) == {r \in rows : link[r] = i}

Living(i) == invoice[i].state \notin {"none", "DELETED"}
-----------------------------------------------------------------------------
\* Mutant of BeginInvoice: checkIfInvoiced is not called.
BeginInvoice_Unchecked(h, chosen, amount) ==
  /\ InvoiceAt(h, "idle")
  /\ InvoiceGo(h, [pc |-> "create", rows |-> chosen, amount |-> amount])
  /\ UNCHANGED invoiceTables

\* createInvoice: checkIfInvoiced looks at the rows as they were read.
BeginInvoice(h, chosen, amount) ==
  /\ InvoiceAt(h, "idle")
  /\ \A r \in chosen : link[r] = 0
  /\ InvoiceGo(h, [pc |-> "create", rows |-> chosen, amount |-> amount])
  /\ UNCHANGED invoiceTables

\* The transfer, the invoice with its first status, the links of the rows that are still there.
CreateInvoice(h, i) ==
  LET new == invoiceTask[h]
  IN  /\ InvoiceAt(h, "create")
      /\ ~ Created(i)
      /\ invoice' = [invoice EXCEPT
           ![i] = [state |-> "CREATED", amount |-> new.amount, rowsDeleted |-> {}]]
      /\ link' = [r \in Rows |-> IF r \in new.rows \cap rows THEN i ELSE link[r]]
      /\ madeFor' = [madeFor EXCEPT ![i] = new.rows]
      /\ InvoiceGo(h, Idle)
      /\ UNCHANGED <<rows, reversed>>

(***************************************************************************)
(* DELETE /invoices/:id deletes in any state, PATCH with the state DELETED *)
(* only what is neither deleted nor paid; both read the invoice and rows.  *)
(***************************************************************************)
ReadToDelete(h, i) ==
  /\ reversed[i] <= MaxReversed
  /\ InvoiceGo(h, [pc |-> "delete", id |-> i, read |-> invoice[i], rows |-> Linked(i)])

BeginDeleteInvoice(h, i) ==
  /\ InvoiceAt(h, "idle")
  /\ Created(i)
  /\ ReadToDelete(h, i)
  /\ UNCHANGED invoiceTables

(***************************************************************************)
(* The transfer is undone, the entries move to the deleted rows, the rows  *)
(* are unlinked.  Two deletions that read the same entries insert the same *)
(* rows into the join table: the second violates its key and rolls back,   *)
(* as does one that inserts a row that is there no more.                   *)
(***************************************************************************)
\* Mutant of DeleteInvoice: removeSubTransactionInvoice is not called.
DeleteInvoice_Linked(h) ==
  LET old == invoiceTask[h]
  IN  /\ InvoiceAt(h, "delete")
      /\ invoice' = [invoice EXCEPT ![old.id].state = "DELETED", ![old.id].rowsDeleted = old.rows]
      /\ reversed' = [reversed EXCEPT ![old.id] = @ + old.read.amount]
      /\ InvoiceGo(h, Idle)
      /\ UNCHANGED <<rows, link, madeFor>>

DeleteInvoice(h) ==
  LET old   == invoiceTask[h]
      added == old.rows \ old.read.rowsDeleted
      there == invoice[old.id].rowsDeleted
  IN  /\ InvoiceAt(h, "delete")
      /\ added \subseteq rows \ there
      /\ invoice' = [invoice EXCEPT ![old.id] =
           [state       |-> "DELETED",
            amount      |-> @.amount,
            rowsDeleted |-> (there \ (old.read.rowsDeleted \ old.rows)) \cup added]]
      /\ link' = [r \in Rows |-> IF r \in old.rows THEN 0 ELSE link[r]]
      /\ reversed' = [reversed EXCEPT ![old.id] = @ + old.read.amount]
      /\ InvoiceGo(h, Idle)
      /\ UNCHANGED <<rows, madeFor>>

\* updateInvoice refuses what is deleted or paid, in the state it has read.
MayUpdate(h, i) == InvoiceAt(h, "idle") /\ invoice[i].state \in {"CREATED", "SENT"}

BeginUpdateInvoice(h, i) ==
  /\ MayUpdate(h, i)
  /\ \/ ReadToDelete(h, i)
     \/ \E state \in {"none", "CREATED", "SENT", "PAID"}, amount \in Amounts \cup {NoAmount} :
          InvoiceGo(h, [pc |-> "update", id |-> i, state |-> state, amount |-> amount])
  /\ UNCHANGED invoiceTables

UpdateInvoice(h) ==
  LET update == invoiceTask[h]
  IN  /\ InvoiceAt(h, "update")
      /\ invoice' = [invoice EXCEPT ![update.id] =
           [state       |-> IF update.state = "none" THEN @.state ELSE update.state,
            amount      |-> IF update.amount = NoAmount THEN @.amount ELSE update.amount,
            rowsDeleted |-> @.rowsDeleted]]
      /\ InvoiceGo(h, Idle)
      /\ UNCHANGED <<rows, link, madeFor, reversed>>

-----------------------------------------------------------------------------
(***************************************************************************)
(* deleteTransaction: the row goes, and with it its link and its entry in  *)
(* the join table.  No invoice is looked at.                               *)
(***************************************************************************)
DropRow(r) ==
  /\ r \in rows
  /\ rows' = rows \ {r}
  /\ link' = [link EXCEPT ![r] = 0]
  /\ invoice' = [i \in InvoiceIds |-> [invoice[i] EXCEPT !.rowsDeleted = @ \ {r}]]
  /\ UNCHANGED <<madeFor, reversed>>

DeletePurchase(r) == DropRow(r) /\ UNCHANGED invoiceTask

(***************************************************************************)
(* updateTransaction: the old row goes and then a new one is saved, with   *)
(* no transaction of the database around the two.                          *)
(***************************************************************************)
BeginRemake(h, r) ==
  /\ InvoiceAt(h, "idle")
  /\ r[2] < MaxMade
  /\ DropRow(r)
  /\ InvoiceGo(h, [pc |-> "remake", row |-> <<r[1], r[2] + 1>>])

RemakeRow(h) ==
  /\ InvoiceAt(h, "remake")
  /\ rows' = rows \cup {invoiceTask[h].row}
  /\ link' = [link EXCEPT ![invoiceTask[h].row] = 0]
  /\ InvoiceGo(h, Idle)
  /\ UNCHANGED <<invoice, madeFor, reversed>>

\* What has not committed leaves nothing; a purchase whose row is gone stays without.
InvoiceFails(h) == ~ InvoiceAt(h, "idle") /\ InvoiceGo(h, Idle) /\ UNCHANGED invoiceTables

InvoicesNext ==
  \/ \E r \in rows : DeletePurchase(r)
  \/ \E h \in Handlers :
       \/ \E chosen \in SUBSET rows \ {{}}, amount \in Amounts : BeginInvoice(h, chosen, amount)
       \/ \E i \in InvoiceIds :
            CreateInvoice(h, i) \/ BeginDeleteInvoice(h, i) \/ BeginUpdateInvoice(h, i)
       \/ DeleteInvoice(h) \/ UpdateInvoice(h)
       \/ \E r \in rows : BeginRemake(h, r)
       \/ RemakeRow(h) \/ InvoiceFails(h)

InvoicesSpec == InvoicesInit /\ [][InvoicesNext]_invoicesVars
-----------------------------------------------------------------------------
(***************************************************************************)
(* However requests interleave, the rows of a deleted invoice are free to  *)
(* be invoiced again.                                                      *)
(***************************************************************************)
DeletedIsFree == \A i \in InvoiceIds : invoice[i].state = "DELETED" => Linked(i) = {}

(***************************************************************************)
(* With one request at a time, whatever becomes of the purchases, a living *)
(* invoice keeps every row it was made for that is still there, so that no *)
(* row is invoiced twice.                                                  *)
(***************************************************************************)
InvoicedOnce == \A i \in InvoiceIds : Living(i) => Linked(i) = madeFor[i] \cap rows

(***************************************************************************)
(* What the links are for, by the documentation of the workflows: that no  *)
(* purchase is invoiced twice.                                             *)
(***************************************************************************)
BilledOnce ==
  \A i, j \in InvoiceIds : i # j /\ Living(i) /\ Living(j)
    => \A r \in madeFor[i], s \in madeFor[j] : r[1] # s[1]

(***************************************************************************)
(* What findDriftedInvoices takes for granted: what is credited back for a *)
(* deleted invoice is what it was made out for.                            *)
(***************************************************************************)
DeletionReverses ==
  \A i \in InvoiceIds : invoice[i].state = "DELETED" => reversed[i] = invoice[i].amount
=============================================================================
