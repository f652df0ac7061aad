---------------------------- MODULE Money_proofs ----------------------------
(***************************************************************************)
(* What holds of invoices, seller payouts, voucher groups and fines: the   *)
(* rows that move money by transfers.  They share no state, and each part  *)
(* below is about the specification of its own component.                  *)
(***************************************************************************)
EXTENDS Invoices, SellerPayouts, VoucherGroups, Fines, FiniteSetTheorems, TLAPS
-----------------------------------------------------------------------------
(***************************************************************************)
(* Invoices, for any number of invoices, purchases and requests at once,   *)
(* rollbacks included.                                                     *)
(***************************************************************************)
LEMMA InvoicesInitType == InvoicesInit => InvoicesTypeOK
BY InvoicesAssumption DEF InvoicesInit, InvoicesTypeOK, NoInvoice, Invoice, States, InvoiceTask, Idle, Rows

LEMMA InvoiceGoType ==
  ASSUME InvoicesTypeOK, NEW h \in Handlers, NEW state \in InvoiceTask, InvoiceGo(h, state)
  PROVE  /\ invoiceTask' \in [Handlers -> InvoiceTask]
         /\ \A g \in Handlers : invoiceTask'[g] = IF g = h THEN state ELSE invoiceTask[g]
BY DEF InvoicesTypeOK, InvoiceGo

LEMMA IdleIsInvoiceTask == Idle \in InvoiceTask
BY DEF InvoiceTask

(***************************************************************************)
(* What the requests hold between reading and committing.                  *)
(***************************************************************************)
LEMMA InvoiceTaskTypes ==
  ASSUME InvoicesTypeOK, NEW h \in Handlers
  PROVE  /\ InvoiceAt(h, "create") =>
              invoiceTask[h] \in [pc : {"create"}, rows : SUBSET Rows, amount : Amounts]
         /\ InvoiceAt(h, "delete") =>
              invoiceTask[h] \in [pc : {"delete"}, id : InvoiceIds, read : Invoice, rows : SUBSET Rows]
         /\ InvoiceAt(h, "update") =>
              invoiceTask[h] \in [pc : {"update"}, id : InvoiceIds, state : States,
                                  amount : Amounts \cup {NoAmount}]
         /\ InvoiceAt(h, "remake") => invoiceTask[h] \in [pc : {"remake"}, row : Rows]
BY DEF InvoicesTypeOK, InvoiceTask, InvoiceAt, Idle

LEMMA ReadToDeleteType ==
  ASSUME InvoicesTypeOK, NEW h \in Handlers, NEW i \in InvoiceIds, ReadToDelete(h, i)
  PROVE  /\ invoiceTask' \in [Handlers -> InvoiceTask]
         /\ invoiceTask'[h] = [pc |-> "delete", id |-> i, read |-> invoice[i], rows |-> Linked(i)]
         /\ \A g \in Handlers \ {h} : invoiceTask'[g] = invoiceTask[g]
<1>1. [pc |-> "delete", id |-> i, read |-> invoice[i], rows |-> Linked(i)] \in InvoiceTask
  BY DEF InvoicesTypeOK, InvoiceTask, Linked
<1> QED BY <1>1, InvoiceGoType DEF ReadToDelete

(***************************************************************************)
(* A request that will delete an invoice read all the rows it has now: an  *)
(* invoice gets its rows when it is made and only ever loses them.  No     *)
(* other request sets the state DELETED.                                   *)
(***************************************************************************)
DeletesAll ==
  \A h \in Handlers :
    /\ \A i \in InvoiceIds :
         InvoiceAt(h, "delete") /\ invoiceTask[h].id = i =>
           Created(i) /\ Linked(i) \subseteq invoiceTask[h].rows
    /\ InvoiceAt(h, "update") => invoiceTask[h].state # "DELETED"

InvoicesInv == InvoicesTypeOK /\ DeletesAll /\ DeletedIsFree

LEMMA InvoicesInitInv == InvoicesInit => InvoicesInv
<1> SUFFICES ASSUME InvoicesInit PROVE InvoicesInv
  OBVIOUS
<1>1. DeletesAll
  BY DEF InvoicesInit, DeletesAll, InvoiceAt, Idle
<1>2. DeletedIsFree
  BY DEF InvoicesInit, DeletedIsFree, NoInvoice
<1> QED BY <1>1, <1>2, InvoicesInitType DEF InvoicesInv

(***************************************************************************)
(* A step after which every request that will delete an invoice is one it  *)
(* was before, while invoices stay created and gain no rows, or one that   *)
(* has just read the rows.                                                 *)
(***************************************************************************)
LEMMA KeepsDeletesAll ==
  ASSUME InvoicesInv,
         \A g \in Handlers :
           \/ invoiceTask'[g] = invoiceTask[g]
           \/ invoiceTask'[g].pc \notin {"delete", "update"}
           \/ /\ invoiceTask'[g].pc = "delete"
              /\ \A i \in InvoiceIds : invoiceTask'[g].id = i =>
                   invoice'[i].state # "none" /\ Linked(i)' \subseteq invoiceTask'[g].rows
           \/ invoiceTask'[g].pc = "update" /\ invoiceTask'[g].state # "DELETED",
         \A i \in InvoiceIds :
           Created(i) => invoice'[i].state # "none" /\ Linked(i)' \subseteq Linked(i)
  PROVE  DeletesAll'
<1>1. ASSUME NEW g \in Handlers, NEW i \in InvoiceIds, invoiceTask'[g].pc = "delete", invoiceTask'[g].id = i
      PROVE  invoice'[i].state # "none" /\ Linked(i)' \subseteq invoiceTask'[g].rows
  <2>1. CASE invoiceTask'[g] = invoiceTask[g]
    <3>1. Created(i) /\ Linked(i) \subseteq invoiceTask[g].rows
      BY <1>1, <2>1 DEF InvoicesInv, DeletesAll, InvoiceAt
    <3> QED BY <2>1, <3>1
  <2>2. CASE invoiceTask'[g] # invoiceTask[g]
    BY <1>1, <2>2
  <2> QED BY <2>1, <2>2
<1>2. ASSUME NEW g \in Handlers, invoiceTask'[g].pc = "update" PROVE invoiceTask'[g].state # "DELETED"
  BY <1>2 DEF InvoicesInv, DeletesAll, InvoiceAt
<1> QED BY <1>1, <1>2 DEF DeletesAll, InvoiceAt, Created

(***************************************************************************)
(* A step that keeps the tables and starts or drops a request.             *)
(***************************************************************************)
LEMMA InvoiceKeepsTables ==
  ASSUME InvoicesInv, invoiceTask' \in [Handlers -> InvoiceTask], UNCHANGED invoiceTables,
         \A g \in Handlers :
           \/ invoiceTask'[g] = invoiceTask[g]
           \/ invoiceTask'[g].pc \notin {"delete", "update"}
           \/ /\ invoiceTask'[g].pc = "delete"
              /\ \A i \in InvoiceIds : invoiceTask'[g].id = i =>
                   Created(i) /\ Linked(i) \subseteq invoiceTask'[g].rows
           \/ invoiceTask'[g].pc = "update" /\ invoiceTask'[g].state # "DELETED"
  PROVE  InvoicesInv'
<1>1. InvoicesTypeOK'
  BY DEF InvoicesInv, InvoicesTypeOK, invoiceTables
<1>2. \A i \in InvoiceIds : Linked(i)' = Linked(i) /\ invoice'[i] = invoice[i]
  BY DEF Linked, invoiceTables
<1>3. DeletesAll'
  BY <1>2, KeepsDeletesAll DEF Created
<1>4. DeletedIsFree'
  BY <1>2 DEF InvoicesInv, DeletedIsFree
<1> QED BY <1>1, <1>3, <1>4 DEF InvoicesInv

LEMMA ReadToDeleteInv ==
  ASSUME InvoicesInv, NEW h \in Handlers, NEW i \in InvoiceIds,
         Created(i), ReadToDelete(h, i), UNCHANGED invoiceTables
  PROVE  InvoicesInv'
<1>1. /\ invoiceTask' \in [Handlers -> InvoiceTask]
      /\ invoiceTask'[h] = [pc |-> "delete", id |-> i, read |-> invoice[i], rows |-> Linked(i)]
      /\ \A g \in Handlers \ {h} : invoiceTask'[g] = invoiceTask[g]
  BY ReadToDeleteType DEF InvoicesInv
<1>2. \A g \in Handlers :
        \/ invoiceTask'[g] = invoiceTask[g]
        \/ /\ invoiceTask'[g].pc = "delete"
           /\ \A j \in InvoiceIds : invoiceTask'[g].id = j =>
                Created(j) /\ Linked(j) \subseteq invoiceTask'[g].rows
  BY <1>1
<1> QED BY <1>1, <1>2, InvoiceKeepsTables

LEMMA CreateInvoiceInv ==
  ASSUME InvoicesInv, NEW h \in Handlers, NEW i \in InvoiceIds, CreateInvoice(h, i)
  PROVE  InvoicesInv'
<1>1. invoiceTask[h] \in [pc : {"create"}, rows : SUBSET Rows, amount : Amounts]
  BY InvoiceTaskTypes DEF CreateInvoice, InvoicesInv
<1>2. /\ invoiceTask' \in [Handlers -> InvoiceTask]
      /\ \A g \in Handlers : invoiceTask'[g] = IF g = h THEN Idle ELSE invoiceTask[g]
  BY InvoiceGoType, IdleIsInvoiceTask DEF CreateInvoice, InvoicesInv
<1>3. [state |-> "CREATED", amount |-> invoiceTask[h].amount, rowsDeleted |-> {}] \in Invoice
  BY <1>1, InvoicesAssumption DEF Invoice, States
<1>4. invoice' \in [InvoiceIds -> Invoice]
  BY <1>3 DEF CreateInvoice, InvoicesInv, InvoicesTypeOK
<1>5. InvoicesTypeOK'
  BY <1>1, <1>2, <1>4 DEF CreateInvoice, InvoicesInv, InvoicesTypeOK
<1>6. \A j \in InvoiceIds : j # i => Linked(j)' \subseteq Linked(j) /\ invoice'[j] = invoice[j]
  BY DEF CreateInvoice, Linked, InvoicesInv, InvoicesTypeOK
<1>7. invoice'[i].state = "CREATED" /\ ~ Created(i)
  BY DEF CreateInvoice, InvoicesInv, InvoicesTypeOK
<1>8. DeletedIsFree'
  BY <1>6, <1>7 DEF InvoicesInv, DeletedIsFree
<1>9. DeletesAll'
  <2>1. \A g \in Handlers : invoiceTask'[g] = invoiceTask[g] \/ invoiceTask'[g].pc \notin {"delete", "update"}
    BY <1>2 DEF Idle
  <2>2. \A j \in InvoiceIds : Created(j) => invoice'[j].state # "none" /\ Linked(j)' \subseteq Linked(j)
    BY <1>6, <1>7 DEF Created
  <2> QED BY <2>1, <2>2, KeepsDeletesAll
<1> QED BY <1>5, <1>8, <1>9 DEF InvoicesInv

LEMMA DeleteInvoiceInv ==
  ASSUME InvoicesInv, NEW h \in Handlers, DeleteInvoice(h)
  PROVE  InvoicesInv'
<1>1. invoiceTask[h] \in [pc : {"delete"}, id : InvoiceIds, read : Invoice, rows : SUBSET Rows]
  BY InvoiceTaskTypes DEF DeleteInvoice, InvoicesInv
<1>2. /\ invoiceTask' \in [Handlers -> InvoiceTask]
      /\ \A g \in Handlers : invoiceTask'[g] = IF g = h THEN Idle ELSE invoiceTask[g]
  BY InvoiceGoType, IdleIsInvoiceTask DEF DeleteInvoice, InvoicesInv
<1>3. PICK i \in InvoiceIds, found \in SUBSET Rows, read \in Invoice :
        invoiceTask[h].id = i /\ invoiceTask[h].rows = found /\ invoiceTask[h].read = read
  BY <1>1
<1>4. Linked(i) \subseteq found
  BY <1>3 DEF DeleteInvoice, InvoicesInv, DeletesAll
<1>5. PICK moved \in SUBSET Rows :
        invoice' = [invoice EXCEPT ![i] = [state |-> "DELETED", amount |-> invoice[i].amount,
                                           rowsDeleted |-> moved]]
  <2> DEFINE moved == (invoice[i].rowsDeleted \ (read.rowsDeleted \ found)) \cup (found \ read.rowsDeleted)
  <2>1. moved \in SUBSET Rows
    BY DEF InvoicesInv, InvoicesTypeOK, Invoice
  <2>2. invoice' = [invoice EXCEPT ![i] = [state |-> "DELETED", amount |-> invoice[i].amount,
                                           rowsDeleted |-> moved]]
    BY <1>3 DEF DeleteInvoice, InvoicesInv, InvoicesTypeOK
  <2> QED BY <2>1, <2>2
<1>6. invoice' \in [InvoiceIds -> Invoice]
  BY <1>5 DEF InvoicesInv, InvoicesTypeOK, Invoice, States
<1>7. link' = [r \in Rows |-> IF r \in found THEN 0 ELSE link[r]] /\ rows' = rows
  BY <1>3 DEF DeleteInvoice
<1>8. reversed' \in [InvoiceIds -> Nat]
  BY <1>3 DEF DeleteInvoice, InvoicesInv, InvoicesTypeOK, Invoice
<1>9. InvoicesTypeOK'
  BY <1>2, <1>6, <1>7, <1>8 DEF DeleteInvoice, InvoicesInv, InvoicesTypeOK
<1>10. \A j \in InvoiceIds : Linked(j)' = Linked(j) \ found
  BY <1>7, InvoicesAssumption DEF Linked, InvoicesInv, InvoicesTypeOK
<1>11. \A j \in InvoiceIds : IF j = i THEN invoice'[j].state = "DELETED" ELSE invoice'[j] = invoice[j]
  BY <1>5 DEF InvoicesInv, InvoicesTypeOK
<1>12. DeletedIsFree'
  BY <1>4, <1>10, <1>11 DEF InvoicesInv, DeletedIsFree
<1>13. DeletesAll'
  <2>1. \A g \in Handlers : invoiceTask'[g] = invoiceTask[g] \/ invoiceTask'[g].pc \notin {"delete", "update"}
    BY <1>2 DEF Idle
  <2>2. \A j \in InvoiceIds : Created(j) => invoice'[j].state # "none" /\ Linked(j)' \subseteq Linked(j)
    BY <1>10, <1>11 DEF Created
  <2> QED BY <2>1, <2>2, KeepsDeletesAll
<1> QED BY <1>9, <1>12, <1>13 DEF InvoicesInv

LEMMA UpdateInvoiceInv ==
  ASSUME InvoicesInv, NEW h \in Handlers, UpdateInvoice(h)
  PROVE  InvoicesInv'
<1>1. invoiceTask[h] \in [pc : {"update"}, id : InvoiceIds, state : States, amount : Amounts \cup {NoAmount}]
  BY InvoiceTaskTypes DEF UpdateInvoice, InvoicesInv
<1>2. /\ invoiceTask' \in [Handlers -> InvoiceTask]
      /\ \A g \in Handlers : invoiceTask'[g] = IF g = h THEN Idle ELSE invoiceTask[g]
  BY InvoiceGoType, IdleIsInvoiceTask DEF UpdateInvoice, InvoicesInv
<1>3. PICK i \in InvoiceIds, state \in States, amount \in Amounts \cup {NoAmount} :
        /\ invoiceTask[h].id = i /\ invoiceTask[h].state = state /\ invoiceTask[h].amount = amount
        /\ state # "DELETED"
  BY <1>1 DEF UpdateInvoice, InvoicesInv, DeletesAll
<1> DEFINE now == [state |-> IF state = "none" THEN invoice[i].state ELSE state,
                   amount |-> IF amount = NoAmount THEN invoice[i].amount ELSE amount,
                   rowsDeleted |-> invoice[i].rowsDeleted]
<1>4. invoice[i] \in Invoice
  BY DEF InvoicesInv, InvoicesTypeOK
<1>5. now \in Invoice
  BY <1>4, InvoicesAssumption DEF Invoice
<1>6. invoice' \in [InvoiceIds -> Invoice] /\ \A j \in InvoiceIds : invoice'[j] = IF j = i THEN now ELSE invoice[j]
  <2>1. invoice' = [invoice EXCEPT ![i] = now]
    BY <1>3 DEF UpdateInvoice, InvoicesInv, InvoicesTypeOK
  <2> QED BY <1>5, <2>1 DEF InvoicesInv, InvoicesTypeOK
<1>7. InvoicesTypeOK'
  BY <1>2, <1>6 DEF UpdateInvoice, InvoicesInv, InvoicesTypeOK
<1>8. \A j \in InvoiceIds : Linked(j)' = Linked(j)
  BY DEF UpdateInvoice, Linked
<1>9. \A j \in InvoiceIds :
        /\ invoice'[j].state = "DELETED" => invoice[j].state = "DELETED"
        /\ Created(j) => invoice'[j].state # "none"
  BY <1>3, <1>6 DEF Created
<1>10. DeletedIsFree'
  BY <1>8, <1>9 DEF InvoicesInv, DeletedIsFree
<1>11. DeletesAll'
  <2>1. \A g \in Handlers : invoiceTask'[g] = invoiceTask[g] \/ invoiceTask'[g].pc \notin {"delete", "update"}
    BY <1>2 DEF Idle
  <2>2. \A j \in InvoiceIds : Created(j) => invoice'[j].state # "none" /\ Linked(j)' \subseteq Linked(j)
    BY <1>8, <1>9
  <2> QED BY <2>1, <2>2, KeepsDeletesAll
<1> QED BY <1>7, <1>10, <1>11 DEF InvoicesInv

(***************************************************************************)
(* Rows of purchases come and go, without a link.                          *)
(***************************************************************************)
LEMMA DropRowIs ==
  ASSUME InvoicesTypeOK, NEW r \in rows, DropRow(r)
  PROVE  /\ rows' \subseteq Rows /\ link' \in [Rows -> InvoiceIds \cup {0}]
         /\ invoice' \in [InvoiceIds -> Invoice] /\ UNCHANGED <<madeFor, reversed>>
         /\ \A i \in InvoiceIds : invoice'[i].state = invoice[i].state /\ Linked(i)' = Linked(i) \ {r}
<1>1. \A i \in InvoiceIds : /\ [invoice[i] EXCEPT !.rowsDeleted = @ \ {r}] \in Invoice
                            /\ [invoice[i] EXCEPT !.rowsDeleted = @ \ {r}].state = invoice[i].state
  BY DEF InvoicesTypeOK, Invoice
<1>2. invoice' \in [InvoiceIds -> Invoice] /\ \A i \in InvoiceIds : invoice'[i].state = invoice[i].state
  BY <1>1 DEF DropRow
<1>3. \A i \in InvoiceIds : Linked(i)' = Linked(i) \ {r}
  BY InvoicesAssumption DEF DropRow, Linked, InvoicesTypeOK
<1> QED BY <1>2, <1>3 DEF DropRow, InvoicesTypeOK

LEMMA RowsComeAndGo ==
  ASSUME InvoicesInv, invoiceTask' \in [Handlers -> InvoiceTask],
         rows' \subseteq Rows, link' \in [Rows -> InvoiceIds \cup {0}],
         invoice' \in [InvoiceIds -> Invoice], UNCHANGED <<madeFor, reversed>>,
         \A i \in InvoiceIds : invoice'[i].state = invoice[i].state /\ Linked(i)' \subseteq Linked(i),
         \A g \in Handlers : invoiceTask'[g] = invoiceTask[g] \/ invoiceTask'[g].pc \notin {"delete", "update"}
  PROVE  InvoicesInv'
<1>1. InvoicesTypeOK'
  BY DEF InvoicesInv, InvoicesTypeOK
<1>2. DeletesAll'
  BY KeepsDeletesAll DEF Created
<1>3. DeletedIsFree'
  BY DEF InvoicesInv, DeletedIsFree
<1> QED BY <1>1, <1>2, <1>3 DEF InvoicesInv

LEMMA BeginRemakeGoes ==
  ASSUME InvoicesTypeOK, NEW h \in Handlers, NEW r \in rows, BeginRemake(h, r)
  PROVE  /\ invoiceTask' \in [Handlers -> InvoiceTask]
         /\ \A g \in Handlers : invoiceTask'[g] = IF g = h THEN [pc |-> "remake", row |-> <<r[1], r[2] + 1>>]
                                                  ELSE invoiceTask[g]
<1>1. r[2] \in 1 .. MaxMade /\ r[1] \in Purchases /\ r[2] < MaxMade
  BY DEF InvoicesTypeOK, Rows, BeginRemake
<1>2. <<r[1], r[2] + 1>> \in Rows
  BY <1>1, InvoicesAssumption DEF Rows
<1> DEFINE state == [pc |-> "remake", row |-> <<r[1], r[2] + 1>>]
<1>3. state \in InvoiceTask
  BY <1>2 DEF InvoiceTask
<1>4. InvoiceGo(h, state)
  BY DEF BeginRemake
<1> HIDE DEF state
<1>5. /\ invoiceTask' \in [Handlers -> InvoiceTask]
      /\ \A g \in Handlers : invoiceTask'[g] = IF g = h THEN state ELSE invoiceTask[g]
  BY <1>3, <1>4, InvoiceGoType
<1> QED BY <1>5 DEF state

LEMMA RemakeRowIs ==
  ASSUME InvoicesTypeOK, NEW h \in Handlers, RemakeRow(h)
  PROVE  /\ invoiceTask[h].row \in Rows /\ rows' \subseteq Rows /\ link' \in [Rows -> InvoiceIds \cup {0}]
         /\ \A i \in InvoiceIds : Linked(i)' = Linked(i) \ {invoiceTask[h].row}
<1>1. invoiceTask[h].row \in Rows
  BY InvoiceTaskTypes DEF RemakeRow
<1> DEFINE r == invoiceTask[h].row
<1>2. rows' = rows \cup {r} /\ link' = [link EXCEPT ![r] = 0]
  BY DEF RemakeRow
<1> HIDE DEF r
<1>3. r \in Rows /\ rows' \subseteq Rows /\ link' \in [Rows -> InvoiceIds \cup {0}]
  BY <1>1, <1>2 DEF InvoicesTypeOK, r
<1>4. \A i \in InvoiceIds : Linked(i)' = Linked(i) \ {r}
  BY <1>2, <1>3, InvoicesAssumption DEF Linked, InvoicesTypeOK
<1> QED BY <1>3, <1>4 DEF r

LEMMA InvoicesNextInv == InvoicesInv /\ [InvoicesNext]_invoicesVars => InvoicesInv'
<1> SUFFICES ASSUME InvoicesInv, [InvoicesNext]_invoicesVars PROVE InvoicesInv'
  OBVIOUS
<1> USE DEF InvoicesInv
<1>1. ASSUME NEW h \in Handlers, NEW chosen \in SUBSET rows \ {{}}, NEW amount \in Amounts,
             BeginInvoice(h, chosen, amount)
      PROVE  InvoicesInv'
  <2>1. [pc |-> "create", rows |-> chosen, amount |-> amount] \in InvoiceTask
    BY DEF InvoiceTask, InvoicesTypeOK
  <2> QED BY <1>1, <2>1, InvoiceGoType, InvoiceKeepsTables DEF BeginInvoice
<1>2. ASSUME NEW h \in Handlers, NEW i \in InvoiceIds, BeginDeleteInvoice(h, i)
      PROVE  InvoicesInv'
  BY <1>2, ReadToDeleteInv DEF BeginDeleteInvoice
<1>3. ASSUME NEW h \in Handlers, NEW i \in InvoiceIds, BeginUpdateInvoice(h, i)
      PROVE  InvoicesInv'
  <2>1. CASE ReadToDelete(h, i)
    <3>1. Created(i)
      BY <1>3 DEF BeginUpdateInvoice, MayUpdate, Created
    <3> QED BY <1>3, <2>1, <3>1, ReadToDeleteInv DEF BeginUpdateInvoice
  <2>2. ASSUME NEW state \in {"none", "CREATED", "SENT", "PAID"}, NEW amount \in Amounts \cup {NoAmount},
               InvoiceGo(h, [pc |-> "update", id |-> i, state |-> state, amount |-> amount])
        PROVE  InvoicesInv'
    <3>1. [pc |-> "update", id |-> i, state |-> state, amount |-> amount] \in InvoiceTask
      BY DEF InvoiceTask, States
    <3>2. \A g \in Handlers : \/ invoiceTask'[g] = invoiceTask[g]
                              \/ invoiceTask'[g].pc = "update" /\ invoiceTask'[g].state # "DELETED"
      BY <2>2, <3>1, InvoiceGoType
    <3> QED BY <1>3, <2>2, <3>1, <3>2, InvoiceGoType, InvoiceKeepsTables DEF BeginUpdateInvoice
  <2> QED BY <1>3, <2>1, <2>2 DEF BeginUpdateInvoice
<1>4. ASSUME NEW h \in Handlers, InvoiceFails(h) PROVE InvoicesInv'
  <2>1. \A g \in Handlers : invoiceTask'[g] = invoiceTask[g] \/ invoiceTask'[g].pc \notin {"delete", "update"}
    BY <1>4, IdleIsInvoiceTask, InvoiceGoType DEF InvoiceFails, Idle
  <2> QED BY <1>4, <2>1, IdleIsInvoiceTask, InvoiceGoType, InvoiceKeepsTables DEF InvoiceFails
<1>5. CASE UNCHANGED invoicesVars
  <2>1. InvoicesTypeOK'
    BY <1>5 DEF InvoicesTypeOK, invoicesVars
  <2>2. invoiceTask' \in [Handlers -> InvoiceTask] /\ UNCHANGED invoiceTables
    BY <1>5 DEF InvoicesTypeOK, invoicesVars, invoiceTables
  <2> QED BY <1>5, <2>2, InvoiceKeepsTables DEF invoicesVars
<1>6. ASSUME NEW r \in rows, DeletePurchase(r) PROVE InvoicesInv'
  <2>1. invoiceTask' \in [Handlers -> InvoiceTask] /\ UNCHANGED invoiceTask /\ DropRow(r)
    BY <1>6 DEF DeletePurchase, InvoicesTypeOK
  <2> QED BY <2>1, DropRowIs, RowsComeAndGo
<1>7. ASSUME NEW h \in Handlers, NEW r \in rows, BeginRemake(h, r) PROVE InvoicesInv'
  <2>1. DropRow(r)
    BY <1>7 DEF BeginRemake
  <2>2. ASSUME NEW g \in Handlers
        PROVE  invoiceTask'[g] = invoiceTask[g] \/ invoiceTask'[g].pc \notin {"delete", "update"}
    <3>1. CASE g = h
      <4>1. invoiceTask'[g] = [pc |-> "remake", row |-> <<r[1], r[2] + 1>>]
        BY <1>7, <3>1, BeginRemakeGoes
      <4> QED BY <4>1
    <3>2. CASE g # h
      BY <1>7, <3>2, BeginRemakeGoes
    <3> QED BY <3>1, <3>2
  <2> QED BY <1>7, <2>1, <2>2, BeginRemakeGoes, DropRowIs, RowsComeAndGo
<1>8. ASSUME NEW h \in Handlers, RemakeRow(h) PROVE InvoicesInv'
  <2>1. /\ invoiceTask' \in [Handlers -> InvoiceTask]
        /\ \A g \in Handlers : invoiceTask'[g] = invoiceTask[g] \/ invoiceTask'[g].pc \notin {"delete", "update"}
    BY <1>8, IdleIsInvoiceTask, InvoiceGoType DEF RemakeRow, Idle
  <2>2. UNCHANGED <<invoice, madeFor, reversed>> /\ invoice' \in [InvoiceIds -> Invoice]
    BY <1>8 DEF RemakeRow, InvoicesTypeOK
  <2> QED BY <1>8, <2>1, <2>2, RemakeRowIs, RowsComeAndGo
<1> QED BY <1>1, <1>2, <1>3, <1>4, <1>5, <1>6, <1>7, <1>8, CreateInvoiceInv, DeleteInvoiceInv, UpdateInvoiceInv
        DEF InvoicesNext

LEMMA InvoicesInvAlways == InvoicesSpec => []InvoicesInv
BY InvoicesInitInv, InvoicesNextInv, PTL DEF InvoicesSpec

(***************************************************************************)
(* Every reachable state of the model of invoices is well typed.           *)
(***************************************************************************)
THEOREM InvoicesTypeCorrect == InvoicesSpec => []InvoicesTypeOK
<1>1. InvoicesInv => InvoicesTypeOK
  BY DEF InvoicesInv
<1> QED BY <1>1, InvoicesInvAlways, PTL

(***************************************************************************)
(* However many requests race and roll back, the rows of a deleted invoice *)
(* are free to be invoiced again: deleteInvoice unlinks what it read, and  *)
(* no row is linked to an invoice that exists already.                     *)
(***************************************************************************)
THEOREM DeletedIsFreeAlways == InvoicesSpec => []DeletedIsFree
<1>1. InvoicesInv => DeletedIsFree
  BY DEF InvoicesInv
<1> QED BY <1>1, InvoicesInvAlways, PTL
-----------------------------------------------------------------------------
(***************************************************************************)
(* One request at a time: what a request read is still so when it commits, *)
(* of the rows that are still there.  A purchase has one row, which was    *)
(* made after all the rows of it that were invoiced.                       *)
(***************************************************************************)
StillAsRead(task) ==
  /\ task.pc = "create" => /\ \A r \in task.rows : link[r] = 0
                           /\ \A r \in task.rows, s \in rows : r[1] = s[1] => r = s
  /\ task.pc = "delete" => task.rows \cap rows = Linked(task.id)
  /\ task.pc = "update" => Living(task.id)
  /\ task.pc = "remake" =>
       /\ \A s \in rows : s[1] # task.row[1]
       /\ \A i \in InvoiceIds : \A r \in madeFor[i] : r[1] = task.row[1] => r[2] < task.row[2]

LatestRows ==
  /\ \A r, s \in rows : r[1] = s[1] => r = s
  /\ \A i \in InvoiceIds : \A r \in madeFor[i], s \in rows : r[1] = s[1] => r[2] <= s[2]

OnceInv ==
  /\ InvoicedOnce
  /\ LatestRows
  /\ \A i \in InvoiceIds : ~ Created(i) => Linked(i) = {}
  /\ \A h \in Handlers : StillAsRead(invoiceTask[h])

(***************************************************************************)
(* A step that changes no table and starts or drops a request.             *)
(***************************************************************************)
LEMMA OnceKeepsTables ==
  ASSUME OnceInv, UNCHANGED invoiceTables,
         \A h \in Handlers : invoiceTask'[h] = invoiceTask[h] \/ StillAsRead(invoiceTask'[h])
  PROVE  OnceInv'
<1>1. \A i : /\ Linked(i)' = Linked(i) /\ Living(i)' = Living(i) /\ Created(i)' = Created(i)
  BY DEF Linked, Living, Created, invoiceTables
<1>2. \A h \in Handlers : StillAsRead(invoiceTask'[h])
  BY DEF OnceInv
<1>3. \A h \in Handlers : StillAsRead(invoiceTask[h])'
  BY <1>2 DEF StillAsRead, Linked, Living, invoiceTables
<1>4. InvoicedOnce' /\ LatestRows'
  BY <1>1 DEF OnceInv, InvoicedOnce, LatestRows, invoiceTables
<1> QED BY <1>1, <1>3, <1>4 DEF OnceInv

LEMMA OnlyRequest ==
  ASSUME \A g, h \in Handlers : g = h, InvoicesTypeOK, NEW h \in Handlers, NEW state \in InvoiceTask,
         InvoiceGo(h, state)
  PROVE  \A g \in Handlers : invoiceTask'[g] = state
BY InvoiceGoType

LEMMA InvoicesNextOnce ==
  ASSUME \A g, h \in Handlers : g = h
  PROVE  InvoicesInv /\ OnceInv /\ [InvoicesNext]_invoicesVars => OnceInv'
<1> SUFFICES ASSUME InvoicesInv, OnceInv, [InvoicesNext]_invoicesVars PROVE OnceInv'
  OBVIOUS
<1> USE DEF InvoicesInv
<1>1. ASSUME NEW h \in Handlers, NEW chosen \in SUBSET rows \ {{}}, NEW amount \in Amounts,
             BeginInvoice(h, chosen, amount)
      PROVE  OnceInv'
  <2> DEFINE state == [pc |-> "create", rows |-> chosen, amount |-> amount]
  <2>1. state \in InvoiceTask /\ StillAsRead(state)
    BY <1>1 DEF InvoicesTypeOK, InvoiceTask, BeginInvoice, StillAsRead, OnceInv, LatestRows
  <2>2. InvoiceGo(h, state) /\ UNCHANGED invoiceTables
    BY <1>1 DEF BeginInvoice
  <2> HIDE DEF state
  <2> QED BY <2>1, <2>2, OnlyRequest, OnceKeepsTables
<1>2. ASSUME NEW h \in Handlers, NEW i \in InvoiceIds, ReadToDelete(h, i), UNCHANGED invoiceTables
      PROVE  OnceInv'
  <2> DEFINE state == [pc |-> "delete", id |-> i, read |-> invoice[i], rows |-> Linked(i)]
  <2>1. state \in InvoiceTask /\ StillAsRead(state)
    BY DEF InvoicesTypeOK, InvoiceTask, Linked, StillAsRead
  <2>2. InvoiceGo(h, state)
    BY <1>2 DEF ReadToDelete
  <2> HIDE DEF state
  <2> QED BY <1>2, <2>1, <2>2, OnlyRequest, OnceKeepsTables
<1>3. ASSUME NEW h \in Handlers, NEW i \in InvoiceIds, BeginUpdateInvoice(h, i)
      PROVE  OnceInv'
  <2>1. ASSUME NEW s \in {"none", "CREATED", "SENT", "PAID"}, NEW amount \in Amounts \cup {NoAmount},
               InvoiceGo(h, [pc |-> "update", id |-> i, state |-> s, amount |-> amount])
        PROVE  OnceInv'
    <3> DEFINE state == [pc |-> "update", id |-> i, state |-> s, amount |-> amount]
    <3>1. state \in InvoiceTask /\ StillAsRead(state) /\ InvoiceGo(h, state)
      BY <1>3, <2>1 DEF InvoiceTask, States, StillAsRead, Living, BeginUpdateInvoice, MayUpdate
    <3> HIDE DEF state
    <3> QED BY <1>3, <3>1, OnlyRequest, OnceKeepsTables DEF BeginUpdateInvoice
  <2> QED BY <1>2, <1>3, <2>1 DEF BeginUpdateInvoice
<1>4. ASSUME NEW h \in Handlers, InvoiceFails(h) PROVE OnceInv'
  <2>1. StillAsRead(Idle)
    BY DEF StillAsRead, Idle
  <2> QED BY <1>4, <2>1, IdleIsInvoiceTask, OnlyRequest, OnceKeepsTables DEF InvoiceFails
<1>5. ASSUME NEW h \in Handlers, InvoiceGo(h, Idle) PROVE \A g \in Handlers : StillAsRead(invoiceTask[g])'
  BY <1>5, IdleIsInvoiceTask, OnlyRequest DEF StillAsRead, Idle
<1>6. ASSUME NEW h \in Handlers, NEW i \in InvoiceIds, CreateInvoice(h, i) PROVE OnceInv'
  <2> DEFINE found == invoiceTask[h].rows
  <2>1. /\ found \in SUBSET Rows /\ \A r \in found : link[r] = 0
        /\ \A r \in found, s \in rows : r[1] = s[1] => r = s
    BY <1>6, InvoiceTaskTypes DEF CreateInvoice, OnceInv, StillAsRead, InvoiceAt
  <2>2. /\ link' = [r \in Rows |-> IF r \in found \cap rows THEN i ELSE link[r]]
        /\ madeFor' = [madeFor EXCEPT ![i] = found] /\ rows' = rows
        /\ Linked(i) = {} /\ i # 0
    BY <1>6, InvoicesAssumption DEF CreateInvoice, OnceInv
  <2>3. invoice'[i].state = "CREATED" /\ \A j \in InvoiceIds : j # i => invoice'[j] = invoice[j]
    BY <1>6 DEF CreateInvoice, InvoicesTypeOK
  <2> HIDE DEF found
  <2>4. \A j \in InvoiceIds : Linked(j)' = IF j = i THEN found \cap rows ELSE Linked(j)
    BY <2>1, <2>2, InvoicesAssumption DEF Linked, InvoicesTypeOK
  <2>5. \A j \in InvoiceIds : madeFor'[j] = IF j = i THEN found ELSE madeFor[j]
    BY <2>2 DEF InvoicesTypeOK
  <2>6. InvoicedOnce' /\ \A j \in InvoiceIds : ~ Created(j)' => Linked(j)' = {}
    BY <2>2, <2>3, <2>4, <2>5 DEF OnceInv, InvoicedOnce, Created, Living
  <2>7. LatestRows'
    <3>1. \A r \in rows : r[2] <= r[2]
      BY DEF InvoicesTypeOK, Rows
    <3> QED BY <2>1, <2>2, <2>5, <3>1 DEF OnceInv, LatestRows
  <2> QED BY <1>5, <1>6, <2>6, <2>7 DEF CreateInvoice, OnceInv
<1>7. ASSUME NEW h \in Handlers, DeleteInvoice(h) PROVE OnceInv'
  <2> DEFINE found == invoiceTask[h].rows
             i == invoiceTask[h].id
  <2>1. i \in InvoiceIds /\ found \cap rows = Linked(i) /\ Created(i)
    BY <1>7, InvoiceTaskTypes DEF DeleteInvoice, OnceInv, StillAsRead, InvoiceAt, DeletesAll
  <2>2. link' = [r \in Rows |-> IF r \in found THEN 0 ELSE link[r]] /\ UNCHANGED <<rows, madeFor>>
    BY <1>7 DEF DeleteInvoice
  <2>3. invoice'[i].state = "DELETED" /\ \A j \in InvoiceIds : j # i => invoice'[j] = invoice[j]
    <3> HIDE DEF i
    <3> QED BY <1>7, <2>1 DEF DeleteInvoice, InvoicesTypeOK, i
  <2> HIDE DEF found, i
  <2>4. \A j \in InvoiceIds : Linked(j)' = IF j = i THEN {} ELSE Linked(j)
    BY <2>1, <2>2, InvoicesAssumption DEF Linked, InvoicesTypeOK
  <2>5. InvoicedOnce' /\ \A j \in InvoiceIds : ~ Created(j)' => Linked(j)' = {}
    BY <2>1, <2>2, <2>3, <2>4 DEF OnceInv, InvoicedOnce, Created, Living
  <2>6. LatestRows'
    BY <2>2 DEF OnceInv, LatestRows
  <2> QED BY <1>5, <1>7, <2>5, <2>6 DEF DeleteInvoice, OnceInv
<1>8. ASSUME NEW h \in Handlers, UpdateInvoice(h) PROVE OnceInv'
  <2> DEFINE i == invoiceTask[h].id
  <2>1. i \in InvoiceIds /\ Living(i)
    BY <1>8, InvoiceTaskTypes DEF UpdateInvoice, OnceInv, StillAsRead, InvoiceAt
  <2>2. UNCHANGED <<rows, link, madeFor>> /\ \A j : Linked(j)' = Linked(j)
    BY <1>8 DEF UpdateInvoice, Linked
  <2>3. \A j \in InvoiceIds : j # i => invoice'[j] = invoice[j]
    <3> HIDE DEF i
    <3> QED BY <1>8, <2>1 DEF UpdateInvoice, InvoicesTypeOK, i
  <2>4. invoice'[i].state # "none"
    <3>1. invoice'[i].state
            = IF invoiceTask[h].state = "none" THEN invoice[i].state ELSE invoiceTask[h].state
      BY <1>8, <2>1 DEF UpdateInvoice, InvoicesTypeOK
    <3> QED BY <2>1, <3>1 DEF Living
  <2> HIDE DEF i
  <2>5. InvoicedOnce' /\ \A j \in InvoiceIds : ~ Created(j)' => Linked(j)' = {}
    BY <2>1, <2>2, <2>3, <2>4 DEF OnceInv, InvoicedOnce, Created, Living
  <2>6. LatestRows'
    BY <2>2 DEF OnceInv, LatestRows
  <2> QED BY <1>5, <1>8, <2>5, <2>6 DEF UpdateInvoice, OnceInv
<1>9. CASE UNCHANGED invoicesVars
  BY <1>9, OnceKeepsTables DEF invoicesVars, invoiceTables
<1>10. ASSUME NEW r \in rows, DropRow(r)
       PROVE  /\ InvoicedOnce' /\ LatestRows' /\ \A i \in InvoiceIds : ~ Created(i)' => Linked(i)' = {}
              /\ \A i \in InvoiceIds : Linked(i)' = Linked(i) \ {r} /\ (Living(i) => Living(i)')
              /\ rows' = rows \ {r} /\ link' = [link EXCEPT ![r] = 0] /\ madeFor' = madeFor
  <2>1. /\ \A i \in InvoiceIds : Linked(i)' = Linked(i) \ {r} /\ invoice'[i].state = invoice[i].state
        /\ rows' = rows \ {r} /\ link' = [link EXCEPT ![r] = 0] /\ madeFor' = madeFor
    BY <1>10, DropRowIs DEF DropRow
  <2>2. InvoicedOnce' /\ \A i \in InvoiceIds : ~ Created(i)' => Linked(i)' = {}
    BY <2>1 DEF OnceInv, InvoicedOnce, Living, Created
  <2>3. LatestRows'
    BY <2>1 DEF OnceInv, LatestRows
  <2> QED BY <2>1, <2>2, <2>3 DEF Living
<1>11. ASSUME NEW r \in rows, DeletePurchase(r) PROVE OnceInv'
  <2>1. DropRow(r) /\ UNCHANGED invoiceTask
    BY <1>11 DEF DeletePurchase
  <2>2. ASSUME NEW g \in Handlers PROVE StillAsRead(invoiceTask[g])'
    <3> DEFINE task == invoiceTask[g]
    <3>1. StillAsRead(task) /\ task' = task
      BY <2>1 DEF OnceInv
    <3>2. task.pc = "create" => task.rows \subseteq Rows
      BY InvoiceTaskTypes DEF InvoiceAt
    <3>3. task.pc \in {"delete", "update"} => task.id \in InvoiceIds
      BY InvoiceTaskTypes DEF InvoiceAt
    <3> HIDE DEF task
    <3>4. task.pc = "create" =>
            /\ \A s \in task.rows : link'[s] = 0
            /\ \A s \in task.rows, t \in rows' : s[1] = t[1] => s = t
      BY <1>10, <2>1, <3>1, <3>2 DEF StillAsRead, InvoicesTypeOK
    <3>5. task.pc = "delete" => task.rows \cap rows' = Linked(task.id)'
      BY <1>10, <2>1, <3>1, <3>3 DEF StillAsRead
    <3>6. task.pc = "update" => Living(task.id)'
      BY <1>10, <2>1, <3>1, <3>3 DEF StillAsRead
    <3>7. task.pc = "remake" =>
            /\ \A s \in rows' : s[1] # task.row[1]
            /\ \A i \in InvoiceIds : \A s \in madeFor'[i] : s[1] = task.row[1] => s[2] < task.row[2]
      BY <1>10, <2>1, <3>1 DEF StillAsRead
    <3>8. StillAsRead(task)'
      BY <3>1, <3>4, <3>5, <3>6, <3>7 DEF StillAsRead, Linked, Living
    <3> QED BY <3>8 DEF task
  <2> QED BY <1>10, <2>1, <2>2 DEF OnceInv
<1>12. ASSUME NEW h \in Handlers, NEW r \in rows, BeginRemake(h, r) PROVE OnceInv'
  <2>1. DropRow(r)
    BY <1>12 DEF BeginRemake
  <2>2. \A g \in Handlers : invoiceTask'[g] = [pc |-> "remake", row |-> <<r[1], r[2] + 1>>]
    BY <1>12, BeginRemakeGoes
  <2>3. \A s \in rows' : s[1] # r[1]
    BY <1>10, <2>1 DEF OnceInv, LatestRows
  <2>4. \A i \in InvoiceIds : \A m \in madeFor'[i] : m[1] = r[1] => m[2] < r[2] + 1
    <3>1. \A i \in InvoiceIds : \A m \in madeFor[i] : m[2] \in Nat
      BY DEF InvoicesTypeOK, Rows
    <3>2. r[2] \in Nat
      BY DEF InvoicesTypeOK, Rows
    <3> QED BY <1>10, <2>1, <3>1, <3>2 DEF OnceInv, LatestRows
  <2>5. ASSUME NEW g \in Handlers PROVE StillAsRead(invoiceTask[g])'
    BY <2>2, <2>3, <2>4 DEF StillAsRead
  <2> QED BY <1>10, <2>1, <2>5 DEF OnceInv
<1>13. ASSUME NEW h \in Handlers, RemakeRow(h) PROVE OnceInv'
  <2> DEFINE r == invoiceTask[h].row
  <2>1. /\ r \in Rows /\ \A s \in rows : s[1] # r[1]
        /\ \A i \in InvoiceIds : \A m \in madeFor[i] : m[1] = r[1] => m[2] < r[2]
        /\ \A i \in InvoiceIds : Linked(i)' = Linked(i) \ {r}
    BY <1>13, RemakeRowIs DEF RemakeRow, OnceInv, StillAsRead, InvoiceAt
  <2>2. rows' = rows \cup {r} /\ UNCHANGED <<invoice, madeFor>>
    BY <1>13 DEF RemakeRow
  <2> HIDE DEF r
  <2>3. \A i \in InvoiceIds : Linked(i)' = Linked(i) /\ r \notin madeFor[i]
    <3>1. r \notin rows
      BY <2>1
    <3>2. \A i \in InvoiceIds : r \notin madeFor[i]
      BY <2>1 DEF Rows
    <3> QED BY <2>1, <3>1, <3>2 DEF Linked
  <2>4. InvoicedOnce' /\ \A i \in InvoiceIds : ~ Created(i)' => Linked(i)' = {}
    BY <2>2, <2>3 DEF OnceInv, InvoicedOnce, Living, Created
  <2>5. LatestRows'
    <3>1. \A i \in InvoiceIds : \A m \in madeFor[i] : m[1] = r[1] => m[2] <= r[2]
      BY <2>1 DEF InvoicesTypeOK, Rows
    <3> QED BY <2>1, <2>2, <3>1 DEF OnceInv, LatestRows
  <2> QED BY <1>5, <1>13, <2>4, <2>5 DEF RemakeRow, OnceInv
<1> QED BY <1>1, <1>2, <1>3, <1>4, <1>6, <1>7, <1>8, <1>9, <1>11, <1>12, <1>13
        DEF InvoicesNext, BeginDeleteInvoice

(***************************************************************************)
(* With one request at a time, while purchases may be deleted at any       *)
(* moment and changed, a living invoice keeps the rows it was made for     *)
(* that are still there: no row is invoiced twice.                         *)
(***************************************************************************)
THEOREM InvoicedOnceAlways ==
  ASSUME \A g, h \in Handlers : g = h
  PROVE  InvoicesSpec => []InvoicedOnce
<1>1. InvoicesInit => OnceInv
  <2> SUFFICES ASSUME InvoicesInit PROVE OnceInv
    OBVIOUS
  <2>1. LatestRows
    <3>1. \A r, s \in rows : r[1] = s[1] => r = s
      BY DEF InvoicesInit
    <3>2. \A i \in InvoiceIds : madeFor[i] = {}
      BY DEF InvoicesInit
    <3> QED BY <3>1, <3>2 DEF LatestRows
  <2>2. \A i \in InvoiceIds : ~ Created(i) /\ ~ Living(i) /\ Linked(i) = {}
    BY InvoicesAssumption, InvoicesInitType DEF InvoicesInit, NoInvoice, Created, Living, Linked, InvoicesTypeOK
  <2>3. \A h \in Handlers : StillAsRead(invoiceTask[h])
    BY DEF InvoicesInit, StillAsRead, Idle
  <2> QED BY <2>1, <2>2, <2>3 DEF OnceInv, InvoicedOnce
<1>2. OnceInv => InvoicedOnce
  BY DEF OnceInv
<1> QED BY <1>1, <1>2, InvoicesInvAlways, InvoicesNextOnce, PTL DEF InvoicesSpec
-----------------------------------------------------------------------------
(***************************************************************************)
(* Seller payouts, for any number of requests at once: an id is given once *)
(* and a request that has made a transfer for it is alone with it, until   *)
(* the payout is there; a transfer goes only after its payout.             *)
(***************************************************************************)
HasId(task) == task.pc \in {"payout", "amount", "amount.transfer", "remove", "remove.transfer"}

PayoutsBooked ==
  \A i \in SellerPayoutIds : PaidOut(i) => i <= lastPayout /\ payoutTransfers[i] # -1

PayoutTaskHolds(task, table, transfers, last) ==
  /\ HasId(task) => task.id <= last
  /\ task.pc = "remove.transfer" => table[task.id] = NoPayout
  /\ task.pc = "payout" => table[task.id] = NoPayout /\ transfers[task.id] # -1

PayoutTasksHold ==
  \A h \in Handlers : PayoutTaskHolds(payoutTask[h], sellerPayouts, payoutTransfers, lastPayout)

AloneWithId ==
  \A g, h \in Handlers : g # h /\ SellerAt(h, "payout") /\ HasId(payoutTask[g]) =>
    payoutTask[g].id # payoutTask[h].id

SellerInv == SellerTypeOK /\ PayoutsBooked /\ PayoutTasksHold /\ AloneWithId

LEMMA SoldInType == ASSUME NEW w PROVE SoldIn(w) \in Nat
<1> DEFINE S == {sale \in Moments \X (1 .. MaxSold) :
                   w.from <= sale[1] /\ sale[1] < w.till /\ sale[2] <= sold[sale[1]]}
<1>1. IsFiniteSet(Moments) /\ IsFiniteSet(1 .. MaxSold)
  BY SellerPayoutsAssumption, FS_Interval DEF Moments
<1>2. IsFiniteSet(Moments \X (1 .. MaxSold))
  BY <1>1, FS_Product
<1>3. S \in SUBSET (Moments \X (1 .. MaxSold))
  OBVIOUS
<1>4. IsFiniteSet(S)
  BY <1>2, <1>3, FS_Subset
<1>5. SoldIn(w) = Cardinality(S)
  BY DEF SoldIn
<1> HIDE DEF S
<1> QED BY <1>4, <1>5, FS_CardinalityType

LEMMA PayoutTaskTypes ==
  ASSUME NEW task \in PayoutTask
  PROVE  /\ task.pc \in {"report", "transfer"} =>
              task \in [pc : {"report", "transfer"}, window : Window, amount : Nat]
         /\ task.pc = "payout" =>
              task \in [pc : {"payout"}, window : Window, amount : Nat, id : SellerPayoutIds]
         /\ task.pc \in {"amount", "amount.transfer"} =>
              task \in [pc : {"amount", "amount.transfer"}, id : SellerPayoutIds, amount : Nat]
         /\ task.pc \in {"remove", "remove.transfer"} =>
              task \in [pc : {"remove", "remove.transfer"}, id : SellerPayoutIds]
         /\ HasId(task) => task.id \in SellerPayoutIds
BY DEF PayoutTask, Idle, HasId

LEMMA IdleIsPayoutTask == Idle \in PayoutTask /\ ~ HasId(Idle) /\ Idle.pc = "idle"
BY DEF PayoutTask, Idle, HasId

LEMMA SellerGoes ==
  ASSUME SellerTypeOK, NEW h \in Handlers, NEW state \in PayoutTask, SellerGo(h, state)
  PROVE  /\ payoutTask' \in [Handlers -> PayoutTask]
         /\ \A g \in Handlers : payoutTask'[g] = IF g = h THEN state ELSE payoutTask[g]
         /\ payoutTask[h] \in PayoutTask
BY DEF SellerTypeOK, SellerGo

(***************************************************************************)
(* A step that keeps the payouts and their transfers and goes on with an   *)
(* id of a payout there is, with its own id, or without one.               *)
(***************************************************************************)
LEMMA KeepsPayouts ==
  ASSUME SellerInv, NEW h \in Handlers, NEW state \in PayoutTask, SellerGo(h, state),
         UNCHANGED <<sellerPayouts, payoutTransfers, lastPayout>>, sold' \in [Moments -> Nat],
         state.pc \notin {"payout", "remove.transfer"},
         HasId(state) => PaidOut(state.id) \/ (HasId(payoutTask[h]) /\ payoutTask[h].id = state.id)
  PROVE  SellerInv'
<1>1. /\ payoutTask' \in [Handlers -> PayoutTask]
      /\ \A g \in Handlers : payoutTask'[g] = IF g = h THEN state ELSE payoutTask[g]
  BY SellerGoes DEF SellerInv
<1>2. SellerTypeOK' /\ PayoutsBooked'
  BY <1>1 DEF SellerInv, SellerTypeOK, PayoutsBooked, PaidOut
<1>3. PayoutTaskHolds(state, sellerPayouts, payoutTransfers, lastPayout)
  BY PayoutTaskTypes DEF SellerInv, PayoutsBooked, PayoutTasksHold, PayoutTaskHolds
<1>4. \A g \in Handlers : SellerAt(g, "payout") /\ g # h /\ HasId(state) => payoutTask[g].id # state.id
  BY PayoutTaskTypes DEF SellerInv, SellerTypeOK, PayoutTasksHold, PayoutTaskHolds, AloneWithId, PaidOut, SellerAt,
                         HasId
<1>5. PayoutTasksHold'
  BY <1>1, <1>3 DEF SellerInv, PayoutTasksHold
<1>6. AloneWithId'
  BY <1>1, <1>4 DEF SellerInv, AloneWithId, SellerAt
<1> QED BY <1>2, <1>5, <1>6 DEF SellerInv

(***************************************************************************)
(* A step of a request with an id that changes the payout or the transfer  *)
(* of that id and no other.                                                *)
(***************************************************************************)
LEMMA ChangesPayout ==
  ASSUME SellerInv, NEW h \in Handlers, NEW i \in SellerPayoutIds, NEW state \in PayoutTask,
         HasId(payoutTask[h]), payoutTask[h].id = i, SellerGo(h, state),
         sellerPayouts' \in [SellerPayoutIds -> PayoutRows],
         payoutTransfers' \in [SellerPayoutIds -> Nat \cup {-1}],
         \A j \in SellerPayoutIds \ {i} : sellerPayouts'[j] = sellerPayouts[j]
                                         /\ payoutTransfers'[j] = payoutTransfers[j],
         UNCHANGED <<sold, lastPayout>>,
         PaidOut(i)' => payoutTransfers'[i] # -1 /\ (PaidOut(i) \/ SellerAt(h, "payout")),
         HasId(state) => state.id = i, state.pc # "payout", state.pc = "remove.transfer" => ~ PaidOut(i)'
  PROVE  SellerInv'
<1>1. /\ payoutTask' \in [Handlers -> PayoutTask]
      /\ \A g \in Handlers : payoutTask'[g] = IF g = h THEN state ELSE payoutTask[g]
  BY SellerGoes DEF SellerInv
<1>2. SellerTypeOK'
  BY <1>1 DEF SellerInv, SellerTypeOK
<1>3. i <= lastPayout
  BY DEF SellerInv, PayoutTasksHold, PayoutTaskHolds
<1>4. \A j \in SellerPayoutIds : j # i => (PaidOut(j)' <=> PaidOut(j))
  BY DEF PaidOut
<1>5. PayoutsBooked'
  BY <1>3, <1>4 DEF SellerInv, PayoutsBooked
<1>6. ASSUME NEW g \in Handlers
      PROVE  PayoutTaskHolds(payoutTask'[g], sellerPayouts', payoutTransfers', lastPayout')
  <2>1. CASE g = h
    <3>1. payoutTask'[g] = state
      BY <1>1, <2>1
    <3>2. state.pc = "remove.transfer" => sellerPayouts'[state.id] = NoPayout
      BY DEF PaidOut, HasId
    <3> QED BY <1>3, <3>1, <3>2 DEF PayoutTaskHolds
  <2>2. CASE g # h
    <3>1. PICK task \in PayoutTask : task = payoutTask[g] /\ payoutTask'[g] = task
      BY <1>1, <2>2 DEF SellerInv, SellerTypeOK
    <3>2. PayoutTaskHolds(task, sellerPayouts, payoutTransfers, lastPayout)
      BY <3>1 DEF SellerInv, PayoutTasksHold
    <3>3. task.pc \in {"payout", "remove.transfer"} => HasId(task) /\ task.id \in SellerPayoutIds
      BY PayoutTaskTypes DEF HasId
    <3>4. SellerAt(h, "payout") /\ HasId(task) => task.id # i
      BY <2>2, <3>1 DEF SellerInv, AloneWithId
    <3>5. task.pc = "payout" => task.id # i
      BY <2>2, <3>1 DEF SellerInv, AloneWithId, SellerAt
    <3>6. task.pc = "remove.transfer" => sellerPayouts'[task.id] = NoPayout
      <4>1. CASE task.pc = "remove.transfer" /\ task.id = i
        <5>1. ~ PaidOut(i)
          BY <3>2, <4>1 DEF PayoutTaskHolds, PaidOut
        <5>2. ~ PaidOut(i)'
          BY <3>3, <3>4, <4>1, <5>1
        <5> QED BY <4>1, <5>2 DEF PaidOut
      <4>2. CASE task.pc = "remove.transfer" /\ task.id # i
        BY <3>2, <3>3, <4>2 DEF PayoutTaskHolds
      <4> QED BY <4>1, <4>2
    <3>7. task.pc = "payout" => sellerPayouts'[task.id] = NoPayout /\ payoutTransfers'[task.id] # -1
      BY <3>2, <3>3, <3>5 DEF PayoutTaskHolds
    <3>8. lastPayout' = lastPayout
      OBVIOUS
    <3> QED BY <3>1, <3>2, <3>6, <3>7, <3>8 DEF PayoutTaskHolds
  <2> QED BY <2>1, <2>2
<1>7. PayoutTasksHold'
  BY <1>6 DEF PayoutTasksHold
<1>8. AloneWithId'
  BY <1>1 DEF SellerInv, AloneWithId, SellerAt
<1> QED BY <1>2, <1>5, <1>7, <1>8 DEF SellerInv

LEMMA SellerInitInv == SellerInit => SellerInv
BY SellerPayoutsAssumption
   DEF SellerInit, SellerInv, SellerTypeOK, PayoutsBooked, PayoutTasksHold, PayoutTaskHolds, AloneWithId,
       PayoutTask, Idle, PaidOut, PayoutRows, NoPayout, SellerAt, HasId

LEMMA SellerStepInv == SellerInv /\ [SellerNext]_sellerVars => SellerInv'
<1> SUFFICES ASSUME SellerInv, [SellerNext]_sellerVars PROVE SellerInv'
  OBVIOUS
<1>0. /\ SellerTypeOK /\ \A h \in Handlers : payoutTask[h] \in PayoutTask
      /\ sold \in [Moments -> Nat] /\ lastPayout \in 0 .. MaxPayouts
  BY DEF SellerInv, SellerTypeOK
<1>s. UNCHANGED sellerTables =>
        /\ UNCHANGED <<sellerPayouts, payoutTransfers, lastPayout>> /\ sold' = sold /\ sold' \in [Moments -> Nat]
  BY <1>0 DEF sellerTables
<1>1. ASSUME NEW t \in Moments, Sell(t) PROVE SellerInv'
  <2>1. sold' \in [Moments -> Nat]
    BY <1>0, <1>1 DEF Sell
  <2> QED BY <1>1, <2>1 DEF Sell, SellerInv, SellerTypeOK, PayoutsBooked, PayoutTasksHold, AloneWithId,
                          PaidOut, SellerAt
<1>2. ASSUME NEW h \in Handlers, NEW w \in Window, BeginSellerPayout(h, w) PROVE SellerInv'
  <2> DEFINE state == [pc |-> "report", window |-> w, amount |-> 0]
  <2>1. state \in PayoutTask /\ ~ HasId(state) /\ state.pc \notin {"payout", "remove.transfer"}
    BY DEF PayoutTask, HasId
  <2>2. SellerGo(h, state) /\ UNCHANGED sellerTables
    BY <1>2 DEF BeginSellerPayout
  <2> HIDE DEF state
  <2> QED BY <1>s, <2>1, <2>2, KeepsPayouts
<1>3. ASSUME NEW h \in Handlers, NEW i \in SellerPayoutIds, BeginRemovePayout(h, i) PROVE SellerInv'
  <2> DEFINE state == [pc |-> "remove", id |-> i]
  <2>1. state \in PayoutTask /\ state.id = i /\ state.pc \notin {"payout", "remove.transfer"}
    BY DEF PayoutTask
  <2>2. SellerGo(h, state) /\ UNCHANGED sellerTables /\ PaidOut(i)
    BY <1>3 DEF BeginRemovePayout
  <2>3. PaidOut(state.id)
    BY <2>1, <2>2 DEF PaidOut
  <2>4. HasId(state) => PaidOut(state.id) \/ (HasId(payoutTask[h]) /\ payoutTask[h].id = state.id)
    BY <2>3
  <2>5. UNCHANGED <<sellerPayouts, payoutTransfers, lastPayout>> /\ sold' \in [Moments -> Nat]
    BY <1>s, <2>2
  <2> HIDE DEF state
  <2> QED BY <1>s, <2>1, <2>2, <2>4, <2>5, KeepsPayouts
<1>4. ASSUME NEW h \in Handlers, NEW i \in SellerPayoutIds, NEW amount \in 0 .. MaxSold,
             BeginUpdatePayout(h, i, amount)
      PROVE  SellerInv'
  <2> DEFINE state == [pc |-> "amount", id |-> i, amount |-> amount]
  <2>1. state \in PayoutTask /\ state.id = i /\ state.pc \notin {"payout", "remove.transfer"}
    BY SellerPayoutsAssumption DEF PayoutTask
  <2>2. SellerGo(h, state) /\ UNCHANGED sellerTables /\ PaidOut(i)
    BY <1>4 DEF BeginUpdatePayout
  <2>3. PaidOut(state.id)
    BY <2>1, <2>2 DEF PaidOut
  <2>4. HasId(state) => PaidOut(state.id) \/ (HasId(payoutTask[h]) /\ payoutTask[h].id = state.id)
    BY <2>3
  <2>5. UNCHANGED <<sellerPayouts, payoutTransfers, lastPayout>> /\ sold' \in [Moments -> Nat]
    BY <1>s, <2>2
  <2> HIDE DEF state
  <2> QED BY <1>s, <2>1, <2>2, <2>4, <2>5, KeepsPayouts
<1>5. ASSUME NEW h \in Handlers, ReportSales(h) PROVE SellerInv'
  <2> DEFINE state == [payoutTask[h] EXCEPT !.pc = "transfer", !.amount = SoldIn(payoutTask[h].window)]
  <2>1. payoutTask[h] \in [pc : {"report", "transfer"}, window : Window, amount : Nat]
    BY <1>0, <1>5, PayoutTaskTypes DEF ReportSales, SellerAt
  <2>2. state \in PayoutTask /\ state.pc = "transfer"
    BY <2>1, SoldInType DEF PayoutTask
  <2>3. SellerGo(h, state) /\ UNCHANGED sellerTables
    BY <1>5 DEF ReportSales
  <2> HIDE DEF state
  <2> QED BY <1>s, <2>2, <2>3, KeepsPayouts DEF HasId
<1>6. ASSUME NEW h \in Handlers, TransferPayout(h) PROVE SellerInv'
  <2> DEFINE i == lastPayout + 1
             amount == payoutTask[h].amount
             state == [pc |-> "payout", window |-> payoutTask[h].window, amount |-> amount, id |-> i]
  <2>1. payoutTask[h] \in [pc : {"report", "transfer"}, window : Window, amount : Nat]
    BY <1>0, <1>6, PayoutTaskTypes DEF TransferPayout, SellerAt
  <2>2. i \in SellerPayoutIds /\ i \in 0 .. MaxPayouts /\ i > lastPayout /\ amount \in Nat /\ amount # -1
    BY <1>0, <1>6, <2>1 DEF TransferPayout, SellerPayoutIds
  <2>3. state \in PayoutTask /\ state.pc = "payout" /\ state.id = i /\ HasId(state)
    BY <2>1, <2>2 DEF PayoutTask, HasId
  <2>4. /\ SellerGo(h, state) /\ lastPayout' = i /\ payoutTransfers' = [payoutTransfers EXCEPT ![i] = amount]
        /\ UNCHANGED <<sold, sellerPayouts>>
    BY <1>6 DEF TransferPayout
  <2> HIDE DEF state, i, amount
  <2>5. /\ payoutTask' \in [Handlers -> PayoutTask]
        /\ \A g \in Handlers : payoutTask'[g] = IF g = h THEN state ELSE payoutTask[g]
    BY <1>0, <2>3, <2>4, SellerGoes
  <2>6. SellerTypeOK'
    BY <1>0, <2>2, <2>4, <2>5 DEF SellerTypeOK
  <2>7. \A j \in SellerPayoutIds : PaidOut(j) => j <= lastPayout /\ j # i /\ j \in Int
    BY <1>0, <2>2 DEF SellerInv, PayoutsBooked, SellerPayoutIds
  <2>8. ASSUME NEW g \in Handlers, HasId(payoutTask[g])
        PROVE  /\ payoutTask[g].id \in SellerPayoutIds /\ payoutTask[g].id <= lastPayout
               /\ payoutTask[g].id # i /\ payoutTask[g].id <= i
    BY <1>0, <2>2, <2>8, PayoutTaskTypes DEF SellerInv, PayoutTasksHold, PayoutTaskHolds, SellerPayoutIds
  <2>9. \A j \in SellerPayoutIds : payoutTransfers'[j] = IF j = i THEN amount ELSE payoutTransfers[j]
    BY <1>0, <2>4 DEF SellerTypeOK
  <2>10. PayoutsBooked'
    BY <1>0, <2>2, <2>4, <2>7, <2>9 DEF SellerInv, PayoutsBooked, PaidOut
  <2>11. ASSUME NEW g \in Handlers
         PROVE  PayoutTaskHolds(payoutTask'[g], sellerPayouts', payoutTransfers', lastPayout')
    <3>1. CASE g = h
      <4>1. sellerPayouts'[i] = NoPayout /\ payoutTransfers'[i] # -1 /\ i <= i
        BY <2>2, <2>4, <2>7, <2>9 DEF PaidOut
      <4> QED BY <2>3, <2>4, <2>5, <3>1, <4>1 DEF PayoutTaskHolds
    <3>2. CASE g # h
      <4>1. PICK task \in PayoutTask : task = payoutTask[g] /\ payoutTask'[g] = task
        BY <1>0, <2>5, <3>2
      <4>2. PayoutTaskHolds(task, sellerPayouts, payoutTransfers, lastPayout)
        BY <4>1 DEF SellerInv, PayoutTasksHold
      <4>3. HasId(task) => task.id \in SellerPayoutIds /\ task.id # i /\ task.id <= i
        BY <2>8, <4>1
      <4>4. task.pc = "payout" => HasId(task)
        BY DEF HasId
      <4> QED BY <2>4, <2>9, <4>1, <4>2, <4>3, <4>4 DEF PayoutTaskHolds
    <3> QED BY <3>1, <3>2
  <2>12. PayoutTasksHold'
    BY <2>11 DEF PayoutTasksHold
  <2>13. AloneWithId'
    <3> SUFFICES ASSUME NEW f \in Handlers, NEW g \in Handlers, f # g, payoutTask'[g].pc = "payout",
                        HasId(payoutTask'[f])
                 PROVE  payoutTask'[f].id # payoutTask'[g].id
      BY DEF AloneWithId, SellerAt
    <3>1. HasId(payoutTask'[g])
      BY DEF HasId
    <3>2. CASE g = h
      BY <2>3, <2>5, <2>8, <3>2
    <3>3. CASE f = h
      BY <2>3, <2>5, <2>8, <3>1, <3>3
    <3>4. CASE f # h /\ g # h
      BY <2>5, <3>4 DEF SellerInv, AloneWithId, SellerAt
    <3> QED BY <3>2, <3>3, <3>4
  <2> QED BY <2>6, <2>10, <2>12, <2>13 DEF SellerInv
<1>7. ASSUME NEW h \in Handlers, SavePayout(h) PROVE SellerInv'
  <2>1. payoutTask[h] \in [pc : {"payout"}, window : Window, amount : Nat, id : SellerPayoutIds]
    BY <1>0, <1>7, PayoutTaskTypes DEF SavePayout, SellerAt
  <2>5. PICK i \in SellerPayoutIds : payoutTask[h].id = i
    BY <2>1
  <2> DEFINE row == [window |-> payoutTask[h].window, amount |-> payoutTask[h].amount]
  <2>2. i \in SellerPayoutIds /\ row \in PayoutRows /\ HasId(payoutTask[h]) /\ payoutTask[h].pc = "payout"
    BY <2>5, <2>1 DEF PayoutRows, HasId
  <2>3. payoutTransfers[i] # -1
    BY <2>5, <2>2 DEF SellerInv, PayoutTasksHold, PayoutTaskHolds
  <2>4. /\ SellerGo(h, Idle) /\ sellerPayouts' = [sellerPayouts EXCEPT ![i] = row]
        /\ UNCHANGED <<sold, payoutTransfers, lastPayout>>
    BY <2>5, <1>7 DEF SavePayout
  <2> HIDE DEF row
  <2>6. /\ sellerPayouts' \in [SellerPayoutIds -> PayoutRows]
        /\ payoutTransfers' \in [SellerPayoutIds -> Nat \cup {-1}]
        /\ \A j \in SellerPayoutIds \ {i} : sellerPayouts'[j] = sellerPayouts[j]
                                           /\ payoutTransfers'[j] = payoutTransfers[j]
    BY <1>0, <2>2, <2>4 DEF SellerTypeOK
  <2> QED BY <2>2, <2>3, <2>4, <2>5, <2>6, IdleIsPayoutTask, ChangesPayout DEF SellerAt
<1>8. ASSUME NEW h \in Handlers, UpdatePayout(h) PROVE SellerInv'
  <2>1. payoutTask[h] \in [pc : {"amount", "amount.transfer"}, id : SellerPayoutIds, amount : Nat]
    BY <1>0, <1>8, PayoutTaskTypes DEF UpdatePayout, SellerAt
  <2>5. PICK i \in SellerPayoutIds : payoutTask[h].id = i
    BY <2>1
  <2> DEFINE amount == payoutTask[h].amount
             state == [payoutTask[h] EXCEPT !.pc = "amount.transfer"]
  <2>2. i \in SellerPayoutIds /\ amount \in Nat /\ HasId(payoutTask[h])
    BY <2>5, <2>1 DEF HasId
  <2>3. state \in PayoutTask /\ state.pc = "amount.transfer" /\ state.id = i
    BY <2>5, <2>1 DEF PayoutTask
  <2>4. /\ SellerGo(h, state) /\ UNCHANGED <<sold, payoutTransfers, lastPayout>>
        /\ sellerPayouts' = IF PaidOut(i) THEN [sellerPayouts EXCEPT ![i].amount = amount] ELSE sellerPayouts
    BY <2>5, <1>8 DEF UpdatePayout
  <2> HIDE DEF amount, state
  <2>6. PaidOut(i) => [sellerPayouts[i] EXCEPT !.amount = amount] \in PayoutRows
    BY <1>0, <2>2 DEF SellerTypeOK, PayoutRows, PaidOut
  <2>7. /\ sellerPayouts' \in [SellerPayoutIds -> PayoutRows]
        /\ payoutTransfers' \in [SellerPayoutIds -> Nat \cup {-1}]
        /\ \A j \in SellerPayoutIds \ {i} : sellerPayouts'[j] = sellerPayouts[j]
                                           /\ payoutTransfers'[j] = payoutTransfers[j]
        /\ PaidOut(i)' => PaidOut(i)
    BY <1>0, <2>2, <2>4, <2>6 DEF SellerTypeOK, PaidOut
  <2>8. PaidOut(i)' => payoutTransfers'[i] # -1
    BY <2>2, <2>4, <2>7 DEF SellerInv, PayoutsBooked
  <2> QED BY <2>2, <2>3, <2>4, <2>5, <2>7, <2>8, ChangesPayout
<1>9. ASSUME NEW h \in Handlers, UpdateTransfer(h) PROVE SellerInv'
  <2>1. payoutTask[h] \in [pc : {"amount", "amount.transfer"}, id : SellerPayoutIds, amount : Nat]
    BY <1>0, <1>9, PayoutTaskTypes DEF UpdateTransfer, SellerAt
  <2>5. PICK i \in SellerPayoutIds : payoutTask[h].id = i
    BY <2>1
  <2> DEFINE amount == payoutTask[h].amount
  <2>2. i \in SellerPayoutIds /\ amount \in Nat /\ HasId(payoutTask[h])
    BY <2>5, <2>1 DEF HasId
  <2>4. /\ SellerGo(h, Idle) /\ UNCHANGED <<sold, sellerPayouts, lastPayout>>
        /\ payoutTransfers' = [payoutTransfers EXCEPT ![i] = amount]
    BY <2>5, <1>9 DEF UpdateTransfer
  <2> HIDE DEF amount
  <2>7. /\ sellerPayouts' \in [SellerPayoutIds -> PayoutRows]
        /\ payoutTransfers' \in [SellerPayoutIds -> Nat \cup {-1}]
        /\ \A j \in SellerPayoutIds \ {i} : sellerPayouts'[j] = sellerPayouts[j]
                                           /\ payoutTransfers'[j] = payoutTransfers[j]
        /\ (PaidOut(i)' => PaidOut(i)) /\ payoutTransfers'[i] # -1
    BY <1>0, <2>2, <2>4 DEF SellerTypeOK, PaidOut
  <2> QED BY <2>2, <2>4, <2>5, <2>7, IdleIsPayoutTask, ChangesPayout
<1>10. ASSUME NEW h \in Handlers, RemovePayout(h) PROVE SellerInv'
  <2>1. payoutTask[h] \in [pc : {"remove", "remove.transfer"}, id : SellerPayoutIds]
    BY <1>0, <1>10, PayoutTaskTypes DEF RemovePayout, SellerAt
  <2>5. PICK i \in SellerPayoutIds : payoutTask[h].id = i
    BY <2>1
  <2> DEFINE state == [pc |-> "remove.transfer", id |-> i]
  <2>2. i \in SellerPayoutIds /\ HasId(payoutTask[h])
    BY <2>5, <2>1 DEF HasId
  <2>3. state \in PayoutTask /\ state.pc = "remove.transfer" /\ state.id = i
    BY <2>5, <2>2 DEF PayoutTask
  <2>4. /\ SellerGo(h, state) /\ UNCHANGED <<sold, payoutTransfers, lastPayout>>
        /\ sellerPayouts' = [sellerPayouts EXCEPT ![i] = NoPayout]
    BY <2>5, <1>10 DEF RemovePayout
  <2> HIDE DEF state
  <2>7. /\ sellerPayouts' \in [SellerPayoutIds -> PayoutRows]
        /\ payoutTransfers' \in [SellerPayoutIds -> Nat \cup {-1}]
        /\ \A j \in SellerPayoutIds \ {i} : sellerPayouts'[j] = sellerPayouts[j]
                                           /\ payoutTransfers'[j] = payoutTransfers[j]
        /\ ~ PaidOut(i)'
    BY <1>0, <2>2, <2>4 DEF SellerTypeOK, PaidOut, PayoutRows
  <2> QED BY <2>2, <2>3, <2>4, <2>5, <2>7, ChangesPayout
<1>11. ASSUME NEW h \in Handlers, RemovePayoutTransfer(h) PROVE SellerInv'
  <2>1. payoutTask[h] \in [pc : {"remove", "remove.transfer"}, id : SellerPayoutIds]
    BY <1>0, <1>11, PayoutTaskTypes DEF RemovePayoutTransfer, SellerAt
  <2>5. PICK i \in SellerPayoutIds : payoutTask[h].id = i
    BY <2>1
  <2>2. i \in SellerPayoutIds /\ HasId(payoutTask[h]) /\ ~ PaidOut(i)
    BY <2>5, <1>11, <2>1 DEF HasId, RemovePayoutTransfer, SellerInv, PayoutTasksHold, PayoutTaskHolds, PaidOut, SellerAt
  <2>4. /\ SellerGo(h, Idle) /\ UNCHANGED <<sold, sellerPayouts, lastPayout>>
        /\ payoutTransfers' = [payoutTransfers EXCEPT ![i] = -1]
    BY <2>5, <1>11 DEF RemovePayoutTransfer
  <2>7. /\ sellerPayouts' \in [SellerPayoutIds -> PayoutRows]
        /\ payoutTransfers' \in [SellerPayoutIds -> Nat \cup {-1}]
        /\ \A j \in SellerPayoutIds \ {i} : sellerPayouts'[j] = sellerPayouts[j]
                                           /\ payoutTransfers'[j] = payoutTransfers[j]
        /\ ~ PaidOut(i)'
    BY <1>0, <2>2, <2>4 DEF SellerTypeOK, PaidOut
  <2> QED BY <2>2, <2>4, <2>5, <2>7, IdleIsPayoutTask, ChangesPayout
<1>12. ASSUME NEW h \in Handlers, SellerFails(h) PROVE SellerInv'
  BY <1>s, <1>12, IdleIsPayoutTask, KeepsPayouts DEF SellerFails
<1>13. CASE UNCHANGED sellerVars
  BY <1>13 DEF sellerVars, SellerInv, SellerTypeOK, PayoutsBooked, PayoutTasksHold, AloneWithId,
                          PaidOut, SellerAt
<1> QED BY <1>1, <1>2, <1>3, <1>4, <1>5, <1>6, <1>7, <1>8, <1>9, <1>10, <1>11, <1>12, <1>13
        DEF SellerNext, SellerStep

LEMMA SellerInvAlways == SellerSpec => []SellerInv
BY SellerInitInv, SellerStepInv, PTL DEF SellerSpec

(***************************************************************************)
(* Every reachable state of the model of seller payouts is well typed: a   *)
(* window does not end before it begins, no amount is negative.            *)
(***************************************************************************)
THEOREM SellerTypeCorrect == SellerSpec => []SellerTypeOK
<1>1. SellerInv => SellerTypeOK
  BY DEF SellerInv
<1> QED BY <1>1, SellerInvAlways, PTL

(***************************************************************************)
(* However many requests interleave and fail, a payout has its transfer:   *)
(* it is saved by the only request that knows its id, after the transfer,  *)
(* and the transfer is removed after it, by those who removed it.          *)
(***************************************************************************)
THEOREM PayoutIsBookedAlways == SellerSpec => []PayoutIsBooked
<1>1. SellerInv => PayoutIsBooked
  BY DEF SellerInv, PayoutsBooked, PayoutIsBooked
<1> QED BY <1>1, SellerInvAlways, PTL
-----------------------------------------------------------------------------
(***************************************************************************)
(* One request at a time: the windows of two payouts do not overlap, and a *)
(* request that has looked for overlaps still has none.                    *)
(***************************************************************************)
NoneOverlaps(table, w) == \A i \in SellerPayoutIds : table[i] # NoPayout => ~ Overlaps(table[i].window, w)

Shares(v, w) == \E t \in Moments : v.from <= t /\ t < v.till /\ w.from <= t /\ t < w.till

WindowsApart ==
  /\ \A i, j \in SellerPayoutIds : PaidOut(i) /\ PaidOut(j) /\ i # j =>
       ~ Shares(sellerPayouts[i].window, sellerPayouts[j].window)
  /\ \A h \in Handlers : payoutTask[h].pc \in {"report", "transfer", "payout"} =>
       NoneOverlaps(sellerPayouts, payoutTask[h].window)

(***************************************************************************)
(* The three conditions of createFilterWhereDateRange find every payout    *)
(* whose window has a moment of the requested one.                         *)
(***************************************************************************)
LEMMA SharesOverlaps ==
  ASSUME NEW v \in Window, NEW w \in Window, Shares(v, w)
  PROVE  Overlaps(v, w) /\ Shares(w, v)
<1>1. PICK t \in Moments : v.from <= t /\ t < v.till /\ w.from <= t /\ t < w.till
  BY DEF Shares
<1>2. t \in Int /\ v.from \in Int /\ v.till \in Int /\ w.from \in Int /\ w.till \in Int
  BY SellerPayoutsAssumption DEF Window, Moments
<1> QED BY <1>1, <1>2 DEF Overlaps, Shares

(***************************************************************************)
(* A step that gives no payout another window.                             *)
(***************************************************************************)
LEMMA KeepsWindows ==
  ASSUME \A g, h \in Handlers : g = h, SellerInv, WindowsApart, NEW h \in Handlers, NEW state \in PayoutTask,
         SellerGo(h, state),
         \A i \in SellerPayoutIds : PaidOut(i)' => PaidOut(i) /\ sellerPayouts'[i].window = sellerPayouts[i].window,
         state.pc \in {"report", "transfer", "payout"} => NoneOverlaps(sellerPayouts, state.window)
  PROVE  WindowsApart'
<1>1. \A g \in Handlers : payoutTask'[g] = state
  BY SellerGoes DEF SellerInv
<1>2. state.pc \in {"report", "transfer", "payout"} => NoneOverlaps(sellerPayouts', state.window)
  BY DEF NoneOverlaps, PaidOut
<1>4. ASSUME NEW i \in SellerPayoutIds, NEW j \in SellerPayoutIds, PaidOut(i)', PaidOut(j)', i # j
      PROVE  ~ Shares(sellerPayouts'[i].window, sellerPayouts'[j].window)
  BY <1>4 DEF WindowsApart
<1>5. \A g \in Handlers : payoutTask'[g].pc \in {"report", "transfer", "payout"} =>
        NoneOverlaps(sellerPayouts', payoutTask'[g].window)
  BY <1>1, <1>2
<1> QED BY <1>4, <1>5 DEF WindowsApart

LEMMA WindowsNext ==
  ASSUME \A g, h \in Handlers : g = h
  PROVE  SellerInv /\ WindowsApart /\ [SellerNext]_sellerVars => WindowsApart'
<1> SUFFICES ASSUME SellerInv, WindowsApart, [SellerNext]_sellerVars PROVE WindowsApart'
  OBVIOUS
<1>0. /\ SellerTypeOK /\ \A h \in Handlers : payoutTask[h] \in PayoutTask
      /\ sellerPayouts \in [SellerPayoutIds -> PayoutRows]
  BY DEF SellerInv, SellerTypeOK
<1>s. UNCHANGED sellerPayouts =>
        \A i \in SellerPayoutIds : PaidOut(i)' => PaidOut(i) /\ sellerPayouts'[i].window = sellerPayouts[i].window
  BY DEF PaidOut
<1>w. \A h \in Handlers : payoutTask[h].pc \in {"report", "transfer", "payout"} =>
        NoneOverlaps(sellerPayouts, payoutTask[h].window)
  BY DEF WindowsApart
<1>1. CASE UNCHANGED <<sellerPayouts, payoutTask>>
  BY <1>1 DEF WindowsApart, PaidOut
<1>2. ASSUME NEW h \in Handlers, NEW w \in Window, BeginSellerPayout(h, w) PROVE WindowsApart'
  <2> DEFINE state == [pc |-> "report", window |-> w, amount |-> 0]
  <2>1. state \in PayoutTask /\ NoneOverlaps(sellerPayouts, state.window)
    BY <1>2 DEF PayoutTask, BeginSellerPayout, NoneOverlaps, PaidOut
  <2>2. SellerGo(h, state) /\ UNCHANGED sellerPayouts
    BY <1>2 DEF BeginSellerPayout, sellerTables
  <2> HIDE DEF state
  <2> QED BY <1>s, <2>1, <2>2, KeepsWindows
<1>3. ASSUME NEW h \in Handlers, ReportSales(h) \/ TransferPayout(h) PROVE WindowsApart'
  <2>1. payoutTask[h] \in [pc : {"report", "transfer"}, window : Window, amount : Nat]
    BY <1>0, <1>3, PayoutTaskTypes DEF ReportSales, TransferPayout, SellerAt
  <2>2. UNCHANGED sellerPayouts
    BY <1>3 DEF ReportSales, TransferPayout, sellerTables
  <2>3. NoneOverlaps(sellerPayouts, payoutTask[h].window)
    BY <1>w, <2>1
  <2>4. PICK state \in PayoutTask : SellerGo(h, state) /\ state.window = payoutTask[h].window
    <3>1. CASE ReportSales(h)
      <4> DEFINE state == [payoutTask[h] EXCEPT !.pc = "transfer", !.amount = SoldIn(payoutTask[h].window)]
      <4>1. state \in PayoutTask /\ state.window = payoutTask[h].window
        BY <2>1, SoldInType DEF PayoutTask
      <4>2. SellerGo(h, state)
        BY <3>1 DEF ReportSales
      <4> HIDE DEF state
      <4> QED BY <4>1, <4>2
    <3>2. CASE TransferPayout(h)
      <4> DEFINE state == [pc |-> "payout", window |-> payoutTask[h].window, amount |-> payoutTask[h].amount,
                           id |-> lastPayout + 1]
      <4>1. state \in PayoutTask /\ state.window = payoutTask[h].window
        BY <2>1, <3>2 DEF PayoutTask, TransferPayout
      <4>2. SellerGo(h, state)
        BY <3>2 DEF TransferPayout
      <4> HIDE DEF state
      <4> QED BY <4>1, <4>2
    <3> QED BY <1>3, <3>1, <3>2
  <2>5. NoneOverlaps(sellerPayouts, state.window)
    BY <2>3, <2>4
  <2> QED BY <1>s, <2>2, <2>4, <2>5, KeepsWindows
<1>4. ASSUME NEW h \in Handlers, SavePayout(h) PROVE WindowsApart'
  <2>1. payoutTask[h] \in [pc : {"payout"}, window : Window, amount : Nat, id : SellerPayoutIds]
    BY <1>0, <1>4, PayoutTaskTypes DEF SavePayout, SellerAt
  <2>2. PICK k \in SellerPayoutIds, w \in Window : payoutTask[h].id = k /\ payoutTask[h].window = w
    BY <2>1
  <2>3. NoneOverlaps(sellerPayouts, w)
    BY <1>w, <2>1, <2>2
  <2>4. /\ SellerGo(h, Idle)
        /\ \A i \in SellerPayoutIds \ {k} : sellerPayouts'[i] = sellerPayouts[i]
        /\ sellerPayouts'[k].window = w
    BY <1>0, <1>4, <2>2 DEF SavePayout
  <2>5. \A g \in Handlers : payoutTask'[g] = Idle
    BY <1>0, <2>4, IdleIsPayoutTask, SellerGoes
  <2>6. ASSUME NEW i \in SellerPayoutIds \ {k}, PaidOut(i)
        PROVE  ~ Shares(sellerPayouts[i].window, w) /\ ~ Shares(w, sellerPayouts[i].window)
    <3>1. ~ Overlaps(sellerPayouts[i].window, w) /\ sellerPayouts[i].window \in Window
      BY <1>0, <2>3, <2>6 DEF NoneOverlaps, PaidOut, PayoutRows
    <3> QED BY <3>1, SharesOverlaps
  <2>7. ASSUME NEW i \in SellerPayoutIds, NEW j \in SellerPayoutIds, PaidOut(i)', PaidOut(j)', i # j
        PROVE  ~ Shares(sellerPayouts'[i].window, sellerPayouts'[j].window)
    BY <2>4, <2>6, <2>7 DEF WindowsApart, PaidOut
  <2> QED BY <2>5, <2>7, IdleIsPayoutTask DEF WindowsApart
<1>5. ASSUME NEW h \in Handlers, UpdatePayout(h) PROVE WindowsApart'
  <2> DEFINE state == [payoutTask[h] EXCEPT !.pc = "amount.transfer"]
  <2>1. payoutTask[h] \in [pc : {"amount", "amount.transfer"}, id : SellerPayoutIds, amount : Nat]
    BY <1>0, <1>5, PayoutTaskTypes DEF UpdatePayout, SellerAt
  <2>2. PICK k \in SellerPayoutIds, amount \in Nat : payoutTask[h].id = k /\ payoutTask[h].amount = amount
    BY <2>1
  <2>3. state \in PayoutTask /\ state.pc = "amount.transfer"
    BY <2>1 DEF PayoutTask
  <2>4. /\ SellerGo(h, state)
        /\ sellerPayouts' = IF PaidOut(k) THEN [sellerPayouts EXCEPT ![k].amount = amount] ELSE sellerPayouts
    BY <1>5, <2>2 DEF UpdatePayout
  <2> HIDE DEF state
  <2>5. PaidOut(k) => [sellerPayouts[k] EXCEPT !.amount = amount].window = sellerPayouts[k].window
    BY <1>0, <2>2 DEF PaidOut, PayoutRows
  <2>6. \A i \in SellerPayoutIds :
          PaidOut(i)' => PaidOut(i) /\ sellerPayouts'[i].window = sellerPayouts[i].window
    BY <1>0, <2>2, <2>4, <2>5 DEF PaidOut
  <2> QED BY <2>3, <2>4, <2>6, KeepsWindows
<1>6. ASSUME NEW h \in Handlers, RemovePayout(h) PROVE WindowsApart'
  <2>1. PICK k \in SellerPayoutIds : payoutTask[h].id = k
    BY <1>0, <1>6, PayoutTaskTypes DEF RemovePayout, SellerAt
  <2> DEFINE state == [pc |-> "remove.transfer", id |-> k]
  <2>2. state \in PayoutTask /\ state.pc = "remove.transfer"
    BY DEF PayoutTask
  <2>3. SellerGo(h, state) /\ sellerPayouts' = [sellerPayouts EXCEPT ![k] = NoPayout]
    BY <1>6, <2>1 DEF RemovePayout
  <2> HIDE DEF state
  <2>4. \A i \in SellerPayoutIds :
          PaidOut(i)' => PaidOut(i) /\ sellerPayouts'[i].window = sellerPayouts[i].window
    BY <1>0, <2>3 DEF PaidOut
  <2> QED BY <2>2, <2>3, <2>4, KeepsWindows
<1>7. ASSUME NEW h \in Handlers, UpdateTransfer(h) \/ RemovePayoutTransfer(h) \/ SellerFails(h)
      PROVE  WindowsApart'
  <2>1. SellerGo(h, Idle) /\ UNCHANGED sellerPayouts
    BY <1>7 DEF UpdateTransfer, RemovePayoutTransfer, SellerFails, sellerTables
  <2> QED BY <1>s, <2>1, IdleIsPayoutTask, KeepsWindows
<1>8. ASSUME NEW h \in Handlers, NEW i \in SellerPayoutIds,
             BeginRemovePayout(h, i) \/ \E amount \in 0 .. MaxSold : BeginUpdatePayout(h, i, amount)
      PROVE  WindowsApart'
  <2>1. PICK state \in PayoutTask : SellerGo(h, state) /\ state.pc \in {"remove", "amount"}
    <3>1. CASE BeginRemovePayout(h, i)
      <4>1. [pc |-> "remove", id |-> i] \in PayoutTask
        BY DEF PayoutTask
      <4> QED BY <3>1, <4>1 DEF BeginRemovePayout
    <3>2. ASSUME NEW amount \in 0 .. MaxSold, BeginUpdatePayout(h, i, amount)
          PROVE  \E state \in PayoutTask : SellerGo(h, state) /\ state.pc \in {"remove", "amount"}
      <4>1. [pc |-> "amount", id |-> i, amount |-> amount] \in PayoutTask
        BY SellerPayoutsAssumption DEF PayoutTask
      <4> QED BY <3>2, <4>1 DEF BeginUpdatePayout
    <3> QED BY <1>8, <3>1, <3>2
  <2>2. UNCHANGED sellerPayouts
    BY <1>8 DEF BeginRemovePayout, BeginUpdatePayout, sellerTables
  <2> QED BY <1>s, <2>1, <2>2, KeepsWindows
<1>9. ASSUME NEW t \in Moments, Sell(t) PROVE WindowsApart'
  BY <1>1, <1>9 DEF Sell
<1>10. CASE UNCHANGED sellerVars
  BY <1>1, <1>10 DEF sellerVars
<1> QED BY <1>2, <1>3, <1>4, <1>5, <1>6, <1>7, <1>8, <1>9, <1>10 DEF SellerNext, SellerStep

(***************************************************************************)
(* With one request at a time, no sale lies in the windows of two payouts: *)
(* the filter of dates finds every payout with a moment of the requested   *)
(* window, and an update of the amount does not move a window.             *)
(***************************************************************************)
THEOREM PaidOnceAlways ==
  ASSUME \A g, h \in Handlers : g = h
  PROVE  SellerSpec => []PaidOnce
<1>1. SellerInit => WindowsApart
  BY DEF SellerInit, WindowsApart, PaidOut, Idle
<1>2. WindowsApart => PaidOnce
  BY DEF WindowsApart, Shares, PaidOnce
<1> QED BY <1>1, <1>2, SellerInvAlways, WindowsNext, PTL DEF SellerSpec
-----------------------------------------------------------------------------
(***************************************************************************)
(* Voucher cards, for any number of requests at once: what a request found *)
(* or is about to credit is linked.                                        *)
(***************************************************************************)
LinkedTask(task, links) ==
  task # Idle => task.found \subseteq links /\ (task.pc = "credit" => task.fresh \subseteq links)

VoucherInv ==
  /\ VoucherTypeOK
  /\ CreditIsLinked
  /\ \A h \in Handlers : LinkedTask(voucherTask[h], cardLink)

VoucherSteps == {"group", "read", "update", "find", "activate", "move", "users", "links", "credit"}

VoucherRequest ==
  [pc : VoucherSteps, new : VoucherGroup, old : VoucherGroup, found : SUBSET Cards, fresh : SUBSET Cards]

LEMMA VoucherTaskTypes ==
  /\ Idle \in VoucherTask /\ Idle.pc = "idle" /\ VoucherRequest \subseteq VoucherTask
  /\ \A links : LinkedTask(Idle, links)
  /\ \A task \in VoucherTask : task.pc # "idle" => task \in VoucherRequest /\ task # Idle
BY DEF VoucherTask, VoucherRequest, VoucherSteps, Idle, LinkedTask

LEMMA GroupTypes ==
  /\ NoGroup \in VoucherGroup
  /\ \A new \in VoucherGroup : new.amount \in Nat /\ new.amount <= MaxCards /\ new.balance \in Nat
                               /\ new.started \in BOOLEAN
BY VoucherAssumption DEF NoGroup, VoucherGroup

LEMMA VoucherGoes ==
  ASSUME VoucherTypeOK, NEW h \in Handlers, NEW state \in VoucherTask, VoucherGo(h, state)
  PROVE  /\ voucherTask' \in [Handlers -> VoucherTask]
         /\ \A g \in Handlers : voucherTask'[g] = IF g = h THEN state ELSE voucherTask[g]
BY DEF VoucherTypeOK, VoucherGo

(***************************************************************************)
(* What every step of a request has to show.                               *)
(***************************************************************************)
LEMMA VoucherGoesOn ==
  ASSUME VoucherInv, NEW h \in Handlers, NEW state \in VoucherTask, VoucherGo(h, state),
         LinkedTask(state, cardLink'), cardLink \subseteq cardLink',
         group' \in VoucherGroup, cards' \in 0 .. MaxCards, cardLink' \subseteq Cards, active' \subseteq Cards,
         credit' \in [Cards -> Int], spent' = spent,
         \A c \in Cards : credit'[c] # 0 => c \in cardLink'
  PROVE  VoucherInv'
<1>1. /\ voucherTask' \in [Handlers -> VoucherTask]
      /\ \A g \in Handlers : voucherTask'[g] = IF g = h THEN state ELSE voucherTask[g]
  BY VoucherGoes DEF VoucherInv
<1>2. VoucherTypeOK' /\ CreditIsLinked'
  BY <1>1 DEF VoucherInv, VoucherTypeOK, CreditIsLinked
<1>3. \A g \in Handlers : LinkedTask(voucherTask'[g], cardLink')
  BY <1>1 DEF VoucherInv, LinkedTask
<1> QED BY <1>2, <1>3 DEF VoucherInv

LEMMA VoucherKeeps ==
  ASSUME VoucherInv, NEW h \in Handlers, NEW state \in VoucherTask, VoucherGo(h, state),
         UNCHANGED voucherTables, LinkedTask(state, cardLink)
  PROVE  VoucherInv'
BY VoucherGoesOn DEF voucherTables, VoucherInv, VoucherTypeOK, CreditIsLinked

(***************************************************************************)
(* The numbers of new cards follow those of the cards there are.           *)
(***************************************************************************)
LEMMA NewCardsFacts ==
  ASSUME cards \in 0 .. MaxCards, NEW new \in VoucherGroup, NEW offset \in Nat, NewCards(new, offset) \subseteq Cards
  PROVE  LET fresh == NewCards(new, offset)
         IN  /\ cards + Cardinality(fresh) \in 0 .. MaxCards
             /\ IsFiniteSet(fresh) /\ fresh \subseteq Cards
             /\ fresh \cap 1 .. cards = {} /\ fresh \subseteq 1 .. cards + Cardinality(fresh)
             /\ cards <= cards + Cardinality(fresh)
             /\ offset <= new.amount => Cardinality(fresh) = new.amount - offset
<1> DEFINE top == cards + (new.amount - offset)
           fresh == NewCards(new, offset)
<1>0. cards \in Nat /\ top \in Int /\ MaxCards \in Nat /\ new.amount \in Nat
  BY VoucherAssumption, GroupTypes
<1>1. fresh = cards + 1 .. top
  BY DEF NewCards
<1> HIDE DEF fresh
<1>2. /\ IsFiniteSet(cards + 1 .. top)
      /\ Cardinality(cards + 1 .. top) = IF cards + 1 > top THEN 0 ELSE top - (cards + 1) + 1
  <2>1. \A a, b \in Int : /\ IsFiniteSet(a .. b)
                          /\ Cardinality(a .. b) = IF a > b THEN 0 ELSE b - a + 1
    BY FS_Interval
  <2>2. cards + 1 \in Int
    BY <1>0
  <2> HIDE DEF top
  <2> QED BY <1>0, <2>1, <2>2
<1>3. Cardinality(fresh) = IF cards + 1 > top THEN 0 ELSE new.amount - offset
  BY <1>0, <1>1, <1>2
<1>4. top <= MaxCards \/ cards + 1 > top
  <2>1. CASE cards + 1 <= top
    <3>1. top \in fresh
      BY <1>0, <1>1, <2>1
    <3> QED BY <3>1 DEF Cards, fresh
  <2> QED BY <1>0, <2>1
<1>5. cards + Cardinality(fresh) \in 0 .. MaxCards
  BY <1>0, <1>3, <1>4
<1>6. fresh \cap 1 .. cards = {} /\ fresh \subseteq 1 .. cards + Cardinality(fresh)
  BY <1>0, <1>1, <1>3
<1>7. cards <= cards + Cardinality(fresh)
  BY <1>0, <1>3
<1>8. offset <= new.amount => Cardinality(fresh) = new.amount - offset
  BY <1>0, <1>3
<1> QED BY <1>1, <1>2, <1>5, <1>6, <1>7, <1>8 DEF fresh

LEMMA CreateInv ==
  ASSUME VoucherInv, NEW h \in Handlers, NEW new \in VoucherGroup, NEW old \in VoucherGroup,
         NEW found \in SUBSET Cards, found \subseteq cardLink, CreateVoucherUsers(h, new, old, found)
  PROVE  VoucherInv'
<1> DEFINE fresh == NewCards(new, old.amount)
           state == [pc |-> IF old = NoGroup THEN "group" ELSE "links",
                     new |-> new, old |-> old, found |-> found, fresh |-> fresh]
<1>1. /\ fresh \subseteq Cards /\ cards' = cards + Cardinality(fresh) /\ VoucherGo(h, state)
      /\ active' = IF new.started THEN active \cup fresh ELSE active
      /\ UNCHANGED <<group, cardLink, credit, spent>>
  BY DEF CreateVoucherUsers
<1>2. old.amount \in Nat /\ cards \in 0 .. MaxCards
  BY GroupTypes DEF VoucherInv, VoucherTypeOK
<1>3. cards + Cardinality(fresh) \in 0 .. MaxCards
  BY <1>1, <1>2, NewCardsFacts
<1>4. state \in VoucherTask /\ LinkedTask(state, cardLink)
  BY <1>1, VoucherTaskTypes DEF VoucherRequest, VoucherSteps, LinkedTask
<1> HIDE DEF fresh, state
<1> QED BY <1>1, <1>3, <1>4, VoucherGoesOn DEF VoucherInv, VoucherTypeOK, CreditIsLinked

LEMMA VoucherInitInv == VoucherInit => VoucherInv
BY VoucherAssumption, GroupTypes, VoucherTaskTypes DEF VoucherInit, VoucherInv, VoucherTypeOK, CreditIsLinked

LEMMA MoveMoneyLinked ==
  ASSUME VoucherInv, NEW users \in SUBSET Cards, users \subseteq cardLink, NEW amount \in Int, MoveMoney(users, amount)
  PROVE  credit' \in [Cards -> Int] /\ \A c \in Cards : credit'[c] # 0 => c \in cardLink
BY DEF MoveMoney, VoucherInv, VoucherTypeOK, CreditIsLinked

LEMMA VoucherNextInv == VoucherInv /\ [VoucherNext]_voucherVars => VoucherInv'
<1> SUFFICES ASSUME VoucherInv, [VoucherNext]_voucherVars PROVE VoucherInv'
  OBVIOUS
<1>0. /\ VoucherTypeOK /\ group \in VoucherGroup /\ cards \in 0 .. MaxCards /\ cardLink \subseteq Cards
      /\ active \subseteq Cards /\ credit \in [Cards -> Int] /\ spent \in [Cards -> Nat]
      /\ \A c \in Cards : credit[c] # 0 => c \in cardLink
  BY DEF VoucherInv, VoucherTypeOK, CreditIsLinked
<1>t. ASSUME NEW h \in Handlers, voucherTask[h].pc # "idle"
      PROVE  /\ voucherTask[h] \in VoucherRequest
             /\ voucherTask[h].new \in VoucherGroup /\ voucherTask[h].old \in VoucherGroup
             /\ voucherTask[h].found \in SUBSET Cards /\ voucherTask[h].fresh \in SUBSET Cards
             /\ voucherTask[h].found \subseteq cardLink
             /\ voucherTask[h].pc = "credit" => voucherTask[h].fresh \subseteq cardLink
  <2>1. voucherTask[h] \in VoucherRequest /\ voucherTask[h] # Idle /\ LinkedTask(voucherTask[h], cardLink)
    BY <1>t, VoucherTaskTypes DEF VoucherInv, VoucherTypeOK
  <2> QED BY <2>1 DEF VoucherRequest, LinkedTask
<1>p. ASSUME NEW h \in Handlers, voucherTask[h].pc # "idle", NEW pc \in VoucherSteps,
             pc = "credit" => voucherTask[h].fresh \subseteq cardLink'
      PROVE  /\ [voucherTask[h] EXCEPT !.pc = pc] \in VoucherTask
             /\ cardLink \subseteq cardLink' => LinkedTask([voucherTask[h] EXCEPT !.pc = pc], cardLink')
  BY <1>t, <1>p, VoucherTaskTypes DEF VoucherRequest, LinkedTask
<1>1. CASE StartPasses
  <2>1. group' \in VoucherGroup
    BY <1>0, <1>1 DEF StartPasses, VoucherGroup
  <2> QED BY <1>1, <2>1 DEF StartPasses, VoucherInv, VoucherTypeOK, CreditIsLinked
<1>2. ASSUME NEW h \in Handlers, NEW new \in VoucherGroup, BeginCreate(h, new) PROVE VoucherInv'
  BY <1>2, CreateInv, GroupTypes DEF BeginCreate
<1>3. ASSUME NEW h \in Handlers, NEW new \in VoucherGroup, BeginUpdate(h, new) PROVE VoucherInv'
  <2> DEFINE state == [pc |-> "read", new |-> new, old |-> NoGroup, found |-> {}, fresh |-> {}]
  <2>1. state \in VoucherTask /\ LinkedTask(state, cardLink)
    BY GroupTypes, VoucherTaskTypes DEF VoucherRequest, VoucherSteps, LinkedTask
  <2>2. VoucherGo(h, state) /\ UNCHANGED voucherTables
    BY <1>3 DEF BeginUpdate
  <2> HIDE DEF state
  <2> QED BY <2>1, <2>2, VoucherKeeps
<1>4. ASSUME NEW h \in Handlers, NEW c \in Cards, PayByCard(h, c) PROVE VoucherInv'
  <2>1. spent' \in [Cards -> Nat]
    BY <1>0, <1>4 DEF PayByCard
  <2> QED BY <1>4, <2>1 DEF PayByCard, VoucherInv, VoucherTypeOK, CreditIsLinked
<1>5. ASSUME NEW h \in Handlers, SaveGroup(h) PROVE VoucherInv'
  <2>1. voucherTask[h].pc # "idle" /\ UNCHANGED <<cards, cardLink, active, credit, spent>>
    BY <1>5 DEF SaveGroup, VoucherAt
  <2>2. PICK state \in {Idle, [voucherTask[h] EXCEPT !.pc = "links"]} : VoucherGo(h, state)
    BY <1>5 DEF SaveGroup, VoucherTo
  <2>3. state \in VoucherTask /\ LinkedTask(state, cardLink')
    BY <1>p, <2>1, <2>2, VoucherTaskTypes DEF VoucherSteps
  <2>4. group' \in VoucherGroup
    BY <1>0, <1>5, <1>t, <2>1 DEF SaveGroup
  <2> QED BY <1>0, <2>1, <2>2, <2>3, <2>4, VoucherGoesOn
<1>6. ASSUME NEW h \in Handlers, SaveLinks(h) PROVE VoucherInv'
  <2> DEFINE state == [voucherTask[h] EXCEPT !.pc = "credit"]
  <2>1. /\ voucherTask[h].pc # "idle" /\ UNCHANGED <<group, cards, active, credit, spent>>
        /\ cardLink' = cardLink \cup voucherTask[h].fresh /\ VoucherGo(h, state)
    BY <1>6 DEF SaveLinks, VoucherAt, VoucherTo
  <2>2. state \in VoucherTask /\ LinkedTask(state, cardLink')
    BY <1>p, <2>1 DEF VoucherSteps
  <2>3. cardLink' \subseteq Cards
    BY <1>0, <1>t, <2>1
  <2> HIDE DEF state
  <2> QED BY <1>0, <2>1, <2>2, <2>3, VoucherGoesOn
<1>7. ASSUME NEW h \in Handlers, CreditFresh(h) PROVE VoucherInv'
  <2>1. /\ voucherTask[h].pc = "credit" /\ VoucherGo(h, Idle)
        /\ MoveMoney(voucherTask[h].fresh, voucherTask[h].new.balance)
        /\ UNCHANGED <<group, cards, cardLink, active, spent>>
    BY <1>7 DEF CreditFresh, VoucherAt
  <2>2. voucherTask[h].new.balance \in Int
    BY <1>t, <2>1, GroupTypes
  <2>3. credit' \in [Cards -> Int] /\ \A c \in Cards : credit'[c] # 0 => c \in cardLink
    BY <1>t, <2>1, <2>2, MoveMoneyLinked
  <2> QED BY <1>0, <2>1, <2>3, VoucherTaskTypes, VoucherGoesOn
<1>8. ASSUME NEW h \in Handlers, ReadGroup(h) PROVE VoucherInv'
  <2> DEFINE state == [voucherTask[h] EXCEPT !.pc = "update", !.old = group]
  <2>1. voucherTask[h].pc # "idle" /\ VoucherGo(h, state) /\ UNCHANGED voucherTables
    BY <1>8 DEF ReadGroup, VoucherAt
  <2>2. state \in VoucherTask /\ LinkedTask(state, cardLink)
    BY <1>0, <1>t, <2>1, VoucherTaskTypes DEF VoucherRequest, VoucherSteps, LinkedTask
  <2> HIDE DEF state
  <2> QED BY <2>1, <2>2, VoucherKeeps
<1>9. ASSUME NEW h \in Handlers, UpdateGroup(h) PROVE VoucherInv'
  <2> DEFINE state == [voucherTask[h] EXCEPT !.pc = "find"]
  <2>1. /\ voucherTask[h].pc # "idle" /\ VoucherGo(h, state) /\ group' = voucherTask[h].new
        /\ UNCHANGED <<cards, cardLink, active, credit, spent>>
    BY <1>9 DEF UpdateGroup, VoucherAt, VoucherTo
  <2>2. state \in VoucherTask /\ LinkedTask(state, cardLink') /\ group' \in VoucherGroup
    BY <1>p, <1>t, <2>1 DEF VoucherSteps
  <2> HIDE DEF state
  <2> QED BY <1>0, <2>1, <2>2, VoucherGoesOn
<1>10. ASSUME NEW h \in Handlers, FindCards(h) PROVE VoucherInv'
  <2> DEFINE state == [voucherTask[h] EXCEPT !.pc = IF voucherTask[h].new.started THEN "activate" ELSE "move",
                                             !.found = cardLink]
  <2>1. voucherTask[h].pc # "idle" /\ VoucherGo(h, state) /\ UNCHANGED voucherTables
    BY <1>10 DEF FindCards, VoucherAt
  <2>2. state \in VoucherTask /\ LinkedTask(state, cardLink)
    BY <1>0, <1>t, <2>1, VoucherTaskTypes DEF VoucherRequest, VoucherSteps, LinkedTask
  <2> HIDE DEF state
  <2> QED BY <2>1, <2>2, VoucherKeeps
<1>11. ASSUME NEW h \in Handlers, ActivateCards(h) PROVE VoucherInv'
  <2> DEFINE state == [voucherTask[h] EXCEPT !.pc = "move"]
  <2>1. /\ voucherTask[h].pc # "idle" /\ VoucherGo(h, state) /\ active' = active \cup voucherTask[h].found
        /\ UNCHANGED <<group, cards, cardLink, credit, spent>>
    BY <1>11 DEF ActivateCards, VoucherAt, VoucherTo
  <2>2. state \in VoucherTask /\ LinkedTask(state, cardLink') /\ active' \subseteq Cards
    BY <1>0, <1>p, <1>t, <2>1 DEF VoucherSteps
  <2> HIDE DEF state
  <2> QED BY <1>0, <2>1, <2>2, VoucherGoesOn
<1>12. ASSUME NEW h \in Handlers, MoveDifference(h) PROVE VoucherInv'
  <2> DEFINE task == voucherTask[h]
  <2>1. /\ task.pc # "idle" /\ MoveMoney(task.found, task.new.balance - task.old.balance)
        /\ UNCHANGED <<group, cards, cardLink, active, spent>>
    BY <1>12 DEF MoveDifference, VoucherAt
  <2>2. PICK state \in {Idle, [task EXCEPT !.pc = "users"]} : VoucherGo(h, state)
    BY <1>12 DEF MoveDifference, VoucherTo
  <2>3. state \in VoucherTask /\ LinkedTask(state, cardLink')
    BY <1>p, <2>1, <2>2, VoucherTaskTypes DEF VoucherSteps
  <2>4. task.new.balance - task.old.balance \in Int
    BY <1>t, <2>1, GroupTypes
  <2>5. credit' \in [Cards -> Int] /\ \A c \in Cards : credit'[c] # 0 => c \in cardLink
    BY <1>t, <2>1, <2>4, MoveMoneyLinked
  <2> QED BY <1>0, <2>1, <2>2, <2>3, <2>5, VoucherGoesOn
<1>13. ASSUME NEW h \in Handlers, AddCards(h) PROVE VoucherInv'
  BY <1>13, <1>t, CreateInv DEF AddCards, VoucherAt
<1>14. ASSUME NEW h \in Handlers, VoucherFails(h) PROVE VoucherInv'
  BY <1>14, VoucherTaskTypes, VoucherKeeps DEF VoucherFails
<1>15. CASE UNCHANGED voucherVars
  BY <1>15 DEF voucherVars, VoucherInv, VoucherTypeOK, CreditIsLinked
<1> QED BY <1>1, <1>2, <1>3, <1>4, <1>5, <1>6, <1>7, <1>8, <1>9, <1>10, <1>11, <1>12, <1>13, <1>14, <1>15
        DEF VoucherNext, VoucherStep

LEMMA VoucherInvAlways == VoucherSpec => []VoucherInv
BY VoucherInitInv, VoucherNextInv, PTL DEF VoucherSpec

(***************************************************************************)
(* Every reachable state of the model of voucher cards is well typed.      *)
(***************************************************************************)
THEOREM VoucherTypeCorrect == VoucherSpec => []VoucherTypeOK
<1>1. VoucherInv => VoucherTypeOK
  BY DEF VoucherInv
<1> QED BY <1>1, VoucherInvAlways, PTL

(***************************************************************************)
(* However many requests interleave and fail, a card with money is linked  *)
(* to the group: links are saved before the transfers, and an update moves *)
(* the money of cards that it found by their links.                        *)
(***************************************************************************)
THEOREM CreditIsLinkedAlways == VoucherSpec => []CreditIsLinked
<1>1. VoucherInv => CreditIsLinked
  BY DEF VoucherInv
<1> QED BY <1>1, VoucherInvAlways, PTL
-----------------------------------------------------------------------------
(***************************************************************************)
(* One request at a time that does not fail half way: what the links, the  *)
(* users and the money of the cards are at each of its steps.              *)
(***************************************************************************)
HasCards(links, money, amount, balance) ==
  Cardinality(links) = amount /\ \A c \in links : money[c] = balance

CardsFit(task, row, count, links, on, money, paid) ==
  /\ task.pc \in {"idle", "group", "read", "update"} => HasCards(links, money, row.amount, row.balance)
  /\ task.pc \in {"find", "activate", "move"} => HasCards(links, money, task.old.amount, task.old.balance)
  /\ task.pc = "users" => HasCards(links, money, task.old.amount, task.new.balance)
  /\ task.pc = "links" => HasCards(links, money, task.new.amount - Cardinality(task.fresh), task.new.balance)
  /\ task.pc = "credit" =>
       /\ Cardinality(links) = task.new.amount /\ task.fresh \subseteq links
       /\ \A c \in links : money[c] = IF c \in task.fresh THEN 0 ELSE task.new.balance
  /\ task.pc \in {"find", "activate", "move", "users", "links", "credit"} =>
       /\ row.amount = task.new.amount /\ row.balance = task.new.balance
       /\ task.new.started => row.started
  /\ task.pc \in {"read", "update", "find", "activate"} => on \cap links = {}
  /\ task.pc \in {"idle", "group", "move", "users", "links", "credit"} => row.started \/ on \cap links = {}
  /\ task.pc = "activate" => task.new.started
  /\ task.pc \in {"group", "links"} =>
       /\ task.fresh \subseteq 1 .. count /\ task.fresh \cap links = {}
       /\ task.new.started \/ on \cap task.fresh = {}
  /\ task.pc = "group" => Cardinality(task.fresh) = task.new.amount
  /\ task.pc # "idle" => task.new.amount > 0
  /\ task.pc \in {"read", "update"} => row.amount > 0 /\ row.amount <= task.new.amount
  /\ task.pc = "update" => task.old.amount = row.amount /\ task.old.balance = row.balance
  /\ task.pc \in {"update", "find", "activate", "move", "users"} =>
       task.old.amount > 0 /\ task.old.amount <= task.new.amount
  /\ task.pc \in {"activate", "move"} => task.found = links
  /\ task.pc = "move" => \A c \in links : paid[c] = 0

CardsCounted ==
  /\ cardLink \subseteq 1 .. cards /\ active \subseteq 1 .. cards
  /\ group = NoGroup \/ group.amount > 0
  /\ \A c \in Cards : spent[c] <= credit[c] /\ (spent[c] > 0 => c \in active \cap cardLink)

CardsInv ==
  /\ CardsCounted
  /\ \A h \in Handlers : CardsFit(voucherTask[h], group, cards, cardLink, active, credit, spent)

LEMMA OnlyVoucherTask ==
  ASSUME \A g, h \in Handlers : g = h, VoucherTypeOK, NEW h \in Handlers, NEW state \in VoucherTask,
         VoucherGo(h, state), CardsCounted',
         CardsFit(state, group', cards', cardLink', active', credit', spent')
  PROVE  CardsInv'
<1>1. \A g \in Handlers : voucherTask'[g] = state
  BY VoucherGoes
<1> QED BY <1>1 DEF CardsInv

LEMMA LinksCount ==
  ASSUME VoucherTypeOK
  PROVE  /\ IsFiniteSet(cardLink) /\ Cardinality(cardLink) \in Nat
         /\ Cardinality(cardLink) = 0 <=> cardLink = {}
         /\ \A fresh \in SUBSET Cards :
              /\ IsFiniteSet(fresh) /\ Cardinality(fresh) \in Nat
              /\ fresh \cap cardLink = {} =>
                   Cardinality(cardLink \cup fresh) = Cardinality(cardLink) + Cardinality(fresh)
<1>1. IsFiniteSet(Cards) /\ cardLink \in SUBSET Cards
  BY VoucherAssumption, FS_Interval DEF Cards, VoucherTypeOK
<1>2. ASSUME NEW fresh \in SUBSET Cards
      PROVE  IsFiniteSet(fresh) /\ Cardinality(fresh) \in Nat
  BY <1>1, FS_Subset, FS_CardinalityType
<1>3. IsFiniteSet(cardLink) /\ Cardinality(cardLink) \in Nat
  BY <1>1, <1>2
<1>4. Cardinality(cardLink) = 0 <=> cardLink = {}
  BY <1>3, FS_EmptySet
<1>5. ASSUME NEW fresh \in SUBSET Cards, fresh \cap cardLink = {}
      PROVE  Cardinality(cardLink \cup fresh) = Cardinality(cardLink) + Cardinality(fresh)
  <2>1. Cardinality(cardLink \cup fresh)
          = Cardinality(cardLink) + Cardinality(fresh) - Cardinality(cardLink \cap fresh)
    BY <1>2, <1>3, FS_Union
  <2>2. cardLink \cap fresh = {}
    BY <1>5
  <2>3. Cardinality(cardLink \cap fresh) = 0
    BY <2>2, FS_EmptySet
  <2> QED BY <1>2, <1>3, <2>1, <2>3
<1> QED BY <1>2, <1>3, <1>4, <1>5

(***************************************************************************)
(* New users: their cards are not linked, and inactive unless they start.  *)
(***************************************************************************)
LEMMA CreateFits ==
  ASSUME \A g, h \in Handlers : g = h, VoucherInv, CardsInv, NEW h \in Handlers,
         NEW new \in VoucherGroup, new.amount > 0, NEW old \in VoucherGroup, NEW found \in SUBSET Cards,
         old.amount <= new.amount,
         CreateVoucherUsers(h, new, old, found),
         group.started \/ active \cap cardLink = {},
         \/ old = NoGroup /\ HasCards(cardLink, credit, group.amount, group.balance)
         \/ /\ old # NoGroup /\ HasCards(cardLink, credit, old.amount, new.balance)
            /\ group.amount = new.amount /\ group.balance = new.balance /\ (new.started => group.started)
  PROVE  CardsInv'
<1> DEFINE fresh == NewCards(new, old.amount)
           state == [pc |-> IF old = NoGroup THEN "group" ELSE "links",
                     new |-> new, old |-> old, found |-> found, fresh |-> fresh]
<1>1. /\ fresh \subseteq Cards /\ cards' = cards + Cardinality(fresh) /\ VoucherGo(h, state)
      /\ active' = IF new.started THEN active \cup fresh ELSE active
      /\ UNCHANGED <<group, cardLink, credit, spent>>
  BY DEF CreateVoucherUsers
<1>2. VoucherTypeOK /\ old.amount \in Nat /\ new.amount \in Nat /\ cards \in 0 .. MaxCards /\ cards \in Nat
  BY GroupTypes, VoucherAssumption DEF VoucherInv, VoucherTypeOK
<1>3. /\ cards' \in 0 .. MaxCards /\ cards <= cards' /\ cards' \in Nat
      /\ fresh \cap 1 .. cards = {} /\ fresh \subseteq 1 .. cards'
      /\ Cardinality(fresh) = new.amount - old.amount
  BY <1>1, <1>2, NewCardsFacts, VoucherAssumption
<1>4. state \in VoucherTask
  BY <1>1, VoucherTaskTypes DEF VoucherRequest, VoucherSteps
<1>5. /\ state.pc = (IF old = NoGroup THEN "group" ELSE "links")
      /\ state.new = new /\ state.fresh = fresh
  OBVIOUS
<1> HIDE DEF fresh, state
<1>6. CardsCounted
  BY DEF CardsInv
<1>7. 1 .. cards \subseteq 1 .. cards'
  BY <1>2, <1>3
<1>8. CardsCounted'
  BY <1>1, <1>3, <1>6, <1>7 DEF CardsCounted
<1>9. fresh \cap cardLink = {} /\ active \cap fresh = {}
  BY <1>3, <1>6 DEF CardsCounted
<1>10. active' \cap cardLink = active \cap cardLink /\ (new.started \/ active' \cap fresh = {})
  BY <1>1, <1>9
<1>11. old = NoGroup => old.amount = 0
  BY DEF NoGroup
<1>12. new.amount - Cardinality(fresh) = old.amount
  BY <1>2, <1>3
<1>13. CardsFit(state, group, cards', cardLink, active', credit, spent)
  <2>1. CASE old = NoGroup
    <3>1. Cardinality(fresh) = new.amount
      BY <1>2, <1>3, <1>11, <2>1
    <3> QED BY <1>3, <1>5, <1>9, <1>10, <2>1, <3>1 DEF CardsFit
  <2>2. CASE old # NoGroup
    BY <1>3, <1>5, <1>9, <1>10, <1>12, <2>2 DEF CardsFit
  <2> QED BY <2>1, <2>2
<1> QED BY <1>1, <1>2, <1>4, <1>8, <1>13, OnlyVoucherTask

(***************************************************************************)
(* A step that keeps what is counted.                                      *)
(***************************************************************************)
LEMMA CountedKept ==
  ASSUME CardsCounted, UNCHANGED <<cards, cardLink, active, credit, spent>>, group' = NoGroup \/ group'.amount > 0
  PROVE  CardsCounted'
BY DEF CardsCounted

LEMMA CardsNext ==
  ASSUME \A g, h \in Handlers : g = h
  PROVE  VoucherInv /\ CardsInv /\ [VoucherStep]_voucherVars => CardsInv'
<1> SUFFICES ASSUME VoucherInv, CardsInv, [VoucherStep]_voucherVars PROVE CardsInv'
  OBVIOUS
<1>0. /\ VoucherTypeOK /\ group \in VoucherGroup /\ cards \in 0 .. MaxCards /\ cardLink \subseteq Cards
      /\ active \subseteq Cards /\ credit \in [Cards -> Int] /\ spent \in [Cards -> Nat]
      /\ (\A c \in Cards : credit[c] # 0 => c \in cardLink) /\ CardsCounted
  BY DEF VoucherInv, VoucherTypeOK, CreditIsLinked, CardsInv
<1>f. \A h \in Handlers : CardsFit(voucherTask[h], group, cards, cardLink, active, credit, spent)
  BY DEF CardsInv
<1>t. ASSUME NEW h \in Handlers, voucherTask[h].pc # "idle"
      PROVE  /\ voucherTask[h] \in VoucherRequest
             /\ voucherTask[h].new \in VoucherGroup /\ voucherTask[h].old \in VoucherGroup
             /\ voucherTask[h].found \in SUBSET Cards /\ voucherTask[h].fresh \in SUBSET Cards
             /\ voucherTask[h].found \subseteq cardLink
             /\ voucherTask[h].new.amount > 0
  <2>1. voucherTask[h] \in VoucherRequest /\ voucherTask[h] # Idle /\ LinkedTask(voucherTask[h], cardLink)
    BY <1>t, VoucherTaskTypes DEF VoucherInv, VoucherTypeOK
  <2>2. voucherTask[h].new.amount > 0
    BY <1>f, <1>t DEF CardsFit
  <2> QED BY <2>1, <2>2 DEF VoucherRequest, LinkedTask
<1>p. ASSUME NEW h \in Handlers, voucherTask[h].pc # "idle", NEW pc \in VoucherSteps, NEW state,
             state = [voucherTask[h] EXCEPT !.pc = pc]
      PROVE  /\ state \in VoucherTask /\ state.pc = pc
             /\ state.new = voucherTask[h].new /\ state.old = voucherTask[h].old
             /\ state.found = voucherTask[h].found /\ state.fresh = voucherTask[h].fresh
  <2>1. voucherTask[h] \in VoucherRequest
    BY <1>p, <1>t
  <2>2. state \in VoucherRequest
    BY <1>p, <2>1 DEF VoucherRequest
  <2>3. /\ state.pc = pc /\ state.new = voucherTask[h].new /\ state.old = voucherTask[h].old
        /\ state.found = voucherTask[h].found /\ state.fresh = voucherTask[h].fresh
    BY <1>p, <2>1 DEF VoucherRequest
  <2> QED BY <2>2, <2>3, VoucherTaskTypes
<1>g. ASSUME NEW row \in VoucherGroup
      PROVE  /\ row.amount \in Nat /\ row.balance \in Nat /\ row.started \in BOOLEAN
             /\ row.amount > 0 => row # NoGroup
  BY GroupTypes DEF NoGroup
<1>1. CASE StartPasses
  <2>1. /\ group' = [group EXCEPT !.started = TRUE] /\ group # NoGroup
        /\ UNCHANGED <<cards, cardLink, active, credit, spent, voucherTask>>
    BY <1>1 DEF StartPasses
  <2>2. group'.amount = group.amount /\ group'.balance = group.balance /\ group'.started
    BY <1>0, <2>1 DEF VoucherGroup
  <2>3. CardsCounted'
    BY <1>0, <2>1, <2>2 DEF CardsCounted
  <2>4. ASSUME NEW h \in Handlers
        PROVE  CardsFit(voucherTask[h], group', cards, cardLink, active, credit, spent)
    BY <1>f, <2>2 DEF CardsFit
  <2> QED BY <2>1, <2>3, <2>4 DEF CardsInv
<1>2. ASSUME NEW h \in Handlers, NEW new \in VoucherGroup, BeginCreate(h, new) PROVE CardsInv'
  <2>1. /\ HasCards(cardLink, credit, group.amount, group.balance) /\ new.amount > 0
        /\ group.started \/ active \cap cardLink = {}
    BY <1>2, <1>f DEF BeginCreate, Valid, VoucherAt, CardsFit
  <2>2. NoGroup.amount <= new.amount
    BY <1>g DEF NoGroup
  <2> QED BY <1>2, <2>1, <2>2, CreateFits, GroupTypes DEF BeginCreate
<1>3. ASSUME NEW h \in Handlers, NEW new \in VoucherGroup, BeginUpdate(h, new) PROVE CardsInv'
  <2> DEFINE state == [pc |-> "read", new |-> new, old |-> NoGroup, found |-> {}, fresh |-> {}]
  <2>1. state \in VoucherTask /\ state.pc = "read" /\ state.new = new
    BY GroupTypes, VoucherTaskTypes DEF VoucherRequest, VoucherSteps
  <2>2. VoucherGo(h, state) /\ UNCHANGED <<group, cards, cardLink, active, credit, spent>>
    BY <1>3 DEF BeginUpdate, voucherTables
  <2>3. /\ voucherTask[h].pc = "idle" /\ new.amount > 0 /\ group # NoGroup /\ ~ group.started
        /\ group.amount <= new.amount
    BY <1>0, <1>3, <1>g DEF BeginUpdate, Valid, VoucherAt, MayChange
  <2> HIDE DEF state
  <2>4. CardsCounted' /\ group.amount > 0
    BY <1>0, <2>2, <2>3 DEF CardsCounted
  <2>5. CardsFit(state, group, cards, cardLink, active, credit, spent)
    BY <1>f, <2>1, <2>3, <2>4 DEF CardsFit
  <2> QED BY <1>0, <2>1, <2>2, <2>4, <2>5, OnlyVoucherTask
<1>4. ASSUME NEW h \in Handlers, NEW c \in Cards, PayByCard(h, c) PROVE CardsInv'
  <2>1. /\ voucherTask[h].pc = "idle" /\ c \in active /\ credit[c] - spent[c] > 0
        /\ \A d \in Cards : spent'[d] = IF d = c THEN spent[c] + 1 ELSE spent[d]
        /\ UNCHANGED <<group, cards, cardLink, active, credit, voucherTask>>
    BY <1>0, <1>4 DEF PayByCard, VoucherAt
  <2>2. c \in cardLink /\ spent[c] + 1 <= credit[c] /\ spent[c] + 1 > 0
    BY <1>0, <2>1
  <2>3. CardsCounted'
    BY <1>0, <2>1, <2>2 DEF CardsCounted
  <2>4. \A g \in Handlers : voucherTask[g].pc = "idle"
    BY <2>1
  <2>5. \A g \in Handlers : CardsFit(voucherTask'[g], group', cards', cardLink', active', credit', spent')
    BY <1>f, <2>1, <2>4 DEF CardsFit
  <2> QED BY <2>3, <2>5 DEF CardsInv
<1>5. ASSUME NEW h \in Handlers, SaveGroup(h) PROVE CardsInv'
  <2> DEFINE task == voucherTask[h]
             state == [task EXCEPT !.pc = "links"]
  <2>1. task.pc = "group" /\ UNCHANGED <<cards, cardLink, active, credit, spent>>
    BY <1>5 DEF SaveGroup, VoucherAt
  <2>2. IF group = NoGroup THEN group' = task.new /\ VoucherGo(h, state) ELSE group' = group /\ VoucherGo(h, Idle)
    BY <1>5 DEF SaveGroup, VoucherTo
  <2>3. CardsFit(task, group, cards, cardLink, active, credit, spent)
    BY <1>f
  <2>4. /\ state \in VoucherTask /\ state.pc = "links" /\ state.new = task.new /\ state.fresh = task.fresh
        /\ task.new \in VoucherGroup /\ task.new.amount > 0
    BY <1>p, <1>t, <2>1 DEF VoucherSteps
  <2> HIDE DEF state, task
  <2>5. CASE group = NoGroup
    <3>1. cardLink = {} /\ Cardinality(cardLink) = 0
      BY <1>0, <2>1, <2>3, <2>5, LinksCount DEF CardsFit, HasCards, NoGroup
    <3>2. HasCards(cardLink, credit, task.new.amount - Cardinality(task.fresh), task.new.balance)
      BY <1>g, <2>1, <2>3, <2>4, <3>1 DEF CardsFit, HasCards
    <3>3. CardsFit(state, task.new, cards, cardLink, active, credit, spent)
      BY <2>1, <2>3, <2>4, <3>1, <3>2 DEF CardsFit
    <3>4. CardsCounted'
      BY <1>0, <2>1, <2>2, <2>4, <2>5, CountedKept
    <3> QED BY <1>0, <2>1, <2>2, <2>4, <2>5, <3>3, <3>4, OnlyVoucherTask
  <2>6. CASE group # NoGroup
    <3>1. CardsFit(Idle, group, cards, cardLink, active, credit, spent)
      BY <2>1, <2>3, VoucherTaskTypes DEF CardsFit
    <3>2. CardsCounted'
      BY <1>0, <2>1, <2>2, <2>6 DEF CardsCounted
    <3> QED BY <1>0, <2>1, <2>2, <2>6, <3>1, <3>2, VoucherTaskTypes, OnlyVoucherTask
  <2> QED BY <2>5, <2>6
<1>6. ASSUME NEW h \in Handlers, SaveLinks(h) PROVE CardsInv'
  <2> DEFINE task == voucherTask[h]
             state == [task EXCEPT !.pc = "credit"]
             links == cardLink \cup task.fresh
  <2>1. /\ task.pc = "links" /\ UNCHANGED <<group, cards, active, credit, spent>>
        /\ cardLink' = links /\ VoucherGo(h, state)
    BY <1>6 DEF SaveLinks, VoucherAt, VoucherTo
  <2>2. CardsFit(task, group, cards, cardLink, active, credit, spent)
    BY <1>f
  <2>3. /\ state \in VoucherTask /\ state.pc = "credit" /\ state.new = task.new /\ state.fresh = task.fresh
        /\ task.new \in VoucherGroup /\ task.new.amount > 0 /\ task.fresh \in SUBSET Cards
    BY <1>p, <1>t, <2>1 DEF VoucherSteps
  <2> HIDE DEF state, task
  <2>4. /\ HasCards(cardLink, credit, task.new.amount - Cardinality(task.fresh), task.new.balance)
        /\ task.fresh \cap cardLink = {} /\ task.fresh \subseteq 1 .. cards
        /\ task.new.started \/ active \cap task.fresh = {}
        /\ task.new.started => group.started
        /\ group.started \/ active \cap cardLink = {}
    BY <2>1, <2>2 DEF CardsFit
  <2>5. Cardinality(links) = task.new.amount
    <3>1. /\ Cardinality(cardLink) \in Nat /\ Cardinality(task.fresh) \in Nat
          /\ Cardinality(links) = Cardinality(cardLink) + Cardinality(task.fresh)
      BY <1>0, <2>3, <2>4, LinksCount
    <3>2. Cardinality(cardLink) = task.new.amount - Cardinality(task.fresh) /\ task.new.amount \in Nat
      BY <1>g, <2>3, <2>4 DEF HasCards
    <3> HIDE DEF links
    <3> QED BY <3>1, <3>2
  <2>6. \A c \in links : credit[c] = IF c \in task.fresh THEN 0 ELSE task.new.balance
    BY <1>0, <2>3, <2>4 DEF HasCards
  <2>7. group.started \/ active \cap links = {}
    BY <2>4
  <2>8. CardsFit(state, group, cards, links, active, credit, spent)
    BY <2>1, <2>2, <2>3, <2>5, <2>6, <2>7 DEF CardsFit
  <2>9. CardsCounted'
    BY <1>0, <2>1, <2>4 DEF CardsCounted
  <2> HIDE DEF links
  <2> QED BY <1>0, <2>1, <2>3, <2>8, <2>9, OnlyVoucherTask
<1>7. ASSUME NEW h \in Handlers, CreditFresh(h) PROVE CardsInv'
  <2> DEFINE task == voucherTask[h]
  <2>1. /\ task.pc = "credit" /\ VoucherGo(h, Idle) /\ MoveMoney(task.fresh, task.new.balance)
        /\ UNCHANGED <<group, cards, cardLink, active, spent>>
    BY <1>7 DEF CreditFresh, VoucherAt
  <2>2. CardsFit(task, group, cards, cardLink, active, credit, spent)
    BY <1>f
  <2>3. task.new \in VoucherGroup /\ task.fresh \in SUBSET Cards
    BY <1>t, <2>1
  <2> HIDE DEF task
  <2>4. \A c \in Cards : credit'[c] = IF c \in task.fresh THEN credit[c] + task.new.balance ELSE credit[c]
    BY <2>1 DEF MoveMoney
  <2>5. \A c \in cardLink : credit'[c] = task.new.balance
    BY <1>0, <1>g, <2>1, <2>2, <2>3, <2>4 DEF CardsFit
  <2>6. HasCards(cardLink, credit', group.amount, group.balance)
    BY <2>1, <2>2, <2>5 DEF CardsFit, HasCards
  <2>7. CardsFit(Idle, group, cards, cardLink, active, credit', spent)
    BY <2>1, <2>2, <2>6, VoucherTaskTypes DEF CardsFit
  <2>8. CardsCounted'
    <3>1. \A c \in Cards : credit'[c] >= credit[c] /\ credit'[c] \in Int
      BY <1>0, <1>g, <2>3, <2>4
    <3>2. \A c \in Cards : spent[c] <= credit'[c]
      BY <1>0, <3>1 DEF CardsCounted
    <3> QED BY <1>0, <2>1, <3>2 DEF CardsCounted
  <2> QED BY <1>0, <2>1, <2>7, <2>8, VoucherTaskTypes, OnlyVoucherTask
<1>8. ASSUME NEW h \in Handlers, ReadGroup(h) PROVE CardsInv'
  <2> DEFINE task == voucherTask[h]
             state == [task EXCEPT !.pc = "update", !.old = group]
  <2>1. /\ task.pc = "read" /\ VoucherGo(h, state)
        /\ UNCHANGED <<group, cards, cardLink, active, credit, spent>>
    BY <1>8 DEF ReadGroup, VoucherAt, voucherTables
  <2>2. CardsFit(task, group, cards, cardLink, active, credit, spent)
    BY <1>f
  <2>3. state \in VoucherTask /\ state.pc = "update" /\ state.new = task.new /\ state.old = group
    BY <1>0, <1>t, <2>1, VoucherTaskTypes DEF VoucherRequest, VoucherSteps
  <2> HIDE DEF state, task
  <2>4. CardsFit(state, group, cards, cardLink, active, credit, spent)
    BY <2>1, <2>2, <2>3 DEF CardsFit
  <2>5. CardsCounted'
    BY <1>0, <2>1 DEF CardsCounted
  <2> QED BY <1>0, <2>1, <2>3, <2>4, <2>5, OnlyVoucherTask
<1>9. ASSUME NEW h \in Handlers, UpdateGroup(h) PROVE CardsInv'
  <2> DEFINE task == voucherTask[h]
             state == [task EXCEPT !.pc = "find"]
  <2>1. /\ task.pc = "update" /\ VoucherGo(h, state) /\ group' = task.new
        /\ UNCHANGED <<cards, cardLink, active, credit, spent>>
    BY <1>9 DEF UpdateGroup, VoucherAt, VoucherTo
  <2>2. CardsFit(task, group, cards, cardLink, active, credit, spent)
    BY <1>f
  <2>3. /\ state \in VoucherTask /\ state.pc = "find" /\ state.new = task.new /\ state.old = task.old
        /\ task.new.amount > 0
    BY <1>p, <1>t, <2>1 DEF VoucherSteps
  <2> HIDE DEF state, task
  <2>4. CardsFit(state, task.new, cards, cardLink, active, credit, spent)
    BY <2>1, <2>2, <2>3 DEF CardsFit
  <2>5. CardsCounted'
    BY <1>0, <2>1, <2>3, CountedKept
  <2> QED BY <1>0, <2>1, <2>3, <2>4, <2>5, OnlyVoucherTask
<1>10. ASSUME NEW h \in Handlers, FindCards(h) PROVE CardsInv'
  <2> DEFINE task == voucherTask[h]
             state == [task EXCEPT !.pc = IF task.new.started THEN "activate" ELSE "move", !.found = cardLink]
  <2>1. /\ task.pc = "find" /\ VoucherGo(h, state)
        /\ UNCHANGED <<group, cards, cardLink, active, credit, spent>>
    BY <1>10 DEF FindCards, VoucherAt, voucherTables
  <2>2. CardsFit(task, group, cards, cardLink, active, credit, spent)
    BY <1>f
  <2>3. /\ state \in VoucherTask /\ state.pc = (IF task.new.started THEN "activate" ELSE "move")
        /\ state.new = task.new /\ state.old = task.old /\ state.found = cardLink
    BY <1>0, <1>t, <2>1, VoucherTaskTypes DEF VoucherRequest, VoucherSteps
  <2> HIDE DEF state, task
  <2>4. \A c \in cardLink : spent[c] = 0
    BY <1>0, <2>1, <2>2 DEF CardsFit, CardsCounted
  <2>5. CardsFit(state, group, cards, cardLink, active, credit, spent)
    BY <2>1, <2>2, <2>3, <2>4 DEF CardsFit
  <2>6. CardsCounted'
    BY <1>0, <2>1 DEF CardsCounted
  <2> QED BY <1>0, <2>1, <2>3, <2>5, <2>6, OnlyVoucherTask
<1>11. ASSUME NEW h \in Handlers, ActivateCards(h) PROVE CardsInv'
  <2> DEFINE task == voucherTask[h]
             state == [task EXCEPT !.pc = "move"]
  <2>1. /\ task.pc = "activate" /\ VoucherGo(h, state) /\ active' = active \cup task.found
        /\ UNCHANGED <<group, cards, cardLink, credit, spent>>
    BY <1>11 DEF ActivateCards, VoucherAt, VoucherTo
  <2>2. CardsFit(task, group, cards, cardLink, active, credit, spent)
    BY <1>f
  <2>3. /\ state \in VoucherTask /\ state.pc = "move" /\ state.new = task.new /\ state.old = task.old
        /\ state.found = task.found
    BY <1>p, <2>1 DEF VoucherSteps
  <2> HIDE DEF state, task
  <2>4. (\A c \in cardLink : spent[c] = 0) /\ task.found = cardLink /\ group.started
    BY <1>0, <2>1, <2>2 DEF CardsFit, CardsCounted
  <2>5. CardsFit(state, group, cards, cardLink, active', credit, spent)
    BY <2>1, <2>2, <2>3, <2>4 DEF CardsFit
  <2>6. CardsCounted'
    BY <1>0, <2>1, <2>4 DEF CardsCounted
  <2> QED BY <1>0, <2>1, <2>3, <2>5, <2>6, OnlyVoucherTask
<1>12. ASSUME NEW h \in Handlers, MoveDifference(h) PROVE CardsInv'
  <2> DEFINE task == voucherTask[h]
             next == [task EXCEPT !.pc = "users"]
  <2>1. /\ task.pc = "move" /\ MoveMoney(task.found, task.new.balance - task.old.balance)
        /\ UNCHANGED <<group, cards, cardLink, active, spent>>
        /\ VoucherGo(h, IF task.old.amount < task.new.amount THEN next ELSE Idle)
    BY <1>12 DEF MoveDifference, VoucherAt, VoucherTo
  <2>2. CardsFit(task, group, cards, cardLink, active, credit, spent)
    BY <1>f
  <2>3. /\ next \in VoucherTask /\ next.pc = "users" /\ next.new = task.new /\ next.old = task.old
        /\ task.new \in VoucherGroup /\ task.old \in VoucherGroup
    BY <1>p, <1>t, <2>1 DEF VoucherSteps
  <2> HIDE DEF next, task
  <2>4. task.found = cardLink /\ \A c \in cardLink : credit[c] = task.old.balance /\ spent[c] = 0
    BY <2>1, <2>2 DEF CardsFit, HasCards
  <2>5. \A c \in Cards :
          credit'[c] = IF c \in cardLink THEN credit[c] + (task.new.balance - task.old.balance) ELSE credit[c]
    BY <2>1, <2>4 DEF MoveMoney
  <2>6. \A c \in cardLink : credit'[c] = task.new.balance /\ spent[c] <= credit'[c]
    BY <1>0, <1>g, <2>3, <2>4, <2>5
  <2>7. CardsCounted'
    BY <1>0, <2>1, <2>5, <2>6 DEF CardsCounted
  <2>8. HasCards(cardLink, credit', task.old.amount, task.new.balance)
    BY <2>1, <2>2, <2>6 DEF CardsFit, HasCards
  <2>9. CASE task.old.amount < task.new.amount
    <3>1. CardsFit(next, group, cards, cardLink, active, credit', spent)
      BY <2>1, <2>2, <2>3, <2>8 DEF CardsFit
    <3> QED BY <1>0, <2>1, <2>3, <2>7, <2>9, <3>1, OnlyVoucherTask
  <2>10. CASE ~ (task.old.amount < task.new.amount)
    <3>1. task.old.amount = group.amount /\ task.new.balance = group.balance
      BY <1>g, <2>1, <2>2, <2>3, <2>10 DEF CardsFit
    <3>2. HasCards(cardLink, credit', group.amount, group.balance)
      BY <2>8, <3>1
    <3>3. CardsFit(Idle, group, cards, cardLink, active, credit', spent)
      BY <2>1, <2>2, <3>2, VoucherTaskTypes DEF CardsFit
    <3> QED BY <1>0, <2>1, <2>7, <2>10, <3>3, VoucherTaskTypes, OnlyVoucherTask
  <2> QED BY <2>9, <2>10
<1>13. ASSUME NEW h \in Handlers, AddCards(h) PROVE CardsInv'
  <2> DEFINE task == voucherTask[h]
  <2>1. task.pc = "users" /\ CreateVoucherUsers(h, task.new, task.old, task.found)
    BY <1>13 DEF AddCards, VoucherAt
  <2>2. CardsFit(task, group, cards, cardLink, active, credit, spent)
    BY <1>f
  <2>3. /\ task.new \in VoucherGroup /\ task.old \in VoucherGroup /\ task.found \in SUBSET Cards
        /\ task.new.amount > 0
    BY <1>t, <2>1
  <2> HIDE DEF task
  <2>4. /\ HasCards(cardLink, credit, task.old.amount, task.new.balance)
        /\ group.amount = task.new.amount /\ group.balance = task.new.balance
        /\ task.new.started => group.started
        /\ task.old.amount > 0 /\ task.old.amount <= task.new.amount
        /\ group.started \/ active \cap cardLink = {}
    BY <2>1, <2>2 DEF CardsFit
  <2>5. task.old # NoGroup
    BY <1>g, <2>3, <2>4
  <2> QED BY <2>1, <2>3, <2>4, <2>5, CreateFits
<1>14. CASE UNCHANGED voucherVars
  <2>1. UNCHANGED <<group, cards, cardLink, active, credit, spent>> /\ voucherTask' = voucherTask
    BY <1>14 DEF voucherVars
  <2> QED BY <1>0, <1>f, <2>1 DEF CardsInv, CardsCounted
<1> QED BY <1>1, <1>2, <1>3, <1>4, <1>5, <1>6, <1>7, <1>8, <1>9, <1>10, <1>11, <1>12, <1>13, <1>14
        DEF VoucherStep

(***************************************************************************)
(* With one request at a time that does not fail half way, the group has,  *)
(* at rest, as many cards as it says, each card got what the group says,   *)
(* and no update took back what a card has spent: a card pays only once it *)
(* is active, and a group with an active card is not updated any more.     *)
(***************************************************************************)
THEOREM CardsMatchGroupAlways ==
  ASSUME \A g, h \in Handlers : g = h
  PROVE  VoucherInit /\ [][VoucherStep]_voucherVars => []CardsMatchGroup
<1>1. VoucherInit => CardsInv
  <2> SUFFICES ASSUME VoucherInit PROVE CardsInv
    OBVIOUS
  <2>1. CardsCounted
    BY DEF VoucherInit, CardsCounted
  <2>2. CardsFit(Idle, group, cards, cardLink, active, credit, spent)
    BY VoucherTaskTypes, FS_EmptySet DEF VoucherInit, CardsFit, HasCards, NoGroup
  <2> QED BY <2>1, <2>2 DEF VoucherInit, CardsInv
<1>2. VoucherInv /\ CardsInv => CardsMatchGroup
  <2> SUFFICES ASSUME CardsInv, \A h \in Handlers : VoucherAt(h, "idle")
               PROVE  /\ Cardinality(cardLink) = group.amount
                      /\ \A c \in cardLink : credit[c] = group.balance
                      /\ \A c \in Cards : spent[c] <= credit[c]
    BY DEF CardsMatchGroup
  <2>1. PICK h : h \in Handlers
    BY ServerAssumption
  <2> QED BY <2>1 DEF CardsInv, CardsFit, CardsCounted, HasCards, VoucherAt
<1>3. [VoucherStep]_voucherVars => [VoucherNext]_voucherVars
  BY DEF VoucherNext
<1> QED BY <1>1, <1>2, <1>3, VoucherInitInv, VoucherNextInv, CardsNext, PTL
-----------------------------------------------------------------------------
(***************************************************************************)
(* Fines, for any number of requests at once.                              *)
(***************************************************************************)
GroupsAreThere ==
  /\ \A f \in FineIds : Exists(fines[f]) => Exists(groups[fines[f].group])
  /\ \A u \in Users : currentFines[u] # NoId => Exists(groups[currentFines[u]])

BalancesTypeOK ==
  /\ debt \in [Users -> Int]
  /\ balanceRow \in [Users -> BalanceRow]
  /\ newest \in [Users -> Transfers \cup {OtherTransfer}]

FineTaskHolds(task, table) ==
  /\ task.pc = "delete.transfer" => table[task.fine] = Gone
  /\ task.pc = "waive.remove" => task.waiver # NoId

FineTasksHold == \A h \in Handlers : FineTaskHolds(fineTask[h], fines)

FinesInv == FinesTypeOK /\ FineIsPaid /\ GroupsAreThere /\ FineTasksHold

Deleting == {"delete.fine", "delete.transfer", "delete.group", "delete.current"}
Waiving  == {"waive.remove", "waive.create", "waive.save", "waive.current"}

DeleteTask ==
  [pc : Deleting, fine : FineIds, group : GroupIds, user : Users, amount : Nat, count : Nat]

WaiveTask ==
  [pc : Waiving, user : Users, group : GroupIds, amount : Nat, waiver : WaiverIds \cup {NoId},
   full : BOOLEAN]

LEMMA FineTaskTypes ==
  ASSUME NEW task \in FineTask
  PROVE  /\ task.pc \in Pending => task \in Deposit
         /\ task.pc = "handout.load" => task \in [pc : {"handout.load"}, user : Users, balance : Int]
         /\ task.pc = "handout.commit" =>
              task \in [pc : {"handout.commit"}, user : Users, amount : Nat, group : GroupIds \cup {NoId}]
         /\ task.pc \in Deleting => task \in DeleteTask
         /\ task.pc \in Waiving => task \in WaiveTask
BY DEF FineTask, Idle, Deposit, Pending, Deleting, Waiving, DeleteTask, WaiveTask

LEMMA FineTasks ==
  /\ Idle \in FineTask /\ Idle.pc = "idle"
  /\ Deposit \subseteq FineTask /\ DeleteTask \subseteq FineTask /\ WaiveTask \subseteq FineTask
BY DEF FineTask, Idle, Deleting, Waiving, DeleteTask, WaiveTask

LEMMA RowsExist ==
  /\ \A row \in Fine \cup Group \cup Waiver : Exists(row)
  /\ ~ Exists(Unused) /\ ~ Exists(Gone)
BY DEF Exists, Unused, Gone, Fine, Group, Waiver

LEMMA FineGoes ==
  ASSUME FinesTypeOK, NEW h \in Handlers, NEW state \in FineTask, FineGo(h, state)
  PROVE  /\ fineTask' \in [Handlers -> FineTask]
         /\ \A g \in Handlers : fineTask'[g] = IF g = h THEN state ELSE fineTask[g]
         /\ fineTask[h] \in FineTask
BY DEF FinesTypeOK, FineGo

(***************************************************************************)
(* A transfer is made, removed, or found by the nightly job.               *)
(***************************************************************************)
LEMMA BookedAre == FinesTypeOK => Booked \subseteq Transfers
BY DEF FinesTypeOK, Booked, Transfers

LEMMA DatedType ==
  ASSUME FinesTypeOK, NEW u \in Users, NEW transfer \in Transfers \cup {OtherTransfer}, Dated(u, transfer)
  PROVE  newest' \in [Users -> Transfers \cup {OtherTransfer}]
BY DEF FinesTypeOK, Dated

LEMMA AddedType ==
  ASSUME FinesTypeOK, NEW u \in Users, NEW amount \in Int, AddTo(u, amount)
  PROVE  debt' \in [Users -> Int] /\ \A v \in Users : debt'[v] = IF v = u THEN debt[v] + amount ELSE debt[v]
BY DEF FinesTypeOK, AddTo

LEMMA RemoveTypes ==
  ASSUME FinesTypeOK, NEW transfer \in Transfers, NEW u \in Users, NEW amount \in Int,
         Remove(transfer, u, amount)
  PROVE  BalancesTypeOK'
<1>1. debt' \in [Users -> Int]
  BY AddedType DEF Remove
<1>2. balanceRow' \in [Users -> BalanceRow]
  <2>1. NoRow \in BalanceRow /\ balanceRow[u] \in BalanceRow
    BY DEF FinesTypeOK, NoRow, BalanceRow
  <2>2. [balanceRow[u] EXCEPT !.counted = balanceRow[u].counted \ {transfer},
                              !.error = balanceRow[u].error - amount] \in BalanceRow
    <3>1. PICK row \in BalanceRow : row = balanceRow[u]
      BY <2>1
    <3>2. row.counted \ {transfer} \in SUBSET Transfers /\ row.error - amount \in Int
      BY DEF BalanceRow
    <3> DEFINE counted == row.counted \ {transfer}
               error   == row.error - amount
    <3> HIDE DEF counted, error
    <3>3. [row EXCEPT !.counted = counted, !.error = error] \in BalanceRow
      BY <3>2 DEF BalanceRow, counted, error
    <3> QED BY <3>1, <3>3 DEF counted, error
  <2>3. PICK row \in BalanceRow : balanceRow' = [balanceRow EXCEPT ![u] = row]
    BY <2>1, <2>2 DEF Remove
  <2> QED BY <2>3 DEF FinesTypeOK
<1>3. newest' \in [Users -> Transfers \cup {OtherTransfer}]
  <2>1. CASE newest[u] # transfer
    BY <2>1 DEF Remove, FinesTypeOK
  <2>2. CASE newest[u] = transfer
    <3>1. PICK before \in (Booked \ {transfer}) \cup {OtherTransfer} : Dated(u, before)
      BY <2>2 DEF Remove
    <3>2. before \in Transfers \cup {OtherTransfer}
      BY <3>1, BookedAre
    <3> QED BY <3>1, <3>2, DatedType
  <2> QED BY <2>1, <2>2
<1> QED BY <1>1, <1>2, <1>3 DEF BalancesTypeOK

LEMMA UpdateTypes == ASSUME FinesTypeOK, UpdateBalances PROVE BalancesTypeOK'
<1>1. \A u \in Users : [counted |-> Booked, last |-> newest[u], error |-> 0] \in BalanceRow
  BY BookedAre DEF FinesTypeOK, BalanceRow
<1> QED BY <1>1 DEF UpdateBalances, FinesTypeOK, BalancesTypeOK

LEMMA KeepsFines ==
  ASSUME FinesInv, NEW h \in Handlers, NEW state \in FineTask, FineGo(h, state),
         UNCHANGED <<currentFines, fines, fineTransfers, groups, waivers>>, BalancesTypeOK',
         FineTaskHolds(state, fines)
  PROVE  FinesInv'
<1>1. /\ fineTask' \in [Handlers -> FineTask]
      /\ \A g \in Handlers : fineTask'[g] = IF g = h THEN state ELSE fineTask[g]
  BY FineGoes DEF FinesInv
<1>2. FinesTypeOK' /\ FineIsPaid' /\ GroupsAreThere'
  BY <1>1 DEF FinesInv, FinesTypeOK, BalancesTypeOK, FineIsPaid, GroupsAreThere
<1>3. FineTasksHold'
  BY <1>1 DEF FinesInv, FineTasksHold
<1> QED BY <1>2, <1>3 DEF FinesInv

(***************************************************************************)
(* A transfer that is committed tells the deposits that wait.              *)
(***************************************************************************)
LEMMA AfterCommitTasks ==
  ASSUME FinesTypeOK, NEW h \in Handlers, NEW next \in FineTask, NEW overtaken, AfterCommit(h, next, overtaken)
  PROVE  /\ fineTask' \in [Handlers -> FineTask]
         /\ fineTask'[h] = next
         /\ \A g \in Handlers \ {h} : /\ fineTask'[g].pc = fineTask[g].pc
                                      /\ fineTask[g].pc \notin Pending => fineTask'[g] = fineTask[g]
<1>1. \A g \in Handlers : fineTask[g] \in FineTask
  BY DEF FinesTypeOK
<1>2. ASSUME NEW g \in Handlers \ {h}, fineTask[g].pc \in Pending
      PROVE  fineTask'[g] \in FineTask /\ fineTask'[g].pc = fineTask[g].pc
  <2>1. fineTask[g] \in Deposit
    BY <1>1, <1>2, FineTaskTypes
  <2>2. fineTask'[g] \in Deposit /\ fineTask'[g].pc = fineTask[g].pc
    BY <1>2, <2>1 DEF AfterCommit, Deposit
  <2> QED BY <2>2, FineTasks
<1>3. \A g \in Handlers \ {h} : fineTask[g].pc \notin Pending => fineTask'[g] = fineTask[g]
  BY DEF AfterCommit
<1>4. fineTask'[h] = next
  BY DEF AfterCommit
<1>5. \A g \in Handlers : fineTask'[g] \in FineTask
  BY <1>1, <1>2, <1>3, <1>4
<1>6. fineTask' = [g \in Handlers |-> fineTask'[g]]
  BY DEF AfterCommit
<1>7. fineTask' \in [Handlers -> FineTask]
  BY <1>5, <1>6
<1> QED BY <1>2, <1>3, <1>4, <1>7

LEMMA AfterCommitHolds ==
  ASSUME FinesInv, NEW h \in Handlers, NEW next \in FineTask, NEW overtaken, AfterCommit(h, next, overtaken),
         NEW table, \A f \in FineIds : fines[f] = Gone => table[f] = Gone,
         FineTaskHolds(next, table)
  PROVE  \A g \in Handlers : FineTaskHolds(fineTask'[g], table)
<1>1. /\ fineTask'[h] = next
      /\ \A g \in Handlers \ {h} : /\ fineTask'[g].pc = fineTask[g].pc
                                   /\ fineTask[g].pc \notin Pending => fineTask'[g] = fineTask[g]
  BY AfterCommitTasks DEF FinesInv
<1>2. ASSUME NEW g \in Handlers \ {h}, fineTask[g].pc \notin Pending
      PROVE  FineTaskHolds(fineTask'[g], table)
  <2>1. fineTask[g] \in FineTask /\ FineTaskHolds(fineTask[g], fines)
    BY DEF FinesInv, FinesTypeOK, FineTasksHold
  <2>2. fineTask[g].pc = "delete.transfer" => fineTask[g].fine \in FineIds
    BY <2>1, FineTaskTypes DEF Deleting, DeleteTask
  <2> QED BY <1>1, <1>2, <2>1, <2>2 DEF FineTaskHolds
<1>3. ASSUME NEW g \in Handlers \ {h}, fineTask[g].pc \in Pending
      PROVE  FineTaskHolds(fineTask'[g], table)
  BY <1>1, <1>3 DEF FineTaskHolds, Pending
<1> QED BY <1>1, <1>2, <1>3

LEMMA FinesInitInv == FinesInit => FinesInv
<1> SUFFICES ASSUME FinesInit PROVE FinesInv
  OBVIOUS
<1>1. NoRow \in BalanceRow
  BY DEF NoRow, BalanceRow
<1>2. FinesTypeOK
  BY <1>1 DEF FinesInit, FinesTypeOK, FineTask
<1> QED BY <1>2, RowsExist DEF FinesInit, FinesInv, FineIsPaid, GroupsAreThere, FineTasksHold, FineTaskHolds, Idle

LEMMA CountOfGroup == ASSUME NEW g PROVE Cardinality(OfGroup(g)) \in Nat
<1>1. OfGroup(g) \in SUBSET FineIds
  BY DEF OfGroup, RowsOf
<1> QED BY <1>1, FinesAssumption, FS_Subset, FS_CardinalityType

LEMMA FineAmount == ASSUME NEW b \in Int PROVE calculateFine(b) \in Nat
<1> DEFINE fine == ((- b) \div DebtPerFine) * FineUnit
<1>1. (- b) \div DebtPerFine \in Int
  BY FinesAssumption
<1>2. fine \in Int
  BY <1>1, FinesAssumption
<1>3. calculateFine(b) = IF fine < 0 THEN 0 ELSE IF fine > MaxFine THEN MaxFine ELSE fine
  BY DEF calculateFine
<1> HIDE DEF fine
<1> QED BY <1>2, <1>3, FinesAssumption

LEMMA InsertedState ==
  ASSUME NEW u \in Users, NEW amount \in Nat, NEW g \in GroupIds \cup {NoId}, NEW full \in BOOLEAN,
         NEW h \in Handlers, Inserted(h, u, amount, g, full)
  PROVE  \E state \in Deposit : /\ FineGo(h, state)
                                /\ state.user = u /\ state.amount = amount /\ state.group = g
<1>1. PICK pc \in Pending, older \in SUBSET Handlers :
        FineGo(h, [pc |-> pc, user |-> u, amount |-> amount, clears |-> FALSE, older |-> older,
                   overtaken |-> FALSE, group |-> g, full |-> full])
  <2> DEFINE pc    == IF currentFines[u] = NoId THEN "deposit.commit" ELSE "deposit.read"
  <2> DEFINE older == {k \in Handlers : fineTask[k].pc \in Pending /\ fineTask[k].user = u}
  <2>1. pc \in Pending /\ older \in SUBSET Handlers
    BY DEF Pending
  <2>2. FineGo(h, [pc |-> pc, user |-> u, amount |-> amount, clears |-> FALSE, older |-> older,
                   overtaken |-> FALSE, group |-> g, full |-> full])
    BY DEF Inserted
  <2> HIDE DEF pc, older
  <2> QED BY <2>1, <2>2
<1>2. [pc |-> pc, user |-> u, amount |-> amount, clears |-> FALSE, older |-> older,
       overtaken |-> FALSE, group |-> g, full |-> full] \in Deposit
  BY DEF Deposit
<1> QED BY <1>1, <1>2

LEMMA HandoutState ==
  ASSUME NEW h \in Handlers, NEW u \in Users, NEW balance \in PastBalances, BeginHandout(h, u, balance)
  PROVE  \E state \in FineTask : FineGo(h, state) /\ state.pc = "handout.load"
<1>1. balance \in Int
  BY FinesAssumption DEF PastBalances
<1> DEFINE state == [pc |-> "handout.load", user |-> u, balance |-> balance]
<1>2. state \in FineTask
  BY <1>1 DEF FineTask
<1> QED BY <1>2 DEF BeginHandout

LEMMA FinesStepInv == FinesInv /\ [FinesNext]_finesVars => FinesInv'
<1> SUFFICES ASSUME FinesInv, [FinesNext]_finesVars PROVE FinesInv'
  OBVIOUS
<1>0. /\ FinesTypeOK /\ FineIsPaid /\ GroupsAreThere /\ FineTasksHold
      /\ \A h \in Handlers : fineTask[h] \in FineTask /\ FineTaskHolds(fineTask[h], fines)
      /\ BalancesTypeOK
  BY DEF FinesInv, FinesTypeOK, BalancesTypeOK, FineTasksHold
<1>B. ASSUME UNCHANGED fineTables
      PROVE  BalancesTypeOK' /\ UNCHANGED <<currentFines, fines, fineTransfers, groups, waivers>>
  BY <1>0, <1>B DEF fineTables, BalancesTypeOK
<1>U. ASSUME UpdateBalances PROVE FinesInv'
  <2>1. BalancesTypeOK'
    BY <1>0, <1>U, UpdateTypes
  <2> QED BY <1>0, <1>U, <2>1
          DEF UpdateBalances, FinesInv, FinesTypeOK, BalancesTypeOK, FineIsPaid, GroupsAreThere, FineTasksHold
<1>1. ASSUME NEW u \in Users, NEW amount \in Moves, Purchase(u, amount) PROVE FinesInv'
  <2>1. debt' \in [Users -> Int]
    BY <1>0, <1>1, FinesAssumption, AddedType DEF Purchase
  <2> QED BY <1>1, <2>1 DEF Purchase, FinesInv, FinesTypeOK, FineIsPaid, GroupsAreThere, FineTasksHold
<1>2. ASSUME NEW h \in Handlers, NEW u \in Users, NEW amount \in Moves, InsertDeposit(h, u, amount) PROVE FinesInv'
  <2>1. PICK state \in Deposit : FineGo(h, state)
    BY <1>2, InsertedState, FinesAssumption DEF InsertDeposit
  <2>2. FineTaskHolds(state, fines)
    BY DEF FineTaskHolds, Deposit, Pending
  <2> QED BY <1>0, <1>2, <1>B, <2>1, <2>2, KeepsFines, FineTasks DEF InsertDeposit
<1>3. ASSUME NEW h \in Handlers, NEW u \in Users, NEW balance \in PastBalances, BeginHandout(h, u, balance)
      PROVE  FinesInv'
  <2>1. PICK state \in FineTask : FineGo(h, state) /\ state.pc = "handout.load"
    BY <1>3, HandoutState
  <2>2. FineTaskHolds(state, fines)
    BY <2>1 DEF FineTaskHolds
  <2> QED BY <1>0, <1>3, <1>B, <2>1, <2>2, KeepsFines DEF BeginHandout
<1>4. ASSUME NEW h \in Handlers, NEW u \in Users, NEW n \in 1 .. (MaxFine \div FineUnit),
             BeginWaive(h, u, n * FineUnit)
      PROVE  FinesInv'
  <2>1. n \in Nat /\ n * FineUnit \in Nat
    BY FinesAssumption
  <2>2. currentFines[u] \in GroupIds /\ Exists(groups[currentFines[u]])
    BY <1>0, <1>4 DEF BeginWaive, FinesTypeOK, GroupsAreThere
  <2>3. groups[currentFines[u]] \in Group
    BY <1>0, <2>2 DEF FinesTypeOK, Exists
  <2>4. PICK state \in WaiveTask : FineGo(h, state) /\ (state.pc = "waive.remove" => state.waiver # NoId)
    <3>1. groups[currentFines[u]].waived \in WaiverIds \cup {NoId}
      BY <2>3 DEF Group
    <3>2. PICK full \in BOOLEAN :
            FineGo(h, [pc |-> IF groups[currentFines[u]].waived # NoId THEN "waive.remove" ELSE "waive.create",
                       user |-> u, group |-> currentFines[u], amount |-> n * FineUnit,
                       waiver |-> groups[currentFines[u]].waived, full |-> full])
      BY <1>4 DEF BeginWaive
    <3> QED BY <2>1, <2>2, <3>1, <3>2 DEF WaiveTask, Waiving
  <2>5. FineTaskHolds(state, fines)
    BY <2>4 DEF FineTaskHolds, WaiveTask, Waiving
  <2> QED BY <1>0, <1>4, <1>B, <2>4, <2>5, KeepsFines, FineTasks DEF BeginWaive
<1>5. ASSUME NEW h \in Handlers, ReadForFines(h) PROVE FinesInv'
  <2>1. fineTask[h] \in Deposit
    BY <1>0, <1>5, FineTaskTypes DEF ReadForFines, FineAt, Pending
  <2>2. PICK state \in Deposit : FineGo(h, state)
    <3>1. PICK clears \in BOOLEAN :
            FineGo(h, [fineTask[h] EXCEPT !.pc = "deposit.commit", !.clears = clears])
      <4> DEFINE clears == ShownBalance(fineTask[h].user)
                             + (IF fineTask[h].overtaken THEN 0 ELSE fineTask[h].amount) >= 0
      <4>1. FineGo(h, [fineTask[h] EXCEPT !.pc = "deposit.commit", !.clears = clears])
        BY <1>5 DEF ReadForFines
      <4>2. clears \in BOOLEAN
        BY <1>0, <2>1 DEF Deposit
      <4> HIDE DEF clears
      <4> QED BY <4>1, <4>2
    <3> QED BY <2>1, <3>1 DEF Deposit, Pending
  <2>3. FineTaskHolds(state, fines)
    BY DEF FineTaskHolds, Deposit, Pending
  <2> QED BY <1>0, <1>5, <1>B, <2>2, <2>3, KeepsFines, FineTasks DEF ReadForFines
<1>6. ASSUME NEW h \in Handlers, NEW w \in WaiverIds, CommitDeposit(h, w) PROVE FinesInv'
  <2> DEFINE deposit == fineTask[h]
  <2>1. deposit \in Deposit
    BY <1>0, <1>6, FineTaskTypes DEF CommitDeposit, FineAt, Pending
  <2>2. PICK next \in FineTask : /\ AfterCommit(h, next, deposit.older)
                                 /\ next.pc \in {"idle", "waive.save"}
    <3>1. CASE deposit.group = NoId
      BY <1>6, <3>1, FineTasks DEF CommitDeposit
    <3>2. CASE deposit.group # NoId
      <4> DEFINE state == [pc |-> "waive.save", user |-> deposit.user, group |-> deposit.group, waiver |-> w,
                           amount |-> deposit.amount, full |-> deposit.full]
      <4>1. state \in WaiveTask
        BY <2>1, <3>2 DEF WaiveTask, Waiving, Deposit
      <4>2. AfterCommit(h, state, deposit.older)
        BY <1>6, <3>2 DEF CommitDeposit
      <4>3. state.pc = "waive.save"
        OBVIOUS
      <4> HIDE DEF state
      <4> QED BY <4>1, <4>2, <4>3, FineTasks
    <3> QED BY <3>1, <3>2
  <2>3. deposit.user \in Users /\ deposit.amount \in Nat /\ deposit.group \in GroupIds \cup {NoId}
    BY <2>1 DEF Deposit
  <2>4. BalancesTypeOK'
    <3>1. debt' \in [Users -> Int] /\ UNCHANGED balanceRow
      BY <1>0, <1>6, <2>3, AddedType DEF CommitDeposit
    <3>2. newest' \in [Users -> Transfers \cup {OtherTransfer}]
      <4>1. (IF deposit.group = NoId THEN OtherTransfer ELSE <<"waiver", w>>) \in Transfers \cup {OtherTransfer}
        BY DEF Transfers
      <4> QED BY <1>0, <1>6, <2>3, <4>1, DatedType DEF CommitDeposit
    <3> QED BY <1>0, <3>1, <3>2 DEF BalancesTypeOK
  <2>5. currentFines' \in [Users -> GroupIds \cup {NoId}]
        /\ \A u \in Users : currentFines'[u] \in {currentFines[u], NoId}
    BY <1>0, <1>6, <2>3 DEF CommitDeposit, FinesTypeOK
  <2>6. waivers' \in [WaiverIds -> {Unused, Gone} \cup Waiver]
    BY <1>0, <1>6, <2>3 DEF CommitDeposit, FinesTypeOK, Waiver
  <2>7. fineTask' \in [Handlers -> FineTask]
    BY <1>0, <2>2, AfterCommitTasks
  <2>8. UNCHANGED <<fines, fineTransfers, groups>>
    BY <1>6 DEF CommitDeposit
  <2>9. FineTaskHolds(next, fines)
    BY <2>2 DEF FineTaskHolds
  <2>10. FineTasksHold'
    <3>1. \A g \in Handlers : FineTaskHolds(fineTask'[g], fines)
      BY <2>2, <2>9, AfterCommitHolds
    <3> QED BY <2>8, <3>1 DEF FineTasksHold
  <2> QED BY <1>0, <2>4, <2>5, <2>6, <2>7, <2>8, <2>10
          DEF FinesInv, FinesTypeOK, BalancesTypeOK, FineIsPaid, GroupsAreThere
<1>7. ASSUME NEW h \in Handlers, LoadFined(h) PROVE FinesInv'
  <2>1. fineTask[h] \in [pc : {"handout.load"}, user : Users, balance : Int]
    BY <1>0, <1>7, FineTaskTypes DEF LoadFined, FineAt
  <2>2. calculateFine(fineTask[h].balance) \in Nat
    BY <2>1, FineAmount
  <2>3. PICK state \in FineTask : FineGo(h, state) /\ state.pc = "handout.commit"
    BY <1>0, <1>7, <2>1, <2>2 DEF LoadFined, FineTask, FinesTypeOK
  <2>4. FineTaskHolds(state, fines)
    BY <2>3 DEF FineTaskHolds
  <2> QED BY <1>0, <1>7, <1>B, <2>3, <2>4, KeepsFines DEF LoadFined
<1>8. ASSUME NEW h \in Handlers, NEW f \in FineIds, NEW g \in GroupIds, CommitFine(h, f, g) PROVE FinesInv'
  <2>1. fineTask[h] \in [pc : {"handout.commit"}, user : Users, amount : Nat, group : GroupIds \cup {NoId}]
    BY <1>0, <1>8, FineTaskTypes DEF CommitFine, FineAt
  <2> DEFINE handout == fineTask[h]
  <2>2. /\ groups' \in [GroupIds -> {Unused, Gone} \cup Group] /\ Exists(groups'[g])
        /\ \A k \in GroupIds : Exists(groups[k]) => Exists(groups'[k])
        /\ currentFines' \in [Users -> GroupIds \cup {NoId}]
        /\ \A u \in Users : currentFines'[u] = currentFines[u] \/ currentFines'[u] = g
    <3>1. CASE handout.group = NoId
      <4>1. [user |-> handout.user, waived |-> NoId] \in Group
        BY <2>1 DEF Group
      <4>2. groups' = [groups EXCEPT ![g] = [user |-> handout.user, waived |-> NoId]]
        BY <1>8, <3>1 DEF CommitFine, FineGroup
      <4>3. groups' \in [GroupIds -> {Unused, Gone} \cup Group] /\ Exists(groups'[g])
            /\ \A k \in GroupIds : Exists(groups[k]) => Exists(groups'[k])
        BY <1>0, <4>1, <4>2, RowsExist DEF FinesTypeOK
      <4> QED BY <1>0, <1>8, <2>1, <3>1, <4>3 DEF CommitFine, FineGroup, FinesTypeOK
    <3>2. CASE handout.group # NoId
      BY <1>0, <1>8, <3>2 DEF CommitFine, FinesTypeOK
    <3> QED BY <3>1, <3>2
  <2>3. BalancesTypeOK'
    <3>1. handout.user \in Users /\ - handout.amount \in Int /\ AddTo(handout.user, - handout.amount)
      BY <1>8, <2>1 DEF CommitFine
    <3>2. debt' \in [Users -> Int] /\ UNCHANGED balanceRow
      BY <1>0, <1>8, <3>1, AddedType DEF CommitFine
    <3>3. <<"fine", f>> \in Transfers \cup {OtherTransfer}
      BY DEF Transfers
    <3>4. newest' \in [Users -> Transfers \cup {OtherTransfer}]
      BY <1>0, <1>8, <3>1, <3>3, DatedType DEF CommitFine
    <3> QED BY <1>0, <3>2, <3>4 DEF BalancesTypeOK
  <2>4. /\ fines' = [fines EXCEPT ![f] = [group |-> g, amount |-> handout.amount]]
        /\ [group |-> g, amount |-> handout.amount] \in Fine /\ fines[f] = Unused
        /\ fineTransfers' = fineTransfers \cup {f} /\ waivers' = waivers
    BY <1>8, <2>1 DEF CommitFine, Fine, NextId
  <2>5. PICK overtaken : AfterCommit(h, Idle, overtaken)
    BY <1>8 DEF CommitFine
  <2>6. fineTask' \in [Handlers -> FineTask]
    BY <1>0, <2>5, AfterCommitTasks, FineTasks
  <2>7. FinesTypeOK'
    BY <1>0, <2>2, <2>3, <2>4, <2>6 DEF FinesTypeOK, BalancesTypeOK
  <2>8. FineIsPaid'
    BY <1>0, <2>4 DEF FineIsPaid, FinesTypeOK
  <2>9. GroupsAreThere'
    <3>1. \A k \in FineIds : Exists(fines[k]) => fines[k].group \in GroupIds
      BY <1>0 DEF FinesTypeOK, Exists, Fine
    <3>2. ASSUME NEW k \in FineIds, Exists(fines'[k]) PROVE Exists(groups'[fines'[k].group])
      <4>1. CASE k = f
        BY <1>0, <2>2, <2>4, <4>1 DEF FinesTypeOK
      <4>2. CASE k # f
        BY <1>0, <2>2, <2>4, <3>1, <3>2, <4>2 DEF FinesTypeOK, GroupsAreThere
      <4> QED BY <4>1, <4>2
    <3>3. ASSUME NEW u \in Users, currentFines'[u] # NoId PROVE Exists(groups'[currentFines'[u]])
      BY <1>0, <2>2, <3>3 DEF FinesTypeOK, GroupsAreThere
    <3> QED BY <3>2, <3>3 DEF GroupsAreThere
  <2>10. FineTasksHold'
    <3>1. \A k \in FineIds : fines[k] = Gone => fines'[k] = Gone
      BY <1>0, <2>4 DEF FinesTypeOK, Unused, Gone
    <3>2. FineTaskHolds(Idle, fines')
      BY DEF FineTaskHolds, Idle
    <3>3. \A k \in Handlers : FineTaskHolds(fineTask'[k], fines')
      BY <2>5, <3>1, <3>2, AfterCommitHolds, FineTasks
    <3> QED BY <3>3 DEF FineTasksHold
  <2> QED BY <2>7, <2>8, <2>9, <2>10 DEF FinesInv
<1>9. ASSUME NEW h \in Handlers, NEW f \in FineIds, LoadFine(h, f) PROVE FinesInv'
  <2>1. fines[f] \in Fine /\ Exists(groups[fines[f].group])
    BY <1>0, <1>9 DEF LoadFine, FinesTypeOK, Exists, GroupsAreThere
  <2>2. fines[f].group \in GroupIds /\ fines[f].amount \in Nat
    BY <2>1 DEF Fine
  <2>3. groups[fines[f].group] \in Group
    BY <1>0, <2>1, <2>2 DEF FinesTypeOK, Exists
  <2>4. groups[fines[f].group].user \in Users
    BY <2>3 DEF Group
  <2>5. PICK state \in DeleteTask : FineGo(h, state) /\ state.pc = "delete.fine"
    BY <1>9, <2>2, <2>4, CountOfGroup DEF LoadFine, DeleteTask, Deleting
  <2>6. FineTaskHolds(state, fines)
    BY <2>5 DEF FineTaskHolds
  <2> QED BY <1>0, <1>9, <1>B, <2>5, <2>6, KeepsFines, FineTasks DEF LoadFine
<1>10. ASSUME NEW h \in Handlers, RemoveFine(h) PROVE FinesInv'
  <2> DEFINE delete == fineTask[h]
  <2>1. delete \in DeleteTask
    BY <1>0, <1>10, FineTaskTypes DEF RemoveFine, FineAt, Deleting
  <2>2. PICK state \in DeleteTask : FineGo(h, state) /\ state.pc = "delete.transfer" /\ state.fine = delete.fine
    BY <1>10, <2>1 DEF RemoveFine, DeleteTask, Deleting
  <2>3. /\ fineTask' \in [Handlers -> FineTask]
        /\ \A g \in Handlers : fineTask'[g] = IF g = h THEN state ELSE fineTask[g]
    BY <1>0, <2>2, FineGoes, FineTasks
  <2>4. /\ delete.fine \in FineIds /\ fines' = [fines EXCEPT ![delete.fine] = Gone]
        /\ UNCHANGED <<debt, balanceRow, newest, currentFines, fineTransfers, groups, waivers>>
    BY <1>10, <2>1 DEF RemoveFine, DeleteTask
  <2>5. FinesTypeOK'
    BY <1>0, <2>3, <2>4 DEF FinesTypeOK
  <2>6. FineIsPaid' /\ GroupsAreThere'
    BY <1>0, <2>4, RowsExist DEF FinesTypeOK, FineIsPaid, GroupsAreThere
  <2>7. ASSUME NEW g \in Handlers PROVE FineTaskHolds(fineTask'[g], fines')
    <3>1. CASE g = h
      BY <1>0, <2>2, <2>3, <2>4, <3>1 DEF FineTaskHolds, FinesTypeOK
    <3>2. CASE g # h
      <4>1. PICK task \in FineTask : task = fineTask[g] /\ task = fineTask'[g] /\ FineTaskHolds(task, fines)
        BY <1>0, <2>3, <3>2
      <4>2. task.pc = "delete.transfer" => task.fine \in FineIds
        BY FineTaskTypes DEF Deleting, DeleteTask
      <4>3. \A k \in FineIds : fines[k] = Gone => fines'[k] = Gone
        BY <1>0, <2>4 DEF FinesTypeOK
      <4> QED BY <4>1, <4>2, <4>3 DEF FineTaskHolds
    <3> QED BY <3>1, <3>2
  <2> QED BY <2>5, <2>6, <2>7 DEF FinesInv, FineTasksHold
<1>11. ASSUME NEW h \in Handlers, RemoveTransfer(h) PROVE FinesInv'
  <2> DEFINE delete == fineTask[h]
  <2>1. delete \in DeleteTask /\ fines[delete.fine] = Gone
    BY <1>0, <1>11, FineTaskTypes DEF RemoveTransfer, FineAt, Deleting, FineTaskHolds
  <2>2. PICK state \in DeleteTask : FineGo(h, state) /\ state.pc = "delete.group"
    BY <1>11, <2>1 DEF RemoveTransfer, DeleteTask, Deleting
  <2>3. /\ fineTask' \in [Handlers -> FineTask]
        /\ \A g \in Handlers : fineTask'[g] = IF g = h THEN state ELSE fineTask[g]
    BY <1>0, <2>2, FineGoes, FineTasks
  <2>4. delete.fine \in FineIds /\ delete.user \in Users /\ delete.amount \in Nat
    BY <2>1 DEF DeleteTask
  <2>5. /\ fineTransfers' = fineTransfers \ {delete.fine}
        /\ UNCHANGED <<currentFines, fines, groups, waivers>>
    BY <1>11 DEF RemoveTransfer
  <2>6. BalancesTypeOK'
    <3>1. <<"fine", delete.fine>> \in Transfers
      BY <2>4 DEF Transfers
    <3>2. CASE delete.fine \in fineTransfers
      BY <1>0, <1>11, <2>4, <3>1, <3>2, RemoveTypes DEF RemoveTransfer
    <3>3. CASE delete.fine \notin fineTransfers
      BY <1>0, <1>11, <3>3 DEF RemoveTransfer, BalancesTypeOK
    <3> QED BY <3>2, <3>3
  <2>7. FinesTypeOK' /\ GroupsAreThere'
    BY <1>0, <2>3, <2>5, <2>6 DEF FinesTypeOK, BalancesTypeOK, GroupsAreThere
  <2>8. FineIsPaid'
    BY <1>0, <2>1, <2>5, RowsExist DEF FineIsPaid
  <2>9. FineTasksHold'
    BY <1>0, <2>2, <2>3, <2>5 DEF FineTasksHold, FineTaskHolds
  <2> QED BY <2>7, <2>8, <2>9 DEF FinesInv
<1>12. ASSUME NEW h \in Handlers, RemoveGroup(h) PROVE FinesInv'
  <2> DEFINE delete == fineTask[h]
  <2> DEFINE g == delete.group
  <2>1. delete \in DeleteTask
    BY <1>0, <1>12, FineTaskTypes DEF RemoveGroup, FineAt, Deleting
  <2>2. PICK state \in FineTask : FineGo(h, state) /\ state.pc \in {"delete.current", "idle"}
    <3>1. CASE delete.count > 1
      <4>1. [delete EXCEPT !.pc = "delete.current"] \in DeleteTask
        BY <2>1 DEF DeleteTask, Deleting
      <4>2. [delete EXCEPT !.pc = "delete.current"].pc = "delete.current"
        BY <2>1 DEF DeleteTask
      <4>3. FineGo(h, [delete EXCEPT !.pc = "delete.current"])
        BY <1>12, <3>1 DEF RemoveGroup
      <4> QED BY <4>1, <4>2, <4>3, FineTasks
    <3>2. CASE ~ (delete.count > 1)
      BY <1>12, <3>2, FineTasks DEF RemoveGroup
    <3> QED BY <3>1, <3>2
  <2>3. FineTaskHolds(state, fines)
    BY <2>2 DEF FineTaskHolds
  <2>4. UNCHANGED <<fines, fineTransfers, waivers>> /\ BalancesTypeOK'
    BY <1>0, <1>12 DEF RemoveGroup, BalancesTypeOK
  <2>5. CASE UNCHANGED <<groups, currentFines>>
    BY <1>0, <2>2, <2>3, <2>4, <2>5, KeepsFines
  <2>6. CASE ~ UNCHANGED <<groups, currentFines>>
    <3>1. /\ OfGroup(g) = {} /\ groups' = [groups EXCEPT ![g] = Gone]
          /\ currentFines' = [u \in Users |-> IF currentFines[u] = g THEN NoId ELSE currentFines[u]]
      BY <1>12, <2>6 DEF RemoveGroup
    <3>2. /\ fineTask' \in [Handlers -> FineTask]
          /\ \A k \in Handlers : fineTask'[k] = IF k = h THEN state ELSE fineTask[k]
      BY <1>0, <2>2, FineGoes
    <3>3. FinesTypeOK'
      BY <1>0, <2>4, <3>1, <3>2 DEF FinesTypeOK, BalancesTypeOK
    <3>4. FineIsPaid'
      BY <1>0, <2>4 DEF FineIsPaid
    <3>5. FineTasksHold'
      BY <1>0, <2>3, <2>4, <3>2 DEF FineTasksHold
    <3>6. \A k \in GroupIds : k # g => groups'[k] = groups[k]
      BY <1>0, <3>1 DEF FinesTypeOK
    <3>7. ASSUME NEW f \in FineIds, Exists(fines[f]) PROVE Exists(groups'[fines[f].group])
      <4>1. fines[f].group # g
        BY <3>1, <3>7 DEF OfGroup, RowsOf
      <4>2. fines[f].group \in GroupIds
        BY <1>0, <3>7 DEF FinesTypeOK, Exists, Fine
      <4> QED BY <1>0, <3>6, <3>7, <4>1, <4>2 DEF GroupsAreThere
    <3>8. ASSUME NEW u \in Users, currentFines'[u] # NoId PROVE Exists(groups'[currentFines'[u]])
      <4>1. currentFines'[u] = currentFines[u] /\ currentFines[u] # g /\ currentFines[u] \in GroupIds
        BY <1>0, <3>1, <3>8 DEF FinesTypeOK
      <4> QED BY <1>0, <3>6, <3>8, <4>1 DEF GroupsAreThere
    <3>9. GroupsAreThere'
      BY <2>4, <3>7, <3>8 DEF GroupsAreThere
    <3> QED BY <3>3, <3>4, <3>5, <3>9 DEF FinesInv
  <2> QED BY <2>5, <2>6
<1>13. ASSUME NEW h \in Handlers, ForgetFines(h) \/ ForgetWaived(h) PROVE FinesInv'
  <2>1. FineGo(h, Idle) /\ UNCHANGED <<debt, balanceRow, newest, fines, fineTransfers, groups, waivers>>
    BY <1>13 DEF ForgetFines, ForgetWaived
  <2>2. /\ currentFines' \in [Users -> GroupIds \cup {NoId}]
        /\ \A u \in Users : currentFines'[u] \in {currentFines[u], NoId}
    BY <1>0, <1>13 DEF ForgetFines, ForgetWaived, FinesTypeOK
  <2>3. /\ fineTask' \in [Handlers -> FineTask]
        /\ \A k \in Handlers : fineTask'[k] = IF k = h THEN Idle ELSE fineTask[k]
    BY <1>0, <2>1, FineGoes, FineTasks
  <2>4. FinesTypeOK' /\ FineIsPaid' /\ GroupsAreThere'
    BY <1>0, <2>1, <2>2, <2>3 DEF FinesTypeOK, FineIsPaid, GroupsAreThere
  <2>5. FineTasksHold'
    BY <1>0, <2>1, <2>3 DEF FineTasksHold, FineTaskHolds, Idle
  <2> QED BY <2>4, <2>5 DEF FinesInv
<1>14. ASSUME NEW h \in Handlers, RemoveWaived(h) PROVE FinesInv'
  <2> DEFINE waive == fineTask[h]
  <2>1. waive \in WaiveTask /\ waive.waiver # NoId
    BY <1>0, <1>14, FineTaskTypes DEF RemoveWaived, FineAt, Waiving, FineTaskHolds
  <2>2. waive.waiver \in WaiverIds /\ waive.user \in Users
    BY <2>1 DEF WaiveTask
  <2>3. PICK state \in WaiveTask : FineGo(h, state) /\ state.pc = "waive.create"
    BY <1>14, <2>1 DEF RemoveWaived, WaiveTask, Waiving
  <2>4. FineTaskHolds(state, fines)
    BY <2>3 DEF FineTaskHolds
  <2>5. UNCHANGED <<currentFines, fines, fineTransfers>>
    BY <1>14 DEF RemoveWaived
  <2>6. BalancesTypeOK' /\ waivers' \in [WaiverIds -> {Unused, Gone} \cup Waiver]
    <3>1. CASE Exists(waivers[waive.waiver])
      <4>1. waivers[waive.waiver] \in Waiver
        BY <1>0, <2>2, <3>1 DEF FinesTypeOK, Exists
      <4>2. - waivers[waive.waiver].amount \in Int
        BY <4>1 DEF Waiver
      <4>3. <<"waiver", waive.waiver>> \in Transfers
        BY <2>2 DEF Transfers
      <4>4. BalancesTypeOK'
        BY <1>0, <1>14, <2>2, <3>1, <4>2, <4>3, RemoveTypes DEF RemoveWaived
      <4>5. waivers' \in [WaiverIds -> {Unused, Gone} \cup Waiver]
        BY <1>0, <1>14, <2>2, <3>1 DEF RemoveWaived, FinesTypeOK
      <4> QED BY <4>4, <4>5
    <3>2. CASE ~ Exists(waivers[waive.waiver])
      BY <1>0, <1>14, <3>2 DEF RemoveWaived, FinesTypeOK, BalancesTypeOK
    <3> QED BY <3>1, <3>2
  <2>7. \A g \in GroupIds : /\ groups'[g] \in {Unused, Gone} \cup Group
                            /\ Exists(groups[g]) => Exists(groups'[g])
    <3> TAKE g \in GroupIds
    <3>1. CASE Exists(groups[g]) /\ groups[g].waived = waive.waiver
      <4>1. groups[g] \in Group
        BY <1>0, <3>1 DEF FinesTypeOK, Exists
      <4>2. groups'[g] = [groups[g] EXCEPT !.waived = NoId]
        BY <1>14, <3>1 DEF RemoveWaived
      <4>3. groups'[g] \in Group
        BY <4>1, <4>2 DEF Group
      <4> QED BY <4>3, RowsExist
    <3>2. CASE ~ (Exists(groups[g]) /\ groups[g].waived = waive.waiver)
      <4>1. groups'[g] = groups[g]
        BY <1>14, <3>2 DEF RemoveWaived
      <4> QED BY <1>0, <4>1 DEF FinesTypeOK
    <3> QED BY <3>1, <3>2
  <2>8. groups' \in [GroupIds -> {Unused, Gone} \cup Group]
    <3>1. groups' = [g \in GroupIds |-> groups'[g]]
      BY <1>14 DEF RemoveWaived
    <3> QED BY <2>7, <3>1
  <2>9. /\ fineTask' \in [Handlers -> FineTask]
        /\ \A g \in Handlers : fineTask'[g] = IF g = h THEN state ELSE fineTask[g]
    BY <1>0, <2>3, FineGoes, FineTasks
  <2>10. FinesTypeOK'
    BY <1>0, <2>5, <2>6, <2>8, <2>9 DEF FinesTypeOK, BalancesTypeOK
  <2>11. FineIsPaid' /\ FineTasksHold'
    BY <1>0, <2>4, <2>5, <2>9 DEF FineIsPaid, FineTasksHold
  <2>12. GroupsAreThere'
    <3>1. \A f \in FineIds : Exists(fines[f]) => fines[f].group \in GroupIds
      BY <1>0 DEF FinesTypeOK, Exists, Fine
    <3> QED BY <1>0, <2>5, <2>7, <3>1 DEF FinesTypeOK, GroupsAreThere
  <2> QED BY <2>10, <2>11, <2>12 DEF FinesInv
<1>15. ASSUME NEW h \in Handlers, CreateWaiver(h) PROVE FinesInv'
  <2>1. fineTask[h] \in WaiveTask
    BY <1>0, <1>15, FineTaskTypes DEF CreateWaiver, FineAt, Waiving
  <2>2. PICK state \in Deposit : FineGo(h, state)
    <3>1. fineTask[h].user \in Users /\ fineTask[h].amount \in Nat
          /\ fineTask[h].group \in GroupIds \cup {NoId} /\ fineTask[h].full \in BOOLEAN
      BY <2>1 DEF WaiveTask
    <3> QED BY <1>15, <3>1, InsertedState DEF CreateWaiver
  <2>3. FineTaskHolds(state, fines)
    BY DEF FineTaskHolds, Deposit, Pending
  <2> QED BY <1>0, <1>15, <1>B, <2>2, <2>3, KeepsFines, FineTasks DEF CreateWaiver
<1>16. ASSUME NEW h \in Handlers, SaveWaived(h) PROVE FinesInv'
  <2> DEFINE waive == fineTask[h]
  <2> DEFINE g == waive.group
  <2>1. waive \in WaiveTask
    BY <1>0, <1>16, FineTaskTypes DEF SaveWaived, FineAt, Waiving
  <2>2. g \in GroupIds /\ waive.waiver \in WaiverIds \cup {NoId} /\ waive.full \in BOOLEAN
    BY <2>1 DEF WaiveTask
  <2>3. PICK state \in FineTask : FineGo(h, state) /\ state.pc \in {"idle", "waive.current"}
    <3>1. CASE waive.full
      <4>1. /\ [waive EXCEPT !.pc = "waive.current"] \in WaiveTask
            /\ [waive EXCEPT !.pc = "waive.current"].pc = "waive.current"
        BY <2>1 DEF WaiveTask, Waiving
      <4>2. FineGo(h, [waive EXCEPT !.pc = "waive.current"])
        BY <1>16, <3>1 DEF SaveWaived
      <4> QED BY <4>1, <4>2, FineTasks
    <3>2. CASE ~ waive.full
      <4>1. FineGo(h, Idle)
        BY <1>16, <3>2 DEF SaveWaived
      <4> QED BY <4>1, FineTasks
    <3> QED BY <3>1, <3>2
  <2>4. FineTaskHolds(state, fines)
    BY <2>3 DEF FineTaskHolds
  <2>5. UNCHANGED <<debt, balanceRow, newest, currentFines, fines, fineTransfers, waivers>>
    BY <1>16 DEF SaveWaived
  <2>6. /\ groups' \in [GroupIds -> {Unused, Gone} \cup Group]
        /\ \A k \in GroupIds : Exists(groups[k]) => Exists(groups'[k])
    <3>1. CASE Exists(groups[g])
      <4>1. groups[g] \in Group
        BY <1>0, <2>2, <3>1 DEF FinesTypeOK, Exists
      <4>2. [groups[g] EXCEPT !.waived = waive.waiver] \in Group
        BY <2>2, <4>1 DEF Group
      <4>3. groups' = [groups EXCEPT ![g] = [groups[g] EXCEPT !.waived = waive.waiver]]
        BY <1>16, <3>1 DEF SaveWaived
      <4> QED BY <1>0, <2>2, <4>2, <4>3, RowsExist DEF FinesTypeOK
    <3>2. CASE ~ Exists(groups[g])
      BY <1>0, <1>16, <3>2 DEF SaveWaived, FinesTypeOK
    <3> QED BY <3>1, <3>2
  <2>7. /\ fineTask' \in [Handlers -> FineTask]
        /\ \A k \in Handlers : fineTask'[k] = IF k = h THEN state ELSE fineTask[k]
    BY <1>0, <2>3, FineGoes
  <2>8. FinesTypeOK' /\ FineIsPaid'
    BY <1>0, <2>5, <2>6, <2>7 DEF FinesTypeOK, FineIsPaid
  <2>9. FineTasksHold'
    BY <1>0, <2>4, <2>5, <2>7 DEF FineTasksHold
  <2>10. GroupsAreThere'
    <3>1. \A f \in FineIds : Exists(fines[f]) => fines[f].group \in GroupIds
      BY <1>0 DEF FinesTypeOK, Exists, Fine
    <3> QED BY <1>0, <2>5, <2>6, <3>1 DEF FinesTypeOK, GroupsAreThere
  <2> QED BY <2>8, <2>9, <2>10 DEF FinesInv
<1>17. ASSUME NEW h \in Handlers, FineFails(h) PROVE FinesInv'
  <2>1. AfterCommit(h, Idle, {}) /\ UNCHANGED fineTables
    BY <1>17 DEF FineFails
  <2>2. fineTask' \in [Handlers -> FineTask]
    BY <1>0, <2>1, AfterCommitTasks, FineTasks
  <2>3. FineTaskHolds(Idle, fines)
    BY DEF FineTaskHolds, Idle
  <2>4. \A g \in Handlers : FineTaskHolds(fineTask'[g], fines)
    BY <2>1, <2>3, AfterCommitHolds, FineTasks
  <2> QED BY <1>0, <2>1, <2>2, <2>4
          DEF fineTables, FinesInv, FinesTypeOK, FineIsPaid, GroupsAreThere, FineTasksHold
<1>18. ASSUME UNCHANGED finesVars PROVE FinesInv'
  BY <1>0, <1>18 DEF finesVars, FinesInv, FinesTypeOK, FineIsPaid, GroupsAreThere, FineTasksHold, FineTaskHolds
<1> QED BY <1>1, <1>2, <1>3, <1>4, <1>5, <1>6, <1>7, <1>8, <1>9, <1>10, <1>11, <1>12, <1>13, <1>14, <1>15,
           <1>16, <1>17, <1>18, <1>U
        DEF FinesNext, FinesStep

LEMMA FinesInvAlways == FinesSpec => []FinesInv
<1>1. FinesInit => FinesInv
  BY FinesInitInv
<1>2. FinesInv /\ [FinesNext]_finesVars => FinesInv'
  BY FinesStepInv
<1> QED BY <1>1, <1>2, PTL DEF FinesSpec

(***************************************************************************)
(* Whatever interleaves and fails, the balances, the fines and their       *)
(* groups, the waivers and the requests keep their types: no fine is ever  *)
(* without its group.                                                      *)
(***************************************************************************)
THEOREM FinesTypeCorrect == FinesSpec => []FinesTypeOK
<1>1. FinesInv => FinesTypeOK
  BY DEF FinesInv
<1> QED BY <1>1, FinesInvAlways, PTL

(***************************************************************************)
(* handOutFines and deleteFine, any number at once and cut off anywhere: a *)
(* fine that exists has its transfer.                                      *)
(***************************************************************************)
THEOREM FineIsPaidAlways == FinesSpec => []FineIsPaid
<1>1. FinesInv => FineIsPaid
  BY DEF FinesInv
<1> QED BY <1>1, FinesInvAlways, PTL
-----------------------------------------------------------------------------
(***************************************************************************)
(* One request at a time: a deposit that is about to be committed clears   *)
(* the fines, or there are none, or a debt is still shown.  Purchases made *)
(* since it was decided only make the debt larger, and the nightly update  *)
(* waits for the deposit.                                                  *)
(***************************************************************************)
ClearsInTime(task, shown, current) ==
  /\ task.pc \in Pending => ~ task.overtaken
  /\ task.pc = "deposit.commit" =>
       task.clears \/ current[task.user] = NoId \/ shown[task.user] + task.amount < 0

ShownBalances == [u \in Users |-> ShownBalance(u)]

ClearsInv == \A h \in Handlers : ClearsInTime(fineTask[h], ShownBalances, currentFines)

PaidClears == \A u \in Users : Clears(u) /\ ShownBalance(u) >= debt[u] => currentFines'[u] = NoId

LEMMA ShownIs ==
  ASSUME FinesTypeOK
  PROVE  \A u \in Users : debt[u] \in Int /\ balanceRow[u].error \in Int /\ ShownBalances[u] = debt[u] + balanceRow[u].error
<1>1. \A u \in Users : balanceRow[u] \in BalanceRow
  BY DEF FinesTypeOK
<1> QED BY <1>1 DEF FinesTypeOK, BalanceRow, ShownBalances, ShownBalance

LEMMA OnlyFineTask ==
  ASSUME \A g, h \in Handlers : g = h, FinesTypeOK, NEW h \in Handlers, NEW state \in FineTask,
         FineGo(h, state) \/ (\E overtaken : AfterCommit(h, state, overtaken)),
         ClearsInTime(state, ShownBalances', currentFines')
  PROVE  ClearsInv'
<1>1. fineTask'[h] = state
  <2>1. CASE FineGo(h, state)
    BY <2>1, FineGoes
  <2>2. CASE \E overtaken : AfterCommit(h, state, overtaken)
    BY <2>2 DEF AfterCommit
  <2> QED BY <2>1, <2>2
<1>2. \A g \in Handlers : ClearsInTime(fineTask'[g], ShownBalances', currentFines')
  BY <1>1
<1> QED BY <1>2 DEF ClearsInv

LEMMA OtherTask ==
  ASSUME NEW state, state.pc \notin Pending, NEW shown, NEW current
  PROVE  ClearsInTime(state, shown, current)
BY DEF ClearsInTime, Pending

LEMMA InsertedClears ==
  ASSUME NEW u \in Users, NEW amount \in Nat, NEW g \in GroupIds \cup {NoId}, NEW full \in BOOLEAN,
         NEW h \in Handlers, Inserted(h, u, amount, g, full)
  PROVE  \E state \in Deposit : FineGo(h, state) /\ ClearsInTime(state, ShownBalances, currentFines)
<1>1. PICK pc \in Pending, older \in SUBSET Handlers :
        /\ pc = IF currentFines[u] = NoId THEN "deposit.commit" ELSE "deposit.read"
        /\ FineGo(h, [pc |-> pc, user |-> u, amount |-> amount, clears |-> FALSE, older |-> older,
                      overtaken |-> FALSE, group |-> g, full |-> full])
  <2> DEFINE pc    == IF currentFines[u] = NoId THEN "deposit.commit" ELSE "deposit.read"
  <2> DEFINE older == {k \in Handlers : fineTask[k].pc \in Pending /\ fineTask[k].user = u}
  <2>1. pc \in Pending /\ older \in SUBSET Handlers
    BY DEF Pending
  <2>2. FineGo(h, [pc |-> pc, user |-> u, amount |-> amount, clears |-> FALSE, older |-> older,
                   overtaken |-> FALSE, group |-> g, full |-> full])
    BY DEF Inserted
  <2>3. pc = IF currentFines[u] = NoId THEN "deposit.commit" ELSE "deposit.read"
    OBVIOUS
  <2> HIDE DEF pc, older
  <2> QED BY <2>1, <2>2, <2>3
<1> DEFINE state == [pc |-> pc, user |-> u, amount |-> amount, clears |-> FALSE, older |-> older,
                     overtaken |-> FALSE, group |-> g, full |-> full]
<1>2. state \in Deposit
  BY DEF Deposit
<1>3. ClearsInTime(state, ShownBalances, currentFines)
  BY <1>1 DEF ClearsInTime
<1> QED BY <1>1, <1>2, <1>3

LEMMA FinesNextClears ==
  ASSUME \A g, h \in Handlers : g = h, FinesInv, ClearsInv, [FinesNext]_finesVars
  PROVE  ClearsInv' /\ PaidClears
<1>0. /\ FinesTypeOK
      /\ \A h \in Handlers : fineTask[h] \in FineTask /\ ClearsInTime(fineTask[h], ShownBalances, currentFines)
      /\ debt \in [Users -> Int] /\ currentFines \in [Users -> GroupIds \cup {NoId}]
  BY DEF FinesInv, FinesTypeOK, ClearsInv
<1>L. ASSUME \A v \in Users : debt'[v] <= debt[v] PROVE PaidClears
  <2>1. debt' \in [Users -> Int]
    BY FinesStepInv DEF FinesInv, FinesTypeOK
  <2> QED BY <1>0, <1>L, <2>1 DEF PaidClears, Clears
<1>K. ASSUME UNCHANGED debt PROVE PaidClears
  BY <1>0, <1>K, <1>L
<1>T. ASSUME UNCHANGED fineTables PROVE ShownBalances' = ShownBalances /\ UNCHANGED <<debt, currentFines>>
  BY <1>T DEF fineTables, ShownBalances, ShownBalance
<1>1. ASSUME NEW u \in Users, NEW amount \in Moves, Purchase(u, amount) PROVE ClearsInv' /\ PaidClears
  <2>1. amount \in Nat
    BY FinesAssumption
  <2>2. \A v \in Users : debt'[v] <= debt[v] /\ debt'[v] \in Int
    BY <1>0, <1>1, <2>1 DEF Purchase, AddTo
  <2>3. UNCHANGED <<balanceRow, currentFines, fineTask>>
    BY <1>1 DEF Purchase
  <2>4. PaidClears
    BY <1>L, <2>2
  <2>S. \A v \in Users : ShownBalances'[v] <= ShownBalances[v] /\ ShownBalances'[v] \in Int /\ ShownBalances[v] \in Int
    BY <1>0, <2>2, <2>3, ShownIs DEF ShownBalances, ShownBalance
  <2>5. ASSUME NEW h \in Handlers PROVE ClearsInTime(fineTask'[h], ShownBalances', currentFines')
    <3>1. PICK task \in FineTask : task = fineTask[h] /\ task = fineTask'[h]
      BY <1>0, <2>3
    <3>2. ClearsInTime(task, ShownBalances, currentFines)
      BY <1>0, <3>1
    <3>3. CASE task.pc = "deposit.commit"
      <4>1. task.user \in Users /\ task.amount \in Nat
        BY <3>3, FineTaskTypes DEF Pending, Deposit
      <4>2. ShownBalances[task.user] + task.amount < 0 => ShownBalances'[task.user] + task.amount < 0
        BY <2>S, <4>1
      <4> QED BY <2>3, <3>1, <3>2, <4>2 DEF ClearsInTime
    <3>4. CASE task.pc # "deposit.commit"
      BY <3>1, <3>2, <3>4 DEF ClearsInTime
    <3> QED BY <3>3, <3>4
  <2> QED BY <2>4, <2>5 DEF ClearsInv
<1>2. ASSUME NEW h \in Handlers, NEW u \in Users, NEW amount \in Moves, InsertDeposit(h, u, amount)
      PROVE  ClearsInv' /\ PaidClears
  <2>1. PICK state \in Deposit : FineGo(h, state) /\ ClearsInTime(state, ShownBalances, currentFines)
    BY <1>2, InsertedClears, FinesAssumption DEF InsertDeposit
  <2>2. ShownBalances' = ShownBalances /\ UNCHANGED <<debt, currentFines>>
    BY <1>2, <1>T DEF InsertDeposit
  <2> QED BY <1>0, <1>K, <2>1, <2>2, OnlyFineTask, FineTasks
<1>3. ASSUME NEW h \in Handlers, CreateWaiver(h) PROVE ClearsInv' /\ PaidClears
  <2>1. fineTask[h] \in WaiveTask
    BY <1>0, <1>3, FineTaskTypes DEF CreateWaiver, FineAt, Waiving
  <2>2. fineTask[h].user \in Users /\ fineTask[h].amount \in Nat
        /\ fineTask[h].group \in GroupIds \cup {NoId} /\ fineTask[h].full \in BOOLEAN
    BY <2>1 DEF WaiveTask
  <2>3. PICK state \in Deposit : FineGo(h, state) /\ ClearsInTime(state, ShownBalances, currentFines)
    BY <1>3, <2>2, InsertedClears DEF CreateWaiver
  <2>4. ShownBalances' = ShownBalances /\ UNCHANGED <<debt, currentFines>>
    BY <1>3, <1>T DEF CreateWaiver
  <2> QED BY <1>0, <1>K, <2>3, <2>4, OnlyFineTask, FineTasks
<1>4. ASSUME NEW h \in Handlers, ReadForFines(h) PROVE ClearsInv' /\ PaidClears
  <2>1. fineTask[h] \in Deposit /\ ~ fineTask[h].overtaken
    BY <1>0, <1>4, FineTaskTypes DEF ReadForFines, FineAt, Pending, ClearsInTime
  <2>2. fineTask[h].user \in Users /\ fineTask[h].amount \in Nat
    BY <2>1 DEF Deposit
  <2>3. PICK clears \in BOOLEAN :
          /\ FineGo(h, [fineTask[h] EXCEPT !.pc = "deposit.commit", !.clears = clears])
          /\ clears \/ ShownBalances[fineTask[h].user] + fineTask[h].amount < 0
    <3> DEFINE clears == ShownBalance(fineTask[h].user)
                           + (IF fineTask[h].overtaken THEN 0 ELSE fineTask[h].amount) >= 0
    <3>1. FineGo(h, [fineTask[h] EXCEPT !.pc = "deposit.commit", !.clears = clears])
      BY <1>4 DEF ReadForFines
    <3>2. clears \in BOOLEAN /\ (clears \/ ShownBalances[fineTask[h].user] + fineTask[h].amount < 0)
      BY <1>0, <2>1, <2>2, ShownIs DEF ShownBalances
    <3> HIDE DEF clears
    <3> QED BY <3>1, <3>2
  <2> DEFINE state == [fineTask[h] EXCEPT !.pc = "deposit.commit", !.clears = clears]
  <2>4. state \in Deposit
    BY <2>1 DEF Deposit, Pending
  <2>5. ClearsInTime(state, ShownBalances, currentFines)
    <3>1. state.pc = "deposit.commit" /\ state.user = fineTask[h].user /\ state.amount = fineTask[h].amount
          /\ state.clears = clears /\ state.overtaken = fineTask[h].overtaken
      BY <2>1 DEF Deposit
    <3> HIDE DEF state
    <3> QED BY <2>1, <2>3, <3>1 DEF ClearsInTime
  <2>6. ShownBalances' = ShownBalances /\ UNCHANGED <<debt, currentFines>>
    BY <1>4, <1>T DEF ReadForFines
  <2> HIDE DEF state
  <2>7. FineGo(h, state)
    BY <2>3 DEF state
  <2> QED BY <1>0, <1>K, <2>4, <2>5, <2>6, <2>7, OnlyFineTask, FineTasks
<1>5. ASSUME NEW h \in Handlers, NEW w \in WaiverIds, CommitDeposit(h, w) PROVE ClearsInv' /\ PaidClears
  <2> DEFINE deposit == fineTask[h]
  <2>1. deposit \in Deposit /\ deposit.pc = "deposit.commit"
    BY <1>0, <1>5, FineTaskTypes DEF CommitDeposit, FineAt, Pending
  <2>2. PICK next \in FineTask : /\ AfterCommit(h, next, deposit.older)
                                 /\ next.pc \in {"idle", "waive.save"}
    <3>1. CASE deposit.group = NoId
      BY <1>5, <3>1, FineTasks DEF CommitDeposit
    <3>2. CASE deposit.group # NoId
      <4> DEFINE state == [pc |-> "waive.save", user |-> deposit.user, group |-> deposit.group, waiver |-> w,
                           amount |-> deposit.amount, full |-> deposit.full]
      <4>1. state \in WaiveTask
        BY <2>1, <3>2 DEF WaiveTask, Waiving, Deposit
      <4>2. AfterCommit(h, state, deposit.older)
        BY <1>5, <3>2 DEF CommitDeposit
      <4>3. state.pc = "waive.save"
        OBVIOUS
      <4> HIDE DEF state
      <4> QED BY <4>1, <4>2, <4>3, FineTasks
    <3> QED BY <3>1, <3>2
  <2>3. ClearsInTime(next, ShownBalances', currentFines')
    BY <2>2 DEF ClearsInTime, Pending
  <2>4. ClearsInv'
    BY <1>0, <2>2, <2>3, OnlyFineTask
  <2>5. deposit.user \in Users /\ deposit.amount \in Nat /\ deposit.clears \in BOOLEAN
    BY <2>1 DEF Deposit
  <2>6. deposit.clears \/ currentFines[deposit.user] = NoId \/ ShownBalances[deposit.user] + deposit.amount < 0
    BY <1>0, <2>1 DEF ClearsInTime
  <2>7. /\ debt' = [debt EXCEPT ![deposit.user] = @ + deposit.amount]
        /\ currentFines' = IF deposit.clears THEN [currentFines EXCEPT ![deposit.user] = NoId] ELSE currentFines
    BY <1>5 DEF CommitDeposit, AddTo
  <2>8. ASSUME NEW u \in Users, Clears(u), ShownBalance(u) >= debt[u] PROVE currentFines'[u] = NoId
    <3>1. u = deposit.user /\ debt[u] + deposit.amount >= 0
      BY <1>0, <2>5, <2>7, <2>8 DEF Clears
    <3>2. ShownBalances[u] + deposit.amount >= 0
      BY <1>0, <2>5, <2>8, <3>1, ShownIs DEF ShownBalances
    <3>3. deposit.clears \/ currentFines[u] = NoId
      BY <1>0, <2>5, <2>6, <3>1, <3>2, ShownIs
    <3> QED BY <1>0, <2>7, <3>1, <3>3
  <2>9. PaidClears
    BY <2>8 DEF PaidClears
  <2> QED BY <2>4, <2>9
<1>6. ASSUME NEW h \in Handlers, NEW f \in FineIds, NEW g \in GroupIds, CommitFine(h, f, g)
      PROVE  ClearsInv' /\ PaidClears
  <2>1. fineTask[h] \in [pc : {"handout.commit"}, user : Users, amount : Nat, group : GroupIds \cup {NoId}]
    BY <1>0, <1>6, FineTaskTypes DEF CommitFine, FineAt
  <2>2. \A v \in Users : debt'[v] <= debt[v] /\ debt'[v] \in Int
    BY <1>0, <1>6, <2>1 DEF CommitFine, AddTo
  <2>3. PaidClears
    BY <1>L, <2>2
  <2>4. PICK overtaken : AfterCommit(h, Idle, overtaken)
    BY <1>6 DEF CommitFine
  <2>5. ClearsInTime(Idle, ShownBalances', currentFines')
    BY OtherTask, FineTasks DEF Pending
  <2> QED BY <1>0, <2>3, <2>4, <2>5, OnlyFineTask, FineTasks
<1>7. ASSUME NEW h \in Handlers, NEW state \in FineTask, FineGo(h, state), state.pc \notin Pending
      PROVE  ClearsInv'
  <2>1. ClearsInTime(state, ShownBalances', currentFines')
    BY <1>7, OtherTask
  <2> QED BY <1>0, <1>7, <2>1, OnlyFineTask
<1>8. ASSUME NEW h \in Handlers, NEW u \in Users, NEW balance \in PastBalances, BeginHandout(h, u, balance)
      PROVE  ClearsInv' /\ PaidClears
  <2>1. PICK state \in FineTask : FineGo(h, state) /\ state.pc \notin Pending
    BY <1>8, HandoutState DEF Pending
  <2> QED BY <1>7, <1>8, <1>K, <2>1 DEF BeginHandout, fineTables
<1>9. ASSUME NEW h \in Handlers, NEW u \in Users, NEW n \in 1 .. (MaxFine \div FineUnit),
             BeginWaive(h, u, n * FineUnit)
      PROVE  ClearsInv' /\ PaidClears
  <2>1. FinesInv'
    BY FinesStepInv
  <2>2. fineTask'[h] \in FineTask
    BY <2>1 DEF FinesInv, FinesTypeOK
  <2>3. FineGo(h, fineTask'[h]) /\ fineTask'[h].pc \in Waiving
    BY <1>0, <1>9 DEF BeginWaive, FineGo, FinesTypeOK, Waiving
  <2>4. fineTask'[h].pc \notin Pending
    BY <2>3 DEF Waiving, Pending
  <2>5. ClearsInTime(fineTask'[h], ShownBalances', currentFines')
    BY <2>4, OtherTask
  <2>6. ClearsInv'
    BY <2>5 DEF ClearsInv
  <2> QED BY <1>9, <1>K, <2>6 DEF BeginWaive, fineTables
<1>10. ASSUME NEW h \in Handlers, \/ LoadFined(h) \/ (\E f \in FineIds : LoadFine(h, f))
                                  \/ RemoveFine(h) \/ RemoveGroup(h) \/ ForgetFines(h) \/ SaveWaived(h)
                                  \/ ForgetWaived(h) \/ RemoveTransfer(h) \/ RemoveWaived(h)
       PROVE  ClearsInv'
  <2>1. fineTask'[h].pc \notin Pending
    <3>1. PICK task : task = fineTask[h] /\ task \in FineTask
      BY <1>0
    <3>2. CASE LoadFined(h) \/ (\E f \in FineIds : LoadFine(h, f))
      BY <1>0, <3>2 DEF LoadFined, LoadFine, FineGo, FinesTypeOK, Pending
    <3>3. CASE ForgetFines(h) \/ ForgetWaived(h)
      BY <1>0, <3>3 DEF ForgetFines, ForgetWaived, FineGo, FinesTypeOK, Pending, Idle
    <3>4. CASE RemoveFine(h) \/ RemoveTransfer(h) \/ RemoveGroup(h)
      <4>1. task \in DeleteTask
        BY <3>1, <3>4, FineTaskTypes DEF RemoveFine, RemoveTransfer, RemoveGroup, FineAt, Deleting
      <4>2. /\ [task EXCEPT !.pc = "delete.transfer"].pc = "delete.transfer"
            /\ [task EXCEPT !.pc = "delete.group"].pc = "delete.group"
            /\ [task EXCEPT !.pc = "delete.current"].pc = "delete.current"
        BY <4>1 DEF DeleteTask
      <4>3. PICK state : /\ FineGo(h, state)
                         /\ state.pc \in {"delete.transfer", "delete.group", "delete.current", "idle"}
        <5>1. CASE RemoveFine(h)
          BY <3>1, <4>2, <5>1 DEF RemoveFine
        <5>2. CASE RemoveTransfer(h)
          BY <3>1, <4>2, <5>2 DEF RemoveTransfer
        <5>3. CASE RemoveGroup(h)
          BY <3>1, <4>2, <5>3, FineTasks DEF RemoveGroup
        <5> QED BY <3>4, <5>1, <5>2, <5>3
      <4> QED BY <1>0, <4>3 DEF FineGo, FinesTypeOK, Pending
    <3>5. CASE SaveWaived(h) \/ RemoveWaived(h)
      <4>1. task \in WaiveTask
        BY <3>1, <3>5, FineTaskTypes DEF SaveWaived, RemoveWaived, FineAt, Waiving
      <4>2. /\ [task EXCEPT !.pc = "waive.create"].pc = "waive.create"
            /\ [task EXCEPT !.pc = "waive.current"].pc = "waive.current"
        BY <4>1 DEF WaiveTask
      <4>3. PICK state : FineGo(h, state) /\ state.pc \in {"waive.create", "waive.current", "idle"}
        <5>1. CASE SaveWaived(h)
          BY <3>1, <4>2, <5>1, FineTasks DEF SaveWaived
        <5>2. CASE RemoveWaived(h)
          BY <3>1, <4>2, <5>2 DEF RemoveWaived
        <5> QED BY <3>5, <5>1, <5>2
      <4> QED BY <1>0, <4>3 DEF FineGo, FinesTypeOK, Pending
    <3> QED BY <1>10, <3>2, <3>3, <3>4, <3>5
  <2>2. ClearsInTime(fineTask'[h], ShownBalances', currentFines')
    BY <2>1, OtherTask
  <2> QED BY <2>2 DEF ClearsInv
<1>11. ASSUME NEW h \in Handlers, \/ LoadFined(h) \/ (\E f \in FineIds : LoadFine(h, f))
                                  \/ RemoveFine(h) \/ RemoveGroup(h) \/ ForgetFines(h) \/ SaveWaived(h)
                                  \/ ForgetWaived(h)
       PROVE  PaidClears
  <2>1. UNCHANGED debt
    BY <1>11 DEF LoadFined, LoadFine, RemoveFine, RemoveGroup, ForgetFines, SaveWaived, ForgetWaived, fineTables
  <2> QED BY <1>K, <2>1
<1>12. ASSUME NEW h \in Handlers, RemoveTransfer(h) PROVE PaidClears
  <2>1. CASE fineTask[h].fine \in fineTransfers
    BY <1>12, <2>1 DEF RemoveTransfer, PaidClears, Clears
  <2>2. CASE fineTask[h].fine \notin fineTransfers
    BY <1>12, <1>K, <2>2 DEF RemoveTransfer
  <2> QED BY <2>1, <2>2
<1>13. ASSUME NEW h \in Handlers, RemoveWaived(h) PROVE PaidClears
  <2> DEFINE waive == fineTask[h]
  <2>1. waive \in WaiveTask /\ waive.waiver # NoId
    BY <1>0, <1>13, FineTaskTypes DEF RemoveWaived, FineAt, Waiving, FineTaskHolds, FinesInv, FineTasksHold
  <2>2. waive.waiver \in WaiverIds /\ waive.user \in Users
    BY <2>1 DEF WaiveTask
  <2>3. CASE Exists(waivers[waive.waiver])
    <3>1. waivers[waive.waiver] \in Waiver
      BY <1>0, <2>2, <2>3 DEF FinesTypeOK, Exists
    <3>2. waivers[waive.waiver].amount \in Nat
      BY <3>1 DEF Waiver
    <3>3. debt' = [debt EXCEPT ![waive.user] = @ + - waivers[waive.waiver].amount]
      BY <1>13, <2>3 DEF RemoveWaived, Remove, AddTo
    <3> QED BY <1>0, <1>L, <2>2, <3>2, <3>3
  <2>4. CASE ~ Exists(waivers[waive.waiver])
    BY <1>13, <1>K, <2>4 DEF RemoveWaived
  <2> QED BY <2>3, <2>4
<1>14. ASSUME NEW h \in Handlers, FineFails(h) PROVE ClearsInv' /\ PaidClears
  <2>1. AfterCommit(h, Idle, {}) /\ UNCHANGED debt
    BY <1>14, <1>T DEF FineFails
  <2>2. ClearsInTime(Idle, ShownBalances', currentFines')
    BY OtherTask, FineTasks DEF Pending
  <2>3. \E overtaken : AfterCommit(h, Idle, overtaken)
    BY <2>1
  <2> QED BY <1>0, <1>K, <2>1, <2>2, <2>3, OnlyFineTask, FineTasks
<1>15. ASSUME UNCHANGED finesVars PROVE ClearsInv' /\ PaidClears
  BY <1>0, <1>15, <1>K DEF finesVars, ClearsInv, ShownBalances, ShownBalance
<1>16. ASSUME UpdateBalances PROVE ClearsInv' /\ PaidClears
  <2>1. \A h \in Handlers : fineTask'[h].pc \notin Pending
    BY <1>16 DEF UpdateBalances
  <2>2. \A h \in Handlers : ClearsInTime(fineTask'[h], ShownBalances', currentFines')
    BY <2>1, OtherTask
  <2> QED BY <1>16, <1>K, <2>2 DEF UpdateBalances, ClearsInv
<1> QED BY <1>1, <1>2, <1>3, <1>4, <1>5, <1>6, <1>8, <1>9, <1>10, <1>11, <1>12, <1>13, <1>14, <1>15,
           <1>16
        DEF FinesNext, FinesStep

(***************************************************************************)
(* The subscriber of transfers, one request at a time, which may be cut    *)
(* off anywhere, with the nightly job between requests: a transfer that    *)
(* leaves a user without a debt leaves the user without current fines, in  *)
(* the same step, if the cached row does not show the balance too low.     *)
(***************************************************************************)
THEOREM PaidIsClearedAlways ==
  ASSUME \A g, h \in Handlers : g = h
  PROVE  FinesSpec => PaidIsCleared
<1>1. FinesInit => ClearsInv
  BY OtherTask, FineTasks DEF FinesInit, ClearsInv, Pending
<1>2. FinesInv /\ ClearsInv /\ [FinesNext]_finesVars => ClearsInv' /\ PaidClears
  BY FinesNextClears
<1>3. PaidClears => [PaidClears]_finesVars
  OBVIOUS
<1>4. FinesSpec => [][PaidClears]_finesVars
  BY <1>1, <1>2, <1>3, FinesInvAlways, PTL DEF FinesSpec
<1> QED BY <1>4 DEF PaidIsCleared, PaidClears
-----------------------------------------------------------------------------
(***************************************************************************)
(* What was waived of a group, while the group has at most one waiver: the *)
(* sum over nothing or over one row.                                       *)
(***************************************************************************)
LEMMA SumOfNone ==
  ASSUME NEW ids, NEW table, NEW g, RowsOf(ids, table, g) = {}
  PROVE  AmountOf(ids, table, g) = 0
<1> DEFINE body(f) == [s \in SUBSET {} |->
                         IF s = {} THEN 0
                         ELSE table[CHOOSE x \in s : TRUE].amount + f[s \ {CHOOSE x \in s : TRUE}]]
<1>1. \E f : f = body(f)
  <2>1. [s \in SUBSET {} |-> 0] = body([s \in SUBSET {} |-> 0])
    OBVIOUS
  <2> QED BY <2>1
<1> DEFINE iter == CHOOSE f : f = body(f)
<1>2. iter = body(iter)
  BY <1>1
<1>3. iter[{}] = 0
  BY <1>2
<1>4. AmountOf(ids, table, g) = iter[{}]
  BY DEF AmountOf, FineSets!MapThenSumSet, FineSets!MapThenFoldSet
<1> QED BY <1>3, <1>4

LEMMA SumOfOne ==
  ASSUME NEW ids, NEW table, NEW g, NEW w, RowsOf(ids, table, g) = {w}, table[w].amount \in Nat
  PROVE  AmountOf(ids, table, g) = table[w].amount
<1> DEFINE body(f) == [s \in SUBSET {w} |->
                         IF s = {} THEN 0
                         ELSE table[CHOOSE x \in s : TRUE].amount + f[s \ {CHOOSE x \in s : TRUE}]]
<1> DEFINE sums == [s \in SUBSET {w} |-> IF s = {} THEN 0 ELSE table[w].amount]
<1>1. \A s \in SUBSET {w} : s # {} => s = {w} /\ (CHOOSE x \in s : TRUE) = w
  OBVIOUS
<1>2. sums = body(sums)
  <2>1. ASSUME NEW s \in SUBSET {w} PROVE sums[s] = body(sums)[s]
    <3>1. CASE s = {}
      BY <3>1
    <3>2. CASE s # {}
      <4>1. s = {w} /\ (CHOOSE x \in s : TRUE) = w /\ s \ {w} = {}
        BY <1>1, <3>2
      <4>2. body(sums)[s] = table[w].amount + sums[{}]
        BY <4>1, <3>2
      <4> QED BY <4>1, <4>2, <3>2
    <3> QED BY <3>1, <3>2
  <2> QED BY <2>1
<1> DEFINE iter == CHOOSE f : f = body(f)
<1>3. iter = body(iter)
  BY <1>2
<1> HIDE DEF iter
<1>4. iter[{}] = 0
  BY <1>3
<1>5. iter[{w}] = table[w].amount
  <2>1. (CHOOSE x \in {w} : TRUE) = w /\ {w} \ {w} = {} /\ {w} # {}
    BY <1>1
  <2>2. body(iter)[{w}] = table[w].amount + iter[{}]
    BY <2>1
  <2> QED BY <2>2, <1>3, <1>4
<1> USE DEF iter
<1>6. AmountOf(ids, table, g) = iter[{w}]
  BY DEF AmountOf, FineSets!MapThenSumSet, FineSets!MapThenFoldSet
<1> QED BY <1>5, <1>6

OneWaiver(table) ==
  \A v, w \in WaiverIds : Exists(table[v]) /\ Exists(table[w]) /\ table[v].group = table[w].group => v = w

LEMMA WaivedIsOne ==
  ASSUME NEW table \in [WaiverIds -> {Unused, Gone} \cup Waiver], OneWaiver(table), NEW g
  PROVE  /\ AmountOf(WaiverIds, table, g) \in Nat
         /\ \A w \in WaiverIds : Exists(table[w]) /\ table[w].group = g =>
              AmountOf(WaiverIds, table, g) = table[w].amount
         /\ (\A w \in WaiverIds : Exists(table[w]) => table[w].group # g) => AmountOf(WaiverIds, table, g) = 0
<1>1. CASE RowsOf(WaiverIds, table, g) = {}
  <2>1. AmountOf(WaiverIds, table, g) = 0
    BY <1>1, SumOfNone
  <2>2. \A w \in WaiverIds : Exists(table[w]) => table[w].group # g
    BY <1>1 DEF RowsOf
  <2> QED BY <2>1, <2>2
<1>2. CASE RowsOf(WaiverIds, table, g) # {}
  <2>1. PICK w \in WaiverIds : Exists(table[w]) /\ table[w].group = g
    BY <1>2 DEF RowsOf
  <2>2. RowsOf(WaiverIds, table, g) = {w}
    BY <2>1 DEF RowsOf, OneWaiver
  <2>3. table[w] \in Waiver
    BY <2>1 DEF Exists
  <2>4. table[w].amount \in Nat
    BY <2>3 DEF Waiver
  <2>5. AmountOf(WaiverIds, table, g) = table[w].amount
    BY <2>2, <2>4, SumOfOne
  <2>6. \A v \in WaiverIds : Exists(table[v]) /\ table[v].group = g => v = w
    BY <2>1 DEF OneWaiver
  <2> QED BY <2>1, <2>4, <2>5, <2>6
<1> QED BY <1>1, <1>2

(***************************************************************************)
(* One request at a time that does not fail: no two waivers are of the     *)
(* same group, and the one of a group that is there is linked to it, or    *)
(* about to be.  A request that will make a waiver has removed the earlier *)
(* one, and what it makes is no more than was fined.                       *)
(***************************************************************************)
MakesWaiver(task) ==
  \/ task.pc \in {"waive.remove", "waive.create"}
  \/ task.pc \in Pending /\ task.group # NoId

WaiverOf(w, g) == Exists(waivers[w]) /\ waivers[w].group = g

WaiverLinked(task) ==
  \A w \in WaiverIds, g \in GroupIds :
    WaiverOf(w, g) /\ Exists(groups[g]) =>
      \/ groups[g].waived = w
      \/ task.pc = "waive.save" /\ task.waiver = w /\ task.group = g

WaiverFits(task) ==
  /\ WaiverLinked(task)
  /\ MakesWaiver(task) => Exists(groups[task.group]) /\ task.amount <= Fined(task.group)
  /\ task.pc = "waive.remove" => groups[task.group].waived = task.waiver
  /\ MakesWaiver(task) /\ task.pc # "waive.remove" => \A w \in WaiverIds : ~ WaiverOf(w, task.group)
  /\ task.pc = "waive.save" => task.waiver \in WaiverIds /\ WaiverOf(task.waiver, task.group)

WaiversHaveGroups == \A w \in WaiverIds : Exists(waivers[w]) => groups[waivers[w].group] # Unused

WaiverInv ==
  /\ FinesInv /\ OneWaiver(waivers) /\ WaiversHaveGroups
  /\ \A h \in Handlers : WaiverFits(fineTask[h])

WaiverBound == \A g \in GroupIds : Waived(g)' > Waived(g) => Waived(g)' <= Fined(g)

LEMMA WaiverInitInv == FinesInit => WaiverInv
<1> SUFFICES ASSUME FinesInit PROVE WaiverInv
  OBVIOUS
<1>1. \A w \in WaiverIds : ~ Exists(waivers[w])
  BY RowsExist DEF FinesInit
<1>2. \A h \in Handlers : fineTask[h].pc = "idle"
  BY DEF FinesInit, Idle
<1>3. \A h \in Handlers : WaiverFits(fineTask[h])
  BY <1>1, <1>2 DEF WaiverFits, WaiverLinked, WaiverOf, MakesWaiver, Pending
<1> QED BY <1>1, <1>3, FinesInitInv DEF WaiverInv, OneWaiver, WaiversHaveGroups

LEMMA SameWaived == ASSUME WaiverInv, UNCHANGED waivers PROVE WaiverBound
<1>1. ASSUME NEW g \in GroupIds PROVE Waived(g)' = Waived(g) /\ Waived(g) \in Nat
  BY <1>1, WaivedIsOne DEF Waived, WaiverInv, FinesInv, FinesTypeOK
<1> QED BY <1>1 DEF WaiverBound

\* What is left to show of a step by the only handler that leaves the waivers as they are.
LEMMA FitsByOne ==
  ASSUME \A g, h \in Handlers : g = h, WaiverInv, FinesInv', NEW h \in Handlers, UNCHANGED waivers,
         \A g \in GroupIds : groups[g] # Unused => groups'[g] # Unused,
         WaiverFits(fineTask[h])'
  PROVE  WaiverInv' /\ WaiverBound
<1>1. WaiversHaveGroups'
  <2>1. \A w \in WaiverIds : Exists(waivers[w]) => waivers[w] \in Waiver
    BY DEF WaiverInv, FinesInv, FinesTypeOK, Exists
  <2>2. \A w \in WaiverIds : Exists(waivers[w]) => waivers[w].group \in GroupIds
    BY <2>1 DEF Waiver
  <2> QED BY <2>2 DEF WaiversHaveGroups, WaiverInv
<1>2. OneWaiver(waivers)'
  BY DEF WaiverInv
<1>3. \A g \in Handlers : WaiverFits(fineTask[g])'
  OBVIOUS
<1> QED BY <1>1, <1>2, <1>3, SameWaived DEF WaiverInv

\* A step that leads to nothing that makes or saves a waiver, from a step that does not save one.
LEMMA FitsElsewhere ==
  ASSUME \A g, h \in Handlers : g = h, WaiverInv, FinesInv', NEW h \in Handlers, UNCHANGED waivers,
         \A g \in GroupIds : groups[g] # Unused => /\ groups'[g] # Unused
                                                   /\ groups'[g] = groups[g] \/ ~ Exists(groups'[g]),
         fineTask[h].pc # "waive.save", fineTask'[h].pc # "waive.save", ~ MakesWaiver(fineTask'[h])
  PROVE  WaiverInv' /\ WaiverBound
<1>1. ASSUME NEW w \in WaiverIds, NEW g \in GroupIds, WaiverOf(w, g), Exists(groups'[g])
      PROVE  groups'[g].waived = w
  <2>1. groups[g] # Unused
    BY <1>1 DEF WaiverInv, WaiversHaveGroups, WaiverOf
  <2>2. groups'[g] = groups[g]
    BY <1>1, <2>1
  <2> QED BY <1>1, <2>2 DEF WaiverInv, WaiverFits, WaiverLinked
<1>2. WaiverLinked(fineTask[h])'
  BY <1>1 DEF WaiverLinked, WaiverOf
<1>3. fineTask'[h].pc # "waive.remove"
  BY DEF MakesWaiver
<1>4. WaiverFits(fineTask[h])'
  BY <1>2, <1>3 DEF WaiverFits, MakesWaiver
<1> QED BY <1>4, FitsByOne

\* A step that leads to one that makes a waiver, from a step that does not save one.
LEMMA FitsMaking ==
  ASSUME \A g, h \in Handlers : g = h, WaiverInv, FinesInv', NEW h \in Handlers,
         UNCHANGED <<waivers, groups, fines>>,
         fineTask[h].pc # "waive.save", fineTask'[h].pc # "waive.save",
         MakesWaiver(fineTask'[h]) =>
           /\ Exists(groups[fineTask'[h].group]) /\ fineTask'[h].amount <= Fined(fineTask'[h].group)
           /\ fineTask'[h].pc # "waive.remove" => \A w \in WaiverIds : ~ WaiverOf(w, fineTask'[h].group),
         fineTask'[h].pc = "waive.remove" => groups[fineTask'[h].group].waived = fineTask'[h].waiver
  PROVE  WaiverInv' /\ WaiverBound
<1>1. WaiverLinked(fineTask[h])'
  BY DEF WaiverLinked, WaiverOf, WaiverInv, WaiverFits
<1>2. \A g : Fined(g)' = Fined(g)
  BY DEF Fined
<1>3. WaiverFits(fineTask[h])'
  BY <1>1, <1>2 DEF WaiverFits, MakesWaiver, WaiverOf
<1> QED BY <1>3, FitsByOne

LEMMA DepositFits ==
  ASSUME \A g, h \in Handlers : g = h, WaiverInv, FinesInv', NEW h \in Handlers, NEW w \in WaiverIds,
         CommitDeposit(h, w)
  PROVE  WaiverInv' /\ WaiverBound
<1> DEFINE deposit == fineTask[h]
<1> DEFINE saving  == [pc |-> "waive.save", user |-> deposit.user, group |-> deposit.group, waiver |-> w,
                       amount |-> deposit.amount, full |-> deposit.full]
<1>0. FinesTypeOK /\ FinesTypeOK' /\ WaiverFits(deposit)
  BY DEF WaiverInv, FinesInv
<1>1. /\ deposit \in Deposit /\ deposit.pc = "deposit.commit"
      /\ deposit.amount \in Nat /\ deposit.group \in GroupIds \cup {NoId}
  <2>1. deposit.pc = "deposit.commit" /\ deposit \in FineTask
    BY <1>0 DEF CommitDeposit, FineAt, FinesTypeOK
  <2>2. deposit \in Deposit
    BY <2>1, FineTaskTypes DEF Pending
  <2> QED BY <2>1, <2>2 DEF Deposit
<1>2. CASE deposit.group = NoId
  <2>1. fineTask'[h] = Idle /\ UNCHANGED <<waivers, groups, fines>>
    BY <1>2 DEF CommitDeposit, AfterCommit
  <2>2. ~ MakesWaiver(fineTask'[h]) /\ fineTask'[h].pc # "waive.save"
    BY <2>1, FineTasks DEF MakesWaiver, Pending
  <2> QED BY <1>1, <2>1, <2>2, FitsElsewhere
<1>3. CASE deposit.group # NoId
  <2> DEFINE g0 == deposit.group
  <2>1. /\ fineTask'[h] = saving
        /\ waivers' = [waivers EXCEPT ![w] = [group |-> g0, amount |-> deposit.amount]]
        /\ UNCHANGED <<groups, fines>>
    BY <1>3 DEF CommitDeposit, AfterCommit
  <2>2. /\ g0 \in GroupIds /\ Exists(groups[g0]) /\ deposit.amount <= Fined(g0)
        /\ \A v \in WaiverIds : ~ WaiverOf(v, g0)
    <3>1. MakesWaiver(deposit)
      BY <1>1, <1>3 DEF MakesWaiver, Pending
    <3> QED BY <1>0, <1>1, <1>3, <3>1 DEF WaiverFits
  <2>3. waivers[w] = Unused /\ ~ Exists(waivers[w])
    BY RowsExist DEF CommitDeposit, NextId
  <2>4. /\ waivers'[w].group = g0 /\ waivers'[w].amount = deposit.amount /\ Exists(waivers'[w])
        /\ \A v \in WaiverIds \ {w} : waivers'[v] = waivers[v]
    <3>1. [group |-> g0, amount |-> deposit.amount] \in Waiver
      BY <1>1, <2>2 DEF Waiver
    <3>2. waivers'[w] = [group |-> g0, amount |-> deposit.amount]
      BY <1>0, <2>1 DEF FinesTypeOK
    <3> QED BY <1>0, <2>1, <3>1, <3>2, RowsExist DEF FinesTypeOK
  <2>5. OneWaiver(waivers)'
    <3>1. ASSUME NEW u \in WaiverIds, NEW v \in WaiverIds, Exists(waivers'[u]), Exists(waivers'[v]),
                 waivers'[u].group = waivers'[v].group
          PROVE  u = v
      <4>1. CASE u = w \/ v = w
        BY <2>2, <2>4, <3>1, <4>1 DEF WaiverOf
      <4>2. CASE u # w /\ v # w
        BY <2>4, <3>1, <4>2 DEF WaiverInv, OneWaiver
      <4> QED BY <4>1, <4>2
    <3> QED BY <3>1 DEF OneWaiver
  <2>6. WaiversHaveGroups'
    BY <2>1, <2>2, <2>4, RowsExist DEF WaiverInv, WaiversHaveGroups, Exists
  <2>7. WaiverFits(fineTask[h])'
    <3>1. saving.pc = "waive.save" /\ saving.waiver = w /\ saving.group = g0
      OBVIOUS
    <3>2. ~ MakesWaiver(saving)
      BY <3>1 DEF MakesWaiver, Pending
    <3> HIDE DEF saving
    <3>3. ASSUME NEW v \in WaiverIds, NEW g \in GroupIds, WaiverOf(v, g)', Exists(groups[g])
          PROVE  groups[g].waived = v \/ (v = w /\ g = g0)
      <4>1. CASE v = w
        BY <2>4, <3>3, <4>1 DEF WaiverOf
      <4>2. CASE v # w
        <5>1. WaiverOf(v, g)
          BY <2>4, <3>3, <4>2 DEF WaiverOf
        <5> QED BY <1>0, <1>1, <3>3, <5>1 DEF WaiverFits, WaiverLinked
      <4> QED BY <4>1, <4>2
    <3>4. WaiverLinked(fineTask[h])'
      BY <2>1, <3>1, <3>3 DEF WaiverLinked
    <3> QED BY <2>1, <2>4, <3>1, <3>2, <3>4 DEF WaiverFits, WaiverOf, MakesWaiver
  <2>8. WaiverBound
    <3>1. ASSUME NEW g \in GroupIds, Waived(g)' > Waived(g) PROVE Waived(g)' <= Fined(g)
      <4>1. CASE g = g0
        <5>1. Waived(g)' = deposit.amount
          BY <1>0, <2>4, <2>5, <4>1, WaivedIsOne DEF Waived, FinesTypeOK
        <5> QED BY <2>2, <4>1, <5>1
      <4>2. CASE g # g0
        <5>1. \A v \in WaiverIds : WaiverOf(v, g)' <=> WaiverOf(v, g)
          BY <2>3, <2>4, <4>2 DEF WaiverOf
        <5>2. Waived(g)' = Waived(g) /\ Waived(g) \in Nat
          <6>1. CASE \E v \in WaiverIds : WaiverOf(v, g)
            <7>1. PICK v \in WaiverIds : WaiverOf(v, g)
              BY <6>1
            <7>2. v # w /\ WaiverOf(v, g)'
              BY <2>3, <5>1, <7>1 DEF WaiverOf
            <7>3. Waived(g) = waivers[v].amount /\ Waived(g) \in Nat
              BY <1>0, <7>1, WaivedIsOne DEF Waived, FinesTypeOK, WaiverInv, WaiverOf
            <7>4. Waived(g)' = waivers'[v].amount
              BY <1>0, <2>5, <7>2, WaivedIsOne DEF Waived, FinesTypeOK, WaiverOf
            <7> QED BY <2>4, <7>2, <7>3, <7>4
          <6>2. CASE \A v \in WaiverIds : ~ WaiverOf(v, g)
            <7>1. Waived(g) = 0
              BY <1>0, <6>2, WaivedIsOne DEF Waived, FinesTypeOK, WaiverInv, WaiverOf
            <7>2. Waived(g)' = 0
              BY <1>0, <2>5, <5>1, <6>2, WaivedIsOne DEF Waived, FinesTypeOK, WaiverOf
            <7> QED BY <7>1, <7>2
          <6> QED BY <6>1, <6>2
        <5> QED BY <3>1, <5>2
      <4> QED BY <4>1, <4>2
    <3> QED BY <3>1 DEF WaiverBound
  <2>9. \A g \in Handlers : WaiverFits(fineTask[g])'
    BY <2>7
  <2> QED BY <2>5, <2>6, <2>8, <2>9 DEF WaiverInv
<1> QED BY <1>2, <1>3

LEMMA RemovalFits ==
  ASSUME \A g, h \in Handlers : g = h, WaiverInv, FinesInv', NEW h \in Handlers, RemoveWaived(h)
  PROVE  WaiverInv' /\ WaiverBound
<1> DEFINE waive == fineTask[h]
<1> DEFINE w     == waive.waiver
<1>0. FinesTypeOK /\ FinesTypeOK' /\ WaiverFits(waive)
  BY DEF WaiverInv, FinesInv
<1>1. /\ waive \in WaiveTask /\ waive.pc = "waive.remove"
      /\ waive.group \in GroupIds /\ w \in WaiverIds /\ w # NoId
  <2>1. waive.pc = "waive.remove" /\ waive \in FineTask
    BY <1>0 DEF RemoveWaived, FineAt, FinesTypeOK
  <2>2. waive \in WaiveTask /\ FineTaskHolds(waive, fines)
    BY <2>1, FineTaskTypes DEF Waiving, WaiverInv, FinesInv, FineTasksHold
  <2> QED BY <2>1, <2>2 DEF WaiveTask, FineTaskHolds
<1>2. /\ Exists(groups[waive.group]) /\ waive.amount <= Fined(waive.group) /\ groups[waive.group].waived = w
  BY <1>0, <1>1 DEF WaiverFits, MakesWaiver
<1>3. /\ ~ Exists(waivers'[w])
      /\ \A v \in WaiverIds \ {w} : waivers'[v] = waivers[v]
  BY <1>0, <1>1, RowsExist DEF RemoveWaived, FinesTypeOK
<1>4. \A g \in GroupIds :
        /\ groups'[g] = groups[g] \/ (Exists(groups[g]) /\ groups[g].waived = w)
        /\ groups[g] # Unused => groups'[g] # Unused
        /\ Exists(groups[g]) => Exists(groups'[g])
        /\ Exists(groups'[g]) => Exists(groups[g])
  <2>1. ASSUME NEW g \in GroupIds, Exists(groups[g]) PROVE Exists([groups[g] EXCEPT !.waived = NoId])
    <3>1. groups[g] \in Group
      BY <1>0, <2>1 DEF FinesTypeOK, Exists
    <3>2. [groups[g] EXCEPT !.waived = NoId] \in Group
      BY <3>1 DEF Group
    <3> QED BY <3>2, RowsExist
  <2>2. \A g \in GroupIds : groups'[g] = IF Exists(groups[g]) /\ groups[g].waived = w
                                         THEN [groups[g] EXCEPT !.waived = NoId] ELSE groups[g]
    BY DEF RemoveWaived
  <2> QED BY <2>1, <2>2, RowsExist DEF Exists
<1>5. fineTask'[h] = [waive EXCEPT !.pc = "waive.create"] /\ UNCHANGED fines
  BY <1>0 DEF RemoveWaived, FineGo, FinesTypeOK
<1>6. /\ fineTask'[h].pc = "waive.create" /\ fineTask'[h].group = waive.group
      /\ fineTask'[h].amount = waive.amount
  BY <1>1, <1>5 DEF WaiveTask
<1>7. \A v \in WaiverIds : \A g : WaiverOf(v, g)' => v # w /\ WaiverOf(v, g)
  BY <1>3 DEF WaiverOf
<1>8. OneWaiver(waivers)'
  BY <1>3 DEF WaiverInv, OneWaiver
<1>9. WaiversHaveGroups'
  <2>1. ASSUME NEW v \in WaiverIds, Exists(waivers'[v]) PROVE groups'[waivers'[v].group] # Unused
    <3>1. v # w /\ waivers'[v] = waivers[v] /\ Exists(waivers[v])
      BY <1>3, <2>1
    <3>2. waivers[v] \in Waiver
      BY <1>0, <3>1 DEF FinesTypeOK, Exists
    <3>3. waivers[v].group \in GroupIds
      BY <3>2 DEF Waiver
    <3>4. groups[waivers[v].group] # Unused
      BY <3>1 DEF WaiverInv, WaiversHaveGroups
    <3> QED BY <1>4, <3>1, <3>3, <3>4
  <2> QED BY <2>1 DEF WaiversHaveGroups
<1>10. ASSUME NEW v \in WaiverIds, NEW g \in GroupIds, WaiverOf(v, g)', Exists(groups'[g])
       PROVE  groups'[g].waived = v /\ g # waive.group
  <2>1. v # w /\ WaiverOf(v, g) /\ Exists(groups[g])
    BY <1>4, <1>7, <1>10
  <2>2. groups[g].waived = v
    BY <1>0, <1>1, <2>1 DEF WaiverFits, WaiverLinked
  <2> QED BY <1>2, <1>4, <2>1, <2>2
<1>11. WaiverFits(fineTask[h])'
  <2>1. WaiverLinked(fineTask[h])'
    BY <1>10 DEF WaiverLinked
  <2>2. \A g : Fined(g)' = Fined(g)
    BY <1>5 DEF Fined
  <2>3. PICK g \in GroupIds : g = waive.group
    BY <1>1
  <2>4. \A v \in WaiverIds : ~ WaiverOf(v, g)'
    BY <1>2, <1>4, <1>10, <2>3
  <2> QED BY <1>2, <1>4, <1>6, <2>1, <2>2, <2>3, <2>4 DEF WaiverFits, WaiverOf
<1>12. WaiverBound
  <2>1. ASSUME NEW g \in GroupIds PROVE Waived(g)' <= Waived(g) /\ Waived(g) \in Nat /\ Waived(g)' \in Nat
    <3>0. Waived(g) \in Nat /\ Waived(g)' \in Nat
      BY <1>0, <1>8, WaivedIsOne DEF Waived, FinesTypeOK, WaiverInv
    <3>1. CASE \E v \in WaiverIds : WaiverOf(v, g)'
      <4>1. PICK v \in WaiverIds : WaiverOf(v, g)'
        BY <3>1
      <4>2. v # w /\ WaiverOf(v, g)
        BY <1>7, <4>1
      <4>3. Waived(g) = waivers[v].amount
        BY <1>0, <4>2, WaivedIsOne DEF Waived, FinesTypeOK, WaiverInv, WaiverOf
      <4>4. Waived(g)' = waivers'[v].amount
        BY <1>0, <1>8, <4>1, WaivedIsOne DEF Waived, FinesTypeOK, WaiverOf
      <4> QED BY <1>3, <3>0, <4>2, <4>3, <4>4
    <3>2. CASE \A v \in WaiverIds : ~ WaiverOf(v, g)'
      <4>1. Waived(g)' = 0
        BY <1>0, <1>8, <3>2, WaivedIsOne DEF Waived, FinesTypeOK, WaiverOf
      <4> QED BY <3>0, <4>1
    <3> QED BY <3>1, <3>2
  <2> QED BY <2>1 DEF WaiverBound
<1>13. \A g \in Handlers : WaiverFits(fineTask[g])'
  BY <1>11
<1> QED BY <1>8, <1>9, <1>12, <1>13 DEF WaiverInv

LEMMA InsertedFits ==
  ASSUME \A g, h \in Handlers : g = h, WaiverInv, FinesInv', NEW h \in Handlers, NEW u \in Users,
         NEW amount \in Nat, NEW g \in GroupIds \cup {NoId}, NEW full \in BOOLEAN,
         Inserted(h, u, amount, g, full), UNCHANGED fineTables, fineTask[h].pc # "waive.save",
         g # NoId => /\ Exists(groups[g]) /\ amount <= Fined(g)
                     /\ \A w \in WaiverIds : ~ WaiverOf(w, g)
  PROVE  WaiverInv' /\ WaiverBound
<1>1. PICK state \in Deposit : FineGo(h, state) /\ state.amount = amount /\ state.group = g
  BY InsertedState
<1>2. fineTask'[h] = state
  BY <1>1 DEF WaiverInv, FinesInv, FinesTypeOK, FineGo
<1>3. state.pc \in Pending
  BY DEF Deposit
<1>4. fineTask'[h].pc \notin {"waive.save", "waive.remove", "waive.create"}
  BY <1>2, <1>3 DEF Pending
<1>5. MakesWaiver(fineTask'[h]) => g # NoId
  BY <1>1, <1>2, <1>4 DEF MakesWaiver
<1>6. UNCHANGED <<waivers, groups, fines>>
  BY DEF fineTables
<1> QED BY <1>1, <1>2, <1>4, <1>5, <1>6, FitsMaking

LEMMA FinesStepFits ==
  ASSUME \A g, h \in Handlers : g = h, WaiverInv, [FinesStep]_finesVars
  PROVE  WaiverInv' /\ WaiverBound
<1>0. /\ FinesTypeOK /\ FinesInv' /\ FinesInv
      /\ \A h \in Handlers : fineTask[h] \in FineTask /\ WaiverFits(fineTask[h])
  BY FinesStepInv DEF WaiverInv, FinesInv, FinesTypeOK, FinesNext
<1>S. ASSUME UNCHANGED <<waivers, groups, fines, fineTask>> PROVE WaiverInv' /\ WaiverBound
  <2>1. PICK h \in Handlers : TRUE
    BY ServerAssumption
  <2>2. \A g : Fined(g)' = Fined(g)
    BY <1>S DEF Fined
  <2>3. WaiverFits(fineTask[h])'
    BY <1>0, <1>S, <2>2 DEF WaiverFits, WaiverLinked, WaiverOf
  <2> QED BY <1>0, <1>S, <2>3, FitsByOne
<1>1. ASSUME NEW u \in Users, NEW amount \in Moves, Purchase(u, amount) PROVE WaiverInv' /\ WaiverBound
  BY <1>1, <1>S DEF Purchase
<1>U. ASSUME UpdateBalances PROVE WaiverInv' /\ WaiverBound
  BY <1>U, <1>S DEF UpdateBalances
<1>2. ASSUME NEW h \in Handlers, NEW u \in Users, NEW amount \in Moves, InsertDeposit(h, u, amount)
      PROVE  WaiverInv' /\ WaiverBound
  <2>1. amount \in Nat /\ fineTask[h].pc # "waive.save"
    BY <1>2, FinesAssumption DEF InsertDeposit, FineAt
  <2> QED BY <1>0, <1>2, <2>1, InsertedFits DEF InsertDeposit
<1>3. ASSUME NEW h \in Handlers, CreateWaiver(h) PROVE WaiverInv' /\ WaiverBound
  <2>1. fineTask[h] \in WaiveTask /\ fineTask[h].pc = "waive.create"
    BY <1>0, <1>3, FineTaskTypes DEF CreateWaiver, FineAt, Waiving
  <2>2. fineTask[h].user \in Users /\ fineTask[h].amount \in Nat
        /\ fineTask[h].group \in GroupIds \cup {NoId} /\ fineTask[h].full \in BOOLEAN
    BY <2>1 DEF WaiveTask
  <2>3. /\ Exists(groups[fineTask[h].group]) /\ fineTask[h].amount <= Fined(fineTask[h].group)
        /\ \A w \in WaiverIds : ~ WaiverOf(w, fineTask[h].group)
    BY <1>0, <2>1 DEF WaiverFits, MakesWaiver
  <2> QED BY <1>0, <1>3, <2>1, <2>2, <2>3, InsertedFits DEF CreateWaiver
<1>4. ASSUME NEW h \in Handlers, NEW u \in Users, NEW n \in 1 .. (MaxFine \div FineUnit),
             BeginWaive(h, u, n * FineUnit)
      PROVE  WaiverInv' /\ WaiverBound
  <2>1. PICK g \in GroupIds : g = currentFines[u] /\ Exists(groups[g])
    BY <1>0, <1>4 DEF BeginWaive, FinesInv, FinesTypeOK, GroupsAreThere
  <2>2. PICK full :
          FineGo(h, [pc |-> IF groups[g].waived # NoId THEN "waive.remove" ELSE "waive.create",
                     user |-> u, group |-> g, amount |-> n * FineUnit, waiver |-> groups[g].waived,
                     full |-> full])
    BY <1>4, <2>1 DEF BeginWaive
  <2>3. /\ fineTask'[h].pc = IF groups[g].waived # NoId THEN "waive.remove" ELSE "waive.create"
        /\ fineTask'[h].group = g /\ fineTask'[h].amount = n * FineUnit
        /\ fineTask'[h].waiver = groups[g].waived
    BY <1>0, <2>2 DEF FineGo, FinesTypeOK
  <2>4. /\ fineTask[h].pc = "idle" /\ n * FineUnit <= Fined(g)
        /\ UNCHANGED <<waivers, groups, fines>>
    BY <1>4, <2>1 DEF BeginWaive, FineAt, fineTables
  <2>5. groups[g].waived = NoId => \A w \in WaiverIds : ~ WaiverOf(w, g)
    BY <1>0, <2>1, <2>4, FinesAssumption DEF WaiverFits, WaiverLinked
  <2>6. fineTask'[h].pc # "waive.remove" => \A w \in WaiverIds : ~ WaiverOf(w, g)
    BY <2>3, <2>5
  <2> QED BY <1>0, <2>1, <2>3, <2>4, <2>6, FitsMaking
<1>5. ASSUME NEW h \in Handlers, ReadForFines(h) PROVE WaiverInv' /\ WaiverBound
  <2>1. fineTask[h] \in Deposit /\ fineTask[h].pc = "deposit.read"
    BY <1>0, <1>5, FineTaskTypes DEF ReadForFines, FineAt, Pending
  <2>2. PICK clears : FineGo(h, [fineTask[h] EXCEPT !.pc = "deposit.commit", !.clears = clears])
    BY <1>5 DEF ReadForFines
  <2>3. fineTask'[h] = [fineTask[h] EXCEPT !.pc = "deposit.commit", !.clears = clears]
    BY <1>0, <2>2 DEF FineGo, FinesTypeOK
  <2>4. /\ fineTask'[h].pc = "deposit.commit" /\ fineTask'[h].group = fineTask[h].group
        /\ fineTask'[h].amount = fineTask[h].amount
    BY <2>1, <2>3 DEF Deposit
  <2>5. UNCHANGED <<waivers, groups, fines>>
    BY <1>5 DEF ReadForFines, fineTables
  <2>6. MakesWaiver(fineTask'[h]) =>
          /\ Exists(groups[fineTask[h].group]) /\ fineTask[h].amount <= Fined(fineTask[h].group)
          /\ \A w \in WaiverIds : ~ WaiverOf(w, fineTask[h].group)
    <3>1. MakesWaiver(fineTask'[h]) => MakesWaiver(fineTask[h])
      BY <2>1, <2>4 DEF MakesWaiver, Pending
    <3> QED BY <1>0, <2>1, <3>1 DEF WaiverFits
  <2> QED BY <1>0, <2>1, <2>4, <2>5, <2>6, FitsMaking
<1>6. ASSUME NEW h \in Handlers, \/ \E u \in Users, balance \in PastBalances : BeginHandout(h, u, balance)
                                 \/ LoadFined(h) \/ (\E f \in FineIds : LoadFine(h, f))
                                 \/ RemoveFine(h) \/ RemoveTransfer(h) \/ ForgetFines(h) \/ ForgetWaived(h)
      PROVE  WaiverInv' /\ WaiverBound
  <2>1. /\ UNCHANGED <<groups, waivers>>
        /\ fineTask[h].pc # "waive.save"
        /\ fineTask'[h].pc \in {"idle", "handout.load", "handout.commit", "delete.fine",
                                "delete.transfer", "delete.group"}
    <3>1. CASE \/ \E u \in Users, balance \in PastBalances : BeginHandout(h, u, balance)
               \/ LoadFined(h) \/ (\E f \in FineIds : LoadFine(h, f))
      BY <1>0, <3>1 DEF BeginHandout, LoadFined, LoadFine, FineGo, FinesTypeOK, FineAt, fineTables
    <3>2. CASE ForgetFines(h) \/ ForgetWaived(h)
      BY <1>0, <3>2 DEF ForgetFines, ForgetWaived, FineGo, FinesTypeOK, FineAt, Idle
    <3>3. CASE RemoveFine(h) \/ RemoveTransfer(h)
      <4>1. PICK task \in DeleteTask : task = fineTask[h]
        BY <1>0, <3>3, FineTaskTypes DEF RemoveFine, RemoveTransfer, FineAt, Deleting
      <4>2. /\ [task EXCEPT !.pc = "delete.transfer"].pc = "delete.transfer"
            /\ [task EXCEPT !.pc = "delete.group"].pc = "delete.group"
            /\ task.pc # "waive.save"
        BY <4>1 DEF DeleteTask, Deleting
      <4> QED BY <1>0, <3>3, <4>1, <4>2 DEF RemoveFine, RemoveTransfer, FineGo, FinesTypeOK
    <3> QED BY <1>6, <3>1, <3>2, <3>3
  <2>2. ~ MakesWaiver(fineTask'[h])
    BY <2>1 DEF MakesWaiver, Pending
  <2> QED BY <1>0, <2>1, <2>2, FitsElsewhere
<1>7. ASSUME NEW h \in Handlers, NEW w \in WaiverIds, CommitDeposit(h, w) PROVE WaiverInv' /\ WaiverBound
  BY <1>0, <1>7, DepositFits
<1>8. ASSUME NEW h \in Handlers, NEW f \in FineIds, NEW g \in GroupIds, CommitFine(h, f, g)
      PROVE  WaiverInv' /\ WaiverBound
  <2>1. fineTask'[h] = Idle /\ UNCHANGED waivers /\ fineTask[h].pc = "handout.commit"
    BY <1>8 DEF CommitFine, AfterCommit, FineAt
  <2>2. ~ MakesWaiver(fineTask'[h]) /\ fineTask'[h].pc # "waive.save"
    BY <2>1, FineTasks DEF MakesWaiver, Pending
  <2>3. \A k \in GroupIds : groups[k] # Unused => groups'[k] = groups[k]
    BY <1>0, <1>8 DEF CommitFine, FineGroup, NextId, FinesTypeOK
  <2> QED BY <1>0, <2>1, <2>2, <2>3, FitsElsewhere
<1>9. ASSUME NEW h \in Handlers, RemoveGroup(h) PROVE WaiverInv' /\ WaiverBound
  <2>1. PICK task \in DeleteTask : task = fineTask[h] /\ task.pc = "delete.group"
    BY <1>0, <1>9, FineTaskTypes DEF RemoveGroup, FineAt, Deleting
  <2>2. [task EXCEPT !.pc = "delete.current"].pc = "delete.current"
    BY <2>1 DEF DeleteTask
  <2>3. fineTask'[h].pc \in {"idle", "delete.current"} /\ UNCHANGED waivers
    BY <1>0, <1>9, <2>1, <2>2, FineTasks DEF RemoveGroup, FineGo, FinesTypeOK
  <2>4. ~ MakesWaiver(fineTask'[h]) /\ fineTask'[h].pc # "waive.save"
    BY <2>3 DEF MakesWaiver, Pending
  <2>5. \A k \in GroupIds : groups'[k] = groups[k] \/ groups'[k] = Gone
    BY <1>0, <1>9 DEF RemoveGroup, FinesTypeOK
  <2>6. Gone # Unused /\ ~ Exists(Gone)
    BY RowsExist DEF Gone, Unused
  <2>7. \A k \in GroupIds : groups[k] # Unused => /\ groups'[k] # Unused
                                                  /\ groups'[k] = groups[k] \/ ~ Exists(groups'[k])
    BY <2>5, <2>6
  <2> QED BY <1>0, <2>1, <2>3, <2>4, <2>7, FitsElsewhere
<1>10. ASSUME NEW h \in Handlers, RemoveWaived(h) PROVE WaiverInv' /\ WaiverBound
  BY <1>0, <1>10, RemovalFits
<1>11. ASSUME NEW h \in Handlers, SaveWaived(h) PROVE WaiverInv' /\ WaiverBound
  <2>1. PICK waive \in WaiveTask : waive = fineTask[h] /\ waive.pc = "waive.save"
    BY <1>0, <1>11, FineTaskTypes DEF SaveWaived, FineAt, Waiving
  <2> DEFINE g0 == waive.group
  <2>2. /\ waive.waiver \in WaiverIds /\ WaiverOf(waive.waiver, g0) /\ WaiverLinked(waive)
        /\ g0 \in GroupIds
    BY <1>0, <2>1 DEF WaiverFits, WaiveTask
  <2>3. fineTask'[h].pc \in {"waive.current", "idle"} /\ UNCHANGED waivers
    <3>1. [waive EXCEPT !.pc = "waive.current"].pc = "waive.current"
      BY <2>1 DEF WaiveTask
    <3> QED BY <1>0, <1>11, <2>1, <3>1, FineTasks DEF SaveWaived, FineGo, FinesTypeOK
  <2>4. /\ \A g \in GroupIds \ {g0} : groups'[g] = groups[g]
        /\ ~ Exists(groups[g0]) => groups'[g0] = groups[g0]
        /\ Exists(groups[g0]) => groups'[g0] = [groups[g0] EXCEPT !.waived = waive.waiver]
    BY <1>0, <1>11, <2>1, <2>2 DEF SaveWaived, FinesTypeOK
  <2>5. Exists(groups[g0]) => groups'[g0].waived = waive.waiver /\ Exists(groups'[g0])
    <3>1. ASSUME Exists(groups[g0]) PROVE groups'[g0].waived = waive.waiver /\ Exists(groups'[g0])
      <4>1. groups[g0] \in Group
        BY <1>0, <2>2, <3>1 DEF FinesTypeOK, Exists
      <4>2. groups'[g0] \in Group /\ groups'[g0].waived = waive.waiver
        BY <2>2, <2>4, <3>1, <4>1 DEF Group
      <4> QED BY <4>2, RowsExist
    <3> QED BY <3>1
  <2>6. \A g \in GroupIds : groups[g] # Unused => groups'[g] # Unused
    BY <2>4, <2>5 DEF Exists
  <2>7. WaiverLinked(fineTask[h])'
    <3>1. ASSUME NEW w \in WaiverIds, NEW g \in GroupIds, WaiverOf(w, g), Exists(groups'[g])
          PROVE  groups'[g].waived = w
      <4>1. CASE g = g0
        <5>1. w = waive.waiver
          BY <2>2, <3>1, <4>1 DEF WaiverOf, WaiverInv, OneWaiver
        <5> QED BY <2>4, <2>5, <3>1, <4>1, <5>1
      <4>2. CASE g # g0
        BY <2>2, <2>4, <3>1, <4>2 DEF WaiverLinked
      <4> QED BY <4>1, <4>2
    <3> QED BY <2>3, <3>1 DEF WaiverLinked, WaiverOf
  <2>8. ~ MakesWaiver(fineTask'[h]) /\ fineTask'[h].pc \notin {"waive.save", "waive.remove"}
    BY <2>3 DEF MakesWaiver, Pending
  <2>9. WaiverFits(fineTask[h])'
    BY <2>7, <2>8 DEF WaiverFits, MakesWaiver
  <2> QED BY <1>0, <2>3, <2>6, <2>9, FitsByOne
<1>12. ASSUME UNCHANGED finesVars PROVE WaiverInv' /\ WaiverBound
  BY <1>12, <1>S DEF finesVars
<1> QED BY <1>1, <1>2, <1>3, <1>4, <1>5, <1>6, <1>7, <1>8, <1>9, <1>10, <1>11, <1>12, <1>U
        DEF FinesStep

(***************************************************************************)
(* The amount check of waiveFines, one request at a time that does not     *)
(* fail half way: a waiver never brings what was waived of a group above   *)
(* what it was fined, whatever was waived of it earlier.                   *)
(***************************************************************************)
THEOREM WaiverIsBoundedAlways ==
  ASSUME \A g, h \in Handlers : g = h
  PROVE  FinesQuietSpec => WaiverIsBounded
<1>1. WaiverInv /\ [FinesStep]_finesVars => WaiverInv' /\ WaiverBound
  BY FinesStepFits
<1>2. WaiverBound => [WaiverBound]_finesVars
  OBVIOUS
<1>3. FinesQuietSpec => [][WaiverBound]_finesVars
  BY <1>1, <1>2, WaiverInitInv, PTL DEF FinesQuietSpec
<1> QED BY <1>3 DEF WaiverIsBounded, WaiverBound
=============================================================================
