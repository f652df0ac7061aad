------------------------------- MODULE Sales --------------------------------
(***************************************************************************)
(* What a purchase is checked against: the till names a revision of a      *)
(* point of sale, of a container in it and of a product in that, and not   *)
(* necessarily the current ones.  verifyTransaction loads the three one    *)
(* after the other while the catalogue is edited, and the purchase is      *)
(* saved some awaits later.  Rows are checked each on its own, so that a   *)
(* request has one here; that totals are those of the revisions is a       *)
(* lookup and an addition; buyer, sellers and balance are in Members.      *)
(***************************************************************************)
EXTENDS Catalogue

CONSTANTS
  Tills,          \* purchases in progress at the same time
  MaxSales        \* bound on the purchases made

VARIABLES
  sales,          \* the rows sold, as the revisions they name
  saleTask

salesTables == <<sales, catalogueVars>>
salesVars   == <<sales, saleTask, catalogueVars>>

Sale == [pointOfSale : Reference, container : Reference, product : Reference]

SaleTask ==
       {Idle}
  \cup [pc : {"pointOfSale", "save"}, sale : Sale]
  \cup [pc : {"containers"}, sale : Sale, listed : SUBSET Reference]

SalesTypeOK ==
  /\ CatalogueTypeOK
  /\ sales \in SUBSET Sale
  /\ saleTask \in [Tills -> SaleTask]

SalesInit ==
  /\ CatalogueInit
  /\ sales = {}
  /\ saleTask = [t \in Tills |-> Idle]

SaleAt(t, pc) == saleTask[t].pc = pc

SaleGo(t, state) == saleTask' = [saleTask EXCEPT ![t] = state]

Saved(ref) == ref.revision \in DOMAIN revisions[ref.item]

RowOf(ref) == revisions[ref.item][ref.revision]

\* What a till may name: what it was shown at some time.
Shown(items) == {ref \in [item : items, revision : 1 .. MaxRevision] : Saved(ref)}

-----------------------------------------------------------------------------
(***************************************************************************)
(* Any revision of a product will do at first, of a deleted one too.       *)
(***************************************************************************)
BeginSale(t, sale) ==
  /\ SaleAt(t, "idle")
  /\ Cardinality(sales) < MaxSales
  /\ SaleGo(t, [pc |-> "pointOfSale", sale |-> sale])
  /\ UNCHANGED salesTables

LoadPointOfSale(t) ==
  LET sale == saleTask[t].sale
      pos  == sale.pointOfSale
  IN  /\ SaleAt(t, "pointOfSale")
      /\ SaleGo(t, IF life[pos.item] = "live"
                   THEN [pc |-> "containers", sale |-> sale,
                         listed |-> {k \in RowOf(pos).kids : life[k.item] = "live"}] ELSE Idle)
      /\ UNCHANGED salesTables

\* Mutant of Offers: the product may be in any revision of the container.
Offers_AnyRevision(sale, listed) ==
  /\ sale.container \in listed
  /\ life[sale.container.item] = "live"
  /\ sale.product.item \in {k.item : k \in RowOf(sale.container).kids} /\ life[sale.product.item] = "live"

\* verifySubTransaction and verifySubTransactionRow: each listed in the one above it.
Offers(sale, listed) ==
  /\ sale.container \in listed
  /\ life[sale.container.item] = "live"
  /\ sale.product \in RowOf(sale.container).kids /\ life[sale.product.item] = "live"

LoadContainers(t) ==
  LET sale == saleTask[t].sale
  IN  /\ SaleAt(t, "containers")
      /\ SaleGo(t, IF Offers(sale, saleTask[t].listed) THEN [pc |-> "save", sale |-> sale] ELSE Idle)
      /\ UNCHANGED salesTables

SaveSale(t) ==
  /\ SaleAt(t, "save")
  /\ sales' = sales \cup {saleTask[t].sale}
  /\ SaleGo(t, Idle)
  /\ UNCHANGED catalogueVars

\* The request is refused, a statement fails or the process dies.
SaleFails(t) == ~ SaleAt(t, "idle") /\ SaleGo(t, Idle) /\ UNCHANGED salesTables

Purchasing ==
  \E t \in Tills :
    \/ \E product \in Shown(Products), container \in Shown(Containers),
          pos \in Shown(PointsOfSale) :
         BeginSale(t, [pointOfSale |-> pos, container |-> container, product |-> product])
    \/ LoadPointOfSale(t) \/ LoadContainers(t) \/ SaveSale(t) \/ SaleFails(t)

Editing(edit) == edit /\ UNCHANGED <<sales, saleTask>>

SalesStep == Purchasing \/ Editing(CatalogueStep)

SalesNext == Purchasing \/ Editing(CatalogueNext)

SalesSpec == SalesInit /\ [][SalesNext]_salesVars
-----------------------------------------------------------------------------
(***************************************************************************)
(* With one edit at a time, purchases going on next to it, what was sold   *)
(* was on offer, and the revisions a purchase names go on saying so: its   *)
(* point of sale lists its container, and that its product.                *)
(***************************************************************************)
SoldIsOffered ==
  \A sale \in sales : /\ Saved(sale.pointOfSale) /\ sale.container \in RowOf(sale.pointOfSale).kids
                      /\ Saved(sale.container) /\ sale.product \in RowOf(sale.container).kids
=============================================================================
