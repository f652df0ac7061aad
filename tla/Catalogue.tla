----------------------------- MODULE Catalogue ------------------------------
(***************************************************************************)
(* Products, containers of products and points of sale with containers.    *)
(* An edit saves a new revision and then moves currentRevision; a parent's *)
(* revision lists revisions of its children, so that the edit of a child   *)
(* is passed on to every parent that lists the revision it had before.     *)
(***************************************************************************)
EXTENDS Integers, Sequences, FiniteSets, Functions, Server

CONSTANTS
  Products, Containers, PointsOfSale,
  Labels,         \* what an edit changes: a price, a name
  MaxRevision     \* bound on the revisions requests ask for

ASSUME CatalogueAssumption ==
  /\ Products \cap Containers = {} /\ (Products \cup Containers) \cap PointsOfSale = {}
  /\ IsFiniteSet(Products \cup Containers \cup PointsOfSale)
  /\ MaxRevision \in Nat

VARIABLES
  life,           \* whether an item exists and is not soft-deleted
  current,        \* its currentRevision, 0: null
  revisions,      \* its revisions 1, 2, ...
  catalogueTask

catalogueTables == <<life, current, revisions>>
catalogueVars   == <<life, current, revisions, catalogueTask>>

Items == Products \cup Containers \cup PointsOfSale

KidKind(i) == CASE i \in Containers -> Products [] i \in PointsOfSale -> Containers [] OTHER -> {}

Reference == [item : Items, revision : Nat]

Revision == [label : Labels, kids : SUBSET Reference]

Job == [do : {"update"}, item : Items, label : Labels, kids : SUBSET Items]
       \cup [do : {"delete"}, item : Items]

CatalogueTask ==
       {Idle}
  \cup [pc : {"base", "kids", "revision", "current", "parents", "remove"},
        todo : Seq(Job), base : Nat, kids : SUBSET Reference]
  \cup [pc : {"delete"}, item : Items]

CatalogueTypeOK ==
  /\ life \in [Items -> {"none", "live", "deleted"}]
  /\ current \in [Items -> Nat]
  /\ revisions \in [Items -> Seq(Revision)]
  /\ catalogueTask \in [Handlers -> CatalogueTask]

CatalogueInit ==
  /\ life = [i \in Items |-> "none"]
  /\ current = [i \in Items |-> 0]
  /\ revisions = [i \in Items |-> << >>]
  /\ catalogueTask = [h \in Handlers |-> Idle]

CatalogueAt(h, pc) == catalogueTask[h].pc = pc

CatalogueGo(h, state) == catalogueTask' = [catalogueTask EXCEPT ![h] = state]

Edit(i, label, kids) == [do |-> "update", item |-> i, label |-> label, kids |-> kids]

\* The next job of a request and of what it passes on, depth first.
Proceed(todo) ==
  IF todo = << >> THEN Idle
  ELSE [pc |-> IF Head(todo).do = "update" THEN "base" ELSE "remove",
        todo |-> todo, base |-> 0, kids |-> {}]

Live(set) == {i \in set : life[i] = "live"}

CurrentRevision(i) == revisions[i][current[i]]

\* The items whose current revision lists this revision of a child.
Parents(i, revision) ==
  {q \in Live(Items) : current[q] > 0 /\ [item |-> i, revision |-> revision] \in CurrentRevision(q).kids}

(***************************************************************************)
(* getOptions finds no revision of a container all of whose products have  *)
(* been deleted in the meantime.                                           *)
(***************************************************************************)
Found(i, revision) ==
  /\ life[i] = "live" /\ revision > 0
  /\ LET kids == {k.item : k \in revisions[i][revision].kids}
     IN  kids = {} \/ Live(kids) # {}

\* executePropagation: the parents found now, each with the children it has now.
PassOn(parents, without) ==
  {[n \in 1 .. Cardinality(parents) |->
      Edit(order[n], CurrentRevision(order[n]).label,
           {k.item : k \in CurrentRevision(order[n]).kids} \ without)] :
   order \in Surjection(1 .. Cardinality(parents), parents)}
-----------------------------------------------------------------------------
MayRequest(h) == CatalogueAt(h, "idle") /\ \A i \in Items : Len(revisions[i]) < MaxRevision

CreateItem(h, i, label, kids) ==
  /\ MayRequest(h)
  /\ life[i] = "none"
  /\ kids \subseteq Live(KidKind(i))
  /\ life' = [life EXCEPT ![i] = "live"]
  /\ CatalogueGo(h, Proceed(<<Edit(i, label, kids)>>))
  /\ UNCHANGED <<current, revisions>>

UpdateItem(h, i, label, kids) ==
  /\ MayRequest(h)
  /\ life[i] = "live"
  /\ kids \subseteq Live(KidKind(i))
  /\ CatalogueGo(h, Proceed(<<Edit(i, label, kids)>>))
  /\ UNCHANGED catalogueTables

DeleteItem(h, i) ==
  /\ MayRequest(h)
  /\ life[i] = "live"
  /\ CatalogueGo(h, IF i \in PointsOfSale THEN Proceed(<<[do |-> "delete", item |-> i]>>)
                    ELSE [pc |-> "delete", item |-> i])
  /\ UNCHANGED catalogueTables

(***************************************************************************)
(* deleteProduct and deleteContainer edit the parents first.               *)
(***************************************************************************)
DetachItem(h) ==
  LET i == catalogueTask[h].item
  IN  /\ CatalogueAt(h, "delete")
      /\ UNCHANGED catalogueTables
      /\ IF Found(i, current[i])
         THEN \E jobs \in PassOn(Parents(i, current[i]), {i}) :
                CatalogueGo(h, Proceed(jobs \o <<[do |-> "delete", item |-> i]>>))
         ELSE CatalogueGo(h, Idle)
-----------------------------------------------------------------------------
(***************************************************************************)
(* updateProduct, updateContainer and updatePointOfSale, one await at a    *)
(* time.  The base is read, then the children it will list.                *)
(***************************************************************************)
ReadItem(h) ==
  LET task == catalogueTask[h]
      i    == Head(task.todo).item
  IN  /\ CatalogueAt(h, "base")
      /\ CatalogueGo(h, IF life[i] # "live" THEN Idle
                        ELSE [task EXCEPT !.pc = IF i \in Products THEN "revision" ELSE "kids",
                                          !.base = current[i]])
      /\ UNCHANGED catalogueTables

\* A container also takes products that have been deleted since they were asked for.
Readable(i, kids) == IF i \in Containers THEN kids ELSE Live(kids)

ReadKids(h) ==
  LET task == catalogueTask[h]
      job  == Head(task.todo)
      kids == {k \in Readable(job.item, job.kids) : current[k] > 0}
  IN  /\ CatalogueAt(h, "kids")
      /\ CatalogueGo(h, [task EXCEPT !.pc = "revision",
                                     !.kids = {[item |-> k, revision |-> current[k]] : k \in kids}])
      /\ UNCHANGED catalogueTables

(***************************************************************************)
(* A revision that is there already is not inserted but updated: refused   *)
(* by denyUpdate when a column differs, while a difference in the children *)
(* alone is written to the join table, which denyUpdate does not guard.    *)
(***************************************************************************)
\* Mutant of SaveRevision: revisions may be updated.
SaveRevision_Updates(h) ==
  LET task == catalogueTask[h]
      job  == Head(task.todo)
      row  == [label |-> job.label, kids |-> task.kids]
  IN  /\ CatalogueAt(h, "revision")
      /\ revisions' = [revisions EXCEPT ![job.item] =
                         IF task.base < Len(@) THEN [@ EXCEPT ![task.base + 1] = row] ELSE Append(@, row)]
      /\ CatalogueGo(h, [task EXCEPT !.pc = "current"])
      /\ UNCHANGED <<life, current>>

SaveRevision(h) ==
  LET task  == catalogueTask[h]
      job   == Head(task.todo)
      row   == [label |-> job.label, kids |-> task.kids]
      saved == revisions[job.item]
      there == task.base < Len(saved)
      denied == there /\ saved[task.base + 1].label # job.label
  IN  /\ CatalogueAt(h, "revision")
      /\ revisions' = [revisions EXCEPT ![job.item] =
                         IF denied THEN @
                         ELSE IF there THEN [@ EXCEPT ![task.base + 1] = row] ELSE Append(@, row)]
      /\ CatalogueGo(h, IF denied THEN Idle ELSE [task EXCEPT !.pc = "current"])
      /\ UNCHANGED <<life, current>>

\* Mutant of SaveItem: the revision is counted twice, as when base is incremented above as well.
SaveItem_Twice(h) ==
  LET task == catalogueTask[h]
      i    == Head(task.todo).item
  IN  /\ CatalogueAt(h, "current")
      /\ current' = [current EXCEPT ![i] = task.base + 2]
      /\ life' = [life EXCEPT ![i] = "live"]
      /\ CatalogueGo(h, IF i \in PointsOfSale THEN Proceed(Tail(task.todo))
                        ELSE [task EXCEPT !.pc = "parents"])
      /\ UNCHANGED revisions

\* The base is saved as it was read: a deletion in between is undone.
SaveItem(h) ==
  LET task == catalogueTask[h]
      i    == Head(task.todo).item
  IN  /\ CatalogueAt(h, "current")
      /\ current' = [current EXCEPT ![i] = task.base + 1]
      /\ life' = [life EXCEPT ![i] = "live"]
      /\ CatalogueGo(h, IF i \in PointsOfSale THEN Proceed(Tail(task.todo))
                        ELSE [task EXCEPT !.pc = "parents"])
      /\ UNCHANGED revisions

\* Mutant of Propagate: the parents of the new revision are looked for.
Propagate_Current(h) ==
  LET task == catalogueTask[h]
      i    == Head(task.todo).item
  IN  /\ CatalogueAt(h, "parents")
      /\ UNCHANGED catalogueTables
      /\ \E jobs \in PassOn(IF Found(i, current[i]) THEN Parents(i, current[i]) ELSE {}, {}) :
           CatalogueGo(h, Proceed(jobs \o Tail(task.todo)))

\* propagateProductUpdate and propagateContainerUpdate.
Propagate(h) ==
  LET task == catalogueTask[h]
      i    == Head(task.todo).item
      last == current[i] - 1
  IN  /\ CatalogueAt(h, "parents")
      /\ UNCHANGED catalogueTables
      /\ \E jobs \in PassOn(IF Found(i, last) THEN Parents(i, last) ELSE {}, {}) :
           CatalogueGo(h, Proceed(jobs \o Tail(task.todo)))

RemoveItem(h) ==
  LET task == catalogueTask[h]
  IN  /\ CatalogueAt(h, "remove")
      /\ life' = [life EXCEPT ![Head(task.todo).item] = "deleted"]
      /\ CatalogueGo(h, Idle)
      /\ UNCHANGED <<current, revisions>>

\* A statement fails or the process dies.
CatalogueFails(h) ==
  ~ CatalogueAt(h, "idle") /\ CatalogueGo(h, Idle) /\ UNCHANGED catalogueTables

CatalogueStep ==
  \E h \in Handlers :
    \/ \E i \in Items, label \in Labels : \E kids \in SUBSET KidKind(i) :
         CreateItem(h, i, label, kids) \/ UpdateItem(h, i, label, kids)
    \/ \E i \in Items : DeleteItem(h, i)
    \/ DetachItem(h) \/ ReadItem(h) \/ ReadKids(h) \/ SaveRevision(h) \/ SaveItem(h)
    \/ Propagate(h) \/ RemoveItem(h)

CatalogueNext == CatalogueStep \/ \E h \in Handlers : CatalogueFails(h)

CatalogueSpec == CatalogueInit /\ [][CatalogueNext]_catalogueVars
-----------------------------------------------------------------------------
(***************************************************************************)
(* However edits interleave and wherever they fail, currentRevision names  *)
(* a revision that was saved, and no revision a purchase may point at      *)
(* disappears or changes its price or name.                                *)
(***************************************************************************)
CurrentIsSaved == \A i \in Items : current[i] \in 0 .. Len(revisions[i])

RevisionsStay ==
  [][\A i \in Items : \A r \in DOMAIN revisions[i] :
       r \in DOMAIN revisions'[i] /\ revisions'[i][r].label = revisions[i][r].label]_catalogueVars

(***************************************************************************)
(* With one edit at a time and no failure, every container and point of    *)
(* sale lists the current revision of each of its children and nothing     *)
(* that was deleted: what is sold is sold at its present price.            *)
(***************************************************************************)
CatalogueIsCurrent ==
  (\A h \in Handlers : CatalogueAt(h, "idle")) =>
    \A i \in Live(Items) : \A k \in CurrentRevision(i).kids :
      life[k.item] = "live" /\ k.revision = current[k.item]
=============================================================================
