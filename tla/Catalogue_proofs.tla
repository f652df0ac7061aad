-------------------------- MODULE Catalogue_proofs --------------------------
(***************************************************************************)
(* What is proved of the catalogue and of the purchases made from it, for  *)
(* any products, containers, points of sale, tills and prices.             *)
(***************************************************************************)
EXTENDS Sales, FiniteSetTheorems, SequenceTheorems, TLAPS
-----------------------------------------------------------------------------
(***************************************************************************)
(* The catalogue, for any items and any number of edits at once: an edit   *)
(* that has saved its revision is about to move currentRevision to one     *)
(* that is there.                                                          *)
(***************************************************************************)
UpdateJob == [do : {"update"}, item : Items, label : Labels, kids : SUBSET Items]

DeleteJob == [do : {"delete"}, item : Items]

Updating == {"base", "kids", "revision", "current", "parents"}

EditTask ==
  [pc : Updating \cup {"remove"}, todo : Seq(Job), base : Nat, kids : SUBSET Reference]

EditHolds(task, rows) ==
  /\ task.pc \in Updating => task.todo # << >> /\ Head(task.todo) \in UpdateJob
  /\ task.pc = "remove" => task.todo # << >>
  /\ task.pc \in {"kids", "revision"} => task.base <= Len(rows[Head(task.todo).item])
  /\ task.pc = "current" => task.base < Len(rows[Head(task.todo).item])

CatalogueInv ==
  /\ CatalogueTypeOK
  /\ CurrentIsSaved
  /\ \A h \in Handlers : EditHolds(catalogueTask[h], revisions)

LEMMA JobTypes ==
  /\ Job = UpdateJob \cup DeleteJob
  /\ \A job \in UpdateJob : job.do = "update" /\ job.item \in Items /\ job.label \in Labels /\ job.kids \subseteq Items
  /\ \A job \in DeleteJob : job.do = "delete" /\ job.item \in Items
  /\ \A i \in Items, label \in Labels : \A kids \in SUBSET Items : Edit(i, label, kids) \in UpdateJob
BY DEF Job, UpdateJob, DeleteJob, Edit

LEMMA CatalogueTaskTypes ==
  ASSUME NEW task \in CatalogueTask
  PROVE  /\ task.pc \in Updating \cup {"remove"} => task \in EditTask
         /\ task.pc = "delete" => task \in [pc : {"delete"}, item : Items]
BY DEF CatalogueTask, Idle, Updating, EditTask

LEMMA EditTasks == EditTask \subseteq CatalogueTask /\ Idle \in CatalogueTask /\ Idle.pc = "idle"
BY DEF CatalogueTask, Idle, Updating, EditTask

LEMMA RevisionTypes ==
  ASSUME NEW row \in Revision
  PROVE  /\ row.label \in Labels /\ row.kids \subseteq Reference
         /\ \A k \in row.kids : k.item \in Items /\ k.revision \in Nat
BY DEF Revision, Reference

LEMMA ProceedHolds ==
  ASSUME NEW todo \in Seq(Job), NEW rows
  PROVE  Proceed(todo) \in CatalogueTask /\ EditHolds(Proceed(todo), rows)
<1>1. CASE todo = << >>
  BY <1>1, EditTasks DEF Proceed, EditHolds, Updating
<1>2. CASE todo # << >>
  <2>1. Head(todo) \in Job
    BY <1>2
  <2>2. Head(todo).do = "update" => Head(todo) \in UpdateJob
    BY <2>1, JobTypes
  <2> DEFINE pc == IF Head(todo).do = "update" THEN "base" ELSE "remove"
  <2> DEFINE task == [pc |-> pc, todo |-> todo, base |-> 0, kids |-> {}]
  <2>3. Proceed(todo) = task
    BY <1>2 DEF Proceed
  <2>4. task \in EditTask
    BY DEF EditTask, Updating
  <2>5. EditHolds(task, rows)
    BY <1>2, <2>2 DEF EditHolds, Updating
  <2> HIDE DEF task
  <2> QED BY <2>3, <2>4, <2>5, EditTasks
<1> QED BY <1>1, <1>2

LEMMA CatalogueGoes ==
  ASSUME CatalogueTypeOK, NEW h \in Handlers, NEW state \in CatalogueTask, CatalogueGo(h, state)
  PROVE  /\ catalogueTask' \in [Handlers -> CatalogueTask]
         /\ \A g \in Handlers : catalogueTask'[g] = IF g = h THEN state ELSE catalogueTask[g]
BY DEF CatalogueTypeOK, CatalogueGo

(***************************************************************************)
(* A step after which there are no fewer revisions.                        *)
(***************************************************************************)
LEMMA CatalogueKeeps ==
  ASSUME CatalogueInv, NEW h \in Handlers, NEW state \in CatalogueTask, CatalogueGo(h, state),
         life' \in [Items -> {"none", "live", "deleted"}], current' \in [Items -> Nat],
         revisions' \in [Items -> Seq(Revision)],
         \A i \in Items : Len(revisions[i]) <= Len(revisions'[i]) /\ current'[i] <= Len(revisions'[i]),
         EditHolds(state, revisions')
  PROVE  CatalogueInv'
<1>1. /\ catalogueTask' \in [Handlers -> CatalogueTask]
      /\ \A g \in Handlers : catalogueTask'[g] = IF g = h THEN state ELSE catalogueTask[g]
  BY CatalogueGoes DEF CatalogueInv
<1>2. CatalogueTypeOK'
  BY <1>1 DEF CatalogueTypeOK
<1>3. \A i \in Items : current'[i] \in Nat /\ Len(revisions'[i]) \in Nat /\ Len(revisions[i]) \in Nat
  BY DEF CatalogueInv, CatalogueTypeOK
<1>4. CurrentIsSaved'
  BY <1>3 DEF CurrentIsSaved
<1>5. ASSUME NEW g \in Handlers PROVE EditHolds(catalogueTask'[g], revisions')
  <2>1. CASE g = h
    BY <1>1, <2>1
  <2>2. CASE g # h
    <3>1. PICK task \in CatalogueTask : task = catalogueTask[g] /\ task = catalogueTask'[g]
      BY <1>1, <2>2 DEF CatalogueInv, CatalogueTypeOK
    <3>2. EditHolds(task, revisions)
      BY <3>1 DEF CatalogueInv
    <3>3. CASE task.pc \in Updating
      <4>1. task.base \in Nat
        BY <3>3, CatalogueTaskTypes DEF EditTask
      <4>2. Head(task.todo).item \in Items
        BY <3>2, <3>3, JobTypes DEF EditHolds
      <4>3. PICK old \in Nat, new \in Nat : /\ old = Len(revisions[Head(task.todo).item])
                                            /\ new = Len(revisions'[Head(task.todo).item]) /\ old <= new
        BY <1>3, <4>2
      <4>4. task.pc \in {"kids", "revision"} => task.base <= Len(revisions'[Head(task.todo).item])
        <5>1. task.pc \in {"kids", "revision"} => task.base <= old
          BY <3>2, <4>3 DEF EditHolds
        <5> QED BY <4>1, <4>3, <5>1
      <4>5. task.pc = "current" => task.base < Len(revisions'[Head(task.todo).item])
        <5>1. task.pc = "current" => task.base < old
          BY <3>2, <4>3 DEF EditHolds
        <5> QED BY <4>1, <4>3, <5>1
      <4>6. EditHolds(task, revisions')
        BY <3>2, <4>4, <4>5 DEF EditHolds
      <4> QED BY <3>1, <4>6
    <3>4. CASE task.pc \notin Updating
      BY <3>1, <3>2, <3>4 DEF EditHolds, Updating
    <3> QED BY <3>3, <3>4
  <2> QED BY <2>1, <2>2
<1> QED BY <1>2, <1>4, <1>5 DEF CatalogueInv

LEMMA CatalogueGoesOn ==
  ASSUME CatalogueInv, NEW h \in Handlers, NEW state \in CatalogueTask, CatalogueGo(h, state),
         UNCHANGED <<current, revisions>>, life' \in [Items -> {"none", "live", "deleted"}],
         EditHolds(state, revisions)
  PROVE  CatalogueInv'
<1>1. /\ current' \in [Items -> Nat] /\ revisions' \in [Items -> Seq(Revision)]
      /\ \A i \in Items : Len(revisions[i]) <= Len(revisions'[i]) /\ current'[i] <= Len(revisions'[i])
  BY DEF CatalogueInv, CatalogueTypeOK, CurrentIsSaved
<1> QED BY <1>1, CatalogueKeeps

(***************************************************************************)
(* What is passed on are edits.                                            *)
(***************************************************************************)
LEMMA PassOnJobs ==
  ASSUME CatalogueInv, NEW i \in Items, NEW revision, NEW without,
         NEW jobs \in PassOn(Parents(i, revision), without)
  PROVE  jobs \in Seq(Job)
<1> DEFINE P == Parents(i, revision)
<1>1. \A q \in P : q \in Items /\ current[q] \in 1 .. Len(revisions[q])
  BY DEF Parents, Live, CatalogueInv, CatalogueTypeOK, CurrentIsSaved
<1>2. \A q \in P : CurrentRevision(q) \in Revision
  BY <1>1 DEF CurrentRevision, CatalogueInv, CatalogueTypeOK
<1>3. \A q \in P : Edit(q, CurrentRevision(q).label, {k.item : k \in CurrentRevision(q).kids} \ without) \in Job
  <2> TAKE q \in P
  <2>1. CurrentRevision(q).label \in Labels /\ {k.item : k \in CurrentRevision(q).kids} \ without \in SUBSET Items
    BY <1>2, RevisionTypes
  <2> QED BY <1>1, <2>1, JobTypes
<1>4. Cardinality(P) \in Nat
  <2>1. P \in SUBSET Items /\ IsFiniteSet(Items)
    BY <1>1, CatalogueAssumption DEF Items
  <2> QED BY <2>1, FS_Subset, FS_CardinalityType
<1>5. PICK order \in [1 .. Cardinality(P) -> P] :
        jobs = [n \in 1 .. Cardinality(P) |->
                  Edit(order[n], CurrentRevision(order[n]).label,
                       {k.item : k \in CurrentRevision(order[n]).kids} \ without)]
  BY DEF PassOn, Surjection
<1> HIDE DEF P
<1>6. \A n \in 1 .. Cardinality(P) : jobs[n] \in Job
  BY <1>3, <1>5
<1>7. jobs \in [1 .. Cardinality(P) -> Job]
  BY <1>5, <1>6
<1> QED BY <1>4, <1>7, SeqDef

(***************************************************************************)
(* A revision saved over an old one, and one at the end.                   *)
(***************************************************************************)
LEMMA RevisionAdded ==
  ASSUME NEW saved \in Seq(Revision), NEW row \in Revision, NEW base \in Nat, base <= Len(saved)
  PROVE  /\ Append(saved, row) \in Seq(Revision)
         /\ Len(saved) <= Len(Append(saved, row)) /\ base < Len(Append(saved, row))
         /\ \A r \in 1 .. Len(saved) : Append(saved, row)[r].label = saved[r].label
<1>1. Len(saved) \in Nat
  OBVIOUS
<1>2. /\ Append(saved, row) \in Seq(Revision) /\ Len(Append(saved, row)) = Len(saved) + 1
      /\ \A r \in 1 .. Len(saved) : Append(saved, row)[r] = saved[r]
  BY AppendProperties
<1>3. Len(saved) <= Len(Append(saved, row)) /\ base < Len(Append(saved, row))
  BY <1>1, <1>2
<1> QED BY <1>2, <1>3

LEMMA RevisionReplaced ==
  ASSUME NEW saved \in Seq(Revision), NEW row \in Revision, NEW base \in Nat, base < Len(saved),
         saved[base + 1].label = row.label
  PROVE  /\ [saved EXCEPT ![base + 1] = row] \in Seq(Revision)
         /\ Len([saved EXCEPT ![base + 1] = row]) = Len(saved)
         /\ \A r \in 1 .. Len(saved) : [saved EXCEPT ![base + 1] = row][r].label = saved[r].label
<1>1. base + 1 \in 1 .. Len(saved)
  OBVIOUS
<1>2. /\ [saved EXCEPT ![base + 1] = row] \in Seq(Revision)
      /\ Len([saved EXCEPT ![base + 1] = row]) = Len(saved)
      /\ \A r \in 1 .. Len(saved) : [saved EXCEPT ![base + 1] = row][r] = IF r = base + 1 THEN row ELSE saved[r]
  BY <1>1, ExceptSeq
<1> QED BY <1>2

LEMMA PassNothing == ASSUME NEW without, NEW jobs \in PassOn({}, without) PROVE jobs = << >>
<1>1. Cardinality({}) = 0
  BY FS_EmptySet
<1> QED BY <1>1 DEF PassOn, Surjection

(***************************************************************************)
(* Saving a revision: nothing, a new one at the end, or the same with      *)
(* other children.                                                         *)
(***************************************************************************)
LEMMA RevisionSaved ==
  ASSUME CatalogueInv, NEW h \in Handlers, SaveRevision(h)
  PROVE  /\ CatalogueInv'
         /\ \A i \in Items : \A r \in DOMAIN revisions[i] :
              r \in DOMAIN revisions'[i] /\ revisions'[i][r].label = revisions[i][r].label
<1> DEFINE task == catalogueTask[h]
<1> DEFINE job == Head(task.todo)
<1> DEFINE i == job.item
<1> DEFINE saved == revisions[i]
<1> DEFINE row == [label |-> job.label, kids |-> task.kids]
<1>1. task \in CatalogueTask /\ EditHolds(task, revisions) /\ task.pc = "revision"
  BY DEF CatalogueInv, CatalogueTypeOK, SaveRevision, CatalogueAt
<1>2. task \in EditTask /\ job \in UpdateJob /\ task.todo # << >> /\ task.base <= Len(saved)
  BY <1>1, CatalogueTaskTypes DEF EditHolds, Updating
<1>3. i \in Items /\ job.label \in Labels /\ task.kids \subseteq Reference /\ task.base \in Nat
  BY <1>2, JobTypes DEF EditTask
<1>4. row \in Revision /\ row.label = job.label
  BY <1>3 DEF Revision
<1>5. saved \in Seq(Revision) /\ revisions \in [Items -> Seq(Revision)] /\ current \in [Items -> Nat]
      /\ \A k \in Items : current[k] <= Len(revisions[k])
  BY <1>3 DEF CatalogueInv, CatalogueTypeOK, CurrentIsSaved
<1>6. UNCHANGED <<life, current>>
  BY DEF SaveRevision
<1>7. life' \in [Items -> {"none", "live", "deleted"}]
  BY <1>6 DEF CatalogueInv, CatalogueTypeOK
<1> HIDE DEF row
<1>8. PICK new \in Seq(Revision), state \in CatalogueTask :
        /\ revisions' = [revisions EXCEPT ![i] = new]
        /\ Len(saved) <= Len(new)
        /\ \A r \in 1 .. Len(saved) : new[r].label = saved[r].label
        /\ CatalogueGo(h, state)
        /\ state = Idle \/ (state = [task EXCEPT !.pc = "current"] /\ task.base < Len(new))
  <2>1. [task EXCEPT !.pc = "current"] \in CatalogueTask
    BY <1>2, EditTasks DEF EditTask, Updating
  <2>2. CASE task.base < Len(saved) /\ saved[task.base + 1].label # job.label
    <3>1. revisions' = [revisions EXCEPT ![i] = saved] /\ CatalogueGo(h, Idle)
      BY <2>2 DEF SaveRevision
    <3>2. Len(saved) <= Len(saved)
      BY <1>5
    <3> QED BY <1>5, <3>1, <3>2, EditTasks
  <2>3. CASE task.base < Len(saved) /\ saved[task.base + 1].label = job.label
    <3> DEFINE new == [saved EXCEPT ![task.base + 1] = row]
    <3>1. revisions' = [revisions EXCEPT ![i] = new] /\ CatalogueGo(h, [task EXCEPT !.pc = "current"])
      BY <1>3, <1>5, <2>3 DEF SaveRevision, row
    <3>2. /\ new \in Seq(Revision) /\ Len(new) = Len(saved)
          /\ \A r \in 1 .. Len(saved) : new[r].label = saved[r].label
      <4>1. PICK list \in Seq(Revision), base \in Nat, fresh \in Revision :
              /\ list = saved /\ base = task.base /\ fresh = row
              /\ base < Len(list) /\ list[base + 1].label = fresh.label
        BY <1>2, <1>3, <1>4, <1>5, <2>3
      <4>2. base < Len(list) /\ list[base + 1].label = fresh.label
        BY <4>1
      <4>3. /\ [list EXCEPT ![base + 1] = fresh] \in Seq(Revision)
            /\ Len([list EXCEPT ![base + 1] = fresh]) = Len(list)
            /\ \A r \in 1 .. Len(list) : [list EXCEPT ![base + 1] = fresh][r].label = list[r].label
        BY <4>2, RevisionReplaced
      <4> QED BY <4>1, <4>3
    <3>3. Len(saved) <= Len(saved)
      BY <1>5
    <3>4. task.base < Len(new) /\ Len(saved) <= Len(new)
      BY <2>3, <3>2, <3>3
    <3> HIDE DEF new, saved, i
    <3> QED BY <2>1, <3>1, <3>2, <3>4
  <2>4. CASE ~ (task.base < Len(saved))
    <3> DEFINE new == Append(saved, row)
    <3>1. revisions' = [revisions EXCEPT ![i] = new] /\ CatalogueGo(h, [task EXCEPT !.pc = "current"])
      BY <1>3, <1>5, <2>4 DEF SaveRevision, row
    <3>2. /\ new \in Seq(Revision) /\ Len(saved) <= Len(new) /\ task.base < Len(new)
          /\ \A r \in 1 .. Len(saved) : new[r].label = saved[r].label
      BY <1>2, <1>3, <1>4, <1>5, RevisionAdded
    <3> HIDE DEF new, saved, i
    <3> QED BY <2>1, <3>1, <3>2
  <2> QED BY <2>2, <2>3, <2>4
<1>9. /\ revisions' \in [Items -> Seq(Revision)] /\ revisions'[i] = new
      /\ \A k \in Items : k # i => revisions'[k] = revisions[k]
  BY <1>3, <1>5, <1>8
<1>10. \A k \in Items : Len(revisions[k]) <= Len(revisions'[k]) /\ current'[k] <= Len(revisions'[k])
  <2> TAKE k \in Items
  <2>1. Len(revisions[k]) \in Nat /\ Len(revisions'[k]) \in Nat /\ current[k] \in Nat
        /\ current[k] <= Len(revisions[k])
    BY <1>5, <1>9
  <2>2. Len(revisions[k]) <= Len(revisions'[k])
    BY <1>8, <1>9, <2>1
  <2> QED BY <1>6, <2>1, <2>2
<1>11. EditHolds(state, revisions')
  <2>1. CASE state = Idle
    BY <2>1, EditTasks DEF EditHolds, Updating
  <2>2. CASE state = [task EXCEPT !.pc = "current"] /\ task.base < Len(new)
    <3>1. state.pc = "current" /\ state.todo = task.todo /\ state.base = task.base
      BY <1>2, <2>2 DEF EditTask
    <3> QED BY <1>2, <1>9, <2>2, <3>1 DEF EditHolds
  <2> QED BY <1>8, <2>1, <2>2
<1>12. CatalogueInv'
  BY <1>5, <1>6, <1>7, <1>8, <1>9, <1>10, <1>11, CatalogueKeeps
<1>13. ASSUME NEW k \in Items, NEW r \in DOMAIN revisions[k]
       PROVE  r \in DOMAIN revisions'[k] /\ revisions'[k][r].label = revisions[k][r].label
  <2>1. CASE k = i
    <3>1. new \in Seq(Revision) /\ DOMAIN saved = 1 .. Len(saved) /\ DOMAIN new = 1 .. Len(new)
          /\ Len(saved) \in Nat /\ Len(new) \in Nat
      BY <1>5, <1>8
    <3>2. r \in 1 .. Len(saved) /\ r \in 1 .. Len(new)
      BY <1>8, <2>1, <3>1
    <3> QED BY <1>8, <1>9, <2>1, <3>1, <3>2
  <2>2. CASE k # i
    BY <1>9, <2>2
  <2> QED BY <2>1, <2>2
<1> QED BY <1>12, <1>13

LEMMA CatalogueStepInv == CatalogueInv /\ [CatalogueNext]_catalogueVars => CatalogueInv'
<1> SUFFICES ASSUME CatalogueInv, [CatalogueNext]_catalogueVars PROVE CatalogueInv'
  OBVIOUS
<1>0. /\ CatalogueTypeOK /\ CurrentIsSaved
      /\ \A h \in Handlers : catalogueTask[h] \in CatalogueTask /\ EditHolds(catalogueTask[h], revisions)
  BY DEF CatalogueInv, CatalogueTypeOK
<1>T. ASSUME NEW h \in Handlers, catalogueTask[h].pc \in Updating
      PROVE  /\ catalogueTask[h] \in EditTask /\ Head(catalogueTask[h].todo) \in UpdateJob
             /\ catalogueTask[h].todo \in Seq(Job) /\ catalogueTask[h].todo # << >>
             /\ Head(catalogueTask[h].todo).item \in Items /\ catalogueTask[h].base \in Nat
  <2>1. catalogueTask[h] \in EditTask /\ Head(catalogueTask[h].todo) \in UpdateJob
        /\ catalogueTask[h].todo # << >>
    BY <1>0, <1>T, CatalogueTaskTypes DEF EditHolds
  <2> QED BY <2>1, JobTypes DEF EditTask
<1>U. ASSUME NEW h \in Handlers, NEW todo \in Seq(Job), CatalogueGo(h, Proceed(todo)),
             UNCHANGED <<current, revisions>>, life' \in [Items -> {"none", "live", "deleted"}]
      PROVE  CatalogueInv'
  BY <1>U, ProceedHolds, CatalogueGoesOn
<1>E. \A i \in Items, label \in Labels : \A kids \in SUBSET KidKind(i) : <<Edit(i, label, kids)>> \in Seq(Job)
  <2> TAKE i \in Items, label \in Labels
  <2> TAKE kids \in SUBSET KidKind(i)
  <2>1. kids \in SUBSET Items
    BY DEF KidKind, Items
  <2>2. Edit(i, label, kids) \in Job
    BY <2>1, JobTypes
  <2> QED BY <2>2
<1>I. \A rows : EditHolds(Idle, rows)
  BY EditTasks DEF EditHolds, Updating
<1>L. ASSUME UNCHANGED catalogueTables
      PROVE  UNCHANGED <<current, revisions>> /\ life' \in [Items -> {"none", "live", "deleted"}]
  BY <1>0, <1>L DEF catalogueTables, CatalogueTypeOK
<1>1. ASSUME NEW h \in Handlers, NEW i \in Items, NEW label \in Labels, NEW kids \in SUBSET KidKind(i),
             CreateItem(h, i, label, kids)
      PROVE  CatalogueInv'
  <2>1. life' \in [Items -> {"none", "live", "deleted"}]
    BY <1>0, <1>1 DEF CreateItem, CatalogueTypeOK
  <2> QED BY <1>1, <1>E, <1>U, <2>1 DEF CreateItem
<1>2. ASSUME NEW h \in Handlers, NEW i \in Items, NEW label \in Labels, NEW kids \in SUBSET KidKind(i),
             UpdateItem(h, i, label, kids)
      PROVE  CatalogueInv'
  BY <1>2, <1>E, <1>L, <1>U DEF UpdateItem
<1>3. ASSUME NEW h \in Handlers, NEW i \in Items, DeleteItem(h, i) PROVE CatalogueInv'
  <2>1. CASE i \in PointsOfSale
    <3>1. <<[do |-> "delete", item |-> i]>> \in Seq(Job)
      BY DEF Job
    <3> QED BY <1>3, <1>L, <1>U, <2>1, <3>1 DEF DeleteItem
  <2>2. CASE i \notin PointsOfSale
    <3>1. [pc |-> "delete", item |-> i] \in CatalogueTask
      BY DEF CatalogueTask
    <3>2. EditHolds([pc |-> "delete", item |-> i], revisions)
      BY DEF EditHolds, Updating
    <3>3. CatalogueGo(h, [pc |-> "delete", item |-> i])
      BY <1>3, <2>2 DEF DeleteItem
    <3> QED BY <1>3, <1>L, <3>1, <3>2, <3>3, CatalogueGoesOn DEF DeleteItem
  <2> QED BY <2>1, <2>2
<1>4. ASSUME NEW h \in Handlers, DetachItem(h) PROVE CatalogueInv'
  <2> DEFINE i == catalogueTask[h].item
  <2>1. i \in Items
    BY <1>0, <1>4, CatalogueTaskTypes DEF DetachItem, CatalogueAt
  <2>2. CASE Found(i, current[i])
    <3>1. PICK jobs \in PassOn(Parents(i, current[i]), {i}) :
            CatalogueGo(h, Proceed(jobs \o <<[do |-> "delete", item |-> i]>>))
      BY <1>4, <2>2 DEF DetachItem
    <3>2. [do |-> "delete", item |-> i] \in Job /\ jobs \in Seq(Job)
      BY <2>1, PassOnJobs DEF Job
    <3>3. jobs \o <<[do |-> "delete", item |-> i]>> \in Seq(Job)
      BY <3>2
    <3> QED BY <1>4, <1>L, <1>U, <3>1, <3>3 DEF DetachItem
  <2>3. CASE ~ Found(i, current[i])
    BY <1>4, <1>I, <1>L, <2>3, CatalogueGoesOn, EditTasks DEF DetachItem
  <2> QED BY <2>2, <2>3
<1>5. ASSUME NEW h \in Handlers, ReadItem(h) PROVE CatalogueInv'
  <2> DEFINE task == catalogueTask[h]
  <2> DEFINE i == Head(task.todo).item
  <2>1. task \in EditTask /\ Head(task.todo) \in UpdateJob /\ i \in Items /\ task.todo # << >>
    BY <1>5, <1>T DEF ReadItem, CatalogueAt, Updating
  <2>2. CASE life[i] # "live"
    BY <1>5, <1>I, <1>L, <2>2, CatalogueGoesOn, EditTasks DEF ReadItem
  <2>3. CASE life[i] = "live"
    <3>1. PICK pc \in {"kids", "revision"} :
            CatalogueGo(h, [task EXCEPT !.pc = pc, !.base = current[i]])
      BY <1>5, <2>3 DEF ReadItem
    <3> DEFINE state == [task EXCEPT !.pc = pc, !.base = current[i]]
    <3>2. current[i] \in Nat /\ current[i] <= Len(revisions[i])
      BY <1>0, <2>1 DEF CatalogueTypeOK, CurrentIsSaved
    <3>3. state \in EditTask /\ state.pc = pc /\ state.todo = task.todo /\ state.base = current[i]
      BY <2>1, <3>2 DEF EditTask, Updating
    <3>4. CatalogueGo(h, state)
      BY <3>1
    <3> HIDE DEF state
    <3>5. EditHolds(state, revisions)
      BY <2>1, <3>2, <3>3 DEF EditHolds
    <3> QED BY <1>5, <1>L, <3>3, <3>4, <3>5, CatalogueGoesOn, EditTasks DEF ReadItem
  <2> QED BY <2>2, <2>3
<1>6. ASSUME NEW h \in Handlers, ReadKids(h) PROVE CatalogueInv'
  <2> DEFINE task == catalogueTask[h]
  <2> DEFINE job == Head(task.todo)
  <2> DEFINE kids == {k \in Readable(job.item, job.kids) : current[k] > 0}
  <2> DEFINE listed == {[item |-> k, revision |-> current[k]] : k \in kids}
  <2>1. task \in EditTask /\ Head(task.todo) \in UpdateJob /\ task.todo # << >>
        /\ task.base <= Len(revisions[Head(task.todo).item])
    BY <1>0, <1>6, <1>T DEF ReadKids, CatalogueAt, Updating, EditHolds
  <2>2. kids \subseteq Items
    BY <2>1, JobTypes DEF Readable, Live
  <2>3. listed \in SUBSET Reference
    BY <1>0, <2>2 DEF Reference, CatalogueTypeOK
  <2> DEFINE state == [task EXCEPT !.pc = "revision", !.kids = listed]
  <2>4. CatalogueGo(h, state)
    BY <1>6 DEF ReadKids
  <2> HIDE DEF listed
  <2>5. state \in EditTask /\ state.pc = "revision" /\ state.todo = task.todo /\ state.base = task.base
    BY <2>1, <2>3 DEF EditTask, Updating
  <2> HIDE DEF state
  <2>6. EditHolds(state, revisions)
    BY <2>1, <2>5 DEF EditHolds
  <2> QED BY <1>6, <1>L, <2>4, <2>5, <2>6, CatalogueGoesOn, EditTasks DEF ReadKids
<1>7. ASSUME NEW h \in Handlers, SaveRevision(h) PROVE CatalogueInv'
  BY <1>0, <1>7, RevisionSaved
<1>8. ASSUME NEW h \in Handlers, SaveItem(h) PROVE CatalogueInv'
  <2> DEFINE task == catalogueTask[h]
  <2> DEFINE i == Head(task.todo).item
  <2>1. /\ task \in EditTask /\ Head(task.todo) \in UpdateJob /\ i \in Items /\ task.todo \in Seq(Job)
        /\ task.todo # << >> /\ task.base \in Nat /\ task.base < Len(revisions[i])
    BY <1>0, <1>8, <1>T DEF SaveItem, CatalogueAt, Updating, EditHolds
  <2>2. PICK state \in CatalogueTask : CatalogueGo(h, state) /\ EditHolds(state, revisions)
    <3>1. CASE i \in PointsOfSale
      <4>1. Tail(task.todo) \in Seq(Job)
        BY <2>1
      <4>2. CatalogueGo(h, Proceed(Tail(task.todo)))
        BY <1>8, <3>1 DEF SaveItem
      <4> QED BY <4>1, <4>2, ProceedHolds
    <3>2. CASE i \notin PointsOfSale
      <4> DEFINE state == [task EXCEPT !.pc = "parents"]
      <4>1. CatalogueGo(h, state)
        BY <1>8, <3>2 DEF SaveItem
      <4>2. state \in EditTask /\ state.pc = "parents" /\ state.todo = task.todo
        BY <2>1 DEF EditTask, Updating
      <4> HIDE DEF state
      <4>3. EditHolds(state, revisions)
        BY <2>1, <4>2 DEF EditHolds
      <4> QED BY <4>1, <4>2, <4>3, EditTasks
    <3> QED BY <3>1, <3>2
  <2>3. /\ revisions' = revisions /\ current' = [current EXCEPT ![i] = task.base + 1]
        /\ life' = [life EXCEPT ![i] = "live"]
    BY <1>8 DEF SaveItem
  <2>4. life' \in [Items -> {"none", "live", "deleted"}] /\ current' \in [Items -> Nat]
    BY <1>0, <2>1, <2>3 DEF CatalogueTypeOK
  <2>5. \A k \in Items : Len(revisions[k]) <= Len(revisions'[k]) /\ current'[k] <= Len(revisions'[k])
    BY <1>0, <2>1, <2>3 DEF CatalogueTypeOK, CurrentIsSaved
  <2>6. revisions' \in [Items -> Seq(Revision)] /\ EditHolds(state, revisions')
    BY <1>0, <2>2, <2>3 DEF CatalogueTypeOK
  <2> QED BY <2>2, <2>4, <2>5, <2>6, CatalogueKeeps
<1>9. ASSUME NEW h \in Handlers, Propagate(h) PROVE CatalogueInv'
  <2> DEFINE task == catalogueTask[h]
  <2> DEFINE i == Head(task.todo).item
  <2>1. i \in Items /\ task.todo \in Seq(Job) /\ task.todo # << >>
    BY <1>9, <1>T DEF Propagate, CatalogueAt, Updating
  <2>2. PICK jobs \in Seq(Job) : CatalogueGo(h, Proceed(jobs \o Tail(task.todo)))
    <3>1. CASE Found(i, current[i] - 1)
      <4>1. PICK jobs \in PassOn(Parents(i, current[i] - 1), {}) :
              CatalogueGo(h, Proceed(jobs \o Tail(task.todo)))
        BY <1>9, <3>1 DEF Propagate
      <4>2. jobs \in Seq(Job)
        BY <2>1, <4>1, PassOnJobs
      <4> QED BY <4>1, <4>2
    <3>2. CASE ~ Found(i, current[i] - 1)
      <4>1. PICK jobs \in PassOn({}, {}) : CatalogueGo(h, Proceed(jobs \o Tail(task.todo)))
        BY <1>9, <3>2 DEF Propagate
      <4>2. jobs \in Seq(Job)
        <5>1. jobs = << >> /\ << >> \in Seq(Job)
          BY <4>1, PassNothing
        <5> QED BY <5>1
      <4> QED BY <4>1, <4>2
    <3> QED BY <3>1, <3>2
  <2>3. jobs \o Tail(task.todo) \in Seq(Job)
    BY <2>1, <2>2
  <2> QED BY <1>9, <1>L, <1>U, <2>2, <2>3 DEF Propagate
<1>10. ASSUME NEW h \in Handlers, RemoveItem(h) PROVE CatalogueInv'
  <2>1. life' \in [Items -> {"none", "live", "deleted"}]
    BY <1>0, <1>10 DEF RemoveItem, CatalogueTypeOK
  <2> QED BY <1>10, <1>I, <2>1, CatalogueGoesOn, EditTasks DEF RemoveItem
<1>11. ASSUME NEW h \in Handlers, CatalogueFails(h) PROVE CatalogueInv'
  BY <1>11, <1>I, <1>L, CatalogueGoesOn, EditTasks DEF CatalogueFails
<1>12. ASSUME UNCHANGED catalogueVars PROVE CatalogueInv'
  BY <1>0, <1>12 DEF catalogueVars, CatalogueInv, CatalogueTypeOK, CurrentIsSaved, EditHolds
<1> QED BY <1>1, <1>2, <1>3, <1>4, <1>5, <1>6, <1>7, <1>8, <1>9, <1>10, <1>11, <1>12
        DEF CatalogueNext, CatalogueStep

LEMMA CatalogueInitInv == CatalogueInit => CatalogueInv
<1>1. EditHolds(Idle, revisions)
  BY EditTasks DEF EditHolds, Updating
<1> QED BY <1>1, EditTasks DEF CatalogueInit, CatalogueInv, CatalogueTypeOK, CurrentIsSaved

LEMMA CatalogueInvAlways == CatalogueSpec => []CatalogueInv
<1>1. CatalogueInv /\ [CatalogueNext]_catalogueVars => CatalogueInv'
  BY CatalogueStepInv
<1> QED BY <1>1, CatalogueInitInv, PTL DEF CatalogueSpec

(***************************************************************************)
(* Whatever edits interleave and fail, the items, their revisions and the  *)
(* edits keep their types.                                                 *)
(***************************************************************************)
THEOREM CatalogueTypeCorrect == CatalogueSpec => []CatalogueTypeOK
<1>1. CatalogueInv => CatalogueTypeOK
  BY DEF CatalogueInv
<1> QED BY <1>1, CatalogueInvAlways, PTL

(***************************************************************************)
(* updateProduct, updateContainer, updatePointOfSale and what they pass    *)
(* on, any number at once and cut off anywhere: currentRevision names a    *)
(* revision that was saved.                                                *)
(***************************************************************************)
THEOREM CurrentIsSavedAlways == CatalogueSpec => []CurrentIsSaved
<1>1. CatalogueInv => CurrentIsSaved
  BY DEF CatalogueInv
<1> QED BY <1>1, CatalogueInvAlways, PTL

(***************************************************************************)
(* The same edits: a saved revision stays, with its price and its name.    *)
(***************************************************************************)
THEOREM RevisionsStayAlways == CatalogueSpec => RevisionsStay
<1> DEFINE Stay == \A i \in Items : \A r \in DOMAIN revisions[i] :
                     r \in DOMAIN revisions'[i] /\ revisions'[i][r].label = revisions[i][r].label
<1>1. ASSUME CatalogueInv, [CatalogueNext]_catalogueVars PROVE Stay
  <2>1. CASE UNCHANGED revisions
    BY <2>1
  <2>2. ASSUME NEW h \in Handlers, SaveRevision(h) PROVE Stay
    BY <1>1, <2>2, RevisionSaved
  <2> QED BY <1>1, <2>1, <2>2
          DEF CatalogueNext, CatalogueStep, CreateItem, UpdateItem, DeleteItem, DetachItem, ReadItem, ReadKids,
              SaveItem, Propagate, RemoveItem, CatalogueFails, catalogueTables, catalogueVars
<1>2. Stay => [Stay]_catalogueVars
  OBVIOUS
<1>3. CatalogueSpec => [][Stay]_catalogueVars
  BY <1>1, <1>2, CatalogueInvAlways, PTL DEF CatalogueSpec
<1> QED BY <1>3 DEF RevisionsStay
-----------------------------------------------------------------------------
(***************************************************************************)
(* One edit at a time that does not fail: an item has as many revisions as *)
(* its current one says, and one more between the saves of an edit.  Every *)
(* revision is a new one, then.                                            *)
(***************************************************************************)
Between(task, i) == task.pc = "current" /\ Head(task.todo).item = i

InOrder(task, cur, rows) ==
  /\ \A i \in Items : Len(rows[i]) = IF Between(task, i) THEN cur[i] + 1 ELSE cur[i]
  /\ task.pc \in {"kids", "revision", "current"} => task.base = cur[Head(task.todo).item]

OrderInv == \A h \in Handlers : InOrder(catalogueTask[h], current, revisions)

OnlyGrow(rows, next) == \A i \in Items : \A r \in DOMAIN rows[i] : r \in DOMAIN next[i] /\ next[i][r] = rows[i][r]

LEMMA OnlyEdit ==
  ASSUME \A g, h \in Handlers : g = h, CatalogueTypeOK, NEW h \in Handlers, NEW state \in CatalogueTask,
         CatalogueGo(h, state), InOrder(state, current', revisions')
  PROVE  OrderInv'
<1>1. catalogueTask'[h] = state
  BY CatalogueGoes
<1>2. \A g \in Handlers : InOrder(catalogueTask'[g], current', revisions')
  BY <1>1
<1> QED BY <1>2 DEF OrderInv

(***************************************************************************)
(* Between two edits, and where one begins.                                *)
(***************************************************************************)
LEMMA OrderKept ==
  ASSUME NEW task, NEW state, NEW cur, NEW rows, InOrder(task, cur, rows), task.pc # "current",
         state.pc \notin {"kids", "revision", "current"}
  PROVE  InOrder(state, cur, rows)
BY DEF InOrder, Between

LEMMA ProceedPc ==
  ASSUME NEW todo
  PROVE  Proceed(todo).pc \in {"idle", "base", "remove"}
BY DEF Proceed, Idle

LEMMA OneMore ==
  ASSUME NEW old \in Seq(Revision), NEW row \in Revision
  PROVE  /\ Append(old, row) \in Seq(Revision) /\ Len(Append(old, row)) = Len(old) + 1
         /\ \A r \in DOMAIN old : r \in DOMAIN Append(old, row) /\ Append(old, row)[r] = old[r]
         /\ Len(old) + 1 \in DOMAIN Append(old, row) /\ Append(old, row)[Len(old) + 1] = row
         /\ \A r \in DOMAIN Append(old, row) : r \in DOMAIN old \/ r = Len(old) + 1
<1> DEFINE new == Append(old, row)
<1>1. /\ new \in Seq(Revision) /\ Len(new) = Len(old) + 1 /\ Len(old) \in Nat
      /\ \A r \in 1 .. Len(old) : new[r] = old[r]
      /\ new[Len(old) + 1] = row
  BY AppendProperties
<1> HIDE DEF new
<1>2. DOMAIN old = 1 .. Len(old) /\ DOMAIN new = 1 .. Len(old) + 1
  BY <1>1
<1> QED BY <1>1, <1>2 DEF new

(***************************************************************************)
(* The revision that is saved is a new one.                                *)
(***************************************************************************)
LEMMA RevisionAppended ==
  ASSUME CatalogueInv, OrderInv, NEW h \in Handlers, SaveRevision(h)
  PROVE  LET task == catalogueTask[h]
             i    == Head(task.todo).item
             row  == [label |-> Head(task.todo).label, kids |-> task.kids]
         IN  /\ task \in EditTask /\ task.pc = "revision" /\ i \in Items /\ row \in Revision
             /\ \A k \in Items : Len(revisions[k]) = current[k]
             /\ revisions' = [revisions EXCEPT ![i] = Append(revisions[i], row)]
             /\ CatalogueGo(h, [task EXCEPT !.pc = "current"]) /\ UNCHANGED <<life, current>>
<1> DEFINE task == catalogueTask[h]
<1> DEFINE i == Head(task.todo).item
<1> DEFINE row == [label |-> Head(task.todo).label, kids |-> task.kids]
<1>1. /\ CatalogueTypeOK /\ task \in CatalogueTask /\ EditHolds(task, revisions)
      /\ InOrder(task, current, revisions) /\ task.pc = "revision"
  BY DEF CatalogueInv, CatalogueTypeOK, OrderInv, SaveRevision, CatalogueAt
<1>2. task \in EditTask /\ Head(task.todo) \in UpdateJob
  BY <1>1, CatalogueTaskTypes DEF Updating, EditHolds
<1>3. i \in Items /\ row \in Revision /\ task.base \in Nat
  BY <1>2, JobTypes DEF EditTask, Revision
<1>4. task.base = current[i] /\ \A k \in Items : Len(revisions[k]) = current[k]
  BY <1>1, <1>3 DEF InOrder, Between
<1>5. revisions[i] \in Seq(Revision) /\ current \in [Items -> Nat]
  BY <1>1, <1>3 DEF CatalogueTypeOK
<1>6. ~ (task.base < Len(revisions[i]))
  BY <1>3, <1>4, <1>5
<1> HIDE DEF row
<1>7. /\ revisions' = [revisions EXCEPT ![i] = Append(revisions[i], row)]
      /\ CatalogueGo(h, [task EXCEPT !.pc = "current"]) /\ UNCHANGED <<life, current>>
  BY <1>3, <1>5, <1>6 DEF SaveRevision, row
<1> QED BY <1>1, <1>2, <1>3, <1>4, <1>7 DEF row

LEMMA CatalogueStepOrder ==
  ASSUME \A g, h \in Handlers : g = h, CatalogueInv, OrderInv, [CatalogueStep]_catalogueVars
  PROVE  OrderInv' /\ OnlyGrow(revisions, revisions')
<1>0. /\ CatalogueTypeOK
      /\ \A h \in Handlers : /\ catalogueTask[h] \in CatalogueTask /\ EditHolds(catalogueTask[h], revisions)
                             /\ InOrder(catalogueTask[h], current, revisions)
  BY DEF CatalogueInv, CatalogueTypeOK, OrderInv
<1>G. ASSUME UNCHANGED revisions PROVE OnlyGrow(revisions, revisions')
  BY <1>G DEF OnlyGrow
<1>K. ASSUME NEW h \in Handlers, NEW state, CatalogueGo(h, state), UNCHANGED <<current, revisions>>,
             catalogueTask[h].pc # "current", state.pc \notin {"kids", "revision", "current"}
      PROVE  OrderInv' /\ OnlyGrow(revisions, revisions')
  <2>1. InOrder(state, current', revisions')
    BY <1>0, <1>K, OrderKept
  <2>2. catalogueTask'[h] = state
    BY <1>0, <1>K DEF CatalogueGo, CatalogueTypeOK
  <2>3. \A g \in Handlers : InOrder(catalogueTask'[g], current', revisions')
    BY <2>1, <2>2
  <2> QED BY <1>G, <1>K, <2>3 DEF OrderInv
<1>L. ASSUME UNCHANGED catalogueTables PROVE UNCHANGED <<current, revisions>>
  BY <1>L DEF catalogueTables
<1>1. ASSUME NEW h \in Handlers, NEW i \in Items, NEW label \in Labels, NEW kids \in SUBSET KidKind(i),
             CreateItem(h, i, label, kids) \/ UpdateItem(h, i, label, kids)
      PROVE  OrderInv' /\ OnlyGrow(revisions, revisions')
  <2>1. /\ CatalogueGo(h, Proceed(<<Edit(i, label, kids)>>)) /\ UNCHANGED <<current, revisions>>
        /\ catalogueTask[h].pc = "idle"
    BY <1>1, <1>L DEF CreateItem, UpdateItem, MayRequest, CatalogueAt
  <2> QED BY <1>K, <2>1, ProceedPc
<1>2. ASSUME NEW h \in Handlers, NEW i \in Items, DeleteItem(h, i)
      PROVE  OrderInv' /\ OnlyGrow(revisions, revisions')
  <2>1. PICK state : CatalogueGo(h, state) /\ state.pc \in {"idle", "base", "remove", "delete"}
    <3>1. CASE i \in PointsOfSale
      BY <1>2, <3>1, ProceedPc DEF DeleteItem
    <3>2. CASE i \notin PointsOfSale
      BY <1>2, <3>2 DEF DeleteItem
    <3> QED BY <3>1, <3>2
  <2> QED BY <1>2, <1>K, <1>L, <2>1 DEF DeleteItem, MayRequest, CatalogueAt
<1>3. ASSUME NEW h \in Handlers, DetachItem(h) PROVE OrderInv' /\ OnlyGrow(revisions, revisions')
  <2>1. PICK state : CatalogueGo(h, state) /\ state.pc \in {"idle", "base", "remove"}
    BY <1>3, ProceedPc, EditTasks DEF DetachItem
  <2> QED BY <1>3, <1>K, <1>L, <2>1 DEF DetachItem, CatalogueAt
<1>4. ASSUME NEW h \in Handlers, Propagate(h) PROVE OrderInv' /\ OnlyGrow(revisions, revisions')
  <2>1. PICK state : CatalogueGo(h, state) /\ state.pc \in {"idle", "base", "remove"}
    BY <1>4, ProceedPc DEF Propagate
  <2> QED BY <1>4, <1>K, <1>L, <2>1 DEF Propagate, CatalogueAt
<1>5. ASSUME NEW h \in Handlers, RemoveItem(h) PROVE OrderInv' /\ OnlyGrow(revisions, revisions')
  BY <1>5, <1>K, EditTasks DEF RemoveItem, CatalogueAt
<1>6. ASSUME NEW h \in Handlers, ReadItem(h) PROVE OrderInv' /\ OnlyGrow(revisions, revisions')
  <2> DEFINE task == catalogueTask[h]
  <2> DEFINE i == Head(task.todo).item
  <2>1. task \in EditTask /\ Head(task.todo) \in UpdateJob /\ i \in Items /\ task.pc = "base"
    <3>1. task \in EditTask /\ Head(task.todo) \in UpdateJob /\ task.pc = "base"
      BY <1>0, <1>6, CatalogueTaskTypes DEF ReadItem, CatalogueAt, Updating, EditHolds
    <3> QED BY <3>1, JobTypes
  <2>2. CASE life[i] # "live"
    <3>1. CatalogueGo(h, Idle) /\ UNCHANGED <<current, revisions>>
      BY <1>6, <1>L, <2>2 DEF ReadItem
    <3> QED BY <1>K, <2>1, <3>1, EditTasks
  <2>3. CASE life[i] = "live"
    <3>1. PICK pc \in {"kids", "revision"} :
            CatalogueGo(h, [task EXCEPT !.pc = pc, !.base = current[i]])
      BY <1>6, <2>3 DEF ReadItem
    <3> DEFINE state == [task EXCEPT !.pc = pc, !.base = current[i]]
    <3>2. current[i] \in Nat
      BY <1>0, <2>1 DEF CatalogueTypeOK
    <3>3. state \in EditTask /\ state.pc = pc /\ state.todo = task.todo /\ state.base = current[i]
      BY <2>1, <3>2 DEF EditTask, Updating
    <3>4. CatalogueGo(h, state) /\ UNCHANGED <<current, revisions>>
      BY <1>6, <1>L, <3>1 DEF ReadItem
    <3> HIDE DEF state
    <3>5. InOrder(state, current', revisions')
      BY <1>0, <2>1, <3>3, <3>4 DEF InOrder, Between
    <3> QED BY <1>0, <1>G, <3>3, <3>4, <3>5, OnlyEdit, EditTasks
  <2> QED BY <2>2, <2>3
<1>7. ASSUME NEW h \in Handlers, ReadKids(h) PROVE OrderInv' /\ OnlyGrow(revisions, revisions')
  <2> DEFINE task == catalogueTask[h]
  <2>1. CatalogueInv'
    BY <1>7, CatalogueStepInv DEF CatalogueNext, CatalogueStep
  <2>2. task \in EditTask /\ task.pc = "kids"
    BY <1>0, <1>7, CatalogueTaskTypes DEF ReadKids, CatalogueAt, Updating
  <2>3. catalogueTask'[h].pc = "revision" /\ catalogueTask'[h].todo = task.todo /\ catalogueTask'[h].base = task.base
    BY <1>0, <1>7, <2>2 DEF ReadKids, CatalogueGo, CatalogueTypeOK, EditTask
  <2>4. UNCHANGED <<current, revisions>>
    BY <1>7, <1>L DEF ReadKids
  <2>5. InOrder(catalogueTask'[h], current', revisions')
    BY <1>0, <2>2, <2>3, <2>4 DEF InOrder, Between
  <2>6. \A g \in Handlers : InOrder(catalogueTask'[g], current', revisions')
    BY <2>5
  <2> QED BY <1>G, <2>4, <2>6 DEF OrderInv
<1>8. ASSUME NEW h \in Handlers, SaveRevision(h) PROVE OrderInv' /\ OnlyGrow(revisions, revisions')
  <2> DEFINE task == catalogueTask[h]
  <2> DEFINE i == Head(task.todo).item
  <2> DEFINE row == [label |-> Head(task.todo).label, kids |-> task.kids]
  <2> DEFINE state == [task EXCEPT !.pc = "current"]
  <2>1. /\ task \in EditTask /\ task.pc = "revision" /\ i \in Items /\ row \in Revision
        /\ \A k \in Items : Len(revisions[k]) = current[k]
        /\ revisions' = [revisions EXCEPT ![i] = Append(revisions[i], row)]
        /\ CatalogueGo(h, state) /\ UNCHANGED current
    BY <1>8, RevisionAppended
  <2> HIDE DEF row
  <2>2. task.base = current[i]
    BY <1>0, <2>1 DEF InOrder
  <2>4. revisions[i] \in Seq(Revision) /\ revisions \in [Items -> Seq(Revision)] /\ current \in [Items -> Nat]
    BY <1>0, <2>1 DEF CatalogueTypeOK
  <2>7. /\ Append(revisions[i], row) \in Seq(Revision)
        /\ Len(Append(revisions[i], row)) = Len(revisions[i]) + 1
        /\ \A r \in DOMAIN revisions[i] :
             r \in DOMAIN Append(revisions[i], row) /\ Append(revisions[i], row)[r] = revisions[i][r]
    BY <2>1, <2>4, OneMore
  <2>8. state \in EditTask /\ state.pc = "current" /\ state.todo = task.todo /\ state.base = task.base
    BY <2>1 DEF EditTask, Updating
  <2> HIDE DEF state
  <2>9. \A k \in Items : Len(revisions'[k]) = IF k = i THEN current[k] + 1 ELSE current[k]
    BY <2>1, <2>4, <2>7
  <2>10. InOrder(state, current', revisions')
    BY <2>1, <2>2, <2>8, <2>9 DEF InOrder, Between
  <2>11. ASSUME NEW k \in Items, NEW r \in DOMAIN revisions[k]
         PROVE  r \in DOMAIN revisions'[k] /\ revisions'[k][r] = revisions[k][r]
    <3>1. CASE k = i
      BY <2>1, <2>4, <2>7, <3>1
    <3>2. CASE k # i
      BY <2>1, <2>4, <3>2
    <3> QED BY <3>1, <3>2
  <2> QED BY <1>0, <2>1, <2>8, <2>10, <2>11, OnlyEdit, EditTasks DEF OnlyGrow
<1>9. ASSUME NEW h \in Handlers, SaveItem(h) PROVE OrderInv' /\ OnlyGrow(revisions, revisions')
  <2> DEFINE task == catalogueTask[h]
  <2> DEFINE i == Head(task.todo).item
  <2>1. task \in EditTask /\ Head(task.todo) \in UpdateJob /\ task.pc = "current"
    BY <1>0, <1>9, CatalogueTaskTypes DEF SaveItem, CatalogueAt, Updating, EditHolds
  <2>2. i \in Items /\ task.base \in Nat
    BY <2>1, JobTypes DEF EditTask
  <2>3. /\ task.base = current[i]
        /\ \A k \in Items : Len(revisions[k]) = IF k = i THEN current[k] + 1 ELSE current[k]
    BY <1>0, <2>1 DEF InOrder, Between
  <2>4. PICK state : CatalogueGo(h, state) /\ state.pc \in {"idle", "base", "remove", "parents"}
    <3>1. CASE i \in PointsOfSale
      BY <1>9, <3>1, ProceedPc DEF SaveItem
    <3>2. CASE i \notin PointsOfSale
      <4>1. CatalogueGo(h, [task EXCEPT !.pc = "parents"])
        BY <1>9, <3>2 DEF SaveItem
      <4>2. [task EXCEPT !.pc = "parents"].pc = "parents"
        BY <2>1 DEF EditTask
      <4> QED BY <4>1, <4>2
    <3> QED BY <3>1, <3>2
  <2>5. current' = [current EXCEPT ![i] = task.base + 1] /\ UNCHANGED revisions
    BY <1>9 DEF SaveItem
  <2>6. \A k \in Items : Len(revisions'[k]) = current'[k]
    BY <1>0, <2>2, <2>3, <2>5 DEF CatalogueTypeOK
  <2>7. InOrder(state, current', revisions')
    BY <2>4, <2>6 DEF InOrder, Between
  <2>8. catalogueTask'[h] = state
    BY <1>0, <2>4 DEF CatalogueGo, CatalogueTypeOK
  <2>9. \A g \in Handlers : InOrder(catalogueTask'[g], current', revisions')
    BY <2>7, <2>8
  <2> QED BY <1>G, <2>5, <2>9 DEF OrderInv
<1>10. ASSUME UNCHANGED catalogueVars PROVE OrderInv' /\ OnlyGrow(revisions, revisions')
  <2>1. UNCHANGED <<current, revisions, catalogueTask>>
    BY <1>10 DEF catalogueVars
  <2> QED BY <1>0, <1>G, <2>1 DEF OrderInv
<1> QED BY <1>1, <1>2, <1>3, <1>4, <1>5, <1>6, <1>7, <1>8, <1>9, <1>10 DEF CatalogueStep

LEMMA CatalogueInitOrder == CatalogueInit => OrderInv
<1> SUFFICES ASSUME CatalogueInit PROVE OrderInv
  OBVIOUS
<1>1. \A h \in Handlers : catalogueTask[h] = Idle
  BY DEF CatalogueInit
<1>2. \A i \in Items : revisions[i] = << >> /\ current[i] = 0 /\ Len(<< >>) = 0
  BY DEF CatalogueInit
<1>3. InOrder(Idle, current, revisions)
  BY <1>2, EditTasks DEF InOrder, Between
<1> QED BY <1>1, <1>3 DEF OrderInv
-----------------------------------------------------------------------------
(***************************************************************************)
(* One edit at a time that does not fail, and what it passes on.  A        *)
(* current revision may list an older one of a child only while an edit of *)
(* its item is among the jobs that are left, or the child has just been    *)
(* saved and its parents have not been looked for.  A deletion is the last *)
(* job, and an item that still lists what is deleted has an edit before.   *)
(***************************************************************************)
Rank(i) == IF i \in Products THEN 0 ELSE IF i \in Containers THEN 1 ELSE 2

OnSale(i, lives, cur) == lives[i] = "live" /\ cur[i] > 0

KidsOf(i, cur, rows) == rows[i][cur[i]].kids

UpdatedIn(jobs) == {job.item : job \in {j \in jobs : j.do = "update"}}

\* The jobs whose revision is not yet the current one.
Left(task) ==
  IF task.pc \in (Updating \cup {"remove"}) \ {"parents"} THEN task.todo
  ELSE IF task.pc = "parents" THEN Tail(task.todo) ELSE << >>

\* The item whose parents list the revision before.
Moved(task) == IF task.pc = "parents" THEN {Head(task.todo).item} ELSE {}

TablesHold(lives, cur, rows) ==
  /\ lives \in [Items -> {"none", "live", "deleted"}]
  /\ cur \in [Items -> Nat] /\ rows \in [Items -> Seq(Revision)]
  /\ \A i \in Items : cur[i] <= Len(rows[i])

RowsInRank(rows) ==
  \A i \in Items : \A r \in DOMAIN rows[i] : \A k \in rows[i][r].kids : k.item \in KidKind(i) /\ k.revision > 0

KidSettles(i, k, jobs, moved, lives, cur) ==
  /\ lives[k.item] = "live"
  /\ k.revision = cur[k.item] \/ i \in UpdatedIn(jobs) \/ (k.item \in moved /\ k.revision = cur[k.item] - 1)
  /\ \A d \in jobs : d.do = "delete" /\ d.item = k.item => i \in UpdatedIn(jobs)

Settles(jobs, moved, lives, cur, rows) ==
  /\ RowsInRank(rows)
  /\ \A i \in Items : lives[i] = "none" => cur[i] = 0
  /\ \A i \in Items : lives[i] = "live" => cur[i] > 0 \/ i \in UpdatedIn(jobs)
  /\ \A i \in Items : OnSale(i, lives, cur) =>
       \A k \in KidsOf(i, cur, rows) : KidSettles(i, k, jobs, moved, lives, cur)

TodoHolds(todo, lives) ==
  /\ \A j \in Range(todo) : j.do = "update" => lives[j.item] = "live" /\ j.kids \subseteq KidKind(j.item)
  /\ \A j \in Range(todo) : j.do = "update" => \A x \in j.kids : lives[x] = "live"
  /\ \A j, d \in Range(todo) : j.do = "update" /\ d.do = "delete" =>
       d.item \notin j.kids /\ Rank(j.item) > Rank(d.item)
  /\ \A n \in 1 .. Len(todo) - 1 : todo[n].do = "update"

KidsFit(kids, job, lives, cur) ==
  \A k \in kids : k.item \in job.kids /\ lives[k.item] = "live" /\ k.revision = cur[k.item] /\ k.revision > 0

TaskHolds(task, lives, cur, rows) ==
  /\ Settles(Range(Left(task)), Moved(task), lives, cur, rows)
  /\ task.pc \in Updating \cup {"remove"} => TodoHolds(task.todo, lives)
  /\ task.pc = "remove" => Head(task.todo).do = "delete"
  /\ task.pc = "delete" => lives[task.item] = "live" /\ task.item \notin PointsOfSale
  /\ task.pc \in Updating \ {"parents"} => KidsFit(task.kids, Head(task.todo), lives, cur)
  /\ task.pc = "current" => rows[Head(task.todo).item][cur[Head(task.todo).item] + 1].kids = task.kids
  /\ task.pc = "parents" =>
       LET i == Head(task.todo).item
       IN  cur[i] > 1 => \A k \in rows[i][cur[i] - 1].kids : lives[k.item] = "live"

PropagatesInv == \A h \in Handlers : TaskHolds(catalogueTask[h], life, current, revisions)

LEMMA RankFacts ==
  ASSUME NEW i \in Items, NEW k \in KidKind(i)
  PROVE  k \in Items /\ k # i /\ k \notin PointsOfSale /\ Rank(i) = Rank(k) + 1 /\ Rank(k) \in Nat
BY CatalogueAssumption DEF Items, KidKind, Rank

LEMMA RankTypes == \A i : Rank(i) \in Nat
BY DEF Rank

LEMMA KidsInRank ==
  ASSUME NEW lives, NEW cur, NEW rows, TablesHold(lives, cur, rows), RowsInRank(rows),
         NEW i \in Items, cur[i] > 0, NEW k \in KidsOf(i, cur, rows)
  PROVE  k \in Reference /\ k.item \in KidKind(i) /\ k.revision > 0
<1>1. rows[i] \in Seq(Revision) /\ cur[i] \in 1 .. Len(rows[i])
  BY DEF TablesHold
<1>2. rows[i][cur[i]] \in Revision /\ cur[i] \in DOMAIN rows[i]
  BY <1>1
<1> QED BY <1>2, RevisionTypes DEF RowsInRank, KidsOf

LEMMA RangeOfTail ==
  ASSUME NEW todo \in Seq(Job), todo # << >>
  PROVE  /\ Head(todo) \in Job /\ Tail(todo) \in Seq(Job)
         /\ Range(todo) = {Head(todo)} \cup Range(Tail(todo))
         /\ Len(Tail(todo)) = Len(todo) - 1
         /\ \A n \in 1 .. Len(todo) - 1 : Tail(todo)[n] = todo[n + 1]
<1>1. /\ Head(todo) = todo[1] /\ Head(todo) \in Job /\ Tail(todo) \in Seq(Job) /\ Len(todo) \in Nat /\ Len(todo) > 0
      /\ Len(Tail(todo)) = Len(todo) - 1 /\ \A n \in 1 .. Len(todo) - 1 : Tail(todo)[n] = todo[n + 1]
  BY HeadTailProperties
<1>2. DOMAIN todo = 1 .. Len(todo) /\ DOMAIN Tail(todo) = 1 .. Len(todo) - 1
  BY <1>1
<1>3. ASSUME NEW n \in DOMAIN todo PROVE todo[n] \in {Head(todo)} \cup Range(Tail(todo))
  <2>1. CASE n = 1
    BY <1>1, <2>1
  <2>2. CASE n # 1
    <3>1. n - 1 \in 1 .. Len(todo) - 1 /\ (n - 1) + 1 = n
      BY <1>1, <1>2, <2>2
    <3>2. Tail(todo)[n - 1] = todo[n]
      BY <1>1, <3>1
    <3> QED BY <1>2, <3>1, <3>2 DEF Range
  <2> QED BY <2>1, <2>2
<1>4. ASSUME NEW n \in DOMAIN Tail(todo) PROVE Tail(todo)[n] \in Range(todo)
  <2>1. n + 1 \in DOMAIN todo /\ Tail(todo)[n] = todo[n + 1]
    BY <1>1, <1>2
  <2> QED BY <2>1 DEF Range
<1>5. Head(todo) \in Range(todo)
  BY <1>1, <1>2 DEF Range
<1> QED BY <1>1, <1>3, <1>4, <1>5 DEF Range

LEMMA RangeOfConcat ==
  ASSUME NEW s \in Seq(Job), NEW t \in Seq(Job)
  PROVE  s \o t \in Seq(Job) /\ Range(s \o t) = Range(s) \cup Range(t)
<1>1. /\ s \o t \in Seq(Job) /\ Len(s) \in Nat /\ Len(t) \in Nat /\ Len(s \o t) = Len(s) + Len(t)
      /\ \A n \in 1 .. Len(s) + Len(t) : (s \o t)[n] = IF n <= Len(s) THEN s[n] ELSE t[n - Len(s)]
  BY ConcatProperties
<1>2. DOMAIN s = 1 .. Len(s) /\ DOMAIN t = 1 .. Len(t) /\ DOMAIN (s \o t) = 1 .. Len(s) + Len(t)
  BY <1>1
<1>3. ASSUME NEW n \in DOMAIN s PROVE s[n] \in Range(s \o t)
  <2>1. n \in DOMAIN (s \o t) /\ (s \o t)[n] = s[n]
    BY <1>1, <1>2
  <2> QED BY <2>1 DEF Range
<1>4. ASSUME NEW n \in DOMAIN t PROVE t[n] \in Range(s \o t)
  <2>1. n + Len(s) \in DOMAIN (s \o t) /\ (n + Len(s)) - Len(s) = n /\ ~ (n + Len(s) <= Len(s))
    BY <1>1, <1>2
  <2>2. (s \o t)[n + Len(s)] = t[n]
    BY <1>1, <1>2, <2>1
  <2> QED BY <2>1, <2>2 DEF Range
<1>5. ASSUME NEW n \in DOMAIN (s \o t) PROVE (s \o t)[n] \in Range(s) \cup Range(t)
  <2>1. CASE n <= Len(s)
    BY <1>1, <1>2, <2>1 DEF Range
  <2>2. CASE ~ (n <= Len(s))
    <3>1. n - Len(s) \in DOMAIN t /\ (s \o t)[n] = t[n - Len(s)]
      BY <1>1, <1>2, <2>2
    <3> QED BY <3>1 DEF Range
  <2> QED BY <2>1, <2>2
<1> QED BY <1>1, <1>3, <1>4, <1>5 DEF Range

LEMMA TodoTail ==
  ASSUME NEW todo \in Seq(Job), todo # << >>, NEW lives, TodoHolds(todo, lives)
  PROVE  TodoHolds(Tail(todo), lives)
<1>1. \A n \in 1 .. Len(Tail(todo)) - 1 : Tail(todo)[n].do = "update"
  <2> TAKE n \in 1 .. Len(Tail(todo)) - 1
  <2>1. Len(todo) \in Nat /\ n \in 1 .. Len(todo) - 1 /\ n + 1 \in 1 .. Len(todo) - 1
    BY RangeOfTail
  <2> QED BY <2>1, RangeOfTail DEF TodoHolds
<1> QED BY <1>1, RangeOfTail DEF TodoHolds

(***************************************************************************)
(* The first job that is left begins.                                      *)
(***************************************************************************)
LEMMA EmptyRange == Range(<< >>) = {} /\ UpdatedIn({}) = {}
BY DEF Range, UpdatedIn

LEMMA IdleHolds ==
  ASSUME NEW lives, NEW cur, NEW rows, Settles({}, {}, lives, cur, rows)
  PROVE  TaskHolds(Idle, lives, cur, rows)
<1>1. Range(Left(Idle)) = {} /\ Moved(Idle) = {}
  BY EditTasks, EmptyRange DEF Left, Moved, Updating
<1> QED BY <1>1, EditTasks DEF TaskHolds, Updating

LEMMA ProceedSettles ==
  ASSUME NEW todo \in Seq(Job), NEW lives, NEW cur, NEW rows,
         TodoHolds(todo, lives), Settles(Range(todo), {}, lives, cur, rows)
  PROVE  TaskHolds(Proceed(todo), lives, cur, rows)
<1>1. CASE todo = << >>
  BY <1>1, IdleHolds, EmptyRange DEF Proceed
<1>2. CASE todo # << >>
  <2> DEFINE pc == IF Head(todo).do = "update" THEN "base" ELSE "remove"
  <2> DEFINE task == [pc |-> pc, todo |-> todo, base |-> 0, kids |-> {}]
  <2>1. Proceed(todo) = task
    BY <1>2 DEF Proceed
  <2>2. task.pc = pc /\ task.todo = todo /\ task.kids = {}
    OBVIOUS
  <2>3. pc \in {"base", "remove"} /\ (pc = "remove" => Head(todo).do = "delete")
    <3>1. Head(todo) \in Job
      BY <1>2, RangeOfTail
    <3> QED BY <3>1, JobTypes
  <2> HIDE DEF task, pc
  <2>4. Left(task) = todo /\ Moved(task) = {}
    BY <2>2, <2>3 DEF Left, Moved, Updating
  <2>5. KidsFit(task.kids, Head(task.todo), lives, cur)
    BY <2>2 DEF KidsFit
  <2> QED BY <2>1, <2>2, <2>3, <2>4, <2>5 DEF TaskHolds
<1> QED BY <1>1, <1>2
-----------------------------------------------------------------------------
(***************************************************************************)
(* What is passed on is one edit for each parent, with the children it has *)
(* now.                                                                    *)
(***************************************************************************)
LEMMA PassOnEdits ==
  ASSUME CatalogueInv, NEW i \in Items, NEW revision, NEW without,
         NEW jobs \in PassOn(Parents(i, revision), without)
  PROVE  /\ \A j \in Range(jobs) :
              /\ j.do = "update" /\ j.item \in Parents(i, revision)
              /\ j.kids = {k.item : k \in KidsOf(j.item, current, revisions)} \ without
         /\ UpdatedIn(Range(jobs)) = Parents(i, revision)
<1> DEFINE P == Parents(i, revision)
<1>1. PICK order \in Surjection(1 .. Cardinality(P), P) :
        jobs = [n \in 1 .. Cardinality(P) |->
                  Edit(order[n], CurrentRevision(order[n]).label,
                       {k.item : k \in CurrentRevision(order[n]).kids} \ without)]
  BY DEF PassOn
<1>2. DOMAIN jobs = 1 .. Cardinality(P)
  BY <1>1
<1> HIDE DEF P
<1>3. order \in [1 .. Cardinality(P) -> P] /\ \A q \in P : \E n \in 1 .. Cardinality(P) : order[n] = q
  BY <1>1 DEF Surjection
<1>4. \A n \in 1 .. Cardinality(P) :
        /\ jobs[n].do = "update" /\ jobs[n].item = order[n] /\ order[n] \in P
        /\ jobs[n].kids = {k.item : k \in CurrentRevision(order[n]).kids} \ without
  BY <1>1, <1>3 DEF Edit
<1>5. \A q : CurrentRevision(q).kids = KidsOf(q, current, revisions)
  BY DEF CurrentRevision, KidsOf
<1>6. \A j \in Range(jobs) : /\ j.do = "update" /\ j.item \in P
                             /\ j.kids = {k.item : k \in KidsOf(j.item, current, revisions)} \ without
  BY <1>2, <1>4, <1>5 DEF Range
<1>7. \A q \in P : \E j \in Range(jobs) : j.do = "update" /\ j.item = q
  BY <1>2, <1>3, <1>4 DEF Range
<1>8. UpdatedIn(Range(jobs)) = P
  BY <1>6, <1>7 DEF UpdatedIn
<1> QED BY <1>6, <1>8 DEF P

LEMMA InvTables ==
  ASSUME CatalogueInv PROVE TablesHold(life, current, revisions)
BY DEF CatalogueInv, CatalogueTypeOK, CurrentIsSaved, TablesHold

LEMMA ParentFacts ==
  ASSUME CatalogueInv, RowsInRank(revisions), NEW i \in Items, NEW revision, NEW q \in Parents(i, revision)
  PROVE  /\ q \in Items /\ life[q] = "live" /\ current[q] > 0 /\ Rank(q) = Rank(i) + 1
         /\ \A k \in KidsOf(q, current, revisions) : k.item \in KidKind(q) /\ Rank(k.item) = Rank(i)
<1>1. q \in Items /\ life[q] = "live" /\ current[q] > 0
      /\ [item |-> i, revision |-> revision] \in KidsOf(q, current, revisions)
  BY DEF Parents, Live, KidsOf, CurrentRevision
<1>2. \A k \in KidsOf(q, current, revisions) : k.item \in KidKind(q)
  BY <1>1, InvTables, KidsInRank
<1>3. i \in KidKind(q)
  BY <1>1, <1>2
<1>4. \A k \in KidKind(q) : Rank(q) = Rank(k) + 1 /\ Rank(k) \in Nat
  BY <1>1, RankFacts
<1>5. \A k \in KidsOf(q, current, revisions) : Rank(k.item) = Rank(i)
  <2> TAKE k \in KidsOf(q, current, revisions)
  <2>1. PICK x \in KidKind(q) : x = k.item
    BY <1>2
  <2> QED BY <1>3, <1>4, <2>1
<1> QED BY <1>1, <1>2, <1>3, <1>4, <1>5

LEMMA ParentsKids ==
  ASSUME NEW jobs, NEW moved, Settles(jobs, moved, life, current, revisions), NEW i, NEW revision
  PROVE  \A q \in Parents(i, revision) : \A k \in KidsOf(q, current, revisions) : life[k.item] = "live"
<1> TAKE q \in Parents(i, revision)
<1>1. q \in Items /\ OnSale(q, life, current)
  BY DEF Parents, Live, OnSale
<1> TAKE k \in KidsOf(q, current, revisions)
<1>2. KidSettles(q, k, jobs, moved, life, current)
  BY <1>1 DEF Settles
<1> QED BY <1>2 DEF KidSettles

LEMMA PassOnHolds ==
  ASSUME CatalogueInv, NEW due, NEW moved, Settles(due, moved, life, current, revisions),
         NEW i \in Items, NEW revision, NEW without,
         NEW jobs \in PassOn(Parents(i, revision), without), NEW rest \in Seq(Job), TodoHolds(rest, life),
         \A d \in Range(rest) : d.do = "delete" => Rank(i) > Rank(d.item) \/ (d.item = i /\ i \in without)
  PROVE  /\ jobs \o rest \in Seq(Job) /\ TodoHolds(jobs \o rest, life)
         /\ UpdatedIn(Range(jobs \o rest)) = Parents(i, revision) \cup UpdatedIn(Range(rest))
         /\ \A d \in Range(jobs \o rest) : d.do = "delete" => d \in Range(rest)
<1>1. jobs \in Seq(Job)
  BY PassOnJobs
<1>2. jobs \o rest \in Seq(Job) /\ Range(jobs \o rest) = Range(jobs) \cup Range(rest)
  BY <1>1, RangeOfConcat
<1>3. /\ \A j \in Range(jobs) :
           /\ j.do = "update" /\ j.item \in Parents(i, revision)
           /\ j.kids = {k.item : k \in KidsOf(j.item, current, revisions)} \ without
      /\ UpdatedIn(Range(jobs)) = Parents(i, revision)
  BY PassOnEdits
<1>4. \A d \in Range(jobs \o rest) : d.do = "delete" => d \in Range(rest)
  BY <1>2, <1>3
<1>5. UpdatedIn(Range(jobs \o rest)) = Parents(i, revision) \cup UpdatedIn(Range(rest))
  <2>1. UpdatedIn(Range(jobs \o rest)) = UpdatedIn(Range(jobs)) \cup UpdatedIn(Range(rest))
    BY <1>2 DEF UpdatedIn
  <2> QED BY <1>3, <2>1
<1>6. ASSUME NEW j \in Range(jobs)
      PROVE  /\ j.item \in Items /\ life[j.item] = "live" /\ j.kids \subseteq KidKind(j.item) /\ Rank(j.item) = Rank(i) + 1
             /\ \A x \in j.kids : Rank(x) = Rank(i) /\ x \notin without /\ life[x] = "live"
  <2>1. PICK q \in Parents(i, revision) : q = j.item
    BY <1>3
  <2>2. /\ q \in Items /\ life[q] = "live" /\ Rank(q) = Rank(i) + 1
        /\ \A k \in KidsOf(q, current, revisions) :
             k.item \in KidKind(q) /\ Rank(k.item) = Rank(i) /\ life[k.item] = "live"
    BY ParentFacts, ParentsKids DEF Settles
  <2>3. \A x \in j.kids : x \notin without /\ \E k \in KidsOf(q, current, revisions) : k.item = x
    BY <1>3, <2>1
  <2> QED BY <2>1, <2>2, <2>3
<1>7. ASSUME NEW j \in Range(jobs), NEW d \in Range(rest), d.do = "delete"
      PROVE  d.item \notin j.kids /\ Rank(j.item) > Rank(d.item)
  <2>1. Rank(i) \in Nat /\ Rank(d.item) \in Nat
    BY RankTypes
  <2>2. Rank(j.item) = Rank(i) + 1 /\ \A x \in j.kids : Rank(x) = Rank(i) /\ x \notin without
    BY <1>6
  <2>3. CASE Rank(i) > Rank(d.item)
    BY <2>1, <2>2, <2>3
  <2>4. CASE d.item = i /\ i \in without
    <3>1. Rank(j.item) > Rank(d.item)
      BY <2>1, <2>2, <2>4
    <3>2. d.item \notin j.kids
      BY <2>2, <2>4
    <3> QED BY <3>1, <3>2
  <2> QED BY <1>7, <2>3, <2>4
<1>8. \A n \in 1 .. Len(jobs \o rest) - 1 : (jobs \o rest)[n].do = "update"
  <2> TAKE n \in 1 .. Len(jobs \o rest) - 1
  <2>1. /\ Len(jobs) \in Nat /\ Len(rest) \in Nat /\ Len(jobs \o rest) = Len(jobs) + Len(rest)
        /\ n \in Nat /\ n \in 1 .. Len(jobs) + Len(rest)
        /\ (jobs \o rest)[n] = IF n <= Len(jobs) THEN jobs[n] ELSE rest[n - Len(jobs)]
    BY <1>1, ConcatProperties
  <2>2. CASE n <= Len(jobs)
    <3>1. n \in DOMAIN jobs
      BY <1>1, <2>1, <2>2
    <3>2. jobs[n] \in Range(jobs)
      BY <3>1 DEF Range
    <3> QED BY <1>3, <2>1, <2>2, <3>2
  <2>3. CASE ~ (n <= Len(jobs))
    <3>1. n - Len(jobs) \in 1 .. Len(rest) - 1
      BY <2>1, <2>3
    <3>2. rest[n - Len(jobs)].do = "update"
      BY <3>1 DEF TodoHolds
    <3> QED BY <2>1, <2>3, <3>2
  <2> QED BY <2>2, <2>3
<1>9. TodoHolds(jobs \o rest, life)
  <2>1. \A j \in Range(jobs \o rest) : j.do = "update" =>
          life[j.item] = "live" /\ j.kids \subseteq KidKind(j.item) /\ \A x \in j.kids : life[x] = "live"
    BY <1>2, <1>6 DEF TodoHolds
  <2>2. \A j, d \in Range(jobs \o rest) : j.do = "update" /\ d.do = "delete" =>
          d.item \notin j.kids /\ Rank(j.item) > Rank(d.item)
    BY <1>2, <1>4, <1>7 DEF TodoHolds
  <2> QED BY <1>8, <2>1, <2>2 DEF TodoHolds
<1> QED BY <1>2, <1>4, <1>5, <1>9

(***************************************************************************)
(* The parents of a child that was saved have become jobs.                 *)
(***************************************************************************)
LEMMA ParentsFound ==
  ASSUME CatalogueInv, NEW i \in Items, life[i] = "live", NEW rest \in Seq(Job), TodoHolds(rest, life),
         Settles(Range(rest), {i}, life, current, revisions),
         current[i] > 1 => \A k \in revisions[i][current[i] - 1].kids : life[k.item] = "live",
         \A d \in Range(rest) : d.do = "delete" => Rank(i) > Rank(d.item),
         NEW jobs \in PassOn(IF Found(i, current[i] - 1) THEN Parents(i, current[i] - 1) ELSE {}, {})
  PROVE  /\ jobs \o rest \in Seq(Job) /\ TodoHolds(jobs \o rest, life)
         /\ Settles(Range(jobs \o rest), {}, life, current, revisions)
<1> DEFINE last == current[i] - 1
<1>0. TablesHold(life, current, revisions) /\ RowsInRank(revisions) /\ current[i] \in Nat
  BY InvTables DEF Settles, TablesHold
<1>1. CASE Found(i, last)
  <2>1. jobs \in PassOn(Parents(i, last), {})
    BY <1>1
  <2>2. /\ jobs \o rest \in Seq(Job) /\ TodoHolds(jobs \o rest, life)
        /\ UpdatedIn(Range(jobs \o rest)) = Parents(i, last) \cup UpdatedIn(Range(rest))
        /\ \A d \in Range(jobs \o rest) : d.do = "delete" => d \in Range(rest)
    BY <1>0, <2>1, PassOnHolds
  <2>3. ASSUME NEW q \in Items, OnSale(q, life, current), NEW k \in KidsOf(q, current, revisions)
        PROVE  KidSettles(q, k, Range(jobs \o rest), {}, life, current)
    <3>1. KidSettles(q, k, Range(rest), {i}, life, current)
      BY <2>3 DEF Settles
    <3>2. k.item = i /\ k.revision = last => q \in Parents(i, last)
      <4>1. k \in Reference /\ current[q] > 0 /\ life[q] = "live"
        BY <1>0, <2>3, KidsInRank DEF OnSale
      <4>2. k = [item |-> k.item, revision |-> k.revision]
        BY <4>1 DEF Reference
      <4> QED BY <2>3, <4>1, <4>2 DEF Parents, Live, KidsOf, CurrentRevision
    <3> QED BY <2>2, <3>1, <3>2 DEF KidSettles
  <2> QED BY <2>2, <2>3 DEF Settles
<1>2. CASE ~ Found(i, last)
  <2>1. jobs = << >>
    BY <1>2, PassNothing
  <2>2. jobs \o rest = rest
    BY <2>1
  <2>3. ASSUME NEW q \in Items, OnSale(q, life, current), NEW k \in KidsOf(q, current, revisions),
               k.item = i, k.revision = last
        PROVE  FALSE
    <3>1. k.revision > 0
      BY <1>0, <2>3, KidsInRank DEF OnSale
    <3>2. current[i] > 1 /\ last > 0
      BY <1>0, <2>3, <3>1
    <3> DEFINE kids == {x.item : x \in revisions[i][last].kids}
    <3>3. \A x \in kids : life[x] = "live"
      BY <3>2
    <3>4. Live(kids) = kids
      BY <3>3 DEF Live
    <3> QED BY <1>2, <3>2, <3>4 DEF Found
  <2>4. ASSUME NEW q \in Items, OnSale(q, life, current), NEW k \in KidsOf(q, current, revisions)
        PROVE  KidSettles(q, k, Range(rest), {}, life, current)
    <3>1. KidSettles(q, k, Range(rest), {i}, life, current)
      BY <2>4 DEF Settles
    <3> QED BY <2>3, <2>4, <3>1 DEF KidSettles
  <2> QED BY <2>2, <2>4 DEF Settles
<1> QED BY <1>1, <1>2

(***************************************************************************)
(* The parents of an item that goes are edited first.                      *)
(***************************************************************************)
LEMMA ParentsDetached ==
  ASSUME CatalogueInv, NEW i \in Items, Settles({}, {}, life, current, revisions),
         NEW jobs \in PassOn(Parents(i, current[i]), {i})
  PROVE  LET todo == jobs \o <<[do |-> "delete", item |-> i]>>
         IN  todo \in Seq(Job) /\ TodoHolds(todo, life) /\ Settles(Range(todo), {}, life, current, revisions)
<1> DEFINE gone == [do |-> "delete", item |-> i]
<1> DEFINE rest == <<gone>>
<1>1. gone \in Job /\ gone.do = "delete" /\ gone.item = i
  BY JobTypes DEF DeleteJob
<1> HIDE DEF gone
<1>2. rest \in Seq(Job) /\ Range(rest) = {gone} /\ Len(rest) = 1
  BY <1>1 DEF Range
<1>3. UpdatedIn(Range(rest)) = {}
  BY <1>1, <1>2 DEF UpdatedIn
<1>4. TodoHolds(rest, life)
  BY <1>1, <1>2 DEF TodoHolds
<1> HIDE DEF rest
<1> DEFINE todo == jobs \o rest
<1>5. RowsInRank(revisions)
  BY DEF Settles
<1>6. \A d \in Range(rest) : d.do = "delete" => Rank(i) > Rank(d.item) \/ (d.item = i /\ i \in {i})
  BY <1>1, <1>2
<1>7. /\ todo \in Seq(Job) /\ TodoHolds(todo, life)
      /\ UpdatedIn(Range(todo)) = Parents(i, current[i])
      /\ \A d \in Range(todo) : d.do = "delete" => d = gone
  <2>1. current[i] \in Nat
    BY InvTables DEF TablesHold
  <2>2. PICK revision, without : revision = current[i] /\ without = {i}
    BY <2>1
  <2>3. jobs \in PassOn(Parents(i, revision), without)
    BY <2>2
  <2>4. \A d \in Range(rest) : d.do = "delete" => Rank(i) > Rank(d.item) \/ (d.item = i /\ i \in without)
    BY <1>6, <2>2
  <2>5. /\ todo \in Seq(Job) /\ TodoHolds(todo, life)
        /\ UpdatedIn(Range(todo)) = Parents(i, revision) \cup UpdatedIn(Range(rest))
        /\ \A d \in Range(todo) : d.do = "delete" => d \in Range(rest)
    BY <1>2, <1>4, <2>3, <2>4, PassOnHolds
  <2> HIDE DEF todo
  <2> QED BY <1>2, <1>3, <2>2, <2>5
<1> HIDE DEF todo
<1>8. ASSUME NEW q \in Items, OnSale(q, life, current), NEW k \in KidsOf(q, current, revisions)
      PROVE  KidSettles(q, k, Range(todo), {}, life, current)
  <2>1. KidSettles(q, k, {}, {}, life, current)
    BY <1>8 DEF Settles
  <2>2. life[k.item] = "live" /\ k.revision = current[k.item]
    BY <2>1 DEF KidSettles, UpdatedIn
  <2>3. k.item = i => q \in Parents(i, current[i])
    <3>1. k \in Reference /\ current[q] > 0 /\ life[q] = "live"
      BY <1>5, <1>8, InvTables, KidsInRank DEF OnSale
    <3>2. k = [item |-> k.item, revision |-> k.revision]
      BY <3>1 DEF Reference
    <3> QED BY <1>8, <2>2, <3>1, <3>2 DEF Parents, Live, KidsOf, CurrentRevision
  <2> QED BY <1>1, <1>7, <2>2, <2>3 DEF KidSettles
<1>9. Settles(Range(todo), {}, life, current, revisions)
  BY <1>8, EmptyRange DEF Settles
<1> QED BY <1>7, <1>9 DEF todo, rest, gone
-----------------------------------------------------------------------------
(***************************************************************************)
(* A revision is added that is not current yet.                            *)
(***************************************************************************)
LEMMA AddedSettles ==
  ASSUME NEW jobs, NEW moved, NEW lives, NEW cur, NEW rows, TablesHold(lives, cur, rows),
         Settles(jobs, moved, lives, cur, rows), NEW i \in Items, cur[i] = Len(rows[i]),
         NEW row \in Revision, \A k \in row.kids : k.item \in KidKind(i) /\ k.revision > 0,
         NEW next, next[i] = Append(rows[i], row), \A q \in Items : q # i => next[q] = rows[q]
  PROVE  Settles(jobs, moved, lives, cur, next) /\ next[i][cur[i] + 1] = row
<1>1. /\ rows[i] \in Seq(Revision) /\ rows \in [Items -> Seq(Revision)]
      /\ \A q \in Items : cur[q] \in Nat /\ cur[q] <= Len(rows[q]) /\ Len(rows[q]) \in Nat /\ DOMAIN rows[q] = 1 .. Len(rows[q])
  BY DEF TablesHold
<1> DEFINE new == Append(rows[i], row)
<1>2. /\ \A r \in DOMAIN rows[i] : r \in DOMAIN new /\ new[r] = rows[i][r]
      /\ new[Len(rows[i]) + 1] = row
      /\ \A r \in DOMAIN new : r \in DOMAIN rows[i] \/ r = Len(rows[i]) + 1
  BY <1>1, OneMore
<1> HIDE DEF new
<1>3. next[i] = new /\ \A q \in Items : q # i => next[q] = rows[q]
  BY DEF new
<1>4. next[i][cur[i] + 1] = row
  BY <1>2, <1>3
<1>5. RowsInRank(next)
  <2> SUFFICES ASSUME NEW q \in Items, NEW r \in DOMAIN next[q], NEW k \in next[q][r].kids
               PROVE  k.item \in KidKind(q) /\ k.revision > 0
    BY DEF RowsInRank
  <2>1. CASE q # i \/ r \in DOMAIN rows[i]
    <3>1. r \in DOMAIN rows[q] /\ next[q][r] = rows[q][r]
      BY <1>2, <1>3, <2>1
    <3> QED BY <3>1 DEF Settles, RowsInRank
  <2>2. CASE q = i /\ r = Len(rows[i]) + 1
    BY <1>2, <1>3, <2>2
  <2> QED BY <1>2, <1>3, <2>1, <2>2
<1>6. ASSUME NEW q \in Items, OnSale(q, lives, cur) PROVE KidsOf(q, cur, next) = KidsOf(q, cur, rows)
  <2>1. cur[q] \in DOMAIN rows[q]
    BY <1>1, <1>6 DEF OnSale
  <2> QED BY <1>2, <1>3, <2>1 DEF KidsOf
<1> QED BY <1>4, <1>5, <1>6 DEF Settles

(***************************************************************************)
(* The saved revision becomes the current one: its own children are the    *)
(* current ones, and what lists the item lists the revision before.        *)
(***************************************************************************)
LEMMA SavedSettles ==
  ASSUME NEW todo \in Seq(Job), todo # << >>, Head(todo).do = "update",
         NEW lives, NEW cur, NEW rows, TablesHold(lives, cur, rows), TodoHolds(todo, lives),
         Settles(Range(todo), {}, lives, cur, rows),
         NEW i \in Items, i = Head(todo).item, NEW kids, KidsFit(kids, Head(todo), lives, cur),
         rows[i][cur[i] + 1].kids = kids,
         NEW next, next = [cur EXCEPT ![i] = cur[i] + 1]
  PROVE  Settles(Range(Tail(todo)), {i}, lives, next, rows)
<1>1. /\ cur \in [Items -> Nat] /\ next \in [Items -> Nat] /\ next[i] = cur[i] + 1
      /\ \A q \in Items : q # i => next[q] = cur[q]
  BY DEF TablesHold
<1>2. Range(todo) = {Head(todo)} \cup Range(Tail(todo))
  BY RangeOfTail
<1>3. \A q : q \in UpdatedIn(Range(todo)) => q = i \/ q \in UpdatedIn(Range(Tail(todo)))
  BY <1>2 DEF UpdatedIn
<1>4. /\ \A k \in kids : k.item \in Head(todo).kids /\ lives[k.item] = "live" /\ k.revision = cur[k.item]
      /\ Head(todo).kids \subseteq KidKind(i) /\ lives[i] = "live"
      /\ \A d \in Range(todo) : d.do = "delete" => d.item \notin Head(todo).kids
  BY <1>2 DEF KidsFit, TodoHolds
<1>5. RowsInRank(rows)
  BY DEF Settles
<1>6. ASSUME NEW k \in KidsOf(i, next, rows) PROVE KidSettles(i, k, Range(Tail(todo)), {i}, lives, next)
  <2>1. k \in kids
    BY <1>1 DEF KidsOf
  <2>2. k.item \in KidKind(i)
    BY <1>4, <2>1
  <2>3. k.item \in Items /\ k.item # i
    BY <2>2, RankFacts
  <2>4. next[k.item] = cur[k.item]
    BY <1>1, <2>3
  <2> QED BY <1>2, <1>4, <2>1, <2>4 DEF KidSettles
<1>7. ASSUME NEW q \in Items, q # i, OnSale(q, lives, next), NEW k \in KidsOf(q, next, rows)
      PROVE  KidSettles(q, k, Range(Tail(todo)), {i}, lives, next)
  <2>1. OnSale(q, lives, cur) /\ k \in KidsOf(q, cur, rows) /\ cur[q] > 0
    BY <1>1, <1>7 DEF OnSale, KidsOf
  <2>2. KidSettles(q, k, Range(todo), {}, lives, cur)
    BY <2>1 DEF Settles
  <2>3. k.item \in KidKind(q)
    BY <1>5, <2>1, KidsInRank
  <2>4. k.item \in Items
    BY <2>3, RankFacts
  <2>5. q \in UpdatedIn(Range(todo)) => q \in UpdatedIn(Range(Tail(todo)))
    BY <1>3, <1>7
  <2>6. \A d \in Range(Tail(todo)) : d.do = "delete" /\ d.item = k.item => q \in UpdatedIn(Range(Tail(todo)))
    BY <1>2, <2>2, <2>5 DEF KidSettles
  <2>7. k.revision = cur[k.item] \/ q \in UpdatedIn(Range(Tail(todo)))
    BY <2>2, <2>5 DEF KidSettles
  <2>8. CASE k.item = i
    <3>1. next[k.item] - 1 = cur[k.item]
      BY <1>1, <2>8
    <3> QED BY <2>2, <2>6, <2>7, <2>8, <3>1 DEF KidSettles
  <2>9. CASE k.item # i
    BY <1>1, <2>2, <2>4, <2>6, <2>7, <2>9 DEF KidSettles
  <2> QED BY <2>8, <2>9
<1>8. \A q \in Items : OnSale(q, lives, next) =>
        \A k \in KidsOf(q, next, rows) : KidSettles(q, k, Range(Tail(todo)), {i}, lives, next)
  BY <1>6, <1>7
<1>9. \A q \in Items : lives[q] = "none" => next[q] = 0
  BY <1>1, <1>4 DEF Settles
<1>10. \A q \in Items : lives[q] = "live" => next[q] > 0 \/ q \in UpdatedIn(Range(Tail(todo)))
  <2> TAKE q \in Items
  <2>1. CASE q = i
    <3>1. cur[i] \in Nat /\ next[i] > 0
      BY <1>1
    <3> QED BY <2>1, <3>1
  <2>2. CASE q # i
    BY <1>1, <1>3, <2>2 DEF Settles
  <2> QED BY <2>1, <2>2
<1> QED BY <1>5, <1>8, <1>9, <1>10 DEF Settles

\* Nothing lists a point of sale.
LEMMA NobodyLists ==
  ASSUME NEW jobs, NEW lives, NEW cur, NEW rows, TablesHold(lives, cur, rows), NEW i \in PointsOfSale,
         Settles(jobs, {i}, lives, cur, rows)
  PROVE  Settles(jobs, {}, lives, cur, rows)
<1>1. RowsInRank(rows)
  BY DEF Settles
<1>2. ASSUME NEW q \in Items, OnSale(q, lives, cur), NEW k \in KidsOf(q, cur, rows)
      PROVE  KidSettles(q, k, jobs, {}, lives, cur)
  <2>1. KidSettles(q, k, jobs, {i}, lives, cur)
    BY <1>2 DEF Settles
  <2>2. k.item \in KidKind(q)
    BY <1>1, <1>2, KidsInRank DEF OnSale
  <2>3. k.item # i
    BY <2>2, RankFacts
  <2> QED BY <2>1, <2>3 DEF KidSettles
<1> QED BY <1>2 DEF Settles

(***************************************************************************)
(* An item goes that nothing lists any more.                               *)
(***************************************************************************)
LEMMA RemovedSettles ==
  ASSUME NEW d, d.do = "delete", NEW lives, NEW cur, NEW rows, TablesHold(lives, cur, rows),
         Settles({d}, {}, lives, cur, rows), d.item \in Items,
         NEW next, next = [lives EXCEPT ![d.item] = "deleted"]
  PROVE  Settles({}, {}, next, cur, rows)
<1>1. UpdatedIn({d}) = {} /\ UpdatedIn({}) = {}
  BY DEF UpdatedIn
<1>2. \A q \in Items : next[q] = IF q = d.item THEN "deleted" ELSE lives[q]
  BY DEF TablesHold
<1>3. RowsInRank(rows)
  BY DEF Settles
<1>4. ASSUME NEW q \in Items, OnSale(q, next, cur), NEW k \in KidsOf(q, cur, rows)
      PROVE  KidSettles(q, k, {}, {}, next, cur)
  <2>1. OnSale(q, lives, cur)
    BY <1>2, <1>4 DEF OnSale
  <2>2. KidSettles(q, k, {d}, {}, lives, cur)
    BY <1>4, <2>1 DEF Settles
  <2>3. k.item \in KidKind(q)
    BY <1>3, <1>4, <2>1, KidsInRank DEF OnSale
  <2>4. k.item \in Items
    BY <2>3, RankFacts
  <2>5. k.item # d.item
    BY <1>1, <2>2 DEF KidSettles
  <2> QED BY <1>1, <1>2, <2>2, <2>4, <2>5 DEF KidSettles
<1>5. \A q \in Items : next[q] = "none" => cur[q] = 0
  BY <1>2 DEF Settles
<1>6. \A q \in Items : next[q] = "live" => cur[q] > 0
  BY <1>1, <1>2 DEF Settles
<1> QED BY <1>3, <1>4, <1>5, <1>6 DEF Settles
-----------------------------------------------------------------------------
LEMMA OnlyTask ==
  ASSUME \A g, h \in Handlers : g = h, CatalogueTypeOK, NEW h \in Handlers, NEW state, CatalogueGo(h, state),
         TaskHolds(state, life', current', revisions')
  PROVE  PropagatesInv'
<1>1. catalogueTask'[h] = state
  BY DEF CatalogueGo, CatalogueTypeOK
<1>2. \A g \in Handlers : TaskHolds(catalogueTask'[g], life', current', revisions')
  BY <1>1
<1> QED BY <1>2 DEF PropagatesInv

\* Where only the task changes.
LEMMA OnlyGoes ==
  ASSUME \A g, h \in Handlers : g = h, CatalogueTypeOK, NEW h \in Handlers, NEW state, CatalogueGo(h, state),
         UNCHANGED catalogueTables, TaskHolds(state, life, current, revisions)
  PROVE  PropagatesInv'
<1>1. UNCHANGED <<life, current, revisions>>
  BY DEF catalogueTables
<1>2. TaskHolds(state, life', current', revisions')
  BY <1>1
<1> QED BY <1>2, OnlyTask

LEMMA OneJob ==
  ASSUME NEW i \in Items, NEW label \in Labels, NEW kids \in SUBSET KidKind(i), NEW lives, lives[i] = "live",
         \A x \in kids : lives[x] = "live"
  PROVE  LET todo == <<Edit(i, label, kids)>>
         IN  todo \in Seq(Job) /\ TodoHolds(todo, lives) /\ UpdatedIn(Range(todo)) = {i}
             /\ \A d \in Range(todo) : d.do = "update"
<1> DEFINE job == Edit(i, label, kids)
<1>1. kids \in SUBSET Items
  BY RankFacts
<1>2. job \in Job /\ job.do = "update" /\ job.item = i /\ job.kids = kids
  BY <1>1, JobTypes DEF Edit
<1> HIDE DEF job
<1>3. <<job>> \in Seq(Job) /\ Range(<<job>>) = {job} /\ Len(<<job>>) = 1
  BY <1>2 DEF Range
<1>4. TodoHolds(<<job>>, lives)
  BY <1>2, <1>3 DEF TodoHolds
<1>5. UpdatedIn(Range(<<job>>)) = {i}
  BY <1>2, <1>3 DEF UpdatedIn
<1> QED BY <1>2, <1>3, <1>4, <1>5 DEF job

(***************************************************************************)
(* At rest every current revision lists what is current; a request begins. *)
(***************************************************************************)
LEMMA AtRest ==
  ASSUME NEW task, task.pc \in {"idle", "delete"}, NEW lives, NEW cur, NEW rows, TaskHolds(task, lives, cur, rows)
  PROVE  Settles({}, {}, lives, cur, rows)
BY EmptyRange DEF TaskHolds, Left, Moved, Updating

LEMMA CreatedPropagates ==
  ASSUME \A g, h \in Handlers : g = h, CatalogueInv, PropagatesInv,
         NEW h \in Handlers, NEW i \in Items, NEW label \in Labels, NEW kids \in SUBSET KidKind(i),
         CreateItem(h, i, label, kids) \/ UpdateItem(h, i, label, kids)
  PROVE  PropagatesInv'
<1> DEFINE todo == <<Edit(i, label, kids)>>
<1>1. Settles({}, {}, life, current, revisions) /\ CatalogueTypeOK /\ TablesHold(life, current, revisions)
  BY AtRest, InvTables DEF PropagatesInv, CreateItem, UpdateItem, MayRequest, CatalogueAt, CatalogueInv
<1>2. /\ CatalogueGo(h, Proceed(todo)) /\ UNCHANGED <<current, revisions>>
      /\ life' \in [Items -> {"none", "live", "deleted"}] /\ life'[i] = "live"
      /\ \A q \in Items : q # i => life'[q] = life[q]
      /\ life[i] = "live" \/ (life[i] = "none" /\ \A q \in Items : life[q] = "live" => life'[q] = "live")
      /\ \A x \in kids : life[x] = "live"
  BY <1>1 DEF CreateItem, UpdateItem, Live, catalogueTables, CatalogueTypeOK
<1>3. /\ todo \in Seq(Job) /\ TodoHolds(todo, life') /\ UpdatedIn(Range(todo)) = {i}
      /\ \A d \in Range(todo) : d.do = "update"
  <2>1. \A x \in kids : life'[x] = "live"
    BY <1>2, RankFacts
  <2> QED BY <1>2, <2>1, OneJob
<1> HIDE DEF todo
<1>4. ASSUME NEW q \in Items, OnSale(q, life', current), NEW k \in KidsOf(q, current, revisions)
      PROVE  KidSettles(q, k, Range(todo), {}, life', current)
  <2>1. OnSale(q, life, current)
    BY <1>1, <1>2, <1>4 DEF OnSale, Settles
  <2>2. KidSettles(q, k, {}, {}, life, current)
    BY <1>1, <1>4, <2>1 DEF Settles
  <2>3. k.item \in KidKind(q)
    BY <1>1, <1>4, <2>1, KidsInRank DEF OnSale, Settles
  <2>4. k.item \in Items
    BY <2>3, RankFacts
  <2>5. life'[k.item] = "live"
    BY <1>2, <2>2, <2>4 DEF KidSettles
  <2> QED BY <1>3, <2>2, <2>5, EmptyRange DEF KidSettles
<1>5. \A q \in Items : (life'[q] = "none" => current[q] = 0) /\ (life'[q] = "live" => current[q] > 0 \/ q = i)
  BY <1>1, <1>2, EmptyRange DEF Settles
<1>6. Settles(Range(todo), {}, life', current, revisions)
  BY <1>1, <1>3, <1>4, <1>5 DEF Settles
<1>7. TaskHolds(Proceed(todo), life', current', revisions')
  BY <1>2, <1>3, <1>6, ProceedSettles
<1> QED BY <1>1, <1>2, <1>7, OnlyTask

LEMMA DeletedPropagates ==
  ASSUME \A g, h \in Handlers : g = h, CatalogueInv, PropagatesInv,
         NEW h \in Handlers, NEW i \in Items, DeleteItem(h, i)
  PROVE  PropagatesInv'
<1>1. Settles({}, {}, life, current, revisions) /\ CatalogueTypeOK /\ TablesHold(life, current, revisions)
  BY AtRest, InvTables DEF PropagatesInv, DeleteItem, MayRequest, CatalogueAt, CatalogueInv
<1>2. life[i] = "live" /\ UNCHANGED catalogueTables
  BY DEF DeleteItem
<1>3. CASE i \notin PointsOfSale
  <2> DEFINE state == [pc |-> "delete", item |-> i]
  <2>1. CatalogueGo(h, state)
    BY <1>3 DEF DeleteItem
  <2>2. state.pc = "delete" /\ state.item = i
    OBVIOUS
  <2> HIDE DEF state
  <2>3. Left(state) = << >> /\ Moved(state) = {}
    BY <2>2 DEF Left, Moved, Updating
  <2>4. TaskHolds(state, life, current, revisions)
    BY <1>1, <1>2, <1>3, <2>2, <2>3, EmptyRange DEF TaskHolds, Updating
  <2> QED BY <1>1, <1>2, <2>1, <2>4, OnlyGoes
<1>4. CASE i \in PointsOfSale
  <2> DEFINE gone == [do |-> "delete", item |-> i]
  <2> DEFINE todo == <<gone>>
  <2>1. CatalogueGo(h, Proceed(todo))
    BY <1>4 DEF DeleteItem
  <2>2. gone \in Job /\ gone.do = "delete" /\ gone.item = i
    BY JobTypes DEF DeleteJob
  <2> HIDE DEF gone
  <2>3. todo \in Seq(Job) /\ Range(todo) = {gone} /\ Len(todo) = 1
    BY <2>2 DEF Range
  <2> HIDE DEF todo
  <2>4. TodoHolds(todo, life) /\ UpdatedIn({gone}) = {}
    BY <2>2, <2>3 DEF TodoHolds, UpdatedIn
  <2>5. ASSUME NEW q \in Items, OnSale(q, life, current), NEW k \in KidsOf(q, current, revisions)
        PROVE  KidSettles(q, k, {gone}, {}, life, current)
    <3>1. KidSettles(q, k, {}, {}, life, current)
      BY <1>1, <2>5 DEF Settles
    <3>2. k.item \in KidKind(q)
      BY <1>1, <2>5, KidsInRank DEF OnSale, Settles
    <3>3. k.item # i
      BY <1>4, <3>2, RankFacts
    <3> QED BY <2>2, <3>1, <3>3, EmptyRange DEF KidSettles
  <2>6. Settles(Range(todo), {}, life, current, revisions)
    BY <1>1, <2>3, <2>4, <2>5, EmptyRange DEF Settles
  <2>7. TaskHolds(Proceed(todo), life, current, revisions)
    BY <2>3, <2>4, <2>6, ProceedSettles
  <2> QED BY <1>1, <1>2, <2>1, <2>7, OnlyGoes
<1> QED BY <1>3, <1>4

LEMMA DetachedPropagates ==
  ASSUME \A g, h \in Handlers : g = h, CatalogueInv, PropagatesInv, NEW h \in Handlers, DetachItem(h)
  PROVE  PropagatesInv'
<1> DEFINE i == catalogueTask[h].item
<1>1. /\ catalogueTask[h] \in CatalogueTask /\ catalogueTask[h].pc = "delete" /\ CatalogueTypeOK
      /\ UNCHANGED catalogueTables
  BY DEF DetachItem, CatalogueAt, CatalogueInv, CatalogueTypeOK
<1>2. i \in Items
  BY <1>1, CatalogueTaskTypes
<1>3. Settles({}, {}, life, current, revisions)
  BY <1>1, AtRest DEF PropagatesInv
<1>4. CASE Found(i, current[i])
  <2>1. PICK jobs \in PassOn(Parents(i, current[i]), {i}) :
          CatalogueGo(h, Proceed(jobs \o <<[do |-> "delete", item |-> i]>>))
    BY <1>4 DEF DetachItem
  <2> DEFINE todo == jobs \o <<[do |-> "delete", item |-> i]>>
  <2>2. todo \in Seq(Job) /\ TodoHolds(todo, life) /\ Settles(Range(todo), {}, life, current, revisions)
    BY <1>2, <1>3, ParentsDetached
  <2>3. CatalogueGo(h, Proceed(todo))
    BY <2>1
  <2> HIDE DEF todo
  <2> QED BY <1>1, <2>2, <2>3, ProceedSettles, OnlyGoes
<1>5. CASE ~ Found(i, current[i])
  <2>1. CatalogueGo(h, Idle)
    BY <1>5 DEF DetachItem
  <2> QED BY <1>1, <1>3, <2>1, IdleHolds, OnlyGoes
<1> QED BY <1>4, <1>5

LEMMA RemovedPropagates ==
  ASSUME \A g, h \in Handlers : g = h, CatalogueInv, PropagatesInv, NEW h \in Handlers, RemoveItem(h)
  PROVE  PropagatesInv'
<1> DEFINE task == catalogueTask[h]
<1>1. /\ task \in CatalogueTask /\ task.pc = "remove" /\ CatalogueTypeOK /\ TablesHold(life, current, revisions)
      /\ TaskHolds(task, life, current, revisions) /\ task.todo # << >>
  BY InvTables DEF RemoveItem, CatalogueAt, CatalogueInv, CatalogueTypeOK, PropagatesInv, EditHolds
<1>2. task.todo \in Seq(Job)
  BY <1>1, CatalogueTaskTypes DEF EditTask
<1>3. PICK todo \in Seq(Job) : todo = task.todo
  BY <1>2
<1> DEFINE d == Head(todo)
<1>4. d \in Job /\ d.do = "delete" /\ TodoHolds(todo, life) /\ todo # << >>
  BY <1>1, <1>3, RangeOfTail DEF TaskHolds, Updating
<1>5. d.item \in Items
  BY <1>4, JobTypes
<1>6. Range(todo) = {d}
  <2>1. Len(todo) \in Nat /\ Len(todo) > 0 /\ todo[1] = d
    BY <1>4
  <2>2. Len(todo) = 1
    <3>1. CASE Len(todo) > 1
      <4>1. 1 \in 1 .. Len(todo) - 1
        BY <2>1, <3>1
      <4> QED BY <1>4, <2>1, <4>1 DEF TodoHolds
    <3> QED BY <2>1, <3>1
  <2>3. DOMAIN todo = {1}
    BY <2>1, <2>2
  <2> QED BY <2>1, <2>3 DEF Range
<1>7. Left(task) = todo /\ Moved(task) = {}
  BY <1>1, <1>3 DEF Left, Moved, Updating
<1>8. Settles({d}, {}, life, current, revisions)
  BY <1>1, <1>6, <1>7 DEF TaskHolds
<1>9. life' = [life EXCEPT ![d.item] = "deleted"] /\ UNCHANGED <<current, revisions>> /\ CatalogueGo(h, Idle)
  BY <1>3 DEF RemoveItem
<1> HIDE DEF d
<1>10. Settles({}, {}, life', current, revisions)
  BY <1>1, <1>4, <1>5, <1>8, <1>9, RemovedSettles
<1>11. TaskHolds(Idle, life', current', revisions')
  BY <1>9, <1>10, IdleHolds
<1> QED BY <1>1, <1>9, <1>11, OnlyTask
-----------------------------------------------------------------------------
(***************************************************************************)
(* An edit goes on with its first job.                                     *)
(***************************************************************************)
LEMMA EditAt ==
  ASSUME CatalogueInv, PropagatesInv, NEW h \in Handlers, catalogueTask[h].pc \in Updating
  PROVE  LET task == catalogueTask[h]
         IN  /\ task \in EditTask /\ CatalogueTypeOK /\ TablesHold(life, current, revisions)
             /\ TaskHolds(task, life, current, revisions)
             /\ task.todo \in Seq(Job) /\ task.todo # << >> /\ Head(task.todo) \in UpdateJob
             /\ Head(task.todo).do = "update" /\ Head(task.todo).item \in Items
             /\ life[Head(task.todo).item] = "live" /\ Head(task.todo).kids \subseteq KidKind(Head(task.todo).item)
             /\ \A x \in Head(task.todo).kids : life[x] = "live"
<1> DEFINE task == catalogueTask[h]
<1>1. /\ task \in CatalogueTask /\ EditHolds(task, revisions) /\ TaskHolds(task, life, current, revisions)
      /\ CatalogueTypeOK
  BY DEF CatalogueInv, CatalogueTypeOK, PropagatesInv
<1>2. task \in EditTask /\ task.todo # << >> /\ Head(task.todo) \in UpdateJob
  BY <1>1, CatalogueTaskTypes DEF EditHolds
<1>3. task.todo \in Seq(Job)
  BY <1>2 DEF EditTask
<1>4. Head(task.todo).do = "update" /\ Head(task.todo).item \in Items
  BY <1>2, JobTypes
<1>5. Head(task.todo) \in Range(task.todo)
  <2>1. PICK todo \in Seq(Job) : todo = task.todo
    BY <1>3
  <2>2. Head(todo) \in Range(todo)
    BY <1>2, <2>1, RangeOfTail
  <2> QED BY <2>1, <2>2
<1>6. TodoHolds(task.todo, life)
  BY <1>1 DEF TaskHolds
<1>7. life[Head(task.todo).item] = "live" /\ Head(task.todo).kids \subseteq KidKind(Head(task.todo).item)
      /\ \A x \in Head(task.todo).kids : life[x] = "live"
  BY <1>4, <1>5, <1>6 DEF TodoHolds
<1> QED BY <1>1, <1>2, <1>3, <1>4, <1>7, InvTables

LEMMA EditGoesOn ==
  ASSUME NEW task \in EditTask, NEW state, task.pc \in Updating \ {"parents"}, state.pc \in Updating \ {"parents", "current"},
         state.todo = task.todo, NEW lives, NEW cur, NEW rows, TaskHolds(task, lives, cur, rows),
         KidsFit(state.kids, Head(state.todo), lives, cur)
  PROVE  TaskHolds(state, lives, cur, rows)
<1>1. Left(state) = Left(task) /\ Moved(state) = Moved(task)
  BY DEF Left, Moved, Updating
<1> QED BY <1>1 DEF TaskHolds, Updating

LEMMA ReadPropagates ==
  ASSUME \A g, h \in Handlers : g = h, CatalogueInv, PropagatesInv, NEW h \in Handlers, ReadItem(h)
  PROVE  PropagatesInv'
<1> DEFINE task == catalogueTask[h]
<1> DEFINE i == Head(task.todo).item
<1>1. task.pc = "base" /\ UNCHANGED catalogueTables
  BY DEF ReadItem, CatalogueAt
<1>2. /\ task \in EditTask /\ CatalogueTypeOK /\ TaskHolds(task, life, current, revisions) /\ life[i] = "live"
  BY <1>1, EditAt DEF Updating
<1>3. PICK pc \in {"kids", "revision"} : CatalogueGo(h, [task EXCEPT !.pc = pc, !.base = current[i]])
  BY <1>2 DEF ReadItem
<1> DEFINE state == [task EXCEPT !.pc = pc, !.base = current[i]]
<1>4. state.pc = pc /\ state.todo = task.todo /\ state.kids = task.kids
  BY <1>2 DEF EditTask
<1>5. CatalogueGo(h, state)
  BY <1>3
<1> HIDE DEF state
<1>6. KidsFit(state.kids, Head(state.todo), life, current)
  BY <1>1, <1>2, <1>4 DEF TaskHolds, Updating
<1>7. TaskHolds(state, life, current, revisions)
  BY <1>1, <1>2, <1>4, <1>6, EditGoesOn DEF Updating
<1> QED BY <1>1, <1>2, <1>5, <1>7, OnlyGoes

LEMMA KidsPropagate ==
  ASSUME \A g, h \in Handlers : g = h, CatalogueInv, PropagatesInv, NEW h \in Handlers, ReadKids(h)
  PROVE  PropagatesInv'
<1> DEFINE task == catalogueTask[h]
<1>1. task.pc = "kids" /\ UNCHANGED catalogueTables
  BY DEF ReadKids, CatalogueAt
<1>2. /\ task \in EditTask /\ CatalogueTypeOK /\ TaskHolds(task, life, current, revisions)
      /\ TablesHold(life, current, revisions) /\ Head(task.todo).item \in Items
      /\ Head(task.todo).kids \subseteq KidKind(Head(task.todo).item)
      /\ \A k \in Head(task.todo).kids : life[k] = "live"
  BY <1>1, EditAt DEF Updating
<1> DEFINE job == Head(task.todo)
<1> DEFINE seen == {k \in Readable(job.item, job.kids) : current[k] > 0}
<1> DEFINE kids == {[item |-> k, revision |-> current[k]] : k \in seen}
<1> DEFINE state == [task EXCEPT !.pc = "revision", !.kids = kids]
<1>3. CatalogueGo(h, state)
  BY DEF ReadKids
<1>4. state.pc = "revision" /\ state.todo = task.todo /\ state.kids = kids
  BY <1>2 DEF EditTask
<1> HIDE DEF state
<1>5. KidsFit(kids, Head(task.todo), life, current)
  <2>1. seen \subseteq job.kids
    BY DEF Readable, Live
  <2> QED BY <1>2, <2>1 DEF KidsFit
<1>6. TaskHolds(state, life, current, revisions)
  BY <1>1, <1>2, <1>4, <1>5, EditGoesOn DEF Updating
<1> QED BY <1>1, <1>2, <1>3, <1>6, OnlyGoes

LEMMA RevisionPropagates ==
  ASSUME \A g, h \in Handlers : g = h, CatalogueInv, OrderInv, PropagatesInv, NEW h \in Handlers, SaveRevision(h)
  PROVE  PropagatesInv'
<1> DEFINE task == catalogueTask[h]
<1> DEFINE i == Head(task.todo).item
<1> DEFINE row == [label |-> Head(task.todo).label, kids |-> task.kids]
<1> DEFINE state == [task EXCEPT !.pc = "current"]
<1>1. /\ task \in EditTask /\ task.pc = "revision" /\ i \in Items /\ row \in Revision
      /\ \A k \in Items : Len(revisions[k]) = current[k]
      /\ revisions' = [revisions EXCEPT ![i] = Append(revisions[i], row)]
      /\ CatalogueGo(h, state) /\ UNCHANGED <<life, current>>
  BY RevisionAppended
<1>2. /\ CatalogueTypeOK /\ TaskHolds(task, life, current, revisions) /\ TablesHold(life, current, revisions)
      /\ Head(task.todo).kids \subseteq KidKind(i)
  BY <1>1, EditAt DEF Updating
<1>3. state.pc = "current" /\ state.todo = task.todo /\ state.kids = task.kids
  BY <1>1 DEF EditTask
<1>4. row.kids = task.kids
  OBVIOUS
<1> HIDE DEF row, state
<1>5. Left(task) = task.todo /\ Left(state) = task.todo /\ Moved(task) = {} /\ Moved(state) = {}
  BY <1>1, <1>3 DEF Left, Moved, Updating
<1>6. /\ Settles(Range(task.todo), {}, life, current, revisions) /\ TodoHolds(task.todo, life)
      /\ KidsFit(task.kids, Head(task.todo), life, current)
  BY <1>1, <1>2, <1>5 DEF TaskHolds, Updating
<1>7. \A k \in row.kids : k.item \in KidKind(i) /\ k.revision > 0
  BY <1>2, <1>4, <1>6 DEF KidsFit
<1>8. Settles(Range(task.todo), {}, life, current, revisions') /\ revisions'[i][current[i] + 1] = row
  <2> HIDE DEF i
  <2>1. Settles(Range(task.todo), {}, life, current, revisions) /\ current[i] = Len(revisions[i])
    BY <1>1, <1>6
  <2>2. PICK next, jobs : next = revisions' /\ jobs = Range(task.todo)
    OBVIOUS
  <2>3. /\ next[i] = Append(revisions[i], row) /\ Settles(jobs, {}, life, current, revisions)
        /\ \A q \in Items : q # i => next[q] = revisions[q]
    BY <1>1, <1>2, <2>1, <2>2 DEF TablesHold
  <2>4. /\ i \in Items /\ row \in Revision /\ TablesHold(life, current, revisions)
        /\ \A k \in row.kids : k.item \in KidKind(i) /\ k.revision > 0
    BY <1>1, <1>2, <1>7
  <2>5. Settles(jobs, {}, life, current, next) /\ next[i][current[i] + 1] = row
    BY <2>1, <2>3, <2>4, AddedSettles
  <2> QED BY <2>2, <2>5
<1>9. TaskHolds(state, life, current, revisions')
  BY <1>3, <1>4, <1>5, <1>6, <1>8 DEF TaskHolds, Updating
<1>10. TaskHolds(state, life', current', revisions')
  BY <1>1, <1>9
<1> QED BY <1>1, <1>2, <1>10, OnlyTask

LEMMA ItemPropagates ==
  ASSUME \A g, h \in Handlers : g = h, CatalogueInv, OrderInv, PropagatesInv, NEW h \in Handlers, SaveItem(h)
  PROVE  PropagatesInv'
<1> DEFINE task == catalogueTask[h]
<1> DEFINE i == Head(task.todo).item
<1>1. task.pc = "current" /\ UNCHANGED revisions
  BY DEF SaveItem, CatalogueAt
<1>2. /\ task \in EditTask /\ CatalogueTypeOK /\ TaskHolds(task, life, current, revisions)
      /\ TablesHold(life, current, revisions) /\ i \in Items /\ life[i] = "live"
      /\ task.todo \in Seq(Job) /\ task.todo # << >> /\ Head(task.todo).do = "update"
  BY <1>1, EditAt DEF Updating
<1>3. PICK todo \in Seq(Job) : todo = task.todo /\ todo # << >> /\ Head(todo).do = "update" /\ i = Head(todo).item
  BY <1>2
<1>4. task.base = current[i]
  BY <1>1 DEF OrderInv, InOrder
<1>5. current' = [current EXCEPT ![i] = current[i] + 1] /\ life' = life
  BY <1>2, <1>4 DEF SaveItem, TablesHold
<1>6. Left(task) = todo /\ Moved(task) = {}
  BY <1>1, <1>3 DEF Left, Moved, Updating
<1>7. /\ Settles(Range(todo), {}, life, current, revisions) /\ TodoHolds(todo, life)
      /\ KidsFit(task.kids, Head(todo), life, current) /\ revisions[i][current[i] + 1].kids = task.kids
  BY <1>1, <1>2, <1>3, <1>6 DEF TaskHolds, Updating
<1>8. Settles(Range(Tail(todo)), {i}, life, current', revisions)
  BY <1>2, <1>3, <1>5, <1>7, SavedSettles
<1>9. CASE i \in PointsOfSale
  <2>1. CatalogueGo(h, Proceed(Tail(todo)))
    BY <1>3, <1>9 DEF SaveItem
  <2>2. TablesHold(life, current', revisions)
    <3>1. CatalogueInv'
      BY CatalogueStepInv DEF CatalogueNext, CatalogueStep
    <3> QED BY <1>1, <1>5, <3>1 DEF CatalogueInv, CatalogueTypeOK, CurrentIsSaved, TablesHold
  <2>3. Settles(Range(Tail(todo)), {}, life, current', revisions)
    BY <1>8, <1>9, <2>2, NobodyLists
  <2>4. Tail(todo) \in Seq(Job) /\ TodoHolds(Tail(todo), life)
    BY <1>3, <1>7, RangeOfTail, TodoTail
  <2>5. TaskHolds(Proceed(Tail(todo)), life, current', revisions)
    BY <2>3, <2>4, ProceedSettles
  <2>6. TaskHolds(Proceed(Tail(todo)), life', current', revisions')
    BY <1>1, <1>5, <2>5
  <2> QED BY <1>2, <2>1, <2>6, OnlyTask
<1>10. CASE i \notin PointsOfSale
  <2> DEFINE state == [task EXCEPT !.pc = "parents"]
  <2>1. CatalogueGo(h, state)
    BY <1>10 DEF SaveItem
  <2>2. state.pc = "parents" /\ state.todo = todo
    BY <1>2, <1>3 DEF EditTask
  <2> HIDE DEF state
  <2>3. Left(state) = Tail(todo) /\ Moved(state) = {i}
    BY <1>3, <2>2 DEF Left, Moved, Updating
  <2>4. current[i] \in Nat /\ current'[i] = current[i] + 1 /\ current'[i] - 1 = current[i]
    BY <1>2, <1>5 DEF TablesHold
  <2>5. current'[i] > 1 => \A k \in revisions[i][current'[i] - 1].kids : life[k.item] = "live"
    <3>1. ASSUME current[i] > 0, NEW k \in revisions[i][current[i]].kids PROVE life[k.item] = "live"
      <4>1. OnSale(i, life, current) /\ k \in KidsOf(i, current, revisions)
        BY <1>2, <3>1 DEF OnSale, KidsOf
      <4> QED BY <1>2, <1>7, <4>1 DEF Settles, KidSettles
    <3>2. current'[i] > 1 => current[i] > 0
      BY <2>4
    <3> HIDE DEF i
    <3> QED BY <2>4, <3>1, <3>2
  <2>6. TaskHolds(state, life, current', revisions)
    BY <1>3, <1>7, <1>8, <2>2, <2>3, <2>5 DEF TaskHolds, Updating
  <2>7. TaskHolds(state, life', current', revisions')
    BY <1>1, <1>5, <2>6
  <2> QED BY <1>2, <2>1, <2>7, OnlyTask
<1> QED BY <1>9, <1>10

LEMMA ParentsPropagate ==
  ASSUME \A g, h \in Handlers : g = h, CatalogueInv, PropagatesInv, NEW h \in Handlers, Propagate(h)
  PROVE  PropagatesInv'
<1> DEFINE task == catalogueTask[h]
<1> DEFINE i == Head(task.todo).item
<1>1. task.pc = "parents" /\ UNCHANGED catalogueTables
  BY DEF Propagate, CatalogueAt
<1>2. /\ task \in EditTask /\ CatalogueTypeOK /\ TaskHolds(task, life, current, revisions)
      /\ i \in Items /\ life[i] = "live"
      /\ task.todo \in Seq(Job) /\ task.todo # << >> /\ Head(task.todo).do = "update"
  BY <1>1, EditAt DEF Updating
<1>3. PICK todo \in Seq(Job) : todo = task.todo /\ todo # << >> /\ Head(todo).do = "update" /\ i = Head(todo).item
  BY <1>2
<1>4. PICK rest \in Seq(Job) : rest = Tail(todo) /\ Range(todo) = {Head(todo)} \cup Range(rest)
  BY <1>3, RangeOfTail
<1>5. Left(task) = rest /\ Moved(task) = {i}
  BY <1>1, <1>3, <1>4 DEF Left, Moved, Updating
<1>6. /\ Settles(Range(rest), {i}, life, current, revisions) /\ TodoHolds(todo, life)
      /\ current[i] > 1 => \A k \in revisions[i][current[i] - 1].kids : life[k.item] = "live"
  BY <1>1, <1>2, <1>3, <1>5 DEF TaskHolds, Updating
<1>7. TodoHolds(rest, life)
  BY <1>3, <1>4, <1>6, TodoTail
<1>8. \A d \in Range(rest) : d.do = "delete" => Rank(i) > Rank(d.item)
  BY <1>3, <1>4, <1>6 DEF TodoHolds
<1>9. PICK jobs \in PassOn(IF Found(i, current[i] - 1) THEN Parents(i, current[i] - 1) ELSE {}, {}) :
        CatalogueGo(h, Proceed(jobs \o rest))
  BY <1>3, <1>4 DEF Propagate
<1> HIDE DEF i
<1>10. /\ jobs \o rest \in Seq(Job) /\ TodoHolds(jobs \o rest, life)
       /\ Settles(Range(jobs \o rest), {}, life, current, revisions)
  BY <1>2, <1>6, <1>7, <1>8, ParentsFound
<1>11. TaskHolds(Proceed(jobs \o rest), life, current, revisions)
  BY <1>10, ProceedSettles
<1> QED BY <1>1, <1>2, <1>9, <1>11, OnlyGoes

LEMMA CatalogueStepPropagates ==
  ASSUME \A g, h \in Handlers : g = h, CatalogueInv, OrderInv, PropagatesInv, [CatalogueStep]_catalogueVars
  PROVE  PropagatesInv'
<1>1. ASSUME UNCHANGED catalogueVars PROVE PropagatesInv'
  BY <1>1 DEF catalogueVars, PropagatesInv
<1> QED BY <1>1, CreatedPropagates, DeletedPropagates, DetachedPropagates, ReadPropagates, KidsPropagate,
           RevisionPropagates, ItemPropagates, ParentsPropagate, RemovedPropagates DEF CatalogueStep

LEMMA CatalogueInitPropagates == CatalogueInit => PropagatesInv
<1> SUFFICES ASSUME CatalogueInit PROVE PropagatesInv
  OBVIOUS
<1>1. \A i \in Items : life[i] = "none" /\ current[i] = 0 /\ DOMAIN revisions[i] = {}
  BY DEF CatalogueInit
<1>2. Settles({}, {}, life, current, revisions)
  BY <1>1 DEF Settles, RowsInRank, OnSale
<1> QED BY <1>2, IdleHolds DEF CatalogueInit, PropagatesInv

(***************************************************************************)
(* updateProduct, updateContainer, deleteProduct and deleteContainer with  *)
(* all they pass on, one request at a time and none that fails: at rest    *)
(* every container and point of sale lists the current revision of each of *)
(* its children, and nothing that was deleted.                             *)
(***************************************************************************)
THEOREM CatalogueIsCurrentAlways ==
  ASSUME \A g, h \in Handlers : g = h
  PROVE  CatalogueInit /\ [][CatalogueStep]_catalogueVars => []CatalogueIsCurrent
<1> DEFINE Inv == CatalogueInv /\ OrderInv /\ PropagatesInv
<1>1. CatalogueInit => Inv
  BY CatalogueInitInv, CatalogueInitOrder, CatalogueInitPropagates
<1>2. Inv /\ [CatalogueStep]_catalogueVars => Inv'
  BY CatalogueStepInv, CatalogueStepOrder, CatalogueStepPropagates DEF CatalogueNext
<1>3. Inv => CatalogueIsCurrent
  <2> SUFFICES ASSUME Inv, \A h \in Handlers : CatalogueAt(h, "idle"),
                      NEW i \in Live(Items), NEW k \in CurrentRevision(i).kids
               PROVE  life[k.item] = "live" /\ k.revision = current[k.item]
    BY DEF CatalogueIsCurrent
  <2>1. PICK h \in Handlers : TRUE
    BY ServerAssumption
  <2>2. Settles({}, {}, life, current, revisions)
    BY <2>1, AtRest DEF PropagatesInv, CatalogueAt
  <2>3. i \in Items /\ OnSale(i, life, current) /\ k \in KidsOf(i, current, revisions)
    BY <2>2, EmptyRange DEF Live, OnSale, KidsOf, CurrentRevision, Settles
  <2>4. KidSettles(i, k, {}, {}, life, current)
    BY <2>2, <2>3 DEF Settles
  <2> QED BY <2>4, EmptyRange DEF KidSettles
<1> HIDE DEF Inv
<1> QED BY <1>1, <1>2, <1>3, PTL
-----------------------------------------------------------------------------
(***************************************************************************)
(* Purchases, for any number of tills and edits at once: what a purchase   *)
(* in progress names was saved.                                            *)
(***************************************************************************)
IsSaved(ref, rows) == ref.revision \in DOMAIN rows[ref.item]

NamesSaved(task, rows) ==
  task.pc # "idle" => /\ IsSaved(task.sale.pointOfSale, rows) /\ IsSaved(task.sale.container, rows)
                      /\ IsSaved(task.sale.product, rows)

SalesInv ==
  /\ SalesTypeOK /\ CatalogueInv
  /\ \A t \in Tills : NamesSaved(saleTask[t], revisions)

LEMMA SaleTaskTypes ==
  ASSUME NEW task \in SaleTask
  PROVE  /\ task.pc \in {"idle", "pointOfSale", "containers", "save"}
         /\ task.pc # "idle" => task.sale \in Sale
         /\ task.pc = "containers" => task.listed \subseteq Reference
BY DEF SaleTask, Idle

LEMMA SaleTypes ==
  ASSUME NEW sale \in Sale
  PROVE  \A ref \in {sale.pointOfSale, sale.container, sale.product} :
           ref \in Reference /\ ref.item \in Items /\ ref.revision \in Nat
BY DEF Sale, Reference

LEMMA SaleTasks ==
  /\ Idle \in SaleTask /\ Idle.pc = "idle"
  /\ \A pc \in {"pointOfSale", "save"} : \A sale \in Sale : [pc |-> pc, sale |-> sale] \in SaleTask
  /\ \A sale \in Sale : \A listed \in SUBSET Reference :
       [pc |-> "containers", sale |-> sale, listed |-> listed] \in SaleTask
BY DEF SaleTask, Idle

LEMMA SaleGoes ==
  ASSUME SalesTypeOK, NEW t \in Tills, NEW state \in SaleTask, SaleGo(t, state)
  PROVE  /\ saleTask' \in [Tills -> SaleTask]
         /\ \A s \in Tills : saleTask'[s] = IF s = t THEN state ELSE saleTask[s]
BY DEF SalesTypeOK, SaleGo

LEMMA SavedStays ==
  ASSUME CatalogueInv, [CatalogueNext]_catalogueVars
  PROVE  \A i \in Items : \A r \in DOMAIN revisions[i] : r \in DOMAIN revisions'[i]
<1>1. CASE UNCHANGED revisions
  BY <1>1
<1>2. ASSUME NEW h \in Handlers, SaveRevision(h)
      PROVE  \A i \in Items : \A r \in DOMAIN revisions[i] : r \in DOMAIN revisions'[i]
  BY <1>2, RevisionSaved
<1> QED BY <1>1, <1>2
        DEF CatalogueNext, CatalogueStep, CreateItem, UpdateItem, DeleteItem, DetachItem, ReadItem, ReadKids,
            SaveItem, Propagate, RemoveItem, CatalogueFails, catalogueTables, catalogueVars

(***************************************************************************)
(* A purchase loads revisions that are there, each of which lists some of  *)
(* its children.                                                           *)
(***************************************************************************)
LEMMA RowType ==
  ASSUME CatalogueTypeOK, NEW ref \in Reference, IsSaved(ref, revisions)
  PROVE  RowOf(ref) \in Revision /\ RowOf(ref).kids \subseteq Reference
<1>1. ref.item \in Items /\ revisions[ref.item] \in Seq(Revision)
  BY DEF Reference, CatalogueTypeOK
<1>2. RowOf(ref) \in Revision
  BY <1>1 DEF IsSaved, RowOf
<1> QED BY <1>2, RevisionTypes

LEMMA SalesStepInv == SalesInv /\ [SalesNext]_salesVars => SalesInv'
<1> SUFFICES ASSUME SalesInv, [SalesNext]_salesVars PROVE SalesInv'
  OBVIOUS
<1>0. /\ SalesTypeOK /\ CatalogueInv /\ CatalogueTypeOK /\ sales \in SUBSET Sale
      /\ \A t \in Tills : saleTask[t] \in SaleTask /\ NamesSaved(saleTask[t], revisions)
  BY DEF SalesInv, SalesTypeOK
<1>1. ASSUME [CatalogueNext]_catalogueVars, UNCHANGED <<sales, saleTask>> PROVE SalesInv'
  <2>1. CatalogueInv'
    BY <1>0, <1>1, CatalogueStepInv
  <2>2. \A i \in Items : \A r \in DOMAIN revisions[i] : r \in DOMAIN revisions'[i]
    BY <1>0, <1>1, SavedStays
  <2>3. ASSUME NEW t \in Tills PROVE NamesSaved(saleTask'[t], revisions')
    <3>1. PICK task \in SaleTask : task = saleTask[t] /\ task = saleTask'[t]
      BY <1>0, <1>1
    <3>2. NamesSaved(task, revisions)
      BY <1>0, <3>1
    <3>3. CASE task.pc # "idle"
      <4>1. \A ref \in {task.sale.pointOfSale, task.sale.container, task.sale.product} :
              ref.item \in Items /\ IsSaved(ref, revisions)
        BY <3>2, <3>3, SaleTaskTypes, SaleTypes DEF NamesSaved
      <4>2. \A ref \in {task.sale.pointOfSale, task.sale.container, task.sale.product} : IsSaved(ref, revisions')
        BY <2>2, <4>1 DEF IsSaved
      <4> QED BY <3>1, <4>2 DEF NamesSaved
    <3>4. CASE task.pc = "idle"
      BY <3>1, <3>4 DEF NamesSaved
    <3> QED BY <3>3, <3>4
  <2> QED BY <1>0, <1>1, <2>1, <2>3 DEF SalesInv, SalesTypeOK, CatalogueInv
<1>2. ASSUME UNCHANGED catalogueVars, NEW t \in Tills, NEW state \in SaleTask, SaleGo(t, state),
             sales' \in SUBSET Sale, NamesSaved(state, revisions)
      PROVE  SalesInv'
  <2>1. CatalogueInv'
    BY <1>0, <1>2, CatalogueStepInv
  <2>2. /\ saleTask' \in [Tills -> SaleTask]
        /\ \A s \in Tills : saleTask'[s] = IF s = t THEN state ELSE saleTask[s]
    BY <1>0, <1>2, SaleGoes
  <2>3. revisions' = revisions
    BY <1>2 DEF catalogueVars
  <2>4. \A s \in Tills : NamesSaved(saleTask'[s], revisions')
    BY <1>0, <1>2, <2>2, <2>3
  <2> QED BY <1>2, <2>1, <2>2, <2>4 DEF SalesInv, SalesTypeOK, CatalogueInv
<1>3. ASSUME NEW t \in Tills, NEW product \in Shown(Products), NEW container \in Shown(Containers),
             NEW pos \in Shown(PointsOfSale),
             BeginSale(t, [pointOfSale |-> pos, container |-> container, product |-> product])
      PROVE  SalesInv'
  <2> DEFINE sale == [pointOfSale |-> pos, container |-> container, product |-> product]
  <2>1. \A ref \in {pos, container, product} : ref \in Reference /\ IsSaved(ref, revisions)
    BY CatalogueAssumption DEF Shown, Reference, Items, Saved, IsSaved
  <2>2. sale \in Sale /\ sale.pointOfSale = pos /\ sale.container = container /\ sale.product = product
    BY <2>1 DEF Sale
  <2>3. /\ SaleGo(t, [pc |-> "pointOfSale", sale |-> sale])
        /\ UNCHANGED salesTables
    BY <1>3 DEF BeginSale
  <2> HIDE DEF sale
  <2>4. NamesSaved([pc |-> "pointOfSale", sale |-> sale], revisions)
    BY <2>1, <2>2 DEF NamesSaved
  <2>5. [pc |-> "pointOfSale", sale |-> sale] \in SaleTask
    BY <2>2, SaleTasks
  <2> QED BY <1>0, <1>2, <2>3, <2>4, <2>5 DEF salesTables
<1>4. ASSUME NEW t \in Tills, LoadPointOfSale(t) PROVE SalesInv'
  <2> DEFINE sale == saleTask[t].sale
  <2> DEFINE pos == sale.pointOfSale
  <2>1. sale \in Sale /\ NamesSaved(saleTask[t], revisions) /\ saleTask[t].pc = "pointOfSale"
    BY <1>0, <1>4, SaleTaskTypes DEF LoadPointOfSale, SaleAt
  <2>2. RowOf(pos).kids \subseteq Reference
    BY <1>0, <2>1, SaleTypes, RowType DEF NamesSaved
  <2>3. CASE life[pos.item] = "live"
    <3> DEFINE listed == {k \in RowOf(pos).kids : life[k.item] = "live"}
    <3> DEFINE state == [pc |-> "containers", sale |-> sale, listed |-> listed]
    <3>1. SaleGo(t, state)
      BY <1>4, <2>3 DEF LoadPointOfSale
    <3>2. listed \in SUBSET Reference
      BY <2>2
    <3> HIDE DEF listed
    <3>3. state \in SaleTask
      BY <2>1, <3>2, SaleTasks
    <3>4. NamesSaved(state, revisions)
      BY <2>1 DEF NamesSaved
    <3> HIDE DEF state
    <3> QED BY <1>0, <1>2, <1>4, <3>1, <3>3, <3>4 DEF LoadPointOfSale, salesTables
  <2>4. CASE life[pos.item] # "live"
    <3>1. SaleGo(t, Idle) /\ UNCHANGED salesTables
      BY <1>4, <2>4 DEF LoadPointOfSale
    <3> QED BY <1>0, <1>2, <3>1, SaleTasks DEF NamesSaved, salesTables
  <2> QED BY <2>3, <2>4
<1>5. ASSUME NEW t \in Tills, LoadContainers(t) PROVE SalesInv'
  <2> DEFINE sale == saleTask[t].sale
  <2>1. sale \in Sale /\ NamesSaved(saleTask[t], revisions) /\ saleTask[t].pc = "containers"
    BY <1>0, <1>5, SaleTaskTypes DEF LoadContainers, SaleAt
  <2>2. PICK state \in SaleTask : SaleGo(t, state) /\ NamesSaved(state, revisions)
    <3>1. [pc |-> "save", sale |-> sale] \in SaleTask /\ NamesSaved([pc |-> "save", sale |-> sale], revisions)
      BY <2>1, SaleTasks DEF NamesSaved
    <3>2. NamesSaved(Idle, revisions)
      BY SaleTasks DEF NamesSaved
    <3> QED BY <1>5, <3>1, <3>2, SaleTasks DEF LoadContainers
  <2> QED BY <1>0, <1>2, <1>5, <2>2 DEF LoadContainers, salesTables
<1>6. ASSUME NEW t \in Tills, SaveSale(t) PROVE SalesInv'
  <2>1. sales' \in SUBSET Sale
    BY <1>0, <1>6, SaleTaskTypes DEF SaveSale, SaleAt
  <2>2. NamesSaved(Idle, revisions)
    BY SaleTasks DEF NamesSaved
  <2> QED BY <1>2, <1>6, <2>1, <2>2, SaleTasks DEF SaveSale
<1>7. ASSUME NEW t \in Tills, SaleFails(t) PROVE SalesInv'
  <2>1. NamesSaved(Idle, revisions)
    BY SaleTasks DEF NamesSaved
  <2> QED BY <1>0, <1>2, <1>7, <2>1, SaleTasks DEF SaleFails, salesTables
<1>8. ASSUME UNCHANGED salesVars PROVE SalesInv'
  BY <1>1, <1>8 DEF salesVars
<1> QED BY <1>1, <1>3, <1>4, <1>5, <1>6, <1>7, <1>8 DEF SalesNext, Purchasing, Editing

LEMMA SalesInitInv == SalesInit => SalesInv
<1> SUFFICES ASSUME SalesInit PROVE SalesInv
  OBVIOUS
<1>1. CatalogueInv
  BY CatalogueInitInv DEF SalesInit
<1> QED BY <1>1, SaleTasks DEF SalesInit, SalesInv, SalesTypeOK, NamesSaved, CatalogueInv

LEMMA SalesInvAlways == SalesSpec => []SalesInv
<1>1. SalesInv /\ [SalesNext]_salesVars => SalesInv'
  BY SalesStepInv
<1> QED BY <1>1, SalesInitInv, PTL DEF SalesSpec

(***************************************************************************)
(* Whatever purchases and edits interleave and fail, the purchases and     *)
(* what they load keep their types: a till loads revisions that are there. *)
(***************************************************************************)
THEOREM SalesTypeCorrect == SalesSpec => []SalesTypeOK
<1>1. SalesInv => SalesTypeOK
  BY DEF SalesInv
<1> QED BY <1>1, SalesInvAlways, PTL

(***************************************************************************)
(* One edit at a time that does not fail: what a purchase has been checked *)
(* against goes on saying so, as revisions are only added.                 *)
(***************************************************************************)
OnOffer(sale, rows) ==
  /\ IsSaved(sale.pointOfSale, rows)
  /\ sale.container \in rows[sale.pointOfSale.item][sale.pointOfSale.revision].kids
  /\ IsSaved(sale.container, rows)
  /\ sale.product \in rows[sale.container.item][sale.container.revision].kids

Checked(task, rows) ==
  /\ task.pc = "containers" =>
       task.listed \subseteq rows[task.sale.pointOfSale.item][task.sale.pointOfSale.revision].kids
  /\ task.pc = "save" => OnOffer(task.sale, rows)

OfferInv ==
  /\ OrderInv
  /\ \A sale \in sales : OnOffer(sale, revisions)
  /\ \A t \in Tills : Checked(saleTask[t], revisions)

LEMMA StaysOnOffer ==
  ASSUME NEW sale \in Sale, NEW rows, NEW next, OnlyGrow(rows, next), OnOffer(sale, rows)
  PROVE  OnOffer(sale, next)
<1>1. \A ref \in {sale.pointOfSale, sale.container} : ref.item \in Items
  BY SaleTypes
<1>2. \A ref \in {sale.pointOfSale, sale.container} :
        IsSaved(ref, next) /\ next[ref.item][ref.revision] = rows[ref.item][ref.revision]
  BY <1>1 DEF OnlyGrow, OnOffer, IsSaved
<1> QED BY <1>2 DEF OnOffer

LEMMA SalesStepOffers ==
  ASSUME \A g, h \in Handlers : g = h, SalesInv, OfferInv, [SalesStep]_salesVars
  PROVE  OfferInv'
<1>0. /\ SalesTypeOK /\ CatalogueInv /\ CatalogueTypeOK /\ sales \in SUBSET Sale /\ OrderInv
      /\ \A t \in Tills : /\ saleTask[t] \in SaleTask /\ NamesSaved(saleTask[t], revisions)
                          /\ Checked(saleTask[t], revisions)
  BY DEF SalesInv, SalesTypeOK, OfferInv
<1>1. ASSUME [CatalogueStep]_catalogueVars, UNCHANGED <<sales, saleTask>> PROVE OfferInv'
  <2>1. OrderInv' /\ OnlyGrow(revisions, revisions')
    BY <1>0, <1>1, CatalogueStepOrder
  <2>2. \A sale \in sales' : OnOffer(sale, revisions')
    BY <1>0, <1>1, <2>1, StaysOnOffer DEF OfferInv
  <2>3. ASSUME NEW t \in Tills PROVE Checked(saleTask'[t], revisions')
    <3>1. PICK task \in SaleTask : task = saleTask[t] /\ task = saleTask'[t]
      BY <1>0, <1>1
    <3>2. Checked(task, revisions) /\ NamesSaved(task, revisions)
      BY <1>0, <3>1
    <3>3. CASE task.pc = "containers"
      <4>1. task.sale.pointOfSale.item \in Items /\ IsSaved(task.sale.pointOfSale, revisions)
        BY <3>2, <3>3, SaleTaskTypes, SaleTypes DEF NamesSaved
      <4> QED BY <2>1, <3>1, <3>2, <3>3, <4>1 DEF Checked, OnlyGrow, IsSaved
    <3>4. CASE task.pc = "save"
      <4>1. OnOffer(task.sale, revisions')
        BY <2>1, <3>2, <3>4, SaleTaskTypes, StaysOnOffer DEF Checked
      <4> QED BY <3>1, <3>4, <4>1 DEF Checked
    <3>5. CASE task.pc \notin {"containers", "save"}
      BY <3>1, <3>5 DEF Checked
    <3> QED BY <3>3, <3>4, <3>5
  <2> QED BY <2>1, <2>2, <2>3 DEF OfferInv
<1>2. ASSUME UNCHANGED catalogueVars, NEW t \in Tills, NEW state \in SaleTask, SaleGo(t, state),
             \A sale \in sales' : OnOffer(sale, revisions), Checked(state, revisions)
      PROVE  OfferInv'
  <2>1. OrderInv' /\ revisions' = revisions
    BY <1>0, <1>2 DEF OrderInv, catalogueVars
  <2>2. \A s \in Tills : saleTask'[s] = IF s = t THEN state ELSE saleTask[s]
    BY <1>0, <1>2, SaleGoes
  <2>3. \A s \in Tills : Checked(saleTask'[s], revisions')
    BY <1>0, <1>2, <2>1, <2>2
  <2> QED BY <1>2, <2>1, <2>3 DEF OfferInv
<1>3. ASSUME NEW t \in Tills, NEW state \in SaleTask, SaleGo(t, state), UNCHANGED salesTables,
             Checked(state, revisions)
      PROVE  OfferInv'
  BY <1>2, <1>3 DEF salesTables, OfferInv
<1>4. ASSUME NEW t \in Tills, NEW product \in Shown(Products), NEW container \in Shown(Containers),
             NEW pos \in Shown(PointsOfSale),
             BeginSale(t, [pointOfSale |-> pos, container |-> container, product |-> product])
      PROVE  OfferInv'
  <2> DEFINE sale == [pointOfSale |-> pos, container |-> container, product |-> product]
  <2>1. sale \in Sale
    BY CatalogueAssumption DEF Shown, Reference, Items, Sale
  <2>2. SaleGo(t, [pc |-> "pointOfSale", sale |-> sale]) /\ UNCHANGED salesTables
    BY <1>4 DEF BeginSale
  <2> HIDE DEF sale
  <2>3. Checked([pc |-> "pointOfSale", sale |-> sale], revisions)
    BY DEF Checked
  <2>4. [pc |-> "pointOfSale", sale |-> sale] \in SaleTask
    BY <2>1, SaleTasks
  <2> QED BY <1>3, <2>2, <2>3, <2>4
<1>5. ASSUME NEW t \in Tills, LoadPointOfSale(t) PROVE OfferInv'
  <2> DEFINE sale == saleTask[t].sale
  <2> DEFINE pos == sale.pointOfSale
  <2>1. sale \in Sale /\ NamesSaved(saleTask[t], revisions) /\ saleTask[t].pc = "pointOfSale"
    BY <1>0, <1>5, SaleTaskTypes DEF LoadPointOfSale, SaleAt
  <2>2. RowOf(pos).kids \subseteq Reference
    BY <1>0, <2>1, SaleTypes, RowType DEF NamesSaved
  <2>3. CASE life[pos.item] = "live"
    <3> DEFINE listed == {k \in RowOf(pos).kids : life[k.item] = "live"}
    <3> DEFINE state == [pc |-> "containers", sale |-> sale, listed |-> listed]
    <3>1. SaleGo(t, state)
      BY <1>5, <2>3 DEF LoadPointOfSale
    <3>2. listed \in SUBSET Reference /\ listed \subseteq RowOf(pos).kids
      BY <2>2
    <3> HIDE DEF listed
    <3>3. state \in SaleTask
      BY <2>1, <3>2, SaleTasks
    <3>4. Checked(state, revisions)
      BY <3>2 DEF Checked, RowOf
    <3> HIDE DEF state
    <3> QED BY <1>3, <1>5, <3>1, <3>3, <3>4 DEF LoadPointOfSale
  <2>4. CASE life[pos.item] # "live"
    <3>1. SaleGo(t, Idle) /\ UNCHANGED salesTables
      BY <1>5, <2>4 DEF LoadPointOfSale
    <3> QED BY <1>3, <3>1, SaleTasks DEF Checked
  <2> QED BY <2>3, <2>4
<1>6. ASSUME NEW t \in Tills, LoadContainers(t) PROVE OfferInv'
  <2> DEFINE task == saleTask[t]
  <2> DEFINE sale == task.sale
  <2>1. sale \in Sale /\ NamesSaved(task, revisions) /\ task.pc = "containers" /\ Checked(task, revisions)
    BY <1>0, <1>6, SaleTaskTypes DEF LoadContainers, SaleAt
  <2>2. CASE Offers(sale, task.listed)
    <3>1. OnOffer(sale, revisions)
      BY <2>1, <2>2 DEF Offers, OnOffer, Checked, NamesSaved, RowOf
    <3>2. [pc |-> "save", sale |-> sale] \in SaleTask /\ Checked([pc |-> "save", sale |-> sale], revisions)
      BY <2>1, <3>1, SaleTasks DEF Checked
    <3>3. SaleGo(t, [pc |-> "save", sale |-> sale]) /\ UNCHANGED salesTables
      BY <1>6, <2>2 DEF LoadContainers
    <3> QED BY <1>3, <3>2, <3>3
  <2>3. CASE ~ Offers(sale, task.listed)
    <3>1. SaleGo(t, Idle) /\ UNCHANGED salesTables
      BY <1>6, <2>3 DEF LoadContainers
    <3> QED BY <1>3, <3>1, SaleTasks DEF Checked
  <2> QED BY <2>2, <2>3
<1>7. ASSUME NEW t \in Tills, SaveSale(t) PROVE OfferInv'
  <2>1. OnOffer(saleTask[t].sale, revisions)
    BY <1>0, <1>7 DEF SaveSale, SaleAt, Checked
  <2>2. \A sale \in sales' : OnOffer(sale, revisions)
    BY <1>7, <2>1 DEF SaveSale, OfferInv
  <2>3. Checked(Idle, revisions)
    BY SaleTasks DEF Checked
  <2> QED BY <1>2, <1>7, <2>2, <2>3, SaleTasks DEF SaveSale
<1>8. ASSUME NEW t \in Tills, SaleFails(t) PROVE OfferInv'
  BY <1>3, <1>8, SaleTasks DEF SaleFails, Checked
<1>9. ASSUME UNCHANGED salesVars PROVE OfferInv'
  BY <1>1, <1>9 DEF salesVars
<1> QED BY <1>1, <1>4, <1>5, <1>6, <1>7, <1>8, <1>9 DEF SalesStep, Purchasing, Editing

(***************************************************************************)
(* verifyTransaction with one edit at a time next to it, and any number of *)
(* tills: what was sold was on offer, and the revisions a purchase names   *)
(* go on saying so.                                                        *)
(***************************************************************************)
THEOREM SoldIsOfferedAlways ==
  ASSUME \A g, h \in Handlers : g = h
  PROVE  SalesInit /\ [][SalesStep]_salesVars => []SoldIsOffered
<1>1. SalesInit => SalesInv /\ OfferInv
  <2>1. SalesInit => OrderInv
    BY CatalogueInitOrder DEF SalesInit
  <2> QED BY <2>1, SalesInitInv, SaleTasks DEF SalesInit, OfferInv, Checked
<1>2. SalesInv /\ OfferInv /\ [SalesStep]_salesVars => SalesInv' /\ OfferInv'
  <2>1. [SalesStep]_salesVars => [SalesNext]_salesVars
    BY DEF SalesStep, SalesNext, Editing, CatalogueNext
  <2> QED BY <2>1, SalesStepInv, SalesStepOffers
<1>3. OfferInv => SoldIsOffered
  BY DEF OfferInv, OnOffer, SoldIsOffered, IsSaved, Saved, RowOf
<1> QED BY <1>1, <1>2, <1>3, PTL
=============================================================================
