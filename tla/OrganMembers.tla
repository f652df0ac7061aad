---------------------------- MODULE OrganMembers ----------------------------
(***************************************************************************)
(* The members of a shared account (an organ), as LDAP lists them.  Every  *)
(* quarter of an hour setMemberAuthenticator replaces the memberships:     *)
(* all rows go, then the rows of the members on the list are saved, where  *)
(* those who stay keep their index and new ones get the lowest free one.   *)
(***************************************************************************)
EXTENDS Integers, FiniteSets, Server

CONSTANTS Persons     \* the users LDAP may list for the organ, by their ids

ASSUME PersonsAssumption == Persons \subseteq Nat /\ IsFiniteSet(Persons)

VARIABLES
  index,          \* the rows of organ_membership: their index, None without a row
  listed,         \* external: the members LDAP lists
  kept,           \* history: the index a member got when the membership began, None
                  \* if there is no such member or a replacement has failed since
  organTask

organVars == <<index, listed, kept, organTask>>

None == -1

Indices == 0 .. Cardinality(Persons)

Memberships == [Persons -> Indices \cup {None}]

OrganTask ==
  {Idle} \cup [pc : {"delete", "save"}, new : Memberships, todo : SUBSET Persons]

OrganTypeOK ==
  /\ index \in Memberships /\ kept \in Memberships
  /\ listed \subseteq Persons
  /\ organTask \in [Handlers -> OrganTask]

NoMembers == [p \in Persons |-> None]

OrganInit ==
  /\ index = NoMembers /\ kept = NoMembers /\ listed = {}
  /\ organTask = [h \in Handlers |-> Idle]

OrganAt(h, pc) == organTask[h].pc = pc

OrganGo(h, state) == organTask' = [organTask EXCEPT ![h] = state]

MembersOf(rows) == {p \in Persons : rows[p] # None}
-----------------------------------------------------------------------------
(***************************************************************************)
(* The indices of a new list, given the rows there were: the members who   *)
(* stay keep theirs, the others get the lowest free ones, in their order.  *)
(***************************************************************************)
\* Mutant of Reserved: nothing is kept free for the members who stay.
Reserved_Nobody(old, users) == {}

\* The indices of the members who stay.
Reserved(old, users) == {old[p] : p \in MembersOf(old) \cap users}

Assign(old, users) ==
  LET joining == users \ MembersOf(old)
      free == Indices \ Reserved(old, users)
      before(p) == Cardinality({q \in joining : q < p})
      nth(k) == CHOOSE i \in free : Cardinality({j \in free : j < i}) = k
  IN  [p \in Persons |-> IF p \notin users THEN None
                         ELSE IF p \in joining THEN nth(before(p)) ELSE old[p]]

\* Mutant of ReadMembers: the rows are read when they have gone.
ReadMembers_Deleted(h) ==
  /\ OrganAt(h, "idle")
  /\ OrganGo(h, [pc |-> "delete", new |-> Assign(NoMembers, listed), todo |-> listed])
  /\ UNCHANGED <<index, listed, kept>>

ReadMembers(h) ==
  /\ OrganAt(h, "idle")
  /\ OrganGo(h, [pc |-> IF index = NoMembers THEN "save" ELSE "delete",
                 new |-> Assign(index, listed), todo |-> listed])
  /\ UNCHANGED <<index, listed, kept>>

DeleteMembers(h) ==
  /\ OrganAt(h, "delete")
  /\ index' = NoMembers
  /\ OrganGo(h, [organTask[h] EXCEPT !.pc = "save"])
  /\ UNCHANGED <<listed, kept>>

\* The rows are saved at the same time; the handler is done with the last one.
SaveMembership(h, p) ==
  LET task == organTask[h]
  IN  /\ OrganAt(h, "save")
      /\ p \in task.todo
      /\ index' = [index EXCEPT ![p] = task.new[p]]
      /\ OrganGo(h, [task EXCEPT !.todo = @ \ {p}])
      /\ UNCHANGED <<listed, kept>>

EndMembers(h) ==
  LET task == organTask[h]
  IN  /\ OrganAt(h, "save") /\ task.todo = {}
      /\ kept' = [p \in Persons |-> IF task.new[p] # None /\ kept[p] # None THEN kept[p] ELSE task.new[p]]
      /\ OrganGo(h, Idle)
      /\ UNCHANGED <<index, listed>>

ListChanges(p) ==
  /\ listed' = IF p \in listed THEN listed \ {p} ELSE listed \cup {p}
  /\ UNCHANGED <<index, kept, organTask>>

\* A statement fails or the process dies: some rows are not saved.
OrganFails(h) ==
  /\ ~ OrganAt(h, "idle")
  /\ kept' = NoMembers
  /\ OrganGo(h, Idle)
  /\ UNCHANGED <<index, listed>>

OrganNext ==
  \/ \E p \in Persons : ListChanges(p) \/ \E h \in Handlers : SaveMembership(h, p)
  \/ \E h \in Handlers : ReadMembers(h) \/ DeleteMembers(h) \/ EndMembers(h) \/ OrganFails(h)

OrganSpec == OrganInit /\ [][OrganNext]_organVars
-----------------------------------------------------------------------------
(***************************************************************************)
(* With one synchronisation at a time no two members of an organ have the  *)
(* same index, also in the middle of a replacement and after one that      *)
(* failed half way; and a member who stays on the list has the same index  *)
(* after every replacement, as long as none fails.                         *)
(***************************************************************************)
IndexIsUnique ==
  \A p, q \in MembersOf(index) : p # q => index[p] # index[q]

StayersKeepIndex ==
  (\A h \in Handlers : OrganAt(h, "idle")) =>
    \A p \in Persons : kept[p] # None => index[p] = kept[p]

MembersHaveIndices == IndexIsUnique /\ StayersKeepIndex
=============================================================================
