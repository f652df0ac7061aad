------------------------------ MODULE Members -------------------------------
(***************************************************************************)
(* A user's row and money together: purchases and the debt rule, top-ups   *)
(* and their limits, administrative costs for inactive users, write-offs   *)
(* and the closing, deletion and change of a user.  Each handler reads a   *)
(* balance or a row, awaits, and then acts on what it read; save() writes  *)
(* back the whole row that was read, User.update one column.               *)
(***************************************************************************)
EXTENDS Integers, FiniteSets, Server

CONSTANTS
  Trusted,              \* the users created with canGoIntoDebt
  MaxPrice,             \* bound on the cost of a purchase
  AdministrativeCost,   \* the setting administrativeCostValue
  MinTopup, MaxBalance, \* minTopupAmount and maxBalanceAmount
  OpenTopups,           \* bound on the payment intents a user has open
  MaxDebt               \* bound on the debt of a user who may go into debt

ASSUME MembersAssumption ==
  /\ Trusted \subseteq Users
  /\ MaxPrice \in Nat /\ AdministrativeCost \in 0 .. MaxPrice
  /\ MinTopup \in Nat /\ MaxBalance \in Nat /\ OpenTopups \in Nat /\ MaxDebt \in Nat

VARIABLES
  balance,      \* what getBalance answers per user
  user,         \* the rows of `user`
  intents,      \* per user, the amounts of the open payment intents, 0: none
  memberTask    \* the requests being handled

membersTables == <<balance, user, intents>>
membersVars   == <<balance, user, intents, memberTask>>

Row == [active : BOOLEAN, deleted : BOOLEAN, canGoIntoDebt : BOOLEAN,
        inactiveNotificationSend : BOOLEAN]

Columns == {"active", "deleted", "inactiveNotificationSend"}

Prices == 1 .. MaxPrice

Slots == 1 .. OpenTopups

MemberTask ==
       {Idle}
  \cup [pc : {"purchase.balance", "purchase.save", "cost.take"}, user : Users,
        amount : 0 .. MaxPrice, notified : BOOLEAN]
  \cup [pc : {"topup.create"}, user : Users, slot : Slots, amount : Nat]
  \cup [pc : {"writeoff.transfer"}, user : Users, amount : Nat]
  \cup [pc : {"reset.load", "writeoff.balance", "close.load"}, user : Users]
  \cup [pc : {"close.balance", "save"}, user : Users, row : Row]
  \cup [pc : {"patch"}, user : Users, column : Columns, value : BOOLEAN]

MembersTypeOK ==
  /\ balance \in [Users -> Int]
  /\ user \in [Users -> Row]
  /\ intents \in [Users -> [Slots -> Nat]]
  /\ memberTask \in [Handlers -> MemberTask]

MembersInit ==
  /\ balance = [u \in Users |-> 0]
  /\ user = [u \in Users |-> [active |-> TRUE, deleted |-> FALSE, canGoIntoDebt |-> u \in Trusted,
                              inactiveNotificationSend |-> FALSE]]
  /\ intents = [u \in Users |-> [s \in Slots |-> 0]]
  /\ memberTask = [h \in Handlers |-> Idle]

MemberAt(h, pc) == memberTask[h].pc = pc

MemberGo(h, state) == memberTask' = [memberTask EXCEPT ![h] = state]

Pays(u, amount) == balance' = [balance EXCEPT ![u] = @ - amount]
-----------------------------------------------------------------------------
(***************************************************************************)
(* POST /transactions.  verifyTransaction wants an active user, deleted or *)
(* not, and keeps the row it loaded; the balance of a user who cannot go   *)
(* into debt is compared with the cost; the rows are saved.  A user who    *)
(* was told to be inactive is then loaded, unmarked and saved.             *)
(***************************************************************************)
BeginPurchase(h, u, cost) ==
  /\ MemberAt(h, "idle")
  /\ user[u].active
  /\ user[u].canGoIntoDebt => balance[u] - cost >= - MaxDebt
  /\ MemberGo(h, [pc |-> IF user[u].canGoIntoDebt THEN "purchase.save" ELSE "purchase.balance",
                  user |-> u, amount |-> cost, notified |-> user[u].inactiveNotificationSend])
  /\ UNCHANGED membersTables

\* Mutant of VerifyBalance: any positive balance will do.
VerifyBalance_Positive(h) ==
  LET purchase == memberTask[h]
  IN  /\ MemberAt(h, "purchase.balance")
      /\ MemberGo(h, IF balance[purchase.user] > 0
                     THEN [purchase EXCEPT !.pc = "purchase.save"] ELSE Idle)
      /\ UNCHANGED membersTables

VerifyBalance(h) ==
  LET purchase == memberTask[h]
  IN  /\ MemberAt(h, "purchase.balance")
      /\ MemberGo(h, IF balance[purchase.user] >= purchase.amount
                     THEN [purchase EXCEPT !.pc = "purchase.save"] ELSE Idle)
      /\ UNCHANGED membersTables

SavePurchase(h) ==
  LET purchase == memberTask[h]
  IN  /\ MemberAt(h, "purchase.save")
      /\ Pays(purchase.user, purchase.amount)
      /\ MemberGo(h, IF purchase.notified THEN [pc |-> "reset.load", user |-> purchase.user] ELSE Idle)
      /\ UNCHANGED <<user, intents>>

LoadMarked(h) ==
  LET u == memberTask[h].user
  IN  /\ MemberAt(h, "reset.load")
      /\ MemberGo(h, [pc |-> "save", user |-> u,
                      row |-> [user[u] EXCEPT !.inactiveNotificationSend = FALSE]])
      /\ UNCHANGED membersTables
-----------------------------------------------------------------------------
(***************************************************************************)
(* POST /stripe/deposit: the limits are checked against the balance, then  *)
(* the intent is made; its success credits the user at any later time.     *)
(***************************************************************************)
\* Mutant of Allowed: the upper limit is forgotten.
Allowed_AnyAmount(b, amount) == amount > 0 /\ (amount >= MinTopup \/ amount = - b)

Allowed(b, amount) ==
  /\ amount > 0
  /\ amount >= MinTopup \/ amount = - b
  /\ MaxBalance >= b + amount

TakenSlot(u, s) ==
  \/ intents[u][s] > 0
  \/ \E g \in Handlers :
       MemberAt(g, "topup.create") /\ memberTask[g].user = u /\ memberTask[g].slot = s

BeginTopup(h, u, s, amount) ==
  /\ MemberAt(h, "idle")
  /\ ~ TakenSlot(u, s)
  /\ Allowed(balance[u], amount)
  /\ MemberGo(h, [pc |-> "topup.create", user |-> u, slot |-> s, amount |-> amount])
  /\ UNCHANGED membersTables

CreateIntent(h) ==
  LET topup == memberTask[h]
  IN  /\ MemberAt(h, "topup.create")
      /\ intents' = [intents EXCEPT ![topup.user][topup.slot] = topup.amount]
      /\ MemberGo(h, Idle)
      /\ UNCHANGED <<balance, user>>

CreditTopup(h, u, s) ==
  /\ MemberAt(h, "idle")
  /\ intents[u][s] > 0
  /\ Pays(u, - intents[u][s])
  /\ intents' = [intents EXCEPT ![u][s] = 0]
  /\ UNCHANGED <<user, memberTask>>
-----------------------------------------------------------------------------
(***************************************************************************)
(* Inactive users: the deduction is the smaller of the cost and the        *)
(* balance that was read; the notification marks the row it loaded.        *)
(***************************************************************************)
Smaller(a, b) == IF a <= b THEN a ELSE b

\* Mutant of Deduction: a debt is taken for a balance.
Deduction_OfDebt(b) == Smaller(b, AdministrativeCost)

\* Mutant of Deduction: the whole cost, whatever the balance.
Deduction_Full(b) == IF b > 0 THEN AdministrativeCost ELSE 0

Deduction(b) == IF b > 0 THEN Smaller(b, AdministrativeCost) ELSE 0

BeginCost(h, u) ==
  /\ MemberAt(h, "idle")
  /\ MemberGo(h, [pc |-> "cost.take", user |-> u, amount |-> Deduction(balance[u]), notified |-> FALSE])
  /\ UNCHANGED membersTables

TakeCost(h) ==
  /\ MemberAt(h, "cost.take")
  /\ Pays(memberTask[h].user, memberTask[h].amount)
  /\ MemberGo(h, Idle)
  /\ UNCHANGED <<user, intents>>

MarkInactive(h, u) ==
  /\ MemberAt(h, "idle")
  /\ MemberGo(h, [pc |-> "save", user |-> u,
                  row |-> [user[u] EXCEPT !.inactiveNotificationSend = TRUE]])
  /\ UNCHANGED membersTables
-----------------------------------------------------------------------------
(***************************************************************************)
(* POST /writeoffs: the controller and then the service read the balance;  *)
(* a transfer takes the debt away, and the user is closed.                 *)
(***************************************************************************)
BeginWriteOff(h, u) ==
  /\ MemberAt(h, "idle")
  /\ ~ user[u].deleted /\ balance[u] <= 0
  /\ MemberGo(h, [pc |-> "writeoff.balance", user |-> u])
  /\ UNCHANGED membersTables

ReadDebt(h) ==
  LET u == memberTask[h].user
  IN  /\ MemberAt(h, "writeoff.balance")
      /\ MemberGo(h, IF balance[u] > 0 THEN Idle
                     ELSE [pc |-> "writeoff.transfer", user |-> u, amount |-> - balance[u]])
      /\ UNCHANGED membersTables

WriteOffDebt(h) ==
  LET u == memberTask[h].user
  IN  /\ MemberAt(h, "writeoff.transfer")
      /\ Pays(u, - memberTask[h].amount)
      /\ MemberGo(h, [pc |-> "close.load", user |-> u])
      /\ UNCHANGED <<user, intents>>

(***************************************************************************)
(* closeUser: the row is loaded, the balance must be zero, and the row is  *)
(* saved deleted, inactive and without leave to go into debt.              *)
(***************************************************************************)
LoadClosing(h) ==
  LET u == memberTask[h].user
  IN  /\ MemberAt(h, "close.load")
      /\ MemberGo(h, [pc |-> "close.balance", user |-> u, row |-> user[u]])
      /\ UNCHANGED membersTables

CheckZero(h) ==
  LET closing == memberTask[h]
  IN  /\ MemberAt(h, "close.balance")
      /\ MemberGo(h, IF balance[closing.user] # 0 THEN Idle
                     ELSE [pc |-> "save", user |-> closing.user,
                           row |-> [closing.row EXCEPT !.deleted = TRUE, !.active = FALSE,
                                                       !.canGoIntoDebt = FALSE]])
      /\ UNCHANGED membersTables

(***************************************************************************)
(* user.save(): every column that differs from the table is written.       *)
(***************************************************************************)
SaveUser(h) ==
  /\ MemberAt(h, "save")
  /\ user' = [user EXCEPT ![memberTask[h].user] = memberTask[h].row]
  /\ MemberGo(h, Idle)
  /\ UNCHANGED <<balance, intents>>
-----------------------------------------------------------------------------
(***************************************************************************)
(* DELETE and PATCH /users/:id, for users that are not deleted.  The first *)
(* saves the row it loaded, the second updates the columns of the body.    *)
(* A login saves the row it loaded, for lastSeen, without awaiting it.     *)
(***************************************************************************)
BeginLogin(h, u) ==
  /\ MemberAt(h, "idle")
  /\ ~ user[u].deleted
  /\ MemberGo(h, [pc |-> "save", user |-> u, row |-> user[u]])
  /\ UNCHANGED membersTables

BeginDelete(h, u) ==
  /\ MemberAt(h, "idle")
  /\ ~ user[u].deleted
  /\ MemberGo(h, [pc |-> "save", user |-> u, row |-> [user[u] EXCEPT !.deleted = TRUE]])
  /\ UNCHANGED membersTables

BeginPatch(h, u, column, value) ==
  /\ MemberAt(h, "idle")
  /\ ~ user[u].deleted
  /\ MemberGo(h, [pc |-> "patch", user |-> u, column |-> column, value |-> value])
  /\ UNCHANGED membersTables

UpdateColumn(h) ==
  LET patch == memberTask[h]
  IN  /\ MemberAt(h, "patch")
      /\ user' = [user EXCEPT ![patch.user][patch.column] = patch.value]
      /\ MemberGo(h, Idle)
      /\ UNCHANGED <<balance, intents>>

(***************************************************************************)
(* A statement fails or the process dies.                                  *)
(***************************************************************************)
MemberFails(h) == ~ MemberAt(h, "idle") /\ MemberGo(h, Idle) /\ UNCHANGED membersTables

BeginMember(h, u) ==
  \/ \E cost \in Prices : BeginPurchase(h, u, cost)
  \/ \E s \in Slots : \/ CreditTopup(h, u, s)
                      \/ \E amount \in 1 .. (MaxBalance + MaxDebt) : BeginTopup(h, u, s, amount)
  \/ BeginCost(h, u) \/ MarkInactive(h, u) \/ BeginWriteOff(h, u) \/ BeginDelete(h, u) \/ BeginLogin(h, u)
  \/ \E column \in Columns, value \in BOOLEAN : BeginPatch(h, u, column, value)

MembersNext ==
  \E h \in Handlers :
    \/ \E u \in Users : BeginMember(h, u)
    \/ VerifyBalance(h) \/ SavePurchase(h) \/ LoadMarked(h) \/ CreateIntent(h) \/ TakeCost(h)
    \/ ReadDebt(h) \/ WriteOffDebt(h) \/ LoadClosing(h) \/ CheckZero(h) \/ SaveUser(h)
    \/ UpdateColumn(h) \/ MemberFails(h)

MembersSpec == MembersInit /\ [][MembersNext]_membersVars
-----------------------------------------------------------------------------
(***************************************************************************)
(* A user who may not go into debt: with n handlers at once, n - 1 of them *)
(* can spend money that is spent already, and never more than that,        *)
(* however purchases, costs, write-offs and failures interleave.           *)
(***************************************************************************)
DebtIsBounded ==
  \A u \in Users \ Trusted : balance[u] >= - (Cardinality(Handlers) - 1) * MaxPrice

(***************************************************************************)
(* With one request at a time, topping up raises a balance no further than *)
(* the maximum, and the debt it settles, once for each intent a user has   *)
(* open; a purchase or a write-off may come between the check and the      *)
(* credit.                                                                 *)
(***************************************************************************)
TopupsAreBounded == \A u \in Users : balance[u] <= OpenTopups * (MaxBalance + MaxDebt)

(***************************************************************************)
(* With one request at a time, a user who was closed with a write-off (and *)
(* lost the leave to go into debt) owes nothing ever after, wherever a     *)
(* write-off fails and is repeated.                                        *)
(***************************************************************************)
ClosedOwesNothing == \A u \in Trusted : user[u].canGoIntoDebt \/ balance[u] >= 0

(***************************************************************************)
(* What the entity promises: a user is only deleted with a balance of 0.   *)
(***************************************************************************)
DeletedAtZero ==
  [][\A u \in Users : ~ user[u].deleted /\ user'[u].deleted => balance[u] = 0]_membersVars
=============================================================================
