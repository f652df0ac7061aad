--------------------------- MODULE Members_proofs ---------------------------
(***************************************************************************)
(* The debt rule for any number of requests at once: what a user who may   *)
(* not go into debt can owe, whatever interleaves and fails.               *)
(***************************************************************************)
EXTENDS Members, FiniteSetTheorems, TLAPS

(***************************************************************************)
(* A request that has compared its amount with a balance and will spend it.*)
(***************************************************************************)
Spends(task, u) ==
  task.pc \in {"purchase.save", "cost.take"} /\ task.user = u /\ task.amount > 0

Spenders(u) == {h \in Handlers : Spends(memberTask[h], u)}

(***************************************************************************)
(* With n requests that will still spend, the others may have spent before *)
(* them what n compared their amounts with.                                *)
(***************************************************************************)
Room(n) == (n - Cardinality(Handlers)) * MaxPrice

Spending(u) ==
  IF Spenders(u) = {}
  THEN balance[u] >= Room(1)
  ELSE \E g \in Spenders(u) : balance[u] - memberTask[g].amount >= Room(Cardinality(Spenders(u)))

(***************************************************************************)
(* No row of such a user, in the table or loaded, has the leave.           *)
(***************************************************************************)
NoLeave ==
  \A u \in Users \ Trusted :
    /\ ~ user[u].canGoIntoDebt
    /\ \A h \in Handlers :
         memberTask[h].pc \in {"close.balance", "save"} /\ memberTask[h].user = u =>
           ~ memberTask[h].row.canGoIntoDebt

MembersInv == MembersTypeOK /\ NoLeave /\ \A u \in Users \ Trusted : Spending(u)
-----------------------------------------------------------------------------
LEMMA RoomFacts ==
  /\ Cardinality(Handlers) \in Nat \ {0}
  /\ \A n \in Int : Room(n) \in Int /\ Room(n + 1) = Room(n) + MaxPrice /\ Room(n - 1) = Room(n) - MaxPrice
  /\ \A n \in Int : n <= Cardinality(Handlers) => Room(n) <= 0
  /\ \A n \in Int : n >= 1 => Room(n) >= Room(1)
<1> DEFINE N == Cardinality(Handlers)
<1>1. N \in Nat \ {0}
  BY ServerAssumption, FS_CardinalityType, FS_EmptySet
<1>2. MaxPrice \in Nat
  BY MembersAssumption
<1> HIDE DEF N
<1>3. ASSUME NEW a \in Int, NEW b \in Int, a <= b PROVE a * MaxPrice <= b * MaxPrice
  <2>1. (b - a) * MaxPrice >= 0
    BY <1>2, <1>3
  <2> QED BY <1>2, <1>3, <2>1
<1>4. \A n \in Int : Room(n) = (n - N) * MaxPrice
  BY DEF Room, N
<1>5. \A n \in Int : Room(n) \in Int
  BY <1>1, <1>2, <1>4
<1>6. ASSUME NEW n \in Int
      PROVE  Room(n + 1) = Room(n) + MaxPrice /\ Room(n - 1) = Room(n) - MaxPrice
  BY <1>1, <1>2, <1>4
<1>7. ASSUME NEW n \in Int, n <= N PROVE Room(n) <= 0
  <2>1. (n - N) * MaxPrice <= 0 * MaxPrice
    BY <1>1, <1>3, <1>7
  <2> QED BY <1>2, <1>4, <2>1
<1>8. ASSUME NEW n \in Int, n >= 1 PROVE Room(n) >= Room(1)
  <2>1. (1 - N) * MaxPrice <= (n - N) * MaxPrice
    BY <1>1, <1>3, <1>8
  <2> QED BY <1>4, <2>1
<1> QED BY <1>1, <1>5, <1>6, <1>7, <1>8 DEF N

LEMMA SpenderType ==
  ASSUME NEW task \in MemberTask, NEW u, Spends(task, u)
  PROVE  task.amount \in 1 .. MaxPrice /\ task.user \in Users
<1>1. task.pc \in {"purchase.save", "cost.take"} /\ task.amount > 0
  BY DEF Spends
<1>2. task \in [pc : {"purchase.balance", "purchase.save", "cost.take"}, user : Users,
                amount : 0 .. MaxPrice, notified : BOOLEAN]
  BY <1>1 DEF MemberTask, Idle
<1> QED BY <1>1, <1>2, MembersAssumption

LEMMA SpendersFinite ==
  ASSUME NEW u
  PROVE  /\ IsFiniteSet(Spenders(u)) /\ Cardinality(Spenders(u)) \in Nat
         /\ Cardinality(Spenders(u)) <= Cardinality(Handlers)
         /\ Spenders(u) # {} => Cardinality(Spenders(u)) >= 1
<1>1. Spenders(u) \subseteq Handlers
  BY DEF Spenders
<1>2. IsFiniteSet(Spenders(u)) /\ Cardinality(Spenders(u)) <= Cardinality(Handlers)
  BY <1>1, ServerAssumption, FS_Subset
<1> QED BY <1>2, FS_CardinalityType, FS_EmptySet

(***************************************************************************)
(* A step of one request keeps the bound when it spends no more than it    *)
(* was about to, and compares with the balance what it is about to spend.  *)
(***************************************************************************)
LEMMA SpendingStep ==
  ASSUME MembersTypeOK, NEW u \in Users, Spending(u), NEW h \in Handlers, NEW state \in MemberTask,
         MemberGo(h, state), balance'[u] \in Int,
         \/ ~ Spends(memberTask[h], u) /\ ~ Spends(state, u) /\ balance'[u] >= balance[u]
         \/ ~ Spends(memberTask[h], u) /\ Spends(state, u) /\ balance'[u] >= state.amount
         \/ /\ Spends(memberTask[h], u) /\ ~ Spends(state, u)
            /\ balance'[u] >= balance[u] - memberTask[h].amount
  PROVE  Spending(u)'
<1> DEFINE n == Cardinality(Spenders(u))
<1>1. /\ memberTask' \in [Handlers -> MemberTask]
      /\ \A g \in Handlers : memberTask'[g] = IF g = h THEN state ELSE memberTask[g]
      /\ balance[u] \in Int
  BY DEF MembersTypeOK, MemberGo
<1>2. \A g \in Spenders(u) : memberTask[g].amount \in 1 .. MaxPrice
  BY SpenderType DEF Spenders, MembersTypeOK
<1>3. n \in Nat /\ n <= Cardinality(Handlers) /\ IsFiniteSet(Spenders(u)) /\ (Spenders(u) # {} => n >= 1)
  BY SpendersFinite
<1>4. MaxPrice \in Nat
  BY MembersAssumption
<1>5. CASE /\ ~ Spends(memberTask[h], u) /\ ~ Spends(state, u) /\ balance'[u] >= balance[u]
  <2>1. Spenders(u)' = Spenders(u)
    BY <1>1, <1>5 DEF Spenders
  <2>2. CASE Spenders(u) = {}
    BY <1>1, <1>5, <2>1, <2>2, RoomFacts DEF Spending
  <2>3. CASE Spenders(u) # {}
    <3>1. PICK g \in Spenders(u) : balance[u] - memberTask[g].amount >= Room(n)
      BY <2>3 DEF Spending
    <3>2. memberTask'[g] = memberTask[g]
      BY <1>1, <1>5, <3>1 DEF Spenders
    <3>3. balance'[u] - memberTask'[g].amount >= Room(n)
      BY <1>1, <1>2, <1>3, <1>5, <3>1, <3>2, RoomFacts
    <3> QED BY <2>1, <2>3, <3>3 DEF Spending
  <2> QED BY <2>2, <2>3
<1>6. CASE ~ Spends(memberTask[h], u) /\ Spends(state, u) /\ balance'[u] >= state.amount
  <2>1. Spenders(u)' = Spenders(u) \cup {h} /\ h \notin Spenders(u)
    BY <1>1, <1>6 DEF Spenders
  <2>2. Cardinality(Spenders(u)') \in Int /\ Cardinality(Spenders(u)') <= Cardinality(Handlers)
    <3>1. Spenders(u)' \subseteq Handlers
      BY DEF Spenders
    <3> QED BY <3>1, ServerAssumption, FS_Subset, FS_CardinalityType
  <2>3. Room(Cardinality(Spenders(u)')) <= 0 /\ Room(Cardinality(Spenders(u)')) \in Int
    BY <2>2, RoomFacts
  <2>4. balance'[u] - memberTask'[h].amount >= 0
    BY <1>1, <1>6, SpenderType
  <2>5. balance'[u] - memberTask'[h].amount \in Int
    BY <1>1, <1>6, SpenderType
  <2>6. balance'[u] - memberTask'[h].amount >= Room(Cardinality(Spenders(u)'))
    BY <2>3, <2>4, <2>5
  <2> QED BY <2>1, <2>6 DEF Spending
<1>7. CASE /\ Spends(memberTask[h], u) /\ ~ Spends(state, u)
           /\ balance'[u] >= balance[u] - memberTask[h].amount
  <2>1. h \in Spenders(u) /\ Spenders(u)' = Spenders(u) \ {h}
    BY <1>1, <1>7 DEF Spenders
  <2>2. Cardinality(Spenders(u)') = n - 1
    BY <1>3, <2>1, FS_RemoveElement
  <2>3. PICK g \in Spenders(u) : balance[u] - memberTask[g].amount >= Room(n)
    BY <2>1 DEF Spending
  <2>4. Room(n) \in Int /\ Room(n - 1) \in Int /\ Room(n - 1) = Room(n) - MaxPrice /\ Room(1) \in Int
    BY <1>3, RoomFacts
  <2>5. /\ memberTask[h].amount \in 1 .. MaxPrice /\ memberTask[g].amount \in 1 .. MaxPrice
    BY <1>2, <2>1
  <2>6. CASE Spenders(u)' = {}
    <3>1. g = h /\ n = 1
      BY <1>3, <2>1, <2>2, <2>6, FS_EmptySet
    <3>2. balance'[u] >= Room(1)
      BY <1>1, <1>4, <1>7, <2>3, <2>4, <2>5, <3>1
    <3> QED BY <2>6, <3>2, RoomFacts DEF Spending, Room
  <2>7. CASE Spenders(u)' # {}
    <3>1. PICK f \in Spenders(u) \ {h} : g # h => f = g
      BY <2>1, <2>7
    <3>2. memberTask'[f] = memberTask[f] /\ memberTask[f].amount \in 1 .. MaxPrice
      BY <1>1, <1>2, <3>1 DEF Spenders
    <3>3. balance'[u] - memberTask[f].amount >= Room(n - 1)
      BY <1>1, <1>4, <1>7, <2>3, <2>4, <2>5, <3>1, <3>2
    <3> QED BY <2>1, <2>2, <2>7, <3>1, <3>2, <3>3 DEF Spending
  <2> QED BY <2>6, <2>7
<1> QED BY <1>5, <1>6, <1>7
-----------------------------------------------------------------------------
LEMMA MembersInitInv == MembersInit => MembersInv
<1> SUFFICES ASSUME MembersInit PROVE MembersInv
  OBVIOUS
<1>1. MembersTypeOK
  BY DEF MembersInit, MembersTypeOK, MemberTask, Row, Idle
<1>2. NoLeave
  BY DEF MembersInit, NoLeave, Idle
<1>3. ASSUME NEW u \in Users \ Trusted PROVE Spending(u)
  <2>1. Spenders(u) = {}
    BY DEF MembersInit, Spenders, Spends, Idle
  <2>2. Room(1) <= 0 /\ Room(1) \in Int
    BY RoomFacts
  <2> QED BY <2>1, <2>2 DEF MembersInit, Spending
<1> QED BY <1>1, <1>2, <1>3 DEF MembersInv

(***************************************************************************)
(* What every step of a request has to show: types, no leave in what it    *)
(* loads or saves, and the condition of SpendingStep.                      *)
(***************************************************************************)
LEMMA MemberStep ==
  ASSUME MembersInv, NEW h \in Handlers, NEW state \in MemberTask, MemberGo(h, state),
         balance' \in [Users -> Int], user' \in [Users -> Row], intents' \in [Users -> [Slots -> Nat]],
         \A u \in Users \ Trusted :
           /\ ~ user'[u].canGoIntoDebt
           /\ state.pc \in {"close.balance", "save"} /\ state.user = u => ~ state.row.canGoIntoDebt
           /\ \/ ~ Spends(memberTask[h], u) /\ ~ Spends(state, u) /\ balance'[u] >= balance[u]
              \/ ~ Spends(memberTask[h], u) /\ Spends(state, u) /\ balance'[u] >= state.amount
              \/ /\ Spends(memberTask[h], u) /\ ~ Spends(state, u)
                 /\ balance'[u] >= balance[u] - memberTask[h].amount
  PROVE  MembersInv'
<1>1. /\ memberTask' \in [Handlers -> MemberTask]
      /\ \A g \in Handlers : memberTask'[g] = IF g = h THEN state ELSE memberTask[g]
  BY DEF MembersInv, MembersTypeOK, MemberGo
<1>2. MembersTypeOK'
  BY <1>1 DEF MembersTypeOK
<1>3. NoLeave'
  BY <1>1 DEF MembersInv, NoLeave
<1>4. ASSUME NEW u \in Users \ Trusted PROVE Spending(u)'
  BY SpendingStep DEF MembersInv
<1> QED BY <1>2, <1>3, <1>4 DEF MembersInv

(***************************************************************************)
(* Steps that keep the tables and after which the request will not spend.  *)
(***************************************************************************)
LEMMA KeepsTables ==
  ASSUME MembersInv, NEW h \in Handlers, NEW state \in MemberTask, MemberGo(h, state),
         UNCHANGED membersTables, state.pc \notin {"purchase.save", "cost.take"},
         \A u \in Users \ Trusted :
           state.pc \in {"close.balance", "save"} /\ state.user = u => ~ state.row.canGoIntoDebt
  PROVE  MembersInv'
<1>1. \A u \in Users : ~ Spends(state, u) /\ balance[u] \in Int
  BY DEF Spends, MembersInv, MembersTypeOK
<1>2. \A u \in Users \ Trusted : Spends(memberTask[h], u) => memberTask[h].amount \in 1 .. MaxPrice
  BY SpenderType DEF MembersInv, MembersTypeOK
<1>3. MaxPrice \in Nat
  BY MembersAssumption
<1>4. \A u \in Users \ Trusted :
        \/ ~ Spends(memberTask[h], u) /\ ~ Spends(state, u) /\ balance'[u] >= balance[u]
        \/ /\ Spends(memberTask[h], u) /\ ~ Spends(state, u)
           /\ balance'[u] >= balance[u] - memberTask[h].amount
  BY <1>1, <1>2, <1>3 DEF membersTables
<1>5. \A u \in Users \ Trusted : ~ user'[u].canGoIntoDebt
  BY DEF MembersInv, NoLeave, membersTables
<1>6. balance' \in [Users -> Int] /\ user' \in [Users -> Row] /\ intents' \in [Users -> [Slots -> Nat]]
  BY DEF MembersInv, MembersTypeOK, membersTables
<1> QED BY <1>4, <1>5, <1>6, MemberStep

(***************************************************************************)
(* What requests hold between their steps.                                 *)
(***************************************************************************)
LEMMA TaskTypes ==
  ASSUME MembersInv, NEW h \in Handlers
  PROVE  /\ memberTask[h] \in MemberTask
         /\ memberTask[h].pc \in {"purchase.balance", "purchase.save", "cost.take"} =>
              memberTask[h] \in [pc : {"purchase.balance", "purchase.save", "cost.take"}, user : Users,
                                 amount : 0 .. MaxPrice, notified : BOOLEAN]
         /\ MemberAt(h, "topup.create") =>
              memberTask[h] \in [pc : {"topup.create"}, user : Users, slot : Slots, amount : Nat]
         /\ MemberAt(h, "writeoff.transfer") =>
              memberTask[h] \in [pc : {"writeoff.transfer"}, user : Users, amount : Nat]
         /\ memberTask[h].pc \in {"reset.load", "writeoff.balance", "close.load"} =>
              memberTask[h] \in [pc : {"reset.load", "writeoff.balance", "close.load"}, user : Users]
         /\ memberTask[h].pc \in {"close.balance", "save"} =>
              memberTask[h] \in [pc : {"close.balance", "save"}, user : Users, row : Row]
         /\ MemberAt(h, "patch") =>
              memberTask[h] \in [pc : {"patch"}, user : Users, column : Columns, value : BOOLEAN]
<1>1. memberTask[h] \in MemberTask
  BY DEF MembersInv, MembersTypeOK
<1> QED BY <1>1 DEF MemberTask, MemberAt, Idle

LEMMA IdleIsTask == Idle \in MemberTask /\ Idle.pc = "idle"
BY DEF MemberTask, Idle

LEMMA UserRowOf ==
  ASSUME MembersInv, NEW u \in Users
  PROVE  user[u] \in Row /\ (u \notin Trusted => ~ user[u].canGoIntoDebt) /\ balance[u] \in Int
BY DEF MembersInv, MembersTypeOK, NoLeave
-----------------------------------------------------------------------------
LEMMA BeginPurchaseInv ==
  ASSUME MembersInv, NEW h \in Handlers, NEW u \in Users, NEW cost \in Prices, BeginPurchase(h, u, cost)
  PROVE  MembersInv'
<1> DEFINE state == [pc |-> IF user[u].canGoIntoDebt THEN "purchase.save" ELSE "purchase.balance",
                     user |-> u, amount |-> cost, notified |-> user[u].inactiveNotificationSend]
<1>1. user[u] \in Row /\ (u \notin Trusted => ~ user[u].canGoIntoDebt)
  BY UserRowOf
<1>2. state \in MemberTask
  BY <1>1, MembersAssumption DEF MemberTask, Row, Prices
<1>3. memberTask[h].pc = "idle"
  BY DEF BeginPurchase, MemberAt
<1>4. ASSUME NEW v \in Users \ Trusted
      PROVE  ~ Spends(memberTask[h], v) /\ ~ Spends(state, v) /\ balance'[v] >= balance[v]
  <2>1. balance'[v] = balance[v] /\ balance[v] \in Int
    BY DEF BeginPurchase, membersTables, MembersInv, MembersTypeOK
  <2> QED BY <1>1, <1>3, <2>1 DEF Spends
<1>5. state.pc \notin {"close.balance", "save"}
  OBVIOUS
<1>6. MemberGo(h, state) /\ UNCHANGED membersTables
  BY DEF BeginPurchase
<1>7. balance' \in [Users -> Int] /\ user' \in [Users -> Row] /\ intents' \in [Users -> [Slots -> Nat]]
  BY <1>6 DEF MembersInv, MembersTypeOK, membersTables
<1>8. \A v \in Users \ Trusted : ~ user'[v].canGoIntoDebt
  BY <1>6 DEF MembersInv, NoLeave, membersTables
<1> HIDE DEF state
<1> QED BY <1>2, <1>4, <1>5, <1>6, <1>7, <1>8, MemberStep

LEMMA VerifyBalanceInv ==
  ASSUME MembersInv, NEW h \in Handlers, VerifyBalance(h)
  PROVE  MembersInv'
<1>1. memberTask[h].pc = "purchase.balance"
  BY DEF VerifyBalance, MemberAt
<1>2. PICK u \in Users, amount \in 0 .. MaxPrice, notified \in BOOLEAN :
        memberTask[h] = [pc |-> "purchase.balance", user |-> u, amount |-> amount, notified |-> notified]
  <2>1. memberTask[h] \in [pc : {"purchase.balance", "purchase.save", "cost.take"}, user : Users,
                           amount : 0 .. MaxPrice, notified : BOOLEAN]
    BY <1>1, TaskTypes
  <2> QED BY <1>1, <2>1
<1>3. CASE balance[u] >= amount
  <2> DEFINE state == [pc |-> "purchase.save", user |-> u, amount |-> amount, notified |-> notified]
  <2>1. state \in MemberTask
    BY DEF MemberTask
  <2>2. MemberGo(h, state) /\ UNCHANGED membersTables
    BY <1>2, <1>3 DEF VerifyBalance
  <2>3. balance' \in [Users -> Int] /\ user' \in [Users -> Row] /\ intents' \in [Users -> [Slots -> Nat]]
    BY <2>2 DEF MembersInv, MembersTypeOK, membersTables
  <2>4. \A v \in Users \ Trusted : ~ user'[v].canGoIntoDebt
    BY <2>2 DEF MembersInv, NoLeave, membersTables
  <2>5. ASSUME NEW v \in Users \ Trusted
        PROVE  /\ ~ Spends(memberTask[h], v)
               /\ \/ ~ Spends(state, v) /\ balance'[v] >= balance[v]
                  \/ Spends(state, v) /\ balance'[v] >= state.amount
    <3>1. balance'[v] = balance[v] /\ balance[v] \in Int
      BY <2>2 DEF membersTables, MembersInv, MembersTypeOK
    <3>2. ~ Spends(memberTask[h], v)
      BY <1>1 DEF Spends
    <3>3. CASE Spends(state, v)
      <4>1. v = u
        BY <3>3 DEF Spends
      <4> QED BY <1>3, <3>1, <3>2, <3>3, <4>1
    <3>4. CASE ~ Spends(state, v)
      BY <3>1, <3>2, <3>4
    <3> QED BY <3>3, <3>4
  <2>6. state.pc = "purchase.save"
    OBVIOUS
  <2> HIDE DEF state
  <2> QED BY <2>1, <2>2, <2>3, <2>4, <2>5, <2>6, MemberStep
<1>4. CASE ~ (balance[u] >= amount)
  <2>1. MemberGo(h, Idle) /\ UNCHANGED membersTables
    BY <1>2, <1>4 DEF VerifyBalance
  <2> QED BY <2>1, IdleIsTask, KeepsTables
<1> QED BY <1>3, <1>4

(***************************************************************************)
(* A step that moves money: it takes from a user what the request has said *)
(* it spends, or gives.                                                    *)
(***************************************************************************)
LEMMA MovesMoney ==
  ASSUME MembersInv, NEW h \in Handlers, NEW state \in MemberTask, MemberGo(h, state),
         NEW u \in Users, NEW amount \in Int, Pays(u, amount), user' = user,
         intents' \in [Users -> [Slots -> Nat]],
         state.pc \notin {"purchase.save", "cost.take", "close.balance", "save"},
         \/ amount <= 0 /\ \A v \in Users : ~ Spends(memberTask[h], v)
         \/ /\ memberTask[h].pc \in {"purchase.save", "cost.take"}
            /\ memberTask[h].user = u /\ memberTask[h].amount = amount /\ amount >= 0
  PROVE  MembersInv'
<1>1. /\ balance' \in [Users -> Int]
      /\ \A v \in Users : balance[v] \in Int /\ balance'[v] = IF v = u THEN balance[v] - amount ELSE balance[v]
  BY DEF Pays, MembersInv, MembersTypeOK
<1>2. ASSUME NEW v \in Users \ Trusted
      PROVE  /\ ~ Spends(state, v)
             /\ \/ ~ Spends(memberTask[h], v) /\ balance'[v] >= balance[v]
                \/ Spends(memberTask[h], v) /\ balance'[v] >= balance[v] - memberTask[h].amount
  <2>1. ~ Spends(state, v)
    BY DEF Spends
  <2>2. CASE amount <= 0 /\ ~ Spends(memberTask[h], v)
    BY <1>1, <2>1, <2>2
  <2>3. CASE /\ memberTask[h].pc \in {"purchase.save", "cost.take"}
             /\ memberTask[h].user = u /\ memberTask[h].amount = amount /\ amount >= 0
    <3>1. CASE v = u /\ amount > 0
      BY <1>1, <2>1, <2>3, <3>1 DEF Spends
    <3>2. CASE v # u \/ amount = 0
      BY <1>1, <2>1, <2>3, <3>2 DEF Spends
    <3> QED BY <2>3, <3>1, <3>2
  <2> QED BY <2>2, <2>3
<1>3. user' \in [Users -> Row] /\ \A v \in Users \ Trusted : ~ user'[v].canGoIntoDebt
  BY DEF MembersInv, MembersTypeOK, NoLeave
<1> QED BY <1>1, <1>2, <1>3, MemberStep

LEMMA SavePurchaseInv ==
  ASSUME MembersInv, NEW h \in Handlers, SavePurchase(h)
  PROVE  MembersInv'
<1> DEFINE u == memberTask[h].user
           state == IF memberTask[h].notified THEN [pc |-> "reset.load", user |-> u] ELSE Idle
<1>1. memberTask[h].pc = "purchase.save"
  BY DEF SavePurchase, MemberAt
<1>2. u \in Users /\ memberTask[h].amount \in 0 .. MaxPrice
  BY <1>1, TaskTypes
<1>3. state \in MemberTask /\ state.pc \in {"reset.load", "idle"}
  BY <1>2, IdleIsTask DEF MemberTask
<1>4. MemberGo(h, state) /\ Pays(u, memberTask[h].amount) /\ user' = user /\ intents' = intents
  BY DEF SavePurchase
<1>5. memberTask[h].amount \in Int /\ memberTask[h].amount >= 0
  BY <1>2, MembersAssumption
<1>6. intents' \in [Users -> [Slots -> Nat]]
  BY <1>4 DEF MembersInv, MembersTypeOK
<1> HIDE DEF u, state
<1>7. memberTask[h].user = u
  BY DEF u
<1> QED BY <1>1, <1>2, <1>3, <1>4, <1>5, <1>6, <1>7, MovesMoney

LEMMA TakeCostInv ==
  ASSUME MembersInv, NEW h \in Handlers, TakeCost(h)
  PROVE  MembersInv'
<1>1. memberTask[h].pc = "cost.take"
  BY DEF TakeCost, MemberAt
<1>2. memberTask[h].user \in Users /\ memberTask[h].amount \in 0 .. MaxPrice
  BY <1>1, TaskTypes
<1>3. memberTask[h].amount \in Int /\ memberTask[h].amount >= 0
  BY <1>2, MembersAssumption
<1>4. intents' \in [Users -> [Slots -> Nat]]
  BY DEF TakeCost, MembersInv, MembersTypeOK
<1> QED BY <1>1, <1>2, <1>3, <1>4, IdleIsTask, MovesMoney DEF TakeCost

LEMMA WriteOffDebtInv ==
  ASSUME MembersInv, NEW h \in Handlers, WriteOffDebt(h)
  PROVE  MembersInv'
<1> DEFINE u == memberTask[h].user
<1>1. memberTask[h].pc = "writeoff.transfer"
  BY DEF WriteOffDebt, MemberAt
<1>2. u \in Users /\ - memberTask[h].amount \in Int /\ - memberTask[h].amount <= 0
  BY <1>1, TaskTypes DEF MemberAt
<1>3. [pc |-> "close.load", user |-> u] \in MemberTask
  BY <1>2 DEF MemberTask
<1>4. intents' \in [Users -> [Slots -> Nat]]
  BY DEF WriteOffDebt, MembersInv, MembersTypeOK
<1>5. \A v \in Users : ~ Spends(memberTask[h], v)
  BY <1>1 DEF Spends
<1>6. MemberGo(h, [pc |-> "close.load", user |-> u]) /\ Pays(u, - memberTask[h].amount) /\ user' = user
  BY DEF WriteOffDebt
<1> HIDE DEF u
<1> QED BY <1>2, <1>3, <1>4, <1>5, <1>6, MovesMoney

LEMMA BeginCostInv ==
  ASSUME MembersInv, NEW h \in Handlers, NEW u \in Users, BeginCost(h, u)
  PROVE  MembersInv'
<1> DEFINE state == [pc |-> "cost.take", user |-> u, amount |-> Deduction(balance[u]), notified |-> FALSE]
<1>1. balance[u] \in Int
  BY UserRowOf
<1>2. Deduction(balance[u]) \in 0 .. MaxPrice /\ (Deduction(balance[u]) > 0 => balance[u] >= Deduction(balance[u]))
  BY <1>1, MembersAssumption DEF Deduction, Smaller
<1>3. state \in MemberTask
  BY <1>2 DEF MemberTask
<1>4. MemberGo(h, state) /\ UNCHANGED membersTables /\ memberTask[h].pc = "idle"
  BY DEF BeginCost, MemberAt
<1>5. balance' \in [Users -> Int] /\ user' \in [Users -> Row] /\ intents' \in [Users -> [Slots -> Nat]]
  BY <1>4 DEF MembersInv, MembersTypeOK, membersTables
<1>6. \A v \in Users \ Trusted : ~ user'[v].canGoIntoDebt
  BY <1>4 DEF MembersInv, NoLeave, membersTables
<1>7. ASSUME NEW v \in Users \ Trusted
      PROVE  /\ ~ Spends(memberTask[h], v)
             /\ \/ ~ Spends(state, v) /\ balance'[v] >= balance[v]
                \/ Spends(state, v) /\ balance'[v] >= state.amount
  <2>1. balance'[v] = balance[v] /\ balance[v] \in Int
    BY <1>4 DEF membersTables, MembersInv, MembersTypeOK
  <2>2. ~ Spends(memberTask[h], v)
    BY <1>4 DEF Spends
  <2>3. CASE Spends(state, v)
    BY <1>2, <2>1, <2>2, <2>3 DEF Spends
  <2>4. CASE ~ Spends(state, v)
    BY <2>1, <2>2, <2>4
  <2> QED BY <2>3, <2>4
<1>8. state.pc = "cost.take"
  OBVIOUS
<1> HIDE DEF state
<1> QED BY <1>3, <1>4, <1>5, <1>6, <1>7, <1>8, MemberStep

LEMMA CreditTopupInv ==
  ASSUME MembersInv, NEW h \in Handlers, NEW u \in Users, NEW s \in Slots, CreditTopup(h, u, s)
  PROVE  MembersInv'
<1>1. memberTask' = memberTask /\ memberTask[h].pc = "idle" /\ Pays(u, - intents[u][s]) /\ user' = user
  BY DEF CreditTopup, MemberAt
<1>2. intents[u][s] \in Nat
  BY DEF MembersInv, MembersTypeOK
<1>3. intents' \in [Users -> [Slots -> Nat]]
  BY DEF CreditTopup, MembersInv, MembersTypeOK
<1>4. MemberGo(h, memberTask[h]) /\ memberTask[h] \in MemberTask
  BY <1>1 DEF MemberGo, MembersInv, MembersTypeOK
<1>5. \A v \in Users : ~ Spends(memberTask[h], v)
  BY <1>1 DEF Spends
<1>6. - intents[u][s] \in Int /\ - intents[u][s] <= 0
  BY <1>2
<1> QED BY <1>1, <1>3, <1>4, <1>5, <1>6, MovesMoney

LEMMA CreateIntentInv ==
  ASSUME MembersInv, NEW h \in Handlers, CreateIntent(h)
  PROVE  MembersInv'
<1>1. memberTask[h].pc = "topup.create"
  BY DEF CreateIntent, MemberAt
<1>2. memberTask[h] \in [pc : {"topup.create"}, user : Users, slot : Slots, amount : Nat]
  BY <1>1, TaskTypes DEF MemberAt
<1>3. intents' \in [Users -> [Slots -> Nat]]
  BY <1>2 DEF CreateIntent, MembersInv, MembersTypeOK
<1>4. balance' = balance /\ user' = user /\ MemberGo(h, Idle)
  BY DEF CreateIntent
<1>5. ASSUME NEW v \in Users \ Trusted
      PROVE  ~ Spends(memberTask[h], v) /\ ~ Spends(Idle, v) /\ balance'[v] >= balance[v] /\ ~ user'[v].canGoIntoDebt
  BY <1>1, <1>4, UserRowOf, IdleIsTask DEF Spends
<1>6. balance' \in [Users -> Int] /\ user' \in [Users -> Row]
  BY <1>4 DEF MembersInv, MembersTypeOK
<1> QED BY <1>3, <1>4, <1>5, <1>6, IdleIsTask, MemberStep
-----------------------------------------------------------------------------
(***************************************************************************)
(* A step that keeps the tables and goes on to save a row of a user, or    *)
(* to something that holds no row.                                         *)
(***************************************************************************)
LEMMA LoadsRow ==
  ASSUME MembersInv, NEW h \in Handlers, NEW u \in Users, NEW pc \in {"close.balance", "save"},
         NEW row \in Row, u \notin Trusted => ~ row.canGoIntoDebt,
         MemberGo(h, [pc |-> pc, user |-> u, row |-> row]), UNCHANGED membersTables
  PROVE  MembersInv'
<1> DEFINE state == [pc |-> pc, user |-> u, row |-> row]
<1>1. state \in MemberTask
  BY DEF MemberTask
<1>2. state.pc \notin {"purchase.save", "cost.take"}
  OBVIOUS
<1>3. \A v \in Users \ Trusted : state.user = v => ~ state.row.canGoIntoDebt
  OBVIOUS
<1>4. MemberGo(h, state)
  OBVIOUS
<1> HIDE DEF state
<1> QED BY <1>1, <1>2, <1>3, <1>4, KeepsTables

LEMMA BeginInv ==
  ASSUME MembersInv, NEW h \in Handlers, NEW u \in Users, BeginMember(h, u)
  PROVE  MembersInv'
<1>1. CASE \E cost \in Prices : BeginPurchase(h, u, cost)
  BY <1>1, BeginPurchaseInv
<1>2. CASE \E s \in Slots : CreditTopup(h, u, s)
  BY <1>2, CreditTopupInv
<1>3. ASSUME NEW s \in Slots, NEW amount \in 1 .. (MaxBalance + MaxDebt), BeginTopup(h, u, s, amount)
      PROVE  MembersInv'
  <2>1. [pc |-> "topup.create", user |-> u, slot |-> s, amount |-> amount] \in MemberTask
    BY MembersAssumption DEF MemberTask
  <2> QED BY <1>3, <2>1, KeepsTables DEF BeginTopup
<1>4. CASE BeginCost(h, u)
  BY <1>4, BeginCostInv
<1>5. CASE MarkInactive(h, u)
  <2>1. /\ [user[u] EXCEPT !.inactiveNotificationSend = TRUE] \in Row
        /\ u \notin Trusted => ~ [user[u] EXCEPT !.inactiveNotificationSend = TRUE].canGoIntoDebt
    BY UserRowOf DEF Row
  <2> QED BY <1>5, <2>1, LoadsRow DEF MarkInactive
<1>6. CASE BeginWriteOff(h, u)
  <2>1. [pc |-> "writeoff.balance", user |-> u] \in MemberTask
    BY DEF MemberTask
  <2> QED BY <1>6, <2>1, KeepsTables DEF BeginWriteOff
<1>7. CASE BeginDelete(h, u)
  <2>1. /\ [user[u] EXCEPT !.deleted = TRUE] \in Row
        /\ u \notin Trusted => ~ [user[u] EXCEPT !.deleted = TRUE].canGoIntoDebt
    BY UserRowOf DEF Row
  <2> QED BY <1>7, <2>1, LoadsRow DEF BeginDelete
<1>8. CASE BeginLogin(h, u)
  BY <1>8, UserRowOf, LoadsRow DEF BeginLogin
<1>9. ASSUME NEW column \in Columns, NEW value \in BOOLEAN, BeginPatch(h, u, column, value)
      PROVE  MembersInv'
  <2>1. [pc |-> "patch", user |-> u, column |-> column, value |-> value] \in MemberTask
    BY DEF MemberTask
  <2> QED BY <1>9, <2>1, KeepsTables DEF BeginPatch
<1> QED BY <1>1, <1>2, <1>3, <1>4, <1>5, <1>6, <1>7, <1>8, <1>9 DEF BeginMember

LEMMA LoadMarkedInv ==
  ASSUME MembersInv, NEW h \in Handlers, LoadMarked(h)
  PROVE  MembersInv'
<1>1. PICK u \in Users : memberTask[h].user = u
  BY TaskTypes DEF LoadMarked, MemberAt
<1>2. /\ [user[u] EXCEPT !.inactiveNotificationSend = FALSE] \in Row
      /\ u \notin Trusted => ~ [user[u] EXCEPT !.inactiveNotificationSend = FALSE].canGoIntoDebt
  BY UserRowOf DEF Row
<1> QED BY <1>1, <1>2, LoadsRow DEF LoadMarked

LEMMA ReadDebtInv ==
  ASSUME MembersInv, NEW h \in Handlers, ReadDebt(h)
  PROVE  MembersInv'
<1>1. PICK u \in Users : memberTask[h].user = u
  BY TaskTypes DEF ReadDebt, MemberAt
<1>2. balance[u] \in Int
  BY UserRowOf
<1>3. CASE balance[u] > 0
  BY <1>1, <1>3, IdleIsTask, KeepsTables DEF ReadDebt
<1>4. CASE ~ (balance[u] > 0)
  <2>1. [pc |-> "writeoff.transfer", user |-> u, amount |-> - balance[u]] \in MemberTask
    BY <1>2, <1>4 DEF MemberTask
  <2> QED BY <1>1, <1>4, <2>1, KeepsTables DEF ReadDebt
<1> QED BY <1>3, <1>4

LEMMA LoadClosingInv ==
  ASSUME MembersInv, NEW h \in Handlers, LoadClosing(h)
  PROVE  MembersInv'
<1>1. PICK u \in Users : memberTask[h].user = u
  BY TaskTypes DEF LoadClosing, MemberAt
<1> QED BY <1>1, UserRowOf, LoadsRow DEF LoadClosing

LEMMA CheckZeroInv ==
  ASSUME MembersInv, NEW h \in Handlers, CheckZero(h)
  PROVE  MembersInv'
<1>1. PICK u \in Users, row \in Row : memberTask[h].user = u /\ memberTask[h].row = row
  BY TaskTypes DEF CheckZero, MemberAt
<1>2. CASE balance[u] # 0
  BY <1>1, <1>2, IdleIsTask, KeepsTables DEF CheckZero
<1>3. CASE balance[u] = 0
  <2> DEFINE closed == [row EXCEPT !.deleted = TRUE, !.active = FALSE, !.canGoIntoDebt = FALSE]
  <2>1. closed \in Row /\ ~ closed.canGoIntoDebt
    BY DEF Row
  <2>2. MemberGo(h, [pc |-> "save", user |-> u, row |-> closed]) /\ UNCHANGED membersTables
    BY <1>1, <1>3 DEF CheckZero
  <2> HIDE DEF closed
  <2> QED BY <2>1, <2>2, LoadsRow
<1> QED BY <1>2, <1>3

(***************************************************************************)
(* A step that writes the table of users.                                  *)
(***************************************************************************)
LEMMA WritesUser ==
  ASSUME MembersInv, NEW h \in Handlers, NEW u \in Users, NEW row \in Row,
         memberTask[h].pc \in {"save", "patch"}, MemberGo(h, Idle),
         u \notin Trusted => ~ row.canGoIntoDebt,
         user' = [user EXCEPT ![u] = row], balance' = balance, intents' = intents
  PROVE  MembersInv'
<1>1. user' \in [Users -> Row] /\ \A v \in Users \ Trusted : ~ user'[v].canGoIntoDebt
  BY DEF MembersInv, MembersTypeOK, NoLeave
<1>2. balance' \in [Users -> Int] /\ intents' \in [Users -> [Slots -> Nat]]
  BY DEF MembersInv, MembersTypeOK
<1>3. ASSUME NEW v \in Users \ Trusted
      PROVE  ~ Spends(memberTask[h], v) /\ ~ Spends(Idle, v) /\ balance'[v] >= balance[v]
  BY UserRowOf, IdleIsTask DEF Spends
<1> QED BY <1>1, <1>2, <1>3, IdleIsTask, MemberStep

LEMMA SaveUserInv ==
  ASSUME MembersInv, NEW h \in Handlers, SaveUser(h)
  PROVE  MembersInv'
<1>1. PICK u \in Users, row \in Row : memberTask[h].user = u /\ memberTask[h].row = row
  BY TaskTypes DEF SaveUser, MemberAt
<1>2. u \notin Trusted => ~ row.canGoIntoDebt
  BY <1>1 DEF SaveUser, MemberAt, MembersInv, NoLeave
<1> QED BY <1>1, <1>2, WritesUser DEF SaveUser, MemberAt

LEMMA UpdateColumnInv ==
  ASSUME MembersInv, NEW h \in Handlers, UpdateColumn(h)
  PROVE  MembersInv'
<1>1. PICK u \in Users, column \in Columns, value \in BOOLEAN :
        memberTask[h].user = u /\ memberTask[h].column = column /\ memberTask[h].value = value
  BY TaskTypes DEF UpdateColumn
<1> DEFINE row == [user[u] EXCEPT ![column] = value]
<1>2. user[u] \in Row /\ (u \notin Trusted => ~ user[u].canGoIntoDebt)
  BY UserRowOf
<1>3. row \in Row /\ row.canGoIntoDebt = user[u].canGoIntoDebt
  BY <1>2 DEF Row, Columns
<1>4. user' = [user EXCEPT ![u] = row]
  BY <1>1 DEF UpdateColumn, MembersInv, MembersTypeOK
<1> HIDE DEF row
<1> QED BY <1>2, <1>3, <1>4, WritesUser DEF UpdateColumn, MemberAt

LEMMA MembersNextInv == MembersInv /\ [MembersNext]_membersVars => MembersInv'
<1> SUFFICES ASSUME MembersInv, [MembersNext]_membersVars PROVE MembersInv'
  OBVIOUS
<1>1. ASSUME NEW h \in Handlers, MemberFails(h) PROVE MembersInv'
  BY <1>1, IdleIsTask, KeepsTables DEF MemberFails
<1>2. CASE UNCHANGED membersVars
  BY <1>2 DEF MembersInv, MembersTypeOK, NoLeave, Spending, Spenders, membersVars
<1> QED BY <1>1, <1>2, BeginInv, VerifyBalanceInv, SavePurchaseInv, LoadMarkedInv, CreateIntentInv,
           TakeCostInv, ReadDebtInv, WriteOffDebtInv, LoadClosingInv, CheckZeroInv, SaveUserInv,
           UpdateColumnInv DEF MembersNext

LEMMA MembersInvAlways == MembersSpec => []MembersInv
BY MembersInitInv, MembersNextInv, PTL DEF MembersSpec

(***************************************************************************)
(* Every reachable state of the model of users and their money is well     *)
(* typed: a write-off is of a debt, a cost is not negative.                *)
(***************************************************************************)
THEOREM MembersTypeCorrect == MembersSpec => []MembersTypeOK
<1>1. MembersInv => MembersTypeOK
  BY DEF MembersInv
<1> QED BY <1>1, MembersInvAlways, PTL

(***************************************************************************)
(* With any number of requests at once, a user who may not go into debt    *)
(* owes at most one purchase less than there are requests: the check of    *)
(* the balance and the purchase are not atomic, but each request that has  *)
(* spent money which was gone needs another that found it there.           *)
(***************************************************************************)
THEOREM DebtIsBoundedAlways == MembersSpec => []DebtIsBounded
<1>1. MembersInv => DebtIsBounded
  <2> SUFFICES ASSUME MembersInv, NEW u \in Users \ Trusted
               PROVE  balance[u] >= - (Cardinality(Handlers) - 1) * MaxPrice
    BY DEF DebtIsBounded
  <2>1. Room(1) = - (Cardinality(Handlers) - 1) * MaxPrice
    BY RoomFacts, MembersAssumption DEF Room
  <2>2. balance[u] \in Int /\ Room(1) \in Int
    BY RoomFacts, UserRowOf
  <2>3. CASE Spenders(u) = {}
    BY <2>1, <2>3 DEF MembersInv, Spending
  <2>4. CASE Spenders(u) # {}
    <3>1. PICK g \in Spenders(u) : balance[u] - memberTask[g].amount >= Room(Cardinality(Spenders(u)))
      BY <2>4 DEF MembersInv, Spending
    <3>2. memberTask[g].amount \in 1 .. MaxPrice
      BY SpenderType DEF Spenders, MembersInv, MembersTypeOK
    <3>3. Room(Cardinality(Spenders(u))) >= Room(1) /\ Room(Cardinality(Spenders(u))) \in Int
      BY <2>4, SpendersFinite, RoomFacts
    <3>4. balance[u] >= Room(1)
      BY <2>2, <3>1, <3>2, <3>3, MembersAssumption
    <3> QED BY <2>1, <3>4
  <2> QED BY <2>3, <2>4
<1> QED BY <1>1, MembersInvAlways, PTL
-----------------------------------------------------------------------------
(***************************************************************************)
(* One request at a time: a row covers a balance when it allows the debt;  *)
(* what a request has checked still holds when it acts on it.              *)
(***************************************************************************)
Covers(row, b) == b >= IF row.canGoIntoDebt THEN - MaxDebt ELSE 0

StillHolds(task, book, rows, open) ==
  /\ task.pc \in {"purchase.save", "cost.take"} => Covers(rows[task.user], book[task.user] - task.amount)
  /\ task.pc \in {"close.balance", "save"} => Covers(task.row, book[task.user])
  /\ task.pc = "writeoff.transfer" => task.amount = - book[task.user]
  /\ task.pc = "topup.create" =>
       /\ task.amount > 0 /\ task.amount + book[task.user] <= MaxBalance
       /\ open[task.user][task.slot] = 0

AllCovered == \A u \in Users : Covers(user[u], balance[u])

AllHold == \A h \in Handlers : StillHolds(memberTask[h], balance, user, intents)

(***************************************************************************)
(* What a user's intents will credit, as a set with one member for every   *)
(* cent: the sum of the amounts is its cardinality.                        *)
(***************************************************************************)
Limit == MaxBalance + MaxDebt

Cents(amounts) == {cent \in Slots \X (1 .. Limit) : cent[2] <= amounts[cent[1]]}

CreditsFit(b, amounts) ==
  /\ \A s \in Slots : amounts[s] <= Limit
  /\ b + Cardinality(Cents(amounts)) <= OpenTopups * Limit

AllCreditsFit == \A u \in Users : CreditsFit(balance[u], intents[u])

SerialInv == AllCovered /\ AllHold /\ AllCreditsFit

LEMMA LimitFacts ==
  /\ Limit \in Nat /\ OpenTopups \in Nat /\ MaxDebt \in Nat /\ MaxBalance \in Nat /\ Limit = MaxBalance + MaxDebt
  /\ OpenTopups * Limit \in Nat /\ 0 <= OpenTopups * Limit
  /\ IsFiniteSet(Slots) /\ Cardinality(Slots) = OpenTopups
  /\ IsFiniteSet(1 .. Limit) /\ Cardinality(1 .. Limit) = Limit
<1>1. Limit \in Nat /\ OpenTopups \in Nat /\ MaxDebt \in Nat /\ MaxBalance \in Nat /\ Limit = MaxBalance + MaxDebt
  BY MembersAssumption DEF Limit
<1>2. \A a, b \in Nat : a * b \in Nat /\ 0 <= a * b
  OBVIOUS
<1>3. OpenTopups * Limit \in Nat /\ 0 <= OpenTopups * Limit
  BY <1>1, <1>2
<1>4. \A n \in Nat : IsFiniteSet(1 .. n) /\ Cardinality(1 .. n) = n
  BY FS_Interval
<1> QED BY <1>1, <1>3, <1>4 DEF Slots

LEMMA CentsCount ==
  ASSUME NEW amounts \in [Slots -> Nat]
  PROVE  IsFiniteSet(Cents(amounts)) /\ Cardinality(Cents(amounts)) \in Nat
<1>1. IsFiniteSet(Slots \X (1 .. Limit))
  BY LimitFacts, FS_Product
<1>2. Cents(amounts) \in SUBSET (Slots \X (1 .. Limit))
  BY DEF Cents
<1> QED BY <1>1, <1>2, FS_Subset, FS_CardinalityType

(***************************************************************************)
(* The cents of one slot, and of the others.                               *)
(***************************************************************************)
LEMMA CentsOfSlot ==
  ASSUME NEW s \in Slots, NEW amount \in Nat, amount <= Limit
  PROVE  IsFiniteSet({s} \X (1 .. amount)) /\ Cardinality({s} \X (1 .. amount)) = amount
<1>1. IsFiniteSet({s}) /\ Cardinality({s}) = 1
  BY FS_Singleton
<1>2. IsFiniteSet(1 .. amount) /\ Cardinality(1 .. amount) = amount
  BY FS_Interval
<1>3. /\ IsFiniteSet({s} \X (1 .. amount))
      /\ Cardinality({s} \X (1 .. amount)) = Cardinality({s}) * Cardinality(1 .. amount)
  BY <1>1, <1>2, FS_Product
<1>4. \A a, b, n \in Nat : a = 1 /\ b = n => a * b = n
  OBVIOUS
<1>5. Cardinality({s}) \in Nat /\ Cardinality(1 .. amount) \in Nat
  BY <1>1, <1>2
<1>6. Cardinality({s}) * Cardinality(1 .. amount) = amount
  BY <1>1, <1>2, <1>4, <1>5
<1> QED BY <1>3, <1>6

LEMMA CentsOfOthers ==
  ASSUME NEW s \in Slots, NEW amounts \in [Slots -> Nat], amounts[s] = 0
  PROVE  Cardinality(Cents(amounts)) <= OpenTopups * Limit - Limit
<1>1. IsFiniteSet(Slots \ {s}) /\ Cardinality(Slots \ {s}) = OpenTopups - 1
  BY LimitFacts, FS_RemoveElement
<1>2. /\ IsFiniteSet((Slots \ {s}) \X (1 .. Limit))
      /\ Cardinality((Slots \ {s}) \X (1 .. Limit)) = (OpenTopups - 1) * Limit
  <2>1. /\ IsFiniteSet((Slots \ {s}) \X (1 .. Limit))
        /\ Cardinality((Slots \ {s}) \X (1 .. Limit)) = Cardinality(Slots \ {s}) * Cardinality(1 .. Limit)
    BY <1>1, LimitFacts, FS_Product
  <2>2. Cardinality(Slots \ {s}) = OpenTopups - 1 /\ Cardinality(1 .. Limit) = Limit
    BY <1>1, LimitFacts
  <2> QED BY <2>1, <2>2
<1>3. Cents(amounts) \in SUBSET ((Slots \ {s}) \X (1 .. Limit))
  BY DEF Cents
<1>4. Cardinality(Cents(amounts)) <= (OpenTopups - 1) * Limit
  BY <1>2, <1>3, FS_Subset
<1>5. \A n, l \in Nat : (n - 1) * l = n * l - l
  OBVIOUS
<1>6. (OpenTopups - 1) * Limit = OpenTopups * Limit - Limit
  BY <1>5, LimitFacts
<1> QED BY <1>4, <1>6

LEMMA CentsAdded ==
  ASSUME NEW s \in Slots, NEW amounts \in [Slots -> Nat], amounts[s] = 0, NEW amount \in Nat, amount <= Limit
  PROVE  Cardinality(Cents([amounts EXCEPT ![s] = amount])) = Cardinality(Cents(amounts)) + amount
<1>1. Cents([amounts EXCEPT ![s] = amount]) = Cents(amounts) \cup ({s} \X (1 .. amount))
  <2>1. \A c \in Slots \X (1 .. Limit) :
          c[2] <= [amounts EXCEPT ![s] = amount][c[1]] <=> c[2] <= amounts[c[1]] \/ c \in {s} \X (1 .. amount)
    <3> TAKE c \in Slots \X (1 .. Limit)
    <3>1. PICK t \in Slots, n \in 1 .. Limit : c = <<t, n>>
      OBVIOUS
    <3>2. CASE t = s
      BY <3>1, <3>2
    <3>3. CASE t # s
      BY <3>1, <3>3
    <3> QED BY <3>2, <3>3
  <2>2. {s} \X (1 .. amount) \subseteq Slots \X (1 .. Limit)
    BY LimitFacts
  <2> QED BY <2>1, <2>2 DEF Cents
<1>2. Cents(amounts) \cap ({s} \X (1 .. amount)) = {}
  BY DEF Cents
<1> DEFINE new == {s} \X (1 .. amount)
<1>3. IsFiniteSet(new) /\ Cardinality(new) = amount
  BY CentsOfSlot
<1>4. IsFiniteSet(Cents(amounts)) /\ Cardinality(Cents(amounts)) \in Nat
  BY CentsCount
<1>5. Cents(amounts) \cap new = {}
  BY <1>2
<1>6. Cents([amounts EXCEPT ![s] = amount]) = Cents(amounts) \cup new
  BY <1>1
<1> HIDE DEF new
<1>7. Cardinality(Cents(amounts) \cup new)
        = Cardinality(Cents(amounts)) + Cardinality(new) - Cardinality(Cents(amounts) \cap new)
  BY <1>3, <1>4, FS_Union
<1>8. Cardinality(Cents(amounts) \cap new) = 0
  BY <1>5, FS_EmptySet
<1>9. Cardinality(Cents(amounts) \cup new) = Cardinality(Cents(amounts)) + amount
  BY <1>3, <1>4, <1>7, <1>8
<1> QED BY <1>6, <1>9

LEMMA CreditsFitMade ==
  ASSUME NEW b \in Int, NEW amounts \in [Slots -> Nat], CreditsFit(b, amounts), NEW s \in Slots,
         amounts[s] = 0, NEW amount \in Nat, amount + b <= MaxBalance, b >= - MaxDebt
  PROVE  CreditsFit(b, [amounts EXCEPT ![s] = amount])
<1>1. amount <= Limit
  BY LimitFacts
<1>2. Cardinality(Cents([amounts EXCEPT ![s] = amount])) = Cardinality(Cents(amounts)) + amount
  BY <1>1, CentsAdded
<1>3. Cardinality(Cents(amounts)) <= OpenTopups * Limit - Limit /\ Cardinality(Cents(amounts)) \in Nat
  BY CentsOfOthers, CentsCount
<1>4. b + (Cardinality(Cents(amounts)) + amount) <= OpenTopups * Limit
  BY <1>3, LimitFacts
<1> QED BY <1>1, <1>2, <1>4 DEF CreditsFit

LEMMA CreditsFitTaken ==
  ASSUME NEW b \in Int, NEW amounts \in [Slots -> Nat], CreditsFit(b, amounts), NEW s \in Slots
  PROVE  CreditsFit(b + amounts[s], [amounts EXCEPT ![s] = 0])
<1> DEFINE rest == [amounts EXCEPT ![s] = 0]
<1>1. /\ rest \in [Slots -> Nat] /\ rest[s] = 0 /\ amounts = [rest EXCEPT ![s] = amounts[s]]
      /\ \A t \in Slots : rest[t] <= amounts[t]
  <2>1. amounts \in [Slots -> Nat]
    OBVIOUS
  <2>2. rest \in [Slots -> Nat] /\ rest[s] = 0
    OBVIOUS
  <2>3. amounts = [rest EXCEPT ![s] = amounts[s]]
    OBVIOUS
  <2>4. \A t \in Slots : rest[t] <= amounts[t]
    BY <2>1
  <2> QED BY <2>2, <2>3, <2>4
<1>2. amounts[s] <= Limit /\ amounts[s] \in Nat
  BY DEF CreditsFit
<1>3. \A t \in Slots : rest[t] <= Limit
  BY <1>1, LimitFacts DEF CreditsFit
<1> HIDE DEF rest
<1>4. Cardinality(Cents(amounts)) = Cardinality(Cents(rest)) + amounts[s]
  BY <1>1, <1>2, CentsAdded
<1>5. Cardinality(Cents(rest)) \in Nat
  BY <1>1, CentsCount
<1>6. b + amounts[s] + Cardinality(Cents(rest)) <= OpenTopups * Limit
  BY <1>2, <1>4, <1>5, LimitFacts DEF CreditsFit
<1> QED BY <1>3, <1>6 DEF CreditsFit, rest

LEMMA CreditsFitSpent ==
  ASSUME NEW b \in Int, NEW amounts \in [Slots -> Nat], CreditsFit(b, amounts), NEW c \in Int, c <= b \/ c <= 0
  PROVE  CreditsFit(c, amounts)
<1>1. Cardinality(Cents(amounts)) \in Nat
  BY CentsCount
<1>2. Cardinality(Cents(amounts)) <= OpenTopups * Limit
  <2>1. Cents(amounts) \in SUBSET (Slots \X (1 .. Limit))
    BY DEF Cents
  <2>2. /\ IsFiniteSet(Slots \X (1 .. Limit))
        /\ Cardinality(Slots \X (1 .. Limit)) = Cardinality(Slots) * Cardinality(1 .. Limit)
    BY LimitFacts, FS_Product
  <2>3. Cardinality(Slots) = OpenTopups /\ Cardinality(1 .. Limit) = Limit
    BY LimitFacts
  <2>4. Cardinality(Cents(amounts)) <= Cardinality(Slots \X (1 .. Limit))
    BY <2>1, <2>2, FS_Subset
  <2> QED BY <2>2, <2>3, <2>4
<1> QED BY <1>1, <1>2, LimitFacts DEF CreditsFit
-----------------------------------------------------------------------------
LEMMA OnlyMember ==
  ASSUME \A g, h \in Handlers : g = h, MembersTypeOK, NEW h \in Handlers, NEW state, MemberGo(h, state)
  PROVE  \A g \in Handlers : memberTask'[g] = state
BY DEF MembersTypeOK, MemberGo

(***************************************************************************)
(* A step that keeps the tables: what the request goes on with must hold.  *)
(***************************************************************************)
LEMMA SerialKeepsTables ==
  ASSUME \A g, h \in Handlers : g = h, MembersTypeOK, SerialInv, NEW h \in Handlers, NEW state,
         MemberGo(h, state), UNCHANGED membersTables, StillHolds(state, balance, user, intents)
  PROVE  SerialInv'
<1>1. \A g \in Handlers : memberTask'[g] = state
  BY OnlyMember
<1>2. balance' = balance /\ user' = user /\ intents' = intents
  BY DEF membersTables
<1>3. AllCovered' /\ AllCreditsFit'
  BY <1>2 DEF SerialInv, AllCovered, AllCreditsFit
<1>4. \A g \in Handlers : StillHolds(memberTask'[g], balance', user', intents')
  BY <1>1, <1>2
<1>5. AllHold'
  BY <1>4 DEF AllHold
<1> QED BY <1>3, <1>5 DEF SerialInv

(***************************************************************************)
(* A step that changes the balance of a user, and ends with nothing read.  *)
(***************************************************************************)
LEMMA SerialPays ==
  ASSUME \A g, h \in Handlers : g = h, MembersTypeOK, SerialInv, NEW h \in Handlers, NEW state,
         MemberGo(h, state), state.pc \in {"idle", "reset.load", "close.load"},
         NEW u \in Users, NEW amount \in Int, Pays(u, amount), user' = user,
         Covers(user[u], balance[u] - amount), intents' \in [Users -> [Slots -> Nat]],
         \A v \in Users \ {u} : intents'[v] = intents[v],
         CreditsFit(balance[u] - amount, intents'[u])
  PROVE  SerialInv'
<1>1. \A g \in Handlers : memberTask'[g] = state
  BY OnlyMember
<1>2. \A v \in Users : balance'[v] = IF v = u THEN balance[u] - amount ELSE balance[v]
  BY DEF MembersTypeOK, Pays
<1>3. \A v \in Users : Covers(user[v], balance'[v])
  BY <1>2 DEF SerialInv, AllCovered
<1>4. \A v \in Users : CreditsFit(balance'[v], intents'[v])
  BY <1>2 DEF SerialInv, AllCreditsFit
<1>5. \A g \in Handlers : StillHolds(memberTask'[g], balance', user', intents')
  BY <1>1 DEF StillHolds
<1> QED BY <1>3, <1>4, <1>5 DEF SerialInv, AllCovered, AllCreditsFit, AllHold

(***************************************************************************)
(* A step that writes the row of a user.                                   *)
(***************************************************************************)
LEMMA SerialWrites ==
  ASSUME \A g, h \in Handlers : g = h, MembersTypeOK, SerialInv, NEW h \in Handlers,
         MemberGo(h, Idle), NEW u \in Users, NEW row, user' = [user EXCEPT ![u] = row],
         balance' = balance, intents' = intents, Covers(row, balance[u])
  PROVE  SerialInv'
<1>1. \A g \in Handlers : memberTask'[g] = Idle
  BY OnlyMember
<1>2. \A v \in Users : user'[v] = IF v = u THEN row ELSE user[v]
  BY DEF MembersTypeOK
<1>3. \A v \in Users : Covers(user'[v], balance'[v])
  BY <1>2 DEF SerialInv, AllCovered
<1>4. \A g \in Handlers : StillHolds(memberTask'[g], balance', user', intents')
  BY <1>1 DEF StillHolds, Idle
<1> QED BY <1>3, <1>4 DEF SerialInv, AllCovered, AllCreditsFit, AllHold

LEMMA SerialBegin ==
  ASSUME \A g, h \in Handlers : g = h, MembersInv, SerialInv, NEW h \in Handlers, NEW u \in Users,
         BeginMember(h, u)
  PROVE  SerialInv'
<1>0. /\ MembersTypeOK /\ user[u] \in Row /\ balance[u] \in Int /\ Covers(user[u], balance[u])
      /\ CreditsFit(balance[u], intents[u]) /\ MaxDebt \in Nat /\ intents[u] \in [Slots -> Nat]
      /\ intents \in [Users -> [Slots -> Nat]]
  BY UserRowOf, LimitFacts DEF MembersInv, SerialInv, AllCovered, AllCreditsFit, MembersTypeOK
<1>1. ASSUME NEW cost \in Prices, BeginPurchase(h, u, cost) PROVE SerialInv'
  <2> DEFINE state == [pc |-> IF user[u].canGoIntoDebt THEN "purchase.save" ELSE "purchase.balance",
                       user |-> u, amount |-> cost, notified |-> user[u].inactiveNotificationSend]
  <2>1. StillHolds(state, balance, user, intents)
    BY <1>0, <1>1 DEF StillHolds, BeginPurchase, Covers
  <2>2. MemberGo(h, state) /\ UNCHANGED membersTables
    BY <1>1 DEF BeginPurchase
  <2> HIDE DEF state
  <2> QED BY <1>0, <2>1, <2>2, SerialKeepsTables
<1>2. ASSUME NEW s \in Slots, CreditTopup(h, u, s) PROVE SerialInv'
  <2>1. /\ MemberGo(h, Idle) \/ memberTask' = memberTask
        /\ memberTask[h].pc = "idle" /\ Pays(u, - intents[u][s]) /\ user' = user
        /\ intents' = [intents EXCEPT ![u][s] = 0]
    BY <1>2 DEF CreditTopup, MemberAt
  <2>2. MemberGo(h, memberTask[h])
    BY <1>0, <1>2 DEF CreditTopup, MemberGo, MembersTypeOK
  <2>3. intents[u][s] \in Nat /\ - intents[u][s] \in Int
    BY <1>0
  <2>4. Covers(user[u], balance[u] - (- intents[u][s]))
    BY <1>0, <2>3 DEF Covers
  <2>5. CreditsFit(balance[u] + intents[u][s], [intents[u] EXCEPT ![s] = 0])
    BY <1>0, CreditsFitTaken
  <2>6. /\ intents' \in [Users -> [Slots -> Nat]] /\ intents'[u] = [intents[u] EXCEPT ![s] = 0]
        /\ \A v \in Users \ {u} : intents'[v] = intents[v]
    BY <1>0, <2>1
  <2>7. CreditsFit(balance[u] - (- intents[u][s]), intents'[u])
    BY <1>0, <2>3, <2>5, <2>6
  <2> QED BY <1>0, <2>1, <2>2, <2>3, <2>4, <2>6, <2>7, SerialPays
<1>3. ASSUME NEW s \in Slots, NEW amount \in 1 .. (MaxBalance + MaxDebt), BeginTopup(h, u, s, amount)
      PROVE  SerialInv'
  <2> DEFINE state == [pc |-> "topup.create", user |-> u, slot |-> s, amount |-> amount]
  <2>1. intents[u][s] = 0
    BY <1>0, <1>3 DEF BeginTopup, TakenSlot
  <2>2. amount > 0 /\ amount + balance[u] <= MaxBalance
    BY <1>0, <1>3, LimitFacts DEF BeginTopup, Allowed
  <2>3. StillHolds(state, balance, user, intents)
    BY <2>1, <2>2 DEF StillHolds
  <2>4. MemberGo(h, state) /\ UNCHANGED membersTables
    BY <1>3 DEF BeginTopup
  <2> HIDE DEF state
  <2> QED BY <1>0, <2>3, <2>4, SerialKeepsTables
<1>4. ASSUME BeginCost(h, u) PROVE SerialInv'
  <2> DEFINE state == [pc |-> "cost.take", user |-> u, amount |-> Deduction(balance[u]), notified |-> FALSE]
  <2>1. Covers(user[u], balance[u] - Deduction(balance[u]))
    BY <1>0, MembersAssumption DEF Covers, Deduction, Smaller
  <2>2. StillHolds(state, balance, user, intents)
    BY <2>1 DEF StillHolds
  <2>3. MemberGo(h, state) /\ UNCHANGED membersTables
    BY <1>4 DEF BeginCost
  <2> HIDE DEF state
  <2> QED BY <1>0, <2>2, <2>3, SerialKeepsTables
<1>5. ASSUME MarkInactive(h, u) PROVE SerialInv'
  <2> DEFINE row == [user[u] EXCEPT !.inactiveNotificationSend = TRUE]
             state == [pc |-> "save", user |-> u, row |-> row]
  <2>1. row.canGoIntoDebt = user[u].canGoIntoDebt
    BY <1>0 DEF Row
  <2>2. StillHolds(state, balance, user, intents)
    BY <1>0, <2>1 DEF StillHolds, Covers
  <2>3. MemberGo(h, state) /\ UNCHANGED membersTables
    BY <1>5 DEF MarkInactive
  <2> HIDE DEF state
  <2> QED BY <1>0, <2>2, <2>3, SerialKeepsTables
<1>6. ASSUME BeginWriteOff(h, u) PROVE SerialInv'
  <2>1. StillHolds([pc |-> "writeoff.balance", user |-> u], balance, user, intents)
    BY DEF StillHolds
  <2> QED BY <1>0, <1>6, <2>1, SerialKeepsTables DEF BeginWriteOff
<1>7. ASSUME BeginDelete(h, u) PROVE SerialInv'
  <2> DEFINE row == [user[u] EXCEPT !.deleted = TRUE]
             state == [pc |-> "save", user |-> u, row |-> row]
  <2>1. row.canGoIntoDebt = user[u].canGoIntoDebt
    BY <1>0 DEF Row
  <2>2. StillHolds(state, balance, user, intents)
    BY <1>0, <2>1 DEF StillHolds, Covers
  <2>3. MemberGo(h, state) /\ UNCHANGED membersTables
    BY <1>7 DEF BeginDelete
  <2> HIDE DEF state
  <2> QED BY <1>0, <2>2, <2>3, SerialKeepsTables
<1>8. ASSUME BeginLogin(h, u) PROVE SerialInv'
  <2>1. StillHolds([pc |-> "save", user |-> u, row |-> user[u]], balance, user, intents)
    BY <1>0 DEF StillHolds
  <2> QED BY <1>0, <1>8, <2>1, SerialKeepsTables DEF BeginLogin
<1>9. ASSUME NEW column \in Columns, NEW value \in BOOLEAN, BeginPatch(h, u, column, value)
      PROVE  SerialInv'
  <2>1. StillHolds([pc |-> "patch", user |-> u, column |-> column, value |-> value], balance, user, intents)
    BY DEF StillHolds
  <2> QED BY <1>0, <1>9, <2>1, SerialKeepsTables DEF BeginPatch
<1> QED BY <1>1, <1>2, <1>3, <1>4, <1>5, <1>6, <1>7, <1>8, <1>9 DEF BeginMember

LEMMA SerialSteps ==
  ASSUME \A g, h \in Handlers : g = h, MembersInv, SerialInv, NEW h \in Handlers,
         \/ VerifyBalance(h) \/ SavePurchase(h) \/ LoadMarked(h) \/ CreateIntent(h) \/ TakeCost(h)
         \/ ReadDebt(h) \/ WriteOffDebt(h) \/ LoadClosing(h) \/ CheckZero(h) \/ SaveUser(h)
         \/ UpdateColumn(h) \/ MemberFails(h)
  PROVE  SerialInv'
<1>0. /\ MembersTypeOK /\ MaxDebt \in Nat /\ intents \in [Users -> [Slots -> Nat]]
      /\ \A u \in Users : /\ user[u] \in Row /\ balance[u] \in Int /\ Covers(user[u], balance[u])
                          /\ CreditsFit(balance[u], intents[u]) /\ intents[u] \in [Slots -> Nat]
  BY UserRowOf, LimitFacts DEF MembersInv, SerialInv, AllCovered, AllCreditsFit, MembersTypeOK
<1>h. StillHolds(memberTask[h], balance, user, intents)
  BY DEF SerialInv, AllHold
<1>i. StillHolds(Idle, balance, user, intents) /\ Idle.pc = "idle"
  BY DEF StillHolds, Idle
<1>1. ASSUME VerifyBalance(h) PROVE SerialInv'
  <2>1. PICK u \in Users, amount \in 0 .. MaxPrice : memberTask[h].user = u /\ memberTask[h].amount = amount
    BY <1>1, TaskTypes DEF VerifyBalance, MemberAt
  <2>2. memberTask[h] \in [pc : {"purchase.balance", "purchase.save", "cost.take"}, user : Users,
                           amount : 0 .. MaxPrice, notified : BOOLEAN]
    BY <1>1, TaskTypes DEF VerifyBalance, MemberAt
  <2> DEFINE state == [memberTask[h] EXCEPT !.pc = "purchase.save"]
  <2>3. state.pc = "purchase.save" /\ state.user = u /\ state.amount = amount
    BY <2>1, <2>2
  <2>4. MemberGo(h, IF balance[u] >= amount THEN state ELSE Idle) /\ UNCHANGED membersTables
    BY <1>1, <2>1 DEF VerifyBalance
  <2> HIDE DEF state
  <2>5. CASE balance[u] >= amount
    <3>1. Covers(user[u], balance[u] - amount)
      BY <1>0, <2>5, MembersAssumption DEF Covers
    <3>2. StillHolds(state, balance, user, intents)
      BY <2>3, <3>1 DEF StillHolds
    <3> QED BY <1>0, <2>4, <2>5, <3>2, SerialKeepsTables
  <2>6. CASE ~ (balance[u] >= amount)
    BY <1>0, <1>i, <2>4, <2>6, SerialKeepsTables
  <2> QED BY <2>5, <2>6
<1>2. ASSUME SavePurchase(h) \/ TakeCost(h) PROVE SerialInv'
  <2>1. PICK u \in Users, amount \in 0 .. MaxPrice : memberTask[h].user = u /\ memberTask[h].amount = amount
    BY <1>2, TaskTypes DEF SavePurchase, TakeCost, MemberAt
  <2>2. PICK state : MemberGo(h, state) /\ state.pc \in {"idle", "reset.load", "close.load"}
    BY <1>2, <1>i DEF SavePurchase, TakeCost
  <2>3. Pays(u, amount) /\ user' = user /\ intents' = intents /\ Covers(user[u], balance[u] - amount)
    BY <1>2, <1>h, <2>1 DEF SavePurchase, TakeCost, StillHolds, MemberAt
  <2>4. amount \in Int /\ balance[u] - amount \in Int /\ balance[u] - amount <= balance[u]
    BY <1>0, MembersAssumption
  <2>5. CreditsFit(balance[u] - amount, intents[u])
    BY <1>0, <2>4, CreditsFitSpent
  <2> QED BY <1>0, <2>2, <2>3, <2>4, <2>5, SerialPays
<1>3. ASSUME LoadMarked(h) PROVE SerialInv'
  <2>1. PICK u \in Users : memberTask[h].user = u
    BY <1>3, TaskTypes DEF LoadMarked, MemberAt
  <2> DEFINE row == [user[u] EXCEPT !.inactiveNotificationSend = FALSE]
             state == [pc |-> "save", user |-> u, row |-> row]
  <2>2. row.canGoIntoDebt = user[u].canGoIntoDebt
    BY <1>0 DEF Row
  <2>3. StillHolds(state, balance, user, intents)
    BY <1>0, <2>2 DEF StillHolds, Covers
  <2>4. MemberGo(h, state) /\ UNCHANGED membersTables
    BY <1>3, <2>1 DEF LoadMarked
  <2> HIDE DEF state
  <2> QED BY <1>0, <2>3, <2>4, SerialKeepsTables
<1>4. ASSUME CreateIntent(h) PROVE SerialInv'
  <2>1. PICK u \in Users, s \in Slots, amount \in Nat :
          memberTask[h].user = u /\ memberTask[h].slot = s /\ memberTask[h].amount = amount
    BY <1>4, TaskTypes DEF CreateIntent
  <2>2. amount + balance[u] <= MaxBalance /\ intents[u][s] = 0
    BY <1>4, <1>h, <2>1 DEF CreateIntent, StillHolds, MemberAt
  <2>3. /\ Pays(u, 0) /\ user' = user /\ MemberGo(h, Idle)
        /\ intents' = [intents EXCEPT ![u][s] = amount]
    BY <1>0, <1>4, <2>1 DEF CreateIntent, Pays, MembersTypeOK
  <2>4. balance[u] - 0 = balance[u] /\ balance[u] >= - MaxDebt /\ 0 \in Int
    BY <1>0 DEF Covers
  <2>5. /\ intents' \in [Users -> [Slots -> Nat]] /\ intents'[u] = [intents[u] EXCEPT ![s] = amount]
        /\ \A v \in Users \ {u} : intents'[v] = intents[v]
    BY <1>0, <2>3
  <2>6. CreditsFit(balance[u], [intents[u] EXCEPT ![s] = amount])
    BY <1>0, <2>2, <2>4, CreditsFitMade
  <2>7. CreditsFit(balance[u] - 0, intents'[u]) /\ Covers(user[u], balance[u] - 0)
    BY <1>0, <2>4, <2>5, <2>6
  <2> QED BY <1>0, <1>i, <2>3, <2>4, <2>5, <2>7, SerialPays
<1>5. ASSUME ReadDebt(h) PROVE SerialInv'
  <2>1. PICK u \in Users : memberTask[h].user = u
    BY <1>5, TaskTypes DEF ReadDebt, MemberAt
  <2> DEFINE state == [pc |-> "writeoff.transfer", user |-> u, amount |-> - balance[u]]
  <2>2. StillHolds(state, balance, user, intents)
    BY DEF StillHolds
  <2>3. MemberGo(h, Idle) \/ MemberGo(h, state)
    BY <1>5, <2>1 DEF ReadDebt
  <2>4. UNCHANGED membersTables
    BY <1>5 DEF ReadDebt
  <2> HIDE DEF state
  <2> QED BY <1>0, <1>i, <2>2, <2>3, <2>4, SerialKeepsTables
<1>6. ASSUME WriteOffDebt(h) PROVE SerialInv'
  <2>1. PICK u \in Users, amount \in Nat : memberTask[h].user = u /\ memberTask[h].amount = amount
    BY <1>6, TaskTypes DEF WriteOffDebt
  <2>2. amount = - balance[u]
    BY <1>6, <1>h, <2>1 DEF WriteOffDebt, StillHolds, MemberAt
  <2>3. /\ Pays(u, - amount) /\ user' = user /\ intents' = intents
        /\ MemberGo(h, [pc |-> "close.load", user |-> u])
    BY <1>6, <2>1 DEF WriteOffDebt
  <2>4. balance[u] - (- amount) = 0 /\ - amount \in Int
    BY <1>0, <2>2
  <2>5. CreditsFit(balance[u] - (- amount), intents[u]) /\ Covers(user[u], balance[u] - (- amount))
    BY <1>0, <2>4, CreditsFitSpent DEF Covers
  <2> QED BY <1>0, <2>3, <2>4, <2>5, SerialPays
<1>7. ASSUME LoadClosing(h) PROVE SerialInv'
  <2>1. PICK u \in Users : memberTask[h].user = u
    BY <1>7, TaskTypes DEF LoadClosing, MemberAt
  <2>2. StillHolds([pc |-> "close.balance", user |-> u, row |-> user[u]], balance, user, intents)
    BY <1>0 DEF StillHolds
  <2> QED BY <1>0, <1>7, <2>1, <2>2, SerialKeepsTables DEF LoadClosing
<1>8. ASSUME CheckZero(h) PROVE SerialInv'
  <2>1. PICK u \in Users, row \in Row : memberTask[h].user = u /\ memberTask[h].row = row
    BY <1>8, TaskTypes DEF CheckZero, MemberAt
  <2> DEFINE closed == [row EXCEPT !.deleted = TRUE, !.active = FALSE, !.canGoIntoDebt = FALSE]
             state == [pc |-> "save", user |-> u, row |-> closed]
  <2>2. MemberGo(h, IF balance[u] # 0 THEN Idle ELSE state) /\ UNCHANGED membersTables
    BY <1>8, <2>1 DEF CheckZero
  <2>3. ~ closed.canGoIntoDebt
    BY DEF Row
  <2>4. balance[u] = 0 => StillHolds(state, balance, user, intents)
    <3>1. state.pc = "save" /\ state.user = u /\ state.row = closed
      OBVIOUS
    <3> HIDE DEF state, closed
    <3> QED BY <2>3, <3>1 DEF StillHolds, Covers
  <2> HIDE DEF state
  <2> QED BY <1>0, <1>i, <2>2, <2>4, SerialKeepsTables
<1>9. ASSUME SaveUser(h) PROVE SerialInv'
  <2>1. PICK u \in Users, row \in Row : memberTask[h].user = u /\ memberTask[h].row = row
    BY <1>9, TaskTypes DEF SaveUser, MemberAt
  <2>2. Covers(row, balance[u])
    BY <1>9, <1>h, <2>1 DEF SaveUser, StillHolds, MemberAt
  <2> QED BY <1>0, <1>9, <2>1, <2>2, SerialWrites DEF SaveUser
<1>10. ASSUME UpdateColumn(h) PROVE SerialInv'
  <2>1. PICK u \in Users, column \in Columns, value \in BOOLEAN :
          memberTask[h].user = u /\ memberTask[h].column = column /\ memberTask[h].value = value
    BY <1>10, TaskTypes DEF UpdateColumn
  <2> DEFINE row == [user[u] EXCEPT ![column] = value]
  <2>2. row.canGoIntoDebt = user[u].canGoIntoDebt
    BY <1>0 DEF Row, Columns
  <2>3. Covers(row, balance[u])
    BY <1>0, <2>2 DEF Covers
  <2>4. user' = [user EXCEPT ![u] = row]
    BY <1>10, <2>1 DEF UpdateColumn
  <2> HIDE DEF row
  <2> QED BY <1>0, <1>10, <2>3, <2>4, SerialWrites DEF UpdateColumn
<1>11. ASSUME MemberFails(h) PROVE SerialInv'
  BY <1>0, <1>i, <1>11, SerialKeepsTables DEF MemberFails
<1> QED BY <1>1, <1>2, <1>3, <1>4, <1>5, <1>6, <1>7, <1>8, <1>9, <1>10, <1>11

LEMMA MembersSerialNext ==
  ASSUME \A g, h \in Handlers : g = h
  PROVE  MembersInv /\ SerialInv /\ [MembersNext]_membersVars => SerialInv'
<1> SUFFICES ASSUME MembersInv, SerialInv, [MembersNext]_membersVars PROVE SerialInv'
  OBVIOUS
<1>1. CASE UNCHANGED membersVars
  <2>1. balance' = balance /\ user' = user /\ intents' = intents /\ memberTask' = memberTask
    BY <1>1 DEF membersVars
  <2> QED BY <2>1 DEF SerialInv, AllCovered, AllHold, AllCreditsFit
<1> QED BY <1>1, SerialBegin, SerialSteps DEF MembersNext

LEMMA SerialInit == MembersInit => SerialInv
<1> SUFFICES ASSUME MembersInit PROVE SerialInv
  OBVIOUS
<1>1. AllCovered
  BY LimitFacts DEF MembersInit, AllCovered, Covers
<1>2. AllHold
  BY DEF MembersInit, AllHold, StillHolds, Idle
<1>3. ASSUME NEW u \in Users PROVE CreditsFit(balance[u], intents[u])
  <2>1. balance[u] = 0 /\ \A s \in Slots : intents[u][s] = 0
    BY DEF MembersInit
  <2>2. Cents(intents[u]) = {}
    BY <2>1, LimitFacts DEF Cents
  <2> QED BY <2>1, <2>2, LimitFacts, FS_EmptySet DEF CreditsFit
<1> QED BY <1>1, <1>2, <1>3 DEF SerialInv, AllCreditsFit

(***************************************************************************)
(* With one request at a time, a top-up raises a balance no further than   *)
(* the maximum plus the debt it settles, once for each intent that is      *)
(* open: an intent fits in with the balance it was checked against, and    *)
(* what the user has spent since is at most the debt that is allowed.      *)
(***************************************************************************)
THEOREM TopupsAreBoundedAlways ==
  ASSUME \A g, h \in Handlers : g = h
  PROVE  MembersSpec => []TopupsAreBounded
<1>1. MembersInv /\ SerialInv => TopupsAreBounded
  <2> SUFFICES ASSUME MembersInv, SerialInv, NEW u \in Users
               PROVE  balance[u] <= OpenTopups * (MaxBalance + MaxDebt)
    BY DEF TopupsAreBounded
  <2>1. CreditsFit(balance[u], intents[u]) /\ balance[u] \in Int /\ intents[u] \in [Slots -> Nat]
    BY DEF MembersInv, MembersTypeOK, SerialInv, AllCreditsFit
  <2>2. balance[u] <= OpenTopups * Limit
    BY <2>1, CentsCount, LimitFacts DEF CreditsFit
  <2> QED BY <2>2 DEF Limit
<1> QED BY <1>1, MembersInvAlways, SerialInit, MembersSerialNext, PTL DEF MembersSpec

(***************************************************************************)
(* With one request at a time, a user who has lost the leave to go into    *)
(* debt owes nothing: a row is saved without the leave only when the       *)
(* balance was zero, and nothing spends it between the check and the save. *)
(***************************************************************************)
THEOREM ClosedOwesNothingAlways ==
  ASSUME \A g, h \in Handlers : g = h
  PROVE  MembersSpec => []ClosedOwesNothing
<1>1. SerialInv => ClosedOwesNothing
  BY MembersAssumption DEF SerialInv, AllCovered, Covers, ClosedOwesNothing
<1> QED BY <1>1, MembersInvAlways, SerialInit, MembersSerialNext, PTL DEF MembersSpec
=============================================================================
