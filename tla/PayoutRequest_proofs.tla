------------------------ MODULE PayoutRequest_proofs ------------------------
(***************************************************************************)
(* What holds of payout requests for any number of users, requests and     *)
(* amounts, and of HTTP requests at once, crashes included.                *)
(***************************************************************************)
EXTENDS PayoutRequest, FiniteSetTheorems, TLAPS

(***************************************************************************)
(* Every step keeps the types.                                             *)
(***************************************************************************)
LEMMA InitType == Init => TypeOK
BY PayoutRequestAssumption DEF Init, TypeOK, Handler, Idle, NoRequest

LEMMA GotoType ==
  ASSUME TypeOK, NEW h \in Handlers, NEW state \in Handler, Goto(h, state)
  PROVE  handler' \in [Handlers -> Handler]
BY DEF TypeOK, Goto

LEMMA IdleType == Idle \in Handler
BY DEF Handler

(***************************************************************************)
(* What a handler that updates a request holds.                            *)
(***************************************************************************)
Updating == {"verify", "verify.again", "save.status", "create.transfer", "save.request"}

LEMMA UpdatingType ==
  ASSUME TypeOK, NEW h \in Handlers, handler[h].pc \in Updating
  PROVE  /\ handler[h] \in [pc : Updating, id : Requests, state : States]
         /\ handler[h].id \in Requests /\ handler[h].state \in States
         /\ \A pc \in Updating : [handler[h] EXCEPT !.pc = pc] \in Handler
<1>1. handler[h] \in [pc : Updating, id : Requests, state : States]
  BY DEF TypeOK, Handler, Idle, Updating
<1>2. \A pc \in Updating : [handler[h] EXCEPT !.pc = pc] \in [pc : Updating, id : Requests, state : States]
  BY <1>1
<1> QED BY <1>1, <1>2 DEF Handler, Updating

(***************************************************************************)
(* Only requests that were made are updated.                               *)
(***************************************************************************)
MadeInv == \A h \in Handlers : handler[h].pc \in Updating => Made(handler[h].id)

WellFormed == TypeOK /\ MadeInv

(***************************************************************************)
(* What a handler that has saved the row of a new request holds.           *)
(***************************************************************************)
LEMMA CreatingType ==
  ASSUME TypeOK, NEW h \in Handlers, handler[h].pc = "create.status"
  PROVE  handler[h].id \in Requests
BY DEF TypeOK, Handler, Idle

LEMMA NextMade == WellFormed /\ [Next]_vars => MadeInv'
<1> SUFFICES ASSUME WellFormed, [Next]_vars, NEW g \in Handlers, handler'[g].pc \in Updating
             PROVE  request'[handler'[g].id] # NoRequest
  BY DEF MadeInv, Made
<1>1. \A r : Made(r) => request'[r] # NoRequest
  <2>1. CASE UNCHANGED request
    BY <2>1 DEF Made
  <2>2. ASSUME NEW h \in Handlers, SaveRequest(h)
        PROVE  \A r : Made(r) => request'[r] # NoRequest
    BY <2>2 DEF SaveRequest, Made, NoRequest, WellFormed, TypeOK
  <2> QED BY <2>1, <2>2 DEF Next, Step, Create, Update, Buy, BeginCreate, SaveCreatedStatus,
        BeginUpdate, Verify, SaveStatus, CreateTransfer, SavePaidRequest, Crash, Spend, tables, vars
<1>2. CASE handler'[g] = handler[g]
  BY <1>1, <1>2 DEF WellFormed, MadeInv
<1>3. ASSUME NEW h \in Handlers, NEW r \in Requests, NEW state \in States, BeginUpdate(h, r, state)
      PROVE  request'[handler'[g].id] # NoRequest
  <2>1. handler'[g] = handler[g] \/ handler'[g] = [pc |-> "verify", id |-> r, state |-> state]
    BY <1>3 DEF BeginUpdate, Goto, WellFormed, TypeOK
  <2> QED BY <1>1, <1>2, <1>3, <2>1 DEF BeginUpdate
<1>4. ASSUME NEW h \in Handlers, Verify(h) \/ SaveStatus(h) \/ CreateTransfer(h)
      PROVE  request'[handler'[g].id] # NoRequest
  <2>1. handler[h].pc \in Updating /\ Made(handler[h].id)
    BY <1>4 DEF Verify, SaveStatus, CreateTransfer, Updating, WellFormed, MadeInv
  <2>2. \/ handler'[g] = handler[g] \/ handler'[g] = Idle
        \/ g = h /\ \E pc \in Updating : handler'[g] = [handler[h] EXCEPT !.pc = pc]
    BY <1>4 DEF Verify, SaveStatus, CreateTransfer, Goto, Updating, WellFormed, TypeOK
  <2>3. handler[h] \in [pc : Updating, id : Requests, state : States]
    BY <2>1, UpdatingType DEF WellFormed
  <2> QED BY <1>1, <1>2, <2>1, <2>2, <2>3 DEF Idle, Updating
<1>5. ASSUME NEW h \in Handlers,
             \/ SaveRequest(h) \/ SaveCreatedStatus(h) \/ SavePaidRequest(h) \/ Crash(h)
             \/ \E r \in Requests, u \in Users, amount \in Amounts : BeginCreate(h, r, u, amount)
      PROVE  request'[handler'[g].id] # NoRequest
  <2>1. handler'[g] = handler[g] \/ handler'[g].pc \notin Updating
    BY <1>5 DEF SaveRequest, SaveCreatedStatus, SavePaidRequest, Crash, BeginCreate, Goto, Idle,
                Updating, WellFormed, TypeOK
  <2> QED BY <1>2, <2>1
<1>6. CASE Buy \/ UNCHANGED vars
  BY <1>2, <1>6 DEF Buy, Spend, vars
<1> QED BY <1>3, <1>4, <1>5, <1>6 DEF Next, Step, Create, Update

LEMMA NextType == WellFormed /\ [Next]_vars => TypeOK'
<1> SUFFICES ASSUME TypeOK, MadeInv, [Next]_vars PROVE TypeOK'
  BY DEF WellFormed
<1>1. ASSUME NEW h \in Handlers, NEW r \in Requests, NEW u \in Users, NEW amount \in Amounts,
             BeginCreate(h, r, u, amount)
      PROVE  TypeOK'
  <2>1. [pc |-> "create.request", id |-> r, requestedBy |-> u, amount |-> amount] \in Handler
    BY DEF Handler
  <2> QED BY <1>1, <2>1, GotoType DEF BeginCreate, TypeOK, tables
<1>2. ASSUME NEW h \in Handlers, SaveRequest(h) PROVE TypeOK'
  <2>1. handler[h] \in [pc : {"create.request"}, id : Requests, requestedBy : Users, amount : Amounts]
    BY <1>2 DEF SaveRequest, TypeOK, Handler, Idle
  <2>2. [pc |-> "create.status", id |-> handler[h].id] \in Handler
    BY <2>1 DEF Handler
  <2>3. request' \in [Requests -> {NoRequest} \cup Request]
    BY <1>2, <2>1 DEF SaveRequest, TypeOK, Request
  <2> QED BY <1>2, <2>2, <2>3, GotoType DEF SaveRequest, TypeOK
<1>3. ASSUME NEW h \in Handlers, SaveCreatedStatus(h) PROVE TypeOK'
  <2>1. statuses' \in [Requests -> [States -> Nat]]
    <3>1. handler[h].id \in Requests /\ "CREATED" \in States
      BY <1>3, CreatingType DEF SaveCreatedStatus, States
    <3>2. statuses[handler[h].id]["CREATED"] + 1 \in Nat
      BY <3>1 DEF TypeOK
    <3> QED BY <1>3, <3>1, <3>2 DEF SaveCreatedStatus, TypeOK
  <2> QED BY <1>3, <2>1, GotoType, IdleType DEF SaveCreatedStatus, TypeOK
<1>4. ASSUME NEW h \in Handlers, NEW r \in Requests, NEW state \in States, BeginUpdate(h, r, state)
      PROVE  TypeOK'
  <2>1. [pc |-> "verify", id |-> r, state |-> state] \in Handler
    BY DEF Handler
  <2> QED BY <1>4, <2>1, GotoType DEF BeginUpdate, TypeOK, tables
<1>5. ASSUME NEW h \in Handlers, Verify(h) PROVE TypeOK'
  <2>1. \A pc \in Updating : [handler[h] EXCEPT !.pc = pc] \in Handler
    BY <1>5, UpdatingType DEF Verify, Updating
  <2>2. PICK state \in Handler : Goto(h, state)
    BY <1>5, <2>1, IdleType DEF Verify, Updating
  <2> QED BY <1>5, <2>2, GotoType DEF Verify, TypeOK, tables
<1>6. ASSUME NEW h \in Handlers, SaveStatus(h) PROVE TypeOK'
  <2>1. /\ handler[h].id \in Requests /\ handler[h].state \in States
        /\ [handler[h] EXCEPT !.pc = "create.transfer"] \in Handler
    BY <1>6, UpdatingType DEF SaveStatus, Updating
  <2>2. PICK state \in Handler : Goto(h, state)
    BY <1>6, <2>1, IdleType DEF SaveStatus
  <2>3. statuses' \in [Requests -> [States -> Nat]]
    BY <1>6, <2>1 DEF SaveStatus, TypeOK
  <2> QED BY <1>6, <2>2, <2>3, GotoType DEF SaveStatus, TypeOK
<1>7. ASSUME NEW h \in Handlers, CreateTransfer(h) PROVE TypeOK'
  <2>1. /\ handler[h].id \in Requests
        /\ [handler[h] EXCEPT !.pc = "save.request"] \in Handler
    BY <1>7, UpdatingType DEF CreateTransfer, Updating
  <2>2. handler' \in [Handlers -> Handler]
    BY <1>7, <2>1, GotoType DEF CreateTransfer
  <2>3. transfers' \in [Requests -> Nat]
    BY <1>7, <2>1 DEF CreateTransfer, TypeOK
  <2> DEFINE u == request[handler[h].id].requestedBy
             amount == request[handler[h].id].amount
  <2>4. u \in Users /\ amount \in Int
    <3>1. request[handler[h].id] \in Request
      BY <1>7, <2>1 DEF CreateTransfer, MadeInv, Made, TypeOK, Updating
    <3>2. \A q \in Request : q.requestedBy \in Users /\ q.amount \in Int
      BY PayoutRequestAssumption DEF Request, Amounts
    <3> QED BY <3>1, <3>2
  <2>5. balance' = [balance EXCEPT ![u] = @ - amount]
    BY <1>7 DEF CreateTransfer
  <2>6. balance' \in [Users -> Int]
    <3> HIDE DEF u, amount
    <3> QED BY <2>4, <2>5 DEF TypeOK
  <2>7. UNCHANGED <<request, statuses, paid>>
    BY <1>7 DEF CreateTransfer
  <2> QED BY <2>2, <2>3, <2>6, <2>7 DEF TypeOK
<1>8. ASSUME NEW h \in Handlers, SavePaidRequest(h) PROVE TypeOK'
  <2>1. handler[h].id \in Requests
    BY <1>8, UpdatingType DEF SavePaidRequest, Updating
  <2> QED BY <1>8, <2>1, GotoType, IdleType DEF SavePaidRequest, TypeOK
<1>9. ASSUME NEW h \in Handlers, Crash(h) PROVE TypeOK'
  BY <1>9, GotoType, IdleType DEF Crash, TypeOK, tables
<1>10. ASSUME NEW u \in Users, NEW amount \in Amounts, Spend(u, amount) PROVE TypeOK'
  BY <1>10 DEF Spend, TypeOK, Amounts
<1>11. CASE UNCHANGED vars
  BY <1>11 DEF vars, TypeOK
<1> QED BY <1>1, <1>2, <1>3, <1>4, <1>5, <1>6, <1>7, <1>8, <1>9, <1>10, <1>11
        DEF Next, Step, Create, Update, Buy

LEMMA WellFormedInvariant == Spec => []WellFormed
<1>1. Init => WellFormed
  BY InitType DEF Init, WellFormed, MadeInv, Idle, Updating
<1>2. WellFormed /\ [Next]_vars => WellFormed'
  BY NextType, NextMade DEF WellFormed
<1> QED BY <1>1, <1>2, PTL DEF Spec

(***************************************************************************)
(* Every reachable state is well typed.                                    *)
(***************************************************************************)
THEOREM TypeCorrect == Spec => []TypeOK
<1>1. WellFormed => TypeOK
  BY DEF WellFormed
<1> QED BY <1>1, WellFormedInvariant, PTL
-----------------------------------------------------------------------------
(***************************************************************************)
(* With one handler: when it is about to save a status, that status is     *)
(* still allowed.                                                          *)
(***************************************************************************)
DecisionInv ==
  /\ OneDecision
  /\ \A h \in Handlers :
       handler[h].pc = "save.status" => canUpdateStatus(handler[h].id, handler[h].state)

LEMMA NextDecision ==
  ASSUME \A g, h \in Handlers : g = h
  PROVE  WellFormed /\ DecisionInv /\ [Next]_vars => DecisionInv'
<1> SUFFICES ASSUME WellFormed, DecisionInv, [Next]_vars PROVE DecisionInv'
  OBVIOUS
<1>1. CASE UNCHANGED statuses /\ \A h \in Handlers : handler'[h].pc # "save.status"
  BY <1>1 DEF DecisionInv, OneDecision, StatesOf
<1>2. ASSUME NEW h \in Handlers, Create(h) PROVE DecisionInv'
  <2>1. \A g \in Handlers : handler'[g].pc # "save.status"
    BY <1>2 DEF Create, BeginCreate, SaveRequest, SaveCreatedStatus, Goto, Idle, WellFormed, TypeOK
  <2>2. \A r \in Requests, state \in Decisions : statuses'[r][state] = statuses[r][state]
    <3>1. UNCHANGED statuses \/ SaveCreatedStatus(h)
      BY <1>2 DEF Create, BeginCreate, SaveRequest, tables
    <3>2. CASE SaveCreatedStatus(h)
      <4>1. handler[h].id \in Requests
        BY <3>2, CreatingType DEF SaveCreatedStatus, WellFormed
      <4> QED BY <3>2, <4>1 DEF SaveCreatedStatus, WellFormed, TypeOK, Decisions, States
    <3> QED BY <3>1, <3>2
  <2>3. \A r \in Requests : StatesOf(r)' \cap Decisions = StatesOf(r) \cap Decisions
    BY <2>2 DEF StatesOf, Decisions, States
  <2> QED BY <2>1, <2>2, <2>3 DEF DecisionInv, OneDecision
<1>3. ASSUME NEW h \in Handlers, Verify(h) PROVE DecisionInv'
  <2>1. UNCHANGED statuses
    BY <1>3 DEF Verify, tables
  <2>2. handler[h] \in [pc : Updating, id : Requests, state : States]
    BY <1>3, UpdatingType DEF Verify, Updating, WellFormed
  <2>3. handler'[h].pc = "save.status"
          => /\ canUpdateStatus(handler[h].id, handler[h].state)
             /\ handler'[h].id = handler[h].id /\ handler'[h].state = handler[h].state
    BY <1>3, <2>2 DEF Verify, Goto, Idle, WellFormed, TypeOK
  <2> QED BY <2>1, <2>3 DEF DecisionInv, OneDecision, StatesOf, canUpdateStatus
<1>4. ASSUME NEW h \in Handlers, SaveStatus(h) PROVE DecisionInv'
  <2> DEFINE id == handler[h].id
             state == handler[h].state
  <2>1. id \in Requests /\ state \in States
    BY <1>4, UpdatingType DEF SaveStatus, Updating, WellFormed
  <2>2. state \notin StatesOf(id) /\ (state \in Decisions => StatesOf(id) \cap Decisions = {})
    BY <1>4 DEF SaveStatus, DecisionInv, canUpdateStatus
  <2>3. statuses[id][state] = 0
    BY <2>1, <2>2 DEF StatesOf, WellFormed, TypeOK
  <2>4. /\ \A r \in Requests, s \in States :
             statuses'[r][s] = IF r = id /\ s = state THEN 1 ELSE statuses[r][s]
        /\ \A r \in Requests : StatesOf(r)' = IF r = id THEN StatesOf(r) \cup {state} ELSE StatesOf(r)
    <3>1. statuses' = [statuses EXCEPT ![id][state] = @ + 1]
      BY <1>4 DEF SaveStatus
    <3> HIDE DEF id, state
    <3>2. \A r \in Requests, s \in States :
            statuses'[r][s] = IF r = id /\ s = state THEN 1 ELSE statuses[r][s]
      BY <2>1, <2>3, <3>1 DEF WellFormed, TypeOK
    <3> QED BY <2>1, <3>2 DEF StatesOf
  <2>5. \A g \in Handlers : handler'[g].pc # "save.status"
    BY <1>4 DEF SaveStatus, Goto, Idle, WellFormed, TypeOK
  <2>6. OneDecision'
    <3> HIDE DEF id, state
    <3>1. \A s \in Decisions : s \in States
      BY DEF Decisions, States
    <3> QED BY <2>1, <2>2, <2>4, <3>1 DEF OneDecision, DecisionInv
  <2> QED BY <2>5, <2>6 DEF DecisionInv
<1>5. ASSUME NEW h \in Handlers,
             \/ CreateTransfer(h) \/ SavePaidRequest(h) \/ Crash(h)
             \/ \E r \in Requests, state \in States : BeginUpdate(h, r, state)
      PROVE  DecisionInv'
  <2>1. \A g \in Handlers : handler'[g].pc # "save.status"
    <3>1. handler[h].pc \in Updating => handler[h] \in [pc : Updating, id : Requests, state : States]
      BY UpdatingType DEF WellFormed
    <3> QED BY <1>5, <3>1 DEF CreateTransfer, SavePaidRequest, Crash, BeginUpdate, Goto, Idle,
                              Updating, WellFormed, TypeOK
  <2>2. UNCHANGED statuses
    BY <1>5 DEF CreateTransfer, SavePaidRequest, Crash, BeginUpdate, tables
  <2> QED BY <1>1, <2>1, <2>2
<1>6. CASE Buy \/ UNCHANGED vars
  BY <1>6 DEF Buy, Spend, vars, DecisionInv, OneDecision, StatesOf, canUpdateStatus
<1> QED BY <1>2, <1>3, <1>4, <1>5, <1>6 DEF Next, Step, Update

(***************************************************************************)
(* As long as updates are handled one at a time, a request gets one        *)
(* decision, whenever a handler dies in the middle.                        *)
(***************************************************************************)
THEOREM OneDecisionAlways ==
  ASSUME \A g, h \in Handlers : g = h
  PROVE  Spec => []OneDecision
<1>1. Init => DecisionInv
  BY DEF Init, DecisionInv, OneDecision, StatesOf, States, Decisions, Idle
<1>2. DecisionInv => OneDecision
  BY DEF DecisionInv
<1>3. WellFormed /\ DecisionInv /\ [Next]_vars => DecisionInv'
  BY NextDecision
<1> QED BY <1>1, <1>2, <1>3, WellFormedInvariant, PTL DEF Spec
-----------------------------------------------------------------------------
(***************************************************************************)
(* The handlers that saved an approval of a request and are still to pay.  *)
(***************************************************************************)
Paying(state, r) == state.pc = "create.transfer" /\ state.id = r

Pending(r) == {h \in Handlers : Paying(handler[h], r)}

LEMMA PendingStep ==
  ASSUME WellFormed, IsFiniteSet(Handlers), NEW h \in Handlers, NEW state, Goto(h, state),
         NEW r \in Requests
  PROVE  /\ Cardinality(Pending(r)) \in Nat
         /\ Paying(handler[h], r) => Cardinality(Pending(r)) > 0
         /\ Cardinality(Pending(r)') =
              Cardinality(Pending(r)) + (IF Paying(state, r) THEN 1 ELSE 0)
                                      - (IF Paying(handler[h], r) THEN 1 ELSE 0)
<1>1. IsFiniteSet(Pending(r))
  BY FS_Subset DEF Pending
<1>2. Cardinality(Pending(r)) \in Nat
  BY <1>1, FS_CardinalityType
<1>3. Pending(r)' = IF Paying(state, r) THEN Pending(r) \cup {h} ELSE Pending(r) \ {h}
  BY DEF Pending, Goto, WellFormed, TypeOK
<1>4. h \in Pending(r) <=> Paying(handler[h], r)
  BY DEF Pending
<1>5. /\ h \in Pending(r) => Cardinality(Pending(r) \ {h}) = Cardinality(Pending(r)) - 1
      /\ Cardinality(Pending(r) \ {h}) \in Nat
  BY <1>1, <1>2, FS_RemoveElement, FS_Subset, FS_CardinalityType
<1>6. h \notin Pending(r) => Cardinality(Pending(r) \cup {h}) = Cardinality(Pending(r)) + 1
  BY <1>1, FS_AddElement
<1>7. h \in Pending(r) => Cardinality(Pending(r) \cup {h}) = Cardinality(Pending(r))
  <2>1. h \in Pending(r) => Pending(r) \cup {h} = Pending(r)
    OBVIOUS
  <2> QED BY <2>1
<1>8. h \notin Pending(r) => Cardinality(Pending(r) \ {h}) = Cardinality(Pending(r))
  <2>1. h \notin Pending(r) => Pending(r) \ {h} = Pending(r)
    OBVIOUS
  <2> QED BY <2>1
<1>9. Paying(handler[h], r) => Cardinality(Pending(r)) > 0
  BY <1>2, <1>4, <1>5
<1>10. CASE Paying(state, r)
  <2>1. Cardinality(Pending(r))' = Cardinality(Pending(r) \cup {h})
    BY <1>3, <1>10
  <2> QED BY <1>2, <1>4, <1>6, <1>7, <1>9, <1>10, <2>1
<1>11. CASE ~ Paying(state, r)
  <2>1. Cardinality(Pending(r))' = Cardinality(Pending(r) \ {h})
    BY <1>3, <1>11
  <2> QED BY <1>2, <1>4, <1>5, <1>8, <1>9, <1>11, <2>1
<1> QED BY <1>10, <1>11

(***************************************************************************)
(* Money that left, and money about to leave, has an approval each; a row  *)
(* says it is paid, or is about to, only after a transfer.                 *)
(***************************************************************************)
PaidInv ==
  /\ \A r \in Requests : transfers[r] + Cardinality(Pending(r)) <= statuses[r]["APPROVED"]
  /\ \A h \in Handlers : handler[h].pc = "save.request" => transfers[handler[h].id] > 0
  /\ \A r \in paid : transfers[r] > 0

(***************************************************************************)
(* A step that pays nothing and promises nothing.                          *)
(***************************************************************************)
LEMMA QuietStep ==
  ASSUME WellFormed, PaidInv, IsFiniteSet(Handlers), NEW h \in Handlers, NEW state,
         Goto(h, state), state.pc \notin {"create.transfer", "save.request"},
         UNCHANGED transfers, paid' \subseteq paid \cup {r \in Requests : transfers[r] > 0},
         \A r \in Requests : statuses'[r]["APPROVED"] = statuses[r]["APPROVED"]
  PROVE  PaidInv'
<1>1. ASSUME NEW r \in Requests
      PROVE  transfers'[r] + Cardinality(Pending(r)') <= statuses'[r]["APPROVED"]
  <2>1. /\ Cardinality(Pending(r)) \in Nat
        /\ Cardinality(Pending(r)') = Cardinality(Pending(r)) - (IF Paying(handler[h], r) THEN 1 ELSE 0)
    BY PendingStep DEF Paying
  <2>2. transfers[r] \in Nat /\ statuses[r]["APPROVED"] \in Nat
    BY DEF WellFormed, TypeOK, States
  <2> QED BY <2>1, <2>2 DEF PaidInv
<1>2. ASSUME NEW g \in Handlers, handler'[g].pc = "save.request"
      PROVE  transfers'[handler'[g].id] > 0
  <2>1. handler'[g] = handler[g]
    BY <1>2 DEF Goto, WellFormed, TypeOK
  <2> QED BY <1>2, <2>1 DEF PaidInv
<1> QED BY <1>1, <1>2 DEF PaidInv

LEMMA InitPaid ==
  ASSUME IsFiniteSet(Handlers), Init
  PROVE  PaidInv
<1>1. \A r : Pending(r) = {}
  BY DEF Init, Pending, Paying, Idle
<1>2. \A r \in Requests : Cardinality(Pending(r)) = 0
  BY <1>1, FS_EmptySet
<1>3. \A r \in Requests : transfers[r] = 0 /\ statuses[r]["APPROVED"] = 0
  BY DEF Init, States
<1>4. paid = {} /\ \A h \in Handlers : handler[h].pc # "save.request"
  BY DEF Init, Idle
<1> QED BY <1>2, <1>3, <1>4 DEF PaidInv

LEMMA NextPaid ==
  ASSUME IsFiniteSet(Handlers)
  PROVE  WellFormed /\ PaidInv /\ [Next]_vars => PaidInv'
<1> SUFFICES ASSUME WellFormed, PaidInv, [Next]_vars PROVE PaidInv'
  OBVIOUS
<1>1. ASSUME NEW h \in Handlers,
             \/ SaveRequest(h) \/ SaveCreatedStatus(h) \/ Verify(h) \/ Crash(h)
             \/ \E r \in Requests, u \in Users, amount \in Amounts : BeginCreate(h, r, u, amount)
             \/ \E r \in Requests, state \in States : BeginUpdate(h, r, state)
      PROVE  PaidInv'
  <2>1. PICK state : Goto(h, state) /\ state.pc \notin {"create.transfer", "save.request"}
    <3>1. CASE Verify(h)
      <4>1. handler[h] \in [pc : Updating, id : Requests, state : States]
        BY <3>1, UpdatingType DEF Verify, Updating, WellFormed
      <4> QED BY <3>1, <4>1 DEF Verify, Idle
    <3>2. CASE SaveCreatedStatus(h) \/ Crash(h)
      BY <3>2 DEF SaveCreatedStatus, Crash, Idle
    <3>3. CASE SaveRequest(h)
      <4> DEFINE next == [pc |-> "create.status", id |-> handler[h].id]
      <4>1. Goto(h, next) /\ next.pc = "create.status"
        BY <3>3 DEF SaveRequest
      <4> HIDE DEF next
      <4> QED BY <4>1
    <3>4. ASSUME NEW r \in Requests, NEW u \in Users, NEW amount \in Amounts, BeginCreate(h, r, u, amount)
          PROVE  \E state : Goto(h, state) /\ state.pc \notin {"create.transfer", "save.request"}
      <4> DEFINE next == [pc |-> "create.request", id |-> r, requestedBy |-> u, amount |-> amount]
      <4>1. Goto(h, next) /\ next.pc = "create.request"
        BY <3>4 DEF BeginCreate
      <4> HIDE DEF next
      <4> QED BY <4>1
    <3>5. ASSUME NEW r \in Requests, NEW state \in States, BeginUpdate(h, r, state)
          PROVE  \E s : Goto(h, s) /\ s.pc \notin {"create.transfer", "save.request"}
      <4> DEFINE next == [pc |-> "verify", id |-> r, state |-> state]
      <4>1. Goto(h, next) /\ next.pc = "verify"
        BY <3>5 DEF BeginUpdate
      <4> HIDE DEF next
      <4> QED BY <4>1
    <3> QED BY <1>1, <3>1, <3>2, <3>3, <3>4, <3>5
  <2>2. UNCHANGED transfers /\ UNCHANGED paid
    BY <1>1 DEF SaveRequest, SaveCreatedStatus, Verify, Crash, BeginCreate, BeginUpdate, tables
  <2>3. \A r \in Requests : statuses'[r]["APPROVED"] = statuses[r]["APPROVED"]
    <3>1. UNCHANGED statuses \/ SaveCreatedStatus(h)
      BY <1>1 DEF SaveRequest, Verify, Crash, BeginCreate, BeginUpdate, tables
    <3>2. CASE SaveCreatedStatus(h)
      <4>1. handler[h].id \in Requests
        BY <3>2, CreatingType DEF SaveCreatedStatus, WellFormed
      <4> QED BY <3>2, <4>1 DEF SaveCreatedStatus, WellFormed, TypeOK, States
    <3> QED BY <3>1, <3>2
  <2> QED BY <2>1, <2>2, <2>3, QuietStep
<1>2. ASSUME NEW h \in Handlers, SaveStatus(h) PROVE PaidInv'
  <2> DEFINE id == handler[h].id
             state == handler[h].state
  <2>1. handler[h] \in [pc : Updating, id : Requests, state : States] /\ id \in Requests /\ state \in States
    BY <1>2, UpdatingType DEF SaveStatus, Updating, WellFormed
  <2>2. \A r \in Requests : statuses'[r]["APPROVED"] =
          IF r = id /\ state = "APPROVED" THEN statuses[r]["APPROVED"] + 1 ELSE statuses[r]["APPROVED"]
    <3>1. statuses' = [statuses EXCEPT ![id][state] = @ + 1]
      BY <1>2 DEF SaveStatus
    <3>2. "APPROVED" \in States
      BY DEF States
    <3> HIDE DEF id, state
    <3> QED BY <2>1, <3>1, <3>2 DEF WellFormed, TypeOK
  <2>3. CASE state # "APPROVED"
    <3>1. Goto(h, Idle) /\ UNCHANGED <<transfers, paid>>
      BY <1>2, <2>3 DEF SaveStatus
    <3> QED BY <2>2, <2>3, <3>1, QuietStep DEF Idle
  <2>4. CASE state = "APPROVED"
    <3> DEFINE next == [handler[h] EXCEPT !.pc = "create.transfer"]
    <3>1. Goto(h, next) /\ UNCHANGED <<transfers, paid>>
      BY <1>2, <2>4 DEF SaveStatus
    <3>2. next.pc = "create.transfer" /\ next.id = id
      BY <2>1
    <3>3. ASSUME NEW r \in Requests
          PROVE  transfers'[r] + Cardinality(Pending(r)') <= statuses'[r]["APPROVED"]
      <4>1. /\ Cardinality(Pending(r)) \in Nat
            /\ Cardinality(Pending(r)') = Cardinality(Pending(r)) + (IF r = id THEN 1 ELSE 0)
        <5>1. ~ Paying(handler[h], r) /\ (Paying(next, r) <=> r = id)
          BY <1>2, <3>2 DEF Paying, SaveStatus
        <5> HIDE DEF next
        <5> QED BY <3>1, <5>1, PendingStep
      <4>2. transfers[r] \in Nat /\ statuses[r]["APPROVED"] \in Nat
        BY DEF WellFormed, TypeOK, States
      <4>3. statuses'[r]["APPROVED"] = statuses[r]["APPROVED"] + (IF r = id THEN 1 ELSE 0)
        BY <2>2, <2>4, <4>2
      <4>4. transfers[r] + Cardinality(Pending(r)) <= statuses[r]["APPROVED"] /\ transfers'[r] = transfers[r]
        BY <3>1 DEF PaidInv
      <4> HIDE DEF id
      <4> QED BY <4>1, <4>2, <4>3, <4>4
    <3>4. ASSUME NEW g \in Handlers, handler'[g].pc = "save.request"
          PROVE  transfers'[handler'[g].id] > 0
      <4>1. handler'[g] = handler[g]
        BY <3>1, <3>2, <3>4 DEF Goto, WellFormed, TypeOK
      <4> QED BY <3>1, <3>4, <4>1 DEF PaidInv
    <3> QED BY <3>1, <3>3, <3>4 DEF PaidInv
  <2> QED BY <2>3, <2>4
<1>3. ASSUME NEW h \in Handlers, CreateTransfer(h) PROVE PaidInv'
  <2> DEFINE id == handler[h].id
             next == [handler[h] EXCEPT !.pc = "save.request"]
  <2>1. handler[h] \in [pc : Updating, id : Requests, state : States] /\ id \in Requests
    BY <1>3, UpdatingType DEF CreateTransfer, Updating, WellFormed
  <2>2. Goto(h, next) /\ UNCHANGED <<statuses, paid>>
    BY <1>3 DEF CreateTransfer
  <2>3. \A r \in Requests : transfers[r] \in Nat /\ transfers'[r] = transfers[r] + (IF r = id THEN 1 ELSE 0)
    BY <1>3 DEF CreateTransfer, WellFormed, TypeOK
  <2>4. next.pc = "save.request" /\ next.id = id
    BY <2>1
  <2>5. ASSUME NEW r \in Requests
        PROVE  transfers'[r] + Cardinality(Pending(r)') <= statuses'[r]["APPROVED"]
    <3>1. /\ Cardinality(Pending(r)) \in Nat
          /\ Cardinality(Pending(r)') = Cardinality(Pending(r)) - (IF r = id THEN 1 ELSE 0)
      <4>1. (Paying(handler[h], r) <=> r = id) /\ ~ Paying(next, r)
        BY <1>3, <2>4 DEF Paying, CreateTransfer
      <4> HIDE DEF next
      <4> QED BY <2>2, <4>1, PendingStep
    <3>2. statuses[r]["APPROVED"] \in Nat
      BY DEF WellFormed, TypeOK, States
    <3>3. transfers[r] + Cardinality(Pending(r)) <= statuses[r]["APPROVED"] /\ statuses'[r] = statuses[r]
      BY <2>2 DEF PaidInv
    <3> HIDE DEF id
    <3> QED BY <2>3, <3>1, <3>2, <3>3
  <2>6. ASSUME NEW g \in Handlers, handler'[g].pc = "save.request"
        PROVE  transfers'[handler'[g].id] > 0
    <3>1. CASE g = h
      BY <2>1, <2>2, <2>3, <2>4, <3>1 DEF Goto, WellFormed, TypeOK
    <3>2. CASE g # h
      <4>1. handler'[g] = handler[g]
        BY <2>2, <3>2 DEF Goto, WellFormed, TypeOK
      <4>2. transfers[handler[g].id] > 0 /\ handler[g].id \in Requests
        BY <2>6, <4>1, UpdatingType DEF PaidInv, Updating, WellFormed
      <4> HIDE DEF id
      <4> QED BY <2>3, <4>1, <4>2
    <3> QED BY <3>1, <3>2
  <2>7. \A r \in paid' : transfers'[r] > 0
    <3> HIDE DEF id
    <3> QED BY <2>2, <2>3 DEF PaidInv, WellFormed, TypeOK
  <2> QED BY <2>5, <2>6, <2>7 DEF PaidInv
<1>4. ASSUME NEW h \in Handlers, SavePaidRequest(h) PROVE PaidInv'
  <2>1. handler[h].id \in Requests /\ transfers[handler[h].id] > 0
    BY <1>4, UpdatingType DEF SavePaidRequest, Updating, WellFormed, PaidInv
  <2>2. Goto(h, Idle) /\ UNCHANGED <<transfers, statuses>> /\ paid' = paid \cup {handler[h].id}
    BY <1>4 DEF SavePaidRequest
  <2> QED BY <2>1, <2>2, QuietStep DEF Idle
<1>5. CASE Buy \/ UNCHANGED vars
  BY <1>5 DEF Buy, Spend, vars, PaidInv, Pending
<1> QED BY <1>1, <1>2, <1>3, <1>4, <1>5 DEF Next, Step, Create, Update

(***************************************************************************)
(* However many handlers decide, race and die, no money leaves a user for  *)
(* a payout request without an approval of its own.                        *)
(***************************************************************************)
THEOREM PaidIsApprovedAlways ==
  ASSUME IsFiniteSet(Handlers)
  PROVE  Spec => []PaidIsApproved
<1>1. Init => PaidInv
  BY InitPaid
<1>2. WellFormed /\ PaidInv => PaidIsApproved
  <2> SUFFICES ASSUME WellFormed, PaidInv, NEW r \in Requests
               PROVE  transfers[r] <= statuses[r]["APPROVED"] /\ (r \in paid => transfers[r] > 0)
    BY DEF PaidIsApproved
  <2>1. Cardinality(Pending(r)) \in Nat
    BY FS_Subset, FS_CardinalityType DEF Pending
  <2>2. transfers[r] \in Nat /\ statuses[r]["APPROVED"] \in Nat
    BY DEF WellFormed, TypeOK, States
  <2> QED BY <2>1, <2>2 DEF PaidInv
<1>3. WellFormed /\ PaidInv /\ [Next]_vars => PaidInv'
  BY NextPaid
<1> QED BY <1>1, <1>2, <1>3, WellFormedInvariant, PTL DEF Spec
-----------------------------------------------------------------------------
(***************************************************************************)
(* One handler at a time, purchases only at rest: an approval that is      *)
(* being handled stays covered until it is paid, and a request that was    *)
(* not made has no decision and no transfer.                               *)
(***************************************************************************)
Approving == {"verify", "verify.again", "save.status", "create.transfer"}

StaysCovered ==
  \A h \in Handlers :
    handler[h].pc \in Approving /\ handler[h].state = "APPROVED" => Covered(handler[h].id)

ToPay ==
  \A h \in Handlers :
    handler[h].pc = "create.transfer" =>
      /\ handler[h].state = "APPROVED"
      /\ statuses[handler[h].id]["APPROVED"] > 0 /\ transfers[handler[h].id] = 0

NotMade ==
  /\ \A h \in Handlers : handler[h].pc = "create.request" => ~ Made(handler[h].id)
  /\ \A r \in Requests :
       ~ Made(r) => transfers[r] = 0 /\ \A state \in Decisions : statuses[r][state] = 0

QuietInv == NeverOverdrawn /\ StaysCovered /\ ToPay /\ NotMade

QuietNext == Step \/ (AtRest /\ Buy) \/ \E h \in Handlers : Crash(h)

DecidedInv == WellFormed /\ DecisionInv /\ PaidInv

(***************************************************************************)
(* What the abstract specification sees of a step.                         *)
(***************************************************************************)
Implements == [Payout!Next]_(Payout!vars)

LEMMA Unseen ==
  ASSUME UNCHANGED balance, \A r \in Requests : Outcome(r)' = Outcome(r)
  PROVE  Implements
BY DEF Implements, Payout!vars

(***************************************************************************)
(* The row, the amount and the user of a request that was made.            *)
(***************************************************************************)
LEMMA MadeType ==
  ASSUME TypeOK, NEW r \in Requests, Made(r)
  PROVE  /\ request[r] \in Request /\ request[r].requestedBy \in Users
         /\ request[r].amount \in Amounts /\ request[r].amount \in Nat
<1>1. request[r] \in Request
  BY DEF TypeOK, Made
<1>2. \A q \in Request : q.requestedBy \in Users /\ q.amount \in Amounts
  BY DEF Request
<1>3. Amounts \subseteq Nat
  BY PayoutRequestAssumption DEF Amounts
<1> QED BY <1>1, <1>2, <1>3

LEMMA OnlyOne ==
  ASSUME \A g, h \in Handlers : g = h
  PROVE  IsFiniteSet(Handlers)
<1>1. CASE Handlers = {}
  BY <1>1, FS_EmptySet
<1>2. ASSUME NEW h \in Handlers PROVE IsFiniteSet(Handlers)
  <2>1. Handlers = {h}
    OBVIOUS
  <2> QED BY <2>1, FS_Singleton
<1> QED BY <1>1, <1>2

(***************************************************************************)
(* A handler that is to save a decision: nothing was decided or paid yet.  *)
(***************************************************************************)
LEMMA Undecided ==
  ASSUME DecidedInv, IsFiniteSet(Handlers), NEW h \in Handlers, SaveStatus(h)
  PROVE  /\ handler[h].id \in Requests /\ Made(handler[h].id) /\ handler[h].state \in States
         /\ statuses[handler[h].id][handler[h].state] = 0
         /\ handler[h].state \in Decisions =>
              transfers[handler[h].id] = 0 /\ \A s \in Decisions : statuses[handler[h].id][s] = 0
<1> DEFINE r == handler[h].id
           state == handler[h].state
<1>1. handler[h].pc = "save.status" /\ r \in Requests /\ state \in States /\ Made(r)
  BY UpdatingType DEF SaveStatus, Updating, DecidedInv, WellFormed, MadeInv
<1>2. canUpdateStatus(r, state)
  BY <1>1 DEF DecidedInv, DecisionInv
<1>3. \A s \in States : statuses[r][s] \in Nat
  BY <1>1 DEF DecidedInv, WellFormed, TypeOK
<1>4. statuses[r][state] = 0
  BY <1>1, <1>2, <1>3 DEF canUpdateStatus, StatesOf
<1>5. ASSUME state \in Decisions PROVE \A s \in Decisions : statuses[r][s] = 0
  BY <1>1, <1>2, <1>3, <1>5 DEF canUpdateStatus, StatesOf, Decisions, States
<1>6. ASSUME state \in Decisions PROVE transfers[r] = 0
  <2>1. statuses[r]["APPROVED"] = 0
    BY <1>5, <1>6 DEF Decisions
  <2>2. Cardinality(Pending(r)) \in Nat
    BY FS_Subset, FS_CardinalityType DEF Pending
  <2>3. transfers[r] \in Nat /\ transfers[r] + Cardinality(Pending(r)) <= statuses[r]["APPROVED"]
    BY <1>1 DEF DecidedInv, WellFormed, TypeOK, PaidInv
  <2> QED BY <2>1, <2>2, <2>3
<1> QED BY <1>1, <1>4, <1>5, <1>6

(***************************************************************************)
(* Steps that change neither money nor decisions nor rows.                 *)
(***************************************************************************)
LEMMA KeepsQuiet ==
  ASSUME QuietInv, UNCHANGED <<request, transfers, balance>>,
         \A r \in Requests, s \in Decisions : statuses'[r][s] = statuses[r][s],
         \A h \in Handlers :
           /\ handler'[h].pc \in Approving /\ handler'[h].state = "APPROVED" => Covered(handler'[h].id)
           /\ handler'[h].pc # "create.transfer"
           /\ handler'[h].pc = "create.request" => ~ Made(handler'[h].id)
  PROVE  QuietInv' /\ Implements
<1>1. NeverOverdrawn'
  BY DEF QuietInv, NeverOverdrawn
<1>2. StaysCovered'
  BY DEF StaysCovered, Covered
<1>3. ToPay'
  BY DEF ToPay
<1>4. NotMade'
  BY DEF QuietInv, NotMade, Made
<1>5. \A r \in Requests : Outcome(r)' = Outcome(r)
  <2>1. "DENIED" \in Decisions /\ "CANCELLED" \in Decisions
    BY DEF Decisions
  <2> QED BY <2>1 DEF Outcome, Made
<1> QED BY <1>1, <1>2, <1>3, <1>4, <1>5, Unseen DEF QuietInv

LEMMA QuietCreates ==
  ASSUME DecidedInv, QuietInv, NEW h \in Handlers, \A g \in Handlers : g = h, Create(h)
  PROVE  QuietInv' /\ Implements
<1> USE DEF DecidedInv
<1>1. ASSUME NEW r \in Requests, NEW u \in Users, NEW amount \in Amounts, BeginCreate(h, r, u, amount)
      PROVE  QuietInv' /\ Implements
  <2>1. handler'[h] = [pc |-> "create.request", id |-> r, requestedBy |-> u, amount |-> amount] /\ ~ Made(r)
    BY <1>1 DEF BeginCreate, Goto, WellFormed, TypeOK
  <2>2. UNCHANGED tables
    BY <1>1 DEF BeginCreate
  <2> QED BY <2>1, <2>2, KeepsQuiet DEF tables, Approving
<1>2. CASE SaveCreatedStatus(h)
  <2>1. handler[h].id \in Requests
    BY <1>2, CreatingType DEF SaveCreatedStatus, WellFormed
  <2>2. \A r \in Requests, s \in Decisions : statuses'[r][s] = statuses[r][s]
    BY <1>2, <2>1 DEF SaveCreatedStatus, WellFormed, TypeOK, Decisions, States
  <2>3. handler'[h] = Idle /\ UNCHANGED <<request, transfers, balance>>
    BY <1>2 DEF SaveCreatedStatus, Goto, WellFormed, TypeOK
  <2> QED BY <2>2, <2>3, KeepsQuiet DEF Idle, Approving
<1>3. CASE SaveRequest(h)
  <2> DEFINE r == handler[h].id
             row == [made |-> TRUE, requestedBy |-> handler[h].requestedBy, amount |-> handler[h].amount]
  <2>1. r \in Requests /\ ~ Made(r)
    <3>1. handler[h] \in [pc : {"create.request"}, id : Requests, requestedBy : Users, amount : Amounts]
      BY <1>3 DEF SaveRequest, WellFormed, TypeOK, Handler, Idle
    <3> QED BY <1>3, <3>1 DEF SaveRequest, QuietInv, NotMade
  <2>2. row # NoRequest
    BY DEF NoRequest
  <2>3. \A q \in Requests : request'[q] = IF q = r THEN row ELSE request[q]
    BY <1>3, <2>1 DEF SaveRequest, WellFormed, TypeOK
  <2>4. UNCHANGED <<statuses, transfers, paid, balance>> /\ handler'[h].pc = "create.status"
    BY <1>3 DEF SaveRequest, Goto, WellFormed, TypeOK
  <2>5. transfers[r] = 0 /\ statuses[r]["DENIED"] = 0 /\ statuses[r]["CANCELLED"] = 0
    BY <2>1 DEF QuietInv, NotMade, Decisions
  <2>6. \A q \in Requests : Outcome(q)' = IF q = r THEN "open" ELSE Outcome(q)
    <3> HIDE DEF r, row
    <3> QED BY <2>2, <2>3, <2>4, <2>5 DEF Outcome, Made
  <2>7. Outcome(r) = "none"
    BY <2>1 DEF Outcome
  <2>8. Implements
    <3>1. Payout!Open(r)
      <4> HIDE DEF r
      <4> QED BY <2>1, <2>4, <2>6, <2>7 DEF Payout!Open, Payout!Becomes
    <3> QED BY <2>1, <3>1 DEF Implements, Payout!Next
  <2>9. QuietInv'
    <3> HIDE DEF r, row
    <3>1. NotMade'
      BY <2>2, <2>3, <2>4 DEF QuietInv, NotMade, Made
    <3> QED BY <2>4, <3>1 DEF QuietInv, NeverOverdrawn, StaysCovered, ToPay, Approving
  <2> QED BY <2>8, <2>9
<1> QED BY <1>1, <1>2, <1>3 DEF Create

LEMMA QuietUpdates ==
  ASSUME DecidedInv, QuietInv, NEW h \in Handlers, \A g \in Handlers : g = h, IsFiniteSet(Handlers),
         Update(h)
  PROVE  QuietInv' /\ Implements
<1> USE DEF DecidedInv
<1>1. ASSUME NEW r \in Requests, NEW state \in States, BeginUpdate(h, r, state)
      PROVE  QuietInv' /\ Implements
  <2>1. handler'[h] = [pc |-> "verify", id |-> r, state |-> state]
    BY <1>1 DEF BeginUpdate, Goto, WellFormed, TypeOK
  <2>2. UNCHANGED tables /\ (state = "APPROVED" => Covered(r))
    BY <1>1 DEF BeginUpdate
  <2> QED BY <2>1, <2>2, KeepsQuiet DEF tables
<1>2. CASE Verify(h)
  <2>1. handler[h] \in [pc : Updating, id : Requests, state : States] /\ handler[h].pc \in Approving
    BY <1>2, UpdatingType DEF Verify, Updating, WellFormed, Approving
  <2>2. \/ handler'[h] = Idle
        \/ /\ handler'[h].pc \in {"verify.again", "save.status"}
           /\ handler'[h].id = handler[h].id /\ handler'[h].state = handler[h].state
    BY <1>2, <2>1 DEF Verify, Goto, WellFormed, TypeOK
  <2>3. UNCHANGED tables
    BY <1>2 DEF Verify
  <2> QED BY <2>1, <2>2, <2>3, KeepsQuiet DEF tables, Idle, QuietInv, StaysCovered, Approving
<1>3. CASE SavePaidRequest(h)
  <2>1. handler'[h] = Idle /\ UNCHANGED <<request, statuses, transfers, balance>>
    BY <1>3 DEF SavePaidRequest, Goto, WellFormed, TypeOK
  <2> QED BY <2>1, KeepsQuiet DEF Idle, Approving
<1>4. CASE SaveStatus(h)
  <2> DEFINE r == handler[h].id
             state == handler[h].state
  <2>1. /\ r \in Requests /\ Made(r) /\ state \in States /\ statuses[r][state] = 0
        /\ state \in Decisions => transfers[r] = 0 /\ \A s \in Decisions : statuses[r][s] = 0
    BY <1>4, Undecided
  <2>2. handler[h] \in [pc : Updating, id : Requests, state : States]
    BY <1>4, UpdatingType DEF SaveStatus, Updating, WellFormed
  <2>3. \A q \in Requests, s \in States :
          statuses'[q][s] = IF q = r /\ s = state THEN 1 ELSE statuses[q][s]
    <3>1. statuses' = [statuses EXCEPT ![r][state] = @ + 1]
      BY <1>4 DEF SaveStatus
    <3> HIDE DEF r, state
    <3> QED BY <2>1, <3>1 DEF WellFormed, TypeOK
  <2>4. UNCHANGED <<request, transfers, paid, balance>>
    BY <1>4 DEF SaveStatus
  <2>5. \/ state # "APPROVED" /\ handler'[h] = Idle
        \/ /\ state = "APPROVED" /\ handler'[h].pc = "create.transfer"
           /\ handler'[h].id = r /\ handler'[h].state = state
    BY <1>4, <2>2 DEF SaveStatus, Goto, WellFormed, TypeOK
  <2>6. Covered(r) \/ state # "APPROVED"
    BY <1>4 DEF SaveStatus, QuietInv, StaysCovered, Approving
  <2>7. Decisions \subseteq States /\ "APPROVED" \in Decisions /\ "DENIED" \in Decisions /\ "CANCELLED" \in Decisions
    BY DEF Decisions, States
  <2> HIDE DEF r, state
  <2>8. StaysCovered' /\ ToPay'
    BY <2>1, <2>3, <2>4, <2>5, <2>6, <2>7 DEF StaysCovered, ToPay, Covered, Idle, Approving
  <2>9. NotMade'
    BY <2>1, <2>3, <2>4, <2>5, <2>7 DEF QuietInv, NotMade, Made, Idle
  <2>10. Implements
    <3>1. CASE state \in {"DENIED", "CANCELLED"}
      <4>1. Outcome(r) = "open"
        BY <2>1, <2>7, <3>1 DEF Outcome
      <4>2. \A q \in Requests :
              Outcome(q)' = IF q = r THEN IF state = "DENIED" THEN "denied" ELSE "cancelled" ELSE Outcome(q)
        BY <2>1, <2>3, <2>4, <2>7, <3>1 DEF Outcome, Made
      <4>3. Payout!Refuse(r)
        BY <2>1, <2>4, <3>1, <4>1, <4>2 DEF Payout!Refuse, Payout!Becomes
      <4> QED BY <2>1, <4>3 DEF Implements, Payout!Next
    <3>2. CASE state \notin {"DENIED", "CANCELLED"}
      <4>1. \A q \in Requests : Outcome(q)' = Outcome(q)
        BY <2>3, <2>4, <2>7, <3>2 DEF Outcome, Made
      <4> QED BY <2>4, <4>1, Unseen
    <3> QED BY <3>1, <3>2
  <2> QED BY <2>4, <2>8, <2>9, <2>10 DEF QuietInv, NeverOverdrawn
<1>5. CASE CreateTransfer(h)
  <2> DEFINE r == handler[h].id
             u == request[r].requestedBy
             amount == request[r].amount
  <2>1. r \in Requests /\ Made(r)
    BY <1>5, UpdatingType DEF CreateTransfer, Updating, WellFormed, MadeInv
  <2>2. u \in Users /\ amount \in Amounts /\ amount \in Nat
    BY <2>1, MadeType DEF WellFormed
  <2>3. balance[u] >= amount /\ transfers[r] = 0 /\ statuses[r]["APPROVED"] > 0
    BY <1>5 DEF CreateTransfer, QuietInv, StaysCovered, ToPay, Covered, Approving
  <2>4. \A q \in Requests : transfers'[q] = IF q = r THEN 1 ELSE transfers[q]
    BY <1>5, <2>1, <2>3 DEF CreateTransfer, WellFormed, TypeOK
  <2>5. balance' = [balance EXCEPT ![u] = @ - amount] /\ UNCHANGED <<request, statuses, paid>>
    BY <1>5 DEF CreateTransfer
  <2>6. handler'[h].pc = "save.request"
    BY <1>5, UpdatingType DEF CreateTransfer, Updating, Goto, WellFormed, TypeOK
  <2>7. statuses[r]["DENIED"] = 0 /\ statuses[r]["CANCELLED"] = 0
    <3>1. "APPROVED" \in StatesOf(r) \cap Decisions
      BY <2>3 DEF StatesOf, States, Decisions
    <3>2. \A s \in StatesOf(r) \cap Decisions : s = "APPROVED"
      BY <2>1, <3>1 DEF DecisionInv, OneDecision
    <3>3. \A s \in States : statuses[r][s] \in Nat
      BY <2>1 DEF WellFormed, TypeOK
    <3> HIDE DEF r
    <3> QED BY <3>2, <3>3 DEF StatesOf, States, Decisions
  <2>8. balance \in [Users -> Int]
    BY DEF WellFormed, TypeOK
  <2> HIDE DEF r, u, amount
  <2>9. NeverOverdrawn'
    BY <2>2, <2>3, <2>5, <2>8 DEF QuietInv, NeverOverdrawn
  <2>10. StaysCovered' /\ ToPay'
    BY <2>6 DEF StaysCovered, ToPay, Approving
  <2>11. NotMade'
    BY <2>1, <2>4, <2>5, <2>6 DEF QuietInv, NotMade, Made
  <2>12. Implements
    <3>1. Outcome(r) = "open"
      BY <2>1, <2>3, <2>7 DEF Outcome
    <3>2. \A q \in Requests : Outcome(q)' = IF q = r THEN "approved" ELSE Outcome(q)
      BY <2>1, <2>4, <2>5 DEF Outcome, Made
    <3>3. Payout!Approve(r, u, amount)
      BY <2>1, <2>3, <2>5, <3>1, <3>2 DEF Payout!Approve, Payout!Becomes, Payout!Take
    <3> QED BY <2>1, <2>2, <3>3 DEF Implements, Payout!Next, Amounts
  <2> QED BY <2>9, <2>10, <2>11, <2>12 DEF QuietInv
<1> QED BY <1>1, <1>2, <1>3, <1>4, <1>5 DEF Update

LEMMA QuietSteps ==
  ASSUME \A g, h \in Handlers : g = h, DecidedInv, QuietInv, [QuietNext]_vars
  PROVE  QuietInv' /\ Implements
<1> USE DEF DecidedInv
<1>1. ASSUME NEW h \in Handlers, Create(h) \/ Update(h) PROVE QuietInv' /\ Implements
  BY <1>1, QuietCreates, QuietUpdates, OnlyOne
<1>2. ASSUME NEW h \in Handlers, Crash(h) PROVE QuietInv' /\ Implements
  <2>1. handler'[h] = Idle /\ UNCHANGED tables
    BY <1>2 DEF Crash, Goto, WellFormed, TypeOK
  <2> QED BY <2>1, KeepsQuiet DEF Idle, Approving, tables
<1>3. ASSUME AtRest, NEW u \in Users, NEW amount \in Amounts, Spend(u, amount)
      PROVE  QuietInv' /\ Implements
  <2>1. /\ balance[u] >= amount /\ balance' = [balance EXCEPT ![u] = @ - amount]
        /\ UNCHANGED <<request, statuses, transfers, paid, handler>>
    BY <1>3 DEF Spend
  <2>2. amount \in Nat /\ balance \in [Users -> Int]
    BY PayoutRequestAssumption DEF Amounts, WellFormed, TypeOK
  <2>3. NeverOverdrawn'
    BY <2>1, <2>2 DEF QuietInv, NeverOverdrawn
  <2>4. StaysCovered' /\ ToPay' /\ NotMade'
    BY <1>3, <2>1 DEF QuietInv, StaysCovered, ToPay, NotMade, Made, AtRest, Idle, Approving
  <2>5. \A r \in Requests : Outcome(r)' = Outcome(r)
    BY <2>1 DEF Outcome, Made
  <2>6. Payout!Spend(u, amount)
    BY <2>1, <2>5 DEF Payout!Spend, Payout!Take
  <2>7. Implements
    BY <2>6 DEF Implements, Payout!Next, Amounts
  <2> QED BY <2>3, <2>4, <2>7 DEF QuietInv
<1>4. CASE UNCHANGED vars
  <2>1. QuietInv'
    BY <1>4 DEF vars, QuietInv, NeverOverdrawn, StaysCovered, ToPay, NotMade, Made, Covered
  <2>2. \A r \in Requests : Outcome(r)' = Outcome(r)
    BY <1>4 DEF vars, Outcome, Made
  <2> QED BY <1>4, <2>1, <2>2, Unseen DEF vars
<1> QED BY <1>1, <1>2, <1>3, <1>4 DEF QuietNext, Step, Buy

LEMMA QuietInvariant ==
  ASSUME \A g, h \in Handlers : g = h, Balance >= 0
  PROVE  QuietSpec => []QuietInv /\ [][Payout!Next]_(Payout!vars)
<1>1. Init => DecidedInv /\ QuietInv
  <2> SUFFICES ASSUME Init PROVE DecidedInv /\ QuietInv
    OBVIOUS
  <2>1. WellFormed
    BY InitType DEF Init, WellFormed, MadeInv, Idle, Updating
  <2>2. DecisionInv
    BY DEF Init, DecisionInv, OneDecision, StatesOf, States, Decisions, Idle
  <2>3. PaidInv
    BY OnlyOne, InitPaid
  <2>4. QuietInv
    BY PayoutRequestAssumption DEF Init, QuietInv, NeverOverdrawn, StaysCovered, ToPay, NotMade, Made, Idle, Approving, Decisions, States
  <2> QED BY <2>1, <2>2, <2>3, <2>4 DEF DecidedInv
<1>2. [QuietNext]_vars => [Next]_vars
  BY DEF QuietNext, Next, AtRest
<1>3. DecidedInv /\ [Next]_vars => DecidedInv'
  BY NextType, NextMade, NextDecision, NextPaid, OnlyOne DEF DecidedInv, WellFormed
<1>4. DecidedInv /\ QuietInv /\ [QuietNext]_vars => QuietInv' /\ [Payout!Next]_(Payout!vars)
  BY QuietSteps DEF Implements
<1>5. QuietSpec <=> Init /\ [][QuietNext]_vars
  BY DEF QuietSpec, QuietNext
<1> QED BY <1>1, <1>2, <1>3, <1>4, <1>5, PTL

(***************************************************************************)
(* One handler at a time, and no purchase while it works: the requester    *)
(* still has the money when the transfer takes it, crashes included.       *)
(***************************************************************************)
THEOREM NeverOverdrawnAlways ==
  ASSUME \A g, h \in Handlers : g = h, Balance >= 0
  PROVE  QuietSpec => []NeverOverdrawn
<1>1. QuietInv => NeverOverdrawn
  BY DEF QuietInv
<1> QED BY <1>1, QuietInvariant, PTL

(***************************************************************************)
(* Under the same conditions the steps of a handler implement one decision *)
(* per request, taken together with the money: only CreateTransfer and the *)
(* status rows of the other decisions show, all else stutters.             *)
(***************************************************************************)
THEOREM ImplementsPayoutAlways ==
  ASSUME \A g, h \in Handlers : g = h, Balance >= 0
  PROVE  QuietSpec => ImplementsPayout
<1>1. Init => Payout!Init
  BY DEF Init, Payout!Init, Outcome, Made
<1>2. QuietSpec => Init
  BY DEF QuietSpec
<1> QED BY <1>1, <1>2, QuietInvariant, PTL DEF ImplementsPayout, Payout!Spec
-----------------------------------------------------------------------------
(***************************************************************************)
(* When nothing fails, an approval is paid or about to be, and a request   *)
(* that was paid says so in its row or is about to.                        *)
(***************************************************************************)
PaysAll == \A r \in Requests : transfers[r] + Cardinality(Pending(r)) = statuses[r]["APPROVED"]

MarksAll ==
  \A r \in Requests :
    transfers[r] > 0 =>
      r \in paid \/ \E h \in Handlers : handler[h].pc = "save.request" /\ handler[h].id = r

ReliableInv == PaysAll /\ MarksAll

ReliableNext == Step \/ Buy

(***************************************************************************)
(* A step of a handler that neither pays nor promises to.                  *)
(***************************************************************************)
LEMMA ReliableKeeps ==
  ASSUME WellFormed, ReliableInv, IsFiniteSet(Handlers), NEW h \in Handlers, NEW state, Goto(h, state),
         state.pc # "create.transfer", handler[h].pc # "create.transfer",
         UNCHANGED transfers, paid \subseteq paid',
         handler[h].pc = "save.request" => handler[h].id \in paid',
         \A r \in Requests : statuses'[r]["APPROVED"] = statuses[r]["APPROVED"]
  PROVE  ReliableInv'
<1>1. ASSUME NEW r \in Requests
      PROVE  transfers'[r] + Cardinality(Pending(r)') = statuses'[r]["APPROVED"]
  <2>1. ~ Paying(state, r) /\ ~ Paying(handler[h], r)
    BY DEF Paying
  <2>2. Cardinality(Pending(r)') = Cardinality(Pending(r)) /\ Cardinality(Pending(r)) \in Nat
    BY <2>1, PendingStep
  <2> QED BY <2>2 DEF ReliableInv, PaysAll
<1>2. ASSUME NEW r \in Requests, transfers'[r] > 0, r \notin paid'
      PROVE  \E g \in Handlers : handler'[g].pc = "save.request" /\ handler'[g].id = r
  <2>1. PICK g \in Handlers : handler[g].pc = "save.request" /\ handler[g].id = r
    BY <1>2 DEF ReliableInv, MarksAll
  <2>2. g # h
    BY <1>2, <2>1
  <2>3. handler'[g] = handler[g]
    BY <2>2 DEF Goto, WellFormed, TypeOK
  <2> QED BY <2>1, <2>3
<1> QED BY <1>1, <1>2 DEF ReliableInv, PaysAll, MarksAll

LEMMA CreatesReliably ==
  ASSUME WellFormed, ReliableInv, IsFiniteSet(Handlers), NEW h \in Handlers, Create(h)
  PROVE  ReliableInv'
<1>1. ASSUME NEW r \in Requests, NEW u \in Users, NEW amount \in Amounts, BeginCreate(h, r, u, amount)
      PROVE  ReliableInv'
  <2> DEFINE next == [pc |-> "create.request", id |-> r, requestedBy |-> u, amount |-> amount]
  <2>1. Goto(h, next) /\ next.pc = "create.request" /\ handler[h].pc = "idle" /\ UNCHANGED tables
    BY <1>1 DEF BeginCreate, Idle
  <2> HIDE DEF next
  <2> QED BY <2>1, ReliableKeeps DEF tables
<1>2. CASE SaveRequest(h)
  <2> DEFINE next == [pc |-> "create.status", id |-> handler[h].id]
  <2>1. Goto(h, next) /\ next.pc = "create.status" /\ UNCHANGED <<statuses, transfers, paid>>
    BY <1>2 DEF SaveRequest
  <2>2. handler[h].pc = "create.request"
    BY <1>2 DEF SaveRequest
  <2> HIDE DEF next
  <2> QED BY <2>1, <2>2, ReliableKeeps
<1>3. CASE SaveCreatedStatus(h)
  <2>1. handler[h].id \in Requests
    BY <1>3, CreatingType DEF SaveCreatedStatus, WellFormed
  <2>2. \A r \in Requests : statuses'[r]["APPROVED"] = statuses[r]["APPROVED"]
    BY <1>3, <2>1 DEF SaveCreatedStatus, WellFormed, TypeOK, States
  <2>3. Goto(h, Idle) /\ UNCHANGED <<transfers, paid>> /\ handler[h].pc = "create.status"
    BY <1>3 DEF SaveCreatedStatus
  <2>4. Idle.pc = "idle"
    BY DEF Idle
  <2> QED BY <2>2, <2>3, <2>4, ReliableKeeps
<1> QED BY <1>1, <1>2, <1>3 DEF Create

LEMMA UpdatesReliably ==
  ASSUME WellFormed, PaidInv, ReliableInv, IsFiniteSet(Handlers), NEW h \in Handlers, Update(h)
  PROVE  ReliableInv'
<1> DEFINE id == handler[h].id
           state == handler[h].state
<1>1. ASSUME NEW r \in Requests, NEW s \in States, BeginUpdate(h, r, s)
      PROVE  ReliableInv'
  <2> DEFINE next == [pc |-> "verify", id |-> r, state |-> s]
  <2>1. Goto(h, next) /\ next.pc = "verify" /\ handler[h].pc = "idle" /\ UNCHANGED tables
    BY <1>1 DEF BeginUpdate, Idle
  <2> HIDE DEF next
  <2> QED BY <2>1, ReliableKeeps DEF tables
<1>2. CASE Verify(h)
  <2>1. handler[h] \in [pc : Updating, id : Requests, state : States]
    BY <1>2, UpdatingType DEF Verify, Updating, WellFormed
  <2>2. PICK next : Goto(h, next) /\ next.pc # "create.transfer"
    BY <1>2, <2>1 DEF Verify, Idle
  <2>3. handler[h].pc \in {"verify", "verify.again"} /\ UNCHANGED tables
    BY <1>2 DEF Verify
  <2> QED BY <2>2, <2>3, ReliableKeeps DEF tables
<1>3. CASE SavePaidRequest(h)
  <2>1. Goto(h, Idle) /\ UNCHANGED <<transfers, statuses>> /\ paid' = paid \cup {id}
    BY <1>3 DEF SavePaidRequest
  <2>2. Idle.pc = "idle" /\ handler[h].pc = "save.request"
    BY <1>3 DEF Idle, SavePaidRequest
  <2> QED BY <2>1, <2>2, ReliableKeeps
<1>4. CASE SaveStatus(h) \/ CreateTransfer(h)
  <2>1. handler[h] \in [pc : Updating, id : Requests, state : States] /\ id \in Requests /\ state \in States
    BY <1>4, UpdatingType DEF SaveStatus, CreateTransfer, Updating, WellFormed
  <2>2. CASE SaveStatus(h)
    <3>1. \A r \in Requests : /\ statuses[r]["APPROVED"] \in Nat
                              /\ statuses'[r]["APPROVED"] = statuses[r]["APPROVED"]
                                   + (IF r = id /\ state = "APPROVED" THEN 1 ELSE 0)
      <4>1. statuses' = [statuses EXCEPT ![id][state] = @ + 1]
        BY <2>2 DEF SaveStatus
      <4>2. "APPROVED" \in States
        BY DEF States
      <4> HIDE DEF id, state
      <4> QED BY <2>1, <4>1, <4>2 DEF WellFormed, TypeOK
    <3>2. CASE state # "APPROVED"
      <4>1. Goto(h, Idle) /\ UNCHANGED <<transfers, paid>> /\ handler[h].pc = "save.status"
        BY <2>2, <3>2 DEF SaveStatus
      <4>2. Idle.pc = "idle"
        BY DEF Idle
      <4>3. \A r \in Requests : statuses'[r]["APPROVED"] = statuses[r]["APPROVED"]
        BY <3>1, <3>2
      <4> QED BY <4>1, <4>2, <4>3, ReliableKeeps
    <3>3. CASE state = "APPROVED"
      <4> DEFINE next == [handler[h] EXCEPT !.pc = "create.transfer"]
      <4>1. Goto(h, next) /\ UNCHANGED <<transfers, paid>> /\ handler[h].pc = "save.status"
        BY <2>2, <3>3 DEF SaveStatus
      <4>2. next.pc = "create.transfer" /\ next.id = id
        BY <2>1
      <4>3. ASSUME NEW r \in Requests
            PROVE  transfers'[r] + Cardinality(Pending(r)') = statuses'[r]["APPROVED"]
        <5>1. ~ Paying(handler[h], r) /\ (Paying(next, r) <=> r = id)
          BY <4>1, <4>2 DEF Paying
        <5>2. /\ Cardinality(Pending(r)) \in Nat
              /\ Cardinality(Pending(r)') = Cardinality(Pending(r)) + (IF r = id THEN 1 ELSE 0)
          <6> HIDE DEF next
          <6> QED BY <4>1, <5>1, PendingStep
        <5>3. transfers[r] + Cardinality(Pending(r)) = statuses[r]["APPROVED"] /\ transfers[r] \in Nat
          BY DEF ReliableInv, PaysAll, WellFormed, TypeOK
        <5>4. transfers'[r] = transfers[r]
          BY <4>1
        <5>5. statuses'[r]["APPROVED"] = statuses[r]["APPROVED"] + (IF r = id THEN 1 ELSE 0)
          BY <3>1, <3>3
        <5> HIDE DEF id
        <5> QED BY <5>2, <5>3, <5>4, <5>5
      <4>4. MarksAll'
        <5>1. \A g \in Handlers : handler[g].pc = "save.request" => handler'[g] = handler[g]
          BY <4>1 DEF Goto, WellFormed, TypeOK
        <5> QED BY <4>1, <5>1 DEF ReliableInv, MarksAll
      <4> QED BY <4>3, <4>4 DEF ReliableInv, PaysAll
    <3> QED BY <3>2, <3>3
  <2>3. CASE CreateTransfer(h)
    <3> DEFINE next == [handler[h] EXCEPT !.pc = "save.request"]
    <3>1. Goto(h, next) /\ UNCHANGED <<statuses, paid>> /\ handler[h].pc = "create.transfer"
      BY <2>3 DEF CreateTransfer
    <3>2. next.pc = "save.request" /\ next.id = id
      BY <2>1
    <3>3. \A r \in Requests : transfers[r] \in Nat /\ transfers'[r] = transfers[r] + (IF r = id THEN 1 ELSE 0)
      BY <2>3 DEF CreateTransfer, WellFormed, TypeOK
    <3>4. ASSUME NEW r \in Requests
          PROVE  transfers'[r] + Cardinality(Pending(r)') = statuses'[r]["APPROVED"]
      <4>1. (Paying(handler[h], r) <=> r = id) /\ ~ Paying(next, r)
        BY <3>1, <3>2 DEF Paying
      <4>2. /\ Cardinality(Pending(r)) \in Nat
            /\ Cardinality(Pending(r)') = Cardinality(Pending(r)) - (IF r = id THEN 1 ELSE 0)
        <5> HIDE DEF next
        <5> QED BY <3>1, <4>1, PendingStep
      <4>3. transfers[r] + Cardinality(Pending(r)) = statuses[r]["APPROVED"]
        BY DEF ReliableInv, PaysAll
      <4>4. statuses'[r] = statuses[r]
        BY <3>1
      <4> HIDE DEF id
      <4> QED BY <3>3, <4>2, <4>3, <4>4
    <3>5. handler'[h].pc = "save.request" /\ handler'[h].id = id
      <4>1. handler'[h] = next
        BY <3>1 DEF Goto, WellFormed, TypeOK
      <4> QED BY <3>2, <4>1
    <3>6. \A g \in Handlers : handler[g].pc = "save.request" => handler'[g] = handler[g]
      BY <3>1 DEF Goto, WellFormed, TypeOK
    <3>7. MarksAll'
      <4> HIDE DEF id
      <4> QED BY <3>1, <3>3, <3>5, <3>6 DEF ReliableInv, MarksAll
    <3> QED BY <3>4, <3>7 DEF ReliableInv, PaysAll
  <2> QED BY <1>4, <2>2, <2>3
<1> QED BY <1>1, <1>2, <1>3, <1>4 DEF Update

(***************************************************************************)
(* As long as no handler dies half way, whoever else is deciding: once     *)
(* nobody works on a request, it was paid for each approval it has, and    *)
(* its row says so.                                                        *)
(***************************************************************************)
THEOREM ApprovedIsPaidAlways ==
  ASSUME IsFiniteSet(Handlers)
  PROVE  ReliableSpec => []ApprovedIsPaid
<1> DEFINE Inv == WellFormed /\ PaidInv /\ ReliableInv
<1>1. Init => Inv
  <2> SUFFICES ASSUME Init PROVE Inv
    OBVIOUS
  <2>1. WellFormed
    BY InitType DEF Init, WellFormed, MadeInv, Idle, Updating
  <2>2. \A r \in Requests : Pending(r) = {}
    BY DEF Init, Pending, Paying, Idle
  <2>3. \A r \in Requests : transfers[r] = 0 /\ statuses[r]["APPROVED"] = 0
    BY DEF Init, States
  <2>4. \A r \in Requests : Cardinality(Pending(r)) = 0
    BY <2>2, FS_EmptySet
  <2>5. PaysAll /\ MarksAll
    BY <2>3, <2>4 DEF PaysAll, MarksAll
  <2> QED BY <2>1, <2>5, InitPaid DEF ReliableInv
<1>2. Inv /\ [ReliableNext]_vars => Inv'
  <2> SUFFICES ASSUME Inv, [ReliableNext]_vars PROVE Inv'
    OBVIOUS
  <2>1. [Next]_vars
    BY DEF ReliableNext, Next
  <2>2. WellFormed' /\ PaidInv'
    BY <2>1, NextType, NextMade, NextPaid DEF WellFormed
  <2>3. ASSUME NEW h \in Handlers, Create(h) \/ Update(h) PROVE ReliableInv'
    BY <2>3, CreatesReliably, UpdatesReliably
  <2>4. ASSUME Buy \/ UNCHANGED vars PROVE ReliableInv'
    <3>1. UNCHANGED <<statuses, transfers, paid, handler>>
      BY <2>4 DEF Buy, Spend, vars
    <3>2. \A r \in Requests : Pending(r)' = Pending(r)
      BY <3>1 DEF Pending
    <3>3. PaysAll' /\ MarksAll'
      BY <3>1, <3>2 DEF ReliableInv, PaysAll, MarksAll
    <3> QED BY <3>3 DEF ReliableInv
  <2>5. ReliableInv'
    BY <2>3, <2>4 DEF ReliableNext, Step
  <2> QED BY <2>2, <2>5
<1>3. Inv => ApprovedIsPaid
  <2> SUFFICES ASSUME Inv, NEW r \in Requests, Settled(r)
               PROVE  transfers[r] = statuses[r]["APPROVED"] /\ (r \in paid <=> transfers[r] > 0)
    BY DEF ApprovedIsPaid
  <2>1. \A h \in Handlers : handler[h].pc \in Updating => handler[h].id # r
    BY DEF Settled, Idle, Updating
  <2>2. Pending(r) = {} /\ ~ \E h \in Handlers : handler[h].pc = "save.request" /\ handler[h].id = r
    BY <2>1 DEF Pending, Paying, Updating
  <2>3. transfers[r] \in Nat /\ transfers[r] + 0 = statuses[r]["APPROVED"]
    BY <2>2, FS_EmptySet DEF ReliableInv, PaysAll, WellFormed, TypeOK
  <2> QED BY <2>2, <2>3 DEF ReliableInv, MarksAll, PaidInv
<1>4. ReliableSpec <=> Init /\ [][ReliableNext]_vars
  BY DEF ReliableSpec, ReliableNext
<1> HIDE DEF Inv
<1> QED BY <1>1, <1>2, <1>3, <1>4, PTL
=============================================================================
