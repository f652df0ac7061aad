---------------------------- MODULE PayoutRequest ----------------------------
(***************************************************************************)
(* Payout requests (src/service/payout-request-service.ts and its          *)
(* controller): a user asks to withdraw money, which is then approved or   *)
(* denied by an administrator or canceled by the user.  A decision is a    *)
(* row in the log of statuses; an approval also takes the money out with a *)
(* transfer.  No database transaction is used: every await is a step, with *)
(* other requests, and other spending, in between.                         *)
(***************************************************************************)
EXTENDS Integers

CONSTANTS
  Users,
  Requests,      \* payout requests, made or still to be made
  Handlers,      \* HTTP requests being handled
  MaxAmount,     \* bound on the amount of a request and on other movements
  Balance        \* the balance every user starts with

ASSUME PayoutRequestAssumption == MaxAmount \in Nat /\ Balance \in Int

VARIABLES
  request,     \* the rows of payout_request
  statuses,    \* per request and state, how many rows of payout_request_status
  transfers,   \* per request, how many transfers were made for it
  paid,        \* the requests whose row names a transfer and an approver
  balance,     \* what getBalance answers per user
  handler      \* the HTTP requests being handled

tables == <<request, statuses, transfers, paid, balance>>
vars   == <<request, statuses, transfers, paid, balance, handler>>

Amounts == 1 .. MaxAmount

States == {"CREATED", "APPROVED", "DENIED", "CANCELLED"}

Decisions == {"APPROVED", "DENIED", "CANCELLED"}

NoRequest == [made |-> FALSE]

Request == [made : {TRUE}, requestedBy : Users, amount : Amounts]

(***************************************************************************)
(* Where a handler waits: before the row and the first status of a new     *)
(* request, or before the steps of an update to `state`.                   *)
(***************************************************************************)
Idle == [pc |-> "idle"]

Handler ==
       {Idle}
  \cup [pc : {"create.request"}, id : Requests, requestedBy : Users, amount : Amounts]
  \cup [pc : {"create.status"}, id : Requests]
  \cup [pc : {"verify", "verify.again", "save.status", "create.transfer", "save.request"},
        id : Requests, state : States]

TypeOK ==
  /\ request \in [Requests -> {NoRequest} \cup Request]
  /\ statuses \in [Requests -> [States -> Nat]]
  /\ transfers \in [Requests -> Nat]
  /\ paid \subseteq Requests
  /\ balance \in [Users -> Int]
  /\ handler \in [Handlers -> Handler]

Init ==
  /\ request = [r \in Requests |-> NoRequest]
  /\ statuses = [r \in Requests |-> [state \in States |-> 0]]
  /\ transfers = [r \in Requests |-> 0]
  /\ paid = {}
  /\ balance = [u \in Users |-> Balance]
  /\ handler = [h \in Handlers |-> Idle]

Goto(h, state) == handler' = [handler EXCEPT ![h] = state]

Made(r) == request[r] # NoRequest
-----------------------------------------------------------------------------
(***************************************************************************)
(* POST /payoutrequests: the balance is read and compared, the row saved,  *)
(* then its first status.  That no other handler holds r stands for the    *)
(* auto-increment id, which the insert hands out.                          *)
(***************************************************************************)
BeginCreate(h, r, u, amount) ==
  /\ handler[h] = Idle
  /\ ~ Made(r) /\ \A g \in Handlers : handler[g] # Idle => handler[g].id # r
  /\ balance[u] >= amount
  /\ Goto(h, [pc |-> "create.request", id |-> r, requestedBy |-> u, amount |-> amount])
  /\ UNCHANGED tables

\* Mutant of SaveRequest: the amount is not copied.
SaveRequest_NoAmount(h) ==
  /\ handler[h].pc = "create.request"
  /\ request' = [request EXCEPT ![handler[h].id] =
                   [made |-> TRUE, requestedBy |-> handler[h].requestedBy]]
  /\ Goto(h, [pc |-> "create.status", id |-> handler[h].id])
  /\ UNCHANGED <<statuses, transfers, paid, balance>>

SaveRequest(h) ==
  LET new == handler[h]
  IN  /\ handler[h].pc = "create.request"
      /\ request' = [request EXCEPT ![new.id] =
                       [made |-> TRUE, requestedBy |-> new.requestedBy, amount |-> new.amount]]
      /\ Goto(h, [pc |-> "create.status", id |-> new.id])
      /\ UNCHANGED <<statuses, transfers, paid, balance>>

SaveCreatedStatus(h) ==
  /\ handler[h].pc = "create.status"
  /\ statuses' = [statuses EXCEPT ![handler[h].id]["CREATED"] = @ + 1]
  /\ Goto(h, Idle)
  /\ UNCHANGED <<request, transfers, paid, balance>>
-----------------------------------------------------------------------------
(***************************************************************************)
(* POST /payoutrequests/:id/status.  For an approval the balance of the    *)
(* requester is read and compared first; cancelling is for the requester,  *)
(* everything else for administrators, who are not modelled.               *)
(***************************************************************************)
Covered_Positive(r) == balance[request[r].requestedBy] >= 0          \* mutant of Covered

Covered(r) == balance[request[r].requestedBy] >= request[r].amount

BeginUpdate(h, r, state) ==
  /\ handler[h] = Idle
  /\ Made(r)
  /\ state = "APPROVED" => Covered(r)
  /\ Goto(h, [pc |-> "verify", id |-> r, state |-> state])
  /\ UNCHANGED tables

(***************************************************************************)
(* canUpdateStatus: a new state, and no other decision before a decision.  *)
(***************************************************************************)
StatesOf(r) == {state \in States : statuses[r][state] > 0}

canUpdateStatus_NotCancelled(r, state) ==        \* mutant of canUpdateStatus
  /\ state \notin StatesOf(r)
  /\ state \in Decisions => StatesOf(r) \cap (Decisions \ {"CANCELLED"}) = {}

canUpdateStatus(r, state) ==
  /\ state \notin StatesOf(r)
  /\ state \in Decisions => StatesOf(r) \cap Decisions = {}

(***************************************************************************)
(* The controller calls it, and then updateStatus calls it again.          *)
(***************************************************************************)
Verify(h) ==
  /\ handler[h].pc \in {"verify", "verify.again"}
  /\ Goto(h, IF canUpdateStatus(handler[h].id, handler[h].state)
             THEN [handler[h] EXCEPT !.pc = IF @ = "verify" THEN "verify.again" ELSE "save.status"]
             ELSE Idle)
  /\ UNCHANGED tables

\* Mutants of SaveStatus: a denial is paid as well, an approval is not.
SaveStatus_PaysDenied(h) ==
  LET update == handler[h]
  IN  /\ update.pc = "save.status"
      /\ statuses' = [statuses EXCEPT ![update.id][update.state] = @ + 1]
      /\ Goto(h, IF update.state \in {"APPROVED", "DENIED"}
                 THEN [update EXCEPT !.pc = "create.transfer"] ELSE Idle)
      /\ UNCHANGED <<request, transfers, paid, balance>>

SaveStatus_NoTransfer(h) ==
  /\ handler[h].pc = "save.status"
  /\ statuses' = [statuses EXCEPT ![handler[h].id][handler[h].state] = @ + 1]
  /\ Goto(h, Idle)
  /\ UNCHANGED <<request, transfers, paid, balance>>

SaveStatus(h) ==
  LET update == handler[h]
  IN  /\ update.pc = "save.status"
      /\ statuses' = [statuses EXCEPT ![update.id][update.state] = @ + 1]
      /\ Goto(h, IF update.state = "APPROVED" THEN [update EXCEPT !.pc = "create.transfer"] ELSE Idle)
      /\ UNCHANGED <<request, transfers, paid, balance>>

(***************************************************************************)
(* The transfer takes the money, whatever the balance has become.          *)
(***************************************************************************)
CreateTransfer(h) ==
  LET r == handler[h].id
  IN  /\ handler[h].pc = "create.transfer"
      /\ transfers' = [transfers EXCEPT ![r] = @ + 1]
      /\ balance' = [balance EXCEPT ![request[r].requestedBy] = @ - request[r].amount]
      /\ Goto(h, [handler[h] EXCEPT !.pc = "save.request"])
      /\ UNCHANGED <<request, statuses, paid>>

SavePaidRequest(h) ==
  /\ handler[h].pc = "save.request"
  /\ paid' = paid \cup {handler[h].id}
  /\ Goto(h, Idle)
  /\ UNCHANGED <<request, statuses, transfers, balance>>

(***************************************************************************)
(* The process of a handler dies or a statement of it fails.               *)
(***************************************************************************)
Crash(h) == handler[h] # Idle /\ Goto(h, Idle) /\ UNCHANGED tables

(***************************************************************************)
(* A purchase of a user who cannot go into debt, as one step.              *)
(***************************************************************************)
Spend(u, amount) ==
  /\ balance[u] >= amount
  /\ balance' = [balance EXCEPT ![u] = @ - amount]
  /\ UNCHANGED <<request, statuses, transfers, paid, handler>>
-----------------------------------------------------------------------------
Create(h) ==
  \/ \E r \in Requests, u \in Users, amount \in Amounts : BeginCreate(h, r, u, amount)
  \/ SaveRequest(h) \/ SaveCreatedStatus(h)

Update(h) ==
  \/ \E r \in Requests, state \in States : BeginUpdate(h, r, state)
  \/ Verify(h) \/ SaveStatus(h) \/ CreateTransfer(h) \/ SavePaidRequest(h)

AtRest == \A h \in Handlers : handler[h] = Idle

Buy == \E u \in Users, amount \in Amounts : Spend(u, amount)

Step == \E h \in Handlers : Create(h) \/ Update(h)

(***************************************************************************)
(* Everything; nothing fails; and purchases only while no payout request   *)
(* is being handled.                                                       *)
(***************************************************************************)
Next == Step \/ Buy \/ \E h \in Handlers : Crash(h)

Spec == Init /\ [][Next]_vars

ReliableSpec == Init /\ [][Step \/ Buy]_vars

QuietSpec == Init /\ [][Step \/ (AtRest /\ Buy) \/ \E h \in Handlers : Crash(h)]_vars
-----------------------------------------------------------------------------
(***************************************************************************)
(* Money leaves a user only for a request with a status APPROVED, once for *)
(* each such status, whatever crashes and whoever else is deciding.        *)
(***************************************************************************)
PaidIsApproved ==
  \A r \in Requests : /\ transfers[r] <= statuses[r]["APPROVED"]
                      /\ r \in paid => transfers[r] > 0

(***************************************************************************)
(* Once no handler works on a request, it was paid for each approval, and  *)
(* its row says so.  Needs handlers that run to their end.                 *)
(***************************************************************************)
Settled(r) == \A h \in Handlers : handler[h] # Idle => handler[h].id # r

ApprovedIsPaid ==
  \A r \in Requests :
    Settled(r) => /\ transfers[r] = statuses[r]["APPROVED"]
                  /\ r \in paid <=> transfers[r] > 0

(***************************************************************************)
(* A request gets one decision, once.                                      *)
(***************************************************************************)
OneDecision ==
  \A r \in Requests : /\ \A state \in Decisions : statuses[r][state] <= 1
                      /\ \A s, t \in StatesOf(r) \cap Decisions : s = t

(***************************************************************************)
(* A payout never takes more than the user has.                            *)
(***************************************************************************)
NeverOverdrawn == \A u \in Users : balance[u] >= 0

(***************************************************************************)
(* One handler at a time implements a single decision per request, taken   *)
(* together with the money: a request counts as approved once it is paid.  *)
(***************************************************************************)
Outcome(r) ==
  IF ~ Made(r) THEN "none"
  ELSE IF transfers[r] > 0 THEN "approved"
  ELSE IF statuses[r]["DENIED"] > 0 THEN "denied"
  ELSE IF statuses[r]["CANCELLED"] > 0 THEN "cancelled" ELSE "open"

Payout == INSTANCE Payout WITH outcome <- [r \in Requests |-> Outcome(r)]

ImplementsPayout == Payout!Spec
=============================================================================
