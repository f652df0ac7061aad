---------------------------- MODULE StripeDeposit ----------------------------
(***************************************************************************)
(* Top-ups through Stripe (src/service/stripe-service.ts and the webhook   *)
(* controller): a payment intent is made at Stripe and stored, Stripe      *)
(* reports what becomes of it in webhook events, and the event of success  *)
(* credits the user.  Stripe delivers an event at least once, in any       *)
(* order, until it is acknowledged; the controller acknowledges before the *)
(* event is handled, in a database transaction of its own.                 *)
(***************************************************************************)
EXTENDS Naturals

CONSTANTS
  Intents,             \* payment intents, each with one deposit
  Handlers,            \* webhook requests being handled
  SnapshotIsolation    \* innodb_snapshot_isolation of the database: an update
                       \* of a row that changed after the transaction's first
                       \* read fails and rolls the transaction back

ASSUME SnapshotIsolationAssumption == SnapshotIsolation \in BOOLEAN

VARIABLES
  emitted,     \* per intent, the types of the events Stripe has sent out
  acked,       \* the events answered with 204: <<intent, type>>
  stored,      \* the intents with a row in stripe_payment_intent
  deposit,     \* per intent, the version of its deposit row, 0 without one:
               \* saved at 1, and once more for every transfer linked to it
  statuses,    \* per intent and state, how many status rows there are
  transfers,   \* per intent, how many transfers credited its user
  handler      \* the webhook requests being handled

vars == <<emitted, acked, stored, deposit, statuses, transfers, handler>>

Types == {"created", "processing", "succeeded", "payment_failed", "canceled"}

States == {"CREATED", "PROCESSING", "SUCCEEDED", "FAILED"}

StateOf == [created |-> "CREATED", processing |-> "PROCESSING", succeeded |-> "SUCCEEDED",
            payment_failed |-> "FAILED", canceled |-> "FAILED"]

Idle == [pc |-> "idle"]

(***************************************************************************)
(* "received": acknowledged, the transaction not begun.  "loaded": with    *)
(* the states and the version of the deposit that its first read saw.      *)
(***************************************************************************)
Handler ==
       {Idle}
  \cup [pc : {"received"}, intent : Intents, state : States]
  \cup [pc : {"loaded"}, intent : Intents, state : States, seen : SUBSET States, version : Nat]

TypeOK ==
  /\ emitted \in [Intents -> SUBSET Types]
  /\ acked \subseteq Intents \X Types
  /\ stored \subseteq Intents
  /\ deposit \in [Intents -> Nat]
  /\ statuses \in [Intents -> [States -> Nat]]
  /\ transfers \in [Intents -> Nat]
  /\ handler \in [Handlers -> Handler]

Init ==
  /\ emitted = [i \in Intents |-> {}]
  /\ acked = {}
  /\ stored = {}
  /\ deposit = [i \in Intents |-> 0]
  /\ statuses = [i \in Intents |-> [state \in States |-> 0]]
  /\ transfers = [i \in Intents |-> 0]
  /\ handler = [h \in Handlers |-> Idle]
-----------------------------------------------------------------------------
(***************************************************************************)
(* createStripePaymentIntent: the call to Stripe, then two saves outside a *)
(* database transaction.  A process that dies leaves it half done.         *)
(***************************************************************************)
CreateAtStripe(i) ==
  /\ emitted[i] = {}
  /\ emitted' = [emitted EXCEPT ![i] = {"created"}]
  /\ UNCHANGED <<acked, stored, deposit, statuses, transfers, handler>>

SavePaymentIntent(i) ==
  /\ emitted[i] # {} /\ i \notin stored
  /\ stored' = stored \cup {i}
  /\ UNCHANGED <<emitted, acked, deposit, statuses, transfers, handler>>

SaveDeposit(i) ==
  /\ i \in stored /\ deposit[i] = 0
  /\ deposit' = [deposit EXCEPT ![i] = 1]
  /\ UNCHANGED <<emitted, acked, stored, statuses, transfers, handler>>

(***************************************************************************)
(* Stripe.  The client needs the secret, returned after the deposit is     *)
(* saved, to pay.  A failed attempt can be followed by another one; an     *)
(* intent that succeeded or was canceled has ended.                        *)
(***************************************************************************)
Emit(i, type) ==
  /\ type \notin emitted[i] /\ "created" \in emitted[i]
  /\ emitted[i] \cap {"succeeded", "canceled"} = {}
  /\ type # "canceled" => deposit[i] > 0
  /\ emitted' = [emitted EXCEPT ![i] = @ \cup {type}]
  /\ UNCHANGED <<acked, stored, deposit, statuses, transfers, handler>>
-----------------------------------------------------------------------------
(***************************************************************************)
(* StripeWebhookController.handleWebhookEvent: 400, and so a redelivery,   *)
(* while the intent is not stored; otherwise 204 and the handling is left  *)
(* running.  An acknowledged event may be delivered again all the same.    *)
(***************************************************************************)
\* Mutant of Receive: the type of the event is kept instead of the state.
Receive_RawType(h, i, type) ==
  /\ type \in emitted[i] /\ i \in stored
  /\ handler[h] = Idle
  /\ acked' = acked \cup {<<i, type>>}
  /\ handler' = [handler EXCEPT ![h] = [pc |-> "received", intent |-> i, state |-> type]]
  /\ UNCHANGED <<emitted, stored, deposit, statuses, transfers>>

Receive(h, i, type) ==
  /\ type \in emitted[i] /\ i \in stored
  /\ handler[h] = Idle
  /\ acked' = acked \cup {<<i, type>>}
  /\ handler' = [handler EXCEPT ![h] = [pc |-> "received", intent |-> i, state |-> StateOf[type]]]
  /\ UNCHANGED <<emitted, stored, deposit, statuses, transfers>>

(***************************************************************************)
(* The checks of createNewPaymentIntentStatus on the statuses it loaded.   *)
(***************************************************************************)
\* Mutants of Admissible: no check of the other outcome, and a success is
\* expected after the processing.
Admissible_NoOutcomeCheck(state, seen) == state \notin seen

Admissible_InOrder(state, seen) ==
  /\ state \notin seen
  /\ state = "SUCCEEDED" => "FAILED" \notin seen /\ "PROCESSING" \in seen
  /\ state = "FAILED" => "SUCCEEDED" \notin seen

Admissible(state, seen) ==
  /\ state \notin seen
  /\ state = "SUCCEEDED" => "FAILED" \notin seen
  /\ state = "FAILED" => "SUCCEEDED" \notin seen

StatesOf(i) == {state \in States : statuses[i][state] > 0}

(***************************************************************************)
(* The first read of the transaction; a refused state throws, the throw is *)
(* caught and logged, and the transaction commits nothing.                 *)
(***************************************************************************)
Load(h) ==
  LET i == handler[h].intent
  IN  /\ handler[h].pc = "received"
      /\ handler' = [handler EXCEPT ![h] =
           IF Admissible(handler[h].state, StatesOf(i))
           THEN [pc |-> "loaded", intent |-> i, state |-> handler[h].state,
                 seen |-> StatesOf(i), version |-> deposit[i]]
           ELSE Idle]
      /\ UNCHANGED <<emitted, acked, stored, deposit, statuses, transfers>>

(***************************************************************************)
(* The writes of the transaction, visible to others together when it       *)
(* commits: the status, then for a success with a deposit the transfer and *)
(* the link to it.                                                         *)
(***************************************************************************)
Credits_AnyState(h) == handler[h].version > 0      \* mutant of Credits

Credits(h) == handler[h].state = "SUCCEEDED" /\ handler[h].version > 0

SaveStatus(h) == statuses' = [statuses EXCEPT ![handler[h].intent][handler[h].state] = @ + 1]

CreateTransfer(h) == transfers' = [transfers EXCEPT ![handler[h].intent] = @ + 1]

LinkTransfer_Forgotten(h) == UNCHANGED deposit     \* mutant of LinkTransfer

LinkTransfer(h) == deposit' = [deposit EXCEPT ![handler[h].intent] = @ + 1]

CanLink_Always(h) == TRUE                          \* mutant of CanLink

CanLink(h) == SnapshotIsolation => deposit[handler[h].intent] = handler[h].version

End(h) ==
  /\ handler[h].pc = "loaded"
  /\ handler' = [handler EXCEPT ![h] = Idle]
  /\ UNCHANGED <<emitted, acked, stored>>

Commit(h) ==
  /\ End(h)
  /\ SaveStatus(h)
  /\ IF Credits(h)
     THEN CanLink(h) /\ CreateTransfer(h) /\ LinkTransfer(h)
     ELSE UNCHANGED <<deposit, transfers>>

(***************************************************************************)
(* A statement after the status fails without ending the transaction (a    *)
(* lock wait timeout, an error of a subscriber of the transfer): the error *)
(* is caught inside the transaction, which commits what it has.            *)
(***************************************************************************)
CommitPart(h) ==
  /\ End(h)
  /\ Credits(h)
  /\ SaveStatus(h)
  /\ CreateTransfer(h) \/ UNCHANGED transfers
  /\ UNCHANGED deposit

(***************************************************************************)
(* The process dies, the database picks the transaction as the victim of a *)
(* deadlock, or another transaction changed the deposit: nothing is left   *)
(* of the event, which was acknowledged.                                   *)
(***************************************************************************)
Conflict(h) ==
  /\ End(h)
  /\ Credits(h) /\ ~ CanLink(h)
  /\ UNCHANGED <<deposit, statuses, transfers>>

Rollback(h) ==
  /\ handler[h] # Idle
  /\ handler' = [handler EXCEPT ![h] = Idle]
  /\ UNCHANGED <<emitted, acked, stored, deposit, statuses, transfers>>
-----------------------------------------------------------------------------
Pay(i) ==
  \/ CreateAtStripe(i) \/ SavePaymentIntent(i) \/ SaveDeposit(i)
  \/ \E type \in Types : Emit(i, type)

Handle(h) ==
  \/ \E i \in Intents, type \in Types : Receive(h, i, type)
  \/ Load(h) \/ Commit(h) \/ Conflict(h)

(***************************************************************************)
(* Every transaction commits; or it commits or is rolled back as a whole;  *)
(* or all that can happen.                                                 *)
(***************************************************************************)
NextReliable == (\E i \in Intents : Pay(i)) \/ (\E h \in Handlers : Handle(h))

NextAtomic == NextReliable \/ \E h \in Handlers : Rollback(h)

Next == NextAtomic \/ \E h \in Handlers : CommitPart(h)

Spec == Init /\ [][Next]_vars

AtomicSpec == Init /\ [][NextAtomic]_vars

(***************************************************************************)
(* Stripe delivers until an event is acknowledged, and a handling that was *)
(* started runs on: nothing else is fair.                                  *)
(***************************************************************************)
Deliver(i, type) == <<i, type>> \notin acked /\ \E h \in Handlers : Receive(h, i, type)

Fairness ==
  /\ \A i \in Intents, type \in Types : SF_vars(Deliver(i, type))
  /\ \A h \in Handlers : WF_vars(Load(h) \/ Commit(h) \/ Conflict(h))

ReliableSpec == Init /\ [][NextReliable]_vars /\ Fairness
-----------------------------------------------------------------------------
(***************************************************************************)
(* Whatever fails, nobody is credited without a recorded success, and no   *)
(* success is recorded that Stripe did not report.                         *)
(***************************************************************************)
CreditIsBacked ==
  \A i \in Intents : /\ transfers[i] <= statuses[i]["SUCCEEDED"]
                     /\ statuses[i]["SUCCEEDED"] > 0 => "succeeded" \in emitted[i]

(***************************************************************************)
(* A payment is credited at most once, however often, and however many     *)
(* times at once, its event is delivered.                                  *)
(***************************************************************************)
CreditedOnce == \A i \in Intents : transfers[i] <= 1

(***************************************************************************)
(* An intent has at most one status of each state and does not both        *)
(* succeed and fail.                                                       *)
(***************************************************************************)
OneOutcome ==
  \A i \in Intents : /\ \A state \in States : statuses[i][state] <= 1
                     /\ {"SUCCEEDED", "FAILED"} \cap StatesOf(i) # {"SUCCEEDED", "FAILED"}

(***************************************************************************)
(* The status, the transfer and the link are written together: a deposit   *)
(* whose intent succeeded has its transfer.                                *)
(***************************************************************************)
SuccessIsCredited ==
  \A i \in Intents : /\ statuses[i]["SUCCEEDED"] = transfers[i]
                     /\ transfers[i] > 0 <=> deposit[i] > 1

(***************************************************************************)
(* A payment that succeeded is credited in the end; the second form leaves *)
(* out payments that had a failed attempt before.                          *)
(***************************************************************************)
PaidIsCredited == \A i \in Intents : "succeeded" \in emitted[i] ~> transfers[i] > 0

FirstAttemptIsCredited ==
  \A i \in Intents :
    "succeeded" \in emitted[i] /\ "payment_failed" \notin emitted[i] ~> transfers[i] > 0
=============================================================================
