------------------------ MODULE StripeDeposit_proofs ------------------------
(***************************************************************************)
(* What holds of Stripe deposits for any number of intents and of webhook  *)
(* requests at once.                                                       *)
(***************************************************************************)
EXTENDS StripeDeposit, TLAPS

(***************************************************************************)
(* Every step keeps the types.                                             *)
(***************************************************************************)
LEMMA InitType == Init => TypeOK
BY DEF Init, TypeOK, Handler, Idle

LEMMA NextType == TypeOK /\ [Next]_vars => TypeOK'
<1> SUFFICES ASSUME TypeOK, [Next]_vars PROVE TypeOK'
  OBVIOUS
<1> USE DEF TypeOK
<1>1. ASSUME NEW i \in Intents, Pay(i) PROVE TypeOK'
  <2>1. CASE CreateAtStripe(i)
    BY <2>1 DEF CreateAtStripe, Types
  <2>2. CASE SavePaymentIntent(i)
    BY <2>2 DEF SavePaymentIntent
  <2>3. CASE SaveDeposit(i)
    BY <2>3 DEF SaveDeposit
  <2>4. ASSUME NEW type \in Types, Emit(i, type) PROVE TypeOK'
    BY <2>4 DEF Emit
  <2> QED BY <1>1, <2>1, <2>2, <2>3, <2>4 DEF Pay
<1>2. ASSUME NEW h \in Handlers, NEW i \in Intents, NEW type \in Types, Receive(h, i, type)
      PROVE  TypeOK'
  <2>1. StateOf[type] \in States
    BY DEF StateOf, Types, States
  <2>2. [pc |-> "received", intent |-> i, state |-> StateOf[type]] \in Handler
    BY <2>1 DEF Handler
  <2> QED BY <1>2, <2>2 DEF Receive
<1>3. ASSUME NEW h \in Handlers, Load(h) PROVE TypeOK'
  <2>1. /\ handler[h] \in [pc : {"received"}, intent : Intents, state : States]
        /\ handler[h].intent \in Intents /\ handler[h].state \in States
    BY <1>3 DEF Load, Handler, Idle
  <2> DEFINE i == handler[h].intent
             loaded == [pc |-> "loaded", intent |-> i, state |-> handler[h].state,
                        seen |-> StatesOf(i), version |-> deposit[i]]
  <2>2. StatesOf(i) \in SUBSET States /\ deposit[i] \in Nat
    BY <2>1 DEF StatesOf
  <2>3. loaded \in Handler /\ Idle \in Handler
    BY <2>1, <2>2 DEF Handler
  <2>4. handler' = [handler EXCEPT ![h] = IF Admissible(handler[h].state, StatesOf(i))
                                          THEN loaded ELSE Idle]
    BY <1>3 DEF Load
  <2>5. handler' \in [Handlers -> Handler]
    <3> HIDE DEF loaded
    <3> QED BY <2>3, <2>4
  <2> QED BY <1>3, <2>5 DEF Load
<1>4. ASSUME NEW h \in Handlers, End(h)
      PROVE  /\ emitted' \in [Intents -> SUBSET Types] /\ acked' \subseteq Intents \X Types
             /\ stored' \subseteq Intents
             /\ handler' \in [Handlers -> Handler]
             /\ handler[h].intent \in Intents /\ handler[h].state \in States
             /\ handler[h].version \in Nat
  BY <1>4 DEF End, Handler, Idle
<1>5. ASSUME NEW h \in Handlers, Commit(h) PROVE TypeOK'
  <2>1. End(h) /\ SaveStatus(h)
    BY <1>5 DEF Commit
  <2>2. statuses' \in [Intents -> [States -> Nat]]
    BY <1>4, <2>1 DEF SaveStatus
  <2> DEFINE i == handler[h].intent
  <2>3. i \in Intents /\ deposit \in [Intents -> Nat] /\ transfers \in [Intents -> Nat]
    BY <1>4, <2>1
  <2>4. \/ UNCHANGED <<deposit, transfers>>
        \/ deposit' = [deposit EXCEPT ![i] = @ + 1] /\ transfers' = [transfers EXCEPT ![i] = @ + 1]
    BY <1>5 DEF Commit, CreateTransfer, LinkTransfer
  <2>5. deposit' \in [Intents -> Nat] /\ transfers' \in [Intents -> Nat]
    <3> HIDE DEF i
    <3> QED BY ONLY <2>3, <2>4
  <2> QED BY <1>4, <2>1, <2>2, <2>5
<1>6. ASSUME NEW h \in Handlers, CommitPart(h) PROVE TypeOK'
  <2>1. End(h) /\ SaveStatus(h)
    BY <1>6 DEF CommitPart
  <2>2. statuses' \in [Intents -> [States -> Nat]]
    BY <1>4, <2>1 DEF SaveStatus
  <2>3. deposit' \in [Intents -> Nat] /\ transfers' \in [Intents -> Nat]
    BY <1>4, <1>6, <2>1 DEF CommitPart, CreateTransfer
  <2> QED BY <1>4, <2>1, <2>2, <2>3
<1>7. ASSUME NEW h \in Handlers, Conflict(h) \/ Rollback(h) PROVE TypeOK'
  BY <1>4, <1>7 DEF Conflict, Rollback, Handler
<1>8. CASE UNCHANGED vars
  BY <1>8 DEF vars
<1> QED BY <1>1, <1>2, <1>3, <1>5, <1>6, <1>7, <1>8 DEF Next, NextAtomic, NextReliable, Handle

(***************************************************************************)
(* Every reachable state is well typed.                                    *)
(***************************************************************************)
THEOREM TypeCorrect == Spec => []TypeOK
BY InitType, NextType, PTL DEF Spec
-----------------------------------------------------------------------------
(***************************************************************************)
(* A credit is backed, and so is a success that is being handled.          *)
(***************************************************************************)
BackedInv ==
  /\ CreditIsBacked
  /\ \A h \in Handlers :
       handler[h].pc # "idle" /\ handler[h].state = "SUCCEEDED"
         => "succeeded" \in emitted[handler[h].intent]

LEMMA NextBacked == TypeOK /\ BackedInv /\ [Next]_vars => BackedInv'
<1> SUFFICES ASSUME TypeOK, BackedInv, [Next]_vars PROVE BackedInv'
  OBVIOUS
<1> USE DEF TypeOK, BackedInv, CreditIsBacked
<1>1. ASSUME NEW i \in Intents, Pay(i) PROVE BackedInv'
  <2>1. \A j \in Intents : emitted[j] \subseteq emitted'[j]
    BY <1>1 DEF Pay, CreateAtStripe, SavePaymentIntent, SaveDeposit, Emit
  <2>2. UNCHANGED <<statuses, transfers, handler>>
    BY <1>1 DEF Pay, CreateAtStripe, SavePaymentIntent, SaveDeposit, Emit
  <2>3. \A h \in Handlers : handler[h].pc # "idle" => handler[h].intent \in Intents
    BY DEF Handler, Idle
  <2> QED BY <2>1, <2>2, <2>3
<1>2. ASSUME NEW h \in Handlers, NEW i \in Intents, NEW type \in Types, Receive(h, i, type)
      PROVE  BackedInv'
  <2>1. StateOf[type] = "SUCCEEDED" => type = "succeeded"
    BY DEF StateOf, Types
  <2> QED BY <1>2, <2>1 DEF Receive
<1>3. ASSUME NEW h \in Handlers, Load(h) PROVE BackedInv'
  BY <1>3 DEF Load, Idle
<1>4. ASSUME NEW h \in Handlers, End(h)
      PROVE  /\ emitted' = emitted
             /\ \A g \in Handlers : handler'[g] = handler[g] \/ handler'[g] = Idle
             /\ handler[h].intent \in Intents /\ handler[h].state \in States
             /\ handler[h].state = "SUCCEEDED" => "succeeded" \in emitted[handler[h].intent]
  BY <1>4 DEF End, Handler, Idle
<1>5. ASSUME NEW h \in Handlers, Commit(h) PROVE BackedInv'
  <2>1. CreditIsBacked'
    BY <1>4, <1>5 DEF Commit, SaveStatus, CreateTransfer, Credits, States
  <2> QED BY <1>4, <1>5, <2>1 DEF Commit, Idle
<1>6. ASSUME NEW h \in Handlers, CommitPart(h) PROVE BackedInv'
  <2>1. CreditIsBacked'
    BY <1>4, <1>6 DEF CommitPart, SaveStatus, CreateTransfer, Credits, States
  <2> QED BY <1>4, <1>6, <2>1 DEF CommitPart, Idle
<1>7. ASSUME NEW h \in Handlers, Conflict(h) \/ Rollback(h) PROVE BackedInv'
  BY <1>7 DEF Conflict, Rollback, End, Idle
<1>8. CASE UNCHANGED vars
  BY <1>8 DEF vars
<1> QED BY <1>1, <1>2, <1>3, <1>5, <1>6, <1>7, <1>8 DEF Next, NextAtomic, NextReliable, Handle

(***************************************************************************)
(* Nobody is credited without a recorded and reported success, whatever is *)
(* delivered twice, fails half way or crashes.                             *)
(***************************************************************************)
THEOREM CreditIsBackedAlways == Spec => []CreditIsBacked
<1>1. Init => BackedInv
  BY DEF Init, BackedInv, CreditIsBacked, States, Idle
<1>2. BackedInv => CreditIsBacked
  BY DEF BackedInv
<1> QED BY <1>1, <1>2, InitType, NextType, NextBacked, PTL DEF Spec
-----------------------------------------------------------------------------
(***************************************************************************)
(* When transactions commit as a whole: every success has its transfer,    *)
(* linked to the deposit; a success is handled with a deposit in sight.    *)
(***************************************************************************)
CreditedInv ==
  /\ \A i \in Intents :
       /\ statuses[i]["SUCCEEDED"] = transfers[i]
       /\ deposit[i] = 0 => transfers[i] = 0
       /\ deposit[i] > 0 => deposit[i] = transfers[i] + 1
       /\ "succeeded" \in emitted[i] => deposit[i] > 0
  /\ \A h \in Handlers :
       handler[h].pc = "loaded" /\ handler[h].state = "SUCCEEDED" => handler[h].version > 0

(***************************************************************************)
(* With snapshot isolation moreover: a success that may still be committed *)
(* saw the deposit before any transfer was linked to it.                   *)
(***************************************************************************)
OnceInv ==
  /\ CreditedOnce
  /\ \A h \in Handlers :
       handler[h].pc = "loaded" /\ handler[h].state = "SUCCEEDED" => handler[h].version <= 1

AtomicInv == TypeOK /\ BackedInv /\ CreditedInv

LEMMA NextCredited == AtomicInv /\ [NextAtomic]_vars => CreditedInv'
<1> SUFFICES ASSUME AtomicInv, [NextAtomic]_vars PROVE CreditedInv'
  OBVIOUS
<1> USE DEF AtomicInv, TypeOK, CreditedInv
<1>1. ASSUME NEW i \in Intents, Pay(i) PROVE CreditedInv'
  <2>1. CASE CreateAtStripe(i)
    BY <2>1 DEF CreateAtStripe
  <2>2. CASE SavePaymentIntent(i)
    BY <2>2 DEF SavePaymentIntent
  <2>3. CASE SaveDeposit(i)
    BY <2>3 DEF SaveDeposit
  <2>4. ASSUME NEW type \in Types, Emit(i, type) PROVE CreditedInv'
    BY <2>4 DEF Emit
  <2> QED BY <1>1, <2>1, <2>2, <2>3, <2>4 DEF Pay
<1>2. ASSUME NEW h \in Handlers, NEW i \in Intents, NEW type \in Types, Receive(h, i, type)
      PROVE  CreditedInv'
  BY <1>2 DEF Receive
<1>3. ASSUME NEW h \in Handlers, Load(h) PROVE CreditedInv'
  <2>1. handler[h].intent \in Intents
    BY <1>3 DEF Load, Handler, Idle
  <2>2. handler[h].state = "SUCCEEDED" => deposit[handler[h].intent] > 0
    BY <1>3, <2>1 DEF BackedInv, Load
  <2> QED BY <1>3, <2>2 DEF Load, Idle
<1>4. ASSUME NEW h \in Handlers, Commit(h) PROVE CreditedInv'
  <2> DEFINE i == handler[h].intent
  <2>1. i \in Intents /\ handler[h].state \in States /\ handler[h].version \in Nat
    BY <1>4 DEF Commit, End, Handler, Idle
  <2>2. handler[h].pc = "loaded"
    BY <1>4 DEF Commit, End
  <2>3. \A g \in Handlers : handler'[g] = handler[g] \/ handler'[g] = Idle
    BY <1>4 DEF Commit, End
  <2>4. CASE handler[h].state = "SUCCEEDED"
    <3>1. Credits(h)
      BY <2>2, <2>4 DEF Credits
    <3>2. deposit[i] > 0
      BY <2>1, <2>2, <2>4 DEF BackedInv
    <3>3. /\ statuses' = [statuses EXCEPT ![i]["SUCCEEDED"] = @ + 1]
          /\ transfers' = [transfers EXCEPT ![i] = @ + 1]
          /\ deposit' = [deposit EXCEPT ![i] = @ + 1]
          /\ emitted' = emitted
      BY <1>4, <2>4, <3>1 DEF Commit, End, SaveStatus, CreateTransfer, LinkTransfer
    <3> HIDE DEF i
    <3> QED BY <2>1, <2>3, <3>2, <3>3 DEF Idle, States
  <2>5. CASE handler[h].state # "SUCCEEDED"
    <3>1. \A j \in Intents : statuses'[j]["SUCCEEDED"] = statuses[j]["SUCCEEDED"]
      BY <1>4, <2>1, <2>5 DEF Commit, SaveStatus, States
    <3>2. UNCHANGED <<transfers, deposit, emitted>>
      BY <1>4, <2>5 DEF Commit, End, Credits
    <3> QED BY <2>3, <3>1, <3>2 DEF Idle
  <2> QED BY <2>4, <2>5
<1>5. ASSUME NEW h \in Handlers, Conflict(h) \/ Rollback(h) PROVE CreditedInv'
  <2>1. UNCHANGED <<statuses, transfers, deposit, emitted>>
    BY <1>5 DEF Conflict, Rollback, End
  <2>2. handler' = [handler EXCEPT ![h] = Idle]
    BY <1>5 DEF Conflict, Rollback, End
  <2>3. \A g \in Handlers : handler'[g] = handler[g] \/ handler'[g] = Idle
    BY <2>2
  <2> QED BY <2>1, <2>3 DEF Idle
<1>6. CASE UNCHANGED vars
  BY <1>6 DEF vars
<1> QED BY <1>1, <1>2, <1>3, <1>4, <1>5, <1>6 DEF NextAtomic, NextReliable, Handle

LEMMA AtomicInvariant == AtomicSpec => []AtomicInv
<1>1. Init => AtomicInv
  BY InitType DEF Init, AtomicInv, BackedInv, CreditIsBacked, CreditedInv, States, Idle
<1>2. AtomicInv /\ [NextAtomic]_vars => AtomicInv'
  BY NextType, NextBacked, NextCredited DEF AtomicInv, Next
<1> QED BY <1>1, <1>2, PTL DEF AtomicSpec

(***************************************************************************)
(* With transactions that commit as a whole or not at all, a success has   *)
(* exactly its transfer, and the deposit knows.                            *)
(***************************************************************************)
THEOREM SuccessIsCreditedAlways == AtomicSpec => []SuccessIsCredited
<1>1. ASSUME AtomicInv, NEW i \in Intents
      PROVE  /\ statuses[i]["SUCCEEDED"] = transfers[i]
             /\ transfers[i] > 0 <=> deposit[i] > 1
  <2>1. deposit[i] \in Nat /\ transfers[i] \in Nat
    BY <1>1 DEF AtomicInv, TypeOK
  <2> QED BY <1>1, <2>1 DEF AtomicInv, CreditedInv
<1>2. AtomicInv => SuccessIsCredited
  BY <1>1 DEF SuccessIsCredited
<1> QED BY <1>2, AtomicInvariant, PTL

LEMMA NextOnce ==
  ASSUME SnapshotIsolation
  PROVE  AtomicInv /\ OnceInv /\ [NextAtomic]_vars => OnceInv'
<1> SUFFICES ASSUME AtomicInv, OnceInv, [NextAtomic]_vars PROVE OnceInv'
  OBVIOUS
<1> USE DEF AtomicInv, TypeOK, CreditedInv, OnceInv, CreditedOnce
<1>1. ASSUME NEW i \in Intents, Pay(i) PROVE OnceInv'
  BY <1>1 DEF Pay, CreateAtStripe, SavePaymentIntent, SaveDeposit, Emit
<1>2. ASSUME NEW h \in Handlers, NEW i \in Intents, NEW type \in Types, Receive(h, i, type)
      PROVE  OnceInv'
  BY <1>2 DEF Receive
<1>3. ASSUME NEW h \in Handlers, Load(h) PROVE OnceInv'
  <2> DEFINE i == handler[h].intent
  <2>1. i \in Intents
    BY <1>3 DEF Load, Handler, Idle
  <2>2. deposit[i] > 1 => "SUCCEEDED" \in StatesOf(i)
    BY <2>1 DEF StatesOf, States
  <2>3. Admissible(handler[h].state, StatesOf(i)) /\ handler[h].state = "SUCCEEDED"
          => deposit[i] <= 1
    BY <2>1, <2>2 DEF Admissible
  <2> QED BY <1>3, <2>3 DEF Load, Idle
<1>4. ASSUME NEW h \in Handlers, Commit(h) PROVE OnceInv'
  <2> DEFINE i == handler[h].intent
  <2>1. i \in Intents /\ handler[h].pc = "loaded" /\ handler[h].version \in Nat
    BY <1>4 DEF Commit, End, Handler, Idle
  <2>2. \A g \in Handlers : handler'[g] = handler[g] \/ handler'[g] = Idle
    BY <1>4 DEF Commit, End
  <2>3. CASE Credits(h)
    <3>1. deposit[i] <= 1 /\ deposit[i] > 0
      BY <1>4, <2>1, <2>3 DEF Commit, CanLink, Credits
    <3>2. transfers[i] = 0
      BY <2>1, <3>1
    <3>3. transfers' = [transfers EXCEPT ![i] = @ + 1]
      BY <1>4, <2>3 DEF Commit, CreateTransfer
    <3> HIDE DEF i
    <3> QED BY <2>1, <2>2, <3>2, <3>3 DEF Idle
  <2>4. CASE ~ Credits(h)
    BY <1>4, <2>2, <2>4 DEF Commit, Idle
  <2> QED BY <2>3, <2>4
<1>5. ASSUME NEW h \in Handlers, Conflict(h) \/ Rollback(h) PROVE OnceInv'
  BY <1>5 DEF Conflict, Rollback, End, Idle
<1>6. CASE UNCHANGED vars
  BY <1>6 DEF vars
<1> QED BY <1>1, <1>2, <1>3, <1>4, <1>5, <1>6 DEF NextAtomic, NextReliable, Handle

(***************************************************************************)
(* On a database with snapshot isolation a payment is credited at most     *)
(* once, however many copies of its event are handled at the same time.    *)
(***************************************************************************)
THEOREM CreditedOnceAlways ==
  ASSUME SnapshotIsolation
  PROVE  AtomicSpec => []CreditedOnce
<1>1. Init => OnceInv
  BY DEF Init, OnceInv, CreditedOnce, Idle
<1>2. OnceInv => CreditedOnce
  BY DEF OnceInv
<1>3. AtomicInv /\ OnceInv /\ [NextAtomic]_vars => OnceInv'
  BY NextOnce
<1> QED BY <1>1, <1>2, <1>3, AtomicInvariant, PTL DEF AtomicSpec
-----------------------------------------------------------------------------
(***************************************************************************)
(* One webhook request at a time: what a transaction may commit is still   *)
(* admissible when it commits.                                             *)
(***************************************************************************)
OutcomeInv ==
  /\ OneOutcome
  /\ \A h \in Handlers :
       handler[h].pc = "loaded" => Admissible(handler[h].state, StatesOf(handler[h].intent))

(***************************************************************************)
(* A status that is admissible can be added.                               *)
(***************************************************************************)
LEMMA SavesOneOutcome ==
  ASSUME TypeOK, OneOutcome, NEW h \in Handlers, SaveStatus(h),
         handler[h].intent \in Intents, handler[h].state \in States,
         Admissible(handler[h].state, StatesOf(handler[h].intent))
  PROVE  OneOutcome'
<1> DEFINE i == handler[h].intent
           s == handler[h].state
<1>1. \A j \in Intents, t \in States :
        /\ statuses[j][t] \in Nat
        /\ statuses'[j][t] = IF j = i /\ t = s THEN statuses[j][t] + 1 ELSE statuses[j][t]
  BY DEF TypeOK, SaveStatus
<1>2. s \notin StatesOf(i)
  BY DEF Admissible
<1>3. statuses[i][s] = 0
  BY <1>1, <1>2 DEF StatesOf
<1>4. s = "SUCCEEDED" => statuses[i]["FAILED"] = 0
  BY <1>1 DEF Admissible, StatesOf, States
<1>5. s = "FAILED" => statuses[i]["SUCCEEDED"] = 0
  BY <1>1 DEF Admissible, StatesOf, States
<1>6. \A j \in Intents : ~ (statuses[j]["SUCCEEDED"] > 0 /\ statuses[j]["FAILED"] > 0)
  BY DEF OneOutcome, StatesOf, States
<1>7. i \in Intents /\ s \in States
  OBVIOUS
<1> HIDE DEF i, s
<1>8. \A j \in Intents, t \in States : statuses'[j][t] <= 1
  BY <1>1, <1>3, <1>7 DEF OneOutcome
<1>9. \A j \in Intents : ~ (statuses'[j]["SUCCEEDED"] > 0 /\ statuses'[j]["FAILED"] > 0)
  BY <1>1, <1>4, <1>5, <1>6, <1>7 DEF States
<1> QED BY <1>8, <1>9 DEF OneOutcome, StatesOf

LEMMA NextOutcome ==
  ASSUME \A g, h \in Handlers : g = h
  PROVE  TypeOK /\ OutcomeInv /\ [Next]_vars => OutcomeInv'
<1> SUFFICES ASSUME TypeOK, OutcomeInv, [Next]_vars PROVE OutcomeInv'
  OBVIOUS
<1> USE DEF OutcomeInv
<1>1. ASSUME UNCHANGED statuses,
             \A h \in Handlers : handler'[h] = handler[h] \/ handler'[h].pc # "loaded"
      PROVE  OutcomeInv'
  <2>1. OneOutcome' /\ \A i : StatesOf(i)' = StatesOf(i)
    BY <1>1 DEF OneOutcome, StatesOf
  <2> QED BY <1>1, <2>1
<1>2. ASSUME NEW i \in Intents, Pay(i) PROVE OutcomeInv'
  BY <1>1, <1>2 DEF Pay, CreateAtStripe, SavePaymentIntent, SaveDeposit, Emit
<1>3. ASSUME NEW h \in Handlers, NEW i \in Intents, NEW type \in Types, Receive(h, i, type)
      PROVE  OutcomeInv'
  <2> DEFINE next == [pc |-> "received", intent |-> i, state |-> StateOf[type]]
  <2>1. next.pc = "received" /\ handler' = [handler EXCEPT ![h] = next] /\ UNCHANGED statuses
    BY <1>3 DEF Receive
  <2> HIDE DEF next
  <2> QED BY <1>1, <2>1 DEF TypeOK
<1>4. ASSUME NEW h \in Handlers, Load(h) PROVE OutcomeInv'
  <2> DEFINE i == handler[h].intent
             loaded == [pc |-> "loaded", intent |-> i, state |-> handler[h].state,
                        seen |-> StatesOf(i), version |-> deposit[i]]
  <2>1. UNCHANGED statuses /\ \A j : StatesOf(j)' = StatesOf(j)
    BY <1>4 DEF Load, StatesOf
  <2>2. CASE Admissible(handler[h].state, StatesOf(i))
    <3>1. handler' = [handler EXCEPT ![h] = loaded]
      BY <1>4, <2>2 DEF Load
    <3>2. loaded.intent = i /\ loaded.state = handler[h].state
      OBVIOUS
    <3>3. handler'[h].intent = i /\ handler'[h].state = handler[h].state
      <4> HIDE DEF loaded
      <4> QED BY <3>1, <3>2 DEF TypeOK
    <3>4. Admissible(handler[h].state, StatesOf(handler[h].intent))'
      <4>1. Admissible(handler[h].state, {s \in States : statuses'[i][s] > 0})
        BY <2>2, <1>4 DEF Load, StatesOf
      <4> HIDE DEF i
      <4> QED BY <3>3, <4>1 DEF Admissible, StatesOf
    <3>5. OneOutcome'
      BY <2>1 DEF OneOutcome
    <3>6. \A g \in Handlers : Admissible(handler[g].state, StatesOf(handler[g].intent))'
      BY <3>4
    <3> QED BY <3>5, <3>6
  <2>3. CASE ~ Admissible(handler[h].state, StatesOf(i))
    <3>1. handler' = [handler EXCEPT ![h] = Idle]
      BY <1>4, <2>3 DEF Load
    <3> QED BY <1>1, <2>1, <3>1 DEF Idle, TypeOK
  <2> QED BY <2>2, <2>3
<1>5. ASSUME NEW h \in Handlers, End(h), SaveStatus(h) PROVE OutcomeInv'
  <2>1. handler[h].intent \in Intents /\ handler[h].state \in States /\ handler[h].pc = "loaded"
    BY <1>5 DEF End, TypeOK, Handler, Idle
  <2>2. OneOutcome'
    BY <1>5, <2>1, SavesOneOutcome
  <2>3. handler'[h].pc = "idle"
    BY <1>5 DEF End, TypeOK, Idle
  <2> QED BY <2>2, <2>3
<1>6. ASSUME NEW h \in Handlers, Conflict(h) \/ Rollback(h) PROVE OutcomeInv'
  BY <1>1, <1>6 DEF Conflict, Rollback, End, Idle, TypeOK
<1>7. CASE UNCHANGED vars
  BY <1>1, <1>7 DEF vars
<1> QED BY <1>2, <1>3, <1>4, <1>5, <1>6, <1>7
    DEF Next, NextAtomic, NextReliable, Handle, Commit, CommitPart

(***************************************************************************)
(* With one webhook request at a time, an intent gets each status at most  *)
(* once and never both outcomes, whatever Stripe repeats or reorders and   *)
(* wherever a transaction dies or commits half of its work.                *)
(***************************************************************************)
THEOREM OneOutcomeAlways ==
  ASSUME \A g, h \in Handlers : g = h
  PROVE  Spec => []OneOutcome
<1>1. Init => OutcomeInv
  <2> SUFFICES ASSUME Init PROVE OutcomeInv
    OBVIOUS
  <2>1. \A i \in Intents, s \in States : statuses[i][s] = 0
    BY DEF Init
  <2>2. ASSUME NEW i \in Intents PROVE "FAILED" \notin StatesOf(i)
    <3>1. statuses[i]["FAILED"] = 0
      BY <2>1 DEF States
    <3> QED BY <3>1 DEF StatesOf
  <2> QED BY <2>1, <2>2 DEF Init, OutcomeInv, OneOutcome, Idle
<1>2. OutcomeInv => OneOutcome
  BY DEF OutcomeInv
<1> QED BY <1>1, <1>2, InitType, NextType, NextOutcome, PTL DEF Spec
=============================================================================
