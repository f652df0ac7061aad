--------------------------- MODULE People_proofs ---------------------------
(***************************************************************************)
(* Theorems about the people the server keeps accounts and permissions of: *)
(* their QR sessions, the synchronisation with the membership              *)
(* administration, the expiry of accounts, the members of organs, and the  *)
(* roles.                                                                  *)
(***************************************************************************)
EXTENDS QRSessions, UserSync, UserExpiry, OrganMembers, Roles,
        FiniteSetTheorems, FunctionTheorems, TLAPS
-----------------------------------------------------------------------------
(***************************************************************************)
(* QR sessions, for any number of screens, phones and requests at once.    *)
(***************************************************************************)

LEMMA QRInitType == QRInit => QRTypeOK
BY DEF QRInit, QRTypeOK, SessionRow, QRTask, Idle

LEMMA QRGoType ==
  ASSUME QRTypeOK, NEW h \in Handlers, NEW state \in QRTask, QRGo(h, state)
  PROVE  /\ qrTask' \in [Handlers -> QRTask]
         /\ \A g \in Handlers : qrTask'[g] = IF g = h THEN state ELSE qrTask[g]
BY DEF QRTypeOK, QRGo

LEMMA QRIdleIsTask == Idle \in QRTask /\ Idle.pc = "idle"
BY DEF QRTask, Idle

(***************************************************************************)
(* What a confirmation and a cancellation hold between their steps.        *)
(***************************************************************************)
LEMMA ConfirmTask ==
  ASSUME QRTypeOK, NEW h \in Handlers,
         qrTask[h].pc \in {"confirm.check", "confirm.save", "confirm.emit"}
  PROVE  \E s \in Sessions, u \in Phones, row \in SessionRow :
           qrTask[h] = [pc |-> qrTask[h].pc, session |-> s, user |-> u, row |-> row]
<1>1. qrTask[h] \in [pc : {"confirm.check", "confirm.save", "confirm.emit"}, session : Sessions,
                     user : Phones, row : SessionRow]
  BY DEF QRTypeOK, QRTask, Idle
<1> QED BY <1>1

LEMMA CancelTask ==
  ASSUME QRTypeOK, NEW h \in Handlers, QRAt(h, "cancel.save")
  PROVE  qrTask[h] \in [pc : {"cancel.save"}, session : Sessions, row : SessionRow]
BY DEF QRTypeOK, QRTask, Idle, QRAt

(***************************************************************************)
(* A loaded row of a session whose time has passed is never pending.       *)
(***************************************************************************)
LEMMA OverdueIsNotPending ==
  ASSUME NEW s \in overdue, NEW row \in SessionRow
  PROVE  Status(s, row) # "PENDING"
<1>1. row.cancelled \in BOOLEAN
  BY DEF SessionRow
<1>2. CASE row.confirmedBy # Nobody
  BY <1>2 DEF Status
<1>3. CASE row.confirmedBy = Nobody /\ row.cancelled
  BY <1>3 DEF Status
<1>4. CASE row.confirmedBy = Nobody /\ ~ row.cancelled
  BY <1>4 DEF Status
<1> QED BY <1>1, <1>2, <1>3, <1>4

(***************************************************************************)
(* Every step keeps the types and commits to no session that is overdue.   *)
(***************************************************************************)
Guards ==
  \A s \in Sessions : s \in overdue /\ ~ Committed(s) => ~ Committed(s)' /\ tokens'[s] = tokens[s]

LEMMA Uncommitted ==
  ASSUME NEW s \in Sessions, NEW h \in Handlers, ~ Committed(s),
         \A g \in Handlers \ {h} : qrTask'[g] = qrTask[g],
         qrTask'[h].pc \notin {"confirm.save", "confirm.emit"} \/ qrTask'[h].session # s
  PROVE  ~ Committed(s)'
BY DEF Committed

LEMMA BeginConfirmStep ==
  ASSUME QRTypeOK, NEW h \in Handlers, NEW s \in Sessions, NEW u \in Phones, BeginConfirm(h, s, u)
  PROVE  QRTypeOK' /\ Guards
<1> DEFINE state == [pc |-> "confirm.check", session |-> s, user |-> u, row |-> session[s]]
<1>1. state \in QRTask
  BY DEF QRTask, QRTypeOK
<1>2. /\ qrTask' \in [Handlers -> QRTask]
      /\ \A g \in Handlers : qrTask'[g] = IF g = h THEN state ELSE qrTask[g]
  BY <1>1, QRGoType DEF BeginConfirm
<1> QED BY <1>1, <1>2, Uncommitted DEF BeginConfirm, QRTypeOK, qrTables, Guards

LEMMA CheckConfirmStep ==
  ASSUME QRTypeOK, NEW h \in Handlers, CheckConfirm(h)
  PROVE  QRTypeOK' /\ Guards
<1>1. PICK s \in Sessions, u \in Phones, row \in SessionRow :
        qrTask[h] = [pc |-> "confirm.check", session |-> s, user |-> u, row |-> row]
  BY ConfirmTask DEF CheckConfirm, QRAt
<1>2. PICK state \in QRTask :
        /\ QRGo(h, state)
        /\ state = Idle \/ (Status(s, row) = "PENDING" /\ state.session = s)
  <2>1. CASE Status(s, row) = "PENDING"
    <3> DEFINE state == [pc |-> "confirm.save", session |-> s, user |-> u, row |-> row]
    <3>1. state \in QRTask /\ state.session = s
      BY DEF QRTask
    <3>2. QRGo(h, state)
      BY <1>1, <2>1 DEF CheckConfirm
    <3> QED BY <2>1, <3>1, <3>2
  <2>2. CASE Status(s, row) # "PENDING"
    BY <1>1, <2>2, QRIdleIsTask DEF CheckConfirm
  <2> QED BY <2>1, <2>2
<1>3. /\ qrTask' \in [Handlers -> QRTask]
      /\ \A g \in Handlers : qrTask'[g] = IF g = h THEN state ELSE qrTask[g]
  BY <1>2, QRGoType
<1>4. ASSUME NEW r \in Sessions, r \in overdue, ~ Committed(r) PROVE ~ Committed(r)'
  <2>1. state = Idle \/ state.session # r
    BY <1>2, <1>4, OverdueIsNotPending
  <2> QED BY <1>3, <1>4, <2>1, QRIdleIsTask, Uncommitted
<1> QED BY <1>3, <1>4 DEF CheckConfirm, QRTypeOK, qrTables, Guards

LEMMA SaveConfirmStep ==
  ASSUME QRTypeOK, NEW h \in Handlers, SaveConfirm(h)
  PROVE  QRTypeOK' /\ Guards
<1>1. PICK s \in Sessions, u \in Phones, row \in SessionRow :
        qrTask[h] = [pc |-> "confirm.save", session |-> s, user |-> u, row |-> row]
  BY ConfirmTask DEF SaveConfirm, QRAt
<1> DEFINE state == [pc |-> "confirm.emit", session |-> s, user |-> u, row |-> row]
<1>2. state \in QRTask /\ state.session = s
  BY DEF QRTask
<1>3. QRGo(h, state)
  BY <1>1 DEF SaveConfirm
<1> HIDE DEF state
<1>4. /\ qrTask' \in [Handlers -> QRTask]
      /\ \A g \in Handlers : qrTask'[g] = IF g = h THEN state ELSE qrTask[g]
  BY <1>2, <1>3, QRGoType
<1>5. [row EXCEPT !.confirmedBy = u] \in SessionRow
  BY DEF SessionRow
<1>6. session' = [session EXCEPT ![s] = [row EXCEPT !.confirmedBy = u]]
  BY <1>1 DEF SaveConfirm
<1>7. session' \in [Sessions -> SessionRow]
  BY <1>5, <1>6 DEF QRTypeOK
<1>8. ASSUME NEW r \in Sessions, ~ Committed(r) PROVE ~ Committed(r)'
  <2>1. r # s
    BY <1>1, <1>8 DEF Committed
  <2> QED BY <1>2, <1>4, <1>8, <2>1, Uncommitted
<1> QED BY <1>4, <1>7, <1>8 DEF SaveConfirm, QRTypeOK, Guards

LEMMA EmitConfirmedStep ==
  ASSUME QRTypeOK, NEW h \in Handlers, EmitConfirmed(h)
  PROVE  QRTypeOK' /\ Guards
<1>1. PICK s \in Sessions, u \in Phones, row \in SessionRow :
        qrTask[h] = [pc |-> "confirm.emit", session |-> s, user |-> u, row |-> row]
  BY ConfirmTask DEF EmitConfirmed, QRAt
<1>2. tokens' = [tokens EXCEPT ![s] = @ \cup {u}]
  BY <1>1 DEF EmitConfirmed
<1>3. /\ qrTask' \in [Handlers -> QRTask]
      /\ \A g \in Handlers : qrTask'[g] = IF g = h THEN Idle ELSE qrTask[g]
  BY QRIdleIsTask, QRGoType DEF EmitConfirmed
<1>4. tokens' \in [Sessions -> SUBSET Phones]
  <2>1. tokens[s] \cup {u} \in SUBSET Phones
    BY DEF QRTypeOK
  <2> QED BY <1>2, <2>1 DEF QRTypeOK
<1>5. ASSUME NEW r \in Sessions, ~ Committed(r) PROVE ~ Committed(r)' /\ tokens'[r] = tokens[r]
  <2>1. r # s
    BY <1>1, <1>5 DEF Committed
  <2> QED BY <1>2, <1>3, <1>5, <2>1, QRIdleIsTask, Uncommitted DEF QRTypeOK
<1> QED BY <1>3, <1>4, <1>5 DEF EmitConfirmed, QRTypeOK, Guards

LEMMA BeginCancelStep ==
  ASSUME QRTypeOK, NEW h \in Handlers, NEW s \in Sessions, BeginCancel(h, s)
  PROVE  QRTypeOK' /\ Guards
<1> DEFINE state == [pc |-> "cancel.save", session |-> s, row |-> session[s]]
<1>1. state \in QRTask
  BY DEF QRTask, QRTypeOK
<1>2. /\ qrTask' \in [Handlers -> QRTask]
      /\ \A g \in Handlers : qrTask'[g] = IF g = h THEN state ELSE qrTask[g]
  BY <1>1, QRGoType DEF BeginCancel
<1> QED BY <1>1, <1>2, Uncommitted DEF BeginCancel, QRTypeOK, qrTables, Guards

LEMMA SaveCancelStep ==
  ASSUME QRTypeOK, NEW h \in Handlers, SaveCancel(h)
  PROVE  QRTypeOK' /\ Guards
<1>1. PICK s \in Sessions, row \in SessionRow : qrTask[h].session = s /\ qrTask[h].row = row
  BY CancelTask DEF SaveCancel
<1>2. [row EXCEPT !.cancelled = TRUE] \in SessionRow
  BY DEF SessionRow
<1>3. session' = [session EXCEPT ![s] = [row EXCEPT !.cancelled = TRUE]]
  BY <1>1 DEF SaveCancel
<1>4. session' \in [Sessions -> SessionRow]
  BY <1>1, <1>2, <1>3 DEF SaveCancel, QRTypeOK
<1>5. /\ qrTask' \in [Handlers -> QRTask]
      /\ \A g \in Handlers : qrTask'[g] = IF g = h THEN Idle ELSE qrTask[g]
  BY QRIdleIsTask, QRGoType DEF SaveCancel
<1>6. \A r \in Sessions : ~ Committed(r) => ~ Committed(r)'
  BY <1>5, QRIdleIsTask, Uncommitted
<1> QED BY <1>4, <1>5, <1>6 DEF SaveCancel, QRTypeOK, Guards

LEMMA QRFailsStep ==
  ASSUME QRTypeOK, NEW h \in Handlers, QRFails(h)
  PROVE  QRTypeOK' /\ Guards
<1>1. /\ qrTask' \in [Handlers -> QRTask]
      /\ \A g \in Handlers : qrTask'[g] = IF g = h THEN Idle ELSE qrTask[g]
  BY QRIdleIsTask, QRGoType DEF QRFails
<1>2. \A r \in Sessions : ~ Committed(r) => ~ Committed(r)'
  BY <1>1, QRIdleIsTask, Uncommitted
<1> QED BY <1>1, <1>2 DEF QRFails, QRTypeOK, qrTables, Guards

LEMMA QRStep == QRTypeOK /\ [QRNext]_qrVars => QRTypeOK' /\ Guards
<1> SUFFICES ASSUME QRTypeOK, [QRNext]_qrVars PROVE QRTypeOK' /\ Guards
  OBVIOUS
<1>1. ASSUME NEW s \in Sessions, SessionExpires(s) PROVE QRTypeOK' /\ Guards
  BY <1>1 DEF SessionExpires, QRTypeOK, Guards, Committed
<1>2. CASE UNCHANGED qrVars
  BY <1>2 DEF qrVars, QRTypeOK, Guards, Committed
<1> QED BY <1>1, <1>2, BeginConfirmStep, CheckConfirmStep, SaveConfirmStep, EmitConfirmedStep,
           BeginCancelStep, SaveCancelStep, QRFailsStep DEF QRNext

(***************************************************************************)
(* Every reachable state of the model of QR sessions is well typed.        *)
(***************************************************************************)
THEOREM QRTypeCorrect == QRSpec => []QRTypeOK
BY QRInitType, QRStep, PTL DEF QRSpec

(***************************************************************************)
(* However many requests race, no screen gets a token for a session that   *)
(* expired before a request passed the last look at its status: a row that *)
(* was loaded earlier is judged by the present time.                       *)
(***************************************************************************)
THEOREM ExpiredGetsNoTokenAlways == QRSpec => ExpiredGetsNoToken
<1>1. QRTypeOK /\ [QRNext]_qrVars =>
        [\A s \in Sessions : s \in overdue /\ ~ Committed(s) => ~ Committed(s)' /\ tokens'[s] = tokens[s]]_qrVars
  BY QRStep DEF Guards
<1> QED BY <1>1, QRTypeCorrect, PTL DEF QRSpec, ExpiredGetsNoToken
-----------------------------------------------------------------------------
(***************************************************************************)
(* The synchronisation, for any users and any number of runs, logins and   *)
(* changes at once.                                                        *)
(***************************************************************************)

Phases == {"next", "ldap", "ldap.save", "gewis", "gewis.ask", "gewis.save", "decide", "down.ldap",
           "down.save", "down.gewis", "close.load", "close.balance", "close.save", "notify"}

Run == [pc : Phases, todo : SUBSET Accounts, rows : [Accounts -> AccountRow], account : Accounts,
        row : AccountRow, skipped : BOOLEAN, result : BOOLEAN, vouched : BOOLEAN, delete : BOOLEAN]

LEMMA TaskIsRun == SyncTask = {Idle} \cup Run
BY DEF SyncTask, Run, Phases

(***************************************************************************)
(* A service that vouches makes the result true, and nothing makes it      *)
(* false again before the next user; only a false result takes down.       *)
(***************************************************************************)
Vouches(run) == (run.vouched => run.result) /\ (run.pc \in Downs => ~ run.vouched)

SyncInv == SyncTypeOK /\ \A h \in Handlers : SyncAt(h, "idle") \/ Vouches(syncTask[h])

LEMMA SyncInitInv == SyncInit => SyncInv
<1> SUFFICES ASSUME SyncInit PROVE SyncInv
  OBVIOUS
<1>1. SyncTypeOK
  BY SyncAssumption DEF SyncInit, SyncTypeOK, AccountRow, SyncTask
<1>2. \A h \in Handlers : SyncAt(h, "idle")
  BY DEF SyncInit, SyncAt, Idle
<1> QED BY <1>1, <1>2 DEF SyncInv

LEMMA RunOf ==
  ASSUME SyncInv, NEW h \in Handlers, ~ SyncAt(h, "idle")
  PROVE  syncTask[h] \in Run /\ Vouches(syncTask[h])
<1>1. syncTask[h] \in {Idle} \cup Run
  BY TaskIsRun DEF SyncInv, SyncTypeOK
<1>2. syncTask[h] # Idle
  BY DEF SyncAt, Idle
<1> QED BY <1>1, <1>2 DEF SyncInv

(***************************************************************************)
(* The tables have their types after a step of a run or around it.         *)
(***************************************************************************)
TablesOK ==
  /\ userRow \in [Accounts -> AccountRow]
  /\ bound \subseteq Accounts /\ inLDAP \subseteq Accounts
  /\ isMember \subseteq MemberUsers /\ settled \subseteq Accounts
  /\ mails \in [Accounts -> Nat] /\ edges \in [Accounts -> Nat] /\ changes \in 0 .. MaxChanges

LEMMA TablesKept == SyncInv /\ UNCHANGED syncTables => TablesOK'
BY DEF SyncInv, SyncTypeOK, TablesOK, syncTables

LEMMA RunGoes ==
  ASSUME SyncInv, TablesOK', NEW h \in Handlers, NEW run \in Run, SyncGo(h, run), Vouches(run)
  PROVE  SyncInv'
<1>1. /\ syncTask' \in [Handlers -> SyncTask]
      /\ \A g \in Handlers : syncTask'[g] = IF g = h THEN run ELSE syncTask[g]
  BY TaskIsRun DEF SyncGo, SyncInv, SyncTypeOK
<1>2. SyncTypeOK'
  BY <1>1 DEF SyncTypeOK, TablesOK
<1>3. ASSUME NEW g \in Handlers PROVE syncTask'[g].pc = "idle" \/ Vouches(syncTask'[g])
  BY <1>1 DEF SyncInv, SyncAt
<1> QED BY <1>2, <1>3 DEF SyncInv, SyncAt, Vouches

LEMMA RunStops ==
  ASSUME SyncInv, TablesOK', NEW h \in Handlers, SyncGo(h, Idle)
  PROVE  SyncInv'
<1>1. /\ syncTask' \in [Handlers -> SyncTask]
      /\ \A g \in Handlers : syncTask'[g] = IF g = h THEN Idle ELSE syncTask[g]
  BY TaskIsRun DEF SyncGo, SyncInv, SyncTypeOK
<1>2. SyncTypeOK'
  BY <1>1 DEF SyncTypeOK, TablesOK
<1>3. ASSUME NEW g \in Handlers PROVE syncTask'[g].pc = "idle" \/ Vouches(syncTask'[g])
  BY <1>1 DEF SyncInv, SyncAt, Idle
<1> QED BY <1>2, <1>3 DEF SyncInv, SyncAt, Vouches

LEMMA Around ==
  ASSUME SyncInv, TablesOK', syncTask' = syncTask
  PROVE  SyncInv'
<1>1. SyncTypeOK'
  BY DEF SyncInv, SyncTypeOK, TablesOK
<1> QED BY <1>1 DEF SyncInv, SyncAt, Vouches

(***************************************************************************)
(* A step that changes no answer, and goes down only where a run was       *)
(* already down or its result is false.                                    *)
(***************************************************************************)
LEMMA RunGoesOn ==
  ASSUME SyncInv, TablesOK', NEW h \in Handlers, ~ SyncAt(h, "idle"), NEW run \in Run, SyncGo(h, run),
         run.result = syncTask[h].result, run.vouched = syncTask[h].vouched,
         run.pc \in Downs => syncTask[h].pc \in Downs \/ ~ syncTask[h].result
  PROVE  SyncInv'
<1>1. Vouches(syncTask[h]) /\ syncTask[h] \in Run
  BY RunOf
<1>2. Vouches(run)
  BY <1>1 DEF Vouches, Run
<1> QED BY <1>2, RunGoes

LEMMA RunTo ==
  ASSUME SyncInv, TablesOK', NEW h \in Handlers, ~ SyncAt(h, "idle"), NEW pc \in Phases, SyncTo(h, pc),
         pc \in Downs => syncTask[h].pc \in Downs \/ ~ syncTask[h].result
  PROVE  SyncInv'
<1> DEFINE run == [syncTask[h] EXCEPT !.pc = pc]
<1>1. syncTask[h] \in Run
  BY RunOf
<1>2. run \in Run /\ run.pc = pc /\ run.result = syncTask[h].result /\ run.vouched = syncTask[h].vouched
  BY <1>1 DEF Run
<1>3. SyncGo(h, run)
  BY DEF SyncTo
<1> HIDE DEF run
<1> QED BY <1>2, <1>3, RunGoesOn

LEMMA WriteRowTypes ==
  ASSUME SyncInv, NEW a \in Accounts, NEW row \in AccountRow, WriteRow(a, row)
  PROVE  userRow' \in [Accounts -> AccountRow] /\ edges' \in [Accounts -> Nat]
<1>1. edges \in [Accounts -> Nat] /\ edges[a] + 1 \in Nat /\ userRow \in [Accounts -> AccountRow]
  BY DEF SyncInv, SyncTypeOK
<1> QED BY <1>1 DEF WriteRow

LEMMA SaveRowTables ==
  ASSUME SyncInv, NEW a \in Accounts, NEW row \in AccountRow, SaveRow(a, row)
  PROVE  TablesOK'
<1>1. userRow' \in [Accounts -> AccountRow] /\ edges' \in [Accounts -> Nat]
  BY WriteRowTypes DEF SaveRow
<1> QED BY <1>1 DEF SaveRow, SyncInv, SyncTypeOK, TablesOK

(***************************************************************************)
(* What the services answer.                                               *)
(***************************************************************************)
LEMMA AnswerType ==
  ASSUME NEW run \in Run, run.vouched => run.result, NEW answer \in BOOLEAN
  PROVE  /\ Answer(run, answer) \in Run /\ Answer(run, answer).row = run.row
         /\ Answer(run, answer).vouched => Answer(run, answer).result
BY DEF Answer, Run

LEMMA GoesTo ==
  ASSUME NEW run \in Run, NEW pc \in Phases, NEW row \in AccountRow
  PROVE  /\ [run EXCEPT !.pc = pc] \in Run /\ [run EXCEPT !.pc = pc].pc = pc
         /\ [run EXCEPT !.pc = pc].vouched = run.vouched /\ [run EXCEPT !.pc = pc].result = run.result
         /\ [run EXCEPT !.pc = pc, !.row = row] \in Run /\ [run EXCEPT !.pc = pc, !.row = row].pc = pc
         /\ [run EXCEPT !.pc = pc, !.row = row].vouched = run.vouched
         /\ [run EXCEPT !.pc = pc, !.row = row].result = run.result
BY DEF Run
-----------------------------------------------------------------------------
LEMMA StartSyncInv ==
  ASSUME SyncInv, NEW h \in Handlers, StartSync(h)
  PROVE  SyncInv'
<1>1. PICK a \in Accounts :
        SyncGo(h, [pc |-> "next", todo |-> {b \in Accounts : ~ userRow[b].deleted}, rows |-> userRow,
                   account |-> a, row |-> userRow[a], skipped |-> TRUE, result |-> FALSE,
                   vouched |-> FALSE, delete |-> FALSE])
  BY DEF StartSync
<1> DEFINE run == [pc |-> "next", todo |-> {b \in Accounts : ~ userRow[b].deleted}, rows |-> userRow,
                   account |-> a, row |-> userRow[a], skipped |-> TRUE, result |-> FALSE,
                   vouched |-> FALSE, delete |-> FALSE]
<1>2. run \in Run
  BY DEF Run, Phases, SyncInv, SyncTypeOK
<1>3. Vouches(run)
  BY DEF Vouches
<1>4. SyncGo(h, run)
  BY <1>1
<1>5. TablesOK'
  BY TablesKept DEF StartSync
<1> HIDE DEF run
<1> QED BY <1>2, <1>3, <1>4, <1>5, RunGoes

LEMMA NextTargetInv ==
  ASSUME SyncInv, NEW h \in Handlers, NEW a \in Accounts, NextTarget(h, a)
  PROVE  SyncInv'
<1> DEFINE old == syncTask[h]
           run == [old EXCEPT !.pc = "ldap", !.todo = @ \ {a}, !.account = a, !.row = old.rows[a],
                              !.skipped = TRUE, !.result = FALSE, !.vouched = FALSE]
<1>1. old \in Run
  BY RunOf DEF NextTarget, SyncAt
<1>2. old.rows[a] \in AccountRow
  BY <1>1 DEF Run
<1>3. run \in Run /\ ~ run.vouched
  BY <1>1, <1>2 DEF Run, Phases
<1>4. SyncGo(h, run) /\ TablesOK'
  BY TablesKept DEF NextTarget
<1> HIDE DEF run
<1> QED BY <1>3, <1>4, RunGoes DEF Vouches

LEMMA AnswerGoes ==
  ASSUME SyncInv, NEW h \in Handlers, ~ SyncAt(h, "idle"), TablesOK', NEW answer \in BOOLEAN,
         NEW pc \in Phases \ Downs, NEW row \in AccountRow,
         \/ SyncGo(h, [Answer(syncTask[h], answer) EXCEPT !.pc = pc])
         \/ SyncGo(h, [Answer(syncTask[h], answer) EXCEPT !.pc = pc, !.row = row])
  PROVE  SyncInv'
<1> DEFINE answered == Answer(syncTask[h], answer)
<1>1. syncTask[h] \in Run /\ (syncTask[h].vouched => syncTask[h].result)
  BY RunOf DEF Vouches
<1>2. answered \in Run /\ (answered.vouched => answered.result)
  BY <1>1, AnswerType
<1>3. SyncGo(h, [answered EXCEPT !.pc = pc]) \/ SyncGo(h, [answered EXCEPT !.pc = pc, !.row = row])
  OBVIOUS
<1> HIDE DEF answered
<1>4. Vouches([answered EXCEPT !.pc = pc]) /\ Vouches([answered EXCEPT !.pc = pc, !.row = row])
  BY <1>2 DEF Vouches, Run
<1>5. [answered EXCEPT !.pc = pc] \in Run /\ [answered EXCEPT !.pc = pc, !.row = row] \in Run
  BY <1>2, GoesTo
<1> QED BY <1>3, <1>4, <1>5, RunGoes

LEMMA AskLDAPInv ==
  ASSUME SyncInv, NEW h \in Handlers, AskLDAP(h)
  PROVE  SyncInv'
<1> DEFINE run == syncTask[h]
           a == run.account
           answer == a \in bound /\ a \in inLDAP
           row == [Answer(run, TRUE).row EXCEPT !.active = TRUE, !.canGoIntoDebt = FALSE]
<1>1. ~ SyncAt(h, "idle") /\ run.pc = "ldap" /\ TablesOK'
  BY TablesKept DEF AskLDAP, SyncAt
<1>2. run \in Run /\ (run.vouched => run.result)
  BY <1>1, RunOf DEF Vouches
<1>3. Answer(run, TRUE).row \in AccountRow
  BY <1>2, AnswerType DEF Run
<1>4. row \in AccountRow
  BY <1>3 DEF AccountRow
<1>5. \/ SyncGo(h, [run EXCEPT !.pc = "gewis"])
      \/ SyncGo(h, [Answer(run, TRUE) EXCEPT !.pc = "ldap.save", !.row = row])
      \/ SyncGo(h, [Answer(run, answer) EXCEPT !.pc = "gewis"])
  BY DEF AskLDAP
<1> HIDE DEF row, answer
<1>6. CASE SyncGo(h, [run EXCEPT !.pc = "gewis"])
  <2>1. SyncTo(h, "gewis")
    BY <1>6 DEF SyncTo
  <2> QED BY <1>1, <2>1, RunTo DEF Phases, Downs
<1>7. CASE SyncGo(h, [Answer(run, TRUE) EXCEPT !.pc = "ldap.save", !.row = row])
  BY <1>1, <1>4, <1>7, AnswerGoes DEF Phases, Downs
<1>8. CASE SyncGo(h, [Answer(run, answer) EXCEPT !.pc = "gewis"])
  <2>1. answer \in BOOLEAN
    BY DEF answer
  <2> QED BY <1>1, <1>4, <1>8, <2>1, AnswerGoes DEF Phases, Downs
<1> QED BY <1>5, <1>6, <1>7, <1>8

LEMMA LoadMemberInv ==
  ASSUME SyncInv, NEW h \in Handlers, LoadMember(h)
  PROVE  SyncInv'
<1>1. ~ SyncAt(h, "idle") /\ TablesOK' /\ syncTask[h] \in Run
  BY TablesKept, RunOf DEF LoadMember, SyncAt
<1> DEFINE row == userRow[syncTask[h].account]
<1>2. row \in AccountRow
  BY <1>1 DEF Run, SyncInv, SyncTypeOK
<1>3. \/ SyncGo(h, [syncTask[h] EXCEPT !.pc = "gewis.ask", !.row = row])
      \/ SyncTo(h, "decide")
  BY DEF LoadMember, SyncTo
<1> HIDE DEF row
<1>4. CASE SyncTo(h, "decide")
  BY <1>1, <1>4, RunTo DEF Phases, Downs
<1>5. CASE SyncGo(h, [syncTask[h] EXCEPT !.pc = "gewis.ask", !.row = row])
  <2> DEFINE run == [syncTask[h] EXCEPT !.pc = "gewis.ask", !.row = row]
  <2>1. "gewis.ask" \in Phases /\ "gewis.ask" \notin Downs
    BY DEF Phases, Downs
  <2>2. run \in Run /\ run.pc = "gewis.ask" /\ run.result = syncTask[h].result
          /\ run.vouched = syncTask[h].vouched
    BY <1>1, <1>2, <2>1 DEF Run
  <2>3. SyncGo(h, run)
    BY <1>5
  <2> HIDE DEF run
  <2> QED BY <1>1, <2>1, <2>2, <2>3, RunGoesOn
<1> QED BY <1>3, <1>4, <1>5

LEMMA AskMembershipInv ==
  ASSUME SyncInv, NEW h \in Handlers, NEW changed \in BOOLEAN, AskMembership(h, changed)
  PROVE  SyncInv'
<1> DEFINE run == syncTask[h]
           answer == run.account \in isMember
           row == [Answer(run, TRUE).row EXCEPT !.active = TRUE]
<1>1. ~ SyncAt(h, "idle") /\ TablesOK'
  BY TablesKept DEF AskMembership, SyncAt
<1>2. run \in Run /\ (run.vouched => run.result)
  BY <1>1, RunOf DEF Vouches
<1>3. Answer(run, TRUE) \in Run
  BY <1>2, AnswerType
<1>4. row \in AccountRow
  BY <1>3 DEF AccountRow, Run
<1>5. [Answer(run, TRUE) EXCEPT !.pc = "gewis.save", !.row.active = TRUE]
        = [Answer(run, TRUE) EXCEPT !.pc = "gewis.save", !.row = row]
  BY <1>3 DEF Run
<1>6. \/ SyncGo(h, [Answer(run, TRUE) EXCEPT !.pc = "gewis.save", !.row = row])
      \/ SyncGo(h, [Answer(run, answer) EXCEPT !.pc = "decide"])
  BY <1>5 DEF AskMembership
<1>7. answer \in BOOLEAN
  OBVIOUS
<1> HIDE DEF row, answer
<1> QED BY <1>1, <1>4, <1>6, <1>7, AnswerGoes DEF Phases, Downs

LEMMA DecideInv ==
  ASSUME SyncInv, NEW h \in Handlers, Decide(h)
  PROVE  SyncInv'
<1>1. ~ SyncAt(h, "idle") /\ TablesOK'
  BY TablesKept DEF Decide, SyncAt
<1>2. SyncTo(h, "next") \/ (SyncTo(h, "down.ldap") /\ ~ syncTask[h].result)
  BY DEF Decide
<1> QED BY <1>1, <1>2, RunTo DEF Phases, Downs

(***************************************************************************)
(* The steps that save a row and go on.                                    *)
(***************************************************************************)
LEMMA SavesInv ==
  ASSUME SyncInv, NEW h \in Handlers,
         SaveOrgan(h) \/ SaveMember(h) \/ DeleteOrgan(h) \/ SaveClosed(h)
  PROVE  SyncInv'
<1>1. ~ SyncAt(h, "idle")
  BY DEF SaveOrgan, SaveMember, DeleteOrgan, SaveClosed, SyncAt
<1>2. syncTask[h].account \in Accounts /\ syncTask[h].row \in AccountRow
  BY <1>1, RunOf DEF Run
<1>3. SaveRow(syncTask[h].account, syncTask[h].row)
  BY DEF SaveOrgan, SaveMember, DeleteOrgan, SaveClosed
<1>4. TablesOK'
  BY <1>2, <1>3, SaveRowTables
<1>5. \/ SyncTo(h, "gewis") \/ SyncTo(h, "decide") \/ SyncTo(h, "notify")
      \/ SyncTo(h, "down.gewis") /\ syncTask[h].pc = "down.save"
  BY DEF SaveOrgan, SaveMember, DeleteOrgan, SaveClosed, SyncAt
<1> QED BY <1>1, <1>4, <1>5, RunTo DEF Phases, Downs

LEMMA UnbindInv ==
  ASSUME SyncInv, NEW h \in Handlers, Unbind(h)
  PROVE  SyncInv'
<1> DEFINE run == syncTask[h]
           row == [run.rows[run.account] EXCEPT !.deleted = TRUE, !.active = FALSE]
<1>1. ~ SyncAt(h, "idle") /\ run.pc \in Downs
  BY DEF Unbind, SyncAt, Downs
<1>2. run \in Run
  BY <1>1, RunOf
<1>3. row \in AccountRow
  BY <1>2 DEF Run, AccountRow
<1>4. TablesOK'
  BY DEF Unbind, SyncInv, SyncTypeOK, TablesOK
<1>5. SyncGo(h, [run EXCEPT !.pc = "down.save", !.row = row]) \/ SyncTo(h, "down.gewis")
  BY DEF Unbind, SyncTo
<1> HIDE DEF row
<1>6. CASE SyncTo(h, "down.gewis")
  BY <1>1, <1>4, <1>6, RunTo DEF Phases
<1>7. CASE SyncGo(h, [run EXCEPT !.pc = "down.save", !.row = row])
  <2> DEFINE next == [run EXCEPT !.pc = "down.save", !.row = row]
  <2>1. "down.save" \in Phases
    BY DEF Phases
  <2>2. next \in Run /\ next.result = run.result /\ next.vouched = run.vouched
    BY <1>2, <1>3, <2>1 DEF Run
  <2>3. SyncGo(h, next)
    BY <1>7
  <2> HIDE DEF next
  <2> QED BY <1>1, <1>4, <2>2, <2>3, RunGoesOn
<1> QED BY <1>5, <1>6, <1>7

LEMMA ReadBalanceInv ==
  ASSUME SyncInv, NEW h \in Handlers, ReadBalance(h)
  PROVE  SyncInv'
<1> DEFINE delete == syncTask[h].account \in settled
           run == [syncTask[h] EXCEPT !.pc = "close.load", !.delete = delete]
<1>1. ~ SyncAt(h, "idle") /\ syncTask[h].pc \in Downs /\ TablesOK'
  BY TablesKept DEF ReadBalance, SyncAt, Downs
<1>2. syncTask[h] \in Run
  BY <1>1, RunOf
<1>3. delete \in BOOLEAN
  OBVIOUS
<1>4. SyncGo(h, run) \/ SyncTo(h, "next")
  BY DEF ReadBalance, SyncTo
<1> HIDE DEF delete
<1>5. run \in Run /\ run.result = syncTask[h].result /\ run.vouched = syncTask[h].vouched
  BY <1>2, <1>3 DEF Run, Phases
<1> HIDE DEF run
<1>6. CASE SyncGo(h, run)
  BY <1>1, <1>5, <1>6, RunGoesOn
<1>7. CASE SyncTo(h, "next")
  BY <1>1, <1>7, RunTo DEF Phases
<1> QED BY <1>4, <1>6, <1>7

LEMMA LoadClosedInv ==
  ASSUME SyncInv, NEW h \in Handlers, LoadClosed(h) \/ CheckSettled(h)
  PROVE  SyncInv'
<1>1. ~ SyncAt(h, "idle") /\ syncTask[h].pc \in Downs /\ TablesOK'
  BY TablesKept DEF LoadClosed, CheckSettled, SyncAt, Downs
<1>2. syncTask[h] \in Run
  BY <1>1, RunOf
<1>3. PICK pc \in {"close.balance", "close.save"}, row \in AccountRow :
        SyncGo(h, [syncTask[h] EXCEPT !.pc = pc, !.row = row]) \/ SyncTo(h, "next")
  <2>1. userRow[syncTask[h].account] \in AccountRow
    BY <1>2 DEF Run, SyncInv, SyncTypeOK
  <2>2. [active |-> FALSE, deleted |-> syncTask[h].delete, canGoIntoDebt |-> FALSE] \in AccountRow
    BY <1>2 DEF Run, AccountRow
  <2>3. CASE LoadClosed(h)
    BY <2>1, <2>3 DEF LoadClosed
  <2>4. CASE CheckSettled(h)
    BY <2>2, <2>4 DEF CheckSettled, SyncTo
  <2> QED BY <2>3, <2>4
<1> DEFINE run == [syncTask[h] EXCEPT !.pc = pc, !.row = row]
<1>4. run \in Run /\ run.result = syncTask[h].result /\ run.vouched = syncTask[h].vouched
  BY <1>2 DEF Run, Phases
<1>5. SyncGo(h, run) \/ SyncTo(h, "next")
  BY <1>3
<1> HIDE DEF run
<1>6. CASE SyncGo(h, run)
  BY <1>1, <1>4, <1>6, RunGoesOn
<1>7. CASE SyncTo(h, "next")
  BY <1>1, <1>7, RunTo DEF Phases
<1> QED BY <1>5, <1>6, <1>7

LEMMA TellClosedInv ==
  ASSUME SyncInv, NEW h \in Handlers, TellClosed(h)
  PROVE  SyncInv'
<1>1. ~ SyncAt(h, "idle")
  BY DEF TellClosed, SyncAt
<1>2. mails' \in [Accounts -> Nat]
  <2>1. syncTask[h].account \in Accounts
    BY <1>1, RunOf DEF Run
  <2>2. mails \in [Accounts -> Nat] /\ mails[syncTask[h].account] + 1 \in Nat
    BY <2>1 DEF SyncInv, SyncTypeOK
  <2> QED BY <2>2 DEF TellClosed
<1>3. TablesOK'
  BY <1>2 DEF TellClosed, SyncInv, SyncTypeOK, TablesOK
<1> QED BY <1>1, <1>3, RunTo DEF TellClosed, Phases, Downs

LEMMA SyncStepInv ==
  ASSUME SyncInv, NEW h \in Handlers, SyncStep(h)
  PROVE  SyncInv'
<1>1. CASE EndSync(h)
  BY <1>1, TablesKept, RunStops DEF EndSync
<1> QED BY <1>1, StartSyncInv, NextTargetInv, AskLDAPInv, SavesInv, LoadMemberInv, AskMembershipInv,
           DecideInv, UnbindInv, ReadBalanceInv, LoadClosedInv, TellClosedInv DEF SyncStep
-----------------------------------------------------------------------------
(***************************************************************************)
(* What happens around a run keeps the runs, or stops one of their steps.  *)
(***************************************************************************)
LEMMA ChangesType == SyncInv /\ Changed => changes' \in 0 .. MaxChanges
BY SyncAssumption DEF SyncInv, SyncTypeOK, Changed

LEMMA PatchedRow ==
  ASSUME SyncInv, NEW a \in Accounts, PatchActive(a)
  PROVE  \E row \in AccountRow : WriteRow(a, row)
<1>1. userRow[a] \in AccountRow
  BY DEF SyncInv, SyncTypeOK
<1>2. [userRow[a] EXCEPT !.active = ~ @] \in AccountRow
  BY <1>1 DEF AccountRow
<1> QED BY <1>2 DEF PatchActive

LEMMA AroundInv ==
  ASSUME SyncInv, NEW a \in Accounts,
         LDAPChanges(a) \/ MembershipChanges(a) \/ LoginBinds(a) \/ BalanceChanges(a) \/ PatchActive(a)
  PROVE  SyncInv'
<1>1. syncTask' = syncTask /\ changes' \in 0 .. MaxChanges
  BY ChangesType DEF LDAPChanges, MembershipChanges, LoginBinds, BalanceChanges, PatchActive
<1>2. Toggle(inLDAP, a) \subseteq Accounts /\ Toggle(settled, a) \subseteq Accounts
  BY DEF Toggle, SyncInv, SyncTypeOK
<1>3. a \in MemberUsers => Toggle(isMember, a) \subseteq MemberUsers
  BY DEF Toggle, SyncInv, SyncTypeOK
<1>4. PatchActive(a) => userRow' \in [Accounts -> AccountRow] /\ edges' \in [Accounts -> Nat]
  BY PatchedRow, WriteRowTypes
<1>5. TablesOK'
  BY <1>1, <1>2, <1>3, <1>4 DEF LDAPChanges, MembershipChanges, LoginBinds, BalanceChanges,
     PatchActive, SyncInv, SyncTypeOK, TablesOK
<1> QED BY <1>1, <1>5, Around

LEMMA StopsInv ==
  ASSUME SyncInv, NEW h \in Handlers, SyncError(h) \/ SyncDies(h)
  PROVE  SyncInv'
<1>1. ~ SyncAt(h, "idle") /\ changes' \in 0 .. MaxChanges
  BY ChangesType DEF SyncError, SyncDies, SyncAt
<1>2. TablesOK'
  BY <1>1 DEF SyncError, SyncDies, SyncInv, SyncTypeOK, TablesOK
<1>3. SyncGo(h, Idle) \/ SyncTo(h, "next") \/ (SyncTo(h, "down.gewis") /\ syncTask[h].pc \in Downs)
  BY DEF SyncError, SyncDies, SyncAt, Downs
<1> QED BY <1>1, <1>2, <1>3, RunTo, RunStops DEF Phases, Downs

LEMMA SyncNextInv == SyncInv /\ [SyncNext]_syncVars => SyncInv'
<1> SUFFICES ASSUME SyncInv, [SyncNext]_syncVars PROVE SyncInv'
  OBVIOUS
<1>1. CASE UNCHANGED syncVars
  BY <1>1, TablesKept, Around DEF syncVars, syncTables
<1> QED BY <1>1, SyncStepInv, AroundInv, StopsInv DEF SyncNext

LEMMA SyncInvAlways == SyncSpec => []SyncInv
BY SyncInitInv, SyncNextInv, PTL DEF SyncSpec

(***************************************************************************)
(* Every reachable state of the model of the synchronisation is well typed.*)
(***************************************************************************)
THEOREM SyncTypeCorrect == SyncSpec => []SyncTypeOK
<1>1. SyncInv => SyncTypeOK
  BY DEF SyncInv
<1> QED BY <1>1, SyncInvAlways, PTL

(***************************************************************************)
(* For any number of runs, users and errors: a run takes nobody down that  *)
(* a service vouched for in that run.                                      *)
(***************************************************************************)
THEOREM VouchedIsKeptAlways == SyncSpec => []VouchedIsKept
<1>1. SyncInv => VouchedIsKept
  BY DEF SyncInv, VouchedIsKept, Vouches, SyncAt, Downs
<1> QED BY <1>1, SyncInvAlways, PTL
-----------------------------------------------------------------------------
(***************************************************************************)
(* A run looks at an account that was active when it started: the account  *)
(* is still active, or has been deactivated without a mail, by this run or *)
(* a request meanwhile.  Awaited are the accounts that are left and the    *)
(* one at hand.                                                            *)
(***************************************************************************)
Awaited(run) == run.todo \cup (IF run.pc \in {"next", "notify"} THEN {} ELSE {run.account})

MayTell(a) == userRow[a].active \/ mails[a] < edges[a]

Tells(run) ==
  /\ \A a \in Awaited(run) : run.rows[a].active => MayTell(a)
  /\ run.pc # "next" => run.account \notin run.todo
  /\ run.pc = "close.save" => ~ run.row.active
  /\ run.pc = "notify" /\ FallingEdge(run) => mails[run.account] < edges[run.account]

ToldInv ==
  /\ SyncInv /\ ToldOnce
  /\ \A h \in Handlers : SyncAt(h, "idle") \/ Tells(syncTask[h])

LEMMA AwaitedAre == ASSUME NEW run \in Run PROVE Awaited(run) \subseteq Accounts
BY DEF Awaited, Run

\* Whoever writes a row, a mail may be sent afterwards if it might have been before.
LEMMA MayStillTell ==
  ASSUME SyncInv, ToldOnce, NEW a \in Accounts, NEW row \in AccountRow, WriteRow(a, row), mails' = mails
  PROVE  /\ ToldOnce' /\ \A b \in Accounts : MayTell(b) => MayTell(b)'
         /\ userRow'[a] = row /\ \A b \in Accounts : mails[b] \in Nat /\ edges[b] <= edges'[b]
                                                    /\ edges[b] \in Nat /\ edges'[b] \in Nat
<1>1. /\ mails \in [Accounts -> Nat] /\ edges \in [Accounts -> Nat] /\ edges' \in [Accounts -> Nat]
      /\ userRow \in [Accounts -> AccountRow] /\ \A b \in Accounts : mails[b] <= edges[b]
  BY WriteRowTypes DEF SyncInv, SyncTypeOK, ToldOnce
<1>2. /\ userRow' = [userRow EXCEPT ![a] = row]
      /\ edges' = IF userRow[a].active /\ ~ row.active THEN [edges EXCEPT ![a] = @ + 1] ELSE edges
  BY DEF WriteRow
<1>3. \A b \in Accounts : mails[b] \in Nat /\ edges[b] <= edges'[b] /\ edges[b] \in Nat /\ edges'[b] \in Nat
  BY <1>1, <1>2
<1>4. ASSUME NEW b \in Accounts, MayTell(b) PROVE MayTell(b)'
  <2>1. CASE b = a /\ userRow[a].active /\ ~ row.active
    <3>1. edges'[a] = edges[a] + 1
      BY <1>1, <1>2, <2>1
    <3>2. mails'[a] < edges'[a]
      BY <1>1, <3>1
    <3> QED BY <2>1, <3>2 DEF MayTell
  <2>2. CASE ~ (b = a /\ userRow[a].active /\ ~ row.active)
    BY <1>1, <1>2, <1>4, <2>2 DEF MayTell
  <2> QED BY <2>1, <2>2
<1>5. ToldOnce'
  BY <1>1, <1>3 DEF ToldOnce
<1> QED BY <1>1, <1>2, <1>3, <1>4, <1>5

LEMMA ToldInitInv == SyncInit => ToldInv
<1> SUFFICES ASSUME SyncInit PROVE ToldInv
  OBVIOUS
<1>1. ToldOnce
  BY DEF SyncInit, ToldOnce
<1>2. \A h \in Handlers : SyncAt(h, "idle")
  BY DEF SyncInit, SyncAt, Idle
<1> QED BY <1>1, <1>2, SyncInitInv DEF ToldInv

\* The run at hand goes on to another phase with the same account and rows.
LEMMA TellsOn ==
  ASSUME ToldInv, NEW h \in Handlers, ~ SyncAt(h, "idle"), NEW run \in Run, SyncGo(h, run),
         run.todo = syncTask[h].todo, run.rows = syncTask[h].rows, run.account = syncTask[h].account,
         syncTask[h].pc \notin {"next", "notify"} \/ run.pc = "next",
         run.pc # "notify", run.pc = "close.save" => ~ run.row.active,
         \A a \in Accounts : MayTell(a) => MayTell(a)'
  PROVE  SyncAt(h, "idle")' \/ Tells(syncTask[h])'
<1>1. Tells(syncTask[h]) /\ syncTask'[h] = run
  BY DEF ToldInv, SyncGo, SyncInv, SyncTypeOK
<1>2. Awaited(run) \subseteq Awaited(syncTask[h])
  BY DEF Awaited
<1>3. \A a \in Awaited(run) : run.rows[a].active => MayTell(a)'
  BY <1>1, <1>2, AwaitedAre DEF Tells
<1>4. run.pc # "next" => run.account \notin run.todo
  BY <1>1 DEF Tells
<1>5. Awaited(syncTask[h])' = Awaited(run)
  BY <1>1 DEF Awaited
<1> QED BY <1>1, <1>3, <1>4, <1>5 DEF Tells

LEMMA TellsTo ==
  ASSUME ToldInv, NEW h \in Handlers, ~ SyncAt(h, "idle"), NEW pc \in Phases, SyncTo(h, pc),
         syncTask[h].pc \notin {"next", "notify"} \/ pc = "next",
         pc \notin {"notify", "close.save"},
         \A a \in Accounts : MayTell(a) => MayTell(a)'
  PROVE  SyncAt(h, "idle")' \/ Tells(syncTask[h])'
<1> DEFINE run == [syncTask[h] EXCEPT !.pc = pc]
<1>1. syncTask[h] \in Run
  BY RunOf DEF ToldInv
<1>2. /\ run \in Run /\ run.pc = pc /\ run.todo = syncTask[h].todo /\ run.rows = syncTask[h].rows
      /\ run.account = syncTask[h].account
  BY <1>1 DEF Run
<1>3. SyncGo(h, run)
  BY DEF SyncTo
<1> HIDE DEF run
<1> QED BY <1>2, <1>3, TellsOn

LEMMA StartTells ==
  ASSUME ToldInv, SyncInv', NEW h \in Handlers, StartSync(h)
  PROVE  SyncAt(h, "idle")' \/ Tells(syncTask[h])'
<1>1. PICK a \in Accounts :
        SyncGo(h, [pc |-> "next", todo |-> {b \in Accounts : ~ userRow[b].deleted}, rows |-> userRow,
                   account |-> a, row |-> userRow[a], skipped |-> TRUE, result |-> FALSE,
                   vouched |-> FALSE, delete |-> FALSE])
  BY DEF StartSync
<1>2. /\ syncTask'[h].pc = "next" /\ syncTask'[h].rows = userRow
  BY <1>1 DEF SyncGo, ToldInv, SyncInv, SyncTypeOK
<1>3. userRow' = userRow
  BY DEF StartSync, syncTables
<1> QED BY <1>2, <1>3 DEF Tells, MayTell

LEMMA NextTells ==
  ASSUME ToldInv, NEW h \in Handlers, NEW a \in Accounts, NextTarget(h, a)
  PROVE  SyncAt(h, "idle")' \/ Tells(syncTask[h])'
<1> DEFINE old == syncTask[h]
<1>1. old \in Run /\ Tells(old) /\ old.pc = "next" /\ a \in old.todo
  BY RunOf DEF ToldInv, NextTarget, SyncAt
<1>2. /\ syncTask'[h].pc = "ldap" /\ syncTask'[h].todo = old.todo \ {a} /\ syncTask'[h].rows = old.rows
      /\ syncTask'[h].account = a
  BY <1>1 DEF NextTarget, SyncGo, ToldInv, SyncInv, SyncTypeOK, Run
<1>3. UNCHANGED <<userRow, mails, edges>>
  BY DEF NextTarget, syncTables
<1>4. Awaited(syncTask'[h]) \subseteq Awaited(old)
  BY <1>1, <1>2 DEF Awaited
<1>5. \A b \in Awaited(syncTask'[h]) : syncTask'[h].rows[b].active => MayTell(b)'
  BY <1>1, <1>2, <1>3, <1>4 DEF Tells, MayTell
<1> QED BY <1>1, <1>2, <1>5 DEF Tells, Awaited

(***************************************************************************)
(* The answers of the services.                                            *)
(***************************************************************************)
LEMMA AnswerKeeps ==
  ASSUME NEW run \in Run, NEW answer \in BOOLEAN
  PROVE  /\ Answer(run, answer) \in Run /\ Answer(run, answer).row = run.row
         /\ Answer(run, answer).todo = run.todo /\ Answer(run, answer).rows = run.rows
         /\ Answer(run, answer).account = run.account
BY DEF Answer, Run

LEMMA AnswerTells ==
  ASSUME ToldInv, NEW h \in Handlers, syncTask[h].pc \in {"ldap", "gewis.ask"}, UNCHANGED syncTables,
         NEW answer \in BOOLEAN, NEW pc \in {"ldap.save", "gewis", "gewis.save", "decide"},
         NEW row \in AccountRow,
         \/ SyncGo(h, [Answer(syncTask[h], answer) EXCEPT !.pc = pc])
         \/ SyncGo(h, [Answer(syncTask[h], answer) EXCEPT !.pc = pc, !.row = row])
  PROVE  SyncAt(h, "idle")' \/ Tells(syncTask[h])'
<1> DEFINE answered == Answer(syncTask[h], answer)
           run == [answered EXCEPT !.pc = pc]
           saved == [answered EXCEPT !.pc = pc, !.row = row]
<1>1. ~ SyncAt(h, "idle") /\ syncTask[h] \in Run
  BY RunOf DEF SyncAt, ToldInv
<1>2. /\ answered \in Run /\ answered.todo = syncTask[h].todo /\ answered.rows = syncTask[h].rows
      /\ answered.account = syncTask[h].account
  BY <1>1, AnswerKeeps
<1>3. SyncGo(h, run) \/ SyncGo(h, saved)
  OBVIOUS
<1>T. \A a \in Accounts : MayTell(a) => MayTell(a)'
  BY DEF MayTell, syncTables
<1> HIDE DEF answered
<1>4. pc \in Phases
  BY DEF Phases
<1>5. /\ run \in Run /\ run.todo = syncTask[h].todo /\ run.rows = syncTask[h].rows
      /\ run.account = syncTask[h].account /\ run.pc = pc
  BY <1>2, <1>4 DEF Run
<1>6. /\ saved \in Run /\ saved.todo = syncTask[h].todo /\ saved.rows = syncTask[h].rows
      /\ saved.account = syncTask[h].account /\ saved.pc = pc
  BY <1>2, <1>4 DEF Run
<1> HIDE DEF run, saved
<1>7. CASE SyncGo(h, run)
  BY <1>1, <1>5, <1>7, <1>T, TellsOn
<1>8. CASE SyncGo(h, saved)
  BY <1>1, <1>6, <1>8, <1>T, TellsOn
<1> QED BY <1>3, <1>7, <1>8

LEMMA AskLDAPTells ==
  ASSUME ToldInv, NEW h \in Handlers, AskLDAP(h)
  PROVE  SyncAt(h, "idle")' \/ Tells(syncTask[h])'
<1> DEFINE run == syncTask[h]
           answer == run.account \in bound /\ run.account \in inLDAP
           row == [Answer(run, TRUE).row EXCEPT !.active = TRUE, !.canGoIntoDebt = FALSE]
<1>1. ~ SyncAt(h, "idle") /\ run.pc = "ldap" /\ UNCHANGED syncTables
  BY DEF AskLDAP, SyncAt
<1>2. run \in Run
  BY <1>1, RunOf DEF ToldInv
<1>3. row \in AccountRow
  <2>1. Answer(run, TRUE).row \in AccountRow
    BY <1>2, AnswerKeeps DEF Run
  <2> QED BY <2>1 DEF AccountRow
<1>4. \/ SyncGo(h, [run EXCEPT !.pc = "gewis"])
      \/ SyncGo(h, [Answer(run, TRUE) EXCEPT !.pc = "ldap.save", !.row = row])
      \/ SyncGo(h, [Answer(run, answer) EXCEPT !.pc = "gewis"])
  BY DEF AskLDAP
<1> HIDE DEF row, answer
<1>5. CASE SyncGo(h, [run EXCEPT !.pc = "gewis"])
  <2>1. SyncTo(h, "gewis")
    BY <1>5 DEF SyncTo
  <2>2. \A a \in Accounts : MayTell(a) => MayTell(a)'
    BY <1>1 DEF MayTell, syncTables
  <2> QED BY <1>1, <2>1, <2>2, TellsTo DEF Phases
<1>6. CASE SyncGo(h, [Answer(run, TRUE) EXCEPT !.pc = "ldap.save", !.row = row])
  BY <1>1, <1>3, <1>6, AnswerTells
<1>7. CASE SyncGo(h, [Answer(run, answer) EXCEPT !.pc = "gewis"])
  <2>1. answer \in BOOLEAN
    BY DEF answer
  <2> QED BY <1>1, <1>3, <1>7, <2>1, AnswerTells
<1> QED BY <1>4, <1>5, <1>6, <1>7

LEMMA AskMembershipTells ==
  ASSUME ToldInv, NEW h \in Handlers, NEW changed \in BOOLEAN, AskMembership(h, changed)
  PROVE  SyncAt(h, "idle")' \/ Tells(syncTask[h])'
<1> DEFINE run == syncTask[h]
           answer == run.account \in isMember
           row == [Answer(run, TRUE).row EXCEPT !.active = TRUE]
<1>1. ~ SyncAt(h, "idle") /\ run.pc = "gewis.ask" /\ UNCHANGED syncTables
  BY DEF AskMembership, SyncAt
<1>2. run \in Run
  BY <1>1, RunOf DEF ToldInv
<1>3. Answer(run, TRUE) \in Run
  BY <1>2, AnswerKeeps
<1>4. row \in AccountRow
  BY <1>3 DEF Run, AccountRow
<1>5. [Answer(run, TRUE) EXCEPT !.pc = "gewis.save", !.row.active = TRUE]
        = [Answer(run, TRUE) EXCEPT !.pc = "gewis.save", !.row = row]
  BY <1>3 DEF Run
<1>6. \/ SyncGo(h, [Answer(run, TRUE) EXCEPT !.pc = "gewis.save", !.row = row])
      \/ SyncGo(h, [Answer(run, answer) EXCEPT !.pc = "decide"])
  BY <1>5 DEF AskMembership
<1>7. answer \in BOOLEAN
  OBVIOUS
<1> HIDE DEF row, answer
<1> QED BY <1>1, <1>4, <1>6, <1>7, AnswerTells

LEMMA LoadMemberTells ==
  ASSUME ToldInv, NEW h \in Handlers, LoadMember(h)
  PROVE  SyncAt(h, "idle")' \/ Tells(syncTask[h])'
<1> DEFINE row == userRow[syncTask[h].account]
           run == [syncTask[h] EXCEPT !.pc = "gewis.ask", !.row = row]
<1>1. ~ SyncAt(h, "idle") /\ syncTask[h].pc = "gewis" /\ syncTask[h] \in Run
  BY RunOf DEF LoadMember, SyncAt, ToldInv
<1>T. \A a \in Accounts : MayTell(a) => MayTell(a)'
  BY DEF LoadMember, MayTell, syncTables
<1>2. row \in AccountRow
  BY <1>1 DEF Run, ToldInv, SyncInv, SyncTypeOK
<1>3. SyncGo(h, run) \/ SyncTo(h, "decide")
  BY DEF LoadMember, SyncTo
<1> HIDE DEF row
<1>4. "gewis.ask" \in Phases
  BY DEF Phases
<1>5. /\ run \in Run /\ run.todo = syncTask[h].todo /\ run.rows = syncTask[h].rows
      /\ run.account = syncTask[h].account /\ run.pc = "gewis.ask"
  BY <1>1, <1>2, <1>4 DEF Run
<1> HIDE DEF run
<1>6. CASE SyncTo(h, "decide")
  BY <1>1, <1>6, <1>T, TellsTo DEF Phases
<1>7. CASE SyncGo(h, run)
  BY <1>1, <1>5, <1>7, <1>T, TellsOn
<1> QED BY <1>3, <1>6, <1>7

LEMMA SavesTell ==
  ASSUME ToldInv, NEW h \in Handlers, SaveOrgan(h) \/ SaveMember(h) \/ DeleteOrgan(h)
  PROVE  ToldOnce' /\ (SyncAt(h, "idle")' \/ Tells(syncTask[h])')
<1>1. /\ ~ SyncAt(h, "idle") /\ SaveRow(syncTask[h].account, syncTask[h].row)
      /\ syncTask[h].pc \in {"ldap.save", "gewis.save", "down.save"}
      /\ SyncTo(h, "gewis") \/ SyncTo(h, "decide") \/ SyncTo(h, "down.gewis")
  BY DEF SaveOrgan, SaveMember, DeleteOrgan, SyncAt
<1>2. syncTask[h].account \in Accounts /\ syncTask[h].row \in AccountRow
  BY <1>1, RunOf DEF ToldInv, Run
<1>3. ToldOnce' /\ \A a \in Accounts : MayTell(a) => MayTell(a)'
  BY <1>1, <1>2, MayStillTell DEF ToldInv, SaveRow
<1> QED BY <1>1, <1>3, TellsTo DEF Phases

LEMMA UnbindTells ==
  ASSUME ToldInv, NEW h \in Handlers, Unbind(h)
  PROVE  SyncAt(h, "idle")' \/ Tells(syncTask[h])'
<1> DEFINE old == syncTask[h]
           row == [old.rows[old.account] EXCEPT !.deleted = TRUE, !.active = FALSE]
           run == [old EXCEPT !.pc = "down.save", !.row = row]
<1>1. ~ SyncAt(h, "idle") /\ old.pc = "down.ldap" /\ old \in Run
  BY RunOf DEF Unbind, SyncAt, ToldInv
<1>T. \A a \in Accounts : MayTell(a) => MayTell(a)'
  BY DEF Unbind, MayTell
<1>2. row \in AccountRow
  BY <1>1 DEF Run, AccountRow
<1>3. SyncGo(h, run) \/ SyncTo(h, "down.gewis")
  BY DEF Unbind, SyncTo
<1> HIDE DEF row
<1>4. "down.save" \in Phases
  BY DEF Phases
<1>5. run \in Run /\ run.todo = old.todo /\ run.rows = old.rows /\ run.account = old.account /\ run.pc = "down.save"
  BY <1>1, <1>2, <1>4 DEF Run
<1> HIDE DEF run
<1>6. CASE SyncTo(h, "down.gewis")
  BY <1>1, <1>6, <1>T, TellsTo DEF Phases
<1>7. CASE SyncGo(h, run)
  BY <1>1, <1>5, <1>7, <1>T, TellsOn
<1> QED BY <1>3, <1>6, <1>7

LEMMA ReadsTell ==
  ASSUME ToldInv, NEW h \in Handlers, ReadBalance(h) \/ LoadClosed(h) \/ CheckSettled(h)
  PROVE  SyncAt(h, "idle")' \/ Tells(syncTask[h])'
<1> DEFINE old == syncTask[h]
<1>1. /\ ~ SyncAt(h, "idle") /\ old.pc \in {"down.gewis", "close.load", "close.balance"}
      /\ old \in Run /\ Tells(old)
  BY RunOf DEF ReadBalance, LoadClosed, CheckSettled, SyncAt, ToldInv
<1>T. \A a \in Accounts : MayTell(a) => MayTell(a)'
  BY DEF ReadBalance, LoadClosed, CheckSettled, MayTell, syncTables
<1>2. PICK pc \in {"close.load", "close.balance", "close.save"}, row \in AccountRow, delete \in BOOLEAN :
        \/ /\ SyncGo(h, [old EXCEPT !.pc = pc, !.row = row, !.delete = delete])
           /\ pc = "close.save" => ~ row.active
        \/ SyncTo(h, "next")
  <2>1. old.account \in Accounts /\ userRow[old.account] \in AccountRow /\ old.row \in AccountRow /\ old.delete \in BOOLEAN
    BY <1>1 DEF Run, ToldInv, SyncInv, SyncTypeOK
  <2>2. [active |-> FALSE, deleted |-> old.delete, canGoIntoDebt |-> FALSE] \in AccountRow
    BY <2>1 DEF AccountRow
  <2>3. CASE ReadBalance(h)
    <3> DEFINE answer == old.account \in settled
    <3>1. SyncGo(h, [old EXCEPT !.pc = "close.load", !.delete = answer]) \/ SyncTo(h, "next")
      BY <2>3 DEF ReadBalance, SyncTo
    <3>2. answer \in BOOLEAN
      OBVIOUS
    <3> HIDE DEF answer
    <3>3. [old EXCEPT !.pc = "close.load", !.delete = answer]
            = [old EXCEPT !.pc = "close.load", !.row = old.row, !.delete = answer]
      BY <1>1 DEF Run
    <3> HIDE DEF old
    <3> QED BY <2>1, <3>1, <3>2, <3>3
  <2>4. CASE LoadClosed(h)
    <3>1. SyncGo(h, [old EXCEPT !.pc = "close.balance", !.row = userRow[old.account]])
      BY <2>4 DEF LoadClosed
    <3>2. [old EXCEPT !.pc = "close.balance", !.row = userRow[old.account]]
            = [old EXCEPT !.pc = "close.balance", !.row = userRow[old.account], !.delete = old.delete]
      BY <1>1 DEF Run
    <3> QED BY <2>1, <3>1, <3>2
  <2>5. CASE CheckSettled(h)
    <3> DEFINE row == [active |-> FALSE, deleted |-> old.delete, canGoIntoDebt |-> FALSE]
    <3>1. SyncGo(h, [old EXCEPT !.pc = "close.save", !.row = row]) \/ SyncTo(h, "next")
      BY <2>5 DEF CheckSettled, SyncTo
    <3>2. [old EXCEPT !.pc = "close.save", !.row = row]
            = [old EXCEPT !.pc = "close.save", !.row = row, !.delete = old.delete]
      BY <1>1 DEF Run
    <3>3. ~ row.active
      OBVIOUS
    <3> HIDE DEF row
    <3>4. row \in AccountRow
      BY <2>2 DEF row
    <3> QED BY <2>1, <3>1, <3>2, <3>3, <3>4
  <2> QED BY <2>3, <2>4, <2>5
<1> DEFINE run == [old EXCEPT !.pc = pc, !.row = row, !.delete = delete]
<1>3. (SyncGo(h, run) /\ (pc = "close.save" => ~ row.active)) \/ SyncTo(h, "next")
  BY <1>2
<1>4. pc \in Phases
  BY DEF Phases
<1>5. /\ run \in Run /\ run.todo = old.todo /\ run.rows = old.rows /\ run.account = old.account
      /\ run.pc = pc /\ run.row = row
  BY <1>1, <1>4 DEF Run
<1> HIDE DEF run
<1>6. CASE SyncTo(h, "next")
  BY <1>1, <1>6, <1>T, TellsTo DEF Phases
<1>7. CASE SyncGo(h, run) /\ (pc = "close.save" => ~ row.active)
  BY <1>1, <1>5, <1>7, <1>T, TellsOn
<1> QED BY <1>3, <1>6, <1>7

\* closeUser: the row is inactive afterwards, so that the user may be told, once.
LEMMA SaveClosedTold ==
  ASSUME ToldInv, NEW h \in Handlers, SaveClosed(h)
  PROVE  ToldOnce' /\ Tells(syncTask[h])'
<1> DEFINE run == syncTask[h]
           a == run.account
<1>1. run.pc = "close.save" /\ SaveRow(a, run.row) /\ SyncTo(h, "notify")
  BY DEF SaveClosed, SyncAt
<1>2. run \in Run /\ Tells(run)
  BY <1>1, RunOf DEF ToldInv, SyncAt
<1>3. /\ syncTask'[h].pc = "notify" /\ syncTask'[h].todo = run.todo /\ syncTask'[h].rows = run.rows
      /\ syncTask'[h].account = a
  BY <1>1, <1>2 DEF SyncTo, SyncGo, ToldInv, SyncInv, SyncTypeOK, Run
<1>4. a \in Accounts /\ a \notin run.todo /\ run.todo \subseteq Accounts /\ run.row \in AccountRow /\ ~ run.row.active
  BY <1>1, <1>2 DEF Tells, Run
<1>5. /\ ToldOnce' /\ \A b \in Accounts : MayTell(b) => MayTell(b)'
      /\ userRow'[a] = run.row
  BY <1>1, <1>4, MayStillTell DEF SaveRow, ToldInv
<1>6. FallingEdge(syncTask'[h]) => mails'[a] < edges'[a]
  <2>1. FallingEdge(syncTask'[h]) => run.rows[a].active
    BY <1>3 DEF FallingEdge
  <2>2. run.rows[a].active => MayTell(a)
    BY <1>1, <1>2 DEF Tells, Awaited
  <2> QED BY <1>4, <1>5, <2>1, <2>2 DEF MayTell
<1>7. \A b \in run.todo : run.rows[b].active => MayTell(b)'
  BY <1>2, <1>4, <1>5 DEF Tells, Awaited
<1>8. Awaited(syncTask'[h]) = run.todo
  BY <1>3 DEF Awaited
<1> QED BY <1>3, <1>4, <1>5, <1>6, <1>7, <1>8 DEF Tells

LEMMA TellClosedTold ==
  ASSUME ToldInv, NEW h \in Handlers, TellClosed(h)
  PROVE  ToldOnce' /\ Tells(syncTask[h])'
<1> DEFINE run == syncTask[h]
           a == run.account
<1>1. /\ run.pc = "notify" /\ SyncTo(h, "next") /\ userRow' = userRow /\ edges' = edges
      /\ mails' = IF FallingEdge(run) THEN [mails EXCEPT ![a] = @ + 1] ELSE mails
  BY DEF TellClosed, SyncAt
<1>2. run \in Run /\ Tells(run)
  BY <1>1, RunOf DEF ToldInv, SyncAt
<1>3. syncTask'[h].pc = "next" /\ syncTask'[h].todo = run.todo /\ syncTask'[h].rows = run.rows
  BY <1>1, <1>2 DEF SyncTo, SyncGo, ToldInv, SyncInv, SyncTypeOK, Run
<1>4. a \in Accounts /\ mails \in [Accounts -> Nat] /\ edges \in [Accounts -> Nat]
  BY <1>2 DEF Run, ToldInv, SyncInv, SyncTypeOK
<1>5. ToldOnce'
  <2> SUFFICES ASSUME NEW b \in Accounts PROVE mails'[b] <= edges[b]
    BY <1>1 DEF ToldOnce
  <2>1. mails[b] <= edges[b] /\ mails[b] \in Nat /\ edges[b] \in Nat
    BY <1>4 DEF ToldInv, ToldOnce
  <2>2. FallingEdge(run) => mails[a] < edges[a]
    BY <1>1, <1>2 DEF Tells
  <2> QED BY <1>1, <1>4, <2>1, <2>2
<1>6. \A b \in run.todo : run.rows[b].active => MayTell(b)'
  <2> SUFFICES ASSUME NEW b \in run.todo, run.rows[b].active PROVE MayTell(b)'
    OBVIOUS
  <2>1. MayTell(b) /\ b # a /\ b \in Accounts
    BY <1>1, <1>2 DEF Tells, Awaited, Run
  <2>2. mails'[b] = mails[b]
    BY <1>1, <1>4, <2>1
  <2> QED BY <1>1, <2>1, <2>2 DEF MayTell
<1>7. Awaited(syncTask'[h]) = run.todo
  BY <1>3 DEF Awaited
<1> QED BY <1>3, <1>5, <1>6, <1>7 DEF Tells

LEMMA ToldNext == ToldInv /\ (\A g, h \in Handlers : g = h) /\ [SyncNext]_syncVars => ToldInv'
<1> SUFFICES ASSUME ToldInv, \A g, h \in Handlers : g = h, [SyncNext]_syncVars PROVE ToldInv'
  OBVIOUS
<1>1. SyncInv'
  BY SyncNextInv DEF ToldInv
<1>2. ASSUME NEW h \in Handlers, SyncAt(h, "idle")' \/ Tells(syncTask[h])', ToldOnce'
      PROVE  ToldInv'
  <2>1. \A g \in Handlers : g = h
    OBVIOUS
  <2>2. \A g \in Handlers : SyncAt(g, "idle")' \/ Tells(syncTask[g])'
    BY <1>2, <2>1
  <2> QED BY <1>1, <1>2, <2>2 DEF ToldInv
<1>K. ASSUME UNCHANGED <<mails, edges>> PROVE ToldOnce'
  BY <1>K DEF ToldInv, ToldOnce
<1>3. ASSUME NEW h \in Handlers, SyncStep(h) PROVE ToldInv'
  <2>1. CASE SaveClosed(h) \/ TellClosed(h)
    BY <1>2, <2>1, SaveClosedTold, TellClosedTold
  <2>2. CASE EndSync(h)
    <3>1. SyncAt(h, "idle")' /\ UNCHANGED <<mails, edges>>
      BY <2>2 DEF EndSync, SyncGo, SyncAt, Idle, syncTables, ToldInv, SyncInv, SyncTypeOK
    <3> QED BY <1>2, <1>K, <3>1
  <2>3. CASE Decide(h)
    <3>1. /\ ~ SyncAt(h, "idle") /\ syncTask[h].pc = "decide" /\ UNCHANGED <<userRow, mails, edges>>
          /\ SyncTo(h, "next") \/ SyncTo(h, "down.ldap")
      BY <2>3 DEF Decide, SyncAt, syncTables
    <3>2. \A a \in Accounts : MayTell(a) => MayTell(a)'
      BY <3>1 DEF MayTell
    <3>3. SyncAt(h, "idle")' \/ Tells(syncTask[h])'
      BY <3>1, <3>2, TellsTo DEF Phases
    <3> QED BY <1>2, <1>K, <3>1, <3>3
  <2>4. CASE \/ StartSync(h) \/ (\E a \in Accounts : NextTarget(h, a)) \/ AskLDAP(h) \/ LoadMember(h)
             \/ (\E changed \in BOOLEAN : AskMembership(h, changed)) \/ Unbind(h)
             \/ ReadBalance(h) \/ LoadClosed(h) \/ CheckSettled(h)
    <3>1. UNCHANGED <<mails, edges>>
      BY <2>4 DEF StartSync, NextTarget, AskLDAP, LoadMember, AskMembership, Unbind, ReadBalance,
         LoadClosed, CheckSettled, syncTables
    <3>2. SyncAt(h, "idle")' \/ Tells(syncTask[h])'
      BY <1>1, <2>4, StartTells, NextTells, AskLDAPTells, LoadMemberTells, AskMembershipTells,
         UnbindTells, ReadsTell
    <3> QED BY <1>2, <1>K, <3>1, <3>2
  <2>5. CASE SaveOrgan(h) \/ SaveMember(h) \/ DeleteOrgan(h)
    BY <1>2, <2>5, SavesTell
  <2> QED BY <1>3, <2>1, <2>2, <2>3, <2>4, <2>5 DEF SyncStep
<1>4. ASSUME NEW h \in Handlers, SyncError(h) \/ SyncDies(h) PROVE ToldInv'
  <2>1. UNCHANGED <<userRow, mails, edges>> /\ ~ SyncAt(h, "idle")
    BY <1>4 DEF SyncError, SyncDies, SyncAt
  <2>2. CASE SyncDies(h)
    <3>1. SyncAt(h, "idle")'
      BY <2>2 DEF SyncDies, SyncGo, SyncAt, Idle, ToldInv, SyncInv, SyncTypeOK
    <3> QED BY <1>2, <1>K, <2>1, <3>1
  <2>3. CASE SyncError(h)
    <3>1. SyncTo(h, "next") \/ (SyncTo(h, "down.gewis") /\ syncTask[h].pc \in {"down.ldap", "down.save"})
      BY <2>3 DEF SyncError, SyncAt
    <3>2. \A a \in Accounts : MayTell(a) => MayTell(a)'
      BY <2>1 DEF MayTell
    <3>3. SyncAt(h, "idle")' \/ Tells(syncTask[h])'
      BY <2>1, <3>1, <3>2, TellsTo DEF Phases
    <3> QED BY <1>2, <1>K, <2>1, <3>3
  <2> QED BY <1>4, <2>2, <2>3
<1>5. ASSUME UNCHANGED syncTask, ToldOnce', UNCHANGED mails, \A a \in Accounts : MayTell(a) => MayTell(a)',
             \A a \in Accounts : mails[a] < edges[a] => mails[a] < edges'[a]
      PROVE  ToldInv'
  <2>1. ASSUME NEW h \in Handlers, ~ SyncAt(h, "idle") PROVE Tells(syncTask[h])'
    <3>1. Tells(syncTask[h]) /\ syncTask[h] \in Run
      BY <2>1, RunOf DEF ToldInv
    <3>2. Awaited(syncTask[h]) \subseteq Accounts /\ syncTask[h].account \in Accounts
      BY <3>1, AwaitedAre DEF Run
    <3> QED BY <1>5, <3>1, <3>2 DEF Tells, Awaited, FallingEdge
  <2> QED BY <1>1, <1>5, <2>1 DEF ToldInv, SyncAt
<1>6. ASSUME UNCHANGED <<userRow, mails, edges, syncTask>> PROVE ToldInv'
  BY <1>5, <1>6, <1>K DEF MayTell
<1>7. ASSUME NEW a \in Accounts, PatchActive(a) PROVE ToldInv'
  <2>1. PICK row \in AccountRow : WriteRow(a, row) /\ UNCHANGED <<mails, syncTask>>
    BY <1>7, PatchedRow DEF ToldInv, PatchActive
  <2>2. /\ ToldOnce' /\ \A b \in Accounts : MayTell(b) => MayTell(b)'
        /\ \A b \in Accounts : mails[b] \in Nat /\ edges[b] <= edges'[b] /\ edges[b] \in Nat /\ edges'[b] \in Nat
    BY <2>1, MayStillTell DEF ToldInv
  <2> QED BY <1>5, <2>1, <2>2
<1>8. ASSUME NEW a \in Accounts,
             LDAPChanges(a) \/ MembershipChanges(a) \/ LoginBinds(a) \/ BalanceChanges(a)
      PROVE  ToldInv'
  BY <1>6, <1>8 DEF LDAPChanges, MembershipChanges, LoginBinds, BalanceChanges
<1>9. CASE UNCHANGED syncVars
  BY <1>6, <1>9 DEF syncVars
<1> QED BY <1>3, <1>4, <1>7, <1>8, <1>9 DEF SyncNext

(***************************************************************************)
(* With one run at a time, for any accounts: a member is mailed at most    *)
(* once for each time he stopped being active, whichever requests          *)
(* deactivate and activate him between the steps of a run, and however     *)
(* often runs repeat, fail and die.                                        *)
(***************************************************************************)
THEOREM ToldOnceAlways ==
  ASSUME \A g, h \in Handlers : g = h
  PROVE  SyncSpec => []ToldOnce
<1>1. ToldInv /\ [SyncNext]_syncVars => ToldInv'
  BY ToldNext
<1>2. ToldInv => ToldOnce
  BY DEF ToldInv
<1> QED BY <1>1, <1>2, ToldInitInv, PTL DEF SyncSpec
-----------------------------------------------------------------------------
(***************************************************************************)
(* The nightly job that expires accounts, and its mails.                   *)
(***************************************************************************)

LEMMA ExpiryInitType == ExpiryInit => ExpiryTypeOK
BY ExpiryAssumption DEF ExpiryInit, ExpiryTypeOK, Account, ExpiryTask, Idle, Days

LEMMA JobOf ==
  ASSUME ExpiryTypeOK, NEW job \in Jobs, NEW u \in Users, ~ JobAt(job, u, "idle")
  PROVE  expiryTask[job][u] \in [pc : {"save", "notify"}, row : Account, told : BOOLEAN]
BY DEF ExpiryTypeOK, ExpiryTask, JobAt, Idle

LEMMA JobGoes ==
  ASSUME ExpiryTypeOK, NEW job \in Jobs, NEW u \in Users, NEW state \in ExpiryTask, JobGo(job, u, state)
  PROVE  /\ expiryTask' \in [Jobs -> [Users -> ExpiryTask]]
         /\ \A j \in Jobs, v \in Users :
              expiryTask'[j][v] = IF j = job /\ v = u THEN state ELSE expiryTask[j][v]
BY DEF ExpiryTypeOK, JobGo

LEMMA CountsUp ==
  ASSUME NEW history \in [Users -> Nat], NEW u \in Users
  PROVE  /\ Counted(history, u) \in [Users -> Nat]
         /\ \A v \in Users : Counted(history, u)[v] = IF v = u THEN history[v] + 1 ELSE history[v]
BY DEF Counted

(***************************************************************************)
(* The step of a job or a request, as what it does to the account of one   *)
(* user and to one job.                                                    *)
(***************************************************************************)
LEMMA StartsType ==
  ASSUME ExpiryTypeOK, StartWarning \/ StartExpiring
  PROVE  /\ ExpiryTypeOK' /\ UNCHANGED expiryTables
         /\ \A j \in Jobs, u \in Users :
              \/ expiryTask'[j][u] = expiryTask[j][u]
              \/ expiryTask'[j][u] = Idle
              \/ /\ expiryTask'[j][u].row = account[u]
                 /\ expiryTask'[j][u] \in [pc : {"save", "notify"}, row : Account, told : BOOLEAN]
                 /\ j = "warn" => /\ expiryTask[j][u].pc = "idle" /\ expiryTask'[j][u].pc = "save"
                                  /\ ~ account[u].expiryNotificationSent /\ NearExpiry(account[u])
                 /\ j = "expire" => expiryTask'[j][u].pc = "notify" /\ HasExpired(account[u])
<1>1. Idle \in ExpiryTask
  BY DEF ExpiryTask
<1>2. ASSUME NEW u \in Users, NEW pc \in {"save", "notify"}
      PROVE  [pc |-> pc, row |-> account[u], told |-> FALSE] \in [pc : {"save", "notify"}, row : Account, told : BOOLEAN]
  BY DEF ExpiryTypeOK
<1>3. [pc : {"save", "notify"}, row : Account, told : BOOLEAN] \subseteq ExpiryTask
  BY DEF ExpiryTask
<1>4. CASE StartWarning
  <2> DEFINE found(u) == /\ account[u].active /\ ~ account[u].deleted
                         /\ ~ account[u].expiryNotificationSent /\ NearExpiry(account[u])
             warned == [u \in Users |-> IF found(u) THEN [pc |-> "save", row |-> account[u], told |-> FALSE] ELSE Idle]
  <2>1. expiryTask' = [expiryTask EXCEPT !["warn"] = warned] /\ UNCHANGED expiryTables /\ Settled("warn")
    BY <1>4 DEF StartWarning, StartJob
  <2>2. warned \in [Users -> ExpiryTask]
    BY <1>1, <1>2, <1>3
  <2>3. /\ expiryTask' \in [Jobs -> [Users -> ExpiryTask]] /\ expiryTask'["warn"] = warned
        /\ expiryTask'["expire"] = expiryTask["expire"]
    BY <2>1, <2>2 DEF ExpiryTypeOK, Jobs
  <2>4. ASSUME NEW u \in Users
        PROVE  \/ expiryTask'["warn"][u] = Idle
               \/ /\ found(u)
                  /\ expiryTask'["warn"][u] = [pc |-> "save", row |-> account[u], told |-> FALSE]
    BY <2>3
  <2> QED BY <1>2, <2>1, <2>3, <2>4 DEF ExpiryTypeOK, expiryTables, Jobs, Settled, JobAt
<1>5. CASE StartExpiring
  <2> DEFINE found(u) == account[u].active /\ ~ account[u].deleted /\ HasExpired(account[u])
             expired == [u \in Users |-> IF found(u) THEN [pc |-> "notify", row |-> account[u], told |-> FALSE] ELSE Idle]
  <2>1. expiryTask' = [expiryTask EXCEPT !["expire"] = expired] /\ UNCHANGED expiryTables
    BY <1>5 DEF StartExpiring, StartJob
  <2>2. expired \in [Users -> ExpiryTask]
    BY <1>1, <1>2, <1>3
  <2>3. /\ expiryTask' \in [Jobs -> [Users -> ExpiryTask]] /\ expiryTask'["expire"] = expired
        /\ expiryTask'["warn"] = expiryTask["warn"]
    BY <2>1, <2>2 DEF ExpiryTypeOK, Jobs
  <2>4. ASSUME NEW u \in Users
        PROVE  \/ expiryTask'["expire"][u] = Idle
               \/ /\ found(u)
                  /\ expiryTask'["expire"][u] = [pc |-> "notify", row |-> account[u], told |-> FALSE]
    BY <2>3
  <2> QED BY <1>2, <2>1, <2>3, <2>4 DEF ExpiryTypeOK, expiryTables, Jobs
<1> QED BY <1>4, <1>5

(***************************************************************************)
(* One warning may be on its way, or the account may still lead to one; a  *)
(* row that is held for an expiry is of a date that has passed, and leads  *)
(* to none.                                                                *)
(***************************************************************************)
MayWarn(row) == ~ row.expiryNotificationSent /\ row.expiryDate # Never /\ row.expiryDate > today

OnItsWay(u) == IF JobAt("warn", u, "save") THEN 1
               ELSE (IF JobAt("warn", u, "notify") THEN 1 ELSE 0) + (IF MayWarn(account[u]) THEN 1 ELSE 0)

WarnInv ==
  /\ ExpiryTypeOK
  /\ \A u \in Users :
       /\ warnings[u] + OnItsWay(u) <= 1 + patches[u]
       /\ ~ JobAt("expire", u, "idle") => ~ MayWarn(expiryTask["expire"][u].row)

LEMMA WarnInitInv == ExpiryInit => WarnInv
<1> SUFFICES ASSUME ExpiryInit PROVE WarnInv
  OBVIOUS
<1>1. ExpiryTypeOK
  BY ExpiryInitType
<1>2. ASSUME NEW u \in Users
      PROVE  /\ JobAt("expire", u, "idle") /\ OnItsWay(u) <= 1
             /\ warnings[u] = 0 /\ patches[u] = 0 /\ OnItsWay(u) \in Nat
  BY <1>2 DEF ExpiryInit, JobAt, OnItsWay, Idle, Jobs
<1> QED BY <1>1, <1>2 DEF WarnInv

WarnOf(u) ==
  /\ warnings[u] + OnItsWay(u) <= 1 + patches[u]
  /\ ~ JobAt("expire", u, "idle") => ~ MayWarn(expiryTask["expire"][u].row)

LEMMA OnItsWayType == ASSUME NEW u \in Users PROVE OnItsWay(u) \in 0 .. 2
BY DEF OnItsWay

\* A user whom a step leaves alone, but for the day.
LEMMA LeftAlone ==
  ASSUME ExpiryTypeOK, NEW u \in Users, WarnOf(u), today' \in Days, today' >= today,
         account'[u] = account[u], patches'[u] = patches[u], warnings'[u] = warnings[u],
         expiryTask'["warn"][u] = expiryTask["warn"][u], expiryTask'["expire"][u] = expiryTask["expire"][u]
  PROVE  WarnOf(u)'
<1>1. account[u] \in Account /\ today \in Nat /\ today' \in Nat
  BY ExpiryAssumption DEF ExpiryTypeOK, Days
<1>2. MayWarn(account[u])' => MayWarn(account[u])
  BY <1>1 DEF MayWarn, Account, Never, Days
<1>3. OnItsWay(u)' <= OnItsWay(u) /\ OnItsWay(u) \in Nat /\ OnItsWay(u)' \in Nat
  BY <1>2 DEF OnItsWay, JobAt
<1>4. warnings'[u] \in Nat /\ patches'[u] \in Nat
  BY DEF ExpiryTypeOK
<1>5. warnings'[u] + OnItsWay(u)' <= 1 + patches'[u]
  BY <1>3, <1>4 DEF WarnOf
<1>6. ~ JobAt("expire", u, "idle") => expiryTask["expire"][u].row \in Account
  BY JobOf DEF Jobs
<1>7. ASSUME ~ JobAt("expire", u, "idle")' PROVE ~ MayWarn(expiryTask["expire"][u].row)'
  <2>1. expiryTask["expire"][u].row \in Account /\ ~ MayWarn(expiryTask["expire"][u].row)
    BY <1>6, <1>7 DEF JobAt, WarnOf
  <2> QED BY <1>1, <2>1 DEF MayWarn, Account, Never, Days
<1> QED BY <1>5, <1>7 DEF WarnOf

LEMMA PatchWarn ==
  ASSUME WarnInv, NEW u \in Users,
         \/ \E date \in Days \cup {Never} : PatchExpiry(u, date)
         \/ PatchAccount(u, "active", TRUE) \/ PatchAccount(u, "deleted", TRUE)
  PROVE  WarnInv'
<1>1. /\ account' \in [Users -> Account] /\ patches' = Counted(patches, u)
      /\ \A v \in Users \ {u} : account'[v] = account[v]
      /\ UNCHANGED <<today, warnings, expiryTask>>
  <2>1. account \in [Users -> Account]
    BY DEF WarnInv, ExpiryTypeOK
  <2>2. ASSUME NEW date \in Days \cup {Never}
        PROVE  [account[u] EXCEPT !.expiryDate = date, !.expiryNotificationSent = FALSE] \in Account
    BY <2>1 DEF Account
  <2>3. ASSUME NEW column \in {"active", "deleted"}
        PROVE  [account[u] EXCEPT ![column] = TRUE] \in Account
    BY <2>1, <2>3 DEF Account
  <2>4. CASE \E date \in Days \cup {Never} : PatchExpiry(u, date)
    BY <2>1, <2>2, <2>4 DEF PatchExpiry
  <2>5. CASE PatchAccount(u, "active", TRUE) \/ PatchAccount(u, "deleted", TRUE)
    BY <2>1, <2>3, <2>5 DEF PatchAccount
  <2> QED BY <2>4, <2>5
<1>2. patches \in [Users -> Nat]
  BY DEF WarnInv, ExpiryTypeOK
<1>3. patches' \in [Users -> Nat] /\ \A v \in Users : patches'[v] = IF v = u THEN patches[v] + 1 ELSE patches[v]
  BY <1>1, <1>2, CountsUp
<1>4. ExpiryTypeOK'
  BY <1>1, <1>3 DEF WarnInv, ExpiryTypeOK
<1>5. ASSUME NEW v \in Users PROVE WarnOf(v)'
  <2>1. ExpiryTypeOK /\ WarnOf(v) /\ today' \in Days /\ today' >= today
    BY <1>1, ExpiryAssumption DEF WarnInv, WarnOf, ExpiryTypeOK, Days
  <2>2. CASE v # u
    BY <1>1, <1>3, <2>1, <2>2, LeftAlone
  <2>3. CASE v = u
    <3>1. OnItsWay(v)' <= OnItsWay(v) + 1 /\ OnItsWay(v) \in 0 .. 2 /\ OnItsWay(v)' \in 0 .. 2
      BY <1>1 DEF OnItsWay, JobAt
    <3>2. warnings[v] \in Nat /\ patches[v] \in Nat
      BY DEF WarnInv, ExpiryTypeOK
    <3> QED BY <1>1, <1>3, <2>1, <2>3, <3>1, <3>2 DEF WarnOf, MayWarn, JobAt
  <2> QED BY <2>2, <2>3
<1> QED BY <1>4, <1>5 DEF WarnInv, WarnOf

LEMMA StartWarn ==
  ASSUME WarnInv, StartWarning \/ StartExpiring
  PROVE  WarnInv'
<1>1. ExpiryTypeOK /\ ExpiryTypeOK' /\ UNCHANGED expiryTables
  BY StartsType DEF WarnInv
<1>2. ASSUME NEW u \in Users PROVE WarnOf(u)'
  <2>1. WarnOf(u) /\ account[u] \in Account /\ warnings[u] \in Nat /\ patches[u] \in Nat /\ today \in Nat
    BY ExpiryAssumption DEF WarnInv, WarnOf, ExpiryTypeOK, Days
  <2>2. /\ \/ expiryTask'["warn"][u] = expiryTask["warn"][u]
           \/ expiryTask'["warn"][u] = Idle
           \/ /\ expiryTask["warn"][u].pc = "idle" /\ expiryTask'["warn"][u].pc = "save"
              /\ ~ account[u].expiryNotificationSent /\ NearExpiry(account[u])
        /\ \/ expiryTask'["expire"][u] = expiryTask["expire"][u]
           \/ expiryTask'["expire"][u] = Idle
           \/ expiryTask'["expire"][u].row = account[u] /\ HasExpired(account[u])
    BY <1>1, StartsType DEF Jobs
  <2>3. OnItsWay(u)' <= OnItsWay(u) /\ OnItsWay(u) \in 0 .. 2 /\ OnItsWay(u)' \in 0 .. 2
    BY <1>1, <2>1, <2>2 DEF OnItsWay, JobAt, Idle, NearExpiry, MayWarn, expiryTables
  <2>4. HasExpired(account[u]) => ~ MayWarn(account[u])
    BY <2>1 DEF HasExpired, MayWarn, Account, Never, Days
  <2> QED BY <1>1, <2>1, <2>2, <2>3, <2>4 DEF WarnOf, JobAt, Idle, MayWarn, expiryTables
<1> QED BY <1>1, <1>2 DEF WarnInv, WarnOf

LEMMA SaveWarnedInv ==
  ASSUME WarnInv, NEW u \in Users, SaveWarned(u)
  PROVE  WarnInv'
<1> DEFINE row == [expiryTask["warn"][u].row EXCEPT !.expiryNotificationSent = TRUE]
           state == [expiryTask["warn"][u] EXCEPT !.pc = "notify", !.row = row]
<1>1. JobAt("warn", u, "save") /\ account' = [account EXCEPT ![u] = row] /\ JobGo("warn", u, state)
        /\ UNCHANGED <<today, patches, warnings>>
  BY DEF SaveWarned
<1>2. expiryTask["warn"][u] \in [pc : {"save", "notify"}, row : Account, told : BOOLEAN]
  BY <1>1, JobOf DEF WarnInv, JobAt, Jobs
<1>3. row \in Account /\ row.expiryNotificationSent
  BY <1>2 DEF Account
<1>4. state \in ExpiryTask /\ state.pc = "notify"
  BY <1>2, <1>3 DEF ExpiryTask
<1> HIDE DEF row, state
<1>5. /\ account' \in [Users -> Account] /\ account'[u] = row
      /\ \A v \in Users \ {u} : account'[v] = account[v]
  BY <1>1, <1>3 DEF WarnInv, ExpiryTypeOK
<1>6. /\ expiryTask' \in [Jobs -> [Users -> ExpiryTask]]
      /\ expiryTask'["warn"][u] = state /\ expiryTask'["expire"][u] = expiryTask["expire"][u]
      /\ \A j \in Jobs, v \in Users \ {u} : expiryTask'[j][v] = expiryTask[j][v]
  BY <1>1, <1>4, JobGoes DEF WarnInv, Jobs
<1>7. ExpiryTypeOK'
  BY <1>1, <1>5, <1>6 DEF WarnInv, ExpiryTypeOK
<1>8. ASSUME NEW v \in Users PROVE WarnOf(v)'
  <2>1. ExpiryTypeOK /\ WarnOf(v) /\ today' \in Days /\ today' >= today
    BY <1>1, ExpiryAssumption DEF WarnInv, WarnOf, ExpiryTypeOK, Days
  <2>2. CASE v # u
    BY <1>1, <1>5, <1>6, <2>1, <2>2, LeftAlone DEF Jobs
  <2>3. CASE v = u
    <3>1. OnItsWay(v) = 1 /\ OnItsWay(v)' = 1
      BY <1>1, <1>3, <1>4, <1>5, <1>6, <2>3 DEF OnItsWay, JobAt, MayWarn
    <3> QED BY <1>1, <1>6, <2>1, <2>3, <3>1 DEF WarnOf, JobAt, MayWarn
  <2> QED BY <2>2, <2>3
<1> QED BY <1>7, <1>8 DEF WarnInv, WarnOf

LEMMA NotifyWarnedInv ==
  ASSUME WarnInv, NEW u \in Users, NotifyWarned(u)
  PROVE  WarnInv'
<1>1. JobAt("warn", u, "notify") /\ JobGo("warn", u, Idle) /\ warnings' = Counted(warnings, u)
        /\ UNCHANGED <<today, account, patches>>
  BY DEF NotifyWarned
<1>2. Idle \in ExpiryTask /\ Idle.pc = "idle"
  BY DEF ExpiryTask, Idle
<1>3. warnings' \in [Users -> Nat] /\ \A v \in Users : warnings'[v] = IF v = u THEN warnings[v] + 1 ELSE warnings[v]
  BY <1>1, CountsUp DEF WarnInv, ExpiryTypeOK
<1>4. /\ expiryTask' \in [Jobs -> [Users -> ExpiryTask]]
      /\ expiryTask'["warn"][u] = Idle /\ expiryTask'["expire"][u] = expiryTask["expire"][u]
      /\ \A j \in Jobs, v \in Users \ {u} : expiryTask'[j][v] = expiryTask[j][v]
  BY <1>1, <1>2, JobGoes DEF WarnInv, Jobs
<1>5. ExpiryTypeOK'
  BY <1>1, <1>3, <1>4 DEF WarnInv, ExpiryTypeOK
<1>6. ASSUME NEW v \in Users PROVE WarnOf(v)'
  <2>1. ExpiryTypeOK /\ WarnOf(v) /\ today' \in Days /\ today' >= today
    BY <1>1, ExpiryAssumption DEF WarnInv, WarnOf, ExpiryTypeOK, Days
  <2>2. CASE v # u
    BY <1>1, <1>3, <1>4, <2>1, <2>2, LeftAlone DEF Jobs
  <2>3. CASE v = u
    <3>1. OnItsWay(v) = 1 + OnItsWay(v)' /\ OnItsWay(v)' \in 0 .. 2
      BY <1>1, <1>2, <1>4, <2>3 DEF OnItsWay, JobAt, MayWarn
    <3>2. warnings[v] \in Nat /\ patches[v] \in Nat
      BY DEF WarnInv, ExpiryTypeOK
    <3> QED BY <1>1, <1>3, <1>4, <2>1, <2>3, <3>1, <3>2 DEF WarnOf, JobAt, MayWarn
  <2> QED BY <2>2, <2>3
<1> QED BY <1>5, <1>6 DEF WarnInv, WarnOf

LEMMA ExpireInv ==
  ASSUME WarnInv, NEW u \in Users, NotifyExpired(u) \/ SaveExpired(u)
  PROVE  WarnInv'
<1>1. ~ JobAt("expire", u, "idle") /\ UNCHANGED <<today, patches, warnings>>
  BY DEF NotifyExpired, SaveExpired, JobAt, expiryTables
<1>2. expiryTask["expire"][u] \in [pc : {"save", "notify"}, row : Account, told : BOOLEAN]
        /\ ~ MayWarn(expiryTask["expire"][u].row)
  BY <1>1, JobOf DEF WarnInv, Jobs
<1>3. PICK state \in ExpiryTask :
        JobGo("expire", u, state) /\ (state.pc # "idle" => state.row = expiryTask["expire"][u].row)
  <2>1. CASE NotifyExpired(u)
    <3>1. PICK queued \in BOOLEAN :
            JobGo("expire", u, [expiryTask["expire"][u] EXCEPT !.pc = "save", !.told = queued])
      BY <2>1 DEF NotifyExpired
    <3>2. /\ [expiryTask["expire"][u] EXCEPT !.pc = "save", !.told = queued] \in ExpiryTask
          /\ [expiryTask["expire"][u] EXCEPT !.pc = "save", !.told = queued].row = expiryTask["expire"][u].row
      BY <1>2 DEF ExpiryTask
    <3> QED BY <3>1, <3>2
  <2>2. CASE SaveExpired(u)
    <3>1. Idle \in ExpiryTask /\ Idle.pc = "idle"
      BY DEF ExpiryTask, Idle
    <3> QED BY <2>2, <3>1 DEF SaveExpired
  <2> QED BY <2>1, <2>2
<1>4. /\ account' \in [Users -> Account] /\ (account'[u] = account[u] \/ ~ MayWarn(account'[u]))
      /\ \A v \in Users \ {u} : account'[v] = account[v]
  <2>1. CASE NotifyExpired(u)
    BY <2>1 DEF NotifyExpired, expiryTables, WarnInv, ExpiryTypeOK
  <2>2. CASE SaveExpired(u)
    <3>1. [expiryTask["expire"][u].row EXCEPT !.active = FALSE] \in Account
            /\ ~ MayWarn([expiryTask["expire"][u].row EXCEPT !.active = FALSE])
      BY <1>2 DEF Account, MayWarn
    <3> QED BY <2>2, <3>1 DEF SaveExpired, WarnInv, ExpiryTypeOK
  <2> QED BY <2>1, <2>2
<1>5. /\ expiryTask' \in [Jobs -> [Users -> ExpiryTask]]
      /\ expiryTask'["warn"][u] = expiryTask["warn"][u] /\ expiryTask'["expire"][u] = state
      /\ \A j \in Jobs, v \in Users \ {u} : expiryTask'[j][v] = expiryTask[j][v]
  BY <1>3, JobGoes DEF WarnInv, Jobs
<1>6. ExpiryTypeOK'
  BY <1>1, <1>4, <1>5 DEF WarnInv, ExpiryTypeOK
<1>7. ASSUME NEW v \in Users PROVE WarnOf(v)'
  <2>1. ExpiryTypeOK /\ WarnOf(v) /\ today' \in Days /\ today' >= today
    BY <1>1, ExpiryAssumption DEF WarnInv, WarnOf, ExpiryTypeOK, Days
  <2>2. CASE v # u
    BY <1>1, <1>4, <1>5, <2>1, <2>2, LeftAlone DEF Jobs
  <2>3. CASE v = u
    <3>1. OnItsWay(v)' <= OnItsWay(v) /\ OnItsWay(v) \in 0 .. 2 /\ OnItsWay(v)' \in 0 .. 2
      BY <1>1, <1>4, <1>5, <2>3 DEF OnItsWay, JobAt, MayWarn
    <3>2. warnings[v] \in Nat /\ patches[v] \in Nat
      BY DEF WarnInv, ExpiryTypeOK
    <3> QED BY <1>1, <1>2, <1>3, <1>5, <2>1, <2>3, <3>1, <3>2 DEF WarnOf, JobAt, MayWarn
  <2> QED BY <2>2, <2>3
<1> QED BY <1>6, <1>7 DEF WarnInv, WarnOf

LEMMA JobFailsInv ==
  ASSUME WarnInv, NEW job \in Jobs, NEW u \in Users, JobFails(job, u)
  PROVE  WarnInv'
<1>1. JobGo(job, u, Idle) /\ UNCHANGED <<today, account, patches, warnings>>
  BY DEF JobFails, expiryTables
<1>2. Idle \in ExpiryTask /\ Idle.pc = "idle"
  BY DEF ExpiryTask, Idle
<1>3. /\ expiryTask' \in [Jobs -> [Users -> ExpiryTask]]
      /\ \A j \in Jobs, v \in Users :
           expiryTask'[j][v] = IF j = job /\ v = u THEN Idle ELSE expiryTask[j][v]
  BY <1>1, <1>2, JobGoes DEF WarnInv
<1>4. ExpiryTypeOK'
  BY <1>1, <1>3 DEF WarnInv, ExpiryTypeOK
<1>5. ASSUME NEW v \in Users PROVE WarnOf(v)'
  <2>1. WarnOf(v) /\ warnings[v] \in Nat /\ patches[v] \in Nat
    BY DEF WarnInv, WarnOf, ExpiryTypeOK
  <2>2. /\ expiryTask'["warn"][v] \in {expiryTask["warn"][v], Idle}
        /\ expiryTask'["expire"][v] \in {expiryTask["expire"][v], Idle}
    BY <1>3 DEF Jobs
  <2>3. OnItsWay(v)' <= OnItsWay(v) /\ OnItsWay(v) \in 0 .. 2 /\ OnItsWay(v)' \in 0 .. 2
    BY <1>1, <1>2, <2>2 DEF OnItsWay, JobAt, MayWarn
  <2> QED BY <1>1, <1>2, <2>1, <2>2, <2>3 DEF WarnOf, JobAt, MayWarn
<1> QED BY <1>4, <1>5 DEF WarnInv, WarnOf

LEMMA ExpiryStepInv == WarnInv /\ [ExpiryNext]_expiryVars => WarnInv'
<1> SUFFICES ASSUME WarnInv, [ExpiryNext]_expiryVars PROVE WarnInv'
  OBVIOUS
<1>1. CASE DayPasses \/ UNCHANGED expiryVars
  <2>1. ExpiryTypeOK' /\ UNCHANGED <<account, patches, warnings, expiryTask>> /\ today' \in Days /\ today' >= today
    BY <1>1, ExpiryAssumption DEF DayPasses, expiryVars, WarnInv, ExpiryTypeOK, Days
  <2>2. ASSUME NEW u \in Users PROVE WarnOf(u)'
    BY <2>1, LeftAlone DEF WarnInv, WarnOf
  <2> QED BY <2>1, <2>2 DEF WarnInv, WarnOf
<1> QED BY <1>1, StartWarn, PatchWarn, SaveWarnedInv, NotifyWarnedInv, ExpireInv, JobFailsInv
        DEF ExpiryNext, ExpiryStep

LEMMA WarnInvAlways == ExpirySpec => []WarnInv
BY WarnInitInv, ExpiryStepInv, PTL DEF ExpirySpec

(***************************************************************************)
(* Every reachable state of the model of the expiry is well typed.         *)
(***************************************************************************)
THEOREM ExpiryTypeCorrect == ExpirySpec => []ExpiryTypeOK
BY WarnInvAlways, PTL DEF WarnInv

LEMMA WarnedByDate == WarnInv => WarnedOnce
<1> SUFFICES ASSUME WarnInv, NEW u \in Users PROVE warnings[u] <= 1 + patches[u]
  BY DEF WarnedOnce
<1>1. warnings[u] \in Nat /\ patches[u] \in Nat /\ OnItsWay(u) \in 0 .. 2
  BY OnItsWayType DEF WarnInv, ExpiryTypeOK
<1> QED BY <1>1 DEF WarnInv

(***************************************************************************)
(* For any number of users and requests: at most one warning for each      *)
(* expiry date that was set, whatever the two jobs and the requests write  *)
(* over each other and wherever they fail.                                 *)
(***************************************************************************)
THEOREM WarnedOnceAlways == ExpirySpec => []WarnedOnce
BY WarnInvAlways, WarnedByDate, PTL
-----------------------------------------------------------------------------
(***************************************************************************)
(* The k-th of a finite set of numbers: there is one for each k below its  *)
(* size, as the numbers of smaller ones are all different (pigeonhole).    *)
(***************************************************************************)
Below(S, i) == {j \in S : j < i}

LEMMA BelowGrows ==
  ASSUME NEW S \in SUBSET Nat, IsFiniteSet(S), NEW i \in S, NEW j \in Nat, i < j
  PROVE  /\ Cardinality(Below(S, i)) < Cardinality(Below(S, j))
         /\ Cardinality(Below(S, i)) \in Nat /\ Cardinality(Below(S, j)) \in Nat
<1>1. Below(S, i) \subseteq Below(S, j) /\ Below(S, j) \in SUBSET S /\ i \in Below(S, j) /\ i \notin Below(S, i)
  <2>1. ASSUME NEW x \in Below(S, i) PROVE x \in Below(S, j)
    <3>1. x \in S /\ x < i /\ x \in Nat /\ i \in Nat
      BY DEF Below
    <3>2. x < j
      BY <3>1
    <3> QED BY <3>1, <3>2 DEF Below
  <2>2. ~ (i < i)
    <3>1. i \in Nat
      OBVIOUS
    <3> QED BY <3>1
  <2> QED BY <2>1, <2>2 DEF Below
<1>2. IsFiniteSet(Below(S, j)) /\ Cardinality(Below(S, j)) \in Nat
  BY <1>1, FS_Subset, FS_CardinalityType
<1>3. IsFiniteSet(Below(S, i)) /\ Cardinality(Below(S, i)) \in Nat
  BY <1>1, <1>2, FS_Subset, FS_CardinalityType
<1>4. Cardinality(Below(S, i)) <= Cardinality(Below(S, j))
        /\ (Cardinality(Below(S, j)) = Cardinality(Below(S, i)) => Below(S, j) = Below(S, i))
  BY <1>1, <1>2, FS_Subset
<1> QED BY <1>1, <1>2, <1>3, <1>4

LEMMA BelowIsBounded ==
  ASSUME NEW S \in SUBSET Nat, IsFiniteSet(S), NEW i \in S
  PROVE  Cardinality(Below(S, i)) \in 0 .. (Cardinality(S) - 1)
<1>1. Below(S, i) \in SUBSET S /\ i \notin Below(S, i)
  BY DEF Below
<1>2. IsFiniteSet(Below(S, i)) /\ Cardinality(Below(S, i)) \in Nat /\ Cardinality(S) \in Nat
  BY <1>1, FS_Subset, FS_CardinalityType
<1>3. Cardinality(Below(S, i)) <= Cardinality(S) /\ (Cardinality(S) = Cardinality(Below(S, i)) => S = Below(S, i))
  BY <1>1, FS_Subset
<1> QED BY <1>1, <1>2, <1>3

LEMMA NthExists ==
  ASSUME NEW S \in SUBSET Nat, IsFiniteSet(S), NEW k \in 0 .. (Cardinality(S) - 1)
  PROVE  \E i \in S : Cardinality(Below(S, i)) = k
<1> SUFFICES ASSUME \A i \in S : Cardinality(Below(S, i)) # k PROVE FALSE
  OBVIOUS
<1> DEFINE n == Cardinality(S)
           T == (0 .. (n - 1)) \ {k}
           f == [i \in S |-> Cardinality(Below(S, i))]
<1>1. n \in Nat
  BY FS_CardinalityType
<1>2. f \in [S -> T]
  BY BelowIsBounded
<1>3. IsFiniteSet(0 .. (n - 1)) /\ Cardinality(0 .. (n - 1)) = n
  BY <1>1, FS_Interval
<1>4. IsFiniteSet(T) /\ Cardinality(T) = n - 1
  BY <1>3, FS_RemoveElement
<1>5. Cardinality(T) < Cardinality(S)
  BY <1>1, <1>4
<1> HIDE DEF T, f
<1>6. \E i, j \in S : i # j /\ f[i] = f[j]
  BY <1>2, <1>4, <1>5, FS_PigeonHole
<1>7. PICK i, j \in S : i # j /\ f[i] = f[j]
  BY <1>6
<1>8. i \in Nat /\ j \in Nat /\ (i < j \/ j < i)
  BY <1>7
<1>9. Cardinality(Below(S, i)) = Cardinality(Below(S, j))
  BY <1>7 DEF f
<1>10. \A a \in S, b \in Nat : a < b => Cardinality(Below(S, a)) < Cardinality(Below(S, b))
                                      /\ Cardinality(Below(S, a)) \in Nat
  BY BelowGrows
<1> QED BY <1>8, <1>9, <1>10

-----------------------------------------------------------------------------
(***************************************************************************)
(* The indices of a new list.                                              *)
(***************************************************************************)
Joining(old, users) == users \ MembersOf(old)

Free(old, users) == Indices \ Reserved(old, users)

Nth(S, k) == CHOOSE i \in S : Cardinality(Below(S, i)) = k

LEMMA AssignIs ==
  ASSUME NEW old, NEW users
  PROVE  Assign(old, users) =
           [p \in Persons |->
              IF p \notin users THEN None
              ELSE IF p \in Joining(old, users)
                   THEN Nth(Free(old, users), Cardinality(Below(Joining(old, users), p))) ELSE old[p]]
BY DEF Assign, Joining, Free, Nth, Below

LEMMA EnoughFree ==
  ASSUME NEW old \in Memberships, NEW users \in SUBSET Persons
  PROVE  /\ Free(old, users) \in SUBSET Nat /\ IsFiniteSet(Free(old, users))
         /\ Joining(old, users) \in SUBSET Nat /\ IsFiniteSet(Joining(old, users))
         /\ Cardinality(Joining(old, users)) <= Cardinality(Free(old, users))
         /\ Cardinality(Joining(old, users)) \in Nat /\ Cardinality(Free(old, users)) \in Nat
<1> DEFINE stay == MembersOf(old) \cap users
           joining == Joining(old, users)
           n == Cardinality(Persons)
<1>1. IsFiniteSet(Persons) /\ n \in Nat /\ Persons \subseteq Nat
  BY PersonsAssumption, FS_CardinalityType
<1>2. IsFiniteSet(stay) /\ IsFiniteSet(joining) /\ IsFiniteSet(users)
  <2>1. stay \in SUBSET Persons /\ joining \in SUBSET Persons
    BY DEF MembersOf, Joining
  <2> QED BY <1>1, <2>1, FS_Subset
<1>3. Cardinality(stay) \in Nat /\ Cardinality(joining) \in Nat /\ Cardinality(users) \in Nat
  BY <1>2, FS_CardinalityType
<1>4. Cardinality(stay) + Cardinality(joining) = Cardinality(users)
  <2>1. users = stay \cup joining /\ stay \cap joining = {}
    BY DEF Joining
  <2>2. Cardinality({}) = 0
    BY FS_EmptySet
  <2> HIDE DEF stay, joining
  <2>3. Cardinality(stay \cup joining) = Cardinality(stay) + Cardinality(joining) - Cardinality(stay \cap joining)
    BY <1>2, FS_Union
  <2>4. Cardinality(stay \cup joining) = Cardinality(users)
    BY <2>1
  <2>5. Cardinality(stay \cap joining) = 0
    BY <2>1, <2>2
  <2> QED BY <1>3, <2>3, <2>4, <2>5
<1>5. Cardinality(users) <= n
  BY <1>1, FS_Subset
<1>6. IsFiniteSet(Reserved(old, users)) /\ Cardinality(Reserved(old, users)) <= Cardinality(stay)
  <2> DEFINE f == [p \in stay |-> old[p]]
  <2>1. f \in Surjection(stay, Reserved(old, users))
    BY DEF Surjection, Reserved
  <2> HIDE DEF f, stay
  <2> QED BY <1>2, <2>1, FS_Surjection
<1>7. IsFiniteSet(Indices) /\ Cardinality(Indices) = n + 1 /\ Indices \subseteq Nat
  BY <1>1, FS_Interval DEF Indices
<1>8. IsFiniteSet(Free(old, users)) /\ Cardinality(Free(old, users)) >= n + 1 - Cardinality(Reserved(old, users))
  <2>1. /\ IsFiniteSet(Indices \ Reserved(old, users))
        /\ Cardinality(Indices \ Reserved(old, users)) = Cardinality(Indices) - Cardinality(Indices \cap Reserved(old, users))
    BY <1>7, FS_Difference
  <2>2. Cardinality(Indices \cap Reserved(old, users)) <= Cardinality(Reserved(old, users))
    BY <1>6, FS_Intersection
  <2>3. Cardinality(Indices \cap Reserved(old, users)) \in Nat /\ Cardinality(Reserved(old, users)) \in Nat
    BY <1>6, FS_Intersection, FS_CardinalityType
  <2> QED BY <1>1, <1>7, <2>1, <2>2, <2>3 DEF Free
<1>9. Free(old, users) \in SUBSET Nat /\ joining \in SUBSET Nat
  BY <1>1, <1>7 DEF Free, Joining
<1>10. Cardinality(Free(old, users)) \in Nat /\ Cardinality(Reserved(old, users)) \in Nat
  BY <1>6, <1>8, FS_CardinalityType
<1> QED BY <1>1, <1>2, <1>3, <1>4, <1>5, <1>6, <1>8, <1>9, <1>10

\* Each one who joins gets a free index, and they get different ones.
LEMMA JoinerGetsFree ==
  ASSUME NEW old \in Memberships, NEW users \in SUBSET Persons, NEW p \in Joining(old, users)
  PROVE  /\ Assign(old, users)[p] \in Free(old, users)
         /\ Cardinality(Below(Free(old, users), Assign(old, users)[p])) = Cardinality(Below(Joining(old, users), p))
<1> DEFINE k == Cardinality(Below(Joining(old, users), p))
<1>1. Assign(old, users)[p] = Nth(Free(old, users), k)
  BY AssignIs DEF Joining
<1>2. k \in 0 .. (Cardinality(Joining(old, users)) - 1)
  BY EnoughFree, BelowIsBounded
<1>3. k \in 0 .. (Cardinality(Free(old, users)) - 1)
  BY <1>2, EnoughFree
<1> HIDE DEF k
<1>4. \E i \in Free(old, users) : Cardinality(Below(Free(old, users), i)) = k
  BY <1>3, EnoughFree, NthExists
<1> QED BY <1>1, <1>4 DEF Nth, k

LEMMA JoinersDiffer ==
  ASSUME NEW old \in Memberships, NEW users \in SUBSET Persons,
         NEW p \in Joining(old, users), NEW q \in Joining(old, users), p # q
  PROVE  Assign(old, users)[p] # Assign(old, users)[q]
<1>1. p \in Nat /\ q \in Nat /\ (p < q \/ q < p)
  BY EnoughFree
<1>2. Cardinality(Below(Joining(old, users), p)) # Cardinality(Below(Joining(old, users), q))
  BY <1>1, EnoughFree, BelowGrows
<1> QED BY <1>2, JoinerGetsFree

LEMMA AssignType ==
  ASSUME NEW old \in Memberships, NEW users \in SUBSET Persons
  PROVE  /\ Assign(old, users) \in Memberships
         /\ \A p \in Persons \ users : Assign(old, users)[p] = None
         /\ \A p \in users \cap MembersOf(old) : Assign(old, users)[p] = old[p]
<1>1. ASSUME NEW p \in Persons PROVE Assign(old, users)[p] \in Indices \cup {None}
  <2>1. CASE p \in Joining(old, users)
    BY <2>1, JoinerGetsFree DEF Free
  <2>2. CASE p \notin Joining(old, users)
    BY <2>2, AssignIs DEF Memberships
  <2> QED BY <2>1, <2>2
<1> QED BY <1>1, AssignIs DEF Joining, Memberships

Different(rows) == \A p, q \in MembersOf(rows) : p # q => rows[p] # rows[q]

LEMMA AssignDiffers ==
  ASSUME NEW old \in Memberships, NEW users \in SUBSET Persons, Different(old)
  PROVE  Different(Assign(old, users))
<1> DEFINE new == Assign(old, users)
<1>1. ASSUME NEW p \in MembersOf(new) PROVE p \in Persons /\ p \in users
  BY <1>1, AssignType DEF MembersOf
<1>2. ASSUME NEW p \in Joining(old, users), NEW q \in users \cap MembersOf(old) PROVE new[p] # new[q]
  <2>1. new[p] \in Free(old, users)
    BY JoinerGetsFree
  <2>2. new[q] \in Reserved(old, users)
    BY AssignType DEF Reserved
  <2> QED BY <2>1, <2>2 DEF Free
<1>3. ASSUME NEW p \in MembersOf(new), NEW q \in MembersOf(new), p # q PROVE new[p] # new[q]
  <2>1. p \in users /\ q \in users
    BY <1>1
  <2>2. CASE p \in MembersOf(old) /\ q \in MembersOf(old)
    BY <1>3, <2>1, <2>2, AssignType DEF Different
  <2>3. CASE p \notin MembersOf(old) /\ q \notin MembersOf(old)
    BY <1>3, <2>1, <2>3, JoinersDiffer DEF Joining
  <2>4. CASE p \notin MembersOf(old) /\ q \in MembersOf(old)
    BY <1>2, <2>1, <2>4 DEF Joining
  <2>5. CASE p \in MembersOf(old) /\ q \notin MembersOf(old)
    BY <1>2, <2>1, <2>5 DEF Joining
  <2> QED BY <2>2, <2>3, <2>4, <2>5
<1> QED BY <1>3 DEF Different
-----------------------------------------------------------------------------
(***************************************************************************)
(* Types, for any number of replacements at once.                          *)
(***************************************************************************)
Replacement == [pc : {"delete", "save"}, new : Memberships, todo : SUBSET Persons]

LEMMA NoMembersType == NoMembers \in Memberships /\ MembersOf(NoMembers) = {}
BY DEF NoMembers, Memberships, MembersOf

LEMMA OrganInitType == OrganInit => OrganTypeOK
BY NoMembersType DEF OrganInit, OrganTypeOK, OrganTask

LEMMA ReplacementOf ==
  ASSUME OrganTypeOK, NEW h \in Handlers, ~ OrganAt(h, "idle")
  PROVE  organTask[h] \in Replacement
BY DEF OrganTypeOK, OrganTask, Replacement, OrganAt, Idle

LEMMA OrganGoes ==
  ASSUME OrganTypeOK, NEW h \in Handlers, NEW state, state = Idle \/ state \in Replacement, OrganGo(h, state)
  PROVE  /\ organTask' \in [Handlers -> OrganTask] /\ organTask'[h] = state
         /\ \A g \in Handlers \ {h} : organTask'[g] = organTask[g]
BY DEF OrganTypeOK, OrganGo, OrganTask, Replacement

\* What a step makes of the replacement at hand.
LEMMA OrganTasks ==
  ASSUME OrganTypeOK, NEW h \in Handlers
  PROVE  /\ ReadMembers(h) =>
              /\ organTask'[h] \in Replacement
              /\ organTask'[h].pc = (IF index = NoMembers THEN "save" ELSE "delete")
              /\ organTask'[h].new = Assign(index, listed) /\ organTask'[h].todo = listed
              /\ organTask' \in [Handlers -> OrganTask]
         /\ DeleteMembers(h) =>
              /\ organTask[h] \in Replacement /\ organTask'[h] \in Replacement /\ organTask'[h].pc = "save"
              /\ organTask'[h].new = organTask[h].new /\ organTask'[h].todo = organTask[h].todo
              /\ organTask' \in [Handlers -> OrganTask]
         /\ \A p \in Persons : SaveMembership(h, p) =>
              /\ organTask[h] \in Replacement /\ organTask'[h] \in Replacement /\ organTask'[h].pc = "save"
              /\ organTask'[h].new = organTask[h].new /\ organTask'[h].todo = organTask[h].todo \ {p}
              /\ organTask' \in [Handlers -> OrganTask]
         /\ EndMembers(h) \/ OrganFails(h) =>
              /\ organTask[h] \in Replacement
              /\ organTask'[h] = Idle /\ organTask' \in [Handlers -> OrganTask]
<1>1. ASSUME ReadMembers(h)
      PROVE  /\ organTask'[h] \in Replacement
             /\ organTask'[h].pc = (IF index = NoMembers THEN "save" ELSE "delete")
             /\ organTask'[h].new = Assign(index, listed) /\ organTask'[h].todo = listed
             /\ organTask' \in [Handlers -> OrganTask]
  <2> DEFINE state == [pc |-> IF index = NoMembers THEN "save" ELSE "delete",
                       new |-> Assign(index, listed), todo |-> listed]
  <2>1. Assign(index, listed) \in Memberships /\ listed \in SUBSET Persons
    BY AssignType DEF OrganTypeOK
  <2>2. state \in Replacement
    BY <2>1 DEF Replacement
  <2>3. OrganGo(h, state)
    BY <1>1 DEF ReadMembers
  <2>4. /\ state.pc = (IF index = NoMembers THEN "save" ELSE "delete")
        /\ state.new = Assign(index, listed) /\ state.todo = listed
    OBVIOUS
  <2> HIDE DEF state
  <2> QED BY <2>2, <2>3, <2>4, OrganGoes
<1>2. ASSUME ~ OrganAt(h, "idle"), NEW pc \in {"delete", "save"}, NEW todo \in SUBSET Persons,
             OrganGo(h, [organTask[h] EXCEPT !.pc = pc, !.todo = todo])
      PROVE  /\ organTask[h] \in Replacement /\ organTask'[h] \in Replacement /\ organTask'[h].pc = pc
             /\ organTask'[h].new = organTask[h].new /\ organTask'[h].todo = todo
             /\ organTask' \in [Handlers -> OrganTask]
  <2> DEFINE state == [organTask[h] EXCEPT !.pc = pc, !.todo = todo]
  <2>1. organTask[h] \in Replacement
    BY <1>2, ReplacementOf
  <2>2. state \in Replacement /\ state.pc = pc /\ state.new = organTask[h].new /\ state.todo = todo
    BY <2>1 DEF Replacement
  <2>3. OrganGo(h, state)
    BY <1>2
  <2> HIDE DEF state
  <2> QED BY <2>1, <2>2, <2>3, OrganGoes
<1>3. ASSUME DeleteMembers(h)
      PROVE  OrganGo(h, [organTask[h] EXCEPT !.pc = "save", !.todo = organTask[h].todo])
               /\ ~ OrganAt(h, "idle") /\ organTask[h].todo \in SUBSET Persons
  <2>1. ~ OrganAt(h, "idle")
    BY <1>3 DEF DeleteMembers, OrganAt
  <2>2. organTask[h] \in Replacement
    BY <2>1, ReplacementOf
  <2> QED BY <1>3, <2>1, <2>2 DEF DeleteMembers, Replacement
<1>4. ASSUME NEW p \in Persons, SaveMembership(h, p)
      PROVE  OrganGo(h, [organTask[h] EXCEPT !.pc = "save", !.todo = organTask[h].todo \ {p}])
               /\ ~ OrganAt(h, "idle") /\ organTask[h].todo \ {p} \in SUBSET Persons
  <2>1. ~ OrganAt(h, "idle") /\ organTask[h].pc = "save"
    BY <1>4 DEF SaveMembership, OrganAt
  <2>2. organTask[h] \in Replacement
    BY <2>1, ReplacementOf
  <2> QED BY <1>4, <2>1, <2>2 DEF SaveMembership, Replacement
<1>5. ASSUME EndMembers(h) \/ OrganFails(h)
      PROVE  OrganGo(h, Idle) /\ organTask[h] \in Replacement
  BY <1>5, ReplacementOf DEF EndMembers, OrganFails, OrganAt
<1>6. DeleteMembers(h) =>
              /\ organTask[h] \in Replacement /\ organTask'[h] \in Replacement /\ organTask'[h].pc = "save"
              /\ organTask'[h].new = organTask[h].new /\ organTask'[h].todo = organTask[h].todo
              /\ organTask' \in [Handlers -> OrganTask]
  BY <1>2, <1>3
<1>7. \A p \in Persons : SaveMembership(h, p) =>
              /\ organTask[h] \in Replacement /\ organTask'[h] \in Replacement /\ organTask'[h].pc = "save"
              /\ organTask'[h].new = organTask[h].new /\ organTask'[h].todo = organTask[h].todo \ {p}
              /\ organTask' \in [Handlers -> OrganTask]
  BY <1>2, <1>4
<1>8. EndMembers(h) \/ OrganFails(h) =>
              /\ organTask[h] \in Replacement
              /\ organTask'[h] = Idle /\ organTask' \in [Handlers -> OrganTask]
  BY <1>5, OrganGoes
<1> QED BY <1>1, <1>6, <1>7, <1>8

LEMMA OrganTypeNext == OrganTypeOK /\ [OrganNext]_organVars => OrganTypeOK'
<1> SUFFICES ASSUME OrganTypeOK, [OrganNext]_organVars PROVE OrganTypeOK'
  OBVIOUS
<1>1. ASSUME NEW p \in Persons, ListChanges(p) PROVE OrganTypeOK'
  BY <1>1 DEF ListChanges, OrganTypeOK
<1>2. ASSUME NEW h \in Handlers, NEW p \in Persons, SaveMembership(h, p) PROVE OrganTypeOK'
  <2>1. organTask[h] \in Replacement /\ organTask' \in [Handlers -> OrganTask]
    BY <1>2, OrganTasks
  <2>2. [index EXCEPT ![p] = organTask[h].new[p]] \in Memberships
    BY <2>1 DEF Replacement, Memberships, OrganTypeOK
  <2> QED BY <1>2, <2>1, <2>2 DEF SaveMembership, OrganTypeOK
<1>3. ASSUME NEW h \in Handlers, ReadMembers(h) \/ DeleteMembers(h) \/ OrganFails(h) PROVE OrganTypeOK'
  BY <1>3, OrganTasks, NoMembersType DEF ReadMembers, DeleteMembers, OrganFails, OrganTypeOK
<1>4. ASSUME NEW h \in Handlers, EndMembers(h) PROVE OrganTypeOK'
  <2>1. organTask[h] \in Replacement /\ organTask' \in [Handlers -> OrganTask]
    BY <1>4, OrganTasks
  <2>2. [p \in Persons |-> IF organTask[h].new[p] # None /\ kept[p] # None THEN kept[p] ELSE organTask[h].new[p]]
          \in Memberships
    BY <2>1 DEF Replacement, Memberships, OrganTypeOK
  <2> QED BY <1>4, <2>1, <2>2 DEF EndMembers, OrganTypeOK
<1>5. CASE UNCHANGED organVars
  BY <1>5 DEF organVars, OrganTypeOK
<1> QED BY <1>1, <1>2, <1>3, <1>4, <1>5 DEF OrganNext

(***************************************************************************)
(* Every reachable state of the model of an organ's members is well typed: *)
(* an index is free for everyone who joins.                                *)
(***************************************************************************)
THEOREM OrganTypeCorrect == OrganSpec => []OrganTypeOK
BY OrganInitType, OrganTypeNext, PTL DEF OrganSpec
-----------------------------------------------------------------------------
(***************************************************************************)
(* One replacement at a time.  The new list has different indices, and     *)
(* those of the members who stay; before the rows have gone those without  *)
(* a place on it are not to be saved, and then the rows are those of the   *)
(* list that have been saved.                                              *)
(***************************************************************************)
Replaces(task) ==
  /\ Different(task.new)
  /\ \A p \in Persons : task.new[p] # None /\ kept[p] # None => task.new[p] = kept[p]
  /\ task.pc = "delete" => \A p \in Persons \ task.todo : task.new[p] = None
  /\ task.pc = "save" => \A p \in Persons : index[p] = IF p \in task.todo THEN None ELSE task.new[p]

OrganInv ==
  /\ OrganTypeOK /\ MembersHaveIndices
  /\ \A h \in Handlers : ~ OrganAt(h, "idle") => Replaces(organTask[h])

LEMMA UniqueIs == IndexIsUnique <=> Different(index)
BY DEF IndexIsUnique, Different

LEMMA OrganInitInv == OrganInit => OrganInv
<1> SUFFICES ASSUME OrganInit PROVE OrganInv
  OBVIOUS
<1>1. OrganTypeOK /\ \A h \in Handlers : OrganAt(h, "idle")
  BY OrganInitType DEF OrganInit, OrganAt, Idle
<1>2. IndexIsUnique /\ StayersKeepIndex
  BY DEF OrganInit, NoMembers, IndexIsUnique, StayersKeepIndex, MembersOf
<1> QED BY <1>1, <1>2 DEF OrganInv, MembersHaveIndices

\* A part of rows that differ differs.
LEMMA PartDiffers ==
  ASSUME NEW rows \in Memberships, NEW part \in Memberships, Different(rows),
         \A p \in Persons : part[p] = None \/ part[p] = rows[p]
  PROVE  Different(part)
BY DEF Different, MembersOf

LEMMA OrganNextInv ==
  ASSUME OrganInv, \A g, h \in Handlers : g = h, [OrganNext]_organVars
  PROVE  OrganInv'
<1>1. OrganTypeOK /\ OrganTypeOK'
  BY OrganTypeNext DEF OrganInv
<1>2. \A h \in Handlers : OrganAt(h, "idle") => \A p \in Persons : kept[p] # None => index[p] = kept[p]
  BY DEF OrganInv, MembersHaveIndices, StayersKeepIndex
<1>3. Different(index)
  BY UniqueIs DEF OrganInv, MembersHaveIndices
<1>4. ASSUME Different(index)', NEW h \in Handlers, ~ OrganAt(h, "idle")', Replaces(organTask[h])'
      PROVE  OrganInv'
  BY <1>1, <1>4 DEF OrganInv, MembersHaveIndices, StayersKeepIndex, IndexIsUnique, Different
<1>5. ASSUME Different(index)', NEW h \in Handlers, OrganAt(h, "idle")',
             \A p \in Persons : kept'[p] # None => index'[p] = kept'[p]
      PROVE  OrganInv'
  BY <1>1, <1>5 DEF OrganInv, MembersHaveIndices, StayersKeepIndex, IndexIsUnique, Different
<1>6. ASSUME UNCHANGED <<index, kept, organTask>> PROVE OrganInv'
  BY <1>1, <1>6 DEF OrganInv, MembersHaveIndices, StayersKeepIndex, IndexIsUnique, OrganAt, Replaces, MembersOf
<1>7. ASSUME NEW h \in Handlers, ReadMembers(h) PROVE OrganInv'
  <2>1. /\ OrganAt(h, "idle") /\ UNCHANGED <<index, kept>>
        /\ index \in Memberships /\ listed \in SUBSET Persons
    BY <1>1, <1>7 DEF ReadMembers, OrganTypeOK
  <2>2. /\ organTask'[h].pc = (IF index = NoMembers THEN "save" ELSE "delete")
        /\ organTask'[h].new = Assign(index, listed) /\ organTask'[h].todo = listed
    BY <1>1, <1>7, OrganTasks
  <2> DEFINE new == Assign(index, listed)
  <2>3. Different(new)
    BY <1>3, <2>1, AssignDiffers
  <2>4. /\ \A p \in Persons \ listed : new[p] = None
        /\ \A p \in listed \cap MembersOf(index) : new[p] = index[p]
    BY <2>1, AssignType
  <2>5. \A p \in Persons : new[p] # None /\ kept[p] # None => new[p] = kept[p]
    BY <1>2, <2>1, <2>4 DEF MembersOf
  <2>6. index = NoMembers => \A p \in Persons : index[p] = IF p \in listed THEN None ELSE new[p]
    BY <2>4 DEF NoMembers
  <2> HIDE DEF new
  <2>7. Replaces(organTask[h])'
    BY <2>1, <2>2, <2>3, <2>4, <2>5, <2>6 DEF Replaces, Different, MembersOf, new
  <2> QED BY <1>3, <1>4, <2>1, <2>2, <2>7 DEF OrganAt, Different, MembersOf
<1>8. ASSUME NEW h \in Handlers, DeleteMembers(h) PROVE OrganInv'
  <2>1. /\ organTask[h].pc = "delete" /\ index' = NoMembers /\ kept' = kept
        /\ organTask'[h].pc = "save" /\ organTask'[h].new = organTask[h].new /\ organTask'[h].todo = organTask[h].todo
        /\ Replaces(organTask[h])
    BY <1>1, <1>8, OrganTasks DEF DeleteMembers, OrganAt, OrganInv
  <2>2. Replaces(organTask[h])'
    BY <2>1 DEF Replaces, NoMembers, Different, MembersOf
  <2>3. Different(index)'
    BY <2>1, NoMembersType DEF Different
  <2> QED BY <1>4, <2>1, <2>2, <2>3 DEF OrganAt
<1>9. ASSUME NEW h \in Handlers, NEW p \in Persons, SaveMembership(h, p) PROVE OrganInv'
  <2>1. /\ organTask[h].pc = "save" /\ p \in organTask[h].todo /\ kept' = kept
        /\ index' = [index EXCEPT ![p] = organTask[h].new[p]]
        /\ organTask[h] \in Replacement
        /\ organTask'[h].pc = "save" /\ organTask'[h].new = organTask[h].new
        /\ organTask'[h].todo = organTask[h].todo \ {p} /\ Replaces(organTask[h])
    BY <1>1, <1>9, OrganTasks DEF SaveMembership, OrganAt, OrganInv
  <2>2. \A q \in Persons : index'[q] = IF q \in organTask'[h].todo THEN None ELSE organTask[h].new[q]
    BY <1>1, <2>1 DEF Replaces, OrganTypeOK, Memberships
  <2>3. Replaces(organTask[h])'
    BY <2>1, <2>2 DEF Replaces, Different, MembersOf
  <2>4. index' \in Memberships /\ organTask[h].new \in Memberships /\ Different(organTask[h].new)
    BY <1>1, <2>1 DEF OrganTypeOK, Replacement, Replaces
  <2>5. Different(index')
    BY <2>2, <2>4, PartDiffers
  <2> QED BY <1>4, <2>1, <2>3, <2>5 DEF OrganAt, Different, MembersOf
<1>10. ASSUME NEW h \in Handlers, EndMembers(h) PROVE OrganInv'
  <2> DEFINE task == organTask[h]
  <2>1. /\ task.pc = "save" /\ task.todo = {} /\ index' = index /\ organTask'[h] = Idle
        /\ kept' = [p \in Persons |-> IF task.new[p] # None /\ kept[p] # None THEN kept[p] ELSE task.new[p]]
        /\ Replaces(task)
    BY <1>1, <1>10, OrganTasks DEF EndMembers, OrganAt, OrganInv
  <2>2. \A p \in Persons : kept'[p] # None => index'[p] = kept'[p]
    BY <2>1 DEF Replaces
  <2> QED BY <1>3, <1>5, <2>1, <2>2 DEF OrganAt, Idle, Different, MembersOf
<1>11. ASSUME NEW h \in Handlers, OrganFails(h) PROVE OrganInv'
  <2>1. index' = index /\ kept' = NoMembers /\ organTask'[h] = Idle
    BY <1>1, <1>11, OrganTasks DEF OrganFails
  <2> QED BY <1>3, <1>5, <2>1 DEF OrganAt, Idle, NoMembers, Different, MembersOf
<1> QED BY <1>6, <1>7, <1>8, <1>9, <1>10, <1>11 DEF OrganNext, ListChanges, organVars

(***************************************************************************)
(* For any list of members, one replacement at a time: no two members of   *)
(* an organ have the same index, also in the middle of a replacement and   *)
(* after one that failed half way, and a member who stays keeps the index. *)
(***************************************************************************)
THEOREM MembersHaveIndicesAlways ==
  ASSUME \A g, h \in Handlers : g = h
  PROVE  OrganSpec => []MembersHaveIndices
<1>1. OrganInv /\ [OrganNext]_organVars => OrganInv'
  BY OrganNextInv
<1>2. OrganInv => MembersHaveIndices
  BY DEF OrganInv
<1> QED BY <1>1, <1>2, OrganInitInv, PTL DEF OrganSpec
-----------------------------------------------------------------------------
(***************************************************************************)
(* Types, for any number of handlers.  A synchronisation that applies its  *)
(* differences has marked the role as the system's, which it stays, so it  *)
(* never writes permissions of a role that is not there.                   *)
(***************************************************************************)
Applying ==
  [pc : {"apply"}, adding : SUBSET Rules, removing : SUBSET Rules,
   found : SUBSET Rules, todo : SUBSET {"find", "write", "remove"}]

Reading == [pc : {"mark", "change"}, read : Permissions]

LEMMA RoleTaskIs == RoleTask = {Idle, [pc |-> "create"]} \cup Reading \cup Applying
BY DEF RoleTask, Reading, Applying

RolesInv == RolesTypeOK /\ \A h \in Handlers : RoleAt(h, "apply") => role = "system"

LEMMA RoleGoes ==
  ASSUME RolesTypeOK, NEW h \in Handlers, NEW task \in RoleTask, RoleGo(h, task)
  PROVE  /\ roleTask' \in [Handlers -> RoleTask] /\ roleTask'[h] = task
         /\ \A g \in Handlers \ {h} : roleTask'[g] = roleTask[g]
BY DEF RolesTypeOK, RoleGo

LEMMA RoleTaskOf ==
  ASSUME RolesTypeOK, NEW h \in Handlers
  PROVE  /\ RoleAt(h, "apply") => roleTask[h] \in Applying
         /\ RoleAt(h, "mark") \/ RoleAt(h, "change") => roleTask[h] \in Reading
BY RoleTaskIs DEF RolesTypeOK, RoleAt, Idle, Reading, Applying

\* The task of h goes on to apply its differences, of which this is left to do.
Applies(h, found, todo) ==
  /\ roleTask[h] \in Applying /\ roleTask' \in [Handlers -> RoleTask]
  /\ roleTask'[h] \in Applying /\ roleTask'[h].todo = todo /\ roleTask'[h].found = found
  /\ roleTask'[h].adding = roleTask[h].adding /\ roleTask'[h].removing = roleTask[h].removing
  /\ \A g \in Handlers \ {h} : roleTask'[g] = roleTask[g]

LEMMA RoleApplies ==
  ASSUME RolesTypeOK, NEW h \in Handlers, RoleAt(h, "apply"),
         NEW found \in SUBSET Rules, NEW todo \in SUBSET {"find", "write", "remove"},
         RoleGo(h, [roleTask[h] EXCEPT !.found = found, !.todo = todo])
  PROVE  Applies(h, found, todo)
<1> DEFINE task == [roleTask[h] EXCEPT !.found = found, !.todo = todo]
<1>1. roleTask[h] \in Applying
  BY RoleTaskOf
<1>2. /\ task \in Applying /\ task.todo = todo /\ task.found = found
      /\ task.adding = roleTask[h].adding /\ task.removing = roleTask[h].removing
  BY <1>1 DEF Applying
<1>3. RoleGo(h, task) /\ task \in RoleTask
  BY <1>2, RoleTaskIs
<1> HIDE DEF task
<1> QED BY <1>1, <1>2, <1>3, RoleGoes DEF Applies

LEMMA RoleSteps ==
  ASSUME RolesTypeOK, NEW h \in Handlers
  PROVE  /\ FindPermissions(h) =>
              Applies(h, {r \in roleTask[h].adding : permission[r] # Absent},
                      (roleTask[h].todo \ {"find"}) \cup {"write"})
         /\ WritePermissions(h) => Applies(h, roleTask[h].found, roleTask[h].todo \ {"write"})
         /\ RemovePermissions(h) => Applies(h, roleTask[h].found, roleTask[h].todo \ {"remove"})
<1> DEFINE task == roleTask[h]
<1>1. RoleAt(h, "apply") => task \in Applying
  BY RoleTaskOf
<1>2. ASSUME FindPermissions(h)
      PROVE  Applies(h, {r \in task.adding : permission[r] # Absent}, (task.todo \ {"find"}) \cup {"write"})
  <2> DEFINE found == {r \in task.adding : permission[r] # Absent}
             todo == (task.todo \ {"find"}) \cup {"write"}
  <2>1. task \in Applying
    BY <1>1, <1>2 DEF FindPermissions
  <2>2. found \in SUBSET Rules /\ todo \in SUBSET {"find", "write", "remove"}
    BY <2>1 DEF Applying
  <2>3. RoleGo(h, [task EXCEPT !.found = found, !.todo = todo])
    BY <1>2, <2>1 DEF FindPermissions, Applying
  <2> HIDE DEF found, todo
  <2>4. Applies(h, found, todo)
    BY <1>2, <2>2, <2>3, RoleApplies DEF FindPermissions
  <2> QED BY <2>4 DEF found, todo
<1>3. ASSUME NEW w \in {"write", "remove"}, RoleAt(h, "apply"), RoleGo(h, [task EXCEPT !.todo = @ \ {w}])
      PROVE  Applies(h, task.found, task.todo \ {w})
  <2> DEFINE todo == task.todo \ {w}
             found == task.found
  <2>1. task \in Applying
    BY <1>1, <1>3
  <2>2. found \in SUBSET Rules /\ todo \in SUBSET {"find", "write", "remove"}
    BY <2>1 DEF Applying
  <2>3. [task EXCEPT !.todo = @ \ {w}] = [task EXCEPT !.found = found, !.todo = todo]
    BY <2>1 DEF Applying
  <2>4. RoleGo(h, [task EXCEPT !.found = found, !.todo = todo])
    BY <1>3, <2>3
  <2> HIDE DEF found, todo
  <2>5. Applies(h, found, todo)
    BY <1>3, <2>2, <2>4, RoleApplies
  <2> QED BY <2>5 DEF found, todo
<1> QED BY <1>2, <1>3 DEF WritePermissions, RemovePermissions

\* What the other steps make of the task.
LEMMA RoleMoves ==
  ASSUME RolesTypeOK, NEW h \in Handlers
  PROVE  /\ ReadRole(h) =>
              /\ roleTask' \in [Handlers -> RoleTask] /\ \A g \in Handlers \ {h} : roleTask'[g] = roleTask[g]
              /\ roleTask'[h] = IF role = "none" THEN [pc |-> "create"] ELSE [pc |-> "mark", read |-> permission]
         /\ InsertRole(h) =>
              /\ roleTask' \in [Handlers -> RoleTask] /\ \A g \in Handlers \ {h} : roleTask'[g] = roleTask[g]
              /\ roleTask'[h] = IF role = "none" THEN [pc |-> "mark", read |-> NoPermissions] ELSE Idle
         /\ CheckRole(h) =>
              /\ roleTask' \in [Handlers -> RoleTask] /\ \A g \in Handlers \ {h} : roleTask'[g] = roleTask[g]
              /\ roleTask'[h] = [pc |-> "change", read |-> permission]
         /\ RoleGo(h, Idle) =>
              /\ roleTask' \in [Handlers -> RoleTask] /\ \A g \in Handlers \ {h} : roleTask'[g] = roleTask[g]
              /\ roleTask'[h] = Idle
<1>1. NoPermissions \in Permissions
  BY DEF NoPermissions, Permissions
<1>2. ASSUME NEW read \in Permissions, NEW pc \in {"mark", "change"} PROVE [pc |-> pc, read |-> read] \in RoleTask
  BY RoleTaskIs DEF Reading
<1>3. Idle \in RoleTask /\ [pc |-> "create"] \in RoleTask
  BY RoleTaskIs
<1>4. ReadRole(h) => RoleGo(h, IF role = "none" THEN [pc |-> "create"] ELSE [pc |-> "mark", read |-> permission])
  BY DEF ReadRole
<1>5. InsertRole(h) => RoleGo(h, IF role = "none" THEN [pc |-> "mark", read |-> NoPermissions] ELSE Idle)
  BY DEF InsertRole
<1>6. CheckRole(h) => RoleGo(h, [pc |-> "change", read |-> permission])
  BY DEF CheckRole
<1> QED BY <1>1, <1>2, <1>3, <1>4, <1>5, <1>6, RoleGoes DEF RolesTypeOK

MarkedTask(read) ==
  [pc |-> "apply",
   adding |-> {r \in Rules : Differ(definition[r], read[r]) /\ definition[r] # Absent},
   removing |-> {r \in Rules : Differ(definition[r], read[r]) /\ read[r] # Absent},
   found |-> {}, todo |-> {"find", "remove"}]

LEMMA RoleMarks ==
  ASSUME RolesTypeOK, NEW h \in Handlers, MarkRole(h)
  PROVE  /\ roleTask' \in [Handlers -> RoleTask] /\ \A g \in Handlers \ {h} : roleTask'[g] = roleTask[g]
         /\ roleTask'[h] = MarkedTask(roleTask[h].read)
<1> DEFINE read == roleTask[h].read
           differing == {r \in Rules : Differ(definition[r], read[r])}
           adding == {r \in differing : definition[r] # Absent}
           removing == {r \in differing : read[r] # Absent}
<1>1. RoleGo(h, [pc |-> "apply", adding |-> adding, removing |-> removing, found |-> {}, todo |-> {"find", "remove"}])
  BY DEF MarkRole
<1>2. /\ adding = {r \in Rules : Differ(definition[r], read[r]) /\ definition[r] # Absent}
      /\ removing = {r \in Rules : Differ(definition[r], read[r]) /\ read[r] # Absent}
  OBVIOUS
<1> HIDE DEF adding, removing
<1>3. [pc |-> "apply", adding |-> adding, removing |-> removing, found |-> {}, todo |-> {"find", "remove"}] = MarkedTask(read)
  BY <1>2 DEF MarkedTask
<1>4. MarkedTask(read) \in RoleTask
  <2>1. adding \in SUBSET Rules /\ removing \in SUBSET Rules
    BY <1>2
  <2>2. [pc |-> "apply", adding |-> adding, removing |-> removing, found |-> {}, todo |-> {"find", "remove"}] \in Applying
    BY <2>1 DEF Applying
  <2> QED BY <1>3, <2>2, RoleTaskIs
<1> QED BY <1>1, <1>3, <1>4, RoleGoes

LEMMA RolesInitInv == RolesInit => RolesInv
<1>1. NoPermissions \in Permissions /\ Idle \in RoleTask
  BY RoleTaskIs DEF NoPermissions, Permissions
<1> QED BY <1>1 DEF RolesInit, RolesInv, RolesTypeOK, RoleAt, Idle

LEMMA RolesStepInv ==
  ASSUME RolesInv, NEW h \in Handlers,
         \/ ReadRole(h) \/ InsertRole(h) \/ MarkRole(h) \/ EndSynchronize(h)
         \/ FindPermissions(h) \/ WritePermissions(h) \/ RemovePermissions(h)
         \/ CheckRole(h) \/ RemoveRole(h) \/ RoleFails(h)
         \/ \E r \in Rules : RemovePermission(h, r) \/ \E a \in Attributes : AddPermission(h, r, a)
  PROVE  RolesInv'
<1>1. RolesTypeOK
  BY DEF RolesInv
<1>2. NoPermissions \in Permissions
  BY DEF NoPermissions, Permissions
<1>3. CASE ReadRole(h) \/ CheckRole(h)
  <2>1. roleTask' \in [Handlers -> RoleTask] /\ \A g \in Handlers \ {h} : roleTask'[g] = roleTask[g]
    BY <1>1, <1>3, RoleMoves
  <2>2. ~ RoleAt(h, "apply")'
    BY <1>1, <1>3, RoleMoves DEF RoleAt
  <2>3. UNCHANGED <<definition, role, permission, completed>>
    BY <1>3 DEF ReadRole, CheckRole
  <2> QED BY <1>1, <2>1, <2>2, <2>3 DEF RolesInv, RolesTypeOK, RoleAt
<1>4. CASE InsertRole(h)
  <2>1. roleTask' \in [Handlers -> RoleTask] /\ \A g \in Handlers \ {h} : roleTask'[g] = roleTask[g]
    BY <1>1, <1>4, RoleMoves
  <2>2. ~ RoleAt(h, "apply")'
    BY <1>1, <1>4, RoleMoves DEF RoleAt, Idle
  <2>3. role' = (IF role = "none" THEN "own" ELSE role) /\ UNCHANGED <<definition, permission, completed>>
    BY <1>4 DEF InsertRole
  <2> QED BY <1>1, <2>1, <2>2, <2>3 DEF RolesInv, RolesTypeOK, RoleAt
<1>5. CASE MarkRole(h)
  <2>1. roleTask' \in [Handlers -> RoleTask] /\ role' = "system" /\ UNCHANGED <<definition, permission, completed>>
    BY <1>1, <1>5, RoleMarks DEF MarkRole
  <2> QED BY <1>1, <2>1 DEF RolesInv, RolesTypeOK
<1>6. CASE FindPermissions(h) \/ WritePermissions(h) \/ RemovePermissions(h)
  <2>1. RoleAt(h, "apply") /\ UNCHANGED <<definition, role, completed>>
    BY <1>6 DEF FindPermissions, WritePermissions, RemovePermissions
  <2>2. role = "system" /\ roleTask[h] \in Applying
    BY <1>1, <2>1, RoleTaskOf DEF RolesInv
  <2>3. roleTask' \in [Handlers -> RoleTask]
    BY <1>1, <1>6, RoleSteps DEF Applies
  <2>4. permission' \in Permissions
    BY <1>1, <1>6, <2>2 DEF FindPermissions, WritePermissions, RemovePermissions, RolesTypeOK, Permissions
  <2> QED BY <1>1, <2>1, <2>2, <2>3, <2>4 DEF RolesInv, RolesTypeOK
<1>7. CASE EndSynchronize(h) \/ RoleFails(h)
  <2>1. roleTask' \in [Handlers -> RoleTask] /\ roleTask'[h] = Idle /\ \A g \in Handlers \ {h} : roleTask'[g] = roleTask[g]
    BY <1>1, <1>7, RoleMoves DEF EndSynchronize, RoleFails
  <2>2. UNCHANGED <<definition, role, permission>> /\ completed' \in 0 .. 2
    BY <1>1, <1>7 DEF EndSynchronize, RoleFails, RolesTypeOK
  <2> QED BY <1>1, <2>1, <2>2 DEF RolesInv, RolesTypeOK, RoleAt, Idle
<1>8. CASE \/ RemoveRole(h)
           \/ \E r \in Rules : RemovePermission(h, r) \/ \E a \in Attributes : AddPermission(h, r, a)
  <2>1. roleTask' \in [Handlers -> RoleTask] /\ roleTask'[h] = Idle /\ \A g \in Handlers \ {h} : roleTask'[g] = roleTask[g]
    BY <1>1, <1>8, RoleMoves DEF RemoveRole, RemovePermission, AddPermission
  <2>2. /\ UNCHANGED <<definition, completed>> /\ permission' \in Permissions
        /\ \/ role = "own" /\ role' = "none" /\ permission' = NoPermissions
           \/ role # "none" /\ role' = role
    BY <1>1, <1>2, <1>8 DEF RemoveRole, RemovePermission, AddPermission, RolesTypeOK, Permissions
  <2>3. \A g \in Handlers : RoleAt(g, "apply")' => RoleAt(g, "apply")
    BY <2>1 DEF RoleAt, Idle
  <2>4. \A g \in Handlers : RoleAt(g, "apply")' => role' = "system"
    BY <2>2, <2>3 DEF RolesInv
  <2> QED BY <1>1, <2>1, <2>2, <2>4 DEF RolesInv, RolesTypeOK
<1> QED BY <1>3, <1>4, <1>5, <1>6, <1>7, <1>8

LEMMA RolesNextInv == RolesInv /\ [RolesNext]_rolesVars => RolesInv'
<1>1. ASSUME RolesInv, CreateRole PROVE RolesInv'
  BY <1>1 DEF RolesInv, RolesTypeOK, CreateRole, RoleAt
<1>2. ASSUME RolesInv, NEW new \in Permissions, Deploy(new) PROVE RolesInv'
  <2>1. Idle \in RoleTask
    BY RoleTaskIs
  <2> QED BY <1>2, <2>1 DEF RolesInv, RolesTypeOK, Deploy, RoleAt, Idle
<1>3. ASSUME RolesInv, UNCHANGED rolesVars PROVE RolesInv'
  BY <1>3 DEF RolesInv, RolesTypeOK, rolesVars, RoleAt
<1> QED BY <1>1, <1>2, <1>3, RolesStepInv DEF RolesNext

(***************************************************************************)
(* Every reachable state of the model of the roles is well typed: a role   *)
(* that is not there has no permissions.                                   *)
(***************************************************************************)
THEOREM RolesTypeCorrect == RolesSpec => []RolesTypeOK
<1>1. RolesInv => RolesTypeOK
  BY DEF RolesInv
<1> QED BY <1>1, RolesInitInv, RolesNextInv, PTL DEF RolesSpec
-----------------------------------------------------------------------------
(***************************************************************************)
(* Requests and synchronisations one at a time.  After one complete        *)
(* synchronisation each rule is as defined or absent; from there the next  *)
(* one only adds, and leaves every rule as defined.  The role is the       *)
(* system's from the first on, so no request changes it.                   *)
(***************************************************************************)
Near(r) == permission[r] \in {Absent, definition[r]}

Stored(task, r) ==
  /\ r \in task.adding => definition[r] # Absent
  /\ r \in task.removing => definition[r] = Absent \/ r \in task.adding
  /\ r \notin task.adding \cup task.removing => permission[r] = definition[r]
  /\ r \in task.removing /\ r \notin task.adding /\ "remove" \notin task.todo => permission[r] = Absent
  /\ r \in task.adding /\ task.todo \cap {"find", "write"} = {} => Near(r)
  /\ completed >= 1 =>
       /\ r \notin task.removing
       /\ r \in task.adding /\ "write" \in task.todo /\ r \in task.found => permission[r] # Absent
       /\ r \in task.adding /\ task.todo \cap {"find", "write"} = {} => permission[r] = definition[r]

RoleSettles(task) ==
  /\ task.pc = "mark" => task.read = permission
  /\ task.pc = "change" => completed = 0
  /\ task.pc = "apply" => role = "system" /\ \A r \in Rules : Stored(task, r)

RoleSettled ==
  /\ completed >= 1 => role = "system" /\ \A r \in Rules : Near(r)
  /\ completed = 2 => \A r \in Rules : permission[r] = definition[r]

SettleInv == RolesInv /\ RoleSettled /\ \A h \in Handlers : RoleSettles(roleTask[h])

LEMMA SettleInitInv == RolesInit => SettleInv
BY RolesInitInv DEF RolesInit, SettleInv, RoleSettled, RoleSettles, Idle

LEMMA SettleByOne ==
  ASSUME RolesInv', RoleSettled', \A g, h \in Handlers : g = h, NEW h \in Handlers, RoleSettles(roleTask[h])'
  PROVE  SettleInv'
BY DEF SettleInv

LEMMA IdleRoleSettles == ASSUME NEW task, task = Idle \/ task = [pc |-> "create"] PROVE RoleSettles(task) /\ RoleSettles(task)'
BY DEF RoleSettles, Idle

LEMMA SettleStep ==
  ASSUME \A g, h \in Handlers : g = h, SettleInv, NEW h \in Handlers,
         \/ ReadRole(h) \/ InsertRole(h) \/ MarkRole(h) \/ EndSynchronize(h)
         \/ FindPermissions(h) \/ WritePermissions(h) \/ RemovePermissions(h)
         \/ CheckRole(h) \/ RemoveRole(h) \/ RoleFails(h)
         \/ \E r \in Rules : RemovePermission(h, r) \/ \E a \in Attributes : AddPermission(h, r, a)
  PROVE  SettleInv'
<1> DEFINE task == roleTask[h]
<1>1. RolesTypeOK /\ RolesInv' /\ RoleSettled /\ RoleSettles(task)
  BY RolesStepInv DEF SettleInv, RolesInv
<1>2. completed \in 0 .. 2 /\ definition \in Permissions /\ permission \in Permissions
  BY <1>1 DEF RolesTypeOK
<1>3. CASE ReadRole(h) \/ CheckRole(h)
  <2>1. UNCHANGED <<definition, role, permission, completed>>
    BY <1>3 DEF ReadRole, CheckRole
  <2>2. RoleSettled'
    BY <1>1, <2>1 DEF RoleSettled, Near
  <2>3. \/ roleTask'[h] = [pc |-> "create"]
        \/ roleTask'[h] = [pc |-> "mark", read |-> permission]
        \/ CheckRole(h) /\ roleTask'[h] = [pc |-> "change", read |-> permission]
    BY <1>1, <1>3, RoleMoves
  <2>4. CheckRole(h) => completed = 0
    BY <1>1, <1>2 DEF CheckRole, RoleSettled
  <2>5. RoleSettles(roleTask[h])'
    BY <2>1, <2>3, <2>4 DEF RoleSettles
  <2> QED BY <1>1, <2>2, <2>5, SettleByOne
<1>4. CASE InsertRole(h)
  <2>1. role' = (IF role = "none" THEN "own" ELSE role) /\ UNCHANGED <<definition, permission, completed>>
    BY <1>4 DEF InsertRole
  <2>2. role = "none" => permission = NoPermissions /\ completed = 0
    BY <1>1, <1>2 DEF RolesTypeOK, RoleSettled
  <2>3. RoleSettled'
    BY <1>1, <2>1, <2>2 DEF RoleSettled, Near
  <2>4. roleTask'[h] = Idle \/ (role = "none" /\ roleTask'[h] = [pc |-> "mark", read |-> NoPermissions])
    BY <1>1, <1>4, RoleMoves
  <2>5. RoleSettles(roleTask[h])'
    BY <2>1, <2>2, <2>4 DEF RoleSettles, Idle
  <2> QED BY <1>1, <2>3, <2>5, SettleByOne
<1>5. CASE MarkRole(h)
  <2>1. task.read = permission /\ role' = "system" /\ UNCHANGED <<definition, permission, completed>>
    BY <1>1, <1>5 DEF MarkRole, RoleAt, RoleSettles
  <2>2. RoleSettled'
    BY <1>1, <2>1 DEF RoleSettled, Near
  <2>3. roleTask'[h] = MarkedTask(permission)
    BY <1>1, <1>5, <2>1, RoleMarks
  <2> DEFINE new == roleTask'[h]
  <2>4. /\ new.pc = "apply" /\ new.todo = {"find", "remove"} /\ new.found = {}
        /\ new.adding = {r \in Rules : definition[r] # permission[r] /\ definition[r] # Absent}
        /\ new.removing = {r \in Rules : definition[r] # permission[r] /\ permission[r] # Absent}
    BY <2>3 DEF MarkedTask, Differ
  <2> HIDE DEF new
  <2>5. ASSUME NEW r \in Rules PROVE Stored(roleTask[h], r)'
    <3>1. /\ r \in new.adding <=> definition[r] # permission[r] /\ definition[r] # Absent
          /\ r \in new.removing <=> definition[r] # permission[r] /\ permission[r] # Absent
          /\ "find" \in new.todo /\ "remove" \in new.todo /\ "write" \notin new.todo
      BY <2>4
    <3>2. completed >= 1 => Near(r)
      BY <1>1 DEF RoleSettled
    <3>3. completed >= 1 => r \notin new.removing
      BY <3>1, <3>2 DEF Near
    <3>4. new.todo \cap {"find", "write"} # {}
      BY <3>1
    <3> QED BY <2>1, <3>1, <3>3, <3>4 DEF Stored, new
  <2>6. RoleSettles(roleTask[h])'
    BY <2>1, <2>4, <2>5 DEF RoleSettles, new
  <2> QED BY <1>1, <2>2, <2>6, SettleByOne
<1>6. CASE FindPermissions(h)
  <2>1. task.pc = "apply" /\ UNCHANGED <<definition, role, permission, completed>>
    BY <1>6 DEF FindPermissions, RoleAt
  <2>2. Applies(h, {r \in task.adding : permission[r] # Absent}, (task.todo \ {"find"}) \cup {"write"})
    BY <1>1, <1>6, RoleSteps
  <2>3. RoleSettled'
    BY <1>1, <2>1 DEF RoleSettled, Near
  <2> DEFINE new == roleTask'[h]
  <2>4. /\ new.pc = "apply" /\ new.adding = task.adding /\ new.removing = task.removing
        /\ \A r \in new.found : permission[r] # Absent
        /\ "write" \in new.todo /\ ("remove" \in new.todo <=> "remove" \in task.todo)
    BY <2>2 DEF Applies, Applying
  <2> HIDE DEF new
  <2>5. ASSUME NEW r \in Rules PROVE Stored(roleTask[h], r)'
    <3>1. Stored(task, r)
      BY <1>1, <2>1 DEF RoleSettles
    <3>2. new.todo \cap {"find", "write"} # {}
      BY <2>4
    <3> QED BY <2>1, <2>4, <3>1, <3>2 DEF Stored, new
  <2>6. RoleSettles(roleTask[h])'
    BY <1>1, <2>1, <2>4, <2>5 DEF RoleSettles, new
  <2> QED BY <1>1, <2>3, <2>6, SettleByOne
<1>7. CASE WritePermissions(h)
  <2>1. task.pc = "apply" /\ "write" \in task.todo /\ UNCHANGED <<definition, role, completed>>
    BY <1>7 DEF WritePermissions, RoleAt
  <2>2. Applies(h, task.found, task.todo \ {"write"})
    BY <1>1, <1>7, RoleSteps
  <2>3. ASSUME NEW r \in Rules
        PROVE  permission'[r] = IF r \in task.adding /\ (r \in task.found => permission[r] # Absent)
                                THEN definition[r] ELSE permission[r]
    BY <1>7 DEF WritePermissions
  <2>4. ASSUME NEW r \in Rules PROVE Stored(task, r)
    BY <1>1, <2>1 DEF RoleSettles
  <2>5. RoleSettled'
    BY <1>1, <2>1, <2>3 DEF RoleSettled, Near
  <2> DEFINE new == roleTask'[h]
  <2>6. /\ new.pc = "apply" /\ new.adding = task.adding /\ new.removing = task.removing
        /\ "write" \notin new.todo /\ ("remove" \in new.todo <=> "remove" \in task.todo)
    BY <2>2 DEF Applies, Applying
  <2> HIDE DEF new
  <2>7. ASSUME NEW r \in Rules PROVE Stored(roleTask[h], r)'
    <3>1. r \notin task.adding => permission'[r] = permission[r]
      BY <2>3
    <3>2. r \in task.adding => permission'[r] \in {Absent, definition[r]}
      BY <2>3
    <3>3. r \in task.adding /\ completed >= 1 => permission'[r] = definition[r]
      BY <2>1, <2>3, <2>4 DEF Stored
    <3> QED BY <2>1, <2>4, <2>6, <3>1, <3>2, <3>3 DEF Stored, new, Near
  <2>8. RoleSettles(roleTask[h])'
    BY <1>1, <2>1, <2>6, <2>7 DEF RoleSettles, new
  <2> QED BY <1>1, <2>5, <2>8, SettleByOne
<1>8. CASE RemovePermissions(h)
  <2>1. task.pc = "apply" /\ UNCHANGED <<definition, role, completed>>
    BY <1>8 DEF RemovePermissions, RoleAt
  <2>2. Applies(h, task.found, task.todo \ {"remove"})
    BY <1>1, <1>8, RoleSteps
  <2>3. ASSUME NEW r \in Rules
        PROVE  permission'[r] = IF r \in task.removing THEN Absent ELSE permission[r]
    BY <1>8 DEF RemovePermissions
  <2>4. ASSUME NEW r \in Rules PROVE Stored(task, r)
    BY <1>1, <2>1 DEF RoleSettles
  <2>5. completed >= 1 => \A r \in Rules : permission'[r] = permission[r]
    BY <2>3, <2>4 DEF Stored
  <2>6. RoleSettled'
    BY <1>1, <1>2, <2>1, <2>5 DEF RoleSettled, Near
  <2> DEFINE new == roleTask'[h]
  <2>7. /\ new.pc = "apply" /\ new.adding = task.adding /\ new.removing = task.removing /\ new.found = task.found
        /\ "remove" \notin new.todo /\ new.todo \cap {"find", "write"} = task.todo \cap {"find", "write"}
        /\ ("write" \in new.todo <=> "write" \in task.todo)
    BY <2>2 DEF Applies, Applying
  <2> HIDE DEF new
  <2>8. ASSUME NEW r \in Rules PROVE Stored(roleTask[h], r)'
    <3>1. r \notin task.removing => permission'[r] = permission[r]
      BY <2>3
    <3>2. r \in task.removing => permission'[r] = Absent
      BY <2>3
    <3> QED BY <2>1, <2>4, <2>5, <2>7, <3>1, <3>2 DEF Stored, new, Near
  <2>9. RoleSettles(roleTask[h])'
    BY <1>1, <2>1, <2>7, <2>8 DEF RoleSettles, new
  <2> QED BY <1>1, <2>6, <2>9, SettleByOne
<1>9. CASE EndSynchronize(h)
  <2>1. /\ task.pc = "apply" /\ task.todo = {} /\ UNCHANGED <<definition, role, permission>>
        /\ completed' = IF completed = 2 THEN 2 ELSE completed + 1
    BY <1>9 DEF EndSynchronize, RoleAt
  <2>2. roleTask'[h] = Idle
    BY <1>1, <1>9, RoleMoves DEF EndSynchronize
  <2>3. ASSUME NEW r \in Rules
        PROVE  Near(r) /\ (completed >= 1 => permission[r] = definition[r])
    <3>1. Stored(task, r) /\ task.todo \cap {"find", "write"} = {} /\ "remove" \notin task.todo
      BY <1>1, <2>1 DEF RoleSettles
    <3>2. CASE r \in task.adding
      BY <3>1, <3>2 DEF Stored
    <3>3. CASE r \notin task.adding /\ r \in task.removing
      BY <3>1, <3>3 DEF Stored, Near
    <3>4. CASE r \notin task.adding \cup task.removing
      BY <3>1, <3>4 DEF Stored, Near
    <3> QED BY <3>2, <3>3, <3>4
  <2>4. role = "system"
    BY <1>1, <2>1 DEF RoleSettles
  <2>5. completed' = 2 => completed >= 1
    BY <1>2, <2>1
  <2>6. RoleSettled'
    BY <2>1, <2>3, <2>4, <2>5 DEF RoleSettled, Near
  <2>7. RoleSettles(roleTask[h])'
    BY <2>2, IdleRoleSettles DEF RoleSettles, Idle
  <2> QED BY <1>1, <2>6, <2>7, SettleByOne
<1>10. CASE RoleFails(h)
  <2>1. roleTask'[h] = Idle /\ UNCHANGED <<definition, role, permission, completed>>
    BY <1>1, <1>10, RoleMoves DEF RoleFails
  <2>2. RoleSettled' /\ RoleSettles(roleTask[h])'
    BY <1>1, <2>1 DEF RoleSettled, Near, RoleSettles, Idle
  <2> QED BY <1>1, <2>2, SettleByOne
<1>11. CASE \/ RemoveRole(h)
            \/ \E r \in Rules : RemovePermission(h, r) \/ \E a \in Attributes : AddPermission(h, r, a)
  <2>1. roleTask'[h] = Idle /\ task.pc = "change" /\ UNCHANGED <<definition, completed>>
    BY <1>1, <1>11, RoleMoves DEF RemoveRole, RemovePermission, AddPermission, RoleAt
  <2>2. completed' = 0
    BY <1>1, <2>1 DEF RoleSettles
  <2>3. RoleSettled' /\ RoleSettles(roleTask[h])'
    BY <2>1, <2>2 DEF RoleSettled, RoleSettles, Idle
  <2> QED BY <1>1, <2>3, SettleByOne
<1> QED BY <1>3, <1>4, <1>5, <1>6, <1>7, <1>8, <1>9, <1>10, <1>11

LEMMA SettleNext ==
  ASSUME \A g, h \in Handlers : g = h
  PROVE  SettleInv /\ [RolesNext]_rolesVars => SettleInv'
<1>1. ASSUME SettleInv, CreateRole PROVE SettleInv'
  <2>1. role = "none" /\ role' = "own" /\ UNCHANGED <<definition, permission, completed, roleTask>>
    BY <1>1 DEF CreateRole
  <2>2. RolesInv' /\ completed \in 0 .. 2
    BY <1>1, RolesNextInv DEF SettleInv, RolesNext, RolesInv, RolesTypeOK
  <2>3. completed = 0
    BY <1>1, <2>1, <2>2 DEF SettleInv, RoleSettled
  <2> QED BY <1>1, <2>1, <2>2, <2>3 DEF SettleInv, RoleSettled, RoleSettles
<1>2. ASSUME SettleInv, NEW new \in Permissions, Deploy(new) PROVE SettleInv'
  <2>1. RolesInv'
    BY <1>2, RolesNextInv DEF SettleInv, RolesNext
  <2>2. completed' = 0 /\ \A h \in Handlers : roleTask'[h] = Idle
    BY <1>2 DEF Deploy
  <2> QED BY <2>1, <2>2 DEF SettleInv, RoleSettled, RoleSettles, Idle
<1>3. ASSUME SettleInv, UNCHANGED rolesVars PROVE SettleInv'
  <2>1. RolesInv'
    BY <1>3, RolesNextInv DEF SettleInv
  <2> QED BY <1>3, <2>1 DEF SettleInv, RoleSettled, RoleSettles, Stored, Near, rolesVars
<1> QED BY <1>1, <1>2, <1>3, SettleStep DEF RolesNext

LEMMA SettledIsDefined == SettleInv => RolesSettle
<1> SUFFICES ASSUME SettleInv, completed = 2 PROVE role = "system" /\ permission = definition
  BY DEF RolesSettle
<1>1. role = "system" /\ \A r \in Rules : permission[r] = definition[r]
  BY DEF SettleInv, RoleSettled
<1>2. permission \in Permissions /\ definition \in Permissions
  BY DEF SettleInv, RolesInv, RolesTypeOK
<1> QED BY <1>1, <1>2 DEF Permissions

(***************************************************************************)
(* With requests and synchronisations one at a time, for all rules and     *)
(* attributes: after two complete synchronisations since the deployment    *)
(* the permissions of the role are those the source defines, wherever the  *)
(* attempts before them died.                                              *)
(***************************************************************************)
THEOREM RolesSettleAlways ==
  ASSUME \A g, h \in Handlers : g = h
  PROVE  RolesSpec => []RolesSettle
BY SettleInitInv, SettleNext, SettledIsDefined, PTL DEF RolesSpec
=============================================================================
