----------------------------- MODULE QRSessions -----------------------------
(***************************************************************************)
(* Logging in by a QR code: a screen shows a session, a user confirms it   *)
(* with a phone and the screen gets a token.  Confirming and cancelling    *)
(* load the session, await other calls, and save the row as it was loaded. *)
(***************************************************************************)
EXTENDS Integers, FiniteSets, Server

CONSTANTS
  Sessions,
  Phones,         \* the users who log in on a screen with their phone
  Nobody          \* a session without a user

ASSUME PhonesAssumption == Nobody \notin Phones

VARIABLES
  session,        \* the rows of qr_authenticator
  overdue,        \* the sessions whose expiresAt has passed
  tokens,         \* history: the users whose token each screen was sent
  qrTask

qrTables == <<session, overdue, tokens>>
qrVars   == <<session, overdue, tokens, qrTask>>

SessionRow == [confirmedBy : Phones \cup {Nobody}, cancelled : BOOLEAN]

QRTask ==
       {Idle}
  \cup [pc : {"confirm.check", "confirm.save", "confirm.emit"}, session : Sessions, user : Phones, row : SessionRow]
  \cup [pc : {"cancel.save"}, session : Sessions, row : SessionRow]

QRTypeOK ==
  /\ session \in [Sessions -> SessionRow]
  /\ overdue \subseteq Sessions
  /\ tokens \in [Sessions -> SUBSET Phones]
  /\ qrTask \in [Handlers -> QRTask]

QRInit ==
  /\ session = [s \in Sessions |-> [confirmedBy |-> Nobody, cancelled |-> FALSE]]
  /\ overdue = {}
  /\ tokens = [s \in Sessions |-> {}]
  /\ qrTask = [h \in Handlers |-> Idle]

QRAt(h, pc) == qrTask[h].pc = pc

QRGo(h, state) == qrTask' = [qrTask EXCEPT ![h] = state]

\* Mutant of Status: a session past its time is reported as pending.
Status_NoExpiry(s, row) ==
  IF row.confirmedBy # Nobody THEN "CONFIRMED" ELSE IF row.cancelled THEN "CANCELLED" ELSE "PENDING"

\* The getter `status`: of a row as it was loaded, but by the present time.
Status(s, row) ==
  CASE row.confirmedBy # Nobody -> "CONFIRMED"
    [] row.confirmedBy = Nobody /\ row.cancelled -> "CANCELLED"
    [] row.confirmedBy = Nobody /\ ~ row.cancelled /\ s \in overdue -> "EXPIRED"
    [] OTHER -> "PENDING"
-----------------------------------------------------------------------------
SessionExpires(s) ==
  /\ overdue' = overdue \cup {s}
  /\ UNCHANGED <<session, tokens, qrTask>>

\* confirmQRCode: the session is loaded and must be pending; then the user and a token.
BeginConfirm(h, s, u) ==
  /\ QRAt(h, "idle")
  /\ Status(s, session[s]) = "PENDING"
  /\ QRGo(h, [pc |-> "confirm.check", session |-> s, user |-> u, row |-> session[s]])
  /\ UNCHANGED qrTables

\* QRService.confirm looks at the status of the loaded row once more.
CheckConfirm(h) ==
  LET qr == qrTask[h]
  IN  /\ QRAt(h, "confirm.check")
      /\ QRGo(h, IF Status(qr.session, qr.row) = "PENDING"
                 THEN [qr EXCEPT !.pc = "confirm.save"] ELSE Idle)
      /\ UNCHANGED qrTables

SaveConfirm(h) ==
  LET qr == qrTask[h]
  IN  /\ QRAt(h, "confirm.save")
      /\ session' = [session EXCEPT ![qr.session] = [qr.row EXCEPT !.confirmedBy = qr.user]]
      /\ QRGo(h, [qr EXCEPT !.pc = "confirm.emit"])
      /\ UNCHANGED <<overdue, tokens>>

EmitConfirmed(h) ==
  LET qr == qrTask[h]
  IN  /\ QRAt(h, "confirm.emit")
      /\ tokens' = [tokens EXCEPT ![qr.session] = @ \cup {qr.user}]
      /\ QRGo(h, Idle)
      /\ UNCHANGED <<session, overdue>>

\* cancelQRCode cancels a session in any state.
BeginCancel(h, s) ==
  /\ QRAt(h, "idle")
  /\ QRGo(h, [pc |-> "cancel.save", session |-> s, row |-> session[s]])
  /\ UNCHANGED qrTables

SaveCancel(h) ==
  LET qr == qrTask[h]
  IN  /\ QRAt(h, "cancel.save")
      /\ session' = [session EXCEPT ![qr.session] = [qr.row EXCEPT !.cancelled = TRUE]]
      /\ QRGo(h, Idle)
      /\ UNCHANGED <<overdue, tokens>>

QRFails(h) == ~ QRAt(h, "idle") /\ QRGo(h, Idle) /\ UNCHANGED qrTables

QRNext ==
  \/ \E s \in Sessions : SessionExpires(s)
  \/ \E h \in Handlers :
       \/ \E s \in Sessions : BeginCancel(h, s) \/ \E u \in Phones : BeginConfirm(h, s, u)
       \/ CheckConfirm(h) \/ SaveConfirm(h) \/ EmitConfirmed(h) \/ SaveCancel(h) \/ QRFails(h)

QRSpec == QRInit /\ [][QRNext]_qrVars
-----------------------------------------------------------------------------
(***************************************************************************)
(* However requests interleave: once a session has expired and no request  *)
(* has passed the last look at its status, none ever will, and no screen   *)
(* gets a token for it, whatever row a slow request loaded before that.    *)
(***************************************************************************)
Committed(s) == \E h \in Handlers : qrTask[h].pc \in {"confirm.save", "confirm.emit"} /\ qrTask[h].session = s

ExpiredGetsNoToken ==
  [][\A s \in Sessions : s \in overdue /\ ~ Committed(s) => ~ Committed(s)' /\ tokens'[s] = tokens[s]]_qrVars
=============================================================================
