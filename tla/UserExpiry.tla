----------------------------- MODULE UserExpiry -----------------------------
(***************************************************************************)
(* The expiry of local users: one nightly job warns who will expire soon,  *)
(* another deactivates who has expired, while requests move expiry dates   *)
(* and reactivate users.  Both jobs save the row they found at the start.  *)
(***************************************************************************)
EXTENDS Integers, FiniteSets, Server

CONSTANTS
  LastDay,        \* bound on the days, from 0 on
  WarningDays,    \* the thirty days before the expiry
  MaxPatches      \* bound on the requests that change a user

ASSUME ExpiryAssumption == LastDay \in Nat /\ WarningDays \in Nat /\ MaxPatches \in Nat

VARIABLES
  today,
  account,        \* the rows of `user` of the local types
  patches,        \* history: the requests that changed a user
  warnings,       \* history: the near-expiry notifications handed to the notifier
  expiryTask      \* what each job still does for each user

expiryTables == <<today, account, patches, warnings>>
expiryVars   == <<today, account, patches, warnings, expiryTask>>

Never == -1

Days == 0 .. LastDay

Jobs == {"warn", "expire"}

Account == [active : BOOLEAN, deleted : BOOLEAN, expiryDate : Days \cup {Never},
            expiryNotificationSent : BOOLEAN]

\* told: whether the mail about an expired account was queued.
ExpiryTask == {Idle} \cup [pc : {"save", "notify"}, row : Account, told : BOOLEAN]

ExpiryTypeOK ==
  /\ today \in Days
  /\ account \in [Users -> Account]
  /\ patches \in [Users -> Nat] /\ warnings \in [Users -> Nat]
  /\ expiryTask \in [Jobs -> [Users -> ExpiryTask]]

ExpiryInit ==
  /\ today = 0
  /\ account = [u \in Users |-> [active |-> TRUE, deleted |-> FALSE, expiryDate |-> LastDay,
                                 expiryNotificationSent |-> FALSE]]
  /\ patches = [u \in Users |-> 0] /\ warnings = [u \in Users |-> 0]
  /\ expiryTask = [job \in Jobs |-> [u \in Users |-> Idle]]

JobAt(job, u, pc) == expiryTask[job][u].pc = pc

JobGo(job, u, state) == expiryTask' = [expiryTask EXCEPT ![job][u] = state]

Counted(history, u) == [history EXCEPT ![u] = @ + 1]

HasExpired(row) == row.expiryDate # Never /\ row.expiryDate <= today

NearExpiry(row) ==
  /\ row.expiryDate # Never
  /\ row.expiryDate > today /\ row.expiryDate <= today + WarningDays
-----------------------------------------------------------------------------
DayPasses ==
  /\ today < LastDay
  /\ today' = today + 1
  /\ UNCHANGED <<account, patches, warnings, expiryTask>>

MayPatch(u) == patches[u] < MaxPatches /\ ~ account[u].deleted

\* PATCH /users/:id with an expiry date, which clears the flag of the warning.
PatchExpiry(u, date) ==
  /\ MayPatch(u)
  /\ account' = [account EXCEPT ![u].expiryDate = date, ![u].expiryNotificationSent = FALSE]
  /\ patches' = Counted(patches, u)
  /\ UNCHANGED <<today, warnings, expiryTask>>

PatchAccount(u, column, value) ==
  /\ MayPatch(u)
  /\ account' = [account EXCEPT ![u][column] = value]
  /\ patches' = Counted(patches, u)
  /\ UNCHANGED <<today, warnings, expiryTask>>
-----------------------------------------------------------------------------
(***************************************************************************)
(* A job starts when its last run has settled, and finds its users.        *)
(***************************************************************************)
Settled(job) == \A u \in Users : JobAt(job, u, "idle")

StartJob(job, Found(_), pc) ==
  /\ Settled(job)
  /\ expiryTask' = [expiryTask EXCEPT ![job] =
       [u \in Users |-> IF account[u].active /\ ~ account[u].deleted /\ Found(account[u])
                        THEN [pc |-> pc, row |-> account[u], told |-> FALSE] ELSE Idle]]
  /\ UNCHANGED expiryTables

\* Mutant of StartWarning: the flag is not looked at.
StartWarning_Again == StartJob("warn", NearExpiry, "save")

\* Mutant of StartExpiring: only those who were warned are found.
StartExpiring_Warned ==
  LET Found(row) == row.expiryNotificationSent /\ HasExpired(row)
  IN  StartJob("expire", Found, "notify")

StartWarning ==
  LET Found(row) == ~ row.expiryNotificationSent /\ NearExpiry(row)
  IN  StartJob("warn", Found, "save")

StartExpiring == StartJob("expire", HasExpired, "notify")

\* notifyNearExpirationUsers: the flag is saved, then the user is notified.
SaveWarned(u) ==
  LET row == [expiryTask["warn"][u].row EXCEPT !.expiryNotificationSent = TRUE]
  IN  /\ JobAt("warn", u, "save")
      /\ account' = [account EXCEPT ![u] = row]
      /\ JobGo("warn", u, [expiryTask["warn"][u] EXCEPT !.pc = "notify", !.row = row])
      /\ UNCHANGED <<today, patches, warnings>>

NotifyWarned(u) ==
  /\ JobAt("warn", u, "notify")
  /\ warnings' = Counted(warnings, u)
  /\ JobGo("warn", u, Idle)
  /\ UNCHANGED <<today, account, patches>>

(***************************************************************************)
(* deactivateExpiredUsers: the user is notified, then the row is saved.    *)
(* notify() settles all channels: a mail that cannot be queued, because    *)
(* Redis or the mail server fails, is lost without an error.               *)
(***************************************************************************)
NotifyExpired(u) ==
  /\ JobAt("expire", u, "notify")
  /\ \E queued \in BOOLEAN :
       JobGo("expire", u, [expiryTask["expire"][u] EXCEPT !.pc = "save", !.told = queued])
  /\ UNCHANGED expiryTables

SaveExpired(u) ==
  /\ JobAt("expire", u, "save")
  /\ account' = [account EXCEPT ![u] = [expiryTask["expire"][u].row EXCEPT !.active = FALSE]]
  /\ JobGo("expire", u, Idle)
  /\ UNCHANGED <<today, patches, warnings>>

\* A statement fails; allSettled lets the other users proceed.
JobFails(job, u) == ~ JobAt(job, u, "idle") /\ JobGo(job, u, Idle) /\ UNCHANGED expiryTables

ExpiryStep ==
  \/ DayPasses \/ StartWarning \/ StartExpiring
  \/ \E u \in Users :
       \/ \E date \in Days \cup {Never} : PatchExpiry(u, date)
       \/ PatchAccount(u, "active", TRUE) \/ PatchAccount(u, "deleted", TRUE)
       \/ SaveWarned(u) \/ NotifyWarned(u) \/ NotifyExpired(u) \/ SaveExpired(u)

ExpiryNext == ExpiryStep \/ \E job \in Jobs, u \in Users : JobFails(job, u)

(***************************************************************************)
(* The job that expires users starts every night, and for each user its    *)
(* statements succeed in the end although some may fail.                   *)
(***************************************************************************)
ExpiryFairness ==
  /\ WF_expiryVars(StartExpiring)
  /\ \A u \in Users : SF_expiryVars(NotifyExpired(u)) /\ SF_expiryVars(SaveExpired(u))

ExpirySpec == ExpiryInit /\ [][ExpiryNext]_expiryVars /\ ExpiryFairness
-----------------------------------------------------------------------------
(***************************************************************************)
(* At most one warning for each date that was set, whatever the two jobs   *)
(* and the requests write over each other and wherever they fail.          *)
(***************************************************************************)
WarnedOnce == \A u \in Users : warnings[u] <= 1 + patches[u]

(***************************************************************************)
(* A user who has expired is in the end not active, even when a job or a   *)
(* request that was slow makes him active again.                           *)
(***************************************************************************)
ExpiredIsDeactivated ==
  \A u \in Users : []<> ~ (account[u].active /\ ~ account[u].deleted /\ HasExpired(account[u]))

(***************************************************************************)
(* What deactivateExpiredUsers says: a user whose notification fails is    *)
(* not deactivated.                                                        *)
(***************************************************************************)
DeactivatedIsTold ==
  [][\A u \in Users : account[u].active /\ ~ account'[u].active => expiryTask["expire"][u].told]_expiryVars
=============================================================================
