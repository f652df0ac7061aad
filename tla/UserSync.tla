------------------------------ MODULE UserSync ------------------------------
(***************************************************************************)
(* The nightly synchronisation of users with LDAP and the members'         *)
(* database.  A run loads its users once, asks every service about each of *)
(* them, and takes down the ones no service answers for; the services save *)
(* rows loaded at different moments of the run.                            *)
(***************************************************************************)
EXTENDS Integers, FiniteSets, Server

CONSTANTS
  Accounts,         \* the users of the types MEMBER and ORGAN
  Organs,           \* the ones of type ORGAN
  MemberUsers,      \* the members with a MemberUser
  AllowSyncDelete,  \* the setting allowGewisSyncDelete
  MaxChanges        \* bound on what changes around the runs or fails in them

ASSUME SyncAssumption ==
  /\ Organs \subseteq Accounts /\ MemberUsers \subseteq Accounts \ Organs
  /\ AllowSyncDelete \in BOOLEAN /\ MaxChanges \in Nat

VARIABLES
  userRow,      \* the rows of `user`
  bound,        \* the users with an LDAPAuthenticator
  inLDAP,       \* external: the users whose GUID LDAP knows
  isMember,     \* external: the users with a current membership
  settled,      \* the users whose balance is zero
  mails,        \* history: the mails about an ended membership per user
  edges,        \* history: how often an active user was deactivated, by whomever
  changes,
  syncTask

syncTables == <<userRow, bound, inLDAP, isMember, settled, mails, edges, changes>>
syncVars   == <<userRow, bound, inLDAP, isMember, settled, mails, edges, changes, syncTask>>

AccountRow == [active : BOOLEAN, deleted : BOOLEAN, canGoIntoDebt : BOOLEAN]

(***************************************************************************)
(* A run: the rows it loaded and the users it has left; for the user at    *)
(* hand, what the services answered together, which ones vouched (a        *)
(* history) and the row that will be saved.                                *)
(***************************************************************************)
SyncTask ==
       {Idle}
  \cup [pc : {"next", "ldap", "ldap.save", "gewis", "gewis.ask", "gewis.save", "decide", "down.ldap",
              "down.save", "down.gewis", "close.load", "close.balance", "close.save", "notify"},
        todo : SUBSET Accounts, rows : [Accounts -> AccountRow], account : Accounts, row : AccountRow,
        skipped : BOOLEAN, result : BOOLEAN, vouched : BOOLEAN, delete : BOOLEAN]

SyncTypeOK ==
  /\ userRow \in [Accounts -> AccountRow]
  /\ bound \subseteq Accounts /\ inLDAP \subseteq Accounts
  /\ isMember \subseteq MemberUsers /\ settled \subseteq Accounts
  /\ mails \in [Accounts -> Nat] /\ edges \in [Accounts -> Nat] /\ changes \in 0 .. MaxChanges
  /\ syncTask \in [Handlers -> SyncTask]

SyncInit ==
  /\ userRow = [a \in Accounts |-> [active |-> TRUE, deleted |-> FALSE, canGoIntoDebt |-> a \notin Organs]]
  /\ bound = Organs /\ inLDAP = Organs /\ isMember = MemberUsers /\ settled = Accounts
  /\ mails = [a \in Accounts |-> 0] /\ edges = [a \in Accounts |-> 0] /\ changes = 0
  /\ syncTask = [h \in Handlers |-> Idle]

SyncAt(h, pc) == syncTask[h].pc = pc

SyncGo(h, state) == syncTask' = [syncTask EXCEPT ![h] = state]

SyncTo(h, pc) == SyncGo(h, [syncTask[h] EXCEPT !.pc = pc])

\* A row is written; the history notes a user who stops being active.
WriteRow(a, row) ==
  /\ userRow' = [userRow EXCEPT ![a] = row]
  /\ edges' = IF userRow[a].active /\ ~ row.active THEN [edges EXCEPT ![a] = @ + 1] ELSE edges

\* save(): the row of a user as some part of the run loaded and changed it.
SaveRow(a, row) ==
  /\ WriteRow(a, row)
  /\ UNCHANGED <<bound, inLDAP, isMember, settled, mails, changes>>
-----------------------------------------------------------------------------
(***************************************************************************)
(* SyncManager.run: the users that are not deleted, then one by one.       *)
(***************************************************************************)
StartSync(h) ==
  LET targets == {a \in Accounts : ~ userRow[a].deleted}
  IN  /\ SyncAt(h, "idle")
      /\ \E a \in targets :
           SyncGo(h, [pc |-> "next", todo |-> targets, rows |-> userRow, account |-> a, row |-> userRow[a],
                      skipped |-> TRUE, result |-> FALSE, vouched |-> FALSE, delete |-> FALSE])
      /\ UNCHANGED syncTables

NextTarget(h, a) ==
  LET run == syncTask[h]
  IN  /\ SyncAt(h, "next")
      /\ a \in run.todo
      /\ SyncGo(h, [run EXCEPT !.pc = "ldap", !.todo = @ \ {a}, !.account = a, !.row = run.rows[a],
                               !.skipped = TRUE, !.result = FALSE, !.vouched = FALSE])
      /\ UNCHANGED syncTables

EndSync(h) ==
  /\ SyncAt(h, "next") /\ syncTask[h].todo = {}
  /\ SyncGo(h, Idle)
  /\ UNCHANGED syncTables

\* Mutant of Answer: the last service that answers decides.
Answer_Last(run, answer) == [run EXCEPT !.skipped = FALSE, !.result = answer, !.vouched = @ \/ answer]

\* What SyncManager.sync makes of an answer of a service.
Answer(run, answer) == [run EXCEPT !.skipped = FALSE, !.result = @ \/ answer, !.vouched = @ \/ answer]
-----------------------------------------------------------------------------
(***************************************************************************)
(* LDAP: members without an authenticator are skipped; an organ that LDAP  *)
(* knows is saved, from the row the run started with.                      *)
(***************************************************************************)
AskLDAP(h) ==
  LET run == syncTask[h]
      a == run.account
      answer == a \in bound /\ a \in inLDAP
  IN  /\ SyncAt(h, "ldap")
      /\ SyncGo(h, IF a \notin Organs /\ a \notin bound THEN [run EXCEPT !.pc = "gewis"]
                   ELSE IF a \in Organs /\ answer
                   THEN [Answer(run, TRUE) EXCEPT !.pc = "ldap.save",
                                                  !.row = [@ EXCEPT !.active = TRUE, !.canGoIntoDebt = FALSE]]
                   ELSE [Answer(run, answer) EXCEPT !.pc = "gewis"])
      /\ UNCHANGED syncTables

SaveOrgan(h) ==
  /\ SyncAt(h, "ldap.save")
  /\ SaveRow(syncTask[h].account, syncTask[h].row)
  /\ SyncTo(h, "gewis")
-----------------------------------------------------------------------------
(***************************************************************************)
(* The members' database: members without a MemberUser are skipped; the    *)
(* row is loaded, the database is asked, and a row that differs is saved.  *)
(***************************************************************************)
LoadMember(h) ==
  LET run == syncTask[h]
  IN  /\ SyncAt(h, "gewis")
      /\ SyncGo(h, IF run.account \in MemberUsers
                   THEN [run EXCEPT !.pc = "gewis.ask", !.row = userRow[run.account]]
                   ELSE [run EXCEPT !.pc = "decide"])
      /\ UNCHANGED syncTables

\* Mutant of UpdateNeeded: an inactive user is no reason to save.
UpdateNeeded_Data(row, changed) == changed

UpdateNeeded(row, changed) == changed \/ ~ row.active

AskMembership(h, changed) ==
  LET run == syncTask[h]
      answer == run.account \in isMember
  IN  /\ SyncAt(h, "gewis.ask")
      /\ SyncGo(h, IF answer /\ UpdateNeeded(run.row, changed)
                   THEN [Answer(run, TRUE) EXCEPT !.pc = "gewis.save", !.row.active = TRUE]
                   ELSE [Answer(run, answer) EXCEPT !.pc = "decide"])
      /\ UNCHANGED syncTables

SaveMember(h) ==
  /\ SyncAt(h, "gewis.save")
  /\ SaveRow(syncTask[h].account, syncTask[h].row)
  /\ SyncTo(h, "decide")

Decide(h) ==
  /\ SyncAt(h, "decide")
  /\ SyncTo(h, IF ~ syncTask[h].skipped /\ ~ syncTask[h].result THEN "down.ldap" ELSE "next")
  /\ UNCHANGED syncTables
-----------------------------------------------------------------------------
(***************************************************************************)
(* Taking a user down, at LDAP: the authenticator goes, and an organ is    *)
(* deleted whatever its balance is.                                        *)
(***************************************************************************)
Unbind(h) ==
  LET run == syncTask[h]
  IN  /\ SyncAt(h, "down.ldap")
      /\ bound' = bound \ {run.account}
      /\ SyncGo(h, IF run.account \in Organs
                   THEN [run EXCEPT !.pc = "down.save",
                                    !.row = [run.rows[run.account] EXCEPT !.deleted = TRUE, !.active = FALSE]]
                   ELSE [run EXCEPT !.pc = "down.gewis"])
      /\ UNCHANGED <<userRow, inLDAP, isMember, settled, mails, edges, changes>>

DeleteOrgan(h) ==
  /\ SyncAt(h, "down.save")
  /\ SaveRow(syncTask[h].account, syncTask[h].row)
  /\ SyncTo(h, "down.gewis")

(***************************************************************************)
(* At the members' database, when the setting allows it: the balance       *)
(* decides between deleting and deactivating, closeUser reads it again,    *)
(* and a user who was active and is not any more gets a mail.              *)
(***************************************************************************)
ReadBalance(h) ==
  LET run == syncTask[h]
  IN  /\ SyncAt(h, "down.gewis")
      /\ SyncGo(h, IF run.account \in MemberUsers /\ AllowSyncDelete
                   THEN [run EXCEPT !.pc = "close.load", !.delete = run.account \in settled]
                   ELSE [run EXCEPT !.pc = "next"])
      /\ UNCHANGED syncTables

LoadClosed(h) ==
  /\ SyncAt(h, "close.load")
  /\ SyncGo(h, [syncTask[h] EXCEPT !.pc = "close.balance", !.row = userRow[syncTask[h].account]])
  /\ UNCHANGED syncTables

CheckSettled(h) ==
  LET run == syncTask[h]
  IN  /\ SyncAt(h, "close.balance")
      /\ SyncGo(h, IF run.delete /\ run.account \notin settled THEN [run EXCEPT !.pc = "next"]
                   ELSE [run EXCEPT !.pc = "close.save",
                                    !.row = [active |-> FALSE, deleted |-> run.delete, canGoIntoDebt |-> FALSE]])
      /\ UNCHANGED syncTables

SaveClosed(h) ==
  /\ SyncAt(h, "close.save")
  /\ SaveRow(syncTask[h].account, syncTask[h].row)
  /\ SyncTo(h, "notify")

\* Mutant of FallingEdge: every user who is not deleted is told.
FallingEdge_Always(run) == ~ run.delete

FallingEdge(run) == ~ run.delete /\ run.rows[run.account].active

TellClosed(h) ==
  LET run == syncTask[h]
  IN  /\ SyncAt(h, "notify")
      /\ mails' = IF FallingEdge(run) THEN [mails EXCEPT ![run.account] = @ + 1] ELSE mails
      /\ SyncTo(h, "next")
      /\ UNCHANGED <<userRow, bound, inLDAP, isMember, settled, edges, changes>>
-----------------------------------------------------------------------------
(***************************************************************************)
(* Around a run: LDAP and the members' database change, a login binds an   *)
(* authenticator, and other requests change a balance or the column        *)
(* `active`.  They are served by other processes, at any moment of a run.  *)
(***************************************************************************)
Toggle(S, a) == IF a \in S THEN S \ {a} ELSE S \cup {a}

Changed == changes < MaxChanges /\ changes' = changes + 1

LDAPChanges(a) ==
  /\ Changed
  /\ inLDAP' = Toggle(inLDAP, a)
  /\ UNCHANGED <<userRow, bound, isMember, settled, mails, edges, syncTask>>

MembershipChanges(a) ==
  /\ Changed /\ a \in MemberUsers
  /\ isMember' = Toggle(isMember, a)
  /\ UNCHANGED <<userRow, bound, inLDAP, settled, mails, edges, syncTask>>

LoginBinds(a) ==
  /\ Changed
  /\ a \in inLDAP \ bound /\ a \notin Organs
  /\ bound' = bound \cup {a}
  /\ UNCHANGED <<userRow, inLDAP, isMember, settled, mails, edges, syncTask>>

BalanceChanges(a) ==
  /\ Changed
  /\ userRow[a].active
  /\ settled' = Toggle(settled, a)
  /\ UNCHANGED <<userRow, bound, inLDAP, isMember, mails, edges, syncTask>>

PatchActive(a) ==
  /\ Changed
  /\ ~ userRow[a].deleted
  /\ WriteRow(a, [userRow[a] EXCEPT !.active = ~ @])
  /\ UNCHANGED <<bound, inLDAP, isMember, settled, mails, syncTask>>

(***************************************************************************)
(* An error while asking leaves the user alone, one in a down moves on to  *)
(* the next service; the process may die.                                  *)
(***************************************************************************)
SyncError(h) ==
  /\ Changed
  /\ \/ SyncAt(h, "down.ldap") /\ SyncTo(h, "down.gewis")
     \/ SyncAt(h, "down.save") /\ SyncTo(h, "down.gewis")
     \/ /\ syncTask[h].pc \in {"ldap", "ldap.save", "gewis", "gewis.ask", "gewis.save", "down.gewis",
                               "close.load", "close.balance", "close.save", "notify"}
        /\ SyncTo(h, "next")
  /\ UNCHANGED <<userRow, bound, inLDAP, isMember, settled, mails, edges>>

SyncDies(h) ==
  /\ Changed /\ ~ SyncAt(h, "idle")
  /\ SyncGo(h, Idle)
  /\ UNCHANGED <<userRow, bound, inLDAP, isMember, settled, mails, edges>>

SyncStep(h) ==
  \/ StartSync(h) \/ EndSync(h) \/ AskLDAP(h) \/ SaveOrgan(h) \/ LoadMember(h) \/ SaveMember(h)
  \/ Decide(h) \/ Unbind(h) \/ DeleteOrgan(h) \/ ReadBalance(h) \/ LoadClosed(h) \/ CheckSettled(h)
  \/ SaveClosed(h) \/ TellClosed(h)
  \/ \E changed \in BOOLEAN : AskMembership(h, changed)
  \/ \E a \in Accounts : NextTarget(h, a)

SyncNext ==
  \/ \E h \in Handlers : SyncStep(h) \/ SyncError(h) \/ SyncDies(h)
  \/ \E a \in Accounts : \/ LDAPChanges(a) \/ MembershipChanges(a)
                         \/ LoginBinds(a) \/ BalanceChanges(a) \/ PatchActive(a)

(***************************************************************************)
(* The nightly run comes back, and a run that is not interrupted goes on.  *)
(***************************************************************************)
SyncFairness == \A h \in Handlers : WF_syncVars(SyncStep(h))

SyncSpec == SyncInit /\ [][SyncNext]_syncVars /\ SyncFairness
-----------------------------------------------------------------------------
(***************************************************************************)
(* However runs, logins, changes and errors interleave, a run takes nobody *)
(* down that a service vouched for in that run.                            *)
(***************************************************************************)
Downs == {"down.ldap", "down.save", "down.gewis", "close.load", "close.balance", "close.save"}

VouchedIsKept == \A h \in Handlers : syncTask[h].pc \in Downs => ~ syncTask[h].vouched

(***************************************************************************)
(* With one run at a time a member is mailed at most once for each time he *)
(* stopped being active, at whatever moment of a run requests deactivate   *)
(* and activate him, and however often runs repeat and die.                *)
(***************************************************************************)
ToldOnce == \A a \in Accounts : mails[a] <= edges[a]

(***************************************************************************)
(* A member whose membership is current for good, and who is not deleted,  *)
(* is active in the end; one whose membership has ended for good is not,   *)
(* once LDAP does not vouch either.                                        *)
(***************************************************************************)
MembershipIsFollowed ==
  \A a \in MemberUsers :
    /\ <>[](a \in isMember) => <>[](userRow[a].deleted \/ userRow[a].active)
    /\ <>[](a \notin isMember /\ a \notin bound) => <>[] ~ userRow[a].active
=============================================================================
