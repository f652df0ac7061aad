------------------------------- MODULE Roles -------------------------------
(***************************************************************************)
(* The permissions of a role that the source defines (DefaultRoles), which *)
(* the cron process brings into the database each time it starts, and the  *)
(* requests that make, change and remove roles of one's own.  A rule is an *)
(* entity, an action and a relation, the primary key of its row; the       *)
(* attributes it allows are a column.                                      *)
(***************************************************************************)
EXTENDS Naturals, Server

CONSTANTS
  Rules,
  Attributes

VARIABLES
  definition,     \* the rules of the deployed source: their attributes, or Absent
  role,           \* "none", "own" or "system": the row with the role's name
  permission,     \* its rows: their attributes, or Absent
  completed,      \* history: synchronisations completed since the deployment, 2 at most
  roleTask

rolesVars == <<definition, role, permission, completed, roleTask>>

Absent == "absent"

Permissions == [Rules -> Attributes \cup {Absent}]

NoPermissions == [r \in Rules |-> Absent]

RoleTask ==
  {Idle, [pc |-> "create"]}
    \cup [pc : {"mark", "change"}, read : Permissions]
    \cup [pc : {"apply"}, adding : SUBSET Rules, removing : SUBSET Rules,
          found : SUBSET Rules, todo : SUBSET {"find", "write", "remove"}]

RolesTypeOK ==
  /\ definition \in Permissions /\ permission \in Permissions
  /\ role \in {"none", "own", "system"}
  /\ role = "none" => permission = NoPermissions
  /\ completed \in 0 .. 2
  /\ roleTask \in [Handlers -> RoleTask]

\* Nothing has been deployed yet.
RolesInit ==
  /\ definition = NoPermissions
  /\ role = "none" /\ permission = NoPermissions
  /\ completed = 0
  /\ roleTask = [h \in Handlers |-> Idle]

RoleAt(h, pc) == roleTask[h].pc = pc

RoleGo(h, task) == roleTask' = [roleTask EXCEPT ![h] = task]

\* The cron process synchronises once, when it starts.
Synchronizing == \E h \in Handlers : roleTask[h].pc \in {"create", "mark", "apply"}
-----------------------------------------------------------------------------
(***************************************************************************)
(* The synchronisation: the row and its permissions are read, a missing    *)
(* row is made, the row is marked as the system's; then the rules that     *)
(* differ are saved and the rows that differ are removed, both at the same *)
(* time.  To save is to look which rows exist and then, in one database    *)
(* transaction, to update those and to insert the others: an update of a   *)
(* row that has gone in between changes nothing.                           *)
(***************************************************************************)
ReadRole(h) ==
  /\ RoleAt(h, "idle") /\ ~ Synchronizing
  /\ RoleGo(h, IF role = "none" THEN [pc |-> "create"]
               ELSE [pc |-> "mark", read |-> permission])
  /\ UNCHANGED <<definition, role, permission, completed>>

\* The name is unique: the row cannot be made when a request made it meanwhile.
InsertRole(h) ==
  /\ RoleAt(h, "create")
  /\ role' = IF role = "none" THEN "own" ELSE role
  /\ RoleGo(h, IF role = "none" THEN [pc |-> "mark", read |-> NoPermissions] ELSE Idle)
  /\ UNCHANGED <<definition, permission, completed>>

\* Mutant of Differ: the attributes are not compared.
Differ_Keys(a, b) == (a = Absent) # (b = Absent)

Differ(a, b) == a # b

MarkRole(h) ==
  /\ RoleAt(h, "mark")
  /\ role' = "system"
  /\ LET read == roleTask[h].read
         differing == {r \in Rules : Differ(definition[r], read[r])}
     IN  RoleGo(h, [pc |-> "apply",
                    adding |-> {r \in differing : definition[r] # Absent},
                    removing |-> {r \in differing : read[r] # Absent},
                    found |-> {}, todo |-> {"find", "remove"}])
  /\ UNCHANGED <<definition, permission, completed>>

FindPermissions(h) ==
  LET task == roleTask[h]
  IN  /\ RoleAt(h, "apply") /\ "find" \in task.todo
      /\ RoleGo(h, [task EXCEPT !.found = {r \in task.adding : permission[r] # Absent},
                                !.todo = (@ \ {"find"}) \cup {"write"}])
      /\ UNCHANGED <<definition, role, permission, completed>>

WritePermissions(h) ==
  LET task == roleTask[h]
      written == {r \in task.adding : r \in task.found => permission[r] # Absent}
  IN  /\ RoleAt(h, "apply") /\ "write" \in task.todo
      /\ permission' = [r \in Rules |-> IF r \in written THEN definition[r] ELSE permission[r]]
      /\ RoleGo(h, [task EXCEPT !.todo = @ \ {"write"}])
      /\ UNCHANGED <<definition, role, completed>>

RemovePermissions(h) ==
  LET task == roleTask[h]
  IN  /\ RoleAt(h, "apply") /\ "remove" \in task.todo
      /\ permission' = [r \in Rules |-> IF r \in task.removing THEN Absent ELSE permission[r]]
      /\ RoleGo(h, [task EXCEPT !.todo = @ \ {"remove"}])
      /\ UNCHANGED <<definition, role, completed>>

EndSynchronize(h) ==
  /\ RoleAt(h, "apply") /\ roleTask[h].todo = {}
  /\ completed' = IF completed = 2 THEN 2 ELSE completed + 1
  /\ RoleGo(h, Idle)
  /\ UNCHANGED <<definition, role, permission>>
-----------------------------------------------------------------------------
(***************************************************************************)
(* Requests on the role: it is looked up, refused if it is the system's,   *)
(* and changed afterwards.                                                 *)
(***************************************************************************)
CreateRole ==
  /\ role = "none"
  /\ role' = "own"
  /\ UNCHANGED <<definition, permission, completed, roleTask>>

\* Mutant of CheckRole: a role of the system may be changed.
CheckRole_Any(h) ==
  /\ RoleAt(h, "idle") /\ role # "none"
  /\ RoleGo(h, [pc |-> "change", read |-> permission])
  /\ UNCHANGED <<definition, role, permission, completed>>

CheckRole(h) ==
  /\ RoleAt(h, "idle") /\ role = "own"
  /\ RoleGo(h, [pc |-> "change", read |-> permission])
  /\ UNCHANGED <<definition, role, permission, completed>>

\* The permission is not among those that were read.
AddPermission(h, r, a) ==
  /\ RoleAt(h, "change") /\ role # "none" /\ roleTask[h].read[r] = Absent
  /\ permission' = [permission EXCEPT ![r] = a]
  /\ RoleGo(h, Idle)
  /\ UNCHANGED <<definition, role, completed>>

\* The role of the row found is looked at once more.
RemovePermission(h, r) ==
  /\ RoleAt(h, "change") /\ role = "own"
  /\ permission' = [permission EXCEPT ![r] = Absent]
  /\ RoleGo(h, Idle)
  /\ UNCHANGED <<definition, role, completed>>

\* The permissions go with the role; the user types of a system role keep it there.
RemoveRole(h) ==
  /\ RoleAt(h, "change") /\ role = "own"
  /\ role' = "none" /\ permission' = NoPermissions
  /\ RoleGo(h, Idle)
  /\ UNCHANGED <<definition, completed>>

\* A new version is deployed: every process starts again.
Deploy(new) ==
  /\ new # definition
  /\ definition' = new /\ completed' = 0
  /\ roleTask' = [h \in Handlers |-> Idle]
  /\ UNCHANGED <<role, permission>>

\* A statement fails or the process dies.
RoleFails(h) ==
  /\ ~ RoleAt(h, "idle")
  /\ RoleGo(h, Idle)
  /\ UNCHANGED <<definition, role, permission, completed>>

RolesNext ==
  \/ CreateRole \/ \E new \in Permissions : Deploy(new)
  \/ \E h \in Handlers :
       \/ ReadRole(h) \/ InsertRole(h) \/ MarkRole(h) \/ EndSynchronize(h)
       \/ FindPermissions(h) \/ WritePermissions(h) \/ RemovePermissions(h)
       \/ CheckRole(h) \/ RemoveRole(h) \/ RoleFails(h)
       \/ \E r \in Rules : RemovePermission(h, r) \/ \E a \in Attributes : AddPermission(h, r, a)

RolesSpec == RolesInit /\ [][RolesNext]_rolesVars
-----------------------------------------------------------------------------
(***************************************************************************)
(* The permissions of a system role are what the source defines once the   *)
(* synchronisation has run to its end twice since the deployment, whatever *)
(* was there before, and wherever earlier attempts died; with requests and *)
(* synchronisations one at a time.  Once is not enough: a rule whose       *)
(* attributes changed is saved and removed at the same time, and most      *)
(* often gone.                                                             *)
(***************************************************************************)
RolesSettle ==
  completed = 2 /\ ~ Synchronizing => role = "system" /\ permission = definition
=============================================================================
