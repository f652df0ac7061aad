---------------------------- MODULE MCOperations ----------------------------
(***************************************************************************)
(* Instances for TLC of the components that share no state with each       *)
(* other. A behaviour is one of the component in focus, chosen at the      *)
(* start; the others stay as they are, so the state graph is that of each  *)
(* component, and one fault model is stated once for all of them.          *)
(***************************************************************************)
EXTENDS Members, Fines, Sales, Invoices, SellerPayouts, UserExpiry, QRSessions,
        UserSync, VoucherGroups, OrganMembers, Roles, SystemRoom, Files, Events, TLC

CONSTANTS
  Foci,         \* the components a run looks at
  Shelf         \* the products there are while purchases are made

ASSUME FociAssumption ==
  Foci \subseteq {"members", "fines", "catalogue", "sales", "invoices", "sellers",
                   "expiry", "qr", "sync", "vouchers", "organ", "roles", "room", "files",
                   "events"}

VARIABLE focus

Symmetry == Permutations(Handlers) \cup Permutations(Phones) \cup Permutations(Purchases)

vars == <<focus, membersVars, finesVars, salesVars, invoicesVars, sellerVars,
          expiryVars, qrVars, syncVars, voucherVars, organVars, rolesVars, roomVars,
          filesVars, eventVars>>

Init ==
  /\ focus \in Foci
  /\ MembersInit /\ FinesInit /\ SalesInit /\ InvoicesInit
  /\ SellerInit /\ ExpiryInit /\ QRInit /\ SyncInit
  /\ VoucherInit /\ OrganInit /\ RolesInit /\ RoomInit
  /\ FilesInit /\ (focus # "files" => kind = "invoice")
  /\ EventInit

(***************************************************************************)
(* What is not in focus stays in its initial state.                        *)
(***************************************************************************)
Others ==
  /\ focus # "members" => UNCHANGED membersVars
  /\ focus # "fines" => UNCHANGED finesVars
  /\ focus \notin {"catalogue", "sales"} => UNCHANGED salesVars
  /\ focus # "invoices" => UNCHANGED invoicesVars
  /\ focus # "sellers" => UNCHANGED sellerVars
  /\ focus # "expiry" => UNCHANGED expiryVars
  /\ focus # "qr" => UNCHANGED qrVars
  /\ focus # "sync" => UNCHANGED syncVars
  /\ focus # "vouchers" => UNCHANGED voucherVars
  /\ focus # "organ" => UNCHANGED organVars
  /\ focus # "roles" => UNCHANGED rolesVars
  /\ focus # "room" => UNCHANGED roomVars
  /\ focus # "files" => UNCHANGED filesVars
  /\ focus # "events" => UNCHANGED eventVars
  /\ UNCHANGED focus

OnShelf == \A i \in Products \ Shelf : life'[i] = "none"

(***************************************************************************)
(* Every component with its faults: statements that fail, processes that   *)
(* die.  The sales come with the catalogue, whose edits are among their    *)
(* steps; the cfg has no point of sale, so that it runs the edits alone.   *)
(***************************************************************************)
ConcurrentNext ==
  /\ \/ focus = "members" /\ MembersNext
     \/ focus = "fines" /\ FinesNext
     \/ focus = "sales" /\ SalesNext
     \/ focus = "invoices" /\ InvoicesNext
     \/ focus = "sellers" /\ SellerNext
     \/ focus = "expiry" /\ ExpiryNext
     \/ focus = "qr" /\ QRNext
     \/ focus = "sync" /\ SyncNext
     \/ focus = "vouchers" /\ VoucherNext
     \/ focus = "organ" /\ OrganNext
     \/ focus = "roles" /\ RolesNext
     \/ focus = "room" /\ RoomNext
     \/ focus = "files" /\ FilesNext
     \/ focus = "events" /\ EventNext
  /\ Others

(***************************************************************************)
(* One request at a time: the cfg has one handler. Fines, catalogue,       *)
(* seller payouts and voucher groups have no database transaction around   *)
(* their steps, and what is said of them here is said of requests that do  *)
(* not fail half way.                                                      *)
(***************************************************************************)
SerialNext ==
  /\ \/ focus = "members" /\ MembersNext
     \/ focus = "fines" /\ FinesStep
     \/ focus = "catalogue" /\ Editing(CatalogueStep)
     \/ focus = "sales" /\ SalesStep /\ OnShelf
     \/ focus = "invoices" /\ InvoicesNext
     \/ focus = "sellers" /\ SellerStep
     \/ focus = "expiry" /\ ExpiryNext
     \/ focus = "sync" /\ SyncNext
     \/ focus = "vouchers" /\ VoucherStep
     \/ focus = "organ" /\ OrganNext
     \/ focus = "roles" /\ RolesNext
     \/ focus = "room" /\ RoomQuietNext
     \/ focus = "files" /\ FilesQuietNext
     \/ focus = "events" /\ EventQuietNext
  /\ Others

(***************************************************************************)
(* The nightly jobs come back, and not every attempt of a step fails.      *)
(***************************************************************************)
JobsGoOn ==
  /\ WF_vars(focus = "expiry" /\ StartExpiring /\ Others)
  /\ \A u \in Users : /\ SF_vars(focus = "expiry" /\ NotifyExpired(u) /\ Others)
                      /\ SF_vars(focus = "expiry" /\ SaveExpired(u) /\ Others)
  /\ \A h \in Handlers : WF_vars(focus = "sync" /\ SyncStep(h) /\ Others)

ConcurrentSpec == Init /\ [][ConcurrentNext]_vars

SerialSpec == Init /\ [][SerialNext]_vars /\ JobsGoOn

(***************************************************************************)
(* All variables have their types.                                         *)
(***************************************************************************)
TypeOK ==
  /\ MembersTypeOK /\ FinesTypeOK /\ SalesTypeOK /\ InvoicesTypeOK
  /\ SellerTypeOK /\ ExpiryTypeOK /\ QRTypeOK /\ SyncTypeOK
  /\ VoucherTypeOK /\ OrganTypeOK /\ RolesTypeOK /\ RoomTypeOK /\ FilesTypeOK
  /\ EventTypeOK

(***************************************************************************)
(* However handlers interleave and wherever one of their separate saves    *)
(* fails, a row has the row it stands on: a fine and a seller payout their *)
(* transfer, a card with money its link to the group, and a current        *)
(* revision number the saved revision, a linked file its place on disk.    *)
(***************************************************************************)
RowsHaveTheirPartners ==
  FineIsPaid /\ PayoutIsBooked /\ CreditIsLinked /\ CurrentIsSaved /\ LinkIsLocated

(***************************************************************************)
(* Whatever is moved, patched or looked up between the steps of a nightly  *)
(* job, it mails a person at most once for each reason: the warning before *)
(* an expiry date, the word that the account was deactivated, each time it *)
(* was, by the job or by a request.                                        *)
(***************************************************************************)
MailedOnce == WarnedOnce /\ ToldOnce

(***************************************************************************)
(* What a synchronisation writes settles on what it was given: the roles   *)
(* on the code's own list after two of them, the answer sheets of an event *)
(* on those who can do its shifts after one.                               *)
(***************************************************************************)
ListsSettle == RolesSettle /\ SheetsSettle

(***************************************************************************)
(* What people see is what the database holds when nothing is in progress: *)
(* the maintenance mode on every client, and the files of the entities.    *)
(***************************************************************************)
ShownIsCurrent == ModeIsShown /\ FilesAreCurrent

(***************************************************************************)
(* The nightly jobs get there in the end, through runs that fail: an       *)
(* expired account is deactivated, and an account follows its membership.  *)
(***************************************************************************)
JobsCatchUp == ExpiredIsDeactivated /\ MembershipIsFollowed
=============================================================================
