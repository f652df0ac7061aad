# A verification development of the SudoSOS backend

SudoSOS keeps the money of an association: members buy at points of sale, top
up through Stripe, are fined when in debt, are invoiced and paid out. This
directory models the backend in TLA+, from its code, checks it with TLC on
small instances and proves what matters most, for all instances, with TLAPS.
Paths below are relative to the repository unless they name a module.

## 1. The system

### Components

| Component | State it keeps | Operations that change it | What makes it correct | Modelled in |
| --- | --- | --- | --- | --- |
| Event tables (`transaction-service.ts`, `transfer-service.ts`) | rows of `transaction`, `sub_transaction`, `transfer` | purchase, its update and deletion; posting and deleting a transfer; the transfers other services make, amend and remove | a purchase is not lost by an update; whoever changes a row tells the cache | `Ledger`, `BalanceCache` (partly) |
| Balance cache (`balance-service.ts`, `cron.ts`) | one row per user: a sum, and the last transaction and transfer it counts | clearing rows, foreign-key cascades, the nightly `REPLACE INTO ... SELECT` | shown balance = sum of the event tables, now and for any past date | `BalanceCache`, `AccountBook` |
| Stripe (`stripe-service.ts`, `stripe-webhook-controller.ts`) | payment intents, their status rows, deposits | making an intent; handling a webhook event | one outcome; paid once; paid if and only if the payment succeeded | `StripeDeposit` |
| Payout requests | requests, their status rows, the transfer of an approval | create, approve, deny, cancel | one decision; approved if and only if paid; never more than the balance | `PayoutRequest`, `Payout` (partly) |
| Purchases and the debt rule (`transaction-controller.ts`, `transaction-service.ts`) | none of its own | check the buyer, the catalogue and the balance, then save | a user who cannot go into debt stays at or above zero; what is sold was on offer | `Members`, `Sales`, `BalanceCache` |
| Fines (`debtor-service.ts`, `transfer-subscriber.ts`) | fines, groups of fines, `currentFines` of a user, waivers | hand out, delete, waive, forget when paid | every fine was paid; forgotten when the debt is; waived at most their sum | `Fines` |
| Invoices (`invoice-service.ts`) | invoices, statuses, links from sub-transaction rows | create, change, delete (credit) | a row is on one invoice, and stays on it; a purchase is invoiced once; credited once; a deleted one holds no row | `Invoices` |
| Seller payouts (`seller-payout-service.ts`) | payouts over a period, transfers | create, change, delete | no sale is paid twice; no payout without its transfer | `SellerPayouts` |
| Write-offs, closing a user (`write-off-service.ts`, `user-service.ts`) | write-offs, flags of a user | write off, close, delete, patch | a closed user owes nothing | `Members` (partly) |
| Inactive administrative costs | costs, transfers, a mark on the user | hand out, notify | never takes a user below zero | `Members` (partly) |
| Voucher groups | groups, users, links, transfers | create, change | each card got the balance of the group, once | `VoucherGroups` |
| User expiry | `active`, `expiryDate`, `expiryNotificationSent` | two nightly jobs, a PATCH | every expired user is deactivated; warned at most once | `UserExpiry` |
| Catalogue (`product-`, `container-`, `point-of-sale-service.ts`) | bases with a current revision, revision rows | create, update, propagate, delete | a current revision was saved and stays; parents list the current ones | `Catalogue` |
| QR sessions, tokens | sessions with a status derived from columns and time | create, confirm, cancel | an expired session gets no token | `QRSessions` (partly) |
| External synchronisation (`service/sync`, `gewis`, `ad-service.ts`) | users, their links to LDAP, memberships of shared accounts | nightly `up` and `down` per user and service; replacing memberships | nobody is taken down whom a service still knows; an account follows its membership | `UserSync`, `OrganMembers` (partly) |
| Roles (`rbac/default-roles.ts`, `rbac-service.ts`) | roles and permissions | bring the source's roles into the database; requests on own roles | system roles are what the source says | `Roles` (partly) |
| Settings (`server-settings-store.ts`) | a table and one copy per process | initialise, set | a client is told the value in force | `SystemRoom` (partly) |
| WebSocket rooms (`websocket-service.ts`) | rooms and members | join, leave, emit | who is in the system room knows the mode | `SystemRoom` (partly) |
| Files, PDF (`file-service.ts`, `pdf-able.ts`) | a row and a file on disk per entity | make or reuse a PDF, upload an image, delete | a link leads to a file, a PDF shows its entity | `Files` (partly) |
| Events and shifts (`event-service.ts`) | events, shifts, answer sheets | create, change, delete, fill in, synchronise | sheets are those of who can do the shifts; answers stay | `Events` (partly) |
| Notifications and mail | preferences, log, Redis queue | notify, queue, deliver with five attempts | logged means handed over | not modelled |
| Payment requests, reports, summaries, wrapped, VAT groups, categories, terms of service, HTTP layer, migrations, client | rows created and read one at a time, or nothing | | | not modelled |

### How they interact

Everything shares one MariaDB/MySQL database. `pm2.json` runs four HTTP worker
processes and one cron process, so any two requests, and a request and a cron
job, interleave at every `await`; only some services open a database
transaction. Money moves only by rows of the event tables. The other components
make such rows (a fine, an invoice, a payout is a transfer plus a row of their
own) and read balances through the cache. TypeORM subscribers run inside the
insert of a transaction or transfer (debt notification, reset of fines).
Stripe calls back by webhook, at least once and in any order; LDAP, the
members' database and the PDF generator are asked over the network and fail.

### What is hard

* *Check then act.* Balances, statuses, overlaps, revision numbers and indices
  are read, awaited on, and acted upon without a lock.
* *Half an operation.* Several saves in a row outside a database transaction;
  and inside one, a `catch` that swallows the error and lets half of it commit.
* *A row read earlier, saved whole.* `save()` writes every column that differs
  from the table, so a slow request takes back what was written meanwhile.
* *A cache with no single owner.* Eight services change transfers; three of
  them clear the cache.
* *Dates out of order.* A transfer may be dated in the past, behind a cached sum.
* *Delivery.* Webhook events are acknowledged before they are handled.
* *Jobs that must get there.* Nightly scans and synchronisations die half way,
  and what they are for must still happen in the end.

`PROJECT.json` lists each such place under `hazards` with its line and the
properties that cover it.

## 2. The modules

| Module | Models |
| --- | --- |
| `Ledger` | rows of the event tables and the sums the balance queries take over them |
| `BalanceCache` | both event tables, the cache, every handler that changes a row, the nightly sync, crashes |
| `AccountBook` | abstract: a true and a shown balance per user; `BalanceCache` implements it |
| `StripeDeposit` | payment intents, webhook deliveries, the database transaction that handles an event and the ways it ends |
| `PayoutRequest` | requests, their status log, the balance checks, the transfer, crashes |
| `Payout` | abstract: one decision per request, taken together with the money; a serial `PayoutRequest` implements it |
| `Server` | what the models below share: users, handlers, an idle handler |
| `Members` | a user's row and money: purchases, top-ups, costs, write-offs, closing, deletion, PATCH, logins |
| `Fines` | handout, deletion and waiver of fines, the subscriber that forgets paid ones |
| `Catalogue` | products, containers and points of sale with their revisions and the propagation of edits |
| `Sales` | a purchase checked against the catalogue; extends `Catalogue` |
| `Invoices` | invoices, their status, their rows, deletion with credit |
| `SellerPayouts` | windows, overlap check, report, transfer and payout |
| `VoucherGroups` | groups of cards, their links, their money |
| `UserExpiry` | both nightly jobs and the requests that move expiry dates |
| `QRSessions` | the life of a QR session |
| `UserSync` | nightly runs over LDAP and the members' database |
| `OrganMembers` | the members of a shared account and their indices |
| `Roles` | the role that the source defines, in the database |
| `SystemRoom` | the maintenance mode: row, memory of each worker, clients in the room |
| `Files` | the file of an entity: link, row, place on disk, content, hash |
| `Events` | shifts of an event, answer sheets, their synchronisation |
| `MCOperations` | composes the modules from `Members` to `Events` for TLC (below) |
| `MCBalanceCache`, `MCBalanceCacheFair`, `MCStripeDeposit`, `MCPayoutRequest` | instances for TLC: symmetry, and specifications restricted to some operations |
| `*_proofs` (8 modules) | the proofs, section 4 |

In all of them a *handler* is a request or a job in progress; its record holds
where it stands (`pc`) and what it has read. A step is what lies between two
awaits that another handler could notice, since Node runs that much alone.
The action that ends a handler by a failing statement or a dying process
(`MemberFails`, `FineFails`, ...) leaves the database as it is and the rest of
the operation undone, unless a database transaction encloses it; then the writes
are one action.

### BalanceCache

A row of `transactions` is one sub-transaction (buyer, seller, amount), rows of
one purchase sharing id and date; a row of `transfers` carries the entity that
owns it (`use`). `cache[u]` is the row of `balance`, `NoRow` standing for none:
the queries read an absent row through `LEFT JOIN` and `COALESCE` exactly so.
`now` is the database clock; `createdAt` is a `datetime(6)`, and a new date per
insert is assumed for rows dated by the clock. Rows with a date of their own
choosing (posted transfers, seller payouts) take any date.

Each statement of `updateTransaction`, `deleteTransaction`, `deleteTransfer` and
`waiveFines` is an action of a handler, and between two of them anything else
runs: other handlers, the sync, a crash. Creating a purchase is one action, as
TypeORM saves the whole tree in one transaction. Services that amend or remove
one transfer (`deleteFine`, `deleteSellerPayout`, `updateInvoice`,
`updateSellerPayout`) are one action each, since they write the event tables
once and never touch the cache.

`updateBalances` is one action: it is a single SQL statement, which under
InnoDB locks the rows it reads, so that it neither skips an uncommitted row nor
sees half of one.

`outdated` is a history variable with no counterpart in the code: the users
whose cache row counted, or should have counted, a change that reached behind
it. A user leaves the set when the row is rebuilt or removed. It lets the
invariants say exactly whom the application may show a wrong balance to.

### StripeDeposit

`emitted` and the guard of `Emit` are Stripe: an intent succeeds or is canceled
once, may fail and be retried before. `Receive` is the webhook controller up to
its 204. `Load` is the first read of the database transaction, `Commit` its
writes, which others see together. A transaction that does not commit whole
ends in `Conflict` (another one changed the deposit row under snapshot
isolation), `Rollback` (a deadlock, a dead process) or `CommitPart` (an error
caught inside it). `SnapshotIsolation` is a constant because it is a
server setting (`innodb_snapshot_isolation`, on by default from MariaDB 11.6.2,
absent in MySQL) and the answer depends on it.

### PayoutRequest

A handler stops at every `await` between two statements. The check of the
status runs twice, in the controller and in the service, and both are steps.
Roles are left out: any state may be asked for. `Spend` is a purchase of a user
who cannot go into debt, as one step, so that what goes wrong is due to
payouts alone.

### Members

`balance[u]` is what `getBalance` answers (the cache has its own module),
`user[u]` the columns of the row that decide something, `intents[u]` the
payment intents still open. `BeginPurchase` is `verifyTransaction`, which keeps
the row it loaded; `VerifyBalance` and `SavePurchase` follow; `LoadMarked` and
`SaveUser` are the unmarking of an inactive user. `SaveUser` is `user.save()`
wherever it occurs: it writes the row that was loaded. `UpdateColumn` is
`User.update` of a PATCH, which writes one column. A login (`BeginLogin`) saves
the row it loaded in the background. The write-off reads the balance in the
controller and in the service, moves the debt, and goes on with `closeUser`
(`LoadClosing`, `CheckZero`, `SaveUser`). A PATCH of `canGoIntoDebt` is not an
action: who may go into debt is the constant `Trusted`, so that the debt rule
can be stated; without it a user in debt may lose the leave at any time.

### Fines

`handOutFines` reads the balances first and then writes group, transfer and fine
in one database transaction (`BeginHandout`, `LoadFined`, `CommitFine`); it is
modelled for one user at a time, as each user has a transaction to itself.
`deleteFine` is four statements and `waiveFines` five, each an action. Every
transfer to a user goes through the subscriber: `InsertDeposit`, `ReadForFines`
on another connection, `CommitDeposit`. Which transfer is the newer one is kept
as `older` and `overtaken`, relations between the deposits in progress, instead
of ids that grow.

`debt[u]` is what the event tables sum up to and `ShownBalance(u)` what
`getBalance` answers. The two differ by `balanceRow[u].error`: a fine that
`deleteFine` removes, or a waiver that `waiveFines` replaces, stays in the sum of
a cached row that counts it (`counted`), and takes the row along only when the
row names it as the last transfer (`last`, the foreign key). `UpdateBalances` is
the nightly job, between any two statements but those of an open insertion; it
makes both agree. The subscriber and `deleteFine` decide by what is shown. A
handout reads the balance at a reference date of the caller's choice: any past
balance (`PastBalances`). The other ways to change a row of the cache (deleting a
purchase or a manual transfer of a fined user) clear it and are in `BalanceCache`.

### Catalogue and Sales

The three kinds of items are told apart by the constants `Products`,
`Containers` and `PointsOfSale`; one set of actions stands for the three
services, whose code is the same but for the kind of children (`KidKind`).
`revisions[i]` is the list of revisions of an item, each a label (price and
name) and the revisions of its children. An edit reads the base, reads the
children, saves the revision, saves the base and passes the change on to each
parent found (`Parents`, `PassOn`); a request and all it passes on is a list of
jobs worked off in order. A container also takes up products that were deleted
since they were asked for (`Readable`), a point of sale does not. `Sales` adds
tills: `Shown` is what a till may name,
`Offers` the check that each revision is listed in the one above it.

### Invoices

A request is a step that reads and a step that commits, as all of
`invoice-controller.ts` runs in database transactions. `link` is the column
`invoiceId` of the purchases' rows. `reversed` counts the transfers that undo an
invoice. Two deletions that read the same entries collide on the key of the
join table, so the second rolls back: that is a guard of `DeleteInvoice`.

Purchases that are on an invoice may be deleted (`DeletePurchase`, at any moment)
and changed, which deletes their rows and, in a second statement, makes new ones
without a link (`BeginRemake`, `RemakeRow`); neither looks at the invoice. So a
row is a purchase with the number of times it was made, `rows` is which there
are, and `madeFor` the history of the rows an invoice was made for. A purchase
has one row here: rows of one purchase go and come together. Two changes of one
purchase at once, which can leave both their rows, are not modelled.

### SellerPayouts

Time is `0 .. Now` and a window a pair of bounds. `Overlaps` is the condition
that `createFilterWhereDateRange` builds, term by term, and `SoldIn` the bounds
of the report, so that what happens at equal bounds and in empty windows is the
code's answer. A sale is a purchase of one unit at an instant.

### VoucherGroups

A card is a user: whether its row is there, linked to the group, active, and the
money it got and spent. Each loop of saves over users, links and
transfers is one action when it is one `Promise.all`; between loops anything
runs. `StartPasses` is the clock passing `activeStartDate`, which changes no row.

### UserExpiry, QRSessions

Dates are days, `0 .. LastDay`. Both jobs hold the rows they found at
their start and save them one after the other, after or before they notify. A
QR session's status is computed from its columns and the time (`Status`); a
handler keeps the session row it loaded and the status is computed again at the
moment the code looks.

### UserSync, OrganMembers

A run (a handler of `UserSync`) has one action for every await of
`SyncManager.run`, of `sync` and `down` of LDAP and of the members' database,
and of `closeUser`. `result` is the verdict put together from the services,
`vouched` the history of which of them really vouched. Logins, purchases and
PATCHes of `active` belong to other processes and fall between any two steps of
a run; the history `edges` counts how often an account stopped being active, by
a run or by a request. `UserSync` knows members
and organs, `Accounts` being both. `OrganMembers` is `setMemberAuthenticator`:
delete all memberships, then save them one by one with the indices of `Assign`.

### Roles

A rule is entity, action and relation, the primary key of a permission; its
attributes are the value. `definition` is what the deployed source says.
`Permission.save` and `Permission.remove` start together: the save looks which
rows exist (`FindPermissions`) and then updates or inserts (`WritePermissions`),
and the removal may fall before, between or after. Requests look the role up,
are refused when it is the system's, and change it (`CheckRole`, ...).

### SystemRoom

`mode` is the row, `cached[w]` the copy of worker `w`, `shown[c]` what client `c`
was told last. Emitting reaches all clients in the room through the cluster
adapter, in one step. A worker that restarts reads the row again and loses its
clients, who join again.

### Files

One entity, of one of four kinds, with its link, the rows of the file table and
the files on disk. The content and the hash of a PDF are the version of the
entity they were computed from: an invoice carries its rows with it
(`task.shows`), the report of a seller payout is asked of the database each time
(`Parameters`). Disk operations are synchronous in Node and one step. A banner's
new image is inserted as a product's: `absent` is an id that was given in another
table. The location of a new image is saved to the table of simple files
(`simpleRow`, the row of the same id there, which is inserted or overwritten)
before its own row gets it, and that row stays; a failure in `createFile` deletes
from that table too, whatever file it handles (`CreateFails`).

### Events

A sheet belongs to a user and a shift. `able[s]` is who holds a role of the
shift. `createEvent`, `updateEvent`, the nightly job and the request to
synchronise all end in `syncEventShiftAnswers` (`ListSheets`, `MakeSheet`,
`RemoveSheets`), with different sheets loaded: `updateEvent` has none, so it
removes none. A shift with sheets is deleted softly (`hidden`).

### MCOperations

The components from `Members` to `Events` share no tables with each other in
what is modelled of them (what they share, transfers and balances, is in
`BalanceCache`). Their product would multiply state graphs without adding a
behaviour, so a variable `focus`, chosen in the initial state, says which
component moves; the state graph is the sum of theirs. The module states once
for all which faults a run has. `ConcurrentNext` takes every step of every
component, failures included. The edits of the catalogue are among the steps of
`SalesNext`, which stands for both; the run has no point of sale, so nothing is
sold in it and two edits interleave alone, as two edits and two tills together
have too many states (a point of sale more gives ten times as many). What sales
promise is run with `SerialNext`, and their type correctness is proved for any
number of everything. `SerialNext` is run with one handler, and with failures
where the code is written to survive them; jobs of the clock and requests that
are one statement fall between the steps of its handler (`UpdateBalances`,
`DeletePurchase`, logins and PATCHes in `UserSync`, purchases of a fined user).

## 3. What the runs show

All bounds are constants of the `.cfg` files.

| Run | Specification and bounds | Shows |
| --- | --- | --- |
| `BalanceCache` | everything; 2 users, 2 handlers, amount 1, 2 inserts | types; cache rows name rows of their own user; balances now and on any date are the sum of the tables for all but `outdated` users, whatever two handlers interleave |
| `BalanceCacheFair` | 1 handler, weak fairness of the sync; in mode `all` everything, in mode `clearing` only the operations that clear the cache, each running to its end | the cache implements `AccountBook`; every balance is right again and again; after clearing operations alone nobody's balance is wrong at rest |
| `BalanceCacheUpdate` | purchases and updates, 1 handler, crashes | a counterexample (below) |
| `StripeDeposit` | everything, 2 intents, 1 handler, no snapshot isolation | one outcome per intent; no credit without a recorded success, no success Stripe did not report |
| `StripeDepositFair` | nothing fails, 1 intent, 2 handlers, snapshot isolation | credited at most once; every recorded success is credited; a payment that succeeds at the first attempt is credited |
| `StripeDepositRetry` | the same | a counterexample (below) |
| `PayoutRequest` | no crash, 2 requests, 2 handlers | money leaves only for an approval of its own; a settled request was paid once per approval and its row says so |
| `PayoutRequestSerial` | crashes, 2 requests, 1 handler, amounts up to 2 of a balance of 3, no spending during a request | one decision, never overdrawn, implements `Payout` |
| `Concurrent` | `MCOperations`: 2 handlers of one component, every step may fail | types; the debt of a user who may have none is bounded by what the handlers can spend twice; fines, seller payouts, cards with money, current revisions and linked files have the row they stand on; a deleted invoice holds no row; nobody is taken down that a service vouched for; saved revisions stay; an expired session gets no token |
| `Serial` | `MCOperations`: 1 handler; failures for members, invoices, expiry, sync, organ, roles and events; fairness of the jobs | top-ups bounded; closed users owe nothing; parents list current revisions; what was sold was on offer; an invoice keeps its rows, whatever becomes of the purchases; no sale paid twice; one mail per reason; cards match their group; indices are unique and stay; roles and answer sheets settle; what is shown (mode, PDF, image) is current; a debt that is paid, and not shown any more, clears the fines; waivers are bounded; expired users end inactive and accounts follow memberships |
| `InvoiceDeletedTwice` | invoices, 1 handler | a counterexample (below) |
| `PurchaseInvoicedTwice` | invoices, 1 purchase made twice, 1 handler | a counterexample (below) |

### Why the bounds are enough

* *Two handlers.* Races in this code are between two requests; a third handler
  repeats what one of the two does. The properties that count handlers
  (`DebtIsBounded`, `VouchedIsKept`, `DeletedIsFree`, `ExpiredGetsNoToken`) are
  proved for any number.
* *One user, session, entity, event.* Rows of different users, sessions, files
  or events share nothing; where two of a kind meet there are two: buyer and
  seller, purchases of one invoice, phones of one session, rules of one role,
  workers and clients of one room, shifts of one event, an organ and a member.
* *Ids.* Two inserts into the ledger give a row that is cached and one that is
  not, in either order of dates. Two or three fines, groups, waivers, invoices
  and payouts let one be removed and made anew next to an older one. `MaxMade`,
  how often the row of a purchase is made, is 2: invoiced, made anew, invoiced
  again. `Concurrent` has one purchase with two rows, for two handlers.
* *Nightly.* `Serial` runs the job that caches balances among the fines, as its
  property is about what is shown. `Concurrent` does not (`Nightly = FALSE`): its
  property about fines does not look at balances, and no row of the cache means
  fewer states.
* *Numbers.* Prices up to 2 and limits of 2 and 3 let a cost be less than, equal to and
  more than a balance. Fines have the code's own numbers (100 of every 500
  cents, at most 500); a debt goes to 700 cents, so that a fine comes to 100, a
  group of two to 200, and a waiver to part or all of it. Windows over `0 .. 4`
  include equal bounds, inclusion and
  empty windows; `Concurrent` has one instant, as its property is about rows.
* *Catalogue.* A container of two products in one point of sale passes on an
  edit over two levels, with three revisions. `Concurrent` has one product and
  one container, which two edits at once suffice to disorder. `Sales` sells one
  product (`Shelf`) while all three kinds are edited.
* *Files.* Two versions and three uploads let a file be replaced twice.
  `Concurrent` has one version, as `LinkIsLocated` does not look at contents.

`CHECK_DEADLOCK FALSE` is set where the bounds are spent by legal behaviour and
nothing is left to do (every payout request decided and the money gone; every
id used), which a real system does not run into; it is not set for the balance
cache and Stripe.

What a run does not meet is said with each hazard in `PROJECT.json`: `Serial`
has one handler and leaves out failures for fines, catalogue, sales, seller
payouts, vouchers, room and files, so it says nothing of two such requests at
once nor of one that is cut off there (`Concurrent` meets both, for the
properties it checks); `PayoutRequest` has no crash,
`PayoutRequestSerial` no second request, `StripeDeposit` no second event at once,
`StripeDepositFair` no transaction that commits half and no crash. Where the code
fails in what is left out, the table below says so.

Every property of a passing run has a mutant: a definition changed the way a
bug would change it, kept beside the original and marked *mutant* in a comment,
under which the run finds the property violated. A property that joins several
components has one for each.

### Where code and documentation disagree

Four runs find a counterexample to a sentence of the documentation or of a
comment; only the first needs a failure. `PROJECT.json` quotes the sentences
under `findings`.

| Run | The code | The sentence |
| --- | --- | --- |
| `BalanceCacheUpdate` | an update deletes, then saves; a failure in between loses the purchase | operations are atomic |
| `StripeDepositRetry` | a success after a failed attempt of the same intent is refused | a top-up credits when the payment succeeds |
| `InvoiceDeletedTwice` | a second deletion credits the whole amount once more | the credit fully reverses the original |
| `PurchaseInvoicedTwice` | a PATCH of an invoiced purchase makes its rows anew, without the invoice; the purchase is invoiced again | the links prevent double invoicing |

The models reach more states that the documentation rules out or a reader would
not expect. They are not runs of their own: the passing runs above say how far
each property holds, and the change in the last column makes TLC produce the
trace.

| The code | Property | To see it |
| --- | --- | --- |
| a deletion racing an update of one transaction clears the users it read before, not those the update brought in | `ClearingKeepsBalance` | two handlers in `BalanceCacheFair` |
| a seller payout is dated in the past and nothing clears the cached row it falls behind | same | add `PayOutSeller` to `ClearingNext` |
| changing the amount of an invoice or seller payout changes a counted transfer | same | add `Amend`, with `MaxAmount = 2` |
| deleting a fine or a seller payout, or replacing a waiver, removes a counted transfer | same | add `RemoveFinesOrPayout`, `WaiveFines` |
| two deliveries at once both pass the duplicate check | `CreditedOnce` | no snapshot isolation in `StripeDepositFair` |
| an error after the status row is saved commits the status alone | `SuccessIsCredited` | `Spec` in `StripeDepositFair` |
| an acknowledged event is lost in a crash | `FirstAttemptIsCredited` | `NextAtomic` for `NextReliable` in `ReliableSpec` |
| success and failure at once are both recorded | `OneOutcome` | two handlers in `StripeDeposit` |
| an approval and a cancellation at once are both recorded | `OneDecision` | two handlers in `PayoutRequestSerial` |
| two approvals spend one balance | `NeverOverdrawn` | same |
| an approval is saved before its transfer | `ApprovedIsPaid` | `Spec` in `PayoutRequest` |
| two top-ups, write-offs, invoices, seller payouts, voucher updates, catalogue edits, waivers, organ replacements or synchronisations at once act on what the other changes | the properties of `Serial` on them | two handlers in `Serial`, one component in `Foci` |
| two requests that change a role, or two synchronisations of an event, cross: a permission is added to what has become a system role, a sheet is made for who can no longer do the shift | `ListsSettle` | same |
| a mail that cannot be queued is lost without an error (`notifier.ts:102` settles all channels), though `user-expiry-service.ts:40` says the user is then not deactivated | `DeactivatedIsTold` | add the property to `Serial` |
| a fine is deleted after its group was waived; more stays waived than was fined | `WaivedIsFined` | add the invariant to `Serial` |
| a waiver is replaced that the cached balance counts, or a fine is deleted; the user is shown too poor, and a deposit that ends the debt leaves the fines, though `transfer-subscriber.ts:53` says that they are removed when the balance is positive | `PositiveIsCleared` | add the property to `Serial` |
| DELETE and PATCH of a user look at no balance, though `entity/user/user.ts:87` says a user is only deleted at exactly zero | `DeletedAtZero` | add the property to `Serial` |
| a rule of a system role whose attributes changed is saved and removed at once; the permission is gone until the next start of the cron process | `RolesSettle` | `completed >= 1` for `completed = 2` |
| a subscriber's read of the maintenance mode is emitted after a newer mode was set, and the clients of all workers keep it | `ModeIsShown` | two handlers in `Serial` |
| a purchase in the period of a payout while its PDF is made: the PDF answered with is older, or stored under the hash of newer sales | `FilesAreCurrent` | `FilesNext` without failures, one handler |

Some facts the models hold as the code has them, without a property that
depends on them: a purchase may name old revisions, if they list each other,
though `docs/content/general/1-core-concepts.md` speaks of the current ones;
concurrent edits rewrite the list of children of a revision that exists;
`updateInvoice` may delete a paid invoice only through DELETE, not PATCH; the
row of a banner's first image stays behind among the images of products, and a
row of every new image among the simple files;
`updateEvent` leaves the sheets of a dropped shift until the next
synchronisation, though the comment of `syncEventShiftAnswers` says that they
are removed when a shift is changed; a banner or user that a slow request
saves after its deletion is there again.

In all `BalanceCache` cases the wrong balance lasts until the next nightly sync
(`SyncRepairs`, `AlwaysRepaired`).

### Fairness

* `SyncingSpec`: weak fairness of `UpdateBalances`. `cron.ts` schedules it every
  night and runs it at the start of the process, which pm2 restarts. It is
  always enabled, and needs no stronger assumption.
* `ReliableSpec` of `StripeDeposit`: strong fairness of delivering an event that
  is not acknowledged, since Stripe retries until it gets a 2xx while the
  bounded set of handlers is now full, now free; weak fairness of a handler that
  has begun, since Node runs a promise that is not stuck. The client
  paying, and Stripe reporting a further event, are never fair.
* `JobsGoOn` of `MCOperations`: weak fairness of starting the expiry job, which
  `cron.ts` schedules every night; strong fairness of notifying and of saving
  each user, as an attempt that fails comes again the next night, with failures
  in between but not for ever; weak fairness of the steps of a synchronisation
  run, with the start of a run among them. What the world does (dates,
  memberships, LDAP, other requests) and what fails are never fair. Without
  these `JobsCatchUp` fails for the reason that the system may simply stop.
* No fairness anywhere else: all other properties are safety.

## 4. What is proved

For all values of the constants, under the named assumptions only: the `ASSUME`
of each module (TLC evaluates them in the runs), and, where a theorem says so,
one handler at a time (`\A g, h \in Handlers : g = h`), a finite number of
handlers, or a specification without the failures its run leaves out as well.
A theorem about a next-state relation without failures says so in its statement.

**BalanceCache_proofs.** `Total` counts the cents of a set of rows, a definition
without recursion, so its laws (additive over disjoint sets, unaffected by rows
of others, changed by one row by its amount) follow from the library's theorems
on cardinality. They carry the arithmetic of the cache. Assumed are finitely
many users, `Void` not among them, and natural bounds. `BalanceIsLedger` is not
inductive: that a balance is right now does not say it stays right when the next
row is added on top of the cached sum. The inductive invariant says what a
cached row *is*: for a user who is not outdated its amount is the sum of the
rows up to the two it names, which are the user's own, and the rest of the rows
lie after them. With it go facts about rows (ids and dates were handed out
before, rows of one purchase share a date) and about handlers (an update keeps
an id and a date that belong together). Proved: `TypeCorrect`,
`WellFormedAlways`, `InvariantAlways`, `CacheNamesOwnRowsAlways`,
`BalanceIsLedgerAlways`, `HistoryIsLedgerAlways`, the action property
`SyncRepairsAlways`, which no run checks, and the refinement
`ImplementsAccountBookAlways`, action by action: every step moves the books, or
misses a user who is outdated then, or catches up. `ClearingKeepsBalanceAlways`
assumes one handler and only the operations that clear the cache: between its
statements the handler still holds what it will clear, and nobody else is
outdated.

**StripeDeposit_proofs.** `TypeCorrect` and `CreditIsBackedAlways` for the full
specification: a handler holds only a state that Stripe reported, and transfers
are made with a success in the same commit. `SuccessIsCreditedAlways` for
transactions that commit whole; the strengthening ties the version of the
deposit row to the transfers linked to it. `CreditedOnceAlways` assumes snapshot
isolation: the version a loaded handler saw is the current one or the deposit
was credited since, and then the link is refused. `OneOutcomeAlways` assumes one
webhook request at a time: what it loaded is still there when it saves.

**PayoutRequest_proofs.** `TypeCorrect`; `OneDecisionAlways` for one handler,
with the strengthening that a status about to be saved is still allowed;
`PaidIsApprovedAlways` for any finite set of handlers, by counting: transfers of
a request plus handlers about to make one are at most its approvals.
`ApprovedIsPaidAlways` makes the count exact, for handlers that do not die half
way. `NeverOverdrawnAlways` and the refinement `ImplementsPayoutAlways` hold for
one handler, crashes included, when nobody spends while it works, as in their
run: an approval in progress stays covered until it is paid, and only the
transfer and the decisions of the other kinds show in the abstract payout.

**Members_proofs.** `MembersTypeCorrect`, and `DebtIsBoundedAlways`: n handlers
take a user who may not go into debt at most n - 1 purchases below zero. The
bound alone is not inductive, as a handler that has compared its amount with the
balance will spend it whatever the others do. The strengthening `Spending(u)`
counts the handlers that will still spend, k of them: some one of them would leave
the balance at or above k - n purchases (`Room`), and with none left the balance
is at or above 1 - n. Next to it `NoLeave`: no row, in the table or loaded by a
handler, gives such a user the leave. For one handler,
`TopupsAreBoundedAlways` and `ClosedOwesNothingAlways`, from `SerialInv`: what a
request read of the user and of the balance still holds when it uses it, a
balance together with the intents that are open fits the limit (a sum over the
slots, again by cardinality), and a user without the leave is covered.

**Money_proofs.** What each service writes down about money next to the event
tables. Of any number of requests that interleave and roll back:
`InvoicesTypeCorrect`, `SellerTypeCorrect`, `VoucherTypeCorrect`,
`FinesTypeCorrect`, `DeletedIsFreeAlways` (the rows a deletion read cover the
rows linked now, and no PATCH sets the state DELETED), `PayoutIsBookedAlways`,
`CreditIsLinkedAlways`, `FineIsPaidAlways` (a handler that is about to save a row
made its partner before, and no other handler knows the id). Of one request at a
time: `InvoicedOnceAlways` (what a request read is what it writes,
of the rows that are still there, and a row that is made anew is none that was
invoiced: `StillAsRead`, `LatestRows`),
`PaidOnceAlways` (the windows of two payouts share no moment, and the one a
request is about to save shares none with them), `PaidIsClearedAlways` (a deposit
that is about to be committed clears the fines, or there are none, or a debt is
still shown after it; the theorem therefore excepts balances that are shown too
low), and, without failures, `CardsMatchGroupAlways` (what the cards have at each
step of an update; only an active card that is linked pays, so an update takes
back nothing that was spent), and `WaiverIsBoundedAlways`. What was fined and what
was waived are sums over rows, folds whose general laws need induction over data;
but the invariant says that no two waivers are of the same group, and a sum over
nothing or over one row follows from the definition of the fold. The request
that makes a waiver has removed the earlier one of the group, which is linked to
it, and what it compared its amount with is still what was fined (`WaiverInv`).

**Catalogue_proofs.** Of any number of edits, cut off anywhere:
`CatalogueTypeCorrect`, `CurrentIsSavedAlways`, `RevisionsStayAlways`, from
`CatalogueInv`: an edit that has saved its revision is about to move
`currentRevision` to one that is there. With purchases at any number of tills
next to them: `SalesTypeCorrect`. For one edit at a time that does not fail,
`OrderInv` (an item has as many revisions as its current one says, and one more
between the two saves) gives `SoldIsOfferedAlways`, as rows are only added then;
and `CatalogueIsCurrentAlways` needs `PropagatesInv` on top: a current revision
lists an older one of a child only while an edit of its item is among the jobs
left, or the child has just been saved; what is going to be deleted is listed
only by items that have an edit left, and those edits list nothing that is
deleted (so that `Readable`, which would let a container take it up, makes no
difference for one edit at a time); the rank of the items (product, container,
point of sale) keeps a job from undoing
another.

**People_proofs.** QR sessions: the action property `ExpiredGetsNoTokenAlways`,
as every step keeps a session that is overdue and that no request is committed
to so (`Guards`). Synchronisation, for any number of runs: `VouchedIsKeptAlways`,
as a service that vouches makes the result true, nothing makes it false before
the next user, and only a false result takes a user down (`Vouches`); for one
run at a time, with logins and PATCHes of `active` between any two of its steps,
`ToldOnceAlways`: an account that was active when the run read it and that it has
still to look at is active now, or was deactivated since without a mail
(`MayTell`), and whoever writes a row keeps that so (`MayStillTell`). Expiry,
for both jobs and all requests: `WarnedOnceAlways`, by
counting: the warnings of a user and those on their way, a row that asks for one
included, are at most one more than the changes of the expiry date; a job that
holds a row of an account that has expired never writes back a row that asks
for a warning (`WarnInv`). Organs, for one request at a time:
`MembersHaveIndicesAlways`; the index of a new member is the smallest free one,
and that there is one among as many indices as persons is the pigeonhole
principle of the library, applied to the indices below it. While the rows are
deleted and saved one by one, what is saved is what the list says of those that
are not left to do (`Replaces`). Roles: `RolesSettleAlways`. That two complete
synchronisations leave the permissions that are defined is not inductive: one
that dies leaves anything, and a complete one after it still may leave a rule
absent that it both removed and added. `SettleInv` says that after one complete
synchronisation each rule is as defined or absent, that the next one therefore
removes nothing and adds what is absent, and what of that each phase has done.

**Operations_proofs.** Rooms, for one change of the mode at a time:
`ModeIsShownAlways` (what is about to be told is the mode of the database).
Files: `LinkIsLocatedAlways` for any requests and failures (a request that is
about to link a file has its row, and the row its place; rows stay), and
`FilesAreCurrentAlways` for one request at a time that does not fail, from a
description of what the tables and the disk hold in each phase of an upload and
of a deletion (`CurrentInv`). Events, for one request at a time:
`SheetsSettleAlways` (a synchronisation that looks at all sheets has loaded
every one that it will not make). Then the composition. A step of
`ConcurrentSpec` or `SerialSpec` is a step of the component in focus and leaves
the variables of the others, so it is a step or a stutter of every component
(`ConcurrentSteps`, `SerialRunSteps`), and the inductive invariants of the
components give `TypeOKAlways` and `RowsHaveTheirPartnersAlways` for any number
of handlers with every fault, and `MailedOnceAlways`, `ListsSettleAlways` and
`ShownIsCurrentAlways` for `SerialSpec` with one handler. `SerialKeepsBooksAlways`
states there what `Members_proofs`, `Money_proofs`, `Catalogue_proofs` and
`People_proofs` prove of their own specifications. The type correctness of
each component is a theorem beside its model (`QRTypeCorrect`,
`FilesTypeCorrect`, ...), which `TypeOKAlways` sums up.

**Only model-checked.** The liveness properties (`AlwaysRepaired`,
`FirstAttemptIsCredited`, `JobsCatchUp`): liveness under fairness and `ENABLED`
are out of the prover's reach.

## 5. What is not modelled

Amounts are positive bounded numbers of cents: currencies, VAT and rounding do
not influence the properties. By far the most lines of the implementation are
routes, request formats, response formats, list filters, authorisation
look-ups, entity declarations and migrations: they keep no state a model would
tell apart, and a definition per line of them would only repeat it. So the
share of lines that the definitions map is small, although nearly every service
that changes state in several steps has a module. Left out, by component
(`PROJECT.json` gives the reasons):

* notifications and the mail queue: the queue and its attempts belong to BullMQ;
  here a notification is handed over or lost (`UserExpiry`, `UserSync`);
* payment requests: an entity that no operation uses at this commit;
* reports, summaries and wrapped: queries without a state of their own;
* VAT groups, categories, terms of service: one row per call;
* of modelled components: the query that decides who is inactive, user
  creation, keys and pins, passwords and tokens, the creation of users from
  LDAP, who holds which role, user types of roles, settings other than the
  maintenance mode, rooms other than its own, simple files, event reminders.

## 6. Plan

What is left: abstract specifications for the catalogue (each item has one
offer, numbered upward) and for synchronisation (an account is a function of its
memberships), and the refinements.

## 7. Running

    tlc -config BalanceCache.cfg MCBalanceCache
    tlc -config Serial.cfg MCOperations
    tlapm Members_proofs.tla

`Serial` and `Concurrent` take some minutes on two cores, the proofs of
`Operations_proofs` about ten from nothing, everything else less.
`PROJECT.json` lists every run with its module, configuration and properties,
and maps every definition to the lines it models.
