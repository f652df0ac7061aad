SPECIFICATION SerialSpec
CONSTANTS
  Foci = {"members", "fines", "catalogue", "sales", "invoices", "sellers", "expiry", "sync", "vouchers", "organ", "roles", "room", "files", "events"}
  Users = {u1}
  Handlers = {h1}
  \* Members
  Trusted = {u1}
  MaxPrice = 2
  AdministrativeCost = 2
  MinTopup = 2
  MaxBalance = 3
  OpenTopups = 2
  MaxDebt = 2
  \* Fines
  FineIds = {1, 2}
  GroupIds = {1, 2}
  WaiverIds = {1, 2}
  DebtPerFine = 500
  FineUnit = 100
  MaxFine = 500
  Moves = {500}
  MaxOwed = 700
  MaxOwned = 500
  Nightly = TRUE
  \* Catalogue
  Products = {p1, p2}
  Containers = {c1}
  PointsOfSale = {s1}
  Labels = {1}
  MaxRevision = 3
  \* Sales
  Shelf = {p1}
  Tills = {t1}
  MaxSales = 1
  \* Invoices
  Purchases = {r1, r2}
  MaxMade = 2
  InvoiceIds = {1, 2}
  Amounts = {1}
  MaxReversed = 1
  \* SellerPayouts
  Now = 4
  MaxPayouts = 3
  MaxSold = 0
  \* UserExpiry
  LastDay = 3
  WarningDays = 2
  MaxPatches = 3
  \* QRSessions
  Sessions = {s1}
  Phones = {u1, u2}
  Nobody = nobody
  \* UserSync
  Accounts = {m1, o1}
  Organs = {o1}
  MemberUsers = {m1}
  AllowSyncDelete = TRUE
  MaxChanges = 4
  \* VoucherGroups
  MaxCards = 3
  MaxCredit = 2
  \* OrganMembers
  Persons = {1, 2, 3}
  \* Roles
  Rules = {r1, r2}
  Attributes = {"all", "some"}
  \* SystemRoom
  Workers = {w1, w2}
  Clients = {c1, c2}
  \* Files
  Versions = {1, 2}
  MaxUploads = 3
  \* Events
  Crew = {u1}
  Shifts = {e1, e2}
CHECK_DEADLOCK FALSE
INVARIANTS
  TopupsAreBounded
  ClosedOwesNothing
  CatalogueIsCurrent
  SoldIsOffered
  InvoicedOnce
  PaidOnce
  MailedOnce
  CardsMatchGroup
  MembersHaveIndices
  ListsSettle
  ShownIsCurrent
PROPERTIES
  PaidIsCleared
  WaiverIsBounded
  JobsCatchUp
