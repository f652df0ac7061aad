SPECIFICATION ConcurrentSpec
CONSTANTS
  Foci = {"members", "fines", "sales", "invoices", "sellers", "expiry", "qr", "sync", "vouchers", "organ", "roles", "room", "files", "events"}
  Users = {u1}
  Handlers = {h1, h2}
  \* Members
  Trusted = {}
  MaxPrice = 2
  AdministrativeCost = 2
  MinTopup = 2
  MaxBalance = 3
  OpenTopups = 1
  MaxDebt = 2
  \* Fines
  FineIds = {1, 2}
  GroupIds = {1, 2}
  WaiverIds = {1}
  DebtPerFine = 500
  FineUnit = 100
  MaxFine = 500
  Moves = {500}
  MaxOwed = 700
  MaxOwned = 0
  Nightly = FALSE
  \* Catalogue
  Products = {p1}
  Containers = {c1}
  PointsOfSale = {}
  Labels = {1, 2}
  MaxRevision = 2
  \* Sales
  Shelf = {p1}
  Tills = {t1}
  MaxSales = 1
  \* Invoices
  Purchases = {r1}
  MaxMade = 2
  InvoiceIds = {1, 2}
  Amounts = {1}
  MaxReversed = 0
  \* SellerPayouts
  Now = 1
  MaxPayouts = 2
  MaxSold = 1
  \* UserExpiry
  LastDay = 3
  WarningDays = 2
  MaxPatches = 2
  \* QRSessions
  Sessions = {s1}
  Phones = {u1, u2}
  Nobody = nobody
  \* UserSync
  Accounts = {m1}
  Organs = {}
  MemberUsers = {m1}
  AllowSyncDelete = TRUE
  MaxChanges = 3
  \* VoucherGroups
  MaxCards = 2
  MaxCredit = 1
  \* OrganMembers
  Persons = {1, 2}
  \* Roles
  Rules = {r1}
  Attributes = {"all"}
  \* SystemRoom
  Workers = {w1, w2}
  Clients = {c1, c2}
  \* Files
  Versions = {1}
  MaxUploads = 2
  \* Events
  Crew = {u1}
  Shifts = {e1}
SYMMETRY Symmetry
CHECK_DEADLOCK FALSE
INVARIANTS
  TypeOK
  DebtIsBounded
  RowsHaveTheirPartners
  DeletedIsFree
  VouchedIsKept
PROPERTIES
  RevisionsStay
  ExpiredGetsNoToken
