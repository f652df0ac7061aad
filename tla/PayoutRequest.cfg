SPECIFICATION ReliableSpec
CONSTANTS
  alice = alice
  r1 = r1
  r2 = r2
  h1 = h1
  h2 = h2
  Users = {alice}
  Requests = {r1, r2}
  Handlers = {h1, h2}
  MaxAmount = 1
  Balance = 2
SYMMETRY Symmetry
CHECK_DEADLOCK FALSE
INVARIANTS
  TypeOK
  PaidIsApproved
  ApprovedIsPaid
