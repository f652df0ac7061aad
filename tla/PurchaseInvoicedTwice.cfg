SPECIFICATION InvoicesSpec
CONSTANTS
  Users = {u1}
  Handlers = {h1}
  Purchases = {r1}
  MaxMade = 2
  InvoiceIds = {1, 2}
  Amounts = {1}
  MaxReversed = 0
CHECK_DEADLOCK FALSE
INVARIANTS
  BilledOnce
