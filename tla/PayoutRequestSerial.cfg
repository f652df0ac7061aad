SPECIFICATION QuietSpec
CONSTANTS
  alice = alice
  r1 = r1
  r2 = r2
  h1 = h1
  h2 = h2
  Users = {alice}
  Requests = {r1, r2}
  Handlers = {h1}
  MaxAmount = 2
  Balance = 3
CHECK_DEADLOCK FALSE
INVARIANTS
  OneDecision
  NeverOverdrawn
PROPERTIES
  ImplementsPayout
