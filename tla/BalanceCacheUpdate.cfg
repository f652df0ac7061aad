SPECIFICATION UpdateSpec
CONSTANTS
  alice = alice
  bob = bob
  h1 = h1
  h2 = h2
  Void = Void
  Users = {alice, bob}
  Handlers = {h1}
  MaxAmount = 1
  MaxTime = 3
INVARIANTS
  UpdatesKeepTransactions
