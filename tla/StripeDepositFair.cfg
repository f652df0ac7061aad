SPECIFICATION ReliableSpec
CONSTANTS
  i1 = i1
  i2 = i2
  h1 = h1
  h2 = h2
  Intents = {i1}
  Handlers = {h1, h2}
  SnapshotIsolation = TRUE
INVARIANTS
  CreditedOnce
  SuccessIsCredited
PROPERTIES
  FirstAttemptIsCredited
