SPECIFICATION Spec
CONSTANTS
  i1 = i1
  i2 = i2
  h1 = h1
  h2 = h2
  Intents = {i1, i2}
  Handlers = {h1}
  SnapshotIsolation = FALSE
SYMMETRY Symmetry
INVARIANTS
  TypeOK
  CreditIsBacked
  OneOutcome
