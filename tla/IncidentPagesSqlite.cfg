SPECIFICATION Spec
CONSTANTS
  Row = {1, 2, 3}
  MaxTime = 2
  Limit = 1
  Backend = "sqlite"
INVARIANTS
  ShownOnce
