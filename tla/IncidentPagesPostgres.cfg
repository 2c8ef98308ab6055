SPECIFICATION FairSpec
CONSTANTS
  Row = {1, 2, 3, 4}
  MaxTime = 2
  Limit = 2
  Backend = "postgresql"
INVARIANTS
  ShownOnce
  NothingMissed
PROPERTIES
  ReadingEnds
