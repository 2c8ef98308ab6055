SPECIFICATION FairSpec
CONSTANTS
  Exec = {1, 2}
  Type <- Kinds
  MaxCancels = 2
  Nobody = Nobody
CHECK_DEADLOCK FALSE
INVARIANTS
  RemovedBeforeOutcome
  OnlyAbandonedInside
PROPERTIES
  WorktreesGiveWay
  ExecutionEnds
