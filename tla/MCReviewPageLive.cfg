SPECIFICATION MCSpec
CONSTANTS
  Incident = {i1}
  Worker = {w1, w2}
  Key = {k1}
  Policy = {p1}
  NoKey = NoKey
  NoPolicy = NoPolicy
  NoClaim = NoClaim
  Shown = i1
  NotRead = NotRead
  MaxAttempts = 2
  LeaseTicks = 1
  FirstBackoff = 1
  LaterBackoff = 1
  JobLimit = 1
INVARIANTS
  PageNotBehind
PROPERTIES
  AnalysisSettles
  PatchSettles
CHECK_DEADLOCK FALSE
