SPECIFICATION Spec
CONSTANTS
  Incident = {i1}
  Worker = {w1}
  Key = {k1}
  Policy = {p1}
  NoKey = NoKey
  NoPolicy = NoPolicy
  NoClaim = NoClaim
  MaxAttempts = 2
  LeaseTicks = 1
  FirstBackoff = 1
  LaterBackoff = 1
  JobLimit = 1
INVARIANTS
  FailureTakenAtOnce
