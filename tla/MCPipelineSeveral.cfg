SPECIFICATION Spec
CONSTANTS
  Incident = {i1, i2, i3}
  Worker = {w1, w2}
  Key = {k1, k2}
  Policy = {p1}
  NoKey = NoKey
  NoPolicy = NoPolicy
  NoClaim = NoClaim
  MaxAttempts = 1
  LeaseTicks = 1
  FirstBackoff = 1
  LaterBackoff = 1
  JobLimit = 2
SYMMETRY Symmetry
INVARIANTS
  CapacityRespected
PROPERTIES
  ImplementsApprovals
