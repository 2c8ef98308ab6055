SPECIFICATION Spec
CONSTANTS
  Incident = {i1}
  Worker = {w1, w2}
  Key = {k1}
  Policy = {p1, p2}
  NoKey = NoKey
  NoPolicy = NoPolicy
  NoClaim = NoClaim
  MaxAttempts = 3
  LeaseTicks = 2
  FirstBackoff = 1
  LaterBackoff = 2
  JobLimit = 1
SYMMETRY Symmetry
INVARIANTS
  TypeOK
  IInv
  LifecycleConsistent
  NoPoisonJob
  TokenNamesOneExecution
  BehindByLateMarkOnly
  AttemptsRespected
PROPERTIES
  SettledForever
  OwnerDecides
  PolicyPinned
  ImplementsLifecycle
