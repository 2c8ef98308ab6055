SPECIFICATION MCSpec
SYMMETRY Symmetry
CONSTANTS
  Job = {j1, j2}
  Lease = 12
  Beat = 3
  Retry = 1
  MaxAttempt = 1
  Outage = {1, 4, 16}
  MaxOutages = 2
  ShortOutage = 1
  Skew = 0
  Threads = 3
  MaxValidation = 8
CHECK_DEADLOCK FALSE
INVARIANTS
  LiveNotRecovered
  OutlivesBounded
  BeatsOnTime
