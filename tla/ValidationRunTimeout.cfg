SPECIFICATION FairSpec
CONSTANTS
  Commands = 1
  Timeout = 2
  MaxClock = 4
PROPERTIES
  ChildrenTerminated
CHECK_DEADLOCK FALSE
