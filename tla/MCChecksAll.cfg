SPECIFICATION MCSpec
CONSTANTS
  Commands = 3
  Timeout = 2
  MaxClock = 4
  Path = {"a", "n", "t", "u", "c", "l"}
  Base <- Tree
  Area <- Rules
  MaxFiles = 2
  MaxLines = 1
  MaxSize = 1
  MaxNodes = 5
  MaxDepth = 1
  MaxValues = 3
  MaxText = 2
  ScrubbedText = 1
CHECK_DEADLOCK FALSE
INVARIANTS
  PolicyDecides
  LimitsDecide
  OnlyChildrenLeft
  RunsAtMostTimeout
  NothingAfterFailure
PROPERTIES
  PassedByItself
  CallEnds
