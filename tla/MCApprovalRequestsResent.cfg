SPECIFICATION FairSpec
CONSTANTS
  Request = {1, 2, 3}
  Incident = {"a", "b", "c"}
  Key = {"k", "l"}
  Target <- Targets
  KeyOf <- Keys
  NoKey = NoKey
  JobLimit = 1
  MaxSends = 2
CHECK_DEADLOCK FALSE
PROPERTIES
  ImplementsDesk
  RequestsEnd
