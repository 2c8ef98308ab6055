SPECIFICATION FairSpec
CONSTANTS
  Service = {"s1", "s2"}
  Request = {1, 2, 3}
  Path <- Paths
  Commit = {"c1", "c2"}
  RepositoryAt <- RepositoryOf
  CommitsOf <- CommitsIn
  Setting <- Settings
  JobLimit = 2
  NoPath = NoPath
  NoCommit = NoCommit
  NoIncident = NoIncident
  MaxTries = 2
  MaxSyncs = 2
CHECK_DEADLOCK FALSE
INVARIANTS
  OneOpenPerGrouping
  ReceiptsAgree
  OpenKeepsRepository
PROPERTIES
  ImplementsLedger
  EveryRequestAnswered
