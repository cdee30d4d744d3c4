SPECIFICATION FairSpec
CONSTANTS
  None = None
  Entry = {"e1", "e2", "e3"}
  Rank <- MCRank
  AcceptedAt <- MCAcceptedAt
  Scoped = {"e1"}
  activeCapacity = 2
  Lease = {}
  MaxRestarts = 1
PROPERTY
  QueuedIsPromoted
CHECK_DEADLOCK FALSE
