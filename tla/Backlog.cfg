SPECIFICATION Spec
CONSTANTS
  None = None
  Entry = {"e1", "e2"}
  Rank <- MCRank
  AcceptedAt <- MCAcceptedAt
  Scoped = {"e1"}
  activeCapacity = 1
  Lease = {"l1", "l2"}
  MaxRestarts = 1
INVARIANTS
  TypeOK
  CapacityRespected
  NoLostKick
  NoWaiterForgotten
  RetryNeedsEarlierCommit
  ChainStaysValid
PROPERTIES
  IdleMeansIdle
  ResolvedIsFinal
CHECK_DEADLOCK FALSE
