SPECIFICATION Spec
CONSTANTS
  None = None
  Entry = {"e1", "e2"}
  Rank <- MCRank
  AcceptedAt <- MCAcceptedAt
  Scoped = {"e1"}
  activeCapacity = 1
  Lease = {"l1"}
  MaxRestarts = 0
INVARIANT
  SuspendedWillBeRequeued
CHECK_DEADLOCK FALSE
