SPECIFICATION LiveSpec
CONSTANTS
  P = P
  S = S
  W1 = W1
  W2 = W2
  l1 = l1
  Callers <- MCCallers
  Rank <- MCRank
  Roots <- MCRoots
  Kids <- MCKids
  Answers <- MCAnswers
  Streamers = {W2}
  Leases = {l1}
  Capacity = 1
  MaxTurns = 2
  ChildTurns = 1
  Ceiling = 1
  Estimates <- MCEstimates
  ExtraUnits = 0
  MaxBatch = 2
  MaxRuns <- MCMaxRuns
  Abortable = {S}
  MaxUpsets = 1
INVARIANTS
  TypeOK
  LaneCapacity
  NoLostWakeup
  AbortBoundsWork
  
PROPERTIES
  NoOvertaking
  EveryRunReturns
CHECK_DEADLOCK FALSE
