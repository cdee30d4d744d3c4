SPECIFICATION Spec
CONSTANTS
  None = None
  Graphs <- MCLoopGraphs
  Governed = {}
  Call = {"c1"}
  MaxAttempts = 3
  MaxCheckpoints = 2
INVARIANT
  ExitLeavesLoop
CHECK_DEADLOCK FALSE
