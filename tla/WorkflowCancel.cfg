SPECIFICATION Spec
CONSTANTS
  None = None
  Graphs <- MCBranchGraphs
  Governed = {}
  Call = {"c1"}
  MaxAttempts = 3
  MaxCheckpoints = 2
INVARIANT
  CanceledIsTerminal
CHECK_DEADLOCK FALSE
