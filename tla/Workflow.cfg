SPECIFICATION Spec
CONSTANTS
  None = None
  Graphs <- MCGraphs
  Governed = {"b", "q"}
  Call = {"c1"}
  MaxAttempts = 3
  MaxCheckpoints = 2
INVARIANTS
  TypeOK
  ListsMatchStatus
  AttemptMatchesStatus
  NoJoinForgotten
  RaceDecided
  OneBranchTaken
  EndAnnounced
  RunningHasWork
PROPERTY
  CommittedBeforeAdvance
CHECK_DEADLOCK FALSE
