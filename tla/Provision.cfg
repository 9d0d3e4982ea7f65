SPECIFICATION FairSpec
CONSTANTS
  Count = 2
  Spare = 1
  Retries = 1
INVARIANTS
  NothingForgotten
  CleanIsClean
  ReadyMeansReady
PROPERTY
  AbortEnds
CHECK_DEADLOCK FALSE
