SPECIFICATION FairSpec
CONSTANTS
  s1 = s1
  s2 = s2
  Streams <- MCStreams
  Start = 1
  Ceiling = 2
  EpochAttempts = 2
  MaxMoves = 1
  MaxSegments = 1
INVARIANTS
  TargetShown
  Tally
  OnlyThisEpochsViewers
PROPERTIES
  TotalsNeverDrop
  QuitEnds
  FollowsPublisher
CHECK_DEADLOCK FALSE
