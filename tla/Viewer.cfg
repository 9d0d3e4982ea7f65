SPECIFICATION FairSpec
CONSTANTS
  SegmentTicks = {2, 5}
  FetchTicks = {1, 5}
  MediaGrain = 4
  StallGrain = 3
  Runway = 4
  PeerLimit = 2
  Wanted = 2
  Duration = 5
  MaxMishaps = 1
  MaxTurns = 3
  MaxPipe = 0
  Trailing = 4
INVARIANTS
  WindowIsTrailing
PROPERTIES
  SummaryAgrees
  ReportsWhenTold
CHECK_DEADLOCK FALSE
