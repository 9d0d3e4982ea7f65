SPECIFICATION FairSpec
CONSTANTS
  Mirrors = {m1}
  MaxInFlight = 1
  FailureLimit = 2
  MaxSegments = 3
  WindowSize = 2
  Runway = 2
  UseRegistry = TRUE
  Modes <- MCModes
INVARIANTS
  NoHoleAhead
  CatalogKeepsOthers
PROPERTIES
  FeedPromise
  EndsDespiteMirrors
CHECK_DEADLOCK FALSE
