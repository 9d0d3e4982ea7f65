SPECIFICATION Spec
CONSTANTS
  Machines <- MCMachines
  Weight <- MCWeight
  Total = 2
  Settle = FALSE
  Bounded = TRUE
  EarlyTick = TRUE
  LateMessages = FALSE
INVARIANTS
  FinishedMeansFinished
CHECK_DEADLOCK FALSE
