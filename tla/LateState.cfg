SPECIFICATION Spec
CONSTANTS
  Machines <- MCMachines
  Weight <- MCWeight
  Total = 2
  Settle = TRUE
  Bounded = TRUE
  EarlyTick = FALSE
  LateMessages = TRUE
INVARIANTS
  LostCountersZero
CHECK_DEADLOCK FALSE
