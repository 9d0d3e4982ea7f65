SPECIFICATION FairSpec
CONSTANTS
  Machines <- MCMachines
  Weight <- MCWeight
  Total = 2
  Settle = TRUE
  Bounded = TRUE
  EarlyTick = TRUE
  LateMessages = FALSE
INVARIANTS
  SettledUnlessMasked
  BeliefCatchesUp
PROPERTIES
  FinishedLeavesNobody
  HostsKeepPromise
  BarrierOpens
  RunEndsWithViewers
CHECK_DEADLOCK FALSE
