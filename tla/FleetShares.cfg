SPECIFICATION Spec
CONSTANTS
  Machines <- MCMachines
  Weights <- MCWeights
  OwnLimits <- MCOwnLimits
  Ceiling = 3
  Spare = 1
  MaxStarted = 4
INVARIANTS
  QuotaRule
  NobodyTakesMore
  StartsBounded
  BarrierReachableEqual
CHECK_DEADLOCK FALSE
