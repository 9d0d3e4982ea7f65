SPECIFICATION Spec
CONSTANTS
  SustainSamples = 2
  PeerJoinAllowance = 3
  MinStartInterval = 2
  MinStart = 2
  StartJitter = 0
  PriorCost = 1
  SteadyCost = 0
  MeasuredCosts = {2}
  MeasuredSteady = {}
  CostCeiling = 2
  Modes = {"cohort"}
  RampStarts = {1}
  RampStep = 1
  RampMax = 2
  Spare = 1
  RampInterval = 3
  Hold = 2
  Duration = 1
  MaxRun = 3
  BootstrapTimeout = 3
  MaxMishaps = 1
  StopTime = 2
  MaxTicks = 4
INVARIANTS
  BreachesAreSticky
CHECK_DEADLOCK FALSE
