SPECIFICATION Spec
CONSTANTS
  SustainSamples = 2
  PeerJoinAllowance = 3
  MinStartInterval = 2
  MinStart = 2
  StartJitter = 1
  PriorCost = 1
  SteadyCost = 0
  MeasuredCosts = {2}
  MeasuredSteady = {1}
  CostCeiling = 2
  Modes = {"ramp"}
  RampStarts = {1, 2}
  RampStep = 1
  RampMax = 2
  Spare = 1
  RampInterval = 3
  Hold = 2
  Duration = 1
  MaxRun = 4
  BootstrapTimeout = 3
  MaxMishaps = 2
  StopTime = 2
  MaxTicks = 5
INVARIANTS
  StopConditionIsAResult
CHECK_DEADLOCK FALSE
