SPECIFICATION Spec
CONSTANTS
  SustainSamples = 2
  PeerJoinAllowance = 3
  MinStartInterval = 2
  MinStart = 2
  StartJitter = 1
  PriorCost = 1
  SteadyCost = 0
  MeasuredCosts = {2}
  MeasuredSteady = {}
  CostCeiling = 2
  Modes = {"ramp", "port-ceiling", "cohort", "settled", "flood"}
  RampStarts = {1, 2}
  RampStep = 1
  RampMax = 2
  Spare = 1
  RampInterval = 2
  Hold = 2
  Duration = 1
  MaxRun = 3
  BootstrapTimeout = 3
  MaxMishaps = 1
  StopTime = 1
  MaxTicks = 4
INVARIANTS
  StopHeld
  StaggerHolds
PROPERTIES
  HungAreOverdue
CHECK_DEADLOCK FALSE
