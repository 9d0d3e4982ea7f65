SPECIFICATION DeploySpec
CONSTANTS
  Hosts = {h1}
  Deployments = {d1, d2}
INVARIANT
  RacingIsHarmless
CHECK_DEADLOCK FALSE
