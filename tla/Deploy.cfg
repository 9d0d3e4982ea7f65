SPECIFICATION DeploySpec
CONSTANTS
  Hosts = {h1}
  Deployments = {d1, d2, d3}
INVARIANT
  DeployedRunnable
SYMMETRY
  AnyDeployment
CHECK_DEADLOCK FALSE
