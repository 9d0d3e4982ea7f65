SPECIFICATION Spec
CONSTANTS
  Count = 2
  Spare = 1
  Retries = 1
INVARIANTS
  CrashLeavesRecord
CHECK_DEADLOCK FALSE
