SPECIFICATION FairSpec
CONSTANTS
  MaxViewers = 2
  MaxStarts = 3
  Targets <- MCTargets
  Budgets <- MCBudgets
  Hold = TRUE
  InProcess = TRUE
  SpawnMayFail = TRUE
INVARIANTS
  TypeOK
  WithinTarget
  NoLostWakeup
  NoStrandedViewer
  ReportIsCurrent
PROPERTIES
  KeepsOldest
  HostPromise
  StopEmptiesMachine
CHECK_DEADLOCK FALSE
