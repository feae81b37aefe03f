SPECIFICATION Spec
CONSTANTS
  Configs <- MCConfigs
  Samples = 13
CHECK_DEADLOCK FALSE
INVARIANTS
  CycleSupplied
  EventLoopFree
PROPERTIES
  WaitReturns
