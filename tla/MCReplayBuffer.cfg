SPECIFICATION Spec
CONSTANTS
  Configs <- MCConfigs
  Rewards = {0, 1}
INVARIANTS
  StalenessBounded
  Population
  Accounted
  SleepsIdle
  NoOrphanRows
PROPERTIES
  Termination
