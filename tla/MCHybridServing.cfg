SPECIFICATION Spec
CONSTANTS
  Standalone = {a}
  Hybrid = {h}
  Requests = {r1, r2}
  NoServer = NoServer
  Budget = 2
  PartialRollout = TRUE
  Dynamic = TRUE
  Rebalance = TRUE
  ValidateModes = {FALSE, TRUE}
  MaxTurns = 1
  MaxVersion = 2
SYMMETRY Symmetry
INVARIANTS
  NoUpdateWhileServing
  WithinBudget
  TrainsAlone
  PoolIsFresh
CHECK_DEADLOCK FALSE
