SPECIFICATION FairSpec
CONSTANTS
  Standalone = {}
  Hybrid = {h}
  Requests = {r1, r2}
  NoServer = NoServer
  Budget = 2
  PartialRollout = TRUE
  Dynamic = TRUE
  Rebalance = FALSE
  ValidateModes = {FALSE}
  MaxTurns = 1
  MaxVersion = 2
INVARIANTS
  ServersWhileWaiting
PROPERTY
  RequestsAnswered
CHECK_DEADLOCK FALSE
