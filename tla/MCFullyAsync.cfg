SPECIFICATION FairSpec
CONSTANTS
  TotalRolloutSteps = 5
  Required = 1
  Trigger = 2
  StalenessPercent = 50
  Capacity = 1
  PendingCap = 1
  SaveFreq = 2
  TestFreq = 2
  MaxFailures = 1
INVARIANTS
  TypeOK
  ExposureBound
  SamplesAccounted
  WeightsMatchVersion
PROPERTY
  Termination
