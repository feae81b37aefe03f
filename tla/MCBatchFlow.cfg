SPECIFICATION Spec
CONSTANTS
  TrainJobs <- MCTrainJobs
  ValJobs <- MCValJobs
  RewardKeys <- MCRewardKeys
INVARIANTS
  Aligned
  Balanced
  KeysNameColumns
PROPERTY
  Termination
CHECK_DEADLOCK FALSE
