SPECIFICATION Spec
CONSTANTS
  Roles <- MCRoles
  Keeps <- KeepTwo
  steps_per_epoch = 2
  total_epochs = 3
  total_training_steps = 5
  save_freq = 2
  critic_warmup = 2
  MaxCrashes = 2
INVARIANTS
  TrackerComplete
  BatchesOnce
  DiskBounded
PROPERTIES
  Termination
