SPECIFICATION Spec
CONSTANTS
  NumTeachers = 3
  DefaultName = 3
  Abilities <- MCAbilities
  Jobs <- Rewards
INVARIANT
  GrpoFromVerifier
CHECK_DEADLOCK FALSE
