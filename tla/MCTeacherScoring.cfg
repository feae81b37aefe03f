SPECIFICATION Spec
CONSTANTS
  NumTeachers = 3
  DefaultName = 3
  Abilities <- MCAbilities
  Jobs <- MCJobs
INVARIANTS
  TypeOK
  Lockstep
  ScoredByTeacher
  CandidatesMatch
PROPERTY
  Termination
CHECK_DEADLOCK FALSE
