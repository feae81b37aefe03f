SPECIFICATION Spec
CONSTANTS
  Servers = {s1, s2, s3}
  Initial = {s1}
  Requests = {r1, r2, r3}
  NoServer = NoServer
  FullDeterminism = FALSE
SYMMETRY Symmetry
INVARIANTS
  TypeOK
  NeverOvercounts
  ExactUnlessReadded
