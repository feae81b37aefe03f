SPECIFICATION QueueSpec
CONSTANTS
  Samples = {s1, s2}
  Consumers = {c1, c2}
  MaxQueueSize = 2
  MaxPuts = 4
  MaxValQueue = 1
INVARIANTS
  QueueTypeOK
  NoLostWakeup
  Accounting
  HoldsNewest
