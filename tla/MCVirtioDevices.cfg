SPECIFICATION Spec
CONSTANTS
  Num = 5
  MaxSegs = 4
  MemSize = 4
  Wrap = 16
  Chains <- MCChains
  CON_IN_SZ = 3
  FileSize = 5
  MaxOps = 3
  MaxPosted = 2
  MaxProbes = 2
INVARIANTS
  BringUpSucceeds
  EchoInOrder
  EchoNotStuck
  StatusIsTrue
CHECK_DEADLOCK FALSE
