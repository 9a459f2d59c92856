SPECIFICATION FairSpec
CONSTANTS
  Vectors = {33, 34}
  TestVector = 33
  Pages = {stack, table}
  SerialSize = 3
  MaxInject = 3
  MaxNmi = 1
  MaxHostIrq = 1
  MaxFail = 1
INVARIANTS
  Conserved
  EntryAccepted
  IfRespected
PROPERTIES
  EveryIrqDelivered
