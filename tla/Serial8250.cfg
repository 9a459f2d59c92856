SPECIFICATION DrvFairSpec
CONSTANTS
  RxSize = 3
  BatchMax = 2
  MaxBytes = 4
  MaxTx = 2
INVARIANTS
  LineTellsTruth
PROPERTIES
  IsByteChannel
  BytesDelivered
  OutputDrains
CHECK_DEADLOCK FALSE
