SPECIFICATION FairSpec
CONSTANTS
  Num = 2
  IdxMod = 4
  MaxReq = 4
  MaxCut = 3
  MaxResets = 1
INVARIANTS
  ServedOnceInOrder
  CursorsInOrder
PROPERTIES
  Served
CHECK_DEADLOCK FALSE
