SPECIFICATION FairSpec
CONSTANTS
  Num = 2
  IdxMod = 4
  MaxReq = 3
  MaxCut = 3
  MaxResets = 0
PROPERTIES
  Completed
CHECK_DEADLOCK FALSE
