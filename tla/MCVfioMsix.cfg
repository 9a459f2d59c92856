SPECIFICATION MsixSpec
CONSTANTS
  Bars <- MCBars
  BarSizes <- MCBarSizes
  Is64 <- MCIs64
  TableBar = 4
  Vectors = {v1, v2}
  Messages <- MCMessages
  SlowPaths = {TRUE, FALSE}
  NoVector = NoVector
INVARIANTS
  BarsDecode
  MaskAgrees
  MessagesAsProgrammed
PROPERTIES
  EveryInterruptArrives
