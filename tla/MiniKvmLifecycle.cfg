SPECIFICATION FairSpec
CONSTANTS
  Threads = {t1, t2}
  Setters = {t1, t2}
  Regions = {r1, r2}
  Objs = {x1, x2, x3}
  NoThread = NoThread
  NoRegion = NoRegion
  NoObj = NoObj
INVARIANTS
  NoUseAfterFree
  SingleVcpu
  PinsAccounted
PROPERTIES
  AbandonedIsFreed
CHECK_DEADLOCK FALSE
