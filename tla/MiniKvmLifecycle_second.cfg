SPECIFICATION FairSpec
CONSTANTS
  Threads = {t1, t2}
  Setters = {t1, t2}
  Regions = {r1, r2}
  Objs = {x1}
  NoThread = NoThread
  NoRegion = NoRegion
  NoObj = NoObj
PROPERTIES
  SlotSetOnce
CHECK_DEADLOCK FALSE
