SPECIFICATION FairSpec
CONSTANTS
  c1 = c1
  c2 = c2
  c3 = c3
  v1 = v1
  v2 = v2
  t1 = t1
  t2 = t2
  t3 = t3
  NoCpu = NoCpu
  NoVcpu = NoVcpu
  NoThread = NoThread
  Cpus = {c1, c2, c3}
  VCpus = {v1, v2}
  Threads = {t1, t2, t3}
  Creators = {t1, t3}
  Placements <- AllPlacements
INVARIANTS
  VmcsExclusive
  NoUndefinedOpcode
  GuestUsesOwnState
  LaunchStateAgrees
  NoStaleMapping
PROPERTY
  ClearCompletes
CHECK_DEADLOCK FALSE
