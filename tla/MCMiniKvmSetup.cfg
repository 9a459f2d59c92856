SPECIFICATION SetupSpec
CONSTANTS
  CPUs = {c1, c2, c3}
  Unsupported = {c3}
  MaxFiles = 1
  Cpus = {c1, c2}
  Tasks = {t1, t2}
  Asids = {a1, a2}
  Ia32Emulation = TRUE
  Nobody = Nobody
INVARIANTS
  CleanWhenUnloaded
  HostStateCurrent
  KernelGsIsHosts
  ControlsSuffice
PROPERTIES
  OthersUndisturbed
