SPECIFICATION MainSpec
CONSTANTS
  MemSizes <- MCMemSizes
  Kernels <- MCKernels
  InitrdSizes <- MCInitrdSizes
  CmdLens = {15}
  HostCpuids <- MCHostCpuids
  MaxSignals = 2
INVARIANTS
  GuestFindsItsMemory
  TerminalRestored
  StopsAfterOneExit
PROPERTIES
  StopRequestEnds
CHECK_DEADLOCK FALSE
