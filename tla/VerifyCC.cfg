SPECIFICATION LaunchSpec
CONSTANTS
  N = 4
  r = r
  q = q
  pr = pr
  RZ = RZ
  Regs <- MCRegs
  Keys <- MCKeys
  Latency <- MCLatency
  SlotCount = 2
  MaxStall = 1
  Kernels <- MCKernels
INVARIANTS
  EdgesArePathDependences
  VerdictIsExact
  VerifiedIsSafe
CHECK_DEADLOCK FALSE
