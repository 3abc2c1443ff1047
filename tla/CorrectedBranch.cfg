SPECIFICATION LaunchSpec
CONSTANTS
  N = 4
  r = r
  pr = pr
  RZ = RZ
  Regs <- MCRegs
  Keys <- MCKeys
  Latency <- MCLatency
  SlotCount = 2
  MaxStall = 2
  Kernels <- Skipping
  MinMargin <- MCMinMargin
  MaxShare = 2
  Passes = 1
INVARIANTS
  CorrectedIsSafe
CHECK_DEADLOCK FALSE
