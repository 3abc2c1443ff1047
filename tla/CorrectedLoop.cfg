SPECIFICATION LaunchFairSpec
CONSTANTS
  N = 4
  r = r
  pr = pr
  RZ = RZ
  Regs <- MCRegs
  Keys <- MCKeys
  Latency <- MCLatency
  SlotCount = 2
  MaxStall = 2
  Kernels <- Looping
  MinMargin <- MCMinMargin
  MaxShare = 2
  Passes = 1
PROPERTIES
  ProtectionNeverRemoved
CHECK_DEADLOCK FALSE
