SPECIFICATION FairSpec
CONSTANTS
  N = 5
  r = r
  q = q
  s = s
  RZ = RZ
  Regs <- MCRegs
  Keys <- MCKeys
  Latency <- MCLatency
  SlotCount = 2
  MaxStall = 2
  Kernels <- MCKernels
  MinMargin <- MCMinMargin
  MaxShare = 2
  Passes = 2
INVARIANTS
  SelfCheckNeverFails
  RejectedOnlyBeyondCapacity
  QueuesStayConfirmed
PROPERTIES
  CommitRepairs
  Idempotent
  AlwaysFinishes
CHECK_DEADLOCK FALSE
