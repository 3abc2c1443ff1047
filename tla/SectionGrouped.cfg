\* Versions 5x and 6x, with fields of two and one bits.
CONSTANTS
  Grouped = TRUE
  CtrlSize = 4
  ReuseSize = 2
  InsSize = 4
  LowSize = 1
  HighSize = 1
  PadIns = 2
  PadCtrl = 1
  Kernels <- MCKernels
  NewCodes <- Extremes
SPECIFICATION Spec
INVARIANTS InstructionsKept CodesKept OffsetsFind
