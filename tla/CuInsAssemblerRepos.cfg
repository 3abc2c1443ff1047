\* A repository that learns from four samples, one of them wrong, and from two
\* other repositories.
CONSTANTS
  Samples <- MCSamples
  Others <- MCOthers
  Inputs <- MCInputs
  TrueCode <- MCTrueCode
  NoGuard = 1
  GuardPos = 8
  GuardSize = 2
  Word = 1024
  SignBit = 64
  Listing <- MCListing
  Unseen <- MCUnseen
  Hardware <- MCHardware
SPECIFICATION MCSpec
INVARIANTS AcceptsSpan AssemblesTruth ReplayLosesNothing PredCompletes
INVARIANTS LearnsHardware KeyFixesShape HalfIsNearest
PROPERTIES LearnedStays
\* The listing ends.
CHECK_DEADLOCK FALSE
