CONSTANTS
  Sources <- MCSources
  Again <- MCAgain
  Faulty <- MCFaulty
  OneLetter <- MCOneLetter
SPECIFICATION Spec
INVARIANTS ExitOffsetsAreCurrent
