CONSTANTS
  Sources <- MCSources
  Again <- MCAgain
  Faulty <- MCFaulty
  OneLetter <- MCOneLetter
  Reread <- MCReread
  Edited <- MCEdited
  Reach = {1, 2, 4}
  Defaults <- MCDefaults
  Home <- MCHome
SPECIFICATION ParsedSpec
INVARIANTS OnlyFaultyFail LabelsLand SymbolsCoverKernels FileMatchesHeaders SegmentsCover RelocationsComplete InfoIsCurrent RoundTrip JumpsFollowEdits
