CONSTANTS
  Sources <- One
  Again = {}
  Faulty = {}
  OneLetter <- MCOneLetter
  Reread = {}
  Edited <- One
  Reach = {1}
  Defaults <- MCDefaults
  Home <- MCHome
SPECIFICATION ParsedSpec
INVARIANTS NewLinesSetNothing
CHECK_DEADLOCK FALSE
