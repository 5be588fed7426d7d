SPECIFICATION LogSpec
CONSTANTS
  Process = {p1, p2}
  MaxLogSize = 2
  MaxLogBackups = 2
  NoFile = NoFile
  MaxLine = 7
INVARIANTS LogTypeOK KeepsNewest KeepsOrder Bounded
CHECK_DEADLOCK FALSE
