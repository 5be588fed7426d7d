SPECIFICATION EmbedderFairSpec
CONSTANTS
  File = {p1, p2, p3}
  None = None
  MaxVectors = 2
  Attempts = 2
  MaxChanges = 2
  MaxRestarts = 1
INVARIANTS EmbedderTypeOK StoredIsNotRedone
PROPERTIES IndexedIsEmbedded Rests
CHECK_DEADLOCK FALSE
