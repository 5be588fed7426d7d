SPECIFICATION Spec
CONSTANTS
  d1 = d1
  Doc = {d1, d2}
  None = None
  Torn = Torn
  LegacyDb <- MCLegacyDb
  MaxStarts = 3
  MaxErrors = 2
INVARIANTS StampedIsComplete OldDataIsUsed
PROPERTY NothingIsOverwritten
CHECK_DEADLOCK FALSE
