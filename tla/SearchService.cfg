SPECIFICATION Spec
CONSTANTS
  Key = {k1, k2}
  Path = {f1}
  Handler = {h1, h2}
  MaxSize = 1
  TTL = 1
  MaxTime = 3
  NoEntry = NoEntry
  NoValue = NoValue
  None = None
  MaxHandling = 1
  MaxWrites = 1
  MaxBulk = 1
SYMMETRY Symmetric
INVARIANTS BoundedStaleness NoGhostResults TotalCoversPage
CHECK_DEADLOCK FALSE
