SPECIFICATION CacheSpec
CONSTANTS
  p1 = p1
  p2 = p2
  v1 = v1
  v2 = v2
  Path = {p1, p2}
  Value = {v1, v2}
  pathsOf <- MCPathsOf
  Key = {k1, k2, k3, k4}
  Node = {n1, n2, n3, n4}
  nil = nil
  NoEntry = NoEntry
  NoValue = NoValue
  MaxSize = 3
  TTL = 1
  MaxTime = 2
INVARIANT WellFormed
PROPERTY ImplementsLru
SYMMETRY NodesAreAlike
