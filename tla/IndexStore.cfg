SPECIFICATION FairSpec
CONSTANTS
  p1 = p1
  p2 = p2
  c1 = c1
  c2 = c2
  h1 = h1
  h2 = h2
  Path = {p1, p2}
  Content = {c1, c2}
  Mtime = {0, 1}
  Hash = {h1, h2}
  contentHash <- MCHashOf
  Query <- MCQuery
  Caller = {w1, w2}
  NoRow = NoRow
  NoCaller = NoCaller
  NoRequest = NoRequest
  MaxRowid = 3
INVARIANTS CommittedConsistent Isolation
PROPERTIES ImplementsMap EveryCallReturns
