SPECIFICATION FairSpec
CONSTANTS
  f1 = f1
  f2 = f2
  top = top
  sub = sub
  Path = {f1, f2}
  Excluded = {}
  Content = {c1, c2}
  Dir = {top, sub}
  Root = top
  dirOf <- MCDirOf
  NoFile = NoFile
  Off = Off
  Delay = 1
  MaxWatched = 1
  QueueCap = 1
  MaxChanges = 3
  MaxRestarts = 1
  MaxErrors = 1
INVARIANTS TypeOK Settled BatchIsTimed FlushTellsCache
CHECK_DEADLOCK FALSE
PROPERTY Converges
