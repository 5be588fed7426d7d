SPECIFICATION FairSpec
CONSTANTS
  d1 = d1
  m2 = m2
  FirstFile <- MCFirstFile
  Dir = {d1, d2}
  Mode = {m1, m2}
  Detected = m1
  Handler = {h1, h2}
  None = None
  Torn = Torn
  ChanCap = 1
  MaxPosts = 2
  MaxRestarts = 1
  MaxErrors = 1
INVARIANTS CopiesAgree NoDirForgotten
PROPERTIES SavedDirsStay ModeSurvives AcceptedIsWatched
CHECK_DEADLOCK FALSE
