SPECIFICATION FairSpec
CONSTANTS
  Tree <- MCTree
  Runs = {1, 2}
  Root <- MCRoot
  Workers = 2
INVARIANTS CountersAreRight ReportIsFinal NothingIsMissed StopsSoon
PROPERTY RunsEnd
CHECK_DEADLOCK FALSE
