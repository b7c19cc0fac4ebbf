SPECIFICATION FairSpec
CONSTANTS
  a = a
  b = b
  Charts = {a, b}
  NoChart = NoChart
  Library <- MCLibrary
  MaxServers = 2
  Tries = 1
  FailLimit = 1
CHECK_DEADLOCK FALSE
INVARIANTS TypeOK OneServer CoverageOnce ObjectsArePrefix RightOutcome
PROPERTY InitReturns
