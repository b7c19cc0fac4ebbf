SPECIFICATION FairSpec
CONSTANTS
  Charts = {c1}
  Threads = {t1}
  MaxEd = 3
  BaseEds <- TwoBases
  MaxTasks = 1
  MaxDepth = 2
  MaxClicks = 7
  EagerUser = FALSE
  DiskFaults = FALSE
  Crashes = FALSE
  SlotMissing = FALSE
  Reselects = TRUE
  NoChart = NoChart
  NoThread = NoThread
  NoFile = NoFile
CHECK_DEADLOCK FALSE
INVARIANT
  AppliedProvenGood
PROPERTIES
  StoreSpec PanelComesBack
