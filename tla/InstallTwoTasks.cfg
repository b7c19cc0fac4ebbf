SPECIFICATION Spec
CONSTANTS
  Charts = {c1}
  Threads = {t1}
  MaxEd = 3
  BaseEds <- OneBase
  MaxTasks = 2
  MaxDepth = 2
  MaxClicks = 6
  EagerUser = FALSE
  DiskFaults = FALSE
  Crashes = FALSE
  SlotMissing = FALSE
  Reselects = FALSE
  NoChart = NoChart
  NoThread = NoThread
  NoFile = NoFile
CHECK_DEADLOCK FALSE
INVARIANTS
  AppliedProvenGood
