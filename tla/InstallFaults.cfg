SPECIFICATION Spec
CONSTANTS
  Charts = {c1}
  Threads = {t1, t2}
  MaxEd = 2
  BaseEds <- OneBase
  MaxTasks = 1
  MaxDepth = 2
  MaxClicks = 5
  EagerUser = TRUE
  DiskFaults = TRUE
  Crashes = TRUE
  SlotMissing = TRUE
  Reselects = TRUE
  NoChart = NoChart
  NoThread = NoThread
  NoFile = NoFile
CHECK_DEADLOCK FALSE
INVARIANTS
  CommittedIsDurable
  IInv

