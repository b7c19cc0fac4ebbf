SPECIFICATION Spec
CONSTANTS
  Charts = {c1, c2}
  Threads = {t1}
  MaxEd = 2
  BaseEds <- OneBase
  MaxTasks = 1
  MaxDepth = 2
  MaxClicks = 6
  EagerUser = FALSE
  DiskFaults = FALSE
  Crashes = FALSE
  SlotMissing = FALSE
  Reselects = FALSE
  NoChart = NoChart
  NoThread = NoThread
  NoFile = NoFile
CHECK_DEADLOCK FALSE
INVARIANTS
  OneJob
  BusyWhileWorking
  CancelHasTarget
  PanelUsable
PROPERTIES
  CommitComplete
