SPECIFICATION Spec
CONSTANTS
  Charts = {c1}
  Quantities = 1
  Rooms = {1}
  Others = {}
  Dongles = {"sgl", "sglX"}
  Failures = {}
  MaxUuid = 1
  MaxKeys = 2
  Withdraws = FALSE
  Resets = FALSE
  Unplugs = FALSE
INVARIANT InstalledIsSaved
CHECK_DEADLOCK FALSE
