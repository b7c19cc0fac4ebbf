SPECIFICATION Spec
CONSTANTS
  Charts = {c1}
  Quantities = 2
  Rooms = {1, 2}
  Others = {"sglX"}
  Dongles = {"sgl", "sglX"}
  Failures = {"lost", "error"}
  MaxUuid = 2
  MaxKeys = 2
  Withdraws = TRUE
  Resets = TRUE
  Unplugs = FALSE
INVARIANTS TypeOK SlotIsForName ActiveSlotExists SlotsAreDistinct RecordsAreTrue
PROPERTY OnlyRefusalsForget
CHECK_DEADLOCK FALSE
