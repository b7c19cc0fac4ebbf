SPECIFICATION Spec
CONSTANTS
  Ids = {a, b}
  Systems = {"pc"}
  MaxEd = 4
  BaseEds = {1, 4}
  Crashes = TRUE
  Torn = FALSE
  CopyFails = TRUE
  Skips = TRUE
  BaseInterrupts = FALSE
INVARIANTS TypeOK EntriesKeepUp
PROPERTY FinishedIsComplete
