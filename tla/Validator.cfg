SPECIFICATION VSpec
SYMMETRY MCSymmetry
CONSTANTS
  Ids = {a, b}
  Systems = {"pc", "sgl"}
  MaxEd = 2
  BaseEds = {1}
  Crashes = TRUE
  Torn = TRUE
  CopyFails = FALSE
  Skips = FALSE
  BaseInterrupts = TRUE
  ServerFails = TRUE
INVARIANTS MapsAgree RasterOpensIfPossible CompleteValidates ValidIsUsable
PROPERTY BaseSetRepairs
