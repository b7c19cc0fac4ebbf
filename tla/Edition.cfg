SPECIFICATION Spec
CONSTANTS
  Years = {2000, 2020, 2021}
  Bases = {1, 2, 99}
  Updates = {0, 1, 10, 99}
INVARIANTS StaleIffBehind
PROPERTY UpdateFitsBase
