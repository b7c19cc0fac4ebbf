CONSTANTS
  coast = coast
  depth = depth
  zone = zone
  Features <- MCFeatures
  FileOrder <- MCFileOrder
  Lup <- MCLup
  LastLevel = 3
  Nodes = {1, 2}
  Edges = {1, 2}
  EdgeSize <- MCEdgeSize
  Topologies <- MCTopologies
  Paths <- MCPaths
  Categories = {"base", "other"}
  NoshowSets <- MCNoshowSets
  HiddenSets <- MCHiddenSets
  Unset = 2
  MaxChanges = 1
SPECIFICATION Spec
INVARIANTS TypeOK BufferIsExact DrawsWhatIsDescribed ChainIsOneContour OwnersDraw ListedOnce
CHECK_DEADLOCK FALSE
