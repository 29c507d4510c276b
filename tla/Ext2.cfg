SPECIFICATION VolumeSpec
CONSTANTS
  Proc = {p1, p2}
  File = {1, 2}
  GroupOf <- TwoGroups
  DIRECT_BLOCKS = 1
  B = 2
  Groups = 3
  PerGroup = 4
  Meta = {0, 4}
  Offset = {1, 13, 29}
  Count = {2}
  MaxWrites = 3
  MaxErrors = 1
  None = none
  Opener = {o1, o2}
  OpenPaths <- MCPaths
  IGroups = 2
  IPerGroup = 5
  DirBlocks = 4
  DirSlots = 4
  MaxOpens = 2
  MaxMishaps = 1
  Nobody = Nobody
  Writer = Writer
SYMMETRY Symmetry
INVARIANTS BlocksExact ReadsBack NamesSound OpensSettle
PROPERTIES LostOnlyUnlocked EntriesStay
CHECK_DEADLOCK FALSE
