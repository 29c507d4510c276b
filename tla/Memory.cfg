SPECIFICATION Spec
CONSTANTS
  Segment <- Firmware
  KernelLimit = 4
  PageSize = 2
  MAX_INIT_NODES = 3
  Size = {0, 1, 3, 4}
  MmAlign = {0, 1, 4, 8}
  MmLimit = {17, 99}
  Thread = {t1, t2}
  Arena = {a1, a2}
  Request = {1, 4, 11}
  Align = 2
  Header = 2
  INIT_BLOCK_SIZE = 12
  MaxApBoots = 1
  NoArena = none
  Item = {v1, v2}
  Null = null
  InitCap = 1
  Growth = 2
  ListLimit = 5
  Word = 8
  Key = {0, 1, 2, 4}
  Value = {v1, v2}
  Absent = absent
  Buckets = {1, 2, 3}
SYMMETRY Symmetry
INVARIANTS PagesSound ArenasSound
PROPERTIES HonoursRequest ImplementsPromise ImplementsTable ImplementsDictionary
CHECK_DEADLOCK FALSE
