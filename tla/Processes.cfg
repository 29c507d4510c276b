SPECIFICATION ProcessesSpec
CONSTANTS
  MaxPid = 4
  ACpu = {0, 1}
  User = {"u1", "u2"}
  FirstUser = "u1"
  Space = {11, 12, 13}
  AFrame = {1, 2, 3}
  APage = {1, 2}
  KEntry = {"text", "heap", "stacks"}
  KBoot = {"text"}
  Image = {1}
  MaxExecs = 1
  MaxSegs = 3
  PageSize = 2
  StackBase = 8
  SegSize = {1, 3}
  Perms = {"rx", "rw"}
  StringLists <- MCStringLists
  AuxSize = 32
INVARIANTS FamilyExact MemoryPrivate SpacesSound ImageSound
PROPERTIES OrphansReaped
CHECK_DEADLOCK FALSE
