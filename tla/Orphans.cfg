SPECIFICATION ProcessesSpec
CONSTANTS
  MaxPid = 4
  ACpu = {0, 1}
  User = {"u1"}
  FirstUser = "u1"
  Space = {11, 12, 13}
  AFrame = {1, 2, 3}
  APage = {1, 2}
  KEntry = {"text", "heap", "stacks"}
  KBoot = {"text"}
  Image = {1}
  MaxExecs = 0
  MaxSegs = 1
  PageSize = 2
  StackBase = 2
  SegSize = {1, 3}
  Perms = {"rx", "rw"}
  StringLists <- MCStringLists
  AuxSize = 32
PROPERTIES AllOrphansReaped
CHECK_DEADLOCK FALSE
