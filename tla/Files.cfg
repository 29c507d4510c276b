CONSTANTS
  Proc = {p1, p2}
  Root = p1
  Path = {slash, a}
  Slash = slash
  File = {f1, f2, f3}
  MaxFd = 2
  MaxCalls = 3
  Cap = 4
  None = none
  Client = {c1, c2}
  RawPaths <- MCRaw
  RelPaths <- MCRel
  AtFds = {0, 2}
  Probes <- MCProbes
  Flags = {"wr", "creat"}
  Typists = {"ttyS0"}
  MaxFds = 4
  MaxLibCalls = 2
  NoHandle = NoHandle
SPECIFICATION FilesSpec
INVARIANTS FilesExact PathsExact OpsReturn
 
CHECK_DEADLOCK FALSE
