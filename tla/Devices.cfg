SPECIFICATION DevicesSpec
CONSTANTS
  Client = {c1, c2}
  Driver = driver
  Ports = 1
  num_com_slots = 2
  Lba = {1}
  MaxCalls = 1
  MaxErrors = 1
  Cpu = {0, 1, 2, 3}
  Bsp = 0
  Reader = {r1, r2}
  Byte = {"ESC", "BS", "NL", "[", "C", "D"}
  N = 3
  MAX_CSI_LEN = 1
  MaxCount = 2
  None = none
  NUM_LEGACY = 4
  COM1_IRQ = 1
  COM2_IRQ = 3
  IoApicLists <- MCIoApics
  OverrideLists <- MCOverrides
  NmiLists <- MCNmis
  SciInts = {2, 5}
  LastDev = 1
  LastFunc = 1
  McfgLists <- MCMcfg
  Topologies <- MCTopologies
  MaxDepth = 4
INVARIANTS SlotsExclusive IdsExact LinesExact NothingStuck PlatformReady
PROPERTIES ImplementsDisk LossOnlyInWindows ReaderServed
CHECK_DEADLOCK FALSE
