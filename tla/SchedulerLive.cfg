SPECIFICATION FairSpec
CONSTANTS
  CPU = {c0, c1}
  Parent = parent
  Child = child
  Thread = {}
  Reaper = reaper
  Shadow = {}
  None = none
  MaxSleep = 1
  MaxLag = 0
CHECK_DEADLOCK FALSE
PROPERTIES ExitCompletes WaitReturns
