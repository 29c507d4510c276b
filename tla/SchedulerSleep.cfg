SPECIFICATION FairSpec
CONSTANTS
  CPU = {c0}
  Parent = parent
  Child = child
  Thread = {t1}
  Reaper = reaper
  Shadow = {}
  None = none
  MaxSleep = 2
  MaxLag = 0
PROPERTIES SleepersWake
CHECK_DEADLOCK FALSE
