SPECIFICATION Spec
CONSTANTS
  CPU = {c0}
  Parent = parent
  Child = child
  Thread = {t1, t2}
  Reaper = reaper
  Shadow = {}
  None = none
  MaxSleep = 2
  MaxLag = 0
PROPERTIES ScanWakesAllDue
CHECK_DEADLOCK FALSE
