SPECIFICATION Spec
CONSTANTS
  CPU = {c0, c1}
  Parent = parent
  Child = child
  Thread = {}
  Reaper = reaper
  Shadow = {s1}
  None = none
  MaxSleep = 1
  MaxLag = 0
CHECK_DEADLOCK FALSE
INVARIANTS OnePlace NoLostWakeup DeadStayDead
