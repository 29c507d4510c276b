SPECIFICATION FairSpec
CONSTANTS
  c0 = c0
  c1 = c1
  CPU = {c0, c1}
  VPage = {v1}
  IPage = {i1}
  Caller = {f1}
  Id = {0, 1}
  ApicId <- Ids
  ArbId <- Ids
INVARIANTS TypeOK NoStaleTranslation NoWalkDuringDrain
PROPERTIES BarrierComesDown FreeCompletes
CHECK_DEADLOCK FALSE
