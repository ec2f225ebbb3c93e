SPECIFICATION FairSpec
CONSTANTS
  Kinds <- AllKinds
  MaxOps = 4
  MaxNotices = 3
  MayRefuse = TRUE
  MayClose = TRUE
CHECK_DEADLOCK FALSE
INVARIANTS TypeOK NothingLeftOver InStep IdsIncrease
PROPERTIES CallsReturn
