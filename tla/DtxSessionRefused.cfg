SPECIFICATION Spec
CONSTANTS
  Kinds <- Instruments
  MaxOps = 1
  MaxNotices = 0
  MayRefuse = TRUE
  MayClose = FALSE
CHECK_DEADLOCK FALSE
INVARIANT RefusedIsSeen
