SPECIFICATION Spec
CONSTANTS
  c1 = c1
  c2 = c2
  c3 = c3
  Clients = {c1, c2, c3}
  Request <- MCRequest
  Room <- MCRoom
  Timeout = 1
  MaxStreams = 2
  MayLeave = {c1}
INVARIANTS TypeOK AnswersAreWhole
PROPERTIES OnlyIdleAreTimedOut AnsweredInTime
CHECK_DEADLOCK FALSE
