SPECIFICATION Spec
CONSTANTS
  t = t
  c1 = c1
  c2 = c2
  p1 = p1
  p2 = p2
  none = none
  Clients = {t, c1, c2}
  Coming <- Ways
  PortOf <- Port
  Pairs <- Arguments
  NoColon = none
  Busy = {}
  ToSend <- Amounts
  NetBufSize = 2
  Cap = 1
  ProcLimit = 3
  MayReset <- Resetting
  MayStall <- Stalling
INVARIANTS TypeOK BytesInOrder
PROPERTIES DirectionsAreIndependent EndIsPassedOn EveryoneServed
CHECK_DEADLOCK FALSE
