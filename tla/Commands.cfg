SPECIFICATION Spec
CONSTANTS
  d1 = d1
  d2 = d2
  Null = Null
  Devices = {d1, d2}
  CmdLines <- AllLines
  DashWords <- Dashes
  MaxEvents = 2
  Samples = 2
  RemoteFile <- Blocks
  Parts = {0, 7, 14, 205}
  HourWord = 65536
INVARIANTS TypeOK WordsAreRead OneDeviceAtATime OutputIsExact AnswersAreRead
PROPERTIES Finishes
CHECK_DEADLOCK FALSE
