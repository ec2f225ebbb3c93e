SPECIFICATION Spec
CONSTANTS
  d1 = d1
  d2 = d2
  Null = Null
  Devices = {d1, d2}
  CmdLines <- OneDetect
  DashWords <- Dashes
  MaxEvents = 2
  Samples = 2
  RemoteFile <- Blocks
  Parts = {0}
  HourWord = 65536
INVARIANT DetectStaysRunning
CHECK_DEADLOCK FALSE
