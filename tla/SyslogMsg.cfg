SPECIFICATION FairSpec
CONSTANTS
  BufSize = 4
  U16 = 16
  MaxRecords = 3
  MaxLength = 11
CHECK_DEADLOCK FALSE
INVARIANTS TypeOK FitsBlock RecordsStayWhole
PROPERTY AppendReturns
