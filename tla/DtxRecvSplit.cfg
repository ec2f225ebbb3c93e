SPECIFICATION Spec
CONSTANTS
  Channels = {c1, c2}
  Messages <- MCSplitMessages
  MaxMsgs = 3
  U32 = 16
  SplitHeaders = TRUE
  Breaks = {"eof"}
INVARIANTS TailsInOrder
