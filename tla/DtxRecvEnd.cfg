SPECIFICATION FairSpec
CONSTANTS
  Channels = {c1, c2}
  Messages <- MCMessages
  MaxMsgs = 2
  U32 = 16
  SplitHeaders = FALSE
  Breaks = {"eof"}
PROPERTY GivesUpAtEnd
