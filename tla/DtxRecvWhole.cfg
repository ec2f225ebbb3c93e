SPECIFICATION FairSpec
CONSTANTS
  Channels = {c1, c2}
  Messages <- MCMessages
  MaxMsgs = 3
  U32 = 16
  SplitHeaders = FALSE
  Breaks = {"eof", "err"}
INVARIANTS TypeOK CounterNotBehind OnlyLastDamaged
PROPERTIES ImplementsMessages EveryMessageReturned
