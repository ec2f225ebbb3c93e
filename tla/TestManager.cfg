SPECIFICATION FairSpec
CONSTANTS
  Versions = {11, 12}
  Chatter = {"log"}
  MaxChatter = 1
  MaxOutput = 1
  MaxLate = 1
  MayClose = TRUE
CHECK_DEADLOCK FALSE
INVARIANTS TypeOK ConfAnswersReady AnsweredOnce NoAnswerLeftBehind
PROPERTIES TestRuns EverythingHeard
