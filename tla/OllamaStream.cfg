SPECIFICATION FairSpec
CONSTANTS
  None = None
  MaxLines <- FourLines
  MaxClock = 2
INVARIANTS
  EndsWithItsOnlyFinalChunk
  AnswerIsWhole
  MetricsFitTheChunks
PROPERTIES
  WholeAnswersAreAccepted
CHECK_DEADLOCK FALSE
