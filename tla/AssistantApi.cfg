SPECIFICATION FairApiSpec
CONSTANTS
  Runs = {r1, r2}
  Tools = {t1}
  NoTool = NoTool
  Conversations <- OneQuestion
  MaxIterations = 2
  MaxToolCalls = 1
  MaxBatch = 2
INVARIANTS
  ClientsOpenWhileAtWork
PROPERTIES
  KeepsPromise
  StopsClean
  EveryRequestIsAnswered
CHECK_DEADLOCK FALSE
