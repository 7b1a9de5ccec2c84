SPECIFICATION FairExchangeSpec
CONSTANTS
  Runs = {r1}
  t1 = t1
  t2 = t2
  Tools = {t1, t2}
  NoTool = NoTool
  Conversations <- Replays
  MaxIterations = 3
  MaxToolCalls = 3
  MaxBatch = 2
INVARIANTS
  OnlyReadOnlyToolsSent
  LimitsKept
  ModelSeesEveryResult
  RefusedBatchNeverStarted
  ModelSeesWhatWasDone
  CarriedOutOnce
PROPERTIES
  RunsEndWithoutOneC
CHECK_DEADLOCK FALSE
