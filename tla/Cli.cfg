SPECIFICATION FairCliSpec
CONSTANTS
  Scenarios = 1
  Modes <- Both
  Repeat = 1
  MaxRuns = 2
  Others = TRUE
  Tools = {t1, t2}
  Blank = blank
INVARIANTS
  CompletionsAccountedFor
  UndisturbedMeasurementsAreTrue
  CallOutcomeIsTold
  ReportIsTrue
  FailureAddsNothing
PROPERTIES
  RecordsAreDurable
  CommandsEnd
CHECK_DEADLOCK FALSE
