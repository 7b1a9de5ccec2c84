SPECIFICATION SmallSpec
CONSTANTS
  None = None
  Sessions = {s1, s2}
  Campaigns = {c1, c2}
  Characters = {p1, p2}
  Locations = {l1}
  Minutes <- ZeroToTwo
  Shifts <- OneMore
  MaxCalls = 5
  MaxEdits = 1
INVARIANTS
  ChoicesWereValid
  NothingChosenArbitrarily
  UndisturbedContextIsTrue
  ClockAddsUp
CHECK_DEADLOCK FALSE
SYMMETRY AnyNames
