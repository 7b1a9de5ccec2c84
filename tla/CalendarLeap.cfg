SPECIFICATION Spec
CONSTANTS
  Walks <- LeapYearByDays
INVARIANTS
  DatesAreAccepted
CHECK_DEADLOCK FALSE
