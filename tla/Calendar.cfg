SPECIFICATION Spec
CONSTANTS
  Walks <- OutsideEleasis
INVARIANTS
  DatesLeadBack
PROPERTIES
  FollowsTheCalendar
CHECK_DEADLOCK FALSE
