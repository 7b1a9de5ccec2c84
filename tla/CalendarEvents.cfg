SPECIFICATION Spec
CONSTANTS
  s1 = s1
  s2 = s2
  here = here
  abroad = abroad
  None = None
  Sessions = {s1, s2}
  Campaigns = {here, abroad}
  Events = {1, 2, 3}
  Times <- Minute
  NewTimes <- Called
  FormTimes <- Entered
  Editable = {1}
INVARIANTS
  AgendaIsTrue
  PagesAreWhole
PROPERTIES
  StatusChangesAreDue
CHECK_DEADLOCK FALSE
SYMMETRY AnyOrder
