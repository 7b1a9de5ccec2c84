SPECIFICATION OneCampaignSpec
CONSTANTS
  a = a
  b = b
  here = here
  abroad = abroad
  s1 = s1
  s2 = s2
  None = None
  Campaigns = {here, abroad}
  Entities = {a, b}
  Sessions = {s1, s2}
  Types = {"ally", "owns"}
  Comments = {"old", "new"}
  Asked <- Named
  Markable = {b}
  Movable = {b}
  Switchable = {"ally"}
INVARIANTS
  CallsTakeEffect
  ShownOnce
  ShownAtBothEnds
PROPERTIES
  CampaignsStayApart
CHECK_DEADLOCK FALSE
SYMMETRY AnyOrder
