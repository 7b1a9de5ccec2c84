SPECIFICATION Spec
CONSTANTS
  c1 = c1
  c2 = c2
  k1 = k1
  k2 = k2
  d1 = d1
  d2 = d2
  d3 = d3
  None = None
  Documents = {d1, d2, d3}
  Characters = {c1, c2}
  Campaigns = {k1, k2}
  Owner <- TwoCampaigns
  Entries <- Few
  Minutes = {0}
  Sessions = 2
INVARIANTS
  PriceIsCharged
  SolventUnlessDisturbed
CHECK_DEADLOCK FALSE
SYMMETRY AnyOrder
