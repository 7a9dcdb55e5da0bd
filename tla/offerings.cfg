SPECIFICATION Spec
CONSTANTS
  u1 = u1
  w1 = w1
  a1 = a1
  a2 = a2
  OfferingIds = {1, 2}
  Users = {u1}
  Web = {w1}
  Admins = {a1, a2}
  Terms <- MCTerms
  MaxTime = 2
  MaxRows = 1
  MaxForms = 4
CHECK_DEADLOCK FALSE
SYMMETRY Symmetry
INVARIANTS TypeOK RowsHaveOffering
PROPERTIES StatusFollowsPipeline ActiveOfferingsNest AcceptedAfterStart
