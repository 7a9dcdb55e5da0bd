SPECIFICATION Spec
CONSTANTS
  app1 = app1
  app2 = app2
  u1 = u1
  u2 = u2
  d1 = d1
  d2 = d2
  web1 = web1
  c1 = c1
  c2 = c2
  a1 = a1
  a2 = a2
  None = None
  Apps = {app1, app2}
  Users = {u1, u2}
  Deposits = {d1, d2}
  Amounts = {1, 2}
  AmountOf <- MCAmountOf
  Web = {web1}
  Workers = {c1}
  Admins = {a1}
  MaxQueued = 2
  CanCrash = TRUE
SYMMETRY AppSymmetry
CHECK_DEADLOCK FALSE
INVARIANTS TypeOK 
PROPERTY Implements
