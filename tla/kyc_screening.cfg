SPECIFICATION FairSpec
CONSTANTS
  w1 = w1
  a1 = a1
  c1 = c1
  c2 = c2
  Submissions = {1}
  Web = {w1}
  Office = {a1}
  Chains = {c1}
  AccountTypes = {"individual"}
  MaxRetries = 1
  MaxRequests = 3
CHECK_DEADLOCK FALSE
INVARIANTS CheckHasDocument
PROPERTIES ScreeningEnds
