SPECIFICATION Spec
CONSTANTS
  w1 = w1
  a1 = a1
  c1 = c1
  c2 = c2
  Submissions = {1, 2}
  Web = {w1}
  Office = {a1}
  Chains = {c1, c2}
  AccountTypes = {"business"}
  MaxRetries = 0
  MaxRequests = 2
CHECK_DEADLOCK FALSE
SYMMETRY Symmetry
INVARIANTS TypeOK VerifiedWasApproved PendingHasSubmission 
