SPECIFICATION Spec
CONSTANTS
  n1 = n1
  n2 = n2
  w1 = w1
  w2 = w2
  t1 = t1
  t2 = t2
  t3 = t3
  v1 = v1
  v2 = v2
  None = None
  Phones = {1, 2}
  Numbers = {n1, n2}
  Web = {w1}
  Tasks = {t1, t2, t3}
  Sids = {v1, v2}
  MaxTime = 1
  SendLimit = 1
  FailedWindow = 2
  FailedCount = 2
  SessionLifetime = 0
CHECK_DEADLOCK FALSE
SYMMETRY Symmetry
INVARIANTS TypeOK VerifiedWasApproved PendingIsOwn
 
