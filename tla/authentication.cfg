SPECIFICATION Spec
CONSTANTS
  p1 = p1
  p2 = p2
  w1 = w1
  w2 = w2
  a1 = a1
  None = None
  Passwords = {p1}
  Web = {w1, w2}
  Office = {a1}
  MaxTokens = 3
  MaxTime = 2
  VerifyLifetime = 1
  VerifyCount = 1
  VerifyWindow = 2
  VerifyPause = 1
  ForgotLifetime = 1
  ForgotCount = 1
  ForgotWindow = 1
  ForgotPause = 1
CHECK_DEADLOCK FALSE
SYMMETRY Symmetry
INVARIANTS TypeOK  ConfirmedWasMailed ResetKeysAreSpent
 
