SPECIFICATION Spec
CONSTANTS
  u1 = u1
  w1 = w1
  w2 = w2
  a1 = a1
  a2 = a2
  Users = {u1}
  Countries = {"AE"}
  CountryOf <- MCCountryOf
  Assets = {"usd"}
  TypeOf <- MCTypeOf
  AssetCountry <- MCAssetCountry
  MinDeposit <- MCMinDeposit
  Supported = {"AE"}
  Swifts <- MCSwifts
  Ibans <- MCIbans
  Amounts = {0, 1}
  Web = {w1}
  Admins = {a1, a2}
  MaxAccounts = 4
  MaxDeposits = 1
CHECK_DEADLOCK FALSE
SYMMETRY Symmetry
INVARIANTS TypeOK OneAccountUnlessRaced OneColdUnlessRaced  
