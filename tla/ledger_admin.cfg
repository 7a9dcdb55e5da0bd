SPECIFICATION Spec
CONSTANTS
  user = user
  bank = bank
  cold = cold
  coin = coin
  feeAcc = feeAcc
  exFiat = exFiat
  exCoin = exCoin
  w1 = w1
  w2 = w2
  w3 = w3
  a1 = a1
  a2 = a2
  o1 = o1
  o2 = o2
  o3 = o3
  o4 = o4
  None = None
  Accounts <- MCAccounts
  AssetOf <- MCAssetOf
  KindOf <- MCKindOf
  Strict <- MCStrict
  CryptoAssets = {"btc"}
  AllowedAssets = {"btc", "usd"}
  UserAccounts = {user, coin}
  FeeAccounts = {feeAcc}
  BankAccounts = {bank}
  Web = {w1}
  Admins = {a1, a2}
  Ops = {o1, o2, o3}
  Deposits <- MixedDeposits
  Payments <- PlainDeposit
  Withdrawals <- OneWithdrawal
  Exchanges <- NoRequests
  Commands = {"commit", "cancel", "reject", "refund"}
SYMMETRY WebAndAdminSymmetry
CHECK_DEADLOCK FALSE
INVARIANTS HeldIsSound 
PROPERTIES CommittedWasHeld HeldNeverRemoved
