------------------------------ MODULE MCLedger ------------------------------
(***************************************************************************)
(* Small instances of Ledger and Statements: one user with a fiat account, *)
(* a crypto account and a bank account, the cold bank account that         *)
(* deposits come from, and the exchange accounts.                          *)
(***************************************************************************)
EXTENDS Statements, TLC

CONSTANTS user, bank, cold, coin, feeAcc, exFiat, exCoin, w1, w2, w3, a1, a2,
          o1, o2, o3, o4

MCAccounts == {user, bank, cold, coin, feeAcc, exFiat, exCoin}
MCAssetOf == [a \in MCAccounts |-> IF a \in {coin, exCoin} THEN "btc" ELSE "usd"]
MCKindOf == [a \in MCAccounts |->
               CASE a \in {user, coin, feeAcc} -> "active"
                 [] a = cold -> "passive"
                 [] OTHER -> "normal"]
MCStrict == {cold, feeAcc}

Transfer(amount, fee) ==
  [payment |-> cold, user |-> user, amount |-> amount, fee_account |-> feeAcc,
   fee |-> fee, rounding_account |-> exFiat, rounding |-> 0]

NoRequests == {}
PlainDeposit == {Transfer(2, 0)}
FeeDeposit == {Transfer(4, 1)}
OneWithdrawal == {[Transfer(1, 1) EXCEPT !.payment = bank, !.rounding = 1]}
(* The second one rounds up on the cold account, which takes no credit.    *)
MixedDeposits == {Transfer(2, 0), [Transfer(2, 0) EXCEPT !.rounding = 1]}

Buy == [base |-> coin, base_exchange |-> exCoin, base_amount |-> 1,
        quote |-> user, quote_exchange |-> exFiat, quote_amount |-> -2,
        fee_account |-> feeAcc, fee |-> 1,
        base_rounding_account |-> feeAcc, base_rounding |-> 0,
        quote_rounding_account |-> feeAcc, quote_rounding |-> 0]
Sell == [Buy EXCEPT !.base_amount = -1, !.quote_amount = 2]
OneBuy == {Buy}
BuyAndSell == {Buy, Sell}

WebAndAdminSymmetry ==
  Permutations({w1, w2, w3}) \union Permutations({a1, a2})
    \union Permutations({o1, o2, o3, o4})
=============================================================================
