---------------------------- MODULE MCInvestment ----------------------------
(***************************************************************************)
(* Small instances of Investment and Portfolio.                            *)
(***************************************************************************)
EXTENDS Portfolio, TLC

CONSTANTS app1, app2, u1, u2, d1, d2, web1, c1, c2, a1, a2

(* The deposits differ if there is more than one amount.                   *)
MCAmountOf ==
  [d \in Deposits |-> CHOOSE n \in Amounts : \A m \in Amounts : IF d = d1 THEN n <= m ELSE m <= n]

AppSymmetry ==
  Permutations({app1, app2}) \union Permutations({u1, u2})
    \union Permutations({c1, c2}) \union Permutations({a1, a2})
AppAndDepositSymmetry == AppSymmetry \union Permutations({d1, d2})
=============================================================================
