----------------------------- MODULE MCBanking -----------------------------
(***************************************************************************)
(* A small instance of Banking: one user, a currency of every country, and *)
(* codes of one bank with both pairs of digits that leave the same rest.   *)
(***************************************************************************)
EXTENDS Banking, TLC

CONSTANTS u1, w1, w2, a1, a2

MCCountryOf == [u \in Users |-> "AE"]
MCTypeOf == [a \in Assets |-> IF a = "usd" THEN "fiat" ELSE "token"]
MCAssetCountry == [a \in Assets |-> "none"]
MCMinDeposit == [a \in Assets |-> 0]
MCSwifts == {[formed |-> TRUE, country |-> "AE"]}
\* 3202 and 3299 leave the same rest when divided by 97.
MCIbans == {[country |-> "AE", bank |-> 32, digits |-> d] : d \in {2, 99}}

Symmetry == Permutations(Web) \union Permutations(Admins)
=============================================================================
