---------------------------- MODULE MCOfferings -----------------------------
(***************************************************************************)
(* A small instance of Offerings: two campaigns and forms with terms that  *)
(* are right and wrong.                                                    *)
(***************************************************************************)
EXTENDS Offerings, TLC

CONSTANTS u1, w1, a1, a2

MCTerms ==
  {[min |-> 1, max |-> 0, goal |-> 6, valuation |-> 6, shares |-> 2, price |-> 3],
   [min |-> 1, max |-> 0, goal |-> 6, valuation |-> 5, shares |-> 2, price |-> 3]}

Symmetry == Permutations(Admins)
=============================================================================
