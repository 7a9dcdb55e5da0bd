-------------------------- MODULE MCAuthentication --------------------------
(***************************************************************************)
(* A small instance of Authentication.                                     *)
(***************************************************************************)
EXTENDS Authentication, TLC

CONSTANTS p1, p2, w1, w2, a1

Symmetry == Permutations(Passwords) \union Permutations(Web)
=============================================================================
