------------------------------- MODULE MCKyc -------------------------------
(***************************************************************************)
(* A small instance of KycSubmission.                                      *)
(***************************************************************************)
EXTENDS KycSubmission, TLC

CONSTANTS w1, a1, c1, c2

Symmetry == Permutations(Chains)
=============================================================================
