------------------------------ MODULE MCPhone ------------------------------
(***************************************************************************)
(* A small instance of PhoneVerification.  Nothing orders the numbers, the *)
(* sids of Twilio or the tasks, so permuting them changes nothing.         *)
(***************************************************************************)
EXTENDS PhoneVerification, TLC

CONSTANTS n1, n2, w1, w2, t1, t2, t3, v1, v2

Symmetry == Permutations(Numbers) \union Permutations(Tasks) \union Permutations(Sids)
              \union Permutations(Web)
=============================================================================
