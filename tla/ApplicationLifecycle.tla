------------------------ MODULE ApplicationLifecycle ------------------------
(***************************************************************************)
(* What the investment component promises of one application, leaving out  *)
(* the tasks, the sessions and the rows they read: it is drafted, signed,  *)
(* submitted, paid and, if the payment is refunded, canceled.              *)
(***************************************************************************)
CONSTANT Apps

VARIABLES stage, signed, paid, refunded

vars == <<stage, signed, paid, refunded>>

Init ==
  /\ stage = [a \in Apps |-> "absent"]
  /\ signed = {}
  /\ paid = {}
  /\ refunded = {}

Move(a, from, to) ==
  /\ stage[a] = from
  /\ stage' = [stage EXCEPT ![a] = to]

Draft(a) == Move(a, "absent", "draft") /\ UNCHANGED <<signed, paid, refunded>>

Sign(a) ==
  /\ stage[a] = "draft"
  /\ signed' = signed \union {a}
  /\ UNCHANGED <<stage, paid, refunded>>

Submit(a) ==
  /\ a \in signed
  /\ Move(a, "draft", "pending")
  /\ UNCHANGED <<signed, paid, refunded>>

Pay(a) ==
  /\ Move(a, "pending", "hold")
  /\ paid' = paid \union {a}
  /\ UNCHANGED <<signed, refunded>>

(* An admin may delete an application that is not paid.                    *)
Delete(a) ==
  /\ a \notin paid
  /\ Move(a, "pending", "deleted")
  /\ UNCHANGED <<signed, paid, refunded>>

Refund(a) ==
  /\ stage[a] = "hold" /\ a \in paid \ refunded
  /\ refunded' = refunded \union {a}
  /\ UNCHANGED <<stage, signed, paid>>

(* The refund of an application that could not be canceled is taken back.  *)
TakeBack(a) ==
  /\ stage[a] = "hold" /\ a \in refunded
  /\ refunded' = refunded \ {a}
  /\ UNCHANGED <<stage, signed, paid>>

Cancel(a) ==
  /\ a \in refunded
  /\ Move(a, "hold", "canceled")
  /\ UNCHANGED <<signed, paid, refunded>>

Next == \E a \in Apps : \/ Draft(a) \/ Sign(a) \/ Submit(a) \/ Pay(a) \/ Delete(a)
                        \/ Refund(a) \/ TakeBack(a) \/ Cancel(a)

Spec == Init /\ [][Next]_vars
=============================================================================
