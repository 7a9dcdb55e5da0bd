------------------------------ MODULE Portfolio -----------------------------
(***************************************************************************)
(* What the applications to an offering look like to those who read them:  *)
(* the statistics of the office's list of offerings, the payment status of *)
(* its list of applications, and the total that a user is told.            *)
(***************************************************************************)
EXTENDS Investment, Functions

(* The payment status is told from the ledger, not from the application.   *)
IsRefunded(row) == row.deposit # None /\ refunds[row.deposit] > 0
PaymentStatus(a) ==
  CASE IsPaid(apps[a]) /\ ~IsRefunded(apps[a]) -> "paid"
    [] IsPaid(apps[a]) /\ IsRefunded(apps[a])  -> "refund"
    [] OTHER                                   -> "not_paid"

(* The tool the page of an application offers; the link to the tool of an  *)
(* application may still be there when it is not offered any more.         *)
ChangeActions(a) ==
  CASE PaymentStatus(a) = "not_paid" -> {"add_payment"}
    [] PaymentStatus(a) = "paid"     -> {"refund"}
    [] OTHER                         -> {"add_payment", "refund"}

-----------------------------------------------------------------------------
(* Sums and counts of the applications, drafts left out.                   *)

InStatus(status) == {a \in Apps : Submitted(a) /\ apps[a].status = status}
Money(rows) == SumFunctionOnSet([a \in Apps |-> apps[a].amount], rows)

ApplicationsCount == [status \in Statuses |-> Cardinality(InStatus(status))]
MoneySum == [status \in Statuses |-> Money(InStatus(status))]

(* A row of the office's list of offerings.                                *)
Statistics ==
  [count |-> [total |-> Cardinality({a \in Apps : Submitted(a)}),
              pending |-> ApplicationsCount["pending"], hold |-> ApplicationsCount["hold"],
              canceled |-> ApplicationsCount["canceled"]],
   sum |-> [total |-> Money({a \in Apps : Submitted(a)}),
            pending |-> MoneySum["pending"], hold |-> MoneySum["hold"],
            canceled |-> MoneySum["canceled"]]]

(* total_investment; nothing ever sets the status completed.               *)
TotalInvestment(u) == Money({a \in InStatus("hold") : apps[a].user = u})

-----------------------------------------------------------------------------
(* The deposits that applications in this status are linked with.          *)
Linked(status) == {apps[a].deposit : a \in InStatus(status)}

(* The counts are those of deposits, each of which backs one application,  *)
(* and the page of none of these applications asks only to be paid.        *)
CountsMatchDeposits ==
  \A status \in {"hold", "canceled"} :
    /\ Statistics.count[status] = Cardinality(Linked(status))
    /\ \A a \in InStatus(status) : ChangeActions(a) # {"add_payment"}

(* The sums are those of the deposits, for the office and for the users.   *)
SumsMatchDeposits ==
  /\ \A status \in {"hold", "canceled"} :
       Statistics.sum[status] = SumFunctionOnSet(AmountOf, Linked(status))
  /\ SumFunctionOnSet([u \in Users |-> TotalInvestment(u)], Users) = Statistics.sum.hold

(* The books agree with the ledger, whatever admins have edited and paid   *)
(* at the same time: what is on hold or canceled, as the office and the    *)
(* users are told, is the money of the deposits of these applications,     *)
(* each of which has its own (investment/models.py, add_payment;           *)
(* investment/admin, get_readonly_fields).                                 *)
BooksMatchDeposits == CountsMatchDeposits /\ SumsMatchDeposits
=============================================================================
