----------------------------- MODULE Statements -----------------------------
(***************************************************************************)
(* What the ledger's operations look like to those who read them: the list *)
(* of operations the API gives a user (PaymentOperationQuerySet and the    *)
(* serializers) and the office's list of deposits and withdrawals          *)
(* (OperationQuerySet and the admin pages).  Both pick an operation's legs *)
(* by their sign, by their asset or by whose account they are on.          *)
(***************************************************************************)
EXTENDS Ledger

CONSTANTS
  UserAccounts,  \* the accounts of the one user whose operations are listed
  FeeAccounts,   \* the accounts of type UserFeeAccount
  BankAccounts,  \* the accounts of the users' bank accounts
  AllowedAssets  \* the assets of the user's country of residence

ASSUME OwnersAssumption ==
  /\ UserAccounts \union FeeAccounts \union BankAccounts \subseteq Accounts
  /\ UserAccounts \intersect (FeeAccounts \union BankAccounts) = {}
  /\ FeeAccounts \intersect BankAccounts = {}

Magnitude(n) == IF n < 0 THEN -n ELSE n

(* The rows that a query of the API or of the office returns.              *)
Listed == {o \in Ops \ hidden :
             ops[o].status \notin {"absent", "removed", "rolled_back"}}

LegsOn(o, accounts) ==
  {i \in DOMAIN ops[o].txs : ops[o].txs[i].account \in accounts}
Positive(o, legs) == {i \in legs : ops[o].txs[i].amount > 0}
Negative(o, legs) == {i \in legs : ops[o].txs[i].amount < 0}
Total(o, legs) == AmountOver(ops[o].txs, legs)
AssetsOver(o, legs) == {AssetOf[ops[o].txs[i].account] : i \in legs}

-----------------------------------------------------------------------------
(* The user's list.                                                        *)

ForUser == {o \in Listed : LegsOn(o, UserAccounts) # {}}

Own(o) == LegsOn(o, {a \in UserAccounts : AssetOf[a] \in AllowedAssets})
Crypto(o) == {i \in Own(o) : AssetOf[ops[o].txs[i].account] \in CryptoAssets}
Fiat(o) == Own(o) \ Crypto(o)

(* Variant: a sell is read by the sign of its legs, as a buy is.           *)
DebitLegsBySign(o) ==
  CASE ops[o].type \in {"buy", "sell"} -> Positive(o, Own(o))
    [] OTHER -> Own(o)

(* The legs whose sum is debit_amount, and those it takes the asset from.  *)
DebitLegs(o) ==
  CASE ops[o].type = "buy"  -> Positive(o, Own(o))
    [] ops[o].type = "sell" -> Fiat(o)
    [] OTHER -> Own(o)
DebitAssets(o) ==
  AssetsOver(o, CASE ops[o].type = "buy"  -> Crypto(o)
                  [] ops[o].type = "sell" -> Fiat(o)
                  [] OTHER -> Own(o))

(* The same for credit_amount, which is shown without its sign.            *)
CreditLegs(o) ==
  CASE ops[o].type = "buy"  -> Negative(o, Own(o))
    [] ops[o].type = "sell" -> Crypto(o)
    [] OTHER -> Own(o)
CreditAssets(o) ==
  AssetsOver(o, CASE ops[o].type = "buy"  -> Fiat(o)
                  [] ops[o].type = "sell" -> Crypto(o)
                  [] OTHER -> Own(o))

(* What an item of the list says came in and went out in an asset: each    *)
(* type has its serializer and only an exchange has both fields.  Where a  *)
(* query has assets to choose from it takes any ([:1] without an order).   *)
CameIn(o, asset) ==
  IF ops[o].type \in {"deposit", "buy", "sell"} /\ asset \in DebitAssets(o)
  THEN Total(o, DebitLegs(o)) ELSE 0
WentOut(o, asset) ==
  IF ops[o].type \in {"withdrawal", "buy", "sell"} /\ asset \in CreditAssets(o)
  THEN Magnitude(Total(o, CreditLegs(o))) ELSE 0

(* The operations whose confirmation the user may upload, as often and in  *)
(* whatever status: those on an account of an allowed asset.               *)
Confirmable == {o \in Listed : Own(o) # {}}

(* The statuses an item may show.  A deposit on hold shows that it is      *)
(* processed once its user has uploaded a confirmation, at any moment.     *)
ShownStatuses(o) ==
  LET withdrawal == [new |-> {"unconfirmed"}, hold |-> {"processing"},
                     committed |-> {"completed"}, cancelled |-> {"cancelled"},
                     deleted |-> {"expired"}]
      confirmed == IF o \in Confirmable THEN {"processing"} ELSE {}
      deposit == [withdrawal EXCEPT !.new = {"waiting_payment"},
                                    !.hold = {"waiting_payment"} \union confirmed]
      exchange == [withdrawal EXCEPT !.new = {"processing"},
                                     !.cancelled = {"failed"}, !.deleted = {"failed"}]
  IN  CASE ops[o].type = "deposit" -> deposit[ops[o].status]
        [] ops[o].type = "withdrawal" -> withdrawal[ops[o].status]
        [] ops[o].type \in {"buy", "sell"} -> exchange[ops[o].status]
        [] OTHER -> {"undefined"}

(* The types that have a serializer: a refund in the list is an error.     *)
Serializable == {"deposit", "withdrawal", "buy", "sell"}

(* The items that are not shown as called off.                             *)
Standing ==
  {o \in ForUser : /\ ops[o].type \in Serializable
                   /\ ShownStatuses(o) \intersect {"cancelled", "expired", "failed"} = {}}

(* What a user is told adds up to what is_valid lets the user spend: in    *)
(* every asset, what the standing items say came in, less what they say    *)
(* went out, with the refunds that the list cannot show, is the balance of *)
(* the user's accounts over new, held and committed operations.  The fee   *)
(* is inside these amounts, and the legs of a buy are told apart by their  *)
(* sign where those of a sell are by their asset.                          *)
StatementsAddUp ==
  \A asset \in AllowedAssets :
    LET mine == {a \in UserAccounts : AssetOf[a] = asset}
        counted == {o \in Listed : ops[o].status \in Held \union {"new"}}
        refunds == {o \in counted : ops[o].type = "refund"}
        Sum(rows) == SumFunctionOnSet([a \in mine |-> Balance(rows, a)], mine)
    IN  SumFunctionOnSet([o \in Standing |-> CameIn(o, asset) - WentOut(o, asset)], Standing)
          + Sum(refunds) = Sum(counted)

-----------------------------------------------------------------------------
(* The office's pages: with_fee, with_amount and with_total_amount.        *)

(* The wire transfers of a type: they have a leg in a fiat asset.          *)
WireTransfers(type) ==
  {o \in Listed : /\ ops[o].type = type
                  /\ ~(AssetsOver(o, DOMAIN ops[o].txs) \subseteq CryptoAssets)}
WithdrawalPage == WireTransfers("withdrawal")

Fee(o) ==
  IF ops[o].type \in Managed THEN Magnitude(Total(o, LegsOn(o, FeeAccounts))) ELSE 0

Amount(o) ==
  IF ops[o].type = "deposit" THEN Total(o, Positive(o, DOMAIN ops[o].txs))
  ELSE Magnitude(Total(o, Negative(o, DOMAIN ops[o].txs)))

(* Variant: the fee of a withdrawal is added, as it is for a deposit.      *)
TotalAmountWithFee(o) == Amount(o) + Fee(o)

TotalAmount(o) ==
  IF ops[o].type = "deposit" THEN Amount(o) + Fee(o) ELSE Amount(o) - Fee(o)

OfficeRow(o) ==
  [status |-> ops[o].status, amount |-> Amount(o), fee |-> Fee(o),
   total_amount |-> TotalAmount(o)]

(* The office's books agree with the ledger: the totals its page shows for *)
(* the committed withdrawals, told from all the negative legs of each and  *)
(* the legs on fee accounts, sum to what the committed operations have put *)
(* on the users' bank accounts, rounding included.                         *)
PayoutsReconcile ==
  LET paid == {o \in WithdrawalPage : OfficeRow(o).status = "committed"}
      settled == {o \in Listed : ops[o].status = "committed"}
  IN  SumFunctionOnSet([o \in paid |-> OfficeRow(o).total_amount], paid)
        = SumFunctionOnSet([a \in BankAccounts |-> Balance(settled, a)], BankAccounts)
=============================================================================
