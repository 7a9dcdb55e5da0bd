------------------------------- MODULE Ledger -------------------------------
(***************************************************************************)
(* The double-entry ledger of django_banking: operations made of signed    *)
(* transactions on accounts, and the sessions (API workers and admin       *)
(* requests) that create, validate, hold, commit, cancel and refund them.  *)
(*                                                                         *)
(* A step is one statement the database executes, or one block that the    *)
(* code runs inside a database transaction on the main database.  Between  *)
(* two steps of a session any other session may act: no row is locked.     *)
(***************************************************************************)
EXTENDS Integers, Sequences, Functions

CONSTANTS
  Accounts,     \* rows of Account
  AssetOf,      \* the asset an account counts
  KindOf,       \* "active", "passive" or "normal"
  Strict,       \* the accounts that take transactions of one sign only
  CryptoAssets, \* the assets of type CRYPTO; every other asset is fiat
  Ops,          \* identifiers that operations may get: bounds how many exist
  None,
  Web,          \* sessions of the API process
  Admins,       \* sessions of the admin process
  Deposits,     \* arguments of create_deposit, called by the API
  Payments,     \* arguments of create_deposit, called by add_payment
  Withdrawals,  \* arguments of create_withdrawal
  Exchanges,    \* arguments of create_exchange
  Commands      \* what Admins may ask of an existing operation

Sessions == Web \union Admins

(* The keyword arguments of create_deposit and create_withdrawal, and those *)
(* of create_exchange.  An optional amount that is not passed is 0.         *)
Transfers == [payment : Accounts, user : Accounts, amount : Int,
              fee_account : Accounts, fee : Int,
              rounding_account : Accounts, rounding : Int]
Trades == [base : Accounts, base_exchange : Accounts, base_amount : Int,
           quote : Accounts, quote_exchange : Accounts, quote_amount : Int,
           fee_account : Accounts, fee : Int,
           base_rounding_account : Accounts, base_rounding : Int,
           quote_rounding_account : Accounts, quote_rounding : Int]

ASSUME AccountsAssumption ==
  /\ KindOf \in [Accounts -> {"active", "passive", "normal"}]
  /\ Strict \subseteq Accounts
ASSUME RequestsAssumption ==
  /\ Deposits \union Payments \union Withdrawals \subseteq Transfers
  /\ Exchanges \subseteq Trades
ASSUME NoneAssumption == None \notin Ops

VARIABLES
  ops,     \* the Operation table; a row carries its transactions
  hidden,  \* operations inserted by a database transaction still open
  ses      \* what each session is doing

vars == <<ops, hidden, ses>>

-----------------------------------------------------------------------------
(* Transactions: which legs each kind of operation is made of.             *)

Tx == [account : Accounts, amount : Int]
Leg(a, n) == [account |-> a, amount |-> n]

(* A pair of legs the code adds only when its amount is given.             *)
Optional(amount, from, to) ==
  IF amount = 0 THEN <<>> ELSE <<Leg(from, -amount), Leg(to, amount)>>

DepositTxs(r) ==
  <<Leg(r.payment, -r.amount), Leg(r.user, r.amount)>>
    \o Optional(r.fee, r.user, r.fee_account)
    \o Optional(r.rounding, r.rounding_account, r.payment)

WithdrawalTxs(r) ==
  <<Leg(r.user, -r.amount), Leg(r.payment, r.amount)>>
    \o Optional(r.fee, r.user, r.fee_account)
    \o Optional(r.rounding, r.rounding_account, r.payment)

ExchangeTxs(r) ==
  <<Leg(r.base, r.base_amount),   Leg(r.base_exchange, -r.base_amount),
    Leg(r.quote, r.quote_amount), Leg(r.quote_exchange, -r.quote_amount),
    Leg(r.quote, -r.fee),         Leg(r.fee_account, r.fee)>>
    \o Optional(r.base_rounding, r.base_rounding_account, r.base_exchange)
    \o Optional(r.quote_rounding, r.quote_rounding_account, r.quote_exchange)

-----------------------------------------------------------------------------
(* Sums and validity.                                                      *)

AmountOver(txs, legs) == SumFunctionOnSet([i \in DOMAIN txs |-> txs[i].amount], legs)
Moved(txs, a) ==
  AmountOver(txs, {i \in DOMAIN txs : txs[i].account = a})
Credited(txs, a) ==
  AmountOver(txs,
             {i \in DOMAIN txs : txs[i].account = a /\ txs[i].amount > 0})
Debited(txs, a) ==
  AmountOver(txs,
             {i \in DOMAIN txs : txs[i].account = a /\ txs[i].amount < 0})

Balance(rows, a) == SumFunctionOnSet([o \in Ops |-> Moved(ops[o].txs, a)], rows)

Held == {"hold", "committed"}

(* What a query of session s returns: every row but those of transactions  *)
(* that other sessions have not ended.                                     *)
Visible(s) ==
  {o \in Ops : /\ ops[o].status \notin {"absent", "removed", "rolled_back"}
               /\ o \notin hidden \/ o = ses[s].op}

(* Variant: unsettled operations of others are not looked at.              *)
AccountValidHeldOnly(s, a, include_new) ==
  LET counted == {o \in Visible(s) : ops[o].status \in Held \/ o = ses[s].op}
      balance == Balance(counted, a)
  IN  /\ KindOf[a] = "active"  => balance >= 0
      /\ KindOf[a] = "passive" => balance =< 0

AccountValid(s, a, include_new) ==
  LET counted == {o \in Visible(s) : \/ ops[o].status \in Held
                                     \/ include_new /\ ops[o].status = "new"}
      balance == Balance(counted, a)
  IN  /\ KindOf[a] = "active"  => balance >= 0
      /\ KindOf[a] = "passive" => balance =< 0

IsBalanced(txs) ==
  \A asset \in {AssetOf[txs[i].account] : i \in DOMAIN txs} :
    AmountOver(txs, {i \in DOMAIN txs : AssetOf[txs[i].account] = asset}) = 0

TxValid(tx) ==
  tx.account \in Strict =>
    /\ KindOf[tx.account] = "active"  => tx.amount >= 0
    /\ KindOf[tx.account] = "passive" => tx.amount =< 0

(* The part of is_valid that looks at the operation alone.                 *)
Sound(txs) == IsBalanced(txs) /\ \A i \in DOMAIN txs : TxValid(txs[i])

(* The accounts whose balance is_valid has to query, one query each.       *)
ToCheck(txs) ==
  {a \in Accounts : /\ KindOf[a] # "normal"
                    /\ \E i \in DOMAIN txs : txs[i].account = a}

-----------------------------------------------------------------------------
(* Sessions.                                                               *)

(* Jobs that run inside one database transaction, and jobs that commit     *)
(* the operation they have created.                                        *)
AtomicJobs == {"withdrawal", "add_payment"}
SettlingJobs == {"add_payment", "refund"}

Jobs == {"none", "deposit", "add_payment", "withdrawal", "exchange", "refund",
         "commit", "cancel", "reject"}
Checks == {"validate", "hold_check", "commit_check"}
PCs == {"idle", "refund_insert", "refund_debit", "refund_credit", "hold_save",
        "commit_save", "cancel_save", "reject_save"} \union Checks

Statuses == {"absent", "new", "hold", "committed", "cancelled", "deleted",
             "removed", "rolled_back"}
Types == {"none", "deposit", "withdrawal", "buy", "sell", "refund"}

Row == [type : Types, status : Statuses, txs : Seq(Tx),
        deposit : Ops \union {None}]
Session == [pc : PCs, job : Jobs, op : Ops \union {None}, todo : SUBSET Accounts]

Idle == [pc |-> "idle", job |-> "none", op |-> None, todo |-> {}]
NoRow == [type |-> "none", status |-> "absent", txs |-> <<>>, deposit |-> None]

Init ==
  /\ ops = [o \in Ops |-> NoRow]
  /\ hidden = {}
  /\ ses = [s \in Sessions |-> Idle]

At(s, pc) == ses[s].pc = pc
Txs(s) == ops[ses[s].op].txs

GoTo(s, pc) == ses' = [ses EXCEPT ![s].pc = pc]

(* Enter is_valid: the queries it makes are all still to do.               *)
StartCheck(s, pc) ==
  ses' = [ses EXCEPT ![s].pc = pc, ![s].todo = ToCheck(Txs(s))]

(* The session ends, and with it its database transaction.                 *)
Finish(s) ==
  /\ ses' = [ses EXCEPT ![s] = Idle]
  /\ hidden' = hidden \ {ses[s].op}

SetStatus(o, status) == ops' = [ops EXCEPT ![o].status = status]

(* save(update_fields=('status',)) raises when the row is gone.            *)
Save(s, status) ==
  IF ses[s].op \in Visible(s) THEN SetStatus(ses[s].op, status)
                              ELSE UNCHANGED ops

-----------------------------------------------------------------------------
(* OperationManager: an operation is inserted, validated and held, or      *)
(* deleted.                                                                *)

Insert(s, job, type, txs) ==
  \E o \in Ops :
    /\ At(s, "idle")
    /\ ops[o].status = "absent"
    /\ ops' = [ops EXCEPT ![o] = [type |-> type, status |-> "new",
                                  txs |-> txs, deposit |-> None]]
    /\ hidden' = IF job \in AtomicJobs THEN hidden \union {o} ELSE hidden
    /\ ses' = [ses EXCEPT ![s] = [pc |-> "validate", job |-> job, op |-> o,
                                  todo |-> ToCheck(txs)]]

CreateDeposit(s) ==
  \E r \in Deposits : r.amount > 0 /\ Insert(s, "deposit", "deposit", DepositTxs(r))

AddPayment(s) ==
  \E r \in Payments : r.amount > 0 /\ Insert(s, "add_payment", "deposit", DepositTxs(r))

CreateWithdrawal(s) ==
  \E r \in Withdrawals :
    r.amount > 0 /\ Insert(s, "withdrawal", "withdrawal", WithdrawalTxs(r))

CreateExchange(s) ==
  \E r \in Exchanges :
    /\ r.base_amount * r.quote_amount < 0
    /\ r.fee >= 0
    /\ Insert(s, "exchange", IF r.base_amount > 0 THEN "buy" ELSE "sell", ExchangeTxs(r))

(* Account.is_valid: one query.                                            *)
CheckAccount(s) ==
  /\ ses[s].pc \in Checks
  /\ \E a \in ses[s].todo :
       /\ AccountValid(s, a, ses[s].pc # "commit_check")
       /\ ses' = [ses EXCEPT ![s].todo = @ \ {a}]
  /\ UNCHANGED <<ops, hidden>>

(* Variant: the legs themselves are not validated.                         *)
PassUnchecked(s) ==
  /\ ses[s].pc \in Checks
  /\ ses[s].todo = {}
  /\ \/ At(s, "validate") /\ StartCheck(s, "hold_check")
     \/ At(s, "hold_check") /\ GoTo(s, "hold_save")
     \/ At(s, "commit_check") /\ GoTo(s, "commit_save")
  /\ UNCHANGED <<ops, hidden>>

(* is_valid returns.                                                       *)
Pass(s) ==
  /\ ses[s].pc \in Checks
  /\ ses[s].todo = {}
  /\ Sound(Txs(s))
  /\ \/ At(s, "validate") /\ StartCheck(s, "hold_check")
     \/ At(s, "hold_check") /\ GoTo(s, "hold_save")
     \/ At(s, "commit_check") /\ GoTo(s, "commit_save")
  /\ UNCHANGED <<ops, hidden>>

(* is_valid raises.  A creation deletes its row, or has it rolled back; the *)
(* refund of the admin cancels its operation; a commit command does nothing. *)
Raises(s) ==
  \/ ~Sound(Txs(s))
  \/ \E a \in ses[s].todo : ~AccountValid(s, a, ses[s].pc # "commit_check")

Refuse(s) ==
  /\ ses[s].pc \in Checks
  /\ Raises(s)
  /\ \/ /\ ses[s].job \in AtomicJobs
        /\ SetStatus(ses[s].op, "rolled_back")
        /\ Finish(s)
     \/ /\ ses[s].job \notin AtomicJobs
        /\ ses[s].pc \in {"validate", "hold_check"}
        /\ SetStatus(ses[s].op, "removed")
        /\ Finish(s)
     \/ /\ At(s, "commit_check")
        /\ ses[s].job = "refund"
        /\ GoTo(s, "cancel_save")
        /\ UNCHANGED <<ops, hidden>>
     \/ /\ At(s, "commit_check")
        /\ ses[s].job = "commit"
        /\ Finish(s)
        /\ UNCHANGED ops

HoldSave(s) ==
  /\ At(s, "hold_save")
  /\ Save(s, "hold")
  /\ \/ /\ ses[s].job \in SettlingJobs
        /\ StartCheck(s, "commit_check")
        /\ UNCHANGED hidden
     \/ /\ ses[s].job \notin SettlingJobs
        /\ Finish(s)

-----------------------------------------------------------------------------
(* Commands on an existing operation.  The row is read once, its guards    *)
(* use what was read, and its status is written later.                     *)

Load(s, command, o, pc) ==
  /\ command \in Commands
  /\ At(s, "idle")
  /\ o \in Visible(s)
  /\ ses' = [ses EXCEPT ![s] = [pc |-> pc, job |-> command, op |-> o,
                                todo |-> ToCheck(ops[o].txs)]]
  /\ UNCHANGED <<ops, hidden>>

(* The operations that have admin pages with COMMIT and CANCEL.            *)
Managed == {"deposit", "withdrawal"}

(* Variant: the status that was read is not asserted.                      *)
CommitLoadAny(s) ==
  \E o \in Ops : /\ ops[o].type \in Managed
                 /\ Load(s, "commit", o, "commit_check")

CommitLoad(s) ==
  \E o \in Ops : /\ ops[o].type \in Managed
                 /\ ops[o].status = "hold"
                 /\ Load(s, "commit", o, "commit_check")

CancelLoad(s) ==
  \E o \in Ops : /\ ops[o].type \in Managed
                 /\ ops[o].status # "cancelled"
                 /\ Load(s, "cancel", o, "cancel_save")

RejectLoad(s) == \E o \in Ops : Load(s, "reject", o, "reject_save")

(* Variants: a status of another model is written; cancel deletes the row. *)
CommitSaveCompleted(s) == At(s, "commit_save") /\ Save(s, "completed") /\ Finish(s)
CancelSaveDeletes(s) == At(s, "cancel_save") /\ Save(s, "removed") /\ Finish(s)

CommitSave(s) == At(s, "commit_save") /\ Save(s, "committed") /\ Finish(s)
CancelSave(s) == At(s, "cancel_save") /\ Save(s, "cancelled") /\ Finish(s)
RejectSave(s) == At(s, "reject_save") /\ Save(s, "deleted") /\ Finish(s)

-----------------------------------------------------------------------------
(* The admin's refund of a deposit.  In the admin process atomic() opens a *)
(* transaction on the admin database, not on the one that holds these      *)
(* rows: the operation and its two legs are three separate inserts.        *)

Refunds(d) ==
  {o \in Ops : /\ ops[o].type = "refund"
               /\ ops[o].deposit = d
               /\ ops[o].status \in Held}

(* with_amount(): the sum of the positive legs, a number.                  *)
RefundAmount(d) ==
  AmountOver(ops[d].txs, {i \in DOMAIN ops[d].txs : ops[d].txs[i].amount > 0})

(* transactions.order_by('amount').first() and .last(); ties in any order. *)
Lowest(txs) ==
  {txs[i].account : i \in {j \in DOMAIN txs :
                             \A k \in DOMAIN txs : txs[j].amount =< txs[k].amount}}
Highest(txs) ==
  {txs[i].account : i \in {j \in DOMAIN txs :
                             \A k \in DOMAIN txs : txs[j].amount >= txs[k].amount}}

RefundLoad(s) ==
  \E d \in Ops :
    /\ ops[d].type = "deposit"
    /\ ops[d].status = "committed"
    /\ Refunds(d) = {}
    /\ Load(s, "refund", d, "refund_insert")

RefundInsert(s) ==
  /\ At(s, "refund_insert")
  /\ \E o \in Ops :
       /\ ops[o].status = "absent"
       /\ ops' = [ops EXCEPT ![o] = [type |-> "refund", status |-> "new",
                                     txs |-> <<>>, deposit |-> ses[s].op]]
       /\ ses' = [ses EXCEPT ![s].pc = "refund_debit", ![s].op = o]
  /\ UNCHANGED hidden

(* The amount is read with with_amount() before: NULL is no amount.        *)
AddLeg(s, leg) ==
  /\ leg.amount \in Int
  /\ ops' = [ops EXCEPT ![ses[s].op].txs = Append(@, leg)]

RefundDebit(s) ==
  LET d == ops[ses[s].op].deposit
  IN  /\ At(s, "refund_debit")
      /\ \E a \in Lowest(ops[d].txs) : AddLeg(s, Leg(a, -RefundAmount(d)))
      /\ GoTo(s, "refund_credit")
      /\ UNCHANGED hidden

RefundCredit(s) ==
  LET d == ops[ses[s].op].deposit
  IN  /\ At(s, "refund_credit")
      /\ \E a \in Highest(ops[d].txs) :
           LET leg == Leg(a, RefundAmount(d)) IN
           /\ AddLeg(s, leg)
           /\ ses' = [ses EXCEPT ![s].pc = "validate",
                                 ![s].todo = ToCheck(Append(Txs(s), leg))]
      /\ UNCHANGED hidden

(* A process dies, or the database refuses a statement: an open            *)
(* transaction is rolled back, rows already committed stay as they are.    *)
Crash(s) ==
  /\ ~At(s, "idle")
  /\ IF ses[s].job \in AtomicJobs THEN SetStatus(ses[s].op, "rolled_back")
                                  ELSE UNCHANGED ops
  /\ Finish(s)

-----------------------------------------------------------------------------
WebStep(s) == CreateDeposit(s) \/ CreateWithdrawal(s) \/ CreateExchange(s)
AdminStep(s) == \/ AddPayment(s) \/ CommitLoad(s) \/ CancelLoad(s)
                \/ RejectLoad(s) \/ RefundLoad(s)
Continue(s) == \/ CheckAccount(s) \/ Pass(s) \/ Refuse(s) \/ HoldSave(s)
               \/ CommitSave(s) \/ CancelSave(s) \/ RejectSave(s)
               \/ RefundInsert(s) \/ RefundDebit(s) \/ RefundCredit(s) \/ Crash(s)

Next == \/ \E s \in Web : WebStep(s)
        \/ \E s \in Admins : AdminStep(s)
        \/ \E s \in Sessions : Continue(s)

Spec == Init /\ [][Next]_vars

-----------------------------------------------------------------------------
(* Properties.                                                             *)

TypeOK ==
  /\ ops \in [Ops -> Row]
  /\ hidden \subseteq Ops
  /\ ses \in [Sessions -> Session]

(* An operation that is held or committed balances in every asset and puts *)
(* no leg of the wrong sign on a strict account, even though the legs of a *)
(* refund are inserted one by one in view of every other session.          *)
HeldIsSound == \A o \in Ops : ops[o].status \in Held => Sound(ops[o].txs)

(* Concurrent requests do not spend the same money twice: what held        *)
(* operations took from an active account was put on it by operations that *)
(* were recorded, be they settled or not.  It rests on every request       *)
(* showing its row to the others before it validates (OperationManager).   *)
NoDoubleSpend ==
  \A a \in {b \in Accounts : KindOf[b] = "active"} :
    LET spent    == {o \in Ops : ops[o].status \in Held}
        recorded == {o \in Ops : ops[o].status \notin {"absent", "rolled_back"}}
    IN  SumFunctionOnSet([o \in Ops |-> Debited(ops[o].txs, a)], spent)
          + SumFunctionOnSet([o \in Ops |-> Credited(ops[o].txs, a)], recorded) >= 0

(* Variant: what a buy takes is shown only once it is committed.           *)
ShownLate(o, a) ==
  LET row == ops[o]
      early == \/ row.type = "withdrawal"
               \/ row.type = "sell" /\ AssetOf[a] \in CryptoAssets
  IN  /\ row.type # "refund"
      /\ row.status \in IF early THEN Held ELSE {"committed"}

(* The balance the API shows (AccountQuerySet.with_balances).              *)
Shown(o, a) ==
  LET row == ops[o]
      early == \/ row.type = "withdrawal"
               \/ row.type = "buy"  /\ AssetOf[a] \notin CryptoAssets
               \/ row.type = "sell" /\ AssetOf[a] \in CryptoAssets
  IN  /\ row.type # "refund"
      /\ row.status \in IF early THEN Held ELSE {"committed"}

ShownBalance(a) == Balance({o \in Ops \ hidden : Shown(o, a)}, a)

(* A user is never shown more than the ledger would let the user spend:    *)
(* what with_balances counts never exceeds the balance of the held and     *)
(* committed operations that is_valid works with.                          *)
ShownIsSpendable ==
  \A a \in {b \in Accounts : KindOf[b] = "active"} :
    ShownBalance(a) =<
      Balance({o \in Ops \ hidden : ops[o].status \in Held}, a)

(* A committed operation has been on hold: nothing goes to committed from  *)
(* a row that was never held, whatever the commands in flight.             *)
CommittedWasHeld ==
  [][\A o \in Ops :
       ops'[o].status = "committed" =>
         ops[o].status \notin {"absent", "new", "removed", "rolled_back"}]_vars

(* Once another session can see an operation on hold or committed, its row *)
(* is never deleted: commands only change its status.                      *)
HeldNeverRemoved ==
  [][\A o \in Ops :
       ops[o].status \in Held /\ o \notin hidden =>
         ops'[o].status \notin {"absent", "removed", "rolled_back"}]_vars
=============================================================================
