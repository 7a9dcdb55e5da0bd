---------------------------- MODULE LedgerProofs ----------------------------
(***************************************************************************)
(* Proofs about Ledger, for any accounts, operations, sessions, requests   *)
(* and commands.                                                           *)
(***************************************************************************)
EXTENDS Statements, SumTheorems, FiniteSetTheorems, TLAPS

-----------------------------------------------------------------------------
(* The inductive invariant.                                                *)

(* The session has inserted the operation and has not held it yet.         *)
Creating == {"refund_debit", "refund_credit", "validate", "hold_check", "hold_save"}
Committing == {"commit_check", "commit_save"}

(* is_valid has accepted the legs of the operation at least once.          *)
Accepted == {"hold_check", "hold_save"} \union Committing

WorksOnRow ==
  \A s \in Sessions :
    /\ At(s, "idle") => ses[s].op = None /\ ses[s].job = "none"
    /\ ~At(s, "idle") => ses[s].op \in Ops /\ ops[ses[s].op].status # "absent"

RefundKnowsDeposit ==
  \A s \in Sessions :
    /\ At(s, "refund_insert") => ses[s].job = "refund"
    /\ ses[s].pc \in {"refund_debit", "refund_credit"} =>
         ops[ses[s].op].deposit \in Ops

(* Whoever creates an operation is the only one to validate or commit it.  *)
CreatorIsAlone ==
  \A s, t \in Sessions :
    /\ s # t
    /\ ses[s].pc \in Creating
    /\ ses[t].pc \in Creating \union Committing
    => ses[s].op # ses[t].op

CreatedIsUnheld ==
  \A s \in Sessions :
    ses[s].pc \in Creating =>
      ops[ses[s].op].status \in {"new", "cancelled", "deleted"}

CommittingWasHeld ==
  \A s \in Sessions :
    ses[s].pc \in Committing =>
      ops[ses[s].op].status \in Held \union {"cancelled", "deleted"}

AcceptedIsSound ==
  \A s \in Sessions : ses[s].pc \in Accepted => Sound(Txs(s))

(* The operation of an open database transaction is known to one session.  *)
HiddenIsPrivate ==
  \A s \in Sessions :
    ses[s].job \in AtomicJobs =>
      /\ ses[s].op \in hidden
      /\ \A t \in Sessions \ {s} : ses[t].op # ses[s].op

IInv == /\ TypeOK
        /\ WorksOnRow
        /\ RefundKnowsDeposit
        /\ CreatorIsAlone
        /\ CreatedIsUnheld
        /\ CommittingWasHeld
        /\ AcceptedIsSound
        /\ HiddenIsPrivate
        /\ HeldIsSound
-----------------------------------------------------------------------------
(* The legs built by the manager are transactions.                         *)
LEMMA LegsAreTransactions ==
  /\ \A r \in Transfers : DepositTxs(r) \in Seq(Tx)
  /\ \A r \in Transfers : WithdrawalTxs(r) \in Seq(Tx)
  /\ \A r \in Trades : ExchangeTxs(r) \in Seq(Tx)
<1>1. ASSUME NEW n \in Int, NEW from \in Accounts, NEW to \in Accounts
      PROVE  Optional(n, from, to) \in Seq(Tx)
  <2>1. Leg(from, -n) \in Tx /\ Leg(to, n) \in Tx
    BY <1>1 DEF Leg, Tx
  <2>2. <<>> \in Seq(Tx)
    OBVIOUS
  <2>3. <<Leg(from, -n), Leg(to, n)>> \in Seq(Tx)
    BY <2>1
  <2> QED
    BY <2>2, <2>3 DEF Optional
<1>2. ASSUME NEW r \in Transfers PROVE DepositTxs(r) \in Seq(Tx)
  <2>1. <<Leg(r.payment, -r.amount), Leg(r.user, r.amount)>> \in Seq(Tx)
    BY <1>2 DEF Transfers, Leg, Tx
  <2> QED
    BY <2>1, <1>1, <1>2 DEF DepositTxs, Transfers
<1>3. ASSUME NEW r \in Transfers PROVE WithdrawalTxs(r) \in Seq(Tx)
  <2>1. <<Leg(r.user, -r.amount), Leg(r.payment, r.amount)>> \in Seq(Tx)
    BY <1>3 DEF Transfers, Leg, Tx
  <2> QED
    BY <2>1, <1>1, <1>3 DEF WithdrawalTxs, Transfers
<1>4. ASSUME NEW r \in Trades PROVE ExchangeTxs(r) \in Seq(Tx)
  <2>1. <<Leg(r.base, r.base_amount),   Leg(r.base_exchange, -r.base_amount),
          Leg(r.quote, r.quote_amount), Leg(r.quote_exchange, -r.quote_amount),
          Leg(r.quote, -r.fee),         Leg(r.fee_account, r.fee)>> \in Seq(Tx)
    BY <1>4 DEF Trades, Leg, Tx
  <2>2. Optional(r.base_rounding, r.base_rounding_account, r.base_exchange)
          \in Seq(Tx)
    BY <1>1, <1>4 DEF Trades
  <2>3. Optional(r.quote_rounding, r.quote_rounding_account, r.quote_exchange)
          \in Seq(Tx)
    BY <1>1, <1>4 DEF Trades
  <2> QED
    BY <2>1, <2>2, <2>3 DEF ExchangeTxs
<1> QED
  BY <1>2, <1>3, <1>4

(* The accounts that first() and last() return are accounts of the rows.   *)
LEMMA ChosenAccounts ==
  ASSUME NEW txs \in Seq(Tx)
  PROVE  Lowest(txs) \subseteq Accounts /\ Highest(txs) \subseteq Accounts
<1>1. ASSUME NEW i \in DOMAIN txs PROVE txs[i].account \in Accounts
  <2>1. txs[i] \in Tx
    OBVIOUS
  <2> QED
    BY <2>1 DEF Tx
<1>2. ASSUME NEW a \in Lowest(txs) PROVE a \in Accounts
  BY <1>1, <1>2 DEF Lowest
<1>3. ASSUME NEW a \in Highest(txs) PROVE a \in Accounts
  BY <1>1, <1>3 DEF Highest
<1> QED
  BY <1>2, <1>3

LEMMA InitInvariant == Init => IInv
BY NoneAssumption
   DEF Init, IInv, TypeOK, Row, NoRow, Session, Idle, Types, Statuses, PCs, Jobs,
       Checks, WorksOnRow, RefundKnowsDeposit, CreatorIsAlone, Creating,
       Committing, CreatedIsUnheld, CommittingWasHeld, AcceptedIsSound, Accepted,
       HiddenIsPrivate, AtomicJobs, HeldIsSound, Held, At, Tx
-----------------------------------------------------------------------------
(* What the operators that write the variables change.                     *)

USE DEF Creating, Committing, Accepted, Held, Checks, AtomicJobs, SettlingJobs, At

OnlyStatus(o, v) ==
  \A p \in Ops : /\ ops'[p].type = ops[p].type
                 /\ ops'[p].txs = ops[p].txs
                 /\ ops'[p].deposit = ops[p].deposit
                 /\ ops'[p].status = IF p = o THEN v ELSE ops[p].status

OnlySession(s) == \A t \in Sessions \ {s} : ses'[t] = ses[t]

(* The session is somewhere else in its job.                               *)
MovesTo(s, pc) ==
  /\ OnlySession(s)
  /\ ses'[s].pc = pc /\ ses'[s].job = ses[s].job /\ ses'[s].op = ses[s].op

(* The session has ended.                                                  *)
Ends(s) ==
  /\ OnlySession(s)
  /\ ses'[s] = Idle
  /\ hidden' = hidden \ {ses[s].op}

(* The part of a step that CommittedWasHeld and HeldNeverRemoved speak of. *)
LegalStep ==
  \A o \in Ops :
    /\ ops'[o].status = "committed" =>
         ops[o].status \notin {"absent", "new", "removed", "rolled_back"}
    /\ ops[o].status \in Held /\ o \notin hidden =>
         ops'[o].status \notin {"absent", "removed", "rolled_back"}

LEMMA SetStatusChanges ==
  ASSUME TypeOK, NEW o \in Ops, NEW v \in Statuses, SetStatus(o, v)
  PROVE  ops' \in [Ops -> Row] /\ OnlyStatus(o, v)
BY DEF TypeOK, SetStatus, OnlyStatus, Row

LEMMA SaveChanges ==
  ASSUME TypeOK, NEW s \in Sessions, ses[s].op \in Ops,
         NEW v \in Statuses, Save(s, v)
  PROVE  /\ ops' \in [Ops -> Row]
         /\ \/ ses[s].op \in Visible(s) /\ OnlyStatus(ses[s].op, v)
            \/ ses[s].op \notin Visible(s) /\ UNCHANGED ops
BY SetStatusChanges DEF TypeOK, Save

LEMMA FinishChanges ==
  ASSUME TypeOK, NEW s \in Sessions, Finish(s)
  PROVE  ses' \in [Sessions -> Session] /\ hidden' \subseteq Ops /\ Ends(s)
<1>1. Idle \in Session
  BY DEF Idle, Session, PCs, Jobs
<1> QED
  BY <1>1 DEF TypeOK, Finish, Ends, OnlySession

LEMMA MoveChanges ==
  ASSUME TypeOK, NEW s \in Sessions, NEW pc \in PCs,
         GoTo(s, pc) \/ StartCheck(s, pc)
  PROVE  ses' \in [Sessions -> Session] /\ MovesTo(s, pc)
BY DEF TypeOK, GoTo, StartCheck, MovesTo, OnlySession, Session, ToCheck

-----------------------------------------------------------------------------
(* One lemma per action: it keeps the invariant, and it is a legal step.   *)

LEMMA CommitSavePreserves ==
  ASSUME IInv, NEW s \in Sessions, CommitSave(s)
  PROVE  IInv' /\ LegalStep
<1> USE DEF IInv
<1>1. /\ At(s, "commit_save")
      /\ Ends(s)
      /\ \/ ses[s].op \in Visible(s) /\ OnlyStatus(ses[s].op, "committed")
         \/ UNCHANGED ops
  BY SaveChanges, FinishChanges DEF CommitSave, WorksOnRow, Statuses
<1>2. TypeOK'
  BY SaveChanges, FinishChanges DEF CommitSave, WorksOnRow, Statuses, TypeOK
<1>3. WorksOnRow'
  BY <1>1, <1>2 DEF WorksOnRow, Idle, OnlySession, OnlyStatus, Ends
<1>4. RefundKnowsDeposit'
  BY <1>1, <1>2
     DEF RefundKnowsDeposit, WorksOnRow, OnlySession, OnlyStatus, Ends, Idle
<1>5. CreatorIsAlone'
  BY <1>1, <1>2 DEF CreatorIsAlone, OnlySession, Ends, Idle
<1>6. CreatedIsUnheld'
  BY <1>1, <1>2
     DEF CreatedIsUnheld, CreatorIsAlone, WorksOnRow, OnlySession, OnlyStatus,
         Ends, Idle
<1>7. CommittingWasHeld'
  BY <1>1, <1>2
     DEF CommittingWasHeld, WorksOnRow, OnlySession, OnlyStatus, Ends, Idle
<1>8. AcceptedIsSound'
  BY <1>1, <1>2
     DEF AcceptedIsSound, Txs, WorksOnRow, OnlySession, OnlyStatus, Ends, Idle
<1>9. HiddenIsPrivate'
  BY <1>1, <1>2, NoneAssumption
     DEF HiddenIsPrivate, WorksOnRow, OnlySession, Ends, Idle
<1>10. HeldIsSound'
  BY <1>1, <1>2 DEF HeldIsSound, AcceptedIsSound, Txs, OnlyStatus
<1>11. LegalStep
  BY <1>1, <1>2 DEF LegalStep, OnlyStatus, CommittingWasHeld
<1> QED
  BY <1>2, <1>11, <1>3, <1>4, <1>5, <1>6, <1>7, <1>8, <1>9, <1>10

LEMMA CancelSavePreserves ==
  ASSUME IInv, NEW s \in Sessions, CancelSave(s)
  PROVE  IInv' /\ LegalStep
<1> USE DEF IInv
<1>1. /\ At(s, "cancel_save")
      /\ Ends(s)
      /\ \/ ses[s].op \in Visible(s) /\ OnlyStatus(ses[s].op, "cancelled")
         \/ UNCHANGED ops
  BY SaveChanges, FinishChanges DEF CancelSave, WorksOnRow, Statuses
<1>2. TypeOK'
  BY SaveChanges, FinishChanges DEF CancelSave, WorksOnRow, Statuses, TypeOK
<1>3. WorksOnRow'
  BY <1>1, <1>2 DEF WorksOnRow, Idle, OnlySession, OnlyStatus, Ends
<1>4. RefundKnowsDeposit'
  BY <1>1, <1>2
     DEF RefundKnowsDeposit, WorksOnRow, OnlySession, OnlyStatus, Ends, Idle
<1>5. CreatorIsAlone'
  BY <1>1, <1>2 DEF CreatorIsAlone, OnlySession, Ends, Idle
<1>6. CreatedIsUnheld'
  BY <1>1, <1>2
     DEF CreatedIsUnheld, WorksOnRow, OnlySession, OnlyStatus, Ends, Idle
<1>7. CommittingWasHeld'
  BY <1>1, <1>2
     DEF CommittingWasHeld, WorksOnRow, OnlySession, OnlyStatus, Ends, Idle
<1>8. AcceptedIsSound'
  BY <1>1, <1>2
     DEF AcceptedIsSound, Txs, WorksOnRow, OnlySession, OnlyStatus, Ends, Idle
<1>9. HiddenIsPrivate'
  BY <1>1, <1>2, NoneAssumption
     DEF HiddenIsPrivate, WorksOnRow, OnlySession, Ends, Idle
<1>10. HeldIsSound'
  BY <1>1, <1>2 DEF HeldIsSound, OnlyStatus
<1>11. LegalStep
  BY <1>1, <1>2 DEF LegalStep, OnlyStatus
<1> QED
  BY <1>2, <1>11, <1>3, <1>4, <1>5, <1>6, <1>7, <1>8, <1>9, <1>10

LEMMA RejectSavePreserves ==
  ASSUME IInv, NEW s \in Sessions, RejectSave(s)
  PROVE  IInv' /\ LegalStep
<1> USE DEF IInv
<1>1. /\ At(s, "reject_save")
      /\ Ends(s)
      /\ \/ ses[s].op \in Visible(s) /\ OnlyStatus(ses[s].op, "deleted")
         \/ UNCHANGED ops
  BY SaveChanges, FinishChanges DEF RejectSave, WorksOnRow, Statuses
<1>2. TypeOK'
  BY SaveChanges, FinishChanges DEF RejectSave, WorksOnRow, Statuses, TypeOK
<1>3. WorksOnRow'
  BY <1>1, <1>2 DEF WorksOnRow, Idle, OnlySession, OnlyStatus, MovesTo, Ends
<1>4. RefundKnowsDeposit'
  BY <1>1, <1>2
     DEF RefundKnowsDeposit, WorksOnRow, OnlySession, OnlyStatus, Ends, Idle
<1>5. CreatorIsAlone'
  BY <1>1, <1>2 DEF CreatorIsAlone, OnlySession, Ends, Idle
<1>6. CreatedIsUnheld'
  BY <1>1, <1>2
     DEF CreatedIsUnheld, WorksOnRow, OnlySession, OnlyStatus, Ends, Idle
<1>7. CommittingWasHeld'
  BY <1>1, <1>2
     DEF CommittingWasHeld, WorksOnRow, OnlySession, OnlyStatus, Ends, Idle
<1>8. AcceptedIsSound'
  BY <1>1, <1>2
     DEF AcceptedIsSound, Txs, WorksOnRow, OnlySession, OnlyStatus, Ends, Idle
<1>9. HiddenIsPrivate'
  BY <1>1, <1>2, NoneAssumption
     DEF HiddenIsPrivate, WorksOnRow, OnlySession, Ends, Idle
<1>10. HeldIsSound'
  BY <1>1, <1>2 DEF HeldIsSound, OnlyStatus
<1>11. LegalStep
  BY <1>1, <1>2 DEF LegalStep, OnlyStatus
<1> QED
  BY <1>2, <1>11, <1>3, <1>4, <1>5, <1>6, <1>7, <1>8, <1>9, <1>10

LEMMA CrashPreserves ==
  ASSUME IInv, NEW s \in Sessions, Crash(s)
  PROVE  IInv' /\ LegalStep
<1> USE DEF IInv
<1>1. /\ ~At(s, "idle")
      /\ Ends(s)
      /\ \/ ses[s].job \in AtomicJobs /\ OnlyStatus(ses[s].op, "rolled_back")
         \/ UNCHANGED ops
  BY SetStatusChanges, FinishChanges DEF Crash, WorksOnRow, Statuses
<1>2. TypeOK'
  BY SetStatusChanges, FinishChanges DEF Crash, WorksOnRow, Statuses, TypeOK
<1>3. WorksOnRow'
  BY <1>1, <1>2 DEF WorksOnRow, Idle, OnlySession, OnlyStatus, Ends
<1>4. RefundKnowsDeposit'
  BY <1>1, <1>2
     DEF RefundKnowsDeposit, WorksOnRow, OnlySession, OnlyStatus, Ends, Idle
<1>5. CreatorIsAlone'
  BY <1>1, <1>2 DEF CreatorIsAlone, OnlySession, Ends, Idle
<1>6. CreatedIsUnheld'
  BY <1>1, <1>2
     DEF CreatedIsUnheld, WorksOnRow, HiddenIsPrivate, OnlySession, OnlyStatus,
         Ends, Idle
<1>7. CommittingWasHeld'
  BY <1>1, <1>2
     DEF CommittingWasHeld, WorksOnRow, HiddenIsPrivate, OnlySession,
         OnlyStatus, Ends, Idle
<1>8. AcceptedIsSound'
  BY <1>1, <1>2
     DEF AcceptedIsSound, Txs, WorksOnRow, OnlySession, OnlyStatus, Ends, Idle
<1>9. HiddenIsPrivate'
  BY <1>1, <1>2, NoneAssumption
     DEF HiddenIsPrivate, WorksOnRow, OnlySession, Ends, Idle
<1>10. HeldIsSound'
  BY <1>1, <1>2 DEF HeldIsSound, OnlyStatus
<1>11. LegalStep
  BY <1>1, <1>2 DEF LegalStep, OnlyStatus, HiddenIsPrivate
<1> QED
  BY <1>2, <1>11, <1>3, <1>4, <1>5, <1>6, <1>7, <1>8, <1>9, <1>10

LEMMA HoldSavePreserves ==
  ASSUME IInv, NEW s \in Sessions, HoldSave(s)
  PROVE  IInv' /\ LegalStep
<1> USE DEF IInv
<1>1. /\ At(s, "hold_save")
      /\ OnlyStatus(ses[s].op, "hold")
      /\ \/ Ends(s)
         \/ MovesTo(s, "commit_check") /\ UNCHANGED hidden
  BY SaveChanges, FinishChanges, MoveChanges
     DEF HoldSave, WorksOnRow, CreatedIsUnheld, Visible, Statuses, PCs
<1>2. TypeOK'
  BY SaveChanges, FinishChanges, MoveChanges
     DEF HoldSave, WorksOnRow, Statuses, PCs, TypeOK
<1>3. WorksOnRow'
  BY <1>1, <1>2, NoneAssumption
     DEF WorksOnRow, Idle, OnlySession, OnlyStatus, MovesTo, Ends
<1>4. RefundKnowsDeposit'
  BY <1>1, <1>2
     DEF RefundKnowsDeposit, WorksOnRow, OnlySession, OnlyStatus, MovesTo, Ends,
         Idle
<1>5. CreatorIsAlone'
  BY <1>1, <1>2, NoneAssumption
     DEF CreatorIsAlone, OnlySession, MovesTo, Ends, Idle
<1>6. CreatedIsUnheld'
  BY <1>1, <1>2
     DEF CreatedIsUnheld, CreatorIsAlone, WorksOnRow, OnlySession, OnlyStatus,
         MovesTo, Ends, Idle
<1>7. CommittingWasHeld'
  BY <1>1, <1>2
     DEF CommittingWasHeld, WorksOnRow, OnlySession, OnlyStatus, MovesTo, Ends,
         Idle
<1>8. AcceptedIsSound'
  BY <1>1, <1>2
     DEF AcceptedIsSound, Txs, WorksOnRow, OnlySession, OnlyStatus, MovesTo,
         Ends, Idle
<1>9. HiddenIsPrivate'
  BY <1>1, <1>2, NoneAssumption
     DEF HiddenIsPrivate, WorksOnRow, RefundKnowsDeposit, OnlySession,
         OnlyStatus, MovesTo, Ends, Idle
<1>10. HeldIsSound'
  BY <1>1, <1>2
     DEF HeldIsSound, CreatedIsUnheld, CommittingWasHeld, AcceptedIsSound, Txs,
         OnlySession, OnlyStatus, MovesTo, Ends, Idle
<1>11. LegalStep
  BY <1>1, <1>2 DEF LegalStep, OnlyStatus
<1> QED
  BY <1>2, <1>11, <1>3, <1>4, <1>5, <1>6, <1>7, <1>8, <1>9, <1>10

LEMMA PassPreserves ==
  ASSUME IInv, NEW s \in Sessions, Pass(s)
  PROVE  IInv' /\ LegalStep
<1> USE DEF IInv
<1>1. /\ UNCHANGED <<ops, hidden>>
      /\ Sound(Txs(s))
      /\ \/ At(s, "validate") /\ MovesTo(s, "hold_check")
         \/ At(s, "hold_check") /\ MovesTo(s, "hold_save")
         \/ At(s, "commit_check") /\ MovesTo(s, "commit_save")
  BY MoveChanges DEF Pass, PCs
<1>2. TypeOK'
  BY MoveChanges DEF Pass, PCs, TypeOK
<1>3. WorksOnRow'
  BY <1>1, <1>2 DEF WorksOnRow, OnlySession, MovesTo
<1>4. RefundKnowsDeposit'
  BY <1>1, <1>2 DEF RefundKnowsDeposit, OnlySession, MovesTo
<1>5. CreatorIsAlone'
  BY <1>1, <1>2 DEF CreatorIsAlone, OnlySession, MovesTo
<1>6. CreatedIsUnheld'
  BY <1>1, <1>2 DEF CreatedIsUnheld, OnlySession, MovesTo
<1>7. CommittingWasHeld'
  BY <1>1, <1>2 DEF CommittingWasHeld, OnlySession, MovesTo
<1>8. AcceptedIsSound'
  BY <1>1, <1>2 DEF AcceptedIsSound, Txs, OnlySession, MovesTo
<1>9. HiddenIsPrivate'
  BY <1>1, <1>2 DEF HiddenIsPrivate, OnlySession, MovesTo
<1>10. HeldIsSound'
  BY <1>1, <1>2 DEF HeldIsSound
<1>11. LegalStep
  BY <1>1, <1>2 DEF LegalStep
<1> QED
  BY <1>2, <1>11, <1>3, <1>4, <1>5, <1>6, <1>7, <1>8, <1>9, <1>10

LEMMA RefusePreserves ==
  ASSUME IInv, NEW s \in Sessions, Refuse(s)
  PROVE  IInv' /\ LegalStep
<1> USE DEF IInv
<1>1. \/ /\ ses[s].pc \in Checks /\ ses[s].job \in AtomicJobs
         /\ OnlyStatus(ses[s].op, "rolled_back") /\ Ends(s)
      \/ /\ ses[s].pc \in {"validate", "hold_check"}
         /\ OnlyStatus(ses[s].op, "removed") /\ Ends(s)
      \/ /\ At(s, "commit_check") /\ UNCHANGED <<ops, hidden>>
         /\ MovesTo(s, "cancel_save")
      \/ At(s, "commit_check") /\ UNCHANGED ops /\ Ends(s)
  BY SetStatusChanges, FinishChanges, MoveChanges
     DEF Refuse, WorksOnRow, Statuses, PCs
<1>2. TypeOK'
  BY SetStatusChanges, FinishChanges, MoveChanges
     DEF Refuse, WorksOnRow, Statuses, PCs, TypeOK
<1>3. WorksOnRow'
  BY <1>1, <1>2 DEF WorksOnRow, Idle, OnlySession, OnlyStatus, MovesTo, Ends
<1>4. RefundKnowsDeposit'
  BY <1>1, <1>2
     DEF RefundKnowsDeposit, WorksOnRow, OnlySession, OnlyStatus, MovesTo, Ends,
         Idle
<1>5. CreatorIsAlone'
  BY <1>1, <1>2 DEF CreatorIsAlone, OnlySession, MovesTo, Ends, Idle
<1>6. CreatedIsUnheld'
  BY <1>1, <1>2
     DEF CreatedIsUnheld, CreatorIsAlone, WorksOnRow, OnlySession, OnlyStatus,
         MovesTo, Ends, Idle
<1>7. CommittingWasHeld'
  BY <1>1, <1>2
     DEF CommittingWasHeld, CreatorIsAlone, WorksOnRow, HiddenIsPrivate,
         OnlySession, OnlyStatus, MovesTo, Ends, Idle
<1>8. AcceptedIsSound'
  BY <1>1, <1>2
     DEF AcceptedIsSound, Txs, WorksOnRow, OnlySession, OnlyStatus, MovesTo,
         Ends, Idle
<1>9. HiddenIsPrivate'
  BY <1>1, <1>2, NoneAssumption
     DEF HiddenIsPrivate, WorksOnRow, OnlySession, MovesTo, Ends, Idle
<1>10. HeldIsSound'
  BY <1>1, <1>2 DEF HeldIsSound, OnlyStatus
<1>11. LegalStep
  BY <1>1, <1>2 DEF LegalStep, OnlyStatus, CreatedIsUnheld, HiddenIsPrivate
<1> QED
  BY <1>2, <1>11, <1>3, <1>4, <1>5, <1>6, <1>7, <1>8, <1>9, <1>10

LEMMA CheckAccountPreserves ==
  ASSUME IInv, NEW s \in Sessions, CheckAccount(s)
  PROVE  IInv' /\ LegalStep
<1> USE DEF IInv
<1>1. UNCHANGED <<ops, hidden>> /\ MovesTo(s, ses[s].pc)
  BY DEF CheckAccount, TypeOK, Session, MovesTo, OnlySession
<1>2. TypeOK'
  BY DEF CheckAccount, TypeOK, Session
<1>3. WorksOnRow'
  BY <1>1, <1>2 DEF WorksOnRow, OnlySession, MovesTo
<1>4. RefundKnowsDeposit'
  BY <1>1, <1>2 DEF RefundKnowsDeposit, OnlySession, MovesTo
<1>5. CreatorIsAlone'
  BY <1>1, <1>2 DEF CreatorIsAlone, OnlySession, MovesTo
<1>6. CreatedIsUnheld'
  BY <1>1, <1>2 DEF CreatedIsUnheld, OnlySession, MovesTo
<1>7. CommittingWasHeld'
  BY <1>1, <1>2 DEF CommittingWasHeld, OnlySession, MovesTo
<1>8. AcceptedIsSound'
  BY <1>1, <1>2 DEF AcceptedIsSound, Txs, OnlySession, MovesTo
<1>9. HiddenIsPrivate'
  BY <1>1, <1>2 DEF HiddenIsPrivate, OnlySession, MovesTo
<1>10. HeldIsSound'
  BY <1>1, <1>2 DEF HeldIsSound
<1>11. LegalStep
  BY <1>1, <1>2 DEF LegalStep
<1> QED
  BY <1>2, <1>11, <1>3, <1>4, <1>5, <1>6, <1>7, <1>8, <1>9, <1>10

LEMMA CommitLoadPreserves ==
  ASSUME IInv, NEW s \in Sessions, CommitLoad(s)
  PROVE  IInv' /\ LegalStep
<1> USE DEF IInv
<1>1. /\ At(s, "idle") /\ UNCHANGED <<ops, hidden>>
      /\ OnlySession(s)
      /\ ses'[s].pc = "commit_check" /\ ses'[s].job = "commit"
      /\ ses'[s].op \in Ops \ hidden
      /\ ops[ses'[s].op].status = "hold"
      /\ ops[ses'[s].op].status # "absent"
  BY NoneAssumption
     DEF CommitLoad, Load, TypeOK, OnlySession, Visible, WorksOnRow
<1>2. TypeOK'
  BY DEF CommitLoad, Load, TypeOK, Session, PCs, Jobs, ToCheck
<1>3. WorksOnRow'
  BY <1>1, <1>2 DEF WorksOnRow, OnlySession
<1>4. RefundKnowsDeposit'
  BY <1>1, <1>2 DEF RefundKnowsDeposit, OnlySession
<1>5. CreatorIsAlone'
  BY <1>1, <1>2 DEF CreatorIsAlone, CreatedIsUnheld, OnlySession
<1>6. CreatedIsUnheld'
  BY <1>1, <1>2 DEF CreatedIsUnheld, OnlySession
<1>7. CommittingWasHeld'
  BY <1>1, <1>2 DEF CommittingWasHeld, OnlySession
<1>8. AcceptedIsSound'
  BY <1>1, <1>2 DEF AcceptedIsSound, HeldIsSound, Txs, OnlySession
<1>9. HiddenIsPrivate'
  BY <1>1, <1>2 DEF HiddenIsPrivate, OnlySession
<1>10. HeldIsSound'
  BY <1>1, <1>2 DEF HeldIsSound
<1>11. LegalStep
  BY <1>1, <1>2 DEF LegalStep
<1> QED
  BY <1>2, <1>11, <1>3, <1>4, <1>5, <1>6, <1>7, <1>8, <1>9, <1>10

LEMMA CancelLoadPreserves ==
  ASSUME IInv, NEW s \in Sessions, CancelLoad(s)
  PROVE  IInv' /\ LegalStep
<1> USE DEF IInv
<1>1. /\ At(s, "idle") /\ UNCHANGED <<ops, hidden>>
      /\ OnlySession(s)
      /\ ses'[s].pc = "cancel_save" /\ ses'[s].job = "cancel"
      /\ ses'[s].op \in Ops \ hidden
      /\ ops[ses'[s].op].status # "absent"
  BY NoneAssumption
     DEF CancelLoad, Load, TypeOK, OnlySession, Visible, WorksOnRow
<1>2. TypeOK'
  BY DEF CancelLoad, Load, TypeOK, Session, PCs, Jobs, ToCheck
<1>3. WorksOnRow'
  BY <1>1, <1>2 DEF WorksOnRow, OnlySession
<1>4. RefundKnowsDeposit'
  BY <1>1, <1>2 DEF RefundKnowsDeposit, OnlySession
<1>5. CreatorIsAlone'
  BY <1>1, <1>2 DEF CreatorIsAlone, OnlySession
<1>6. CreatedIsUnheld'
  BY <1>1, <1>2 DEF CreatedIsUnheld, OnlySession
<1>7. CommittingWasHeld'
  BY <1>1, <1>2 DEF CommittingWasHeld, OnlySession
<1>8. AcceptedIsSound'
  BY <1>1, <1>2 DEF AcceptedIsSound, Txs, OnlySession
<1>9. HiddenIsPrivate'
  BY <1>1, <1>2 DEF HiddenIsPrivate, OnlySession
<1>10. HeldIsSound'
  BY <1>1, <1>2 DEF HeldIsSound
<1>11. LegalStep
  BY <1>1, <1>2 DEF LegalStep
<1> QED
  BY <1>2, <1>11, <1>3, <1>4, <1>5, <1>6, <1>7, <1>8, <1>9, <1>10

LEMMA RejectLoadPreserves ==
  ASSUME IInv, NEW s \in Sessions, RejectLoad(s)
  PROVE  IInv' /\ LegalStep
<1> USE DEF IInv
<1>1. /\ At(s, "idle") /\ UNCHANGED <<ops, hidden>>
      /\ OnlySession(s)
      /\ ses'[s].pc = "reject_save" /\ ses'[s].job = "reject"
      /\ ses'[s].op \in Ops \ hidden
      /\ ops[ses'[s].op].status # "absent"
  BY NoneAssumption
     DEF RejectLoad, Load, TypeOK, OnlySession, Visible, WorksOnRow
<1>2. TypeOK'
  BY DEF RejectLoad, Load, TypeOK, Session, PCs, Jobs, ToCheck
<1>3. WorksOnRow'
  BY <1>1, <1>2 DEF WorksOnRow, OnlySession
<1>4. RefundKnowsDeposit'
  BY <1>1, <1>2 DEF RefundKnowsDeposit, OnlySession
<1>5. CreatorIsAlone'
  BY <1>1, <1>2 DEF CreatorIsAlone, OnlySession
<1>6. CreatedIsUnheld'
  BY <1>1, <1>2 DEF CreatedIsUnheld, OnlySession
<1>7. CommittingWasHeld'
  BY <1>1, <1>2 DEF CommittingWasHeld, OnlySession
<1>8. AcceptedIsSound'
  BY <1>1, <1>2 DEF AcceptedIsSound, Txs, OnlySession
<1>9. HiddenIsPrivate'
  BY <1>1, <1>2 DEF HiddenIsPrivate, OnlySession
<1>10. HeldIsSound'
  BY <1>1, <1>2 DEF HeldIsSound
<1>11. LegalStep
  BY <1>1, <1>2 DEF LegalStep
<1> QED
  BY <1>2, <1>11, <1>3, <1>4, <1>5, <1>6, <1>7, <1>8, <1>9, <1>10

LEMMA RefundLoadPreserves ==
  ASSUME IInv, NEW s \in Sessions, RefundLoad(s)
  PROVE  IInv' /\ LegalStep
<1> USE DEF IInv
<1>1. /\ At(s, "idle") /\ UNCHANGED <<ops, hidden>>
      /\ OnlySession(s)
      /\ ses'[s].pc = "refund_insert" /\ ses'[s].job = "refund"
      /\ ses'[s].op \in Ops \ hidden
      /\ ops[ses'[s].op].status # "absent"
  BY NoneAssumption
     DEF RefundLoad, Load, TypeOK, OnlySession, Visible, WorksOnRow
<1>2. TypeOK'
  BY DEF RefundLoad, Load, TypeOK, Session, PCs, Jobs, ToCheck
<1>3. WorksOnRow'
  BY <1>1, <1>2 DEF WorksOnRow, OnlySession
<1>4. RefundKnowsDeposit'
  BY <1>1, <1>2 DEF RefundKnowsDeposit, OnlySession
<1>5. CreatorIsAlone'
  BY <1>1, <1>2 DEF CreatorIsAlone, OnlySession
<1>6. CreatedIsUnheld'
  BY <1>1, <1>2 DEF CreatedIsUnheld, OnlySession
<1>7. CommittingWasHeld'
  BY <1>1, <1>2 DEF CommittingWasHeld, OnlySession
<1>8. AcceptedIsSound'
  BY <1>1, <1>2 DEF AcceptedIsSound, Txs, OnlySession
<1>9. HiddenIsPrivate'
  BY <1>1, <1>2 DEF HiddenIsPrivate, OnlySession
<1>10. HeldIsSound'
  BY <1>1, <1>2 DEF HeldIsSound
<1>11. LegalStep
  BY <1>1, <1>2 DEF LegalStep
<1> QED
  BY <1>2, <1>11, <1>3, <1>4, <1>5, <1>6, <1>7, <1>8, <1>9, <1>10

LEMMA RefundInsertPreserves ==
  ASSUME IInv, NEW s \in Sessions, RefundInsert(s)
  PROVE  IInv' /\ LegalStep
<1> USE DEF IInv
<1>1. PICK o \in Ops :
        /\ At(s, "refund_insert") /\ hidden' = hidden
        /\ ops[o].status = "absent"
        /\ \A p \in Ops \ {o} : ops'[p] = ops[p]
        /\ ops'[o].status = "new" /\ ops'[o].deposit = ses[s].op
        /\ OnlySession(s)
        /\ ses'[s].pc = "refund_debit" /\ ses'[s].op = o /\ ses'[s].job = ses[s].job
  BY DEF RefundInsert, TypeOK, Session, OnlySession, Row
<1>2. TypeOK'
  BY DEF RefundInsert, TypeOK, Session, Row, Types, Statuses, PCs, WorksOnRow
<1>3. WorksOnRow'
  BY <1>1, <1>2 DEF WorksOnRow, OnlySession
<1>4. RefundKnowsDeposit'
  BY <1>1, <1>2 DEF RefundKnowsDeposit, WorksOnRow, OnlySession
<1>5. CreatorIsAlone'
  BY <1>1, <1>2 DEF CreatorIsAlone, WorksOnRow, OnlySession
<1>6. CreatedIsUnheld'
  BY <1>1, <1>2 DEF CreatedIsUnheld, WorksOnRow, OnlySession
<1>7. CommittingWasHeld'
  BY <1>1, <1>2 DEF CommittingWasHeld, WorksOnRow, OnlySession
<1>8. AcceptedIsSound'
  BY <1>1, <1>2 DEF AcceptedIsSound, Txs, WorksOnRow, OnlySession
<1>9. HiddenIsPrivate'
  BY <1>1, <1>2 DEF HiddenIsPrivate, WorksOnRow, RefundKnowsDeposit, OnlySession
<1>10. HeldIsSound'
  BY <1>1, <1>2 DEF HeldIsSound
<1>11. LegalStep
  BY <1>1, <1>2 DEF LegalStep
<1> QED
  BY <1>2, <1>11, <1>3, <1>4, <1>5, <1>6, <1>7, <1>8, <1>9, <1>10

LEMMA RefundDebitPreserves ==
  ASSUME IInv, NEW s \in Sessions, RefundDebit(s)
  PROVE  IInv' /\ LegalStep
<1> USE DEF IInv
<1>1. /\ At(s, "refund_debit") /\ UNCHANGED hidden
      /\ \A p \in Ops \ {ses[s].op} : ops'[p] = ops[p]
      /\ ops'[ses[s].op].status = ops[ses[s].op].status
      /\ ops'[ses[s].op].deposit = ops[ses[s].op].deposit
      /\ MovesTo(s, "refund_credit")
  BY DEF RefundDebit, AddLeg, GoTo, TypeOK, Session, Row, MovesTo, OnlySession,
         WorksOnRow
<1>2. TypeOK'
  <2>1. Lowest(ops[ops[ses[s].op].deposit].txs) \subseteq Accounts
    BY <1>1, ChosenAccounts DEF RefundKnowsDeposit, TypeOK, Row
  <2>2. PICK leg \in Tx :
          ops' = [ops EXCEPT ![ses[s].op].txs = Append(@, leg)]
    BY <2>1 DEF RefundDebit, AddLeg, Leg, Tx
  <2>3. ops' \in [Ops -> Row]
    <3>1. Append(Txs(s), leg) \in Seq(Tx)
      BY <1>1 DEF Txs, TypeOK, Row, WorksOnRow
    <3> QED
      BY <2>2, <3>1 DEF Txs, TypeOK, Row
  <2>4. ses' \in [Sessions -> Session]
    BY DEF RefundDebit, GoTo, TypeOK, Session, PCs
  <2> QED
    BY <1>1, <2>3, <2>4 DEF TypeOK
<1>3. WorksOnRow'
  BY <1>1, <1>2 DEF WorksOnRow, OnlySession, MovesTo
<1>4. RefundKnowsDeposit'
  BY <1>1, <1>2 DEF RefundKnowsDeposit, WorksOnRow, OnlySession, MovesTo
<1>5. CreatorIsAlone'
  BY <1>1, <1>2 DEF CreatorIsAlone, OnlySession, MovesTo
<1>6. CreatedIsUnheld'
  BY <1>1, <1>2 DEF CreatedIsUnheld, WorksOnRow, OnlySession, MovesTo
<1>7. CommittingWasHeld'
  BY <1>1, <1>2 DEF CommittingWasHeld, WorksOnRow, OnlySession, MovesTo
<1>8. AcceptedIsSound'
  BY <1>1, <1>2
     DEF AcceptedIsSound, Txs, CreatorIsAlone, WorksOnRow, OnlySession, MovesTo
<1>9. HiddenIsPrivate'
  BY <1>1, <1>2 DEF HiddenIsPrivate, OnlySession, MovesTo
<1>10. HeldIsSound'
  BY <1>1, <1>2 DEF HeldIsSound, CreatedIsUnheld
<1>11. LegalStep
  BY <1>1, <1>2 DEF LegalStep
<1> QED
  BY <1>2, <1>11, <1>3, <1>4, <1>5, <1>6, <1>7, <1>8, <1>9, <1>10

LEMMA RefundCreditPreserves ==
  ASSUME IInv, NEW s \in Sessions, RefundCredit(s)
  PROVE  IInv' /\ LegalStep
<1> USE DEF IInv
<1>1. /\ At(s, "refund_credit") /\ UNCHANGED hidden
      /\ \A p \in Ops \ {ses[s].op} : ops'[p] = ops[p]
      /\ ops'[ses[s].op].status = ops[ses[s].op].status
      /\ ops'[ses[s].op].deposit = ops[ses[s].op].deposit
      /\ MovesTo(s, "validate")
  BY DEF RefundCredit, AddLeg, GoTo, TypeOK, Session, Row, MovesTo, OnlySession,
         WorksOnRow
<1>2. TypeOK'
  <2>1. Highest(ops[ops[ses[s].op].deposit].txs) \subseteq Accounts
    BY <1>1, ChosenAccounts DEF RefundKnowsDeposit, TypeOK, Row
  <2>2. PICK leg \in Tx :
          ops' = [ops EXCEPT ![ses[s].op].txs = Append(@, leg)]
    BY <2>1 DEF RefundCredit, AddLeg, Leg, Tx
  <2>3. ops' \in [Ops -> Row]
    <3>1. Append(Txs(s), leg) \in Seq(Tx)
      BY <1>1 DEF Txs, TypeOK, Row, WorksOnRow
    <3> QED
      BY <2>2, <3>1 DEF Txs, TypeOK, Row
  <2>4. ses' \in [Sessions -> Session]
    <3>1. PICK todo \in SUBSET Accounts :
            ses' = [ses EXCEPT ![s].pc = "validate", ![s].todo = todo]
      BY DEF RefundCredit, GoTo, TypeOK, Session, ToCheck
    <3> QED
      BY <3>1 DEF TypeOK, Session, PCs
  <2> QED
    BY <1>1, <2>3, <2>4 DEF TypeOK
<1>3. WorksOnRow'
  BY <1>1, <1>2 DEF WorksOnRow, OnlySession, MovesTo
<1>4. RefundKnowsDeposit'
  BY <1>1, <1>2 DEF RefundKnowsDeposit, WorksOnRow, OnlySession, MovesTo
<1>5. CreatorIsAlone'
  BY <1>1, <1>2 DEF CreatorIsAlone, OnlySession, MovesTo
<1>6. CreatedIsUnheld'
  BY <1>1, <1>2 DEF CreatedIsUnheld, WorksOnRow, OnlySession, MovesTo
<1>7. CommittingWasHeld'
  BY <1>1, <1>2 DEF CommittingWasHeld, WorksOnRow, OnlySession, MovesTo
<1>8. AcceptedIsSound'
  BY <1>1, <1>2
     DEF AcceptedIsSound, Txs, CreatorIsAlone, WorksOnRow, OnlySession, MovesTo
<1>9. HiddenIsPrivate'
  BY <1>1, <1>2 DEF HiddenIsPrivate, OnlySession, MovesTo
<1>10. HeldIsSound'
  BY <1>1, <1>2 DEF HeldIsSound, CreatedIsUnheld
<1>11. LegalStep
  BY <1>1, <1>2 DEF LegalStep
<1> QED
  BY <1>2, <1>11, <1>3, <1>4, <1>5, <1>6, <1>7, <1>8, <1>9, <1>10

LEMMA InsertPreserves ==
  ASSUME IInv, NEW s \in Sessions, NEW job \in Jobs, NEW type \in Types,
         NEW txs \in Seq(Tx), Insert(s, job, type, txs)
  PROVE  IInv' /\ LegalStep
<1> USE DEF IInv
<1>1. PICK o \in Ops :
        /\ At(s, "idle") /\ ops[o].status = "absent"
        /\ \A p \in Ops \ {o} : ops'[p] = ops[p]
        /\ ops'[o].status = "new"
        /\ OnlySession(s)
        /\ ses'[s].pc = "validate" /\ ses'[s].job = job /\ ses'[s].op = o
        /\ hidden \subseteq hidden'
        /\ job \in AtomicJobs => o \in hidden'
  BY DEF Insert, TypeOK, Session, OnlySession, Row
<1>2. TypeOK'
  <2>1. PICK row \in Ops :
          /\ ops' = [ops EXCEPT ![row] = [type |-> type, status |-> "new",
                                       txs |-> txs, deposit |-> None]]
          /\ hidden' \subseteq hidden \union {row}
          /\ ses' = [ses EXCEPT ![s] = [pc |-> "validate", job |-> job, op |-> row,
                                       todo |-> ToCheck(txs)]]
    BY DEF Insert
  <2>2. [type |-> type, status |-> "new", txs |-> txs, deposit |-> None] \in Row
    BY DEF Row, Statuses
  <2>3. [pc |-> "validate", job |-> job, op |-> row, todo |-> ToCheck(txs)] \in Session
    BY DEF Session, PCs, ToCheck
  <2> QED
    BY <2>1, <2>2, <2>3 DEF TypeOK
<1>3. WorksOnRow'
  BY <1>1, <1>2 DEF WorksOnRow, OnlySession
<1>4. RefundKnowsDeposit'
  BY <1>1, <1>2 DEF RefundKnowsDeposit, WorksOnRow, OnlySession
<1>5. CreatorIsAlone'
  BY <1>1, <1>2 DEF CreatorIsAlone, WorksOnRow, OnlySession
<1>6. CreatedIsUnheld'
  BY <1>1, <1>2 DEF CreatedIsUnheld, WorksOnRow, OnlySession
<1>7. CommittingWasHeld'
  BY <1>1, <1>2 DEF CommittingWasHeld, WorksOnRow, OnlySession
<1>8. AcceptedIsSound'
  BY <1>1, <1>2 DEF AcceptedIsSound, Txs, WorksOnRow, OnlySession
<1>9. HiddenIsPrivate'
  BY <1>1, <1>2, NoneAssumption DEF HiddenIsPrivate, WorksOnRow, OnlySession
<1>10. HeldIsSound'
  BY <1>1, <1>2 DEF HeldIsSound
<1>11. LegalStep
  BY <1>1, <1>2 DEF LegalStep
<1> QED
  BY <1>2, <1>11, <1>3, <1>4, <1>5, <1>6, <1>7, <1>8, <1>9, <1>10

LEMMA CreationPreserves ==
  ASSUME IInv, NEW s \in Sessions,
         CreateDeposit(s) \/ AddPayment(s) \/ CreateWithdrawal(s) \/ CreateExchange(s)
  PROVE  IInv' /\ LegalStep
<1>1. CASE CreateDeposit(s)
  BY <1>1, InsertPreserves, LegsAreTransactions, RequestsAssumption
     DEF CreateDeposit, Jobs, Types
<1>2. CASE AddPayment(s)
  BY <1>2, InsertPreserves, LegsAreTransactions, RequestsAssumption
     DEF AddPayment, Jobs, Types
<1>3. CASE CreateWithdrawal(s)
  BY <1>3, InsertPreserves, LegsAreTransactions, RequestsAssumption
     DEF CreateWithdrawal, Jobs, Types
<1>4. CASE CreateExchange(s)
  BY <1>4, InsertPreserves, LegsAreTransactions, RequestsAssumption
     DEF CreateExchange, Jobs, Types
<1> QED
  BY <1>1, <1>2, <1>3, <1>4

LEMMA StepPreserves ==
  ASSUME IInv, Next
  PROVE  IInv' /\ LegalStep
<1>1. ASSUME NEW s \in Web, WebStep(s) PROVE IInv' /\ LegalStep
  BY <1>1, CreationPreserves DEF WebStep, Sessions
<1>2. ASSUME NEW s \in Admins, AdminStep(s) PROVE IInv' /\ LegalStep
  BY <1>2, CreationPreserves, CommitLoadPreserves, CancelLoadPreserves,
     RejectLoadPreserves, RefundLoadPreserves DEF AdminStep, Sessions
<1>3. ASSUME NEW s \in Sessions, Continue(s) PROVE IInv' /\ LegalStep
  BY <1>3, CheckAccountPreserves, PassPreserves, RefusePreserves,
     HoldSavePreserves, CommitSavePreserves, CancelSavePreserves,
     RejectSavePreserves, RefundInsertPreserves, RefundDebitPreserves,
     RefundCreditPreserves, CrashPreserves DEF Continue
<1> QED
  BY <1>1, <1>2, <1>3 DEF Next

LEMMA StutterPreserves == IInv /\ UNCHANGED vars => IInv'
BY DEF vars, IInv, TypeOK, WorksOnRow, RefundKnowsDeposit, CreatorIsAlone,
       CreatedIsUnheld, CommittingWasHeld, AcceptedIsSound, HiddenIsPrivate,
       HeldIsSound, Txs

-----------------------------------------------------------------------------
(* Theorems.                                                               *)

(* The inductive invariant holds: in particular a session that creates an  *)
(* operation is the only one that can validate, hold or commit it.         *)
THEOREM InductiveInvariant == Spec => []IInv
<1>1. Init => IInv
  BY InitInvariant
<1>2. IInv /\ [Next]_vars => IInv'
  BY StepPreserves, StutterPreserves
<1> QED
  BY <1>1, <1>2, PTL DEF Spec

(* Every variable keeps its type, the legs of every operation being        *)
(* transactions on known accounts.                                         *)
THEOREM TypeCorrectness == Spec => []TypeOK
<1>1. IInv => TypeOK
  BY DEF IInv
<1> QED
  BY <1>1, InductiveInvariant, PTL

(* However sessions interleave and crash, no operation is held or committed *)
(* with legs that do not balance or that a strict account does not take.   *)
THEOREM HeldOperationsAreSound == Spec => []HeldIsSound
<1>1. IInv => HeldIsSound
  BY DEF IInv
<1> QED
  BY <1>1, InductiveInvariant, PTL

(* commit() never reaches a row that was not held before it, although it   *)
(* writes the status of a copy read earlier.                               *)
THEOREM CommitFollowsHold == Spec => CommittedWasHeld
<1>1. ASSUME IInv, [Next]_vars
      PROVE  [\A o \in Ops :
                ops'[o].status = "committed" =>
                  ops[o].status \notin {"absent", "new", "removed", "rolled_back"}]_vars
  BY <1>1, StepPreserves DEF LegalStep
<1> QED
  BY <1>1, InductiveInvariant, PTL DEF Spec, CommittedWasHeld

(* _validate_hold_or_delete never deletes an operation that others saw on  *)
(* hold or committed, nor does a rollback take one away.                   *)
THEOREM HeldOperationsStay == Spec => HeldNeverRemoved
<1>1. ASSUME IInv, [Next]_vars
      PROVE  [\A o \in Ops :
                ops[o].status \in Held /\ o \notin hidden =>
                  ops'[o].status \notin {"absent", "removed", "rolled_back"}]_vars
  BY <1>1, StepPreserves DEF LegalStep
<1> QED
  BY <1>1, InductiveInvariant, PTL DEF Spec, HeldNeverRemoved

-----------------------------------------------------------------------------
(* Legs and their sums.                                                    *)

Active == {a \in Accounts : KindOf[a] = "active"}

LEMMA LegFacts ==
  ASSUME NEW txs \in Seq(Tx)
  PROVE  /\ IsFiniteSet(DOMAIN txs)
         /\ \A i \in DOMAIN txs : txs[i].amount \in Int /\ txs[i].account \in Accounts
<1>1. DOMAIN txs = 1..Len(txs) /\ Len(txs) \in Nat
  OBVIOUS
<1>2. IsFiniteSet(DOMAIN txs)
  BY <1>1, FS_Interval
<1>3. ASSUME NEW i \in DOMAIN txs PROVE txs[i] \in Tx
  OBVIOUS
<1> QED
  BY <1>2, <1>3 DEF Tx

LEMMA MovedSplits ==
  ASSUME NEW txs \in Seq(Tx), NEW a
  PROVE  /\ Debited(txs, a) \in Int /\ Debited(txs, a) <= 0
         /\ Credited(txs, a) \in Int /\ Credited(txs, a) >= 0
         /\ Moved(txs, a) = Debited(txs, a) + Credited(txs, a)
<1> DEFINE f == [i \in DOMAIN txs |-> txs[i].amount]
           M == {i \in DOMAIN txs : txs[i].account = a}
           D == {i \in DOMAIN txs : txs[i].account = a /\ txs[i].amount < 0}
           C == {i \in DOMAIN txs : txs[i].account = a /\ txs[i].amount > 0}
           z == [i \in DOMAIN txs |-> 0]
<1>1. \A i \in DOMAIN txs : f[i] \in Int
  BY LegFacts
<1>2. IsFiniteSet(M) /\ IsFiniteSet(D) /\ IsFiniteSet(C)
  <2>1. M \subseteq DOMAIN txs /\ D \subseteq DOMAIN txs /\ C \subseteq DOMAIN txs
    OBVIOUS
  <2> QED
    BY <2>1, LegFacts, FS_Subset
<1>3. /\ \A i \in D : f[i] \in Int /\ z[i] \in Int /\ f[i] <= z[i] /\ z[i] = 0
      /\ \A i \in C : f[i] \in Int /\ z[i] \in Int /\ z[i] <= f[i] /\ z[i] = 0
      /\ \A i \in D \union C : f[i] \in Int /\ f[i] = f[i]
      /\ \A i \in M \ (D \union C) : f[i] = 0
      /\ D \intersect C = {} /\ D \union C \in SUBSET M
  BY <1>1
<1>4. /\ Moved(txs, a) = SumFunctionOnSet(f, M)
      /\ Debited(txs, a) = SumFunctionOnSet(f, D)
      /\ Credited(txs, a) = SumFunctionOnSet(f, C)
  BY DEF Moved, Debited, Credited, AmountOver
<1> HIDE DEF f, M, D, C, z
<1>5. SumFunctionOnSet(f, D) \in Int /\ SumFunctionOnSet(f, C) \in Int
  BY <1>2, <1>3, SumType
<1>6. SumFunctionOnSet(f, D) <= SumFunctionOnSet(z, D) /\ SumFunctionOnSet(z, D) = 0
  BY <1>2, <1>3, SumMonotonic, SumOfZeros
<1>7. SumFunctionOnSet(z, C) <= SumFunctionOnSet(f, C) /\ SumFunctionOnSet(z, C) = 0
  BY <1>2, <1>3, SumMonotonic, SumOfZeros
<1>8. SumFunctionOnSet(f, M) = SumFunctionOnSet(f, D \union C)
  BY <1>2, <1>3, SumOfPart
<1>9. SumFunctionOnSet(f, D \union C) = SumFunctionOnSet(f, D) + SumFunctionOnSet(f, C)
  BY <1>2, <1>3, SumOfUnion
<1> QED
  BY <1>4, <1>5, <1>6, <1>7, <1>8, <1>9

(* Without a leg on an account nothing is taken from it.                   *)
LEMMA DebitsNeedLegs ==
  ASSUME NEW txs \in Seq(Tx), NEW a \in Active, a \notin ToCheck(txs)
  PROVE  Debited(txs, a) = 0
<1>1. {i \in DOMAIN txs : txs[i].account = a /\ txs[i].amount < 0} = {}
  BY DEF ToCheck, Active
<1>2. AmountOver(txs, {}) = 0
  BY SumOfNothing DEF AmountOver
<1> QED
  BY <1>1, <1>2 DEF Debited

(* One more leg never makes the credits of an operation smaller.           *)
LEMMA AppendCredits ==
  ASSUME NEW txs \in Seq(Tx), NEW leg \in Tx, NEW a
  PROVE  Credited(txs, a) <= Credited(Append(txs, leg), a)
<1> DEFINE longer == Append(txs, leg)
           f == [i \in DOMAIN txs |-> txs[i].amount]
           g == [i \in DOMAIN longer |-> longer[i].amount]
           C == {i \in DOMAIN txs : txs[i].account = a /\ txs[i].amount > 0}
           E == {i \in DOMAIN longer : longer[i].account = a /\ longer[i].amount > 0}
<1>1. longer \in Seq(Tx)
  OBVIOUS
<1>2. \A i \in DOMAIN txs : i \in DOMAIN longer /\ longer[i] = txs[i]
  OBVIOUS
<1>3. C \in SUBSET E
  BY <1>2
<1>4. IsFiniteSet(E)
  <2>1. E \subseteq DOMAIN longer
    OBVIOUS
  <2> QED
    BY <2>1, <1>1, LegFacts, FS_Subset
<1>5. \A i \in E : g[i] \in Int /\ g[i] >= 0
  <2>1. \A i \in DOMAIN longer : longer[i].amount \in Int
    BY <1>1, LegFacts
  <2> QED
    BY <2>1
<1>6. \A i \in C : f[i] \in Int /\ f[i] = g[i]
  BY <1>2, LegFacts
<1>7. Credited(txs, a) = SumFunctionOnSet(f, C) /\ Credited(longer, a) = SumFunctionOnSet(g, E)
  BY DEF Credited, AmountOver
<1> HIDE DEF f, g, C, E
<1>8. IsFiniteSet(C)
  BY <1>3, <1>4, FS_Subset
<1>9. SumFunctionOnSet(f, C) = SumFunctionOnSet(g, C)
  BY <1>6, <1>8, SumCongruent
<1>10. SumFunctionOnSet(g, C) <= SumFunctionOnSet(g, E)
  BY <1>3, <1>4, <1>5, SumOfMore
<1> QED
  BY <1>7, <1>9, <1>10

(* The sum of the legs of a request that are in a set of legs.             *)

Part(txs, F) == AmountOver(txs, {i \in DOMAIN txs : txs[i] \in F})
Share(leg, F) == IF leg \in F THEN leg.amount ELSE 0

LEMMA PartType ==
  ASSUME NEW txs \in Seq(Tx), NEW F
  PROVE  Part(txs, F) \in Int
<1> DEFINE f == [i \in DOMAIN txs |-> txs[i].amount]
           I == {i \in DOMAIN txs : txs[i] \in F}
<1>1. \A i \in I : f[i] \in Int
  BY LegFacts
<1>2. IsFiniteSet(I)
  <2>1. I \subseteq DOMAIN txs
    OBVIOUS
  <2> QED
    BY <2>1, LegFacts, FS_Subset
<1> HIDE DEF f, I
<1>3. SumFunctionOnSet(f, I) \in Int
  BY <1>1, <1>2, SumType
<1> QED
  BY <1>3 DEF Part, AmountOver, f, I

LEMMA PartOfJoin ==
  ASSUME NEW txs \in Seq(Tx), NEW more \in Seq(Tx), NEW F
  PROVE  Part(txs \o more, F) = Part(txs, F) + Part(more, F)
<1> DEFINE n == Len(txs)
           all == txs \o more
           fa == [i \in DOMAIN all |-> all[i].amount]
           ft == [i \in DOMAIN txs |-> txs[i].amount]
           fm == [i \in DOMAIN more |-> more[i].amount]
           A == {i \in DOMAIN all : all[i] \in F}
           T == {i \in DOMAIN txs : txs[i] \in F}
           M == {i \in DOMAIN more : more[i] \in F}
           S == {i + n : i \in M}
           h == [i \in M |-> i + n]
<1>1. /\ n \in Nat /\ Len(more) \in Nat /\ DOMAIN txs = 1..n /\ DOMAIN more = 1..Len(more)
      /\ all \in Seq(Tx) /\ DOMAIN all = 1..(n + Len(more))
      /\ \A i \in DOMAIN txs : all[i] = txs[i]
      /\ \A i \in DOMAIN more : all[i + n] = more[i]
  OBVIOUS
<1>2. T \union S = A /\ T \intersect S = {} /\ S \subseteq DOMAIN all
  <2>1. \A i \in DOMAIN all : i \in DOMAIN txs \/ (i - n \in DOMAIN more /\ (i - n) + n = i)
    BY <1>1
  <2>2. \A i \in DOMAIN more : i + n \in DOMAIN all /\ i + n \notin DOMAIN txs
    BY <1>1
  <2>3. \A i \in DOMAIN txs : i \in DOMAIN all
    BY <1>1
  <2>4. T \union S \subseteq A
    BY <1>1, <2>2, <2>3
  <2>5. ASSUME NEW i \in A PROVE i \in T \union S
    <3>1. CASE i \in DOMAIN txs
      BY <1>1, <3>1
    <3>2. CASE i - n \in DOMAIN more /\ (i - n) + n = i
      <4>1. i - n \in M
        BY <1>1, <3>2
      <4> QED
        BY <4>1, <3>2
    <3> QED
      BY <2>1, <3>1, <3>2
  <2> QED
    BY <2>2, <2>4, <2>5
<1>3. h \in Bijection(M, S)
  <2>1. \A i \in M : i \in Int
    BY <1>1
  <2>2. h \in [M -> S]
    OBVIOUS
  <2>3. \A i, j \in M : h[i] = h[j] => i = j
    BY <1>1, <2>1
  <2>4. \A y \in S : \E i \in M : h[i] = y
    OBVIOUS
  <2> QED
    BY <2>2, <2>3, <2>4 DEF Bijection, Injection, Surjection, IsInjective
<1>4. IsFiniteSet(T) /\ IsFiniteSet(S) /\ IsFiniteSet(M)
  <2>1. T \subseteq DOMAIN txs /\ M \subseteq DOMAIN more
    OBVIOUS
  <2>2. IsFiniteSet(DOMAIN txs) /\ IsFiniteSet(DOMAIN more) /\ IsFiniteSet(DOMAIN all)
    BY <1>1, LegFacts
  <2> QED
    BY <1>2, <2>1, <2>2, FS_Subset
<1>5. /\ \A i \in T \union S : fa[i] \in Int
      /\ \A i \in T : ft[i] \in Int /\ ft[i] = fa[i]
      /\ \A i \in M : fm[i] \in Int /\ fa[h[i]] = fm[i]
  <2>1. \A i \in DOMAIN all : all[i].amount \in Int
    BY <1>1, LegFacts
  <2>2. \A i \in M : i + n \in DOMAIN all /\ all[i + n] = more[i]
    BY <1>1
  <2>3. \A i \in T : i \in DOMAIN all /\ all[i] = txs[i]
    BY <1>1
  <2> QED
    BY <1>2, <2>1, <2>2, <2>3
<1>6. /\ Part(all, F) = SumFunctionOnSet(fa, A)
      /\ Part(txs, F) = SumFunctionOnSet(ft, T)
      /\ Part(more, F) = SumFunctionOnSet(fm, M)
  BY DEF Part, AmountOver
<1> HIDE DEF n, all, fa, ft, fm, A, T, M, S, h
<1>7. SumFunctionOnSet(fa, T \union S) = SumFunctionOnSet(fa, T) + SumFunctionOnSet(fa, S)
  BY <1>2, <1>4, <1>5, SumOfUnion
<1>8. SumFunctionOnSet(ft, T) = SumFunctionOnSet(fa, T)
  BY <1>4, <1>5, SumCongruent
<1>9. SumFunctionOnSet(fm, M) = SumFunctionOnSet(fa, S)
  BY <1>3, <1>4, <1>5, SumRenames
<1> QED
  BY <1>2, <1>6, <1>7, <1>8, <1>9 DEF all

LEMMA PartOfPair ==
  ASSUME NEW x \in Tx, NEW y \in Tx, NEW F
  PROVE  Part(<<x, y>>, F) = Share(x, F) + Share(y, F)
<1> DEFINE txs == <<x, y>>
           f == [i \in DOMAIN txs |-> txs[i].amount]
           I == {i \in DOMAIN txs : txs[i] \in F}
           two == {1, 2}
           g == [i \in two |-> IF i \in I THEN f[i] ELSE 0]
<1>1. DOMAIN txs = {1, 2} /\ txs[1] = x /\ txs[2] = y /\ x.amount \in Int /\ y.amount \in Int
  BY DEF Tx
<1>2. /\ \A i \in I : f[i] \in Int /\ g[i] = f[i]
      /\ \A i \in two \ I : g[i] = 0
      /\ \A i \in two : g[i] \in Int
      /\ g[1] = Share(x, F) /\ g[2] = Share(y, F)
      /\ I \in SUBSET two /\ 1 \in two /\ 2 \in two /\ 2 \in {2}
  BY <1>1 DEF Share
<1>3. Part(txs, F) = SumFunctionOnSet(f, I)
  BY DEF Part, AmountOver
<1>4. IsFiniteSet(two) /\ IsFiniteSet({2}) /\ two \ {1} = {2} /\ {2} \ {2} = {}
  BY FS_EmptySet, FS_AddElement, FS_Singleton
<1> HIDE DEF txs, f, I, g, two
<1>5. SumFunctionOnSet(g, two) = SumFunctionOnSet(f, I)
  BY <1>2, <1>4, SumOfPart
<1>6. SumFunctionOnSet(g, two) = g[1] + SumFunctionOnSet(g, {2})
  BY <1>2, <1>4, SumRemovesElement
<1>7. SumFunctionOnSet(g, {2}) = g[2] + SumFunctionOnSet(g, {})
  BY <1>2, <1>4, SumRemovesElement
<1>8. SumFunctionOnSet(g, {}) = 0
  BY SumOfNothing
<1>9. SumFunctionOnSet(g, two) = Share(x, F) + Share(y, F)
  BY <1>2, <1>6, <1>7, <1>8
<1> QED
  BY <1>3, <1>5, <1>9 DEF txs

LEMMA PartOfOptional ==
  ASSUME NEW n \in Int, NEW from \in Accounts, NEW to \in Accounts, NEW F
  PROVE  /\ Optional(n, from, to) \in Seq(Tx)
         /\ Part(Optional(n, from, to), F) = Share(Leg(from, -n), F) + Share(Leg(to, n), F)
<1>1. Leg(from, -n) \in Tx /\ Leg(to, n) \in Tx
  BY DEF Leg, Tx
<1>2. <<>> \in Seq(Tx) /\ <<Leg(from, -n), Leg(to, n)>> \in Seq(Tx)
  BY <1>1
<1>3. CASE n = 0
  <2>1. {i \in DOMAIN <<>> : <<>>[i] \in F} = {}
    OBVIOUS
  <2>2. Part(<<>>, F) = 0
    BY <2>1, SumOfNothing DEF Part, AmountOver
  <2>3. Share(Leg(from, -n), F) = 0 /\ Share(Leg(to, n), F) = 0
    <3>0. \A m \in Int : m + m = 0 => -m = m
      OBVIOUS
    <3>1. -n = 0
      <4>1. n + n = 0
        BY <1>3
      <4> QED
        BY <1>3, <3>0, <4>1, Zenon
    <3>2. Leg(from, -n).amount = -n /\ Leg(to, n).amount = n
      BY DEF Leg
    <3> QED
      BY <1>3, <3>1, <3>2 DEF Share
  <2> QED
    BY <1>2, <1>3, <2>2, <2>3 DEF Optional
<1>4. CASE n # 0
  BY <1>1, <1>2, <1>4, PartOfPair DEF Optional
<1> QED
  BY <1>3, <1>4

(* The legs of a deposit or of a withdrawal.                               *)
TransferTxs(r, from, to) ==
  (<<Leg(from, -r.amount), Leg(to, r.amount)>> \o Optional(r.fee, r.user, r.fee_account))
    \o Optional(r.rounding, r.rounding_account, r.payment)

LEMMA PartOfTransfer ==
  ASSUME NEW r \in Transfers, NEW from \in Accounts, NEW to \in Accounts, NEW F
  PROVE  /\ TransferTxs(r, from, to) \in Seq(Tx)
         /\ Part(TransferTxs(r, from, to), F) =
              Share(Leg(from, -r.amount), F) + Share(Leg(to, r.amount), F)
                + (Share(Leg(r.user, -r.fee), F) + Share(Leg(r.fee_account, r.fee), F))
                + (Share(Leg(r.rounding_account, -r.rounding), F)
                     + Share(Leg(r.payment, r.rounding), F))
<1> DEFINE s1 == <<Leg(from, -r.amount), Leg(to, r.amount)>>
           s2 == Optional(r.fee, r.user, r.fee_account)
           s3 == Optional(r.rounding, r.rounding_account, r.payment)
<1>1. /\ r.payment \in Accounts /\ r.user \in Accounts /\ r.fee_account \in Accounts
      /\ r.rounding_account \in Accounts
      /\ r.amount \in Int /\ r.fee \in Int /\ r.rounding \in Int
  BY DEF Transfers
<1>2. Leg(from, -r.amount) \in Tx /\ Leg(to, r.amount) \in Tx
  BY <1>1 DEF Leg, Tx
<1>3. s1 \in Seq(Tx) /\ s2 \in Seq(Tx) /\ s3 \in Seq(Tx)
  <2>1. s1 \in Seq(Tx)
    BY <1>2
  <2>2. s2 \in Seq(Tx) /\ s3 \in Seq(Tx)
    BY <1>1, PartOfOptional, Zenon
  <2> QED
    BY <2>1, <2>2
<1>4. s1 \o s2 \in Seq(Tx) /\ (s1 \o s2) \o s3 \in Seq(Tx)
  BY <1>3
<1>5. /\ Part(s1, F) = Share(Leg(from, -r.amount), F) + Share(Leg(to, r.amount), F)
      /\ Part(s2, F) = Share(Leg(r.user, -r.fee), F) + Share(Leg(r.fee_account, r.fee), F)
      /\ Part(s3, F) = Share(Leg(r.rounding_account, -r.rounding), F)
                         + Share(Leg(r.payment, r.rounding), F)
  <2>1. Part(s1, F) = Share(Leg(from, -r.amount), F) + Share(Leg(to, r.amount), F)
    BY <1>2, PartOfPair
  <2>0. ASSUME NEW n \in Int, NEW a \in Accounts, NEW b \in Accounts
        PROVE  /\ Optional(n, a, b) \in Seq(Tx)
               /\ Part(Optional(n, a, b), F) = Share(Leg(a, -n), F) + Share(Leg(b, n), F)
    BY PartOfOptional
  <2>2. Part(s2, F) = Share(Leg(r.user, -r.fee), F) + Share(Leg(r.fee_account, r.fee), F)
    BY <1>1, <2>0
  <2>3. Part(s3, F) = Share(Leg(r.rounding_account, -r.rounding), F)
                         + Share(Leg(r.payment, r.rounding), F)
    BY <1>1, <2>0
  <2> QED
    BY <2>1, <2>2, <2>3
<1>6. TransferTxs(r, from, to) = (s1 \o s2) \o s3
  BY DEF TransferTxs
<1> HIDE DEF s1, s2, s3
<1>7. Part((s1 \o s2) \o s3, F) = Part(s1, F) + Part(s2, F) + Part(s3, F)
  <2>1. PICK s12 \in Seq(Tx) : s12 = s1 \o s2
    BY <1>4
  <2>2. Part(s12 \o s3, F) = Part(s12, F) + Part(s3, F)
    BY <1>3, PartOfJoin
  <2>3. Part(s1 \o s2, F) = Part(s1, F) + Part(s2, F)
    BY <1>3, PartOfJoin
  <2> QED
    BY <2>1, <2>2, <2>3
<1> QED
  BY <1>4, <1>5, <1>6, <1>7

LEMMA TransfersAreDepositsAndWithdrawals ==
  ASSUME NEW r
  PROVE  /\ DepositTxs(r) = TransferTxs(r, r.payment, r.user)
         /\ WithdrawalTxs(r) = TransferTxs(r, r.user, r.payment)
BY DEF DepositTxs, WithdrawalTxs, TransferTxs

LEMMA PartOfExchange ==
  ASSUME NEW r \in Trades, NEW F
  PROVE  /\ ExchangeTxs(r) \in Seq(Tx)
         /\ Part(ExchangeTxs(r), F) =
              (Share(Leg(r.base, r.base_amount), F)
                 + Share(Leg(r.base_exchange, -r.base_amount), F))
              + (Share(Leg(r.quote, r.quote_amount), F)
                   + Share(Leg(r.quote_exchange, -r.quote_amount), F))
              + (Share(Leg(r.quote, -r.fee), F) + Share(Leg(r.fee_account, r.fee), F))
              + (Share(Leg(r.base_rounding_account, -r.base_rounding), F)
                   + Share(Leg(r.base_exchange, r.base_rounding), F))
              + (Share(Leg(r.quote_rounding_account, -r.quote_rounding), F)
                   + Share(Leg(r.quote_exchange, r.quote_rounding), F))
<1> DEFINE s1 == <<Leg(r.base, r.base_amount), Leg(r.base_exchange, -r.base_amount)>>
           s2 == <<Leg(r.quote, r.quote_amount), Leg(r.quote_exchange, -r.quote_amount)>>
           s3 == <<Leg(r.quote, -r.fee), Leg(r.fee_account, r.fee)>>
           s4 == Optional(r.base_rounding, r.base_rounding_account, r.base_exchange)
           s5 == Optional(r.quote_rounding, r.quote_rounding_account, r.quote_exchange)
<1>1. /\ r.base \in Accounts /\ r.base_exchange \in Accounts /\ r.base_amount \in Int
      /\ r.quote \in Accounts /\ r.quote_exchange \in Accounts /\ r.quote_amount \in Int
      /\ r.fee_account \in Accounts /\ r.fee \in Int
      /\ r.base_rounding_account \in Accounts /\ r.base_rounding \in Int
      /\ r.quote_rounding_account \in Accounts /\ r.quote_rounding \in Int
  BY DEF Trades
<1>2. /\ Leg(r.base, r.base_amount) \in Tx /\ Leg(r.base_exchange, -r.base_amount) \in Tx
      /\ Leg(r.quote, r.quote_amount) \in Tx /\ Leg(r.quote_exchange, -r.quote_amount) \in Tx
      /\ Leg(r.quote, -r.fee) \in Tx /\ Leg(r.fee_account, r.fee) \in Tx
  BY <1>1 DEF Leg, Tx
<1>3. ASSUME NEW n \in Int, NEW a \in Accounts, NEW b \in Accounts
      PROVE  /\ Optional(n, a, b) \in Seq(Tx)
             /\ Part(Optional(n, a, b), F) = Share(Leg(a, -n), F) + Share(Leg(b, n), F)
  BY PartOfOptional, Zenon
<1>4. s1 \in Seq(Tx) /\ s2 \in Seq(Tx) /\ s3 \in Seq(Tx)
  BY <1>2
<1>5. s4 \in Seq(Tx) /\ s5 \in Seq(Tx)
  BY <1>1, <1>3
<1>6. Part(s1, F) = Share(Leg(r.base, r.base_amount), F)
                      + Share(Leg(r.base_exchange, -r.base_amount), F)
  BY <1>2, PartOfPair
<1>7. Part(s2, F) = Share(Leg(r.quote, r.quote_amount), F)
                      + Share(Leg(r.quote_exchange, -r.quote_amount), F)
  BY <1>2, PartOfPair
<1>8. Part(s3, F) = Share(Leg(r.quote, -r.fee), F) + Share(Leg(r.fee_account, r.fee), F)
  BY <1>2, PartOfPair
<1>9. Part(s4, F) = Share(Leg(r.base_rounding_account, -r.base_rounding), F)
                      + Share(Leg(r.base_exchange, r.base_rounding), F)
  BY <1>1, <1>3
<1>10. Part(s5, F) = Share(Leg(r.quote_rounding_account, -r.quote_rounding), F)
                      + Share(Leg(r.quote_exchange, r.quote_rounding), F)
  BY <1>1, <1>3
<1>11. ExchangeTxs(r) = (((s1 \o s2) \o s3) \o s4) \o s5
  <2>1. <<Leg(r.base, r.base_amount),   Leg(r.base_exchange, -r.base_amount),
          Leg(r.quote, r.quote_amount), Leg(r.quote_exchange, -r.quote_amount),
          Leg(r.quote, -r.fee),         Leg(r.fee_account, r.fee)>> = (s1 \o s2) \o s3
    BY <1>2
  <2> HIDE DEF s1, s2, s3
  <2> QED
    BY <2>1 DEF ExchangeTxs
<1> HIDE DEF s1, s2, s3, s4, s5
<1>12. PICK t2 \in Seq(Tx) : t2 = s1 \o s2
  <2>1. s1 \o s2 \in Seq(Tx)
    BY <1>4
  <2> QED
    BY <2>1
<1>13. PICK t3 \in Seq(Tx) : t3 = t2 \o s3
  <2>1. t2 \o s3 \in Seq(Tx)
    BY <1>4, <1>12
  <2> QED
    BY <2>1
<1>14. PICK t4 \in Seq(Tx) : t4 = t3 \o s4
  <2>1. t3 \o s4 \in Seq(Tx)
    BY <1>5, <1>13
  <2> QED
    BY <2>1
<1>15. PICK t5 \in Seq(Tx) : t5 = t4 \o s5
  <2>1. t4 \o s5 \in Seq(Tx)
    BY <1>5, <1>14
  <2> QED
    BY <2>1
<1>16. Part(t2, F) = Part(s1, F) + Part(s2, F)
  BY <1>4, <1>12, PartOfJoin
<1>17. Part(t3, F) = Part(t2, F) + Part(s3, F)
  BY <1>4, <1>13, PartOfJoin
<1>18. Part(t4, F) = Part(t3, F) + Part(s4, F)
  BY <1>5, <1>14, PartOfJoin
<1>19. Part(t5, F) = Part(t4, F) + Part(s5, F)
  BY <1>5, <1>15, PartOfJoin
<1>20. ExchangeTxs(r) = t5
  BY <1>11, <1>12, <1>13, <1>14, <1>15
<1>21. Part(t5, F) = Part(s1, F) + Part(s2, F) + Part(s3, F) + Part(s4, F) + Part(s5, F)
  BY <1>16, <1>17, <1>18, <1>19
<1> QED
  BY <1>20, <1>21, <1>6, <1>7, <1>8, <1>9, <1>10

(* What moves on an account, and what is on some accounts, are such parts. *)
LEMMA SumsAreParts ==
  ASSUME NEW txs \in Seq(Tx)
  PROVE  /\ \A a : Moved(txs, a) = Part(txs, {x \in Tx : x.account = a})
         /\ \A A : AmountOver(txs, {i \in DOMAIN txs : txs[i].account \in A})
                    = Part(txs, {x \in Tx : x.account \in A})
         /\ AmountOver(txs, {i \in DOMAIN txs : txs[i].amount > 0})
              = Part(txs, {x \in Tx : x.amount > 0})
         /\ AmountOver(txs, {i \in DOMAIN txs : txs[i].amount < 0})
              = Part(txs, {x \in Tx : x.amount < 0})
<1>1. \A i \in DOMAIN txs : txs[i] \in Tx
  OBVIOUS
<1>2. ASSUME NEW a PROVE {i \in DOMAIN txs : txs[i].account = a}
                          = {i \in DOMAIN txs : txs[i] \in {x \in Tx : x.account = a}}
  BY <1>1
<1>3. ASSUME NEW A PROVE {i \in DOMAIN txs : txs[i].account \in A}
                          = {i \in DOMAIN txs : txs[i] \in {x \in Tx : x.account \in A}}
  BY <1>1
<1>4. {i \in DOMAIN txs : txs[i].amount > 0}
        = {i \in DOMAIN txs : txs[i] \in {x \in Tx : x.amount > 0}}
  BY <1>1
<1>5. {i \in DOMAIN txs : txs[i].amount < 0}
        = {i \in DOMAIN txs : txs[i] \in {x \in Tx : x.amount < 0}}
  BY <1>1
<1> QED
  BY <1>2, <1>3, <1>4, <1>5, Zenon DEF Moved, Part

On(A) == {x \in Tx : x.account \in A}

LEMMA ShareOn ==
  ASSUME NEW A, NEW b \in Accounts, NEW n \in Int
  PROVE  Share(Leg(b, n), On(A)) = IF b \in A THEN n ELSE 0
BY DEF Share, Leg, Tx, On

LEMMA LegsAreParts ==
  ASSUME TypeOK, NEW o \in Ops
  PROVE  /\ \A A : Total(o, LegsOn(o, A)) = Part(ops[o].txs, On(A))
         /\ \A A : Total(o, Positive(o, LegsOn(o, A)))
                      = Part(ops[o].txs, {x \in On(A) : x.amount > 0})
         /\ \A A : Total(o, Negative(o, LegsOn(o, A)))
                      = Part(ops[o].txs, {x \in On(A) : x.amount < 0})
<1> DEFINE txs == ops[o].txs
<1>1. txs \in Seq(Tx)
  BY DEF TypeOK, Row
<1>2. \A i \in DOMAIN txs : txs[i] \in Tx
  BY <1>1
<1> HIDE DEF txs
<1>3. ASSUME NEW A
      PROVE  /\ {i \in DOMAIN txs : txs[i].account \in A} = {i \in DOMAIN txs : txs[i] \in On(A)}
             /\ {i \in {j \in DOMAIN txs : txs[j].account \in A} : txs[i].amount > 0}
                  = {i \in DOMAIN txs : txs[i] \in {x \in On(A) : x.amount > 0}}
             /\ {i \in {j \in DOMAIN txs : txs[j].account \in A} : txs[i].amount < 0}
                  = {i \in DOMAIN txs : txs[i] \in {x \in On(A) : x.amount < 0}}
  BY <1>2 DEF On
<1> QED
  BY <1>3 DEF Part, Total, LegsOn, Positive, Negative, txs

(* What a set of operations moved on a set of accounts.                    *)

LEMMA MovedOverAccounts ==
  ASSUME NEW txs \in Seq(Tx), NEW A, IsFiniteSet(A)
  PROVE  /\ SumFunctionOnSet([a \in A |-> Moved(txs, a)], A)
              = AmountOver(txs, {i \in DOMAIN txs : txs[i].account \in A})
         /\ AmountOver(txs, {i \in DOMAIN txs : txs[i].account \in A}) \in Int
<1> DEFINE m == [a \in A |-> Moved(txs, a)]
           f == [i \in DOMAIN txs |-> txs[i].amount]
           Touching(T) == {i \in DOMAIN txs : txs[i].account \in T}
           F == {T \in SUBSET A : SumFunctionOnSet(m, T) = SumFunctionOnSet(f, Touching(T))}
<1>1. \A i \in DOMAIN txs : f[i] \in Int
  BY LegFacts
<1>2. ASSUME NEW T PROVE IsFiniteSet(Touching(T)) /\ \A i \in Touching(T) : f[i] \in Int
  <2>1. Touching(T) \subseteq DOMAIN txs
    OBVIOUS
  <2> QED
    BY <1>1, <2>1, LegFacts, FS_Subset
<1>3. \A a \in A : m[a] \in Int
  <2>1. \A a : Moved(txs, a) \in Int
    BY MovedSplits
  <2> QED
    BY <2>1
<1>4. {} \in F
  <2>1. Touching({}) = {}
    OBVIOUS
  <2> HIDE DEF Touching, m, f
  <2> QED
    BY <2>1, SumOfNothing
<1>5. ASSUME NEW T \in SUBSET A, NEW a \in T, T \ {a} \in F
      PROVE  T \in F
  <2>1. Touching(T) = Touching(T \ {a}) \union Touching({a}) /\ Touching(T \ {a}) \intersect Touching({a}) = {}
    OBVIOUS
  <2>2. SumFunctionOnSet(m, T \ {a}) = SumFunctionOnSet(f, Touching(T \ {a}))
    BY <1>5
  <2>3. m[a] = SumFunctionOnSet(f, Touching({a}))
    <3>1. {i \in DOMAIN txs : txs[i].account = a} = Touching({a})
      OBVIOUS
    <3> HIDE DEF Touching
    <3> QED
      BY <3>1 DEF Moved, AmountOver
  <2>4. IsFiniteSet(T) /\ \A b \in T : m[b] \in Int
    BY <1>3, FS_Subset
  <2> HIDE DEF Touching, m, f
  <2>5. SumFunctionOnSet(m, T) = m[a] + SumFunctionOnSet(m, T \ {a})
    BY <2>4, SumRemovesElement
  <2>6. SumFunctionOnSet(f, Touching(T \ {a}) \union Touching({a}))
          = SumFunctionOnSet(f, Touching(T \ {a})) + SumFunctionOnSet(f, Touching({a}))
    <3>1. IsFiniteSet(Touching(T \ {a})) /\ IsFiniteSet(Touching({a}))
          /\ \A i \in Touching(T \ {a}) \union Touching({a}) : f[i] \in Int
      BY <1>2
    <3> QED
      BY <2>1, <3>1, SumOfUnion
  <2>7. SumFunctionOnSet(f, Touching(T \ {a})) \in Int /\ SumFunctionOnSet(f, Touching({a})) \in Int
    BY <1>2, SumType
  <2>8. SumFunctionOnSet(f, Touching(T))
          = SumFunctionOnSet(f, Touching(T \ {a})) + SumFunctionOnSet(f, Touching({a}))
    BY <2>1, <2>6
  <2>9. SumFunctionOnSet(m, T) = SumFunctionOnSet(f, Touching(T))
    BY <2>2, <2>3, <2>5, <2>7, <2>8
  <2> QED
    BY <2>9
<1>6. SumFunctionOnSet(f, Touching(A)) \in Int
  <2> HIDE DEF f, Touching
  <2> QED
    BY <1>2, SumType
<1> HIDE DEF F
<1>7. \A T \in SUBSET A : T \in F
  BY <1>4, <1>5, SubsetInduction
<1> QED
  BY <1>6, <1>7 DEF F, AmountOver

LEMMA BalancesOverAccounts ==
  ASSUME TypeOK, NEW rows, rows \subseteq Ops, NEW A, IsFiniteSet(rows), IsFiniteSet(A)
  PROVE  SumFunctionOnSet([a \in A |-> Balance(rows, a)], A)
           = SumFunctionOnSet([o \in Ops |-> Total(o, LegsOn(o, A))], rows)
<1> DEFINE f == [a \in A |-> [o \in Ops |-> Moved(ops[o].txs, a)]]
           e == [o \in Ops |-> [a \in A |-> Moved(ops[o].txs, a)]]
           t == [o \in Ops |-> Total(o, LegsOn(o, A))]
           s == [o \in rows |-> SumFunctionOnSet(e[o], A)]
<1>1. ASSUME NEW o \in Ops
      PROVE  /\ \A a : Moved(ops[o].txs, a) \in Int
             /\ SumFunctionOnSet(e[o], A) = t[o] /\ t[o] \in Int
  <2>1. ops[o].txs \in Seq(Tx)
    BY DEF TypeOK, Row
  <2>2. \A a : Moved(ops[o].txs, a) \in Int
    BY <2>1, MovedSplits
  <2>3. /\ SumFunctionOnSet([a \in A |-> Moved(ops[o].txs, a)], A)
              = AmountOver(ops[o].txs, {i \in DOMAIN ops[o].txs : ops[o].txs[i].account \in A})
        /\ AmountOver(ops[o].txs, {i \in DOMAIN ops[o].txs : ops[o].txs[i].account \in A}) \in Int
    BY <2>1, MovedOverAccounts
  <2> QED
    BY <2>2, <2>3 DEF Total, LegsOn
<1>2. \A a \in A, o \in rows : f[a][o] \in Int /\ e[o][a] = f[a][o]
  BY <1>1
<1>3. [a \in A |-> Balance(rows, a)] = [a \in A |-> SumFunctionOnSet(f[a], rows)]
  BY DEF Balance
<1>4. \A o \in rows : s[o] \in Int /\ s[o] = t[o]
  BY <1>1
<1> HIDE DEF f, e, t
<1>5. SumFunctionOnSet([a \in A |-> SumFunctionOnSet(f[a], rows)], A)
        = SumFunctionOnSet([o \in rows |-> SumFunctionOnSet(e[o], A)], rows)
  BY <1>2, SumSwaps
<1> HIDE DEF s
<1>6. SumFunctionOnSet(s, rows) = SumFunctionOnSet(t, rows)
  BY <1>4, SumCongruent
<1> QED
  BY <1>3, <1>5, <1>6 DEF s, t

LEMMA MinusZero == \A n \in Int : n = 0 => -n = 0
<1>1. \A n \in Int : n + n = 0 => -n = n
  OBVIOUS
<1>2. \A n \in Int : n = 0 => n + n = 0
  OBVIOUS
<1> QED
  BY <1>1, <1>2, Zenon

(* A leg of a request is one of those of its parts.                        *)
LEMMA LegsOfJoin ==
  ASSUME NEW txs \in Seq(Tx), NEW more \in Seq(Tx), NEW i \in DOMAIN (txs \o more)
  PROVE  \/ \E j \in DOMAIN txs : (txs \o more)[i] = txs[j]
         \/ \E j \in DOMAIN more : (txs \o more)[i] = more[j]
<1>1. CASE i <= Len(txs)
  BY <1>1
<1>2. CASE i > Len(txs)
  <2>1. i - Len(txs) \in DOMAIN more /\ (txs \o more)[i] = more[i - Len(txs)]
    BY <1>2
  <2> QED
    BY <2>1
<1> QED
  BY <1>1, <1>2

LEMMA LegsOfTwoJoins ==
  ASSUME NEW s1 \in Seq(Tx), NEW s2 \in Seq(Tx), NEW s3 \in Seq(Tx),
         NEW i \in DOMAIN ((s1 \o s2) \o s3)
  PROVE  \/ \E j \in DOMAIN s1 : ((s1 \o s2) \o s3)[i] = s1[j]
         \/ \E j \in DOMAIN s2 : ((s1 \o s2) \o s3)[i] = s2[j]
         \/ \E j \in DOMAIN s3 : ((s1 \o s2) \o s3)[i] = s3[j]
<1>0. s1 \o s2 \in Seq(Tx)
  OBVIOUS
<1>1. PICK t \in Seq(Tx) : t = s1 \o s2
  BY <1>0
<1>2. \/ \E j \in DOMAIN t : (t \o s3)[i] = t[j]
      \/ \E j \in DOMAIN s3 : (t \o s3)[i] = s3[j]
  <2>1. i \in DOMAIN (t \o s3)
    BY <1>1
  <2> QED
    BY <2>1, LegsOfJoin
<1>3. ASSUME NEW j \in DOMAIN (s1 \o s2)
      PROVE  \/ \E k \in DOMAIN s1 : (s1 \o s2)[j] = s1[k]
             \/ \E k \in DOMAIN s2 : (s1 \o s2)[j] = s2[k]
  BY <1>3, LegsOfJoin
<1> QED
  BY <1>1, <1>2, <1>3

(* The accounts that the legs of a transfer and of an exchange are on.     *)
LEMMA LegsOfTransfer ==
  ASSUME NEW r \in Transfers, NEW from \in Accounts, NEW to \in Accounts
  PROVE  /\ \A i \in DOMAIN TransferTxs(r, from, to) :
              LET a == TransferTxs(r, from, to)[i].account IN
              \/ a \in {from, to}
              \/ r.fee # 0 /\ a \in {r.user, r.fee_account}
              \/ r.rounding # 0 /\ a \in {r.rounding_account, r.payment}
         /\ \E i \in DOMAIN TransferTxs(r, from, to) : TransferTxs(r, from, to)[i].account = from
         /\ \E i \in DOMAIN TransferTxs(r, from, to) : TransferTxs(r, from, to)[i].account = to
<1> DEFINE s1 == <<Leg(from, -r.amount), Leg(to, r.amount)>>
           s2 == Optional(r.fee, r.user, r.fee_account)
           s3 == Optional(r.rounding, r.rounding_account, r.payment)
           txs == TransferTxs(r, from, to)
<1>1. /\ r.payment \in Accounts /\ r.user \in Accounts /\ r.fee_account \in Accounts
      /\ r.rounding_account \in Accounts
      /\ r.amount \in Int /\ r.fee \in Int /\ r.rounding \in Int
  BY DEF Transfers
<1>2. s1 \in Seq(Tx) /\ s2 \in Seq(Tx) /\ s3 \in Seq(Tx)
  <2>1. Leg(from, -r.amount) \in Tx /\ Leg(to, r.amount) \in Tx
    BY <1>1 DEF Leg, Tx
  <2>2. s1 \in Seq(Tx)
    BY <2>1
  <2>3. s2 \in Seq(Tx) /\ s3 \in Seq(Tx)
    BY <1>1, PartOfOptional, Zenon
  <2> QED
    BY <2>2, <2>3
<1>3. txs = (s1 \o s2) \o s3
  BY DEF TransferTxs
<1>4. /\ \A i \in DOMAIN s1 : s1[i].account \in {from, to}
      /\ \A i \in DOMAIN s2 : s2[i].account \in {r.user, r.fee_account} /\ r.fee # 0
      /\ \A i \in DOMAIN s3 : s3[i].account \in {r.rounding_account, r.payment} /\ r.rounding # 0
      /\ 1 \in DOMAIN s1 /\ 2 \in DOMAIN s1 /\ s1[1].account = from /\ s1[2].account = to
  BY DEF Optional, Leg
<1> HIDE DEF s1, s2, s3, txs
<1>5. ASSUME NEW i \in DOMAIN txs
      PROVE  \/ txs[i].account \in {from, to}
             \/ r.fee # 0 /\ txs[i].account \in {r.user, r.fee_account}
             \/ r.rounding # 0 /\ txs[i].account \in {r.rounding_account, r.payment}
  <2>1. \/ \E j \in DOMAIN s1 : txs[i] = s1[j]
        \/ \E j \in DOMAIN s2 : txs[i] = s2[j]
        \/ \E j \in DOMAIN s3 : txs[i] = s3[j]
    BY <1>2, <1>3, <1>5, LegsOfTwoJoins
  <2> QED
    BY <1>4, <2>1
<1>6. /\ 1 \in DOMAIN txs /\ txs[1].account = from
      /\ 2 \in DOMAIN txs /\ txs[2].account = to
  BY <1>2, <1>3, <1>4
<1> QED
  BY <1>5, <1>6 DEF txs

LEMMA TradeTypes ==
  ASSUME NEW r \in Trades
  PROVE  /\ r.base \in Accounts /\ r.base_exchange \in Accounts /\ r.base_amount \in Int
         /\ r.quote \in Accounts /\ r.quote_exchange \in Accounts /\ r.quote_amount \in Int
         /\ r.fee_account \in Accounts /\ r.fee \in Int
         /\ r.base_rounding_account \in Accounts /\ r.base_rounding \in Int
         /\ r.quote_rounding_account \in Accounts /\ r.quote_rounding \in Int
         /\ -r.base_amount \in Int /\ -r.quote_amount \in Int /\ -r.fee \in Int
         /\ -r.base_rounding \in Int /\ -r.quote_rounding \in Int
BY DEF Trades

LEMMA LegsOfExchange ==
  ASSUME NEW r \in Trades
  PROVE  /\ \A i \in DOMAIN ExchangeTxs(r) :
              LET a == ExchangeTxs(r)[i].account IN
              \/ a \in {r.base, r.base_exchange, r.quote, r.quote_exchange, r.fee_account}
              \/ r.base_rounding # 0 /\ a \in {r.base_rounding_account, r.base_exchange}
              \/ r.quote_rounding # 0 /\ a \in {r.quote_rounding_account, r.quote_exchange}
         /\ \E i \in DOMAIN ExchangeTxs(r) : ExchangeTxs(r)[i].account = r.base
         /\ \E i \in DOMAIN ExchangeTxs(r) : ExchangeTxs(r)[i].account = r.quote
<1> DEFINE s1 == <<Leg(r.base, r.base_amount), Leg(r.base_exchange, -r.base_amount),
                   Leg(r.quote, r.quote_amount), Leg(r.quote_exchange, -r.quote_amount),
                   Leg(r.quote, -r.fee), Leg(r.fee_account, r.fee)>>
           s2 == Optional(r.base_rounding, r.base_rounding_account, r.base_exchange)
           s3 == Optional(r.quote_rounding, r.quote_rounding_account, r.quote_exchange)
           txs == ExchangeTxs(r)
<1>1. s1 \in Seq(Tx)
  <2>1. /\ Leg(r.base, r.base_amount) \in Tx /\ Leg(r.base_exchange, -r.base_amount) \in Tx
        /\ Leg(r.quote, r.quote_amount) \in Tx /\ Leg(r.quote_exchange, -r.quote_amount) \in Tx
        /\ Leg(r.quote, -r.fee) \in Tx /\ Leg(r.fee_account, r.fee) \in Tx
    BY TradeTypes DEF Leg, Tx
  <2> QED
    BY <2>1
<1>2. s2 \in Seq(Tx) /\ s3 \in Seq(Tx)
  <2>1. ASSUME NEW n \in Int, NEW a \in Accounts, NEW b \in Accounts
        PROVE  Optional(n, a, b) \in Seq(Tx)
    BY PartOfOptional, Zenon
  <2> QED
    BY <2>1, TradeTypes
<1>3. txs = (s1 \o s2) \o s3
  BY DEF ExchangeTxs
<1>4. /\ \A j \in DOMAIN s1 : s1[j].account \in {r.base, r.base_exchange, r.quote,
                                                 r.quote_exchange, r.fee_account}
      /\ \A j \in DOMAIN s2 : /\ s2[j].account \in {r.base_rounding_account, r.base_exchange}
                              /\ r.base_rounding # 0
      /\ \A j \in DOMAIN s3 : /\ s3[j].account \in {r.quote_rounding_account, r.quote_exchange}
                              /\ r.quote_rounding # 0
      /\ 1 \in DOMAIN s1 /\ 3 \in DOMAIN s1
      /\ s1[1].account = r.base /\ s1[3].account = r.quote
  BY DEF Optional, Leg
<1> HIDE DEF s1, s2, s3, txs
<1>5. ASSUME NEW i \in DOMAIN txs
      PROVE  \/ txs[i].account \in {r.base, r.base_exchange, r.quote, r.quote_exchange,
                                     r.fee_account}
             \/ r.base_rounding # 0 /\ txs[i].account \in {r.base_rounding_account, r.base_exchange}
             \/ /\ r.quote_rounding # 0
                /\ txs[i].account \in {r.quote_rounding_account, r.quote_exchange}
  <2>1. \/ \E j \in DOMAIN s1 : txs[i] = s1[j]
        \/ \E j \in DOMAIN s2 : txs[i] = s2[j]
        \/ \E j \in DOMAIN s3 : txs[i] = s3[j]
    BY <1>1, <1>2, <1>3, <1>5, LegsOfTwoJoins
  <2> QED
    BY <1>4, <2>1
<1>6. /\ 1 \in DOMAIN txs /\ txs[1].account = r.base
      /\ 3 \in DOMAIN txs /\ txs[3].account = r.quote
  BY <1>1, <1>2, <1>3, <1>4
<1> QED
  BY <1>5, <1>6 DEF txs

-----------------------------------------------------------------------------
(* Requests as the code makes them: no caller of create_deposit passes a   *)
(* fee or a rounding, and its documentation has the fee taken from what is *)
(* deposited.                                                              *)

Passive(a) == KindOf[a] # "active"

OrdinaryDeposit(r) ==
  /\ 0 <= r.fee /\ r.fee < r.amount
  /\ Passive(r.payment)
  /\ r.rounding = 0 \/ Passive(r.rounding_account)

OrdinaryExchange(r) ==
  /\ AssetOf[r.base] \in CryptoAssets /\ AssetOf[r.quote] \notin CryptoAssets
  /\ r.base_amount < 0 => r.fee <= r.quote_amount
  /\ Passive(r.base_exchange) /\ Passive(r.quote_exchange)
  /\ r.base_rounding = 0 \/ Passive(r.base_rounding_account)
  /\ r.quote_rounding = 0 \/ Passive(r.quote_rounding_account)

LEMMA DepositMovesForward ==
  ASSUME NEW r \in Transfers, OrdinaryDeposit(r), NEW a \in Active
  PROVE  Moved(DepositTxs(r), a) >= 0
<1> DEFINE F == {x \in Tx : x.account = a}
<1>1. /\ r.payment \in Accounts /\ r.user \in Accounts /\ r.fee_account \in Accounts
      /\ r.rounding_account \in Accounts
      /\ r.amount \in Int /\ r.fee \in Int /\ r.rounding \in Int
  BY DEF Transfers
<1>2. ASSUME NEW b \in Accounts, NEW n \in Int
      PROVE  Share(Leg(b, n), F) = IF b = a THEN n ELSE 0
  BY DEF Share, Leg, Tx
<1>3. DepositTxs(r) \in Seq(Tx) /\ Moved(DepositTxs(r), a) = Part(DepositTxs(r), F)
  <2>1. DepositTxs(r) \in Seq(Tx)
    BY <1>1, PartOfTransfer, TransfersAreDepositsAndWithdrawals
  <2> QED
    BY <2>1, SumsAreParts
<1>4. Part(DepositTxs(r), F) =
        Share(Leg(r.payment, -r.amount), F) + Share(Leg(r.user, r.amount), F)
          + (Share(Leg(r.user, -r.fee), F) + Share(Leg(r.fee_account, r.fee), F))
          + (Share(Leg(r.rounding_account, -r.rounding), F)
               + Share(Leg(r.payment, r.rounding), F))
  BY <1>1, PartOfTransfer, TransfersAreDepositsAndWithdrawals
<1>5. /\ Share(Leg(r.payment, -r.amount), F) = 0
      /\ Share(Leg(r.user, r.amount), F) = IF r.user = a THEN r.amount ELSE 0
      /\ Share(Leg(r.user, -r.fee), F) = IF r.user = a THEN -r.fee ELSE 0
      /\ Share(Leg(r.fee_account, r.fee), F) = IF r.fee_account = a THEN r.fee ELSE 0
      /\ Share(Leg(r.rounding_account, -r.rounding), F) = 0
      /\ Share(Leg(r.payment, r.rounding), F) = 0
  <2>1. r.payment # a
    BY DEF OrdinaryDeposit, Passive, Active
  <2>2. -r.amount \in Int /\ -r.fee \in Int /\ -r.rounding \in Int
    BY <1>1
  <2>3. r.rounding_account = a => -r.rounding = 0
    <3>1. r.rounding_account = a => r.rounding = 0
      BY DEF OrdinaryDeposit, Passive, Active
    <3> QED
      BY <1>1, <3>1, MinusZero
  <2> HIDE DEF F
  <2> QED
    BY <1>1, <1>2, <2>1, <2>2, <2>3
<1> HIDE DEF F
<1>6. 0 <= r.fee /\ r.fee < r.amount
  BY DEF OrdinaryDeposit
<1>7. Part(DepositTxs(r), F) >= 0
  BY <1>1, <1>4, <1>5, <1>6
<1> QED
  BY <1>3, <1>7

LEMMA ExchangeMovesForward ==
  ASSUME NEW r \in Trades, OrdinaryExchange(r), r.fee >= 0,
         r.base_amount * r.quote_amount < 0, NEW a \in Active,
         IF r.base_amount > 0 THEN AssetOf[a] \in CryptoAssets
                              ELSE AssetOf[a] \notin CryptoAssets
  PROVE  Moved(ExchangeTxs(r), a) >= 0
<1> DEFINE F == {x \in Tx : x.account = a}
<1>1. /\ r.base \in Accounts /\ r.base_exchange \in Accounts /\ r.base_amount \in Int
      /\ r.quote \in Accounts /\ r.quote_exchange \in Accounts /\ r.quote_amount \in Int
      /\ r.fee_account \in Accounts /\ r.fee \in Int
      /\ r.base_rounding_account \in Accounts /\ r.base_rounding \in Int
      /\ r.quote_rounding_account \in Accounts /\ r.quote_rounding \in Int
  BY DEF Trades
<1>2. ASSUME NEW b \in Accounts, NEW n \in Int
      PROVE  Share(Leg(b, n), F) = IF b = a THEN n ELSE 0
  BY DEF Share, Leg, Tx
<1>3. ExchangeTxs(r) \in Seq(Tx) /\ Moved(ExchangeTxs(r), a) = Part(ExchangeTxs(r), F)
  <2>1. ExchangeTxs(r) \in Seq(Tx)
    BY PartOfExchange
  <2> QED
    BY <2>1, SumsAreParts
<1>4. Part(ExchangeTxs(r), F) =
              (Share(Leg(r.base, r.base_amount), F)
                 + Share(Leg(r.base_exchange, -r.base_amount), F))
              + (Share(Leg(r.quote, r.quote_amount), F)
                   + Share(Leg(r.quote_exchange, -r.quote_amount), F))
              + (Share(Leg(r.quote, -r.fee), F) + Share(Leg(r.fee_account, r.fee), F))
              + (Share(Leg(r.base_rounding_account, -r.base_rounding), F)
                   + Share(Leg(r.base_exchange, r.base_rounding), F))
              + (Share(Leg(r.quote_rounding_account, -r.quote_rounding), F)
                   + Share(Leg(r.quote_exchange, r.quote_rounding), F))
  BY PartOfExchange
<1>5. /\ -r.base_amount \in Int /\ -r.quote_amount \in Int /\ -r.fee \in Int
      /\ -r.base_rounding \in Int /\ -r.quote_rounding \in Int
  BY <1>1
<1>6. /\ r.base_exchange # a /\ r.quote_exchange # a
      /\ r.base_rounding_account = a => -r.base_rounding = 0
      /\ r.quote_rounding_account = a => -r.quote_rounding = 0
  BY <1>1, MinusZero DEF OrdinaryExchange, Passive, Active
<1> HIDE DEF F
<1>7. /\ Share(Leg(r.base, r.base_amount), F) = IF r.base = a THEN r.base_amount ELSE 0
      /\ Share(Leg(r.base_exchange, -r.base_amount), F) = 0
      /\ Share(Leg(r.quote, r.quote_amount), F) = IF r.quote = a THEN r.quote_amount ELSE 0
      /\ Share(Leg(r.quote_exchange, -r.quote_amount), F) = 0
      /\ Share(Leg(r.quote, -r.fee), F) = IF r.quote = a THEN -r.fee ELSE 0
      /\ Share(Leg(r.fee_account, r.fee), F) = IF r.fee_account = a THEN r.fee ELSE 0
      /\ Share(Leg(r.base_rounding_account, -r.base_rounding), F) = 0
      /\ Share(Leg(r.base_exchange, r.base_rounding), F) = 0
      /\ Share(Leg(r.quote_rounding_account, -r.quote_rounding), F) = 0
      /\ Share(Leg(r.quote_exchange, r.quote_rounding), F) = 0
  BY <1>1, <1>2, <1>5, <1>6
<1>8. IF r.base_amount > 0 THEN r.quote # a ELSE r.base # a /\ r.fee <= r.quote_amount
  <2>1. r.base_amount > 0 \/ r.base_amount < 0
    <3>1. r.base_amount # 0
      <4>1. \A m, n \in Int : m = 0 => ~(m * n < 0)
        OBVIOUS
      <4> QED
        BY <1>1, <4>1
    <3> QED
      BY <1>1, <3>1
  <2> QED
    BY <1>1, <2>1 DEF OrdinaryExchange
<1>9. Part(ExchangeTxs(r), F) >= 0
  BY <1>1, <1>4, <1>7, <1>8
<1> QED
  BY <1>3, <1>9

(* The account a deposit takes from is not active: its refund credits it.  *)
LEMMA DepositTakesFromOutside ==
  ASSUME NEW r \in Transfers, OrdinaryDeposit(r)
  PROVE  Lowest(DepositTxs(r)) \intersect Active = {}
<1> DEFINE s1 == <<Leg(r.payment, -r.amount), Leg(r.user, r.amount)>>
           s2 == Optional(r.fee, r.user, r.fee_account)
           s3 == Optional(r.rounding, r.rounding_account, r.payment)
           txs == DepositTxs(r)
<1>1. /\ r.payment \in Accounts /\ r.user \in Accounts /\ r.fee_account \in Accounts
      /\ r.rounding_account \in Accounts
      /\ r.amount \in Int /\ r.fee \in Int /\ r.rounding \in Int
      /\ 0 <= r.fee /\ r.fee < r.amount
  BY DEF Transfers, OrdinaryDeposit
<1>2. s1 \in Seq(Tx) /\ s2 \in Seq(Tx) /\ s3 \in Seq(Tx) /\ s1 \o s2 \in Seq(Tx)
  <2>1. Leg(r.payment, -r.amount) \in Tx /\ Leg(r.user, r.amount) \in Tx
    BY <1>1 DEF Leg, Tx
  <2>2. s1 \in Seq(Tx)
    BY <2>1
  <2>3. s2 \in Seq(Tx) /\ s3 \in Seq(Tx)
    BY <1>1, PartOfOptional, Zenon
  <2> QED
    BY <2>2, <2>3
<1>3. txs = (s1 \o s2) \o s3
  BY DEF DepositTxs
<1>4. \A i \in DOMAIN s1 : s1[i] \in {Leg(r.payment, -r.amount), Leg(r.user, r.amount)}
  OBVIOUS
<1>5. \A i \in DOMAIN s2 : s2[i] \in {Leg(r.user, -r.fee), Leg(r.fee_account, r.fee)}
  BY DEF Optional
<1>6. \A i \in DOMAIN s3 : /\ s3[i] \in {Leg(r.rounding_account, -r.rounding),
                                         Leg(r.payment, r.rounding)}
                           /\ r.rounding # 0
  BY DEF Optional
<1>7. /\ \A i \in DOMAIN s1 : Passive(s1[i].account) \/ s1[i].amount > -r.amount
      /\ \A i \in DOMAIN s2 : s2[i].amount > -r.amount
      /\ \A i \in DOMAIN s3 : Passive(s3[i].account)
  BY <1>1, <1>4, <1>5, <1>6 DEF Leg, OrdinaryDeposit
<1>8. 1 \in DOMAIN txs /\ txs[1].amount = -r.amount
  <2>1. 1 \in DOMAIN s1 /\ s1[1].amount = -r.amount
    BY DEF Leg
  <2> HIDE DEF s1, s2, s3, txs
  <2> QED
    BY <1>2, <1>3, <2>1
<1> HIDE DEF s1, s2, s3, txs
<1>9. ASSUME NEW i \in DOMAIN txs
      PROVE  Passive(txs[i].account) \/ txs[i].amount > -r.amount
  <2>1. PICK t \in Seq(Tx) : t = s1 \o s2
    BY <1>2
  <2>2. \/ \E j \in DOMAIN t : txs[i] = t[j]
        \/ \E j \in DOMAIN s3 : txs[i] = s3[j]
    BY <1>2, <1>3, <1>9, <2>1, LegsOfJoin
  <2>3. ASSUME NEW j \in DOMAIN t
        PROVE  \/ \E k \in DOMAIN s1 : t[j] = s1[k]
               \/ \E k \in DOMAIN s2 : t[j] = s2[k]
    BY <1>2, <2>1, <2>3, LegsOfJoin
  <2> QED
    BY <1>7, <2>2, <2>3
<1>10. ASSUME NEW i \in DOMAIN txs, \A k \in DOMAIN txs : txs[i].amount =< txs[k].amount
       PROVE  Passive(txs[i].account)
  <2>1. txs[i].amount <= -r.amount
    BY <1>8, <1>10
  <2>2. txs[i].amount \in Int
    <3>1. txs \in Seq(Tx)
      BY <1>2, <1>3
    <3> QED
      BY <3>1, LegFacts
  <2> QED
    BY <1>1, <1>9, <2>1, <2>2
<1>11. \A a \in Lowest(txs) : Passive(a)
  BY <1>10 DEF Lowest
<1> QED
  BY <1>11 DEF Passive, Active, txs

OrdinaryRequests ==
  /\ \A r \in Deposits \union Payments : OrdinaryDeposit(r)
  /\ \A r \in Exchanges : OrdinaryExchange(r)

-----------------------------------------------------------------------------
(* Concurrent requests do not spend the same money twice.                  *)

(* The requests and commands of the code whose validation other sessions   *)
(* see: no withdrawal, which the code validates inside a transaction, and  *)
(* no reject(), which nothing calls.                                       *)
QuietRequests ==
  /\ Withdrawals = {}
  /\ "reject" \notin Commands
  /\ \A r \in Deposits \union Payments : OrdinaryDeposit(r)

IsDeposit(o) == ops[o].type = "deposit"

OnlyDepositsHide ==
  /\ \A o \in Ops : ops[o].type # "withdrawal"
  /\ \A o \in hidden : IsDeposit(o) /\ ops[o].status # "absent"

DepositsGive ==
  \A o \in Ops, a \in Active : IsDeposit(o) => Moved(ops[o].txs, a) >= 0

(* Only deposits are worked on by two sessions: they alone have commands.  *)
OthersAreOfOneSession ==
  \A s, t \in Sessions :
    s # t /\ ses[s].op = ses[t].op /\ ses[s].op # None => IsDeposit(ses[s].op)

(* The status of any other operation is the one its session left it with.  *)
OthersStand ==
  \A s \in Sessions :
    /\ ~At(s, "reject_save")
    /\ ses[s].pc \in {"refund_debit", "refund_credit"} => ops[ses[s].op].type = "refund"
    /\ ~At(s, "idle") /\ ~IsDeposit(ses[s].op) =>
         /\ ses[s].pc \in Creating => ops[ses[s].op].status = "new"
         /\ ses[s].pc \in Committing \union {"cancel_save"} =>
              ops[ses[s].op].status = "hold"

(* The last check of account a for operation o has been passed.            *)
Passed(o, a) ==
  \E s \in Sessions :
    /\ ses[s].op = o
    /\ At(s, "hold_save") \/ (At(s, "hold_check") /\ a \notin ses[s].todo)
Takes(o, a) == ops[o].status \in Held \/ Passed(o, a)
Recorded(o) == ops[o].status \notin {"absent", "rolled_back"}

(* What an operation is counted for on an active account: its debits once  *)
(* its last check is passed, its credits as soon as it is recorded.        *)
Weight(o, a) ==
  IF IsDeposit(o)
  THEN IF Recorded(o) /\ o \notin hidden THEN Moved(ops[o].txs, a) ELSE 0
  ELSE (IF Takes(o, a) THEN Debited(ops[o].txs, a) ELSE 0)
         + (IF Recorded(o) THEN Credited(ops[o].txs, a) ELSE 0)
Backed ==
  \A a \in Active : SumFunctionOnSet([o \in Ops |-> Weight(o, a)], Ops) >= 0

QInv == OnlyDepositsHide /\ DepositsGive /\ OthersAreOfOneSession /\ OthersStand

-----------------------------------------------------------------------------
(* What makes the weights grow.                                            *)

LEMMA WeightType ==
  ASSUME TypeOK, NEW o \in Ops, NEW a
  PROVE  Weight(o, a) \in Int
<1>1. ops[o].txs \in Seq(Tx)
  BY DEF TypeOK, Row
<1> QED
  BY <1>1, MovedSplits DEF Weight

(* An operation stands: what was recorded stays so, what was shown too,    *)
(* and its debits are not counted before its last check is passed.         *)
Stands(o, a) ==
  /\ ops'[o].type = ops[o].type
  /\ Recorded(o) => Recorded(o)'
  /\ IF IsDeposit(o)
     THEN /\ ops'[o].txs = ops[o].txs
          /\ o \notin hidden => o \notin hidden'
     ELSE /\ Takes(o, a)' => \/ Takes(o, a) /\ ops'[o].txs = ops[o].txs
                             \/ Debited(ops'[o].txs, a) = 0
          /\ Credited(ops[o].txs, a) <= Credited(ops'[o].txs, a)

LEMMA StandingWeighs ==
  ASSUME TypeOK, TypeOK', DepositsGive', NEW o \in Ops, NEW a \in Active,
         \/ Stands(o, a)
         \/ IsDeposit(o) /\ ~Recorded(o)' /\ o \in hidden /\ ops'[o].type = ops[o].type
  PROVE  Weight(o, a) <= Weight(o, a)'
<1>1. ops[o].txs \in Seq(Tx) /\ ops'[o].txs \in Seq(Tx)
  BY DEF TypeOK, Row
<1>2. /\ Debited(ops[o].txs, a) \in Int /\ Debited(ops[o].txs, a) <= 0
      /\ Credited(ops[o].txs, a) \in Int /\ Credited(ops[o].txs, a) >= 0
      /\ Moved(ops[o].txs, a) = Debited(ops[o].txs, a) + Credited(ops[o].txs, a)
  BY <1>1, MovedSplits
<1>3. /\ Debited(ops'[o].txs, a) \in Int /\ Debited(ops'[o].txs, a) <= 0
      /\ Credited(ops'[o].txs, a) \in Int /\ Credited(ops'[o].txs, a) >= 0
      /\ Moved(ops'[o].txs, a) = Debited(ops'[o].txs, a) + Credited(ops'[o].txs, a)
  BY <1>1, MovedSplits
<1>4. IsDeposit(o)' => Moved(ops'[o].txs, a) >= 0
  BY DEF DepositsGive, Active
<1>5. IsDeposit(o)' <=> IsDeposit(o)
  BY DEF Stands, IsDeposit
<1>6. Weight(o, a)' = IF IsDeposit(o)'
                      THEN IF Recorded(o)' /\ o \notin hidden' THEN Moved(ops'[o].txs, a) ELSE 0
                      ELSE (IF Takes(o, a)' THEN Debited(ops'[o].txs, a) ELSE 0)
                             + (IF Recorded(o)' THEN Credited(ops'[o].txs, a) ELSE 0)
  BY DEF Weight
<1>7. CASE IsDeposit(o)
  BY <1>7, <1>2, <1>3, <1>4, <1>5, <1>6 DEF Weight, Stands
<1>8. CASE ~IsDeposit(o)
  <2>1. Stands(o, a)
    BY <1>8
  <2>2. (IF Takes(o, a) THEN Debited(ops[o].txs, a) ELSE 0)
           <= (IF Takes(o, a)' THEN Debited(ops'[o].txs, a) ELSE 0)
    BY <1>8, <1>2, <1>3, <2>1 DEF Stands
  <2>3. (IF Recorded(o) THEN Credited(ops[o].txs, a) ELSE 0)
           <= (IF Recorded(o)' THEN Credited(ops'[o].txs, a) ELSE 0)
    BY <1>8, <1>2, <1>3, <2>1 DEF Stands
  <2> QED
    BY <1>8, <1>2, <1>3, <1>5, <1>6, <2>2, <2>3 DEF Weight
<1> QED
  BY <1>7, <1>8

(* An operation just inserted weighs nothing, then its credits.            *)
LEMMA NewWeighs ==
  ASSUME TypeOK, TypeOK', WorksOnRow, DepositsGive', NEW o \in Ops, NEW a \in Active,
         ops[o].status = "absent", ops'[o].status = "new", ~Passed(o, a)'
  PROVE  Weight(o, a) <= Weight(o, a)'
<1>1. ~Passed(o, a)
  BY DEF Passed, WorksOnRow
<1>2. Weight(o, a) = 0
  BY <1>1 DEF Weight, IsDeposit, Recorded, Takes
<1>3. ops'[o].txs \in Seq(Tx)
  BY DEF TypeOK, Row
<1>4. Credited(ops'[o].txs, a) \in Int /\ Credited(ops'[o].txs, a) >= 0
  BY <1>3, MovedSplits
<1>5. IsDeposit(o)' => Moved(ops'[o].txs, a) >= 0
  BY DEF DepositsGive, Active
<1>6. ~Takes(o, a)'
  BY DEF Takes
<1> QED
  BY <1>2, <1>4, <1>5, <1>6 DEF Weight

Grows == \A o \in Ops, a \in Active : Weight(o, a) <= Weight(o, a)'

LEMMA GrowthBacks ==
  ASSUME IsFiniteSet(Ops), TypeOK, TypeOK', Backed, NEW a \in Active,
         \A o \in Ops : Weight(o, a) <= Weight(o, a)'
  PROVE  SumFunctionOnSet([o \in Ops |-> Weight(o, a)'], Ops) >= 0
<1> DEFINE f == [o \in Ops |-> Weight(o, a)]
           g == [o \in Ops |-> Weight(o, a)']
<1>1. \A o \in Ops : Weight(o, a) \in Int
  BY WeightType
<1>2. \A o \in Ops : Weight(o, a)' \in Int
  <2>1. ASSUME NEW o \in Ops PROVE Weight(o, a)' \in Int
    <3>1. ops'[o].txs \in Seq(Tx)
      BY DEF TypeOK, Row
    <3> QED
      BY <3>1, MovedSplits DEF Weight
  <2> QED
    BY <2>1
<1>3. \A o \in Ops : f[o] \in Int /\ g[o] \in Int /\ f[o] <= g[o]
  BY <1>1, <1>2
<1>4. SumFunctionOnSet(f, Ops) >= 0
  BY DEF Backed
<1> HIDE DEF f, g
<1>5. SumFunctionOnSet(f, Ops) <= SumFunctionOnSet(g, Ops)
  BY <1>3, SumMonotonic
<1>6. SumFunctionOnSet(f, Ops) \in Int /\ SumFunctionOnSet(g, Ops) \in Int
  BY <1>3, SumType
<1>7. SumFunctionOnSet(g, Ops) >= 0
  BY <1>4, <1>5, <1>6
<1> QED
  BY <1>7 DEF g

-----------------------------------------------------------------------------
(* One lemma per action, again.                                            *)

(* Nobody passes a check.                                                  *)
LEMMA NobodyPasses ==
  ASSUME NEW s \in Sessions, OnlySession(s), ses'[s].pc \notin {"hold_check", "hold_save"}
  PROVE  \A o, a : Passed(o, a)' => Passed(o, a)
BY DEF Passed, OnlySession

LEMMA LoadsGrow ==
  ASSUME IInv, IInv', QInv, QuietRequests, NEW s \in Sessions,
         CommitLoad(s) \/ CancelLoad(s) \/ RefundLoad(s)
  PROVE  QInv' /\ Grows
<1> USE DEF IInv, QInv
<1>1. /\ At(s, "idle") /\ UNCHANGED <<ops, hidden>> /\ OnlySession(s)
      /\ ses'[s].op \in Ops
      /\ ses'[s].pc \in {"commit_check", "cancel_save", "refund_insert"}
      /\ ops[ses'[s].op].type \in Managed
  BY NoneAssumption
     DEF CommitLoad, CancelLoad, RefundLoad, Load, TypeOK, OnlySession, Visible, Managed
<1>2. IsDeposit(ses'[s].op) /\ ops'[ses'[s].op].type = "deposit"
  BY <1>1 DEF OnlyDepositsHide, IsDeposit, Managed
<1>3. OnlyDepositsHide' /\ DepositsGive'
  BY <1>1 DEF OnlyDepositsHide, DepositsGive, IsDeposit
<1>4. OthersAreOfOneSession'
  BY <1>1, <1>2 DEF OthersAreOfOneSession, IsDeposit, OnlySession
<1>5. OthersStand'
  BY <1>1, <1>2 DEF OthersStand, IsDeposit, OnlySession
<1>6. \A o, a : Passed(o, a)' => Passed(o, a)
  BY <1>1, NobodyPasses
<1>7. \A o \in Ops, a \in Active : Stands(o, a)
  <2> SUFFICES ASSUME NEW o \in Ops, NEW a \in Active PROVE Stands(o, a)
    OBVIOUS
  <2>1. Credited(ops[o].txs, a) <= Credited(ops[o].txs, a)
    BY MovedSplits DEF TypeOK, Row
  <2> QED
    BY <1>1, <1>6, <2>1 DEF Stands, Recorded, Takes
<1> QED
  BY <1>3, <1>4, <1>5, <1>7, StandingWeighs DEF Grows

(* The session ends; the statuses it may leave are those of its jobs.      *)
LEMMA EndsGrow ==
  ASSUME IInv, IInv', QInv, QuietRequests, NEW s \in Sessions, Ends(s), ~At(s, "idle"),
         \/ UNCHANGED ops
         \/ OnlyStatus(ses[s].op, "committed") /\ At(s, "commit_save")
         \/ OnlyStatus(ses[s].op, "cancelled")
         \/ OnlyStatus(ses[s].op, "removed")
         \/ OnlyStatus(ses[s].op, "hold") /\ At(s, "hold_save")
         \/ OnlyStatus(ses[s].op, "rolled_back") /\ ses[s].job \in AtomicJobs
  PROVE  QInv' /\ Grows
<1> USE DEF IInv, QInv
<1>0. \A o \in Ops : /\ ops'[o].type = ops[o].type /\ ops'[o].txs = ops[o].txs
                     /\ o # ses[s].op => ops'[o].status = ops[o].status
  BY DEF OnlyStatus
<1>1. OnlySession(s) /\ ses'[s] = Idle /\ hidden' = hidden \ {ses[s].op} /\ ses[s].op \in Ops
  BY DEF Ends, WorksOnRow
<1>2. OnlyDepositsHide' /\ DepositsGive'
  BY <1>0, <1>1 DEF OnlyDepositsHide, DepositsGive, IsDeposit, TypeOK, OnlyStatus
<1>3. OthersAreOfOneSession'
  BY <1>0, <1>1 DEF OthersAreOfOneSession, IsDeposit, OnlySession, Idle, WorksOnRow
<1>4. OthersStand'
  BY <1>0, <1>1, NoneAssumption
     DEF OthersStand, OthersAreOfOneSession, IsDeposit, OnlySession, Idle, WorksOnRow
<1>5. \A o, a : Passed(o, a)' => Passed(o, a)
  BY <1>1, NobodyPasses DEF Idle
<1>6. ASSUME NEW o \in Ops, NEW a \in Active
      PROVE  Weight(o, a) <= Weight(o, a)'
  <2>1. Credited(ops[o].txs, a) <= Credited(ops[o].txs, a)
    BY MovedSplits DEF TypeOK, Row
  <2>2. CASE ops'[o].status = ops[o].status
    <3>1. Stands(o, a)
      BY <1>0, <1>1, <1>5, <2>1, <2>2 DEF Stands, Recorded, Takes
    <3> QED
      BY <3>1, <1>2, StandingWeighs
  <2>3. CASE o = ses[s].op /\ ops'[o].status \in {"cancelled", "removed", "hold", "committed"}
             /\ (ops'[o].status = "committed" => At(s, "commit_save"))
             /\ (ops'[o].status = "hold" => At(s, "hold_save"))
    <3>1. Recorded(o)'
      BY <2>3 DEF Recorded
    <3>2. ~IsDeposit(o) /\ Takes(o, a)' => Takes(o, a)
      BY <1>1, <1>5, <2>3 DEF Takes, OthersStand, Passed
    <3>3. Stands(o, a)
      BY <1>0, <1>1, <2>1, <2>3, <3>1, <3>2 DEF Stands
    <3> QED
      BY <3>3, <1>2, StandingWeighs
  <2>4. CASE o = ses[s].op /\ ses[s].job \in AtomicJobs /\ ops'[o].status = "rolled_back"
    <3>1. o \in hidden /\ IsDeposit(o) /\ ~Recorded(o)'
      BY <2>4 DEF HiddenIsPrivate, OnlyDepositsHide, Recorded
    <3> QED
      BY <3>1, <1>0, <1>2, StandingWeighs
  <2> QED
    BY <1>0, <2>2, <2>3, <2>4 DEF OnlyStatus
<1> QED
  BY <1>2, <1>3, <1>4, <1>6 DEF Grows

LEMMA SavesGrow ==
  ASSUME IInv, IInv', QInv, QuietRequests, NEW s \in Sessions,
         CommitSave(s) \/ CancelSave(s) \/ Crash(s)
  PROVE  QInv' /\ Grows
<1>1. Ends(s) /\ ~At(s, "idle")
  BY FinishChanges DEF CommitSave, CancelSave, Crash, IInv
<1>2. \/ UNCHANGED ops
      \/ OnlyStatus(ses[s].op, "committed") /\ At(s, "commit_save")
      \/ OnlyStatus(ses[s].op, "cancelled")
      \/ OnlyStatus(ses[s].op, "rolled_back") /\ ses[s].job \in AtomicJobs
  BY <1>1, SetStatusChanges, SaveChanges DEF CommitSave, CancelSave, Crash, IInv, WorksOnRow, Statuses
<1> QED
  BY <1>1, <1>2, EndsGrow

LEMMA RefuseGrows ==
  ASSUME IInv, IInv', QInv, QuietRequests, NEW s \in Sessions, Refuse(s)
  PROVE  QInv' /\ Grows
<1> USE DEF IInv, QInv
<1>1. \/ /\ ses[s].pc \in Checks /\ ses[s].job \in AtomicJobs
         /\ OnlyStatus(ses[s].op, "rolled_back") /\ Ends(s)
      \/ /\ ses[s].pc \in {"validate", "hold_check"}
         /\ OnlyStatus(ses[s].op, "removed") /\ Ends(s)
      \/ /\ At(s, "commit_check") /\ UNCHANGED <<ops, hidden>>
         /\ MovesTo(s, "cancel_save")
      \/ At(s, "commit_check") /\ UNCHANGED ops /\ Ends(s)
  BY SetStatusChanges, FinishChanges, MoveChanges
     DEF Refuse, WorksOnRow, Statuses, PCs
<1>2. CASE Ends(s)
  <2>1. ~At(s, "idle")
    BY <1>1
  <2>2. \/ UNCHANGED ops
        \/ OnlyStatus(ses[s].op, "removed")
        \/ OnlyStatus(ses[s].op, "rolled_back") /\ ses[s].job \in AtomicJobs
    BY <1>1
  <2> QED
    BY <1>2, <2>1, <2>2, EndsGrow
<1>3. CASE At(s, "commit_check") /\ UNCHANGED <<ops, hidden>> /\ MovesTo(s, "cancel_save")
  <2>1. OnlyDepositsHide' /\ DepositsGive'
    BY <1>3 DEF OnlyDepositsHide, DepositsGive, IsDeposit
  <2>2. OthersAreOfOneSession'
    BY <1>3 DEF OthersAreOfOneSession, IsDeposit, OnlySession, MovesTo
  <2>3. OthersStand'
    BY <1>3 DEF OthersStand, IsDeposit, OnlySession, MovesTo
  <2>4. \A o, a : Passed(o, a)' => Passed(o, a)
    BY <1>3, NobodyPasses DEF MovesTo
  <2>5. \A o \in Ops, a \in Active : Stands(o, a)
    <3> SUFFICES ASSUME NEW o \in Ops, NEW a \in Active PROVE Stands(o, a)
      OBVIOUS
    <3>1. Credited(ops[o].txs, a) <= Credited(ops[o].txs, a)
      BY MovedSplits DEF TypeOK, Row
    <3> QED
      BY <1>3, <2>4, <3>1 DEF Stands, Recorded, Takes
  <2> QED
    BY <2>1, <2>2, <2>3, <2>5, StandingWeighs DEF Grows
<1> QED
  BY <1>1, <1>2, <1>3

LEMMA HoldSaveGrows ==
  ASSUME IInv, IInv', QInv, QuietRequests, NEW s \in Sessions, HoldSave(s)
  PROVE  QInv' /\ Grows
<1> USE DEF IInv, QInv
<1>1. /\ At(s, "hold_save")
      /\ OnlyStatus(ses[s].op, "hold")
      /\ \/ Ends(s)
         \/ MovesTo(s, "commit_check") /\ UNCHANGED hidden
  BY SaveChanges, FinishChanges, MoveChanges
     DEF HoldSave, WorksOnRow, CreatedIsUnheld, Visible, Statuses, PCs
<1>2. CASE Ends(s)
  BY <1>1, <1>2, EndsGrow
<1>3. CASE MovesTo(s, "commit_check") /\ UNCHANGED hidden
  <2>0. \A o \in Ops : ops'[o].type = ops[o].type /\ ops'[o].txs = ops[o].txs
    BY <1>1 DEF OnlyStatus
  <2>1. OnlyDepositsHide' /\ DepositsGive'
    BY <1>1, <1>3, <2>0 DEF OnlyDepositsHide, DepositsGive, IsDeposit, TypeOK, OnlyStatus
  <2>2. OthersAreOfOneSession'
    BY <1>3, <2>0 DEF OthersAreOfOneSession, IsDeposit, OnlySession, MovesTo, WorksOnRow
  <2>3. OthersStand'
    BY <1>1, <1>3, <2>0, NoneAssumption
       DEF OthersStand, OthersAreOfOneSession, IsDeposit, OnlySession, MovesTo,
           WorksOnRow, OnlyStatus
  <2>4. \A o, a : Passed(o, a)' => Passed(o, a)
    BY <1>3, NobodyPasses DEF MovesTo
  <2>5. \A o \in Ops, a \in Active : Stands(o, a)
    <3> SUFFICES ASSUME NEW o \in Ops, NEW a \in Active PROVE Stands(o, a)
      OBVIOUS
    <3>1. Credited(ops[o].txs, a) <= Credited(ops[o].txs, a)
      BY MovedSplits DEF TypeOK, Row
    <3>2. Passed(ses[s].op, a)
      BY <1>1 DEF Passed
    <3>3. Takes(o, a)' => Takes(o, a)
      BY <1>1, <2>4, <3>2 DEF Takes, OnlyStatus
    <3>4. Recorded(o) => Recorded(o)'
      BY <1>1 DEF Recorded, OnlyStatus
    <3> QED
      BY <1>3, <2>0, <3>1, <3>3, <3>4 DEF Stands
  <2> QED
    BY <2>1, <2>2, <2>3, <2>5, StandingWeighs DEF Grows
<1> QED
  BY <1>1, <1>2, <1>3

LEMMA PassGrows ==
  ASSUME IInv, IInv', QInv, QuietRequests, NEW s \in Sessions, Pass(s)
  PROVE  QInv' /\ Grows
<1> USE DEF IInv, QInv
<1>1. /\ UNCHANGED <<ops, hidden>> /\ ses[s].todo = {}
      /\ \/ At(s, "validate") /\ MovesTo(s, "hold_check") /\ ses'[s].todo = ToCheck(Txs(s))
         \/ At(s, "hold_check") /\ MovesTo(s, "hold_save")
         \/ At(s, "commit_check") /\ MovesTo(s, "commit_save")
  <2>1. UNCHANGED <<ops, hidden>> /\ ses[s].todo = {}
    BY DEF Pass
  <2>2. CASE At(s, "validate") /\ StartCheck(s, "hold_check")
    <3>1. MovesTo(s, "hold_check")
      BY <2>2, MoveChanges DEF PCs
    <3>2. ses'[s].todo = ToCheck(Txs(s))
      BY <2>2 DEF StartCheck, TypeOK, Session
    <3> QED
      BY <2>1, <2>2, <3>1, <3>2
  <2>3. CASE At(s, "hold_check") /\ GoTo(s, "hold_save")
    BY <2>1, <2>3, MoveChanges DEF PCs
  <2>4. CASE At(s, "commit_check") /\ GoTo(s, "commit_save")
    BY <2>1, <2>4, MoveChanges DEF PCs
  <2> QED
    BY <2>2, <2>3, <2>4 DEF Pass
<1>2. OnlyDepositsHide' /\ DepositsGive'
  BY <1>1 DEF OnlyDepositsHide, DepositsGive, IsDeposit
<1>3. OthersAreOfOneSession'
  BY <1>1 DEF OthersAreOfOneSession, IsDeposit, OnlySession, MovesTo
<1>4. OthersStand'
  BY <1>1 DEF OthersStand, IsDeposit, OnlySession, MovesTo
<1>5. ASSUME NEW o \in Ops, NEW a \in Active PROVE Stands(o, a)
  <2>1. Credited(ops[o].txs, a) <= Credited(ops[o].txs, a)
    BY MovedSplits DEF TypeOK, Row
  <2>2. ~Passed(o, a) /\ Passed(o, a)' => a \notin ToCheck(ops[o].txs)
    <3> SUFFICES ASSUME ~Passed(o, a), Passed(o, a)'
                 PROVE  a \notin ToCheck(ops[o].txs)
      OBVIOUS
    <3>1. PICK t \in Sessions :
            /\ ses'[t].op = o
            /\ ses'[t].pc = "hold_save" \/ (ses'[t].pc = "hold_check" /\ a \notin ses'[t].todo)
      BY DEF Passed
    <3>2. t = s
      BY <1>1, <3>1 DEF Passed, MovesTo, OnlySession
    <3> QED
      BY <1>1, <3>1, <3>2 DEF Passed, MovesTo, Txs
  <2>3. ~Passed(o, a) /\ Passed(o, a)' => Debited(ops[o].txs, a) = 0
    BY <2>2, DebitsNeedLegs DEF TypeOK, Row
  <2> QED
    BY <1>1, <2>1, <2>3 DEF Stands, Recorded, Takes
<1> QED
  BY <1>2, <1>3, <1>4, <1>5, StandingWeighs DEF Grows

LEMMA InsertGrows ==
  ASSUME IInv, IInv', QInv, QuietRequests, NEW s \in Sessions,
         NEW job \in {"deposit", "add_payment", "exchange"}, NEW type \in Types, NEW txs \in Seq(Tx),
         Insert(s, job, type, txs), type # "withdrawal",
         job \in AtomicJobs => type = "deposit",
         type = "deposit" => \A a \in Active : Moved(txs, a) >= 0
  PROVE  QInv' /\ Grows
<1> USE DEF IInv, QInv
<1>1. PICK o \in Ops :
        /\ At(s, "idle") /\ ops[o].status = "absent"
        /\ \A p \in Ops \ {o} : ops'[p] = ops[p]
        /\ ops'[o].status = "new" /\ ops'[o].type = type /\ ops'[o].txs = txs
        /\ OnlySession(s)
        /\ ses'[s].pc = "validate" /\ ses'[s].op = o
        /\ hidden' = IF job \in AtomicJobs THEN hidden \union {o} ELSE hidden
  <2>1. PICK o \in Ops :
          /\ At(s, "idle") /\ ops[o].status = "absent"
          /\ ops' = [ops EXCEPT ![o] = [type |-> type, status |-> "new",
                                        txs |-> txs, deposit |-> None]]
          /\ hidden' = IF job \in AtomicJobs THEN hidden \union {o} ELSE hidden
          /\ ses' = [ses EXCEPT ![s] = [pc |-> "validate", job |-> job, op |-> o,
                                        todo |-> ToCheck(txs)]]
    BY DEF Insert
  <2>2. ops'[o] = [type |-> type, status |-> "new", txs |-> txs, deposit |-> None]
    BY <2>1 DEF TypeOK
  <2>3. /\ ses'[s] = [pc |-> "validate", job |-> job, op |-> o, todo |-> ToCheck(txs)]
        /\ OnlySession(s)
    BY <2>1 DEF TypeOK, OnlySession
  <2>4. \A p \in Ops \ {o} : ops'[p] = ops[p]
    BY <2>1 DEF TypeOK
  <2>5. /\ ops'[o].status = "new" /\ ops'[o].type = type /\ ops'[o].txs = txs
        /\ ses'[s].pc = "validate" /\ ses'[s].op = o
    BY <2>2, <2>3
  <2> QED
    BY <2>1, <2>3, <2>4, <2>5
<1>2. \A t \in Sessions : ses[t].op # o
  BY <1>1, NoneAssumption DEF WorksOnRow
<1>3. OnlyDepositsHide'
  BY <1>1 DEF OnlyDepositsHide, IsDeposit, TypeOK
<1>4. DepositsGive'
  BY <1>1 DEF DepositsGive, IsDeposit
<1>5. OthersAreOfOneSession'
  BY <1>1, <1>2 DEF OthersAreOfOneSession, IsDeposit, OnlySession, WorksOnRow
<1>6. OthersStand'
  BY <1>1, <1>2 DEF OthersStand, IsDeposit, OnlySession, WorksOnRow
<1>7. \A p, a : Passed(p, a)' => Passed(p, a)
  BY <1>1, NobodyPasses
<1>8. ASSUME NEW p \in Ops, NEW a \in Active PROVE Weight(p, a) <= Weight(p, a)'
  <2>1. CASE p = o
    <3>1. ~Passed(o, a)'
      BY <1>2, <1>7 DEF Passed
    <3> QED
      BY <1>1, <1>4, <2>1, <3>1, NewWeighs
  <2>2. CASE p # o
    <3>1. Credited(ops[p].txs, a) <= Credited(ops[p].txs, a)
      BY MovedSplits DEF TypeOK, Row
    <3>2. Stands(p, a)
      BY <1>1, <1>7, <2>2, <3>1 DEF Stands, Recorded, Takes
    <3> QED
      BY <3>2, <1>4, StandingWeighs
  <2> QED
    BY <2>1, <2>2
<1> QED
  BY <1>3, <1>4, <1>5, <1>6, <1>8 DEF Grows

LEMMA CreationGrows ==
  ASSUME IInv, IInv', QInv, QuietRequests, NEW s \in Sessions,
         CreateDeposit(s) \/ AddPayment(s) \/ CreateWithdrawal(s) \/ CreateExchange(s)
  PROVE  QInv' /\ Grows
<1>1. CASE CreateDeposit(s)
  <2>1. PICK r \in Deposits : Insert(s, "deposit", "deposit", DepositTxs(r))
    BY <1>1 DEF CreateDeposit
  <2>2. DepositTxs(r) \in Seq(Tx) /\ \A a \in Active : Moved(DepositTxs(r), a) >= 0
    BY LegsAreTransactions, DepositMovesForward, RequestsAssumption DEF QuietRequests
  <2> QED
    BY <2>1, <2>2, InsertGrows DEF Types
<1>2. CASE AddPayment(s)
  <2>1. PICK r \in Payments : Insert(s, "add_payment", "deposit", DepositTxs(r))
    BY <1>2 DEF AddPayment
  <2>2. DepositTxs(r) \in Seq(Tx) /\ \A a \in Active : Moved(DepositTxs(r), a) >= 0
    BY LegsAreTransactions, DepositMovesForward, RequestsAssumption DEF QuietRequests
  <2> QED
    BY <2>1, <2>2, InsertGrows DEF Types
<1>3. CASE CreateWithdrawal(s)
  BY <1>3 DEF CreateWithdrawal, QuietRequests
<1>4. CASE CreateExchange(s)
  <2>1. PICK r \in Exchanges, type \in {"buy", "sell"} :
          Insert(s, "exchange", type, ExchangeTxs(r))
    BY <1>4 DEF CreateExchange
  <2>2. ExchangeTxs(r) \in Seq(Tx)
    BY LegsAreTransactions, RequestsAssumption
  <2> QED
    BY <2>1, <2>2, InsertGrows DEF Types
<1> QED
  BY <1>1, <1>2, <1>3, <1>4

LEMMA RefundInsertGrows ==
  ASSUME IInv, IInv', QInv, QuietRequests, NEW s \in Sessions, RefundInsert(s)
  PROVE  QInv' /\ Grows
<1> USE DEF IInv, QInv
<1>1. PICK o \in Ops :
        /\ At(s, "refund_insert") /\ hidden' = hidden
        /\ ops[o].status = "absent"
        /\ \A p \in Ops \ {o} : ops'[p] = ops[p]
        /\ ops'[o].status = "new" /\ ops'[o].type = "refund"
        /\ OnlySession(s)
        /\ ses'[s].pc = "refund_debit" /\ ses'[s].op = o
  BY DEF RefundInsert, TypeOK, Session, OnlySession, Row
<1>2. \A t \in Sessions : ses[t].op # o
  BY <1>1, NoneAssumption DEF WorksOnRow
<1>3. OnlyDepositsHide'
  BY <1>1 DEF OnlyDepositsHide, IsDeposit, TypeOK
<1>4. DepositsGive'
  BY <1>1 DEF DepositsGive, IsDeposit
<1>5. OthersAreOfOneSession'
  BY <1>1, <1>2 DEF OthersAreOfOneSession, IsDeposit, OnlySession, WorksOnRow
<1>6. OthersStand'
  BY <1>1, <1>2 DEF OthersStand, IsDeposit, OnlySession, WorksOnRow
<1>7. \A p, a : Passed(p, a)' => Passed(p, a)
  BY <1>1, NobodyPasses
<1>8. ASSUME NEW p \in Ops, NEW a \in Active PROVE Weight(p, a) <= Weight(p, a)'
  <2>1. CASE p = o
    <3>1. ~Passed(o, a)'
      BY <1>2, <1>7 DEF Passed
    <3> QED
      BY <1>1, <1>4, <2>1, <3>1, NewWeighs
  <2>2. CASE p # o
    <3>1. Credited(ops[p].txs, a) <= Credited(ops[p].txs, a)
      BY MovedSplits DEF TypeOK, Row
    <3>2. Stands(p, a)
      BY <1>1, <1>7, <2>2, <3>1 DEF Stands, Recorded, Takes
    <3> QED
      BY <3>2, <1>4, StandingWeighs
  <2> QED
    BY <2>1, <2>2
<1> QED
  BY <1>3, <1>4, <1>5, <1>6, <1>8 DEF Grows

LEMMA RefundLegsGrow ==
  ASSUME IInv, IInv', QInv, QuietRequests, NEW s \in Sessions,
         RefundDebit(s) \/ RefundCredit(s)
  PROVE  QInv' /\ Grows
<1> USE DEF IInv, QInv
<1>1. PICK leg : /\ leg.amount \in Int /\ leg.account \in Accounts /\ leg \in Tx
                 /\ ops' = [ops EXCEPT ![ses[s].op].txs = Append(@, leg)]
  <2>1. CASE RefundDebit(s)
    <3>1. Lowest(ops[ops[ses[s].op].deposit].txs) \subseteq Accounts
      BY <2>1, ChosenAccounts DEF RefundKnowsDeposit, TypeOK, Row, RefundDebit
    <3> QED
      BY <2>1, <3>1 DEF RefundDebit, AddLeg, Leg, Tx
  <2>2. CASE RefundCredit(s)
    <3>1. Highest(ops[ops[ses[s].op].deposit].txs) \subseteq Accounts
      BY <2>2, ChosenAccounts DEF RefundKnowsDeposit, TypeOK, Row, RefundCredit
    <3> QED
      BY <2>2, <3>1 DEF RefundCredit, AddLeg, Leg, Tx
  <2> QED
    BY <2>1, <2>2
<1>2. /\ ses[s].pc \in {"refund_debit", "refund_credit"} /\ UNCHANGED hidden
      /\ ses[s].op \in Ops
      /\ \A p \in Ops \ {ses[s].op} : ops'[p] = ops[p]
      /\ ops'[ses[s].op].status = ops[ses[s].op].status
      /\ ops'[ses[s].op].type = ops[ses[s].op].type
      /\ ops'[ses[s].op].txs = Append(ops[ses[s].op].txs, leg)
      /\ OnlySession(s) /\ ses'[s].op = ses[s].op
      /\ ses'[s].pc \in {"refund_credit", "validate"}
      /\ (ses'[s].pc = "refund_credit" => At(s, "refund_debit"))
  <2>1. ses[s].op \in Ops
    BY DEF RefundDebit, RefundCredit, WorksOnRow
  <2>2. /\ \A p \in Ops \ {ses[s].op} : ops'[p] = ops[p]
        /\ ops'[ses[s].op] = [ops[ses[s].op] EXCEPT !.txs = Append(@, leg)]
    BY <1>1, <2>1 DEF TypeOK
  <2>3. /\ ops'[ses[s].op].status = ops[ses[s].op].status
        /\ ops'[ses[s].op].type = ops[ses[s].op].type
        /\ ops'[ses[s].op].txs = Append(ops[ses[s].op].txs, leg)
    BY <2>1, <2>2 DEF TypeOK, Row
  <2>4. /\ ses[s].pc \in {"refund_debit", "refund_credit"} /\ UNCHANGED hidden
        /\ OnlySession(s) /\ ses'[s].op = ses[s].op
        /\ ses'[s].pc \in {"refund_credit", "validate"}
        /\ (ses'[s].pc = "refund_credit" => At(s, "refund_debit"))
    <3>1. CASE RefundDebit(s)
      BY <3>1 DEF RefundDebit, GoTo, TypeOK, Session, OnlySession
    <3>2. CASE RefundCredit(s)
      BY <3>2 DEF RefundCredit, TypeOK, Session, OnlySession
    <3> QED
      BY <3>1, <3>2
  <2> QED
    BY <2>1, <2>2, <2>3, <2>4
<1>3. ops[ses[s].op].type = "refund" /\ ops[ses[s].op].status = "new"
  BY <1>2 DEF OthersStand, IsDeposit
<1>4. \A t \in Sessions \ {s} : ses[t].op # ses[s].op
  BY <1>2, <1>3, NoneAssumption DEF OthersAreOfOneSession, IsDeposit
<1>5. OnlyDepositsHide'
  BY <1>2, <1>3 DEF OnlyDepositsHide, IsDeposit, TypeOK
<1>6. DepositsGive'
  BY <1>2, <1>3 DEF DepositsGive, IsDeposit
<1>7. OthersAreOfOneSession'
  BY <1>2, <1>4 DEF OthersAreOfOneSession, IsDeposit, OnlySession, WorksOnRow
<1>8. OthersStand'
  BY <1>2, <1>3, <1>4 DEF OthersStand, IsDeposit, OnlySession, WorksOnRow
<1>9. \A p, a : Passed(p, a)' => Passed(p, a)
  BY <1>2, NobodyPasses
<1>10. ASSUME NEW p \in Ops, NEW a \in Active PROVE Stands(p, a)
  <2>1. CASE p = ses[s].op
    <3>1. ~Takes(p, a)'
      BY <1>2, <1>3, <1>4, <2>1 DEF Takes, Passed, OnlySession
    <3>2. Credited(ops[p].txs, a) <= Credited(ops'[p].txs, a)
      BY <1>1, <1>2, <2>1, AppendCredits DEF TypeOK, Row
    <3> QED
      BY <1>2, <1>3, <2>1, <3>1, <3>2 DEF Stands, Recorded, IsDeposit
  <2>2. CASE p # ses[s].op
    <3>1. Credited(ops[p].txs, a) <= Credited(ops[p].txs, a)
      BY MovedSplits DEF TypeOK, Row
    <3> QED
      BY <1>2, <1>9, <2>2, <3>1 DEF Stands, Recorded, Takes
  <2> QED
    BY <2>1, <2>2
<1> QED
  BY <1>5, <1>6, <1>7, <1>8, <1>10, StandingWeighs DEF Grows

(* The last check of account a: what the query of is_valid counted backs   *)
(* the debits that start to weigh.                                         *)
LEMMA LastCheckBacks ==
  ASSUME IInv, QInv, IsFiniteSet(Ops), NEW s \in Sessions, At(s, "hold_check"),
         ~IsDeposit(ses[s].op), NEW a \in Active, AccountValid(s, a, TRUE),
         \A o \in Ops : Takes(o, a)' => Takes(o, a) \/ o = ses[s].op,
         UNCHANGED <<ops, hidden>>
  PROVE  SumFunctionOnSet([o \in Ops |-> Weight(o, a)'], Ops) >= 0
<1> USE DEF IInv, QInv
<1> DEFINE counted == {o \in Visible(s) : ops[o].status \in Held \/ ops[o].status = "new"}
           m == [o \in Ops |-> Moved(ops[o].txs, a)]
           part == [o \in Ops |-> IF o \in counted THEN m[o] ELSE 0]
           w == [o \in Ops |-> Weight(o, a)']
<1>1. SumFunctionOnSet(m, counted) >= 0
  BY DEF AccountValid, Balance, Active
<1>2. counted \in SUBSET Ops
  BY DEF Visible
<1>3. ASSUME NEW o \in Ops PROVE m[o] \in Int /\ w[o] \in Int /\ part[o] <= w[o]
  <2>1. ops[o].txs \in Seq(Tx)
    BY DEF TypeOK, Row
  <2>2. /\ Debited(ops[o].txs, a) \in Int /\ Debited(ops[o].txs, a) <= 0
        /\ Credited(ops[o].txs, a) \in Int /\ Credited(ops[o].txs, a) >= 0
        /\ Moved(ops[o].txs, a) = Debited(ops[o].txs, a) + Credited(ops[o].txs, a)
    BY <2>1, MovedSplits
  <2>3. Weight(o, a)' = IF IsDeposit(o)
                        THEN IF Recorded(o) /\ o \notin hidden THEN Moved(ops[o].txs, a) ELSE 0
                        ELSE (IF Takes(o, a)' THEN Debited(ops[o].txs, a) ELSE 0)
                               + (IF Recorded(o) THEN Credited(ops[o].txs, a) ELSE 0)
    BY DEF Weight, IsDeposit, Recorded
  <2>4. ses[s].op \in Ops /\ ses[s].op \notin hidden
    BY DEF OnlyDepositsHide, WorksOnRow
  <2>5. CASE IsDeposit(o)
    <3>1. Moved(ops[o].txs, a) >= 0
      BY <2>5 DEF DepositsGive
    <3>2. o \in counted => o \notin hidden /\ Recorded(o)
      BY <2>4, <2>5 DEF Visible, Recorded
    <3> QED
      BY <2>2, <2>3, <2>5, <3>1, <3>2
  <2>6. CASE ~IsDeposit(o) /\ o \in counted
    <3>1. Recorded(o)
      BY <2>6 DEF Recorded
    <3> QED
      BY <2>2, <2>3, <2>6, <3>1
  <2>7. CASE ~IsDeposit(o) /\ o \notin counted
    <3>1. o \notin hidden
      BY <2>7 DEF OnlyDepositsHide
    <3>2. ops[o].status \notin Held \union {"new"}
      BY <2>7, <3>1 DEF Visible
    <3>3. ~Takes(o, a)'
      BY <2>7, <3>2 DEF Takes, Passed, OthersStand
    <3> QED
      BY <2>2, <2>3, <2>7, <3>3
  <2> QED
    BY <2>5, <2>6, <2>7
<1>4. /\ \A o \in counted : m[o] \in Int /\ part[o] = m[o]
      /\ \A o \in Ops \ counted : part[o] = 0
      /\ \A o \in Ops : part[o] \in Int /\ w[o] \in Int /\ part[o] <= w[o]
  BY <1>2, <1>3
<1> HIDE DEF counted, m, part, w
<1>5. SumFunctionOnSet(part, Ops) = SumFunctionOnSet(m, counted)
  BY <1>2, <1>4, SumOfPart
<1>6. SumFunctionOnSet(part, Ops) <= SumFunctionOnSet(w, Ops)
  BY <1>4, SumMonotonic
<1>7. SumFunctionOnSet(part, Ops) \in Int /\ SumFunctionOnSet(w, Ops) \in Int
  BY <1>4, SumType
<1>8. SumFunctionOnSet(w, Ops) >= 0
  BY <1>1, <1>5, <1>6, <1>7
<1> QED
  BY <1>8 DEF w

LEMMA CheckAccountBacks ==
  ASSUME IInv, IInv', QInv, QuietRequests, IsFiniteSet(Ops), Backed,
         NEW s \in Sessions, CheckAccount(s)
  PROVE  QInv' /\ Backed'
<1> USE DEF IInv, QInv
<1>1. PICK b \in ses[s].todo :
        /\ AccountValid(s, b, ses[s].pc # "commit_check")
        /\ ses' = [ses EXCEPT ![s].todo = @ \ {b}]
  BY DEF CheckAccount
<1>2. /\ UNCHANGED <<ops, hidden>> /\ MovesTo(s, ses[s].pc) /\ ses[s].pc \in Checks
      /\ ses'[s].todo = ses[s].todo \ {b}
  BY <1>1 DEF CheckAccount, TypeOK, Session, MovesTo, OnlySession
<1>3. OnlyDepositsHide' /\ DepositsGive'
  BY <1>2 DEF OnlyDepositsHide, DepositsGive, IsDeposit
<1>4. OthersAreOfOneSession'
  BY <1>2 DEF OthersAreOfOneSession, IsDeposit, OnlySession, MovesTo
<1>5. OthersStand'
  BY <1>2 DEF OthersStand, IsDeposit, OnlySession, MovesTo
<1>6. ASSUME NEW o \in Ops, NEW a \in Active
      PROVE  \/ Takes(o, a)' => Takes(o, a)
             \/ At(s, "hold_check") /\ o = ses[s].op /\ a = b
  BY <1>2 DEF Takes, Passed, OnlySession, MovesTo
<1>7. ASSUME NEW o \in Ops, NEW a \in Active, IsDeposit(o) \/ (Takes(o, a)' => Takes(o, a))
      PROVE  Weight(o, a) <= Weight(o, a)'
  <2>1. Credited(ops[o].txs, a) <= Credited(ops[o].txs, a)
    BY MovedSplits DEF TypeOK, Row
  <2>2. Stands(o, a)
    BY <1>2, <1>7, <2>1 DEF Stands, Recorded
  <2> QED
    BY <2>2, <1>3, StandingWeighs
<1>8. ASSUME NEW a \in Active
      PROVE  SumFunctionOnSet([o \in Ops |-> Weight(o, a)'], Ops) >= 0
  <2>1. CASE At(s, "hold_check") /\ a = b /\ ~IsDeposit(ses[s].op)
    <3>1. AccountValid(s, a, TRUE)
      BY <1>1, <2>1
    <3>2. \A o \in Ops : Takes(o, a)' => Takes(o, a) \/ o = ses[s].op
      BY <1>6
    <3> QED
      BY <1>2, <2>1, <3>1, <3>2, LastCheckBacks
  <2>2. CASE ~(At(s, "hold_check") /\ a = b /\ ~IsDeposit(ses[s].op))
    <3>1. \A o \in Ops : Weight(o, a) <= Weight(o, a)'
      BY <1>6, <1>7, <2>2
    <3> QED
      BY <3>1, GrowthBacks
  <2> QED
    BY <2>1, <2>2
<1>9. Backed'
  BY <1>8 DEF Backed
<1> QED
  BY <1>3, <1>4, <1>5, <1>9

LEMMA GrowthIsBacked ==
  ASSUME IInv, IInv', IsFiniteSet(Ops), Backed, Grows
  PROVE  Backed'
<1>1. ASSUME NEW a \in Active
      PROVE  SumFunctionOnSet([o \in Ops |-> Weight(o, a)'], Ops) >= 0
  BY GrowthBacks DEF Grows, IInv
<1> QED
  BY <1>1 DEF Backed

LEMMA StepBacks ==
  ASSUME IInv, IInv', QInv, QuietRequests, IsFiniteSet(Ops), Backed, Next
  PROVE  QInv' /\ Backed'
<1>1. ASSUME NEW s \in Web, WebStep(s) PROVE QInv' /\ Backed'
  BY <1>1, CreationGrows, GrowthIsBacked DEF WebStep, Sessions
<1>2. ASSUME NEW s \in Admins, AdminStep(s) PROVE QInv' /\ Backed'
  <2>1. ~RejectLoad(s)
    BY DEF RejectLoad, Load, QuietRequests
  <2> QED
    BY <1>2, <2>1, CreationGrows, LoadsGrow, GrowthIsBacked DEF AdminStep, Sessions
<1>3. ASSUME NEW s \in Sessions, Continue(s) PROVE QInv' /\ Backed'
  <2>1. ~RejectSave(s)
    BY DEF RejectSave, QInv, OthersStand
  <2> QED
    BY <1>3, <2>1, CheckAccountBacks, PassGrows, RefuseGrows, HoldSaveGrows, SavesGrow,
       RefundInsertGrows, RefundLegsGrow, GrowthIsBacked DEF Continue
<1> QED
  BY <1>1, <1>2, <1>3 DEF Next

LEMMA StutterBacks ==
  ASSUME QInv, Backed, UNCHANGED vars
  PROVE  QInv' /\ Backed'
<1>1. ops' = ops /\ hidden' = hidden /\ ses' = ses
  BY DEF vars
<1>2. QInv'
  BY <1>1 DEF QInv, OnlyDepositsHide, DepositsGive, OthersAreOfOneSession, OthersStand, IsDeposit
<1>3. \A o, a : Weight(o, a)' = Weight(o, a)
  BY <1>1 DEF Weight, IsDeposit, Recorded, Takes, Passed
<1>4. Backed'
  BY <1>3 DEF Backed
<1> QED
  BY <1>2, <1>4

LEMMA InitBacks ==
  ASSUME Init, IsFiniteSet(Ops)
  PROVE  QInv /\ Backed
<1>1. QInv
  BY DEF Init, QInv, OnlyDepositsHide, DepositsGive, OthersAreOfOneSession, OthersStand,
         IsDeposit, NoRow, Idle
<1>2. ASSUME NEW a \in Active PROVE SumFunctionOnSet([o \in Ops |-> Weight(o, a)], Ops) >= 0
  <2> DEFINE w == [o \in Ops |-> Weight(o, a)]
  <2>1. \A o \in Ops : w[o] = 0
    BY NoneAssumption DEF Init, Weight, IsDeposit, Recorded, Takes, Passed, NoRow, Idle
  <2> HIDE DEF w
  <2>2. SumFunctionOnSet(w, Ops) = 0
    BY <2>1, SumOfZeros
  <2> QED
    BY <2>2 DEF w
<1> QED
  BY <1>1, <1>2 DEF Backed

(* What is taken is within the weights.                                    *)
LEMMA BackedIsNotSpentTwice ==
  ASSUME TypeOK, QInv, Backed, IsFiniteSet(Ops)
  PROVE  NoDoubleSpend
<1> USE DEF QInv
<1> SUFFICES ASSUME NEW a \in Active
             PROVE  SumFunctionOnSet([o \in Ops |-> Debited(ops[o].txs, a)],
                                     {o \in Ops : ops[o].status \in Held})
                      + SumFunctionOnSet([o \in Ops |-> Credited(ops[o].txs, a)],
                          {o \in Ops : ops[o].status \notin {"absent", "rolled_back"}}) >= 0
  BY DEF NoDoubleSpend, Active
<1> DEFINE spent == {o \in Ops : ops[o].status \in Held}
           recorded == {o \in Ops : ops[o].status \notin {"absent", "rolled_back"}}
           d == [o \in Ops |-> Debited(ops[o].txs, a)]
           c == [o \in Ops |-> Credited(ops[o].txs, a)]
           ds == [o \in Ops |-> IF o \in spent THEN d[o] ELSE 0]
           cs == [o \in Ops |-> IF o \in recorded THEN c[o] ELSE 0]
           all == [o \in Ops |-> ds[o] + cs[o]]
           w == [o \in Ops |-> Weight(o, a)]
<1>1. ASSUME NEW o \in Ops
      PROVE  d[o] \in Int /\ c[o] \in Int /\ w[o] \in Int /\ w[o] <= all[o]
  <2>1. ops[o].txs \in Seq(Tx)
    BY DEF TypeOK, Row
  <2>2. /\ d[o] \in Int /\ d[o] <= 0 /\ c[o] \in Int /\ c[o] >= 0
        /\ Moved(ops[o].txs, a) = d[o] + c[o]
    BY <2>1, MovedSplits
  <2>3. IsDeposit(o) => d[o] + c[o] >= 0
    BY <2>2 DEF DepositsGive
  <2>4. w[o] = IF IsDeposit(o)
               THEN IF o \in recorded /\ o \notin hidden THEN d[o] + c[o] ELSE 0
               ELSE (IF Takes(o, a) THEN d[o] ELSE 0)
                      + (IF o \in recorded THEN c[o] ELSE 0)
    BY <2>2 DEF Weight, Recorded
  <2>5. o \in spent => o \in recorded /\ Takes(o, a)
    BY DEF Takes
  <2>6. all[o] = (IF o \in spent THEN d[o] ELSE 0) + (IF o \in recorded THEN c[o] ELSE 0)
    OBVIOUS
  <2> HIDE DEF d, c, w, all, spent, recorded
  <2> QED
    BY <2>2, <2>3, <2>4, <2>5, <2>6
<1>2. /\ \A o \in Ops : ds[o] \in Int /\ cs[o] \in Int /\ all[o] = ds[o] + cs[o]
      /\ \A o \in Ops : w[o] \in Int /\ all[o] \in Int /\ w[o] <= all[o]
      /\ \A o \in spent : d[o] \in Int /\ ds[o] = d[o]
      /\ \A o \in Ops \ spent : ds[o] = 0
      /\ \A o \in recorded : c[o] \in Int /\ cs[o] = c[o]
      /\ \A o \in Ops \ recorded : cs[o] = 0
      /\ spent \in SUBSET Ops /\ recorded \in SUBSET Ops
  BY <1>1
<1>3. SumFunctionOnSet(w, Ops) >= 0
  BY DEF Backed
<1> HIDE DEF spent, recorded, d, c, ds, cs, all, w
<1>4. SumFunctionOnSet(w, Ops) <= SumFunctionOnSet(all, Ops)
  BY <1>2, SumMonotonic
<1>5. SumFunctionOnSet(all, Ops) = SumFunctionOnSet(ds, Ops) + SumFunctionOnSet(cs, Ops)
  BY <1>2, SumAdds
<1>6. SumFunctionOnSet(ds, Ops) = SumFunctionOnSet(d, spent)
  BY <1>2, SumOfPart
<1>7. SumFunctionOnSet(cs, Ops) = SumFunctionOnSet(c, recorded)
  BY <1>2, SumOfPart
<1>8. SumFunctionOnSet(w, Ops) \in Int /\ SumFunctionOnSet(all, Ops) \in Int
  BY <1>2, SumType
<1>9. SumFunctionOnSet(d, spent) + SumFunctionOnSet(c, recorded) >= 0
  BY <1>3, <1>4, <1>5, <1>6, <1>7, <1>8
<1> QED
  BY <1>9 DEF d, c, spent, recorded

(* create_deposit, create_exchange and the refund of the admin, however    *)
(* they interleave, hold nothing that recorded operations did not put on   *)
(* the account: every request shows its row before it validates.           *)
THEOREM MoneyIsNotSpentTwice ==
  ASSUME QuietRequests, IsFiniteSet(Ops)
  PROVE  Spec => []NoDoubleSpend
<1>1. Init => IInv /\ QInv /\ Backed
  BY InitInvariant, InitBacks
<1>2. IInv /\ QInv /\ Backed /\ [Next]_vars => (IInv /\ QInv /\ Backed)'
  BY StepPreserves, StutterPreserves, StepBacks, StutterBacks
<1>3. IInv /\ QInv /\ Backed => NoDoubleSpend
  BY BackedIsNotSpentTwice DEF IInv
<1> QED
  BY <1>1, <1>2, <1>3, PTL DEF Spec

-----------------------------------------------------------------------------
(* Every row has the legs of a request, or of the refund of a deposit.     *)

IsRefundLeg(leg, txs) ==
  LET amount == AmountOver(txs, {i \in DOMAIN txs : txs[i].amount > 0})
  IN  \/ leg.account \in Lowest(txs)  /\ leg.amount = -amount
      \/ leg.account \in Highest(txs) /\ leg.amount = amount

HasLegs(o) ==
  /\ ops[o].type = "deposit" =>
       \E r \in Deposits \union Payments : r.amount > 0 /\ ops[o].txs = DepositTxs(r)
  /\ ops[o].type = "withdrawal" =>
       \E r \in Withdrawals : r.amount > 0 /\ ops[o].txs = WithdrawalTxs(r)
  /\ ops[o].type \in {"buy", "sell"} =>
       \E r \in Exchanges :
         /\ r.base_amount * r.quote_amount < 0 /\ r.fee >= 0
         /\ ops[o].type = "buy" <=> r.base_amount > 0
         /\ ops[o].txs = ExchangeTxs(r)
  /\ ops[o].type = "refund" =>
       /\ ops[o].deposit \in Ops
       /\ IsDeposit(ops[o].deposit)
       /\ \A i \in DOMAIN ops[o].txs : IsRefundLeg(ops[o].txs[i], ops[ops[o].deposit].txs)
  /\ ops[o].type = "none" <=> ops[o].status = "absent"

LegsOfRequests == \A o \in Ops : HasLegs(o)

(* A refund is built from a deposit by the session that inserted it.       *)
RefundOfDeposit ==
  \A s \in Sessions :
    /\ At(s, "refund_insert") => IsDeposit(ses[s].op)
    /\ ses[s].pc \in {"refund_debit", "refund_credit"} => ops[ses[s].op].type = "refund"

LInv == LegsOfRequests /\ RefundOfDeposit

(* Steps that write no leg.                                                *)
LEMMA RowsStay ==
  ASSUME IInv, LInv, NEW s \in Sessions, OnlySession(s),
         \A o \in Ops : /\ ops'[o].type = ops[o].type /\ ops'[o].txs = ops[o].txs
                        /\ ops'[o].deposit = ops[o].deposit
                        /\ ops'[o].status = "absent" <=> ops[o].status = "absent",
         ses'[s].pc \notin {"refund_insert", "refund_debit", "refund_credit"}
           \/ (ses'[s].pc = "refund_insert" /\ ses'[s].op \in Ops /\ ops[ses'[s].op].type = "deposit")
  PROVE  LInv'
<1>1. LegsOfRequests'
  <2> SUFFICES ASSUME NEW o \in Ops PROVE HasLegs(o)'
    BY DEF LegsOfRequests
  <2>1. HasLegs(o)
    BY DEF LInv, LegsOfRequests
  <2> QED
    BY <2>1 DEF HasLegs, IsDeposit
<1>2. RefundOfDeposit'
  BY DEF LInv, RefundOfDeposit, IsDeposit, OnlySession, IInv, WorksOnRow
<1> QED
  BY <1>1, <1>2 DEF LInv

LEMMA LoadsKeepLegs ==
  ASSUME IInv, LInv, NEW s \in Sessions,
         CommitLoad(s) \/ CancelLoad(s) \/ RejectLoad(s) \/ RefundLoad(s)
  PROVE  LInv'
<1>1. /\ ops' = ops /\ OnlySession(s) /\ ses'[s].op \in Ops
      /\ \/ ses'[s].pc \in {"commit_check", "cancel_save", "reject_save"}
         \/ ses'[s].pc = "refund_insert" /\ ops[ses'[s].op].type = "deposit"
  BY NoneAssumption
     DEF CommitLoad, CancelLoad, RejectLoad, RefundLoad, Load, IInv, TypeOK, OnlySession,
         Visible
<1> QED
  BY <1>1, RowsStay

LEMMA StatusesKeepLegs ==
  ASSUME IInv, LInv, NEW s \in Sessions,
         \/ CheckAccount(s) \/ Pass(s) \/ Refuse(s) \/ HoldSave(s)
         \/ CommitSave(s) \/ CancelSave(s) \/ RejectSave(s) \/ Crash(s)
  PROVE  LInv'
<1> USE DEF IInv
<1>0. ~At(s, "idle") /\ ses[s].op \in Ops /\ ops[ses[s].op].status # "absent"
  BY DEF CheckAccount, Pass, Refuse, HoldSave, CommitSave, CancelSave, RejectSave, Crash,
         WorksOnRow
<1>1. \/ UNCHANGED ops
      \/ \E v \in Statuses \ {"absent"} : OnlyStatus(ses[s].op, v)
  <2>1. CASE CheckAccount(s) \/ Pass(s)
    BY <2>1 DEF CheckAccount, Pass
  <2>2. CASE Refuse(s) \/ Crash(s)
    BY <2>2, <1>0, SetStatusChanges DEF Refuse, Crash, Statuses
  <2>3. CASE HoldSave(s) \/ CommitSave(s) \/ CancelSave(s) \/ RejectSave(s)
    BY <2>3, <1>0, SaveChanges DEF HoldSave, CommitSave, CancelSave, RejectSave, Statuses
  <2> QED
    BY <2>1, <2>2, <2>3
<1>2. /\ OnlySession(s)
      /\ ses'[s].pc \notin {"refund_insert", "refund_debit", "refund_credit"}
  <2>1. CASE CheckAccount(s)
    BY <2>1 DEF CheckAccount, TypeOK, Session, OnlySession
  <2>2. CASE Pass(s)
    BY <2>2, MoveChanges DEF Pass, PCs, MovesTo
  <2>3. CASE Refuse(s)
    BY <2>3, MoveChanges, FinishChanges DEF Refuse, PCs, MovesTo, Ends, Idle
  <2>4. CASE HoldSave(s)
    BY <2>4, MoveChanges, FinishChanges DEF HoldSave, PCs, MovesTo, Ends, Idle
  <2>5. CASE CommitSave(s) \/ CancelSave(s) \/ RejectSave(s) \/ Crash(s)
    BY <2>5, FinishChanges DEF CommitSave, CancelSave, RejectSave, Crash, Ends, Idle
  <2> QED
    BY <2>1, <2>2, <2>3, <2>4, <2>5
<1>3. \A o \in Ops : /\ ops'[o].type = ops[o].type /\ ops'[o].txs = ops[o].txs
                     /\ ops'[o].deposit = ops[o].deposit
                     /\ ops'[o].status = "absent" <=> ops[o].status = "absent"
  BY <1>0, <1>1 DEF OnlyStatus
<1> QED
  BY <1>2, <1>3, RowsStay

(* A row is inserted: no other row changes, and no refund was of it.       *)
LEMMA RowsArrive ==
  ASSUME IInv, LInv, NEW o \in Ops, ops[o].status = "absent", ops[o].type = "none",
         \A p \in Ops \ {o} : ops'[p] = ops[p], HasLegs(o)'
  PROVE  LegsOfRequests'
<1> SUFFICES ASSUME NEW p \in Ops, p # o PROVE HasLegs(p)'
  BY DEF LegsOfRequests
<1>1. HasLegs(p)
  BY DEF LInv, LegsOfRequests
<1>2. CASE ops[p].type = "refund"
  <2>1. ops[p].deposit # o
    BY <1>1, <1>2 DEF HasLegs, IsDeposit
  <2> QED
    BY <1>1, <1>2, <2>1 DEF HasLegs, IsDeposit
<1>3. CASE ops[p].type # "refund"
  BY <1>1, <1>3 DEF HasLegs
<1> QED
  BY <1>2, <1>3

LEMMA InsertsHaveLegs ==
  ASSUME IInv, LInv, NEW s \in Sessions, NEW job, NEW type, NEW txs,
         Insert(s, job, type, txs),
         \/ /\ type = "deposit"
            /\ \E r \in Deposits \union Payments : r.amount > 0 /\ txs = DepositTxs(r)
         \/ /\ type = "withdrawal"
            /\ \E r \in Withdrawals : r.amount > 0 /\ txs = WithdrawalTxs(r)
         \/ /\ type \in {"buy", "sell"}
            /\ \E r \in Exchanges :
                 /\ r.base_amount * r.quote_amount < 0 /\ r.fee >= 0
                 /\ type = "buy" <=> r.base_amount > 0
                 /\ txs = ExchangeTxs(r)
  PROVE  LInv'
<1> USE DEF IInv
<1>1. PICK o \in Ops :
        /\ At(s, "idle") /\ ops[o].status = "absent"
        /\ ops' = [ops EXCEPT ![o] = [type |-> type, status |-> "new",
                                      txs |-> txs, deposit |-> None]]
        /\ ses' = [ses EXCEPT ![s] = [pc |-> "validate", job |-> job, op |-> o,
                                      todo |-> ToCheck(txs)]]
  BY DEF Insert
<1>2. /\ \A p \in Ops \ {o} : ops'[p] = ops[p]
      /\ ops'[o] = [type |-> type, status |-> "new", txs |-> txs, deposit |-> None]
  BY <1>1 DEF TypeOK
<1>3. OnlySession(s) /\ ses'[s].pc = "validate"
  BY <1>1 DEF TypeOK, OnlySession
<1>4. ops'[o].type = type /\ ops'[o].status = "new" /\ ops'[o].txs = txs
  BY <1>2
<1>5. HasLegs(o)'
  BY <1>4 DEF HasLegs
<1>6. LegsOfRequests'
  <2>1. ops[o].type = "none"
    BY <1>1 DEF LInv, LegsOfRequests, HasLegs
  <2> QED
    BY <1>1, <1>2, <1>5, <2>1, RowsArrive
<1>7. RefundOfDeposit'
  BY <1>1, <1>2, <1>3 DEF LInv, RefundOfDeposit, IsDeposit, OnlySession, WorksOnRow
<1> QED
  BY <1>6, <1>7 DEF LInv

LEMMA CreationsHaveLegs ==
  ASSUME IInv, LInv, NEW s \in Sessions,
         CreateDeposit(s) \/ AddPayment(s) \/ CreateWithdrawal(s) \/ CreateExchange(s)
  PROVE  LInv'
<1>1. CASE CreateDeposit(s)
  BY <1>1, InsertsHaveLegs DEF CreateDeposit
<1>2. CASE AddPayment(s)
  BY <1>2, InsertsHaveLegs DEF AddPayment
<1>3. CASE CreateWithdrawal(s)
  BY <1>3, InsertsHaveLegs DEF CreateWithdrawal
<1>4. CASE CreateExchange(s)
  <2>1. PICK r \in Exchanges :
          /\ r.base_amount * r.quote_amount < 0
          /\ r.fee >= 0
          /\ Insert(s, "exchange", IF r.base_amount > 0 THEN "buy" ELSE "sell",
                    ExchangeTxs(r))
    BY <1>4 DEF CreateExchange
  <2> QED
    BY <2>1, InsertsHaveLegs
<1> QED
  BY <1>1, <1>2, <1>3, <1>4

LEMMA RefundInsertKeepsLegs ==
  ASSUME IInv, LInv, NEW s \in Sessions, RefundInsert(s)
  PROVE  LInv'
<1> USE DEF IInv
<1>1. PICK o \in Ops :
        /\ At(s, "refund_insert") /\ ops[o].status = "absent"
        /\ ops' = [ops EXCEPT ![o] = [type |-> "refund", status |-> "new",
                                      txs |-> <<>>, deposit |-> ses[s].op]]
        /\ ses' = [ses EXCEPT ![s].pc = "refund_debit", ![s].op = o]
  BY DEF RefundInsert
<1>2. /\ \A p \in Ops \ {o} : ops'[p] = ops[p]
      /\ ops'[o] = [type |-> "refund", status |-> "new", txs |-> <<>>, deposit |-> ses[s].op]
  BY <1>1 DEF TypeOK
<1>3. OnlySession(s) /\ ses'[s].pc = "refund_debit" /\ ses'[s].op = o
  BY <1>1 DEF TypeOK, OnlySession, Session
<1>4. /\ ops'[o].type = "refund" /\ ops'[o].status = "new" /\ ops'[o].txs = <<>>
      /\ ops'[o].deposit = ses[s].op
  BY <1>2
<1>5. /\ ops[o].type = "none" /\ ses[s].op \in Ops /\ ops[ses[s].op].type = "deposit"
      /\ ses[s].op # o
  BY <1>1 DEF LInv, LegsOfRequests, HasLegs, RefundOfDeposit, IsDeposit, WorksOnRow
<1>6. HasLegs(o)'
  BY <1>2, <1>4, <1>5 DEF HasLegs, IsDeposit
<1>7. LegsOfRequests'
  BY <1>1, <1>2, <1>5, <1>6, RowsArrive
<1>8. RefundOfDeposit'
  <2>1. \A q \in Ops : ops[q].type \in {"deposit", "refund"} => ops'[q].type = ops[q].type
    BY <1>2, <1>5
  <2>2. ASSUME NEW t \in Sessions
        PROVE  /\ ses'[t].pc = "refund_insert" => ops'[ses'[t].op].type = "deposit"
               /\ ses'[t].pc \in {"refund_debit", "refund_credit"} =>
                    ops'[ses'[t].op].type = "refund"
    <3>1. CASE t = s
      BY <1>3, <1>4, <3>1
    <3>2. CASE t # s
      <4>1. ses'[t] = ses[t] /\ (~At(t, "idle") => ses[t].op \in Ops)
        BY <1>3, <3>2 DEF OnlySession, WorksOnRow
      <4> QED
        BY <4>1, <2>1 DEF LInv, RefundOfDeposit, IsDeposit
    <3> QED
      BY <3>1, <3>2
  <2> QED
    BY <2>2 DEF RefundOfDeposit, IsDeposit
<1> QED
  BY <1>7, <1>8 DEF LInv

LEMMA RefundLegsKeepLegs ==
  ASSUME IInv, LInv, NEW s \in Sessions, RefundDebit(s) \/ RefundCredit(s)
  PROVE  LInv'
<1> USE DEF IInv
<1>0. PICK p \in Ops : p = ses[s].op
  BY DEF RefundDebit, RefundCredit, WorksOnRow
<1>d. PICK d : d = ops[p].deposit
  OBVIOUS
<1>1. /\ ses[s].pc \in {"refund_debit", "refund_credit"} /\ p \in Ops /\ d \in Ops
      /\ ops[p].type = "refund" /\ ops[d].type = "deposit" /\ p # d
      /\ HasLegs(p)
  BY <1>0, <1>d DEF RefundDebit, RefundCredit, WorksOnRow, LInv, RefundOfDeposit, LegsOfRequests, HasLegs,
         IsDeposit
<1>2. PICK leg : IsRefundLeg(leg, ops[d].txs) /\ ops' = [ops EXCEPT ![p].txs = Append(@, leg)]
  BY <1>0, <1>d DEF RefundDebit, RefundCredit, AddLeg, Leg, IsRefundLeg, RefundAmount
<1>3. /\ \A o \in Ops \ {p} : ops'[o] = ops[o]
      /\ ops'[p] = [ops[p] EXCEPT !.txs = Append(@, leg)]
  BY <1>1, <1>2 DEF TypeOK
<1>4. /\ ops'[p].type = "refund" /\ ops'[p].deposit = d
      /\ ops'[p].status = ops[p].status
      /\ ops'[p].txs = Append(ops[p].txs, leg)
      /\ ops[p].txs \in Seq(Tx)
  BY <1>d, <1>1, <1>3 DEF TypeOK, Row
<1>5. OnlySession(s) /\ ses'[s].op = p /\ ses'[s].pc \in {"refund_credit", "validate"}
  BY <1>0 DEF RefundDebit, RefundCredit, GoTo, TypeOK, Session, OnlySession
<1>6. HasLegs(p)'
  <2>1. ASSUME NEW i \in DOMAIN ops'[p].txs
        PROVE  IsRefundLeg(ops'[p].txs[i], ops[d].txs)
    <3>1. CASE i \in DOMAIN ops[p].txs
      BY <1>d, <1>1, <1>4, <3>1 DEF HasLegs
    <3>2. CASE i \notin DOMAIN ops[p].txs
      <4>1. ops'[p].txs[i] = leg
        BY <1>4, <2>1, <3>2
      <4> QED
        BY <4>1, <1>2
    <3> QED
      BY <3>1, <3>2
  <2>2. ops'[d] = ops[d]
    BY <1>1, <1>3
  <2>3. ops'[p].status # "absent"
    BY <1>1, <1>4 DEF HasLegs
  <2>4. HasLegs(p)' <=> /\ ops'[p].deposit \in Ops /\ ops'[ops'[p].deposit].type = "deposit"
                        /\ \A i \in DOMAIN ops'[p].txs :
                             IsRefundLeg(ops'[p].txs[i], ops'[ops'[p].deposit].txs)
                        /\ ops'[p].status # "absent"
    BY <1>4 DEF HasLegs, IsDeposit
  <2> QED
    BY <1>1, <1>4, <2>1, <2>2, <2>3, <2>4
<1>7. LegsOfRequests'
  <2> SUFFICES ASSUME NEW o \in Ops, o # p PROVE HasLegs(o)'
    BY <1>6 DEF LegsOfRequests
  <2>1. HasLegs(o) /\ ops'[o] = ops[o]
    BY <1>3 DEF LInv, LegsOfRequests
  <2>2. ops[o].type = "refund" => ops'[ops[o].deposit] = ops[ops[o].deposit]
    BY <1>1, <1>3, <2>1 DEF HasLegs, IsDeposit
  <2> QED
    BY <2>1, <2>2 DEF HasLegs, IsDeposit
<1>8. RefundOfDeposit'
  <2>1. \A q \in Ops : ops'[q].type = ops[q].type
    BY <1>1, <1>3, <1>4
  <2> QED
    BY <1>1, <1>5, <2>1 DEF LInv, RefundOfDeposit, IsDeposit, OnlySession, WorksOnRow
<1> QED
  BY <1>7, <1>8 DEF LInv

LEMMA StepKeepsLegs ==
  ASSUME IInv, LInv, Next
  PROVE  LInv'
<1>1. ASSUME NEW s \in Web, WebStep(s) PROVE LInv'
  BY <1>1, CreationsHaveLegs DEF WebStep, Sessions
<1>2. ASSUME NEW s \in Admins, AdminStep(s) PROVE LInv'
  BY <1>2, CreationsHaveLegs, LoadsKeepLegs DEF AdminStep, Sessions
<1>3. ASSUME NEW s \in Sessions, Continue(s) PROVE LInv'
  BY <1>3, StatusesKeepLegs, RefundInsertKeepsLegs, RefundLegsKeepLegs DEF Continue
<1> QED
  BY <1>1, <1>2, <1>3 DEF Next

LEMMA StutterKeepsLegs ==
  ASSUME LInv, UNCHANGED vars
  PROVE  LInv'
BY DEF vars, LInv, LegsOfRequests, HasLegs, IsDeposit, RefundOfDeposit

LEMMA InitHasLegs == Init => LInv
BY DEF Init, LInv, LegsOfRequests, HasLegs, NoRow, RefundOfDeposit, Idle

(* Any invariant that follows from both holds throughout.                  *)
THEOREM LegsOfOperations == Spec => [](IInv /\ LInv)
<1>1. Init => IInv /\ LInv
  BY InitInvariant, InitHasLegs
<1>2. IInv /\ LInv /\ [Next]_vars => (IInv /\ LInv)'
  BY StepPreserves, StutterPreserves, StepKeepsLegs, StutterKeepsLegs
<1> QED
  BY <1>1, <1>2, PTL DEF Spec

-----------------------------------------------------------------------------
(* The balance that is shown.                                              *)

(* A refund only gives to active accounts.                                 *)
LEMMA RefundMovesForward ==
  ASSUME TypeOK, LInv, OrdinaryRequests, NEW o \in Ops, ops[o].type = "refund", NEW a \in Active
  PROVE  Moved(ops[o].txs, a) >= 0
<1> DEFINE txs == ops[o].txs
           legs == ops[ops[o].deposit].txs
           pos == {i \in DOMAIN legs : legs[i].amount > 0}
           amount == AmountOver(legs, pos)
<1>1. PICK r \in Transfers : OrdinaryDeposit(r) /\ legs = DepositTxs(r)
  BY RequestsAssumption DEF LInv, LegsOfRequests, HasLegs, IsDeposit, OrdinaryRequests
<1>2. Lowest(legs) \intersect Active = {}
  BY <1>1, DepositTakesFromOutside
<1>3. txs \in Seq(Tx) /\ legs \in Seq(Tx)
  BY DEF TypeOK, Row, LInv, LegsOfRequests, HasLegs
<1>4. amount \in Int /\ amount >= 0
  <2> DEFINE f == [i \in DOMAIN legs |-> legs[i].amount]
             z == [i \in DOMAIN legs |-> 0]
  <2>1. \A i \in pos : f[i] \in Int /\ z[i] \in Int /\ z[i] <= f[i] /\ z[i] = 0
    BY <1>3, LegFacts
  <2>2. IsFiniteSet(pos)
    <3>1. pos \subseteq DOMAIN legs
      OBVIOUS
    <3> QED
      BY <1>3, <3>1, LegFacts, FS_Subset
  <2>3. amount = SumFunctionOnSet(f, pos)
    BY DEF AmountOver
  <2> HIDE DEF f, z, pos, amount
  <2>4. SumFunctionOnSet(f, pos) \in Int /\ SumFunctionOnSet(z, pos) <= SumFunctionOnSet(f, pos)
        /\ SumFunctionOnSet(z, pos) = 0
    BY <2>1, <2>2, SumType, SumMonotonic, SumOfZeros
  <2> QED
    BY <2>3, <2>4
<1>5. ASSUME NEW i \in DOMAIN txs, txs[i].account = a
      PROVE  txs[i].amount >= 0
  <2>1. IsRefundLeg(txs[i], legs)
    BY DEF LInv, LegsOfRequests, HasLegs
  <2> HIDE DEF txs, legs
  <2>2. txs[i].account \notin Lowest(legs)
    BY <1>2, <1>5
  <2> QED
    BY <1>4, <2>1, <2>2 DEF IsRefundLeg
<1>6. {i \in DOMAIN txs : txs[i].account = a /\ txs[i].amount < 0} = {}
  <2>1. \A i \in DOMAIN txs : txs[i].amount \in Int
    BY <1>3, LegFacts
  <2> HIDE DEF txs
  <2> QED
    BY <1>5, <2>1
<1>7. Debited(txs, a) = 0
  BY <1>6, SumOfNothing DEF Debited, AmountOver
<1> HIDE DEF txs, legs, pos, amount
<1>8. Moved(txs, a) >= 0
  BY <1>3, <1>7, MovedSplits
<1> QED
  BY <1>8 DEF txs

(* What is held and not shown has put money on the account.                *)
LEMMA UnshownGives ==
  ASSUME TypeOK, LInv, OrdinaryRequests, NEW o \in Ops, ops[o].status \in Held,
         NEW a \in Active, ~Shown(o, a)
  PROVE  Moved(ops[o].txs, a) >= 0
<1>0. HasLegs(o)
  BY DEF LInv, LegsOfRequests
<1>1. CASE ops[o].type = "refund"
  BY <1>1, RefundMovesForward
<1>2. CASE ops[o].type = "deposit"
  <2>1. PICK r \in Deposits \union Payments : ops[o].txs = DepositTxs(r)
    BY <1>0, <1>2 DEF HasLegs
  <2>2. r \in Transfers /\ OrdinaryDeposit(r)
    BY RequestsAssumption DEF OrdinaryRequests
  <2> QED
    BY <2>1, <2>2, DepositMovesForward
<1>3. CASE ops[o].type \in {"buy", "sell"}
  <2>1. PICK r \in Exchanges :
          /\ r.base_amount * r.quote_amount < 0 /\ r.fee >= 0
          /\ ops[o].type = "buy" <=> r.base_amount > 0
          /\ ops[o].txs = ExchangeTxs(r)
    BY <1>0, <1>3 DEF HasLegs
  <2>2. r \in Trades /\ OrdinaryExchange(r)
    BY RequestsAssumption DEF OrdinaryRequests
  <2>3. IF r.base_amount > 0 THEN AssetOf[a] \in CryptoAssets
                             ELSE AssetOf[a] \notin CryptoAssets
    BY <1>3, <2>1 DEF Shown
  <2> QED
    BY <2>1, <2>2, <2>3, ExchangeMovesForward
<1>4. CASE ops[o].type = "withdrawal"
  BY <1>4 DEF Shown
<1>5. ops[o].type # "none"
  BY <1>0 DEF HasLegs
<1> QED
  BY <1>1, <1>2, <1>3, <1>4, <1>5 DEF TypeOK, Row, Types

LEMMA HeldCoversShown ==
  ASSUME TypeOK, LInv, OrdinaryRequests, IsFiniteSet(Ops)
  PROVE  ShownIsSpendable
<1> SUFFICES ASSUME NEW a \in Active
             PROVE  ShownBalance(a) =< Balance({o \in Ops \ hidden : ops[o].status \in Held}, a)
  BY DEF ShownIsSpendable, Active
<1> DEFINE m == [o \in Ops |-> Moved(ops[o].txs, a)]
           shown == {o \in Ops \ hidden : Shown(o, a)}
           held == {o \in Ops \ hidden : ops[o].status \in Held}
<1>1. shown \in SUBSET held
  BY DEF Shown
<1>2. IsFiniteSet(held)
  <2>1. held \subseteq Ops
    OBVIOUS
  <2> QED
    BY <2>1, FS_Subset
<1>3. \A o \in held : m[o] \in Int
  <2>1. ASSUME NEW o \in Ops PROVE Moved(ops[o].txs, a) \in Int
    <3>1. ops[o].txs \in Seq(Tx)
      BY DEF TypeOK, Row
    <3> QED
      BY <3>1, MovedSplits
  <2> QED
    BY <2>1
<1>4. \A o \in held \ shown : m[o] >= 0
  BY UnshownGives
<1>5. /\ ShownBalance(a) = SumFunctionOnSet(m, shown)
      /\ Balance({o \in Ops \ hidden : ops[o].status \in Held}, a) = SumFunctionOnSet(m, held)
  BY DEF ShownBalance, Balance
<1> HIDE DEF m, shown, held
<1>6. SumFunctionOnSet(m, shown) <= SumFunctionOnSet(m, held)
  BY <1>1, <1>2, <1>3, <1>4, SumOfMore
<1> QED
  BY <1>5, <1>6

(* with_balances never shows more than what is_valid would let be spent,   *)
(* whatever the commands and the crashes, refunds included.                *)
THEOREM ShownBalanceIsSpendable ==
  ASSUME OrdinaryRequests, IsFiniteSet(Ops)
  PROVE  Spec => []ShownIsSpendable
<1>1. IInv /\ LInv => ShownIsSpendable
  BY HeldCoversShown DEF IInv
<1> QED
  BY <1>1, LegsOfOperations, PTL

-----------------------------------------------------------------------------
(* The user's list.  Requests name accounts of the user only as the one    *)
(* that is paid or pays, and exchanges are of a crypto asset for fiat.     *)

ListedRequests ==
  /\ \A r \in Deposits \union Payments \union Withdrawals :
       /\ r.fee_account \notin UserAccounts /\ r.payment \notin UserAccounts
       /\ r.rounding = 0 \/ r.rounding_account \notin UserAccounts
  /\ \A r \in Withdrawals : r.fee >= 0
  /\ \A r \in Exchanges :
       /\ AssetOf[r.base] \in CryptoAssets /\ AssetOf[r.quote] \notin CryptoAssets
       /\ {r.base_exchange, r.quote_exchange, r.fee_account} \intersect UserAccounts = {}
       /\ r.base_rounding = 0 \/ r.base_rounding_account \notin UserAccounts
       /\ r.quote_rounding = 0 \/ r.quote_rounding_account \notin UserAccounts

LEMMA TransferOnUser ==
  ASSUME NEW r \in Transfers, NEW from \in Accounts, NEW to \in Accounts, NEW A,
         r.fee_account \notin A, r.payment \notin A,
         r.rounding = 0 \/ r.rounding_account \notin A
  PROVE  Part(TransferTxs(r, from, to), On(A)) =
           (IF from \in A THEN -r.amount ELSE 0) + (IF to \in A THEN r.amount ELSE 0)
             + (IF r.user \in A THEN -r.fee ELSE 0)
<1>1. /\ r.payment \in Accounts /\ r.user \in Accounts /\ r.fee_account \in Accounts
      /\ r.rounding_account \in Accounts
      /\ r.amount \in Int /\ r.fee \in Int /\ r.rounding \in Int
      /\ -r.amount \in Int /\ -r.fee \in Int /\ -r.rounding \in Int
  BY DEF Transfers
<1>2. r.rounding_account \in A => -r.rounding = 0
  BY <1>1, MinusZero
<1>3. /\ Share(Leg(from, -r.amount), On(A)) = IF from \in A THEN -r.amount ELSE 0
      /\ Share(Leg(to, r.amount), On(A)) = IF to \in A THEN r.amount ELSE 0
      /\ Share(Leg(r.user, -r.fee), On(A)) = IF r.user \in A THEN -r.fee ELSE 0
      /\ Share(Leg(r.fee_account, r.fee), On(A)) = 0
      /\ Share(Leg(r.rounding_account, -r.rounding), On(A)) = 0
      /\ Share(Leg(r.payment, r.rounding), On(A)) = 0
  BY <1>1, <1>2, ShareOn
<1>4. Part(TransferTxs(r, from, to), On(A)) =
         Share(Leg(from, -r.amount), On(A)) + Share(Leg(to, r.amount), On(A))
                + (Share(Leg(r.user, -r.fee), On(A)) + Share(Leg(r.fee_account, r.fee), On(A)))
                + (Share(Leg(r.rounding_account, -r.rounding), On(A))
                     + Share(Leg(r.payment, r.rounding), On(A)))
  BY PartOfTransfer
<1> QED
  BY <1>1, <1>3, <1>4

(* The legs an item picks, as legs on some of the user's accounts.         *)
OwnAccounts == {a \in UserAccounts : AssetOf[a] \in AllowedAssets}
OwnCrypto == {a \in OwnAccounts : AssetOf[a] \in CryptoAssets}
OwnFiat == {a \in OwnAccounts : AssetOf[a] \notin CryptoAssets}

LEMMA PickedLegs ==
  ASSUME NEW o \in Ops
  PROVE  /\ Own(o) = LegsOn(o, OwnAccounts)
         /\ Crypto(o) = LegsOn(o, OwnCrypto)
         /\ Fiat(o) = LegsOn(o, OwnFiat)
BY DEF Own, Crypto, Fiat, LegsOn, OwnAccounts, OwnCrypto, OwnFiat

(* An asset is found over legs when some leg is on an account that has it. *)
LEMMA AssetIsTouched ==
  ASSUME NEW o \in Ops, NEW A, NEW asset
  PROVE  asset \in AssetsOver(o, LegsOn(o, A)) <=>
           \E i \in DOMAIN ops[o].txs : ops[o].txs[i].account \in {a \in A : AssetOf[a] = asset}
BY DEF AssetsOver, LegsOn

(* On the user's accounts a transfer only has legs on the account it names. *)
LEMMA TransferTouches ==
  ASSUME NEW r \in Transfers, NEW from \in {r.payment, r.user}, NEW to \in {r.payment, r.user},
         r.user \in {from, to}, NEW A, r.fee_account \notin A, r.payment \notin A,
         r.rounding = 0 \/ r.rounding_account \notin A
  PROVE  (\E i \in DOMAIN TransferTxs(r, from, to) : TransferTxs(r, from, to)[i].account \in A)
           <=> r.user \in A
<1> DEFINE txs == TransferTxs(r, from, to)
<1>1. from \in Accounts /\ to \in Accounts
  BY DEF Transfers
<1>2. /\ \E i \in DOMAIN txs : txs[i].account = from
      /\ \E i \in DOMAIN txs : txs[i].account = to
  BY <1>1, LegsOfTransfer
<1>3. ASSUME NEW i \in DOMAIN txs, txs[i].account \in A PROVE r.user \in A
  <2> DEFINE a == txs[i].account
  <2>1. \/ a \in {from, to}
        \/ r.fee # 0 /\ a \in {r.user, r.fee_account}
        \/ r.rounding # 0 /\ a \in {r.rounding_account, r.payment}
    BY <1>1, <1>3, LegsOfTransfer
  <2>2. a \in A
    BY <1>3
  <2> HIDE DEF a
  <2> QED
    BY <2>1, <2>2
<1> HIDE DEF txs
<1> QED
  BY <1>2, <1>3 DEF txs

LEMMA DepositStatesItsMoney ==
  ASSUME TypeOK, LInv, ListedRequests, NEW o \in Ops, ops[o].type = "deposit",
         NEW asset \in AllowedAssets
  PROVE  CameIn(o, asset) - WentOut(o, asset)
           = Total(o, LegsOn(o, {a \in UserAccounts : AssetOf[a] = asset}))
<1> DEFINE mine == {a \in UserAccounts : AssetOf[a] = asset}
<1>1. PICK r \in Deposits \union Payments : r.amount > 0 /\ ops[o].txs = DepositTxs(r)
  BY DEF LInv, LegsOfRequests, HasLegs
<1>2. r \in Transfers /\ r.payment \in Accounts /\ r.user \in Accounts
      /\ r.amount \in Int /\ r.fee \in Int
  BY RequestsAssumption DEF Transfers
<1>3. ops[o].txs = TransferTxs(r, r.payment, r.user)
  BY <1>1, TransfersAreDepositsAndWithdrawals
<1>4. /\ r.fee_account \notin UserAccounts /\ r.payment \notin UserAccounts
      /\ r.rounding = 0 \/ r.rounding_account \notin UserAccounts
  BY DEF ListedRequests
<1>5. ASSUME NEW A \in SUBSET UserAccounts
      PROVE  Total(o, LegsOn(o, A)) = IF r.user \in A THEN r.amount - r.fee ELSE 0
  <2>1. Part(TransferTxs(r, r.payment, r.user), On(A)) =
           (IF r.payment \in A THEN -r.amount ELSE 0) + (IF r.user \in A THEN r.amount ELSE 0)
             + (IF r.user \in A THEN -r.fee ELSE 0)
    BY <1>2, <1>4, TransferOnUser
  <2>2. Total(o, LegsOn(o, A)) = Part(ops[o].txs, On(A))
    BY LegsAreParts
  <2> QED
    BY <1>2, <1>3, <1>4, <2>1, <2>2
<1>6. asset \in AssetsOver(o, Own(o)) <=> r.user \in mine
  <2>1. mine = {a \in OwnAccounts : AssetOf[a] = asset}
    BY DEF OwnAccounts
  <2>2. r.fee_account \notin mine /\ r.payment \notin mine
        /\ (r.rounding = 0 \/ r.rounding_account \notin mine)
    BY <1>4
  <2>3. (\E i \in DOMAIN ops[o].txs : ops[o].txs[i].account \in mine) <=> r.user \in mine
    BY <1>2, <1>3, <2>2, TransferTouches
  <2> QED
    BY <2>1, <2>3, AssetIsTouched, PickedLegs
<1>7. mine \in SUBSET UserAccounts /\ OwnAccounts \in SUBSET UserAccounts
      /\ (r.user \in mine => r.user \in OwnAccounts)
  BY DEF OwnAccounts
<1>8. WentOut(o, asset) = 0
  BY DEF WentOut
<1>9. CameIn(o, asset) = IF r.user \in mine THEN Total(o, Own(o)) ELSE 0
  BY <1>6 DEF CameIn, DebitAssets, DebitLegs
<1> HIDE DEF mine
<1>10. r.user \in mine => Total(o, Own(o)) = r.amount - r.fee
  BY <1>5, <1>7, PickedLegs
<1>11. Total(o, LegsOn(o, mine)) = IF r.user \in mine THEN r.amount - r.fee ELSE 0
  BY <1>5, <1>7
<1> QED
  BY <1>2, <1>8, <1>9, <1>10, <1>11 DEF mine

LEMMA WithdrawalStatesItsMoney ==
  ASSUME TypeOK, LInv, ListedRequests, NEW o \in Ops, ops[o].type = "withdrawal",
         NEW asset \in AllowedAssets
  PROVE  CameIn(o, asset) - WentOut(o, asset)
           = Total(o, LegsOn(o, {a \in UserAccounts : AssetOf[a] = asset}))
<1> DEFINE mine == {a \in UserAccounts : AssetOf[a] = asset}
<1>1. PICK r \in Withdrawals : r.amount > 0 /\ ops[o].txs = WithdrawalTxs(r)
  BY DEF LInv, LegsOfRequests, HasLegs
<1>2. r \in Transfers /\ r.payment \in Accounts /\ r.user \in Accounts
      /\ r.amount \in Int /\ r.fee \in Int
  BY RequestsAssumption DEF Transfers
<1>3. ops[o].txs = TransferTxs(r, r.user, r.payment)
  BY <1>1, TransfersAreDepositsAndWithdrawals
<1>4. /\ r.fee_account \notin UserAccounts /\ r.payment \notin UserAccounts
      /\ r.rounding = 0 \/ r.rounding_account \notin UserAccounts
      /\ r.fee >= 0
  BY DEF ListedRequests
<1>5. ASSUME NEW A \in SUBSET UserAccounts
      PROVE  Total(o, LegsOn(o, A)) = IF r.user \in A THEN -r.amount - r.fee ELSE 0
  <2>1. Part(TransferTxs(r, r.user, r.payment), On(A)) =
           (IF r.user \in A THEN -r.amount ELSE 0) + (IF r.payment \in A THEN r.amount ELSE 0)
             + (IF r.user \in A THEN -r.fee ELSE 0)
    BY <1>2, <1>4, TransferOnUser
  <2>2. Total(o, LegsOn(o, A)) = Part(ops[o].txs, On(A))
    BY LegsAreParts
  <2> QED
    BY <1>2, <1>3, <1>4, <2>1, <2>2
<1>6. asset \in AssetsOver(o, Own(o)) <=> r.user \in mine
  <2>1. mine = {a \in OwnAccounts : AssetOf[a] = asset}
    BY DEF OwnAccounts
  <2>2. r.fee_account \notin mine /\ r.payment \notin mine
        /\ (r.rounding = 0 \/ r.rounding_account \notin mine)
    BY <1>4
  <2>3. (\E i \in DOMAIN ops[o].txs : ops[o].txs[i].account \in mine) <=> r.user \in mine
    BY <1>2, <1>3, <2>2, TransferTouches
  <2> QED
    BY <2>1, <2>3, AssetIsTouched, PickedLegs
<1>7. mine \in SUBSET UserAccounts /\ OwnAccounts \in SUBSET UserAccounts
      /\ (r.user \in mine => r.user \in OwnAccounts)
  BY DEF OwnAccounts
<1>8. CameIn(o, asset) = 0
  BY DEF CameIn
<1>9. WentOut(o, asset) = IF r.user \in mine THEN Magnitude(Total(o, Own(o))) ELSE 0
  BY <1>6 DEF WentOut, CreditAssets, CreditLegs
<1> HIDE DEF mine
<1>10. r.user \in mine => Magnitude(Total(o, Own(o))) = r.amount + r.fee
  BY <1>1, <1>2, <1>4, <1>5, <1>7, PickedLegs DEF Magnitude
<1>11. Total(o, LegsOn(o, mine)) = IF r.user \in mine THEN -r.amount - r.fee ELSE 0
  BY <1>5, <1>7
<1> QED
  BY <1>2, <1>8, <1>9, <1>10, <1>11 DEF mine

LEMMA ListedExchange ==
  ASSUME ListedRequests, NEW r \in Exchanges
  PROVE  /\ r \in Trades
         /\ AssetOf[r.base] \in CryptoAssets /\ AssetOf[r.quote] \notin CryptoAssets
         /\ r.base_exchange \notin UserAccounts /\ r.quote_exchange \notin UserAccounts
         /\ r.fee_account \notin UserAccounts
         /\ r.base_rounding = 0 \/ r.base_rounding_account \notin UserAccounts
         /\ r.quote_rounding = 0 \/ r.quote_rounding_account \notin UserAccounts
BY RequestsAssumption DEF ListedRequests

(* Of an exchange only the two accounts it names are the user's.           *)
LEMMA ExchangeOnUser ==
  ASSUME ListedRequests, NEW r \in Exchanges, NEW F, F \subseteq On(UserAccounts)
  PROVE  Part(ExchangeTxs(r), F) =
           Share(Leg(r.base, r.base_amount), F) + Share(Leg(r.quote, r.quote_amount), F)
             + Share(Leg(r.quote, -r.fee), F)
<1>1. r \in Trades
  BY ListedExchange
<1>2. ASSUME NEW a \in Accounts, NEW n \in Int, a \notin UserAccounts \/ n = 0
      PROVE  Share(Leg(a, n), F) = 0
  BY <1>2 DEF Share, Leg, Tx, On
<1>3. /\ r.base_rounding_account \in UserAccounts => -r.base_rounding = 0
      /\ r.quote_rounding_account \in UserAccounts => -r.quote_rounding = 0
  BY <1>1, TradeTypes, ListedExchange, MinusZero
<1>4. /\ Share(Leg(r.base_exchange, -r.base_amount), F) = 0
      /\ Share(Leg(r.quote_exchange, -r.quote_amount), F) = 0
      /\ Share(Leg(r.fee_account, r.fee), F) = 0
  BY <1>1, <1>2, TradeTypes, ListedExchange
<1>5. /\ Share(Leg(r.base_rounding_account, -r.base_rounding), F) = 0
      /\ Share(Leg(r.base_exchange, r.base_rounding), F) = 0
      /\ Share(Leg(r.quote_rounding_account, -r.quote_rounding), F) = 0
      /\ Share(Leg(r.quote_exchange, r.quote_rounding), F) = 0
  BY <1>1, <1>2, <1>3, TradeTypes, ListedExchange
<1>6. Part(ExchangeTxs(r), F) =
              (Share(Leg(r.base, r.base_amount), F)
                 + Share(Leg(r.base_exchange, -r.base_amount), F))
              + (Share(Leg(r.quote, r.quote_amount), F)
                   + Share(Leg(r.quote_exchange, -r.quote_amount), F))
              + (Share(Leg(r.quote, -r.fee), F) + Share(Leg(r.fee_account, r.fee), F))
              + (Share(Leg(r.base_rounding_account, -r.base_rounding), F)
                   + Share(Leg(r.base_exchange, r.base_rounding), F))
              + (Share(Leg(r.quote_rounding_account, -r.quote_rounding), F)
                   + Share(Leg(r.quote_exchange, r.quote_rounding), F))
  BY <1>1, PartOfExchange
<1>7. /\ Share(Leg(r.base, r.base_amount), F) \in Int
      /\ Share(Leg(r.quote, r.quote_amount), F) \in Int
      /\ Share(Leg(r.quote, -r.fee), F) \in Int
  BY <1>1, TradeTypes DEF Share, Leg
<1> QED
  BY <1>4, <1>5, <1>6, <1>7

LEMMA ExchangeTouches ==
  ASSUME ListedRequests, NEW r \in Exchanges, NEW A \in SUBSET UserAccounts
  PROVE  (\E i \in DOMAIN ExchangeTxs(r) : ExchangeTxs(r)[i].account \in A)
           <=> r.base \in A \/ r.quote \in A
<1> DEFINE txs == ExchangeTxs(r)
<1>1. r \in Trades
  BY ListedExchange
<1>2. /\ \E i \in DOMAIN txs : txs[i].account = r.base
      /\ \E i \in DOMAIN txs : txs[i].account = r.quote
  BY <1>1, LegsOfExchange
<1>3. ASSUME NEW i \in DOMAIN txs, txs[i].account \in A PROVE r.base \in A \/ r.quote \in A
  <2> DEFINE a == txs[i].account
  <2>1. \/ a \in {r.base, r.base_exchange, r.quote, r.quote_exchange, r.fee_account}
        \/ r.base_rounding # 0 /\ a \in {r.base_rounding_account, r.base_exchange}
        \/ r.quote_rounding # 0 /\ a \in {r.quote_rounding_account, r.quote_exchange}
    BY <1>1, <1>3, LegsOfExchange
  <2>2. a \in A
    BY <1>3
  <2> HIDE DEF a
  <2> QED
    BY <2>1, <2>2, ListedExchange
<1> HIDE DEF txs
<1> QED
  BY <1>2, <1>3 DEF txs

LEMMA ExchangeStatesItsMoney ==
  ASSUME TypeOK, LInv, ListedRequests, NEW o \in Ops, ops[o].type \in {"buy", "sell"},
         NEW asset \in AllowedAssets
  PROVE  CameIn(o, asset) - WentOut(o, asset)
           = Total(o, LegsOn(o, {a \in UserAccounts : AssetOf[a] = asset}))
<1> DEFINE mine == {a \in UserAccounts : AssetOf[a] = asset}
<1>1. PICK r \in Exchanges : /\ r.base_amount * r.quote_amount < 0 /\ r.fee >= 0
                             /\ ops[o].type = "buy" <=> r.base_amount > 0
                             /\ ops[o].txs = ExchangeTxs(r)
  BY DEF LInv, LegsOfRequests, HasLegs
<1>2. r \in Trades
  BY ListedExchange
<1>3. IF ops[o].type = "buy" THEN r.base_amount > 0 /\ r.quote_amount < 0
                             ELSE r.base_amount < 0 /\ r.quote_amount > 0
  <2>1. r.base_amount \in Int /\ r.quote_amount \in Int
    BY <1>2, TradeTypes
  <2>2. \A m, n \in Int : m * n < 0 => (m > 0 /\ n < 0) \/ (m < 0 /\ n > 0)
    <3>1. \A m, n \in Int : m = 0 => ~(m * n < 0)
      OBVIOUS
    <3>2. \A m, n \in Int : m > 0 /\ n >= 0 => ~(m * n < 0)
      OBVIOUS
    <3>3. \A m, n \in Int : m < 0 /\ n <= 0 => ~(m * n < 0)
      OBVIOUS
    <3> QED
      BY <3>1, <3>2, <3>3
  <2> QED
    BY <1>1, <2>1, <2>2
<1>4. ASSUME NEW F, F \subseteq On(UserAccounts)
      PROVE  Part(ops[o].txs, F) =
               Share(Leg(r.base, r.base_amount), F) + Share(Leg(r.quote, r.quote_amount), F)
                 + Share(Leg(r.quote, -r.fee), F)
  BY <1>1, <1>4, ExchangeOnUser
<1>5. /\ r.base \in Accounts /\ r.quote \in Accounts /\ r.fee \in Int
      /\ r.base_amount \in Int /\ r.quote_amount \in Int /\ -r.fee \in Int
  BY <1>2, TradeTypes
<1>6. ASSUME NEW A \in SUBSET UserAccounts
      PROVE  Total(o, LegsOn(o, A)) = (IF r.base \in A THEN r.base_amount ELSE 0)
                                        + (IF r.quote \in A THEN r.quote_amount - r.fee ELSE 0)
  <2>1. On(A) \subseteq On(UserAccounts)
    BY DEF On
  <2>2. Total(o, LegsOn(o, A)) =
               Share(Leg(r.base, r.base_amount), On(A)) + Share(Leg(r.quote, r.quote_amount), On(A))
                 + Share(Leg(r.quote, -r.fee), On(A))
    BY <1>4, <2>1, LegsAreParts
  <2> QED
    BY <1>5, <2>2, ShareOn
<1>7. ASSUME ops[o].type = "buy", NEW A \in SUBSET UserAccounts
      PROVE  /\ Total(o, Positive(o, LegsOn(o, A))) = IF r.base \in A THEN r.base_amount ELSE 0
             /\ Total(o, Negative(o, LegsOn(o, A)))
                  = IF r.quote \in A THEN r.quote_amount - r.fee ELSE 0
  <2> DEFINE P == {x \in On(A) : x.amount > 0}
             N == {x \in On(A) : x.amount < 0}
  <2>1. P \subseteq On(UserAccounts) /\ N \subseteq On(UserAccounts)
    BY DEF On
  <2>2. Total(o, Positive(o, LegsOn(o, A))) = Part(ops[o].txs, P)
        /\ Total(o, Negative(o, LegsOn(o, A))) = Part(ops[o].txs, N)
    BY LegsAreParts
  <2>3. ASSUME NEW a \in Accounts, NEW n \in Int
        PROVE  /\ Share(Leg(a, n), P) = IF a \in A /\ n > 0 THEN n ELSE 0
               /\ Share(Leg(a, n), N) = IF a \in A /\ n < 0 THEN n ELSE 0
    BY DEF Share, Leg, Tx, On
  <2>4. r.fee >= 0 /\ (-r.fee < 0 \/ -r.fee = 0) /\ r.base_amount > 0 /\ r.quote_amount < 0
    BY <1>1, <1>3, <1>5, <1>7
  <2> HIDE DEF P, N
  <2>5. /\ Share(Leg(r.base, r.base_amount), P) = IF r.base \in A THEN r.base_amount ELSE 0
        /\ Share(Leg(r.quote, r.quote_amount), P) = 0
        /\ Share(Leg(r.quote, -r.fee), P) = 0
        /\ Share(Leg(r.base, r.base_amount), N) = 0
        /\ Share(Leg(r.quote, r.quote_amount), N) = IF r.quote \in A THEN r.quote_amount ELSE 0
        /\ Share(Leg(r.quote, -r.fee), N) = IF r.quote \in A THEN -r.fee ELSE 0
    BY <1>5, <2>3, <2>4
  <2> QED
    BY <1>4, <1>5, <2>1, <2>2, <2>5
<1>8. /\ AssetOf[r.base] \in CryptoAssets /\ AssetOf[r.quote] \notin CryptoAssets
  BY ListedExchange
<1>9. /\ asset \in AssetsOver(o, Crypto(o)) <=> r.base \in mine
      /\ asset \in AssetsOver(o, Fiat(o)) <=> r.quote \in mine
  <2> DEFINE C == {a \in OwnCrypto : AssetOf[a] = asset}
             D == {a \in OwnFiat : AssetOf[a] = asset}
  <2>1. C \in SUBSET UserAccounts /\ D \in SUBSET UserAccounts
    BY DEF OwnCrypto, OwnFiat, OwnAccounts
  <2>2. asset \in AssetsOver(o, Crypto(o)) <=> r.base \in C \/ r.quote \in C
    <3>1. asset \in AssetsOver(o, Crypto(o)) <=> \E i \in DOMAIN ops[o].txs : ops[o].txs[i].account \in C
      BY AssetIsTouched, PickedLegs
    <3> HIDE DEF C
    <3> QED
      BY <1>1, <2>1, <3>1, ExchangeTouches
  <2>3. asset \in AssetsOver(o, Fiat(o)) <=> r.base \in D \/ r.quote \in D
    <3>1. asset \in AssetsOver(o, Fiat(o)) <=> \E i \in DOMAIN ops[o].txs : ops[o].txs[i].account \in D
      BY AssetIsTouched, PickedLegs
    <3> HIDE DEF D
    <3> QED
      BY <1>1, <2>1, <3>1, ExchangeTouches
  <2>4. /\ r.base \in C <=> r.base \in mine
        /\ r.quote \notin C /\ r.base \notin D
        /\ r.quote \in D <=> r.quote \in mine
    BY <1>8 DEF OwnCrypto, OwnFiat, OwnAccounts
  <2> QED
    BY <2>2, <2>3, <2>4
<1>10. /\ mine \in SUBSET UserAccounts /\ OwnAccounts \in SUBSET UserAccounts
       /\ OwnCrypto \in SUBSET UserAccounts /\ OwnFiat \in SUBSET UserAccounts
       /\ r.base \in mine => /\ r.base \in OwnAccounts /\ r.base \in OwnCrypto
       /\ r.quote \in mine => /\ r.quote \in OwnAccounts /\ r.quote \in OwnFiat
       /\ r.quote \notin OwnCrypto /\ r.base \notin OwnFiat
  BY <1>8 DEF OwnCrypto, OwnFiat, OwnAccounts
<1> HIDE DEF mine
<1>11. Total(o, LegsOn(o, mine)) = (IF r.base \in mine THEN r.base_amount ELSE 0)
                                     + (IF r.quote \in mine THEN r.quote_amount - r.fee ELSE 0)
  BY <1>6, <1>10
<1>12. CASE ops[o].type = "buy"
  <2>1. CameIn(o, asset) = IF r.base \in mine THEN r.base_amount ELSE 0
    <3>1. CameIn(o, asset) = IF r.base \in mine THEN Total(o, Positive(o, Own(o))) ELSE 0
      BY <1>9, <1>12 DEF CameIn, DebitAssets, DebitLegs
    <3> QED
      BY <1>7, <1>10, <1>12, <3>1, PickedLegs
  <2>2. WentOut(o, asset) = IF r.quote \in mine THEN -(r.quote_amount - r.fee) ELSE 0
    <3>1. WentOut(o, asset) = IF r.quote \in mine THEN Magnitude(Total(o, Negative(o, Own(o)))) ELSE 0
      BY <1>9, <1>12 DEF WentOut, CreditAssets, CreditLegs
    <3>2. r.quote \in mine => Total(o, Negative(o, Own(o))) = r.quote_amount - r.fee
      BY <1>7, <1>10, <1>12, PickedLegs
    <3> QED
      BY <1>1, <1>3, <1>5, <1>12, <3>1, <3>2 DEF Magnitude
  <2> QED
    BY <1>5, <1>11, <2>1, <2>2 DEF mine
<1>13. CASE ops[o].type = "sell"
  <2>1. CameIn(o, asset) = IF r.quote \in mine THEN r.quote_amount - r.fee ELSE 0
    <3>1. CameIn(o, asset) = IF r.quote \in mine THEN Total(o, Fiat(o)) ELSE 0
      BY <1>9, <1>13 DEF CameIn, DebitAssets, DebitLegs
    <3>2. r.quote \in mine => Total(o, Fiat(o)) = r.quote_amount - r.fee
      BY <1>5, <1>6, <1>10, PickedLegs
    <3> QED
      BY <3>1, <3>2
  <2>2. WentOut(o, asset) = IF r.base \in mine THEN -r.base_amount ELSE 0
    <3>1. WentOut(o, asset) = IF r.base \in mine THEN Magnitude(Total(o, Crypto(o))) ELSE 0
      BY <1>9, <1>13 DEF WentOut, CreditAssets, CreditLegs
    <3>2. r.base \in mine => Total(o, Crypto(o)) = r.base_amount
      BY <1>5, <1>6, <1>10, PickedLegs
    <3> QED
      BY <1>3, <1>5, <1>13, <3>1, <3>2 DEF Magnitude
  <2> QED
    BY <1>5, <1>11, <2>1, <2>2 DEF mine
<1> QED
  BY <1>12, <1>13

Counted == {o \in Listed : ops[o].status \in Held \union {"new"}}

(* The items that stand are the user's operations that is_valid counts,    *)
(* but for the refunds.                                                    *)
LEMMA StandingIsCounted ==
  ASSUME TypeOK, LInv
  PROVE  Standing = {o \in Counted : /\ ops[o].type # "refund"
                                     /\ LegsOn(o, UserAccounts) # {}}
<1> SUFFICES ASSUME NEW o \in Listed
             PROVE  o \in Standing <=> /\ o \in Counted /\ ops[o].type # "refund"
                                       /\ LegsOn(o, UserAccounts) # {}
  BY DEF Standing, ForUser, Counted
<1>1. /\ o \in Ops
      /\ ops[o].status \in {"new", "hold", "committed", "cancelled", "deleted"}
      /\ ops[o].type \in {"deposit", "withdrawal", "buy", "sell", "refund"}
  BY DEF Listed, TypeOK, Row, Statuses, Types, LInv, LegsOfRequests, HasLegs
<1>2. ops[o].type \in Serializable <=> ops[o].type # "refund"
  BY <1>1 DEF Serializable
<1>3. ASSUME ops[o].type \in Serializable
      PROVE  ShownStatuses(o) \intersect {"cancelled", "expired", "failed"} = {}
               <=> ops[o].status \in {"new", "hold", "committed"}
  <2>1. CASE ops[o].type = "deposit"
    <3>1. \/ ops[o].status = "new" /\ ShownStatuses(o) = {"waiting_payment"}
          \/ ops[o].status = "hold" /\ ShownStatuses(o) \subseteq {"waiting_payment", "processing"}
          \/ ops[o].status = "committed" /\ ShownStatuses(o) = {"completed"}
          \/ ops[o].status = "cancelled" /\ ShownStatuses(o) = {"cancelled"}
          \/ ops[o].status = "deleted" /\ ShownStatuses(o) = {"expired"}
      <4>1. CASE ops[o].status = "new"
        BY <2>1, <4>1 DEF ShownStatuses
      <4>2. CASE ops[o].status = "hold"
        BY <2>1, <4>2 DEF ShownStatuses
      <4>3. CASE ops[o].status = "committed"
        BY <2>1, <4>3 DEF ShownStatuses
      <4>4. CASE ops[o].status = "cancelled"
        BY <2>1, <4>4 DEF ShownStatuses
      <4>5. CASE ops[o].status = "deleted"
        BY <2>1, <4>5 DEF ShownStatuses
      <4> QED
        BY <1>1, <4>1, <4>2, <4>3, <4>4, <4>5
    <3> QED
      BY <3>1
  <2>2. CASE ops[o].type = "withdrawal"
    BY <1>1, <2>2 DEF ShownStatuses
  <2>3. CASE ops[o].type \in {"buy", "sell"}
    <3>1. \/ ops[o].status \in {"new", "hold"} /\ ShownStatuses(o) = {"processing"}
          \/ ops[o].status = "committed" /\ ShownStatuses(o) = {"completed"}
          \/ ops[o].status \in {"cancelled", "deleted"} /\ ShownStatuses(o) = {"failed"}
      <4>1. CASE ops[o].status = "new"
        BY <2>3, <4>1 DEF ShownStatuses
      <4>2. CASE ops[o].status = "hold"
        BY <2>3, <4>2 DEF ShownStatuses
      <4>3. CASE ops[o].status = "committed"
        BY <2>3, <4>3 DEF ShownStatuses
      <4>4. CASE ops[o].status = "cancelled"
        BY <2>3, <4>4 DEF ShownStatuses
      <4>5. CASE ops[o].status = "deleted"
        BY <2>3, <4>5 DEF ShownStatuses
      <4> QED
        BY <1>1, <4>1, <4>2, <4>3, <4>4, <4>5
    <3> QED
      BY <3>1
  <2> QED
    BY <1>3, <2>1, <2>2, <2>3 DEF Serializable
<1> QED
  BY <1>2, <1>3 DEF Standing, ForUser, Counted

LEMMA StatesItsMoney ==
  ASSUME TypeOK, LInv, ListedRequests, NEW o \in Standing, NEW asset \in AllowedAssets
  PROVE  CameIn(o, asset) - WentOut(o, asset)
           = Total(o, LegsOn(o, {a \in UserAccounts : AssetOf[a] = asset}))
<1>1. o \in Ops /\ ops[o].type \in {"deposit", "withdrawal", "buy", "sell"}
  BY DEF Standing, ForUser, Listed, Serializable
<1> QED
  BY <1>1, DepositStatesItsMoney, WithdrawalStatesItsMoney, ExchangeStatesItsMoney

LEMMA LegsGiveStatements ==
  ASSUME TypeOK, LInv, ListedRequests, IsFiniteSet(Ops), IsFiniteSet(Accounts)
  PROVE  StatementsAddUp
<1> SUFFICES ASSUME NEW asset \in AllowedAssets
    PROVE LET mine == {a \in UserAccounts : AssetOf[a] = asset}
              counted == {o \in Listed : ops[o].status \in Held \union {"new"}}
              refunds == {o \in counted : ops[o].type = "refund"}
              Sum(rows) == SumFunctionOnSet([a \in mine |-> Balance(rows, a)], mine)
          IN  SumFunctionOnSet([o \in Standing |-> CameIn(o, asset) - WentOut(o, asset)], Standing)
                + Sum(refunds) = Sum(counted)
  BY DEF StatementsAddUp
<1> DEFINE mine == {a \in UserAccounts : AssetOf[a] = asset}
           refunds == {o \in Counted : ops[o].type = "refund"}
           rest == Counted \ refunds
           stated == [o \in Standing |-> CameIn(o, asset) - WentOut(o, asset)]
           t == [o \in Ops |-> Total(o, LegsOn(o, mine))]
           Sum(rows) == SumFunctionOnSet([a \in mine |-> Balance(rows, a)], mine)
<1>1. /\ Counted \subseteq Ops /\ refunds \subseteq Counted
      /\ rest \union refunds = Counted /\ rest \intersect refunds = {}
      /\ mine \subseteq Accounts
  BY OwnersAssumption DEF Counted, Listed
<1>2. IsFiniteSet(mine) /\ IsFiniteSet(Counted) /\ IsFiniteSet(refunds) /\ IsFiniteSet(rest)
  <2>1. rest \subseteq Ops /\ refunds \subseteq Ops
    BY <1>1
  <2> QED
    BY <1>1, <2>1, FS_Subset
<1>3. \A o \in Ops : t[o] \in Int
  <2> SUFFICES ASSUME NEW o \in Ops PROVE Part(ops[o].txs, On(mine)) \in Int
    BY LegsAreParts
  <2>1. ops[o].txs \in Seq(Tx)
    BY DEF TypeOK, Row
  <2> QED
    BY <2>1, PartType
<1>4. Standing \subseteq rest
  BY StandingIsCounted
<1>5. \A o \in Standing : stated[o] \in Int /\ t[o] = stated[o]
  <2>1. \A o \in Standing : o \in Ops /\ stated[o] = t[o]
    BY <1>1, <1>4, StatesItsMoney
  <2> QED
    BY <1>3, <2>1
<1>6. \A o \in rest \ Standing : t[o] = 0
  <2> SUFFICES ASSUME NEW o \in rest \ Standing PROVE Total(o, LegsOn(o, mine)) = 0
    BY <1>1
  <2>1. LegsOn(o, UserAccounts) = {}
    BY StandingIsCounted
  <2>2. LegsOn(o, mine) = {}
    BY <2>1 DEF LegsOn
  <2> QED
    BY <2>2, SumOfNothing DEF Total, AmountOver
<1>7. Sum(Counted) = SumFunctionOnSet(t, Counted) /\ Sum(refunds) = SumFunctionOnSet(t, refunds)
  <2>1. refunds \subseteq Ops
    BY <1>1
  <2> HIDE DEF mine, refunds
  <2> QED
    BY <1>1, <1>2, <2>1, BalancesOverAccounts
<1> HIDE DEF t, stated, rest, refunds
<1>8. SumFunctionOnSet(t, rest \union refunds)
        = SumFunctionOnSet(t, rest) + SumFunctionOnSet(t, refunds)
  <2>1. \A o \in rest \union refunds : t[o] \in Int
    BY <1>1, <1>3
  <2> QED
    BY <1>1, <1>2, <2>1, SumOfUnion
<1>9. SumFunctionOnSet(t, rest) = SumFunctionOnSet(stated, Standing)
  BY <1>2, <1>4, <1>5, <1>6, SumOfPart
<1>10. SumFunctionOnSet(stated, Standing) + SumFunctionOnSet(t, refunds)
         = SumFunctionOnSet(t, Counted)
  BY <1>1, <1>8, <1>9
<1>11. SumFunctionOnSet(stated, Standing) + Sum(refunds) = Sum(Counted)
  BY <1>7, <1>10
<1> QED
  BY <1>11 DEF Counted, stated, refunds

(* What a user is told adds up to what the ledger lets the user spend.     *)
THEOREM UserStatementsAddUp ==
  ASSUME ListedRequests, IsFiniteSet(Ops), IsFiniteSet(Accounts)
  PROVE  Spec => []StatementsAddUp
<1>1. IInv /\ LInv => StatementsAddUp
  BY LegsGiveStatements DEF IInv
<1> QED
  BY <1>1, LegsOfOperations, PTL

-----------------------------------------------------------------------------
(* The office's books.  Withdrawals are paid to a bank account when their  *)
(* asset is fiat, in one asset, and nothing else is on a bank account.     *)

PaidRequests ==
  /\ \A r \in Withdrawals :
       /\ r.user \notin FeeAccounts \union BankAccounts /\ r.payment \notin FeeAccounts
       /\ r.payment \in BankAccounts <=> AssetOf[r.payment] \notin CryptoAssets
       /\ AssetOf[r.user] = AssetOf[r.payment]
       /\ r.fee >= 0 /\ r.rounding >= 0
       /\ r.fee = 0 \/ /\ r.fee_account \in FeeAccounts
                       /\ AssetOf[r.fee_account] = AssetOf[r.payment]
       /\ r.rounding = 0 \/ /\ r.rounding_account \notin FeeAccounts \union BankAccounts
                            /\ AssetOf[r.rounding_account] = AssetOf[r.payment]
  /\ \A r \in Deposits \union Payments :
       /\ r.payment \notin BankAccounts /\ r.user \notin BankAccounts
       /\ r.fee = 0 \/ r.fee_account \notin BankAccounts
       /\ r.rounding = 0 \/ r.rounding_account \notin BankAccounts
  /\ \A r \in Exchanges :
       /\ {r.base, r.base_exchange, r.quote, r.quote_exchange, r.fee_account}
            \intersect BankAccounts = {}
       /\ r.base_rounding = 0 \/ r.base_rounding_account \notin BankAccounts
       /\ r.quote_rounding = 0 \/ r.quote_rounding_account \notin BankAccounts

(* Only withdrawals have legs on bank accounts.                            *)
LEMMA OthersAvoidBanks ==
  ASSUME LInv, PaidRequests, NEW o \in Ops, ops[o].type \notin {"withdrawal", "none"},
         ops[o].type \in Types
  PROVE  Total(o, LegsOn(o, BankAccounts)) = 0
<1>1. ASSUME NEW d \in Ops, ops[d].type = "deposit", NEW i \in DOMAIN ops[d].txs
      PROVE  ops[d].txs[i].account \notin BankAccounts
  <2>1. PICK r \in Deposits \union Payments : ops[d].txs = DepositTxs(r)
    BY <1>1 DEF LInv, LegsOfRequests, HasLegs
  <2>2. r \in Transfers /\ r.payment \in Accounts /\ r.user \in Accounts
    BY RequestsAssumption DEF Transfers
  <2>3. ops[d].txs = TransferTxs(r, r.payment, r.user)
    BY <2>1, TransfersAreDepositsAndWithdrawals
  <2> DEFINE a == ops[d].txs[i].account
  <2>4. \/ a \in {r.payment, r.user}
        \/ r.fee # 0 /\ a \in {r.user, r.fee_account}
        \/ r.rounding # 0 /\ a \in {r.rounding_account, r.payment}
    BY <1>1, <2>2, <2>3, LegsOfTransfer
  <2> QED
    BY <2>4 DEF PaidRequests
<1>2. ASSUME NEW i \in DOMAIN ops[o].txs PROVE ops[o].txs[i].account \notin BankAccounts
  <2>1. CASE ops[o].type = "deposit"
    BY <1>1, <2>1
  <2>2. CASE ops[o].type \in {"buy", "sell"}
    <3>1. PICK r \in Exchanges : ops[o].txs = ExchangeTxs(r)
      BY <2>2 DEF LInv, LegsOfRequests, HasLegs
    <3>2. r \in Trades
      BY RequestsAssumption
    <3> DEFINE a == ops[o].txs[i].account
    <3>3. \/ a \in {r.base, r.base_exchange, r.quote, r.quote_exchange, r.fee_account}
          \/ r.base_rounding # 0 /\ a \in {r.base_rounding_account, r.base_exchange}
          \/ r.quote_rounding # 0 /\ a \in {r.quote_rounding_account, r.quote_exchange}
      BY <3>1, <3>2, LegsOfExchange
    <3> QED
      BY <3>3 DEF PaidRequests
  <2>3. CASE ops[o].type = "refund"
    <3>1. /\ ops[o].deposit \in Ops /\ ops[ops[o].deposit].type = "deposit"
          /\ IsRefundLeg(ops[o].txs[i], ops[ops[o].deposit].txs)
      BY <2>3 DEF LInv, LegsOfRequests, HasLegs, IsDeposit
    <3>2. \E j \in DOMAIN ops[ops[o].deposit].txs :
            ops[o].txs[i].account = ops[ops[o].deposit].txs[j].account
      BY <3>1 DEF IsRefundLeg, Lowest, Highest
    <3> QED
      BY <1>1, <3>1, <3>2
  <2> QED
    BY <2>1, <2>2, <2>3 DEF Types
<1>3. LegsOn(o, BankAccounts) = {}
  BY <1>2 DEF LegsOn
<1> QED
  BY <1>3, SumOfNothing DEF Total, AmountOver

(* A withdrawal on the office's page pays what its legs put on the bank    *)
(* account, and one that is not on the page pays no bank account.          *)
LEMMA WithdrawalsPayBanks ==
  ASSUME TypeOK, LInv, PaidRequests, NEW o \in Listed, ops[o].type = "withdrawal"
  PROVE  /\ o \in WithdrawalPage => TotalAmount(o) = Total(o, LegsOn(o, BankAccounts))
         /\ o \notin WithdrawalPage => Total(o, LegsOn(o, BankAccounts)) = 0
<1> DEFINE txs == ops[o].txs
           N == {x \in Tx : x.amount < 0}
<1>0. o \in Ops
  BY DEF Listed
<1>1. PICK r \in Withdrawals : r.amount > 0 /\ txs = WithdrawalTxs(r)
  BY <1>0 DEF LInv, LegsOfRequests, HasLegs
<1>2. r \in Transfers /\ txs = TransferTxs(r, r.user, r.payment)
  BY <1>1, RequestsAssumption, TransfersAreDepositsAndWithdrawals
<1>3. /\ r.payment \in Accounts /\ r.user \in Accounts /\ r.fee_account \in Accounts
      /\ r.rounding_account \in Accounts
      /\ r.amount \in Int /\ r.fee \in Int /\ r.rounding \in Int
      /\ -r.amount \in Int /\ -r.fee \in Int /\ -r.rounding \in Int
      /\ r.fee = 0 => -r.fee = 0
      /\ r.rounding = 0 => -r.rounding = 0
  BY <1>2, MinusZero DEF Transfers
<1>4. /\ r.user \notin FeeAccounts \union BankAccounts /\ r.payment \notin FeeAccounts
      /\ r.payment \in BankAccounts <=> AssetOf[r.payment] \notin CryptoAssets
      /\ AssetOf[r.user] = AssetOf[r.payment]
      /\ r.fee >= 0 /\ r.rounding >= 0
      /\ r.fee = 0 \/ /\ r.fee_account \in FeeAccounts
                      /\ AssetOf[r.fee_account] = AssetOf[r.payment]
      /\ r.rounding = 0 \/ /\ r.rounding_account \notin FeeAccounts \union BankAccounts
                           /\ AssetOf[r.rounding_account] = AssetOf[r.payment]
  BY DEF PaidRequests
<1>5. o \in WithdrawalPage <=> r.payment \in BankAccounts
  <2>1. \A i \in DOMAIN txs : AssetOf[txs[i].account] = AssetOf[r.payment]
    <3> SUFFICES ASSUME NEW i \in DOMAIN txs PROVE AssetOf[txs[i].account] = AssetOf[r.payment]
      OBVIOUS
    <3> DEFINE a == txs[i].account
    <3>1. \/ a \in {r.user, r.payment}
          \/ r.fee # 0 /\ a \in {r.user, r.fee_account}
          \/ r.rounding # 0 /\ a \in {r.rounding_account, r.payment}
      BY <1>2, <1>3, LegsOfTransfer
    <3> HIDE DEF a
    <3>2. AssetOf[a] = AssetOf[r.payment]
      BY <1>4, <3>1
    <3> QED
      BY <3>2 DEF a
  <2>2. \E i \in DOMAIN txs : txs[i].account = r.payment
    BY <1>2, <1>3, LegsOfTransfer
  <2>3. AssetsOver(o, DOMAIN txs) = {AssetOf[r.payment]}
    BY <2>1, <2>2 DEF AssetsOver
  <2> QED
    BY <1>4, <2>3 DEF WithdrawalPage, WireTransfers
<1> DEFINE Sum(F) == Share(Leg(r.user, -r.amount), F) + Share(Leg(r.payment, r.amount), F)
                + (Share(Leg(r.user, -r.fee), F) + Share(Leg(r.fee_account, r.fee), F))
                + (Share(Leg(r.rounding_account, -r.rounding), F)
                     + Share(Leg(r.payment, r.rounding), F))
<1>6. ASSUME NEW F PROVE Part(txs, F) = Sum(F)
  BY <1>2, <1>3, PartOfTransfer
<1>7. Part(txs, On(BankAccounts))
        = IF r.payment \in BankAccounts THEN r.amount + r.rounding ELSE 0
  <2>1. /\ Share(Leg(r.user, -r.amount), On(BankAccounts)) = 0
        /\ Share(Leg(r.payment, r.amount), On(BankAccounts))
             = IF r.payment \in BankAccounts THEN r.amount ELSE 0
        /\ Share(Leg(r.user, -r.fee), On(BankAccounts)) = 0
        /\ Share(Leg(r.fee_account, r.fee), On(BankAccounts)) = 0
        /\ Share(Leg(r.rounding_account, -r.rounding), On(BankAccounts)) = 0
        /\ Share(Leg(r.payment, r.rounding), On(BankAccounts))
             = IF r.payment \in BankAccounts THEN r.rounding ELSE 0
    BY <1>3, <1>4, ShareOn, OwnersAssumption
  <2> QED
    BY <1>3, <1>6, <2>1
<1>8. Part(txs, On(FeeAccounts)) = r.fee
  <2>1. /\ Share(Leg(r.user, -r.amount), On(FeeAccounts)) = 0
        /\ Share(Leg(r.payment, r.amount), On(FeeAccounts)) = 0
        /\ Share(Leg(r.user, -r.fee), On(FeeAccounts)) = 0
        /\ Share(Leg(r.fee_account, r.fee), On(FeeAccounts)) = r.fee
        /\ Share(Leg(r.rounding_account, -r.rounding), On(FeeAccounts)) = 0
        /\ Share(Leg(r.payment, r.rounding), On(FeeAccounts)) = 0
    BY <1>3, <1>4, ShareOn
  <2> QED
    BY <1>3, <1>6, <2>1
<1>9. Part(txs, N) = -(r.amount + r.fee + r.rounding)
  <2>1. ASSUME NEW a \in Accounts, NEW n \in Int
        PROVE  Share(Leg(a, n), N) = IF n < 0 THEN n ELSE 0
    BY DEF Share, Leg, Tx
  <2>2. /\ -r.amount < 0 /\ (-r.fee < 0 \/ -r.fee = 0) /\ (-r.rounding < 0 \/ -r.rounding = 0)
    BY <1>1, <1>3, <1>4
  <2> HIDE DEF N
  <2>3. /\ Share(Leg(r.user, -r.amount), N) = -r.amount
        /\ Share(Leg(r.payment, r.amount), N) = 0
        /\ Share(Leg(r.user, -r.fee), N) = -r.fee
        /\ Share(Leg(r.fee_account, r.fee), N) = 0
        /\ Share(Leg(r.rounding_account, -r.rounding), N) = -r.rounding
        /\ Share(Leg(r.payment, r.rounding), N) = 0
    BY <1>1, <1>3, <1>4, <2>1, <2>2
  <2> QED
    BY <1>3, <1>6, <2>3
<1>10. /\ Total(o, LegsOn(o, BankAccounts)) = Part(txs, On(BankAccounts))
       /\ Total(o, LegsOn(o, FeeAccounts)) = Part(txs, On(FeeAccounts))
  BY <1>0, LegsAreParts
<1>11. Total(o, Negative(o, DOMAIN txs)) = Part(txs, N)
  <2>1. txs \in Seq(Tx)
    BY <1>0 DEF TypeOK, Row
  <2>2. AmountOver(txs, {i \in DOMAIN txs : txs[i].amount < 0}) = Part(txs, {x \in Tx : x.amount < 0})
    BY <2>1, SumsAreParts
  <2> QED
    BY <2>2 DEF Total, Negative
<1>12. Fee(o) = r.fee
  BY <1>3, <1>4, <1>8, <1>10 DEF Fee, Managed, Magnitude
<1>13. Amount(o) = r.amount + r.fee + r.rounding
  BY <1>1, <1>3, <1>4, <1>9, <1>11 DEF Amount, Magnitude
<1>14. TotalAmount(o) = r.amount + r.rounding
  BY <1>3, <1>12, <1>13 DEF TotalAmount
<1> QED
  BY <1>5, <1>7, <1>10, <1>14

LEMMA LegsGivePayouts ==
  ASSUME TypeOK, LInv, PaidRequests, IsFiniteSet(Ops), IsFiniteSet(Accounts)
  PROVE  PayoutsReconcile
<1> DEFINE paid == {o \in WithdrawalPage : OfficeRow(o).status = "committed"}
           settled == {o \in Listed : ops[o].status = "committed"}
           total == [o \in paid |-> OfficeRow(o).total_amount]
           t == [o \in Ops |-> Total(o, LegsOn(o, BankAccounts))]
<1>1. /\ paid \subseteq settled /\ settled \subseteq Ops /\ BankAccounts \subseteq Accounts
      /\ paid = {o \in settled : o \in WithdrawalPage}
  BY OwnersAssumption DEF WithdrawalPage, WireTransfers, Listed, OfficeRow
<1>2. IsFiniteSet(settled) /\ IsFiniteSet(BankAccounts)
  BY <1>1, FS_Subset
<1>3. \A o \in Ops : t[o] \in Int
  <2> SUFFICES ASSUME NEW o \in Ops PROVE Part(ops[o].txs, On(BankAccounts)) \in Int
    BY LegsAreParts
  <2>1. ops[o].txs \in Seq(Tx)
    BY DEF TypeOK, Row
  <2> QED
    BY <2>1, PartType
<1>4. \A o \in paid : total[o] \in Int /\ t[o] = total[o]
  <2> SUFFICES ASSUME NEW o \in paid PROVE total[o] = t[o] /\ o \in Ops
    BY <1>3
  <2>1. o \in Listed /\ ops[o].type = "withdrawal" /\ o \in WithdrawalPage /\ o \in Ops
    BY DEF WithdrawalPage, WireTransfers, Listed
  <2> QED
    BY <2>1, WithdrawalsPayBanks DEF OfficeRow
<1>5. \A o \in settled \ paid : t[o] = 0
  <2> SUFFICES ASSUME NEW o \in settled \ paid PROVE Total(o, LegsOn(o, BankAccounts)) = 0
    BY <1>1
  <2>1. o \in Listed /\ o \notin WithdrawalPage /\ o \in Ops
    BY <1>1
  <2>2. ops[o].type # "none" /\ ops[o].type \in Types
    BY <2>1 DEF LInv, LegsOfRequests, HasLegs, Listed, TypeOK, Row
  <2> QED
    BY <2>1, <2>2, WithdrawalsPayBanks, OthersAvoidBanks
<1>6. SumFunctionOnSet([a \in BankAccounts |-> Balance(settled, a)], BankAccounts)
        = SumFunctionOnSet(t, settled)
  <2> HIDE DEF settled
  <2> QED
    BY <1>1, <1>2, BalancesOverAccounts
<1> HIDE DEF paid, settled, total, t
<1>7. SumFunctionOnSet(t, settled) = SumFunctionOnSet(total, paid)
  BY <1>1, <1>2, <1>4, <1>5, SumOfPart
<1> QED
  BY <1>6, <1>7 DEF PayoutsReconcile, paid, settled, total

(* The office's page agrees with the ledger on what has been paid out.     *)
THEOREM PayoutsAreReconciled ==
  ASSUME PaidRequests, IsFiniteSet(Ops), IsFiniteSet(Accounts)
  PROVE  Spec => []PayoutsReconcile
<1>1. IInv /\ LInv => PayoutsReconcile
  BY LegsGivePayouts DEF IInv
<1> QED
  BY <1>1, LegsOfOperations, PTL
=============================================================================
