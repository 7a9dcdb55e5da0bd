----------------------------- MODULE Investment -----------------------------
(***************************************************************************)
(* Applications to invest in one offering.  The API creates a draft and    *)
(* queues a Celery task that prepares a DocuSign envelope; once the user    *)
(* has signed, a second task checks the envelope and submits the           *)
(* application; an admin then records its payment, and may refund it.      *)
(*                                                                         *)
(* A step is one statement or one transaction on the database, one message *)
(* to the task queue, or one call to DocuSign.  Tasks are acknowledged     *)
(* when a worker takes them: one that dies is not run again.               *)
(***************************************************************************)
EXTENDS Integers, FiniteSets

CONSTANTS
  Apps,      \* identifiers applications may get
  Users,
  Deposits,  \* identifiers their deposit operations may get: bounds payments
  Amounts,   \* of money, in the one currency
  AmountOf,  \* what each deposit is of, if it is ever made
  None,
  Web,       \* sessions of the API process
  Workers,   \* Celery workers
  Admins,    \* sessions of the admin process
  MaxQueued, \* bound: finish tasks that wait for one application
  CanCrash   \* whether sessions may die between two steps

Sessions == Web \union Workers \union Admins

ASSUME NoneNotAnId == None \notin Apps \union Users \union Deposits
ASSUME AmountsAssumption ==
  Amounts \subseteq Nat \ {0} /\ AmountOf \in [Deposits -> Amounts]
ASSUME MaxQueuedIsNat == MaxQueued \in Nat
ASSUME AdminsAreFinite == IsFiniteSet(Admins)
ASSUME RolesAreApart ==
  Web \intersect Workers = {} /\ Web \intersect Admins = {} /\ Workers \intersect Admins = {}

VARIABLES
  apps,      \* the InvestmentApplication table
  envelope,  \* DocuSign's own state of the envelope of an application
  deposits,  \* the deposit operations committed in the ledger
  refunds,   \* how many refunds of a deposit are on hold or committed
  queue,     \* how often each task waits to be run
  ses        \* what each session is doing

vars == <<apps, envelope, deposits, refunds, queue, ses>>

Statuses == {"absent", "draft", "pending", "hold", "canceled", "deleted"}
AgreementStatuses == {"initial", "preparing", "prepared", "validating", "success", "error"}
EnvelopeStatuses == {"none", "sent", "completed", "declined"}
Tasks == {"start", "finish"} \X Apps

App == [user : Users \union {None}, status : Statuses, agreement : AgreementStatuses,
        deposit : Deposits \union {None}, amount : Amounts \union {0}]
NoApp == [user |-> None, status |-> "absent", agreement |-> "initial", deposit |-> None,
          amount |-> 0]

PCs == {"idle", "insert", "enqueue",
        "start_save", "start_call", "prepare", "start_error",
        "validating_save", "get_envelope", "finish_save", "notify", "finish_error",
        "pay_read", "pay", "edit", "refund", "cancel_apps", "delete"}

(* A session remembers the user, application or deposit it works for, the  *)
(* row it has read and the envelope status it was told.                    *)
Session == [pc : PCs, user : Users \union {None}, app : Apps \union {None},
            deposit : Deposits \union {None}, row : App, seen : EnvelopeStatuses]
Idle == [pc |-> "idle", user |-> None, app |-> None, deposit |-> None,
         row |-> NoApp, seen |-> "none"]

Init ==
  /\ apps = [a \in Apps |-> NoApp]
  /\ envelope = [a \in Apps |-> "none"]
  /\ deposits = {}
  /\ refunds = [d \in Deposits |-> 0]
  /\ queue = [t \in Tasks |-> 0]
  /\ ses = [s \in Sessions |-> Idle]

At(s, pc) == ses[s].pc = pc
GoTo(s, pc) == ses' = [ses EXCEPT ![s].pc = pc]
Finish(s) == ses' = [ses EXCEPT ![s] = Idle]

Exists(a) == apps[a].status \notin {"absent", "deleted"}

(* The rows of InvestmentApplication.objects, which leaves drafts out.     *)
Submitted(a) == Exists(a) /\ apps[a].status # "draft"

-----------------------------------------------------------------------------
(* The API.                                                                *)

(* create(): conflict if the user has an application that is no draft.     *)
CheckExisting(s) ==
  \E u \in Users :
    /\ At(s, "idle")
    /\ \A a \in Apps : Submitted(a) => apps[a].user # u
    /\ ses' = [ses EXCEPT ![s] = [Idle EXCEPT !.pc = "insert", !.user = u]]
    /\ UNCHANGED <<apps, envelope, deposits, refunds, queue>>

(* perform_create() inserts the draft, in a transaction of its own.        *)
InsertDraft(s) ==
  \E a \in Apps, amount \in Amounts :
    /\ At(s, "insert")
    /\ apps[a].status = "absent"
    /\ apps' = [apps EXCEPT ![a] = [NoApp EXCEPT !.user = ses[s].user, !.status = "draft",
                                                 !.amount = amount]]
    /\ ses' = [ses EXCEPT ![s].pc = "enqueue", ![s].app = a]
    /\ UNCHANGED <<envelope, deposits, refunds, queue>>

EnqueueStart(s) ==
  /\ At(s, "enqueue")
  /\ queue' = [queue EXCEPT ![<<"start", ses[s].app>>] = @ + 1]
  /\ Finish(s)
  /\ UNCHANGED <<apps, envelope, deposits, refunds>>

FinishSigning(s) ==
  \E a \in Apps :
    /\ At(s, "idle")
    /\ apps[a].status = "draft" /\ apps[a].agreement = "prepared"
    /\ queue[<<"finish", a>>] < MaxQueued
    /\ queue' = [queue EXCEPT ![<<"finish", a>>] = @ + 1]
    /\ UNCHANGED <<apps, envelope, deposits, refunds, ses>>

-----------------------------------------------------------------------------
(* The tasks.                                                              *)

(* A worker takes a task; it is dropped unless the application is a draft  *)
(* with the agreement status the task is for.                              *)
Take(w, task, agreement, pc) ==
  \E a \in Apps :
    /\ At(w, "idle")
    /\ queue[<<task, a>>] > 0
    /\ queue' = [queue EXCEPT ![<<task, a>>] = @ - 1]
    /\ \/ /\ apps[a].status = "draft" /\ apps[a].agreement = agreement
          /\ ses' = [ses EXCEPT ![w] = [Idle EXCEPT !.pc = pc, !.app = a, !.row = apps[a]]]
       \/ /\ ~(apps[a].status = "draft" /\ apps[a].agreement = agreement)
          /\ UNCHANGED ses
    /\ UNCHANGED <<apps, envelope, deposits, refunds>>

(* Write some columns of the application, if it is still there.            *)
Write(w, row) ==
  apps' = IF Exists(ses[w].app) THEN [apps EXCEPT ![ses[w].app] = row] ELSE apps

Row(w) == apps[ses[w].app]

StartLoad(w) == Take(w, "start", "initial", "start_save")

(* save() writes every column of the row that was read.                    *)
StartSave(w) ==
  /\ At(w, "start_save")
  /\ Write(w, [ses[w].row EXCEPT !.agreement = "preparing"])
  /\ GoTo(w, "start_call")
  /\ UNCHANGED <<envelope, deposits, refunds, queue>>

(* DocuSign's own rows: an envelope is created in the status sent.         *)
NewEnvelope == "sent"
CreateEnvelope(a) == envelope' = [envelope EXCEPT ![a] = NewEnvelope]
GetEnvelopeStatus(a) == envelope[a]

(* A client authenticates when it is made, once per task: what is cached   *)
(* never counts as recent.  That, or a call, fails and nothing is created. *)
CallFails(w, error) == GoTo(w, error) /\ UNCHANGED envelope

(* The link to the envelope, which the signer is redirected to.            *)
CreateRecipientView(w) == GoTo(w, "prepare") \/ GoTo(w, "start_error")

(* Variant: an exception of DocuSign is not handled.                       *)
StartCallUncaught(w) ==
  /\ At(w, "start_call")
  /\ \/ CreateEnvelope(ses[w].app) /\ GoTo(w, "prepare")
     \/ UNCHANGED envelope /\ Finish(w)
  /\ UNCHANGED <<apps, deposits, refunds, queue>>

(* DocuSign creates the envelope and a link to it; either call may fail.   *)
StartCall(w) ==
  /\ At(w, "start_call")
  /\ \/ CreateEnvelope(ses[w].app) /\ CreateRecipientView(w)
     \/ CallFails(w, "start_error")
  /\ UNCHANGED <<apps, deposits, refunds, queue>>

Prepare(w) ==
  /\ At(w, "prepare")
  /\ Write(w, [Row(w) EXCEPT !.agreement = "prepared"])
  /\ Finish(w)
  /\ UNCHANGED <<envelope, deposits, refunds, queue>>

FinishLoad(w) == Take(w, "finish", "prepared", "validating_save")

ValidatingSave(w) ==
  /\ At(w, "validating_save")
  /\ Write(w, [Row(w) EXCEPT !.agreement = "validating"])
  /\ IF Exists(ses[w].app) THEN GoTo(w, "get_envelope") ELSE Finish(w)
  /\ UNCHANGED <<envelope, deposits, refunds, queue>>

(* Variant: an exception of DocuSign is not handled.                       *)
GetEnvelopeUncaught(w) ==
  /\ At(w, "get_envelope")
  /\ \/ ses' = [ses EXCEPT ![w].pc = "finish_save",
                          ![w].seen = GetEnvelopeStatus(ses[w].app)]
     \/ Finish(w)
  /\ UNCHANGED <<apps, envelope, deposits, refunds, queue>>

GetEnvelope(w) ==
  /\ At(w, "get_envelope")
  /\ \/ /\ ses' = [ses EXCEPT ![w].pc = "finish_save",
                             ![w].seen = GetEnvelopeStatus(ses[w].app)]
        /\ UNCHANGED envelope
     \/ CallFails(w, "finish_error")
  /\ UNCHANGED <<apps, deposits, refunds, queue>>

(* Variant: every envelope that was not declined is taken for a signed one. *)
FinishSaveUnlessDeclined(w) ==
  /\ At(w, "finish_save")
  /\ Exists(ses[w].app)
  /\ ses[w].seen # "declined"
  /\ Write(w, [Row(w) EXCEPT !.agreement = "success", !.status = "pending"])
  /\ GoTo(w, "notify")
  /\ UNCHANGED <<envelope, deposits, refunds, queue>>

(* finish_subscription_agreement(), which fails if the row is gone.        *)
FinishSave(w) ==
  /\ At(w, "finish_save")
  /\ \/ /\ ~Exists(ses[w].app)
        /\ GoTo(w, "finish_error")
        /\ UNCHANGED apps
     \/ /\ ses[w].seen = "completed"
        /\ Exists(ses[w].app)
        /\ Write(w, [Row(w) EXCEPT !.agreement = "success", !.status = "pending"])
        /\ GoTo(w, "notify")
     \/ /\ ses[w].seen # "completed"
        /\ Exists(ses[w].app)
        /\ Write(w, [Row(w) EXCEPT !.agreement = "error"])
        /\ Finish(w)
  /\ UNCHANGED <<envelope, deposits, refunds, queue>>

(* The mail to the user is queued, or queueing it fails.                   *)
Notify(w) ==
  /\ At(w, "notify")
  /\ Finish(w) \/ GoTo(w, "finish_error")
  /\ UNCHANGED <<apps, envelope, deposits, refunds, queue>>

(* Variant: the error goes to the status of the application.               *)
TaskErrorStatus(w) ==
  /\ At(w, "start_error") \/ At(w, "finish_error")
  /\ Write(w, [Row(w) EXCEPT !.status = "error"])
  /\ Finish(w)
  /\ UNCHANGED <<envelope, deposits, refunds, queue>>

TaskError(w) ==
  /\ At(w, "start_error") \/ At(w, "finish_error")
  /\ Write(w, [Row(w) EXCEPT !.agreement = "error"])
  /\ Finish(w)
  /\ UNCHANGED <<envelope, deposits, refunds, queue>>

(* The user signs or declines the envelope, at DocuSign.                   *)
EnvelopeMoves(a) ==
  /\ envelope[a] = "sent"
  /\ \E status \in {"completed", "declined"} : envelope' = [envelope EXCEPT ![a] = status]
  /\ UNCHANGED <<apps, deposits, refunds, queue, ses>>

-----------------------------------------------------------------------------
(* The admin.                                                              *)

(* Open an application of the admin's list, which has no drafts.           *)
Open(s, a, pc) ==
  /\ At(s, "idle")
  /\ Submitted(a)
  /\ ses' = [ses EXCEPT ![s] = [Idle EXCEPT !.pc = pc, !.app = a, !.row = apps[a]]]
  /\ UNCHANGED <<apps, envelope, deposits, refunds, queue>>

(* The tool add_payment looks for a deposit, then hands the request to     *)
(* changeform_view(), which reads the row again.                           *)
PayLoad(s) == \E a \in Apps : apps[a].deposit = None /\ Open(s, a, "pay_read")

PayRead(s) ==
  /\ At(s, "pay_read")
  /\ IF Submitted(ses[s].app)
       THEN ses' = [ses EXCEPT ![s].pc = "pay", ![s].row = apps[ses[s].app]]
       ELSE Finish(s)
  /\ UNCHANGED <<apps, envelope, deposits, refunds, queue>>

(* add_payment() and save_model(), in one transaction that leaves nothing  *)
(* behind when the ledger refuses the deposit or the row is gone.          *)
PaySave(s) ==
  /\ At(s, "pay")
  /\ \/ \E d \in Deposits \ deposits :
          /\ Exists(ses[s].app)
          /\ deposits' = deposits \union {d}
          /\ apps' = [apps EXCEPT ![ses[s].app] =
                        [ses[s].row EXCEPT !.deposit = d, !.status = "hold",
                                           !.amount = AmountOf[d]]]
     \/ UNCHANGED <<deposits, apps>>
  /\ Finish(s)
  /\ UNCHANGED <<envelope, refunds, queue>>

(* The deposit that was read is on hold or committed in the ledger.        *)
IsPaid(row) == row.deposit \in deposits

(* Variant: the amount of a paid application may be edited.                *)
EditSaveAnyAmount(s) ==
  /\ At(s, "edit")
  /\ \E amount \in Amounts :
       apps' = [apps EXCEPT ![ses[s].app] = [ses[s].row EXCEPT !.amount = amount]]
  /\ Finish(s)
  /\ UNCHANGED <<envelope, deposits, refunds, queue>>

(* The change form edits the amount, unless the application is paid, and   *)
(* saves every column that was read; a row deleted meanwhile is inserted   *)
(* again.                                                                  *)
EditLoad(s) == \E a \in Apps : Open(s, a, "edit")
EditSave(s) ==
  /\ At(s, "edit")
  /\ \E amount \in Amounts :
       /\ IsPaid(ses[s].row) => amount = ses[s].row.amount
       /\ apps' = [apps EXCEPT ![ses[s].app] = [ses[s].row EXCEPT !.amount = amount]]
  /\ Finish(s)
  /\ UNCHANGED <<envelope, deposits, refunds, queue>>

(* Variant: a paid application may be deleted.                             *)
DeleteLoadAny(s) == \E a \in Apps : Open(s, a, "delete")

(* has_delete_permission(), with ALLOW_INVESTMENT_APPLICATION_DELETION off. *)
DeleteLoad(s) == \E a \in Apps : apps[a].deposit = None /\ Open(s, a, "delete")
DeleteSave(s) ==
  /\ At(s, "delete")
  /\ apps' = [apps EXCEPT ![ses[s].app].status = "deleted"]
  /\ Finish(s)
  /\ UNCHANGED <<envelope, deposits, refunds, queue>>

RefundLoad(s) ==
  \E d \in deposits :
    /\ At(s, "idle")
    /\ refunds[d] = 0
    /\ ses' = [ses EXCEPT ![s] = [Idle EXCEPT !.pc = "refund", !.deposit = d]]
    /\ UNCHANGED <<apps, envelope, deposits, refunds, queue>>

(* Variant: the applications are canceled although the ledger refused.     *)
RefundSaveSwallowed(s) ==
  /\ At(s, "refund")
  /\ refunds' = [refunds EXCEPT ![ses[s].deposit] = @ + 1] \/ UNCHANGED refunds
  /\ GoTo(s, "cancel_apps")
  /\ UNCHANGED <<apps, envelope, deposits, queue>>

(* create_refund() and commit() in the ledger, which may refuse.           *)
RefundSave(s) ==
  /\ At(s, "refund")
  /\ \/ /\ refunds' = [refunds EXCEPT ![ses[s].deposit] = @ + 1]
        /\ GoTo(s, "cancel_apps")
     \/ UNCHANGED refunds /\ Finish(s)
  /\ UNCHANGED <<apps, envelope, deposits, queue>>

(* The update of the applications; the refund is cancelled if it fails.    *)
CancelApps(s) ==
  /\ At(s, "cancel_apps")
  /\ \/ /\ apps' = [a \in Apps |->
                      IF Submitted(a) /\ apps[a].deposit = ses[s].deposit
                        THEN [apps[a] EXCEPT !.status = "canceled"] ELSE apps[a]]
        /\ UNCHANGED refunds
     \/ /\ refunds' = [refunds EXCEPT ![ses[s].deposit] = @ - 1]
        /\ UNCHANGED apps
  /\ Finish(s)
  /\ UNCHANGED <<envelope, deposits, queue>>

Crash(s) ==
  /\ CanCrash
  /\ ~At(s, "idle")
  /\ Finish(s)
  /\ UNCHANGED <<apps, envelope, deposits, refunds, queue>>

-----------------------------------------------------------------------------
WebStep(s) == CheckExisting(s) \/ InsertDraft(s) \/ EnqueueStart(s) \/ FinishSigning(s)
TaskStep(w) == \/ StartSave(w) \/ StartCall(w) \/ Prepare(w) \/ ValidatingSave(w)
               \/ GetEnvelope(w) \/ FinishSave(w) \/ Notify(w) \/ TaskError(w)
WorkerStep(w) == StartLoad(w) \/ FinishLoad(w) \/ TaskStep(w)
AdminStep(s) == \/ PayLoad(s) \/ PayRead(s) \/ PaySave(s) \/ EditLoad(s) \/ EditSave(s)
                \/ DeleteLoad(s) \/ DeleteSave(s)
                \/ RefundLoad(s) \/ RefundSave(s) \/ CancelApps(s)

Next == \/ \E s \in Web : WebStep(s)
        \/ \E w \in Workers : WorkerStep(w)
        \/ \E s \in Admins : AdminStep(s)
        \/ \E a \in Apps : EnvelopeMoves(a)
        \/ \E s \in Sessions : Crash(s)

Spec == Init /\ [][Next]_vars

(* A live worker goes on with its task and takes tasks that wait; a request *)
(* that has inserted a draft goes on to queue its task.                    *)
Fairness == /\ \A w \in Workers : WF_vars(WorkerStep(w))
            /\ \A s \in Web : WF_vars(EnqueueStart(s))

FairSpec == Spec /\ Fairness

-----------------------------------------------------------------------------
(* Properties.                                                             *)

TypeOK ==
  /\ apps \in [Apps -> App]
  /\ envelope \in [Apps -> EnvelopeStatuses]
  /\ deposits \subseteq Deposits
  /\ refunds \in [Deposits -> Nat]
  /\ queue \in [Tasks -> Nat]
  /\ ses \in [Sessions -> Session]

(* Only what was signed is submitted: an application that left draft has a *)
(* completed envelope at DocuSign, whichever tasks ran twice, failed or    *)
(* died on the way, and whatever stale row an admin has saved.             *)
SubmittedWasSigned ==
  \A a \in Apps : Submitted(a) => envelope[a] = "completed"

(* What the statuses say of the money is true: the deposit of an           *)
(* application on hold is in the ledger, and that of a canceled one has    *)
(* been refunded, even if one of two competing refunds was taken back.     *)
StatusMatchesMoney ==
  \A a \in Apps :
    /\ apps[a].status \in {"hold", "canceled"} => apps[a].deposit \in deposits
    /\ apps[a].status = "canceled" => refunds[apps[a].deposit] > 0

(* With one worker and one admin at work, so that no row is stale, each    *)
(* application follows the lifecycle the component promises.               *)
Lifecycle == INSTANCE ApplicationLifecycle WITH
  stage    <- [a \in Apps |-> apps[a].status],
  signed   <- {a \in Apps : envelope[a] = "completed"},
  paid     <- {a \in Apps : apps[a].deposit # None},
  refunded <- {a \in Apps : apps[a].deposit # None /\ refunds[apps[a].deposit] > 0}

Implements == Lifecycle!Spec

(* A draft that waits for DocuSign gets to a state in which its user can   *)
(* do something: sign it, read that it failed, or see it submitted.        *)
DraftIsPrepared ==
  \A a \in Apps :
    apps[a].status = "draft" /\ apps[a].agreement = "initial" ~>
      apps[a].agreement \in {"prepared", "error"}
SignatureIsValidated ==
  \A a \in Apps :
    queue[<<"finish", a>>] > 0 ~> apps[a].agreement \in {"success", "error"}
=============================================================================
