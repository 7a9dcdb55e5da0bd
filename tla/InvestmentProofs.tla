-------------------------- MODULE InvestmentProofs --------------------------
(***************************************************************************)
(* Proofs about Investment and Portfolio, for any applications, users,     *)
(* deposits and sessions, stale forms and crashes included: what was       *)
(* submitted was signed, what is on hold or canceled is backed by money,   *)
(* and the books add up to the deposits.  With one worker and one admin    *)
(* at work each application follows the lifecycle the component promises.  *)
(***************************************************************************)
EXTENDS Portfolio, SumTheorems, FiniteSetTheorems, TLAPS

-----------------------------------------------------------------------------
(* The inductive invariant.                                                *)

(* The session has, or is about to queue, the start task of its draft and  *)
(* has not called DocuSign yet.                                            *)
Starting == {"enqueue", "start_save", "start_call"}
WorkingTask == {"start_save", "start_call", "prepare", "start_error", "validating_save",
                "get_envelope", "finish_save", "notify", "finish_error"}
HoldingRow == {"pay_read", "pay", "edit"}

KnowsItsWork ==
  \A s \in Sessions :
    /\ At(s, "insert") => ses[s].user \in Users
    /\ ses[s].pc \in {"enqueue", "delete"} \union WorkingTask \union HoldingRow =>
         ses[s].app \in Apps
    /\ At(s, "start_save") => ses[s].row.status = "draft"
    /\ ses[s].pc \in HoldingRow => ses[s].row.status \in {"pending", "hold", "canceled"}

(* The start task of an application is queued or run at most once, and     *)
(* before it ends DocuSign knows nothing of the application.               *)
StartsOnce ==
  /\ \A s \in Sessions :
       ses[s].pc \in Starting =>
         /\ envelope[ses[s].app] = "none"
         /\ apps[ses[s].app].status # "absent"
         /\ queue[<<"start", ses[s].app>>] = 0
  /\ \A s, t \in Sessions :
       ses[s].pc \in Starting /\ ses[t].pc \in Starting /\ ses[s].app = ses[t].app => s = t
  /\ \A a \in Apps :
       /\ queue[<<"start", a>>] =< 1
       /\ queue[<<"start", a>>] > 0 => envelope[a] = "none" /\ apps[a].status # "absent"
       /\ apps[a].status = "absent" => envelope[a] = "none"

(* What sessions remember of signatures is true.                           *)
RemembersSigned ==
  \A s \in Sessions :
    /\ ses[s].pc \in HoldingRow => envelope[ses[s].app] = "completed"
    /\ At(s, "finish_save") /\ ses[s].seen = "completed" =>
         envelope[ses[s].app] = "completed"

(* The admins who may still take back a refund of the deposit.             *)
Cancelling(d) == {s \in Admins : At(s, "cancel_apps") /\ ses[s].deposit = d}

(* The money a row speaks of is there, and stays when they do.             *)
Backed(row) ==
  /\ row.status \in {"hold", "canceled"} => row.deposit \in deposits
  /\ row.status = "canceled" => refunds[row.deposit] > Cardinality(Cancelling(row.deposit))

RowsAreBacked ==
  /\ \A a \in Apps : Backed(apps[a])
  /\ \A s \in Sessions : ses[s].pc \in HoldingRow => Backed(ses[s].row)
  /\ \A s \in Sessions :
       ses[s].pc \in {"refund", "cancel_apps"} => ses[s].deposit \in deposits
  /\ \A d \in Deposits : refunds[d] >= Cardinality(Cancelling(d))

IInv == /\ TypeOK
        /\ KnowsItsWork
        /\ StartsOnce
        /\ RemembersSigned
        /\ SubmittedWasSigned
        /\ RowsAreBacked

-----------------------------------------------------------------------------
USE DEF At, Starting, WorkingTask, HoldingRow

LEMMA RowsHaveType ==
  /\ NoApp \in App
  /\ Idle \in Session
  /\ \A t \in {"start", "finish"}, a \in Apps : <<t, a>> \in Tasks
BY NoneNotAnId DEF NoApp, App, Statuses, AgreementStatuses, Idle, Session, PCs,
                   EnvelopeStatuses, Tasks

LEMMA InitInvariant == Init => IInv
<1> SUFFICES ASSUME Init PROVE IInv
  OBVIOUS
<1> USE DEF Init
<1>1. \A s \in Sessions : ses[s] = Idle
  OBVIOUS
<1>2. TypeOK
  BY RowsHaveType DEF TypeOK, EnvelopeStatuses
<1>3. KnowsItsWork /\ RemembersSigned
  BY <1>1 DEF KnowsItsWork, RemembersSigned, Idle
<1>4. StartsOnce /\ SubmittedWasSigned
  BY <1>1, RowsHaveType
     DEF StartsOnce, SubmittedWasSigned, Submitted, Exists, NoApp, Idle
<1>5. \A d : Cancelling(d) = {}
  BY <1>1 DEF Cancelling, Sessions, Idle
<1>6. Cardinality({}) = 0
  BY FS_EmptySet
<1>7. RowsAreBacked
  BY <1>1, <1>5, <1>6 DEF RowsAreBacked, Backed, NoApp, Idle
<1> QED
  BY <1>2, <1>3, <1>4, <1>7 DEF IInv

LEMMA CancellingIsFinite ==
  \A d : /\ IsFiniteSet(Cancelling(d)) /\ Cardinality(Cancelling(d)) \in Nat
         /\ IsFiniteSet(Cancelling(d)') /\ Cardinality(Cancelling(d)') \in Nat
BY AdminsAreFinite, FS_Subset, FS_CardinalityType DEF Cancelling

-----------------------------------------------------------------------------
(* What the operators that write the variables change.                     *)

OnlySession(s) == \A t \in Sessions \ {s} : ses'[t] = ses[t]
OnlyApp(a) == \A b \in Apps \ {a} : apps'[b] = apps[b]

(* The session goes to pc and keeps what it remembers.                     *)
MovesTo(s, pc) ==
  /\ OnlySession(s)
  /\ ses'[s].pc = pc
  /\ ses'[s].user = ses[s].user /\ ses'[s].app = ses[s].app
  /\ ses'[s].deposit = ses[s].deposit
  /\ ses'[s].row = ses[s].row /\ ses'[s].seen = ses[s].seen

Ends(s) == OnlySession(s) /\ ses'[s] = Idle

LEMMA GoToChanges ==
  ASSUME TypeOK, NEW s \in Sessions, NEW pc \in PCs, GoTo(s, pc)
  PROVE  ses' \in [Sessions -> Session] /\ MovesTo(s, pc)
BY DEF TypeOK, GoTo, MovesTo, OnlySession, Session

LEMMA FinishChanges ==
  ASSUME TypeOK, NEW s \in Sessions, Finish(s)
  PROVE  ses' \in [Sessions -> Session] /\ Ends(s)
BY RowsHaveType DEF TypeOK, Finish, Ends, OnlySession

(* The session starts to work for an application it has read.              *)
Opens(s, a, pc) ==
  /\ OnlySession(s)
  /\ ses'[s].pc = pc /\ ses'[s].app = a /\ ses'[s].row = apps[a]

LEMMA StartWork ==
  ASSUME TypeOK, NEW s \in Sessions, NEW a \in Apps, NEW pc \in PCs,
         ses' = [ses EXCEPT ![s] = [Idle EXCEPT !.pc = pc, !.app = a, !.row = apps[a]]]
  PROVE  ses' \in [Sessions -> Session] /\ Opens(s, a, pc)
<1> DEFINE new == [Idle EXCEPT !.pc = pc, !.app = a, !.row = apps[a]]
<1>1. apps[a] \in App
  BY DEF TypeOK
<1>2. new \in Session /\ new.pc = pc /\ new.app = a /\ new.row = apps[a]
  BY <1>1, RowsHaveType DEF Session
<1> HIDE DEF new
<1>3. ses' = [ses EXCEPT ![s] = new]
  BY DEF new
<1> QED
  BY <1>2, <1>3 DEF TypeOK, Opens, OnlySession

LEMMA OpenChanges ==
  ASSUME TypeOK, NEW s \in Sessions, NEW a \in Apps, NEW pc \in PCs, Open(s, a, pc)
  PROVE  /\ ses' \in [Sessions -> Session] /\ Opens(s, a, pc)
         /\ At(s, "idle")
         /\ apps[a].status \in {"pending", "hold", "canceled"}
         /\ UNCHANGED <<apps, envelope, deposits, refunds, queue>>
<1>1. apps[a].status \in Statuses
  BY DEF TypeOK, App
<1> QED
  BY <1>1, StartWork DEF Open, Submitted, Exists, Statuses

LEMMA TakeChanges ==
  ASSUME TypeOK, NEW w \in Sessions, NEW task \in {"start", "finish"},
         NEW agreement, NEW pc \in PCs, Take(w, task, agreement, pc)
  PROVE  \E a \in Apps :
           /\ At(w, "idle")
           /\ queue[<<task, a>>] > 0
           /\ queue' \in [Tasks -> Nat]
           /\ queue'[<<task, a>>] = queue[<<task, a>>] - 1
           /\ \A t \in Tasks \ {<<task, a>>} : queue'[t] = queue[t]
           /\ ses' \in [Sessions -> Session]
           /\ \/ Opens(w, a, pc) /\ apps[a].status = "draft"
              \/ UNCHANGED ses
           /\ UNCHANGED <<apps, envelope, deposits, refunds>>
<1>1. PICK a \in Apps :
        /\ At(w, "idle")
        /\ queue[<<task, a>>] > 0
        /\ queue' = [queue EXCEPT ![<<task, a>>] = @ - 1]
        /\ \/ /\ apps[a].status = "draft"
              /\ ses' = [ses EXCEPT ![w] =
                           [Idle EXCEPT !.pc = pc, !.app = a, !.row = apps[a]]]
           \/ UNCHANGED ses
        /\ UNCHANGED <<apps, envelope, deposits, refunds>>
  BY DEF Take
<1>2. <<task, a>> \in Tasks
  BY DEF Tasks
<1>3. /\ queue' \in [Tasks -> Nat]
      /\ queue'[<<task, a>>] = queue[<<task, a>>] - 1
      /\ \A t \in Tasks \ {<<task, a>>} : queue'[t] = queue[t]
  BY <1>1, <1>2 DEF TypeOK
<1>4. /\ ses' \in [Sessions -> Session]
      /\ \/ Opens(w, a, pc) /\ apps[a].status = "draft"
         \/ UNCHANGED ses
  BY <1>1, StartWork DEF TypeOK
<1> QED
  BY <1>1, <1>3, <1>4

LEMMA WriteChanges ==
  ASSUME TypeOK, NEW w \in Sessions, ses[w].app \in Apps, NEW row \in App,
         Write(w, row)
  PROVE  /\ apps' \in [Apps -> App]
         /\ OnlyApp(ses[w].app)
         /\ \/ Exists(ses[w].app) /\ apps'[ses[w].app] = row
            \/ ~Exists(ses[w].app) /\ UNCHANGED apps
BY DEF TypeOK, Write, OnlyApp

LEMMA CheckExistingPreserves ==
  ASSUME IInv, NEW s \in Web, CheckExisting(s)
  PROVE  IInv'
<1> USE DEF IInv
<1>s. s \in Sessions
  BY DEF Sessions
<1>1. /\ At(s, "idle")
      /\ ses' \in [Sessions -> Session] /\ OnlySession(s)
      /\ ses'[s].pc = "insert" /\ ses'[s].user \in Users
      /\ UNCHANGED <<apps, envelope, deposits, refunds, queue>>
  <2>1. PICK u \in Users :
          /\ At(s, "idle")
          /\ ses' = [ses EXCEPT ![s] = [Idle EXCEPT !.pc = "insert", !.user = u]]
          /\ UNCHANGED <<apps, envelope, deposits, refunds, queue>>
    BY <1>s DEF CheckExisting
  <2> DEFINE new == [Idle EXCEPT !.pc = "insert", !.user = u]
  <2>2. new \in Session /\ new.pc = "insert" /\ new.user = u
    BY <1>s, RowsHaveType DEF Idle, Session, PCs
  <2> HIDE DEF new
  <2>3. ses' = [ses EXCEPT ![s] = new]
    BY <1>s, <2>1 DEF new
  <2> QED
    BY <1>s, <2>1, <2>2, <2>3 DEF TypeOK, OnlySession
<1>2. TypeOK'
  BY <1>s, <1>1 DEF TypeOK
<1>3. KnowsItsWork'
  BY <1>s, <1>1, <1>2 DEF KnowsItsWork, OnlySession
<1>4. StartsOnce'
  BY <1>s, <1>1, <1>2, RowsHaveType DEF StartsOnce, OnlySession
<1>5. RemembersSigned'
  BY <1>s, <1>1, <1>2 DEF RemembersSigned, OnlySession
<1>6. SubmittedWasSigned'
  BY <1>s, <1>1, <1>2 DEF SubmittedWasSigned, Submitted, Exists
<1>7. \A d \in Deposits : Cancelling(d)' = Cancelling(d)
  BY <1>s, <1>1 DEF Cancelling, Sessions, OnlySession
<1>8. RowsAreBacked'
  BY <1>s, <1>1, <1>2, <1>7 DEF RowsAreBacked, Backed, TypeOK, OnlySession
<1> QED
  BY <1>2, <1>3, <1>4, <1>5, <1>6, <1>8

LEMMA InsertDraftPreserves ==
  ASSUME IInv, NEW s \in Web, InsertDraft(s)
  PROVE  IInv'
<1> USE DEF IInv
<1>s. s \in Sessions
  BY DEF Sessions
<1>1. /\ At(s, "insert")
      /\ ses' \in [Sessions -> Session] /\ OnlySession(s)
      /\ ses'[s].pc = "enqueue"
      /\ apps' \in [Apps -> App]
      /\ \E a \in Apps : /\ apps[a].status = "absent" /\ OnlyApp(a) /\ ses'[s].app = a
                       /\ apps'[a].status = "draft"
      /\ UNCHANGED <<envelope, deposits, refunds, queue>>
  <2>1. PICK a \in Apps, amount \in Amounts :
          /\ At(s, "insert")
          /\ apps[a].status = "absent"
          /\ apps' = [apps EXCEPT ![a] =
                        [NoApp EXCEPT !.user = ses[s].user, !.status = "draft",
                                      !.amount = amount]]
          /\ ses' = [ses EXCEPT ![s].pc = "enqueue", ![s].app = a]
          /\ UNCHANGED <<envelope, deposits, refunds, queue>>
    BY <1>s DEF InsertDraft
  <2> DEFINE row == [NoApp EXCEPT !.user = ses[s].user, !.status = "draft",
                                  !.amount = amount]
  <2>2. row \in App /\ row.status = "draft"
    BY <1>s, <2>1, RowsHaveType DEF App, Statuses, KnowsItsWork
  <2> HIDE DEF row
  <2>3. apps' = [apps EXCEPT ![a] = row]
    BY <1>s, <2>1 DEF row
  <2>4. apps' \in [Apps -> App] /\ apps'[a].status = "draft" /\ OnlyApp(a)
    BY <1>s, <2>2, <2>3 DEF TypeOK, OnlyApp
  <2>5. /\ ses' \in [Sessions -> Session] /\ OnlySession(s)
        /\ ses'[s].pc = "enqueue" /\ ses'[s].app = a
    <3> DEFINE new == [ses[s] EXCEPT !.pc = "enqueue", !.app = a]
    <3>1. new \in Session /\ new.pc = "enqueue" /\ new.app = a
      BY <1>s DEF TypeOK, Session, PCs
    <3>2. ses' = [ses EXCEPT ![s] = new]
      BY <1>s, <2>1
    <3> HIDE DEF new
    <3> QED
      BY <1>s, <3>1, <3>2 DEF TypeOK, OnlySession
  <2> QED
    BY <1>s, <2>1, <2>4, <2>5
<1>2. TypeOK'
  BY <1>s, <1>1 DEF TypeOK
<1>3. KnowsItsWork'
  BY <1>s, <1>1, <1>2 DEF KnowsItsWork, OnlySession, OnlyApp
<1>4. StartsOnce'
  <2>1. PICK a \in Apps : /\ apps[a].status = "absent" /\ OnlyApp(a) /\ ses'[s].app = a
                         /\ apps'[a].status = "draft"
    BY <1>1
  <2>2. envelope[a] = "none" /\ queue[<<"start", a>>] = 0
    BY <2>1, RowsHaveType DEF StartsOnce, TypeOK
  <2>3. \A t \in Sessions : ses[t].pc \in Starting => ses[t].app \in Apps /\ ses[t].app # a
    BY <2>1 DEF StartsOnce, KnowsItsWork
  <2> QED
    BY <1>s, <1>1, <2>1, <2>2, <2>3 DEF StartsOnce, OnlySession, OnlyApp
<1>5. RemembersSigned'
  BY <1>s, <1>1, <1>2 DEF RemembersSigned, OnlySession
<1>6. SubmittedWasSigned'
  BY <1>s, <1>1, <1>2 DEF SubmittedWasSigned, Submitted, Exists, OnlyApp
<1>7. \A d \in Deposits : Cancelling(d)' = Cancelling(d)
  BY <1>s, <1>1 DEF Cancelling, Sessions, OnlySession
<1>8. RowsAreBacked'
  BY <1>s, <1>1, <1>2, <1>7
     DEF RowsAreBacked, Backed, TypeOK, OnlySession, OnlyApp
<1> QED
  BY <1>2, <1>3, <1>4, <1>5, <1>6, <1>8

LEMMA EnqueueStartPreserves ==
  ASSUME IInv, NEW s \in Web, EnqueueStart(s)
  PROVE  IInv'
<1> USE DEF IInv
<1>s. s \in Sessions
  BY DEF Sessions
<1>1. /\ At(s, "enqueue")
      /\ ses' \in [Sessions -> Session] /\ Ends(s)
      /\ queue' \in [Tasks -> Nat]
      /\ queue'[<<"start", ses[s].app>>] = queue[<<"start", ses[s].app>>] + 1
      /\ \A t \in Tasks \ {<<"start", ses[s].app>>} : queue'[t] = queue[t]
      /\ UNCHANGED <<apps, envelope, deposits, refunds>>
  BY <1>s, FinishChanges, RowsHaveType DEF EnqueueStart, TypeOK, KnowsItsWork
<1>2. TypeOK'
  BY <1>s, <1>1 DEF TypeOK
<1>3. KnowsItsWork'
  BY <1>s, <1>1, <1>2 DEF KnowsItsWork, OnlySession, Ends, Idle
<1>4. StartsOnce'
  BY <1>s, <1>1, <1>2, RowsHaveType
     DEF StartsOnce, KnowsItsWork, Exists, OnlySession, Ends, Idle
<1>5. RemembersSigned'
  BY <1>s, <1>1, <1>2
     DEF RemembersSigned, KnowsItsWork, StartsOnce, SubmittedWasSigned,
         Submitted, Exists, OnlySession, Ends, Idle
<1>6. SubmittedWasSigned'
  BY <1>s, <1>1, <1>2
     DEF SubmittedWasSigned, RemembersSigned, KnowsItsWork, StartsOnce,
         Submitted, Exists, OnlySession, Ends, Idle
<1>7. \A d \in Deposits : Cancelling(d)' = Cancelling(d)
  BY <1>s, <1>1 DEF Cancelling, Sessions, OnlySession, Ends, Idle
<1>8. RowsAreBacked'
  BY <1>s, <1>1, <1>2, <1>7
     DEF RowsAreBacked, Backed, TypeOK, OnlySession, Ends, Idle
<1> QED
  BY <1>2, <1>3, <1>4, <1>5, <1>6, <1>8

LEMMA FinishSigningPreserves ==
  ASSUME IInv, NEW s \in Web, FinishSigning(s)
  PROVE  IInv'
<1> USE DEF IInv
<1>s. s \in Sessions
  BY DEF Sessions
<1>1. /\ queue' \in [Tasks -> Nat]
      /\ \A a \in Apps : queue'[<<"start", a>>] = queue[<<"start", a>>]
      /\ UNCHANGED <<apps, envelope, deposits, refunds, ses>>
  BY <1>s, RowsHaveType DEF FinishSigning, TypeOK
<1>2. TypeOK'
  BY <1>s, <1>1 DEF TypeOK
<1>3. KnowsItsWork'
  BY <1>s, <1>1, <1>2 DEF KnowsItsWork
<1>4. StartsOnce'
  BY <1>s, <1>1, <1>2, RowsHaveType DEF StartsOnce, KnowsItsWork
<1>5. RemembersSigned'
  BY <1>s, <1>1, <1>2 DEF RemembersSigned
<1>6. SubmittedWasSigned'
  BY <1>s, <1>1, <1>2 DEF SubmittedWasSigned, Submitted, Exists
<1>7. \A d \in Deposits : Cancelling(d)' = Cancelling(d)
  BY <1>s, <1>1 DEF Cancelling, Sessions
<1>8. RowsAreBacked'
  BY <1>s, <1>1, <1>2, <1>7 DEF RowsAreBacked, Backed, TypeOK
<1> QED
  BY <1>2, <1>3, <1>4, <1>5, <1>6, <1>8

LEMMA StartLoadPreserves ==
  ASSUME IInv, NEW s \in Workers, StartLoad(s)
  PROVE  IInv'
<1> USE DEF IInv
<1>s. s \in Sessions
  BY DEF Sessions
<1>1. /\ \E a \in Apps :
           /\ At(s, "idle")
           /\ queue[<<"start", a>>] > 0
           /\ queue' \in [Tasks -> Nat]
           /\ queue'[<<"start", a>>] = queue[<<"start", a>>] - 1
           /\ \A t \in Tasks \ {<<"start", a>>} : queue'[t] = queue[t]
           /\ ses' \in [Sessions -> Session]
           /\ \/ Opens(s, a, "start_save") /\ apps[a].status = "draft"
              \/ UNCHANGED ses
      /\ UNCHANGED <<apps, envelope, deposits, refunds>>
  <2>1. "start_save" \in PCs /\ Take(s, "start", "initial", "start_save")
    BY <1>s DEF StartLoad, PCs
  <2> QED
    BY <1>s, <2>1, TakeChanges
<1>2. TypeOK'
  BY <1>s, <1>1 DEF TypeOK
<1>3. KnowsItsWork'
  BY <1>s, <1>1, <1>2 DEF KnowsItsWork, OnlySession, Opens
<1>4. StartsOnce'
  BY <1>s, <1>1, <1>2, RowsHaveType
     DEF StartsOnce, KnowsItsWork, TypeOK, OnlySession, Opens
<1>5. RemembersSigned'
  BY <1>s, <1>1, <1>2 DEF RemembersSigned, OnlySession, Opens
<1>6. SubmittedWasSigned'
  BY <1>s, <1>1, <1>2 DEF SubmittedWasSigned, Submitted, Exists
<1>7. \A d \in Deposits : Cancelling(d)' = Cancelling(d)
  BY <1>s, <1>1 DEF Cancelling, Sessions, OnlySession, Opens
<1>8. RowsAreBacked'
  BY <1>s, <1>1, <1>2, <1>7
     DEF RowsAreBacked, Backed, TypeOK, OnlySession, Opens
<1> QED
  BY <1>2, <1>3, <1>4, <1>5, <1>6, <1>8

LEMMA FinishLoadPreserves ==
  ASSUME IInv, NEW s \in Workers, FinishLoad(s)
  PROVE  IInv'
<1> USE DEF IInv
<1>s. s \in Sessions
  BY DEF Sessions
<1>1. /\ \E a \in Apps :
           /\ At(s, "idle")
           /\ queue[<<"finish", a>>] > 0
           /\ queue' \in [Tasks -> Nat]
           /\ queue'[<<"finish", a>>] = queue[<<"finish", a>>] - 1
           /\ \A t \in Tasks \ {<<"finish", a>>} : queue'[t] = queue[t]
           /\ ses' \in [Sessions -> Session]
           /\ \/ Opens(s, a, "validating_save") /\ apps[a].status = "draft"
              \/ UNCHANGED ses
      /\ UNCHANGED <<apps, envelope, deposits, refunds>>
  <2>1. "validating_save" \in PCs /\ Take(s, "finish", "prepared", "validating_save")
    BY <1>s DEF FinishLoad, PCs
  <2> QED
    BY <1>s, <2>1, TakeChanges
<1>2. TypeOK'
  BY <1>s, <1>1 DEF TypeOK
<1>3. KnowsItsWork'
  BY <1>s, <1>1, <1>2 DEF KnowsItsWork, OnlySession, Opens
<1>4. StartsOnce'
  BY <1>s, <1>1, <1>2, RowsHaveType
     DEF StartsOnce, KnowsItsWork, TypeOK, OnlySession, Opens
<1>5. RemembersSigned'
  BY <1>s, <1>1, <1>2 DEF RemembersSigned, OnlySession, Opens
<1>6. SubmittedWasSigned'
  BY <1>s, <1>1, <1>2 DEF SubmittedWasSigned, Submitted, Exists
<1>7. \A d \in Deposits : Cancelling(d)' = Cancelling(d)
  BY <1>s, <1>1 DEF Cancelling, Sessions, OnlySession, Opens
<1>8. RowsAreBacked'
  BY <1>s, <1>1, <1>2, <1>7
     DEF RowsAreBacked, Backed, TypeOK, OnlySession, Opens
<1> QED
  BY <1>2, <1>3, <1>4, <1>5, <1>6, <1>8

LEMMA StartSavePreserves ==
  ASSUME IInv, NEW s \in Workers, StartSave(s)
  PROVE  IInv'
<1> USE DEF IInv
<1>s. s \in Sessions
  BY DEF Sessions
<1>1. /\ ses[s].pc \in {"start_save"}
      /\ ses' \in [Sessions -> Session]
      /\ MovesTo(s, "start_call")
      /\ apps' \in [Apps -> App] /\ OnlyApp(ses[s].app)
      /\ \/ apps'[ses[s].app].status = "draft" /\ Exists(ses[s].app)
         \/ UNCHANGED apps
      /\ UNCHANGED <<envelope, deposits, refunds, queue>>
  <2> DEFINE row == [ses[s].row EXCEPT !.agreement = "preparing"]
  <2>1. ses[s] \in Session /\ At(s, "start_save")
    BY <1>s DEF StartSave, TypeOK
  <2>2. row \in App /\ row.status = "draft"
    BY <1>s, <2>1 DEF Session, App, AgreementStatuses, KnowsItsWork
  <2> HIDE DEF row
  <2>3. Write(s, row) /\ GoTo(s, "start_call") /\ UNCHANGED <<envelope, deposits, refunds, queue>>
    BY <1>s DEF StartSave, row
  <2> QED
    BY <1>s, <2>1, <2>2, <2>3, WriteChanges, GoToChanges DEF PCs, KnowsItsWork
<1>2. TypeOK'
  BY <1>s, <1>1 DEF TypeOK
<1>3. KnowsItsWork'
  BY <1>s, <1>1, <1>2 DEF KnowsItsWork, OnlySession, MovesTo
<1>4. StartsOnce'
  BY <1>s, <1>1, <1>2, RowsHaveType
     DEF StartsOnce, KnowsItsWork, OnlySession, OnlyApp, MovesTo
<1>5. RemembersSigned'
  BY <1>s, <1>1, <1>2 DEF RemembersSigned, OnlySession, MovesTo
<1>6. SubmittedWasSigned'
  BY <1>s, <1>1, <1>2 DEF SubmittedWasSigned, Submitted, Exists, OnlyApp
<1>7. \A d \in Deposits : Cancelling(d)' = Cancelling(d)
  BY <1>s, <1>1 DEF Cancelling, Sessions, OnlySession, MovesTo
<1>8. RowsAreBacked'
  BY <1>s, <1>1, <1>2, <1>7
     DEF RowsAreBacked, Backed, TypeOK, OnlySession, OnlyApp, MovesTo
<1> QED
  BY <1>2, <1>3, <1>4, <1>5, <1>6, <1>8

LEMMA PreparePreserves ==
  ASSUME IInv, NEW s \in Workers, Prepare(s)
  PROVE  IInv'
<1> USE DEF IInv
<1>s. s \in Sessions
  BY DEF Sessions
<1>1. /\ ses[s].pc \in {"prepare"}
      /\ ses' \in [Sessions -> Session]
      /\ Ends(s)
      /\ apps' \in [Apps -> App] /\ OnlyApp(ses[s].app)
      /\ \/ apps'[ses[s].app].status = apps[ses[s].app].status
            /\ apps'[ses[s].app].deposit = apps[ses[s].app].deposit
         \/ UNCHANGED apps
      /\ UNCHANGED <<envelope, deposits, refunds, queue>>
  <2> DEFINE row == [Row(s) EXCEPT !.agreement = "prepared"]
  <2>1. apps[ses[s].app] \in App /\ ses[s].pc \in {"prepare"} /\ ses[s].app \in Apps
    BY <1>s DEF Prepare, TypeOK, KnowsItsWork
  <2>2. /\ row \in App
        /\ row.status = apps[ses[s].app].status /\ row.deposit = apps[ses[s].app].deposit
    BY <1>s, <2>1 DEF Row, App, AgreementStatuses
  <2> HIDE DEF row
  <2>3. Write(s, row) /\ Finish(s) /\ UNCHANGED <<envelope, deposits, refunds, queue>>
    BY <1>s DEF Prepare, row
  <2> QED
    BY <1>s, <2>1, <2>2, <2>3, WriteChanges, FinishChanges
<1>2. TypeOK'
  BY <1>s, <1>1 DEF TypeOK
<1>3. KnowsItsWork'
  BY <1>s, <1>1, <1>2 DEF KnowsItsWork, OnlySession, Ends, Idle
<1>4. StartsOnce'
  BY <1>s, <1>1, <1>2, RowsHaveType
     DEF StartsOnce, KnowsItsWork, OnlySession, OnlyApp, Ends, Idle
<1>5. RemembersSigned'
  BY <1>s, <1>1, <1>2 DEF RemembersSigned, OnlySession, Ends, Idle
<1>6. SubmittedWasSigned'
  BY <1>s, <1>1, <1>2 DEF SubmittedWasSigned, Submitted, Exists, OnlyApp
<1>7. \A d \in Deposits : Cancelling(d)' = Cancelling(d)
  BY <1>s, <1>1 DEF Cancelling, Sessions, OnlySession, Ends, Idle
<1>8. RowsAreBacked'
  BY <1>s, <1>1, <1>2, <1>7
     DEF RowsAreBacked, Backed, TypeOK, OnlySession, OnlyApp, Ends, Idle
<1> QED
  BY <1>2, <1>3, <1>4, <1>5, <1>6, <1>8

LEMMA TaskErrorPreserves ==
  ASSUME IInv, NEW s \in Workers, TaskError(s)
  PROVE  IInv'
<1> USE DEF IInv
<1>s. s \in Sessions
  BY DEF Sessions
<1>1. /\ ses[s].pc \in {"start_error", "finish_error"}
      /\ ses' \in [Sessions -> Session]
      /\ Ends(s)
      /\ apps' \in [Apps -> App] /\ OnlyApp(ses[s].app)
      /\ \/ apps'[ses[s].app].status = apps[ses[s].app].status
            /\ apps'[ses[s].app].deposit = apps[ses[s].app].deposit
         \/ UNCHANGED apps
      /\ UNCHANGED <<envelope, deposits, refunds, queue>>
  <2> DEFINE row == [Row(s) EXCEPT !.agreement = "error"]
  <2>1. apps[ses[s].app] \in App /\ ses[s].pc \in {"start_error", "finish_error"} /\ ses[s].app \in Apps
    BY <1>s DEF TaskError, TypeOK, KnowsItsWork
  <2>2. /\ row \in App
        /\ row.status = apps[ses[s].app].status /\ row.deposit = apps[ses[s].app].deposit
    BY <1>s, <2>1 DEF Row, App, AgreementStatuses
  <2> HIDE DEF row
  <2>3. Write(s, row) /\ Finish(s) /\ UNCHANGED <<envelope, deposits, refunds, queue>>
    BY <1>s DEF TaskError, row
  <2> QED
    BY <1>s, <2>1, <2>2, <2>3, WriteChanges, FinishChanges
<1>2. TypeOK'
  BY <1>s, <1>1 DEF TypeOK
<1>3. KnowsItsWork'
  BY <1>s, <1>1, <1>2 DEF KnowsItsWork, OnlySession, Ends, Idle
<1>4. StartsOnce'
  BY <1>s, <1>1, <1>2, RowsHaveType
     DEF StartsOnce, KnowsItsWork, OnlySession, OnlyApp, Ends, Idle
<1>5. RemembersSigned'
  BY <1>s, <1>1, <1>2 DEF RemembersSigned, OnlySession, Ends, Idle
<1>6. SubmittedWasSigned'
  BY <1>s, <1>1, <1>2 DEF SubmittedWasSigned, Submitted, Exists, OnlyApp
<1>7. \A d \in Deposits : Cancelling(d)' = Cancelling(d)
  BY <1>s, <1>1 DEF Cancelling, Sessions, OnlySession, Ends, Idle
<1>8. RowsAreBacked'
  BY <1>s, <1>1, <1>2, <1>7
     DEF RowsAreBacked, Backed, TypeOK, OnlySession, OnlyApp, Ends, Idle
<1> QED
  BY <1>2, <1>3, <1>4, <1>5, <1>6, <1>8

LEMMA ValidatingSavePreserves ==
  ASSUME IInv, NEW s \in Workers, ValidatingSave(s)
  PROVE  IInv'
<1> USE DEF IInv
<1>s. s \in Sessions
  BY DEF Sessions
<1>1. /\ ses[s].pc \in {"validating_save"}
      /\ ses' \in [Sessions -> Session]
      /\ Ends(s) \/ MovesTo(s, "get_envelope")
      /\ apps' \in [Apps -> App] /\ OnlyApp(ses[s].app)
      /\ \/ apps'[ses[s].app].status = apps[ses[s].app].status
            /\ apps'[ses[s].app].deposit = apps[ses[s].app].deposit
         \/ UNCHANGED apps
      /\ UNCHANGED <<envelope, deposits, refunds, queue>>
  <2> DEFINE row == [Row(s) EXCEPT !.agreement = "validating"]
  <2>1. apps[ses[s].app] \in App /\ ses[s].pc \in {"validating_save"} /\ ses[s].app \in Apps
    BY <1>s DEF ValidatingSave, TypeOK, KnowsItsWork
  <2>2. /\ row \in App
        /\ row.status = apps[ses[s].app].status /\ row.deposit = apps[ses[s].app].deposit
    BY <1>s, <2>1 DEF Row, App, AgreementStatuses
  <2> HIDE DEF row
  <2>3. Write(s, row) /\ (GoTo(s, "get_envelope") \/ Finish(s)) /\ UNCHANGED <<envelope, deposits, refunds, queue>>
    BY <1>s DEF ValidatingSave, row, Exists
  <2> QED
    BY <1>s, <2>1, <2>2, <2>3, WriteChanges, FinishChanges, GoToChanges DEF PCs
<1>2. TypeOK'
  BY <1>s, <1>1 DEF TypeOK
<1>3. KnowsItsWork'
  BY <1>s, <1>1, <1>2 DEF KnowsItsWork, OnlySession, MovesTo, Ends, Idle
<1>4. StartsOnce'
  BY <1>s, <1>1, <1>2, RowsHaveType
     DEF StartsOnce, KnowsItsWork, OnlySession, OnlyApp, MovesTo, Ends, Idle
<1>5. RemembersSigned'
  BY <1>s, <1>1, <1>2 DEF RemembersSigned, OnlySession, MovesTo, Ends, Idle
<1>6. SubmittedWasSigned'
  BY <1>s, <1>1, <1>2 DEF SubmittedWasSigned, Submitted, Exists, OnlyApp
<1>7. \A d \in Deposits : Cancelling(d)' = Cancelling(d)
  BY <1>s, <1>1 DEF Cancelling, Sessions, OnlySession, MovesTo, Ends, Idle
<1>8. RowsAreBacked'
  BY <1>s, <1>1, <1>2, <1>7
     DEF RowsAreBacked, Backed, TypeOK, OnlySession, OnlyApp, MovesTo, Ends,
         Idle
<1> QED
  BY <1>2, <1>3, <1>4, <1>5, <1>6, <1>8

LEMMA StartCallPreserves ==
  ASSUME IInv, NEW s \in Workers, StartCall(s)
  PROVE  IInv'
<1> USE DEF IInv
<1>s. s \in Sessions
  BY DEF Sessions
<1>1. /\ At(s, "start_call")
      /\ ses' \in [Sessions -> Session]
      /\ MovesTo(s, "prepare") \/ MovesTo(s, "start_error")
      /\ envelope' \in [Apps -> EnvelopeStatuses]
      /\ \A a \in Apps \ {ses[s].app} : envelope'[a] = envelope[a]
      /\ UNCHANGED <<apps, deposits, refunds, queue>>
  <2>1. /\ At(s, "start_call")
        /\ GoTo(s, "prepare") \/ GoTo(s, "start_error")
        /\ envelope' = [envelope EXCEPT ![ses[s].app] = "sent"] \/ UNCHANGED envelope
        /\ UNCHANGED <<apps, deposits, refunds, queue>>
    BY <1>s DEF StartCall, CreateEnvelope, NewEnvelope, CreateRecipientView, CallFails
  <2>2. ses[s].app \in Apps
    BY <1>s, <2>1 DEF KnowsItsWork
  <2>3. /\ envelope' \in [Apps -> EnvelopeStatuses]
        /\ \A a \in Apps \ {ses[s].app} : envelope'[a] = envelope[a]
    BY <1>s, <2>1, <2>2 DEF TypeOK, EnvelopeStatuses
  <2> QED
    BY <1>s, <2>1, <2>3, GoToChanges DEF PCs
<1>2. TypeOK'
  BY <1>s, <1>1 DEF TypeOK
<1>3. KnowsItsWork'
  BY <1>s, <1>1, <1>2 DEF KnowsItsWork, OnlySession, MovesTo
<1>4. StartsOnce'
  BY <1>s, <1>1, <1>2, RowsHaveType
     DEF StartsOnce, KnowsItsWork, TypeOK, OnlySession, MovesTo
<1>5. RemembersSigned'
  <2>1. envelope[ses[s].app] = "none" /\ ses[s].app \in Apps
    BY <1>s, <1>1 DEF StartsOnce, KnowsItsWork
  <2>2. ASSUME NEW t \in Sessions, envelope[ses[t].app] = "completed", ses[t].app \in Apps
        PROVE  envelope'[ses[t].app] = "completed"
    BY <1>1, <2>1, <2>2
  <2>3. \A t \in Sessions :
          ses'[t].pc \in HoldingRow \union {"finish_save"} => ses'[t] = ses[t]
    BY <1>1, <1>s DEF MovesTo, OnlySession
  <2> QED
    BY <2>2, <2>3 DEF RemembersSigned, KnowsItsWork
<1>6. SubmittedWasSigned'
  BY <1>s, <1>1, <1>2 DEF SubmittedWasSigned, StartsOnce, Submitted, Exists
<1>7. \A d \in Deposits : Cancelling(d)' = Cancelling(d)
  BY <1>s, <1>1 DEF Cancelling, Sessions, OnlySession, MovesTo
<1>8. RowsAreBacked'
  BY <1>s, <1>1, <1>2, <1>7
     DEF RowsAreBacked, Backed, TypeOK, OnlySession, MovesTo
<1> QED
  BY <1>2, <1>3, <1>4, <1>5, <1>6, <1>8

LEMMA GetEnvelopePreserves ==
  ASSUME IInv, NEW s \in Workers, GetEnvelope(s)
  PROVE  IInv'
<1> USE DEF IInv
<1>s. s \in Sessions
  BY DEF Sessions
<1>1. /\ At(s, "get_envelope")
      /\ ses' \in [Sessions -> Session]
      /\ \/ /\ OnlySession(s) /\ ses'[s].pc = "finish_save" /\ ses'[s].app = ses[s].app
            /\ ses'[s].seen = envelope[ses[s].app]
         \/ MovesTo(s, "finish_error")
      /\ UNCHANGED <<apps, envelope, deposits, refunds, queue>>
  <2>1. CASE GoTo(s, "finish_error")
    BY <1>s, <2>1, GoToChanges DEF GetEnvelope, GetEnvelopeStatus, CallFails, PCs
  <2>2. CASE ses' = [ses EXCEPT ![s].pc = "finish_save", ![s].seen = envelope[ses[s].app]]
    <3>1. At(s, "get_envelope") /\ ses[s].app \in Apps /\ UNCHANGED <<apps, envelope, deposits, refunds, queue>>
      BY <1>s DEF GetEnvelope, CallFails, KnowsItsWork
    <3>2. envelope[ses[s].app] \in EnvelopeStatuses /\ "finish_save" \in PCs
      BY <1>s, <3>1 DEF TypeOK, PCs
    <3>3. ses' \in [Sessions -> Session]
      BY <1>s, <2>2, <3>2 DEF TypeOK, Session
    <3>4. /\ OnlySession(s) /\ ses'[s].pc = "finish_save" /\ ses'[s].app = ses[s].app
          /\ ses'[s].seen = envelope[ses[s].app]
      BY <1>s, <2>2, <3>2 DEF TypeOK, Session, OnlySession
    <3> QED
      BY <1>s, <3>1, <3>3, <3>4
  <2> QED
    BY <1>s, <2>1, <2>2 DEF GetEnvelope, GetEnvelopeStatus, CallFails
<1>2. TypeOK'
  BY <1>s, <1>1 DEF TypeOK
<1>3. KnowsItsWork'
  BY <1>s, <1>1, <1>2 DEF KnowsItsWork, OnlySession, MovesTo
<1>4. StartsOnce'
  BY <1>s, <1>1, <1>2, RowsHaveType DEF StartsOnce, OnlySession, MovesTo
<1>5. RemembersSigned'
  BY <1>s, <1>1, <1>2 DEF RemembersSigned, OnlySession, MovesTo
<1>6. SubmittedWasSigned'
  BY <1>s, <1>1, <1>2 DEF SubmittedWasSigned, Submitted, Exists
<1>7. \A d \in Deposits : Cancelling(d)' = Cancelling(d)
  BY <1>s, <1>1 DEF Cancelling, Sessions, OnlySession, MovesTo
<1>8. RowsAreBacked'
  BY <1>s, <1>1, <1>2, <1>7
     DEF RowsAreBacked, Backed, TypeOK, OnlySession, MovesTo
<1> QED
  BY <1>2, <1>3, <1>4, <1>5, <1>6, <1>8

LEMMA FinishSavePreserves ==
  ASSUME IInv, NEW s \in Workers, FinishSave(s)
  PROVE  IInv'
<1> USE DEF IInv
<1>s. s \in Sessions
  BY DEF Sessions
<1>1. /\ At(s, "finish_save")
      /\ ses' \in [Sessions -> Session]
      /\ Ends(s) \/ MovesTo(s, "finish_error") \/ MovesTo(s, "notify")
      /\ apps' \in [Apps -> App] /\ OnlyApp(ses[s].app)
      /\ \/ apps'[ses[s].app].status = "pending" /\ ses[s].seen = "completed" /\ Exists(ses[s].app)
         \/ apps'[ses[s].app].status = apps[ses[s].app].status
            /\ apps'[ses[s].app].deposit = apps[ses[s].app].deposit
         \/ UNCHANGED apps
      /\ UNCHANGED <<envelope, deposits, refunds, queue>>
  <2>1. /\ apps[ses[s].app] \in App /\ At(s, "finish_save") /\ ses[s].app \in Apps
        /\ UNCHANGED <<envelope, deposits, refunds, queue>>
    BY <1>s DEF FinishSave, TypeOK, KnowsItsWork
  <2>2. CASE ~Exists(ses[s].app) /\ GoTo(s, "finish_error") /\ UNCHANGED apps
    BY <1>s, <2>1, <2>2, GoToChanges DEF PCs, TypeOK, OnlyApp
  <2> DEFINE done == [Row(s) EXCEPT !.agreement = "success", !.status = "pending"]
             failed == [Row(s) EXCEPT !.agreement = "error"]
  <2>3. /\ done \in App /\ done.status = "pending"
        /\ failed \in App
        /\ failed.status = apps[ses[s].app].status
        /\ failed.deposit = apps[ses[s].app].deposit
    BY <1>s, <2>1 DEF Row, App, AgreementStatuses, Statuses
  <2> HIDE DEF done, failed
  <2>4. CASE /\ ses[s].seen = "completed" /\ Exists(ses[s].app)
             /\ Write(s, done) /\ GoTo(s, "notify")
    BY <1>s, <2>1, <2>3, <2>4, WriteChanges, GoToChanges DEF PCs
  <2>5. CASE Write(s, failed) /\ Finish(s)
    BY <1>s, <2>1, <2>3, <2>5, WriteChanges, FinishChanges
  <2> QED
    BY <1>s, <2>2, <2>4, <2>5 DEF FinishSave, done, failed
<1>2. TypeOK'
  BY <1>s, <1>1 DEF TypeOK
<1>3. KnowsItsWork'
  BY <1>s, <1>1, <1>2 DEF KnowsItsWork, OnlySession, MovesTo, Ends, Idle
<1>4. StartsOnce'
  BY <1>s, <1>1, <1>2, RowsHaveType
     DEF StartsOnce, KnowsItsWork, OnlySession, OnlyApp, MovesTo, Ends, Idle
<1>5. RemembersSigned'
  BY <1>s, <1>1, <1>2 DEF RemembersSigned, OnlySession, MovesTo, Ends, Idle
<1>6. SubmittedWasSigned'
  BY <1>s, <1>1, <1>2
     DEF SubmittedWasSigned, RemembersSigned, Submitted, Exists, OnlyApp
<1>7. \A d \in Deposits : Cancelling(d)' = Cancelling(d)
  BY <1>s, <1>1 DEF Cancelling, Sessions, OnlySession, MovesTo, Ends, Idle
<1>8. RowsAreBacked'
  BY <1>s, <1>1, <1>2, <1>7
     DEF RowsAreBacked, Backed, TypeOK, OnlySession, OnlyApp, MovesTo, Ends,
         Idle
<1> QED
  BY <1>2, <1>3, <1>4, <1>5, <1>6, <1>8

LEMMA NotifyPreserves ==
  ASSUME IInv, NEW s \in Workers, Notify(s)
  PROVE  IInv'
<1> USE DEF IInv
<1>s. s \in Sessions
  BY DEF Sessions
<1>1. /\ At(s, "notify")
      /\ ses' \in [Sessions -> Session]
      /\ Ends(s) \/ MovesTo(s, "finish_error")
      /\ UNCHANGED <<apps, envelope, deposits, refunds, queue>>
  BY <1>s, FinishChanges, GoToChanges DEF Notify, PCs
<1>2. TypeOK'
  BY <1>s, <1>1 DEF TypeOK
<1>3. KnowsItsWork'
  BY <1>s, <1>1, <1>2 DEF KnowsItsWork, OnlySession, MovesTo, Ends, Idle
<1>4. StartsOnce'
  BY <1>s, <1>1, <1>2, RowsHaveType
     DEF StartsOnce, OnlySession, MovesTo, Ends, Idle
<1>5. RemembersSigned'
  BY <1>s, <1>1, <1>2 DEF RemembersSigned, OnlySession, MovesTo, Ends, Idle
<1>6. SubmittedWasSigned'
  BY <1>s, <1>1, <1>2 DEF SubmittedWasSigned, Submitted, Exists
<1>7. \A d \in Deposits : Cancelling(d)' = Cancelling(d)
  BY <1>s, <1>1 DEF Cancelling, Sessions, OnlySession, MovesTo, Ends, Idle
<1>8. RowsAreBacked'
  BY <1>s, <1>1, <1>2, <1>7
     DEF RowsAreBacked, Backed, TypeOK, OnlySession, MovesTo, Ends, Idle
<1> QED
  BY <1>2, <1>3, <1>4, <1>5, <1>6, <1>8

LEMMA PayLoadPreserves ==
  ASSUME IInv, NEW s \in Admins, PayLoad(s)
  PROVE  IInv'
<1> USE DEF IInv
<1>s. s \in Sessions
  BY DEF Sessions
<1>1. /\ At(s, "idle")
      /\ ses' \in [Sessions -> Session]
      /\ \E a \in Apps : /\ Opens(s, a, "pay_read")
                       /\ apps[a].status \in {"pending", "hold", "canceled"}
      /\ UNCHANGED <<apps, envelope, deposits, refunds, queue>>
  <2>1. "pay_read" \in PCs /\ \E a \in Apps : Open(s, a, "pay_read")
    BY <1>s DEF PayLoad, PCs
  <2> QED
    BY <1>s, <2>1, OpenChanges
<1>2. TypeOK'
  BY <1>s, <1>1 DEF TypeOK
<1>3. KnowsItsWork'
  BY <1>s, <1>1, <1>2 DEF KnowsItsWork, OnlySession, Opens
<1>4. StartsOnce'
  BY <1>s, <1>1, <1>2, RowsHaveType DEF StartsOnce, OnlySession, Opens
<1>5. RemembersSigned'
  BY <1>s, <1>1, <1>2
     DEF RemembersSigned, SubmittedWasSigned, Submitted, Exists, OnlySession,
         Opens
<1>6. SubmittedWasSigned'
  BY <1>s, <1>1, <1>2 DEF SubmittedWasSigned, Submitted, Exists
<1>7. \A d \in Deposits : Cancelling(d)' = Cancelling(d)
  BY <1>s, <1>1 DEF Cancelling, Sessions, OnlySession, Opens
<1>8. RowsAreBacked'
  BY <1>s, <1>1, <1>2, <1>7
     DEF RowsAreBacked, Backed, TypeOK, OnlySession, Opens
<1> QED
  BY <1>2, <1>3, <1>4, <1>5, <1>6, <1>8

LEMMA EditLoadPreserves ==
  ASSUME IInv, NEW s \in Admins, EditLoad(s)
  PROVE  IInv'
<1> USE DEF IInv
<1>s. s \in Sessions
  BY DEF Sessions
<1>1. /\ At(s, "idle")
      /\ ses' \in [Sessions -> Session]
      /\ \E a \in Apps : /\ Opens(s, a, "edit")
                       /\ apps[a].status \in {"pending", "hold", "canceled"}
      /\ UNCHANGED <<apps, envelope, deposits, refunds, queue>>
  <2>1. "edit" \in PCs /\ \E a \in Apps : Open(s, a, "edit")
    BY <1>s DEF EditLoad, PCs
  <2> QED
    BY <1>s, <2>1, OpenChanges
<1>2. TypeOK'
  BY <1>s, <1>1 DEF TypeOK
<1>3. KnowsItsWork'
  BY <1>s, <1>1, <1>2 DEF KnowsItsWork, OnlySession, Opens
<1>4. StartsOnce'
  BY <1>s, <1>1, <1>2, RowsHaveType DEF StartsOnce, OnlySession, Opens
<1>5. RemembersSigned'
  BY <1>s, <1>1, <1>2
     DEF RemembersSigned, SubmittedWasSigned, Submitted, Exists, OnlySession,
         Opens
<1>6. SubmittedWasSigned'
  BY <1>s, <1>1, <1>2 DEF SubmittedWasSigned, Submitted, Exists
<1>7. \A d \in Deposits : Cancelling(d)' = Cancelling(d)
  BY <1>s, <1>1 DEF Cancelling, Sessions, OnlySession, Opens
<1>8. RowsAreBacked'
  BY <1>s, <1>1, <1>2, <1>7
     DEF RowsAreBacked, Backed, TypeOK, OnlySession, Opens
<1> QED
  BY <1>2, <1>3, <1>4, <1>5, <1>6, <1>8

LEMMA DeleteLoadPreserves ==
  ASSUME IInv, NEW s \in Admins, DeleteLoad(s)
  PROVE  IInv'
<1> USE DEF IInv
<1>s. s \in Sessions
  BY DEF Sessions
<1>1. /\ At(s, "idle")
      /\ ses' \in [Sessions -> Session]
      /\ \E a \in Apps : /\ Opens(s, a, "delete")
                       /\ apps[a].status \in {"pending", "hold", "canceled"}
      /\ UNCHANGED <<apps, envelope, deposits, refunds, queue>>
  <2>1. "delete" \in PCs /\ \E a \in Apps : Open(s, a, "delete")
    BY <1>s DEF DeleteLoad, PCs
  <2> QED
    BY <1>s, <2>1, OpenChanges
<1>2. TypeOK'
  BY <1>s, <1>1 DEF TypeOK
<1>3. KnowsItsWork'
  BY <1>s, <1>1, <1>2 DEF KnowsItsWork, OnlySession, Opens
<1>4. StartsOnce'
  BY <1>s, <1>1, <1>2, RowsHaveType DEF StartsOnce, OnlySession, Opens
<1>5. RemembersSigned'
  BY <1>s, <1>1, <1>2 DEF RemembersSigned, OnlySession, Opens
<1>6. SubmittedWasSigned'
  BY <1>s, <1>1, <1>2 DEF SubmittedWasSigned, Submitted, Exists
<1>7. \A d \in Deposits : Cancelling(d)' = Cancelling(d)
  BY <1>s, <1>1 DEF Cancelling, Sessions, OnlySession, Opens
<1>8. RowsAreBacked'
  BY <1>s, <1>1, <1>2, <1>7
     DEF RowsAreBacked, Backed, TypeOK, OnlySession, Opens
<1> QED
  BY <1>2, <1>3, <1>4, <1>5, <1>6, <1>8

LEMMA PayReadPreserves ==
  ASSUME IInv, NEW s \in Admins, PayRead(s)
  PROVE  IInv'
<1> USE DEF IInv
<1>s. s \in Sessions
  BY DEF Sessions
<1>1. /\ At(s, "pay_read")
      /\ ses' \in [Sessions -> Session]
      /\ \/ Ends(s)
         \/ Opens(s, ses[s].app, "pay") /\ apps[ses[s].app].status \in {"pending", "hold", "canceled"}
      /\ UNCHANGED <<apps, envelope, deposits, refunds, queue>>
  <2>1. At(s, "pay_read") /\ ses[s].app \in Apps /\ UNCHANGED <<apps, envelope, deposits, refunds, queue>>
    BY <1>s DEF PayRead, KnowsItsWork
  <2>2. CASE Finish(s)
    BY <1>s, <2>1, <2>2, FinishChanges
  <2>3. CASE /\ Submitted(ses[s].app)
             /\ ses' = [ses EXCEPT ![s].pc = "pay", ![s].row = apps[ses[s].app]]
    <3>1. apps[ses[s].app] \in App /\ "pay" \in PCs
      BY <1>s, <2>1 DEF TypeOK, PCs
    <3>2. apps[ses[s].app].status \in {"pending", "hold", "canceled"}
      BY <1>s, <3>1, <2>3 DEF App, Submitted, Exists, Statuses
    <3>3. ses' \in [Sessions -> Session]
      BY <1>s, <2>3, <3>1 DEF TypeOK, Session
    <3>4. Opens(s, ses[s].app, "pay")
      BY <1>s, <2>3, <3>1 DEF TypeOK, Opens, OnlySession
    <3> QED
      BY <1>s, <2>1, <3>2, <3>3, <3>4
  <2> QED
    BY <1>s, <2>2, <2>3 DEF PayRead
<1>2. TypeOK'
  BY <1>s, <1>1 DEF TypeOK
<1>3. KnowsItsWork'
  BY <1>s, <1>1, <1>2 DEF KnowsItsWork, OnlySession, Ends, Opens, Idle
<1>4. StartsOnce'
  BY <1>s, <1>1, <1>2, RowsHaveType
     DEF StartsOnce, OnlySession, Ends, Opens, Idle
<1>5. RemembersSigned'
  BY <1>s, <1>1, <1>2 DEF RemembersSigned, OnlySession, Ends, Opens, Idle
<1>6. SubmittedWasSigned'
  BY <1>s, <1>1, <1>2 DEF SubmittedWasSigned, Submitted, Exists
<1>7. \A d \in Deposits : Cancelling(d)' = Cancelling(d)
  BY <1>s, <1>1 DEF Cancelling, Sessions, OnlySession, Ends, Opens, Idle
<1>8. RowsAreBacked'
  BY <1>s, <1>1, <1>2, <1>7
     DEF RowsAreBacked, Backed, TypeOK, KnowsItsWork, OnlySession, Ends, Opens,
         Idle
<1> QED
  BY <1>2, <1>3, <1>4, <1>5, <1>6, <1>8

LEMMA PaySavePreserves ==
  ASSUME IInv, NEW s \in Admins, PaySave(s)
  PROVE  IInv'
<1> USE DEF IInv
<1>s. s \in Sessions
  BY DEF Sessions
<1>1. /\ At(s, "pay")
      /\ ses' \in [Sessions -> Session] /\ Ends(s)
      /\ apps' \in [Apps -> App] /\ OnlyApp(ses[s].app)
      /\ deposits \subseteq deposits' /\ deposits' \subseteq Deposits
      /\ \/ UNCHANGED apps
         \/ apps'[ses[s].app].status = "hold" /\ apps'[ses[s].app].deposit \in deposits'
      /\ UNCHANGED <<envelope, refunds, queue>>
  <2>1. /\ At(s, "pay") /\ ses[s].app \in Apps /\ ses[s].row \in App
        /\ UNCHANGED <<envelope, refunds, queue>> /\ Finish(s)
    BY <1>s DEF PaySave, KnowsItsWork, TypeOK, Session
  <2>2. CASE UNCHANGED <<deposits, apps>>
    BY <1>s, <2>1, <2>2, FinishChanges DEF TypeOK, OnlyApp
  <2>3. ASSUME NEW d \in Deposits, deposits' = deposits \union {d},
               apps' = [apps EXCEPT ![ses[s].app] =
                         [ses[s].row EXCEPT !.deposit = d, !.status = "hold",
                                            !.amount = AmountOf[d]]]
        PROVE  /\ apps' \in [Apps -> App] /\ OnlyApp(ses[s].app)
               /\ deposits \subseteq deposits' /\ deposits' \subseteq Deposits
               /\ apps'[ses[s].app].status = "hold"
               /\ apps'[ses[s].app].deposit \in deposits'
    <3> DEFINE row == [ses[s].row EXCEPT !.deposit = d, !.status = "hold",
                                         !.amount = AmountOf[d]]
    <3>1. row \in App /\ row.status = "hold" /\ row.deposit = d
      BY <1>s, <2>1, AmountsAssumption DEF App, Statuses
    <3> HIDE DEF row
    <3>2. apps' = [apps EXCEPT ![ses[s].app] = row]
      BY <1>s, <2>3 DEF row
    <3> QED
      BY <1>s, <2>1, <2>3, <3>1, <3>2 DEF TypeOK, OnlyApp
  <2> QED
    BY <1>s, <2>1, <2>2, <2>3, FinishChanges DEF PaySave
<1>2. TypeOK'
  BY <1>s, <1>1 DEF TypeOK
<1>3. KnowsItsWork'
  BY <1>s, <1>1, <1>2 DEF KnowsItsWork, OnlySession, Ends, Idle
<1>4. StartsOnce'
  BY <1>s, <1>1, <1>2, RowsHaveType
     DEF StartsOnce, KnowsItsWork, OnlySession, OnlyApp, Ends, Idle
<1>5. RemembersSigned'
  BY <1>s, <1>1, <1>2 DEF RemembersSigned, OnlySession, Ends, Idle
<1>6. SubmittedWasSigned'
  BY <1>s, <1>1, <1>2
     DEF SubmittedWasSigned, RemembersSigned, Submitted, Exists, OnlyApp
<1>7. \A d \in Deposits : Cancelling(d)' = Cancelling(d)
  BY <1>s, <1>1 DEF Cancelling, Sessions, OnlySession, Ends, Idle
<1>8. RowsAreBacked'
  BY <1>s, <1>1, <1>2, <1>7
     DEF RowsAreBacked, Backed, OnlySession, OnlyApp, Ends, Idle
<1> QED
  BY <1>2, <1>3, <1>4, <1>5, <1>6, <1>8

LEMMA EditSavePreserves ==
  ASSUME IInv, NEW s \in Admins, EditSave(s)
  PROVE  IInv'
<1> USE DEF IInv
<1>s. s \in Sessions
  BY DEF Sessions
<1>1. /\ At(s, "edit")
      /\ ses' \in [Sessions -> Session] /\ Ends(s)
      /\ apps' \in [Apps -> App] /\ OnlyApp(ses[s].app)
      /\ apps'[ses[s].app].status = ses[s].row.status
      /\ apps'[ses[s].app].deposit = ses[s].row.deposit
      /\ UNCHANGED <<envelope, deposits, refunds, queue>>
  <2>1. At(s, "edit") /\ ses[s].app \in Apps /\ ses[s].row \in App
    BY <1>s DEF EditSave, KnowsItsWork, TypeOK, Session
  <2>2. PICK amount \in Amounts :
          apps' = [apps EXCEPT ![ses[s].app] = [ses[s].row EXCEPT !.amount = amount]]
    BY DEF EditSave
  <2> DEFINE row == [ses[s].row EXCEPT !.amount = amount]
  <2>3. row \in App /\ row.status = ses[s].row.status /\ row.deposit = ses[s].row.deposit
    BY <2>1 DEF App
  <2> HIDE DEF row
  <2>4. apps' = [apps EXCEPT ![ses[s].app] = row]
    BY <2>2 DEF row
  <2>5. /\ apps' \in [Apps -> App] /\ OnlyApp(ses[s].app)
        /\ apps'[ses[s].app] = row
    BY <2>1, <2>3, <2>4 DEF TypeOK, OnlyApp
  <2> QED
    BY <1>s, <2>1, <2>3, <2>5, FinishChanges DEF EditSave
<1>2. TypeOK'
  BY <1>s, <1>1 DEF TypeOK
<1>3. KnowsItsWork'
  BY <1>s, <1>1, <1>2 DEF KnowsItsWork, OnlySession, Ends, Idle
<1>4. StartsOnce'
  BY <1>s, <1>1, <1>2, RowsHaveType
     DEF StartsOnce, KnowsItsWork, OnlySession, OnlyApp, Ends, Idle
<1>5. RemembersSigned'
  BY <1>s, <1>1, <1>2 DEF RemembersSigned, OnlySession, Ends, Idle
<1>6. SubmittedWasSigned'
  BY <1>s, <1>1, <1>2
     DEF SubmittedWasSigned, RemembersSigned, Submitted, Exists, OnlyApp
<1>7. \A d \in Deposits : Cancelling(d)' = Cancelling(d)
  BY <1>s, <1>1 DEF Cancelling, Sessions, OnlySession, Ends, Idle
<1>8. RowsAreBacked'
  BY <1>s, <1>1, <1>2, <1>7
     DEF RowsAreBacked, Backed, TypeOK, OnlySession, OnlyApp, Ends, Idle
<1> QED
  BY <1>2, <1>3, <1>4, <1>5, <1>6, <1>8

LEMMA DeleteSavePreserves ==
  ASSUME IInv, NEW s \in Admins, DeleteSave(s)
  PROVE  IInv'
<1> USE DEF IInv
<1>s. s \in Sessions
  BY DEF Sessions
<1>1. /\ At(s, "delete")
      /\ ses' \in [Sessions -> Session] /\ Ends(s)
      /\ apps' \in [Apps -> App] /\ OnlyApp(ses[s].app)
      /\ apps'[ses[s].app].status = "deleted"
      /\ UNCHANGED <<envelope, deposits, refunds, queue>>
  <2>1. At(s, "delete") /\ ses[s].app \in Apps /\ apps[ses[s].app] \in App
    BY <1>s DEF DeleteSave, KnowsItsWork, TypeOK
  <2> QED
    BY <1>s, <2>1, FinishChanges DEF DeleteSave, TypeOK, OnlyApp, App, Statuses
<1>2. TypeOK'
  BY <1>s, <1>1 DEF TypeOK
<1>3. KnowsItsWork'
  BY <1>s, <1>1, <1>2 DEF KnowsItsWork, OnlySession, Ends, Idle
<1>4. StartsOnce'
  BY <1>s, <1>1, <1>2, RowsHaveType
     DEF StartsOnce, KnowsItsWork, OnlySession, OnlyApp, Ends, Idle
<1>5. RemembersSigned'
  BY <1>s, <1>1, <1>2 DEF RemembersSigned, OnlySession, Ends, Idle
<1>6. SubmittedWasSigned'
  BY <1>s, <1>1, <1>2 DEF SubmittedWasSigned, Submitted, Exists, OnlyApp
<1>7. \A d \in Deposits : Cancelling(d)' = Cancelling(d)
  BY <1>s, <1>1 DEF Cancelling, Sessions, OnlySession, Ends, Idle
<1>8. RowsAreBacked'
  BY <1>s, <1>1, <1>2, <1>7
     DEF RowsAreBacked, Backed, TypeOK, OnlySession, OnlyApp, Ends, Idle
<1> QED
  BY <1>2, <1>3, <1>4, <1>5, <1>6, <1>8

LEMMA RefundLoadPreserves ==
  ASSUME IInv, NEW s \in Admins, RefundLoad(s)
  PROVE  IInv'
<1> USE DEF IInv
<1>s. s \in Sessions
  BY DEF Sessions
<1>1. /\ At(s, "idle")
      /\ ses' \in [Sessions -> Session] /\ OnlySession(s)
      /\ ses'[s].pc = "refund" /\ ses'[s].deposit \in deposits
      /\ UNCHANGED <<apps, envelope, deposits, refunds, queue>>
  <2>1. PICK d \in deposits :
          /\ At(s, "idle")
          /\ ses' = [ses EXCEPT ![s] = [Idle EXCEPT !.pc = "refund", !.deposit = d]]
          /\ UNCHANGED <<apps, envelope, deposits, refunds, queue>>
    BY <1>s DEF RefundLoad
  <2> DEFINE new == [Idle EXCEPT !.pc = "refund", !.deposit = d]
  <2>2. new \in Session /\ new.pc = "refund" /\ new.deposit = d
    BY <1>s, RowsHaveType DEF Session, PCs, TypeOK
  <2> HIDE DEF new
  <2>3. ses' = [ses EXCEPT ![s] = new]
    BY <1>s, <2>1 DEF new
  <2> QED
    BY <1>s, <2>1, <2>2, <2>3 DEF TypeOK, OnlySession
<1>2. TypeOK'
  BY <1>s, <1>1 DEF TypeOK
<1>3. KnowsItsWork'
  BY <1>s, <1>1, <1>2 DEF KnowsItsWork, OnlySession
<1>4. StartsOnce'
  BY <1>s, <1>1, <1>2, RowsHaveType DEF StartsOnce, OnlySession
<1>5. RemembersSigned'
  BY <1>s, <1>1, <1>2 DEF RemembersSigned, OnlySession
<1>6. SubmittedWasSigned'
  BY <1>s, <1>1, <1>2 DEF SubmittedWasSigned, Submitted, Exists
<1>7. \A d \in Deposits : Cancelling(d)' = Cancelling(d)
  BY <1>s, <1>1 DEF Cancelling, Sessions, OnlySession
<1>8. RowsAreBacked'
  BY <1>s, <1>1, <1>2, <1>7 DEF RowsAreBacked, Backed, TypeOK, OnlySession
<1> QED
  BY <1>2, <1>3, <1>4, <1>5, <1>6, <1>8

LEMMA RefundSavePreserves ==
  ASSUME IInv, NEW s \in Admins, RefundSave(s)
  PROVE  IInv'
<1> USE DEF IInv
<1>s. s \in Sessions
  BY DEF Sessions
<1>1. /\ At(s, "refund")
      /\ ses' \in [Sessions -> Session]
      /\ refunds' \in [Deposits -> Nat]
      /\ \/ /\ MovesTo(s, "cancel_apps")
            /\ refunds' = [refunds EXCEPT ![ses[s].deposit] = @ + 1]
         \/ Ends(s) /\ UNCHANGED refunds
      /\ UNCHANGED <<apps, envelope, deposits, queue>>
  <2>1. At(s, "refund") /\ ses[s].deposit \in Deposits
    BY <1>s DEF RefundSave, TypeOK, RowsAreBacked
  <2> QED
    BY <1>s, <2>1, FinishChanges, GoToChanges DEF RefundSave, TypeOK, PCs
<1>2. TypeOK'
  BY <1>s, <1>1 DEF TypeOK
<1>3. KnowsItsWork'
  BY <1>s, <1>1, <1>2 DEF KnowsItsWork, OnlySession, MovesTo, Ends, Idle
<1>4. StartsOnce'
  BY <1>s, <1>1, <1>2, RowsHaveType
     DEF StartsOnce, OnlySession, MovesTo, Ends, Idle
<1>5. RemembersSigned'
  BY <1>s, <1>1, <1>2 DEF RemembersSigned, OnlySession, MovesTo, Ends, Idle
<1>6. SubmittedWasSigned'
  BY <1>s, <1>1, <1>2 DEF SubmittedWasSigned, Submitted, Exists
<1>8. RowsAreBacked'
  <2>1. CASE Ends(s) /\ UNCHANGED refunds
    <3>1. \A d \in Deposits : Cancelling(d)' = Cancelling(d)
      BY <1>s, <1>1, <2>1 DEF Cancelling, Sessions, Ends, OnlySession, Idle
    <3> QED
      BY <1>s, <1>1, <2>1, <3>1
         DEF RowsAreBacked, Backed, TypeOK, Ends, OnlySession, Idle
  <2>2. CASE /\ MovesTo(s, "cancel_apps")
             /\ refunds' = [refunds EXCEPT ![ses[s].deposit] = @ + 1]
    <3>1. PICK dep \in Deposits :
            dep = ses[s].deposit /\ dep \in deposits /\ s \notin Cancelling(dep)
      BY <1>s, <1>1 DEF Cancelling, RowsAreBacked, TypeOK
    <3>2. \A d \in Deposits : Cancelling(d)' = IF d = dep THEN Cancelling(d) \union {s} ELSE Cancelling(d)
      BY <1>s, <1>1, <2>2, <3>1 DEF Cancelling, Sessions, MovesTo, OnlySession
    <3>3. Cardinality(Cancelling(dep)') = Cardinality(Cancelling(dep)) + 1
      BY <3>1, <3>2, CancellingIsFinite, FS_AddElement
    <3>4. \A d \in Deposits : /\ Cardinality(Cancelling(d)) \in Nat /\ Cardinality(Cancelling(d)') \in Nat
                             /\ refunds[d] \in Nat /\ refunds'[d] \in Nat
                             /\ refunds'[d] - Cardinality(Cancelling(d)') = refunds[d] - Cardinality(Cancelling(d))
      BY <1>2, <2>2, <3>1, <3>2, <3>3, CancellingIsFinite DEF TypeOK
    <3>5. \A d \in Deposits :
            /\ refunds[d] > Cardinality(Cancelling(d)) => refunds'[d] > Cardinality(Cancelling(d)')
            /\ refunds[d] >= Cardinality(Cancelling(d)) => refunds'[d] >= Cardinality(Cancelling(d)')
      BY <3>4
    <3> QED
      BY <1>s, <1>1, <2>2, <3>1, <3>5
         DEF RowsAreBacked, Backed, TypeOK, MovesTo, OnlySession
  <2> QED
    BY <1>1, <2>1, <2>2
<1> QED
  BY <1>2, <1>3, <1>4, <1>5, <1>6, <1>8

LEMMA CancelAppsPreserves ==
  ASSUME IInv, NEW s \in Admins, CancelApps(s)
  PROVE  IInv'
<1> USE DEF IInv
<1>s. s \in Sessions
  BY DEF Sessions
<1>1. /\ At(s, "cancel_apps")
      /\ ses' \in [Sessions -> Session] /\ Ends(s)
      /\ apps' \in [Apps -> App]
      /\ \A a \in Apps :
           \/ apps'[a] = apps[a]
           \/ /\ apps[a].status \in {"pending", "hold", "canceled"}
              /\ apps'[a].status = "canceled" /\ apps'[a].deposit = ses[s].deposit
      /\ \/ UNCHANGED refunds
         \/ UNCHANGED apps /\ refunds' = [refunds EXCEPT ![ses[s].deposit] = @ - 1]
      /\ UNCHANGED <<envelope, deposits, queue>>
  <2>1. At(s, "cancel_apps") /\ Finish(s) /\ UNCHANGED <<envelope, deposits, queue>>
    BY <1>s DEF CancelApps
  <2>2. CASE UNCHANGED apps /\ refunds' = [refunds EXCEPT ![ses[s].deposit] = @ - 1]
    BY <1>s, <2>1, <2>2, FinishChanges DEF TypeOK
  <2>3. CASE /\ UNCHANGED refunds
             /\ apps' = [a \in Apps |->
                          IF Submitted(a) /\ apps[a].deposit = ses[s].deposit
                            THEN [apps[a] EXCEPT !.status = "canceled"] ELSE apps[a]]
    <3>1. ASSUME NEW a \in Apps
          PROVE  /\ apps'[a] \in App
                 /\ \/ apps'[a] = apps[a]
                    \/ /\ apps[a].status \in {"pending", "hold", "canceled"}
                       /\ apps'[a].status = "canceled"
                       /\ apps'[a].deposit = ses[s].deposit
      <4>1. apps[a] \in App
        BY <1>s DEF TypeOK
      <4>2. CASE Submitted(a) /\ apps[a].deposit = ses[s].deposit
        BY <1>s, <2>3, <4>1, <4>2 DEF App, Statuses, Submitted, Exists
      <4>3. CASE ~(Submitted(a) /\ apps[a].deposit = ses[s].deposit)
        BY <1>s, <2>3, <4>1, <4>3
      <4> QED
        BY <1>s, <4>2, <4>3
    <3>2. apps' = [a \in Apps |-> apps'[a]]
      BY <1>s, <2>3
    <3> QED
      BY <1>s, <2>1, <2>3, <3>1, <3>2, FinishChanges
  <2> QED
    BY <1>s, <2>2, <2>3 DEF CancelApps
<1>2. TypeOK'
  <2>1. s \in Cancelling(ses[s].deposit) /\ ses[s].deposit \in Deposits
    BY <1>s, <1>1 DEF Cancelling, RowsAreBacked, TypeOK
  <2>2. Cardinality(Cancelling(ses[s].deposit)) > 0
    BY <2>1, CancellingIsFinite, FS_EmptySet
  <2>3. refunds' \in [Deposits -> Nat]
    BY <1>1, <2>1, <2>2, CancellingIsFinite DEF TypeOK, RowsAreBacked
  <2> QED
    BY <1>1, <2>3 DEF TypeOK
<1>3. KnowsItsWork'
  BY <1>s, <1>1, <1>2 DEF KnowsItsWork, OnlySession, Ends, Idle
<1>4. StartsOnce'
  BY <1>s, <1>1, <1>2, RowsHaveType
     DEF StartsOnce, KnowsItsWork, OnlySession, Ends, Idle
<1>5. RemembersSigned'
  BY <1>s, <1>1, <1>2 DEF RemembersSigned, OnlySession, Ends, Idle
<1>6. SubmittedWasSigned'
  BY <1>s, <1>1, <1>2 DEF SubmittedWasSigned, Submitted, Exists
<1>8. RowsAreBacked'
  <2>1. PICK dep \in Deposits :
          dep = ses[s].deposit /\ dep \in deposits /\ s \in Cancelling(dep)
    BY <1>s, <1>1 DEF Cancelling, RowsAreBacked, TypeOK
  <2>2. \A d \in Deposits : Cancelling(d)' = IF d = dep THEN Cancelling(d) \ {s} ELSE Cancelling(d)
    BY <1>s, <1>1, <2>1 DEF Cancelling, Sessions, Ends, OnlySession, Idle
  <2>3. Cardinality(Cancelling(dep)') = Cardinality(Cancelling(dep)) - 1
    BY <2>1, <2>2, CancellingIsFinite, FS_RemoveElement
  <2>4. \A d \in Deposits : refunds'[d] - Cardinality(Cancelling(d)') >= refunds[d] - Cardinality(Cancelling(d))
    BY <1>1, <2>1, <2>2, <2>3, CancellingIsFinite DEF TypeOK
  <2>5. (\A a \in Apps : apps'[a] = apps[a]) \/ refunds'[dep] > Cardinality(Cancelling(dep)')
    BY <1>1, <2>1, <2>3, CancellingIsFinite DEF RowsAreBacked, TypeOK
  <2>6. \A d \in Deposits : /\ Cardinality(Cancelling(d)) \in Nat /\ Cardinality(Cancelling(d)') \in Nat
                           /\ refunds[d] \in Nat /\ refunds'[d] \in Nat
    BY <1>2, CancellingIsFinite DEF TypeOK
  <2>7. \A d \in Deposits : refunds[d] > Cardinality(Cancelling(d)) => refunds'[d] > Cardinality(Cancelling(d)')
    BY <2>4, <2>6
  <2>8. \A a \in Apps : Backed(apps[a])'
    <3> SUFFICES ASSUME NEW a \in Apps PROVE Backed(apps[a])'
      OBVIOUS
    <3>1. CASE apps'[a] = apps[a]
      BY <1>1, <2>7, <3>1 DEF RowsAreBacked, Backed, TypeOK
    <3>2. CASE apps'[a] # apps[a] /\ apps'[a].status = "canceled" /\ apps'[a].deposit = dep
      BY <1>1, <2>1, <2>5, <3>2 DEF Backed
    <3> QED
      BY <1>1, <2>1, <3>1, <3>2
  <2>9. \A t \in Sessions : (ses[t].pc \in HoldingRow)' => Backed(ses[t].row)'
    BY <1>s, <1>1, <2>7
       DEF RowsAreBacked, Backed, TypeOK, Ends, OnlySession, Idle
  <2>10. \A t \in Sessions :
           ses'[t].pc \in {"refund", "cancel_apps"} => ses'[t].deposit \in deposits'
    BY <1>s, <1>1 DEF RowsAreBacked, Ends, OnlySession, Idle
  <2>11. \A d \in Deposits : refunds'[d] >= Cardinality(Cancelling(d)')
    BY <2>4, <2>6 DEF RowsAreBacked
  <2> QED
    BY <2>8, <2>9, <2>10, <2>11 DEF RowsAreBacked
<1> QED
  BY <1>2, <1>3, <1>4, <1>5, <1>6, <1>8

LEMMA EnvelopeMovesPreserves ==
  ASSUME IInv, NEW a \in Apps, EnvelopeMoves(a)
  PROVE  IInv'
<1> USE DEF IInv
<1>1. /\ envelope[a] = "sent"
      /\ envelope' \in [Apps -> EnvelopeStatuses]
      /\ \A b \in Apps \ {a} : envelope'[b] = envelope[b]
      /\ UNCHANGED <<apps, deposits, refunds, queue, ses>>
  BY DEF EnvelopeMoves, TypeOK, EnvelopeStatuses
<1>2. TypeOK'
  BY <1>1 DEF TypeOK
<1>3. KnowsItsWork'
  BY <1>1, <1>2 DEF KnowsItsWork
<1>4. StartsOnce'
  BY <1>1, <1>2, RowsHaveType DEF StartsOnce, KnowsItsWork
<1>5. RemembersSigned'
  BY <1>1, <1>2 DEF RemembersSigned, KnowsItsWork
<1>6. SubmittedWasSigned'
  BY <1>1, <1>2 DEF SubmittedWasSigned, Submitted, Exists
<1>7. \A d \in Deposits : Cancelling(d)' = Cancelling(d)
  BY <1>1 DEF Cancelling, Sessions
<1>8. RowsAreBacked'
  BY <1>1, <1>2, <1>7 DEF RowsAreBacked, Backed, TypeOK
<1> QED
  BY <1>2, <1>3, <1>4, <1>5, <1>6, <1>8

LEMMA CrashPreserves ==
  ASSUME IInv, NEW s \in Sessions, Crash(s)
  PROVE  IInv'
<1> USE DEF IInv
<1>1. /\ ses' \in [Sessions -> Session] /\ Ends(s)
      /\ UNCHANGED <<apps, envelope, deposits, refunds, queue>>
  BY FinishChanges DEF Crash
<1>2. TypeOK'
  BY <1>1 DEF TypeOK
<1>3. KnowsItsWork'
  BY <1>1, <1>2 DEF KnowsItsWork, OnlySession, Ends, Idle
<1>4. StartsOnce'
  BY <1>1, <1>2, RowsHaveType DEF StartsOnce, OnlySession, Ends, Idle
<1>5. RemembersSigned'
  BY <1>1, <1>2 DEF RemembersSigned, OnlySession, Ends, Idle
<1>6. SubmittedWasSigned'
  BY <1>1, <1>2 DEF SubmittedWasSigned, Submitted, Exists
<1>8. RowsAreBacked'
  <2>1. \A d \in Deposits : Cancelling(d)' = Cancelling(d) \ {s}
    BY <1>1 DEF Cancelling, Sessions, Ends, OnlySession, Idle
  <2>2. \A d \in Deposits : /\ Cardinality(Cancelling(d)') \in Nat
                           /\ Cardinality(Cancelling(d)') =< Cardinality(Cancelling(d))
    <3> SUFFICES ASSUME NEW d \in Deposits
                 PROVE  Cardinality(Cancelling(d)') =< Cardinality(Cancelling(d))
      BY CancellingIsFinite
    <3>1. IsFiniteSet(Cancelling(d)) /\ Cardinality(Cancelling(d)) \in Nat
      BY CancellingIsFinite
    <3>2. \/ Cardinality(Cancelling(d) \ {s}) = Cardinality(Cancelling(d)) - 1
          \/ Cardinality(Cancelling(d) \ {s}) = Cardinality(Cancelling(d))
      BY <3>1, FS_RemoveElement
    <3> QED
      BY <2>1, <3>1, <3>2
  <2>3. \A d \in Deposits : refunds[d] \in Nat /\ Cardinality(Cancelling(d)) \in Nat
    BY CancellingIsFinite DEF TypeOK
  <2>4. \A d \in Deposits :
          /\ refunds[d] > Cardinality(Cancelling(d)) => refunds'[d] > Cardinality(Cancelling(d)')
          /\ refunds[d] >= Cardinality(Cancelling(d)) => refunds'[d] >= Cardinality(Cancelling(d)')
    BY <1>1, <2>2, <2>3
  <2> QED
    BY <1>1, <2>4 DEF RowsAreBacked, Backed, TypeOK, Ends, OnlySession, Idle
<1> QED
  BY <1>2, <1>3, <1>4, <1>5, <1>6, <1>8

-----------------------------------------------------------------------------
LEMMA StepPreserves == IInv /\ Next => IInv'
BY CheckExistingPreserves, InsertDraftPreserves, EnqueueStartPreserves,
   FinishSigningPreserves, StartLoadPreserves, FinishLoadPreserves,
   StartSavePreserves, PreparePreserves, TaskErrorPreserves,
   ValidatingSavePreserves, StartCallPreserves, GetEnvelopePreserves,
   FinishSavePreserves, NotifyPreserves, PayLoadPreserves, EditLoadPreserves,
   DeleteLoadPreserves, PayReadPreserves, PaySavePreserves, EditSavePreserves,
   DeleteSavePreserves, RefundLoadPreserves, RefundSavePreserves,
   CancelAppsPreserves, EnvelopeMovesPreserves, CrashPreserves
   DEF Next, WebStep, WorkerStep, TaskStep, AdminStep

LEMMA StutterPreserves == IInv /\ UNCHANGED vars => IInv'
BY DEF vars, IInv, TypeOK, KnowsItsWork, StartsOnce, RemembersSigned,
       SubmittedWasSigned, Submitted, Exists, RowsAreBacked, Backed, Cancelling

-----------------------------------------------------------------------------
(* Theorems.                                                               *)

(* The inductive invariant holds: in particular a start task is never run  *)
(* twice, and a refund that is taken back was the admin's own.             *)
THEOREM InductiveInvariant == Spec => []IInv
<1>1. Init => IInv
  BY InitInvariant
<1>2. IInv /\ [Next]_vars => IInv'
  BY StepPreserves, StutterPreserves
<1> QED
  BY <1>1, <1>2, PTL DEF Spec

(* Every variable keeps its type; a deposit never has fewer than no        *)
(* refunds although each admin takes back the refund of a failed update.   *)
THEOREM TypeCorrectness == Spec => []TypeOK
<1>1. IInv => TypeOK
  BY DEF IInv
<1> QED
  BY <1>1, InductiveInvariant, PTL

(* Whatever tasks run twice or die and whatever stale rows are saved, only *)
(* an application with a completed envelope is more than a draft.          *)
THEOREM SubmittedApplicationsWereSigned == Spec => []SubmittedWasSigned
<1>1. IInv => SubmittedWasSigned
  BY DEF IInv
<1> QED
  BY <1>1, InductiveInvariant, PTL

(* For any number of admins who pay, edit and refund at once: the deposit  *)
(* of a paid application exists and that of a canceled one is refunded.    *)
THEOREM StatusesMatchMoney == Spec => []StatusMatchesMoney
<1>1. IInv => StatusMatchesMoney
  <2>1. ASSUME IInv, NEW a \in Apps, apps[a].status \in {"hold", "canceled"}
        PROVE  /\ apps[a].deposit \in deposits
               /\ apps[a].status = "canceled" => refunds[apps[a].deposit] > 0
    <3>1. Backed(apps[a]) /\ apps[a].deposit \in Deposits
      BY <2>1 DEF IInv, RowsAreBacked, Backed, TypeOK
    <3> QED
      BY <2>1, <3>1, CancellingIsFinite DEF Backed, IInv, TypeOK
  <2> QED
    BY <2>1 DEF StatusMatchesMoney
<1> QED
  BY <1>1, InductiveInvariant, PTL

-----------------------------------------------------------------------------
(* Portfolio: every application on hold or canceled has a deposit of its   *)
(* own, and the amount of that deposit.                                    *)

(* A row that refers to a deposit has its amount.                          *)
Funded(row) ==
  row.deposit # None => row.deposit \in deposits /\ row.amount = AmountOf[row.deposit]

SameMoney(r, q) == r.deposit = q.deposit /\ r.amount = q.amount

(* Two rows, or copies of rows, with one deposit are of one application.   *)
RowsAreFunded ==
  /\ \A a \in Apps : Funded(apps[a])
  /\ \A s \in Sessions : Funded(ses[s].row)
  /\ \A s \in Sessions : At(s, "insert") => ses[s].row.deposit = None
DepositsAreApart ==
  /\ \A a, b \in Apps :
       apps[a].deposit # None /\ apps[a].deposit = apps[b].deposit => a = b
  /\ \A s \in Sessions, a \in Apps :
       ses[s].row.deposit # None /\ ses[s].row.deposit = apps[a].deposit => ses[s].app = a
  /\ \A s, t \in Sessions :
       ses[s].row.deposit # None /\ ses[s].row.deposit = ses[t].row.deposit =>
         ses[s].app = ses[t].app

FInv == RowsAreFunded /\ DepositsAreApart

-----------------------------------------------------------------------------
LEMMA InitFunded == Init => FInv
<1> SUFFICES ASSUME Init PROVE FInv
  OBVIOUS
<1>1. \A s \in Sessions : ses[s] = Idle
  BY DEF Init
<1>2. \A a \in Apps : apps[a] = NoApp
  BY DEF Init
<1>3. NoApp.deposit = None /\ Idle.row = NoApp /\ Idle.pc = "idle"
  BY DEF NoApp, Idle
<1> QED
  BY <1>1, <1>2, <1>3 DEF FInv, RowsAreFunded, DepositsAreApart, Funded

(* What a session may do to its copy: keep it, drop it, or read a row.     *)
Keeps(s) == ses'[s].row = ses[s].row /\ ses'[s].app = ses[s].app /\ ses'[s].pc # "insert"
Drops(s) == ses'[s].row.deposit = None
Reads(s) == \E a \in Apps : ses'[s].row = apps[a] /\ ses'[s].app = a /\ ses'[s].pc # "insert"
Same(s) == ses'[s] = ses[s]

(* Steps that change no money of any row.                                  *)
LEMMA ReadingKeepsFunded ==
  ASSUME FInv, UNCHANGED deposits,
         \A a \in Apps : SameMoney(apps'[a], apps[a]),
         \A s \in Sessions : Same(s) \/ Keeps(s) \/ Drops(s) \/ Reads(s)
  PROVE  FInv'
<1>1. RowsAreFunded'
  BY DEF FInv, RowsAreFunded, Funded, SameMoney, Same, Keeps, Drops, Reads
<1>2. ASSUME NEW s \in Sessions, NEW a \in Apps,
             ses'[s].row.deposit # None, ses'[s].row.deposit = apps[a].deposit
      PROVE  ses'[s].app = a
  BY <1>2 DEF FInv, DepositsAreApart, Same, Keeps, Drops, Reads
<1>3. ASSUME NEW s \in Sessions, NEW t \in Sessions,
             ses'[s].row.deposit # None, ses'[s].row.deposit = ses'[t].row.deposit
      PROVE  ses'[s].app = ses'[t].app
  <2>1. CASE Reads(s)
    BY <1>2, <1>3, <2>1 DEF Reads
  <2>2. CASE Reads(t)
    BY <1>2, <1>3, <2>2 DEF Reads
  <2>3. CASE (Same(s) \/ Keeps(s)) /\ (Same(t) \/ Keeps(t))
    BY <1>3, <2>3 DEF FInv, DepositsAreApart, Same, Keeps
  <2> QED
    BY <1>3, <2>1, <2>2, <2>3 DEF Drops
<1>4. DepositsAreApart'
  BY <1>2, <1>3 DEF DepositsAreApart, FInv, SameMoney
<1> QED
  BY <1>1, <1>4 DEF FInv

(* Steps that save the money a session has read.                           *)
LEMMA SavingKeepsFunded ==
  ASSUME FInv, UNCHANGED deposits, NEW s \in Sessions, ses[s].app \in Apps,
         OnlyApp(ses[s].app), SameMoney(apps'[ses[s].app], ses[s].row),
         \A t \in Sessions : Same(t) \/ Keeps(t) \/ Drops(t)
  PROVE  FInv'
<1>1. RowsAreFunded'
  BY DEF FInv, RowsAreFunded, Funded, SameMoney, Same, Keeps, Drops, OnlyApp
<1>2. DepositsAreApart'
  BY DEF FInv, DepositsAreApart, SameMoney, Same, Keeps, Drops, OnlyApp
<1> QED
  BY <1>1, <1>2 DEF FInv

-----------------------------------------------------------------------------
LEMMA FinishDrops ==
  ASSUME TypeOK, NEW s \in Sessions, Finish(s)
  PROVE  \A t \in Sessions : Same(t) \/ Drops(t)
BY FinishChanges DEF Ends, OnlySession, Same, Drops, Idle, NoApp

LEMMA GoToKeeps ==
  ASSUME TypeOK, NEW s \in Sessions, NEW pc \in PCs \ {"insert"}, GoTo(s, pc)
  PROVE  \A t \in Sessions : Same(t) \/ Keeps(t)
BY GoToChanges DEF MovesTo, OnlySession, Same, Keeps

LEMMA WriteKeepsMoney ==
  ASSUME TypeOK, NEW w \in Sessions, ses[w].app \in Apps, NEW row \in App,
         Write(w, row), SameMoney(row, apps[ses[w].app])
  PROVE  \A a \in Apps : SameMoney(apps'[a], apps[a])
BY WriteChanges DEF OnlyApp, SameMoney

LEMMA WebKeepsFunded ==
  ASSUME IInv, FInv, NEW s \in Web, WebStep(s)
  PROVE  FInv'
<1> USE DEF IInv
<1>s. s \in Sessions
  BY DEF Sessions
<1>t. ses[s] \in Session
  BY <1>s DEF TypeOK
<1>1. CASE CheckExisting(s)
  <2>1. PICK u \in Users :
          ses' = [ses EXCEPT ![s] = [Idle EXCEPT !.pc = "insert", !.user = u]]
    BY <1>1 DEF CheckExisting
  <2>2. \A t \in Sessions : Same(t) \/ Drops(t)
    BY <1>s, <2>1 DEF TypeOK, Same, Drops, Idle, NoApp
  <2> QED
    BY <1>1, <2>2, ReadingKeepsFunded DEF CheckExisting, SameMoney
<1>2. CASE InsertDraft(s)
  <2>1. PICK a \in Apps, amount \in Amounts :
          /\ apps' = [apps EXCEPT ![a] =
                        [NoApp EXCEPT !.user = ses[s].user, !.status = "draft",
                                      !.amount = amount]]
          /\ ses' = [ses EXCEPT ![s].pc = "enqueue", ![s].app = a]
          /\ At(s, "insert") /\ UNCHANGED deposits
    BY <1>2 DEF InsertDraft
  <2>2. OnlyApp(a) /\ apps'[a].deposit = None
    BY <2>1 DEF TypeOK, OnlyApp, NoApp
  <2>3. \A t \in Sessions : Same(t) \/ Drops(t)
    BY <1>s, <1>t, <2>1 DEF TypeOK, Session, Same, Drops, FInv, RowsAreFunded
  <2>4. UNCHANGED deposits /\ a \in Apps
    BY <2>1
  <2>5. RowsAreFunded'
    BY <2>2, <2>3, <2>4 DEF RowsAreFunded, FInv, Funded, OnlyApp, Same, Drops
  <2>6. DepositsAreApart'
    BY <2>2, <2>3, <2>4 DEF DepositsAreApart, FInv, OnlyApp, Same, Drops
  <2> QED
    BY <2>5, <2>6 DEF FInv
<1>3. CASE EnqueueStart(s)
  BY <1>s, <1>3, FinishDrops, ReadingKeepsFunded DEF EnqueueStart, SameMoney
<1>4. CASE FinishSigning(s)
  BY <1>4, ReadingKeepsFunded DEF FinishSigning, SameMoney, Same
<1> QED
  BY <1>1, <1>2, <1>3, <1>4 DEF WebStep

LEMMA TakeKeepsFunded ==
  ASSUME IInv, FInv, NEW w \in Workers, NEW task \in {"start", "finish"},
         NEW agreement, NEW pc \in PCs \ {"insert"}, Take(w, task, agreement, pc)
  PROVE  FInv'
<1>1. w \in Sessions /\ TypeOK
  BY DEF Sessions, IInv
<1>2. PICK a \in Apps : /\ Opens(w, a, pc) \/ UNCHANGED ses
                        /\ UNCHANGED <<apps, deposits>>
  BY <1>1, TakeChanges
<1>3. \A t \in Sessions : Same(t) \/ Reads(t)
  BY <1>1, <1>2 DEF Opens, OnlySession, Same, Reads
<1> QED
  BY <1>2, <1>3, ReadingKeepsFunded DEF SameMoney

LEMMA WorkerKeepsFunded ==
  ASSUME IInv, FInv, NEW w \in Workers, WorkerStep(w)
  PROVE  FInv'
<1> USE DEF IInv
<1>s. w \in Sessions
  BY DEF Sessions
<1> DEFINE a == ses[w].app
<1>1. CASE StartLoad(w) \/ FinishLoad(w)
  BY <1>1, TakeKeepsFunded DEF StartLoad, FinishLoad, PCs
<1>2. CASE StartCall(w) \/ GetEnvelope(w) \/ Notify(w)
  <2>1. UNCHANGED <<apps, deposits>>
    BY <1>2 DEF StartCall, GetEnvelope, Notify
  <2>2. ASSUME NEW seen,
               ses' = [ses EXCEPT ![w].pc = "finish_save", ![w].seen = seen]
        PROVE  \A t \in Sessions : Same(t) \/ Keeps(t)
    BY <1>s, <2>2 DEF TypeOK, Session, Same, Keeps
  <2>3. \A t \in Sessions : Same(t) \/ Keeps(t) \/ Drops(t)
    BY <1>s, <1>2, <2>2, GoToKeeps, FinishDrops
       DEF StartCall, GetEnvelope, Notify, CallFails, CreateRecipientView, PCs
  <2> QED
    BY <2>1, <2>3, ReadingKeepsFunded DEF SameMoney
<1>3. CASE StartSave(w)
  <2>1. a \in Apps /\ ses[w].row \in App
    BY <1>s, <1>3 DEF StartSave, KnowsItsWork, TypeOK, Session
  <2> DEFINE row == [ses[w].row EXCEPT !.agreement = "preparing"]
  <2>2. row \in App /\ SameMoney(row, ses[w].row)
    BY <2>1 DEF App, AgreementStatuses, SameMoney
  <2>3. \A t \in Sessions : Same(t) \/ Keeps(t)
    BY <1>s, <1>3, GoToKeeps DEF StartSave, PCs
  <2>4. Write(w, row) /\ UNCHANGED deposits
    BY <1>3 DEF StartSave
  <2> HIDE DEF row
  <2>5. /\ OnlyApp(a)
        /\ apps'[a] = row \/ UNCHANGED apps
    BY <1>s, <2>1, <2>2, <2>4, WriteChanges
  <2>6. CASE UNCHANGED apps
    BY <2>3, <2>4, <2>6, ReadingKeepsFunded DEF SameMoney
  <2>7. CASE apps'[a] = row
    BY <1>s, <2>1, <2>2, <2>3, <2>4, <2>5, <2>7, SavingKeepsFunded
  <2> QED
    BY <2>5, <2>6, <2>7
<1>4. CASE Prepare(w) \/ ValidatingSave(w) \/ FinishSave(w) \/ TaskError(w)
  <2>1. a \in Apps /\ apps[a] \in App
    BY <1>s, <1>4
       DEF Prepare, ValidatingSave, FinishSave, TaskError, KnowsItsWork, TypeOK
  <2>2. ASSUME NEW agreement \in AgreementStatuses, NEW status \in Statuses,
               \/ Write(w, [Row(w) EXCEPT !.agreement = agreement])
               \/ Write(w, [Row(w) EXCEPT !.agreement = agreement, !.status = status])
        PROVE  \A b \in Apps : SameMoney(apps'[b], apps[b])
    <3> DEFINE r == [apps[a] EXCEPT !.agreement = agreement]
               q == [apps[a] EXCEPT !.agreement = agreement, !.status = status]
    <3>1. /\ r \in App /\ SameMoney(r, apps[a])
          /\ q \in App /\ SameMoney(q, apps[a])
      BY <2>1 DEF App, SameMoney
    <3>2. Write(w, r) \/ Write(w, q)
      BY <2>2 DEF Row
    <3> HIDE DEF r, q
    <3> QED
      BY <1>s, <2>1, <3>1, <3>2, WriteKeepsMoney
  <2>3. \A b \in Apps : SameMoney(apps'[b], apps[b])
    BY <1>4, <2>2
       DEF Prepare, ValidatingSave, FinishSave, TaskError, AgreementStatuses, Statuses,
           SameMoney
  <2>4. \A t \in Sessions : Same(t) \/ Keeps(t) \/ Drops(t)
    BY <1>s, <1>4, GoToKeeps, FinishDrops
       DEF Prepare, ValidatingSave, FinishSave, TaskError, PCs
  <2> QED
    BY <1>4, <2>3, <2>4, ReadingKeepsFunded
       DEF Prepare, ValidatingSave, FinishSave, TaskError
<1> QED
  BY <1>1, <1>2, <1>3, <1>4 DEF WorkerStep, TaskStep

-----------------------------------------------------------------------------
LEMMA OpenKeepsFunded ==
  ASSUME IInv, FInv, NEW s \in Admins, NEW a \in Apps, NEW pc \in PCs \ {"insert"},
         Open(s, a, pc)
  PROVE  FInv'
<1>1. s \in Sessions /\ TypeOK
  BY DEF Sessions, IInv
<1>2. Opens(s, a, pc) /\ UNCHANGED <<apps, deposits>>
  BY <1>1, OpenChanges
<1>3. \A t \in Sessions : Same(t) \/ Reads(t)
  BY <1>1, <1>2 DEF Opens, OnlySession, Same, Reads
<1> QED
  BY <1>2, <1>3, ReadingKeepsFunded DEF SameMoney

(* A payment links the application with a deposit nobody has heard of.     *)
LEMMA PaySaveKeepsFunded ==
  ASSUME IInv, FInv, NEW s \in Admins, PaySave(s)
  PROVE  FInv'
<1> USE DEF IInv
<1>1. /\ s \in Sessions /\ At(s, "pay") /\ ses[s].app \in Apps /\ ses[s].row \in App
      /\ \A t \in Sessions : Same(t) \/ Drops(t)
  BY FinishDrops DEF Sessions, PaySave, KnowsItsWork, TypeOK, Session
<1>2. CASE UNCHANGED <<deposits, apps>>
  BY <1>1, <1>2, ReadingKeepsFunded DEF SameMoney
<1>3. ASSUME NEW d \in Deposits \ deposits, deposits' = deposits \union {d},
             apps' = [apps EXCEPT ![ses[s].app] =
                       [ses[s].row EXCEPT !.deposit = d, !.status = "hold",
                                          !.amount = AmountOf[d]]]
      PROVE  FInv'
  <2> DEFINE row == [ses[s].row EXCEPT !.deposit = d, !.status = "hold",
                                       !.amount = AmountOf[d]]
  <2>1. row.deposit = d /\ row.amount = AmountOf[d]
    BY <1>1 DEF App
  <2> HIDE DEF row
  <2>2. apps' = [apps EXCEPT ![ses[s].app] = row]
    BY <1>3 DEF row
  <2>3. OnlyApp(ses[s].app) /\ apps'[ses[s].app] = row
    BY <1>1, <2>2 DEF TypeOK, OnlyApp
  <2>4. /\ \A a \in Apps : apps[a].deposit # d
        /\ \A t \in Sessions : ses[t].row.deposit # d
    BY <1>3, NoneNotAnId DEF FInv, RowsAreFunded, Funded
  <2>5. RowsAreFunded'
    BY <1>1, <1>3, <2>1, <2>3 DEF FInv, RowsAreFunded, Funded, OnlyApp, Same, Drops
  <2>6. DepositsAreApart'
    BY <1>1, <2>1, <2>3, <2>4, NoneNotAnId
       DEF FInv, DepositsAreApart, OnlyApp, Same, Drops
  <2> QED
    BY <2>5, <2>6 DEF FInv
<1> QED
  BY <1>2, <1>3 DEF PaySave

(* A form leaves the amount of a paid application as it was read.          *)
LEMMA EditSaveKeepsFunded ==
  ASSUME IInv, FInv, NEW s \in Admins, EditSave(s)
  PROVE  FInv'
<1> USE DEF IInv
<1>1. /\ s \in Sessions /\ At(s, "edit") /\ ses[s].app \in Apps /\ ses[s].row \in App
      /\ UNCHANGED deposits
      /\ \A t \in Sessions : Same(t) \/ Drops(t)
  BY FinishDrops DEF Sessions, EditSave, KnowsItsWork, TypeOK, Session
<1>2. PICK amount \in Amounts :
        /\ IsPaid(ses[s].row) => amount = ses[s].row.amount
        /\ apps' = [apps EXCEPT ![ses[s].app] = [ses[s].row EXCEPT !.amount = amount]]
  BY DEF EditSave
<1> DEFINE row == [ses[s].row EXCEPT !.amount = amount]
<1>3. row.deposit = ses[s].row.deposit /\ row.amount = amount
  BY <1>1 DEF App
<1> HIDE DEF row
<1>4. apps' = [apps EXCEPT ![ses[s].app] = row]
  BY <1>2 DEF row
<1>5. OnlyApp(ses[s].app) /\ apps'[ses[s].app] = row
  BY <1>1, <1>4 DEF TypeOK, OnlyApp
<1>6. Funded(ses[s].row)
  BY <1>1 DEF FInv, RowsAreFunded
<1>7. CASE ses[s].row.deposit # None
  BY <1>1, <1>2, <1>3, <1>5, <1>6, <1>7, SavingKeepsFunded DEF Funded, IsPaid, SameMoney
<1>8. CASE ses[s].row.deposit = None
  <2>1. RowsAreFunded'
    BY <1>1, <1>3, <1>5, <1>8 DEF FInv, RowsAreFunded, Funded, OnlyApp, Same, Drops
  <2>2. DepositsAreApart'
    BY <1>1, <1>3, <1>5, <1>8 DEF FInv, DepositsAreApart, OnlyApp, Same, Drops
  <2> QED
    BY <2>1, <2>2 DEF FInv
<1> QED
  BY <1>7, <1>8

LEMMA AdminKeepsFunded ==
  ASSUME IInv, FInv, NEW s \in Admins, AdminStep(s)
  PROVE  FInv'
<1> USE DEF IInv
<1>s. s \in Sessions
  BY DEF Sessions
<1>1. CASE PayLoad(s) \/ EditLoad(s) \/ DeleteLoad(s)
  BY <1>1, OpenKeepsFunded DEF PayLoad, EditLoad, DeleteLoad, PCs
<1>2. CASE PaySave(s) \/ EditSave(s)
  BY <1>2, PaySaveKeepsFunded, EditSaveKeepsFunded
<1>3. CASE PayRead(s)
  <2>1. ses[s].app \in Apps /\ UNCHANGED <<apps, deposits>>
    BY <1>s, <1>3 DEF PayRead, KnowsItsWork
  <2>2. CASE ses' = [ses EXCEPT ![s].pc = "pay", ![s].row = apps[ses[s].app]]
    <3>1. \A t \in Sessions : Same(t) \/ Reads(t)
      BY <1>s, <2>1, <2>2 DEF TypeOK, Session, Same, Reads
    <3> QED
      BY <2>1, <3>1, ReadingKeepsFunded DEF SameMoney
  <2>3. CASE Finish(s)
    BY <1>s, <2>1, <2>3, FinishDrops, ReadingKeepsFunded DEF SameMoney
  <2> QED
    BY <1>3, <2>2, <2>3 DEF PayRead
<1>4. CASE DeleteSave(s)
  <2>1. ses[s].app \in Apps /\ apps[ses[s].app] \in App
    BY <1>s, <1>4 DEF DeleteSave, KnowsItsWork, TypeOK
  <2>2. \A a \in Apps : SameMoney(apps'[a], apps[a])
    BY <1>4, <2>1 DEF DeleteSave, TypeOK, App, SameMoney
  <2> QED
    BY <1>s, <1>4, <2>2, FinishDrops, ReadingKeepsFunded DEF DeleteSave
<1>5. CASE RefundLoad(s)
  <2>1. PICK d \in deposits :
          ses' = [ses EXCEPT ![s] = [Idle EXCEPT !.pc = "refund", !.deposit = d]]
    BY <1>5 DEF RefundLoad
  <2>2. \A t \in Sessions : Same(t) \/ Drops(t)
    BY <1>s, <2>1 DEF TypeOK, Same, Drops, Idle, NoApp
  <2> QED
    BY <1>5, <2>2, ReadingKeepsFunded DEF RefundLoad, SameMoney
<1>6. CASE RefundSave(s)
  BY <1>s, <1>6, GoToKeeps, FinishDrops, ReadingKeepsFunded
     DEF RefundSave, SameMoney, PCs
<1>7. CASE CancelApps(s)
  <2>1. ASSUME NEW a \in Apps
        PROVE  SameMoney(apps'[a], apps[a])
    <3>1. apps[a] \in App
      BY DEF TypeOK
    <3>2. SameMoney([apps[a] EXCEPT !.status = "canceled"], apps[a])
      BY <3>1 DEF App, SameMoney
    <3>3. apps'[a] \in {apps[a], [apps[a] EXCEPT !.status = "canceled"]}
      BY <1>7 DEF CancelApps
    <3> QED
      BY <3>2, <3>3 DEF SameMoney
  <2> QED
    BY <1>s, <1>7, <2>1, FinishDrops, ReadingKeepsFunded DEF CancelApps
<1> QED
  BY <1>1, <1>2, <1>3, <1>4, <1>5, <1>6, <1>7 DEF AdminStep

LEMMA StepKeepsFunded == IInv /\ FInv /\ [Next]_vars => FInv'
<1> SUFFICES ASSUME IInv, FInv, [Next]_vars PROVE FInv'
  OBVIOUS
<1>1. CASE UNCHANGED vars
  BY <1>1, ReadingKeepsFunded DEF vars, SameMoney, Same
<1>2. ASSUME NEW a \in Apps, EnvelopeMoves(a) PROVE FInv'
  BY <1>2, ReadingKeepsFunded DEF EnvelopeMoves, SameMoney, Same
<1>3. ASSUME NEW s \in Sessions, Crash(s) PROVE FInv'
  BY <1>3, FinishDrops, ReadingKeepsFunded DEF Crash, SameMoney, IInv
<1> QED
  BY <1>1, <1>2, <1>3, WebKeepsFunded, WorkerKeepsFunded, AdminKeepsFunded DEF Next

-----------------------------------------------------------------------------
(* Theorems.                                                               *)

(* No two applications, and no stale copies of two, share a deposit, and   *)
(* each that has a deposit has its amount.                                 *)
THEOREM ApplicationsAreFunded == Spec => []FInv
<1>1. Init => FInv
  BY InitFunded
<1>2. IInv /\ FInv /\ [Next]_vars => FInv'
  BY StepKeepsFunded
<1> QED
  BY <1>1, <1>2, InductiveInvariant, PTL DEF Spec

(* In any portfolio the office's counts are those of the deposits, and the *)
(* page of a paid application never asks only to be paid again.            *)
THEOREM CountsAreOfDeposits ==
  ASSUME IsFiniteSet(Apps)
  PROVE  Spec => []CountsMatchDeposits
<1>1. IInv /\ FInv => CountsMatchDeposits
  <2> SUFFICES ASSUME IInv, FInv, NEW status \in {"hold", "canceled"}
               PROVE  /\ Statistics.count[status] = Cardinality(Linked(status))
                      /\ \A a \in InStatus(status) : ChangeActions(a) # {"add_payment"}
    BY DEF CountsMatchDeposits
  <2> DEFINE S == InStatus(status)
             f == [a \in S |-> apps[a].deposit]
  <2>1. \A a \in S : a \in Apps /\ apps[a].status = status
    BY DEF InStatus
  <2>2. \A a \in S : apps[a].deposit \in deposits /\ apps[a].deposit # None
    BY <2>1, NoneNotAnId DEF IInv, RowsAreBacked, Backed, TypeOK
  <2>3. f \in Bijection(S, Linked(status))
    BY <2>1, <2>2 DEF Linked, FInv, DepositsAreApart, Bijection, Injection, Surjection, IsInjective
  <2>4. IsFiniteSet(S)
    BY FS_Subset DEF InStatus
  <2>5. Cardinality(S) = Cardinality(Linked(status))
    BY <2>3, <2>4, FS_Bijection DEF ExistsBijection
  <2>6. Statistics.count[status] = Cardinality(S)
    BY DEF Statistics, ApplicationsCount, Statuses
  <2>7. \A a \in S : ChangeActions(a) # {"add_payment"}
    BY <2>2 DEF ChangeActions, PaymentStatus, IsPaid
  <2> QED
    BY <2>5, <2>6, <2>7
<1> QED
  BY <1>1, ApplicationsAreFunded, InductiveInvariant, PTL

-----------------------------------------------------------------------------
(* Every application is of a user, and so is every row that was read.      *)
RowsHaveUsers ==
  /\ \A a \in Apps : apps[a].status # "absent" => apps[a].user \in Users
  /\ \A s \in Sessions : ses[s].row.status # "absent" => ses[s].row.user \in Users
  /\ \A s \in Sessions : ses[s].app \in Apps => apps[ses[s].app].status # "absent"

LEMMA InitHasUsers == Init => RowsHaveUsers
BY NoneNotAnId DEF Init, RowsHaveUsers, NoApp, Idle

(* A step keeps it when the rows it writes are of users, and when sessions *)
(* go on with the application and the row they had or with one they read.  *)
LEMMA UsersStay ==
  ASSUME RowsHaveUsers,
         \A a \in Apps :
           \/ apps'[a] = apps[a]
           \/ /\ apps'[a].status # "absent"
              /\ \/ apps[a].status # "absent" /\ apps'[a].user = apps[a].user
                 \/ apps'[a].user \in Users,
         \A s \in Sessions :
           \/ ses'[s] = ses[s]
           \/ ses'[s].app = ses[s].app /\ ses'[s].row = ses[s].row
           \/ ses'[s].app \notin Apps /\ ses'[s].row.status = "absent"
           \/ /\ ses'[s].app \in Apps /\ apps[ses'[s].app].status # "absent"
              /\ ses'[s].row = apps[ses'[s].app]
  PROVE  RowsHaveUsers'
<1>1. \A a \in Apps : apps[a].status # "absent" => apps'[a].status # "absent"
  OBVIOUS
<1> QED
  BY <1>1 DEF RowsHaveUsers

LEMMA EndsKeepUsers ==
  ASSUME TypeOK, NEW s \in Sessions, Finish(s)
  PROVE  \A t \in Sessions :
           ses'[t] = ses[t] \/ (ses'[t].app \notin Apps /\ ses'[t].row.status = "absent")
BY FinishChanges, NoneNotAnId DEF Ends, OnlySession, Idle, NoApp

LEMMA GoesOnKeepsUsers ==
  ASSUME TypeOK, NEW s \in Sessions, NEW pc \in PCs, GoTo(s, pc)
  PROVE  \A t \in Sessions :
           ses'[t] = ses[t] \/ (ses'[t].app = ses[t].app /\ ses'[t].row = ses[t].row)
BY GoToChanges DEF MovesTo, OnlySession

LEMMA OpensKeepsUsers ==
  ASSUME NEW s \in Sessions, NEW a \in Apps, NEW pc, Opens(s, a, pc),
         apps[a].status # "absent"
  PROVE  \A t \in Sessions :
           \/ ses'[t] = ses[t]
           \/ /\ ses'[t].app \in Apps /\ apps[ses'[t].app].status # "absent"
              /\ ses'[t].row = apps[ses'[t].app]
BY DEF Opens, OnlySession

LEMMA WebKeepsUsers ==
  ASSUME IInv, RowsHaveUsers, NEW s \in Web, WebStep(s)
  PROVE  RowsHaveUsers'
<1> USE DEF IInv
<1>s. s \in Sessions /\ ses[s] \in Session
  BY DEF Sessions, TypeOK
<1>1. CASE CheckExisting(s)
  <2>1. PICK u \in Users :
          ses' = [ses EXCEPT ![s] = [Idle EXCEPT !.pc = "insert", !.user = u]]
    BY <1>1 DEF CheckExisting
  <2>2. \A t \in Sessions :
           ses'[t] = ses[t] \/ (ses'[t].app \notin Apps /\ ses'[t].row.status = "absent")
    BY <1>s, <2>1, NoneNotAnId DEF TypeOK, Idle, NoApp
  <2>3. UNCHANGED apps
    BY <1>1 DEF CheckExisting
  <2> QED
    BY <2>2, <2>3, UsersStay
<1>2. CASE InsertDraft(s)
  <2>1. PICK a \in Apps, amount \in Amounts :
          /\ apps' = [apps EXCEPT ![a] = [NoApp EXCEPT !.user = ses[s].user, !.status = "draft",
                                                 !.amount = amount]]
          /\ ses' = [ses EXCEPT ![s].pc = "enqueue", ![s].app = a]
          /\ At(s, "insert") /\ apps[a].status = "absent"
    BY <1>2 DEF InsertDraft
  <2>2. OnlyApp(a) /\ apps'[a].status # "absent" /\ apps'[a].user \in Users
    BY <1>s, <2>1 DEF TypeOK, OnlyApp, NoApp, KnowsItsWork
  <2>3. /\ \A t \in Sessions \ {s} : ses'[t] = ses[t]
        /\ ses'[s].app = a /\ ses'[s].row = ses[s].row
    BY <1>s, <2>1 DEF TypeOK, Session
  <2>4. \A b \in Apps : apps[b].status # "absent" => apps'[b].status # "absent"
    BY <2>1, <2>2 DEF OnlyApp
  <2>5. \A b \in Apps : apps'[b].status # "absent" => apps'[b].user \in Users
    BY <2>2 DEF RowsHaveUsers, OnlyApp
  <2>6. \A t \in Sessions : ses'[t].row = ses[t].row
    BY <2>3
  <2>7. \A t \in Sessions : ses'[t].app \in Apps => apps'[ses'[t].app].status # "absent"
    BY <2>2, <2>3, <2>4 DEF RowsHaveUsers
  <2> QED
    BY <2>5, <2>6, <2>7 DEF RowsHaveUsers
<1>3. CASE EnqueueStart(s)
  BY <1>s, <1>3, EndsKeepUsers, UsersStay DEF EnqueueStart
<1>4. CASE FinishSigning(s)
  BY <1>4, UsersStay DEF FinishSigning
<1> QED
  BY <1>1, <1>2, <1>3, <1>4 DEF WebStep

LEMMA WritesKeepUsers ==
  ASSUME TypeOK, RowsHaveUsers, NEW w \in Sessions, ses[w].app \in Apps, NEW row \in App,
         Write(w, row), row.status # "absent", row.user \in {apps[ses[w].app].user} \union Users
  PROVE  \A a \in Apps :
           \/ apps'[a] = apps[a]
           \/ /\ apps'[a].status # "absent"
              /\ \/ apps[a].status # "absent" /\ apps'[a].user = apps[a].user
                 \/ apps'[a].user \in Users
BY WriteChanges DEF OnlyApp, Exists

LEMMA WorkerKeepsUsers ==
  ASSUME IInv, RowsHaveUsers, NEW w \in Workers, WorkerStep(w)
  PROVE  RowsHaveUsers'
<1> USE DEF IInv
<1>s. w \in Sessions
  BY DEF Sessions
<1> DEFINE a == ses[w].app
<1>1. CASE StartLoad(w) \/ FinishLoad(w)
  <2>1. ASSUME NEW task \in {"start", "finish"}, NEW agreement, NEW pc \in PCs,
               Take(w, task, agreement, pc)
        PROVE  RowsHaveUsers'
    <3>1. PICK b \in Apps : /\ (Opens(w, b, pc) /\ apps[b].status = "draft") \/ UNCHANGED ses
                            /\ UNCHANGED apps
      <4>1. TypeOK
        OBVIOUS
      <4> QED
        BY <1>s, <2>1, <4>1, TakeChanges, ZenonT(60)
    <3> QED
      BY <1>s, <3>1, OpensKeepsUsers, UsersStay
  <2> QED
    BY <1>1, <2>1 DEF StartLoad, FinishLoad, PCs
<1>2. CASE StartCall(w) \/ GetEnvelope(w) \/ Notify(w)
  <2>1. UNCHANGED apps
    BY <1>2 DEF StartCall, GetEnvelope, Notify
  <2>2. ASSUME NEW seen,
               ses' = [ses EXCEPT ![w].pc = "finish_save", ![w].seen = seen]
        PROVE  \A t \in Sessions :
                 ses'[t] = ses[t] \/ (ses'[t].app = ses[t].app /\ ses'[t].row = ses[t].row)
    BY <1>s, <2>2 DEF TypeOK, Session
  <2>3. \A t \in Sessions :
           \/ ses'[t] = ses[t] \/ (ses'[t].app = ses[t].app /\ ses'[t].row = ses[t].row)
           \/ ses'[t].app \notin Apps /\ ses'[t].row.status = "absent"
    BY <1>s, <1>2, <2>2, GoesOnKeepsUsers, EndsKeepUsers
       DEF StartCall, GetEnvelope, Notify, CallFails, CreateRecipientView, PCs
  <2> QED
    BY <2>1, <2>3, UsersStay
<1>3. CASE StartSave(w)
  <2>1. a \in Apps /\ ses[w].row \in App /\ ses[w].row.status = "draft"
    BY <1>s, <1>3 DEF StartSave, KnowsItsWork, TypeOK, Session
  <2> DEFINE row == [ses[w].row EXCEPT !.agreement = "preparing"]
  <2>2. row \in App /\ row.status = "draft" /\ row.user \in Users
    BY <1>s, <2>1 DEF App, AgreementStatuses, RowsHaveUsers
  <2>3. Write(w, row)
    BY <1>3 DEF StartSave
  <2> HIDE DEF row
  <2>4. \A b \in Apps :
           \/ apps'[b] = apps[b]
           \/ /\ apps'[b].status # "absent"
              /\ \/ apps[b].status # "absent" /\ apps'[b].user = apps[b].user
                 \/ apps'[b].user \in Users
    BY <1>s, <2>1, <2>2, <2>3, WritesKeepUsers
  <2>5. \A t \in Sessions :
           ses'[t] = ses[t] \/ (ses'[t].app = ses[t].app /\ ses'[t].row = ses[t].row)
    BY <1>s, <1>3, GoesOnKeepsUsers DEF StartSave, PCs
  <2> QED
    BY <2>4, <2>5, UsersStay
<1>4. CASE Prepare(w) \/ ValidatingSave(w) \/ FinishSave(w) \/ TaskError(w)
  <2>1. a \in Apps /\ apps[a] \in App
    BY <1>s, <1>4
       DEF Prepare, ValidatingSave, FinishSave, TaskError, KnowsItsWork, TypeOK
  <2>2. apps[a].status # "absent"
    BY <1>s, <2>1 DEF RowsHaveUsers
  <2>3. ASSUME NEW agreement \in AgreementStatuses,
               \/ Write(w, [Row(w) EXCEPT !.agreement = agreement])
               \/ Write(w, [Row(w) EXCEPT !.agreement = agreement, !.status = "pending"])
        PROVE  \A b \in Apps :
                 \/ apps'[b] = apps[b]
                 \/ /\ apps'[b].status # "absent"
                    /\ \/ apps[b].status # "absent" /\ apps'[b].user = apps[b].user
                       \/ apps'[b].user \in Users
    <3> DEFINE r == [apps[a] EXCEPT !.agreement = agreement]
               q == [apps[a] EXCEPT !.agreement = agreement, !.status = "pending"]
    <3>1. /\ r \in App /\ r.user = apps[a].user /\ r.status # "absent"
          /\ q \in App /\ q.user = apps[a].user /\ q.status # "absent"
      BY <2>1, <2>2 DEF App, Statuses
    <3>2. Write(w, r) \/ Write(w, q)
      BY <2>3 DEF Row
    <3> HIDE DEF r, q
    <3> QED
      BY <1>s, <2>1, <3>1, <3>2, WritesKeepUsers
  <2>4. \A b \in Apps :
           \/ apps'[b] = apps[b]
           \/ /\ apps'[b].status # "absent"
              /\ \/ apps[b].status # "absent" /\ apps'[b].user = apps[b].user
                 \/ apps'[b].user \in Users
    BY <1>4, <2>3
       DEF Prepare, ValidatingSave, FinishSave, TaskError, AgreementStatuses
  <2>5. \A t \in Sessions :
           \/ ses'[t] = ses[t] \/ (ses'[t].app = ses[t].app /\ ses'[t].row = ses[t].row)
           \/ ses'[t].app \notin Apps /\ ses'[t].row.status = "absent"
    BY <1>s, <1>4, GoesOnKeepsUsers, EndsKeepUsers
       DEF Prepare, ValidatingSave, FinishSave, TaskError, PCs
  <2> QED
    BY <2>4, <2>5, UsersStay
<1> QED
  BY <1>1, <1>2, <1>3, <1>4 DEF WorkerStep, TaskStep

LEMMA AdminKeepsUsers ==
  ASSUME IInv, RowsHaveUsers, NEW s \in Admins, AdminStep(s)
  PROVE  RowsHaveUsers'
<1> USE DEF IInv
<1>s. s \in Sessions /\ ses[s] \in Session
  BY DEF Sessions, TypeOK
<1> DEFINE a == ses[s].app
<1>1. CASE PayLoad(s) \/ EditLoad(s) \/ DeleteLoad(s)
  <2>1. ASSUME NEW b \in Apps, NEW pc \in PCs, Open(s, b, pc) PROVE RowsHaveUsers'
    <3>1. Opens(s, b, pc) /\ UNCHANGED apps /\ apps[b].status # "absent"
      BY <1>s, <2>1, OpenChanges
    <3> QED
      BY <1>s, <3>1, OpensKeepsUsers, UsersStay
  <2> QED
    BY <1>1, <2>1 DEF PayLoad, EditLoad, DeleteLoad, PCs
<1>2. CASE PayRead(s)
  <2>1. a \in Apps /\ UNCHANGED apps
    BY <1>s, <1>2 DEF PayRead, KnowsItsWork
  <2>2. CASE ses' = [ses EXCEPT ![s].pc = "pay", ![s].row = apps[ses[s].app]]
    <3>1. /\ \A t \in Sessions \ {s} : ses'[t] = ses[t]
          /\ ses'[s].app = a /\ ses'[s].row = apps[a]
      BY <1>s, <2>2 DEF TypeOK, Session
    <3>2. apps[a].status # "absent"
      BY <1>s, <2>1 DEF RowsHaveUsers
    <3> QED
      BY <2>1, <3>1, <3>2, UsersStay
  <2>3. CASE Finish(s)
    BY <1>s, <2>1, <2>3, EndsKeepUsers, UsersStay
  <2> QED
    BY <1>2, <2>2, <2>3 DEF PayRead
<1>3. CASE PaySave(s) \/ EditSave(s)
  <2>1. /\ a \in Apps /\ ses[s].row \in App /\ ses[s].row.status # "absent"
        /\ ses[s].row.user \in Users /\ Finish(s)
    BY <1>s, <1>3 DEF PaySave, EditSave, KnowsItsWork, Session, RowsHaveUsers
  <2>2. \/ UNCHANGED apps
        \/ \E row : /\ apps' = [apps EXCEPT ![a] = row]
                    /\ row.status # "absent" /\ row.user \in Users
    <3>1. CASE PaySave(s)
      <4>1. \A d : [ses[s].row EXCEPT !.deposit = d, !.status = "hold",
                                      !.amount = AmountOf[d]].status # "absent"
                   /\ [ses[s].row EXCEPT !.deposit = d, !.status = "hold",
                                      !.amount = AmountOf[d]].user \in Users
        BY <2>1 DEF App
      <4> QED
        BY <3>1, <4>1 DEF PaySave
    <3>2. CASE EditSave(s)
      <4>1. \A n : [ses[s].row EXCEPT !.amount = n].status # "absent"
                   /\ [ses[s].row EXCEPT !.amount = n].user \in Users
        BY <2>1 DEF App
      <4> QED
        BY <3>2, <4>1 DEF EditSave
    <3> QED
      BY <1>3, <3>1, <3>2
  <2>3. \A b \in Apps : apps'[b] = apps[b] \/ (apps'[b].status # "absent" /\ apps'[b].user \in Users)
    BY <2>1, <2>2 DEF TypeOK
  <2> QED
    BY <1>s, <2>1, <2>3, EndsKeepUsers, UsersStay
<1>4. CASE DeleteSave(s)
  <2>1. a \in Apps /\ apps[a] \in App /\ apps[a].status # "absent"
    BY <1>s, <1>4 DEF DeleteSave, KnowsItsWork, TypeOK, RowsHaveUsers
  <2>2. /\ \A b \in Apps \ {a} : apps'[b] = apps[b]
        /\ apps'[a].status # "absent" /\ apps'[a].user = apps[a].user
    BY <1>4, <2>1 DEF DeleteSave, TypeOK, App
  <2> QED
    BY <1>s, <1>4, <2>1, <2>2, EndsKeepUsers, UsersStay DEF DeleteSave
<1>5. CASE RefundLoad(s)
  <2>1. PICK d \in deposits :
          ses' = [ses EXCEPT ![s] = [Idle EXCEPT !.pc = "refund", !.deposit = d]]
    BY <1>5 DEF RefundLoad
  <2>2. \A t \in Sessions :
           ses'[t] = ses[t] \/ (ses'[t].app \notin Apps /\ ses'[t].row.status = "absent")
    BY <1>s, <2>1, NoneNotAnId DEF TypeOK, Idle, NoApp
  <2>3. UNCHANGED apps
    BY <1>5 DEF RefundLoad
  <2> QED
    BY <2>2, <2>3, UsersStay
<1>6. CASE RefundSave(s)
  <2>1. UNCHANGED apps
    BY <1>6 DEF RefundSave
  <2> QED
    BY <1>s, <1>6, <2>1, GoesOnKeepsUsers, EndsKeepUsers, UsersStay DEF RefundSave, PCs
<1>7. CASE CancelApps(s)
  <2>1. ASSUME NEW b \in Apps
        PROVE  \/ apps'[b] = apps[b]
               \/ /\ apps'[b].status # "absent" /\ apps[b].status # "absent"
                  /\ apps'[b].user = apps[b].user
    <3>1. apps[b] \in App
      BY DEF TypeOK
    <3>2. /\ [apps[b] EXCEPT !.status = "canceled"].status = "canceled"
          /\ [apps[b] EXCEPT !.status = "canceled"].user = apps[b].user
      BY <3>1 DEF App
    <3>3. apps'[b] = apps[b] \/ (Submitted(b) /\ apps'[b] = [apps[b] EXCEPT !.status = "canceled"])
      BY <1>7 DEF CancelApps
    <3> QED
      BY <3>2, <3>3 DEF Submitted, Exists
  <2> QED
    BY <1>s, <1>7, <2>1, EndsKeepUsers, UsersStay DEF CancelApps
<1> QED
  BY <1>1, <1>2, <1>3, <1>4, <1>5, <1>6, <1>7 DEF AdminStep

LEMMA StepKeepsUsers == IInv /\ RowsHaveUsers /\ [Next]_vars => RowsHaveUsers'
<1> SUFFICES ASSUME IInv, RowsHaveUsers, [Next]_vars PROVE RowsHaveUsers'
  OBVIOUS
<1>1. CASE UNCHANGED vars
  BY <1>1, UsersStay DEF vars
<1>2. ASSUME NEW a \in Apps, EnvelopeMoves(a) PROVE RowsHaveUsers'
  BY <1>2, UsersStay DEF EnvelopeMoves
<1>3. ASSUME NEW s \in Sessions, Crash(s) PROVE RowsHaveUsers'
  BY <1>3, EndsKeepUsers, UsersStay DEF Crash, IInv
<1> QED
  BY <1>1, <1>2, <1>3, WebKeepsUsers, WorkerKeepsUsers, AdminKeepsUsers DEF Next

(* Every application that is not just an identifier is of a user.          *)
THEOREM ApplicationsHaveUsers == Spec => []RowsHaveUsers
<1>1. Init => RowsHaveUsers
  BY InitHasUsers
<1>2. IInv /\ RowsHaveUsers /\ [Next]_vars => RowsHaveUsers'
  BY StepKeepsUsers
<1> QED
  BY <1>1, <1>2, InductiveInvariant, PTL DEF Spec

-----------------------------------------------------------------------------
(* The sums of the portfolio.                                              *)

LEMMA AmountsAreNumbers == TypeOK => \A a \in Apps : apps[a].amount \in Int
<1> SUFFICES ASSUME TypeOK, NEW a \in Apps PROVE apps[a].amount \in Int
  OBVIOUS
<1>1. apps[a] \in App
  BY DEF TypeOK
<1>2. apps[a].amount \in Amounts \union {0}
  BY <1>1 DEF App
<1>3. \A n \in Amounts : n \in Nat
  BY AmountsAssumption
<1> QED
  BY <1>2, <1>3

LEMMA DepositsAreLinkedOnce ==
  ASSUME IInv, FInv, NEW status \in {"hold", "canceled"}
  PROVE  /\ InStatus(status) \subseteq Apps
         /\ [a \in InStatus(status) |-> apps[a].deposit]
              \in Bijection(InStatus(status), Linked(status))
         /\ \A a \in InStatus(status) :
              /\ apps[a].deposit \in deposits
              /\ apps[a].amount \in Int /\ apps[a].amount = AmountOf[apps[a].deposit]
<1> DEFINE S == InStatus(status)
<1>1. \A a \in S : a \in Apps /\ apps[a].status = status
  BY DEF InStatus
<1>2. \A a \in S : apps[a].deposit \in deposits /\ apps[a].deposit # None
  BY <1>1, NoneNotAnId DEF IInv, RowsAreBacked, Backed, TypeOK
<1>3. \A a \in S : apps[a].amount \in Int /\ apps[a].amount = AmountOf[apps[a].deposit]
  BY <1>1, <1>2, AmountsAreNumbers DEF FInv, RowsAreFunded, Funded, IInv
<1>4. [a \in S |-> apps[a].deposit] \in Bijection(S, Linked(status))
  BY <1>1, <1>2 DEF Linked, FInv, DepositsAreApart, Bijection, Injection, Surjection, IsInjective
<1> QED
  BY <1>1, <1>2, <1>3, <1>4

LEMMA SumsAreOfDeposits ==
  ASSUME IInv, FInv, IsFiniteSet(Apps), NEW status \in {"hold", "canceled"}
  PROVE  Statistics.sum[status] = SumFunctionOnSet(AmountOf, Linked(status))
<1> DEFINE S == InStatus(status)
           f == [a \in Apps |-> apps[a].amount]
           h == [a \in S |-> apps[a].deposit]
<1>1. S \subseteq Apps /\ h \in Bijection(S, Linked(status))
  BY DepositsAreLinkedOnce
<1>2. \A a \in S : f[a] \in Int /\ AmountOf[h[a]] = f[a]
  BY <1>1, DepositsAreLinkedOnce
<1>3. IsFiniteSet(S)
  BY <1>1, FS_Subset
<1>4. Statistics.sum[status] = SumFunctionOnSet(f, S)
  BY DEF Statistics, MoneySum, Money, Statuses
<1> HIDE DEF S, f, h
<1>5. SumFunctionOnSet(f, S) = SumFunctionOnSet(AmountOf, Linked(status))
  BY <1>1, <1>2, <1>3, SumRenames
<1> QED
  BY <1>4, <1>5

(* Split by their user, the applications on hold add up to the same.       *)
LEMMA UsersShareTheSum ==
  ASSUME TypeOK, RowsHaveUsers, IsFiniteSet(Apps), IsFiniteSet(Users)
  PROVE  SumFunctionOnSet([u \in Users |-> TotalInvestment(u)], Users) = Statistics.sum.hold
<1> DEFINE H == InStatus("hold")
           m == [a \in Apps |-> apps[a].amount]
           Of(u) == {a \in H : apps[a].user = u}
           f == [u \in Users |-> [a \in H |-> IF apps[a].user = u THEN m[a] ELSE 0]]
           e == [a \in H |-> [u \in Users |-> IF apps[a].user = u THEN m[a] ELSE 0]]
           sums == [a \in H |-> SumFunctionOnSet(e[a], Users)]
           totals == [u \in Users |-> SumFunctionOnSet(f[u], H)]
<1>1. H \subseteq Apps /\ \A a \in H : apps[a].user \in Users
  BY DEF InStatus, RowsHaveUsers
<1>2. \A a \in Apps : m[a] \in Int
  BY AmountsAreNumbers
<1>3. IsFiniteSet(H)
  BY <1>1, FS_Subset
<1>4. \A u \in Users, a \in H : f[u][a] \in Int /\ e[a][u] = f[u][a]
  BY <1>1, <1>2
<1>5. ASSUME NEW u \in Users PROVE totals[u] = TotalInvestment(u) /\ totals[u] \in Int
  <2>1. /\ Of(u) \in SUBSET H
        /\ \A a \in Of(u) : m[a] \in Int /\ f[u][a] = m[a]
        /\ \A a \in H \ Of(u) : f[u][a] = 0
    BY <1>1, <1>2
  <2>2. TotalInvestment(u) = SumFunctionOnSet(m, Of(u))
    BY DEF TotalInvestment, Money
  <2>3. totals[u] = SumFunctionOnSet(f[u], H)
    OBVIOUS
  <2>4. IsFiniteSet(Of(u))
    BY <1>3, <2>1, FS_Subset
  <2> HIDE DEF f, m, H, Of, totals
  <2>5. SumFunctionOnSet(f[u], H) = SumFunctionOnSet(m, Of(u))
    BY <1>3, <2>1, SumOfPart
  <2>6. SumFunctionOnSet(m, Of(u)) \in Int
    BY <2>1, <2>4, SumType
  <2> QED
    BY <2>2, <2>3, <2>5, <2>6
<1>6. ASSUME NEW a \in H PROVE sums[a] = m[a] /\ m[a] \in Int
  <2>1. /\ apps[a].user \in Users /\ m[a] \in Int
        /\ e[a][apps[a].user] = m[a]
        /\ \A u \in Users \ {apps[a].user} : e[a][u] = 0
        /\ \A u \in Users : e[a][u] \in Int
    BY <1>1, <1>2
  <2>2. sums[a] = SumFunctionOnSet(e[a], Users)
    OBVIOUS
  <2>3. IsFiniteSet(Users \ {apps[a].user})
    BY FS_Subset
  <2> HIDE DEF e, m, H, sums
  <2>4. SumFunctionOnSet(e[a], Users)
          = e[a][apps[a].user] + SumFunctionOnSet(e[a], Users \ {apps[a].user})
    BY <2>1, SumRemovesElement
  <2>5. SumFunctionOnSet(e[a], Users \ {apps[a].user}) = 0
    BY <2>1, <2>3, SumOfZeros
  <2> QED
    BY <2>1, <2>2, <2>4, <2>5
<1>7. Statistics.sum.hold = SumFunctionOnSet(m, H)
  BY DEF Statistics, MoneySum, Money, Statuses
<1>8. [u \in Users |-> TotalInvestment(u)] = totals
  BY <1>5
<1> HIDE DEF f, e, m, H
<1>9. SumFunctionOnSet([u \in Users |-> SumFunctionOnSet(f[u], H)], Users)
        = SumFunctionOnSet([a \in H |-> SumFunctionOnSet(e[a], Users)], H)
  BY <1>3, <1>4, SumSwaps
<1> HIDE DEF sums
<1>10. SumFunctionOnSet(m, H) = SumFunctionOnSet(sums, H)
  BY <1>3, <1>6, SumCongruent
<1> QED
  BY <1>7, <1>8, <1>9, <1>10 DEF sums

(* The books agree with the ledger: the counts and the sums of what is on  *)
(* hold and of what is canceled are those of the deposits, and the users   *)
(* are told of the same money as the office.                               *)
THEOREM BooksAreOfDeposits ==
  ASSUME IsFiniteSet(Apps), IsFiniteSet(Users)
  PROVE  Spec => []BooksMatchDeposits
<1>1. IInv /\ FInv /\ RowsHaveUsers => SumsMatchDeposits
  BY SumsAreOfDeposits, UsersShareTheSum DEF SumsMatchDeposits, IInv
<1>2. Spec => []CountsMatchDeposits
  BY CountsAreOfDeposits
<1> QED
  BY <1>1, <1>2, ApplicationsAreFunded, ApplicationsHaveUsers, InductiveInvariant, PTL
     DEF BooksMatchDeposits

-----------------------------------------------------------------------------
(* The refinement.  With one worker and one admin session nothing that     *)
(* they read is stale when they write it.                                  *)

TaskPCs == WorkingTask
AdminPCs == HoldingRow \union {"delete", "refund", "cancel_apps"}
InList == {"pending", "hold", "canceled"}

(* Only workers run tasks, only admins have forms open.                    *)
RolesAreKept ==
  \A s \in Sessions : /\ ses[s].pc \in TaskPCs => s \in Workers
                      /\ ses[s].pc \in AdminPCs => s \in Admins

(* A deposit is of one application, on hold or canceled; a deposit that is *)
(* not in the ledger has no refunds; what was deleted had been signed.     *)
RowsAreInOrder ==
  /\ \A a \in Apps : apps[a].deposit # None <=> apps[a].status \in {"hold", "canceled"}
  /\ \A a, b \in Apps :
       apps[a].deposit # None /\ apps[a].deposit = apps[b].deposit => a = b
  /\ \A a \in Apps : apps[a].status = "deleted" => envelope[a] = "completed"
  /\ \A d \in Deposits \ deposits : refunds[d] = 0

(* What the sessions have read still holds.                                *)
IsFresh(s) ==
  /\ ses[s].pc \in {"start_save", "validating_save", "get_envelope", "finish_save"} =>
       apps[ses[s].app].status = "draft"
  /\ At(s, "start_save") => ses[s].row.deposit = None
  /\ ses[s].pc \in {"pay_read", "pay", "delete"} => apps[ses[s].app].status = "pending"
  /\ ses[s].pc \in {"pay", "edit"} =>
       /\ apps[ses[s].app].status = ses[s].row.status
       /\ apps[ses[s].app].deposit = ses[s].row.deposit
  /\ At(s, "refund") => refunds[ses[s].deposit] = 0
  /\ At(s, "cancel_apps") => refunds[ses[s].deposit] = 1

RInv == RolesAreKept /\ RowsAreInOrder /\ \A s \in Sessions : IsFresh(s)

(* Each kind of process has one session.                                   *)
OneAtWork == /\ \A s, t \in Workers : s = t
             /\ \A s, t \in Admins : s = t

-----------------------------------------------------------------------------
(* What a step shows of the lifecycle.                                     *)

SameApp(a) == apps'[a].status = apps[a].status /\ apps'[a].deposit = apps[a].deposit
SameSigned(a) == envelope'[a] = "completed" <=> envelope[a] = "completed"
HasRefund(a) == apps[a].deposit # None /\ refunds[apps[a].deposit] > 0

Stages == [a \in Apps |-> apps[a].status]
Signed == {a \in Apps : envelope[a] = "completed"}
PaidApps == {a \in Apps : apps[a].deposit # None}
RefundedApps == {a \in Apps : HasRefund(a)}

LEMMA StagesStay ==
  ASSUME \A a \in Apps : SameApp(a)
  PROVE  UNCHANGED <<Stages, PaidApps>>
<1>1. Stages' = Stages
  BY DEF Stages, SameApp
<1>2. PaidApps' = PaidApps
  BY DEF PaidApps, SameApp
<1> QED
  BY <1>1, <1>2

LEMMA StageMoves ==
  ASSUME NEW a \in Apps, \A b \in Apps \ {a} : SameApp(b)
  PROVE  Stages' = [Stages EXCEPT ![a] = apps'[a].status]
BY DEF Stages, SameApp

LEMMA PaidStay ==
  ASSUME \A a \in Apps : apps'[a].deposit = apps[a].deposit
  PROVE  PaidApps' = PaidApps
BY DEF PaidApps

LEMMA SignedStay ==
  ASSUME \A a \in Apps : SameSigned(a)
  PROVE  Signed' = Signed
BY DEF Signed, SameSigned

LEMMA RefundedStay ==
  ASSUME \A a \in Apps : apps'[a].deposit = apps[a].deposit, UNCHANGED refunds
  PROVE  RefundedApps' = RefundedApps
BY DEF RefundedApps, HasRefund

LEMMA LifecycleVars ==
  /\ Lifecycle!vars = <<Stages, Signed, PaidApps, RefundedApps>>
  /\ Lifecycle!vars' = <<Stages, Signed, PaidApps, RefundedApps>>'
BY DEF Lifecycle!vars, Stages, Signed, PaidApps, RefundedApps, HasRefund

LEMMA NothingMoves ==
  ASSUME \A a \in Apps : SameApp(a) /\ SameSigned(a), UNCHANGED refunds
  PROVE  UNCHANGED Lifecycle!vars
<1>1. UNCHANGED <<Stages, PaidApps>>
  BY StagesStay
<1>2. UNCHANGED Signed
  BY SignedStay
<1>3. UNCHANGED RefundedApps
  BY RefundedStay DEF SameApp
<1> QED
  BY <1>1, <1>2, <1>3, LifecycleVars

-----------------------------------------------------------------------------
(* What a step of one session leaves fresh for the others.                 *)

InReach(s, a) ==
  \/ apps[a].status = "absent"
  \/ s \in Workers /\ apps[a].status = "draft"
  \/ s \in Admins /\ apps[a].status \in InList

LEMMA OthersStayFresh ==
  ASSUME IInv, RInv, OneAtWork, NEW s \in Sessions, OnlySession(s),
         \A a \in Apps : SameApp(a) \/ InReach(s, a),
         UNCHANGED refunds \/ s \in Admins,
         NEW t \in Sessions \ {s}
  PROVE  /\ IsFresh(t)'
         /\ ses'[t].pc \in TaskPCs => t \in Workers
         /\ ses'[t].pc \in AdminPCs => t \in Admins
<1>1. ses'[t] = ses[t]
  BY DEF OnlySession
<1>2. /\ ses[t].pc \in TaskPCs => t \in Workers
      /\ ses[t].pc \in AdminPCs => t \in Admins
  BY DEF RInv, RolesAreKept
<1>3. IsFresh(t)
  BY DEF RInv
<1>4. CASE ses[t].pc \notin TaskPCs \union AdminPCs
  BY <1>1, <1>4 DEF IsFresh, TaskPCs, AdminPCs
<1>5. CASE ses[t].pc \in TaskPCs
  <2>1. ses[t].app \in Apps /\ s \notin Workers
    BY <1>2, <1>5 DEF IInv, KnowsItsWork, TaskPCs, OneAtWork
  <2>2. apps[ses[t].app].status = "draft" => SameApp(ses[t].app)
    BY <2>1 DEF InReach, InList
  <2>3. ses[t].pc \notin AdminPCs
    BY <1>5 DEF TaskPCs, AdminPCs
  <2> QED
    BY <1>1, <1>2, <1>3, <1>5, <2>2, <2>3 DEF IsFresh, SameApp, TaskPCs, AdminPCs
<1>6. CASE ses[t].pc \in AdminPCs
  <2>1. s \notin Admins
    BY <1>2, <1>6 DEF OneAtWork
  <2>2. UNCHANGED refunds /\ ses[t].pc \notin TaskPCs
    BY <1>6, <2>1 DEF TaskPCs, AdminPCs
  <2>3. CASE ses[t].pc \in {"refund", "cancel_apps"}
    BY <1>1, <1>2, <1>3, <2>2, <2>3 DEF IsFresh, AdminPCs, TaskPCs
  <2>4. CASE ses[t].pc \in HoldingRow \union {"delete"}
    <3>1. ses[t].app \in Apps
      BY <2>4 DEF IInv, KnowsItsWork
    <3>2. apps[ses[t].app].status \in InList
      BY <1>3, <2>4 DEF IsFresh, InList, IInv, KnowsItsWork
    <3>3. SameApp(ses[t].app)
      BY <2>1, <3>1, <3>2 DEF InReach, InList
    <3> QED
      BY <1>1, <1>2, <1>3, <2>2, <2>4, <3>3 DEF IsFresh, SameApp, AdminPCs, TaskPCs
  <2> QED
    BY <1>6, <2>3, <2>4 DEF AdminPCs
<1> QED
  BY <1>4, <1>5, <1>6

(* The claims of the session that takes the step.                          *)
StaysInRole(s) ==
  /\ IsFresh(s)'
  /\ ses'[s].pc \in TaskPCs => s \in Workers
  /\ ses'[s].pc \in AdminPCs => s \in Admins

LEMMA SessionsStayFresh ==
  ASSUME IInv, RInv, OneAtWork, NEW s \in Sessions, OnlySession(s),
         \A a \in Apps : SameApp(a) \/ InReach(s, a),
         UNCHANGED refunds \/ s \in Admins,
         StaysInRole(s)
  PROVE  RolesAreKept' /\ \A t \in Sessions : IsFresh(t)'
<1>1. \A t \in Sessions \ {s} :
         /\ IsFresh(t)'
         /\ ses'[t].pc \in TaskPCs => t \in Workers
         /\ ses'[t].pc \in AdminPCs => t \in Admins
  BY OthersStayFresh
<1> QED
  BY <1>1 DEF StaysInRole, RolesAreKept

(* A step that moves no application keeps everything in order.             *)
LEMMA QuietSteps ==
  ASSUME IInv, RInv, OneAtWork, NEW s \in Sessions, OnlySession(s),
         \A a \in Apps : SameApp(a) /\ SameSigned(a),
         UNCHANGED <<deposits, refunds>>,
         StaysInRole(s)
  PROVE  RInv' /\ UNCHANGED Lifecycle!vars
<1>1. RolesAreKept' /\ \A t \in Sessions : IsFresh(t)'
  BY SessionsStayFresh
<1>2. RowsAreInOrder'
  BY DEF RInv, RowsAreInOrder, SameApp, SameSigned
<1>3. UNCHANGED Lifecycle!vars
  BY NothingMoves
<1> QED
  BY <1>1, <1>2, <1>3 DEF RInv

LEMMA InitInOrder == Init => RInv /\ Lifecycle!Init
<1> SUFFICES ASSUME Init PROVE RInv /\ Lifecycle!Init
  OBVIOUS
<1>1. \A s \in Sessions : ses[s] = Idle
  BY DEF Init
<1>2. RolesAreKept /\ \A s \in Sessions : IsFresh(s)
  BY <1>1 DEF RolesAreKept, IsFresh, Idle, TaskPCs, AdminPCs
<1>3. RowsAreInOrder
  BY DEF Init, RowsAreInOrder, NoApp
<1>4. Lifecycle!Init
  BY DEF Init, Lifecycle!Init, NoApp
<1> QED
  BY <1>2, <1>3, <1>4 DEF RInv

LEMMA EndingStaysInRole ==
  ASSUME NEW s \in Sessions, Ends(s)
  PROVE  StaysInRole(s)
BY DEF StaysInRole, IsFresh, Ends, Idle, TaskPCs, AdminPCs

LEMMA GoingOnStaysInRole ==
  ASSUME NEW s \in Workers,
         ses'[s].pc \in {"start_call", "prepare", "start_error", "notify", "finish_error"}
  PROVE  StaysInRole(s)
BY DEF StaysInRole, IsFresh, TaskPCs, AdminPCs

(* A write that changes only the agreement of an application.              *)
LEMMA WriteMovesNothing ==
  ASSUME TypeOK, NEW w \in Sessions, ses[w].app \in Apps, NEW row \in App,
         row.status = apps[ses[w].app].status, row.deposit = apps[ses[w].app].deposit,
         Write(w, row)
  PROVE  \A a \in Apps : SameApp(a)
BY WriteChanges DEF OnlyApp, SameApp

LEMMA AgreementKeepsType ==
  ASSUME TypeOK, NEW a \in Apps, NEW agreement \in AgreementStatuses
  PROVE  LET row == [apps[a] EXCEPT !.agreement = agreement]
         IN  row \in App /\ row.status = apps[a].status /\ row.deposit = apps[a].deposit
<1>1. apps[a] \in App
  BY DEF TypeOK
<1> QED
  BY <1>1 DEF App

-----------------------------------------------------------------------------
(* The steps of the API that create no application.                        *)

LEMMA CheckExistingIsQuiet ==
  ASSUME IInv, RInv, OneAtWork, NEW s \in Web, CheckExisting(s)
  PROVE  RInv' /\ UNCHANGED Lifecycle!vars
<1>s. s \in Sessions
  BY DEF Sessions
<1>1. PICK u \in Users :
        /\ ses' = [ses EXCEPT ![s] = [Idle EXCEPT !.pc = "insert", !.user = u]]
        /\ UNCHANGED <<apps, envelope, deposits, refunds>>
  BY DEF CheckExisting
<1>2. OnlySession(s) /\ ses'[s].pc = "insert"
  BY <1>s, <1>1 DEF IInv, TypeOK, OnlySession, Idle
<1>3. StaysInRole(s)
  BY <1>2 DEF StaysInRole, IsFresh, TaskPCs, AdminPCs
<1> QED
  BY <1>s, <1>1, <1>2, <1>3, QuietSteps DEF SameApp, SameSigned

LEMMA EnqueueStartIsQuiet ==
  ASSUME IInv, RInv, OneAtWork, NEW s \in Web, EnqueueStart(s)
  PROVE  RInv' /\ UNCHANGED Lifecycle!vars
<1>s. s \in Sessions
  BY DEF Sessions
<1>1. Ends(s) /\ UNCHANGED <<apps, envelope, deposits, refunds>>
  BY <1>s, FinishChanges DEF IInv, EnqueueStart
<1> QED
  BY <1>s, <1>1, EndingStaysInRole, QuietSteps DEF SameApp, SameSigned, Ends

LEMMA UnseenSteps ==
  ASSUME IInv, RInv, UNCHANGED <<apps, envelope, deposits, refunds, ses>>
  PROVE  RInv' /\ UNCHANGED Lifecycle!vars
<1>1. RInv'
  BY DEF RInv, RolesAreKept, RowsAreInOrder, IsFresh
<1>2. UNCHANGED Lifecycle!vars
  BY NothingMoves DEF SameApp, SameSigned
<1> QED
  BY <1>1, <1>2

LEMMA FinishSigningIsQuiet ==
  ASSUME IInv, RInv, NEW s \in Web, FinishSigning(s)
  PROVE  RInv' /\ UNCHANGED Lifecycle!vars
BY UnseenSteps DEF FinishSigning

-----------------------------------------------------------------------------
(* The steps of the tasks that submit nothing.                             *)

(* A task that is taken reads a draft, which has no deposit.               *)
LEMMA TakingIsQuiet ==
  ASSUME IInv, RInv, OneAtWork, NEW w \in Workers, NEW task \in {"start", "finish"},
         NEW agreement, NEW pc \in {"start_save", "validating_save"},
         Take(w, task, agreement, pc)
  PROVE  RInv' /\ UNCHANGED Lifecycle!vars
<1>s. w \in Sessions /\ pc \in PCs
  BY DEF Sessions, PCs
<1>1. /\ \/ \E a \in Apps : Opens(w, a, pc) /\ apps[a].status = "draft"
         \/ UNCHANGED ses
      /\ UNCHANGED <<apps, envelope, deposits, refunds>>
  BY <1>s, TakeChanges DEF IInv
<1>2. CASE UNCHANGED ses
  BY <1>1, <1>2, UnseenSteps
<1>3. CASE \E a \in Apps : Opens(w, a, pc) /\ apps[a].status = "draft"
  <2>1. PICK a \in Apps : Opens(w, a, pc) /\ apps[a].status = "draft"
    BY <1>3
  <2>2. apps[a].deposit = None
    BY <2>1 DEF RInv, RowsAreInOrder
  <2>3. StaysInRole(w)
    BY <1>1, <2>1, <2>2 DEF StaysInRole, IsFresh, Opens, TaskPCs, AdminPCs
  <2> QED
    BY <1>s, <1>1, <2>1, <2>3, QuietSteps DEF SameApp, SameSigned, Opens
<1> QED
  BY <1>1, <1>2, <1>3

LEMMA StartSaveIsQuiet ==
  ASSUME IInv, RInv, OneAtWork, NEW s \in Workers, StartSave(s)
  PROVE  RInv' /\ UNCHANGED Lifecycle!vars
<1>s. s \in Sessions
  BY DEF Sessions
<1> DEFINE row == [ses[s].row EXCEPT !.agreement = "preparing"]
<1>1. /\ ses[s] \in Session /\ ses[s].app \in Apps /\ ses[s].row.status = "draft"
      /\ apps[ses[s].app].status = "draft" /\ ses[s].row.deposit = None
  BY <1>s DEF StartSave, IInv, TypeOK, KnowsItsWork, RInv, IsFresh
<1>2. apps[ses[s].app].deposit = None
  BY <1>1 DEF RInv, RowsAreInOrder
<1>3. row \in App /\ row.status = "draft" /\ row.deposit = None
  BY <1>1 DEF Session, App, AgreementStatuses
<1> HIDE DEF row
<1>4. Write(s, row) /\ GoTo(s, "start_call") /\ UNCHANGED <<envelope, deposits, refunds>>
  BY DEF StartSave, row
<1>5. \A a \in Apps : SameApp(a)
  BY <1>s, <1>1, <1>2, <1>3, <1>4, WriteMovesNothing DEF IInv
<1>6. MovesTo(s, "start_call")
  BY <1>s, <1>4, GoToChanges DEF IInv, PCs
<1> QED
  BY <1>s, <1>4, <1>5, <1>6, GoingOnStaysInRole, QuietSteps DEF MovesTo, SameSigned

LEMMA StartCallIsQuiet ==
  ASSUME IInv, RInv, OneAtWork, NEW s \in Workers, StartCall(s)
  PROVE  RInv' /\ UNCHANGED Lifecycle!vars
<1>s. s \in Sessions
  BY DEF Sessions
<1>1. /\ At(s, "start_call")
      /\ GoTo(s, "prepare") \/ GoTo(s, "start_error")
      /\ envelope' = [envelope EXCEPT ![ses[s].app] = "sent"] \/ UNCHANGED envelope
      /\ UNCHANGED <<apps, deposits, refunds>>
  BY DEF StartCall, CreateEnvelope, NewEnvelope, CreateRecipientView, CallFails
<1>2. ses[s].app \in Apps /\ envelope[ses[s].app] = "none"
  BY <1>s, <1>1 DEF IInv, KnowsItsWork, StartsOnce
<1>3. \A a \in Apps : SameSigned(a)
  BY <1>1, <1>2 DEF SameSigned, IInv, TypeOK
<1>4. MovesTo(s, "prepare") \/ MovesTo(s, "start_error")
  BY <1>s, <1>1, GoToChanges DEF IInv, PCs
<1> QED
  BY <1>s, <1>1, <1>3, <1>4, GoingOnStaysInRole, QuietSteps DEF MovesTo, SameApp

LEMMA PrepareIsQuiet ==
  ASSUME IInv, RInv, OneAtWork, NEW s \in Workers, Prepare(s)
  PROVE  RInv' /\ UNCHANGED Lifecycle!vars
<1>s. s \in Sessions /\ ses[s].app \in Apps
  BY DEF Sessions, Prepare, IInv, KnowsItsWork
<1> DEFINE row == [apps[ses[s].app] EXCEPT !.agreement = "prepared"]
<1>1. /\ row \in App /\ row.status = apps[ses[s].app].status
      /\ row.deposit = apps[ses[s].app].deposit
  BY <1>s, AgreementKeepsType DEF IInv, AgreementStatuses
<1>2. Write(s, row) /\ Finish(s) /\ UNCHANGED <<envelope, deposits, refunds>>
  BY DEF Prepare, Row
<1> HIDE DEF row
<1>3. \A a \in Apps : SameApp(a)
  BY <1>s, <1>1, <1>2, WriteMovesNothing DEF IInv
<1>4. Ends(s)
  BY <1>s, <1>2, FinishChanges DEF IInv
<1> QED
  BY <1>s, <1>2, <1>3, <1>4, EndingStaysInRole, QuietSteps DEF Ends, SameSigned

LEMMA TaskErrorIsQuiet ==
  ASSUME IInv, RInv, OneAtWork, NEW s \in Workers, TaskError(s)
  PROVE  RInv' /\ UNCHANGED Lifecycle!vars
<1>s. s \in Sessions /\ ses[s].app \in Apps
  BY DEF Sessions, TaskError, IInv, KnowsItsWork
<1> DEFINE row == [apps[ses[s].app] EXCEPT !.agreement = "error"]
<1>1. /\ row \in App /\ row.status = apps[ses[s].app].status
      /\ row.deposit = apps[ses[s].app].deposit
  BY <1>s, AgreementKeepsType DEF IInv, AgreementStatuses
<1>2. Write(s, row) /\ Finish(s) /\ UNCHANGED <<envelope, deposits, refunds>>
  BY DEF TaskError, Row
<1> HIDE DEF row
<1>3. \A a \in Apps : SameApp(a)
  BY <1>s, <1>1, <1>2, WriteMovesNothing DEF IInv
<1>4. Ends(s)
  BY <1>s, <1>2, FinishChanges DEF IInv
<1> QED
  BY <1>s, <1>2, <1>3, <1>4, EndingStaysInRole, QuietSteps DEF Ends, SameSigned

LEMMA ValidatingSaveIsQuiet ==
  ASSUME IInv, RInv, OneAtWork, NEW s \in Workers, ValidatingSave(s)
  PROVE  RInv' /\ UNCHANGED Lifecycle!vars
<1>s. s \in Sessions /\ ses[s].app \in Apps
  BY DEF Sessions, ValidatingSave, IInv, KnowsItsWork
<1> DEFINE row == [apps[ses[s].app] EXCEPT !.agreement = "validating"]
<1>1. /\ row \in App /\ row.status = apps[ses[s].app].status
      /\ row.deposit = apps[ses[s].app].deposit
  BY <1>s, AgreementKeepsType DEF IInv, AgreementStatuses
<1>2. /\ Write(s, row) /\ UNCHANGED <<envelope, deposits, refunds>>
      /\ GoTo(s, "get_envelope") \/ Finish(s)
      /\ At(s, "validating_save")
  BY DEF ValidatingSave, Row
<1> HIDE DEF row
<1>3. \A a \in Apps : SameApp(a)
  BY <1>s, <1>1, <1>2, WriteMovesNothing DEF IInv
<1>4. OnlySession(s) /\ StaysInRole(s)
  <2>1. CASE Finish(s)
    BY <1>s, <2>1, FinishChanges, EndingStaysInRole DEF IInv, Ends
  <2>2. CASE GoTo(s, "get_envelope")
    <3>1. MovesTo(s, "get_envelope")
      BY <1>s, <2>2, GoToChanges DEF IInv, PCs
    <3>2. apps'[ses[s].app].status = "draft"
      BY <1>s, <1>2, <1>3 DEF RInv, IsFresh, SameApp
    <3> QED
      BY <3>1, <3>2 DEF MovesTo, StaysInRole, IsFresh, TaskPCs, AdminPCs
  <2> QED
    BY <1>2, <2>1, <2>2
<1> QED
  BY <1>s, <1>2, <1>3, <1>4, QuietSteps DEF SameSigned

LEMMA GetEnvelopeIsQuiet ==
  ASSUME IInv, RInv, OneAtWork, NEW s \in Workers, GetEnvelope(s)
  PROVE  RInv' /\ UNCHANGED Lifecycle!vars
<1>s. s \in Sessions
  BY DEF Sessions
<1>1. /\ At(s, "get_envelope") /\ UNCHANGED <<apps, envelope, deposits, refunds>>
      /\ \/ GoTo(s, "finish_error")
         \/ ses' = [ses EXCEPT ![s].pc = "finish_save", ![s].seen = envelope[ses[s].app]]
  BY DEF GetEnvelope, GetEnvelopeStatus, CallFails
<1>2. OnlySession(s) /\ StaysInRole(s)
  <2>1. CASE GoTo(s, "finish_error")
    BY <1>s, <2>1, GoToChanges, GoingOnStaysInRole DEF IInv, PCs, MovesTo
  <2>2. CASE ses' = [ses EXCEPT ![s].pc = "finish_save", ![s].seen = envelope[ses[s].app]]
    <3>1. OnlySession(s) /\ ses'[s].pc = "finish_save" /\ ses'[s].app = ses[s].app
      BY <1>s, <2>2 DEF IInv, TypeOK, Session, OnlySession
    <3>2. apps'[ses[s].app].status = "draft"
      BY <1>s, <1>1 DEF RInv, IsFresh
    <3> QED
      BY <3>1, <3>2 DEF StaysInRole, IsFresh, TaskPCs, AdminPCs
  <2> QED
    BY <1>1, <2>1, <2>2
<1> QED
  BY <1>s, <1>1, <1>2, QuietSteps DEF SameApp, SameSigned

LEMMA NotifyIsQuiet ==
  ASSUME IInv, RInv, OneAtWork, NEW s \in Workers, Notify(s)
  PROVE  RInv' /\ UNCHANGED Lifecycle!vars
<1>s. s \in Sessions
  BY DEF Sessions
<1>1. OnlySession(s) /\ StaysInRole(s)
  BY <1>s, FinishChanges, GoToChanges, EndingStaysInRole, GoingOnStaysInRole
     DEF Notify, IInv, PCs, MovesTo, Ends
<1> QED
  BY <1>s, <1>1, QuietSteps DEF Notify, SameApp, SameSigned

-----------------------------------------------------------------------------
(* The steps of the admin, and crashes, that move no application.          *)

LEMMA OpeningIsQuiet ==
  ASSUME IInv, RInv, OneAtWork, NEW s \in Admins, NEW a \in Apps,
         NEW pc \in {"pay_read", "edit", "delete"}, Open(s, a, pc),
         pc = "edit" \/ apps[a].deposit = None
  PROVE  RInv' /\ UNCHANGED Lifecycle!vars
<1>s. s \in Sessions /\ pc \in PCs
  BY DEF Sessions, PCs
<1>1. /\ Opens(s, a, pc) /\ apps[a].status \in InList
      /\ UNCHANGED <<apps, envelope, deposits, refunds>>
  BY <1>s, OpenChanges DEF IInv, InList
<1>2. apps[a].deposit = None => apps[a].status = "pending"
  BY <1>1 DEF RInv, RowsAreInOrder, InList
<1>3. StaysInRole(s)
  BY <1>1, <1>2 DEF StaysInRole, IsFresh, Opens, TaskPCs, AdminPCs
<1> QED
  BY <1>s, <1>1, <1>3, QuietSteps DEF SameApp, SameSigned, Opens

LEMMA PayReadIsQuiet ==
  ASSUME IInv, RInv, OneAtWork, NEW s \in Admins, PayRead(s)
  PROVE  RInv' /\ UNCHANGED Lifecycle!vars
<1>s. s \in Sessions
  BY DEF Sessions
<1>1. At(s, "pay_read") /\ ses[s].app \in Apps /\ UNCHANGED <<apps, envelope, deposits, refunds>>
  BY <1>s DEF PayRead, IInv, KnowsItsWork
<1>2. OnlySession(s) /\ StaysInRole(s)
  <2>1. CASE Finish(s)
    BY <1>s, <2>1, FinishChanges, EndingStaysInRole DEF IInv, Ends
  <2>2. CASE ses' = [ses EXCEPT ![s].pc = "pay", ![s].row = apps[ses[s].app]]
    <3>1. /\ OnlySession(s) /\ ses'[s].pc = "pay" /\ ses'[s].app = ses[s].app
          /\ ses'[s].row = apps[ses[s].app]
      BY <1>s, <2>2 DEF IInv, TypeOK, Session, OnlySession
    <3>2. apps[ses[s].app].status = "pending"
      BY <1>s, <1>1 DEF RInv, IsFresh
    <3> QED
      BY <1>1, <3>1, <3>2 DEF StaysInRole, IsFresh, TaskPCs, AdminPCs
  <2> QED
    BY <2>1, <2>2 DEF PayRead
<1> QED
  BY <1>s, <1>1, <1>2, QuietSteps DEF SameApp, SameSigned

LEMMA EditSaveIsQuiet ==
  ASSUME IInv, RInv, OneAtWork, NEW s \in Admins, EditSave(s)
  PROVE  RInv' /\ UNCHANGED Lifecycle!vars
<1>s. s \in Sessions
  BY DEF Sessions
<1>1. /\ At(s, "edit") /\ ses[s].app \in Apps /\ ses[s].row \in App
      /\ Ends(s) /\ UNCHANGED <<envelope, deposits, refunds>>
  BY <1>s, FinishChanges DEF EditSave, IInv, KnowsItsWork, TypeOK, Session
<1>2. PICK amount \in Amounts :
        apps' = [apps EXCEPT ![ses[s].app] = [ses[s].row EXCEPT !.amount = amount]]
  BY DEF EditSave
<1> DEFINE row == [ses[s].row EXCEPT !.amount = amount]
<1>3. row.status = ses[s].row.status /\ row.deposit = ses[s].row.deposit
  BY <1>1 DEF App
<1> HIDE DEF row
<1>4. apps' = [apps EXCEPT ![ses[s].app] = row]
  BY <1>2 DEF row
<1>5. /\ row.status = apps[ses[s].app].status
      /\ row.deposit = apps[ses[s].app].deposit
  BY <1>s, <1>1, <1>3 DEF RInv, IsFresh
<1>6. \A a \in Apps : SameApp(a)
  BY <1>4, <1>5 DEF SameApp, IInv, TypeOK
<1> QED
  BY <1>s, <1>1, <1>6, EndingStaysInRole, QuietSteps DEF Ends, SameSigned

LEMMA RefundLoadIsQuiet ==
  ASSUME IInv, RInv, OneAtWork, NEW s \in Admins, RefundLoad(s)
  PROVE  RInv' /\ UNCHANGED Lifecycle!vars
<1>s. s \in Sessions
  BY DEF Sessions
<1>1. PICK d \in deposits :
        /\ refunds[d] = 0
        /\ ses' = [ses EXCEPT ![s] = [Idle EXCEPT !.pc = "refund", !.deposit = d]]
        /\ UNCHANGED <<apps, envelope, deposits, refunds>>
  BY DEF RefundLoad
<1>2. OnlySession(s) /\ ses'[s].pc = "refund" /\ ses'[s].deposit = d
  BY <1>s, <1>1 DEF IInv, TypeOK, OnlySession, Idle
<1>3. StaysInRole(s)
  BY <1>1, <1>2 DEF StaysInRole, IsFresh, TaskPCs, AdminPCs
<1> QED
  BY <1>s, <1>1, <1>2, <1>3, QuietSteps DEF SameApp, SameSigned

(* A request that changes nothing, or a session that dies.                 *)
LEMMA GivingUpIsQuiet ==
  ASSUME IInv, RInv, OneAtWork, NEW s \in Sessions, Finish(s),
         UNCHANGED <<apps, envelope, deposits, refunds>>
  PROVE  RInv' /\ UNCHANGED Lifecycle!vars
BY FinishChanges, EndingStaysInRole, QuietSteps DEF IInv, Ends, SameApp, SameSigned

-----------------------------------------------------------------------------
(* The steps that move an application are those of its lifecycle.          *)

LEMMA InsertDraftDrafts ==
  ASSUME IInv, RInv, OneAtWork, NEW s \in Web, InsertDraft(s)
  PROVE  RInv' /\ Lifecycle!Next
<1>s. s \in Sessions
  BY DEF Sessions
<1>1. PICK a \in Apps, amount \in Amounts :
        /\ apps[a].status = "absent"
        /\ apps' = [apps EXCEPT ![a] = [NoApp EXCEPT !.user = ses[s].user, !.status = "draft",
                                                     !.amount = amount]]
        /\ ses' = [ses EXCEPT ![s].pc = "enqueue", ![s].app = a]
        /\ UNCHANGED <<envelope, deposits, refunds>>
  BY DEF InsertDraft
<1>2. /\ \A b \in Apps \ {a} : SameApp(b)
      /\ apps'[a].status = "draft" /\ apps'[a].deposit = None
  BY <1>1 DEF IInv, TypeOK, SameApp, NoApp
<1>3. apps[a].deposit = None
  BY <1>1 DEF RInv, RowsAreInOrder
<1>4. OnlySession(s) /\ ses'[s].pc = "enqueue"
  BY <1>s, <1>1 DEF IInv, TypeOK, Session, OnlySession
<1>5. StaysInRole(s)
  BY <1>4 DEF StaysInRole, IsFresh, TaskPCs, AdminPCs
<1>6. RolesAreKept' /\ \A t \in Sessions : IsFresh(t)'
  BY <1>s, <1>1, <1>2, <1>4, <1>5, SessionsStayFresh DEF InReach
<1>7. RowsAreInOrder'
  BY <1>1, <1>2, <1>3 DEF RInv, RowsAreInOrder, SameApp
<1>8. Stages' = [Stages EXCEPT ![a] = "draft"] /\ UNCHANGED <<Signed, PaidApps, RefundedApps>>
  <2>1. \A b \in Apps : apps'[b].deposit = apps[b].deposit
    BY <1>2, <1>3 DEF SameApp
  <2> QED
    BY <1>1, <1>2, <2>1, StageMoves, PaidStay, RefundedStay DEF Signed
<1>9. Lifecycle!Draft(a)
  BY <1>1, <1>8 DEF Lifecycle!Draft, Lifecycle!Move, Stages, Signed, PaidApps, RefundedApps,
                    HasRefund
<1> QED
  BY <1>6, <1>7, <1>9 DEF RInv, Lifecycle!Next

(* The application that is submitted was signed.                           *)
LEMMA FinishSaveSubmits ==
  ASSUME IInv, RInv, OneAtWork, NEW s \in Workers, FinishSave(s)
  PROVE  RInv' /\ [Lifecycle!Next]_(Lifecycle!vars)
<1>s. s \in Sessions
  BY DEF Sessions
<1>1. /\ At(s, "finish_save") /\ ses[s].app \in Apps /\ apps[ses[s].app] \in App
      /\ apps[ses[s].app].status = "draft" /\ apps[ses[s].app].deposit = None
      /\ UNCHANGED <<envelope, deposits, refunds>>
  BY <1>s DEF FinishSave, IInv, KnowsItsWork, TypeOK, RInv, IsFresh, RowsAreInOrder
<1>2. OnlySession(s) /\ StaysInRole(s)
  <2>1. Finish(s) \/ GoTo(s, "notify") \/ GoTo(s, "finish_error")
    BY DEF FinishSave
  <2> QED
    BY <1>s, <2>1, FinishChanges, GoToChanges, EndingStaysInRole, GoingOnStaysInRole
       DEF IInv, PCs, MovesTo, Ends
<1>3. CASE UNCHANGED apps
  BY <1>s, <1>1, <1>2, <1>3, QuietSteps DEF SameApp, SameSigned
<1>4. CASE Write(s, [Row(s) EXCEPT !.agreement = "error"])
  <2> DEFINE row == [apps[ses[s].app] EXCEPT !.agreement = "error"]
  <2>1. /\ row \in App /\ row.status = apps[ses[s].app].status
        /\ row.deposit = apps[ses[s].app].deposit
    BY <1>1, AgreementKeepsType DEF IInv, AgreementStatuses
  <2>2. Write(s, row)
    BY <1>4 DEF Row
  <2> HIDE DEF row
  <2>3. \A a \in Apps : SameApp(a)
    BY <1>s, <1>1, <2>1, <2>2, WriteMovesNothing DEF IInv
  <2> QED
    BY <1>s, <1>1, <1>2, <2>3, QuietSteps DEF SameSigned
<1>5. CASE /\ ses[s].seen = "completed"
           /\ Write(s, [Row(s) EXCEPT !.agreement = "success", !.status = "pending"])
  <2> DEFINE row == [apps[ses[s].app] EXCEPT !.agreement = "success", !.status = "pending"]
  <2>1. row \in App /\ row.status = "pending" /\ row.deposit = None
    BY <1>1 DEF App, AgreementStatuses, Statuses
  <2>2. Write(s, row)
    BY <1>5 DEF Row
  <2> HIDE DEF row
  <2>3. PICK a \in Apps : a = ses[s].app
    BY <1>1
  <2>4. /\ \A b \in Apps \ {a} : SameApp(b)
        /\ apps'[a].status = "pending" /\ apps'[a].deposit = None
    BY <1>s, <1>1, <2>1, <2>2, <2>3, WriteChanges DEF IInv, OnlyApp, SameApp, Exists
  <2>5. RolesAreKept' /\ \A t \in Sessions : IsFresh(t)'
    BY <1>s, <1>1, <1>2, <2>3, <2>4, SessionsStayFresh DEF InReach
  <2>6. RowsAreInOrder'
    BY <1>1, <2>3, <2>4 DEF RInv, RowsAreInOrder, SameApp
  <2>7. Stages' = [Stages EXCEPT ![a] = "pending"] /\ UNCHANGED <<Signed, PaidApps, RefundedApps>>
    <3>1. \A b \in Apps : apps'[b].deposit = apps[b].deposit
      BY <1>1, <2>3, <2>4 DEF SameApp
    <3> QED
      BY <1>1, <2>4, <3>1, StageMoves, PaidStay, RefundedStay DEF Signed
  <2>8. envelope[a] = "completed"
    BY <1>s, <1>1, <1>5, <2>3 DEF IInv, RemembersSigned
  <2>9. Lifecycle!Submit(a)
    BY <1>1, <2>3, <2>7, <2>8 DEF Lifecycle!Submit, Lifecycle!Move, Stages, Signed, PaidApps,
                                  RefundedApps, HasRefund
  <2> QED
    BY <2>5, <2>6, <2>9 DEF RInv, Lifecycle!Next
<1> QED
  BY <1>3, <1>4, <1>5 DEF FinishSave

(* The row that is paid is still pending, and its deposit is a new one.    *)
LEMMA PaySavePays ==
  ASSUME IInv, RInv, OneAtWork, NEW s \in Admins, PaySave(s)
  PROVE  RInv' /\ [Lifecycle!Next]_(Lifecycle!vars)
<1>s. s \in Sessions
  BY DEF Sessions
<1>1. /\ At(s, "pay") /\ Finish(s) /\ Ends(s) /\ UNCHANGED <<envelope, refunds>>
      /\ ses[s].app \in Apps /\ ses[s].row \in App
  BY <1>s, FinishChanges DEF PaySave, IInv, KnowsItsWork, TypeOK, Session
<1>2. CASE UNCHANGED <<deposits, apps>>
  BY <1>s, <1>1, <1>2, GivingUpIsQuiet
<1>3. CASE \E d \in Deposits \ deposits :
             /\ deposits' = deposits \union {d}
             /\ apps' = [apps EXCEPT ![ses[s].app] =
                           [ses[s].row EXCEPT !.deposit = d, !.status = "hold",
                                              !.amount = AmountOf[d]]]
  <2>1. PICK d \in Deposits \ deposits :
          /\ deposits' = deposits \union {d}
          /\ apps' = [apps EXCEPT ![ses[s].app] =
                        [ses[s].row EXCEPT !.deposit = d, !.status = "hold",
                                           !.amount = AmountOf[d]]]
    BY <1>3
  <2> DEFINE row == [ses[s].row EXCEPT !.deposit = d, !.status = "hold",
                                       !.amount = AmountOf[d]]
  <2>2. row.status = "hold" /\ row.deposit = d
    BY <1>1 DEF App
  <2> HIDE DEF row
  <2>3. apps' = [apps EXCEPT ![ses[s].app] = row]
    BY <2>1 DEF row
  <2>4. PICK a \in Apps : a = ses[s].app
    BY <1>1
  <2>5. apps[a].status = "pending" /\ apps[a].deposit = None
    BY <1>s, <1>1, <2>4 DEF RInv, IsFresh, RowsAreInOrder
  <2>6. /\ \A b \in Apps \ {a} : SameApp(b)
        /\ apps'[a].status = "hold" /\ apps'[a].deposit = d
    BY <2>2, <2>3, <2>4 DEF IInv, TypeOK, SameApp
  <2>7. RolesAreKept' /\ \A t \in Sessions : IsFresh(t)'
    BY <1>s, <1>1, <2>5, <2>6, EndingStaysInRole, SessionsStayFresh DEF InReach, InList, Ends
  <2>8. d # None /\ refunds[d] = 0 /\ \A b \in Apps : apps[b].deposit # d
    <3>1. \A b \in Apps : apps[b].deposit # None => apps[b].deposit \in deposits
      BY DEF RInv, RowsAreInOrder, IInv, RowsAreBacked, Backed
    <3> QED
      BY <2>1, <3>1, NoneNotAnId DEF RInv, RowsAreInOrder
  <2>9. RowsAreInOrder'
    <3>1. \A b \in Apps : apps'[b].deposit # None <=> apps'[b].status \in {"hold", "canceled"}
      BY <2>6, <2>8 DEF RInv, RowsAreInOrder, SameApp
    <3>2. \A b, c \in Apps :
            apps'[b].deposit # None /\ apps'[b].deposit = apps'[c].deposit => b = c
      BY <2>6, <2>8 DEF RInv, RowsAreInOrder, SameApp
    <3>3. \A b \in Apps : apps'[b].status = "deleted" => envelope[b] = "completed"
      BY <2>6 DEF RInv, RowsAreInOrder, SameApp
    <3>4. \A e \in Deposits \ deposits' : refunds[e] = 0
      BY <2>1 DEF RInv, RowsAreInOrder
    <3> QED
      BY <1>1, <3>1, <3>2, <3>3, <3>4 DEF RowsAreInOrder
  <2>10. /\ Stages' = [Stages EXCEPT ![a] = "hold"] /\ PaidApps' = PaidApps \union {a}
         /\ UNCHANGED <<Signed, RefundedApps>>
    <3>1. Stages' = [Stages EXCEPT ![a] = "hold"]
      BY <2>6, StageMoves
    <3>2. PaidApps' = PaidApps \union {a}
      BY <2>6, <2>8 DEF PaidApps, SameApp
    <3>3. \A b \in Apps : HasRefund(b)' <=> HasRefund(b)
      BY <1>1, <2>5, <2>6, <2>8 DEF HasRefund, SameApp
    <3>4. RefundedApps' = RefundedApps
      BY <3>3 DEF RefundedApps
    <3> QED
      BY <1>1, <3>1, <3>2, <3>4 DEF Signed
  <2>11. Lifecycle!Pay(a)
    BY <2>5, <2>10 DEF Lifecycle!Pay, Lifecycle!Move, Stages, Signed, PaidApps, RefundedApps,
                       HasRefund
  <2> QED
    BY <2>7, <2>9, <2>11 DEF RInv, Lifecycle!Next
<1> QED
  BY <1>2, <1>3 DEF PaySave

LEMMA DeleteSaveDeletes ==
  ASSUME IInv, RInv, OneAtWork, NEW s \in Admins, DeleteSave(s)
  PROVE  RInv' /\ Lifecycle!Next
<1>s. s \in Sessions
  BY DEF Sessions
<1>1. /\ At(s, "delete") /\ Ends(s) /\ UNCHANGED <<envelope, deposits, refunds>>
      /\ ses[s].app \in Apps /\ apps[ses[s].app] \in App
      /\ apps' = [apps EXCEPT ![ses[s].app].status = "deleted"]
  BY <1>s, FinishChanges DEF DeleteSave, IInv, KnowsItsWork, TypeOK
<1>2. PICK a \in Apps : a = ses[s].app
  BY <1>1
<1>3. apps[a].status = "pending" /\ apps[a].deposit = None
  BY <1>s, <1>1, <1>2 DEF RInv, IsFresh, RowsAreInOrder
<1>4. /\ \A b \in Apps \ {a} : SameApp(b)
      /\ apps'[a].status = "deleted" /\ apps'[a].deposit = None
  BY <1>1, <1>2, <1>3 DEF IInv, TypeOK, App, SameApp
<1>5. RolesAreKept' /\ \A t \in Sessions : IsFresh(t)'
  BY <1>s, <1>1, <1>3, <1>4, EndingStaysInRole, SessionsStayFresh DEF InReach, InList, Ends
<1>6. envelope[a] = "completed"
  BY <1>3 DEF IInv, SubmittedWasSigned, Submitted, Exists
<1>7. RowsAreInOrder'
  BY <1>1, <1>4, <1>6 DEF RInv, RowsAreInOrder, SameApp
<1>8. Stages' = [Stages EXCEPT ![a] = "deleted"] /\ UNCHANGED <<Signed, PaidApps, RefundedApps>>
  <2>1. \A b \in Apps : apps'[b].deposit = apps[b].deposit
    BY <1>3, <1>4 DEF SameApp
  <2> QED
    BY <1>1, <1>4, <2>1, StageMoves, PaidStay, RefundedStay DEF Signed
<1>9. Lifecycle!Delete(a)
  BY <1>3, <1>8 DEF Lifecycle!Delete, Lifecycle!Move, Stages, Signed, PaidApps, RefundedApps,
                    HasRefund
<1> QED
  BY <1>5, <1>7, <1>9 DEF RInv, Lifecycle!Next

(* The refunds of one deposit change: it is of one application at most.    *)
LEMMA RefundsMove ==
  ASSUME RInv, NEW dep \in Deposits, UNCHANGED apps,
         \A d \in Deposits \ {dep} : refunds'[d] = refunds[d],
         \A a \in Apps : apps[a].deposit \in Deposits \union {None}
  PROVE  \/ UNCHANGED RefundedApps /\ \A a \in Apps : apps[a].deposit # dep
         \/ \E a \in Apps :
              /\ apps[a].deposit = dep
              /\ RefundedApps' = IF refunds'[dep] > 0 THEN RefundedApps \union {a}
                                                      ELSE RefundedApps \ {a}
<1>1. CASE \A a \in Apps : apps[a].deposit # dep
  <2>1. \A a \in Apps : HasRefund(a)' <=> HasRefund(a)
    BY <1>1 DEF HasRefund
  <2> QED
    BY <1>1, <2>1 DEF RefundedApps
<1>2. CASE \E a \in Apps : apps[a].deposit = dep
  <2>1. PICK a \in Apps : apps[a].deposit = dep
    BY <1>2
  <2>2. dep # None
    BY NoneNotAnId
  <2>3. \A b \in Apps \ {a} : apps[b].deposit # dep
    BY <2>1, <2>2 DEF RInv, RowsAreInOrder
  <2>4. \A b \in Apps \ {a} : HasRefund(b)' <=> HasRefund(b)
    BY <2>3 DEF HasRefund
  <2>5. HasRefund(a)' <=> refunds'[dep] > 0
    BY <2>1, <2>2 DEF HasRefund
  <2> QED
    BY <2>1, <2>4, <2>5 DEF RefundedApps
<1> QED
  BY <1>1, <1>2

LEMMA RefundSaveRefunds ==
  ASSUME IInv, RInv, OneAtWork, NEW s \in Admins, RefundSave(s)
  PROVE  RInv' /\ [Lifecycle!Next]_(Lifecycle!vars)
<1>s. s \in Sessions
  BY DEF Sessions
<1>1. At(s, "refund") /\ UNCHANGED <<apps, envelope, deposits>> /\ ses[s].deposit \in deposits
  BY <1>s DEF RefundSave, IInv, RowsAreBacked
<1>2. CASE UNCHANGED refunds /\ Finish(s)
  BY <1>s, <1>1, <1>2, GivingUpIsQuiet
<1>3. CASE /\ refunds' = [refunds EXCEPT ![ses[s].deposit] = @ + 1]
           /\ GoTo(s, "cancel_apps")
  <2>1. PICK dep \in Deposits : dep = ses[s].deposit /\ dep \in deposits
    BY <1>1 DEF IInv, TypeOK
  <2>2. /\ refunds[dep] = 0 /\ refunds'[dep] = 1
        /\ \A d \in Deposits \ {dep} : refunds'[d] = refunds[d]
    BY <1>s, <1>1, <1>3, <2>1 DEF RInv, IsFresh, IInv, TypeOK
  <2>3. MovesTo(s, "cancel_apps")
    BY <1>s, <1>3, GoToChanges DEF IInv, PCs
  <2>4. StaysInRole(s)
    BY <2>1, <2>2, <2>3 DEF StaysInRole, IsFresh, MovesTo, TaskPCs, AdminPCs
  <2>5. RolesAreKept' /\ \A t \in Sessions : IsFresh(t)'
    BY <1>s, <1>1, <2>3, <2>4, SessionsStayFresh DEF SameApp, MovesTo
  <2>6. RowsAreInOrder'
    BY <1>1, <2>1, <2>2 DEF RInv, RowsAreInOrder
  <2>7. UNCHANGED <<Stages, Signed, PaidApps>>
    BY <1>1 DEF Stages, Signed, PaidApps
  <2>8. \A a \in Apps : apps[a].deposit \in Deposits \union {None}
    BY DEF IInv, TypeOK, App
  <2>9. \/ UNCHANGED RefundedApps
        \/ \E a \in Apps : apps[a].deposit = dep /\ RefundedApps' = RefundedApps \union {a}
    BY <1>1, <2>2, <2>8, RefundsMove
  <2>10. CASE UNCHANGED RefundedApps
    BY <2>5, <2>6, <2>7, <2>10, LifecycleVars DEF RInv
  <2>11. CASE \E a \in Apps : apps[a].deposit = dep /\ RefundedApps' = RefundedApps \union {a}
    <3>1. PICK a \in Apps : apps[a].deposit = dep /\ RefundedApps' = RefundedApps \union {a}
      BY <2>11
    <3>2. dep # None
      BY NoneNotAnId
    <3>3. Backed(apps[a]) /\ Cardinality(Cancelling(dep)) \in Nat
      BY CancellingIsFinite DEF IInv, RowsAreBacked
    <3>4. apps[a].status = "hold"
      BY <2>2, <3>1, <3>2, <3>3 DEF RInv, RowsAreInOrder, Backed
    <3>5. Lifecycle!Refund(a)
      BY <2>2, <2>7, <3>1, <3>2, <3>4
         DEF Lifecycle!Refund, Stages, Signed, PaidApps, RefundedApps, HasRefund
    <3> QED
      BY <2>5, <2>6, <3>5 DEF RInv, Lifecycle!Next
  <2> QED
    BY <2>9, <2>10, <2>11
<1> QED
  BY <1>2, <1>3 DEF RefundSave

(* The one application of the deposit is on hold: it is canceled, or its   *)
(* refund is taken back.                                                   *)
LEMMA CancelAppsCancels ==
  ASSUME IInv, RInv, OneAtWork, NEW s \in Admins, CancelApps(s)
  PROVE  RInv' /\ [Lifecycle!Next]_(Lifecycle!vars)
<1>s. s \in Sessions
  BY DEF Sessions
<1>1. /\ At(s, "cancel_apps") /\ Finish(s) /\ Ends(s) /\ UNCHANGED <<envelope, deposits>>
      /\ ses[s].deposit \in deposits /\ refunds[ses[s].deposit] = 1
  BY <1>s, FinishChanges DEF CancelApps, IInv, RowsAreBacked, RInv, IsFresh
<1>2. PICK dep \in Deposits : dep = ses[s].deposit /\ dep \in deposits /\ refunds[dep] = 1
  BY <1>1 DEF IInv, TypeOK
<1>3. dep # None /\ \A a \in Apps : apps[a].deposit \in Deposits \union {None}
  BY NoneNotAnId DEF IInv, TypeOK, App
<1>4. \A a \in Apps : apps[a].deposit = dep => apps[a].status = "hold"
  <2>1. s \in Cancelling(dep)
    BY <1>1, <1>2 DEF Cancelling
  <2>2. Cardinality(Cancelling(dep)) > 0
    BY <2>1, CancellingIsFinite, FS_EmptySet
  <2>3. \A a \in Apps : Backed(apps[a]) /\ Cardinality(Cancelling(dep)) \in Nat
    BY CancellingIsFinite DEF IInv, RowsAreBacked
  <2> QED
    BY <1>2, <1>3, <2>2, <2>3 DEF RInv, RowsAreInOrder, Backed
<1>5. CASE /\ UNCHANGED refunds
           /\ apps' = [a \in Apps |-> IF Submitted(a) /\ apps[a].deposit = ses[s].deposit
                                        THEN [apps[a] EXCEPT !.status = "canceled"]
                                        ELSE apps[a]]
  <2>1. \A a \in Apps : apps[a].deposit # dep => SameApp(a)
    BY <1>2, <1>5 DEF SameApp
  <2>2. \A a \in Apps : apps[a].deposit = dep =>
          apps'[a].status = "canceled" /\ apps'[a].deposit = dep
    BY <1>2, <1>4, <1>5 DEF Submitted, Exists, IInv, TypeOK, App
  <2>3. RolesAreKept' /\ \A t \in Sessions : IsFresh(t)'
    <3>1. \A a \in Apps : SameApp(a) \/ InReach(s, a)
      BY <1>4, <2>1 DEF InReach, InList
    <3> QED
      BY <1>s, <1>1, <3>1, EndingStaysInRole, SessionsStayFresh DEF Ends
  <2>4. \A a \in Apps : apps'[a].deposit = apps[a].deposit
    BY <2>1, <2>2 DEF SameApp
  <2>5. RowsAreInOrder'
    <3>1. \A a \in Apps : apps'[a].deposit # None <=> apps'[a].status \in {"hold", "canceled"}
      BY <1>3, <2>1, <2>2 DEF RInv, RowsAreInOrder, SameApp
    <3>2. \A a \in Apps : apps'[a].status = "deleted" => envelope[a] = "completed"
      BY <2>1, <2>2 DEF RInv, RowsAreInOrder, SameApp
    <3> QED
      BY <1>1, <1>5, <2>4, <3>1, <3>2 DEF RInv, RowsAreInOrder
  <2>6. UNCHANGED <<Signed, PaidApps, RefundedApps>>
    BY <1>1, <1>5, <2>4, PaidStay, RefundedStay DEF Signed
  <2>7. CASE \A a \in Apps : apps[a].deposit # dep
    BY <2>1, <2>3, <2>5, <2>6, <2>7, StagesStay, LifecycleVars DEF RInv
  <2>8. CASE \E a \in Apps : apps[a].deposit = dep
    <3>1. PICK a \in Apps : apps[a].deposit = dep
      BY <2>8
    <3>2. \A b \in Apps \ {a} : SameApp(b)
      BY <1>3, <2>1, <3>1 DEF RInv, RowsAreInOrder
    <3>3. Stages' = [Stages EXCEPT ![a] = "canceled"]
      BY <2>2, <3>1, <3>2, StageMoves
    <3>4. Lifecycle!Cancel(a)
      BY <1>2, <1>3, <1>4, <2>6, <3>1, <3>3
         DEF Lifecycle!Cancel, Lifecycle!Move, Stages, Signed, PaidApps, RefundedApps, HasRefund
    <3> QED
      BY <2>3, <2>5, <3>4 DEF RInv, Lifecycle!Next
  <2> QED
    BY <2>7, <2>8
<1>6. CASE UNCHANGED apps /\ refunds' = [refunds EXCEPT ![ses[s].deposit] = @ - 1]
  <2>1. refunds'[dep] = 0 /\ \A d \in Deposits \ {dep} : refunds'[d] = refunds[d]
    BY <1>2, <1>6 DEF IInv, TypeOK
  <2>2. RolesAreKept' /\ \A t \in Sessions : IsFresh(t)'
    BY <1>s, <1>1, <1>6, EndingStaysInRole, SessionsStayFresh DEF SameApp, Ends
  <2>3. RowsAreInOrder'
    BY <1>1, <1>2, <1>6, <2>1 DEF RInv, RowsAreInOrder
  <2>4. UNCHANGED <<Stages, Signed, PaidApps>>
    BY <1>1, <1>6 DEF Stages, Signed, PaidApps
  <2>5. \/ UNCHANGED RefundedApps
        \/ \E a \in Apps : apps[a].deposit = dep /\ RefundedApps' = RefundedApps \ {a}
    BY <1>3, <1>6, <2>1, RefundsMove
  <2>6. CASE UNCHANGED RefundedApps
    BY <2>2, <2>3, <2>4, <2>6, LifecycleVars DEF RInv
  <2>7. CASE \E a \in Apps : apps[a].deposit = dep /\ RefundedApps' = RefundedApps \ {a}
    <3>1. PICK a \in Apps : apps[a].deposit = dep /\ RefundedApps' = RefundedApps \ {a}
      BY <2>7
    <3>2. Lifecycle!TakeBack(a)
      BY <1>2, <1>3, <1>4, <2>4, <3>1
         DEF Lifecycle!TakeBack, Stages, Signed, PaidApps, RefundedApps, HasRefund
    <3> QED
      BY <2>2, <2>3, <3>2 DEF RInv, Lifecycle!Next
  <2> QED
    BY <2>5, <2>6, <2>7
<1> QED
  BY <1>5, <1>6 DEF CancelApps

(* An envelope is signed while its application is a draft.                 *)
LEMMA EnvelopeMovesSigns ==
  ASSUME IInv, RInv, NEW a \in Apps, EnvelopeMoves(a)
  PROVE  RInv' /\ [Lifecycle!Next]_(Lifecycle!vars)
<1>1. /\ envelope[a] = "sent" /\ UNCHANGED <<apps, deposits, refunds, ses>>
      /\ \A b \in Apps \ {a} : envelope'[b] = envelope[b]
      /\ envelope'[a] \in {"completed", "declined"}
  BY DEF EnvelopeMoves, IInv, TypeOK
<1>2. apps[a].status = "draft"
  BY <1>1 DEF IInv, SubmittedWasSigned, Submitted, Exists, StartsOnce, RInv, RowsAreInOrder
<1>3. RInv'
  BY <1>1 DEF RInv, RolesAreKept, RowsAreInOrder, IsFresh
<1>4. CASE envelope'[a] = "declined"
  BY <1>1, <1>3, <1>4, NothingMoves DEF SameApp, SameSigned
<1>5. CASE envelope'[a] = "completed"
  <2>1. Signed' = Signed \union {a} /\ UNCHANGED <<Stages, PaidApps, RefundedApps>>
    BY <1>1, <1>5 DEF Stages, Signed, PaidApps, RefundedApps, HasRefund
  <2>2. Lifecycle!Sign(a)
    BY <1>2, <2>1 DEF Lifecycle!Sign, Stages, Signed, PaidApps, RefundedApps, HasRefund
  <2> QED
    BY <1>3, <2>2 DEF Lifecycle!Next
<1> QED
  BY <1>1, <1>4, <1>5

LEMMA StepImplements ==
  ASSUME OneAtWork, IInv, RInv, [Next]_vars
  PROVE  RInv' /\ [Lifecycle!Next]_(Lifecycle!vars)
<1>1. ASSUME NEW s \in Web, WebStep(s)
      PROVE  RInv' /\ [Lifecycle!Next]_(Lifecycle!vars)
  BY <1>1, CheckExistingIsQuiet, InsertDraftDrafts, EnqueueStartIsQuiet, FinishSigningIsQuiet
     DEF WebStep
<1>2. ASSUME NEW w \in Workers, WorkerStep(w)
      PROVE  RInv' /\ [Lifecycle!Next]_(Lifecycle!vars)
  <2>1. CASE StartLoad(w) \/ FinishLoad(w)
    BY <2>1, TakingIsQuiet DEF StartLoad, FinishLoad
  <2>2. CASE TaskStep(w)
    BY <2>2, StartSaveIsQuiet, StartCallIsQuiet, PrepareIsQuiet, ValidatingSaveIsQuiet,
       GetEnvelopeIsQuiet, FinishSaveSubmits, NotifyIsQuiet, TaskErrorIsQuiet DEF TaskStep
  <2> QED
    BY <1>2, <2>1, <2>2 DEF WorkerStep
<1>3. ASSUME NEW s \in Admins, AdminStep(s)
      PROVE  RInv' /\ [Lifecycle!Next]_(Lifecycle!vars)
  <2>1. CASE PayLoad(s) \/ EditLoad(s) \/ DeleteLoad(s)
    BY <2>1, OpeningIsQuiet DEF PayLoad, EditLoad, DeleteLoad
  <2>2. CASE PayRead(s) \/ EditSave(s) \/ RefundLoad(s)
    BY <2>2, PayReadIsQuiet, EditSaveIsQuiet, RefundLoadIsQuiet
  <2>3. CASE PaySave(s) \/ DeleteSave(s) \/ RefundSave(s) \/ CancelApps(s)
    BY <2>3, PaySavePays, DeleteSaveDeletes, RefundSaveRefunds, CancelAppsCancels
  <2> QED
    BY <1>3, <2>1, <2>2, <2>3 DEF AdminStep
<1>4. ASSUME NEW a \in Apps, EnvelopeMoves(a)
      PROVE  RInv' /\ [Lifecycle!Next]_(Lifecycle!vars)
  BY <1>4, EnvelopeMovesSigns
<1>5. ASSUME NEW s \in Sessions, Crash(s)
      PROVE  RInv' /\ [Lifecycle!Next]_(Lifecycle!vars)
  BY <1>5, GivingUpIsQuiet DEF Crash
<1>6. CASE UNCHANGED vars
  BY <1>6, UnseenSteps DEF vars
<1> QED
  BY <1>1, <1>2, <1>3, <1>4, <1>5, <1>6 DEF Next

(* With one worker and one admin session at work every behaviour of the    *)
(* component, whatever fails or dies on the way, is one of the lifecycle   *)
(* it promises of each application.                                        *)
THEOREM InvestmentImplementsLifecycle ==
  ASSUME OneAtWork
  PROVE  Spec => Implements
<1>1. Init => RInv /\ Lifecycle!Init
  BY InitInOrder
<1>2. IInv /\ RInv /\ [Next]_vars => RInv' /\ [Lifecycle!Next]_(Lifecycle!vars)
  BY StepImplements
<1> QED
  BY <1>1, <1>2, InductiveInvariant, PTL DEF Spec, Implements, Lifecycle!Spec
=============================================================================
