--------------------------- MODULE KycSubmission ---------------------------
(***************************************************************************)
(* The KYC submissions of one profile: users submit them, the office adds, *)
(* edits, clones, deletes and decides on them, and chains of Celery tasks  *)
(* have Onfido screen the person of a submission and the beneficiary of a  *)
(* business.                                                               *)
(*                                                                         *)
(* A step is one statement on the database, one message to the task queue, *)
(* or one call to Onfido with the read before it.  save() writes every     *)
(* column of the row that was read; both sites write to one database, and  *)
(* the transactions of the office are on another.  What a submission says  *)
(* of the person is left out, but for whose data it is.                    *)
(***************************************************************************)
EXTENDS Integers, Sequences

CONSTANTS
  Submissions,   \* primary keys a submission may get: numbers, given in order
  Web,           \* sessions of the API process
  Office,        \* sessions of the admin process
  Chains,        \* chains of tasks: bounds the chains ever queued
  AccountTypes,  \* those of {"individual", "business"} that users have
  MaxRetries,    \* ONFIDO_MAX_RETIES
  MaxRequests    \* bounds the requests other than submissions

ASSUME AccountTypesAre == AccountTypes \subseteq {"individual", "business"}
ASSUME SubmissionsAreNumbers == Submissions \subseteq Nat \ {0}
ASSUME BoundsAreNat == MaxRetries \in Nat /\ MaxRequests \in Nat

VARIABLES
  rows,         \* the submissions and their beneficiaries
  profile,      \* the columns of the Profile row that submissions change
  applicants,   \* what Onfido knows: its applicants,
  checks,       \* and its checks of them
  web, office,  \* what each session is doing
  chains,       \* the chains of tasks that are queued or run
  approved,     \* the submissions ever approved: for the properties only
  created,      \* the primary key given last
  requests      \* how many of them there were

vars == <<rows, profile, applicants, checks, web, office, chains, approved,
          created, requests>>

None == 0

Statuses == {"draft", "pending", "approved", "rejected"}
Results == {"clear", "consider", "unsupported"}
Subjects == Submissions \X {"applicant", "beneficiary"}
Persons == (Submissions \union {None}) \X {"applicant", "beneficiary"}
Self(s) == <<s, "applicant">>
Beneficiary(s) == <<s, "beneficiary">>

(* A row remembers whose data it holds: a clone holds those of another.    *)
NoRow == [status |-> "none", type |-> "individual", of |-> None,
          applicant |-> None, check |-> None, result |-> "none"]
NewRow(s, type, status) == [NoRow EXCEPT !.status = status, !.type = type, !.of = s]
Exists(x) == rows[x] # NoRow
Of(x) == <<rows[x].of, x[2]>>
Row == [status : Statuses \union {"none"}, type : {"individual", "business"},
        of : Submissions \union {None}, applicant : Nat, check : Nat,
        result : Results \union {"none"}]

(* hasty: the office decided between the read of the profile and its save. *)
Profile == [status : {"unverified", "pending", "verified"}, last : Submissions \union {None},
            hasty : BOOLEAN]
Unverified == [status |-> "unverified", last |-> None, hasty |-> FALSE]

WebPCs == {"create", "save_profile", "enqueue", "enqueue_beneficiary", "save_language"}
OfficePCs == {"save_reason", "approve", "reject", "judge", "save_profile", "save_edit"}
Session == [pc : {"idle"} \union WebPCs \union OfficePCs, sub : Submissions \union {None},
            row : Row, profile : Profile]
Idle == [pc |-> "idle", sub |-> None, row |-> NoRow, profile |-> Unverified]

ChainPCs == {"free", "routine", "create", "save_applicant", "save_unsupported", "upload",
             "start", "save_check", "fetch", "save_result", "save_again", "done", "failed"}
(* person: whom the chain had Onfido create as an applicant.               *)
Chain == [pc : ChainPCs, of : Persons, person : Persons, row : Row, applicant : Nat,
          tries : 0..MaxRetries]
Free == [pc |-> "free", of |-> Self(None), person |-> Self(None), row |-> NoRow, applicant |-> None,
         tries |-> 0]

Applicant == [of : Persons, document : BOOLEAN]
Check == [applicant : Nat, state : {"running", "clear", "consider"}]

TypeOK ==
  /\ rows \in [Subjects -> Row]
  /\ profile \in Profile
  /\ applicants \in Seq(Applicant) /\ checks \in Seq(Check)
  /\ \A k \in DOMAIN checks : checks[k].applicant \in DOMAIN applicants
  /\ web \in [Web -> Session]
  /\ office \in [Office -> Session]
  /\ chains \in [Chains -> Chain]
  /\ approved \subseteq Submissions
  /\ created \in Submissions \union {None} /\ requests \in 0..MaxRequests

Init ==
  /\ rows = [x \in Subjects |-> NoRow]
  /\ profile = Unverified
  /\ applicants = <<>> /\ checks = <<>>
  /\ web = [s \in Web |-> Idle]
  /\ office = [s \in Office |-> Idle]
  /\ chains = [c \in Chains |-> Free]
  /\ approved = {}
  /\ created = None /\ requests = 0

(* A row gets the next primary key, which orders it by created_at too.     *)
Insert(s, row, beneficiary) ==
  /\ s = created + 1
  /\ created' = s
  /\ rows' = [rows EXCEPT ![Self(s)] = row, ![Beneficiary(s)] = beneficiary]

(* A business has a beneficiary.                                           *)
NewBeneficiary(s, type) ==
  IF type = "business" THEN NewRow(s, type, "pending") ELSE NoRow

(* save() inserts a row again that was deleted, but a beneficiary without  *)
(* its submission is refused.                                              *)
CanSave(x) == x[2] = "beneficiary" => Exists(Self(x[1]))
Save(x, row) ==
  /\ rows' = [rows EXCEPT ![x] = row]
  /\ approved' = approved \union {s \in {x[1]} : row.status = "approved"}

Request == requests < MaxRequests /\ requests' = requests + 1

-----------------------------------------------------------------------------
(* The user submits.                                                       *)

(* post() of either view: conflict unless the profile is unverified.       *)
BeginSubmission(s) ==
  /\ web[s].pc = "idle"
  /\ profile.status = "unverified"
  /\ web' = [web EXCEPT ![s] = [Idle EXCEPT !.pc = "create", !.profile = profile]]
  /\ UNCHANGED <<rows, profile, applicants, checks, office, chains, approved, created,
                 requests>>

(* The row of an individual, or those of a business in one transaction.    *)
CreateSubmission(s) ==
  \E new \in Submissions, type \in AccountTypes :
    /\ web[s].pc = "create"
    /\ Insert(new, NewRow(new, type, "pending"), NewBeneficiary(new, type))
    /\ web' = [web EXCEPT ![s] = [@ EXCEPT !.pc = "save_profile", !.sub = new]]
    /\ UNCHANGED <<profile, applicants, checks, office, chains, approved, requests>>

(* The profile that was read is saved as pending.                          *)
SavePending(s) ==
  /\ web[s].pc = "save_profile"
  /\ profile' = [web[s].profile EXCEPT !.status = "pending"]
  /\ web' = [web EXCEPT ![s].pc = "enqueue"]
  /\ UNCHANGED <<rows, applicants, checks, office, chains, approved, created, requests>>

(* A user sets the language: the profile that was read is saved.           *)
BeginLanguage(s) ==
  /\ Request
  /\ web[s].pc = "idle"
  /\ web' = [web EXCEPT ![s] = [Idle EXCEPT !.pc = "save_language", !.profile = profile]]
  /\ UNCHANGED <<rows, profile, applicants, checks, office, chains, approved, created>>
SaveLanguage(s) ==
  /\ web[s].pc = "save_language"
  /\ profile' = web[s].profile
  /\ web' = [web EXCEPT ![s] = Idle]
  /\ UNCHANGED <<rows, applicants, checks, office, chains, approved, created, requests>>

(* Queue the first task of a chain.                                        *)
Queued(c, x, pc) == [chains EXCEPT ![c] = [Free EXCEPT !.pc = pc, !.of = x]]
FreeChains == {c \in Chains : chains[c].pc = "free"}

(* enqueue_onfido_routine() of the submission, and that of the beneficiary *)
(* of a business.                                                          *)
EnqueueScreening(s) ==
  \E c \in FreeChains :
    /\ web[s].pc = "enqueue"
    /\ chains' = Queued(c, Self(web[s].sub), "create")
    /\ web' = [web EXCEPT ![s] =
                 IF rows[Self(web[s].sub)].type = "business"
                   THEN [web[s] EXCEPT !.pc = "enqueue_beneficiary"] ELSE Idle]
    /\ UNCHANGED <<rows, profile, applicants, checks, office, approved, created, requests>>

EnqueueBeneficiary(s) ==
  \E c \in FreeChains :
    /\ web[s].pc = "enqueue_beneficiary"
    /\ chains' = Queued(c, Beneficiary(web[s].sub), "create")
    /\ web' = [web EXCEPT ![s] = Idle]
    /\ UNCHANGED <<rows, profile, applicants, checks, office, approved, created, requests>>

-----------------------------------------------------------------------------
(* The office.                                                             *)

(* Every request of the office begins with the row it is about.            *)
Open(a, s, pc) ==
  /\ office[a].pc = "idle"
  /\ Exists(Self(s))
  /\ office' = [office EXCEPT ![a] = [Idle EXCEPT !.pc = pc, !.sub = s, !.row = rows[Self(s)]]]
  /\ Request
  /\ UNCHANGED <<rows, profile, applicants, checks, web, chains, approved, created>>

(* approve() and reject() do nothing for what is decided that way already. *)
OpenToApprove(a) ==
  \E s \in Submissions : rows[Self(s)].status # "approved" /\ Open(a, s, "approve")
OpenToReject(a) ==
  \E s \in Submissions : rows[Self(s)].status # "rejected" /\ Open(a, s, "save_reason")
OpenToEdit(a) == \E s \in Submissions : Open(a, s, "save_edit")

(* The form of the reason saves the row before the rejection does.         *)
SaveReason(a) ==
  /\ office[a].pc = "save_reason"
  /\ Save(Self(office[a].sub), office[a].row)
  /\ office' = [office EXCEPT ![a].pc = "reject"]
  /\ UNCHANGED <<profile, applicants, checks, web, chains, created, requests>>

(* _change_transition(): the submission is saved,                          *)
SaveDecision(a) ==
  LET status == IF office[a].pc = "approve" THEN "approved" ELSE "rejected"
  IN /\ office[a].pc \in {"approve", "reject"}
     /\ Save(Self(office[a].sub), [office[a].row EXCEPT !.status = status])
     /\ office' = [office EXCEPT ![a] = [@ EXCEPT !.pc = "judge", !.row.status = status]]
     /\ UNCHANGED <<profile, applicants, checks, web, chains, created, requests>>

ApprovedRows == {s \in Submissions : rows[Self(s)].status = "approved"}
IsLastApproved(s) ==
  \/ s = None /\ ApprovedRows = {}
  \/ s \in ApprovedRows /\ \A t \in ApprovedRows : t <= s

(* Variant: an approval verifies the profile, whatever is approved now.    *)
JudgeByDecision(a) ==
  /\ office[a].pc = "judge"
  /\ office' = [office EXCEPT ![a] = [@ EXCEPT !.pc = "save_profile",
       !.profile = [last |-> office[a].sub, hasty |-> FALSE,
                       status |-> IF office[a].row.status = "approved" THEN "verified"
                                                                       ELSE "unverified"]]]
  /\ UNCHANGED <<rows, profile, applicants, checks, web, chains, approved, created, requests>>

(* the profile is read, its latest approved submission is looked up,       *)
Judge(a) ==
  /\ office[a].pc = "judge"
  /\ \E last \in ApprovedRows \union {None} :
       /\ IsLastApproved(last)
       /\ office' = [office EXCEPT ![a] = [@ EXCEPT !.pc = "save_profile",
            !.profile = [last |-> last, hasty |-> FALSE,
                            status |-> IF last = None THEN "unverified" ELSE "verified"]]]
  /\ UNCHANGED <<rows, profile, applicants, checks, web, chains, approved, created, requests>>

(* and the profile is saved.                                               *)
SaveVerdict(a) ==
  /\ office[a].pc = "save_profile"
  /\ profile' = office[a].profile
  /\ office' = [office EXCEPT ![a] = Idle]
  /\ web' = [s \in Web |-> IF web[s].pc \in {"save_profile", "save_language"}
                           THEN [web[s] EXCEPT !.profile.hasty = TRUE] ELSE web[s]]
  /\ UNCHANGED <<rows, applicants, checks, chains, approved, created, requests>>

(* RelatedDocumentForm.save() of a submission that is there.               *)
SaveEdit(a) ==
  /\ office[a].pc = "save_edit"
  /\ Save(Self(office[a].sub), office[a].row)
  /\ office' = [office EXCEPT ![a] = Idle]
  /\ UNCHANGED <<profile, applicants, checks, web, chains, created, requests>>

(* RelatedDocumentForm.save() of a new submission.                         *)
AddDraft(a) ==
  \E new \in Submissions, type \in AccountTypes :
    /\ Request
    /\ office[a].pc = "idle"
    /\ Insert(new, NewRow(new, type, "draft"), NewBeneficiary(new, type))
    /\ UNCHANGED <<profile, applicants, checks, web, office, chains, approved>>

(* clone() copies the row and the row of the beneficiary, the columns of   *)
(* the screening among them.                                               *)
CloneSubmission(a) ==
  \E s, new \in Submissions :
    /\ office[a].pc = "idle"
    /\ Request
    /\ Exists(Self(s))
    /\ Insert(new, [rows[Self(s)] EXCEPT !.status = "draft"], rows[Beneficiary(s)])
    /\ UNCHANGED <<profile, applicants, checks, web, office, chains, approved>>

(* Variant: any submission is deleted.                                     *)
DeleteAny(a) ==
  \E s \in Submissions :
    /\ office[a].pc = "idle"
    /\ Exists(Self(s))
    /\ rows' = [rows EXCEPT ![Self(s)] = NoRow, ![Beneficiary(s)] = NoRow]
    /\ profile' = IF profile.last = s THEN [profile EXCEPT !.last = None] ELSE profile
    /\ Request
    /\ UNCHANGED <<applicants, checks, web, office, chains, approved, created>>

(* Only drafts are deleted; last_kyc is set to NULL.                       *)
DeleteDraft(a) ==
  \E s \in Submissions :
    /\ office[a].pc = "idle"
    /\ rows[Self(s)].status = "draft"
    /\ rows' = [rows EXCEPT ![Self(s)] = NoRow, ![Beneficiary(s)] = NoRow]
    /\ profile' = IF profile.last = s THEN [profile EXCEPT !.last = None] ELSE profile
    /\ Request
    /\ UNCHANGED <<applicants, checks, web, office, chains, approved, created>>

(* force_onfido_routine()                                                  *)
ForceScreening(a) ==
  \E s \in Submissions, c \in FreeChains :
    /\ Request
    /\ office[a].pc = "idle"
    /\ Exists(Self(s))
    /\ chains' = Queued(c, Self(s), "routine")
    /\ UNCHANGED <<rows, profile, applicants, checks, web, office, approved, created>>

-----------------------------------------------------------------------------
(* A chain of tasks.                                                       *)

RowOf(c) == rows[chains[c].of]
GoTo(c, pc) == chains' = [chains EXCEPT ![c] = [@ EXCEPT !.pc = pc, !.tries = 0]]
End(c, pc) == chains' = [chains EXCEPT ![c] = [chains[c] EXCEPT !.pc = pc, !.row = NoRow,
                                               !.applicant = None, !.tries = 0]]

(* self.retry(): the task is queued again until it has had its retries.    *)
Retry(c) ==
  IF chains[c].tries < MaxRetries THEN chains' = [chains EXCEPT ![c].tries = @ + 1]
                                  ELSE End(c, "failed")

(* The task fails when the row is gone, or the row of a beneficiary cannot *)
(* be saved.                                                               *)
RowIsGone(c) ==
  /\ IF chains[c].pc \in {"routine", "create", "start", "fetch"}
       THEN ~Exists(chains[c].of)
       ELSE chains[c].pc \in {"save_applicant", "save_unsupported", "save_check",
                              "save_result", "save_again"} /\ ~CanSave(chains[c].of)
  /\ End(c, "failed")
  /\ UNCHANGED <<rows, profile, applicants, checks, web, office, approved, created, requests>>

(* enqueue_onfido_routine_task() queues the chain, and one for the         *)
(* beneficiary of a business.                                              *)
RunRoutine(c) ==
  /\ chains[c].pc = "routine"
  /\ Exists(chains[c].of)
  /\ IF RowOf(c).type = "individual"
       THEN GoTo(c, "create")
       ELSE \E d \in FreeChains :
              chains' = [Queued(d, Beneficiary(chains[c].of[1]), "create")
                           EXCEPT ![c].pc = "create"]
  /\ UNCHANGED <<rows, profile, applicants, checks, web, office, approved, created, requests>>

(* onfido_create_applicant_task(): the answer may be that the applicant is *)
(* not supported, or an error, which may come with an applicant created.   *)
CreateApplicant(c) ==
  /\ chains[c].pc = "create"
  /\ Exists(chains[c].of)
  /\ \/ /\ applicants' = Append(applicants, [of |-> Of(chains[c].of), document |-> FALSE])
        /\ \/ chains' = [chains EXCEPT ![c] = [@ EXCEPT !.pc = "save_applicant", !.row = RowOf(c),
                                       !.person = Of(chains[c].of), !.applicant = Len(applicants) + 1]]
           \/ Retry(c)
     \/ /\ chains' = [chains EXCEPT ![c] = [@ EXCEPT !.pc = "save_unsupported", !.row = RowOf(c),
                                                      !.person = Of(chains[c].of)]]
        /\ UNCHANGED applicants
     \/ Retry(c) /\ UNCHANGED applicants
  /\ UNCHANGED <<rows, profile, checks, web, office, approved, created, requests>>

SaveApplicant(c) ==
  /\ chains[c].pc = "save_applicant"
  /\ CanSave(chains[c].of)
  /\ Save(chains[c].of, [chains[c].row EXCEPT !.applicant = chains[c].applicant])
  /\ chains' = [chains EXCEPT ![c] = [@ EXCEPT !.pc = "upload", !.row = NoRow, !.tries = 0]]
  /\ UNCHANGED <<profile, applicants, checks, web, office, created, requests>>

SaveUnsupported(c) ==
  /\ chains[c].pc = "save_unsupported"
  /\ CanSave(chains[c].of)
  /\ Save(chains[c].of, [chains[c].row EXCEPT !.result = "unsupported"])
  /\ chains' = [chains EXCEPT ![c] = [@ EXCEPT !.pc = "upload", !.row = NoRow, !.tries = 0]]
  /\ UNCHANGED <<profile, applicants, checks, web, office, created, requests>>

(* Variant: the next task runs whatever became of the upload.              *)
UploadDocumentOnce(c) ==
  /\ chains[c].pc = "upload"
  /\ GoTo(c, "start")
  /\ \/ UNCHANGED applicants
     \/ /\ chains[c].applicant # None
        /\ applicants' = [applicants EXCEPT ![chains[c].applicant].document = TRUE]
  /\ UNCHANGED <<rows, profile, checks, web, office, approved, created, requests>>

(* onfido_upload_document_task() has the applicant from the task before.   *)
UploadDocument(c) ==
  /\ chains[c].pc = "upload"
  /\ \/ chains[c].applicant = None /\ GoTo(c, "start") /\ UNCHANGED applicants
     \/ /\ chains[c].applicant # None
        /\ applicants' = [applicants EXCEPT ![chains[c].applicant].document = TRUE]
        /\ GoTo(c, "start") \/ Retry(c)
     \/ chains[c].applicant # None /\ Retry(c) /\ UNCHANGED applicants
  /\ UNCHANGED <<rows, profile, checks, web, office, approved, created, requests>>

(* onfido_start_check_task() has the applicant from the row.               *)
StartCheck(c) ==
  /\ chains[c].pc = "start"
  /\ Exists(chains[c].of)
  /\ \/ RowOf(c).applicant = None /\ GoTo(c, "fetch") /\ UNCHANGED checks
     \/ /\ RowOf(c).applicant # None
        /\ checks' = Append(checks, [applicant |-> RowOf(c).applicant, state |-> "running"])
        /\ \/ chains' = [chains EXCEPT ![c] = [@ EXCEPT !.pc = "save_check", !.row = RowOf(c),
                                       !.applicant = Len(checks) + 1]]
           \/ Retry(c)
     \/ RowOf(c).applicant # None /\ Retry(c) /\ UNCHANGED checks
  /\ UNCHANGED <<rows, profile, applicants, web, office, approved, created, requests>>

SaveCheck(c) ==
  /\ chains[c].pc = "save_check"
  /\ CanSave(chains[c].of)
  /\ Save(chains[c].of, [chains[c].row EXCEPT !.check = chains[c].applicant])
  /\ chains' = [chains EXCEPT ![c] = [@ EXCEPT !.pc = "fetch", !.row = NoRow, !.tries = 0]]
  /\ UNCHANGED <<profile, applicants, checks, web, office, created, requests>>

(* Variant: a check that is found is taken for complete.                   *)
IsFound(row) == row.check # None /\ checks[row.check].applicant = row.applicant

(* The result of a check that is complete, asked for by its applicant.     *)
IsComplete(row) ==
  /\ row.check # None
  /\ checks[row.check].applicant = row.applicant
  /\ checks[row.check].state # "running"

(* Variant: the result is that of the check Onfido began last.             *)
FetchLastResult(c) ==
  /\ chains[c].pc = "fetch"
  /\ Exists(chains[c].of)
  /\ \/ RowOf(c).applicant = None /\ End(c, "done")
     \/ /\ checks # <<>> /\ checks[Len(checks)].state # "running"
        /\ chains' = [chains EXCEPT ![c] = [@ EXCEPT !.pc = "save_result",
                        !.row = [RowOf(c) EXCEPT !.result = checks[Len(checks)].state]]]
     \/ RowOf(c).applicant # None /\ RowOf(c).check # None /\ Retry(c)
  /\ UNCHANGED <<rows, profile, applicants, checks, web, office, approved, created, requests>>

(* Variant: a check that is not complete yet is left at that.              *)
FetchResultOnce(c) ==
  /\ chains[c].pc = "fetch"
  /\ Exists(chains[c].of)
  /\ \/ RowOf(c).applicant = None /\ End(c, "done")
     \/ /\ IsComplete(RowOf(c))
        /\ chains' = [chains EXCEPT ![c] = [@ EXCEPT !.pc = "save_result",
                        !.row = [RowOf(c) EXCEPT !.result = checks[RowOf(c).check].state]]]
     \/ RowOf(c).applicant # None /\ ~IsComplete(RowOf(c)) /\ End(c, "done")
  /\ UNCHANGED <<rows, profile, applicants, checks, web, office, approved, created, requests>>

(* onfido_save_check_result_task(): a check that is not complete, or not   *)
(* found, is asked for again, as is a report that cannot be downloaded;    *)
(* without the id of a check the call, and the task, fails.                *)
FetchResult(c) ==
  /\ chains[c].pc = "fetch"
  /\ Exists(chains[c].of)
  /\ \/ RowOf(c).applicant = None /\ End(c, "done")
     \/ RowOf(c).applicant # None /\ RowOf(c).check = None /\ End(c, "failed")
     \/ /\ IsComplete(RowOf(c))
        /\ chains' = [chains EXCEPT ![c] = [@ EXCEPT !.pc = "save_result",
                        !.row = [RowOf(c) EXCEPT !.result = checks[RowOf(c).check].state]]]
     \/ RowOf(c).applicant # None /\ RowOf(c).check # None /\ Retry(c)
  /\ UNCHANGED <<rows, profile, applicants, checks, web, office, approved, created, requests>>

(* The report is saved with the row, and then the row again.               *)
SaveResult(c) ==
  /\ chains[c].pc \in {"save_result", "save_again"}
  /\ CanSave(chains[c].of)
  /\ Save(chains[c].of, chains[c].row)
  /\ IF chains[c].pc = "save_result" THEN GoTo(c, "save_again") ELSE End(c, "done")
  /\ UNCHANGED <<profile, applicants, checks, web, office, created, requests>>

(* Onfido completes a check.                                               *)
CompleteCheck ==
  \E k \in DOMAIN checks, result \in {"clear", "consider"} :
    /\ checks[k].state = "running"
    /\ checks' = [checks EXCEPT ![k].state = result]
    /\ UNCHANGED <<rows, profile, applicants, web, office, chains, approved, created,
                   requests>>

-----------------------------------------------------------------------------
WebStep(s) ==
  \/ BeginSubmission(s) \/ CreateSubmission(s) \/ SavePending(s)
  \/ EnqueueScreening(s) \/ EnqueueBeneficiary(s)
  \/ BeginLanguage(s) \/ SaveLanguage(s)

OfficeStep(a) ==
  \/ OpenToApprove(a) \/ OpenToReject(a) \/ OpenToEdit(a)
  \/ SaveReason(a) \/ SaveDecision(a) \/ Judge(a) \/ SaveVerdict(a) \/ SaveEdit(a)
  \/ AddDraft(a) \/ CloneSubmission(a) \/ DeleteDraft(a) \/ ForceScreening(a)

TaskStep(c) ==
  \/ RowIsGone(c) \/ RunRoutine(c) \/ CreateApplicant(c) \/ SaveApplicant(c)
  \/ SaveUnsupported(c) \/ UploadDocument(c) \/ StartCheck(c) \/ SaveCheck(c)
  \/ FetchResult(c) \/ SaveResult(c)

Next ==
  \/ \E s \in Web : WebStep(s)
  \/ \E a \in Office : OfficeStep(a)
  \/ \E c \in Chains : TaskStep(c)
  \/ CompleteCheck

Spec == Init /\ [][Next]_vars

(* Celery goes on with every chain, and Onfido with every check.  Users    *)
(* and the office may stop at any point, which is how a server dies.       *)
FairSpec == Spec /\ (\A c \in Chains : WF_vars(TaskStep(c))) /\ WF_vars(CompleteCheck)

-----------------------------------------------------------------------------
(* A profile is verified, or has a last submission, only after a           *)
(* submission, that very one, was approved: late saves of screening tasks  *)
(* may take an approval back while the profile is being saved, but verify  *)
(* no one (models.py, _change_transition).                                 *)
VerifiedWasApproved ==
  /\ profile.status = "verified" => approved # {}
  /\ profile.last # None => profile.last \in approved

(* A profile that is pending has a submission that waits for a decision,   *)
(* or one whose decision is under way: the user is not shut out of         *)
(* submitting anew, unless the office decided between the read and the     *)
(* save of the profile by a request (views.py, services.py; models.py).    *)
PendingHasSubmission ==
  profile.status = "pending" /\ ~profile.hasty =>
    \/ \E s \in Submissions : rows[Self(s)].status = "pending"
    \/ \E a \in Office : office[a].pc \in {"judge", "save_profile"}

(* A result that is clear or not is that of a check which Onfido has       *)
(* completed for the person whose data the row holds, however chains of    *)
(* one submission, saves of stale rows and clones interleave (tasks.py).   *)
ResultIsOwn ==
  \A x \in Subjects : rows[x].result \in {"clear", "consider"} =>
    \E k \in DOMAIN checks :
      checks[k].state = rows[x].result /\ applicants[checks[k].applicant].of = Of(x)

(* A check of someone whom one chain only has screened was begun when      *)
(* Onfido had the document, whichever tasks were retried and whichever     *)
(* rows were cloned, deleted or saved late before (tasks.py).              *)
ChainsFor(person) == {c \in Chains : chains[c].person = person}
CheckHasDocument ==
  \A k \in DOMAIN checks :
    LET a == applicants[checks[k].applicant]
    IN (\E c \in Chains : ChainsFor(a.of) = {c}) => a.document

(* A screening that was queued comes to a result, unless it uses up its    *)
(* retries or the office or another chain is at work on the same rows.     *)
Queue(c) == chains[c].pc = "create"
Disturbed(c) ==
  \/ \E a \in Office : Self(office[a].sub) = chains[c].of
  \/ \E d \in Chains \ {c} : chains[d].of = chains[c].of
ScreeningEnds ==
  \A c \in Chains :
    Queue(c) ~> \/ chains[c].pc = "failed"
                \/ \E x \in Subjects : x = chains[c].of /\ rows[x].result # "none"
                \/ Disturbed(c)
=============================================================================
