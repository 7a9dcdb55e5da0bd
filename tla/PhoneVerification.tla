------------------------- MODULE PhoneVerification -------------------------
(***************************************************************************)
(* The phones of one profile.  The user sets a number, asks for a code and *)
(* submits a pin; two kinds of Celery tasks call Twilio, which sends codes *)
(* and checks pins, and write the outcome to the phone.                    *)
(*                                                                         *)
(* A step is one statement or one transaction on the database, one message *)
(* to the task queue, or one call to Twilio.  save() writes every column   *)
(* of the row that was read.  The rows of a phone that no one decides on   *)
(* (its time stamps but one) and the mail to a verified user are left out. *)
(***************************************************************************)
EXTENDS Limits, Sequences

CONSTANTS
  Phones,        \* primary keys a phone may get: numbers, as rows are ordered by them
  Numbers,
  None,
  Web,           \* sessions of the API process
  Tasks,         \* identifiers of Celery tasks: bounds the tasks ever queued
  Sids,          \* identifiers Twilio may give: bounds its verifications
  MaxTime,       \* bound of the clock
  SendLimit, FailedWindow, FailedCount, SessionLifetime   \* the settings

ASSUME PhonesAreNumbers == Phones \subseteq Nat
ASSUME SettingsAreNat ==
  {MaxTime, SendLimit, FailedWindow, FailedCount, SessionLifetime} \subseteq Nat
ASSUME NoneIsNothing == None \notin Phones \union Numbers \union Sids

VARIABLES
  phones,   \* the Phone table
  verifs,   \* the PhoneVerification table, in the order of creation
  twilio,   \* Twilio's own record of its verifications
  ses,      \* what each session of the API is doing
  tasks,    \* the messages of the task queue and the tasks being run
  now

vars == <<phones, verifs, twilio, ses, tasks, now>>

PhoneStatuses == {"unconfirmed", "code_requested", "code_sent", "code_submitted",
                  "code_incorrect", "expired", "max_attempts_reached", "verified"}
VerifStatuses == {"pending", "approved", "expired", "max_attempts_reached"}

Times == 0..MaxTime
Phone == [number : Numbers, status : PhoneStatuses, primary : BOOLEAN,
          requested : Times \union {Never}]
NoPhone == [number |-> None, status |-> "unconfirmed", primary |-> FALSE, requested |-> Never]
Verif == [sid : Sids, phone : Phones, status : VerifStatuses, at : Times]

(* A session or a task remembers the phone it works for, the row it has    *)
(* read, and, for the properties only, whether the phone was verified when *)
(* it, or the request that queued it, read the database.                   *)
SessionPCs == {"idle", "load", "clear", "save_phone", "enqueue_send", "save_requested",
               "save_expired", "enqueue_check", "save_submitted"}
Session == [pc : SessionPCs, phone : Phones \union {None}, row : Phone \union {NoPhone},
            number : Numbers \union {None}, verif : Nat, pin : BOOLEAN, seen : BOOLEAN]
Idle == [pc |-> "idle", phone |-> None, row |-> NoPhone, number |-> None, verif |-> 0,
         pin |-> FALSE, seen |-> FALSE]
TaskPCs == {"free", "send", "save_sent", "check", "read_check", "save_check", "done"}
Task == [pc : TaskPCs, phone : Phones \union {None}, row : Phone \union {NoPhone},
         sid : Sids \union {None}, verif : Nat, pin : BOOLEAN, status : VerifStatuses,
         seen : BOOLEAN]
Free == [pc |-> "free", phone |-> None, row |-> NoPhone, sid |-> None, verif |-> 0,
         pin |-> FALSE, status |-> "pending", seen |-> FALSE]

TypeOK ==
  /\ phones \in [Phones -> Phone \union {NoPhone}]
  /\ verifs \in Seq(Verif)
  /\ twilio \in [Sids -> [number : Numbers \union {None},
                          state : {"none", "pending", "approved", "over"}]]
  /\ ses \in [Web -> Session]
  /\ tasks \in [Tasks -> Task]
  /\ now \in Times

Init ==
  /\ phones = [p \in Phones |-> NoPhone]
  /\ verifs = <<>>
  /\ twilio = [v \in Sids |-> [number |-> None, state |-> "none"]]
  /\ ses = [s \in Web |-> Idle]
  /\ tasks = [t \in Tasks |-> Free]
  /\ now = 0

Exists(p) == phones[p] # NoPhone
Verified == {p \in Phones : phones[p].status = "verified"}

(* Profile.phone: .last() of the primary phones, by primary key.           *)
PrimaryPhones == {p \in Phones : phones[p].primary}
IsProfilePhone(p) == p \in PrimaryPhones /\ \A q \in PrimaryPhones : q <= p

(* The permission to change or to verify a phone: it is not confirmed.     *)
IsPhoneUnconfirmed(p) == IsProfilePhone(p) /\ p \notin Verified

-----------------------------------------------------------------------------
(* Setting a number.                                                       *)

(* post(): permissions and the conflict with a phone that is there.        *)
PostPhone(s) ==
  \E n \in Numbers :
    /\ ses[s].pc = "idle"
    /\ PrimaryPhones = {}
    /\ ses' = [ses EXCEPT ![s] = [Idle EXCEPT !.pc = "clear", !.number = n]]
    /\ UNCHANGED <<phones, verifs, twilio, tasks, now>>

(* put(): permissions, and validate_number() refuses the number at hand.   *)
PutPhone(s) ==
  \E n \in Numbers, p \in Phones :
    /\ ses[s].pc = "idle"
    /\ IsPhoneUnconfirmed(p)
    /\ phones[p].number # n
    /\ ses' = [ses EXCEPT ![s] = [Idle EXCEPT !.pc = "load", !.number = n]]
    /\ UNCHANGED <<phones, verifs, twilio, tasks, now>>

(* perform_update() takes the first phone with that number, if any.        *)
LoadSameNumber(s) ==
  LET same == {p \in Phones : Exists(p) /\ phones[p].number = ses[s].number}
  IN /\ ses[s].pc = "load"
     /\ \/ same = {} /\ ses' = [ses EXCEPT ![s].pc = "clear"]
        \/ \E first \in same :
             /\ \A p \in same : first <= p
             /\ ses' = [ses EXCEPT ![s] = [@ EXCEPT !.pc = "clear", !.phone = first,
                           !.row = phones[first], !.seen = first \in Verified]]
     /\ UNCHANGED <<phones, verifs, twilio, tasks, now>>

ClearPrimary(s) ==
  /\ ses[s].pc = "clear"
  /\ phones' = [p \in Phones |-> IF Exists(p) THEN [phones[p] EXCEPT !.primary = FALSE]
                                              ELSE NoPhone]
  /\ ses' = [ses EXCEPT ![s].pc = "save_phone"]
  /\ UNCHANGED <<verifs, twilio, tasks, now>>

(* The serializer inserts a phone, or saves the row it was given.          *)
SavePhone(s) ==
  /\ ses[s].pc = "save_phone"
  /\ \E p \in Phones :
       /\ IF ses[s].phone = None THEN ~Exists(p) ELSE p = ses[s].phone
       /\ phones' = [phones EXCEPT ![p] =
                       [ses[s].row EXCEPT !.number = ses[s].number, !.primary = TRUE]]
  /\ ses' = [ses EXCEPT ![s] = Idle]
  /\ UNCHANGED <<verifs, twilio, tasks, now>>

-----------------------------------------------------------------------------
(* Asking for a code, by SMS or by call.                                   *)

OfNumber(n) == {i \in DOMAIN verifs : phones[verifs[i].phone].number = n}

(* The latest code_requested_at of the profile: descending order puts the  *)
(* phones without one first.                                               *)
LastRequest ==
  LET requested == {phones[p].requested : p \in {q \in Phones : Exists(q)}}
  IN IF Never \in requested THEN Never
     ELSE CHOOSE t \in requested : \A u \in requested : u <= t

(* PhoneVerificationQuerySet.failed() and created_in_last().               *)
FailedAttempts(n) ==
  {i \in OfNumber(n) : verifs[i].at >= now - FailedWindow /\ verifs[i].status # "approved"}

(* ResendVerificationSMSLimiter.get_limit().                               *)
NextCode(n) ==
  LET last == CHOOSE i \in OfNumber(n) : \A j \in OfNumber(n) : j <= i
      afterRequest == IF LastRequest = Never THEN now ELSE LastRequest + SendLimit
  IN IF OfNumber(n) = {} THEN afterRequest
     ELSE IF Cardinality(FailedAttempts(n)) >= FailedCount THEN verifs[last].at + FailedWindow
     ELSE IF verifs[last].status = "max_attempts_reached" THEN verifs[last].at + SessionLifetime
     ELSE afterRequest

(* Variant: a phone that is confirmed already may be verified again.       *)
RequestCodeAnyway(s) ==
  \E p \in Phones :
    /\ ses[s].pc = "idle"
    /\ IsProfilePhone(p)
    /\ ~IsThrottled(NextCode(phones[p].number), now)
    /\ ses' = [ses EXCEPT ![s] = [Idle EXCEPT !.pc = "enqueue_send", !.phone = p,
                                  !.row = phones[p], !.seen = p \in Verified]]
    /\ UNCHANGED <<phones, verifs, twilio, tasks, now>>

(* check_permissions() and the limiter.                                    *)
RequestCode(s) ==
  \E p \in Phones :
    /\ ses[s].pc = "idle"
    /\ IsPhoneUnconfirmed(p)
    /\ ~IsThrottled(NextCode(phones[p].number), now)
    /\ ses' = [ses EXCEPT ![s] = [Idle EXCEPT !.pc = "enqueue_send", !.phone = p,
                                  !.row = phones[p], !.seen = p \in Verified]]
    /\ UNCHANGED <<phones, verifs, twilio, tasks, now>>

(* Put a task on the queue.                                                *)
Enqueue(s, pc, next) ==
  \E t \in Tasks :
    /\ tasks[t].pc = "free"
    /\ tasks' = [tasks EXCEPT ![t] =
                   [Free EXCEPT !.pc = pc, !.phone = ses[s].phone, !.verif = ses[s].verif,
                                !.pin = ses[s].pin, !.seen = ses[s].seen]]
    /\ ses' = [ses EXCEPT ![s].pc = next]
    /\ UNCHANGED <<phones, verifs, twilio, now>>

EnqueueSend(s) == ses[s].pc = "enqueue_send" /\ Enqueue(s, "send", "save_requested")

(* set_code_requested()                                                    *)
SaveRequested(s) ==
  /\ ses[s].pc = "save_requested"
  /\ phones' = [phones EXCEPT ![ses[s].phone] =
                  [ses[s].row EXCEPT !.status = "code_requested", !.requested = now]]
  /\ ses' = [ses EXCEPT ![s] = Idle]
  /\ UNCHANGED <<verifs, twilio, tasks, now>>

-----------------------------------------------------------------------------
(* Submitting a pin.                                                       *)

PendingOf(p) ==
  {i \in DOMAIN verifs :
     verifs[i].phone = p /\ verifs[i].status = "pending" /\ verifs[i].at >= now - SessionLifetime}

(* check_phone_verification(): conflict unless a code was sent; the latest *)
(* pending verification of the session is checked.                         *)
SubmitPin(s) ==
  \E p \in Phones :
    /\ ses[s].pc = "idle"
    /\ IsPhoneUnconfirmed(p)
    /\ phones[p].status \in {"code_sent", "code_incorrect"}
    /\ \/ /\ PendingOf(p) = {}
          /\ ses' = [ses EXCEPT ![s] = [Idle EXCEPT !.pc = "save_expired", !.phone = p,
                                                    !.row = phones[p]]]
       \/ \E pin \in BOOLEAN, latest \in PendingOf(p) :
            /\ \A i \in PendingOf(p) : i <= latest
            /\ ses' = [ses EXCEPT ![s] = [Idle EXCEPT !.pc = "enqueue_check", !.phone = p,
                                          !.row = phones[p], !.verif = latest, !.pin = pin]]
    /\ UNCHANGED <<phones, verifs, twilio, tasks, now>>

SaveExpired(s) ==
  /\ ses[s].pc = "save_expired"
  /\ phones' = [phones EXCEPT ![ses[s].phone] = [ses[s].row EXCEPT !.status = "expired"]]
  /\ ses' = [ses EXCEPT ![s] = Idle]
  /\ UNCHANGED <<verifs, twilio, tasks, now>>

EnqueueCheck(s) == ses[s].pc = "enqueue_check" /\ Enqueue(s, "check", "save_submitted")

(* set_code_submitted()                                                    *)
SaveSubmitted(s) ==
  /\ ses[s].pc = "save_submitted"
  /\ phones' = [phones EXCEPT ![ses[s].phone] = [ses[s].row EXCEPT !.status = "code_submitted"]]
  /\ ses' = [ses EXCEPT ![s] = Idle]
  /\ UNCHANGED <<verifs, twilio, tasks, now>>

-----------------------------------------------------------------------------
(* The task send_verification_code.                                        *)

Done(t) == tasks' = [tasks EXCEPT ![t] = [Free EXCEPT !.pc = "done"]]

(* TwilioVerifyAPI.send_verification_code(): Twilio begins a verification  *)
(* of the number, or sends another code of the one that is pending.        *)
TwilioSends(number, v) ==
  /\ \/ twilio[v] = [number |-> number, state |-> "pending"]
     \/ /\ twilio[v].state = "none"
        /\ \A u \in Sids : ~(twilio[u].number = number /\ twilio[u].state = "pending")
  /\ twilio' = [twilio EXCEPT ![v] = [number |-> number, state |-> "pending"]]

(* The sid of the verification created last, of whatever phone.            *)
LastSid == IF verifs = <<>> THEN None ELSE verifs[Len(verifs)].sid

(* Variant: too many requests leave the verification pending.              *)
SendCallPending(t) ==
  LET p == tasks[t].phone
  IN /\ tasks[t].pc = "send"
     /\ \/ \E v \in Sids :
             /\ TwilioSends(phones[p].number, v)
             /\ tasks' = [tasks EXCEPT ![t].pc = "save_sent", ![t].row = phones[p], ![t].sid = v]
        \/ /\ LastSid # None
           /\ tasks' = [tasks EXCEPT ![t].pc = "save_sent", ![t].row = phones[p],
                                     ![t].sid = LastSid]
           /\ UNCHANGED twilio
     /\ UNCHANGED <<phones, verifs, ses, now>>

(* Twilio sends the code, or has had too many requests: the verification   *)
(* created last is then taken for this one, and the task fails if there is *)
(* none.  The phone is read just before the call.                          *)
SendCall(t) ==
  LET p == tasks[t].phone
  IN /\ tasks[t].pc = "send"
     /\ \/ \E v \in Sids :
             /\ TwilioSends(phones[p].number, v)
             /\ tasks' = [tasks EXCEPT ![t].pc = "save_sent", ![t].row = phones[p], ![t].sid = v]
        \/ /\ LastSid # None
           /\ tasks' = [tasks EXCEPT ![t].pc = "save_sent", ![t].row = phones[p],
                                     ![t].sid = LastSid, ![t].status = "max_attempts_reached"]
           /\ UNCHANGED twilio
     /\ UNCHANGED <<phones, verifs, ses, now>>

(* PhoneVerification.submit(): the row with this sid and phone is updated, *)
(* or one is created.                                                      *)
Submit(sid, p, status) ==
  IF \E i \in DOMAIN verifs : verifs[i].sid = sid /\ verifs[i].phone = p
    THEN [i \in DOMAIN verifs |->
            IF verifs[i].sid = sid /\ verifs[i].phone = p
              THEN [verifs[i] EXCEPT !.status = status] ELSE verifs[i]]
    ELSE Append(verifs, [sid |-> sid, phone |-> p, status |-> status, at |-> now])

SendSave(t) ==
  LET task == tasks[t]
  IN /\ task.pc = "save_sent"
     /\ verifs' = Submit(task.sid, task.phone, task.status)
     /\ phones' = [phones EXCEPT ![task.phone] =
                     [task.row EXCEPT !.status = IF task.status = "pending"
                                                   THEN "code_sent" ELSE task.status]]
     /\ Done(t)
     /\ UNCHANGED <<twilio, ses, now>>

-----------------------------------------------------------------------------
(* The task check_verification_code.                                       *)

(* TwilioVerifyAPI.check_verification_code() and                           *)
(* get_status_from_twilio_response(): a verification that is over, and one *)
(* may end at any time, is not found; a wrong pin leaves it pending or is  *)
(* one too many.                                                           *)
TwilioChecks(v, pin, status) ==
  CASE status = "approved" ->
         pin /\ twilio[v].state = "pending" /\ twilio' = [twilio EXCEPT ![v].state = "approved"]
    [] status = "expired" ->
         twilio' = IF twilio[v].state = "pending"
                     THEN [twilio EXCEPT ![v].state = "over"] ELSE twilio
    [] OTHER -> ~pin /\ twilio[v].state = "pending" /\ UNCHANGED twilio

(* The verification is read and its sid is checked.                        *)
CheckCall(t) ==
  /\ tasks[t].pc = "check"
  /\ \E status \in VerifStatuses :
       /\ TwilioChecks(verifs[tasks[t].verif].sid, tasks[t].pin, status)
       /\ tasks' = [tasks EXCEPT ![t].pc = "read_check", ![t].status = status]
  /\ UNCHANGED <<phones, verifs, ses, now>>

(* The check reads its verification and the phone of it again.             *)
CheckRead(t) ==
  /\ tasks[t].pc = "read_check"
  /\ tasks' = [tasks EXCEPT ![t].pc = "save_check", ![t].row = phones[tasks[t].phone]]
  /\ UNCHANGED <<phones, verifs, twilio, ses, now>>

(* Variant: the phone takes the status of Twilio as it is.                  *)
PhoneStatusOfTwilio(status) == IF status = "approved" THEN "verified" ELSE status

(* Variant: a pin that Twilio did not find wrong is taken for a right one. *)
PhoneStatusOfLenient(status) ==
  CASE status = "max_attempts_reached" -> status
    [] status = "pending" -> "code_incorrect"
    [] OTHER -> "verified"

(* twilio_to_phone_status_map                                              *)
PhoneStatusOf(status) ==
  CASE status = "pending" -> "code_incorrect"
    [] status = "approved" -> "verified"
    [] OTHER -> status

(* set_status() of the check, in one transaction.                          *)
SetStatus(t) ==
  LET task == tasks[t]
  IN /\ task.pc = "save_check"
     /\ verifs' = [verifs EXCEPT ![task.verif].status = task.status]
     /\ phones' = [phones EXCEPT ![task.phone] =
                     [task.row EXCEPT !.status = PhoneStatusOf(task.status)]]
     /\ Done(t)
     /\ UNCHANGED <<twilio, ses, now>>

-----------------------------------------------------------------------------
(* A worker that dies takes no further step: the message was acknowledged  *)
(* when the task was taken, and a check that waits too long is never run.   *)

Tick ==
  /\ now < MaxTime
  /\ now' = now + 1
  /\ UNCHANGED <<phones, verifs, twilio, ses, tasks>>

WebStep(s) ==
  \/ PostPhone(s) \/ PutPhone(s) \/ LoadSameNumber(s) \/ ClearPrimary(s) \/ SavePhone(s)
  \/ RequestCode(s) \/ EnqueueSend(s) \/ SaveRequested(s)
  \/ SubmitPin(s) \/ SaveExpired(s) \/ EnqueueCheck(s) \/ SaveSubmitted(s)

TaskStep(t) ==
  \/ SendCall(t) \/ SendSave(t) \/ CheckCall(t) \/ CheckRead(t) \/ SetStatus(t)

Next ==
  \/ \E s \in Web : WebStep(s)
  \/ \E t \in Tasks : TaskStep(t)
  \/ Tick

Spec == Init /\ [][Next]_vars

-----------------------------------------------------------------------------
(* A phone that is verified had its number approved by Twilio, whichever   *)
(* sid a rejected request has put into the table, and however late or      *)
(* often checks answer (tasks.py, send and check; models.py, set_status).  *)
VerifiedWasApproved ==
  \A p \in Verified :
    \E v \in Sids : twilio[v].number = phones[p].number /\ twilio[v].state = "approved"

(* A pending verification, the only kind pins are checked against, has the *)
(* sid of a verification of the number of its phone, although a request    *)
(* that Twilio rejects records the sid of any phone.                       *)
PendingIsOwn ==
  \A i \in DOMAIN verifs :
    verifs[i].status = "pending" => twilio[verifs[i].sid].number = phones[verifs[i].phone].number

(* A phone that is verified loses that status only to work begun before:   *)
(* no request that reads it later, nor a task of such a request, writes    *)
(* over the confirmation (views.py, check_permissions).                    *)
OnlyOlderWorkUnverifies ==
  [][\A p \in Verified : phones'[p].status # "verified" =>
       \/ \E s \in Web : ses'[s] # ses[s] /\ ~ses[s].seen
       \/ \E t \in Tasks : tasks'[t] # tasks[t] /\ ~tasks[t].seen]_vars

=============================================================================
