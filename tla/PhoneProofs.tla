----------------------------- MODULE PhoneProofs -----------------------------
(***************************************************************************)
(* Proofs about PhoneVerification, for any phones, numbers, sessions of    *)
(* the API, tasks and verifications of Twilio, and any settings.           *)
(***************************************************************************)
EXTENDS PhoneVerification, SequenceTheorems, TLAPS

-----------------------------------------------------------------------------
(* The inductive invariant.                                                *)

Approved(n) == \E v \in Sids : twilio[v].number = n /\ twilio[v].state = "approved"

(* What a row, or a copy of one, says of a confirmation is true.           *)
Good(row) == row.status = "verified" => Approved(row.number)

(* The copy is one of the phone, which never changes its number.           *)
CopyOf(row, p) ==
  p \in Phones /\ Exists(p) /\ row \in Phone /\ row.number = phones[p].number

(* The verification is one that Twilio made of the number of the phone.    *)
Own(i, p) ==
  /\ p \in Phones /\ Exists(p)
  /\ i \in DOMAIN verifs /\ verifs[i].phone = p
  /\ twilio[verifs[i].sid].number = phones[p].number

WithNumber == {"load", "clear", "save_phone"}
WithPhone == {"enqueue_send", "save_requested", "save_expired", "enqueue_check",
              "save_submitted"}

(* A session at work knows its phone; only one that sets a number has ever *)
(* seen that phone verified, and then saves it as it was.                  *)
SessionIsGood(x) ==
  /\ x.pc \in WithNumber => x.number \in Numbers
  /\ x.pc \in WithNumber /\ x.phone = None => x.row = NoPhone
  /\ x.pc \in WithNumber /\ x.phone # None =>
       CopyOf(x.row, x.phone) /\ x.row.number = x.number
  /\ x.pc = "load" => x.phone = None
  /\ x.pc \in WithPhone => CopyOf(x.row, x.phone)
  /\ x.pc = "enqueue_check" => Own(x.verif, x.phone)
  /\ Good(x.row)
  /\ x.seen => x.pc \in WithNumber /\ x.row.status = "verified"

(* A task knows its phone, and what Twilio has told it is of its number.   *)
TaskIsGood(x) ==
  /\ x.pc = "send" => x.phone \in Phones /\ Exists(x.phone) /\ x.status = "pending"
  /\ x.pc \in {"save_sent", "save_check"} => CopyOf(x.row, x.phone)
  /\ x.pc = "save_sent" =>
       /\ x.sid \in Sids
       /\ x.status \in {"pending", "max_attempts_reached"}
       /\ x.status = "pending" => twilio[x.sid].number = phones[x.phone].number
  /\ x.pc \in {"check", "read_check", "save_check"} => Own(x.verif, x.phone)
  /\ x.pc \in {"read_check", "save_check"} /\ x.status = "approved" =>
       Approved(phones[x.phone].number)
  /\ Good(x.row)
  /\ ~x.seen

VerifIsGood(x) ==
  /\ Exists(x.phone)
  /\ x.status = "pending" => twilio[x.sid].number = phones[x.phone].number

(* A verification that Twilio has not begun is of no number.               *)
TwilioIsGood ==
  \A v \in Sids : twilio[v].state = "none" => twilio[v].number = None

IInv ==
  /\ TypeOK
  /\ TwilioIsGood
  /\ \A p \in Phones : Good(phones[p])
  /\ \A i \in DOMAIN verifs : VerifIsGood(verifs[i])
  /\ \A s \in Web : SessionIsGood(ses[s])
  /\ \A t \in Tasks : TaskIsGood(tasks[t])

-----------------------------------------------------------------------------
USE DEF WithNumber, WithPhone

LEMMA RowsHaveType ==
  /\ NoPhone \notin Phone /\ NoPhone.status = "unconfirmed" /\ NoPhone.number = None
  /\ Idle \in Session /\ Free \in Task
  /\ \A p \in Phone : p.number \in Numbers /\ p.status \in PhoneStatuses
  /\ None \notin Numbers /\ None \notin Phones /\ None \notin Sids
BY NoneIsNothing DEF NoPhone, Phone, Idle, Session, SessionPCs, Free, Task, TaskPCs,
                     PhoneStatuses, VerifStatuses

LEMMA VerifsHaveType ==
  ASSUME TypeOK
  PROVE  /\ Len(verifs) \in Nat /\ DOMAIN verifs = 1..Len(verifs)
         /\ \A i \in DOMAIN verifs :
              /\ verifs[i] \in Verif
              /\ verifs[i].sid \in Sids /\ verifs[i].phone \in Phones
<1>1. verifs \in Seq(Verif)
  BY DEF TypeOK
<1>2. Len(verifs) \in Nat /\ DOMAIN verifs = 1..Len(verifs)
  BY <1>1, LenProperties
<1>3. ASSUME NEW i \in DOMAIN verifs PROVE verifs[i] \in Verif
  BY <1>1, <1>2, ElementOfSeq
<1> QED
  BY <1>2, <1>3 DEF Verif

LEMMA SavedRowsHaveType ==
  ASSUME NEW row \in Phone \union {NoPhone}, NEW n \in Numbers
  PROVE  /\ [row EXCEPT !.number = n, !.primary = TRUE] \in Phone
         /\ [row EXCEPT !.number = n, !.primary = TRUE].number = n
         /\ [row EXCEPT !.number = n, !.primary = TRUE].status = row.status
<1>1. PICK b \in BOOLEAN : b = TRUE
  OBVIOUS
<1>2. row \in [number : Numbers \union {None}, status : PhoneStatuses, primary : BOOLEAN,
               requested : Times \union {Never}]
  <2>1. CASE row \in Phone
    BY <2>1 DEF Phone
  <2>2. CASE row = NoPhone
    BY <2>2 DEF NoPhone, PhoneStatuses
  <2> QED
    BY <2>1, <2>2
<1>3. /\ [row EXCEPT !.number = n, !.primary = b] \in Phone
      /\ [row EXCEPT !.number = n, !.primary = b].number = n
      /\ [row EXCEPT !.number = n, !.primary = b].status = row.status
  BY <1>2 DEF Phone
<1> QED
  BY <1>1, <1>3

LEMMA PhonesExist ==
  ASSUME TypeOK, NEW p \in Phones
  PROVE  Exists(p) <=> phones[p] \in Phone
BY RowsHaveType DEF TypeOK, Exists

LEMMA InitInvariant == Init => IInv
<1> SUFFICES ASSUME Init PROVE IInv
  OBVIOUS
<1> USE DEF Init
<1>1. \A s \in Web : ses[s] = Idle
  OBVIOUS
<1>2. \A t \in Tasks : tasks[t] = Free
  OBVIOUS
<1>3. TypeOK
  <2>1. phones \in [Phones -> Phone \union {NoPhone}]
    OBVIOUS
  <2>2. verifs \in Seq(Verif)
    BY EmptySeq
  <2>3. ses \in [Web -> Session] /\ tasks \in [Tasks -> Task]
    BY RowsHaveType
  <2>4. now \in Times
    BY SettingsAreNat DEF Times
  <2> QED
    BY <2>1, <2>2, <2>3, <2>4 DEF TypeOK
<1>4. SessionIsGood(Idle)
  BY DEF SessionIsGood, Good, Idle, NoPhone
<1>5. TaskIsGood(Free)
  BY DEF TaskIsGood, Good, Free, NoPhone
<1>6. DOMAIN verifs = {}
  BY <1>3, VerifsHaveType, EmptySeq
<1> QED
  BY <1>1, <1>2, <1>3, <1>4, <1>5, <1>6, RowsHaveType DEF IInv, Good, TwilioIsGood

-----------------------------------------------------------------------------
(* What only grows: phones keep their number, verifications their sid and  *)
(* phone, and Twilio's records what they say of a number.                  *)
PhonesGrow ==
  \A p \in Phones : Exists(p) => Exists(p)' /\ phones'[p].number = phones[p].number

VerifsGrow ==
  \A i \in DOMAIN verifs :
    /\ i \in DOMAIN verifs'
    /\ verifs'[i].sid = verifs[i].sid /\ verifs'[i].phone = verifs[i].phone

TwilioGrows ==
  \A v \in Sids :
    /\ twilio[v].number # None => twilio'[v].number = twilio[v].number
    /\ twilio[v].state = "approved" => twilio'[v].state = "approved"

LEMMA ApprovedStays ==
  ASSUME TwilioGrows, NEW n \in Numbers, Approved(n)
  PROVE  Approved(n)'
<1>1. PICK v \in Sids : twilio[v].number = n /\ twilio[v].state = "approved"
  BY DEF Approved
<1>2. twilio'[v].number = n /\ twilio'[v].state = "approved"
  BY <1>1, RowsHaveType DEF TwilioGrows
<1> QED
  BY <1>2 DEF Approved

LEMMA GoodStays ==
  ASSUME TwilioGrows, NEW row \in Phone \union {NoPhone}, Good(row)
  PROVE  Good(row)'
BY ApprovedStays, RowsHaveType DEF Good

LEMMA CopyStays ==
  ASSUME PhonesGrow, NEW row, NEW p, CopyOf(row, p)
  PROVE  CopyOf(row, p)'
BY DEF CopyOf, PhonesGrow

LEMMA OwnStays ==
  ASSUME TypeOK, PhonesGrow, VerifsGrow, TwilioGrows, NEW i, NEW p, Own(i, p)
  PROVE  Own(i, p)'
<1>1. phones[p].number # None /\ verifs[i].sid \in Sids
  BY PhonesExist, VerifsHaveType, RowsHaveType DEF Own
<1> QED
  BY <1>1 DEF Own, PhonesGrow, VerifsGrow, TwilioGrows

LEMMA SessionStays ==
  ASSUME TypeOK, PhonesGrow, VerifsGrow, TwilioGrows, NEW x \in Session, SessionIsGood(x)
  PROVE  SessionIsGood(x)'
<1>1. x.row \in Phone \union {NoPhone}
  BY DEF Session
<1>2. Good(x.row)'
  BY <1>1, GoodStays DEF SessionIsGood
<1> QED
  BY <1>2, CopyStays, OwnStays DEF SessionIsGood

LEMMA TaskStays ==
  ASSUME TypeOK, PhonesGrow, VerifsGrow, TwilioGrows, NEW x \in Task, TaskIsGood(x)
  PROVE  TaskIsGood(x)'
<1>1. x.row \in Phone \union {NoPhone}
  BY DEF Task
<1>2. Good(x.row)'
  BY <1>1, GoodStays DEF TaskIsGood
<1>3. ASSUME x.pc \in {"send", "save_sent", "check", "read_check", "save_check"}
      PROVE  /\ x.phone \in Phones /\ Exists(x.phone)
             /\ phones[x.phone].number \in Numbers
             /\ Exists(x.phone)'
             /\ phones'[x.phone].number = phones[x.phone].number
  <2>1. x.phone \in Phones /\ Exists(x.phone)
    BY <1>3 DEF TaskIsGood, CopyOf, Own
  <2> QED
    BY <2>1, PhonesExist, RowsHaveType DEF PhonesGrow
<1>4. x.pc \in {"save_sent", "save_check"} => CopyOf(x.row, x.phone)'
  BY CopyStays DEF TaskIsGood
<1>5. ASSUME x.pc = "save_sent", x.status = "pending"
      PROVE  twilio'[x.sid].number = phones'[x.phone].number
  BY <1>3, <1>5, RowsHaveType DEF TaskIsGood, TwilioGrows
<1>6. x.pc \in {"check", "read_check", "save_check"} => Own(x.verif, x.phone)'
  BY OwnStays DEF TaskIsGood
<1>7. ASSUME x.pc \in {"read_check", "save_check"}, x.status = "approved"
      PROVE  Approved(phones[x.phone].number)'
  <2>1. PICK n \in Numbers : n = phones[x.phone].number
    BY <1>3, <1>7
  <2>2. Approved(n)'
    BY <1>7, <2>1, ApprovedStays DEF TaskIsGood
  <2> QED
    BY <1>3, <1>7, <2>1, <2>2 DEF Approved
<1> QED
  BY <1>2, <1>3, <1>4, <1>5, <1>6, <1>7 DEF TaskIsGood

LEMMA VerifStays ==
  ASSUME PhonesGrow, TwilioGrows, TypeOK, NEW x \in Verif, VerifIsGood(x)
  PROVE  VerifIsGood(x)'
<1>1. x.sid \in Sids /\ x.phone \in Phones
  BY DEF Verif
<1>2. phones[x.phone].number # None
  BY <1>1, PhonesExist, RowsHaveType DEF VerifIsGood
<1> QED
  BY <1>1, <1>2 DEF VerifIsGood, PhonesGrow, TwilioGrows

(* It is enough to look at the rows and the copies that a step changes.    *)
LEMMA ChangesAreGood ==
  ASSUME IInv, TypeOK', PhonesGrow, VerifsGrow, TwilioGrows, TwilioIsGood',
         \A p \in Phones : phones'[p] = phones[p] \/ Good(phones[p])',
         \A i \in DOMAIN verifs' :
           (i \in DOMAIN verifs /\ verifs'[i] = verifs[i]) \/ VerifIsGood(verifs[i])',
         \A s \in Web : ses'[s] = ses[s] \/ SessionIsGood(ses[s])',
         \A t \in Tasks : tasks'[t] = tasks[t] \/ TaskIsGood(tasks[t])'
  PROVE  IInv'
<1>1. ASSUME NEW p \in Phones PROVE Good(phones[p])'
  <2>1. PICK x \in Phone \union {NoPhone} : x = phones[p]
    BY DEF IInv, TypeOK
  <2>2. Good(x)'
    BY <2>1, GoodStays DEF IInv
  <2> QED
    BY <2>1, <2>2 DEF Good, Approved
<1>2. ASSUME NEW i \in DOMAIN verifs' PROVE VerifIsGood(verifs[i])'
  <2>1. CASE i \in DOMAIN verifs /\ verifs'[i] = verifs[i]
    <3>1. PICK x \in Verif : x = verifs[i]
      BY <2>1, VerifsHaveType DEF IInv
    <3>2. VerifIsGood(x)'
      BY <2>1, <3>1, VerifStays DEF IInv
    <3> QED
      BY <2>1, <3>1, <3>2 DEF VerifIsGood, Exists
  <2> QED
    BY <2>1
<1>3. ASSUME NEW s \in Web PROVE SessionIsGood(ses[s])'
  <2>1. CASE ses'[s] = ses[s]
    <3>1. PICK x \in Session : x = ses[s]
      BY DEF IInv, TypeOK
    <3>2. SessionIsGood(x)'
      BY <3>1, SessionStays DEF IInv
    <3> QED
      BY <2>1, <3>1, <3>2 DEF SessionIsGood, CopyOf, Own, Good, Approved
  <2> QED
    BY <2>1
<1>4. ASSUME NEW t \in Tasks PROVE TaskIsGood(tasks[t])'
  <2>1. CASE tasks'[t] = tasks[t]
    <3>1. PICK x \in Task : x = tasks[t]
      BY DEF IInv, TypeOK
    <3>2. TaskIsGood(x)'
      BY <3>1, TaskStays DEF IInv
    <3> QED
      BY <2>1, <3>1, <3>2 DEF TaskIsGood, CopyOf, Own, Good, Approved, Exists
  <2> QED
    BY <2>1
<1> QED
  BY <1>1, <1>2, <1>3, <1>4 DEF IInv

-----------------------------------------------------------------------------
(* The shapes of a step of a session.                                      *)

LEMMA SessionMoves ==
  ASSUME IInv, UNCHANGED <<phones, verifs, twilio, tasks, now>>,
         NEW s \in Web, NEW x \in Session, SessionIsGood(x), ses' = [ses EXCEPT ![s] = x]
  PROVE  IInv'
<1>1. /\ ses' \in [Web -> Session] /\ ses'[s] = x
      /\ \A r \in Web : r # s => ses'[r] = ses[r]
  BY DEF IInv, TypeOK
<1>2. TypeOK'
  BY <1>1 DEF IInv, TypeOK
<1>3. PhonesGrow /\ VerifsGrow /\ TwilioGrows /\ TwilioIsGood'
  BY DEF PhonesGrow, VerifsGrow, TwilioGrows, TwilioIsGood, IInv, Exists
<1>4. SessionIsGood(x)'
  BY <1>2, <1>3, SessionStays DEF IInv
<1>5. SessionIsGood(ses[s])'
  BY <1>1, <1>4 DEF SessionIsGood, CopyOf, Own, Good, Approved
<1> QED
  BY <1>1, <1>2, <1>3, <1>5, ChangesAreGood

(* A row is saved: the phone keeps its number, or is a new one.            *)
LEMMA RowSaved ==
  ASSUME IInv, NEW p \in Phones, NEW row \in Phone,
         Exists(p) => row.number = phones[p].number,
         phones' = [phones EXCEPT ![p] = row]
  PROVE  /\ phones' \in [Phones -> Phone \union {NoPhone}]
         /\ phones'[p] = row
         /\ \A q \in Phones : q # p => phones'[q] = phones[q]
         /\ PhonesGrow
<1>1. /\ phones' \in [Phones -> Phone \union {NoPhone}] /\ phones'[p] = row
      /\ \A q \in Phones : q # p => phones'[q] = phones[q]
  BY DEF IInv, TypeOK
<1>2. PhonesGrow
  BY <1>1, RowsHaveType DEF PhonesGrow, Exists
<1> QED
  BY <1>1, <1>2

LEMMA SessionSaves ==
  ASSUME IInv, UNCHANGED <<verifs, twilio, tasks, now>>,
         NEW s \in Web, ses' = [ses EXCEPT ![s] = Idle],
         NEW p \in Phones, NEW row \in Phone, Good(row),
         Exists(p) => row.number = phones[p].number,
         phones' = [phones EXCEPT ![p] = row]
  PROVE  IInv'
<1>1. /\ ses' \in [Web -> Session] /\ ses'[s] = Idle
      /\ \A r \in Web : r # s => ses'[r] = ses[r]
  BY RowsHaveType DEF IInv, TypeOK
<1>2. /\ phones' \in [Phones -> Phone \union {NoPhone}]
      /\ phones'[p] = row /\ PhonesGrow
      /\ \A q \in Phones : q # p => phones'[q] = phones[q]
  BY RowSaved
<1>3. TypeOK'
  BY <1>1, <1>2 DEF IInv, TypeOK
<1>4. VerifsGrow /\ TwilioGrows /\ TwilioIsGood'
  BY DEF VerifsGrow, TwilioGrows, TwilioIsGood, IInv
<1>5. Good(phones[p])'
  BY <1>2 DEF Good, Approved
<1>6. SessionIsGood(ses[s])'
  BY <1>1 DEF SessionIsGood, Good, Idle, NoPhone
<1> QED
  BY <1>1, <1>2, <1>3, <1>4, <1>5, <1>6, ChangesAreGood

LEMMA ClearPrimaryKeeps ==
  ASSUME IInv, NEW s \in Web, ClearPrimary(s)
  PROVE  IInv'
<1> DEFINE x == [ses[s] EXCEPT !.pc = "save_phone"]
<1>1. ses[s] \in Session /\ SessionIsGood(ses[s]) /\ ses[s].pc = "clear"
  BY DEF IInv, TypeOK, ClearPrimary
<1>2. /\ x \in Session /\ x.pc = "save_phone" /\ x.row = ses[s].row /\ x.phone = ses[s].phone
      /\ x.number = ses[s].number /\ x.seen = ses[s].seen
  BY <1>1 DEF Session, SessionPCs
<1>3. ses' = [ses EXCEPT ![s] = x]
  BY DEF ClearPrimary
<1>4. SessionIsGood(x)
  BY <1>1, <1>2 DEF SessionIsGood
<1> HIDE DEF x
<1>5. /\ ses' \in [Web -> Session] /\ ses'[s] = x
      /\ \A r \in Web : r # s => ses'[r] = ses[r]
  BY <1>2, <1>3 DEF IInv, TypeOK
<1>6. \A p \in Phones :
        /\ phones'[p] \in Phone \union {NoPhone}
        /\ phones'[p].number = phones[p].number /\ phones'[p].status = phones[p].status
        /\ Exists(p) => Exists(p)'
  <2>1. ASSUME NEW p \in Phones
        PROVE  /\ phones'[p] \in Phone \union {NoPhone}
               /\ phones'[p].number = phones[p].number /\ phones'[p].status = phones[p].status
               /\ Exists(p) => Exists(p)'
    <3>1. CASE phones[p] \in Phone
      <4>1. phones'[p] = [phones[p] EXCEPT !.primary = FALSE]
        BY <3>1, RowsHaveType DEF ClearPrimary, Exists
      <4>2. /\ phones'[p] \in Phone /\ phones'[p].number = phones[p].number
            /\ phones'[p].status = phones[p].status
        <5>1. PICK b \in BOOLEAN : b = FALSE
          OBVIOUS
        <5>2. phones'[p] = [phones[p] EXCEPT !.primary = b]
          BY <4>1, <5>1
        <5> QED
          BY <3>1, <5>2 DEF Phone
      <4> QED
        BY <4>2, RowsHaveType DEF Exists
    <3>2. CASE phones[p] = NoPhone
      BY <3>2 DEF ClearPrimary, Exists
    <3> QED
      BY <3>1, <3>2 DEF IInv, TypeOK
  <2> QED
    BY <2>1
<1>7. phones' \in [Phones -> Phone \union {NoPhone}]
  <2>1. DOMAIN phones' = Phones /\ phones' = [p \in Phones |-> phones'[p]]
    BY DEF ClearPrimary
  <2> QED
    BY <1>6, <2>1
<1>8. TypeOK'
  BY <1>5, <1>7 DEF IInv, TypeOK, ClearPrimary
<1>9. VerifsGrow /\ TwilioGrows /\ TwilioIsGood' /\ PhonesGrow
  BY <1>6 DEF VerifsGrow, TwilioGrows, TwilioIsGood, IInv, ClearPrimary, PhonesGrow
<1>10. \A p \in Phones : Good(phones[p])'
  BY <1>6 DEF IInv, Good, Approved, ClearPrimary
<1>11. SessionIsGood(ses[s])'
  <2>1. PICK y \in Session : y = x
    BY <1>2
  <2>2. SessionIsGood(y)'
    BY <1>4, <1>9, <2>1, SessionStays DEF IInv
  <2> QED
    BY <1>5, <2>1, <2>2 DEF SessionIsGood, CopyOf, Own, Good, Approved
<1> QED
  BY <1>5, <1>8, <1>9, <1>10, <1>11, ChangesAreGood DEF ClearPrimary

LEMMA EnqueueKeeps ==
  ASSUME IInv, NEW s \in Web, EnqueueSend(s) \/ EnqueueCheck(s)
  PROVE  IInv'
<1>1. ses[s] \in Session /\ SessionIsGood(ses[s])
  BY DEF IInv, TypeOK
<1>2. PICK pc \in {"send", "check"}, next \in {"save_requested", "save_submitted"} :
        /\ Enqueue(s, pc, next) /\ ses[s].pc \in {"enqueue_send", "enqueue_check"}
        /\ pc = "check" => ses[s].pc = "enqueue_check"
  BY DEF EnqueueSend, EnqueueCheck
<1>3. PICK t \in Tasks :
        /\ tasks' = [tasks EXCEPT ![t] =
                       [Free EXCEPT !.pc = pc, !.phone = ses[s].phone, !.verif = ses[s].verif,
                                    !.pin = ses[s].pin, !.seen = ses[s].seen]]
        /\ ses' = [ses EXCEPT ![s].pc = next]
        /\ UNCHANGED <<phones, verifs, twilio, now>>
  BY <1>2 DEF Enqueue
<1> DEFINE x == [ses[s] EXCEPT !.pc = next]
           y == [Free EXCEPT !.pc = pc, !.phone = ses[s].phone, !.verif = ses[s].verif,
                             !.pin = ses[s].pin, !.seen = ses[s].seen]
<1>4. /\ x \in Session /\ x.pc = next /\ x.row = ses[s].row /\ x.phone = ses[s].phone
      /\ x.seen = ses[s].seen
  BY <1>1 DEF Session, SessionPCs
<1>5. /\ y \in Task /\ y.pc = pc /\ y.row = NoPhone /\ y.phone = ses[s].phone
      /\ y.verif = ses[s].verif /\ y.seen = ses[s].seen /\ y.status = "pending"
  BY <1>1 DEF Session, Free, Task, TaskPCs, VerifStatuses
<1>6. ses' = [ses EXCEPT ![s] = x] /\ tasks' = [tasks EXCEPT ![t] = y]
  BY <1>3
<1> HIDE DEF x, y
<1>7. SessionIsGood(x)
  BY <1>1, <1>2, <1>4 DEF SessionIsGood
<1>8. TaskIsGood(y)
  BY <1>1, <1>2, <1>5, RowsHaveType DEF SessionIsGood, TaskIsGood, CopyOf, Good
<1>9. /\ ses' \in [Web -> Session] /\ ses'[s] = x
      /\ \A r \in Web : r # s => ses'[r] = ses[r]
      /\ tasks' \in [Tasks -> Task] /\ tasks'[t] = y
      /\ \A u \in Tasks : u # t => tasks'[u] = tasks[u]
  BY <1>4, <1>5, <1>6 DEF IInv, TypeOK
<1>10. TypeOK'
  BY <1>3, <1>9 DEF IInv, TypeOK
<1>11. VerifsGrow /\ TwilioGrows /\ TwilioIsGood' /\ PhonesGrow
  BY <1>3 DEF VerifsGrow, TwilioGrows, TwilioIsGood, IInv, PhonesGrow, Exists
<1>12. SessionIsGood(ses[s])'
  BY <1>3, <1>7, <1>9 DEF SessionIsGood, CopyOf, Own, Good, Approved, Exists
<1>13. TaskIsGood(tasks[t])'
  BY <1>3, <1>8, <1>9 DEF TaskIsGood, CopyOf, Own, Good, Approved, Exists
<1> QED
  BY <1>3, <1>9, <1>10, <1>11, <1>12, <1>13, ChangesAreGood

-----------------------------------------------------------------------------
(* The steps of a session.                                                 *)

LEMMA PrimaryPhonesExist ==
  ASSUME IInv, NEW p \in Phones, IsPhoneUnconfirmed(p)
  PROVE  /\ phones[p] \in Phone /\ Exists(p) /\ p \notin Verified
         /\ Good(phones[p]) /\ CopyOf(phones[p], p)
<1>1. phones[p].primary /\ p \notin Verified
  BY DEF IsPhoneUnconfirmed, IsProfilePhone, PrimaryPhones
<1>2. phones[p] # NoPhone
  BY <1>1 DEF NoPhone
<1> QED
  BY <1>1, <1>2, PhonesExist DEF IInv, Exists, CopyOf

LEMMA MovesKeep ==
  ASSUME IInv, NEW s \in Web,
         PostPhone(s) \/ PutPhone(s) \/ LoadSameNumber(s) \/ RequestCode(s) \/ SubmitPin(s)
  PROVE  IInv'
<1>1. ses[s] \in Session /\ SessionIsGood(ses[s])
  BY DEF IInv, TypeOK
<1>2. CASE PostPhone(s) \/ PutPhone(s)
  <2>1. PICK n \in Numbers, pc \in {"clear", "load"} :
          /\ ses' = [ses EXCEPT ![s] = [Idle EXCEPT !.pc = pc, !.number = n]]
          /\ UNCHANGED <<phones, verifs, twilio, tasks, now>>
    BY <1>2 DEF PostPhone, PutPhone
  <2> DEFINE x == [Idle EXCEPT !.pc = pc, !.number = n]
  <2>2. /\ x \in Session /\ x.pc = pc /\ x.number = n /\ x.phone = None /\ x.row = NoPhone
        /\ ~x.seen
    BY DEF Idle, Session, SessionPCs
  <2>3. SessionIsGood(x)
    BY <2>2, RowsHaveType DEF SessionIsGood, Good
  <2> HIDE DEF x
  <2> QED
    BY <2>1, <2>2, <2>3, SessionMoves DEF x
<1>3. CASE LoadSameNumber(s)
  <2>1. CASE ses' = [ses EXCEPT ![s].pc = "clear"]
    <3> DEFINE x == [ses[s] EXCEPT !.pc = "clear"]
    <3>1. /\ x \in Session /\ x.pc = "clear" /\ x.number = ses[s].number
          /\ x.phone = ses[s].phone /\ x.row = ses[s].row /\ x.seen = ses[s].seen
      BY <1>1 DEF Session, SessionPCs
    <3>2. SessionIsGood(x)
      BY <1>1, <1>3, <3>1 DEF SessionIsGood, LoadSameNumber
    <3>3. ses' = [ses EXCEPT ![s] = x] /\ UNCHANGED <<phones, verifs, twilio, tasks, now>>
      BY <1>3, <2>1 DEF LoadSameNumber
    <3> HIDE DEF x
    <3> QED
      BY <3>1, <3>2, <3>3, SessionMoves
  <2>2. CASE \E p \in Phones :
               /\ Exists(p) /\ phones[p].number = ses[s].number
               /\ ses' = [ses EXCEPT ![s] = [@ EXCEPT !.pc = "clear", !.phone = p,
                             !.row = phones[p], !.seen = p \in Verified]]
    <3>0. PICK p \in Phones :
            /\ Exists(p) /\ phones[p].number = ses[s].number
            /\ ses' = [ses EXCEPT ![s] = [@ EXCEPT !.pc = "clear", !.phone = p,
                          !.row = phones[p], !.seen = p \in Verified]]
      BY <2>2
    <3>1. PICK seen \in BOOLEAN :
            /\ seen => p \in Verified
            /\ ses' = [ses EXCEPT ![s] = [@ EXCEPT !.pc = "clear", !.phone = p,
                          !.row = phones[p], !.seen = seen]]
      <4>1. CASE p \in Verified
        <5>1. (p \in Verified) = TRUE
          BY <4>1
        <5> QED
          BY <3>0, <4>1, <5>1
      <4>2. CASE p \notin Verified
        <5>1. (p \in Verified) = FALSE
          BY <4>2
        <5> QED
          BY <3>0, <5>1
      <4> QED
        BY <4>1, <4>2
    <3> DEFINE x == [ses[s] EXCEPT !.pc = "clear", !.phone = p, !.row = phones[p],
                                   !.seen = seen]
    <3>2. phones[p] \in Phone /\ Good(phones[p])
      BY <3>0, PhonesExist DEF IInv
    <3>3. /\ x \in Session /\ x.pc = "clear" /\ x.number = ses[s].number
          /\ x.phone = p /\ x.row = phones[p] /\ x.seen = seen
      BY <1>1, <3>1, <3>2 DEF Session, SessionPCs
    <3>4. SessionIsGood(x)
      BY <1>1, <1>3, <3>0, <3>1, <3>2, <3>3, RowsHaveType
         DEF SessionIsGood, LoadSameNumber, CopyOf, Verified
    <3>5. ses' = [ses EXCEPT ![s] = x] /\ UNCHANGED <<phones, verifs, twilio, tasks, now>>
      BY <1>3, <3>1 DEF LoadSameNumber
    <3> HIDE DEF x
    <3> QED
      BY <3>3, <3>4, <3>5, SessionMoves
  <2> QED
    BY <1>3, <2>1, <2>2 DEF LoadSameNumber
<1>4. CASE RequestCode(s)
  <2>0. PICK p \in Phones :
          /\ IsPhoneUnconfirmed(p)
          /\ ses' = [ses EXCEPT ![s] = [Idle EXCEPT !.pc = "enqueue_send", !.phone = p,
                                        !.row = phones[p], !.seen = p \in Verified]]
          /\ UNCHANGED <<phones, verifs, twilio, tasks, now>>
    BY <1>4 DEF RequestCode
  <2>1. /\ phones[p] \in Phone /\ p \notin Verified /\ Good(phones[p])
        /\ CopyOf(phones[p], p)
    BY <2>0, PrimaryPhonesExist
  <2> DEFINE x == [Idle EXCEPT !.pc = "enqueue_send", !.phone = p, !.row = phones[p],
                               !.seen = FALSE]
  <2>2. ses' = [ses EXCEPT ![s] = x]
    <3>1. (p \in Verified) = FALSE
      BY <2>1
    <3> QED
      BY <2>0, <3>1
  <2>3. /\ x \in Session /\ x.pc = "enqueue_send" /\ x.phone = p /\ x.row = phones[p]
        /\ ~x.seen
    BY <2>1 DEF Idle, Session, SessionPCs
  <2>4. SessionIsGood(x)
    BY <2>1, <2>3 DEF SessionIsGood
  <2> HIDE DEF x
  <2> QED
    BY <2>0, <2>2, <2>3, <2>4, SessionMoves
<1>5. CASE SubmitPin(s)
  <2>1. PICK p \in Phones :
          /\ IsPhoneUnconfirmed(p)
          /\ \/ ses' = [ses EXCEPT ![s] = [Idle EXCEPT !.pc = "save_expired", !.phone = p,
                                                       !.row = phones[p]]]
             \/ \E pin \in BOOLEAN, latest \in PendingOf(p) :
                  ses' = [ses EXCEPT ![s] = [Idle EXCEPT !.pc = "enqueue_check", !.phone = p,
                                          !.row = phones[p], !.verif = latest, !.pin = pin]]
          /\ UNCHANGED <<phones, verifs, twilio, tasks, now>>
    BY <1>5 DEF SubmitPin
  <2>2. /\ phones[p] \in Phone /\ Exists(p) /\ Good(phones[p]) /\ CopyOf(phones[p], p)
    BY <2>1, PrimaryPhonesExist
  <2>3. CASE ses' = [ses EXCEPT ![s] = [Idle EXCEPT !.pc = "save_expired", !.phone = p,
                                                    !.row = phones[p]]]
    <3> DEFINE x == [Idle EXCEPT !.pc = "save_expired", !.phone = p, !.row = phones[p]]
    <3>1. /\ x \in Session /\ x.pc = "save_expired" /\ x.phone = p /\ x.row = phones[p]
          /\ ~x.seen
      BY <2>2 DEF Idle, Session, SessionPCs
    <3>2. SessionIsGood(x)
      BY <2>2, <3>1 DEF SessionIsGood
    <3> HIDE DEF x
    <3> QED
      BY <2>1, <2>3, <3>1, <3>2, SessionMoves DEF x
  <2>4. ASSUME NEW pin \in BOOLEAN, NEW latest \in PendingOf(p),
               ses' = [ses EXCEPT ![s] = [Idle EXCEPT !.pc = "enqueue_check", !.phone = p,
                                          !.row = phones[p], !.verif = latest, !.pin = pin]]
        PROVE  IInv'
    <3> DEFINE x == [Idle EXCEPT !.pc = "enqueue_check", !.phone = p, !.row = phones[p],
                                 !.verif = latest, !.pin = pin]
    <3>1. /\ latest \in DOMAIN verifs /\ latest \in Nat
          /\ verifs[latest].phone = p /\ verifs[latest].status = "pending"
      BY VerifsHaveType DEF PendingOf, IInv
    <3>2. /\ x \in Session /\ x.pc = "enqueue_check" /\ x.phone = p /\ x.row = phones[p]
          /\ x.verif = latest /\ ~x.seen
      BY <2>2, <3>1 DEF Idle, Session, SessionPCs
    <3>3. Own(latest, p)
      BY <2>2, <3>1 DEF IInv, VerifIsGood, Own
    <3>4. SessionIsGood(x)
      BY <2>2, <3>2, <3>3 DEF SessionIsGood
    <3> HIDE DEF x
    <3> QED
      BY <2>1, <2>4, <3>2, <3>4, SessionMoves DEF x
  <2> QED
    BY <2>1, <2>3, <2>4
<1> QED
  BY <1>2, <1>3, <1>4, <1>5

LEMMA SavesKeep ==
  ASSUME IInv, NEW s \in Web,
         SavePhone(s) \/ SaveRequested(s) \/ SaveExpired(s) \/ SaveSubmitted(s)
  PROVE  IInv'
<1>1. ses[s] \in Session /\ SessionIsGood(ses[s])
  BY DEF IInv, TypeOK
<1>2. CASE SavePhone(s)
  <2>1. PICK p \in Phones :
          /\ IF ses[s].phone = None THEN ~Exists(p) ELSE p = ses[s].phone
          /\ phones' = [phones EXCEPT ![p] =
                          [ses[s].row EXCEPT !.number = ses[s].number, !.primary = TRUE]]
    BY <1>2 DEF SavePhone
  <2> DEFINE row == [ses[s].row EXCEPT !.number = ses[s].number, !.primary = TRUE]
  <2>2. /\ ses[s].pc = "save_phone" /\ ses[s].number \in Numbers
        /\ ses' = [ses EXCEPT ![s] = Idle] /\ UNCHANGED <<verifs, twilio, tasks, now>>
    BY <1>1, <1>2 DEF SavePhone, SessionIsGood
  <2>3. /\ row \in Phone /\ row.number = ses[s].number /\ row.status = ses[s].row.status
    <3>1. ses[s].row \in Phone \union {NoPhone}
      BY <1>1 DEF Session
    <3> QED
      BY <2>2, <3>1, SavedRowsHaveType
  <2>4. Good(row)
    BY <1>1, <2>2, <2>3, RowsHaveType DEF SessionIsGood, Good
  <2>5. Exists(p) => row.number = phones[p].number
    BY <1>1, <2>1, <2>2, <2>3 DEF SessionIsGood, CopyOf
  <2>6. phones' = [phones EXCEPT ![p] = row]
    BY <2>1
  <2> HIDE DEF row
  <2> QED
    BY <2>2, <2>3, <2>4, <2>5, <2>6, SessionSaves
<1>3. CASE SaveRequested(s) \/ SaveExpired(s) \/ SaveSubmitted(s)
  <2>1. PICK status \in {"code_requested", "expired", "code_submitted"},
             at \in Times \union {ses[s].row.requested} :
          phones' = [phones EXCEPT ![ses[s].phone] =
                       [ses[s].row EXCEPT !.status = status, !.requested = at]]
    <3>1. now \in Times /\ ses[s].pc \in WithPhone
      BY <1>3 DEF IInv, TypeOK, SaveRequested, SaveExpired, SaveSubmitted
    <3>2. ses[s].row \in Phone
      BY <1>1, <3>1 DEF SessionIsGood, CopyOf
    <3>3. \A any : [ses[s].row EXCEPT !.status = any] =
                   [ses[s].row EXCEPT !.status = any, !.requested = ses[s].row.requested]
      BY <3>2 DEF Phone
    <3> QED
      BY <1>3, <3>1, <3>3 DEF SaveRequested, SaveExpired, SaveSubmitted
  <2>2. /\ ses[s].pc \in WithPhone
        /\ ses' = [ses EXCEPT ![s] = Idle] /\ UNCHANGED <<verifs, twilio, tasks, now>>
    BY <1>3 DEF SaveRequested, SaveExpired, SaveSubmitted
  <2>3. CopyOf(ses[s].row, ses[s].phone)
    BY <1>1, <2>2 DEF SessionIsGood
  <2> DEFINE row == [ses[s].row EXCEPT !.status = status, !.requested = at]
  <2>4. row \in Phone /\ row.number = ses[s].row.number /\ row.status = status
    BY <2>3 DEF CopyOf, Phone, PhoneStatuses
  <2>5. phones' = [phones EXCEPT ![ses[s].phone] = row]
    BY <2>1
  <2>6. Good(row)
    BY <2>4 DEF Good
  <2> HIDE DEF row
  <2> QED
    BY <2>2, <2>3, <2>4, <2>5, <2>6, SessionSaves DEF CopyOf
<1> QED
  BY <1>2, <1>3

-----------------------------------------------------------------------------
(* The steps of a task.                                                    *)

(* A task that ends keeps nothing; one at work keeps a good record.        *)
LEMMA TaskMoves ==
  ASSUME IInv, TypeOK', PhonesGrow, VerifsGrow, TwilioGrows, TwilioIsGood', UNCHANGED ses,
         NEW t \in Tasks, NEW x \in Task, TaskIsGood(x)', tasks' = [tasks EXCEPT ![t] = x],
         \A p \in Phones : phones'[p] = phones[p] \/ Good(phones[p])',
         \A i \in DOMAIN verifs' :
           (i \in DOMAIN verifs /\ verifs'[i] = verifs[i]) \/ VerifIsGood(verifs[i])'
  PROVE  IInv'
<1>1. tasks'[t] = x /\ \A u \in Tasks : u # t => tasks'[u] = tasks[u]
  BY DEF IInv, TypeOK
<1>2. TaskIsGood(tasks[t])'
  BY <1>1 DEF TaskIsGood, CopyOf, Own, Good, Approved, Exists
<1> QED
  BY <1>1, <1>2, ChangesAreGood

LEMMA SendCallKeeps ==
  ASSUME IInv, NEW t \in Tasks, SendCall(t)
  PROVE  IInv'
<1> DEFINE p == tasks[t].phone
<1>1. /\ tasks[t] \in Task /\ TaskIsGood(tasks[t])
      /\ tasks[t].pc = "send" /\ UNCHANGED <<phones, verifs, ses, now>>
  BY DEF IInv, TypeOK, SendCall
<1>2. /\ p \in Phones /\ Exists(p) /\ tasks[t].status = "pending" /\ ~tasks[t].seen
      /\ phones[p] \in Phone /\ phones[p].number \in Numbers
  BY <1>1, PhonesExist, RowsHaveType DEF TaskIsGood, IInv
<1>3. PhonesGrow /\ VerifsGrow
  BY <1>1 DEF PhonesGrow, VerifsGrow, Exists
<1>4. CopyOf(phones[p], p) /\ Good(phones[p])
  BY <1>2 DEF CopyOf, IInv
<1>5. ASSUME NEW v \in Sids, NEW status \in {"pending", "max_attempts_reached"},
             tasks' = [tasks EXCEPT ![t] = [@ EXCEPT !.pc = "save_sent", !.row = phones[p],
                                                     !.sid = v, !.status = status]],
             twilio' \in [Sids -> [number : Numbers \union {None},
                                   state : {"none", "pending", "approved", "over"}]],
             TwilioGrows, TwilioIsGood',
             status = "pending" => twilio'[v].number = phones[p].number
      PROVE  IInv'
  <2>1. PICK x \in Task :
          /\ x = [tasks[t] EXCEPT !.pc = "save_sent", !.row = phones[p], !.sid = v,
                                  !.status = status]
          /\ x.pc = "save_sent" /\ x.row = phones[p] /\ x.sid = v /\ x.status = status
          /\ x.phone = p /\ ~x.seen
    <3> DEFINE y == [tasks[t] EXCEPT !.pc = "save_sent", !.row = phones[p], !.sid = v,
                                     !.status = status]
    <3>1. y \in Task
      BY <1>1, <1>2 DEF Task, TaskPCs, VerifStatuses
    <3>2. /\ y.pc = "save_sent" /\ y.row = phones[p] /\ y.sid = v /\ y.status = status
          /\ y.phone = p /\ y.seen = tasks[t].seen
      BY <1>1 DEF Task
    <3> HIDE DEF y
    <3> QED
      BY <1>2, <3>1, <3>2 DEF y
  <2>2. tasks' = [tasks EXCEPT ![t] = x]
    BY <1>5, <2>1
  <2>3. TypeOK'
    BY <1>1, <1>5, <2>2 DEF IInv, TypeOK
  <2>4. PICK row \in Phone : row = phones[p]
    BY <1>2
  <2>5. Good(row)' /\ CopyOf(row, p)
    BY <1>4, <1>5, <2>4, GoodStays
  <2>6. Good(x.row)' /\ CopyOf(x.row, x.phone)'
    BY <1>1, <2>1, <2>4, <2>5 DEF Good, Approved, CopyOf, Exists
  <2>7. TaskIsGood(x)'
    BY <1>1, <1>5, <2>1, <2>6 DEF TaskIsGood
  <2> QED
    BY <1>1, <1>3, <1>5, <2>2, <2>3, <2>7, TaskMoves
<1>6. CASE \E v \in Sids :
             /\ TwilioSends(phones[p].number, v)
             /\ tasks' = [tasks EXCEPT ![t].pc = "save_sent", ![t].row = phones[p], ![t].sid = v]
  <2>1. PICK v \in Sids :
          /\ TwilioSends(phones[p].number, v)
          /\ tasks' = [tasks EXCEPT ![t].pc = "save_sent", ![t].row = phones[p], ![t].sid = v]
    BY <1>6
  <2>2. tasks' = [tasks EXCEPT ![t] = [@ EXCEPT !.pc = "save_sent", !.row = phones[p],
                                                !.sid = v, !.status = "pending"]]
    <3>1. [tasks[t] EXCEPT !.pc = "save_sent", !.row = phones[p], !.sid = v] =
          [tasks[t] EXCEPT !.pc = "save_sent", !.row = phones[p], !.sid = v, !.status = "pending"]
      BY <1>1, <1>2 DEF Task
    <3> QED
      BY <2>1, <3>1
  <2>3. /\ twilio' \in [Sids -> [number : Numbers \union {None},
                                 state : {"none", "pending", "approved", "over"}]]
        /\ twilio'[v] = [number |-> phones[p].number, state |-> "pending"]
        /\ \A u \in Sids : u # v => twilio'[u] = twilio[u]
    BY <1>2, <2>1 DEF TwilioSends, IInv, TypeOK
  <2>4. twilio[v].number \in {None, phones[p].number} /\ twilio[v].state # "approved"
    BY <2>1 DEF TwilioSends, IInv, TwilioIsGood
  <2>5. TwilioGrows /\ TwilioIsGood'
    BY <2>3, <2>4 DEF TwilioGrows, TwilioIsGood, IInv
  <2>6. twilio'[v].number = phones[p].number
    BY <2>3
  <2> QED
    BY <1>5, <2>2, <2>3, <2>5, <2>6
<1>7. CASE /\ LastSid # None
           /\ tasks' = [tasks EXCEPT ![t].pc = "save_sent", ![t].row = phones[p],
                                     ![t].sid = LastSid, ![t].status = "max_attempts_reached"]
           /\ UNCHANGED twilio
  <2>1. LastSid \in Sids
    <3>1. verifs # <<>> /\ verifs \in Seq(Verif)
      BY <1>7 DEF LastSid, IInv, TypeOK
    <3>2. Len(verifs) \in DOMAIN verifs
      BY <3>1, VerifsHaveType, EmptySeq DEF IInv
    <3> QED
      BY <3>1, <3>2, VerifsHaveType DEF LastSid, IInv
  <2>2. TwilioGrows /\ TwilioIsGood'
    BY <1>7 DEF TwilioGrows, TwilioIsGood, IInv
  <2>3. twilio' \in [Sids -> [number : Numbers \union {None},
                              state : {"none", "pending", "approved", "over"}]]
    BY <1>7 DEF IInv, TypeOK
  <2>4. PICK v \in Sids : v = LastSid
    BY <2>1
  <2>5. tasks' = [tasks EXCEPT ![t] = [@ EXCEPT !.pc = "save_sent", !.row = phones[p],
                                         !.sid = v, !.status = "max_attempts_reached"]]
    BY <1>7, <2>4
  <2> QED
    BY <1>5, <2>2, <2>3, <2>5
<1> QED
  BY <1>6, <1>7 DEF SendCall

(* The table after submit(): one row is updated, or one is added.          *)
LEMMA SubmitWrites ==
  ASSUME IInv, NEW sid \in Sids, NEW p \in Phones, NEW status \in VerifStatuses,
         verifs' = Submit(sid, p, status)
  PROVE  /\ verifs' \in Seq(Verif) /\ VerifsGrow
         /\ \A i \in DOMAIN verifs' :
              \/ i \in DOMAIN verifs /\ verifs'[i] = verifs[i]
              \/ /\ verifs'[i].sid = sid /\ verifs'[i].phone = p
                 /\ verifs'[i].status = status
<1>1. verifs \in Seq(Verif) /\ now \in Times
  BY DEF IInv, TypeOK
<1>2. /\ Len(verifs) \in Nat /\ DOMAIN verifs = 1..Len(verifs)
      /\ \A i \in DOMAIN verifs : verifs[i] \in Verif
  BY VerifsHaveType DEF IInv
<1>3. CASE \E i \in DOMAIN verifs : verifs[i].sid = sid /\ verifs[i].phone = p
  <2>1. verifs' = [i \in DOMAIN verifs |->
                     IF verifs[i].sid = sid /\ verifs[i].phone = p
                       THEN [verifs[i] EXCEPT !.status = status] ELSE verifs[i]]
    BY <1>3 DEF Submit
  <2>2. ASSUME NEW i \in DOMAIN verifs
        PROVE  /\ verifs'[i] \in Verif
               /\ verifs'[i].sid = verifs[i].sid /\ verifs'[i].phone = verifs[i].phone
               /\ \/ verifs'[i] = verifs[i]
                  \/ /\ verifs'[i].sid = sid /\ verifs'[i].phone = p
                     /\ verifs'[i].status = status
    <3>1. CASE verifs[i].sid = sid /\ verifs[i].phone = p
      <4>1. verifs'[i] = [verifs[i] EXCEPT !.status = status]
        BY <2>1, <3>1
      <4> QED
        BY <1>2, <3>1, <4>1 DEF Verif
    <3>2. CASE ~(verifs[i].sid = sid /\ verifs[i].phone = p)
      BY <1>2, <2>1, <3>2
    <3> QED
      BY <3>1, <3>2
  <2>3. DOMAIN verifs' = DOMAIN verifs
    BY <2>1
  <2>4. verifs' \in [1..Len(verifs) -> Verif]
    <3>1. verifs' = [i \in 1..Len(verifs) |-> verifs'[i]]
      BY <1>2, <2>1
    <3> QED
      BY <1>2, <2>2, <3>1
  <2>5. verifs' \in Seq(Verif)
    BY <1>2, <2>4, SeqDef
  <2> QED
    BY <2>2, <2>3, <2>5 DEF VerifsGrow
<1>4. CASE ~ \E i \in DOMAIN verifs : verifs[i].sid = sid /\ verifs[i].phone = p
  <2> DEFINE new == [sid |-> sid, phone |-> p, status |-> status, at |-> now]
  <2>1. verifs' = Append(verifs, new)
    BY <1>4 DEF Submit
  <2>2. new \in Verif /\ new.sid = sid /\ new.phone = p /\ new.status = status
    BY <1>1 DEF Verif
  <2> HIDE DEF new
  <2>3. /\ verifs' \in Seq(Verif) /\ Len(verifs') = Len(verifs) + 1
        /\ \A i \in 1..Len(verifs) : verifs'[i] = verifs[i]
        /\ verifs'[Len(verifs) + 1] = new
    BY <1>1, <2>1, <2>2, AppendProperties
  <2>4. DOMAIN verifs' = 1..(Len(verifs) + 1)
    BY <2>3, LenProperties
  <2> QED
    BY <1>2, <2>2, <2>3, <2>4 DEF VerifsGrow
<1> QED
  BY <1>3, <1>4

LEMMA Ended ==
  ASSUME IInv, NEW t \in Tasks, Done(t)
  PROVE  \E x \in Task : TaskIsGood(x)' /\ tasks' = [tasks EXCEPT ![t] = x]
<1> DEFINE x == [Free EXCEPT !.pc = "done"]
<1>1. /\ x \in Task /\ x.pc = "done" /\ x.row = NoPhone /\ ~x.seen
  BY DEF Free, Task, TaskPCs, VerifStatuses
<1>2. PICK y \in Task : y = x /\ tasks' = [tasks EXCEPT ![t] = y]
  BY <1>1 DEF Done
<1>3. y.pc = "done" /\ y.row = NoPhone /\ ~y.seen
  BY <1>1, <1>2
<1>4. TaskIsGood(y)'
  BY <1>3, RowsHaveType DEF TaskIsGood, Good
<1> QED
  BY <1>2, <1>4

(* Both tasks end by writing the phone and the verification.               *)
LEMMA TaskSaves ==
  ASSUME IInv, UNCHANGED <<twilio, ses, now>>,
         NEW t \in Tasks, Done(t),
         NEW p \in Phones, NEW row \in Phone, Good(row),
         Exists(p), row.number = phones[p].number,
         phones' = [phones EXCEPT ![p] = row],
         verifs' \in Seq(Verif), VerifsGrow,
         \A i \in DOMAIN verifs' :
           \/ i \in DOMAIN verifs /\ verifs'[i] = verifs[i]
           \/ /\ verifs'[i].phone = p
              /\ verifs'[i].status = "pending" =>
                   twilio[verifs'[i].sid].number = phones[p].number
  PROVE  IInv'
<1>1. /\ phones' \in [Phones -> Phone \union {NoPhone}]
      /\ phones'[p] = row /\ PhonesGrow
      /\ \A q \in Phones : q # p => phones'[q] = phones[q]
  BY RowSaved
<1>2. PICK x \in Task : TaskIsGood(x)' /\ tasks' = [tasks EXCEPT ![t] = x]
  BY Ended
<1>3. TypeOK'
  BY <1>1, <1>2 DEF IInv, TypeOK
<1>4. TwilioGrows /\ TwilioIsGood'
  BY DEF TwilioGrows, TwilioIsGood, IInv
<1>5. Good(phones[p])'
  BY <1>1 DEF Good, Approved
<1>6. \A i \in DOMAIN verifs' :
        (i \in DOMAIN verifs /\ verifs'[i] = verifs[i]) \/ VerifIsGood(verifs[i])'
  <2>1. Exists(p)' /\ phones'[p].number = phones[p].number
    BY <1>1 DEF PhonesGrow
  <2> QED
    BY <2>1 DEF VerifIsGood, Exists
<1> QED
  BY <1>1, <1>2, <1>3, <1>4, <1>5, <1>6, TaskMoves

LEMMA SendSaveKeeps ==
  ASSUME IInv, NEW t \in Tasks, SendSave(t)
  PROVE  IInv'
<1>1. tasks[t] \in Task /\ TaskIsGood(tasks[t])
  BY DEF IInv, TypeOK
<1>2. PICK p \in Phones, row \in Phone, sid \in Sids, status \in {"pending", "max_attempts_reached"} :
        /\ p = tasks[t].phone /\ row = tasks[t].row /\ sid = tasks[t].sid
        /\ status = tasks[t].status
        /\ Exists(p) /\ row.number = phones[p].number
        /\ status = "pending" => twilio[sid].number = phones[p].number
  BY <1>1 DEF SendSave, TaskIsGood, CopyOf
<1>3. /\ verifs' = Submit(sid, p, status)
      /\ phones' = [phones EXCEPT ![p] =
                      [row EXCEPT !.status = IF status = "pending" THEN "code_sent" ELSE status]]
      /\ Done(t) /\ UNCHANGED <<twilio, ses, now>>
  BY <1>2 DEF SendSave
<1>4. status \in VerifStatuses
  BY DEF VerifStatuses
<1>5. /\ verifs' \in Seq(Verif) /\ VerifsGrow
      /\ \A i \in DOMAIN verifs' :
           \/ i \in DOMAIN verifs /\ verifs'[i] = verifs[i]
           \/ /\ verifs'[i].sid = sid /\ verifs'[i].phone = p
              /\ verifs'[i].status = status
  BY <1>3, <1>4, SubmitWrites
<1> DEFINE saved == [row EXCEPT !.status = IF status = "pending" THEN "code_sent" ELSE status]
<1>6. saved \in Phone /\ saved.number = row.number /\ saved.status # "verified"
  BY DEF Phone, PhoneStatuses
<1>7. phones' = [phones EXCEPT ![p] = saved]
  BY <1>3
<1> HIDE DEF saved
<1>8. Good(saved)
  BY <1>6 DEF Good
<1>9. \A i \in DOMAIN verifs' :
        \/ i \in DOMAIN verifs /\ verifs'[i] = verifs[i]
        \/ /\ verifs'[i].phone = p
           /\ verifs'[i].status = "pending" =>
                twilio[verifs'[i].sid].number = phones[p].number
  BY <1>2, <1>5
<1>10. saved.number = phones[p].number
  BY <1>2, <1>6
<1>11. Done(t) /\ UNCHANGED <<twilio, ses, now>> /\ Exists(p)
  BY <1>2, <1>3
<1>12. verifs' \in Seq(Verif) /\ VerifsGrow
  BY <1>5
<1> QED
  BY <1>6, <1>7, <1>8, <1>9, <1>10, <1>11, <1>12, TaskSaves

LEMMA CheckCallKeeps ==
  ASSUME IInv, NEW t \in Tasks, CheckCall(t)
  PROVE  IInv'
<1>1. /\ tasks[t] \in Task /\ TaskIsGood(tasks[t])
      /\ tasks[t].pc = "check" /\ UNCHANGED <<phones, verifs, ses, now>>
  BY DEF IInv, TypeOK, CheckCall
<1>2. Own(tasks[t].verif, tasks[t].phone)
  BY <1>1 DEF TaskIsGood
<1>3. PICK v \in Sids : v = verifs[tasks[t].verif].sid
  BY <1>2, VerifsHaveType DEF Own, IInv
<1>4. PICK status \in VerifStatuses :
        /\ TwilioChecks(v, tasks[t].pin, status)
        /\ tasks' = [tasks EXCEPT ![t].pc = "read_check", ![t].status = status]
  BY <1>3 DEF CheckCall
<1>5. \/ UNCHANGED twilio /\ status # "approved"
      \/ \E state \in {"approved", "over"} :
           /\ twilio' = [twilio EXCEPT ![v].state = state] /\ twilio[v].state = "pending"
           /\ status = "approved" => state = "approved"
  BY <1>4 DEF TwilioChecks
<1>6. /\ twilio' \in [Sids -> [number : Numbers \union {None},
                               state : {"none", "pending", "approved", "over"}]]
      /\ \A u \in Sids :
           /\ twilio'[u].number = twilio[u].number
           /\ twilio'[u].state = "none" => twilio[u].state = "none"
           /\ twilio[u].state = "approved" => twilio'[u].state = "approved"
      /\ status = "approved" => twilio'[v].state = "approved"
  <2>1. CASE UNCHANGED twilio /\ status # "approved"
    BY <2>1 DEF IInv, TypeOK
  <2>2. ASSUME NEW state \in {"approved", "over"},
               twilio' = [twilio EXCEPT ![v].state = state], twilio[v].state = "pending",
               status = "approved" => state = "approved"
        PROVE  <1>6!:
    <3> DEFINE next == [twilio[v] EXCEPT !.state = state]
    <3>1. /\ next \in [number : Numbers \union {None},
                       state : {"none", "pending", "approved", "over"}]
          /\ next.number = twilio[v].number /\ next.state = state
      BY DEF IInv, TypeOK
    <3>2. twilio' = [twilio EXCEPT ![v] = next]
      BY <2>2
    <3> HIDE DEF next
    <3> QED
      BY <2>2, <3>1, <3>2 DEF IInv, TypeOK
  <2> QED
    BY <1>5, <2>1, <2>2
<1>7. TwilioGrows /\ TwilioIsGood' /\ PhonesGrow /\ VerifsGrow
  BY <1>1, <1>6 DEF TwilioGrows, TwilioIsGood, PhonesGrow, VerifsGrow, Exists, IInv
<1>8. PICK x \in Task :
        /\ x = [tasks[t] EXCEPT !.pc = "read_check", !.status = status]
        /\ x.pc = "read_check" /\ x.status = status /\ x.phone = tasks[t].phone
        /\ x.verif = tasks[t].verif /\ x.row = tasks[t].row /\ x.seen = tasks[t].seen
  <2> DEFINE y == [tasks[t] EXCEPT !.pc = "read_check", !.status = status]
  <2>1. /\ y \in Task /\ y.pc = "read_check" /\ y.status = status /\ y.phone = tasks[t].phone
        /\ y.verif = tasks[t].verif /\ y.row = tasks[t].row /\ y.seen = tasks[t].seen
    BY <1>1 DEF Task, TaskPCs, VerifStatuses
  <2> HIDE DEF y
  <2> QED
    BY <2>1 DEF y
<1>9. tasks' = [tasks EXCEPT ![t] = x]
  BY <1>4, <1>8
<1>10. TypeOK'
  BY <1>1, <1>6, <1>9 DEF IInv, TypeOK
<1>11. TaskIsGood(x)'
  <2>1. PICK row \in Phone \union {NoPhone} : row = x.row
    BY DEF Task
  <2>2. Good(row)'
    BY <1>1, <1>7, <1>8, <2>1, GoodStays DEF TaskIsGood
  <2>3. Own(x.verif, x.phone)'
    BY <1>1, <1>2, <1>6, <1>7, <1>8, VerifsHaveType DEF Own, Exists, IInv
  <2>4. status = "approved" => Approved(phones[x.phone].number)'
    BY <1>1, <1>2, <1>3, <1>6, <1>8 DEF Own, Approved
  <2> QED
    BY <1>1, <1>8, <2>1, <2>2, <2>3, <2>4 DEF TaskIsGood
<1> QED
  BY <1>1, <1>7, <1>9, <1>10, <1>11, TaskMoves

LEMMA CheckReadKeeps ==
  ASSUME IInv, NEW t \in Tasks, CheckRead(t)
  PROVE  IInv'
<1>1. /\ tasks[t] \in Task /\ TaskIsGood(tasks[t])
      /\ tasks[t].pc = "read_check" /\ UNCHANGED <<phones, verifs, twilio, ses, now>>
  BY DEF IInv, TypeOK, CheckRead
<1>2. Own(tasks[t].verif, tasks[t].phone)
  BY <1>1 DEF TaskIsGood
<1>3. PICK row \in Phone : row = phones[tasks[t].phone]
  BY <1>2, PhonesExist DEF Own, IInv
<1>4. Good(row) /\ CopyOf(row, tasks[t].phone)
  BY <1>2, <1>3 DEF IInv, Own, CopyOf
<1>5. PICK x \in Task :
        /\ x = [tasks[t] EXCEPT !.pc = "save_check", !.row = row]
        /\ x.pc = "save_check" /\ x.row = row /\ x.phone = tasks[t].phone
        /\ x.verif = tasks[t].verif /\ x.status = tasks[t].status /\ x.seen = tasks[t].seen
  <2> DEFINE y == [tasks[t] EXCEPT !.pc = "save_check", !.row = row]
  <2>1. /\ y \in Task /\ y.pc = "save_check" /\ y.row = row /\ y.phone = tasks[t].phone
        /\ y.verif = tasks[t].verif /\ y.status = tasks[t].status /\ y.seen = tasks[t].seen
    BY <1>1 DEF Task, TaskPCs
  <2> HIDE DEF y
  <2> QED
    BY <2>1 DEF y
<1>6. tasks' = [tasks EXCEPT ![t] = x]
  BY <1>3, <1>5 DEF CheckRead
<1>7. TypeOK'
  BY <1>1, <1>6 DEF IInv, TypeOK
<1>8. TwilioGrows /\ TwilioIsGood' /\ PhonesGrow /\ VerifsGrow
  BY <1>1 DEF TwilioGrows, TwilioIsGood, PhonesGrow, VerifsGrow, Exists, IInv
<1>9. TaskIsGood(x)
  BY <1>1, <1>2, <1>4, <1>5 DEF TaskIsGood
<1>10. TaskIsGood(x)'
  BY <1>8, <1>9, TaskStays DEF IInv
<1> QED
  BY <1>1, <1>6, <1>7, <1>8, <1>10, TaskMoves

LEMMA SetStatusKeeps ==
  ASSUME IInv, NEW t \in Tasks, SetStatus(t)
  PROVE  IInv'
<1>1. tasks[t] \in Task /\ TaskIsGood(tasks[t]) /\ tasks[t].pc = "save_check"
  BY DEF IInv, TypeOK, SetStatus
<1>2. PICK p \in Phones, row \in Phone, status \in VerifStatuses, i \in DOMAIN verifs :
        /\ p = tasks[t].phone /\ row = tasks[t].row /\ status = tasks[t].status
        /\ i = tasks[t].verif
        /\ Exists(p) /\ row.number = phones[p].number
        /\ verifs[i].phone = p /\ twilio[verifs[i].sid].number = phones[p].number
        /\ status = "approved" => Approved(row.number)
  BY <1>1 DEF TaskIsGood, CopyOf, Own, Task
<1>3. /\ verifs' = [verifs EXCEPT ![i].status = status]
      /\ phones' = [phones EXCEPT ![p] = [row EXCEPT !.status = PhoneStatusOf(status)]]
      /\ Done(t) /\ UNCHANGED <<twilio, ses, now>>
  BY <1>2 DEF SetStatus
<1> DEFINE verif == [verifs[i] EXCEPT !.status = status]
           saved == [row EXCEPT !.status = PhoneStatusOf(status)]
<1>4. verif \in Verif /\ verif.sid = verifs[i].sid /\ verif.phone = p
  BY <1>2, VerifsHaveType DEF IInv, Verif
<1>5. /\ saved \in Phone /\ saved.number = row.number
      /\ saved.status = "verified" => status = "approved"
  BY DEF Phone, PhoneStatuses, PhoneStatusOf, VerifStatuses
<1>6. verifs' = [verifs EXCEPT ![i] = verif] /\ phones' = [phones EXCEPT ![p] = saved]
  BY <1>3
<1> HIDE DEF verif, saved
<1>7. /\ verifs' \in Seq(Verif) /\ verifs'[i] = verif /\ DOMAIN verifs' = DOMAIN verifs
      /\ \A j \in DOMAIN verifs : j # i => verifs'[j] = verifs[j]
  <2>1. verifs \in Seq(Verif)
    BY DEF IInv, TypeOK
  <2>2. i \in 1..Len(verifs)
    BY VerifsHaveType DEF IInv
  <2>3. verifs' \in Seq(Verif)
    BY <1>4, <1>6, <2>1, <2>2, ExceptSeq
  <2> QED
    BY <1>6, <2>3
<1>8. VerifsGrow
  BY <1>2, <1>4, <1>7 DEF VerifsGrow
<1>9. Good(saved)
  BY <1>2, <1>5 DEF Good
<1>10. \A j \in DOMAIN verifs' :
         \/ j \in DOMAIN verifs /\ verifs'[j] = verifs[j]
         \/ /\ verifs'[j].phone = p
            /\ verifs'[j].status = "pending" =>
                 twilio[verifs'[j].sid].number = phones[p].number
  BY <1>2, <1>4, <1>7
<1>11. saved.number = phones[p].number
  BY <1>2, <1>5
<1> QED
  BY <1>2, <1>3, <1>5, <1>6, <1>7, <1>8, <1>9, <1>10, <1>11, TaskSaves

-----------------------------------------------------------------------------
(* The theorems.                                                           *)

LEMMA TickKeeps ==
  ASSUME IInv, Tick
  PROVE  IInv'
<1>1. now' \in Times
  BY SettingsAreNat DEF Tick, Times, IInv, TypeOK
<1>2. UNCHANGED <<phones, verifs, twilio, ses, tasks>>
  BY DEF Tick
<1>3. TypeOK'
  BY <1>1, <1>2 DEF IInv, TypeOK
<1> QED
  BY <1>2, <1>3, ChangesAreGood
     DEF IInv, PhonesGrow, VerifsGrow, TwilioGrows, TwilioIsGood, Exists

LEMMA StepInvariant ==
  ASSUME IInv, [Next]_vars
  PROVE  IInv'
<1>1. CASE UNCHANGED vars
  <2>1. UNCHANGED <<phones, verifs, twilio, ses, tasks, now>>
    BY <1>1 DEF vars
  <2>2. TypeOK'
    BY <2>1 DEF IInv, TypeOK
  <2> QED
    BY <2>1, <2>2, ChangesAreGood
       DEF IInv, PhonesGrow, VerifsGrow, TwilioGrows, TwilioIsGood, Exists
<1>2. ASSUME NEW s \in Web, WebStep(s) PROVE IInv'
  BY <1>2, MovesKeep, SavesKeep, ClearPrimaryKeeps, EnqueueKeeps DEF WebStep
<1>3. ASSUME NEW t \in Tasks, TaskStep(t) PROVE IInv'
  BY <1>3, SendCallKeeps, SendSaveKeeps, CheckCallKeeps, CheckReadKeeps, SetStatusKeeps
     DEF TaskStep
<1>4. CASE Tick
  BY <1>4, TickKeeps
<1> QED
  BY <1>1, <1>2, <1>3, <1>4 DEF Next

(* The inductive invariant holds in every reachable state of the phones.   *)
THEOREM InductiveInvariant == Spec => []IInv
BY InitInvariant, StepInvariant, PTL DEF Spec

(* The tables, the sessions and the tasks have their types (models.py).    *)
THEOREM TypeCorrectness == Spec => []TypeOK
<1>1. IInv => TypeOK
  BY DEF IInv
<1> QED
  BY <1>1, InductiveInvariant, PTL

(* A verified phone had its number approved by Twilio (tasks.py, the check *)
(* and the send; models.py, set_status).                                   *)
THEOREM VerifiedPhonesWereApproved == Spec => []VerifiedWasApproved
<1>1. IInv => VerifiedWasApproved
  BY DEF IInv, VerifiedWasApproved, Verified, Good, Approved
<1> QED
  BY <1>1, InductiveInvariant, PTL

(* A pin is checked against a verification of the number of its phone,     *)
(* although a rejected request records the sid of any (tasks.py, send).    *)
THEOREM PendingVerificationsAreOwn == Spec => []PendingIsOwn
<1>1. IInv => PendingIsOwn
  BY DEF IInv, PendingIsOwn, VerifIsGood
<1> QED
  BY <1>1, InductiveInvariant, PTL

(* Only a session or a task begun before loses a confirmation: whatever    *)
(* the number of them (views.py, check_permissions).                       *)
THEOREM ConfirmationsAreLostToOlderWork == Spec => OnlyOlderWorkUnverifies
<1> DEFINE Older == \/ \E s \in Web : ses'[s] # ses[s] /\ ~ses[s].seen
                    \/ \E t \in Tasks : tasks'[t] # tasks[t] /\ ~tasks[t].seen
<1>1. ASSUME IInv, Next, NEW p \in Verified, phones'[p].status # "verified"
      PROVE  Older
  <2>1. p \in Phones /\ phones[p].status = "verified" /\ Exists(p)
    BY <1>1, RowsHaveType DEF Verified, Exists, IInv, TypeOK, NoPhone
  <2>2. ASSUME NEW t \in Tasks, TaskStep(t) PROVE Older
    <3>1. tasks[t] \in Task /\ ~tasks[t].seen /\ (SendSave(t) \/ SetStatus(t) \/ UNCHANGED phones)
      BY <1>1, <2>2 DEF TaskStep, SendCall, CheckCall, CheckRead, IInv, TaskIsGood, TypeOK
    <3>2. CASE SendSave(t) \/ SetStatus(t)
      <4>1. tasks[t].pc # "done" /\ tasks'[t] = [Free EXCEPT !.pc = "done"]
        BY <1>1, <3>2 DEF SendSave, SetStatus, Done, IInv, TypeOK
      <4>2. [Free EXCEPT !.pc = "done"].pc = "done"
        BY DEF Free
      <4>3. ~tasks[t].seen
        BY <1>1 DEF IInv, TaskIsGood
      <4> QED
        BY <4>1, <4>2, <4>3
    <3> QED
      BY <1>1, <2>1, <3>1, <3>2
  <2>3. ASSUME NEW s \in Web, WebStep(s) PROVE Older
    <3>1. ses[s] \in Session /\ SessionIsGood(ses[s])
      BY <1>1 DEF IInv, TypeOK
    <3>2. CASE ClearPrimary(s)
      <4>1. phones'[p] = [phones[p] EXCEPT !.primary = FALSE]
        BY <2>1, <3>2 DEF ClearPrimary
      <4>2. phones[p] \in Phone
        BY <1>1, <2>1, PhonesExist DEF IInv
      <4>3. phones'[p].status = phones[p].status
        BY <4>1, <4>2 DEF Phone
      <4> QED
        BY <1>1, <2>1, <4>3
    <3>3. CASE SavePhone(s) \/ SaveRequested(s) \/ SaveExpired(s) \/ SaveSubmitted(s)
      <4>1. ses[s].pc # "idle" /\ ses'[s] = Idle /\ Idle.pc = "idle"
        BY <1>1, <3>3
           DEF SavePhone, SaveRequested, SaveExpired, SaveSubmitted, Idle, IInv, TypeOK
      <4>2. CASE ses[s].seen
        <5>1. ses[s].row.status = "verified" /\ ses[s].pc \in WithNumber
          BY <3>1, <4>2 DEF SessionIsGood
        <5>2. SavePhone(s)
          BY <3>3, <5>1 DEF SaveRequested, SaveExpired, SaveSubmitted
        <5>3. PICK q \in Phones :
                phones' = [phones EXCEPT ![q] =
                             [ses[s].row EXCEPT !.number = ses[s].number, !.primary = TRUE]]
          BY <5>2 DEF SavePhone
        <5>4. ses[s].row \in Phone \union {NoPhone} /\ ses[s].number \in Numbers
          BY <3>1, <5>1 DEF Session, SessionIsGood
        <5>5. CASE q = p
          <6>1. phones'[p] = [ses[s].row EXCEPT !.number = ses[s].number, !.primary = TRUE]
            BY <1>1, <2>1, <5>3, <5>5 DEF IInv, TypeOK
          <6> QED
            BY <1>1, <5>1, <5>4, <6>1, SavedRowsHaveType
        <5>6. CASE q # p
          <6>1. phones'[p] = phones[p]
            BY <1>1, <2>1, <5>3, <5>6 DEF IInv, TypeOK
          <6> QED
            BY <1>1, <2>1, <6>1
        <5> QED
          BY <5>5, <5>6
      <4>3. CASE ~ses[s].seen
        BY <4>1, <4>3
      <4> QED
        BY <4>2, <4>3
    <3>4. CASE UNCHANGED phones
      BY <1>1, <2>1, <3>4
    <3> QED
      BY <2>3, <3>2, <3>3, <3>4
         DEF WebStep, PostPhone, PutPhone, LoadSameNumber, RequestCode, EnqueueSend, SubmitPin,
             EnqueueCheck, Enqueue
  <2>4. CASE Tick
    BY <1>1, <2>1, <2>4 DEF Tick
  <2> QED
    BY <1>1, <2>2, <2>3, <2>4 DEF Next
<1>2. IInv /\ [Next]_vars =>
        [\A p \in Verified : phones'[p].status # "verified" => Older]_vars
  BY <1>1
<1>3. IInv /\ [Next]_vars =>
        [\A p \in Verified : phones'[p].status # "verified" =>
           \/ \E s \in Web : ses'[s] # ses[s] /\ ~ses[s].seen
           \/ \E t \in Tasks : tasks'[t] # tasks[t] /\ ~tasks[t].seen]_vars
  BY <1>2
<1> QED
  BY <1>3, InductiveInvariant, PTL DEF Spec, OnlyOlderWorkUnverifies

=============================================================================
