----------------------------- MODULE KycProofs ------------------------------
(***************************************************************************)
(* Proofs about KycSubmission, for any submissions, sessions, chains of    *)
(* tasks and bounds.                                                       *)
(***************************************************************************)
EXTENDS KycSubmission, TLAPS

-----------------------------------------------------------------------------
(* The inductive invariant.                                                *)

(* What a row says of Onfido, wherever a copy of it lies, is said of the   *)
(* person whose data the row holds.                                        *)
Owns(row, kind) ==
  /\ row.applicant \in 0..Len(applicants)
  /\ row.check \in 0..Len(checks)
  /\ row.applicant # None => applicants[row.applicant].of = <<row.of, kind>>
  /\ row.result \in {"clear", "consider"} =>
       \E k \in DOMAIN checks :
         /\ checks[k].state = row.result
         /\ applicants[checks[k].applicant].of = <<row.of, kind>>

(* A copy of the profile speaks only of submissions that were approved.    *)
Known(p) ==
  /\ p.status = "verified" => approved # {}
  /\ p.last # None => p.last \in approved

RowIsGood(x) ==
  /\ Owns(rows[x], x[2])
  /\ x[2] = "applicant" /\ rows[x].status = "approved" => x[1] \in approved

SessionIsGood(x) ==
  /\ x.pc \notin {"idle", "create", "save_language"} => x.sub \in Submissions
  /\ Owns(x.row, "applicant")
  /\ Known(x.profile)

ChainIsGood(x) ==
  /\ x.pc # "free" => x.of \in Subjects
  /\ Owns(x.row, x.of[2])
  /\ x.pc = "save_applicant" =>
       /\ x.applicant \in DOMAIN applicants
       /\ applicants[x.applicant].of = <<x.row.of, x.of[2]>>
  /\ x.pc = "save_check" => x.applicant \in 0..Len(checks)

IInv == /\ TypeOK
        /\ \A x \in Subjects : RowIsGood(x)
        /\ Known(profile)
        /\ \A s \in Web : SessionIsGood(web[s])
        /\ \A a \in Office : SessionIsGood(office[a])
        /\ \A c \in Chains : ChainIsGood(chains[c])

-----------------------------------------------------------------------------
LEMMA Constants ==
  /\ NoRow \in Row /\ Unverified \in Profile
  /\ Idle \in Session /\ Free \in Chain
  /\ \A s \in Submissions : Self(s) \in Subjects /\ Beneficiary(s) \in Subjects
  /\ Subjects \subseteq Persons
  /\ None \notin Submissions
<1>1. None \notin Submissions
  BY SubmissionsAreNumbers DEF None
<1>2. /\ NoRow \in Row /\ Unverified \in Profile
  BY DEF NoRow, Row, Unverified, Profile, None
<1>3. Idle \in Session
  BY <1>2 DEF Idle, Session
<1>4. Self(None) \in Persons /\ Subjects \subseteq Persons
  BY DEF Self, Persons, Subjects
<1>5. Free \in Chain
  BY <1>2, <1>4, BoundsAreNat DEF Free, Chain, ChainPCs, None
<1>6. \A s \in Submissions : Self(s) \in Subjects /\ Beneficiary(s) \in Subjects
  BY DEF Self, Beneficiary, Subjects
<1> QED
  BY <1>1, <1>2, <1>3, <1>4, <1>5, <1>6

(* What Onfido knows, and what was approved, only grows: a check that is   *)
(* complete stays as it is.                                                *)
Grows ==
  /\ Len(applicants) <= Len(applicants')
  /\ \A i \in DOMAIN applicants : applicants'[i].of = applicants[i].of
  /\ Len(checks) <= Len(checks')
  /\ \A k \in DOMAIN checks :
       /\ checks'[k].applicant = checks[k].applicant
       /\ checks[k].state # "running" => checks'[k].state = checks[k].state
  /\ approved \subseteq approved'

LEMMA CopiesStayGood ==
  ASSUME TypeOK, TypeOK', Grows
  PROVE  /\ \A row \in Row, kind \in {"applicant", "beneficiary"} :
              Owns(row, kind) => Owns(row, kind)'
         /\ \A p \in Profile : Known(p) => Known(p)'
<1>1. /\ Len(applicants) \in Nat /\ Len(applicants') \in Nat
      /\ DOMAIN applicants = 1..Len(applicants) /\ DOMAIN applicants' = 1..Len(applicants')
      /\ Len(checks) \in Nat /\ Len(checks') \in Nat
      /\ DOMAIN checks = 1..Len(checks) /\ DOMAIN checks' = 1..Len(checks')
  BY DEF TypeOK
<1>2. ASSUME NEW row \in Row, NEW kind \in {"applicant", "beneficiary"}, Owns(row, kind)
      PROVE  Owns(row, kind)'
  <2>1. /\ row.applicant \in 0..Len(applicants') /\ row.check \in 0..Len(checks')
    BY <1>1, <1>2 DEF Owns, Grows
  <2>2. row.applicant # None => applicants'[row.applicant].of = <<row.of, kind>>
    <3>1. CASE row.applicant # None
      <4>1. row.applicant \in DOMAIN applicants
        BY <1>1, <1>2, <3>1 DEF Owns, None
      <4> QED
        BY <1>2, <3>1, <4>1 DEF Owns, Grows
    <3> QED
      BY <3>1
  <2>3. ASSUME row.result \in {"clear", "consider"}
        PROVE  \E k \in DOMAIN checks' :
                 /\ checks'[k].state = row.result
                 /\ applicants'[checks'[k].applicant].of = <<row.of, kind>>
    <3>1. PICK k \in DOMAIN checks :
            /\ checks[k].state = row.result
            /\ applicants[checks[k].applicant].of = <<row.of, kind>>
      BY <1>2, <2>3 DEF Owns
    <3>2. k \in DOMAIN checks' /\ checks[k].applicant \in DOMAIN applicants
      BY <1>1 DEF Grows, TypeOK
    <3>3. checks'[k].state = row.result /\ checks'[k].applicant = checks[k].applicant
      BY <2>3, <3>1 DEF Grows
    <3>4. applicants'[checks'[k].applicant].of = <<row.of, kind>>
      BY <3>1, <3>2, <3>3 DEF Grows
    <3> QED
      BY <3>2, <3>3, <3>4
  <2> QED
    BY <2>1, <2>2, <2>3 DEF Owns
<1>3. ASSUME NEW p \in Profile, Known(p) PROVE Known(p)'
  BY <1>3 DEF Known, Grows
<1> QED
  BY <1>2, <1>3

LEMMA SessionsStayGood ==
  ASSUME TypeOK, TypeOK', Grows
  PROVE  /\ \A x \in Session : SessionIsGood(x) => SessionIsGood(x)'
         /\ \A x \in Chain : ChainIsGood(x) => ChainIsGood(x)'
<1>1. ASSUME NEW x \in Session, SessionIsGood(x) PROVE SessionIsGood(x)'
  <2>1. x.row \in Row /\ x.profile \in Profile
    BY DEF Session
  <2> QED
    BY <1>1, <2>1, CopiesStayGood DEF SessionIsGood
<1>2. ASSUME NEW x \in Chain, ChainIsGood(x) PROVE ChainIsGood(x)'
  <2>1. x.row \in Row /\ x.of[2] \in {"applicant", "beneficiary"}
    BY DEF Chain, Persons
  <2>2. Owns(x.row, x.of[2])'
    BY <1>2, <2>1, CopiesStayGood DEF ChainIsGood
  <2>3. /\ Len(applicants) \in Nat /\ Len(applicants') \in Nat
        /\ DOMAIN applicants = 1..Len(applicants) /\ DOMAIN applicants' = 1..Len(applicants')
        /\ Len(checks) \in Nat /\ Len(checks') \in Nat
    BY DEF TypeOK
  <2> QED
    BY <1>2, <2>2, <2>3 DEF ChainIsGood, Grows
<1> QED
  BY <1>1, <1>2

(* It is enough to look at the rows and the copies that a step changes.    *)
LEMMA ChangesAreGood ==
  ASSUME IInv, TypeOK', Grows, Known(profile)',
         \A x \in Subjects : rows'[x] = rows[x] \/ RowIsGood(x)',
         \A s \in Web : web'[s] = web[s] \/ SessionIsGood(web[s])',
         \A a \in Office : office'[a] = office[a] \/ SessionIsGood(office[a])',
         \A c \in Chains : chains'[c] = chains[c] \/ ChainIsGood(chains[c])'
  PROVE  IInv'
<1>1. ASSUME NEW x \in Subjects PROVE RowIsGood(x)'
  <2>1. rows[x] \in Row /\ x[2] \in {"applicant", "beneficiary"}
    BY DEF IInv, TypeOK, Subjects
  <2>2. Owns(rows[x], x[2]) => (rows'[x] = rows[x] => Owns(rows[x], x[2])')
    <3>1. SUFFICES ASSUME Owns(rows[x], x[2]), rows'[x] = rows[x]
                   PROVE  Owns(rows[x], x[2])'
      OBVIOUS
    <3>2. \A row \in Row : Owns(row, x[2]) => Owns(row, x[2])'
      BY <2>1, CopiesStayGood DEF IInv
    <3>3. PICK row \in Row : row = rows[x]
      BY <2>1
    <3>4. Owns(row, x[2])'
      BY <3>1, <3>2, <3>3
    <3> QED
      BY <3>1, <3>3, <3>4 DEF Owns
  <2> QED
    BY <2>2 DEF IInv, RowIsGood, Grows
<1>2. ASSUME NEW s \in Web PROVE SessionIsGood(web[s])'
  <2>1. PICK x \in Session : x = web[s]
    BY DEF IInv, TypeOK
  <2>2. SessionIsGood(x)'
    BY <2>1, SessionsStayGood DEF IInv
  <2> QED
    BY <2>1, <2>2 DEF SessionIsGood, Owns, Known
<1>3. ASSUME NEW a \in Office PROVE SessionIsGood(office[a])'
  <2>1. PICK x \in Session : x = office[a]
    BY DEF IInv, TypeOK
  <2>2. SessionIsGood(x)'
    BY <2>1, SessionsStayGood DEF IInv
  <2> QED
    BY <2>1, <2>2 DEF SessionIsGood, Owns, Known
<1>4. ASSUME NEW c \in Chains PROVE ChainIsGood(chains[c])'
  <2>1. PICK x \in Chain : x = chains[c]
    BY DEF IInv, TypeOK
  <2>2. ChainIsGood(x)'
    BY <2>1, SessionsStayGood DEF IInv
  <2> QED
    BY <2>1, <2>2 DEF ChainIsGood, Owns
<1> QED
  BY <1>1, <1>2, <1>3, <1>4 DEF IInv

LEMMA InitInvariant == Init => IInv
<1> SUFFICES ASSUME Init PROVE IInv
  OBVIOUS
<1>1. TypeOK
  BY Constants, BoundsAreNat DEF Init, TypeOK, None
<1>2. \A kind : Owns(NoRow, kind)
  BY DEF Init, Owns, NoRow, None, Results
<1>3. Known(Unverified)
  BY DEF Known, Unverified
<1> QED
  BY <1>1, <1>2, <1>3
     DEF Init, IInv, RowIsGood, SessionIsGood, ChainIsGood, Idle, Free, NoRow

-----------------------------------------------------------------------------
(* What the operators that write the variables change.                     *)

LEMMA OnfidoStays ==
  ASSUME TypeOK, UNCHANGED <<applicants, checks>>, approved \subseteq approved'
  PROVE  Grows
BY DEF TypeOK, Grows

LEMMA ProfileStays ==
  ASSUME IInv, TypeOK', Grows, UNCHANGED profile
  PROVE  Known(profile)'
<1>1. PICK p \in Profile : p = profile
  BY DEF IInv, TypeOK
<1>2. Known(p)'
  BY <1>1, CopiesStayGood DEF IInv
<1> QED
  BY <1>1, <1>2 DEF Known

LEMMA SaveWrites ==
  ASSUME IInv, UNCHANGED <<applicants, checks>>,
         NEW x \in Subjects, NEW row \in Row, Owns(row, x[2]), Save(x, row)
  PROVE  /\ rows' \in [Subjects -> Row]
         /\ approved \subseteq approved' /\ approved' \subseteq Submissions
         /\ \A y \in Subjects : rows'[y] = rows[y] \/ RowIsGood(y)'
<1>1. /\ rows' = [rows EXCEPT ![x] = row]
      /\ approved' = approved \union {s \in {x[1]} : row.status = "approved"}
  BY DEF Save
<1>2. rows' \in [Subjects -> Row] /\ rows'[x] = row
  BY <1>1 DEF IInv, TypeOK
<1>3. x[1] \in Submissions
  BY DEF Subjects
<1>4. Owns(rows[x], x[2])'
  BY <1>2 DEF Owns
<1>5. row.status = "approved" => x[1] \in approved'
  BY <1>1
<1>6. RowIsGood(x)'
  BY <1>2, <1>4, <1>5 DEF RowIsGood
<1> QED
  BY <1>1, <1>2, <1>3, <1>6 DEF IInv, TypeOK

LEMMA InsertWrites ==
  ASSUME IInv, UNCHANGED <<applicants, checks, approved>>,
         NEW s \in Submissions, NEW row \in Row, NEW other \in Row,
         Owns(row, "applicant"), Owns(other, "beneficiary"), row.status # "approved",
         Insert(s, row, other)
  PROVE  /\ rows' \in [Subjects -> Row]
         /\ created' \in Submissions
         /\ \A y \in Subjects : rows'[y] = rows[y] \/ RowIsGood(y)'
<1>1. /\ rows' = [rows EXCEPT ![Self(s)] = row, ![Beneficiary(s)] = other]
      /\ created' = s
  BY DEF Insert
<1>2. /\ Self(s) \in Subjects /\ Beneficiary(s) \in Subjects /\ Self(s) # Beneficiary(s)
      /\ Self(s)[2] = "applicant" /\ Beneficiary(s)[2] = "beneficiary"
  BY DEF Self, Beneficiary, Subjects
<1>3. /\ rows' \in [Subjects -> Row]
      /\ rows'[Self(s)] = row /\ rows'[Beneficiary(s)] = other
      /\ \A y \in Subjects : y # Self(s) /\ y # Beneficiary(s) => rows'[y] = rows[y]
  BY <1>1, <1>2 DEF IInv, TypeOK
<1>4. Owns(rows[Self(s)], "applicant")' /\ Owns(rows[Beneficiary(s)], "beneficiary")'
  BY <1>3 DEF Owns
<1>5. RowIsGood(Self(s))' /\ RowIsGood(Beneficiary(s))'
  BY <1>2, <1>3, <1>4 DEF RowIsGood
<1> QED
  BY <1>1, <1>3, <1>5

LEMMA NewRows ==
  ASSUME NEW s \in Submissions, NEW type \in {"individual", "business"},
         NEW status \in {"draft", "pending"}, TypeOK
  PROVE  /\ NewRow(s, type, status) \in Row /\ NewBeneficiary(s, type) \in Row
         /\ NewRow(s, type, status).status = status
         /\ Owns(NewRow(s, type, status), "applicant")
         /\ Owns(NewBeneficiary(s, type), "beneficiary")
<1>1. Len(applicants) \in Nat /\ Len(checks) \in Nat
  BY DEF TypeOK
<1>2. \A kind : Owns(NoRow, kind)
  BY <1>1 DEF Owns, NoRow, None
<1>3. ASSUME NEW any \in {"draft", "pending"}
      PROVE  /\ NewRow(s, type, any) \in Row
             /\ NewRow(s, type, any).status = any
             /\ \A kind : Owns(NewRow(s, type, any), kind)
  <2> DEFINE row == NewRow(s, type, any)
  <2>1. /\ row.status = any /\ row.type = type /\ row.of = s
        /\ row.applicant = None /\ row.check = None /\ row.result = "none"
        /\ row \in Row
    BY DEF NewRow, NoRow, Row, Statuses, None
  <2> QED
    BY <1>1, <2>1 DEF Owns, None
<1> QED
  BY <1>2, <1>3, Constants DEF NewBeneficiary

(* The tasks of a chain.                                                   *)
LEMMA ChainMoves ==
  ASSUME IInv, NEW c \in Chains, chains[c].pc # "free",
         \/ \E pc \in {"create", "start", "fetch", "save_again"} : GoTo(c, pc)
         \/ \E pc \in {"done", "failed"} : End(c, pc)
         \/ Retry(c)
  PROVE  /\ chains' \in [Chains -> Chain]
         /\ \A d \in Chains : chains'[d] = chains[d] \/ ChainIsGood(chains'[d])
<1>1. /\ chains[c] \in Chain /\ ChainIsGood(chains[c])
      /\ Len(applicants) \in Nat /\ Len(checks) \in Nat
  BY DEF IInv, TypeOK
<1>2. ASSUME NEW pc \in {"create", "start", "fetch", "save_again"}, GoTo(c, pc)
      PROVE  /\ chains' \in [Chains -> Chain]
             /\ \A d \in Chains : chains'[d] = chains[d] \/ ChainIsGood(chains'[d])
  <2>1. /\ chains' \in [Chains -> Chain]
        /\ \A d \in Chains \ {c} : chains'[d] = chains[d]
        /\ chains'[c].pc = pc /\ chains'[c].of = chains[c].of /\ chains'[c].row = chains[c].row
    <3> DEFINE next == [chains[c] EXCEPT !.pc = pc, !.tries = 0]
    <3>1. /\ next \in Chain /\ next.pc = pc /\ next.of = chains[c].of
          /\ next.row = chains[c].row
      <4>1. pc \in ChainPCs /\ 0 \in 0..MaxRetries
        BY BoundsAreNat DEF ChainPCs
      <4> QED
        BY <1>1, <4>1 DEF Chain
    <3> HIDE DEF next
    <3>2. chains' = [chains EXCEPT ![c] = next]
      BY <1>2 DEF GoTo, next
    <3> QED
      BY <3>1, <3>2 DEF IInv, TypeOK
  <2>2. ChainIsGood(chains'[c])
    BY <1>1, <2>1 DEF ChainIsGood, Owns
  <2> QED
    BY <2>1, <2>2
<1>3. ASSUME NEW pc \in {"done", "failed"}, End(c, pc)
      PROVE  /\ chains' \in [Chains -> Chain]
             /\ \A d \in Chains : chains'[d] = chains[d] \/ ChainIsGood(chains'[d])
  <2>1. /\ chains' \in [Chains -> Chain]
        /\ \A d \in Chains \ {c} : chains'[d] = chains[d]
        /\ chains'[c].pc = pc /\ chains'[c].of = chains[c].of /\ chains'[c].row = NoRow
    <3> DEFINE next == [chains[c] EXCEPT !.pc = pc, !.row = NoRow, !.applicant = None, !.tries = 0]
    <3>1. /\ next \in Chain /\ next.pc = pc /\ next.of = chains[c].of /\ next.row = NoRow
      <4>1. None \in Nat /\ pc \in ChainPCs /\ NoRow \in Row /\ 0 \in 0..MaxRetries
        BY Constants, BoundsAreNat DEF None, ChainPCs
      <4> QED
        BY <1>1, <4>1 DEF Chain
    <3> HIDE DEF next
    <3>2. chains' = [chains EXCEPT ![c] = next]
      BY <1>3 DEF End, next
    <3> QED
      BY <3>1, <3>2 DEF IInv, TypeOK
  <2>2. ChainIsGood(chains'[c])
    BY <1>1, <2>1 DEF ChainIsGood, Owns, NoRow, None
  <2> QED
    BY <2>1, <2>2
<1>4. ASSUME Retry(c)
      PROVE  /\ chains' \in [Chains -> Chain]
             /\ \A d \in Chains : chains'[d] = chains[d] \/ ChainIsGood(chains'[d])
  <2>1. CASE chains[c].tries < MaxRetries
    <3>1. /\ chains' \in [Chains -> Chain]
          /\ \A d \in Chains \ {c} : chains'[d] = chains[d]
          /\ chains'[c].pc = chains[c].pc /\ chains'[c].of = chains[c].of
          /\ chains'[c].row = chains[c].row /\ chains'[c].applicant = chains[c].applicant
      <4> DEFINE next == [chains[c] EXCEPT !.tries = chains[c].tries + 1]
      <4>1. /\ next \in Chain /\ next.pc = chains[c].pc /\ next.of = chains[c].of
            /\ next.row = chains[c].row /\ next.applicant = chains[c].applicant
        BY <1>1, <2>1, BoundsAreNat DEF Chain
      <4> HIDE DEF next
      <4>2. chains' = [chains EXCEPT ![c] = next]
        BY <1>4, <2>1 DEF Retry, next
      <4> QED
        BY <4>1, <4>2 DEF IInv, TypeOK
    <3>2. ChainIsGood(chains'[c])
      BY <1>1, <3>1 DEF ChainIsGood, Owns
    <3> QED
      BY <3>1, <3>2
  <2>2. CASE ~(chains[c].tries < MaxRetries)
    BY <1>3, <1>4, <2>2 DEF Retry
  <2> QED
    BY <2>1, <2>2
<1> QED
  BY <1>2, <1>3, <1>4

LEMMA QueuedChains ==
  ASSUME IInv, UNCHANGED <<applicants, checks>>,
         NEW c \in Chains, NEW x \in Subjects, NEW pc \in {"create", "routine"}
  PROVE  /\ Queued(c, x, pc) \in [Chains -> Chain]
         /\ \A d \in Chains \ {c} : Queued(c, x, pc)[d] = chains[d]
         /\ ChainIsGood(Queued(c, x, pc)[c])
<1>1. rows[x] \in Row /\ x \in Persons /\ x[2] \in {"applicant", "beneficiary"}
  BY Constants DEF IInv, TypeOK, Subjects
<1> DEFINE next == [Free EXCEPT !.pc = pc, !.of = x]
<1>2. /\ next \in Chain /\ next.pc = pc /\ next.of = x /\ next.row = NoRow
  BY <1>1, Constants DEF Free, Chain, ChainPCs
<1> HIDE DEF next
<1>3. /\ Queued(c, x, pc) \in [Chains -> Chain]
      /\ \A d \in Chains \ {c} : Queued(c, x, pc)[d] = chains[d]
      /\ Queued(c, x, pc)[c] = next
  BY <1>2 DEF Queued, IInv, TypeOK, next
<1>4. Len(applicants) \in Nat /\ Len(checks) \in Nat
  BY DEF IInv, TypeOK
<1>5. ChainIsGood(next)
  BY <1>2, <1>4 DEF ChainIsGood, Owns, NoRow, None
<1> QED
  BY <1>3, <1>5

(* A step of a session that writes no row of a submission.                 *)
LEMMA WebMoves ==
  ASSUME IInv, NEW s \in Web, NEW next \in Session, SessionIsGood(next),
         web' = [web EXCEPT ![s] = next],
         profile' \in Profile, Known(profile)', requests' \in 0..MaxRequests,
         UNCHANGED <<rows, applicants, checks, office, chains, approved, created>>
  PROVE  IInv'
<1>1. TypeOK'
  BY DEF IInv, TypeOK
<1>2. Grows
  BY OnfidoStays DEF IInv
<1>3. web'[s] = next /\ \A t \in Web \ {s} : web'[t] = web[t]
  BY DEF IInv, TypeOK
<1>4. SessionIsGood(next)'
  BY DEF SessionIsGood, Owns, Known
<1>5. SessionIsGood(web[s])'
  BY <1>3, <1>4 DEF SessionIsGood, Owns, Known
<1> QED
  BY <1>1, <1>2, <1>3, <1>5, ChangesAreGood

LEMMA OfficeMoves ==
  ASSUME IInv, NEW a \in Office, NEW next \in Session, SessionIsGood(next),
         office' = [office EXCEPT ![a] = next],
         requests' \in 0..MaxRequests,
         UNCHANGED <<rows, profile, applicants, checks, web, chains, approved, created>>
  PROVE  IInv'
<1>1. TypeOK'
  BY DEF IInv, TypeOK
<1>2. Grows
  BY OnfidoStays DEF IInv
<1>3. office'[a] = next /\ \A b \in Office \ {a} : office'[b] = office[b]
  BY DEF IInv, TypeOK
<1>4. SessionIsGood(next)'
  BY DEF SessionIsGood, Owns, Known
<1>5. SessionIsGood(office[a])'
  BY <1>3, <1>4 DEF SessionIsGood, Owns, Known
<1>6. Known(profile)'
  BY <1>1, <1>2, ProfileStays
<1> QED
  BY <1>1, <1>2, <1>3, <1>5, <1>6, ChangesAreGood

(* A step of a session that saves a submission.                            *)
LEMMA OfficeSaves ==
  ASSUME IInv, NEW a \in Office, office[a].sub \in Submissions,
         NEW row \in Row, Owns(row, "applicant"), Save(Self(office[a].sub), row),
         NEW next \in Session, SessionIsGood(next), office' = [office EXCEPT ![a] = next],
         UNCHANGED <<profile, applicants, checks, web, chains, created, requests>>
  PROVE  IInv'
<1>1. Self(office[a].sub) \in Subjects /\ Self(office[a].sub)[2] = "applicant"
  BY DEF Self, Subjects
<1>2. /\ rows' \in [Subjects -> Row]
      /\ approved \subseteq approved' /\ approved' \subseteq Submissions
      /\ \A y \in Subjects : rows'[y] = rows[y] \/ RowIsGood(y)'
  BY <1>1, SaveWrites
<1>3. TypeOK'
  BY <1>2 DEF IInv, TypeOK
<1>4. Grows
  BY <1>2, OnfidoStays DEF IInv
<1>5. office'[a] = next /\ \A b \in Office \ {a} : office'[b] = office[b]
  BY DEF IInv, TypeOK
<1>6. SessionIsGood(next)'
  BY <1>3, <1>4, SessionsStayGood DEF IInv
<1>7. SessionIsGood(office[a])'
  BY <1>5, <1>6 DEF SessionIsGood, Owns, Known
<1>8. Known(profile)'
  BY <1>3, <1>4, ProfileStays
<1> QED
  BY <1>2, <1>3, <1>4, <1>5, <1>7, <1>8, ChangesAreGood

(* A step of a chain of tasks: what it writes is good.                     *)
LEMMA ChainWrites ==
  ASSUME IInv, TypeOK', Grows, UNCHANGED <<profile, web, office>>,
         \A y \in Subjects : rows'[y] = rows[y] \/ RowIsGood(y)',
         \A d \in Chains : chains'[d] = chains[d] \/ ChainIsGood(chains[d])'
  PROVE  IInv'
BY ProfileStays, ChangesAreGood

(* What was good in the state before is good in the one after.             *)
LEMMA NowGood ==
  ASSUME TypeOK, TypeOK', Grows, NEW d \in Chains, ChainIsGood(chains'[d])
  PROVE  ChainIsGood(chains[d])'
<1>1. PICK x \in Chain : x = chains'[d]
  BY DEF TypeOK
<1>2. ChainIsGood(x)
  BY <1>1 DEF ChainIsGood, Owns
<1>3. ChainIsGood(x)'
  BY <1>2, SessionsStayGood
<1> QED
  BY <1>1, <1>3 DEF ChainIsGood, Owns

(* A chain that saves the row of its person.                               *)
LEMMA ChainSaves ==
  ASSUME IInv, NEW c \in Chains, chains[c].pc # "free",
         NEW row \in Row, Owns(row, chains[c].of[2]), Save(chains[c].of, row),
         chains' \in [Chains -> Chain],
         \A d \in Chains : chains'[d] = chains[d] \/ ChainIsGood(chains'[d]),
         UNCHANGED <<profile, applicants, checks, web, office, created, requests>>
  PROVE  IInv'
<1>1. chains[c].of \in Subjects
  BY DEF IInv, ChainIsGood
<1>2. /\ rows' \in [Subjects -> Row]
      /\ approved \subseteq approved' /\ approved' \subseteq Submissions
      /\ \A y \in Subjects : rows'[y] = rows[y] \/ RowIsGood(y)'
  BY <1>1, SaveWrites
<1>3. TypeOK'
  BY <1>2 DEF IInv, TypeOK
<1>4. Grows
  BY <1>2, OnfidoStays DEF IInv
<1>5. \A d \in Chains : chains'[d] = chains[d] \/ ChainIsGood(chains[d])'
  BY <1>3, <1>4, NowGood DEF IInv
<1> QED
  BY <1>2, <1>3, <1>4, <1>5, ChainWrites

(* A chain goes to a place where it has nothing in hand but a row.         *)
LEMMA ChainGets ==
  ASSUME IInv, TypeOK', NEW c \in Chains, NEW next \in Chain, ChainIsGood(next)',
         chains' = [chains EXCEPT ![c] = next]
  PROVE  \A d \in Chains : chains'[d] = chains[d] \/ ChainIsGood(chains[d])'
<1>1. chains'[c] = next /\ \A d \in Chains \ {c} : chains'[d] = chains[d]
  BY DEF IInv, TypeOK
<1>2. ChainIsGood(chains[c])'
  BY <1>1 DEF ChainIsGood, Owns
<1> QED
  BY <1>1, <1>2

-----------------------------------------------------------------------------
(* The operations of users.                                                *)

LEMMA IdleIsGood == ASSUME TypeOK PROVE SessionIsGood(Idle)
<1>1. Len(applicants) \in Nat /\ Len(checks) \in Nat
  BY DEF TypeOK
<1> QED
  BY <1>1 DEF SessionIsGood, Idle, Owns, NoRow, Known, Unverified, None

LEMMA RequestCounts == ASSUME TypeOK, Request PROVE requests' \in 0..MaxRequests
BY BoundsAreNat DEF TypeOK, Request

LEMMA BeginSubmissionStep ==
  ASSUME IInv, NEW s \in Web, BeginSubmission(s)
  PROVE  IInv'
<1> DEFINE next == [Idle EXCEPT !.pc = "create", !.profile = profile]
<1>1. /\ web' = [web EXCEPT ![s] = next]
      /\ UNCHANGED <<rows, profile, applicants, checks, office, chains, approved, created,
                     requests>>
  BY DEF BeginSubmission
<1>2. profile \in Profile /\ Known(profile) /\ requests \in 0..MaxRequests
  BY DEF IInv, TypeOK
<1>3. /\ next \in Session /\ next.pc = "create"
      /\ next.row = NoRow /\ next.profile = profile
  BY <1>2, Constants DEF Idle, Session, WebPCs
<1> HIDE DEF next
<1>4. SessionIsGood(next)
  BY <1>2, <1>3, IdleIsGood DEF SessionIsGood, Idle, IInv
<1>5. Known(profile)'
  BY <1>1, <1>2 DEF Known
<1> QED
  BY <1>1, <1>2, <1>3, <1>4, <1>5, WebMoves

LEMMA BeginLanguageStep ==
  ASSUME IInv, NEW s \in Web, BeginLanguage(s)
  PROVE  IInv'
<1> DEFINE next == [Idle EXCEPT !.pc = "save_language", !.profile = profile]
<1>1. /\ web' = [web EXCEPT ![s] = next] /\ Request
      /\ UNCHANGED <<rows, profile, applicants, checks, office, chains, approved, created>>
  BY DEF BeginLanguage
<1>2. profile \in Profile /\ Known(profile) /\ requests' \in 0..MaxRequests
  BY <1>1, RequestCounts DEF IInv, TypeOK
<1>3. /\ next \in Session /\ next.pc = "save_language"
      /\ next.row = NoRow /\ next.profile = profile
  BY <1>2, Constants DEF Idle, Session, WebPCs
<1> HIDE DEF next
<1>4. SessionIsGood(next)
  BY <1>2, <1>3, IdleIsGood DEF SessionIsGood, Idle, IInv
<1>5. Known(profile)'
  BY <1>1, <1>2 DEF Known
<1> QED
  BY <1>1, <1>2, <1>3, <1>4, <1>5, WebMoves

LEMMA SaveLanguageStep ==
  ASSUME IInv, NEW s \in Web, SaveLanguage(s)
  PROVE  IInv'
<1>1. /\ profile' = web[s].profile
      /\ web' = [web EXCEPT ![s] = Idle]
      /\ UNCHANGED <<rows, applicants, checks, office, chains, approved, created, requests>>
  BY DEF SaveLanguage
<1>2. web[s] \in Session /\ SessionIsGood(web[s]) /\ requests \in 0..MaxRequests
  BY DEF IInv, TypeOK
<1>3. profile' \in Profile
  BY <1>1, <1>2 DEF Session
<1>4. Known(profile)'
  BY <1>1, <1>2 DEF SessionIsGood, Known
<1>5. SessionIsGood(Idle) /\ Idle \in Session
  BY IdleIsGood, Constants DEF IInv
<1> QED
  BY <1>1, <1>2, <1>3, <1>4, <1>5, WebMoves

LEMMA SavePendingStep ==
  ASSUME IInv, NEW s \in Web, SavePending(s)
  PROVE  IInv'
<1> DEFINE next == [web[s] EXCEPT !.pc = "enqueue"]
<1>1. /\ web[s].pc = "save_profile"
      /\ profile' = [web[s].profile EXCEPT !.status = "pending"]
      /\ web' = [web EXCEPT ![s] = next]
      /\ UNCHANGED <<rows, applicants, checks, office, chains, approved, created, requests>>
  BY DEF SavePending
<1>2. web[s] \in Session /\ SessionIsGood(web[s]) /\ requests \in 0..MaxRequests
  BY DEF IInv, TypeOK
<1>3. web[s].profile \in Profile
  BY <1>2 DEF Session
<1>4. profile' \in Profile /\ profile'.status = "pending" /\ profile'.last = web[s].profile.last
  BY <1>1, <1>3 DEF Profile
<1>5. Known(profile)'
  BY <1>1, <1>2, <1>4 DEF SessionIsGood, Known
<1>6. /\ next \in Session /\ next.pc = "enqueue" /\ next.sub = web[s].sub
      /\ next.row = web[s].row /\ next.profile = web[s].profile
  BY <1>2 DEF Session, WebPCs
<1> HIDE DEF next
<1>7. SessionIsGood(next)
  BY <1>1, <1>2, <1>6 DEF SessionIsGood
<1> QED
  BY <1>1, <1>2, <1>4, <1>5, <1>6, <1>7, WebMoves

LEMMA CreateSubmissionStep ==
  ASSUME IInv, NEW s \in Web, CreateSubmission(s)
  PROVE  IInv'
<1>1. PICK new \in Submissions, type \in AccountTypes :
        /\ Insert(new, NewRow(new, type, "pending"), NewBeneficiary(new, type))
        /\ web' = [web EXCEPT ![s] = [@ EXCEPT !.pc = "save_profile", !.sub = new]]
        /\ UNCHANGED <<profile, applicants, checks, office, chains, approved, requests>>
  BY Zenon DEF CreateSubmission
<1>2. type \in {"individual", "business"}
  BY AccountTypesAre
<1>3. /\ NewRow(new, type, "pending") \in Row /\ NewBeneficiary(new, type) \in Row
      /\ NewRow(new, type, "pending").status = "pending"
      /\ Owns(NewRow(new, type, "pending"), "applicant")
      /\ Owns(NewBeneficiary(new, type), "beneficiary")
  BY <1>2, NewRows DEF IInv
<1>4. /\ rows' \in [Subjects -> Row] /\ created' \in Submissions
      /\ \A y \in Subjects : rows'[y] = rows[y] \/ RowIsGood(y)'
  BY <1>1, <1>3, InsertWrites
<1> DEFINE next == [web[s] EXCEPT !.pc = "save_profile", !.sub = new]
<1>5. web[s] \in Session /\ SessionIsGood(web[s])
  BY DEF IInv, TypeOK
<1>6. /\ next \in Session /\ next.pc = "save_profile" /\ next.sub = new
      /\ next.row = web[s].row /\ next.profile = web[s].profile
  BY <1>5 DEF Session, WebPCs
<1>7. web' = [web EXCEPT ![s] = next]
  BY <1>1
<1> HIDE DEF next
<1>8. TypeOK'
  BY <1>1, <1>4, <1>6, <1>7 DEF IInv, TypeOK
<1>9. Grows
  BY <1>1, OnfidoStays DEF IInv
<1>10. web'[s] = next /\ \A t \in Web \ {s} : web'[t] = web[t]
  BY <1>7 DEF IInv, TypeOK
<1>11. SessionIsGood(web[s])'
  BY <1>1, <1>5, <1>6, <1>10 DEF SessionIsGood, Owns, Known
<1>12. Known(profile)'
  BY <1>1, <1>8, <1>9, ProfileStays
<1> QED
  BY <1>1, <1>4, <1>8, <1>9, <1>10, <1>11, <1>12, ChangesAreGood

(* A step that queues a chain, and ends or goes on with what a session did.*)
LEMMA QueuesOne ==
  ASSUME IInv, NEW c \in Chains, NEW x \in Subjects, NEW pc \in {"create", "routine"},
         chains' = Queued(c, x, pc),
         web' \in [Web -> Session],
         \A s \in Web : web'[s] = web[s] \/ SessionIsGood(web'[s]),
         requests' \in 0..MaxRequests,
         UNCHANGED <<rows, profile, applicants, checks, office, approved, created>>
  PROVE  IInv'
<1>1. /\ chains' \in [Chains -> Chain]
      /\ \A d \in Chains \ {c} : chains'[d] = chains[d]
      /\ ChainIsGood(chains'[c])
  BY QueuedChains
<1>2. TypeOK'
  BY <1>1 DEF IInv, TypeOK
<1>3. Grows
  BY OnfidoStays DEF IInv
<1>4. ChainIsGood(chains[c])'
  BY <1>1 DEF ChainIsGood, Owns
<1>5. \A s \in Web : web'[s] = web[s] \/ SessionIsGood(web[s])'
  BY DEF SessionIsGood, Owns, Known
<1>6. Known(profile)'
  BY <1>2, <1>3, ProfileStays
<1> QED
  BY <1>1, <1>2, <1>3, <1>4, <1>5, <1>6, ChangesAreGood

LEMMA EnqueueScreeningStep ==
  ASSUME IInv, NEW s \in Web, EnqueueScreening(s)
  PROVE  IInv'
<1>1. PICK c \in FreeChains :
        /\ web[s].pc = "enqueue"
        /\ chains' = Queued(c, Self(web[s].sub), "create")
        /\ web' = [web EXCEPT ![s] =
                     IF rows[Self(web[s].sub)].type = "business"
                       THEN [web[s] EXCEPT !.pc = "enqueue_beneficiary"] ELSE Idle]
        /\ UNCHANGED <<rows, profile, applicants, checks, office, approved, created, requests>>
  BY DEF EnqueueScreening
<1>2. /\ web[s] \in Session /\ SessionIsGood(web[s]) /\ web[s].sub \in Submissions
      /\ requests \in 0..MaxRequests
  BY <1>1 DEF IInv, TypeOK, SessionIsGood
<1>3. Self(web[s].sub) \in Subjects
  BY <1>2, Constants
<1>4. Idle \in Session /\ SessionIsGood(Idle)
  BY Constants, IdleIsGood DEF IInv
<1> DEFINE next == [web[s] EXCEPT !.pc = "enqueue_beneficiary"]
<1>5. /\ next \in Session /\ next.pc = "enqueue_beneficiary" /\ next.sub = web[s].sub
      /\ next.row = web[s].row /\ next.profile = web[s].profile
  BY <1>2 DEF Session, WebPCs
<1>6. web' = [web EXCEPT ![s] = next] \/ web' = [web EXCEPT ![s] = Idle]
  BY <1>1
<1> HIDE DEF next
<1>7. SessionIsGood(next)
  BY <1>2, <1>5 DEF SessionIsGood
<1>8. /\ web' \in [Web -> Session]
      /\ \A t \in Web : web'[t] = web[t] \/ SessionIsGood(web'[t])
  BY <1>4, <1>5, <1>6, <1>7 DEF IInv, TypeOK
<1>9. requests' \in 0..MaxRequests /\ c \in Chains
  BY <1>1, <1>2 DEF FreeChains
<1> QED
  BY <1>1, <1>3, <1>8, <1>9, QueuesOne

LEMMA EnqueueBeneficiaryStep ==
  ASSUME IInv, NEW s \in Web, EnqueueBeneficiary(s)
  PROVE  IInv'
<1>1. PICK c \in FreeChains :
        /\ web[s].pc = "enqueue_beneficiary"
        /\ chains' = Queued(c, Beneficiary(web[s].sub), "create")
        /\ web' = [web EXCEPT ![s] = Idle]
        /\ UNCHANGED <<rows, profile, applicants, checks, office, approved, created, requests>>
  BY DEF EnqueueBeneficiary
<1>2. web[s].sub \in Submissions /\ requests' \in 0..MaxRequests /\ c \in Chains
  BY <1>1 DEF IInv, TypeOK, SessionIsGood, FreeChains
<1>3. Beneficiary(web[s].sub) \in Subjects
  BY <1>2, Constants
<1>4. Idle \in Session /\ SessionIsGood(Idle)
  BY Constants, IdleIsGood DEF IInv
<1>5. /\ web' \in [Web -> Session]
      /\ \A t \in Web : web'[t] = web[t] \/ SessionIsGood(web'[t])
  BY <1>1, <1>4 DEF IInv, TypeOK
<1> QED
  BY <1>1, <1>2, <1>3, <1>5, QueuesOne

-----------------------------------------------------------------------------
(* The operations of the office.                                           *)

LEMMA OpenStep ==
  ASSUME IInv, NEW a \in Office, NEW s \in Submissions,
         NEW pc \in {"approve", "save_reason", "save_edit"}, Open(a, s, pc)
  PROVE  IInv'
<1> DEFINE next == [Idle EXCEPT !.pc = pc, !.sub = s, !.row = rows[Self(s)]]
<1>1. /\ office' = [office EXCEPT ![a] = next] /\ Request
      /\ UNCHANGED <<rows, profile, applicants, checks, web, chains, approved, created>>
  BY DEF Open
<1>2. Self(s) \in Subjects /\ Self(s)[2] = "applicant"
  BY DEF Self, Subjects
<1>3. rows[Self(s)] \in Row /\ Owns(rows[Self(s)], "applicant")
  BY <1>2 DEF IInv, TypeOK, RowIsGood
<1>4. requests' \in 0..MaxRequests
  BY <1>1, RequestCounts DEF IInv
<1>5. /\ next \in Session /\ next.pc = pc /\ next.sub = s
      /\ next.row = rows[Self(s)] /\ next.profile = Unverified
  BY <1>3, Constants DEF Idle, Session, OfficePCs
<1> HIDE DEF next
<1>6. SessionIsGood(next)
  BY <1>3, <1>5, IdleIsGood DEF SessionIsGood, Idle, IInv
<1> QED
  BY <1>1, <1>4, <1>5, <1>6, OfficeMoves

LEMMA SaveReasonStep ==
  ASSUME IInv, NEW a \in Office, SaveReason(a)
  PROVE  IInv'
<1> DEFINE next == [office[a] EXCEPT !.pc = "reject"]
<1>1. /\ office[a].pc = "save_reason"
      /\ Save(Self(office[a].sub), office[a].row)
      /\ office' = [office EXCEPT ![a] = next]
      /\ UNCHANGED <<profile, applicants, checks, web, chains, created, requests>>
  BY DEF SaveReason
<1>2. office[a] \in Session /\ SessionIsGood(office[a])
  BY DEF IInv, TypeOK
<1>3. /\ office[a].sub \in Submissions /\ office[a].row \in Row
      /\ Owns(office[a].row, "applicant")
  BY <1>1, <1>2 DEF SessionIsGood, Session
<1>4. /\ next \in Session /\ next.pc = "reject" /\ next.sub = office[a].sub
      /\ next.row = office[a].row /\ next.profile = office[a].profile
  BY <1>2 DEF Session, OfficePCs
<1> HIDE DEF next
<1>5. SessionIsGood(next)
  BY <1>1, <1>2, <1>4 DEF SessionIsGood
<1> QED
  BY <1>1, <1>3, <1>4, <1>5, OfficeSaves

LEMMA SaveEditStep ==
  ASSUME IInv, NEW a \in Office, SaveEdit(a)
  PROVE  IInv'
<1>1. /\ office[a].pc = "save_edit"
      /\ Save(Self(office[a].sub), office[a].row)
      /\ office' = [office EXCEPT ![a] = Idle]
      /\ UNCHANGED <<profile, applicants, checks, web, chains, created, requests>>
  BY DEF SaveEdit
<1>2. office[a] \in Session /\ SessionIsGood(office[a])
  BY DEF IInv, TypeOK
<1>3. /\ office[a].sub \in Submissions /\ office[a].row \in Row
      /\ Owns(office[a].row, "applicant")
  BY <1>1, <1>2 DEF SessionIsGood, Session
<1> QED
  BY <1>1, <1>3, Constants, IdleIsGood, OfficeSaves DEF IInv

LEMMA SaveDecisionStep ==
  ASSUME IInv, NEW a \in Office, SaveDecision(a)
  PROVE  IInv'
<1> DEFINE status == IF office[a].pc = "approve" THEN "approved" ELSE "rejected"
           row == [office[a].row EXCEPT !.status = status]
           next == [office[a] EXCEPT !.pc = "judge", !.row.status = status]
<1>1. /\ office[a].pc \in {"approve", "reject"}
      /\ Save(Self(office[a].sub), row)
      /\ office' = [office EXCEPT ![a] = next]
      /\ UNCHANGED <<profile, applicants, checks, web, chains, created, requests>>
  BY DEF SaveDecision
<1>2. office[a] \in Session /\ SessionIsGood(office[a])
  BY DEF IInv, TypeOK
<1>3. /\ office[a].sub \in Submissions /\ office[a].row \in Row
      /\ Owns(office[a].row, "applicant")
  BY <1>1, <1>2 DEF SessionIsGood, Session
<1>4. status \in Statuses
  BY DEF Statuses
<1>5. /\ row \in Row /\ row.of = office[a].row.of
      /\ row.applicant = office[a].row.applicant /\ row.check = office[a].row.check
      /\ row.result = office[a].row.result
  BY <1>3, <1>4 DEF Row
<1>6. /\ next \in Session /\ next.pc = "judge" /\ next.sub = office[a].sub
      /\ next.row = row /\ next.profile = office[a].profile
  BY <1>2, <1>5 DEF Session, OfficePCs
<1> HIDE DEF next, row
<1>7. Owns(row, "applicant")
  BY <1>3, <1>5 DEF Owns
<1>8. SessionIsGood(next)
  BY <1>2, <1>3, <1>6, <1>7 DEF SessionIsGood
<1> QED
  BY <1>1, <1>3, <1>5, <1>6, <1>7, <1>8, OfficeSaves

LEMMA JudgeStep ==
  ASSUME IInv, NEW a \in Office, Judge(a)
  PROVE  IInv'
<1>1. PICK last \in ApprovedRows \union {None} :
        /\ office[a].pc = "judge"
        /\ office' = [office EXCEPT ![a] = [@ EXCEPT !.pc = "save_profile",
             !.profile = [last |-> last, hasty |-> FALSE,
                          status |-> IF last = None THEN "unverified" ELSE "verified"]]]
        /\ UNCHANGED <<rows, profile, applicants, checks, web, chains, approved, created,
                       requests>>
  BY Zenon DEF Judge
<1> DEFINE verdict == [last |-> last, hasty |-> FALSE,
                       status |-> IF last = None THEN "unverified" ELSE "verified"]
           next == [office[a] EXCEPT !.pc = "save_profile", !.profile = verdict]
<1>2. office[a] \in Session /\ SessionIsGood(office[a]) /\ requests' \in 0..MaxRequests
  BY <1>1 DEF IInv, TypeOK
<1>3. last \in approved \union {None} /\ last \in Submissions \union {None}
  <2>1. ASSUME NEW s \in ApprovedRows PROVE s \in approved /\ s \in Submissions
    <3>1. s \in Submissions /\ rows[Self(s)].status = "approved"
      BY DEF ApprovedRows
    <3>2. Self(s) \in Subjects /\ Self(s)[1] = s /\ Self(s)[2] = "applicant"
      BY <3>1 DEF Self, Subjects
    <3> QED
      BY <3>1, <3>2 DEF IInv, RowIsGood
  <2> QED
    BY <2>1
<1>4. /\ verdict \in Profile /\ verdict.last = last
      /\ verdict.status = "verified" => last # None
  BY <1>3 DEF Profile
<1> HIDE DEF verdict
<1>5. /\ next \in Session /\ next.pc = "save_profile" /\ next.sub = office[a].sub
      /\ next.row = office[a].row /\ next.profile = verdict
  BY <1>2, <1>4 DEF Session, OfficePCs
<1>6. office' = [office EXCEPT ![a] = next]
  BY <1>1 DEF verdict
<1> HIDE DEF next
<1>7. Known(verdict)
  BY <1>3, <1>4 DEF Known
<1>8. SessionIsGood(next)
  BY <1>1, <1>2, <1>5, <1>7 DEF SessionIsGood
<1> QED
  BY <1>1, <1>2, <1>5, <1>6, <1>8, OfficeMoves

LEMMA SaveVerdictStep ==
  ASSUME IInv, NEW a \in Office, SaveVerdict(a)
  PROVE  IInv'
<1>1. /\ profile' = office[a].profile
      /\ office' = [office EXCEPT ![a] = Idle]
      /\ web' = [s \in Web |-> IF web[s].pc \in {"save_profile", "save_language"}
                               THEN [web[s] EXCEPT !.profile.hasty = TRUE] ELSE web[s]]
      /\ UNCHANGED <<rows, applicants, checks, chains, approved, created, requests>>
  BY DEF SaveVerdict
<1>2. office[a] \in Session /\ SessionIsGood(office[a])
  BY DEF IInv, TypeOK
<1>3. profile' \in Profile /\ Known(profile')
  BY <1>1, <1>2 DEF SessionIsGood, Session
<1>4. ASSUME NEW s \in Web
      PROVE  web'[s] \in Session /\ (web'[s] = web[s] \/ SessionIsGood(web'[s]))
  <2>1. web[s] \in Session /\ SessionIsGood(web[s])
    BY DEF IInv, TypeOK
  <2> DEFINE old == web[s].profile
             hasty == [old EXCEPT !.hasty = TRUE]
             next == [web[s] EXCEPT !.profile = hasty]
  <2>2. web'[s] = next \/ web'[s] = web[s]
    BY <1>1
  <2>3. old \in Profile
    BY <2>1 DEF Session
  <2>4. hasty \in Profile /\ hasty.status = old.status /\ hasty.last = old.last
    BY <2>3 DEF Profile
  <2>5. Known(hasty)
    BY <2>1, <2>4 DEF SessionIsGood, Known
  <2> HIDE DEF hasty
  <2>6. /\ next \in Session /\ next.pc = web[s].pc /\ next.sub = web[s].sub
        /\ next.row = web[s].row /\ next.profile = hasty
    BY <2>1, <2>4 DEF Session
  <2>7. SessionIsGood(next)
    BY <2>1, <2>5, <2>6 DEF SessionIsGood
  <2> QED
    BY <2>1, <2>2, <2>6, <2>7
<1>5. Idle \in Session /\ SessionIsGood(Idle)
  BY Constants, IdleIsGood DEF IInv
<1>6. TypeOK'
  BY <1>1, <1>3, <1>4, <1>5 DEF IInv, TypeOK
<1>7. Grows
  BY <1>1, OnfidoStays DEF IInv
<1>8. \A s \in Web : web'[s] = web[s] \/ SessionIsGood(web[s])'
  BY <1>1, <1>4 DEF SessionIsGood, Owns, Known
<1>9. office'[a] = Idle /\ \A b \in Office \ {a} : office'[b] = office[b]
  BY <1>1 DEF IInv, TypeOK
<1>10. SessionIsGood(office[a])'
  BY <1>1, <1>5, <1>9 DEF SessionIsGood, Owns, Known
<1>11. Known(profile)'
  BY <1>1, <1>3 DEF Known
<1> QED
  BY <1>1, <1>6, <1>7, <1>8, <1>9, <1>10, <1>11, ChangesAreGood

(* A new submission of the office.                                         *)
LEMMA OfficeInserts ==
  ASSUME IInv, NEW s \in Submissions, NEW row \in Row, NEW other \in Row,
         Owns(row, "applicant"), Owns(other, "beneficiary"), row.status # "approved",
         Insert(s, row, other), Request,
         UNCHANGED <<profile, applicants, checks, web, office, chains, approved>>
  PROVE  IInv'
<1>1. /\ rows' \in [Subjects -> Row] /\ created' \in Submissions
      /\ \A y \in Subjects : rows'[y] = rows[y] \/ RowIsGood(y)'
  BY InsertWrites
<1>2. requests' \in 0..MaxRequests
  BY RequestCounts DEF IInv
<1>3. TypeOK'
  BY <1>1, <1>2 DEF IInv, TypeOK
<1>4. Grows
  BY OnfidoStays DEF IInv
<1>5. Known(profile)'
  BY <1>3, <1>4, ProfileStays
<1> QED
  BY <1>1, <1>3, <1>4, <1>5, ChangesAreGood

LEMMA AddDraftStep ==
  ASSUME IInv, NEW a \in Office, AddDraft(a)
  PROVE  IInv'
<1>1. PICK new \in Submissions, type \in AccountTypes :
        /\ Request
        /\ Insert(new, NewRow(new, type, "draft"), NewBeneficiary(new, type))
        /\ UNCHANGED <<profile, applicants, checks, web, office, chains, approved>>
  BY Zenon DEF AddDraft
<1>2. type \in {"individual", "business"}
  BY AccountTypesAre
<1>3. /\ NewRow(new, type, "draft") \in Row /\ NewBeneficiary(new, type) \in Row
      /\ NewRow(new, type, "draft").status = "draft"
      /\ Owns(NewRow(new, type, "draft"), "applicant")
      /\ Owns(NewBeneficiary(new, type), "beneficiary")
  BY <1>2, NewRows DEF IInv
<1> QED
  BY <1>1, <1>3, OfficeInserts

LEMMA CloneSubmissionStep ==
  ASSUME IInv, NEW a \in Office, CloneSubmission(a)
  PROVE  IInv'
<1>1. PICK s \in Submissions, new \in Submissions :
        /\ Request
        /\ Insert(new, [rows[Self(s)] EXCEPT !.status = "draft"], rows[Beneficiary(s)])
        /\ UNCHANGED <<profile, applicants, checks, web, office, chains, approved>>
  BY Zenon DEF CloneSubmission
<1> DEFINE row == [rows[Self(s)] EXCEPT !.status = "draft"]
<1>2. /\ Self(s) \in Subjects /\ Self(s)[2] = "applicant"
      /\ Beneficiary(s) \in Subjects /\ Beneficiary(s)[2] = "beneficiary"
  BY DEF Self, Beneficiary, Subjects
<1>3. /\ rows[Self(s)] \in Row /\ Owns(rows[Self(s)], "applicant")
      /\ rows[Beneficiary(s)] \in Row /\ Owns(rows[Beneficiary(s)], "beneficiary")
  BY <1>2 DEF IInv, TypeOK, RowIsGood
<1>4. /\ row \in Row /\ row.status = "draft" /\ row.of = rows[Self(s)].of
      /\ row.applicant = rows[Self(s)].applicant /\ row.check = rows[Self(s)].check
      /\ row.result = rows[Self(s)].result
  BY <1>3 DEF Row, Statuses
<1> HIDE DEF row
<1>5. Owns(row, "applicant")
  BY <1>3, <1>4 DEF Owns
<1> QED
  BY <1>1, <1>3, <1>4, <1>5, OfficeInserts DEF row

LEMMA DeleteDraftStep ==
  ASSUME IInv, NEW a \in Office, DeleteDraft(a)
  PROVE  IInv'
<1>1. PICK s \in Submissions :
        /\ rows' = [rows EXCEPT ![Self(s)] = NoRow, ![Beneficiary(s)] = NoRow]
        /\ profile' = IF profile.last = s THEN [profile EXCEPT !.last = None] ELSE profile
        /\ Request
        /\ UNCHANGED <<applicants, checks, web, office, chains, approved, created>>
  BY DEF DeleteDraft
<1>2. /\ rows' \in [Subjects -> Row]
      /\ \A x \in Subjects : rows'[x] = rows[x] \/ rows'[x] = NoRow
  BY <1>1, Constants DEF IInv, TypeOK
<1>3. /\ profile' \in Profile /\ profile'.status = profile.status
      /\ profile'.last = profile.last \/ profile'.last = None
  BY <1>1 DEF IInv, TypeOK, Profile
<1>4. requests' \in 0..MaxRequests
  BY <1>1, RequestCounts DEF IInv
<1>5. TypeOK'
  BY <1>1, <1>2, <1>3, <1>4 DEF IInv, TypeOK
<1>6. Grows
  BY <1>1, OnfidoStays DEF IInv
<1>7. Known(profile)'
  BY <1>1, <1>3 DEF IInv, Known
<1>8. Len(applicants) \in Nat /\ Len(checks) \in Nat
  BY DEF IInv, TypeOK
<1>9. \A x \in Subjects : rows'[x] = rows[x] \/ RowIsGood(x)'
  BY <1>1, <1>2, <1>8 DEF RowIsGood, Owns, NoRow, None
<1> QED
  BY <1>1, <1>5, <1>6, <1>7, <1>9, ChangesAreGood

LEMMA ForceScreeningStep ==
  ASSUME IInv, NEW a \in Office, ForceScreening(a)
  PROVE  IInv'
<1>1. PICK s \in Submissions, c \in FreeChains :
        /\ Request
        /\ chains' = Queued(c, Self(s), "routine")
        /\ UNCHANGED <<rows, profile, applicants, checks, web, office, approved, created>>
  BY Zenon DEF ForceScreening
<1>2. c \in Chains /\ Self(s) \in Subjects /\ requests' \in 0..MaxRequests
  BY <1>1, Constants, RequestCounts DEF FreeChains, IInv
<1>3. /\ web' \in [Web -> Session]
      /\ \A t \in Web : web'[t] = web[t] \/ SessionIsGood(web'[t])
  BY <1>1 DEF IInv, TypeOK
<1> QED
  BY <1>1, <1>2, <1>3, QueuesOne

-----------------------------------------------------------------------------
(* The tasks.                                                              *)

LEMMA ChainInHand ==
  ASSUME IInv, NEW c \in Chains
  PROVE  /\ chains[c] \in Chain /\ ChainIsGood(chains[c])
         /\ chains[c].row \in Row /\ Owns(chains[c].row, chains[c].of[2])
         /\ chains[c].pc # "free" =>
              /\ chains[c].of \in Subjects
              /\ RowOf(c) \in Row /\ Owns(RowOf(c), chains[c].of[2])
<1>1. chains[c] \in Chain /\ ChainIsGood(chains[c])
  BY DEF IInv, TypeOK
<1>2. chains[c].row \in Row /\ Owns(chains[c].row, chains[c].of[2])
  BY <1>1 DEF Chain, ChainIsGood
<1>3. ASSUME chains[c].pc # "free"
      PROVE  /\ chains[c].of \in Subjects
             /\ RowOf(c) \in Row /\ Owns(RowOf(c), chains[c].of[2])
  <2>1. chains[c].of \in Subjects
    BY <1>1, <1>3 DEF ChainIsGood
  <2> QED
    BY <2>1 DEF RowOf, IInv, TypeOK, RowIsGood
<1> QED
  BY <1>1, <1>2, <1>3

(* A task that moves its chain, and may have had Onfido do something.      *)
LEMMA TaskMoves ==
  ASSUME IInv, Grows, NEW c \in Chains, chains[c].pc # "free",
         \/ \E pc \in {"create", "start", "fetch", "save_again"} : GoTo(c, pc)
         \/ \E pc \in {"done", "failed"} : End(c, pc)
         \/ Retry(c),
         applicants' \in Seq(Applicant), checks' \in Seq(Check),
         \A k \in DOMAIN checks' : checks'[k].applicant \in DOMAIN applicants',
         UNCHANGED <<rows, profile, web, office, approved, created, requests>>
  PROVE  IInv'
<1>1. /\ chains' \in [Chains -> Chain]
      /\ \A d \in Chains : chains'[d] = chains[d] \/ ChainIsGood(chains'[d])
  BY ChainMoves
<1>2. TypeOK'
  BY <1>1 DEF IInv, TypeOK
<1>3. ASSUME NEW d \in Chains PROVE chains'[d] = chains[d] \/ ChainIsGood(chains[d])'
  BY <1>1, <1>2, NowGood DEF IInv
<1> QED
  BY <1>2, <1>3, ChainWrites

(* A task that takes what it has to save.                                  *)
LEMMA TaskTakes ==
  ASSUME IInv, NEW c \in Chains, NEW next \in Chain, ChainIsGood(next),
         chains' = [chains EXCEPT ![c] = next],
         UNCHANGED <<rows, profile, applicants, checks, web, office, approved, created, requests>>
  PROVE  IInv'
<1>1. TypeOK'
  BY DEF IInv, TypeOK
<1>2. Grows
  BY OnfidoStays DEF IInv
<1>3. ChainIsGood(next)'
  BY <1>1, <1>2, SessionsStayGood DEF IInv
<1>4. \A d \in Chains : chains'[d] = chains[d] \/ ChainIsGood(chains[d])'
  BY <1>1, <1>3, ChainGets
<1> QED
  BY <1>1, <1>2, <1>4, ChainWrites

LEMMA RowIsGoneStep ==
  ASSUME IInv, NEW c \in Chains, RowIsGone(c)
  PROVE  IInv'
<1>1. /\ End(c, "failed") /\ chains[c].pc # "free"
      /\ UNCHANGED <<rows, profile, applicants, checks, web, office, approved, created, requests>>
  BY DEF RowIsGone
<1>2. Grows
  BY <1>1, OnfidoStays DEF IInv
<1> QED
  BY <1>1, <1>2, TaskMoves DEF IInv, TypeOK

LEMMA RunRoutineStep ==
  ASSUME IInv, NEW c \in Chains, RunRoutine(c)
  PROVE  IInv'
<1>1. /\ chains[c].pc = "routine"
      /\ UNCHANGED <<rows, profile, applicants, checks, web, office, approved, created, requests>>
  BY DEF RunRoutine
<1>2. chains[c] \in Chain /\ ChainIsGood(chains[c]) /\ chains[c].of \in Subjects
  BY <1>1, ChainInHand
<1>3. CASE GoTo(c, "create")
  <2>1. Grows
    BY <1>1, OnfidoStays DEF IInv
  <2> QED
    BY <1>1, <1>3, <2>1, TaskMoves DEF IInv, TypeOK
<1>4. CASE \E d \in FreeChains :
             chains' = [Queued(d, Beneficiary(chains[c].of[1]), "create")
                          EXCEPT ![c].pc = "create"]
  <2>1. PICK d \in FreeChains :
          chains' = [Queued(d, Beneficiary(chains[c].of[1]), "create") EXCEPT ![c].pc = "create"]
    BY <1>4
  <2> DEFINE queued == Queued(d, Beneficiary(chains[c].of[1]), "create")
             next == [queued[c] EXCEPT !.pc = "create"]
  <2>2. d \in Chains /\ d # c /\ Beneficiary(chains[c].of[1]) \in Subjects
    BY <1>1, <1>2 DEF FreeChains, Beneficiary, Subjects
  <2>3. /\ queued \in [Chains -> Chain]
        /\ \A e \in Chains \ {d} : queued[e] = chains[e]
        /\ ChainIsGood(queued[d])
    BY <1>1, <2>2, QueuedChains
  <2>4. chains' = [queued EXCEPT ![c] = next]
    BY <2>1
  <2>5. queued[c] = chains[c]
    BY <2>2, <2>3
  <2> HIDE DEF queued
  <2>6. /\ next \in Chain /\ next.pc = "create" /\ next.of = chains[c].of
        /\ next.row = chains[c].row
    BY <1>2, <2>5 DEF Chain, ChainPCs
  <2> HIDE DEF next
  <2>7. ChainIsGood(next)
    BY <1>2, <2>6 DEF ChainIsGood
  <2>8. /\ chains' \in [Chains -> Chain]
        /\ \A e \in Chains : chains'[e] = chains[e] \/ ChainIsGood(chains'[e])
    BY <2>2, <2>3, <2>4, <2>6, <2>7
  <2>9. TypeOK'
    BY <1>1, <2>8 DEF IInv, TypeOK
  <2>10. Grows
    BY <1>1, OnfidoStays DEF IInv
  <2>11. \A e \in Chains : chains'[e] = chains[e] \/ ChainIsGood(chains[e])'
    BY <1>1, <2>8 DEF ChainIsGood, Owns
  <2> QED
    BY <1>1, <2>9, <2>10, <2>11, ChainWrites
<1> QED
  BY <1>3, <1>4 DEF RunRoutine

(* A new applicant, or check, is one more that Onfido knows.               *)
LEMMA ApplicantsGrow ==
  ASSUME IInv, NEW x \in Applicant, applicants' = Append(applicants, x),
         UNCHANGED <<checks, approved>>
  PROVE  /\ Grows
         /\ applicants' \in Seq(Applicant) /\ Len(applicants') = Len(applicants) + 1
         /\ DOMAIN applicants \subseteq DOMAIN applicants'
         /\ Len(applicants) + 1 \in DOMAIN applicants'
         /\ applicants'[Len(applicants) + 1] = x
BY DEF IInv, TypeOK, Grows

LEMMA CreateApplicantStep ==
  ASSUME IInv, NEW c \in Chains, CreateApplicant(c)
  PROVE  IInv'
<1>1. /\ chains[c].pc = "create"
      /\ UNCHANGED <<rows, profile, checks, web, office, approved, created, requests>>
  BY DEF CreateApplicant
<1>2. /\ chains[c] \in Chain /\ ChainIsGood(chains[c]) /\ chains[c].of \in Subjects
      /\ RowOf(c) \in Row /\ Owns(RowOf(c), chains[c].of[2])
  BY <1>1, ChainInHand
<1>3. CASE /\ applicants' = Append(applicants, [of |-> Of(chains[c].of), document |-> FALSE])
           /\ \/ chains' = [chains EXCEPT ![c] =
                   [@ EXCEPT !.pc = "save_applicant", !.row = RowOf(c),
                             !.person = Of(chains[c].of), !.applicant = Len(applicants) + 1]]
              \/ Retry(c)
  <2> DEFINE new == [of |-> Of(chains[c].of), document |-> FALSE]
  <2>1. /\ new \in Applicant /\ new.of = <<RowOf(c).of, chains[c].of[2]>>
        /\ Of(chains[c].of) \in Persons
    BY <1>2 DEF Of, RowOf, Applicant, Persons, Subjects, Row
  <2> HIDE DEF new
  <2>2. applicants' = Append(applicants, new)
    BY <1>3 DEF new
  <2>3. /\ Grows
        /\ applicants' \in Seq(Applicant) /\ Len(applicants') = Len(applicants) + 1
        /\ DOMAIN applicants \subseteq DOMAIN applicants'
        /\ Len(applicants) + 1 \in DOMAIN applicants'
        /\ applicants'[Len(applicants) + 1] = new
    BY <1>1, <2>1, <2>2, ApplicantsGrow
  <2>4. Len(applicants) \in Nat
    BY DEF IInv, TypeOK
  <2>5. CASE chains' = [chains EXCEPT ![c] =
                          [@ EXCEPT !.pc = "save_applicant", !.row = RowOf(c),
                                    !.person = Of(chains[c].of),
                                    !.applicant = Len(applicants) + 1]]
    <3> DEFINE next == [chains[c] EXCEPT !.pc = "save_applicant", !.row = RowOf(c),
                                         !.person = Of(chains[c].of),
                                         !.applicant = Len(applicants) + 1]
    <3>1. Len(applicants) + 1 \in Nat /\ "save_applicant" \in ChainPCs
      BY <2>4 DEF ChainPCs
    <3>2. /\ next \in Chain /\ next.pc = "save_applicant" /\ next.of = chains[c].of
          /\ next.row = RowOf(c) /\ next.applicant = Len(applicants) + 1
      BY <1>2, <2>1, <3>1 DEF Chain
    <3>3. chains' = [chains EXCEPT ![c] = next]
      BY <2>5
    <3> HIDE DEF next
    <3>4. TypeOK'
      BY <1>1, <2>3, <3>2, <3>3 DEF IInv, TypeOK
    <3>5. PICK x \in Chain, kind \in {"applicant", "beneficiary"} :
            /\ x = next /\ kind = x.of[2]
      BY <1>2, <3>2 DEF Subjects
    <3>6. x.row \in Row /\ Owns(x.row, kind)
      BY <1>2, <3>2, <3>5
    <3>7. Owns(x.row, kind)'
      BY <2>3, <3>4, <3>6, CopiesStayGood DEF IInv
    <3>8. ChainIsGood(x)'
      BY <1>2, <2>1, <2>3, <3>2, <3>5, <3>7 DEF ChainIsGood
    <3>9. chains' = [chains EXCEPT ![c] = x]
      BY <3>3, <3>5
    <3>10. \A d \in Chains : chains'[d] = chains[d] \/ ChainIsGood(chains[d])'
      BY <3>4, <3>8, <3>9, ChainGets
    <3> QED
      BY <1>1, <2>3, <3>4, <3>10, ChainWrites
  <2>6. CASE Retry(c)
    <3>1. \A k \in DOMAIN checks' : checks'[k].applicant \in DOMAIN applicants'
      BY <1>1, <2>3 DEF IInv, TypeOK
    <3> QED
      BY <1>1, <2>3, <2>6, <3>1, TaskMoves DEF IInv, TypeOK
  <2> QED
    BY <1>3, <2>5, <2>6
<1>4. CASE /\ chains' = [chains EXCEPT ![c] = [@ EXCEPT !.pc = "save_unsupported",
                                               !.row = RowOf(c), !.person = Of(chains[c].of)]]
           /\ UNCHANGED applicants
  <2> DEFINE next == [chains[c] EXCEPT !.pc = "save_unsupported", !.row = RowOf(c),
                                       !.person = Of(chains[c].of)]
  <2>1. "save_unsupported" \in ChainPCs /\ Of(chains[c].of) \in Persons
    BY <1>2 DEF ChainPCs, Of, RowOf, Persons, Subjects, Row
  <2>2. /\ next \in Chain /\ next.pc = "save_unsupported" /\ next.of = chains[c].of
        /\ next.row = RowOf(c)
    BY <1>2, <2>1 DEF Chain
  <2>3. chains' = [chains EXCEPT ![c] = next]
    BY <1>4
  <2> HIDE DEF next
  <2>4. ChainIsGood(next)
    BY <1>2, <2>2 DEF ChainIsGood
  <2> QED
    BY <1>1, <1>4, <2>2, <2>3, <2>4, TaskTakes
<1>5. CASE Retry(c) /\ UNCHANGED applicants
  <2>1. Grows
    BY <1>1, <1>5, OnfidoStays DEF IInv
  <2> QED
    BY <1>1, <1>5, <2>1, TaskMoves DEF IInv, TypeOK
<1> QED
  BY <1>3, <1>4, <1>5 DEF CreateApplicant

(* The tasks that save what they have in hand.                             *)

LEMMA ChainLetsGo ==
  ASSUME IInv, NEW c \in Chains, chains[c].pc # "free", NEW pc \in {"upload", "fetch"},
         chains' = [chains EXCEPT ![c] = [@ EXCEPT !.pc = pc, !.row = NoRow, !.tries = 0]]
  PROVE  /\ chains' \in [Chains -> Chain]
         /\ \A d \in Chains : chains'[d] = chains[d] \/ ChainIsGood(chains'[d])
<1>1. chains[c] \in Chain /\ ChainIsGood(chains[c])
  BY ChainInHand
<1> DEFINE next == [chains[c] EXCEPT !.pc = pc, !.row = NoRow, !.tries = 0]
<1>2. /\ next \in Chain /\ next.pc = pc /\ next.of = chains[c].of
      /\ next.row = NoRow /\ next.applicant = chains[c].applicant
  <2>1. pc \in ChainPCs /\ NoRow \in Row /\ 0 \in 0..MaxRetries
    BY Constants, BoundsAreNat DEF ChainPCs
  <2> QED
    BY <1>1, <2>1 DEF Chain
<1>3. chains' = [chains EXCEPT ![c] = next]
  OBVIOUS
<1> HIDE DEF next
<1>4. Len(applicants) \in Nat /\ Len(checks) \in Nat
  BY DEF IInv, TypeOK
<1>5. ChainIsGood(next)
  BY <1>1, <1>2, <1>4 DEF ChainIsGood, Owns, NoRow, None
<1> QED
  BY <1>2, <1>3, <1>5 DEF IInv, TypeOK

LEMMA SaveApplicantStep ==
  ASSUME IInv, NEW c \in Chains, SaveApplicant(c)
  PROVE  IInv'
<1> DEFINE row == [chains[c].row EXCEPT !.applicant = chains[c].applicant]
<1>1. /\ chains[c].pc = "save_applicant"
      /\ Save(chains[c].of, row)
      /\ chains' = [chains EXCEPT ![c] = [@ EXCEPT !.pc = "upload", !.row = NoRow, !.tries = 0]]
      /\ UNCHANGED <<profile, applicants, checks, web, office, created, requests>>
  BY DEF SaveApplicant
<1>2. /\ chains[c] \in Chain /\ ChainIsGood(chains[c])
      /\ chains[c].row \in Row /\ Owns(chains[c].row, chains[c].of[2])
  BY ChainInHand
<1>3. chains[c].applicant \in Nat /\ chains[c].applicant \in 1..Len(applicants)
  <2>1. chains[c].applicant \in Nat
    BY <1>2 DEF Chain
  <2>2. chains[c].applicant \in DOMAIN applicants
    BY <1>1, <1>2 DEF ChainIsGood
  <2>3. DOMAIN applicants = 1..Len(applicants)
    BY DEF IInv, TypeOK
  <2> QED
    BY <2>1, <2>2, <2>3
<1>4. /\ row \in Row /\ row.applicant = chains[c].applicant /\ row.of = chains[c].row.of
      /\ row.check = chains[c].row.check /\ row.result = chains[c].row.result
  BY <1>2, <1>3 DEF Row
<1> HIDE DEF row
<1>5. Owns(row, chains[c].of[2])
  BY <1>1, <1>2, <1>3, <1>4 DEF Owns, ChainIsGood
<1>7. /\ chains' \in [Chains -> Chain]
      /\ \A d \in Chains : chains'[d] = chains[d] \/ ChainIsGood(chains'[d])
  BY <1>1, ChainLetsGo
<1> QED
  BY <1>1, <1>4, <1>5, <1>7, ChainSaves

LEMMA SaveUnsupportedStep ==
  ASSUME IInv, NEW c \in Chains, SaveUnsupported(c)
  PROVE  IInv'
<1> DEFINE row == [chains[c].row EXCEPT !.result = "unsupported"]
<1>1. /\ chains[c].pc = "save_unsupported"
      /\ Save(chains[c].of, row)
      /\ chains' = [chains EXCEPT ![c] = [@ EXCEPT !.pc = "upload", !.row = NoRow, !.tries = 0]]
      /\ UNCHANGED <<profile, applicants, checks, web, office, created, requests>>
  BY DEF SaveUnsupported
<1>2. /\ chains[c] \in Chain /\ ChainIsGood(chains[c])
      /\ chains[c].row \in Row /\ Owns(chains[c].row, chains[c].of[2])
  BY ChainInHand
<1>3. "unsupported" \in Results
  BY DEF Results
<1>4. /\ row \in Row /\ row.applicant = chains[c].row.applicant /\ row.of = chains[c].row.of
      /\ row.check = chains[c].row.check /\ row.result = "unsupported"
  BY <1>2, <1>3 DEF Row
<1> HIDE DEF row
<1>5. Owns(row, chains[c].of[2])
  BY <1>2, <1>4 DEF Owns
<1>7. /\ chains' \in [Chains -> Chain]
      /\ \A d \in Chains : chains'[d] = chains[d] \/ ChainIsGood(chains'[d])
  BY <1>1, ChainLetsGo
<1> QED
  BY <1>1, <1>4, <1>5, <1>7, ChainSaves

LEMMA SaveCheckStep ==
  ASSUME IInv, NEW c \in Chains, SaveCheck(c)
  PROVE  IInv'
<1> DEFINE row == [chains[c].row EXCEPT !.check = chains[c].applicant]
<1>1. /\ chains[c].pc = "save_check"
      /\ Save(chains[c].of, row)
      /\ chains' = [chains EXCEPT ![c] = [@ EXCEPT !.pc = "fetch", !.row = NoRow, !.tries = 0]]
      /\ UNCHANGED <<profile, applicants, checks, web, office, created, requests>>
  BY DEF SaveCheck
<1>2. /\ chains[c] \in Chain /\ ChainIsGood(chains[c])
      /\ chains[c].row \in Row /\ Owns(chains[c].row, chains[c].of[2])
  BY ChainInHand
<1>3. chains[c].applicant \in Nat /\ chains[c].applicant \in 0..Len(checks)
  BY <1>1, <1>2 DEF ChainIsGood, Chain
<1>4. /\ row \in Row /\ row.applicant = chains[c].row.applicant /\ row.of = chains[c].row.of
      /\ row.check = chains[c].applicant /\ row.result = chains[c].row.result
  BY <1>2, <1>3 DEF Row
<1> HIDE DEF row
<1>5. Owns(row, chains[c].of[2])
  BY <1>2, <1>3, <1>4 DEF Owns
<1>6. /\ chains' \in [Chains -> Chain]
      /\ \A d \in Chains : chains'[d] = chains[d] \/ ChainIsGood(chains'[d])
  BY <1>1, ChainLetsGo
<1> QED
  BY <1>1, <1>4, <1>5, <1>6, ChainSaves

LEMMA SaveResultStep ==
  ASSUME IInv, NEW c \in Chains, SaveResult(c)
  PROVE  IInv'
<1>1. /\ chains[c].pc \in {"save_result", "save_again"}
      /\ Save(chains[c].of, chains[c].row)
      /\ GoTo(c, "save_again") \/ End(c, "done")
      /\ UNCHANGED <<profile, applicants, checks, web, office, created, requests>>
  BY DEF SaveResult
<1>2. chains[c].row \in Row /\ Owns(chains[c].row, chains[c].of[2])
  BY ChainInHand
<1>3. chains[c].pc # "free"
  BY <1>1
<1>4. /\ chains' \in [Chains -> Chain]
      /\ \A d \in Chains : chains'[d] = chains[d] \/ ChainIsGood(chains'[d])
  BY <1>1, <1>3, ChainMoves
<1> QED
  BY <1>1, <1>2, <1>3, <1>4, ChainSaves

-----------------------------------------------------------------------------
(* The tasks that have Onfido screen a person.                             *)

LEMMA UploadDocumentStep ==
  ASSUME IInv, NEW c \in Chains, UploadDocument(c)
  PROVE  IInv'
<1>1. /\ chains[c].pc = "upload" /\ (GoTo(c, "start") \/ Retry(c))
      /\ \/ UNCHANGED applicants
         \/ applicants' = [applicants EXCEPT ![chains[c].applicant].document = TRUE]
      /\ UNCHANGED <<rows, profile, checks, web, office, approved, created, requests>>
  BY DEF UploadDocument
<1>2. \A i \in DOMAIN applicants : applicants[i] \in Applicant
  BY DEF IInv, TypeOK
<1>3. /\ applicants' \in Seq(Applicant) /\ Len(applicants') = Len(applicants)
      /\ DOMAIN applicants' = DOMAIN applicants
      /\ \A i \in DOMAIN applicants : applicants'[i].of = applicants[i].of
  <2>1. CASE UNCHANGED applicants
    BY <2>1 DEF IInv, TypeOK
  <2>2. CASE applicants' = [applicants EXCEPT ![chains[c].applicant].document = TRUE]
    <3> DEFINE k == chains[c].applicant
               new == [applicants[k] EXCEPT !.document = TRUE]
    <3>1. applicants' = [applicants EXCEPT ![k] = new]
      BY <2>2
    <3>2. CASE k \in DOMAIN applicants
      <4>1. applicants[k] \in Applicant
        BY <1>2, <3>2
      <4>2. new \in Applicant /\ new.of = applicants[k].of
        BY <4>1 DEF Applicant
      <4> HIDE DEF new
      <4> QED
        BY <3>1, <3>2, <4>2 DEF IInv, TypeOK
    <3>3. CASE k \notin DOMAIN applicants
      <4> HIDE DEF new
      <4>1. applicants' = applicants
        BY <3>1, <3>3 DEF IInv, TypeOK
      <4> QED
        BY <4>1 DEF IInv, TypeOK
    <3> QED
      BY <3>2, <3>3
  <2> QED
    BY <1>1, <2>1, <2>2
<1>4. Grows
  BY <1>1, <1>3 DEF Grows, IInv, TypeOK
<1>5. checks' \in Seq(Check) /\ \A k \in DOMAIN checks' : checks'[k].applicant \in DOMAIN applicants'
  BY <1>1, <1>3 DEF IInv, TypeOK
<1> QED
  BY <1>1, <1>3, <1>4, <1>5, TaskMoves

LEMMA StartCheckStep ==
  ASSUME IInv, NEW c \in Chains, StartCheck(c)
  PROVE  IInv'
<1>1. /\ chains[c].pc = "start"
      /\ UNCHANGED <<rows, profile, applicants, web, office, approved, created, requests>>
  BY DEF StartCheck
<1>2. /\ chains[c] \in Chain /\ ChainIsGood(chains[c]) /\ chains[c].of \in Subjects
      /\ RowOf(c) \in Row /\ Owns(RowOf(c), chains[c].of[2])
  BY <1>1, ChainInHand
<1>3. CASE (GoTo(c, "fetch") \/ Retry(c)) /\ UNCHANGED checks
  <2>1. Grows
    BY <1>1, <1>3, OnfidoStays DEF IInv
  <2> QED
    BY <1>1, <1>3, <2>1, TaskMoves DEF IInv, TypeOK
<1>4. CASE /\ RowOf(c).applicant # None
           /\ checks' = Append(checks, [applicant |-> RowOf(c).applicant, state |-> "running"])
           /\ \/ chains' = [chains EXCEPT ![c] =
                   [@ EXCEPT !.pc = "save_check", !.row = RowOf(c), !.applicant = Len(checks) + 1]]
              \/ Retry(c)
  <2> DEFINE new == [applicant |-> RowOf(c).applicant, state |-> "running"]
  <2>1. RowOf(c).applicant \in DOMAIN applicants
    BY <1>2, <1>4 DEF Owns, None, IInv, TypeOK
  <2>2. new \in Check /\ new.applicant = RowOf(c).applicant
    BY <1>2 DEF Check, Row
  <2> HIDE DEF new
  <2>3. checks' = Append(checks, new)
    BY <1>4 DEF new
  <2>4. /\ checks' \in Seq(Check) /\ Len(checks') = Len(checks) + 1
        /\ \A k \in DOMAIN checks' : \/ checks'[k] = new
                                     \/ k \in DOMAIN checks /\ checks'[k] = checks[k]
        /\ \A k \in DOMAIN checks : checks'[k] = checks[k]
        /\ Len(checks) \in Nat
    BY <2>2, <2>3 DEF IInv, TypeOK
  <2>5. \A k \in DOMAIN checks' : checks'[k].applicant \in DOMAIN applicants'
    BY <1>1, <2>1, <2>2, <2>4 DEF IInv, TypeOK
  <2>6. Grows
    BY <1>1, <2>4 DEF Grows, IInv, TypeOK
  <2>7. CASE chains' = [chains EXCEPT ![c] =
                          [@ EXCEPT !.pc = "save_check", !.row = RowOf(c),
                                    !.applicant = Len(checks) + 1]]
    <3> DEFINE next == [chains[c] EXCEPT !.pc = "save_check", !.row = RowOf(c),
                                         !.applicant = Len(checks) + 1]
    <3>1. Len(checks) + 1 \in Nat /\ "save_check" \in ChainPCs
      BY <2>4 DEF ChainPCs
    <3>2. /\ next \in Chain /\ next.pc = "save_check" /\ next.of = chains[c].of
          /\ next.row = RowOf(c) /\ next.applicant = Len(checks) + 1
      BY <1>2, <3>1 DEF Chain
    <3>3. chains' = [chains EXCEPT ![c] = next]
      BY <2>7
    <3> HIDE DEF next
    <3>4. TypeOK'
      BY <1>1, <2>4, <2>5, <3>2, <3>3 DEF IInv, TypeOK
    <3>5. PICK x \in Chain, kind \in {"applicant", "beneficiary"} :
            /\ x = next /\ kind = x.of[2]
      BY <1>2, <3>2 DEF Subjects
    <3>6. x.row \in Row /\ Owns(x.row, kind)
      BY <1>2, <3>2, <3>5
    <3>7. Owns(x.row, kind)'
      BY <2>6, <3>4, <3>6, CopiesStayGood DEF IInv
    <3>8. x.applicant \in 0..Len(checks')
      BY <2>4, <3>2, <3>5
    <3>9. ChainIsGood(x)'
      BY <1>2, <3>2, <3>5, <3>7, <3>8 DEF ChainIsGood
    <3>10. chains' = [chains EXCEPT ![c] = x]
      BY <3>3, <3>5
    <3>11. \A d \in Chains : chains'[d] = chains[d] \/ ChainIsGood(chains[d])'
      BY <3>4, <3>9, <3>10, ChainGets
    <3> QED
      BY <1>1, <2>6, <3>4, <3>11, ChainWrites
  <2>8. CASE Retry(c)
    BY <1>1, <2>4, <2>5, <2>6, <2>8, TaskMoves DEF IInv, TypeOK
  <2> QED
    BY <1>4, <2>7, <2>8
<1> QED
  BY <1>3, <1>4 DEF StartCheck

LEMMA FetchResultStep ==
  ASSUME IInv, NEW c \in Chains, FetchResult(c)
  PROVE  IInv'
<1>1. /\ chains[c].pc = "fetch"
      /\ UNCHANGED <<rows, profile, applicants, checks, web, office, approved, created, requests>>
  BY DEF FetchResult
<1>2. /\ chains[c] \in Chain /\ ChainIsGood(chains[c]) /\ chains[c].of \in Subjects
      /\ RowOf(c) \in Row /\ Owns(RowOf(c), chains[c].of[2])
  BY <1>1, ChainInHand
<1>3. CASE End(c, "done") \/ End(c, "failed") \/ Retry(c)
  <2>1. Grows
    BY <1>1, OnfidoStays DEF IInv
  <2> QED
    BY <1>1, <1>3, <2>1, TaskMoves DEF IInv, TypeOK
<1>4. CASE /\ IsComplete(RowOf(c))
           /\ chains' = [chains EXCEPT ![c] = [@ EXCEPT !.pc = "save_result",
                 !.row = [RowOf(c) EXCEPT !.result = checks[RowOf(c).check].state]]]
  <2> DEFINE k == RowOf(c).check
             row == [RowOf(c) EXCEPT !.result = checks[k].state]
             next == [chains[c] EXCEPT !.pc = "save_result", !.row = row]
  <2>1. /\ k \in DOMAIN checks /\ checks[k].applicant = RowOf(c).applicant
        /\ checks[k].state # "running"
    BY <1>2, <1>4 DEF IsComplete, Owns, None, IInv, TypeOK
  <2>2. checks[k] \in Check /\ checks[k].applicant \in DOMAIN applicants
    BY <2>1 DEF IInv, TypeOK
  <2>3. checks[k].state \in {"clear", "consider"} /\ checks[k].state \in Results
    BY <2>1, <2>2 DEF Check, Results
  <2>4. RowOf(c).applicant # None
    BY <2>1, <2>2 DEF None, IInv, TypeOK
  <2>5. applicants[checks[k].applicant].of = <<RowOf(c).of, chains[c].of[2]>>
    BY <1>2, <2>1, <2>4 DEF Owns
  <2>6. /\ row \in Row /\ row.applicant = RowOf(c).applicant /\ row.of = RowOf(c).of
        /\ row.check = k /\ row.result = checks[k].state
    BY <1>2, <2>3 DEF Row
  <2>7. chains' = [chains EXCEPT ![c] = next]
    BY <1>4
  <2> HIDE DEF row
  <2>8. Owns(row, chains[c].of[2])
    BY <1>2, <2>1, <2>5, <2>6 DEF Owns
  <2>9. "save_result" \in ChainPCs
    BY DEF ChainPCs
  <2>10. /\ next \in Chain /\ next.pc = "save_result" /\ next.of = chains[c].of
         /\ next.row = row
    BY <1>2, <2>6, <2>9 DEF Chain
  <2> HIDE DEF next
  <2>11. ChainIsGood(next)
    BY <1>2, <2>8, <2>10 DEF ChainIsGood
  <2> QED
    BY <1>1, <2>7, <2>10, <2>11, TaskTakes
<1> QED
  BY <1>3, <1>4 DEF FetchResult

LEMMA CompleteCheckStep ==
  ASSUME IInv, CompleteCheck
  PROVE  IInv'
<1>1. PICK k \in DOMAIN checks, result \in {"clear", "consider"} :
        /\ checks[k].state = "running"
        /\ checks' = [checks EXCEPT ![k].state = result]
        /\ UNCHANGED <<rows, profile, applicants, web, office, chains, approved, created,
                       requests>>
  BY Zenon DEF CompleteCheck
<1> DEFINE new == [checks[k] EXCEPT !.state = result]
<1>2. checks[k] \in Check
  BY DEF IInv, TypeOK
<1>3. new \in Check /\ new.applicant = checks[k].applicant
  BY <1>2 DEF Check
<1>4. checks' = [checks EXCEPT ![k] = new]
  BY <1>1
<1> HIDE DEF new
<1>5. /\ checks' \in Seq(Check) /\ Len(checks') = Len(checks)
      /\ DOMAIN checks' = DOMAIN checks
      /\ \A i \in DOMAIN checks : /\ checks'[i].applicant = checks[i].applicant
                                  /\ i # k => checks'[i] = checks[i]
  BY <1>3, <1>4 DEF IInv, TypeOK
<1>6. TypeOK'
  BY <1>1, <1>5 DEF IInv, TypeOK
<1>7. Grows
  BY <1>1, <1>5 DEF Grows, IInv, TypeOK
<1>8. Known(profile)'
  BY <1>1, <1>6, <1>7, ProfileStays
<1> QED
  BY <1>1, <1>6, <1>7, <1>8, ChangesAreGood

-----------------------------------------------------------------------------
LEMMA NextStep == IInv /\ [Next]_vars => IInv'
<1> SUFFICES ASSUME IInv, [Next]_vars PROVE IInv'
  OBVIOUS
<1>1. CASE UNCHANGED vars
  BY <1>1 DEF vars, IInv, TypeOK, RowIsGood, SessionIsGood, ChainIsGood, Owns, Known
<1>2. ASSUME NEW s \in Web, WebStep(s) PROVE IInv'
  BY <1>2, BeginSubmissionStep, CreateSubmissionStep, SavePendingStep,
     EnqueueScreeningStep, EnqueueBeneficiaryStep, BeginLanguageStep, SaveLanguageStep
     DEF WebStep
<1>3. ASSUME NEW a \in Office, OfficeStep(a) PROVE IInv'
  BY <1>3, OpenStep, SaveReasonStep, SaveDecisionStep, JudgeStep, SaveVerdictStep,
     SaveEditStep, AddDraftStep, CloneSubmissionStep, DeleteDraftStep, ForceScreeningStep
     DEF OfficeStep, OpenToApprove, OpenToReject, OpenToEdit
<1>4. ASSUME NEW c \in Chains, TaskStep(c) PROVE IInv'
  BY <1>4, RowIsGoneStep, RunRoutineStep, CreateApplicantStep, SaveApplicantStep,
     SaveUnsupportedStep, UploadDocumentStep, StartCheckStep, SaveCheckStep,
     FetchResultStep, SaveResultStep
     DEF TaskStep
<1> QED
  BY <1>1, <1>2, <1>3, <1>4, CompleteCheckStep DEF Next

-----------------------------------------------------------------------------
(* What waits for a decision, and whom a screening is about.               *)

(* Where a chain has a row in hand to save it, where it is about a person, *)
(* where it is not yet about one, and where the office has a row in hand.  *)
Taking == {"save_applicant", "save_unsupported", "save_check", "save_result", "save_again"}
Screening == Taking \union {"upload", "start", "fetch"}
Early == {"free", "routine", "create"}
Editing == {"save_reason", "approve", "reject", "save_edit"}
Deciding == {"judge", "save_profile"}

(* A submission is undecided when its row is pending and so is every copy  *)
(* that may be saved over it.                                              *)
IsUndecided(s) ==
  /\ rows[Self(s)].status = "pending"
  /\ \A a \in Office :
       office[a].sub = s /\ office[a].pc \in Editing => office[a].row.status = "pending"
  /\ \A c \in Chains :
       chains[c].of = Self(s) /\ chains[c].pc \in Taking => chains[c].row.status = "pending"
IsAwaited ==
  \/ \E s \in Submissions : IsUndecided(s)
  \/ \E a \in Office : office[a].pc \in Deciding
IsOpen(p) == p.status = "pending" /\ ~p.hasty

(* A session holds a profile that is, or is about to be, pending.          *)
Submits(x) ==
  \/ x.pc = "save_profile" /\ ~x.profile.hasty
  \/ x.pc = "save_language" /\ IsOpen(x.profile)

WInv ==
  /\ IsOpen(profile) => IsAwaited
  /\ \A s \in Web : Submits(web[s]) => IsAwaited
  /\ \A a \in Office : office[a].pc = "save_profile" => office[a].profile.status # "pending"

(* An applicant that a row names has its document, unless a chain that     *)
(* screens the person has yet to upload it, or failed.                     *)
Backed(i) ==
  \/ applicants[i].document
  \/ \E c \in Chains : /\ chains[c].person = applicants[i].of
                       /\ \/ chains[c].pc = "failed"
                          \/ chains[c].pc = "upload" /\ chains[c].applicant = i
RowIsBacked(row) == row.applicant # None => Backed(row.applicant)

Screens(c, person) == chains[c].person = person /\ chains[c].pc \notin Early
HasDocument(k) ==
  \/ applicants[checks[k].applicant].document
  \/ \E c, d \in Chains : /\ c # d
                          /\ Screens(c, applicants[checks[k].applicant].of)
                          /\ Screens(d, applicants[checks[k].applicant].of)

(* owner[x] is the one whose data every copy of row x holds, and only rows *)
(* that were created have copies.                                          *)
RowKept(x, owner) ==
  /\ Exists(x) => x[1] <= created /\ rows[x].of = owner[x]
  /\ RowIsBacked(rows[x])
EditKept(y, owner) ==
  /\ y.sub <= created
  /\ y.pc \in Editing => y.row.of = owner[Self(y.sub)] /\ RowIsBacked(y.row)
ChainKept(z, owner) ==
  /\ z.of[1] <= created
  /\ z.pc \in Screening => z.person = <<owner[z.of], z.of[2]>>
  /\ z.pc \in Taking => z.row.of = owner[z.of] /\ RowIsBacked(z.row)

FInv(owner) ==
  /\ \A x \in Subjects : RowKept(x, owner)
  /\ \A s \in Web : web[s].sub <= created
  /\ \A a \in Office : EditKept(office[a], owner)
  /\ \A c \in Chains : ChainKept(chains[c], owner)
  /\ \A k \in DOMAIN checks : HasDocument(k)

OwnersAre == [Subjects -> Submissions \union {None}]
SInv == /\ WInv
        /\ \E owner \in OwnersAre : FInv(owner)

(* Documents stay, and so do the chains that are about a person.           *)
GoesOn ==
  /\ created <= created'
  /\ \A i \in DOMAIN applicants : /\ applicants[i].document => applicants'[i].document
                                  /\ Backed(i) => Backed(i)'
  /\ \A d \in Chains : chains[d].pc \notin Early =>
       chains'[d].pc \notin Early /\ chains'[d].person = chains[d].person

LEMMA Ranges ==
  ASSUME TypeOK
  PROVE  /\ created \in Nat
         /\ Len(applicants) \in Nat /\ DOMAIN applicants = 1..Len(applicants)
         /\ Len(checks) \in Nat /\ DOMAIN checks = 1..Len(checks)
BY SubmissionsAreNumbers DEF TypeOK, None

LEMMA Numbers ==
  /\ \A m \in Submissions \union {None} : m \in Nat
  /\ \A y \in Session : y.sub \in Nat /\ y.row \in Row
  /\ \A z \in Chain : z.of \in Persons /\ z.of[1] \in Nat /\ z.row \in Row
  /\ \A x \in Subjects : x[1] \in Nat
<1>1. \A m \in Submissions \union {None} : m \in Nat
  BY SubmissionsAreNumbers DEF None
<1>2. \A y \in Session : y.sub \in Submissions \union {None} /\ y.row \in Row
  BY DEF Session
<1>3. \A z \in Chain : z.of \in Persons /\ z.row \in Row
  BY DEF Chain
<1>4. \A x \in Persons : x[1] \in Submissions \union {None}
  BY DEF Persons
<1>5. \A x \in Subjects : x[1] \in Submissions
  BY DEF Subjects
<1> QED
  BY <1>1, <1>2, <1>3, <1>4, <1>5

LEMMA InitScreening == Init => SInv
<1> SUFFICES ASSUME Init PROVE SInv
  OBVIOUS
<1>1. WInv
  BY DEF Init, WInv, IsOpen, Submits, Idle, Unverified
<1>2. \E owner \in OwnersAre : TRUE
  <2>1. [x \in Subjects |-> None] \in OwnersAre
    BY DEF OwnersAre
  <2> QED
    BY <2>1
<1>3. PICK owner \in OwnersAre : TRUE
  BY <1>2
<1>4. FInv(owner)
  <2>1. \A x \in Subjects : RowKept(x, owner)
    BY DEF Init, RowKept, Exists, RowIsBacked, NoRow
  <2>2. Idle.sub <= created /\ Idle.pc \notin Editing /\ Idle.sub = None
    BY DEF Init, Idle, Editing, None
  <2>3. (\A s \in Web : web[s].sub <= created) /\ \A a \in Office : EditKept(office[a], owner)
    BY <2>2 DEF Init, EditKept
  <2>4. Free.of[1] <= created /\ Free.pc \notin Screening /\ Free.pc \notin Taking
    BY DEF Init, Free, Self, Screening, Taking, None
  <2>5. \A c \in Chains : ChainKept(chains[c], owner)
    BY <2>4 DEF Init, ChainKept
  <2>6. \A k \in DOMAIN checks : HasDocument(k)
    BY DEF Init
  <2> QED
    BY <2>1, <2>3, <2>5, <2>6 DEF FInv
<1> QED
  BY <1>1, <1>4 DEF SInv

-----------------------------------------------------------------------------
(* What a step leaves as it was.                                           *)

LEMMA BackedStays ==
  ASSUME TypeOK, GoesOn, NEW row \in Row, NEW kind, Owns(row, kind), RowIsBacked(row)
  PROVE  RowIsBacked(row)'
<1>1. row.applicant # None => row.applicant \in DOMAIN applicants
  BY Ranges DEF Owns, None
<1> QED
  BY <1>1 DEF RowIsBacked, GoesOn

LEMMA KeptStays ==
  ASSUME IInv, IInv', Grows, GoesOn, NEW owner \in OwnersAre, FInv(owner)
  PROVE  /\ \A x \in Subjects : rows'[x] = rows[x] => RowKept(x, owner)'
         /\ \A s \in Web : web'[s] = web[s] => web'[s].sub <= created'
         /\ \A a \in Office : office'[a] = office[a] => EditKept(office[a], owner)'
         /\ \A c \in Chains : chains'[c] = chains[c] => ChainKept(chains[c], owner)'
         /\ \A k \in DOMAIN checks : HasDocument(k)'
<1>1. TypeOK /\ TypeOK'
  BY DEF IInv
<1>2. created \in Nat /\ created' \in Nat /\ created <= created'
  BY <1>1, Numbers DEF TypeOK, GoesOn
<1>3. ASSUME NEW x \in Subjects, rows'[x] = rows[x]
      PROVE  RowKept(x, owner)'
  <2>1. PICK row \in Row : row = rows[x]
    BY <1>1 DEF TypeOK
  <2>2. Owns(row, x[2]) /\ RowIsBacked(row)
    BY <2>1 DEF IInv, RowIsGood, Owns, FInv, RowKept, RowIsBacked
  <2>3. RowIsBacked(row)'
    BY <1>1, <2>2, BackedStays
  <2>4. x[1] \in Nat
    BY Numbers
  <2>5. RowIsBacked(rows[x])'
    BY <1>3, <2>1, <2>3 DEF RowIsBacked
  <2>6. Exists(x) => x[1] <= created /\ rows[x].of = owner[x]
    BY DEF FInv, RowKept
  <2> QED
    BY <1>2, <1>3, <2>4, <2>5, <2>6 DEF RowKept, Exists
<1>4. ASSUME NEW s \in Web, web'[s] = web[s]
      PROVE  web'[s].sub <= created'
  <2>1. web[s].sub \in Nat
    BY <1>1, Numbers DEF TypeOK
  <2> QED
    BY <1>2, <1>4, <2>1 DEF FInv
<1>5. ASSUME NEW a \in Office, office'[a] = office[a]
      PROVE  EditKept(office[a], owner)'
  <2>1. PICK y \in Session : y = office[a]
    BY <1>1 DEF TypeOK
  <2>2. y.sub \in Nat /\ y.row \in Row
    BY Numbers
  <2>3. Owns(y.row, "applicant") /\ EditKept(y, owner)
    BY <2>1 DEF IInv, SessionIsGood, Owns, FInv, EditKept, RowIsBacked
  <2>4. RowIsBacked(y.row) => RowIsBacked(y.row)'
    BY <1>1, <2>2, <2>3, BackedStays
  <2>5. EditKept(y, owner)'
    BY <1>2, <2>2, <2>3, <2>4 DEF EditKept
  <2> QED
    BY <1>5, <2>1, <2>5 DEF EditKept, RowIsBacked
<1>6. ASSUME NEW c \in Chains, chains'[c] = chains[c]
      PROVE  ChainKept(chains[c], owner)'
  <2>1. PICK z \in Chain : z = chains[c]
    BY <1>1 DEF TypeOK
  <2>2. z.of[1] \in Nat /\ z.row \in Row
    BY Numbers
  <2>3. Owns(z.row, z.of[2]) /\ ChainKept(z, owner)
    BY <2>1 DEF IInv, ChainIsGood, Owns, FInv, ChainKept, RowIsBacked
  <2>4. RowIsBacked(z.row) => RowIsBacked(z.row)'
    BY <1>1, <2>2, <2>3, BackedStays
  <2>5. ChainKept(z, owner)'
    BY <1>2, <2>2, <2>3, <2>4 DEF ChainKept
  <2> QED
    BY <1>6, <2>1, <2>5 DEF ChainKept, RowIsBacked
<1>7. ASSUME NEW k \in DOMAIN checks
      PROVE  HasDocument(k)'
  <2>1. /\ checks[k].applicant \in DOMAIN applicants
        /\ checks'[k].applicant = checks[k].applicant
    BY <1>1 DEF TypeOK, Grows
  <2> DEFINE i == checks[k].applicant
  <2>2. applicants'[i].of = applicants[i].of
    BY <2>1 DEF Grows
  <2>3. CASE applicants[i].document
    BY <2>1, <2>3 DEF GoesOn, HasDocument
  <2>4. CASE \E c, d \in Chains : /\ c # d
                                  /\ Screens(c, applicants[i].of)
                                  /\ Screens(d, applicants[i].of)
    <3>1. PICK c \in Chains, d \in Chains : /\ c # d
                                            /\ Screens(c, applicants[i].of)
                                            /\ Screens(d, applicants[i].of)
      BY <2>4
    <3>2. /\ chains'[c].pc \notin Early /\ chains'[c].person = applicants'[i].of
          /\ chains'[d].pc \notin Early /\ chains'[d].person = applicants'[i].of
      BY <2>2, <3>1 DEF GoesOn, Screens
    <3> QED
      BY <2>1, <3>1, <3>2 DEF HasDocument, Screens
  <2> QED
    BY <2>3, <2>4 DEF FInv, HasDocument
<1> QED
  BY <1>3, <1>4, <1>5, <1>6, <1>7

(* It is enough to look at what a step changes.                            *)
LEMMA ChangesAreKept ==
  ASSUME IInv, IInv', Grows, GoesOn, NEW owner \in OwnersAre, FInv(owner),
         \A x \in Subjects : rows'[x] = rows[x] \/ RowKept(x, owner)',
         \A s \in Web : web'[s] = web[s] \/ web'[s].sub <= created',
         \A a \in Office : office'[a] = office[a] \/ EditKept(office[a], owner)',
         \A c \in Chains : chains'[c] = chains[c] \/ ChainKept(chains[c], owner)',
         \A k \in DOMAIN checks' : k \in DOMAIN checks \/ HasDocument(k)'
  PROVE  FInv(owner)'
BY KeptStays DEF FInv

LEMMA ChainsStay ==
  ASSUME IInv, created \in Nat, created' \in Nat, created <= created', UNCHANGED <<applicants, chains>>
  PROVE  GoesOn
BY DEF GoesOn, Backed

LEMMA UndecidedStays ==
  ASSUME NEW s \in Submissions, IsUndecided(s), rows'[Self(s)].status = "pending",
         \A a \in Office : \/ office'[a] = office[a]
                           \/ office'[a].pc \notin Editing
                           \/ office'[a].sub # s
                           \/ office'[a].row.status = "pending",
         \A c \in Chains : \/ chains'[c] = chains[c]
                           \/ chains'[c].pc \notin Taking
                           \/ chains'[c].of # Self(s)
                           \/ chains'[c].row.status = "pending"
  PROVE  IsUndecided(s)'
BY DEF IsUndecided

LEMMA WaitingStays ==
  ASSUME WInv, UNCHANGED web,
         IsOpen(profile)' => IsOpen(profile),
         \/ \A s \in Submissions : IsUndecided(s) => IsUndecided(s)'
         \/ \E a \in Office : office'[a].pc \in Deciding,
         \A a \in Office : \/ office'[a] = office[a]
                           \/ /\ office[a].pc \in Deciding => office'[a].pc \in Deciding
                              /\ office'[a].pc = "save_profile" =>
                                   office'[a].profile.status # "pending"
  PROVE  WInv'
<1>1. IsAwaited => IsAwaited'
  BY DEF IsAwaited
<1>2. \A s \in Web : Submits(web[s])' => Submits(web[s])
  BY DEF Submits, IsOpen
<1>3. \A a \in Office : (office[a].pc = "save_profile" => office[a].profile.status # "pending")'
  BY DEF WInv
<1> QED
  BY <1>1, <1>2, <1>3 DEF WInv

-----------------------------------------------------------------------------
(* What waits and whom a screening is about, after a step of a session.    *)

LEMMA WebKeeps ==
  ASSUME IInv, IInv', NEW owner \in OwnersAre, FInv(owner),
         \A s \in Web : web'[s] = web[s] \/ web'[s].sub <= created',
         UNCHANGED <<rows, applicants, checks, office, chains, approved, created>>
  PROVE  FInv(owner)'
<1>1. Grows /\ created \in Nat
  BY OnfidoStays, Ranges DEF IInv
<1>2. GoesOn
  BY <1>1, ChainsStay
<1> QED
  BY <1>1, <1>2, ChangesAreKept

LEMMA WebWaits ==
  ASSUME WInv, NEW s \in Web, \A t \in Web \ {s} : web'[t] = web[t],
         IsOpen(profile)' => IsOpen(profile) \/ Submits(web[s]),
         Submits(web[s])' => IsOpen(profile) \/ Submits(web[s]),
         UNCHANGED <<rows, office, chains>>
  PROVE  WInv'
<1>1. IsAwaited' <=> IsAwaited
  BY DEF IsAwaited, IsUndecided
<1>2. \A t \in Web \ {s} : Submits(web[t])' => Submits(web[t])
  BY DEF Submits, IsOpen
<1> QED
  BY <1>1, <1>2 DEF WInv

LEMMA WebPlain ==
  ASSUME IInv, IInv', WInv, NEW owner \in OwnersAre, FInv(owner), NEW s \in Web,
         \/ BeginSubmission(s) \/ SavePending(s) \/ BeginLanguage(s) \/ SaveLanguage(s)
  PROVE  SInv'
<1>1. /\ web[s] \in Session /\ web[s].profile \in Profile /\ created \in Nat
      /\ web \in [Web -> Session]
  BY Ranges DEF IInv, TypeOK, Session
<1>2. /\ \A t \in Web \ {s} : web'[t] = web[t]
      /\ UNCHANGED <<rows, applicants, checks, office, chains, approved, created>>
  BY <1>1 DEF BeginSubmission, SavePending, BeginLanguage, SaveLanguage
<1>3. web[s].sub <= created /\ None <= created
  BY <1>1 DEF FInv, None
<1>4. CASE BeginSubmission(s)
  <2>1. /\ web'[s].pc = "create" /\ web'[s].sub = None /\ profile' = profile
    BY <1>1, <1>4 DEF BeginSubmission, Idle
  <2>2. WInv'
    BY <1>2, <2>1, WebWaits DEF Submits
  <2>3. FInv(owner)'
    BY <1>2, <1>3, <2>1, WebKeeps
  <2> QED
    BY <2>2, <2>3 DEF SInv
<1>5. CASE SavePending(s)
  <2>1. /\ web'[s].pc = "enqueue" /\ web'[s].sub = web[s].sub
        /\ web[s].pc = "save_profile" /\ profile'.hasty = web[s].profile.hasty
    BY <1>1, <1>5 DEF SavePending, Profile
  <2>2. WInv'
    BY <1>2, <2>1, WebWaits DEF Submits, IsOpen
  <2>3. FInv(owner)'
    BY <1>2, <1>3, <2>1, WebKeeps
  <2> QED
    BY <2>2, <2>3 DEF SInv
<1>6. CASE BeginLanguage(s)
  <2>1. /\ web'[s].pc = "save_language" /\ web'[s].sub = None /\ web'[s].profile = profile
        /\ profile' = profile
    BY <1>1, <1>6 DEF BeginLanguage, Idle
  <2>2. WInv'
    BY <1>2, <2>1, WebWaits DEF Submits, IsOpen
  <2>3. FInv(owner)'
    BY <1>2, <1>3, <2>1, WebKeeps
  <2> QED
    BY <2>2, <2>3 DEF SInv
<1>7. CASE SaveLanguage(s)
  <2>1. /\ web'[s].pc = "idle" /\ web'[s].sub = None
        /\ web[s].pc = "save_language" /\ profile' = web[s].profile
    BY <1>1, <1>7 DEF SaveLanguage, Idle
  <2>2. WInv'
    BY <1>2, <2>1, WebWaits DEF Submits, IsOpen
  <2>3. FInv(owner)'
    BY <1>2, <1>3, <2>1, WebKeeps
  <2> QED
    BY <2>2, <2>3 DEF SInv
<1> QED
  BY <1>4, <1>5, <1>6, <1>7

(* A step of the office that changes no row.                               *)
LEMMA OfficeKeeps ==
  ASSUME IInv, IInv', WInv, NEW owner \in OwnersAre, FInv(owner),
         NEW a \in Office, NEW next \in Session, EditKept(next, owner),
         next.pc \in Editing => next.row.status = rows[Self(next.sub)].status,
         office[a].pc \in Deciding => next.pc \in Deciding,
         next.pc = "save_profile" => next.profile.status # "pending",
         office' = [office EXCEPT ![a] = next],
         UNCHANGED <<rows, profile, applicants, checks, web, chains, approved, created>>
  PROVE  SInv'
<1>1. office'[a] = next /\ \A b \in Office \ {a} : office'[b] = office[b]
  BY DEF IInv, TypeOK
<1>2. Grows /\ created \in Nat
  BY OnfidoStays, Ranges DEF IInv
<1>3. GoesOn
  BY <1>2, ChainsStay
<1>4. EditKept(office[a], owner)'
  BY <1>1 DEF EditKept, RowIsBacked, Backed
<1>5. FInv(owner)'
  BY <1>1, <1>2, <1>3, <1>4, ChangesAreKept
<1>6. ASSUME NEW s \in Submissions, IsUndecided(s)
      PROVE  IsUndecided(s)'
  <2>1. rows[Self(s)].status = "pending"
    BY <1>6 DEF IsUndecided
  <2> QED
    BY <1>1, <1>6, <2>1, UndecidedStays
<1>7. WInv'
  BY <1>1, <1>6, WaitingStays DEF IsOpen
<1> QED
  BY <1>5, <1>7 DEF SInv

LEMMA OpenKeeps ==
  ASSUME IInv, IInv', WInv, NEW owner \in OwnersAre, FInv(owner),
         NEW a \in Office, NEW s \in Submissions,
         NEW pc \in {"approve", "save_reason", "save_edit"}, Open(a, s, pc)
  PROVE  SInv'
<1> DEFINE next == [Idle EXCEPT !.pc = pc, !.sub = s, !.row = rows[Self(s)]]
<1>1. /\ office[a].pc = "idle" /\ Exists(Self(s))
      /\ office' = [office EXCEPT ![a] = next]
      /\ UNCHANGED <<rows, profile, applicants, checks, web, chains, approved, created>>
  BY DEF Open
<1>2. Self(s) \in Subjects /\ Self(s)[1] = s
  BY DEF Self, Subjects
<1>3. rows[Self(s)] \in Row
  BY <1>2 DEF IInv, TypeOK
<1>4. /\ next \in Session /\ next.pc = pc /\ next.sub = s /\ next.row = rows[Self(s)]
  BY <1>3, Constants DEF Idle, Session, OfficePCs
<1> HIDE DEF next
<1>5. s <= created /\ rows[Self(s)].of = owner[Self(s)] /\ RowIsBacked(rows[Self(s)])
  BY <1>1, <1>2 DEF FInv, RowKept
<1>6. EditKept(next, owner)
  BY <1>4, <1>5 DEF EditKept
<1>7. /\ next.row.status = rows[Self(next.sub)].status
      /\ office[a].pc \notin Deciding /\ next.pc # "save_profile"
  BY <1>1, <1>4 DEF Deciding
<1> QED
  BY <1>1, <1>4, <1>6, <1>7, OfficeKeeps

LEMMA JudgeKeeps ==
  ASSUME IInv, IInv', WInv, NEW owner \in OwnersAre, FInv(owner), NEW a \in Office, Judge(a)
  PROVE  SInv'
<1>1. PICK last \in ApprovedRows \union {None} :
        /\ office[a].pc = "judge"
        /\ office' = [office EXCEPT ![a] = [@ EXCEPT !.pc = "save_profile",
             !.profile = [last |-> last, hasty |-> FALSE,
                          status |-> IF last = None THEN "unverified" ELSE "verified"]]]
        /\ UNCHANGED <<rows, profile, applicants, checks, web, chains, approved, created,
                       requests>>
  BY Zenon DEF Judge
<1>2. office[a] \in Session /\ office' \in [Office -> Session] /\ office \in [Office -> Session]
  BY DEF IInv, TypeOK
<1>3. /\ office'[a].pc = "save_profile" /\ office'[a].sub = office[a].sub
      /\ office'[a].profile.status # "pending"
  BY <1>1, <1>2 DEF Session
<1>4. PICK next \in Session : next = office'[a]
  BY <1>2
<1>5. office' = [office EXCEPT ![a] = next]
  BY <1>1, <1>2, <1>4
<1>6. EditKept(next, owner)
  BY <1>3, <1>4 DEF EditKept, FInv, Editing
<1>7. next.pc \notin Editing /\ next.pc \in Deciding
  BY <1>3, <1>4 DEF Editing, Deciding
<1> QED
  BY <1>1, <1>3, <1>4, <1>5, <1>6, <1>7, OfficeKeeps

LEMMA SaveVerdictKeeps ==
  ASSUME IInv, IInv', WInv, NEW owner \in OwnersAre, FInv(owner), NEW a \in Office, SaveVerdict(a)
  PROVE  SInv'
<1>1. /\ office[a].pc = "save_profile" /\ profile' = office[a].profile
      /\ office' = [office EXCEPT ![a] = Idle]
      /\ web' = [s \in Web |-> IF web[s].pc \in {"save_profile", "save_language"}
                               THEN [web[s] EXCEPT !.profile.hasty = TRUE] ELSE web[s]]
      /\ UNCHANGED <<rows, applicants, checks, chains, approved, created>>
  BY DEF SaveVerdict
<1>2. /\ office \in [Office -> Session] /\ web \in [Web -> Session] /\ created \in Nat
      /\ \A s \in Web : web[s] \in Session
  BY Ranges DEF IInv, TypeOK
<1>3. ASSUME NEW s \in Web
      PROVE  ~Submits(web'[s]) /\ web'[s].sub = web[s].sub
  <2>1. CASE web[s].pc \in {"save_profile", "save_language"}
    <3>1. web'[s] = [web[s] EXCEPT !.profile.hasty = TRUE]
      BY <1>1, <2>1
    <3>2. web[s] \in Session /\ web[s].profile \in Profile
      BY <1>2 DEF Session
    <3>3. web'[s].profile.hasty = TRUE /\ web'[s].sub = web[s].sub
      BY <3>1, <3>2 DEF Session, Profile
    <3> QED
      BY <3>3 DEF Submits, IsOpen
  <2>2. CASE web[s].pc \notin {"save_profile", "save_language"}
    BY <1>1, <2>2 DEF Submits
  <2> QED
    BY <2>1, <2>2
<1>4. \A s \in Web : ~Submits(web[s])'
  BY <1>3 DEF Submits, IsOpen
<1>5. ~IsOpen(profile)'
  BY <1>1 DEF WInv, IsOpen
<1>6. office'[a] = Idle /\ \A b \in Office \ {a} : office'[b] = office[b]
  BY <1>1, <1>2
<1>7. Idle.pc = "idle" /\ Idle.sub = None
  BY DEF Idle
<1>8. WInv'
  BY <1>4, <1>5, <1>6, <1>7 DEF WInv
<1>9. Grows
  BY <1>1, OnfidoStays DEF IInv
<1>10. GoesOn
  BY <1>1, <1>2, ChainsStay
<1>11. EditKept(office[a], owner)'
  BY <1>1, <1>2, <1>6, <1>7 DEF EditKept, Editing, None
<1>12. \A s \in Web : web'[s].sub <= created'
  BY <1>1, <1>3 DEF FInv
<1>13. FInv(owner)'
  BY <1>1, <1>6, <1>9, <1>10, <1>11, <1>12, ChangesAreKept
<1> QED
  BY <1>8, <1>13 DEF SInv

(* A step of the office that saves the row it has in hand.                 *)
LEMMA OfficeSavesKept ==
  ASSUME IInv, IInv', WInv, NEW owner \in OwnersAre, FInv(owner),
         NEW a \in Office, office[a].pc \in Editing, NEW row \in Row,
         row.of = office[a].row.of, row.applicant = office[a].row.applicant,
         Save(Self(office[a].sub), row),
         NEW next \in Session, next.sub = office[a].sub \/ next.sub = None,
         next.pc \in Editing => next.sub = office[a].sub /\ next.row = office[a].row,
         next.pc = "judge" \/ row.status = office[a].row.status,
         next.pc # "save_profile",
         office' = [office EXCEPT ![a] = next],
         UNCHANGED <<profile, applicants, checks, web, chains, created>>
  PROVE  SInv'
<1>1. office[a].sub \in Submissions /\ EditKept(office[a], owner)
  BY DEF IInv, SessionIsGood, Editing, FInv
<1>2. PICK x \in Subjects : x = Self(office[a].sub) /\ x[1] = office[a].sub
  BY <1>1 DEF Self, Subjects
<1>3. rows'[x] = row /\ \A y \in Subjects \ {x} : rows'[y] = rows[y]
  BY <1>2 DEF Save, IInv, TypeOK
<1>4. office'[a] = next /\ \A b \in Office \ {a} : office'[b] = office[b]
  BY DEF IInv, TypeOK
<1>5. Grows /\ created \in Nat
  BY OnfidoStays, Ranges DEF IInv, Save
<1>6. GoesOn
  BY <1>5, ChainsStay
<1>7. /\ office[a].sub <= created /\ row.of = owner[x] /\ RowIsBacked(row)
  BY <1>1, <1>2 DEF EditKept, RowIsBacked
<1>8. RowKept(x, owner)'
  <2>1. Backed(row.applicant)' <=> Backed(row.applicant)
    BY DEF Backed
  <2>2. RowIsBacked(rows[x])'
    BY <1>3, <1>7, <2>1 DEF RowIsBacked
  <2> QED
    BY <1>2, <1>3, <1>7, <2>2 DEF RowKept, Exists
<1>9. EditKept(next, owner)
  BY <1>1, <1>5 DEF EditKept, None
<1>10. EditKept(office[a], owner)'
  BY <1>4, <1>9 DEF EditKept, RowIsBacked, Backed
<1>11. FInv(owner)'
  BY <1>3, <1>4, <1>5, <1>6, <1>8, <1>10, ChangesAreKept
<1>12. ASSUME NEW s \in Submissions, IsUndecided(s), row.status = office[a].row.status
       PROVE  IsUndecided(s)'
  <2>1. rows[Self(s)].status = "pending" /\ Self(s) \in Subjects
    BY <1>12, Constants DEF IsUndecided
  <2>2. office[a].sub = s => office[a].row.status = "pending"
    BY <1>12 DEF IsUndecided
  <2>3. Self(s) = x => office[a].sub = s
    BY <1>2 DEF Self
  <2>4. rows'[Self(s)].status = "pending"
    BY <1>3, <1>12, <2>1, <2>2, <2>3
  <2> QED
    BY <1>4, <1>12, <2>2, <2>4, UndecidedStays
<1>13. \/ \A s \in Submissions : IsUndecided(s) => IsUndecided(s)'
       \/ office'[a].pc \in Deciding
  BY <1>4, <1>12 DEF Deciding
<1>14. office[a].pc \notin Deciding
  BY DEF Deciding, Editing
<1>15. WInv'
  BY <1>4, <1>13, <1>14, WaitingStays DEF IsOpen
<1> QED
  BY <1>11, <1>15 DEF SInv

LEMMA OfficeSaveSteps ==
  ASSUME IInv, IInv', WInv, NEW owner \in OwnersAre, FInv(owner), NEW a \in Office,
         SaveReason(a) \/ SaveDecision(a) \/ SaveEdit(a)
  PROVE  SInv'
<1>1. office[a] \in Session /\ office[a].row \in Row
  BY DEF IInv, TypeOK, Session
<1>2. CASE SaveReason(a)
  <2> DEFINE next == [office[a] EXCEPT !.pc = "reject"]
  <2>1. /\ next \in Session /\ next.pc = "reject" /\ next.sub = office[a].sub
        /\ next.row = office[a].row
    BY <1>1 DEF Session, OfficePCs
  <2>2. /\ office[a].pc \in Editing /\ Save(Self(office[a].sub), office[a].row)
        /\ office' = [office EXCEPT ![a] = next]
        /\ UNCHANGED <<profile, applicants, checks, web, chains, created>>
    BY <1>2 DEF SaveReason, Editing
  <2> HIDE DEF next
  <2> QED
    BY <1>1, <2>1, <2>2, OfficeSavesKept
<1>3. CASE SaveDecision(a)
  <2> DEFINE status == IF office[a].pc = "approve" THEN "approved" ELSE "rejected"
             row == [office[a].row EXCEPT !.status = status]
             next == [office[a] EXCEPT !.pc = "judge", !.row.status = status]
  <2>1. /\ office[a].pc \in Editing /\ Save(Self(office[a].sub), row)
        /\ office' = [office EXCEPT ![a] = next]
        /\ UNCHANGED <<profile, applicants, checks, web, chains, created>>
    BY <1>3 DEF SaveDecision, Editing
  <2>2. /\ row \in Row /\ row.of = office[a].row.of
        /\ row.applicant = office[a].row.applicant
    BY <1>1 DEF Row, Statuses
  <2>3. /\ next \in Session /\ next.pc = "judge" /\ next.sub = office[a].sub
    BY <1>1, <2>2 DEF Session, OfficePCs
  <2>4. next.pc \notin Editing
    BY <2>3 DEF Editing
  <2> HIDE DEF next, row
  <2> QED
    BY <2>1, <2>2, <2>3, <2>4, OfficeSavesKept
<1>4. CASE SaveEdit(a)
  <2>1. /\ office[a].pc \in Editing /\ Save(Self(office[a].sub), office[a].row)
        /\ office' = [office EXCEPT ![a] = Idle]
        /\ UNCHANGED <<profile, applicants, checks, web, chains, created>>
    BY <1>4 DEF SaveEdit, Editing
  <2>2. Idle \in Session /\ Idle.pc = "idle" /\ Idle.sub = None /\ Idle.pc \notin Editing
    BY Constants DEF Idle, Editing
  <2> QED
    BY <1>1, <2>1, <2>2, OfficeSavesKept
<1> QED
  BY <1>2, <1>3, <1>4

(* A row that is new has an owner of its own.                              *)
LEMMA InsertKeeps ==
  ASSUME IInv, IInv', NEW owner \in OwnersAre, FInv(owner),
         NEW new \in Submissions, NEW row \in Row, NEW other \in Row,
         RowIsBacked(row), RowIsBacked(other), Insert(new, row, other),
         \A s \in Web : web'[s] = web[s] \/ web'[s].sub <= created',
         UNCHANGED <<applicants, checks, office, chains, approved>>
  PROVE  /\ \E o \in OwnersAre : FInv(o)'
         /\ \A s \in Submissions : IsUndecided(s) => IsUndecided(s)'
         /\ row.status = "pending" => IsUndecided(new)'
<1>1. /\ new = created + 1 /\ created' = new
      /\ rows' = [rows EXCEPT ![Self(new)] = row, ![Beneficiary(new)] = other]
      /\ created \in Nat
  BY Ranges DEF Insert, IInv
<1>2. PICK x \in Subjects, y \in Subjects :
        /\ x = Self(new) /\ y = Beneficiary(new) /\ x # y /\ x[1] = new /\ y[1] = new
        /\ \A z \in Subjects : z[1] = new => z = x \/ z = y
  <2>1. /\ Self(new) \in Subjects /\ Beneficiary(new) \in Subjects /\ Self(new) # Beneficiary(new)
        /\ Self(new)[1] = new /\ Beneficiary(new)[1] = new
    BY DEF Self, Beneficiary, Subjects
  <2>2. \A z \in Subjects : z[1] = new => z = Self(new) \/ z = Beneficiary(new)
    BY DEF Self, Beneficiary, Subjects
  <2> QED
    BY <2>1, <2>2
<1>3. /\ rows'[x] = row /\ rows'[y] = other
      /\ \A z \in Subjects : z[1] # new => rows'[z] = rows[z]
  BY <1>1, <1>2 DEF IInv, TypeOK
<1>4. PICK o \in OwnersAre : /\ o[x] = row.of /\ o[y] = other.of
                             /\ \A z \in Subjects : z[1] # new => o[z] = owner[z]
  <2> DEFINE o == [owner EXCEPT ![x] = row.of, ![y] = other.of]
  <2>1. row.of \in Submissions \union {None} /\ other.of \in Submissions \union {None}
    BY DEF Row
  <2>2. o \in OwnersAre /\ o[x] = row.of /\ o[y] = other.of
    BY <1>2, <2>1 DEF OwnersAre
  <2>3. \A z \in Subjects : z[1] # new => o[z] = owner[z]
    BY <1>2 DEF OwnersAre
  <2> QED
    BY <2>2, <2>3
<1>5. \A m \in Nat : m <= created => m # new
  BY <1>1
<1>6. FInv(o)
  <2>1. ASSUME NEW z \in Subjects PROVE RowKept(z, o)
    <3>1. RowKept(z, owner) /\ z[1] \in Nat
      BY Numbers DEF FInv
    <3> QED
      BY <1>4, <1>5, <3>1 DEF RowKept
  <2>2. ASSUME NEW a \in Office PROVE EditKept(office[a], o)
    <3>1. EditKept(office[a], owner) /\ office[a].sub \in Nat
      BY Numbers DEF FInv, IInv, TypeOK
    <3>2. office[a].pc \in Editing => /\ Self(office[a].sub) \in Subjects
                                      /\ Self(office[a].sub)[1] = office[a].sub
      BY DEF IInv, SessionIsGood, Editing, Self, Subjects
    <3> QED
      BY <1>4, <1>5, <3>1, <3>2 DEF EditKept
  <2>3. ASSUME NEW c \in Chains PROVE ChainKept(chains[c], o)
    <3>1. ChainKept(chains[c], owner) /\ chains[c].of[1] \in Nat
      BY Numbers DEF FInv, IInv, TypeOK
    <3>2. chains[c].pc \in Screening => chains[c].of \in Subjects
      BY DEF IInv, ChainIsGood, Screening, Taking
    <3>3. chains[c].pc \in Taking => chains[c].pc \in Screening
      BY DEF Screening
    <3>4. chains[c].pc \in Screening => o[chains[c].of] = owner[chains[c].of]
      BY <1>4, <1>5, <3>1, <3>2 DEF ChainKept
    <3> QED
      BY <3>1, <3>3, <3>4 DEF ChainKept
  <2> QED
    BY <2>1, <2>2, <2>3 DEF FInv
<1>7. Grows
  BY OnfidoStays DEF IInv
<1>8. GoesOn
  BY <1>1, ChainsStay
<1>9. RowIsBacked(row)' /\ RowIsBacked(other)'
  BY DEF RowIsBacked, Backed
<1>10. RowKept(x, o)' /\ RowKept(y, o)'
  <2>1. RowIsBacked(rows[x])' /\ RowIsBacked(rows[y])'
    BY <1>3, <1>9 DEF RowIsBacked
  <2> QED
    BY <1>1, <1>2, <1>3, <1>4, <2>1 DEF RowKept, Exists
<1>11. \A z \in Subjects : rows'[z] = rows[z] \/ RowKept(z, o)'
  BY <1>2, <1>3, <1>10
<1>12. FInv(o)'
  BY <1>6, <1>7, <1>8, <1>11, ChangesAreKept
<1>13. ASSUME NEW s \in Submissions, IsUndecided(s)
       PROVE  IsUndecided(s)'
  <2>1. rows[Self(s)].status = "pending" /\ Self(s) \in Subjects /\ Self(s)[1] = s
    BY <1>13 DEF IsUndecided, Self, Subjects
  <2>2. Exists(Self(s))
    BY <2>1 DEF Exists, NoRow
  <2>3. s <= created /\ s \in Nat
    BY <2>1, <2>2, Numbers DEF FInv, RowKept
  <2>4. rows'[Self(s)] = rows[Self(s)]
    BY <1>3, <1>5, <2>1, <2>3
  <2> QED
    BY <1>13, <2>1, <2>4, UndecidedStays
<1>14. ASSUME row.status = "pending" PROVE IsUndecided(new)'
  <2>1. rows'[Self(new)].status = "pending"
    BY <1>2, <1>3, <1>14
  <2>2. \A a \in Office : office[a].sub # new
    <3>1. \A a \in Office : office[a].sub <= created /\ office[a].sub \in Nat
      BY Numbers DEF FInv, EditKept, IInv, TypeOK
    <3> QED
      BY <1>5, <3>1
  <2>3. \A c \in Chains : chains[c].of # Self(new)
    <3>1. \A c \in Chains : chains[c].of[1] <= created /\ chains[c].of[1] \in Nat
      BY Numbers DEF FInv, ChainKept, IInv, TypeOK
    <3>2. Self(new)[1] = new
      BY <1>2
    <3> QED
      BY <1>5, <3>1, <3>2
  <2> QED
    BY <2>1, <2>2, <2>3 DEF IsUndecided
<1> QED
  BY <1>12, <1>13, <1>14

LEMMA BareRows ==
  ASSUME NEW s \in Submissions, NEW type \in AccountTypes, NEW status \in {"draft", "pending"}, TypeOK
  PROVE  /\ NewRow(s, type, status) \in Row /\ NewBeneficiary(s, type) \in Row
         /\ NewRow(s, type, status).status = status
         /\ RowIsBacked(NewRow(s, type, status)) /\ RowIsBacked(NewBeneficiary(s, type))
<1>1. type \in {"individual", "business"}
  BY AccountTypesAre
<1>2. \A any : NewRow(s, type, any).applicant = None
  BY DEF NewRow, NoRow
<1>3. NoRow.applicant = None
  BY DEF NoRow
<1>4. NewBeneficiary(s, type).applicant = None
  BY <1>2, <1>3 DEF NewBeneficiary
<1> QED
  BY <1>1, <1>2, <1>4, NewRows DEF RowIsBacked

LEMMA CreateSubmissionKeeps ==
  ASSUME IInv, IInv', WInv, NEW owner \in OwnersAre, FInv(owner),
         NEW s \in Web, CreateSubmission(s)
  PROVE  SInv'
<1>1. PICK new \in Submissions, type \in AccountTypes :
        /\ Insert(new, NewRow(new, type, "pending"), NewBeneficiary(new, type))
        /\ web' = [web EXCEPT ![s] = [@ EXCEPT !.pc = "save_profile", !.sub = new]]
        /\ UNCHANGED <<profile, applicants, checks, office, chains, approved, requests>>
  BY Zenon DEF CreateSubmission
<1>2. web[s] \in Session /\ web \in [Web -> Session] /\ new \in Nat
  BY Numbers DEF IInv, TypeOK
<1>3. web'[s].sub = new /\ \A t \in Web \ {s} : web'[t] = web[t]
  BY <1>1, <1>2 DEF Session
<1>4. created' = new
  BY <1>1 DEF Insert
<1>5. TypeOK
  BY DEF IInv
<1>6. /\ NewRow(new, type, "pending") \in Row /\ NewBeneficiary(new, type) \in Row
      /\ NewRow(new, type, "pending").status = "pending"
      /\ RowIsBacked(NewRow(new, type, "pending")) /\ RowIsBacked(NewBeneficiary(new, type))
  BY <1>5, BareRows
<1>7. \A t \in Web : web'[t] = web[t] \/ web'[t].sub <= created'
  BY <1>2, <1>3, <1>4
<1>8. (\E o \in OwnersAre : FInv(o)') /\ IsUndecided(new)'
  BY <1>1, <1>6, <1>7, InsertKeeps
<1>9. IsAwaited'
  BY <1>8 DEF IsAwaited
<1>10. WInv'
  BY <1>1, <1>9 DEF WInv
<1> QED
  BY <1>8, <1>10 DEF SInv

LEMMA OfficeInsertsKept ==
  ASSUME IInv, IInv', WInv, NEW owner \in OwnersAre, FInv(owner), NEW a \in Office,
         AddDraft(a) \/ CloneSubmission(a)
  PROVE  SInv'
<1>1. TypeOK
  BY DEF IInv
<1>2. PICK new \in Submissions, row \in Row, other \in Row :
        /\ RowIsBacked(row) /\ RowIsBacked(other) /\ Insert(new, row, other)
        /\ UNCHANGED <<profile, applicants, checks, web, office, chains, approved>>
  <2>1. CASE AddDraft(a)
    <3>1. PICK new \in Submissions, type \in AccountTypes :
            /\ Insert(new, NewRow(new, type, "draft"), NewBeneficiary(new, type))
            /\ UNCHANGED <<profile, applicants, checks, web, office, chains, approved>>
      BY <2>1, Zenon DEF AddDraft
    <3> QED
      BY <1>1, <3>1, BareRows
  <2>2. CASE CloneSubmission(a)
    <3>1. PICK s \in Submissions, new \in Submissions :
            /\ Insert(new, [rows[Self(s)] EXCEPT !.status = "draft"], rows[Beneficiary(s)])
            /\ UNCHANGED <<profile, applicants, checks, web, office, chains, approved>>
      BY <2>2, Zenon DEF CloneSubmission
    <3> DEFINE row == [rows[Self(s)] EXCEPT !.status = "draft"]
    <3>2. Self(s) \in Subjects /\ Beneficiary(s) \in Subjects
      BY Constants
    <3>3. /\ rows[Self(s)] \in Row /\ RowIsBacked(rows[Self(s)])
          /\ rows[Beneficiary(s)] \in Row /\ RowIsBacked(rows[Beneficiary(s)])
      BY <1>1, <3>2 DEF TypeOK, FInv, RowKept
    <3>4. row \in Row /\ row.applicant = rows[Self(s)].applicant
      BY <3>3 DEF Row, Statuses
    <3> HIDE DEF row
    <3>5. RowIsBacked(row)
      BY <3>3, <3>4 DEF RowIsBacked
    <3> QED
      BY <3>1, <3>3, <3>4, <3>5 DEF row
  <2> QED
    BY <2>1, <2>2
<1>3. /\ \E o \in OwnersAre : FInv(o)'
      /\ \A s \in Submissions : IsUndecided(s) => IsUndecided(s)'
  BY <1>2, InsertKeeps
<1>4. WInv'
  BY <1>2, <1>3, WaitingStays DEF IsOpen
<1> QED
  BY <1>3, <1>4 DEF SInv

LEMMA DeleteDraftKeeps ==
  ASSUME IInv, IInv', WInv, NEW owner \in OwnersAre, FInv(owner), NEW a \in Office, DeleteDraft(a)
  PROVE  SInv'
<1>1. PICK s \in Submissions :
        /\ rows[Self(s)].status = "draft"
        /\ rows' = [rows EXCEPT ![Self(s)] = NoRow, ![Beneficiary(s)] = NoRow]
        /\ profile' = IF profile.last = s THEN [profile EXCEPT !.last = None] ELSE profile
        /\ UNCHANGED <<applicants, checks, web, office, chains, approved, created>>
  BY DEF DeleteDraft
<1>2. /\ \A x \in Subjects : rows'[x] = rows[x] \/ rows'[x] = NoRow
      /\ \A x \in Subjects : x[1] # s => rows'[x] = rows[x]
  <2>1. /\ Self(s) \in Subjects /\ Self(s)[1] = s
        /\ Beneficiary(s) \in Subjects /\ Beneficiary(s)[1] = s
    BY DEF Self, Beneficiary, Subjects
  <2>2. rows \in [Subjects -> Row]
    BY DEF IInv, TypeOK
  <2> QED
    BY <1>1, <2>1, <2>2
<1>3. Grows /\ created \in Nat
  BY <1>1, OnfidoStays, Ranges DEF IInv
<1>4. GoesOn
  BY <1>1, <1>3, ChainsStay
<1>5. NoRow.applicant = None
  BY DEF NoRow
<1>6. ASSUME NEW x \in Subjects PROVE rows'[x] = rows[x] \/ RowKept(x, owner)'
  BY <1>2, <1>5 DEF RowKept, Exists, RowIsBacked
<1>7. FInv(owner)'
  BY <1>1, <1>3, <1>4, <1>6, ChangesAreKept
<1>8. ASSUME NEW t \in Submissions, IsUndecided(t) PROVE IsUndecided(t)'
  <2>1. rows[Self(t)].status = "pending" /\ Self(t) \in Subjects /\ Self(t)[1] = t
    BY <1>8 DEF IsUndecided, Self, Subjects
  <2>2. t # s
    BY <1>1, <2>1
  <2>3. rows'[Self(t)] = rows[Self(t)]
    BY <1>2, <2>1, <2>2
  <2> QED
    BY <1>1, <1>8, <2>1, <2>3, UndecidedStays
<1>9. IsOpen(profile)' => IsOpen(profile)
  BY <1>1 DEF IsOpen, IInv, TypeOK, Profile
<1>10. WInv'
  BY <1>1, <1>8, <1>9, WaitingStays
<1> QED
  BY <1>7, <1>10 DEF SInv

(* A step that queues chains.                                              *)
LEMMA QueueKeeps ==
  ASSUME IInv, IInv', NEW owner \in OwnersAre, FInv(owner),
         \A d \in Chains : \/ chains'[d] = chains[d]
                           \/ /\ chains[d].pc \in Early
                              /\ chains'[d].pc \in {"create", "routine"}
                              /\ chains'[d].of[1] <= created,
         \A s \in Web : web'[s] = web[s] \/ web'[s].sub <= created',
         UNCHANGED <<rows, applicants, checks, office, approved, created>>
  PROVE  /\ FInv(owner)'
         /\ \A s \in Submissions : IsUndecided(s) => IsUndecided(s)'
<1>1. Grows /\ created \in Nat
  BY OnfidoStays, Ranges DEF IInv
<1>2. "failed" \notin Early /\ "upload" \notin Early
  BY DEF Early
<1>3. \A i \in DOMAIN applicants : Backed(i) => Backed(i)'
  <2> SUFFICES ASSUME NEW i \in DOMAIN applicants, Backed(i), ~applicants[i].document
               PROVE  Backed(i)'
    BY DEF Backed
  <2>1. PICK c \in Chains : /\ chains[c].person = applicants[i].of
                            /\ \/ chains[c].pc = "failed"
                               \/ chains[c].pc = "upload" /\ chains[c].applicant = i
    BY DEF Backed
  <2>2. chains'[c] = chains[c]
    BY <1>2, <2>1
  <2> QED
    BY <2>1, <2>2 DEF Backed
<1>4. GoesOn
  BY <1>1, <1>3 DEF GoesOn
<1>5. ASSUME NEW d \in Chains PROVE chains'[d] = chains[d] \/ ChainKept(chains[d], owner)'
  BY DEF ChainKept, Screening, Taking
<1>6. FInv(owner)'
  BY <1>1, <1>4, <1>5, ChangesAreKept
<1>7. ASSUME NEW s \in Submissions, IsUndecided(s) PROVE IsUndecided(s)'
  <2>1. rows'[Self(s)].status = "pending"
    BY <1>7 DEF IsUndecided
  <2>2. \A c \in Chains : chains'[c] = chains[c] \/ chains'[c].pc \notin Taking
    BY DEF Taking
  <2> QED
    BY <1>7, <2>1, <2>2, UndecidedStays
<1> QED
  BY <1>6, <1>7

LEMMA QueuedAre ==
  ASSUME TypeOK, NEW d \in FreeChains, NEW x \in Subjects, NEW pc \in {"create", "routine"}
  PROVE  /\ d \in Chains /\ chains[d].pc \in Early
         /\ \A c \in Chains \ {d} : Queued(d, x, pc)[c] = chains[c]
         /\ Queued(d, x, pc)[d].pc = pc /\ Queued(d, x, pc)[d].of = x
<1>1. d \in Chains /\ chains[d].pc \in Early
  BY DEF FreeChains, Early
<1> DEFINE next == [Free EXCEPT !.pc = pc, !.of = x]
<1>2. next.pc = pc /\ next.of = x
  BY DEF Free
<1>3. Queued(d, x, pc) = [chains EXCEPT ![d] = next]
  BY DEF Queued
<1> HIDE DEF next
<1> QED
  BY <1>1, <1>2, <1>3 DEF TypeOK

LEMMA EnqueueKeeps ==
  ASSUME IInv, IInv', WInv, NEW owner \in OwnersAre, FInv(owner), NEW s \in Web,
         EnqueueScreening(s) \/ EnqueueBeneficiary(s)
  PROVE  SInv'
<1>1. /\ web \in [Web -> Session] /\ web[s] \in Session /\ created \in Nat
      /\ SessionIsGood(web[s])
  BY Ranges DEF IInv, TypeOK
<1>2. PICK d \in FreeChains, x \in Subjects :
        /\ x[1] = web[s].sub
        /\ chains' = Queued(d, x, "create")
        /\ \/ web' = [web EXCEPT ![s] = [web[s] EXCEPT !.pc = "enqueue_beneficiary"]]
           \/ web' = [web EXCEPT ![s] = Idle]
        /\ UNCHANGED <<rows, profile, applicants, checks, office, approved, created>>
  <2>1. web[s].pc \in {"enqueue", "enqueue_beneficiary"}
    BY DEF EnqueueScreening, EnqueueBeneficiary
  <2>2. web[s].sub \in Submissions
    BY <1>1, <2>1 DEF SessionIsGood
  <2>3. /\ Self(web[s].sub) \in Subjects /\ Self(web[s].sub)[1] = web[s].sub
        /\ Beneficiary(web[s].sub) \in Subjects /\ Beneficiary(web[s].sub)[1] = web[s].sub
    BY <2>2 DEF Self, Beneficiary, Subjects
  <2>4. CASE EnqueueScreening(s)
    BY <2>3, <2>4 DEF EnqueueScreening
  <2>5. CASE EnqueueBeneficiary(s)
    BY <2>3, <2>5 DEF EnqueueBeneficiary
  <2> QED
    BY <2>4, <2>5
<1>3. /\ \A t \in Web \ {s} : web'[t] = web[t]
      /\ web'[s].pc \in {"enqueue_beneficiary", "idle"}
      /\ web'[s].sub = web[s].sub \/ web'[s].sub = None
  BY <1>1, <1>2 DEF Idle, Session
<1>4. web[s].sub <= created
  BY DEF FInv
<1>5. \A t \in Web : web'[t] = web[t] \/ web'[t].sub <= created'
  BY <1>1, <1>2, <1>3, <1>4 DEF None
<1>6. \A c \in Chains : \/ chains'[c] = chains[c]
                        \/ /\ chains[c].pc \in Early
                           /\ chains'[c].pc \in {"create", "routine"}
                           /\ chains'[c].of[1] <= created
  BY <1>2, <1>4, QueuedAre DEF IInv
<1>7. FInv(owner)' /\ \A t \in Submissions : IsUndecided(t) => IsUndecided(t)'
  BY <1>2, <1>5, <1>6, QueueKeeps
<1>8. IsAwaited => IsAwaited'
  BY <1>2, <1>7 DEF IsAwaited
<1>9. \A t \in Web : Submits(web[t])' => Submits(web[t])
  BY <1>3 DEF Submits, IsOpen
<1>10. WInv'
  BY <1>2, <1>8, <1>9 DEF WInv, IsOpen
<1> QED
  BY <1>7, <1>10 DEF SInv

LEMMA ForceScreeningKeeps ==
  ASSUME IInv, IInv', WInv, NEW owner \in OwnersAre, FInv(owner), NEW a \in Office,
         ForceScreening(a)
  PROVE  SInv'
<1>1. PICK s \in Submissions, d \in FreeChains :
        /\ Exists(Self(s))
        /\ chains' = Queued(d, Self(s), "routine")
        /\ UNCHANGED <<rows, profile, applicants, checks, web, office, approved, created>>
  BY Zenon DEF ForceScreening
<1>2. Self(s) \in Subjects /\ Self(s)[1] = s
  BY DEF Self, Subjects
<1>3. s <= created
  BY <1>1, <1>2 DEF FInv, RowKept
<1>4. \A c \in Chains : \/ chains'[c] = chains[c]
                        \/ /\ chains[c].pc \in Early
                           /\ chains'[c].pc \in {"create", "routine"}
                           /\ chains'[c].of[1] <= created
  BY <1>1, <1>2, <1>3, QueuedAre DEF IInv
<1>5. FInv(owner)' /\ \A t \in Submissions : IsUndecided(t) => IsUndecided(t)'
  BY <1>1, <1>4, QueueKeeps
<1>6. WInv'
  BY <1>1, <1>5, WaitingStays DEF IsOpen
<1> QED
  BY <1>5, <1>6 DEF SInv

-----------------------------------------------------------------------------
(* What waits and whom a screening is about, after a task.                 *)

LEMMA GoToIs ==
  ASSUME IInv, NEW c \in Chains, NEW pc \in ChainPCs, GoTo(c, pc)
  PROVE  \E next \in Chain :
           /\ chains' = [chains EXCEPT ![c] = next]
           /\ next.pc = pc /\ next.of = chains[c].of /\ next.person = chains[c].person
           /\ next.row = chains[c].row /\ next.applicant = chains[c].applicant
<1>1. chains[c] \in Chain /\ 0 \in 0..MaxRetries
  BY BoundsAreNat DEF IInv, TypeOK
<1> DEFINE next == [chains[c] EXCEPT !.pc = pc, !.tries = 0]
<1>2. /\ next \in Chain /\ next.pc = pc /\ next.of = chains[c].of
      /\ next.person = chains[c].person
      /\ next.row = chains[c].row /\ next.applicant = chains[c].applicant
  BY <1>1 DEF Chain
<1>3. chains' = [chains EXCEPT ![c] = next]
  BY DEF GoTo
<1> HIDE DEF next
<1> QED
  BY <1>2, <1>3

LEMMA EndIs ==
  ASSUME IInv, NEW c \in Chains, NEW pc \in {"done", "failed"}, End(c, pc)
  PROVE  \E next \in Chain :
           /\ chains' = [chains EXCEPT ![c] = next]
           /\ next.pc = pc /\ next.of = chains[c].of /\ next.person = chains[c].person
<1>1. /\ chains[c] \in Chain /\ 0 \in 0..MaxRetries /\ NoRow \in Row
      /\ pc \in ChainPCs /\ None \in Nat
  BY BoundsAreNat, Constants DEF IInv, TypeOK, ChainPCs, None
<1> DEFINE next == [chains[c] EXCEPT !.pc = pc, !.row = NoRow, !.applicant = None, !.tries = 0]
<1>2. /\ next \in Chain /\ next.pc = pc /\ next.of = chains[c].of
      /\ next.person = chains[c].person
  BY <1>1 DEF Chain
<1>3. chains' = [chains EXCEPT ![c] = next]
  BY DEF End
<1> HIDE DEF next
<1> QED
  BY <1>2, <1>3

LEMMA RetryIs ==
  ASSUME IInv, NEW c \in Chains, Retry(c)
  PROVE  \E next \in Chain :
           /\ chains' = [chains EXCEPT ![c] = next]
           /\ next.of = chains[c].of /\ next.person = chains[c].person
           /\ \/ next.pc = "failed"
              \/ /\ next.pc = chains[c].pc
                 /\ next.row = chains[c].row /\ next.applicant = chains[c].applicant
<1>1. chains[c] \in Chain
  BY DEF IInv, TypeOK
<1>2. CASE chains[c].tries < MaxRetries
  <2> DEFINE next == [chains[c] EXCEPT !.tries = chains[c].tries + 1]
  <2>1. /\ next \in Chain /\ next.pc = chains[c].pc /\ next.of = chains[c].of
        /\ next.person = chains[c].person
        /\ next.row = chains[c].row /\ next.applicant = chains[c].applicant
    BY <1>1, <1>2, BoundsAreNat DEF Chain
  <2>2. chains' = [chains EXCEPT ![c] = next]
    BY <1>2 DEF Retry
  <2> HIDE DEF next
  <2> QED
    BY <2>1, <2>2
<1>3. CASE ~(chains[c].tries < MaxRetries)
  <2>1. End(c, "failed")
    BY <1>3 DEF Retry
  <2> QED
    BY <2>1, EndIs
<1> QED
  BY <1>2, <1>3

LEMMA TaskGoesOn ==
  ASSUME IInv, NEW c \in Chains, NEW next \in Chain, chains' = [chains EXCEPT ![c] = next],
         created' = created, Grows, chains[c].pc # "failed",
         \A i \in DOMAIN applicants : applicants[i].document => applicants'[i].document,
         chains[c].pc \notin Early => next.pc \notin Early /\ next.person = chains[c].person,
         chains[c].pc = "upload" /\ chains[c].applicant \in DOMAIN applicants =>
           \/ next.pc = "failed"
           \/ next.pc = "upload" /\ next.applicant = chains[c].applicant
           \/ applicants'[chains[c].applicant].document
  PROVE  GoesOn
<1>1. chains'[c] = next /\ \A d \in Chains \ {c} : chains'[d] = chains[d]
  BY DEF IInv, TypeOK
<1>2. created \in Nat
  BY Ranges DEF IInv
<1>3. ASSUME NEW i \in DOMAIN applicants, Backed(i)
      PROVE  Backed(i)'
  <2>1. CASE applicants[i].document
    BY <2>1 DEF Backed
  <2>2. CASE ~applicants[i].document
    <3>1. PICK d \in Chains : /\ chains[d].person = applicants[i].of
                              /\ \/ chains[d].pc = "failed"
                                 \/ chains[d].pc = "upload" /\ chains[d].applicant = i
      BY <1>3, <2>2 DEF Backed
    <3>2. applicants'[i].of = applicants[i].of
      BY DEF Grows
    <3>3. CASE d # c
      BY <1>1, <3>1, <3>2, <3>3 DEF Backed
    <3>4. CASE d = c
      <4>1. chains[c].pc = "upload" /\ chains[c].applicant = i /\ next.person = applicants'[i].of
        BY <3>1, <3>2, <3>4 DEF Early
      <4>2. \/ next.pc = "failed"
            \/ next.pc = "upload" /\ next.applicant = i
            \/ applicants'[i].document
        BY <4>1
      <4> QED
        BY <1>1, <4>1, <4>2 DEF Backed
    <3> QED
      BY <3>3, <3>4
  <2> QED
    BY <2>1, <2>2
<1>4. \A d \in Chains : chains[d].pc \notin Early =>
        chains'[d].pc \notin Early /\ chains'[d].person = chains[d].person
  BY <1>1
<1> QED
  BY <1>2, <1>3, <1>4 DEF GoesOn

LEMMA TaskKeeps ==
  ASSUME IInv, IInv', WInv, NEW owner \in OwnersAre, FInv(owner), Grows, GoesOn,
         NEW c \in Chains, chains[c].pc # "free", NEW next \in Chain,
         chains' = [chains EXCEPT ![c] = next], next.of = chains[c].of,
         next.pc \in Screening => next.person = <<owner[next.of], next.of[2]>>,
         next.pc \in Taking =>
           /\ next.row.of = owner[next.of] /\ RowIsBacked(next.row)'
           /\ \/ next.row.status = RowOf(c).status
              \/ chains[c].pc \in Taking /\ next.row.status = chains[c].row.status,
         \/ UNCHANGED rows
         \/ \E row \in Row :
              /\ rows' = [rows EXCEPT ![chains[c].of] = row] /\ chains[c].pc \in Taking
              /\ row.of = chains[c].row.of /\ row.status = chains[c].row.status
              /\ RowIsBacked(row)',
         \A k \in DOMAIN checks' : k \in DOMAIN checks \/ HasDocument(k)',
         UNCHANGED <<profile, web, office, created>>
  PROVE  SInv'
<1>1. chains'[c] = next /\ \A d \in Chains \ {c} : chains'[d] = chains[d]
  BY DEF IInv, TypeOK
<1>2. ChainKept(chains[c], owner)
  BY DEF FInv
<1>3. ChainKept(chains[c], owner)'
  BY <1>1, <1>2 DEF ChainKept, RowIsBacked
<1>4. PICK x \in Subjects : x = chains[c].of
  BY DEF IInv, ChainIsGood
<1>5. x[1] <= created /\ (chains[c].pc \in Taking => chains[c].row.of = owner[x])
  BY <1>2, <1>4 DEF ChainKept
<1>6. ASSUME NEW y \in Subjects PROVE rows'[y] = rows[y] \/ RowKept(y, owner)'
  <2>1. CASE UNCHANGED rows
    BY <2>1
  <2>2. CASE ~UNCHANGED rows
    <3>1. PICK row \in Row :
            /\ rows' = [rows EXCEPT ![x] = row] /\ chains[c].pc \in Taking
            /\ row.of = chains[c].row.of /\ row.status = chains[c].row.status
            /\ RowIsBacked(row)'
      BY <1>4, <2>2
    <3>2. rows'[x] = row /\ (y # x => rows'[y] = rows[y])
      BY <3>1 DEF IInv, TypeOK
    <3>3. RowIsBacked(rows[x])'
      BY <3>1, <3>2 DEF RowIsBacked
    <3>4. RowKept(x, owner)'
      BY <1>5, <3>1, <3>2, <3>3 DEF RowKept, Exists
    <3> QED
      BY <3>2, <3>4
  <2> QED
    BY <2>1, <2>2
<1>7. FInv(owner)'
  BY <1>1, <1>3, <1>6, ChangesAreKept
<1>8. ASSUME NEW s \in Submissions, IsUndecided(s) PROVE IsUndecided(s)'
  <2>1. rows[Self(s)].status = "pending" /\ Self(s) \in Subjects
    BY <1>8, Constants DEF IsUndecided
  <2>2. x = Self(s) /\ chains[c].pc \in Taking => chains[c].row.status = "pending"
    BY <1>4, <1>8 DEF IsUndecided
  <2>3. rows'[Self(s)].status = "pending"
    <3>1. CASE UNCHANGED rows
      BY <2>1, <3>1
    <3>2. CASE ~UNCHANGED rows
      <4>1. PICK row \in Row :
              /\ rows' = [rows EXCEPT ![x] = row] /\ chains[c].pc \in Taking
              /\ row.status = chains[c].row.status
        BY <1>4, <3>2
      <4>2. rows'[Self(s)] = rows[Self(s)] \/ (Self(s) = x /\ rows'[Self(s)] = row)
        BY <2>1, <4>1 DEF IInv, TypeOK
      <4> QED
        BY <2>1, <2>2, <4>1, <4>2
    <3> QED
      BY <3>1, <3>2
  <2>4. next.of = Self(s) /\ next.pc \in Taking => next.row.status = "pending"
    BY <1>4, <2>1, <2>2 DEF RowOf
  <2>5. \A d \in Chains : \/ chains'[d] = chains[d]
                          \/ chains'[d].pc \notin Taking
                          \/ chains'[d].of # Self(s)
                          \/ chains'[d].row.status = "pending"
    BY <1>1, <2>4
  <2> QED
    BY <1>8, <2>3, <2>5, UndecidedStays
<1>9. WInv'
  BY <1>8, WaitingStays DEF IsOpen
<1> QED
  BY <1>7, <1>9 DEF SInv

(* A task that changes no row, and takes none.                             *)
LEMMA MovesKeep ==
  ASSUME IInv, IInv', WInv, NEW owner \in OwnersAre, FInv(owner), Grows, GoesOn,
         NEW c \in Chains, chains[c].pc # "free", NEW next \in Chain,
         chains' = [chains EXCEPT ![c] = next],
         next.of = chains[c].of, next.person = chains[c].person,
         next.pc \in Screening => chains[c].pc \in Screening, next.pc \notin Taking,
         \A k \in DOMAIN checks' : k \in DOMAIN checks \/ HasDocument(k)',
         UNCHANGED <<rows, profile, web, office, created>>
  PROVE  SInv'
<1>1. next.pc \in Screening => next.person = <<owner[next.of], next.of[2]>>
  BY DEF FInv, ChainKept
<1> QED
  BY <1>1, TaskKeeps

LEMMA ScreeningPCs ==
  /\ Taking \subseteq Screening /\ Screening \subseteq ChainPCs
  /\ "failed" \notin Early \union Screening /\ "done" \notin Early \union Screening
  /\ \A pc \in Screening : pc \notin Early
BY DEF Taking, Screening, Early, ChainPCs

(* A task that does nothing to Onfido, and moves, ends or is tried again.  *)
LEMMA QuietTaskKeeps ==
  ASSUME IInv, IInv', WInv, NEW owner \in OwnersAre, FInv(owner), NEW c \in Chains,
         chains[c].pc \notin {"free", "failed", "upload"},
         \/ GoTo(c, "create") /\ chains[c].pc = "routine"
         \/ GoTo(c, "fetch") /\ chains[c].pc = "start"
         \/ Retry(c) /\ chains[c].pc \notin Taking
         \/ End(c, "done") \/ End(c, "failed"),
         UNCHANGED <<rows, profile, applicants, checks, web, office, approved, created>>
  PROVE  SInv'
<1>1. PICK next \in Chain :
        /\ chains' = [chains EXCEPT ![c] = next]
        /\ next.of = chains[c].of /\ next.person = chains[c].person
        /\ \/ next.pc = "create" /\ chains[c].pc = "routine"
           \/ next.pc = "fetch" /\ chains[c].pc = "start"
           \/ next.pc = chains[c].pc /\ chains[c].pc \notin Taking
           \/ next.pc \in {"done", "failed"}
  <2>1. "create" \in ChainPCs /\ "fetch" \in ChainPCs
    BY DEF ChainPCs
  <2> QED
    BY <2>1, GoToIs, EndIs, RetryIs
<1>2. /\ next.pc \in Screening => chains[c].pc \in Screening
      /\ next.pc \notin Taking
      /\ chains[c].pc \notin Early => next.pc \notin Early
  BY <1>1 DEF Screening, Taking, Early
<1>3. Grows
  BY OnfidoStays DEF IInv
<1>4. GoesOn
  BY <1>1, <1>2, <1>3, TaskGoesOn
<1> QED
  BY <1>1, <1>2, <1>3, <1>4, MovesKeep

LEMMA RowIsGoneKeeps ==
  ASSUME IInv, IInv', WInv, NEW owner \in OwnersAre, FInv(owner), NEW c \in Chains, RowIsGone(c)
  PROVE  SInv'
<1>1. /\ End(c, "failed") /\ chains[c].pc \notin {"free", "failed", "upload"}
      /\ UNCHANGED <<rows, profile, applicants, checks, web, office, approved, created>>
  BY DEF RowIsGone
<1> QED
  BY <1>1, QuietTaskKeeps

LEMMA RunRoutineKeeps ==
  ASSUME IInv, IInv', WInv, NEW owner \in OwnersAre, FInv(owner), NEW c \in Chains, RunRoutine(c)
  PROVE  SInv'
<1>1. /\ chains[c].pc = "routine"
      /\ UNCHANGED <<rows, profile, applicants, checks, web, office, approved, created>>
  BY DEF RunRoutine
<1>2. CASE GoTo(c, "create")
  BY <1>1, <1>2, QuietTaskKeeps
<1>3. CASE \E d \in FreeChains :
             chains' = [Queued(d, Beneficiary(chains[c].of[1]), "create")
                          EXCEPT ![c].pc = "create"]
  <2>1. PICK d \in FreeChains :
          chains' = [Queued(d, Beneficiary(chains[c].of[1]), "create") EXCEPT ![c].pc = "create"]
    BY <1>3
  <2>2. PICK x \in Subjects : x = Beneficiary(chains[c].of[1]) /\ x[1] = chains[c].of[1]
    <3>1. chains[c].of \in Subjects
      BY <1>1 DEF IInv, ChainIsGood
    <3>2. chains[c].of[1] \in Submissions
      BY <3>1 DEF Subjects
    <3> QED
      BY <3>2, Constants DEF Beneficiary
  <2>3. PICK queued : queued = Queued(d, x, "create")
    OBVIOUS
  <2>4. /\ d \in Chains /\ chains[d].pc \in Early /\ d # c
        /\ \A e \in Chains \ {d} : queued[e] = chains[e]
        /\ queued[d].pc = "create" /\ queued[d].of = x
    BY <1>1, <2>3, QueuedAre DEF IInv, FreeChains
  <2>5. queued \in [Chains -> Chain]
    BY <2>3, <2>4, QueuedChains, <1>1
  <2>6. chains' = [queued EXCEPT ![c].pc = "create"]
    BY <2>1, <2>2, <2>3
  <2>7. /\ chains'[c].pc = "create" /\ chains'[c].of = chains[c].of
        /\ \A e \in Chains \ {c} : chains'[e] = queued[e]
    BY <2>4, <2>5, <2>6 DEF Chain
  <2>8. chains[c].of[1] <= created /\ chains[c].pc \in Early
    BY <1>1 DEF FInv, ChainKept, Early
  <2>9. \A e \in Chains : \/ chains'[e] = chains[e]
                          \/ /\ chains[e].pc \in Early
                             /\ chains'[e].pc \in {"create", "routine"}
                             /\ chains'[e].of[1] <= created
    BY <2>2, <2>4, <2>7, <2>8
  <2>10. FInv(owner)' /\ \A t \in Submissions : IsUndecided(t) => IsUndecided(t)'
    BY <1>1, <2>9, QueueKeeps
  <2>11. WInv'
    BY <1>1, <2>10, WaitingStays DEF IsOpen
  <2> QED
    BY <2>10, <2>11 DEF SInv
<1> QED
  BY <1>2, <1>3 DEF RunRoutine

(* A chain that reads the row it is about.                                 *)
LEMMA RowAtHand ==
  ASSUME IInv, NEW owner \in OwnersAre, FInv(owner), NEW c \in Chains, chains[c].pc # "free"
  PROVE  /\ chains[c] \in Chain /\ chains[c].of \in Subjects
         /\ RowOf(c) \in Row /\ Owns(RowOf(c), chains[c].of[2]) /\ RowIsBacked(RowOf(c))
         /\ Exists(chains[c].of) => /\ RowOf(c).of = owner[chains[c].of]
                                    /\ Of(chains[c].of) = <<owner[chains[c].of], chains[c].of[2]>>
         /\ Of(chains[c].of) \in Persons
         /\ chains[c].pc \in Screening =>
              chains[c].person = <<owner[chains[c].of], chains[c].of[2]>>
         /\ chains[c].pc \in Taking =>
              /\ chains[c].row \in Row /\ Owns(chains[c].row, chains[c].of[2])
              /\ chains[c].row.of = owner[chains[c].of] /\ RowIsBacked(chains[c].row)
<1>1. /\ chains[c] \in Chain /\ chains[c].of \in Subjects
      /\ chains[c].row \in Row /\ Owns(chains[c].row, chains[c].of[2])
      /\ RowOf(c) \in Row /\ Owns(RowOf(c), chains[c].of[2])
  BY ChainInHand
<1>2. ChainKept(chains[c], owner) /\ RowKept(chains[c].of, owner)
  BY <1>1 DEF FInv
<1>3. RowIsBacked(RowOf(c))
  BY <1>2 DEF RowKept, RowOf
<1>4. Exists(chains[c].of) => /\ RowOf(c).of = owner[chains[c].of]
                              /\ Of(chains[c].of) = <<owner[chains[c].of], chains[c].of[2]>>
  BY <1>2 DEF RowKept, RowOf, Of
<1>5. Of(chains[c].of) \in Persons
  BY <1>1 DEF Of, RowOf, Persons, Subjects, Row
<1> QED
  BY <1>1, <1>2, <1>3, <1>4, <1>5 DEF ChainKept

LEMMA CreateApplicantKeeps ==
  ASSUME IInv, IInv', WInv, NEW owner \in OwnersAre, FInv(owner), NEW c \in Chains,
         CreateApplicant(c)
  PROVE  SInv'
<1>1. /\ chains[c].pc = "create" /\ Exists(chains[c].of)
      /\ UNCHANGED <<rows, profile, checks, web, office, approved, created>>
  BY DEF CreateApplicant
<1>2. /\ chains[c] \in Chain /\ chains[c].of \in Subjects
      /\ RowOf(c) \in Row /\ Owns(RowOf(c), chains[c].of[2]) /\ RowIsBacked(RowOf(c))
      /\ RowOf(c).of = owner[chains[c].of]
      /\ Of(chains[c].of) = <<owner[chains[c].of], chains[c].of[2]>>
      /\ Of(chains[c].of) \in Persons
  BY <1>1, RowAtHand
<1>3. chains[c].pc \in Early /\ chains[c].pc \notin Screening /\ chains[c].pc \notin Taking
  BY <1>1 DEF Early, Screening, Taking
(* A step that takes the row to save what Onfido answered.                 *)
<1>4. ASSUME Grows, NEW pc \in {"save_applicant", "save_unsupported"}, NEW applicant \in Nat,
             chains' = [chains EXCEPT ![c] = [@ EXCEPT !.pc = pc, !.row = RowOf(c),
                                       !.person = Of(chains[c].of), !.applicant = applicant]],
             \A i \in DOMAIN applicants : applicants'[i] = applicants[i]
      PROVE  SInv'
  <2> DEFINE next == [chains[c] EXCEPT !.pc = pc, !.row = RowOf(c),
                                       !.person = Of(chains[c].of), !.applicant = applicant]
  <2>1. pc \in ChainPCs /\ pc \notin Early
    BY DEF ChainPCs, Early
  <2>2. /\ next \in Chain /\ next.pc = pc /\ next.of = chains[c].of /\ next.row = RowOf(c)
        /\ next.person = Of(chains[c].of)
    BY <1>2, <2>1 DEF Chain
  <2>3. chains' = [chains EXCEPT ![c] = next]
    BY <1>4
  <2> HIDE DEF next
  <2>4. GoesOn
    BY <1>1, <1>3, <1>4, <2>1, <2>2, <2>3, TaskGoesOn
  <2>5. PICK row \in Row, kind \in {"applicant", "beneficiary"} :
          row = RowOf(c) /\ kind = chains[c].of[2]
    BY <1>2 DEF Subjects
  <2>6. RowIsBacked(row)'
    BY <1>2, <2>4, <2>5, BackedStays DEF IInv
  <2>7. PICK z \in Chain : z = next
    BY <2>2
  <2>8. RowIsBacked(z.row)'
    BY <2>2, <2>5, <2>6, <2>7 DEF RowIsBacked
  <2>9. /\ chains' = [chains EXCEPT ![c] = z] /\ z.of = chains[c].of /\ z.row = RowOf(c)
        /\ z.person = <<owner[z.of], z.of[2]>> /\ z.row.of = owner[z.of]
    BY <1>2, <2>2, <2>3, <2>7
  <2>10. /\ chains[c].pc # "free" /\ UNCHANGED <<rows, profile, checks, web, office, created>>
    BY <1>1
  <2>11. \A k \in DOMAIN checks' : k \in DOMAIN checks \/ HasDocument(k)'
    BY <1>1
  <2> QED
    BY <1>4, <2>4, <2>8, <2>9, <2>10, <2>11, TaskKeeps
<1>5. CASE /\ applicants' = Append(applicants, [of |-> Of(chains[c].of), document |-> FALSE])
           /\ \/ chains' = [chains EXCEPT ![c] =
                   [@ EXCEPT !.pc = "save_applicant", !.row = RowOf(c),
                             !.person = Of(chains[c].of), !.applicant = Len(applicants) + 1]]
              \/ Retry(c)
  <2> DEFINE new == [of |-> Of(chains[c].of), document |-> FALSE]
  <2>1. new \in Applicant
    BY <1>2 DEF Applicant
  <2> HIDE DEF new
  <2>2. applicants' = Append(applicants, new)
    BY <1>5 DEF new
  <2>3. Grows /\ \A i \in DOMAIN applicants : applicants'[i] = applicants[i]
    BY <1>1, <2>1, <2>2, ApplicantsGrow DEF IInv, TypeOK
  <2>4. Len(applicants) + 1 \in Nat
    BY Ranges DEF IInv
  <2>5. CASE Retry(c)
    <3>1. PICK next \in Chain :
            /\ chains' = [chains EXCEPT ![c] = next]
            /\ next.of = chains[c].of /\ next.person = chains[c].person
            /\ next.pc = "failed" \/ next.pc = chains[c].pc
      BY <2>5, RetryIs
    <3>2. next.pc \notin Screening /\ next.pc \notin Taking
      BY <1>3, <3>1, ScreeningPCs
    <3>3. GoesOn
      BY <1>1, <1>3, <2>3, <3>1, TaskGoesOn
    <3> QED
      BY <1>1, <2>3, <3>1, <3>2, <3>3, MovesKeep
  <2> QED
    BY <1>4, <1>5, <2>3, <2>4, <2>5
<1>6. CASE /\ chains' = [chains EXCEPT ![c] = [@ EXCEPT !.pc = "save_unsupported",
                                               !.row = RowOf(c), !.person = Of(chains[c].of)]]
           /\ UNCHANGED applicants
  <2>1. Grows
    BY <1>1, <1>6, OnfidoStays DEF IInv
  <2>2. PICK applicant \in Nat : applicant = chains[c].applicant
    BY <1>2 DEF Chain
  <2>3. chains' = [chains EXCEPT ![c] = [@ EXCEPT !.pc = "save_unsupported", !.row = RowOf(c),
                                   !.person = Of(chains[c].of), !.applicant = applicant]]
    <3> DEFINE one == [chains[c] EXCEPT !.pc = "save_unsupported", !.row = RowOf(c),
                                        !.person = Of(chains[c].of)]
               two == [chains[c] EXCEPT !.pc = "save_unsupported", !.row = RowOf(c),
                                        !.person = Of(chains[c].of), !.applicant = applicant]
    <3>1. one = two
      BY <1>2, <2>2 DEF Chain
    <3>2. chains' = [chains EXCEPT ![c] = one]
      BY <1>6
    <3> HIDE DEF one
    <3>3. chains' = [chains EXCEPT ![c] = two]
      BY <3>1, <3>2
    <3> QED
      BY <3>3
  <2> QED
    BY <1>4, <1>6, <2>1, <2>3
<1>7. CASE Retry(c) /\ UNCHANGED applicants
  BY <1>1, <1>3, <1>7, QuietTaskKeeps
<1> QED
  BY <1>5, <1>6, <1>7 DEF CreateApplicant

(* The tasks that save the row they have in hand.                          *)
LEMMA SavesKeep ==
  ASSUME IInv, IInv', WInv, NEW owner \in OwnersAre, FInv(owner), NEW c \in Chains,
         chains[c].pc \in Taking, NEW row \in Row, Save(chains[c].of, row),
         row.of = chains[c].row.of, row.status = chains[c].row.status,
         row.applicant = chains[c].row.applicant \/ Backed(row.applicant)',
         NEW next \in Chain, chains' = [chains EXCEPT ![c] = next],
         next.of = chains[c].of, next.person = chains[c].person, next.pc \notin Early,
         next.pc \in Taking => next.row = chains[c].row,
         UNCHANGED <<profile, applicants, checks, web, office, created>>
  PROVE  SInv'
<1>1. chains[c].pc \notin {"free", "failed", "upload"} /\ chains[c].pc \in Screening
  BY DEF Screening, Taking
<1>2. Grows
  BY OnfidoStays DEF IInv, Save
<1>3. GoesOn
  BY <1>1, <1>2, TaskGoesOn
<1>4. /\ chains[c].person = <<owner[chains[c].of], chains[c].of[2]>>
      /\ chains[c].row \in Row /\ Owns(chains[c].row, chains[c].of[2])
      /\ chains[c].row.of = owner[chains[c].of] /\ RowIsBacked(chains[c].row) /\ chains[c].of \in Subjects
  BY <1>1, RowAtHand
<1>5. PICK old \in Row, kind \in {"applicant", "beneficiary"} :
          old = chains[c].row /\ kind = chains[c].of[2]
  BY <1>4 DEF Subjects
<1>6. RowIsBacked(old)'
  BY <1>3, <1>4, <1>5, BackedStays DEF IInv
<1>7. RowIsBacked(row)'
  BY <1>5, <1>6 DEF RowIsBacked
<1>8. next.pc \in Taking => RowIsBacked(next.row)'
  BY <1>5, <1>6 DEF RowIsBacked
<1>9. rows' = [rows EXCEPT ![chains[c].of] = row]
  BY DEF Save
<1> QED
  BY <1>1, <1>2, <1>3, <1>4, <1>7, <1>8, <1>9, TaskKeeps

LEMMA LetGoIs ==
  ASSUME IInv, NEW c \in Chains, NEW pc \in {"upload", "fetch"},
         chains' = [chains EXCEPT ![c] = [@ EXCEPT !.pc = pc, !.row = NoRow, !.tries = 0]]
  PROVE  \E next \in Chain :
           /\ chains' = [chains EXCEPT ![c] = next]
           /\ next.pc = pc /\ next.of = chains[c].of /\ next.person = chains[c].person
           /\ next.applicant = chains[c].applicant
           /\ next.pc \notin Early /\ next.pc \notin Taking
<1>1. /\ chains[c] \in Chain /\ pc \in ChainPCs /\ NoRow \in Row /\ 0 \in 0..MaxRetries
      /\ pc \notin Early /\ pc \notin Taking
  BY Constants, BoundsAreNat DEF ChainPCs, IInv, TypeOK, Early, Taking
<1> DEFINE next == [chains[c] EXCEPT !.pc = pc, !.row = NoRow, !.tries = 0]
<1>2. /\ next \in Chain /\ next.pc = pc /\ next.of = chains[c].of
      /\ next.person = chains[c].person /\ next.applicant = chains[c].applicant
  BY <1>1 DEF Chain
<1>3. chains' = [chains EXCEPT ![c] = next]
  OBVIOUS
<1> HIDE DEF next
<1> QED
  BY <1>1, <1>2, <1>3

LEMMA SaveTasksKeep ==
  ASSUME IInv, IInv', WInv, NEW owner \in OwnersAre, FInv(owner), NEW c \in Chains,
         \/ SaveApplicant(c) \/ SaveUnsupported(c) \/ SaveCheck(c) \/ SaveResult(c)
  PROVE  SInv'
<1>1. chains[c].pc \in Taking
  BY DEF SaveApplicant, SaveUnsupported, SaveCheck, SaveResult, Taking
<1>2. chains[c].pc # "free" /\ chains[c].pc \in Screening
  BY <1>1 DEF Taking, Screening
<1>3. /\ chains[c] \in Chain /\ chains[c].row \in Row /\ chains[c].applicant \in Nat
      /\ chains[c].person = <<owner[chains[c].of], chains[c].of[2]>>
      /\ chains[c].row.of = owner[chains[c].of]
  BY <1>1, <1>2, RowAtHand DEF Chain
<1>4. CASE SaveApplicant(c)
  <2> DEFINE row == [chains[c].row EXCEPT !.applicant = chains[c].applicant]
  <2>1. /\ chains[c].pc = "save_applicant" /\ Save(chains[c].of, row)
        /\ chains' = [chains EXCEPT ![c] = [@ EXCEPT !.pc = "upload", !.row = NoRow, !.tries = 0]]
        /\ UNCHANGED <<profile, applicants, checks, web, office, created>>
    BY <1>4 DEF SaveApplicant
  <2>2. /\ row \in Row /\ row.of = chains[c].row.of /\ row.status = chains[c].row.status
        /\ row.applicant = chains[c].applicant
    BY <1>3 DEF Row
  <2> HIDE DEF row
  <2>3. PICK next \in Chain :
          /\ chains' = [chains EXCEPT ![c] = next]
          /\ next.pc = "upload" /\ next.of = chains[c].of /\ next.person = chains[c].person
          /\ next.applicant = chains[c].applicant
          /\ next.pc \notin Early /\ next.pc \notin Taking
    BY <2>1, LetGoIs
  <2>4. PICK r \in Row : r = row
    BY <2>2
  <2>5. chains'[c] = next
    BY <2>3 DEF IInv, TypeOK
  <2>6. applicants[chains[c].applicant].of = chains[c].person
    BY <1>3, <2>1 DEF IInv, ChainIsGood
  <2>7. Backed(r.applicant)'
    BY <2>1, <2>2, <2>3, <2>4, <2>5, <2>6 DEF Backed
  <2> QED
    BY <1>1, <2>1, <2>2, <2>3, <2>4, <2>7, SavesKeep
<1>5. CASE SaveUnsupported(c)
  <2> DEFINE row == [chains[c].row EXCEPT !.result = "unsupported"]
  <2>1. /\ Save(chains[c].of, row)
        /\ chains' = [chains EXCEPT ![c] = [@ EXCEPT !.pc = "upload", !.row = NoRow, !.tries = 0]]
        /\ UNCHANGED <<profile, applicants, checks, web, office, created>>
    BY <1>5 DEF SaveUnsupported
  <2>2. /\ row \in Row /\ row.of = chains[c].row.of /\ row.status = chains[c].row.status
        /\ row.applicant = chains[c].row.applicant
    BY <1>3 DEF Row, Results
  <2> HIDE DEF row
  <2>3. PICK next \in Chain :
          /\ chains' = [chains EXCEPT ![c] = next]
          /\ next.of = chains[c].of /\ next.person = chains[c].person
          /\ next.pc \notin Early /\ next.pc \notin Taking
    BY <2>1, LetGoIs
  <2> QED
    BY <1>1, <2>1, <2>2, <2>3, SavesKeep
<1>6. CASE SaveCheck(c)
  <2> DEFINE row == [chains[c].row EXCEPT !.check = chains[c].applicant]
  <2>1. /\ Save(chains[c].of, row)
        /\ chains' = [chains EXCEPT ![c] = [@ EXCEPT !.pc = "fetch", !.row = NoRow, !.tries = 0]]
        /\ UNCHANGED <<profile, applicants, checks, web, office, created>>
    BY <1>6 DEF SaveCheck
  <2>2. /\ row \in Row /\ row.of = chains[c].row.of /\ row.status = chains[c].row.status
        /\ row.applicant = chains[c].row.applicant
    BY <1>3 DEF Row
  <2> HIDE DEF row
  <2>3. PICK next \in Chain :
          /\ chains' = [chains EXCEPT ![c] = next]
          /\ next.of = chains[c].of /\ next.person = chains[c].person
          /\ next.pc \notin Early /\ next.pc \notin Taking
    BY <2>1, LetGoIs
  <2> QED
    BY <1>1, <2>1, <2>2, <2>3, SavesKeep
<1>7. CASE SaveResult(c)
  <2>1. /\ Save(chains[c].of, chains[c].row)
        /\ GoTo(c, "save_again") \/ End(c, "done")
        /\ UNCHANGED <<profile, applicants, checks, web, office, created>>
    BY <1>7 DEF SaveResult
  <2>2. "save_again" \in ChainPCs
    BY DEF ChainPCs
  <2>3. PICK next \in Chain :
          /\ chains' = [chains EXCEPT ![c] = next]
          /\ next.of = chains[c].of /\ next.person = chains[c].person
          /\ \/ next.pc = "done"
             \/ next.pc = "save_again" /\ next.row = chains[c].row
    <3>1. CASE GoTo(c, "save_again")
      BY <2>2, <3>1, GoToIs
    <3>2. CASE End(c, "done")
      BY <3>2, EndIs
    <3> QED
      BY <2>1, <3>1, <3>2
  <2>4. next.pc \notin Early /\ (next.pc \in Taking => next.row = chains[c].row)
    BY <2>3 DEF Early, Taking
  <2> QED
    BY <1>1, <1>3, <2>1, <2>3, <2>4, SavesKeep
<1> QED
  BY <1>4, <1>5, <1>6, <1>7

LEMMA UploadDocumentKeeps ==
  ASSUME IInv, IInv', WInv, NEW owner \in OwnersAre, FInv(owner), NEW c \in Chains,
         UploadDocument(c)
  PROVE  SInv'
<1>1. /\ chains[c].pc = "upload"
      /\ UNCHANGED <<rows, profile, checks, web, office, approved, created>>
  BY DEF UploadDocument
<1>2. chains[c].pc \in Screening /\ chains[c].pc \notin Early
  BY <1>1 DEF Screening, Early
<1>3. "start" \in ChainPCs /\ "start" \notin Taking /\ "start" \notin Early /\ "upload" \notin Taking
  BY DEF ChainPCs, Taking, Early
<1>4. /\ Len(applicants) \in Nat /\ DOMAIN applicants = 1..Len(applicants)
      /\ \A i \in DOMAIN applicants : applicants[i] \in Applicant
  BY DEF IInv, TypeOK
<1>5. CASE UNCHANGED applicants
  <2>1. Grows
    BY <1>1, <1>5, OnfidoStays DEF IInv
  <2>2. PICK next \in Chain :
          /\ chains' = [chains EXCEPT ![c] = next]
          /\ next.of = chains[c].of /\ next.person = chains[c].person
          /\ \/ next.pc = "failed"
             \/ next.pc = "upload" /\ next.applicant = chains[c].applicant
             \/ next.pc = "start" /\ chains[c].applicant \notin DOMAIN applicants
             \/ next.pc = "start" /\ applicants'[chains[c].applicant].document
    <3>1. CASE Retry(c)
      BY <1>1, <3>1, RetryIs
    <3>2. CASE GoTo(c, "start") /\ chains[c].applicant = None
      BY <1>3, <1>4, <3>2, GoToIs DEF None
    <3>3. CASE /\ GoTo(c, "start") /\ chains[c].applicant # None
               /\ applicants' = [applicants EXCEPT ![chains[c].applicant].document = TRUE]
      <4>1. CASE chains[c].applicant \in DOMAIN applicants
        <5>1. applicants'[chains[c].applicant].document
          BY <1>4, <3>3, <4>1 DEF Applicant
        <5> QED
          BY <1>3, <3>3, <5>1, GoToIs
      <4>2. CASE chains[c].applicant \notin DOMAIN applicants
        BY <1>3, <3>3, <4>2, GoToIs
      <4> QED
        BY <4>1, <4>2
    <3> QED
      BY <3>1, <3>2, <3>3 DEF UploadDocument
  <2>3. /\ next.pc \notin Taking /\ next.pc \notin Early
    BY <2>2 DEF Taking, Early
  <2>4. GoesOn
    BY <1>1, <1>5, <2>1, <2>2, <2>3, TaskGoesOn
  <2> QED
    BY <1>1, <1>2, <2>1, <2>2, <2>3, <2>4, MovesKeep
<1>6. CASE /\ applicants' = [applicants EXCEPT ![chains[c].applicant].document = TRUE]
           /\ GoTo(c, "start") \/ Retry(c)
  <2>1. /\ Len(applicants') = Len(applicants) /\ DOMAIN applicants' = DOMAIN applicants
        /\ \A i \in DOMAIN applicants :
             /\ applicants'[i].of = applicants[i].of
             /\ applicants[i].document => applicants'[i].document
             /\ i = chains[c].applicant => applicants'[i].document
    <3>1. \A i \in DOMAIN applicants :
            /\ applicants'[i].of = applicants[i].of
            /\ applicants[i].document => applicants'[i].document
            /\ i = chains[c].applicant => applicants'[i].document
      BY <1>4, <1>6 DEF Applicant
    <3>2. DOMAIN applicants' = DOMAIN applicants
      BY <1>6
    <3>3. Len(applicants') \in Nat /\ DOMAIN applicants' = 1..Len(applicants')
      BY DEF IInv, TypeOK
    <3> QED
      BY <1>4, <3>1, <3>2, <3>3
  <2>2. Grows
    BY <1>1, <2>1 DEF Grows, IInv, TypeOK
  <2>3. PICK next \in Chain :
          /\ chains' = [chains EXCEPT ![c] = next]
          /\ next.of = chains[c].of /\ next.person = chains[c].person
          /\ next.pc \in {"failed", "upload", "start"}
    BY <1>1, <1>3, <1>6, GoToIs, RetryIs
  <2>4. /\ next.pc \notin Taking /\ next.pc \notin Early
    BY <2>3 DEF Taking, Early
  <2>5. GoesOn
    BY <1>1, <2>1, <2>2, <2>3, <2>4, TaskGoesOn
  <2> QED
    BY <1>1, <1>2, <2>2, <2>3, <2>4, <2>5, MovesKeep
<1> QED
  BY <1>5, <1>6 DEF UploadDocument

LEMMA StartCheckKeeps ==
  ASSUME IInv, IInv', WInv, NEW owner \in OwnersAre, FInv(owner), NEW c \in Chains, StartCheck(c)
  PROVE  SInv'
<1>1. /\ chains[c].pc = "start" /\ Exists(chains[c].of)
      /\ UNCHANGED <<rows, profile, applicants, web, office, approved, created>>
  BY DEF StartCheck
<1>2. chains[c].pc \in Screening /\ chains[c].pc \notin Early /\ chains[c].pc \notin Taking
  BY <1>1 DEF Screening, Early, Taking
<1>3. /\ chains[c] \in Chain /\ chains[c].of \in Subjects
      /\ RowOf(c) \in Row /\ Owns(RowOf(c), chains[c].of[2]) /\ RowIsBacked(RowOf(c))
      /\ RowOf(c).of = owner[chains[c].of]
      /\ chains[c].person = <<owner[chains[c].of], chains[c].of[2]>>
  BY <1>1, <1>2, RowAtHand
<1>4. CASE (GoTo(c, "fetch") \/ Retry(c)) /\ UNCHANGED checks
  BY <1>1, <1>2, <1>4, QuietTaskKeeps
<1>5. CASE /\ RowOf(c).applicant # None
           /\ checks' = Append(checks, [applicant |-> RowOf(c).applicant, state |-> "running"])
           /\ \/ chains' = [chains EXCEPT ![c] =
                   [@ EXCEPT !.pc = "save_check", !.row = RowOf(c), !.applicant = Len(checks) + 1]]
              \/ Retry(c)
  <2>1. PICK i \in DOMAIN applicants : i = RowOf(c).applicant /\ Backed(i)
    BY <1>3, <1>5, Ranges DEF Owns, None, RowIsBacked, IInv
  <2>2. PICK new \in Check : /\ new.applicant = i
                             /\ checks' = Append(checks, new)
    <3>1. [applicant |-> i, state |-> "running"] \in Check
      BY <1>3, <2>1 DEF Check, Row
    <3> QED
      BY <1>5, <2>1, <3>1
  <2>3. /\ Len(checks) \in Nat /\ DOMAIN checks = 1..Len(checks)
        /\ Len(checks') = Len(checks) + 1 /\ DOMAIN checks' = 1..(Len(checks) + 1)
        /\ \A k \in DOMAIN checks : checks'[k] = checks[k]
        /\ checks'[Len(checks) + 1] = new
    BY <2>2 DEF IInv, TypeOK
  <2>4. Grows
    BY <1>1, <2>3 DEF Grows, IInv, TypeOK
  <2>5. PICK next \in Chain :
          /\ chains' = [chains EXCEPT ![c] = next]
          /\ next.of = chains[c].of /\ next.person = chains[c].person
          /\ \/ next.pc \in {"failed", "start"}
             \/ next.pc = "save_check" /\ next.row = RowOf(c)
    <3>1. CASE Retry(c)
      BY <1>1, <3>1, RetryIs
    <3>2. CASE chains' = [chains EXCEPT ![c] =
                 [@ EXCEPT !.pc = "save_check", !.row = RowOf(c), !.applicant = Len(checks) + 1]]
      <4> DEFINE next == [chains[c] EXCEPT !.pc = "save_check", !.row = RowOf(c),
                                           !.applicant = Len(checks) + 1]
      <4>1. Len(checks) + 1 \in Nat /\ "save_check" \in ChainPCs
        BY <2>3 DEF ChainPCs
      <4>2. /\ next \in Chain /\ next.pc = "save_check" /\ next.of = chains[c].of
            /\ next.row = RowOf(c) /\ next.person = chains[c].person
        BY <1>3, <4>1 DEF Chain
      <4>3. chains' = [chains EXCEPT ![c] = next]
        BY <3>2
      <4> HIDE DEF next
      <4> QED
        BY <4>2, <4>3
    <3> QED
      BY <1>5, <3>1, <3>2
  <2>6. chains'[c] = next /\ \A d \in Chains \ {c} : chains'[d] = chains[d]
    BY <2>5 DEF IInv, TypeOK
  <2>7. next.pc \notin Early
    BY <2>5 DEF Early
  <2>8. GoesOn
    BY <1>1, <2>4, <2>5, <2>7, TaskGoesOn
  <2>9. PICK k \in DOMAIN checks' : k = Len(checks) + 1
    BY <2>3
  (* The chain that created the applicant and has not uploaded is another. *)
  <2>10. HasDocument(k)'
    <3>1. applicants[i].of = chains[c].person
      BY <1>3, <1>5, <2>1 DEF Owns
    <3>2. checks'[k].applicant = i /\ applicants' = applicants
      BY <1>1, <2>2, <2>3, <2>9
    <3>3. CASE applicants[i].document
      BY <3>2, <3>3 DEF HasDocument
    <3>4. CASE ~applicants[i].document
      <4>1. PICK d \in Chains : /\ chains[d].person = applicants[i].of
                                /\ chains[d].pc \in {"failed", "upload"}
        BY <2>1, <3>4 DEF Backed
      <4>2. d # c /\ chains[d].pc \notin Early
        BY <1>1, <4>1 DEF Early
      <4>3. /\ chains'[d].person = applicants[i].of /\ chains'[d].pc \notin Early
            /\ chains'[c].person = applicants[i].of /\ chains'[c].pc \notin Early
        BY <2>5, <2>6, <2>7, <3>1, <4>1, <4>2
      <4> QED
        BY <3>2, <4>2, <4>3 DEF HasDocument, Screens
    <3> QED
      BY <3>3, <3>4
  <2>11. \A n \in DOMAIN checks' : n \in DOMAIN checks \/ HasDocument(n)'
    <3>1. \A n \in DOMAIN checks' : n \in DOMAIN checks \/ n = k
      BY <2>3, <2>9
    <3> QED
      BY <2>10, <3>1
  <2>12. PICK row \in Row, kind \in {"applicant", "beneficiary"} :
          row = RowOf(c) /\ kind = chains[c].of[2]
    BY <1>3 DEF Subjects
  <2>13. RowIsBacked(row)'
    BY <1>3, <2>8, <2>12, BackedStays DEF IInv
  <2>14. next.pc \in Taking => next.row = row
    BY <2>5, <2>12 DEF Taking
  <2>15. next.pc \in Taking => RowIsBacked(next.row)'
    BY <2>13, <2>14 DEF RowIsBacked
  <2> QED
    BY <1>1, <1>3, <2>4, <2>5, <2>8, <2>11, <2>12, <2>14, <2>15, TaskKeeps
<1> QED
  BY <1>4, <1>5 DEF StartCheck

LEMMA FetchResultKeeps ==
  ASSUME IInv, IInv', WInv, NEW owner \in OwnersAre, FInv(owner), NEW c \in Chains, FetchResult(c)
  PROVE  SInv'
<1>1. /\ chains[c].pc = "fetch" /\ Exists(chains[c].of)
      /\ UNCHANGED <<rows, profile, applicants, checks, web, office, approved, created>>
  BY DEF FetchResult
<1>2. chains[c].pc \in Screening /\ chains[c].pc \notin Early /\ chains[c].pc \notin Taking
  BY <1>1 DEF Screening, Early, Taking
<1>3. /\ chains[c] \in Chain /\ chains[c].of \in Subjects
      /\ RowOf(c) \in Row /\ Owns(RowOf(c), chains[c].of[2]) /\ RowIsBacked(RowOf(c))
      /\ RowOf(c).of = owner[chains[c].of]
      /\ chains[c].person = <<owner[chains[c].of], chains[c].of[2]>>
  BY <1>1, <1>2, RowAtHand
<1>4. CASE End(c, "done") \/ End(c, "failed") \/ Retry(c)
  BY <1>1, <1>2, <1>4, QuietTaskKeeps
<1>5. CASE /\ IsComplete(RowOf(c))
           /\ chains' = [chains EXCEPT ![c] = [@ EXCEPT !.pc = "save_result",
                 !.row = [RowOf(c) EXCEPT !.result = checks[RowOf(c).check].state]]]
  <2> DEFINE k == RowOf(c).check
             row == [RowOf(c) EXCEPT !.result = checks[k].state]
             next == [chains[c] EXCEPT !.pc = "save_result", !.row = row]
  <2>1. k \in DOMAIN checks /\ checks[k].state # "running"
    BY <1>3, <1>5 DEF IsComplete, Owns, None, IInv, TypeOK
  <2>2. checks[k].state \in Results
    <3>1. checks[k] \in Check
      BY <2>1 DEF IInv, TypeOK
    <3> QED
      BY <2>1, <3>1 DEF Check, Results
  <2>3. /\ row \in Row /\ row.applicant = RowOf(c).applicant /\ row.of = RowOf(c).of
        /\ row.status = RowOf(c).status
    BY <1>3, <2>2 DEF Row
  <2>4. chains' = [chains EXCEPT ![c] = next]
    BY <1>5
  <2> HIDE DEF row
  <2>5. "save_result" \in ChainPCs /\ "save_result" \notin Early
    BY DEF ChainPCs, Early
  <2>6. /\ next \in Chain /\ next.pc = "save_result" /\ next.of = chains[c].of
        /\ next.row = row /\ next.person = chains[c].person
    BY <1>3, <2>3, <2>5 DEF Chain
  <2> HIDE DEF next
  <2>7. Grows
    BY <1>1, OnfidoStays DEF IInv
  <2>8. PICK z \in Chain : z = next
    BY <2>6
  <2>9. GoesOn
    BY <1>1, <1>2, <2>4, <2>5, <2>6, <2>7, TaskGoesOn
  <2>10. PICK old \in Row, kind \in {"applicant", "beneficiary"} :
          old = RowOf(c) /\ kind = chains[c].of[2]
    BY <1>3 DEF Subjects
  <2>11. RowIsBacked(old)'
    BY <1>3, <2>9, <2>10, BackedStays DEF IInv
  <2>12. RowIsBacked(z.row)'
    BY <2>3, <2>6, <2>8, <2>10, <2>11 DEF RowIsBacked
  <2> QED
    BY <1>1, <1>3, <2>3, <2>4, <2>6, <2>7, <2>8, <2>9, <2>12, TaskKeeps
<1> QED
  BY <1>4, <1>5 DEF FetchResult

LEMMA CompleteCheckKeeps ==
  ASSUME IInv, IInv', WInv, NEW owner \in OwnersAre, FInv(owner), CompleteCheck
  PROVE  SInv'
<1>1. PICK k \in DOMAIN checks, result \in {"clear", "consider"} :
        /\ checks[k].state = "running"
        /\ checks' = [checks EXCEPT ![k].state = result]
        /\ UNCHANGED <<rows, profile, applicants, web, office, chains, approved, created>>
  BY Zenon DEF CompleteCheck
<1>2. \A i \in DOMAIN checks : checks[i] \in Check
  BY DEF IInv, TypeOK
<1>3. /\ DOMAIN checks' = DOMAIN checks /\ Len(checks') = Len(checks)
      /\ \A i \in DOMAIN checks : /\ checks'[i].applicant = checks[i].applicant
                                  /\ i # k => checks'[i] = checks[i]
  <2>1. DOMAIN checks' = DOMAIN checks
    BY <1>1
  <2>2. \A i \in DOMAIN checks : /\ checks'[i].applicant = checks[i].applicant
                                 /\ i # k => checks'[i] = checks[i]
    BY <1>1, <1>2 DEF Check
  <2>3. /\ Len(checks) \in Nat /\ DOMAIN checks = 1..Len(checks)
        /\ Len(checks') \in Nat /\ DOMAIN checks' = 1..Len(checks')
    BY DEF IInv, TypeOK
  <2> QED
    BY <2>1, <2>2, <2>3
<1>4. Grows /\ created \in Nat
  BY <1>1, <1>3, Ranges DEF Grows, IInv, TypeOK
<1>5. GoesOn
  BY <1>1, <1>4, ChainsStay
<1>6. FInv(owner)'
  BY <1>1, <1>3, <1>4, <1>5, ChangesAreKept
<1>7. WInv'
  BY <1>1 DEF WInv, IsOpen, Submits, IsAwaited, IsUndecided
<1> QED
  BY <1>6, <1>7 DEF SInv

LEMMA NextScreening ==
  ASSUME IInv, IInv', SInv, [Next]_vars
  PROVE  SInv'
<1>1. WInv
  BY DEF SInv
<1>2. PICK owner \in OwnersAre : FInv(owner)
  BY DEF SInv
<1>3. CASE UNCHANGED vars
  <2>1. WInv'
    BY <1>1, <1>3 DEF vars, WInv, IsOpen, Submits, IsAwaited, IsUndecided
  <2>2. FInv(owner)'
    BY <1>2, <1>3 DEF vars, FInv, RowKept, Exists, RowIsBacked, Backed, EditKept, ChainKept,
                      HasDocument, Screens
  <2> QED
    BY <2>1, <2>2 DEF SInv
<1>4. ASSUME NEW s \in Web, WebStep(s) PROVE SInv'
  BY <1>1, <1>2, <1>4, WebPlain, CreateSubmissionKeeps, EnqueueKeeps DEF WebStep
<1>5. ASSUME NEW a \in Office, OfficeStep(a) PROVE SInv'
  BY <1>1, <1>2, <1>5, OpenKeeps, OfficeSaveSteps, JudgeKeeps, SaveVerdictKeeps,
     OfficeInsertsKept, DeleteDraftKeeps, ForceScreeningKeeps
     DEF OfficeStep, OpenToApprove, OpenToReject, OpenToEdit
<1>6. ASSUME NEW c \in Chains, TaskStep(c) PROVE SInv'
  BY <1>1, <1>2, <1>6, RowIsGoneKeeps, RunRoutineKeeps, CreateApplicantKeeps, SaveTasksKeep,
     UploadDocumentKeeps, StartCheckKeeps, FetchResultKeeps
     DEF TaskStep
<1> QED
  BY <1>1, <1>2, <1>3, <1>4, <1>5, <1>6, CompleteCheckKeeps DEF Next

-----------------------------------------------------------------------------
(* The theorems.                                                           *)

(* IInv holds in every reachable state, for any values of the constants.   *)
THEOREM InductiveInvariant == Spec => []IInv
BY InitInvariant, NextStep, PTL DEF Spec

(* Every column, session and chain of tasks holds a value of its type, and *)
(* every check Onfido runs is one of an applicant it has.                  *)
THEOREM TypeCorrectness == Spec => []TypeOK
<1>1. IInv => TypeOK
  BY DEF IInv
<1> QED
  BY <1>1, InductiveInvariant, PTL

(* However stale the rows and profiles that are saved, a profile is        *)
(* verified only after a submission was approved, and its last submission  *)
(* was (models.py, _change_transition).                                    *)
THEOREM VerifiedProfilesWereApproved == Spec => []VerifiedWasApproved
<1>1. IInv => VerifiedWasApproved
  BY DEF IInv, Known, VerifiedWasApproved
<1> QED
  BY <1>1, InductiveInvariant, PTL

(* Whatever is cloned, edited, screened again and saved late, the result   *)
(* of a row is one that Onfido came to about the person whose data the row *)
(* holds (tasks.py, onfido_save_check_result_task).                        *)
THEOREM ResultsAreOfThePerson == Spec => []ResultIsOwn
<1>1. ASSUME IInv, NEW x \in Subjects, rows[x].result \in {"clear", "consider"}
      PROVE  \E k \in DOMAIN checks :
               checks[k].state = rows[x].result /\ applicants[checks[k].applicant].of = Of(x)
  BY <1>1 DEF IInv, RowIsGood, Owns, Of
<1>2. IInv => ResultIsOwn
  BY <1>1 DEF ResultIsOwn
<1> QED
  BY <1>2, InductiveInvariant, PTL

(* A pending profile has a submission that no stale copy can turn into a   *)
(* decided one, or a decision is under way; and the copies of a row agree  *)
(* on the one whose data they hold, in every reachable state.              *)
THEOREM ScreeningInvariant == Spec => [](IInv /\ SInv)
<1>1. Init => IInv /\ SInv
  BY InitInvariant, InitScreening
<1>2. IInv /\ SInv /\ [Next]_vars => (IInv /\ SInv)'
  BY NextStep, NextScreening
<1> QED
  BY <1>1, <1>2, PTL DEF Spec

(* A user whose profile waits is one whose submission waits, for any       *)
(* number of sessions of both sites and of chains that save old copies of  *)
(* its rows (views.py, post; models.py, _change_transition).               *)
THEOREM PendingProfilesWait == Spec => []PendingHasSubmission
<1>1. WInv => PendingHasSubmission
  BY DEF WInv, IsOpen, IsAwaited, IsUndecided, Deciding, PendingHasSubmission
<1> QED
  BY <1>1, ScreeningInvariant, PTL DEF SInv

(* However tasks are retried and rows are cloned, deleted and saved again  *)
(* late, Onfido is not asked to check someone it has no document of unless *)
(* two chains screen that person (tasks.py, onfido_upload_document_task).  *)
THEOREM ChecksHaveDocuments == Spec => []CheckHasDocument
<1>1. ASSUME SInv PROVE CheckHasDocument
  <2>1. \A k \in DOMAIN checks : HasDocument(k)
    BY <1>1 DEF SInv, FInv
  <2>2. ASSUME NEW k \in DOMAIN checks, NEW e \in Chains,
               ChainsFor(applicants[checks[k].applicant].of) = {e}
        PROVE  applicants[checks[k].applicant].document
    BY <2>1, <2>2 DEF HasDocument, Screens, ChainsFor
  <2> QED
    BY <2>2 DEF CheckHasDocument
<1> QED
  BY <1>1, ScreeningInvariant, PTL
=============================================================================
