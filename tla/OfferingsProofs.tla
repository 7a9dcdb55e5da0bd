-------------------------- MODULE OfferingsProofs ---------------------------
(***************************************************************************)
(* Proofs about Offerings, for any offerings, users, processes, sessions   *)
(* and terms.                                                              *)
(***************************************************************************)
EXTENDS Offerings, TLAPS

-----------------------------------------------------------------------------
(* The inductive invariant.                                                *)

Sessions == Web \union Admins

(* A session at work has one offering in hand, and a user's has the user.  *)
Aims(x) ==
  /\ x.pc # "idle" => \E o \in OfferingIds : x.offering = {o}
  /\ x.pc \in {"subscribe", "apply"} => \E u \in Users : x.user = {u}

(* A form that waits to be saved was found good, and is good for the rows  *)
(* as they are unless another one was saved since.                         *)
IsClean(x) ==
  x.pc = "save" =>
    /\ x.row \in Offering
    /\ x.row.start < x.row.end
    /\ ~x.stale => \A o \in x.offering :
                     /\ CleanDateEnd(o, x.row)
                     /\ Exists(o) => CleanStatus(offerings[o].status, x.row.status)

BootIsPast == \A w \in Web : boot[w] <= now

IInv == /\ TypeOK
        /\ \A s \in Sessions : Aims(ses[s]) /\ IsClean(ses[s])
        /\ BootIsPast
        /\ RowsHaveOffering

-----------------------------------------------------------------------------
LEMMA Types ==
  /\ Idle \in Session
  /\ NoOffering \notin Offering
  /\ 0 \in Times
  /\ Times \subseteq Int
<1>1. NoOffering \notin Offering
  BY DEF NoOffering, Offering, OfferingStatuses
<1>2. 0 \in Times /\ Times \subseteq Int
  BY BoundsAreNat DEF Times
<1>3. Idle \in Session
  BY DEF Idle, Session, PCs
<1> QED
  BY <1>1, <1>2, <1>3

LEMMA InitInvariant == Init => IInv
BY Types, BoundsAreNat
   DEF Init, IInv, TypeOK, Idle, Aims, IsClean, BootIsPast, RowsHaveOffering,
       Exists, Sessions, Application

(* The target and the user of a session are those it has in hand.          *)
LEMMA TargetIsInHand ==
  ASSUME IInv, NEW s \in Sessions, ses[s].pc # "idle"
  PROVE  /\ Target(s) \in OfferingIds
         /\ ses[s].offering = {Target(s)}
         /\ ses[s].pc \in {"subscribe", "apply"} => User(s) \in Users
BY DEF IInv, Aims, Target, User

LEMMA AppliedForOfferings ==
  ASSUME IInv, NEW i \in DOMAIN applications
  PROVE  applications[i] \in Application /\ applications[i].offering \in OfferingIds
<1>1. applications[i] \in Application
  BY DEF IInv, TypeOK
<1> QED
  BY <1>1 DEF Application

(* A step that gives a session something good to do, and changes no row.   *)
LEMMA SessionBegins ==
  ASSUME IInv,
         NEW s \in Sessions, NEW next \in Session, Begin(s, next),
         Aims(next), IsClean(next),
         forms' \in 0..MaxForms,
         UNCHANGED <<offerings, subscriptions, applications, boot, now>>
  PROVE  IInv'
<1> USE DEF Sessions
<1>1. /\ ses' \in [Sessions -> Session]
      /\ \A t \in Sessions : ses'[t] = IF t = s THEN next ELSE ses[t]
  BY DEF IInv, TypeOK, Begin
<1>2. TypeOK'
  BY <1>1 DEF IInv, TypeOK, Exists
<1>3. ASSUME NEW t \in Sessions PROVE Aims(ses'[t]) /\ IsClean(ses'[t])
  BY <1>1 DEF IInv
<1>4. ASSUME NEW t \in Sessions PROVE Aims(ses[t])' /\ IsClean(ses[t])'
  BY <1>3 DEF Aims, IsClean, CleanDateEnd, Exists
<1>5. BootIsPast' /\ RowsHaveOffering'
  BY DEF IInv, BootIsPast, RowsHaveOffering, Exists
<1> QED
  BY <1>2, <1>4, <1>5 DEF IInv

(* A step that ends what a session does, and adds rows that have offerings *)
LEMMA SessionEnds ==
  ASSUME IInv, NEW s \in Sessions, End(s),
         applications' \in Seq(Application), Len(applications') <= MaxRows,
         subscriptions' \subseteq Users \X OfferingIds,
         boot' \in [Web -> Times], \A w \in Web : boot'[w] <= now,
         RowsHaveOffering',
         UNCHANGED <<offerings, forms, now>>
  PROVE  IInv'
<1> USE DEF Sessions
<1>1. /\ ses' \in [Sessions -> Session]
      /\ \A t \in Sessions : ses'[t] = IF t = s THEN Idle ELSE ses[t]
  BY Types DEF IInv, TypeOK, End
<1>2. TypeOK'
  BY <1>1 DEF IInv, TypeOK, Exists
<1>3. ASSUME NEW t \in Sessions PROVE Aims(ses'[t]) /\ IsClean(ses'[t])
  BY <1>1 DEF IInv, Aims, IsClean, Idle
<1>4. ASSUME NEW t \in Sessions PROVE Aims(ses[t])' /\ IsClean(ses[t])'
  BY <1>3 DEF Aims, IsClean, CleanDateEnd, Exists
<1>5. BootIsPast'
  BY DEF BootIsPast
<1> QED
  BY <1>2, <1>4, <1>5 DEF IInv

(* A step after which other forms count as checked before it.              *)
LEMMA OthersAreStale ==
  ASSUME IInv, NEW a \in Sessions, Changed(a)
  PROVE  /\ ses' \in [Sessions -> Session]
         /\ \A t \in Sessions : Aims(ses[t])' /\ IsClean(ses[t])'
<1> USE DEF Sessions
<1>1. \A t \in Sessions : ses'[t] = IF t = a THEN Idle
                  ELSE IF ses[t].pc = "idle" THEN ses[t] ELSE [ses[t] EXCEPT !.stale = TRUE]
  BY DEF Changed
<1>2. ASSUME NEW t \in Sessions
      PROVE  /\ ses'[t] \in Session
             /\ Aims(ses[t])' /\ IsClean(ses[t])'
  <2>1. ses[t] \in Session /\ Aims(ses[t]) /\ IsClean(ses[t])
    BY DEF IInv, TypeOK
  <2>2. CASE t = a
    <3>1. ses'[t] = Idle
      BY <1>1, <2>2
    <3> QED
      BY <3>1, Types DEF Aims, IsClean, Idle
  <2>3. CASE t # a
    <3>1. CASE ses[t].pc = "idle"
      <4>1. ses'[t] = ses[t]
        BY <1>1, <2>3, <3>1
      <4> QED
        BY <2>1, <3>1, <4>1 DEF Aims, IsClean
    <3>2. CASE ses[t].pc # "idle"
      <4>1. ses'[t] = [ses[t] EXCEPT !.stale = TRUE]
        BY <1>1, <2>3, <3>2
      <4>2. /\ ses'[t].pc = ses[t].pc /\ ses'[t].user = ses[t].user
            /\ ses'[t].offering = ses[t].offering /\ ses'[t].row = ses[t].row
            /\ ses'[t].stale
            /\ ses'[t] \in Session
        BY <2>1, <4>1 DEF Session
      <4> QED
        BY <2>1, <4>2 DEF Aims, IsClean
    <3> QED
      BY <3>1, <3>2
  <2> QED
    BY <2>2, <2>3
<1>3. ses' \in [Sessions -> Session]
  BY <1>2 DEF Changed
<1> QED
  BY <1>2, <1>3

-----------------------------------------------------------------------------
(* The operations of the office.                                           *)

LEMMA PostFormStep ==
  ASSUME IInv, NEW a \in Admins, PostForm(a)
  PROVE  IInv'
<1>1. PICK o \in OfferingIds, row \in Offering :
        /\ forms < MaxForms /\ forms' = forms + 1
        /\ CleanStatus(IF Exists(o) THEN offerings[o].status ELSE "draft", row.status)
        /\ CleanDateEnd(o, row)
        /\ Begin(a, [Idle EXCEPT !.pc = "save", !.offering = {o}, !.row = row])
        /\ UNCHANGED <<offerings, subscriptions, applications, boot, now>>
  BY Zenon DEF PostForm
<1> DEFINE next == [Idle EXCEPT !.pc = "save", !.offering = {o}, !.row = row]
<1>2. /\ next \in Session /\ next.pc = "save" /\ next.offering = {o} /\ next.row = row
  BY DEF Idle, Session, PCs
<1>3. Aims(next)
  BY <1>2 DEF Aims
<1>4. IsClean(next)
  BY <1>1, <1>2 DEF IsClean, CleanDateEnd
<1>5. forms' \in 0..MaxForms
  BY <1>1, BoundsAreNat DEF IInv, TypeOK
<1> HIDE DEF next
<1> QED
  BY <1>1, <1>2, <1>3, <1>4, <1>5, SessionBegins DEF Sessions, next

LEMMA PostDeleteStep ==
  ASSUME IInv, NEW a \in Admins, PostDelete(a)
  PROVE  IInv'
<1>1. PICK o \in OfferingIds :
        /\ forms < MaxForms /\ forms' = forms + 1
        /\ Begin(a, [Idle EXCEPT !.pc = "delete", !.offering = {o}])
        /\ UNCHANGED <<offerings, subscriptions, applications, boot, now>>
  BY Zenon DEF PostDelete
<1> DEFINE next == [Idle EXCEPT !.pc = "delete", !.offering = {o}]
<1>2. /\ next \in Session /\ next.pc = "delete" /\ next.offering = {o}
  BY DEF Idle, Session, PCs
<1>3. Aims(next) /\ IsClean(next)
  BY <1>2 DEF Aims, IsClean
<1>4. forms' \in 0..MaxForms
  BY <1>1, BoundsAreNat DEF IInv, TypeOK
<1> HIDE DEF next
<1> QED
  BY <1>1, <1>2, <1>3, <1>4, SessionBegins DEF Sessions, next

LEMMA SaveFormStep ==
  ASSUME IInv, NEW a \in Admins, SaveForm(a)
  PROVE  IInv'
<1>1. /\ ses[a].pc = "save"
      /\ offerings' = [offerings EXCEPT ![Target(a)] = ses[a].row]
      /\ Changed(a)
      /\ UNCHANGED <<subscriptions, applications, boot, forms, now>>
  BY DEF SaveForm
<1>2. /\ Target(a) \in OfferingIds
      /\ ses[a].row \in Offering /\ ses[a].row.start < ses[a].row.end
  BY <1>1, TargetIsInHand DEF IInv, IsClean, Sessions
<1>3. /\ ses' \in [Sessions -> Session]
      /\ \A t \in Sessions : Aims(ses[t])' /\ IsClean(ses[t])'
  BY <1>1, OthersAreStale DEF Sessions
<1>4. /\ offerings' \in [OfferingIds -> Offering \union {NoOffering}]
      /\ \A o \in OfferingIds :
           offerings'[o] = IF o = Target(a) THEN ses[a].row ELSE offerings[o]
  BY <1>1, <1>2 DEF IInv, TypeOK
<1>5. \A o \in OfferingIds : Exists(o)' => offerings'[o].start < offerings'[o].end
  BY <1>2, <1>4 DEF IInv, TypeOK, Exists
<1>6. TypeOK'
  BY <1>1, <1>3, <1>4, <1>5 DEF IInv, TypeOK, Sessions
<1>7. \A o \in OfferingIds : Exists(o) => Exists(o)'
  BY <1>2, <1>4, Types DEF Exists
<1>8. RowsHaveOffering'
  <2>1. \A i \in DOMAIN applications : applications[i].offering \in OfferingIds
    BY AppliedForOfferings
  <2>2. \A x \in subscriptions : x[2] \in OfferingIds
    BY DEF IInv, TypeOK
  <2> QED
    BY <1>1, <1>7, <2>1, <2>2 DEF IInv, RowsHaveOffering
<1>9. BootIsPast'
  BY <1>1 DEF IInv, BootIsPast
<1> QED
  BY <1>3, <1>6, <1>8, <1>9 DEF IInv

LEMMA DeleteStep ==
  ASSUME IInv, NEW a \in Admins, Delete(a)
  PROVE  IInv'
<1>1. /\ ses[a].pc = "delete"
      /\ UNCHANGED <<applications, boot, forms, now>>
  BY DEF Delete
<1>2. CASE Applied(Target(a))
  <2>1. End(a) /\ UNCHANGED <<offerings, subscriptions>>
    BY <1>2 DEF Delete
  <2>2. RowsHaveOffering'
    BY <1>1, <2>1 DEF IInv, RowsHaveOffering, Exists
  <2> QED
    BY <1>1, <2>1, <2>2, SessionEnds DEF IInv, TypeOK, BootIsPast, Sessions
<1>3. CASE ~Applied(Target(a))
  <2>1. /\ offerings' = [offerings EXCEPT ![Target(a)] = NoOffering]
        /\ subscriptions' = {x \in subscriptions : x[2] # Target(a)}
        /\ Changed(a)
    BY <1>3 DEF Delete
  <2>2. Target(a) \in OfferingIds
    BY <1>1, TargetIsInHand DEF Sessions
  <2>3. /\ ses' \in [Sessions -> Session]
        /\ \A t \in Sessions : Aims(ses[t])' /\ IsClean(ses[t])'
    BY <2>1, OthersAreStale DEF Sessions
  <2>4. /\ offerings' \in [OfferingIds -> Offering \union {NoOffering}]
        /\ \A o \in OfferingIds :
             offerings'[o] = IF o = Target(a) THEN NoOffering ELSE offerings[o]
    BY <2>1, <2>2 DEF IInv, TypeOK
  <2>5. \A o \in OfferingIds : Exists(o)' => offerings'[o].start < offerings'[o].end
    BY <2>4 DEF IInv, TypeOK, Exists
  <2>6. TypeOK'
    BY <1>1, <2>1, <2>3, <2>4, <2>5 DEF IInv, TypeOK, Sessions
  <2>7. \A i \in DOMAIN applications : Exists(applications[i].offering)'
    <3>1. SUFFICES ASSUME NEW i \in DOMAIN applications
                   PROVE  Exists(applications[i].offering)'
      OBVIOUS
    <3>2. applications[i].offering \in OfferingIds /\ applications[i].offering # Target(a)
      BY <1>3, AppliedForOfferings DEF Applied
    <3> QED
      BY <1>1, <2>4, <3>2 DEF IInv, RowsHaveOffering, Exists
  <2>8. \A x \in subscriptions' : Exists(x[2])'
    BY <2>1, <2>4 DEF IInv, TypeOK, RowsHaveOffering, Exists
  <2>9. RowsHaveOffering' /\ BootIsPast'
    BY <1>1, <2>7, <2>8 DEF IInv, RowsHaveOffering, BootIsPast
  <2> QED
    BY <2>3, <2>6, <2>9 DEF IInv
<1> QED
  BY <1>2, <1>3

-----------------------------------------------------------------------------
(* The operations of users, of the servers and of the clock.               *)

LEMMA BeginSubscriptionStep ==
  ASSUME IInv, NEW w \in Web, BeginSubscription(w)
  PROVE  IInv'
<1>1. PICK o \in OfferingIds, u \in Users :
        /\ Begin(w, [Idle EXCEPT !.pc = "subscribe", !.user = {u}, !.offering = {o}])
        /\ UNCHANGED <<offerings, subscriptions, applications, boot, forms, now>>
  BY Zenon DEF BeginSubscription
<1> DEFINE next == [Idle EXCEPT !.pc = "subscribe", !.user = {u}, !.offering = {o}]
<1>2. next \in Session /\ next.pc = "subscribe" /\ next.user = {u} /\ next.offering = {o}
  BY DEF Idle, Session, PCs
<1>3. Aims(next) /\ IsClean(next)
  BY <1>2 DEF Aims, IsClean
<1> HIDE DEF next
<1> QED
  BY <1>1, <1>2, <1>3, SessionBegins DEF Sessions, IInv, TypeOK, next

LEMMA BeginApplicationStep ==
  ASSUME IInv, NEW w \in Web, BeginApplication(w)
  PROVE  IInv'
<1>1. PICK o \in OfferingIds, u \in Users :
        /\ Begin(w, [Idle EXCEPT !.pc = "apply", !.user = {u}, !.offering = {o},
                                 !.row = offerings[o]])
        /\ UNCHANGED <<offerings, subscriptions, applications, boot, forms, now>>
  BY Zenon DEF BeginApplication
<1> DEFINE next == [Idle EXCEPT !.pc = "apply", !.user = {u}, !.offering = {o},
                                !.row = offerings[o]]
<1>2. next \in Session /\ next.pc = "apply" /\ next.user = {u} /\ next.offering = {o}
  BY DEF Idle, Session, PCs, IInv, TypeOK
<1>3. Aims(next) /\ IsClean(next)
  BY <1>2 DEF Aims, IsClean
<1> HIDE DEF next
<1> QED
  BY <1>1, <1>2, <1>3, SessionBegins DEF Sessions, IInv, TypeOK, next

LEMMA SubscribeStep ==
  ASSUME IInv, NEW w \in Web, Subscribe(w)
  PROVE  IInv'
<1>1. /\ ses[w].pc = "subscribe" /\ End(w)
      /\ subscriptions' = IF Exists(Target(w))
                            THEN subscriptions \union {<<User(w), Target(w)>>}
                            ELSE subscriptions
      /\ UNCHANGED <<offerings, applications, boot, forms, now>>
  BY DEF Subscribe
<1>2. Target(w) \in OfferingIds /\ User(w) \in Users
  BY <1>1, TargetIsInHand DEF Sessions
<1>3. subscriptions' \subseteq Users \X OfferingIds
  BY <1>1, <1>2 DEF IInv, TypeOK
<1>4. RowsHaveOffering'
  BY <1>1 DEF IInv, RowsHaveOffering, Exists
<1> QED
  BY <1>1, <1>3, <1>4, SessionEnds DEF IInv, TypeOK, BootIsPast, Sessions

LEMMA ApplyStep ==
  ASSUME IInv, NEW w \in Web, Apply(w)
  PROVE  IInv'
<1>1. /\ ses[w].pc = "apply" /\ End(w)
      /\ UNCHANGED <<offerings, subscriptions, boot, forms, now>>
  BY DEF Apply
<1>2. Target(w) \in OfferingIds /\ User(w) \in Users
  BY <1>1, TargetIsInHand DEF Sessions
<1>3. CASE Exists(Target(w))
  <2> DEFINE new == [user |-> User(w), offering |-> Target(w), signed |-> FALSE]
  <2>1. Len(applications) < MaxRows /\ applications' = Append(applications, new)
    BY <1>3 DEF Apply
  <2>2. new \in Application /\ new.offering = Target(w)
    BY <1>2 DEF Application
  <2> HIDE DEF new
  <2>3. /\ applications' \in Seq(Application)
        /\ Len(applications') = Len(applications) + 1
        /\ \A i \in DOMAIN applications' :
             \/ applications'[i] = new
             \/ i \in DOMAIN applications /\ applications'[i] = applications[i]
    BY <2>1, <2>2 DEF IInv, TypeOK
  <2>4. Len(applications') <= MaxRows
    BY <2>1, <2>3, BoundsAreNat DEF IInv, TypeOK
  <2>5. RowsHaveOffering'
    BY <1>1, <1>3, <2>2, <2>3 DEF IInv, RowsHaveOffering, Exists
  <2> QED
    BY <1>1, <2>3, <2>4, <2>5, SessionEnds DEF IInv, TypeOK, BootIsPast, Sessions
<1>4. CASE ~Exists(Target(w))
  <2>1. UNCHANGED applications
    BY <1>4 DEF Apply
  <2>2. RowsHaveOffering'
    BY <1>1, <2>1 DEF IInv, RowsHaveOffering, Exists
  <2> QED
    BY <1>1, <2>1, <2>2, SessionEnds DEF IInv, TypeOK, BootIsPast, Sessions
<1> QED
  BY <1>3, <1>4

LEMMA SignStep ==
  ASSUME IInv, Sign
  PROVE  IInv'
<1>1. PICK i \in DOMAIN applications :
        /\ applications' = [applications EXCEPT ![i].signed = TRUE]
        /\ UNCHANGED <<offerings, subscriptions, ses, boot, forms, now>>
  BY Zenon DEF Sign
<1> DEFINE new == [applications[i] EXCEPT !.signed = TRUE]
<1>2. new \in Application /\ new.offering = applications[i].offering
  BY AppliedForOfferings DEF Application
<1>3. applications' = [applications EXCEPT ![i] = new]
  BY <1>1
<1> HIDE DEF new
<1>4. /\ applications' \in Seq(Application) /\ Len(applications') = Len(applications)
      /\ DOMAIN applications' = DOMAIN applications
      /\ \A j \in DOMAIN applications : applications'[j].offering = applications[j].offering
  BY <1>2, <1>3 DEF IInv, TypeOK
<1>5. TypeOK'
  BY <1>1, <1>4 DEF IInv, TypeOK, Exists
<1>6. \A s \in Sessions : Aims(ses[s])' /\ IsClean(ses[s])'
  BY <1>1 DEF IInv, Aims, IsClean, CleanDateEnd, Exists
<1>7. RowsHaveOffering' /\ BootIsPast'
  BY <1>1, <1>4 DEF IInv, RowsHaveOffering, BootIsPast, Exists
<1> QED
  BY <1>5, <1>6, <1>7 DEF IInv

LEMMA RestartStep ==
  ASSUME IInv, NEW w \in Web, Restart(w)
  PROVE  IInv'
<1>1. /\ boot' = [boot EXCEPT ![w] = now] /\ End(w)
      /\ UNCHANGED <<offerings, subscriptions, applications, forms, now>>
  BY DEF Restart
<1>2. boot' \in [Web -> Times] /\ \A v \in Web : boot'[v] <= now
  BY <1>1, Types DEF IInv, TypeOK, BootIsPast
<1>3. RowsHaveOffering'
  BY <1>1 DEF IInv, RowsHaveOffering, Exists
<1> QED
  BY <1>1, <1>2, <1>3, SessionEnds DEF IInv, TypeOK, Sessions

LEMMA TickStep ==
  ASSUME IInv, Tick
  PROVE  IInv'
<1>1. /\ now < MaxTime /\ now' = now + 1
      /\ UNCHANGED <<offerings, subscriptions, applications, ses, boot, forms>>
  BY DEF Tick
<1>2. now' \in Times /\ \A w \in Web : boot[w] <= now'
  BY <1>1, BoundsAreNat DEF IInv, TypeOK, BootIsPast, Times
<1>3. TypeOK' /\ BootIsPast'
  BY <1>1, <1>2 DEF IInv, TypeOK, BootIsPast, Exists
<1>4. \A s \in Sessions : Aims(ses[s])' /\ IsClean(ses[s])'
  BY <1>1 DEF IInv, Aims, IsClean, CleanDateEnd, Exists
<1>5. RowsHaveOffering'
  BY <1>1 DEF IInv, RowsHaveOffering, Exists
<1> QED
  BY <1>3, <1>4, <1>5 DEF IInv

LEMMA NextStep == IInv /\ [Next]_vars => IInv'
<1> SUFFICES ASSUME IInv, [Next]_vars PROVE IInv'
  OBVIOUS
<1>1. CASE UNCHANGED vars
  BY <1>1 DEF vars, IInv, TypeOK, Aims, IsClean, CleanDateEnd, BootIsPast,
              RowsHaveOffering, Exists
<1>2. CASE \E a \in Admins : PostForm(a) \/ SaveForm(a) \/ PostDelete(a) \/ Delete(a)
  BY <1>2, PostFormStep, SaveFormStep, PostDeleteStep, DeleteStep
<1>3. CASE \E w \in Web : \/ BeginSubscription(w) \/ Subscribe(w)
                          \/ BeginApplication(w) \/ Apply(w) \/ Restart(w)
  BY <1>3, BeginSubscriptionStep, SubscribeStep, BeginApplicationStep, ApplyStep,
     RestartStep
<1>4. CASE Sign \/ Tick
  BY <1>4, SignStep, TickStep
<1> QED
  BY <1>1, <1>2, <1>3, <1>4 DEF Next

-----------------------------------------------------------------------------
(* The theorems.                                                           *)

(* IInv holds in every reachable state, for any values of the constants.   *)
THEOREM InductiveInvariant == Spec => []IInv
BY InitInvariant, NextStep, PTL DEF Spec

(* Every column and every session holds a value of its type, and every     *)
(* offering ends after it starts (forms.py, clean_date_end).               *)
THEOREM TypeCorrectness == Spec => []TypeOK
<1>1. IInv => TypeOK
  BY DEF IInv
<1> QED
  BY <1>1, InductiveInvariant, PTL

(* Applications and subscriptions have their offerings, whatever the       *)
(* office deletes and edits meanwhile.                                     *)
THEOREM ReferencesHold == Spec => []RowsHaveOffering
<1>1. IInv => RowsHaveOffering
  BY DEF IInv
<1> QED
  BY <1>1, InductiveInvariant, PTL

(* The rows of offerings change only by forms and deletions.               *)
LEMMA OnlyTheOfficeEdits ==
  ASSUME IInv, [Next]_vars
  PROVE  \/ UNCHANGED offerings
         \/ \E a \in Admins : SaveForm(a) \/ Delete(a)
BY DEF Next, vars, PostForm, PostDelete, BeginSubscription, Subscribe,
       BeginApplication, Apply, Sign, Restart, Tick

(* An offering moves along the pipeline of its statuses, but for forms     *)
(* that were checked before another one was saved (forms.py, clean_status).*)
THEOREM StatusesFollowPipeline == Spec => StatusFollowsPipeline
<1>1. ASSUME IInv, [Next]_vars, NEW o \in OfferingIds,
             Exists(o), offerings'[o] # NoOffering,
             offerings'[o].status # offerings[o].status
      PROVE  \/ offerings'[o].status \in StatusPipeline[offerings[o].status]
             \/ \E a \in Admins : ses[a].pc = "save" /\ ses'[a] = Idle /\ ses[a].stale
  <2>1. PICK a \in Admins : SaveForm(a) \/ Delete(a)
    BY <1>1, OnlyTheOfficeEdits
  <2>2. CASE SaveForm(a)
    <3>1. /\ ses[a].pc = "save" /\ Changed(a)
          /\ offerings' = [offerings EXCEPT ![Target(a)] = ses[a].row]
      BY <2>2 DEF SaveForm
    <3>2. ses'[a] = Idle
      BY <3>1 DEF Changed
    <3>3. ses[a].offering = {o} /\ offerings'[o] = ses[a].row
      BY <1>1, <3>1, TargetIsInHand DEF IInv, TypeOK, Sessions
    <3>4. CASE ~ses[a].stale
      <4>1. CleanStatus(offerings[o].status, ses[a].row.status)
        BY <1>1, <3>1, <3>3, <3>4 DEF IInv, IsClean, Sessions
      <4> QED
        BY <1>1, <3>3, <4>1 DEF CleanStatus
    <3> QED
      BY <3>1, <3>2, <3>4
  <2>3. CASE Delete(a)
    <3>1. \/ UNCHANGED offerings
          \/ offerings' = [offerings EXCEPT ![Target(a)] = NoOffering]
      BY <2>3 DEF Delete
    <3> QED
      BY <1>1, <3>1 DEF IInv, TypeOK
  <2> QED
    BY <2>1, <2>2, <2>3
<1>2. IInv /\ [Next]_vars =>
        [\A o \in OfferingIds :
           Exists(o) /\ offerings'[o] # NoOffering
             /\ offerings'[o].status # offerings[o].status =>
           \/ offerings'[o].status \in StatusPipeline[offerings[o].status]
           \/ \E a \in Admins : ses[a].pc = "save" /\ ses'[a] = Idle /\ ses[a].stale]_vars
  BY <1>1
<1> QED
  BY <1>2, InductiveInvariant, PTL DEF Spec, StatusFollowsPipeline

(* Campaigns that are active at one time nest, but for forms checked       *)
(* before another one was saved (forms.py, clean_date_end).                *)
THEOREM CampaignsNest == Spec => ActiveOfferingsNest
<1>1. ASSUME IInv, NEW a \in Admins, ses[a].pc = "save", ~ses[a].stale,
             NEW p \in OfferingIds \ ses[a].offering,
             Overlap(ses[a].row, offerings[p])
      PROVE  IsAround(ses[a].row, offerings[p])
  <2>1. PICK o \in OfferingIds : ses[a].offering = {o}
    BY <1>1 DEF IInv, Aims, Sessions
  <2>2. ses[a].row \in Offering /\ CleanDateEnd(o, ses[a].row)
    BY <1>1, <2>1 DEF IInv, IsClean, Sessions
  <2>3. offerings[p] \in Offering
    BY <1>1 DEF IInv, TypeOK, Overlap, NoOffering
  <2>4. /\ ~(offerings[p].start <= ses[a].row.start /\ ses[a].row.start < offerings[p].end)
        /\ ~(offerings[p].start <= ses[a].row.end /\ ses[a].row.end < offerings[p].end)
    BY <1>1, <2>1, <2>2 DEF CleanDateEnd, Overlap
  <2>5. /\ ses[a].row.start \in Int /\ ses[a].row.end \in Int
        /\ offerings[p].start \in Int /\ offerings[p].end \in Int
    BY <2>2, <2>3, Types DEF Offering
  <2> QED
    BY <1>1, <2>4, <2>5 DEF Overlap, IsAround
<1>2. IInv /\ [Next]_vars =>
        [\A a \in Admins :
           ses[a].pc = "save" /\ ses'[a] = Idle /\ ~ses[a].stale =>
             \A o \in OfferingIds \ ses[a].offering :
               Overlap(ses[a].row, offerings[o]) => IsAround(ses[a].row, offerings[o])]_vars
  BY <1>1
<1> QED
  BY <1>2, InductiveInvariant, PTL DEF Spec, ActiveOfferingsNest

(* An application is not accepted before its offering has started          *)
(* (views.py, the queryset of CreateInvestmentApplicationAPIView).         *)
THEOREM AcceptedAfterTheStart == Spec => AcceptedAfterStart
<1>1. ASSUME IInv, [Next]_vars, NEW w \in Web, Accepts(w)
      PROVE  ses'[w].row.start <= now
  <2>1. /\ ses[w].pc = "idle" /\ ses'[w].pc = "apply"
        /\ w \in Sessions /\ ses \in [Sessions -> Session]
    BY <1>1 DEF Accepts, Sessions, IInv, TypeOK
  <2>2. ~UNCHANGED ses
    BY <2>1
  <2>3. ASSUME NEW s \in Sessions PROVE ~End(s) /\ ~Changed(s)
    BY <2>1 DEF End, Changed, Idle, Sessions
  <2>4. ASSUME NEW s \in Sessions, NEW next, Begin(s, next)
        PROVE  next.pc = "apply" /\ s = w /\ ses'[w] = next
    BY <2>1, <2>4 DEF Begin
  <2>5. ASSUME NEW a \in Admins PROVE ~PostForm(a) /\ ~PostDelete(a)
    <3>1. ASSUME PostForm(a) PROVE FALSE
      <4>1. PICK o \in OfferingIds, row \in Offering :
              Begin(a, [Idle EXCEPT !.pc = "save", !.offering = {o}, !.row = row])
        BY <3>1, Zenon DEF PostForm
      <4>2. [Idle EXCEPT !.pc = "save", !.offering = {o}, !.row = row].pc = "save"
        BY DEF Idle
      <4> QED
        BY <2>4, <4>1, <4>2 DEF Sessions
    <3>2. ASSUME PostDelete(a) PROVE FALSE
      <4>1. PICK o \in OfferingIds :
              Begin(a, [Idle EXCEPT !.pc = "delete", !.offering = {o}])
        BY <3>2, Zenon DEF PostDelete
      <4>2. [Idle EXCEPT !.pc = "delete", !.offering = {o}].pc = "delete"
        BY DEF Idle
      <4> QED
        BY <2>4, <4>1, <4>2 DEF Sessions
    <3> QED
      BY <3>1, <3>2
  <2>6. ASSUME NEW v \in Web PROVE ~BeginSubscription(v)
    <3>1. SUFFICES ASSUME BeginSubscription(v) PROVE FALSE
      OBVIOUS
    <3>2. PICK o \in OfferingIds, u \in Users :
            Begin(v, [Idle EXCEPT !.pc = "subscribe", !.user = {u}, !.offering = {o}])
      BY <3>1, Zenon DEF BeginSubscription
    <3>3. [Idle EXCEPT !.pc = "subscribe", !.user = {u}, !.offering = {o}].pc = "subscribe"
      BY DEF Idle
    <3> QED
      BY <2>4, <3>2, <3>3 DEF Sessions
  <2>7. PICK v \in Web : BeginApplication(v)
    <3>1. Next
      BY <1>1, <2>2 DEF vars
    <3>2. ~Sign /\ ~Tick
      BY <2>2 DEF Sign, Tick
    <3>3. ASSUME NEW a \in Admins PROVE ~SaveForm(a) /\ ~Delete(a)
      BY <2>3 DEF SaveForm, Delete, Sessions
    <3>4. ASSUME NEW v \in Web PROVE ~Subscribe(v) /\ ~Apply(v) /\ ~Restart(v)
      BY <2>3 DEF Subscribe, Apply, Restart, Sessions
    <3> QED
      BY <2>5, <2>6, <3>1, <3>2, <3>3, <3>4 DEF Next
  <2>8. PICK o \in OfferingIds, u \in Users :
          /\ Active(o, boot[v])
          /\ Begin(v, [Idle EXCEPT !.pc = "apply", !.user = {u}, !.offering = {o},
                                   !.row = offerings[o]])
    BY <2>7, Zenon DEF BeginApplication
  <2>9. v = w /\ ses'[w].row = offerings[o]
    <3> DEFINE next == [Idle EXCEPT !.pc = "apply", !.user = {u}, !.offering = {o},
                                    !.row = offerings[o]]
    <3>1. next.row = offerings[o]
      BY DEF Idle
    <3> HIDE DEF next
    <3> QED
      BY <2>4, <2>8, <3>1 DEF next, Sessions
  <2>10. offerings[o].start <= boot[w] /\ boot[w] <= now
    BY <1>1, <2>8, <2>9 DEF Active, IInv, BootIsPast
  <2>11. offerings[o].start \in Int /\ boot[w] \in Int /\ now \in Int
    BY <1>1, <2>8, Types DEF IInv, TypeOK, Active, NoOffering, Offering
  <2> QED
    BY <2>9, <2>10, <2>11
<1>2. IInv /\ [Next]_vars => [\A w \in Web : Accepts(w) => ses'[w].row.start <= now]_vars
  BY <1>1
<1> QED
  BY <1>2, InductiveInvariant, PTL DEF Spec, AcceptedAfterStart
=============================================================================
