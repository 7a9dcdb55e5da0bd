------------------------------ MODULE Offerings -----------------------------
(***************************************************************************)
(* The offerings of one company: the office adds, edits and deletes them,  *)
(* users subscribe to their waiting lists and apply to invest in them.     *)
(*                                                                         *)
(* A step is one statement or one transaction on the database; save()      *)
(* writes every column of a row.  What happens to an application after it  *)
(* was made is the matter of Investment.  The security, the round and the  *)
(* personal agreements of an offering are left out.                        *)
(***************************************************************************)
EXTENDS Integers, Sequences

CONSTANTS
  OfferingIds, Users,
  Web, Admins,       \* processes of the API and sessions of the admin site
  Terms,             \* the money terms that forms are filled in with
  MaxTime,           \* bound of the clock
  MaxRows,           \* bounds the applications ever made
  MaxForms           \* bounds the forms the office ever posts

ASSUME BoundsAreNat == {MaxTime, MaxRows, MaxForms} \subseteq Nat
ASSUME TermsAreMoney ==
  \A t \in Terms : /\ {t.min, t.max, t.goal, t.valuation, t.shares, t.price} \subseteq Nat
                   /\ t.valuation > 0

VARIABLES
  offerings,      \* the Offering table
  subscriptions,  \* the InvestmentSubscription table: pairs of a user and an offering
  applications,   \* the InvestmentApplication table, in the order of creation
  ses,            \* what each process or session is doing
  boot,           \* when each process of the API was started
  forms,
  now

vars == <<offerings, subscriptions, applications, ses, boot, forms, now>>

OfferingStatuses == {"draft", "waitlist", "active", "clearing", "completed", "canceled"}
StatusPipeline ==
  [draft |-> {"waitlist"}, waitlist |-> {"active"}, active |-> {"waitlist", "clearing"},
   clearing |-> {"active", "canceled"}, completed |-> {}, canceled |-> {}]

Times == 0..MaxTime
Offering == [status : OfferingStatuses, start : Times, end : Times, terms : Terms]
NoOffering == [status |-> "none"]
Exists(o) == offerings[o] # NoOffering

Application == [user : Users, offering : OfferingIds, signed : BOOLEAN]

PCs == {"idle", "subscribe", "apply", "save", "delete"}
Session == [pc : PCs, user : SUBSET Users, offering : SUBSET OfferingIds,
            row : Offering \union {NoOffering}, stale : BOOLEAN]
Idle == [pc |-> "idle", user |-> {}, offering |-> {}, row |-> NoOffering,
         stale |-> FALSE]

TypeOK ==
  /\ offerings \in [OfferingIds -> Offering \union {NoOffering}]
  /\ \A o \in OfferingIds : Exists(o) => offerings[o].start < offerings[o].end
  /\ subscriptions \subseteq Users \X OfferingIds
  /\ applications \in Seq(Application) /\ Len(applications) <= MaxRows
  /\ ses \in [Web \union Admins -> Session]
  /\ boot \in [Web -> Times]
  /\ forms \in 0..MaxForms /\ now \in Times

Init ==
  /\ offerings = [o \in OfferingIds |-> NoOffering]
  /\ subscriptions = {}
  /\ applications = <<>>
  /\ ses = [s \in Web \union Admins |-> Idle]
  /\ boot = [w \in Web |-> 0]
  /\ forms = 0
  /\ now = 0

Begin(s, next) == ses[s].pc = "idle" /\ ses' = [ses EXCEPT ![s] = next]
End(s) == ses' = [ses EXCEPT ![s] = Idle]
Target(s) == CHOOSE o \in ses[s].offering : TRUE
User(s) == CHOOSE u \in ses[s].user : TRUE

-----------------------------------------------------------------------------
(* The form of the office.                                                 *)

(* A number that is 0 stands for a field that is empty.                    *)
CleanPrice(t) ==
  /\ (t.shares = 0) = (t.price = 0)
  /\ t.price # 0 => t.shares * t.price = t.goal
CleanLimitMaxAmount(t) == t.max # 0 => t.max > t.min
CleanGoal(t) == t.goal <= t.valuation
CleanTerms(t) == CleanPrice(t) /\ CleanLimitMaxAmount(t) /\ CleanGoal(t)

(* Variant: any status may follow any other.                               *)
CleanStatusAny(old, status) == TRUE

CleanStatus(old, status) == status = old \/ status \in StatusPipeline[old]

(* Variant: only the deadline is looked for in other campaigns.            *)
CleanDateEndOnly(o, row) ==
  /\ row.start < row.end
  /\ row.status = "active" =>
       ~\E p \in OfferingIds \ {o} :
          /\ offerings[p].status = "active"
          /\ offerings[p].start <= row.end /\ row.end < offerings[p].end

(* Variant: a deadline may come before the start.                          *)
CleanDateEndUnordered(o, row) ==
  row.status = "active" =>
    ~\E p \in OfferingIds \ {o}, t \in {row.start, row.end} :
       /\ offerings[p].status = "active"
       /\ offerings[p].start <= t /\ t < offerings[p].end

(* The deadline is after the start, and neither is within another active   *)
(* campaign of the company, if this one is to be active.                   *)
CleanDateEnd(o, row) ==
  /\ row.start < row.end
  /\ row.status = "active" =>
       ~\E p \in OfferingIds \ {o}, t \in {row.start, row.end} :
          /\ offerings[p].status = "active"
          /\ offerings[p].start <= t /\ t < offerings[p].end

(* A form that is posted is checked against the rows as they are; a new    *)
(* offering is a draft to begin with.                                      *)
PostForm(a) ==
  \E o \in OfferingIds, row \in Offering :
    LET old == IF Exists(o) THEN offerings[o].status ELSE "draft"
    IN /\ forms < MaxForms /\ forms' = forms + 1
       /\ CleanStatus(old, row.status)
       /\ CleanTerms(row.terms)
       /\ CleanDateEnd(o, row)
       /\ Begin(a, [Idle EXCEPT !.pc = "save", !.offering = {o}, !.row = row])
       /\ UNCHANGED <<offerings, subscriptions, applications, boot, now>>

(* Others that have checked a form have done so against what is no more.   *)
Changed(a) ==
  ses' = [s \in Web \union Admins |->
            IF s = a THEN Idle
            ELSE IF ses[s].pc = "idle" THEN ses[s] ELSE [ses[s] EXCEPT !.stale = TRUE]]

SaveForm(a) ==
  /\ ses[a].pc = "save"
  /\ offerings' = [offerings EXCEPT ![Target(a)] = ses[a].row]
  /\ Changed(a)
  /\ UNCHANGED <<subscriptions, applications, boot, forms, now>>

Applied(o) == \E i \in DOMAIN applications : applications[i].offering = o

(* An offering with applications, drafts among them, is protected.         *)
PostDelete(a) ==
  \E o \in OfferingIds :
    /\ forms < MaxForms /\ forms' = forms + 1
    /\ Exists(o) /\ ~Applied(o)
    /\ Begin(a, [Idle EXCEPT !.pc = "delete", !.offering = {o}])
    /\ UNCHANGED <<offerings, subscriptions, applications, boot, now>>

(* Variant: the database does not look for rows that refer to this one.    *)
DeleteAnyway(a) ==
  /\ ses[a].pc = "delete"
  /\ offerings' = [offerings EXCEPT ![Target(a)] = NoOffering]
  /\ subscriptions' = {x \in subscriptions : x[2] # Target(a)}
  /\ Changed(a)
  /\ UNCHANGED <<applications, boot, forms, now>>

(* Its subscriptions go with it; the database refuses to leave an          *)
(* application without its offering.                                       *)
Delete(a) ==
  /\ ses[a].pc = "delete"
  /\ IF Applied(Target(a))
       THEN End(a) /\ UNCHANGED <<offerings, subscriptions>>
       ELSE /\ offerings' = [offerings EXCEPT ![Target(a)] = NoOffering]
            /\ subscriptions' = {x \in subscriptions : x[2] # Target(a)}
            /\ Changed(a)
  /\ UNCHANGED <<applications, boot, forms, now>>

-----------------------------------------------------------------------------
(* Users.                                                                  *)

(* The offering is on its waiting list and the user is not.                *)
BeginSubscription(w) ==
  \E o \in OfferingIds, u \in Users :
    /\ offerings[o].status = "waitlist"
    /\ <<u, o>> \notin subscriptions
    /\ Begin(w, [Idle EXCEPT !.pc = "subscribe", !.user = {u}, !.offering = {o}])
    /\ UNCHANGED <<offerings, subscriptions, applications, boot, forms, now>>

(* A second subscription, or one to an offering that is gone, is refused.  *)
Subscribe(w) ==
  /\ ses[w].pc = "subscribe"
  /\ subscriptions' = IF Exists(Target(w)) THEN subscriptions \union {<<User(w), Target(w)>>}
                                           ELSE subscriptions
  /\ End(w)
  /\ UNCHANGED <<offerings, applications, boot, forms, now>>

(* OfferingQuerySet.active(): now is the time the queryset was made.       *)
Active(o, at) ==
  offerings[o].status = "active" /\ offerings[o].start <= at /\ at < offerings[o].end

(* Variant: offerings are open before they start.                          *)
BeginApplicationEarly(w) ==
  \E o \in OfferingIds, u \in Users :
    /\ offerings[o].status = "active" /\ boot[w] < offerings[o].end
    /\ Begin(w, [Idle EXCEPT !.pc = "apply", !.user = {u}, !.offering = {o},
                             !.row = offerings[o]])
    /\ UNCHANGED <<offerings, subscriptions, applications, boot, forms, now>>

(* The view's queryset was made when the process was started.  The user    *)
(* has not applied yet, but for drafts; the limits of the amount are not   *)
(* looked at.                                                              *)
BeginApplication(w) ==
  \E o \in OfferingIds, u \in Users :
    /\ Active(o, boot[w])
    /\ ~\E i \in DOMAIN applications :
         applications[i].signed /\ applications[i].user = u /\ applications[i].offering = o
    /\ Begin(w, [Idle EXCEPT !.pc = "apply", !.user = {u}, !.offering = {o},
                             !.row = offerings[o]])
    /\ UNCHANGED <<offerings, subscriptions, applications, boot, forms, now>>

(* The row of the application, unless its offering is gone.                *)
Apply(w) ==
  /\ ses[w].pc = "apply"
  /\ IF Exists(Target(w))
       THEN /\ Len(applications) < MaxRows
            /\ applications' = Append(applications, [user |-> User(w), offering |-> Target(w),
                                                     signed |-> FALSE])
       ELSE UNCHANGED applications
  /\ End(w)
  /\ UNCHANGED <<offerings, subscriptions, boot, forms, now>>

(* finish_signing() of an active offering, and what Investment has follow. *)
Sign ==
  \E i \in DOMAIN applications :
    /\ ~applications[i].signed
    /\ offerings[applications[i].offering].status = "active"
    /\ applications' = [applications EXCEPT ![i].signed = TRUE]
    /\ UNCHANGED <<offerings, subscriptions, ses, boot, forms, now>>

Restart(w) ==
  /\ boot[w] # now
  /\ boot' = [boot EXCEPT ![w] = now]
  /\ End(w)
  /\ UNCHANGED <<offerings, subscriptions, applications, forms, now>>

Tick ==
  /\ now < MaxTime
  /\ now' = now + 1
  /\ UNCHANGED <<offerings, subscriptions, applications, ses, boot, forms>>

Next ==
  \/ \E a \in Admins : PostForm(a) \/ SaveForm(a) \/ PostDelete(a) \/ Delete(a)
  \/ \E w \in Web : \/ BeginSubscription(w) \/ Subscribe(w)
                    \/ BeginApplication(w) \/ Apply(w) \/ Restart(w)
  \/ Sign
  \/ Tick

Spec == Init /\ [][Next]_vars

-----------------------------------------------------------------------------
(* A status changes to one that may follow it, or by a form that was       *)
(* checked before another one was saved (forms.py, clean_status).          *)
StatusFollowsPipeline ==
  [][\A o \in OfferingIds :
       Exists(o) /\ offerings'[o] # NoOffering /\ offerings'[o].status # offerings[o].status =>
         \/ offerings'[o].status \in StatusPipeline[offerings[o].status]
         \/ \E a \in Admins : ses[a].pc = "save" /\ ses'[a] = Idle /\ ses[a].stale]_vars

(* Two campaigns of a company that are active at one time lie one around   *)
(* the other, which the form does not look for, unless the later one was   *)
(* checked before another form was saved (forms.py, clean_date_end).       *)
Overlap(x, y) == x.status = "active" /\ y.status = "active" /\ x.start < y.end /\ y.start < x.end
IsAround(x, y) == x.start < y.start /\ y.end <= x.end
ActiveOfferingsNest ==
  [][\A a \in Admins :
       ses[a].pc = "save" /\ ses'[a] = Idle /\ ~ses[a].stale =>
         \A o \in OfferingIds \ ses[a].offering :
           Overlap(ses[a].row, offerings[o]) => IsAround(ses[a].row, offerings[o])]_vars

(* An application that is made, and a subscription, is one to an offering  *)
(* that is there, however its deletion interleaves with requests.          *)
RowsHaveOffering ==
  /\ \A i \in DOMAIN applications : Exists(applications[i].offering)
  /\ \A x \in subscriptions : Exists(x[2])

(* No application is accepted before its offering has started, although a  *)
(* process compares with the time it was started itself (views.py, 136).   *)
Accepts(w) == ses[w].pc = "idle" /\ ses'[w].pc = "apply"
AcceptedAfterStart == [][\A w \in Web : Accepts(w) => ses'[w].row.start <= now]_vars

(* No application is accepted after the deadline of its offering: what     *)
(* test_application_inactive says (test_application.py).                   *)
AcceptedBeforeDeadline == [][\A w \in Web : Accepts(w) => now < ses'[w].row.end]_vars
=============================================================================
