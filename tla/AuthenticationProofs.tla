------------------------- MODULE AuthenticationProofs -------------------------
(***************************************************************************)
(* Proofs about Authentication, for any passwords, any finite set of       *)
(* sessions of the API, any sessions of the office, and any settings; what *)
(* is said of the limits of mails, for settings that make sense            *)
(* (SaneLimits).                                                           *)
(***************************************************************************)
EXTENDS Authentication, SumTheorems, SequenceTheorems, FiniteSetTheorems, TLAPS

-----------------------------------------------------------------------------
(* The inductive invariant.                                                *)

Sessions == Web \union Office

(* A key that was mailed to confirm the email has come back, or an admin   *)
(* has confirmed it: no row, and no copy of it, says more.                 *)
Mailed == \E i \in DOMAIN tokens : tokens[i].kind = "email" /\ tokens[i].checked
Good(row) == row.confirmed => byAdmin \/ Mailed

SessionIsGood(x) ==
  /\ x.pc \in {"mark", "mark_activation", "make_key", "mark_reset", "save_reset"} =>
       x.token \in DOMAIN tokens
  /\ x.pc = "mark" => tokens[x.token].kind = "email"
  /\ x.pc \in {"mark_activation", "make_key"} => tokens[x.token].kind = "activate"
  /\ x.pc = "save_confirmed" => x.row \in User /\ Mailed
  /\ x.pc = "save_user" => x.row \in User
  /\ x.pc \in {"create", "save_password", "mark_reset", "save_reset"} => x.password \in Passwords
  /\ Good(x.row)

(* The requests that have found a key unchecked and may still spend it.    *)
Spends(x, i) == x.pc \in {"mark_activation", "mark_reset", "save_reset"} /\ x.token = i
Spenders(i) == {s \in Web : Spends(ses[s], i)}

KeyIsSpentOnce(i) ==
  /\ tokens[i].used > 0 => tokens[i].checked
  /\ tokens[i].used + Cardinality(Spenders(i)) <= Cardinality(Web)

IInv ==
  /\ TypeOK
  /\ Good(user)
  /\ \A s \in Sessions : SessionIsGood(ses[s])
  /\ \A i \in DOMAIN tokens : KeyIsSpentOnce(i)

-----------------------------------------------------------------------------
USE DEF Sessions

LEMMA RowsHaveType ==
  /\ NoUser \notin User /\ Idle \in Session
  /\ ~NoUser.confirmed /\ ~NoUser.active
  /\ Idle.pc = "idle" /\ Idle.row = NoUser
BY NoneIsNoPassword, SettingsAreNat DEF NoUser, User, Idle, Session, PCs

LEMMA TokensHaveType ==
  ASSUME TypeOK
  PROVE  /\ Len(tokens) \in 0..MaxTokens /\ DOMAIN tokens = 1..Len(tokens)
         /\ \A i \in DOMAIN tokens : tokens[i] \in Token /\ tokens[i].used \in Nat
<1>1. tokens \in Seq(Token) /\ Len(tokens) <= MaxTokens /\ MaxTokens \in Nat
  BY SettingsAreNat DEF TypeOK
<1>2. Len(tokens) \in Nat /\ DOMAIN tokens = 1..Len(tokens)
  BY <1>1, LenProperties
<1>3. ASSUME NEW i \in DOMAIN tokens PROVE tokens[i] \in Token
  BY <1>1, <1>2, ElementOfSeq
<1> QED
  BY <1>1, <1>2, <1>3 DEF Token

LEMMA SpendersAreFew ==
  ASSUME NEW i
  PROVE  /\ IsFiniteSet(Spenders(i)) /\ Cardinality(Spenders(i)) \in Nat
         /\ Cardinality(Web) \in Nat /\ Cardinality(Spenders(i)) <= Cardinality(Web)
<1>1. Spenders(i) \subseteq Web
  BY DEF Spenders
<1> QED
  BY <1>1, WebIsFinite, FS_Subset, FS_CardinalityType

LEMMA InitInvariant == Init => IInv
<1> SUFFICES ASSUME Init PROVE IInv
  OBVIOUS
<1>1. tokens \in Seq(Token) /\ Len(tokens) = 0 /\ DOMAIN tokens = {}
  BY EmptySeq, LenProperties DEF Init
<1>2. TypeOK
  <2>1. 0 \in 0..MaxTime /\ Len(tokens) <= MaxTokens
    BY <1>1, SettingsAreNat
  <2>2. ses \in [Web \union Office -> Session]
    BY RowsHaveType DEF Init
  <2> QED
    BY <1>1, <2>1, <2>2 DEF Init, TypeOK
<1>3. \A s \in Sessions : SessionIsGood(ses[s])
  BY RowsHaveType DEF Init, SessionIsGood, Good
<1> QED
  BY <1>1, <1>2, <1>3, RowsHaveType DEF Init, IInv, Good

-----------------------------------------------------------------------------
(* Tokens keep their kind and key, and stay checked.                       *)
TokensGrow ==
  \A i \in DOMAIN tokens :
    /\ i \in DOMAIN tokens' /\ tokens'[i].kind = tokens[i].kind
    /\ tokens[i].checked => tokens'[i].checked

LEMMA GoodStays ==
  ASSUME TokensGrow, byAdmin => byAdmin', NEW row, Good(row)
  PROVE  Good(row)' /\ (Mailed => Mailed')
<1>1. Mailed => Mailed'
  BY DEF TokensGrow, Mailed
<1> QED
  BY <1>1 DEF Good

LEMMA SessionStays ==
  ASSUME TokensGrow, byAdmin => byAdmin', NEW x \in Session, SessionIsGood(x)
  PROVE  SessionIsGood(x)'
BY GoodStays DEF SessionIsGood, TokensGrow

(* No step lets a key be spent more often: a session takes a key only when *)
(* it is unchecked, and who spends it checks it.                           *)
KeyStep(i, s, x) ==
  \/ tokens'[i].used = 0
  \/ /\ i \in DOMAIN tokens /\ tokens'[i].used = tokens[i].used
     /\ tokens[i].checked => tokens'[i].checked
     /\ Spends(x, i) => Spends(ses[s], i)
  \/ /\ i \in DOMAIN tokens /\ s \in Web
     /\ Spends(ses[s], i) /\ ~Spends(x, i)
     /\ tokens'[i].used = tokens[i].used + 1 /\ tokens'[i].checked

LEMMA KeysStaySpentOnce ==
  ASSUME IInv, TypeOK', NEW s \in Sessions, NEW x \in Session, ses' = [ses EXCEPT ![s] = x],
         NEW i \in DOMAIN tokens', KeyStep(i, s, x)
  PROVE  KeyIsSpentOnce(i)'
<1>1. /\ Spenders(i)' = {r \in Web : Spends(IF r = s THEN x ELSE ses[r], i)}
      /\ Spenders(i) = {r \in Web : Spends(ses[r], i)}
  BY DEF Spenders, Spends, IInv, TypeOK
<1>2. /\ IsFiniteSet(Spenders(i)) /\ Cardinality(Spenders(i)) \in Nat
      /\ Cardinality(Web) \in Nat
  BY SpendersAreFew
<1>3. /\ IsFiniteSet(Spenders(i)') /\ Cardinality(Spenders(i)') \in Nat
      /\ Cardinality(Spenders(i)') <= Cardinality(Web)
  <2>1. Spenders(i)' \subseteq Web
    BY DEF Spenders
  <2> QED
    BY <2>1, WebIsFinite, FS_Subset, FS_CardinalityType
<1>4. CASE tokens'[i].used = 0
  BY <1>3, <1>4 DEF KeyIsSpentOnce
<1>5. ASSUME i \in DOMAIN tokens, tokens'[i].used = tokens[i].used,
             tokens[i].checked => tokens'[i].checked, Spends(x, i) => Spends(ses[s], i)
      PROVE  KeyIsSpentOnce(i)'
  <2>1. Spenders(i)' \subseteq Spenders(i)
    BY <1>1, <1>5
  <2>2. Cardinality(Spenders(i)') <= Cardinality(Spenders(i))
    BY <1>2, <2>1, FS_Subset
  <2>3. KeyIsSpentOnce(i) /\ tokens[i].used \in Nat
    BY <1>5, TokensHaveType DEF IInv
  <2> QED
    BY <1>2, <1>3, <1>5, <2>2, <2>3 DEF KeyIsSpentOnce
<1>6. ASSUME i \in DOMAIN tokens, s \in Web, Spends(ses[s], i), ~Spends(x, i),
             tokens'[i].used = tokens[i].used + 1, tokens'[i].checked
      PROVE  KeyIsSpentOnce(i)'
  <2>1. Spenders(i)' = Spenders(i) \ {s} /\ s \in Spenders(i)
    BY <1>1, <1>6
  <2>2. Cardinality(Spenders(i)') = Cardinality(Spenders(i)) - 1
    BY <1>2, <2>1, FS_RemoveElement
  <2>3. KeyIsSpentOnce(i) /\ tokens[i].used \in Nat
    BY <1>6, TokensHaveType DEF IInv
  <2> QED
    BY <1>2, <1>3, <1>6, <2>2, <2>3 DEF KeyIsSpentOnce
<1> QED
  BY <1>4, <1>5, <1>6 DEF KeyStep

TokensOK ==
  /\ tokens \in Seq(Token) /\ Len(tokens) <= MaxTokens
  /\ \A i \in DOMAIN tokens :
       /\ tokens[i].key \in DOMAIN tokens
       /\ IF tokens[i].kind = "complete" THEN tokens[tokens[i].key].kind = "activate"
                                         ELSE tokens[i].key = i

(* The shape of a step of a session.                                       *)
LEMMA SessionMoves ==
  ASSUME IInv, NEW s \in Sessions, NEW x \in Session, ses' = [ses EXCEPT ![s] = x],
         TokensOK', TokensGrow, SessionIsGood(x)',
         user' \in User \union {NoUser}, Good(user)',
         byAdmin' \in BOOLEAN, byAdmin => byAdmin', UNCHANGED now,
         \A i \in DOMAIN tokens' : KeyStep(i, s, x)
  PROVE  IInv'
<1>1. /\ ses' \in [Web \union Office -> Session] /\ ses'[s] = x
      /\ \A r \in Sessions : r # s => ses'[r] = ses[r]
  BY DEF IInv, TypeOK
<1>2. TypeOK'
  BY <1>1 DEF IInv, TypeOK, TokensOK
<1>3. ASSUME NEW r \in Sessions PROVE SessionIsGood(ses[r])'
  <2>1. CASE r = s
    BY <1>1, <2>1 DEF SessionIsGood, Good, Mailed
  <2>2. CASE r # s
    <3>1. PICK y \in Session : y = ses[r]
      BY DEF IInv, TypeOK
    <3>2. SessionIsGood(y)'
      BY <3>1, SessionStays DEF IInv
    <3> QED
      BY <1>1, <2>2, <3>1, <3>2 DEF SessionIsGood, Good, Mailed
  <2> QED
    BY <2>1, <2>2
<1>4. \A i \in DOMAIN tokens' : KeyIsSpentOnce(i)'
  BY <1>2, KeysStaySpentOnce
<1> QED
  BY <1>2, <1>3, <1>4 DEF IInv

(* Most steps leave the tokens alone, and do not take a key.               *)
LEMMA SessionWrites ==
  ASSUME IInv, NEW s \in Sessions, NEW x \in Session, ses' = [ses EXCEPT ![s] = x],
         UNCHANGED <<tokens, now>>, SessionIsGood(x)',
         user' \in User \union {NoUser}, Good(user)',
         byAdmin' \in BOOLEAN, byAdmin => byAdmin',
         \A i \in DOMAIN tokens : Spends(x, i) => Spends(ses[s], i) \/ ~tokens[i].checked
  PROVE  IInv'
<1>1. TokensOK' /\ TokensGrow
  BY DEF IInv, TypeOK, TokensOK, TokensGrow
<1>2. ASSUME NEW i \in DOMAIN tokens PROVE KeyStep(i, s, x)
  <2>1. KeyIsSpentOnce(i) /\ tokens[i].used \in Nat
    BY TokensHaveType DEF IInv
  <2> QED
    BY <2>1 DEF KeyStep, KeyIsSpentOnce
<1> QED
  BY <1>1, <1>2, SessionMoves

LEMMA SessionReads ==
  ASSUME IInv, NEW s \in Sessions, NEW x \in Session, ses' = [ses EXCEPT ![s] = x],
         UNCHANGED <<user, tokens, byAdmin, now>>, SessionIsGood(x),
         \A i \in DOMAIN tokens : Spends(x, i) => Spends(ses[s], i) \/ ~tokens[i].checked
  PROVE  IInv'
<1>1. SessionIsGood(x)' /\ Good(user)'
  BY DEF SessionIsGood, Good, Mailed, IInv
<1> QED
  BY <1>1, SessionWrites DEF IInv, TypeOK

-----------------------------------------------------------------------------
(* The steps that read.                                                    *)

LEMMA ReadsKeep ==
  ASSUME IInv, NEW s \in Sessions,
         \/ BeginRegistration(s) \/ AskLimiter(s) \/ ResendConfirmation(s) \/ VerifyEmail(s)
         \/ ChangePassword(s) \/ RequestReset(s) \/ ActivateReset(s) \/ CompleteReset(s)
         \/ OpenUser(s)
  PROVE  IInv'
<1>1. /\ ses[s] \in Session /\ SessionIsGood(ses[s]) /\ Good(user)
      /\ user \in User \union {NoUser}
      /\ \A i \in DOMAIN tokens : i \in 0..MaxTokens
  <2>1. /\ ses[s] \in Session /\ SessionIsGood(ses[s]) /\ Good(user)
        /\ user \in User \union {NoUser}
    BY DEF IInv, TypeOK
  <2>2. /\ Len(tokens) \in 0..MaxTokens /\ DOMAIN tokens = 1..Len(tokens)
        /\ MaxTokens \in Nat
    BY TokensHaveType, SettingsAreNat DEF IInv
  <2> QED
    BY <2>1, <2>2
<1>2. CASE BeginRegistration(s)
  <2>1. PICK p \in Passwords :
          /\ ses' = [ses EXCEPT ![s] = [Idle EXCEPT !.pc = "create", !.password = p]]
          /\ UNCHANGED <<user, tokens, byAdmin, now>>
    BY <1>2 DEF BeginRegistration, Begin
  <2> DEFINE x == [Idle EXCEPT !.pc = "create", !.password = p]
  <2>2. x \in Session /\ x.pc = "create" /\ x.password = p /\ x.row = NoUser
    BY RowsHaveType DEF Session, PCs
  <2>3. SessionIsGood(x) /\ \A i : ~Spends(x, i)
    BY <2>2, RowsHaveType DEF SessionIsGood, Good, Spends
  <2> HIDE DEF x
  <2> QED
    BY <2>1, <2>2, <2>3, SessionReads DEF x
<1>3. CASE AskLimiter(s)
  <2>1. PICK pc \in {"idle", "mail"} :
          /\ ses' = [ses EXCEPT ![s].pc = pc]
          /\ UNCHANGED <<user, tokens, byAdmin, now>>
    BY <1>3 DEF AskLimiter
  <2> DEFINE x == [ses[s] EXCEPT !.pc = pc]
  <2>2. x \in Session /\ x.pc = pc /\ x.row = ses[s].row
    BY <1>1 DEF Session, PCs
  <2>3. SessionIsGood(x) /\ \A i : ~Spends(x, i)
    BY <1>1, <2>2 DEF SessionIsGood, Spends
  <2>4. ses' = [ses EXCEPT ![s] = x]
    BY <2>1
  <2> HIDE DEF x
  <2> QED
    BY <2>1, <2>2, <2>3, <2>4, SessionReads
<1>4. CASE ResendConfirmation(s) \/ RequestReset(s)
  <2>1. PICK pc \in {"mail", "mail_reset"} :
          /\ ses' = [ses EXCEPT ![s] = [Idle EXCEPT !.pc = pc]]
          /\ UNCHANGED <<user, tokens, byAdmin, now>>
    BY <1>4 DEF ResendConfirmation, RequestReset, Begin
  <2> DEFINE x == [Idle EXCEPT !.pc = pc]
  <2>2. x \in Session /\ x.pc = pc /\ x.row = NoUser
    BY RowsHaveType DEF Session, PCs
  <2>3. SessionIsGood(x) /\ \A i : ~Spends(x, i)
    BY <2>2, RowsHaveType DEF SessionIsGood, Good, Spends
  <2> HIDE DEF x
  <2> QED
    BY <2>1, <2>2, <2>3, SessionReads DEF x
<1>5. CASE VerifyEmail(s) \/ ActivateReset(s)
  <2>1. PICK i \in DOMAIN tokens, pc \in {"mark", "mark_activation"} :
          /\ ses' = [ses EXCEPT ![s] = [Idle EXCEPT !.pc = pc, !.token = i]]
          /\ UNCHANGED <<user, tokens, byAdmin, now>>
          /\ pc = "mark" => tokens[i].kind = "email"
          /\ pc = "mark_activation" => tokens[i].kind = "activate" /\ ~tokens[i].checked
    BY <1>5 DEF VerifyEmail, ActivateReset, Begin, Found
  <2> DEFINE x == [Idle EXCEPT !.pc = pc, !.token = i]
  <2>2. x \in Session /\ x.pc = pc /\ x.row = NoUser /\ x.token = i
    BY <1>1 DEF Idle, Session, PCs
  <2>3. SessionIsGood(x) /\ \A j : Spends(x, j) => ~tokens[j].checked
    BY <2>1, <2>2, RowsHaveType DEF SessionIsGood, Good, Spends
  <2> HIDE DEF x
  <2> QED
    BY <2>1, <2>2, <2>3, SessionReads DEF x
<1>6. CASE ChangePassword(s)
  <2>1. PICK p \in Passwords :
          /\ ses' = [ses EXCEPT ![s] = [Idle EXCEPT !.pc = "save_password", !.row = user,
                                                    !.password = p]]
          /\ UNCHANGED <<user, tokens, byAdmin, now>>
    BY <1>6 DEF ChangePassword, Begin
  <2> DEFINE x == [Idle EXCEPT !.pc = "save_password", !.row = user, !.password = p]
  <2>2. x \in Session /\ x.pc = "save_password" /\ x.password = p /\ x.row = user
    BY <1>1, RowsHaveType DEF Session, PCs
  <2>3. SessionIsGood(x) /\ \A i : ~Spends(x, i)
    BY <1>1, <2>2 DEF SessionIsGood, Spends
  <2> HIDE DEF x
  <2> QED
    BY <2>1, <2>2, <2>3, SessionReads DEF x
<1>7. CASE CompleteReset(s)
  <2>1. PICK i \in DOMAIN tokens, p \in Passwords :
          /\ ses' = [ses EXCEPT ![s] = [Idle EXCEPT !.pc = "mark_reset", !.token = i,
                                                    !.password = p]]
          /\ UNCHANGED <<user, tokens, byAdmin, now>>
          /\ ~tokens[i].checked
    BY <1>7 DEF CompleteReset, Begin
  <2> DEFINE x == [Idle EXCEPT !.pc = "mark_reset", !.token = i, !.password = p]
  <2>2. x \in Session /\ x.pc = "mark_reset" /\ x.row = NoUser /\ x.token = i /\ x.password = p
    BY <1>1 DEF Idle, Session, PCs
  <2>3. SessionIsGood(x) /\ \A j : Spends(x, j) => ~tokens[j].checked
    BY <2>1, <2>2, RowsHaveType DEF SessionIsGood, Good, Spends
  <2> HIDE DEF x
  <2> QED
    BY <2>1, <2>2, <2>3, SessionReads DEF x
<1>8. CASE OpenUser(s)
  <2>1. /\ ses' = [ses EXCEPT ![s] = [Idle EXCEPT !.pc = "save_user", !.row = user]]
        /\ UNCHANGED <<user, tokens, byAdmin, now>> /\ user # NoUser
    BY <1>8 DEF OpenUser, Begin, IsRegistered
  <2> DEFINE x == [Idle EXCEPT !.pc = "save_user", !.row = user]
  <2>2. x \in Session /\ x.pc = "save_user" /\ x.row = user
    BY <1>1, RowsHaveType DEF Session, PCs
  <2>3. SessionIsGood(x) /\ \A i : ~Spends(x, i)
    BY <1>1, <2>1, <2>2 DEF SessionIsGood, Spends
  <2> HIDE DEF x
  <2> QED
    BY <2>1, <2>2, <2>3, SessionReads DEF x
<1> QED
  BY <1>2, <1>3, <1>4, <1>5, <1>6, <1>7, <1>8

LEMMA MarkResetKeeps ==
  ASSUME IInv, NEW s \in Sessions, MarkReset(s)
  PROVE  IInv'
<1>1. /\ ses[s] \in Session /\ SessionIsGood(ses[s]) /\ Good(user)
      /\ user \in User \union {NoUser} /\ ses[s].pc = "mark_reset"
  BY DEF IInv, TypeOK, MarkReset
<1> DEFINE x == [ses[s] EXCEPT !.pc = "save_reset", !.row = user]
<1>2. /\ x \in Session /\ x.pc = "save_reset" /\ x.row = user /\ x.token = ses[s].token
      /\ x.password = ses[s].password
  BY <1>1 DEF Session, PCs
<1>3. SessionIsGood(x) /\ \A i : Spends(x, i) => Spends(ses[s], i)
  BY <1>1, <1>2 DEF SessionIsGood, Spends
<1>4. ses' = [ses EXCEPT ![s] = x] /\ UNCHANGED <<user, tokens, byAdmin, now>>
  BY DEF MarkReset
<1> HIDE DEF x
<1> QED
  BY <1>2, <1>3, <1>4, SessionReads

-----------------------------------------------------------------------------
(* The steps that write the user.                                          *)

LEMMA IdleIsGood == SessionIsGood(Idle) /\ SessionIsGood(Idle)' /\ \A i : ~Spends(Idle, i)
BY RowsHaveType DEF SessionIsGood, Good, Spends

(* A row that is saved with a password is one of a user.                   *)
LEMMA SavedRowsHaveType ==
  /\ \A row \in User \union {NoUser}, p \in Passwords :
       /\ [row EXCEPT !.password = p] \in User
       /\ [row EXCEPT !.password = p].confirmed = row.confirmed
  /\ \A row \in User, confirmed, active \in BOOLEAN :
       /\ [row EXCEPT !.confirmed = confirmed] \in User
       /\ [row EXCEPT !.confirmed = confirmed, !.active = active] \in User
       /\ [row EXCEPT !.confirmed = confirmed, !.active = active].confirmed = confirmed
  /\ \A p \in Passwords :
       /\ [confirmed |-> FALSE, active |-> TRUE, password |-> p] \in User
       /\ ~[confirmed |-> FALSE, active |-> TRUE, password |-> p].confirmed
<1>1. NoUser \in [confirmed : BOOLEAN, active : BOOLEAN, password : {None}]
  BY DEF NoUser
<1>2. ASSUME NEW row \in User \union {NoUser}, NEW p \in Passwords
      PROVE  /\ [row EXCEPT !.password = p] \in User
             /\ [row EXCEPT !.password = p].confirmed = row.confirmed
  BY <1>1 DEF User
<1>3. ASSUME NEW row \in User, NEW confirmed \in BOOLEAN, NEW active \in BOOLEAN
      PROVE  /\ [row EXCEPT !.confirmed = confirmed] \in User
             /\ [row EXCEPT !.confirmed = confirmed, !.active = active] \in User
             /\ [row EXCEPT !.confirmed = confirmed, !.active = active].confirmed = confirmed
  BY DEF User
<1>4. ASSUME NEW p \in Passwords
      PROVE  /\ [confirmed |-> FALSE, active |-> TRUE, password |-> p] \in User
             /\ ~[confirmed |-> FALSE, active |-> TRUE, password |-> p].confirmed
  BY DEF User
<1> QED
  BY <1>2, <1>3, <1>4

LEMMA WritesKeep ==
  ASSUME IInv, NEW s \in Sessions,
         CreateUser(s) \/ SaveConfirmed(s) \/ SavePassword(s) \/ SaveUser(s)
  PROVE  IInv'
<1>1. /\ ses[s] \in Session /\ SessionIsGood(ses[s]) /\ Good(user)
      /\ user \in User \union {NoUser} /\ byAdmin \in BOOLEAN
      /\ ses[s].row \in User \union {NoUser}
  BY DEF IInv, TypeOK, Session
<1>2. CASE CreateUser(s)
  <2>1. PICK x \in Session :
          /\ ses' = [ses EXCEPT ![s] = x] /\ x.pc \in {"idle", "ask"} /\ x.row = NoUser
    <3> DEFINE ask == [Idle EXCEPT !.pc = "ask"]
    <3>1. ask \in Session /\ ask.pc = "ask" /\ ask.row = NoUser
      BY RowsHaveType DEF Session, PCs
    <3>2. ses' = [ses EXCEPT ![s] = Idle] \/ ses' = [ses EXCEPT ![s] = ask]
      BY <1>2 DEF CreateUser, End
    <3> HIDE DEF ask
    <3> QED
      BY <3>1, <3>2, RowsHaveType
  <2>2. SessionIsGood(x)' /\ \A i : ~Spends(x, i)
    BY <2>1, RowsHaveType DEF SessionIsGood, Good, Spends
  <2>3. user' \in User \union {NoUser} /\ (user'.confirmed => user'=user)
    <3>1. CASE UNCHANGED user
      BY <1>1, <3>1
    <3>2. CASE user' = [confirmed |-> FALSE, active |-> TRUE, password |-> ses[s].password]
      <4>1. ses[s].password \in Passwords
        BY <1>1, <1>2 DEF CreateUser, SessionIsGood
      <4> QED
        BY <3>2, <4>1, SavedRowsHaveType
    <3> QED
      BY <1>2, <3>1, <3>2 DEF CreateUser
  <2>4. UNCHANGED <<tokens, byAdmin, now>>
    BY <1>2 DEF CreateUser
  <2>5. Good(user)'
    BY <1>1, <2>3, <2>4 DEF Good, Mailed
  <2> QED
    BY <1>1, <2>1, <2>2, <2>3, <2>4, <2>5, SessionWrites
<1>3. CASE SaveConfirmed(s)
  <2>1. /\ ses[s].pc = "save_confirmed" /\ user' = [ses[s].row EXCEPT !.confirmed = TRUE]
        /\ ses' = [ses EXCEPT ![s] = Idle] /\ UNCHANGED <<tokens, byAdmin, now>>
    BY <1>3 DEF SaveConfirmed, End
  <2>2. ses[s].row \in User /\ Mailed
    BY <1>1, <2>1 DEF SessionIsGood
  <2>3. user' \in User
    <3>1. PICK b \in BOOLEAN : b = TRUE
      OBVIOUS
    <3> QED
      BY <2>1, <2>2, <3>1, SavedRowsHaveType
  <2>4. Good(user)'
    BY <2>1, <2>2 DEF Good, Mailed
  <2> QED
    BY <1>1, <2>1, <2>3, <2>4, IdleIsGood, RowsHaveType, SessionWrites
<1>4. CASE SavePassword(s)
  <2>1. /\ ses[s].pc = "save_password"
        /\ user' = [ses[s].row EXCEPT !.password = ses[s].password]
        /\ ses' = [ses EXCEPT ![s] = Idle] /\ UNCHANGED <<tokens, byAdmin, now>>
    BY <1>4 DEF SavePassword, End
  <2>2. user' \in User /\ user'.confirmed = ses[s].row.confirmed
    BY <1>1, <2>1, SavedRowsHaveType DEF SessionIsGood
  <2>3. Good(user)'
    BY <1>1, <2>1, <2>2 DEF SessionIsGood, Good, Mailed
  <2> QED
    BY <1>1, <2>1, <2>2, <2>3, IdleIsGood, RowsHaveType, SessionWrites
<1>5. CASE SaveUser(s)
  <2>1. PICK confirmed \in BOOLEAN, active \in BOOLEAN :
          /\ user' = [ses[s].row EXCEPT !.confirmed = confirmed, !.active = active]
          /\ byAdmin' = (byAdmin \/ confirmed)
    BY <1>5 DEF SaveUser
  <2>2. /\ ses[s].pc = "save_user"
        /\ ses' = [ses EXCEPT ![s] = Idle] /\ UNCHANGED <<tokens, now>>
    BY <1>5 DEF SaveUser, End
  <2>3. user' \in User /\ user'.confirmed = confirmed
    BY <1>1, <2>1, <2>2, SavedRowsHaveType DEF SessionIsGood
  <2>4. /\ byAdmin' \in BOOLEAN
        /\ byAdmin => byAdmin'
        /\ confirmed => byAdmin'
    BY <2>1
  <2>5. Good(user)'
    BY <2>3, <2>4 DEF Good
  <2> QED
    BY <2>2, <2>3, <2>4, <2>5, IdleIsGood, RowsHaveType, SessionWrites
<1> QED
  BY <1>2, <1>3, <1>4, <1>5

-----------------------------------------------------------------------------
(* The steps that make a token.                                            *)

LEMMA GenerateAppends ==
  ASSUME IInv, NEW kind \in {"email", "activate", "complete"}, NEW key, Generate(kind, key),
         IF kind = "complete" THEN key \in DOMAIN tokens /\ tokens[key].kind = "activate"
                              ELSE key = FreshKey
  PROVE  /\ TokensOK' /\ TokensGrow
         /\ \A i \in DOMAIN tokens' :
              (i \in DOMAIN tokens /\ tokens'[i] = tokens[i]) \/ tokens'[i].used = 0
<1> DEFINE new == [kind |-> kind, key |-> key, checked |-> FALSE, used |-> 0, at |-> now]
<1>1. /\ tokens \in Seq(Token) /\ now \in 0..MaxTime /\ MaxTokens \in Nat
      /\ Len(tokens) \in Nat /\ DOMAIN tokens = 1..Len(tokens) /\ Len(tokens) < MaxTokens
      /\ tokens' = Append(tokens, new)
  BY TokensHaveType, SettingsAreNat DEF IInv, TypeOK, Generate
<1>2. new \in Token /\ new.used = 0 /\ new.kind = kind /\ new.key = key
  <2>1. key \in 1..MaxTokens
    BY <1>1 DEF FreshKey
  <2> QED
    BY <1>1, <2>1 DEF Token
<1> HIDE DEF new
<1>3. /\ tokens' \in Seq(Token) /\ Len(tokens') = Len(tokens) + 1
      /\ \A i \in 1..Len(tokens) : tokens'[i] = tokens[i]
      /\ tokens'[Len(tokens) + 1] = new
  BY <1>1, <1>2, AppendProperties
<1>4. DOMAIN tokens' = 1..(Len(tokens) + 1) /\ Len(tokens') <= MaxTokens
  BY <1>1, <1>3, LenProperties
<1>5. ASSUME NEW i \in DOMAIN tokens'
      PROVE  /\ tokens'[i].key \in DOMAIN tokens'
             /\ IF tokens'[i].kind = "complete" THEN tokens'[tokens'[i].key].kind = "activate"
                                                ELSE tokens'[i].key = i
  <2>1. CASE i \in DOMAIN tokens
    <3>1. /\ tokens[i].key \in DOMAIN tokens
          /\ IF tokens[i].kind = "complete" THEN tokens[tokens[i].key].kind = "activate"
                                            ELSE tokens[i].key = i
      BY <2>1 DEF IInv, TypeOK
    <3> QED
      BY <1>1, <1>3, <1>4, <2>1, <3>1
  <2>2. CASE i = Len(tokens) + 1
    BY <1>1, <1>2, <1>3, <1>4, <2>2 DEF FreshKey
  <2> QED
    BY <1>1, <1>4, <2>1, <2>2
<1>6. TokensOK'
  BY <1>3, <1>4, <1>5 DEF TokensOK
<1> QED
  BY <1>1, <1>2, <1>3, <1>4, <1>6 DEF TokensGrow

LEMMA MailsKeep ==
  ASSUME IInv, NEW s \in Sessions, MailConfirmation(s) \/ MailReset(s) \/ MakeKey(s)
  PROVE  IInv'
<1>1. PICK kind \in {"email", "activate", "complete"}, key \in Nat :
        /\ Generate(kind, key)
        /\ IF kind = "complete" THEN key \in DOMAIN tokens /\ tokens[key].kind = "activate"
                                ELSE key = FreshKey
  <2>1. FreshKey \in Nat /\ \A i \in DOMAIN tokens : i \in Nat
    BY TokensHaveType DEF FreshKey, IInv
  <2>2. CASE MailConfirmation(s)
    BY <2>1, <2>2 DEF MailConfirmation
  <2>3. CASE MailReset(s)
    BY <2>1, <2>3 DEF MailReset
  <2>4. CASE MakeKey(s)
    <3>1. ses[s].token \in DOMAIN tokens /\ tokens[ses[s].token].kind = "activate"
      BY <2>4 DEF MakeKey, IInv, SessionIsGood
    <3> QED
      BY <2>1, <2>4, <3>1 DEF MakeKey
  <2> QED
    BY <2>2, <2>3, <2>4
<1>2. ses' = [ses EXCEPT ![s] = Idle] /\ UNCHANGED <<user, byAdmin, now>>
  BY DEF MailConfirmation, MailReset, MakeKey, End
<1>3. /\ TokensOK' /\ TokensGrow
      /\ \A i \in DOMAIN tokens' :
           (i \in DOMAIN tokens /\ tokens'[i] = tokens[i]) \/ tokens'[i].used = 0
  BY <1>1, GenerateAppends
<1>4. \A i \in DOMAIN tokens' : KeyStep(i, s, Idle)
  BY <1>3, IdleIsGood DEF KeyStep
<1>5. Good(user)'
  <2>1. PICK row : row = user
    OBVIOUS
  <2>2. Good(row)'
    BY <1>2, <1>3, <2>1, GoodStays DEF IInv
  <2> QED
    BY <1>2, <2>1, <2>2 DEF Good
<1> QED
  BY <1>2, <1>3, <1>4, <1>5, IdleIsGood, RowsHaveType, SessionMoves DEF IInv, TypeOK

-----------------------------------------------------------------------------
(* The steps that mark a token.                                            *)

LEMMA MarkChecks ==
  ASSUME IInv, NEW i \in DOMAIN tokens, NEW new \in Token,
         new.kind = tokens[i].kind, new.key = tokens[i].key, new.checked,
         tokens' = [tokens EXCEPT ![i] = new]
  PROVE  /\ TokensOK' /\ TokensGrow /\ DOMAIN tokens' = DOMAIN tokens
         /\ tokens'[i] = new /\ \A j \in DOMAIN tokens : j # i => tokens'[j] = tokens[j]
<1>1. /\ tokens \in Seq(Token) /\ Len(tokens) <= MaxTokens /\ i \in 1..Len(tokens)
  BY TokensHaveType DEF IInv, TypeOK
<1>2. tokens' \in Seq(Token) /\ Len(tokens') = Len(tokens)
  BY <1>1, ExceptSeq
<1>3. /\ DOMAIN tokens' = DOMAIN tokens /\ tokens'[i] = new
      /\ \A j \in DOMAIN tokens : j # i => tokens'[j] = tokens[j]
  OBVIOUS
<1>4. \A j \in DOMAIN tokens : tokens'[j].kind = tokens[j].kind /\ tokens'[j].key = tokens[j].key
  BY <1>3
<1>5. TokensOK'
  BY <1>1, <1>2, <1>3, <1>4 DEF TokensOK, IInv, TypeOK
<1>6. TokensGrow
  BY <1>3 DEF TokensGrow
<1> QED
  BY <1>3, <1>5, <1>6

LEMMA MarkConfirmationKeeps ==
  ASSUME IInv, NEW s \in Sessions, MarkConfirmation(s)
  PROVE  IInv'
<1>1. /\ ses[s] \in Session /\ SessionIsGood(ses[s]) /\ ses[s].pc = "mark"
      /\ user \in User \union {NoUser} /\ Good(user) /\ UNCHANGED <<user, byAdmin, now>>
  BY DEF IInv, TypeOK, MarkConfirmation
<1>2. PICK i \in DOMAIN tokens : i = ses[s].token /\ tokens[i].kind = "email"
  BY <1>1 DEF SessionIsGood
<1> DEFINE new == [tokens[i] EXCEPT !.checked = TRUE]
<1>3. /\ new \in Token /\ new.kind = tokens[i].kind /\ new.key = tokens[i].key
      /\ new.checked /\ new.used = tokens[i].used
  <2>1. tokens[i] \in Token
    BY TokensHaveType DEF IInv
  <2>2. PICK b \in BOOLEAN : b = TRUE
    OBVIOUS
  <2>3. new = [tokens[i] EXCEPT !.checked = b]
    BY <2>2
  <2> HIDE DEF new
  <2> QED
    BY <2>1, <2>2, <2>3 DEF Token
<1>4. tokens' = [tokens EXCEPT ![i] = new]
  BY <1>2 DEF MarkConfirmation
<1> HIDE DEF new
<1>5. /\ TokensOK' /\ TokensGrow /\ DOMAIN tokens' = DOMAIN tokens
      /\ tokens'[i] = new /\ \A j \in DOMAIN tokens : j # i => tokens'[j] = tokens[j]
  BY <1>3, <1>4, MarkChecks
<1>6. Mailed' /\ Good(user)'
  BY <1>1, <1>2, <1>3, <1>5 DEF Mailed, Good
<1>7. PICK x \in Session :
        /\ ses' = [ses EXCEPT ![s] = x]
        /\ \/ x = Idle
           \/ x.pc = "save_confirmed" /\ x.row = user /\ user \in User
  <2> DEFINE save == [ses[s] EXCEPT !.pc = "save_confirmed", !.row = user]
  <2>1. save \in Session /\ save.pc = "save_confirmed" /\ save.row = user
    BY <1>1 DEF Session, PCs
  <2>2. \/ ses' = [ses EXCEPT ![s] = Idle]
        \/ ses' = [ses EXCEPT ![s] = save] /\ user.active
    BY DEF MarkConfirmation
  <2> HIDE DEF save
  <2> QED
    BY <1>1, <2>1, <2>2, RowsHaveType
<1>8. \A j : ~Spends(x, j)
  BY <1>7, IdleIsGood DEF Spends
<1>9. SessionIsGood(x)'
  <2>1. CASE x = Idle
    BY <2>1, RowsHaveType DEF SessionIsGood, Good
  <2>2. CASE x.pc = "save_confirmed" /\ x.row = user /\ user \in User
    BY <1>6, <2>2 DEF SessionIsGood, Good
  <2> QED
    BY <1>7, <2>1, <2>2
<1>10. \A j \in DOMAIN tokens' : KeyStep(j, s, x)
  BY <1>3, <1>5, <1>8 DEF KeyStep
<1> QED
  BY <1>1, <1>5, <1>6, <1>7, <1>9, <1>10, SessionMoves DEF IInv, TypeOK

LEMMA SpendingKeeps ==
  ASSUME IInv, NEW s \in Web, MarkActivation(s) \/ SaveReset(s)
  PROVE  IInv'
<1>1. /\ s \in Sessions /\ ses[s] \in Session /\ SessionIsGood(ses[s])
      /\ ses[s].pc \in {"mark_activation", "save_reset"}
      /\ user \in User \union {NoUser} /\ Good(user) /\ UNCHANGED <<byAdmin, now>>
  BY DEF IInv, TypeOK, MarkActivation, SaveReset
<1>2. PICK i \in DOMAIN tokens : i = ses[s].token
  BY <1>1 DEF SessionIsGood
<1> DEFINE new == Spent(tokens[i])
<1>3. /\ new \in Token /\ new.kind = tokens[i].kind /\ new.key = tokens[i].key
      /\ new.checked /\ new.used = tokens[i].used + 1
  <2>1. tokens[i] \in Token /\ tokens[i].used + 1 \in Nat
    BY TokensHaveType DEF IInv
  <2>2. PICK used \in Nat : used = tokens[i].used + 1
    BY <2>1
  <2>3. PICK b \in BOOLEAN : b = TRUE
    OBVIOUS
  <2>4. new = [tokens[i] EXCEPT !.checked = b, !.used = used]
    BY <2>1, <2>2, <2>3 DEF Spent, Token
  <2> HIDE DEF new
  <2> QED
    BY <2>1, <2>2, <2>3, <2>4 DEF Token
<1>4. tokens' = [tokens EXCEPT ![i] = new]
  BY <1>2 DEF MarkActivation, SaveReset
<1> HIDE DEF new
<1>5. /\ TokensOK' /\ TokensGrow /\ DOMAIN tokens' = DOMAIN tokens
      /\ tokens'[i] = new /\ \A j \in DOMAIN tokens : j # i => tokens'[j] = tokens[j]
  BY <1>3, <1>4, MarkChecks
<1>6. PICK x \in Session :
        /\ ses' = [ses EXCEPT ![s] = x]
        /\ x = Idle \/ /\ x.pc = "make_key" /\ x.row = ses[s].row /\ x.token = i
                       /\ tokens[i].kind = "activate"
  <2> DEFINE make == [ses[s] EXCEPT !.pc = "make_key"]
  <2>1. make \in Session /\ make.pc = "make_key" /\ make.row = ses[s].row /\ make.token = i
    BY <1>1, <1>2 DEF Session, PCs
  <2>2. \/ ses' = [ses EXCEPT ![s] = Idle]
        \/ ses' = [ses EXCEPT ![s] = make] /\ tokens[i].kind = "activate"
    BY <1>1, <1>2 DEF MarkActivation, SaveReset, End, SessionIsGood
  <2> HIDE DEF make
  <2> QED
    BY <2>1, <2>2, RowsHaveType
<1>7. \A j : ~Spends(x, j)
  BY <1>6, IdleIsGood DEF Spends
<1>8. \A row : Good(row) => Good(row)'
  BY <1>1, <1>5, GoodStays
<1>9. SessionIsGood(x)'
  <2>1. CASE x = Idle
    BY <2>1, RowsHaveType DEF SessionIsGood, Good
  <2>2. CASE /\ x.pc = "make_key" /\ x.row = ses[s].row /\ x.token = i
             /\ tokens[i].kind = "activate"
    <3>1. PICK row : row = ses[s].row
      OBVIOUS
    <3>2. Good(row)'
      BY <1>1, <1>8, <3>1 DEF SessionIsGood
    <3> QED
      BY <1>5, <2>2, <3>1, <3>2 DEF SessionIsGood, TokensGrow
  <2> QED
    BY <1>6, <2>1, <2>2
<1>10. \A j \in DOMAIN tokens' : KeyStep(j, s, x)
  <2>1. Spends(ses[s], i)
    BY <1>1, <1>2 DEF Spends
  <2> QED
    BY <1>3, <1>5, <1>7, <2>1 DEF KeyStep
<1>11. user' \in User \union {NoUser} /\ Good(user)'
  <2>1. CASE UNCHANGED user
    <3>1. PICK row : row = user
      OBVIOUS
    <3>2. Good(row)'
      BY <1>1, <1>8, <3>1
    <3> QED
      BY <1>1, <2>1, <3>1, <3>2 DEF Good
  <2>2. CASE SaveReset(s)
    <3>1. PICK row \in User \union {NoUser}, p \in Passwords :
            row = ses[s].row /\ user' = [row EXCEPT !.password = p]
      BY <1>1, <2>2 DEF SaveReset, SessionIsGood, Session
    <3>2. Good(row)' /\ user' \in User /\ user'.confirmed = row.confirmed
      BY <1>1, <1>8, <3>1, SavedRowsHaveType DEF SessionIsGood
    <3> QED
      BY <3>2 DEF Good
  <2> QED
    BY <2>1, <2>2 DEF MarkActivation
<1> QED
  BY <1>1, <1>5, <1>6, <1>9, <1>10, <1>11, SessionMoves DEF IInv, TypeOK

-----------------------------------------------------------------------------
(* The theorems.                                                           *)

LEMMA TimePasses ==
  ASSUME IInv, Tick \/ UNCHANGED vars
  PROVE  IInv'
<1>1. now' \in 0..MaxTime /\ UNCHANGED <<user, tokens, ses, byAdmin>>
  BY SettingsAreNat DEF Tick, vars, IInv, TypeOK
<1>2. TypeOK'
  BY <1>1 DEF IInv, TypeOK
<1>3. Good(user)' /\ \A s \in Sessions : SessionIsGood(ses[s])'
  BY <1>1 DEF IInv, SessionIsGood, Good, Mailed
<1>4. \A i \in DOMAIN tokens' : KeyIsSpentOnce(i)'
  <2>1. \A i : Spenders(i)' = Spenders(i)
    BY <1>1 DEF Spenders, Spends
  <2> QED
    BY <1>1, <2>1 DEF IInv, KeyIsSpentOnce
<1> QED
  BY <1>2, <1>3, <1>4 DEF IInv

LEMMA StepInvariant ==
  ASSUME IInv, [Next]_vars
  PROVE  IInv'
<1>1. ASSUME NEW s \in Web, WebStep(s) PROVE IInv'
  BY <1>1, ReadsKeep, MarkResetKeeps, WritesKeep, MailsKeep, MarkConfirmationKeeps,
     SpendingKeeps DEF WebStep
<1>2. ASSUME NEW s \in Sessions, RequestReset(s) \/ MailReset(s) PROVE IInv'
  BY <1>2, ReadsKeep, MailsKeep
<1>3. ASSUME NEW a \in Office, OpenUser(a) \/ SaveUser(a) PROVE IInv'
  BY <1>3, ReadsKeep, WritesKeep
<1> QED
  BY <1>1, <1>2, <1>3, TimePasses DEF Next

(* The inductive invariant holds in every reachable state of the user, the *)
(* tokens and the sessions.                                                *)
THEOREM InductiveInvariant == Spec => []IInv
BY InitInvariant, StepInvariant, PTL DEF Spec

(* The user, the tokens and the sessions have their types; the token of a  *)
(* reset has the key of an activation (models.py, OneTimeToken).           *)
THEOREM TypeCorrectness == Spec => []TypeOK
<1>1. IInv => TypeOK
  BY DEF IInv
<1> QED
  BY <1>1, InductiveInvariant, PTL

(* No save of a stale row confirms a user: only an admin does, or a key    *)
(* that was mailed (services.py, verify_user_email_by_key).                *)
THEOREM ConfirmationsWereMailed == Spec => []ConfirmedWasMailed
<1>1. IInv => ConfirmedWasMailed
  BY DEF IInv, ConfirmedWasMailed, Good, Mailed
<1> QED
  BY <1>1, InductiveInvariant, PTL

(* However requests overlap, a key takes effect at most once for each      *)
(* session (services.py, 146 and 154).                                     *)
THEOREM KeysAreSpentOncePerSession == Spec => []ResetKeysAreSpent
<1>1. ASSUME IInv, NEW i \in DOMAIN tokens PROVE tokens[i].used <= Cardinality(Web)
  <2>1. tokens[i].used \in Nat /\ KeyIsSpentOnce(i)
    BY <1>1, TokensHaveType DEF IInv
  <2> QED
    BY <2>1, SpendersAreFew DEF KeyIsSpentOnce
<1>2. IInv => ResetKeysAreSpent
  BY <1>1 DEF ResetKeysAreSpent
<1> QED
  BY <1>2, InductiveInvariant, PTL

(* A confirmation is lost only to the office or to a row read before it    *)
(* (services.py, 73 and 157).                                              *)
THEOREM ConfirmationsAreLostToStaleRows == Spec => OnlyOlderRequestsUnconfirm
<1>1. ASSUME IInv, Next, user.confirmed, ~user'.confirmed
      PROVE  \E s \in Web \union Office : ses'[s] # ses[s] /\ (s \in Office \/ ses[s].row # user)
  <2>1. ASSUME NEW s \in Web, WebStep(s)
        PROVE  ses'[s] # ses[s] /\ ses[s].row # user
    <3>1. /\ ses[s] \in Session /\ SessionIsGood(ses[s])
          /\ ses[s].row \in User \union {NoUser} /\ user # NoUser
      BY <1>1, RowsHaveType DEF IInv, TypeOK, Session
    <3>2. CASE SavePassword(s) \/ SaveReset(s)
      <4>1. /\ user' = [ses[s].row EXCEPT !.password = ses[s].password]
            /\ ses[s].pc # "idle" /\ ses[s].password \in Passwords
            /\ ses' = [ses EXCEPT ![s] = Idle]
        BY <3>1, <3>2 DEF SavePassword, SaveReset, End, SessionIsGood
      <4>2. ~ses[s].row.confirmed
        <5>1. [ses[s].row EXCEPT !.password = ses[s].password].confirmed = ses[s].row.confirmed
          BY <3>1, <4>1, SavedRowsHaveType
        <5> QED
          BY <1>1, <4>1, <5>1
      <4>3. ses'[s] = Idle
        BY <1>1, <4>1 DEF IInv, TypeOK
      <4> QED
        BY <1>1, <4>1, <4>2, <4>3, RowsHaveType
    <3>3. CASE SaveConfirmed(s)
      <4>1. ses[s].row \in User /\ user' = [ses[s].row EXCEPT !.confirmed = TRUE]
        BY <3>1, <3>3 DEF SaveConfirmed, SessionIsGood
      <4>2. PICK b \in BOOLEAN : b = TRUE
        OBVIOUS
      <4>3. user'.confirmed = b
        BY <4>1, <4>2 DEF User
      <4> QED
        BY <1>1, <4>2, <4>3
    <3>4. CASE UNCHANGED user
      BY <1>1, <3>4
    <3> QED
      BY <2>1, <3>1, <3>2, <3>3, <3>4
         DEF WebStep, BeginRegistration, CreateUser, AskLimiter, ResendConfirmation,
             MailConfirmation, VerifyEmail, MarkConfirmation, ChangePassword, ActivateReset,
             MarkActivation, MakeKey, CompleteReset, MarkReset, IsRegistered
  <2>2. ASSUME NEW a \in Office, SaveUser(a) PROVE ses'[a] # ses[a]
    BY <1>1, <2>2, RowsHaveType DEF SaveUser, End, IInv, TypeOK
  <2>3. ASSUME UNCHANGED user PROVE FALSE
    BY <1>1, <2>3
  <2> QED
    BY <1>1, <2>1, <2>2, <2>3 DEF Next, RequestReset, MailReset, OpenUser, Tick
<1>2. IInv /\ [Next]_vars =>
        [user.confirmed /\ ~user'.confirmed =>
           \E s \in Web \union Office :
             ses'[s] # ses[s] /\ (s \in Office \/ ses[s].row # user)]_vars
  BY <1>1
<1> QED
  BY <1>2, InductiveInvariant, PTL DEF Spec, OnlyOlderRequestsUnconfirm

-----------------------------------------------------------------------------
(* The limits of mails.                                                    *)

(* A finite set of numbers has a greatest: without one, the sets of what   *)
(* is above each of its elements would have no smallest.                   *)
LEMMA MaxIsThere ==
  ASSUME NEW S, IsFiniteSet(S), S # {}, S \subseteq Int
  PROVE  Max(S) \in S /\ \A y \in S : Max(S) >= y
<1> DEFINE Above(x) == {y \in S : y > x}
           B == {Above(x) : x \in S}
<1>0. CASE \E x \in S : \A y \in S : x >= y
  BY <1>0 DEF Max
<1>1. SUFFICES ASSUME \A x \in S : \E y \in S : y > x
               PROVE  FALSE
  BY <1>0
<1>2. ASSUME NEW x \in S PROVE \E U \in B : U \subseteq Above(x) /\ U # Above(x)
  <2>1. PICK y \in S : y > x
    BY <1>1
  <2>2. \A z \in S : z > y => z > x
    BY <2>1
  <2>3. ~(y > y)
    OBVIOUS
  <2>4. Above(y) \subseteq Above(x) /\ y \in Above(x) /\ y \notin Above(y)
    BY <2>1, <2>2, <2>3
  <2>5. Above(y) \in B
    OBVIOUS
  <2> HIDE DEF Above
  <2> QED
    BY <2>4, <2>5
<1>3. B \subseteq SUBSET S /\ \A T \in B : \E U \in B : U \subseteq T /\ U # T
  BY <1>2
<1> HIDE DEF B
<1>4. B = {}
  BY <1>3, NoSmallest
<1> QED
  BY <1>4 DEF B

RecentTokens(kind, window) ==
  {i \in DOMAIN tokens : tokens[i].kind = kind /\ tokens[i].at > now - window}

(* The sessions that were told to mail and have not made the token.        *)
Mailers(pc, S) == {s \in S : ses[s].pc = pc}

IsLimited(kind, window, count, pc, S) ==
  Cardinality(RecentTokens(kind, window)) + Cardinality(Mailers(pc, S)) < count + Cardinality(S)

LInv ==
  /\ IsLimited("email", VerifyWindow, VerifyCount, "mail", Web)
  /\ IsLimited("activate", ForgotWindow, ForgotCount, "mail_reset", Sessions)

(* The limits are positive, and the limiter of resets, which counts the    *)
(* mails of a token's lifetime, thereby counts those of its window.        *)
SaneLimits ==
  /\ VerifyCount > 0 /\ ForgotCount > 0
  /\ ForgotWindow <= ForgotLifetime
  /\ IsFiniteSet(Office)

LEMMA SetsAreFinite ==
  ASSUME IInv, NEW kind, NEW window, NEW pc, NEW S, IsFiniteSet(S)
  PROVE  /\ IsFiniteSet(DOMAIN tokens)
         /\ IsFiniteSet(RecentTokens(kind, window))
         /\ Cardinality(RecentTokens(kind, window)) \in Nat
         /\ IsFiniteSet(Mailers(pc, S)) /\ Cardinality(Mailers(pc, S)) \in Nat
         /\ Cardinality(S) \in Nat /\ Cardinality(Mailers(pc, S)) <= Cardinality(S)
<1>1. IsFiniteSet(DOMAIN tokens)
  <2>1. Len(tokens) \in Nat /\ DOMAIN tokens = 1..Len(tokens)
    BY TokensHaveType DEF IInv
  <2> QED
    BY <2>1, FS_Interval
<1>2. RecentTokens(kind, window) \subseteq DOMAIN tokens /\ Mailers(pc, S) \subseteq S
  BY DEF RecentTokens, Mailers
<1> QED
  BY <1>1, <1>2, FS_Subset, FS_CardinalityType

(* A limiter that lets a mail pass has counted less than its limit in the  *)
(* span it looks at, or nothing was mailed for as long as it waits.        *)
LEMMA LimiterCounts ==
  ASSUME IInv, NEW kind, NEW span \in Nat, NEW window \in Nat, NEW count \in Nat \ {0},
         NEW pause \in Nat, window <= span,
         NEW next, ~IsThrottled(next, now),
         next = IF LastCall(MadeAt(kind)) = Never THEN now
                ELSE IF Cardinality(InWindow(MadeAt(kind), span, now)) >= count
                       THEN LastCall(MadeAt(kind)) + window
                ELSE LastCall(MadeAt(kind)) + pause
  PROVE  Cardinality(RecentTokens(kind, window)) < count
<1> DEFINE times == MadeAt(kind)
<1>1. \A i \in DOMAIN tokens : tokens[i].at \in 0..MaxTime
  BY TokensHaveType DEF IInv, Token
<1>2. /\ MaxTime \in Nat /\ now \in Nat /\ Cardinality({}) = 0
      /\ DOMAIN times = OfKind(kind) /\ OfKind(kind) \subseteq DOMAIN tokens
      /\ \A i \in DOMAIN times : times[i] = tokens[i].at /\ tokens[i].kind = kind
  <2>1. MaxTime \in Nat /\ now \in 0..MaxTime
    BY SettingsAreNat DEF IInv, TypeOK
  <2>2. Cardinality({}) = 0
    BY FS_EmptySet
  <2> QED
    BY <2>1, <2>2 DEF MadeAt, OfKind
<1>3. \A i \in RecentTokens(kind, window) :
        i \in DOMAIN times /\ times[i] > now - window
  BY <1>2 DEF RecentTokens, OfKind
<1>4. CASE DOMAIN times = {}
  <2>1. RecentTokens(kind, window) = {}
    BY <1>3, <1>4
  <2> QED
    BY <1>2, <2>1
<1>5. CASE DOMAIN times # {}
  <2>1. PICK last \in Int : last = LastCall(times) /\ last >= 0
                            /\ \A i \in DOMAIN times : last >= times[i]
    <3>1. IsFiniteSet(0..MaxTime)
      BY <1>2, FS_Interval
    <3>2. Range(times) = {times[i] : i \in DOMAIN times}
      BY DEF Range
    <3>3. IsFiniteSet({times[i] : i \in DOMAIN times})
      <4>1. {times[i] : i \in DOMAIN times} \subseteq 0..MaxTime
        BY <1>1, <1>2
      <4> QED
        BY <3>1, <4>1, FS_Subset
    <3>4. Range(times) \subseteq Int /\ Range(times) # {} /\ \A t \in Range(times) : t >= 0
      BY <1>1, <1>2, <1>5, <3>2
    <3>5. Max(Range(times)) \in Range(times) /\ \A t \in Range(times) : Max(Range(times)) >= t
      BY <3>2, <3>3, <3>4, MaxIsThere
    <3>6. LastCall(times) = Max(Range(times))
      BY <1>5 DEF LastCall
    <3> HIDE DEF times
    <3> QED
      BY <3>2, <3>4, <3>5, <3>6
  <2>2. last # Never
    BY <2>1 DEF Never
  <2>3. /\ InWindow(times, span, now) = {i \in DOMAIN times : times[i] >= now - span}
        /\ IsFiniteSet(InWindow(times, span, now))
        /\ Cardinality(InWindow(times, span, now)) \in Nat
    <3>1. InWindow(times, span, now) \subseteq DOMAIN tokens
      BY <1>2 DEF InWindow
    <3> QED
      BY <3>1, SetsAreFinite, FS_Subset, FS_CardinalityType, FS_EmptySet DEF InWindow
  <2> HIDE DEF times
  <2>4. next = IF Cardinality(InWindow(times, span, now)) >= count THEN last + window
                                                                   ELSE last + pause
    BY <2>1, <2>2 DEF times
  <2>5. CASE Cardinality(InWindow(times, span, now)) >= count
    <3>1. next = last + window
      BY <2>4, <2>5
    <3>2. next <= now
      <4>1. next - now \in Int
        BY <1>2, <2>1, <3>1
      <4>2. CASE next > now
        <5>1. IsFiniteSet({next - now, 0}) /\ {next - now, 0} \subseteq Int
          <6>1. IsFiniteSet({next - now} \union {0})
            BY FS_Singleton, FS_AddElement
          <6>2. {next - now} \union {0} = {next - now, 0}
            OBVIOUS
          <6> QED
            BY <4>1, <6>1, <6>2
        <5>2. Max({next - now, 0}) >= next - now /\ Max({next - now, 0}) \in {next - now, 0}
          BY <5>1, MaxIsThere
        <5> QED
          BY <4>1, <4>2, <5>2, <1>2, <2>1, <3>1 DEF IsThrottled, LeftSeconds
      <4> QED
        BY <1>2, <2>1, <3>1, <4>2
    <3>3. RecentTokens(kind, window) = {}
      BY <1>1, <1>2, <1>3, <2>1, <3>1, <3>2
    <3> QED
      BY <1>2, <3>3
  <2>6. CASE ~(Cardinality(InWindow(times, span, now)) >= count)
    <3>1. RecentTokens(kind, window) \subseteq InWindow(times, span, now)
      BY <1>1, <1>2, <1>3, <2>3
    <3>2. Cardinality(RecentTokens(kind, window)) <= Cardinality(InWindow(times, span, now))
      BY <2>3, <3>1, FS_Subset
    <3>3. Cardinality(RecentTokens(kind, window)) \in Nat
      BY <2>3, <3>1, FS_Subset, FS_CardinalityType
    <3> QED
      BY <2>3, <2>6, <3>2, <3>3
  <2> QED
    BY <2>5, <2>6
<1> QED
  BY <1>4, <1>5

LEMMA ConfirmationsAreCounted ==
  ASSUME IInv, SaneLimits, ~IsThrottled(NextConfirmation, now)
  PROVE  Cardinality(RecentTokens("email", VerifyWindow)) < VerifyCount
<1>1. VerifyWindow \in Nat /\ VerifyCount \in Nat \ {0} /\ VerifyPause \in Nat
  BY SettingsAreNat DEF SaneLimits
<1> QED
  BY <1>1, LimiterCounts DEF NextConfirmation, NextEmail

LEMMA ResetsAreCounted ==
  ASSUME IInv, SaneLimits, ~IsThrottled(NextResetMail, now)
  PROVE  Cardinality(RecentTokens("activate", ForgotWindow)) < ForgotCount
<1>1. /\ ForgotWindow \in Nat /\ ForgotLifetime \in Nat /\ ForgotCount \in Nat \ {0}
      /\ ForgotPause \in Nat /\ ForgotWindow <= ForgotLifetime
  BY SettingsAreNat DEF SaneLimits
<1> QED
  BY <1>1, LimiterCounts DEF NextResetMail, NextReset

(* What a step may do to a limit: nothing, or begin to mail when few mails *)
(* are recent, or make the token of a mail that was begun.                 *)
LimitStep(kind, window, count, pc, S) ==
  \/ /\ RecentTokens(kind, window)' \subseteq RecentTokens(kind, window)
     /\ Mailers(pc, S)' \subseteq Mailers(pc, S)
  \/ /\ RecentTokens(kind, window)' \subseteq RecentTokens(kind, window)
     /\ Cardinality(RecentTokens(kind, window)) < count
  \/ /\ \E k : RecentTokens(kind, window)' \subseteq RecentTokens(kind, window) \union {k}
     /\ \E s \in Mailers(pc, S) : Mailers(pc, S)' \subseteq Mailers(pc, S) \ {s}

LEMMA LimitsAreKept ==
  ASSUME IInv, NEW kind, NEW window, NEW count \in Nat, NEW pc, NEW S, IsFiniteSet(S),
         IsLimited(kind, window, count, pc, S), LimitStep(kind, window, count, pc, S)
  PROVE  IsLimited(kind, window, count, pc, S)'
<1> DEFINE old == RecentTokens(kind, window)
           told == Mailers(pc, S)
<1>1. PICK new, tell : new = RecentTokens(kind, window)' /\ tell = Mailers(pc, S)'
  OBVIOUS
<1>2. /\ IsFiniteSet(old) /\ IsFiniteSet(told) /\ Cardinality(S) \in Nat
      /\ Cardinality(old) \in Nat /\ Cardinality(told) \in Nat
      /\ Cardinality(old) + Cardinality(told) < count + Cardinality(S)
  BY SetsAreFinite DEF IsLimited
<1>3. tell \subseteq S
  BY <1>1 DEF Mailers
<1>4. IsLimited(kind, window, count, pc, S)' <=>
        Cardinality(new) + Cardinality(tell) < count + Cardinality(S)
  BY <1>1 DEF IsLimited
<1>5. \/ new \subseteq old /\ tell \subseteq told
      \/ new \subseteq old /\ Cardinality(old) < count
      \/ /\ \E k : new \subseteq old \union {k}
         /\ \E s \in told : tell \subseteq told \ {s}
  BY <1>1 DEF LimitStep
<1> HIDE DEF old, told
<1>6. CASE new \subseteq old /\ tell \subseteq told
  <2>1. /\ Cardinality(new) \in Nat /\ Cardinality(new) <= Cardinality(old)
        /\ Cardinality(tell) \in Nat /\ Cardinality(tell) <= Cardinality(told)
    BY <1>2, <1>6, FS_Subset, FS_CardinalityType
  <2> QED
    BY <1>2, <1>4, <2>1
<1>7. CASE new \subseteq old /\ Cardinality(old) < count
  <2>1. /\ Cardinality(new) \in Nat /\ Cardinality(new) <= Cardinality(old)
        /\ Cardinality(tell) \in Nat /\ Cardinality(tell) <= Cardinality(S)
    BY <1>2, <1>3, <1>7, FS_Subset, FS_CardinalityType
  <2> QED
    BY <1>2, <1>4, <1>7, <2>1
<1>8. ASSUME NEW k, new \subseteq old \union {k},
             NEW s \in told, tell \subseteq told \ {s}
      PROVE  Cardinality(new) + Cardinality(tell) < count + Cardinality(S)
  <2>1. /\ IsFiniteSet(old \union {k}) /\ Cardinality(old \union {k}) \in Nat
        /\ Cardinality(old \union {k}) <= Cardinality(old) + 1
    <3>1. CASE k \in old
      <4>1. old \union {k} = old
        BY <3>1
      <4> QED
        BY <1>2, <4>1
    <3>2. CASE k \notin old
      BY <1>2, <3>2, FS_AddElement
    <3> QED
      BY <3>1, <3>2
  <2>2. IsFiniteSet(told \ {s}) /\ Cardinality(told \ {s}) = Cardinality(told) - 1
    BY <1>2, <1>8, FS_RemoveElement
  <2>3. /\ Cardinality(new) \in Nat /\ Cardinality(new) <= Cardinality(old \union {k})
        /\ Cardinality(tell) \in Nat /\ Cardinality(tell) <= Cardinality(told \ {s})
    BY <1>8, <2>1, <2>2, FS_Subset, FS_CardinalityType
  <2> QED
    BY <1>2, <2>1, <2>2, <2>3
<1> QED
  BY <1>4, <1>5, <1>6, <1>7, <1>8

(* No token is made, and no session is told to mail.                       *)
TokensKeepAge ==
  \A i \in DOMAIN tokens' : /\ i \in DOMAIN tokens /\ tokens'[i].kind = tokens[i].kind
                            /\ tokens'[i].at = tokens[i].at
NoNewMailers ==
  \A r \in Sessions : ses'[r] = ses[r] \/ ses'[r].pc \notin {"mail", "mail_reset"}

LEMMA NoMoreRecent ==
  ASSUME TokensKeepAge, UNCHANGED now, NEW kind, NEW window
  PROVE  RecentTokens(kind, window)' \subseteq RecentTokens(kind, window)
BY DEF TokensKeepAge, RecentTokens

BothSteps ==
  /\ LimitStep("email", VerifyWindow, VerifyCount, "mail", Web)
  /\ LimitStep("activate", ForgotWindow, ForgotCount, "mail_reset", Sessions)

LEMMA NoMails ==
  ASSUME TokensKeepAge, NoNewMailers, UNCHANGED now
  PROVE  BothSteps
<1>1. /\ Mailers("mail", Web)' \subseteq Mailers("mail", Web)
      /\ Mailers("mail_reset", Sessions)' \subseteq Mailers("mail_reset", Sessions)
  BY DEF NoNewMailers, Mailers
<1> QED
  BY <1>1, NoMoreRecent DEF BothSteps, LimitStep

LEMMA QuietSteps ==
  ASSUME IInv, NEW s \in Sessions,
         \/ BeginRegistration(s) \/ CreateUser(s) \/ VerifyEmail(s) \/ SaveConfirmed(s)
         \/ ChangePassword(s) \/ SavePassword(s) \/ ActivateReset(s) \/ CompleteReset(s)
         \/ MarkReset(s) \/ OpenUser(s) \/ SaveUser(s)
  PROVE  BothSteps
<1>1. ses[s] \in Session
  BY DEF IInv, TypeOK
<1>2. UNCHANGED <<tokens, now>>
  BY DEF BeginRegistration, CreateUser, VerifyEmail, SaveConfirmed, ChangePassword,
         SavePassword, ActivateReset, CompleteReset, MarkReset, OpenUser, SaveUser
<1>3. ASSUME NEW x, ses' = [ses EXCEPT ![s] = x], x.pc \notin {"mail", "mail_reset"}
      PROVE  NoNewMailers
  BY <1>3 DEF NoNewMailers, IInv, TypeOK
<1>4. NoNewMailers
  <2>1. CASE ses' = [ses EXCEPT ![s] = Idle]
    BY <1>3, <2>1, RowsHaveType
  <2>2. CASE BeginRegistration(s)
    <3>1. PICK p \in Passwords : Begin(s, [Idle EXCEPT !.pc = "create", !.password = p])
      BY <2>2 DEF BeginRegistration
    <3>2. [Idle EXCEPT !.pc = "create", !.password = p].pc = "create"
      BY DEF Idle
    <3> QED
      BY <1>3, <3>1, <3>2 DEF Begin
  <2>3. CASE CreateUser(s)
    <3>1. [Idle EXCEPT !.pc = "ask"].pc = "ask"
      BY DEF Idle
    <3> QED
      BY <1>3, <2>1, <2>3, <3>1 DEF CreateUser, End
  <2>4. CASE VerifyEmail(s)
    <3>1. PICK i : Begin(s, [Idle EXCEPT !.pc = "mark", !.token = i])
      BY <2>4 DEF VerifyEmail
    <3>2. [Idle EXCEPT !.pc = "mark", !.token = i].pc = "mark"
      BY DEF Idle
    <3> QED
      BY <1>3, <3>1, <3>2 DEF Begin
  <2>5. CASE ChangePassword(s)
    <3>1. PICK p : Begin(s, [Idle EXCEPT !.pc = "save_password", !.row = user, !.password = p])
      BY <2>5 DEF ChangePassword
    <3>2. [Idle EXCEPT !.pc = "save_password", !.row = user, !.password = p].pc = "save_password"
      BY DEF Idle
    <3> QED
      BY <1>3, <3>1, <3>2 DEF Begin
  <2>6. CASE ActivateReset(s)
    <3>1. PICK i : Begin(s, [Idle EXCEPT !.pc = "mark_activation", !.token = i])
      BY <2>6 DEF ActivateReset
    <3>2. [Idle EXCEPT !.pc = "mark_activation", !.token = i].pc = "mark_activation"
      BY DEF Idle
    <3> QED
      BY <1>3, <3>1, <3>2 DEF Begin
  <2>7. CASE CompleteReset(s)
    <3>1. PICK i, p : Begin(s, [Idle EXCEPT !.pc = "mark_reset", !.token = i, !.password = p])
      BY <2>7 DEF CompleteReset
    <3>2. [Idle EXCEPT !.pc = "mark_reset", !.token = i, !.password = p].pc = "mark_reset"
      BY DEF Idle
    <3> QED
      BY <1>3, <3>1, <3>2 DEF Begin
  <2>8. CASE OpenUser(s)
    <3>1. [Idle EXCEPT !.pc = "save_user", !.row = user].pc = "save_user"
      BY DEF Idle
    <3> QED
      BY <1>3, <2>8, <3>1 DEF OpenUser, Begin
  <2>9. CASE MarkReset(s)
    BY <1>1, <2>9 DEF MarkReset, NoNewMailers, Session, IInv, TypeOK
  <2>10. CASE SaveConfirmed(s) \/ SavePassword(s) \/ SaveUser(s)
    BY <2>1, <2>10 DEF SaveConfirmed, SavePassword, SaveUser, End
  <2> QED
    BY <2>2, <2>3, <2>4, <2>5, <2>6, <2>7, <2>8, <2>9, <2>10
<1>5. TokensKeepAge
  BY <1>2 DEF TokensKeepAge
<1> QED
  BY <1>2, <1>4, <1>5, NoMails

LEMMA MarkingSteps ==
  ASSUME IInv, NEW s \in Sessions, MarkConfirmation(s) \/ MarkActivation(s) \/ SaveReset(s)
  PROVE  BothSteps
<1>1. ses[s] \in Session /\ ses[s].token \in DOMAIN tokens /\ tokens[ses[s].token] \in Token
  BY TokensHaveType
     DEF IInv, TypeOK, SessionIsGood, MarkConfirmation, MarkActivation, SaveReset
<1>2. PICK new : /\ tokens' = [tokens EXCEPT ![ses[s].token] = new]
                 /\ new.kind = tokens[ses[s].token].kind /\ new.at = tokens[ses[s].token].at
  <2>1. CASE MarkConfirmation(s)
    <3> DEFINE marked == [tokens[ses[s].token] EXCEPT !.checked = TRUE]
    <3>1. tokens' = [tokens EXCEPT ![ses[s].token] = marked]
      BY <1>1, <2>1 DEF MarkConfirmation
    <3>2. marked.kind = tokens[ses[s].token].kind /\ marked.at = tokens[ses[s].token].at
      BY <1>1 DEF Token
    <3> HIDE DEF marked
    <3> QED
      BY <3>1, <3>2
  <2>2. CASE MarkActivation(s) \/ SaveReset(s)
    BY <1>1, <2>2 DEF MarkActivation, SaveReset, Spent, Token
  <2> QED
    BY <2>1, <2>2
<1>3. (\A r \in Sessions \ {s} : ses'[r] = ses[r]) /\ ses'[s].pc \notin {"mail", "mail_reset"}
  <2>1. CASE MarkConfirmation(s)
    BY <1>1, <2>1 DEF MarkConfirmation, Session, Idle, IInv, TypeOK
  <2>2. CASE MarkActivation(s) \/ SaveReset(s)
    BY <1>1, <2>2 DEF MarkActivation, SaveReset, End, Session, Idle, IInv, TypeOK
  <2> QED
    BY <2>1, <2>2
<1>4. NoNewMailers
  BY <1>3 DEF NoNewMailers
<1>5. TokensKeepAge
  BY <1>2 DEF TokensKeepAge
<1>6. UNCHANGED now
  BY DEF MarkConfirmation, MarkActivation, SaveReset
<1> QED
  BY <1>4, <1>5, <1>6, NoMails

(* A session asks the limiter and is told to mail.                         *)
LEMMA AskingSteps ==
  ASSUME IInv, SaneLimits, NEW s \in Sessions,
         AskLimiter(s) \/ ResendConfirmation(s) \/ RequestReset(s)
  PROVE  BothSteps
<1>1. ses[s] \in Session /\ UNCHANGED <<tokens, now>>
  BY DEF IInv, TypeOK, AskLimiter, ResendConfirmation, RequestReset
<1>2. TokensKeepAge
  BY <1>1 DEF TokensKeepAge
<1>3. /\ RecentTokens("email", VerifyWindow)' \subseteq RecentTokens("email", VerifyWindow)
      /\ RecentTokens("activate", ForgotWindow)' \subseteq RecentTokens("activate", ForgotWindow)
  BY <1>1, <1>2, NoMoreRecent
<1>4. PICK x : /\ ses' = [ses EXCEPT ![s] = x]
               /\ \/ x.pc = "idle"
                  \/ x.pc = "mail" /\ ~IsThrottled(NextConfirmation, now)
                  \/ x.pc = "mail_reset" /\ ~IsThrottled(NextResetMail, now)
  <2>1. CASE AskLimiter(s)
    <3> DEFINE x == [ses[s] EXCEPT !.pc = IF IsThrottled(NextConfirmation, now) THEN "idle"
                                                                             ELSE "mail"]
    <3>1. ses' = [ses EXCEPT ![s] = x]
      BY <2>1 DEF AskLimiter
    <3>2. x.pc = IF IsThrottled(NextConfirmation, now) THEN "idle" ELSE "mail"
      BY <1>1 DEF Session
    <3> QED
      BY <3>1, <3>2
  <2>2. CASE ResendConfirmation(s) \/ RequestReset(s)
    BY <2>2 DEF ResendConfirmation, RequestReset, Begin, Idle
  <2> QED
    BY <2>1, <2>2
<1>5. ses'[s] = x /\ \A r \in Sessions \ {s} : ses'[r] = ses[r]
  BY <1>4 DEF IInv, TypeOK
<1>6. LimitStep("email", VerifyWindow, VerifyCount, "mail", Web)
  <2>1. CASE x.pc = "mail"
    BY <1>3, <1>4, <2>1, ConfirmationsAreCounted DEF LimitStep
  <2>2. CASE x.pc # "mail"
    <3>1. Mailers("mail", Web)' \subseteq Mailers("mail", Web)
      BY <1>5, <2>2 DEF Mailers
    <3> QED
      BY <1>3, <3>1 DEF LimitStep
  <2> QED
    BY <2>1, <2>2
<1>7. LimitStep("activate", ForgotWindow, ForgotCount, "mail_reset", Sessions)
  <2>1. CASE x.pc = "mail_reset"
    BY <1>3, <1>4, <2>1, ResetsAreCounted DEF LimitStep
  <2>2. CASE x.pc # "mail_reset"
    <3>1. Mailers("mail_reset", Sessions)' \subseteq Mailers("mail_reset", Sessions)
      BY <1>5, <2>2 DEF Mailers
    <3> QED
      BY <1>3, <3>1 DEF LimitStep
  <2> QED
    BY <2>1, <2>2
<1> QED
  BY <1>6, <1>7 DEF BothSteps

(* A session makes a token; those of resets are not mailed.                *)
LEMMA MailingSteps ==
  ASSUME IInv, NEW s \in Sessions,
         \/ s \in Web /\ MailConfirmation(s)
         \/ MailReset(s) \/ MakeKey(s)
  PROVE  BothSteps
<1>1. PICK kind \in {"email", "activate", "complete"}, key \in {FreshKey, ses[s].token} :
        /\ Generate(kind, key) /\ UNCHANGED now
        /\ kind = "email" => ses[s].pc = "mail" /\ s \in Web
        /\ kind = "activate" => ses[s].pc = "mail_reset"
        /\ ses' = [ses EXCEPT ![s] = Idle]
  BY DEF MailConfirmation, MailReset, MakeKey, End
<1>2. PICK k : k = Len(tokens) + 1
  OBVIOUS
<1>3. /\ DOMAIN tokens' = DOMAIN tokens \union {k} /\ tokens'[k].kind = kind
      /\ \A i \in DOMAIN tokens : i # k /\ tokens'[i] = tokens[i]
  <2> DEFINE new == [kind |-> kind, key |-> key, checked |-> FALSE, used |-> 0, at |-> now]
  <2>1. tokens' = Append(tokens, new) /\ tokens \in Seq(Token)
    BY <1>1 DEF Generate, IInv, TypeOK
  <2>2. Len(tokens) \in Nat /\ DOMAIN tokens = 1..Len(tokens)
    BY <2>1, LenProperties
  <2>3. tokens \in Seq(Token \union {new}) /\ new.kind = kind
    BY <2>1, <2>2, SeqDef
  <2> HIDE DEF new
  <2>4. /\ tokens' \in Seq(Token \union {new}) /\ Len(tokens') = Len(tokens) + 1
        /\ \A i \in 1..Len(tokens) : tokens'[i] = tokens[i]
        /\ tokens'[Len(tokens) + 1] = new
    BY <2>1, <2>3, AppendProperties
  <2>5. DOMAIN tokens' = 1..(Len(tokens) + 1)
    BY <2>4, LenProperties
  <2> QED
    BY <1>2, <2>2, <2>3, <2>4, <2>5
<1>4. \A of, window : /\ RecentTokens(of, window)' \subseteq RecentTokens(of, window) \union {k}
                      /\ of # kind => RecentTokens(of, window)' \subseteq RecentTokens(of, window)
  BY <1>1, <1>3 DEF RecentTokens
<1>5. ses'[s].pc = "idle" /\ \A r \in Sessions \ {s} : ses'[r] = ses[r]
  BY <1>1, RowsHaveType DEF IInv, TypeOK
<1>6. \A S \in {Web, Sessions} : /\ Mailers("mail", S)' \subseteq Mailers("mail", S) \ {s}
                                /\ Mailers("mail_reset", S)' \subseteq Mailers("mail_reset", S) \ {s}
  BY <1>5 DEF Mailers
<1>7. /\ kind = "email" => s \in Mailers("mail", Web)
      /\ kind = "activate" => s \in Mailers("mail_reset", Sessions)
  BY <1>1 DEF Mailers
<1>8. LimitStep("email", VerifyWindow, VerifyCount, "mail", Web)
  <2>1. CASE kind = "email"
    BY <1>4, <1>6, <1>7, <2>1 DEF LimitStep
  <2>2. CASE kind # "email"
    BY <1>4, <1>6, <2>2 DEF LimitStep
  <2> QED
    BY <2>1, <2>2
<1>9. LimitStep("activate", ForgotWindow, ForgotCount, "mail_reset", Sessions)
  <2>1. CASE kind = "activate"
    BY <1>4, <1>6, <1>7, <2>1 DEF LimitStep
  <2>2. CASE kind # "activate"
    BY <1>4, <1>6, <2>2 DEF LimitStep
  <2> QED
    BY <2>1, <2>2
<1> QED
  BY <1>8, <1>9 DEF BothSteps

LEMMA TimeSteps ==
  ASSUME IInv, Tick \/ UNCHANGED vars
  PROVE  BothSteps
<1>1. UNCHANGED <<tokens, ses>> /\ now \in Nat /\ now' \in Nat /\ now' >= now
  <2>1. MaxTime \in Nat /\ now \in 0..MaxTime
    BY SettingsAreNat DEF IInv, TypeOK
  <2> QED
    BY <2>1 DEF Tick, vars
<1>2. \A i \in DOMAIN tokens : tokens[i].at \in Int
  <2>1. \A i \in DOMAIN tokens : tokens[i].at \in 0..MaxTime
    BY TokensHaveType DEF IInv, Token
  <2> QED
    BY <2>1
<1>3. ASSUME NEW kind, NEW window \in Nat
      PROVE  RecentTokens(kind, window)' \subseteq RecentTokens(kind, window)
  BY <1>1, <1>2 DEF RecentTokens
<1>4. \A pc, S : Mailers(pc, S)' = Mailers(pc, S)
  BY <1>1 DEF Mailers
<1>5. VerifyWindow \in Nat /\ ForgotWindow \in Nat
  BY SettingsAreNat
<1> QED
  BY <1>3, <1>4, <1>5 DEF BothSteps, LimitStep

LEMMA StepKeepsLimits ==
  ASSUME SaneLimits, IInv, LInv, [Next]_vars
  PROVE  LInv'
<1>1. BothSteps
  <2>1. ASSUME NEW s \in Web, WebStep(s) PROVE BothSteps
    BY <2>1, QuietSteps, MarkingSteps, AskingSteps, MailingSteps DEF WebStep
  <2>2. ASSUME NEW s \in Sessions, RequestReset(s) \/ MailReset(s) PROVE BothSteps
    BY <2>2, AskingSteps, MailingSteps
  <2>3. ASSUME NEW a \in Office, OpenUser(a) \/ SaveUser(a) PROVE BothSteps
    BY <2>3, QuietSteps
  <2> QED
    BY <2>1, <2>2, <2>3, TimeSteps DEF Next
<1>2. /\ IsFiniteSet(Web) /\ IsFiniteSet(Sessions)
      /\ VerifyCount \in Nat /\ ForgotCount \in Nat
  <2>1. IsFiniteSet(Web \union Office)
    BY WebIsFinite, FS_Union DEF SaneLimits
  <2> QED
    BY <2>1, WebIsFinite, SettingsAreNat
<1> QED
  BY <1>1, <1>2, LimitsAreKept DEF LInv, BothSteps

LEMMA InitKeepsLimits == SaneLimits /\ Init => LInv
<1> SUFFICES ASSUME SaneLimits, Init PROVE LInv
  OBVIOUS
<1>1. /\ RecentTokens("email", VerifyWindow) = {} /\ Mailers("mail", Web) = {}
      /\ RecentTokens("activate", ForgotWindow) = {} /\ Mailers("mail_reset", Sessions) = {}
  <2>1. DOMAIN tokens = {}
    BY EmptySeq, LenProperties DEF Init
  <2> QED
    BY <2>1, RowsHaveType DEF Init, RecentTokens, Mailers
<1>2. Cardinality({}) = 0 /\ Cardinality(Web) \in Nat /\ Cardinality(Sessions) \in Nat
  <2>1. IsFiniteSet(Web \union Office)
    BY WebIsFinite, FS_Union DEF SaneLimits
  <2> QED
    BY <2>1, WebIsFinite, FS_EmptySet, FS_CardinalityType
<1>3. VerifyCount \in Nat \ {0} /\ ForgotCount \in Nat \ {0}
  BY SettingsAreNat DEF SaneLimits
<1>4. /\ Cardinality(RecentTokens("email", VerifyWindow)) = 0
      /\ Cardinality(Mailers("mail", Web)) = 0
      /\ Cardinality(RecentTokens("activate", ForgotWindow)) = 0
      /\ Cardinality(Mailers("mail_reset", Sessions)) = 0
  BY <1>1, <1>2
<1> QED
  BY <1>2, <1>3, <1>4 DEF LInv, IsLimited

(* However requests overlap, the mails of any window of a limiter exceed   *)
(* its count by less than the processes there are (limits.py;              *)
(* services.py, 86 and 128).                                               *)
THEOREM MailsKeepToTheLimits ==
  ASSUME SaneLimits
  PROVE  Spec => []MailsAreLimited
<1>1. Init => LInv
  BY InitKeepsLimits
<1>2. IInv /\ LInv /\ [Next]_vars => LInv'
  BY StepKeepsLimits
<1>3. IInv /\ LInv => MailsAreLimited
  <2> SUFFICES ASSUME IInv, LInv PROVE MailsAreLimited
    OBVIOUS
  <2>1. IsFiniteSet(Web) /\ IsFiniteSet(Sessions)
    BY WebIsFinite, FS_Union DEF SaneLimits
  <2>2. /\ \A S \in {Web, Sessions} : Cardinality(S) \in Nat
        /\ Cardinality(Mailers("mail", Web)) \in Nat
        /\ Cardinality(Mailers("mail_reset", Sessions)) \in Nat
        /\ Cardinality(RecentTokens("email", VerifyWindow)) \in Nat
        /\ Cardinality(RecentTokens("activate", ForgotWindow)) \in Nat
    BY <2>1, SetsAreFinite, FS_CardinalityType
  <2>3. VerifyCount \in Nat /\ ForgotCount \in Nat
    BY SettingsAreNat
  <2>4. /\ Recent("email", VerifyWindow) = Cardinality(RecentTokens("email", VerifyWindow))
        /\ Recent("activate", ForgotWindow) = Cardinality(RecentTokens("activate", ForgotWindow))
    BY DEF Recent, RecentTokens
  <2> QED
    BY <2>2, <2>3, <2>4 DEF LInv, IsLimited, MailsAreLimited
<1> QED
  BY <1>1, <1>2, <1>3, InductiveInvariant, PTL DEF Spec

=============================================================================
