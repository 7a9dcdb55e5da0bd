--------------------------- MODULE Authentication ---------------------------
(***************************************************************************)
(* One user from registration on: the confirmation of the email, changes   *)
(* and resets of the password, and the tokens that are mailed for them.    *)
(*                                                                         *)
(* A step is one statement or one transaction on the database.  save()     *)
(* writes every column of the user that was read.  A transaction whose     *)
(* locks others wait for is the step that takes them and the step that     *)
(* commits.  Sessions of the browser, the profile, and mails once they are *)
(* queued are left out; a token stands for its mail.                       *)
(***************************************************************************)
EXTENDS Limits, Sequences

CONSTANTS
  Passwords,
  None,
  Web, Office,   \* sessions of the API and of the admin process
  MaxTokens,     \* bounds the tokens ever made
  MaxTime,       \* bound of the clock
  VerifyLifetime, VerifyCount, VerifyWindow, VerifyPause,   \* the settings
  ForgotLifetime, ForgotCount, ForgotWindow, ForgotPause

ASSUME SettingsAreNat ==
  {MaxTokens, MaxTime, VerifyLifetime, VerifyCount, VerifyWindow, VerifyPause,
   ForgotLifetime, ForgotCount, ForgotWindow, ForgotPause} \subseteq Nat
ASSUME NoneIsNoPassword == None \notin Passwords
ASSUME ProcessesAreApart == Web \intersect Office = {}
ASSUME WebIsFinite == IsFiniteSet(Web)

VARIABLES
  user,     \* the row of the user
  tokens,   \* the OneTimeToken table, in the order of creation
  ses,      \* what each session is doing
  byAdmin,  \* whether an admin has ever confirmed the email: for the properties only
  now

vars == <<user, tokens, ses, byAdmin, now>>

User == [confirmed : BOOLEAN, active : BOOLEAN, password : Passwords]
NoUser == [confirmed |-> FALSE, active |-> FALSE, password |-> None]
IsRegistered == user # NoUser

(* Keys are unique but for that of a reset, which is the key of its        *)
(* activation: a key is the number of the token it was made for.  A token  *)
(* remembers, for the properties only, how often it took effect.           *)
Token == [kind : {"email", "activate", "complete"}, key : 1..MaxTokens, checked : BOOLEAN,
          used : Nat, at : 0..MaxTime]

PCs == {"idle", "create", "ask", "mail", "mail_reset", "mark", "save_confirmed", "save_password",
        "mark_activation", "make_key", "mark_reset", "save_reset", "save_user"}
Session == [pc : PCs, row : User \union {NoUser}, token : 0..MaxTokens,
            password : Passwords \union {None}]
Idle == [pc |-> "idle", row |-> NoUser, token |-> 0, password |-> None]

TypeOK ==
  /\ user \in User \union {NoUser}
  /\ tokens \in Seq(Token) /\ Len(tokens) <= MaxTokens
  /\ \A i \in DOMAIN tokens :
       /\ tokens[i].key \in DOMAIN tokens
       /\ IF tokens[i].kind = "complete" THEN tokens[tokens[i].key].kind = "activate"
                                         ELSE tokens[i].key = i
  /\ ses \in [Web \union Office -> Session]
  /\ byAdmin \in BOOLEAN /\ now \in 0..MaxTime

Init ==
  /\ user = NoUser
  /\ tokens = <<>>
  /\ ses = [s \in Web \union Office |-> Idle]
  /\ byAdmin = FALSE
  /\ now = 0

(* TokenGenerator.generate()                                               *)
Generate(kind, key) ==
  /\ Len(tokens) < MaxTokens
  /\ tokens' = Append(tokens, [kind |-> kind, key |-> key, checked |-> FALSE,
                               used |-> 0, at |-> now])
FreshKey == Len(tokens) + 1

(* The instants at which tokens of a kind were made.                       *)
OfKind(kind) == {i \in DOMAIN tokens : tokens[i].kind = kind}
MadeAt(kind) == [i \in OfKind(kind) |-> tokens[i].at]

Spent(token) == [token EXCEPT !.checked = TRUE, !.used = @ + 1]

(* The tokens validate() finds for a key; more than one is an error.       *)
Found(kind, key, lifetime) ==
  {i \in DOMAIN tokens :
     tokens[i].kind = kind /\ tokens[i].key = key /\ tokens[i].at >= now - lifetime}

Begin(s, next) == ses[s].pc = "idle" /\ ses' = [ses EXCEPT ![s] = next]
End(s) == ses' = [ses EXCEPT ![s] = Idle]

-----------------------------------------------------------------------------
(* Registration and the mail that confirms it.                             *)

(* The serializer finds no user with that email.                           *)
BeginRegistration(s) ==
  \E p \in Passwords :
    /\ ~IsRegistered
    /\ Begin(s, [Idle EXCEPT !.pc = "create", !.password = p])
    /\ UNCHANGED <<user, tokens, byAdmin, now>>

(* register(): the email is unique; who comes second fails.                *)
CreateUser(s) ==
  /\ ses[s].pc = "create"
  /\ IF IsRegistered
       THEN End(s) /\ UNCHANGED user
       ELSE /\ user' = [confirmed |-> FALSE, active |-> TRUE, password |-> ses[s].password]
            /\ ses' = [ses EXCEPT ![s] = [Idle EXCEPT !.pc = "ask"]]
  /\ UNCHANGED <<tokens, byAdmin, now>>

NextConfirmation == NextEmail(MadeAt("email"), now, VerifyCount, VerifyWindow, VerifyPause)

(* send_verification_email() asks the limiter,                             *)
AskLimiter(s) ==
  /\ ses[s].pc = "ask"
  /\ ses' = [ses EXCEPT ![s].pc = IF IsThrottled(NextConfirmation, now) THEN "idle" ELSE "mail"]
  /\ UNCHANGED <<user, tokens, byAdmin, now>>

(* as when a user that is logged in and not confirmed asks for a mail,     *)
ResendConfirmation(s) ==
  /\ user.active /\ ~user.confirmed
  /\ ~IsThrottled(NextConfirmation, now)
  /\ Begin(s, [Idle EXCEPT !.pc = "mail"])
  /\ UNCHANGED <<user, tokens, byAdmin, now>>

(* and mails a token.                                                      *)
MailConfirmation(s) ==
  /\ ses[s].pc = "mail"
  /\ Generate("email", FreshKey)
  /\ End(s)
  /\ UNCHANGED <<user, byAdmin, now>>

(* Variant: a key is good for whatever it was mailed for.                  *)
VerifyAnyKey(s) ==
  \E i \in DOMAIN tokens :
    /\ tokens[i].at >= now - VerifyLifetime
    /\ Begin(s, [Idle EXCEPT !.pc = "mark", !.token = i])
    /\ UNCHANGED <<user, tokens, byAdmin, now>>

(* verify_user_email_by_key(): validate() finds the token; that it was     *)
(* used before does not matter.                                            *)
VerifyEmail(s) ==
  \E i \in DOMAIN tokens :
    /\ Found("email", i, VerifyLifetime) = {i}
    /\ Begin(s, [Idle EXCEPT !.pc = "mark", !.token = i])
    /\ UNCHANGED <<user, tokens, byAdmin, now>>

(* It marks the token, and the user is read: conflict unless the user is   *)
(* active and not confirmed.                                               *)
MarkConfirmation(s) ==
  /\ ses[s].pc = "mark"
  /\ tokens' = [tokens EXCEPT ![ses[s].token].checked = TRUE]
  /\ ses' = [ses EXCEPT ![s] = IF user.active /\ ~user.confirmed
                                 THEN [ses[s] EXCEPT !.pc = "save_confirmed", !.row = user]
                                 ELSE Idle]
  /\ UNCHANGED <<user, byAdmin, now>>

SaveConfirmed(s) ==
  /\ ses[s].pc = "save_confirmed"
  /\ user' = [ses[s].row EXCEPT !.confirmed = TRUE]
  /\ End(s)
  /\ UNCHANGED <<tokens, byAdmin, now>>

-----------------------------------------------------------------------------
(* Passwords.                                                              *)

(* change_password() of the user that the request has read.                *)
ChangePassword(s) ==
  \E p \in Passwords :
    /\ user.active
    /\ Begin(s, [Idle EXCEPT !.pc = "save_password", !.row = user, !.password = p])
    /\ UNCHANGED <<user, tokens, byAdmin, now>>

(* Variant: who changes the password has to confirm the email again.       *)
SavePasswordUnconfirmed(s) ==
  /\ ses[s].pc = "save_password"
  /\ user' = [ses[s].row EXCEPT !.password = ses[s].password, !.confirmed = FALSE]
  /\ End(s)
  /\ UNCHANGED <<tokens, byAdmin, now>>

SavePassword(s) ==
  /\ ses[s].pc = "save_password"
  /\ user' = [ses[s].row EXCEPT !.password = ses[s].password]
  /\ End(s)
  /\ UNCHANGED <<tokens, byAdmin, now>>

NextResetMail ==
  NextReset(MadeAt("activate"), now, ForgotCount, ForgotLifetime, ForgotWindow, ForgotPause)

(* request_password_reset() does nothing when there is no user or the      *)
(* limit is reached; the office asks the same of it.                       *)
RequestReset(s) ==
  /\ IsRegistered
  /\ ~IsThrottled(NextResetMail, now)
  /\ Begin(s, [Idle EXCEPT !.pc = "mail_reset"])
  /\ UNCHANGED <<user, tokens, byAdmin, now>>

MailReset(s) ==
  /\ ses[s].pc = "mail_reset"
  /\ Generate("activate", FreshKey)
  /\ End(s)
  /\ UNCHANGED <<user, byAdmin, now>>

(* activate_password_reset(): validate() reads the token, which must not   *)
(* be checked,                                                             *)
ActivateReset(s) ==
  \E i \in DOMAIN tokens :
    /\ Found("activate", i, ForgotLifetime) = {i}
    /\ ~tokens[i].checked
    /\ Begin(s, [Idle EXCEPT !.pc = "mark_activation", !.token = i])
    /\ UNCHANGED <<user, tokens, byAdmin, now>>

(* marks it,                                                               *)
MarkActivation(s) ==
  /\ ses[s].pc = "mark_activation"
  /\ tokens' = [tokens EXCEPT ![ses[s].token] = Spent(@)]
  /\ ses' = [ses EXCEPT ![s].pc = "make_key"]
  /\ UNCHANGED <<user, byAdmin, now>>

(* Variant: the token of the reset gets a key of its own.                  *)
MakeFreshKey(s) ==
  /\ ses[s].pc = "make_key"
  /\ Generate("complete", FreshKey)
  /\ End(s)
  /\ UNCHANGED <<user, byAdmin, now>>

(* and the token of the reset itself is made, with the same key.           *)
MakeKey(s) ==
  /\ ses[s].pc = "make_key"
  /\ Generate("complete", ses[s].token)
  /\ End(s)
  /\ UNCHANGED <<user, byAdmin, now>>

(* Variant: whether the token is checked is not asked.                     *)
CompleteResetAgain(s) ==
  \E i \in DOMAIN tokens, p \in Passwords :
    /\ Found("complete", tokens[i].key, ForgotLifetime) = {i}
    /\ Begin(s, [Idle EXCEPT !.pc = "mark_reset", !.token = i, !.password = p])
    /\ UNCHANGED <<user, tokens, byAdmin, now>>

(* reset_password_complete() reads the token,                              *)
CompleteReset(s) ==
  \E i \in DOMAIN tokens, p \in Passwords :
    /\ Found("complete", tokens[i].key, ForgotLifetime) = {i}
    /\ ~tokens[i].checked
    /\ Begin(s, [Idle EXCEPT !.pc = "mark_reset", !.token = i, !.password = p])
    /\ UNCHANGED <<user, tokens, byAdmin, now>>

(* marks it, for which it waits for others that do so, and reads the user, *)
MarkReset(s) ==
  /\ ses[s].pc = "mark_reset"
  /\ \A t \in Web \ {s} : ~(ses[t].pc = "save_reset" /\ ses[t].token = ses[s].token)
  /\ ses' = [ses EXCEPT ![s].pc = "save_reset", ![s].row = user]
  /\ UNCHANGED <<user, tokens, byAdmin, now>>

(* and saves the user; the mark is committed with it.                      *)
SaveReset(s) ==
  /\ ses[s].pc = "save_reset"
  /\ user' = [ses[s].row EXCEPT !.password = ses[s].password]
  /\ tokens' = [tokens EXCEPT ![ses[s].token] = Spent(@)]
  /\ End(s)
  /\ UNCHANGED <<byAdmin, now>>

-----------------------------------------------------------------------------
(* The office edits the user.                                              *)

OpenUser(a) ==
  /\ IsRegistered
  /\ Begin(a, [Idle EXCEPT !.pc = "save_user", !.row = user])
  /\ UNCHANGED <<user, tokens, byAdmin, now>>

SaveUser(a) ==
  \E confirmed, active \in BOOLEAN :
    /\ ses[a].pc = "save_user"
    /\ user' = [ses[a].row EXCEPT !.confirmed = confirmed, !.active = active]
    /\ byAdmin' = (byAdmin \/ confirmed)
    /\ End(a)
    /\ UNCHANGED <<tokens, now>>

Tick ==
  /\ now < MaxTime
  /\ now' = now + 1
  /\ UNCHANGED <<user, tokens, ses, byAdmin>>

WebStep(s) ==
  \/ BeginRegistration(s) \/ CreateUser(s) \/ AskLimiter(s)
  \/ ResendConfirmation(s) \/ MailConfirmation(s)
  \/ VerifyEmail(s) \/ MarkConfirmation(s) \/ SaveConfirmed(s)
  \/ ChangePassword(s) \/ SavePassword(s)
  \/ ActivateReset(s) \/ MarkActivation(s) \/ MakeKey(s)
  \/ CompleteReset(s) \/ MarkReset(s) \/ SaveReset(s)

Next ==
  \/ \E s \in Web : WebStep(s)
  \/ \E s \in Web \union Office : RequestReset(s) \/ MailReset(s)
  \/ \E a \in Office : OpenUser(a) \/ SaveUser(a)
  \/ Tick

Spec == Init /\ [][Next]_vars

-----------------------------------------------------------------------------
(* However many requests ask the limiter before one of them has made its   *)
(* token, the mails of any window of the limiter exceed its count by less  *)
(* than the processes there are (limits.py; services.py, 86 and 128).      *)
Recent(kind, window) ==
  Cardinality({i \in DOMAIN tokens : tokens[i].kind = kind /\ tokens[i].at > now - window})
MailsAreLimited ==
  /\ Recent("email", VerifyWindow) < VerifyCount + Cardinality(Web)
  /\ Recent("activate", ForgotWindow) < ForgotCount + Cardinality(Web \union Office)

(* A user is confirmed by an admin or by a key that was mailed to confirm  *)
(* the email, no matter which saves of stale rows came between             *)
(* (services.py, verify_user_email_by_key).                                *)
ConfirmedWasMailed ==
  user.confirmed /\ ~byAdmin =>
    \E i \in DOMAIN tokens : tokens[i].kind = "email" /\ tokens[i].checked

(* A key that was mailed activates and resets no more often than requests  *)
(* can overlap: once for each session, and only while it is unchecked      *)
(* (services.py, 146 and 154).                                             *)
ResetKeysAreSpent ==
  \A i \in DOMAIN tokens : tokens[i].used <= Cardinality(Web)

(* A confirmation is lost, but to the office, only to a request that had   *)
(* read the user before it (services.py, 73 and 157).                      *)
OnlyOlderRequestsUnconfirm ==
  [][user.confirmed /\ ~user'.confirmed =>
       \E s \in Web \union Office : ses'[s] # ses[s] /\ (s \in Office \/ ses[s].row # user)]_vars

=============================================================================
