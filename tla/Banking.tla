------------------------------- MODULE Banking -----------------------------
(***************************************************************************)
(* The accounts around the ledger: those that are made for a user when     *)
(* they are first needed, the bank accounts of the users, the bank         *)
(* accounts of the business ("cold" ones) and the requests of deposits     *)
(* that name one of each.                                                  *)
(*                                                                         *)
(* A step is one statement or one transaction on the database.  What       *)
(* becomes of a deposit is the matter of Ledger and Investment.  Users are *)
(* verified and stay where they live.                                      *)
(***************************************************************************)
EXTENDS Integers, Sequences, FiniteSets

CONSTANTS
  Users, Countries, CountryOf,    \* where each user lives
  Assets, TypeOf, AssetCountry,   \* "none" is an asset of every country
  MinDeposit,                     \* the least deposit of an asset; 0 where none is set
  Supported,                      \* countries whose banks are accepted
  Swifts, Ibans, Amounts,         \* what forms are filled in with
  Web, Admins,                    \* processes of the API and sessions of the admin site
  MaxAccounts, MaxDeposits        \* bounds on the rows ever made

ASSUME BoundsAreNat == MaxAccounts \in Nat /\ MaxDeposits \in Nat
ASSUME ProcessesAreApart == Web \intersect Admins = {}
ASSUME AssetsAreTyped ==
  /\ TypeOf \in [Assets -> {"fiat", "crypto", "token"}]
  /\ AssetCountry \in [Assets -> Countries \union {"none"}]
  /\ CountryOf \in [Users -> Countries]
  /\ MinDeposit \in [Assets -> Nat]
ASSUME OneFiatForAll ==
  \E a \in Assets : {b \in Assets : TypeOf[b] = "fiat" /\ AssetCountry[b] = "none"} = {a}

VARIABLES
  accounts,   \* the Account table, in the order of creation
  owned,      \* the UserAccount and UserFeeAccount tables
  banks,      \* the UserBankAccount table
  colds,      \* the ColdBankAccount table
  deposits,   \* the deposits requested, each with the accounts of its legs
  ses         \* what each process or session is doing

vars == <<accounts, owned, banks, colds, deposits, ses>>

Sessions == Web \union Admins
AccountIds == 1..MaxAccounts
Account == [asset : Assets, type : {"normal", "active", "passive"}, strict : BOOLEAN]
Kinds == {"user", "fee"}
\* raced: another process has made this account since this one looked for it
UserAccount == [user : Users, kind : Kinds, account : AccountIds, raced : BOOLEAN]
UserBank == [user : Users, account : AccountIds, is_active : BOOLEAN,
             swift : Swifts, iban : Ibans]
\* raced: another account of the asset was saved active since this one was checked
ColdBank == [is_active : BOOLEAN, account : AccountIds, raced : BOOLEAN]
Deposit == [user : AccountIds, payment : AccountIds, bank : Nat, amount : Amounts]

ColdForm == [active : BOOLEAN, asset : Assets]

PCs == {"idle", "lookup", "create", "bank", "cold", "insert", "respond", "coldsave"}
\* overtaken: what the session has looked for was made since by another one;
\* disturbed: a bank account the request relies on was changed since it began
Session == [pc : PCs, user : SUBSET Users, todo : SUBSET (Kinds \X Assets),
            need : SUBSET (Kinds \X Assets), form : SUBSET ColdForm,
            payment : SUBSET (Swifts \X Ibans \X Amounts), amount : SUBSET Amounts,
            bank : Nat, cold : Nat, pay : 0..MaxAccounts, account : 0..MaxAccounts,
            overtaken : BOOLEAN, disturbed : BOOLEAN]
Idle == [pc |-> "idle", user |-> {}, todo |-> {}, need |-> {}, form |-> {}, payment |-> {},
         amount |-> {}, bank |-> 0, cold |-> 0, pay |-> 0, account |-> 0,
         overtaken |-> FALSE, disturbed |-> FALSE]

TypeOK ==
  /\ accounts \in Seq(Account) /\ Len(accounts) <= MaxAccounts
  /\ owned \subseteq UserAccount
  /\ banks \in Seq(UserBank) /\ colds \in Seq(ColdBank) /\ deposits \in Seq(Deposit)
  /\ \A i \in DOMAIN deposits : deposits[i].amount > 0
  /\ ses \in [Sessions -> Session]
  /\ \A s \in Sessions :
       /\ ses[s].bank \in {0} \union DOMAIN banks
       /\ ses[s].cold \in {0} \union DOMAIN colds

Init ==
  /\ accounts = <<>> /\ owned = {} /\ banks = <<>> /\ colds = <<>> /\ deposits = <<>>
  /\ ses = [s \in Sessions |-> Idle]

At(s, pc) == ses[s].pc = pc
GoTo(s, record) == ses' = [ses EXCEPT ![s] = record]
Finish(s) == GoTo(s, Idle)

-----------------------------------------------------------------------------
(* Assets, codes and amounts                                               *)

AllowedAssets(u) ==
  {a \in Assets : \/ TypeOf[a] = "crypto"
                  \/ TypeOf[a] = "fiat" /\ AssetCountry[a] \in {CountryOf[u], "none"}}

\* The last one by country, and the database sorts no country last.
MainFiat(u) == CHOOSE a \in AllowedAssets(u) : TypeOf[a] = "fiat" /\ AssetCountry[a] = "none"

\* A code has a bank's number, here what the bank and the country leave when
\* divided by 97, and two check digits.
CheckDigits(iban) == 98 - ((iban.bank * 100) % 97)
ValidIban(iban) == (iban.bank * 100 + iban.digits) % 97 = 1

IbanOk(iban) == ValidIban(iban) /\ CheckDigits(iban) = iban.digits

SwiftOk(swift) == swift.formed /\ swift.country \in Supported
BankOk(swift, iban) ==
  /\ SwiftOk(swift)
  /\ swift.country # "OM" => IbanOk(iban) /\ iban.country \in Supported

AmountOk(a, amount) == amount >= MinDeposit[a] /\ amount > 0

-----------------------------------------------------------------------------
(* Accounts that are made when they are needed                             *)

CanCreate == Len(accounts) < MaxAccounts
NewAccount == Len(accounts) + 1
AddAccount(a, type, strict) ==
  accounts' = Append(accounts, [asset |-> a, type |-> type, strict |-> strict])

Owned(u, need) ==
  {o \in owned : o.user = u /\ o.kind = need[1] /\ accounts[o.account].asset = need[2]}

\* get_user_accounts: the allowed assets for which no account was found.
Missing(u, k) == {need \in {k} \X AllowedAssets(u) : Owned(u, need) = {}}

ListAccounts(s, u, k) ==
  /\ At(s, "idle") /\ Missing(u, k) # {}
  /\ GoTo(s, [Idle EXCEPT !.pc = "lookup", !.user = {u}, !.todo = Missing(u, k)])
  /\ UNCHANGED <<accounts, owned, banks, colds, deposits>>

\* The account is there: a deposit goes on with it, a list with its next asset.
Proceed(me, need, account) ==
  CASE me.pay # 0 -> [me EXCEPT !.pc = "insert", !.account = account, !.todo = {},
                                !.need = {}, !.overtaken = FALSE]
    [] me.pay = 0 /\ me.todo = {need} -> Idle
    [] OTHER -> [me EXCEPT !.pc = "lookup", !.todo = @ \ {need}, !.need = {},
                           !.overtaken = FALSE]

\* Variant: the account is made without a look at what was found.
LookupAnyway(s) ==
  /\ At(s, "lookup")
  /\ \E need \in ses[s].todo : GoTo(s, [ses[s] EXCEPT !.pc = "create", !.need = {need}])
  /\ UNCHANGED <<accounts, owned, banks, colds, deposits>>

\* for_customer: get() raises when there are two.
Lookup(s) ==
  /\ At(s, "lookup")
  /\ \E u \in ses[s].user, need \in ses[s].todo :
       \/ /\ Owned(u, need) = {}
          /\ GoTo(s, [ses[s] EXCEPT !.pc = "create", !.need = {need}])
       \/ \E o \in Owned(u, need) :
            /\ Owned(u, need) = {o}
            /\ GoTo(s, Proceed(ses[s], need, o.account))
       \/ Cardinality(Owned(u, need)) > 1 /\ Finish(s)
  /\ UNCHANGED <<accounts, owned, banks, colds, deposits>>

SameNeed(s, t) ==
  At(t, "create") /\ ses[t].user = ses[s].user /\ ses[t].need = ses[s].need

CreateAccount(s) ==
  /\ At(s, "create") /\ CanCreate
  /\ \E u \in ses[s].user, need \in ses[s].need :
       /\ AddAccount(need[2], "active", need[1] = "fee")
       /\ owned' = owned \union {[user |-> u, kind |-> need[1],
                                  account |-> NewAccount, raced |-> ses[s].overtaken]}
       /\ ses' = [t \in Sessions |->
                    IF t = s THEN Proceed(ses[s], need, NewAccount)
                    ELSE [ses[t] EXCEPT !.overtaken = @ \/ SameNeed(s, t)]]
  /\ UNCHANGED <<banks, colds, deposits>>

-----------------------------------------------------------------------------
(* Bank accounts of users                                                  *)

AddBank(u, swift, iban) ==
  /\ CanCreate
  /\ AddAccount(MainFiat(u), "normal", FALSE)
  /\ banks' = Append(banks, [user |-> u, account |-> NewAccount, is_active |-> TRUE,
                             swift |-> swift, iban |-> iban])

CreateBank(s, u, swift, iban) ==
  /\ At(s, "idle") /\ BankOk(swift, iban)
  /\ AddBank(u, swift, iban)
  /\ UNCHANGED <<owned, colds, deposits, ses>>

DestroyBank(b) ==
  /\ banks[b].is_active
  /\ banks' = [banks EXCEPT ![b].is_active = FALSE]
  /\ ses' = [t \in Sessions |-> [ses[t] EXCEPT !.disturbed = @ \/ ses[t].bank = b]]
  /\ UNCHANGED <<accounts, owned, colds, deposits>>

-----------------------------------------------------------------------------
(* Bank accounts of the business                                           *)

ColdAsset(c) == accounts[colds[c].account].asset
ActiveColds(a) == {c \in DOMAIN colds : colds[c].is_active /\ ColdAsset(c) = a}

\* Variant: an account that is edited is not compared with the others.
OpenColdNewOnly(s, c, form) ==
  LET asset == IF c = 0 THEN form.asset ELSE ColdAsset(c)
  IN /\ At(s, "idle")
     /\ c = 0 /\ form.active => ActiveColds(asset) = {}
     /\ GoTo(s, [Idle EXCEPT !.pc = "coldsave", !.cold = c,
                             !.form = {[form EXCEPT !.asset = asset]}])
     /\ UNCHANGED <<accounts, owned, banks, colds, deposits>>

\* ColdBankAccountForm, of a new account when c is 0.  The asset of an edited
\* account is its own, whatever the form says.
OpenCold(s, c, form) ==
  LET asset == IF c = 0 THEN form.asset ELSE ColdAsset(c)
  IN /\ At(s, "idle")
     /\ form.active => ActiveColds(asset) \ {c} = {}
     /\ GoTo(s, [Idle EXCEPT !.pc = "coldsave", !.cold = c,
                             !.form = {[form EXCEPT !.asset = asset]}])
     /\ UNCHANGED <<accounts, owned, banks, colds, deposits>>

ReliesOn(t, a) == ses[t].pay # 0 /\ accounts[ses[t].pay].asset = a

\* Variant: the account of the ledger is the asset's first one, if there is any.
FirstColdAccount(a) ==
  LET same == {i \in DOMAIN colds : ColdAsset(i) = a}
  IN IF same = {} THEN NewAccount
     ELSE colds[CHOOSE i \in same : \A j \in same : i <= j].account
ColdAccount(a) == NewAccount

\* save(): an account of the ledger is made for an edited account too.
SaveCold(s) ==
  /\ At(s, "coldsave") /\ CanCreate
  /\ \E form \in ses[s].form :
       LET row == [is_active |-> form.active, account |-> ColdAccount(form.asset),
                   raced |-> form.active /\ ses[s].overtaken]
       IN /\ AddAccount(form.asset, "passive", TRUE)
          /\ colds' = IF ses[s].cold = 0 THEN Append(colds, row)
                      ELSE [colds EXCEPT ![ses[s].cold] = row]
          /\ ses' = [t \in Sessions |->
               IF t = s THEN Idle
               ELSE [ses[t] EXCEPT
                       !.overtaken = \/ @
                                     \/ /\ At(t, "coldsave") /\ form.active
                                        /\ form.asset \in {f.asset : f \in ses[t].form},
                       !.disturbed = @ \/ ReliesOn(t, form.asset)]]
  /\ UNCHANGED <<owned, banks, deposits>>

-----------------------------------------------------------------------------
(* Deposits, requested by users and recorded by the office                 *)

\* The least deposit is that of the bank account's asset.
BeginDeposit(s, u, b, amount) ==
  /\ At(s, "idle") /\ Len(deposits) < MaxDeposits
  /\ banks[b].user = u /\ banks[b].is_active
  /\ AmountOk(accounts[banks[b].account].asset, amount)
  /\ GoTo(s, [Idle EXCEPT !.pc = "cold", !.user = {u}, !.bank = b, !.amount = {amount}])
  /\ UNCHANGED <<accounts, owned, banks, colds, deposits>>

\* AddPaymentForm asks for a well-formed code whatever the bank's country.
BeginPayment(s, u, swift, iban, amount) ==
  /\ At(s, "idle") /\ Len(deposits) < MaxDeposits
  /\ IbanOk(iban) /\ swift.formed /\ amount >= 0
  /\ \E c \in DOMAIN colds : ActiveColds(MainFiat(u)) = {c}
  /\ GoTo(s, [Idle EXCEPT !.pc = "bank", !.user = {u},
                          !.payment = {<<swift, iban, amount>>}])
  /\ UNCHANGED <<accounts, owned, banks, colds, deposits>>

\* A bank account the user has deleted is found as well.
FindBank(s) ==
  /\ At(s, "bank")
  /\ \E u \in ses[s].user, form \in ses[s].payment :
       LET same == {b \in DOMAIN banks : /\ banks[b].user = u
                                         /\ banks[b].swift = form[1]
                                         /\ banks[b].iban = form[2]}
           next(b) == [ses[s] EXCEPT !.pc = "cold", !.bank = b, !.amount = {form[3]}]
       IN \/ \E b \in same : GoTo(s, next(b)) /\ UNCHANGED <<accounts, banks>>
          \/ same = {} /\ AddBank(u, form[1], form[2]) /\ GoTo(s, next(Len(banks) + 1))
  /\ UNCHANGED <<owned, colds, deposits>>

\* Variant: an account that is not active will do.
ReadColdAny(s) ==
  /\ At(s, "cold")
  /\ \E u \in ses[s].user :
       LET found == {c \in DOMAIN colds : ColdAsset(c) = MainFiat(u)}
       IN \/ \E c \in found :
               /\ found = {c}
               /\ GoTo(s, [ses[s] EXCEPT !.pc = "lookup", !.pay = colds[c].account,
                                         !.todo = {<<"user", ColdAsset(c)>>}])
          \/ (\A c \in found : found # {c}) /\ Finish(s)
  /\ UNCHANGED <<accounts, owned, banks, colds, deposits>>

\* DepositBankAccountManager.for_customer: get() raises when there is none or two.
ReadCold(s) ==
  /\ At(s, "cold")
  /\ \E u \in ses[s].user :
       LET found == ActiveColds(MainFiat(u))
       IN \/ \E c \in found :
               /\ found = {c}
               /\ GoTo(s, [ses[s] EXCEPT !.pc = "lookup", !.pay = colds[c].account,
                                         !.todo = {<<"user", ColdAsset(c)>>}])
          \/ (\A c \in found : found # {c}) /\ Finish(s)
  /\ UNCHANGED <<accounts, owned, banks, colds, deposits>>

\* Variant: an amount of nothing is recorded.
InsertAnyDeposit(s) ==
  /\ At(s, "insert") /\ Len(deposits) < MaxDeposits
  /\ \E amount \in ses[s].amount :
       deposits' = Append(deposits, [user |-> ses[s].account, payment |-> ses[s].pay,
                                     bank |-> ses[s].bank, amount |-> amount])
  /\ IF s \in Web THEN GoTo(s, [ses[s] EXCEPT !.pc = "respond"]) ELSE Finish(s)
  /\ UNCHANGED <<accounts, owned, banks, colds>>

\* create_deposit; it asserts that the amount is positive.
InsertDeposit(s) ==
  /\ At(s, "insert") /\ Len(deposits) < MaxDeposits
  /\ \E amount \in ses[s].amount :
       \/ /\ amount > 0
          /\ deposits' = Append(deposits, [user |-> ses[s].account, payment |-> ses[s].pay,
                                           bank |-> ses[s].bank, amount |-> amount])
          /\ IF s \in Web THEN GoTo(s, [ses[s] EXCEPT !.pc = "respond"]) ELSE Finish(s)
       \/ amount <= 0 /\ Finish(s) /\ UNCHANGED deposits
  /\ UNCHANGED <<accounts, owned, banks, colds>>

\* The answer reads the bank account of the user and the active cold account anew.
Respond(s) == At(s, "respond") /\ Finish(s)
              /\ UNCHANGED <<accounts, owned, banks, colds, deposits>>

WebStep(s) ==
  \/ \E u \in Users, k \in Kinds : ListAccounts(s, u, k)
  \/ \E u \in Users, swift \in Swifts, iban \in Ibans : CreateBank(s, u, swift, iban)
  \/ \E u \in Users, b \in DOMAIN banks, amount \in Amounts : BeginDeposit(s, u, b, amount)
  \/ Respond(s)
AdminStep(s) ==
  \/ \E c \in 0..Len(colds), form \in ColdForm : OpenCold(s, c, form)
  \/ SaveCold(s)
  \/ \E u \in Users, swift \in Swifts, iban \in Ibans, amount \in Amounts :
       BeginPayment(s, u, swift, iban, amount)
  \/ FindBank(s)

Next ==
  \/ \E b \in DOMAIN banks : DestroyBank(b)
  \/ \E s \in Web : WebStep(s)
  \/ \E s \in Admins : AdminStep(s)
  \/ \E s \in Sessions : Lookup(s) \/ CreateAccount(s) \/ ReadCold(s) \/ InsertDeposit(s)

Spec == Init /\ [][Next]_vars

-----------------------------------------------------------------------------
(* Properties                                                              *)

\* A user has one account of a kind for an asset, but for those that two
\* requests made together: each duplicate was looked for before the other
\* account was there (UserAccountManager.for_customer).  A list of accounts,
\* a deposit and a payment of the office may all be the ones.
OneAccountUnlessRaced ==
  \A o, p \in owned :
    /\ o.user = p.user /\ o.kind = p.kind
    /\ accounts[o.account].asset = accounts[p.account].asset
    /\ ~o.raced /\ ~p.raced
    => o = p

\* There is one active deposit account for each currency, but for those that
\* two forms saved together, whatever was added, edited, stopped and started
\* before (ColdBankAccountForm._check_for_equal_accounts).
OneColdUnlessRaced ==
  \A c, d \in DOMAIN colds :
    /\ {c, d} \subseteq ActiveColds(ColdAsset(c))
    /\ ~colds[c].raced /\ ~colds[d].raced
    => c = d

\* The deposit account that an operation shows is found by the account of its
\* leg: there is never more than one, however often the office has edited them
\* since (DepositOperationSerializer.get_deposit_bank_account).
DepositHasOneCold ==
  \A i \in DOMAIN deposits :
    \A c, d \in {b \in DOMAIN colds : colds[b].account = deposits[i].payment} : c = d

\* The account that a request of a deposit answers with is the one that the
\* deposit debits, unless the office or the user changed an account while the
\* request ran (WireTransferDepositSerializer reads it again for the answer).
ShownIsDebited ==
  \A s \in Web :
    At(s, "respond") /\ ~ses[s].disturbed =>
      /\ banks[ses[s].bank].is_active
      /\ \A u \in ses[s].user :
           \E c \in DOMAIN colds : /\ ActiveColds(MainFiat(u)) = {c}
                                   /\ colds[c].account = ses[s].pay
=============================================================================
