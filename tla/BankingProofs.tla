----------------------------- MODULE BankingProofs -----------------------------
(***************************************************************************)
(* Proofs about Banking, for any users, assets, codes and amounts, any     *)
(* processes of the API and sessions of the office, and any bounds.        *)
(***************************************************************************)
EXTENDS Banking, SequenceTheorems, FiniteSetTheorems, TLAPS

-----------------------------------------------------------------------------
(* The inductive invariant.                                                *)

(* Every deposit account of the business has an account of its own.        *)
ColdsAreApart ==
  /\ \A c \in DOMAIN colds : colds[c].account \in DOMAIN accounts
  /\ \A c, d \in DOMAIN colds : colds[c].account = colds[d].account => c = d

OwnedAccountsExist == \A o \in owned : o.account \in DOMAIN accounts

HasUser == {"lookup", "create", "bank", "cold", "insert", "respond"}

(* The account that a deposit debits is that of the one active deposit     *)
(* account of the user's currency, until the request is disturbed.         *)
IsPaidTo(x, u) ==
  /\ x.pay \in DOMAIN accounts /\ accounts[x.pay].asset = MainFiat(u)
  /\ ~x.disturbed => \E c \in DOMAIN colds : /\ ActiveColds(MainFiat(u)) = {c}
                                             /\ colds[c].account = x.pay

(* A form is of the asset of its account, and compared with the others.    *)
IsChecked(x, form) ==
  /\ x.form = {form}
  /\ x.cold # 0 => x.cold \in DOMAIN colds /\ ColdAsset(x.cold) = form.asset
  /\ form.active /\ ~x.overtaken => ActiveColds(form.asset) \ {x.cold} = {}

(* What a session found missing is still missing, unless it is overtaken.  *)
IsMissing(x, u, need) ==
  x.user = {u} /\ x.need = {need} /\ (~x.overtaken => Owned(u, need) = {})

SessionIsGood(x) ==
  /\ x.pc \in HasUser => \E u \in Users : x.user = {u}
  /\ x.pc = "create" => \E u \in Users, need \in Kinds \X Assets : IsMissing(x, u, need)
  /\ x.pc = "coldsave" => \E form \in ColdForm : IsChecked(x, form)
  /\ x.pay # 0 => x.pc \in HasUser /\ \A u \in x.user : IsPaidTo(x, u)
  /\ x.pc \in {"insert", "respond"} => x.pay # 0 /\ x.account # 0

(* A request of a user names an active bank account, until it is disturbed.*)
RequestIsGood(s, x) ==
  s \in Web /\ (x.pc = "cold" \/ x.pay # 0) =>
    x.bank \in DOMAIN banks /\ (~x.disturbed => banks[x.bank].is_active)

IInv ==
  /\ TypeOK /\ OwnedAccountsExist /\ ColdsAreApart
  /\ OneAccountUnlessRaced /\ OneColdUnlessRaced
  /\ \A s \in Sessions : SessionIsGood(ses[s]) /\ RequestIsGood(s, ses[s])

-----------------------------------------------------------------------------
USE DEF HasUser, AccountIds

LEMMA IdleHasType ==
  /\ Idle \in Session /\ Idle.pc = "idle" /\ Idle.pay = 0 /\ Idle.bank = 0 /\ Idle.cold = 0
BY BoundsAreNat DEF Idle, Session, PCs

LEMMA IdleIsGood == SessionIsGood(Idle) /\ \A s : RequestIsGood(s, Idle)
BY IdleHasType DEF SessionIsGood, RequestIsGood

LEMMA TablesHaveType ==
  ASSUME TypeOK
  PROVE  /\ Len(accounts) \in 0..MaxAccounts /\ DOMAIN accounts = 1..Len(accounts)
         /\ \A i \in DOMAIN accounts : accounts[i] \in Account /\ accounts[i].asset \in Assets
         /\ Len(banks) \in Nat /\ DOMAIN banks = 1..Len(banks)
         /\ \A b \in DOMAIN banks : banks[b] \in UserBank
         /\ Len(colds) \in Nat /\ DOMAIN colds = 1..Len(colds)
         /\ \A c \in DOMAIN colds : colds[c] \in ColdBank
         /\ Len(deposits) \in Nat /\ DOMAIN deposits = 1..Len(deposits)
         /\ \A s \in Sessions : ses[s] \in Session
<1>1. /\ accounts \in Seq(Account) /\ Len(accounts) <= MaxAccounts /\ MaxAccounts \in Nat
      /\ banks \in Seq(UserBank) /\ colds \in Seq(ColdBank) /\ deposits \in Seq(Deposit)
      /\ ses \in [Sessions -> Session]
  BY BoundsAreNat DEF TypeOK
<1>2. /\ Len(accounts) \in Nat /\ DOMAIN accounts = 1..Len(accounts)
      /\ Len(banks) \in Nat /\ DOMAIN banks = 1..Len(banks)
      /\ Len(colds) \in Nat /\ DOMAIN colds = 1..Len(colds)
      /\ Len(deposits) \in Nat /\ DOMAIN deposits = 1..Len(deposits)
  BY <1>1, LenProperties
<1>3. \A i \in DOMAIN accounts : accounts[i] \in Account
  BY <1>1, <1>2, ElementOfSeq
<1>4. \A b \in DOMAIN banks : banks[b] \in UserBank
  BY <1>1, <1>2, ElementOfSeq
<1>5. \A c \in DOMAIN colds : colds[c] \in ColdBank
  BY <1>1, <1>2, ElementOfSeq
<1> QED
  BY <1>1, <1>2, <1>3, <1>4, <1>5 DEF Account

LEMMA MainFiatIsAllowed ==
  ASSUME NEW u \in Users
  PROVE  MainFiat(u) \in Assets /\ MainFiat(u) \in AllowedAssets(u)
<1>1. PICK a \in Assets : TypeOf[a] = "fiat" /\ AssetCountry[a] = "none"
  BY OneFiatForAll
<1>2. \E b \in AllowedAssets(u) : TypeOf[b] = "fiat" /\ AssetCountry[b] = "none"
  BY <1>1 DEF AllowedAssets
<1>3. MainFiat(u) \in AllowedAssets(u)
  BY <1>2 DEF MainFiat
<1> QED
  BY <1>3 DEF AllowedAssets

LEMMA InitInvariant == Init => IInv
<1> SUFFICES ASSUME Init PROVE IInv
  OBVIOUS
<1>1. /\ accounts = <<>> /\ owned = {} /\ banks = <<>> /\ colds = <<>> /\ deposits = <<>>
      /\ ses \in [Sessions -> Session] /\ \A s \in Sessions : ses[s] = Idle
  BY IdleHasType DEF Init
<1>2. /\ DOMAIN accounts = {} /\ DOMAIN colds = {} /\ DOMAIN deposits = {}
      /\ Len(accounts) = 0
  BY <1>1, EmptySeq, LenProperties
<1>3. TypeOK
  <2>1. /\ accounts \in Seq(Account) /\ banks \in Seq(UserBank) /\ colds \in Seq(ColdBank)
        /\ deposits \in Seq(Deposit)
    BY <1>1, EmptySeq
  <2> QED
    BY <1>1, <1>2, <2>1, IdleHasType, BoundsAreNat DEF TypeOK
<1> QED
  BY <1>1, <1>2, <1>3, IdleIsGood
     DEF IInv, OwnedAccountsExist, ColdsAreApart, OneAccountUnlessRaced, OneColdUnlessRaced

-----------------------------------------------------------------------------
(* What stays.                                                             *)

AccountsGrow ==
  \A i \in DOMAIN accounts : i \in DOMAIN accounts' /\ accounts'[i] = accounts[i]

BanksGrow ==
  \A b \in DOMAIN banks : b \in DOMAIN banks' /\ (banks[b].is_active => banks'[b].is_active)

LEMMA OwnedStays ==
  ASSUME AccountsGrow, OwnedAccountsExist, UNCHANGED owned
  PROVE  /\ \A u, need : Owned(u, need)' = Owned(u, need)
         /\ OwnedAccountsExist'
         /\ OneAccountUnlessRaced => OneAccountUnlessRaced'
BY DEF AccountsGrow, OwnedAccountsExist, Owned, OneAccountUnlessRaced

LEMMA ColdsStay ==
  ASSUME AccountsGrow, ColdsAreApart, UNCHANGED colds
  PROVE  /\ \A c \in DOMAIN colds : ColdAsset(c)' = ColdAsset(c)
         /\ \A a : ActiveColds(a)' = ActiveColds(a)
         /\ ColdsAreApart'
         /\ OneColdUnlessRaced => OneColdUnlessRaced'
BY DEF AccountsGrow, ColdsAreApart, ColdAsset, ActiveColds, OneColdUnlessRaced

LEMMA SessionStays ==
  ASSUME AccountsGrow, OwnedAccountsExist, ColdsAreApart, UNCHANGED <<owned, colds>>,
         NEW x, SessionIsGood(x)
  PROVE  SessionIsGood(x)'
<1>1. ASSUME NEW u, IsPaidTo(x, u) PROVE IsPaidTo(x, u)'
  BY <1>1, ColdsStay DEF IsPaidTo, AccountsGrow
<1>2. ASSUME NEW form, IsChecked(x, form) PROVE IsChecked(x, form)'
  BY <1>2, ColdsStay DEF IsChecked
<1>3. ASSUME NEW u, NEW need, IsMissing(x, u, need) PROVE IsMissing(x, u, need)'
  BY <1>3, OwnedStays DEF IsMissing
<1> QED
  BY <1>1, <1>2, <1>3 DEF SessionIsGood

LEMMA RequestStays ==
  ASSUME BanksGrow, NEW s, NEW x, RequestIsGood(s, x)
  PROVE  RequestIsGood(s, x)'
BY DEF BanksGrow, RequestIsGood

(* The shape of a step that neither makes an account of a user nor changes *)
(* one of the business.                                                    *)
LEMMA SessionMoves ==
  ASSUME IInv, NEW s \in Sessions, NEW x \in Session, ses' = [ses EXCEPT ![s] = x],
         accounts' \in Seq(Account), Len(accounts') <= MaxAccounts, AccountsGrow,
         banks' \in Seq(UserBank), BanksGrow,
         deposits' \in Seq(Deposit), \A i \in DOMAIN deposits' : deposits'[i].amount > 0,
         UNCHANGED <<owned, colds>>,
         SessionIsGood(x)', RequestIsGood(s, x)',
         x.bank \in {0} \union DOMAIN banks', x.cold \in {0} \union DOMAIN colds
  PROVE  IInv'
<1>1. /\ ses' \in [Sessions -> Session] /\ ses'[s] = x
      /\ \A r \in Sessions : r # s => ses'[r] = ses[r]
  BY DEF IInv, TypeOK
<1>2. TypeOK'
  BY <1>1 DEF IInv, TypeOK, BanksGrow
<1>3. ASSUME NEW r \in Sessions PROVE SessionIsGood(ses[r])' /\ RequestIsGood(r, ses[r])'
  <2>1. CASE r = s
    BY <1>1, <2>1 DEF SessionIsGood, RequestIsGood, IsPaidTo, IsChecked, IsMissing
  <2>2. CASE r # s
    <3>1. PICK y : y = ses[r]
      OBVIOUS
    <3>2. SessionIsGood(y)' /\ RequestIsGood(r, y)'
      BY <3>1, SessionStays, RequestStays DEF IInv
    <3> QED
      BY <1>1, <2>2, <3>1, <3>2 DEF SessionIsGood, RequestIsGood, IsPaidTo, IsChecked, IsMissing
  <2> QED
    BY <2>1, <2>2
<1> QED
  BY <1>2, <1>3, OwnedStays, ColdsStay DEF IInv

LEMMA SessionReads ==
  ASSUME IInv, NEW s \in Sessions, NEW x \in Session, ses' = [ses EXCEPT ![s] = x],
         UNCHANGED <<accounts, owned, banks, colds, deposits>>,
         SessionIsGood(x), RequestIsGood(s, x),
         x.bank \in {0} \union DOMAIN banks, x.cold \in {0} \union DOMAIN colds
  PROVE  IInv'
<1>1. AccountsGrow /\ BanksGrow
  BY DEF AccountsGrow, BanksGrow
<1>2. SessionIsGood(x)' /\ RequestIsGood(s, x)'
  BY <1>1, SessionStays, RequestStays DEF IInv
<1> QED
  BY <1>1, <1>2, SessionMoves DEF IInv, TypeOK

-----------------------------------------------------------------------------
(* The steps that read.                                                    *)

LEMMA FinishKeeps ==
  ASSUME IInv, NEW s \in Sessions, Finish(s),
         UNCHANGED <<accounts, owned, banks, colds, deposits>>
  PROVE  IInv'
BY IdleHasType, IdleIsGood, SessionReads DEF Finish, GoTo

LEMMA ListAccountsKeeps ==
  ASSUME IInv, NEW s \in Sessions, NEW u \in Users, NEW k \in Kinds, ListAccounts(s, u, k)
  PROVE  IInv'
<1> DEFINE x == [Idle EXCEPT !.pc = "lookup", !.user = {u}, !.todo = Missing(u, k)]
<1>1. Missing(u, k) \subseteq Kinds \X Assets
  BY DEF Missing, AllowedAssets
<1>2. /\ x \in Session /\ x.pc = "lookup" /\ x.user = {u} /\ x.pay = 0 /\ x.bank = 0
      /\ x.cold = 0
  BY <1>1, IdleHasType DEF Session, PCs
<1>3. /\ ses' = [ses EXCEPT ![s] = x]
      /\ UNCHANGED <<accounts, owned, banks, colds, deposits>>
  BY DEF ListAccounts, GoTo
<1> HIDE DEF x
<1>4. SessionIsGood(x) /\ RequestIsGood(s, x)
  BY <1>2 DEF SessionIsGood, RequestIsGood
<1> QED
  BY <1>2, <1>3, <1>4, SessionReads

(* Where a session goes once the account is there.                         *)
LEMMA Proceeds ==
  ASSUME IInv, NEW s \in Sessions, ses[s].pc \in {"lookup", "create"},
         NEW need \in Kinds \X Assets, NEW account \in 1..MaxAccounts
  PROVE  \E y \in Session :
           /\ y = Proceed(ses[s], need, account)
           /\ y.pc \in {"insert", "lookup", "idle"}
           /\ SessionIsGood(y) /\ RequestIsGood(s, y)
           /\ y.bank \in {0, ses[s].bank} /\ y.cold \in {0, ses[s].cold}
<1>1. /\ ses[s] \in Session /\ SessionIsGood(ses[s]) /\ RequestIsGood(s, ses[s])
  BY TablesHaveType DEF IInv
<1>2. CASE ses[s].pay # 0
  <2>0. PICK none \in SUBSET (Kinds \X Assets) : none = {}
    OBVIOUS
  <2> DEFINE y == [ses[s] EXCEPT !.pc = "insert", !.account = account, !.todo = none,
                                 !.need = none, !.overtaken = FALSE]
  <2>1. /\ y \in Session /\ y.pc = "insert" /\ y.account = account /\ y.user = ses[s].user
        /\ y.pay = ses[s].pay /\ y.bank = ses[s].bank /\ y.cold = ses[s].cold
        /\ y.disturbed = ses[s].disturbed
    <3>1. account \in 0..MaxAccounts
      BY BoundsAreNat
    <3> QED
      BY <1>1, <3>1 DEF Session, PCs
  <2>2. Proceed(ses[s], need, account) = y
    <3>1. ses[s].pay # 0 /\ ~(ses[s].pay = 0 /\ ses[s].todo = {need})
      BY <1>2
    <3>2. Proceed(ses[s], need, account) =
            [ses[s] EXCEPT !.pc = "insert", !.account = account, !.todo = {},
                           !.need = {}, !.overtaken = FALSE]
      BY <3>1 DEF Proceed
    <3> QED
      BY <2>0, <3>2
  <2> HIDE DEF y
  <2>3. account # 0
    OBVIOUS
  <2>4. SessionIsGood(y)
    BY <1>1, <1>2, <2>1, <2>3 DEF SessionIsGood, IsPaidTo
  <2>5. RequestIsGood(s, y)
    BY <1>1, <1>2, <2>1 DEF RequestIsGood
  <2> QED
    BY <2>1, <2>2, <2>4, <2>5
<1>3. CASE ses[s].pay = 0 /\ ses[s].todo = {need}
  BY <1>3, IdleHasType, IdleIsGood DEF Proceed
<1>4. CASE ses[s].pay = 0 /\ ses[s].todo # {need}
  <2>0. PICK rest \in SUBSET (Kinds \X Assets) : rest = ses[s].todo \ {need}
    BY <1>1 DEF Session
  <2> DEFINE y == [ses[s] EXCEPT !.pc = "lookup", !.todo = rest, !.need = {},
                                 !.overtaken = FALSE]
  <2>1. /\ y \in Session /\ y.pc = "lookup" /\ y.user = ses[s].user
        /\ y.pay = ses[s].pay /\ y.bank = ses[s].bank /\ y.cold = ses[s].cold
    BY <1>1, <2>0 DEF Session, PCs
  <2>2. Proceed(ses[s], need, account) = y
    <3>1. Proceed(ses[s], need, account) =
            [ses[s] EXCEPT !.pc = "lookup", !.todo = @ \ {need}, !.need = {},
                           !.overtaken = FALSE]
      <4>1. ~(ses[s].pay # 0) /\ ~(ses[s].pay = 0 /\ ses[s].todo = {need})
        BY <1>4
      <4> QED
        BY <4>1 DEF Proceed
    <3> QED
      BY <2>0, <3>1
  <2> HIDE DEF y
  <2>3. SessionIsGood(y) /\ RequestIsGood(s, y)
    BY <1>1, <1>4, <2>1 DEF SessionIsGood, RequestIsGood
  <2> QED
    BY <2>1, <2>2, <2>3
<1> QED
  BY <1>2, <1>3, <1>4

LEMMA LookupKeeps ==
  ASSUME IInv, NEW s \in Sessions, Lookup(s)
  PROVE  IInv'
<1>1. /\ ses[s] \in Session /\ SessionIsGood(ses[s]) /\ RequestIsGood(s, ses[s])
      /\ ses[s].bank \in {0} \union DOMAIN banks /\ ses[s].cold \in {0} \union DOMAIN colds
      /\ ses[s].pc = "lookup"
      /\ UNCHANGED <<accounts, owned, banks, colds, deposits>>
  BY TablesHaveType DEF IInv, TypeOK, Lookup, At
<1>2. PICK u \in ses[s].user, need \in ses[s].todo :
        \/ /\ Owned(u, need) = {}
           /\ GoTo(s, [ses[s] EXCEPT !.pc = "create", !.need = {need}])
        \/ \E o \in Owned(u, need) : GoTo(s, Proceed(ses[s], need, o.account))
        \/ Finish(s)
  BY DEF Lookup
<1>3. u \in Users /\ ses[s].user = {u} /\ need \in Kinds \X Assets
  BY <1>1 DEF SessionIsGood, Session
<1>4. CASE /\ Owned(u, need) = {}
           /\ GoTo(s, [ses[s] EXCEPT !.pc = "create", !.need = {need}])
  <2> DEFINE x == [ses[s] EXCEPT !.pc = "create", !.need = {need}]
  <2>1. /\ x \in Session /\ x.pc = "create" /\ x.need = {need} /\ x.user = ses[s].user
        /\ x.pay = ses[s].pay /\ x.bank = ses[s].bank /\ x.cold = ses[s].cold
        /\ x.disturbed = ses[s].disturbed
    BY <1>1, <1>3 DEF Session, PCs
  <2>2. ses' = [ses EXCEPT ![s] = x]
    BY <1>4 DEF GoTo
  <2> HIDE DEF x
  <2>3. IsMissing(x, u, need)
    BY <1>3, <1>4, <2>1 DEF IsMissing
  <2>4. SessionIsGood(x) /\ RequestIsGood(s, x)
    BY <1>1, <1>3, <2>1, <2>3 DEF SessionIsGood, RequestIsGood, IsPaidTo
  <2> QED
    BY <1>1, <2>1, <2>2, <2>4, SessionReads
<1>5. ASSUME NEW o \in Owned(u, need), GoTo(s, Proceed(ses[s], need, o.account))
      PROVE  IInv'
  <2>1. o.account \in 1..MaxAccounts
    BY DEF Owned, IInv, TypeOK, UserAccount
  <2>2. PICK y \in Session :
          /\ y = Proceed(ses[s], need, o.account)
          /\ SessionIsGood(y) /\ RequestIsGood(s, y)
          /\ y.bank \in {0, ses[s].bank} /\ y.cold \in {0, ses[s].cold}
    BY <1>1, <1>3, <2>1, Proceeds
  <2>3. ses' = [ses EXCEPT ![s] = y]
    BY <1>5, <2>2 DEF GoTo
  <2> QED
    BY <1>1, <2>2, <2>3, SessionReads
<1> QED
  BY <1>1, <1>2, <1>4, <1>5, FinishKeeps

LEMMA OpenColdKeeps ==
  ASSUME IInv, NEW s \in Sessions, NEW c \in 0..Len(colds), NEW form \in ColdForm,
         OpenCold(s, c, form)
  PROVE  IInv'
<1>1. PICK f \in ColdForm :
        /\ f = [form EXCEPT !.asset = IF c = 0 THEN form.asset ELSE ColdAsset(c)]
        /\ f.active = form.active
        /\ f.asset = IF c = 0 THEN form.asset ELSE ColdAsset(c)
  <2>1. c # 0 => ColdAsset(c) \in Assets
    BY TablesHaveType DEF IInv, ColdsAreApart, ColdAsset
  <2> DEFINE f == [form EXCEPT !.asset = IF c = 0 THEN form.asset ELSE ColdAsset(c)]
  <2>2. /\ f \in ColdForm /\ f.active = form.active
        /\ f.asset = IF c = 0 THEN form.asset ELSE ColdAsset(c)
    BY <2>1 DEF ColdForm
  <2> HIDE DEF f
  <2> QED
    BY <2>2 DEF f
<1>2. /\ form.active => ActiveColds(f.asset) \ {c} = {}
      /\ GoTo(s, [Idle EXCEPT !.pc = "coldsave", !.cold = c, !.form = {f}])
      /\ UNCHANGED <<accounts, owned, banks, colds, deposits>>
  BY <1>1 DEF OpenCold
<1>3. c \in Nat /\ c \in {0} \union DOMAIN colds
  BY TablesHaveType DEF IInv
<1> DEFINE x == [Idle EXCEPT !.pc = "coldsave", !.cold = c, !.form = {f}]
<1>4. /\ x \in Session /\ x.pc = "coldsave" /\ x.cold = c /\ x.form = {f} /\ x.pay = 0
      /\ x.bank = 0
  BY <1>3, IdleHasType DEF Session, PCs
<1>5. ses' = [ses EXCEPT ![s] = x]
  BY <1>2 DEF GoTo
<1> HIDE DEF x
<1>6. IsChecked(x, f)
  BY <1>1, <1>2, <1>3, <1>4 DEF IsChecked
<1>7. SessionIsGood(x) /\ RequestIsGood(s, x)
  BY <1>4, <1>6 DEF SessionIsGood, RequestIsGood
<1> QED
  BY <1>2, <1>3, <1>4, <1>5, <1>7, SessionReads

LEMMA BeginsKeep ==
  ASSUME IInv, NEW s \in Sessions, NEW u \in Users, NEW amount \in Amounts,
         \/ \E b \in DOMAIN banks : BeginDeposit(s, u, b, amount)
         \/ s \in Admins /\ \E swift \in Swifts, iban \in Ibans :
                              BeginPayment(s, u, swift, iban, amount)
  PROVE  IInv'
<1>1. ASSUME NEW b \in DOMAIN banks, BeginDeposit(s, u, b, amount) PROVE IInv'
  <2> DEFINE x == [Idle EXCEPT !.pc = "cold", !.user = {u}, !.bank = b, !.amount = {amount}]
  <2>0. DOMAIN banks = 1..Len(banks) /\ Len(banks) \in Nat
    BY TablesHaveType DEF IInv
  <2>1. b \in Nat /\ banks[b].is_active
    <3>1. banks[b].is_active
      BY <1>1 DEF BeginDeposit
    <3>2. b \in Nat
      BY <2>0
    <3> QED
      BY <3>1, <3>2
  <2>2. /\ x \in Session /\ x.pc = "cold" /\ x.user = {u} /\ x.bank = b /\ x.pay = 0
        /\ x.cold = 0
    BY <2>1, IdleHasType DEF Session, PCs
  <2>3. /\ ses' = [ses EXCEPT ![s] = x]
        /\ UNCHANGED <<accounts, owned, banks, colds, deposits>>
    BY <1>1 DEF BeginDeposit, GoTo
  <2> HIDE DEF x
  <2>4. SessionIsGood(x) /\ RequestIsGood(s, x)
    BY <2>1, <2>2 DEF SessionIsGood, RequestIsGood
  <2> QED
    BY <2>2, <2>3, <2>4, SessionReads
<1>2. ASSUME s \in Admins, NEW swift \in Swifts, NEW iban \in Ibans,
             BeginPayment(s, u, swift, iban, amount)
      PROVE  IInv'
  <2> DEFINE x == [Idle EXCEPT !.pc = "bank", !.user = {u},
                               !.payment = {<<swift, iban, amount>>}]
  <2>0. {<<swift, iban, amount>>} \in SUBSET (Swifts \X Ibans \X Amounts)
    OBVIOUS
  <2>1. /\ x \in Session /\ x.pc = "bank" /\ x.user = {u} /\ x.bank = 0 /\ x.pay = 0
        /\ x.cold = 0
    BY <2>0, IdleHasType DEF Session, PCs
  <2>2. /\ ses' = [ses EXCEPT ![s] = x]
        /\ UNCHANGED <<accounts, owned, banks, colds, deposits>>
    BY <1>2 DEF BeginPayment, GoTo
  <2> HIDE DEF x
  <2>3. SessionIsGood(x) /\ RequestIsGood(s, x)
    BY <2>1 DEF SessionIsGood, RequestIsGood
  <2> QED
    BY <2>1, <2>2, <2>3, SessionReads
<1> QED
  BY <1>1, <1>2

LEMMA ReadColdKeeps ==
  ASSUME IInv, NEW s \in Sessions, ReadCold(s)
  PROVE  IInv'
<1>1. /\ ses[s] \in Session /\ SessionIsGood(ses[s]) /\ RequestIsGood(s, ses[s])
      /\ ses[s].bank \in {0} \union DOMAIN banks /\ ses[s].cold \in {0} \union DOMAIN colds
      /\ ses[s].pc = "cold"
      /\ UNCHANGED <<accounts, owned, banks, colds, deposits>>
  BY TablesHaveType DEF IInv, TypeOK, ReadCold, At
<1>2. PICK u \in ses[s].user :
        \/ \E c \in ActiveColds(MainFiat(u)) :
             /\ ActiveColds(MainFiat(u)) = {c}
             /\ GoTo(s, [ses[s] EXCEPT !.pc = "lookup", !.pay = colds[c].account,
                                       !.todo = {<<"user", ColdAsset(c)>>}])
        \/ Finish(s)
  BY DEF ReadCold
<1>3. u \in Users /\ ses[s].user = {u}
  BY <1>1 DEF SessionIsGood, Session
<1>4. ASSUME NEW c \in ActiveColds(MainFiat(u)), ActiveColds(MainFiat(u)) = {c},
             GoTo(s, [ses[s] EXCEPT !.pc = "lookup", !.pay = colds[c].account,
                                    !.todo = {<<"user", ColdAsset(c)>>}])
      PROVE  IInv'
  <2>1. /\ c \in DOMAIN colds /\ ColdAsset(c) = MainFiat(u)
        /\ colds[c].account \in DOMAIN accounts /\ colds[c].account \in 1..MaxAccounts
        /\ ColdAsset(c) \in Assets
    <3>1. c \in DOMAIN colds /\ ColdAsset(c) = MainFiat(u)
      BY DEF ActiveColds
    <3>2. colds[c].account \in DOMAIN accounts
      BY <3>1 DEF IInv, ColdsAreApart
    <3>3. DOMAIN accounts = 1..Len(accounts) /\ Len(accounts) \in 0..MaxAccounts
      BY TablesHaveType DEF IInv
    <3>4. colds[c].account \in 1..MaxAccounts
      BY <3>2, <3>3, BoundsAreNat
    <3> QED
      BY <1>3, <3>1, <3>2, <3>4, MainFiatIsAllowed
  <2> DEFINE x == [ses[s] EXCEPT !.pc = "lookup", !.pay = colds[c].account,
                                 !.todo = {<<"user", ColdAsset(c)>>}]
  <2>2. /\ x \in Session /\ x.pc = "lookup" /\ x.pay = colds[c].account
        /\ x.user = ses[s].user /\ x.bank = ses[s].bank /\ x.cold = ses[s].cold
        /\ x.disturbed = ses[s].disturbed
    <3>1. /\ {<<"user", ColdAsset(c)>>} \in SUBSET (Kinds \X Assets)
          /\ colds[c].account \in 0..MaxAccounts
      BY <2>1 DEF Kinds
    <3> QED
      BY <1>1, <3>1 DEF Session, PCs
  <2>3. ses' = [ses EXCEPT ![s] = x]
    BY <1>4 DEF GoTo
  <2> HIDE DEF x
  <2>4. IsPaidTo(x, u)
    BY <1>4, <2>1, <2>2 DEF IsPaidTo, ColdAsset
  <2>5. SessionIsGood(x)
    BY <1>3, <2>2, <2>4 DEF SessionIsGood
  <2>6. RequestIsGood(s, x)
    BY <1>1, <2>2 DEF RequestIsGood
  <2> QED
    BY <1>1, <2>2, <2>3, <2>5, <2>6, SessionReads
<1> QED
  BY <1>1, <1>2, <1>4, FinishKeeps

-----------------------------------------------------------------------------
(* The steps that add a deposit or a bank account.                         *)

LEMMA NewAccountGrows ==
  ASSUME TypeOK, CanCreate, NEW a \in Assets, NEW type \in {"normal", "active", "passive"},
         NEW strict \in BOOLEAN, AddAccount(a, type, strict)
  PROVE  /\ accounts' \in Seq(Account) /\ Len(accounts') <= MaxAccounts /\ AccountsGrow
         /\ NewAccount \in DOMAIN accounts' /\ accounts'[NewAccount].asset = a
         /\ NewAccount \notin DOMAIN accounts /\ NewAccount \in 1..MaxAccounts
<1> DEFINE row == [asset |-> a, type |-> type, strict |-> strict]
<1>1. /\ accounts \in Seq(Account) /\ Len(accounts) \in Nat
      /\ DOMAIN accounts = 1..Len(accounts) /\ Len(accounts) < MaxAccounts
      /\ MaxAccounts \in Nat
  BY TablesHaveType, BoundsAreNat DEF TypeOK, CanCreate
<1>2. row \in Account /\ row.asset = a /\ accounts' = Append(accounts, row)
  BY DEF Account, AddAccount
<1> HIDE DEF row
<1>3. /\ accounts' \in Seq(Account) /\ Len(accounts') = Len(accounts) + 1
      /\ DOMAIN accounts' = 1..(Len(accounts) + 1)
      /\ \A i \in 1..Len(accounts) : accounts'[i] = accounts[i]
      /\ accounts'[Len(accounts) + 1] = row
  BY <1>1, <1>2, AppendProperties, LenProperties
<1> QED
  BY <1>1, <1>2, <1>3 DEF AccountsGrow, NewAccount

LEMMA NewBankGrows ==
  ASSUME TypeOK, NEW u \in Users, NEW swift \in Swifts, NEW iban \in Ibans,
         AddBank(u, swift, iban)
  PROVE  /\ accounts' \in Seq(Account) /\ Len(accounts') <= MaxAccounts /\ AccountsGrow
         /\ banks' \in Seq(UserBank) /\ BanksGrow
         /\ Len(banks) + 1 \in DOMAIN banks' /\ Len(banks) + 1 \in Nat
<1> DEFINE row == [user |-> u, account |-> NewAccount, is_active |-> TRUE,
                   swift |-> swift, iban |-> iban]
<1>1. /\ accounts' \in Seq(Account) /\ Len(accounts') <= MaxAccounts /\ AccountsGrow
      /\ NewAccount \in 1..MaxAccounts
  <2>1. CanCreate /\ AddAccount(MainFiat(u), "normal", FALSE) /\ MainFiat(u) \in Assets
    BY MainFiatIsAllowed DEF AddBank
  <2>2. "normal" \in {"normal", "active", "passive"} /\ FALSE \in BOOLEAN
    OBVIOUS
  <2> QED
    BY <2>1, <2>2, NewAccountGrows
<1>2. /\ banks \in Seq(UserBank) /\ Len(banks) \in Nat /\ DOMAIN banks = 1..Len(banks)
  BY TablesHaveType DEF TypeOK
<1>3. row \in UserBank /\ banks' = Append(banks, row)
  BY <1>1 DEF UserBank, AddBank
<1> HIDE DEF row
<1>4. /\ banks' \in Seq(UserBank) /\ DOMAIN banks' = 1..(Len(banks) + 1)
      /\ \A i \in 1..Len(banks) : banks'[i] = banks[i]
  BY <1>2, <1>3, AppendProperties, LenProperties
<1> QED
  BY <1>1, <1>2, <1>4 DEF BanksGrow

LEMMA CreateBankKeeps ==
  ASSUME IInv, NEW s \in Sessions, NEW u \in Users, NEW swift \in Swifts, NEW iban \in Ibans,
         CreateBank(s, u, swift, iban)
  PROVE  IInv'
<1>1. /\ AddBank(u, swift, iban) /\ UNCHANGED <<owned, colds, deposits, ses>>
  BY DEF CreateBank
<1>2. /\ accounts' \in Seq(Account) /\ Len(accounts') <= MaxAccounts /\ AccountsGrow
      /\ banks' \in Seq(UserBank) /\ BanksGrow
  BY <1>1, NewBankGrows DEF IInv
<1>3. PICK x \in Session : x = ses[s]
  BY TablesHaveType DEF IInv
<1>4. /\ SessionIsGood(x) /\ RequestIsGood(s, x) /\ ses' = [ses EXCEPT ![s] = x]
      /\ x.bank \in {0} \union DOMAIN banks /\ x.cold \in {0} \union DOMAIN colds
  BY <1>1, <1>3 DEF IInv, TypeOK
<1>5. SessionIsGood(x)' /\ RequestIsGood(s, x)'
  BY <1>1, <1>2, <1>4, SessionStays, RequestStays DEF IInv
<1>6. x.bank \in {0} \union DOMAIN banks'
  BY <1>2, <1>4 DEF BanksGrow
<1> QED
  BY <1>1, <1>2, <1>4, <1>5, <1>6, SessionMoves DEF IInv, TypeOK

LEMMA FindBankKeeps ==
  ASSUME IInv, NEW s \in Admins, FindBank(s)
  PROVE  IInv'
<1>1. /\ s \in Sessions /\ s \notin Web
      /\ ses[s] \in Session /\ SessionIsGood(ses[s]) /\ ses[s].pc = "bank"
      /\ ses[s].cold \in {0} \union DOMAIN colds
      /\ UNCHANGED <<owned, colds, deposits>>
  BY ProcessesAreApart, TablesHaveType DEF IInv, TypeOK, FindBank, At, Sessions
<1>2. PICK u \in ses[s].user, form \in ses[s].payment :
        LET next(b) == [ses[s] EXCEPT !.pc = "cold", !.bank = b, !.amount = {form[3]}]
        IN  \/ \E b \in DOMAIN banks : GoTo(s, next(b)) /\ UNCHANGED <<accounts, banks>>
            \/ AddBank(u, form[1], form[2]) /\ GoTo(s, next(Len(banks) + 1))
  BY DEF FindBank
<1>3. /\ u \in Users /\ form[1] \in Swifts /\ form[2] \in Ibans /\ form[3] \in Amounts
  BY <1>1 DEF Session
<1>4. /\ accounts' \in Seq(Account) /\ Len(accounts') <= MaxAccounts /\ AccountsGrow
      /\ banks' \in Seq(UserBank) /\ BanksGrow
      /\ \E b \in DOMAIN banks' :
           /\ b \in Nat
           /\ GoTo(s, [ses[s] EXCEPT !.pc = "cold", !.bank = b, !.amount = {form[3]}])
  <2>1. CASE \E b \in DOMAIN banks :
               /\ GoTo(s, [ses[s] EXCEPT !.pc = "cold", !.bank = b, !.amount = {form[3]}])
               /\ UNCHANGED <<accounts, banks>>
    <3>1. DOMAIN banks = 1..Len(banks) /\ Len(banks) \in Nat
      BY TablesHaveType DEF IInv
    <3>2. \A b \in DOMAIN banks : b \in Nat
      BY <3>1
    <3> QED
      BY <2>1, <3>2 DEF IInv, TypeOK, AccountsGrow, BanksGrow
  <2>2. CASE /\ AddBank(u, form[1], form[2])
             /\ GoTo(s, [ses[s] EXCEPT !.pc = "cold", !.bank = Len(banks) + 1,
                                       !.amount = {form[3]}])
    BY <1>3, <2>2, NewBankGrows DEF IInv
  <2> QED
    BY <1>2, <2>1, <2>2
<1>5. PICK b \in DOMAIN banks' :
        /\ b \in Nat
        /\ GoTo(s, [ses[s] EXCEPT !.pc = "cold", !.bank = b, !.amount = {form[3]}])
  BY <1>4
<1>6. PICK x \in Session :
        /\ x.pc = "cold" /\ x.bank = b /\ x.user = ses[s].user /\ x.pay = ses[s].pay
        /\ x.cold = ses[s].cold /\ x.disturbed = ses[s].disturbed
        /\ ses' = [ses EXCEPT ![s] = x]
  <2> DEFINE x == [ses[s] EXCEPT !.pc = "cold", !.bank = b, !.amount = {form[3]}]
  <2>1. /\ x \in Session /\ x.pc = "cold" /\ x.bank = b /\ x.user = ses[s].user
        /\ x.pay = ses[s].pay /\ x.cold = ses[s].cold /\ x.disturbed = ses[s].disturbed
    BY <1>1, <1>3, <1>5 DEF Session, PCs
  <2>2. ses' = [ses EXCEPT ![s] = x]
    BY <1>5 DEF GoTo
  <2> HIDE DEF x
  <2> QED
    BY <2>1, <2>2
<1>8. SessionIsGood(x) /\ RequestIsGood(s, x)
  BY <1>1, <1>6 DEF SessionIsGood, RequestIsGood, IsPaidTo
<1>9. SessionIsGood(x)' /\ RequestIsGood(s, x)'
  <2>1. AccountsGrow /\ BanksGrow /\ UNCHANGED <<owned, colds>>
    BY <1>1, <1>4
  <2>2. OwnedAccountsExist /\ ColdsAreApart
    BY DEF IInv
  <2> QED
    BY <1>8, <2>1, <2>2, SessionStays, RequestStays
<1>10. /\ deposits' \in Seq(Deposit) /\ \A i \in DOMAIN deposits' : deposits'[i].amount > 0
       /\ UNCHANGED <<owned, colds>>
  BY <1>1 DEF IInv, TypeOK
<1>11. /\ accounts' \in Seq(Account) /\ Len(accounts') <= MaxAccounts /\ AccountsGrow
       /\ banks' \in Seq(UserBank) /\ BanksGrow
  BY <1>4
<1>12. x.bank \in {0} \union DOMAIN banks' /\ x.cold \in {0} \union DOMAIN colds
  BY <1>1, <1>5, <1>6
<1> QED
  BY <1>1, <1>6, <1>9, <1>10, <1>11, <1>12, SessionMoves

LEMMA InsertDepositKeeps ==
  ASSUME IInv, NEW s \in Sessions, InsertDeposit(s)
  PROVE  IInv'
<1>1. /\ ses[s] \in Session /\ SessionIsGood(ses[s]) /\ RequestIsGood(s, ses[s])
      /\ ses[s].bank \in {0} \union DOMAIN banks /\ ses[s].cold \in {0} \union DOMAIN colds
      /\ ses[s].pc = "insert"
      /\ UNCHANGED <<accounts, owned, banks, colds>>
  BY TablesHaveType DEF IInv, TypeOK, InsertDeposit, At
<1>2. AccountsGrow /\ BanksGrow
  BY <1>1 DEF AccountsGrow, BanksGrow
<1>3. PICK amount \in ses[s].amount :
        \/ /\ amount > 0
           /\ deposits' = Append(deposits, [user |-> ses[s].account, payment |-> ses[s].pay,
                                            bank |-> ses[s].bank, amount |-> amount])
           /\ IF s \in Web THEN GoTo(s, [ses[s] EXCEPT !.pc = "respond"]) ELSE Finish(s)
        \/ Finish(s) /\ UNCHANGED deposits
  BY DEF InsertDeposit
<1>4. CASE /\ amount > 0
           /\ deposits' = Append(deposits, [user |-> ses[s].account, payment |-> ses[s].pay,
                                            bank |-> ses[s].bank, amount |-> amount])
           /\ IF s \in Web THEN GoTo(s, [ses[s] EXCEPT !.pc = "respond"]) ELSE Finish(s)
  <2> DEFINE row == [user |-> ses[s].account, payment |-> ses[s].pay,
                     bank |-> ses[s].bank, amount |-> amount]
  <2>1. /\ ses[s].account \in 0..MaxAccounts /\ ses[s].account # 0
        /\ ses[s].pay \in 0..MaxAccounts /\ ses[s].pay # 0
        /\ ses[s].bank \in Nat /\ amount \in Amounts
    BY <1>1 DEF SessionIsGood, Session
  <2>2. ses[s].account \in 1..MaxAccounts /\ ses[s].pay \in 1..MaxAccounts
    BY <2>1, BoundsAreNat
  <2>3. row \in Deposit /\ row.amount > 0
    BY <1>4, <2>1, <2>2 DEF Deposit
  <2>4. deposits' = Append(deposits, row)
    BY <1>4
  <2> HIDE DEF row
  <2>5. /\ deposits \in Seq(Deposit) /\ Len(deposits) \in Nat
        /\ DOMAIN deposits = 1..Len(deposits)
        /\ \A i \in DOMAIN deposits : deposits[i].amount > 0
    BY TablesHaveType DEF IInv, TypeOK
  <2>6. /\ deposits' \in Seq(Deposit) /\ DOMAIN deposits' = 1..(Len(deposits) + 1)
        /\ \A i \in 1..Len(deposits) : deposits'[i] = deposits[i]
        /\ deposits'[Len(deposits) + 1] = row
    BY <2>3, <2>4, <2>5, AppendProperties, LenProperties
  <2>7. \A i \in DOMAIN deposits' : deposits'[i].amount > 0
    BY <2>3, <2>5, <2>6
  <2>8. PICK x \in Session :
          /\ ses' = [ses EXCEPT ![s] = x] /\ SessionIsGood(x) /\ RequestIsGood(s, x)
          /\ x.bank \in {0} \union DOMAIN banks /\ x.cold \in {0} \union DOMAIN colds
    <3>1. CASE s \in Web
      <4> DEFINE x == [ses[s] EXCEPT !.pc = "respond"]
      <4>1. /\ x \in Session /\ x.pc = "respond" /\ x.user = ses[s].user
            /\ x.pay = ses[s].pay /\ x.account = ses[s].account /\ x.bank = ses[s].bank
            /\ x.cold = ses[s].cold /\ x.disturbed = ses[s].disturbed
        BY <1>1 DEF Session, PCs
      <4>2. ses' = [ses EXCEPT ![s] = x]
        BY <1>4, <3>1 DEF GoTo
      <4> HIDE DEF x
      <4>3. SessionIsGood(x) /\ RequestIsGood(s, x)
        BY <1>1, <4>1 DEF SessionIsGood, RequestIsGood, IsPaidTo
      <4> QED
        BY <1>1, <4>1, <4>2, <4>3
    <3>2. CASE s \notin Web
      BY <1>4, <3>2, IdleHasType, IdleIsGood DEF Finish, GoTo
    <3> QED
      BY <3>1, <3>2
  <2>9. SessionIsGood(x)' /\ RequestIsGood(s, x)'
    BY <1>1, <1>2, <2>8, SessionStays, RequestStays DEF IInv
  <2> QED
    BY <1>1, <1>2, <2>6, <2>7, <2>8, <2>9, SessionMoves DEF IInv, TypeOK
<1> QED
  BY <1>1, <1>3, <1>4, FinishKeeps

-----------------------------------------------------------------------------
(* The steps that overtake or disturb other sessions.                      *)

(* y is x, but for being overtaken or disturbed.                           *)
Marked(x, y, overtaken, disturbed) ==
  /\ y.pc = x.pc /\ y.user = x.user /\ y.need = x.need /\ y.form = x.form
  /\ y.bank = x.bank /\ y.cold = x.cold /\ y.pay = x.pay /\ y.account = x.account
  /\ y.overtaken = (x.overtaken \/ overtaken) /\ y.disturbed = (x.disturbed \/ disturbed)

LEMMA MarksAreSessions ==
  ASSUME NEW x \in Session, NEW o \in BOOLEAN, NEW d \in BOOLEAN
  PROVE  /\ \E y \in Session : /\ y = [x EXCEPT !.overtaken = @ \/ o]
                               /\ Marked(x, y, o, FALSE)
         /\ \E y \in Session : /\ y = [x EXCEPT !.disturbed = @ \/ d]
                               /\ Marked(x, y, FALSE, d)
<1>1. /\ x.overtaken \in BOOLEAN /\ x.disturbed \in BOOLEAN
  BY DEF Session
<1>2. PICK p \in BOOLEAN : p = (x.overtaken \/ o)
  BY <1>1
<1>3. PICK q \in BOOLEAN : q = (x.disturbed \/ d)
  BY <1>1
<1>4. ASSUME NEW y, y = [x EXCEPT !.overtaken = p]
      PROVE  y \in Session /\ Marked(x, y, o, FALSE)
  BY <1>1, <1>2, <1>4 DEF Session, Marked
<1>5. ASSUME NEW y, y = [x EXCEPT !.disturbed = q]
      PROVE  y \in Session /\ Marked(x, y, FALSE, d)
  BY <1>1, <1>3, <1>5 DEF Session, Marked
<1> QED
  BY <1>2, <1>3, <1>4, <1>5

LEMMA BothMarksAreSessions ==
  ASSUME NEW x \in Session, NEW o \in BOOLEAN, NEW d \in BOOLEAN, NEW y,
         y = [x EXCEPT !.overtaken = x.overtaken \/ o, !.disturbed = x.disturbed \/ d]
  PROVE  y \in Session /\ Marked(x, y, o, d)
<1>1. /\ x.overtaken \in BOOLEAN /\ x.disturbed \in BOOLEAN
  BY DEF Session
<1>2. PICK p \in BOOLEAN, q \in BOOLEAN : p = (x.overtaken \/ o) /\ q = (x.disturbed \/ d)
  BY <1>1
<1>3. y = [x EXCEPT !.overtaken = p, !.disturbed = q]
  BY <1>2
<1> QED
  BY <1>1, <1>2, <1>3 DEF Session, Marked

LEMMA DestroyBankKeeps ==
  ASSUME IInv, NEW b \in DOMAIN banks, DestroyBank(b)
  PROVE  IInv'
<1>1. /\ banks' = [banks EXCEPT ![b].is_active = FALSE]
      /\ ses' = [t \in Sessions |-> [ses[t] EXCEPT !.disturbed = @ \/ ses[t].bank = b]]
      /\ UNCHANGED <<accounts, owned, colds, deposits>>
  BY DEF DestroyBank
<1>2. /\ banks \in Seq(UserBank) /\ DOMAIN banks = 1..Len(banks) /\ Len(banks) \in Nat
      /\ \A c \in DOMAIN banks : banks[c] \in UserBank
  BY TablesHaveType DEF IInv, TypeOK
<1>3. /\ banks' \in Seq(UserBank) /\ DOMAIN banks' = DOMAIN banks
      /\ \A c \in DOMAIN banks : c # b => banks'[c] = banks[c]
  <2> DEFINE row == [banks[b] EXCEPT !.is_active = FALSE]
  <2>1. PICK no \in BOOLEAN : no = FALSE
    OBVIOUS
  <2>2. row = [banks[b] EXCEPT !.is_active = no]
    BY <2>1
  <2>3. row \in UserBank
    BY <1>2, <2>2 DEF UserBank
  <2>4. banks' = [banks EXCEPT ![b] = row]
    BY <1>1
  <2> HIDE DEF row
  <2>5. banks' \in Seq(UserBank)
    BY <1>2, <2>3, <2>4, ExceptSeq
  <2> QED
    BY <1>2, <2>4, <2>5
<1>4. ASSUME NEW t \in Sessions
      PROVE  \E y \in Session : /\ y = [ses[t] EXCEPT !.disturbed = @ \/ ses[t].bank = b]
                                /\ Marked(ses[t], y, FALSE, ses[t].bank = b)
  <2>1. ses[t] \in Session /\ (ses[t].bank = b) \in BOOLEAN
    BY TablesHaveType DEF IInv
  <2> QED
    BY <2>1, MarksAreSessions
<1>5. ASSUME NEW t \in Sessions
      PROVE  ses'[t] \in Session /\ Marked(ses[t], ses'[t], FALSE, ses[t].bank = b)
  BY <1>1, <1>4
<1>6. DOMAIN ses' = Sessions /\ ses' = [t \in Sessions |-> ses'[t]]
  BY <1>1
<1>7. ses' \in [Sessions -> Session]
  BY <1>5, <1>6
<1>8. ASSUME NEW t \in Sessions
      PROVE  /\ ses'[t].bank \in {0} \union DOMAIN banks'
             /\ ses'[t].cold \in {0} \union DOMAIN colds'
  BY <1>1, <1>3, <1>5 DEF IInv, TypeOK, Marked
<1>9. TypeOK'
  BY <1>1, <1>3, <1>7, <1>8 DEF IInv, TypeOK
<1>10. AccountsGrow /\ OwnedAccountsExist /\ ColdsAreApart
  BY <1>1 DEF AccountsGrow, IInv
<1>11. ASSUME NEW t \in Sessions PROVE SessionIsGood(ses[t])' /\ RequestIsGood(t, ses[t])'
  <2>1. PICK x, y : x = ses[t] /\ y = ses'[t]
    OBVIOUS
  <2>2. Marked(x, y, FALSE, x.bank = b) /\ SessionIsGood(x)' /\ RequestIsGood(t, x)
    BY <1>1, <1>5, <1>10, <2>1, SessionStays DEF IInv
  <2>3. SessionIsGood(y)'
    BY <2>2, ZenonT(60) DEF SessionIsGood, Marked, IsPaidTo, IsChecked, IsMissing
  <2>4. RequestIsGood(t, y)'
    BY <1>3, <2>2 DEF RequestIsGood, Marked
  <2> QED
    BY <2>1, <2>3, <2>4 DEF SessionIsGood, RequestIsGood, IsPaidTo, IsChecked, IsMissing
<1> QED
  BY <1>1, <1>9, <1>10, <1>11, OwnedStays, ColdsStay DEF IInv

LEMMA CreateAccountKeeps ==
  ASSUME IInv, NEW s \in Sessions, CreateAccount(s)
  PROVE  IInv'
<1>1. /\ ses[s] \in Session /\ SessionIsGood(ses[s]) /\ RequestIsGood(s, ses[s])
      /\ ses[s].bank \in {0} \union DOMAIN banks /\ ses[s].cold \in {0} \union DOMAIN colds
      /\ ses[s].pc = "create" /\ CanCreate
      /\ UNCHANGED <<banks, colds, deposits>>
  BY TablesHaveType DEF IInv, TypeOK, CreateAccount, At
<1>2. PICK u \in Users, need \in Kinds \X Assets : IsMissing(ses[s], u, need)
  BY <1>1 DEF SessionIsGood
<1>3. /\ AddAccount(need[2], "active", need[1] = "fee")
      /\ owned' = owned \union {[user |-> u, kind |-> need[1], account |-> NewAccount,
                                 raced |-> ses[s].overtaken]}
      /\ ses' = [t \in Sessions |->
                   IF t = s THEN Proceed(ses[s], need, NewAccount)
                   ELSE [ses[t] EXCEPT !.overtaken = @ \/ SameNeed(s, t)]]
  BY <1>2 DEF CreateAccount, IsMissing
<1>4. /\ accounts' \in Seq(Account) /\ Len(accounts') <= MaxAccounts /\ AccountsGrow
      /\ NewAccount \in DOMAIN accounts' /\ accounts'[NewAccount].asset = need[2]
      /\ NewAccount \notin DOMAIN accounts /\ NewAccount \in 1..MaxAccounts
  <2>1. /\ "active" \in {"normal", "active", "passive"} /\ (need[1] = "fee") \in BOOLEAN
        /\ need[2] \in Assets
    OBVIOUS
  <2> QED
    BY <1>1, <1>3, <2>1, NewAccountGrows DEF IInv
<1>5. PICK o \in UserAccount :
        /\ o.user = u /\ o.kind = need[1] /\ o.account = NewAccount
        /\ o.raced = ses[s].overtaken /\ owned' = owned \union {o}
  <2> DEFINE o == [user |-> u, kind |-> need[1], account |-> NewAccount,
                   raced |-> ses[s].overtaken]
  <2>1. ses[s].overtaken \in BOOLEAN
    BY <1>1 DEF Session
  <2>2. o \in UserAccount
    BY <1>4, <2>1 DEF UserAccount
  <2> QED
    BY <1>3, <2>2
<1>6. /\ \A p \in owned : p.account \in DOMAIN accounts
      /\ \A p \in owned : accounts'[p.account] = accounts[p.account]
  BY <1>4 DEF IInv, OwnedAccountsExist, AccountsGrow
<1>7. OwnedAccountsExist'
  BY <1>4, <1>5, <1>6 DEF OwnedAccountsExist, AccountsGrow
<1>8. ASSUME NEW v, NEW n \in Kinds \X Assets, v # u \/ n # need
      PROVE  Owned(v, n)' = Owned(v, n)
  <2>1. n = <<n[1], n[2]>> /\ need = <<need[1], need[2]>>
    OBVIOUS
  <2>2. ~(o.user = v /\ o.kind = n[1] /\ accounts'[o.account].asset = n[2])
    BY <1>4, <1>5, <1>8, <2>1
  <2> QED
    BY <1>5, <1>6, <2>2 DEF Owned
<1>9. OneAccountUnlessRaced'
  <2> SUFFICES ASSUME NEW p \in owned', NEW q \in owned', p.user = q.user, p.kind = q.kind,
                      accounts'[p.account].asset = accounts'[q.account].asset,
                      ~p.raced, ~q.raced
               PROVE  p = q
    BY DEF OneAccountUnlessRaced
  <2>1. CASE p \in owned /\ q \in owned
    BY <1>6, <2>1 DEF IInv, OneAccountUnlessRaced
  <2>2. ASSUME NEW r \in owned, ~o.raced, r.user = o.user, r.kind = o.kind,
               accounts'[r.account].asset = accounts'[o.account].asset
        PROVE  FALSE
    <3>1. Owned(u, need) = {}
      BY <1>2, <1>5, <2>2 DEF IsMissing
    <3>2. r \in Owned(u, need)
      BY <1>4, <1>5, <1>6, <2>2 DEF Owned
    <3> QED
      BY <3>1, <3>2
  <2> QED
    BY <1>5, <2>1, <2>2
<1>10. PICK z \in Session :
         /\ z = Proceed(ses[s], need, NewAccount) /\ z.pc # "create"
         /\ SessionIsGood(z) /\ RequestIsGood(s, z)
         /\ z.bank \in {0, ses[s].bank} /\ z.cold \in {0, ses[s].cold}
  BY <1>1, <1>4, Proceeds
<1>11. ASSUME NEW t \in Sessions, t # s
       PROVE  ses'[t] \in Session /\ Marked(ses[t], ses'[t], SameNeed(s, t), FALSE)
  <2>1. ses[t] \in Session /\ SameNeed(s, t) \in BOOLEAN
    BY TablesHaveType DEF IInv, SameNeed
  <2>2. ses'[t] = [ses[t] EXCEPT !.overtaken = @ \/ SameNeed(s, t)]
    BY <1>3, <1>11
  <2>3. PICK b \in BOOLEAN : b = SameNeed(s, t)
    BY <2>1
  <2>4. ses'[t] = [ses[t] EXCEPT !.overtaken = @ \/ b]
    BY <2>2, <2>3
  <2>5. \E y \in Session : y = [ses[t] EXCEPT !.overtaken = @ \/ b]
                            /\ Marked(ses[t], y, b, FALSE)
    BY <2>1, MarksAreSessions
  <2>6. ses'[t] \in Session /\ Marked(ses[t], ses'[t], b, FALSE)
    BY <2>4, <2>5
  <2> QED
    BY <2>3, <2>6
<1>12. /\ ses'[s] = z /\ DOMAIN ses' = Sessions /\ ses' = [t \in Sessions |-> ses'[t]]
  BY <1>3, <1>10
<1>13. ASSUME NEW t \in Sessions
       PROVE  /\ ses'[t] \in Session /\ ses'[t].bank \in {0} \union DOMAIN banks
              /\ ses'[t].cold \in {0} \union DOMAIN colds
  <2>1. CASE t = s
    BY <1>1, <1>10, <1>12, <2>1
  <2>2. CASE t # s
    BY <1>11, <2>2 DEF IInv, TypeOK, Marked
  <2> QED
    BY <2>1, <2>2
<1>14. TypeOK'
  <2>1. ses' \in [Sessions -> Session]
    BY <1>12, <1>13
  <2>2. owned' \subseteq UserAccount
    BY <1>5 DEF IInv, TypeOK
  <2> QED
    BY <1>1, <1>4, <1>13, <2>1, <2>2 DEF IInv, TypeOK
<1>15. BanksGrow /\ ColdsAreApart
  BY <1>1 DEF BanksGrow, IInv
<1>16. ASSUME NEW x, SessionIsGood(x)
       PROVE  /\ \A v : IsPaidTo(x, v) => IsPaidTo(x, v)'
              /\ \A form : IsChecked(x, form) => IsChecked(x, form)'
              /\ x.pc # "create" => SessionIsGood(x)'
  <2>1. \A v : IsPaidTo(x, v) => IsPaidTo(x, v)'
    BY <1>1, <1>4, <1>15, ColdsStay DEF IsPaidTo, AccountsGrow
  <2>2. \A form : IsChecked(x, form) => IsChecked(x, form)'
    BY <1>1, <1>4, <1>15, ColdsStay DEF IsChecked
  <2> QED
    BY <1>16, <2>1, <2>2 DEF SessionIsGood
<1>17. ASSUME NEW t \in Sessions PROVE SessionIsGood(ses[t])' /\ RequestIsGood(t, ses[t])'
  <2>1. CASE t = s
    <3>1. SessionIsGood(z)' /\ RequestIsGood(t, z)'
      BY <1>10, <1>15, <1>16, <2>1, RequestStays
    <3> QED
      BY <1>12, <2>1, <3>1
         DEF SessionIsGood, RequestIsGood, IsPaidTo, IsChecked, IsMissing
  <2>2. CASE t # s
    <3>1. PICK x, y : x = ses[t] /\ y = ses'[t]
      OBVIOUS
    <3>2. Marked(x, y, SameNeed(s, t), FALSE) /\ SessionIsGood(x) /\ RequestIsGood(t, x)
      BY <1>11, <2>2, <3>1 DEF IInv
    <3>3. ASSUME NEW v \in Users, NEW n \in Kinds \X Assets, IsMissing(x, v, n),
                 x.pc = "create"
          PROVE  IsMissing(y, v, n)'
      <4>1. CASE v = u /\ n = need
        <5>1. SameNeed(s, t)
          BY <1>2, <3>1, <3>3, <4>1 DEF SameNeed, At, IsMissing
        <5> QED
          BY <3>2, <3>3, <5>1 DEF IsMissing, Marked
      <4>2. CASE v # u \/ n # need
        <5>1. Owned(v, n)' = Owned(v, n)
          BY <1>8, <4>2
        <5> QED
          BY <3>2, <3>3, <5>1 DEF IsMissing, Marked
      <4> QED
        BY <4>1, <4>2
    <3>4. \A v : IsPaidTo(x, v) => IsPaidTo(y, v)'
      <4>1. \A v : IsPaidTo(x, v) => IsPaidTo(x, v)'
        BY <1>16, <3>2
      <4>2. \A v : IsPaidTo(x, v)' => IsPaidTo(y, v)'
        BY <3>2 DEF IsPaidTo, Marked
      <4> QED
        BY <4>1, <4>2
    <3>5. \A form : IsChecked(x, form) => IsChecked(y, form)'
      <4>1. \A form : IsChecked(x, form) => IsChecked(x, form)'
        BY <1>16, <3>2
      <4>2. \A form : IsChecked(x, form)' => IsChecked(y, form)'
        BY <3>2 DEF IsChecked, Marked
      <4> QED
        BY <4>1, <4>2
    <3>6. SessionIsGood(y)'
      BY <3>2, <3>3, <3>4, <3>5 DEF SessionIsGood, Marked
    <3>7. RequestIsGood(t, y)'
      <4>1. RequestIsGood(t, y)
        BY <3>2 DEF RequestIsGood, Marked
      <4> QED
        BY <1>15, <4>1, RequestStays
    <3> QED
      BY <3>1, <3>6, <3>7
         DEF SessionIsGood, RequestIsGood, IsPaidTo, IsChecked, IsMissing
  <2> QED
    BY <2>1, <2>2
<1> QED
  BY <1>1, <1>4, <1>7, <1>9, <1>14, <1>15, <1>17, ColdsStay DEF IInv

LEMMA SaveColdKeeps ==
  ASSUME IInv, NEW s \in Sessions, SaveCold(s)
  PROVE  IInv'
<1>0. PICK k : k = ses[s].cold
  OBVIOUS
<1>1. /\ ses[s] \in Session /\ SessionIsGood(ses[s]) /\ k \in {0} \union DOMAIN colds
      /\ ses[s].pc = "coldsave" /\ CanCreate
      /\ UNCHANGED <<owned, banks, deposits>>
  BY <1>0, TablesHaveType DEF IInv, TypeOK, SaveCold, At
<1>2. PICK form \in ColdForm : IsChecked(ses[s], form)
  BY <1>1 DEF SessionIsGood
<1> DEFINE isMarked(t) == /\ At(t, "coldsave") /\ form.active
                          /\ form.asset \in {f.asset : f \in ses[t].form}
<1>3. /\ form.active \in BOOLEAN /\ form.asset \in Assets /\ ses[s].overtaken \in BOOLEAN
  BY <1>1 DEF ColdForm, Session
<1>4. PICK row : row = [is_active |-> form.active, account |-> ColdAccount(form.asset),
                        raced |-> form.active /\ ses[s].overtaken]
  OBVIOUS
<1>5. /\ AddAccount(form.asset, "passive", TRUE)
      /\ colds' = IF k = 0 THEN Append(colds, row) ELSE [colds EXCEPT ![k] = row]
      /\ ses' = [t \in Sessions |->
           IF t = s THEN Idle
           ELSE [ses[t] EXCEPT !.overtaken = @ \/ isMarked(t),
                               !.disturbed = @ \/ ReliesOn(t, form.asset)]]
  <2>1. ses[s].form = {form}
    BY <1>2 DEF IsChecked
  <2>2. PICK f \in ses[s].form :
          /\ AddAccount(f.asset, "passive", TRUE)
          /\ colds' = IF ses[s].cold = 0
                      THEN Append(colds, [is_active |-> f.active,
                                          account |-> ColdAccount(f.asset),
                                          raced |-> f.active /\ ses[s].overtaken])
                      ELSE [colds EXCEPT ![ses[s].cold] =
                              [is_active |-> f.active, account |-> ColdAccount(f.asset),
                               raced |-> f.active /\ ses[s].overtaken]]
          /\ ses' = [t \in Sessions |->
               IF t = s THEN Idle
               ELSE [ses[t] EXCEPT
                       !.overtaken = \/ @
                                     \/ /\ At(t, "coldsave") /\ f.active
                                        /\ f.asset \in {g.asset : g \in ses[t].form},
                       !.disturbed = @ \/ ReliesOn(t, f.asset)]]
    BY DEF SaveCold
  <2>3. f = form
    BY <2>1
  <2> QED
    BY <1>0, <1>4, <2>2, <2>3
<1>6. /\ accounts' \in Seq(Account) /\ Len(accounts') <= MaxAccounts /\ AccountsGrow
      /\ NewAccount \in DOMAIN accounts' /\ accounts'[NewAccount].asset = form.asset
      /\ NewAccount \notin DOMAIN accounts /\ NewAccount \in 1..MaxAccounts
  <2>1. "passive" \in {"normal", "active", "passive"} /\ TRUE \in BOOLEAN
    OBVIOUS
  <2> QED
    BY <1>1, <1>3, <1>5, <2>1, NewAccountGrows DEF IInv
<1>7. /\ row \in ColdBank /\ row.is_active = form.active /\ row.account = NewAccount
      /\ row.raced = (form.active /\ ses[s].overtaken)
  <2>1. (form.active /\ ses[s].overtaken) \in BOOLEAN
    OBVIOUS
  <2> QED
    BY <1>3, <1>4, <1>6, <2>1 DEF ColdBank, ColdAccount
<1>n. PICK new : new = IF k = 0 THEN Len(colds) + 1 ELSE k
  OBVIOUS
<1>8. /\ colds \in Seq(ColdBank) /\ Len(colds) \in Nat /\ DOMAIN colds = 1..Len(colds)
  BY TablesHaveType DEF IInv, TypeOK
<1>9. /\ colds' \in Seq(ColdBank) /\ DOMAIN colds' = DOMAIN colds \union {new}
      /\ \A c \in DOMAIN colds : c # new => colds'[c] = colds[c]
      /\ colds'[new] = row /\ (new \in DOMAIN colds => new = k) /\ k \in {0, new} /\ new # 0
  <2>1. CASE k = 0
    <3>1. colds' = Append(colds, row)
      BY <1>5, <2>1
    <3>2. /\ colds' \in Seq(ColdBank) /\ DOMAIN colds' = 1..(Len(colds) + 1)
          /\ \A c \in 1..Len(colds) : colds'[c] = colds[c]
          /\ colds'[Len(colds) + 1] = row
      BY <1>7, <1>8, <3>1, AppendProperties, LenProperties
    <3> QED
      BY <1>n, <1>8, <2>1, <3>2
  <2>2. CASE k # 0
    <3>1. colds' = [colds EXCEPT ![k] = row] /\ k \in 1..Len(colds)
      BY <1>1, <1>5, <1>8, <2>2
    <3>2. colds' \in Seq(ColdBank)
      BY <1>7, <1>8, <3>1, ExceptSeq
    <3> QED
      BY <1>n, <1>8, <2>2, <3>1, <3>2
  <2> QED
    BY <2>1, <2>2
<1>10. /\ \A c \in DOMAIN colds : colds[c].account \in DOMAIN accounts
       /\ \A c \in DOMAIN colds : accounts'[colds[c].account] = accounts[colds[c].account]
       /\ \A c \in DOMAIN colds : c # new => ColdAsset(c)' = ColdAsset(c)
       /\ ColdAsset(new)' = form.asset
       /\ new \in DOMAIN colds => ColdAsset(new) = form.asset
  <2>1. \A c \in DOMAIN colds : colds[c].account \in DOMAIN accounts
    BY DEF IInv, ColdsAreApart
  <2>2. \A c \in DOMAIN colds : accounts'[colds[c].account] = accounts[colds[c].account]
    BY <1>6, <2>1 DEF AccountsGrow
  <2>3. \A c \in DOMAIN colds : c # new => ColdAsset(c)' = ColdAsset(c)
    BY <1>9, <2>2 DEF ColdAsset
  <2>4. ColdAsset(new)' = form.asset
    BY <1>6, <1>7, <1>9 DEF ColdAsset
  <2>5. new \in DOMAIN colds => ColdAsset(new) = form.asset
    BY <1>0, <1>1, <1>2, <1>8, <1>9 DEF IsChecked
  <2> QED
    BY <2>1, <2>2, <2>3, <2>4, <2>5
<1>11. /\ \A a : a # form.asset => ActiveColds(a)' = ActiveColds(a)
       /\ \A c \in ActiveColds(form.asset)' : (c = new /\ form.active) \/ c \in ActiveColds(form.asset)
       /\ \A a : \A c \in ActiveColds(a) : a # form.asset => c # new
  <2>1. ASSUME NEW a, a # form.asset PROVE ActiveColds(a)' = ActiveColds(a)
    <3>1. new \notin ActiveColds(a) /\ new \notin ActiveColds(a)'
      BY <1>10, <2>1 DEF ActiveColds
    <3>2. \A c : c # new => (c \in ActiveColds(a) <=> c \in ActiveColds(a)')
      BY <1>9, <1>10 DEF ActiveColds
    <3> QED
      BY <3>1, <3>2 DEF ActiveColds
  <2>2. \A c \in ActiveColds(form.asset)' : (c = new /\ form.active) \/ c \in ActiveColds(form.asset)
    BY <1>7, <1>9, <1>10 DEF ActiveColds
  <2>3. \A a : \A c \in ActiveColds(a) : a # form.asset => c # new
    BY <1>10 DEF ActiveColds
  <2> QED
    BY <2>1, <2>2, <2>3
<1>12. ColdsAreApart'
  <2>1. \A c \in DOMAIN colds' : colds'[c].account \in DOMAIN accounts'
    BY <1>6, <1>7, <1>9, <1>10 DEF AccountsGrow
  <2>2. \A c, d \in DOMAIN colds' : colds'[c].account = colds'[d].account => c = d
    BY <1>6, <1>7, <1>9, <1>10 DEF IInv, ColdsAreApart
  <2> QED
    BY <2>1, <2>2 DEF ColdsAreApart
<1>13. OneColdUnlessRaced'
  <2> SUFFICES ASSUME NEW c \in DOMAIN colds', NEW d \in DOMAIN colds',
                      c \in ActiveColds(ColdAsset(c))', d \in ActiveColds(ColdAsset(c))',
                      ~colds'[c].raced, ~colds'[d].raced
               PROVE  c = d
    BY DEF OneColdUnlessRaced
  <2>1. CASE ColdAsset(c)' # form.asset
    <3>1. PICK a : a = ColdAsset(c)'
      OBVIOUS
    <3>2. /\ c \in ActiveColds(a)' /\ d \in ActiveColds(a)'
      BY <3>1 DEF ActiveColds
    <3>3. /\ c \in ActiveColds(a) /\ d \in ActiveColds(a) /\ c # new /\ d # new
      BY <1>11, <2>1, <3>1, <3>2
    <3>4. /\ c \in DOMAIN colds /\ d \in DOMAIN colds /\ ColdAsset(c) = a
          /\ ~colds[c].raced /\ ~colds[d].raced
      BY <1>9, <3>3 DEF ActiveColds
    <3> QED
      BY <3>3, <3>4 DEF IInv, OneColdUnlessRaced
  <2>2. CASE ColdAsset(c)' = form.asset
    <3>1. /\ c \in ActiveColds(form.asset)' /\ d \in ActiveColds(form.asset)'
      BY <2>2 DEF ActiveColds
    <3>2. CASE c # new /\ d # new
      <4>1. /\ c \in ActiveColds(form.asset) /\ d \in ActiveColds(form.asset)
        BY <1>11, <3>1, <3>2
      <4>2. /\ c \in DOMAIN colds /\ d \in DOMAIN colds /\ ColdAsset(c) = form.asset
            /\ ~colds[c].raced /\ ~colds[d].raced
        BY <1>9, <3>2, <4>1 DEF ActiveColds
      <4> QED
        BY <4>1, <4>2 DEF IInv, OneColdUnlessRaced
    <3>3. ASSUME NEW e \in ActiveColds(form.asset)', e # new, ~colds'[new].raced,
                 new \in ActiveColds(form.asset)'
          PROVE  FALSE
      <4>1. form.active
        BY <1>7, <1>9, <3>3 DEF ActiveColds
      <4>2. ~ses[s].overtaken
        BY <1>7, <1>9, <3>3, <4>1
      <4>3. e \in ActiveColds(form.asset) /\ e # k /\ e \in DOMAIN colds
        <5>1. e \in ActiveColds(form.asset)
          BY <1>11, <3>3
        <5>2. e \in DOMAIN colds
          BY <5>1 DEF ActiveColds
        <5> QED
          BY <1>8, <1>9, <3>3, <5>1, <5>2
      <4> QED
        BY <1>0, <1>2, <4>1, <4>2, <4>3 DEF IsChecked
    <3> QED
      BY <3>1, <3>2, <3>3
  <2> QED
    BY <2>1, <2>2
<1>14. ASSUME NEW t \in Sessions, t # s
       PROVE  /\ ses'[t] \in Session
              /\ Marked(ses[t], ses'[t], isMarked(t), ReliesOn(t, form.asset))
  <2>1. ses[t] \in Session /\ isMarked(t) \in BOOLEAN /\ ReliesOn(t, form.asset) \in BOOLEAN
    BY TablesHaveType DEF IInv, ReliesOn
  <2>2. ses'[t] = [ses[t] EXCEPT !.overtaken = @ \/ isMarked(t),
                                 !.disturbed = @ \/ ReliesOn(t, form.asset)]
    BY <1>5, <1>14
  <2> HIDE DEF isMarked
  <2>3. PICK a \in BOOLEAN, b \in BOOLEAN : a = isMarked(t) /\ b = ReliesOn(t, form.asset)
    BY <2>1
  <2>4. ses'[t] = [ses[t] EXCEPT !.overtaken = @ \/ a, !.disturbed = @ \/ b]
    BY <2>2, <2>3
  <2>5. PICK x \in Session : x = ses[t]
    BY <2>1
  <2>6. PICK y : y = [x EXCEPT !.overtaken = x.overtaken \/ a,
                               !.disturbed = x.disturbed \/ b]
    OBVIOUS
  <2>7. y \in Session /\ Marked(x, y, a, b)
    BY <2>6, BothMarksAreSessions
  <2>8. ses'[t] = y
    BY <2>4, <2>5, <2>6
  <2> QED
    BY <2>3, <2>5, <2>7, <2>8
<1>15. /\ ses'[s] = Idle /\ DOMAIN ses' = Sessions /\ ses' = [t \in Sessions |-> ses'[t]]
  BY <1>5
<1> HIDE DEF isMarked
<1>16. ASSUME NEW t \in Sessions
       PROVE  /\ ses'[t] \in Session /\ ses'[t].bank \in {0} \union DOMAIN banks
              /\ ses'[t].cold \in {0} \union DOMAIN colds'
  <2>1. CASE t = s
    BY <1>15, <2>1, IdleHasType
  <2>2. CASE t # s
    BY <1>9, <1>14, <2>2 DEF IInv, TypeOK, Marked
  <2> QED
    BY <2>1, <2>2
<1>17. TypeOK'
  <2>1. ses' \in [Sessions -> Session]
    BY <1>15, <1>16
  <2> QED
    BY <1>1, <1>6, <1>9, <1>16, <2>1 DEF IInv, TypeOK
<1>18. BanksGrow /\ OwnedAccountsExist
  BY <1>1 DEF BanksGrow, IInv
<1>19. ASSUME NEW t \in Sessions PROVE SessionIsGood(ses[t])' /\ RequestIsGood(t, ses[t])'
  <2>1. CASE t = s
    <3>1. PICK y : y = Idle
      OBVIOUS
    <3>2. SessionIsGood(y)' /\ RequestIsGood(t, y)'
      BY <3>1, IdleHasType DEF SessionIsGood, RequestIsGood
    <3> QED
      BY <1>15, <2>1, <3>1, <3>2
         DEF SessionIsGood, RequestIsGood, IsPaidTo, IsChecked, IsMissing
  <2>2. CASE t # s
    <3>1. PICK x, y : x = ses[t] /\ y = ses'[t]
      OBVIOUS
    <3>2. /\ Marked(x, y, isMarked(t), ReliesOn(t, form.asset))
          /\ SessionIsGood(x) /\ RequestIsGood(t, x)
      BY <1>14, <2>2, <3>1 DEF IInv
    <3>3. ASSUME NEW v, NEW n, IsMissing(x, v, n) PROVE IsMissing(y, v, n)'
      <4>1. Owned(v, n)' = Owned(v, n)
        BY <1>1, <1>6, <1>18, OwnedStays
      <4> QED
        BY <3>2, <3>3, <4>1 DEF IsMissing, Marked
    <3>4. ASSUME NEW v, IsPaidTo(x, v), x.pay # 0 PROVE IsPaidTo(y, v)'
      <4>1. /\ y.pay \in DOMAIN accounts' /\ accounts'[y.pay].asset = MainFiat(v)
        BY <1>6, <3>2, <3>4 DEF IsPaidTo, Marked, AccountsGrow
      <4>2. CASE MainFiat(v) = form.asset
        <5>1. ReliesOn(t, form.asset)
          BY <3>1, <3>4, <4>2 DEF ReliesOn, IsPaidTo
        <5> QED
          BY <3>2, <4>1, <5>1 DEF IsPaidTo, Marked
      <4>3. ASSUME MainFiat(v) # form.asset, ~y.disturbed
            PROVE  \E c \in DOMAIN colds' : /\ ActiveColds(MainFiat(v))' = {c}
                                            /\ colds'[c].account = y.pay
        <5>1. PICK c \in DOMAIN colds : /\ ActiveColds(MainFiat(v)) = {c}
                                        /\ colds[c].account = x.pay
          BY <3>2, <3>4, <4>3 DEF IsPaidTo, Marked
        <5>2. ActiveColds(MainFiat(v))' = {c} /\ c # new
          BY <1>11, <4>3, <5>1
        <5> QED
          BY <1>9, <3>2, <5>1, <5>2 DEF Marked
      <4> QED
        BY <4>1, <4>2, <4>3 DEF IsPaidTo, MainFiat, AllowedAssets
    <3>5. ASSUME NEW f \in ColdForm, IsChecked(x, f), x.pc = "coldsave" PROVE IsChecked(y, f)'
      <4>1. y.form = {f} /\ y.cold = x.cold
        BY <3>2, <3>5 DEF IsChecked, Marked
      <4>2. y.cold # 0 => y.cold \in DOMAIN colds' /\ ColdAsset(y.cold)' = f.asset
        BY <1>9, <1>10, <3>5, <4>1 DEF IsChecked
      <4>3. ASSUME f.active, ~y.overtaken PROVE ActiveColds(f.asset)' \ {y.cold} = {}
        <5>1. ~isMarked(t) /\ ~x.overtaken
          BY <3>2, <4>3 DEF Marked
        <5>2. ~(form.active /\ f.asset = form.asset)
          BY <3>1, <3>5, <5>1 DEF isMarked, At, IsChecked
        <5>3. ActiveColds(f.asset) \ {x.cold} = {}
          BY <3>5, <4>3, <5>1 DEF IsChecked
        <5>4. ActiveColds(f.asset)' \subseteq ActiveColds(f.asset)
          BY <1>11, <5>2
        <5> QED
          BY <4>1, <5>3, <5>4
      <4> QED
        BY <4>1, <4>2, <4>3 DEF IsChecked
    <3>6. SessionIsGood(y)'
      BY <3>2, <3>3, <3>4, <3>5 DEF SessionIsGood, Marked
    <3>7. RequestIsGood(t, y)'
      <4>1. RequestIsGood(t, y)
        BY <3>2 DEF RequestIsGood, Marked
      <4> QED
        BY <1>18, <4>1, RequestStays
    <3> QED
      BY <3>1, <3>6, <3>7
         DEF SessionIsGood, RequestIsGood, IsPaidTo, IsChecked, IsMissing
  <2> QED
    BY <2>1, <2>2
<1> QED
  BY <1>1, <1>6, <1>12, <1>13, <1>17, <1>18, <1>19, OwnedStays DEF IInv

-----------------------------------------------------------------------------
(* The theorems.                                                           *)

LEMMA StepInvariant == IInv /\ [Next]_vars => IInv'
<1> SUFFICES ASSUME IInv, [Next]_vars PROVE IInv'
  OBVIOUS
<1>1. CASE \E b \in DOMAIN banks : DestroyBank(b)
  BY <1>1, DestroyBankKeeps
<1>2. ASSUME NEW s \in Web, WebStep(s) PROVE IInv'
  <2>1. s \in Sessions
    BY DEF Sessions
  <2>2. CASE \E u \in Users, k \in Kinds : ListAccounts(s, u, k)
    BY <2>1, <2>2, ListAccountsKeeps
  <2>3. CASE \E u \in Users, swift \in Swifts, iban \in Ibans : CreateBank(s, u, swift, iban)
    BY <2>1, <2>3, CreateBankKeeps
  <2>4. CASE \E u \in Users, b \in DOMAIN banks, amount \in Amounts :
               BeginDeposit(s, u, b, amount)
    BY <2>1, <2>4, BeginsKeep
  <2>5. CASE Respond(s)
    BY <2>1, <2>5, FinishKeeps DEF Respond
  <2> QED
    BY <1>2, <2>2, <2>3, <2>4, <2>5 DEF WebStep
<1>3. ASSUME NEW s \in Admins, AdminStep(s) PROVE IInv'
  <2>1. s \in Sessions
    BY DEF Sessions
  <2>2. CASE \E c \in 0..Len(colds), form \in ColdForm : OpenCold(s, c, form)
    BY <2>1, <2>2, OpenColdKeeps
  <2>3. CASE SaveCold(s)
    BY <2>1, <2>3, SaveColdKeeps
  <2>4. CASE \E u \in Users, swift \in Swifts, iban \in Ibans, amount \in Amounts :
               BeginPayment(s, u, swift, iban, amount)
    BY <2>1, <2>4, BeginsKeep
  <2>5. CASE FindBank(s)
    BY <2>5, FindBankKeeps
  <2> QED
    BY <1>3, <2>2, <2>3, <2>4, <2>5 DEF AdminStep
<1>4. CASE \E s \in Sessions : Lookup(s) \/ CreateAccount(s) \/ ReadCold(s) \/ InsertDeposit(s)
  BY <1>4, LookupKeeps, CreateAccountKeeps, ReadColdKeeps, InsertDepositKeeps
<1>5. CASE UNCHANGED vars
  <2>1. UNCHANGED accounts /\ UNCHANGED owned /\ UNCHANGED banks /\ UNCHANGED colds
        /\ UNCHANGED deposits /\ UNCHANGED ses
    BY <1>5 DEF vars
  <2>2. AccountsGrow /\ BanksGrow /\ TypeOK'
    BY <2>1 DEF AccountsGrow, BanksGrow, IInv, TypeOK
  <2>3. ASSUME NEW s \in Sessions PROVE SessionIsGood(ses[s])' /\ RequestIsGood(s, ses[s])'
    <3>1. PICK x : x = ses[s]
      OBVIOUS
    <3>2. SessionIsGood(x)' /\ RequestIsGood(s, x)'
      BY <2>1, <2>2, <3>1, SessionStays, RequestStays DEF IInv
    <3> QED
      BY <2>1, <3>1, <3>2
         DEF SessionIsGood, RequestIsGood, IsPaidTo, IsChecked, IsMissing
  <2> QED
    BY <2>1, <2>2, <2>3, OwnedStays, ColdsStay DEF IInv
<1> QED
  BY <1>1, <1>2, <1>3, <1>4, <1>5 DEF Next

(* What the tables and the sessions hold of each other is kept by every    *)
(* step.                                                                   *)
THEOREM InductiveInvariant == Spec => []IInv
  BY InitInvariant, StepInvariant, PTL DEF Spec

(* The tables hold what their columns say, and every deposit an amount     *)
(* (create_deposit).                                                       *)
THEOREM TypeCorrectness == Spec => []TypeOK
<1>1. IInv => TypeOK
  BY DEF IInv
<1> QED
  BY <1>1, InductiveInvariant, PTL

(* A user has one account of a kind for an asset, but for the ones made by *)
(* requests that ran together (UserAccountManager.for_customer).           *)
THEOREM AccountsAreMadeOnce == Spec => []OneAccountUnlessRaced
<1>1. IInv => OneAccountUnlessRaced
  BY DEF IInv
<1> QED
  BY <1>1, InductiveInvariant, PTL

(* A currency has one active deposit account, but for the ones that forms  *)
(* saved together (ColdBankAccountForm).                                   *)
THEOREM OneColdPerCurrency == Spec => []OneColdUnlessRaced
<1>1. IInv => OneColdUnlessRaced
  BY DEF IInv
<1> QED
  BY <1>1, InductiveInvariant, PTL

(* The account of a deposit's leg is of one deposit account at most        *)
(* (DepositOperationSerializer.get_deposit_bank_account).                  *)
THEOREM DepositsNameOneCold == Spec => []DepositHasOneCold
<1>1. IInv => DepositHasOneCold
  BY DEF IInv, ColdsAreApart, DepositHasOneCold
<1> QED
  BY <1>1, InductiveInvariant, PTL

(* A request answers with the account that its deposit debits, unless it   *)
(* was disturbed (WireTransferDepositSerializer).                          *)
THEOREM AnswersAreOfTheDeposit == Spec => []ShownIsDebited
<1>1. ASSUME IInv PROVE ShownIsDebited
  <2> SUFFICES ASSUME NEW s \in Web, At(s, "respond"), ~ses[s].disturbed
               PROVE  /\ banks[ses[s].bank].is_active
                      /\ \A u \in ses[s].user :
                           \E c \in DOMAIN colds : /\ ActiveColds(MainFiat(u)) = {c}
                                                   /\ colds[c].account = ses[s].pay
    BY DEF ShownIsDebited
  <2>1. SessionIsGood(ses[s]) /\ RequestIsGood(s, ses[s])
    BY <1>1 DEF IInv, Sessions
  <2>2. ses[s].pay # 0
    BY <2>1 DEF SessionIsGood, At
  <2> QED
    BY <2>1, <2>2 DEF SessionIsGood, RequestIsGood, IsPaidTo
<1> QED
  BY <1>1, InductiveInvariant, PTL

=============================================================================
