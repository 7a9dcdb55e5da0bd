# Verification of the jibrel.com backend

This directory holds TLA+ models of the backend in `src/`, the TLC
configurations that check them on small instances, and theorems that TLAPS
proves for instances of any size. Definitions are translated from the code;
`PROJECT.json` maps each one to the lines it stands for, lists the hazards of
the code with the properties that cover them, and names for every property a
mistake in the code that would break it.

Contents: [1 The system](#1-the-system), [2 Modules](#2-modules),
[3 Ledger](#3-ledger), [4 Investment](#4-investment-applications),
[5 Phone](#5-phone-verification), [6 KYC](#6-kyc-submissions-and-screening),
[7 Authentication](#7-authentication), [8 Offerings](#8-offerings),
[9 Banking](#9-accounts-and-banks), [10 Runs](#10-runs-and-bounds),
[11 Variants](#11-variants), [12 Proofs](#12-proofs),
[13 Divergences](#13-what-the-models-say-of-the-code),
[14 Not modelled](#14-not-modelled), [15 Plan](#15-what-is-left).

## 1. The system

The backend is a Django project with three kinds of processes on one PostgreSQL
database: the API (`jibrel`), Celery workers, and an admin site
(`jibrel_admin`). The isolation level is READ COMMITTED, there are no
`ATOMIC_REQUESTS`, and rows are hardly ever locked, so the order in which these
processes read and write decides most of what follows. The admin process has a
database of its own for its users and log; a router sends the models of the
business to the main one (`jibrel_admin/db/router.py`,
`jibrel_admin/settings/__init__.py:90-110`). A `transaction.atomic()` without an
alias therefore opens, in the admin process, a transaction on the admin's
database, while the statements on business rows run in autocommit.

Three habits of the code recur in every component, and every module keeps them:

* *read, decide, write*: a request reads a row, tests it, calls another service or
  renders a form, and writes later;
* *save()* without `update_fields` writes every column of the row as it was read;
* *queue, then write*: a message goes to Celery before the request has written what
  the task relies on. Tasks are acknowledged when a worker takes them, so a
  worker that dies loses its task.

### Inventory

| Component | State | Operations | Interacts with | Module |
|---|---|---|---|---|
| Ledger (`django_banking/models`) | operations and their signed transactions, accounts | create deposit, withdrawal, exchange, refund; validate; hold; commit, cancel, reject; balances, lists | API, payment form, admin tools | `Ledger`, `Statements` |
| Investment applications (`jibrel/investment`) | applications, agreements, queued tasks | apply, prepare an envelope, finish signing, add payment, edit, delete, cancel on refund; totals | DocuSign, Celery, ledger, admin | `Investment`, `Portfolio`, `ApplicationLifecycle` |
| Offerings (`jibrel/campaigns`) | offerings with a status pipeline, dates and terms | add, edit, delete; accept applications | applications, subscriptions | `Offerings` |
| Subscriptions (`jibrel/investment`) | one row per user and waitlisted offering | subscribe | offerings | `Offerings` |
| KYC submissions (`jibrel/kyc`) | submissions, beneficiaries, the profile's `kyc_status` and `last_kyc` | submit, approve, reject, clone, draft, edit, delete | admin, Onfido | `KycSubmission` |
| Onfido screening (`jibrel/kyc/tasks.py`) | applicant, check and result columns of a submission | create applicant, upload, start check, save result; retries | Onfido, the submission the admin edits | `KycSubmission` |
| Phone verification (`jibrel/kyc`) | phones, verifications | set a number, request a code, submit a pin; two tasks | Twilio, Celery, limiters | `PhoneVerification` |
| Tokens (`jibrel/authentication`) | users, one-time tokens | register, confirm, change and reset a password | mails, limiters, admin | `Authentication` |
| Limiters (`core/limits.py`) | none: windows over other tables | when is the next call welcome | tokens, phones | `Limits` |
| Account provisioning (`accounts/managers.py`) | accounts of users and fees | list, get or create | ledger, deposits | `Banking` |
| Wire transfers (`contrib/wire_transfer`) | users' and cold bank accounts, requested deposits | add and delete a bank account, edit a cold one, deposit, record a payment | ledger, admin | `Banking` |
| Assets, fees (`models/assets`, `models/fee`) | assets, fees | which assets a customer may use | banking | `Banking`, `Ledger` |
| Crypto, cards (`contrib/crypto`, `contrib/card`) | wallets, charges | none reachable at this commit | ledger | not modelled |
| Wallets (`jibrel/wallets`) | wallets with a version | create, update, delete | none | not modelled |
| Notifications (`jibrel/notifications`) | call logs | log a call, mail | every task | not modelled |

What is hard, and what makes each component correct:

* **Ledger.** A request inserts its operation in one transaction, validates it by
  one query per account, and holds it by another statement; nothing is locked.
  The manager's answer is to show the new operation to everyone before
  validating, and to delete it if it is refused. Correct means: money is not spent
  twice, an operation that counts is balanced and was held before it is
  committed, and the lists that users and the office read agree with the balances.
* **Investment applications.** Two tasks, the API and admins write the same row,
  some by columns and some whole. DocuSign calls may fail after they had their
  effect, and workers die. Correct means: only signed applications are submitted;
  what the statuses and totals say of the money is true; no draft is stuck.
* **Offerings.** A form is checked against rows it has read. Correct: statuses
  follow the pipeline, campaigns of a company do not cross, no row refers to an
  offering that was deleted, applications are accepted while it is open.
* **KYC and Onfido.** Tasks and the admin save whole rows over one another, and
  tasks are retried. Correct: only an approval verifies a profile, a user is not shut
  out by a pending profile without a submission, a result is of the person whose
  data the row holds, and a screening ends.
* **Phone verification.** The request writes its status after it has queued the
  task that writes the next one; Twilio's errors are answered with the
  verification created last, of whatever phone. Correct: a verified phone
  was approved, pins are checked against the phone's own number, and only older
  work takes a confirmation away.
* **Tokens.** Reading a token and marking it are apart; a key is used for two
  steps. Correct: what is confirmed was mailed, a key is spent, mails are limited.
* **Provisioning and banks.** Test, then insert; a cold account gets another ledger
  account each time it is edited. Correct: accounts are doubled only by a race,
  a deposit takes from the account the user is told to pay to.

## 2. Modules

| Module | What it is | Extends |
|---|---|---|
| `Ledger` | operations, their validation and the tools of the office | |
| `Statements` | what users and the office read of the ledger | `Ledger` |
| `Investment` | applications, tasks, payments and refunds | |
| `Portfolio` | statistics, payment statuses and totals of the applications | `Investment` |
| `ApplicationLifecycle` | what one application goes through: the abstract specification | |
| `Limits` | the limiters, as functions of the instants recorded | |
| `PhoneVerification` | the phones of a profile, with Twilio | `Limits` |
| `KycSubmission` | the submissions of a profile, with Onfido | |
| `Authentication` | one user's email, password and tokens | `Limits` |
| `Offerings` | the offerings of a company, subscriptions, accepting applications | |
| `Banking` | accounts made on demand, bank accounts, deposits | |
| `MC...` | small instances for TLC | the module |
| `...Proofs` | theorems and their proofs (`LedgerProofs` is about `Statements` too, `InvestmentProofs` about `Portfolio`) | the module, `TLAPS` |
| `SumTheorems` | facts about sums over finite sets, for the proofs | `TLAPS` |

Investment composes with the others at its edges: a deposit it pays with is
one that `Ledger` has committed; `Offerings` says when an application may be made and
leaves what follows to `Investment`; the deposit that `Banking` requests is the one
`Ledger` validates. Each of these modules takes its neighbour's part as an
action with every outcome the neighbour allows.

A step is one statement or one transaction on the main database, one message to
the queue, or one call to another service with the read before it. What a
process remembers between two steps is in `ses` (or `web`, `office`, `tasks`,
`chains`): its position, the row it has read and what it was told. External services
(DocuSign, Twilio, Onfido) are modelled from how the code uses them: they may
answer, refuse, fail, or fail after the call had its effect.

Some variables and fields are no state of the program; properties read them and
no guard does: `seen` of sessions and tasks (phone), `approved` and `hasty` (KYC),
`byAdmin` and `used` (authentication), `stale` (offerings), `raced`,
`overtaken` and `disturbed` (banking). They remember that something happened
between a read and the write that follows it.

## 3. Ledger

`Ledger.tla` models `OperationManager`, the models `Operation`, `Transaction`
and `Account`, the admin's pages of deposits and withdrawals, and the refund tool.

| State | Code |
|---|---|
| `ops` | the `Operation` table; `txs` are an operation's `Transaction` rows, `deposit` the reference that a refund keeps |
| `hidden` | operations inserted by a transaction that is still open |
| `ses` | for each request: where it is, the operation it works on, and the accounts `is_valid` has still to query |

`Insert` is the `atomic` block of `create_deposit` and `create_exchange`;
`CheckAccount` is one query of `Account.is_valid`; `Pass` and `Refuse` are its two
ends, with the deletion of the operation; `HoldSave`, `CommitSave`, `CancelSave`
and `RejectSave` write one column. Validation runs twice, because `hold()`
validates again. `create_withdrawal` is one transaction altogether, so its
operation stays in `hidden` until it is held; so does the deposit of the payment
form (`AddPayment`), which commits it as well. `CommitLoad`, `CancelLoad` and
`RefundLoad` read a row and test what they have read; the status is written
later, over whatever it has become. `RefundInsert`, `RefundDebit` and
`RefundCredit` are three statements, since `atomic()` in the admin process is on
the other database. `Crash` ends a session anywhere; an open transaction is
rolled back, rows that were written stay.

`AccountValid`, `TxValid` and `IsBalanced` are the three validations.
`Lowest` and `Highest` are the accounts `first()` and `last()` return, any of them
where amounts are equal. Amounts are integers: the code adds and compares
decimals and rounds nothing in these methods. `Shown` is the filter of
`with_balances`. `reject()` has no caller at this commit and is kept as a command.

`Statements.tla` adds no steps. It defines what the annotations of
`PaymentOperationQuerySet` and `OperationQuerySet` and the serializers make of a row:
`DebitLegs`, `CreditLegs` and their assets, by type (a buy tells its legs by
sign, a sell by asset), what came in and went out (`CameIn`, `WentOut`), the
statuses an item may show, and the office's `Amount`, `Fee` and `TotalAmount`.

Properties: `NoDoubleSpend`, `ShownIsSpendable`, `StatementsAddUp` (what the list
says came in less what went out is the balance `is_valid` works with),
`PayoutsReconcile` (the totals of committed withdrawals are what the ledger put
on bank accounts), `HeldIsSound`, `CommittedWasHeld`, `HeldNeverRemoved`.

## 4. Investment applications

`Investment.tla` models applications to one offering.

| State | Code |
|---|---|
| `apps` | the `InvestmentApplication` table: user, `status`, `subscription_agreement_status`, `deposit`, `amount` |
| `envelope` | DocuSign's state of the application's envelope (external) |
| `deposits`, `refunds` | deposits the ledger has committed for an application; how many refunds of each are held or committed |
| `queue` | how often each Celery task of each application waits |
| `ses` | what each request or task is doing, the row it has read, the envelope status it was told |

API: `CheckExisting`, `InsertDraft` and `EnqueueStart` are
`CreateInvestmentApplicationAPIView`; `FinishSigning` is the action of that name.
Tasks: `StartLoad`, `StartSave`, `StartCall`, `Prepare` and `TaskError` are
`docu_sign_start_task`; `FinishLoad`, `ValidatingSave`, `GetEnvelope`,
`FinishSave`, `Notify` and `TaskError` are `docu_sign_finish_task`. A call to
DocuSign fails with or without effect. `save()` without `update_fields` writes
the row that was read (`StartSave`, `PaySave`, `EditSave`); the other writes are
of columns. Admin: `PayLoad`, `PayRead` and `PaySave` are the tool `add_payment`
and the change form it hands over to, in one transaction, and the deposit's amount
becomes the application's; `EditLoad` and `EditSave` are the plain change form,
which changes the amount unless the row it read is paid; `DeleteLoad` and
`DeleteSave` its deletion; `RefundLoad`, `RefundSave` and `CancelApps` are the
refund tool of deposits, as far as it concerns applications. A stale save of a
deleted row inserts it again.

Merged or left out: `FinishSigning` reads and queues in one step, since the task
tests the same condition again; the `is_agreed` flag of `PersonalAgreement` guards
nothing modelled here; envelope statuses other than completed and declined
behave like declined; a deposit that an admin cancels after commit is in
`Ledger` (`CancelLoad`) and not here.

`Portfolio.tla` defines what is read of these rows: the payment status and the tools of
the office's page, counts and sums by status of the list of offerings, and the
total a user is told. `BooksMatchDeposits` says that these agree with the
deposits, each of which backs one application.

**Abstract specification.** `ApplicationLifecycle.tla` says what the component
promises of one application: drafted, signed, submitted if signed, paid, deleted
only if unpaid, refunded, canceled only if refunded. It knows no tasks, sessions
or queue. `Lifecycle` in `Investment` gives the refinement mapping and `Implements`
is the refinement. It holds with one worker and one admin, failures and crashes
included, which is proved (section 12), and it cannot hold with more, since stale
rows break it (section 13).

**Fairness.** `WF` of each worker's steps: a live worker executes the task it has
and takes tasks that wait. `WF` of `EnqueueStart`: a request that has inserted a
draft goes on to its next statement. Neither is assumed of users, of DocuSign's
signers or of admins. Both need that no process dies (`CanCrash = FALSE`), for a
task is acknowledged when it is taken and nothing looks for drafts without a task:
after a crash a draft may stay as it is for ever. `DraftIsPrepared` and
`SignatureIsValidated` say that failures of DocuSign alone never leave it so.

## 5. Phone verification

`PhoneVerification.tla` models the phones of one profile.

| State | Code |
|---|---|
| `phones` | the `Phone` table: number, status, `is_primary`, `code_requested_at` |
| `verifs` | the `PhoneVerification` table, in the order of creation |
| `twilio` | Twilio's own record of its verifications (external) |
| `ses`, `tasks` | what each request and each task does, and the row it has read |
| `now` | the clock of the limiter and of a verification's lifetime |

`PostPhone`, `PutPhone`, `LoadSameNumber`, `ClearPrimary` and `SavePhone` are
`PhoneAPIView` (`views.py:71-122`); `RequestCode`, `EnqueueSend` and
`SaveRequested` are the two views that ask for a code and
`request_phone_verification`; `SubmitPin`, `SaveExpired`, `EnqueueCheck` and
`SaveSubmitted` are `check_phone_verification`. `SendCall` and `SendSave` are the
task `send_verification_code`, with the 429 of Twilio that makes it take the sid
recorded last; `CheckCall`, `CheckRead` and `SetStatus` are
`check_verification_code` and `PhoneVerificationCheck.set_status`. Tasks run in
any order and beside the requests that queued them; one that a worker drops is a
task that takes no more steps. The limiter is `NextCode`.

Properties: `VerifiedWasApproved`, `PendingIsOwn`, `OnlyOlderWorkUnverifies`.

## 6. KYC submissions and screening

`KycSubmission.tla` models the submissions of one profile.

| State | Code |
|---|---|
| `rows` | submissions and, for a business, their beneficiary: status, Onfido's applicant, check and result, and whose data the row holds |
| `profile` | `kyc_status` and `last_kyc` |
| `applicants`, `checks` | Onfido's own records (external) |
| `web`, `office` | requests of users and of the office, with the row and the profile they have read |
| `chains` | the chains of tasks, with the row read before the call under way |

`BeginSubmission` to `EnqueueBeneficiary` are the views and services of a
submission; `BeginLanguage` and `SaveLanguage` save the whole profile.
`OpenToApprove`, `OpenToReject`, `SaveReason`, `SaveDecision`, `Judge` and
`SaveVerdict` are the admin's forms and `_change_transition`; `OpenToEdit`,
`SaveEdit`, `AddDraft`, `CloneSubmission`, `DeleteDraft` and `ForceScreening` the
rest of the site. A chain runs `RunRoutine` (when the office forces it),
`CreateApplicant`, `SaveApplicant` or `SaveUnsupported`, `UploadDocument`,
`StartCheck`, `SaveCheck`, `FetchResult` and `SaveResult` twice (with the report and
after it). Each call may fail, also after its effect, and is retried `MaxRetries`
times; `RowIsGone` is the failure of a task whose row was deleted. A chain notes the
person it screens (`person`) when it creates the applicant, for
`CheckHasDocument` only: a form of the office may put other data into the row
afterwards, and the promise is about whom the chain has told Onfido of.

**Fairness** (`FairSpec`): `WF` of each chain's `TaskStep` and of Onfido's
`CompleteCheck`. Users and the office may stop anywhere, which is how an API or
admin process dies. Under it `ScreeningEnds`: a screening that was queued comes to
a result or has used up its retries, unless the office or another chain works on
its rows. That a worker lives is an assumption, as in section 4.

Properties besides: `VerifiedWasApproved`, `PendingHasSubmission`, `ResultIsOwn`,
`CheckHasDocument`.

## 7. Authentication

`Authentication.tla` models one user from registration on.

| State | Code |
|---|---|
| `user` | the row: `is_email_confirmed`, `is_active`, password |
| `tokens` | the `OneTimeToken` table |
| `ses` | requests of the API and of the office, with the user they have read |

`BeginRegistration`, `CreateUser`, `AskLimiter` and `MailConfirmation` are
`register` and the mail; `ResendConfirmation` asks for another; `VerifyEmail`,
`MarkConfirmation` and `SaveConfirmed` are `verify_user_email_by_key`. `ChangePassword`
and `SavePassword` are `change_password`. `RequestReset` and `MailReset` send a
key; `ActivateReset`, `MarkActivation` and `MakeKey` are the first step of a
reset, which makes a second token with the same key; `CompleteReset`, `MarkReset`
and `SaveReset` the second step, one transaction whose lock on the token others
wait for. `OpenUser` and `SaveUser` are the office's form.

`Limits.tla` holds the limiters as operators over the instants of the tokens.
The instants of the tokens of a kind are a function on their numbers (`MadeAt`), as
what a limiter looks at is a set of rows. `MailsAreLimited` is about the limiters
and the requests that ask together.

Properties besides: `ConfirmedWasMailed`, `ResetKeysAreSpent`,
`OnlyOlderRequestsUnconfirm`.

## 8. Offerings

`Offerings.tla` models the offerings of one company.

| State | Code |
|---|---|
| `offerings` | the `Offering` table: status, dates, terms |
| `subscriptions`, `applications` | rows that refer to an offering |
| `ses` | forms that were checked and requests that have found an offering |
| `boot` | when each API process was started: its view holds a queryset made then |

`PostForm` is `OfferingForm` with its validators (`CleanStatus`, `CleanTerms`,
`CleanDateEnd`), `SaveForm` the save, `PostDelete` and `Delete` the deletion with
what it cascades to and what protects. `BeginSubscription` and `Subscribe`,
`BeginApplication` and `Apply` are the two views; `Sign` stands for what
`Investment` does with the draft; `Restart` restarts a process and with it the
view's queryset.

Properties: `RowsHaveOffering`, `StatusFollowsPipeline`, `ActiveOfferingsNest`,
`AcceptedAfterStart`, and `AcceptedBeforeDeadline`, which fails.

## 9. Accounts and banks

`Banking.tla` models what surrounds the ledger.

| State | Code |
|---|---|
| `accounts` | the `Account` table |
| `owned` | the `UserAccount` and `UserFeeAccount` tables |
| `banks`, `colds` | the `UserBankAccount` and `ColdBankAccount` tables |
| `deposits` | requested deposits, with the accounts of their legs |
| `ses` | requests and forms: what they look for, have found, and will write |

`ListAccounts`, `Lookup` and `CreateAccount` are `get_user_accounts` and
`for_customer`: a request looks an account up and creates it a statement later.
`CreateBank` and `DestroyBank` are the views of a user's banks, with `BankOk` for
the checks of IBAN and SWIFT; `CheckDigits` is the arithmetic modulo 97.
`OpenCold` and `SaveCold` are `ColdBankAccountForm`. `BeginDeposit`, `ReadCold`, `Lookup`,
`InsertDeposit` and `Respond` are a deposit and its answer; `BeginPayment` and
`FindBank` lead an admin's payment to the same.

Properties: `OneAccountUnlessRaced`, `OneColdUnlessRaced`, `DepositHasOneCold`,
`ShownIsDebited`.

## 10. Runs and bounds

Each run checks invariants, action properties or liveness on one instance;
`PROJECT.json` says what each shows. All sets of identifiers bound how many rows
can ever exist, and counters of requests are bounded by the constants named
below: a run stops when they are used up, hence `CHECK_DEADLOCK FALSE`.
Symmetry is over identifiers nothing orders, and no run with symmetry checks
liveness.

| Run | Instance | Distinct states | Shows |
|---|---|---|---|
| `ledger_exchange` | 2 API workers, 1 admin, 4 operations; a deposit of 4 with a fee of 1, a buy and a sell with fees, commit, refund | 0.2 M | `TypeOK`, `NoDoubleSpend`, `ShownIsSpendable`, `StatementsAddUp` |
| `ledger_admin` | 1 API worker, 2 admins, 3 operations; deposits (one refused for its rounding leg), a withdrawal with fee and rounding, payments, all four commands | 0.5 M | `HeldIsSound`, `PayoutsReconcile`, `CommittedWasHeld`, `HeldNeverRemoved` |
| `investment_serial` | 2 users, 2 applications, 2 deposits of 2 amounts; 1 API session, 1 worker, 1 admin, crashes | 0.6 M | `TypeOK`, `BooksMatchDeposits`, `Implements` |
| `investment_concurrent` | 1 application, 2 deposits; 1 API session, 2 workers, 2 admins, crashes | 0.8 M | `SubmittedWasSigned`, `StatusMatchesMoney` |
| `investment_fair` | `FairSpec`: 2 applications, 2 workers, no admin, no crash | 0.1 M | `DraftIsPrepared`, `SignatureIsValidated` |
| `phone` | 2 phones, 2 numbers, 2 sids; 1 session, 3 tasks; 1 tick | 1.1 M | `TypeOK`, `VerifiedWasApproved`, `PendingIsOwn`, `OnlyOlderWorkUnverifies` |
| `kyc` | a business: 2 submissions with beneficiaries, 2 chains, no retry, 1 request, 1 admin, 2 requests besides submissions | 2.8 M | `TypeOK`, `VerifiedWasApproved`, `PendingHasSubmission`, `ResultIsOwn` |
| `kyc_screening` | `FairSpec`: an individual, 1 submission, 1 chain, 1 retry, 3 requests besides | 0.5 M | `CheckHasDocument`, `ScreeningEnds` |
| `authentication` | 2 API sessions, 1 admin, 3 tokens, 2 ticks | 0.9 M | `TypeOK`, `MailsAreLimited`, `ConfirmedWasMailed`, `ResetKeysAreSpent`, `OnlyOlderRequestsUnconfirm` |
| `offerings` | 2 offerings, 2 admins, 1 API process, 1 user, 1 application, 4 forms, 2 ticks | 1.1 M | `TypeOK`, `RowsHaveOffering`, `StatusFollowsPipeline`, `ActiveOfferingsNest`, `AcceptedAfterStart` |
| `offerings_deadline` | 1 admin, 2 forms | | violates `AcceptedBeforeDeadline` |
| `banking` | 1 user, 1 API process, 2 admins, 4 accounts, 1 deposit | 2.3 M | `TypeOK`, `OneAccountUnlessRaced`, `OneColdUnlessRaced`, `DepositHasOneCold`, `ShownIsDebited` |

Why these bounds are enough for what they are meant to show:

* Races are between two: a session that has read and another that writes. Every
  run that is about a race has two sessions of the kinds that race; a user's
  request and the office's are two kinds already.
* Ledger: one deposit pays for one purchase and not for two, so four operations
  are a deposit, two purchases that compete for it and a refund. Three are enough for
  two competing commands on a deposit beside a third operation.
* Investment: two finish tasks (`MaxQueued`) suffice for the race of two; two
  deposits for a second payment of one application.
* Phone: three tasks are a code that is sent, one that is refused, and a check, or two
  checks of one verification. `FailedCount` 2 and one tick let each branch of the
  limiter be taken, and a verification expires with its session at the tick.
* KYC: two submissions give a clone or a new one beside an old one; two chains are those
  of a business, or two of one row. Retries are in `kyc_screening`.
* Authentication: three tokens are a confirmation, an activation and a reset; two ticks
  outlive every token and limit window (1 or 2).
* Offerings: four forms bring two offerings to `active`. Dates are within three
  instants, which is enough to nest, meet and cross.
* Banking: four accounts are a bank's, a cold one's, its second after an edit, and a
  user's; the two IBANs of the instance differ in check digits that leave the same
  rest, which is why two tests of them are not one.

## 11. Variants

Next to a definition that a property depends on stands a variant of it, marked
`Variant`, with the kind of mistake that could be made in that code: a guard
dropped (`CommitLoadAny`, `RequestCodeAnyway`, `DeleteAny`), an exception not
caught (`StartCallUncaught`) or swallowed (`RefundSaveSwallowed`), a validation
skipped (`PassUnchecked`), an off-by-one (`NextEmailLate`), an old decision
taken for the present state (`JudgeByDecision`). Each property of a passing run
is violated when its variant takes the place of the definition (`PROJECT.json`,
"mutants").

## 12. Proofs

The theorems hold for any sets of identifiers, sessions and bounds, from the
assumptions the modules name: identifiers differ from `None`, numbers are
numbers, the processes of one site are not those of another, functions on
assets and accounts have their types; besides, `AdminsAreFinite` (refunds are counted
against them), `WebIsFinite` (uses of a key are counted against it) and
`OneFiatForAll` (there is one fiat asset of all countries, which the code takes for a
user's main currency). Theorems that need more say so in an `ASSUME` of their own,
listed under *Hypotheses* below.

| Module | Theorem | Property | Hypotheses |
|---|---|---|---|
| `LedgerProofs` | `TypeCorrectness` | `TypeOK` | |
| | `HeldOperationsAreSound` | `HeldIsSound` | |
| | `CommitFollowsHold` | `CommittedWasHeld` | |
| | `HeldOperationsStay` | `HeldNeverRemoved` | |
| | `MoneyIsNotSpentTwice` | `NoDoubleSpend` | `QuietRequests`, finite `Ops` |
| | `LegsOfOperations` | the invariant `LInv` | |
| | `ShownBalanceIsSpendable` | `ShownIsSpendable` | `OrdinaryRequests`, finite `Ops` |
| | `UserStatementsAddUp` | `StatementsAddUp` | `ListedRequests`, finite `Ops`, `Accounts` |
| | `PayoutsAreReconciled` | `PayoutsReconcile` | `PaidRequests`, finite `Ops`, `Accounts` |
| `InvestmentProofs` | `TypeCorrectness` | `TypeOK` | |
| | `SubmittedApplicationsWereSigned` | `SubmittedWasSigned` | |
| | `StatusesMatchMoney` | `StatusMatchesMoney` | |
| | `ApplicationsAreFunded` | the invariant `FInv` | |
| | `CountsAreOfDeposits` | `CountsMatchDeposits`, a part of the next but one | finite `Apps` |
| | `ApplicationsHaveUsers` | the invariant `RowsHaveUsers` | |
| | `BooksAreOfDeposits` | `BooksMatchDeposits` | finite `Apps`, `Users` |
| | `InvestmentImplementsLifecycle` | `Implements` | `OneAtWork` |
| `PhoneProofs` | `TypeCorrectness` | `TypeOK` | |
| | `VerifiedPhonesWereApproved` | `VerifiedWasApproved` | |
| | `PendingVerificationsAreOwn` | `PendingIsOwn` | |
| | `ConfirmationsAreLostToOlderWork` | `OnlyOlderWorkUnverifies` | |
| `KycProofs` | `TypeCorrectness` | `TypeOK` | |
| | `VerifiedProfilesWereApproved` | `VerifiedWasApproved` | |
| | `ResultsAreOfThePerson` | `ResultIsOwn` | |
| | `ScreeningInvariant` | the invariant `SInv` | |
| | `PendingProfilesWait` | `PendingHasSubmission` | |
| | `ChecksHaveDocuments` | `CheckHasDocument` | |
| `AuthenticationProofs` | `TypeCorrectness` | `TypeOK` | |
| | `ConfirmationsWereMailed` | `ConfirmedWasMailed` | |
| | `KeysAreSpentOncePerSession` | `ResetKeysAreSpent` | |
| | `MailsKeepToTheLimits` | `MailsAreLimited` | `SaneLimits` |
| | `ConfirmationsAreLostToStaleRows` | `OnlyOlderRequestsUnconfirm` | |
| `OfferingsProofs` | `TypeCorrectness` | `TypeOK` | |
| | `ReferencesHold` | `RowsHaveOffering` | |
| | `StatusesFollowPipeline` | `StatusFollowsPipeline` | |
| | `CampaignsNest` | `ActiveOfferingsNest` | |
| | `AcceptedAfterTheStart` | `AcceptedAfterStart` | |
| `BankingProofs` | `TypeCorrectness` | `TypeOK` | |
| | `AccountsAreMadeOnce` | `OneAccountUnlessRaced` | |
| | `OneColdPerCurrency` | `OneColdUnlessRaced` | |
| | `DepositsNameOneCold` | `DepositHasOneCold` | |
| | `AnswersAreOfTheDeposit` | `ShownIsDebited` | |

### Hypotheses, and why the code justifies them

* `QuietRequests`: no withdrawals, no `reject()`, and deposits that debit no account
  of an active kind. `create_withdrawal` validates inside its own transaction, so two
  of them do spend the same money twice (section 13); `reject()` would take a held
  exchange back and nothing in `src/` calls it. The manager's docstring asks for
  validation outside of transactions, and the theorem is what that buys.
* `OrdinaryRequests`, `ListedRequests`, `PaidRequests`: which kind of account each
  argument of a request is. The views and forms that create deposits pass the account of
  the bank and the user's, and neither fee nor rounding, which is less than is
  allowed here. `create_withdrawal` and `create_exchange` have no caller in `src/jibrel`;
  for them the hypotheses say what the arguments' names and docstrings do (a user's
  account is debited, a payment method's is credited, fees and roundings go to accounts
  of the house) and what the annotations of lists take for granted: the
  base of an exchange is crypto and its quote is fiat (`queryset.py`).
  A negative rounding of a withdrawal is excluded in `PaidRequests` since the total
  is then wrong (section 13). `ledger_exchange` and `ledger_admin` check these properties
  on instances that satisfy the hypotheses, with fees and roundings.
* `OneAtWork`: at most one worker session and one admin session. With two, a stale row
  breaks the lifecycle (section 13), so it cannot be dropped. `investment_serial`
  satisfies it.
* `SaneLimits`: the counts of both limiters are positive, the window of resets is no
  longer than the life of their tokens, and the office's processes are finitely many.
  `src/Dockerfile:48-55` sets counts of 5 and a life of 7200 s to a window of 3600 s.
  It is needed: the limiter of resets counts the tokens of the lifetime and waits
  for the window, so with a longer window it would forget mails it has sent.
* Finite sets of operations, accounts, applications and users: sums and counts are of
  finitely many rows.

### The arguments

Every module proves `InductiveInvariant` first: `Spec => []IInv`, where `IInv`
holds initially and is kept by every action, one lemma each. None of
the properties is inductive, and what `IInv` adds is what the processes
remember:

* **Ledger.** `hold_save` writes `hold` without looking at the legs again. `IInv`
  adds that whoever creates an operation is the only session that validates,
  holds or extends it (`CreatorIsAlone`), that it is unheld until then
  (`CreatedIsUnheld`), that who commits it found it held (`CommittingWasHeld`),
  that the legs of an accepted operation were sound (`AcceptedIsSound`), and that
  the operation of an open transaction is known to one session
  (`HiddenIsPrivate`). The two action properties follow from it as a statement on
  steps (`LegalStep`), proved with the invariant action by action.
* **No double spend.** Each operation has a `Weight` on an account: its debits from
  the moment the last check of `hold()` for that account has been passed, its credits
  from the moment it is recorded. `Backed` says that the weights on an account sum to
  no less than zero. A check that passes proves it for the state of that moment,
  because the sum `is_valid` computes is at most the sum of the weights plus the
  debits that are about to count; every other step leaves each weight or makes
  it greater. `QInv` is what makes the second half true: only deposits are hidden,
  only they are worked on by two sessions, the status of any other operation is the one its
  session left it with.
* **Balances and books.** `LInv` says which legs an operation has: those its request
  makes, one by one as statements insert them, or for a refund the reversed
  legs of its deposit. From it `Shown` is compared with what is held account by
  account, and the list and the books are summed row by row and then
  exchanged with the sum over accounts (`SumTheorems`).
* **Sums.** `SumFunctionOnSet` of the community modules is a fold, whose definition is
  recursive. `SumTheorems` derives its laws (one more element, monotony, equality,
  addition, two sums exchanged, a sum over a bijection) by first-order induction: the
  subsets of a finite set that violate a law would have no smallest (`NoSmallest`).
* **Investment.** `SubmittedWasSigned` needs that no one can send a second
  envelope for an application, hence that its start task is queued or run at most
  once (`StartsOnce`), and that what a session remembers of an envelope is still
  true (`RemembersSigned`). `StatusMatchesMoney` needs a count: a refund may be
  taken back by the admin whose update failed, so a canceled application is
  `Backed` if there are more refunds of its deposit than admins who may still take
  one back; and so are the rows admins hold in open forms, which may be saved
  later (`RowsAreBacked`).
* **Portfolio.** On top of that, a row or a copy of it with a deposit has the
  deposit's amount (`RowsAreFunded`), no two applications or copies of them
  share a deposit (`DepositsAreApart`), since deposits only grow and a payment
  uses a fresh one, and an application's user never changes (`RowsHaveUsers`). Counts
  and sums follow by a bijection between applications and deposits.
* **Refinement.** `RInv` is the invariant under which a step of `Investment` is a step
  of `ApplicationLifecycle` or a stutter: what a session has read is still so
  when it writes (`IsFresh`), deposits are of one application each, and what was
  deleted had been signed (`RowsAreInOrder`), only workers run tasks and only admins
  have forms open (`RolesAreKept`). Each action is mapped in a lemma of its own.
  Freshness is where `OneAtWork` is used: the one admin cannot pay, delete or refund
  between reading and writing, and the worker's rows are drafts no admin touches.
* **Phone.** The number of a phone that is confirmed never changes, so a copy of a
  phone is of its number; rows and copies that are verified were approved; a
  pending verification is of the phone's own number; only sessions that set a
  number have seen a verified phone. Phones, verifications and Twilio's records
  only grow (`PhonesGrow`, `VerifsGrow`, `TwilioGrows`).
* **KYC.** Rows, copies, and what the chains remember of Onfido's records are about
  the person whose data the row holds (`Owns`, `Known`); a copy that is
  approved, and the verdict an admin is about to save, go back to an approval.
  `PendingHasSubmission` needs that a profile about to be written as pending has its
  submission already (`WInv`). `CheckHasDocument` needs to know of each row, form and
  chain whose data it holds; an edit may change that, so `SInv` says that there is an
  assignment of owners to rows (`FInv(owner)`) with which every copy agrees and under
  which an applicant that is named anywhere has its document, or is that of a chain
  that has yet to upload it, or has failed.
* **Authentication.** No row or copy of it is confirmed unless a key was mailed and
  checked or an admin did it; for each token, the times it was used and the
  sessions that may still spend it are at most as many as the API's processes
  (`KeyIsSpentOnce`). For the limits, `LInv` counts the mails of a window together with
  the sessions that were told to mail and have not yet: a limiter that lets one pass
  has counted fewer than its limit (`LimiterCounts`, for every sequence of instants), a mail
  turns one of the sessions into one token, and time only takes tokens out of
  the window.
* **Offerings.** A form under way holds a row that passed the validators
  (`IsClean`), and what a process has queried was active when it was started
  (`BootIsPast`).
* **Banking.** What a request found missing is still missing unless it was
  overtaken (`IsMissing`); a form compared with the others is still alone
  (`IsChecked`); the account a deposit debits is that of the one active cold
  account until the request is disturbed (`IsPaidTo`); every cold account has a
  ledger account of its own (`ColdsAreApart`).

`QInv`, `Backed`, `LInv`, `FInv`, `RInv` and `SInv` were checked by TLC on the runs of
their modules before they were proved. Two attempts changed a model. A chain used
to note the person it screens when it was queued, which an edit of the row before the
applicant is created makes untrue, and `CheckHasDocument` was then about the
wrong person; it now notes whom it had Onfido create. And the instants a limiter
sees were a filtered sequence; they are now a function, as above.

Only model-checked are the liveness properties `DraftIsPrepared`, `SignatureIsValidated`
and `ScreeningEnds`, since fairness is out of the provers' reach. Every invariant and
action property of the passing runs has a theorem.

## 13. What the models say of the code

`offerings_deadline` is a run that fails: the view of applications evaluates
`Offering.objects.active()` when its class is imported (`investment/views.py:136`),
so a process accepts applications after the deadline for as long as it runs,
while a test expects a 404 (`tests/test_investment/test_application.py:121`).

The models are of the code as it is, so the following is in them too. Where a
property has an exception (*unless raced, undisturbed, stale, hasty, older work*),
it stands for one of these.

Ledger:
* Two withdrawals, each in a transaction of its own, are both held
  (`managers.py:80`), against the manager's docstring (27-28), which asks that
  requests validate outside of one. `NoDoubleSpend` is checked where they do.
* `NoDoubleSpend` counts deposits that were recorded and refused, because
  `is_valid` does: a purchase may be held on the strength of a deposit that is
  deleted a moment later.
* `commit()` asserts on the object in memory (`models.py:96`) and writes over a
  cancellation; what holds is `CommittedWasHeld`.
* Two admins refund one deposit twice (`payments/admin:90`).
* The refund's legs go the wrong way: `order_by('amount').first()` is the account
  that was debited (`managers.py:184-186`), the comment (179-182) means the user's.
* For a deposit with a fee, `with_amount` and `with_total_amount` count the fee
  twice, and with a negative rounding the total of a withdrawal is not what is paid
  out; `PayoutsReconcile` is about withdrawals with positive rounding.
* A refund in a user's list has no serializer, and its status is "undefined".
  Operations of assets no longer allowed are listed with the amount 0. No code
  commits an exchange, so `StatementsAddUp` is about operations that stand.

Investment and offerings:
* A user with two drafts may get both submitted (`investment/views.py:143`).
* A late finish task takes a paid application back to pending (`tasks.py:82`).
* A second payment, or the save of a stale form, replaces the reference to a
  deposit (`investment/admin:103`). An application whose deposit was canceled
  counts as not paid.
* The limits of an offering's amount are not looked at when a user applies. A
  campaign around another active one passes `clean_date_end`.
* The form of a security creates an asset even if it is invalid. The condition
  under which DocuSign's access token is kept is never true.

KYC, phone and authentication:
* Tasks and forms that save a stale row take back a decision, a verification, or a
  confirmation. Setting the language saves the whole profile.
* `not_used_in_kyc` looks at individual submissions only, and the serializer of
  businesses does not ask whose documents it is given.
* The limiter of resets counts over the life of its tokens and waits for its window
  (`limits.py:204-217`), so it holds the window only where that is no longer
  (`SaneLimits`).
* An activation that was asked for twice at once makes two tokens with one key, and
  the second step then fails for both.

Banking:
* Two requests of a user without an account make two, and every later call fails
  (`MultipleObjectsReturned`).
* Each save of a cold account makes a new ledger account, so earlier deposits are
  not found to belong to it (`forms.py:43`).
* A deposit is created although its answer is an error, if the bank account or the cold one
  was changed meanwhile.
* The payment form asks for a valid IBAN for banks in Oman too, which the API does not,
  and finds bank accounts that their user has deleted.

## 14. Not modelled

* Crypto wallets, card deposits: not among the installed applications.
* `jibrel/wallets`: rows with a version that nothing else reads.
* Notifications and call logs: written, and read by no other component.
* Login and logout, which are Django's sessions; the profile but its status.
* Documents and their limiter, directors, addresses, the dry-run validation of KYC.
* Personal agreements, templates, the flags of what is enqueued for a cancelled offering.
* Companies, securities, rounds, translations, public pages.
* Limits of amounts over a period, which only a page shows.
* Formatting, masking, wrapping, pagination, filters of lists, settings.

## 15. What is left

* An abstract specification of the ledger (an operation is recorded, settled or
  dropped, and settled ones balance) and its refinement.
* Uploads of documents and their limiter beside a submission; the limits of
  amounts as functions, against a definition over bounded lists of operations.
