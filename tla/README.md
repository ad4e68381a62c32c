# A TLA+ model of the digikuntz payment backend

The repository is a NestJS server over MongoDB that moves money: users are paid
through Flutterwave, M-Pesa and Paystack (pay-ins), keep the money in a wallet,
and take it out again (payouts).  Several server instances run the same code:
HTTP requests, webhooks and callbacks of the providers, and about ten crons on
every instance work on the same documents.  There are almost no multi-document
transactions; correctness rests on conditional updates (`findOneAndUpdate` with
a status in the filter), unique indexes (`balance_movements.key`, the lock
collection) and crons that repair what a crash or a lost message left behind.

That is what is modelled here: the interleaving of these conditional and
unconditional writes, the answers that come late, twice or never, crashes
between two writes, and what the crons bring to an end.  Paths below are
relative to the repository's `src/` unless they start with `docs/`.

## Components

| Component | State | Operations | What is hard, and what makes it correct |
|---|---|---|---|
| balance (`balance/`) | `balances`: one amount per user; `balance_movements` with a unique key | `creditBalance`, `debitBalance`, upsert of a wallet | Amount and movement are two writes: a key counts once however many calls use it, the settled balance is the sum of its ledger, debits alone never overdraw. **Modelled** (`Wallet`, `Ledger`) |
| distributed lock (`distributed-lock/`) | one document per key, with owner and expiry; TTL index | acquire, release, `withLock` | Leases, clocks that differ, holders that stop: exclusion as long as a lease lasts, and no lock is held for ever. **Modelled** (`DistributedLock`) |
| direct-charge cron (`payin/payin.cron.ts`) | deadline and rows of each tick | one tick each 30 s on each instance | A row may outlive the lease: only one tick at a time may start rows. **Modelled** (`DirectChargeCron`) |
| payin (`payin/`) | `payins`: status, `flwTxId` | create, verify (cron, request, callback, redirect), close, webhook, reopen | Jobs that write what they read before; a late or repeated notice; two windows after which a payin is closed. **Modelled, but for endpoints nothing calls** (`Payin`) |
| payout (`payout/`) | `payouts`: status, last answer | create, verify (cron, poll, M-Pesa callbacks), force | A transfer ordered twice, or paid and refunded; lost answers. **Modelled, without Paystack** (`Payout`) |
| transaction (`transaction/`) | `transactions`: status, `payoutFailureRefundedAt`, `lastCallbackStatus` | the table of allowed statuses, claims, rejection, refund, cron, auto-approval, fees, `reconcileUserBalance`, `sendCallback` | The claim is what makes a payment or a payout happen once; what is posted must be settled; a callback may overtake another. **Modelled** with the payments (`Payin`, `Payout`) and in `Money`, `Reconcile`, `Callback`; lists and statistics are not |
| flutterwave orchestration (`flutterwave/flutterwave.service.ts`) | the credentials in its own fields | create\*, `verifyPayin`, `verifyAndClosePayin`, `processSuccessfulPayin`, `payout`, webhook, system pay-in and withdrawal, transfers from a balance | The order of the writes in the collections above, and fields that all requests share. **Modelled** in most modules below; plans, cards and bank lists only forward |
| flutterwave API client, routing (`payin-route`, `mobile-money-*`, `direct-charge.config`) | none | `resolve`, `createDirectPayin`, `buildMobileMoneyCharge`, `resolveMobileMoneyNetwork`, fallback | Which error means that nothing was charged; which operator owns a number; whose account a page belongs to. **Modelled** (`PayinRoute`) |
| mpesa (`mpesa/`), paystack (`paystack/`) | tokens | STK push and query, B2C; page, verification | Outcomes and callbacks are in `Payin` and `Payout`, the accounts in `PayinRoute`; Paystack payouts are not modelled |
| system-balance (`system-balance/`) | one balance per currency, its movements | credit, debit, pending movements, refund | The movement is completed before the amount changes; a debit that is not covered is not refused. **Modelled** (`SystemBalance`) |
| idempotency, dev API (`common/idempotency`, `dev/`) | keys with their results; the developer's document | `processKey`, payouts and payins of the API, keys, webhook, `authKey` | Two requests with one key at the same time; a debit without its transaction; two documents of one developer. **Modelled** (`Spending`, `DevKeys`, `PayinRoute`, `Callback`) |
| invoice (`invoice/`) | status, `payed`, payer | publish, pay, success, repair, sync cron, edits of the owner | Two payers; a status turned back by a stale cron. **Modelled** (`Invoice`); pictures and lists are not |
| payment-request, fundraising, service payment | request status; donations and the collected amount; sales | request, donate, buy, `handlePaymentRequest`, `handleSuccessfulDonation`, `handleService`, sync cron | Several writes after one claim; a request that is given up and then paid. **Modelled** (`Fulfilment`); the editing of campaigns, services and reviews is not |
| plans, subscription (`plans/`) | subscriptions, their items and ends | subscribe, renew, upgrade, stop, edit, delete, cron | Renewal against expiry; the end is computed from what was read. **Modelled** (`Subscription`); the editing of plans is not |
| payment methods, gateways, system rates | rates, bounds, accounts | update; read by every order | Fees are computed at several places and times. **Modelled** in `Money` (rates that change) and `PayinRoute` (as constants); countries, cities and exchange rates are not |
| payment router and providers (`payment/`) | cached gateways | choose a provider | Not modelled: nothing calls `PaymentRouter` |
| auth, revoked tokens (`auth/`, `revoked-token/`) | accounts, second factor, lockout, sessions | sign-up, sign-in, codes, reset, change, logout, toggles | Reads before bcrypt and mails, writes after. **Modelled** (`Accounts`) |
| user, cache (`user/`, `cache/`) | profiles; the copies of an instance | `getUserById`, updates | A copy kept after the update that should have removed it. **Modelled** (`UserCache`); profile pictures, searches and settings are not |
| announcements (`announcements/`) | announcement, deliveries | write, edit, send, retry, delete, the worker | Ticks that overlap, workers that stop. **Modelled** (`Announcements`) |
| notifications (`email/`, `wa/`, `notification/`) | transporter, failure counter | a notice for each event: templates, texts, mails, alerts | One failing send must not silence the others, a lost answer must not be heard twice. **Modelled** (`Notices`); texts and layout are not |
| newsletter, alert, audit log, tracking, prospects, system, common plumbing | lists and append-only records | append, filter, log | Not modelled: single documents without interaction |

How they interact.  A pay-in is created as a transaction, a charge at the
provider and a payin document, in an order that depends on the provider.
Webhook, callback, crons, polls and requests verify or close the payin; who
finds it successful *claims* the transaction (`claimTransactionForSuccessfulPayin`,
one conditional update) and credits the wallet with the key `payin-credit:<tx>`.
A payout starts from a transaction already debited; approval, auto-approval and
bulk approval race to claim it, the transfer is ordered, and verification
by cron, poll and callback settles it or refunds it with the key
`payout-failure-refund:<tx>`.  `Payin` and `Payout` treat these keyed credits as
flags; `Wallet` is where it is shown that a key counts once.

## Modules

```
Ledger  <--implements--  Wallet            WalletProofs           MCWallet
                         DistributedLock                          MCDistributedLock
                            ^ EXTENDS
                         DirectChargeCron  DirectChargeCronProofs MCDirectChargeCron
                         Payin             PayinProofs            MCPayin
                         Payout            PayoutProofs           MCPayout

Requests  <--EXTENDS--   SystemBalance, Spending, Reconcile   BalanceProofs \
                         Invoice, Fulfilment, Money, UserCache               > MCBackOffice
                            <-- DevKeys                       OrderProofs   /
                         Subscription, Callback, Accounts,
                         Announcements, PayinRoute, Notices   FrontOfficeProofs  MCFrontOffice

SumTheorems: lemmas on finite sums, for WalletProofs, BalanceProofs and OrderProofs.
```

**Ledger** is the abstract promise of the balance service: the settled amount of
each user and the set of postings on the books; one step posts one request, and
a key is posted once.

**Wallet** is `balance.service.ts`.  A call is a process whose label is the
await it stands at: `open` (upsert), `apply` (`$inc`, for a debit with its
filter `balance >= amount`), `record` (insert of the movement), `duplicate` and
`error` (the reversal).  Faults: an instance stops, a write fails, a write is done
and its answer lost.  The last is what the reversal cannot tell from a failure: the
amount is taken back while its movement stays, the caller is told of an error, and a
later call with the key is told that it is done already (`disowned`).  `SettledView`,
the balance without the calls that are between two writes, is the refinement
mapping to `Ledger`.

**DistributedLock** is `distributed-lock.service.ts` for one key: `Stamp` (reads
the clock, which is off by at most `Skew`), `Cleanup` (deletes what that clock
sees expired), `Create` (insert against the unique index), `Finish`, `Release`
(deletes its own lock alone), and `Sweep`, the TTL index of MongoDB (external).

**DirectChargeCron** EXTENDS DistributedLock.  A tick of `handleDirectChargeCron`
is a call of `withLock`: it is entered with a deadline, reads its rows, starts
one row after the other while the deadline is not over, and leaves.

**Payin** has the transaction, the payin document, the attempts at the provider
(`charge`) and, per process, the job it runs and what it has on its stack.  One
action is what happens between two awaits.  Jobs: the creation of every kind of
pay-in; `verifyPayin` / `verifyAndClosePayin` as started by crons, requests,
the M-Pesa callback and Paystack's redirect (`StartVerify`, `Look`, `Ask`,
`ReadBeforeSave`, `Save`, `Put`, `Fail`, `Judge`, `Settle`, `Overwrite`);
webhook, callback, reopening, the page that polls, reconciliation, transaction
cron; and `processSuccessfulPayin` (`Claim`, `MarkInvoice`, `Credit`, `Handle`).

**Payout** has the transaction, the payout document, the transfer at the
provider and the jobs that approve, reject, pay (`Claim`, `Post`, `SaveDocument`,
`Confirm`, `FailPayout`), verify (`Fetch`, `Write`, `Settle`), force and refund
(`Mark`, `Credit`, `Unmark`).

**Requests** is what the next modules share: handlers (`Procs`), each with the
await it stands at (`pc`) and what it has read (`stack`), and the three faults: an
instance stops (`crash`), a write throws (`write`), a provider refuses or its answer
is lost (`outage`).

**SystemBalance**: a posting first completes its movement (`Complete`, `Insert`,
against the unique key) and then changes the amount (`Inc`); around it the system
pay-in (`StartRecharge`, `ClaimRecharge`), the withdrawal (`StartOrder`, `Order`,
`DeleteOrder`, `Approve`), its refund and the postings by hand.

**Spending**: withdrawals, transfers from the balance, API payouts and API payins;
`Lookup` and `Record` are `processKey`, between them run authentication, limits,
the look at the balance, the debit and the transaction, with the rollback that only
a transfer has.

**Reconcile**: `reconcileUserBalance`, one transaction per step and the net posting
at the end, against late notices and other runs.

**Invoice**: claim, route, release and save of a payment, the success and its repair,
the sync cron without a lock, and the owner's own changes.  A handler reads the
document, awaits and saves the fields it changed.

**Fulfilment**: what a success delivers: fees, request, donation, sale, each a write
of its own after the claim; the closing of a payment and the sync cron.

**Money**: the amounts of one order: who pays the fees, `Math.ceil` and rates that may
change between two computations; what is taken, collected, credited, shared, sent
and returned (`flows`).

**UserCache** is the copy of one profile in one instance; **DevKeys** EXTENDS it with
the developer's documents, in the order `findOne` sees them, and `Accepts`, which is
`authKey`.

**Subscription** counts time in cycles: payments, changes by hand and the cron that
reads what has expired and writes it later.

**Callback**: calls of `sendCallback` are records that live on their own: read,
claim of the status, post, and the claim taken back when the post fails.

**Accounts**: sign-up, sign-in, second factor, lockout, reset, change of password,
logout and toggles; a handler reads the user before bcrypt or a mail and writes
fields of it afterwards.

**Announcements**: an announcement is claimed, its deliveries are replaced, and ticks
take one delivery at a time, mail it and mark it; a stale delivery is released.

**PayinRoute**: orders of the transfer form, of invoices and requests, of the direct
endpoint and of the developers' API; how a number resolves to country and operator;
what is refused before the transaction, before the charge and by the provider; the
fallback to the hosted page; and the credentials that the services keep in fields.

**Notices**: each event has a list of sends (`SendsOf`), a send has a list of forms
(template, then text); which failures end a send, a notice or nothing, with the
transporter of mails, the switches and the alert after several failures.

What the models abstract from: amounts in `Payin` and `Payout` (a payment is one
amount), several payments at a time (each has its own documents and keys, and
meets the others only in the wallet), the texts of errors, HTTP, and the
choice of country, currency and network.  One call of a driver or a provider is
atomic; what can happen to it is that it is made and its answer lost, or fails.

## Runs

| Run | Instance | What it shows |
|---|---|---|
| `wallet` | one user, three calls for three postings (a keyed credit, a keyed debit, an unkeyed debit), crashes, failing writes and writes whose answer is lost | the protocol implements `Ledger`; the settled balance is its ledger; a credit asked for is booked and kept in the wallet, or somebody is told that it failed |
| `wallet_overdraft` (violation) | four calls, no fault | `NeverOverdrawn` fails, see Findings |
| `lock` | three calls, lease 2, clocks 1 apart, time to 5 | two calls whose leases last never run together, a stale lock disappears |
| `direct_cron` | three ticks, two rows; unit 5 s: lease 5, period 6, API timeout 6, budget 4, latency 1 | one tick at a time starts rows, although ticks overlap |
| `payin` | two processes, all routes and kinds, two attempts, two notices, any one of six faults | nothing credited without a success at the provider, handlers run once, a claimed payment is not forgotten |
| `payin_ends` | two processes, one attempt, one notice, crash or lost answer | payins and transactions end, a recorded success is credited, an invoice is marked as paid, a charge that succeeds in time is found without a notice |
| `payin_second_attempt` (violation) | the hosted page, no fault | `LaterAttemptCounts` fails |
| `payout` | two processes, both providers, up to two of five faults, two callbacks | at most one transfer, paid and refunded only after a mishap, an unpaid one is refunded, success means paid, and every payout ends |
| `back_office` | two handlers, one fault of any kind; in turn the system's balance (a recharge, a withdrawal, a debit by hand), five attempts to spend, two transactions to reconcile, an invoice with three payments, a request, a donation and a sale, an order with two prices and rates that change once, a developer with two key pairs | see the properties below |
| `front_office` | two handlers, one fault of any kind; in turn two payments of a subscription, two API transactions, an account, an announcement, orders of every flow, two events | see the properties below |
| `reconcile_twice`, `transfer_debit` (violations) | the parts `reconcile` and `money` of `back_office` | `AdjustedOnce` and `DebitIsRecorded` fail, see Findings |

What the two offices show, one property for each thing that could go wrong:

| Property | Says |
|---|---|
| `PostedOnce`, `CompletedIsPosted` | a movement changes the system's balance once; one shown as completed has done so, or is of a debit that was not covered, or a fault came between the two writes |
| `UnfundedLostARace` | a withdrawal that goes out without a debit lost a race for the money |
| `SpentIsCovered` | every transaction was paid for, and stale looks at the balance change nothing in that |
| `KeyRunsOnce` | a second transaction for one key needs attempts at the same time, or a record that is gone |
| `FoundPayinCreditedOnce` | a payin found successful is credited once, by a run or under its own key, however often the user is reconciled; twice only if its notice comes after a run has read it |
| `OneChargeAtATime`, `PayedIsKept` | nobody is asked twice at a time for one invoice; a paid one stays paid |
| `RequestFollowsTx`, `PaidIsDeliveredOnce` | a request tells whether it was paid; what was paid is delivered exactly once |
| `RefundGivesBack` | a payout that fails gives back exactly what was taken |
| `KeysObeyTheirOwner` | a key opens the API as long as its owner may, wants and has not replaced it, and an inactive one does not |
| `PaidPeriodsAddUp` | every payment has its period, and none takes another's away |
| `StatusWasHeard` | the developer has heard of the status a transaction has |
| `SessionsAreEnded` | no session survives a new password or the end of the account |
| `MailedOnce` | nobody gets an announcement twice, but by a lost answer of the mail server |
| `OneRoute`, `OwnerIsCharged`, `ForeignAccountLostARace` | one route and one transaction per order; the charge goes to the operator that owns the number; a page belongs to the account of its order |
| `EachIsToldOnce` | one failing send costs nobody else theirs, and nobody hears twice but by a lost answer |

Most of them have an exception (`raced`, `crossed`, `collided`, `overtaken`, `torn`, ...): a
history variable that is set at the very step at which two handlers overlap, so that the
property says *what it takes* to break the rule.  These exceptions are races the code
has; they are listed under Findings.

*Bounds.*  Two processes are enough for every race the code knows of, which is
between one job that read and one that writes; a process runs any number of jobs
one after the other, so that sequences are not bounded.  Three calls in `wallet`
are two duplicates of one credit and a debit between them; the theorems on `Wallet` hold for
any number.  The fourth in `wallet_overdraft` is the second debit.  `MaxTries`
= 2 is one retry on the hosted page, `MaxNotices` = 2 one repeated or reordered
notice, `MaxFaults` = 1 (payin, offices) and 2 (payout) a fault and, for payouts, one in
its repair.  `MaxAge` = 2 lets both windows end.  Time in the lock runs
far enough for a lease to be taken, to expire and to be taken twice more; in the
cron, for three periods.  `payin_ends` has fewer jobs because liveness needs the
whole state graph; the reopening of a payin is in it and not in `payin`, where it
would triple the states (the theorems on `Payin` hold with it).  `age` goes through the
window of direct charges only for these.  In the offices two is the number that makes a
race or a repetition: two runs of a reconciliation, three payments of an invoice (a race
of the cron needs an old one beside two at a time; the third comes only without the owner
and faults, `LastTxAlone`), two changes of an API transaction, two key pairs,
two sends of an announcement.  The orders of
`PayinRoute` are a set of examples, one for each way through the code: with and
without prefix, dial code, hint, account and limit.

*One part at a time.*  The parts of an office touch different documents, and what one
part needs of another (a claim, an atomic wallet, a status table) is checked in the module
that the text above names.  A behaviour therefore fixes `part` and runs one of them: the run
is the union of the components' state spaces, not their product.  The exception is
`DevKeys`, which runs together with `UserCache`.

*Symmetry* is used in `direct_cron` over the calls and in the offices over the handlers, for
safety properties alone.  *Deadlock* is not checked where the system stops for good: every
call made, the clock at its bound, the payment at its end and nobody starting anything.

*Fairness.*  A job that was started runs on (weak fairness of `Advance`): Node
resumes an await that has resolved, and every call of a driver or a provider
resolves or fails.  The crons come again and again, so a job that can be started
infinitely often is started (strong fairness of `StartVerify(p, "cron")`,
`StartReconcile`, `StartTxCron`): a cron skips a tick when the lock is
busy or another job of the process runs, and comes back.  Time passes (`GrowOld`, `Age`,
`Tick`), MongoDB sweeps expired locks, and in `Payout` the provider decides a transfer
it took.  Nothing is assumed of payers, notices, callbacks, polls and approvals.

## Proofs

TLAPS checks the following for every value of the constants that satisfies the
named assumptions of the modules; no fairness is used in any of them.

* `WalletProofs`: types; at most one call per key keeps its amount
  (`AppliedAtMostOnce`) and success means recorded (`SuccessMeansRecorded`), by one
  invariant that ties each applied keyed call to its movement; debits alone never
  overdraw (`OnlyReversalsOverdraw`).  They rest on the assumption that a key names
  one posting, as it is built from the purpose and the id of a transaction.
  The balance is four sums: the ledger, the calls without a key, the calls half done, less
  what was taken back although it is on the books.  `StepMoves` says what each step does to
  the four; `WalletIsItsLedger` (the settled
  balance is its ledger) and `WalletImplementsLedger` (every step is a posting of
  `Ledger` or leaves it alone) both follow from it.
* `DirectChargeCronProofs`, of the lock: `LockInv` = types, one document (`OneDocument`, the
  unique index), no stamp from the future of every clock (`NoFutureStamp`) and
  `LeaseProtects`.  The last is not inductive alone: that a cleanup by another call
  spares a lease that lasts needs to know how far ahead its stamp can be.
  `MutualExclusion` follows.
  Of the cron: its steps take, lose and release the lock as the lock's own module says,
  so `LockInv` holds here too; with `DeadlineBound`, which relates the
  deadline of a tick to its stamp, `BudgetSeparatesTicks` says that two ticks never both
  start rows if `BudgetFitsLease`: 2 Skew + Latency + Budget <= Lease.  The code's
  numbers are 18 s and 25 s, which leaves 7 s for the clocks and the database.
* `PayinProofs`, from three inductive invariants besides the types.
  `CreateInv`: before the transaction there is nothing, one job creates, a charge still
  to be ordered is not made, and attempts follow one another.  It is what makes a
  success at the provider stay: nothing overwrites an attempt that was made.
  `PaidInv`: as long as no attempt succeeded, not only the books but the memory of
  every running job is clean of success.  `PaidBeforeCredited` alone is not inductive,
  since a job may carry a success it has read into a later step.  The result is
  `NothingForNothing`.
  `ClaimInv`: who holds the claim, at which steps, and that nobody else gets to the
  handlers; `ClaimedOnce` and `ClaimIsNotForgotten` are parts of it.
  `SuccessIsKept` follows from the status table without an invariant.
* `PayoutProofs`.  `ClaimInv` says that a transaction not yet claimed has no order and no
  process that pays, and one that is has at most one of both together; `PaidAtMostOnce`
  and `RejectedNeverPaid` are parts of it.
  `ReportedIsPaid` needs (`EvidenceInv`) what the jobs *believe*: a final status that a job has read, or
  that a document holds, is the provider's.  `NeverPaidAndRefunded` needs (`CauseInv`) a reason
  for each step towards a refund: the order was refused, the transfer failed, or one of
  the mishaps happened.  `FailedIsRefunded` needs to know (`DocInv`, `AgeInv`, `RefundInv`) who still owes the refund: an
  unpaid transaction has a job at its refund, one marked as refunded a job at the credit,
  one under way without a document its payer; and that after eight hours nobody pays any
  more, so that the cron closes nothing that is on its way.
* `SumTheorems`: what `SumFunctionOnSet` does when an element is added, removed or changed, and
  what a part of a sum is at most.  A sum over a set is a fold, and the induction theorems of
  the library cannot be used; instead a fact that were wrong for some set would be wrong for
  a smallest one (`MinimalSubset`), which has one element more than a set it is right for.
* `BalanceProofs`, of the system's balance: `PostInv` says that an amount is posted only
  under a completed movement, that a handler about to post has completed the movement
  itself, and that no two are about to post under one key.  `PostedOnce` alone is not
  inductive: two handlers past the same check would both post.  `PostedAtMostOnce` and
  `ClosedNeverPosted` follow; nothing is assumed of the amounts.
  `CompletedMovementsPosted`: whoever completed a movement changes the amount next, unless
  the balance does not cover it or a fault stops him (`CompletedInv`).
  `OrderInv` says that one handler orders each withdrawal, and that until its debit the
  balance it looked at is there or another debit took it; hence `UnfundedWithdrawalLost`.
  Of spending: `SpendInv` says that exactly what was taken is missing from the wallet, and
  that what was created was taken; each step knows whether its attempt was
  (`SpendingIsCovered`).  `KeyInv` says for each key that is not raced, aged or hit by a fault
  that one handler at most works on it, and that the record or a handler about to write it
  tells what was created (`KeyHasOneTransaction`).
  Of reconciliation: `ReconcileInv` says that a run posts something for a payin only if it
  found it unsuccessful here, that it is successful by then, and that a notice credits it
  besides only if it came after that run's look (`ReconciledOnce`).
* `OrderProofs`, of invoices: `InvoiceInv` says that, until a save crosses another, one payer at
  most is at work, on an invoice under payment, and that a charge under way is that of the
  last transaction (`OneChargeIsUnderWay`, `PaidInvoiceIsKept`).
  Of money: `MoneyInv` gives at each stage of an order what has moved; the rounding of each rate
  is a lemma (`RefundIsExact`, `SharesAddUp`).
  Of fulfilment: `DeliveryInv` says who delivers what was claimed, and that nobody else does
  (`DeliveredOnce`); `RequestInv` that what a handler knows of a transaction still
  holds, as long as no two work on it (`RequestTellsTruth`).
  Of keys: `KeyInv` says that the first document is the only one until two requests collide,
  and that a copy is true, missed or about to be removed (`KeysFollowTheirOwner`).
* `FrontOfficeProofs`, of accounts: `SessionInv` says that the stamp in the user's document is
  that of the last end of the sessions, and that nobody is about to write one for a user who
  does not exist, so that a sign-up does not take one back (`NoSessionSurvives`).
  Of the route: `RouteInv` tells for each step of an order which transaction and charge there
  can be already.  Its core is `OnlyFeesReject`: what `buildMobileMoneyCharge` took before
  the fees it refuses with them only above the ceiling.  `OneRouteOnly` rests on
  `PayinRouteAssumption`: fees are not negative, and orders name methods and accounts that
  are there.  `AccountInv` says that between the load of the keys and their use they are the
  order's, or the handler was overtaken (`PageIsOfItsAccount`).  `OwnerInv`, for `OwnerPays`,
  rests on `RoundTrip`: a number resolved once resolves to the same network and country again,
  because no dial code is an operator's prefix and a country has one currency.
  Of callbacks: `HeardInv` says that the status of a transaction was heard or a call is about
  to tell it, and that who holds the claim of a status tells it (`DeveloperHears`).
  Of announcements: `MailInv` says that a worker's delivery is marked, nobody else has it, what
  was mailed and answered is sent or about to be marked, and that what was mailed besides are
  lost answers (`NobodyIsMailedTwice`).
  Of notices: `NoticeInv` says that one handler tells an event, that its copies are those of
  the sends behind it, and that there are as many doubles as lost answers at most
  (`NobodyIsForgotten`).
  Of subscriptions: `SubInv` says what holds until something is done by hand, fails or
  overlaps: one handler sells at a time, the subscription ends where it read, every
  period lies before that end or before the end it is about to write, and who
  is about to switch the subscription off has seen it expired (`PaidForIsServed`).

Every safety and action property that a passing run lists is a theorem.  Only
model-checked is liveness (`CreditIsNotDropped`, `StaleLockDisappears`, `PayoutEnds` and
the run `payin_ends`), which is out of the prover's reach.
Some theorems (`AppliedAtMostOnce`,
`SuccessMeansRecorded`, `OnlyReversalsOverdraw`, `LeaseIsProtected`, `RejectedNeverPaid`,
`SuccessIsKept`, `ClosedNeverPosted`, `SharesAddUp`, the types) state what no run repeats.

The modules also state rules that follow the same design and that no run lists:
`ClosedIsNotPosted`, `TransferIsWhole`, `SameKeySameAnswer`, `CollectedAddsUp`,
`OneSubscription`, `RunningIsOn`, `LockoutLasts`, `CopyIsFresh`, `AtMostTwoTicks` hold on
the same instances, and `ClosedIsNotPosted` and `CollectedAddsUp` are proved;
`TicksNeverOverlap`, `StatusIsDeclared`, `DirectChargeCloses`, `NoPaymentWithoutFunds`,
`CompletedHasPosted`, `CreditAppliedOnce` and `SuccessIsCalledBack` do not hold, and are explained under Findings.

## Findings

Each of the first four is a run that ends in a violation.

1. A duplicate credit is a transient credit (`wallet_overdraft`,
   `balance.service.ts:121`): debits can spend it before it is taken back.
2. The webhook of a failed attempt on the hosted page makes the payin final, so that a
   second attempt that succeeds is not credited (`payin_second_attempt`,
   `payin.service.ts:1432`).
3. The correction of a success that the provider calls failed is refused by the status
   table, silently: every further reconciliation debits the user again
   (`reconcile_twice`, `transaction.service.ts:2263`).
4. A transfer from the balance by a method whose rate is 0 is debited at the system's rate
   and stored at 0; its refund gives back what is stored (`transfer_debit`,
   `flutterwave.service.ts:1736`).

What the exceptions in the properties, and the rules that no run lists, stand for:

* Wallet.  When the insert of a movement is done and its answer lost, the amount is taken back
  and the movement stays (`balance.service.ts:127`): the caller hears of an error, and a retry
  with the key is told that all is done.
* Cron and payments.  Ticks of the direct-charge cron overlap, as one row may outlive the
  lease (`payin.cron.ts:73`); two ticks never both start rows.  A verified payout may get the
  status `NEW`, which the schema does not have and the cron does not list
  (`payout.service.ts:280`).  The close window of direct charges closes nothing: what is
  pending stays so until eight hours are over (`flutterwave.service.ts:2006`).  A success
  that Paystack's redirect records after eight hours may be closed and never credited
  (`SuccessIsCredited` speaks of `age < 2`).  A crash or the error of the system's share
  after the claim loses the handlers of anything but an invoice.  A lost answer, a failed write
  or a forced failure may leave a payout both paid and refunded.  A crash between the mark of
  a refund and its credit, and a bulk rejection, refund nobody.  M-Pesa's and
  Paystack's verification write without a condition and may take back a recorded success
  (`payin.service.ts:837`; the comment at 760 says it is never reopened).  The retry endpoint
  (`flutterwave.controller.ts:707`) cannot retry a transaction in `PAYOUTERROR`, because the
  claim asks for `PAYINSUCCESS`.
* System balance.  A debit that the balance does not cover completes its movement and takes
  nothing, without an error and without a fault (`CompletedHasPosted`;
  `system-balance.service.ts:205-252`), against "Seuls les mouvements `completed` ont réellement
  impacté le solde" (line 404): a debit by hand looks at no balance, that of a withdrawal at one
  which another may have taken since.  Of two withdrawals that pass the first look at the balance, the second
  goes out without its debit (`system-balance.service.ts:167` returns null, nobody looks),
  against the comment "pas de paiement sans fonds" (`NoPaymentWithoutFunds`).  The fees of
  transfers never reach the system's balance.
* Reconciliation.  It posts under a key of its own, `reconcile-credit:<user>:<time>`
  (`transaction.service.ts:2371-2385`), by the status its list held when it began (line 2227).  A
  notice that comes after the run has read a reopened payin goes through `processSuccessfulPayin`
  and credits it under `payin-credit:<tx>` as well (`CreditAppliedOnce`), against "le crédit est
  appliqué une seule fois" (`flutterwave.service.ts:2115-2119`): a double credit without a fault.
* Spending.  Two attempts with one key that overlap make two transactions and hear of one.  The
  debit of an API payout or a withdrawal is lost when its transaction cannot be saved; only a
  transfer rolls back.  An `invalid credentials` answer is stored under the key.
* Invoices and requests.  Handlers save what they read: two that overlap may undo a payment's
  mark.  The sync cron looks at the last transaction of an invoice that is under payment for
  more than a minute; while a payer's own request runs that long, the last one is of an
  attempt before, so that the cron makes the invoice payable again and another payer is
  charged beside him (`invoice.service.ts:968-1010`), against "sans jamais risquer de
  re-débiter le payeur" (`invoice.service.ts:666`).  `OneChargeAtATime` counts this among
  its exceptions; a proof of it that did not go through showed it.  With the organisation as payer the system's commission is computed in two ways
  (`invoice.service.ts:949-951`, `flutterwave.service.ts:2187-2189`).
* Subscriptions.  Two payments handled at once, or one while the cron switches the
  subscription off, lose a period; no index forbids a second subscription.
* Callbacks.  `dev.controller.ts:723` lists `payin_success` among the statuses of the webhook, and
  the claim of a successful payin calls nobody (`SuccessIsCalledBack`); a failed post is not
  retried; the last callback need not be the last status.
* Developers' keys.  The first read of the keys creates a document without looking for one, and
  no index forbids a second: of two requests that overlap one gets a key that never works.
* Announcements.  A mail that the server took and whose answer is lost counts as failed and is
  mailed again (`announcements.service.ts:672`).  Re-sending one whose recipients are gone leaves it `SENDING` with no next time;
  a crash between claim and save does too; `update` is allowed while it is sent; a slow worker
  may overwrite `SENT`; the lock of nine seconds is not renewed while ten announcements are
  mailed.
* The route of a payin.  Orders of different accounts share the fields that hold the
  credentials, which `flutterwave-api.service.ts:30-32` was written to avoid; a Paystack account
  with a `secretKey` overwrites Flutterwave's.  A refused direct charge in KES carries no code and
  leaves the payin pending.  Fees that lift a charge over `MAX_DIRECT_CHARGE_AMOUNT` leave a
  transaction behind, and the API's charge is built only after its transaction is written.
  `createDirectPayin` checks no limit of deposits.  The 0 of a Ghanaian number stays in it.
* Notices.  When the first SMTP configuration is missing, `transporterInitPromise` is rejected and
  awaited for ever (`email.service.ts:43,75-86`): mails fail until a restart, and a changed
  configuration is never taken up.  Failures counted while the alert is mailed are forgotten.  A
  user that is not found silences everyone in a notice.  The invoice's notice has no `safe`
  between payer and owner.  `createSubscriptionWithoutTransaction` populates neither country, so
  that both its WhatsApp messages are skipped.

## Not modelled

* Lists, searches, statistics and exports: they read and change nothing.
* Payment plans, virtual cards, bank lists and balances at Flutterwave; Paystack payouts
  and M-Pesa's admin endpoints: they forward a request and keep nothing, or nothing calls them.
* `PaymentRouter` and the provider drivers under `payment/`, `verifyPayinByTxRef`, `updatePayin`,
  `createPaymentRequestPayin`, `retryPayout`, the WhatsApp tests and messages without a
  caller: dead code.
* Editing of plans, services, reviews, campaigns, profiles, pictures, settings, countries, cities and
  exchange rates: one document at a time, by its owner, read by nobody who depends on the order.
* Texts, languages and layout of messages; validation of forms; guards, filters, interceptors, logs.
* The newsletter's list, audit log, tracking and prospects: they append.
* What a request looks like on the wire; a call is made, refused, or its answer is lost.
* Real time: windows and leases are counted in a few units (`MaxAge`, `Lease`, `MaxTime`).

## Plan

Done in this order: wallet and ledger, lock, cron, payin, payout and their theorems; then the
back office and the front office.  Next:

1. An abstract `Payment` (charged, then credited once) that `Payin` implements, and
   one for payouts (debited, then paid or given back), each with the step-by-step proof.
2. The rules that no run lists (`SameKeySameAnswer`, `TransferIsWhole`, `OneSubscription`,
   `RunningIsOn`, `LockoutLasts`, `CopyIsFresh`) as theorems: most are near to an invariant
   that is proved.
3. Liveness of the offices under the fairness of their crons: an announcement that is sent ends, a
   pending request is synced.
