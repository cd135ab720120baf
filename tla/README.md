# ALKEVA: a verification project

ALKEVA lets customers in Ethiopia buy, hold, sell back and take delivery of gold
and platinum.  This directory models its back end in TLA+: the flows in which money
and metal move, the flows that decide who may move them, the sessions that prove who
is asking, and the outbox that tells customers what happened.  TLC checks the models
on small instances and TLAPS proves theorems about them for every instance.

Paths below are relative to `src/apps/api/src/` unless they name another root.

## 1. Inventory

| Component | State it keeps | Operations | Talks to |
|---|---|---|---|
| Ledger `ledger/ledger.service.ts` | accounts, append-only double-entry transactions | lock accounts in id order and read balances, post a zero-sum transaction, ask whether a customer may move money | every money path |
| Quotes `quotes/quotes.service.ts` | quote rows: open, consumed, expired | create (30 s of validity) | prices, orders |
| Orders `orders/orders.service.ts` | order rows, compliance events | execute (with an idempotency key), resolve a review | ledger, quotes, tier caps, treasury configuration |
| Delivery `delivery/delivery.service.ts` | delivery requests | create, approve, schedule, deliver, reject | ledger, vault stock |
| Treasury entries `treasury/treasury-entries.service.ts` | vault stock, capital entries | vault intake and outtake, capital in and out | ledger |
| Deposits `payments/payments.service.ts` | payment rows | create, webhook, reconcile, sweep (10 min), reversal | Chapa, ledger, freezes |
| Withdrawals `payouts/payouts.service.ts` | payout rows | intent, confirm, route, approve, reject, transfer, verify, sweep (10 min) | Chapa, emailed codes, ledger |
| Chapa client `chapa/chapa.service.ts` | none | checkout, verify, transfer; 15 s timeout | the provider |
| Emailed codes `auth/email-codes.service.ts` | codes, attempts | issue, consume | registration, payouts |
| KYC `kyc/kyc.service.ts` | document submissions, the customer's tier | submit, review | ledger's account gate |
| Fayda identity `auth/fayda.service.ts` | identities, flows in Redis | start, callback, handoff, complete | accounts, sessions |
| Administration `admin/admin.service.ts` | freeze flags, statuses, configuration | freeze, unfreeze, configure, list | ledger's account gate |
| Sessions `auth/sessions.service.ts`, `auth/auth.guard.ts` | session rows, revocation marks in Redis | create, rotate, revoke one, the others or all; refuse marked access tokens | every authenticated request |
| Authentication `auth/auth.service.ts` | users, password hashes, reset tokens | register, log in, ask for a reset link, reset | sessions, codes |
| Notifications `notifications/notifications.service.ts`, `src/apps/worker/src/dispatcher.ts` | the outbox | emit, dispatch a batch under a lease, retry with backoff | mail, push, Telegram |
| Price alerts `alerts/alerts.service.ts`, `src/apps/worker/src/alerts.ts` | alert rows | create, delete, fire | outbox |
| Worker `src/apps/worker/src/main.ts` | an advisory lock | tick, reconfirm the lock, dispatch | Postgres, Redis |
| Web client `src/apps/web/src/lib/api.ts` | cookies, one refresh under way per tab | refresh and repeat a refused request | sessions |

Components interact through the database: there is no in-process state shared
between requests.  What makes the system hard:

* several API processes and workers run the same handlers at once, and most flows
  are several statements without a common lock: what one statement checked, a rival
  may have changed before the next;
* a transaction's `now()` is the time it started, while `eatDayStartUtc()` reads
  the process clock after the waits for locks;
* calls to Chapa and to the mail, push and chat providers are made outside any
  transaction; what was read before is stale after, and the answer may be lost;
* webhooks are lost, repeated and late; timers and leases stand in for them;
* tabs of one browser share cookies and refresh on their own;
* a process may die between any two statements.

The hazards this gives, each at its line, are in `PROJECT.json`.

## 2. The modules

```
Sums ── Books ── Orders ───┐                     Reserve (abstract)
          │ ──── Delivery ─┼── Platform ───── implements ──┘
          │ ──── Treasury ─┘
          ├───── Payments
          └───── Payouts ───── implements ── Escrow (abstract)

Platform, Payments, Payouts ── Bank
Locks (row locks) ── Postings ─── implements ── Atomic (abstract)

Codes ── Standing                        Sessions ── Recovery
Outbox

BooksProofs (Sums and Books), PlatformProofs (Orders and Platform), ChapaProofs
(Payments and Payouts), BankProofs, LocksProofs (Locks and Postings), StandingProofs,
SessionsProofs (Sessions and Recovery), OutboxProofs
MCOrders, MCPlatform, MCPayments, MCPayouts, MCLocks, MCSessions, MCStanding,
MCOutbox: instances for TLC
```

**Books** holds the balances (`cents`, `metal`, `cash`, `charges`, `external`,
`payoutHold`, `vault`, `deliveryHold`), the vault's physical stock, the customers
`accountGate`/`isFrozen` refuses (`barred`) and the EAT day.  A balance stands for
the sum of an account's entries.  `lockAndReadBalances` takes `FOR UPDATE` locks on
all touched accounts in the order of their ids and then reads the balances in a new
statement, which under READ COMMITTED sees what the lock's last holder committed.
So everything from there to COMMIT is one step of the models; the modules Locks and
Postings are where that is justified (`PostsAtomically`).  Fees, tax and reforestation are one
account, as no property tells them apart.

**Sums** defines the sum of a function over a finite set as the number of unit tokens
of its summands.  It is the sum the code asks the database for; in this form the
theorems on cardinalities of finite sets apply to it, where a fold would need an
induction the prover cannot do.

**Orders** models `execute` and `resolveReview`.  A call begins (its `now()` is
fixed) and later finishes in one of the ways the code has: replay, recorded
rejection, review, settlement, rollback.  In between the day may change, a freeze
land, the quote lapse or a rival commit.  `posted` counts the ledger transactions of
an order; `created`, `settled` and `checked` are the days of the row's two clock
reads and of the check.  A review's rejection does not take the account locks in the
code; it is one conditional UPDATE, and it commutes with everything but the approval
of the same order, which re-reads the status under the row's lock.  After a decision
the compliance events are resolved by a separate statement (`ResolveEvents`), which a
crash may skip (`CrashBeforeResolve`).

**Delivery** and **Treasury** model the services of those names.  The request's check
and insert are two steps, as are the approval's question to the account gate and its
transaction.  Deliver moves the vault account and the physical stock together.

**Platform** composes Orders, Delivery and Treasury on one set of books, and states
that they implement **Reserve**: metal owed to customers never exceeds metal in the
vault; stock leaves only when free or handed to whom it is owed.

**Payments** models a deposit's row against the provider.  Every webhook, reconcile
call and sweep is a `handler` that goes from statement to statement, keeping the
status it read (`seen`) as the code keeps its `payment` row.  `chapa` is what verify
would answer now, `credits` the number of deposit postings, `retried` the deposits
whose customer reopened a checkout that had failed.

**Payouts** models a withdrawal from the emailed code to the provider's answer:
`code` is what step 1 issues, `confirm` the call that consumes it, `claimers` the
callers past the account gate, `sender` the one that claimed the row.  The answers
some caller holds (`answers`) are applied by conditional updates, by any number of
callers.  `posts` counts transfers sent.  `settings` says whether the process runs
with a live or a test key.  Payouts implements **Escrow**, what a customer is promised
of a withdrawal: the money is set aside once, the bank is asked once, the money leaves
the books only for a transfer the bank made and comes back, whole, only when there is
none and can be none.  Stage and bank of Escrow are read off the row's status and the
transfer (`StageOf`, `BankOf`).

**Bank** puts Orders, Delivery, Treasury, Payments and Payouts on the same books.  The
other modules let the rest of the system act in their stead only as far as they need it
(a freeze, a buy); Bank has all of it, and what the theorems about one component say is
proved of it again (section 4).  It has too many states for a run of its own.

**Locks** models the row locks themselves: the order row's unique key, the KEY SHARE
lock its foreign key takes on the quote, the accounts in id order, the FOR UPDATE on
the quote.  **Postings** adds what is done under them: `lockAndReadBalances` sums the
entries of its accounts after its last lock, and what `postTransaction` then inserts
shows when the transaction commits.  What a transaction posts is any function of what it
read.  Postings implements **Atomic**, where reading and posting are one step.

**Codes** models registration and the emailed codes of an address, a statement a
step: `issue` retires the older codes, inserts a row, sets its hash; `consume` reads
the newest row and then raises its attempts or uses it.  `guesses` counts the wrong
guesses made, which the row's `attempts` may lag behind.

**Standing** extends Codes with what else decides whether `accountGate` lets a
customer move money: document submissions and their reviews (`doc`, `tier`), Fayda
identities (`identity`, guarded by two unique indexes), freezes (`flags`, `frozen`).
A call is at one place, for one account, about one item; any call may die where it
is.  `verdict` remembers whether a freeze or an unfreeze committed last.

**Sessions** models the sessions of one account and the refresh calls of its devices'
tabs.  A row keeps the current token and the one before; `access`, `mark`, `cookie`
and `graceLeft` are clocks that Tick turns down.  Revoking writes the rows first and
the marks in Redis after (`marking`), and a revoker may die in between (`unmarked`).
**Recovery** adds password sign-in, in its two steps, and reset links, in their
three.  Passwords are numbered in the order they are set.

**Outbox** models notification rows, the dispatcher's passes, the price alerts that
insert rows, and the workers with their advisory lock.  A pass keeps what it read of
its rows (`job[w].read`) and writes it back unconditionally.  `copies` counts what the
providers delivered; `slips` the causes that may double a message.

`PROJECT.json` maps every definition to its lines.  Definitions whose comment says
*mutant* are seeded bugs: replacing the definition they follow makes the property
named in `PROJECT.json` fail.

## 3. The runs

| Run | Shows | Distinct states |
|---|---|---|
| `orders_day` | a quote and a key execute once; ceiling, tier cap and review line hold; decisions are final | 111,842 |
| `platform_metal` | the reserve promise is kept, the books balance in metal and money, the delivery hold is exact, every posting balances, no overdraft | 195,936 |
| `payments_all` | only verified successes credit; a reversal takes back no more than was credited or is there; who paid at the first attempt is credited in the end, although any webhook may be lost and calls fail | 186,388 |
| `payments_twice` | **fails**: one credit per deposit | |
| `payments_retried` | **fails**: who paid at the second attempt is credited, when the webhook is lost | |
| `payouts_all` | never paid and refunded, sent at most once, settled only if paid, the hold exact, the instant path under the review line, the daily limit against two requests, every step one that Escrow allows, decided transfers resolved; with a test key nothing stays `processing` | 131,256 |
| `locks_quotes` | no deadlock among orders, a withdrawal and a refund; what they read and post takes effect as whole transactions one after the other | 3,995 |
| `locks_shared` | **fails**: two orders on one quote deadlock | |
| `sessions_tabs` | a marked session is refused at once; racing tabs stay signed in; a reset link works once and a finished reset signs out whoever proved an older password | 740,604 |
| `sessions_racing` | **fails**: tabs that race within the grace are never taken for a thief | |
| `outbox_workers` | an alert has one notice; extra copies each have a cause; every notice is settled in the end | 347,121 |
| `standing_calls` | tiers and freezes are what reviews, identities and decisions say; decisions take effect; guesses are bounded | 382,580 |

### What the failing runs show

1. *Double credit* (payments.service.ts:205-219).  A webhook reads `initiated`; a
   reconcile call credits the row; the webhook writes `webhook_received`, and the
   settle that follows finds a creditable row again.
2. *Retried checkout* (payments.service.ts:79-85, 363-365).  The row is closed as
   failed, the customer pays at the second attempt, the webhook is lost: the sweep
   does not select failed rows.  The run's specification is fair, so nothing else is
   to blame.
3. *Deadlock* (orders.service.ts:115-142 and the foreign key in the first migration).
   One order holds the accounts and waits for the quote, on which the other has the
   share lock of its insert; the other waits for the accounts.  PostgreSQL aborts one.
4. *Racing tabs* (auth/sessions.service.ts:140, 159-176).  Three tabs of one browser
   find their access token expired.  The first two rotate the token one after the
   other within a minute; the third, which sent the cookie it had at the start,
   presents the token before last.  The row remembers one, so the session is revoked
   as if the token had been copied, and the customer is signed out.

### Met while modelling

Described here and in the hazards; some are bounded by a property, none has a run of
its own.

* Two sells under one ceiling, one begun before midnight and checked after it, settle
  on the same day (orders.service.ts:236-241, 279, 706): each is checked against
  another day than the one it is counted on.  Withdrawals have the same two clock reads
  (payouts.service.ts:190-196).  `OrdersOverMidnight` says how far a day can go over.
* Two delivery requests for one asset both check that none is open, then both insert
  (delivery.service.ts:69-100).  The metal is safe: `HoldMatchesDeliveries` and
  `NoOverdraft` still hold.
* A reversal closes a row that is not credited yet as `failed`, which a settle that
  verified before the refund may still credit (payments.service.ts:265-272).
* A freeze between `assertCanMoveMoney` and the transfer does not stop it
  (payouts.service.ts:362-385).
* With more rows stuck in `processing` than the sweep's batch of 50, younger ones are
  never verified (`DecidedIsResolved` fails with `SweepLimit` 1); a payout whose process
  dies between claim and transfer has no way out of `processing` with a live key.
* A revoker that dies after the rows and before the marks leaves access tokens that
  pass until they expire (auth/sessions.service.ts:195-200).  A sign-in that passed the
  password check before a reset opens a session after it (auth/auth.service.ts:317).
* Two reset links, or two codes, issued at once are both live: each retires what was
  there before the other was inserted.
* Guesses under way together each see the same attempt count, so a code takes as many
  more as there are calls (auth/email-codes.service.ts:152).
* A restart in the middle of a batch sends again what the provider already took, and a
  batch slower than its lease is sent by two workers; the comment at
  dispatcher.ts:41-42 promises otherwise.  `CopiesAccounted` is what does hold.
* A worker that finds the lock taken when it starts idles for good, also when the
  holder is gone later (main.ts:353-359).
* An unfreeze that dies between the flags and the status leaves an account frozen that
  unfreeze refuses as not frozen (admin.service.ts:613-620).  A reviewer's process that
  dies after claiming a document leaves it approved and the tier unraised, with no call
  that raises it (kyc.service.ts).  A Fayda sign-up whose identity was attached
  elsewhere in the meantime leaves an account without an identity (fayda.service.ts).

### Bounds

* `orders_day`: three quotes and two keys of one customer, two calls, two days.
  The figures make every gate bind: of the pairs of trades one reaches the review line
  (5) inside the day's cap (6), one passes the cap, one passes the ceiling (4), and a
  buy's total, but not its subtotal, passes the opening balance.  Two calls are what a
  race needs: every refusal depends on one rival.  Calls are symmetric.
* `platform_metal`: two customers, one asset, two keys, two requests, one call, one
  day; a free stock of 1 at the start that buys, deliveries and outtakes compete for,
  and a float one above its threshold.  `MaxPhysical` and `MaxCash` bound intake and
  capital.  Races between calls on one key are `orders_day`'s business.
* Payments: one deposit, two handlers; deposits share nothing but the balance, which
  `Spend` drains in their place.  `MaxCredits` 2 caps what `payments_twice` counts.
  Time is four ages: fresh, past the sweep's ten minutes, past the checkout's closing,
  past the three days after which the sweep gives up.
* Payouts: two withdrawals of one customer, together at the balance and at the review
  line, and past the limit in the deployment with a test key.
* Locks: two orders and two transactions of other kinds, one listing its accounts in
  the opposite order.  The opening balance covers an order or the withdrawal, not both,
  so that each posts, or not, by what the others have left.
* Sessions: one session, as sessions of an account meet only in the sweep of a reset;
  three refresh calls, as the third is the one that comes too late; two rotations
  (`MaxToken`); one sign-in and one link submitted twice.  An access token lives three
  ticks, the grace three, a call one, the mark one longer than the token: the smallest
  figures in the code's order (15 min, 60 s, seconds, 60 s more).
* Standing: two accounts, two calls at once and five in all (`MaxStarted`), two
  documents, two persons, one death for an account (`MaxDeaths`), codes that lock at two
  attempts and a rate of two.  Five calls are what the longest of the interleavings
  needs: register, submit twice, review both.
* Outbox: two workers and one notice of two channels, two attempts, two faults
  (`MaxFaults`).  One notice stands for the rest of its batch by `Overrun`, the lease
  that ends while its worker is busy; an instance with two notices of one channel passes
  as well (277,510 states), and the proofs are for any number.

`CHECK_DEADLOCK FALSE` is said for Payments, Payouts, Locks, Sessions, Standing and
Outbox: each ends when its deposits, withdrawals, transactions, tokens, calls or
notices are used up.

### Fairness

`PaymentsFairSpec`: the sweep's timer fires for ever, and a call to Chapa or the
database that fails is tried again at the next tick.  A step of the sweep on a payment
that is possible again and again is therefore taken in the end: strong fairness, as a
failing call disables it in between.  Calls under way end (weak fairness; the client
gives up after 15 s), and time passes.  No customer, webhook or reconcile call is
assumed to come.

`PayoutsFairSpec`: the sweep runs for ever and of the callers that hold a clear answer
one applies it: weak fairness of `SweepVerify`, `SettleLedger`, `RefundAndReject`.
Neither the provider's decision, nor finance, nor the sender is assumed to act.

`OutboxFairSpec`: a worker goes on with its pass and its alerts, a process that is gone
is started again, backoffs and abandoned leases end: weak fairness of each.  Faults are
bounded by `MaxFaults`, for a worker that dies in every pass never finishes one.  A
provider may fail at every attempt: `MaxAttempts` settles the row all the same.

### Abstractions to know of

* Statuses the code never writes (`verified` of a payment, `approved` of a payout)
  are left out.
* The sweep's five-minute age of a payout is not modelled: the model's sweep may come
  earlier than the code's, which allows more interleavings.
* A checkout whose initialisation failed, clearly or not, cannot be paid: the customer
  never got its address.
* A payout's code is used, retired or runs out; wrong guesses and the rate are Codes'.
* Tier eligibility, caps and treasury figures are constants.
* Books freezes a customer in one step (`Bar`); the statements a freeze consists of are
  Standing's.
* Order approvals in Locks: they take no new foreign key lock, and the accounts in the
  same order.
* A refresh that starts on a dead session changes nothing and is not followed.  The
  thirty days of a session are left out: they only end sessions.
* A code never leaves the rate's window of fifteen minutes within a behaviour.
* Fayda's flows keep their state in Redis under a key one call takes (GETDEL, or the
  DEL that finds it): a flow is one call.
* A row's three channels are alike; a channel that has nobody to send to is over.

## 4. What is proved

All of it for any number of the things the constants name, from the named assumptions
of each module, which say no more than what kind of value a constant is, and: a sell's
charges are less than its subtotal and the vault holds what customers own at the start
(Orders, Platform); a refresh call is no longer than the mark's slack, two of them are
shorter than the grace, and the grace is no longer than an access token's life
(Sessions).  What
sums or counts range over is finite: customers (Books), idempotency keys and calls (Orders),
requests (Delivery), withdrawals (Payouts), transactions (Locks), calls (Codes),
workers, notices and channels (Outbox).

`BooksProofs` holds the lemmas on sums (a summand added, removed or changed; a part of
the set; the sum that moves from one summand to another; a union of disjoint parts; a
bound on every summand) and on the actions every flow shares, and that a posting that
touches one customer and sums to zero conserves money (`PostingKeepsMoney`).

`PlatformProofs`, about Orders:

* `OrdersTypeCorrect` (`TypeOK`).  Inductive as it stands.
* `OrdersPostingsBalance` (`PostingsBalance`): `PostTrade` is the only posting, and it
  is zero-sum for either side.
* `OrdersFloatFloor` (`FloatFloor`): `cash` falls only in a sell, which passed
  `FloatOpen`.
* `OrdersNoOverdraft` (`NoOverdraft`): every posting is guarded by `Funded` in the step
  that posts, as reading and posting are under one set of locks.
* `OrdersDecisionIsFinal`, `OrdersPostOnce`, `OrdersQuoteOnce`.  Every step is one of
  three kinds: it claims a free key with a fresh row (`ClaimStep`), decides a row in
  review (`DecideStep`), or leaves the rows alone (`OtherStep`).  One lemma classifies
  the actions; each theorem then has three cases.
* `OrdersSellbackCeiling`, `OrdersTierDayCap`, `OrdersUnreviewedBelowLine`: the three
  daily totals.  Each needs `OwnQuotes` (a row's quote and key belong to one customer)
  and the same argument, `LimitKept`: a step adds one settled row to a day's set at
  most, and it does so only after the total it read, plus its own amount, was found
  within the limit in the same step.  That only rows settled and checked on one day are
  summed is what makes it inductive; see the first item of "Met while modelling".
* `OrdersOverMidnight` (`MidnightBound`): what the three totals may reach when *every* row
  of a day counts, also those checked against another day.  Calls that were under way at
  midnight are all there is to it (`OverMidnight`): for each day, the rows stamped with it
  and checked on a later one (`Late`) and the calls that began on it and still run
  (`Started`) are together no more than the calls there are, and each such row was within
  the limit alone (`WithinAlone`).  So a day holds its limit once, and once more for each
  concurrent call at most.

`PlatformProofs`, about Platform:

* `PlatformTypeCorrect`, `PlatformReserveBacked`: the reserve is inductive once types
  are known.  A buy passes `ReserveOpen`, an outtake leaves `MustStay`, a handover
  lowers stock and debt together, and nothing else lowers the stock or raises the debt.
* `PlatformKeepsPromise`: the refinement.  Every step changes stock or debt of one
  asset at most and is there an issue, a redemption, an intake, a release or a
  handover, or a stutter.
* `PlatformHoldMatches` (`HoldMatchesDeliveries`): a step that changes a request's
  status across `HeldStatuses` moves that parcel's grams, and no other step touches the
  hold.
* `PlatformNoOverdraft`, `PlatformBooksBalance`: with deliveries and treasury entries
  competing.  A handover lowers hold and debt by one parcel; a posting lowers the vault
  account by what one customer gains; every posting that moves money sums to zero over
  one customer and the system accounts.

`LocksProofs`:

* `LocksAccountsExclusive` (`AccountsExclusive`): an account lock is taken only when
  nobody holds it, and the locks of one transaction change without touching another's.
* `LocksNoCircularWait` (`NoCircularWait`), for orders on different quotes, which is
  what `locks_shared` shows to be needed.  Invariant (`InOrder`): what a transaction
  holds is below what it still lacks.  So whoever is waited for waits, if at all, for a
  larger account, and the one that waits for the largest waits for nobody of the set.
* `PostingsAreAtomic` (`PostsAtomically`): the refinement of Atomic, by which every module
  on the books takes a transaction for one step.  Invariant (`ReadsCurrent`): a
  transaction that has read and not ended holds the locks of all its accounts, so nobody
  has posted to them since, and what it read is what is there when it commits.
* `PostingsStayAboveFloors`: hence a check under the locks is enough.  If every
  transaction leaves its accounts above their floors judged by what it read, no account
  falls below its floor.

`StandingProofs`:

* `StandingTypeCorrect` (`StandingTypeOK`).  The bound on an account's codes in it needs
  `CodesCounted`: the codes and the calls that will insert one stay under the rate and
  one for each call, as the rate is checked before the insert.
* `StandingEarned` (`StandingIsEarned`), from `Earned`: a call about to raise a tier
  works for an account with an approved document, and identities are one-to-one.
* `StandingDecisions` (`DecisionsTakeEffect`), from `Decided`: of each account, what is
  decided and not in force is a live call's to do, or was a dead call's.
* `StandingGuesses` (`GuessesBounded`), from `GuessesCounted`: the wrong guesses at a
  code are its attempts and the calls about to count one, or died; a guess is made only
  while the attempts are below the limit.
* `MoneyMoversEarnedIt`: what the three say together of whoever `accountGate` lets move
  money.

`SessionsProofs`:

* `SessionsTypeCorrect` (`RecoveryTypeOK`).
* `SessionsRefused` (`RevokedIsRefused`), from `Refusing`: for a revoked and marked
  session the mark outlives its access tokens, and what has gone of the mark is no more
  than the age of any call that may yet sign one.  This is where the slack matters: a
  mark as long as the token alone would not survive the call.
* `SessionsRecovered` (`RecoveryHolds`), from `OneSetting` (a used link has one
  submission that will set the password, or has set it) and `PasswordsKnown` (no
  sign-in and no submission knows a password newer than the account's).
* `SessionsTabsStay` (`TabsStaySignedIn`), from `Racing`: the device has the row's token,
  or had the one before and the row's is on its way (`InStep`), and a call that bears the
  one before is still within the grace, which is longer than two calls (`InTime`).  So a
  session is revoked as copied only after a lost answer or two rotations within the
  grace (`KillsHaveCause`, `ReuseNeedsCause`), however many tabs refresh at once.

`OutboxProofs`:

* `OutboxTypeCorrect` (`OutboxTypeOK`), with what the type invariant leaves out: a pass
  that sends has read exactly the rows it has yet to send.
* `AlertsNotifyOnce` (`AlertHasOneNotice`): the claim and the notice are one step,
  conditional on the alert's being armed, so the lock is not needed for it.
* `NoticesAccounted` (`CopiesAccounted`), from `Copying`: every copy of a channel that may
  yet be sent is the free row's, a claimer's or a sender's, and these with the copies
  already sent are paid for by an insert or a slip: a lease run out or written over, or
  an answer lost (`Accounted`).

`ChapaProofs`, about Payments:

* `PaymentsTypeCorrect` (`PaymentsTypeOK`).
* `PaymentsCreditVerified`, `PaymentsClawback`, from `PaymentsSound`: a call that is
  about to credit has seen the payment confirmed (`ClaimsConfirmed`), which no later
  answer takes back; and what was taken back, with what the standing credit may still
  cost, was credited (`CreditsCover`), also when a deposit is credited twice.
* `PaymentsUnnotifiedOnce`: a payment none of whose webhooks was sent is credited once at
  most, whatever reconcile calls and sweeps overlap.  Invariant (`CreditsCounted`): its
  row is `credited` exactly when it was credited, and no call of it is where only a
  webhook leads.  So the unconditional UPDATE of a webhook is the only way to the double
  credit that `payments_twice` shows.

`ChapaProofs`, about Payouts:

* `PayoutsTypeCorrect` (`PayoutsTypeOK`), with `RoutesRow`: whoever was let through to
  the instant path or to finance was let through for a row that exists.
* `PayoutsSentOnce`, `PayoutsNotRefundedToo`, `PayoutsSettledPaid`, from `PayoutsSound`:
  nothing was sent of a payout nobody claimed, who is about to send is the first and
  the money is not back, an answer some call holds still holds when it is applied, and
  how a row was resolved agrees with the transfer.  None of the three follows from the
  status alone.
* `PayoutsHoldMatches` (`HoldMatchesPayouts`): a step changes one payout, and the hold
  by its amount exactly when it enters or leaves `requested` and `processing`.
* `PayoutsDailyLimit` (`DailyLimitHolds`): the row is inserted in the step that sums the
  day's, and afterwards leaves the set or stays.
* `PayoutsAutoBelowLine` (`AutoBelowLine`).  The instant path sums the day outside any
  lock, so the invariant (`AutoLine`) counts the payouts it may still claim with those
  it has claimed: whoever passes later has the earlier one's row in its sum, as the row
  is there before the path is chosen (`FreshRows`).
* `PayoutsKeepCustody` (`KeepsCustody`): the refinement of Escrow, from `PayoutsSound`.
  Every step holds, declines, asks, decides, writes off or returns one withdrawal, or
  changes nothing Escrow sees.

`BankProofs`, about Bank: the invariants of Orders, Platform, Payments and Payouts hold
when all of them work on the same books.  `BankTypeCorrect`, `BankNoOverdraft`,
`BankBooksBalance`, `BankHoldsMatch`, `BankOrdersHold`, `BankDecisionIsFinal`,
`BankDepositsHold`, `BankWithdrawalsHold`, `BankKeepsPromise`, `BankFloatFloor`,
`BankPostingsBalance`.  Their ground is one invariant, `BankInv`, the conjunction of the
components' own.  A step of a component keeps its own part as in its theorems.  Of the
others it is shown what they may see of it: deposits, reversals and withdrawals move
money between one customer, the hold and `system:external` and touch no metal and no
float (`ChapaPosting`); no step of another component leaves a balance below zero; and
what a component's invariant says of the books is no more than that (`PaymentsAside`,
`PayoutsAside`).  So nothing a component was proved to do rests on how Payments' `Spend`
or Payouts' `SharedNext` stand for the rest of the system.  `BankPostingsBalance` assumes
that there is a customer, as a posting names the one it touches.  On a small instance
(one customer, one deposit, one withdrawal, one trade; 690,736 states) TLC found no
overdraft and money conserved.

Model-checked only: liveness (`FirstTryIsCredited`, `DecidedIsResolved`,
`ProcessingResolves`, `EveryNoticeSettles`), as the prover handles neither fairness nor
ENABLED.  Every other property of the passing runs, action properties and the three refinements
included, is proved.  The three properties expected to fail, and `NoCircularWait` with a
shared quote, are refuted by TLC.

## 5. Not modelled

* *Price arithmetic and the price feed*: the quote's spread, fee, tax and rounding, the
  feed's averaging and its jump checks are arithmetic on one call's own data; a quote's
  figures are constants of Orders.
* *Google, passkeys, Telegram, the OpenID exchange with Fayda, Chapa's signatures*:
  protocol cryptography around the insert of one row.
* *Lists, reports, preferences, push subscriptions, tier and treasury configuration*:
  single statements, or reads.
* *The assistant and the price stream* change nothing.
* *The web application* is by far the largest part of the source (about half of it) and
  is user interface: screens, forms and charts without a state of their own that other
  parts rely on; every rule they show is enforced by the API.  Its refresh of a session
  is part of Sessions.
* *The shared data-transfer types, the schema's columns, migrations and seeds* are
  declarations; the keys and constraints among them that guard a step are named at the
  definitions they guard.

## 6. Plan

Everything of the first plan is done but the quote's arithmetic.  What would come next:

1. The quote's arithmetic (`quotes/quotes.service.ts`): spread, fee, tax and rounding
   against a reference over bounded inputs.
2. Standing composed with Bank, so that a freeze is two statements there.
3. The bound of `OrdersOverMidnight` for the daily limits of withdrawals, which have the
   same two clock reads.
4. An abstract specification of a customer's sign-ins, which Sessions and Recovery
   implement but for the exceptions their invariants name.
