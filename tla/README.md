# OpenRails billing: TLA+ models and proofs

OpenRails is a billing service in Go. It keeps its state in PostgreSQL
(`billing.*` tables), receives webhooks of payment processors (CCBill, NMI-backed
gateways, Stripe), watches the Solana chain, runs periodic River jobs, and answers
an HTTP API. This directory models the parts that decide who has paid and who has
access, checks them with TLC and proves what matters most with TLAPS.

## 1. The system

| part | state | operations | who calls it |
|------|-------|------------|--------------|
| **Credits** (`internal/modules/credits`, `internal/river/jobs_{credit,hold}_expiry.go`) | `user_credit_balances`, `credit_blocks`, `credit_transactions`, `credit_types` | Deposit, GrantSubscriptionCredits, Withdraw, Hold, CaptureHold, ReleaseHold, Activate/Deactivate; two sweepers | service API, webhooks, River |
| **Entitlement timelines** (`internal/modules/entitlements`) | `entitlements`: windows `[start_at, end_at)` per (user, entitlement) | PushNewEntitlement, RevokeExistingEntitlement | lifecycle, webhooks, checkout, admin |
| **Subscription lifecycle** (`internal/modules/subscriptions/lifecycle_service.go`) and the **CCBill and NMI handlers** (`internal/modules/webhooks/{ccbill,nmi}.go`) | `subscriptions`, `payments`, windows | Create/Renew/Reactivate/Cancel/Expire/FailMembership, one handler per event | processors, admin |
| **Audit** (`internal/audit`) | none | queries for rows that contradict one another | operators |
| **The processor's side** (`webhooks/stripe.go`, `subscriptions/user_service.go`, `river/jobs_subscription_manage.go`, `cmd/subscription-sync`) | the processor's subscription and the row that mirrors it | Stripe events, cancel and resume jobs, administrator's cancellation, Stripe tier change, reconciliation | users, admin, Stripe, River |
| **Payments ledger** (`internal/modules/payments`, `http/handlers/admin_payments.go`) | `payments`, charges and refunds | refund request, notices of refunds | admin, processors |
| **Chargeback batches** (`webhooks/nmi.go`) | `payments`, subscriptions | match an entry, end the subscription | NMI |
| **Checkout and vault** (`internal/modules/{checkout,vault}`) | `checkout_sessions`, pending rows, `payment_methods`, idempotency records, NMI's vault | purchase, card, hosted page, form, deletion of a card | users, Stripe, CCBill |
| **Solana** (`internal/modules/solana`, `internal/integrations/solana`) | sessions, pending and consumed references in Redis | create, build, confirm, poll, settle | users, poller |
| **Webhook intake** (`internal/shared/webhookutil`, `http/handlers`) | River's job rows | verify, derive the key, queue | processors |
| **Webhook jobs and idempotency** (`webhooks/deduplication.go`, `internal/modules/idempotency`) | job rows, records in Redis or process memory | ProcessWebhook, Begin, Complete, Fail | River |
| **Dunning** (`internal/river/jobs_dunning.go`) | lease on past-due rows, records | select, claim, charge, settle | River, every 4 h |
| **Event log** (`internal/modules/analytics`, `pkg/spool`) | ClickHouse tables, spool and dead-letter directory | log, spool, trim, flush | everyone |
| notifications, catalog, metrics, HTTP, wiring | section 7 | | |

How they interact: a processor event passes the intake and becomes a River job; the
job claims the event's idempotency record and runs a handler, which calls the
lifecycle inside one database transaction; the lifecycle updates the subscription row
and pushes or revokes entitlement windows; after the commit the handler grants the
period's credits, completes the checkout session and logs the event. A purchase starts
at checkout, which calls the processor and leaves a row, a payment or a page to pay
on. The parts share the database, Redis and the processors, and nothing else; there is
no in-process lock between two requests, and several processes may run at once.

What is hard here:

* **Concurrency.** Most operations read a row without locking it, call a processor or
  not, and write all its columns back. Timelines are serialised by an advisory lock,
  but the clock is read before the lock is awaited. Sweepers race captures, pollers
  race confirmations, the flush of the spool races the calls that fill it.
* **Ordering and delivery.** Processors redeliver and reorder events, name none of
  the things an event is about (chargebacks, CCBill's form), or send no event at all.
* **Partial failure.** Errors inside a transaction are often logged and swallowed;
  sagas span the processor and the database, and a lost answer is taken for a refusal.
* **Boundaries.** Table constraints refuse rows that the Go code considers valid.
* **Time.** Expiry is lazy: a block, hold or session past its time acts until it is
  swept or read.

`PROJECT.json` lists these hazards line by line, with the properties that cover
each.

## 2. Modules

| module | models | kind |
|--------|--------|------|
| `Credits`, `CreditsProofs` | the credits service and its two sweepers | component, proofs |
| `SumProofs` | what a sum over a finite set of rows is, for the proofs about credits and refunds | lemmas |
| `Timeline`, `TimelineProofs` | one timeline as a value: what a push and a revocation make of it | operators, proofs |
| `History` | what a timeline promises its readers, an abstract specification; `EXTENDS Timeline` | abstract |
| `Entitlements` | timelines under arbitrary callers; `EXTENDS Timeline` | component |
| `Lifecycle` | subscription rows, payments and the timelines they drive, under all CCBill and NMI handlers and tier changes; `EXTENDS Timeline` | composition |
| `Audit` | the audit's checks as sets over the state of `Lifecycle` | properties taken from code |
| `LifecycleProofs` | `Lifecycle` and `Audit`; uses `TimelineProofs` | proofs |
| `Idempotency` | the records in Redis and in the memory of each process | operators and state |
| `Webhooks`, `WebhooksProofs` | River job and deduplication; `INSTANCE`s `Idempotency` | composition, proofs |
| `Intake` | names, signatures, keys and unique jobs | component |
| `Checkout`, `CheckoutProofs` | requests, sessions, both idempotency records, vault, processor, notices | composition, proofs |
| `SolanaPay`, `SolanaPayProofs` | sessions, references, chain, poller, settlement | composition, proofs |
| `Mirror` | one subscription at the processor and its row | composition |
| `Ledger` | charges, refunds, requests and notices | component |
| `Disputes` | NMI's chargeback batches | component |
| `EventLog` | calls, spool, flush | component |
| `Dunning` | the worker's runs | component |
| `MCCredits`, `MCLifecycle`, `MCWebhooks`, `MCCheckout`, `MCSolanaPay` | instances | for TLC |
| `MCOperations` | `Entitlements` with `Mirror`, `Ledger`, `Disputes`, `Intake` and `EventLog`, which share no state; `part` says which of them moves in a behaviour; their data are constants | composition for TLC |
| `OperationsProofs` | `Entitlements` and the five other components of `MCOperations` | proofs |

### Credits

State: `balance` and `held` are the two columns of `user_credit_balances`;
`blocks` pairs each deposit with its `credit_blocks` row; `holds` are the
`credit_transactions` of type hold; `withdrawn` sums the withdrawal rows. An
action is one committed transaction: every operation locks the balance row
(`lockBalance`) and the rows it changes, so statements do not interleave.
`Deposit` and `GrantSubscriptionCredits` append a block and raise the balance
unless the (source, source_id) key is already there. `Withdraw` checks
`balance - held`, lowers the balance, and draws live blocks in the order of
expiry (`IsDraw` characterises the loop). `PlaceHold`, `CaptureHold`,
`ReleaseHold` are the hold protocol. `CreditExpiryBatch` and `HoldExpiryBatch`
are one iteration of a sweeper's loop; because of `SKIP LOCKED` a batch is any
few of the due rows, and because the job reads the clock once, `t` may lag.

### Timeline, Entitlements

A timeline is a sequence of windows in order of insertion. `Pushed`, `TailStart`
and `Revoked` translate `PushNewEntitlement` and `RevokeExistingEntitlement`.
In `Entitlements` they are called by anyone, in any order, with a clock reading
`t \in 0..now` that may be stale. The exclusion constraint of the table is left
out, and `NoOverlap` shows that it never has to act; the unique index on
indefinite windows is kept, because it does act.

`History` is the abstract specification of a timeline: rows keep their interval and
source, end at most once, and are added behind what is live. `Entitlements` implements
it with single pushes and revocations (`KeepsHistory`), `Lifecycle` with operations
that touch several timelines and rows at once (`LifecycleKeepsHistory`); in both the
refinement mapping is `history <- windows`, and both are proved.

### Lifecycle, Audit

The rows are `sub[s]`; `tx[w]` is the snapshot transaction `w` has SELECTed.
`Begin` takes a snapshot, each operation is one action that commits what it makes
of the snapshot (`Save` writes all columns, and is disabled when a CHECK or a
unique index would refuse the row), `Rollback` is any error or early return.
Between the two steps any other transaction may commit. From its UPDATE on, a
transaction holds the row lock and later the advisory lock, so the rest is one
step. `HandleCCBillWebhook` and `HandleNMIWebhook` are the two dispatchers with one
disjunct per event; the events that change nothing but logs are `LogOnly`.
`RecordDeclined` is the failed payment row of a declined sale, which hides a later
success of the same transaction id. `disputed` is a history variable. A subscription
that NMI bills has a `pending` row from checkout on; CCBill's first sale creates the
row.

`TierChange` decides between upgrade and downgrade. A downgrade at NMI is scheduled
on the row (`ProcessDowngrade`) and takes effect with the next renewal; CCBill refuses
one. An upgrade at CCBill sends the user to a form, and `HandleUpgradeSuccess` follows.
An upgrade at NMI goes no further than the look-up of the vault: `TierChange` hands
`processUpgrade` no payment method, so the saga behind that point is not reached and
`ProcessUpgrade` changes nothing.

Two consequences of the constraints that the model has and no run reports on: the
last dunning failure of a period that has lapsed, and every failure with
`dunning_mode` off, write rows the table refuses, so nothing is stored; and a second
purchase of a subscription with a paid window that was not revoked, past or not, grants
no new one.

Abstractions: period *starts* are not kept (no operation reads them except to
copy them); amounts, e-mail addresses, notifications, event logs are dropped;
`cancel_feedback` is reduced to whether it mentions a chargeback (`noted`), which is
all `TerminalCancelReason` looks at. The feedbacks of NMI's handlers are fixed texts;
CCBill's `handleCancel` passes on the reason CCBill has sent, which may mention one
whatever the cancellation is for. A product has one price.

`Audit` states the checks of `internal/audit` that speak of subscriptions and their
windows. `AuditClean` is what holds of them: not that every check is empty, because
cancellation at the end of a period leaves windows on purpose that S-E-2 reports, but
that the reports are exactly of that kind.

### Idempotency, Webhooks, Intake

`redis` and `mem[p]` hold the records; a step is one Redis command or one critical
section of the memory map, so the GET and the SETNX of `beginRedis` are two steps
and other workers run in between (the GET after a lost SETNX is part of its step).
A delivery is a value of `UniqueKey`; its `job` is the row River keeps, and further
insertions of it are skipped. `worker[w]` goes through `ProcessWebhook`: `begin`,
`claim`, `handling`, `record`, `return`. Any call may find Redis out of reach and
fall back to memory (`BeginMemory`, `RecordMemory`); that also is what happens to
`Fail` after River's job timeout (one minute by default; the configuration sets
none), because it is called with the cancelled context. `Crash` ends a process with
its workers and its memory, `Rescue` is River's rescuer. Three facts about time are
guards: a pending record does not expire while the attempt that claimed it runs
(TTL five minutes, timeout one), the rescuer (after an hour) comes after every
record of the attempt has expired, everything else may expire at any time. `settled`,
`failedOnce` and `degraded` are history variables; the attempt in a record (`by`) is
not stored by the code and only serves the guards on time. What a handler does is
`Lifecycle`'s business; here it returns without error, with a retryable or with a
terminal error.

`Intake` is what comes before: the two doors, the two names of the gateway, the
signature headers, the order of CCBill's form fields, the key that is made of them,
and River's unique jobs, whose rows are deleted after a day (`CleanJobs`).

### Checkout

An attempt is one request; its name also stands for the session, vault entry,
transaction and rows it creates. `outer` is the record of the client's key, `inner`
the one the sale and subscription services make from user and price. A request goes
through claim, eligibility, vault (with the compensation when the row of a new card
cannot be stored), inner claim, call, insertion of rows, grant, both records, answer;
each may fail, a call may go through and lose its answer (`CallTimesOut`), and the
process may die anywhere. A record may expire under the request that claimed it,
because nothing bounds a call of the gateway. `remote` is what the processors carried
out. Stripe's hosted page and CCBill's form are paid outside (`HostedPays`), and the
notice is handled in steps of its own, of which `HookRead` and `HookMark` are the two
halves of `MarkSucceeded`; CCBill's notice names no session and marks the latest open
one. Whoever reads a session that has lapsed or failed holds a copy of it (`copies`)
and writes all of it back later; `undone` notes that it had succeeded in between.
There are two ways to delete a card. `DeletePaymentMethod`, the HTTP handler, refuses
one that a subscription needs and then deletes the row and nothing else, so the vault
entry stays (`dropped`); `DeleteVault` of the vault service deletes entry and row.
`marred` collects what a failure has hit after which the code does not clean up.

### SolanaPay

A worker is an HTTP request or one pass of the poller. A session row is read and later
written back, in two steps; settlement is `RegisterPurchase`, the grant,
`MarkSucceeded` (read, write) and `ConsumeAndRemovePending`, with a crash or an error
between any two. `chain` holds finalized transfers, which may name several references
and pay any amount of any token; `offers` is the history of quotes. A session is quoted
in the token `TokenOf`; `VerifyTransfer` looks for an instruction that moves the amount
and for a gain of the amount, and both are content with lamports. The poller asks for
the newest `SigLimit` signatures of a reference (ten in the code). Without a verification
service (`Verifier = FALSE`) the poller takes every transaction for a payment, and the
requests that need the service are refused.

### Mirror, Ledger, Disputes

`Mirror` has the processor's subscription (`remote`), the row and the events on their
way. Cancel and resume are jobs with attempts, the administrator's cancellation and the
tier change are requests; each reads the row, calls the processor, writes. Stripe's
events are translated from their handlers; for CCBill and NMI an event only has its
effect on the row. NMI's notice of an end is passed over when its subscription is not
known here; the other processors' waits for the row. `SyncFetch` and `SyncApply` are
`subscription-sync`, with a report that may be cut off or old. The cancel job takes any
error of its first look-up for a subscription that is gone (`missed`), and for NMI it
cancels the user's newest active subscription, which may be another one (`astray`).
`told` and `local` are history variables: the processor has stopped or was asked to;
and the places that cancelled the row without asking it. These are a refund of 80
percent or a chargeback (`reversal`), the last failed charge (`dunning`), a report of
`subscription-sync` without the subscription (`report`), and a cancellation where NMI's
client is not configured or the row has no id (`unasked`, `client = FALSE`).

`Ledger` has an administrator's refund (validate, call, check, insert) beside the
notice of the same refund (look up the original, look for a duplicate, insert, end the
subscription). Without an original the notice books nothing, and ends the subscription
all the same. The latest charge of a subscription may be a failed one (`declined`).
Stripe's refunds get no notice.

`Disputes` runs a chargeback batch: its entries are matched one by one, by amount, card
and date, against a ledger that fills up and cards that change; a subscription is tried
once in a batch, an entry that fails is left to manual review, and a crash starts the
batch again. The single match may be another owner's payment.

### EventLog, Dunning

`EventLog`: a call inserts into ClickHouse or writes a `.tmp` file and renames it; the
capacity rule trims the oldest files; the flush lists, reads, sorts, inserts one batch
per table and removes, or moves what it cannot read to the dead-letter directory. An
event may be stored twice; the properties do not say otherwise.

`Dunning` has the whole worker, and the code never passes its first look-up (section 6).

## 3. Runs

| run | what it shows |
|-----|---------------|
| `credits_main` | one account, two subscriptions with both cadences and redelivered grants, blocks with and without expiry, two holds: reservations, backing, conservation and idempotence under every interleaving; the sweepers eventually deal with everything that is due |
| `lifecycle_nmi` | two overlapping transactions on one NMI subscription leave nothing for the audit to report, and no paid window outlives a chargeback |
| `lifecycle_tiers` | an NMI and a CCBill subscription of one user on two tiers, with upgrades and downgrades, one operation at a time: a chargeback leaves no paid access, access is that of the product, and the timelines implement `History` |
| `webhooks_main` | two deliveries of one event, workers on two processes, failing handlers, crashes, expiry, Redis out of reach: no event lost, one handler until a failure, every job ends |
| `solana_main` | two sessions, two references, quotes that change between two amounts, one transfer of any token that may name both references, two workers: a session succeeds by its own payment and for an amount quoted, and nothing is consumed unrecorded |
| `solana_live` | one session and two transfers, of which the poller asks for the newest: every payment of a pending reference is settled or pushed off the list |
| `checkout_main` | two requests over four kinds of purchase and stored cards: success has something to show, vault and rows agree, a paid page is delivered |
| `operations_main` | the six components of `MCOperations`, twelve properties |

and the runs that exhibit disagreements between the code and what is written
about it: `lifecycle_chargeback`, `webhooks_fallback`, `dunning_retry`, `solana_mint`
(section 6).

Some properties carry an exception that is part of what they say. `HoldsCovered` is
stated for accounts whose blocks do not expire: with expiring blocks a sweep may take
the balance below what is held, and the code has the capture fail then.
`RefundsWithinCharge` excepts a charge that another's refund was booked under.
`LocalCancelIsRemote` names the places that cancel without asking the processor, and
the `cancel_type` each leaves: a row cancelled for another reason is not excused.
`CancelIsHonoured` excepts a job that was discarded, missed the row or went astray, and
a missing client. `EndIsMirrored` needs NMI's row to be there when the notice is.
`DisputeEndsOwner` is about payments nothing else can be taken for, and excepts a
subscription whose card has changed or whose end has failed. `VaultInStep` excepts
entries whose row the user has deleted, and with `PaidIsDelivered` what a failure
without clean-up has marred; the latter also a success that a stale copy of the session
was written over. `SucceededIsPaid` lets lamports stand for the session's token, as the
code does. `PaidIsSettled` allows the pending payment to run out.
`ChargebackEndsPaidAccess`, of rows `TerminalCancelReason` calls terminal, is for NMI:
CCBill's free text can make a row terminal whose paid period runs on.
`ChargebackLeavesNothingPaid` goes by `cancel_type` and is for both processors.
`ChargebackEndsPaidAccess` is checked with overlapping transactions for one product,
so without `ProcessDowngrade` in the race: that operation writes back a row that it
read outside any transaction, and next to a purchase it can restore a chargeback mark
over live windows. `lifecycle_tiers` has downgrades, and operations that do not
overlap.

**Bounds.** `MaxTime`, `Horizon` bound clocks and window ends; `MaxBlocks`,
`MaxHolds`, `MaxWindows` bound rows; `MaxFaults`, `MaxErrors`, `MaxSlips`,
`MaxLogFaults`, `MaxRefundFaults` the crashes and failed calls; `MaxMoves`,
`MaxRefunds`, `MaxDeliveries`, `MaxCleanings` the requests and what the outside does.
They appear in guards, so reaching a bound only disables further growth. Two holds and
two blocks with amounts 1 and 2 give partial draws, two-block draws, a capture beside
another hold, and batches of one that leave a row behind. Three windows hold a past, a
current and a future one. Two lifecycle transactions are enough for a lost update; two
transaction ids for a duplicate and a fresh renewal; `MaxDunningFailures = 2` (5 in
the code) for a first, a last and a further failure; cycle and retry interval are one
time unit each, so grace, lapse and renewal all fall inside the horizon. Two attempts
and one key give a retry, a race and a request without a key; one fault at any point
of a saga is the case its clean-up is written for. Two workers let a poller and a
confirmation meet in one settlement. Two refunds of amount 1 or 2 of a price of 2 can
exceed it, three payments of two subscriptions within a week can be mistaken for each
other, three records over a capacity that is trimmed to two make the rule act.
Symmetry is used over workers, transaction ids and Solana's names, in runs without
liveness properties.

Four state constraints and one restriction of the initial states keep runs small, and
cut no case that the properties are about. `checkout_main`: the second request is made
after the first and pays in the same way (`AlikeInOrder`), since requests that pay in
different ways share nothing but a client key; card
payments come without a client key and nobody reads their sessions (`CardsBare`).
`solana_main`: at most two quotes in a behaviour (`TwoOffers`), enough for one
that a rebuilt transaction has replaced. `lifecycle_tiers`: one of the two
subscriptions has a row (`OneProcessor`); their windows share the timelines only.
`operations_main`: of the charges only the last may have failed (`LastMayFail`).
The proofs have none of these. The largest runs have 2.8 million states (`solana_main`)
and 2.0 million (`checkout_main`).

**Fairness.**
* `credits_main`: weak fairness of each sweeper. River runs both periodically and
  retries a job that failed; the operators' switch `disable_entitlement_expiration`
  turns the assumption off.
* `webhooks_main`: weak fairness of River's fetching of a job, of each worker's next
  step (handlers return, at the latest on the job timeout), of the rescuer and of
  expiry. Deliveries may stay away and crashes may happen whenever a worker is busy;
  they cannot go on for ever, because each costs an attempt.
* `solana_live`: a worker that has begun goes on; the poller's ticker never stops. As a
  worker of the model may also serve requests, its polling step is enabled again and
  again rather than always, hence strong fairness for it.
* `checkout_main`: the notice of a paid page is delivered until it was handled, which
  is what `Webhooks` is about. Requests may die.
* `operations_main`: River runs the cancel and resume jobs; notices of payments, ends
  and refunds are handled in the end, the others may be late for ever; a logging call
  goes on once it has begun, and the flush runs every 15 seconds; the job of a chargeback
  batch runs to its end.
* `dunning_retry`: time passes and the periodic job runs to its end.

**Deadlock** is checked in the runs of `Credits` and `Lifecycle`, where something can
always happen. The other systems stop once every delivery, request and refund the
bounds allow has been dealt with.

## 4. Proofs

Every invariant, refinement and action property that a passing run checks is also
stated by a theorem, for arbitrary constants that satisfy the assumptions
`CreditsAssumption`, `TimelineAssumption`, `EntitlementsAssumption`,
`LifecycleAssumption`, `WebhooksAssumption`, `CheckoutAssumption`,
`SolanaPayAssumption`, `PlansAssumption`, `LedgerAssumption`,
`OccurrencesAssumption` (finite or non-empty sets, bounds that are natural numbers,
what tells two processor events apart) and `NoneIsNothing` (the value for "no row" is
not a row). TLC evaluates them in the runs. Four theorems about `Lifecycle` and one
about `SolanaPay` have hypotheses on the configuration, see there.

* **Timelines** (`TimelineProofs`, `OperationsProofs`). `OrderedIn`, that live windows
  in order of insertion do not run into each other, is the inductive form of "no
  overlap": disjointness alone is not inductive, since it does not say that the tail
  is behind every window. `PushKeeps` (from `TailStartBehind`, a maximum lies behind
  every element) and `RevokeKeeps` (revocation only shrinks the set of live windows)
  give `TimelineOrdered`; `OrderedIsDisjoint` turns it into `TimelineDisjoint`.
  `ImplementsHistory` shows that the service implements `History`: the initial states
  agree, and a step ends live windows or appends behind them, which is what the
  invariant after the step says of the row it adds.
* **Lifecycle** (`LifecycleProofs`). A transaction commits what it makes of a snapshot
  that may be stale by then, so whatever an invariant says of rows it must say of
  snapshots. `IInv` does (`Sound`: who is past due has a retry ahead or no attempt
  left), next to the CHECK constraints, the unique index on active rows and the order
  of every timeline. One lemma per operation derives `Effect`: the row that is written
  is sound; each timeline evolves by revocations and by paid or grace windows of the
  row's own subscription; a chargeback in the new row was in the snapshot, or ends
  what is paid; what the new product does not grant is ended. The theorems follow from
  `Effect` alone.
  `ImplementsHistory` and `AuditMostlyClean` hold for both processors, any products
  and any number of overlapping transactions.
  `ChargebacksEndAccess` holds for subscriptions billed by NMI with entitlements that
  expire, and one tier or no overlap (`OnlyNMI`), and so does `AuditFindsNothing`;
  `ChargebacksLeaveNothing` where transactions do not overlap (`OneAtATime`), for both
  processors; `AccessFollowsProduct` for `OneAtATime` and products that say what
  they grant (`Specified`).
  None of these hypotheses can be dropped: without each of them TLC finds a behaviour
  that violates the property. A small CCBill refund writes back the row it read before
  a purchase; so does a scheduled downgrade at NMI; a billing date change of CCBill that
  arrives late moves the period of a terminated row before windows that have passed;
  `disable_entitlement_expiration` leaves windows the audit reports; and a product
  without a specification grants the default name, which a later downgrade does not
  revoke.
* **Credits** (`CreditsProofs`, `SumProofs`). `RowsCorrect` types the rows; its core is
  that a draw never exceeds the block. `DepositsIdempotentAlways` needs that the blocks
  one grant transaction adds have pairwise different keys or accounts (the spec is a
  map keyed by credit type) and that their keys were not there. `CapturesBounded` and `HoldsEndOnce` follow the hold
  protocol, the latter as an action property. `HeldAddsUp`, `BalancesBacked`,
  `CreditsConserved` and `ReservationsCovered` relate a balance row to sums over the
  account's blocks and holds. They are inductive only together (`AccountSound`): that a
  capture leaves the balance positive rests on the reservation being part of `held`,
  and that on the balance covering it or the code refusing the capture. `SumProofs`
  supplies what happens to a sum when a row is added, rewritten or drawn; its induction
  is on subsets of a finite set, by a smallest counterexample.
* **Webhooks** (`WebhooksProofs`). "All jobs completed, hence settled" is not
  inductive. `UnsettledIsOpen` is its inductive form: an event that is received and not
  finished has a job that is neither completed nor about to be. A worker that skips
  gives up such a job, and needs another one: `PendingIsOwned` supplies it, since a
  pending record belongs to a running job whose worker is in the handler, or gone.
  `HandlerHoldsClaim` gives `OneHandlerUntilFailure`: two claims would be one record
  with two attempts.
* **Checkout** (`CheckoutProofs`). `AttemptSound` says where a request of each kind can
  be and what it has done by then. It does not say that a request owns the record it
  claimed: that may have expired, and another request may have claimed it. A repeated
  request is answered with the transaction of another: `SucceedsServed` needs that a
  success record, whoever wrote it last, has something to show (`InnerSound`).
  `VaultStaysInStep` follows a card through its stages (`CardSound`), up to either
  deletion.
* **SolanaPay** (`SolanaPayProofs`). A worker writes back the copy of a row it has read
  (`CopySound`): such a copy is never a succeeded one, and has the flow and the reference
  that no step changes. `SettlingSound` follows a settlement: up to the mark it goes by a
  transfer that pays the session and that is recorded for nobody else. That it pays
  needs a verification service (`Verifier`), a hypothesis of `SucceedsPaid`.
  `SucceedsByOwnPayment`, `SucceedsPaid` and `ConsumesRecorded` are read off.
* **The other components of `MCOperations`** (`OperationsProofs`). Intake: every way to
  a key comes to one function of the event, which tells events apart (`QueuesOnce`,
  `QueuesAccepted`). Event log: a call past its first write has left a trace, and the flush
  removes files of stored events only (`LogKeeps`). Mirror: not only the row but every
  copy somebody may write back, and every event under way that cancels, has the processor
  behind it, or a place that cancels without asking and that its `cancel_type` can come
  from (`CancelsRemotely`). Ledger: the rows of a charge are
  of distinct refunds the processor made, so their sum is at most what it moved
  (`RefundsStayWithinCharge`, with `SumProofs`).

**Model-checked only.** Liveness under fairness, which is out of the prover's reach:
`ExpiredHoldsReturned`, `ExpiredBlocksSwept`, `JobsEnd`, `AcceptedIsSettled`,
`PaidIsSettled`, `PaidIsDelivered`, `EndIsMirrored`, `CancelIsHonoured`,
`DisputeEndsOwner`, `RefundIsRecorded`, `SpoolDrains`.

## 5. Plan

1. A lock-grain model of the two lock-order cycles (credit sweeper against
   withdrawal, failure against renewal), which are one step each here.
2. Administrators' grants as further callers of the timelines.
3. Weaker hypotheses for overlapping CCBill transactions: which events may overlap
   without restoring a stale row.

## 6. Where the code and its documents disagree

| run | what happens |
|-----|--------------|
| `lifecycle_chargeback` | a later event erases the chargeback mark and a renewal activates the subscription |
| `webhooks_fallback` | one call that falls back to memory leaves the other store pending; the retry is skipped as a duplicate and the event is lost |
| `dunning_retry` | the worker looks for the client of the empty processor name, finds none and skips every subscription |
| `solana_mint` | a session quoted in another token succeeds by a transfer of as many lamports |

`PROJECT.json` quotes the lines that say otherwise.

The models also show weaknesses that no document of the repository speaks of. The
properties name them as exceptions:

* deleting a payment method leaves its entry in NMI's vault (`VaultInStep`);
* an idempotency record that expires under a slow call of the gateway lets a second
  request charge again, so no property promises one charge per key;
* a `GetSession` that read a lapsed session writes it back over a success
  (`PaidIsDelivered`);
* a refund of 80 percent or more, a chargeback, the last failed charge and a missing
  client cancel the row and leave the processor charging (`LocalCancelIsRemote`);
* an accepted cancellation is lost on any error of the job's look-up, or cancels the
  user's newest subscription instead (`CancelIsHonoured`);
* NMI's notice of an end that arrives before the row is dropped (`EndIsMirrored`);
* after a card was replaced, or before a payment is booked, a chargeback may be matched
  to another owner's payment (`DisputeEndsOwner` says nothing of such an entry).

## 7. Not modelled

* Transport and wiring: HTTP decoding, routing, authentication, the processors' request
  encodings, RPC fail-over, Solana's transaction encoding, configuration, start-up,
  migrations (their constraints are in the models).
* Read-only parts: metrics, listing, the catalog (constants of the models), the audit's
  formatting and its checks of tables no model has (admin grants, payment methods,
  one-off payments, prices).
* Notifications and e-mails, on which no billing state depends.
* The replay tool, which feeds stored payloads to the same handlers.
* `SetDefault`, which changes neither the set of cards at the gateway nor that of rows
  (`UpdateVault` is the step of `Disputes` that replaces a card); the back-off of the
  Solana poller, whose passes come at any time; administrators' grants; creation and
  renaming of credit types.
* Stripe's page for a subscription: what follows its payment is `Mirror`'s.
