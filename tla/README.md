# PaidSoon in TLA+

PaidSoon chases unpaid invoices for small businesses. A Next.js application on
Vercel keeps its state in Postgres (Prisma, row-level security) and talks to
Stripe, an email provider and accounting systems; a Python worker on Railway
(Celery over Redis) decides what is due and calls the application back. This
directory models the parts of it in which several actors change the same state,
checks them with TLC on small instances, and proves their safety properties with
TLAPS for every size of instance.

Paths below are relative to the repository's root.

## 1. Inventory

### 1.1 Modelled

| Component | State | Operations | Meets |
|---|---|---|---|
| Reminder sequence: `lib/email/sendReminderForInvoice.ts`, `lib/email/send.ts`, `lib/email/schedule.ts`, `lib/promiseEscalationPolicy.ts`, `lib/db/withUserContext.ts` | `TrackedInvoice` (status, stage, next date, first chase, promise token), `EmailLog`, the account's advisory lock, the provider's idempotency keys | one execution: lock, read, gate, dedup, send, log, advance | invoice routes, Stripe webhook, promises, allowance, access |
| Invoice lifecycle routes: `app/api/invoices/[id]/*/route.ts` | the invoice's status | pause, resume, snooze, cancel-snooze, dispute, resolve-dispute, resolve, mark-paid | reminder sequence, through the row |
| Promises and arrangements: `app/api/promise/[token]/route.ts`, `app/api/arrangements/route.ts`, `app/api/arrangements/[id]/status/route.ts`, `lib/email/breachSweep.ts` | `PromiseToPay`, `Arrangement` and the invoices it covers | promise by link, arrange, change an arrangement's status, sweep | reminder sequence (active ones hold it back, broken promises escalate it), Stripe Connect webhook |
| Stripe Connect webhook: `app/api/webhooks/stripe-connect/route.ts` | status and agreements | invoice.paid, statement by statement | reminder sequence, agreements |
| Scheduled task claims: `worker/paidsoon_worker/{db,dispatcher,tasks,celery_app}.py` | `scheduled_task_claims`, Redis queue, workers' deliveries | claim, enqueue, sweep, run, retry, record | the job behind a claim is the reminder sequence |
| Customer billing journal: `lib/billing/{tenantBillingMutationCoordinator,customerBillingExecutors,customerBillingPlan,customerBillingOperations,customerBillingEvidence,tenantBillingFence}.ts` | the profile's links, reservation and schedule; `TenantBillingMutation` and its steps; leases | accept, reserve, claim, bind, freeze, dispatch, record, mark uncertain, hand off, finalize, recover | Stripe, billing webhooks, the owner's operations |
| Stripe billing webhook ledger: `lib/billing/{webhookLedger,tenantBillingCoordinator,riskReconciliation,hostedCheckoutLifecycle}.ts`, `app/api/webhooks/stripe-billing/route.ts`, `app/api/billing/checkout/success/route.ts` | an event's row with token and lease; the profile's binding and projection; risk rows | claim, lock, read the provider, fence, commit, finish, fail | Stripe; the profile, with the billing journal |
| Invoice payment ledger: `lib/invoices/payments.ts`, the payment, mark-paid, administrator's and import routes | payment rows, the invoice's status | record a payment, mark paid, reconcile an import | reminder sequence and agreements, through the status |
| Accounting sync: `lib/providers/accounting/{sync,triggerSyncNow,xero,myob}.ts`, `lib/financial/ingest.ts`, the disconnect and callback routes | the connection's status and `lastSyncedAt`, sync runs, `FinancialInvoice`, `TrackedInvoice` | recover stale runs, guard, fetch, upsert, advance, fail; disconnect, connect | Xero or MYOB; the status, with the invoice routes |

What is hard about them:

- **Reminder sequence.** The advisory lock belongs to a transaction with a
  deadline of 15 s, but the provider call and the log row live outside it: an
  execution whose transaction is gone still mails and still logs. The invoice is
  read once and updated by id. The allowance is checked before the send and
  charged after it. A process can die between any two steps. Correct means: no
  client gets a stage's email twice, the history claims nothing that did not
  happen, the sequence never goes back, no more first chases are charged than the
  plan allows, and executions end.
- **Task claims.** Three stores (Postgres, Redis, the worker's memory) are
  written in different orders by processes that die; a retry is published before
  the status of the attempt it replaces is written; deliveries can be lost in
  Redis while Postgres says they are queued. Correct means: a status tells the
  truth, no claimed work is lost, retries are spent before a claim is given up, a
  claim has one delivery, and claimed work ends.
- **Billing journal.** Plans are made without the lock and executed later; Stripe
  is called outside every transaction, its answers get lost, its idempotency keys
  last 24 hours; leases last 60 s and executors overlap; webhooks change the
  profile in the middle of an operation. Correct means: no step happens twice, an
  outcome that is reported is what happened, the tenant is reserved until the
  outcome is known, what runs was planned for the links it runs under, and an
  executor that lost its lease changes nothing.
- **Promises and arrangements.** No statement takes a lock: guards are read outside
  the transaction that acts on them, the sweep updates by id what it chose
  earlier, two deliveries of `invoice.paid` may each count what the other has not
  settled yet. Correct means: the newest promise stands, an arrangement whose
  invoices are all reported paid ends, the user is told of a breach, in the end
  and not over and over, and no agreement holds reminders back past its date for
  ever.
- **Webhook ledger.** Events come at least once, in any order, to requests that
  overlap and outlive their leases; the row is settled in the transaction that
  writes the effect, but claimed in another. Correct means: an event's effect is
  committed once, what is settled is reflected, an older view never replaces a
  newer one, and Stripe is not told to stop before the event is settled.
- **Payment ledger.** Four routes append to one ledger and compare its sum with
  what is due, each in a transaction that does not see the others'. Correct
  means: an invoice is paid exactly when its payments cover it.
- **Accounting sync.** The guard against a second sync reads and writes in two
  steps; the connection is read minutes before its status is written; a sync that
  fails half way has written part of what it fetched; a client asks for some
  statuses only. Correct means: a change at the provider is reflected or will be
  fetched, a connection is active only if it was synced, a user's disconnect
  holds, and a dead sync does not bar later ones of an active connection.

### 1.2 Not modelled

| Component | State and operations | Why not |
|---|---|---|
| Worker entry points (`http_server.py`, `api_client.py`, `commitguard.py`) | stateless HTTP, authentication, configuration | no state of their own; the claim `http_server.py` strands is in `TaskClaims` |
| Trial access operations (`lib/billing/trialAccess*`, `stripeTrial*`) | the owner's mutations | the journal's pattern again; in `BillingMutation` only their reservation |
| Effective access and allowances (`lib/billing/effectiveAccess*.ts`) | a function of the profile | its answer is the variable `access`, its count the operator `Usage` |
| CommitGuard (`lib/commitguard`) | commitments, alerts, job claims | switched off by configuration; its claims follow `TaskClaims` |
| Spend classification, deposit guard, imports | rows of one request each | single-statement writes, or the reminder sequence's dedup again |
| Email delivery feedback and digests | an append-only log, read-only mails | read by no control |
| Admin console (`lib/admin`, `app/api/admin`) | sessions, audit log, support actions | pause, resume and edit-schedule have the shape of the invoice routes, mark-invoice-paid is an action of `PaymentLedger`, trigger-resync is a `Begin` of `AccountingSync`. `trigger-email` is a sender of its own, see below |
| The cron routes `send-emails` and `sync-accounting` | the worker's jobs once more | kept for a rollback and not scheduled in `vercel.json`; `docs/runbooks/vercel.md` says that the worker owns both |
| Financial calculators | none | pure arithmetic with table tests |
| User interface, marketing, help | none | presentation |
| Schema, row-level security, scripts | Postgres' own | not part of the running program's control |

Two senders are outside `ReminderSequence`. The support action `trigger-email`
mails any stage of an invoice in any status through `sendFollowUpEmail`: with the
stage's idempotency key and log row, but without the account's lock, and it
advances nothing. `app/api/cron/send-emails` goes through all due invoices without
that lock, when somebody calls it. What is said below of reminders on their way, of
stopped invoices and of the order of stages is said of the worker's reminders.

`PROJECT.json` lists every component with its files, and the hazards of the code
at the lines where they bite, those without a property yet included.

## 2. Plan

In order of importance. Done:

1. `ReminderSequence`, with the abstract `ReminderContract` it implements.
2. `TaskClaims`.
3. `BillingMutation`, with the abstract `BillingContract` it implements.
4. `WebhookLedger`, with the abstract `WebhookContract` it implements.
5. `PaymentLedger`.
6. `Agreements`.
7. `AccountingSync`.

To do:

8. `ReminderPipeline`: composes `TaskClaims` and `ReminderSequence`, the job
   behind a claim opened up; the claim key's date decides whether an invoice is
   claimed again. To check: what a lost claim means for the invoice.
9. Contracts for `Agreements` and `AccountingSync` like those above: what a debtor
   and a user are promised, and the two shown to keep it.
10. The trial operations of the owner's console next to the billing journal and the
   webhooks that settle them, and CommitGuard's evidence review once it is
   switched on.

## 3. Modules and the code

Every definition that stands for code is in the `map` of `PROJECT.json` with its
file and lines. Definitions introduced by "Wrong on purpose" are mutants: each
says how a property would fail if the code had that mistake, and no
specification uses them.

### 3.1 ReminderSequence

One account; any number of invoices, executions and route requests.

| Code | Module |
|---|---|
| `TrackedInvoice` columns | `status`, `currentStage`, `nextEmailAt`, `firstChasedAt`, `p2pToken` |
| `EmailLog` unique on invoice and stage | `emailLog[i]`, a set of stages |
| the provider's idempotency keys and mailbox | `keys`, `delivered` |
| `pg_advisory_xact_lock`, the interactive transaction and its deadline | `lock`, `TxTimeout` |
| local variables of `sendReminderForInvoice` | `job[j]` |
| lock, `findFirst`, `isEligible` | `ReadInvoice` |
| access, promise, arrangement, allowance, escalation | `Gate` (`Refusal`, `TargetStage`) |
| `sendFollowUpEmail` up to the provider | `Dedup` |
| provider call, undeliverable domains, lost answers | `Send` |
| `emailLog.create`, unique violation counts as sent | `Log` |
| the update by id and the commit | `Advance` |
| a route's status check, then its update by id | `RouteRead`, `RouteWrite` |
| `invoice.paid` | `StripePaid` |

The row's update and the transaction's commit are one action, since nothing else
sees the row in between. `StripePaid` is one action over the handler's three
updates with every prefix of them as an outcome: the handler may die after any.

Externals: the email provider, that remembers an idempotency key for the whole
run, and Postgres. The provider's own promise is 24 hours; a reminder is claimed
once per `nextEmailAt`, by the claim's key, so the executions of a stage meet
within that time unless its send failed.

`ReminderContract` has the client's mailbox only: each stage once, in order
unless the policy skips stages, none to an address that cannot be mailed.

`Coming(i)` are the stages of an invoice that are on their way to the client and
that the provider has not taken: by executions past the gate, or at it with the
lock. It is what can still be mailed of an invoice that is no longer read.

### 3.2 TaskClaims

| Code | Module |
|---|---|
| `scheduled_task_claims.status`, `updated_at` | `claim`, `stale` |
| the claims a dispatcher run made and has not enqueued | `batch[d]` |
| Redis, a delivery with its retry count | `queue[c][r]` |
| a Celery process at a task | `worker[w]` |
| `INSERT ... ON CONFLICT DO NOTHING` | `ClaimDue` |
| `recover_stale_processing` | `GoesStale`, `Sweep` |
| `mark_started`, `mark_processing`, the HTTP call | `MarkStarted`, `MarkProcessing`, `CallJob` |
| `autoretry_for`, `on_retry`, `on_success`, `on_failure` | `Raise`, `MarkRetrying`, `MarkSent`, `MarkFailed` |
| `task_acks_late` | `Crash` puts the delivery back |
| no `task_reject_on_worker_lost` | `Kill` acknowledges it |

The stale threshold (600 s) is longer than a task takes between two updates (an
HTTP call of at most 55 s), so `GoesStale` requires that no worker is at the
claim. `fate` records what truly happened to the job, to compare the status with;
`lost` records the claims whose delivery is gone (with a dispatcher that dies
between its claims and their tasks, a killed pool process, a flushed Redis) and
that no sweep has reclaimed since. `Deliveries(c)` are the places a claim's task is
at; `Reissues(c)` are the steps that give it a second one. `Losses` says which of these ways a run has;
`MaxFaults` bounds crashes and failed status updates.

### 3.3 BillingMutation

One tenant with at most one Stripe customer and one subscription.

| Code | Module |
|---|---|
| the profile's customer and subscription ids | `bound`, a set of links |
| `pendingBillingMutationId`, `pendingTrialOperationId` | `pending`, `owner` |
| `billingAccessVersion` and the version a request was planned at | `current`: requests whose version has not been overtaken |
| `TenantBillingMutation` | `status`, `execution`, `holder` (lease owner, token and expiry) |
| `TenantBillingMutationStep` | `step`, `attempts`, `closed` (24 hours since the first attempt) |
| Stripe: objects, idempotency keys, requests under way | `subscription`, `schedule`, `effects`, `kept`, `wire` |
| `CustomerBillingExecutors.execute`, one run | `executor[e]` |
| `accept`, `freezeCustomerBillingPlan` | `Accept`, `Planned` |
| `reserve` | `Reserve` |
| `claim`, `owned`, `assertBillingFence` | `Claim`, `Fenced` |
| `bindDiscoveredSubscription`, `freezeStep` | `Bind`, `Freeze` |
| `recoverStep` and `retrieveCustomerBillingEvidence` | `Lookup` |
| `dispatch`, then the request | `Dispatch`, `Answered`, `Unknown` |
| `uncertain`, `recordStep` | `MarkUncertain`, `RecordDone`, `RecordRefused` |
| `handoff`, `finalize` | `Handoff`, `Succeed`, `Fail` |
| `recover`, asked for by the customer | `Recover` |
| subscription and schedule webhooks | `SubscriptionWebhook`, `ReleaseWebhook` |

Every function of the coordinator runs under the tenant's advisory lock in one
transaction and is one action; the calls to Stripe are outside and are steps of
their own. A request whose executor gave up or died stays on `wire` and reaches
Stripe later or never.

Externals and what is assumed of them: Stripe answers a key it keeps as it did
before; it forgets a key only after the step's window has closed and when no
request with it is under way; a request it refuses as invalid leaves nothing;
nobody but the tenant's operations and the customer changes the tenant's Stripe
objects. `supersedeKnown` is left out: it needs a profile whose subscription was
replaced, which no writer of the profile does.

`BillingContract` has, per operation, what the customer is told, the number of
steps asked for and the number done at Stripe. `BillingMutation` implements it
under the mapping `Phase`, `Asked`, `Done`.

### 3.4 WebhookLedger

One tenant; any number of events, requests and subscriptions of its customer.

| Code | Module |
|---|---|
| `stripe_billing_webhook_events`: status, claim token, lease | `ledger[e]` |
| the profile's subscription and what is projected of it | `profile`, with the version it was read at |
| `tenant_billing_risks` | `risk[s]`, likewise |
| local variables of the route and of `coordinateTenantBilling` | `handler[h]` |
| `claimWebhookEvent`: the receipt, the claim, the second read | `Deliver`, `Claim`, `Refuse` |
| `lockTenantBilling` | `Lock`, `LockFree` |
| `prepare`, `reconcileHostedCheckout` | `Observe`, `Conflict`, `Bound` |
| `assertWebhookClaim` and its row lock | `Fence`, `RowLocked` |
| projection, risk row and `finishWebhookEventInTransaction` | `Commit` |
| `finishWebhookEvent` alone, the catch, the answer | `Finish`, `Fail`, `Reply` |
| the page the customer returns to | `VisitSuccessPage` |

What Stripe knows of a subscription is a version number that grows with each
change; a projection is the version it was read at, so that older and newer can
be told apart. `Older` are subscriptions that existed before the endpoint did,
whose start no event announced. `applied` counts the committed reconciliations of an
event. External: Stripe, which delivers until it is answered, and once more for a
fault.

`WebhookContract` has no rows, leases or requests: an event takes effect in the one
step that settles it and shows the subscription as it stood when the event was
sent or later; nothing newer is undone, no binding is replaced, and Stripe is told
to stop only afterwards. `WebhookLedger` implements it with the events whose row is
settled for `settled`.

### 3.5 PaymentLedger

One invoice, from a file, whose amount does not change.

| Code | Module |
|---|---|
| `amountDueCents`, the payment rows, the status | `due`, `total`, `status` |
| a route's check that the invoice is payable | `FindInvoice` |
| what is left, or left beyond the file's balance | `ReadBalance` |
| `recordInvoicePayment`: prior payments, its own row, the status | `ReadPrior`, `Record` |
| the administrator's update, outside a transaction | `MarkPaid` |
| a failing request, rolled back | `Abort` |

Transactions are READ COMMITTED: a read sees what is committed, so the reads are
actions of their own and the writes and the commit are one. An import updates the
invoice's row first; others that write the row wait (`Locked`). The
administrator's request is not a transaction: it may stop between its row and its
status.

### 3.6 AccountingSync

One connection; any number of invoices and syncs.

| Code | Module |
|---|---|
| the provider's invoices | `provider[i]`, status and time of the last change |
| `accounting_connections` | `connection`: status and `lastSyncedAt` (`since`) |
| `accounting_sync_runs` with status "running", and those over two hours old | `running`, `old` |
| `FinancialInvoice`, `TrackedInvoice` | `facts[i]`, `tracked[i]` |
| local variables of `syncConnection` | `sync[s]` |
| `recoverStaleRunningSyncRuns`, the guard, the connection, the run's row | `Begin`, `Guard`, `ReadConnection`, `CreateRun` |
| the clients' filters on status and time (`xero.ts`, `myob.ts`) | `Listed`, `Asked` |
| the fetch, then `syncStartedAt` | `Fetch`, `Stamp` |
| `upsertInvoice`, its two writes; a failed one is skipped | `UpsertFacts`, `Track`, `Skip` |
| `resolveConnectionStatusAfterSync` | `Resolve` |
| the update at the end, the catch, the run's end | `UpdateConnection`, `Catch`, `CloseRun` |
| disconnect, OAuth callback, a sync that could not be dispatched | `Disconnect`, `Reconnect`, `DispatchFails` |
| the worker's daily sync of an active connection (`db.py`) | `ScheduledSync` |

Time is the number of changes at the provider so far: two instants with no change
between them are the same to a sync. The statuses only this application has
(disputed, promised, snoozed) are not in the model: a sync replaces whatever
status there is, so they would behave as "pending" does (section 4.3). `lost`
records the invoices whose last change a sync has passed over, and names the
three ways it can: the upsert failed; the change came between the fetch and
`syncStartedAt`; an overlapping sync wrote what it had read before. A fourth way
needs no record: the statuses Xero's client asks for do not include draft, so a
submitted invoice that is sent back to draft is not `Listed` until it leaves that
status. MYOB's client filters on time only, and reads every status as open, paid
or unknown, which is taken as open.

`Begin` may happen at any time, as the routes and the administrator begin syncs
too; only `ScheduledSync` has to (section 5). The pages of one fetch are one
reading of the provider: an invoice that moves to another page while a client
turns pages is not in the model. Nor is a difference between the provider's clock
and the application's. External: Xero and MYOB.

### 3.7 Agreements

One debtor with links for some invoices and at most one arrangement over some.

| Code | Module |
|---|---|
| `PromiseToPay`, in the order of creation | `promise[p]` |
| `Arrangement`, with a date or in instalments | `arrangement` |
| the invoice is "paid" or "manually_resolved" | `settled[i]` |
| the plan's access to promise tracking | `access` |
| the promise route's guards, then its transaction | `Submit`, `Supersede`, `Create` |
| `invoice.paid`: invoice, promises, arrangement | `Deliver`, `LookForPromises`, `KeepPromises`, `FindArrangement`, `CountUnresolved`, `Fulfil` |
| the breach sweep, promises first | `StartSweep`, `BreakPromise`, `TellUser`, `RecordTold` |
| then arrangements whose date has passed | `FindLapsed`, `EndArrangement` |
| creating an arrangement, changing its status (`ALLOWED_TRANSITIONS`) | `RequestArrangement`, `Arrange`, `RequestChange`, `WriteChange` |
| mark-paid, resolve; a status some other route writes late | `Settle`, `Reopen` |

An update of many rows is two steps, since under READ COMMITTED it finds rows by
its snapshot and looks again only at those (`seen`): a row inserted between is
missed. `latest[i].late` says that another promise was made while the latest
one's transaction ran; `heard` are the covered invoices Stripe reported whose
handler has counted. `TellUser` covers a mail that fails and one whose answer is
lost. A user's address that can never be mailed is left out; its breaches stay
untold.

A *scene* says which invoices have links, which the arrangement covers, and which
processes overlap. The theorems hold for every set of scenes; a run has a few, so
that each question is asked on the smallest instance where it arises.

## 4. Runs

`MC*.tla` give the constants names and symmetry; the `.cfg` give the values.

### 4.1 Properties that hold

| Run | Instance | Shows |
|---|---|---|
| `reminder_allowance` | two invoices, one of them unmailable, two executions, an allowance of one, two days, two periods | `HistoryIsTrue`: log and stage claim only mails the provider took. `ChargesWithinAllowance`, `ChargedOnce`: overlapping executions never charge a period beyond the plan, nor an invoice twice |
| `reminder_invoice` | one invoice, two executions, the routes dispute, resolve-dispute and snooze | `OneReminderInFlight`: at most one stage of an invoice is on its way; `StoppedStaysQuiet`: only that one is mailed, and no other sets out, after chasing stops. `KeepsContract`: `ReminderContract` is implemented. `LockIsReleased`, `ExecutionsEnd`: liveness |
| `reminder_escalation` | tone and timing escalation, promises and arrangements, promise links | `TypeOK`; `AtMostOneEmailPerStage` and `StageNeverGoesBack` also when stages are skipped |
| `task_claims` | one claim, two dispatchers, two workers, one retry, two faults, every way to lose a delivery | `TypeOK`, `StatusIsTrue`. `NoWorkLost`: work is lost only with its delivery. `OneDelivery`: nothing is delivered twice before something fails; `OnlyReissuesDuplicate`: after faults, only by a stale sweep or a crash between the retry and its acknowledgement. `ClaimedWorkEnds`, `StartedWorkIsReclaimed`: liveness |
| `billing_journal` | two operations and two executor runs; a tenant on trial and one with a downgrade scheduled; checkout, downgrade, undo | `TypeOK`, `EffectOnce`, `OutcomeIsTrue`, `ReservationHeld`, `PlanFitsBinding`, `StaleNeverWrites`, `KeepsContract` |
| `webhook_ledger` | two events, two requests, two subscriptions (one older than the endpoint), one fault | `TypeOK`, `AppliedOnce`, `SettledIsReflected`. `KeepsContract`: `WebhookContract` is implemented, so neither projection, binding nor risk row goes back and no unsettled event is acknowledged |
| `webhook_settles` | one event, two requests, two subscriptions, two faults | `EventsSettle`: liveness |
| `accounting_sync` | one invoice that is open, voided or a draft and changes, two syncs, one fault, disconnects and reconnects | `TypeOK`. `NothingElseIsLost`: a change is reflected, will be fetched, or escapes in one of the four ways. `ActiveIsSynced`: overlapping syncs and reconnects never make an unsynced connection look active. `RunsEnd`, while the connection is active: liveness |
| `agreements` | four scenes: a link used twice at a time; a debtor who pays while promising; a breach two sweeps find; an arrangement over two invoices with two deliveries. Two promises, a retry limit of one, one fault | `TypeOK`, `LatestPromiseStands`, `PaidArrangementEnds`, `BreachToldSparingly`; `BreachIsTold`, `AgreementsEnd`: liveness |

Why the bounds are enough to be of interest. Two executions are what it takes for
one to outlive its lock next to the other; two invoices and an allowance of one
reach the boundary of the allowance; two days make the second stage due, and
timing escalation sends it early. One retry has every order of an attempt's late
status and the retry's own, and two faults let a crash hit a delivery that
already came back. Two operations with two executor runs have an operation that
overtakes the plan of the other, an executor that loses its lease to a recovery,
and a handoff that crashes; the trial tenant reaches a customer, a checkout, a
subscription, then a downgrade with two steps. Two events about one or two
subscriptions, with two requests, have every order of deliveries, a lease that
runs out with its owner at the provider, and a takeover; the liveness run has one
event and one fault more. Two syncs have one that overtakes another's reads,
and one change at the provider falls before, between or after any of their steps; an
invoice that starts as a draft leaves that status, and one that was open enters it.
Two promises and a retry limit of one reach the limit; one fault loses a mail's
record, a sweep or a handler. The theorems of section 6 do not depend on any of
these bounds.

The two billing runs and `payments_covered` do not check for deadlock: their
models end when the executor runs an instance has are used up, or when the
invoice is paid. All other runs check it.

Symmetry is used for executions, invoices, operations, executors and requests, in
runs without liveness properties only; `KeepsContract` of the billing journal is
a safety property, and its mapping treats operations alike.

### 4.2 Requirements the code does not meet

Each of these runs checks one sentence of the repository and finds the behaviour
of the code that contradicts it. `PROJECT.json` quotes the sentences.

| Run | Sentence | What happens |
|---|---|---|
| `billing_undo` | `docs/DDD.md`: stored proof of success finishes a failed last commit | finalizing an undone downgrade asks for the schedule the release's own webhook has cleared by then; the operation stays unresolved and the tenant reserved |
| `payments_covered` | a comment of `lib/invoices/payments.ts`: the status becomes `paid` once the ledger fully covers what is due | two partial payments recorded at once each see only the payments before both; the invoice stays open, and is chased, with a ledger that covers it. The other direction is proved (`PaidInvoicesAreCovered`), and that only an overlap or a failure has this effect (`RequestsInTurnPay`) |
| `sync_disconnect` | the header of `lib/providers/accounting/sync.ts`: a sync outcome never overwrites "disconnected" | a first sync reads the status, the user disconnects, and the sync writes "active". That nothing but such an older sync does it is proved (`OnlyOlderSyncsReconnectHolds`) |

### 4.3 Other disagreements

Met while reading and modelling; no run checks them.

Reminders and tasks:

- A comment says the allowance check "can't be raced past its limit"
  (`sendReminderForInvoice.ts`). The mail goes out inside the transaction and the
  charge commits after it: when the execution dies in between, the next invoice
  finds the allowance unused. What is *charged* stays within the plan
  (`AllowanceIsKept`).
- A disputed invoice is to be excluded from all sends
  (`openspec/specs/dispute-pause/spec.md`). A dispute raised after the execution
  read the invoice is not seen; at most one mail is concerned
  (`OneReminderInFlight`).
- The promise token is to be stable for the life of the invoice
  (`openspec/specs/promise-to-pay/spec.md`). Two executions that overlap after a
  transaction's deadline both write one.
- After a flush of Redis all interrupted work is to be reclaimed
  (`openspec/specs/scheduled-job-orchestration/spec.md`). The sweep takes "started"
  and "processing" only; what waited in Redis is "queued" or "retrying". A late
  `mark_retrying` can replace "sent".
- The requirement names the stage in a claim's key, the key has none (`db.py`,
  lines 69-73); `dispatch_deposit_reminders` is not in Celery's schedule
  (`celery_app.py`, lines 42-82); a docstring calls the digest's key hourly, it is
  daily (`db.py`, lines 286-293).

Agreements:

- The sweep breaks a promise by id, whatever became of it since: a promise that was
  superseded or kept meanwhile ends as "broken", and counts against the retry
  limit. In the same way an arrangement that was fulfilled or cancelled ends as
  "broken" or "expired", which `ALLOWED_TRANSITIONS` calls final.
- Two submissions that overlap leave two active promises; each supersedes the
  promises it finds (`LatestPromiseStands` is about all others).
- Fulfilment is looked at by `invoice.paid` only
  (`openspec/specs/arrangement-lifecycle/spec.md`): an arrangement whose invoices
  the user marks paid stays active, and its date marks it "broken" although it is
  settled. An instalment plan has no date, so the sweep never ends it.
- Only broken promises count to the retry limit
  (`app/api/promise/[token]/route.ts`, lines 85-117). A debtor who promises anew
  before each promise's date supersedes it and is never at the limit, so reminders
  stay held back. `AgreementsEnd` is about each agreement, not about a debtor's
  agreements together.

Accounting sync:

- `lastSyncedAt` is to be the start of the run, on success
  (`openspec/specs/invoice-sync/spec.md`, line 50). It is taken after the fetch, so a
  change in between is not fetched again; and a partial sync moves it too.
- Two syncs are not to run at once (line 34). The guard reads, the row is created
  later.
- `mapProviderStatusToTracked` pauses a draft, and `tests/accounting-sync.test.ts`
  (line 36) expects it to. Xero's client does not ask for drafts (`xero.ts`, line
  260), so an invoice that is sent back to draft stays "pending" and is chased.
- A comment says that a stalled first sync is "retried automatically on the next
  cron run" (`sync.ts`, lines 1038-1043), `openspec/specs/invoice-sync/spec.md` asks
  for a daily cron, and the cron route's header says `vercel.json` runs it. No cron
  calls it, and the worker takes "active" connections only (`db.py`, line 203). When
  a first sync is killed its run stays "running" until somebody begins another.
- Users can retry for "pending" and "error" connections, says `docs/DDD.md` (line
  2325). Xero's route refuses a connection that is not "active"
  (`app/api/integrations/xero/sync/route.ts`, line 56); MYOB's does not.
- A sync writes the provider's status over a dispute, a pause, a snooze or a
  payment recorded here, and the invoice is chased again.
- A disconnect clears the next email of the connection's invoices; a reconnect
  does not set it again. A revoked connection's invoices go on being chased
  (`db.py`, lines 88-103).

Billing: `customerBillingPlan.ts` refuses a checkout to a tenant whose
subscription has ended, which the checkout page offers.

## 5. Fairness

- `ReminderSequence`: weak fairness of an execution's own steps, since a process
  that is not killed runs on and its calls have timeouts; strong fairness of
  taking the lock, since Postgres queues the waiters of an advisory lock. Nothing
  is assumed of users, clients, webhooks, clocks, or that a process dies.
- `TaskClaims`: weak fairness of a worker's steps and of enqueueing; strong
  fairness of taking a delivery from Redis while others come and go, and of the
  sweep, that Beat starts again and again; weak fairness of the stale threshold,
  which is time. Crashes, kills and flushes owe nothing, and `MaxFaults` bounds
  the faults of workers: a worker that crashes for ever finishes nothing, in the
  code as in the model.
- `BillingMutation`: none. Nothing in the code schedules a recovery, an
  operation's outcome waits for the customer to ask, and the design prefers a
  reservation that is held to a mutation that is repeated. So no liveness is
  claimed.
- `WebhookLedger`: weak fairness of a request's steps; strong fairness of the
  tenant's lock, since Postgres queues the waiters of an advisory lock; weak
  fairness of an abandoned lease running out, which is time; strong fairness of
  delivering an event that was not answered, since Stripe tries again. Faults are
  bounded: a handler that dies every time settles nothing.
- `AccountingSync`: weak fairness of a sync's steps, of a run getting old, which is
  time, and of a sync beginning while the connection is active, since Beat has the
  worker claim those every day (`celery_app.py`, `db.py`). Nothing is assumed of
  users, administrators or the provider; faults are bounded. `RunsEnd` therefore
  speaks of active connections.
- `Agreements`: weak fairness of the sweeps that Beat starts and of their steps,
  and of dates passing. Nothing is assumed of debtors, users or Stripe; faults are
  bounded. `BreachIsTold` and `AgreementsEnd` say `[]<>` of each promise, with
  withdrawn access as an excuse, since a plan may lose promise tracking at any
  time, again and again. Neither rests on the bound on promises: both are about one
  agreement, whatever others follow it.
- `PaymentLedger`: none; nothing in it has to happen.

## 6. Proofs

All theorems are about `Spec` with arbitrary constants under the named
assumptions of the modules (`ReminderAssumption`, `ClaimsAssumption`,
`BillingAssumption`, `WebhookAssumption`, `SyncAssumption`,
`AgreementsAssumption`; `PaymentLedger` needs none): sets of any size, any number
of executions, workers, executors, handlers, syncs, faults, days and retries. They
do not depend on fairness. Where the table says "not in a run", the property is in
the component's module, and TLC has looked at it on the instance of the
component's run, but the run leaves it to the proof.

### 6.1 ReminderSequenceProofs

| Theorem | Property |
|---|---|
| `Typed` | `TypeOK` |
| `NoDuplicateEmails` | `AtMostOneEmailPerStage` |
| `TrueHistory` | `HistoryIsTrue` |
| `StagesOnlyAdvance` | `StageNeverGoesBack` |
| `AllowanceIsKept` | `ChargesWithinAllowance` |
| `OneChargePerInvoice` | `ChargedOnce` |
| `OneEmailInFlight` | `OneReminderInFlight` |
| `StoppedInvoicesStayQuiet` | `StoppedStaysQuiet` |
| `SequenceKeepsContract` | `KeepsContract` |

- `TypeInv`: types, and what an execution holds past each step.
- `KeyInv`: what was delivered is exactly what the provider has keys for. The
  email is unique because the key is, not because of the lock.
- `HistoryInv`: log rows have keys and stages have log rows; an execution about
  to log has a key, one about to advance has a log row.
- `OrderInv`: without tone escalation, the stages up to the one an execution read
  are logged, however long ago it read; the contract's order follows.
- `LockInv`: the invoice of the lock's holder stands at the stage the holder read,
  as nobody else can advance it. This is what makes `StageNeverGoesBack` true of
  an update by id alone.
- `ChargeInv`: an invoice is charged when its sequence starts and never to a later
  period, and the lock's holder that is about to charge one still has room for it.
- `FromInv`: an execution never works from a stage its invoice has not reached. An
  execution past the gate heads for the stage after the one it read; with
  `OrderInv` every earlier stage has been taken by the provider, so whatever two
  executions have on its way is the same stage, however stale the older one is.

### 6.2 TaskClaimsProofs

| Theorem | Property |
|---|---|
| `TaskTyped` | `TypeOK` |
| `TrueStatus` | `StatusIsTrue` |
| `SpentBudget` | `BudgetIsSpent` (not in a run) |
| `WorkIsKept` | `NoWorkLost` |
| `SingleDelivery` | `OneDelivery` |
| `DuplicatesAreReissues` | `OnlyReissuesDuplicate` |

`WorkerInv` goes with the types: a worker is idle when it has no claim.
`ReportsInv`: a worker about to report an end has the fate it will report.
`FreshInv`: a claim without a row is in nobody's hands, so claiming it makes the
first delivery. `WorkIsKept` needs no assumption about `Losses`: each way to lose a
delivery records what it loses, and every other step hands the claim on.
`UniqueInv`: before the first fault a claim is at one place, nothing is stale, and
a claim that says it runs has its worker, so the sweep has nothing to deliver a
second time. `DuplicatesAreReissues` needs `FreshInv` only: it says of each step,
after any number of faults, that a claim with one delivery keeps at most one unless
the step is one of the two in `Reissues`.

### 6.3 BillingMutationProofs and BillingContractProofs

| Theorem | Property |
|---|---|
| `BillingTyped` | `TypeOK` |
| `ReservationIsHeld` | `ReservationHeld` |
| `StaleExecutorsAreFenced` | `StaleNeverWrites` |
| `PlansFit` | `PlanFitsBinding` |
| `EffectsHappenOnce` | `EffectOnce` |
| `OutcomesAreTrue` | `OutcomeIsTrue` |
| `JournalKeepsContract` | `KeepsContract` |

- `ReservationHeld` is inductive with the types: an entry is unresolved exactly
  as long as the tenant is reserved for it or its prerequisite.
- `PlanInv`: a plan whose version is current fits the profile (`CurrentInv`), and
  an operation not reserved has left no trace (`FreshInv`). Every writer of the
  links makes all plans stale, so what `reserve` takes fits.
- `EffectInv`: while a request can still arrive for a step that was done, Stripe
  keeps its key; a key that was forgotten is never sent again since the window of
  its step is closed. The window check of `dispatch` and Stripe's 24 hours meet
  here.
- `JournalInv`: steps are taken in order, those of the root only after the
  prerequisite; nothing that failed has a step that succeeded.
- `AnswerInv`: the first request of a step that is unanswered or was refused has
  done nothing and is the only one (`FirstInv`), so a refusal at one attempt
  proves that nothing was done; what is recorded as done or failed is true and
  stays true (`OutcomeInv`).
- `ShapeInv` (contract): a step that was begun is one of its operation's, a
  prerequisite that succeeded was done, a downgrade has no prerequisite. From it a
  step on its way and not done belongs to an open operation (`OpenWhileInFlight`),
  and every step of the journal is one of the contract's or changes neither what
  is told nor what was done.

### 6.4 WebhookLedgerProofs

| Theorem | Property |
|---|---|
| `LedgerIsTyped` | `TypeOK` |
| `EventsApplyOnce` | `AppliedOnce` |
| `SettledEventsAreReflected` | `SettledIsReflected` |
| `AckedEventsAreSettled` | `AckedIsSettled` (not in a run) |
| `ProjectionsMoveForward` | `NeverGoesBack` (not in a run) |
| `WebhooksKeepContract` | `KeepsContract` |

- `HandlerInv`: what a request carries is what its event is about.
- `OneTransaction`: at most one request is past the tenant's lock. With `SeesInv`
  (what a request saw is not older than what is projected, and not older than its
  event) this makes projections move forward: the provider is read under the
  lock, and so is the write.
- `VersionInv`: nothing is newer than what the provider has.
- `LedgerInv`: an event nobody emitted has no row. `UnboundInv`: before a
  subscription is bound, no event about one is settled, so none is skipped that a
  later binding would have to reflect.
- `AppliedOnce` and `SettledIsReflected` are inductive with these: only the owner of
  the lease settles, and the transaction that settles applies.
- `WebhooksKeepContract`: `Commit` is the contract's `Settle` or, for the page the
  customer returns to, its `Refresh`; `Finish` settles an event of another kind, that
  has nothing to show; a reply to a settled event is `Acknowledge`. `HandlerInv` and `SeesInv` say that what is shown is
  what the contract allows. Claims, leases, locks and failures are stutters.

### 6.5 PaymentLedgerProofs

| Theorem | Property |
|---|---|
| `PaidInvoicesAreCovered` | `PaidIsCovered` |
| `FreshReadsPay` | `PaidUnlessFailed`, as long as `FreshReads` |
| `RequestsInTurnPay` | `PaidUnlessFailed`, as long as `InTurn` |

None of these is in a run: `payments_covered` shows that the converse of
`PaidIsCovered` fails.

- No invoice is "paid" that its payments do not cover, however many requests of
  whatever kind overlap and fail. `PaysSomething`: every amount is positive, so the
  ledger only grows; `ReadsThePast`: what a request read as left is never less than
  what is left when it writes; `MarksWhatIsCovered`: an administrator's request
  about to mark has covered it.
- Where the converse holds: as long as no payment is recorded between a request's
  reading and its own row, and none fails, a covered invoice is paid or has a
  request about to mark it (`CoveredIsMarked`). One request after the other reads
  fresh, so requests in turn pay. Both theorems have a hypothesis on the whole
  behaviour; it says what a lock on the invoice's row would establish.

### 6.6 AccountingSyncProofs

| Theorem | Property |
|---|---|
| `TypeCorrect` | `TypeOK` |
| `NothingElseIsLostHolds` | `NothingElseIsLost` |
| `ActiveIsSyncedHolds` | `ActiveIsSynced` |
| `GuardExcludesHolds` | `GuardExcludes` (not in a run) |
| `OnlyOlderSyncsReconnectHolds` | `OnlyOlderSyncsReconnect` (not in a run) |

- `Clock`: nothing happened after now; a sync's times are in order and its stamp is
  at least one, which is all `ActiveIsSynced` needs.
- `FactsInv`: no stored invoice is newer than the provider's.
- For an invoice that is not lost: what a sync is not going to fetch is reflected
  (`BeforeFetch`); what it does not bring has changed since, was skipped, or is
  reflected (`AfterFetch`), drafts apart in both; between its two writes of an invoice the
  first is as it left it (`HalfWritten`).
- `HeldInv`: a sync at work has its run on record and no run grows old while its
  sync lives, so nothing recovers it and the guard sees it; the status a sync read
  is one it syncs. The guard therefore excludes all overlaps but that of two syncs
  that both looked before either wrote, and "disconnected" is overwritten by a
  reconnect or by a sync that read the connection before, and by one that read
  "active" only after a refused token.

### 6.7 AgreementsProofs

| Theorem | Property |
|---|---|
| `AgreementsTyped` | `TypeOK` |
| `LatestPromise` | `LatestPromiseStands` |
| `PaidEnds` | `PaidArrangementEnds` |
| `ToldSparingly` | `BreachToldSparingly` |
| `NoticesAreTrueHolds` | `NoticesAreTrue` (not in a run) |
| `EndedPromisesStayHolds` | `EndedPromisesStay` (not in a run) |

- `LatestInv`: a submission that nobody overtook has found every active promise of
  its invoice, so it supersedes them all.
- `HeardInv`: what was heard is settled. `CountInv`: who is about to count or fulfil
  has an invoice of the arrangement. The invoice is settled before it is counted,
  so of any two handlers the later to count sees both.
- `TakenInv`: the promise a sweep is at is off its list. `MailInv` with `Sparing`:
  while the user is not told, each mail belongs to a sweep about to record it or to a fault;
  once told, only the sweeps that had chosen the promise before can mail again.
- `ListsInv`: a promise on a sweep's list exists and is past its date, and the one a
  sweep is at is broken. Every step changes a promise in one of six ways (`Begins`,
  `Ends`, `Breaks`, `Mailed`, `Recorded`, `Passes`); none of them revives one that
  ended, and only a sweep that chose it breaks one that was kept or superseded.

### 6.8 Only model-checked

The liveness properties (`LockIsReleased`, `ExecutionsEnd`, `ClaimedWorkEnds`,
`StartedWorkIsReclaimed`, `EventsSettle`, `RunsEnd`, `BreachIsTold`,
`AgreementsEnd`), as the prover has no rule for fairness here. Every invariant
and action property of the passing runs is proved.
