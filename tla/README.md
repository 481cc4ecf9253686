# Elceo: a TLA+ model of its outboxes, leases, payments, records and provider access

Elceo collects market events from external providers, reasons about them, tells
its users, keeps their trading journal and portfolio, and sells them a plan.
Wherever several processes, requests or providers meet, they meet in SQL tables
and Redis keys: outboxes drained under leases that run out, records loaded and
saved by overlapping requests, payment operations told about by webhooks in any
order, a circuit and a cache shared by every process that calls a provider. This
project models that core: who may work on a row, what happens when a process dies
or comes back late, and what the tables promise in the end.

Paths below are relative to the repository root; `ING`, `NOT`, `APP` and `REA`
stand for `src/services/{ingestion,notifications,application-state,reasoning}/src`
and `WEB` for `src/apps/web`.

## 1. Inventory

| Component | State it keeps | Operations | What is hard | Correct when |
|---|---|---|---|---|
| Ingestion outbox, `ING/publish` | `app_ingestion_outbox`, `app_ingestion_outbox_attempts` | stage, claim due, publish, save attempt, mark published / failed / dead | three statements without a transaction; leases that outlive or are outlived by a call | at-least-once, nothing published without a send, dead exactly after the last attempt, late publishers harmless, every row settles |
| Notification outbox, `NOT/delivery`, `NOT/persistence` | `app_notification_outbox`, its attempt ledger | stage per target, claim due, reconcile with the ledger, send, save attempt, mark delivered / failed / dead / ambiguous | a send that may have happened, a ledger written by overtaken dispatchers, a batch that ends at a lost claim | a recorded success or ambiguity is not sent again, attempts bounded, the ledger accounts for every closed row |
| Ingestion scheduler, `ING/scheduler` | `app_ingestion_runtime_leases` | expire leases, plan due items, acquire, check ownership, release | one clock reading per tick; plan read before the lease is taken, and no run row keeps a slot from being planned again | two processes run one slot at once only after an expiry, no tick runs a slot twice, a late release harms nobody |
| Worker boundary and run persistence, `ING/runtime`, `ING/persistence`, `ING/publish/staging-service.ts` | run rows, event snapshots, staged outbox rows | execute an asset window in legacy, canonical or shadow mode, persist, stage | four statements without a transaction, fallback, reports that differ from rows | a reported success is durable and published, a lost publication has a cause |
| Ingestion facade, adapters, pipelines, `ING/facade`, `ING/core`, `ING/pipelines` | none | collect, enrich, score, dedupe | provider failures | pure functions of the collected events |
| Notification policy, `NOT/policy` | last decisions | decide, cool down | cooldown read before the next decision is written | at most one decision per cooldown |
| Notification orchestration, `NOT/orchestration` | none of its own | policy, staging, dispatch, maintenance | one part failing | parts already done are not undone |
| Notification feedback, `NOT/feedback`, `NOT/providers/webhooks.ts` | receipts, target health | apply a provider receipt | receipts duplicated and out of order | health does not depend on the order |
| Verification and management, `NOT/verification`, `NOT/management` | targets, tokens, subscriptions, inbox | issue and redeem tokens, enable, disable | redeem twice, disable while sending | a token is used once |
| Request guard, `APP/security`, `WEB/lib/server/security` | idempotency records, stored responses, windows of the rate limit, audit rows | begin, restart, replay, complete, respond, fail; limit, count; audit | every step is a statement of its own; requests with one key that meet; a request that dies, or is refused, after it began | one run per key unless there is a reason, replays are responses of runs, a started record has an owner, the window's overrun is bounded |
| Payment operations, `APP/payment-providers` (sandbox adapter, Stripe reconciliation, internal runtime), `APP/billing`, `WEB/app/api/billing` | `payment_operations`, subscription row, ledger and entitlement effects, webhook inbox | checkout, resume, attach, record an error; apply a delivery; reconcile | the provider is asked between transactions; webhooks late, twice and out of order; lost answers; one subscription row for all operations of a user | one open operation of each billing interval, paid or closed once, premium only if paid, no rewind, a payment whose event is delivered is recorded |
| Payment provider events, `APP/payment-providers/ingest-service.ts` | dedupe rows, events, signals | ingest, translate, sync, replay | redelivery after a crash | every event applied once |
| Billing accounts, `APP/billing-*` | accounts, policy state | apply signals, run orchestration | order of signals | no regression to an older state |
| Journal and portfolio, `APP/journal`, `APP/portfolio` | cases, entries, positions, actions, revisions | plan, execute, adjust, close, cancel, review; update, move, change thesis health | load, check and save without a lock; bodies spread over the record, its id included | moves follow the tables, what is lost is lost to an overlapping request, or to a body that named the record |
| Operations runtime, `APP/ops` | job leases, job runs | acquire, run, release | lease in two statements, ownership asked as of the start | one job at a time |
| Snapshot refresh, workspace, `APP/refresh`, `APP/workspace` | snapshots, freshness | plan, refresh | order of dependencies | a snapshot follows what it depends on |
| Login throttle, entitlements, commercial controls, `APP/authentication`, `APP/entitlements`, `APP/commercial-entitlements` | attempts, overrides | decide | precedence | decision tables |
| Provider gate and circuit, `REA/provider-sources/provider-resilience` | circuit state, probes (Redis) | acquire, observe, release | late observations, lost probes, keys that expire | probes bounded, opened on evidence, closed by a new probe, recovery possible |
| Provider cache, `REA/provider-sources/provider-cache` | entries, flights, completion markers (Redis), L1 copies | read, acquire, confirm, renew, publish, report, wait | two owners of a flight in turn, markers of older failures, a heartbeat that fails | an owner fetches only what is missing and touches its own flight only, stale answers have an excuse, every request is answered |
| Provider admission, `REA/provider-sources/provider-control` | budgets, reservations | reserve, settle | reservations that expire | budget not exceeded |
| Scheduled evidence ingestion, adaptive materialization, `REA/scheduled-ingestion`, `REA/adaptive-materialization` | schedule, claims | claim, materialize, fail over | claims that expire | one materialization per due asset |
| Reasoning engine, analytics, chart intelligence, billing service | none shared | compute | numeric | pure functions |
| Rest of the web application, shared packages, schema, operations | - | - | - | - |

How they interact. A scheduler tick takes the lease of a slot and runs the
worker boundary; the boundary collects through the facade, saves the run and its
snapshots and stages rows in the ingestion outbox; the publisher sends these to
the event bus. Reasoning reads what arrived and fetches evidence through the
provider gate, which asks the cache, and behind it the circuit, before it calls.
Notification policy turns a change into a decision, staging turns a decision into
one outbox row per target, and the dispatcher sends them. Every request of a user
that changes something passes the guard, which composes with whatever the route
does: the routes of the journal and the portfolio run one READ COMMITTED
transaction inside it. Checkouts, webhooks and operators' reconciliations share
the rows of the payment operations, in transactions that begin after the
provider has answered. Nothing holds a database transaction while it waits for a
provider.

`PROJECT.json` lists the hazards at their lines, each with the properties that
are about it, and for the ones without any the module that is to cover it.

## 2. Plan

Done, in this order:

1. `FencedQueue`: the abstract specification of a leased outbox.
2. `IngestionOutbox`, with `MCIngestionOutbox` and `IngestionOutboxProofs`.
3. `NotificationDispatch`, with `MCNotificationDispatch` and
   `NotificationDispatchProofs`: a second implementation of `FencedQueue`.
4. `FencedLease`: the abstract specification of a table of expiring leases.
5. `IngestionScheduler`, with `MCIngestionScheduler` and
   `IngestionSchedulerProofs`: an implementation of `FencedLease` that composes
   the scheduler, the worker boundary and the run persistence.
6. `ProviderResilience` and `ProviderResilienceProofs`: the shared circuit.
7. `PaymentIntent`, the abstract purchase, and `PaymentOperations`, with
   `MCPaymentOperations` and `PaymentOperationsProofs`, which implements it.
8. `RequestGuard` and `RequestGuardProofs`: what surrounds a mutation, with the
   mutation left open.
9. `SubjectRecords`, with `MCSubjectRecords` and `SubjectRecordsProofs`: the
   records of the journal and the portfolio composed with the guard.
10. `ProviderCache` and `ProviderCacheProofs`: the single flight of the cache.

To come, most important first:

1. `PaymentIngest`: dedupe row, event, syncs and signal of the provider-events
   route under redelivery, crash and replay; then the billing accounts that the
   signals drive.
2. `OpsRuntimeLease`: a second implementation of `FencedLease`.
3. `NotificationFeedback`: receipts out of order against the ledger, and the
   targets, so that a target disabled during a send is in the model.
4. The budgets of provider admission, composed with the cache and the circuit.
5. Bounded checks of the pure algorithms against reference definitions:
   entitlement precedence, the refresh planner's order, dedupe of a batch.

## 3. Modules and the code

Conventions that hold in every module: an action is one statement, script or
transaction that commits by itself, with the local computation around it; `call`,
`tick`, `worker`, `pc` hold the local variables of what is in progress; a crash
is an action that forgets them; a statement that throws may have committed or
not. Timestamps of rows are kept as the time left until them where only
differences matter (both outboxes, the circuit), and as instants where slots or
orders matter (the scheduler, payment events). Claim, owner and probe tokens are
random in the code; the pair of worker and generation, or a free number, stands
for them. Definitions marked "a mutant of" are not part of a specification; they
are the changes of the code that each property has been seen to catch.

### IngestionOutbox

`row` is `app_ingestion_outbox`, `audit` its attempt table, `sends` counts the
copies the transport accepted, `call` is the `publishDueOutbox` call of each
publisher.

| Action | Code |
|---|---|
| `Stage` | `SqlOutboxRepository.stageOutboxItem`, `INSERT ... ON CONFLICT (dedupe_key) DO NOTHING` |
| `ClaimDue` | `claimDueOutboxItems`: one statement that selects and updates a batch |
| `Publish`, `PublishRejected`, `PublishUnacknowledged` | `transport.publish` resolves, rejects, rejects after the message left |
| `RecordSuccess`, `RecordFailure`, `RecordSuccessThrows` | `saveAttempt`, with its colliding id |
| `MarkClaimPublished`, `MarkPublishedThrows`, `MarkClaimFailedOrDead` | the updates fenced by token and generation |
| `Abort` | the process dies, or a statement of the catch block throws |
| `Tick` | time; a lease that runs out under a working call counts as a fault |

### NotificationDispatch

`row`, `audit` (the ledger, one entry per claim with its outcome), `sends`,
`call`, and `overrun`, which remembers the items whose lease ran out under a
call.

| Action | Code |
|---|---|
| `Stage` | `stageNotificationDeliveryForDecision`: no second row for an existing key |
| `ClaimDue` | `claimDueOutboxItems` |
| `ReadLedger` | `listAttemptsForOutbox`, `latestAttempt`, `isAmbiguousAttempt` |
| `Refuse` | payload mismatch, inactive target, disabled subscription, exception |
| `Send` | `transport.send` with any outcome |
| `SaveAttempt`, `MarkClaim` | the ledger row, then the fenced update; a lost claim throws out of the batch (`assertClaimTransition`) |
| `Abort`, `Tick` | as above |

The provider's own idempotency keys are outside the model: a send is what the
dispatcher asks of the provider.

### IngestionScheduler

`lease` is the lease table by request key, `runs` and `kept` are the run rows
and the snapshots and outbox rows of each run, `tick` is the `runTick` of each
process, `config` the runtime configuration, `now` the clock. `ticks` is not in
the code; it counts the ticks that started in each slot. The planner's test of a
slot is modelled by what it compares: `SlotStart` is the ISO string the planner
computes, `RowSlotStart` what the repository hands on of a row, a `Date`, since
`slot_start_at` is a TIMESTAMPTZ and no type parser is set
(`ING/persistence/sql-ingestion-repository.ts:89`). They are never `===`, so that
`Satisfied` holds of no slot, and every tick plans every item.

| Action | Code |
|---|---|
| `Start` | `cleanupExpiredLeases` |
| `PlanItem` | `planDueRuns`, item by item, with `hasSatisfiedRunForSlot` (`Satisfied`) |
| `Acquire` | `acquireLease`, an upsert with the expiry in its `WHERE` |
| `Collect` | `isCurrentOwner`, then `executeAssetWindow` up to its persistence: mode, fallback, status |
| `SaveRun`, `Keep` | `saveRunRecord`, `saveEventSnapshots`, `stageRunPublications` |
| `PersistThrows` | the boundary's catch around persistence and staging |
| `Finalize`, `GuardThrows` | the ownership check after execution, and the catch of the dispatch |
| `Release` | `releaseLease` in the `finally` block |
| `Abort`, `Pass` | the process dies; time |

### ProviderResilience

`circuit` and `probes` are the two Redis keys of one policy scope, `call` the
request each owner of a single flight has in progress. `late` and `recent` are
not in the code: they remember which calls were admitted before the circuit last
opened, and for how long each of the last `FailureThreshold` failures is still
younger than a window.

| Action | Code |
|---|---|
| `Acquire` | script `ACQUIRE`: purge expired probes, open to half open, permission, probe or denial |
| `AcquireUnanswered` | the script ran, its answer timed out |
| `Observe` | script `OBSERVE` with each classification, called once per provider call |
| `Release` | script `RELEASE`, from `releaseUnusedProbe`: the permission was not used |
| `Vanish` | the caller dies, or its report is lost |
| `Tick` | Redis time; the state key expires `StateTTL` after its last touch |

The policy's constraints between its durations (`validateProviderResiliencePolicy`)
are the module's assumptions. The observation and failure counters stop at the
thresholds they are compared with.

### PaymentOperations

`op` is `payment_operations` by business idempotency key, `effects` the ledger
and entitlement rows of each operation, `plan` the plan of the user's subscription
row, which is there, and free, from the first sign-in on
(`APP/repositories/user-state-repository.ts:172`), so that a subscription's event
may make it premium before the payment is recorded. `Interval` is the billing
interval each key is first used with: the lock, the unresolved check and the
unique index of operations (`Busy`) are per user, plan and interval.
`inbox` the webhook inbox, `worker` what each handler holds between two
transactions: the version it read, the error it caught, the truth it retrieved.
`provider`, `events` and `acked` are Stripe: sessions, the events it has to
deliver, the ones answered with 2xx.

| Action | Code |
|---|---|
| `Checkout` | `createOrReuseOperation`, and the resume decision of the checkout route |
| `CallProvider` | `createCheckoutOrPaymentSession`: answered, lost, in error, or 409 because another call holds the key |
| `Attach` | `recordProviderAccepted` and `transition` in one transaction |
| `RecordError` | the route's catch: `normalizeProviderError`, then `transition` of the row read before the call |
| `ReconcileAttached`, `OperatorReconcile` | the retrieval of the provider's truth after a checkout, and by an operator |
| `Deliver` | the webhook route up to its transaction |
| `ApplyReconciliation`, `ApplyReversal`, `ApplyLifecycle` | the transaction of a handler: `reconcileStripePaymentOperation`, the negative events of the runtime, `applyCanonicalSubscriptionLifecycleEvent` |
| `Crash` | the process dies between two steps, or a transaction does not commit |
| `ProviderPaid`, `RenewalFails`, `RenewalPaid`, `SubscriptionEnds`, `ProviderReverses` | what the user and Stripe do; not code of the repository |

### RequestGuard and SubjectRecords

`record` and `response` are the idempotency records and responses by key,
`counter` one window of the rate limit, `worker` the requests in progress. `runs`,
`conflicts`, `refused` and `replays` are not in the code; they count what the
properties compare. `SubjectRecords` extends the guard with `entity`, the kind of
the records (cases, entries, positions or actions), `row` and `history`, the row
and the revisions of each, and `held`, the copy a request loaded. The content of
a record is the set of the revisions merged in it, so that a lost update shows.

A kind of request has the `id` that its path names and the id `into` that its
body may carry. The bodies of a case are mapped field by field
(`APP/journal/api-patch-mappers.ts:9`); those of an update of the portfolio,
and of a position's open, reduce and close, are spread over the copy whole, and
the upsert then writes the record that the body names (`Target`): an existing one
that the request never loaded, or a new one. What a body says of another subject
meets the `WHERE` of the upsert and the row-level policy of the table
(`src/infra/db/schema/0058_sec_f_tenant_rls.sql:20`), and the request fails.

| Action | Code |
|---|---|
| `Begin` | `beginIdempotentAction` up to its decision |
| `Insert`, `Restart`, `Replay` | `saveIdempotencyRecord`, `restartFailedIdempotencyRecordAtomically`, `getReplayForIdempotencyKey` |
| `Limit`, `Count` | `evaluateRateLimit`, `incrementRateLimit` |
| `Complete`, `Respond` | the two statements of `completeIdempotentActionWithResponse` |
| `Audit`, `Fail` | `auditInternalMutation`; `failSecurityDecision` in the catch |
| `Throws`, `Crash` | a statement of the try block throws; the process dies |
| `Commits`, `Rejects` | the route's mutation, left to the module that extends the guard |
| `Load`, `Refuse` | the service loads the row and checks what is asked of it |
| `Save` | patch, upsert of every column in the row the patched copy names, revision, commit: it is the guard's `Commits` |
| `Deny` | the upsert writes no row, because it is another subject's: the service throws |

### ProviderCache

`entry`, `flight` and `marker` are the three Redis keys of one cache identity,
`l1` the nodes with a fresh local copy, `pc`, `candidate` and `lost` the local
variables of each node's execution, `failed` a history of who met a failure.

| Action | Code |
|---|---|
| `Begin`, `Read`, `ReadThrows` | the L1 lookup and the first read of the shared cache |
| `Look`, `Acquire`, `LookOrAcquireThrows` | the head of the loop: marker of a policy without store, script `ACQUIRE`, which deletes the marker |
| `Reread`, `RereadThrows`, `Confirm`, `ConfirmThrows` | the second read of a new owner, and the renewal before the call |
| `HeartbeatFails` | the heartbeat finds the flight lost, or throws |
| `Answered`, `Publish`, `PublishThrows`, `Report` | the provider call, and the scripts that store, or mark, and give the flight back |
| `Wait`, `ReadState`, `WaitThrows`, `GiveUp`, `Verify` | the followers: sleep, read entry and marker, deadline, the last read before a stale answer |
| `Stop`, `FlightLapses`, `MarkerExpires`, `EntryAges` | the process dies; the keys expire, also under a healthy owner |

### Abstract specifications

`FencedQueue` says what a leased outbox promises whoever stages an item: one owner
at a time, only the latest owner settles, delivered only if sent, closed for good.
`FencedLease` says what a lease table promises its workers: a key is granted anew
only after its lease was given back or ran out, and who lost a lease cannot end the
next one. `PaymentIntent` says what a user is promised about a purchase: one open at
a time of each billing interval, paid or closed once, reversed only if paid, with
the effects that go with it. The refinement mappings are the `INSTANCE`s at the end
of the detailed modules. `RequestGuard` is abstract in another way: it leaves the
mutation open, and `SubjectRecords` is shown to be an instance of it.

## 4. Runs

| Run | Question | Bounds |
|---|---|---|
| `outbox` | can any interleaving of two publishers lose, reopen or misreport a row, or let a late publisher in; does every staged row settle | 2 rows, 2 publishers, batches of 2, 2 attempts, TTL 2; two faults with one row, one with two |
| `notification` | the same of two dispatchers, and when may a notification be sent again | 2 rows, 2 dispatchers, batches of 2, 2 attempts; a row alone meets every outcome and 2 faults, two rows (staged before the first claim) the outcomes success and temporary and 1 fault |
| `scheduler` | leases, reruns, lost publications in four configurations | 1 key, 2 processes, the clock passes the lease once; two ticks of the slot with 2 faults, or three with one |
| `resilience` | is the circuit opened on evidence, closed by a new probe only, never stuck | 3 callers, 1 probe, thresholds 2 and 3, a named delay longer than the circuit's own, 4 faults |
| `payments` | do checkouts, deliveries and reconciliations keep the promise of `PaymentIntent`, and does a payment get recorded | 2 handlers over one operation with 3 events, two of one interval with 2 events and a fault, or two of different intervals with 2 events; refunds, full and partial |
| `records` | does a keyed mutation run once, is its answer replayed, do revisions follow the tables, what can be lost | 2 requests at a time: with 2 keys, 2 bodies, a limit of 2 and a fault, or without keys on a case, an entry, a position or an action through its life cycle, or on two positions, one of which may not exist yet, with bodies that name the other |
| `cache` | who calls the provider, who is answered stale, may a late owner touch the next flight, is everybody answered | 2 nodes, any number of requests, crashes, expiries and throws |
| `notification_shadowed` | the comment at `outbox-dispatcher.ts:34` | violated |
| `notification_redispatch` | `src/docs/notification-reliability-runbook.md:17` | violated |
| `scheduler_finalization` | `src/docs/scale/sec-g.md:17` | violated, with 2 keys |
| `resilience_late_results` | `src/docs/provider-api-gate-scale-hardening.md:134` | violated |
| `record_reviewed` | `src/docs/journal-domain-core.md:50` | violated |

Why the bounds are enough to be interesting. In the outboxes two faults fit a crash
and an overrun lease in one behaviour, the shortest way to three generations of one
row; two attempts separate a retry from the last one; a batch of two has a rest that
a throw can leave behind; the TTL makes a lease end in the middle of a call and not
only between calls. The main scheduler run has one key: the rows of two keys are
never read together except for the order of the dispatch loop, and a second item
squares the states; `scheduler_finalization` goes round the loop with two items,
where the second lease is the one counted from an old clock. Nothing in the code
ends the ticks of a slot; three of them are a tick that runs beside and after two
others. In the circuit three callers are a probe, a late result of a generation
before, and one who is denied. In the payments three events are a payment, a second
kind and its duplicate or reversal, delivered by two handlers, of which one holds a
truth that the other's event has made old; two operations of one interval show that
only one is open, two of different intervals that both may be, and share the plan.
In the records two requests with one key meet at every pair of statements, and three
moves reach the review of a case that another request still holds; a second record
is enough for a request to write what it has not loaded, and a third would be no
different from it. In the cache two nodes are an owner and a follower, who change
places; the third party that a flight may belong to is the `Orphan` of a dead
process. `MaxFaults` and the fields of `Bounds` cap what would be unbounded, besides
the clock of the scheduler (`MaxTime`) and the age of a call (`MaxElapsed`, beyond
which the age changes nothing).

Deadlock is checked in the outboxes, the scheduler, the circuit and the cache,
where time passes or requests come for ever. It is not in `payments`, `records`
and `record_reviewed`: clients need not send anything, and a behaviour has only
so many events, so that these systems rest in the end.

What the violated runs show:

- `SuccessIsReconciled`: the dispatcher reads only the attempt that sorts first,
  and attempts sort by the start of their call. A success recorded late is older
  than the failure of the successor, so the third dispatcher sends again.
- `PermanentIsNotRedispatched`: a permanent failure in the ledger does not stop
  the next claim from sending, when the dispatcher died before it marked the
  row dead.
- `RunsSavedByOwner`: the run is saved and staged between the two ownership
  checks, which both ask as of the tick's start; a tick whose lease has passed to
  another still saves its run.
- `LateResultsKeepDeadline`: a result without a probe carries no generation, so a
  failure that set out before the circuit opened opens it again, and puts the
  deadline before the delay that the provider had named.
- `ReviewedIsTerminal`: an adjustment that loaded the case while it was executed
  saves its copy after the case was closed and reviewed, and the case is executed
  again.

Other places where code and words part, which the models contain and no run
states:

- An error of the provider call without an HTTP status, from the network or from the
  database after the provider has accepted, is recorded as `failed`
  (`APP/payment-providers/sandbox-adapter.ts:38`,
  `WEB/app/api/billing/checkout/route.ts:54`), where
  `src/docs/ui-handoff/billing-payment-state-machine.md:72` has an unknown outcome.
  `AbandonedNeedsFault` bounds what comes of it by the faults.
- A reconciliation whose truth was retrieved before a cancellation, and applied
  after it, makes the subscription active again
  (`APP/payment-providers/stripe-reconciliation.ts:28`; compare
  `src/docs/sec-c-payment-provider-correctness.md:33`). `SubscriptionNeverRewinds`
  says that nothing else does.
- The bodies of a portfolio record's updates, and of a position's moves, are spread
  over the record, status, thesis health and id included, past the tables of
  `src/docs/portfolio-domain-core.md` and past the services' own types, which leave
  the id out (`APP/portfolio/position-service.ts:53`, `:87`): TypeScript drops no
  field, and the validators return what they were given. `HistoryFollowsTable` and
  `LossNeedsOverlap` except these requests by name, and both are violated without
  the exception.
- "Satisfied slot should be removed from due plan"
  (`ING/tests/scheduler-due-planner.test.ts:50`) is true of the in-memory repository
  of the test, which keeps the string it was given, and not of the SQL one.
  `RerunsBounded` says what is left: one run for each tick at most.
- Premium does not wait for the payment to be recorded. A `created` event of the
  subscription that is applied before the payment's own sets the plan with nothing
  in the ledger yet (`APP/billing/subscription-lifecycle.ts:37`), and stays, should
  the other event be lost. `PremiumWasCharged` says that the provider was paid all
  the same. In the other direction, the end of one interval's subscription sets the
  user's plan to free while another's is active, since both write one row.
- The runbook (`src/docs/payment-correctness-runbook.md:39`) has quarterly and
  yearly fail with `billing_interval_not_configured`, which no code raises; the
  checkout route (`WEB/app/api/billing/checkout/route.ts:21`) takes all three, if
  there is a price. "One genuine customer payment intention" (line 11) is thus one
  per interval.
- Operators are to reconcile unknown and reconciliation_required operations with the
  provider's reference (lines 14 and 34). These are the operations that have none
  (`ListedIsUnattached`), which the reconcile route answers with
  `provider_reference_missing`; an operation that is processing, of which the event
  was acknowledged unapplied, is in no list. `PaidIsRecorded` therefore promises
  nothing once an event was lost this way.
- The look for a prior completion and `ACQUIRE` are two calls, and `ACQUIRE` deletes
  the marker, so that a completion in between is fetched again, which the comment at
  `REA/provider-sources/provider-cache/coordinator.ts:201` means to prevent.

## 5. Fairness

Outboxes: `FairSpec` assumes that time passes (`Tick`), that each publisher or
dispatcher that is idle with due rows claims some eventually (both are called by
a job that runs again and again), and that a call that is neither crashed nor
thrown out of its loop takes its next step (an `await` on a database or a
transport with a timeout returns). Nothing is assumed of the environment:
`Publish` and `PublishRejected` are one fair action together, so a transport may
reject for ever, and faults are never required. Faults are finitely many
(`MaxFaults`): with a crash before every mark no row would ever close.

Circuit: time passes, requests keep coming (`Acquire`), and a provider call ends
by its timeout (`Observe`). Results other than a success are faults there, since
a provider that never succeeds never closes its circuit. The gate's timeout is
not tied to the probe's lease by any check, so a probe that outlives its lease
counts as a fault too.

Payments: a handler that runs takes its next step (weak fairness), and Stripe
comes again with the event of a payment until it has been answered with 2xx
(strong fairness of its delivery, because the workers are busy in between, and
because an event is not handled while its operation has no reference). Nobody is
bound to reconcile: the operator's reconciliation is an action without fairness,
as is a second checkout of the customer. So a payment is promised to be recorded
only when its event comes while the operation knows its session, and the
property names what else may become of it.

Records: a route's handler runs to its end (weak fairness); clients need not send
anything. Cache: each `await` of an execution returns (weak fairness), and the
deadline of a follower comes while it goes round its loop: `GiveUp` is enabled
at the loop's head only, so its fairness is strong.

## 6. Proofs

Each module of proofs shows an inductive invariant, one lemma per action, and
then the properties that the runs check, for all values of the constants that
the named assumptions of its module allow: any sets of items, workers, callers,
keys or nodes, any durations and thresholds, any number of faults. Every
inductive invariant was checked with TLC before it was proved. `TypeOK` is a property
of the run `outbox` only; of the other modules it is proved.

| Module | Theorem | Property |
|---|---|---|
| `IngestionOutboxProofs` | `TypeCorrect` | `TypeOK` |
| | `DeadPolicy` | `DeadIffExhausted` |
| | `NoPhantomPublish` | `PublishedWasSent` |
| | `LeaseExclusion` | `LeaseProtectsBatch` |
| | `Finality` | `ClosedIsFinal`, which no run checks: the refinement has it |
| | `Refinement` | `ImplementsFencedQueue` |
| | `CopiesNeedFaults` | `ResendsNeedFaults` |
| | `ChargesAreAudited` | `CountedAttemptsAudited` |
| `NotificationDispatchProofs` | `TypeCorrect` | `TypeOK` |
| | `AttemptsAreBounded` | `AttemptsBounded` |
| | `LedgerAccounts` | `ClosedRowsAccounted` |
| | `RecordedSendsStop` | `RecordedSendIsNotRepeated` |
| | `Finality` | `ClosedIsFinal`, which no run checks |
| | `Refinement` | `ImplementsFencedQueue` |
| | `ResendsAreExplained` | `ResendsHaveReason` |
| `IngestionSchedulerProofs` | `TypeCorrect` | `TypeOK` |
| | `Exclusion` | `OverlapNeedsExpiry` |
| | `Refinement` | `ImplementsFencedLease` |
| | `SuccessIsDurable` | `ReportedSuccessIsDurable` |
| | `LostRunsNeedFaults` | `LostPublicationNeedsFault` |
| | `RerunsAreBounded` | `RerunsBounded` |
| | `RunsFollowGrants` | `OneRunPerGrant`, which no run checks |
| `ProviderResilienceProofs` | `TypeCorrect` | `TypeOK` |
| | `ProbesAreBounded` | `ProbesBounded` |
| | `NewProbeCloses` | `ClosedByNewProbe` |
| | `OpeningHasEvidence` | `OpensOnEvidence` |
| `PaymentOperationsProofs` | `TypeCorrect` | `TypeOK` |
| | `PremiumNeedsCharge` | `PremiumWasCharged` |
| | `NoRewind` | `SubscriptionNeverRewinds` |
| | `Refines` | `ImplementsPaymentIntent` |
| | `UnknownIsUnattached` | `ListedIsUnattached`, which no run checks |
| | `EffectsMatch` | `EffectsFollow`, a part of the invariant |
| | `PaymentsAreKept` | `PaidIsKept`, which no run checks: `PaymentIntent` has it |
| | `AbandonsNeedFaults` | `AbandonedNeedsFault` |
| `RequestGuardProofs` | `TypeCorrect` | `TypeOK` |
| | `StartedAreOwned`, `RunsHaveReasons` | `StartedIsOwned`, `RunsNeedReason` |
| | `WindowHolds` | `WindowOverrun` |
| | `ReplaysAreHonest`, `RunsCanBeReplayed` | `ReplaysAreRuns`, `RunsAreReplayable` |
| `SubjectRecordsProofs` | `GuardsRoutes` | `Spec => GuardSpec` |
| | `RecordRoutesGuarded` | what holds of the guard, of the records |
| | `RevisionsFollowTable`, `LossHasOverlap` | `HistoryFollowsTable`, `LossNeedsOverlap` |
| `ProviderCacheProofs` | `Inductive`, `NoFetchOfFresh` | `IInv`, `OwnersFetchWhatIsMissing` |
| | `StaleHasExcuse` | `StaleIsExcused` |
| | `FlightsAreFenced` | `FlightIsFenced` |

The arguments.

*Outbox.* That a dead row has used up its attempts depends on the count a
publisher read at its claim, which is the row's own count only as long as the
publisher owns the row. So `IndInv` says what a claim knows (`Fence`: whoever
owns a row by holder and generation sees it in `publishing`, with the count it
read and below the limit), why ownership is exclusive (`DistinctGenerations`),
that the calls are well formed (`CallShape`), what the attempt table may contain
for generations in use (`AttemptRows`), what a call has done by each statement
(`Progress`), and how much of a lease is left given the age of its owner
(`Leases`, `Timers`). `Refinement` maps each action to a step of `FencedQueue` or
to a stutter and needs `Fence` and `Progress`.

The number of copies is a matter of bookkeeping, `Balanced`: a copy has been paid
for by a fault, or it is the one copy the row is due (`Delivered`: its sender
still holds the live lease and is about to mark it, or has marked it). Copies
alone would not add up by induction, since a publisher whose lease is gone sends
later, in a step that is no fault. It is charged in advance: `Stragglers(i)` are
the publishers that may still send `i` with a claim that is no longer current,
and a row has copies and stragglers together for its faults. A lease runs out
under one owner at a time, so that a fault makes one straggler at most. The
attempts need to know which rows of the attempt table are of claims that are over
(`Charged`), and that a claim records before it is charged (`RecordedFirst`).

*Notification.* `Fence` as above gives the bound of the attempts; `Progress` says
that a call which has come to its mark has an attempt of its own generation in
the ledger, or has read a success or an ambiguity there, and with `Ledger`, that
such attempts have sends, every closed row is accounted for. The end of the sends
needs more: a row whose lease never ran out under its owner is in the batch of
its owner only (`Leases`), so that no other call can add to its ledger behind the
success, which therefore is its latest attempt; and whoever still works on the
row is about to close it (`Reconciled`). The run `notification_shadowed` is what
happens without the lease. `ResendsHaveReason` keeps the account of the outbox,
with the retryable failures of the ledger on its paying side: they are counted by
claim, so claims must differ (`DistinctClaims`) and have no entry before their
own (`Unrecorded`).

*Scheduler.* The item a tick has at hand is the least of its due items, which
exists because the natural numbers are well founded (`FirstItem`). `IndInv` says
what a tick that acts on a grant knows of the lease (`Grants`): while its
generation is the lease's, the lease expires at the tick's start plus the term and
is live or over; once the generation has moved on, that term has passed. That
needs that no tick starts in the future (`Started`), since `acquireLease` compares
the expiry with the tick's own start, and that no two ticks act on one grant
(`DistinctGrants`), since a release ends whatever lease carries its generation.
`Exclusion` is stated by the clock and not by the start of the younger tick: with
three processes a tick may start while the lease is live and still be granted it
later, because the cleanup of a third process has expired it in between.

What the dispatches leave behind is `DispatchInv`. `Reports` says what each
statement behind a tick has stored, and that a report of success survives no
catch. `OwnRuns` ties the run rows to the grant of the one dispatch
that wrote them. A run is lost when nobody is about to publish it any more and its
notice is not in the outbox; `Mourned` counts these runs against the faults, which
is inductive where the runs of dead ticks alone are not, because a statement that
throws loses its run while its tick lives on. `Rationed` bounds the runs of a
slot: the run rows of a key and the ticks of its slot that may still save one
(`Pending`) never outnumber the ticks that started in it. A start adds one to
both sides; a tick that has gone past an item, or has saved its run, never comes
back to it, since it takes the items of its plan away one after the other,
whatever its catch blocks do. The invariant does not ask the plan about finished
runs, so that the bound holds whether the comparison of slots works or not.

*Circuit.* The limit holds of the probes key, expired tokens included, because
`ACQUIRE` purges before it counts. That it holds of the probes that are out needs
that a running lease is a token of the key (`OwnProbes`, `ProbesKept`) unless the
circuit has been reopened over it, and that tokens are not shared
(`DistinctTokens`). That a generation's probe alone closes the circuit needs that
the state key outlives every lease granted under it, so that a generation is not
counted anew while a probe of it is out (`Generations`). The evidence of an opening
is the time that is left of the last failures, newest last: while a window of the
circuit runs, the failures that it has counted are the newest of them, and each has
at least the time of the window left (`Evidence`). A result that opens the circuit
finds all the places of the threshold filled, after a window that was over has been
forgotten.

*Payments.* What a handler holds is old, and is useful because some things do not
change back: a reference is never taken away, a version only grows and the row of an
unreferenced version had no reference (`Requests`), what is final in a retrieved
truth is so at the provider (`Truths`). A row has a reference exactly in the states
after acceptance (`References`), and its effects follow from its state
(`EffectsFollow`), which is what maps it to `PaymentIntent`; that one operation of
an interval is open at a time is the index, and that nothing else opens an operation
that was resolved. Premium needs the row to be read with what the handlers hold:
whoever writes it also writes `sub = "active"` of an operation whose subscription
was active by the truth or the event in hand, and these are of a session that was
paid; and whoever takes an operation's `sub` away writes the plan too. In the other
direction, what `PaymentIntent` promises of one step is read off for the rows:
`PaidIsKept` follows from the refinement and the mapping of the states, without
another look at the handlers. An operation is given up by an error that was recorded
as a failure; `Balanced` counts the operations that failed together with the
requests that hold such an error of an operation that is still open, and each of
them came with a fault of its own. A row that another handler resolves takes its
requests out of the account for good, since no resolved row is open again
(`Settles`).

*Guard and records.* Each reason why a mutation may run twice is counted by a
variable; the invariant pays one run with it (`RunsHaveReasons`). The window's
excess is bounded by the requests past the limit and not yet counted, a cardinality.
`GuardsRoutes` shows that `SubjectRecords` implements the guard, so that its
theorems hold of the routes. A copy is the record that the request's path names as
it was after the revisions that were there when it was loaded, and what is missing
from it went to a later one that overlapped or was named: this is what a save into
that record carries over (`RecordInv`). A save into another record leaves nothing of
that one's content, and its revision is itself the excuse of all that is lost
(`Elsewhere`).

*Cache.* A marker lies next to no flight, since `ACQUIRE` deletes it and only a
script that gives the flight back writes one; so a follower who sees a marker after
it was refused the flight sees a failure younger than its own request. That a late
owner touches nothing (`FlightsAreFenced`) is the comparison of tokens in every
script, and that the places from which a process acquires are not those of an owner
that comes back.

Every invariant, every action property and every refinement that the passing
runs check is proved. Model-checked only is the liveness (`EveryItemSettles`
twice, `Recovers`, `PaidIsRecorded`, `StartedSettles`,
`EveryRequestIsAnswered`), which needs fairness and ENABLED, out of this prover's
reach. Proofs are of the specifications without fairness (`Spec`), so that they
hold of the fair ones too.

## 7. Not modelled

Collection, scoring and reasoning are functions of their inputs without shared
state; their results are choices in the models. Provider transports, the pages
of the web application and the database driver are I/O. Some operations exist in
repositories but no production code calls them: the lease renewal of the
scheduler (`renewLease`), the single claim of the notification outbox
(`claimDueOutboxItem`), the unfenced marks of the ingestion outbox, the cleanup of
expired idempotency records. Of the payments, Korapay and the local fake provider
are left out, and prices, periods and snapshots, which are written and not read
by the modelled handlers. Of the records, their creation, links and queries are
left out, and fields whose content the routes' validators have checked. Of the
cache, the in-process map of flights stands for itself: a node has one request at
a time. The state keys of Redis are modelled as one instance; replication and
failover of Redis or of the database are not. The remaining components of the
inventory wait for the plan above; the note of each in `PROJECT.json` says what
is missing.
