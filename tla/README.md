# Cultiv: a verification project

Cultiv generates texts in a user's voice. An HTTP API takes a request, debits
credits, stores a job in PostgreSQL and answers at once; an outbox relay carries
the job to a BullMQ queue in Redis; a worker process runs the model pipeline and
reports progress, completion or failure; the client watches over SSE or polls.
Stripe moves subscriptions through webhooks, a calibration wizard collects texts
from which a queue in the API's memory rebuilds the user's voice profile, and a
user may delete the account beside all of that. These TLA+ modules model the
parts where several actors change the same money, rows and events, model-check
them with TLC, and prove their central invariants with TLAPS.

All source paths below are relative to `apps/backend/src` unless they begin with
`packages/`.

## 1. Inventory

| component | state | operations | who calls it |
|---|---|---|---|
| billing service (`packages/payments/src`) | `BillingRepository`: subscriptions, ledger, reservations, cycle states, usage, remembered operations | reserve, capture, release, consume, startCycle, activate, top-up, dispatch of gateway events, lapse sweep | API requests, enqueue transaction, worker, webhooks, lifecycle timer |
| billing persistence (`product/billing/durable-billing.ts`, `infra/billing*`) | one repository copy per process, its queue of writes, the PostgreSQL tables | reload of a user's slice, merge, scheduled write of a slice | every authenticated request, worker before each job, every billing operation |
| durable execution (`runtime/*`, `cli/worker-main.ts`, `jobs/worker-job.ts`, job repository) | job row, outbox event, queue entry, event log | enqueue, claim, progress, complete, fail, cancel | API, worker slots |
| outbox relay (`runtime/outbox-relay.ts`) | `outbox_events` rows, the rows a tick holds | list, act (enqueue, delete at Auth0), mark | timers in API and worker |
| in-memory job store (`jobs/job-store.ts`) | the contract of a job in one process | the same operations | tests, development |
| event stream (`jobs/job-events.ts`, `runtime/execution-events.ts`) | Redis event log and channel, the handler of an open stream | append, publish, replay, terminal replay, subscribe | emitters, SSE route |
| client watch (`packages/client-sdk`) | the watch's attempts, failures, deadline | connect, read, poll, stop | web app |
| checkout and webhook services, gateways | checkout intents, gateway links, recorded events | create a checkout, parse, dispatch, complete, link, record | user, gateway |
| generation run (`execution/*`, `packages/orchestrator`, `packages/text-quality`) | the ladder's place, each lane's step, attempt and provider, the reservation | resolve, rounds, lanes, attempts, judge, remember, capture, release | worker |
| voice rebuild queue (`product/voice/voice-rebuild-*`) | flag and runner in memory; examples, profile, diagnostics rows | schedule, mark, rebuild | calibration, voice routes |
| voice calibration and consent (`product/voice/voice-calibration-*`, `safety/voice-consent-*`) | sessions in memory, consent record | start, context, submit, skip, review; grant, assert, revoke; confirm a trait | API |
| account deletion and reset (`product/account/*`) | the handler's progress, the tombstone, the `account.auth0-delete` event | find, cancel at the gateway, cancel jobs, purge transaction | API |
| account export | none | one read | API |
| AI and safety policy | versioned files | load, validate, price | worker, routes |
| rate limiting, idempotency store | Redis counter; response per key | increment; find, save | API |
| routes, auth, catalog, prompts, adapters, web, landing page | none of their own that matters here | | |

How they interact. The enqueue transaction writes job row, outbox event and the
user's billing slice together. From then on the outbox, the queue, the job row
and the two billing copies are separate stores kept in step only by the order of
calls. The worker and the cancel handler both settle a job and both settle its
credits, each in its own process. Webhooks change the same billing copies as
requests do. A deletion cancels jobs through the cancel handler, purges under
whatever is in flight, and leaves its last step, the identity, to the relay that
also carries executions. The wizard and the revocation write the rows a running
rebuild has read.

What is hard here:

- **Concurrency**: every operation on a job row is a lookup and a later update by
  id, without lock or version; the claim too. Every reload of a billing slice is
  five selects and a merge that replaces whatever the process did meanwhile. A
  rebuild reads, derives for seconds and writes, and so do a submission, a
  revocation and the confirmation of a trait beside it.
- **Crashes**: a worker killed after its claim, a relay stopped between act and
  mark, a process restarted with billing writes, sessions or rebuild requests
  still in memory.
- **Redelivery**: the outbox, BullMQ and the gateway deliver at least once.
- **Ordering**: cancel against completion, renewal against cancellation, sweep
  against refund, an event between the replay of a log and the subscription to it.
- **Timeouts and retries**: attempts of a step, providers of an attempt, the
  watch's reconnects, its polls and its deadline.
- **Partial failure**: a rolled-back enqueue is undone in the slice but not in the
  map of remembered operations; failed writes are only logged; a lane fails while
  its siblings are at a provider; the gateway cancels and its answer is lost.

`PROJECT.json` lists each hazard at its line with the properties that watch it.

What makes each part correct: the wallet is never negative, nothing is settled
twice, credits are never minted (billing service); the database's ledger holds
what was promised to users (persistence); an accepted job runs once, is never
lost, settles once and says so truthfully (durable execution); what is marked is
done (relay); a watcher is told what the job came to, in order and in the end
(stream and watch); what is acknowledged is applied, and once (webhooks); a run
stays in its budget, leaves nothing running and settles as it ended (generation
run); a request for a rebuild is covered by one, a profile is only replaced by a later
version, and a text that is no longer flagged was learned or the diagnostics tell
(voice); a failed deletion leaves the account intact, a purged job stays purged,
a deleted account comes to rest (deletion).

## 2. Modules

| module | of | with |
|---|---|---|
| BillingService | `packages/payments/src` | MCBillingService, BillingServiceProofs |
| BillingPersistence | two copies of a user's credits | MCBillingPersistence, BillingPersistenceProofs |
| ExecutionJob | durable execution | JobLifecycle (abstract specification), ExecutionJobProofs |
| OutboxRelay | the relay, both event types | OutboxRelayProofs |
| AccountDeletion | deletion and reset; EXTENDS OutboxRelay | MCAccountDeletion, OutboxRelayProofs |
| GatewayWebhooks | checkout, webhooks, their slice writes | GatewayWebhooksProofs |
| GenerationRun | one run of the pipeline and its credits | MCGenerationRun, GenerationRunProofs |
| ExecutionWatch | event log, stream, client watch | ExecutionWatchProofs |
| VoiceTraining | rebuild queue, examples, consent, revocation | VoiceTrainingProofs |
| VoiceCalibration | the wizard; EXTENDS VoiceTraining | MCVoiceCalibration, VoiceTrainingProofs |

### BillingService: `packages/payments/src`

One action per operation of the service; each is synchronous in the code, hence
one step. `status`, `trialWindow`, `accessWindow` are the subscription;
`posted[a]` is the account's ledger summed per entry type, `entries[g]` counts the
entries of a generation, `reservation[g]` is its reservation, `usage` the sum of
usage records, `cycleOpen` the cycle state, `remembered` the idempotency map.
`FreshOperation` is `rememberOperation`: an operation whose key is remembered
answers without doing anything, so it is a stuttering step. `DispatchGatewayEvent`
stays enabled after an event was handled: the webhook service ignores what the
event store says about a repeated event and dispatches it again.
`SweepLapsedSubscriptions` writes the status that `EffectiveStatus` (the lazy
clock) derives. Abstracted: credits are tenths, so rounding is exact; the calendar
is two deadlines; the gateway charge inside `purchaseTopUp` has no caller in the
backend, and `consumeCredits` is the package's API.

### ExecutionJob, JobLifecycle: the durable execution

`row`, `outbox`, `bull` are the three stores; `relay[r][j]` is where a tick is
between listing, enqueueing and marking; `worker[w]` is a processing slot;
`fiber[f]` is an operation in progress on a row, moving through find, lookup,
update, remove and publish one statement at a time. A worker's report runs two
fibers at once, as `Effect.all(..., unbounded)` does: the job store's and that of
the audit in `product/persistence/persistence-jobs.ts`, both of which write the
row. BullMQ and Redis are external, modelled from their use: `queue.add` with a
job id is a no-op when the id exists, a lock's loss puts an active job back once
(`maxStalledCount` 1, hence `MaxStops \in {0, 1}`), finished entries may be evicted,
`remove` leaves an entry whose lock is held.

`JobLifecycle` is the abstract specification, the contract the in-memory job store
meets in one process: queued, running, one terminal status, no event but that
status's. `ExecutionJob` is shown to implement it (`Lifecycle!Spec` as a PROPERTY)
when nobody cancels; with a cancel it does not, see section 6.

Assumed: a slot that loses its lock has finished its claim (a claim is two
statements, the lock lasts 30 s). Left out: the `failed` handler of `cli/worker-main.ts`
72-98, which is unreachable because the claim of a second attempt answers false and
BullMQ counts a success; the identity events and the batch limit, which are
OutboxRelay's.

### BillingPersistence: two copies of a user's credits

`db` is what PostgreSQL has, `mem[p]` what the API and the worker process have in
memory, `persist[p]` the process-wide queue of writes, `load[x]` what the selects of
a reload have answered. A request or a job is a sequence of actions between awaits:
the two reads of a reload in either order, the merge, the operations, the write.
`Written` is the upsert of a slice: a ledger entry whose idempotency key exists is
skipped, a reservation is overwritten. `Settled` is the memory effect of capture and
release (their accounting is BillingService's); which key they use is what matters
here: `capture:<cycle>` and `release:<cycle>` from the worker, `release:<job id>` from
a cancel. `EnqueueCycle` and `WorkerCycle` are the two ways the code resolves the
generation cycle of one job. Abstracted: each generation costs one credit; the job
row is claimed and written in one step (ExecutionJob splits that); cycles, top-ups
and subscriptions are not in the slice (GatewayWebhooks has those).

### OutboxRelay: `runtime/outbox-relay.ts`

`outbox` is the table in the order of `occurred_at`, `published` the rows marked,
`tick[r]` the rows relay r's tick has left and whether it has acted on the oldest of
them. The list's `for update skip locked` holds its locks for that statement only,
so two relays may hold a row. `Act` is `queue.add` or the deletion at Auth0; without
credentials `SkipUnconfigured` passes the row over, after a refusal `SkipRefused`
does; `TickThrows` ends a tick, and stands for a process that dies inside one.

### AccountDeletion: `product/account/*`

`handler[h]` is an account request between its awaits: find the user, look the
subscription up, cancel it at the gateway, list the jobs, cancel each, purge. Around
it are everything of the user that may be under way: `request[j]`, authenticated and
not yet enqueued; `work[j]`, the worker in a job; `persist`, processes with a slice
write queued; `checkout`, `gateway` and `webhooks`, Stripe's side. Every action of the
module is, on the relay's variables, an insert or nothing, so `Spec` implements
`OutboxSpec`: that is proved. Stripe's pages are external.

### GatewayWebhooks: checkout and webhook services, the Stripe adapter

`handler[h]` moves through dispatch, complete, link, record, one await each; `mem`,
`db`, `persist` and `load` are the user's slice in memory, in PostgreSQL, on the
queue of writes and in a reload. `Dispatch` resolves the plan as the code does: the
event's, or the link row's, or the primary subscription of the memory, and refuses an
event it cannot resolve. `Deliver` is enabled for every emitted event, acknowledged
or not. `Restart` empties the memory. Asaas has the same statements with another
parser and is left out; so are signatures and top-ups.

### GenerationRun: `execution/*`, the orchestrator's attempts, the text-quality lanes

`run` is the place in the ladder of quality modes, its phase and its result;
`lane[l]` the step, attempt and provider each lane is at; `calls` and `judged` count
provider requests; `credits` is the job's reservation. A provider request is in
flight between `StartAttempt` and `Answer` or `Refuse`. `LaneFails` is what
`Effect.forEach` does with its other fibers. `EndLadder` keeps the code's branch for
a run without a result although no run reaches it. Scores are met or missed, freely.

### ExecutionWatch: event log, stream, client

`row` is the job's row and `worker` what the worker does with it. Three emitters (the
request that enqueues, the worker, a request that cancels) append an event and then
publish it, independently (`emitting`). An outcome's operation finds the job active,
looks it up again, updates it and announces it; `CancelJob` takes queued and running
jobs alike, and a report of progress is written and announced whatever the row says,
so a cancelled row may run again. `crossed` is history: a cancel found the job active
while a worker had it. The handler of an open stream lists the log, looks at the row,
and only then subscribes (`stream`); `wire` is what the client has not read; `watch` is
the client's loop with its attempts, poll failures and deadline; `told` what it reported
on this connection, `outcomes` the outcomes it reported at all.

### VoiceTraining and VoiceCalibration

`consent`, `examples`, `profile`, `diagnostics` are rows; `runner`, `queued`, `run`,
`marks` the queue in memory: the runner's place in a rebuild, the flag, what the run
has read, and the marks nobody awaits. Submissions (`storing`), revocations
(`revoking`), grants and confirmations of a trait (`confirming`: the diagnostics are read
and put back whole) advance one statement at a time between the rebuild's. A profile
has two sets of texts: `covers`, the texts it counts and samples, and `learned`, those its
reasoning and development signatures come from. `PutProfile` renews the second only
when the extractions and their reconciliation succeed; otherwise it keeps the previous
signatures, as the code does, `PutDiagnostics` says "failed", and the flags are cleared
all the same. `due` is history: the texts stored when a rebuild was last asked for.
Two things are one step although the code has several statements there: the two reads of
a mark that nobody awaits (`ReadLateMark`: with two steps VoiceRebuild no longer ends in
minutes), and the transaction that stores an example (`CreateExample`: it counts the rows,
reads the target version and inserts; two that count the same collide on the id, and the
later one starts over). Every other read and write is an action of its own.
VoiceCalibration puts the wizard in front: `SubmitStep` and `FinishSubmit` replace
VoiceTraining's `Submit` and `Submitted`, everything else of the training is its
`Background`. `overlapped` is history: sessions that had two requests in flight.
Abstracted: what a rebuild extracts is the set of texts it was given; the feature flag of
the signatures is on; word counts and the limits of plans on a wizard's length are left
out.

### Composition

AccountDeletion composes with OutboxRelay, VoiceCalibration with VoiceTraining.
ExecutionWatch overlaps ExecutionJob in the operations on the row: it keeps their
statements, because what the client is told depends on their order, and leaves the
relay, the queue, failed statements and the audit there. ExecutionJob and
BillingPersistence overlap in the job row and the cancel: the first keeps the row's
statements apart and leaves the money out, the second keeps the money's statements apart
and takes the row as atomic. GatewayWebhooks shares the slice and its queue with
BillingPersistence, and its dispatch with BillingService. GenerationRun's capture and
release are BillingService's operations, its progress writes ExecutionJob's. What each
assumes of the other is stated above.

## 3. Runs

| run | instance | properties |
|---|---|---|
| BillingAccounts | 2 generations, 2 prices, an event of every kind, redeliverable, clock and sweeper | `NonNegativeWallet`, `RolloverBacked`, `MonthGrantedOncePerEvent`, `SettledOnce`, `LedgerMatchesReservations` |
| ExecutionLifecycle | 1 job, 2 slots, 2 relays, 1 progress report, one each of fault, stop, relay stop, eviction; no cancel | `PipelineRunsOnce`, `ImplementsLifecycle` |
| ExecutionSettles | 1 job, 2 slots, 1 relay, a cancel, a fault, a relay stop, an eviction; fair | `QueuedIsReachable`, `UntouchedCancelIsFinal`, `EveryJobSettles` |
| PersistenceOneJob | 1 job without a key, 2 requests, a cancel, a restart; fair | `TypeOK`, `AcceptedJobIsDebited`, `SettlementPersists` |
| PersistenceSharedKey | 2 jobs under one key, 2 requests, a fault | `DoneIsPaid`, `ReservationBacked` |
| GatewayWebhooks | 1 handler, 1 change at Stripe, a fault, a restart or reload, 2 writes waiting; fair | `AcknowledgedIsDone`, `EventGrantsOneMonth`, `EventsAreAcknowledged` |
| GenerationRun | pipelines of 3 and 2 steps, every mode, 2 providers, 6 refusals, a fault; fair | `LadderStaysInBudget`, `CallsArePriced`, `QuietOnceSettled`, `SettlementFollowsOutcome`, `RunEnds` |
| AccountDeletion | 1 job, 1 handler, 1 relay, batch of 2, one each of throw, refusal, failure; fair | `PublishedIsDone`, `IntactUntilCancelled`, `PurgedStaysPurged`, `DeletedStaysQuiet`, `ExecutionsAreRelayed`, `IdentityIsDeleted` |
| ExecutionWatch | 1 progress report, a cancel, 1 reconnect, 2 failed polls, 2 faults; fair | `OutcomeIsTheJobs`, `WorkerInOrder`, `WatchEnds`, `SettledJobIsTold` |
| VoiceRebuild | 1 submission, a revocation or a confirmation, 2 schedules, 1 grant, a fault, a failed extraction or a stop; fair | `TypeOK`, `RequestsAreCovered`, `ClearedMeansLearned`, `VersionsGrow`, `QueueDrains` |
| VoiceWizard | 1 session of four steps, 2 requests, one trigger, 2 schedules, 1 grant, a stop | `NoStepJumped`, `CompletedWizardIsLearned` |
| PersistenceLateCapture | 1 job, 1 request, a cancel | `SettledOnce`, violated (section 6) |

What each shows is said above each property in its module, with the code it is
about, and in one sentence per run in `PROJECT.json`.

### Bounds

The credit amounts (monthly 50, prices 10 and 33, cap 9, top-up 20) make a renewal
roll over a remainder above and below the cap, a price unaffordable after another,
and a wallet exhausted exactly by a hold. Accounts never touch each other's state,
so one is enough. One job is enough for ExecutionJob: jobs share only slots and a
relay's batch, neither of which reads another job; two slots are what a redelivery
beside a live run needs, two relays (API and worker) what a double enqueue needs.
In BillingPersistence two requests and two jobs are the smallest number at which
reloads and reserves of one user overlap. One webhook handler at a time is what the
run affords: a delivery can stop anywhere and be followed by any other event, which
is where the order of events bites; two at once share nothing but the memory, whose
changes are single steps. Two providers make a fallback, and six refusals exhaust
both providers of a step through all their retries; a longer pipeline repeats the
same steps. A batch of two against an identity event and an execution is the
smallest in which one can starve the other. One reconnect and two failed polls reach
every exit of the watch's loop, two faults lose a log entry and its publication; one cancel
is enough to be crossed by the worker's claim, report or outcome. In VoiceRebuild a
revocation and a confirmation are each let in beside everything else, and not both in
one behaviour, which is what the run affords; the proofs have no such bound. In
VoiceWizard four steps hold one of each kind the session treats differently, and
two requests are what a race on one session needs.

`MaxFaults`, `MaxStops`, `MaxRelayStops`, `MaxEvictions`, `MaxRestarts`,
`MaxThrows`, `MaxRefusals`, `MaxFailures`, `MaxTrouble` (faults and stops together), `MaxChanges`, `MaxWaiting`,
`MaxReconnects`, `MaxPollFailures`, `MaxCancels`, `MaxVisits` (revocations and
confirmations together), `MaxSchedules`, `MaxGrants` and `MaxWizards` cap
what would be unbounded; each is a CONSTANT of its module, named in every `.cfg`.
`MaxStops` of ExecutionJob is the code's (`maxStalledCount`).

Deadlock is checked for BillingAccounts and GenerationRun (a settled run stutters in
a step of its own). It is not checked in the others because the system there comes
to rest: jobs settled, events acknowledged, watches ended. Symmetry is used only in
runs without temporal properties, over interchangeable generations or requests.

### Fairness

Weak fairness stands for three things the code relies on: timers tick, queues
drain, and what has been awaited is answered. Nothing is fair about a user's
request, a fault, a stop, a restart or an eviction.

- ExecutionJob: `setInterval` relays; BullMQ delivers waiting jobs and checks for
  stalled ones; a fiber or slot that has begun goes on. Per relay, job, slot, fiber.
- BillingPersistence: the queue of writes drains, the database answers, requests
  and jobs that have begun go on.
- GatewayWebhooks: the same for handlers and writes; strong fairness on Stripe's
  redelivery, which is retried until it is answered and competes with other
  deliveries for the handler.
- GenerationRun: the whole run goes on, `WF_vars(Next)`: a provider request ends, by
  an answer or because the fetch gives up after five minutes.
- AccountDeletion: relays, worker, writes and the gateway's webhooks; a handler that
  has begun.
- ExecutionWatch: the worker once it has claimed, the emitters, the stream's handler,
  the client's loop and its deadline, which is a timer. Nothing is fair about the claim
  or about a cancel.
- VoiceTraining: the rebuild that runs goes on.

`SettlementPersists` is checked with one job and without faults: with any of these the
code loses settlements (hazards). `EveryJobSettles` allows that a statement failed or
a slot stopped, since then the code settles nothing.

## 4. Proofs

TLC checks the instances above; the following hold for every value of the constants
that the module's assumption admits. Each assumption is evaluated by TLC in a run of
the module. All proofs have the same shape: an inductive invariant, one step per
action, and PTL at the end. Every invariant and action property that a passing run
checks is proved, each strengthening having been checked by TLC first; what is left to
TLC alone is named at the end of this section.

**BillingServiceProofs** (any accounts, generations, events, natural amounts):

- `TypeCorrect`: `Spec => []TypeOK`, one step per action of `Next`.
- `WalletNeverOverdrawn` and `RolloverNeverMints`, from the inductive invariant
  `WalletInv` (types, wallet and rollover together). They need each other: a renewal
  expires what is available and rolls over at most that, so the wallet stays
  non-negative only if what expires is non-negative, and the rollover is backed only
  because the wallet was. `CyclePostings` states what a new cycle does to the sums,
  `RolloverBounded` the pure fact about `calculateRolloverCredits`, `PostEntry` what a
  single entry does to a wallet.
- `GenerationSettledOnce`, from `SettlementInv`: `SettledOnce` is not inductive by itself,
  because nothing in it says that a generation with a reservation cannot be reserved
  again. `ReservedIsRemembered` adds that.
- `EachEventGrantsOneMonth`: the months are a cardinality, so the proof follows one key
  at a time: a cycle that starts adds one fresh key to the months of its own account
  (`OneMoreMonth`) and none to another's. This needs that the key of an account's first
  cycle is never an event's. `BillingAssumption` says so, because the code builds the two
  differently: `<namespace>:<user>:<plan>:default-cycle` (`packages/payments/src/activation.ts`
  43-49) and `gateway:<gateway>:event:<id>` (`packages/payments/src/gateway/webhook-dispatch.ts:34`).
- `LedgerAccountsForReservations`: the credits an account's ledger holds back are the sum
  over its open reservations and captured generations. What the community modules'
  `MapThenSumSet` computes on every finite set is derived first, by taking a smallest set
  on which it would fail (`SmallestSubset`): that its recursion has a solution, that any
  two agree, and so that one element can be taken out of a sum whichever the recursion
  picks (`SumTakesApart`). `StateMoves` then moves a generation from one sum to the next.

**BillingPersistenceProofs** (any processes' requests, jobs, keys and bounds):

- `PersistenceTypeCorrect`.
- `StatusHasItsEntry`: the database holds the ledger entry of each status it holds. That
  statement is about one place, but a status travels through the two copies, the loads of
  every reader and the slices waiting to be written or enqueued, so `SliceInv` states it of
  all of these: a status in a copy is backed by that copy's ledger or the database's, and
  since the database's ledger only grows a status can be written after its slice was
  taken. Hypothesis: at most one job carries no key. It is needed: two jobs without a key
  settle under one key, and TLC finds the worker that restarted between them write the
  second's status without its entry (section 6).
- `AcceptedMeansDebited`: `DebitInv` follows the reserve from the memory of the API into the
  slice of the transaction that inserts the row, and says of a remembered reserve that its
  job was accepted or is being enqueued. Hypothesis: no two jobs share an enqueue cycle.
  It is needed: of two jobs under one key the second is accepted on the reserve of the
  first, rolled-back one, which the process still remembers (section 6, a free generation).
- `DoneMeansPaid`, without either hypothesis: what the worker finds when it settles was
  committed, because its copy only ever comes from the database. The second job of the case
  above therefore fails instead of being done for free.

**OutboxRelayProofs** (any events, relays, batch):

- `OutboxTypeCorrect`, and `MarkedOnlyWhenDone`: a row is marked only when its effect
  has happened. `PublishedIsDone` alone is not inductive: between the act and the mark
  the fact lives in the tick, so the invariant adds that a tick that has acted is about
  to mark a row whose effect has happened, and that no step takes an effect back.
- `DeletionImplementsOutbox`: every step of AccountDeletion is, on the relay's
  variables, a step of OutboxRelay, an insert or a stutter. `DeletionMarksOnlyWhenDone`
  carries the relay's guarantee over through it.
- `DeletionTypeCorrect`, `NothingTouchedBeforeTheGateway`, `PurgeIsFinal` and
  `TombstoneIsFinal` (any jobs, handlers and failures), from `AccountInv`. A handler decides
  on a subscription it read some awaits ago. `HandlersInStep` says what that reading is
  worth: a handler that saw a subscription and has gone on found it cancelled at the
  gateway, and nothing reactivates it because a checkout is paid once (`PaidOnce`).
  `UnansweredHasNoRow` is why a purge is final: an id that was never answered has no row, so
  a request that comes late inserts a row of its own and never one that was purged. For the
  three parts of `DeletedStaysQuiet` the set of what is in flight is shown to be stable once
  it is empty, action by action.

**ExecutionJobProofs** (any jobs, slots, relays, and bounds on what fails; assumed is that
no slot is named "cancel", fibers being named after slots):

- `ExecutionTypeCorrect`.
- `OneRunPerJob`: the pipeline of a job runs at most once. `PipelineRunsOnce` is far from
  inductive. The invariant adds two things that only together make it so: `OneLock`, a
  delivery in its claim holds the one lock of the queue's entry, so that of two
  deliveries of a job one at most is admitted; and `ClaimsAdmitOne`, a row a claim has
  written is never queued again, so a delivery that comes after finds it claimed.
  `SlotsInStep` and `FibersNamed` say which fibers may be running in which state of a slot.
- `AcceptedJobIsReachable`: `ReachInv` strengthens what "unpublished or alive" leaves open: an
  entry that is absent is so because no relay has sent it yet, no cancel is about to remove
  the entry of a queued row (it writes the row first), and a slot that claims a queued row
  has not ended its claim. While no statement has failed, that is: with a failure the code
  loses jobs (hazards).
- `UntouchedCancelStays`: the property speaks of a slot in the future of a state, so the
  proof is of a predicate that is stable (`OutOfHands`): the row is cancelled, and a slot
  that has the job is in a claim whose read did not find it queued. It starts when the
  cancel leaves no slot with the job and holds for good.
- `RuntimeImplementsLifecycle` (with `Cancellable = {}`): when no user cancels, the split
  operations implement `JobLifecycle`. `RowFollowed` says where an admitted slot's row is at each of its
  steps; with `OneRun`, nobody else writes it. A claim's update is the lifecycle's
  `Claim`, an outcome's is its `Settle` or a stutter (both fibers of a report write),
  a publish is its `Announce`. With a cancel the refinement fails (section 6).

**GatewayWebhooksProofs** (any handlers and bounds):

- `WebhooksTypeCorrect`.
- `OneMonthPerEvent`: however often an event is delivered and wherever a delivery
  stops, it grants one month.
- `AcknowledgedMeansDone`: the invariant follows a delivery through its four awaits,
  each having left behind what the next relies on.

**GenerationRunProofs** (any pipelines, providers, bounds):

- `RunTypeCorrect`.
- `EscalationNeverRuns`: whatever the pipeline and its score, the ladder's second mode is
  never run and a pipeline that sanitizes stays within the budget of calls.
- `SettledAtRest` and `CreditsFollowTheResult`: a settled run has no lane at work, and
  its reservation was captured when there is a result and released when there is not.
- `EveryCallIsPriced`: `CallInv` counts while the run goes on: the calls made are, lane by
  lane, the LLM steps behind the step it is at, and one per refusal. `LanePlaced` ties a
  lane's place to its steps and a lane the mode does not use to no calls; `JudgeInv`
  counts the judge's two rounds against the providers it has tried.

**VoiceTrainingProofs** (any submissions, revocations, sessions, steps, marks and bounds;
nothing is assumed of what else is written between a rebuild's statements):

- `VersionsOnlyGrow`: a profile is only ever replaced by one of a later version. The
  property needs `VersionAhead`: a run that has read the version is about to write a later
  one than whatever profile is there, and a profile that is there when a run begins is the
  one it read, or is gone. It says nothing of two profiles between which there was none:
  after a revocation the numbers start again (section 6).
- `EveryRequestIsCovered`: when the queue is at rest, the profile has each stored text a
  rebuild was asked for in its material. `CoverInv` adds what a run that nobody will follow owes at each of
  its statements: before the profile it has read the examples, after it the profile has
  them. A submission that comes later is not owed by that run, because a text nobody has
  stored is in no row, run or debt; a run that fails or finds nothing releases its debt,
  which is the case the queue logs and drops.
- `TrainingTypeCorrect`, with the part of `TypeOK` that is not about types: no two rows have
  one number, although the number is a count. `Numbered` says why: rows only go all
  together, so the count is never below the largest number.
- `ClearedFlagsAreLearned`: a flag is cleared by saving the row as the run read it. `Kept`
  is the property with its two halves apart: every cleared row is in the profile's
  material, and either the diagnostics speak of a failed or running rebuild or every
  cleared row is in what the signatures have learned. `Read` says what a run in progress
  owes to it: what it will clear was among what it read and is in the profile once that
  is written, it has the learned texts of the profile it may have to keep, and between its
  profile and its diagnostics it knows whether it learned. A revocation breaks this, and so
  does a confirmation that puts back diagnostics of before (`NoneOverwritten`), hence the
  property's two premises.
- `WizardTrains`: every behaviour of the wizard is one of the training; what is proved of
  the training therefore holds behind the wizard.
- `WizardTypeCorrect` and `NoStepIsJumped`: of a session without overlapping requests
  `OneAtATime` says that it has at most one submission in hand, that this answers the step
  the session is still at, and that no context is being derived meanwhile. An answer that
  is recorded late then answers the right step.
- `WizardIsLearned`: `CalmInv` (no failure, stop or revocation so far: a stored text stays
  stored, the consent stays given, no row a run will clear is missing) makes what a
  completed session stored stay asked for (`LearnInv`); with `EveryRequestIsCovered` the
  profile has it when the queue is at rest, and since no extraction failed its signatures
  have learned all it has.

**ExecutionWatchProofs** (any progress reports, attempts, polls, cancels and faults):

- `OnlyTheOutcomeIsTold`: whatever path an outcome took to the client, it is the row's, or,
  once a cancel crossed the worker, the cancel or the worker's one outcome; and a watch that
  ends as observed has reported one. `JobInv` says where the row and the worker are: as long
  as nothing crossed (`Uncrossed`) at most one operation has an outcome in hand and the row
  does not change once it has settled, so what may be said (`Sayable`) never shrinks.
  `Truthful` follows an outcome over every place it may be on the way (emitter, log, wire,
  report). `Reported` says what the stream's flag means: forgotten when a stream opens, set
  only together with the report.
- `WorkerToldInOrder`: on one connection nothing is reported after a later event, a crossed
  cancel's outcome excepted. The worker's own events are in order whatever a cancel does:
  `OrderInv` says it of what was told and what is on the wire taken together, of the log by
  itself, since a replay puts the log on the wire, and of the event in hand, with a
  cancellation ranked nowhere (`WorkerRank`). Without a crossing a cancellation is the only
  outcome and no report of the worker's is left to follow it.

Only model-checked: liveness under fairness and ENABLED, which are out of the prover's
reach (`EveryJobSettles`, `SettlementPersists`, `EventsAreAcknowledged`, `RunEnds`,
`ExecutionsAreRelayed`, `IdentityIsDeleted`, `WatchEnds`, `SettledJobIsTold`,
`QueueDrains`). Two theorems of
BillingPersistenceProofs have a hypothesis of their own, which the runs of their
properties satisfy: PersistenceOneJob has one job, and the two jobs of
PersistenceSharedKey both carry a key.

## 5. Mutants

Each property of a passing run has a mutated definition in the modules (marked
"Mutant") that a plausible bug would produce and that makes TLC find the property
violated under the run's own configuration: a dropped balance check, a claim that goes
on whatever it finds, an event marked before it is enqueued, a slice taken before the
reserve, a write not scheduled, the end of a response taken for the end of a job.
`PROJECT.json` lists them.

## 6. Findings

With a run of its own:

- **A cancelled generation is captured too** (PersistenceLateCapture): the guard on the
  reservation's status reads its own process's copy, and the worker's has not heard of
  the release.

The models reach these behaviours too; each can be seen by stating the opposite as a
property of the module.

BillingService and BillingPersistence:

- **A redelivered renewal reactivates a cancelled subscription**: `startCycle` is keyed,
  the status patch before it is not (`packages/payments/src/gateway/webhook-dispatch.ts:93`), and
  the service dispatches a repeated event (`product/billing/billing-webhook-service.ts` 49-51).
- **The sweeper stores lapses that a refund undoes**: a trial whose credits are all
  held is stored as lapsed; the hold is released and nothing brings the status back.
- **A lost refund**: a concurrent request's reload removes a cancel's release from
  memory before it is written.
- **A free generation**: the reserve of a rolled-back enqueue stays remembered, so the
  retry under the same key is accepted without a debit.
- **A status without its entry**: two requests without a key settle under one key. When
  the worker restarts between them it has forgotten the first settlement: the second's
  entry is skipped by the write, its key being there already, and its status is written
  (the hypothesis of `StatusHasItsEntry` excludes it).
- **Overspending**: a reload removes another request's uncommitted reserve, and the
  balance is spent again.
- **Unsettled requests without a key**: the worker gives all of them the cycle
  `generation:<pipeline>:anonymous`, so the second settlement of a kind is answered
  from memory.

ExecutionJob:

- **A cancelled job is resurrected**: progress writes `running` whatever it found
  (`infra/postgres-repositories/postgres-job-repository.ts:230` against 255-256; the worker's
  persistence, `runtime/durable-job-runtime.ts:294`). `ImplementsLifecycle` fails with
  a cancellable job.
- **A killed worker's job never settles**: the redelivery's claim refuses a row that is
  already running (`runtime/durable-job-runtime.ts:255`), where
  `infra/integrator/docs/runbooks/graceful-shutdown.md:40` has the job retried.
- **A stray done**: a cancel between a completion's check and its write lets the done
  event out for a cancelled job.

GatewayWebhooks and AccountDeletion:

- **A paid event is lost**: the event is acknowledged once the memory has it
  (`product/billing/billing-webhook-service.ts` 46-51); a restart, or a reload whose selects ran
  before, comes between that and the write of the slice.
- **A deleted account is linked again**: a slice write or a webhook in flight inserts
  rows after the purge that anonymised them (`infra/billing/postgres-billing-anonymization.ts`
  24-26 against `product/billing/billing-webhook-service.ts:79` and `product/billing/durable-billing.ts:65`).
- **An orphaned subscription**: a checkout paid between the lookup and the purge leaves a
  subscription at Stripe that no account owns (`product/account/account-gateway-cancel.ts`
  22-25 says "never orphaned").
- **Only the 500 latest jobs are cancelled before a purge**
  (`product/account/account-execution-purge.ts:18`).

ExecutionWatch:

- **A gap**: an event published between the read of the log and the subscription is in
  neither (`jobs/job-events.ts:23`; the contract in `docs/frontend-backend-contracts.md:28`
  is replay and then live events). `SettledJobIsTold` holds because the client
  reconnects when its connection ends and polls in the end; the progress in the gap is
  never shown.
- **A cancelled job goes on for its watcher**: the cancel of a running job is announced
  (`runtime/durable-job-runtime.ts:342`) and does not stop the worker, whose next report
  writes the row as running and is published without a look at the status
  (`runtime/durable-job-runtime.ts` 273-283). The client is told `cancelled`, then progress, then
  perhaps `done`. `OutcomeIsTheJobs` and `WorkerInOrder` without their exception for
  `crossed` are violated.

GenerationRun:

- The cost formula of `docs/research/pricing-margin-analysis-2026-07-20.md:27` counts
  one request per step; `CallsArePriced` states the number that retries, fallbacks and
  the judge make of it.
- `EndLadder`'s branch for a ladder without a result is not reached by any run.

Voice:

- **A late mark**: marks are not awaited (`product/voice/voice-rebuild-queue.ts:106`), so
  an `updating` written after the rebuild's end stays until the next one. It may overwrite a
  `failed`.
- **A flag cleared of what was not learned**: when an extraction or the reconciliation fails
  the profile keeps its previous signatures
  (`product/voice/voice-rebuild-pipeline.ts` 153-186, 255-257), and the texts' flags are
  cleared all the same (line 308). Nothing but the diagnostics' status tells that those
  texts were not learned, and the queue does not run again by itself.
- **A confirmation hides it**: the confirmation of a trait reads the diagnostics and puts them
  back whole (`product/voice/trait-confirmation.ts` 22-51), over whatever a rebuild wrote
  meanwhile. An `idle` comes back over a `failed`; without its premise on confirmations
  `ClearedMeansLearned` is violated.
- **Version 1 twice**: a revocation removes the profile and the diagnostics, and the numbers
  and snapshot ids (`...:v1`, `product/voice/voice-rebuild-derivation.ts:73`) start again; a
  rebuild that was in flight, or the next one, writes another profile under the same id.
- **A revocation leaves what a rebuild in flight writes after it**: the profile, or a
  text a submission stores, is there when consent is not.

Not in a model: two requests with one idempotency key both find nothing and both run
(`execution/idempotency-store.ts:67`).

## 7. Not modelled, and why

- **What a text says**: prompts, skills, extraction, scoring, the sanitizer, the safety
  inspection and redaction, text quality's measures. They are functions of strings with
  no state; a model of them is a transliteration. Where the flow depends on their verdict
  it is free (a score met or missed, a text extracted or not).
- **Providers, Auth0, Stripe, BullMQ, Redis, PostgreSQL** are external: what the code
  relies on is modelled from how it uses them.
- **Floating point**: credits are tenths.
- **Pure configuration**: AI policy, safety policy, catalogs, feature flags, contracts.
- **Rate limiting and the idempotency store**: one await each; the hazards are listed at
  their lines.
- **Account export**: one read.
- **Asaas**: the same services behind another parser.
- **The in-memory job store**: development and tests; its contract is `JobLifecycle`.
- **Web app, landing page, evaluation scripts**: most of the repository's lines. They
  render, and keep no state another component reads.

The map covers about 7% of the repository's lines. What is outside is, by lines, almost
all of the kinds above: of the backend's stateful code (runtime, job, billing, webhook,
voice and account services) the modules translate the greater part.
