# A TLA+ model of the gateway's billing and scheduling core

The repository is a gateway in front of many LLM providers, written in Go: it
authenticates a request, charges it, picks an upstream channel with a smart
scheduler, relays it with retries, and settles the charge. This directory
holds TLA+ modules for the parts of it whose correctness depends on the order
in which things happen, the configurations that check them with TLC, and
proofs checked by TLAPS. `PROJECT.json` ties every definition to the source
lines it models and lists the runs, mutants, hazards, findings and theorems.

1. [Inventory](#1-inventory)
2. [Plan](#2-plan)
3. [BillingSession](#3-billingsession)
4. [ChannelAdmission](#4-channeladmission)
5. [CircuitBreaker](#5-circuitbreaker)
6. [TaskBilling](#6-taskbilling)
7. [Orders](#7-orders)
8. [TokenCache](#8-tokencache)
9. [AutomationQueue](#9-automationqueue)
10. [Runs](#10-runs)
11. [Proofs](#11-proofs)
12. [Disagreements between code and documentation](#12-disagreements-between-code-and-documentation)
13. [What is not modelled](#13-what-is-not-modelled)

## 1. Inventory

### Money

| component | state | operations | hard parts |
|---|---|---|---|
| billing session (`service/billing_session.go`, `funding_source.go`, `billing.go`) | `preConsumedQuota`, `tokenConsumed`, `extraReserved`, the flags `fundingSettled`, `settled`, `refunded`, the amounts of the funding source | `NewBillingSession`, `preConsume`, `Reserve`, `Settle`, `Refund` | several store accesses per operation, each of which may fail; check and decrement are separate; refund in a goroutine with retries |
| rows (`model/user.go`, `token.go`, `subscription.go`) | `users.quota`, `tokens.remain_quota`, `amount_used` and period of a subscription, pre-consume records | increase and decrease, pre-consume, post-consume delta, refund, periodic reset, expiry | shared by all requests of a user; resets between pre-consume and settlement |
| batch updater and caches (`model/utils.go`, `user_cache.go`, `token_cache.go`) | deltas in memory, rows in Redis and in process | add, flush, read through, invalidate | lost on crash or error; stale reads |
| payments (`model/topup.go`, `redemption.go`, subscription orders) | orders, codes | create, complete, expire, redeem | repeated and concurrent notifications |
| asynchronous tasks (`service/task_billing.go`, `task_polling.go`, `model/task.go`) | task status and quota | submit, poll, sweep, refund, recalculate | poller against timeout sweep, compare-and-set |

### Scheduling

| component | state | operations | hard parts |
|---|---|---|---|
| concurrency counters (`service/channel_concurrency.go`) | active requests per channel and account, selection reservations, leases, learned limits | acquire, release, reserve, learn, recover | two counters per lease, release from several goroutines |
| queue manager (`pkg/modelgateway/scheduler/queue_manager.go`) | depths, depths per group, waiters | enter, turn, leave, time out | turn check and acquisition under different mutexes; reserved and extra depth |
| attempt loop (`controller/relay.go`, `middleware/distributor.go`, `service/channel_select.go`) | retry counter, skipped targets, plan, lease | select, set up, admit, attempt, retry, clean up | retries that are not counted; early returns between acquire and release |
| circuit breaker (`scheduler/circuit_breaker.go`) | state, counters, open-until, probe slots per runtime key | `Snapshot`, `AllowProbe`, `Report`, `Reset` | stale snapshots, late results, slots that are never returned |
| recorder (`recording/async_recorder.go`) | bounded channel, one worker | offer, process | overflow is processed out of band, out of order |
| synchronized runtime (`scheduler/synced_runtime.go`, `runtime_sync*.go`) | circuits and snapshots shared by nodes | put, get, list, events | merge of local and remote state is not atomic |
| sticky router, affinity, first-byte timeout, stream scanner | session bindings, timers, goroutines of one answer | bind, expire, time out | timers against late answers |
| rate limiters, channels and keys | windows, key status | allow, rotate and disable | limits at the boundary |

### Companion service

| component | state | operations | hard parts |
|---|---|---|---|
| job queue (`token-account-automation/internal/queue`) | jobs, attempts, leases, secrets | create, claim, heartbeat, succeed, fail, wait for a human, cancel, retry, resume | leases that run out under a working worker; retries after partial success |
| executors (`internal/executor`) | none of their own | recover, refresh, hand over to a browser login, write back | vault, gateway and queue are three stores |

Everything else (provider adaptors, administration API, console) transforms
data or edits single rows.

### Interaction

`Distribute` selects a channel and reserves it; `Relay` pre-consumes the
estimate (`PreConsumeBilling`), then loops: choose a channel, acquire a slot or
wait for one, reserve more quota if the channel is more expensive, call the
provider, release the slot, report the result to the recorder, and retry or
stop. The handler of a successful attempt settles the session; the deferred
function of `Relay` refunds it when the request failed. The recorder hands
results to the health monitor and through it to the circuit breaker, whose
snapshots the next selection reads. All of this runs in one process with one
goroutine per request, a recorder worker, and background tasks; the rows are
shared with other processes through the database. Asynchronous tasks are charged
on submission and settled later by the polling loops of master nodes. Payments
raise the same rows. The gateway reports invalid credentials to the automation
service, which writes new ones back.

### What must hold

* A request costs exactly what it settled, or nothing; refunds never exceed
  charges; settled charges are final; a subscription's usage is backed.
* Slots in use equal the leases held and stay within limits; queues are bounded
  and fair; every request ends and leaves nothing behind.
* Half-open circuits admit their budget of probes and no more; the smart selector
  respects open circuits; nothing but a lost probe keeps a channel out of service.
* A task whose updates are guarded is refunded at most once and ends up charged
  what its status says.
* An order is completed with one credit or closed without any; who paid is
  credited.
* Every quota delta reaches its row once; a deleted token is forgotten.
* Recovery of an account has one active job per kind under the account's key, no
  success without a result, and no job that nobody will ever finish, but for
  known cases.

## 2. Plan

Done, in this order: `BillingSession`, `ChannelAdmission`, `CircuitBreaker` (the
parts every request passes through), `TaskBilling`, `Orders` with the abstract
`OrderOnce`, `AutomationQueue`, `TokenCache`, and the proofs of section 11.

| module | models | state and actions |
|---|---|---|
| `BillingSession` | session, funding sources, rows | section 3 |
| `ChannelAdmission` | counters, leases, queues, attempt loop | section 4 |
| `CircuitBreaker` | breaker, recorder, circuit part of the selectors | section 5 |
| `TaskBilling` | polling loops, sweep, fetch, task billing | section 6 |
| `OrderOnce`, `Orders` | what an order promises; how it is completed | section 7 |
| `TokenCache` | token row, hot and Redis copies, batch updater | section 8 |
| `AutomationQueue` | job queue and executors | section 9 |
| `BillingProofs`, `AdmissionProofs`, `CircuitProofs`, `TaskProofs`, `OrdersProofs`, `TokenCacheProofs`, `AutomationProofs` | proofs about the module of that name | section 11 |
| `FiniteSums` | lemmas on sums over finite sets, used by the proofs | section 11 |
| `MC...` | instances for TLC | section 10 |

Each module is a component with the part of its environment it shares state
with; the modules are not composed further, since they meet only at rows that
each of them models itself (a wallet that a task refunds is the wallet a request
charges, and both only add to it).

Every safety invariant and every action property that a passing run checks is
also stated by a theorem (section 11). What a further step could add: the
unguarded paths of `TaskBilling` (`TaskProofs` covers the guarded ones), an
abstract ledger that `BillingSession` refines, and modules for the synchronized
breaker and the learning of limits (section 13).

## 3. BillingSession

One user, one token, one subscription, any number of requests. A step is one
access to the store with the local computation around it; the session's mutex
orders only the operations of its own request, so steps of different requests
interleave.

| in the model | in the code |
|---|---|
| `wallet`, `token`, `subUsed`, `subStatus`, `lastReset`, `period`, `preRecord` | the rows |
| `funding`, `phase`, `preConsumed`, `tokenConsumed`, `extraReserved`, `walletConsumed`, `subPre`, `subPost` | fields of `BillingSession` and of the funding sources; `phase` combines the three flags |
| `op`, `amount`, `rest`, `err`, `actual`, `tries`, `attempt`, `pc` | locals and program counter |
| `paidW`, `paidS`, `paidT`, `faulty` | history: what each row lost to each request, and whether an access failed |

`Start` to `TokRollback` are `NewBillingSession` with its preference order and
fallbacks; `Attempt` to `ReserveTokenDec` are a retry's `Reserve` with its
undo; the `Adjust...` actions are `FundingSource.Settle` of the three sources
(shared by `Reserve`, its undo and `Settle`); `Settle`, `SettleToken`,
`UpstreamError`, `Answered`, `Retry` are the end of an attempt; `Refund` to
`RefundToken` the refund goroutine; `SubscriptionEnds`, `PeriodEnds`,
`ResetDueSubscriptions` the environment. `Crash` stops a request anywhere.

`Faults` chooses what may fail: `db` (an access fails without effect), `mark`
(a subscription refund is applied, and recording it fails), `crash`. A failed
listing of the subscriptions is reported as insufficient quota
(`subscription.go:1123`), for which `NewBillingSession` may fall back to the
wallet; other failures end the session. `FundErrors` leaves both open.

Assumptions. Each transaction is one step: the code asks for a row lock with an
option the installed gorm does not know, so on a database below serializable
isolation more interleavings exist (`Orders` shows their effect). Batch updates
are off (`TokenCache` has them). Amounts are small naturals: the quota arithmetic of this code is sums
and differences of Go's 64-bit `int`.

Properties. `ExactCharge` is the main one: a request that ended without store
errors paid exactly what it settled, or nothing. It names two exceptions
that the code makes: when the subscription refuses the additional charge the
answered request keeps its pre-consume, and a failed wallet request without a
token keeps it too (section 12). `NeverOverRefunded`, about wallet and token,
holds under every fault; `SettledIsFinal` covers attempts that settled and were
then declared failed; `SubUsageBacked` and `OverdraftNeedsRace` relate the
shared rows to the requests; `Termination` includes the refund and its retries.
What `OverdraftNeedsRace` compares a charge with is `CheckedPart`, the part that
was compared with the wallet: of a split funding, only what the subscription
left over. A settlement above the estimate is not checked, so one request alone
overdraws the wallet as soon as it pays more than that part, even if it pays
less than its estimate.

## 4. ChannelAdmission

Requests compete for the slots of channels and accounts. A step is one
critical section. Counters: `active`, `acctActive`, `reserved`; local to the
request's context: `ctxReserved`, `skipped`, `fellBack`, `retry`; queue
manager: `depth`, `groupDepth`, `waiters`, `ticket`, `nextSeq`. `lease` tells
how far a release has got, since it decrements the channel's counter and then
the account's in two critical sections.

`SelectSmart`, `SelectLegacy`, `SelectFails`, `SetupOk`, `SetupFails` are the
distributor and `getChannel`; `TryAcquireChannelConcurrency`, `Unreserve`,
`PreUnreserve` the acquisition; `PoolSelect`, `PoolSelectFails`, `PoolSetup`
the second selection for a saturated protected channel; `EnterQueue`,
`WaitTick`, `WaitEnds`, `LeaveQueue` the queue; `Rejected`, `AttemptEnds`,
`Panic`, `ReleaseChannelSlot`, `ReleaseAccountSlot`, `AfterRelease`,
`AfterSetupRelease` what follows; `FinishReservation`, `Finish` the deferred
cleanup.

Abstractions. Which target a selection picks, and whether another candidate
exists, is a free choice among the targets not skipped. The one additional
retry that a switch of the channel is granted is consumed by the next
increment, so it needs no variable. The distributor's limit of four tries is
left to the skipped targets. The limits are constants (their learning is not
modelled). Setup errors of smart selections all carry codes that permit a
failover, so the branch for the others is not reachable and not modelled.

Properties. `ActiveIsHeld` (counters agree with leases in every state, between
the two halves of a release too), `HoldersWithinLimit`, `QueueDepthsAgree` (three
structures kept in step by hand), `QueueBounds` (reserved and extra depth),
`NoOvertaking` (first come, first served among equals although check and
acquisition are separate), `ReservedBacked`, `NothingLeftBehind`, `Termination`.
`ReservedBacked` is an inequality because a request that was selected without a
reservation releases one all the same, and may take another request's: the load
may be seen too low for a while, never too high for ever. `NothingLeftBehind`
excepts panics: the release of a lease is not deferred, so a panic of the
handler, caught by the recovery middleware, leaves the slot taken. A waiter that has
passed its turn check can be overtaken in rank, not in its class (section 12).

Fairness. A goroutine that can run runs (`WF` of `Proceed`); an attempt ends by
answer, error or watchdog (`WF` of `AttemptEnds`); a wait ends (`SF` of
`WaitEnds`: the timer fires once and stays ready, while the waiter returns to
its `select` after every tick). Nothing is assumed about winning a slot.

## 5. CircuitBreaker

One runtime key in one process. `Snapshot`, `Dispatch` and `AllowProbe` are what
the selector of requests and the selector of health probes do, `Offer`,
`Dequeue` and `Report` the recorder, `TimePasses` the end of `OpenDuration`,
`ResetChannel` the administrator. `Abandon` is an attempt that took its slot
and never reports (a stale candidate, a request that ends, a probe that is
filtered out).

A request for which the smart selector has no candidate, or that `AllowProbe`
refused (`Refused`), is not over: `ChannelSelectionWrapper.Select` asks the legacy
selector, which does not look at circuits. It may take the channel of this key
(`LegacySelect`) or another one or none (`Elsewhere`). A legacy attempt has no
plan, so `reportModelGatewayAttempt` reports nothing when it ends (`LegacyEnds`).

The operators `Advance`, `Opened`, `ReportSuccess`,
`ReportFailure` translate the functions of the breaker line by line on a
record. Each attempt is made once, which bounds every counter by the number of
attempts. Rates are compared exactly, by cross-multiplication, instead of in
floating point. Time is the order of events only: an open period is over or
not. The breaker is assumed enabled in the policy. `Counted` says which results
it takes notice of: successes and the failures of the default kinds or of a
policy, `concurrency_limit` never. Which kind a failure has is a free choice.

`episode`, `probeOf`, `openings`, `seenAt`, `lost` are history.

Properties. `ProbeBudget`: the used slots are exactly the attempts admitted in
this half-open period, at most the budget; results of earlier periods and
re-openings between snapshot and slot change nothing. `StuckOnlyByLostProbe`:
a half-open circuit without free slots has a probe that is running, whose
result is on its way, or that was lost; since slots are returned only by
counted results, a lost probe does keep the channel out of service until the
circuit is reset, which the model shows reachable. `RatesAreRates`: the three
counters of failures stay ordered. `OpenIsRespected`: a request that starts on
an open circuit read its snapshot before the circuit was opened, or was started
by the legacy selector after the smart one had no plan; and such a legacy attempt
never reports, so that the traffic the breaker could not keep away does not close
the circuit either.

## 6. TaskBilling

One task after its submission was charged, the loops of several nodes, and users
that fetch it. A step is one access to the store or one call of the provider.

| in the model | in the code |
|---|---|
| `status`, `done`, `task` | the row; `task` holds the columns that do not change |
| `copy`, `seen` | the row as a node read it, and the provider's answer it applies (a `Reply`: status, whether the progress is 100%, whether there is a fail reason): both may be old |
| `bill` | the adjustment in progress (`taskAdjustFunding`, then the token) |
| `paid` | net quota taken for the task from wallet, subscription and token |
| `faulty`, `outside` | history: an access failed; a final status was written or taken back without billing, or a refund made without one |

`Sweep`, `SweepCas` are `sweepTimedOutTasks`; `PollLoad`, `Ask`, `Apply` the
video loop with its compare-and-set (`UpdateWithStatus`); `ApplySuno`, `SaveSuno`
and `ApplyMj` the other two loops; `BulkFail` the failure of all tasks of a
channel that cannot be read; `FetchLoad` to `FetchSave` `tryRealtimeFetch`;
`Notify` the Midjourney hook, which may also deliver one announcement of the
running task after its end; the `Adjust...` actions the refund or the
recalculation.

The three loops refund on different conditions. The video loop looks at the status
only. `updateSunoTasks` refunds a failure and whatever comes with a reason
(`SunoRefunds`). `UpdateMidjourneyTaskBulk` looks at the reason of an answer below
100% and at the status of a finished one (`MjRefunds`), and its query looks at the
progress only, so that the progress decides whether polling goes on. For an answer
that agrees with itself (`Plain`: a failure is finished or has a reason, a success is
finished and has none) these are the same; the trouble `odd` lets Suno and
Midjourney give any answer. A Midjourney task that is too old gets the status
`FAILURE` and a reason whatever was answered (`MjReply`).

The constant `Scenarios` pairs a platform with the nodes that
poll, the funding and what may go wrong, so that one run covers all platforms.
A node is one goroutine: the loops run on master nodes only, of which a
deployment may have several.

Not all paths are guarded. `updateSunoTasks`, bulk failures and the notification
hook save unconditionally, and bulk failures and the hook do not refund; a user's
fetch compares with the status it read, but writes over a status that was already
final then. `Guarded` says which tasks no such path reaches: video tasks; Gemini
tasks, unless a user fetches them while the sweep, an error document or a bulk
update may have finished them; Midjourney tasks without the hook and without
contradictory answers. `Alone` are the Suno and Midjourney tasks that one node
polls.

Properties. `NoDoubleRefund`: nobody is given more than was charged, by funding
source or token; of guarded tasks under every trouble, of the `Alone` ones without
the hook, whatever the provider answers, and for Suno while the store works.
`OutcomeBilled`: the charge is what the row says, for both groups, but for what
`outside` records. `FinalIsFinal`: a final status of a guarded task stays and money
moves only after it. `TaskEnds`: a finished or too old task is finished and billed,
whatever update failed or was lost; a contradictory answer can end the polling of a
task whose status is not final, so `odd` is excepted.

Beyond these hypotheses the code does refund twice, and the scenarios that show it
are not part of the run: a user's fetch that takes back the failure of a sweep; a
late notification that reopens a refunded image; two nodes on a song (the save has
no guard); two nodes on an image that was saved as `FAILURE` below 100% without a
reason and therefore is polled on: when it gets a reason, or 100%, both update
`FAILURE` to `FAILURE`, both win and both refund. Section 12 lists them.

Fairness. The loops never stop (`WF` of `Poll`), a provider that is asked again
and again answers once (`SF` of `Answers`), time passes. No user need fetch.

## 7. Orders

`OrderOnce` is the abstract specification: an order is completed, together with
its one credit, or closed without any, and then never changes. `Orders` has the
handlers. `LockOrder` is a mutex with a reference count in the memory of one
process: `LockOrder`, `LockMutex`, `UnlockMutex`, `ReleaseOrder` are its four
critical sections, and `Locks` the identities of the mutex objects, which are
deleted and created again. A transaction reads the row in `ReadOrder` and writes,
credits and commits in `CompleteOrder`; between them nothing excludes another
process unless the database serializes (`serial`), because the row lock is asked
for with an option that gorm v2 ignores. Epay saves the status and adds the
quota in two separate accesses (`EpaySave`, `EpayCredit`), after the provider
was answered. `Deliver` is a request that arrives: notifications are repeated until
acknowledged, which Stripe and Epay get at once whatever happens. `acked` is the
outcome that was first acknowledged. `creem` is a top-up and `creemSub` a
subscription bought through Creem, whose handler takes an order it could not read
for one that does not exist and answers 200. A `failed` event of Waffo may arrive at
any time: its handler takes every status other than `PAY_SUCCESS` for a failure.
`Crash` loses a process with its mutexes and open transactions.

Properties. `LockIsExclusive`; `ImplementsOnce`, the refinement (an Epay order
whose credit is outstanding counts as pending); `PaidIsCredited`, in the
scenarios where the provider is made to repeat itself, but for `GivenUp`: a Waffo
order that some other status closed before the payment was reported, and a Creem
subscription whose read failed while it was notified. Not covered because the
code does not promise it: Epay after a failure between its two accesses, Stripe
after a failed access (it is always answered 200). `Redeem` and the failure
event of Waffo take no lock; for them `ImplementsOnce` is checked with a
serializing database only, and would not hold on another.

Fairness. Providers repeat unacknowledged notifications (`SF` of `Redeliver`),
handlers run to their end (`WF`), `sync.Mutex` does not starve (`SF`).

## 8. TokenCache

One token row, its copies on every node and in Redis, and the batch updaters.
Loading goes through the hot copy, Redis and the database with singleflight
(`GetHot` to `NotFound`); a charge marks the copy as used (`Touch`, which renews its
time to live), then collects a delta (`Collect`) or updates the row (`Update`,
`DropAfterUpdate`); `TakeBatch`, `ApplyBatch`, `DropAfterBatch` are the batch
updater. `gopool` goroutines work on Redis later and in any order, so `async` is a
bag of them; `ReadTTL` and `HIncrBy` are the two calls of `RedisHIncrBy`, between
which the hash may be deleted and come back as a fragment. `DeleteRow` and
`DeleteCopies` are `Token.Delete` and `BatchDeleteTokens`. The copies' quota is not
kept. `AgeHot`, `AgeRedis` are time; a copy has two ages, so that renewal matters.
`Init` follows `Token.Insert`: the node that created the token has a hot copy.

Properties. `DeltasBooked`: row and held deltas add up to what was booked, less
exactly what a failed update or a crash took with it. `DeleteIsImmediate`: after
`Delete` neither the deleting node nor Redis has a copy, unless someone who had
read the token before wrote one after. `DeletedIsForgotten`: every node forgets the
token in the end, although requests never stop and each renews the copy; the
reason is that applying a delta drops it.

Fairness. Requests in progress, goroutines and updaters run, time passes; nobody
need send requests. Redis failures are not modelled, nor edits of a token, nor the
one by which `ValidateUserToken` marks a token exhausted or expired without Redis
(`SelectUpdate`, once per copy; it renews the hot copy like a use).
Rounding of the remaining time to live by `RedisHIncrBy` may prolong a copy in
Redis; a copy written there after the deletion is therefore an exception. The
comment of `InvalidateUserTokensCache` (`model/token.go`) promises more than its
code: it clears Redis and leaves the hot copies.

## 9. AutomationQueue

One account whose credential is invalid. `jobs` are the rows (`lease` is none, live
or past), `open` the unfinished attempt rows, `linked` and `written` where a
job's new credential has got to, `worker` the local state of each worker: a
claim is a listing and a conditional update (`worker[w].list` in between), and
the handlers of the three kinds of jobs are one step per transaction or external
call. `LeaseRunsOut` may happen to any held job at any time: a slow worker goes on
and its late reports meet the guards of `Succeed`, `Fail` and the stages.
`Operator` cancels, retries and resumes. `PostJob` is `POST /api/jobs`: an operator
creates a job of any kind, with the account's idempotency key or without one
(`key`), and with the attempts of his choice (`PostTries`). `CreateJob` looks for an
active job only under a key. `Budgets` bounds events, operator requests, crashes
and failed accesses of one behaviour.

Assumptions. Transactions are atomic, as on SQLite, the service's default
database; on others the read-then-write of `Fail`, `Retry`, `Resume` and
`CreateJob` would race as in `Orders`: no unique index on `idempotency_key` refuses
the second of two jobs created at once. Worker ids are distinct; two processes with
the default id would hold each other's leases. `run_after` only delays a claim
and is left out. The status `EXPIRED` is never set and the branch for
`secret_vault_unavailable` cannot be reached, since the lookup before it needs
the key.

Properties. `OneActiveJob` (but for the two requests of operators that do not look
for other active jobs, a `Retry` and a job posted without a key), `SuccessHasResult`, `FinishedStays`, and `JobEnds`. Its exception,
`Stranded`, is real: when the last attempt loses its worker, the claims skip the
row for ever and later events are answered with it. Cancel and a claim of a lost
lease leave the old attempt row open.

Fairness. Workers poll and their calls have time limits (`WF` of `Claim`, `Step`),
leases run out by the clock. Nothing else is owed.

## 10. Runs

| run | instance | shows |
|---|---|---|
| `billing_solo` | 1 request, 4 preferences, amounts {0,1,3}, 2 attempts, failing store, trust limit, 1 period end (165,000 states) | `TypeOK`, `ExactCharge`, `NeverOverRefunded`, `SettledIsFinal`, `Termination` |
| `billing_pair` | 2 requests, 2 preferences, scarce wallet, token and subscription, crashes, 1 period end (734,000) | `ExactCharge`, `SubUsageBacked`, `OverdraftNeedsRace` |
| `billing_sub_refund` | 1 request, unrecorded refund | violates `SubRefundIdempotent` |
| `admission_slots` | 2 requests, 1 channel with 1 account, all plans, 1 retry, panics, fair (258,000) | `TypeOK`, `ActiveIsHeld`, `ReservedBacked`, `NothingLeftBehind`, `Termination` |
| `admission_queue` | 4 requests of 3 classes, 1 slot, queue of 2 with 1 extra and 1 reserved place (1,151,000) | `HoldersWithinLimit`, `QueueDepthsAgree`, `QueueBounds`, `NoOvertaking` |
| `circuit_breaker` | 4 requests, 1 health probe, 3 kinds of error, recorder queue of 1 (1,732,000) | `TypeOK`, `ProbeBudget`, `StuckOnlyByLostProbe`, `RatesAreRates`, `OpenIsRespected` |
| `task_billing` | 1 task, 4 platforms, 3 fundings, 2 nodes, 1 fetch, 8 scenarios (140,000) | `TypeOK`, `NoDoubleRefund`, `OutcomeBilled`, `FinalIsFinal`, `TaskEnds` |
| `orders` | 1 order, 8 providers, 9 scenarios, 3 requests in 1 process, failures and a crash (233,000) | `TypeOK`, `LockIsExclusive`, `ImplementsOnce`, `PaidIsCredited` |
| `orders_two_nodes` | 2 requests in 2 processes | violates `CreditedOnce` |
| `automation` | 2 executors, 1 browser worker, 4 budgets (156,000) | `TypeOK`, `OneActiveJob`, `SuccessHasResult`, `FinishedStays`, `JobEnds` |
| `automation_writeback` | 1 executor, 1 event | violates `SuccessIsWritten` |
| `token_cache` | 1 token, 2 nodes, 2 requests for ever, 6 scenarios (739,000) | `TypeOK`, `DeltasBooked`, `DeleteIsImmediate`, `DeletedIsForgotten` |

Why the bounds are enough. Two requests show every race on a row, since each
access concerns one row; the pair's balances (wallet 1, token 3, subscription 2,
amounts 1 and 2) make every check pass for one request and fail for two. The
solo run's amounts allow a settlement below, at and above the pre-consume, and
an estimate above the trust limit of 3 or below it. Four requests fill a slot,
both normal and extra queue places and leave one to be refused. Five attempts
open a circuit (two samples), spend a budget of two and of one probe, and still
leave a late result. A task of quota 2 with final quotas 1 and 4 is refunded in
part or charged beyond what the subscription has left (1). Three handlers are
needed for a mutex to be deleted while one waits and another comes; two mutexes
suffice, because a node has one entry. Two attempts of a refresh allow one lost
lease and one retry; more jobs than `MaxJobs` cannot be created within a budget; a
posted job has one attempt (`PostTries`), like those the service creates of its
kinds but one.
Scenarios and budgets bound what goes wrong in one behaviour: at most one failed
access or crash each, in every combination with one another that the lists in
the MC modules name. Bounds are the constants `MaxAttempts`, `MaxPeriods`,
`RetryTimes`, `MaxJobs`, `Budgets`, `Scenarios` and the sets of requests,
attempts, nodes and workers. Requests are interchangeable and symmetric in the
runs without liveness. Deadlock is checked except where everything may be over:
an order completed and acknowledged, all jobs finished and no budget left.

Every property of a passing run has a mutant in `PROJECT.json`: a plausible bug
in one definition (a dropped guard, an off-by-one, a missing reset), written
beside it and marked `mutant`, under which the run reports a violation.

## 11. Proofs

All theorems hold for every value of the constants that meets the `ASSUME` of
the module: any number of requests, channels, nodes, workers or attempts (finite
where something is counted or summed), any amounts, limits and faults. Each
strengthening was checked with TLC on the instances of section 10 first.

### Sums

`FiniteSums` is about `MapThenSumSet`, for sums over requests, nodes or kinds. A
proof by induction with an operator as the induction hypothesis is not
available; the module uses sets instead: `SubsetInduction` takes the *set* of
good subsets of a finite set and is proved by the minimal counterexample, since
the strict subset ordering of a finite set is well founded. From it follow that
the recursion is well defined, that any term may be taken out first
(`SumOfRemove`), what happens when one term changes (`SumOfChange`), comparison
(`SumOfLeq`, `SumNotNegative`), and that the sizes of the classes of a set add
up (`SumOfClasses`).

### BillingProofs

`TypeCorrect` is inductive as it stands; beyond types it says that `amount_used`
of a subscription is never negative. The other results rest on one invariant,
`Balanced`, proved in `BooksBalance` for any faults:

* `PlaceFits`, `OpFits`, `FieldsFit`: which phase, funding, operation and session
  fields go with which place of a request. Needed because the properties speak
  of finished requests only, while the fields decide on the way what is given
  back.
* `WalletLedger`, `TokenLedger`: what the session says it took is what the row
  lost (of the token at least that, and exactly that without store errors).
  `Ahead` is how far the funding has run ahead of `preConsumedQuota` while a
  `Reserve` or `Settle` is between two accesses.
* `Books`: the same for the whole charge and the subscription, for a request
  whose accesses succeeded, through fallback, reserve, undo, settlement and
  refund.
* `CheckFits`: what is charged to the wallet was compared with a wallet that
  held at most `InitWallet`; `WalletAdds`: the wallet is `InitWallet` less the
  sum of what the requests paid; `UsageFits`: the usage stays within the total,
  so that only an increase can be refused.

A step of one request leaves the others alone (`OthersStep`), so each part is
shown for the acting request, one leaf per action. From `Balanced`:
`BillingExactCharge`, `BillingNeverOverRefunded`, `BillingSettledIsFinal`,
`BillingOverdraftNeedsRace`. `BillingSubUsageBacked` needs that every access
succeeds (`Faults \subseteq {"crash"}`): with a failing store a session may give
back more of the subscription than it took, which TLC shows; crashes are
allowed.

The proof of `OverdraftNeedsRace` failed first, for a good reason: the property
compared a split charge with the whole estimate, and a run with larger amounts
than those of `billing_pair` refuted it. It now compares with `CheckedPart`.

### AdmissionProofs

* `AdmissionTypeOK`: no counter is decremented below zero.
* `AdmissionNothingLeftBehind`, from `PlacesFit`: what the place of a request in
  the attempt loop says about its lease, its target, its reservations and its
  place in a queue.
* `AdmissionActiveIsHeld` and `AdmissionHoldersWithinLimit`: the counters are
  the cardinalities of the sets of leases that have not given them back, and
  within the limits the acquisition compares them with.
* `AdmissionReservedBacked`, from `KeptBacks`: the counter is at most the sum of
  what the requests carry in their contexts.
* `AdmissionQueueDepthsAgree` and `AdmissionQueueBounds`, from `DepthsCount` and
  `BoundsHold`: the depth is the number of waiters, group by group; the
  policy's subtraction of group depths therefore gives the normal waiters.
* `AdmissionNoOvertaking`, from `TicketsDrawn` and `TurnsHold`: a waiter that has
  seen its turn still is the first of its class when it takes the slot, because
  who enters meanwhile draws a larger number.

### CircuitProofs

* `CircuitTypeCorrect`: type correctness. Lemmas state that each operator on a
  circuit returns a circuit; each action then reduces to one of them.
* `ProbeBudgetHolds`: `Spec => []ProbeBudget`. The strengthening `ProbeInv` adds
  that an attempt without a decision has no slot, that slots belong to this or
  earlier periods, and that a half-open circuit is in a period; without the
  first an attempt could be counted twice, without the second a new period
  could begin with used slots. All operations but `AllowProbe` are shown to
  take no slot (`TakesNoProbe`), so one lemma covers them; `AllowProbe` adds one
  element to a finite set.
* `OpenCircuitRespected`: `Spec => OpenIsRespected`, an action property, from
  `SnapshotInv` (whoever decided on a closed circuit that is open now decided
  before its last opening) and `OfferedInv` (events on their way to the breaker
  belong to attempts that reported, never to one of the legacy selector).
* `OnlyLostProbesBlock`: `Spec => []StuckOnlyByLostProbe`, from `ProbeInv` and
  `AnsweredInv`: the successes of a half-open period cover its answered probes
  and stay below the budget, so a circuit without slots has an unanswered one.
* `FailureRatesAreRates`: `Spec => []RatesAreRates`, a sum over the kinds of
  errors, by `SumOfChange`.

### TaskProofs

`TaskTypeOK` holds of every task. The money theorems have the hypothesis
`Guarded`: the final status is only set by an update that is guarded by the
status that was read. It admits the video loop, sweep, several nodes, crashes,
failed accesses, a Gemini task that a user fetches while it is not swept or
failed in bulk, and Midjourney without its notification hook and without
contradictory answers. It leaves out `updateSunoTasks` and the hook, which save
unconditionally; contradictory Midjourney answers, which are refunded without a
final status or saved without a refund; and the fetch of a task that the sweep, an
error document or a bulk failure may have finished, for which a double refund is
real (section 12). What the properties say of the tasks that one node polls
(`Alone`) stays with TLC, in the scenarios of `MCTask`.

* `PlacesFit`: what each node and fetcher has read, and that a success in the
  row is the provider's. `RowMove`: how the row of a guarded task may change.
* `Money`: nobody touches the charge before the status is final, and one node at
  most afterwards (`OneBills`), whose progress through funding and token accounts
  for the difference between the submission's charge and the outcome's.
* From these `TaskNoDoubleRefund`, `TaskOutcomeBilled` (with the exceptions
  `faulty` and `outside` of the property) and `TaskFinalIsFinal`.

### OrdersProofs

* `OrderTypeCorrect` and `OrderLockExclusive`: `Spec => []LockIsExclusive`. Mutual
  exclusion is not inductive: a handler could wait on a mutex that was deleted
  while another takes a new one. `LockInv` adds that handlers refer to the mutex
  in the map of their process exactly between `LockOrder` and the end of
  `UnlockOrder`, that processes share none, that who is inside owns it, and that
  its count is the cardinality of its users; so it is deleted only when unused.
* `OrderRefinesOnce`: in one process `Orders` implements `OrderOnce`, if every
  request takes the lock or the database serializes, and Epay meets no failure.
  From `LockInv` and `OrderInv`: whoever is about to write on the strength of a
  pending row works alone, so the row is still pending. Initial states map to
  initial states; `OrderStep` maps every step to `Complete`, `Close` or a stutter.

### TokenCacheProofs

* `TokenCacheTypeOK`, with `FlightFits`: a node has a load in flight exactly
  while its leader answers.
* `TokenCacheDeltasBooked`, from `TakenOnce` (an updater that applies nothing
  holds nothing, so taking the next batch loses none) and `RowBooked` (row plus
  the sum of the deltas on hand).
* `TokenCacheDeleteIsImmediate`, from `Deleted`: once a deletion is done its node
  has no hot copy, and Redis none when its goroutine is done too.

### AutomationProofs

* `AutomationTypeOK`; `AutomationFinishedStays` and `AutomationOneActiveJob`, from
  `JobsMove`: a step leaves the rows alone, adds one for whose kind and key no
  active job is found (`Fresh`), or replaces one, keeping kind and key, and a
  finished one only by `Retry`.
* `AutomationSuccessHasResult`, from `WorkFits`: the place a worker has reached
  fits the kind of its job, and a worker about to report success has the job's
  result, even if its lease is lost.

### Only model-checked

Liveness: `Termination` of sessions and of admitted requests, `TaskEnds`,
`PaidIsCredited`, `JobEnds` and `DeletedIsForgotten`; fairness and `ENABLED` are
out of the prover's reach. And the money properties of the tasks that `Guarded`
leaves out, in the scenarios where they hold.

## 12. Disagreements between code and documentation

Shown by runs; `PROJECT.json` quotes the lines:

1. `SubRefundIdempotent`: `RefundSubscriptionPreConsume` gives usage back in a
   transaction of its own before it marks the record. When marking fails, the
   retry gives it back again.
2. `CreditedOnce`: the row lock that the order transactions ask for is not taken,
   and `LockOrder` reaches one process only; two processes credit an order twice.
3. `SuccessIsWritten`: a refresh whose writeback failed succeeds on its retry
   without a writeback, because it finds the credential it had linked.

Met while modelling, and named as exceptions in the properties:

* `needsRefundLocked` (`service/billing_session.go:134`) does not look at what a
  wallet funding consumed: a failed playground or channel-test request, which has
  no token billing, keeps its pre-consume.
* A split settlement that fails half-way (`service/funding_source.go:140`) is
  repeated in full by the next one.
* `docs/model-gateway/retry-routing-intents.md:37` lets higher priorities go
  first; a waiter that has passed its turn check takes the slot although one of
  higher priority has entered since (`queue_manager.go:296`).
* `docs/model-gateway/smart-scheduler-overload-isolation-plan.md:396` says that
  overload does not open circuits; the settings add a policy by which 429 does
  (`settings.go:205`).
* A user's fetch of a task that the sweep failed and refunded may revive it
  (`relay/relay_task.go:477`): the guard compares with the status that was read,
  final or not. When the task fails again it is refunded again.
* A late Midjourney notification reopens a refunded image
  (`relay/mjproxy_handler.go`), and two nodes that poll a song both refund it. A
  Midjourney `FAILURE` below 100% without a reason (`controller/midjourney.go:169`)
  is saved and not refunded; it is polled on, and when a reason or 100% follows,
  two nodes both refund it.
* Any Waffo status other than `PAY_SUCCESS` closes a pending order; the comment at
  `controller/topup_waffo.go:380` speaks of terminal failures. If the order is paid
  after all, nothing is credited.
* `CompleteSubscriptionOrder` (`model/subscription.go:526`) turns every read error
  into "not found", and `CreemWebhook` then answers 200: Creem does not repeat the
  notification of a subscription that was paid.
* The smart selector's fallback ignores circuits
  (`integration/channel_selection.go:84`): an open circuit keeps requests away only
  while the smart selector has another candidate.
* `POST /api/jobs` without an idempotency key adds a second active job
  (`token-account-automation/internal/queue/service.go:157`).

## 13. What is not modelled

The repository has some 190,000 lines in 700 files. Most of them transform data
(provider adaptors, conversions, prices), edit single rows (administration),
report (observability, profit monitor) or draw the console; they keep no shared
state whose order of changes matters, and a model of them would repeat them.
The modules cover the parts that do. Of those, left out and why:

* Synchronized runtime state (`synced_runtime.go`): nodes publish circuits in a
  store; `AllowProbe` reads, takes a local slot and publishes in three steps, so
  the probe budget holds per process only. `CircuitBreaker` is one process.
* Learning of concurrency limits (`channel_concurrency.go:713`): a lowered limit
  recovers through a state that the early returns of the cooldown never create.
  The limits are constants here.
* Replacement of the queue manager when the settings change (`relay.go:98`): for a
  while turns are decided in two lists. `ChannelAdmission` has one.
* `RelayTask` (`relay.go:3337`): it shares `getChannel`, so it takes selection
  reservations, and releases none of them. `TaskBilling` starts after it.
* Streams (`stream_scanner.go:122`): a goroutine that outlives the five second
  wait goes on during the next attempt. Attempts here end at one moment.
* Sticky routing and affinity, rate limiters, channel keys and abilities: they
  narrow or refuse a selection that is already a free choice here.
* The user cache: the same two levels as the token's. Creation of orders, prices
  and signatures. Desktop jobs, profiles and encryption of the automation
  service. The realtime and audio quota paths, the violation fee, the reset of the
  retry counter when an automatic group is exhausted, scoring of candidates.

`PROJECT.json` gives the reason for each component.
