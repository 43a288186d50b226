# Verification of the WhatsApp gateway

TLA+ models of the parts of this gateway that are hard to test: what several processes, timers, crashes and
half-failed queries do to each other. Each model is checked with TLC on small instances, and the results that
matter most are proved with TLAPS for every number of nodes, sessions and deliveries.

- [What is modelled and proved, in one page](#summary)
- [The system](#the-system): components, state, operations, interactions, hazards
- [Modules](#modules): how the definitions correspond to the code
- [Runs](#runs): bounds, fairness, what each shows
- [Proofs](#proofs): assumptions, inductive invariants, argument
- [Disagreements with the comments and the docs](#disagreements) and [observations](#observations)
- [Not modelled](#not-modelled) and [plan](#plan)

Paths are relative to the root of the repository; `session/…`, `webhook/…` and so on stand for
`src/modules/session/…`.

## Summary

| Module | Question | Checked | Proved |
| --- | --- | --- | --- |
| `SessionOwnership` | Can two processes run one WhatsApp account? | mutual exclusion of engines and of `owns()`, the claim under a live engine, refinement of `ExclusiveEngine` | all of it, for every value of the constants, from explicit bounds on clocks and delays |
| `WebhookDelivery` | Can an event vanish between outbox, limiter, queue, failure table and reconciler? | accounting, refinement of `Outbox`, the limiter's counters, a clean shutdown, settling and draining | types, limiter, accounting, refinement, clean shutdown; with fewer faults than replays in the budget also rows given up on; when the claims of two violated runs do hold |
| `EngineLifecycle` | Do starts, reconnects, controls and the events of replaced engines leave a browser running that nothing reaches, or bring down the wrong one? | six safety invariants over one session's engines, and where they end: a start beside a reconnect attempt | all of it |
| `BulkMessages` | Is a recipient sent to twice, does a cancel hold, is the cap on batches safe? | sends, cancels, results, reservations, due batches start | types, reservations, cancels, sends, sends after a cancel, results |
| `ScheduledMessages` | Is a message sent again, does a series split or end? | resends, successors, the end of a series, SENT is final, due messages settle | types, resends, successors, the end of a series, SENT is final |
| `IngressFabric` | Can an acknowledged event vanish between row, job, dead letter, reconciler and redrive, or be delivered twice? | accounting, single delivery, settling | types, accounting, single delivery |

Five runs end in a violation on purpose. They show that the code does not do what one of its comments or docs says.

## The system

A NestJS server that runs WhatsApp sessions (each one an *engine*: whatsapp-web.js in a browser, or Baileys),
offers them over HTTP and WebSocket, and tells subscribers about events by webhook. Several processes may share
one database and one Redis (`docs/13-horizontal-scaling.md`). Within a process everything is one event loop:
between two `await`s a handler is atomic, and at each `await` any other handler may run. So the step of a model
is the code between two awaits.

### Components

**Session ownership** (`session/session-ownership.service.ts`).
State: `sessions.nodeId` and `sessions.leaseExpiresAt` in the database; the set `owned` and the map `deadlines`
in memory, with a timer for each.
Operations: `claim`, `renew` (heartbeat: UPDATE, find, conclude), `release`, `releaseAll`, `expireLocalLeases`,
`owns`, `isHeldByOtherNode`.
Interacts with: the session service (claims before it starts, hands back when it is done), the engine lifecycle
(which must stop an engine whose session is lost, and asks `owns()` in front of every callback).
Hard: two clocks, UPDATEs that execute late, a heartbeat cut in three by its awaits, teardowns that take up to
10 s, a crash at any await and a restart under the same `nodeId`.
Correct when: one engine per session over all processes; `owns()` true on one process at most; no engine on a row
nobody holds.

**Session service and controls** (`session/session.service.ts`, `session/session-engine-controls.ts`).
State: session rows; the order of the calls below.
Operations: `start`, `stop`, `logout`, `forceKill`, `delete`, `onModuleDestroy`, auto-start at boot.
Hard: `start` and `stop` of one session overlap; `stop` fails halfway.
Correct when: a claim is handed back only if nothing runs under it, and is not kept for ever otherwise.

**Engine lifecycle** (`session/session-engine-lifecycle.service.ts`, `session-lifecycle-fences.ts`,
`reconnect-policy.ts`, `session-liveness-watchdog.service.ts`, `session-engine-event-wiring.ts`,
`takeover/session-takeover.service.ts`).
State: maps of engines, starts in flight, pending teardowns, reconnect timers and stop marks.
Operations: initialise, reconnect with back-off, watch for silence, evict, tear down with a deadline; once a sweep
interval, take over the sessions of dead peers.
Hard: events of an engine that has been replaced; a reconnect timer against a manual stop; the watchdog against a
slow but healthy engine.
Correct when: callbacks of a replaced engine change nothing; a stopped session stays stopped; the sessions of a
dead node come back on one peer.

**Webhook delivery** (`webhook/webhook-delivery.service.ts`, `webhook-outbox.service.ts`,
`webhook-reconciler.service.ts`, `utils/record-delivery-failure.ts`, `src/common/utils/concurrency-limiter.ts`).
State: `webhook_outbox_events` (state, attempts, payload), `webhook_delivery_failures`, the limiter's active count
and line, the sets of deliveries in flight.
Operations: dispatch an event to each matching webhook; open its outbox row; pass the limiter; preflight (plugin
hook, size gate); enqueue or post with retries; record a failure; close the row; sweep stale rows and replay them;
prune; close and drain on shutdown.
Hard: a crash at each of those awaits, sweeps of several nodes beside the live run, best-effort bookkeeping whose
errors are only logged, a limiter that hands its slot over.
Correct when: nothing is retired that is neither delivered, carried by a job, reported nor dropped on purpose; the
limiter does not leak; a shutdown abandons nothing; a recorded delivery is retired in the end.

**Webhook queue worker** (`queue/processors/webhook.processor.ts`).
State: BullMQ jobs. Operations: process an attempt, retry with back-off, fail and record; record a job the queue
failed after stalls. Hard: `add()` acknowledged too late; a worker that dies in the middle.

**Scheduled messages** (`message/scheduled-message.service.ts`).
State: rows PENDING, SENT, FAILED, CANCELLED; the sweep's guard.
Operations: create, update, cancel, dispatch, recurrence, due sweep.
Hard: each handler reads a row, awaits, and saves all of it, so two of them overwrite each other; a crash or a
failed save between the send and the SENT.
Correct when: a message is sent once; a cancellation that was answered is never followed by a send; a delivered
message is not FAILED.

**Bulk messages** (`message/bulk-message.service.ts`).
State: batch rows with progress; in memory, cancel marks and the count of batches in flight.
Operations: create, process, cancel, defer without an engine, due sweep, finalise, fail orphans at boot and on
takeover.
Hard: a batch is started by its creation and by the sweep; progress is written from stale reads; reservations are
taken twice and given back once.
Correct when: one loop per batch, each recipient once, a cancelled batch stops and stays cancelled, the counter
returns to zero.

**Outbound messages and pacing** (`message/message-send.service.ts`, `send-pacing.service.ts`,
`pending-message-reaper.service.ts`).
State: message rows, per-session tallies and circuit breaker. Hard: caps are counted before the row that would
count is written; the reaper fails a row whose send is still under way.

**Integration ingress** (`integration/ingress*.ts`, `redrive.service.ts`, `ordering-lock.ts`,
`queue/processors/ingress.processor.ts`).
State: de-duplication rows with their payload, dead letters, jobs, a lock per conversation and process.
Operations: receive, enqueue or dispatch inline, mark, reconcile, redrive.
Hard: the mirror of the webhook outbox (crash between the row and the job), and order within a conversation.

**Plugin host and hooks** (`src/core/plugins/sandbox/plugin-worker-host.ts`, `plugin-lifecycle.ts`,
`src/core/hooks/hook-manager.service.ts`).
State: the worker, pending requests by id, capability calls in flight. Hard: a time-out racing the answer, the
exit of a worker, a slot freed while the work goes on.

**In-flight body budget** (`src/config/inflight-body-budget.ts`).
State: bytes reserved in total and by client. Hard: five events may release one reservation.

**Session scheduler and proxying** (`session/session-scheduler.service.ts`, `session-proxy.interceptor.ts`).
State: none of its own; writes back whole configurations it read earlier.

**Message projection** (`session/message-projector.service.ts`, `src/common/utils/keyed-mutation-queue.ts`).
State: stored messages; a promise chain per message. Ordered by construction of that chain.

The rest keeps no protocol: engine adapters (I/O with two libraries, but for the latch that silences an engine in
teardown, which `EngineLifecycle` has), authentication and billing, automation and
agent tools, the events gateway, data import and export, the HTTP modules for groups, contacts, channels, labels
and status, search, statistics, audit, settings, templates, cache, storage, rate limits, database set-up, the
dashboard and the SDKs. `PROJECT.json` lists each with the reason it is left out, and lists every hazard at its
line with the properties that would notice it go wrong.

### How they interact

```
 HTTP start/stop --> session service --claim/release--> session ownership --UPDATE--> sessions row
                          |                                   ^    | lost sessions
                          v launch                    owns()  |    v
                     engine lifecycle <-----------------------+-- stopOrphanEngines()
                          | engine events
                          v
                     webhook delivery --> outbox row --> limiter --> preflight --> POST | queue --> worker
                                             ^                                        \            /
                          reconciler sweep --+                                     failure rows <-+

 engine registry --is there an engine here?--> scheduled poll, bulk loop  --> their rows, guarded or saved whole
 engine regained on a node --------------------> reapers of bulk batches
 provider POST --> dedup row --> job | inline --> plugin        dead letters <-- worker, live request, reconciler
                      ^ reconciler sweep                            | redrive --> job of its own
```

## Modules

### SessionOwnership

One module for the ownership service, for the handlers of the session service that claim and hand back, and for as
much of an engine as ownership can see.

| Variable | Code |
| --- | --- |
| `rowNode`, `rowLease` | `sessions.nodeId`, `sessions.leaseExpiresAt` (0 for NULL) |
| `owned`, `deadline` | `SessionOwnershipService.owned`, `.deadlines` (0 for no entry) |
| `claims`, `clears`, `renewals` | calls that wait for the database, each with the timestamp it took before |
| `engine` | `none`; `starting`: in the lifecycle's starts in flight; `live`: registered, or waiting to reconnect; `closing`: its teardown is awaited |
| `closeBy` | when the time-out of that teardown strikes |
| `handBack` | handlers on their way to `releaseUnlessEngineActive()` |
| `mode`, `now` | life of the process; real time. `Clock(n)` is `Date.now()` on `n` |

A query is two or three actions: `SendClaim` takes the timestamp, `GrantClaim` is the conditional UPDATE executing,
`AcceptClaim` the continuation in `claim()` and the synchronous entry into the engine start; `DropClaim` is an
UPDATE that matched nothing or an answer that got lost. In the same way `BeginRenew`, `ExecuteRenew`, `FindKept`,
`ConcludeRenew` and `FailRenew` cut a heartbeat at its awaits, and `HandBack` and `ExecuteClear` a release.
`LoseSessions` is what every path does that loses sessions: the bookkeeping, and the start of the teardown.
`Restart` is a crash, or the end of a shutdown, followed by a process with the same `nodeId`; a process that stays
down is one that takes no further step.

Four constants are assumptions on the environment rather than settings:

- `Skew`: no clock is further ahead of another (NTP);
- `Latency`: an UPDATE executes at most this long after its timestamp was taken (`Tick` stops otherwise);
- `Serial`: a node does not overlap a start with a hand-back of one session. The code does not see to it: see the
  first disagreement below. It also excludes starts while the process shuts down, which Nest still lets in because
  `onModuleDestroy` runs before the listener closes;
- `Prompt`: timers fire before time moves on, that is, the event loop is not blocked for long.

`ExclusiveEngine` is the abstract specification: the nodes that run a session's engine take turns. An engine opens
only where none runs, and any set of a node's engines may close. `SessionOwnership` implements it with
`running[s]` as the set of nodes whose engine is live or closing.

Left out: `suspendLossDetection` (an import on SQLite), read-only scans, the record's status and other fields, a
browser that survives a failed teardown, an UPDATE sent before a crash that lands after the restart, a lease that runs
out unnoticed while a heartbeat awaits the teardowns of those it found expired.

### WebhookDelivery

A delivery is one event for one webhook, which the code names by the pair (webhookId, idempotencyKey).
`deliverOne()` is run for it by the live dispatch and by the sweep of any node, so `run` is indexed by deliveries
(live runs) and by nodes (replays).

| Variable | Code |
| --- | --- |
| `config` | the deployment, chosen at the start from `Configs`: the queue or direct delivery, the processes, the budgets, and a bound on crashes, shutdowns and failed queries |
| `row`, `attempts`, `born` | `webhook_outbox_events.state`, `.attempts`, `.createdAt` as a rank |
| `failures` | number of `webhook_delivery_failures` rows of the delivery |
| `jobs` | BullMQ jobs; `made` and `stalls` are `attemptsMade` and the stall counter; `count` and `insert` are the two queries of a failure record |
| `run[w].at` | which await of `dispatch()` or `deliverOne()` the run is at |
| `slots`, `waiters` | `ConcurrencyLimiter.active`, `.waiters` |
| `mode` | of a process: `up`, `draining` in the loop of `onModuleDestroy()`, `leaving` once the loop is over |
| `late` | history: deliveries that came to the limiter of a process that was leaving |
| `sweepAt`, `sweepList` | where a sweep is, and the rows it has yet to handle as `findStale()` read them: with the attempts of that time |
| `received`, `dropped`, `stalledOut` | history: the receiver has it; it was dropped on purpose; the queue gave the job up itself |
| `faults` | crashes, shutdowns and failed queries so far |

`Open`, `Admit`, `Preflight`, `Enqueue`, `Post`, `CountFailures`, `InsertFailure` and `ConcludeDispatch` are the
awaits of a live run in order; `Admit` is the limiter with its two refusals, which leave the row pending and record
a failure outside the limiter. `BeginSweep`, `CloseSpent`, `FindWebhook`, `CloseUnsubscribed`, `CountAttempt` and
`ConcludeReplay` are the sweep. `TakeJob`, `ProcessJob`, `CountJobFailures` and `InsertJobFailure` are the worker.
`BeginShutdown`, `DrainEnds`, `Exit` and `Crash` are the life of a process; `Reboot` says what survives it. The loop of
`onModuleDestroy()` looks at the slots and the pending records until both are clear, and does not look again
(`DrainEnds`). Between that and the end of the process a dispatch may still come to the limiter, above all one whose
`outbox.open()` was not answered at the last look. Without the queue the limiter refuses it, and the process may be gone
before the refusal is recorded; with the queue it may be admitted, and be gone before it is enqueued. The row is pending
in both cases, and the sweep's.

What the environment may do: a POST may reach the receiver although no 2xx came back; `add()` may reject although
the job is in the queue, in which case the code posts directly as well; a subscription may vanish at any lookup;
while `StoreFails`, any query of the bookkeeping that the code wraps in a catch-and-log may fail.

`Outbox` is the abstract specification: the row of a delivery is written once and then settled, as dispatched only
with something to show for it, or as failed. A settled row may be settled anew by a slower hand, since `close()` does
not ask for the state it overwrites, but it is never pending again; and what there is to show stays.
`WebhookDelivery` implements it with the same `row` and `shown` as the deliveries that are `Accounted`.

Left out: `pruneSettled` and the retention of failures (they delete rows that are settled), a second dispatch under
one key, webhook CRUD, payloads, filters and signatures. The queue never refuses a job as a duplicate, because each
`deliverOne()` makes a deliveryId of its own and the job id contains it.

### EngineLifecycle

The engines of one session in one process, by identity. `SessionOwnership` looks at the same code from outside: there an
engine is something a node has; here it is one of several objects of which the registry names at most one.

| Variable | Code |
| --- | --- |
| `registry` | `EngineRegistry`'s entry for the session |
| `engine` | the objects: `down`, `launching`, `linked`, `dropped`, `mute` (its connection died without an event), `doomed` (evicted, killed by a call nobody awaits) |
| `mark` | `stoppingSessions` has the session |
| `retry` | `reconnectStates`: the timer (`dormant` as `start()` sets it up, `armed`, `spent` once fired) and the attempts |
| `launch` | `start()` and `executeReconnect()`: the await each is at and the engine in its hands |
| `control` | `stop()` (and `logout()`), `forceKill()`, `delete()`, `stopOrphanEngines()` and a rebind: the same |
| `reports` | engines whose `handleEngineDisconnected()` awaits the lookup of the row |
| `row`, `owned` | `sessions.status`; `owns()` |
| `beside` | history: a start was accepted, or a timer fired, beside an attempt; a start was accepted beside a delete |

`StartAccepted`, `StartBuilds`, `StatusWritten`, `InitResolves`, `InitRejects`, `InitTimesOut`, `Check` and `Reaped`
are the awaits of a start; `TimerFires` and `AttemptBuilds` lead a reconnect into the same ones, and the operator
`Throws` is where their catch blocks differ. `Request`, `Capture`, `TornDown`, `Written` and `Cleared` are the
controls, with the differences between kinds inside. `Ready`, `Drops`, `Errs`, `Rebind`, `Reported`, `GoesMute` and
`Watchdog` are what engines do and what is noticed of it.

`TearingDown` is the adapters' own latch: `tearingDown` in `src/engine/adapters/wwebjs-lifecycle.ts` (set at 828, asked
for at 604, 691 and in front of every other event) and `intentionalClose` in `baileys-lifecycle.ts`. An adapter in
teardown reports nothing any more, and is not used again.

A start does not wait for an attempt or a delete that is at work, and `beside` remembers that it came upon one.
`Overtaken` (a start or a second attempt came upon an attempt) is where five of the properties end: from there two
launches build engines for one registry, and `engine_overtaken` shows what becomes of it. What `StoppedIsDown` says of a
deleted session ends where a start came upon the delete; what it says of a stopped one does not end. `excused` becomes
true where something else happens that the code does not make up for (a timer fires while a start is under way, a late
report meets an attempt that is destroying that engine, a lookup or a delete fails); `DropIsPending`, `HealthyIsKept`,
`FailedIsStartable` and the half of `StoppedIsDown` about deleted sessions then say nothing. The observations below say
what happens in each case.

Left out: the fence on pending credential teardowns; a teardown that neither ends nor kills (its escalation is merged
into it); two missed probes of the watchdog are one; `start()`'s
retry of a transient error is another start; QR and authentication statuses; the concurrency cap; shutdown, which
`SessionOwnership` has. Status writes nobody awaits land at once.

### BulkMessages

The batches of one session. `processBatch()` is called by `createBatch()` and by the sweep of any node, so a run is
named by its node, its batch and its caller.

| Variable | Code |
| --- | --- |
| `row`, `schedule` | `message_batches`: status, index, counts; `scheduledAt` as none, to come, come, or past from the start |
| `run` | each run's await and the copy of the row it works on |
| `flag` | `processingBatches` of each process: not set, run, stop |
| `inFlight`, `creating` | `inFlightBatches`; creations between their reservation and their insert |
| `cancel` | `cancelBatch()` between read and write, with its copy |
| `reaper`, `reaping` | the reapers at boot and on takeover, with the rows they read |
| `owner`, `connected` | lease and engine of the session, as `EngineRegistry.get()` answers on a node |
| `others` | how many batches of sessions without an engine are due |
| `delivered`, `late` | history: sends to each recipient; sends after the row became CANCELLED |

`Guarded` is `update(..., {status: Not(CANCELLED)})`, and other writes save whole copies. `ReadBatch`, `MarkProcessing`,
`CheckFlag`, `Sent`, `SendFails`, `SaveProgress`, `Reread` and `WriteFinal` are the loop; `FinalStatus` the rule that
ends it. `Sweep` is its query and the loop over the answer in one step: nothing is awaited between them. The query takes
ten due rows (`Take`) in no order, so a sweep finds any `Page` of them. Those of a session without an engine are
`others`: a run of one puts its row back as it was, and the next sweep finds it again. A sweep asks for no place under
the cap.

### ScheduledMessages

The rows of one session. Each process has one `dispatchMessage()` for a row at most (`executing`), called by its poll
or by `sendNow()`.

| Variable | Code |
| --- | --- |
| `row` | status, `scheduledAt` as now or later, `recurrence` as what it makes of that date: `none` (no rule, or frequency none), `last` (the next occurrence is after `endDate`), `open` |
| `list` | what the poll of each process has read and not visited |
| `call` | `dispatchMessage()` at its awaits, with the copy it read |
| `edit` | `update()`, `cancel()` or `remove()` between read and save, with the copy |
| `accepted`, `successors`, `excuse`, `severed` | history: sends; rows of the series; reasons for a further send; messages whose series something else than the rule cut short |

A TypeORM `save()` writes the columns that differ from the row and inserts a row that is gone: `Save` puts the whole
copy there. `Reread`, `Gate`, `Accept`, `Refuse`, `SaveSent`, `SaveFailed` and `Recur` are the awaits of the dispatch.
`cut` is a send whose engine was destroyed under it, `lost` one that was accepted and whose row could not become SENT.
An `excuse` is counted where the code cannot know better: between the engine's taking the message and the save of SENT
its node crashes, loses the lease, or fails both that save and the one as FAILED; the node loses the lease and has it
back while the dispatch waits in front of the engine; or an edit queues a row that was not pending. `MaxRequests` bounds
the `sendNow()` calls at work at once, `MaxTroubles` edits and faults together.

`Recur` is `handleRecurrence()`: it leaves a successor if the copy it was called with has an `open` rule, and returns
otherwise. An edit may change the rule. A message is `severed` where a successor is due and does not come: the save of
it fails, the node crashes in front of it, or an edit gives the rule to a row that was sent already.

### IngressFabric

Events that providers post to plugin instances. Three runners drive an event: the live request, the sweep of each node,
and a redrive of dead letters. All call `enqueue()`.

| Variable | Code |
| --- | --- |
| `row`, `born` | `ingress_events`: state, `dispatchAttempts`, and the order of creation |
| `letters` | `integration_delivery_failures`: open or with `redriven` set |
| `jobs` | the ingress queue; letter 0 is the job named by the delivery id, others by the dead letter |
| `run` | runners: the await, the result of `enqueue()`, the list each works through as it was read |
| `enabled`, `up` | the instance is enabled; the processes that run |
| `delivered`, `disturbed` | history: handlings by the plugin; events that a fault or two runners at once had to do with |

`Receive`, `Mark` and `WriteLetter` are the request; `BeginSweep`, `ResolveInstance`, `CloseReplayed`,
`RetireLetters`, `Charge`, `CountLetters`, `SaveLetter` and `CloseFailed` the reconciler; `BeginRedrive`,
`RetireEvent` and `RetireLetter` the redrive; `ProcessJob`, `SaveJobLetter` and `Stall` the worker; `Add` and
`DispatchInline` are `enqueue()`. A queue that is switched off is an `add()` that always rejects.

Left out: the lock that orders a conversation, retention and pruning, the eviction of finished jobs after their hour
or day (`queue/queue.module.ts:63-66`), the cool-down between replays, a redrive's own update of attempts, so a redrive takes
the open letters in any order. A failing
query is one that did not execute, save for the insert of the row. A worker that dies after handling a job is covered
by the handling that is reported as failed.

`MCSessionOwnership`, `MCWebhookDelivery`, `MCEngineLifecycle`, `MCBulkMessages`, `MCScheduledMessages` and
`MCIngressFabric` hold what the configurations need and nothing else: model values, clock offsets, initial situations
and symmetry sets. The module `…Proofs` of a component holds its theorems and their proofs.

## Runs

All runs set `CHECK_DEADLOCK FALSE`: every model is bounded (by `MaxTime`, or by the deliveries, batches, messages or
events there are and the number of faults), and stops when the bound is reached or nothing is left to do.

| Run | Checks | Shows |
| --- | --- | --- |
| `session_ownership` | `TypeOK`, `OwnsExclusive`, `EngineExclusive`, `OwnsBacked`, `ClearsAreIdle`, `LiveIsClaimed`, `ImplementsExclusiveEngine` | with serial calls and prompt timers, two nodes never run or believe they own one session |
| `stop_races_claim` | `LiveIsClaimed` violated | a stop that does not see a start awaiting its claim releases the claim under it |
| `skewed_clocks` | `EngineExclusive` violated | a lead of less than one lease is enough to take a live session over |
| `webhook_replay` | `DispatchedIsAccounted`, `FailedIsAccounted`, `ImplementsOutbox`, `AccountedIsStable`, `Settles`, `QueueDrains` | one delivery, direct on two nodes whose sweeps and live run share its row, or queued with lost acknowledgements, duplicate jobs, retries and stalls; a crash or shutdown anywhere |
| `webhook_fanout` | `TypeOK`, `SlotsAreRuns`, `ShutdownIsClean` | three deliveries through one slot and one place in line, with failing queries |
| `engine_lifecycle` | `TypeOK`, `NoOrphan`, `LeaseCovers`, `StoppedIsDown`, `DropIsPending`, `FailedIsStartable`, `HealthyIsKept` | a start, a reconnect and two overlapping controls with late events of replaced engines: until an attempt is overtaken no engine is left that nothing reaches, a stopped session stays down, a drop is followed up and never hits the engine that came after |
| `engine_overtaken` | `StartOrphansNothing` violated | a start is accepted beside an attempt whose timer has fired, and one of the two engines is left that nothing reaches |
| `bulk` | `TypeOK`, `ReservationsCover`, `SentOnce`, `LateSendsBounded`, `CompletedIsExact`, `CancelledStays`, `DueStarts` | a batch sent at once or later, cancelled, reaped and taken over at every await, beside batches nobody can send, with one fault |
| `scheduled` | `TypeOK`, `ResendIsExcused`, `SeriesDoesNotFork`, `SeriesContinues`, `SentStays`, `DueSettles` | two nodes' polls and requests over a message and its successor, with or without a rule, with one edit or fault |
| `ingress` | `TypeOK`, `LossIsKnown`, `DeliveredOnce`, `PendingSettles` | request, sweep, redrive and worker over an event: what was acknowledged is forgotten in two named ways at most |
| `failure_reported_twice` | `ReportedOnce` violated | two recorders both count none and both insert |
| `budget_spent_unreported` | `FailedIsReported` violated | restarts spend the replay budget; the row is closed with nothing to show |

### Bounds

`session_ownership` has two nodes (exclusion is about pairs), one session (sessions interact only through the sets
a heartbeat and a shutdown handle together, which the proof covers for any number), TTL 3 and so a grace period of
1, which is exactly the teardown time plus `Latency` plus `Skew`: one less in the code and `EngineExclusive`
fails, as its mutant shows. The clock stops at 5, so a lease can lapse, be taken over and lapse again. `MaxCalls` 2
lets any two queries race, including two claims, a claim and a release, and a heartbeat against either. `Latency`
and `Skew` are 0 in this run: queries still interleave in every order within a unit of time; what a late UPDATE or
a skewed clock adds is arithmetic, and is where the theorems go beyond the run.

`skewed_clocks` has a TTL of 6 and a lead of 5, which is below the TTL and above the grace period of 2.

`webhook_replay` (733,937 states) has one delivery and starts in two deployments. `Direct` has two nodes without the
queue: the races are between runs of *one* delivery (live, and a replay on each node). Its budget is two replays with
one fault, so one replay may be cut short and the budget still allows a whole one; with as many cut replays as the
budget has, `FailedIsReported` is false, which is the fourth disagreement. `Queued` has one node with the queue and two
faults: a job can stall twice, which is what the queue's own failing of a job needs, and two job ids let a duplicate be
alive beside the first. `GraceCovers` is FALSE: the default grace period of a minute is shorter than the retries of a
direct delivery, so live deliveries do get replayed. `Direct` retries once, the other deployments twice.
`webhook_fanout` (419,836 states) has three deliveries for one slot and one place in line: one runs, one waits, one is
refused. One fault there is one crash, one shutdown or one failed query; its drain may end while the `open()` of a
delivery is not answered.

`BeginShutdown` counts as a fault, so that the drain of a shutdown is in every webhook run, followed by a boot.

`engine_lifecycle` (2,111,296 states up to symmetry) has two engines: one registered or being built and one being
taken down. One reconnect attempt, two controls (a stop against a delete, a kill against a lost lease) and one start
are at work at once; `MaxAttempts` 1 makes both a retry and an exhausted budget happen. An object that nothing refers
to any more serves as a new one, so the number of engines in a behaviour is not bounded, nor are the events and calls.
The run stops where an attempt is overtaken (`CONSTRAINT NotOvertaken`): from there only `StoppedIsDown` says
anything. Without the constraint the same properties hold on 13,563,050 states, which takes longer than a run should;
and the theorems are for all states and any number of engines, attempts and controls.
`engine_overtaken` is the same instance without the constraint and finds its violation after 14 steps.

`bulk` (833,600 states) has two nodes and one batch of two recipients with `Cadence` 1: progress is saved after each
message, so a cancel can fall between two saves, before the first send and after the last. (A larger cadence only leaves
out saves.) A batch has no schedule or a later one; `past` is left to the observations. `MaxInFlight` 1 is the cap that
a scheduled batch uses up. `Take` 1 with at most one batch of a session without an engine (`MaxOthers`) makes a page
that is full and one that is not. One fault: a crash, a lost engine or lease, or a failing query.

`scheduled` (420,166 states) has the created message and one successor, `Take` 1, so the poll has to choose between them,
one request at a time, and one edit, crash, lost engine or failing query. The message is created with any rule. The
safety theorems are for any of these numbers, and so for the races of two requests and of two faults.

`ingress` (471,918 states) starts in five situations: an event that is posted, with a redrive or with a fault to come; an
event behind another that a crash left, with a batch of one, which is what starvation needs; an event left by a crash
before two processes, with a redrive; the same on one process with two faults, which is what a job that stalls twice
needs. Two attempts per job and per row: the first fails and the second does or does not.

### Fairness

`webhook_replay` uses `FairSpec`:

- `WF(LiveStep(d) \/ Deliver(d))` for a live run, `WF(Sweep(n) \/ Deliver(n))` for a sweep with its replay: an awaited
  query or POST is answered or times out (the POST has `webhook.timeout`, the database driver its own), the event loop
  then runs the continuation, and the interval of a process that is up fires. A run and what drives it are one chain of
  awaits, of which one step at a time is possible;
- `WF(Work)`: some worker takes waiting jobs and finishes what it took. It is one condition for the whole queue, not
  one for each job, because BullMQ promises no more;
- `WF(DrainEnds(n) \/ Exit(n))`: a shutdown ends, by its drain or its deadline, and then the process.

No fairness on `Dispatch`, `BeginShutdown` or `Crash`: events need not come and nothing has to break.
Crashes are bounded by `config.maxFaults`; without an end to them nothing settles.

`BulkMessages`, `ScheduledMessages` and `IngressFabric` state theirs in `Spec`, for the same reasons: the steps of a
run, a call or a sweep are continuations of queries and sends that return; the sweeps and polls are intervals. The
sweep of batches is fair only while its page has room for those of the session (`WF(~Starved /\ Sweep(n))`): an
unordered page may leave a batch out each time it is taken. The date of a batch comes (`WF` of `TimeComes`); `DueSettles`
is about messages that are due, so `Tick` needs none. In the first two a session that lost its engine gets one again on
some node (`WF` of `Connect` or `Adopt` by *some* node), which stands for the reconnect, the restart and the takeover sweep, and is an assumption here. Nobody
has to create, cancel, edit or redrive. In `IngressFabric` only sweeps are fair, not the worker, the provider, the live
request or the redrive: `PendingSettles` is the reconciler's alone, because a row is closed by adding the job, not by
the job's end.
`EngineLifecycle` has safety properties only, and no fairness.

### Mutants

Each property of a passing run has a mutant, an operator beside the one it replaces (`LocalDeadlineUngraced`,
`AcknowledgedIdle`, `StartAcceptedArmed`, `SweepUnreserved`, `RereadStale`, `ChargeNothing`, …) with a plausible bug
of that code, and TLC finds the property violated when it takes the original's place. They are not used in any
specification.

## Proofs

`tlapm` checks all proof modules completely. Nothing is assumed except the named `ASSUME`s of the modules and
the hypotheses of each theorem, below. Every theorem is for any sets of nodes, sessions,
deliveries, batches, messages, engines and events and any bounds.

### Ownership

| Theorem | Needs |
| --- | --- |
| `TypeCorrect` | nothing |
| `OwnsExclusiveAlways`, `OwnsBackedAlways` | `Serial`, `Latency + Skew <= Grace` |
| `EngineExclusiveAlways`, `LiveIsClaimedAlways`, `ClearsAreIdleAlways`, `OwnershipImplements` | `Serial`, `Prompt`, `Teardown + Latency + Skew <= Grace` |

The properties are not inductive: that the row names a node says nothing without its lease, and the lease in the
row is not the one the node believes it wrote. The invariant `LeaseInv` is about timestamps:

1. `StampsOfClaims`, `StampsOfClears`, `StampsOfRenewals`: a timestamp in flight is of the past, and that of an
   UPDATE that has not executed is at most `Latency` old.
2. `OwnedHeld`, `GrantedHeld`, `ExtendedHeld` and their kin: whatever a node owns, has been granted or is about to
   acknowledge is a row that names it with a lease that ends at least `Grace - Latency` after the local deadline,
   as long as that deadline has not passed.
3. `ClearsAlone`: no release is in flight for a session the node owns or is claiming. This is where `Serial` enters.

A claim by a peer only matches a lapsed lease, by a timestamp at most `Skew` ahead of the holder's clock, so it
cannot match a row of point 2 (`GrantKeepsHeld`); nor can a release by a peer (`ClearKeepsHeld`). Hence the first
bound. An engine outlives its local deadline by one teardown, so `EngineInv` adds that a live engine's session is
owned (`LiveHeld`) and a closing one's row is held until `closeBy` (`ClosingHeld`), and `Prompt` that neither
outlives its time. Hence the second bound.

For the refinement, `Launch` is the only action that adds a node to `running` (`LaunchOpens`, by `EngineInv` no
other node is in it), and every other step takes some sessions of one node away or stutters (`StepCloses`).

What the bounds mean for the settings: the defaults (TTL 60 s, grace 20 s, teardown 10 s) leave 10 s for clock skew
and slow UPDATEs together. A `stop()` that escalates to a second teardown uses 20 s and leaves nothing.
`env.validation.ts:342-347` only requires a heartbeat of less than half the TTL, so a TTL below 30 s, which it
accepts, gives a grace period below one teardown.

### Webhooks

| Theorem | Needs |
| --- | --- |
| `TypeCorrect` | nothing |
| `SlotsAreRunsAlways` | nothing |
| `ShutdownIsCleanAlways` | the drain's deadline covers what is in flight (`DrainPatient`) |
| `DispatchedIsAccountedAlways`, `AccountedIsStableAlways` | bookkeeping queries do not fail (`~StoreFails`) |
| `OutboxImplements` | `~StoreFails` |
| `FailedIsAccountedAlways` | `~StoreFails`; the property itself speaks of fewer faults so far than replays in the budget |
| `FailedIsReportedAlways` | `~StoreFails`; in every deployment no queue, and `maxFaults + Cardinality(Node) < maxAttempts` |
| `ReportedOnceAlways` | no queue in any deployment, `GraceCovers`, at most one process |

`TypeOK` is not inductive, as `slots` could become negative and a conclusion could hand its slot to a run that is
not parked. `WellFormed` adds where a run may be with which outcome (`RunsWellFormed`) and that slots and line are
exactly those of the live runs (`LimiterWellFormed`, where the line is injective). `AccountInvariant` adds that a
run about to conclude without having failed, and a retired row, are accounted for. The assumption is needed: an
insert into the table of failures that fails is only logged and the row is closed all the same, so the delivery is
gone without a trace.

`ShutdownIsClean` follows from the limiter. At the drain's last look no slot is taken, so nobody holds one and nobody is
parked, as the line is only used while all are taken; and `Drained` waits for a refusal because of the shutdown. Whoever
is at the limiter of a leaving process came there later, and without the queue was refused (`LeftAreLate`, the invariant
from that look to the exit). So what a patient shutdown abandons is what its last look did not see: deliveries whose
outbox row was being written or that were dispatched after it. A row that was written is pending, and a sweep
replays it.

`FailedIsAccounted` is about a budget, so its invariant counts. A replay ends with something to show unless a fault cuts
it off; hence what is charged to a row with nothing to show for it, in `attempts`, in a copy some sweep still holds, or
by a close as failed, is at most `Cover(d)`: the faults so far, plus the replays of `d` at processes that are up
(`Replaying`), less the processes that drain and may still start one (`Ahead`, as their shutdown was counted as a fault
before the replay it cuts off began). Each action keeps that: a charge starts a replay or uses up the place a draining
process had, a replay that ends has something to show, and a fault pays for the one it cuts off. The charge is one more
than the sweep *read*, which may be stale, so `SweepsWellFormed` adds what a sweep knows: each row once
(`ListsWellFormed`), in an order without ties (`BirthsInOrder`). With fewer faults than the budget has replays, a spent
budget leaves a replay that still runs. The condition on the faults, which is part of the property, is needed, and is
what the fourth disagreement is about: every deploy that interrupts a replay is such a fault, and nothing bounds their
number. The theorem says that it takes that many, whatever the sweeps of several nodes do to each other's counts.

`OutboxImplements` goes step by step (`StepIsOfOutbox`). `Open` is `Record`: by `BirthsInOrder` a run that is about to
write the row finds none. A close as dispatched is `Retire`, since whoever closes concludes a run that has something
to show (`ConcludedIsAccounted`); a close as failed is `GiveUp`; a close without a row is a stutter. Everything else
leaves the rows alone, and then `AccountKept` makes it `Show`, of several deliveries at once when a crash fails jobs.

Two theorems say when the claims hold that `budget_spent_unreported` and `failure_reported_twice` refute. Both are
about direct mode, where there are no jobs (`Direct`). `FailedIsReportedAlways`: with faults and processes together
fewer than the budget, the bound `Cover(d)` cannot reach it, even if every process replays `d` just now. Both runs stay
outside: the first has three faults against a budget of two. `ReportedOnceAlways` needs that a failure has one
recorder at a time: with one process there is one sweep, and the grace period keeps it from a delivery whose live run
is not over (`DoneStays`), so who has counted no row is still the only one when it inserts (`RecordsAlone`,
`InsertsAlone`). The second run has two processes.

### Bulk batches

| Theorem | Needs |
| --- | --- |
| `TypeCorrect`, `ReservationsCoverAlways`, `CancelledStaysAlways`, `SentOnceAlways`, `LateSendsBoundedAlways`, `CompletedIsExactAlways` | nothing |

Four invariants. `IInv` is `TypeOK` and `ReservationsCover` with:

1. `NewIsUntouched` and `CreatingIsNew`: nothing refers to a batch that has no row yet, and a creation inserts a new
   row. So the unguarded insert overwrites no cancelled row.
2. `MarkedIsPast`: a run that marked its row never sees it PENDING again, so what it saves does not revive it.
3. `WritesAreTerminal` and `CancelsCancel`: a copy about to be written whole is a final one; that of a cancel says
   CANCELLED.

With these every write to a cancelled row is guarded, writes CANCELLED, or is a reaper's: `CancelledStays`. For
`ReservationsCover` a run that starts is given one place and one that ends gives one back; a creation hands its own to
its run. So `createBatch()` never admits a batch to a process with `MaxInFlight` others at work. It is a lower bound and
no more: the sweep starts batches without asking for a place, and that a place comes back is not said, because it does
not (see the observations). `TypeOK` needs it: the counter never goes below zero because it covers the run that
decrements it.

`SentOnce` says nothing of who may send, so `SentInv` adds for every undisturbed batch (`SentInOrder`) that its row is
PENDING only while nothing is sent; that its runs are the creation's alone, or those of sweeps of which only the
owner's gets past its first read (`RunsAlone`, where `OwnerStays` enters); and that what that run has not come to is
not sent (`AheadIsUnsent`). An immediate batch is undisturbed whatever fails: no sweep picks a row without a date, and
reapers write FAILED.

`LateInv` goes with it: while the single run of an undisturbed batch is still sending, what it has sent since the
cancel is no more than what lies behind its index up to the last multiple of the cadence, as the save there would have
found the cancel (`LateInOrder`). So one period is the most, and a run that has found out sends no more.

`CountInv` is about immediate batches, disturbed or not. A row that no run has marked is fresh, and no reaper holds a
copy of it (`CountsInOrder`); from the mark on, the run's own copy counts what was sent, and has an outcome for all it
came to unless an error stopped it (`CountsKept`). Where it leaves recipients out it was stopped or told to stop, and
writes FAILED or CANCELLED. So what it writes as COMPLETED is exact, and copies that a cancel or a reaper writes back
say CANCELLED or FAILED.

### Scheduled messages

| Theorem | Needs |
| --- | --- |
| `TypeCorrect`, `ResendIsExcusedAlways`, `SeriesDoesNotForkAlways`, `SeriesContinuesAlways`, `SentStaysAlways` | nothing |

`ResendIsExcused` bounds a count that only `Accept` raises, so an invariant has to say why a message that may be accepted
next has not used up its reasons. `IInv` adds:

1. `OpenIsExcused`: a message that may still be sent, because its row is pending or the owner's dispatch is past its
   re-read, was accepted no more often than it has excuses, unless it is covered.
2. `Covered` is a dispatch at the owner that the engine took the message from and that has not said so in the row. No
   other dispatch gets past the gate while there is one, and it ends by saving SENT, by saving FAILED, or by an excuse.
3. `SendsHere`: an engine that is about to take a message is there, and its node is the owner. This is what makes `cut`
   and the lost lease the only ways for the hand-over to go wrong.

`SuccessorsAreAccepted` counts rather than excludes: the successors of a message and the dispatches that are about to
leave one are together no more than its acceptances; `SeriesDoesNotFork` follows from the first bound.

`SeriesContinues` is part of `IInv` and needs nothing else. It is about four writes: `SaveSent` makes the row one of which
a successor is expected, with the dispatch that will see to it (`Continuing`); `Recur` ends that dispatch, with a
successor if the rule has one; a crash or a failing save in between, and an edit that gives the rule to a row already
sent, are in `severed`.

`SentStays` speaks of behaviours without edits and faults so far. `CalmInv` is the invariant of those: the owner and its
engine stay (`SessionCalm`), and only the owner's dispatches get past the re-read and work on a row that stays pending
until they are done (`DispatchesCalm`). It is inductive together with `IInv`, where each first fault makes it vacuous.

### Engine lifecycle

| Theorem | Needs |
| --- | --- |
| `TypeCorrect`, `MarkedIsDownAlways`, `StoppedIsDownAlways`, `FailedIsStartableAlways`, `NoOrphanAlways`, `LeaseCoversAlways`, `HealthyIsKeptAlways`, `DropIsPendingAlways` | nothing |

Nothing is assumed of when a start or a timer comes, or of the number of attempts at once. The properties say themselves
where they end: `StoppedIsDown` of a deleted session where a start came upon the delete, five others where an attempt was
overtaken. Each of these excuses is needed: without it TLC violates the property (`FailedIsStartable` with three engine
objects). `MarkedIsDownAlways` is the half of `StoppedIsDown` that is never excused: once every call is over, a session
that carries the stop mark has no engine.

None of the properties is inductive, as each speaks of the moment when the calls are over or leaves out who has the
engine in hand. The invariant `IInv` follows an engine from hand to hand, in three parts, of which the second and third
hold up to the step that `beside` remembers:

1. `HandsInv`, always: a control holds an engine exactly while it takes one down (`ControlsHold`); what a launch has not
   launched yet is new and nobody else's (`StatusIsNew`); who evicted an engine waits for it to go (`HeldIsOut`); a
   registered engine that the lease or the mark says should not run is on its way out (`UnownedIsRemoved`,
   `MarkedIsRemoved`).
2. `RemovedInv`, while no start was accepted beside a delete: the same for a row that is being deleted
   (`DeletingRemoves`) or gone (`GoneIsRemoved`).
3. `AloneInv`, while no attempt was overtaken. `StartsHold`: an accepted start and an attempt are not at work at once
   (`OneAttempt`, `StartIsAlone`, `HookIsClear`, `StatusIsClear`), except, where a timer fired during the start, for an
   attempt that destroys the very engine whose `initialize()` the start awaits (`StartKeeps`); a start that failed left
   no engine in the registry (`EvictedIsEmpty`, `FailedIsEmpty`); what each launch holds is not somebody else's to
   replace (`DestroyKeeps`, `InitKeeps`). `EnginesHold`: so each engine that is alive is registered, held or doomed
   (`StartOrphansNothing`); a timer that is armed was armed by the drop of the engine registered now (`ArmedIsDropped`),
   which is why it never strikes a later one (`HealthyIsKept`); and a registered engine that has dropped has a report, a
   timer or somebody who holds it (`DroppedIsPending`).

### Ingress

| Theorem | Needs |
| --- | --- |
| `TypeCorrect`, `LossIsKnownAlways`, `DeliveredOnceAlways` | nothing |

Three layers again, each inductive with the ones before it:

1. `PlaceInv`: where each kind of runner may be and what it may hold (`RunsArePlaced`); an event without a row is nowhere
   else either (`NewIsUntouched`); and `AttemptsBounded`. `TypeOK` needs the last. A sweep writes one more than the
   count it read, so only a copy below the maximum is charged without closing the row; the live request counts its
   failure on top of whatever is there, so until it has (`Unmarked`) everybody's count is one lower. That it never comes
   back to where it counts is `UnmarkedStays`.
2. `LossInv`, for `LossIsKnown`: a runner that is about to close a row or retire a letter was told "queued" by a job
   that is there, or "dispatched" by a handling (`ResultsHold`); a finished job is a handling (`DoneIsDelivered`); and
   before a row is closed as failed it has a dead letter (`FailedHasLetter`), which is still open if the row is pending
   (`PendingKeepsLetters`, for which rows are closed before letters, `RetiredIsClosed`). A job that was taken and has
   failed is where `Misled` comes from.
3. `OnceInv`, for `DeliveredOnce`: an undisturbed event has one holder at most (`Alone`), and what its holder counts on
   depends on how far it is (`LiveCounts`, `SweepCounts`, `RedriveCounts`): before `enqueue()` nothing came of the event,
   after it there is one job, or one open letter, or one handling, never two of these (`OneOf`). When nobody holds it
   the same is true of the rest, and of a pending row that nothing came of it at all (`Rests`), which is what allows the
   next sweep to begin. A redrive needs the letter it works on to be the only one open.

### Only model-checked

`Settles`, `QueueDrains`, `DueStarts`, `DueSettles` and `PendingSettles`: liveness under fairness, which this prover
does not do. Every invariant, action property and refinement that a passing run checks is also proved, under the
hypotheses above.

## Disagreements

1. **`stop_races_claim`** (`session/session.service.ts:649`). `stop()` releases unless an engine is active, and its
   comment says that this covers a start still in flight. A start that awaits `claim()` is in none of the maps
   `isEngineActive()` reads, so the release can clear the row the start has just taken, and the engine runs on an
   unclaimed row until a heartbeat notices.
2. **`skewed_clocks`** (`session/session-ownership.service.ts:94`). The document on scaling calls a skew above one
   TTL a misconfiguration. The exact bound is the grace period less the teardown: a third of the TTL at most.
3. **`failure_reported_twice`** (`webhook/utils/record-delivery-failure.ts:44`). "One row per lost delivery" is
   count, then insert, over an index that is not unique. `ReportedOnceAlways` says where the claim holds.
4. **`budget_spent_unreported`** (`webhook/webhook-reconciler.service.ts:99`). A spent budget is said to leave the
   failure row as the way to recover. A replay that a restart cuts short is charged and records nothing.
   `FailedIsReportedAlways` says where the claim holds.
5. **`engine_overtaken`** (`session/session-engine-controls.ts:180`). `start()` cancels the reconnect timer so that
   nothing can "destroy/replace the engine this start() is about to create (or orphan the Chromium process)"
   (`:176-179`). An attempt whose timer has fired is not cancelled: it awaits the `destroy()` of the old engine while a
   failing start, a stop or a force-kill evicts that engine and ends. A start is then accepted, both register an engine,
   and the first runs on with nothing that names it. Two attempts at once do the same. `NoOrphanAlways` says that there
   is no other way to such an engine.

## Observations

What follows was met while modelling and has no run of its own. Where it touches a property, the property or the
constant named in brackets excludes the case. The rest was read in the code.

### Webhooks and ownership

- The comment on the job id (`webhook-delivery.service.ts:470-474`) counts on BullMQ refusing a duplicate, but a replay
  after a crash makes a new deliveryId and so a second job.
- A close overwrites whatever state the row is in, so `failed` may replace `dispatched`.
- Deliveries refused for lack of capacity are not among those a shutdown waits for; replays pass neither the limiter
  nor the drain; and the drain looks once. A delivery whose `outbox.open()` was not answered at that look is abandoned
  when the process ends, the record of its refusal with it (`late`). The row, if it was written, is replayed.
- An answer of `claim()` that comes late may shorten the local deadline a later heartbeat had set, which is safe.

### Engine lifecycle

- **A start beside a reconnect** is the fifth disagreement. After it a drop may be forgotten (17 steps), an engine run
  without the lease (15) and a healthy engine be destroyed (22), which is why `DropIsPending`, `LeaseCovers` and
  `HealthyIsKept` end there as well (`Overtaken`).
- **A start beside a delete.** Between the teardown of `delete()` and the removal of the row a start is accepted; its
  engine ends on a session that is deleted and whose lease is given back. Without its excuse TLC violates
  `StoppedIsDown` this way in about ten steps (`"delete" \in beside`).
- The catch of `start()` cancels the reconnect only after it awaited the kill. A timer that fires in between leaves a
  row that is FAILED with an engine registered and no reconnect state: further starts are refused as "already started"
  (`excused`).
- Two reports of one engine arm two timers in turn; the second destroys the healthy replacement (`excused`).
- A refused `stop()` (409) leaves its mark; if the next start is refused too, the mark suppresses the reconnect of the
  running engine. A `stop()` that finds the row gone clears the mark a `delete()` had set.
- A failing lookup of the row in `handleEngineDisconnected` leaves a dead engine registered; a failing
  `isSessionRetired` keeps an engine on a deleted row; a failing delete after the teardown leaves a reconnect without
  a state (`excused`).
- With a `reconnectBaseDelay` of two minutes or more the watchdog re-arms and doubles the delay at each probe, so the
  reconnect of a silently dead engine never fires.
- A start whose INITIALIZING write is late may write it after the DISCONNECTED of the stop, which
  `session-lifecycle-fences.ts:155-160` rules out. A time-out of `destroy` on the retired path, and of logout, is not
  escalated.

### Bulk batches

- **Reservations leak.** `createBatch` reserves a place (`bulk-message.service.ts:295`) and starts the batch only if
  its time is not to come (`:309`); the sweep reserves again (`:181`); the run gives back one (`:397`). After as many
  scheduled batches as the cap, `createBatch` refuses with "Too many bulk batches in progress" until a restart,
  although the field is documented as the count of batches currently in `processBatch` (`:107`). TLC reaches a count
  of one with no batch running. This is why `ReservationsCover` is a lower bound only.
- A `scheduledAt` in the past is started by the creation and by the sweep: both send, and the second loop ends by
  writing CANCELLED (`Undisturbed` excludes it). A scheduled batch may also be started on a second node after a fault.
- **A full page starves a batch.** The sweep takes ten due rows in no order (`bulk-message.service.ts:176`). A run without
  an engine leaves its row PENDING for the next sweep, so ten due batches of sessions without an engine may take the page
  each time. `DueStarts` excuses a batch that met such a page (`Starved`); without the excuse TLC violates it.
- The sweep checks neither the cap nor who owns the session (`docs/16-risk-management.md:121`).
- An immediate batch whose process dies before the mark stays PENDING: no sweep picks a row without a date. A query
  that fails in the middle of a run leaves PROCESSING until the next boot or takeover; a manual start on a peer does
  not reap.
- A reaper's unguarded save overwrites a cancel (`Reaped`); a loop that lags behind a reaper turns FAILED into
  COMPLETED; a cancel during the final write leaves stale counts. The marks of cancels stay on nodes where the batch
  does not run.

### Scheduled messages

- A missing engine at the gate is a `BadRequestException`, which makes the row FAILED, although the comment at
  `scheduled-message.service.ts:385-387` says that an outage that passes is not terminal; a 429 of the pacing does the
  same.
- A save of SENT that fails after the delivery ends in FAILED (`:371`, `:393`); scheduling the row again sends it
  twice. A re-read that fails (`:229`) saves the copy of the poll as FAILED, over SENT or over a row that was deleted.
- An edit of the text alone that read PENDING and saves after SENT queues the message again (an `excuse`). A cancel
  during the send is overwritten by SENT and the series goes on.
- A crash between the save of SENT and that of the successor ends the series, and so does a failing save of the
  successor, which is only logged; an edit that gives a rule to a message already sent has no effect (`severed`). An edit
  of the rule during the send is overwritten.
- The poll takes 25 rows; as many that cannot be delivered keep the rest waiting. One send that hangs keeps the poll
  of all sessions waiting.

### Ingress

- **A replay that did not deliver retires the dead letter.** When the reconciler adds a job under the delivery id of
  one that has failed and is retained for a day, BullMQ ignores it; the outcome is "queued" all the same, the row
  becomes dispatched with its payload gone, and every open dead letter of the event is marked as redriven. The comment
  at `ingress-reconciler.service.ts:183-184` says that the replay just delivered it. TLC also finds the order in which
  the job fails between the add and the retirement. `Misled` excludes both.
- The worker's handler of failed jobs does not see those the queue fails after stalls, and a dead letter whose save
  fails is not retried (`Unrecorded`).
- A full batch of rows whose instances are disabled is read again and again, and the rows behind it starve (`Starved`).
- Counting and saving dead letters is not atomic, so two nodes write two. Inline dispatches do not take the ordering
  lock. Stale writes of `dispatchAttempts` lose counts.

## Not modelled

Of the modelled areas, see the ends of the sections on their modules. Of the rest, what has a protocol is in the plan:
outbound rows and pacing, the plugin host, the body budget, the session scheduler and the takeover sweep. What has
none is listed in `PROJECT.json` with its reason: queries, single-row writes, wrappers of third-party libraries,
interpreters whose outcome is data and text, and presentation. These are by far most of the repository's lines (the
dashboard, the SDKs, the adapters and some fifty modules of controllers, DTOs and entities), so the models cover a
small share of its lines and most of what its processes do to each other. Text, formats and payloads are abstracted
everywhere: no property is about them.

## Plan

In this order; each with a proof module where a safety invariant is worth it.

1. `SendPacing`: the caps and tallies with checks before the row that counts is written, the circuit breaker, and the
   reaper of PENDING rows beside a send that is still under way. Property: no cap is passed by more than the sends in
   flight; a row that was sent does not end FAILED unless the reaper's age is below the send's time-out.
2. The takeover sweep over the rows of `SessionOwnership`: it would replace the assumption that a lost session comes
   back in `BulkMessages` and `ScheduledMessages`.
3. `SessionScheduler` (ticks that write back configurations read before an await), `PluginWorker` (answer, time-out
   and exit of a worker; slots of capability calls) and `BodyBudget` (five events that may release one reservation):
   small, with invariants on maps and sums.
4. An abstract at-most-once sender, and its refinement by `BulkMessages` and `ScheduledMessages`.
