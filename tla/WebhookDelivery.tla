---------------------------- MODULE WebhookDelivery ----------------------------
(***************************************************************************)
(* Outbound webhook deliveries: the durable outbox row, the bounded        *)
(* dispatcher, direct delivery or the queue with its worker, the table of  *)
(* failed deliveries, and the reconciler that replays what a crash left    *)
(* behind.                                                                 *)
(*                                                                         *)
(* A delivery is one event for one webhook, named in the code by the pair  *)
(* (webhookId, idempotencyKey).  deliverOne() is run for it by the live    *)
(* dispatch, once, and by the sweep of any node, so a run is named by the  *)
(* delivery it dispatches or by the node whose sweep replays it.  Every    *)
(* query, POST and hook is awaited: each is a step.                        *)
(***************************************************************************)
EXTENDS Integers, SequencesExt

CONSTANTS
  Node,         \* processes that share the database and the queue
  Delivery,     \* (webhookId, idempotencyKey) pairs
  NoNode,       \* no process
  NoDelivery,   \* no delivery
  JobId,        \* job ids (deliveryId); a bound on the jobs alive at once
  Configs,      \* the deployments considered, records of Config below
  MaxActive,    \* WEBHOOK_DISPATCH_CONCURRENCY
  MaxQueued,    \* webhook.dispatchMaxQueued
  Reconcile,    \* WEBHOOK_RECONCILE_INTERVAL_MS > 0
  GraceCovers,  \* TRUE: WEBHOOK_RECONCILE_GRACE_MS outlasts every live dispatch
  Batch,        \* WEBHOOK_RECONCILE_BATCH_SIZE
  DrainPatient, \* TRUE: WEBHOOK_SHUTDOWN_DRAIN_MS covers every delivery in flight
  StoreFails    \* TRUE: queries of the best-effort bookkeeping may fail

(* A deployment: QUEUE_ENABLED, the same on every node; the processes that *)
(* run; webhook.retryCount; WEBHOOK_RECONCILE_MAX_ATTEMPTS; and a bound on *)
(* crashes, shutdowns and failed queries together.                         *)
Config ==
  [queued: BOOLEAN, up: SUBSET Node, retryCount: Nat, maxAttempts: Nat \ {0}, maxFaults: Nat]

ASSUME ConstantsAssumption ==
  /\ Node \cap Delivery = {}
  /\ NoDelivery \notin Delivery
  /\ NoNode \notin Node
  /\ IsFiniteSet(Node)
  /\ IsFiniteSet(Delivery)
  /\ Configs \subseteq Config
  /\ MaxQueued \in Nat
  /\ {MaxActive, Batch} \subseteq Nat \ {0}
  /\ Reconcile \in BOOLEAN
  /\ GraceCovers \in BOOLEAN
  /\ DrainPatient \in BOOLEAN
  /\ StoreFails \in BOOLEAN

VARIABLES
  config,     \* the deployment
  row,        \* webhook_outbox_events.state
  attempts,   \* webhook_outbox_events.attempts
  born,       \* webhook_outbox_events.createdAt, 0 for no row
  failures,   \* how many webhook_delivery_failures rows name the delivery
  jobs,       \* the webhook queue
  mode,       \* life of each process
  home,       \* the process that dispatches the delivery
  run,        \* where each run of deliverOne() is
  slots,      \* ConcurrencyLimiter.active
  waiters,    \* ConcurrencyLimiter.waiters
  late,       \* history: who came to the limiter of a process whose drain had ended
  sweepAt,    \* where the sweep of each process is
  sweepList,  \* the rows it has yet to look at, as findStale() read them
  faults,     \* how much has gone wrong
  received,   \* the receiver has the event
  dropped,    \* a plugin cancelled it, or its subscription is gone
  stalledOut  \* jobs of it were failed by the queue, not by the processor

tables == <<row, attempts, born, failures>>
limiter == <<slots, waiters, late>>
sweepVars == <<sweepAt, sweepList>>
fates == <<received, dropped, stalledOut>>
vars == <<config, tables, jobs, mode, home, run, limiter, sweepVars, faults, fates>>

Run == Delivery \cup Node

RowStates == {"none", "pending", "dispatched", "failed"}

(* The states of a run that hold a slot of the limiter, if it is live. *)
Delivering == {"preflight", "enqueue", "post", "count", "insert", "conclude"}

RunStates == Delivering \cup {"idle", "opening", "opened", "parked", "done"}

(* WebhookDeliveryOutcome, and the two ways the limiter refuses. *)
Outcomes == {"none", "delivered", "enqueued", "cancelled", "failed", "full", "closed"}

RunRecord == [at: RunStates, of: Delivery \cup {NoDelivery}, try: Nat, outcome: Outcomes]
Job == [id: JobId, of: Delivery, at: {"waiting", "active", "count", "insert"},
        on: Node \cup {NoNode}, made: Nat, stalls: Nat]
Snapshot == [of: Delivery, attempts: Nat]

TypeOK ==
  /\ config \in Configs
  /\ row \in [Delivery -> RowStates]
  /\ attempts \in [Delivery -> Nat]
  /\ born \in [Delivery -> Nat]
  /\ failures \in [Delivery -> Nat]
  /\ jobs \subseteq Job
  /\ mode \in [Node -> {"off", "up", "draining", "leaving"}]
  /\ home \in [Delivery -> Node \cup {NoNode}]
  /\ run \in [Run -> RunRecord]
  /\ slots \in [Node -> Nat]
  /\ waiters \in [Node -> Seq(Delivery)]
  /\ late \subseteq Delivery
  /\ sweepAt \in [Node -> {"idle", "row", "unsubscribed", "count", "replay"}]
  /\ sweepList \in [Node -> SUBSET Snapshot]
  /\ faults \in Nat
  /\ received \in [Delivery -> BOOLEAN]
  /\ dropped \in [Delivery -> BOOLEAN]
  /\ stalledOut \in [Delivery -> BOOLEAN]

Fresh(d) == [at |-> "idle", of |-> d, try |-> 0, outcome |-> "none"]

Init ==
  /\ config \in Configs
  /\ row = [d \in Delivery |-> "none"]
  /\ attempts = [d \in Delivery |-> 0]
  /\ born = [d \in Delivery |-> 0]
  /\ failures = [d \in Delivery |-> 0]
  /\ jobs = {}
  /\ mode = [n \in Node |-> IF n \in config.up THEN "up" ELSE "off"]
  /\ home = [d \in Delivery |-> NoNode]
  /\ run = [w \in Run |-> Fresh(IF w \in Delivery THEN w ELSE NoDelivery)]
  /\ slots = [n \in Node |-> 0]
  /\ waiters = [n \in Node |-> <<>>]
  /\ late = {}
  /\ sweepAt = [n \in Node |-> "idle"]
  /\ sweepList = [n \in Node |-> {}]
  /\ faults = 0
  /\ received = [d \in Delivery |-> FALSE]
  /\ dropped = [d \in Delivery |-> FALSE]
  /\ stalledOut = [d \in Delivery |-> FALSE]

-----------------------------------------------------------------------------
(* What the actions are built from.                                        *)

(* A query of the best-effort bookkeeping fails, and its error is logged.  *)
QueryFails ==
  /\ StoreFails
  /\ faults < config.maxFaults
  /\ faults' = faults + 1

(* A run that ended, with nothing left of what it knew. *)
Over(w) == [run[w] EXCEPT !.at = "done", !.try = 0, !.outcome = "none"]

(* The limiter is closed by a direct-mode shutdown only. *)
Closed(n) == mode[n] \in {"draining", "leaving"} /\ ~config.queued

(* close(): an UPDATE by key, whatever the state of the row. *)
CloseRow(d, state) ==
  row' = [row EXCEPT ![d] = IF @ = "none" THEN @ ELSE state]

(* The slot is given back although a waiter takes it over. *)
ReleaseTwice(n) ==
  /\ slots' = [slots EXCEPT ![n] = @ - 1]
  /\ waiters' = IF waiters[n] = <<>> THEN waiters ELSE [waiters EXCEPT ![n] = Tail(@)]

(* run()'s finally: the slot goes to the first waiter, if there is one.    *)
Release(n) ==
  IF waiters[n] = <<>>
    THEN /\ slots' = [slots EXCEPT ![n] = @ - 1]
         /\ UNCHANGED waiters
    ELSE /\ waiters' = [waiters EXCEPT ![n] = Tail(@)]
         /\ UNCHANGED slots

(* findStale(): the oldest pending rows that are past the grace period.    *)
(* The period may be zero, and the retries of a direct delivery may outlast*)
(* the default of a minute.                                                *)
Stale ==
  LET stranded == {d \in Delivery : /\ row[d] = "pending"
                                    /\ GraceCovers => run[d].at = "done"}
  IN  {d \in stranded : Cardinality({e \in stranded : born[e] < born[d]}) < Batch}

FreeJobIds(d) == {i \in JobId : \A j \in jobs : j.of = d => j.id # i}

(* add(): a new job under a deliveryId of its own. *)
AddJob(d) ==
  jobs' = jobs \cup {[id |-> CHOOSE i \in FreeJobIds(d) : TRUE, of |-> d, at |-> "waiting",
                      on |-> NoNode, made |-> 0, stalls |-> 0]}

-----------------------------------------------------------------------------
(* The live dispatch, up to deliverOne().                                  *)

(* dispatch(): the webhook is active and matches the event. *)
Dispatch(n, d) ==
  /\ home[d] = NoNode /\ mode[n] # "off"
  /\ home' = [home EXCEPT ![d] = n]
  /\ run' = [run EXCEPT ![d].at = "opening"]
  /\ UNCHANGED <<config, tables, jobs, mode, limiter, sweepVars, faults, fates>>

(* open(): without its row the delivery goes on unrecorded. *)
Open(d) ==
  /\ run[d].at = "opening"
  /\ run' = [run EXCEPT ![d].at = "opened"]
  /\ \/ /\ row' = [row EXCEPT ![d] = "pending"]
        /\ born' = [born EXCEPT ![d] = 1 + Cardinality({e \in Delivery : born[e] > 0})]
        /\ UNCHANGED faults
     \/ /\ QueryFails
        /\ UNCHANGED <<row, born>>
  /\ UNCHANGED <<config, attempts, failures, jobs, mode, home, limiter, sweepVars,
                 fates>>

(* A slot may be taken while others are parked for one. *)
AdmitUnbounded(d) ==
  LET n == home[d]
  IN  /\ run[d].at = "opened"
      /\ slots' = [slots EXCEPT ![n] = @ + 1]
      /\ run' = [run EXCEPT ![d].at = "preflight"]
      /\ UNCHANGED <<config, tables, jobs, mode, home, waiters, late, sweepVars, faults,
                     fates>>

(* dispatchLimiter.run(): a slot, a place in the line, or a refusal that   *)
(* goes to the table of failed deliveries and leaves the row pending.      *)
Admit(d) ==
  LET n == home[d]
      refusal == IF Closed(n) THEN "closed" ELSE "full"
  IN  /\ run[d].at = "opened"
      /\ \/ /\ ~Closed(n)
            /\ slots[n] < MaxActive
            /\ slots' = [slots EXCEPT ![n] = @ + 1]
            /\ run' = [run EXCEPT ![d].at = "preflight"]
            /\ UNCHANGED waiters
         \/ /\ ~Closed(n)
            /\ slots[n] >= MaxActive
            /\ Len(waiters[n]) < MaxQueued
            /\ waiters' = [waiters EXCEPT ![n] = Append(@, d)]
            /\ run' = [run EXCEPT ![d].at = "parked"]
            /\ UNCHANGED slots
         \/ /\ Closed(n) \/ (slots[n] >= MaxActive /\ Len(waiters[n]) >= MaxQueued)
            /\ run' = [run EXCEPT ![d].at = "count", ![d].outcome = refusal]
            /\ UNCHANGED <<slots, waiters>>
      /\ late' = IF mode[n] = "leaving" THEN late \cup {d} ELSE late
      /\ UNCHANGED <<config, tables, jobs, mode, home, sweepVars, faults, fates>>

-----------------------------------------------------------------------------
(* deliverOne(), for a live run and for a replay.                          *)

(* A failed preflight is not recorded. *)
PreflightUnrecorded(w) ==
  /\ run[w].at = "preflight"
  /\ run' = [run EXCEPT ![w].at = "conclude", ![w].outcome = "failed"]
  /\ UNCHANGED <<config, tables, jobs, mode, home, limiter, sweepVars, faults, fates>>

(* preflightDelivery(): a plugin cancels, a hook or the size gate fails the*)
(* delivery, or it goes to the queue or to the receiver.                   *)
Preflight(w) ==
  LET d == run[w].of
  IN  /\ run[w].at = "preflight"
      /\ \/ /\ run' = [run EXCEPT ![w].at = "conclude", ![w].outcome = "cancelled"]
            /\ dropped' = [dropped EXCEPT ![d] = TRUE]
         \/ /\ run' = [run EXCEPT ![w].at = "count", ![w].outcome = "failed"]
            /\ UNCHANGED dropped
         \/ /\ run' = [run EXCEPT ![w].at = IF config.queued THEN "enqueue" ELSE "post",
                                  ![w].try = 1]
            /\ UNCHANGED dropped
      /\ UNCHANGED <<config, tables, jobs, mode, home, limiter, sweepVars, faults,
                     received, stalledOut>>

(* webhookQueue.add(): it may reject although the job reached the queue,   *)
(* and the fallback posts all the same.                                    *)
Enqueue(w) ==
  LET d == run[w].of
  IN  /\ run[w].at = "enqueue"
      /\ FreeJobIds(d) # {}
      /\ \/ /\ AddJob(d)
            /\ run' = [run EXCEPT ![w].at = "conclude", ![w].outcome = "enqueued"]
         \/ /\ AddJob(d) \/ UNCHANGED jobs
            /\ run' = [run EXCEPT ![w].at = "post"]
      /\ UNCHANGED <<config, tables, mode, home, limiter, sweepVars, faults, fates>>

(* One attempt of deliverWebhook().  The receiver may have taken the event *)
(* although no 2xx came back.                                              *)
Post(w) ==
  LET d == run[w].of
  IN  /\ run[w].at = "post"
      /\ \/ /\ received' = [received EXCEPT ![d] = TRUE]
            /\ run' = [run EXCEPT ![w].at = "conclude", ![w].outcome = "delivered"]
         \/ /\ \E taken \in BOOLEAN : received' = [received EXCEPT ![d] = @ \/ taken]
            /\ run' = IF run[w].try < config.retryCount
                        THEN [run EXCEPT ![w].try = @ + 1]
                        ELSE [run EXCEPT ![w].at = "count", ![w].outcome = "failed"]
      /\ UNCHANGED <<config, tables, jobs, mode, home, limiter, sweepVars, faults,
                     dropped, stalledOut>>

(* What follows the record of a failure: a refused delivery is over.       *)
AfterRecord(w) == IF run[w].outcome = "failed" THEN "conclude" ELSE "done"

(* recordWebhookDeliveryFailure(): a delivery already recorded is not      *)
(* recorded again.                                                         *)
CountFailures(w) ==
  /\ run[w].at = "count"
  /\ \/ /\ run' = [run EXCEPT ![w].at =
             IF failures[run[w].of] > 0 THEN AfterRecord(w) ELSE "insert"]
        /\ UNCHANGED faults
     \/ /\ QueryFails
        /\ run' = [run EXCEPT ![w].at = AfterRecord(w)]
  /\ UNCHANGED <<config, tables, jobs, mode, home, limiter, sweepVars, fates>>

InsertFailure(w) ==
  /\ run[w].at = "insert"
  /\ run' = [run EXCEPT ![w].at = AfterRecord(w)]
  /\ \/ /\ failures' = [failures EXCEPT ![run[w].of] = @ + 1]
        /\ UNCHANGED faults
     \/ /\ QueryFails
        /\ UNCHANGED failures
  /\ UNCHANGED <<config, row, attempts, born, jobs, mode, home, limiter, sweepVars,
                 fates>>

(* The end of a live run, whatever its outcome: the row is retired and the *)
(* slot handed on.                                                         *)
ConcludeDispatch(d) ==
  LET n == home[d]
  IN  /\ run[d].at = "conclude"
      /\ \/ CloseRow(d, "dispatched") /\ UNCHANGED faults
         \/ QueryFails /\ UNCHANGED row
      /\ Release(n)
      /\ run' = [w \in Run |->
           CASE w = d -> Over(w)
             [] waiters[n] # <<>> /\ w = Head(waiters[n]) -> [run[w] EXCEPT !.at = "preflight"]
             [] OTHER -> run[w]]
      /\ UNCHANGED <<config, attempts, born, failures, jobs, mode, home, late, sweepVars,
                     fates>>

-----------------------------------------------------------------------------
(* WebhookReconcilerService.sweep().                                       *)

(* The row a sweep is at: the oldest of those it has yet to deal with.     *)
Current(n, r) ==
  /\ r \in sweepList[n]
  /\ \A q \in sweepList[n] : born[r.of] <= born[q.of]

(* Whether anything is left after r. *)
Advance(n, r) ==
  /\ sweepList' = [sweepList EXCEPT ![n] = @ \ {r}]
  /\ sweepAt' = [sweepAt EXCEPT ![n] = IF sweepList[n] = {r} THEN "idle" ELSE "row"]

(* A tick of the interval, unless the last sweep still runs. *)
BeginSweep(n) ==
  /\ Reconcile
  /\ mode[n] = "up"
  /\ sweepAt[n] = "idle"
  /\ Stale # {}
  /\ sweepAt' = [sweepAt EXCEPT ![n] = "row"]
  /\ sweepList' = [sweepList EXCEPT ![n] = {[of |-> d, attempts |-> attempts[d]] : d \in Stale}]
  /\ UNCHANGED <<config, tables, jobs, mode, home, run, limiter, faults, fates>>

(* The budget is one replay short. *)
CloseSpentEarly(n, r) ==
  /\ sweepAt[n] = "row"
  /\ Current(n, r)
  /\ r.attempts + 1 >= config.maxAttempts
  /\ CloseRow(r.of, "failed")
  /\ Advance(n, r)
  /\ UNCHANGED <<config, attempts, born, failures, jobs, mode, home, run, limiter, faults, fates>>

(* The budget is spent by the time the sweep read it, not by now. *)
CloseSpent(n, r) ==
  /\ sweepAt[n] = "row"
  /\ Current(n, r)
  /\ r.attempts >= config.maxAttempts
  /\ \/ CloseRow(r.of, "failed") /\ UNCHANGED faults
     \/ QueryFails /\ UNCHANGED row
  /\ Advance(n, r)
  /\ UNCHANGED <<config, attempts, born, failures, jobs, mode, home, run, limiter,
                 fates>>

(* The webhook is looked up.  An operator may have switched it off, or on  *)
(* again, at any time; off or deleted, the row is dropped.  A lookup that  *)
(* fails ends the sweep.                                                   *)
FindWebhook(n, r) ==
  /\ sweepAt[n] = "row"
  /\ Current(n, r)
  /\ r.attempts < config.maxAttempts
  /\ \/ /\ sweepAt' = [sweepAt EXCEPT ![n] = "count"]
        /\ UNCHANGED <<sweepList, faults, dropped>>
     \/ /\ sweepAt' = [sweepAt EXCEPT ![n] = "unsubscribed"]
        /\ dropped' = [dropped EXCEPT ![r.of] = TRUE]
        /\ UNCHANGED <<sweepList, faults>>
     \/ /\ QueryFails
        /\ sweepAt' = [sweepAt EXCEPT ![n] = "idle"]
        /\ sweepList' = [sweepList EXCEPT ![n] = {}]
        /\ UNCHANGED dropped
  /\ UNCHANGED <<config, tables, jobs, mode, home, run, limiter, received, stalledOut>>

CloseUnsubscribed(n, r) ==
  /\ sweepAt[n] = "unsubscribed"
  /\ Current(n, r)
  /\ \/ CloseRow(r.of, "failed") /\ UNCHANGED faults
     \/ QueryFails /\ UNCHANGED row
  /\ Advance(n, r)
  /\ UNCHANGED <<config, attempts, born, failures, jobs, mode, home, run, limiter,
                 fates>>

(* A replay that is not charged to the budget of its row. *)
ReplayUncounted(n, r) ==
  /\ sweepAt[n] = "count"
  /\ Current(n, r)
  /\ sweepAt' = [sweepAt EXCEPT ![n] = "replay"]
  /\ run' = [run EXCEPT ![n] = [at |-> "preflight", of |-> r.of, try |-> 0, outcome |-> "none"]]
  /\ UNCHANGED <<config, tables, jobs, mode, home, limiter, sweepList, faults, fates>>

(* The attempt is saved with the rest of the row as the sweep read it.     *)
CountAttemptSaves(n, r) ==
  /\ sweepAt[n] = "count"
  /\ Current(n, r)
  /\ attempts' = [attempts EXCEPT ![r.of] = r.attempts + 1]
  /\ row' = [row EXCEPT ![r.of] = "pending"]
  /\ sweepAt' = [sweepAt EXCEPT ![n] = "replay"]
  /\ run' = [run EXCEPT ![n] = [at |-> "preflight", of |-> r.of, try |-> 0, outcome |-> "none"]]
  /\ UNCHANGED <<config, born, failures, jobs, mode, home, limiter, sweepList, faults, fates>>

(* countAttempt() writes one more than the sweep read, and redeliver()     *)
(* starts: past the limiter, under the stored key.                         *)
CountAttempt(n, r) ==
  /\ sweepAt[n] = "count"
  /\ Current(n, r)
  /\ \/ attempts' = [attempts EXCEPT ![r.of] = r.attempts + 1] /\ UNCHANGED faults
     \/ QueryFails /\ UNCHANGED attempts
  /\ sweepAt' = [sweepAt EXCEPT ![n] = "replay"]
  /\ run' = [run EXCEPT ![n] = [at |-> "preflight", of |-> r.of, try |-> 0, outcome |-> "none"]]
  /\ UNCHANGED <<config, row, born, failures, jobs, mode, home, limiter, sweepList,
                 fates>>

(* A failed replay leaves its row to the next sweep; any other retires it. *)
ConcludeReplay(n, r) ==
  /\ sweepAt[n] = "replay"
  /\ r \in sweepList[n] /\ r.of = run[n].of
  /\ run[n].at = "conclude"
  /\ \/ run[n].outcome = "failed" /\ UNCHANGED <<row, faults>>
     \/ run[n].outcome # "failed" /\ CloseRow(r.of, "dispatched") /\ UNCHANGED faults
     \/ run[n].outcome # "failed" /\ QueryFails /\ UNCHANGED row
  /\ run' = [run EXCEPT ![n] = Fresh(NoDelivery)]
  /\ Advance(n, r)
  /\ UNCHANGED <<config, attempts, born, failures, jobs, mode, home, limiter, fates>>

-----------------------------------------------------------------------------
(* The queue and WebhookProcessor.                                         *)

Replace(j, k) == jobs' = (jobs \ {j}) \cup {k}

(* A worker takes the job, up to the end of the drain.  One that stalled   *)
(* twice is failed by the queue: process() never sees it, and              *)
(* onWorkerFailed() records it.                                            *)
TakeJob(n, j) ==
  /\ mode[n] \in {"up", "draining"}
  /\ j.at = "waiting"
  /\ Replace(j, [j EXCEPT !.at = IF j.stalls >= 2 THEN "count" ELSE "active", !.on = n])
  /\ UNCHANGED <<config, tables, mode, home, run, limiter, sweepVars, faults, fates>>

(* A failed job is not recorded. *)
ProcessJobUnrecorded(j) ==
  /\ j.at = "active"
  /\ jobs' = jobs \ {j}
  /\ \E taken \in BOOLEAN : received' = [received EXCEPT ![j.of] = @ \/ taken]
  /\ UNCHANGED <<config, tables, mode, home, run, limiter, sweepVars, faults, dropped, stalledOut>>

(* A job is retried for ever. *)
ProcessJobForever(j) ==
  /\ j.at = "active"
  /\ Replace(j, [j EXCEPT !.at = "waiting", !.on = NoNode])
  /\ UNCHANGED <<config, tables, mode, home, run, limiter, sweepVars, faults, fates>>

(* process(): the last attempt of a job is recorded before it fails. *)
ProcessJob(j) ==
  /\ j.at = "active"
  /\ \/ /\ received' = [received EXCEPT ![j.of] = TRUE]
        /\ jobs' = jobs \ {j}
     \/ /\ \E taken \in BOOLEAN : received' = [received EXCEPT ![j.of] = @ \/ taken]
        /\ Replace(j, IF j.made + 1 >= config.retryCount
                        THEN [j EXCEPT !.at = "count"]
                        ELSE [j EXCEPT !.at = "waiting", !.on = NoNode, !.made = @ + 1])
  /\ UNCHANGED <<config, tables, mode, home, run, limiter, sweepVars, faults, dropped,
                 stalledOut>>

CountJobFailures(j) ==
  /\ j.at = "count"
  /\ \/ /\ IF failures[j.of] > 0 THEN jobs' = jobs \ {j}
                                 ELSE Replace(j, [j EXCEPT !.at = "insert"])
        /\ UNCHANGED faults
     \/ /\ QueryFails
        /\ jobs' = jobs \ {j}
  /\ UNCHANGED <<config, tables, mode, home, run, limiter, sweepVars, fates>>

InsertJobFailure(j) ==
  /\ j.at = "insert"
  /\ jobs' = jobs \ {j}
  /\ \/ failures' = [failures EXCEPT ![j.of] = @ + 1] /\ UNCHANGED faults
     \/ QueryFails /\ UNCHANGED failures
  /\ UNCHANGED <<config, row, attempts, born, mode, home, run, limiter, sweepVars,
                 fates>>

-----------------------------------------------------------------------------
(* The life of a process.                                                  *)

(* onModuleDestroy(): the sweep's timer stops, and a direct-mode limiter   *)
(* refuses whoever is parked.                                              *)
BeginShutdown(n) ==
  /\ mode[n] = "up"
  /\ faults < config.maxFaults
  /\ faults' = faults + 1
  /\ mode' = [mode EXCEPT ![n] = "draining"]
  /\ IF config.queued
       THEN UNCHANGED <<waiters, run>>
       ELSE /\ waiters' = [waiters EXCEPT ![n] = <<>>]
            /\ run' = [w \in Run |->
                 IF w \in Delivery /\ home[w] = n /\ run[w].at = "parked"
                   THEN [run[w] EXCEPT !.at = "count", !.outcome = "closed"]
                   ELSE run[w]]
  /\ UNCHANGED <<config, tables, jobs, home, slots, late, sweepVars, fates>>

(* The drain watches the slots and forgets the records it still owes. *)
DrainedSlots(n) == slots[n] = 0

(* What the drain waits for: no slot taken, no refusal left to record. *)
Drained(n) ==
  /\ slots[n] = 0
  /\ \A d \in Delivery : home[d] = n /\ run[d].outcome = "closed" => run[d].at = "done"

(* The loop finds nothing left to wait for, or its deadline is over.  It   *)
(* does not look again: what comes to the limiter from here on is on its   *)
(* own.                                                                    *)
DrainEnds(n) ==
  /\ mode[n] = "draining"
  /\ DrainPatient => Drained(n)
  /\ mode' = [mode EXCEPT ![n] = "leaving"]
  /\ UNCHANGED <<config, tables, jobs, home, run, limiter, sweepVars, faults, fates>>

(* Nothing of a process but its rows and its jobs survives it.  A job it   *)
(* held stalls, and is lost to the queue if that was its own failure being *)
(* recorded.                                                               *)
Reboot(n) ==
  /\ mode' = [mode EXCEPT ![n] = "up"]
  /\ run' = [w \in Run |->
       CASE w = n -> Fresh(NoDelivery)
         [] w \in Delivery /\ home[w] = n -> Over(w)
         [] OTHER -> run[w]]
  /\ slots' = [slots EXCEPT ![n] = 0]
  /\ waiters' = [waiters EXCEPT ![n] = <<>>]
  /\ sweepAt' = [sweepAt EXCEPT ![n] = "idle"]
  /\ sweepList' = [sweepList EXCEPT ![n] = {}]
  /\ jobs' = {j \in jobs : j.on # n} \cup
       {[j EXCEPT !.at = "waiting", !.on = NoNode, !.stalls = @ + 1] :
          j \in {k \in jobs : k.on = n /\ k.stalls < 2}}
  /\ stalledOut' = [d \in Delivery |->
       stalledOut[d] \/ \E j \in jobs : j.of = d /\ j.on = n /\ j.stalls >= 2]
  /\ late' = {d \in late : home[d] # n}
  /\ UNCHANGED <<config, tables, home, received, dropped>>

Crash(n) ==
  /\ mode[n] # "off"
  /\ faults < config.maxFaults
  /\ faults' = faults + 1
  /\ Reboot(n)

(* The process ends, whatever its dispatches are at; the queue's worker    *)
(* closes on an idle process, or on a deadline of its own.                 *)
Exit(n) ==
  /\ mode[n] = "leaving"
  /\ DrainPatient => \A j \in jobs : j.on # n
  /\ Reboot(n)
  /\ UNCHANGED faults

-----------------------------------------------------------------------------

Deliver(w) ==
  \/ Preflight(w)
  \/ Enqueue(w)
  \/ Post(w)
  \/ CountFailures(w)
  \/ InsertFailure(w)

LiveStep(d) ==
  \/ Open(d)
  \/ Admit(d)
  \/ ConcludeDispatch(d)

Sweep(n) ==
  \/ BeginSweep(n)
  \/ \E r \in sweepList[n] :
       \/ CloseSpent(n, r)
       \/ FindWebhook(n, r)
       \/ CloseUnsubscribed(n, r)
       \/ CountAttempt(n, r)
       \/ ConcludeReplay(n, r)

Work ==
  \E j \in jobs :
    \/ ProcessJob(j)
    \/ CountJobFailures(j)
    \/ InsertJobFailure(j)
    \/ \E n \in Node : TakeJob(n, j)

Next ==
  \/ \E n \in Node, d \in Delivery : Dispatch(n, d)
  \/ \E d \in Delivery : LiveStep(d)
  \/ \E w \in Run : Deliver(w)
  \/ \E n \in Node : Sweep(n) \/ BeginShutdown(n) \/ DrainEnds(n) \/ Exit(n) \/ Crash(n)
  \/ Work

Spec == Init /\ [][Next]_vars

(* Awaited calls are answered, the interval ticks, workers take jobs, and  *)
(* a shutdown ends.  A run and what drives it are never both able to step. *)
Fairness ==
  /\ \A d \in Delivery : WF_vars(LiveStep(d) \/ Deliver(d))
  /\ \A n \in Node : WF_vars(Sweep(n) \/ Deliver(n)) /\ WF_vars(DrainEnds(n) \/ Exit(n))
  /\ WF_vars(Work)

FairSpec == Spec /\ Fairness

-----------------------------------------------------------------------------
(* Properties.                                                             *)

(* What there is to show for a delivery: the receiver has it, a failure    *)
(* row reports it, a job still carries it, it was dropped on purpose, or   *)
(* the queue gave its job up.                                              *)
Accounted(d) ==
  \/ received[d]
  \/ failures[d] > 0
  \/ dropped[d]
  \/ stalledOut[d]
  \/ \E j \in jobs : j.of = d

(* A row is only retired as dispatched when there is something to show for *)
(* it: nothing replays it any more.                                        *)
DispatchedIsAccounted == \A d \in Delivery : row[d] = "dispatched" => Accounted(d)

(* What there is to show is never lost again: not by a retry, a stall, a   *)
(* crash, or a second job for the same delivery.                           *)
AccountedIsStable == [][\A d \in Delivery : Accounted(d) => Accounted(d)']_vars

(* The deliveries with something to show for them. *)
Shown == {d \in Delivery : Accounted(d)}

(* The steps of the dispatcher, the sweeps, the queue and the processes    *)
(* are, to the row and what there is to show, those of an outbox: a row is *)
(* written once, retired as dispatched only with something to show, and    *)
(* never pending again, though two of them may settle it in turn.          *)
Abstract == INSTANCE Outbox WITH shown <- Shown
ImplementsOutbox == Abstract!Spec

(* As long as fewer things went wrong than the budget has replays, a row   *)
(* whose budget is spent was delivered or reported, or is about to be:     *)
(* "the failure row is where recovery continues".                          *)
FailedIsAccounted ==
  \A d \in Delivery : row[d] = "failed" /\ faults < config.maxAttempts =>
    Accounted(d) \/ \E w \in Run : run[w].of = d /\ run[w].at \in Delivering

(* A row that was given up on has a failure row, unless the receiver got   *)
(* the event after all or it was dropped on purpose.                       *)
FailedIsReported ==
  \A d \in Delivery : row[d] = "failed" => received[d] \/ failures[d] > 0 \/ dropped[d]

(* A lost delivery has one row in the table of failures, not one for every *)
(* attempt that was made to deliver it.                                    *)
ReportedOnce == \A d \in Delivery : failures[d] <= 1

(* The slots taken are those of the live runs, within the limit; a run     *)
(* parks only while every slot is taken, and the line holds just the       *)
(* parked.                                                                 *)
SlotsAreRuns ==
  \A n \in Node :
    LET mine(states) == {d \in Delivery : /\ home[d] = n
                                          /\ run[d].at \in states
                                          /\ run[d].outcome \notin {"full", "closed"}}
    IN  /\ slots[n] = Cardinality(mine(Delivering))
        /\ slots[n] <= MaxActive
        /\ waiters[n] # <<>> => slots[n] = MaxActive
        /\ ToSet(waiters[n]) = mine({"parked"})
        /\ Len(waiters[n]) <= MaxQueued

(* A process that goes after a drain that was long enough takes with it    *)
(* only deliveries that came to its limiter after the drain's last look,   *)
(* and without the queue only refused ones: no POST is cut short.          *)
ShutdownIsClean ==
  [][\A n \in Node : mode[n] = "leaving" /\ mode'[n] = "up" /\ faults' = faults =>
       \A d \in Delivery :
         /\ home[d] = n
         /\ run[d].at \in Delivering \cup {"parked"} /\ run[d].outcome # "full"
         => d \in late /\ (config.queued \/ run[d].outcome = "closed")]_vars

(* A recorded delivery does not stay pending: its own run or a sweep       *)
(* retires it, as long as crashes and failed queries come to an end.       *)
Settles == \A d \in Delivery : row[d] = "pending" ~> row[d] # "pending"

(* The queue does not hold on to a job: it succeeds, or it fails and is    *)
(* recorded, stalls included.                                              *)
QueueDrains == (jobs # {}) ~> (jobs = {})

===============================================================================
