------------------------------ MODULE BulkMessages ------------------------------
(***************************************************************************)
(* Bulk batches: the row of a batch, the loops that send it, the sweep of  *)
(* each node for batches whose time has come, cancellation from any node,  *)
(* and the two reapers that fail what a dead process left PROCESSING.      *)
(*                                                                         *)
(* All batches belong to one session; of the others there are only the     *)
(* rows that take up room in the sweeps' pages.  A batch is sent by        *)
(* processBatch(), called by createBatch() and by the sweep of any node,   *)
(* so a run is named by its node, its batch and its caller.  A run works   *)
(* on the copy of the row it read first; every query and every send is     *)
(* awaited and is a step.                                                  *)
(***************************************************************************)
EXTENDS Integers, FiniteSets

CONSTANTS
  Node,        \* processes that share the database
  NoNode,      \* no process
  Batch,       \* batch ids
  Schedules,   \* the schedules a batch may be created with
  Total,       \* recipients of a batch
  Cadence,     \* progress is saved every Cadence messages (10 in the code)
  Take,        \* rows a sweep looks at (10 in the code)
  MaxOthers,   \* bound on the due batches of other sessions
  MaxInFlight, \* BULK_MAX_CONCURRENT_BATCHES, 0 for no cap
  MaxFaults    \* bound on crashes, disconnects and failing saves together

(* scheduledAt is absent, in the future, was in the future, or was in the  *)
(* past already when the batch was created.                                *)
ScheduleValues == {"none", "later", "due", "past"}

ASSUME ConstantsAssumption ==
  /\ NoNode \notin Node
  /\ IsFiniteSet(Node) /\ Node # {}
  /\ IsFiniteSet(Batch)
  /\ Schedules \subseteq {"none", "later", "past"}
  /\ Total \in Nat \ {0}
  /\ Cadence \in Nat \ {0}
  /\ Take \in Nat \ {0}
  /\ MaxOthers \in Nat
  /\ MaxInFlight \in Nat
  /\ MaxFaults \in Nat

VARIABLES
  row,       \* the row of each batch, as far as its runs look at it
  schedule,  \* message_batches.scheduled_at
  creating,  \* the process whose createBatch() has reserved and not yet saved
  run,       \* every run of processBatch()
  flag,      \* processingBatches of each process
  inFlight,  \* inFlightBatches of each process
  cancel,    \* the cancelBatch() call in flight for each batch
  reaper,    \* where the reaper of each process is
  reaping,   \* the rows it read and has not yet saved
  owner,     \* the process that holds the session's lease
  connected, \* the owner has an engine for the session
  others,    \* due batches of sessions that have no engine anywhere
  faults,    \* how much has gone wrong
  delivered, \* how often each recipient was sent to
  late       \* sends of a batch since its row became CANCELLED

session == <<owner, connected, others>>
history == <<delivered, late>>
vars == <<row, schedule, creating, run, flag, inFlight, cancel, reaper,
          reaping, session, faults, history>>

Item == 0 .. Total - 1
Caller == {"create", "sweep"}

Statuses == {"none", "PENDING", "PROCESSING", "COMPLETED", "FAILED", "CANCELLED"}
Terminal == {"COMPLETED", "FAILED", "CANCELLED"}

Row == [status: Statuses, next: Nat, sent: Nat, failed: Nat, cancelled: Int]
RunStates == {"idle", "read", "fail", "mark", "check", "send", "save", "reread", "write"}
RunRecord == [at: RunStates, live: BOOLEAN, stopped: BOOLEAN, copy: Row]

NoRow == [status |-> "none", next |-> 0, sent |-> 0, failed |-> 0, cancelled |-> 0]
Idle == [at |-> "idle", live |-> FALSE, stopped |-> FALSE, copy |-> NoRow]
Starting == [Idle EXCEPT !.at = "read"]
NoCancel == [by |-> NoNode, copy |-> NoRow]

TypeOK ==
  /\ row \in [Batch -> Row]
  /\ schedule \in [Batch -> ScheduleValues]
  /\ creating \in [Batch -> Node \cup {NoNode}]
  /\ run \in [Node -> [Batch -> [Caller -> RunRecord]]]
  /\ flag \in [Node -> [Batch -> {"unset", "run", "stop"}]]
  /\ inFlight \in [Node -> Nat]
  /\ cancel \in [Batch -> [by: Node \cup {NoNode}, copy: Row]]
  /\ reaper \in [Node -> {"idle", "boot", "adopted"}]
  /\ reaping \in [Node -> [Batch -> Row]]
  /\ owner \in Node \cup {NoNode}
  /\ connected \in BOOLEAN
  /\ others \in Nat
  /\ faults \in Nat
  /\ delivered \in [Batch -> [Item -> Nat]]
  /\ late \in [Batch -> Nat]

Init ==
  /\ row = [b \in Batch |-> NoRow]
  /\ schedule = [b \in Batch |-> "none"]
  /\ creating = [b \in Batch |-> NoNode]
  /\ run = [n \in Node |-> [b \in Batch |-> [w \in Caller |-> Idle]]]
  /\ flag = [n \in Node |-> [b \in Batch |-> "unset"]]
  /\ inFlight = [n \in Node |-> 0]
  /\ cancel = [b \in Batch |-> NoCancel]
  /\ reaper = [n \in Node |-> "idle"]
  /\ reaping = [n \in Node |-> [b \in Batch |-> NoRow]]
  /\ owner = CHOOSE n \in Node : TRUE  \* any, they are alike
  /\ connected = TRUE
  /\ others = 0
  /\ faults = 0
  /\ delivered = [b \in Batch |-> [i \in Item |-> 0]]
  /\ late = [b \in Batch |-> 0]

-----------------------------------------------------------------------------
(* What the actions are built from.                                        *)

Pending(r) == Total - r.sent - r.failed - r.cancelled

(* Mutant: the query for due rows takes a missing scheduledAt for a past one. *)
IsDueOrUnscheduled(b) == schedule[b] # "later"

IsDue(b) == schedule[b] \in {"due", "past"}

(* EngineRegistry.get() at n. *)
EngineAt(n) == owner = n /\ connected

Runs(n) == {p \in Batch \X Caller : run[n][p[1]][p[2]].at # "idle"}

Step(n, b, w, at) == run' = [run EXCEPT ![n][b][w].at = at]

(* Mutant: the UPDATE has no guard. *)
Unguarded(b, new) == row' = [row EXCEPT ![b] = new]

(* An UPDATE whose WHERE clause is status <> CANCELLED. *)
Guarded(b, new) ==
  row' = IF row[b].status = "CANCELLED" THEN row ELSE [row EXCEPT ![b] = new]

(* The finally block of processBatch(). *)
Finish(n, b, w) ==
  /\ run' = [run EXCEPT ![n][b][w] = Idle]
  /\ inFlight' = [inFlight EXCEPT ![n] = @ - 1]
  /\ flag' = [flag EXCEPT ![n][b] = "unset"]

(* Mutant: a loop that was told to stop ends like any other. *)
FinalStatusUncancelled(cancelled, stopped, r) ==
  IF stopped \/ (r.failed > 0 /\ r.sent = 0) THEN "FAILED" ELSE "COMPLETED"

(* resolveFinalBatchStatus() *)
FinalStatus(cancelled, stopped, r) ==
  IF cancelled THEN "CANCELLED"
  ELSE IF stopped \/ (r.failed > 0 /\ r.sent = 0) THEN "FAILED" ELSE "COMPLETED"

(* The outcome finalizeBatch() has decided on, before it writes it. *)
Final(cancelled, stopped, r) ==
  [r EXCEPT !.status = FinalStatus(cancelled, stopped, r),
            !.cancelled = IF cancelled THEN Pending(r) ELSE @]

(* cancelBatch(): what is pending becomes cancelled. *)
Cancelled(r) == [r EXCEPT !.status = "CANCELLED", !.cancelled = Pending(r)]

-----------------------------------------------------------------------------
(* createBatch()                                                           *)

(* The cap is checked and a place reserved in one turn. *)
Reserve(n, b) ==
  /\ EngineAt(n)
  /\ row[b].status = "none" /\ creating[b] = NoNode
  /\ MaxInFlight = 0 \/ inFlight[n] < MaxInFlight
  /\ creating' = [creating EXCEPT ![b] = n]
  /\ inFlight' = [inFlight EXCEPT ![n] = @ + 1]
  /\ UNCHANGED <<row, schedule, run, flag, cancel, reaper, reaping, session, faults, history>>

(* Mutant: the reservation is given back as soon as the row is saved. *)
SaveNewReleases(n, b) ==
  /\ creating[b] = n
  /\ creating' = [creating EXCEPT ![b] = NoNode]
  /\ row' = [row EXCEPT ![b].status = "PENDING"]
  /\ inFlight' = [inFlight EXCEPT ![n] = @ - 1]
  /\ \E s \in Schedules :
       /\ schedule' = [schedule EXCEPT ![b] = s]
       /\ run' = IF s = "later" THEN run ELSE [run EXCEPT ![n][b]["create"] = Starting]
  /\ UNCHANGED <<flag, cancel, reaper, reaping, session, faults, history>>

(* The row is saved; the batch is started unless its time is yet to come. *)
SaveNew(n, b) ==
  /\ creating[b] = n
  /\ creating' = [creating EXCEPT ![b] = NoNode]
  /\ row' = [row EXCEPT ![b].status = "PENDING"]
  /\ \E s \in Schedules :
       /\ schedule' = [schedule EXCEPT ![b] = s]
       /\ run' = IF s = "later" THEN run ELSE [run EXCEPT ![n][b]["create"] = Starting]
  /\ UNCHANGED <<flag, inFlight, cancel, reaper, reaping, session, faults, history>>

SaveFails(n, b) ==
  /\ creating[b] = n
  /\ faults < MaxFaults
  /\ faults' = faults + 1
  /\ creating' = [creating EXCEPT ![b] = NoNode]
  /\ inFlight' = [inFlight EXCEPT ![n] = @ - 1]
  /\ UNCHANGED <<row, schedule, run, flag, cancel, reaper, reaping, session, history>>

-----------------------------------------------------------------------------
(* processDueScheduledBatches(), on every node whoever owns the session.   *)
(* The answer to its query is used as it arrives, so query and loop are    *)
(* one step.  scheduledRuns is the set of its own runs that have not ended *)
(* and there is no cap on what it starts.                                  *)

Due == {b \in Batch : row[b].status = "PENDING" /\ IsDue(b)}

(* The batches of the session on the sweep's page: Take of all that are    *)
(* due, in no order.  The run of one of the others finds no engine, leaves *)
(* its row as it was and ends.                                             *)
Page(s) ==
  /\ s \subseteq Due
  /\ Cardinality(s) <= Take
  /\ s = Due \/ Cardinality(s) + others >= Take

(* What a sweep starts of its page. *)
Startable(n, s) == {b \in s : run[n][b]["sweep"].at = "idle"}

Started(n, s) ==
  run' = [run EXCEPT ![n] = [b \in Batch |->
           IF b \in Startable(n, s) THEN [@[b] EXCEPT !["sweep"] = Starting] ELSE @[b]]]

(* Mutant: the sweep starts a batch without reserving a place for it. *)
SweepUnreserved(n) ==
  /\ \E s \in SUBSET Due : Page(s) /\ Startable(n, s) # {} /\ Started(n, s)
  /\ UNCHANGED <<row, schedule, creating, flag, inFlight, cancel, reaper, reaping, session, faults,
                 history>>

(* Mutant: the sweep honours the cap, which creations of scheduled batches *)
(* use up for good.                                                        *)
SweepCapped(n) ==
  /\ inFlight[n] < MaxInFlight
  /\ \E s \in SUBSET Due :
       /\ Page(s) /\ Startable(n, s) # {} /\ Started(n, s)
       /\ inFlight' = [inFlight EXCEPT ![n] = @ + Cardinality(Startable(n, s))]
  /\ UNCHANGED <<row, schedule, creating, flag, cancel, reaper, reaping, session, faults, history>>

Sweep(n) ==
  /\ \E s \in SUBSET Due :
       /\ Page(s) /\ Startable(n, s) # {} /\ Started(n, s)
       /\ inFlight' = [inFlight EXCEPT ![n] = @ + Cardinality(Startable(n, s))]
  /\ UNCHANGED <<row, schedule, creating, flag, cancel, reaper, reaping, session, faults, history>>

-----------------------------------------------------------------------------
(* processBatch()                                                          *)

(* The row is read; a cancelled batch is left alone, and without an engine *)
(* one whose time has come is left to the sweep and any other fails.       *)
ReadBatch(n, b, w) ==
  LET r == run[n][b][w]
      skipped == flag[n][b] = "stop" \/ row[b].status = "CANCELLED"
      deferred == ~EngineAt(n) /\ IsDue(b)
  IN
  /\ r.at = "read"
  /\ \/ /\ skipped \/ deferred
        /\ Finish(n, b, w)
     \/ /\ ~skipped /\ ~deferred
        /\ flag' = [flag EXCEPT ![n][b] = "run"]
        /\ run' = [run EXCEPT ![n][b][w] =
                    [at |-> IF EngineAt(n) THEN "mark" ELSE "fail",
                     live |-> EngineAt(n), stopped |-> FALSE, copy |-> row[b]]]
        /\ UNCHANGED inFlight
  /\ UNCHANGED <<row, schedule, creating, cancel, reaper, reaping, session, faults, history>>

FailWithoutEngine(n, b, w) ==
  /\ run[n][b][w].at = "fail"
  /\ Guarded(b, [row[b] EXCEPT !.status = "FAILED"])
  /\ Finish(n, b, w)
  /\ UNCHANGED <<schedule, creating, cancel, reaper, reaping, session, faults, history>>

MarkProcessing(n, b, w) ==
  LET r == run[n][b][w] IN
  /\ r.at = "mark"
  /\ Guarded(b, [row[b] EXCEPT !.status = "PROCESSING"])
  /\ IF row[b].status = "CANCELLED"
       THEN Finish(n, b, w)
       ELSE /\ Step(n, b, w, IF r.copy.next < Total THEN "check" ELSE "reread")
            /\ UNCHANGED <<inFlight, flag>>
  /\ UNCHANGED <<schedule, creating, cancel, reaper, reaping, session, faults, history>>

(* The flag is looked at once per message, before pacing and the hooks. *)
CheckFlag(n, b, w) ==
  /\ run[n][b][w].at = "check"
  /\ Step(n, b, w, IF flag[n][b] = "run" THEN "send" ELSE "reread")
  /\ UNCHANGED <<row, schedule, creating, flag, inFlight, cancel, reaper, reaping, session,
                 faults, history>>

(* Progress is saved after the first message, every Cadence messages and   *)
(* after the last one.                                                     *)
AfterMessage(i) ==
  IF i % Cadence = 0 \/ i = Total - 1 THEN "save" ELSE "check"

Sent(n, b, w) ==
  LET r == run[n][b][w]
      i == r.copy.next
  IN
  /\ r.at = "send" /\ r.live
  /\ run' = [run EXCEPT ![n][b][w] =
              [r EXCEPT !.at = AfterMessage(i), !.copy.next = i + 1, !.copy.sent = @ + 1]]
  /\ delivered' = [delivered EXCEPT ![b][i] = @ + 1]
  /\ late' = [late EXCEPT ![b] = IF row[b].status = "CANCELLED" THEN @ + 1 ELSE @]
  /\ UNCHANGED <<row, schedule, creating, flag, inFlight, cancel, reaper, reaping, session, faults>>

(* Pacing, the gate or the engine refused, or the engine is no longer      *)
(* there.  With stopOnError the loop ends and the index stays.             *)
SendFails(n, b, w) ==
  LET r == run[n][b][w]
      i == r.copy.next
  IN
  /\ r.at = "send"
  /\ \E stopOnError \in BOOLEAN :
       run' = [run EXCEPT ![n][b][w] =
                IF stopOnError
                  THEN [r EXCEPT !.at = "reread", !.stopped = TRUE, !.copy.failed = @ + 1]
                  ELSE [r EXCEPT !.at = AfterMessage(i), !.copy.next = i + 1, !.copy.failed = @ + 1]]
  /\ UNCHANGED <<row, schedule, creating, flag, inFlight, cancel, reaper, reaping, session,
                 faults, history>>

(* Mutant: whether the save affected a row is not looked at. *)
SaveProgressUnchecked(n, b, w) ==
  LET r == run[n][b][w] IN
  /\ r.at = "save"
  /\ Guarded(b, [r.copy EXCEPT !.status = row[b].status])
  /\ run' = [run EXCEPT ![n][b][w].at = IF r.copy.next < Total THEN "check" ELSE "reread"]
  /\ UNCHANGED <<schedule, creating, flag, inFlight, cancel, reaper, reaping, session, faults, history>>

(* No row affected: a cancel committed first, and the loop ends. *)
SaveProgress(n, b, w) ==
  LET r == run[n][b][w] IN
  /\ r.at = "save"
  /\ Guarded(b, [r.copy EXCEPT !.status = row[b].status])
  /\ run' = [run EXCEPT ![n][b][w] =
              IF row[b].status = "CANCELLED"
                THEN [r EXCEPT !.at = "write", !.copy = Final(TRUE, r.stopped, @)]
                ELSE [r EXCEPT !.at = IF r.copy.next < Total THEN "check" ELSE "reread"]]
  /\ UNCHANGED <<schedule, creating, flag, inFlight, cancel, reaper, reaping, session, faults,
                 history>>

(* finalizeBatch() *)
Reread(n, b, w) ==
  LET r == run[n][b][w]
      cancelled == row[b].status = "CANCELLED" \/ flag[n][b] # "run"
  IN
  /\ r.at = "reread"
  /\ run' = [run EXCEPT ![n][b][w] =
              [r EXCEPT !.at = "write", !.copy = Final(cancelled, r.stopped, @)]]
  /\ UNCHANGED <<row, schedule, creating, flag, inFlight, cancel, reaper, reaping, session,
                 faults, history>>

(* CANCELLED is saved over whatever the row holds, the rest is guarded. *)
WriteFinal(n, b, w) ==
  LET r == run[n][b][w] IN
  /\ r.at = "write"
  /\ IF r.copy.status = "CANCELLED"
       THEN row' = [row EXCEPT ![b] = r.copy]
       ELSE Guarded(b, r.copy)
  /\ Finish(n, b, w)
  /\ UNCHANGED <<schedule, creating, cancel, reaper, reaping, session, faults, history>>

(* A query throws: the run ends and nothing tells the row.  A first read   *)
(* that throws has no batch to delete from processingBatches.              *)
QueryFails(n, b, w) ==
  /\ run[n][b][w].at \in {"read", "fail", "mark", "save", "reread", "write"}
  /\ faults < MaxFaults
  /\ faults' = faults + 1
  /\ run' = [run EXCEPT ![n][b][w] = Idle]
  /\ inFlight' = [inFlight EXCEPT ![n] = @ - 1]
  /\ flag' = IF run[n][b][w].at = "read" THEN flag ELSE [flag EXCEPT ![n][b] = "unset"]
  /\ UNCHANGED <<row, schedule, creating, cancel, reaper, reaping, session, history>>

-----------------------------------------------------------------------------
(* cancelBatch(), on the node the request reaches                          *)

CancelRead(n, b) ==
  /\ cancel[b] = NoCancel
  /\ row[b].status \in {"PENDING", "PROCESSING"}
  /\ flag' = [flag EXCEPT ![n][b] = "stop"]
  /\ cancel' = [cancel EXCEPT ![b] = [by |-> n, copy |-> Cancelled(row[b])]]
  /\ UNCHANGED <<row, schedule, creating, run, inFlight, reaper, reaping, session, faults, history>>

(* The index is not among the columns it writes. *)
CancelWrite(n, b) ==
  /\ cancel[b].by = n
  /\ cancel' = [cancel EXCEPT ![b] = NoCancel]
  /\ IF row[b].status \in {"PENDING", "PROCESSING"}
       THEN /\ row' = [row EXCEPT ![b] = [cancel[b].copy EXCEPT !.next = row[b].next]]
            /\ late' = [late EXCEPT ![b] = 0]
       ELSE UNCHANGED <<row, late>>
  /\ UNCHANGED <<schedule, creating, run, flag, inFlight, reaper, reaping, session, faults, delivered>>

-----------------------------------------------------------------------------
(* The reapers                                                             *)

(* onApplicationBootstrap(), which asks whether the session may be claimed *)
(* here, and reapProcessingBatches(), which does not.                      *)
ReapRead(n) ==
  /\ reaper[n] # "idle"
  /\ reaper' = [reaper EXCEPT ![n] = "idle"]
  /\ reaping' = [reaping EXCEPT ![n] = [b \in Batch |->
                   IF row[b].status = "PROCESSING" /\ (reaper[n] = "adopted" \/ owner \in {n, NoNode})
                     THEN row[b] ELSE NoRow]]
  /\ UNCHANGED <<row, schedule, creating, run, flag, inFlight, cancel, session, faults, history>>

(* failOrphanedBatch(): the row as it was read, saved whole. *)
ReapSave(n, b) ==
  /\ reaping[n][b] # NoRow
  /\ reaping' = [reaping EXCEPT ![n][b] = NoRow]
  /\ row' = [row EXCEPT ![b] = [reaping[n][b] EXCEPT !.status = "FAILED"]]
  /\ UNCHANGED <<schedule, creating, run, flag, inFlight, cancel, reaper, session, faults, history>>

-----------------------------------------------------------------------------
(* The session, the clock and the processes                                *)

TimeComes(b) ==
  /\ schedule[b] = "later"
  /\ schedule' = [schedule EXCEPT ![b] = "due"]
  /\ UNCHANGED <<row, creating, run, flag, inFlight, cancel, reaper, reaping, session, faults, history>>

(* Started by hand, at boot, or by a reconnect of its owner. *)
Connect(n) ==
  /\ owner \in {n, NoNode} /\ ~connected
  /\ owner' = n /\ connected' = TRUE
  /\ UNCHANGED <<row, schedule, creating, run, flag, inFlight, cancel, reaper, reaping, others, faults,
                 history>>

(* Started by the takeover sweep, which then reaps the session's batches. *)
Adopt(n) ==
  /\ owner = NoNode /\ reaper[n] = "idle"
  /\ owner' = n /\ connected' = TRUE
  /\ reaper' = [reaper EXCEPT ![n] = "adopted"]
  /\ UNCHANGED <<row, schedule, creating, run, flag, inFlight, cancel, reaping, others, faults, history>>

(* A run keeps the engine it started with, so its sends fail from now on. *)
Orphaned(f) ==
  [n \in Node |-> [b \in Batch |-> [w \in Caller |-> [f[n][b][w] EXCEPT !.live = FALSE]]]]

Disconnect ==
  /\ connected
  /\ faults < MaxFaults
  /\ faults' = faults + 1
  /\ connected' = FALSE
  /\ run' = Orphaned(run)
  /\ UNCHANGED <<row, schedule, creating, flag, inFlight, cancel, reaper, reaping, owner, others, history>>

(* The lease of a session without an engine is released, or lapses. *)
LoseLease ==
  /\ owner # NoNode /\ ~connected
  /\ owner' = NoNode
  /\ UNCHANGED <<row, schedule, creating, run, flag, inFlight, cancel, reaper, reaping, connected,
                 others, faults, history>>

(* Batches of other sessions come due, are cancelled, or get an engine and *)
(* are sent.                                                               *)
OthersChange ==
  /\ others' \in (0 .. MaxOthers) \ {others}
  /\ UNCHANGED <<row, schedule, creating, run, flag, inFlight, cancel, reaper, reaping, owner,
                 connected, faults, history>>

(* The process dies and boots again; its memory is gone. *)
Crash(n) ==
  /\ faults < MaxFaults
  /\ faults' = faults + 1
  /\ connected' = (connected /\ owner # n)
  /\ creating' = [b \in Batch |-> IF creating[b] = n THEN NoNode ELSE creating[b]]
  /\ run' = [run EXCEPT ![n] = [b \in Batch |-> [w \in Caller |-> Idle]]]
  /\ flag' = [flag EXCEPT ![n] = [b \in Batch |-> "unset"]]
  /\ inFlight' = [inFlight EXCEPT ![n] = 0]
  /\ cancel' = [b \in Batch |-> IF cancel[b].by = n THEN NoCancel ELSE cancel[b]]
  /\ reaper' = [reaper EXCEPT ![n] = "boot"]
  /\ reaping' = [reaping EXCEPT ![n] = [b \in Batch |-> NoRow]]
  /\ UNCHANGED <<row, schedule, owner, others, history>>

-----------------------------------------------------------------------------

RunStep(n, b, w) ==
  \/ ReadBatch(n, b, w)
  \/ FailWithoutEngine(n, b, w)
  \/ MarkProcessing(n, b, w)
  \/ CheckFlag(n, b, w)
  \/ Sent(n, b, w)
  \/ SendFails(n, b, w)
  \/ SaveProgress(n, b, w)
  \/ Reread(n, b, w)
  \/ WriteFinal(n, b, w)

Next ==
  \/ \E n \in Node, b \in Batch :
       \/ Reserve(n, b)
       \/ SaveNew(n, b)
       \/ SaveFails(n, b)
       \/ \E w \in Caller : RunStep(n, b, w) \/ QueryFails(n, b, w)
       \/ CancelRead(n, b)
       \/ CancelWrite(n, b)
       \/ ReapSave(n, b)
  \/ \E n \in Node :
       \/ Sweep(n)
       \/ ReapRead(n)
       \/ Connect(n)
       \/ Adopt(n)
       \/ Crash(n)
  \/ \E b \in Batch : TimeComes(b)
  \/ Disconnect
  \/ LoseLease
  \/ OthersChange

(* The page of a sweep is full of batches that no sweep can start. *)
Starved == others >= Take

(* Timers fire, queries and sends return, and a session that lost its      *)
(* engine is reconnected, restarted or taken over.  Nobody has to create   *)
(* or to cancel anything, and a page that may leave the batches of this    *)
(* session out is not bound to hold them, however often it is taken.       *)
Fairness ==
  /\ \A n \in Node :
       /\ WF_vars(~Starved /\ Sweep(n)) /\ WF_vars(ReapRead(n))
       /\ \A b \in Batch :
            /\ WF_vars(SaveNew(n, b)) /\ WF_vars(CancelWrite(n, b)) /\ WF_vars(ReapSave(n, b))
            /\ \A w \in Caller : WF_vars(RunStep(n, b, w))
  /\ WF_vars(\E n \in Node : Connect(n) \/ Adopt(n))
  /\ \A b \in Batch : WF_vars(TimeComes(b))

Spec == Init /\ [][Next]_vars /\ Fairness

-----------------------------------------------------------------------------

(* Whatever interleaving of creations, sweeps, failures and crashes, the   *)
(* counter that createBatch() checks against the cap counts every batch    *)
(* the process creates or sends, its sweep's too: a batch is never         *)
(* admitted while MaxInFlight others are at work.  The sweep itself asks   *)
(* for no place, and a place that is never given back is not seen here.    *)
ReservationsCover ==
  \A n \in Node :
    inFlight[n] >= Cardinality(Runs(n)) + Cardinality({b \in Batch : creating[b] = n})

(* Nothing but one loop has worked on the batch: it was to be sent at      *)
(* once, or it was scheduled and no fault made a second node start it.     *)
Undisturbed(b) == schedule[b] = "none" \/ (schedule[b] # "past" /\ faults = 0)

(* No recipient is sent to twice, by an immediate batch even when          *)
(* processes crash, engines move and queries fail: no reaper, sweep or     *)
(* takeover resumes it.                                                    *)
SentOnce == \A b \in Batch : Undisturbed(b) => \A i \in Item : delivered[b][i] <= 1

(* An immediate batch that ends COMPLETED has an outcome for every         *)
(* recipient and counts as sent those it did send to: stale copies of the  *)
(* row that reapers and cancels write back do not end up under COMPLETED.  *)
CompletedIsExact ==
  \A b \in Batch : row[b].status = "COMPLETED" /\ schedule[b] = "none" =>
    /\ row[b].sent + row[b].failed = Total
    /\ row[b].sent = Cardinality({i \in Item : delivered[b][i] > 0})

(* After a cancel committed, on whichever node, the loop sends at most as  *)
(* many messages as lie between two saves of its progress.                 *)
LateSendsBounded == \A b \in Batch : Undisturbed(b) => late[b] <= Cadence

Reaped(b) == \E n \in Node : reaping[n][b] # NoRow /\ reaping'[n][b] = NoRow

(* No loop, start or final write brings a cancelled batch back, however    *)
(* late it lands; only a reaper's unguarded save of an older copy does.    *)
CancelledStays ==
  [][\A b \in Batch :
       row[b].status = "CANCELLED" => row'[b].status = "CANCELLED" \/ Reaped(b)]_vars

(* A batch whose time has come leaves PENDING: it is deferred while the    *)
(* engine is away, and the sweep of whichever node then has it starts it,  *)
(* unless at some time the due batches of sessions without an engine fill  *)
(* a page.                                                                 *)
DueStarts ==
  \A b \in Batch :
    (row[b].status = "PENDING" /\ IsDue(b)) ~> (row[b].status # "PENDING" \/ Starved)
===============================================================================
