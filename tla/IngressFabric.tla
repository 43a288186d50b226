----------------------------- MODULE IngressFabric -----------------------------
(***************************************************************************)
(* Integration ingress: events that providers post to a plugin instance.   *)
(* The row of an event is stored before it is acknowledged, and everything *)
(* that may still fail comes after: the job, the inline dispatch, the mark *)
(* on the row, the dead letter.  Three runners drive an event to its       *)
(* plugin: the live request, the sweep of the reconciler on any node, and  *)
(* a redrive of dead letters.  All three call enqueue(), which adds a job  *)
(* or, when the queue refuses or is off, dispatches inline.                *)
(*                                                                         *)
(* Each event is of an instance of its own.  A runner is cut at every      *)
(* await; what it works on is the copy it read when it began.              *)
(***************************************************************************)
EXTENDS Integers, Sequences, FiniteSets

CONSTANTS
  Node,        \* processes that share the database and the queue
  NoNode,      \* no process
  Event,       \* provider delivery ids
  JobAttempts, \* INGRESS_MAX_ATTEMPTS
  MaxAttempts, \* INGRESS_RECONCILE_MAX_ATTEMPTS
  Batch,       \* INGRESS_RECONCILE_BATCH_SIZE
  MaxLetters,  \* bound on the dead letters of an event that a redrive takes up
  Starts       \* what a behaviour may start with, see Start

(* The stored events, left pending by processes that died, oldest first;   *)
(* the events to come; the processes; bounds on redrives and on crashes,   *)
(* stalls and failing queries together.  An event has one row.             *)
Start ==
  {s \in [stored: Seq(Event), coming: SUBSET Event, up: SUBSET Node,
          redrives: Nat, faults: Nat] :
     \A i, j \in DOMAIN s.stored :
       s.stored[i] \notin s.coming /\ (s.stored[i] = s.stored[j] => i = j)}

ASSUME ConstantsAssumption ==
  /\ NoNode \notin Node
  /\ IsFiniteSet(Node) /\ Node # {}
  /\ IsFiniteSet(Event)
  /\ {JobAttempts, MaxAttempts, Batch} \subseteq Nat \ {0}
  /\ MaxLetters \in Nat
  /\ Starts \subseteq Start

VARIABLES
  row,       \* ingress_events: state and dispatchAttempts
  born,      \* the stored events, oldest first
  letters,   \* integration_delivery_failures of each event, oldest first
  jobs,      \* the ingress queue, by job id
  run,       \* the runners
  coming,    \* the events the provider has yet to post
  up,        \* the processes, which Init chooses
  enabled,   \* plugin_instances.enabled of each event's instance
  redrives,  \* how many redrives may still be asked for
  faults,    \* how much may still go wrong
  delivered, \* how often the plugin handled each event (2 for more)
  disturbed  \* events a fault or two runners at once had to do with

database == <<row, born, letters, enabled>>
history == <<delivered, disturbed>>
(* What the environment may still do, but for Receive.                     *)
world == <<coming, up, redrives>>
vars == <<database, jobs, run, world, faults, history>>

(* The live request names its job by the delivery id, as the sweep does; a *)
(* redrive names it by the dead letter.  Letter 0 stands for the former.   *)
Key == Event \X (0 .. MaxLetters)

Runner == ({"live"} \X Event) \cup ({"sweep", "redrive"} \X Node)

RowStates == {"none", "pending", "dispatched", "failed"}
JobStates == {"none", "waiting", "saving", "done", "failed"}
RunStates ==
  {"idle", "resolve", "add", "dispatch",        \* every runner
   "mark", "letter",                            \* the live request
   "close", "retire", "charge", "count", "save", "fail", \* the sweep
   "retireEvent", "retireLetter"}               \* a redrive

Item == [event: Event, attempts: Nat, letter: Nat]
RunRecord == [at: RunStates, node: Node \cup {NoNode},
              result: {"none", "queued", "dispatched", "failed"}, work: Seq(Item)]
JobRecord == [state: JobStates, made: Nat, stalled: BOOLEAN]

Idle == [at |-> "idle", node |-> NoNode, result |-> "none", work |-> <<>>]
NoJob == [state |-> "none", made |-> 0, stalled |-> FALSE]

TypeOK ==
  /\ row \in [Event -> [state: RowStates, attempts: 0 .. MaxAttempts + 1]]
  /\ born \in Seq(Event)
  /\ letters \in [Event -> Seq({"open", "retired"})]
  /\ jobs \in [Key -> JobRecord]
  /\ run \in [Runner -> RunRecord]
  /\ \A w \in Runner : run[w].at = "idle" <=> run[w].work = <<>>
  /\ coming \subseteq Event /\ up \subseteq Node
  /\ enabled \in [Event -> BOOLEAN]
  /\ redrives \in Nat /\ faults \in Nat
  /\ delivered \in [Event -> 0 .. 2]
  /\ disturbed \subseteq Event

Init ==
  /\ \E start \in Starts :
       /\ born = start.stored
       /\ coming = start.coming
       /\ up = start.up
       /\ redrives = start.redrives
       /\ faults = start.faults
       /\ row = [e \in Event |->
                   [state |-> IF \E i \in DOMAIN born : born[i] = e
                              THEN "pending" ELSE "none",
                    attempts |-> 0]]
  /\ letters = [e \in Event |-> <<>>]
  /\ jobs = [k \in Key |-> NoJob]
  /\ run = [w \in Runner |-> Idle]
  /\ enabled = [e \in Event |-> TRUE]
  /\ delivered = [e \in Event |-> 0]
  /\ disturbed = {}

-----------------------------------------------------------------------------
(* Runners *)

Current(w) == Head(run[w].work)
KeyOf(w) == <<Current(w).event, Current(w).letter>>

(* The events a runner holds a copy of, those it has yet to come to too.   *)
Holds(w) == {run[w].work[i].event : i \in DOMAIN run[w].work}

(* A runner starts on its first item; the sweep asks for the instance      *)
(* before it replays.                                                      *)
StartAt(w) == IF w[1] = "sweep" THEN "resolve" ELSE "add"

Begin(w, n, items) ==
  /\ run' = [run EXCEPT ![w] = [at |-> StartAt(w), node |-> n, result |-> "none",
                                work |-> items]]
  /\ disturbed' = disturbed \cup
       ({items[i].event : i \in DOMAIN items} \cap UNION {Holds(v) : v \in Runner})

(* A mutant: the guard against overlapping runs is not reset at the end.   *)
NeverIdle(w) ==
  IF Len(run[w].work) = 1
  THEN [run[w] EXCEPT !.work = <<>>]
  ELSE [run[w] EXCEPT !.at = StartAt(w), !.result = "none", !.work = Tail(@)]

(* The run after its current item.                                         *)
Advanced(w) ==
  IF Len(run[w].work) = 1
  THEN Idle
  ELSE [run[w] EXCEPT !.at = StartAt(w), !.result = "none", !.work = Tail(@)]

(* Where a runner goes with the outcome of enqueue().                      *)
Concluded(w, result) ==
  CASE w[1] = "live" -> [run[w] EXCEPT !.at = "mark", !.result = result]
    [] w[1] = "sweep" /\ result # "failed" ->
         [run[w] EXCEPT !.at = "close", !.result = result]
    [] w[1] = "sweep" /\ result = "failed" ->
         [run[w] EXCEPT !.at = IF Current(w).attempts + 1 >= MaxAttempts
                               THEN "count" ELSE "charge"]
    [] w[1] = "redrive" /\ result # "failed" ->
         [run[w] EXCEPT !.at = "retireEvent", !.result = result]
    [] OTHER -> Advanced(w)

MoveTo(w, at) == run' = [run EXCEPT ![w].at = at]
Move(w) == run' = [run EXCEPT ![w] = Advanced(w)]

(* Counted up to 2, and to 1 where the count no longer means anything.      *)
Handled(e) ==
  delivered' = [delivered EXCEPT ![e] = IF @ = 0 \/ e \in disturbed THEN 1 ELSE 2]
Disturb(E) == disturbed' = disturbed \cup E
Fault == faults > 0 /\ faults' = faults - 1

-----------------------------------------------------------------------------
(* The live request *)

(* handle() gets past its checks and recordOrSkip() inserts the row.  When *)
(* the answer of that insert is lost the request fails, and the retries of *)
(* the provider are answered as duplicates of a row nobody dispatches.     *)
Receive(e, n) ==
  /\ e \in coming /\ enabled[e]
  /\ coming' = coming \ {e}
  /\ row' = [row EXCEPT ![e].state = "pending"]
  /\ born' = Append(born, e)
  /\ \/ /\ Begin(<<"live", e>>, n, <<[event |-> e, attempts |-> 0, letter |-> 0]>>)
        /\ UNCHANGED faults
     \/ Fault /\ Disturb({e}) /\ UNCHANGED run
  /\ UNCHANGED <<letters, enabled, jobs, up, redrives, delivered>>

(* markDispatchOutcome(): a failure is counted and leaves the row pending, *)
(* anything else retires it, whatever state it is in by now.               *)
Mark(w) ==
  LET e == Current(w).event IN
  /\ run[w].at = "mark"
  /\ IF run[w].result = "failed"
     THEN /\ row' = [row EXCEPT ![e].attempts = @ + 1]
          /\ MoveTo(w, "letter")
     ELSE /\ row' = [row EXCEPT ![e].state = "dispatched"]
          /\ Move(w)
  /\ UNCHANGED <<born, letters, enabled, jobs, world, faults, history>>

(* The dead letter of an inline dispatch that failed.                      *)
WriteLetter(w) ==
  /\ run[w].at = "letter"
  /\ letters' = [letters EXCEPT ![Current(w).event] = Append(@, "open")]
  /\ Move(w)
  /\ UNCHANGED <<row, born, enabled, jobs, world, faults, history>>

-----------------------------------------------------------------------------
(* enqueue() *)

(* add() puts a job into the queue unless the queue knows its id: a job    *)
(* that is finished, well or badly, is kept and still blocks the id.       *)
Added(k) ==
  IF jobs[k].state = "none"
  THEN [jobs EXCEPT ![k] = [NoJob EXCEPT !.state = "waiting"]]
  ELSE jobs

(* add() is accepted, or rejects: before the job was stored or after.  A   *)
(* queue that is switched off is one that always rejects.                  *)
Add(w) ==
  /\ run[w].at = "add"
  /\ \/ /\ jobs' = Added(KeyOf(w))
        /\ run' = [run EXCEPT ![w] = Concluded(w, "queued")]
        /\ UNCHANGED disturbed
     \/ /\ MoveTo(w, "dispatch")
        /\ UNCHANGED <<jobs, disturbed>>
     \/ /\ jobs' = Added(KeyOf(w)) /\ jobs' # jobs
        /\ MoveTo(w, "dispatch")
        /\ Disturb({Current(w).event})
  /\ UNCHANGED <<database, world, faults, delivered>>

(* What dispatchWebhookForInstance() comes to: the plugin handled it or    *)
(* not, and a time-out or the exit of the worker may hide that it did.     *)
Dispatched(e, ok, failed) ==
  \/ ok /\ Handled(e) /\ UNCHANGED disturbed
  \/ failed /\ UNCHANGED history
  \/ failed /\ Handled(e) /\ Disturb({e})

DispatchInline(w) ==
  /\ run[w].at = "dispatch"
  /\ Dispatched(Current(w).event,
                run' = [run EXCEPT ![w] = Concluded(w, "dispatched")],
                run' = [run EXCEPT ![w] = Concluded(w, "failed")])
  /\ UNCHANGED <<database, jobs, world, faults>>

-----------------------------------------------------------------------------
(* The reconciler *)

Pending(e) == row[e].state = "pending"
Backlog == {e \in Event : Pending(e)}
Older(d, e) == \E i, j \in DOMAIN born : i < j /\ born[i] = d /\ born[j] = e
Min2(a, b) == IF a < b THEN a ELSE b

(* Lists of n members of S, none of them twice.                            *)
Lists(S, n) == {q \in [1 .. n -> S] : \A i, j \in 1 .. n : q[i] = q[j] => i = j}

(* The oldest rows that are still pending, a batch of them.                *)
Stale ==
  {q \in Lists(Backlog, Min2(Batch, Cardinality(Backlog))) :
     \A i \in DOMAIN q, e \in Backlog :
       Older(e, q[i]) => \E j \in DOMAIN q : j < i /\ q[j] = e}

(* sweep(); a live request may outlast the grace period.                   *)
BeginSweep(n) ==
  /\ run[<<"sweep", n>>].at = "idle"
  /\ Backlog # {}
  /\ \E stale \in Stale :
       Begin(<<"sweep", n>>, n,
             [i \in DOMAIN stale |->
                [event |-> stale[i], attempts |-> row[stale[i]].attempts,
                 letter |-> 0]])
  /\ UNCHANGED <<database, jobs, world, faults, delivered>>

(* An instance that was disabled since keeps its row pending and uncharged. *)
ResolveInstance(w) ==
  /\ run[w].at = "resolve"
  /\ IF enabled[Current(w).event] THEN MoveTo(w, "add") ELSE Move(w)
  /\ UNCHANGED <<database, jobs, world, faults, history>>

CloseReplayed(w) ==
  /\ run[w].at = "close"
  /\ row' = [row EXCEPT ![Current(w).event].state = "dispatched"]
  /\ MoveTo(w, "retire")
  /\ UNCHANGED <<born, letters, enabled, jobs, world, faults, history>>

(* Every open dead letter of the delivery, whoever wrote it and when.      *)
RetireLetters(w) ==
  /\ run[w].at = "retire"
  /\ letters' = [letters EXCEPT ![Current(w).event] =
                   [i \in DOMAIN @ |-> "retired"]]
  /\ Move(w)
  /\ UNCHANGED <<row, born, enabled, jobs, world, faults, history>>

(* A mutant: failed replays are not counted.                               *)
ChargeNothing(w) ==
  /\ run[w].at = "charge"
  /\ row' = [row EXCEPT ![Current(w).event].attempts = Current(w).attempts]
  /\ Move(w)
  /\ UNCHANGED <<born, letters, enabled, jobs, world, faults, history>>

(* A failed replay is charged on top of the count that was read.           *)
Charge(w) ==
  /\ run[w].at = "charge"
  /\ row' = [row EXCEPT ![Current(w).event].attempts = Current(w).attempts + 1]
  /\ Move(w)
  /\ UNCHANGED <<born, letters, enabled, jobs, world, faults, history>>

(* A mutant: the check for a dead letter the wrong way round.              *)
CountLettersInverted(w) ==
  /\ run[w].at = "count"
  /\ MoveTo(w, IF letters[Current(w).event] = <<>> THEN "fail" ELSE "save")
  /\ UNCHANGED <<database, jobs, world, faults, history>>

(* The last one: a dead letter first, unless there is one, open or not.    *)
CountLetters(w) ==
  /\ run[w].at = "count"
  /\ MoveTo(w, IF letters[Current(w).event] = <<>> THEN "save" ELSE "fail")
  /\ UNCHANGED <<database, jobs, world, faults, history>>

SaveLetter(w) ==
  /\ run[w].at = "save"
  /\ letters' = [letters EXCEPT ![Current(w).event] = Append(@, "open")]
  /\ MoveTo(w, "fail")
  /\ UNCHANGED <<row, born, enabled, jobs, world, faults, history>>

CloseFailed(w) ==
  /\ run[w].at = "fail"
  /\ row' = [row EXCEPT ![Current(w).event] =
               [state |-> "failed", attempts |-> Current(w).attempts + 1]]
  /\ Move(w)
  /\ UNCHANGED <<born, letters, enabled, jobs, world, faults, history>>

-----------------------------------------------------------------------------
(* Redrives *)

OpenLetters(e) == {i \in DOMAIN letters[e] : letters[e][i] = "open"}

(* redriveInstance(): the open dead letters, under a lock of this process. *)
(* Those that earlier redrives tried come last, in no order known here.    *)
BeginRedrive(n, e) ==
  /\ redrives > 0 /\ Len(letters[e]) <= MaxLetters
  /\ run[<<"redrive", n>>].at = "idle"
  /\ OpenLetters(e) # {}
  /\ \E open \in Lists(OpenLetters(e), Cardinality(OpenLetters(e))) :
       Begin(<<"redrive", n>>, n,
             [i \in DOMAIN open |->
                [event |-> e, attempts |-> 0, letter |-> open[i]]])
  /\ redrives' = redrives - 1
  /\ UNCHANGED <<database, coming, up, jobs, faults, delivered>>

(* A mutant: a redrive leaves the row of the event to the reconciler.      *)
LeaveEvent(w) ==
  /\ run[w].at = "retireEvent"
  /\ MoveTo(w, "retireLetter")
  /\ UNCHANGED <<database, jobs, world, faults, history>>

(* The row of the event first, if it is still pending, ...                 *)
RetireEvent(w) ==
  LET e == Current(w).event IN
  /\ run[w].at = "retireEvent"
  /\ row' = [row EXCEPT ![e].state = IF @ = "pending" THEN "dispatched" ELSE @]
  /\ MoveTo(w, "retireLetter")
  /\ UNCHANGED <<born, letters, enabled, jobs, world, faults, history>>

(* ... then the dead letter.                                               *)
RetireLetter(w) ==
  /\ run[w].at = "retireLetter"
  /\ letters' = [letters EXCEPT ![Current(w).event][Current(w).letter] = "retired"]
  /\ Move(w)
  /\ UNCHANGED <<row, born, enabled, jobs, world, faults, history>>

-----------------------------------------------------------------------------
(* The queue *)

(* A worker takes the job and dispatches it.  The last attempt that fails  *)
(* is recorded before the job fails.                                       *)
ProcessJob(k) ==
  /\ jobs[k].state = "waiting"
  /\ Dispatched(k[1],
       jobs' = [jobs EXCEPT ![k].state = "done"],
       jobs' = IF jobs[k].made + 1 >= JobAttempts
               THEN [jobs EXCEPT ![k].state = "saving"]
               ELSE [jobs EXCEPT ![k].made = @ + 1])
  /\ UNCHANGED <<database, run, world, faults>>

SaveJobLetter(k) ==
  /\ jobs[k].state = "saving"
  /\ jobs' = [jobs EXCEPT ![k].state = "failed"]
  /\ \/ /\ letters' = [letters EXCEPT ![k[1]] = Append(@, "open")]
        /\ UNCHANGED <<faults, disturbed>>
     \/ Fault /\ Disturb({k[1]}) /\ UNCHANGED letters
  /\ UNCHANGED <<row, born, enabled, run, world, delivered>>

(* The worker dies in the middle of the job.  The job is started once      *)
(* more; the second time it fails without process(), which nothing records. *)
Stall(k) ==
  /\ jobs[k].state \in {"waiting", "saving"}
  /\ Fault /\ Disturb({k[1]})
  /\ jobs' = [jobs EXCEPT ![k] =
                IF @.stalled THEN [@ EXCEPT !.state = "failed"]
                             ELSE [@ EXCEPT !.state = "waiting", !.stalled = TRUE]]
  /\ UNCHANGED <<database, run, world, delivered>>

-----------------------------------------------------------------------------
(* The environment *)

(* A query fails.  The live request logs it and goes on, the reconciler    *)
(* leaves the row for a later sweep, a redrive ends with an error.         *)
FailQuery(w) ==
  /\ run[w].at \notin {"idle", "add", "dispatch"}
  /\ Fault
  /\ Disturb({Current(w).event})
  /\ CASE w[1] = "sweep" -> Move(w)
       [] w[1] = "live" /\ run[w].at = "mark" /\ run[w].result = "failed" ->
            MoveTo(w, "letter")
       [] OTHER -> run' = [run EXCEPT ![w] = Idle]
  /\ UNCHANGED <<database, jobs, world, delivered>>

(* A process dies and is started again; for its worker see Stall.          *)
Crash(n) ==
  LET running == {w \in Runner : run[w].node = n} IN
  /\ running # {}
  /\ Fault /\ Disturb(UNION {Holds(w) : w \in running})
  /\ run' = [w \in Runner |-> IF w \in running THEN Idle ELSE run[w]]
  /\ UNCHANGED <<database, jobs, world, delivered>>

(* The operator disables the instance or enables it again; after the row   *)
(* is retired nobody looks.                                                *)
Toggle(e) ==
  /\ Pending(e)
  /\ enabled' = [enabled EXCEPT ![e] = ~@]
  /\ UNCHANGED <<row, born, letters, jobs, run, world, faults, history>>

-----------------------------------------------------------------------------
LiveStep(w) == Mark(w) \/ WriteLetter(w)
SweepStep(w) ==
  \/ ResolveInstance(w) \/ CloseReplayed(w) \/ RetireLetters(w)
  \/ Charge(w) \/ CountLetters(w) \/ SaveLetter(w) \/ CloseFailed(w)
RedriveStep(w) == RetireEvent(w) \/ RetireLetter(w)

Step(w) ==
  Add(w) \/ DispatchInline(w) \/ LiveStep(w) \/ SweepStep(w) \/ RedriveStep(w)

Next ==
  \/ \E e \in Event, n \in up : Receive(e, n)
  \/ \E w \in Runner : Step(w)
  \/ \E n \in up : BeginSweep(n)
  \/ \E n \in up, e \in Event : BeginRedrive(n, e)
  \/ \E k \in Key : ProcessJob(k)
  \/ \E k \in Key : SaveJobLetter(k)
  \/ \E k \in Key : Stall(k)
  \/ \E w \in Runner : FailQuery(w)
  \/ \E n \in up : Crash(n)
  \/ \E e \in Event : Toggle(e)

(* The interval of a process fires, and what its sweep awaits is answered. *)
Fairness ==
  /\ \A n \in Node : WF_vars(n \in up /\ BeginSweep(n))
  /\ \A n \in Node : WF_vars(Step(<<"sweep", n>>))

Spec == Init /\ [][Next]_vars /\ Fairness

-----------------------------------------------------------------------------
(* Properties *)

Carried(e) ==
  \E k \in Key : k[1] = e /\ jobs[k].state \in {"waiting", "saving"}

(* Somebody still knows of the event: its row will be replayed, a job      *)
(* carries it, a dead letter can be redriven, or the plugin has it.        *)
Known(e) ==
  \/ row[e].state \in {"none", "pending"}
  \/ Carried(e)
  \/ OpenLetters(e) # {}
  \/ delivered[e] > 0

(* A job failed and its dead letter was not written.                       *)
Unrecorded(e) ==
  /\ \E k \in Key :
       k[1] = e /\ jobs[k].state # "failed" /\ jobs'[k].state = "failed"
  /\ letters'[e] = letters[e]

(* A runner takes a job that has failed for the delivery of the event: the *)
(* id was refused because of it, or it failed since it was added.          *)
Misled(e) ==
  \E w \in Runner :
    /\ run[w].result = "queued" /\ Current(w).event = e
    /\ jobs[KeyOf(w)].state = "failed"
    /\ run'[w] # run[w]

(* No step of a request, a replay, a redrive, a worker or a crash, in any  *)
(* order, makes the gateway forget an acknowledged event that no plugin    *)
(* has seen, except the two above.                                         *)
LossIsKnown ==
  [][\A e \in Event : Known(e) => Known(e)' \/ Unrecorded(e) \/ Misled(e)]_vars

(* Three runners and two job ids deliver an event once, unless a fault, a  *)
(* lost answer or two of them at once are to blame: each closes what the   *)
(* others would start from before it is done.                              *)
DeliveredOnce == \A e \in Event : e \notin disturbed => delivered[e] <= 1

(* The event is behind a full batch of rows no sweep will charge.          *)
Starved(e) ==
  Cardinality({d \in Backlog : Older(d, e) /\ ~enabled[d]}) >= Batch

(* A stored event does not stay pending: it is dispatched or dead-lettered *)
(* however its dispatches end, unless its instance is disabled time and    *)
(* again or it is behind a full batch of such rows.                        *)
PendingSettles ==
  \A e \in Event : <>[]Pending(e) => []<>(~enabled[e] \/ Starved(e))

===============================================================================
