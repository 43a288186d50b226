---------------------------- MODULE EngineLifecycle ----------------------------
(***************************************************************************)
(* The engines of one session in one process: the registry that says which *)
(* engine counts, start() and the reconnect attempts that build engines,   *)
(* the controls that retire them, and the events of engines that may have  *)
(* been replaced by the time they speak.                                   *)
(*                                                                         *)
(* A handler runs without interruption from one await to the next, so each *)
(* action is the code between two awaits.  A handler that looked something *)
(* up before an await works on what it found, here the engine in its       *)
(* record.                                                                 *)
(***************************************************************************)
EXTENDS Integers, FiniteSets

CONSTANTS
  Engine,      \* engine objects; one that nothing refers to any more is taken for a new one
  NoEngine,    \* no engine
  Attempt,     \* executeReconnect() calls at work at once, a bound
  Control,     \* stop(), forceKill(), delete() and stopOrphanEngines() calls at once, a bound
  MaxAttempts  \* maxReconnectAttempts

Start == "start"
Launcher == Attempt \cup {Start}

ASSUME ConstantsAssumption ==
  /\ NoEngine \notin Engine
  /\ IsFiniteSet(Engine)
  /\ Start \notin Attempt
  /\ MaxAttempts \in Nat

VARIABLES
  row,       \* sessions.status, "gone" for a deleted row
  owned,     \* owns(): this process holds the lease
  registry,  \* EngineRegistry: the engine that counts
  engine,    \* what the engine objects are
  mark,      \* stoppingSessions has the session
  retry,     \* reconnectStates of the session
  launch,    \* start() and the executeReconnect() calls
  control,   \* the controls
  excused,   \* something happened that the code does not make up for
  reports,   \* engines whose handleEngineDisconnected() reads the row
  beside     \* what something was started beside that the code does not keep from it

local == <<owned, registry, engine>>
vars == <<row, local, mark, retry, launch, control, excused, reports, beside>>

Statuses == {"DISCONNECTED", "INITIALIZING", "READY", "FAILED", "gone"}

(* "down" is not launched yet or killed, "mute" linked to a connection that *)
(* died without an event, "doomed" evicted and being killed by nobody who   *)
(* waits for it.                                                            *)
EngineStates == {"down", "launching", "linked", "dropped", "mute", "doomed"}

(* The state start() sets up is "dormant"; a timer that fired stays "spent" *)
(* in it until it is armed again.                                           *)
TimerStates == {"none", "dormant", "armed", "spent"}

LaunchStates ==
  {"idle", "find", "hook", "destroy", "status", "init", "timeout", "thrown", "evict", "check", "reap"}
Kinds == {"stop", "kill", "delete", "orphan", "rebind"}
ControlStates == {"idle", "enter", "teardown", "write", "clear"}

Rest == [at |-> "idle", on |-> NoEngine]
AtRest == [at |-> "idle", kind |-> "stop", on |-> NoEngine]
NoRetry == [timer |-> "none", attempts |-> 0]

TypeOK ==
  /\ row \in Statuses
  /\ owned \in BOOLEAN
  /\ registry \in Engine \cup {NoEngine}
  /\ engine \in [Engine -> EngineStates]
  /\ mark \in BOOLEAN
  /\ retry \in [timer: TimerStates, attempts: 0..MaxAttempts]
  /\ launch \in [Launcher -> [at: LaunchStates, on: Engine \cup {NoEngine}]]
  /\ control \in [Control -> [at: ControlStates, kind: Kinds, on: Engine \cup {NoEngine}]]
  /\ excused \in BOOLEAN
  /\ reports \subseteq Engine
  /\ beside \subseteq {"attempt", "delete"}

Init ==
  /\ row = "DISCONNECTED"
  /\ owned = FALSE
  /\ registry = NoEngine
  /\ engine = [e \in Engine |-> "down"]
  /\ mark = FALSE
  /\ retry = NoRetry
  /\ launch = [p \in Launcher |-> Rest]
  /\ control = [c \in Control |-> AtRest]
  /\ excused = FALSE
  /\ reports = {}
  /\ beside = {}

-----------------------------------------------------------------------------
(* What the actions are built from.                                        *)

Alive(e) == engine[e] # "down"

(* An object nothing refers to, hence a new one. *)
Fresh(e) ==
  /\ ~Alive(e) /\ registry # e /\ e \notin reports
  /\ \A p \in Launcher : launch[p].on # e
  /\ \A c \in Control : control[c].on # e

(* initializingSessions *)
Starting == launch[Start].at # "idle"

Deleting == \E c \in Control : control[c].kind = "delete" /\ control[c].at \notin {"idle", "enter"}

Reconnecting == \E p \in Attempt : launch[p].at # "idle"

(* What a start or an attempt may find at work. *)
Ongoing ==
  (IF Reconnecting THEN {"attempt"} ELSE {}) \cup (IF Deleting THEN {"delete"} ELSE {})

(* isEngineActive(), what concerns the reconnect state, then all of it.    *)
Retrying == retry.timer \in {"armed", "spent"} \/ retry.attempts > 0
EngineActive == registry # NoEngine \/ Starting \/ Retrying

Goes(p, at, e) == launch' = [launch EXCEPT ![p] = [at |-> at, on |-> e]]
Ends(p) == launch' = [launch EXCEPT ![p] = Rest]

(* updateStatus() *)
Write(status) == row' = IF row = "gone" THEN row ELSE status

Killed(e) == [engine EXCEPT ![e] = "down"]

(* deleteIfLive() *)
Without(e) == IF registry = e THEN NoEngine ELSE registry

CancelReconnect == retry' = NoRetry

(* evictAndForceDestroy() of the engine e; nobody waits for the kill. *)
Doomed(e) == [k \in Engine |-> IF k = e /\ Alive(k) THEN "doomed" ELSE engine[k]]

(* scheduleReconnect() and decideReconnect(): nothing without a state,     *)
(* FAILED and no engine when the budget is spent.  The budget starts anew  *)
(* five minutes after the last attempt.                                    *)
Budgets == {retry.attempts, 0}

(* Mutant: one attempt too many. *)
ExhaustedLate(spent) == retry.timer # "none" /\ spent > MaxAttempts

Exhausted(spent) == retry.timer # "none" /\ spent >= MaxAttempts

Rescheduled(spent) ==
  IF retry.timer = "none" \/ Exhausted(spent) THEN NoRetry
  ELSE [timer |-> "armed", attempts |-> spent + 1]

-----------------------------------------------------------------------------
(* initializeEngine(), for a start and for an attempt                      *)

(* A new engine is registered before anything is awaited. *)
Build(p) ==
  \E e \in Engine :
    /\ Fresh(e)
    /\ registry' = e
    /\ Goes(p, "status", e)

(* What a start and an attempt do with an error.  Both evict what is       *)
(* registered, which is in there in place of the engine they built; a      *)
(* start waits for the kill, an attempt plans the next one.                *)
StartThrows(registered) ==
  /\ registry' = NoEngine
  /\ IF registered = NoEngine
       THEN Ends(Start) /\ CancelReconnect /\ owned' = FALSE
       ELSE Goes(Start, "evict", registered) /\ UNCHANGED <<owned, retry>>
  /\ UNCHANGED <<row, engine>>

AttemptThrows(p) ==
  /\ Ends(p)
  /\ registry' = NoEngine
  /\ engine' = Doomed(registry)
  /\ IF owned
       THEN \E spent \in Budgets :
              /\ retry' = Rescheduled(spent)
              /\ IF Exhausted(spent) THEN Write("FAILED") ELSE UNCHANGED row
       ELSE CancelReconnect /\ UNCHANGED row
  /\ UNCHANGED owned

Throws(p) == IF p = Start THEN StartThrows(registry) ELSE AttemptThrows(p)

(* initialize() returned, or was never called.  Who finds the stop mark    *)
(* takes down what is registered now; the others ask for the row.  A start *)
(* whose row is gone fails and gives the lease back.                       *)
Finish(p) ==
  /\ Ends(p)
  /\ owned' = (owned /\ (p = Start /\ row = "gone" => registry # NoEngine \/ Retrying))

Retire(p) ==
  IF registry = NoEngine THEN Finish(p) ELSE Goes(p, "reap", registry) /\ UNCHANGED owned

Returned(p) ==
  IF mark THEN Retire(p) ELSE Goes(p, "check", NoEngine) /\ UNCHANGED owned

(* The INITIALIZING write, and the checks between it and the launch. *)
StatusWritten(p) ==
  LET e == launch[p].on IN
  /\ launch[p].at = "status"
  /\ Write("INITIALIZING")
  /\ IF registry = e /\ owned /\ ~mark
       THEN engine' = [engine EXCEPT ![e] = "launching"] /\ Goes(p, "init", e) /\ UNCHANGED owned
       ELSE Returned(p) /\ UNCHANGED engine
  /\ UNCHANGED <<registry, mark, retry, control, excused, reports, beside>>

StatusFails(p) ==
  /\ launch[p].at = "status"
  /\ Throws(p)
  /\ UNCHANGED <<mark, control, excused, reports, beside>>

InitResolves(p) ==
  /\ launch[p].at = "init"
  /\ Returned(p)
  /\ UNCHANGED <<row, registry, engine, mark, retry, control, excused, reports, beside>>

(* initialize() rejects, or what followed its deadline throws. *)
InitRejects(p) ==
  /\ launch[p].at \in {"init", "thrown"}
  /\ Throws(p)
  /\ UNCHANGED <<mark, control, excused, reports, beside>>

(* The deadline: whatever is registered goes, and the engine is killed. *)
InitTimesOut(p) ==
  /\ launch[p].at = "init" /\ Alive(launch[p].on)
  /\ registry' = NoEngine
  /\ Goes(p, "timeout", launch[p].on)
  /\ UNCHANGED <<row, owned, engine, mark, retry, control, excused, reports, beside>>

InitKilled(p) ==
  /\ launch[p].at = "timeout"
  /\ engine' = Killed(launch[p].on)
  /\ Write("DISCONNECTED")
  /\ Goes(p, "thrown", NoEngine)
  /\ UNCHANGED <<owned, registry, mark, retry, control, excused, reports, beside>>

(* Mutant: only the mark is looked at, and delete() has cleared it. *)
CheckMarkOnly(p) ==
  /\ launch[p].at = "check"
  /\ Finish(p)
  /\ UNCHANGED <<row, registry, engine, mark, retry, control, excused, reports, beside>>

(* isSessionRetired(), the read of the row.  An attempt whose read fails   *)
(* keeps its engine, and so does a start, which fails.                     *)
Check(p) ==
  /\ launch[p].at = "check"
  /\ IF row = "gone" THEN Retire(p) ELSE Finish(p)
  /\ UNCHANGED <<row, registry, engine, mark, retry, control, excused, reports, beside>>

CheckFails(p) ==
  /\ launch[p].at = "check"
  /\ excused' = TRUE
  /\ Ends(p)
  /\ owned' = (owned /\ (p = Start => registry # NoEngine \/ Retrying))
  /\ UNCHANGED <<row, registry, engine, mark, retry, control, reports, beside>>

Reaped(p) ==
  /\ launch[p].at = "reap"
  /\ engine' = Killed(launch[p].on)
  /\ registry' = Without(launch[p].on)
  /\ Ends(p)
  /\ owned' = (owned /\ (p = Start /\ row = "gone" => registry' # NoEngine \/ Retrying))
  /\ UNCHANGED <<row, mark, retry, control, excused, reports, beside>>

Launch(p) ==
  \/ StatusWritten(p)
  \/ InitRejects(p)
  \/ InitResolves(p)
  \/ InitTimesOut(p)
  \/ InitKilled(p)
  \/ Check(p)
  \/ Reaped(p)

-----------------------------------------------------------------------------
(* start()                                                                 *)

(* The lease is granted and the start reserved. *)
StartRequested ==
  /\ ~Starting /\ row # "gone"
  /\ owned' = TRUE
  /\ Goes(Start, "find", NoEngine)
  /\ UNCHANGED <<row, registry, engine, mark, retry, control, excused, reports, beside>>

(* A second start(), which gets the lease and is turned away. *)
StartTwice ==
  /\ Starting /\ row # "gone"
  /\ owned' = TRUE
  /\ UNCHANGED <<row, registry, engine, mark, retry, launch, control, excused, reports, beside>>

StartRefused ==
  /\ launch[Start].at = "find"
  /\ row = "gone" \/ registry # NoEngine
  /\ Ends(Start)
  /\ owned' = (owned /\ (registry # NoEngine \/ Retrying))
  /\ UNCHANGED <<row, registry, engine, mark, retry, control, excused, reports, beside>>

(* Mutant: a pending reconnect is left to itself. *)
StartAcceptedArmed ==
  /\ launch[Start].at = "find"
  /\ row # "gone" /\ registry = NoEngine
  /\ mark' = FALSE
  /\ beside' = beside \cup Ongoing
  /\ Goes(Start, "hook", NoEngine)
  /\ UNCHANGED <<row, local, retry, control, excused, reports>>

StartAccepted ==
  /\ launch[Start].at = "find"
  /\ row # "gone" /\ registry = NoEngine
  /\ mark' = FALSE
  /\ beside' = beside \cup Ongoing
  /\ CancelReconnect
  /\ Goes(Start, "hook", NoEngine)
  /\ UNCHANGED <<row, local, control, excused, reports>>

(* Mutant: no state for the reconnects of this start. *)
StartBuildsStateless ==
  /\ launch[Start].at = "hook"
  /\ IF owned
       THEN Build(Start) /\ UNCHANGED <<row, owned, engine, retry>>
       ELSE StartThrows(registry)
  /\ UNCHANGED <<mark, control, excused, reports, beside>>

(* After the plugins' hook. *)
StartBuilds ==
  /\ launch[Start].at = "hook"
  /\ IF owned
       THEN /\ retry' = [timer |-> "dormant", attempts |-> 0]
            /\ Build(Start)
            /\ UNCHANGED <<row, owned, engine>>
       ELSE StartThrows(registry)
  /\ UNCHANGED <<mark, control, excused, reports, beside>>

StartEvicted ==
  /\ launch[Start].at = "evict"
  /\ engine' = Killed(launch[Start].on)
  /\ IF owned THEN Write("FAILED") ELSE UNCHANGED row
  /\ CancelReconnect
  /\ Ends(Start)
  /\ owned' = (owned /\ registry # NoEngine)
  /\ UNCHANGED <<registry, mark, control, excused, reports, beside>>

-----------------------------------------------------------------------------
(* executeReconnect()                                                      *)

TimerFires(p) ==
  /\ retry.timer = "armed" /\ launch[p].at = "idle"
  /\ IF mark \/ ~owned THEN
       CancelReconnect /\ UNCHANGED <<registry, launch, beside>>
     ELSE
       /\ beside' = beside \cup (Ongoing \cap {"attempt"})
       /\ retry' = [retry EXCEPT !.timer = "spent"]
       /\ IF registry = NoEngine THEN Build(p)
          ELSE Goes(p, "destroy", registry) /\ UNCHANGED registry
  /\ excused' = (excused \/ Starting)
  /\ UNCHANGED <<row, owned, engine, mark, control, reports>>

(* The old engine is down, destroyed or killed, and leaves the registry if *)
(* it is still in there.                                                   *)
AttemptBuilds(p) ==
  /\ launch[p].at = "destroy"
  /\ IF owned
       THEN /\ engine' = Killed(launch[p].on)
            /\ Build(p)
            /\ UNCHANGED retry
       ELSE /\ engine' = [Doomed(Without(launch[p].on)) EXCEPT ![launch[p].on] = "down"]
            /\ registry' = NoEngine
            /\ CancelReconnect
            /\ Ends(p)
  /\ UNCHANGED <<row, owned, mark, control, excused, reports, beside>>

-----------------------------------------------------------------------------
(* stop(), forceKill() and logout(), delete(), and stopOrphanEngines()     *)

(* stop() and delete() set the mark before anything is awaited.  One call  *)
(* of a kind at once, a bound.                                             *)
Request(c, kind) ==
  /\ control[c] = AtRest /\ row # "gone"
  /\ \A d \in Control : control[d] # AtRest => control[d].kind # kind
  /\ control' = [control EXCEPT ![c] = [at |-> "enter", kind |-> kind, on |-> NoEngine]]
  /\ mark' = (mark \/ kind \in {"stop", "delete"})
  /\ UNCHANGED <<row, local, retry, launch, excused, reports, beside>>

(* There is no row, or a peer holds the lease, or nothing to kill. *)
Refused(c) ==
  /\ control[c].at = "enter"
  /\ \/ row = "gone"
     \/ ~owned /\ control[c].kind \in {"stop", "delete"}
     \/ registry = NoEngine /\ control[c].kind = "kill"
  /\ mark' = (mark /\ ~(row = "gone" /\ control[c].kind \in {"stop", "delete"}))
  /\ owned' = (owned /\ (control[c].kind = "kill" => EngineActive))
  /\ control' = [control EXCEPT ![c] = AtRest]
  /\ UNCHANGED <<row, registry, engine, retry, launch, excused, reports, beside>>

Capture(c) ==
  /\ control[c].at = "enter"
  /\ row # "gone"
  /\ control[c].kind = "kill" => registry # NoEngine
  /\ mark' = TRUE
  /\ CancelReconnect
  /\ control' = [control EXCEPT ![c] =
       IF registry # NoEngine THEN [@ EXCEPT !.at = "teardown", !.on = registry]
       ELSE [@ EXCEPT !.at = "write"]]
  /\ UNCHANGED <<row, local, launch, excused, reports, beside>>

(* awaitInitialStatus(), except where nothing waits for it, and the        *)
(* teardown.                                                               *)
TornDown(c) ==
  LET e == control[c].on IN
  /\ control[c].at = "teardown"
  /\ control[c].kind \in {"orphan", "rebind"} \/ \A p \in Launcher : launch[p] # [at |-> "status", on |-> e]
  /\ engine' = Killed(e)
  /\ registry' = Without(e)
  /\ IF control[c].kind = "rebind" /\ registry = e /\ owned THEN Write("FAILED") ELSE UNCHANGED row
  /\ control' = [control EXCEPT ![c] =
       IF @.kind \in {"orphan", "rebind"} THEN AtRest ELSE [@ EXCEPT !.at = "write", !.on = NoEngine]]
  /\ UNCHANGED <<owned, mark, retry, launch, excused, reports, beside>>

(* Mutant: the lease is given back whatever runs. *)
WrittenReleasing(c) ==
  /\ control[c].at = "write"
  /\ IF control[c].kind = "delete"
       THEN row' = "gone" /\ control' = [control EXCEPT ![c].at = "clear"] /\ UNCHANGED owned
       ELSE Write("DISCONNECTED") /\ control' = [control EXCEPT ![c] = AtRest] /\ owned' = FALSE
  /\ UNCHANGED <<registry, engine, mark, retry, launch, excused, reports, beside>>

(* stop() and forceKill() end; delete() has removed the row. *)
Written(c) ==
  /\ control[c].at = "write"
  /\ IF control[c].kind = "delete" THEN
       /\ row' = "gone"
       /\ control' = [control EXCEPT ![c].at = "clear"]
       /\ UNCHANGED owned
     ELSE
       /\ Write("DISCONNECTED")
       /\ control' = [control EXCEPT ![c] = AtRest]
       /\ owned' = (owned /\ EngineActive)
  /\ UNCHANGED <<registry, engine, mark, retry, launch, excused, reports, beside>>

(* The end of delete(). *)
Cleared(c) ==
  /\ control[c].at = "clear"
  /\ mark' = FALSE
  /\ owned' = FALSE
  /\ control' = [control EXCEPT ![c] = AtRest]
  /\ UNCHANGED <<row, registry, engine, retry, launch, excused, reports, beside>>

(* The transaction of delete() fails, and the row stays. *)
DeleteFails(c) ==
  /\ control[c].at = "write" /\ control[c].kind = "delete"
  /\ excused' = TRUE
  /\ mark' = FALSE
  /\ control' = [control EXCEPT ![c] = AtRest]
  /\ UNCHANGED <<row, local, retry, launch, reports, beside>>

Retirement(c) ==
  \/ Refused(c)
  \/ Capture(c)
  \/ TornDown(c)
  \/ Written(c)
  \/ Cleared(c)

-----------------------------------------------------------------------------
(* The engines, the watchdog and the lease                                 *)

(* An adapter that is being torn down reports nothing any more. *)
TearingDown(e) ==
  \/ engine[e] = "doomed"
  \/ \E p \in Launcher : launch[p].on = e /\ launch[p].at \in {"destroy", "timeout", "evict", "reap"}
  \/ \E c \in Control : control[c].on = e

(* handleEngineReady() *)
Ready(e) ==
  /\ engine[e] = "launching" /\ ~TearingDown(e)
  /\ engine' = [engine EXCEPT ![e] = "linked"]
  /\ IF registry = e /\ owned
       THEN Write("READY") /\ retry' = [retry EXCEPT !.attempts = 0]
       ELSE UNCHANGED <<row, retry>>
  /\ UNCHANGED <<owned, registry, mark, launch, control, excused, reports, beside>>

(* rejectRebind(): the number that was linked is another one. *)
Rebind(e, c) ==
  /\ engine[e] = "launching" /\ ~TearingDown(e)
  /\ registry = e
  /\ control[c] = AtRest
  /\ control' = [control EXCEPT ![c] = [at |-> "teardown", kind |-> "rebind", on |-> e]]
  /\ mark' = TRUE
  /\ CancelReconnect
  /\ UNCHANGED <<row, local, launch, excused, reports, beside>>

(* onDisconnected(), up to the read of the row. *)
Drops(e) ==
  /\ engine[e] \in {"launching", "linked", "mute"} /\ ~TearingDown(e)
  /\ engine' = [engine EXCEPT ![e] = "dropped"]
  /\ reports' = IF registry = e /\ owned THEN reports \cup {e} ELSE reports
  /\ UNCHANGED <<row, owned, registry, mark, retry, launch, control, excused, beside>>

(* The connection dies and nothing says so. *)
GoesMute(e) ==
  /\ engine[e] = "linked"
  /\ engine' = [engine EXCEPT ![e] = "mute"]
  /\ UNCHANGED <<row, owned, registry, mark, retry, launch, control, excused, reports, beside>>

(* probe(), the last of the failed ones. *)
Watchdog(e) ==
  /\ engine[e] = "mute" /\ ~TearingDown(e)
  /\ registry = e /\ owned
  /\ reports' = reports \cup {e}
  /\ UNCHANGED <<row, local, mark, retry, launch, control, excused, beside>>

(* Mutant: the failed engine stays registered. *)
ErrsKept(e) ==
  /\ engine[e] \in {"launching", "linked"} /\ ~TearingDown(e)
  /\ registry = e
  /\ CancelReconnect
  /\ IF owned THEN Write("FAILED") ELSE UNCHANGED row
  /\ engine' = [engine EXCEPT ![e] = "dropped"]
  /\ UNCHANGED <<owned, registry, mark, launch, control, excused, reports, beside>>

(* onError() *)
Errs(e) ==
  /\ engine[e] \in {"launching", "linked"} /\ ~TearingDown(e)
  /\ registry = e
  /\ CancelReconnect
  /\ IF owned THEN Write("FAILED") ELSE UNCHANGED row
  /\ registry' = NoEngine
  /\ engine' = Doomed(e)
  /\ UNCHANGED <<owned, mark, launch, control, excused, reports, beside>>

(* Mutant: the engine is not looked at again after the read. *)
ReportedUnfenced(e) ==
  /\ e \in reports
  /\ reports' = reports \ {e}
  /\ IF owned /\ row # "gone" THEN
       \E spent \in Budgets :
         /\ Write(IF Exhausted(spent) THEN "FAILED" ELSE "DISCONNECTED")
         /\ retry' = Rescheduled(spent)
         /\ registry' = IF Exhausted(spent) THEN NoEngine ELSE registry
         /\ engine' = IF Exhausted(spent) THEN Doomed(registry) ELSE engine
     ELSE UNCHANGED <<row, registry, engine, retry>>
  /\ UNCHANGED <<owned, mark, launch, control, excused, beside>>

(* handleEngineDisconnected() with the row. *)
Reported(e) ==
  /\ e \in reports
  /\ reports' = reports \ {e}
  /\ excused' = (excused \/ \E p \in Attempt : launch[p] = [at |-> "destroy", on |-> e])
  /\ IF registry = e /\ owned /\ row # "gone" THEN
       \E spent \in Budgets :
         /\ Write(IF Exhausted(spent) THEN "FAILED" ELSE "DISCONNECTED")
         /\ retry' = Rescheduled(spent)
         /\ registry' = IF Exhausted(spent) THEN NoEngine ELSE registry
         /\ engine' = IF Exhausted(spent) THEN Doomed(registry) ELSE engine
     ELSE UNCHANGED <<row, registry, engine, retry>>
  /\ UNCHANGED <<owned, mark, launch, control, beside>>

ReportFails(e) ==
  /\ e \in reports
  /\ excused' = TRUE
  /\ reports' = reports \ {e}
  /\ UNCHANGED <<row, local, mark, retry, launch, control, beside>>

DoomedDies(e) ==
  /\ engine[e] = "doomed"
  /\ engine' = Killed(e)
  /\ UNCHANGED <<row, owned, registry, mark, retry, launch, control, excused, reports, beside>>

(* The lease lapses or is a peer's: stopOrphanEngines() at once. *)
LoseLease(c) ==
  /\ owned /\ control[c] = AtRest
  /\ owned' = FALSE
  /\ mark' = TRUE
  /\ CancelReconnect
  /\ control' = IF registry = NoEngine THEN control
                ELSE [control EXCEPT ![c] = [at |-> "teardown", kind |-> "orphan", on |-> registry]]
  /\ UNCHANGED <<row, registry, engine, launch, excused, reports, beside>>

-----------------------------------------------------------------------------

Starts == StartRefused \/ StartAccepted \/ StartBuilds \/ StartEvicted

Next ==
  \/ StartRequested
  \/ StartTwice
  \/ Starts
  \/ \E p \in Launcher : Launch(p) \/ StatusFails(p) \/ CheckFails(p)
  \/ \E p \in Attempt : TimerFires(p) \/ AttemptBuilds(p)
  \/ \E c \in Control :
       \/ \E kind \in {"stop", "kill", "delete"} : Request(c, kind)
       \/ Retirement(c)
       \/ DeleteFails(c)
       \/ LoseLease(c)
       \/ \E e \in Engine : Rebind(e, c)
  \/ \E e \in Engine :
       \/ Ready(e)
       \/ Drops(e)
       \/ GoesMute(e)
       \/ Watchdog(e)
       \/ Errs(e)
       \/ Reported(e)
       \/ ReportFails(e)
       \/ DoomedDies(e)

Spec == Init /\ [][Next]_vars

-----------------------------------------------------------------------------

(* Some call has the engine e in its hands and will see to its end. *)
Handled(e) ==
  \/ engine[e] = "doomed"
  \/ \E p \in Launcher : launch[p].on = e /\ launch[p].at \in {"destroy", "timeout", "evict", "reap"}
  \/ \E c \in Control : control[c].on = e

Quiet ==
  /\ \A p \in Launcher : launch[p] = Rest
  /\ \A c \in Control : control[c] = AtRest

(* A start was accepted, or a timer fired, while an attempt was at work.    *)
Overtaken == "attempt" \in beside

(* Whatever is started, an engine that was launched is in the registry, or  *)
(* some call is taking it down: the accepted start has cancelled what could *)
(* replace the engine it is about to create, or orphan its browser.         *)
StartOrphansNothing == \A e \in Engine : Alive(e) => registry = e \/ Handled(e)

(* Whatever drops, is stopped, deleted, started or taken over meanwhile, no *)
(* browser is left running that nothing can reach, unless a start or a      *)
(* second attempt overtook an attempt.                                      *)
NoOrphan == ~Overtaken => \A e \in Engine : Alive(e) => registry = e \/ Handled(e)

(* A session that was stopped or killed has no engine once every call is    *)
(* over, whichever start or reconnect was under way, and neither has one    *)
(* that was deleted, unless a start was accepted while delete() worked.     *)
StoppedIsDown ==
  Quiet /\ (mark \/ (row = "gone" /\ ~excused /\ "delete" \notin beside)) => registry = NoEngine

(* A session left FAILED can be started: no dead engine stands in the way   *)
(* as "already started".                                                    *)
FailedIsStartable == Quiet /\ ~excused /\ ~Overtaken /\ row = "FAILED" => registry = NoEngine

(* A drop is not forgotten: while the engine of a session that should run   *)
(* is down, the report of it is under way, a reconnect is due or some call  *)
(* is replacing or removing the engine.                                     *)
DropIsPending ==
  \A e \in Engine :
    /\ engine[e] = "dropped" /\ registry = e
    /\ owned /\ ~mark /\ row # "gone" /\ ~excused /\ ~Overtaken
    => e \in reports \/ retry.timer = "armed" \/ Handled(e)

(* Nobody gives the lease away under an engine: one that runs, and that no  *)
(* call is taking down, is covered by this node's lease.                    *)
LeaseCovers ==
  \A e \in Engine : Alive(e) /\ ~Handled(e) /\ row # "gone" /\ ~Overtaken => owned

(* What the drop of an engine set in motion never hits its successor: no    *)
(* reconnect is due while a healthy engine is registered, and no attempt    *)
(* destroys one.                                                            *)
HealthyIsKept ==
  \A e \in Engine :
    engine[e] = "linked" /\ ~excused /\ ~Overtaken =>
      /\ registry = e => retry.timer # "armed"
      /\ \A p \in Attempt : launch[p].at = "destroy" => launch[p].on # e
===============================================================================
