------------------------ MODULE EngineLifecycleProofs ------------------------
(***************************************************************************)
(* Proofs about EngineLifecycle, for any number of engine objects, attempts *)
(* and controls and any reconnect budget.                                  *)
(*                                                                         *)
(* The argument follows an engine from hand to hand.  While it is alive it *)
(* is in the registry, or a launch or a control holds it, or it is doomed. *)
(* While it is registered and should not be, because the lease, the stop   *)
(* mark or the row says so, a control takes it down or a launch has yet to *)
(* look.  While it is registered and has dropped, its report, the timer or *)
(* somebody who holds it will see to it.  And no timer that an old engine  *)
(* armed outlives that engine.                                             *)
(*                                                                         *)
(* The invariant comes in three parts: what always holds, what holds while *)
(* no start was accepted beside a delete, and what holds while no attempt  *)
(* was overtaken.  What was started beside what is never forgotten, so the *)
(* parts hold from the first state to the first such step.                 *)
(***************************************************************************)
EXTENDS EngineLifecycle, TLAPS

Engines == Engine \cup {NoEngine}

At(p) == launch[p].at
On(p) == launch[p].on

(* Every launch but p is where it was. *)
Others(p) == \A q \in Launcher : q # p => At(q)' = At(q) /\ On(q)' = On(q)

-----------------------------------------------------------------------------
(* The inductive invariant, part by part.                                  *)

Deletes(c) == control[c].at # "idle" /\ control[c].kind = "delete"

(* A control has an engine in its hands while it takes one down and at no  *)
(* other time, there is one delete at once, and the row is gone behind its *)
(* transaction and not before.                                             *)
ControlsHold ==
  /\ \A c \in Control :
       /\ control[c].at = "teardown" <=> control[c].on # NoEngine
       /\ control[c].at = "clear" => control[c].kind = "delete" /\ row = "gone"
       /\ control[c].kind = "delete" /\ control[c].at \in {"teardown", "write"} => row # "gone"
  /\ \A c, d \in Control : Deletes(c) /\ Deletes(d) => c = d

(* The engine a launch has not launched yet is new, and nobody else's. *)
StatusIsNew ==
  \A p \in Launcher : At(p) = "status" =>
    /\ On(p) \in Engine /\ ~Alive(On(p)) /\ On(p) \notin reports
    /\ \A q \in Launcher : At(q) \in {"status", "init"} /\ On(q) = On(p) => q = p

(* A launch that works on an engine has one, and has evicted it before it  *)
(* waits for the kill.                                                     *)
HeldIsOut ==
  \A p \in Launcher :
    /\ At(p) \in {"status", "init", "destroy", "timeout", "evict", "reap"} => On(p) # NoEngine
    /\ At(p) \in {"timeout", "evict"} => registry # On(p)

(* A doomed engine is not registered, and one that is registered and was   *)
(* reported is not down.                                                   *)
RegisteredIsUp ==
  \A e \in Engine : registry = e => engine[e] # "doomed" /\ (e \in reports => Alive(e))

(* What is reported has dropped or is mute, or was killed meanwhile. *)
ReportsAreLate == \A e \in reports : engine[e] \notin {"launching", "linked"}

(* Some control takes the engine e down. *)
TakenDown(e) == \E c \in Control : control[c].at = "teardown" /\ control[c].on = e

(* An engine of a session that this node does not hold is being removed. *)
UnownedIsRemoved ==
  \A e \in Engine : registry = e /\ ~owned /\ row # "gone" => TakenDown(e)

(* Some launch has yet to look at the stop mark, or has looked and removes *)
(* the engine e.                                                           *)
LaunchSees(e) ==
  \E p \in Launcher :
    At(p) \in {"status", "init", "destroy"} \/ (At(p) = "reap" /\ On(p) = e)

Entering == \E c \in Control : control[c].at = "enter" /\ control[c].kind \in {"stop", "delete"}

(* An engine of a session marked as stopping will be removed. *)
MarkedIsRemoved ==
  \A e \in Engine : registry = e /\ mark => TakenDown(e) \/ Entering \/ LaunchSees(e)

(* While delete() works the mark stays, and the engine is removed without  *)
(* the help of a control that has not begun.                               *)
DeletingRemoves ==
  \A c \in Control : control[c].kind = "delete" /\ control[c].at \in {"teardown", "write"} =>
    mark /\ \A e \in Engine : registry = e => TakenDown(e) \/ LaunchSees(e)

Checking == \E p \in Launcher : At(p) = "check"

(* Once the row is gone a launch that asks for it removes the engine. *)
GoneIsRemoved ==
  row = "gone" /\ ~excused =>
    \A e \in Engine : registry = e => TakenDown(e) \/ LaunchSees(e) \/ Checking

(* executeReconnect() is at work once at a time. *)
OneAttempt == \A p, q \in Attempt : At(p) # "idle" /\ At(q) # "idle" => p = q

(* A start that was accepted finds no attempt at work. *)
StartIsAlone == At(Start) \notin {"idle", "find"} /\ ~excused => ~Reconnecting

(* Nothing is registered behind a start that gives up. *)
EvictedIsEmpty ==
  At(Start) \in {"timeout", "thrown", "evict"} /\ ~excused => registry = NoEngine

(* The only engine under a FAILED row is one that is about to replace the  *)
(* status.                                                                 *)
FailedIsEmpty ==
  \A e \in Engine : row = "FAILED" /\ registry = e /\ ~excused =>
    \E p \in Launcher : At(p) = "status" /\ On(p) = e

(* From the moment a start is accepted to the launch of its engine there   *)
(* is no other engine, no timer and no attempt.                            *)
HookIsClear ==
  At(Start) = "hook" => registry = NoEngine /\ retry.timer = "none" /\ ~Reconnecting

StatusIsClear ==
  At(Start) = "status" =>
    registry \in {On(Start), NoEngine} /\ retry.timer \in {"none", "dormant"} /\ ~Reconnecting

(* Who waits for an engine waits for the one that is registered, if one is: *)
(* an attempt that destroys it, a launch whose initialize() is pending.     *)
DestroyKeeps == \A p \in Attempt : At(p) = "destroy" => registry \in {On(p), NoEngine}

InitKeeps ==
  \A p \in Launcher : At(p) = "init" /\ Alive(On(p)) => registry \in {On(p), NoEngine}

(* While a start waits for initialize() of an engine that lives, attempts  *)
(* destroy that engine and no other, and if it is not registered any more  *)
(* the reconnects of it are cancelled.                                     *)
StartKeeps ==
  At(Start) = "init" /\ Alive(On(Start)) =>
    /\ \A p \in Attempt : At(p) # "idle" => At(p) = "destroy" /\ On(p) = On(Start)
    /\ registry = NoEngine => retry.timer = "none" \/ Reconnecting

(* The two ways to be Handled besides being doomed. *)
Holding == {"destroy", "timeout", "evict", "reap"}

LaunchHolds(e) == \E p \in Launcher : On(p) = e /\ At(p) \in Holding
ControlHolds(e) == \E c \in Control : control[c].on = e

(* A reconnect is due only under an engine that has gone. *)
ArmedIsDropped ==
  \A e \in Engine : ~excused /\ retry.timer = "armed" /\ registry = e => engine[e] \in {"dropped", "mute"}

(* The attempt that destroys an engine has used the timer up, keeps the    *)
(* state of the reconnects unless something stopped it, and destroys no    *)
(* healthy engine.                                                         *)
DestroyIsSpent ==
  \A p \in Attempt : ~excused /\ At(p) = "destroy" =>
    /\ retry.timer # "armed"
    /\ ~mark /\ row # "gone" => retry.timer # "none"
    /\ engine[On(p)] # "linked"

(* An engine that should run has a state its reconnect can be kept in. *)
RegisteredHasState ==
  \A e \in Engine : registry = e /\ ~mark /\ row # "gone" /\ ~excused => retry.timer # "none" \/ TakenDown(e)

(* DropIsPending, whoever holds the lease. *)
DroppedIsPending ==
  \A e \in Engine :
    engine[e] = "dropped" /\ registry = e /\ ~mark /\ row # "gone" /\ ~excused =>
      e \in reports \/ retry.timer = "armed" \/ LaunchHolds(e) \/ ControlHolds(e)

(* What holds whatever is started beside what. *)
HandsInv ==
  /\ TypeOK
  /\ ControlsHold /\ StatusIsNew /\ HeldIsOut
  /\ RegisteredIsUp /\ ReportsAreLate
  /\ UnownedIsRemoved /\ MarkedIsRemoved

(* What holds while no start was accepted beside a delete. *)
RemovedInv == "delete" \notin beside => DeletingRemoves /\ GoneIsRemoved

(* What holds while no attempt was overtaken: of the starts and of what    *)
(* they find, and of the engines.                                          *)
StartsHold ==
  /\ OneAttempt
  /\ StartIsAlone /\ EvictedIsEmpty /\ FailedIsEmpty /\ HookIsClear
  /\ StatusIsClear /\ DestroyKeeps /\ InitKeeps /\ StartKeeps

EnginesHold ==
  /\ StartOrphansNothing
  /\ ArmedIsDropped /\ DestroyIsSpent /\ RegisteredHasState /\ DroppedIsPending

AloneInv == ~Overtaken => StartsHold /\ EnginesHold

IInv == HandsInv /\ RemovedInv /\ AloneInv

-----------------------------------------------------------------------------
(* The types.                                                              *)

(* What is written to the row is a status. *)
LEMMA StatusTyped ==
  ASSUME TypeOK, NEW status \in Statuses, Write(status)
  PROVE  row' \in Statuses
  BY DEF TypeOK, Write

(* Where a launch goes is a place. *)
LEMMA LaunchTyped ==
  ASSUME TypeOK, NEW p \in Launcher
  PROVE  /\ \A at \in LaunchStates, e \in Engines :
              Goes(p, at, e) => launch' \in [Launcher -> [at: LaunchStates, on: Engines]]
         /\ Ends(p) => launch' \in [Launcher -> [at: LaunchStates, on: Engines]]
         /\ launch[p].on \in Engines /\ launch[p].at \in LaunchStates
<1>1. Rest \in [at: LaunchStates, on: Engines]
  BY DEF Rest, LaunchStates, Engines
<1>2. \A r \in [at: LaunchStates, on: Engines] :
        [launch EXCEPT ![p] = r] \in [Launcher -> [at: LaunchStates, on: Engines]]
  BY DEF TypeOK, Engines
<1>3. \A at \in LaunchStates, e \in Engines : [at |-> at, on |-> e] \in [at: LaunchStates, on: Engines]
  OBVIOUS
<1>4. launch[p] \in [at: LaunchStates, on: Engines]
  BY DEF TypeOK, Engines
<1>5. launch[p].on \in Engines /\ launch[p].at \in LaunchStates
  BY <1>4
<1>6. Ends(p) => launch' \in [Launcher -> [at: LaunchStates, on: Engines]]
  BY <1>1, <1>2 DEF Ends
<1>7. ASSUME NEW at \in LaunchStates, NEW e \in Engines, Goes(p, at, e)
      PROVE  launch' \in [Launcher -> [at: LaunchStates, on: Engines]]
  <2>1. launch' = [launch EXCEPT ![p] = [at |-> at, on |-> e]]
    BY <1>7 DEF Goes
  <2> QED
    BY <2>1, <1>2, <1>3
<1> QED
  BY <1>5, <1>6, <1>7

(* Killing and dooming keep the table of the engines. *)
LEMMA EngineTyped ==
  ASSUME TypeOK, NEW e
  PROVE  /\ Killed(e) \in [Engine -> EngineStates]
         /\ Doomed(e) \in [Engine -> EngineStates]
         /\ \A state \in EngineStates : [engine EXCEPT ![e] = state] \in [Engine -> EngineStates]
         /\ Without(e) \in Engines
  BY DEF TypeOK, Killed, Doomed, EngineStates, Without, Engines

(* So do the updates of the controls. *)
LEMMA ControlTyped ==
  ASSUME TypeOK, NEW c \in Control
  PROVE  /\ control[c].at \in ControlStates /\ control[c].kind \in Kinds /\ control[c].on \in Engines
         /\ \A at \in ControlStates, kind \in Kinds, e \in Engines :
              [control EXCEPT ![c] = [at |-> at, kind |-> kind, on |-> e]]
                \in [Control -> [at: ControlStates, kind: Kinds, on: Engines]]
         /\ [control EXCEPT ![c] = AtRest] \in [Control -> [at: ControlStates, kind: Kinds, on: Engines]]
         /\ \A at \in ControlStates, e \in Engines :
              /\ [control EXCEPT ![c] = [@ EXCEPT !.at = at]]
                   \in [Control -> [at: ControlStates, kind: Kinds, on: Engines]]
              /\ [control EXCEPT ![c].at = at] \in [Control -> [at: ControlStates, kind: Kinds, on: Engines]]
              /\ [control EXCEPT ![c] = [@ EXCEPT !.at = at, !.on = e]]
                   \in [Control -> [at: ControlStates, kind: Kinds, on: Engines]]
  BY ZenonT(40) DEF TypeOK, Engines, AtRest, ControlStates, Kinds

(* And those of the reconnect state. *)
LEMMA RetryTyped ==
  ASSUME TypeOK
  PROVE  /\ NoRetry \in [timer: TimerStates, attempts: 0..MaxAttempts]
         /\ \A spent \in Budgets : Rescheduled(spent) \in [timer: TimerStates, attempts: 0..MaxAttempts]
         /\ [timer |-> "dormant", attempts |-> 0] \in [timer: TimerStates, attempts: 0..MaxAttempts]
         /\ [retry EXCEPT !.timer = "spent"] \in [timer: TimerStates, attempts: 0..MaxAttempts]
         /\ [retry EXCEPT !.attempts = 0] \in [timer: TimerStates, attempts: 0..MaxAttempts]
<1> USE ConstantsAssumption DEF TypeOK, TimerStates, NoRetry
<1>1. \A spent \in Budgets : Rescheduled(spent) \in [timer: TimerStates, attempts: 0..MaxAttempts]
  BY DEF Rescheduled, Budgets, Exhausted
<1> QED
  BY <1>1


(* No step leaves the types. *)
LEMMA TypeInductive == TypeOK /\ [Next]_vars => TypeOK'
<1> SUFFICES ASSUME TypeOK, [Next]_vars PROVE TypeOK'
  OBVIOUS
<1> DEFINE Launches == [Launcher -> [at: LaunchStates, on: Engines]]
           Controls == [Control -> [at: ControlStates, kind: Kinds, on: Engines]]
           Retries == [timer: TimerStates, attempts: 0..MaxAttempts]
           States == [Engine -> EngineStates]
<1> DEFINE OK ==
  /\ row \in Statuses /\ owned \in BOOLEAN /\ registry \in Engines
  /\ engine \in States /\ mark \in BOOLEAN
  /\ retry \in Retries /\ launch \in Launches /\ control \in Controls /\ excused \in BOOLEAN /\ reports \subseteq Engine
  /\ beside \subseteq {"attempt", "delete"}
<1>typed. OK /\ (OK' => TypeOK')
  BY DEF TypeOK, Engines
<1>retries. NoRetry \in Retries /\ (\A spent \in Budgets : Rescheduled(spent) \in Retries)
         /\ [timer |-> "dormant", attempts |-> 0] \in Retries
         /\ [retry EXCEPT !.timer = "spent"] \in Retries
         /\ [retry EXCEPT !.attempts = 0] \in Retries
  BY RetryTyped
<1>launches. \A p \in Launcher :
         /\ \A at \in LaunchStates, e \in Engines : Goes(p, at, e) => launch' \in Launches
         /\ Ends(p) => launch' \in Launches
         /\ launch[p].on \in Engines /\ launch[p].at \in LaunchStates
  BY LaunchTyped
<1>engines. \A e :
         /\ Killed(e) \in States
         /\ Doomed(e) \in States
         /\ \A state \in EngineStates : [engine EXCEPT ![e] = state] \in States
         /\ Without(e) \in Engines
  BY EngineTyped
<1>controls. \A c \in Control :
         /\ control[c].at \in ControlStates /\ control[c].kind \in Kinds /\ control[c].on \in Engines
         /\ \A at \in ControlStates, kind \in Kinds, e \in Engines :
              [control EXCEPT ![c] = [at |-> at, kind |-> kind, on |-> e]] \in Controls
         /\ [control EXCEPT ![c] = AtRest] \in Controls
         /\ \A at \in ControlStates, e \in Engines :
              /\ [control EXCEPT ![c].at = at] \in Controls
              /\ [control EXCEPT ![c] = [@ EXCEPT !.at = at, !.on = e]] \in Controls
              /\ [control EXCEPT ![c] = [@ EXCEPT !.at = at]] \in Controls
  BY ControlTyped
<1>row. \A status \in Statuses : Write(status) => row' \in Statuses
  BY StatusTyped
<1>sorts. NoEngine \in Engines /\ Engine \subseteq Engines /\ Start \in Launcher /\ Attempt \subseteq Launcher
  BY DEF Engines, Launcher
<1> HIDE DEF Launches, Controls, Retries, States

<1>1. ASSUME StartRequested PROVE OK'
  BY <1>1, <1>typed, <1>launches, <1>sorts DEF StartRequested, LaunchStates
<1>2. ASSUME StartTwice PROVE OK'
  BY <1>2, <1>typed, <1>launches DEF StartTwice
<1>3. ASSUME StartRefused PROVE OK'
  BY <1>3, <1>typed, <1>launches, <1>sorts DEF StartRefused
<1>4. ASSUME StartAccepted PROVE OK'
  BY <1>4, <1>typed, <1>retries, <1>launches, <1>sorts DEF StartAccepted, CancelReconnect,
     Ongoing, local, LaunchStates
<1>5. ASSUME StartBuilds PROVE OK'
  BY <1>5, <1>typed, <1>retries, <1>launches, <1>engines, <1>sorts DEF StartBuilds, Build,
     StartThrows, CancelReconnect, LaunchStates
<1>6. ASSUME StartEvicted PROVE OK'
  BY <1>6, <1>typed, <1>retries, <1>launches, <1>engines, <1>row, <1>sorts DEF StartEvicted,
     CancelReconnect, Statuses, EngineStates
<1>7. ASSUME NEW p \in Launcher, StatusWritten(p) PROVE OK'
  <2>1. row' \in Statuses /\ engine' \in States /\ UNCHANGED <<registry, mark, retry, control, excused, reports, beside>>
    BY <1>7, <1>typed, <1>engines, <1>row DEF StatusWritten, Statuses, EngineStates
  <2>2. launch' \in Launches /\ owned' \in BOOLEAN
    BY <1>7, <1>typed, <1>launches, <1>sorts DEF StatusWritten, Returned, Retire, Finish, LaunchStates
  <2> QED
    BY <2>1, <2>2, <1>typed
<1>8. ASSUME NEW p \in Launcher, InitRejects(p) PROVE OK'
  BY <1>8, <1>typed, <1>retries, <1>launches, <1>engines, <1>row, <1>sorts DEF InitRejects,
     Throws, StartThrows, AttemptThrows, CancelReconnect, Statuses,
     EngineStates, LaunchStates
<1>9. ASSUME NEW p \in Launcher, InitResolves(p) PROVE OK'
  BY <1>9, <1>typed, <1>launches, <1>sorts DEF InitResolves, Returned, Retire, Finish,
     LaunchStates
<1>10. ASSUME NEW p \in Launcher, InitTimesOut(p) PROVE OK'
  BY <1>10, <1>typed, <1>launches, <1>engines, <1>sorts DEF InitTimesOut, LaunchStates
<1>11. ASSUME NEW p \in Launcher, InitKilled(p) PROVE OK'
  BY <1>11, <1>typed, <1>launches, <1>engines, <1>row, <1>sorts DEF InitKilled, Statuses,
     EngineStates, LaunchStates
<1>12. ASSUME NEW p \in Launcher, Check(p) PROVE OK'
  BY <1>12, <1>typed, <1>launches, <1>sorts DEF Check, Retire, Finish, LaunchStates
<1>13. ASSUME NEW p \in Launcher, Reaped(p) PROVE OK'
  BY <1>13, <1>typed, <1>launches, <1>engines, <1>sorts DEF Reaped, EngineStates
<1>14. ASSUME NEW p \in Launcher, StatusFails(p) PROVE OK'
  BY <1>14, <1>typed, <1>retries, <1>launches, <1>engines, <1>row, <1>sorts DEF StatusFails,
     Throws, StartThrows, AttemptThrows, CancelReconnect, Statuses,
     EngineStates, LaunchStates
<1>15. ASSUME NEW p \in Launcher, CheckFails(p) PROVE OK'
  BY <1>15, <1>typed, <1>launches, <1>sorts DEF CheckFails
<1>16. ASSUME NEW p \in Attempt, TimerFires(p) PROVE OK'
  <2>1. /\ row' \in Statuses /\ owned' \in BOOLEAN /\ engine' \in States /\ mark' \in BOOLEAN
        /\ control' \in Controls /\ reports' \subseteq Engine
        /\ beside' \subseteq {"attempt", "delete"}
    BY <1>16, <1>typed DEF TimerFires, Ongoing
  <2>2. excused' \in BOOLEAN
    BY <1>16, <1>typed DEF TimerFires
  <2>3. CASE mark \/ ~owned
    BY <1>16, <1>typed, <1>retries, <2>1, <2>2, <2>3 DEF TimerFires, CancelReconnect
  <2>4. CASE ~(mark \/ ~owned)
    <3>1. retry' \in Retries
      BY <1>16, <1>retries, <2>4 DEF TimerFires
    <3>2. registry' \in Engines /\ launch' \in Launches
      BY <1>16, <1>typed, <1>launches, <1>sorts, <2>4 DEF TimerFires, Build, LaunchStates
    <3> QED
      BY <2>1, <2>2, <3>1, <3>2
  <2> QED
    BY <2>3, <2>4
<1>17. ASSUME NEW p \in Attempt, AttemptBuilds(p) PROVE OK'
  <2>1. /\ row' \in Statuses /\ owned' \in BOOLEAN /\ mark' \in BOOLEAN /\ excused' \in BOOLEAN
        /\ control' \in Controls /\ reports' \subseteq Engine
        /\ beside' \subseteq {"attempt", "delete"}
    BY <1>17, <1>typed DEF AttemptBuilds
  <2>2. CASE owned
    BY <1>17, <1>typed, <1>launches, <1>engines, <1>sorts, <2>1, <2>2 DEF AttemptBuilds, Build, LaunchStates
  <2>3. CASE ~owned
    <3>1. Doomed(Without(launch[p].on)) \in States
      BY <1>engines
    <3>2. engine' \in States
      BY <1>17, <2>3, <3>1 DEF AttemptBuilds, EngineStates, States
    <3> QED
      BY <1>17, <1>retries, <1>launches, <1>sorts, <2>1, <2>3, <3>2 DEF AttemptBuilds, CancelReconnect
  <2> QED
    BY <2>2, <2>3
<1>18. ASSUME NEW c \in Control, NEW kind \in {"stop", "kill", "delete"}, Request(c, kind) PROVE OK'
  BY <1>18, <1>typed, <1>launches, <1>controls, <1>sorts DEF Request, local, ControlStates,
     Kinds
<1>19. ASSUME NEW c \in Control, Refused(c) PROVE OK'
  BY <1>19, <1>typed, <1>launches, <1>controls, <1>sorts DEF Refused, ControlStates, Kinds
<1>20. ASSUME NEW c \in Control, Capture(c) PROVE OK'
  BY <1>20, <1>typed, <1>retries, <1>launches, <1>controls, <1>sorts DEF Capture,
     CancelReconnect, local, ControlStates, Kinds
<1>21. ASSUME NEW c \in Control, TornDown(c) PROVE OK'
  BY <1>21, <1>typed, <1>launches, <1>engines, <1>controls, <1>row, <1>sorts DEF TornDown,
     Statuses, EngineStates, ControlStates, Kinds
<1>22. ASSUME NEW c \in Control, Written(c) PROVE OK'
  BY <1>22, <1>typed, <1>launches, <1>controls, <1>row, <1>sorts DEF Written, Statuses,
     ControlStates, Kinds
<1>23. ASSUME NEW c \in Control, Cleared(c) PROVE OK'
  BY <1>23, <1>typed, <1>launches, <1>controls DEF Cleared, ControlStates, Kinds
<1>24. ASSUME NEW c \in Control, DeleteFails(c) PROVE OK'
  BY <1>24, <1>typed, <1>launches, <1>controls DEF DeleteFails, local, ControlStates,
     Kinds
<1>25. ASSUME NEW c \in Control, LoseLease(c) PROVE OK'
  BY <1>25, <1>typed, <1>retries, <1>launches, <1>controls, <1>sorts DEF LoseLease,
     CancelReconnect, ControlStates, Kinds
<1>26. ASSUME NEW c \in Control, NEW e \in Engine, Rebind(e, c) PROVE OK'
  BY <1>26, <1>typed, <1>retries, <1>launches, <1>controls, <1>sorts DEF Rebind,
     CancelReconnect, local, ControlStates, Kinds
<1>27. ASSUME NEW e \in Engine, Ready(e) PROVE OK'
  BY <1>27, <1>typed, <1>retries, <1>launches, <1>engines, <1>row, <1>sorts DEF Ready,
     Statuses, EngineStates
<1>28. ASSUME NEW e \in Engine, Drops(e) PROVE OK'
  BY <1>28, <1>typed, <1>launches, <1>engines, <1>sorts DEF Drops, EngineStates
<1>29. ASSUME NEW e \in Engine, GoesMute(e) PROVE OK'
  BY <1>29, <1>typed, <1>launches, <1>engines, <1>sorts DEF GoesMute, EngineStates
<1>30. ASSUME NEW e \in Engine, Watchdog(e) PROVE OK'
  BY <1>30, <1>typed, <1>launches, <1>sorts DEF Watchdog, local
<1>31. ASSUME NEW e \in Engine, Errs(e) PROVE OK'
  BY <1>31, <1>typed, <1>retries, <1>launches, <1>engines, <1>row, <1>sorts DEF Errs,
     CancelReconnect, Statuses, EngineStates
<1>32. ASSUME NEW e \in Engine, Reported(e) PROVE OK'
  BY <1>32, <1>typed, <1>retries, <1>launches, <1>engines, <1>row, <1>sorts DEF Reported,
     Statuses, EngineStates
<1>33. ASSUME NEW e \in Engine, ReportFails(e) PROVE OK'
  BY <1>33, <1>typed, <1>launches, <1>sorts DEF ReportFails, local
<1>34. ASSUME NEW e \in Engine, DoomedDies(e) PROVE OK'
  BY <1>34, <1>typed, <1>launches, <1>engines, <1>sorts DEF DoomedDies, EngineStates
<1>35. CASE UNCHANGED vars
    BY <1>typed, <1>35 DEF vars, local
<1> QED
    BY <1>typed, <1>1, <1>2, <1>3, <1>4, <1>5, <1>6, <1>7, <1>8, <1>9, <1>10, <1>11, <1>12, <1>13,
     <1>14, <1>15, <1>16, <1>17, <1>18, <1>19, <1>20, <1>21, <1>22, <1>23, <1>24, <1>25, <1>26,
     <1>27, <1>28, <1>29, <1>30, <1>31, <1>32, <1>33, <1>34, <1>35 DEF Next, Starts, Launch,
     Retirement

-----------------------------------------------------------------------------
(* What the steps do, as the proofs use it.                                *)

(* What TypeOK says of the tables, cell by cell. *)
LEMMA Tables ==
  ASSUME TypeOK
  PROVE  /\ launch = [p \in Launcher |-> launch[p]]
         /\ \A p \in Launcher : launch[p] = [at |-> At(p), on |-> On(p)] /\ On(p) \in Engines
         /\ engine = [e \in Engine |-> engine[e]]
         /\ control = [c \in Control |-> control[c]]
         /\ \A c \in Control :
              /\ control[c] = [at |-> control[c].at, kind |-> control[c].kind, on |-> control[c].on]
              /\ control[c].on \in Engines
         /\ retry = [timer |-> retry.timer, attempts |-> retry.attempts]
         /\ NoEngine \notin Engine /\ registry \in Engines
         /\ Start \notin Attempt /\ Start \in Launcher
         /\ \A p \in Attempt : p \in Launcher
         /\ reports \subseteq Engine
  BY ConstantsAssumption DEF TypeOK, Engines, At, On, Launcher

(* What TypeOK says of the constants and of what points to an engine. *)
LEMMA Sorts ==
  ASSUME TypeOK
  PROVE  /\ NoEngine \notin Engine /\ registry \in Engine \cup {NoEngine}
         /\ Start \notin Attempt /\ Start \in Launcher
         /\ \A p \in Attempt : p \in Launcher
         /\ \A p \in Launcher : On(p) \in Engine \cup {NoEngine}
         /\ \A c \in Control : control[c].on \in Engine \cup {NoEngine}
         /\ reports \subseteq Engine
  BY Tables DEF Engines

(* What an update of the controls is made of. *)
LEMMA ControlCells ==
  ASSUME TypeOK
  PROVE  /\ control = [c \in Control |-> control[c]]
         /\ \A c \in Control :
              control[c] = [at |-> control[c].at, kind |-> control[c].kind, on |-> control[c].on]
  BY Tables

(* The table of the engines is a function. *)
LEMMA EngineCells ==
  ASSUME TypeOK
  PROVE  engine = [e \in Engine |-> engine[e]]
  BY Tables

(* The reconnect state is a record. *)
LEMMA RetryCells ==
  ASSUME TypeOK
  PROVE  retry = [timer |-> retry.timer, attempts |-> retry.attempts] /\ NoRetry.timer = "none"
  BY Tables DEF NoRetry

(* A launch is the start or an attempt. *)
LEMMA Launchers == \A p \in Launcher : p = Start \/ p \in Attempt
  BY DEF Launcher

(* A write to a row that is gone does nothing. *)
LEMMA RowMoves ==
  \A status : Write(status) => (row = "gone" => row' = "gone") /\ (row # "gone" => row' = status)
  BY DEF Write

(* The step a launch takes, and what it leaves alone. *)
LEMMA LaunchMoves ==
  ASSUME TypeOK, NEW p \in Launcher
  PROVE  /\ \A at, e : Goes(p, at, e) => At(p)' = at /\ On(p)' = e /\ Others(p)
         /\ Ends(p) => At(p)' = "idle" /\ On(p)' = NoEngine /\ Others(p)
  BY Tables DEF Goes, Ends, Rest, At, On, Others

(* The engine table after a kill and after an eviction. *)
LEMMA EngineMoves ==
  ASSUME TypeOK
  PROVE  /\ \A e : \A k \in Engine : Killed(e)[k] = IF k = e THEN "down" ELSE engine[k]
         /\ \A e : \A k \in Engine :
              Doomed(e)[k] = IF k = e /\ engine[k] # "down" THEN "doomed" ELSE engine[k]
  BY Tables DEF Killed, Doomed, Alive

(* Where a launch goes once initialize() is over. *)
LEMMA ReturnMoves ==
  ASSUME TypeOK, NEW p \in Launcher
  PROVE  /\ Finish(p) \/ Retire(p) \/ Returned(p) => registry = NoEngine \/ UNCHANGED owned
         /\ Finish(p) => At(p)' = "idle" /\ On(p)' = NoEngine /\ Others(p)
         /\ Retire(p) =>
              /\ Others(p)
              /\ \/ registry = NoEngine /\ At(p)' = "idle" /\ On(p)' = NoEngine
                 \/ registry # NoEngine /\ At(p)' = "reap" /\ On(p)' = registry
         /\ Returned(p) =>
              /\ Others(p)
              /\ \/ ~mark /\ At(p)' = "check" /\ On(p)' = NoEngine
                 \/ mark /\ registry = NoEngine /\ At(p)' = "idle" /\ On(p)' = NoEngine
                 \/ mark /\ registry # NoEngine /\ At(p)' = "reap" /\ On(p)' = registry
<1>1. Finish(p) => registry = NoEngine \/ UNCHANGED owned
  BY DEF Finish, TypeOK
<1>2. Finish(p) \/ Retire(p) \/ Returned(p) => registry = NoEngine \/ UNCHANGED owned
  BY <1>1 DEF Retire, Returned
<1> QED
  BY <1>2, LaunchMoves DEF Returned, Retire, Finish

(* What a start and an attempt do with an error. *)
LEMMA ThrowMoves ==
  ASSUME TypeOK, NEW p \in Launcher, Throws(p)
  PROVE  /\ registry' = NoEngine /\ Others(p) /\ (row = "gone" <=> row' = "gone")
         /\ \A k \in Engine : engine[k] = "down" \/ k # registry => engine'[k] = engine[k]
         /\ \A k \in Engine : engine'[k] \in {engine[k], "doomed"}
         /\ \/ /\ p = Start /\ registry # NoEngine
               /\ At(p)' = "evict" /\ On(p)' = registry
               /\ UNCHANGED <<row, owned, engine, retry>>
            \/ /\ p = Start /\ registry = NoEngine
               /\ At(p)' = "idle" /\ On(p)' = NoEngine
               /\ owned' = FALSE /\ retry' = NoRetry
               /\ UNCHANGED <<row, engine>>
            \/ /\ p \in Attempt
               /\ At(p)' = "idle" /\ On(p)' = NoEngine
               /\ \A k \in Engine : k = registry => engine'[k] \in {"down", "doomed"}
               /\ UNCHANGED owned
<1>1. CASE p = Start
  BY <1>1, LaunchMoves DEF Throws, StartThrows, CancelReconnect
<1>2. CASE p # Start
  <2>1. p \in Attempt /\ AttemptThrows(p)
    BY <1>2 DEF Throws, Launcher
  <2>2. /\ registry' = NoEngine /\ UNCHANGED owned /\ engine' = Doomed(registry) /\ Ends(p)
        /\ row = "gone" <=> row' = "gone"
    BY <2>1 DEF AttemptThrows, Write
  <2>3. \A k \in Engine :
          engine'[k] = IF k = registry /\ engine[k] # "down" THEN "doomed" ELSE engine[k]
    BY <2>2, EngineMoves
  <2> QED
    BY <2>1, <2>2, <2>3, LaunchMoves
<1> QED
  BY <1>1, <1>2

(* The INITIALIZING write: the launch, or the way out. *)
LEMMA StatusMoves ==
  ASSUME TypeOK, NEW p \in Launcher, StatusWritten(p)
  PROVE  /\ At(p) = "status" /\ Others(p)
         /\ row = "gone" <=> row' = "gone"
         /\ row # "gone" => row' = "INITIALIZING"
         /\ UNCHANGED <<registry, mark, retry, control, excused, reports>>
         /\ registry = NoEngine \/ UNCHANGED owned
         /\ \/ /\ registry = On(p) /\ ~mark
               /\ At(p)' = "init" /\ On(p)' = On(p)
               /\ \A k \in Engine : engine'[k] = IF k = On(p) THEN "launching" ELSE engine[k]
               /\ UNCHANGED owned
            \/ /\ ~mark /\ At(p)' = "check" /\ On(p)' = NoEngine
               /\ UNCHANGED <<owned, engine>>
            \/ /\ mark /\ registry = NoEngine /\ At(p)' = "idle" /\ On(p)' = NoEngine
               /\ UNCHANGED engine
            \/ /\ mark /\ registry # NoEngine /\ At(p)' = "reap" /\ On(p)' = registry
               /\ UNCHANGED <<owned, engine>>
<1>1. /\ At(p) = "status"
      /\ row = "gone" <=> row' = "gone"
      /\ row # "gone" => row' = "INITIALIZING"
      /\ UNCHANGED <<registry, mark, retry, control, excused, reports>>
  BY DEF StatusWritten, Write, At
<1>2. CASE registry = On(p) /\ owned /\ ~mark
  <2>1. Goes(p, "init", On(p)) /\ engine' = [engine EXCEPT ![On(p)] = "launching"] /\ UNCHANGED owned
    BY <1>2 DEF StatusWritten, On
  <2>2. At(p)' = "init" /\ On(p)' = On(p) /\ Others(p)
    BY <2>1, LaunchMoves
  <2>3. \A k \in Engine : engine'[k] = IF k = On(p) THEN "launching" ELSE engine[k]
    BY <2>1, Tables
  <2> QED
    BY <1>1, <1>2, <2>1, <2>2, <2>3
<1>3. CASE ~(registry = On(p) /\ owned /\ ~mark)
  <2>1. Returned(p) /\ UNCHANGED engine
    BY <1>3 DEF StatusWritten, On
  <2>2. /\ Others(p)
        /\ \/ ~mark /\ At(p)' = "check" /\ On(p)' = NoEngine
           \/ mark /\ registry = NoEngine /\ At(p)' = "idle" /\ On(p)' = NoEngine
           \/ mark /\ registry # NoEngine /\ At(p)' = "reap" /\ On(p)' = registry
    BY <2>1, ReturnMoves
  <2>3. ~mark \/ registry # NoEngine => UNCHANGED owned
    BY <2>1 DEF Returned, Retire
  <2> QED
    BY <1>1, <2>1, <2>2, <2>3
<1> QED
  BY <1>2, <1>3

(* The attempt whose old engine is down: a new engine, or no lease. *)
LEMMA AttemptMoves ==
  ASSUME TypeOK, NEW p \in Attempt, AttemptBuilds(p)
  PROVE  /\ At(p) = "destroy" /\ Others(p)
         /\ UNCHANGED <<row, owned, mark, control, excused, reports>>
         /\ \A k \in Engine : engine'[k] \in {engine[k], "down", "doomed"}
         /\ \A k \in Engine : k = On(p) => engine'[k] = "down"
         /\ \A k \in Engine : k \notin {On(p), registry} \/ engine[k] = "down" => engine'[k] = engine[k]
         /\ \/ /\ owned /\ UNCHANGED retry
               /\ registry' \in Engine /\ Fresh(registry')
               /\ \A k \in Engine : k # On(p) => engine'[k] = engine[k]
               /\ At(p)' = "status" /\ On(p)' = registry'
            \/ /\ ~owned /\ retry' = NoRetry /\ registry' = NoEngine
               /\ \A k \in Engine : k = registry => engine'[k] \in {"down", "doomed"}
               /\ At(p)' = "idle" /\ On(p)' = NoEngine
<1> USE DEF At, On
<1>1. At(p) = "destroy" /\ UNCHANGED <<row, owned, mark, control, excused, reports>> /\ p \in Launcher
  BY DEF AttemptBuilds, Launcher
<1>2. CASE owned
  <2>1. PICK e \in Engine :
          Fresh(e) /\ registry' = e /\ Goes(p, "status", e) /\ UNCHANGED retry /\ engine' = Killed(On(p))
    BY <1>2 DEF AttemptBuilds, Build
  <2>2. At(p)' = "status" /\ On(p)' = e /\ Others(p)
    BY <1>1, <2>1, LaunchMoves
  <2>3. \A k \in Engine : engine'[k] = IF k = On(p) THEN "down" ELSE engine[k]
    BY <2>1, EngineMoves
  <2> HIDE DEF At, On
  <2> QED
    BY <1>1, <1>2, <2>1, <2>2, <2>3
<1>3. CASE ~owned
  <2> DEFINE r == Without(On(p))
  <2>1. /\ engine' = [Doomed(r) EXCEPT ![On(p)] = "down"]
        /\ registry' = NoEngine /\ retry' = NoRetry /\ Ends(p)
    BY <1>3 DEF AttemptBuilds, CancelReconnect
  <2>2. At(p)' = "idle" /\ On(p)' = NoEngine /\ Others(p)
    BY <1>1, <2>1, LaunchMoves
  <2>3. \A k \in Engine : Doomed(r)[k] = IF k = r /\ engine[k] # "down" THEN "doomed" ELSE engine[k]
    BY EngineMoves
  <2>4. DOMAIN Doomed(r) = Engine /\ Doomed(r) = [k \in Engine |-> Doomed(r)[k]]
    BY DEF Doomed
  <2>5. \A k \in Engine : engine'[k] = IF k = On(p) THEN "down" ELSE Doomed(r)[k]
    BY <2>1, <2>4
  <2>6. r = (IF registry = On(p) THEN NoEngine ELSE registry) /\ NoEngine \notin Engine
    BY Tables DEF Without
  <2> HIDE DEF At, On, r
  <2>7. \A k \in Engine : engine'[k] = IF k = On(p) THEN "down"
                                       ELSE IF k = registry /\ engine[k] # "down" THEN "doomed" ELSE engine[k]
    BY <2>3, <2>5, <2>6
  <2> QED
    BY <1>1, <1>3, <2>1, <2>2, <2>7
<1> QED
  BY <1>2, <1>3

(* The timer: nothing, a new engine, or the wait for the old one. *)
LEMMA TimerMoves ==
  ASSUME TypeOK, NEW p \in Attempt, TimerFires(p)
  PROVE  /\ retry.timer = "armed" /\ At(p) = "idle"
         /\ UNCHANGED <<row, owned, engine, mark, control, reports>>
         /\ Starting => excused'
         /\ ~excused' => ~excused
         /\ \/ (mark \/ ~owned) /\ retry' = NoRetry /\ UNCHANGED <<registry, launch>>
            \/ /\ owned /\ ~mark /\ registry = NoEngine /\ retry'.timer = "spent"
               /\ registry' \in Engine /\ Fresh(registry')
               /\ At(p)' = "status" /\ On(p)' = registry' /\ Others(p)
            \/ /\ owned /\ ~mark /\ registry # NoEngine /\ retry'.timer = "spent"
               /\ At(p)' = "destroy" /\ On(p)' = registry /\ Others(p)
               /\ UNCHANGED registry
<1>1. /\ retry.timer = "armed" /\ At(p) = "idle" /\ p \in Launcher
      /\ UNCHANGED <<row, owned, engine, mark, control, reports>>
  BY DEF TimerFires, Launcher, At
<1>2. (Starting => excused') /\ (~excused' => ~excused)
  BY DEF TimerFires
<1>3. CASE mark \/ ~owned
  BY <1>1, <1>2, <1>3 DEF TimerFires, CancelReconnect
<1>4. CASE ~(mark \/ ~owned)
  <2>1. retry'.timer = "spent"
    BY <1>4, Tables DEF TimerFires
  <2>2. CASE registry = NoEngine
    <3>1. PICK e \in Engine : Fresh(e) /\ registry' = e /\ Goes(p, "status", e)
      BY <1>4, <2>2 DEF TimerFires, Build
    <3>2. At(p)' = "status" /\ On(p)' = e /\ Others(p)
      BY <1>1, <3>1, LaunchMoves
    <3> QED
      BY <1>1, <1>2, <1>4, <2>1, <2>2, <3>1, <3>2
  <2>3. CASE registry # NoEngine
    <3>1. Goes(p, "destroy", registry) /\ UNCHANGED registry
      BY <1>4, <2>3 DEF TimerFires
    <3>2. At(p)' = "destroy" /\ On(p)' = registry /\ Others(p)
      BY <1>1, <3>1, LaunchMoves
    <3> QED
      BY <1>1, <1>2, <1>4, <2>1, <2>3, <3>1, <3>2
  <2> QED
    BY <2>2, <2>3
<1> QED
  BY <1>3, <1>4

(* What a start that nothing is recorded beside finds, and what a timer    *)
(* finds that launches something.                                          *)
LEMMA StartFinds ==
  ASSUME StartAccepted
  PROVE  /\ "attempt" \notin beside' => ~Reconnecting
         /\ "delete" \notin beside' => ~Deleting
  BY DEF StartAccepted, Ongoing

LEMMA TimerFinds ==
  ASSUME NEW p \in Attempt, TimerFires(p), "attempt" \notin beside'
  PROVE  UNCHANGED launch \/ ~Reconnecting
  BY DEF TimerFires, Ongoing

(* The start behind its hook: a new engine, or no lease. *)
LEMMA BuildMoves ==
  ASSUME TypeOK, StartBuilds
  PROVE  /\ At(Start) = "hook" /\ Others(Start)
         /\ UNCHANGED <<row, engine, mark, control, excused, reports>>
         /\ \/ /\ owned /\ UNCHANGED owned /\ retry'.timer = "dormant"
               /\ registry' \in Engine /\ Fresh(registry')
               /\ At(Start)' = "status" /\ On(Start)' = registry'
            \/ /\ registry' = NoEngine /\ registry # NoEngine
               /\ At(Start)' = "evict" /\ On(Start)' = registry
               /\ UNCHANGED <<owned, retry>>
            \/ /\ registry' = NoEngine /\ registry = NoEngine
               /\ At(Start)' = "idle" /\ On(Start)' = NoEngine
               /\ owned' = FALSE /\ retry' = NoRetry
<1>1. /\ At(Start) = "hook" /\ Start \in Launcher
      /\ UNCHANGED <<mark, control, excused, reports>>
  BY DEF StartBuilds, Launcher, At
<1>2. CASE owned
  <2>1. PICK e \in Engine :
          Fresh(e) /\ registry' = e /\ Goes(Start, "status", e)
          /\ UNCHANGED <<row, owned, engine>> /\ retry' = [timer |-> "dormant", attempts |-> 0]
    BY <1>2 DEF StartBuilds, Build
  <2>2. At(Start)' = "status" /\ On(Start)' = e /\ Others(Start)
    BY <1>1, <2>1, LaunchMoves
  <2> QED
    BY <1>1, <1>2, <2>1, <2>2
<1>3. CASE ~owned
  <2>1. StartThrows(registry)
    BY <1>3 DEF StartBuilds
  <2>2. CASE registry = NoEngine
    <3>1. registry' = NoEngine /\ Ends(Start) /\ retry' = NoRetry /\ owned' = FALSE /\ UNCHANGED <<row, engine>>
      BY <2>1, <2>2 DEF StartThrows, CancelReconnect
    <3> QED
      BY <1>1, <2>2, <3>1, LaunchMoves
  <2>3. CASE registry # NoEngine
    <3>1. registry' = NoEngine /\ Goes(Start, "evict", registry) /\ UNCHANGED <<row, engine, owned, retry>>
      BY <2>1, <2>3 DEF StartThrows
    <3> QED
      BY <1>1, <2>3, <3>1, LaunchMoves
  <2> QED
    BY <2>2, <2>3
<1> QED
  BY <1>2, <1>3

(* The report of a drop: stale, without a state, out of budget, or a       *)
(* timer.                                                                  *)
LEMMA ReportMoves ==
  ASSUME TypeOK, NEW e \in Engine, Reported(e)
  PROVE  /\ e \in reports /\ reports' = reports \ {e}
         /\ UNCHANGED <<owned, mark, launch, control>>
         /\ row = "gone" <=> row' = "gone"
         /\ ~excused' => ~excused /\ \A p \in Attempt : At(p) = "destroy" => On(p) # e
         /\ \/ /\ registry # e \/ ~owned \/ row = "gone"
               /\ UNCHANGED <<row, registry, engine, retry>>
            \/ /\ registry = e /\ owned /\ row # "gone" /\ retry.timer = "none"
               /\ retry' = NoRetry /\ row' = "DISCONNECTED"
               /\ UNCHANGED <<registry, engine>>
            \/ /\ registry = e /\ owned /\ row # "gone" /\ registry' = NoEngine
               /\ retry' = NoRetry
               /\ \A k \in Engine :
                    engine'[k] = IF k = e /\ engine[k] # "down" THEN "doomed" ELSE engine[k]
            \/ /\ registry = e /\ owned /\ row # "gone" /\ retry.timer # "none"
               /\ retry'.timer = "armed" /\ row' = "DISCONNECTED"
               /\ UNCHANGED <<registry, engine>>
<1>1. /\ e \in reports /\ reports' = reports \ {e}
      /\ UNCHANGED <<owned, mark, launch, control>>
  BY DEF Reported
<1>2. ASSUME ~excused'
      PROVE  ~excused /\ \A p \in Attempt : At(p) = "destroy" => On(p) # e
  <2>1. ~excused /\ \A p \in Attempt : launch[p] # [at |-> "destroy", on |-> e]
    BY <1>2 DEF Reported
  <2>2. \A p \in Attempt : launch[p] = [at |-> At(p), on |-> On(p)]
    BY Tables
  <2> QED
    BY <2>1, <2>2
<1>3. CASE ~(registry = e /\ owned /\ row # "gone")
  BY <1>1, <1>2, <1>3 DEF Reported
<1>4. CASE registry = e /\ owned /\ row # "gone"
  <2>1. PICK spent \in Budgets :
          /\ Write(IF Exhausted(spent) THEN "FAILED" ELSE "DISCONNECTED")
          /\ retry' = Rescheduled(spent)
          /\ registry' = IF Exhausted(spent) THEN NoEngine ELSE registry
          /\ engine' = IF Exhausted(spent) THEN Doomed(registry) ELSE engine
    BY <1>4 DEF Reported
  <2>2. row' = IF Exhausted(spent) THEN "FAILED" ELSE "DISCONNECTED"
    BY <1>4, <2>1 DEF Write
  <2>3. CASE Exhausted(spent)
    BY <1>1, <1>2, <1>4, <2>1, <2>2, <2>3, EngineMoves DEF Rescheduled
  <2>4. CASE ~Exhausted(spent) /\ retry.timer = "none"
    BY <1>1, <1>2, <1>4, <2>1, <2>2, <2>4 DEF Rescheduled
  <2>5. CASE ~Exhausted(spent) /\ retry.timer # "none"
    <3>1. retry' = [timer |-> "armed", attempts |-> spent + 1]
      BY <2>1, <2>5 DEF Rescheduled
    <3>2. retry'.timer = "armed"
      BY <3>1
    <3> QED
      BY <1>1, <1>2, <1>4, <2>1, <2>2, <2>5, <3>2
  <2> QED
    BY <2>3, <2>4, <2>5
<1> QED
  BY <1>3, <1>4

-----------------------------------------------------------------------------
(* One lemma per part of the invariant, one step per action.  The named    *)
(* steps say what the updates of a table mean cell by cell and when the    *)
(* part is kept or does not apply.                                         *)

(* Only Capture, LoseLease and Rebind hand an engine to a control. *)
LEMMA ControlsInductive ==
  ASSUME TypeOK, ControlsHold, [Next]_vars
  PROVE  ControlsHold'
<1>same. ASSUME UNCHANGED <<control, row>> PROVE ControlsHold'
  BY <1>same DEF ControlsHold, Deletes, AtRest
<1>1. ASSUME StartRequested \/ StartTwice \/ StartRefused \/ StartAccepted PROVE ControlsHold'
  BY <1>same, <1>1 DEF StartRequested, StartTwice, StartRefused, StartAccepted, local
<1>2. ASSUME NEW p \in Launcher, InitResolves(p) \/ InitTimesOut(p) \/ Check(p) \/ Reaped(p) \/ CheckFails(p)
      PROVE  ControlsHold'
  BY <1>same, <1>2 DEF InitResolves, InitTimesOut, Check, Reaped, CheckFails, local
<1>3. ASSUME NEW p \in Attempt, TimerFires(p) \/ AttemptBuilds(p) PROVE ControlsHold'
  BY <1>same, <1>3 DEF TimerFires, AttemptBuilds, local
<1>4. ASSUME NEW e \in Engine, Drops(e) \/ GoesMute(e) \/ Watchdog(e) \/ ReportFails(e) \/ DoomedDies(e)
      PROVE  ControlsHold'
  BY <1>same, <1>4 DEF Drops, GoesMute, Watchdog, ReportFails, DoomedDies, local
<1>5. ASSUME StartBuilds PROVE ControlsHold'
  BY <1>5, BuildMoves, Sorts DEF Fresh, Alive, ControlsHold, Deletes, AtRest
<1>6. ASSUME StartEvicted PROVE ControlsHold'
  BY <1>6, LaunchMoves, EngineMoves, RowMoves, Sorts DEF StartEvicted, CancelReconnect,
     ControlsHold, Deletes, AtRest
<1>7. ASSUME NEW p \in Launcher, StatusWritten(p) PROVE ControlsHold'
  BY <1>7, StatusMoves, Sorts DEF ControlsHold, Deletes, AtRest
<1>8. ASSUME NEW p \in Launcher, InitRejects(p) PROVE ControlsHold'
  BY <1>8, ThrowMoves, RowMoves, Sorts DEF InitRejects, ControlsHold, Deletes, AtRest
<1>9. ASSUME NEW p \in Launcher, InitKilled(p) PROVE ControlsHold'
  BY <1>9, LaunchMoves, EngineMoves, RowMoves, Sorts DEF InitKilled, ControlsHold, Deletes, AtRest
<1>10. ASSUME NEW p \in Launcher, StatusFails(p) PROVE ControlsHold'
  BY <1>10, ThrowMoves, RowMoves, Sorts DEF StatusFails, ControlsHold, Deletes, AtRest
<1>11. ASSUME NEW c \in Control, NEW kind \in {"stop", "kill", "delete"}, Request(c, kind)
       PROVE  ControlsHold'
  BY <1>11, ControlCells, Sorts DEF Request, local, ControlsHold, Deletes, AtRest
<1>12. ASSUME NEW c \in Control, Refused(c) PROVE ControlsHold'
  BY <1>12, ControlCells, Sorts DEF Refused, AtRest, ControlsHold, Deletes
<1>13. ASSUME NEW c \in Control, Capture(c) PROVE ControlsHold'
  BY <1>13, ControlCells, Sorts DEF Capture, CancelReconnect, local, ControlsHold, Deletes, AtRest
<1>14. ASSUME NEW c \in Control, TornDown(c) PROVE ControlsHold'
  BY <1>14, EngineMoves, ControlCells, RowMoves, Sorts DEF TornDown, AtRest, Without,
     ControlsHold, Deletes
<1>15. ASSUME NEW c \in Control, Written(c) PROVE ControlsHold'
  BY <1>15, ControlCells, RowMoves, Sorts DEF Written, AtRest, ControlsHold, Deletes
<1>16. ASSUME NEW c \in Control, Cleared(c) PROVE ControlsHold'
  BY <1>16, ControlCells, Sorts DEF Cleared, AtRest, ControlsHold, Deletes
<1>17. ASSUME NEW c \in Control, DeleteFails(c) PROVE ControlsHold'
  BY <1>17, ControlCells, Sorts DEF DeleteFails, AtRest, local, ControlsHold, Deletes
<1>18. ASSUME NEW c \in Control, LoseLease(c) PROVE ControlsHold'
  BY <1>18, ControlCells, Sorts DEF LoseLease, CancelReconnect, ControlsHold, Deletes, AtRest
<1>19. ASSUME NEW c \in Control, NEW e \in Engine, Rebind(e, c) PROVE ControlsHold'
  BY <1>19, ControlCells, Sorts DEF Rebind, CancelReconnect, local, ControlsHold, Deletes, AtRest
<1>20. ASSUME NEW e \in Engine, Ready(e) PROVE ControlsHold'
  BY <1>20, EngineCells, RowMoves, Sorts DEF Ready, ControlsHold, Deletes, AtRest
<1>21. ASSUME NEW e \in Engine, Errs(e) PROVE ControlsHold'
  BY <1>21, EngineMoves, RowMoves, Sorts DEF Errs, CancelReconnect, ControlsHold, Deletes, AtRest
<1>22. ASSUME NEW e \in Engine, Reported(e) PROVE ControlsHold'
  BY <1>22, ReportMoves, Sorts DEF ControlsHold, Deletes, AtRest
<1>23. CASE UNCHANGED vars
  BY <1>same, <1>23 DEF vars, local
<1> QED
  BY <1>1, <1>2, <1>3, <1>4, <1>5, <1>6, <1>7, <1>8, <1>9, <1>10, <1>11, <1>12, <1>13, <1>14,
     <1>15, <1>16, <1>17, <1>18, <1>19, <1>20, <1>21, <1>22, <1>23 DEF Next, Starts, Launch,
     Retirement

(* A launch comes by an engine that is new, and only its own status write  *)
(* starts it.                                                              *)
LEMMA StatusInductive ==
  ASSUME TypeOK, StatusIsNew, [Next]_vars
  PROVE  StatusIsNew'
<1>same. ASSUME UNCHANGED <<launch, engine, reports>> PROVE StatusIsNew'
  BY <1>same DEF StatusIsNew, At, On, Alive, Others
<1>1. ASSUME StartTwice PROVE StatusIsNew'
  BY <1>same, <1>1 DEF StartTwice, local
<1>2. ASSUME NEW c \in Control, NEW kind \in {"stop", "kill", "delete"}, Request(c, kind)
      PROVE  StatusIsNew'
  BY <1>same, <1>2 DEF Request, local
<1>3. ASSUME NEW c \in Control, Refused(c) \/ Capture(c) \/ Written(c) \/ Cleared(c) \/ DeleteFails(c) \/
             LoseLease(c)
      PROVE  StatusIsNew'
  BY <1>same, <1>3 DEF Refused, Capture, Written, Cleared, DeleteFails, LoseLease, local
<1>4. ASSUME NEW c \in Control, NEW e \in Engine, Rebind(e, c) PROVE StatusIsNew'
  BY <1>same, <1>4 DEF Rebind, local
<1>5. ASSUME StartRequested PROVE StatusIsNew'
  BY <1>5, LaunchMoves, Sorts DEF StartRequested, StatusIsNew, At, On, Alive, Others
<1>6. ASSUME StartRefused PROVE StatusIsNew'
  BY <1>6, LaunchMoves, Sorts DEF StartRefused, StatusIsNew, At, On, Alive, Others
<1>7. ASSUME StartAccepted PROVE StatusIsNew'
  BY <1>7, LaunchMoves, Sorts DEF StartAccepted, CancelReconnect, local, StatusIsNew, At, On,
     Alive, Others
<1>8. ASSUME StartBuilds PROVE StatusIsNew'
  <2>1. /\ Others(Start) /\ UNCHANGED <<engine, reports>>
        /\ \/ registry' \in Engine /\ Fresh(registry') /\ At(Start)' = "status" /\ On(Start)' = registry'
           \/ registry' = NoEngine /\ registry # NoEngine /\ At(Start)' = "evict" /\ On(Start)' = registry
           \/ registry' = NoEngine /\ At(Start)' = "idle"
    BY <1>8, BuildMoves DEF StartBuilds
  <2> QED
    BY <2>1, Sorts DEF Fresh, StatusIsNew, At, On, Alive, Others
<1>9. ASSUME StartEvicted PROVE StatusIsNew'
  BY <1>9, LaunchMoves, EngineMoves, RowMoves, Sorts DEF StartEvicted, CancelReconnect,
     StatusIsNew, At, On, Alive, Others
<1>10. ASSUME NEW p \in Launcher, StatusWritten(p) PROVE StatusIsNew'
  BY <1>10, StatusMoves, Sorts DEF StatusIsNew, At, On, Alive, Others
<1>11. ASSUME NEW p \in Launcher, InitRejects(p) PROVE StatusIsNew'
  <2>1. /\ Others(p) /\ registry' = NoEngine /\ UNCHANGED reports
        /\ \/ At(p)' = "evict" /\ On(p)' = registry /\ registry # NoEngine
           \/ At(p)' = "idle"
        /\ \A k \in Engine : engine[k] = "down" => engine'[k] = "down"
        /\ \A k \in Engine : engine'[k] \in {engine[k], "doomed"}
    BY <1>11, ThrowMoves DEF InitRejects
  <2> QED
    BY <2>1, Sorts DEF StatusIsNew, At, On, Alive, Others
<1>12. ASSUME NEW p \in Launcher, InitResolves(p) PROVE StatusIsNew'
  BY <1>12, ReturnMoves, Sorts DEF InitResolves, StatusIsNew, At, On, Alive, Others
<1>13. ASSUME NEW p \in Launcher, InitTimesOut(p) PROVE StatusIsNew'
  BY <1>13, LaunchMoves, Sorts DEF InitTimesOut, StatusIsNew, At, On, Alive, Others
<1>14. ASSUME NEW p \in Launcher, InitKilled(p) PROVE StatusIsNew'
  BY <1>14, LaunchMoves, EngineMoves, RowMoves, Sorts DEF InitKilled, StatusIsNew, At, On, Alive,
     Others
<1>15. ASSUME NEW p \in Launcher, Check(p) PROVE StatusIsNew'
  BY <1>15, ReturnMoves, Sorts DEF Check, StatusIsNew, At, On, Alive, Others
<1>16. ASSUME NEW p \in Launcher, Reaped(p) PROVE StatusIsNew'
  BY <1>16, LaunchMoves, EngineMoves, Sorts DEF Reaped, Without, StatusIsNew, At, On, Alive,
     Others
<1>17. ASSUME NEW p \in Launcher, StatusFails(p) PROVE StatusIsNew'
  <2>1. /\ Others(p) /\ registry' = NoEngine /\ UNCHANGED reports
        /\ \/ At(p)' = "evict" /\ On(p)' = registry /\ registry # NoEngine
           \/ At(p)' = "idle"
        /\ \A k \in Engine : engine[k] = "down" => engine'[k] = "down"
        /\ \A k \in Engine : engine'[k] \in {engine[k], "doomed"}
    BY <1>17, ThrowMoves DEF StatusFails
  <2> QED
    BY <2>1, Sorts DEF StatusIsNew, At, On, Alive, Others
<1>18. ASSUME NEW p \in Launcher, CheckFails(p) PROVE StatusIsNew'
  BY <1>18, LaunchMoves, Sorts DEF CheckFails, StatusIsNew, At, On, Alive, Others
<1>19. ASSUME NEW p \in Attempt, TimerFires(p) PROVE StatusIsNew'
  BY <1>19, TimerMoves, Sorts DEF Fresh, Alive, StatusIsNew, At, On, Others
<1>20. ASSUME NEW p \in Attempt, AttemptBuilds(p) PROVE StatusIsNew'
  BY <1>20, AttemptMoves, Sorts DEF Fresh, Alive, StatusIsNew, At, On, Others
<1>21. ASSUME NEW c \in Control, TornDown(c) PROVE StatusIsNew'
  BY <1>21, EngineMoves, ControlCells, RowMoves, Sorts DEF TornDown, AtRest, Without, StatusIsNew,
     At, On, Alive, Others
<1>22. ASSUME NEW e \in Engine, Ready(e) PROVE StatusIsNew'
  BY <1>22, EngineCells, RowMoves, Sorts DEF Ready, StatusIsNew, At, On, Alive, Others
<1>23. ASSUME NEW e \in Engine, Drops(e) PROVE StatusIsNew'
  BY <1>23, EngineCells, Sorts DEF Drops, StatusIsNew, At, On, Alive, Others
<1>24. ASSUME NEW e \in Engine, GoesMute(e) PROVE StatusIsNew'
  BY <1>24, EngineCells, Sorts DEF GoesMute, StatusIsNew, At, On, Alive, Others
<1>25. ASSUME NEW e \in Engine, Watchdog(e) PROVE StatusIsNew'
  BY <1>25, Sorts DEF Watchdog, local, StatusIsNew, At, On, Alive, Others
<1>26. ASSUME NEW e \in Engine, Errs(e) PROVE StatusIsNew'
  BY <1>26, EngineMoves, RowMoves, Sorts DEF Errs, CancelReconnect, StatusIsNew, At, On, Alive,
     Others
<1>27. ASSUME NEW e \in Engine, Reported(e) PROVE StatusIsNew'
  BY <1>27, ReportMoves, Sorts DEF StatusIsNew, At, On, Alive, Others
<1>28. ASSUME NEW e \in Engine, ReportFails(e) PROVE StatusIsNew'
  BY <1>28, Sorts DEF ReportFails, local, StatusIsNew, At, On, Alive, Others
<1>29. ASSUME NEW e \in Engine, DoomedDies(e) PROVE StatusIsNew'
  BY <1>29, EngineMoves, Sorts DEF DoomedDies, StatusIsNew, At, On, Alive, Others
<1>30. CASE UNCHANGED vars
  BY <1>same, <1>30 DEF vars, local
<1> QED
  BY <1>1, <1>2, <1>3, <1>4, <1>5, <1>6, <1>7, <1>8, <1>9, <1>10, <1>11, <1>12, <1>13, <1>14,
     <1>15, <1>16, <1>17, <1>18, <1>19, <1>20, <1>21, <1>22, <1>23, <1>24, <1>25, <1>26, <1>27,
     <1>28, <1>29, <1>30 DEF Next, Starts, Launch, Retirement

(* A launch evicts before it waits. *)
LEMMA HeldInductive ==
  ASSUME TypeOK, HeldIsOut, [Next]_vars
  PROVE  HeldIsOut'
<1>same. ASSUME UNCHANGED <<launch, registry>> PROVE HeldIsOut'
  BY <1>same DEF HeldIsOut, At, On, Others
<1>1. ASSUME StartTwice PROVE HeldIsOut'
  BY <1>same, <1>1 DEF StartTwice, local
<1>2. ASSUME NEW c \in Control, NEW kind \in {"stop", "kill", "delete"}, Request(c, kind)
      PROVE  HeldIsOut'
  BY <1>same, <1>2 DEF Request, local
<1>3. ASSUME NEW c \in Control, Refused(c) \/ Capture(c) \/ Written(c) \/ Cleared(c) \/ DeleteFails(c) \/
             LoseLease(c)
      PROVE  HeldIsOut'
  BY <1>same, <1>3 DEF Refused, Capture, Written, Cleared, DeleteFails, LoseLease, local
<1>4. ASSUME NEW c \in Control, NEW e \in Engine, Rebind(e, c) PROVE HeldIsOut'
  BY <1>same, <1>4 DEF Rebind, local
<1>5. ASSUME NEW e \in Engine, Ready(e) \/ Drops(e) \/ GoesMute(e) \/ Watchdog(e) \/ ReportFails(e) \/
             DoomedDies(e)
      PROVE  HeldIsOut'
  BY <1>same, <1>5 DEF Ready, Drops, GoesMute, Watchdog, ReportFails, DoomedDies, local
<1>6. ASSUME StartRequested PROVE HeldIsOut'
  BY <1>6, LaunchMoves, Sorts DEF StartRequested, HeldIsOut, At, On, Others
<1>7. ASSUME StartRefused PROVE HeldIsOut'
  BY <1>7, LaunchMoves, Sorts DEF StartRefused, HeldIsOut, At, On, Others
<1>8. ASSUME StartAccepted PROVE HeldIsOut'
  BY <1>8, LaunchMoves, Sorts DEF StartAccepted, CancelReconnect, local, HeldIsOut, At, On, Others
<1>9. ASSUME StartBuilds PROVE HeldIsOut'
  <2>1. /\ Others(Start) /\ UNCHANGED <<engine, reports>>
        /\ \/ registry' \in Engine /\ Fresh(registry') /\ At(Start)' = "status" /\ On(Start)' = registry'
           \/ registry' = NoEngine /\ registry # NoEngine /\ At(Start)' = "evict" /\ On(Start)' = registry
           \/ registry' = NoEngine /\ At(Start)' = "idle"
    BY <1>9, BuildMoves DEF StartBuilds
  <2> QED
    BY <2>1, Sorts DEF Fresh, HeldIsOut, At, On, Others
<1>10. ASSUME StartEvicted PROVE HeldIsOut'
  BY <1>10, LaunchMoves, EngineMoves, RowMoves, Sorts DEF StartEvicted, CancelReconnect,
     HeldIsOut, At, On, Others
<1>11. ASSUME NEW p \in Launcher, StatusWritten(p) PROVE HeldIsOut'
  BY <1>11, StatusMoves, Sorts DEF HeldIsOut, At, On, Others
<1>12. ASSUME NEW p \in Launcher, InitRejects(p) PROVE HeldIsOut'
  <2>1. /\ Others(p) /\ registry' = NoEngine /\ UNCHANGED reports
        /\ \/ At(p)' = "evict" /\ On(p)' = registry /\ registry # NoEngine
           \/ At(p)' = "idle"
        /\ \A k \in Engine : engine[k] = "down" => engine'[k] = "down"
        /\ \A k \in Engine : engine'[k] \in {engine[k], "doomed"}
    BY <1>12, ThrowMoves DEF InitRejects
  <2> QED
    BY <2>1, Sorts DEF HeldIsOut, At, On, Others
<1>13. ASSUME NEW p \in Launcher, InitResolves(p) PROVE HeldIsOut'
  BY <1>13, ReturnMoves, Sorts DEF InitResolves, HeldIsOut, At, On, Others
<1>14. ASSUME NEW p \in Launcher, InitTimesOut(p) PROVE HeldIsOut'
  BY <1>14, LaunchMoves, Sorts DEF InitTimesOut, HeldIsOut, At, On, Others
<1>15. ASSUME NEW p \in Launcher, InitKilled(p) PROVE HeldIsOut'
  BY <1>15, LaunchMoves, EngineMoves, RowMoves, Sorts DEF InitKilled, HeldIsOut, At, On, Others
<1>16. ASSUME NEW p \in Launcher, Check(p) PROVE HeldIsOut'
  BY <1>16, ReturnMoves, Sorts DEF Check, HeldIsOut, At, On, Others
<1>17. ASSUME NEW p \in Launcher, Reaped(p) PROVE HeldIsOut'
  BY <1>17, LaunchMoves, EngineMoves, Sorts DEF Reaped, Without, HeldIsOut, At, On, Others
<1>18. ASSUME NEW p \in Launcher, StatusFails(p) PROVE HeldIsOut'
  <2>1. /\ Others(p) /\ registry' = NoEngine /\ UNCHANGED reports
        /\ \/ At(p)' = "evict" /\ On(p)' = registry /\ registry # NoEngine
           \/ At(p)' = "idle"
        /\ \A k \in Engine : engine[k] = "down" => engine'[k] = "down"
        /\ \A k \in Engine : engine'[k] \in {engine[k], "doomed"}
    BY <1>18, ThrowMoves DEF StatusFails
  <2> QED
    BY <2>1, Sorts DEF HeldIsOut, At, On, Others
<1>19. ASSUME NEW p \in Launcher, CheckFails(p) PROVE HeldIsOut'
  BY <1>19, LaunchMoves, Sorts DEF CheckFails, HeldIsOut, At, On, Others
<1>20. ASSUME NEW p \in Attempt, TimerFires(p) PROVE HeldIsOut'
  BY <1>20, TimerMoves, Sorts DEF Fresh, Alive, HeldIsOut, At, On, Others
<1>21. ASSUME NEW p \in Attempt, AttemptBuilds(p) PROVE HeldIsOut'
  BY <1>21, AttemptMoves, Sorts DEF Fresh, Alive, HeldIsOut, At, On, Others
<1>22. ASSUME NEW c \in Control, TornDown(c) PROVE HeldIsOut'
  BY <1>22, EngineMoves, ControlCells, RowMoves, Sorts DEF TornDown, AtRest, Without, HeldIsOut,
     At, On, Others
<1>23. ASSUME NEW e \in Engine, Errs(e) PROVE HeldIsOut'
  BY <1>23, EngineMoves, RowMoves, Sorts DEF Errs, CancelReconnect, HeldIsOut, At, On, Others
<1>24. ASSUME NEW e \in Engine, Reported(e) PROVE HeldIsOut'
  BY <1>24, ReportMoves, Sorts DEF HeldIsOut, At, On, Others
<1>25. CASE UNCHANGED vars
  BY <1>same, <1>25 DEF vars, local
<1> QED
  BY <1>1, <1>2, <1>3, <1>4, <1>5, <1>6, <1>7, <1>8, <1>9, <1>10, <1>11, <1>12, <1>13, <1>14,
     <1>15, <1>16, <1>17, <1>18, <1>19, <1>20, <1>21, <1>22, <1>23, <1>24, <1>25 DEF Next, Starts,
     Launch, Retirement

(* Only what is registered is reported, and only what dropped or went      *)
(* mute.                                                                   *)
LEMMA ReportsInductive ==
  ASSUME TypeOK, StatusIsNew, HeldIsOut, RegisteredIsUp, ReportsAreLate, [Next]_vars
  PROVE  (RegisteredIsUp /\ ReportsAreLate)'
<1>same. ASSUME UNCHANGED <<launch, registry, engine, reports>>
         PROVE  (RegisteredIsUp /\ ReportsAreLate)'
  BY <1>same DEF StatusIsNew, HeldIsOut, RegisteredIsUp, ReportsAreLate, At, On, Alive, Others
<1>1. ASSUME StartTwice PROVE (RegisteredIsUp /\ ReportsAreLate)'
  BY <1>same, <1>1 DEF StartTwice, local
<1>2. ASSUME NEW c \in Control, NEW kind \in {"stop", "kill", "delete"}, Request(c, kind)
      PROVE  (RegisteredIsUp /\ ReportsAreLate)'
  BY <1>same, <1>2 DEF Request, local
<1>3. ASSUME NEW c \in Control, Refused(c) \/ Capture(c) \/ Written(c) \/ Cleared(c) \/ DeleteFails(c) \/
             LoseLease(c)
      PROVE  (RegisteredIsUp /\ ReportsAreLate)'
  BY <1>same, <1>3 DEF Refused, Capture, Written, Cleared, DeleteFails, LoseLease, local
<1>4. ASSUME NEW c \in Control, NEW e \in Engine, Rebind(e, c)
      PROVE  (RegisteredIsUp /\ ReportsAreLate)'
  BY <1>same, <1>4 DEF Rebind, local
<1>5. ASSUME StartRequested PROVE (RegisteredIsUp /\ ReportsAreLate)'
  BY <1>5, LaunchMoves, Sorts DEF StartRequested, StatusIsNew, HeldIsOut, RegisteredIsUp,
     ReportsAreLate, At, On, Alive, Others
<1>6. ASSUME StartRefused PROVE (RegisteredIsUp /\ ReportsAreLate)'
  BY <1>6, LaunchMoves, Sorts DEF StartRefused, StatusIsNew, HeldIsOut, RegisteredIsUp,
     ReportsAreLate, At, On, Alive, Others
<1>7. ASSUME StartAccepted PROVE (RegisteredIsUp /\ ReportsAreLate)'
  BY <1>7, LaunchMoves, Sorts DEF StartAccepted, CancelReconnect, local, StatusIsNew, HeldIsOut,
     RegisteredIsUp, ReportsAreLate, At, On, Alive, Others
<1>8. ASSUME StartBuilds PROVE (RegisteredIsUp /\ ReportsAreLate)'
  <2>1. /\ Others(Start) /\ UNCHANGED <<engine, reports>>
        /\ \/ registry' \in Engine /\ Fresh(registry') /\ At(Start)' = "status" /\ On(Start)' = registry'
           \/ registry' = NoEngine /\ registry # NoEngine /\ At(Start)' = "evict" /\ On(Start)' = registry
           \/ registry' = NoEngine /\ At(Start)' = "idle"
    BY <1>8, BuildMoves DEF StartBuilds
  <2> QED
    BY <2>1, Sorts DEF Fresh, StatusIsNew, HeldIsOut, RegisteredIsUp, ReportsAreLate, At, On,
       Alive, Others
<1>9. ASSUME StartEvicted PROVE (RegisteredIsUp /\ ReportsAreLate)'
  BY <1>9, LaunchMoves, EngineMoves, RowMoves, Sorts DEF StartEvicted, CancelReconnect,
     StatusIsNew, HeldIsOut, RegisteredIsUp, ReportsAreLate, At, On, Alive, Others
<1>10. ASSUME NEW p \in Launcher, StatusWritten(p) PROVE (RegisteredIsUp /\ ReportsAreLate)'
  BY <1>10, StatusMoves, Sorts DEF StatusIsNew, HeldIsOut, RegisteredIsUp, ReportsAreLate, At, On,
     Alive, Others
<1>11. ASSUME NEW p \in Launcher, InitRejects(p) PROVE (RegisteredIsUp /\ ReportsAreLate)'
  <2>1. /\ Others(p) /\ registry' = NoEngine /\ UNCHANGED reports
        /\ \/ At(p)' = "evict" /\ On(p)' = registry /\ registry # NoEngine
           \/ At(p)' = "idle"
        /\ \A k \in Engine : engine[k] = "down" => engine'[k] = "down"
        /\ \A k \in Engine : engine'[k] \in {engine[k], "doomed"}
    BY <1>11, ThrowMoves DEF InitRejects
  <2> QED
    BY <2>1, Sorts DEF StatusIsNew, HeldIsOut, RegisteredIsUp, ReportsAreLate, At, On, Alive,
       Others
<1>12. ASSUME NEW p \in Launcher, InitResolves(p) PROVE (RegisteredIsUp /\ ReportsAreLate)'
  BY <1>12, ReturnMoves, Sorts DEF InitResolves, StatusIsNew, HeldIsOut, RegisteredIsUp,
     ReportsAreLate, At, On, Alive, Others
<1>13. ASSUME NEW p \in Launcher, InitTimesOut(p) PROVE (RegisteredIsUp /\ ReportsAreLate)'
  BY <1>13, LaunchMoves, Sorts DEF InitTimesOut, StatusIsNew, HeldIsOut, RegisteredIsUp,
     ReportsAreLate, At, On, Alive, Others
<1>14. ASSUME NEW p \in Launcher, InitKilled(p) PROVE (RegisteredIsUp /\ ReportsAreLate)'
  BY <1>14, LaunchMoves, EngineMoves, RowMoves, Sorts DEF InitKilled, StatusIsNew, HeldIsOut,
     RegisteredIsUp, ReportsAreLate, At, On, Alive, Others
<1>15. ASSUME NEW p \in Launcher, Check(p) PROVE (RegisteredIsUp /\ ReportsAreLate)'
  BY <1>15, ReturnMoves, Sorts DEF Check, StatusIsNew, HeldIsOut, RegisteredIsUp, ReportsAreLate,
     At, On, Alive, Others
<1>16. ASSUME NEW p \in Launcher, Reaped(p) PROVE (RegisteredIsUp /\ ReportsAreLate)'
  BY <1>16, LaunchMoves, EngineMoves, Sorts DEF Reaped, Without, StatusIsNew, HeldIsOut,
     RegisteredIsUp, ReportsAreLate, At, On, Alive, Others
<1>17. ASSUME NEW p \in Launcher, StatusFails(p) PROVE (RegisteredIsUp /\ ReportsAreLate)'
  <2>1. /\ Others(p) /\ registry' = NoEngine /\ UNCHANGED reports
        /\ \/ At(p)' = "evict" /\ On(p)' = registry /\ registry # NoEngine
           \/ At(p)' = "idle"
        /\ \A k \in Engine : engine[k] = "down" => engine'[k] = "down"
        /\ \A k \in Engine : engine'[k] \in {engine[k], "doomed"}
    BY <1>17, ThrowMoves DEF StatusFails
  <2> QED
    BY <2>1, Sorts DEF StatusIsNew, HeldIsOut, RegisteredIsUp, ReportsAreLate, At, On, Alive,
       Others
<1>18. ASSUME NEW p \in Launcher, CheckFails(p) PROVE (RegisteredIsUp /\ ReportsAreLate)'
  BY <1>18, LaunchMoves, Sorts DEF CheckFails, StatusIsNew, HeldIsOut, RegisteredIsUp,
     ReportsAreLate, At, On, Alive, Others
<1>19. ASSUME NEW p \in Attempt, TimerFires(p) PROVE (RegisteredIsUp /\ ReportsAreLate)'
  BY <1>19, TimerMoves, Sorts DEF Fresh, Alive, StatusIsNew, HeldIsOut, RegisteredIsUp,
     ReportsAreLate, At, On, Others
<1>20. ASSUME NEW p \in Attempt, AttemptBuilds(p) PROVE (RegisteredIsUp /\ ReportsAreLate)'
  BY <1>20, AttemptMoves, Sorts DEF Fresh, Alive, StatusIsNew, HeldIsOut, RegisteredIsUp,
     ReportsAreLate, At, On, Others
<1>21. ASSUME NEW c \in Control, TornDown(c) PROVE (RegisteredIsUp /\ ReportsAreLate)'
  BY <1>21, EngineMoves, ControlCells, RowMoves, Sorts DEF TornDown, AtRest, Without, StatusIsNew,
     HeldIsOut, RegisteredIsUp, ReportsAreLate, At, On, Alive, Others
<1>22. ASSUME NEW e \in Engine, Ready(e) PROVE (RegisteredIsUp /\ ReportsAreLate)'
  BY <1>22, EngineCells, RowMoves, Sorts DEF Ready, StatusIsNew, HeldIsOut, RegisteredIsUp,
     ReportsAreLate, At, On, Alive, Others
<1>23. ASSUME NEW e \in Engine, Drops(e) PROVE (RegisteredIsUp /\ ReportsAreLate)'
  BY <1>23, EngineCells, Sorts DEF Drops, StatusIsNew, HeldIsOut, RegisteredIsUp, ReportsAreLate,
     At, On, Alive, Others
<1>24. ASSUME NEW e \in Engine, GoesMute(e) PROVE (RegisteredIsUp /\ ReportsAreLate)'
  BY <1>24, EngineCells, Sorts DEF GoesMute, StatusIsNew, HeldIsOut, RegisteredIsUp,
     ReportsAreLate, At, On, Alive, Others
<1>25. ASSUME NEW e \in Engine, Watchdog(e) PROVE (RegisteredIsUp /\ ReportsAreLate)'
  BY <1>25, Sorts DEF Watchdog, local, StatusIsNew, HeldIsOut, RegisteredIsUp, ReportsAreLate, At,
     On, Alive, Others
<1>26. ASSUME NEW e \in Engine, Errs(e) PROVE (RegisteredIsUp /\ ReportsAreLate)'
  BY <1>26, EngineMoves, RowMoves, Sorts DEF Errs, CancelReconnect, StatusIsNew, HeldIsOut,
     RegisteredIsUp, ReportsAreLate, At, On, Alive, Others
<1>27. ASSUME NEW e \in Engine, Reported(e) PROVE (RegisteredIsUp /\ ReportsAreLate)'
  BY <1>27, ReportMoves, Sorts DEF StatusIsNew, HeldIsOut, RegisteredIsUp, ReportsAreLate, At, On,
     Alive, Others
<1>28. ASSUME NEW e \in Engine, ReportFails(e) PROVE (RegisteredIsUp /\ ReportsAreLate)'
  BY <1>28, Sorts DEF ReportFails, local, StatusIsNew, HeldIsOut, RegisteredIsUp, ReportsAreLate,
     At, On, Alive, Others
<1>29. ASSUME NEW e \in Engine, DoomedDies(e) PROVE (RegisteredIsUp /\ ReportsAreLate)'
  BY <1>29, EngineMoves, Sorts DEF DoomedDies, StatusIsNew, HeldIsOut, RegisteredIsUp,
     ReportsAreLate, At, On, Alive, Others
<1>30. CASE UNCHANGED vars
  BY <1>same, <1>30 DEF vars, local
<1> QED
  BY <1>1, <1>2, <1>3, <1>4, <1>5, <1>6, <1>7, <1>8, <1>9, <1>10, <1>11, <1>12, <1>13, <1>14,
     <1>15, <1>16, <1>17, <1>18, <1>19, <1>20, <1>21, <1>22, <1>23, <1>24, <1>25, <1>26, <1>27,
     <1>28, <1>29, <1>30 DEF Next, Starts, Launch, Retirement

(* Whoever gives the lease up finds nothing registered or takes it down. *)
LEMMA UnownedInductive ==
  ASSUME TypeOK, ControlsHold, UnownedIsRemoved, [Next]_vars
  PROVE  UnownedIsRemoved'
<1>typed. TypeOK
  OBVIOUS
<1>k. UNCHANGED control => \A e : TakenDown(e)' <=> TakenDown(e)
  BY DEF TakenDown
<1>same. ASSUME UNCHANGED <<row, owned, registry, control>> PROVE UnownedIsRemoved'
  BY <1>same, <1>k DEF UnownedIsRemoved
<1>1. ASSUME StartAccepted PROVE UnownedIsRemoved'
  BY <1>same, <1>1 DEF StartAccepted, local
<1>2. ASSUME NEW e \in Engine, Drops(e) \/ GoesMute(e) \/ Watchdog(e) \/ ReportFails(e) \/ DoomedDies(e)
      PROVE  UnownedIsRemoved'
  BY <1>same, <1>2 DEF Drops, GoesMute, Watchdog, ReportFails, DoomedDies, local
<1>3. ASSUME StartRequested PROVE UnownedIsRemoved'
  BY <1>3, LaunchMoves, Sorts, <1>k DEF StartRequested, UnownedIsRemoved
<1>4. ASSUME StartTwice PROVE UnownedIsRemoved'
  BY <1>4, Sorts, <1>k DEF StartTwice, UnownedIsRemoved
<1>5. ASSUME StartRefused PROVE UnownedIsRemoved'
  BY <1>5, LaunchMoves, Sorts, <1>k DEF StartRefused, UnownedIsRemoved
<1>6. ASSUME StartBuilds PROVE UnownedIsRemoved'
  <2>1. /\ UNCHANGED <<row, control>>
        /\ (owned /\ UNCHANGED owned) \/ registry' = NoEngine
    BY <1>6, BuildMoves
  <2> QED
    BY <2>1, <1>k, Sorts DEF UnownedIsRemoved
<1>7. ASSUME StartEvicted PROVE UnownedIsRemoved'
  <2>1. /\ UNCHANGED <<registry, control>> /\ (row = "gone" <=> row' = "gone")
        /\ registry = NoEngine \/ UNCHANGED owned
    BY <1>7, <1>typed DEF StartEvicted, Write, TypeOK
  <2> QED
    BY <2>1, <1>k, Sorts DEF UnownedIsRemoved
<1>8. ASSUME NEW p \in Launcher, StatusWritten(p) PROVE UnownedIsRemoved'
  BY <1>8, StatusMoves, Sorts, <1>k DEF UnownedIsRemoved
<1>9. ASSUME NEW p \in Launcher, InitRejects(p) PROVE UnownedIsRemoved'
  BY <1>9, ThrowMoves, RowMoves, Sorts, <1>k DEF InitRejects, UnownedIsRemoved
<1>10. ASSUME NEW p \in Launcher, InitResolves(p) PROVE UnownedIsRemoved'
  BY <1>10, ReturnMoves, Sorts, <1>k DEF InitResolves, UnownedIsRemoved, At, On
<1>11. ASSUME NEW p \in Launcher, InitTimesOut(p) PROVE UnownedIsRemoved'
  BY <1>11, LaunchMoves, Sorts, <1>k DEF InitTimesOut, UnownedIsRemoved
<1>12. ASSUME NEW p \in Launcher, InitKilled(p) PROVE UnownedIsRemoved'
  BY <1>12, LaunchMoves, EngineMoves, RowMoves, Sorts, <1>k DEF InitKilled, UnownedIsRemoved
<1>13. ASSUME NEW p \in Launcher, Check(p) PROVE UnownedIsRemoved'
  BY <1>13, ReturnMoves, Sorts, <1>k DEF Check, UnownedIsRemoved, At, On
<1>14. ASSUME NEW p \in Launcher, Reaped(p) PROVE UnownedIsRemoved'
  BY <1>14, LaunchMoves, EngineMoves, Sorts, <1>k DEF Reaped, Without, UnownedIsRemoved
<1>15. ASSUME NEW p \in Launcher, StatusFails(p) PROVE UnownedIsRemoved'
  BY <1>15, ThrowMoves, RowMoves, Sorts, <1>k DEF StatusFails, UnownedIsRemoved
<1>16. ASSUME NEW p \in Launcher, CheckFails(p) PROVE UnownedIsRemoved'
  BY <1>16, LaunchMoves, Sorts, <1>k DEF CheckFails, UnownedIsRemoved
<1>17. ASSUME NEW p \in Attempt, TimerFires(p) PROVE UnownedIsRemoved'
  BY <1>17, TimerMoves, Sorts, <1>k DEF Fresh, Alive, UnownedIsRemoved
<1>18. ASSUME NEW p \in Attempt, AttemptBuilds(p) PROVE UnownedIsRemoved'
  BY <1>18, AttemptMoves, Sorts, <1>k DEF Fresh, Alive, UnownedIsRemoved
<1>19. ASSUME NEW c \in Control, NEW kind \in {"stop", "kill", "delete"}, Request(c, kind)
       PROVE  UnownedIsRemoved'
  BY <1>19, ControlCells, Sorts DEF Request, local, UnownedIsRemoved, TakenDown, AtRest
<1>20. ASSUME NEW c \in Control, Refused(c) PROVE UnownedIsRemoved'
  BY <1>20, ControlCells, Sorts DEF Refused, AtRest, UnownedIsRemoved, EngineActive, TakenDown
<1>21. ASSUME NEW c \in Control, Capture(c) PROVE UnownedIsRemoved'
  BY <1>21, ControlCells, Sorts DEF Capture, CancelReconnect, local, UnownedIsRemoved, TakenDown,
     AtRest
<1>22. ASSUME NEW c \in Control, TornDown(c) PROVE UnownedIsRemoved'
  BY <1>22, EngineMoves, ControlCells, RowMoves, Sorts DEF TornDown, AtRest, Without,
     UnownedIsRemoved, TakenDown
<1>23. ASSUME NEW c \in Control, Written(c) PROVE UnownedIsRemoved'
  BY ZenonT(40), <1>23, ControlCells, RowMoves, Sorts DEF Written, AtRest, UnownedIsRemoved, EngineActive,
     TakenDown
<1>24. ASSUME NEW c \in Control, Cleared(c) PROVE UnownedIsRemoved'
  BY <1>24, ControlCells, Sorts DEF Cleared, AtRest, UnownedIsRemoved, ControlsHold, TakenDown
<1>25. ASSUME NEW c \in Control, DeleteFails(c) PROVE UnownedIsRemoved'
  BY <1>25, ControlCells, Sorts DEF DeleteFails, AtRest, local, UnownedIsRemoved, TakenDown
<1>26. ASSUME NEW c \in Control, LoseLease(c) PROVE UnownedIsRemoved'
  BY <1>26, ControlCells, Sorts DEF LoseLease, CancelReconnect, UnownedIsRemoved, TakenDown,
     AtRest
<1>27. ASSUME NEW c \in Control, NEW e \in Engine, Rebind(e, c) PROVE UnownedIsRemoved'
  BY <1>27, ControlCells, Sorts DEF Rebind, CancelReconnect, local, UnownedIsRemoved, TakenDown,
     AtRest
<1>28. ASSUME NEW e \in Engine, Ready(e) PROVE UnownedIsRemoved'
  BY <1>28, EngineCells, RowMoves, Sorts, <1>k DEF Ready, UnownedIsRemoved
<1>29. ASSUME NEW e \in Engine, Errs(e) PROVE UnownedIsRemoved'
  BY <1>29, EngineMoves, RowMoves, Sorts, <1>k DEF Errs, CancelReconnect, UnownedIsRemoved
<1>30. ASSUME NEW e \in Engine, Reported(e) PROVE UnownedIsRemoved'
  BY <1>30, ReportMoves, Sorts, <1>k DEF UnownedIsRemoved
<1>31. CASE UNCHANGED vars
  BY <1>same, <1>31 DEF vars, local
<1> QED
  BY <1>1, <1>2, <1>3, <1>4, <1>5, <1>6, <1>7, <1>8, <1>9, <1>10, <1>11, <1>12, <1>13, <1>14,
     <1>15, <1>16, <1>17, <1>18, <1>19, <1>20, <1>21, <1>22, <1>23, <1>24, <1>25, <1>26, <1>27,
     <1>28, <1>29, <1>30, <1>31 DEF Next, Starts, Launch, Retirement

(* Whoever sets the mark takes the engine down; a launch in between looks  *)
(* at the mark.                                                            *)
LEMMA MarkedInductive ==
  ASSUME TypeOK, UnownedIsRemoved, MarkedIsRemoved, [Next]_vars
  PROVE  MarkedIsRemoved'
<1>k. UNCHANGED control => /\ \A e : TakenDown(e)' <=> TakenDown(e)
                           /\ Entering' <=> Entering
  BY DEF TakenDown, Entering
<1>j. UNCHANGED launch => \A e : LaunchSees(e)' <=> LaunchSees(e)
  BY DEF LaunchSees, At, On
<1>l. \A p \in Launcher : Others(p) /\ At(p) \notin {"status", "init", "destroy", "reap"} =>
        \A e : LaunchSees(e) => LaunchSees(e)'
  BY DEF LaunchSees, Others
<1>n. \A p \in Launcher : At(p)' \in {"status", "init", "destroy"} => \A e : LaunchSees(e)'
  BY DEF LaunchSees
<1>v. \A p \in Launcher : Others(p) /\ At(p) = "reap" =>
        \A e : e # On(p) => (LaunchSees(e) => LaunchSees(e)')
  BY DEF LaunchSees, Others
<1>r. \A p \in Launcher : At(p)' = "reap" => LaunchSees(On(p))'
  BY DEF LaunchSees
<1>same. ASSUME UNCHANGED <<row, owned, registry, mark, launch, control>> PROVE MarkedIsRemoved'
  BY <1>same, <1>k, <1>j DEF MarkedIsRemoved
<1>1. ASSUME NEW e \in Engine, Drops(e) \/ GoesMute(e) \/ Watchdog(e) \/ ReportFails(e) \/ DoomedDies(e)
      PROVE  MarkedIsRemoved'
  BY <1>same, <1>1 DEF Drops, GoesMute, Watchdog, ReportFails, DoomedDies, local
<1>2. ASSUME StartRequested PROVE MarkedIsRemoved'
  BY <1>2, LaunchMoves, Sorts, <1>k, <1>l, <1>n, <1>r DEF StartRequested, MarkedIsRemoved, At, On,
     Starting
<1>3. ASSUME StartTwice PROVE MarkedIsRemoved'
  BY <1>3, Sorts, <1>k, <1>j DEF StartTwice, MarkedIsRemoved
<1>4. ASSUME StartRefused PROVE MarkedIsRemoved'
  BY <1>4, LaunchMoves, Sorts, <1>k, <1>l, <1>n, <1>r DEF StartRefused, MarkedIsRemoved, At, On
<1>5. ASSUME StartAccepted PROVE MarkedIsRemoved'
  BY <1>5, LaunchMoves, Sorts, <1>k, <1>l, <1>n, <1>r DEF StartAccepted, CancelReconnect, local,
     MarkedIsRemoved, At, On
<1>6. ASSUME StartBuilds PROVE MarkedIsRemoved'
  <2>1. /\ Others(Start) /\ UNCHANGED <<mark, control>>
        /\ \/ At(Start)' = "status"
           \/ registry' = NoEngine
    BY <1>6, BuildMoves DEF StartBuilds
  <2> QED
    BY <2>1, <1>k, <1>n, Sorts DEF MarkedIsRemoved
<1>7. ASSUME StartEvicted PROVE MarkedIsRemoved'
  BY <1>7, LaunchMoves, EngineMoves, RowMoves, Sorts, <1>k, <1>l, <1>n, <1>r DEF StartEvicted,
     CancelReconnect, MarkedIsRemoved, At, On
<1>8. ASSUME NEW p \in Launcher, StatusWritten(p) PROVE MarkedIsRemoved'
  <2>1. /\ Others(p) /\ UNCHANGED <<registry, mark, control>>
        /\ \/ ~mark \/ registry = NoEngine
           \/ At(p)' = "reap" /\ On(p)' = registry
    BY <1>8, StatusMoves
  <2> QED
    BY <2>1, <1>k, <1>r, Sorts DEF MarkedIsRemoved
<1>9. ASSUME NEW p \in Launcher, InitRejects(p) PROVE MarkedIsRemoved'
  <2>1. registry' = NoEngine
    BY <1>9, ThrowMoves DEF InitRejects
  <2> QED
    BY <2>1, Sorts DEF MarkedIsRemoved
<1>10. ASSUME NEW p \in Launcher, InitResolves(p) PROVE MarkedIsRemoved'
  BY <1>10, ReturnMoves, Sorts, <1>k, <1>l, <1>n, <1>r DEF InitResolves, MarkedIsRemoved, At, On
<1>11. ASSUME NEW p \in Launcher, InitTimesOut(p) PROVE MarkedIsRemoved'
  BY <1>11, LaunchMoves, Sorts, <1>k, <1>l, <1>n, <1>r DEF InitTimesOut, MarkedIsRemoved, At, On
<1>12. ASSUME NEW p \in Launcher, InitKilled(p) PROVE MarkedIsRemoved'
  BY <1>12, LaunchMoves, EngineMoves, RowMoves, Sorts, <1>k, <1>l, <1>n, <1>r DEF InitKilled,
     MarkedIsRemoved, At, On
<1>13. ASSUME NEW p \in Launcher, Check(p) PROVE MarkedIsRemoved'
  BY <1>13, ReturnMoves, Sorts, <1>k, <1>l, <1>n, <1>r DEF Check, MarkedIsRemoved, At, On
<1>14. ASSUME NEW p \in Launcher, Reaped(p) PROVE MarkedIsRemoved'
  BY <1>14, LaunchMoves, EngineMoves, Sorts, <1>k, <1>l, <1>n, <1>r, <1>v DEF Reaped, Without,
     MarkedIsRemoved, At, On
<1>15. ASSUME NEW p \in Launcher, StatusFails(p) PROVE MarkedIsRemoved'
  <2>1. registry' = NoEngine
    BY <1>15, ThrowMoves DEF StatusFails
  <2> QED
    BY <2>1, Sorts DEF MarkedIsRemoved
<1>16. ASSUME NEW p \in Launcher, CheckFails(p) PROVE MarkedIsRemoved'
  BY <1>16, LaunchMoves, Sorts, <1>k, <1>l, <1>n, <1>r DEF CheckFails, MarkedIsRemoved, At, On
<1>17. ASSUME NEW p \in Attempt, TimerFires(p) PROVE MarkedIsRemoved'
  <2>1. /\ UNCHANGED <<mark, control>>
        /\ \/ UNCHANGED <<registry, launch>>
           \/ ~mark
    BY <1>17, TimerMoves
  <2> QED
    BY <2>1, <1>k, <1>j, Sorts DEF MarkedIsRemoved
<1>18. ASSUME NEW p \in Attempt, AttemptBuilds(p) PROVE MarkedIsRemoved'
  <2>1. /\ Others(p) /\ UNCHANGED <<mark, control>>
        /\ \/ At(p)' = "status"
           \/ registry' = NoEngine
    BY <1>18, AttemptMoves
  <2> QED
    BY <2>1, <1>k, <1>n, Sorts DEF MarkedIsRemoved
<1>19. ASSUME NEW c \in Control, NEW kind \in {"stop", "kill", "delete"}, Request(c, kind)
       PROVE  MarkedIsRemoved'
  <2>1. /\ \A e : TakenDown(e) => TakenDown(e)'
        /\ Entering => Entering'
        /\ kind \in {"stop", "delete"} => Entering'
        /\ UNCHANGED <<registry, launch>>
    BY <1>19, ControlCells DEF Request, local, TakenDown, Entering, AtRest
  <2>2. mark' => mark \/ kind \in {"stop", "delete"}
    BY <1>19 DEF Request
  <2> QED
    BY <2>1, <2>2, <1>j DEF MarkedIsRemoved
<1>20. ASSUME NEW c \in Control, Refused(c) PROVE MarkedIsRemoved'
  BY <1>20, ControlCells, Sorts, <1>j DEF Refused, AtRest, MarkedIsRemoved, UnownedIsRemoved,
     TakenDown, Entering
<1>21. ASSUME NEW c \in Control, Capture(c) PROVE MarkedIsRemoved'
  BY <1>21, ControlCells, Sorts, <1>j DEF Capture, CancelReconnect, local, MarkedIsRemoved,
     TakenDown, Entering, AtRest
<1>22. ASSUME NEW c \in Control, TornDown(c) PROVE MarkedIsRemoved'
  BY <1>22, EngineMoves, ControlCells, RowMoves, Sorts, <1>j DEF TornDown, AtRest, Without,
     MarkedIsRemoved, TakenDown, Entering
<1>23. ASSUME NEW c \in Control, Written(c) PROVE MarkedIsRemoved'
  BY <1>23, ControlCells, RowMoves, Sorts, <1>j DEF Written, AtRest, MarkedIsRemoved, TakenDown,
     Entering
<1>24. ASSUME NEW c \in Control, Cleared(c) PROVE MarkedIsRemoved'
  BY <1>24, ControlCells, Sorts, <1>j DEF Cleared, AtRest, MarkedIsRemoved, TakenDown, Entering
<1>25. ASSUME NEW c \in Control, DeleteFails(c) PROVE MarkedIsRemoved'
  BY <1>25, ControlCells, Sorts, <1>j DEF DeleteFails, AtRest, local, MarkedIsRemoved, TakenDown,
     Entering
<1>26. ASSUME NEW c \in Control, LoseLease(c) PROVE MarkedIsRemoved'
  BY <1>26, ControlCells, Sorts, <1>j DEF LoseLease, CancelReconnect, MarkedIsRemoved, TakenDown,
     Entering, AtRest
<1>27. ASSUME NEW c \in Control, NEW e \in Engine, Rebind(e, c) PROVE MarkedIsRemoved'
  BY <1>27, ControlCells, Sorts, <1>j DEF Rebind, CancelReconnect, local, MarkedIsRemoved,
     TakenDown, Entering, AtRest
<1>28. ASSUME NEW e \in Engine, Ready(e) PROVE MarkedIsRemoved'
  BY <1>28, EngineCells, RowMoves, Sorts, <1>k, <1>j DEF Ready, MarkedIsRemoved
<1>29. ASSUME NEW e \in Engine, Errs(e) PROVE MarkedIsRemoved'
  BY <1>29, EngineMoves, RowMoves, Sorts, <1>k, <1>j DEF Errs, CancelReconnect, MarkedIsRemoved
<1>30. ASSUME NEW e \in Engine, Reported(e) PROVE MarkedIsRemoved'
  BY <1>30, ReportMoves, Sorts, <1>k, <1>j DEF MarkedIsRemoved
<1>31. CASE UNCHANGED vars
  BY <1>same, <1>31 DEF vars, local
<1> QED
  BY <1>1, <1>2, <1>3, <1>4, <1>5, <1>6, <1>7, <1>8, <1>9, <1>10, <1>11, <1>12, <1>13, <1>14,
     <1>15, <1>16, <1>17, <1>18, <1>19, <1>20, <1>21, <1>22, <1>23, <1>24, <1>25, <1>26, <1>27,
     <1>28, <1>29, <1>30, <1>31 DEF Next, Starts, Launch, Retirement

(* Nobody starts while delete() works, and what was started before looks   *)
(* at the mark.                                                            *)
LEMMA DeletingInductive ==
  ASSUME TypeOK, "delete" \notin beside', ControlsHold, DeletingRemoves, [Next]_vars
  PROVE  DeletingRemoves'
<1>k. UNCHANGED control => \A e : TakenDown(e)' <=> TakenDown(e)
  BY DEF TakenDown
<1>j. UNCHANGED launch => \A e : LaunchSees(e)' <=> LaunchSees(e)
  BY DEF LaunchSees, At, On
<1>l. \A p \in Launcher : Others(p) /\ At(p) \notin {"status", "init", "destroy", "reap"} =>
        \A e : LaunchSees(e) => LaunchSees(e)'
  BY DEF LaunchSees, Others
<1>n. \A p \in Launcher : At(p)' \in {"status", "init", "destroy"} => \A e : LaunchSees(e)'
  BY DEF LaunchSees
<1>v. \A p \in Launcher : Others(p) /\ At(p) = "reap" =>
        \A e : e # On(p) => (LaunchSees(e) => LaunchSees(e)')
  BY DEF LaunchSees, Others
<1>r. \A p \in Launcher : At(p)' = "reap" => LaunchSees(On(p))'
  BY DEF LaunchSees
<1>same. ASSUME UNCHANGED <<registry, mark, launch, control>> PROVE DeletingRemoves'
  BY <1>same, <1>k, <1>j DEF DeletingRemoves
<1>1. ASSUME StartTwice PROVE DeletingRemoves'
  BY <1>same, <1>1 DEF StartTwice, local
<1>2. ASSUME NEW e \in Engine, Ready(e) \/ Drops(e) \/ GoesMute(e) \/ Watchdog(e) \/ ReportFails(e) \/
             DoomedDies(e)
      PROVE  DeletingRemoves'
  BY <1>same, <1>2 DEF Ready, Drops, GoesMute, Watchdog, ReportFails, DoomedDies, local
<1>3. ASSUME StartRequested PROVE DeletingRemoves'
  BY <1>3, LaunchMoves, Sorts, <1>k, <1>l, <1>n, <1>r DEF StartRequested, DeletingRemoves, At, On,
     Starting
<1>4. ASSUME StartRefused PROVE DeletingRemoves'
  BY <1>4, LaunchMoves, Sorts, <1>k, <1>l, <1>n, <1>r DEF StartRefused, DeletingRemoves, At, On
<1>5. ASSUME StartAccepted PROVE DeletingRemoves'
  <2>1. ~Deleting
    BY <1>5, StartFinds
  <2> QED
    BY <1>5, <2>1, LaunchMoves, Sorts, <1>k, <1>l, <1>n, <1>r DEF StartAccepted, CancelReconnect, local,
       DeletingRemoves, At, On, Deleting
<1>6. ASSUME StartBuilds PROVE DeletingRemoves'
  <2>1. /\ Others(Start) /\ UNCHANGED <<mark, control, row, excused>>
        /\ \/ At(Start)' = "status"
           \/ registry' = NoEngine
    BY <1>6, BuildMoves DEF StartBuilds
  <2> QED
    BY <2>1, <1>k, <1>n, Sorts DEF DeletingRemoves
<1>7. ASSUME StartEvicted PROVE DeletingRemoves'
  BY <1>7, LaunchMoves, EngineMoves, RowMoves, Sorts, <1>k, <1>l, <1>n, <1>r DEF StartEvicted,
     CancelReconnect, DeletingRemoves, At, On
<1>8. ASSUME NEW p \in Launcher, StatusWritten(p) PROVE DeletingRemoves'
  <2>1. /\ Others(p) /\ UNCHANGED <<registry, mark, control>>
        /\ \/ ~mark \/ registry = NoEngine
           \/ At(p)' = "reap" /\ On(p)' = registry
    BY <1>8, StatusMoves
  <2> QED
    BY <2>1, <1>k, <1>r, Sorts DEF DeletingRemoves
<1>9. ASSUME NEW p \in Launcher, InitRejects(p) PROVE DeletingRemoves'
  <2>1. registry' = NoEngine /\ UNCHANGED <<mark, control>>
    BY <1>9, ThrowMoves DEF InitRejects
  <2> QED
    BY <2>1, Sorts DEF DeletingRemoves
<1>10. ASSUME NEW p \in Launcher, InitResolves(p) PROVE DeletingRemoves'
  BY <1>10, ReturnMoves, Sorts, <1>k, <1>l, <1>n, <1>r DEF InitResolves, DeletingRemoves, At, On
<1>11. ASSUME NEW p \in Launcher, InitTimesOut(p) PROVE DeletingRemoves'
  BY <1>11, LaunchMoves, Sorts, <1>k, <1>l, <1>n, <1>r DEF InitTimesOut, DeletingRemoves, At, On
<1>12. ASSUME NEW p \in Launcher, InitKilled(p) PROVE DeletingRemoves'
  BY <1>12, LaunchMoves, EngineMoves, RowMoves, Sorts, <1>k, <1>l, <1>n, <1>r DEF InitKilled,
     DeletingRemoves, At, On
<1>13. ASSUME NEW p \in Launcher, Check(p) PROVE DeletingRemoves'
  BY <1>13, ReturnMoves, Sorts, <1>k, <1>l, <1>n, <1>r DEF Check, DeletingRemoves, At, On
<1>14. ASSUME NEW p \in Launcher, Reaped(p) PROVE DeletingRemoves'
  BY <1>14, LaunchMoves, EngineMoves, Sorts, <1>k, <1>l, <1>n, <1>r, <1>v DEF Reaped, Without,
     DeletingRemoves, At, On
<1>15. ASSUME NEW p \in Launcher, StatusFails(p) PROVE DeletingRemoves'
  <2>1. registry' = NoEngine /\ UNCHANGED <<mark, control>>
    BY <1>15, ThrowMoves DEF StatusFails
  <2> QED
    BY <2>1, Sorts DEF DeletingRemoves
<1>16. ASSUME NEW p \in Launcher, CheckFails(p) PROVE DeletingRemoves'
  BY <1>16, LaunchMoves, Sorts, <1>k, <1>l, <1>n, <1>r DEF CheckFails, DeletingRemoves, At, On
<1>17. ASSUME NEW p \in Attempt, TimerFires(p) PROVE DeletingRemoves'
  <2>1. /\ UNCHANGED <<mark, control>>
        /\ \/ UNCHANGED <<registry, launch>>
           \/ ~mark
    BY <1>17, TimerMoves
  <2> QED
    BY <2>1, <1>k, <1>j, Sorts DEF DeletingRemoves
<1>18. ASSUME NEW p \in Attempt, AttemptBuilds(p) PROVE DeletingRemoves'
  <2>1. /\ Others(p) /\ UNCHANGED <<mark, control, row, excused>>
        /\ \/ At(p)' = "status"
           \/ registry' = NoEngine
    BY <1>18, AttemptMoves
  <2> QED
    BY <2>1, <1>k, <1>n, Sorts DEF DeletingRemoves
<1>19. ASSUME NEW c \in Control, NEW kind \in {"stop", "kill", "delete"}, Request(c, kind)
       PROVE  DeletingRemoves'
  <2>1. /\ \A e : TakenDown(e) => TakenDown(e)'
        /\ \A d \in Control : d # c => control'[d] = control[d]
        /\ control'[c].at = "enter"
        /\ UNCHANGED <<registry, launch>>
    BY <1>19, ControlCells DEF Request, local, TakenDown, AtRest
  <2>2. mark => mark'
    BY <1>19 DEF Request
  <2> QED
    BY <2>1, <2>2, <1>j DEF DeletingRemoves
<1>20. ASSUME NEW c \in Control, Refused(c) PROVE DeletingRemoves'
  BY <1>20, ControlCells, Sorts, <1>j DEF Refused, AtRest, DeletingRemoves, ControlsHold, Deletes,
     TakenDown
<1>21. ASSUME NEW c \in Control, Capture(c) PROVE DeletingRemoves'
  BY <1>21, ControlCells, Sorts, <1>j DEF Capture, CancelReconnect, local, DeletingRemoves,
     ControlsHold, Deletes, TakenDown, AtRest
<1>22. ASSUME NEW c \in Control, TornDown(c) PROVE DeletingRemoves'
  BY <1>22, EngineMoves, ControlCells, RowMoves, Sorts, <1>j DEF TornDown, AtRest, Without,
     DeletingRemoves, ControlsHold, Deletes, TakenDown
<1>23. ASSUME NEW c \in Control, Written(c) PROVE DeletingRemoves'
  BY <1>23, ControlCells, RowMoves, Sorts, <1>j DEF Written, AtRest, DeletingRemoves,
     ControlsHold, Deletes, TakenDown
<1>24. ASSUME NEW c \in Control, Cleared(c) PROVE DeletingRemoves'
  BY <1>24, ControlCells, Sorts, <1>j DEF Cleared, AtRest, DeletingRemoves, ControlsHold, Deletes,
     TakenDown
<1>25. ASSUME NEW c \in Control, DeleteFails(c) PROVE DeletingRemoves'
  BY <1>25, ControlCells, Sorts, <1>j DEF DeleteFails, AtRest, local, DeletingRemoves,
     ControlsHold, Deletes, TakenDown
<1>26. ASSUME NEW c \in Control, LoseLease(c) PROVE DeletingRemoves'
  BY <1>26, ControlCells, Sorts, <1>j DEF LoseLease, CancelReconnect, DeletingRemoves, TakenDown,
     AtRest
<1>27. ASSUME NEW c \in Control, NEW e \in Engine, Rebind(e, c) PROVE DeletingRemoves'
  BY <1>27, ControlCells, Sorts, <1>j DEF Rebind, CancelReconnect, local, DeletingRemoves,
     TakenDown, AtRest
<1>28. ASSUME NEW e \in Engine, Errs(e) PROVE DeletingRemoves'
  BY <1>28, EngineMoves, RowMoves, Sorts, <1>k, <1>j DEF Errs, CancelReconnect, DeletingRemoves
<1>29. ASSUME NEW e \in Engine, Reported(e) PROVE DeletingRemoves'
  BY <1>29, ReportMoves, Sorts, <1>k, <1>j DEF DeletingRemoves
<1>30. CASE UNCHANGED vars
  BY <1>same, <1>30 DEF vars, local
<1> QED
  BY <1>1, <1>2, <1>3, <1>4, <1>5, <1>6, <1>7, <1>8, <1>9, <1>10, <1>11, <1>12, <1>13, <1>14,
     <1>15, <1>16, <1>17, <1>18, <1>19, <1>20, <1>21, <1>22, <1>23, <1>24, <1>25, <1>26, <1>27,
     <1>28, <1>29, <1>30 DEF Next, Starts, Launch, Retirement

(* The transaction of delete() comes behind its teardown. *)
LEMMA GoneInductive ==
  ASSUME TypeOK, DeletingRemoves, GoneIsRemoved, [Next]_vars
  PROVE  GoneIsRemoved'
<1>k. UNCHANGED control => \A e : TakenDown(e)' <=> TakenDown(e)
  BY DEF TakenDown
<1>j. UNCHANGED launch => \A e : LaunchSees(e)' <=> LaunchSees(e)
  BY DEF LaunchSees, At, On
<1>l. \A p \in Launcher : Others(p) /\ At(p) \notin {"status", "init", "destroy", "reap"} =>
        \A e : LaunchSees(e) => LaunchSees(e)'
  BY DEF LaunchSees, Others
<1>n. \A p \in Launcher : At(p)' \in {"status", "init", "destroy"} => \A e : LaunchSees(e)'
  BY DEF LaunchSees
<1>v. \A p \in Launcher : Others(p) /\ At(p) = "reap" =>
        \A e : e # On(p) => (LaunchSees(e) => LaunchSees(e)')
  BY DEF LaunchSees, Others
<1>r. \A p \in Launcher : At(p)' = "reap" => LaunchSees(On(p))'
  BY DEF LaunchSees
<1>c. UNCHANGED launch => (Checking' <=> Checking)
  BY DEF Checking, At
<1>d. \A p \in Launcher : Others(p) /\ At(p) # "check" => (Checking => Checking')
  BY DEF Checking, Others
<1>g. \A p \in Launcher : At(p)' = "check" => Checking'
  BY DEF Checking
<1>same. ASSUME UNCHANGED <<row, registry, launch, control, excused>> PROVE GoneIsRemoved'
  BY <1>same, <1>k, <1>j, <1>c DEF GoneIsRemoved
<1>1. ASSUME StartTwice PROVE GoneIsRemoved'
  BY <1>same, <1>1 DEF StartTwice, local
<1>2. ASSUME NEW e \in Engine, Drops(e) \/ GoesMute(e) \/ Watchdog(e) \/ DoomedDies(e)
      PROVE  GoneIsRemoved'
  BY <1>same, <1>2 DEF Drops, GoesMute, Watchdog, DoomedDies, local
<1>3. ASSUME StartRequested PROVE GoneIsRemoved'
  BY <1>3, LaunchMoves, Sorts, <1>d, <1>g, <1>k, <1>l, <1>n, <1>r DEF StartRequested,
     GoneIsRemoved, At, On, Starting
<1>4. ASSUME StartRefused PROVE GoneIsRemoved'
  BY <1>4, LaunchMoves, Sorts, <1>d, <1>g, <1>k, <1>l, <1>n, <1>r DEF StartRefused, GoneIsRemoved,
     At, On
<1>5. ASSUME StartAccepted PROVE GoneIsRemoved'
  BY <1>5, LaunchMoves, Sorts, <1>d, <1>g, <1>k, <1>l, <1>n, <1>r DEF StartAccepted,
     CancelReconnect, local, GoneIsRemoved, At, On
<1>6. ASSUME StartBuilds PROVE GoneIsRemoved'
  <2>1. /\ Others(Start) /\ UNCHANGED control
        /\ \/ At(Start)' = "status"
           \/ registry' = NoEngine
    BY <1>6, BuildMoves DEF StartBuilds
  <2> QED
    BY <2>1, <1>k, <1>n, Sorts DEF GoneIsRemoved
<1>7. ASSUME StartEvicted PROVE GoneIsRemoved'
  BY <1>7, LaunchMoves, EngineMoves, RowMoves, Sorts, <1>d, <1>g, <1>k, <1>l, <1>n, <1>r DEF
     StartEvicted, CancelReconnect, GoneIsRemoved, At, On
<1>8. ASSUME NEW p \in Launcher, StatusWritten(p) PROVE GoneIsRemoved'
  <2>1. /\ Others(p) /\ UNCHANGED <<registry, control>>
        /\ \/ At(p)' \in {"init", "check"}
           \/ registry = NoEngine
           \/ At(p)' = "reap" /\ On(p)' = registry
    BY <1>8, StatusMoves
  <2> QED
    BY <2>1, <1>k, <1>n, <1>g, <1>r, Sorts DEF GoneIsRemoved
<1>9. ASSUME NEW p \in Launcher, InitRejects(p) PROVE GoneIsRemoved'
  <2>1. registry' = NoEngine
    BY <1>9, ThrowMoves DEF InitRejects
  <2> QED
    BY <2>1, Sorts DEF GoneIsRemoved
<1>10. ASSUME NEW p \in Launcher, InitResolves(p) PROVE GoneIsRemoved'
  <2>1. /\ Others(p) /\ UNCHANGED <<row, registry, control, excused>>
        /\ \/ At(p)' = "check"
           \/ registry = NoEngine
           \/ At(p)' = "reap" /\ On(p)' = registry
    BY <1>10, ReturnMoves DEF InitResolves
  <2> QED
    BY <2>1, <1>k, <1>g, <1>r, Sorts DEF GoneIsRemoved
<1>11. ASSUME NEW p \in Launcher, InitTimesOut(p) PROVE GoneIsRemoved'
  BY <1>11, LaunchMoves, Sorts, <1>d, <1>g, <1>k, <1>l, <1>n, <1>r DEF InitTimesOut,
     GoneIsRemoved, At, On
<1>12. ASSUME NEW p \in Launcher, InitKilled(p) PROVE GoneIsRemoved'
  BY <1>12, LaunchMoves, EngineMoves, RowMoves, Sorts, <1>d, <1>g, <1>k, <1>l, <1>n, <1>r DEF
     InitKilled, GoneIsRemoved, At, On
<1>13. ASSUME NEW p \in Launcher, Check(p) PROVE GoneIsRemoved'
  <2>1. /\ Others(p) /\ UNCHANGED <<row, registry, control, excused>> /\ At(p) = "check"
        /\ \/ row # "gone"
           \/ registry = NoEngine
           \/ At(p)' = "reap" /\ On(p)' = registry
    BY <1>13, ReturnMoves DEF Check, At
  <2> QED
    BY <2>1, <1>k, <1>r, Sorts DEF GoneIsRemoved
<1>14. ASSUME NEW p \in Launcher, Reaped(p) PROVE GoneIsRemoved'
  BY <1>14, LaunchMoves, EngineMoves, Sorts, <1>d, <1>g, <1>k, <1>l, <1>n, <1>r, <1>v DEF Reaped,
     Without, GoneIsRemoved, At, On
<1>15. ASSUME NEW p \in Launcher, StatusFails(p) PROVE GoneIsRemoved'
  <2>1. registry' = NoEngine
    BY <1>15, ThrowMoves DEF StatusFails
  <2> QED
    BY <2>1, Sorts DEF GoneIsRemoved
<1>16. ASSUME NEW p \in Launcher, CheckFails(p) PROVE GoneIsRemoved'
  BY <1>16 DEF CheckFails, GoneIsRemoved
<1>17. ASSUME NEW p \in Attempt, TimerFires(p) PROVE GoneIsRemoved'
  <2>1. /\ At(p) = "idle" /\ UNCHANGED <<row, control>> /\ (~excused' => ~excused)
        /\ \/ UNCHANGED <<registry, launch>>
           \/ At(p)' \in {"status", "destroy"}
    BY <1>17, TimerMoves
  <2> QED
    BY <2>1, <1>k, <1>j, <1>c, <1>n, Sorts DEF GoneIsRemoved
<1>18. ASSUME NEW p \in Attempt, AttemptBuilds(p) PROVE GoneIsRemoved'
  <2>1. /\ Others(p) /\ UNCHANGED control
        /\ \/ At(p)' = "status"
           \/ registry' = NoEngine
    BY <1>18, AttemptMoves
  <2> QED
    BY <2>1, <1>k, <1>n, Sorts DEF GoneIsRemoved
<1>19. ASSUME NEW c \in Control, NEW kind \in {"stop", "kill", "delete"}, Request(c, kind)
       PROVE  GoneIsRemoved'
  BY <1>19, ControlCells, Sorts, <1>c, <1>j DEF Request, local, GoneIsRemoved, TakenDown, AtRest
<1>20. ASSUME NEW c \in Control, Refused(c) PROVE GoneIsRemoved'
  BY <1>20, ControlCells, Sorts, <1>c, <1>j DEF Refused, AtRest, GoneIsRemoved, TakenDown
<1>21. ASSUME NEW c \in Control, Capture(c) PROVE GoneIsRemoved'
  BY <1>21, ControlCells, Sorts, <1>c, <1>j DEF Capture, CancelReconnect, local, GoneIsRemoved,
     TakenDown, AtRest
<1>22. ASSUME NEW c \in Control, TornDown(c) PROVE GoneIsRemoved'
  BY <1>22, EngineMoves, ControlCells, RowMoves, Sorts, <1>c, <1>j DEF TornDown, AtRest, Without,
     GoneIsRemoved, TakenDown
<1>23. ASSUME NEW c \in Control, Written(c) PROVE GoneIsRemoved'
  <2>1. \A d \in Control : d # c => control'[d] = control[d]
    BY <1>23, ControlCells DEF Written, AtRest
  <2>2. \A e : TakenDown(e) => TakenDown(e)'
    BY <1>23, <2>1, ControlCells DEF Written, TakenDown
  <2>3. UNCHANGED <<registry, launch, excused>>
    BY <1>23 DEF Written
  <2>4. CASE row = "gone"
    BY <2>2, <2>3, <2>4, <1>j, <1>c DEF GoneIsRemoved
  <2>5. CASE row # "gone" /\ row' = "gone"
    <3>1. control[c].kind = "delete" /\ control[c].at = "write"
      BY <1>23, RowMoves, <2>5 DEF Written
    <3> QED
      BY <2>2, <2>3, <3>1, <1>j DEF GoneIsRemoved, DeletingRemoves
  <2> QED
    BY <2>4, <2>5 DEF GoneIsRemoved
<1>24. ASSUME NEW c \in Control, Cleared(c) PROVE GoneIsRemoved'
  BY <1>24, ControlCells, Sorts, <1>c, <1>j DEF Cleared, AtRest, GoneIsRemoved, TakenDown
<1>25. ASSUME NEW c \in Control, DeleteFails(c) PROVE GoneIsRemoved'
  BY <1>25, ControlCells, Sorts, <1>c, <1>j DEF DeleteFails, AtRest, local, GoneIsRemoved,
     TakenDown
<1>26. ASSUME NEW c \in Control, LoseLease(c) PROVE GoneIsRemoved'
  BY <1>26, ControlCells, Sorts, <1>c, <1>j DEF LoseLease, CancelReconnect, GoneIsRemoved,
     TakenDown, AtRest
<1>27. ASSUME NEW c \in Control, NEW e \in Engine, Rebind(e, c) PROVE GoneIsRemoved'
  BY <1>27, ControlCells, Sorts, <1>c, <1>j DEF Rebind, CancelReconnect, local, GoneIsRemoved,
     TakenDown, AtRest
<1>28. ASSUME NEW e \in Engine, Ready(e) PROVE GoneIsRemoved'
  BY <1>28, EngineCells, RowMoves, Sorts, <1>c, <1>k, <1>j DEF Ready, GoneIsRemoved
<1>29. ASSUME NEW e \in Engine, Errs(e) PROVE GoneIsRemoved'
  BY <1>29, EngineMoves, RowMoves, Sorts, <1>c, <1>k, <1>j DEF Errs, CancelReconnect,
     GoneIsRemoved
<1>30. ASSUME NEW e \in Engine, Reported(e) PROVE GoneIsRemoved'
  BY <1>30, ReportMoves, Sorts, <1>c, <1>k, <1>j DEF GoneIsRemoved
<1>31. ASSUME NEW e \in Engine, ReportFails(e) PROVE GoneIsRemoved'
  BY <1>31, Sorts, <1>c, <1>k, <1>j DEF ReportFails, local, GoneIsRemoved
<1>32. CASE UNCHANGED vars
  BY <1>same, <1>32 DEF vars, local
<1> QED
  BY <1>1, <1>2, <1>3, <1>4, <1>5, <1>6, <1>7, <1>8, <1>9, <1>10, <1>11, <1>12, <1>13, <1>14,
     <1>15, <1>16, <1>17, <1>18, <1>19, <1>20, <1>21, <1>22, <1>23, <1>24, <1>25, <1>26, <1>27,
     <1>28, <1>29, <1>30, <1>31, <1>32 DEF Next, Starts, Launch, Retirement

(* Nothing but the timer makes an attempt begin. *)
LEMMA OneInductive ==
  ASSUME TypeOK, "attempt" \notin beside', OneAttempt, [Next]_vars
  PROVE  OneAttempt'
<1>same. ASSUME UNCHANGED launch PROVE OneAttempt'
  BY <1>same DEF OneAttempt, At
<1>kept. ASSUME NEW p \in Launcher, Others(p), p = Start \/ At(p) # "idle" PROVE OneAttempt'
  BY <1>kept, Sorts DEF OneAttempt, Others
<1>1. ASSUME StartTwice PROVE OneAttempt'
  BY <1>same, <1>1 DEF StartTwice, local
<1>2. ASSUME NEW c \in Control, NEW kind \in {"stop", "kill", "delete"}, Request(c, kind)
      PROVE  OneAttempt'
  BY <1>same, <1>2 DEF Request, local
<1>3. ASSUME NEW c \in Control, Refused(c) \/ Capture(c) \/ TornDown(c) \/ Written(c) \/ Cleared(c) \/
             LoseLease(c) \/ DeleteFails(c)
      PROVE  OneAttempt'
  BY <1>same, <1>3 DEF Refused, Capture, TornDown, Written, Cleared, LoseLease, DeleteFails, local
<1>4. ASSUME NEW c \in Control, NEW e \in Engine, Rebind(e, c) PROVE OneAttempt'
  BY <1>same, <1>4 DEF Rebind, local
<1>5. ASSUME NEW e \in Engine, Ready(e) \/ Drops(e) \/ GoesMute(e) \/ Watchdog(e) \/ Errs(e) \/ DoomedDies(e) \/
             Reported(e) \/ ReportFails(e)
      PROVE  OneAttempt'
  BY <1>same, <1>5 DEF Ready, Drops, GoesMute, Watchdog, Errs, DoomedDies, Reported, ReportFails, local
<1>6. ASSUME StartRequested \/ StartRefused \/ StartAccepted \/ StartBuilds \/ StartEvicted PROVE OneAttempt'
  <2>1. Others(Start) /\ Start \in Launcher
    BY <1>6, LaunchMoves, BuildMoves, Sorts DEF StartRequested, StartRefused, StartAccepted, StartEvicted
  <2> QED
    BY <2>1, <1>kept
<1>7. ASSUME NEW p \in Launcher, StatusWritten(p) PROVE OneAttempt'
  BY <1>7, StatusMoves, <1>kept
<1>8. ASSUME NEW p \in Launcher, InitRejects(p) \/ StatusFails(p) PROVE OneAttempt'
  <2>1. At(p) # "idle" /\ Others(p)
    BY <1>8, ThrowMoves DEF InitRejects, StatusFails, At
  <2> QED
    BY <2>1, <1>kept
<1>9. ASSUME NEW p \in Launcher, InitResolves(p) \/ Check(p) PROVE OneAttempt'
  <2>1. At(p) # "idle" /\ Others(p)
    BY <1>9, ReturnMoves DEF InitResolves, Check, At
  <2> QED
    BY <2>1, <1>kept
<1>10. ASSUME NEW p \in Launcher, InitTimesOut(p) \/ InitKilled(p) \/ Reaped(p) \/ CheckFails(p)
       PROVE  OneAttempt'
  <2>1. At(p) # "idle" /\ Others(p)
    BY <1>10, LaunchMoves DEF InitTimesOut, InitKilled, Reaped, CheckFails, At
  <2> QED
    BY <2>1, <1>kept
<1>11. ASSUME NEW p \in Attempt, TimerFires(p) PROVE OneAttempt'
  <2>1. UNCHANGED launch \/ (Others(p) /\ ~Reconnecting)
    BY <1>11, TimerMoves, TimerFinds
  <2> QED
    BY <2>1, <1>same, Sorts DEF OneAttempt, Others, Reconnecting, At
<1>12. ASSUME NEW p \in Attempt, AttemptBuilds(p) PROVE OneAttempt'
  BY <1>12, AttemptMoves, Sorts, <1>kept
<1>13. CASE UNCHANGED vars
  BY <1>same, <1>13 DEF vars, local
<1> QED
  BY <1>1, <1>2, <1>3, <1>4, <1>5, <1>6, <1>7, <1>8, <1>9, <1>10, <1>11, <1>12, <1>13 DEF Next, Starts,
     Launch, Retirement

(* What was started beside what is not forgotten. *)
LEMMA BesideGrows ==
  ASSUME TypeOK, [Next]_vars
  PROVE  beside \subseteq beside'
<1>1. ASSUME StartRequested \/ StartTwice \/ Starts PROVE beside \subseteq beside'
  BY <1>1 DEF StartRequested, StartTwice, Starts, StartRefused, StartAccepted, StartBuilds, StartEvicted
<1>2. ASSUME NEW p \in Launcher, Launch(p) \/ StatusFails(p) \/ CheckFails(p) PROVE beside \subseteq beside'
  BY <1>2 DEF Launch, StatusWritten, InitRejects, InitResolves, InitTimesOut, InitKilled, Check, Reaped,
     StatusFails, CheckFails
<1>3. ASSUME NEW p \in Attempt, TimerFires(p) \/ AttemptBuilds(p) PROVE beside \subseteq beside'
  BY <1>3 DEF TimerFires, AttemptBuilds
<1>4. ASSUME NEW c \in Control,
             \/ \E kind \in {"stop", "kill", "delete"} : Request(c, kind)
             \/ Retirement(c) \/ DeleteFails(c) \/ LoseLease(c)
             \/ \E e \in Engine : Rebind(e, c)
      PROVE  beside \subseteq beside'
  BY <1>4 DEF Request, Retirement, Refused, Capture, TornDown, Written, Cleared, DeleteFails, LoseLease, Rebind
<1>5. ASSUME NEW e \in Engine,
             Ready(e) \/ Drops(e) \/ GoesMute(e) \/ Watchdog(e) \/ Errs(e) \/ Reported(e) \/ ReportFails(e)
               \/ DoomedDies(e)
      PROVE  beside \subseteq beside'
  BY <1>5 DEF Ready, Drops, GoesMute, Watchdog, Errs, Reported, ReportFails, DoomedDies
<1>6. CASE UNCHANGED vars
  BY <1>6 DEF vars
<1> QED
  BY <1>1, <1>2, <1>3, <1>4, <1>5, <1>6 DEF Next

(* An attempt that begins under a start is excused. *)
LEMMA StartInductive ==
  ASSUME TypeOK, "attempt" \notin beside', StartIsAlone, [Next]_vars
  PROVE  StartIsAlone'
<1>same. ASSUME UNCHANGED <<launch, excused>> PROVE StartIsAlone'
  BY <1>same DEF StartIsAlone, Reconnecting, At, On, Others
<1>1. ASSUME StartTwice PROVE StartIsAlone'
  BY <1>same, <1>1 DEF StartTwice, local
<1>2. ASSUME NEW c \in Control, NEW kind \in {"stop", "kill", "delete"}, Request(c, kind)
      PROVE  StartIsAlone'
  BY <1>same, <1>2 DEF Request, local
<1>3. ASSUME NEW c \in Control, Refused(c) \/ Capture(c) \/ TornDown(c) \/ Written(c) \/ Cleared(c) \/
             LoseLease(c)
      PROVE  StartIsAlone'
  BY <1>same, <1>3 DEF Refused, Capture, TornDown, Written, Cleared, LoseLease, local
<1>4. ASSUME NEW c \in Control, NEW e \in Engine, Rebind(e, c) PROVE StartIsAlone'
  BY <1>same, <1>4 DEF Rebind, local
<1>5. ASSUME NEW e \in Engine, Ready(e) \/ Drops(e) \/ GoesMute(e) \/ Watchdog(e) \/ Errs(e) \/ DoomedDies(e)
      PROVE  StartIsAlone'
  BY <1>same, <1>5 DEF Ready, Drops, GoesMute, Watchdog, Errs, DoomedDies, local
<1>6. ASSUME StartRequested PROVE StartIsAlone'
  BY <1>6, LaunchMoves, Sorts DEF StartRequested, StartIsAlone, Reconnecting, At, On, Others
<1>7. ASSUME StartRefused PROVE StartIsAlone'
  BY <1>7, LaunchMoves, Sorts DEF StartRefused, StartIsAlone, Reconnecting, At, On, Others
<1>8. ASSUME StartAccepted PROVE StartIsAlone'
  <2>1. ~Reconnecting
    BY <1>8, StartFinds
  <2> QED
    BY <1>8, <2>1, LaunchMoves, Sorts DEF StartAccepted, CancelReconnect, local, StartIsAlone,
       Reconnecting, At, On, Others
<1>9. ASSUME StartBuilds PROVE StartIsAlone'
  <2>1. At(Start) = "hook" /\ Others(Start) /\ UNCHANGED excused
    BY <1>9, BuildMoves
  <2> QED
    BY <2>1, Sorts DEF StartIsAlone, Reconnecting, At, On, Others
<1>10. ASSUME StartEvicted PROVE StartIsAlone'
  BY <1>10, LaunchMoves, EngineMoves, RowMoves, Sorts DEF StartEvicted, CancelReconnect,
     StartIsAlone, Reconnecting, At, On, Others
<1>11. ASSUME NEW p \in Launcher, StatusWritten(p) PROVE StartIsAlone'
  <2>1. At(p) = "status" /\ Others(p) /\ UNCHANGED excused
    BY <1>11, StatusMoves
  <2> QED
    BY <2>1, Sorts DEF StartIsAlone, Reconnecting, At, On, Others
<1>12. ASSUME NEW p \in Launcher, InitRejects(p) PROVE StartIsAlone'
  <2>1. At(p) \in {"init", "thrown"} /\ Others(p) /\ UNCHANGED excused
    BY <1>12, ThrowMoves DEF InitRejects, At
  <2> QED
    BY <2>1, Sorts DEF StartIsAlone, Reconnecting, At, On, Others
<1>13. ASSUME NEW p \in Launcher, InitResolves(p) PROVE StartIsAlone'
  BY <1>13, ReturnMoves, Sorts DEF InitResolves, StartIsAlone, Reconnecting, At, On, Others
<1>14. ASSUME NEW p \in Launcher, InitTimesOut(p) PROVE StartIsAlone'
  BY <1>14, LaunchMoves, Sorts DEF InitTimesOut, StartIsAlone, Reconnecting, At, On, Others
<1>15. ASSUME NEW p \in Launcher, InitKilled(p) PROVE StartIsAlone'
  BY <1>15, LaunchMoves, EngineMoves, RowMoves, Sorts DEF InitKilled, StartIsAlone, Reconnecting,
     At, On, Others
<1>16. ASSUME NEW p \in Launcher, Check(p) PROVE StartIsAlone'
  BY <1>16, ReturnMoves, Sorts DEF Check, StartIsAlone, Reconnecting, At, On, Others
<1>17. ASSUME NEW p \in Launcher, Reaped(p) PROVE StartIsAlone'
  BY <1>17, LaunchMoves, EngineMoves, Sorts DEF Reaped, Without, StartIsAlone, Reconnecting, At,
     On, Others
<1>18. ASSUME NEW p \in Launcher, StatusFails(p) PROVE StartIsAlone'
  <2>1. At(p) = "status" /\ Others(p) /\ UNCHANGED excused
    BY <1>18, ThrowMoves DEF StatusFails, At
  <2> QED
    BY <2>1, Sorts DEF StartIsAlone, Reconnecting, At, On, Others
<1>19. ASSUME NEW p \in Launcher, CheckFails(p) PROVE StartIsAlone'
  BY <1>19, LaunchMoves, Sorts DEF CheckFails, StartIsAlone, Reconnecting, At, On, Others
<1>20. ASSUME NEW p \in Attempt, TimerFires(p) PROVE StartIsAlone'
  <2>1. /\ Starting => excused'
        /\ ~excused' => ~excused
        /\ Others(p) \/ UNCHANGED launch
    BY <1>20, TimerMoves
  <2> QED
    BY <2>1, Sorts DEF Starting, StartIsAlone, Reconnecting, At, On, Others
<1>21. ASSUME NEW p \in Attempt, AttemptBuilds(p) PROVE StartIsAlone'
  <2>1. At(p) = "destroy" /\ Others(p) /\ UNCHANGED excused
    BY <1>21, AttemptMoves
  <2> QED
    BY <2>1, Sorts DEF StartIsAlone, Reconnecting, At, On, Others
<1>22. ASSUME NEW c \in Control, DeleteFails(c) PROVE StartIsAlone'
  BY <1>22, ControlCells, Sorts DEF DeleteFails, AtRest, local, StartIsAlone, Reconnecting, At,
     On, Others
<1>23. ASSUME NEW e \in Engine, Reported(e) PROVE StartIsAlone'
  BY <1>23, ReportMoves, Sorts DEF StartIsAlone, Reconnecting, At, On, Others
<1>24. ASSUME NEW e \in Engine, ReportFails(e) PROVE StartIsAlone'
  BY <1>24, Sorts DEF ReportFails, local, StartIsAlone, Reconnecting, At, On, Others
<1>25. CASE UNCHANGED vars
  BY <1>same, <1>25 DEF vars, local
<1> QED
  BY <1>1, <1>2, <1>3, <1>4, <1>5, <1>6, <1>7, <1>8, <1>9, <1>10, <1>11, <1>12, <1>13, <1>14,
     <1>15, <1>16, <1>17, <1>18, <1>19, <1>20, <1>21, <1>22, <1>23, <1>24, <1>25 DEF Next, Starts,
     Launch, Retirement

(* A start that gives up evicts, and only a launch registers. *)
LEMMA EvictedInductive ==
  ASSUME TypeOK, "attempt" \notin beside', StartIsAlone, EvictedIsEmpty, [Next]_vars
  PROVE  EvictedIsEmpty'
<1>same. ASSUME UNCHANGED <<registry, launch, excused>> PROVE EvictedIsEmpty'
  BY <1>same DEF EvictedIsEmpty, At, On, Others
<1>1. ASSUME StartTwice PROVE EvictedIsEmpty'
  BY <1>same, <1>1 DEF StartTwice, local
<1>2. ASSUME NEW c \in Control, NEW kind \in {"stop", "kill", "delete"}, Request(c, kind)
      PROVE  EvictedIsEmpty'
  BY <1>same, <1>2 DEF Request, local
<1>3. ASSUME NEW c \in Control, Refused(c) \/ Capture(c) \/ Written(c) \/ Cleared(c) \/ LoseLease(c)
      PROVE  EvictedIsEmpty'
  BY <1>same, <1>3 DEF Refused, Capture, Written, Cleared, LoseLease, local
<1>4. ASSUME NEW c \in Control, NEW e \in Engine, Rebind(e, c) PROVE EvictedIsEmpty'
  BY <1>same, <1>4 DEF Rebind, local
<1>5. ASSUME NEW e \in Engine, Ready(e) \/ Drops(e) \/ GoesMute(e) \/ Watchdog(e) \/ DoomedDies(e)
      PROVE  EvictedIsEmpty'
  BY <1>same, <1>5 DEF Ready, Drops, GoesMute, Watchdog, DoomedDies, local
<1>6. ASSUME StartRequested PROVE EvictedIsEmpty'
  <2>1. At(Start)' = "find"
    BY <1>6, LaunchMoves, Sorts DEF StartRequested
  <2> QED
    BY <2>1, Sorts DEF EvictedIsEmpty, At, On, Others
<1>7. ASSUME StartRefused PROVE EvictedIsEmpty'
  BY <1>7, LaunchMoves, Sorts DEF StartRefused, EvictedIsEmpty, At, On, Others
<1>8. ASSUME StartAccepted PROVE EvictedIsEmpty'
  BY <1>8, LaunchMoves, Sorts DEF StartAccepted, CancelReconnect, local, EvictedIsEmpty, At, On,
     Others
<1>9. ASSUME StartBuilds PROVE EvictedIsEmpty'
  <2>1. registry' = NoEngine \/ At(Start)' = "status"
    BY <1>9, BuildMoves
  <2> QED
    BY <2>1, Sorts DEF EvictedIsEmpty, At, On, Others
<1>10. ASSUME StartEvicted PROVE EvictedIsEmpty'
  BY <1>10, LaunchMoves, EngineMoves, RowMoves, Sorts DEF StartEvicted, CancelReconnect,
     EvictedIsEmpty, At, On, Others
<1>11. ASSUME NEW p \in Launcher, StatusWritten(p) PROVE EvictedIsEmpty'
  <2>1. /\ Others(p) /\ UNCHANGED <<excused, registry>>
        /\ p = Start => At(p)' \notin {"timeout", "thrown", "evict"}
    BY <1>11, StatusMoves
  <2> QED
    BY <2>1, Sorts DEF EvictedIsEmpty, At, On, Others
<1>12. ASSUME NEW p \in Launcher, InitRejects(p) PROVE EvictedIsEmpty'
  <2>1. /\ registry' = NoEngine
    BY <1>12, ThrowMoves DEF InitRejects, At
  <2> QED
    BY <2>1, Sorts DEF EvictedIsEmpty, At, On, Others
<1>13. ASSUME NEW p \in Launcher, InitResolves(p) PROVE EvictedIsEmpty'
  <2>1. /\ Others(p) /\ UNCHANGED <<excused, registry>>
        /\ p = Start => At(p)' \notin {"timeout", "thrown", "evict"}
    BY <1>13, ReturnMoves DEF InitResolves
  <2> QED
    BY <2>1, Sorts DEF EvictedIsEmpty, At, On, Others
<1>14. ASSUME NEW p \in Launcher, InitTimesOut(p) PROVE EvictedIsEmpty'
  BY <1>14, LaunchMoves, Sorts DEF InitTimesOut, EvictedIsEmpty, At, On, Others
<1>15. ASSUME NEW p \in Launcher, InitKilled(p) PROVE EvictedIsEmpty'
  BY <1>15, LaunchMoves, EngineMoves, RowMoves, Sorts DEF InitKilled, EvictedIsEmpty, At, On,
     Others
<1>16. ASSUME NEW p \in Launcher, Check(p) PROVE EvictedIsEmpty'
  <2>1. /\ Others(p) /\ UNCHANGED <<excused, registry>>
        /\ p = Start => At(p)' \notin {"timeout", "thrown", "evict"}
    BY <1>16, ReturnMoves DEF Check
  <2> QED
    BY <2>1, Sorts DEF EvictedIsEmpty, At, On, Others
<1>17. ASSUME NEW p \in Launcher, Reaped(p) PROVE EvictedIsEmpty'
  BY <1>17, LaunchMoves, EngineMoves, Sorts DEF Reaped, Without, EvictedIsEmpty, At, On, Others
<1>18. ASSUME NEW p \in Launcher, StatusFails(p) PROVE EvictedIsEmpty'
  <2>1. /\ registry' = NoEngine
    BY <1>18, ThrowMoves DEF StatusFails, At
  <2> QED
    BY <2>1, Sorts DEF EvictedIsEmpty, At, On, Others
<1>19. ASSUME NEW p \in Launcher, CheckFails(p) PROVE EvictedIsEmpty'
  BY <1>19, LaunchMoves, Sorts DEF CheckFails, EvictedIsEmpty, At, On, Others
<1>20. ASSUME NEW p \in Attempt, TimerFires(p) PROVE EvictedIsEmpty'
  <2>1. /\ Starting => excused'
        /\ ~excused' => ~excused
        /\ UNCHANGED <<launch, registry>> \/ Others(p)
    BY <1>20, TimerMoves
  <2> QED
    BY <2>1, Sorts DEF Starting, EvictedIsEmpty, At, On, Others
<1>21. ASSUME NEW p \in Attempt, AttemptBuilds(p) PROVE EvictedIsEmpty'
  <2>1. At(p) = "destroy" /\ Others(p) /\ UNCHANGED excused
    BY <1>21, AttemptMoves
  <2> QED
    BY <2>1, Sorts DEF EvictedIsEmpty, At, On, Others, StartIsAlone, Reconnecting
<1>22. ASSUME NEW c \in Control, TornDown(c) PROVE EvictedIsEmpty'
  BY <1>22, EngineMoves, ControlCells, RowMoves, Sorts DEF TornDown, AtRest, Without,
     EvictedIsEmpty, At, On, Others
<1>23. ASSUME NEW c \in Control, DeleteFails(c) PROVE EvictedIsEmpty'
  BY <1>23, ControlCells, Sorts DEF DeleteFails, AtRest, local, EvictedIsEmpty, At, On, Others
<1>24. ASSUME NEW e \in Engine, Errs(e) PROVE EvictedIsEmpty'
  BY <1>24, EngineMoves, RowMoves, Sorts DEF Errs, CancelReconnect, EvictedIsEmpty, At, On, Others
<1>25. ASSUME NEW e \in Engine, Reported(e) PROVE EvictedIsEmpty'
  BY <1>25, ReportMoves, Sorts DEF EvictedIsEmpty, At, On, Others
<1>26. ASSUME NEW e \in Engine, ReportFails(e) PROVE EvictedIsEmpty'
  BY <1>26, Sorts DEF ReportFails, local, EvictedIsEmpty, At, On, Others
<1>27. CASE UNCHANGED vars
  BY <1>same, <1>27 DEF vars, local
<1> QED
  BY <1>1, <1>2, <1>3, <1>4, <1>5, <1>6, <1>7, <1>8, <1>9, <1>10, <1>11, <1>12, <1>13, <1>14,
     <1>15, <1>16, <1>17, <1>18, <1>19, <1>20, <1>21, <1>22, <1>23, <1>24, <1>25, <1>26, <1>27 DEF
     Next, Starts, Launch, Retirement

(* FAILED is written with the eviction of the engine, but for              *)
(* StartEvicted.                                                           *)
LEMMA FailedInductive ==
  ASSUME TypeOK, EvictedIsEmpty, FailedIsEmpty, [Next]_vars
  PROVE  FailedIsEmpty'
<1>same. ASSUME UNCHANGED <<row, registry, launch, excused>> PROVE FailedIsEmpty'
  BY <1>same DEF FailedIsEmpty, At, On, Others
<1>1. ASSUME StartTwice PROVE FailedIsEmpty'
  BY <1>same, <1>1 DEF StartTwice, local
<1>2. ASSUME NEW c \in Control, NEW kind \in {"stop", "kill", "delete"}, Request(c, kind)
      PROVE  FailedIsEmpty'
  BY <1>same, <1>2 DEF Request, local
<1>3. ASSUME NEW c \in Control, Refused(c) \/ Capture(c) \/ Cleared(c) \/ LoseLease(c)
      PROVE  FailedIsEmpty'
  BY <1>same, <1>3 DEF Refused, Capture, Cleared, LoseLease, local
<1>4. ASSUME NEW c \in Control, NEW e \in Engine, Rebind(e, c) PROVE FailedIsEmpty'
  BY <1>same, <1>4 DEF Rebind, local
<1>5. ASSUME NEW e \in Engine, Drops(e) \/ GoesMute(e) \/ Watchdog(e) \/ DoomedDies(e)
      PROVE  FailedIsEmpty'
  BY <1>same, <1>5 DEF Drops, GoesMute, Watchdog, DoomedDies, local
<1>6. ASSUME StartRequested PROVE FailedIsEmpty'
  <2>1. /\ Others(Start) /\ UNCHANGED <<row, registry>> /\ (~excused' => ~excused)
        /\ At(Start) # "status"
    BY <1>6, LaunchMoves, Sorts DEF StartRequested, Starting, At
  <2> QED
    BY <2>1, Sorts DEF FailedIsEmpty, At, On, Others
<1>7. ASSUME StartRefused PROVE FailedIsEmpty'
  BY <1>7, LaunchMoves, Sorts DEF StartRefused, FailedIsEmpty, At, On, Others
<1>8. ASSUME StartAccepted PROVE FailedIsEmpty'
  BY <1>8, LaunchMoves, Sorts DEF StartAccepted, CancelReconnect, local, FailedIsEmpty, At, On,
     Others
<1>9. ASSUME StartBuilds PROVE FailedIsEmpty'
  <2>1. \/ registry' = NoEngine
        \/ Others(Start) /\ At(Start)' = "status" /\ On(Start)' = registry'
    BY <1>9, BuildMoves
  <2> QED
    BY <2>1, Sorts DEF FailedIsEmpty, At, On, Others
<1>10. ASSUME StartEvicted PROVE FailedIsEmpty'
  <2>1. UNCHANGED <<registry, excused>> /\ At(Start) = "evict"
    BY <1>10, LaunchMoves DEF StartEvicted, At
  <2> QED
    BY <2>1, Sorts DEF FailedIsEmpty, At, On, Others, EvictedIsEmpty
<1>11. ASSUME NEW p \in Launcher, StatusWritten(p) PROVE FailedIsEmpty'
  <2>1. (row = "gone" /\ row' = "gone") \/ row' = "INITIALIZING"
    BY <1>11, StatusMoves
  <2> QED
    BY <2>1, Sorts DEF FailedIsEmpty, At, On, Others
<1>12. ASSUME NEW p \in Launcher, InitRejects(p) PROVE FailedIsEmpty'
  <2>1. registry' = NoEngine
    BY <1>12, ThrowMoves DEF InitRejects, At
  <2> QED
    BY <2>1, Sorts DEF FailedIsEmpty, At, On, Others
<1>13. ASSUME NEW p \in Launcher, InitResolves(p) PROVE FailedIsEmpty'
  <2>1. /\ Others(p) /\ UNCHANGED <<row, registry>> /\ (~excused' => ~excused)
        /\ At(p) # "status"
    BY <1>13, ReturnMoves DEF InitResolves, At
  <2> QED
    BY <2>1, Sorts DEF FailedIsEmpty, At, On, Others
<1>14. ASSUME NEW p \in Launcher, InitTimesOut(p) PROVE FailedIsEmpty'
  BY <1>14, LaunchMoves, Sorts DEF InitTimesOut, FailedIsEmpty, At, On, Others
<1>15. ASSUME NEW p \in Launcher, InitKilled(p) PROVE FailedIsEmpty'
  BY <1>15, LaunchMoves, EngineMoves, RowMoves, Sorts DEF InitKilled, FailedIsEmpty, At, On,
     Others
<1>16. ASSUME NEW p \in Launcher, Check(p) PROVE FailedIsEmpty'
  <2>1. /\ Others(p) /\ UNCHANGED <<row, registry>> /\ (~excused' => ~excused)
        /\ At(p) # "status"
    BY <1>16, ReturnMoves DEF Check, At
  <2> QED
    BY <2>1, Sorts DEF FailedIsEmpty, At, On, Others
<1>17. ASSUME NEW p \in Launcher, Reaped(p) PROVE FailedIsEmpty'
  BY <1>17, LaunchMoves, EngineMoves, Sorts DEF Reaped, Without, FailedIsEmpty, At, On, Others
<1>18. ASSUME NEW p \in Launcher, StatusFails(p) PROVE FailedIsEmpty'
  <2>1. registry' = NoEngine
    BY <1>18, ThrowMoves DEF StatusFails, At
  <2> QED
    BY <2>1, Sorts DEF FailedIsEmpty, At, On, Others
<1>19. ASSUME NEW p \in Launcher, CheckFails(p) PROVE FailedIsEmpty'
  BY <1>19, LaunchMoves, Sorts DEF CheckFails, FailedIsEmpty, At, On, Others
<1>20. ASSUME NEW p \in Attempt, TimerFires(p) PROVE FailedIsEmpty'
  <2>1. /\ At(p) = "idle" /\ UNCHANGED row /\ (~excused' => ~excused)
        /\ \/ UNCHANGED <<registry, launch>>
           \/ Others(p) /\ At(p)' = "status" /\ On(p)' = registry'
           \/ Others(p) /\ UNCHANGED registry
    BY <1>20, TimerMoves
  <2> QED
    BY <2>1, Sorts DEF FailedIsEmpty, At, On, Others
<1>21. ASSUME NEW p \in Attempt, AttemptBuilds(p) PROVE FailedIsEmpty'
  <2>1. \/ registry' = NoEngine
        \/ Others(p) /\ At(p)' = "status" /\ On(p)' = registry'
    BY <1>21, AttemptMoves
  <2> QED
    BY <2>1, Sorts DEF FailedIsEmpty, At, On, Others
<1>22. ASSUME NEW c \in Control, TornDown(c) PROVE FailedIsEmpty'
  BY <1>22, EngineMoves, ControlCells, RowMoves, Sorts DEF TornDown, AtRest, Without,
     FailedIsEmpty, At, On, Others
<1>23. ASSUME NEW c \in Control, Written(c) PROVE FailedIsEmpty'
  BY <1>23, ControlCells, RowMoves, Sorts DEF Written, AtRest, FailedIsEmpty, At, On, Others
<1>24. ASSUME NEW c \in Control, DeleteFails(c) PROVE FailedIsEmpty'
  BY <1>24, ControlCells, Sorts DEF DeleteFails, AtRest, local, FailedIsEmpty, At, On, Others
<1>25. ASSUME NEW e \in Engine, Ready(e) PROVE FailedIsEmpty'
  BY <1>25, EngineCells, RowMoves, Sorts DEF Ready, FailedIsEmpty, At, On, Others
<1>26. ASSUME NEW e \in Engine, Errs(e) PROVE FailedIsEmpty'
  BY <1>26, EngineMoves, RowMoves, Sorts DEF Errs, CancelReconnect, FailedIsEmpty, At, On, Others
<1>27. ASSUME NEW e \in Engine, Reported(e) PROVE FailedIsEmpty'
  <2>1. /\ ~excused' => ~excused
        /\ UNCHANGED launch
        /\ UNCHANGED <<row, registry>> \/ row' = "DISCONNECTED" \/ registry' = NoEngine
    BY <1>27, ReportMoves
  <2> QED
    BY <2>1, Sorts DEF FailedIsEmpty, At, On, Others
<1>28. ASSUME NEW e \in Engine, ReportFails(e) PROVE FailedIsEmpty'
  BY <1>28, Sorts DEF ReportFails, local, FailedIsEmpty, At, On, Others
<1>29. CASE UNCHANGED vars
  BY <1>same, <1>29 DEF vars, local
<1> QED
  BY <1>1, <1>2, <1>3, <1>4, <1>5, <1>6, <1>7, <1>8, <1>9, <1>10, <1>11, <1>12, <1>13, <1>14,
     <1>15, <1>16, <1>17, <1>18, <1>19, <1>20, <1>21, <1>22, <1>23, <1>24, <1>25, <1>26, <1>27,
     <1>28, <1>29 DEF Next, Starts, Launch, Retirement

(* The start cancels the timer when it is accepted. *)
LEMMA HookInductive ==
  ASSUME TypeOK, "attempt" \notin beside', HookIsClear, [Next]_vars
  PROVE  HookIsClear'
<1>same. ASSUME UNCHANGED <<registry, retry, launch>> PROVE HookIsClear'
  BY <1>same DEF HookIsClear, Reconnecting, At, On, Others
<1>1. ASSUME StartTwice PROVE HookIsClear'
  BY <1>same, <1>1 DEF StartTwice, local
<1>2. ASSUME NEW c \in Control, NEW kind \in {"stop", "kill", "delete"}, Request(c, kind)
      PROVE  HookIsClear'
  BY <1>same, <1>2 DEF Request, local
<1>3. ASSUME NEW c \in Control, Refused(c) \/ Written(c) \/ Cleared(c) \/ DeleteFails(c)
      PROVE  HookIsClear'
  BY <1>same, <1>3 DEF Refused, Written, Cleared, DeleteFails, local
<1>4. ASSUME NEW e \in Engine, Drops(e) \/ GoesMute(e) \/ Watchdog(e) \/ ReportFails(e) \/ DoomedDies(e)
      PROVE  HookIsClear'
  BY <1>same, <1>4 DEF Drops, GoesMute, Watchdog, ReportFails, DoomedDies, local
<1>5. ASSUME StartRequested PROVE HookIsClear'
  BY <1>5, LaunchMoves, Sorts DEF StartRequested, HookIsClear, Reconnecting, At, On, Others
<1>6. ASSUME StartRefused PROVE HookIsClear'
  BY <1>6, LaunchMoves, Sorts DEF StartRefused, HookIsClear, Reconnecting, At, On, Others
<1>7. ASSUME StartAccepted PROVE HookIsClear'
  <2>1. /\ ~Reconnecting /\ registry = NoEngine /\ UNCHANGED registry
        /\ Others(Start) /\ retry' = NoRetry
    BY <1>7, StartFinds, LaunchMoves, Sorts DEF StartAccepted, CancelReconnect, local
  <2> QED
    BY <2>1, RetryCells, Sorts DEF HookIsClear, Reconnecting, At, On, Others
<1>8. ASSUME StartBuilds PROVE HookIsClear'
  <2>1. At(Start)' # "hook"
    BY <1>8, BuildMoves
  <2> QED
    BY <2>1, Sorts DEF HookIsClear, Reconnecting, At, On, Others
<1>9. ASSUME StartEvicted PROVE HookIsClear'
  BY <1>9, LaunchMoves, EngineMoves, RowMoves, Sorts DEF StartEvicted, CancelReconnect,
     HookIsClear, Reconnecting, At, On, Others
<1>10. ASSUME NEW p \in Launcher, StatusWritten(p) PROVE HookIsClear'
  <2>1. /\ At(p) # "idle" /\ Others(p) /\ UNCHANGED <<registry, retry>>
        /\ p = Start => At(p)' # "hook"
    BY <1>10, StatusMoves
  <2> QED
    BY <2>1, Sorts DEF HookIsClear, Reconnecting, At, On, Others
<1>11. ASSUME NEW p \in Launcher, InitRejects(p) PROVE HookIsClear'
  <2>1. /\ At(p) # "idle" /\ Others(p)
        /\ p = Start => At(p)' # "hook"
    BY <1>11, ThrowMoves DEF InitRejects, At
  <2> QED
    BY <2>1, Launchers, Sorts DEF HookIsClear, Reconnecting, At, On, Others
<1>12. ASSUME NEW p \in Launcher, InitResolves(p) PROVE HookIsClear'
  <2>1. /\ At(p) # "idle" /\ Others(p) /\ UNCHANGED <<registry, retry>>
        /\ p = Start => At(p)' # "hook"
    BY <1>12, ReturnMoves DEF InitResolves, At
  <2> QED
    BY <2>1, Sorts DEF HookIsClear, Reconnecting, At, On, Others
<1>13. ASSUME NEW p \in Launcher, InitTimesOut(p) PROVE HookIsClear'
  BY <1>13, LaunchMoves, Sorts DEF InitTimesOut, HookIsClear, Reconnecting, At, On, Others
<1>14. ASSUME NEW p \in Launcher, InitKilled(p) PROVE HookIsClear'
  BY <1>14, LaunchMoves, EngineMoves, RowMoves, Sorts DEF InitKilled, HookIsClear, Reconnecting,
     At, On, Others
<1>15. ASSUME NEW p \in Launcher, Check(p) PROVE HookIsClear'
  <2>1. /\ At(p) # "idle" /\ Others(p) /\ UNCHANGED <<registry, retry>>
        /\ p = Start => At(p)' # "hook"
    BY <1>15, ReturnMoves DEF Check, At
  <2> QED
    BY <2>1, Sorts DEF HookIsClear, Reconnecting, At, On, Others
<1>16. ASSUME NEW p \in Launcher, Reaped(p) PROVE HookIsClear'
  BY <1>16, LaunchMoves, EngineMoves, Sorts DEF Reaped, Without, HookIsClear, Reconnecting, At,
     On, Others
<1>17. ASSUME NEW p \in Launcher, StatusFails(p) PROVE HookIsClear'
  <2>1. /\ At(p) # "idle" /\ Others(p)
        /\ p = Start => At(p)' # "hook"
    BY <1>17, ThrowMoves DEF StatusFails, At
  <2> QED
    BY <2>1, Launchers, Sorts DEF HookIsClear, Reconnecting, At, On, Others
<1>18. ASSUME NEW p \in Launcher, CheckFails(p) PROVE HookIsClear'
  BY <1>18, LaunchMoves, Sorts DEF CheckFails, HookIsClear, Reconnecting, At, On, Others
<1>19. ASSUME NEW p \in Attempt, TimerFires(p) PROVE HookIsClear'
  <2>1. /\ retry.timer = "armed"
        /\ Others(p) \/ (retry'.timer = "none" /\ UNCHANGED <<registry, launch>>)
    BY <1>19, TimerMoves, RetryCells
  <2> QED
    BY <2>1, Sorts DEF HookIsClear, Reconnecting, At, On, Others
<1>20. ASSUME NEW p \in Attempt, AttemptBuilds(p) PROVE HookIsClear'
  <2>1. At(p) = "destroy" /\ Others(p)
    BY <1>20, AttemptMoves
  <2> QED
    BY <2>1, Sorts DEF HookIsClear, Reconnecting, At, On, Others
<1>21. ASSUME NEW c \in Control, Capture(c) PROVE HookIsClear'
  BY <1>21, ControlCells, Sorts, RetryCells DEF Capture, CancelReconnect, local, HookIsClear,
     Reconnecting, At, On, Others
<1>22. ASSUME NEW c \in Control, TornDown(c) PROVE HookIsClear'
  BY <1>22, EngineMoves, ControlCells, RowMoves, Sorts DEF TornDown, AtRest, Without, HookIsClear,
     Reconnecting, At, On, Others
<1>23. ASSUME NEW c \in Control, LoseLease(c) PROVE HookIsClear'
  BY <1>23, ControlCells, Sorts, RetryCells DEF LoseLease, CancelReconnect, HookIsClear,
     Reconnecting, At, On, Others
<1>24. ASSUME NEW c \in Control, NEW e \in Engine, Rebind(e, c) PROVE HookIsClear'
  BY <1>24, ControlCells, Sorts, RetryCells DEF Rebind, CancelReconnect, local, HookIsClear,
     Reconnecting, At, On, Others
<1>25. ASSUME NEW e \in Engine, Ready(e) PROVE HookIsClear'
  BY <1>25, EngineCells, RowMoves, Sorts, RetryCells DEF Ready, HookIsClear, Reconnecting, At, On,
     Others
<1>26. ASSUME NEW e \in Engine, Errs(e) PROVE HookIsClear'
  <2>1. UNCHANGED launch /\ registry # NoEngine
    BY <1>26, Sorts DEF Errs
  <2> QED
    BY <2>1, Sorts DEF HookIsClear, Reconnecting, At, On, Others
<1>27. ASSUME NEW e \in Engine, Reported(e) PROVE HookIsClear'
  <2>1. UNCHANGED launch /\ (registry # NoEngine \/ UNCHANGED <<registry, retry>>)
    BY <1>27, ReportMoves, Sorts
  <2> QED
    BY <2>1, Sorts DEF HookIsClear, Reconnecting, At, On, Others
<1>28. CASE UNCHANGED vars
  BY <1>same, <1>28 DEF vars, local
<1> QED
  BY <1>1, <1>2, <1>3, <1>4, <1>5, <1>6, <1>7, <1>8, <1>9, <1>10, <1>11, <1>12, <1>13, <1>14,
     <1>15, <1>16, <1>17, <1>18, <1>19, <1>20, <1>21, <1>22, <1>23, <1>24, <1>25, <1>26, <1>27,
     <1>28 DEF Next, Starts, Launch, Retirement

(* The state the start sets up is dormant until its engine drops. *)
LEMMA ClearInductive ==
  ASSUME TypeOK, StatusIsNew, HookIsClear, StatusIsClear, [Next]_vars
  PROVE  StatusIsClear'
<1>same. ASSUME UNCHANGED <<registry, retry, launch>> PROVE StatusIsClear'
  BY <1>same DEF StatusIsClear, Reconnecting, At, On, Others
<1>1. ASSUME StartTwice PROVE StatusIsClear'
  BY <1>same, <1>1 DEF StartTwice, local
<1>2. ASSUME NEW c \in Control, NEW kind \in {"stop", "kill", "delete"}, Request(c, kind)
      PROVE  StatusIsClear'
  BY <1>same, <1>2 DEF Request, local
<1>3. ASSUME NEW c \in Control, Refused(c) \/ Written(c) \/ Cleared(c) \/ DeleteFails(c)
      PROVE  StatusIsClear'
  BY <1>same, <1>3 DEF Refused, Written, Cleared, DeleteFails, local
<1>4. ASSUME NEW e \in Engine, Drops(e) \/ GoesMute(e) \/ Watchdog(e) \/ ReportFails(e) \/ DoomedDies(e)
      PROVE  StatusIsClear'
  BY <1>same, <1>4 DEF Drops, GoesMute, Watchdog, ReportFails, DoomedDies, local
<1>5. ASSUME StartRequested PROVE StatusIsClear'
  BY <1>5, LaunchMoves, Sorts DEF StartRequested, StatusIsClear, Reconnecting, At, On, Others
<1>6. ASSUME StartRefused PROVE StatusIsClear'
  BY <1>6, LaunchMoves, Sorts DEF StartRefused, StatusIsClear, Reconnecting, At, On, Others
<1>7. ASSUME StartAccepted PROVE StatusIsClear'
  <2>1. Others(Start) /\ At(Start)' = "hook"
    BY <1>7, LaunchMoves, Sorts DEF StartAccepted
  <2> QED
    BY <2>1, Sorts DEF StatusIsClear, Reconnecting, At, On, Others
<1>8. ASSUME StartBuilds PROVE StatusIsClear'
  <2>1. /\ At(Start) = "hook" /\ Others(Start)
        /\ \/ At(Start)' # "status"
           \/ registry' = On(Start)' /\ retry'.timer = "dormant"
    BY <1>8, BuildMoves
  <2> QED
    BY <2>1, Sorts DEF StatusIsClear, Reconnecting, At, On, Others, HookIsClear
<1>9. ASSUME StartEvicted PROVE StatusIsClear'
  BY <1>9, LaunchMoves, EngineMoves, RowMoves, Sorts DEF StartEvicted, CancelReconnect,
     StatusIsClear, Reconnecting, At, On, Others
<1>10. ASSUME NEW p \in Launcher, StatusWritten(p) PROVE StatusIsClear'
  <2>1. /\ At(p) # "idle" /\ Others(p) /\ UNCHANGED <<registry, retry>>
        /\ p = Start => At(p)' # "status"
    BY <1>10, StatusMoves
  <2> QED
    BY <2>1, Sorts DEF StatusIsClear, Reconnecting, At, On, Others
<1>11. ASSUME NEW p \in Launcher, InitRejects(p) PROVE StatusIsClear'
  <2>1. /\ At(p) # "idle" /\ Others(p)
        /\ p = Start => At(p)' # "status"
    BY <1>11, ThrowMoves DEF InitRejects, At
  <2> QED
    BY <2>1, Launchers, Sorts DEF StatusIsClear, Reconnecting, At, On, Others
<1>12. ASSUME NEW p \in Launcher, InitResolves(p) PROVE StatusIsClear'
  <2>1. /\ At(p) # "idle" /\ Others(p) /\ UNCHANGED <<registry, retry>>
        /\ p = Start => At(p)' # "status"
    BY <1>12, ReturnMoves DEF InitResolves, At
  <2> QED
    BY <2>1, Sorts DEF StatusIsClear, Reconnecting, At, On, Others
<1>13. ASSUME NEW p \in Launcher, InitTimesOut(p) PROVE StatusIsClear'
  BY <1>13, LaunchMoves, Sorts DEF InitTimesOut, StatusIsClear, Reconnecting, At, On, Others
<1>14. ASSUME NEW p \in Launcher, InitKilled(p) PROVE StatusIsClear'
  BY <1>14, LaunchMoves, EngineMoves, RowMoves, Sorts DEF InitKilled, StatusIsClear, Reconnecting,
     At, On, Others
<1>15. ASSUME NEW p \in Launcher, Check(p) PROVE StatusIsClear'
  <2>1. /\ At(p) # "idle" /\ Others(p) /\ UNCHANGED <<registry, retry>>
        /\ p = Start => At(p)' # "status"
    BY <1>15, ReturnMoves DEF Check, At
  <2> QED
    BY <2>1, Sorts DEF StatusIsClear, Reconnecting, At, On, Others
<1>16. ASSUME NEW p \in Launcher, Reaped(p) PROVE StatusIsClear'
  BY <1>16, LaunchMoves, EngineMoves, Sorts DEF Reaped, Without, StatusIsClear, Reconnecting, At,
     On, Others
<1>17. ASSUME NEW p \in Launcher, StatusFails(p) PROVE StatusIsClear'
  <2>1. /\ At(p) # "idle" /\ Others(p)
        /\ p = Start => At(p)' # "status"
    BY <1>17, ThrowMoves DEF StatusFails, At
  <2> QED
    BY <2>1, Launchers, Sorts DEF StatusIsClear, Reconnecting, At, On, Others
<1>18. ASSUME NEW p \in Launcher, CheckFails(p) PROVE StatusIsClear'
  BY <1>18, LaunchMoves, Sorts DEF CheckFails, StatusIsClear, Reconnecting, At, On, Others
<1>19. ASSUME NEW p \in Attempt, TimerFires(p) PROVE StatusIsClear'
  <2>1. /\ retry.timer = "armed"
        /\ Others(p) \/ (retry'.timer = "none" /\ UNCHANGED <<registry, launch>>)
    BY <1>19, TimerMoves, RetryCells
  <2> QED
    BY <2>1, Sorts DEF StatusIsClear, Reconnecting, At, On, Others
<1>20. ASSUME NEW p \in Attempt, AttemptBuilds(p) PROVE StatusIsClear'
  <2>1. At(p) = "destroy" /\ Others(p)
    BY <1>20, AttemptMoves
  <2> QED
    BY <2>1, Sorts DEF StatusIsClear, Reconnecting, At, On, Others
<1>21. ASSUME NEW c \in Control, Capture(c) PROVE StatusIsClear'
  BY <1>21, ControlCells, Sorts, RetryCells DEF Capture, CancelReconnect, local, StatusIsClear,
     Reconnecting, At, On, Others
<1>22. ASSUME NEW c \in Control, TornDown(c) PROVE StatusIsClear'
  BY <1>22, EngineMoves, ControlCells, RowMoves, Sorts DEF TornDown, AtRest, Without,
     StatusIsClear, Reconnecting, At, On, Others
<1>23. ASSUME NEW c \in Control, LoseLease(c) PROVE StatusIsClear'
  BY <1>23, ControlCells, Sorts, RetryCells DEF LoseLease, CancelReconnect, StatusIsClear,
     Reconnecting, At, On, Others
<1>24. ASSUME NEW c \in Control, NEW e \in Engine, Rebind(e, c) PROVE StatusIsClear'
  BY <1>24, ControlCells, Sorts, RetryCells DEF Rebind, CancelReconnect, local, StatusIsClear,
     Reconnecting, At, On, Others
<1>25. ASSUME NEW e \in Engine, Ready(e) PROVE StatusIsClear'
  BY <1>25, EngineCells, RowMoves, Sorts, RetryCells DEF Ready, StatusIsClear, Reconnecting, At,
     On, Others
<1>26. ASSUME NEW e \in Engine, Errs(e) PROVE StatusIsClear'
  <2>1. UNCHANGED launch /\ registry' = NoEngine /\ retry'.timer = "none"
    BY <1>26, RetryCells DEF Errs, CancelReconnect
  <2> QED
    BY <2>1, Sorts DEF StatusIsClear, Reconnecting, At, On, Others
<1>27. ASSUME NEW e \in Engine, Reported(e) PROVE StatusIsClear'
  <2>1. UNCHANGED launch /\ e \in reports /\ (registry = e \/ UNCHANGED <<registry, retry>>)
    BY <1>27, ReportMoves, Sorts
  <2> QED
    BY <2>1, Sorts DEF StatusIsClear, Reconnecting, At, On, Others, StatusIsNew
<1>28. CASE UNCHANGED vars
  BY <1>same, <1>28 DEF vars, local
<1> QED
  BY <1>1, <1>2, <1>3, <1>4, <1>5, <1>6, <1>7, <1>8, <1>9, <1>10, <1>11, <1>12, <1>13, <1>14,
     <1>15, <1>16, <1>17, <1>18, <1>19, <1>20, <1>21, <1>22, <1>23, <1>24, <1>25, <1>26, <1>27,
     <1>28 DEF Next, Starts, Launch, Retirement

(* Only the attempt itself registers while it destroys. *)
LEMMA DestroyInductive ==
  ASSUME TypeOK, "attempt" \notin beside', OneAttempt, HookIsClear, DestroyKeeps, [Next]_vars
  PROVE  DestroyKeeps'
<1>same. ASSUME UNCHANGED <<registry, launch>> PROVE DestroyKeeps'
  BY <1>same DEF DestroyKeeps, At, On, Others
<1>1. ASSUME StartTwice PROVE DestroyKeeps'
  BY <1>same, <1>1 DEF StartTwice, local
<1>2. ASSUME NEW c \in Control, NEW kind \in {"stop", "kill", "delete"}, Request(c, kind)
      PROVE  DestroyKeeps'
  BY <1>same, <1>2 DEF Request, local
<1>3. ASSUME NEW c \in Control, Refused(c) \/ Capture(c) \/ Written(c) \/ Cleared(c) \/ DeleteFails(c) \/
             LoseLease(c)
      PROVE  DestroyKeeps'
  BY <1>same, <1>3 DEF Refused, Capture, Written, Cleared, DeleteFails, LoseLease, local
<1>4. ASSUME NEW c \in Control, NEW e \in Engine, Rebind(e, c) PROVE DestroyKeeps'
  BY <1>same, <1>4 DEF Rebind, local
<1>5. ASSUME NEW e \in Engine, Ready(e) \/ Drops(e) \/ GoesMute(e) \/ Watchdog(e) \/ ReportFails(e) \/
             DoomedDies(e)
      PROVE  DestroyKeeps'
  BY <1>same, <1>5 DEF Ready, Drops, GoesMute, Watchdog, ReportFails, DoomedDies, local
<1>6. ASSUME StartRequested PROVE DestroyKeeps'
  BY <1>6, LaunchMoves, Sorts DEF StartRequested, DestroyKeeps, At, On, Others
<1>7. ASSUME StartRefused PROVE DestroyKeeps'
  BY <1>7, LaunchMoves, Sorts DEF StartRefused, DestroyKeeps, At, On, Others
<1>8. ASSUME StartAccepted PROVE DestroyKeeps'
  BY <1>8, LaunchMoves, Sorts DEF StartAccepted, CancelReconnect, local, DestroyKeeps, At, On,
     Others
<1>9. ASSUME StartBuilds PROVE DestroyKeeps'
  <2>1. /\ At(Start) = "hook" /\ Others(Start)
    BY <1>9, BuildMoves
  <2> QED
    BY <2>1, Sorts DEF DestroyKeeps, At, On, Others, HookIsClear, Reconnecting
<1>10. ASSUME StartEvicted PROVE DestroyKeeps'
  BY <1>10, LaunchMoves, EngineMoves, RowMoves, Sorts DEF StartEvicted, CancelReconnect,
     DestroyKeeps, At, On, Others
<1>11. ASSUME NEW p \in Launcher, StatusWritten(p) PROVE DestroyKeeps'
  <2>1. /\ Others(p) /\ UNCHANGED registry /\ At(p)' # "destroy"
    BY <1>11, StatusMoves
  <2> QED
    BY <2>1, Sorts DEF DestroyKeeps, At, On, Others
<1>12. ASSUME NEW p \in Launcher, InitRejects(p) PROVE DestroyKeeps'
  <2>1. registry' = NoEngine
    BY <1>12, ThrowMoves DEF InitRejects, At
  <2> QED
    BY <2>1, Sorts DEF DestroyKeeps, At, On, Others
<1>13. ASSUME NEW p \in Launcher, InitResolves(p) PROVE DestroyKeeps'
  <2>1. /\ Others(p) /\ UNCHANGED registry /\ At(p)' # "destroy"
    BY <1>13, ReturnMoves DEF InitResolves
  <2> QED
    BY <2>1, Sorts DEF DestroyKeeps, At, On, Others
<1>14. ASSUME NEW p \in Launcher, InitTimesOut(p) PROVE DestroyKeeps'
  BY <1>14, LaunchMoves, Sorts DEF InitTimesOut, DestroyKeeps, At, On, Others
<1>15. ASSUME NEW p \in Launcher, InitKilled(p) PROVE DestroyKeeps'
  BY <1>15, LaunchMoves, EngineMoves, RowMoves, Sorts DEF InitKilled, DestroyKeeps, At, On, Others
<1>16. ASSUME NEW p \in Launcher, Check(p) PROVE DestroyKeeps'
  <2>1. /\ Others(p) /\ UNCHANGED registry /\ At(p)' # "destroy"
    BY <1>16, ReturnMoves DEF Check
  <2> QED
    BY <2>1, Sorts DEF DestroyKeeps, At, On, Others
<1>17. ASSUME NEW p \in Launcher, Reaped(p) PROVE DestroyKeeps'
  BY <1>17, LaunchMoves, EngineMoves, Sorts DEF Reaped, Without, DestroyKeeps, At, On, Others
<1>18. ASSUME NEW p \in Launcher, StatusFails(p) PROVE DestroyKeeps'
  <2>1. registry' = NoEngine
    BY <1>18, ThrowMoves DEF StatusFails, At
  <2> QED
    BY <2>1, Sorts DEF DestroyKeeps, At, On, Others
<1>19. ASSUME NEW p \in Launcher, CheckFails(p) PROVE DestroyKeeps'
  BY <1>19, LaunchMoves, Sorts DEF CheckFails, DestroyKeeps, At, On, Others
<1>20. ASSUME NEW p \in Attempt, TimerFires(p) PROVE DestroyKeeps'
  <2>1. \/ Others(p) /\ At(p)' # "destroy" /\ At(p) = "idle"
        \/ UNCHANGED <<registry, launch>>
        \/ Others(p) /\ UNCHANGED registry /\ On(p)' = registry
    BY <1>20, TimerMoves
  <2>2. At(p) = "idle" /\ (UNCHANGED <<registry, launch>> \/ At(p)' # "idle")
    BY <1>20, TimerMoves
  <2>3. UNCHANGED launch \/ ~Reconnecting
    BY <1>20, TimerFinds
  <2>4. CASE UNCHANGED <<registry, launch>>
    BY <2>4 DEF DestroyKeeps, At, On
  <2>5. CASE ~UNCHANGED <<registry, launch>>
    <3>1. ~Reconnecting
      BY <2>2, <2>3, <2>5 DEF At
    <3> QED
      BY <2>1, <2>5, <3>1, Sorts DEF DestroyKeeps, At, On, Others, Reconnecting
  <2> QED
    BY <2>4, <2>5
<1>21. ASSUME NEW p \in Attempt, AttemptBuilds(p) PROVE DestroyKeeps'
  <2>1. Others(p) /\ At(p) = "destroy" /\ At(p)' # "destroy"
    BY <1>21, AttemptMoves
  <2> QED
    BY <2>1, Sorts DEF DestroyKeeps, At, On, Others, OneAttempt
<1>22. ASSUME NEW c \in Control, TornDown(c) PROVE DestroyKeeps'
  BY <1>22, EngineMoves, ControlCells, RowMoves, Sorts DEF TornDown, AtRest, Without,
     DestroyKeeps, At, On, Others
<1>23. ASSUME NEW e \in Engine, Errs(e) PROVE DestroyKeeps'
  BY <1>23, EngineMoves, RowMoves, Sorts DEF Errs, CancelReconnect, DestroyKeeps, At, On, Others
<1>24. ASSUME NEW e \in Engine, Reported(e) PROVE DestroyKeeps'
  <2>1. UNCHANGED launch /\ (UNCHANGED registry \/ registry' = NoEngine)
    BY <1>24, ReportMoves, Sorts
  <2> QED
    BY <2>1, Sorts DEF DestroyKeeps, At, On, Others
<1>25. CASE UNCHANGED vars
  BY <1>same, <1>25 DEF vars, local
<1> QED
  BY <1>1, <1>2, <1>3, <1>4, <1>5, <1>6, <1>7, <1>8, <1>9, <1>10, <1>11, <1>12, <1>13, <1>14,
     <1>15, <1>16, <1>17, <1>18, <1>19, <1>20, <1>21, <1>22, <1>23, <1>24, <1>25 DEF Next, Starts,
     Launch, Retirement

(* Nobody else registers while initialize() is pending on an engine that   *)
(* lives.                                                                  *)
LEMMA InitInductive ==
  ASSUME TypeOK, "attempt" \notin beside', OneAttempt, HeldIsOut, HookIsClear, InitKeeps, StartKeeps,
         [Next]_vars
  PROVE  InitKeeps'
<1>held. \A p \in Launcher : At(p) \in {"status", "init", "destroy"} => On(p) \in Engine
  BY Sorts DEF HeldIsOut
<1>same. ASSUME UNCHANGED <<registry, engine, launch>> PROVE InitKeeps'
  BY <1>same DEF InitKeeps, Alive, At, On, Others
<1>1. ASSUME StartTwice PROVE InitKeeps'
  BY <1>same, <1>1 DEF StartTwice, local
<1>2. ASSUME NEW c \in Control, NEW kind \in {"stop", "kill", "delete"}, Request(c, kind)
      PROVE  InitKeeps'
  BY <1>same, <1>2 DEF Request, local
<1>3. ASSUME NEW c \in Control, Refused(c) \/ Capture(c) \/ Written(c) \/ Cleared(c) \/ DeleteFails(c) \/
             LoseLease(c)
      PROVE  InitKeeps'
  BY <1>same, <1>3 DEF Refused, Capture, Written, Cleared, DeleteFails, LoseLease, local
<1>4. ASSUME NEW c \in Control, NEW e \in Engine, Rebind(e, c) PROVE InitKeeps'
  BY <1>same, <1>4 DEF Rebind, local
<1>5. ASSUME NEW e \in Engine, Watchdog(e) \/ ReportFails(e) PROVE InitKeeps'
  BY <1>same, <1>5 DEF Watchdog, ReportFails, local
<1>6. ASSUME StartRequested PROVE InitKeeps'
  BY <1>6, LaunchMoves, Sorts, <1>held DEF StartRequested, InitKeeps, Alive, At, On, Others
<1>7. ASSUME StartRefused PROVE InitKeeps'
  BY <1>7, LaunchMoves, Sorts, <1>held DEF StartRefused, InitKeeps, Alive, At, On, Others
<1>8. ASSUME StartAccepted PROVE InitKeeps'
  BY <1>8, LaunchMoves, Sorts DEF StartAccepted, CancelReconnect, local, InitKeeps, Alive, At, On,
     Others
<1>9. ASSUME StartBuilds PROVE InitKeeps'
  <2>1. /\ At(Start) = "hook" /\ Others(Start) /\ At(Start)' # "init"
    BY <1>9, BuildMoves
  <2> QED
    BY <2>1, Launchers, Sorts DEF InitKeeps, Alive, At, On, Others, HookIsClear, Reconnecting
<1>10. ASSUME StartEvicted PROVE InitKeeps'
  BY <1>10, LaunchMoves, EngineMoves, RowMoves, Sorts, <1>held DEF StartEvicted, CancelReconnect,
     InitKeeps, Alive, At, On, Others
<1>11. ASSUME NEW p \in Launcher, StatusWritten(p) PROVE InitKeeps'
  <2>1. /\ Others(p) /\ UNCHANGED registry /\ At(p) = "status"
        /\ \/ /\ registry = On(p) /\ On(p)' = On(p)
              /\ \A k \in Engine : engine'[k] = IF k = On(p) THEN "launching" ELSE engine[k]
           \/ At(p)' # "init" /\ UNCHANGED engine
    BY <1>11, StatusMoves
  <2> QED
    BY <2>1, <1>held, Sorts DEF InitKeeps, Alive, At, On, Others
<1>12. ASSUME NEW p \in Launcher, InitRejects(p) PROVE InitKeeps'
  <2>1. registry' = NoEngine
    BY <1>12, ThrowMoves DEF InitRejects, At
  <2> QED
    BY <2>1, Sorts DEF InitKeeps, Alive, At, On, Others
<1>13. ASSUME NEW p \in Launcher, InitResolves(p) PROVE InitKeeps'
  <2>1. /\ Others(p) /\ UNCHANGED <<registry, engine>> /\ At(p)' # "init"
    BY <1>13, ReturnMoves DEF InitResolves
  <2> QED
    BY <2>1, Sorts DEF InitKeeps, Alive, At, On, Others
<1>14. ASSUME NEW p \in Launcher, InitTimesOut(p) PROVE InitKeeps'
  BY <1>14, LaunchMoves, Sorts DEF InitTimesOut, InitKeeps, Alive, At, On, Others
<1>15. ASSUME NEW p \in Launcher, InitKilled(p) PROVE InitKeeps'
  BY <1>15, LaunchMoves, EngineMoves, RowMoves, Sorts, <1>held DEF InitKilled, InitKeeps, Alive,
     At, On, Others
<1>16. ASSUME NEW p \in Launcher, Check(p) PROVE InitKeeps'
  <2>1. /\ Others(p) /\ UNCHANGED <<registry, engine>> /\ At(p)' # "init"
    BY <1>16, ReturnMoves DEF Check
  <2> QED
    BY <2>1, Sorts DEF InitKeeps, Alive, At, On, Others
<1>17. ASSUME NEW p \in Launcher, Reaped(p) PROVE InitKeeps'
  BY <1>17, LaunchMoves, EngineMoves, Sorts, <1>held DEF Reaped, Without, InitKeeps, Alive, At,
     On, Others
<1>18. ASSUME NEW p \in Launcher, StatusFails(p) PROVE InitKeeps'
  <2>1. registry' = NoEngine
    BY <1>18, ThrowMoves DEF StatusFails, At
  <2> QED
    BY <2>1, Sorts DEF InitKeeps, Alive, At, On, Others
<1>19. ASSUME NEW p \in Launcher, CheckFails(p) PROVE InitKeeps'
  BY <1>19, LaunchMoves, Sorts, <1>held DEF CheckFails, InitKeeps, Alive, At, On, Others
<1>20. ASSUME NEW p \in Attempt, TimerFires(p) PROVE InitKeeps'
  <2>1. /\ UNCHANGED engine /\ retry.timer = "armed" /\ At(p) = "idle"
        /\ \/ UNCHANGED <<registry, launch>>
           \/ Others(p) /\ UNCHANGED registry /\ At(p)' = "destroy"
           \/ Others(p) /\ registry = NoEngine /\ At(p)' = "status"
    BY <1>20, TimerMoves
  <2>2. ASSUME registry = NoEngine, At(p)' = "status"
        PROVE  \A q \in Launcher : At(q) = "init" => ~Alive(On(q))
    <3>1. ~Reconnecting
      BY <1>20, <2>1, <2>2, TimerFinds DEF At
    <3> QED
      BY <2>1, <2>2, <3>1, Launchers DEF StartKeeps, Reconnecting, At
  <2>3. CASE UNCHANGED <<registry, launch>>
    BY <2>1, <2>3 DEF InitKeeps, Alive, At, On
  <2>4. CASE Others(p) /\ UNCHANGED registry /\ At(p)' = "destroy"
    BY <2>1, <2>4 DEF InitKeeps, Alive, Others
  <2>5. CASE Others(p) /\ registry = NoEngine /\ At(p)' = "status"
    BY <2>1, <2>2, <2>5 DEF InitKeeps, Alive, Others
  <2> QED
    BY <2>1, <2>3, <2>4, <2>5
<1>21. ASSUME NEW p \in Attempt, AttemptBuilds(p) PROVE InitKeeps'
  <2>1. /\ At(p) = "destroy" /\ Others(p) /\ At(p)' # "init"
        /\ \A k \in Engine : k = On(p) => engine'[k] = "down"
    BY <1>21, AttemptMoves
  <2>2. \A k \in Engine : engine[k] = "down" => engine'[k] = "down"
    BY <1>21, AttemptMoves
  <2>3. ASSUME NEW q \in Launcher, At(q)' = "init", Alive(On(q))'
        PROVE  FALSE
    <3>1. q # p /\ At(q) = "init" /\ On(q)' = On(q) /\ On(q) \in Engine
      BY <2>1, <2>3, <1>held DEF Others
    <3>2. engine'[On(q)] # "down" /\ engine[On(q)] # "down"
      BY <2>2, <2>3, <3>1 DEF Alive
    <3>3. q = Start /\ p \in Attempt
      BY <2>1, <3>1, Launchers DEF OneAttempt
    <3>4. On(p) = On(q)
      BY <2>1, <3>1, <3>2, <3>3 DEF StartKeeps, Alive
    <3> QED
      BY <2>1, <3>1, <3>2, <3>4
  <2> QED
    BY <2>3 DEF InitKeeps
<1>22. ASSUME NEW c \in Control, TornDown(c) PROVE InitKeeps'
  BY <1>22, EngineMoves, ControlCells, RowMoves, Sorts, <1>held DEF TornDown, AtRest, Without,
     InitKeeps, Alive, At, On, Others
<1>23. ASSUME NEW e \in Engine, Ready(e) PROVE InitKeeps'
  BY <1>23, EngineCells, RowMoves, Sorts, <1>held DEF Ready, InitKeeps, Alive, At, On, Others
<1>24. ASSUME NEW e \in Engine, Drops(e) PROVE InitKeeps'
  BY <1>24, EngineCells, Sorts, <1>held DEF Drops, InitKeeps, Alive, At, On, Others
<1>25. ASSUME NEW e \in Engine, GoesMute(e) PROVE InitKeeps'
  BY <1>25, EngineCells, Sorts, <1>held DEF GoesMute, InitKeeps, Alive, At, On, Others
<1>26. ASSUME NEW e \in Engine, Errs(e) PROVE InitKeeps'
  BY <1>26, EngineMoves, RowMoves, Sorts, <1>held DEF Errs, CancelReconnect, InitKeeps, Alive, At,
     On, Others
<1>27. ASSUME NEW e \in Engine, Reported(e) PROVE InitKeeps'
  <2>1. /\ UNCHANGED launch
        /\ UNCHANGED <<registry, engine>> \/ registry' = NoEngine
    BY <1>27, ReportMoves, Sorts
  <2> QED
    BY <2>1, Sorts DEF InitKeeps, Alive, At, On, Others
<1>28. ASSUME NEW e \in Engine, DoomedDies(e) PROVE InitKeeps'
  BY <1>28, EngineMoves, Sorts, <1>held DEF DoomedDies, InitKeeps, Alive, At, On, Others
<1>29. CASE UNCHANGED vars
  BY <1>same, <1>29 DEF vars, local
<1> QED
  BY <1>1, <1>2, <1>3, <1>4, <1>5, <1>6, <1>7, <1>8, <1>9, <1>10, <1>11, <1>12, <1>13, <1>14,
     <1>15, <1>16, <1>17, <1>18, <1>19, <1>20, <1>21, <1>22, <1>23, <1>24, <1>25, <1>26, <1>27,
     <1>28, <1>29 DEF Next, Starts, Launch, Retirement

(* An attempt that begins while a start waits finds the start's own        *)
(* engine.                                                                 *)
LEMMA KeepsInductive ==
  ASSUME TypeOK, "attempt" \notin beside', StatusIsNew, HeldIsOut, StatusIsClear, InitKeeps,
         StartKeeps, [Next]_vars
  PROVE  StartKeeps'
<1>held. \A p \in Launcher : At(p) \in {"status", "init", "destroy"} => On(p) \in Engine
  BY Sorts DEF HeldIsOut
<1>kept. ASSUME NEW p \in Launcher, At(p) \notin {"idle", "destroy"}, Others(p),
              p = Start => At(p)' # "init",
              \A k \in Engine : engine[k] = "down" /\ At(Start) = "init" /\ k = On(Start) => engine'[k] = "down"
      PROVE  StartKeeps'
  <2>1. CASE p = Start
    BY <1>kept, <2>1 DEF StartKeeps
  <2>2. CASE p # Start
    <3>1. SUFFICES ASSUME At(Start)' = "init", Alive(On(Start))'
                   PROVE  FALSE
      BY DEF StartKeeps
    <3>2. At(Start) = "init" /\ On(Start)' = On(Start) /\ On(Start) \in Engine
      BY <1>kept, <2>2, <3>1, <1>held, Sorts DEF Others
    <3>3. Alive(On(Start))
      BY <1>kept, <3>1, <3>2 DEF Alive
    <3> QED
      BY <1>kept, Launchers, <2>2, <3>2, <3>3 DEF StartKeeps
  <2> QED
    BY <2>1, <2>2
<1>over. ASSUME UNCHANGED launch, \A k \in Engine : engine[k] = "down" => engine'[k] = "down",
             registry' = NoEngine => (registry = NoEngine /\ retry'.timer \in {"none", retry.timer})
               \/ retry'.timer = "none"
                                     \/ (registry \in Engine /\ engine'[registry] = "down")
      PROVE  StartKeeps'
  <2>1. SUFFICES ASSUME At(Start)' = "init", Alive(On(Start))'
                 PROVE  /\ \A p \in Attempt : At(p)' # "idle" => At(p)' = "destroy" /\ On(p)' = On(Start)'
                        /\ registry' = NoEngine => retry'.timer = "none" \/ Reconnecting'
    BY DEF StartKeeps
  <2>2. /\ At(Start) = "init" /\ On(Start)' = On(Start) /\ On(Start) \in Engine
        /\ \A p \in Attempt : At(p)' = At(p) /\ On(p)' = On(p)
        /\ Reconnecting' <=> Reconnecting
    BY <1>over, <2>1, <1>held, Sorts DEF At, On, Reconnecting
  <2>3. Alive(On(Start))
    BY <1>over, <2>1, <2>2 DEF Alive
  <2>4. registry \in {On(Start), NoEngine}
    BY <2>2, <2>3, Sorts DEF InitKeeps
  <2>5. engine'[On(Start)] # "down"
    BY <2>1, <2>2 DEF Alive
  <2>6. registry' = NoEngine => retry'.timer = "none" \/ Reconnecting
    BY <1>over, <2>2, <2>3, <2>4, <2>5, Sorts DEF StartKeeps
  <2> QED
    BY <2>2, <2>3, <2>6 DEF StartKeeps
<1>same. ASSUME UNCHANGED <<registry, engine, launch, retry>> PROVE StartKeeps'
  BY <1>same DEF StartKeeps, Alive, Reconnecting, At, On
<1>1. ASSUME StartTwice PROVE StartKeeps'
  BY <1>same, <1>1 DEF StartTwice, local
<1>2. ASSUME NEW c \in Control, NEW kind \in {"stop", "kill", "delete"}, Request(c, kind)
      PROVE  StartKeeps'
  BY <1>same, <1>2 DEF Request, local
<1>3. ASSUME NEW c \in Control, Refused(c) \/ Written(c) \/ Cleared(c) \/ DeleteFails(c)
      PROVE  StartKeeps'
  BY <1>same, <1>3 DEF Refused, Written, Cleared, DeleteFails, local
<1>4. ASSUME NEW e \in Engine, Watchdog(e) \/ ReportFails(e) PROVE StartKeeps'
  BY <1>same, <1>4 DEF Watchdog, ReportFails, local
<1>5. ASSUME StartRequested PROVE StartKeeps'
  <2>1. /\ Others(Start) /\ At(Start)' # "init"
    BY <1>5, LaunchMoves, Sorts DEF StartRequested
  <2> QED
    BY <2>1, Sorts DEF StartKeeps
<1>6. ASSUME StartRefused PROVE StartKeeps'
  <2>1. At(Start)' # "init"
    BY <1>6, Sorts, LaunchMoves DEF StartRefused
  <2> QED
    BY <2>1, Sorts DEF StartKeeps
<1>7. ASSUME StartAccepted PROVE StartKeeps'
  <2>1. At(Start)' # "init"
    BY <1>7, Sorts, LaunchMoves DEF StartAccepted
  <2> QED
    BY <2>1, Sorts DEF StartKeeps
<1>8. ASSUME StartBuilds PROVE StartKeeps'
  <2>1. At(Start)' # "init"
    BY <1>8, Sorts, BuildMoves
  <2> QED
    BY <2>1, Sorts DEF StartKeeps
<1>9. ASSUME StartEvicted PROVE StartKeeps'
  <2>1. At(Start)' # "init"
    BY <1>9, Sorts, LaunchMoves DEF StartEvicted
  <2> QED
    BY <2>1, Sorts DEF StartKeeps
<1>10. ASSUME NEW p \in Launcher, StatusWritten(p) PROVE StartKeeps'
  <2>1. /\ Others(p) /\ UNCHANGED registry /\ At(p) = "status" /\ On(p) \in Engine
        /\ \/ /\ registry = On(p) /\ On(p)' = On(p) /\ At(p)' = "init"
              /\ \A k \in Engine : engine'[k] = IF k = On(p) THEN "launching" ELSE engine[k]
           \/ At(p)' # "init" /\ UNCHANGED engine
    BY <1>10, StatusMoves, <1>held
  <2>2. CASE p = Start /\ At(p)' = "init"
    <3>1. ~Reconnecting
      BY <2>1, <2>2 DEF StatusIsClear
    <3> QED
      BY <2>1, <2>2, <3>1, Sorts DEF StartKeeps, Reconnecting, At, Others
  <2>3. CASE ~(p = Start /\ At(p)' = "init")
    <3>1. \A k \in Engine : engine[k] = "down" /\ At(Start) = "init" /\ k = On(Start) => engine'[k] = "down"
      <4>1. SUFFICES ASSUME NEW k \in Engine, engine[k] = "down", engine'[k] # "down",
                            At(Start) = "init", k = On(Start)
                     PROVE  FALSE
        OBVIOUS
      <4>2. k = On(p) /\ At(p)' = "init" /\ p # Start
        BY <2>1, <2>3, <4>1
      <4>3. On(Start) = On(p)
        BY <4>1, <4>2
      <4>4. \A q \in Launcher : At(q) = "init" /\ On(q) = On(p) => q = p
        BY <2>1 DEF StatusIsNew
      <4> QED
        BY <4>1, <4>2, <4>3, <4>4, Sorts
    <3> QED
      BY <2>1, <2>3, <3>1, <1>kept
  <2> QED
    BY <2>2, <2>3
<1>11. ASSUME NEW p \in Launcher, InitRejects(p) PROVE StartKeeps'
  <2>1. /\ At(p) \notin {"idle", "destroy"} /\ Others(p) /\ (p = Start => At(p)' # "init")
        /\ \A k \in Engine : engine[k] = "down" => engine'[k] = "down"
    BY <1>11, Sorts, ThrowMoves DEF InitRejects, At
  <2> QED
    BY <2>1, <1>kept
<1>12. ASSUME NEW p \in Launcher, InitResolves(p) PROVE StartKeeps'
  <2>1. /\ At(p) \notin {"idle", "destroy"} /\ Others(p) /\ (p = Start => At(p)' # "init")
        /\ \A k \in Engine : engine[k] = "down" => engine'[k] = "down"
    BY <1>12, Sorts, ReturnMoves DEF InitResolves, At
  <2> QED
    BY <2>1, <1>kept
<1>13. ASSUME NEW p \in Launcher, InitTimesOut(p) PROVE StartKeeps'
  <2>1. /\ At(p) \notin {"idle", "destroy"} /\ Others(p) /\ (p = Start => At(p)' # "init")
        /\ \A k \in Engine : engine[k] = "down" => engine'[k] = "down"
    BY <1>13, Sorts, LaunchMoves DEF InitTimesOut, At
  <2> QED
    BY <2>1, <1>kept
<1>14. ASSUME NEW p \in Launcher, InitKilled(p) PROVE StartKeeps'
  <2>1. /\ At(p) \notin {"idle", "destroy"} /\ Others(p) /\ (p = Start => At(p)' # "init")
        /\ \A k \in Engine : engine[k] = "down" => engine'[k] = "down"
    BY <1>14, Sorts, LaunchMoves, EngineMoves DEF InitKilled, At
  <2> QED
    BY <2>1, <1>kept
<1>15. ASSUME NEW p \in Launcher, Check(p) PROVE StartKeeps'
  <2>1. /\ At(p) \notin {"idle", "destroy"} /\ Others(p) /\ (p = Start => At(p)' # "init")
        /\ \A k \in Engine : engine[k] = "down" => engine'[k] = "down"
    BY <1>15, Sorts, ReturnMoves DEF Check, At
  <2> QED
    BY <2>1, <1>kept
<1>16. ASSUME NEW p \in Launcher, Reaped(p) PROVE StartKeeps'
  <2>1. /\ At(p) \notin {"idle", "destroy"} /\ Others(p) /\ (p = Start => At(p)' # "init")
        /\ \A k \in Engine : engine[k] = "down" => engine'[k] = "down"
    BY <1>16, Sorts, LaunchMoves, EngineMoves DEF Reaped, At
  <2> QED
    BY <2>1, <1>kept
<1>17. ASSUME NEW p \in Launcher, StatusFails(p) PROVE StartKeeps'
  <2>1. /\ At(p) \notin {"idle", "destroy"} /\ Others(p) /\ (p = Start => At(p)' # "init")
        /\ \A k \in Engine : engine[k] = "down" => engine'[k] = "down"
    BY <1>17, Sorts, ThrowMoves DEF StatusFails, At
  <2> QED
    BY <2>1, <1>kept
<1>18. ASSUME NEW p \in Launcher, CheckFails(p) PROVE StartKeeps'
  <2>1. /\ At(p) \notin {"idle", "destroy"} /\ Others(p) /\ (p = Start => At(p)' # "init")
        /\ \A k \in Engine : engine[k] = "down" => engine'[k] = "down"
    BY <1>18, Sorts, LaunchMoves DEF CheckFails, At
  <2> QED
    BY <2>1, <1>kept
<1>19. ASSUME NEW p \in Attempt, TimerFires(p) PROVE StartKeeps'
  <2>1. /\ UNCHANGED engine /\ retry.timer = "armed" /\ At(p) = "idle"
        /\ \/ UNCHANGED <<registry, launch>> /\ retry'.timer = "none"
           \/ Others(p) /\ UNCHANGED registry /\ registry # NoEngine /\ At(p)' = "destroy" /\ On(p)' = registry
           \/ Others(p) /\ registry = NoEngine /\ At(p)' = "status"
    BY <1>19, TimerMoves, RetryCells
  <2>2. CASE UNCHANGED <<registry, launch>> /\ retry'.timer = "none"
    BY <2>1, <2>2, <1>over
  <2>3. CASE Others(p) /\ UNCHANGED registry /\ registry # NoEngine /\ At(p)' = "destroy" /\ On(p)' = registry
    <3>0. ~Reconnecting
      BY <1>19, <2>1, <2>3, TimerFinds DEF At
    <3>1. SUFFICES ASSUME At(Start)' = "init", Alive(On(Start))'
                   PROVE  On(Start)' = registry
      BY <2>3, <3>0, Sorts DEF StartKeeps, Reconnecting, At, Others
    <3> QED
      BY <2>1, <2>3, <3>1, Sorts DEF InitKeeps, Alive, Others
  <2>4. CASE Others(p) /\ registry = NoEngine /\ At(p)' = "status"
    <3>1. ~Reconnecting
      BY <1>19, <2>1, <2>4, TimerFinds DEF At
    <3>2. ~(At(Start) = "init" /\ Alive(On(Start)))
      BY <2>1, <2>4, <3>1 DEF StartKeeps
    <3> QED
      BY <2>1, <2>4, <3>2, Sorts DEF StartKeeps, Alive, Others
  <2> QED
    BY <2>1, <2>2, <2>3, <2>4
<1>20. ASSUME NEW p \in Attempt, AttemptBuilds(p) PROVE StartKeeps'
  <2>1. /\ At(p) = "destroy" /\ Others(p)
        /\ \A k \in Engine : k = On(p) => engine'[k] = "down"
    BY <1>20, AttemptMoves
  <2>2. \A k \in Engine : engine[k] = "down" => engine'[k] = "down"
    BY <1>20, AttemptMoves
  <2>3. SUFFICES ASSUME At(Start)' = "init", Alive(On(Start))'
                 PROVE  FALSE
    BY DEF StartKeeps
  <2>4. At(Start) = "init" /\ On(Start)' = On(Start) /\ On(Start) \in Engine
    BY <2>1, <2>3, <1>held, Sorts DEF Others
  <2>5. engine'[On(Start)] # "down" /\ engine[On(Start)] # "down"
    BY <2>2, <2>3, <2>4 DEF Alive
  <2>6. On(p) = On(Start)
    BY <2>1, <2>4, <2>5 DEF StartKeeps, Alive
  <2> QED
    BY <2>1, <2>4, <2>5, <2>6
<1>21. ASSUME NEW c \in Control, Capture(c) PROVE StartKeeps'
  <2>1. /\ UNCHANGED launch
        /\ \A k \in Engine : engine[k] = "down" => engine'[k] = "down"
        /\ registry' = NoEngine => (registry = NoEngine /\ retry'.timer \in {"none", retry.timer})
               \/ retry'.timer = "none"
                                   \/ (registry \in Engine /\ engine'[registry] = "down")
    BY <1>21, Sorts, RetryCells DEF Capture, local, CancelReconnect
  <2> QED
    BY <2>1, <1>over
<1>22. ASSUME NEW c \in Control, TornDown(c) PROVE StartKeeps'
  <2>1. /\ UNCHANGED launch
        /\ \A k \in Engine : engine[k] = "down" => engine'[k] = "down"
        /\ registry' = NoEngine => (registry = NoEngine /\ retry'.timer \in {"none", retry.timer})
               \/ retry'.timer = "none"
                                   \/ (registry \in Engine /\ engine'[registry] = "down")
    BY <1>22, Sorts, EngineMoves DEF TornDown, Without
  <2> QED
    BY <2>1, <1>over
<1>23. ASSUME NEW c \in Control, LoseLease(c) PROVE StartKeeps'
  <2>1. /\ UNCHANGED launch
        /\ \A k \in Engine : engine[k] = "down" => engine'[k] = "down"
        /\ registry' = NoEngine => (registry = NoEngine /\ retry'.timer \in {"none", retry.timer})
               \/ retry'.timer = "none"
                                   \/ (registry \in Engine /\ engine'[registry] = "down")
    BY <1>23, Sorts, RetryCells DEF LoseLease, CancelReconnect
  <2> QED
    BY <2>1, <1>over
<1>24. ASSUME NEW c \in Control, NEW e \in Engine, Rebind(e, c) PROVE StartKeeps'
  <2>1. /\ UNCHANGED launch
        /\ \A k \in Engine : engine[k] = "down" => engine'[k] = "down"
        /\ registry' = NoEngine => (registry = NoEngine /\ retry'.timer \in {"none", retry.timer})
               \/ retry'.timer = "none"
                                   \/ (registry \in Engine /\ engine'[registry] = "down")
    BY <1>24, Sorts, RetryCells DEF Rebind, local, CancelReconnect
  <2> QED
    BY <2>1, <1>over
<1>25. ASSUME NEW e \in Engine, Ready(e) PROVE StartKeeps'
  <2>1. /\ UNCHANGED launch
        /\ \A k \in Engine : engine[k] = "down" => engine'[k] = "down"
        /\ registry' = NoEngine => (registry = NoEngine /\ retry'.timer \in {"none", retry.timer})
               \/ retry'.timer = "none"
                                   \/ (registry \in Engine /\ engine'[registry] = "down")
    BY <1>25, Sorts, EngineCells, RetryCells DEF Ready
  <2> QED
    BY <2>1, <1>over
<1>26. ASSUME NEW e \in Engine, Drops(e) PROVE StartKeeps'
  <2>1. /\ UNCHANGED launch
        /\ \A k \in Engine : engine[k] = "down" => engine'[k] = "down"
        /\ registry' = NoEngine => (registry = NoEngine /\ retry'.timer \in {"none", retry.timer})
               \/ retry'.timer = "none"
                                   \/ (registry \in Engine /\ engine'[registry] = "down")
    BY <1>26, Sorts, EngineCells DEF Drops
  <2> QED
    BY <2>1, <1>over
<1>27. ASSUME NEW e \in Engine, GoesMute(e) PROVE StartKeeps'
  <2>1. /\ UNCHANGED launch
        /\ \A k \in Engine : engine[k] = "down" => engine'[k] = "down"
        /\ registry' = NoEngine => (registry = NoEngine /\ retry'.timer \in {"none", retry.timer})
               \/ retry'.timer = "none"
                                   \/ (registry \in Engine /\ engine'[registry] = "down")
    BY <1>27, Sorts, EngineCells DEF GoesMute
  <2> QED
    BY <2>1, <1>over
<1>28. ASSUME NEW e \in Engine, Errs(e) PROVE StartKeeps'
  <2>1. /\ UNCHANGED launch
        /\ \A k \in Engine : engine[k] = "down" => engine'[k] = "down"
        /\ registry' = NoEngine => (registry = NoEngine /\ retry'.timer \in {"none", retry.timer})
               \/ retry'.timer = "none"
                                   \/ (registry \in Engine /\ engine'[registry] = "down")
    BY <1>28, Sorts, EngineMoves, RetryCells DEF Errs, CancelReconnect
  <2> QED
    BY <2>1, <1>over
<1>29. ASSUME NEW e \in Engine, Reported(e) PROVE StartKeeps'
  <2>1. /\ UNCHANGED launch
        /\ \A k \in Engine : engine[k] = "down" => engine'[k] = "down"
        /\ registry' = NoEngine => (registry = NoEngine /\ retry'.timer \in {"none", retry.timer})
               \/ retry'.timer = "none"
                                   \/ (registry \in Engine /\ engine'[registry] = "down")
    BY <1>29, Sorts, ReportMoves, RetryCells
  <2> QED
    BY <2>1, <1>over
<1>30. ASSUME NEW e \in Engine, DoomedDies(e) PROVE StartKeeps'
  <2>1. /\ UNCHANGED launch
        /\ \A k \in Engine : engine[k] = "down" => engine'[k] = "down"
        /\ registry' = NoEngine => (registry = NoEngine /\ retry'.timer \in {"none", retry.timer})
               \/ retry'.timer = "none"
                                   \/ (registry \in Engine /\ engine'[registry] = "down")
    BY <1>30, Sorts, EngineMoves DEF DoomedDies
  <2> QED
    BY <2>1, <1>over
<1>31. CASE UNCHANGED vars
  BY <1>same, <1>31 DEF vars, local
<1> QED
  BY <1>1, <1>2, <1>3, <1>4, <1>5, <1>6, <1>7, <1>8, <1>9, <1>10, <1>11, <1>12, <1>13, <1>14,
     <1>15, <1>16, <1>17, <1>18, <1>19, <1>20, <1>21, <1>22, <1>23, <1>24, <1>25, <1>26, <1>27,
     <1>28, <1>29, <1>30, <1>31 DEF Next, Starts, Launch, Retirement

(* Who takes an engine out of the registry kills it, dooms it or holds it. *)
LEMMA OrphanInductive ==
  ASSUME TypeOK, ControlsHold, HookIsClear, DestroyKeeps, InitKeeps, StartOrphansNothing, [Next]_vars
  PROVE  StartOrphansNothing'
<1>i. /\ \A e : Handled(e) <=> engine[e] = "doomed" \/ LaunchHolds(e) \/ ControlHolds(e)
      /\ \A e : Handled(e)' <=> engine'[e] = "doomed" \/ LaunchHolds(e)' \/ ControlHolds(e)'
  BY DEF Handled, LaunchHolds, ControlHolds, Holding, At, On
<1>k. UNCHANGED control => \A e : ControlHolds(e)' <=> ControlHolds(e)
  BY DEF ControlHolds
<1>j. UNCHANGED launch => \A e : LaunchHolds(e)' <=> LaunchHolds(e)
  BY DEF LaunchHolds, At, On
<1>l. \A p \in Launcher : Others(p) /\ At(p) \notin Holding => \A e : LaunchHolds(e) => LaunchHolds(e)'
  BY DEF LaunchHolds, Others
<1>v. \A p \in Launcher : Others(p) => \A e : e # On(p) => (LaunchHolds(e) => LaunchHolds(e)')
  BY DEF LaunchHolds, Others
<1>r. \A p \in Launcher : At(p)' \in Holding => LaunchHolds(On(p))'
  BY DEF LaunchHolds
<1>same. ASSUME UNCHANGED <<registry, engine, launch, control>> PROVE StartOrphansNothing'
  BY <1>same, <1>i, <1>j, <1>k DEF StartOrphansNothing, Alive
<1>1. ASSUME StartTwice PROVE StartOrphansNothing'
  BY <1>same, <1>1 DEF StartTwice, local
<1>2. ASSUME NEW e \in Engine, Watchdog(e) \/ ReportFails(e) PROVE StartOrphansNothing'
  BY <1>same, <1>2 DEF Watchdog, ReportFails, local
<1>3. ASSUME StartRequested PROVE StartOrphansNothing'
  <2>1. /\ UNCHANGED <<registry, engine, control>> /\ Others(Start) /\ At(Start) \notin Holding
    BY <1>3, Sorts, LaunchMoves DEF StartRequested, Starting, At, Holding
  <2> QED
    BY <2>1, <1>i, Sorts, <1>k, <1>l DEF StartOrphansNothing, Alive, Holding
<1>4. ASSUME StartRefused PROVE StartOrphansNothing'
  <2>1. /\ UNCHANGED <<registry, engine, control>> /\ Others(Start) /\ At(Start) \notin Holding
    BY <1>4, Sorts, LaunchMoves DEF StartRefused, At, Holding
  <2> QED
    BY <2>1, <1>i, Sorts, <1>k, <1>l DEF StartOrphansNothing, Alive, Holding
<1>5. ASSUME StartAccepted PROVE StartOrphansNothing'
  <2>1. /\ UNCHANGED <<registry, engine, control>> /\ Others(Start) /\ At(Start) \notin Holding
    BY <1>5, Sorts, LaunchMoves DEF StartAccepted, local, At, Holding
  <2> QED
    BY <2>1, <1>i, Sorts, <1>k, <1>l DEF StartOrphansNothing, Alive, Holding
<1>6. ASSUME StartBuilds PROVE StartOrphansNothing'
  <2>1. /\ UNCHANGED <<engine, control>> /\ Others(Start) /\ At(Start) = "hook" /\ registry = NoEngine
    BY <1>6, Sorts, BuildMoves DEF HookIsClear
  <2> QED
    BY <2>1, <1>i, Sorts, <1>k, <1>l DEF StartOrphansNothing, Alive, Holding
<1>7. ASSUME StartEvicted PROVE StartOrphansNothing'
  <2>1. /\ UNCHANGED <<registry, control>> /\ Others(Start)
        /\ \A k \in Engine : engine'[k] = IF k = On(Start) THEN "down" ELSE engine[k]
    BY <1>7, Sorts, LaunchMoves, EngineMoves DEF StartEvicted, At, On
  <2> QED
    BY <2>1, <1>i, Sorts, <1>k, <1>v DEF StartOrphansNothing, Alive, Holding
<1>8. ASSUME NEW p \in Launcher, StatusWritten(p) PROVE StartOrphansNothing'
  <2>1. /\ UNCHANGED <<registry, control>> /\ Others(p) /\ At(p) = "status"
        /\ \/ /\ registry = On(p)
              /\ \A k \in Engine : engine'[k] = IF k = On(p) THEN "launching" ELSE engine[k]
           \/ UNCHANGED engine
    BY <1>8, Sorts, StatusMoves
  <2> QED
    BY <2>1, <1>i, Sorts, <1>k, <1>l DEF StartOrphansNothing, Alive, Holding
<1>9. ASSUME NEW p \in Launcher, InitRejects(p) PROVE StartOrphansNothing'
  <2>1. /\ UNCHANGED control /\ Others(p) /\ At(p) \notin Holding
        /\ \A k \in Engine : k # registry => engine'[k] = engine[k]
        /\ \/ UNCHANGED engine /\ registry = NoEngine
           \/ UNCHANGED engine /\ At(p)' = "evict" /\ On(p)' = registry
           \/ \A k \in Engine : k = registry => engine'[k] \in {"down", "doomed"}
    BY <1>9, Sorts, ThrowMoves DEF InitRejects, At, Holding
  <2> QED
    BY <2>1, <1>i, Sorts, <1>k, <1>l, <1>r DEF StartOrphansNothing, Alive, Holding
<1>10. ASSUME NEW p \in Launcher, InitResolves(p) PROVE StartOrphansNothing'
  <2>1. /\ UNCHANGED <<registry, engine, control>> /\ Others(p) /\ At(p) \notin Holding
    BY <1>10, Sorts, ReturnMoves DEF InitResolves, At, Holding
  <2> QED
    BY <2>1, <1>i, Sorts, <1>k, <1>l DEF StartOrphansNothing, Alive, Holding
<1>11. ASSUME NEW p \in Launcher, InitTimesOut(p) PROVE StartOrphansNothing'
  <2>1. /\ UNCHANGED <<engine, control>> /\ Others(p) /\ At(p) = "init" /\ registry \in {On(p), NoEngine}
        /\ At(p)' = "timeout" /\ On(p)' = On(p)
    BY <1>11, Sorts, LaunchMoves DEF InitTimesOut, InitKeeps, At, On
  <2> QED
    BY <2>1, <1>i, Sorts, <1>k, <1>l, <1>r DEF StartOrphansNothing, Alive, Holding
<1>12. ASSUME NEW p \in Launcher, InitKilled(p) PROVE StartOrphansNothing'
  <2>1. /\ UNCHANGED <<registry, control>> /\ Others(p)
        /\ \A k \in Engine : engine'[k] = IF k = On(p) THEN "down" ELSE engine[k]
    BY <1>12, Sorts, LaunchMoves, EngineMoves DEF InitKilled, At, On
  <2> QED
    BY <2>1, <1>i, Sorts, <1>k, <1>v DEF StartOrphansNothing, Alive, Holding
<1>13. ASSUME NEW p \in Launcher, Check(p) PROVE StartOrphansNothing'
  <2>1. /\ UNCHANGED <<registry, engine, control>> /\ Others(p) /\ At(p) \notin Holding
    BY <1>13, Sorts, ReturnMoves DEF Check, At, Holding
  <2> QED
    BY <2>1, <1>i, Sorts, <1>k, <1>l DEF StartOrphansNothing, Alive, Holding
<1>14. ASSUME NEW p \in Launcher, Reaped(p) PROVE StartOrphansNothing'
  <2>1. /\ UNCHANGED <<control>> /\ Others(p)
        /\ registry' = (IF registry = On(p) THEN NoEngine ELSE registry)
        /\ \A k \in Engine : engine'[k] = IF k = On(p) THEN "down" ELSE engine[k]
    BY <1>14, Sorts, LaunchMoves, EngineMoves DEF Reaped, Without, At, On
  <2> QED
    BY <2>1, <1>i, Sorts, <1>k, <1>v DEF StartOrphansNothing, Alive, Holding
<1>15. ASSUME NEW p \in Launcher, StatusFails(p) PROVE StartOrphansNothing'
  <2>1. /\ UNCHANGED control /\ Others(p) /\ At(p) \notin Holding
        /\ \A k \in Engine : k # registry => engine'[k] = engine[k]
        /\ \/ UNCHANGED engine /\ registry = NoEngine
           \/ UNCHANGED engine /\ At(p)' = "evict" /\ On(p)' = registry
           \/ \A k \in Engine : k = registry => engine'[k] \in {"down", "doomed"}
    BY <1>15, Sorts, ThrowMoves DEF StatusFails, At, Holding
  <2> QED
    BY <2>1, <1>i, Sorts, <1>k, <1>l, <1>r DEF StartOrphansNothing, Alive, Holding
<1>16. ASSUME NEW p \in Launcher, CheckFails(p) PROVE StartOrphansNothing'
  <2>1. /\ UNCHANGED <<registry, engine, control>> /\ Others(p) /\ At(p) \notin Holding
    BY <1>16, Sorts, LaunchMoves DEF CheckFails, At, Holding
  <2> QED
    BY <2>1, <1>i, Sorts, <1>k, <1>l DEF StartOrphansNothing, Alive, Holding
<1>17. ASSUME NEW p \in Attempt, TimerFires(p) PROVE StartOrphansNothing'
  <2>1. /\ UNCHANGED <<engine, control>>
        /\ \/ UNCHANGED <<registry, launch>>
           \/ Others(p) /\ At(p) = "idle" /\ registry = NoEngine
           \/ Others(p) /\ At(p) = "idle" /\ UNCHANGED registry
    BY <1>17, Sorts, TimerMoves
  <2> QED
    BY <2>1, <1>i, Sorts, <1>j, <1>k, <1>l DEF StartOrphansNothing, Alive, Holding
<1>18. ASSUME NEW p \in Attempt, AttemptBuilds(p) PROVE StartOrphansNothing'
  <2>1. /\ UNCHANGED control /\ Others(p) /\ At(p) = "destroy" /\ registry \in {On(p), NoEngine}
        /\ \A k \in Engine : k = On(p) => engine'[k] = "down"
    BY <1>18, AttemptMoves DEF DestroyKeeps
  <2>2. \A k \in Engine : k # On(p) => engine'[k] = engine[k]
    BY <1>18, <2>1, Sorts, AttemptMoves
  <2> QED
    BY <2>1, <2>2, <1>i, <1>k, <1>v, Sorts DEF StartOrphansNothing, Alive
<1>19. ASSUME NEW c \in Control, NEW kind \in {"stop", "kill", "delete"}, Request(c, kind)
       PROVE  StartOrphansNothing'
  <2>1. UNCHANGED <<registry, engine, launch>>
    BY <1>19 DEF Request, local
  <2>2. \A k \in Engine : ControlHolds(k) => ControlHolds(k)'
    BY <1>19, ControlCells, Sorts DEF Request, ControlHolds, ControlsHold, AtRest
  <2> QED
    BY <2>1, <2>2, <1>i, <1>j DEF StartOrphansNothing, Alive
<1>20. ASSUME NEW c \in Control, Refused(c) PROVE StartOrphansNothing'
  <2>1. UNCHANGED <<registry, engine, launch>>
    BY <1>20 DEF Refused, local
  <2>2. \A k \in Engine : ControlHolds(k) => ControlHolds(k)'
    BY <1>20, ControlCells, Sorts DEF Refused, ControlHolds, ControlsHold, AtRest
  <2> QED
    BY <2>1, <2>2, <1>i, <1>j DEF StartOrphansNothing, Alive
<1>21. ASSUME NEW c \in Control, Capture(c) PROVE StartOrphansNothing'
  <2>1. UNCHANGED <<registry, engine, launch>>
    BY <1>21 DEF Capture, local
  <2>2. \A k \in Engine : ControlHolds(k) => ControlHolds(k)'
    BY <1>21, ControlCells, Sorts DEF Capture, ControlHolds, ControlsHold, AtRest
  <2> QED
    BY <2>1, <2>2, <1>i, <1>j DEF StartOrphansNothing, Alive
<1>22. ASSUME NEW c \in Control, TornDown(c) PROVE StartOrphansNothing'
  <2>1. /\ UNCHANGED launch
        /\ registry' = (IF registry = control[c].on THEN NoEngine ELSE registry)
        /\ \A k \in Engine : engine'[k] = IF k = control[c].on THEN "down" ELSE engine[k]
    BY <1>22, EngineMoves DEF TornDown, Without
  <2>2. \A e : e # control[c].on => (ControlHolds(e) => ControlHolds(e)')
    BY <1>22, ControlCells DEF TornDown, ControlHolds
  <2> QED
    BY <2>1, <2>2, <1>i, <1>j, Sorts DEF StartOrphansNothing, Alive
<1>23. ASSUME NEW c \in Control, Written(c) PROVE StartOrphansNothing'
  <2>1. UNCHANGED <<registry, engine, launch>>
    BY <1>23 DEF Written, local
  <2>2. \A k \in Engine : ControlHolds(k) => ControlHolds(k)'
    BY <1>23, ControlCells, Sorts DEF Written, ControlHolds, ControlsHold, AtRest
  <2> QED
    BY <2>1, <2>2, <1>i, <1>j DEF StartOrphansNothing, Alive
<1>24. ASSUME NEW c \in Control, Cleared(c) PROVE StartOrphansNothing'
  <2>1. UNCHANGED <<registry, engine, launch>>
    BY <1>24 DEF Cleared, local
  <2>2. \A k \in Engine : ControlHolds(k) => ControlHolds(k)'
    BY <1>24, ControlCells, Sorts DEF Cleared, ControlHolds, ControlsHold, AtRest
  <2> QED
    BY <2>1, <2>2, <1>i, <1>j DEF StartOrphansNothing, Alive
<1>25. ASSUME NEW c \in Control, DeleteFails(c) PROVE StartOrphansNothing'
  <2>1. UNCHANGED <<registry, engine, launch>>
    BY <1>25 DEF DeleteFails, local
  <2>2. \A k \in Engine : ControlHolds(k) => ControlHolds(k)'
    BY <1>25, ControlCells, Sorts DEF DeleteFails, ControlHolds, ControlsHold, AtRest
  <2> QED
    BY <2>1, <2>2, <1>i, <1>j DEF StartOrphansNothing, Alive
<1>26. ASSUME NEW c \in Control, LoseLease(c) PROVE StartOrphansNothing'
  <2>1. UNCHANGED <<registry, engine, launch>>
    BY <1>26 DEF LoseLease, local
  <2>2. \A k \in Engine : ControlHolds(k) => ControlHolds(k)'
    BY <1>26, ControlCells, Sorts DEF LoseLease, ControlHolds, ControlsHold, AtRest
  <2> QED
    BY <2>1, <2>2, <1>i, <1>j DEF StartOrphansNothing, Alive
<1>27. ASSUME NEW c \in Control, NEW e \in Engine, Rebind(e, c) PROVE StartOrphansNothing'
  <2>1. UNCHANGED <<registry, engine, launch>>
    BY <1>27 DEF Rebind, local
  <2>2. \A k \in Engine : ControlHolds(k) => ControlHolds(k)'
    BY <1>27, ControlCells, Sorts DEF Rebind, ControlHolds, ControlsHold, AtRest
  <2> QED
    BY <2>1, <2>2, <1>i, <1>j DEF StartOrphansNothing, Alive
<1>28. ASSUME NEW e \in Engine, Ready(e) PROVE StartOrphansNothing'
  <2>1. /\ UNCHANGED <<registry, launch, control>> /\ engine[e] \notin {"down", "doomed"}
        /\ \A k \in Engine : k # e => engine'[k] = engine[k]
    BY <1>28, Sorts, EngineCells DEF Ready
  <2> QED
    BY <2>1, <1>i, Sorts, <1>k, <1>j DEF StartOrphansNothing, Alive, Holding
<1>29. ASSUME NEW e \in Engine, Drops(e) PROVE StartOrphansNothing'
  <2>1. /\ UNCHANGED <<registry, launch, control>> /\ engine[e] \notin {"down", "doomed"}
        /\ \A k \in Engine : k # e => engine'[k] = engine[k]
    BY <1>29, Sorts, EngineCells DEF Drops
  <2> QED
    BY <2>1, <1>i, Sorts, <1>k, <1>j DEF StartOrphansNothing, Alive, Holding
<1>30. ASSUME NEW e \in Engine, GoesMute(e) PROVE StartOrphansNothing'
  <2>1. /\ UNCHANGED <<registry, launch, control>> /\ engine[e] \notin {"down", "doomed"}
        /\ \A k \in Engine : k # e => engine'[k] = engine[k]
    BY <1>30, Sorts, EngineCells DEF GoesMute
  <2> QED
    BY <2>1, <1>i, Sorts, <1>k, <1>j DEF StartOrphansNothing, Alive, Holding
<1>31. ASSUME NEW e \in Engine, Errs(e) PROVE StartOrphansNothing'
  <2>1. /\ UNCHANGED <<launch, control>> /\ registry = e
        /\ \A k \in Engine : engine'[k] = IF k = e /\ engine[k] # "down" THEN "doomed" ELSE engine[k]
    BY <1>31, Sorts, EngineMoves DEF Errs
  <2> QED
    BY <2>1, <1>i, Sorts, <1>k, <1>j DEF StartOrphansNothing, Alive, Holding
<1>32. ASSUME NEW e \in Engine, Reported(e) PROVE StartOrphansNothing'
  <2>1. /\ UNCHANGED <<launch, control>>
        /\ \/ UNCHANGED <<registry, engine>>
           \/ /\ registry = e
              /\ \A k \in Engine : engine'[k] = IF k = e /\ engine[k] # "down" THEN "doomed" ELSE engine[k]
    BY <1>32, Sorts, ReportMoves
  <2> QED
    BY <2>1, <1>i, Sorts, <1>k, <1>j DEF StartOrphansNothing, Alive, Holding
<1>33. ASSUME NEW e \in Engine, DoomedDies(e) PROVE StartOrphansNothing'
  <2>1. /\ UNCHANGED <<registry, launch, control>>
        /\ \A k \in Engine : engine'[k] = IF k = e THEN "down" ELSE engine[k]
    BY <1>33, Sorts, EngineMoves DEF DoomedDies
  <2> QED
    BY <2>1, <1>i, Sorts, <1>k, <1>j DEF StartOrphansNothing, Alive, Holding
<1>34. CASE UNCHANGED vars
  BY <1>same, <1>34 DEF vars, local
<1> QED
  BY <1>1, <1>2, <1>3, <1>4, <1>5, <1>6, <1>7, <1>8, <1>9, <1>10, <1>11, <1>12, <1>13, <1>14,
     <1>15, <1>16, <1>17, <1>18, <1>19, <1>20, <1>21, <1>22, <1>23, <1>24, <1>25, <1>26, <1>27,
     <1>28, <1>29, <1>30, <1>31, <1>32, <1>33, <1>34 DEF Next, Starts, Launch, Retirement

(* A report arms the timer under the engine that dropped, and a new engine *)
(* comes with the timer spent.                                             *)
LEMMA ArmedInductive ==
  ASSUME TypeOK, StatusIsNew, HeldIsOut, RegisteredIsUp, ReportsAreLate,
         ArmedIsDropped, DestroyIsSpent, [Next]_vars
  PROVE  ArmedIsDropped'
<1>typed. TypeOK
  OBVIOUS
<1>kept. ASSUME ~excused' => ~excused, retry'.timer = "armed" => retry.timer = "armed",
             registry' # NoEngine =>
               registry' = registry /\ engine'[registry] \in {engine[registry], "dropped", "mute"}
      PROVE  ArmedIsDropped'
  BY <1>kept, Sorts DEF ArmedIsDropped
<1>over. ASSUME excused' \/ retry'.timer # "armed" \/ registry' = NoEngine
      PROVE  ArmedIsDropped'
  BY <1>over, Sorts DEF ArmedIsDropped
<1>same. ASSUME UNCHANGED <<registry, engine, retry, excused>> PROVE ArmedIsDropped'
  BY <1>same DEF ArmedIsDropped
<1>1. ASSUME StartRequested \/ StartTwice \/ StartRefused PROVE ArmedIsDropped'
  BY <1>same, <1>1 DEF StartRequested, StartTwice, StartRefused, local
<1>2. ASSUME NEW p \in Launcher, InitResolves(p) \/ Check(p) PROVE ArmedIsDropped'
  BY <1>same, <1>2 DEF InitResolves, Check, local
<1>3. ASSUME NEW c \in Control, NEW kind \in {"stop", "kill", "delete"}, Request(c, kind)
      PROVE  ArmedIsDropped'
  BY <1>same, <1>3 DEF Request, local
<1>4. ASSUME NEW c \in Control, Refused(c) \/ Written(c) \/ Cleared(c) PROVE ArmedIsDropped'
  BY <1>same, <1>4 DEF Refused, Written, Cleared, local
<1>5. ASSUME NEW e \in Engine, Watchdog(e) PROVE ArmedIsDropped'
  BY <1>same, <1>5 DEF Watchdog, local
<1>6. ASSUME StartAccepted PROVE ArmedIsDropped'
  <2>1. retry'.timer # "armed"
    BY <1>6, Sorts, RetryCells DEF StartAccepted, CancelReconnect
  <2> QED
    BY <2>1, <1>over
<1>7. ASSUME StartBuilds PROVE ArmedIsDropped'
  <2>1. retry'.timer # "armed" \/ registry' = NoEngine
    BY <1>7, Sorts, BuildMoves
  <2> QED
    BY <2>1, <1>over
<1>8. ASSUME StartEvicted PROVE ArmedIsDropped'
  <2>1. retry'.timer # "armed"
    BY <1>8, Sorts, RetryCells DEF StartEvicted, CancelReconnect
  <2> QED
    BY <2>1, <1>over
<1>9. ASSUME NEW p \in Launcher, StatusWritten(p) PROVE ArmedIsDropped'
  <2>1. /\ UNCHANGED <<registry, retry, excused>> /\ At(p) = "status"
        /\ \/ registry = On(p) /\ On(p) \in Engine
           \/ UNCHANGED engine
    BY <1>9, Sorts, StatusMoves DEF StatusIsNew
  <2>2. CASE registry = On(p) /\ On(p) \in Engine
    <3>1. excused \/ retry.timer # "armed"
      BY <2>1, <2>2 DEF StatusIsNew, Alive, ArmedIsDropped
    <3> QED
      BY <2>1, <3>1, <1>over
  <2>3. CASE UNCHANGED engine
    BY <2>1, <2>3, <1>kept
  <2> QED
    BY <2>1, <2>2, <2>3
<1>10. ASSUME NEW p \in Launcher, InitRejects(p) PROVE ArmedIsDropped'
  <2>1. registry' = NoEngine
    BY <1>10, Sorts, ThrowMoves DEF InitRejects
  <2> QED
    BY <2>1, <1>over
<1>11. ASSUME NEW p \in Launcher, InitTimesOut(p) PROVE ArmedIsDropped'
  <2>1. registry' = NoEngine
    BY <1>11, Sorts DEF InitTimesOut
  <2> QED
    BY <2>1, <1>over
<1>12. ASSUME NEW p \in Launcher, InitKilled(p) PROVE ArmedIsDropped'
  <2>1. /\ ~excused' => ~excused
        /\ UNCHANGED retry
        /\ registry' # NoEngine => registry' = registry /\ engine'[registry] \in {engine[registry], "dropped", "mute"}
    BY <1>12, Sorts, EngineMoves DEF InitKilled, HeldIsOut, At, On
  <2> QED
    BY <2>1, <1>kept
<1>13. ASSUME NEW p \in Launcher, Reaped(p) PROVE ArmedIsDropped'
  <2>1. /\ ~excused' => ~excused
        /\ UNCHANGED retry
        /\ registry' # NoEngine => registry' = registry /\ engine'[registry] \in {engine[registry], "dropped", "mute"}
    BY <1>13, Sorts, EngineMoves DEF Reaped, Without
  <2> QED
    BY <2>1, <1>kept
<1>14. ASSUME NEW p \in Launcher, StatusFails(p) PROVE ArmedIsDropped'
  <2>1. registry' = NoEngine
    BY <1>14, Sorts, ThrowMoves DEF StatusFails
  <2> QED
    BY <2>1, <1>over
<1>15. ASSUME NEW p \in Launcher, CheckFails(p) PROVE ArmedIsDropped'
  <2>1. excused'
    BY <1>15, Sorts DEF CheckFails
  <2> QED
    BY <2>1, <1>over
<1>16. ASSUME NEW p \in Attempt, TimerFires(p) PROVE ArmedIsDropped'
  <2>1. retry'.timer # "armed"
    BY <1>16, Sorts, RetryCells, TimerMoves
  <2> QED
    BY <2>1, <1>over
<1>17. ASSUME NEW p \in Attempt, AttemptBuilds(p) PROVE ArmedIsDropped'
  <2>1. /\ At(p) = "destroy" /\ UNCHANGED excused
        /\ UNCHANGED retry \/ registry' = NoEngine
    BY <1>17, AttemptMoves
  <2>2. excused \/ retry.timer # "armed"
    BY <2>1 DEF DestroyIsSpent
  <2> QED
    BY <2>1, <2>2, <1>over
<1>18. ASSUME NEW c \in Control, Capture(c) PROVE ArmedIsDropped'
  <2>1. retry'.timer # "armed"
    BY <1>18, Sorts, RetryCells DEF Capture, CancelReconnect
  <2> QED
    BY <2>1, <1>over
<1>19. ASSUME NEW c \in Control, TornDown(c) PROVE ArmedIsDropped'
  <2>1. /\ ~excused' => ~excused
        /\ UNCHANGED retry
        /\ registry' # NoEngine => registry' = registry /\ engine'[registry] \in {engine[registry], "dropped", "mute"}
    BY <1>19, Sorts, EngineMoves DEF TornDown, Without
  <2> QED
    BY <2>1, <1>kept
<1>20. ASSUME NEW c \in Control, DeleteFails(c) PROVE ArmedIsDropped'
  <2>1. excused'
    BY <1>20, Sorts DEF DeleteFails
  <2> QED
    BY <2>1, <1>over
<1>21. ASSUME NEW c \in Control, LoseLease(c) PROVE ArmedIsDropped'
  <2>1. retry'.timer # "armed"
    BY <1>21, Sorts, RetryCells DEF LoseLease, CancelReconnect
  <2> QED
    BY <2>1, <1>over
<1>22. ASSUME NEW c \in Control, NEW e \in Engine, Rebind(e, c) PROVE ArmedIsDropped'
  <2>1. retry'.timer # "armed"
    BY <1>22, Sorts, RetryCells DEF Rebind, CancelReconnect
  <2> QED
    BY <2>1, <1>over
<1>23. ASSUME NEW e \in Engine, Ready(e) PROVE ArmedIsDropped'
  <2>1. /\ UNCHANGED <<registry, excused>> /\ retry'.timer = retry.timer /\ engine[e] = "launching"
        /\ \A k \in Engine : k # e => engine'[k] = engine[k]
    BY <1>23, EngineCells, RetryCells DEF Ready
  <2>2. CASE registry = e
    <3>1. excused \/ retry.timer # "armed"
      BY <2>1, <2>2 DEF ArmedIsDropped
    <3> QED
      BY <2>1, <3>1, <1>over
  <2>3. CASE registry # e
    BY <2>1, <2>3, Sorts, <1>kept
  <2> QED
    BY <2>2, <2>3
<1>24. ASSUME NEW e \in Engine, Drops(e) PROVE ArmedIsDropped'
  <2>1. /\ ~excused' => ~excused
        /\ UNCHANGED retry
        /\ registry' # NoEngine => registry' = registry /\ engine'[registry] \in {engine[registry], "dropped", "mute"}
    BY <1>24, Sorts, EngineCells DEF Drops
  <2> QED
    BY <2>1, <1>kept
<1>25. ASSUME NEW e \in Engine, GoesMute(e) PROVE ArmedIsDropped'
  <2>1. /\ ~excused' => ~excused
        /\ UNCHANGED retry
        /\ registry' # NoEngine => registry' = registry /\ engine'[registry] \in {engine[registry], "dropped", "mute"}
    BY <1>25, Sorts, EngineCells DEF GoesMute
  <2> QED
    BY <2>1, <1>kept
<1>26. ASSUME NEW e \in Engine, Errs(e) PROVE ArmedIsDropped'
  <2>1. retry'.timer # "armed"
    BY <1>26, Sorts, RetryCells DEF Errs, CancelReconnect
  <2> QED
    BY <2>1, <1>over
<1>27. ASSUME NEW e \in Engine, Reported(e) PROVE ArmedIsDropped'
  <2>1. /\ e \in reports /\ (~excused' => ~excused)
        /\ \/ UNCHANGED <<registry, engine, retry>>
           \/ retry'.timer # "armed"
           \/ registry = e /\ UNCHANGED <<registry, engine>>
    BY <1>27, RetryCells, ReportMoves
  <2>2. CASE registry = e /\ UNCHANGED <<registry, engine>>
    <3>1. engine[e] \in {"dropped", "mute"}
      BY <2>1, <2>2, <1>typed DEF RegisteredIsUp, ReportsAreLate, Alive, TypeOK, EngineStates
    <3> QED
      BY <2>2, <3>1 DEF ArmedIsDropped
  <2> QED
    BY <2>1, <2>2, <1>kept, <1>over
<1>28. ASSUME NEW e \in Engine, ReportFails(e) PROVE ArmedIsDropped'
  <2>1. excused'
    BY <1>28, Sorts DEF ReportFails
  <2> QED
    BY <2>1, <1>over
<1>29. ASSUME NEW e \in Engine, DoomedDies(e) PROVE ArmedIsDropped'
  <2>1. /\ ~excused' => ~excused
        /\ UNCHANGED retry
        /\ registry' # NoEngine => registry' = registry /\ engine'[registry] \in {engine[registry], "dropped", "mute"}
    BY <1>29, Sorts, EngineMoves DEF DoomedDies, RegisteredIsUp
  <2> QED
    BY <2>1, <1>kept
<1>30. CASE UNCHANGED vars
  BY <1>same, <1>30 DEF vars, local
<1> QED
  BY <1>1, <1>2, <1>3, <1>4, <1>5, <1>6, <1>7, <1>8, <1>9, <1>10, <1>11, <1>12, <1>13, <1>14,
     <1>15, <1>16, <1>17, <1>18, <1>19, <1>20, <1>21, <1>22, <1>23, <1>24, <1>25, <1>26, <1>27,
     <1>28, <1>29, <1>30 DEF Next, Starts, Launch, Retirement

(* A report of the engine an attempt destroys is excused; a stop sets the  *)
(* mark.                                                                   *)
LEMMA SpentInductive ==
  ASSUME TypeOK, "attempt" \notin beside', OneAttempt, ControlsHold, HeldIsOut, HookIsClear, StartIsAlone,
         DestroyKeeps, ArmedIsDropped, DestroyIsSpent, [Next]_vars
  PROVE  DestroyIsSpent'
<1>kept. ASSUME ~excused' => ~excused,
             \A p \in Attempt : At(p)' = "destroy" => At(p) = "destroy" /\ On(p)' = On(p),
             retry'.timer = "armed" => retry.timer = "armed",
             ~mark' /\ row' # "gone" => ~mark /\ row # "gone" /\ (retry'.timer = "none" => retry.timer = "none"),
             \A k \in Engine : engine'[k] = "linked" => engine[k] = "linked"
      PROVE  DestroyIsSpent'
  <2>1. \A p \in Attempt : At(p) = "destroy" => On(p) \in Engine
    BY Sorts DEF HeldIsOut
  <2> QED
    BY <1>kept, <2>1 DEF DestroyIsSpent
<1>over. ASSUME \A p \in Attempt : ~excused' => At(p)' # "destroy"
      PROVE  DestroyIsSpent'
  BY <1>over DEF DestroyIsSpent
<1>same. ASSUME UNCHANGED <<row, mark, engine, retry, launch, excused>> PROVE DestroyIsSpent'
  BY <1>same DEF DestroyIsSpent, At, On
<1>1. ASSUME StartTwice PROVE DestroyIsSpent'
  BY <1>same, <1>1 DEF StartTwice, local
<1>2. ASSUME NEW e \in Engine, Watchdog(e) PROVE DestroyIsSpent'
  BY <1>same, <1>2 DEF Watchdog, local
<1>3. ASSUME StartRequested PROVE DestroyIsSpent'
  <2>1. /\ ~excused' => ~excused
        /\ retry'.timer = "armed" => retry.timer = "armed"
        /\ ~mark' /\ row' # "gone" => ~mark /\ row # "gone" /\ (retry'.timer = "none" => retry.timer = "none")
        /\ \A k \in Engine : engine'[k] = "linked" => engine[k] = "linked"
        /\ Others(Start) /\ At(Start)' # "destroy"
    BY <1>3, Sorts, LaunchMoves DEF StartRequested
  <2> QED
    BY <2>1, Sorts, <1>kept DEF Others
<1>4. ASSUME StartRefused PROVE DestroyIsSpent'
  <2>1. /\ ~excused' => ~excused
        /\ retry'.timer = "armed" => retry.timer = "armed"
        /\ ~mark' /\ row' # "gone" => ~mark /\ row # "gone" /\ (retry'.timer = "none" => retry.timer = "none")
        /\ \A k \in Engine : engine'[k] = "linked" => engine[k] = "linked"
        /\ Others(Start) /\ At(Start)' # "destroy"
    BY <1>4, Sorts, LaunchMoves DEF StartRefused
  <2> QED
    BY <2>1, Sorts, <1>kept DEF Others
<1>5. ASSUME StartAccepted PROVE DestroyIsSpent'
  <2>1. Others(Start) /\ ~Reconnecting
    BY <1>5, StartFinds, Sorts, LaunchMoves DEF StartAccepted
  <2> QED
    BY <2>1, Sorts, <1>over DEF Others, Reconnecting, At
<1>6. ASSUME StartBuilds PROVE DestroyIsSpent'
  <2>1. Others(Start) /\ ~Reconnecting
    BY <1>6, Sorts, BuildMoves DEF HookIsClear
  <2> QED
    BY <2>1, Sorts, <1>over DEF Others, Reconnecting, At
<1>7. ASSUME StartEvicted PROVE DestroyIsSpent'
  <2>1. Others(Start) /\ UNCHANGED excused /\ (excused \/ ~Reconnecting)
    BY <1>7, Sorts, LaunchMoves DEF StartEvicted, StartIsAlone, At
  <2> QED
    BY <2>1, Sorts, <1>over DEF Others, Reconnecting, At
<1>8. ASSUME NEW p \in Launcher, StatusWritten(p) PROVE DestroyIsSpent'
  <2>1. /\ UNCHANGED <<excused, mark, retry>> /\ (row = "gone" <=> row' = "gone")
        /\ Others(p) /\ At(p)' # "destroy"
        /\ \A k \in Engine : engine'[k] = "linked" => engine[k] = "linked"
    BY <1>8, StatusMoves
  <2> QED
    BY <2>1, Sorts, <1>kept DEF Others
<1>9. ASSUME NEW p \in Launcher, InitRejects(p) PROVE DestroyIsSpent'
  <2>1. At(p) # "idle" /\ At(p) # "find" /\ UNCHANGED excused /\ Others(p) /\ At(p)' # "destroy"
    BY <1>9, Sorts, ThrowMoves DEF InitRejects, At
  <2>2. CASE p = Start
    <3>1. excused \/ ~Reconnecting
      BY <2>1, <2>2 DEF StartIsAlone
    <3> QED
      BY <2>1, <2>2, <3>1, Sorts, <1>over DEF Others, Reconnecting, At
  <2>3. CASE p # Start
    BY <2>1, <2>3, Launchers, Sorts, <1>over DEF OneAttempt, Others
  <2> QED
    BY <2>2, <2>3
<1>10. ASSUME NEW p \in Launcher, InitResolves(p) PROVE DestroyIsSpent'
  <2>1. /\ ~excused' => ~excused
        /\ retry'.timer = "armed" => retry.timer = "armed"
        /\ ~mark' /\ row' # "gone" => ~mark /\ row # "gone" /\ (retry'.timer = "none" => retry.timer = "none")
        /\ \A k \in Engine : engine'[k] = "linked" => engine[k] = "linked"
        /\ Others(p) /\ At(p)' # "destroy"
    BY <1>10, Sorts, ReturnMoves DEF InitResolves
  <2> QED
    BY <2>1, Sorts, <1>kept DEF Others
<1>11. ASSUME NEW p \in Launcher, InitTimesOut(p) PROVE DestroyIsSpent'
  <2>1. /\ ~excused' => ~excused
        /\ retry'.timer = "armed" => retry.timer = "armed"
        /\ ~mark' /\ row' # "gone" => ~mark /\ row # "gone" /\ (retry'.timer = "none" => retry.timer = "none")
        /\ \A k \in Engine : engine'[k] = "linked" => engine[k] = "linked"
        /\ Others(p) /\ At(p)' # "destroy"
    BY <1>11, Sorts, LaunchMoves DEF InitTimesOut
  <2> QED
    BY <2>1, Sorts, <1>kept DEF Others
<1>12. ASSUME NEW p \in Launcher, InitKilled(p) PROVE DestroyIsSpent'
  <2>1. /\ ~excused' => ~excused
        /\ retry'.timer = "armed" => retry.timer = "armed"
        /\ ~mark' /\ row' # "gone" => ~mark /\ row # "gone" /\ (retry'.timer = "none" => retry.timer = "none")
        /\ \A k \in Engine : engine'[k] = "linked" => engine[k] = "linked"
        /\ Others(p) /\ At(p)' # "destroy"
    BY <1>12, Sorts, LaunchMoves, EngineMoves, RowMoves DEF InitKilled
  <2> QED
    BY <2>1, Sorts, <1>kept DEF Others
<1>13. ASSUME NEW p \in Launcher, Check(p) PROVE DestroyIsSpent'
  <2>1. /\ ~excused' => ~excused
        /\ retry'.timer = "armed" => retry.timer = "armed"
        /\ ~mark' /\ row' # "gone" => ~mark /\ row # "gone" /\ (retry'.timer = "none" => retry.timer = "none")
        /\ \A k \in Engine : engine'[k] = "linked" => engine[k] = "linked"
        /\ Others(p) /\ At(p)' # "destroy"
    BY <1>13, Sorts, ReturnMoves DEF Check
  <2> QED
    BY <2>1, Sorts, <1>kept DEF Others
<1>14. ASSUME NEW p \in Launcher, Reaped(p) PROVE DestroyIsSpent'
  <2>1. /\ ~excused' => ~excused
        /\ retry'.timer = "armed" => retry.timer = "armed"
        /\ ~mark' /\ row' # "gone" => ~mark /\ row # "gone" /\ (retry'.timer = "none" => retry.timer = "none")
        /\ \A k \in Engine : engine'[k] = "linked" => engine[k] = "linked"
        /\ Others(p) /\ At(p)' # "destroy"
    BY <1>14, Sorts, LaunchMoves, EngineMoves DEF Reaped
  <2> QED
    BY <2>1, Sorts, <1>kept DEF Others
<1>15. ASSUME NEW p \in Launcher, StatusFails(p) PROVE DestroyIsSpent'
  <2>1. At(p) # "idle" /\ At(p) # "find" /\ UNCHANGED excused /\ Others(p) /\ At(p)' # "destroy"
    BY <1>15, Sorts, ThrowMoves DEF StatusFails, At
  <2>2. CASE p = Start
    <3>1. excused \/ ~Reconnecting
      BY <2>1, <2>2 DEF StartIsAlone
    <3> QED
      BY <2>1, <2>2, <3>1, Sorts, <1>over DEF Others, Reconnecting, At
  <2>3. CASE p # Start
    BY <2>1, <2>3, Launchers, Sorts, <1>over DEF OneAttempt, Others
  <2> QED
    BY <2>2, <2>3
<1>16. ASSUME NEW p \in Launcher, CheckFails(p) PROVE DestroyIsSpent'
  <2>1. excused'
    BY <1>16, Sorts DEF CheckFails
  <2> QED
    BY <2>1, <1>over
<1>17. ASSUME NEW p \in Attempt, TimerFires(p) PROVE DestroyIsSpent'
  <2>1. /\ retry.timer = "armed" /\ At(p) = "idle" /\ UNCHANGED engine /\ (~excused' => ~excused)
        /\ \/ UNCHANGED launch
           \/ At(p)' = "status" /\ Others(p)
           \/ /\ registry \in Engine /\ At(p)' = "destroy" /\ On(p)' = registry /\ Others(p)
              /\ retry'.timer = "spent"
    BY <1>17, Sorts, TimerMoves
  <2>2. CASE UNCHANGED launch
    <3>1. \A q \in Attempt : ~excused' => At(q)' # "destroy"
      BY <2>1, <2>2 DEF DestroyIsSpent, At
    <3> QED
      BY <3>1, <1>over
  <2>3. CASE ~UNCHANGED launch
    <3>1. \A q \in Attempt : q # p => At(q)' # "destroy"
      BY <1>17, <2>1, <2>3, Sorts, TimerFinds DEF Reconnecting, At, Others
    <3>2. CASE At(p)' = "status"
      BY <3>1, <3>2, <1>over
    <3>3. CASE registry \in Engine /\ On(p)' = registry /\ retry'.timer = "spent"
      <4>1. excused' \/ engine[registry] # "linked"
        BY <2>1, <3>3 DEF ArmedIsDropped
      <4> QED
        BY <2>1, <3>1, <3>3, <4>1 DEF DestroyIsSpent
    <3> QED
      BY <2>1, <2>3, <3>2, <3>3
  <2> QED
    BY <2>2, <2>3
<1>18. ASSUME NEW p \in Attempt, AttemptBuilds(p) PROVE DestroyIsSpent'
  <2>1. At(p) = "destroy" /\ At(p)' # "destroy" /\ Others(p)
    BY <1>18, Sorts, AttemptMoves
  <2>2. \A q \in Attempt : At(q)' # "destroy"
    BY <2>1, Sorts DEF OneAttempt, Others
  <2> QED
    BY <2>2, <1>over
<1>19. ASSUME NEW c \in Control, NEW kind \in {"stop", "kill", "delete"}, Request(c, kind)
       PROVE  DestroyIsSpent'
  <2>1. /\ ~excused' => ~excused
        /\ retry'.timer = "armed" => retry.timer = "armed"
        /\ ~mark' /\ row' # "gone" => ~mark /\ row # "gone" /\ (retry'.timer = "none" => retry.timer = "none")
        /\ \A k \in Engine : engine'[k] = "linked" => engine[k] = "linked"
        /\ UNCHANGED launch
    BY <1>19, Sorts DEF Request, local
  <2> QED
    BY <2>1, <1>kept DEF At, On
<1>20. ASSUME NEW c \in Control, Refused(c) PROVE DestroyIsSpent'
  <2>1. /\ ~excused' => ~excused
        /\ retry'.timer = "armed" => retry.timer = "armed"
        /\ ~mark' /\ row' # "gone" => ~mark /\ row # "gone" /\ (retry'.timer = "none" => retry.timer = "none")
        /\ \A k \in Engine : engine'[k] = "linked" => engine[k] = "linked"
        /\ UNCHANGED launch
    BY <1>20, Sorts DEF Refused
  <2> QED
    BY <2>1, <1>kept DEF At, On
<1>21. ASSUME NEW c \in Control, Capture(c) PROVE DestroyIsSpent'
  <2>1. /\ ~excused' => ~excused
        /\ retry'.timer = "armed" => retry.timer = "armed"
        /\ ~mark' /\ row' # "gone" => ~mark /\ row # "gone" /\ (retry'.timer = "none" => retry.timer = "none")
        /\ \A k \in Engine : engine'[k] = "linked" => engine[k] = "linked"
        /\ UNCHANGED launch
    BY <1>21, Sorts, RetryCells DEF Capture, CancelReconnect, local
  <2> QED
    BY <2>1, <1>kept DEF At, On
<1>22. ASSUME NEW c \in Control, TornDown(c) PROVE DestroyIsSpent'
  <2>1. /\ ~excused' => ~excused
        /\ retry'.timer = "armed" => retry.timer = "armed"
        /\ ~mark' /\ row' # "gone" => ~mark /\ row # "gone" /\ (retry'.timer = "none" => retry.timer = "none")
        /\ \A k \in Engine : engine'[k] = "linked" => engine[k] = "linked"
        /\ UNCHANGED launch
    BY <1>22, Sorts, EngineMoves, RowMoves DEF TornDown
  <2> QED
    BY <2>1, <1>kept DEF At, On
<1>23. ASSUME NEW c \in Control, Written(c) PROVE DestroyIsSpent'
  <2>1. /\ ~excused' => ~excused
        /\ retry'.timer = "armed" => retry.timer = "armed"
        /\ ~mark' /\ row' # "gone" => ~mark /\ row # "gone" /\ (retry'.timer = "none" => retry.timer = "none")
        /\ \A k \in Engine : engine'[k] = "linked" => engine[k] = "linked"
        /\ UNCHANGED launch
    BY <1>23, Sorts, RowMoves DEF Written
  <2> QED
    BY <2>1, <1>kept DEF At, On
<1>24. ASSUME NEW c \in Control, Cleared(c) PROVE DestroyIsSpent'
  <2>1. /\ ~excused' => ~excused
        /\ retry'.timer = "armed" => retry.timer = "armed"
        /\ ~mark' /\ row' # "gone" => ~mark /\ row # "gone" /\ (retry'.timer = "none" => retry.timer = "none")
        /\ \A k \in Engine : engine'[k] = "linked" => engine[k] = "linked"
        /\ UNCHANGED launch
    BY <1>24, Sorts DEF Cleared, ControlsHold
  <2> QED
    BY <2>1, <1>kept DEF At, On
<1>25. ASSUME NEW c \in Control, DeleteFails(c) PROVE DestroyIsSpent'
  <2>1. excused'
    BY <1>25, Sorts DEF DeleteFails
  <2> QED
    BY <2>1, <1>over
<1>26. ASSUME NEW c \in Control, LoseLease(c) PROVE DestroyIsSpent'
  <2>1. /\ ~excused' => ~excused
        /\ retry'.timer = "armed" => retry.timer = "armed"
        /\ ~mark' /\ row' # "gone" => ~mark /\ row # "gone" /\ (retry'.timer = "none" => retry.timer = "none")
        /\ \A k \in Engine : engine'[k] = "linked" => engine[k] = "linked"
        /\ UNCHANGED launch
    BY <1>26, Sorts, RetryCells DEF LoseLease, CancelReconnect
  <2> QED
    BY <2>1, <1>kept DEF At, On
<1>27. ASSUME NEW c \in Control, NEW e \in Engine, Rebind(e, c) PROVE DestroyIsSpent'
  <2>1. /\ ~excused' => ~excused
        /\ retry'.timer = "armed" => retry.timer = "armed"
        /\ ~mark' /\ row' # "gone" => ~mark /\ row # "gone" /\ (retry'.timer = "none" => retry.timer = "none")
        /\ \A k \in Engine : engine'[k] = "linked" => engine[k] = "linked"
        /\ UNCHANGED launch
    BY <1>27, Sorts, RetryCells DEF Rebind, CancelReconnect, local
  <2> QED
    BY <2>1, <1>kept DEF At, On
<1>28. ASSUME NEW e \in Engine, Ready(e) PROVE DestroyIsSpent'
  <2>1. /\ UNCHANGED <<launch, excused, mark>> /\ retry'.timer = retry.timer /\ (row' # "gone" => row # "gone")
        /\ \A k \in Engine : k # e => engine'[k] = engine[k]
        /\ \A p \in Attempt : At(p) = "destroy" => On(p) # e
    BY <1>28, Sorts, EngineCells, RetryCells, RowMoves DEF Ready, TearingDown, At, On
  <2>2. \A p \in Attempt : /\ At(p)' = At(p) /\ On(p)' = On(p)
                           /\ At(p) = "destroy" => On(p) \in Engine
    BY <2>1, Sorts DEF HeldIsOut, At, On
  <2> QED
    BY <2>1, <2>2 DEF DestroyIsSpent
<1>29. ASSUME NEW e \in Engine, Drops(e) PROVE DestroyIsSpent'
  <2>1. /\ ~excused' => ~excused
        /\ retry'.timer = "armed" => retry.timer = "armed"
        /\ ~mark' /\ row' # "gone" => ~mark /\ row # "gone" /\ (retry'.timer = "none" => retry.timer = "none")
        /\ \A k \in Engine : engine'[k] = "linked" => engine[k] = "linked"
        /\ UNCHANGED launch
    BY <1>29, Sorts, EngineCells DEF Drops
  <2> QED
    BY <2>1, <1>kept DEF At, On
<1>30. ASSUME NEW e \in Engine, GoesMute(e) PROVE DestroyIsSpent'
  <2>1. /\ ~excused' => ~excused
        /\ retry'.timer = "armed" => retry.timer = "armed"
        /\ ~mark' /\ row' # "gone" => ~mark /\ row # "gone" /\ (retry'.timer = "none" => retry.timer = "none")
        /\ \A k \in Engine : engine'[k] = "linked" => engine[k] = "linked"
        /\ UNCHANGED launch
    BY <1>30, Sorts, EngineCells DEF GoesMute
  <2> QED
    BY <2>1, <1>kept DEF At, On
<1>31. ASSUME NEW e \in Engine, Errs(e) PROVE DestroyIsSpent'
  <2>1. UNCHANGED launch /\ \A p \in Attempt : At(p) # "destroy"
    BY <1>31, Sorts DEF Errs, TearingDown, DestroyKeeps, At, On
  <2> QED
    BY <2>1, <1>over DEF At
<1>32. ASSUME NEW e \in Engine, Reported(e) PROVE DestroyIsSpent'
  <2>1. /\ UNCHANGED <<launch, mark>>
        /\ ~excused' => ~excused /\ \A p \in Attempt : At(p) = "destroy" => On(p) # e
        /\ UNCHANGED <<row, registry, engine, retry>> \/ registry = e
    BY <1>32, ReportMoves
  <2>2. CASE UNCHANGED <<row, registry, engine, retry>>
    BY <2>1, <2>2, <1>kept DEF At, On
  <2>3. CASE registry = e
    <3>1. \A p \in Attempt : ~excused' => At(p) # "destroy"
      BY <2>1, <2>3, Sorts DEF DestroyKeeps
    <3> QED
      BY <2>1, <3>1, <1>over DEF At
  <2> QED
    BY <2>1, <2>2, <2>3
<1>33. ASSUME NEW e \in Engine, ReportFails(e) PROVE DestroyIsSpent'
  <2>1. excused'
    BY <1>33, Sorts DEF ReportFails
  <2> QED
    BY <2>1, <1>over
<1>34. ASSUME NEW e \in Engine, DoomedDies(e) PROVE DestroyIsSpent'
  <2>1. /\ ~excused' => ~excused
        /\ retry'.timer = "armed" => retry.timer = "armed"
        /\ ~mark' /\ row' # "gone" => ~mark /\ row # "gone" /\ (retry'.timer = "none" => retry.timer = "none")
        /\ \A k \in Engine : engine'[k] = "linked" => engine[k] = "linked"
        /\ UNCHANGED launch
    BY <1>34, Sorts, EngineMoves DEF DoomedDies
  <2> QED
    BY <2>1, <1>kept DEF At, On
<1>35. CASE UNCHANGED vars
  BY <1>same, <1>35 DEF vars, local
<1> QED
  BY <1>1, <1>2, <1>3, <1>4, <1>5, <1>6, <1>7, <1>8, <1>9, <1>10, <1>11, <1>12, <1>13, <1>14,
     <1>15, <1>16, <1>17, <1>18, <1>19, <1>20, <1>21, <1>22, <1>23, <1>24, <1>25, <1>26, <1>27,
     <1>28, <1>29, <1>30, <1>31, <1>32, <1>33, <1>34, <1>35 DEF Next, Starts, Launch, Retirement

(* The state goes with the engine or with the mark, or a control has the   *)
(* engine.                                                                 *)
LEMMA StateInductive ==
  ASSUME TypeOK, ControlsHold, EvictedIsEmpty, UnownedIsRemoved,
         DestroyIsSpent, RegisteredHasState, [Next]_vars
  PROVE  RegisteredHasState'
<1>kept. ASSUME ~excused' => ~excused, registry' # NoEngine => registry' = registry,
             ~mark' /\ row' # "gone" => ~mark /\ row # "gone",
             retry'.timer = "none" => retry.timer = "none",
             \A e \in Engine : TakenDown(e) /\ registry' = e => TakenDown(e)'
      PROVE  RegisteredHasState'
  BY <1>kept, Sorts DEF RegisteredHasState
<1>over. ASSUME excused' \/ mark' \/ row' = "gone" \/ registry' = NoEngine \/ retry'.timer # "none"
      PROVE  RegisteredHasState'
  BY <1>over, Sorts DEF RegisteredHasState
<1>k. UNCHANGED control => \A e : TakenDown(e)' <=> TakenDown(e)
  BY DEF TakenDown
<1>same. ASSUME UNCHANGED <<registry, mark, row, excused, retry, control>> PROVE RegisteredHasState'
  BY <1>same DEF RegisteredHasState, TakenDown
<1>1. ASSUME StartRequested \/ StartTwice \/ StartRefused PROVE RegisteredHasState'
  BY <1>same, <1>1 DEF StartRequested, StartTwice, StartRefused, local
<1>2. ASSUME NEW p \in Launcher, InitResolves(p) \/ Check(p) PROVE RegisteredHasState'
  BY <1>same, <1>2 DEF InitResolves, Check, local
<1>3. ASSUME NEW e \in Engine, Drops(e) \/ GoesMute(e) \/ Watchdog(e) \/ DoomedDies(e)
      PROVE  RegisteredHasState'
  BY <1>same, <1>3 DEF Drops, GoesMute, Watchdog, DoomedDies, local
<1>4. ASSUME StartAccepted PROVE RegisteredHasState'
  <2>1. registry' = NoEngine
    BY <1>4, Sorts DEF StartAccepted, local
  <2> QED
    BY <2>1, <1>over
<1>5. ASSUME StartBuilds PROVE RegisteredHasState'
  <2>1. registry' = NoEngine \/ retry'.timer # "none"
    BY <1>5, Sorts, BuildMoves
  <2> QED
    BY <2>1, <1>over
<1>6. ASSUME StartEvicted PROVE RegisteredHasState'
  <2>1. excused' \/ registry' = NoEngine
    BY <1>6, Sorts DEF StartEvicted, EvictedIsEmpty, At
  <2> QED
    BY <2>1, <1>over
<1>7. ASSUME NEW p \in Launcher, StatusWritten(p) PROVE RegisteredHasState'
  <2>1. /\ ~excused' => ~excused
        /\ registry' # NoEngine => registry' = registry
        /\ ~mark' /\ row' # "gone" => ~mark /\ row # "gone"
        /\ retry'.timer = "none" => retry.timer = "none"
        /\ UNCHANGED control
    BY <1>7, Sorts, StatusMoves
  <2> QED
    BY <2>1, <1>kept, <1>k
<1>8. ASSUME NEW p \in Launcher, InitRejects(p) PROVE RegisteredHasState'
  <2>1. registry' = NoEngine
    BY <1>8, Sorts, ThrowMoves DEF InitRejects
  <2> QED
    BY <2>1, <1>over
<1>9. ASSUME NEW p \in Launcher, InitTimesOut(p) PROVE RegisteredHasState'
  <2>1. registry' = NoEngine
    BY <1>9, Sorts DEF InitTimesOut
  <2> QED
    BY <2>1, <1>over
<1>10. ASSUME NEW p \in Launcher, InitKilled(p) PROVE RegisteredHasState'
  <2>1. /\ ~excused' => ~excused
        /\ registry' # NoEngine => registry' = registry
        /\ ~mark' /\ row' # "gone" => ~mark /\ row # "gone"
        /\ retry'.timer = "none" => retry.timer = "none"
        /\ UNCHANGED control
    BY <1>10, Sorts, RowMoves DEF InitKilled
  <2> QED
    BY <2>1, <1>kept, <1>k
<1>11. ASSUME NEW p \in Launcher, Reaped(p) PROVE RegisteredHasState'
  <2>1. /\ ~excused' => ~excused
        /\ registry' # NoEngine => registry' = registry
        /\ ~mark' /\ row' # "gone" => ~mark /\ row # "gone"
        /\ retry'.timer = "none" => retry.timer = "none"
        /\ UNCHANGED control
    BY <1>11, Sorts DEF Reaped, Without
  <2> QED
    BY <2>1, <1>kept, <1>k
<1>12. ASSUME NEW p \in Launcher, StatusFails(p) PROVE RegisteredHasState'
  <2>1. registry' = NoEngine
    BY <1>12, Sorts, ThrowMoves DEF StatusFails
  <2> QED
    BY <2>1, <1>over
<1>13. ASSUME NEW p \in Launcher, CheckFails(p) PROVE RegisteredHasState'
  <2>1. excused'
    BY <1>13, Sorts DEF CheckFails
  <2> QED
    BY <2>1, <1>over
<1>14. ASSUME NEW p \in Attempt, TimerFires(p) PROVE RegisteredHasState'
  <2>1. /\ UNCHANGED <<row, mark, control>> /\ (~excused' => ~excused)
        /\ \/ ~owned /\ UNCHANGED registry
           \/ mark
           \/ retry'.timer # "none"
    BY <1>14, TimerMoves
  <2>2. CASE ~owned /\ UNCHANGED registry
    BY <2>1, <2>2, <1>k DEF UnownedIsRemoved, RegisteredHasState
  <2> QED
    BY <2>1, <2>2, <1>over
<1>15. ASSUME NEW p \in Attempt, AttemptBuilds(p) PROVE RegisteredHasState'
  <2>1. excused' \/ mark' \/ row' = "gone" \/ registry' = NoEngine \/ retry'.timer # "none"
    BY <1>15, Sorts, AttemptMoves DEF DestroyIsSpent
  <2> QED
    BY <2>1, <1>over
<1>16. ASSUME NEW c \in Control, NEW kind \in {"stop", "kill", "delete"}, Request(c, kind)
       PROVE  RegisteredHasState'
  <2>1. /\ ~excused' => ~excused
        /\ registry' # NoEngine => registry' = registry
        /\ ~mark' /\ row' # "gone" => ~mark /\ row # "gone"
        /\ retry'.timer = "none" => retry.timer = "none"
    BY <1>16, Sorts DEF Request, local
  <2>2. \A e \in Engine : TakenDown(e) /\ registry' = e => TakenDown(e)'
    BY <1>16, ControlCells, Sorts DEF Request, TakenDown, AtRest
  <2> QED
    BY <2>1, <2>2, <1>kept
<1>17. ASSUME NEW c \in Control, Refused(c) PROVE RegisteredHasState'
  <2>1. /\ ~excused' => ~excused
        /\ registry' # NoEngine => registry' = registry
        /\ ~mark' /\ row' # "gone" => ~mark /\ row # "gone"
        /\ retry'.timer = "none" => retry.timer = "none"
    BY <1>17, Sorts DEF Refused
  <2>2. \A e \in Engine : TakenDown(e) /\ registry' = e => TakenDown(e)'
    BY <1>17, ControlCells, Sorts DEF Refused, TakenDown, AtRest
  <2> QED
    BY <2>1, <2>2, <1>kept
<1>18. ASSUME NEW c \in Control, Capture(c) PROVE RegisteredHasState'
  <2>1. mark'
    BY <1>18, Sorts DEF Capture
  <2> QED
    BY <2>1, <1>over
<1>19. ASSUME NEW c \in Control, TornDown(c) PROVE RegisteredHasState'
  <2>1. /\ ~excused' => ~excused
        /\ registry' # NoEngine => registry' = registry
        /\ ~mark' /\ row' # "gone" => ~mark /\ row # "gone"
        /\ retry'.timer = "none" => retry.timer = "none"
    BY <1>19, Sorts, RowMoves DEF TornDown, Without
  <2>2. \A e \in Engine : TakenDown(e) /\ registry' = e => TakenDown(e)'
    BY <1>19, ControlCells, Sorts DEF TornDown, TakenDown, AtRest, Without
  <2> QED
    BY <2>1, <2>2, <1>kept
<1>20. ASSUME NEW c \in Control, Written(c) PROVE RegisteredHasState'
  <2>1. /\ ~excused' => ~excused
        /\ registry' # NoEngine => registry' = registry
        /\ ~mark' /\ row' # "gone" => ~mark /\ row # "gone"
        /\ retry'.timer = "none" => retry.timer = "none"
    BY <1>20, Sorts, RowMoves DEF Written
  <2>2. \A e \in Engine : TakenDown(e) /\ registry' = e => TakenDown(e)'
    BY <1>20, ControlCells, Sorts DEF Written, TakenDown, AtRest
  <2> QED
    BY <2>1, <2>2, <1>kept
<1>21. ASSUME NEW c \in Control, Cleared(c) PROVE RegisteredHasState'
  <2>1. row' = "gone"
    BY <1>21, Sorts DEF Cleared, ControlsHold
  <2> QED
    BY <2>1, <1>over
<1>22. ASSUME NEW c \in Control, DeleteFails(c) PROVE RegisteredHasState'
  <2>1. excused'
    BY <1>22, Sorts DEF DeleteFails
  <2> QED
    BY <2>1, <1>over
<1>23. ASSUME NEW c \in Control, LoseLease(c) PROVE RegisteredHasState'
  <2>1. mark'
    BY <1>23, Sorts DEF LoseLease
  <2> QED
    BY <2>1, <1>over
<1>24. ASSUME NEW c \in Control, NEW e \in Engine, Rebind(e, c) PROVE RegisteredHasState'
  <2>1. mark'
    BY <1>24, Sorts DEF Rebind
  <2> QED
    BY <2>1, <1>over
<1>25. ASSUME NEW e \in Engine, Ready(e) PROVE RegisteredHasState'
  <2>1. /\ ~excused' => ~excused
        /\ registry' # NoEngine => registry' = registry
        /\ ~mark' /\ row' # "gone" => ~mark /\ row # "gone"
        /\ retry'.timer = "none" => retry.timer = "none"
        /\ UNCHANGED control
    BY <1>25, Sorts, RetryCells, RowMoves DEF Ready
  <2> QED
    BY <2>1, <1>kept, <1>k
<1>26. ASSUME NEW e \in Engine, Errs(e) PROVE RegisteredHasState'
  <2>1. registry' = NoEngine
    BY <1>26, Sorts DEF Errs
  <2> QED
    BY <2>1, <1>over
<1>27. ASSUME NEW e \in Engine, Reported(e) PROVE RegisteredHasState'
  <2>1. /\ UNCHANGED <<mark, control>> /\ (~excused' => ~excused) /\ (row = "gone" <=> row' = "gone")
        /\ \/ UNCHANGED <<registry, retry>>
           \/ registry = e /\ retry.timer = "none" /\ UNCHANGED registry
           \/ registry' = NoEngine
           \/ retry'.timer # "none"
    BY <1>27, ReportMoves
  <2>2. CASE UNCHANGED <<registry, retry>>
    BY <2>1, <2>2, <1>kept, <1>k
  <2>3. CASE registry = e /\ retry.timer = "none" /\ UNCHANGED registry
    BY <2>1, <2>3, <1>k DEF RegisteredHasState
  <2> QED
    BY <2>1, <2>2, <2>3, <1>over
<1>28. ASSUME NEW e \in Engine, ReportFails(e) PROVE RegisteredHasState'
  <2>1. excused'
    BY <1>28, Sorts DEF ReportFails
  <2> QED
    BY <2>1, <1>over
<1>29. CASE UNCHANGED vars
  BY <1>same, <1>29 DEF vars, local
<1> QED
  BY <1>1, <1>2, <1>3, <1>4, <1>5, <1>6, <1>7, <1>8, <1>9, <1>10, <1>11, <1>12, <1>13, <1>14,
     <1>15, <1>16, <1>17, <1>18, <1>19, <1>20, <1>21, <1>22, <1>23, <1>24, <1>25, <1>26, <1>27,
     <1>28, <1>29 DEF Next, Starts, Launch, Retirement

(* A drop is handed from the report to the timer, and from the timer to    *)
(* the attempt.                                                            *)
LEMMA PendingInductive ==
  ASSUME TypeOK, ControlsHold, HeldIsOut, EvictedIsEmpty, UnownedIsRemoved, RegisteredHasState,
         DroppedIsPending, [Next]_vars
  PROVE  DroppedIsPending'
<1>k. UNCHANGED control => \A e : ControlHolds(e)' <=> ControlHolds(e)
  BY DEF ControlHolds
<1>j. UNCHANGED launch => \A e : LaunchHolds(e)' <=> LaunchHolds(e)
  BY DEF LaunchHolds, At, On
<1>l. \A p \in Launcher : Others(p) /\ At(p) \notin Holding => \A e : LaunchHolds(e) => LaunchHolds(e)'
  BY DEF LaunchHolds, Others
<1>v. \A p \in Launcher : Others(p) => \A e : e # On(p) => (LaunchHolds(e) => LaunchHolds(e)')
  BY DEF LaunchHolds, Others
<1>r. \A p \in Launcher : At(p)' \in Holding => LaunchHolds(On(p))'
  BY DEF LaunchHolds
<1>kept. ASSUME ~excused' => ~excused, registry' # NoEngine => registry' = registry,
             ~mark' /\ row' # "gone" => ~mark /\ row # "gone",
             UNCHANGED reports, UNCHANGED retry,
             \A k \in Engine : engine'[k] = "dropped" => engine[k] = "dropped",
             \A k \in Engine : registry' = k => (ControlHolds(k) => ControlHolds(k)'),
             \A k \in Engine : registry' = k => (LaunchHolds(k) => LaunchHolds(k)')
      PROVE  DroppedIsPending'
  BY <1>kept, Sorts DEF DroppedIsPending
<1>over. ASSUME excused' \/ mark' \/ row' = "gone" \/ registry' = NoEngine \/ retry'.timer = "armed"
      PROVE  DroppedIsPending'
  BY <1>over, Sorts DEF DroppedIsPending
<1>held. \A e \in Engine : TakenDown(e) => ControlHolds(e)
  BY DEF TakenDown, ControlHolds
<1>same. ASSUME UNCHANGED <<registry, engine, mark, row, excused, reports, retry, launch, control>>
         PROVE  DroppedIsPending'
  BY <1>same DEF DroppedIsPending, LaunchHolds, ControlHolds, At, On
<1>1. ASSUME StartTwice PROVE DroppedIsPending'
  BY <1>same, <1>1 DEF StartTwice, local
<1>2. ASSUME StartRequested PROVE DroppedIsPending'
  <2>1. /\ ~excused' => ~excused
        /\ registry' # NoEngine => registry' = registry
        /\ ~mark' /\ row' # "gone" => ~mark /\ row # "gone"
        /\ UNCHANGED <<reports, retry>>
        /\ \A k \in Engine : engine'[k] = "dropped" => engine[k] = "dropped"
        /\ UNCHANGED control /\ Others(Start) /\ At(Start) \notin Holding
    BY <1>2, Sorts, LaunchMoves DEF StartRequested, Starting, Holding, At
  <2> QED
    BY <2>1, Sorts, <1>kept, <1>k, <1>l
<1>3. ASSUME StartRefused PROVE DroppedIsPending'
  <2>1. /\ ~excused' => ~excused
        /\ registry' # NoEngine => registry' = registry
        /\ ~mark' /\ row' # "gone" => ~mark /\ row # "gone"
        /\ UNCHANGED <<reports, retry>>
        /\ \A k \in Engine : engine'[k] = "dropped" => engine[k] = "dropped"
        /\ UNCHANGED control /\ Others(Start) /\ At(Start) \notin Holding
    BY <1>3, Sorts, LaunchMoves DEF StartRefused, Holding, At
  <2> QED
    BY <2>1, Sorts, <1>kept, <1>k, <1>l
<1>4. ASSUME StartAccepted PROVE DroppedIsPending'
  <2>1. registry' = NoEngine
    BY <1>4, Sorts DEF StartAccepted, local
  <2> QED
    BY <2>1, <1>over
<1>5. ASSUME StartBuilds PROVE DroppedIsPending'
  <2>1. /\ UNCHANGED engine
        /\ registry' = NoEngine \/ (registry' \in Engine /\ engine[registry'] = "down")
    BY <1>5, Sorts, BuildMoves DEF Fresh, Alive
  <2> QED
    BY <2>1, <1>over DEF DroppedIsPending
<1>6. ASSUME StartEvicted PROVE DroppedIsPending'
  <2>1. excused' \/ registry' = NoEngine
    BY <1>6, Sorts DEF StartEvicted, EvictedIsEmpty, At
  <2> QED
    BY <2>1, <1>over
<1>7. ASSUME NEW p \in Launcher, StatusWritten(p) PROVE DroppedIsPending'
  <2>1. /\ UNCHANGED <<excused, mark, retry, registry, reports, control>> /\ (row = "gone" <=> row' = "gone")
        /\ At(p) \notin Holding /\ Others(p)
        /\ \A k \in Engine : engine'[k] = "dropped" => engine[k] = "dropped"
    BY <1>7, StatusMoves DEF Holding
  <2> QED
    BY <2>1, <1>kept, <1>k, <1>l
<1>8. ASSUME NEW p \in Launcher, InitRejects(p) PROVE DroppedIsPending'
  <2>1. registry' = NoEngine
    BY <1>8, Sorts, ThrowMoves DEF InitRejects
  <2> QED
    BY <2>1, <1>over
<1>9. ASSUME NEW p \in Launcher, InitResolves(p) PROVE DroppedIsPending'
  <2>1. /\ ~excused' => ~excused
        /\ registry' # NoEngine => registry' = registry
        /\ ~mark' /\ row' # "gone" => ~mark /\ row # "gone"
        /\ UNCHANGED <<reports, retry>>
        /\ \A k \in Engine : engine'[k] = "dropped" => engine[k] = "dropped"
        /\ UNCHANGED control /\ Others(p) /\ At(p) \notin Holding
    BY <1>9, Sorts, ReturnMoves DEF InitResolves, Holding, At
  <2> QED
    BY <2>1, Sorts, <1>kept, <1>k, <1>l
<1>10. ASSUME NEW p \in Launcher, InitTimesOut(p) PROVE DroppedIsPending'
  <2>1. registry' = NoEngine
    BY <1>10, Sorts DEF InitTimesOut
  <2> QED
    BY <2>1, <1>over
<1>11. ASSUME NEW p \in Launcher, InitKilled(p) PROVE DroppedIsPending'
  <2>1. /\ ~excused' => ~excused
        /\ registry' # NoEngine => registry' = registry
        /\ ~mark' /\ row' # "gone" => ~mark /\ row # "gone"
        /\ UNCHANGED <<reports, retry>>
        /\ \A k \in Engine : engine'[k] = "dropped" => engine[k] = "dropped"
        /\ UNCHANGED control /\ Others(p) /\ registry' # On(p)
    BY <1>11, Sorts, LaunchMoves, EngineMoves, RowMoves DEF InitKilled, HeldIsOut, At, On
  <2> QED
    BY <2>1, Sorts, <1>kept, <1>k, <1>v
<1>12. ASSUME NEW p \in Launcher, Check(p) PROVE DroppedIsPending'
  <2>1. /\ ~excused' => ~excused
        /\ registry' # NoEngine => registry' = registry
        /\ ~mark' /\ row' # "gone" => ~mark /\ row # "gone"
        /\ UNCHANGED <<reports, retry>>
        /\ \A k \in Engine : engine'[k] = "dropped" => engine[k] = "dropped"
        /\ UNCHANGED control /\ Others(p) /\ At(p) \notin Holding
    BY <1>12, Sorts, ReturnMoves DEF Check, Holding, At
  <2> QED
    BY <2>1, Sorts, <1>kept, <1>k, <1>l
<1>13. ASSUME NEW p \in Launcher, Reaped(p) PROVE DroppedIsPending'
  <2>1. /\ ~excused' => ~excused
        /\ registry' # NoEngine => registry' = registry
        /\ ~mark' /\ row' # "gone" => ~mark /\ row # "gone"
        /\ UNCHANGED <<reports, retry>>
        /\ \A k \in Engine : engine'[k] = "dropped" => engine[k] = "dropped"
        /\ UNCHANGED control /\ Others(p) /\ registry' # On(p)
    BY <1>13, Sorts, LaunchMoves, EngineMoves DEF Reaped, Without, HeldIsOut, At, On
  <2> QED
    BY <2>1, Sorts, <1>kept, <1>k, <1>v
<1>14. ASSUME NEW p \in Launcher, StatusFails(p) PROVE DroppedIsPending'
  <2>1. registry' = NoEngine
    BY <1>14, Sorts, ThrowMoves DEF StatusFails
  <2> QED
    BY <2>1, <1>over
<1>15. ASSUME NEW p \in Launcher, CheckFails(p) PROVE DroppedIsPending'
  <2>1. excused'
    BY <1>15, Sorts DEF CheckFails
  <2> QED
    BY <2>1, <1>over
<1>16. ASSUME NEW p \in Attempt, TimerFires(p) PROVE DroppedIsPending'
  <2>1. /\ UNCHANGED <<row, mark, control, engine>> /\ (~excused' => ~excused)
        /\ \/ ~owned /\ UNCHANGED registry
           \/ mark
           \/ registry' \in Engine /\ engine[registry'] = "down"
           \/ UNCHANGED registry /\ At(p)' = "destroy" /\ On(p)' = registry
    BY <1>16, TimerMoves DEF Fresh, Alive
  <2>2. CASE ~owned /\ UNCHANGED registry
    BY <2>1, <2>2, <1>k, <1>held DEF UnownedIsRemoved, DroppedIsPending
  <2>3. CASE registry' \in Engine /\ engine[registry'] = "down"
    BY <2>1, <2>3 DEF DroppedIsPending
  <2>4. CASE UNCHANGED registry /\ At(p)' = "destroy" /\ On(p)' = registry
    BY <2>4, <1>r, Sorts DEF Holding, DroppedIsPending
  <2> QED
    BY <2>1, <2>2, <2>3, <2>4, <1>over
<1>17. ASSUME NEW p \in Attempt, AttemptBuilds(p) PROVE DroppedIsPending'
  <2>1. /\ \A k \in Engine : engine'[k] \in {engine[k], "down", "doomed"}
        /\ registry' = NoEngine \/ (registry' \in Engine /\ engine[registry'] = "down")
    BY <1>17, AttemptMoves DEF Fresh, Alive
  <2> QED
    BY <2>1, <1>over DEF DroppedIsPending
<1>18. ASSUME NEW c \in Control, NEW kind \in {"stop", "kill", "delete"}, Request(c, kind)
       PROVE  DroppedIsPending'
  <2>1. /\ ~excused' => ~excused
        /\ registry' # NoEngine => registry' = registry
        /\ ~mark' /\ row' # "gone" => ~mark /\ row # "gone"
        /\ UNCHANGED <<reports, retry>>
        /\ \A k \in Engine : engine'[k] = "dropped" => engine[k] = "dropped"
        /\ UNCHANGED launch
    BY <1>18, Sorts DEF Request, local
  <2>2. \A k \in Engine : registry' = k => (ControlHolds(k) => ControlHolds(k)')
    BY <1>18, ControlCells, Sorts DEF Request, ControlHolds, ControlsHold, AtRest
  <2> QED
    BY <2>1, <2>2, <1>kept, <1>j
<1>19. ASSUME NEW c \in Control, Refused(c) PROVE DroppedIsPending'
  <2>1. /\ ~excused' => ~excused
        /\ registry' # NoEngine => registry' = registry
        /\ ~mark' /\ row' # "gone" => ~mark /\ row # "gone"
        /\ UNCHANGED <<reports, retry>>
        /\ \A k \in Engine : engine'[k] = "dropped" => engine[k] = "dropped"
        /\ UNCHANGED launch
    BY <1>19, Sorts DEF Refused
  <2>2. \A k \in Engine : registry' = k => (ControlHolds(k) => ControlHolds(k)')
    BY <1>19, ControlCells, Sorts DEF Refused, ControlHolds, ControlsHold, AtRest
  <2> QED
    BY <2>1, <2>2, <1>kept, <1>j
<1>20. ASSUME NEW c \in Control, Capture(c) PROVE DroppedIsPending'
  <2>1. mark'
    BY <1>20, Sorts DEF Capture
  <2> QED
    BY <2>1, <1>over
<1>21. ASSUME NEW c \in Control, TornDown(c) PROVE DroppedIsPending'
  <2>1. /\ ~excused' => ~excused
        /\ registry' # NoEngine => registry' = registry
        /\ ~mark' /\ row' # "gone" => ~mark /\ row # "gone"
        /\ UNCHANGED <<reports, retry>>
        /\ \A k \in Engine : engine'[k] = "dropped" => engine[k] = "dropped"
        /\ UNCHANGED launch
    BY <1>21, Sorts, RowMoves, EngineMoves DEF TornDown, Without
  <2>2. \A k \in Engine : registry' = k => (ControlHolds(k) => ControlHolds(k)')
    BY <1>21, ControlCells, Sorts DEF TornDown, ControlHolds, ControlsHold, AtRest, Without
  <2> QED
    BY <2>1, <2>2, <1>kept, <1>j
<1>22. ASSUME NEW c \in Control, Written(c) PROVE DroppedIsPending'
  <2>1. /\ ~excused' => ~excused
        /\ registry' # NoEngine => registry' = registry
        /\ ~mark' /\ row' # "gone" => ~mark /\ row # "gone"
        /\ UNCHANGED <<reports, retry>>
        /\ \A k \in Engine : engine'[k] = "dropped" => engine[k] = "dropped"
        /\ UNCHANGED launch
    BY <1>22, Sorts, RowMoves DEF Written
  <2>2. \A k \in Engine : registry' = k => (ControlHolds(k) => ControlHolds(k)')
    BY <1>22, ControlCells, Sorts DEF Written, ControlHolds, ControlsHold, AtRest
  <2> QED
    BY <2>1, <2>2, <1>kept, <1>j
<1>23. ASSUME NEW c \in Control, Cleared(c) PROVE DroppedIsPending'
  <2>1. row' = "gone"
    BY <1>23, Sorts DEF Cleared, ControlsHold
  <2> QED
    BY <2>1, <1>over
<1>24. ASSUME NEW c \in Control, DeleteFails(c) PROVE DroppedIsPending'
  <2>1. excused'
    BY <1>24, Sorts DEF DeleteFails
  <2> QED
    BY <2>1, <1>over
<1>25. ASSUME NEW c \in Control, LoseLease(c) PROVE DroppedIsPending'
  <2>1. mark'
    BY <1>25, Sorts DEF LoseLease
  <2> QED
    BY <2>1, <1>over
<1>26. ASSUME NEW c \in Control, NEW e \in Engine, Rebind(e, c) PROVE DroppedIsPending'
  <2>1. mark'
    BY <1>26, Sorts DEF Rebind
  <2> QED
    BY <2>1, <1>over
<1>27. ASSUME NEW e \in Engine, Ready(e) PROVE DroppedIsPending'
  <2>1. /\ UNCHANGED <<excused, mark, registry, reports, launch, control>> /\ retry'.timer = retry.timer
        /\ row' # "gone" => row # "gone"
        /\ \A k \in Engine : engine'[k] = "dropped" => engine[k] = "dropped"
    BY <1>27, RetryCells, RowMoves, EngineCells DEF Ready
  <2> QED
    BY <2>1, <1>k, <1>j DEF DroppedIsPending
<1>28. ASSUME NEW e \in Engine, Drops(e) PROVE DroppedIsPending'
  <2>1. /\ UNCHANGED <<excused, mark, row, registry, retry, launch, control>>
        /\ \A k \in Engine : k # e => engine'[k] = engine[k]
        /\ reports \subseteq reports'
        /\ registry = e /\ owned => e \in reports'
        /\ ~ControlHolds(e)
    BY <1>28, EngineCells DEF Drops, TearingDown, ControlHolds
  <2>2. registry = e /\ row # "gone" => e \in reports'
    BY <2>1, <1>held DEF UnownedIsRemoved
  <2> QED
    BY <2>1, <2>2, <1>k, <1>j DEF DroppedIsPending
<1>29. ASSUME NEW e \in Engine, GoesMute(e) PROVE DroppedIsPending'
  <2>1. /\ ~excused' => ~excused
        /\ registry' # NoEngine => registry' = registry
        /\ ~mark' /\ row' # "gone" => ~mark /\ row # "gone"
        /\ UNCHANGED <<reports, retry>>
        /\ \A k \in Engine : engine'[k] = "dropped" => engine[k] = "dropped"
        /\ UNCHANGED <<launch, control>>
    BY <1>29, Sorts, EngineCells DEF GoesMute
  <2> QED
    BY <2>1, <1>kept, <1>k, <1>j
<1>30. ASSUME NEW e \in Engine, Watchdog(e) PROVE DroppedIsPending'
  <2>1. /\ UNCHANGED <<excused, mark, row, engine, registry, retry, launch, control>>
        /\ reports \subseteq reports'
    BY <1>30 DEF Watchdog, local
  <2> QED
    BY <2>1, <1>k, <1>j DEF DroppedIsPending
<1>31. ASSUME NEW e \in Engine, Errs(e) PROVE DroppedIsPending'
  <2>1. registry' = NoEngine
    BY <1>31, Sorts DEF Errs
  <2> QED
    BY <2>1, <1>over
<1>32. ASSUME NEW e \in Engine, Reported(e) PROVE DroppedIsPending'
  <2>1. /\ UNCHANGED <<mark, launch, control>> /\ (~excused' => ~excused) /\ (row = "gone" <=> row' = "gone")
        /\ reports' = reports \ {e}
        /\ \/ UNCHANGED <<registry, engine, retry>> /\ (registry # e \/ ~owned \/ row = "gone")
           \/ registry = e /\ retry.timer = "none" /\ UNCHANGED <<registry, engine>>
           \/ registry' = NoEngine
           \/ retry'.timer = "armed"
    BY <1>32, ReportMoves
  <2>2. CASE UNCHANGED <<registry, engine, retry>> /\ (registry # e \/ ~owned \/ row = "gone")
    <3>1. registry = e /\ row # "gone" => ControlHolds(e)
      BY <2>2, <1>held DEF UnownedIsRemoved
    <3> QED
      BY <2>1, <2>2, <3>1, <1>k, <1>j DEF DroppedIsPending
  <2>3. CASE registry = e /\ retry.timer = "none" /\ UNCHANGED <<registry, engine>>
    <3>1. ~excused /\ ~mark /\ row # "gone" => ControlHolds(e)
      BY <2>3, <1>held DEF RegisteredHasState
    <3> QED
      BY <2>1, <2>3, <3>1, <1>k DEF DroppedIsPending
  <2> QED
    BY <2>1, <2>2, <2>3, <1>over
<1>33. ASSUME NEW e \in Engine, ReportFails(e) PROVE DroppedIsPending'
  <2>1. excused'
    BY <1>33, Sorts DEF ReportFails
  <2> QED
    BY <2>1, <1>over
<1>34. ASSUME NEW e \in Engine, DoomedDies(e) PROVE DroppedIsPending'
  <2>1. /\ ~excused' => ~excused
        /\ registry' # NoEngine => registry' = registry
        /\ ~mark' /\ row' # "gone" => ~mark /\ row # "gone"
        /\ UNCHANGED <<reports, retry>>
        /\ \A k \in Engine : engine'[k] = "dropped" => engine[k] = "dropped"
        /\ UNCHANGED <<launch, control>>
    BY <1>34, Sorts, EngineMoves DEF DoomedDies
  <2> QED
    BY <2>1, <1>kept, <1>k, <1>j
<1>35. CASE UNCHANGED vars
  BY <1>same, <1>35 DEF vars, local
<1> QED
  BY <1>1, <1>2, <1>3, <1>4, <1>5, <1>6, <1>7, <1>8, <1>9, <1>10, <1>11, <1>12, <1>13, <1>14,
     <1>15, <1>16, <1>17, <1>18, <1>19, <1>20, <1>21, <1>22, <1>23, <1>24, <1>25, <1>26, <1>27,
     <1>28, <1>29, <1>30, <1>31, <1>32, <1>33, <1>34, <1>35 DEF Next, Starts, Launch, Retirement

-----------------------------------------------------------------------------
(* The theorems.                                                           *)

LEMMA HandsInit == Init => HandsInv
<1> SUFFICES ASSUME Init
             PROVE  HandsInv
  OBVIOUS
<1>1. TypeOK
  <2>1. NoRetry \in [timer: TimerStates, attempts: 0..MaxAttempts]
    BY ConstantsAssumption DEF NoRetry, TimerStates
  <2>2. Rest \in [at: LaunchStates, on: Engine \cup {NoEngine}]
    BY DEF Rest, LaunchStates
  <2>3. AtRest \in [at: ControlStates, kind: Kinds, on: Engine \cup {NoEngine}]
    BY DEF AtRest, ControlStates, Kinds
  <2>4. row \in Statuses /\ engine \in [Engine -> EngineStates]
    BY DEF Init, Statuses, EngineStates
  <2> QED
    BY <2>1, <2>2, <2>3, <2>4 DEF Init, TypeOK
<1>2. /\ registry = NoEngine /\ NoEngine \notin Engine /\ reports = {} /\ row = "DISCONNECTED" /\ ~mark
      /\ \A c \in Control : control[c].at = "idle" /\ control[c].on = NoEngine
      /\ \A p \in Launcher : At(p) = "idle"
  BY ConstantsAssumption DEF Init, Rest, AtRest, At
<1>3. ControlsHold
  BY <1>2 DEF ControlsHold, Deletes
<1>4. StatusIsNew /\ HeldIsOut
  BY <1>2 DEF StatusIsNew, HeldIsOut
<1>5. RegisteredIsUp /\ ReportsAreLate /\ UnownedIsRemoved /\ MarkedIsRemoved
  BY <1>2 DEF RegisteredIsUp, ReportsAreLate, UnownedIsRemoved, MarkedIsRemoved
<1> QED
  BY <1>1, <1>3, <1>4, <1>5 DEF HandsInv

LEMMA RestInit == Init => RemovedInv /\ AloneInv
<1>1. ASSUME Init
      PROVE  /\ registry = NoEngine /\ row = "DISCONNECTED" /\ NoEngine \notin Engine
             /\ \A e \in Engine : engine[e] = "down"
             /\ \A c \in Control : control[c].at = "idle"
             /\ \A p \in Launcher : At(p) = "idle"
             /\ \A p \in Attempt : At(p) = "idle"
             /\ At(Start) = "idle"
  BY <1>1, ConstantsAssumption DEF Init, Rest, AtRest, At, Launcher
<1>2. Init => RemovedInv
  BY <1>1 DEF RemovedInv, DeletingRemoves, GoneIsRemoved
<1>3. Init => StartsHold
  BY <1>1 DEF StartsHold, OneAttempt, StartIsAlone, EvictedIsEmpty, FailedIsEmpty, HookIsClear,
     StatusIsClear, DestroyKeeps, InitKeeps, StartKeeps
<1>4. Init => EnginesHold
  BY <1>1 DEF EnginesHold, StartOrphansNothing, Alive, ArmedIsDropped, DestroyIsSpent, RegisteredHasState,
     DroppedIsPending
<1> QED
  BY <1>2, <1>3, <1>4 DEF AloneInv

LEMMA HandsInductive == HandsInv /\ [Next]_vars => HandsInv'
  BY TypeInductive, ControlsInductive, StatusInductive, HeldInductive, ReportsInductive, UnownedInductive,
     MarkedInductive DEF HandsInv

LEMMA RemovedInductive == HandsInv /\ RemovedInv /\ [Next]_vars => RemovedInv'
<1> SUFFICES ASSUME HandsInv, RemovedInv, [Next]_vars, "delete" \notin beside'
             PROVE  DeletingRemoves' /\ GoneIsRemoved'
  BY DEF RemovedInv
<1>1. TypeOK /\ ControlsHold
  BY DEF HandsInv
<1>2. DeletingRemoves /\ GoneIsRemoved
  BY <1>1, BesideGrows DEF RemovedInv
<1> QED
  BY <1>1, <1>2, DeletingInductive, GoneInductive

LEMMA AloneInductive == HandsInv /\ AloneInv /\ [Next]_vars => AloneInv'
<1> SUFFICES ASSUME HandsInv, AloneInv, [Next]_vars, "attempt" \notin beside'
             PROVE  StartsHold' /\ EnginesHold'
  BY DEF AloneInv, Overtaken
<1>1. /\ TypeOK /\ ControlsHold /\ StatusIsNew /\ HeldIsOut /\ RegisteredIsUp /\ ReportsAreLate
      /\ UnownedIsRemoved
  BY DEF HandsInv
<1>2. StartsHold /\ EnginesHold
  BY <1>1, BesideGrows DEF AloneInv, Overtaken
<1>3. /\ OneAttempt /\ StartIsAlone /\ EvictedIsEmpty /\ FailedIsEmpty /\ HookIsClear
      /\ StatusIsClear /\ DestroyKeeps /\ InitKeeps /\ StartKeeps
  BY <1>2 DEF StartsHold
<1>4. StartOrphansNothing /\ ArmedIsDropped /\ DestroyIsSpent /\ RegisteredHasState /\ DroppedIsPending
  BY <1>2 DEF EnginesHold
<1>5. OneAttempt' /\ StartIsAlone' /\ EvictedIsEmpty' /\ FailedIsEmpty' /\ HookIsClear'
  BY <1>1, <1>3, OneInductive, StartInductive, EvictedInductive, FailedInductive, HookInductive
<1>6. StatusIsClear' /\ DestroyKeeps' /\ InitKeeps' /\ StartKeeps'
  BY <1>1, <1>3, ClearInductive, DestroyInductive, InitInductive, KeepsInductive
<1>7. StartOrphansNothing'
  BY <1>1, <1>3, <1>4, OrphanInductive
<1>8. ArmedIsDropped' /\ DestroyIsSpent'
  BY <1>1, <1>3, <1>4, ArmedInductive, SpentInductive
<1>9. RegisteredHasState' /\ DroppedIsPending'
  BY <1>1, <1>3, <1>4, StateInductive, PendingInductive
<1> QED
  BY <1>5, <1>6, <1>7, <1>8, <1>9 DEF StartsHold, EnginesHold

LEMMA Invariance == Spec => []IInv
<1>1. Init => IInv
  BY HandsInit, RestInit DEF IInv
<1>2. IInv /\ [Next]_vars => IInv'
  BY HandsInductive, RemovedInductive, AloneInductive DEF IInv
<1> QED
  BY <1>1, <1>2, PTL DEF Spec

(* Every reachable state is well-typed. *)
THEOREM TypeCorrect == Spec => []TypeOK
<1>1. IInv => TypeOK
  BY DEF IInv, HandsInv
<1> QED
  BY <1>1, Invariance, PTL

(* A session that carries the stop mark has no engine once every call is   *)
(* over, however its starts, attempts, stops and deletes overlapped.       *)
THEOREM MarkedIsDownAlways == Spec => [](Quiet /\ mark => registry = NoEngine)
<1>1. ASSUME IInv, Quiet, mark
      PROVE  registry = NoEngine
  <2>1. TypeOK /\ MarkedIsRemoved
    BY <1>1 DEF IInv, HandsInv
  <2>2. \A e \in Engine : ~TakenDown(e) /\ ~Entering /\ ~LaunchSees(e)
    BY <1>1 DEF Quiet, Rest, AtRest, TakenDown, Entering, LaunchSees, At
  <2> QED
    BY <1>1, <2>1, <2>2 DEF MarkedIsRemoved, TypeOK
<1> QED
  BY <1>1, Invariance, PTL

(* A session that was stopped or killed has no engine once every call is   *)
(* over, and neither has a deleted one unless a start was accepted while   *)
(* delete() worked.                                                        *)
THEOREM StoppedIsDownAlways == Spec => []StoppedIsDown
<1>1. ASSUME IInv
      PROVE  StoppedIsDown
  <2>1. /\ TypeOK /\ MarkedIsRemoved
        /\ "delete" \notin beside => GoneIsRemoved
    BY <1>1 DEF IInv, HandsInv, RemovedInv
  <2>2. Quiet => \A e \in Engine : ~TakenDown(e) /\ ~Entering /\ ~LaunchSees(e) /\ ~Checking
    BY DEF Quiet, Rest, AtRest, TakenDown, Entering, LaunchSees, Checking, At
  <2> QED
    BY <2>1, <2>2 DEF MarkedIsRemoved, GoneIsRemoved, StoppedIsDown, TypeOK
<1> QED
  BY <1>1, Invariance, PTL

(* A session left FAILED has no engine that stands in the way of a start,  *)
(* unless an attempt was overtaken.                                        *)
THEOREM FailedIsStartableAlways == Spec => []FailedIsStartable
<1>1. ASSUME IInv
      PROVE  FailedIsStartable
  <2>1. TypeOK /\ (~Overtaken => FailedIsEmpty)
    BY <1>1 DEF IInv, HandsInv, AloneInv, StartsHold
  <2>2. Quiet => \A p \in Launcher : At(p) # "status"
    BY DEF Quiet, Rest, At
  <2> QED
    BY <2>1, <2>2 DEF FailedIsEmpty, FailedIsStartable, TypeOK
<1> QED
  BY <1>1, Invariance, PTL

(* Until an attempt is overtaken no engine is left running that is not in  *)
(* the registry and that no call will see to.                              *)
THEOREM NoOrphanAlways == Spec => []NoOrphan
<1>1. IInv => NoOrphan
  BY DEF IInv, AloneInv, EnginesHold, StartOrphansNothing, NoOrphan
<1> QED
  BY <1>1, Invariance, PTL

(* Until an attempt is overtaken the lease covers every engine that runs   *)
(* and that no call takes down.                                            *)
THEOREM LeaseCoversAlways == Spec => []LeaseCovers
<1>1. ASSUME IInv
      PROVE  LeaseCovers
  <2>1. TypeOK /\ UnownedIsRemoved /\ (~Overtaken => StartOrphansNothing)
    BY <1>1 DEF IInv, HandsInv, AloneInv, EnginesHold
  <2>2. \A e \in Engine : TakenDown(e) => Handled(e)
    BY DEF TakenDown, Handled
  <2> QED
    BY <2>1, <2>2 DEF UnownedIsRemoved, StartOrphansNothing, LeaseCovers, TypeOK
<1> QED
  BY <1>1, Invariance, PTL

(* Until an attempt is overtaken no reconnect is due under a healthy       *)
(* engine, and no attempt destroys one.                                    *)
THEOREM HealthyIsKeptAlways == Spec => []HealthyIsKept
<1>1. ASSUME IInv
      PROVE  HealthyIsKept
  <2>1. ~Overtaken => ArmedIsDropped /\ DestroyIsSpent
    BY <1>1 DEF IInv, AloneInv, EnginesHold
  <2> QED
    BY <2>1 DEF ArmedIsDropped, DestroyIsSpent, HealthyIsKept, At, On
<1> QED
  BY <1>1, Invariance, PTL

(* Until an attempt is overtaken the drop of an engine that should run is  *)
(* reported, has armed the timer, or somebody has the engine in hand.      *)
THEOREM DropIsPendingAlways == Spec => []DropIsPending
<1>1. ASSUME IInv
      PROVE  DropIsPending
  <2>1. ~Overtaken => DroppedIsPending
    BY <1>1 DEF IInv, AloneInv, EnginesHold
  <2>2. \A e \in Engine : LaunchHolds(e) \/ ControlHolds(e) => Handled(e)
    BY DEF LaunchHolds, ControlHolds, Holding, Handled, At, On
  <2> QED
    BY <2>1, <2>2 DEF DroppedIsPending, DropIsPending
<1> QED
  BY <1>1, Invariance, PTL

===============================================================================
