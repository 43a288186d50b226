------------------------ MODULE WebhookDeliveryProofs ------------------------
(***************************************************************************)
(* Proofs about WebhookDelivery, for any number of processes, deliveries,  *)
(* slots, places in the line, retries and faults.                          *)
(*                                                                         *)
(* Three arguments, and a refinement that rests on the last two.  The      *)
(* limiter: the slots of a process are exactly the live runs past Admit    *)
(* and not refused there, because a slot is given back only when its run   *)
(* concludes and nobody is parked, and the parked are exactly the line.    *)
(* The account of a delivery: a run only concludes once there is something *)
(* to show for it, and nothing that can be shown is ever taken back, so    *)
(* the row may be retired whenever the run that retires it gets to do so.  *)
(* The second one needs the bookkeeping to succeed: a failed insert of the *)
(* failure row is logged and no more.  The third one is about rows that    *)
(* were given up on: what is charged to the budget of a row with nothing   *)
(* to show for it is covered by the faults that cut replays off and by the *)
(* replays that still run.                                                 *)
(***************************************************************************)
EXTENDS WebhookDelivery, FiniteSetTheorems, TLAPS

(* TypeOK, but for the sign of a count of slots: that it never goes below  *)
(* zero is a matter of who holds them.                                     *)
Typed ==
  /\ config \in Configs
  /\ row \in [Delivery -> RowStates]
  /\ attempts \in [Delivery -> Nat]
  /\ born \in [Delivery -> Nat]
  /\ failures \in [Delivery -> Nat]
  /\ jobs \subseteq Job
  /\ mode \in [Node -> {"off", "up", "draining", "leaving"}]
  /\ home \in [Delivery -> Node \cup {NoNode}]
  /\ run \in [Run -> RunRecord]
  /\ slots \in [Node -> Int]
  /\ late \subseteq Delivery
  /\ waiters \in [Node -> Seq(Delivery)]
  /\ sweepAt \in [Node -> {"idle", "row", "unsubscribed", "count", "replay"}]
  /\ sweepList \in [Node -> SUBSET Snapshot]
  /\ faults \in Nat
  /\ received \in [Delivery -> BOOLEAN]
  /\ dropped \in [Delivery -> BOOLEAN]
  /\ stalledOut \in [Delivery -> BOOLEAN]

Refusals == {"full", "closed"}

(* A live run is of its own delivery and belongs to a process from its     *)
(* dispatch on; a replay is of some delivery, and is never refused.        *)
RunsWellFormed ==
  /\ \A d \in Delivery : run[d].of = d
  /\ \A d \in Delivery : home[d] = NoNode <=> run[d].at = "idle"
  /\ \A n \in Node : run[n].at \in Delivering \cup {"idle"}
  /\ \A n \in Node : run[n].at # "idle" => run[n].of \in Delivery
  /\ \A n \in Node : run[n].outcome \notin Refusals
  /\ \A d \in Delivery : run[d].outcome \in Refusals => run[d].at \in {"count", "insert", "done"}
  /\ \A w \in Run : run[w].at \in {"count", "insert"} =>
                      run[w].outcome \in Refusals \cup {"failed"}

(* The live runs that hold a slot, and those that wait for one. *)
InSlot(d) == run[d].at \in Delivering /\ run[d].outcome \notin Refusals
Holding(n) == {d \in Delivery : home[d] = n /\ InSlot(d)}
Parked(n) == {d \in Delivery : home[d] = n /\ run[d].at = "parked"}

LimiterWellFormed ==
  \A n \in Node :
    /\ slots[n] = Cardinality(Holding(n))
    /\ slots[n] <= MaxActive
    /\ waiters[n] # <<>> => slots[n] = MaxActive
    /\ ToSet(waiters[n]) = Parked(n)
    /\ IsInjective(waiters[n])
    /\ Len(waiters[n]) <= MaxQueued

(* A run that is about to retire its row has something to show for it. *)
ConcludedIsAccounted ==
  \A w \in Run : run[w].at = "conclude" => Accounted(run[w].of)

-----------------------------------------------------------------------------
(* What a step does to the runs.                                           *)

(* The run w moves on, and no other does. *)
Moved(w, a, t, o) ==
  /\ run' \in [Run -> RunRecord]
  /\ run'[w].at = a
  /\ run'[w].try = t
  /\ run'[w].outcome = o
  /\ run'[w].of = run[w].of
  /\ \A v \in Run \ {w} : run'[v] = run[v]

(* The four forms in which the actions move one run. *)
LEMMA RunMoves ==
  ASSUME run \in [Run -> RunRecord],
         NEW w \in Run, NEW a \in RunStates, NEW t \in Nat, NEW o \in Outcomes
  PROVE  /\ run' = [run EXCEPT ![w].at = a] => Moved(w, a, run[w].try, run[w].outcome)
         /\ run' = [run EXCEPT ![w].at = a, ![w].outcome = o] => Moved(w, a, run[w].try, o)
         /\ run' = [run EXCEPT ![w].at = a, ![w].try = t] => Moved(w, a, t, run[w].outcome)
         /\ run' = [run EXCEPT ![w].try = t] => Moved(w, run[w].at, t, run[w].outcome)
<1>0. run[w] \in RunRecord
  OBVIOUS
<1>1. /\ [run[w] EXCEPT !.at = a] \in RunRecord
      /\ [run[w] EXCEPT !.at = a, !.outcome = o] \in RunRecord
      /\ [run[w] EXCEPT !.at = a, !.try = t] \in RunRecord
      /\ [run[w] EXCEPT !.try = t] \in RunRecord
  BY <1>0 DEF RunRecord
<1>2. ASSUME run' = [run EXCEPT ![w].at = a]
      PROVE  Moved(w, a, run[w].try, run[w].outcome)
  <2>1. run' = [run EXCEPT ![w] = [run[w] EXCEPT !.at = a]]
    BY <1>2
  <2>. QED  BY <2>1, <1>0, <1>1 DEF Moved, RunRecord
<1>3. ASSUME run' = [run EXCEPT ![w].at = a, ![w].outcome = o]
      PROVE  Moved(w, a, run[w].try, o)
  <2>1. run' = [run EXCEPT ![w] = [run[w] EXCEPT !.at = a, !.outcome = o]]
    BY <1>3
  <2>. QED  BY <2>1, <1>0, <1>1 DEF Moved, RunRecord
<1>4. ASSUME run' = [run EXCEPT ![w].at = a, ![w].try = t]
      PROVE  Moved(w, a, t, run[w].outcome)
  <2>1. run' = [run EXCEPT ![w] = [run[w] EXCEPT !.at = a, !.try = t]]
    BY <1>4
  <2>. QED  BY <2>1, <1>0, <1>1 DEF Moved, RunRecord
<1>5. ASSUME run' = [run EXCEPT ![w].try = t]
      PROVE  Moved(w, run[w].at, t, run[w].outcome)
  <2>1. run' = [run EXCEPT ![w] = [run[w] EXCEPT !.try = t]]
    BY <1>5
  <2>. QED  BY <2>1, <1>0, <1>1 DEF Moved, RunRecord
<1>. QED  BY <1>2, <1>3, <1>4, <1>5

(* A run that ends keeps its delivery, and no outcome. *)
LEMMA RunEnds ==
  ASSUME NEW w, run[w] \in RunRecord
  PROVE  /\ Over(w) \in RunRecord
         /\ Over(w).at = "done" /\ Over(w).of = run[w].of
         /\ Over(w).try = 0 /\ Over(w).outcome = "none"
  BY ZenonT(40) DEF Over, RunRecord, RunStates, Outcomes

(* A new job is a job of its delivery. *)
LEMMA AddJobAdds ==
  ASSUME Typed, NEW d \in Delivery, FreeJobIds(d) # {}, AddJob(d)
  PROVE  /\ jobs' \subseteq Job
         /\ \E j \in jobs' : j.of = d
         /\ jobs \subseteq jobs'
<1> DEFINE i == CHOOSE x \in FreeJobIds(d) : TRUE
           j == [id |-> i, of |-> d, at |-> "waiting", on |-> NoNode, made |-> 0, stalls |-> 0]
<1>1. i \in JobId
  BY DEF FreeJobIds
<1>2. j \in Job
  BY <1>1 DEF Job
<1>3. j.of = d
  OBVIOUS
<1>4. jobs' = jobs \cup {j}
  BY DEF AddJob
<1> HIDE DEF j, i
<1>. QED  BY <1>2, <1>3, <1>4 DEF Typed

(* deliverOne() neither takes nor gives a slot: a run it moves keeps the   *)
(* slot it has, or is one that was refused.  It concludes with something   *)
(* to show, if the failure could be recorded.                              *)
LEMMA DeliverStep ==
  ASSUME Typed, RunsWellFormed, NEW w \in Run, Deliver(w)
  PROVE  /\ run[w].of \in Delivery
         /\ run[w].at \in Delivering
         /\ \E a \in RunStates, t \in Nat, o \in Outcomes :
              /\ Moved(w, a, t, o)
              /\ o \in Refusals <=> run[w].outcome \in Refusals
              /\ o \in Refusals \/ run[w].outcome \in Refusals => o = run[w].outcome
              /\ o \in Refusals => a \in {"insert", "done"}
              /\ o \notin Refusals => a \in Delivering
              /\ a \in {"count", "insert"} => o \in Refusals \cup {"failed"}
              /\ ~StoreFails /\ a = "conclude" => Accounted(run[w].of)'
         /\ jobs' \subseteq Job
         /\ failures' \in [Delivery -> Nat]
         /\ faults' \in Nat
         /\ received' \in [Delivery -> BOOLEAN]
         /\ dropped' \in [Delivery -> BOOLEAN]
         /\ UNCHANGED <<config, row, attempts, born, mode, home, limiter, sweepVars, stalledOut>>
<1> DEFINE d == run[w].of
<1>0. /\ run[w] \in RunRecord
      /\ run \in [Run -> RunRecord]
      /\ w \in Delivery \/ w \in Node
      /\ run[w].at \in RunStates /\ run[w].outcome \in Outcomes /\ run[w].try \in Nat
  BY DEF Typed, RunRecord, Run
<1>1. run[w].at \in Delivering
  BY DEF Deliver, Preflight, Enqueue, Post, CountFailures, InsertFailure, Delivering
<1>2. d \in Delivery
  BY <1>0, <1>1 DEF RunsWellFormed, Delivering
<1>3. run[w].at \notin {"count", "insert"} => run[w].outcome \notin Refusals
  BY <1>0, <1>1 DEF RunsWellFormed, Delivering
<1>4. run[w].at \in {"count", "insert"} => run[w].outcome \in Refusals \cup {"failed"}
  BY DEF RunsWellFormed
<1> USE DEF RunStates, Delivering, Outcomes, Refusals
<1>5. CASE Preflight(w)
  <2>1. CASE run' = [run EXCEPT ![w].at = "conclude", ![w].outcome = "cancelled"]
             /\ dropped' = [dropped EXCEPT ![d] = TRUE]
    <3>1. Moved(w, "conclude", run[w].try, "cancelled")
      BY <2>1, <1>0, RunMoves
    <3>2. Accounted(d)'
      BY <2>1, <1>2, <3>1 DEF Accounted, Moved, Typed
    <3>. QED  BY <1>0, <1>1, <1>2, <1>3, <1>5, <2>1, <3>1, <3>2
              DEF Preflight, Typed, tables, limiter, sweepVars, fates
  <2>2. CASE run' = [run EXCEPT ![w].at = "count", ![w].outcome = "failed"]
             /\ UNCHANGED dropped
    <3>1. Moved(w, "count", run[w].try, "failed")
      BY <2>2, <1>0, RunMoves
    <3>. QED  BY <1>0, <1>1, <1>2, <1>3, <1>5, <2>2, <3>1
              DEF Preflight, Typed, tables, limiter, sweepVars, fates
  <2>3. CASE run' = [run EXCEPT ![w].at = IF config.queued THEN "enqueue" ELSE "post", ![w].try = 1]
             /\ UNCHANGED dropped
    <3> DEFINE a == IF config.queued THEN "enqueue" ELSE "post"
    <3>0. a \in {"enqueue", "post"}
      OBVIOUS
    <3>1. Moved(w, a, 1, run[w].outcome)
      <4>1. run' = [run EXCEPT ![w].at = a, ![w].try = 1]
        BY <2>3
      <4> HIDE DEF a
      <4>. QED  BY <4>1, <1>0, <3>0, RunMoves
    <3> HIDE DEF a
    <3>. QED  BY ZenonT(40), <1>0, <1>1, <1>2, <1>3, <1>5, <2>3, <3>0, <3>1
              DEF Preflight, Typed, tables, limiter, sweepVars, fates
  <2>. QED  BY <1>5, <2>1, <2>2, <2>3 DEF Preflight
<1>6. CASE Enqueue(w)
  <2>1. CASE AddJob(d) /\ run' = [run EXCEPT ![w].at = "conclude", ![w].outcome = "enqueued"]
    <3>1. Moved(w, "conclude", run[w].try, "enqueued")
      BY <2>1, <1>0, RunMoves
    <3>2. jobs' \subseteq Job /\ \E j \in jobs' : j.of = d
      BY <2>1, <1>2, <1>6, AddJobAdds DEF Enqueue
    <3>3. Accounted(d)'
      BY <3>1, <3>2 DEF Accounted, Moved
    <3>. QED  BY <1>0, <1>1, <1>2, <1>3, <1>6, <3>1, <3>2, <3>3
              DEF Enqueue, Typed, tables, limiter, sweepVars, fates
  <2>2. CASE (AddJob(d) \/ UNCHANGED jobs) /\ run' = [run EXCEPT ![w].at = "post"]
    <3>1. Moved(w, "post", run[w].try, run[w].outcome)
      BY <2>2, <1>0, RunMoves
    <3>2. jobs' \subseteq Job
      BY <2>2, <1>2, <1>6, AddJobAdds DEF Enqueue, Typed
    <3>. QED  BY <1>0, <1>1, <1>2, <1>3, <1>6, <3>1, <3>2
              DEF Enqueue, Typed, tables, limiter, sweepVars, fates
  <2>. QED  BY <1>6, <2>1, <2>2 DEF Enqueue
<1>7. CASE Post(w)
  <2>0. received' \in [Delivery -> BOOLEAN]
    BY <1>7 DEF Post, Typed
  <2>1. CASE received' = [received EXCEPT ![d] = TRUE]
             /\ run' = [run EXCEPT ![w].at = "conclude", ![w].outcome = "delivered"]
    <3>1. Moved(w, "conclude", run[w].try, "delivered")
      BY <2>1, <1>0, RunMoves
    <3>2. Accounted(d)'
      BY <2>1, <1>2, <3>1 DEF Accounted, Moved, Typed
    <3>. QED  BY <1>0, <1>1, <1>2, <1>3, <1>7, <2>0, <3>1, <3>2
              DEF Post, Typed, tables, limiter, sweepVars, fates
  <2>2. CASE run' = [run EXCEPT ![w].try = @ + 1]
    <3> DEFINE t == run[w].try + 1
    <3>0. t \in Nat /\ run' = [run EXCEPT ![w].try = t]
      BY <2>2, <1>0
    <3> HIDE DEF t
    <3>1. Moved(w, run[w].at, t, run[w].outcome)
      BY <3>0, <1>0, RunMoves
    <3>. QED  BY <1>0, <1>1, <1>2, <1>3, <1>7, <2>0, <3>0, <3>1
              DEF Post, Typed, tables, limiter, sweepVars, fates
  <2>3. CASE run' = [run EXCEPT ![w].at = "count", ![w].outcome = "failed"]
    <3>1. Moved(w, "count", run[w].try, "failed")
      BY <2>3, <1>0, RunMoves
    <3>. QED  BY <1>0, <1>1, <1>2, <1>3, <1>7, <2>0, <3>1
              DEF Post, Typed, tables, limiter, sweepVars, fates
  <2>. QED  BY <1>7, <2>1, <2>2, <2>3 DEF Post
<1>8. AfterRecord(w) = IF run[w].outcome = "failed" THEN "conclude" ELSE "done"
  BY DEF AfterRecord
<1>9. CASE CountFailures(w)
  <2>0. faults' \in Nat
    BY <1>9 DEF CountFailures, QueryFails, Typed
  <2>1. CASE run' = [run EXCEPT ![w].at = "insert"]
    <3>1. Moved(w, "insert", run[w].try, run[w].outcome)
      BY <2>1, <1>0, RunMoves
    <3>. QED  BY <1>0, <1>1, <1>2, <1>4, <1>9, <2>0, <3>1
              DEF CountFailures, Typed, tables, limiter, sweepVars, fates
  <2>2. CASE run' = [run EXCEPT ![w].at = AfterRecord(w)] /\ (failures[d] > 0 \/ QueryFails)
    <3>0. AfterRecord(w) \in RunStates
      BY <1>8
    <3>1. Moved(w, AfterRecord(w), run[w].try, run[w].outcome)
      BY <2>2, <1>0, <3>0, RunMoves
    <3>2. ~StoreFails => Accounted(d)'
      BY <2>2, <3>1, <1>9 DEF Accounted, Moved, QueryFails, CountFailures, tables
    <3>. QED  BY <1>0, <1>1, <1>2, <1>4, <1>8, <1>9, <2>0, <3>0, <3>1, <3>2
              DEF CountFailures, Typed, tables, limiter, sweepVars, fates
  <2>. QED  BY <1>9, <2>1, <2>2 DEF CountFailures
<1>10. CASE InsertFailure(w)
  <2>0. faults' \in Nat /\ failures' \in [Delivery -> Nat]
    <3>1. faults' \in Nat
      BY <1>10 DEF InsertFailure, QueryFails, Typed
    <3>2. \A e \in Delivery : failures[e] + 1 \in Nat
      BY DEF Typed
    <3>3. CASE failures' = [failures EXCEPT ![d] = failures[d] + 1]
      BY <3>1, <3>2, <3>3, <1>2 DEF Typed
    <3>4. CASE UNCHANGED failures
      BY <3>1, <3>4 DEF Typed
    <3>. QED  BY <3>3, <3>4, <1>10 DEF InsertFailure
  <2>1. AfterRecord(w) \in RunStates
    BY <1>8
  <2>2. Moved(w, AfterRecord(w), run[w].try, run[w].outcome)
    BY <1>10, <1>0, <2>1, RunMoves DEF InsertFailure
  <2>3. ~StoreFails => Accounted(d)'
    BY <1>10, <1>2, <2>2 DEF Accounted, Moved, QueryFails, InsertFailure, Typed
  <2>. QED  BY <1>0, <1>1, <1>2, <1>4, <1>8, <1>10, <2>0, <2>1, <2>2, <2>3
            DEF InsertFailure, Typed, tables, limiter, sweepVars, fates
<1>. QED  BY <1>5, <1>6, <1>7, <1>9, <1>10 DEF Deliver
-----------------------------------------------------------------------------
(* The limiter.                                                            *)

WellFormed == Typed /\ RunsWellFormed /\ LimiterWellFormed

(* A step that leaves the slots and the line alone, and moves no live run  *)
(* in or out of either, keeps the limiter well formed.                     *)
LEMMA LimiterFrame ==
  ASSUME LimiterWellFormed, UNCHANGED <<slots, waiters>>,
         \A d \in Delivery :
           /\ InSlot(d)' <=> InSlot(d)
           /\ run'[d].at = "parked" <=> run[d].at = "parked"
           /\ InSlot(d) \/ run[d].at = "parked" => home'[d] = home[d]
  PROVE  LimiterWellFormed'
<1>1. ASSUME NEW n
      PROVE  Holding(n)' = Holding(n) /\ Parked(n)' = Parked(n)
  <2>1. \A d \in Delivery : d \in Holding(n)' <=> d \in Holding(n)
    BY DEF Holding
  <2>2. \A d \in Delivery : d \in Parked(n)' <=> d \in Parked(n)
    BY DEF Parked
  <2>3. Holding(n)' \subseteq Delivery /\ Holding(n) \subseteq Delivery
    BY DEF Holding
  <2>4. Parked(n)' \subseteq Delivery /\ Parked(n) \subseteq Delivery
    BY DEF Parked
  <2>. QED  BY <2>1, <2>2, <2>3, <2>4
<1>. QED  BY <1>1 DEF LimiterWellFormed

(* At first no run is anywhere. *)
LEMMA WellFormedInit == Init => WellFormed
<1> SUFFICES ASSUME Init
             PROVE  WellFormed
  OBVIOUS
<1>1. \A d \in Delivery \cup {NoDelivery} : Fresh(d) \in RunRecord
  BY DEF Fresh, RunRecord, RunStates, Outcomes
<1>2. \A w \in Run : /\ run[w] = Fresh(IF w \in Delivery THEN w ELSE NoDelivery)
                     /\ run[w].at = "idle"
                     /\ run[w].outcome = "none"
                     /\ run[w].of = IF w \in Delivery THEN w ELSE NoDelivery
  BY DEF Init, Fresh
<1>3. Typed
  <2>1. run \in [Run -> RunRecord]
    BY <1>1, <1>2 DEF Init
  <2>2. waiters \in [Node -> Seq(Delivery)]
    BY DEF Init
  <2>3. config \in Configs
    BY ConstantsAssumption DEF Init
  <2>. QED  BY <2>1, <2>2, <2>3 DEF Init, Typed, RowStates
<1>4. RunsWellFormed
  BY <1>2 DEF RunsWellFormed, Init, Run, Refusals
<1>5. LimiterWellFormed
  <2>1. ASSUME NEW n \in Node
        PROVE  slots[n] = 0 /\ waiters[n] = <<>> /\ Holding(n) = {} /\ Parked(n) = {}
    BY <1>2 DEF Init, Holding, Parked, InSlot, Delivering, Run
  <2>2. ToSet(<<>>) = {} /\ IsInjective(<<>>) /\ Len(<<>>) = 0
    BY DEF ToSet, IsInjective
  <2>3. 0 <= MaxActive /\ 0 <= MaxQueued
    BY ConstantsAssumption
  <2>4. Cardinality({}) = 0
    BY FS_EmptySet
  <2>. QED  BY <2>1, <2>2, <2>3, <2>4 DEF LimiterWellFormed
<1>. QED  BY <1>3, <1>4, <1>5 DEF WellFormed

(* A delivery that is not in the line joins its end. *)
LEMMA LineGrows ==
  ASSUME NEW s \in Seq(Delivery), NEW d \in Delivery, IsInjective(s), d \notin ToSet(s)
  PROVE  /\ Append(s, d) \in Seq(Delivery)
         /\ ToSet(Append(s, d)) = ToSet(s) \cup {d}
         /\ IsInjective(Append(s, d))
         /\ Len(Append(s, d)) = Len(s) + 1
<1> DEFINE t == Append(s, d)
<1>1. /\ t \in Seq(Delivery)
      /\ Len(t) = Len(s) + 1
      /\ Len(s) \in Nat
      /\ DOMAIN s = 1..Len(s)
      /\ DOMAIN t = 1..(Len(s) + 1)
      /\ t[Len(s) + 1] = d
      /\ \A i \in 1..Len(s) : t[i] = s[i]
  OBVIOUS
<1> HIDE DEF t
<1>2. \A i \in 1..Len(s) : s[i] # d
  BY <1>1 DEF ToSet
<1>3. ToSet(t) = ToSet(s) \cup {d}
  <2>1. \A i \in DOMAIN t : t[i] \in ToSet(s) \cup {d}
    BY <1>1 DEF ToSet
  <2>2. \A i \in DOMAIN s : s[i] \in ToSet(t)
    BY <1>1 DEF ToSet
  <2>3. d \in ToSet(t)
    BY <1>1 DEF ToSet
  <2>. QED  BY <2>1, <2>2, <2>3 DEF ToSet
<1>4. IsInjective(t)
  BY <1>1, <1>2 DEF IsInjective
<1>. QED  BY <1>1, <1>3, <1>4 DEF t

(* The first of the line leaves it. *)
LEMMA LineShrinks ==
  ASSUME NEW s \in Seq(Delivery), IsInjective(s), s # <<>>
  PROVE  /\ Head(s) \in Delivery
         /\ Head(s) \in ToSet(s)
         /\ Tail(s) \in Seq(Delivery)
         /\ ToSet(Tail(s)) = ToSet(s) \ {Head(s)}
         /\ IsInjective(Tail(s))
         /\ Len(Tail(s)) < Len(s)
<1> DEFINE t == Tail(s)
           h == Head(s)
<1>1. /\ t \in Seq(Delivery)
      /\ Len(t) = Len(s) - 1
      /\ Len(s) \in Nat \ {0}
      /\ DOMAIN s = 1..Len(s)
      /\ DOMAIN t = 1..(Len(s) - 1)
      /\ h = s[1]
      /\ h \in Delivery
      /\ \A i \in 1..(Len(s) - 1) : t[i] = s[i + 1]
  OBVIOUS
<1> HIDE DEF t, h
<1>2. h \in ToSet(s)
  BY <1>1 DEF ToSet
<1>3. ToSet(t) = ToSet(s) \ {h}
  <2>1. \A i \in DOMAIN t : t[i] \in ToSet(s) /\ t[i] # h
    <3> SUFFICES ASSUME NEW i \in DOMAIN t
                 PROVE  t[i] \in ToSet(s) /\ t[i] # h
      OBVIOUS
    <3>1. i + 1 \in DOMAIN s /\ 1 \in DOMAIN s /\ i + 1 # 1 /\ t[i] = s[i + 1]
      BY <1>1
    <3>. QED  BY <3>1, <1>1 DEF ToSet, IsInjective
  <2>2. \A i \in DOMAIN s : s[i] # h => s[i] \in ToSet(t)
    <3> SUFFICES ASSUME NEW i \in DOMAIN s, s[i] # h
                 PROVE  s[i] \in ToSet(t)
      OBVIOUS
    <3>1. i - 1 \in DOMAIN t /\ t[i - 1] = s[i]
      BY <1>1
    <3>. QED  BY <3>1 DEF ToSet
  <2>. QED  BY <2>1, <2>2 DEF ToSet
<1>4. IsInjective(t)
  <2> SUFFICES ASSUME NEW i \in DOMAIN t, NEW j \in DOMAIN t, t[i] = t[j]
               PROVE  i = j
    BY DEF IsInjective
  <2>1. i + 1 \in DOMAIN s /\ j + 1 \in DOMAIN s /\ s[i + 1] = s[j + 1]
    BY <1>1
  <2>2. i + 1 = j + 1
    BY <2>1 DEF IsInjective
  <2>. QED  BY <2>2, <1>1
<1>. QED  BY <1>1, <1>2, <1>3, <1>4 DEF t, h

(* A dispatch takes a slot when one is free, joins the line when none is,  *)
(* and hands its slot to the head of the line, or back, when it ends.      *)
LEMMA LiveKeepsWellFormed ==
  ASSUME WellFormed, NEW d \in Delivery,
         LiveStep(d) \/ \E n \in Node : Dispatch(n, d)
  PROVE  WellFormed'
<1>n. PICK n : n = home[d]
  OBVIOUS
<1> USE <1>n
<1>0. /\ Typed /\ RunsWellFormed /\ LimiterWellFormed
      /\ d \in Run
      /\ run \in [Run -> RunRecord]
      /\ run[d] \in RunRecord
      /\ run[d].outcome \in Outcomes
      /\ \A e \in Delivery : e \in Run
      /\ \A m \in Node : m \in Run /\ m \notin Delivery
      /\ NoNode \notin Node
  BY ConstantsAssumption DEF WellFormed, Typed, RunRecord, Run
<1> USE DEF RunStates, Delivering, Outcomes, Refusals
<1>1. ASSUME NEW m \in Node, Dispatch(m, d)
      PROVE  WellFormed'
  <2>1. Moved(d, "opening", run[d].try, run[d].outcome)
    BY <1>0, <1>1, RunMoves DEF Dispatch
  <2>2. /\ run[d].at = "idle" /\ run[d].outcome \notin Refusals
        /\ home'[d] = m
        /\ \A e \in Delivery \ {d} : home'[e] = home[e]
    BY ZenonT(40), <1>0, <1>1 DEF Dispatch, RunsWellFormed, Typed
  <2>3. Typed'
    BY <1>0, <1>1, <2>1 DEF Dispatch, Typed, Moved, tables, limiter, sweepVars, fates
  <2>4. RunsWellFormed'
    BY <1>0, <2>1, <2>2 DEF RunsWellFormed, Moved, Run
  <2>5. LimiterWellFormed'
    BY <1>0, <1>1, <2>1, <2>2, LimiterFrame DEF InSlot, Moved, Dispatch, limiter
  <2>. QED  BY <2>3, <2>4, <2>5 DEF WellFormed
<1>2. ASSUME Open(d)
      PROVE  WellFormed'
  <2>1. Moved(d, "opened", run[d].try, run[d].outcome)
    BY <1>0, <1>2, RunMoves DEF Open
  <2>2. Typed'
    <3>1. faults' \in Nat
      BY <1>0, <1>2 DEF Open, QueryFails, Typed
    <3>2. row' \in [Delivery -> RowStates]
      BY <1>0, <1>2 DEF Open, Typed, RowStates
    <3>4. UNCHANGED <<config, attempts, failures, jobs, mode, home, slots, waiters, late,
                      sweepAt, sweepList, received, dropped, stalledOut>>
      BY <1>2 DEF Open, limiter, sweepVars, fates
    <3>3. born' \in [Delivery -> Nat]
      <4> DEFINE older == {e \in Delivery : born[e] > 0}
                 k == 1 + Cardinality(older)
      <4>1. IsFiniteSet(older)
        BY FS_Subset, ConstantsAssumption
      <4>2. k \in Nat
        BY <4>1, FS_CardinalityType
      <4>3. born' = [born EXCEPT ![d] = k] \/ UNCHANGED born
        BY <1>2 DEF Open
      <4>4. born \in [Delivery -> Nat]
        BY <1>0 DEF Typed
      <4> HIDE DEF k
      <4>. QED  BY <4>2, <4>3, <4>4
    <3>. QED  BY <1>0, <2>1, <3>1, <3>2, <3>3, <3>4 DEF Typed, Moved
  <2>3. RunsWellFormed'
    BY <1>0, <1>2, <2>1 DEF Open, RunsWellFormed, Moved, Run
  <2>4. LimiterWellFormed'
    BY <1>0, <1>2, <2>1, LimiterFrame DEF InSlot, Moved, Open, limiter
  <2>. QED  BY <2>2, <2>3, <2>4 DEF WellFormed
<1>3. run[d].at \notin {"idle", "count", "insert", "done"} =>
        n \in Node /\ run[d].outcome \notin Refusals
  BY <1>0 DEF RunsWellFormed, Typed
<1>4. \A m \in Node : IsFiniteSet(Holding(m)) /\ Holding(m) \subseteq Delivery
                      /\ Parked(m) \subseteq Delivery
  BY FS_Subset, ConstantsAssumption DEF Holding, Parked
<1>5. MaxActive \in Nat /\ MaxQueued \in Nat /\ \A m \in Node : slots[m] \in Int
  BY <1>0, ConstantsAssumption DEF Typed
<1>6. \A m \in Node : waiters[m] \in Seq(Delivery) /\ Len(waiters[m]) \in Nat
  BY <1>0 DEF Typed
<1>7. ASSUME Admit(d)
      PROVE  WellFormed'
  <2>0. n \in Node /\ run[d].at = "opened" /\ run[d].outcome \notin Refusals
    BY <1>3, <1>7 DEF Admit
  <2>9. late' \subseteq Delivery
    BY <1>0, <1>7 DEF Admit, Typed
  <2>1. CASE /\ slots[n] < MaxActive
             /\ slots' = [slots EXCEPT ![n] = @ + 1]
             /\ run' = [run EXCEPT ![d].at = "preflight"]
             /\ UNCHANGED waiters
    <3>1. Moved(d, "preflight", run[d].try, run[d].outcome)
      BY <2>1, <1>0, RunMoves
    <3>2. Typed'
      <4>1. slots[n] + 1 \in Int
        BY <1>5, <2>0
      <4>2. slots' \in [Node -> Int]
        BY <1>0, <2>1, <4>1 DEF Typed
      <4>. QED  BY <1>0, <1>7, <2>1, <2>9, <3>1, <4>2
                DEF Admit, Typed, Moved, tables, sweepVars, fates
    <3>3. RunsWellFormed'
      BY <1>0, <1>7, <2>0, <3>1 DEF Admit, RunsWellFormed, Moved, Run
    <3>4. UNCHANGED home
      BY <1>7 DEF Admit
    <3>5. /\ Holding(n)' = Holding(n) \cup {d} /\ d \notin Holding(n)
          /\ \A m \in Node \ {n} : Holding(m)' = Holding(m)
          /\ \A m \in Node : Parked(m)' = Parked(m)
      BY <1>0, <2>0, <3>1, <3>4 DEF Holding, Parked, InSlot, Moved
    <3>6. Cardinality(Holding(n)') = Cardinality(Holding(n)) + 1
      BY <1>4, <2>0, <3>5, FS_AddElement
    <3>7. waiters[n] = <<>>
      BY <1>0, <1>5, <2>0, <2>1 DEF LimiterWellFormed
    <3>8. slots'[n] = slots[n] + 1 /\ \A m \in Node \ {n} : slots'[m] = slots[m]
      BY <1>0, <2>0, <2>1 DEF Typed
    <3>9. LimiterWellFormed'
      <4> SUFFICES ASSUME NEW m \in Node
                 PROVE  /\ slots'[m] = Cardinality(Holding(m)')
                        /\ slots'[m] <= MaxActive
                        /\ waiters'[m] # <<>> => slots'[m] = MaxActive
                        /\ ToSet(waiters'[m]) = Parked(m)'
                        /\ IsInjective(waiters'[m])
                        /\ Len(waiters'[m]) <= MaxQueued
        BY DEF LimiterWellFormed
      <4>1. waiters'[m] = waiters[m] /\ Parked(m)' = Parked(m)
        BY <2>1, <3>5
      <4>2. CASE m = n
        <5>1. slots'[n] = Cardinality(Holding(n)')
          BY <1>0, <2>0, <3>6, <3>8 DEF LimiterWellFormed
        <5>2. slots'[n] <= MaxActive
          BY <1>5, <2>0, <2>1, <3>8
        <5>3. waiters'[n] = <<>>
          BY <2>1, <3>7
        <5>. QED  BY <1>0, <2>0, <2>1, <3>5, <4>1, <4>2, <5>1, <5>2, <5>3 DEF LimiterWellFormed
      <4>3. CASE m # n
        BY <1>0, <3>5, <3>8, <4>1, <4>3 DEF LimiterWellFormed
      <4>. QED  BY <4>2, <4>3
    <3>. QED  BY <3>2, <3>3, <3>9 DEF WellFormed
  <2>2. CASE /\ slots[n] >= MaxActive
             /\ Len(waiters[n]) < MaxQueued
             /\ waiters' = [waiters EXCEPT ![n] = Append(@, d)]
             /\ run' = [run EXCEPT ![d].at = "parked"]
             /\ UNCHANGED slots
    <3>1. Moved(d, "parked", run[d].try, run[d].outcome)
      BY <2>2, <1>0, RunMoves
    <3>2. d \notin Parked(n) /\ ToSet(waiters[n]) = Parked(n) /\ IsInjective(waiters[n])
          /\ slots[n] = MaxActive
      BY <1>0, <1>5, <2>0, <2>2 DEF Parked, LimiterWellFormed
    <3>3. /\ waiters'[n] \in Seq(Delivery)
          /\ ToSet(waiters'[n]) = ToSet(waiters[n]) \cup {d}
          /\ IsInjective(waiters'[n])
          /\ Len(waiters'[n]) <= MaxQueued
          /\ \A m \in Node \ {n} : waiters'[m] = waiters[m]
      <4>1. waiters'[n] = Append(waiters[n], d)
        BY <1>0, <2>0, <2>2 DEF Typed
      <4>2. \A m \in Node \ {n} : waiters'[m] = waiters[m]
        BY <1>0, <2>2 DEF Typed
      <4>. QED  BY <4>1, <4>2, <1>5, <1>6, <2>0, <2>2, <3>2, LineGrows
    <3>4. Typed'
      <4>1. waiters' \in [Node -> Seq(Delivery)]
        BY <1>0, <2>2, <3>3 DEF Typed
      <4>. QED  BY <1>0, <1>7, <2>2, <2>9, <3>1, <4>1
                DEF Admit, Typed, Moved, tables, sweepVars, fates
    <3>5. RunsWellFormed'
      BY <1>0, <1>7, <2>0, <3>1 DEF Admit, RunsWellFormed, Moved, Run
    <3>6. UNCHANGED home
      BY <1>7 DEF Admit
    <3>7. /\ Parked(n)' = Parked(n) \cup {d}
          /\ \A m \in Node \ {n} : Parked(m)' = Parked(m)
          /\ \A m \in Node : Holding(m)' = Holding(m)
      BY <1>0, <2>0, <3>1, <3>6 DEF Holding, Parked, InSlot, Moved
    <3>8. LimiterWellFormed'
      <4> SUFFICES ASSUME NEW m \in Node
                 PROVE  /\ slots'[m] = Cardinality(Holding(m)')
                        /\ slots'[m] <= MaxActive
                        /\ waiters'[m] # <<>> => slots'[m] = MaxActive
                        /\ ToSet(waiters'[m]) = Parked(m)'
                        /\ IsInjective(waiters'[m])
                        /\ Len(waiters'[m]) <= MaxQueued
        BY DEF LimiterWellFormed
      <4>1. slots'[m] = slots[m] /\ Holding(m)' = Holding(m)
        BY <2>2, <3>7
      <4>2. CASE m = n
        BY <1>0, <2>0, <3>2, <3>3, <3>7, <4>1, <4>2 DEF LimiterWellFormed
      <4>3. CASE m # n
        BY <1>0, <3>3, <3>7, <4>1, <4>3 DEF LimiterWellFormed
      <4>. QED  BY <4>2, <4>3
    <3>. QED  BY <3>4, <3>5, <3>8 DEF WellFormed
  <2>3. CASE /\ run' = [run EXCEPT ![d].at = "count",
                                   ![d].outcome = IF Closed(n) THEN "closed" ELSE "full"]
             /\ UNCHANGED <<slots, waiters>>
    <3> DEFINE o == IF Closed(n) THEN "closed" ELSE "full"
    <3>0. o \in Refusals /\ run' = [run EXCEPT ![d].at = "count", ![d].outcome = o]
      BY <2>3
    <3> HIDE DEF o
    <3>1. Moved(d, "count", run[d].try, o)
      BY <3>0, <1>0, RunMoves
    <3>2. Typed'
      BY <1>0, <1>7, <2>3, <2>9, <3>1 DEF Admit, Typed, Moved, tables, sweepVars, fates
    <3>3. RunsWellFormed'
      BY <1>0, <1>7, <2>0, <3>0, <3>1 DEF Admit, RunsWellFormed, Moved, Run
    <3>4. LimiterWellFormed'
      BY <1>0, <1>7, <2>0, <2>3, <3>0, <3>1, LimiterFrame DEF InSlot, Moved, Admit
    <3>. QED  BY <3>2, <3>3, <3>4 DEF WellFormed
  <2>. QED  BY <1>7, <2>1, <2>2, <2>3 DEF Admit
<1>8. ASSUME ConcludeDispatch(d)
      PROVE  WellFormed'
  <2> DEFINE h == Head(waiters[n])
  <2>0. n \in Node /\ run[d].at = "conclude" /\ run[d].outcome \notin Refusals
    BY <1>3, <1>8 DEF ConcludeDispatch
  <2>1. row' \in [Delivery -> RowStates] /\ faults' \in Nat
    <3>1. "dispatched" \in RowStates /\ \A x \in RowStates : x \in RowStates
      BY DEF RowStates
    <3>2. CASE CloseRow(d, "dispatched") /\ UNCHANGED faults
      BY <1>0, <3>1, <3>2 DEF CloseRow, Typed
    <3>3. CASE QueryFails /\ UNCHANGED row
      BY <1>0, <3>3 DEF QueryFails, Typed
    <3>. QED  BY <1>8, <3>2, <3>3 DEF ConcludeDispatch
  <2>2. UNCHANGED <<home, config, attempts, born, failures, jobs, mode, late, sweepVars, fates>>
    BY <1>8 DEF ConcludeDispatch
  <2>9. /\ Over(d) \in RunRecord
        /\ Over(d).at = "done" /\ Over(d).of = run[d].of
        /\ Over(d).try = 0 /\ Over(d).outcome = "none"
    BY <1>0, RunEnds
  <2>3. d \in Holding(n) /\ slots[n] = Cardinality(Holding(n))
    BY <1>0, <2>0 DEF Holding, InSlot, LimiterWellFormed
  <2>4. CASE waiters[n] = <<>>
    <3>1. /\ \A w \in Run : run'[w] = IF w = d THEN Over(w) ELSE run[w]
          /\ run' = [w \in Run |-> run'[w]]
      BY <1>8, <2>4 DEF ConcludeDispatch
    <3>2. Moved(d, "done", 0, "none")
      <4>1. \A w \in Run : run'[w] \in RunRecord
        BY <1>0, <2>9, <3>1
      <4>2. run' \in [Run -> RunRecord]
        BY <3>1, <4>1
      <4>. QED  BY <1>0, <2>9, <3>1, <4>2 DEF Moved
    <3>3. /\ slots' = [slots EXCEPT ![n] = slots[n] - 1] /\ UNCHANGED waiters
      BY <1>8, <2>4 DEF ConcludeDispatch, Release
    <3>4. Typed'
      <4>1. slots[n] - 1 \in Int
        BY <1>5, <2>0
      <4>2. slots' \in [Node -> Int]
        BY <1>0, <3>3, <4>1 DEF Typed
      <4>. QED  BY <1>0, <2>1, <2>2, <3>2, <3>3, <4>2 DEF Typed, Moved, sweepVars, fates
    <3>5. RunsWellFormed'
      BY <1>0, <2>0, <2>2, <3>2 DEF RunsWellFormed, Moved, Run
    <3>6. /\ Holding(n)' = Holding(n) \ {d}
          /\ \A m \in Node \ {n} : Holding(m)' = Holding(m)
          /\ \A m \in Node : Parked(m)' = Parked(m)
      BY <1>0, <2>0, <2>2, <3>2 DEF Holding, Parked, InSlot, Moved
    <3>7. Cardinality(Holding(n)') = Cardinality(Holding(n)) - 1
      BY <1>4, <2>0, <2>3, <3>6, FS_RemoveElement
    <3>8. slots'[n] = slots[n] - 1 /\ \A m \in Node \ {n} : slots'[m] = slots[m]
      BY <1>0, <2>0, <3>3 DEF Typed
    <3>9. LimiterWellFormed'
      <4> SUFFICES ASSUME NEW m \in Node
                 PROVE  /\ slots'[m] = Cardinality(Holding(m)')
                        /\ slots'[m] <= MaxActive
                        /\ waiters'[m] # <<>> => slots'[m] = MaxActive
                        /\ ToSet(waiters'[m]) = Parked(m)'
                        /\ IsInjective(waiters'[m])
                        /\ Len(waiters'[m]) <= MaxQueued
        BY DEF LimiterWellFormed
      <4>1. waiters'[m] = waiters[m] /\ Parked(m)' = Parked(m)
        BY <3>3, <3>6
      <4>2. CASE m = n
        BY <1>0, <1>5, <2>0, <2>3, <2>4, <3>7, <3>8, <4>1, <4>2 DEF LimiterWellFormed
      <4>3. CASE m # n
        BY <1>0, <3>6, <3>8, <4>1, <4>3 DEF LimiterWellFormed
      <4>. QED  BY <4>2, <4>3
    <3>. QED  BY <3>4, <3>5, <3>9 DEF WellFormed
  <2>5. CASE waiters[n] # <<>>
    <3>0. /\ waiters[n] \in Seq(Delivery) /\ IsInjective(waiters[n])
          /\ ToSet(waiters[n]) = Parked(n) /\ slots[n] = MaxActive
      BY <1>0, <1>6, <2>0, <2>5 DEF LimiterWellFormed
    <3>1. /\ h \in Delivery
          /\ h \in Parked(n)
          /\ Tail(waiters[n]) \in Seq(Delivery)
          /\ ToSet(Tail(waiters[n])) = Parked(n) \ {h}
          /\ IsInjective(Tail(waiters[n]))
          /\ Len(Tail(waiters[n])) < Len(waiters[n])
      BY <2>5, <3>0, LineShrinks
    <3>2. run' = [w \in Run |-> CASE w = d -> Over(w)
                                  [] w = h -> [run[w] EXCEPT !.at = "preflight"]
                                  [] OTHER -> run[w]]
      BY <1>8, <2>5 DEF ConcludeDispatch
    <3> HIDE DEF h
    <3>3. run[h].at = "parked" /\ home[h] = n /\ h # d /\ h \in Run /\ run[h] \in RunRecord
          /\ run[h].outcome \notin Refusals
      BY <1>0, <2>0, <3>1 DEF Parked, RunsWellFormed, Typed
    <3>4. /\ run'[d] = Over(d)
          /\ run'[h] = [run[h] EXCEPT !.at = "preflight"]
          /\ \A w \in Run \ {d, h} : run'[w] = run[w]
      BY <1>0, <3>2, <3>3
    <3>5. /\ run'[d] \in RunRecord /\ run'[h] \in RunRecord
          /\ run'[d].at = "done" /\ run'[d].of = run[d].of /\ run'[d].outcome = "none"
          /\ run'[h].at = "preflight" /\ run'[h].of = run[h].of
          /\ run'[h].outcome = run[h].outcome
      BY <1>0, <2>9, <3>3, <3>4 DEF RunRecord
    <3>6. /\ waiters' = [waiters EXCEPT ![n] = Tail(waiters[n])] /\ UNCHANGED slots
      BY <1>8, <2>5 DEF ConcludeDispatch, Release
    <3>7. Typed'
      <4>1. run' \in [Run -> RunRecord]
        BY <1>0, <3>2, <3>4, <3>5
      <4>. QED  BY <1>0, <2>1, <2>2, <3>1, <3>6, <4>1 DEF Typed, sweepVars, fates
    <3>8. RunsWellFormed'
      <4>1. \A w \in Run : /\ run'[w].of = run[w].of
                           /\ w # d => run'[w].outcome = run[w].outcome
                           /\ run'[w].at \in {run[w].at, "done", "preflight"}
                           /\ w \notin {d, h} => run'[w].at = run[w].at
        BY <3>4, <3>5
      <4>2. UNCHANGED home
        BY <2>2
      <4>3. /\ run'[d].at = "done" /\ run[d].at = "conclude" /\ run'[h].at = "preflight"
            /\ run'[d].outcome = "none"
        BY <2>0, <3>5
      <4>. QED  BY <1>0, <2>0, <3>1, <3>3, <4>1, <4>2, <4>3 DEF RunsWellFormed
    <3>9. /\ Holding(n)' = (Holding(n) \ {d}) \cup {h} /\ h \notin Holding(n) \ {d}
          /\ Parked(n)' = Parked(n) \ {h}
          /\ \A m \in Node \ {n} : Holding(m)' = Holding(m) /\ Parked(m)' = Parked(m)
      <4>1. UNCHANGED home
        BY <2>2
      <4>2. \A e \in Delivery : e \notin {d, h} => run'[e] = run[e]
        BY <1>0, <3>4
      <4>3. \A e \in Delivery, m \in Node :
              e \in Holding(m)' <=> (e \in Holding(m) /\ e # d) \/ (e = h /\ m = n)
        BY <2>0, <3>1, <3>3, <3>5, <4>1, <4>2 DEF Holding, InSlot
      <4>4. \A e \in Delivery, m \in Node :
              e \in Parked(m)' <=> e \in Parked(m) /\ e # h
        BY <2>0, <3>1, <3>3, <3>5, <4>1, <4>2 DEF Parked
      <4>5. \A m \in Node : Holding(m)' \subseteq Delivery /\ Parked(m)' \subseteq Delivery
        BY DEF Holding, Parked
      <4>6. h \notin Holding(n)
        BY <3>3 DEF Holding, InSlot
      <4>7. \A m \in Node \ {n} : d \notin Holding(m) /\ h \notin Parked(m)
        BY <2>0, <3>3 DEF Holding, Parked
      <4>8. Holding(n)' = (Holding(n) \ {d}) \cup {h}
        BY <1>4, <2>0, <3>1, <4>3, <4>5
      <4>9. Parked(n)' = Parked(n) \ {h}
        BY <1>4, <2>0, <4>4, <4>5
      <4>10. ASSUME NEW m \in Node \ {n}
             PROVE  Holding(m)' = Holding(m) /\ Parked(m)' = Parked(m)
        <5>1. \A e \in Delivery : /\ e \in Holding(m)' <=> e \in Holding(m)
                                  /\ e \in Parked(m)' <=> e \in Parked(m)
          BY <4>3, <4>4, <4>7
        <5>. QED  BY <1>4, <4>5, <5>1
      <4>. QED  BY <4>6, <4>8, <4>9, <4>10
    <3>10. Cardinality(Holding(n)') = Cardinality(Holding(n))
      <4>1. /\ IsFiniteSet(Holding(n) \ {d})
            /\ Cardinality(Holding(n) \ {d}) = Cardinality(Holding(n)) - 1
        BY <1>4, <2>0, <2>3, FS_RemoveElement
      <4>2. Cardinality((Holding(n) \ {d}) \cup {h}) = Cardinality(Holding(n) \ {d}) + 1
        BY <3>9, <4>1, FS_AddElement
      <4>3. Cardinality(Holding(n)) \in Int
        BY <1>5, <2>0, <2>3
      <4>. QED  BY <3>9, <4>1, <4>2, <4>3
    <3>11. waiters'[n] = Tail(waiters[n]) /\ \A m \in Node \ {n} : waiters'[m] = waiters[m]
      BY <1>0, <2>0, <3>6 DEF Typed
    <3>12. LimiterWellFormed'
      <4> SUFFICES ASSUME NEW m \in Node
                 PROVE  /\ slots'[m] = Cardinality(Holding(m)')
                        /\ slots'[m] <= MaxActive
                        /\ waiters'[m] # <<>> => slots'[m] = MaxActive
                        /\ ToSet(waiters'[m]) = Parked(m)'
                        /\ IsInjective(waiters'[m])
                        /\ Len(waiters'[m]) <= MaxQueued
        BY DEF LimiterWellFormed
      <4>1. slots'[m] = slots[m]
        BY <3>6
      <4>2. CASE m = n
        <5>1. Len(Tail(waiters[n])) <= MaxQueued
          <6>1. Len(waiters[n]) <= MaxQueued
            BY <1>0, <2>0 DEF LimiterWellFormed
          <6>2. Len(waiters[n]) \in Nat /\ Len(Tail(waiters[n])) \in Nat
            BY <1>6, <2>0, <3>1
          <6>. QED  BY <6>1, <6>2, <3>1, <1>5
        <5>2. slots'[n] = Cardinality(Holding(n)') /\ slots'[n] = MaxActive
          BY <2>3, <3>0, <3>10, <4>1, <4>2
        <5>3. /\ ToSet(waiters'[n]) = Parked(n)' /\ IsInjective(waiters'[n])
              /\ Len(waiters'[n]) <= MaxQueued
          BY <3>1, <3>9, <3>11, <5>1
        <5>4. slots'[n] <= MaxActive
          BY <5>2, <1>5
        <5>. QED  BY <4>2, <5>2, <5>3, <5>4
      <4>3. CASE m # n
        BY <1>0, <3>9, <3>11, <4>1, <4>3 DEF LimiterWellFormed
      <4>. QED  BY <4>2, <4>3
    <3>. QED  BY <3>7, <3>8, <3>12 DEF WellFormed
  <2>. QED  BY <2>4, <2>5
<1>. QED  BY <1>1, <1>2, <1>7, <1>8 DEF LiveStep

(* deliverOne() leaves every slot where it is. *)
LEMMA DeliverKeepsWellFormed ==
  ASSUME WellFormed, NEW w \in Run, Deliver(w)
  PROVE  WellFormed'
<1>0. Typed /\ RunsWellFormed /\ LimiterWellFormed
  BY DEF WellFormed
<1>1. PICK a \in RunStates, t \in Nat, o \in Outcomes :
        /\ Moved(w, a, t, o)
        /\ o \in Refusals <=> run[w].outcome \in Refusals
        /\ o \in Refusals => a \in {"insert", "done"}
        /\ o \notin Refusals => a \in Delivering
        /\ a \in {"count", "insert"} => o \in Refusals \cup {"failed"}
  BY <1>0, DeliverStep
<1>2. /\ run[w].at \in Delivering
      /\ run[w].of \in Delivery
      /\ UNCHANGED <<config, row, attempts, born, mode, home, limiter, sweepVars, stalledOut>>
  BY <1>0, DeliverStep
<1>3. Typed'
  <2>1. /\ jobs' \subseteq Job
        /\ failures' \in [Delivery -> Nat]
        /\ faults' \in Nat
        /\ received' \in [Delivery -> BOOLEAN]
        /\ dropped' \in [Delivery -> BOOLEAN]
    BY <1>0, DeliverStep
  <2>. QED  BY <1>0, <1>1, <1>2, <2>1 DEF Typed, Moved, limiter, sweepVars
<1>4. RunsWellFormed'
  <2>1. /\ run'[w].of = run[w].of /\ run'[w].at = a /\ run'[w].outcome = o
        /\ \A v \in Run \ {w} : run'[v] = run[v]
    BY <1>1 DEF Moved
  <2>2. a # "idle" /\ run[w].at # "idle" /\ UNCHANGED home
    BY <1>1, <1>2 DEF Delivering
  <2>3. w \in Node => a \in Delivering /\ o \notin Refusals
    BY <1>0, <1>1 DEF RunsWellFormed
  <2>. QED  BY <1>0, <1>1, <1>2, <2>1, <2>2, <2>3 DEF RunsWellFormed, Run
<1>5. LimiterWellFormed'
  <2>1. \A d \in Delivery : d \in Run
    BY DEF Run
  <2>2. \A d \in Delivery : /\ InSlot(d)' <=> InSlot(d)
                            /\ run'[d].at = "parked" <=> run[d].at = "parked"
    BY <1>1, <1>2, <2>1 DEF InSlot, Moved, Delivering, Refusals
  <2>. QED  BY <1>0, <1>2, <2>2, LimiterFrame DEF limiter
<1>. QED  BY <1>3, <1>4, <1>5 DEF WellFormed

(* A sweep moves the replay of its own process only. *)
LEMMA SweepKeepsWellFormed ==
  ASSUME WellFormed, NEW n \in Node, Sweep(n)
  PROVE  WellFormed'
<1>0. /\ Typed /\ RunsWellFormed /\ LimiterWellFormed
      /\ n \in Run /\ n \notin Delivery
      /\ \A d \in Delivery : d \in Run
      /\ \A r \in sweepList[n] : r \in Snapshot /\ r.of \in Delivery /\ r.attempts \in Nat
      /\ sweepList[n] \subseteq Snapshot
  BY SMTT(30), ConstantsAssumption DEF WellFormed, Typed, Snapshot, Run
<1>1. ASSUME NEW d, NEW x \in RowStates, CloseRow(d, x)
      PROVE  row' \in [Delivery -> RowStates]
  BY <1>0, <1>1 DEF CloseRow, Typed
<1>2. ASSUME QueryFails
      PROVE  faults' \in Nat
  BY <1>0, <1>2 DEF QueryFails, Typed
<1>3. ASSUME NEW r, Advance(n, r)
      PROVE  /\ sweepList' \in [Node -> SUBSET Snapshot]
             /\ sweepAt' \in [Node -> {"idle", "row", "unsubscribed", "count", "replay"}]
  <2>1. sweepList[n] \ {r} \in SUBSET Snapshot
    BY <1>0
  <2>. QED  BY <1>0, <1>3, <2>1 DEF Advance, Typed
<1>4. "dispatched" \in RowStates /\ "failed" \in RowStates
  BY DEF RowStates
<1>5. ASSUME UNCHANGED <<home, limiter, run>>, Typed'
      PROVE  WellFormed'
  <2>1. RunsWellFormed'
    BY <1>0, <1>5 DEF RunsWellFormed
  <2>2. LimiterWellFormed'
    BY <1>0, <1>5, LimiterFrame DEF InSlot, limiter
  <2>. QED  BY <1>5, <2>1, <2>2 DEF WellFormed
<1>6. ASSUME UNCHANGED <<home, limiter>>, Typed',
             NEW x, run' = [run EXCEPT ![n] = x],
             x.at \in Delivering \cup {"idle"},
             x.at # "idle" => x.of \in Delivery,
             x.outcome \notin Refusals,
             x.at \notin {"count", "insert"}
      PROVE  WellFormed'
  <2>0. run \in [Run -> RunRecord]
    BY <1>0 DEF Typed
  <2>1. run'[n] = x /\ \A d \in Delivery : run'[d] = run[d]
    BY <1>0, <1>6, <2>0
  <2>2. \A m \in Node \ {n} : run'[m] = run[m]
    BY <1>0, <1>6, <2>0 DEF Run
  <2>3. RunsWellFormed'
    BY <1>0, <1>6, <2>1, <2>2 DEF RunsWellFormed, Run
  <2>4. LimiterWellFormed'
    BY <1>0, <1>6, <2>1, LimiterFrame DEF InSlot, limiter
  <2>. QED  BY <1>6, <2>3, <2>4 DEF WellFormed
<1>7. CASE BeginSweep(n)
  <2> DEFINE S == {[of |-> d, attempts |-> attempts[d]] : d \in Stale}
  <2>1. S \subseteq Snapshot
    <3>1. Stale \subseteq Delivery
      BY DEF Stale
    <3>2. \A d \in Delivery : attempts[d] \in Nat
      BY <1>0 DEF Typed
    <3>. QED  BY <3>1, <3>2 DEF Snapshot
  <2>2. sweepList' = [sweepList EXCEPT ![n] = S]
    BY <1>7 DEF BeginSweep
  <2> HIDE DEF S
  <2>. QED  BY <1>0, <1>5, <1>7, <2>1, <2>2 DEF BeginSweep, Typed, tables, limiter, fates
<1>8. ASSUME NEW r \in sweepList[n], CloseSpent(n, r)
      PROVE  WellFormed'
  BY <1>0, <1>1, <1>2, <1>3, <1>4, <1>5, <1>8 DEF CloseSpent, Typed, limiter, fates
<1>9. ASSUME NEW r \in sweepList[n], FindWebhook(n, r)
      PROVE  WellFormed'
  BY <1>0, <1>2, <1>5, <1>9 DEF FindWebhook, Typed, tables, limiter, fates
<1>10. ASSUME NEW r \in sweepList[n], CloseUnsubscribed(n, r)
       PROVE  WellFormed'
  BY <1>0, <1>1, <1>2, <1>3, <1>4, <1>5, <1>10 DEF CloseUnsubscribed, Typed, limiter, fates
<1>11. ASSUME NEW r \in sweepList[n], CountAttempt(n, r)
       PROVE  WellFormed'
  <2> DEFINE x == [at |-> "preflight", of |-> r.of, try |-> 0, outcome |-> "none"]
  <2>1. /\ x \in RunRecord /\ x.at = "preflight" /\ x.of = r.of /\ x.outcome = "none"
    BY <1>0, <1>11 DEF RunRecord, RunStates, Delivering, Outcomes
  <2>2. run' = [run EXCEPT ![n] = x]
    BY <1>11 DEF CountAttempt
  <2> HIDE DEF x
  <2>3. attempts' \in [Delivery -> Nat] /\ faults' \in Nat
    BY SMTT(30), <1>0, <1>2, <1>11 DEF CountAttempt, Typed
  <2>4. Typed'
    BY <1>0, <1>11, <2>1, <2>2, <2>3 DEF CountAttempt, Typed, limiter, fates
  <2>. QED  BY <1>0, <1>6, <1>11, <2>1, <2>2, <2>4 DEF CountAttempt, Delivering, Refusals
<1>12. ASSUME NEW r \in sweepList[n], ConcludeReplay(n, r)
       PROVE  WellFormed'
  <2> DEFINE x == Fresh(NoDelivery)
  <2>1. /\ x \in RunRecord /\ x.at = "idle" /\ x.outcome = "none"
    BY DEF Fresh, RunRecord, RunStates, Outcomes
  <2>2. run' = [run EXCEPT ![n] = x]
    BY <1>12 DEF ConcludeReplay
  <2> HIDE DEF x
  <2>3. row' \in [Delivery -> RowStates] /\ faults' \in Nat
    BY <1>0, <1>1, <1>2, <1>4, <1>12 DEF ConcludeReplay, Typed
  <2>4. Typed'
    BY <1>0, <1>3, <1>12, <2>1, <2>2, <2>3 DEF ConcludeReplay, Typed, limiter, fates
  <2>. QED  BY <1>0, <1>6, <1>12, <2>1, <2>2, <2>4 DEF ConcludeReplay, Refusals
<1>. QED  BY <1>7, <1>8, <1>9, <1>10, <1>11, <1>12 DEF Sweep

(* The forms in which the actions move a job. *)
LEMMA JobMoves ==
  ASSUME NEW j \in Job
  PROVE  /\ j.of \in Delivery
         /\ \A n \in Node, a \in {"active", "count"} : [j EXCEPT !.at = a, !.on = n] \in Job
         /\ \A a \in {"count", "insert"} : [j EXCEPT !.at = a] \in Job
         /\ [j EXCEPT !.at = "waiting", !.on = NoNode, !.made = @ + 1] \in Job
         /\ [j EXCEPT !.at = "waiting", !.on = NoNode, !.stalls = @ + 1] \in Job
<1>1. /\ \A n \in Node, a \in {"active", "count"} : [j EXCEPT !.at = a, !.on = n] \in Job
      /\ \A a \in {"count", "insert"} : [j EXCEPT !.at = a] \in Job
      /\ j.of \in Delivery
  BY DEF Job
<1>2. ASSUME NEW k \in Nat
      PROVE  /\ [j EXCEPT !.at = "waiting", !.on = NoNode, !.made = k] \in Job
             /\ [j EXCEPT !.at = "waiting", !.on = NoNode, !.stalls = k] \in Job
  BY DEF Job
<1>3. j.made + 1 \in Nat /\ j.stalls + 1 \in Nat
  BY DEF Job
<1>4. [j EXCEPT !.at = "waiting", !.on = NoNode, !.made = j.made + 1] \in Job
  BY <1>2, <1>3
<1>5. [j EXCEPT !.at = "waiting", !.on = NoNode, !.stalls = j.stalls + 1] \in Job
  BY <1>2, <1>3
<1>6. /\ [j EXCEPT !.at = "waiting", !.on = NoNode, !.made = @ + 1] =
         [j EXCEPT !.at = "waiting", !.on = NoNode, !.made = j.made + 1]
      /\ [j EXCEPT !.at = "waiting", !.on = NoNode, !.stalls = @ + 1] =
         [j EXCEPT !.at = "waiting", !.on = NoNode, !.stalls = j.stalls + 1]
  OBVIOUS
<1>. QED  BY <1>1, <1>4, <1>5, <1>6

(* The queue and its workers touch no run. *)
LEMMA WorkKeepsWellFormed ==
  ASSUME WellFormed, Work
  PROVE  WellFormed'
<1>0. Typed /\ RunsWellFormed /\ LimiterWellFormed
  BY DEF WellFormed
<1>1. ASSUME NEW j \in jobs, NEW k \in Job, Replace(j, k) \/ jobs' = jobs \ {j}
      PROVE  jobs' \subseteq Job
  BY <1>0, <1>1 DEF Replace, Typed
<1>2. ASSUME UNCHANGED <<home, limiter, run>>, Typed'
      PROVE  WellFormed'
  <2>1. RunsWellFormed'
    BY <1>0, <1>2 DEF RunsWellFormed
  <2>2. LimiterWellFormed'
    BY <1>0, <1>2, LimiterFrame DEF InSlot, limiter
  <2>. QED  BY <1>2, <2>1, <2>2 DEF WellFormed
<1>3. ASSUME QueryFails
      PROVE  faults' \in Nat
  BY <1>0, <1>3 DEF QueryFails, Typed
<1>4. SUFFICES ASSUME NEW j \in jobs,
                      \/ ProcessJob(j)
                      \/ CountJobFailures(j)
                      \/ InsertJobFailure(j)
                      \/ \E n \in Node : TakeJob(n, j)
               PROVE  WellFormed'
  BY DEF Work
<1>5. j \in Job /\ j.of \in Delivery
  BY <1>0 DEF Typed, Job
<1>6. CASE ProcessJob(j)
  <2>1. /\ [j EXCEPT !.at = "count"] \in Job
        /\ [j EXCEPT !.at = "waiting", !.on = NoNode, !.made = @ + 1] \in Job
    BY <1>5, JobMoves
  <2>2. jobs' \subseteq Job
    BY <1>1, <1>6, <2>1 DEF ProcessJob
  <2>3. received' \in [Delivery -> BOOLEAN]
    BY <1>0, <1>6 DEF ProcessJob, Typed
  <2>. QED  BY <1>0, <1>2, <1>6, <2>2, <2>3
            DEF ProcessJob, Typed, tables, limiter, sweepVars, fates
<1>7. CASE CountJobFailures(j)
  <2>1. [j EXCEPT !.at = "insert"] \in Job
    BY <1>5 DEF Job
  <2>2. jobs' \subseteq Job
    BY <1>1, <1>5, <1>7, <2>1 DEF CountJobFailures
  <2>3. faults' \in Nat
    BY <1>0, <1>3, <1>7 DEF CountJobFailures, Typed
  <2>. QED  BY <1>0, <1>2, <1>7, <2>2, <2>3
            DEF CountJobFailures, Typed, tables, limiter, sweepVars, fates
<1>8. CASE InsertJobFailure(j)
  <2>1. jobs' \subseteq Job
    BY <1>1, <1>5, <1>8 DEF InsertJobFailure
  <2>2. faults' \in Nat
    BY <1>0, <1>3, <1>8 DEF InsertJobFailure, Typed
  <2>3. failures' \in [Delivery -> Nat]
    <3>1. failures[j.of] + 1 \in Nat
      BY <1>0, <1>5 DEF Typed
    <3>2. CASE failures' = [failures EXCEPT ![j.of] = failures[j.of] + 1]
      BY <1>0, <3>1, <3>2 DEF Typed
    <3>. QED  BY <1>0, <1>8, <3>2 DEF InsertJobFailure, Typed
  <2>. QED  BY <1>0, <1>2, <1>8, <2>1, <2>2, <2>3
            DEF InsertJobFailure, Typed, limiter, sweepVars, fates
<1>9. ASSUME NEW n \in Node, TakeJob(n, j)
      PROVE  WellFormed'
  <2> DEFINE a == IF j.stalls >= 2 THEN "count" ELSE "active"
             k == [j EXCEPT !.at = a, !.on = n]
  <2>1. a \in {"count", "active"}
    OBVIOUS
  <2>2. Replace(j, k)
    BY <1>9 DEF TakeJob
  <2> HIDE DEF a
  <2>3. k \in Job
    BY <1>5, <2>1, JobMoves
  <2> HIDE DEF k
  <2>4. jobs' \subseteq Job
    BY <1>1, <2>2, <2>3
  <2>. QED  BY <1>0, <1>2, <1>9, <2>4
            DEF TakeJob, Typed, tables, limiter, sweepVars, fates
<1>. QED  BY <1>4, <1>6, <1>7, <1>8, <1>9

(* A shutdown empties the line of its process, a restart the slots too. *)
LEMMA LifeKeepsWellFormed ==
  ASSUME WellFormed, NEW n \in Node, BeginShutdown(n) \/ DrainEnds(n) \/ Exit(n) \/ Crash(n)
  PROVE  WellFormed'
<1>0. /\ Typed /\ RunsWellFormed /\ LimiterWellFormed
      /\ \A d \in Delivery : d \in Run /\ d \notin Node
      /\ \A m \in Node : m \in Run /\ m \notin Delivery
      /\ \A w \in Run : w \in Delivery \/ w \in Node
      /\ \A w \in Run : run[w] \in RunRecord
      /\ faults \in Nat /\ faults + 1 \in Nat
      /\ NoNode \notin Node
  BY ConstantsAssumption DEF WellFormed, Typed, Run
<1>1. <<>> \in Seq(Delivery) /\ ToSet(<<>>) = {} /\ IsInjective(<<>>) /\ Len(<<>>) = 0
  BY DEF ToSet, IsInjective
<1>2. 0 <= MaxActive /\ 0 <= MaxQueued
  BY ConstantsAssumption
<1>3. \A m : Holding(m) \subseteq Delivery /\ Parked(m) \subseteq Delivery
  BY DEF Holding, Parked
<1>4. \A m : Holding(m)' \subseteq Delivery /\ Parked(m)' \subseteq Delivery
  BY DEF Holding, Parked
<1> USE DEF RunStates, Delivering, Outcomes, Refusals
<1>5. CASE BeginShutdown(n)
  <2>0. /\ UNCHANGED <<config, tables, jobs, home, slots, late, sweepVars, fates>>
        /\ mode' = [mode EXCEPT ![n] = "draining"]
        /\ faults' = faults + 1
    BY <1>5 DEF BeginShutdown
  <2>1. CASE config.queued
    <3>1. UNCHANGED <<waiters, run>>
      BY <1>5, <2>1 DEF BeginShutdown
    <3>2. Typed'
      BY <1>0, <2>0, <3>1 DEF Typed, tables, sweepVars, fates
    <3>3. RunsWellFormed'
      BY <1>0, <2>0, <3>1 DEF RunsWellFormed
    <3>4. LimiterWellFormed'
      BY <1>0, <2>0, <3>1, LimiterFrame DEF InSlot, limiter
    <3>. QED  BY <3>2, <3>3, <3>4 DEF WellFormed
  <2>2. CASE ~config.queued
    <3>1. /\ waiters' = [waiters EXCEPT ![n] = <<>>]
          /\ run' = [w \in Run |->
               IF w \in Delivery /\ home[w] = n /\ run[w].at = "parked"
                 THEN [run[w] EXCEPT !.at = "count", !.outcome = "closed"]
                 ELSE run[w]]
      BY <1>5, <2>2 DEF BeginShutdown
    <3>2. \A w \in Run :
            IF w \in Delivery /\ home[w] = n /\ run[w].at = "parked"
              THEN /\ run'[w] \in RunRecord /\ run'[w].at = "count"
                   /\ run'[w].outcome = "closed" /\ run'[w].of = run[w].of
              ELSE run'[w] = run[w]
      BY ZenonT(40), <1>0, <3>1 DEF RunRecord
    <3>3. Typed'
      <4>1. run' \in [Run -> RunRecord]
        BY <1>0, <3>1, <3>2
      <4>. QED  BY <1>0, <1>1, <2>0, <3>1, <4>1 DEF Typed, tables, sweepVars, fates
    <3>4. RunsWellFormed'
      BY <1>0, <2>0, <3>2 DEF RunsWellFormed
    <3>5. LimiterWellFormed'
      <4>1. \A d \in Delivery : /\ InSlot(d)' <=> InSlot(d)
                                /\ run'[d].at = "parked" <=> run[d].at = "parked" /\ home[d] # n
        <5> SUFFICES ASSUME NEW d \in Delivery
                     PROVE  /\ InSlot(d)' <=> InSlot(d)
                            /\ run'[d].at = "parked" <=> run[d].at = "parked" /\ home[d] # n
          OBVIOUS
        <5>1. CASE home[d] = n /\ run[d].at = "parked"
          BY <1>0, <3>2, <5>1 DEF InSlot
        <5>2. CASE ~(home[d] = n /\ run[d].at = "parked")
          BY <1>0, <3>2, <5>2 DEF InSlot
        <5>. QED  BY <5>1, <5>2
      <4>2. UNCHANGED <<home, slots>>
        BY <2>0
      <4>3. ASSUME NEW m \in Node
            PROVE  Holding(m)' = Holding(m)
        <5>1. \A d \in Delivery : d \in Holding(m)' <=> d \in Holding(m)
          BY <4>1, <4>2 DEF Holding
        <5>. QED  BY <1>3, <1>4, <5>1
      <4>4. ASSUME NEW m \in Node, m # n
            PROVE  Parked(m)' = Parked(m)
        <5>1. \A d \in Delivery : d \in Parked(m)' <=> d \in Parked(m)
          BY <4>1, <4>2, <4>4 DEF Parked
        <5>. QED  BY <1>3, <1>4, <5>1
      <4>5. Parked(n)' = {}
        BY <4>1, <4>2 DEF Parked
      <4>6. waiters'[n] = <<>> /\ \A m \in Node \ {n} : waiters'[m] = waiters[m]
        BY <1>0, <3>1 DEF Typed
      <4> SUFFICES ASSUME NEW m \in Node
                   PROVE  /\ slots'[m] = Cardinality(Holding(m)')
                          /\ slots'[m] <= MaxActive
                          /\ waiters'[m] # <<>> => slots'[m] = MaxActive
                          /\ ToSet(waiters'[m]) = Parked(m)'
                          /\ IsInjective(waiters'[m])
                          /\ Len(waiters'[m]) <= MaxQueued
        BY DEF LimiterWellFormed
      <4>7. CASE m = n
        BY <1>0, <1>1, <1>2, <4>2, <4>3, <4>5, <4>6, <4>7 DEF LimiterWellFormed
      <4>8. CASE m # n
        BY <1>0, <4>2, <4>3, <4>4, <4>6, <4>8 DEF LimiterWellFormed
      <4>. QED  BY <4>7, <4>8
    <3>. QED  BY <3>3, <3>4, <3>5 DEF WellFormed
  <2>. QED  BY <1>0, <2>1, <2>2 DEF Typed
<1>6. CASE Reboot(n) /\ faults' \in Nat
  <2>0. /\ mode' = [mode EXCEPT ![n] = "up"]
        /\ slots' = [slots EXCEPT ![n] = 0]
        /\ waiters' = [waiters EXCEPT ![n] = <<>>]
        /\ sweepAt' = [sweepAt EXCEPT ![n] = "idle"]
        /\ sweepList' = [sweepList EXCEPT ![n] = {}]
        /\ late' \subseteq late
        /\ UNCHANGED <<config, tables, home, received, dropped>>
    BY <1>6 DEF Reboot
  <2>1. run' = [w \in Run |->
          CASE w = n -> Fresh(NoDelivery)
            [] w \in Delivery /\ home[w] = n -> Over(w)
            [] OTHER -> run[w]]
    BY <1>6 DEF Reboot
  <2>2. /\ run'[n] = Fresh(NoDelivery)
        /\ \A m \in Node \ {n} : run'[m] = run[m]
        /\ \A d \in Delivery : run'[d] = IF home[d] = n THEN Over(d) ELSE run[d]
    BY <1>0, <2>1
  <2>3. /\ run'[n] \in RunRecord /\ run'[n].at = "idle" /\ run'[n].outcome = "none"
    BY <2>2 DEF Fresh, RunRecord
  <2>4. \A d \in Delivery :
          IF home[d] = n
            THEN /\ run'[d] \in RunRecord /\ run'[d].at = "done" /\ run'[d].of = run[d].of
                 /\ run'[d].outcome = "none"
            ELSE run'[d] = run[d]
    BY <1>0, <2>2, RunEnds
  <2>5. Typed'
    <3>1. run' \in [Run -> RunRecord]
      BY <1>0, <2>1, <2>2, <2>3, <2>4
    <3>2. jobs' \subseteq Job
      <4> DEFINE stalled(j) == [j EXCEPT !.at = "waiting", !.on = NoNode, !.stalls = @ + 1]
                 S == {k \in jobs : k.on = n /\ k.stalls < 2}
      <4>1. \A j \in Job : stalled(j) \in Job
        BY JobMoves
      <4>2. jobs' = {j \in jobs : j.on # n} \cup {stalled(j) : j \in S}
        BY <1>6 DEF Reboot
      <4>3. {j \in jobs : j.on # n} \subseteq Job /\ S \subseteq Job
        BY <1>0 DEF Typed
      <4> HIDE DEF stalled, S
      <4>4. {stalled(j) : j \in S} \subseteq Job
        BY <4>1, <4>3
      <4>. QED  BY <4>2, <4>3, <4>4
    <3>3. stalledOut' \in [Delivery -> BOOLEAN]
      BY <1>0, <1>6 DEF Reboot, Typed
    <3>4. slots' \in [Node -> Int] /\ waiters' \in [Node -> Seq(Delivery)]
      BY <1>0, <1>1, <2>0 DEF Typed
    <3>. QED  BY <1>0, <1>6, <2>0, <3>1, <3>2, <3>3, <3>4 DEF Typed, tables
  <2>6. RunsWellFormed'
    <3>1. UNCHANGED home
      BY <2>0
    <3>. QED  BY <1>0, <2>2, <2>3, <2>4, <3>1 DEF RunsWellFormed
  <2>7. LimiterWellFormed'
    <3>1. UNCHANGED home
      BY <2>0
    <3>2. Holding(n)' = {} /\ Parked(n)' = {}
      BY <2>4, <3>1 DEF Holding, Parked, InSlot
    <3>3. ASSUME NEW m \in Node, m # n
          PROVE  Holding(m)' = Holding(m) /\ Parked(m)' = Parked(m)
      <4>1. \A d \in Delivery : home[d] = m => run'[d] = run[d]
        BY <2>4, <3>3
      <4>2. \A d \in Delivery : /\ d \in Holding(m)' <=> d \in Holding(m)
                                /\ d \in Parked(m)' <=> d \in Parked(m)
        BY <3>1, <4>1 DEF Holding, Parked, InSlot
      <4>. QED  BY <1>3, <1>4, <4>2
    <3>4. /\ waiters'[n] = <<>> /\ slots'[n] = 0
          /\ \A m \in Node \ {n} : waiters'[m] = waiters[m] /\ slots'[m] = slots[m]
      BY <1>0, <2>0 DEF Typed
    <3>5. Cardinality({}) = 0
      BY FS_EmptySet
    <3> SUFFICES ASSUME NEW m \in Node
                 PROVE  /\ slots'[m] = Cardinality(Holding(m)')
                        /\ slots'[m] <= MaxActive
                        /\ waiters'[m] # <<>> => slots'[m] = MaxActive
                        /\ ToSet(waiters'[m]) = Parked(m)'
                        /\ IsInjective(waiters'[m])
                        /\ Len(waiters'[m]) <= MaxQueued
      BY DEF LimiterWellFormed
    <3>6. CASE m = n
      BY <1>1, <1>2, <3>2, <3>4, <3>5, <3>6
    <3>7. CASE m # n
      BY <1>0, <3>3, <3>4, <3>7 DEF LimiterWellFormed
    <3>. QED  BY <3>6, <3>7
  <2>. QED  BY <2>5, <2>6, <2>7 DEF WellFormed
<1>7. CASE DrainEnds(n)
  <2>1. Typed'
    BY <1>0, <1>7 DEF DrainEnds, Typed, tables, limiter, sweepVars, fates
  <2>2. RunsWellFormed'
    BY <1>0, <1>7 DEF DrainEnds, RunsWellFormed
  <2>3. LimiterWellFormed'
    BY <1>0, <1>7, LimiterFrame DEF DrainEnds, InSlot, limiter
  <2>. QED  BY <2>1, <2>2, <2>3 DEF WellFormed
<1>. QED  BY <1>0, <1>5, <1>6, <1>7 DEF Crash, Exit

(* The inductive invariant of the limiter and the runs. *)
LEMMA WellFormedInvariant == Spec => []WellFormed
<1>1. ASSUME WellFormed, [Next]_vars
      PROVE  WellFormed'
  <2>1. ASSUME NEW n \in Node, NEW d \in Delivery, Dispatch(n, d)
        PROVE  WellFormed'
    BY <1>1, <2>1, LiveKeepsWellFormed
  <2>2. ASSUME NEW d \in Delivery, LiveStep(d)
        PROVE  WellFormed'
    BY <1>1, <2>2, LiveKeepsWellFormed
  <2>3. ASSUME NEW w \in Run, Deliver(w)
        PROVE  WellFormed'
    BY <1>1, <2>3, DeliverKeepsWellFormed
  <2>4. ASSUME NEW n \in Node, Sweep(n)
        PROVE  WellFormed'
    BY <1>1, <2>4, SweepKeepsWellFormed
  <2>5. ASSUME NEW n \in Node, BeginShutdown(n) \/ DrainEnds(n) \/ Exit(n) \/ Crash(n)
        PROVE  WellFormed'
    BY <1>1, <2>5, LifeKeepsWellFormed
  <2>6. CASE Work
    BY <1>1, <2>6, WorkKeepsWellFormed
  <2>7. CASE UNCHANGED vars
    <3>1. Typed' /\ RunsWellFormed' /\ UNCHANGED <<run, home, limiter>>
      BY <1>1, <2>7 DEF WellFormed, Typed, RunsWellFormed, vars, tables, limiter, sweepVars, fates
    <3>2. LimiterWellFormed'
      BY <1>1, <3>1, LimiterFrame DEF WellFormed, InSlot, limiter
    <3>. QED  BY <3>1, <3>2 DEF WellFormed
  <2>. QED  BY <1>1, <2>1, <2>2, <2>3, <2>4, <2>5, <2>6, <2>7 DEF Next
<1>. QED  BY <1>1, WellFormedInit, PTL DEF Spec

(* Types, the count of slots included: no run gives back a slot it does    *)
(* not hold.                                                               *)
THEOREM TypeCorrect == Spec => []TypeOK
<1>1. WellFormed => TypeOK
  <2> SUFFICES ASSUME WellFormed
               PROVE  TypeOK
    OBVIOUS
  <2>1. \A n \in Node : slots[n] \in Nat
    <3>1. \A n \in Node : IsFiniteSet(Holding(n))
      BY FS_Subset, ConstantsAssumption DEF Holding
    <3>. QED  BY <3>1, FS_CardinalityType DEF WellFormed, LimiterWellFormed
  <2>2. slots \in [Node -> Nat]
    BY <2>1 DEF WellFormed, Typed
  <2>. QED  BY <2>2 DEF WellFormed, Typed, TypeOK
<1>. QED  BY <1>1, WellFormedInvariant, PTL

(* ConcurrencyLimiter: at most MaxActive deliveries at a time, a slot for  *)
(* each and none for another, and nobody parked while a slot is free, over *)
(* every interleaving of dispatches, conclusions, shutdowns and crashes.   *)
THEOREM SlotsAreRunsAlways == Spec => []SlotsAreRuns
<1>1. WellFormed => SlotsAreRuns
  <2> SUFFICES ASSUME WellFormed, NEW n \in Node
               PROVE  LET mine(states) == {d \in Delivery :
                                             /\ home[d] = n
                                             /\ run[d].at \in states
                                             /\ run[d].outcome \notin {"full", "closed"}}
                      IN  /\ slots[n] = Cardinality(mine(Delivering))
                          /\ slots[n] <= MaxActive
                          /\ waiters[n] # <<>> => slots[n] = MaxActive
                          /\ ToSet(waiters[n]) = mine({"parked"})
                          /\ Len(waiters[n]) <= MaxQueued
    BY DEF SlotsAreRuns
  <2> DEFINE mine(states) == {d \in Delivery : /\ home[d] = n
                                               /\ run[d].at \in states
                                               /\ run[d].outcome \notin {"full", "closed"}}
  <2>1. mine(Delivering) = Holding(n)
    BY DEF Holding, InSlot, Refusals
  <2>2. mine({"parked"}) = Parked(n)
    BY DEF Parked, WellFormed, RunsWellFormed, Refusals
  <2>. QED  BY <2>1, <2>2 DEF WellFormed, LimiterWellFormed
<1>. QED  BY <1>1, WellFormedInvariant, PTL
-----------------------------------------------------------------------------
(* The account of a delivery, when the bookkeeping succeeds.               *)

(* Nothing that can be shown for a delivery is taken back: marks stay, and *)
(* a job only goes once its delivery is received, reported or given up.    *)
LEMMA AccountKept ==
  ASSUME ~StoreFails, WellFormed, [Next]_vars, NEW d \in Delivery, Accounted(d)
  PROVE  Accounted(d)'
<1>0. Typed /\ RunsWellFormed
  BY DEF WellFormed
<1>1. ASSUME received[d] => received'[d],
             failures[d] > 0 => failures'[d] > 0,
             dropped[d] => dropped'[d],
             stalledOut[d] => stalledOut'[d],
             \A j \in jobs : j.of = d => Accounted(d)'
      PROVE  Accounted(d)'
  BY <1>1 DEF Accounted
<1>2. ASSUME UNCHANGED <<failures, fates>>, jobs \subseteq jobs'
      PROVE  Accounted(d)'
  BY <1>2 DEF Accounted, fates
<1>3. ASSUME NEW w \in Run, Deliver(w)
      PROVE  Accounted(d)'
  <2>0. run[w].of \in Delivery
    BY <1>0, <1>3, DeliverStep
  <2>1. CASE Preflight(w)
    BY <1>0, <2>0, <2>1 DEF Preflight, Accounted, Typed, tables
  <2>2. CASE Enqueue(w)
    <3>1. jobs \subseteq jobs'
      BY <1>0, <2>0, <2>2, AddJobAdds DEF Enqueue
    <3>. QED  BY <1>2, <2>2, <3>1 DEF Enqueue, tables
  <2>3. CASE Post(w)
    BY <1>0, <2>0, <2>3 DEF Post, Accounted, Typed, tables
  <2>4. CASE CountFailures(w)
    BY <1>2, <2>4 DEF CountFailures, tables
  <2>5. CASE InsertFailure(w)
    <3>1. failures[d] > 0 => failures'[d] > 0
      <4>1. failures' = [failures EXCEPT ![run[w].of] = failures[run[w].of] + 1]
        BY <2>5 DEF InsertFailure, QueryFails
      <4>. QED  BY <1>0, <2>0, <4>1 DEF Typed
    <3>. QED  BY <2>5, <3>1 DEF InsertFailure, Accounted, fates
  <2>. QED  BY <1>3, <2>1, <2>2, <2>3, <2>4, <2>5 DEF Deliver
<1>4. ASSUME NEW j \in jobs, ProcessJob(j)
      PROVE  Accounted(d)'
  <2>0. j.of \in Delivery /\ j \in Job
    BY <1>0, JobMoves DEF Typed
  <2>1. /\ received[d] => received'[d]
        /\ UNCHANGED <<failures, dropped, stalledOut>>
    BY <1>0, <1>4, <2>0 DEF ProcessJob, Typed, tables
  <2>2. ASSUME NEW i \in jobs, i.of = d
        PROVE  Accounted(d)'
    <3>1. CASE i # j
      <4>1. i \in jobs'
        BY <1>4, <3>1 DEF ProcessJob, Replace
      <4>. QED  BY <2>2, <4>1 DEF Accounted
    <3>2. CASE i = j /\ received' = [received EXCEPT ![j.of] = TRUE]
      BY <1>0, <2>2, <3>2 DEF Accounted, Typed
    <3>3. CASE i = j /\ \E k : k.of = j.of /\ Replace(j, k)
      BY <2>2, <3>3 DEF Accounted, Replace
    <3>4. /\ [j EXCEPT !.at = "count"].of = j.of
          /\ [j EXCEPT !.at = "waiting", !.on = NoNode, !.made = @ + 1].of = j.of
      BY <2>0 DEF Job
    <3>. QED  BY <1>4, <3>1, <3>2, <3>3, <3>4 DEF ProcessJob
  <2>. QED  BY <1>1, <2>1, <2>2
<1>5. ASSUME NEW j \in jobs, CountJobFailures(j)
      PROVE  Accounted(d)'
  <2>0. j.of \in Delivery /\ j \in Job
    BY <1>0, JobMoves DEF Typed
  <2>1. UNCHANGED <<failures, fates>>
    BY <1>5 DEF CountJobFailures, tables
  <2>2. CASE failures[j.of] > 0 /\ jobs' = jobs \ {j}
    BY <2>1, <2>2 DEF Accounted, fates
  <2>3. CASE Replace(j, [j EXCEPT !.at = "insert"])
    <3>1. [j EXCEPT !.at = "insert"].of = j.of
      BY <2>0 DEF Job
    <3>. QED  BY <2>1, <2>3, <3>1 DEF Accounted, Replace, fates
  <2>. QED  BY <1>5, <2>2, <2>3 DEF CountJobFailures, QueryFails
<1>6. ASSUME NEW j \in jobs, InsertJobFailure(j)
      PROVE  Accounted(d)'
  <2>0. j.of \in Delivery
    BY <1>0, JobMoves DEF Typed
  <2>1. /\ failures' = [failures EXCEPT ![j.of] = failures[j.of] + 1]
        /\ jobs' = jobs \ {j}
        /\ UNCHANGED fates
    BY <1>6 DEF InsertJobFailure, QueryFails
  <2>2. failures[d] > 0 => failures'[d] > 0
    BY <1>0, <2>0, <2>1 DEF Typed
  <2>3. j.of = d => failures'[d] > 0
    BY <1>0, <2>0, <2>1 DEF Typed
  <2>. QED  BY <2>1, <2>2, <2>3 DEF Accounted, fates
<1>7. ASSUME NEW j \in jobs, NEW n \in Node, TakeJob(n, j)
      PROVE  Accounted(d)'
  <2> DEFINE k == [j EXCEPT !.at = IF j.stalls >= 2 THEN "count" ELSE "active", !.on = n]
  <2>1. k.of = j.of
    BY <1>0 DEF Typed, Job
  <2>2. Replace(j, k) /\ UNCHANGED <<failures, fates>>
    BY <1>7 DEF TakeJob, tables
  <2> HIDE DEF k
  <2>. QED  BY <2>1, <2>2 DEF Accounted, Replace, fates
<1>8. ASSUME NEW n \in Node, Reboot(n)
      PROVE  Accounted(d)'
  <2> DEFINE stalled(j) == [j EXCEPT !.at = "waiting", !.on = NoNode, !.stalls = @ + 1]
  <2>1. /\ UNCHANGED <<failures, received, dropped>>
        /\ stalledOut'[d] = (stalledOut[d]
             \/ \E j \in jobs : j.of = d /\ j.on = n /\ j.stalls >= 2)
        /\ jobs' = {j \in jobs : j.on # n} \cup
             {stalled(j) : j \in {k \in jobs : k.on = n /\ k.stalls < 2}}
    BY <1>0, <1>8 DEF Reboot, Typed, tables
  <2>2. \A j \in jobs : stalled(j).of = j.of /\ j.stalls \in Nat
    BY <1>0 DEF Typed, Job
  <2> HIDE DEF stalled
  <2>3. ASSUME NEW j \in jobs, j.of = d
        PROVE  Accounted(d)'
    <3>1. CASE j.on # n
      BY <2>1, <2>3, <3>1 DEF Accounted
    <3>2. CASE j.on = n /\ j.stalls < 2
      <4>1. stalled(j) \in jobs'
        BY <2>1, <3>2
      <4>. QED  BY <2>2, <2>3, <4>1 DEF Accounted
    <3>3. CASE j.on = n /\ j.stalls >= 2
      BY <2>1, <2>3, <3>3 DEF Accounted
    <3>. QED  BY <2>2, <3>1, <3>2, <3>3
  <2>. QED  BY <1>1, <2>1, <2>3
<1>9. ASSUME NEW n \in Node, Sweep(n)
      PROVE  Accounted(d)'
  <2>1. /\ UNCHANGED <<failures, jobs, received, stalledOut>>
        /\ dropped[d] => dropped'[d]
    <3>1. CASE BeginSweep(n)
      BY <3>1 DEF BeginSweep, tables, fates
    <3>2. ASSUME NEW r \in sweepList[n],
                 CloseSpent(n, r) \/ CloseUnsubscribed(n, r) \/ CountAttempt(n, r)
                 \/ ConcludeReplay(n, r)
          PROVE  UNCHANGED <<failures, jobs, fates>>
      BY <3>2 DEF CloseSpent, CloseUnsubscribed, CountAttempt, ConcludeReplay
    <3>3. ASSUME NEW r \in sweepList[n], FindWebhook(n, r)
          PROVE  /\ UNCHANGED <<failures, jobs, received, stalledOut>>
                 /\ dropped[d] => dropped'[d]
      BY <1>0, <3>3 DEF FindWebhook, Typed, tables
    <3>. QED  BY <1>9, <3>1, <3>2, <3>3 DEF Sweep, fates
  <2>. QED  BY <2>1 DEF Accounted
<1>10. ASSUME UNCHANGED <<failures, jobs, fates>>
       PROVE  Accounted(d)'
  BY <1>10 DEF Accounted, fates
<1>11. ASSUME NEW n \in Node, NEW e \in Delivery, Dispatch(n, e)
       PROVE  Accounted(d)'
  BY <1>10, <1>11 DEF Dispatch, tables
<1>12. ASSUME NEW e \in Delivery, LiveStep(e)
       PROVE  Accounted(d)'
  BY <1>10, <1>12 DEF LiveStep, Open, Admit, ConcludeDispatch, tables
<1>13. ASSUME NEW n \in Node, BeginShutdown(n)
       PROVE  Accounted(d)'
  BY <1>10, <1>13 DEF BeginShutdown, tables
<1>14. ASSUME UNCHANGED vars
       PROVE  Accounted(d)'
  BY <1>10, <1>14 DEF vars, tables
<1>15. ASSUME NEW n \in Node, DrainEnds(n)
       PROVE  Accounted(d)'
  BY <1>10, <1>15 DEF DrainEnds, tables
<1>. QED  BY <1>3, <1>4, <1>5, <1>6, <1>7, <1>8, <1>9, <1>11, <1>12, <1>13, <1>14, <1>15
          DEF Next, Work, Crash, Exit

(* Where a run only gets in deliverOne(), past its preflight. *)
Beyond == {"enqueue", "insert", "conclude"}

LEMMA OnlyDeliverGetsThere ==
  ASSUME Typed, RunsWellFormed, [Next]_vars, NEW w \in Run, run'[w].at \in Beyond
  PROVE  run'[w] = run[w] \/ (Deliver(w) /\ run'[w].of = run[w].of)
<1>0. run[w] \in RunRecord /\ run \in [Run -> RunRecord]
  BY DEF Typed
<1>1. ASSUME NEW v \in Run, Deliver(v)
      PROVE  run'[v].of = run[v].of /\ \A u \in Run \ {v} : run'[u] = run[u]
  BY <1>1, DeliverStep DEF Moved
<1>2. ASSUME NEW n \in Node, NEW d \in Delivery, Dispatch(n, d)
      PROVE  run'[w].at \notin Beyond \/ run'[w] = run[w]
  BY <1>0, <1>2 DEF Dispatch, RunRecord, Beyond
<1>3. ASSUME NEW d \in Delivery, LiveStep(d)
      PROVE  run'[w].at \notin Beyond \/ run'[w] = run[w]
  <2>1. CASE Open(d)
    BY <1>0, <2>1 DEF Open, RunRecord, Beyond
  <2>2. CASE Admit(d)
    BY <1>0, <2>2 DEF Admit, RunRecord, Beyond
  <2>3. CASE ConcludeDispatch(d)
    <3>1. Over(d).at = "done"
      BY <1>0, <1>3, RunEnds DEF Run
    <3>. QED  BY <1>0, <2>3, <3>1 DEF ConcludeDispatch, RunRecord, Beyond
  <2>. QED  BY <1>3, <2>1, <2>2, <2>3 DEF LiveStep
<1>4. ASSUME NEW n \in Node, Sweep(n)
      PROVE  run'[w].at \notin Beyond \/ run'[w] = run[w]
  <2>1. CASE UNCHANGED run
    BY <2>1
  <2>2. ASSUME NEW r, CountAttempt(n, r)
        PROVE  run'[w].at \notin Beyond \/ run'[w] = run[w]
    <3> DEFINE x == [at |-> "preflight", of |-> r.of, try |-> 0, outcome |-> "none"]
    <3>1. x.at = "preflight" /\ run' = [run EXCEPT ![n] = x]
      BY <2>2 DEF CountAttempt
    <3> HIDE DEF x
    <3>. QED  BY <1>0, <3>1 DEF Beyond
  <2>3. ASSUME NEW r, ConcludeReplay(n, r)
        PROVE  run'[w].at \notin Beyond \/ run'[w] = run[w]
    BY <1>0, <2>3 DEF ConcludeReplay, Fresh, Beyond
  <2>. QED  BY <1>4, <2>1, <2>2, <2>3
            DEF Sweep, BeginSweep, CloseSpent, FindWebhook, CloseUnsubscribed
<1>5. ASSUME NEW n \in Node, BeginShutdown(n)
      PROVE  run'[w].at \notin Beyond \/ run'[w] = run[w]
  <2>1. CASE UNCHANGED run
    BY <2>1
  <2>2. ASSUME run' # run
        PROVE  run'[w] \in {[run[w] EXCEPT !.at = "count", !.outcome = "closed"], run[w]}
    BY <1>5, <2>2 DEF BeginShutdown
  <2>3. [run[w] EXCEPT !.at = "count", !.outcome = "closed"].at = "count"
    BY <1>0 DEF RunRecord
  <2> DEFINE x == [run[w] EXCEPT !.at = "count", !.outcome = "closed"]
  <2> HIDE DEF x
  <2>. QED  BY <2>1, <2>2, <2>3 DEF x, Beyond
<1>6. ASSUME NEW n \in Node, Reboot(n)
      PROVE  run'[w].at \notin Beyond \/ run'[w] = run[w]
  <2>1. Over(w).at = "done"
    BY <1>0, RunEnds
  <2>2. run'[w] \in {Fresh(NoDelivery), Over(w), run[w]}
    BY <1>6 DEF Reboot
  <2>. QED  BY <2>1, <2>2 DEF Fresh, Beyond
<1>7. ASSUME Work \/ UNCHANGED vars \/ \E n \in Node : DrainEnds(n)
      PROVE  UNCHANGED run
  BY <1>7 DEF Work, ProcessJob, CountJobFailures, InsertJobFailure, TakeJob, DrainEnds, vars
<1>. QED  BY <1>1, <1>2, <1>3, <1>4, <1>5, <1>6, <1>7 DEF Next, Crash, Exit

(* A run concludes with something to show, and keeps it. *)
LEMMA ConcludedStep ==
  ASSUME ~StoreFails, WellFormed, ConcludedIsAccounted, [Next]_vars
  PROVE  ConcludedIsAccounted'
<1>0. Typed /\ RunsWellFormed
  BY DEF WellFormed
<1>1. ASSUME NEW w \in Run, run'[w].at = "conclude"
      PROVE  \/ /\ run[w].at = "conclude"
                /\ run'[w].of = run[w].of
             \/ Deliver(w) /\ run'[w].of = run[w].of
  <2>1. run'[w].at \in Beyond
    BY <1>1 DEF Beyond
  <2>. QED  BY <1>0, <1>1, <2>1, OnlyDeliverGetsThere
<1>2. ASSUME NEW w \in Run, run'[w].at = "conclude"
      PROVE  Accounted(run[w].of)'
  <2>1. CASE run[w].at = "conclude" /\ run'[w].of = run[w].of
    <3>1. Accounted(run[w].of) /\ run[w].of \in Delivery
      BY <1>0, <2>1 DEF ConcludedIsAccounted, RunsWellFormed, Run
    <3>2. PICK d \in Delivery : d = run[w].of
      BY <3>1
    <3>3. Accounted(d)'
      BY <3>1, <3>2, AccountKept
    <3>4. run'[w].of = d
      BY <2>1, <3>2
    <3>. QED  BY <3>3, <3>4
  <2>2. CASE Deliver(w) /\ run'[w].of = run[w].of
    <3>1. PICK a \in RunStates, t \in Nat, o \in Outcomes :
            Moved(w, a, t, o) /\ (~StoreFails /\ a = "conclude" => Accounted(run[w].of)')
      BY <1>0, <2>2, DeliverStep
    <3>. QED  BY <1>2, <3>1 DEF Moved
  <2>. QED  BY <1>1, <1>2, <2>1, <2>2
<1>. QED  BY <1>2 DEF ConcludedIsAccounted

(* The invariant of the account, with what makes it inductive. *)
AccountInvariant == WellFormed /\ ConcludedIsAccounted /\ DispatchedIsAccounted

(* It holds at first, and every step keeps it. *)
LEMMA AccountInductive ==
  ASSUME ~StoreFails
  PROVE  Spec => []AccountInvariant
<1>1. Init => AccountInvariant
  <2> SUFFICES ASSUME Init
               PROVE  AccountInvariant
    OBVIOUS
  <2>1. ConcludedIsAccounted
    BY DEF Init, Fresh, ConcludedIsAccounted
  <2>2. DispatchedIsAccounted
    BY DEF Init, DispatchedIsAccounted
  <2>. QED  BY <2>1, <2>2, WellFormedInit DEF AccountInvariant
<1>2. ASSUME AccountInvariant, WellFormed', [Next]_vars
      PROVE  AccountInvariant'
  <2>0. WellFormed /\ ConcludedIsAccounted /\ DispatchedIsAccounted /\ Typed /\ RunsWellFormed
    BY <1>2 DEF AccountInvariant, WellFormed
  <2>1. ConcludedIsAccounted'
    BY <1>2, <2>0, ConcludedStep
  <2>2. \A d \in Delivery : Accounted(d) => Accounted(d)'
    BY <1>2, <2>0, AccountKept
  <2>3. ASSUME NEW d \in Delivery, row'[d] = "dispatched", row[d] # "dispatched"
        PROVE  Accounted(d)
    <3>1. ASSUME NEW e, NEW x, CloseRow(e, x)
          PROVE  d = e /\ x = "dispatched"
      BY <2>0, <2>3, <3>1 DEF CloseRow, Typed
    <3>2. row' # row
      BY <2>3
    <3>3. ASSUME NEW e \in Delivery, LiveStep(e)
          PROVE  Accounted(d)
      <4>1. CASE Open(e)
        BY <2>0, <2>3, <4>1 DEF Open, Typed
      <4>2. CASE Admit(e)
        BY <3>2, <4>2 DEF Admit, tables
      <4>3. CASE ConcludeDispatch(e)
        <5>1. d = e /\ run[e].at = "conclude" /\ run[e].of = e /\ e \in Run
          BY <2>0, <3>1, <3>2, <4>3 DEF ConcludeDispatch, RunsWellFormed, Run
        <5>. QED  BY <2>0, <5>1 DEF ConcludedIsAccounted
      <4>. QED  BY <3>3, <4>1, <4>2, <4>3 DEF LiveStep
    <3>4. ASSUME NEW n \in Node, Sweep(n)
          PROVE  Accounted(d)
      <4>1. ASSUME NEW r \in sweepList[n], CloseSpent(n, r) \/ CloseUnsubscribed(n, r)
            PROVE  FALSE
        BY <3>1, <3>2, <4>1 DEF CloseSpent, CloseUnsubscribed
      <4>2. ASSUME NEW r \in sweepList[n], ConcludeReplay(n, r)
            PROVE  Accounted(d)
        <5>1. d = run[n].of /\ run[n].at = "conclude" /\ n \in Run
          BY <3>1, <3>2, <4>2 DEF ConcludeReplay, Run
        <5>. QED  BY <2>0, <5>1 DEF ConcludedIsAccounted
      <4>3. ASSUME NEW r \in sweepList[n],
                   BeginSweep(n) \/ FindWebhook(n, r) \/ CountAttempt(n, r)
            PROVE  FALSE
        BY <3>2, <4>3 DEF BeginSweep, FindWebhook, CountAttempt, tables
      <4>4. ASSUME BeginSweep(n)
            PROVE  FALSE
        BY <3>2, <4>4 DEF BeginSweep, tables
      <4>. QED  BY <3>4, <4>1, <4>2, <4>3, <4>4 DEF Sweep
    <3>5. ASSUME NEW w \in Run, Deliver(w)
          PROVE  FALSE
      BY <2>0, <3>2, <3>5, DeliverStep
    <3>6. ASSUME NEW n \in Node, NEW e \in Delivery, Dispatch(n, e)
          PROVE  FALSE
      BY <3>2, <3>6 DEF Dispatch, tables
    <3>7. ASSUME NEW n \in Node, BeginShutdown(n) \/ DrainEnds(n) \/ Crash(n) \/ Exit(n)
          PROVE  FALSE
      BY <3>2, <3>7 DEF BeginShutdown, DrainEnds, Crash, Exit, Reboot, tables
    <3>8. ASSUME Work \/ UNCHANGED vars
          PROVE  FALSE
      BY <3>2, <3>8 DEF Work, ProcessJob, CountJobFailures, InsertJobFailure, TakeJob,
                        vars, tables
    <3>. QED  BY <1>2, <3>3, <3>4, <3>5, <3>6, <3>7, <3>8 DEF Next
  <2>4. DispatchedIsAccounted'
    BY <2>0, <2>2, <2>3 DEF DispatchedIsAccounted
  <2>. QED  BY <1>2, <2>1, <2>4 DEF AccountInvariant
<1>. QED  BY <1>1, <1>2, WellFormedInvariant, PTL DEF Spec

(* The outbox: a row is retired as dispatched only when the receiver has   *)
(* the event, a failure row reports it, a job carries it, or somebody      *)
(* decided against it.  Nothing replays a retired row, so this is what     *)
(* keeps a delivery from being lost, whatever crashes, sweeps and          *)
(* shutdowns come in between.                                              *)
THEOREM DispatchedIsAccountedAlways ==
  ASSUME ~StoreFails
  PROVE  Spec => []DispatchedIsAccounted
<1>1. AccountInvariant => DispatchedIsAccounted
  BY DEF AccountInvariant
<1>. QED  BY <1>1, AccountInductive, PTL

(* What there is to show for a delivery is never lost again.               *)
THEOREM AccountedIsStableAlways ==
  ASSUME ~StoreFails
  PROVE  Spec => AccountedIsStable
<1>1. ASSUME WellFormed, [Next]_vars
      PROVE  [\A d \in Delivery : Accounted(d) => Accounted(d)']_vars
  BY <1>1, AccountKept
<1>. QED  BY <1>1, WellFormedInvariant, PTL DEF Spec, AccountedIsStable

(* Whoever is still at the limiter of a process that is about to go came   *)
(* there after the last look of its drain, and without the queue to be     *)
(* refused.  "full" is a refusal, and nobody waits for its record.         *)
AtLimiter(d) == run[d].at \in Delivering \cup {"parked"} /\ run[d].outcome # "full"

LeftAreLate ==
  \A n \in Node : mode[n] = "leaving" =>
    \A d \in Delivery : home[d] = n /\ AtLimiter(d) =>
      d \in late /\ (config.queued \/ run[d].outcome = "closed")

(* A step that brings nobody to the limiter of a process about to go.      *)
LEMMA LateFrame ==
  ASSUME LeftAreLate, config' = config,
         NEW n \in Node, mode'[n] = "leaving" => mode[n] = "leaving",
         NEW d \in Delivery, mode'[n] = "leaving", home'[d] = n, AtLimiter(d)',
         home[d] = n, d \in late => d \in late',
         AtLimiter(d), run[d].outcome = "closed" => run'[d].outcome = "closed"
  PROVE  d \in late' /\ (config'.queued \/ run'[d].outcome = "closed")
BY DEF LeftAreLate

(* The last look finds nobody: with no slot taken nobody holds one and     *)
(* nobody is parked, and a refusal it waits for has been recorded.         *)
LEMMA DrainedIsEmpty ==
  ASSUME WellFormed, NEW n \in Node, Drained(n), NEW d \in Delivery, home[d] = n
  PROVE  ~AtLimiter(d)
<1>0. RunsWellFormed /\ LimiterWellFormed /\ slots[n] = 0
      /\ (run[d].outcome = "closed" => run[d].at = "done")
  BY DEF WellFormed, Drained
<1>1. Holding(n) = {}
  <2>1. IsFiniteSet(Holding(n))
    BY ConstantsAssumption, FS_Subset DEF Holding
  <2>. QED  BY <1>0, <2>1, FS_EmptySet DEF LimiterWellFormed
<1>2. Parked(n) = {}
  <2>1. waiters[n] = <<>>
    BY <1>0, ConstantsAssumption DEF LimiterWellFormed
  <2>2. ToSet(waiters[n]) = {}
    BY <2>1 DEF ToSet
  <2>. QED  BY <1>0, <2>2 DEF LimiterWellFormed
<1>. QED  BY <1>0, <1>1, <1>2 DEF AtLimiter, Holding, Parked, InSlot, Refusals, Delivering

LEMMA LeftAreLateKept ==
  ASSUME DrainPatient, WellFormed, LeftAreLate, [Next]_vars
  PROVE  LeftAreLate'
<1>0. /\ Typed /\ RunsWellFormed /\ LimiterWellFormed
      /\ run \in [Run -> RunRecord] /\ \A w \in Run : run[w] \in RunRecord
      /\ Delivery \subseteq Run /\ Node \cap Delivery = {}
      /\ mode \in [Node -> {"off", "up", "draining", "leaving"}]
      /\ home \in [Delivery -> Node \cup {NoNode}]
  BY ConstantsAssumption DEF WellFormed, Typed, Run
<1>1. SUFFICES ASSUME NEW n \in Node, NEW d \in Delivery,
                      mode'[n] = "leaving", home'[d] = n, AtLimiter(d)'
               PROVE  d \in late' /\ (config'.queued \/ run'[d].outcome = "closed")
  BY DEF LeftAreLate
<1> DEFINE Goal == d \in late' /\ (config'.queued \/ run'[d].outcome = "closed")
<1>2. ASSUME UNCHANGED <<config, mode, home, late>>, run'[d] = run[d]
      PROVE  Goal
  BY <1>1, <1>2, LateFrame DEF AtLimiter
<1>3. ASSUME NEW m \in Node, NEW e \in Delivery, Dispatch(m, e)
      PROVE  Goal
  <2>1. UNCHANGED <<config, mode, late>> /\ run' = [run EXCEPT ![e].at = "opening"]
        /\ home' = [home EXCEPT ![e] = m]
    BY <1>3 DEF Dispatch, limiter
  <2>2. d # e
    BY <1>0, <1>1, <2>1 DEF AtLimiter, Delivering, RunRecord
  <2>3. run'[d] = run[d] /\ home'[d] = home[d]
    BY <1>0, <2>1, <2>2
  <2>. QED  BY <1>1, <2>1, <2>3, LateFrame DEF AtLimiter
<1>4. ASSUME NEW e \in Delivery, Open(e)
      PROVE  Goal
  <2>1. UNCHANGED <<config, mode, home, late>> /\ run' = [run EXCEPT ![e].at = "opened"]
    BY <1>4 DEF Open, limiter
  <2>2. d # e
    BY <1>0, <1>1, <2>1 DEF AtLimiter, Delivering, RunRecord
  <2>. QED  BY <1>0, <1>2, <2>1, <2>2
<1>5. ASSUME NEW e \in Delivery, Admit(e)
      PROVE  Goal
  <2>1. UNCHANGED <<config, mode, home>>
        /\ late' = IF mode[home[e]] = "leaving" THEN late \cup {e} ELSE late
    BY <1>5 DEF Admit
  <2>2. CASE d = e
    <3>1. mode[home[d]] = "leaving" /\ d \in late'
      BY <1>1, <2>1, <2>2
    <3>2. ~config.queued => Closed(home[d])
      BY <3>1 DEF Closed
    <3>3. ~config.queued => run' = [run EXCEPT ![d].at = "count", ![d].outcome = "closed"]
      BY <1>5, <2>2, <3>2 DEF Admit
    <3>4. ~config.queued => run'[d].outcome = "closed"
      BY <1>0, <3>3 DEF RunRecord
    <3>. QED  BY <2>1, <3>1, <3>4
  <2>3. CASE d # e
    <3>1. run'[d] = run[d] /\ late \subseteq late'
      BY <1>0, <1>5, <2>1, <2>3 DEF Admit
    <3>. QED  BY <1>1, <2>1, <3>1, LateFrame DEF AtLimiter
  <2>. QED  BY <2>2, <2>3
<1>6. ASSUME NEW e \in Delivery, ConcludeDispatch(e)
      PROVE  Goal
  <2>1. UNCHANGED <<config, mode, home, late>>
    BY <1>6 DEF ConcludeDispatch
  <2>2. Over(e).at = "done"
    BY <1>0, RunEnds
  <2>3. d # e
    <3>0. e \in Run
      BY <1>0
    <3>1. run'[e] = CASE e = e -> Over(e)
                      [] waiters[home[e]] # <<>> /\ e = Head(waiters[home[e]]) ->
                           [run[e] EXCEPT !.at = "preflight"]
                      [] OTHER -> run[e]
      BY <3>0, <1>6 DEF ConcludeDispatch
    <3>2. run'[e] = Over(e)
      <4>1. CASE waiters[home[e]] # <<>> /\ e = Head(waiters[home[e]])
        <5>1. home[e] \in Node
          BY <1>0, <1>6 DEF ConcludeDispatch, RunsWellFormed
        <5>2. /\ waiters[home[e]] \in Seq(Delivery) /\ IsInjective(waiters[home[e]])
              /\ ToSet(waiters[home[e]]) = Parked(home[e])
          BY <1>0, <5>1 DEF LimiterWellFormed, Typed
        <5>3. e \in Parked(home[e])
          BY <4>1, <5>2, LineShrinks
        <5>. QED  BY <1>6, <5>3 DEF Parked, ConcludeDispatch
      <4>. QED  BY <3>1, <4>1
    <3>. QED  BY <1>1, <2>2, <3>2 DEF AtLimiter, Delivering
  <2>4. CASE run'[d] = run[d]
    BY <1>2, <2>1, <2>4
  <2>5. CASE run'[d] # run[d]
    <3>0. home[e] \in Node
      BY <1>0, <1>6 DEF ConcludeDispatch, RunsWellFormed
    <3>1. waiters[home[e]] # <<>> /\ d = Head(waiters[home[e]])
          /\ run'[d] = [run[d] EXCEPT !.at = "preflight"]
      BY <1>0, <1>6, <2>3, <2>5 DEF ConcludeDispatch
    <3>2. /\ waiters[home[e]] \in Seq(Delivery) /\ IsInjective(waiters[home[e]])
          /\ ToSet(waiters[home[e]]) = Parked(home[e])
      BY <1>0, <3>0 DEF LimiterWellFormed, Typed
    <3>3. d \in Parked(home[e])
      BY <3>1, <3>2, LineShrinks
    <3>4. run[d].at = "parked" /\ run[d].outcome # "full"
      BY <1>0, <3>3 DEF Parked, RunsWellFormed, Refusals
    <3>5. run'[d].outcome = run[d].outcome
      BY <1>0, <3>1 DEF RunRecord
    <3>. QED  BY <1>1, <2>1, <3>4, <3>5, LateFrame DEF AtLimiter
  <2>. QED  BY <2>4, <2>5
<1>7. ASSUME NEW w \in Run, Deliver(w)
      PROVE  Goal
  <2>1. UNCHANGED <<config, mode, home, late>> /\ run[w].at \in Delivering
    BY <1>0, <1>7, DeliverStep DEF limiter
  <2>2. PICK a \in RunStates, t \in Nat, o \in Outcomes :
          Moved(w, a, t, o)
          /\ (o \in Refusals \/ run[w].outcome \in Refusals => o = run[w].outcome)
    BY <1>0, <1>7, DeliverStep
  <2>3. CASE d = w
    <3>1. run'[d].outcome = o
      BY <2>2, <2>3 DEF Moved
    <3>. QED  BY <1>1, <2>1, <2>2, <2>3, <3>1, LateFrame DEF AtLimiter, Refusals
  <2>4. CASE d # w
    BY <1>0, <1>2, <2>1, <2>2, <2>4 DEF Moved
  <2>. QED  BY <2>3, <2>4
<1>8. ASSUME NEW m \in Node, Sweep(m)
      PROVE  Goal
  <2>1. UNCHANGED <<config, mode, home, late>> /\ run'[d] = run[d]
    BY <1>0, <1>8 DEF Sweep, BeginSweep, CloseSpent, FindWebhook, CloseUnsubscribed, CountAttempt,
                      ConcludeReplay, limiter
  <2>. QED  BY <1>2, <2>1
<1>9. ASSUME NEW m \in Node, BeginShutdown(m)
      PROVE  Goal
  <2>1. UNCHANGED <<config, home, late>> /\ mode' = [mode EXCEPT ![m] = "draining"]
    BY <1>9 DEF BeginShutdown
  <2>2. n # m /\ mode[n] = "leaving"
    BY <1>0, <1>1, <2>1
  <2>3. run'[d] = run[d]
    <3>1. home[d] # m
      BY <1>1, <2>1, <2>2
    <3>2. \/ UNCHANGED run
          \/ run' = [w \in Run |->
               IF w \in Delivery /\ home[w] = m /\ run[w].at = "parked"
                 THEN [run[w] EXCEPT !.at = "count", !.outcome = "closed"]
                 ELSE run[w]]
      BY <1>9 DEF BeginShutdown
    <3>. QED  BY <1>0, <3>1, <3>2
  <2>. QED  BY <1>1, <2>1, <2>2, <2>3, LateFrame DEF AtLimiter
<1>10. ASSUME NEW m \in Node, DrainEnds(m)
       PROVE  Goal
  <2>1. UNCHANGED <<config, home, run, late>> /\ mode' = [mode EXCEPT ![m] = "leaving"]
        /\ Drained(m)
    BY <1>10 DEF DrainEnds, limiter
  <2>2. AtLimiter(d) /\ home[d] = n
    BY <1>1, <2>1 DEF AtLimiter
  <2>3. n # m
    BY <2>1, <2>2, DrainedIsEmpty
  <2>4. mode[n] = "leaving"
    BY <1>0, <1>1, <2>1, <2>3
  <2>. QED  BY <1>1, <2>1, <2>2, <2>4, LateFrame
<1>11. ASSUME NEW m \in Node, Reboot(m)
       PROVE  Goal
  <2>1. UNCHANGED <<config, home>> /\ mode' = [mode EXCEPT ![m] = "up"]
        /\ late' = {e \in late : home[e] # m}
    BY <1>11 DEF Reboot
  <2>2. n # m /\ mode[n] = "leaving"
    BY <1>0, <1>1, <2>1
  <2>3. run'[d] = run[d] /\ (d \in late => d \in late')
    BY <1>0, <1>1, <1>11, <2>1, <2>2 DEF Reboot
  <2>. QED  BY <1>1, <2>1, <2>2, <2>3, LateFrame DEF AtLimiter
<1>12. ASSUME Work \/ UNCHANGED vars
       PROVE  Goal
  <2>1. UNCHANGED <<config, mode, home, late, run>>
    BY <1>12 DEF Work, ProcessJob, CountJobFailures, InsertJobFailure, TakeJob, vars, limiter
  <2>. QED  BY <1>2, <2>1
<1>. QED  BY <1>3, <1>4, <1>5, <1>6, <1>7, <1>8, <1>9, <1>10, <1>11, <1>12
          DEF Next, LiveStep, Crash, Exit

(* A shutdown that waits long enough leaves only those behind that came to *)
(* the limiter after its last look, and without the queue none of these is *)
(* being delivered.                                                        *)
THEOREM ShutdownIsCleanAlways ==
  ASSUME DrainPatient
  PROVE  Spec => ShutdownIsClean
<1>1. Init => LeftAreLate
  BY DEF Init, LeftAreLate
<1>2. ASSUME WellFormed, LeftAreLate, [Next]_vars
      PROVE  LeftAreLate'
  BY <1>2, LeftAreLateKept
<1>3. ASSUME LeftAreLate
      PROVE  \A n \in Node : mode[n] = "leaving" /\ mode'[n] = "up" /\ faults' = faults =>
               \A d \in Delivery :
                 /\ home[d] = n
                 /\ run[d].at \in Delivering \cup {"parked"} /\ run[d].outcome # "full"
                 => d \in late /\ (config.queued \/ run[d].outcome = "closed")
  BY <1>3 DEF LeftAreLate, AtLimiter
<1>. QED  BY <1>1, <1>2, <1>3, WellFormedInvariant, PTL DEF Spec, ShutdownIsClean

-----------------------------------------------------------------------------
(* Rows that were given up on.                                             *)

(* The budget of a row is charged by its replays.  A replay that ends with *)
(* nothing to show was cut off by a fault, so what is charged is covered   *)
(* by the faults so far and by the replays that may still succeed: those   *)
(* of the processes that are not on their way out, whose shutdown counts   *)
(* as a fault already.  A process on its way out has one more to start.    *)
Replaying(d) ==
  {n \in Node : mode[n] = "up" /\ run[n].of = d /\ run[n].at \in Delivering \ {"conclude"}}

Ahead(d) ==
  {n \in Node : /\ mode[n] # "up"
                /\ \E r \in sweepList[n] : r.of = d
                /\ ~(sweepAt[n] = "replay" /\ run[n].of = d)}

Cover(d) == faults + Cardinality(Replaying(d)) - Cardinality(Ahead(d))

Charged(d) ==
  /\ attempts[d] <= Cover(d)
  /\ \A n \in Node : \A r \in sweepList[n] : r.of = d => r.attempts <= Cover(d)
  /\ row[d] = "failed" => config.maxAttempts <= Cover(d)

ChargesAreCovered == \A d \in Delivery : ~Accounted(d) => Charged(d)

(* Rows are numbered as they are opened, and a sweep reads each row once.  *)
Opened == {d \in Delivery : born[d] > 0}

BirthsInOrder ==
  /\ \A d \in Delivery : row[d] # "none" => born[d] > 0
  /\ \A d \in Delivery : run[d].at \in {"idle", "opening"} => born[d] = 0
  /\ \A d \in Delivery : born[d] <= Cardinality(Opened)
  /\ \A d, e \in Opened : born[d] = born[e] => d = e

ListsWellFormed ==
  \A n \in Node :
    /\ \A r \in sweepList[n] : born[r.of] > 0
    /\ \A r, q \in sweepList[n] : r.of = q.of => r = q
    /\ run[n].at # "idle" => sweepAt[n] = "replay"
    /\ sweepAt[n] = "unsubscribed" => \A r \in sweepList[n] : Current(n, r) => dropped[r.of]

SweepsWellFormed == faults <= config.maxFaults /\ BirthsInOrder /\ ListsWellFormed

(* One process joins or leaves a set of them. *)
LEMMA OneMoves ==
  ASSUME NEW n \in Node, NEW S \in SUBSET Node, NEW T \in SUBSET Node,
         \A m \in Node \ {n} : m \in T <=> m \in S
  PROVE  /\ Cardinality(S) \in Nat
         /\ Cardinality(T) = Cardinality(S) + (IF n \in T THEN 1 ELSE 0) - (IF n \in S THEN 1 ELSE 0)
<1>1. IsFiniteSet(S) /\ IsFiniteSet(T) /\ Cardinality(S) \in Nat /\ Cardinality(T) \in Nat
  BY ConstantsAssumption, FS_Subset, FS_CardinalityType
<1>2. CASE n \in S /\ n \notin T
  <2>1. T = S \ {n}
    BY <1>2
  <2>2. Cardinality(S \ {n}) = Cardinality(S) - 1
    BY <1>1, <1>2, FS_RemoveElement
  <2>. QED  BY <1>1, <1>2, <2>1, <2>2
<1>3. CASE n \notin S /\ n \in T
  <2>1. T = S \cup {n}
    BY <1>3
  <2>2. Cardinality(S \cup {n}) = Cardinality(S) + 1
    BY <1>1, <1>3, FS_AddElement
  <2>. QED  BY <1>1, <1>3, <2>1, <2>2
<1>4. CASE n \in S <=> n \in T
  <2>1. T = S
    BY <1>4
  <2>. QED  BY <1>1, <1>4, <2>1
<1>. QED  BY <1>2, <1>3, <1>4

(* The deployment does not change. *)
LEMMA ConfigStays == ASSUME Typed, RunsWellFormed, [Next]_vars  PROVE  config' = config
<1>1. ASSUME NEW w \in Run, Deliver(w)
      PROVE  config' = config
  BY <1>1, DeliverStep
<1>2. ASSUME NEW d \in Delivery, LiveStep(d) \/ \E n \in Node : Dispatch(n, d)
      PROVE  config' = config
  BY <1>2 DEF LiveStep, Open, Admit, ConcludeDispatch, Dispatch
<1>3. ASSUME NEW n \in Node, Sweep(n)
      PROVE  config' = config
  BY <1>3 DEF Sweep, BeginSweep, CloseSpent, FindWebhook, CloseUnsubscribed, CountAttempt,
              ConcludeReplay
<1>4. ASSUME NEW n \in Node, BeginShutdown(n) \/ DrainEnds(n) \/ Reboot(n)
      PROVE  config' = config
  BY <1>4 DEF BeginShutdown, DrainEnds, Reboot
<1>5. ASSUME Work \/ UNCHANGED vars
      PROVE  config' = config
  BY <1>5 DEF Work, ProcessJob, CountJobFailures, InsertJobFailure, TakeJob, vars
<1>. QED  BY <1>1, <1>2, <1>3, <1>4, <1>5 DEF Next, Crash, Exit

(* How the cover of a row changes with one process. *)
LEMMA CoverMoves ==
  ASSUME Typed, faults' \in Nat, NEW d \in Delivery, NEW n \in Node,
         \A m \in Node \ {n} :
           /\ mode'[m] = mode[m] /\ run'[m] = run[m]
           /\ sweepAt'[m] = sweepAt[m] /\ sweepList'[m] = sweepList[m]
  PROVE  /\ Cover(d) \in Int /\ Cover(d)' \in Int
         /\ Cover(d)' = Cover(d) + (faults' - faults)
              + (IF n \in Replaying(d)' THEN 1 ELSE 0) - (IF n \in Replaying(d) THEN 1 ELSE 0)
              - (IF n \in Ahead(d)' THEN 1 ELSE 0) + (IF n \in Ahead(d) THEN 1 ELSE 0)
<1>1. /\ Replaying(d) \in SUBSET Node /\ Replaying(d)' \in SUBSET Node
      /\ Ahead(d) \in SUBSET Node /\ Ahead(d)' \in SUBSET Node
  BY DEF Replaying, Ahead
<1>2. /\ \A m \in Node \ {n} : m \in Replaying(d)' <=> m \in Replaying(d)
      /\ \A m \in Node \ {n} : m \in Ahead(d)' <=> m \in Ahead(d)
  BY DEF Replaying, Ahead
<1> HIDE DEF Replaying, Ahead
<1>3. /\ Cardinality(Replaying(d)) \in Nat /\ Cardinality(Ahead(d)) \in Nat
      /\ Cardinality(Replaying(d)') = Cardinality(Replaying(d))
           + (IF n \in Replaying(d)' THEN 1 ELSE 0) - (IF n \in Replaying(d) THEN 1 ELSE 0)
      /\ Cardinality(Ahead(d)') = Cardinality(Ahead(d))
           + (IF n \in Ahead(d)' THEN 1 ELSE 0) - (IF n \in Ahead(d) THEN 1 ELSE 0)
  BY <1>1, <1>2, OneMoves
<1>4. faults \in Nat
  BY DEF Typed
<1>. QED  BY <1>3, <1>4 DEF Cover

(* Nor does it change when no process does anything to the purpose. *)
LEMMA CoverStays ==
  ASSUME Typed, UNCHANGED <<faults, mode, sweepAt, sweepList>>, NEW d \in Delivery,
         \A n \in Node : run'[n] = run[n]
  PROVE  Cover(d) \in Int /\ Cover(d)' = Cover(d)
<1>1. Replaying(d)' = Replaying(d) /\ Ahead(d)' = Ahead(d)
  BY DEF Replaying, Ahead
<1>2. Cardinality(Replaying(d)) \in Nat /\ Cardinality(Ahead(d)) \in Nat
  <2>1. Replaying(d) \subseteq Node /\ Ahead(d) \subseteq Node
    BY DEF Replaying, Ahead
  <2>. QED  BY <2>1, ConstantsAssumption, FS_Subset, FS_CardinalityType
<1>3. faults \in Nat
  BY DEF Typed
<1>. QED  BY <1>1, <1>2, <1>3 DEF Cover

(* A step that takes nothing from the cover and charges nothing. *)
LEMMA ChargedKept ==
  ASSUME Typed, NEW d \in Delivery, Charged(d), config' = config,
         Cover(d) \in Int, Cover(d)' \in Int, Cover(d)' >= Cover(d),
         attempts'[d] = attempts[d], row'[d] = "failed" => row[d] = "failed",
         \A n \in Node : sweepList'[n] \subseteq sweepList[n]
  PROVE  Charged(d)'
<1>1. attempts[d] \in Nat /\ config.maxAttempts \in Nat
      /\ \A n \in Node : \A r \in sweepList[n] : r.attempts \in Nat
  BY ConstantsAssumption DEF Typed, Snapshot, Config
<1>2. ASSUME NEW k \in Nat, k <= Cover(d)
      PROVE  k <= Cover(d)'
  BY <1>2
<1> HIDE DEF Cover
<1>. QED  BY <1>1, <1>2 DEF Charged

(* The order of the rows is kept by a step that opens none. *)
LEMMA BirthsFrame ==
  ASSUME BirthsInOrder, UNCHANGED born,
         \A d \in Delivery : row'[d] # "none" => row[d] # "none",
         \A d \in Delivery : run'[d].at \in {"idle", "opening"} => run[d].at \in {"idle", "opening"}
  PROVE  BirthsInOrder'
<1>1. Opened' = Opened
  BY DEF Opened
<1>. QED  BY <1>1 DEF BirthsInOrder

(* The lists are kept by a step of no sweep. *)
LEMMA ListsFrame ==
  ASSUME ListsWellFormed, UNCHANGED sweepVars,
         \A n \in Node : \A r \in sweepList[n] : born'[r.of] = born[r.of],
         \A n \in Node : \A r \in sweepList[n] : dropped[r.of] => dropped'[r.of],
         \A n \in Node : run'[n].at # "idle" => run[n].at # "idle"
  PROVE  ListsWellFormed'
<1>1. \A n \in Node : sweepList'[n] = sweepList[n] /\ sweepAt'[n] = sweepAt[n]
  BY DEF sweepVars
<1>2. \A n \in Node : \A r \in sweepList[n] : Current(n, r)' => Current(n, r)
  BY <1>1 DEF Current
<1>. QED  BY <1>1, <1>2 DEF ListsWellFormed

(* Every step keeps the order of the rows and what a sweep knows of them.  *)
LEMMA SweepsKept ==
  ASSUME ~StoreFails, WellFormed, SweepsWellFormed, [Next]_vars
  PROVE  SweepsWellFormed'
<1>0. /\ Typed /\ RunsWellFormed /\ BirthsInOrder /\ ListsWellFormed
      /\ faults \in Nat /\ faults <= config.maxFaults /\ config.maxFaults \in Nat
      /\ Node \cap Delivery = {} /\ Node \subseteq Run /\ Delivery \subseteq Run
      /\ run \in [Run -> RunRecord] /\ \A w \in Run : run[w] \in RunRecord
      /\ born \in [Delivery -> Nat] /\ dropped \in [Delivery -> BOOLEAN]
      /\ \A n \in Node : \A r \in sweepList[n] : r.of \in Delivery
      /\ ~QueryFails
  <2>1. Typed /\ RunsWellFormed /\ BirthsInOrder /\ ListsWellFormed /\ faults <= config.maxFaults
    BY DEF WellFormed, SweepsWellFormed
  <2>2. /\ faults \in Nat /\ run \in [Run -> RunRecord] /\ \A w \in Run : run[w] \in RunRecord
        /\ born \in [Delivery -> Nat] /\ dropped \in [Delivery -> BOOLEAN]
    BY <2>1 DEF Typed
  <2>3. config.maxFaults \in Nat
    BY <2>1, ConstantsAssumption DEF Typed, Config
  <2>4. \A n \in Node : \A r \in sweepList[n] : r.of \in Delivery
    BY SMTT(30), <2>1 DEF Typed, Snapshot
  <2>5. Node \cap Delivery = {} /\ Node \subseteq Run /\ Delivery \subseteq Run /\ ~QueryFails
    BY ConstantsAssumption DEF Run, QueryFails
  <2>. QED  BY <2>1, <2>2, <2>3, <2>4, <2>5
<1>f. faults' <= config'.maxFaults
  <2>1. faults' = faults \/ (faults < config.maxFaults /\ faults' = faults + 1)
    <3>1. CASE UNCHANGED vars
      BY <3>1 DEF vars
    <3>2. ASSUME NEW w \in Run, Deliver(w)
          PROVE  faults' = faults
      BY <1>0, <3>2 DEF Deliver, Preflight, Enqueue, Post, CountFailures, InsertFailure
    <3>3. ASSUME NEW d \in Delivery, LiveStep(d)
          PROVE  faults' = faults
      BY <1>0, <3>3 DEF LiveStep, Open, Admit, ConcludeDispatch
    <3>4. ASSUME NEW n \in Node, Sweep(n)
          PROVE  faults' = faults
      BY <1>0, <3>4 DEF Sweep, BeginSweep, CloseSpent, FindWebhook, CloseUnsubscribed, CountAttempt,
                        ConcludeReplay
    <3>5. CASE Work
      BY <1>0, <3>5 DEF Work, ProcessJob, CountJobFailures, InsertJobFailure, TakeJob
    <3>6. ASSUME NEW n \in Node, NEW d \in Delivery, Dispatch(n, d)
          PROVE  faults' = faults
      BY <3>6 DEF Dispatch
    <3>7. ASSUME NEW n \in Node, BeginShutdown(n) \/ DrainEnds(n) \/ Crash(n) \/ Exit(n)
          PROVE  faults' = faults \/ (faults < config.maxFaults /\ faults' = faults + 1)
      BY <3>7 DEF BeginShutdown, DrainEnds, Crash, Exit
    <3>. QED  BY <3>1, <3>2, <3>3, <3>4, <3>5, <3>6, <3>7 DEF Next
  <2>2. config' = config
    BY <1>0, ConfigStays
  <2>. QED  BY <1>0, <2>1, <2>2
<1>c. ASSUME NEW d \in Delivery, NEW x \in {"dispatched", "failed"}, CloseRow(d, x)
      PROVE  \A e \in Delivery : row'[e] # "none" => row[e] # "none"
  BY <1>0, <1>c DEF CloseRow, Typed
<1>1. ASSUME NEW n \in Node, NEW d \in Delivery, Dispatch(n, d)
      PROVE  SweepsWellFormed'
  <2>1. /\ UNCHANGED <<row, born, sweepVars, dropped>>
        /\ run' = [run EXCEPT ![d].at = "opening"] /\ home[d] = NoNode
    BY <1>1 DEF Dispatch, tables, fates
  <2>2. \A w \in Run : w # d => run'[w] = run[w]
    BY <1>0, <2>1
  <2>3. run[d].at = "idle"
    BY <1>0, <2>1 DEF RunsWellFormed
  <2>4. BirthsInOrder'
    BY <1>0, <2>1, <2>2, <2>3, BirthsFrame
  <2>5. \A m \in Node : run'[m] = run[m]
    BY <1>0, <2>2
  <2>6. ListsWellFormed'
    BY <1>0, <2>1, <2>5, ListsFrame
  <2>. QED  BY <1>f, <2>4, <2>6 DEF SweepsWellFormed
<1>2. ASSUME NEW d \in Delivery, Open(d)
      PROVE  SweepsWellFormed'
  <2>1. /\ UNCHANGED <<sweepVars, dropped>> /\ run[d].at = "opening"
        /\ run' = [run EXCEPT ![d].at = "opened"]
        /\ row' = [row EXCEPT ![d] = "pending"]
        /\ born' = [born EXCEPT ![d] = 1 + Cardinality(Opened)]
    BY <1>0, <1>2 DEF Open, fates, Opened
  <2>2. /\ \A w \in Run : w # d => run'[w] = run[w]
        /\ run'[d].at = "opened"
    BY <1>0, <2>1 DEF RunRecord
  <2>3. born[d] = 0 /\ d \notin Opened
    BY <1>0, <2>1 DEF BirthsInOrder, Opened
  <2>4. IsFiniteSet(Opened) /\ Cardinality(Opened) \in Nat
    BY ConstantsAssumption, FS_Subset, FS_CardinalityType DEF Opened
  <2>5. /\ \A e \in Delivery : born'[e] = IF e = d THEN 1 + Cardinality(Opened) ELSE born[e]
        /\ \A e \in Delivery : born[e] \in Nat
    BY <1>0, <2>1
  <2>6. Opened' = Opened \cup {d}
    BY <2>4, <2>5 DEF Opened
  <2>7. Cardinality(Opened') = Cardinality(Opened) + 1
    BY <2>3, <2>4, <2>6, FS_AddElement
  <2>8. BirthsInOrder'
    <3> DEFINE k == Cardinality(Opened)
    <3>1. \A e \in Delivery : born[e] <= k
      BY <1>0 DEF BirthsInOrder
    <3>2. \A e \in Delivery : row'[e] # "none" => born'[e] > 0
      BY <1>0, <2>1, <2>4, <2>5 DEF BirthsInOrder, Typed
    <3>3. \A e \in Delivery : run'[e].at \in {"idle", "opening"} => born'[e] = 0
      BY <1>0, <2>2, <2>5 DEF BirthsInOrder
    <3> HIDE DEF k
    <3>4. k \in Nat /\ Cardinality(Opened') = k + 1
          /\ \A e \in Delivery : born'[e] = IF e = d THEN 1 + k ELSE born[e]
      BY <2>4, <2>5, <2>7 DEF k
    <3>5. \A e \in Delivery : born'[e] <= Cardinality(Opened')
      BY <2>5, <3>1, <3>4
    <3>6. ASSUME NEW e \in Opened', NEW f \in Opened', born'[e] = born'[f]
          PROVE  e = f
      <4>1. e \in Delivery /\ f \in Delivery
        BY <3>6 DEF Opened
      <4>2. CASE e = d \/ f = d
        BY <2>5, <3>1, <3>4, <3>6, <4>1, <4>2
      <4>3. CASE e # d /\ f # d
        BY <1>0, <2>5, <2>6, <3>6, <4>1, <4>3 DEF BirthsInOrder
      <4>. QED  BY <4>2, <4>3
    <3>. QED  BY <3>2, <3>3, <3>5, <3>6 DEF BirthsInOrder
  <2>9. ListsWellFormed'
    <3>1. \A n \in Node : run'[n] = run[n]
      BY <1>0, <2>2
    <3>2. \A n \in Node : \A r \in sweepList[n] : born'[r.of] = born[r.of]
      BY <1>0, <2>3, <2>5 DEF ListsWellFormed
    <3>. QED  BY <1>0, <2>1, <3>1, <3>2, ListsFrame
  <2>. QED  BY <1>f, <2>8, <2>9 DEF SweepsWellFormed
<1>3. ASSUME NEW d \in Delivery, Admit(d) \/ ConcludeDispatch(d)
      PROVE  SweepsWellFormed'
  <2>1. /\ UNCHANGED <<born, sweepVars, dropped>>
        /\ \A e \in Delivery : row'[e] # "none" => row[e] # "none"
    <3>1. CASE Admit(d)
      BY <3>1 DEF Admit, tables, fates
    <3>2. CASE ConcludeDispatch(d)
      BY <1>0, <1>c, <3>2 DEF ConcludeDispatch, fates
    <3>. QED  BY <1>3, <3>1, <3>2
  <2>2. \A w \in Run : \/ run'[w] = run[w]
                       \/ w \in Delivery /\ run'[w].at \notin {"idle", "opening"}
    <3>1. CASE Admit(d)
      BY <1>0, <3>1 DEF Admit, RunRecord
    <3>2. CASE ConcludeDispatch(d)
      <4> DEFINE n == home[d]
      <4>0. n \in Node
        BY <1>0, <3>2 DEF ConcludeDispatch, RunsWellFormed, Typed
      <4>1. waiters[n] # <<>> => Head(waiters[n]) \in Delivery /\ Head(waiters[n]) # d
        <5> SUFFICES ASSUME waiters[n] # <<>>
                     PROVE  Head(waiters[n]) \in Delivery /\ Head(waiters[n]) # d
          OBVIOUS
        <5>1. /\ waiters[n] \in Seq(Delivery) /\ IsInjective(waiters[n])
              /\ ToSet(waiters[n]) = Parked(n)
          BY <1>0, <4>0 DEF WellFormed, LimiterWellFormed, Typed
        <5>2. Head(waiters[n]) \in Delivery /\ Head(waiters[n]) \in Parked(n)
          BY <5>1, LineShrinks
        <5>. QED  BY <3>2, <5>2 DEF Parked, ConcludeDispatch
      <4>2. \A w \in Run : run'[w] =
              CASE w = d -> Over(w)
                [] waiters[n] # <<>> /\ w = Head(waiters[n]) -> [run[w] EXCEPT !.at = "preflight"]
                [] OTHER -> run[w]
        BY <1>0, <3>2 DEF ConcludeDispatch
      <4> HIDE DEF n
      <4>3. SUFFICES ASSUME NEW w \in Run
                     PROVE  \/ run'[w] = run[w]
                            \/ w \in Delivery /\ run'[w].at \notin {"idle", "opening"}
        OBVIOUS
      <4>4. run[w] \in RunRecord
        BY <1>0
      <4>5. CASE w = d
        <5>1. run'[w] = Over(w)
          BY <4>1, <4>2, <4>5
        <5>. QED  BY <4>4, <4>5, <5>1, RunEnds
      <4>6. CASE w # d /\ waiters[n] # <<>> /\ w = Head(waiters[n])
        <5>1. run'[w] = [run[w] EXCEPT !.at = "preflight"]
          BY <4>2, <4>6
        <5>. QED  BY <4>1, <4>4, <4>6, <5>1 DEF RunRecord
      <4>7. CASE w # d /\ ~(waiters[n] # <<>> /\ w = Head(waiters[n]))
        BY <4>2, <4>7
      <4>. QED  BY <4>5, <4>6, <4>7
    <3>. QED  BY <1>3, <3>1, <3>2
  <2>3. BirthsInOrder'
    BY <1>0, <2>1, <2>2, BirthsFrame
  <2>4. ListsWellFormed'
    <3>1. \A n \in Node : run'[n] = run[n]
      BY <1>0, <2>2
    <3>. QED  BY <1>0, <2>1, <3>1, ListsFrame
  <2>. QED  BY <1>f, <2>3, <2>4 DEF SweepsWellFormed
<1>4. ASSUME NEW w \in Run, Deliver(w)
      PROVE  SweepsWellFormed'
  <2>1. /\ UNCHANGED <<row, born, sweepVars>> /\ run[w].at \in Delivering
        /\ \A v \in Run \ {w} : run'[v] = run[v]
        /\ run'[w].at \in Delivering \cup {"done"}
    BY <1>0, <1>4, DeliverStep DEF Moved, Delivering
  <2>2. \A d \in Delivery : dropped[d] => dropped'[d]
    BY <1>0, <1>4 DEF Deliver, Preflight, Enqueue, Post, CountFailures, InsertFailure, fates
  <2>3. BirthsInOrder'
    BY <1>0, <2>1, BirthsFrame DEF Delivering
  <2>4. \A n \in Node : run'[n].at # "idle" => run[n].at # "idle"
    BY <1>0, <2>1 DEF Delivering
  <2>5. ListsWellFormed'
    BY <1>0, <2>1, <2>2, <2>4, ListsFrame
  <2>. QED  BY <1>f, <2>3, <2>5 DEF SweepsWellFormed
<1>5. CASE Work \/ UNCHANGED vars \/ \E n \in Node : DrainEnds(n)
  <2>1. UNCHANGED <<row, born, sweepVars, run, dropped>>
    BY <1>5 DEF Work, ProcessJob, CountJobFailures, InsertJobFailure, TakeJob, DrainEnds, vars, tables,
                sweepVars, fates
  <2>2. BirthsInOrder' /\ ListsWellFormed'
    BY <1>0, <2>1, BirthsFrame, ListsFrame
  <2>. QED  BY <1>f, <2>2 DEF SweepsWellFormed
<1>6. ASSUME NEW n \in Node, BeginShutdown(n)
      PROVE  SweepsWellFormed'
  <2>1. /\ UNCHANGED <<row, born, sweepVars, dropped>>
        /\ \A m \in Node : run'[m] = run[m]
        /\ \A d \in Delivery : run'[d] = run[d] \/ run'[d].at = "count"
    <3>1. UNCHANGED <<row, born, sweepVars, dropped>>
      BY <1>6 DEF BeginShutdown, tables, fates
    <3>2. CASE UNCHANGED run
      BY <3>1, <3>2
    <3>3. CASE run' = [w \in Run |->
                 IF w \in Delivery /\ home[w] = n /\ run[w].at = "parked"
                   THEN [run[w] EXCEPT !.at = "count", !.outcome = "closed"]
                   ELSE run[w]]
      <4>1. \A m \in Node : run'[m] = run[m]
        BY <1>0, <3>3
      <4>2. ASSUME NEW d \in Delivery
            PROVE  run'[d] = run[d] \/ run'[d].at = "count"
        <5>1. run'[d] \in {run[d], [run[d] EXCEPT !.at = "count", !.outcome = "closed"]}
          BY <1>0, <3>3
        <5>. QED  BY <1>0, <5>1 DEF RunRecord
      <4>. QED  BY <3>1, <4>1, <4>2
    <3>. QED  BY <1>6, <3>2, <3>3 DEF BeginShutdown
  <2>2. BirthsInOrder' /\ ListsWellFormed'
    BY <1>0, <2>1, BirthsFrame, ListsFrame
  <2>. QED  BY <1>f, <2>2 DEF SweepsWellFormed
<1>7. ASSUME NEW n \in Node, Reboot(n)
      PROVE  SweepsWellFormed'
  <2>1. /\ UNCHANGED <<row, born, dropped>>
        /\ sweepAt' = [sweepAt EXCEPT ![n] = "idle"] /\ sweepList' = [sweepList EXCEPT ![n] = {}]
        /\ run' = [w \in Run |->
             CASE w = n -> Fresh(NoDelivery)
               [] w \in Delivery /\ home[w] = n -> Over(w)
               [] OTHER -> run[w]]
    BY <1>7 DEF Reboot, tables
  <2>2. /\ \A m \in Node : m # n => run'[m] = run[m]
        /\ run'[n].at = "idle"
    BY <1>0, <2>1 DEF Fresh
  <2>3. \A d \in Delivery : run'[d] = run[d] \/ run'[d].at = "done"
    <3>1. \A d \in Delivery : Over(d).at = "done"
      BY <1>0, RunEnds
    <3>. QED  BY <1>0, <2>1, <3>1
  <2>4. BirthsInOrder'
    BY <1>0, <2>1, <2>3, BirthsFrame
  <2>5. ASSUME NEW m \in Node
        PROVE  /\ \A r \in sweepList'[m] : born'[r.of] > 0
               /\ \A r, q \in sweepList'[m] : r.of = q.of => r = q
               /\ run'[m].at # "idle" => sweepAt'[m] = "replay"
               /\ sweepAt'[m] = "unsubscribed" => \A r \in sweepList'[m] : Current(m, r)' => dropped'[r.of]
    <3>1. CASE m = n
      BY <1>0, <2>1, <2>2, <3>1 DEF Typed
    <3>2. CASE m # n
      <4>1. sweepList'[m] = sweepList[m] /\ sweepAt'[m] = sweepAt[m] /\ run'[m] = run[m]
        BY <1>0, <2>1, <2>2, <3>2 DEF Typed
      <4>2. \A r \in sweepList[m] : Current(m, r)' => Current(m, r)
        BY <2>1, <4>1 DEF Current
      <4>. QED  BY <1>0, <2>1, <4>1, <4>2 DEF ListsWellFormed
    <3>. QED  BY <3>1, <3>2
  <2>6. ListsWellFormed'
    BY <2>5 DEF ListsWellFormed
  <2>. QED  BY <1>f, <2>4, <2>6 DEF SweepsWellFormed
<1>s. ASSUME NEW n \in Node, UNCHANGED born,
             \A d \in Delivery : row'[d] # "none" => row[d] # "none",
             \A d \in Delivery : dropped[d] => dropped'[d],
             \A w \in Run : w # n => run'[w] = run[w],
             \A m \in Node \ {n} : sweepList'[m] = sweepList[m] /\ sweepAt'[m] = sweepAt[m],
             \A r \in sweepList'[n] : born[r.of] > 0,
             \A r, q \in sweepList'[n] : r.of = q.of => r = q,
             run'[n].at # "idle" => sweepAt'[n] = "replay",
             sweepAt'[n] = "unsubscribed" => \A r \in sweepList'[n] : Current(n, r)' => dropped'[r.of]
      PROVE  SweepsWellFormed'
  <2>1. BirthsInOrder'
    BY <1>0, <1>s, BirthsFrame
  <2>2. ASSUME NEW m \in Node \ {n}
        PROVE  /\ \A r \in sweepList'[m] : born'[r.of] > 0
               /\ \A r, q \in sweepList'[m] : r.of = q.of => r = q
               /\ run'[m].at # "idle" => sweepAt'[m] = "replay"
               /\ sweepAt'[m] = "unsubscribed" => \A r \in sweepList'[m] : Current(m, r)' => dropped'[r.of]
    <3>1. sweepList'[m] = sweepList[m] /\ sweepAt'[m] = sweepAt[m] /\ run'[m] = run[m]
      BY <1>0, <1>s
    <3>2. \A r \in sweepList[m] : Current(m, r)' => Current(m, r)
      BY <1>s, <3>1 DEF Current
    <3>. QED  BY <1>0, <1>s, <3>1, <3>2 DEF ListsWellFormed
  <2>3. ListsWellFormed'
    BY <1>s, <2>2 DEF ListsWellFormed
  <2>. QED  BY <1>f, <2>1, <2>3 DEF SweepsWellFormed
<1>i. \A n \in Node : sweepAt[n] # "replay" => run[n].at = "idle"
  BY <1>0 DEF ListsWellFormed
<1>8. ASSUME NEW n \in Node, BeginSweep(n)
      PROVE  SweepsWellFormed'
  <2> DEFINE L == {[of |-> d, attempts |-> attempts[d]] : d \in Stale}
  <2>1. /\ UNCHANGED <<row, born, run, dropped>> /\ sweepAt[n] = "idle"
        /\ sweepAt' = [sweepAt EXCEPT ![n] = "row"] /\ sweepList' = [sweepList EXCEPT ![n] = L]
    BY <1>8 DEF BeginSweep, tables, fates
  <2>2. \A r \in L : r.of \in Delivery /\ row[r.of] = "pending" /\ r.attempts = attempts[r.of]
    <3>1. \A d \in Stale : d \in Delivery /\ row[d] = "pending"
      <4> DEFINE stranded == {d \in Delivery : row[d] = "pending" /\ (GraceCovers => run[d].at = "done")}
      <4>1. Stale \subseteq stranded
        BY DEF Stale
      <4>. QED  BY <4>1
    <3>. QED  BY <3>1
  <2>3. \A r, q \in L : r.of = q.of => r = q
    OBVIOUS
  <2> HIDE DEF L
  <2>4. /\ \A m \in Node \ {n} : sweepList'[m] = sweepList[m] /\ sweepAt'[m] = sweepAt[m]
        /\ sweepList'[n] = L /\ sweepAt'[n] = "row"
    BY <1>0, <2>1 DEF Typed
  <2>5. \A r \in L : born[r.of] > 0
    BY <1>0, <2>2 DEF BirthsInOrder
  <2>. QED  BY <1>i, <1>s, <2>1, <2>3, <2>4, <2>5
<1>a. ASSUME NEW n \in Node, NEW r \in sweepList[n], Advance(n, r)
      PROVE  /\ \A m \in Node \ {n} : sweepList'[m] = sweepList[m] /\ sweepAt'[m] = sweepAt[m]
             /\ sweepList'[n] = sweepList[n] \ {r} /\ sweepAt'[n] \in {"idle", "row"}
  BY <1>0, <1>a DEF Advance, Typed
<1>l. ASSUME NEW n \in Node
      PROVE  /\ \A r \in sweepList[n] : born[r.of] > 0
             /\ \A r, q \in sweepList[n] : r.of = q.of => r = q
  BY <1>0 DEF ListsWellFormed
<1>9. ASSUME NEW n \in Node, NEW r \in sweepList[n], CloseSpent(n, r) \/ CloseUnsubscribed(n, r)
      PROVE  SweepsWellFormed'
  <2>1. /\ UNCHANGED <<born, run, dropped>> /\ Advance(n, r) /\ sweepAt[n] # "replay"
        /\ CloseRow(r.of, "failed")
    BY <1>0, <1>9 DEF CloseSpent, CloseUnsubscribed, fates
  <2>. QED  BY <1>0, <1>a, <1>c, <1>i, <1>l, <1>s, <2>1
<1>10. ASSUME NEW n \in Node, NEW r \in sweepList[n], FindWebhook(n, r)
      PROVE  SweepsWellFormed'
  <2>1. /\ UNCHANGED <<row, born, run, sweepList>> /\ sweepAt[n] = "row" /\ Current(n, r)
        /\ \/ sweepAt' = [sweepAt EXCEPT ![n] = "count"] /\ UNCHANGED dropped
           \/ /\ sweepAt' = [sweepAt EXCEPT ![n] = "unsubscribed"]
              /\ dropped' = [dropped EXCEPT ![r.of] = TRUE]
    BY <1>0, <1>10 DEF FindWebhook, tables
  <2>2. /\ \A m \in Node \ {n} : sweepAt'[m] = sweepAt[m]
        /\ \A d \in Delivery : dropped[d] => dropped'[d]
        /\ sweepAt'[n] = "unsubscribed" => dropped'[r.of]
    BY <1>0, <2>1 DEF Typed
  <2>3. ASSUME NEW q \in sweepList[n], Current(n, q)'
        PROVE  q = r
    <3>1. born[q.of] <= born[r.of] /\ born[r.of] <= born[q.of]
      BY <2>1, <2>3 DEF Current
    <3>2. q.of \in Opened /\ r.of \in Opened /\ born[q.of] \in Nat /\ born[r.of] \in Nat
      BY <1>0, <1>l DEF Opened
    <3>3. q.of = r.of
      BY <1>0, <3>1, <3>2 DEF BirthsInOrder
    <3>. QED  BY <1>l, <3>3
  <2>. QED  BY <1>i, <1>l, <1>s, <2>1, <2>2, <2>3
<1>11. ASSUME NEW n \in Node, NEW r \in sweepList[n], CountAttempt(n, r)
      PROVE  SweepsWellFormed'
  <2>1. /\ UNCHANGED <<row, born, sweepList, dropped>>
        /\ sweepAt' = [sweepAt EXCEPT ![n] = "replay"]
        /\ \E x : run' = [run EXCEPT ![n] = x]
    BY <1>11 DEF CountAttempt, fates
  <2>2. /\ \A m \in Node \ {n} : sweepAt'[m] = sweepAt[m]
        /\ sweepAt'[n] = "replay"
        /\ \A w \in Run : w # n => run'[w] = run[w]
    BY <1>0, <2>1 DEF Typed
  <2>. QED  BY <1>l, <1>s, <2>1, <2>2
<1>12. ASSUME NEW n \in Node, NEW r \in sweepList[n], ConcludeReplay(n, r)
      PROVE  SweepsWellFormed'
  <2>1. /\ UNCHANGED <<born, dropped>> /\ Advance(n, r)
        /\ UNCHANGED row \/ CloseRow(r.of, "dispatched")
        /\ run' = [run EXCEPT ![n] = Fresh(NoDelivery)]
    BY <1>12 DEF ConcludeReplay, fates
  <2>2. /\ \A w \in Run : w # n => run'[w] = run[w]
        /\ run'[n].at = "idle"
    BY <1>0, <2>1 DEF Fresh
  <2>3. \A d \in Delivery : row'[d] # "none" => row[d] # "none"
    BY <1>0, <1>c, <2>1
  <2>. QED  BY <1>a, <1>l, <1>s, <2>1, <2>2, <2>3
<1>. QED
  BY <1>1, <1>2, <1>3, <1>4, <1>5, <1>6, <1>7, <1>8, <1>9, <1>10, <1>11, <1>12
  DEF Next, LiveStep, Sweep, Crash, Exit

(* Every step keeps what is charged to a row with nothing to show for it   *)
(* covered.                                                                *)
LEMMA ChargesKept ==
  ASSUME ~StoreFails, WellFormed, WellFormed', SweepsWellFormed, ChargesAreCovered, [Next]_vars
  PROVE  ChargesAreCovered'
<1> SUFFICES ASSUME NEW d \in Delivery, ~Accounted(d)'
             PROVE  Charged(d)'
  BY DEF ChargesAreCovered
<1>0. /\ Typed /\ Typed' /\ RunsWellFormed /\ ListsWellFormed
      /\ faults \in Nat /\ faults' \in Nat
      /\ Node \cap Delivery = {} /\ Node \subseteq Run /\ Delivery \subseteq Run
      /\ run \in [Run -> RunRecord] /\ mode \in [Node -> {"off", "up", "draining", "leaving"}]
      /\ row \in [Delivery -> RowStates] /\ attempts \in [Delivery -> Nat]
      /\ \A n \in Node : \A r \in sweepList[n] : r.of \in Delivery /\ r.attempts \in Nat
      /\ ~QueryFails
  <2>1. Typed /\ Typed' /\ RunsWellFormed /\ ListsWellFormed
    BY DEF WellFormed, SweepsWellFormed
  <2>2. faults \in Nat /\ faults' \in Nat
    BY <2>1 DEF Typed
  <2>3. \A n \in Node : \A r \in sweepList[n] : r.of \in Delivery /\ r.attempts \in Nat
    BY SMTT(30), <2>1 DEF Typed, Snapshot
  <2>4. /\ run \in [Run -> RunRecord] /\ mode \in [Node -> {"off", "up", "draining", "leaving"}]
        /\ row \in [Delivery -> RowStates] /\ attempts \in [Delivery -> Nat]
    BY <2>1 DEF Typed
  <2>5. Node \cap Delivery = {} /\ Node \subseteq Run /\ Delivery \subseteq Run /\ ~QueryFails
    BY ConstantsAssumption DEF Run, QueryFails
  <2>. QED  BY <2>1, <2>2, <2>3, <2>4, <2>5
<1>m. config' = config /\ config.maxAttempts \in Nat
  BY <1>0, ConfigStays, ConstantsAssumption DEF Typed, Config
<1>1. ~Accounted(d) /\ ~dropped[d] /\ Charged(d)
  BY AccountKept DEF ChargesAreCovered, Accounted
<1>c. ASSUME NEW e \in Delivery, NEW x \in {"dispatched", "failed"}, CloseRow(e, x), row'[d] = "failed"
      PROVE  row[d] = "failed" \/ (e = d /\ x = "failed")
  BY <1>0, <1>c DEF CloseRow
<1>k. ASSUME NEW n \in Node, UNCHANGED attempts, row'[d] = "failed" => row[d] = "failed",
             \A m \in Node \ {n} :
               /\ mode'[m] = mode[m] /\ run'[m] = run[m]
               /\ sweepAt'[m] = sweepAt[m] /\ sweepList'[m] = sweepList[m],
             sweepList'[n] \subseteq sweepList[n],
             faults' >= faults + (IF n \in Replaying(d) THEN 1 ELSE 0)
               - (IF n \in Replaying(d)' THEN 1 ELSE 0)
               + (IF n \in Ahead(d)' THEN 1 ELSE 0) - (IF n \in Ahead(d) THEN 1 ELSE 0)
      PROVE  Charged(d)'
  <2>1. /\ Cover(d) \in Int /\ Cover(d)' \in Int
        /\ Cover(d)' = Cover(d) + (faults' - faults)
             + (IF n \in Replaying(d)' THEN 1 ELSE 0) - (IF n \in Replaying(d) THEN 1 ELSE 0)
             - (IF n \in Ahead(d)' THEN 1 ELSE 0) + (IF n \in Ahead(d) THEN 1 ELSE 0)
    BY <1>0, <1>k, CoverMoves
  <2>2. Cover(d)' >= Cover(d)
    BY <1>0, <1>k, <2>1
  <2>. QED  BY <1>0, <1>m, <1>1, <1>k, <2>1, <2>2, ChargedKept
<1>r. ASSUME UNCHANGED <<faults, mode, sweepVars, attempts>>,
             \A n \in Node : run'[n] = run[n],
             row'[d] = "failed" => row[d] = "failed"
      PROVE  Charged(d)'
  <2>1. Cover(d) \in Int /\ Cover(d)' = Cover(d)
    BY <1>0, <1>r, CoverStays DEF sweepVars
  <2>. QED  BY <1>0, <1>m, <1>1, <1>r, <2>1, ChargedKept DEF sweepVars
<1>2. ASSUME NEW n \in Node, NEW e \in Delivery, Dispatch(n, e)
      PROVE  Charged(d)'
  <2>1. /\ UNCHANGED <<faults, mode, sweepVars, attempts, row>>
        /\ run' = [run EXCEPT ![e].at = "opening"]
    BY <1>2 DEF Dispatch, tables
  <2>2. \A m \in Node : run'[m] = run[m]
    BY <1>0, <2>1
  <2>. QED  BY <1>r, <2>1, <2>2
<1>3. ASSUME NEW e \in Delivery, Open(e) \/ Admit(e)
      PROVE  Charged(d)'
  <2>1. /\ UNCHANGED <<faults, mode, sweepVars, attempts>>
        /\ UNCHANGED row \/ row' = [row EXCEPT ![e] = "pending"]
    BY <1>0, <1>3 DEF Open, Admit, tables
  <2>2. \A m \in Node : run'[m] = run[m]
    BY <1>0, <1>3 DEF Open, Admit
  <2>3. row'[d] = "failed" => row[d] = "failed"
    BY <1>0, <2>1
  <2>. QED  BY <1>r, <2>1, <2>2, <2>3
<1>4. ASSUME NEW e \in Delivery, ConcludeDispatch(e)
      PROVE  Charged(d)'
  <2> DEFINE n == home[e]
  <2>1. /\ UNCHANGED <<faults, mode, sweepVars, attempts>>
        /\ CloseRow(e, "dispatched")
        /\ run' = [w \in Run |->
             CASE w = e -> Over(w)
               [] waiters[n] # <<>> /\ w = Head(waiters[n]) -> [run[w] EXCEPT !.at = "preflight"]
               [] OTHER -> run[w]]
    BY <1>0, <1>4 DEF ConcludeDispatch
  <2>2. waiters[n] # <<>> => Head(waiters[n]) \in Delivery
    <3>1. n \in Node
      BY <1>0, <1>4 DEF ConcludeDispatch, RunsWellFormed, Typed
    <3>. QED  BY <1>0, <3>1 DEF Typed
  <2> HIDE DEF n
  <2>3. \A m \in Node : run'[m] = run[m]
    BY <1>0, <2>1, <2>2
  <2>. QED  BY <1>c, <1>r, <2>1, <2>3
<1>5. CASE Work \/ UNCHANGED vars
  <2>1. UNCHANGED <<faults, mode, sweepVars, attempts, row, run>>
    BY <1>0, <1>5 DEF Work, ProcessJob, CountJobFailures, InsertJobFailure, TakeJob, vars, tables
  <2>. QED  BY <1>r, <2>1
<1>6. ASSUME NEW w \in Run, Deliver(w)
      PROVE  Charged(d)'
  <2>1. /\ UNCHANGED <<row, attempts, mode, sweepVars>>
        /\ run[w].at \in Delivering
    BY <1>0, <1>6, DeliverStep
  <2>2. faults' = faults
    BY <1>0, <1>6 DEF Deliver, Preflight, Enqueue, Post, CountFailures, InsertFailure
  <2>3. PICK a \in RunStates, t \in Nat, o \in Outcomes :
          /\ Moved(w, a, t, o)
          /\ o \in Refusals <=> run[w].outcome \in Refusals
          /\ o \notin Refusals => a \in Delivering
          /\ a = "conclude" => Accounted(run[w].of)'
    BY <1>0, <1>6, DeliverStep
  <2>4. CASE w \in Delivery
    <3>1. \A m \in Node : run'[m] = run[m]
      BY <1>0, <2>3, <2>4 DEF Moved
    <3>. QED  BY <1>r, <2>1, <2>2, <3>1
  <2>5. CASE w \in Node
    <3>1. w \in Ahead(d)' <=> w \in Ahead(d)
      BY <2>1, <2>3, <2>5 DEF Ahead, Moved, sweepVars
    <3>2. w \in Replaying(d) => w \in Replaying(d)'
      <4> SUFFICES ASSUME w \in Replaying(d)
                   PROVE  w \in Replaying(d)'
        OBVIOUS
      <4>1. mode[w] = "up" /\ run[w].of = d
        BY DEF Replaying
      <4>2. a \in Delivering
        BY <1>0, <2>3, <2>5 DEF RunsWellFormed
      <4>3. a # "conclude"
        <5>1. CASE a = "conclude"
          <6>1. Accounted(run[w].of)'
            BY <2>3, <5>1
          <6>2. run'[w].of = d
            BY <2>3, <4>1 DEF Moved
          <6>. QED  BY <6>1, <6>2 DEF Accounted
        <5>. QED  BY <5>1
      <4>. QED  BY <2>1, <2>3, <2>5, <4>1, <4>2, <4>3 DEF Replaying, Moved
    <3>3. \A m \in Node \ {w} :
            /\ mode'[m] = mode[m] /\ run'[m] = run[m]
            /\ sweepAt'[m] = sweepAt[m] /\ sweepList'[m] = sweepList[m]
      BY <1>0, <2>1, <2>3 DEF Moved, sweepVars
    <3>4. sweepList'[w] \subseteq sweepList[w]
      BY <2>1 DEF sweepVars
    <3>. QED  BY <1>0, <1>k, <2>1, <2>2, <2>5, <3>1, <3>2, <3>3, <3>4
  <2>. QED  BY <2>4, <2>5 DEF Run
<1>7. ASSUME NEW n \in Node, BeginSweep(n)
      PROVE  Charged(d)'
  <2> DEFINE L == {[of |-> e, attempts |-> attempts[e]] : e \in Stale}
  <2>1. /\ UNCHANGED <<row, attempts, run, mode, faults>> /\ mode[n] = "up"
        /\ sweepAt' = [sweepAt EXCEPT ![n] = "row"] /\ sweepList' = [sweepList EXCEPT ![n] = L]
    BY <1>7 DEF BeginSweep, tables
  <2>2. \A r \in L : r.attempts = attempts[r.of]
    OBVIOUS
  <2> HIDE DEF L
  <2>3. /\ \A m \in Node \ {n} : sweepList'[m] = sweepList[m] /\ sweepAt'[m] = sweepAt[m]
        /\ sweepList'[n] = L
    BY <1>0, <2>1 DEF Typed
  <2>4. /\ n \in Replaying(d)' <=> n \in Replaying(d)
        /\ n \notin Ahead(d) /\ n \notin Ahead(d)'
    BY <2>1 DEF Replaying, Ahead
  <2>5. Cover(d) \in Int /\ Cover(d)' = Cover(d)
    <3>1. /\ Cover(d) \in Int /\ Cover(d)' \in Int
          /\ Cover(d)' = Cover(d) + (faults' - faults)
               + (IF n \in Replaying(d)' THEN 1 ELSE 0) - (IF n \in Replaying(d) THEN 1 ELSE 0)
               - (IF n \in Ahead(d)' THEN 1 ELSE 0) + (IF n \in Ahead(d) THEN 1 ELSE 0)
      BY <1>0, <2>1, <2>3, CoverMoves
    <3>. QED  BY <1>0, <2>1, <2>4, <3>1
  <2>6. /\ attempts[d] <= Cover(d)
        /\ \A m \in Node : \A r \in sweepList[m] : r.of = d => r.attempts <= Cover(d)
        /\ row[d] = "failed" => config.maxAttempts <= Cover(d)
    BY <1>1 DEF Charged
  <2>7. ASSUME NEW m \in Node, NEW r \in sweepList'[m], r.of = d
        PROVE  r.attempts <= Cover(d)
    <3>1. CASE m = n
      BY <2>2, <2>3, <2>6, <2>7, <3>1
    <3>2. CASE m # n
      BY <2>3, <2>6, <2>7, <3>2
    <3>. QED  BY <3>1, <3>2
  <2>. QED  BY <1>m, <2>1, <2>5, <2>6, <2>7 DEF Charged
<1>a. ASSUME NEW n \in Node, NEW r \in sweepList[n], Advance(n, r)
      PROVE  /\ \A m \in Node \ {n} : sweepList'[m] = sweepList[m] /\ sweepAt'[m] = sweepAt[m]
             /\ sweepList'[n] = sweepList[n] \ {r} /\ sweepAt'[n] \in {"idle", "row"}
  BY <1>0, <1>a DEF Advance, Typed
<1>8. ASSUME NEW n \in Node, NEW r \in sweepList[n], CloseSpent(n, r) \/ CloseUnsubscribed(n, r)
      PROVE  Charged(d)'
  <2>1. /\ UNCHANGED <<attempts, run, mode, faults>>
        /\ sweepAt[n] \in {"row", "unsubscribed"} /\ Advance(n, r) /\ CloseRow(r.of, "failed")
    BY <1>0, <1>8 DEF CloseSpent, CloseUnsubscribed
  <2>2. /\ \A m \in Node \ {n} : sweepList'[m] = sweepList[m] /\ sweepAt'[m] = sweepAt[m]
        /\ sweepList'[n] = sweepList[n] \ {r}
    BY <1>a, <2>1
  <2>3. /\ n \in Replaying(d)' <=> n \in Replaying(d)
        /\ n \in Ahead(d)' => n \in Ahead(d)
    BY <2>1, <2>2 DEF Replaying, Ahead
  <2>4. CASE row'[d] = "failed" /\ row[d] # "failed"
    <3>1. r.of = d
      BY <1>0, <1>c, <2>1, <2>4
    <3>2. CASE CloseUnsubscribed(n, r)
      <4>1. dropped[r.of]
        BY <1>0, <3>2 DEF CloseUnsubscribed, ListsWellFormed
      <4>. QED  BY <1>1, <3>1, <4>1
    <3>3. CASE CloseSpent(n, r)
      <4>1. r.attempts >= config.maxAttempts
        BY <3>3 DEF CloseSpent
      <4>2. /\ Cover(d) \in Int /\ Cover(d)' \in Int
            /\ Cover(d)' = Cover(d) + (faults' - faults)
                 + (IF n \in Replaying(d)' THEN 1 ELSE 0) - (IF n \in Replaying(d) THEN 1 ELSE 0)
                 - (IF n \in Ahead(d)' THEN 1 ELSE 0) + (IF n \in Ahead(d) THEN 1 ELSE 0)
        BY <1>0, <2>1, <2>2, CoverMoves
      <4>3. Cover(d)' >= Cover(d)
        BY <1>0, <2>1, <2>3, <4>2
      <4>4. /\ attempts[d] <= Cover(d)
            /\ \A m \in Node : \A q \in sweepList[m] : q.of = d => q.attempts <= Cover(d)
        BY <1>1 DEF Charged
      <4>5. config.maxAttempts \in Nat /\ attempts[d] \in Nat /\ r.attempts \in Nat
        BY <1>0, <1>m
      <4>6. config.maxAttempts <= Cover(d)' /\ attempts[d] <= Cover(d)'
        BY <3>1, <4>1, <4>2, <4>3, <4>4, <4>5
      <4>7. ASSUME NEW m \in Node, NEW q \in sweepList'[m], q.of = d
            PROVE  q.attempts <= Cover(d)'
        <5>1. q \in sweepList[m]
          BY <2>2, <4>7
        <5>2. q.attempts <= Cover(d) /\ q.attempts \in Nat
          BY <1>0, <4>4, <4>7, <5>1
        <5>. QED  BY <4>2, <4>3, <5>2
      <4>. QED  BY <1>m, <2>1, <4>6, <4>7 DEF Charged
    <3>. QED  BY <1>8, <3>2, <3>3
  <2>5. CASE row'[d] = "failed" => row[d] = "failed"
    BY <1>0, <1>k, <2>1, <2>2, <2>3, <2>5
  <2>. QED  BY <2>4, <2>5
<1>9. ASSUME NEW n \in Node, NEW r \in sweepList[n], FindWebhook(n, r)
      PROVE  Charged(d)'
  <2>1. /\ UNCHANGED <<row, attempts, run, mode, faults, sweepList>> /\ sweepAt[n] = "row"
        /\ \E x \in {"count", "unsubscribed"} : sweepAt' = [sweepAt EXCEPT ![n] = x]
    BY <1>0, <1>9 DEF FindWebhook, tables
  <2>2. /\ \A m \in Node \ {n} : sweepAt'[m] = sweepAt[m]
        /\ sweepAt'[n] # "replay"
    BY <1>0, <2>1 DEF Typed
  <2>3. /\ n \in Replaying(d)' <=> n \in Replaying(d)
        /\ n \in Ahead(d)' <=> n \in Ahead(d)
    BY <2>1, <2>2 DEF Replaying, Ahead
  <2>. QED  BY <1>0, <1>k, <2>1, <2>2, <2>3
<1>10. ASSUME NEW n \in Node, NEW r \in sweepList[n], CountAttempt(n, r)
       PROVE  Charged(d)'
  <2> DEFINE x == [at |-> "preflight", of |-> r.of, try |-> 0, outcome |-> "none"]
  <2>1. /\ UNCHANGED <<row, mode, faults, sweepList>> /\ sweepAt[n] = "count"
        /\ sweepAt' = [sweepAt EXCEPT ![n] = "replay"]
        /\ attempts' = [attempts EXCEPT ![r.of] = r.attempts + 1]
        /\ run' = [run EXCEPT ![n] = x]
    BY <1>0, <1>10 DEF CountAttempt
  <2>2. x.at = "preflight" /\ x.of = r.of
    OBVIOUS
  <2> HIDE DEF x
  <2>3. /\ \A m \in Node \ {n} : sweepAt'[m] = sweepAt[m] /\ run'[m] = run[m]
        /\ sweepAt'[n] = "replay" /\ run'[n] = x
    BY <1>0, <2>1 DEF Typed
  <2>4. run[n].at = "idle"
    BY <1>0, <2>1 DEF ListsWellFormed
  <2>5. /\ Cover(d) \in Int /\ Cover(d)' \in Int
        /\ Cover(d)' = Cover(d) + (faults' - faults)
             + (IF n \in Replaying(d)' THEN 1 ELSE 0) - (IF n \in Replaying(d) THEN 1 ELSE 0)
             - (IF n \in Ahead(d)' THEN 1 ELSE 0) + (IF n \in Ahead(d) THEN 1 ELSE 0)
    BY <1>0, <2>1, <2>3, CoverMoves
  <2>6. n \notin Replaying(d)
    BY <2>4 DEF Replaying, Delivering
  <2>7. /\ attempts[d] <= Cover(d)
        /\ \A m \in Node : \A q \in sweepList[m] : q.of = d => q.attempts <= Cover(d)
        /\ row[d] = "failed" => config.maxAttempts <= Cover(d)
    BY <1>1 DEF Charged
  <2>8. /\ Cover(d)' = Cover(d) \/ Cover(d)' = Cover(d) + 1
        /\ attempts'[d] <= Cover(d)'
    <3>1. CASE r.of = d
      <4>1. n \in Replaying(d)' <=> mode[n] = "up"
        BY <2>1, <2>2, <2>3, <3>1 DEF Replaying, Delivering
      <4>2. n \notin Ahead(d)' /\ (n \in Ahead(d) <=> mode[n] # "up")
        BY <2>1, <2>2, <2>3, <3>1 DEF Ahead
      <4>3. Cover(d)' = Cover(d) + 1
        BY <1>0, <2>1, <2>5, <2>6, <4>1, <4>2
      <4>4. attempts'[d] = r.attempts + 1 /\ r.attempts <= Cover(d) /\ r.attempts \in Nat
        BY <1>0, <2>1, <2>7, <3>1
      <4>. QED  BY <2>5, <4>3, <4>4
    <3>2. CASE r.of # d
      <4>1. n \notin Replaying(d)'
        BY <2>2, <2>3, <3>2 DEF Replaying
      <4>2. n \in Ahead(d)' <=> n \in Ahead(d)
        BY <2>1, <2>2, <2>3, <3>2 DEF Ahead
      <4>3. Cover(d)' = Cover(d)
        BY <1>0, <2>1, <2>5, <2>6, <4>1, <4>2
      <4>4. attempts'[d] = attempts[d]
        BY <1>0, <2>1, <3>2
      <4>. QED  BY <2>7, <4>3, <4>4
    <3>. QED  BY <3>1, <3>2
  <2>9. ASSUME NEW k \in Nat, k <= Cover(d)
        PROVE  k <= Cover(d)'
    BY <2>5, <2>8, <2>9
  <2>10. /\ \A m \in Node : \A q \in sweepList[m] : q.of = d => q.attempts <= Cover(d)'
         /\ row[d] = "failed" => config.maxAttempts <= Cover(d)'
    BY <1>0, <1>m, <2>7, <2>9
  <2>. QED  BY <1>m, <2>1, <2>8, <2>10 DEF Charged
<1>11. ASSUME NEW n \in Node, NEW r \in sweepList[n], ConcludeReplay(n, r)
       PROVE  Charged(d)'
  <2>1. /\ UNCHANGED <<attempts, mode, faults>> /\ Advance(n, r) /\ r.of = run[n].of
        /\ UNCHANGED row \/ CloseRow(r.of, "dispatched")
        /\ run[n].at = "conclude"
        /\ run' = [run EXCEPT ![n] = Fresh(NoDelivery)]
    BY <1>0, <1>11 DEF ConcludeReplay
  <2>2. /\ \A m \in Node \ {n} : run'[m] = run[m]
        /\ run'[n].at = "idle" /\ run'[n].of = NoDelivery
    BY <1>0, <2>1 DEF Fresh
  <2>3. row'[d] = "failed" => row[d] = "failed"
    BY <1>0, <1>c, <2>1
  <2>4. /\ \A m \in Node \ {n} : sweepList'[m] = sweepList[m] /\ sweepAt'[m] = sweepAt[m]
        /\ sweepList'[n] = sweepList[n] \ {r}
    BY <1>a, <2>1
  <2>5. n \notin Replaying(d)' /\ n \notin Replaying(d)
    BY <2>1, <2>2 DEF Replaying, Delivering
  <2>6. n \in Ahead(d)' => n \in Ahead(d)
    <3> SUFFICES ASSUME n \in Ahead(d)'
                 PROVE  n \in Ahead(d)
      OBVIOUS
    <3>1. mode[n] # "up"
      BY <2>1 DEF Ahead
    <3>2. PICK q \in sweepList[n] \ {r} : q.of = d
      BY <2>4 DEF Ahead
    <3>3. r.of # d
      BY <1>0, <3>2 DEF ListsWellFormed
    <3>. QED  BY <2>1, <3>1, <3>2, <3>3 DEF Ahead
  <2>. QED  BY <1>0, <1>k, <2>1, <2>2, <2>3, <2>4, <2>5, <2>6
<1>12. ASSUME NEW n \in Node, BeginShutdown(n)
       PROVE  Charged(d)'
  <2>1. /\ UNCHANGED <<row, attempts, sweepVars>> /\ faults' = faults + 1
        /\ mode[n] = "up" /\ mode' = [mode EXCEPT ![n] = "draining"]
    BY <1>12 DEF BeginShutdown, tables
  <2>2. \A m \in Node : run'[m] = run[m]
    <3>1. CASE UNCHANGED run
      BY <3>1
    <3>2. CASE run' = [w \in Run |->
                 IF w \in Delivery /\ home[w] = n /\ run[w].at = "parked"
                   THEN [run[w] EXCEPT !.at = "count", !.outcome = "closed"]
                   ELSE run[w]]
      BY <1>0, <3>2
    <3>. QED  BY <1>12, <3>1, <3>2 DEF BeginShutdown
  <2>3. n \notin Replaying(d)' /\ n \notin Ahead(d)
    BY <1>0, <2>1 DEF Replaying, Ahead
  <2>4. ~(n \in Replaying(d) /\ n \in Ahead(d)')
    <3> SUFFICES ASSUME n \in Replaying(d)
                 PROVE  n \notin Ahead(d)'
      OBVIOUS
    <3>1. run[n].of = d /\ sweepAt[n] = "replay"
      BY <1>0 DEF Replaying, ListsWellFormed, Delivering
    <3>. QED  BY <2>1, <2>2, <3>1 DEF Ahead, sweepVars
  <2>5. /\ \A m \in Node \ {n} :
             /\ mode'[m] = mode[m] /\ run'[m] = run[m]
             /\ sweepAt'[m] = sweepAt[m] /\ sweepList'[m] = sweepList[m]
        /\ sweepList'[n] \subseteq sweepList[n]
    BY <1>0, <2>1, <2>2 DEF sweepVars
  <2>. QED  BY <1>0, <1>k, <2>1, <2>3, <2>4, <2>5
<1>13. ASSUME NEW n \in Node, Crash(n) \/ Exit(n)
       PROVE  Charged(d)'
  <2>1. /\ UNCHANGED <<row, attempts>>
        /\ mode' = [mode EXCEPT ![n] = "up"]
        /\ sweepAt' = [sweepAt EXCEPT ![n] = "idle"] /\ sweepList' = [sweepList EXCEPT ![n] = {}]
        /\ run' = [w \in Run |->
             CASE w = n -> Fresh(NoDelivery)
               [] w \in Delivery /\ home[w] = n -> Over(w)
               [] OTHER -> run[w]]
        /\ faults' = faults + 1 \/ (mode[n] # "up" /\ faults' = faults)
    BY <1>13 DEF Crash, Exit, Reboot, tables
  <2>2. /\ \A m \in Node \ {n} : run'[m] = run[m]
        /\ run'[n].at = "idle"
    BY <1>0, <2>1 DEF Fresh
  <2>3. /\ \A m \in Node \ {n} :
             mode'[m] = mode[m] /\ sweepAt'[m] = sweepAt[m] /\ sweepList'[m] = sweepList[m]
        /\ sweepList'[n] = {}
    BY <1>0, <2>1 DEF Typed
  <2>4. /\ n \notin Replaying(d)' /\ n \notin Ahead(d)'
        /\ mode[n] # "up" => n \notin Replaying(d)
    BY <2>2, <2>3 DEF Replaying, Ahead, Delivering
  <2>. QED  BY <1>0, <1>k, <2>1, <2>2, <2>3, <2>4
<1>14. ASSUME NEW n \in Node, DrainEnds(n)
       PROVE  Charged(d)'
  <2>1. /\ UNCHANGED <<row, attempts, run, faults, sweepAt, sweepList>>
        /\ mode[n] # "up" /\ mode' = [mode EXCEPT ![n] = "leaving"]
    BY <1>14 DEF DrainEnds, tables, sweepVars
  <2>2. mode'[n] # "up" /\ \A m \in Node \ {n} : mode'[m] = mode[m]
    BY <1>0, <2>1
  <2>3. /\ n \in Replaying(d)' <=> n \in Replaying(d)
        /\ n \in Ahead(d)' <=> n \in Ahead(d)
    BY <2>1, <2>2 DEF Replaying, Ahead
  <2>. QED  BY <1>0, <1>k, <2>1, <2>2, <2>3
<1>. QED
  BY <1>2, <1>3, <1>4, <1>5, <1>6, <1>7, <1>8, <1>9, <1>10, <1>11, <1>12, <1>13, <1>14
  DEF Next, LiveStep, Sweep

(* What makes the account of a row that was given up on inductive. *)
GivenUpInvariant == WellFormed /\ SweepsWellFormed /\ ChargesAreCovered

LEMMA GivenUpInductive ==
  ASSUME ~StoreFails
  PROVE  Spec => []GivenUpInvariant
<1>1. Init => SweepsWellFormed /\ ChargesAreCovered
  <2> SUFFICES ASSUME Init
               PROVE  SweepsWellFormed /\ ChargesAreCovered
    OBVIOUS
  <2>1. /\ \A d \in Delivery : born[d] = 0 /\ row[d] = "none" /\ attempts[d] = 0
        /\ \A n \in Node : sweepList[n] = {} /\ sweepAt[n] = "idle"
        /\ \A w \in Run : run[w].at = "idle"
        /\ faults = 0
    BY DEF Init, Fresh
  <2>c. config.maxFaults \in Nat
    BY ConstantsAssumption DEF Init, Config
  <2>2. Opened = {} /\ Cardinality(Opened) = 0
    BY <2>1, FS_EmptySet DEF Opened
  <2>3. SweepsWellFormed
    BY <2>1, <2>c, <2>2, ConstantsAssumption
    DEF SweepsWellFormed, BirthsInOrder, ListsWellFormed, Run
  <2>4. ASSUME NEW d \in Delivery
        PROVE  Charged(d)
    <3>1. Replaying(d) = {} /\ Ahead(d) = {}
      BY <2>1 DEF Replaying, Ahead, Delivering, Run
    <3>2. Cover(d) = 0
      BY <2>1, <3>1, FS_EmptySet DEF Cover
    <3>. QED  BY <2>1, <3>2 DEF Charged
  <2>. QED  BY <2>3, <2>4 DEF ChargesAreCovered
<1>2. ASSUME GivenUpInvariant, WellFormed', [Next]_vars
      PROVE  GivenUpInvariant'
  BY <1>2, SweepsKept, ChargesKept DEF GivenUpInvariant
<1>3. Init => GivenUpInvariant
  BY <1>1, WellFormedInit DEF GivenUpInvariant
<1>. QED  BY <1>2, <1>3, WellFormedInvariant, PTL DEF Spec

(* A row whose budget is spent was delivered or reported, or is about to   *)
(* be.  A replay with nothing to show was cut off, so the budget is spent  *)
(* on such replays only after as many faults as there are replays in it,   *)
(* but for those that still run; with fewer faults than that, one does.    *)
THEOREM FailedIsAccountedAlways ==
  ASSUME ~StoreFails
  PROVE  Spec => []FailedIsAccounted
<1>1. GivenUpInvariant => FailedIsAccounted
  <2> SUFFICES ASSUME GivenUpInvariant, NEW d \in Delivery, row[d] = "failed", ~Accounted(d),
                      faults < config.maxAttempts
               PROVE  \E w \in Run : run[w].of = d /\ run[w].at \in Delivering
    BY DEF FailedIsAccounted
  <2>1. config.maxAttempts <= Cover(d)
    BY DEF GivenUpInvariant, ChargesAreCovered, Charged
  <2>2. faults \in Nat /\ faults <= config.maxFaults /\ config.maxFaults \in Nat /\ config.maxAttempts \in Nat
    BY ConstantsAssumption DEF GivenUpInvariant, WellFormed, SweepsWellFormed, Typed, Config
  <2>3. Cardinality(Ahead(d)) \in Nat
    <3>1. Ahead(d) \subseteq Node
      BY DEF Ahead
    <3>. QED  BY <3>1, ConstantsAssumption, FS_Subset, FS_CardinalityType
  <2>4. Replaying(d) # {}
    <3> SUFFICES ASSUME Replaying(d) = {}
                 PROVE  FALSE
      OBVIOUS
    <3>1. Cardinality(Replaying(d)) = 0
      BY FS_EmptySet
    <3>. QED  BY <2>1, <2>2, <2>3, <3>1 DEF Cover
  <2>. QED  BY <2>4 DEF Replaying, Run
<1>. QED  BY <1>1, GivenUpInductive, PTL

-----------------------------------------------------------------------------
(* The outbox.                                                             *)

(* A step that leaves the rows alone can only bring more to light.         *)
LEMMA StepShows ==
  ASSUME ~StoreFails, WellFormed, [Next]_vars, UNCHANGED row
  PROVE  Abstract!Show
<1>1. \A d \in Delivery : Accounted(d) => Accounted(d)'
  BY AccountKept
<1>2. Shown \subseteq Shown' /\ Shown' \subseteq Delivery
  BY <1>1 DEF Shown
<1>. QED  BY <1>2 DEF Abstract!Show

(* Nothing comes to light in a step that leaves the receiver, the failure  *)
(* rows, the jobs and the fates of the deliveries alone.                   *)
LEMMA ShownStays ==
  ASSUME UNCHANGED <<failures, jobs, fates>>
  PROVE  UNCHANGED Shown
<1>1. \A d \in Delivery : Accounted(d)' <=> Accounted(d)
  BY DEF Accounted, fates
<1>. QED  BY <1>1 DEF Shown

(* close() is Retire or GiveUp, or finds no row.                           *)
LEMMA CloseSettles ==
  ASSUME Typed, NEW d \in Delivery, UNCHANGED Shown,
         CloseRow(d, "failed") \/ (CloseRow(d, "dispatched") /\ Accounted(d))
  PROVE  [Abstract!Next]_<<row, Shown>>
<1>1. row \in [Delivery -> RowStates]
  BY DEF Typed
<1>2. CASE row[d] = "none"
  <2>1. row' = row
    BY <1>1, <1>2 DEF CloseRow
  <2>. QED  BY <2>1
<1>3. CASE row[d] # "none" /\ CloseRow(d, "failed")
  <2>1. Abstract!GiveUp(d)
    BY <1>1, <1>3 DEF CloseRow, Abstract!GiveUp
  <2>. QED  BY <2>1 DEF Abstract!Next
<1>4. CASE row[d] # "none" /\ CloseRow(d, "dispatched") /\ Accounted(d)
  <2>1. d \in Shown
    BY <1>4 DEF Shown
  <2>2. Abstract!Retire(d)
    BY <1>1, <1>4, <2>1 DEF CloseRow, Abstract!Retire
  <2>. QED  BY <2>2 DEF Abstract!Next
<1>. QED  BY <1>2, <1>3, <1>4

(* A row is only opened where there is none, because a delivery is         *)
(* dispatched once; whoever retires a row concludes a run that has         *)
(* something to show; and the other steps leave the rows alone.            *)
LEMMA StepIsOfOutbox ==
  ASSUME ~StoreFails, WellFormed, ConcludedIsAccounted, BirthsInOrder, [Next]_vars
  PROVE  [Abstract!Next]_<<row, Shown>>
<1>0. Typed /\ RunsWellFormed /\ ~QueryFails
  BY DEF WellFormed, QueryFails
<1>1. ASSUME UNCHANGED row
      PROVE  [Abstract!Next]_<<row, Shown>>
  BY <1>1, StepShows DEF Abstract!Next
<1>2. ASSUME NEW d \in Delivery, Open(d)
      PROVE  [Abstract!Next]_<<row, Shown>>
  <2>1. run[d].at = "opening" /\ row' = [row EXCEPT ![d] = "pending"]
    BY <1>0, <1>2 DEF Open
  <2>2. row[d] = "none"
    <3>1. born[d] = 0
      BY <2>1 DEF BirthsInOrder
    <3>. QED  BY <3>1 DEF BirthsInOrder
  <2>3. UNCHANGED Shown
    BY <1>2, ShownStays DEF Open
  <2>4. Abstract!Record(d)
    BY <2>1, <2>2, <2>3 DEF Abstract!Record
  <2>. QED  BY <2>4 DEF Abstract!Next
<1>3. ASSUME NEW d \in Delivery, ConcludeDispatch(d)
      PROVE  [Abstract!Next]_<<row, Shown>>
  <2>1. run[d].at = "conclude" /\ CloseRow(d, "dispatched")
    BY <1>0, <1>3 DEF ConcludeDispatch
  <2>2. Accounted(d)
    BY <1>0, <2>1 DEF ConcludedIsAccounted, RunsWellFormed, Run
  <2>3. UNCHANGED Shown
    BY <1>3, ShownStays DEF ConcludeDispatch
  <2>. QED  BY <1>0, <2>1, <2>2, <2>3, CloseSettles
<1>4. ASSUME NEW n \in Node, NEW r \in sweepList[n],
             CloseSpent(n, r) \/ CloseUnsubscribed(n, r)
      PROVE  [Abstract!Next]_<<row, Shown>>
  <2>1. r.of \in Delivery
    BY <1>0 DEF Typed, Snapshot
  <2>2. CloseRow(r.of, "failed")
    BY <1>0, <1>4 DEF CloseSpent, CloseUnsubscribed
  <2>3. UNCHANGED Shown
    BY <1>4, ShownStays DEF CloseSpent, CloseUnsubscribed
  <2>4. ASSUME NEW d \in Delivery, CloseRow(d, "failed")
        PROVE  [Abstract!Next]_<<row, Shown>>
    BY <1>0, <2>3, <2>4, CloseSettles
  <2>. QED  BY <2>1, <2>2, <2>4
<1>5. ASSUME NEW n \in Node, NEW r \in sweepList[n], ConcludeReplay(n, r)
      PROVE  [Abstract!Next]_<<row, Shown>>
  <2>1. r.of \in Delivery /\ r.of = run[n].of /\ run[n].at = "conclude" /\ n \in Run
    BY <1>0, <1>5 DEF ConcludeReplay, Typed, Snapshot, Run
  <2>2. Accounted(r.of)
    BY <2>1 DEF ConcludedIsAccounted
  <2>3. UNCHANGED Shown
    BY <1>5, ShownStays DEF ConcludeReplay
  <2>4. ASSUME NEW d \in Delivery, Accounted(d), CloseRow(d, "dispatched")
        PROVE  [Abstract!Next]_<<row, Shown>>
    BY <1>0, <2>3, <2>4, CloseSettles
  <2>5. CASE CloseRow(r.of, "dispatched")
    BY <2>1, <2>2, <2>4, <2>5
  <2>. QED  BY <1>0, <1>1, <1>5, <2>5 DEF ConcludeReplay
<1>6. ASSUME NEW d \in Delivery, Admit(d) \/ \E n \in Node : Dispatch(n, d)
      PROVE  UNCHANGED row
  BY <1>6 DEF Admit, Dispatch, tables
<1>7. ASSUME NEW w \in Run, Deliver(w)
      PROVE  UNCHANGED row
  BY <1>0, <1>7, DeliverStep
<1>8. ASSUME NEW n \in Node, NEW r, FindWebhook(n, r) \/ CountAttempt(n, r)
      PROVE  UNCHANGED row
  BY <1>8 DEF FindWebhook, CountAttempt, tables
<1>9. ASSUME NEW n \in Node,
             BeginSweep(n) \/ BeginShutdown(n) \/ DrainEnds(n) \/ Crash(n) \/ Exit(n)
      PROVE  UNCHANGED row
  BY <1>9 DEF BeginSweep, BeginShutdown, DrainEnds, Crash, Exit, Reboot, tables
<1>10. ASSUME Work \/ UNCHANGED vars
       PROVE  UNCHANGED row
  BY <1>10 DEF Work, ProcessJob, CountJobFailures, InsertJobFailure, TakeJob, vars, tables
<1>. QED
  BY <1>1, <1>2, <1>3, <1>4, <1>5, <1>6, <1>7, <1>8, <1>9, <1>10 DEF Next, LiveStep, Sweep

(* The dispatcher, the sweeps of all processes, the queue and its workers, *)
(* crashes and shutdowns together implement the outbox: the row of a       *)
(* delivery is written once, retired as dispatched only with something to  *)
(* show for it, and not pending again once it was settled, whichever live  *)
(* run, replay or sweep settles it, in turn or anew.                       *)
THEOREM OutboxImplements ==
  ASSUME ~StoreFails
  PROVE  Spec => ImplementsOutbox
<1>1. Init => Abstract!Init
  <2>1. Init => Shown = {}
    BY DEF Init, Shown, Accounted
  <2>. QED  BY <2>1 DEF Init, Abstract!Init
<1>2. AccountInvariant /\ GivenUpInvariant /\ [Next]_vars
        => [Abstract!Next]_<<row, Shown>>
  BY StepIsOfOutbox DEF AccountInvariant, GivenUpInvariant, SweepsWellFormed
<1>. QED
  BY <1>1, <1>2, AccountInductive, GivenUpInductive, PTL
  DEF Spec, ImplementsOutbox, Abstract!Spec

-----------------------------------------------------------------------------
(* What the comments say of the table of failures, and when it is so.      *)

(* Without the queue there are no jobs. *)
Direct ==
  /\ ~config.queued
  /\ jobs = {}
  /\ \A w \in Run : run[w].at # "enqueue"
  /\ \A d \in Delivery : ~stalledOut[d]

(* Where each step of deliverOne() leads. *)
LEMMA DeliverLeads ==
  ASSUME Typed, NEW w \in Run
  PROVE  /\ Preflight(w) => run'[w].at \in {"conclude", "count", IF config.queued THEN "enqueue" ELSE "post"}
         /\ Enqueue(w) => run'[w].at \in {"conclude", "post"}
         /\ Post(w) => run'[w].at \in {"conclude", "count", "post"}
         /\ CountFailures(w) => \/ run'[w].at \in {"conclude", "done"}
                                \/ /\ run'[w].at = "insert"
                                   /\ ~(failures[run[w].of] > 0)
         /\ InsertFailure(w) => run'[w].at \in {"conclude", "done"}
<1>0. run \in [Run -> RunRecord] /\ run[w] \in RunRecord
  BY DEF Typed
<1>1. /\ \A a : run' = [run EXCEPT ![w].at = a] => run'[w].at = a
      /\ \A a, o : run' = [run EXCEPT ![w].at = a, ![w].outcome = o] => run'[w].at = a
      /\ \A a, t : run' = [run EXCEPT ![w].at = a, ![w].try = t] => run'[w].at = a
      /\ \A t : run' = [run EXCEPT ![w].try = t] => run'[w].at = run[w].at
  BY <1>0 DEF RunRecord
<1>2. AfterRecord(w) \in {"conclude", "done"}
  BY DEF AfterRecord
<1>3. Preflight(w) => run'[w].at \in {"conclude", "count", IF config.queued THEN "enqueue" ELSE "post"}
  BY <1>1 DEF Preflight
<1>4. Enqueue(w) => run'[w].at \in {"conclude", "post"}
  BY <1>1 DEF Enqueue
<1>5. ASSUME Post(w), NEW t, t = run[w].try + 1
      PROVE  run'[w].at \in {"conclude", "count", "post"}
  <2>1. \/ run' = [run EXCEPT ![w].at = "conclude", ![w].outcome = "delivered"]
        \/ run' = [run EXCEPT ![w].try = t]
        \/ run' = [run EXCEPT ![w].at = "count", ![w].outcome = "failed"]
    BY <1>0, <1>5 DEF Post
  <2>2. run[w].at = "post"
    BY <1>5 DEF Post
  <2>. QED  BY <1>1, <2>1, <2>2
<1>6. CountFailures(w) => \/ run'[w].at \in {"conclude", "done"}
                         \/ /\ run'[w].at = "insert"
                            /\ ~(failures[run[w].of] > 0)
  BY <1>1, <1>2 DEF CountFailures
<1>7. InsertFailure(w) => run'[w].at \in {"conclude", "done"}
  BY <1>1, <1>2 DEF InsertFailure
<1>. QED  BY <1>3, <1>4, <1>5, <1>6, <1>7

LEMMA DirectInductive ==
  ASSUME \A c \in Configs : ~c.queued
  PROVE  Spec => []Direct
<1>1. Init => Direct
  BY DEF Init, Fresh, Direct
<1>2. ASSUME WellFormed, Direct, [Next]_vars
      PROVE  Direct'
  <2>0. Typed /\ RunsWellFormed /\ ~config.queued /\ jobs = {} /\ run \in [Run -> RunRecord]
    BY <1>2 DEF WellFormed, Typed, Direct
  <2>1. ASSUME NEW w \in Run, Deliver(w)
        PROVE  UNCHANGED <<config, jobs, stalledOut>>
    <3>1. UNCHANGED <<config, stalledOut>>
      BY <2>0, <2>1, DeliverStep
    <3>2. ~Enqueue(w)
      BY <1>2 DEF Direct, Enqueue
    <3>3. UNCHANGED jobs
      BY <2>1, <3>2 DEF Deliver, Preflight, Post, CountFailures, InsertFailure
    <3>. QED  BY <3>1, <3>3
  <2>2. ASSUME NEW n \in Node, Reboot(n)
        PROVE  UNCHANGED <<config, jobs>> /\ \A d \in Delivery : ~stalledOut'[d]
    <3>1. UNCHANGED config
      BY <2>2 DEF Reboot
    <3>2. jobs' = {}
      BY <2>0, <2>2 DEF Reboot
    <3>3. \A d \in Delivery : stalledOut'[d] <=> stalledOut[d]
      BY <2>0, <2>2 DEF Reboot
    <3>. QED  BY <1>2, <2>0, <3>1, <3>2, <3>3 DEF Direct
  <2>3. ASSUME NEW d \in Delivery, LiveStep(d) \/ \E n \in Node : Dispatch(n, d)
        PROVE  UNCHANGED <<config, jobs, stalledOut>>
    BY <2>3 DEF LiveStep, Open, Admit, ConcludeDispatch, Dispatch, fates
  <2>4. ASSUME NEW n \in Node, Sweep(n) \/ BeginShutdown(n) \/ DrainEnds(n)
        PROVE  UNCHANGED <<config, jobs, stalledOut>>
    BY <2>4 DEF Sweep, BeginSweep, CloseSpent, FindWebhook, CloseUnsubscribed, CountAttempt,
                ConcludeReplay, BeginShutdown, DrainEnds, fates
  <2>5. ~Work
    BY <2>0 DEF Work
  <2>6. UNCHANGED vars => UNCHANGED <<config, jobs, stalledOut>>
    BY DEF vars, fates
  <2>7. ~config'.queued /\ jobs' = {} /\ \A d \in Delivery : ~stalledOut'[d]
    BY <1>2, <2>1, <2>2, <2>3, <2>4, <2>5, <2>6 DEF Next, Crash, Exit, Direct
  <2>8. ASSUME NEW w \in Run, run'[w].at = "enqueue"
        PROVE  FALSE
    <3>1. run'[w] # run[w]
      BY <1>2, <2>8 DEF Direct
    <3>2. Deliver(w)
      BY <1>2, <2>0, <2>8, <3>1, OnlyDeliverGetsThere DEF Beyond
    <3>. QED  BY <2>0, <2>8, <3>2, DeliverLeads DEF Deliver
  <2>. QED  BY <2>7, <2>8 DEF Direct
<1>. QED  BY <1>1, <1>2, WellFormedInvariant, PTL DEF Spec

(* "The failure row is where recovery continues" is so in direct mode,     *)
(* where no job still has to report, as long as there are fewer faults     *)
(* than replays in the budget, one less for each process: none of them is  *)
(* then still delivering what another one closes.                          *)
THEOREM FailedIsReportedAlways ==
  ASSUME ~StoreFails, \A c \in Configs : ~c.queued /\ c.maxFaults + Cardinality(Node) < c.maxAttempts
  PROVE  Spec => []FailedIsReported
<1>1. ASSUME GivenUpInvariant, Direct, NEW d \in Delivery, row[d] = "failed"
      PROVE  received[d] \/ failures[d] > 0 \/ dropped[d]
  <2>1. Accounted(d)
    <3> SUFFICES ASSUME ~Accounted(d)
                 PROVE  FALSE
      OBVIOUS
    <3>1. config.maxAttempts <= Cover(d)
      BY <1>1 DEF GivenUpInvariant, ChargesAreCovered, Charged
    <3>2. /\ faults \in Nat /\ faults <= config.maxFaults
          /\ config.maxFaults \in Nat /\ config.maxAttempts \in Nat
      BY <1>1, ConstantsAssumption DEF GivenUpInvariant, WellFormed, SweepsWellFormed, Typed, Config
    <3>3. Replaying(d) \subseteq Node /\ Ahead(d) \subseteq Node
      BY DEF Replaying, Ahead
    <3>4. /\ Cardinality(Replaying(d)) \in Nat /\ Cardinality(Ahead(d)) \in Nat
          /\ Cardinality(Node) \in Nat /\ Cardinality(Replaying(d)) <= Cardinality(Node)
      BY <3>3, ConstantsAssumption, FS_Subset, FS_CardinalityType
    <3>5. config.maxFaults + Cardinality(Node) < config.maxAttempts
      BY <1>1 DEF GivenUpInvariant, WellFormed, Typed
    <3>. QED  BY <3>1, <3>2, <3>4, <3>5 DEF Cover
  <2>. QED  BY <1>1, <2>1 DEF Accounted, Direct
<1>2. ASSUME GivenUpInvariant, Direct
      PROVE  FailedIsReported
  <2> SUFFICES ASSUME NEW d \in Delivery, row[d] = "failed"
               PROVE  received[d] \/ failures[d] > 0 \/ dropped[d]
    BY DEF FailedIsReported
  <2>. QED  BY <1>1, <1>2
<1>3. \A c \in Configs : ~c.queued
  OBVIOUS
<1>4. Spec => []Direct
  BY <1>3, DirectInductive
<1>. QED  BY <1>2, <1>4, GivenUpInductive, PTL

(* A live run that is over stays so: no delivery is dispatched again.      *)
LEMMA DoneStays ==
  ASSUME WellFormed, [Next]_vars, NEW d \in Delivery, run[d].at = "done"
  PROVE  run'[d].at = "done"
<1>0. /\ Typed /\ RunsWellFormed /\ LimiterWellFormed
      /\ run \in [Run -> RunRecord] /\ run[d] \in RunRecord
      /\ d \in Run /\ d \notin Node
  BY ConstantsAssumption DEF WellFormed, Typed, Run
<1>1. ASSUME NEW n \in Node, NEW e \in Delivery, Dispatch(n, e)
      PROVE  run'[d] = run[d]
  <2>1. run[e].at = "idle" /\ run' = [run EXCEPT ![e].at = "opening"]
    BY <1>0, <1>1 DEF Dispatch, RunsWellFormed
  <2>. QED  BY <1>0, <2>1
<1>2. ASSUME NEW e \in Delivery, Open(e) \/ Admit(e)
      PROVE  run'[d] = run[d]
  <2>1. run[e].at \in {"opening", "opened"}
    BY <1>2 DEF Open, Admit
  <2>. QED  BY <1>0, <1>2, <2>1 DEF Open, Admit
<1>3. ASSUME NEW e \in Delivery, ConcludeDispatch(e)
      PROVE  run'[d].at = "done"
  <2>1. CASE d = e
    <3>1. Over(d).at = "done"
      BY <1>0, RunEnds
    <3>. QED  BY <1>0, <1>3, <2>1, <3>1 DEF ConcludeDispatch
  <2>2. CASE d # e
    <3>1. home[e] \in Node
      BY <1>0, <1>3 DEF ConcludeDispatch, RunsWellFormed, Typed
    <3>2. waiters[home[e]] # <<>> => d # Head(waiters[home[e]])
      <4> SUFFICES ASSUME waiters[home[e]] # <<>>
                   PROVE  Head(waiters[home[e]]) \in Parked(home[e])
        BY DEF Parked
      <4>1. /\ waiters[home[e]] \in Seq(Delivery) /\ IsInjective(waiters[home[e]])
            /\ ToSet(waiters[home[e]]) = Parked(home[e])
        BY <1>0, <3>1 DEF Typed, LimiterWellFormed
      <4>. QED  BY <4>1, LineShrinks
    <3>3. run'[d] = run[d]
      BY <1>0, <1>3, <2>2, <3>2 DEF ConcludeDispatch
    <3>. QED  BY <3>3
  <2>. QED  BY <2>1, <2>2
<1>4. ASSUME NEW w \in Run, Deliver(w)
      PROVE  run'[d] = run[d]
  <2>1. run[w].at \in Delivering /\ \A u \in Run \ {w} : run'[u] = run[u]
    BY <1>0, <1>4, DeliverStep DEF Moved
  <2>. QED  BY <1>0, <2>1 DEF Delivering
<1>5. ASSUME NEW n \in Node, Sweep(n)
      PROVE  run'[d] = run[d]
  BY <1>0, <1>5 DEF Sweep, BeginSweep, CloseSpent, FindWebhook, CloseUnsubscribed,
                    CountAttempt, ConcludeReplay
<1>6. ASSUME NEW n \in Node, BeginShutdown(n)
      PROVE  run'[d] = run[d]
  BY <1>0, <1>6 DEF BeginShutdown
<1>7. ASSUME NEW n \in Node, Reboot(n)
      PROVE  run'[d].at = "done"
  <2>1. Over(d).at = "done"
    BY <1>0, RunEnds
  <2>. QED  BY <1>0, <1>7, <2>1 DEF Reboot
<1>8. ASSUME Work \/ UNCHANGED vars \/ \E n \in Node : DrainEnds(n)
      PROVE  run' = run
  BY <1>8 DEF Work, ProcessJob, CountJobFailures, InsertJobFailure, TakeJob, DrainEnds, vars
<1>. QED  BY <1>1, <1>2, <1>3, <1>4, <1>5, <1>6, <1>7, <1>8 DEF Next, LiveStep, Crash, Exit

(* A replay is of a delivery whose live run is over, and whoever is about  *)
(* to insert a failure row found none, and still would.                    *)
RecordsAlone ==
  /\ \A n \in Node : \A r \in sweepList[n] : run[r.of].at = "done"
  /\ \A n \in Node : run[n].at # "idle" => run[run[n].of].at = "done"
  /\ \A w \in Run : run[w].at = "insert" => failures[run[w].of] = 0
  /\ ReportedOnce

(* With one process there is one replay at a time.                         *)
LEMMA InsertsAlone ==
  ASSUME RunsWellFormed, RecordsAlone, \A m, n \in Node : m = n,
         NEW v \in Run, NEW w \in Run,
         run[v].at = "insert", run[w].at = "insert", run[v].of = run[w].of
  PROVE  v = w
<1>1. \A u \in Run : u \in Delivery \/ u \in Node
  BY DEF Run
<1>2. ASSUME NEW d \in Delivery, NEW n \in Node,
             run[d].at = "insert", run[n].at = "insert", run[n].of = run[d].of
      PROVE  FALSE
  BY <1>2 DEF RunsWellFormed, RecordsAlone
<1>. QED  BY <1>1, <1>2 DEF RunsWellFormed

LEMMA RecordsAloneKept ==
  ASSUME GraceCovers, \A m, n \in Node : m = n,
         WellFormed, Direct, RecordsAlone, [Next]_vars
  PROVE  RecordsAlone'
<1>0. /\ Typed /\ RunsWellFormed /\ ~Work
      /\ run \in [Run -> RunRecord] /\ \A w \in Run : run[w] \in RunRecord
      /\ failures \in [Delivery -> Nat]
      /\ Node \subseteq Run /\ Node \cap Delivery = {}
      /\ \A w \in Run : run[w].at = "insert" => run[w].of \in Delivery
      /\ \A n \in Node : \A r \in sweepList[n] : r.of \in Delivery
  BY ConstantsAssumption DEF WellFormed, Typed, RunsWellFormed, Direct, Work, Run, Snapshot
<1>d. \A d \in Delivery : run[d].at = "done" => run'[d].at = "done"
  BY DoneStays
<1>1. ASSUME NEW n \in Node, NEW r \in sweepList'[n]
      PROVE  run'[r.of].at = "done"
  <2>1. CASE r \in sweepList[n]
    BY <1>0, <1>d, <2>1 DEF RecordsAlone
  <2>2. CASE r \notin sweepList[n]
    <3>1. ASSUME NEW m \in Node, Sweep(m)
          PROVE  BeginSweep(m) /\ m = n
      <4>1. BeginSweep(m) \/ sweepList'[n] \subseteq sweepList[n]
        BY <1>0, <3>1 DEF Sweep, CloseSpent, FindWebhook, CloseUnsubscribed, CountAttempt,
                          ConcludeReplay, Advance, Typed
      <4>. QED  BY <2>2, <4>1
    <3>2. ASSUME NEW m \in Node, Reboot(m)
          PROVE  FALSE
      BY <1>0, <2>2, <3>2 DEF Reboot, Typed
    <3>3. ASSUME UNCHANGED sweepVars
          PROVE  FALSE
      BY <2>2, <3>3 DEF sweepVars
    <3>4. \A w \in Run : Deliver(w) => UNCHANGED sweepVars
      BY <1>0, DeliverStep
    <3>5. \A d \in Delivery : LiveStep(d) => UNCHANGED sweepVars
      BY DEF LiveStep, Open, Admit, ConcludeDispatch
    <3>6. \A m \in Node, d \in Delivery : Dispatch(m, d) => UNCHANGED sweepVars
      BY DEF Dispatch
    <3>7. \A m \in Node : BeginShutdown(m) \/ DrainEnds(m) => UNCHANGED sweepVars
      BY DEF BeginShutdown, DrainEnds
    <3>8. UNCHANGED vars => UNCHANGED sweepVars
      BY DEF vars
    <3>9. BeginSweep(n)
      BY <1>0, <3>1, <3>2, <3>3, <3>4, <3>5, <3>6, <3>7, <3>8 DEF Next, Crash, Exit
    <3>10. r \in {[of |-> d, attempts |-> attempts[d]] : d \in Stale}
      BY <1>0, <3>9 DEF BeginSweep, Typed
    <3>11. r.of \in Stale
      BY <3>10
    <3>12. r.of \in Delivery /\ run[r.of].at = "done"
      BY <3>11 DEF Stale
    <3>. QED  BY <1>d, <3>12
  <2>. QED  BY <2>1, <2>2
<1>2. ASSUME NEW n \in Node, run'[n].at # "idle"
      PROVE  run'[run'[n].of].at = "done"
  <2>1. ASSUME run'[n].of = run[n].of, run[n].at # "idle"
        PROVE  run'[run'[n].of].at = "done"
    BY <1>0, <1>d, <2>1 DEF RunsWellFormed, RecordsAlone
  <2>2. ASSUME NEW m \in Node, Sweep(m), run'[n] # run[n]
        PROVE  \E r \in sweepList[n] : run'[n].of = r.of
    <3>1. ASSUME NEW r \in sweepList[m], ConcludeReplay(m, r)
          PROVE  FALSE
      BY <1>0, <1>2, <2>2, <3>1 DEF ConcludeReplay, Fresh
    <3>2. PICK r \in sweepList[m] : CountAttempt(m, r)
      BY <2>2, <3>1 DEF Sweep, BeginSweep, CloseSpent, FindWebhook, CloseUnsubscribed
    <3>3. m = n
      OBVIOUS
    <3>4. run'[n] = [at |-> "preflight", of |-> r.of, try |-> 0, outcome |-> "none"]
      BY <1>0, <3>2, <3>3 DEF CountAttempt
    <3>. QED  BY <3>3, <3>4
  <2>3. ASSUME NEW r \in sweepList[n], run'[n].of = r.of
        PROVE  run'[run'[n].of].at = "done"
    BY <1>0, <1>d, <2>3 DEF RecordsAlone
  <2>4. ASSUME NEW w \in Run, Deliver(w)
        PROVE  run'[n].of = run[n].of /\ run[n].at # "idle"
    <3>1. /\ run[w].at \in Delivering /\ run'[w].of = run[w].of
          /\ \A u \in Run \ {w} : run'[u] = run[u]
      BY <1>0, <2>4, DeliverStep DEF Moved
    <3>. QED  BY <1>0, <1>2, <3>1 DEF Delivering
  <2>5. ASSUME NEW m \in Node, Reboot(m)
        PROVE  FALSE
    BY <1>0, <1>2, <2>5 DEF Reboot, Fresh
  <2>6. ASSUME NEW e \in Delivery, LiveStep(e) \/ \E m \in Node : Dispatch(m, e)
        PROVE  run'[n] = run[n]
    <3>1. n # e
      BY <1>0
    <3>2. CASE ConcludeDispatch(e)
      <4>1. home[e] \in Node
        BY <1>0, <3>2 DEF ConcludeDispatch, RunsWellFormed, Typed
      <4>2. waiters[home[e]] # <<>> => Head(waiters[home[e]]) \in Delivery
        BY <1>0, <4>1 DEF Typed
      <4>. QED  BY <1>0, <3>1, <3>2, <4>2 DEF ConcludeDispatch
    <3>. QED  BY <1>0, <2>6, <3>1, <3>2 DEF LiveStep, Open, Admit, Dispatch
  <2>7. ASSUME NEW m \in Node, BeginShutdown(m) \/ DrainEnds(m)
        PROVE  run'[n] = run[n]
    BY <1>0, <2>7 DEF BeginShutdown, DrainEnds
  <2>8. ASSUME UNCHANGED vars
        PROVE  run'[n] = run[n]
    BY <2>8 DEF vars
  <2>9. CASE run'[n] = run[n]
    BY <1>2, <2>1, <2>9
  <2>10. CASE run'[n] # run[n]
    BY <1>0, <2>1, <2>2, <2>3, <2>4, <2>5, <2>6, <2>7, <2>8, <2>10 DEF Next, Crash, Exit
  <2>. QED  BY <2>9, <2>10
<1>3. ASSUME NEW w \in Run, run'[w].at = "insert"
      PROVE  \/ run'[w] = run[w]
             \/ /\ UNCHANGED failures
                /\ run'[w].of = run[w].of /\ run[w].of \in Delivery
                /\ failures[run[w].of] = 0
  <2> SUFFICES ASSUME run'[w] # run[w]
               PROVE  /\ UNCHANGED failures
                      /\ run'[w].of = run[w].of /\ run[w].of \in Delivery
                      /\ failures[run[w].of] = 0
    OBVIOUS
  <2>1. Deliver(w) /\ run'[w].of = run[w].of
    BY <1>0, <1>3, OnlyDeliverGetsThere DEF Beyond
  <2>2. run[w].of \in Delivery
    BY <1>0, <2>1, DeliverStep
  <2>3. CountFailures(w) /\ ~(failures[run[w].of] > 0)
    BY <1>0, <1>3, <2>1, DeliverLeads DEF Deliver, Direct
  <2>4. UNCHANGED failures
    BY <2>3 DEF CountFailures, tables
  <2>. QED  BY <1>0, <2>1, <2>2, <2>3, <2>4
<1>4. ASSUME NEW v \in Run, InsertFailure(v)
      PROVE  /\ run[v].at = "insert" /\ run'[v].at # "insert"
             /\ \/ UNCHANGED failures
                \/ failures' = [failures EXCEPT ![run[v].of] = @ + 1]
  BY <1>0, <1>4, DeliverLeads DEF InsertFailure
<1>5. UNCHANGED failures \/ \E v \in Run : InsertFailure(v)
  <2>1. \A w \in Run : Deliver(w) => UNCHANGED failures \/ InsertFailure(w)
    BY DEF Deliver, Preflight, Enqueue, Post, CountFailures, tables
  <2>2. \A d \in Delivery : LiveStep(d) => UNCHANGED failures
    BY DEF LiveStep, Open, Admit, ConcludeDispatch, tables
  <2>3. \A n \in Node, d \in Delivery : Dispatch(n, d) => UNCHANGED failures
    BY DEF Dispatch, tables
  <2>4. \A n \in Node : Sweep(n) => UNCHANGED failures
    BY DEF Sweep, BeginSweep, CloseSpent, FindWebhook, CloseUnsubscribed, CountAttempt,
           ConcludeReplay, tables
  <2>5. \A n \in Node : BeginShutdown(n) \/ DrainEnds(n) \/ Reboot(n) => UNCHANGED failures
    BY DEF BeginShutdown, DrainEnds, Reboot, tables
  <2>6. UNCHANGED vars => UNCHANGED failures
    BY DEF vars, tables
  <2>. QED  BY <1>0, <2>1, <2>2, <2>3, <2>4, <2>5, <2>6 DEF Next, Crash, Exit
<1>6. CASE UNCHANGED failures
  <2>1. ReportedOnce'
    BY <1>6 DEF RecordsAlone, ReportedOnce
  <2>2. ASSUME NEW w \in Run, run'[w].at = "insert"
        PROVE  failures'[run'[w].of] = 0
    BY <1>3, <1>6, <2>2 DEF RecordsAlone
  <2>. QED  BY <1>1, <1>2, <2>1, <2>2 DEF RecordsAlone
<1>7. ASSUME NEW v \in Run, InsertFailure(v), failures' = [failures EXCEPT ![run[v].of] = @ + 1],
             failures' # failures
      PROVE  RecordsAlone'
  <2>0. run[v].at = "insert" /\ run'[v].at # "insert" /\ run[v].of \in Delivery
    BY <1>0, <1>4, <1>7
  <2>1. failures[run[v].of] = 0
    BY <2>0 DEF RecordsAlone
  <2>2. ReportedOnce'
    BY <1>0, <1>7, <2>0, <2>1 DEF RecordsAlone, ReportedOnce
  <2>3. ASSUME NEW w \in Run, run'[w].at = "insert"
        PROVE  failures'[run'[w].of] = 0
    <3>1. run'[w] = run[w]
      BY <1>3, <1>7, <2>3
    <3>2. run[w].at = "insert" /\ run[w].of \in Delivery /\ w # v
      BY <1>0, <2>0, <2>3, <3>1
    <3>3. run[w].of # run[v].of
      BY <1>0, <2>0, <3>2, InsertsAlone
    <3>4. failures[run[w].of] = 0
      BY <3>2 DEF RecordsAlone
    <3>. QED  BY <1>0, <1>7, <3>1, <3>2, <3>3, <3>4
  <2>. QED  BY <1>1, <1>2, <2>2, <2>3 DEF RecordsAlone
<1>. QED  BY <1>4, <1>5, <1>6, <1>7

(* "One row per lost delivery" is so where a delivery has one recorder at  *)
(* a time: in direct mode, on one process, with a grace period that        *)
(* outlasts every live dispatch.  It may crash, and its queries may fail.  *)
THEOREM ReportedOnceAlways ==
  ASSUME \A c \in Configs : ~c.queued, GraceCovers, \A m, n \in Node : m = n
  PROVE  Spec => []ReportedOnce
<1>1. Init => RecordsAlone
  BY DEF Init, Fresh, RecordsAlone, ReportedOnce, Run
<1>2. WellFormed /\ Direct /\ RecordsAlone /\ [Next]_vars => RecordsAlone'
  BY RecordsAloneKept
<1>3. RecordsAlone => ReportedOnce
  BY DEF RecordsAlone
<1>. QED  BY <1>1, <1>2, <1>3, WellFormedInvariant, DirectInductive, PTL DEF Spec

==============================================================================
