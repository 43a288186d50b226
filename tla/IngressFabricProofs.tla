------------------------- MODULE IngressFabricProofs -------------------------
(***************************************************************************)
(* Proofs about IngressFabric, for any events, processes and bounds.       *)
(*                                                                         *)
(* That nothing acknowledged is forgotten needs to know what a runner that *)
(* retires a row or a letter relies on: a job it took or found, or a       *)
(* handling.  That nothing is handled twice needs to know, for an event    *)
(* nothing disturbed, who holds it and what is left to happen to it.       *)
(***************************************************************************)
EXTENDS IngressFabric, FiniteSetTheorems, SequenceTheorems, TLAPS

Items(w) == {run[w].work[i] : i \in DOMAIN run[w].work}
At(w) == run[w].at
Result(w) == run[w].result

-----------------------------------------------------------------------------
(* The types: where a runner may be and what it may hold.                  *)

PlacesOf(kind) ==
  CASE kind = "live" -> {"idle", "add", "dispatch", "mark", "letter"}
    [] kind = "sweep" -> {"idle", "resolve", "add", "dispatch", "close", "retire",
                          "charge", "count", "save", "fail"}
    [] OTHER -> {"idle", "add", "dispatch", "retireEvent", "retireLetter"}

(* A live request holds its own event, and only a redrive names a letter.  *)
Placed(w) ==
  /\ At(w) \in PlacesOf(w[1])
  /\ w[1] = "live" => Len(run[w].work) <= 1
  /\ \A it \in Items(w) :
       /\ w[1] = "live" => it.event = w[2]
       /\ it.letter \in IF w[1] = "redrive" THEN 1 .. MaxLetters ELSE {0}
  /\ w[1] = "sweep" =>
       \A i, j \in DOMAIN run[w].work : run[w].work[i].event = run[w].work[j].event => i = j

RunsArePlaced == \A w \in Runner : Placed(w)

(* An event without a row is nowhere else either.                          *)
NewIsUntouched ==
  /\ \A e \in coming : row[e].state = "none"
  /\ \A e \in Event : row[e].state = "none" =>
       /\ row[e].attempts = 0 /\ letters[e] = <<>>
       /\ \A k \in Key : k[1] = e => jobs[k].state = "none"
       /\ \A w \in Runner : e \notin Holds(w)

(* The live request has yet to count its own failure.                      *)
Unmarked(e) == e \in coming \/ At(<<"live", e>>) \in {"add", "dispatch", "mark"}

(* Failed replays are charged below the maximum, closing adds one to what  *)
(* was read, and the live request one more.                                *)
AttemptsBounded ==
  /\ \A e \in Event :
       /\ row[e].state = "pending" \/ Unmarked(e) => row[e].attempts <= MaxAttempts
       /\ row[e].state = "pending" /\ Unmarked(e) => row[e].attempts < MaxAttempts
  /\ \A w \in Runner :
       /\ \A it \in Items(w) :
            /\ it.attempts <= MaxAttempts
            /\ Unmarked(it.event) => it.attempts < MaxAttempts
       /\ At(w) = "charge" => Current(w).attempts + 1 < MaxAttempts

PlaceInv == TypeOK /\ RunsArePlaced /\ NewIsUntouched /\ AttemptsBounded

-----------------------------------------------------------------------------
(* What a runner that is about to retire something relies on.              *)

Succeeded(w) ==
  \/ At(w) \in {"close", "retire", "retireEvent", "retireLetter"}
  \/ At(w) = "mark" /\ Result(w) # "failed"

(* It took a job for the event, or the plugin has it.                      *)
ResultsHold ==
  \A w \in Runner : Succeeded(w) =>
    \/ Result(w) = "queued" /\ jobs[KeyOf(w)].state # "none"
    \/ Result(w) = "dispatched" /\ delivered[Current(w).event] > 0

DoneIsDelivered == \A k \in Key : jobs[k].state = "done" => delivered[k[1]] > 0

(* No dead letter is retired before the row, so the one that the last      *)
(* failed replay finds is still open if the row is still pending.          *)
PendingKeepsLetters ==
  \A e \in Event : Pending(e) => \A i \in DOMAIN letters[e] : letters[e][i] = "open"
RetiredIsClosed ==
  \A w \in Runner : At(w) \in {"retire", "retireLetter"} => ~Pending(Current(w).event)
FailedHasLetter ==
  \A w \in Runner : At(w) = "fail" => letters[Current(w).event] # <<>>

LossInv ==
  PlaceInv /\ ResultsHold /\ DoneIsDelivered /\ PendingKeepsLetters /\ RetiredIsClosed
  /\ FailedHasLetter

-----------------------------------------------------------------------------
(* What is left to happen to an event nothing disturbed.                   *)

Carriers(e) == {k \in Key : k[1] = e /\ jobs[k].state \in {"waiting", "saving"}}

Single(S) == \A x, y \in S : x = y

(* One way at most leads to another handling: a job, or a dead letter.     *)
OneOf(count, carriers, open) ==
  /\ count <= 1
  /\ Single(carriers) /\ Single(open)
  /\ open # {} => carriers = {}
  /\ count > 0 => carriers = {} /\ open = {}
OneWay(e, open) == OneOf(delivered[e], Carriers(e), open)

(* Nothing was ever queued or handled.                                     *)
Fresh(e) ==
  /\ \A k \in Key : k[1] = e => jobs[k].state = "none"
  /\ delivered[e] = 0
  /\ Single(OpenLetters(e))
Blank(e) == Fresh(e) /\ OpenLetters(e) = {}

Held(e) == \E w \in Runner : e \in Holds(w)

(* What the one runner that holds an event can count on.                   *)
LiveCounts(w, e) ==
  IF At(w) = "mark" /\ Result(w) # "failed" THEN OneWay(e, OpenLetters(e)) ELSE Blank(e)
SweepCounts(w, e) ==
  IF Current(w).event # e \/ At(w) \notin {"save", "close", "retire"} THEN Fresh(e)
  ELSE IF At(w) = "save" THEN Blank(e)
  ELSE OneWay(e, {})
RedriveCounts(w, e) ==
  LET l == Current(w).letter IN
  /\ Len(run[w].work) = 1 /\ l \in DOMAIN letters[e]
  /\ IF At(w) \in {"add", "dispatch"}
     THEN l \in OpenLetters(e) /\ OneWay(e, OpenLetters(e)) /\ (Pending(e) => Fresh(e))
     ELSE OneWay(e, OpenLetters(e) \ {l})

Counts(w, e) ==
  /\ w[1] = "live" => LiveCounts(w, e)
  /\ w[1] = "sweep" => SweepCounts(w, e)
  /\ w[1] = "redrive" => RedriveCounts(w, e)

Alone(e) == \A v, w \in Runner : e \in Holds(v) /\ e \in Holds(w) => v = w

(* When nobody holds it, a pending event is one that nothing came of.      *)
Rests(e) ==
  OneWay(e, OpenLetters(e)) /\ (row[e].state \in {"none", "pending"} => Fresh(e))

Sound(e) ==
  /\ Alone(e)
  /\ ~Held(e) => Rests(e)
  /\ \A w \in Runner : e \in Holds(w) => Counts(w, e)

UndisturbedIsSound == \A e \in Event : e \notin disturbed => Sound(e)

OnceInv == LossInv /\ UndisturbedIsSound

-----------------------------------------------------------------------------
(* Runners and what they hold.                                             *)

RunTyped ==
  /\ run \in [Runner -> RunRecord]
  /\ \A w \in Runner : At(w) = "idle" <=> run[w].work = <<>>

Results == {"none", "queued", "dispatched", "failed"}

(* A runner that is at work has a current item. *)
LEMMA WorkTyped ==
  ASSUME RunTyped, NEW w \in Runner
  PROVE  /\ run[w].work \in Seq(Item) /\ Len(run[w].work) \in Nat
         /\ DOMAIN run[w].work = 1 .. Len(run[w].work)
         /\ At(w) \in RunStates /\ Result(w) \in Results
         /\ \A i \in DOMAIN run[w].work : run[w].work[i] \in Item
         /\ Items(w) \subseteq Item
         /\ \A i \in DOMAIN run[w].work : run[w].work[i] \in Items(w)
         /\ Holds(w) = {it.event : it \in Items(w)} /\ Holds(w) \subseteq Event
         /\ At(w) = "idle" => Items(w) = {}
         /\ At(w) # "idle" =>
              /\ Current(w) = run[w].work[1] /\ 1 \in DOMAIN run[w].work
              /\ Current(w) \in Items(w) /\ Current(w).event \in Holds(w)
              /\ Current(w).event \in Event /\ Current(w) \in Item
<1>1. run[w] \in RunRecord
  BY DEF RunTyped
<1>2. /\ run[w].work \in Seq(Item) /\ At(w) \in RunStates /\ Result(w) \in Results
  BY <1>1 DEF RunRecord, At, Result, Results
<1>3. /\ Len(run[w].work) \in Nat /\ DOMAIN run[w].work = 1 .. Len(run[w].work)
      /\ \A i \in DOMAIN run[w].work : run[w].work[i] \in Item
  BY <1>2, LenProperties, ElementOfSeq
<1>4. \A i \in DOMAIN run[w].work : run[w].work[i] \in Items(w)
  BY DEF Items
<1>5. Items(w) \subseteq Item
  BY <1>3 DEF Items
<1>6. Holds(w) = {it.event : it \in Items(w)}
  BY DEF Holds, Items
<1>7. Holds(w) \subseteq Event
  BY <1>5, <1>6 DEF Item
<1>8. At(w) = "idle" => Items(w) = {}
  <2>1. SUFFICES ASSUME At(w) = "idle" PROVE Items(w) = {}
    OBVIOUS
  <2>2. Len(run[w].work) = 0
    BY <2>1, EmptySeq DEF RunTyped
  <2> QED
    BY <2>2, <1>3 DEF Items
<1>9. ASSUME At(w) # "idle"
      PROVE  /\ Current(w) = run[w].work[1] /\ 1 \in DOMAIN run[w].work
             /\ Current(w) \in Items(w) /\ Current(w).event \in Holds(w)
             /\ Current(w).event \in Event /\ Current(w) \in Item
  <2>1. run[w].work # <<>>
    BY <1>9 DEF RunTyped
  <2>2. Len(run[w].work) > 0
    BY <1>2, <2>1, EmptySeq
  <2>3. Current(w) = run[w].work[1] /\ 1 \in DOMAIN run[w].work
    BY <1>2, <1>3, <2>1, <2>2 DEF Current
  <2>4. Current(w) \in Items(w) /\ Current(w) \in Item
    BY <1>3, <1>4, <2>3
  <2>5. Current(w).event \in Holds(w)
    BY <1>6, <2>4
  <2> QED
    BY <1>7, <2>3, <2>4, <2>5
<1> QED
  BY <1>2, <1>3, <1>4, <1>5, <1>6, <1>7, <1>8, <1>9

(* What it means for one runner to go on with its item, ... *)
Turns(w, at, result) ==
  /\ RunTyped'
  /\ \A v \in Runner : v # w => run'[v] = run[v]
  /\ run'[w].at = at /\ run'[w].result = result /\ run'[w].work = run[w].work

LEMMA TurnsFrom ==
  ASSUME RunTyped, NEW w \in Runner, At(w) # "idle",
         NEW at \in RunStates \ {"idle"}, NEW result \in Results,
         run' = [run EXCEPT ![w] = [@ EXCEPT !.at = at, !.result = result]]
  PROVE  Turns(w, at, result)
<1> DEFINE r == [run[w] EXCEPT !.at = at, !.result = result]
<1>1. run[w] \in RunRecord
  BY DEF RunTyped
<1>2. /\ r \in RunRecord /\ r.at = at /\ r.result = result /\ r.work = run[w].work
  BY <1>1 DEF RunRecord, Results
<1>3. run' = [run EXCEPT ![w] = r]
  OBVIOUS
<1> HIDE DEF r
<1>4. /\ run' \in [Runner -> RunRecord] /\ run'[w] = r
      /\ \A v \in Runner : v # w => run'[v] = run[v]
  BY <1>2, <1>3 DEF RunTyped
<1>5. run[w].work # <<>>
  BY DEF RunTyped
<1> QED
  BY <1>2, <1>4, <1>5 DEF Turns, RunTyped, At

LEMMA MoveTurns ==
  ASSUME RunTyped, NEW w \in Runner, At(w) # "idle",
         NEW at \in RunStates \ {"idle"}, MoveTo(w, at)
  PROVE  Turns(w, at, Result(w))
<1>1. run[w] \in RunRecord /\ Result(w) \in Results
  BY WorkTyped DEF RunTyped
<1>2. [run[w] EXCEPT !.at = at] = [run[w] EXCEPT !.at = at, !.result = Result(w)]
  BY <1>1 DEF RunRecord, Result
<1>3. run' = [run EXCEPT ![w] = [@ EXCEPT !.at = at, !.result = Result(w)]]
  BY <1>1, <1>2 DEF MoveTo, RunTyped
<1> QED
  BY <1>1, <1>3, TurnsFrom

(* ... and to go on to the next one. *)
Passes(w) == run' = [run EXCEPT ![w] = Advanced(w)]

(* What a runner holds after that it held before, and an item it is done   *)
(* with it does not hold unless it has it twice.                           *)
LEMMA PassFacts ==
  ASSUME RunTyped, NEW w \in Runner, At(w) # "idle", Passes(w)
  PROVE  /\ RunTyped'
         /\ \A v \in Runner : v # w => run'[v] = run[v]
         /\ Items(w)' \subseteq Items(w) /\ Holds(w)' \subseteq Holds(w)
         /\ At(w)' \in {"idle", StartAt(w)} /\ Result(w)' = "none"
         /\ Len(run[w].work) = 1 => At(w)' = "idle"
         /\ Len(run[w].work)' <= Len(run[w].work)
         /\ \A i \in DOMAIN run'[w].work :
              i + 1 \in DOMAIN run[w].work /\ run'[w].work[i] = run[w].work[i + 1]
         /\ Holds(w) \subseteq Holds(w)' \cup {Current(w).event}
<1> DEFINE s == run[w].work
           r == Advanced(w)
<1>1. /\ s \in Seq(Item) /\ s # <<>> /\ Len(s) \in Nat \ {0} /\ DOMAIN s = 1 .. Len(s)
      /\ run[w] \in RunRecord /\ Current(w) = s[1]
  <2>1. s # <<>> /\ run[w] \in RunRecord
    BY DEF RunTyped
  <2>2. s \in Seq(Item) /\ DOMAIN s = 1 .. Len(s) /\ Current(w) = s[1]
    BY WorkTyped
  <2> QED
    BY <2>1, <2>2, EmptySeq
<1>2. /\ Tail(s) \in Seq(Item) /\ Len(Tail(s)) = Len(s) - 1
      /\ \A i \in 1 .. Len(Tail(s)) : Tail(s)[i] = s[i + 1]
      /\ DOMAIN Tail(s) = 1 .. Len(Tail(s))
  BY <1>1, HeadTailProperties, LenProperties
<1>3. StartAt(w) \in RunStates \ {"idle"}
  BY DEF StartAt, RunStates
<1>4. /\ r \in RunRecord /\ r.result = "none"
      /\ r.at = "idle" <=> r.work = <<>>
      /\ r.at \in {"idle", StartAt(w)}
      /\ Len(s) = 1 => r.at = "idle"
      /\ r.work \in Seq(Item) /\ DOMAIN r.work = 1 .. Len(r.work) /\ Len(r.work) = Len(s) - 1
      /\ \A i \in DOMAIN r.work : i + 1 \in DOMAIN s /\ r.work[i] = s[i + 1]
  <2>1. CASE Len(s) = 1
    <3>1. r = Idle
      BY <2>1 DEF Advanced
    <3>2. /\ Idle \in RunRecord /\ Idle.result = "none" /\ Idle.at = "idle" /\ Idle.work = <<>>
      BY EmptySeq DEF Idle, RunRecord, RunStates
    <3>3. <<>> \in Seq(Item) /\ Len(<<>>) = 0 /\ DOMAIN <<>> = {}
      BY EmptySeq
    <3>4. r.work = <<>> /\ DOMAIN r.work = {} /\ 1 .. 0 = {} /\ Len(r.work) = 0
      BY <3>1, <3>2, <3>3
    <3> HIDE DEF r, s
    <3> QED
      BY <2>1, <3>1, <3>2, <3>3, <3>4
  <2>2. CASE Len(s) # 1
    <3>1. r = [run[w] EXCEPT !.at = StartAt(w), !.result = "none", !.work = Tail(s)]
      BY <2>2 DEF Advanced
    <3>2. r \in RunRecord /\ r.result = "none" /\ r.at = StartAt(w) /\ r.work = Tail(s)
      BY <1>1, <1>2, <1>3, <3>1 DEF RunRecord
    <3>3. Tail(s) # <<>>
      <4>1. Len(Tail(s)) # 0
        BY <1>1, <1>2, <2>2
      <4> QED
        BY <4>1, EmptySeq
    <3>4. \A i \in 1 .. Len(Tail(s)) : i + 1 \in 1 .. Len(s)
      BY <1>1, <1>2
    <3> HIDE DEF r, s
    <3> QED
      BY <1>1, <1>2, <1>3, <2>2, <3>2, <3>3, <3>4
  <2> QED
    BY <2>1, <2>2
<1>5. run' = [run EXCEPT ![w] = r]
  BY DEF Passes
<1> HIDE DEF r
<1>6. /\ run' \in [Runner -> RunRecord] /\ run'[w] = r
      /\ \A v \in Runner : v # w => run'[v] = run[v]
  BY <1>4, <1>5 DEF RunTyped
<1>7. RunTyped'
  BY <1>4, <1>6 DEF RunTyped, At
<1>8. Items(w)' \subseteq Items(w)
  BY <1>4, <1>6 DEF Items
<1>9. Holds(w)' \subseteq Holds(w)
  BY SMTT(30), <1>4, <1>6 DEF Holds
<1>10. Holds(w) \subseteq Holds(w)' \cup {Current(w).event}
  <2>1. SUFFICES ASSUME NEW i \in DOMAIN s, i # 1 PROVE s[i].event \in Holds(w)'
    BY <1>1 DEF Holds
  <2>2. i - 1 \in DOMAIN r.work /\ (i - 1) + 1 = i
    BY <1>1, <1>4, <2>1
  <2>3. r.work[i - 1] = s[i]
    BY <1>4, <2>2
  <2> QED
    BY <1>6, <2>2, <2>3 DEF Holds
<1>11. Len(r.work) <= Len(s)
  BY <1>1, <1>4
<1> QED
  BY <1>4, <1>6, <1>7, <1>8, <1>9, <1>10, <1>11 DEF At, Result

LEMMA RunnerKinds ==
  ASSUME NEW w \in Runner
  PROVE  w[1] \in {"live", "sweep", "redrive"} /\ (w[1] = "live" => w[2] \in Event)
  BY DEF Runner

(* What enqueue() came to decides where its runner goes. *)
Leads(w, result) ==
  \/ w[1] = "live" /\ Turns(w, "mark", result)
  \/ w[1] = "sweep" /\ result # "failed" /\ Turns(w, "close", result)
  \/ /\ w[1] = "sweep" /\ result = "failed"
     /\ IF Current(w).attempts + 1 >= MaxAttempts
        THEN Turns(w, "count", Result(w)) ELSE Turns(w, "charge", Result(w))
  \/ w[1] = "redrive" /\ result # "failed" /\ Turns(w, "retireEvent", result)
  \/ w[1] = "redrive" /\ result = "failed" /\ Passes(w)

LEMMA Concludes ==
  ASSUME RunTyped, NEW w \in Runner, At(w) # "idle",
         NEW result \in {"queued", "dispatched", "failed"},
         run' = [run EXCEPT ![w] = Concluded(w, result)]
  PROVE  Leads(w, result)
<1> USE DEF Leads
<1>1. /\ {"mark", "close", "count", "charge", "retireEvent"} \subseteq RunStates \ {"idle"}
      /\ result \in Results
  BY DEF RunStates, Results
<1>2. w[1] \in {"live", "sweep", "redrive"}
  BY RunnerKinds
<1>3. CASE w[1] = "live"
  <2>1. run' = [run EXCEPT ![w] = [@ EXCEPT !.at = "mark", !.result = result]]
    BY <1>3 DEF Concluded, RunTyped
  <2> QED
    BY <1>1, <1>3, <2>1, TurnsFrom
<1>4. CASE w[1] = "sweep" /\ result # "failed"
  <2>1. run' = [run EXCEPT ![w] = [@ EXCEPT !.at = "close", !.result = result]]
    BY <1>4 DEF Concluded, RunTyped
  <2> QED
    BY <1>1, <1>4, <2>1, TurnsFrom
<1>5. CASE w[1] = "sweep" /\ result = "failed"
  <2> DEFINE at == IF Current(w).attempts + 1 >= MaxAttempts THEN "count" ELSE "charge"
  <2>1. Concluded(w, result) = [run[w] EXCEPT !.at = at]
    BY <1>5 DEF Concluded
  <2>2. MoveTo(w, at)
    BY <2>1 DEF MoveTo, RunTyped
  <2>3. at \in RunStates \ {"idle"}
    BY <1>1
  <2>4. Turns(w, at, Result(w))
    BY <2>2, <2>3, MoveTurns
  <2> QED
    BY <1>5, <2>4
<1>6. CASE w[1] = "redrive" /\ result # "failed"
  <2>1. run' = [run EXCEPT ![w] = [@ EXCEPT !.at = "retireEvent", !.result = result]]
    BY <1>6 DEF Concluded, RunTyped
  <2> QED
    BY <1>1, <1>6, <2>1, TurnsFrom
<1>7. CASE w[1] = "redrive" /\ result = "failed"
  <2>1. Concluded(w, result) = Advanced(w)
    BY <1>7 DEF Concluded
  <2> QED
    BY <1>7, <2>1 DEF Passes
<1> QED
  BY <1>2, <1>3, <1>4, <1>5, <1>6, <1>7

(* A runner starts on a list. *)
Begins(w, items) ==
  /\ RunTyped'
  /\ \A v \in Runner : v # w => run'[v] = run[v]
  /\ run'[w].at = StartAt(w) /\ run'[w].result = "none" /\ run'[w].work = items

LEMMA BeginBegins ==
  ASSUME RunTyped, NEW w \in Runner, NEW n \in Node,
         NEW items \in Seq(Item), items # <<>>, Begin(w, n, items)
  PROVE  Begins(w, items)
<1> DEFINE r == [at |-> StartAt(w), node |-> n, result |-> "none", work |-> items]
<1>1. r \in RunRecord /\ r.at = StartAt(w) /\ r.at # "idle" /\ r.result = "none" /\ r.work = items
  BY DEF RunRecord, StartAt, RunStates
<1>2. run' = [run EXCEPT ![w] = r]
  BY DEF Begin
<1> HIDE DEF r
<1>3. /\ run' \in [Runner -> RunRecord] /\ run'[w] = r
      /\ \A v \in Runner : v # w => run'[v] = run[v]
  BY <1>1, <1>2 DEF RunTyped
<1> QED
  BY <1>1, <1>3 DEF Begins, RunTyped, At

(* Some runners stop where they are. *)
Halts == run' \in [Runner -> RunRecord] /\ \A w \in Runner : run'[w] \in {Idle, run[w]}

LEMMA IdleTyped == Idle \in RunRecord /\ Idle.at = "idle" /\ Idle.work = <<>> /\ Idle.result = "none"
  BY EmptySeq DEF Idle, RunRecord, RunStates

LEMMA HaltTyped == ASSUME RunTyped, Halts PROVE RunTyped'
  BY IdleTyped DEF RunTyped, Halts, At

LEMMA IdleHolds ==
  ASSUME NEW w \in Runner, run'[w] = Idle
  PROVE  Items(w)' = {} /\ Holds(w)' = {} /\ At(w)' = "idle" /\ DOMAIN run'[w].work = {}
         /\ Len(run'[w].work) = 0
<1>1. DOMAIN run'[w].work = {} /\ Len(run'[w].work) = 0
  BY IdleTyped, EmptySeq
<1> QED
  BY <1>1, IdleTyped DEF Items, Holds, At

(* What does not move keeps what it has. *)
LEMMA KeepsFacts ==
  ASSUME NEW w \in Runner, run'[w] = run[w]
  PROVE  /\ At(w)' = At(w) /\ Result(w)' = Result(w) /\ Items(w)' = Items(w)
         /\ Holds(w)' = Holds(w) /\ Current(w)' = Current(w) /\ KeyOf(w)' = KeyOf(w)
  BY DEF At, Result, Items, Holds, Current, KeyOf

LEMMA TurnsFacts ==
  ASSUME NEW w \in Runner, NEW at, NEW result, Turns(w, at, result)
  PROVE  /\ At(w)' = at /\ Result(w)' = result /\ Items(w)' = Items(w)
         /\ Holds(w)' = Holds(w) /\ Current(w)' = Current(w) /\ KeyOf(w)' = KeyOf(w)
  BY DEF Turns, At, Result, Items, Holds, Current, KeyOf

-----------------------------------------------------------------------------
(* The lists runners begin with.                                           *)

(* The oldest of what is pending, as it is read. *)
SweepItems(q) ==
  [i \in DOMAIN q |-> [event |-> q[i], attempts |-> row[q[i]].attempts, letter |-> 0]]

(* The open letters. *)
RedriveItems(e, q) ==
  [i \in DOMAIN q |-> [event |-> e, attempts |-> 0, letter |-> q[i]]]

LEMMA ListIsSeq ==
  ASSUME NEW S, NEW n \in Nat, NEW q \in [1 .. n -> S]
  PROVE  q \in Seq(S) /\ Len(q) = n /\ DOMAIN q = 1 .. n
<1>1. q \in Seq(S)
  BY SeqDef
<1> QED
  BY <1>1, LenProperties

LEMMA LettersTyped ==
  ASSUME TypeOK, NEW e \in Event
  PROVE  /\ letters[e] \in Seq({"open", "retired"}) /\ Len(letters[e]) \in Nat
         /\ DOMAIN letters[e] = 1 .. Len(letters[e])
         /\ IsFiniteSet(OpenLetters(e)) /\ OpenLetters(e) \subseteq 1 .. Len(letters[e])
<1>1. /\ letters[e] \in Seq({"open", "retired"}) /\ Len(letters[e]) \in Nat
      /\ DOMAIN letters[e] = 1 .. Len(letters[e])
  BY LenProperties DEF TypeOK
<1>2. IsFiniteSet(1 .. Len(letters[e]))
  BY <1>1, FS_Interval
<1>3. OpenLetters(e) \subseteq 1 .. Len(letters[e])
  BY <1>1 DEF OpenLetters
<1> QED
  BY <1>1, <1>2, <1>3, FS_Subset

LEMMA SweepReads ==
  ASSUME TypeOK, Backlog # {}, NEW q \in Stale
  PROVE  /\ SweepItems(q) \in Seq(Item) /\ SweepItems(q) # <<>>
         /\ DOMAIN SweepItems(q) = DOMAIN q
         /\ \A i \in DOMAIN q :
              /\ q[i] \in Backlog /\ SweepItems(q)[i].event = q[i]
              /\ SweepItems(q)[i].attempts = row[q[i]].attempts
              /\ SweepItems(q)[i].letter = 0
         /\ \A i, j \in DOMAIN q : q[i] = q[j] => i = j
<1> DEFINE n == Min2(Batch, Cardinality(Backlog))
<1>1. n \in Nat \ {0}
  <2>1. IsFiniteSet(Backlog)
    BY FS_Subset, ConstantsAssumption DEF Backlog
  <2>2. Cardinality(Backlog) \in Nat /\ Cardinality(Backlog) # 0
    BY <2>1, FS_CardinalityType, FS_EmptySet
  <2> QED
    BY <2>2, ConstantsAssumption DEF Min2
<1>2. q \in [1 .. n -> Backlog] /\ \A i, j \in 1 .. n : q[i] = q[j] => i = j
  BY DEF Stale, Lists
<1> HIDE DEF n
<1>3. DOMAIN q = 1 .. n
  BY <1>2
<1>4. \A i \in 1 .. n : q[i] \in Event /\ row[q[i]].attempts \in Nat
  <2>1. \A e \in Event : row[e].attempts \in Nat
    BY ConstantsAssumption DEF TypeOK
  <2> QED
    BY <1>2, <2>1 DEF Backlog
<1>5. SweepItems(q) \in [1 .. n -> Item]
  BY <1>3, <1>4 DEF SweepItems, Item
<1>6. SweepItems(q) \in Seq(Item) /\ Len(SweepItems(q)) = n
  BY <1>1, <1>5, ListIsSeq
<1>7. SweepItems(q) # <<>>
  BY <1>1, <1>6, EmptySeq
<1> QED
  BY <1>2, <1>3, <1>6, <1>7 DEF SweepItems

LEMMA RedriveReads ==
  ASSUME TypeOK, NEW e \in Event, OpenLetters(e) # {},
         NEW q \in Lists(OpenLetters(e), Cardinality(OpenLetters(e)))
  PROVE  /\ RedriveItems(e, q) \in Seq(Item) /\ RedriveItems(e, q) # <<>>
         /\ DOMAIN RedriveItems(e, q) = DOMAIN q
         /\ Len(RedriveItems(e, q)) = Cardinality(OpenLetters(e))
         /\ \A i \in DOMAIN q :
              /\ q[i] \in OpenLetters(e)
              /\ RedriveItems(e, q)[i].event = e /\ RedriveItems(e, q)[i].attempts = 0
              /\ RedriveItems(e, q)[i].letter = q[i]
<1> DEFINE n == Cardinality(OpenLetters(e))
<1>1. n \in Nat \ {0}
  BY LettersTyped, FS_CardinalityType, FS_EmptySet
<1>2. q \in [1 .. n -> OpenLetters(e)] /\ DOMAIN q = 1 .. n
  BY DEF Lists
<1> HIDE DEF n
<1>3. OpenLetters(e) \subseteq Nat
  BY LettersTyped
<1>4. RedriveItems(e, q) \in [1 .. n -> Item]
  BY <1>2, <1>3 DEF RedriveItems, Item
<1>5. RedriveItems(e, q) \in Seq(Item) /\ Len(RedriveItems(e, q)) = n
  BY <1>1, <1>4, ListIsSeq
<1>6. RedriveItems(e, q) # <<>>
  BY <1>1, <1>5, EmptySeq
<1>7. Len(RedriveItems(e, q)) = Cardinality(OpenLetters(e))
  BY <1>5 DEF n
<1> QED
  BY <1>2, <1>5, <1>6, <1>7 DEF RedriveItems

-----------------------------------------------------------------------------
(* The actions, one by one: what each makes of its runner.                 *)

LEMMA LiveSteps ==
  ASSUME RunTyped, NEW w \in Runner
  PROVE  /\ Mark(w) => At(w) = "mark" /\ IF Result(w) = "failed" THEN Turns(w, "letter", "failed") ELSE Passes(w)
         /\ WriteLetter(w) => At(w) = "letter" /\ Passes(w)
<1>1. "letter" \in RunStates \ {"idle"}
  BY DEF RunStates
<1>2. ASSUME Mark(w)
      PROVE  At(w) = "mark" /\ IF Result(w) = "failed" THEN Turns(w, "letter", "failed") ELSE Passes(w)
  <2>1. At(w) = "mark" /\ (Result(w) = "failed" => MoveTo(w, "letter")) /\ (Result(w) # "failed" => Move(w))
    BY <1>2 DEF Mark, At, Result
  <2>2. ASSUME Result(w) = "failed" PROVE Turns(w, "letter", "failed")
    BY <1>1, <2>1, <2>2, MoveTurns
  <2> QED
    BY <2>1, <2>2 DEF Move, Passes
<1>3. ASSUME WriteLetter(w) PROVE At(w) = "letter" /\ Passes(w)
  BY <1>3 DEF WriteLetter, Move, Passes, At
<1> QED
  BY <1>2, <1>3

LEMMA EnqueueSteps ==
  ASSUME RunTyped, NEW w \in Runner
  PROVE  /\ Add(w) =>
              /\ At(w) = "add"
              /\ \/ Leads(w, "queued") /\ jobs' = Added(KeyOf(w)) /\ UNCHANGED disturbed
                 \/ Turns(w, "dispatch", Result(w)) /\ UNCHANGED <<jobs, disturbed>>
                 \/ Turns(w, "dispatch", Result(w)) /\ jobs' = Added(KeyOf(w)) /\ Disturb({Current(w).event})
         /\ DispatchInline(w) =>
              /\ At(w) = "dispatch"
              /\ \/ Leads(w, "dispatched") /\ Handled(Current(w).event) /\ UNCHANGED disturbed
                 \/ Leads(w, "failed") /\ UNCHANGED history
                 \/ Leads(w, "failed") /\ Handled(Current(w).event) /\ Disturb({Current(w).event})
<1>1. "dispatch" \in RunStates \ {"idle"}
  BY DEF RunStates
<1>2. ASSUME Add(w)
      PROVE  /\ At(w) = "add"
             /\ \/ Leads(w, "queued") /\ jobs' = Added(KeyOf(w)) /\ UNCHANGED disturbed
                \/ Turns(w, "dispatch", Result(w)) /\ UNCHANGED <<jobs, disturbed>>
                \/ Turns(w, "dispatch", Result(w)) /\ jobs' = Added(KeyOf(w)) /\ Disturb({Current(w).event})
  <2>1. /\ At(w) = "add"
        /\ \/ run' = [run EXCEPT ![w] = Concluded(w, "queued")] /\ jobs' = Added(KeyOf(w)) /\ UNCHANGED disturbed
           \/ MoveTo(w, "dispatch") /\ UNCHANGED <<jobs, disturbed>>
           \/ MoveTo(w, "dispatch") /\ jobs' = Added(KeyOf(w)) /\ Disturb({Current(w).event})
    BY <1>2 DEF Add, At
  <2>2. run' = [run EXCEPT ![w] = Concluded(w, "queued")] => Leads(w, "queued")
    BY <2>1, Concludes
  <2>3. MoveTo(w, "dispatch") => Turns(w, "dispatch", Result(w))
    BY <1>1, <2>1, MoveTurns
  <2> QED
    BY <2>1, <2>2, <2>3
<1>3. ASSUME DispatchInline(w)
      PROVE  /\ At(w) = "dispatch"
             /\ \/ Leads(w, "dispatched") /\ Handled(Current(w).event) /\ UNCHANGED disturbed
                \/ Leads(w, "failed") /\ UNCHANGED history
                \/ Leads(w, "failed") /\ Handled(Current(w).event) /\ Disturb({Current(w).event})
  <2>1. /\ At(w) = "dispatch"
        /\ \/ run' = [run EXCEPT ![w] = Concluded(w, "dispatched")] /\ Handled(Current(w).event) /\ UNCHANGED disturbed
           \/ run' = [run EXCEPT ![w] = Concluded(w, "failed")] /\ UNCHANGED history
           \/ run' = [run EXCEPT ![w] = Concluded(w, "failed")] /\ Handled(Current(w).event) /\ Disturb({Current(w).event})
    BY <1>3 DEF DispatchInline, Dispatched, At
  <2>2. \A r \in {"dispatched", "failed"} : run' = [run EXCEPT ![w] = Concluded(w, r)] => Leads(w, r)
    BY <2>1, Concludes
  <2> QED
    BY <2>1, <2>2
<1> QED
  BY <1>2, <1>3

LEMMA SweepSteps ==
  ASSUME RunTyped, NEW w \in Runner
  PROVE  /\ ResolveInstance(w) => At(w) = "resolve" /\ (Turns(w, "add", Result(w)) \/ Passes(w))
         /\ CloseReplayed(w) => At(w) = "close" /\ Turns(w, "retire", Result(w))
         /\ RetireLetters(w) => At(w) = "retire" /\ Passes(w)
         /\ Charge(w) => At(w) = "charge" /\ Passes(w)
         /\ CountLetters(w) =>
              /\ At(w) = "count"
              /\ IF letters[Current(w).event] = <<>>
                 THEN Turns(w, "save", Result(w)) ELSE Turns(w, "fail", Result(w))
         /\ SaveLetter(w) => At(w) = "save" /\ Turns(w, "fail", Result(w))
         /\ CloseFailed(w) => At(w) = "fail" /\ Passes(w)
<1>1. {"add", "retire", "save", "fail"} \subseteq RunStates \ {"idle"}
  BY DEF RunStates
<1>2. ResolveInstance(w) => At(w) = "resolve" /\ (Turns(w, "add", Result(w)) \/ Passes(w))
  BY <1>1, MoveTurns DEF ResolveInstance, Move, Passes, At
<1>3. CloseReplayed(w) => At(w) = "close" /\ Turns(w, "retire", Result(w))
  BY <1>1, MoveTurns DEF CloseReplayed, At
<1>4. RetireLetters(w) => At(w) = "retire" /\ Passes(w)
  BY DEF RetireLetters, Move, Passes, At
<1>5. Charge(w) => At(w) = "charge" /\ Passes(w)
  BY DEF Charge, Move, Passes, At
<1>6. CountLetters(w) =>
        /\ At(w) = "count"
        /\ IF letters[Current(w).event] = <<>>
           THEN Turns(w, "save", Result(w)) ELSE Turns(w, "fail", Result(w))
  BY <1>1, MoveTurns DEF CountLetters, At
<1>7. SaveLetter(w) => At(w) = "save" /\ Turns(w, "fail", Result(w))
  BY <1>1, MoveTurns DEF SaveLetter, At
<1>8. CloseFailed(w) => At(w) = "fail" /\ Passes(w)
  BY DEF CloseFailed, Move, Passes, At
<1> QED
  BY <1>2, <1>3, <1>4, <1>5, <1>6, <1>7, <1>8

LEMMA RedriveSteps ==
  ASSUME RunTyped, NEW w \in Runner
  PROVE  /\ RetireEvent(w) => At(w) = "retireEvent" /\ Turns(w, "retireLetter", Result(w))
         /\ RetireLetter(w) => At(w) = "retireLetter" /\ Passes(w)
<1>1. "retireLetter" \in RunStates \ {"idle"}
  BY DEF RunStates
<1>2. RetireEvent(w) => At(w) = "retireEvent" /\ Turns(w, "retireLetter", Result(w))
  BY <1>1, MoveTurns DEF RetireEvent, At
<1>3. RetireLetter(w) => At(w) = "retireLetter" /\ Passes(w)
  BY DEF RetireLetter, Move, Passes, At
<1> QED
  BY <1>2, <1>3

(* The first item of a list is due. *)
NewItem(e) == [event |-> e, attempts |-> 0, letter |-> 0]

LEMMA BeginSteps ==
  ASSUME TypeOK, NEW n \in Node, NEW e \in Event
  PROVE  /\ Receive(e, n) => Begins(<<"live", e>>, <<NewItem(e)>>) \/ (UNCHANGED run /\ Disturb({e}))
         /\ BeginSweep(n) =>
              /\ At(<<"sweep", n>>) = "idle" /\ Backlog # {}
              /\ \E q \in Stale : Begins(<<"sweep", n>>, SweepItems(q))
         /\ BeginRedrive(n, e) =>
              /\ At(<<"redrive", n>>) = "idle" /\ Len(letters[e]) <= MaxLetters /\ OpenLetters(e) # {}
              /\ \E q \in Lists(OpenLetters(e), Cardinality(OpenLetters(e))) :
                   Begins(<<"redrive", n>>, RedriveItems(e, q))
<1>1. RunTyped
  BY DEF TypeOK, RunTyped, At
<1>2. {<<"live", e>>, <<"sweep", n>>, <<"redrive", n>>} \subseteq Runner
  BY DEF Runner
<1>3. Receive(e, n) => Begins(<<"live", e>>, <<NewItem(e)>>) \/ (UNCHANGED run /\ Disturb({e}))
  <2>1. <<NewItem(e)>> \in Seq(Item) /\ <<NewItem(e)>> # <<>>
    BY DEF NewItem, Item
  <2>2. Receive(e, n) => Begin(<<"live", e>>, n, <<NewItem(e)>>) \/ (UNCHANGED run /\ Disturb({e}))
    BY DEF Receive, NewItem
  <2> QED
    BY <1>1, <1>2, <2>1, <2>2, BeginBegins
<1>4. ASSUME BeginSweep(n)
      PROVE  /\ At(<<"sweep", n>>) = "idle" /\ Backlog # {}
             /\ \E q \in Stale : Begins(<<"sweep", n>>, SweepItems(q))
  <2>1. /\ At(<<"sweep", n>>) = "idle" /\ Backlog # {}
        /\ \E q \in Stale : Begin(<<"sweep", n>>, n, SweepItems(q))
    BY <1>4 DEF BeginSweep, At, SweepItems
  <2> QED
    BY <1>1, <1>2, <2>1, SweepReads, BeginBegins
<1>5. ASSUME BeginRedrive(n, e)
      PROVE  /\ At(<<"redrive", n>>) = "idle" /\ Len(letters[e]) <= MaxLetters /\ OpenLetters(e) # {}
             /\ \E q \in Lists(OpenLetters(e), Cardinality(OpenLetters(e))) :
                  Begins(<<"redrive", n>>, RedriveItems(e, q))
  <2>1. /\ At(<<"redrive", n>>) = "idle" /\ Len(letters[e]) <= MaxLetters /\ OpenLetters(e) # {}
        /\ \E q \in Lists(OpenLetters(e), Cardinality(OpenLetters(e))) :
             Begin(<<"redrive", n>>, n, RedriveItems(e, q))
    BY <1>5 DEF BeginRedrive, At, RedriveItems
  <2> QED
    BY <1>1, <1>2, <2>1, RedriveReads, BeginBegins
<1> QED
  BY <1>3, <1>4, <1>5

LEMMA FaultSteps ==
  ASSUME RunTyped, NEW w \in Runner, NEW n \in Node
  PROVE  /\ FailQuery(w) =>
              /\ At(w) # "idle"
              /\ \/ Passes(w)
                 \/ w[1] = "live" /\ At(w) = "mark" /\ Result(w) = "failed" /\ Turns(w, "letter", "failed")
                 \/ w[1] # "sweep" /\ Halts /\ run' = [run EXCEPT ![w] = Idle]
         /\ Crash(n) =>
              Halts /\ \A v \in Runner : run'[v] = run[v] \/ (run'[v] = Idle /\ run[v].node = n)
<1>1. ASSUME FailQuery(w)
      PROVE  /\ At(w) # "idle"
             /\ \/ Passes(w)
                \/ w[1] = "live" /\ At(w) = "mark" /\ Result(w) = "failed" /\ Turns(w, "letter", "failed")
                \/ w[1] # "sweep" /\ Halts /\ run' = [run EXCEPT ![w] = Idle]
  <2>1. At(w) # "idle"
    BY <1>1 DEF FailQuery, At
  <2>2. \/ Move(w)
        \/ w[1] = "live" /\ At(w) = "mark" /\ Result(w) = "failed" /\ MoveTo(w, "letter")
        \/ w[1] # "sweep" /\ run' = [run EXCEPT ![w] = Idle]
    <3>1. CASE w[1] = "sweep"
      BY <1>1, <3>1 DEF FailQuery
    <3>2. CASE w[1] = "live" /\ At(w) = "mark" /\ Result(w) = "failed"
      BY <1>1, <3>2 DEF FailQuery, At, Result
    <3>3. CASE w[1] # "sweep" /\ ~(w[1] = "live" /\ At(w) = "mark" /\ Result(w) = "failed")
      BY <1>1, <3>3 DEF FailQuery, At, Result
    <3> QED
      BY <3>1, <3>2, <3>3
  <2>3. "letter" \in RunStates \ {"idle"}
    BY DEF RunStates
  <2>4. run' = [run EXCEPT ![w] = Idle] => Halts
    BY IdleTyped DEF Halts, RunTyped
  <2> QED
    BY <2>1, <2>2, <2>3, <2>4, MoveTurns DEF Move, Passes
<1>2. ASSUME Crash(n)
      PROVE  Halts /\ \A v \in Runner : run'[v] = run[v] \/ (run'[v] = Idle /\ run[v].node = n)
  <2> DEFINE running == {v \in Runner : run[v].node = n}
  <2>1. run' = [v \in Runner |-> IF v \in running THEN Idle ELSE run[v]]
    BY <1>2 DEF Crash
  <2> QED
    BY <2>1, IdleTyped DEF Halts, RunTyped
<1> QED
  BY <1>1, <1>2

-----------------------------------------------------------------------------
(* Where runners may be.                                                   *)

LEMMA PlacedKeeps ==
  ASSUME NEW w \in Runner, Placed(w), run'[w] = run[w]
  PROVE  Placed(w)'
  BY KeepsFacts DEF Placed

LEMMA PlacedTurns ==
  ASSUME RunsArePlaced, NEW w \in Runner, NEW at \in PlacesOf(w[1]), NEW result, Turns(w, at, result)
  PROVE  RunsArePlaced'
<1>1. Placed(w)'
  <2>1. At(w)' = at /\ Items(w)' = Items(w) /\ run'[w].work = run[w].work
    BY TurnsFacts DEF Turns
  <2> QED
    BY <2>1 DEF RunsArePlaced, Placed
<1>2. ASSUME NEW v \in Runner, v # w PROVE Placed(v)'
  BY <1>2, PlacedKeeps DEF Turns, RunsArePlaced
<1> QED
  BY <1>1, <1>2 DEF RunsArePlaced

LEMMA PlacedPasses ==
  ASSUME RunTyped, RunsArePlaced, NEW w \in Runner, At(w) # "idle", Passes(w)
  PROVE  RunsArePlaced'
<1>1. Placed(w)
  BY DEF RunsArePlaced
<1>2. At(w)' \in PlacesOf(w[1])
  BY PassFacts, RunnerKinds DEF PlacesOf, StartAt
<1>3. w[1] = "live" => Len(run'[w].work) <= 1
  <2>1. Len(run'[w].work) <= Len(run[w].work) /\ RunTyped'
    BY PassFacts
  <2>2. Len(run'[w].work) \in Nat /\ Len(run[w].work) \in Nat
    <3>1. run'[w] \in RunRecord
      BY <2>1 DEF RunTyped
    <3>2. run'[w].work \in Seq(Item)
      BY <3>1 DEF RunRecord
    <3> QED
      BY <3>2, WorkTyped, LenProperties
  <2> QED
    BY <1>1, <2>1, <2>2 DEF Placed
<1>4. \A it \in Items(w)' :
        /\ w[1] = "live" => it.event = w[2]
        /\ it.letter \in IF w[1] = "redrive" THEN 1 .. MaxLetters ELSE {0}
  BY <1>1, PassFacts DEF Placed
<1>5. ASSUME w[1] = "sweep", NEW i \in DOMAIN run'[w].work, NEW j \in DOMAIN run'[w].work,
             run'[w].work[i].event = run'[w].work[j].event
      PROVE  i = j
  <2>1. /\ i + 1 \in DOMAIN run[w].work /\ j + 1 \in DOMAIN run[w].work
        /\ run[w].work[i + 1].event = run[w].work[j + 1].event
    BY <1>5, PassFacts
  <2>2. i + 1 = j + 1
    BY <1>1, <1>5, <2>1 DEF Placed
  <2>3. i \in Int /\ j \in Int
    <3>1. run'[w] \in RunRecord
      BY PassFacts DEF RunTyped
    <3>2. run'[w].work \in Seq(Item)
      BY <3>1 DEF RunRecord
    <3>3. DOMAIN run'[w].work = 1 .. Len(run'[w].work)
      BY <3>2, LenProperties
    <3> QED
      BY <3>3
  <2> QED
    BY <2>2, <2>3
<1>6. Placed(w)'
  BY <1>2, <1>3, <1>4, <1>5 DEF Placed
<1>7. ASSUME NEW v \in Runner, v # w PROVE Placed(v)'
  <2>1. run'[v] = run[v] /\ Placed(v)
    BY <1>7, PassFacts DEF RunsArePlaced
  <2> QED
    BY <2>1, PlacedKeeps
<1> QED
  BY <1>6, <1>7 DEF RunsArePlaced

LEMMA PlacedLeads ==
  ASSUME RunTyped, RunsArePlaced, NEW w \in Runner, At(w) # "idle", NEW result, Leads(w, result)
  PROVE  RunsArePlaced' /\ RunTyped'
<1>1. \/ \E at \in PlacesOf(w[1]), r \in Results \cup {result} : Turns(w, at, r)
      \/ Passes(w)
  BY WorkTyped DEF Leads, PlacesOf
<1>2. ASSUME NEW at \in PlacesOf(w[1]), NEW r, Turns(w, at, r)
      PROVE  RunsArePlaced' /\ RunTyped'
  BY <1>2, PlacedTurns DEF Turns
<1> QED
  BY <1>1, <1>2, PlacedPasses, PassFacts

LEMMA PlacedHalts ==
  ASSUME RunTyped, RunsArePlaced, Halts
  PROVE  RunsArePlaced' /\ RunTyped'
<1>1. ASSUME NEW w \in Runner PROVE Placed(w)'
  <2>1. CASE run'[w] = run[w]
    BY <2>1, PlacedKeeps DEF RunsArePlaced
  <2>2. CASE run'[w] = Idle
    <3>1. Items(w)' = {} /\ At(w)' = "idle" /\ DOMAIN run'[w].work = {} /\ Len(run'[w].work) = 0
      BY <2>2, IdleHolds
    <3> QED
      BY <3>1 DEF Placed, PlacesOf
  <2> QED
    BY <2>1, <2>2 DEF Halts
<1> QED
  BY <1>1, HaltTyped DEF RunsArePlaced

LEMMA PlacedBegins ==
  ASSUME RunsArePlaced, NEW w \in Runner, NEW items, Begins(w, items),
         w[1] = "live" => Len(items) <= 1,
         \A i \in DOMAIN items :
           /\ w[1] = "live" => items[i].event = w[2]
           /\ items[i].letter \in IF w[1] = "redrive" THEN 1 .. MaxLetters ELSE {0},
         w[1] = "sweep" => \A i, j \in DOMAIN items : items[i].event = items[j].event => i = j
  PROVE  RunsArePlaced' /\ RunTyped'
<1>1. Items(w)' = {items[i] : i \in DOMAIN items} /\ At(w)' = StartAt(w) /\ run'[w].work = items
  BY DEF Begins, Items, At
<1>2. At(w)' \in PlacesOf(w[1])
  BY <1>1, RunnerKinds DEF PlacesOf, StartAt
<1>3. Placed(w)'
  BY <1>1, <1>2 DEF Placed
<1>4. ASSUME NEW v \in Runner, v # w PROVE Placed(v)'
  BY <1>4, PlacedKeeps DEF Begins, RunsArePlaced
<1> QED
  BY <1>3, <1>4 DEF RunsArePlaced, Begins

LEMMA OneItem ==
  ASSUME NEW e \in Event
  PROVE  /\ Len(<<NewItem(e)>>) = 1 /\ DOMAIN <<NewItem(e)>> = {1} /\ <<NewItem(e)>>[1] = NewItem(e)
         /\ NewItem(e).event = e /\ NewItem(e).attempts = 0 /\ NewItem(e).letter = 0
         /\ NewItem(e) \in Item
  BY DEF NewItem, Item

LEMMA PlacesInductive ==
  ASSUME TypeOK, RunsArePlaced, [Next]_vars
  PROVE  RunsArePlaced' /\ RunTyped'
<1>t. RunTyped
  BY DEF TypeOK, RunTyped, At
<1>p. ASSUME NEW w \in Runner, NEW at \in PlacesOf(w[1]), NEW result, Turns(w, at, result)
      PROVE  RunsArePlaced' /\ RunTyped'
  BY <1>p, PlacedTurns DEF Turns
<1>q. ASSUME NEW w \in Runner, At(w) # "idle", Passes(w)
      PROVE  RunsArePlaced' /\ RunTyped'
  BY <1>t, <1>q, PlacedPasses, PassFacts
<1>u. ASSUME UNCHANGED run PROVE RunsArePlaced' /\ RunTyped'
  <2>1. \A w \in Runner : run'[w] = run[w]
    BY <1>u
  <2>2. RunsArePlaced'
    BY <2>1, PlacedKeeps DEF RunsArePlaced
  <2>3. RunTyped'
    BY <1>t, <1>u DEF RunTyped, At
  <2> QED
    BY <2>2, <2>3
<1>k. ASSUME NEW w \in Runner, At(w) # "idle"
      PROVE  /\ At(w) \in {"mark", "letter"} => w[1] = "live"
             /\ At(w) \in {"resolve", "close", "retire", "charge", "count", "save", "fail"} => w[1] = "sweep"
             /\ At(w) \in {"retireEvent", "retireLetter"} => w[1] = "redrive"
             /\ {"add", "dispatch"} \subseteq PlacesOf(w[1])
  BY RunnerKinds DEF RunsArePlaced, Placed, PlacesOf
<1>1. ASSUME NEW e \in Event, NEW n \in Node, Receive(e, n) PROVE RunsArePlaced' /\ RunTyped'
  <2> DEFINE w == <<"live", e>>
  <2>1. w \in Runner /\ w[1] = "live" /\ w[2] = e
    BY DEF Runner
  <2>2. CASE Begins(w, <<NewItem(e)>>)
    <3> DEFINE items == <<NewItem(e)>>
    <3>1. Len(items) <= 1 /\ \A i \in DOMAIN items : items[i].event = w[2] /\ items[i].letter = 0
      BY OneItem
    <3> HIDE DEF items
    <3>2. Begins(w, items)
      BY <2>2 DEF items
    <3> HIDE DEF w
    <3> QED
      BY <2>1, <3>1, <3>2, PlacedBegins
  <2> QED
    BY <1>1, <1>u, <2>2, BeginSteps
<1>2. ASSUME NEW n \in Node, BeginSweep(n) PROVE RunsArePlaced' /\ RunTyped'
  <2> DEFINE w == <<"sweep", n>>
  <2>1. w \in Runner /\ w[1] = "sweep"
    BY DEF Runner
  <2>2. PICK q \in Stale : Begins(w, SweepItems(q)) /\ Backlog # {}
    <3>1. Event # {}
      BY <1>2 DEF BeginSweep, Backlog
    <3> QED
      BY <1>2, <3>1, BeginSteps
  <2>3. \A i \in DOMAIN SweepItems(q) : SweepItems(q)[i].letter = 0
    BY <2>2, SweepReads
  <2>4. \A i, j \in DOMAIN SweepItems(q) :
          SweepItems(q)[i].event = SweepItems(q)[j].event => i = j
    BY <2>2, SweepReads
  <2> HIDE DEF w
  <2> QED
    BY <2>1, <2>2, <2>3, <2>4, PlacedBegins
<1>3. ASSUME NEW n \in Node, NEW e \in Event, BeginRedrive(n, e) PROVE RunsArePlaced' /\ RunTyped'
  <2> DEFINE w == <<"redrive", n>>
  <2>1. w \in Runner /\ w[1] = "redrive"
    BY DEF Runner
  <2>2. /\ Len(letters[e]) <= MaxLetters /\ OpenLetters(e) # {}
        /\ \E q \in Lists(OpenLetters(e), Cardinality(OpenLetters(e))) : Begins(w, RedriveItems(e, q))
    BY <1>3, BeginSteps
  <2>3. PICK q \in Lists(OpenLetters(e), Cardinality(OpenLetters(e))) : Begins(w, RedriveItems(e, q))
    BY <2>2
  <2>4. OpenLetters(e) \subseteq 1 .. MaxLetters
    BY <2>2, LettersTyped, ConstantsAssumption
  <2>5. \A i \in DOMAIN RedriveItems(e, q) : RedriveItems(e, q)[i].letter \in 1 .. MaxLetters
    BY <2>2, <2>4, RedriveReads
  <2> HIDE DEF w
  <2> QED
    BY <2>1, <2>3, <2>5, PlacedBegins
<1>4. ASSUME NEW w \in Runner, Add(w) PROVE RunsArePlaced' /\ RunTyped'
  BY <1>t, <1>4, <1>p, <1>k, EnqueueSteps, PlacedLeads
<1>5. ASSUME NEW w \in Runner, DispatchInline(w) PROVE RunsArePlaced' /\ RunTyped'
  BY <1>t, <1>5, EnqueueSteps, PlacedLeads
<1>6. ASSUME NEW w \in Runner, LiveStep(w) PROVE RunsArePlaced' /\ RunTyped'
  <2>1. At(w) # "idle" /\ w[1] = "live" /\ (Turns(w, "letter", "failed") \/ Passes(w))
    BY <1>t, <1>6, <1>k, LiveSteps DEF LiveStep
  <2>2. "letter" \in PlacesOf(w[1])
    BY <2>1 DEF PlacesOf
  <2> QED
    BY <2>1, <2>2, <1>p, <1>q
<1>7. ASSUME NEW w \in Runner, SweepStep(w) PROVE RunsArePlaced' /\ RunTyped'
  <2>1. /\ At(w) # "idle" /\ w[1] = "sweep"
        /\ \/ \E at \in {"add", "retire", "save", "fail"} : Turns(w, at, Result(w))
           \/ Passes(w)
    BY <1>t, <1>7, <1>k, SweepSteps DEF SweepStep
  <2>2. {"add", "retire", "save", "fail"} \subseteq PlacesOf(w[1])
    BY <2>1 DEF PlacesOf
  <2> QED
    BY <2>1, <2>2, <1>p, <1>q
<1>8. ASSUME NEW w \in Runner, RedriveStep(w) PROVE RunsArePlaced' /\ RunTyped'
  <2>1. At(w) # "idle" /\ w[1] = "redrive" /\ (Turns(w, "retireLetter", Result(w)) \/ Passes(w))
    BY <1>t, <1>8, <1>k, RedriveSteps DEF RedriveStep
  <2>2. "retireLetter" \in PlacesOf(w[1])
    BY <2>1 DEF PlacesOf
  <2> QED
    BY <2>1, <2>2, <1>p, <1>q
<1>9. ASSUME NEW w \in Runner, FailQuery(w) PROVE RunsArePlaced' /\ RunTyped'
  <2>1. /\ At(w) # "idle"
        /\ Passes(w) \/ (w[1] = "live" /\ Turns(w, "letter", "failed")) \/ Halts
    <3>1. PICK n \in Node : TRUE
      BY ConstantsAssumption
    <3> QED
      BY <1>t, <1>9, <3>1, FaultSteps
  <2>2. w[1] = "live" => "letter" \in PlacesOf(w[1])
    BY DEF PlacesOf
  <2> QED
    BY <1>t, <2>1, <2>2, <1>p, <1>q, PlacedHalts
<1>10. ASSUME NEW n \in Node, Crash(n) PROVE RunsArePlaced' /\ RunTyped'
  <2>1. <<"sweep", n>> \in Runner
    BY DEF Runner
  <2> QED
    BY <1>t, <1>10, <2>1, FaultSteps, PlacedHalts
<1>11. ASSUME NEW k \in Key, ProcessJob(k) \/ SaveJobLetter(k) \/ Stall(k)
       PROVE  RunsArePlaced' /\ RunTyped'
  BY <1>11, <1>u DEF ProcessJob, SaveJobLetter, Stall
<1>12. ASSUME NEW e \in Event, Toggle(e) PROVE RunsArePlaced' /\ RunTyped'
  BY <1>12, <1>u DEF Toggle
<1>13. CASE UNCHANGED vars
  BY <1>13, <1>u DEF vars
<1>14. up \subseteq Node
  BY DEF TypeOK
<1> QED
  BY <1>1, <1>2, <1>3, <1>4, <1>5, <1>6, <1>7, <1>8, <1>9, <1>10, <1>11, <1>12, <1>13, <1>14
     DEF Next, Step

-----------------------------------------------------------------------------
(* The types of the data.                                                  *)

(* A letter more, or one whose mark changes. *)
LEMMA LetterAdded ==
  ASSUME TypeOK, NEW e \in Event, letters' = [letters EXCEPT ![e] = Append(@, "open")]
  PROVE  /\ letters' \in [Event -> Seq({"open", "retired"})]
         /\ \A d \in Event : d # e => letters'[d] = letters[d]
         /\ letters'[e] # <<>> /\ Len(letters'[e]) = Len(letters[e]) + 1
         /\ DOMAIN letters'[e] = DOMAIN letters[e] \cup {Len(letters[e]) + 1}
         /\ \A i \in DOMAIN letters[e] : letters'[e][i] = letters[e][i]
         /\ letters'[e][Len(letters[e]) + 1] = "open"
         /\ Len(letters[e]) + 1 \notin DOMAIN letters[e]
         /\ OpenLetters(e)' = OpenLetters(e) \cup {Len(letters[e]) + 1}
<1> DEFINE s == letters[e]
           t == Append(s, "open")
<1>1. s \in Seq({"open", "retired"}) /\ Len(s) \in Nat /\ DOMAIN s = 1 .. Len(s)
  BY LettersTyped
<1>2. /\ t \in Seq({"open", "retired"}) /\ t # <<>> /\ Len(t) = Len(s) + 1
      /\ \A i \in 1 .. Len(s) : t[i] = s[i]
      /\ t[Len(s) + 1] = "open"
  BY <1>1, AppendProperties
<1>3. DOMAIN t = 1 .. Len(t)
  BY <1>2, LenProperties
<1>4. letters' = [letters EXCEPT ![e] = t]
  OBVIOUS
<1> HIDE DEF t
<1>5. letters' \in [Event -> Seq({"open", "retired"})] /\ letters'[e] = t
      /\ \A d \in Event : d # e => letters'[d] = letters[d]
  BY <1>2, <1>4 DEF TypeOK
<1>6. DOMAIN t = DOMAIN s \cup {Len(s) + 1} /\ Len(s) + 1 \notin DOMAIN s
  BY <1>1, <1>2, <1>3
<1>7. OpenLetters(e)' = OpenLetters(e) \cup {Len(s) + 1}
  BY <1>1, <1>2, <1>5, <1>6 DEF OpenLetters
<1> QED
  BY <1>1, <1>2, <1>5, <1>6, <1>7

LEMMA LetterRetired ==
  ASSUME TypeOK, NEW e \in Event, NEW l, letters' = [letters EXCEPT ![e][l] = "retired"]
  PROVE  /\ letters' \in [Event -> Seq({"open", "retired"})]
         /\ \A d \in Event : d # e => letters'[d] = letters[d]
         /\ DOMAIN letters'[e] = DOMAIN letters[e] /\ Len(letters'[e]) = Len(letters[e])
         /\ OpenLetters(e)' = OpenLetters(e) \ {l}
<1> DEFINE s == letters[e]
           t == [s EXCEPT ![l] = "retired"]
<1>1. s \in Seq({"open", "retired"}) /\ Len(s) \in Nat /\ DOMAIN s = 1 .. Len(s)
  BY LettersTyped
<1>2. s \in [1 .. Len(s) -> {"open", "retired"}]
  BY <1>1, LenProperties
<1>3. /\ t \in [1 .. Len(s) -> {"open", "retired"}]
      /\ \A i \in 1 .. Len(s) : t[i] = IF i = l THEN "retired" ELSE s[i]
  BY <1>2
<1>4. t \in Seq({"open", "retired"}) /\ DOMAIN t = 1 .. Len(s) /\ Len(t) = Len(s)
  BY <1>1, <1>3, ListIsSeq
<1>5. letters' = [letters EXCEPT ![e] = t]
  OBVIOUS
<1> HIDE DEF t
<1>6. letters' \in [Event -> Seq({"open", "retired"})] /\ letters'[e] = t
      /\ \A d \in Event : d # e => letters'[d] = letters[d]
  BY <1>4, <1>5 DEF TypeOK
<1>7. OpenLetters(e)' = OpenLetters(e) \ {l}
  BY <1>1, <1>3, <1>4, <1>6 DEF OpenLetters
<1> QED
  BY <1>1, <1>4, <1>6, <1>7

LEMMA LettersRetired ==
  ASSUME TypeOK, NEW e \in Event,
         letters' = [letters EXCEPT ![e] = [i \in DOMAIN @ |-> "retired"]]
  PROVE  /\ letters' \in [Event -> Seq({"open", "retired"})]
         /\ \A d \in Event : d # e => letters'[d] = letters[d]
         /\ DOMAIN letters'[e] = DOMAIN letters[e] /\ Len(letters'[e]) = Len(letters[e])
         /\ OpenLetters(e)' = {}
<1> DEFINE s == letters[e]
           t == [i \in DOMAIN s |-> "retired"]
<1>1. s \in Seq({"open", "retired"}) /\ Len(s) \in Nat /\ DOMAIN s = 1 .. Len(s)
  BY LettersTyped
<1>2. t \in [1 .. Len(s) -> {"open", "retired"}] /\ \A i \in 1 .. Len(s) : t[i] = "retired"
  BY <1>1
<1>3. t \in Seq({"open", "retired"}) /\ DOMAIN t = 1 .. Len(s) /\ Len(t) = Len(s)
  BY <1>1, <1>2, ListIsSeq
<1>4. letters' = [letters EXCEPT ![e] = t]
  OBVIOUS
<1> HIDE DEF t
<1>5. letters' \in [Event -> Seq({"open", "retired"})] /\ letters'[e] = t
      /\ \A d \in Event : d # e => letters'[d] = letters[d]
  BY <1>3, <1>4 DEF TypeOK
<1>6. OpenLetters(e)' = {}
  BY <1>2, <1>3, <1>5 DEF OpenLetters
<1> QED
  BY <1>1, <1>3, <1>5, <1>6

(* A current item is one of a row that exists, and names a job. *)
LEMMA CurrentFacts ==
  ASSUME TypeOK, RunsArePlaced, NewIsUntouched, AttemptsBounded, NEW w \in Runner, At(w) # "idle"
  PROVE  /\ Current(w).event \in Event /\ Current(w) \in Items(w) /\ Current(w).event \in Holds(w)
         /\ KeyOf(w) \in Key /\ KeyOf(w)[1] = Current(w).event
         /\ row[Current(w).event].state \in {"pending", "dispatched", "failed"}
         /\ Current(w).attempts \in Nat /\ Current(w).attempts <= MaxAttempts
         /\ w[1] = "live" => Current(w).event = w[2] /\ Len(run[w].work) = 1
<1> USE DEF TypeOK
<1>1. RunTyped
  BY DEF RunTyped, At
<1>2. /\ Current(w).event \in Event /\ Current(w) \in Items(w) /\ Current(w) \in Item
      /\ Current(w).event \in Holds(w)
  BY <1>1, WorkTyped
<1>3. Current(w).letter \in 0 .. MaxLetters
  BY SMTT(30), <1>2, ConstantsAssumption DEF RunsArePlaced, Placed
<1>4. row[Current(w).event].state \in {"pending", "dispatched", "failed"}
  BY <1>2 DEF NewIsUntouched, RowStates
<1>5. Current(w).attempts \in Nat /\ Current(w).attempts <= MaxAttempts
  BY <1>2 DEF AttemptsBounded, Item
<1>6. w[1] = "live" => Current(w).event = w[2] /\ Len(run[w].work) = 1
  <2>1. Len(run[w].work) \in Nat /\ 1 \in 1 .. Len(run[w].work)
    BY <1>1, WorkTyped
  <2>2. w[1] = "live" => Current(w).event = w[2] /\ Len(run[w].work) <= 1
    BY <1>2 DEF RunsArePlaced, Placed
  <2>3. \A n \in Nat : 1 \in 1 .. n /\ n <= 1 => n = 1
    OBVIOUS
  <2> QED
    BY <2>1, <2>2, <2>3
<1> QED
  BY <1>2, <1>3, <1>4, <1>5, <1>6 DEF KeyOf, Key

LEMMA JobUpdate ==
  ASSUME TypeOK, NEW k \in Key, NEW j \in JobRecord, jobs' = [jobs EXCEPT ![k] = j]
  PROVE  /\ jobs' \in [Key -> JobRecord] /\ jobs'[k] = j
         /\ \A i \in Key : i # k => jobs'[i] = jobs[i]
  BY DEF TypeOK

NewJob == [NoJob EXCEPT !.state = "waiting"]

LEMMA AddedFacts ==
  ASSUME TypeOK, NEW k \in Key, jobs' = Added(k)
  PROVE  /\ jobs' \in [Key -> JobRecord]
         /\ \A i \in Key : i # k => jobs'[i] = jobs[i]
         /\ jobs[k].state # "none" => jobs' = jobs
         /\ jobs[k].state = "none" => jobs'[k].state = "waiting"
         /\ jobs'[k].state # "none"
<1>1. NewJob \in JobRecord /\ NewJob.state = "waiting"
  BY DEF NewJob, NoJob, JobRecord, JobStates
<1>2. CASE jobs[k].state = "none"
  <2>1. jobs' = [jobs EXCEPT ![k] = NewJob]
    BY <1>2 DEF Added, NewJob
  <2> QED
    BY <1>1, <1>2, <2>1, JobUpdate
<1>3. CASE jobs[k].state # "none"
  BY <1>3 DEF Added, TypeOK
<1> QED
  BY <1>2, <1>3

(* What the queue makes of a job. *)
LEMMA JobFacts ==
  ASSUME TypeOK, NEW k \in Key
  PROVE  /\ ProcessJob(k) =>
              /\ jobs[k].state = "waiting" /\ jobs' \in [Key -> JobRecord]
              /\ \A i \in Key : i # k => jobs'[i] = jobs[i]
              /\ \/ jobs'[k].state = "done" /\ Handled(k[1]) /\ UNCHANGED disturbed
                 \/ jobs'[k].state \in {"waiting", "saving"} /\ UNCHANGED history
                 \/ jobs'[k].state \in {"waiting", "saving"} /\ Handled(k[1]) /\ Disturb({k[1]})
         /\ SaveJobLetter(k) =>
              /\ jobs[k].state = "saving" /\ jobs' \in [Key -> JobRecord]
              /\ \A i \in Key : i # k => jobs'[i] = jobs[i]
              /\ jobs'[k].state = "failed"
         /\ Stall(k) =>
              /\ jobs[k].state \in {"waiting", "saving"} /\ jobs' \in [Key -> JobRecord]
              /\ \A i \in Key : i # k => jobs'[i] = jobs[i]
              /\ jobs'[k].state \in {"waiting", "failed"}
<1>0. jobs[k] \in JobRecord
  BY DEF TypeOK
<1>1. ASSUME NEW j \in JobRecord
      PROVE  /\ \A state \in JobStates :
                  [j EXCEPT !.state = state] \in JobRecord /\ [j EXCEPT !.state = state].state = state
             /\ [j EXCEPT !.made = j.made + 1] \in JobRecord
             /\ [j EXCEPT !.made = j.made + 1].state = j.state
             /\ [j EXCEPT !.state = "waiting", !.stalled = TRUE] \in JobRecord
             /\ [j EXCEPT !.state = "waiting", !.stalled = TRUE].state = "waiting"
  <2>1. \A state \in JobStates :
          [j EXCEPT !.state = state] \in JobRecord /\ [j EXCEPT !.state = state].state = state
    BY DEF JobRecord
  <2>2. j.made + 1 \in Nat
    BY DEF JobRecord
  <2>3. [j EXCEPT !.made = j.made + 1] \in JobRecord
    BY <2>2 DEF JobRecord
  <2>4. [j EXCEPT !.made = j.made + 1].state = j.state
    BY DEF JobRecord
  <2>5. "waiting" \in JobStates
    BY DEF JobStates
  <2>6. /\ [j EXCEPT !.state = "waiting", !.stalled = TRUE] \in JobRecord
        /\ [j EXCEPT !.state = "waiting", !.stalled = TRUE].state = "waiting"
    BY <2>5 DEF JobRecord
  <2> QED
    BY <2>1, <2>3, <2>4, <2>6
<1>s. {"done", "saving", "failed", "waiting"} \subseteq JobStates
  BY DEF JobStates
<1>2. ASSUME ProcessJob(k)
      PROVE  /\ jobs[k].state = "waiting" /\ jobs' \in [Key -> JobRecord]
             /\ \A i \in Key : i # k => jobs'[i] = jobs[i]
             /\ \/ jobs'[k].state = "done" /\ Handled(k[1]) /\ UNCHANGED disturbed
                \/ jobs'[k].state \in {"waiting", "saving"} /\ UNCHANGED history
                \/ jobs'[k].state \in {"waiting", "saving"} /\ Handled(k[1]) /\ Disturb({k[1]})
  <2> DEFINE done == [jobs[k] EXCEPT !.state = "done"]
             last == [jobs[k] EXCEPT !.state = "saving"]
             next == [jobs[k] EXCEPT !.made = jobs[k].made + 1]
  <2>1. /\ jobs[k].state = "waiting"
        /\ \/ jobs' = [jobs EXCEPT ![k] = done] /\ Handled(k[1]) /\ UNCHANGED disturbed
           \/ jobs' \in {[jobs EXCEPT ![k] = last], [jobs EXCEPT ![k] = next]} /\ UNCHANGED history
           \/ /\ jobs' \in {[jobs EXCEPT ![k] = last], [jobs EXCEPT ![k] = next]}
              /\ Handled(k[1]) /\ Disturb({k[1]})
    BY <1>2 DEF ProcessJob, Dispatched, TypeOK
  <2>2. /\ done \in JobRecord /\ done.state = "done" /\ last \in JobRecord /\ last.state = "saving"
        /\ next \in JobRecord /\ next.state = "waiting"
    BY <1>0, <1>1, <1>s, <2>1
  <2> HIDE DEF done, last, next
  <2>3. CASE jobs' = [jobs EXCEPT ![k] = done] /\ Handled(k[1]) /\ UNCHANGED disturbed
    BY <2>1, <2>2, <2>3, JobUpdate
  <2>4. ASSUME NEW j \in {last, next}, jobs' = [jobs EXCEPT ![k] = j]
        PROVE  /\ jobs' \in [Key -> JobRecord] /\ \A i \in Key : i # k => jobs'[i] = jobs[i]
               /\ jobs'[k].state \in {"waiting", "saving"}
    BY <2>2, <2>4, JobUpdate
  <2> QED
    BY <2>1, <2>3, <2>4
<1>3. ASSUME SaveJobLetter(k)
      PROVE  /\ jobs[k].state = "saving" /\ jobs' \in [Key -> JobRecord]
             /\ \A i \in Key : i # k => jobs'[i] = jobs[i]
             /\ jobs'[k].state = "failed"
  <2> DEFINE j == [jobs[k] EXCEPT !.state = "failed"]
  <2>1. jobs[k].state = "saving" /\ jobs' = [jobs EXCEPT ![k] = j]
    BY <1>3 DEF SaveJobLetter, TypeOK
  <2>2. j \in JobRecord /\ j.state = "failed"
    BY <1>0, <1>1, <1>s
  <2> HIDE DEF j
  <2> QED
    BY <2>1, <2>2, JobUpdate
<1>4. ASSUME Stall(k)
      PROVE  /\ jobs[k].state \in {"waiting", "saving"} /\ jobs' \in [Key -> JobRecord]
             /\ \A i \in Key : i # k => jobs'[i] = jobs[i]
             /\ jobs'[k].state \in {"waiting", "failed"}
  <2> DEFINE j == IF jobs[k].stalled THEN [jobs[k] EXCEPT !.state = "failed"]
                  ELSE [jobs[k] EXCEPT !.state = "waiting", !.stalled = TRUE]
  <2>1. jobs[k].state \in {"waiting", "saving"} /\ jobs' = [jobs EXCEPT ![k] = j]
    BY <1>4 DEF Stall, TypeOK
  <2>2. j \in JobRecord /\ j.state \in {"waiting", "failed"}
    BY <1>0, <1>1, <1>s
  <2> HIDE DEF j
  <2> QED
    BY <2>1, <2>2, JobUpdate
<1> QED
  BY <1>2, <1>3, <1>4

LEMMA RowUpdate ==
  ASSUME TypeOK, NEW e \in Event, NEW state \in RowStates, NEW a \in 0 .. MaxAttempts + 1,
         row' = [row EXCEPT ![e] = [state |-> state, attempts |-> a]]
  PROVE  /\ row' \in [Event -> [state: RowStates, attempts: 0 .. MaxAttempts + 1]]
         /\ row'[e].state = state /\ row'[e].attempts = a
         /\ \A d \in Event : d # e => row'[d] = row[d]
  BY DEF TypeOK

LEMMA RowFields ==
  ASSUME TypeOK, NEW e \in Event
  PROVE  /\ row[e].state \in RowStates /\ row[e].attempts \in 0 .. MaxAttempts + 1
         /\ \A state : [row[e] EXCEPT !.state = state] = [state |-> state, attempts |-> row[e].attempts]
         /\ \A a : [row[e] EXCEPT !.attempts = a] = [state |-> row[e].state, attempts |-> a]
  BY DEF TypeOK

LEMMA HandledTyped ==
  ASSUME TypeOK, NEW e \in Event, Handled(e)
  PROVE  /\ delivered' \in [Event -> 0 .. 2] /\ delivered'[e] > 0
         /\ \A d \in Event : d # e => delivered'[d] = delivered[d]
         /\ e \notin disturbed => delivered'[e] = IF delivered[e] = 0 THEN 1 ELSE 2
  BY DEF TypeOK, Handled

-----------------------------------------------------------------------------
(* A step has to do with one event.                                        *)

Leaves(e) ==
  /\ row'[e] = row[e] /\ letters'[e] = letters[e] /\ delivered'[e] = delivered[e]
  /\ \A k \in Key : k[1] = e => jobs'[k] = jobs[k]

DataTyped ==
  /\ row \in [Event -> [state: RowStates, attempts: 0 .. MaxAttempts + 1]]
  /\ letters \in [Event -> Seq({"open", "retired"})]
  /\ jobs \in [Key -> JobRecord]
  /\ delivered \in [Event -> 0 .. 2]
  /\ disturbed \subseteq Event
  /\ redrives \in Nat /\ faults \in Nat
  /\ born \in Seq(Event) /\ enabled \in [Event -> BOOLEAN] /\ coming \subseteq Event /\ up \subseteq Node

LEMMA TypeParts == TypeOK <=> RunTyped /\ DataTyped
  BY DEF TypeOK, RunTyped, DataTyped, At


(* What the step of a runner does to the data. *)
StepData(w) ==
  /\ DataTyped'
  /\ UNCHANGED <<born, enabled, world, faults>>
  /\ \A e \in Event : e # Current(w).event => Leaves(e) /\ (e \in disturbed' <=> e \in disturbed)
  /\ \A v \in Runner : v # w => run'[v] = run[v]
  /\ disturbed \subseteq disturbed'

LEMMA LeadsOthers ==
  ASSUME RunTyped, NEW w \in Runner, At(w) # "idle", NEW result, Leads(w, result)
  PROVE  \A v \in Runner : v # w => run'[v] = run[v]
  BY PassFacts DEF Leads, Turns

LEMMA EnqueueData ==
  ASSUME PlaceInv, NEW w \in Runner, Add(w) \/ DispatchInline(w)
  PROVE  StepData(w) /\ UNCHANGED database /\ At(w) \in {"add", "dispatch"}
<1>t. TypeOK /\ RunTyped /\ DataTyped
  BY TypeParts DEF PlaceInv
<1>1. CASE Add(w)
  <2>1. /\ At(w) = "add"
        /\ jobs' = Added(KeyOf(w)) \/ jobs' = jobs
        /\ UNCHANGED disturbed \/ Disturb({Current(w).event})
        /\ \A v \in Runner : v # w => run'[v] = run[v]
    BY <1>t, <1>1, EnqueueSteps, LeadsOthers DEF Turns
  <2>2. UNCHANGED <<database, world, faults, delivered>>
    BY <1>1 DEF Add
  <2>3. /\ Current(w).event \in Event /\ KeyOf(w) \in Key /\ KeyOf(w)[1] = Current(w).event
    BY <2>1, CurrentFacts DEF PlaceInv
  <2>4. /\ jobs' \in [Key -> JobRecord]
        /\ \A k \in Key : k # KeyOf(w) => jobs'[k] = jobs[k]
    BY <1>t, <2>1, <2>3, AddedFacts DEF DataTyped
  <2>5. /\ disturbed' \subseteq Event /\ disturbed \subseteq disturbed'
        /\ \A e \in Event : e # Current(w).event => (e \in disturbed' <=> e \in disturbed)
    BY <1>t, <2>1, <2>3 DEF Disturb, DataTyped
  <2> QED
    BY <1>t, <2>1, <2>2, <2>3, <2>4, <2>5 DEF StepData, DataTyped, Leaves, database, world
<1>2. CASE DispatchInline(w)
  <2>1. /\ At(w) = "dispatch"
        /\ Handled(Current(w).event) \/ UNCHANGED delivered
        /\ UNCHANGED disturbed \/ Disturb({Current(w).event})
        /\ \A v \in Runner : v # w => run'[v] = run[v]
    BY <1>t, <1>2, EnqueueSteps, LeadsOthers DEF history
  <2>2. UNCHANGED <<database, jobs, world, faults>>
    BY <1>2 DEF DispatchInline
  <2>3. Current(w).event \in Event
    BY <2>1, CurrentFacts DEF PlaceInv
  <2>4. /\ delivered' \in [Event -> 0 .. 2]
        /\ \A e \in Event : e # Current(w).event => delivered'[e] = delivered[e]
    BY <1>t, <2>1, <2>3, HandledTyped DEF DataTyped
  <2>5. /\ disturbed' \subseteq Event /\ disturbed \subseteq disturbed'
        /\ \A e \in Event : e # Current(w).event => (e \in disturbed' <=> e \in disturbed)
    BY <1>t, <2>1, <2>3 DEF Disturb, DataTyped
  <2> QED
    BY <1>t, <2>1, <2>2, <2>3, <2>4, <2>5 DEF StepData, DataTyped, Leaves, database, world
<1> QED
  BY <1>1, <1>2

(* A row that is written. *)
RowBecomes(e, state, a) ==
  /\ row'[e].state = state /\ row'[e].attempts = a
  /\ UNCHANGED <<letters, jobs, delivered, disturbed>>

LEMMA RowData ==
  ASSUME PlaceInv, NEW w \in Runner,
         Mark(w) \/ CloseReplayed(w) \/ Charge(w) \/ CloseFailed(w) \/ RetireEvent(w)
  PROVE  /\ StepData(w) /\ At(w) # "idle"
         /\ LET e == Current(w).event IN
            /\ Mark(w) => IF Result(w) = "failed" THEN RowBecomes(e, row[e].state, row[e].attempts + 1)
                                                  ELSE RowBecomes(e, "dispatched", row[e].attempts)
            /\ CloseReplayed(w) => RowBecomes(e, "dispatched", row[e].attempts)
            /\ Charge(w) => RowBecomes(e, row[e].state, Current(w).attempts + 1)
            /\ CloseFailed(w) => RowBecomes(e, "failed", Current(w).attempts + 1)
            /\ RetireEvent(w) =>
                 RowBecomes(e, IF Pending(e) THEN "dispatched" ELSE row[e].state, row[e].attempts)
<1> DEFINE e == Current(w).event
<1>t. TypeOK /\ RunTyped /\ DataTyped
  BY TypeParts DEF PlaceInv
<1>1. /\ At(w) # "idle" /\ \A v \in Runner : v # w => run'[v] = run[v]
  <2>1. At(w) # "idle" /\ (Passes(w) \/ \E at, r : Turns(w, at, r))
    BY <1>t, LiveSteps, SweepSteps, RedriveSteps
  <2> QED
    BY <1>t, <2>1, PassFacts DEF Turns
<1>2. /\ e \in Event /\ e \in Holds(w) /\ Current(w).attempts \in 0 .. MaxAttempts /\ MaxAttempts \in Nat
      /\ w[1] = "live" => e = w[2]
  BY <1>1, CurrentFacts, ConstantsAssumption DEF PlaceInv
<1>3. /\ row[e].state \in RowStates /\ row[e].attempts \in 0 .. MaxAttempts + 1
      /\ \A state : [row[e] EXCEPT !.state = state] = [state |-> state, attempts |-> row[e].attempts]
      /\ \A a : [row[e] EXCEPT !.attempts = a] = [state |-> row[e].state, attempts |-> a]
  BY <1>t, <1>2, RowFields
<1>4. Mark(w) => row[e].attempts + 1 \in 0 .. MaxAttempts + 1
  <2>1. ASSUME Mark(w) PROVE row[e].attempts <= MaxAttempts
    <3>1. At(w) = "mark" /\ w[1] = "live"
      <4>1. At(w) = "mark"
        BY <2>1 DEF Mark, At
      <4> QED
        BY <4>1, RunnerKinds DEF PlaceInv, RunsArePlaced, Placed, PlacesOf
    <3>2. w = <<"live", e>>
      BY <1>2, <3>1 DEF Runner
    <3>3. Unmarked(e)
      BY <3>1, <3>2 DEF Unmarked
    <3> QED
      BY <1>2, <3>3 DEF PlaceInv, AttemptsBounded
  <2> QED
    BY <1>2, <1>3, <2>1
<1>5. {"dispatched", "failed"} \subseteq RowStates
  BY DEF RowStates
<1>d. UNCHANGED <<letters, jobs, delivered, disturbed, born, enabled, world, faults>>
  BY DEF Mark, CloseReplayed, Charge, CloseFailed, RetireEvent, history, database
<1>r. ASSUME NEW state \in RowStates, NEW a \in 0 .. MaxAttempts + 1,
             row' = [row EXCEPT ![e] = [state |-> state, attempts |-> a]]
      PROVE  StepData(w) /\ RowBecomes(e, state, a)
  <2>1. /\ row' \in [Event -> [state: RowStates, attempts: 0 .. MaxAttempts + 1]]
        /\ row'[e].state = state /\ row'[e].attempts = a
        /\ \A d \in Event : d # e => row'[d] = row[d]
    BY <1>t, <1>2, <1>r, RowUpdate
  <2> QED
    BY <1>t, <1>1, <1>2, <1>d, <2>1 DEF StepData, RowBecomes, DataTyped, Leaves, world
<1> HIDE DEF e
<1>6. ASSUME Mark(w)
      PROVE  StepData(w) /\ IF Result(w) = "failed" THEN RowBecomes(e, row[e].state, row[e].attempts + 1)
                                                    ELSE RowBecomes(e, "dispatched", row[e].attempts)
  <2>1. IF Result(w) = "failed"
        THEN row' = [row EXCEPT ![e] = [row[e] EXCEPT !.attempts = row[e].attempts + 1]]
        ELSE row' = [row EXCEPT ![e] = [row[e] EXCEPT !.state = "dispatched"]]
    BY <1>6, <1>t DEF Mark, Result, e, TypeOK
  <2>2. IF Result(w) = "failed"
        THEN row' = [row EXCEPT ![e] = [state |-> row[e].state, attempts |-> row[e].attempts + 1]]
        ELSE row' = [row EXCEPT ![e] = [state |-> "dispatched", attempts |-> row[e].attempts]]
    BY <1>3, <2>1
  <2> QED
    BY <1>3, <1>4, <1>5, <1>6, <1>r, <2>2
<1>7. ASSUME CloseReplayed(w) PROVE StepData(w) /\ RowBecomes(e, "dispatched", row[e].attempts)
  <2>1. row' = [row EXCEPT ![e] = [row[e] EXCEPT !.state = "dispatched"]]
    BY <1>7, <1>t DEF CloseReplayed, e, TypeOK
  <2>2. row' = [row EXCEPT ![e] = [state |-> "dispatched", attempts |-> row[e].attempts]]
    BY <1>3, <2>1
  <2> QED
    BY <1>3, <1>5, <1>r, <2>2
<1>8. ASSUME Charge(w) PROVE StepData(w) /\ RowBecomes(e, row[e].state, Current(w).attempts + 1)
  <2>1. row' = [row EXCEPT ![e] = [row[e] EXCEPT !.attempts = Current(w).attempts + 1]]
    BY <1>8, <1>t DEF Charge, e, TypeOK
  <2>2. row' = [row EXCEPT ![e] = [state |-> row[e].state, attempts |-> Current(w).attempts + 1]]
    BY <1>3, <2>1
  <2>3. Current(w).attempts + 1 \in 0 .. MaxAttempts + 1
    BY <1>2
  <2> QED
    BY <1>3, <1>r, <2>2, <2>3
<1>9. ASSUME CloseFailed(w) PROVE StepData(w) /\ RowBecomes(e, "failed", Current(w).attempts + 1)
  <2>1. row' = [row EXCEPT ![e] = [state |-> "failed", attempts |-> Current(w).attempts + 1]]
    BY <1>9 DEF CloseFailed, e
  <2>2. Current(w).attempts + 1 \in 0 .. MaxAttempts + 1
    BY <1>2
  <2> QED
    BY <1>5, <1>r, <2>1, <2>2
<1>10. ASSUME RetireEvent(w)
       PROVE  StepData(w) /\ RowBecomes(e, IF Pending(e) THEN "dispatched" ELSE row[e].state, row[e].attempts)
  <2> DEFINE state == IF Pending(e) THEN "dispatched" ELSE row[e].state
  <2>1. row' = [row EXCEPT ![e] = [row[e] EXCEPT !.state = state]]
    BY <1>10, <1>t DEF RetireEvent, e, TypeOK, Pending
  <2>2. row' = [row EXCEPT ![e] = [state |-> state, attempts |-> row[e].attempts]]
    BY <1>3, <2>1
  <2>3. state \in RowStates
    BY <1>3, <1>5
  <2> HIDE DEF state
  <2>4. StepData(w) /\ RowBecomes(e, state, row[e].attempts)
    BY <1>3, <1>r, <2>2, <2>3
  <2> QED
    BY <2>4 DEF state
<1> QED
  BY <1>1, <1>6, <1>7, <1>8, <1>9, <1>10 DEF e

LEMMA LetterData ==
  ASSUME PlaceInv, NEW w \in Runner,
         WriteLetter(w) \/ SaveLetter(w) \/ RetireLetters(w) \/ RetireLetter(w)
  PROVE  StepData(w) /\ At(w) # "idle" /\ UNCHANGED <<row, jobs, delivered, disturbed>>
<1> DEFINE e == Current(w).event
<1>t. TypeOK /\ RunTyped /\ DataTyped
  BY TypeParts DEF PlaceInv
<1>1. /\ At(w) # "idle" /\ \A v \in Runner : v # w => run'[v] = run[v]
  <2>1. At(w) # "idle" /\ (Passes(w) \/ \E at, r : Turns(w, at, r))
    BY <1>t, LiveSteps, SweepSteps, RedriveSteps
  <2> QED
    BY <1>t, <2>1, PassFacts DEF Turns
<1>2. e \in Event
  BY <1>1, CurrentFacts DEF PlaceInv
<1>3. UNCHANGED <<row, jobs, delivered, disturbed, born, enabled, world, faults>>
  BY DEF WriteLetter, SaveLetter, RetireLetters, RetireLetter, history
<1>4. /\ letters' \in [Event -> Seq({"open", "retired"})]
      /\ \A d \in Event : d # e => letters'[d] = letters[d]
  <2>1. \/ letters' = [letters EXCEPT ![e] = Append(@, "open")]
        \/ letters' = [letters EXCEPT ![e] = [i \in DOMAIN @ |-> "retired"]]
        \/ letters' = [letters EXCEPT ![e][Current(w).letter] = "retired"]
    BY DEF WriteLetter, SaveLetter, RetireLetters, RetireLetter
  <2> HIDE DEF e
  <2> QED
    BY <1>t, <1>2, <2>1, LetterAdded, LetterRetired, LettersRetired
<1> QED
  BY <1>t, <1>1, <1>2, <1>3, <1>4 DEF StepData, DataTyped, Leaves, world

LEMMA OtherData ==
  ASSUME PlaceInv, NEW w \in Runner, ResolveInstance(w) \/ CountLetters(w)
  PROVE  StepData(w) /\ At(w) # "idle" /\ UNCHANGED <<row, letters, jobs, delivered, disturbed>>
<1>t. TypeOK /\ RunTyped /\ DataTyped
  BY TypeParts DEF PlaceInv
<1>1. /\ At(w) # "idle" /\ \A v \in Runner : v # w => run'[v] = run[v]
  <2>1. At(w) # "idle" /\ (Passes(w) \/ \E at, r : Turns(w, at, r))
    BY <1>t, SweepSteps
  <2> QED
    BY <1>t, <2>1, PassFacts DEF Turns
<1>2. UNCHANGED <<row, letters, jobs, delivered, disturbed, born, enabled, world, faults>>
  BY DEF ResolveInstance, CountLetters, history, database
<1> QED
  BY <1>t, <1>1, <1>2 DEF StepData, DataTyped, Leaves, world

LEMMA StepDataAlways ==
  ASSUME PlaceInv, NEW w \in Runner, Step(w)
  PROVE  StepData(w) /\ At(w) # "idle"
  BY EnqueueData, RowData, LetterData, OtherData DEF Step, LiveStep, SweepStep, RedriveStep

(* What the rest of the actions do to the data. *)
LEMMA ReceiveData ==
  ASSUME PlaceInv, NEW e \in Event, NEW n, Receive(e, n)
  PROVE  /\ DataTyped' /\ \A d \in Event : d # e => Leaves(d)
         /\ e \in coming /\ coming' = coming \ {e}
         /\ row[e].state = "none" /\ row'[e].state = "pending" /\ row'[e].attempts = 0
         /\ UNCHANGED <<letters, jobs, delivered>> /\ disturbed \subseteq disturbed'
<1>t. TypeOK /\ RunTyped /\ DataTyped
  BY TypeParts DEF PlaceInv
<1>h. \A v \in Runner : Holds(v) \subseteq Event
  BY <1>t, WorkTyped
<1>1. /\ e \in coming /\ coming' = coming \ {e} /\ row' = [row EXCEPT ![e].state = "pending"]
      /\ born' = Append(born, e)
      /\ UNCHANGED <<letters, enabled, jobs, up, redrives, delivered>>
      /\ \/ UNCHANGED faults
         \/ faults > 0 /\ faults' = faults - 1
      /\ \/ disturbed' = disturbed \cup {e}
         \/ disturbed' = disturbed \cup ({<<NewItem(e)>>[i].event : i \in DOMAIN <<NewItem(e)>>}
                                           \cap UNION {Holds(v) : v \in Runner})
  BY DEF Receive, Fault, Disturb, Begin, NewItem
<1>2. row[e].state = "none" /\ row[e].attempts = 0
  BY <1>1 DEF PlaceInv, NewIsUntouched
<1>3. row' = [row EXCEPT ![e] = [state |-> "pending", attempts |-> 0]]
  <2>1. row' = [row EXCEPT ![e] = [row[e] EXCEPT !.state = "pending"]]
    BY <1>t, <1>1 DEF TypeOK
  <2> QED
    BY <1>t, <1>2, <2>1, RowFields
<1>4. /\ row' \in [Event -> [state: RowStates, attempts: 0 .. MaxAttempts + 1]]
      /\ row'[e].state = "pending" /\ row'[e].attempts = 0
      /\ \A d \in Event : d # e => row'[d] = row[d]
  <2>1. "pending" \in RowStates /\ 0 \in 0 .. MaxAttempts + 1
    BY ConstantsAssumption DEF RowStates
  <2> QED
    BY <1>t, <1>3, <2>1, RowUpdate
<1>5. disturbed \subseteq disturbed' /\ disturbed' \subseteq Event
  BY <1>t, <1>h, <1>1 DEF DataTyped
<1>6. born' \in Seq(Event)
  BY <1>t, <1>1, AppendProperties DEF DataTyped
<1> QED
  BY <1>t, <1>1, <1>2, <1>4, <1>5, <1>6 DEF DataTyped, Leaves

LEMMA JobData ==
  ASSUME PlaceInv, NEW k \in Key
  PROVE  /\ ProcessJob(k) =>
              /\ DataTyped' /\ UNCHANGED <<row, letters, run, coming>>
              /\ \A d \in Event : d # k[1] => Leaves(d) /\ (d \in disturbed' <=> d \in disturbed)
         /\ SaveJobLetter(k) \/ Stall(k) =>
              /\ DataTyped' /\ UNCHANGED <<row, run, coming, delivered>>
              /\ \A d \in Event : d # k[1] => Leaves(d) /\ (d \in disturbed' <=> d \in disturbed)
<1>t. TypeOK /\ RunTyped /\ DataTyped
  BY TypeParts DEF PlaceInv
<1>k. k[1] \in Event
  BY DEF Key
<1>2. ASSUME ProcessJob(k)
      PROVE  /\ DataTyped' /\ UNCHANGED <<row, letters, run, coming>>
             /\ \A d \in Event : d # k[1] => Leaves(d) /\ (d \in disturbed' <=> d \in disturbed)
  <2>1. UNCHANGED <<database, run, world, faults>>
    BY <1>2 DEF ProcessJob
  <2>2. /\ jobs' \in [Key -> JobRecord] /\ \A i \in Key : i # k => jobs'[i] = jobs[i]
        /\ Handled(k[1]) \/ UNCHANGED delivered
        /\ UNCHANGED disturbed \/ Disturb({k[1]})
    BY <1>t, <1>2, JobFacts DEF history
  <2>3. delivered' \in [Event -> 0 .. 2] /\ \A d \in Event : d # k[1] => delivered'[d] = delivered[d]
    BY <1>t, <1>k, <2>2, HandledTyped DEF DataTyped
  <2> QED
    BY <1>t, <1>k, <2>1, <2>2, <2>3 DEF DataTyped, Leaves, Disturb, database, world
<1>3. ASSUME SaveJobLetter(k) \/ Stall(k)
      PROVE  /\ DataTyped' /\ UNCHANGED <<row, run, coming, delivered>>
             /\ \A d \in Event : d # k[1] => Leaves(d) /\ (d \in disturbed' <=> d \in disturbed)
  <2>1. /\ UNCHANGED <<row, born, enabled, run, world, delivered>>
        /\ UNCHANGED letters \/ letters' = [letters EXCEPT ![k[1]] = Append(@, "open")]
        /\ UNCHANGED faults \/ (faults > 0 /\ faults' = faults - 1)
        /\ UNCHANGED disturbed \/ Disturb({k[1]})
    BY <1>3 DEF SaveJobLetter, Stall, Fault, database
  <2>2. jobs' \in [Key -> JobRecord] /\ \A i \in Key : i # k => jobs'[i] = jobs[i]
    BY <1>t, <1>3, JobFacts
  <2>3. /\ letters' \in [Event -> Seq({"open", "retired"})]
        /\ \A d \in Event : d # k[1] => letters'[d] = letters[d]
    BY <1>t, <1>k, <2>1, LetterAdded DEF DataTyped
  <2> QED
    BY <1>t, <1>k, <2>1, <2>2, <2>3 DEF DataTyped, Leaves, Disturb, world
<1> QED
  BY <1>2, <1>3

LEMMA ReadData ==
  ASSUME PlaceInv,
         \/ \E n \in up : BeginSweep(n) \/ Crash(n)
         \/ \E n \in up, e \in Event : BeginRedrive(n, e)
         \/ \E w \in Runner : FailQuery(w)
         \/ \E e \in Event : Toggle(e)
  PROVE  /\ DataTyped' /\ UNCHANGED <<row, letters, jobs, delivered, coming>>
         /\ disturbed \subseteq disturbed'
<1>t. TypeOK /\ RunTyped /\ DataTyped
  BY TypeParts DEF PlaceInv
<1>h. \A v \in Runner : Holds(v) \subseteq Event
  BY <1>t, WorkTyped
<1>1. ASSUME (\E n \in up : BeginSweep(n)) \/ (\E n \in up, e \in Event : BeginRedrive(n, e))
      PROVE  /\ DataTyped' /\ UNCHANGED <<row, letters, jobs, delivered, coming>>
             /\ disturbed \subseteq disturbed'
  <2>1. /\ UNCHANGED <<database, coming, up, jobs, faults, delivered>>
        /\ redrives' = redrives \/ (redrives > 0 /\ redrives' = redrives - 1)
        /\ \E items : disturbed' = disturbed \cup (items \cap UNION {Holds(v) : v \in Runner})
    BY <1>1 DEF BeginSweep, BeginRedrive, Begin, world
  <2> QED
    BY <1>t, <1>h, <2>1 DEF DataTyped, database
<1>2. ASSUME (\E w \in Runner : FailQuery(w)) \/ (\E n \in up : Crash(n))
      PROVE  /\ DataTyped' /\ UNCHANGED <<row, letters, jobs, delivered, coming>>
             /\ disturbed \subseteq disturbed'
  <2>1. /\ UNCHANGED <<database, jobs, world, delivered>>
        /\ faults > 0 /\ faults' = faults - 1
        /\ \/ \E w \in Runner : disturbed' = disturbed \cup {Current(w).event} /\ At(w) # "idle"
           \/ \E S \in SUBSET Runner : disturbed' = disturbed \cup UNION {Holds(v) : v \in S}
    BY <1>2 DEF FailQuery, Crash, Fault, Disturb, At
  <2>2. \A w \in Runner : At(w) # "idle" => Current(w).event \in Event
    BY <1>t, WorkTyped
  <2>3. disturbed \subseteq disturbed' /\ disturbed' \subseteq Event
    <3>1. ASSUME NEW w \in Runner, disturbed' = disturbed \cup {Current(w).event}, At(w) # "idle"
          PROVE  disturbed \subseteq disturbed' /\ disturbed' \subseteq Event
      BY <1>t, <2>2, <3>1 DEF DataTyped
    <3>2. ASSUME NEW S \in SUBSET Runner, disturbed' = disturbed \cup UNION {Holds(v) : v \in S}
          PROVE  disturbed \subseteq disturbed' /\ disturbed' \subseteq Event
      <4>1. UNION {Holds(v) : v \in S} \subseteq Event
        BY <1>h
      <4> QED
        BY <1>t, <3>2, <4>1 DEF DataTyped
    <3> QED
      BY <2>1, <3>1, <3>2
  <2>4. faults' \in Nat
    BY <1>t, <2>1 DEF DataTyped
  <2> QED
    BY <1>t, <2>1, <2>3, <2>4 DEF DataTyped, database, world
<1>3. ASSUME NEW e \in Event, Toggle(e)
      PROVE  /\ DataTyped' /\ UNCHANGED <<row, letters, jobs, delivered, coming>>
             /\ disturbed \subseteq disturbed'
  BY <1>t, <1>3 DEF Toggle, DataTyped, world, history
<1> QED
  BY <1>1, <1>2, <1>3

(* What may befall an event. *)
LEMMA EventMoves ==
  ASSUME PlaceInv, [Next]_vars, NEW e \in Event
  PROVE  /\ coming' \subseteq coming
         /\ \/ Leaves(e)
            \/ \E n \in up : Receive(e, n)
            \/ \E w \in Runner : Step(w) /\ StepData(w) /\ At(w) # "idle" /\ e = Current(w).event
            \/ \E k \in Key : k[1] = e /\ (ProcessJob(k) \/ SaveJobLetter(k) \/ Stall(k))
<1> DEFINE Goal ==
             /\ coming' \subseteq coming
             /\ \/ Leaves(e)
                \/ \E n \in up : Receive(e, n)
                \/ \E w \in Runner : Step(w) /\ StepData(w) /\ At(w) # "idle" /\ e = Current(w).event
                \/ \E k \in Key : k[1] = e /\ (ProcessJob(k) \/ SaveJobLetter(k) \/ Stall(k))
<1>1. ASSUME NEW d \in Event, NEW n \in up, Receive(d, n) PROVE Goal
  BY <1>1, ReceiveData
<1>2. ASSUME NEW w \in Runner, Step(w) PROVE Goal
  <2>1. StepData(w) /\ At(w) # "idle"
    BY <1>2, StepDataAlways
  <2>2. coming' = coming
    BY <2>1 DEF StepData, world
  <2> QED
    BY <1>2, <2>1, <2>2 DEF StepData
<1>3. ASSUME NEW k \in Key, ProcessJob(k) \/ SaveJobLetter(k) \/ Stall(k) PROVE Goal
  <2>1. coming' = coming /\ \A d \in Event : d # k[1] => Leaves(d)
    BY <1>3, JobData
  <2> QED
    BY <1>3, <2>1
<1>4. ASSUME \/ \E n \in up : BeginSweep(n) \/ Crash(n)
             \/ \E n \in up, d \in Event : BeginRedrive(n, d)
             \/ \E w \in Runner : FailQuery(w)
             \/ \E d \in Event : Toggle(d)
      PROVE  Goal
  BY <1>4, ReadData DEF Leaves
<1>5. ASSUME UNCHANGED vars PROVE Goal
  BY <1>5 DEF vars, Leaves, database, world, history
<1> HIDE DEF Goal
<1>6. ASSUME \/ \E n \in up : BeginSweep(n)
             \/ \E n \in up, d \in Event : BeginRedrive(n, d)
             \/ \E w \in Runner : FailQuery(w)
             \/ \E n \in up : Crash(n)
             \/ \E d \in Event : Toggle(d)
      PROVE  Goal
  BY <1>4, <1>6
<1>7. ASSUME \/ \E k \in Key : ProcessJob(k)
             \/ \E k \in Key : SaveJobLetter(k)
             \/ \E k \in Key : Stall(k)
      PROVE  Goal
  BY <1>3, <1>7
<1>8. Goal
  BY <1>1, <1>2, <1>5, <1>6, <1>7 DEF Next
<1> QED
  BY <1>8 DEF Goal

(* Which rows change their state. *)
LEMMA RowsMove ==
  ASSUME PlaceInv, [Next]_vars, NEW e \in Event
  PROVE  \/ row'[e] = row[e]
         \/ /\ row[e].state = "none" /\ e \in coming /\ e \notin coming'
            /\ row'[e].state = "pending" /\ row'[e].attempts = 0 /\ letters'[e] = letters[e]
         \/ /\ row[e].state # "none" /\ row'[e].state # "none"
            /\ \E w \in Runner : At(w) # "idle" /\ e = Current(w).event /\ Step(w)
            /\ Pending(e)' => Pending(e)
<1>1. ASSUME NEW n \in up, Receive(e, n)
      PROVE  /\ row[e].state = "none" /\ e \in coming /\ e \notin coming'
             /\ row'[e].state = "pending" /\ row'[e].attempts = 0 /\ letters'[e] = letters[e]
  BY <1>1, ReceiveData
<1>2. ASSUME NEW w \in Runner, Step(w), At(w) # "idle", e = Current(w).event
      PROVE  \/ row'[e] = row[e]
             \/ /\ row[e].state # "none" /\ row'[e].state # "none"
                /\ Pending(e)' => Pending(e)
  <2>1. row[e].state # "none"
    BY <1>2, CurrentFacts DEF PlaceInv
  <2>2. \/ row' = row
        \/ row'[e].state \in {"dispatched", "failed", row[e].state}
    <3>1. CASE Mark(w) \/ CloseReplayed(w) \/ Charge(w) \/ CloseFailed(w) \/ RetireEvent(w)
      BY <1>2, <3>1, RowData DEF RowBecomes
    <3>2. CASE Add(w) \/ DispatchInline(w)
      BY <3>2, EnqueueData DEF database
    <3>3. CASE WriteLetter(w) \/ SaveLetter(w) \/ RetireLetters(w) \/ RetireLetter(w)
      BY <3>3, LetterData
    <3>4. CASE ResolveInstance(w) \/ CountLetters(w)
      BY <3>4, OtherData
    <3> QED
      BY <1>2, <3>1, <3>2, <3>3, <3>4 DEF Step, LiveStep, SweepStep, RedriveStep
  <2> QED
    BY <2>1, <2>2 DEF Pending
<1>3. ASSUME NEW k \in Key, ProcessJob(k) \/ SaveJobLetter(k) \/ Stall(k)
      PROVE  row'[e] = row[e]
  BY <1>3, JobData
<1>4. Leaves(e) => row'[e] = row[e]
  BY DEF Leaves
<1> QED
  BY <1>1, <1>2, <1>3, <1>4, EventMoves

(* A runner holds what it held, or begins on something that is stored. *)
LEMMA HoldsMove ==
  ASSUME PlaceInv, [Next]_vars, NEW w \in Runner
  PROVE  \/ Items(w)' \subseteq Items(w) /\ Holds(w)' \subseteq Holds(w)
         \/ /\ At(w) = "idle" /\ Items(w) = {} /\ Holds(w) = {}
            /\ UNCHANGED <<letters, jobs, delivered>>
            /\ \/ \E e \in Event : /\ w = <<"live", e>> /\ \E n \in up : Receive(e, n)
                                   /\ Begins(w, <<NewItem(e)>>)
               \/ /\ \E n \in up : w = <<"sweep", n>> /\ BeginSweep(n)
                  /\ Backlog # {} /\ UNCHANGED row
                  /\ \E q \in Stale : Begins(w, SweepItems(q))
               \/ \E e \in Event :
                    /\ \E n \in up : w = <<"redrive", n>> /\ BeginRedrive(n, e)
                    /\ OpenLetters(e) # {} /\ UNCHANGED row
                    /\ \E q \in Lists(OpenLetters(e), Cardinality(OpenLetters(e))) :
                         Begins(w, RedriveItems(e, q))
<1>t. TypeOK /\ RunTyped /\ up \subseteq Node
  BY TypeParts DEF PlaceInv, DataTyped
<1> DEFINE Less == Items(w)' \subseteq Items(w) /\ Holds(w)' \subseteq Holds(w)
<1>a. run'[w] = run[w] => Less
  BY KeepsFacts
<1>b. (\E v \in Runner : \E at, r : Turns(v, at, r)) => Less
  BY <1>a, TurnsFacts DEF Turns
<1>c. (\E v \in Runner : At(v) # "idle" /\ Passes(v)) => Less
  BY <1>a, <1>t, PassFacts
<1>d. Halts => Less
  BY <1>a, IdleHolds DEF Halts
<1>e. (\E v \in Runner : \E r : At(v) # "idle" /\ Leads(v, r)) => Less
  BY <1>b, <1>c DEF Leads
<1> HIDE DEF Less
<1>1. ASSUME NEW v \in Runner, Step(v) PROVE Less
  <2>1. CASE Add(v) \/ DispatchInline(v)
    BY <2>1, <1>t, <1>b, <1>e, EnqueueSteps
  <2>2. CASE LiveStep(v)
    BY <2>2, <1>t, <1>b, <1>c, LiveSteps DEF LiveStep
  <2>3. CASE SweepStep(v)
    BY <2>3, <1>t, <1>b, <1>c, SweepSteps DEF SweepStep
  <2>4. CASE RedriveStep(v)
    BY <2>4, <1>t, <1>b, <1>c, RedriveSteps DEF RedriveStep
  <2> QED
    BY <1>1, <2>1, <2>2, <2>3, <2>4 DEF Step
<1>2. ASSUME NEW v \in Runner, FailQuery(v) PROVE Less
  <2>1. PICK n \in Node : TRUE
    BY ConstantsAssumption
  <2>2. At(v) # "idle" /\ (Passes(v) \/ (\E at, r : Turns(v, at, r)) \/ Halts)
    BY <1>t, <1>2, <2>1, FaultSteps
  <2> QED
    BY <2>2, <1>b, <1>c, <1>d
<1>3. ASSUME NEW n \in up, Crash(n) PROVE Less
  BY <1>t, <1>3, <1>d, FaultSteps
<1>4. ASSUME \/ \E d \in Event : Toggle(d)
             \/ \E k \in Key : ProcessJob(k) \/ SaveJobLetter(k) \/ Stall(k)
             \/ UNCHANGED vars
      PROVE  Less
  BY <1>4, <1>a DEF Toggle, ProcessJob, SaveJobLetter, Stall, vars
<1>i. At(w) = "idle" => Items(w) = {} /\ Holds(w) = {}
  BY <1>t, WorkTyped
<1>5. ASSUME NEW e \in Event, NEW n \in up, Receive(e, n)
      PROVE  \/ Less
             \/ /\ At(w) = "idle" /\ UNCHANGED <<letters, jobs, delivered>>
                /\ w = <<"live", e>> /\ Begins(w, <<NewItem(e)>>)
  <2>1. n \in Node /\ <<"live", e>> \in Runner
    BY <1>t DEF Runner
  <2>2. Begins(<<"live", e>>, <<NewItem(e)>>) \/ UNCHANGED run
    BY <1>t, <1>5, <2>1, BeginSteps
  <2>3. UNCHANGED <<letters, jobs, delivered>>
    BY <1>5 DEF Receive
  <2>4. At(<<"live", e>>) = "idle"
    <3>1. e \notin Holds(<<"live", e>>)
      BY <1>5, <2>1 DEF Receive, PlaceInv, NewIsUntouched
    <3>2. At(<<"live", e>>) # "idle" => Current(<<"live", e>>).event = e /\ e \in Holds(<<"live", e>>)
      BY <2>1, CurrentFacts DEF PlaceInv
    <3> QED
      BY <3>1, <3>2
  <2>5. w # <<"live", e>> => run'[w] = run[w]
    BY <2>2 DEF Begins
  <2> QED
    BY <1>a, <2>2, <2>3, <2>4, <2>5
<1>6. ASSUME NEW n \in up, BeginSweep(n)
      PROVE  \/ Less
             \/ /\ At(w) = "idle" /\ UNCHANGED <<row, letters, jobs, delivered>>
                /\ w = <<"sweep", n>> /\ Backlog # {} /\ \E q \in Stale : Begins(w, SweepItems(q))
  <2>1. n \in Node /\ <<"sweep", n>> \in Runner /\ Event # {}
    BY <1>t, <1>6 DEF Runner, BeginSweep, Backlog
  <2>2. /\ At(<<"sweep", n>>) = "idle" /\ Backlog # {}
        /\ \E q \in Stale : Begins(<<"sweep", n>>, SweepItems(q))
    BY <1>t, <1>6, <2>1, BeginSteps
  <2>3. UNCHANGED <<row, letters, jobs, delivered>>
    BY <1>6 DEF BeginSweep, database
  <2>4. w # <<"sweep", n>> => run'[w] = run[w]
    BY <2>2 DEF Begins
  <2> QED
    BY <1>a, <2>2, <2>3, <2>4
<1>7. ASSUME NEW n \in up, NEW e \in Event, BeginRedrive(n, e)
      PROVE  \/ Less
             \/ /\ At(w) = "idle" /\ UNCHANGED <<row, letters, jobs, delivered>>
                /\ w = <<"redrive", n>> /\ OpenLetters(e) # {}
                /\ \E q \in Lists(OpenLetters(e), Cardinality(OpenLetters(e))) :
                     Begins(w, RedriveItems(e, q))
  <2>1. n \in Node /\ <<"redrive", n>> \in Runner
    BY <1>t, <1>7 DEF Runner
  <2>2. /\ At(<<"redrive", n>>) = "idle" /\ OpenLetters(e) # {}
        /\ \E q \in Lists(OpenLetters(e), Cardinality(OpenLetters(e))) :
             Begins(<<"redrive", n>>, RedriveItems(e, q))
    BY <1>t, <1>7, <2>1, BeginSteps
  <2>3. UNCHANGED <<row, letters, jobs, delivered>>
    BY <1>7 DEF BeginRedrive, database
  <2>4. w # <<"redrive", n>> => run'[w] = run[w]
    BY <2>2 DEF Begins
  <2> QED
    BY <1>a, <2>2, <2>3, <2>4
<1>8. CASE Less
  BY <1>8 DEF Less
<1>9. CASE ~Less
  <2>1. CASE \E e \in Event, n \in up : Receive(e, n)
    BY <1>9, <1>5, <1>i, <2>1
  <2>2. CASE \E n \in up : BeginSweep(n)
    BY <1>9, <1>6, <1>i, <2>2
  <2>3. CASE \E n \in up, e \in Event : BeginRedrive(n, e)
    BY <1>9, <1>7, <1>i, <2>3
  <2> QED
    BY <1>9, <1>1, <1>2, <1>3, <1>4, <2>1, <2>2, <2>3 DEF Next
<1> QED
  BY <1>8, <1>9

LEMMA BegunHolds ==
  ASSUME TypeOK, NEW w \in Runner
  PROVE  /\ \A e \in Event : Begins(w, <<NewItem(e)>>) => Items(w)' = {NewItem(e)} /\ Holds(w)' = {e}
         /\ \A q \in Stale : Backlog # {} /\ Begins(w, SweepItems(q)) =>
              /\ Holds(w)' \subseteq Backlog
              /\ \A it \in Items(w)' :
                   it.event \in Backlog /\ it.attempts = row[it.event].attempts /\ it.letter = 0
         /\ \A e \in Event : OpenLetters(e) # {} =>
              \A q \in Lists(OpenLetters(e), Cardinality(OpenLetters(e))) :
                Begins(w, RedriveItems(e, q)) =>
                  /\ Holds(w)' \subseteq {e}
                  /\ Len(run'[w].work) = Cardinality(OpenLetters(e))
                  /\ \A it \in Items(w)' :
                       it.event = e /\ it.attempts = 0 /\ it.letter \in OpenLetters(e)
<1>1. ASSUME NEW e \in Event, Begins(w, <<NewItem(e)>>)
      PROVE  Items(w)' = {NewItem(e)} /\ Holds(w)' = {e}
  <2>1. run'[w].work = <<NewItem(e)>>
    BY <1>1 DEF Begins
  <2> QED
    BY <2>1, OneItem DEF Items, Holds
<1>2. ASSUME NEW q \in Stale, Backlog # {}, Begins(w, SweepItems(q))
      PROVE  /\ Holds(w)' \subseteq Backlog
             /\ \A it \in Items(w)' :
                  it.event \in Backlog /\ it.attempts = row[it.event].attempts /\ it.letter = 0
  <2>1. run'[w].work = SweepItems(q)
    BY <1>2 DEF Begins
  <2> QED
    BY <1>2, <2>1, SweepReads DEF Items, Holds
<1>3. ASSUME NEW e \in Event, OpenLetters(e) # {},
             NEW q \in Lists(OpenLetters(e), Cardinality(OpenLetters(e))), Begins(w, RedriveItems(e, q))
      PROVE  /\ Holds(w)' \subseteq {e}
             /\ Len(run'[w].work) = Cardinality(OpenLetters(e))
             /\ \A it \in Items(w)' :
                  it.event = e /\ it.attempts = 0 /\ it.letter \in OpenLetters(e)
  <2>1. run'[w].work = RedriveItems(e, q)
    BY <1>3 DEF Begins
  <2> QED
    BY <1>3, <2>1, RedriveReads DEF Items, Holds
<1> QED
  BY <1>1, <1>2, <1>3

-----------------------------------------------------------------------------
(* Types, places, rows and counts are kept.                                *)

LEMMA TypeInductive ==
  ASSUME PlaceInv, [Next]_vars
  PROVE  TypeOK' /\ RunsArePlaced'
<1>t. TypeOK /\ RunsArePlaced /\ DataTyped /\ up \subseteq Node
  BY TypeParts DEF PlaceInv, DataTyped
<1>1. RunTyped' /\ RunsArePlaced'
  BY <1>t, PlacesInductive
<1>2. DataTyped'
  <2>1. ASSUME NEW e \in Event, NEW n \in up, Receive(e, n) PROVE DataTyped'
    BY <2>1, ReceiveData
  <2>2. ASSUME NEW w \in Runner, Step(w) PROVE DataTyped'
    BY <2>2, StepDataAlways DEF StepData
  <2>3. ASSUME NEW k \in Key, ProcessJob(k) \/ SaveJobLetter(k) \/ Stall(k) PROVE DataTyped'
    BY <2>3, JobData
  <2>4. ASSUME \/ \E n \in up : BeginSweep(n) \/ Crash(n)
               \/ \E n \in up, e \in Event : BeginRedrive(n, e)
               \/ \E w \in Runner : FailQuery(w)
               \/ \E e \in Event : Toggle(e)
        PROVE  DataTyped'
    BY <2>4, ReadData
  <2>5. CASE UNCHANGED vars
    BY <1>t, <2>5 DEF vars, DataTyped, database, world, history
  <2>6. CASE \/ \E n \in up : BeginSweep(n)
             \/ \E n \in up, e \in Event : BeginRedrive(n, e)
             \/ \E w \in Runner : FailQuery(w)
             \/ \E n \in up : Crash(n)
             \/ \E e \in Event : Toggle(e)
    BY <2>4, <2>6
  <2>7. CASE \/ \E k \in Key : ProcessJob(k)
             \/ \E k \in Key : SaveJobLetter(k)
             \/ \E k \in Key : Stall(k)
    BY <2>3, <2>7
  <2> QED
    BY <2>1, <2>2, <2>5, <2>6, <2>7 DEF Next
<1> QED
  BY <1>1, <1>2 DEF TypeOK, RunTyped, DataTyped, At

LEMMA NewInductive ==
  ASSUME PlaceInv, [Next]_vars
  PROVE  NewIsUntouched'
<1>t. TypeOK /\ up \subseteq Node
  BY TypeParts DEF PlaceInv, DataTyped
<1>1. ASSUME NEW e \in coming' PROVE row'[e].state = "none"
  <2>1. e \in Event /\ e \in coming
    <3>1. e \in Event
      BY TypeInductive DEF TypeOK
    <3> QED
      BY <3>1, EventMoves
  <2>2. row[e].state = "none"
    BY <2>1 DEF PlaceInv, NewIsUntouched
  <2> QED
    BY <2>1, <2>2, RowsMove
<1>2. ASSUME NEW e \in Event, row'[e].state = "none"
      PROVE  /\ row'[e].attempts = 0 /\ letters'[e] = <<>>
             /\ \A k \in Key : k[1] = e => jobs'[k].state = "none"
             /\ \A w \in Runner : e \notin Holds(w)'
  <2>1. row'[e] = row[e]
    BY <1>2, RowsMove
  <2>2. /\ row[e].state = "none" /\ row[e].attempts = 0 /\ letters[e] = <<>>
        /\ \A k \in Key : k[1] = e => jobs[k].state = "none"
        /\ \A w \in Runner : e \notin Holds(w)
    BY <1>2, <2>1 DEF PlaceInv, NewIsUntouched
  <2>3. ~\E n \in up : Receive(e, n)
    BY <1>2, ReceiveData
  <2>4. Leaves(e)
    <3>1. \A w \in Runner : At(w) # "idle" => e # Current(w).event
      BY <2>2, CurrentFacts DEF PlaceInv
    <3>2. \A k \in Key : k[1] = e => ~(ProcessJob(k) \/ SaveJobLetter(k) \/ Stall(k))
      BY <1>t, <2>2, JobFacts
    <3> QED
      BY <2>3, <3>1, <3>2, EventMoves
  <2>5. ASSUME NEW w \in Runner PROVE e \notin Holds(w)'
    <3>1. ASSUME NEW d \in Event, Begins(w, <<NewItem(d)>>), NEW n \in up, Receive(d, n)
          PROVE  e \notin Holds(w)'
      BY <1>t, <2>3, <3>1, BegunHolds
    <3>2. ASSUME Backlog # {}, NEW q \in Stale, Begins(w, SweepItems(q)) PROVE e \notin Holds(w)'
      <4>1. e \notin Backlog
        BY <2>2 DEF Backlog, Pending
      <4> QED
        BY <1>t, <3>2, <4>1, BegunHolds
    <3>3. ASSUME NEW d \in Event, OpenLetters(d) # {},
                 NEW q \in Lists(OpenLetters(d), Cardinality(OpenLetters(d))),
                 Begins(w, RedriveItems(d, q))
          PROVE  e \notin Holds(w)'
      <4>1. e # d
        BY <2>2, <3>3 DEF OpenLetters
      <4> QED
        BY <1>t, <3>3, <4>1, BegunHolds
    <3> QED
      BY <2>2, <3>1, <3>2, <3>3, HoldsMove
  <2> QED
    BY <2>1, <2>2, <2>4, <2>5 DEF Leaves
<1> QED
  BY <1>1, <1>2 DEF NewIsUntouched

(* How the state of a runner changes: by its own hand, by a fault, or when *)
(* it begins.                                                              *)
LEMMA RunMoves ==
  ASSUME PlaceInv, [Next]_vars, NEW w \in Runner
  PROVE  \/ run'[w] = run[w]
         \/ Step(w) /\ At(w) # "idle"
         \/ /\ FailQuery(w) /\ At(w) # "idle"
            /\ \/ At(w)' \in {"idle", StartAt(w)}
               \/ w[1] = "live" /\ At(w) = "mark" /\ At(w)' = "letter"
         \/ At(w)' = "idle"
         \/ /\ At(w) = "idle" /\ At(w)' = StartAt(w)
            /\ w[1] = "live" => w[2] \in coming
<1>t. TypeOK /\ RunTyped /\ up \subseteq Node
  BY TypeParts DEF PlaceInv, DataTyped
<1> DEFINE Still == run'[w] = run[w]
           Fails == /\ FailQuery(w) /\ At(w) # "idle"
                    /\ \/ At(w)' \in {"idle", StartAt(w)}
                       \/ w[1] = "live" /\ At(w) = "mark" /\ At(w)' = "letter"
           Begun == At(w) = "idle" /\ At(w)' = StartAt(w) /\ (w[1] = "live" => w[2] \in coming)
<1>1. ASSUME NEW v \in Runner, Step(v) PROVE Still \/ (Step(w) /\ At(w) # "idle")
  <2>1. StepData(v) /\ At(v) # "idle"
    BY <1>1, StepDataAlways
  <2> QED
    BY <1>1, <2>1 DEF StepData
<1>2. ASSUME NEW v \in Runner, FailQuery(v) PROVE Still \/ Fails \/ At(w)' = "idle"
  <2>1. PICK n \in Node : TRUE
    BY ConstantsAssumption
  <2>2. /\ At(v) # "idle"
        /\ \/ Passes(v)
           \/ v[1] = "live" /\ At(v) = "mark" /\ Turns(v, "letter", "failed")
           \/ Halts /\ run' = [run EXCEPT ![v] = Idle]
    BY <1>t, <1>2, <2>1, FaultSteps
  <2>3. CASE v # w
    <3>1. run'[w] = run[w]
      BY <1>t, <2>2, <2>3, PassFacts DEF Turns, RunTyped
    <3> QED
      BY <3>1
  <2>4. CASE v = w
    <3>1. CASE Passes(w)
      BY <1>t, <1>2, <2>2, <2>4, <3>1, PassFacts
    <3>2. CASE w[1] = "live" /\ At(w) = "mark" /\ Turns(w, "letter", "failed")
      BY <1>2, <2>2, <2>4, <3>2, TurnsFacts
    <3>3. CASE run' = [run EXCEPT ![w] = Idle]
      <4>1. run'[w] = Idle
        BY <1>t, <3>3 DEF RunTyped
      <4> QED
        BY <4>1, IdleHolds
    <3> QED
      BY <2>2, <2>4, <3>1, <3>2, <3>3
  <2> QED
    BY <2>3, <2>4
<1>3. ASSUME NEW n \in up, Crash(n) PROVE Still \/ At(w)' = "idle"
  <2>1. run'[w] = run[w] \/ run'[w] = Idle
    BY <1>t, <1>3, FaultSteps
  <2> QED
    BY <2>1, IdleHolds
<1>4. ASSUME \/ \E d \in Event : Toggle(d)
             \/ \E k \in Key : ProcessJob(k) \/ SaveJobLetter(k) \/ Stall(k)
             \/ UNCHANGED vars
      PROVE  Still
  BY <1>4 DEF Toggle, ProcessJob, SaveJobLetter, Stall, vars
<1>5. ASSUME NEW e \in Event, NEW n \in up, Receive(e, n) PROVE Still \/ Begun
  <2>1. n \in Node /\ <<"live", e>> \in Runner
    BY <1>t DEF Runner
  <2>2. (Begins(<<"live", e>>, <<NewItem(e)>>) \/ UNCHANGED run) /\ e \in coming
    BY <1>t, <1>5, <2>1, BeginSteps, ReceiveData
  <2>3. At(<<"live", e>>) = "idle"
    <3>1. e \notin Holds(<<"live", e>>)
      BY <1>5, <2>1 DEF Receive, PlaceInv, NewIsUntouched
    <3>2. At(<<"live", e>>) # "idle" => Current(<<"live", e>>).event = e /\ e \in Holds(<<"live", e>>)
      BY <2>1, CurrentFacts DEF PlaceInv
    <3> QED
      BY <3>1, <3>2
  <2> QED
    BY <2>2, <2>3 DEF Begins, At
<1>6. ASSUME NEW n \in up, BeginSweep(n) PROVE Still \/ Begun
  <2>1. n \in Node /\ <<"sweep", n>> \in Runner /\ Event # {}
    BY <1>t, <1>6 DEF Runner, BeginSweep, Backlog
  <2>2. At(<<"sweep", n>>) = "idle" /\ \E q \in Stale : Begins(<<"sweep", n>>, SweepItems(q))
    BY <1>t, <1>6, <2>1, BeginSteps
  <2> QED
    BY <2>2 DEF Begins, At
<1>7. ASSUME NEW n \in up, NEW e \in Event, BeginRedrive(n, e) PROVE Still \/ Begun
  <2>1. n \in Node /\ <<"redrive", n>> \in Runner
    BY <1>t, <1>7 DEF Runner
  <2>2. /\ At(<<"redrive", n>>) = "idle"
        /\ \E q \in Lists(OpenLetters(e), Cardinality(OpenLetters(e))) :
             Begins(<<"redrive", n>>, RedriveItems(e, q))
    BY <1>t, <1>7, <2>1, BeginSteps
  <2> QED
    BY <2>2 DEF Begins, At
<1> HIDE DEF Still, Fails, Begun
<1>8. Still \/ (Step(w) /\ At(w) # "idle") \/ Fails \/ At(w)' = "idle" \/ Begun
  <2>1. CASE \/ \E k \in Key : ProcessJob(k)
             \/ \E k \in Key : SaveJobLetter(k)
             \/ \E k \in Key : Stall(k)
             \/ \E d \in Event : Toggle(d)
             \/ UNCHANGED vars
    BY <1>4, <2>1
  <2> QED
    BY <1>1, <1>2, <1>3, <1>5, <1>6, <1>7, <2>1 DEF Next
<1> QED
  BY <1>8 DEF Still, Fails, Begun

(* What a runner did at its own hand, by where it was. *)
LEMMA StepsOf ==
  ASSUME RunTyped, NEW w \in Runner, Step(w)
  PROVE  \/ /\ Add(w) /\ At(w) = "add"
            /\ Leads(w, "queued") \/ Turns(w, "dispatch", Result(w))
         \/ /\ DispatchInline(w) /\ At(w) = "dispatch"
            /\ Leads(w, "dispatched") \/ Leads(w, "failed")
         \/ Mark(w) /\ At(w) = "mark" /\ Result(w) = "failed" /\ Turns(w, "letter", "failed")
         \/ Mark(w) /\ At(w) = "mark" /\ Result(w) # "failed" /\ Passes(w)
         \/ WriteLetter(w) /\ At(w) = "letter" /\ Passes(w)
         \/ /\ ResolveInstance(w) /\ At(w) = "resolve"
            /\ Turns(w, "add", Result(w)) \/ Passes(w)
         \/ CloseReplayed(w) /\ At(w) = "close" /\ Turns(w, "retire", Result(w))
         \/ RetireLetters(w) /\ At(w) = "retire" /\ Passes(w)
         \/ Charge(w) /\ At(w) = "charge" /\ Passes(w)
         \/ /\ CountLetters(w) /\ At(w) = "count"
            /\ IF letters[Current(w).event] = <<>>
               THEN Turns(w, "save", Result(w)) ELSE Turns(w, "fail", Result(w))
         \/ SaveLetter(w) /\ At(w) = "save" /\ Turns(w, "fail", Result(w))
         \/ CloseFailed(w) /\ At(w) = "fail" /\ Passes(w)
         \/ RetireEvent(w) /\ At(w) = "retireEvent" /\ Turns(w, "retireLetter", Result(w))
         \/ RetireLetter(w) /\ At(w) = "retireLetter" /\ Passes(w)
<1>1. CASE Add(w) \/ DispatchInline(w)
  BY <1>1, EnqueueSteps
<1>2. CASE LiveStep(w)
  BY <1>2, LiveSteps DEF LiveStep
<1>3. CASE SweepStep(w)
  BY <1>3, SweepSteps DEF SweepStep
<1>4. CASE RedriveStep(w)
  BY <1>4, RedriveSteps DEF RedriveStep
<1> QED
  BY <1>1, <1>2, <1>3, <1>4 DEF Step

(* Who runs what. *)
LEMMA KindOf ==
  ASSUME RunsArePlaced, NEW w \in Runner
  PROVE  /\ At(w) \in {"mark", "letter"} => w[1] = "live"
         /\ At(w) \in {"resolve", "close", "retire", "charge", "count", "save", "fail"} => w[1] = "sweep"
         /\ At(w) \in {"retireEvent", "retireLetter"} => w[1] = "redrive"
  BY RunnerKinds DEF RunsArePlaced, Placed, PlacesOf

(* The live request does not come back to where its failure counts. *)
LEMMA UnmarkedStays ==
  ASSUME PlaceInv, [Next]_vars, NEW e \in Event, Unmarked(e)'
  PROVE  /\ Unmarked(e)
         /\ At(<<"live", e>>) # "mark" \/ ~Step(<<"live", e>>)
<1> DEFINE w == <<"live", e>>
<1>t. TypeOK /\ RunTyped /\ RunsArePlaced
  BY TypeParts DEF PlaceInv
<1>w. w \in Runner /\ w[1] = "live" /\ w[2] = e
  BY DEF Runner
<1> HIDE DEF w
<1>n. e \in coming => At(w) = "idle"
  <2>1. e \in coming => e \notin Holds(w)
    BY <1>w DEF PlaceInv, NewIsUntouched
  <2> QED
    BY <1>w, <2>1, CurrentFacts DEF PlaceInv
<1>s. ASSUME Step(w)
      PROVE  /\ At(w) \in {"mark", "letter"} => At(w)' \notin {"add", "dispatch", "mark"}
             /\ At(w) \in {"add", "dispatch", "mark", "letter"}
  <2>1. At(w) \in {"add", "dispatch", "mark", "letter"}
    <3>1. At(w) # "idle"
      BY <1>w, <1>s, StepDataAlways
    <3> QED
      BY <1>t, <1>w, <3>1 DEF RunsArePlaced, Placed, PlacesOf
  <2>2. Passes(w) => At(w)' = "idle"
    BY <1>t, <1>w, <2>1, PassFacts, CurrentFacts DEF PlaceInv
  <2> QED
    BY <1>t, <1>w, <1>s, <2>1, <2>2, StepsOf, TurnsFacts
<1>1. CASE e \in coming'
  <2>1. e \in coming
    BY <1>1, EventMoves
  <2> QED
    BY <1>n, <1>s, <2>1 DEF Unmarked, w
<1>2. CASE At(w)' \in {"add", "dispatch", "mark"}
  <2>1. CASE run'[w] = run[w]
    <3>1. At(w)' = At(w)
      BY <2>1 DEF At
    <3>2. ~(Step(w) /\ At(w) = "mark")
      BY <1>2, <1>s, <3>1
    <3> QED
      BY <1>2, <3>1, <3>2 DEF Unmarked, w
  <2>2. CASE Step(w)
    BY <1>2, <1>s, <2>2 DEF Unmarked, w
  <2>3. CASE /\ FailQuery(w) /\ At(w) # "idle"
             /\ \/ At(w)' \in {"idle", StartAt(w)}
                \/ w[1] = "live" /\ At(w) = "mark" /\ At(w)' = "letter"
    <3>1. PICK n \in Node : TRUE
      BY ConstantsAssumption
    <3>2. At(w)' \in {"idle", "letter"}
      <4>1. \/ Passes(w)
            \/ Turns(w, "letter", "failed")
            \/ run' = [run EXCEPT ![w] = Idle]
        BY <1>t, <1>w, <2>3, <3>1, FaultSteps
      <4>2. Passes(w) => At(w)' = "idle"
        BY <1>t, <1>w, <2>3, PassFacts, CurrentFacts DEF PlaceInv
      <4>3. run' = [run EXCEPT ![w] = Idle] => At(w)' = "idle"
        <5>1. run' = [run EXCEPT ![w] = Idle] => run'[w] = Idle
          BY <1>t, <1>w DEF RunTyped
        <5> QED
          BY <1>w, <5>1, IdleHolds
      <4> QED
        BY <1>w, <4>1, <4>2, <4>3, TurnsFacts
    <3> QED
      BY <1>2, <3>2
  <2>4. CASE /\ At(w) = "idle" /\ At(w)' = StartAt(w)
             /\ w[1] = "live" => w[2] \in coming
    BY <1>s, <1>w, <2>4 DEF Unmarked, w
  <2> QED
    BY <1>2, <1>w, <2>1, <2>2, <2>3, <2>4, RunMoves
<1> QED
  BY <1>1, <1>2 DEF Unmarked, w

LEMMA AttemptsInductive ==
  ASSUME PlaceInv, [Next]_vars
  PROVE  AttemptsBounded'
<1>t. TypeOK /\ RunTyped /\ RunsArePlaced /\ TypeOK' /\ MaxAttempts \in Nat \ {0}
  BY TypeParts, TypeInductive, ConstantsAssumption DEF PlaceInv
<1>1. ASSUME NEW e \in Event
      PROVE  /\ row'[e].state = "pending" \/ Unmarked(e)' => row'[e].attempts <= MaxAttempts
             /\ row'[e].state = "pending" /\ Unmarked(e)' => row'[e].attempts < MaxAttempts
  <2>b. /\ row[e].attempts \in Nat /\ row'[e].attempts \in Nat
        /\ Pending(e) \/ Unmarked(e) => row[e].attempts <= MaxAttempts
        /\ Pending(e) /\ Unmarked(e) => row[e].attempts < MaxAttempts
    <3>1. \A n \in 0 .. MaxAttempts + 1 : n \in Nat
      BY <1>t
    <3> QED
      BY <1>t, <3>1 DEF PlaceInv, AttemptsBounded, Pending, TypeOK
  <2>u. Unmarked(e)' => Unmarked(e)
    BY UnmarkedStays
  <2>1. CASE row'[e] = row[e]
    BY <2>1, <2>b, <2>u DEF Pending
  <2>2. CASE row'[e].attempts = 0
    BY <1>t, <2>2
  <2>3. ASSUME NEW w \in Runner, At(w) # "idle", e = Current(w).event, Step(w), Pending(e)' => Pending(e)
        PROVE  /\ row'[e].state = "pending" \/ Unmarked(e)' => row'[e].attempts <= MaxAttempts
               /\ row'[e].state = "pending" /\ Unmarked(e)' => row'[e].attempts < MaxAttempts
    <3>1. /\ Current(w).attempts \in Nat /\ Current(w) \in Items(w)
          /\ w[1] = "live" => w[2] = e
      BY <2>3, CurrentFacts DEF PlaceInv
    <3>2. CASE Mark(w) /\ Result(w) = "failed"
      <4>1. row'[e].attempts = row[e].attempts + 1 /\ At(w) = "mark"
        BY <1>t, <2>3, <3>2, RowData, LiveSteps DEF RowBecomes
      <4>2. w = <<"live", e>>
        BY <1>t, <3>1, <4>1, KindOf DEF Runner
      <4>3. Unmarked(e) /\ ~Unmarked(e)'
        BY <2>3, <4>1, <4>2, UnmarkedStays DEF Unmarked
      <4> QED
        BY <1>t, <2>3, <2>b, <4>1, <4>3 DEF Pending
    <3>3. CASE \/ Mark(w) /\ Result(w) # "failed"
               \/ CloseReplayed(w) \/ RetireEvent(w)
      <4>1. row'[e].attempts = row[e].attempts
        BY <2>3, <3>3, RowData DEF RowBecomes
      <4> QED
        BY <2>3, <2>b, <2>u, <4>1 DEF Pending
    <3>4. CASE Charge(w)
      <4>1. row'[e].attempts = Current(w).attempts + 1 /\ At(w) = "charge"
        BY <1>t, <2>3, <3>4, RowData, SweepSteps DEF RowBecomes
      <4>2. Current(w).attempts + 1 < MaxAttempts
        BY <4>1 DEF PlaceInv, AttemptsBounded
      <4> QED
        BY <1>t, <3>1, <4>1, <4>2
    <3>5. CASE CloseFailed(w)
      <4>1. row'[e].attempts = Current(w).attempts + 1 /\ row'[e].state = "failed"
        BY <2>3, <3>5, RowData DEF RowBecomes
      <4>2. Unmarked(e) => Current(w).attempts < MaxAttempts
        BY <2>3, <3>1 DEF PlaceInv, AttemptsBounded
      <4> QED
        BY <1>t, <2>u, <3>1, <4>1, <4>2
    <3>6. CASE ~(Mark(w) \/ CloseReplayed(w) \/ RetireEvent(w) \/ Charge(w) \/ CloseFailed(w))
      <4>1. row' = row
        BY <2>3, <3>6, EnqueueData, LetterData, OtherData
           DEF Step, LiveStep, SweepStep, RedriveStep, database
      <4> QED
        BY <2>1, <4>1
    <3> QED
      BY <3>2, <3>3, <3>4, <3>5, <3>6
  <2> QED
    BY <2>1, <2>2, <2>3, RowsMove
<1>2. ASSUME NEW w \in Runner, NEW it \in Items(w)'
      PROVE  it.attempts <= MaxAttempts /\ (Unmarked(it.event)' => it.attempts < MaxAttempts)
  <2>1. CASE it \in Items(w)
    <3>1. it.event \in Event
      BY <1>t, <2>1, WorkTyped DEF Item
    <3> QED
      BY <2>1, <3>1, UnmarkedStays DEF PlaceInv, AttemptsBounded
  <2>2. CASE it.attempts = 0
    BY <1>t, <2>2
  <2>3. CASE it.event \in Backlog /\ it.attempts = row[it.event].attempts
    BY <1>t, <2>3, UnmarkedStays DEF PlaceInv, AttemptsBounded, Backlog, Pending
  <2>4. ASSUME NEW e \in Event, Begins(w, <<NewItem(e)>>) PROVE it.attempts = 0
    BY <1>t, <2>4, BegunHolds, OneItem
  <2>5. ASSUME NEW q \in Stale, Backlog # {}, Begins(w, SweepItems(q))
        PROVE  it.event \in Backlog /\ it.attempts = row[it.event].attempts
    BY <1>t, <2>5, BegunHolds
  <2>6. ASSUME NEW e \in Event, OpenLetters(e) # {},
               NEW q \in Lists(OpenLetters(e), Cardinality(OpenLetters(e))), Begins(w, RedriveItems(e, q))
        PROVE  it.attempts = 0
    BY <1>t, <2>6, BegunHolds
  <2>7. \/ Items(w)' \subseteq Items(w)
        \/ \E e \in Event : Begins(w, <<NewItem(e)>>)
        \/ Backlog # {} /\ \E q \in Stale : Begins(w, SweepItems(q))
        \/ \E e \in Event :
             /\ OpenLetters(e) # {}
             /\ \E q \in Lists(OpenLetters(e), Cardinality(OpenLetters(e))) : Begins(w, RedriveItems(e, q))
    BY HoldsMove
  <2> QED
    BY <2>1, <2>2, <2>3, <2>4, <2>5, <2>6, <2>7
<1>3. ASSUME NEW w \in Runner, At(w)' = "charge"
      PROVE  Current(w)'.attempts + 1 < MaxAttempts
  <2>1. CASE run'[w] = run[w]
    <3>1. At(w) = "charge" /\ Current(w)' = Current(w)
      BY <1>3, <2>1, KeepsFacts
    <3> QED
      BY <3>1 DEF PlaceInv, AttemptsBounded
  <2>2. CASE Step(w) /\ At(w) # "idle"
    <3>1. Leads(w, "failed") /\ ~Passes(w)
      <4>1. Passes(w) => At(w)' # "charge"
        BY <1>t, <2>2, PassFacts DEF StartAt
      <4>2. \A r : Leads(w, r) => Passes(w) \/ r = "failed" \/ At(w)' # "charge"
        BY TurnsFacts DEF Leads
      <4>3. \A at, r : Turns(w, at, r) => at = "charge"
        BY <1>3, TurnsFacts
      <4> QED
        BY <1>t, <1>3, <2>2, <4>1, <4>2, <4>3, StepsOf
    <3>2. ~(Current(w).attempts + 1 >= MaxAttempts) /\ Current(w)' = Current(w)
      BY <1>3, <3>1, TurnsFacts DEF Leads
    <3>3. Current(w).attempts \in Nat
      BY <2>2, CurrentFacts DEF PlaceInv
    <3> QED
      BY <1>t, <3>2, <3>3
  <2> QED
    BY <1>3, <2>1, <2>2, RunMoves DEF StartAt
<1> QED
  BY <1>1, <1>2, <1>3 DEF AttemptsBounded

LEMMA PlaceInductive ==
  ASSUME PlaceInv, [Next]_vars
  PROVE  PlaceInv'
  BY TypeInductive, NewInductive, AttemptsInductive DEF PlaceInv

LEMMA InitPlaces ==
  ASSUME Init
  PROVE  /\ PlaceInv /\ jobs = [k \in Key |-> NoJob] /\ run = [w \in Runner |-> Idle]
         /\ letters = [e \in Event |-> <<>>] /\ delivered = [e \in Event |-> 0]
<1>1. PICK start \in Starts :
        /\ born = start.stored /\ coming = start.coming /\ up = start.up
        /\ redrives = start.redrives /\ faults = start.faults
        /\ row = [e \in Event |->
                    [state |-> IF \E i \in DOMAIN born : born[i] = e THEN "pending" ELSE "none",
                     attempts |-> 0]]
  BY DEF Init
<1>2. /\ letters = [e \in Event |-> <<>>] /\ jobs = [k \in Key |-> NoJob]
      /\ run = [w \in Runner |-> Idle] /\ enabled = [e \in Event |-> TRUE]
      /\ delivered = [e \in Event |-> 0] /\ disturbed = {}
  BY DEF Init
<1>3. /\ born \in Seq(Event) /\ coming \subseteq Event /\ up \subseteq Node
      /\ redrives \in Nat /\ faults \in Nat
      /\ \A i \in DOMAIN born : born[i] \notin coming
  BY <1>1, ConstantsAssumption DEF Start
<1>4. MaxAttempts \in Nat \ {0}
  BY ConstantsAssumption
<1>5. /\ row \in [Event -> [state: RowStates, attempts: 0 .. MaxAttempts + 1]]
      /\ \A e \in Event : row[e].attempts = 0
      /\ \A e \in coming : row[e].state = "none"
  BY <1>1, <1>3, <1>4 DEF RowStates
<1>6. NoJob \in JobRecord /\ NoJob.state = "none"
  BY DEF NoJob, JobRecord, JobStates
<1>7. /\ run \in [Runner -> RunRecord]
      /\ \A w \in Runner : run[w] = Idle
  BY <1>2, IdleTyped
<1>8. \A w \in Runner : At(w) = "idle" /\ run[w].work = <<>> /\ Items(w) = {} /\ Holds(w) = {}
  BY <1>7, IdleTyped DEF At, Items, Holds
<1>9. TypeOK
  <2>1. letters \in [Event -> Seq({"open", "retired"})]
    <3>1. <<>> \in Seq({"open", "retired"})
      OBVIOUS
    <3> QED
      BY <1>2, <3>1
  <2>2. jobs \in [Key -> JobRecord] /\ enabled \in [Event -> BOOLEAN] /\ delivered \in [Event -> 0 .. 2]
    BY <1>2, <1>6
  <2> QED
    BY <1>2, <1>3, <1>5, <1>7, <1>8, <2>1, <2>2 DEF TypeOK, At
<1>10. RunsArePlaced
  <2>1. \A w \in Runner : At(w) \in PlacesOf(w[1])
    BY <1>8 DEF PlacesOf
  <2>2. \A w \in Runner : Len(run[w].work) = 0 /\ DOMAIN run[w].work = {}
    BY <1>8
  <2> QED
    BY <1>8, <2>1, <2>2 DEF RunsArePlaced, Placed
<1>11. NewIsUntouched
  <2>1. \A k \in Key : jobs[k].state = "none"
    BY <1>2, <1>6
  <2> QED
    BY <1>2, <1>5, <1>8, <2>1 DEF NewIsUntouched
<1>12. AttemptsBounded
  BY <1>4, <1>5, <1>8 DEF AttemptsBounded
<1> QED
  BY <1>2, <1>9, <1>10, <1>11, <1>12 DEF PlaceInv

(* Whatever fails, and whichever of the runners meet on an event, the      *)
(* attempts of a row stay within one of the maximum, and every item a      *)
(* runner is at is one of a row that was stored.                           *)
THEOREM TypeCorrect == Spec => []TypeOK
<1>1. Init => PlaceInv
  BY InitPlaces
<1>2. PlaceInv /\ [Next]_vars => PlaceInv'
  BY PlaceInductive
<1>3. PlaceInv => TypeOK
  BY DEF PlaceInv
<1> QED
  BY <1>1, <1>2, <1>3, PTL DEF Spec

-----------------------------------------------------------------------------
(* Nothing acknowledged is forgotten.                                      *)

(* A job that was added stays, a handling is not undone, and a dead letter *)
(* is never deleted.                                                       *)
LEMMA Lasting ==
  ASSUME PlaceInv, [Next]_vars, NEW e \in Event
  PROVE  /\ \A k \in Key : k[1] = e /\ jobs[k].state # "none" => jobs'[k].state # "none"
         /\ delivered[e] > 0 => delivered'[e] > 0
         /\ letters[e] # <<>> => letters'[e] # <<>>
<1> DEFINE Goal == /\ \A k \in Key : k[1] = e /\ jobs[k].state # "none" => jobs'[k].state # "none"
                   /\ delivered[e] > 0 => delivered'[e] > 0
                   /\ letters[e] # <<>> => letters'[e] # <<>>
<1>t. TypeOK /\ RunTyped
  BY TypeParts DEF PlaceInv
<1>1. Leaves(e) => Goal
  BY DEF Leaves
<1>2. ASSUME NEW n \in up, Receive(e, n) PROVE Goal
  BY <1>2, ReceiveData
<1>3. ASSUME NEW w \in Runner, Step(w), At(w) # "idle", e = Current(w).event PROVE Goal
  <2>1. KeyOf(w) \in Key /\ KeyOf(w)[1] = e
    BY <1>3, CurrentFacts DEF PlaceInv
  <2>2. CASE Add(w)
    <3>1. (jobs' = Added(KeyOf(w)) \/ jobs' = jobs) /\ UNCHANGED <<letters, delivered>>
      BY <2>2 DEF Add, database
    <3> QED
      BY <1>t, <2>1, <3>1, AddedFacts
  <2>3. CASE DispatchInline(w)
    <3>1. (Handled(e) \/ UNCHANGED delivered) /\ UNCHANGED <<letters, jobs>>
      BY <1>3, <2>3 DEF DispatchInline, Dispatched, history, database
    <3> QED
      BY <1>t, <3>1, HandledTyped
  <2>4. CASE WriteLetter(w) \/ SaveLetter(w) \/ RetireLetters(w) \/ RetireLetter(w)
    <3>1. UNCHANGED <<jobs, delivered>>
      BY <2>4, LetterData
    <3>2. \/ letters' = [letters EXCEPT ![e] = Append(@, "open")]
          \/ letters' = [letters EXCEPT ![e] = [i \in DOMAIN @ |-> "retired"]]
          \/ letters' = [letters EXCEPT ![e][Current(w).letter] = "retired"]
      BY <1>3, <2>4 DEF WriteLetter, SaveLetter, RetireLetters, RetireLetter
    <3>3. letters'[e] # <<>> \/ Len(letters'[e]) = Len(letters[e])
      BY <1>t, <3>2, LetterAdded, LetterRetired, LettersRetired
    <3>4. letters[e] # <<>> => Len(letters[e]) # 0
      BY <1>t, LettersTyped, EmptySeq
    <3> QED
      BY <3>1, <3>3, <3>4
  <2>5. CASE ~(Add(w) \/ DispatchInline(w) \/ WriteLetter(w) \/ SaveLetter(w) \/ RetireLetters(w) \/ RetireLetter(w))
    <3>1. UNCHANGED <<letters, jobs, delivered>>
      BY <1>3, <2>5, RowData, OtherData DEF Step, LiveStep, SweepStep, RedriveStep, RowBecomes
    <3> QED
      BY <3>1
  <2> QED
    BY <2>2, <2>3, <2>4, <2>5
<1>4. ASSUME NEW k \in Key, k[1] = e, ProcessJob(k) \/ SaveJobLetter(k) \/ Stall(k) PROVE Goal
  <2>1. /\ \A i \in Key : i # k => jobs'[i] = jobs[i]
        /\ jobs'[k].state \in {"waiting", "saving", "done", "failed"}
    BY <1>t, <1>4, JobFacts
  <2>2. delivered[e] > 0 => delivered'[e] > 0
    <3>1. Handled(e) \/ UNCHANGED delivered
      BY <1>t, <1>4, JobFacts DEF history, SaveJobLetter, Stall
    <3> QED
      BY <1>t, <3>1, HandledTyped
  <2>3. letters[e] # <<>> => letters'[e] # <<>>
    <3>1. UNCHANGED letters \/ letters' = [letters EXCEPT ![e] = Append(@, "open")]
      BY <1>4 DEF ProcessJob, SaveJobLetter, Stall, database
    <3> QED
      BY <1>t, <3>1, LetterAdded
  <2> QED
    BY <2>1, <2>2, <2>3
<1> HIDE DEF Goal
<1>5. Goal
  BY <1>1, <1>2, <1>3, <1>4, EventMoves
<1> QED
  BY <1>5 DEF Goal

LEMMA ResultsInductive ==
  ASSUME LossInv, [Next]_vars
  PROVE  ResultsHold'
<1>t. PlaceInv /\ TypeOK /\ RunTyped /\ RunsArePlaced
  BY TypeParts DEF LossInv, PlaceInv
<1> SUFFICES ASSUME NEW w \in Runner, Succeeded(w)'
             PROVE  \/ Result(w)' = "queued" /\ (jobs[KeyOf(w)].state)' # "none"
                    \/ Result(w)' = "dispatched" /\ (delivered[Current(w).event])' > 0
  BY DEF ResultsHold
<1>0. /\ At(w)' \in {"mark", "close", "retire", "retireEvent", "retireLetter"}
      /\ At(w)' = "mark" => Result(w)' # "failed"
  BY DEF Succeeded
(* Two ways to be there: to have been, or to come from enqueue(). *)
<1>1. ASSUME At(w) # "idle", Succeeded(w), Result(w)' = Result(w),
             Current(w)' = Current(w), KeyOf(w)' = KeyOf(w)
      PROVE  \/ Result(w)' = "queued" /\ (jobs[KeyOf(w)].state)' # "none"
             \/ Result(w)' = "dispatched" /\ (delivered[Current(w).event])' > 0
  <2>1. /\ Current(w).event \in Event /\ KeyOf(w) \in Key /\ KeyOf(w)[1] = Current(w).event
    BY <1>t, <1>1, CurrentFacts DEF PlaceInv
  <2>2. \/ Result(w) = "queued" /\ jobs[KeyOf(w)].state # "none"
        \/ Result(w) = "dispatched" /\ delivered[Current(w).event] > 0
    BY <1>1 DEF LossInv, ResultsHold
  <2>3. jobs[KeyOf(w)].state # "none" => jobs'[KeyOf(w)].state # "none"
    BY <1>t, <2>1, Lasting
  <2>4. delivered[Current(w).event] > 0 => delivered'[Current(w).event] > 0
    BY <1>t, <2>1, Lasting
  <2> QED
    BY <1>1, <2>2, <2>3, <2>4
<1>2. CASE run'[w] = run[w]
  <2>1. /\ At(w)' = At(w) /\ Result(w)' = Result(w) /\ Current(w)' = Current(w) /\ KeyOf(w)' = KeyOf(w)
    BY <1>2, KeepsFacts
  <2>2. At(w) # "idle" /\ Succeeded(w)
    BY <1>0, <2>1 DEF Succeeded
  <2> QED
    BY <1>1, <2>1, <2>2
<1>3. CASE Step(w) /\ At(w) # "idle"
  <2>1. Passes(w) => At(w)' \in {"idle", "add", "resolve"}
    BY <1>t, <1>3, PassFacts DEF StartAt
  <2>2. ASSUME Add(w), Leads(w, "queued") PROVE Result(w)' = "queued" /\ (jobs[KeyOf(w)].state)' # "none"
    <3>1. /\ Result(w)' = "queued" /\ KeyOf(w)' = KeyOf(w)
      BY <1>0, <2>1, <2>2, TurnsFacts DEF Leads
    <3>2. jobs' = Added(KeyOf(w)) \/ At(w)' = "dispatch"
      BY <1>t, <2>2, EnqueueSteps, TurnsFacts
    <3>3. KeyOf(w) \in Key
      BY <1>t, <1>3, CurrentFacts DEF PlaceInv
    <3> QED
      BY <1>0, <1>t, <3>1, <3>2, <3>3, AddedFacts
  <2>3. ASSUME DispatchInline(w), Leads(w, "dispatched") \/ Leads(w, "failed")
        PROVE  Result(w)' = "dispatched" /\ (delivered[Current(w).event])' > 0
    <3>1. ~Leads(w, "failed")
      BY <1>0, <2>1, TurnsFacts DEF Leads
    <3>2. Handled(Current(w).event)
      BY <1>t, <2>3, <3>1, EnqueueSteps
    <3>3. Result(w)' = "dispatched" /\ Current(w)' = Current(w)
      BY <1>0, <2>1, <2>3, <3>1, TurnsFacts DEF Leads
    <3>4. Current(w).event \in Event
      BY <1>t, <1>3, CurrentFacts DEF PlaceInv
    <3> QED
      BY <1>t, <3>2, <3>3, <3>4, HandledTyped
  <2>4. ASSUME At(w) \in {"close", "retireEvent"}, Turns(w, "retire", Result(w)) \/ Turns(w, "retireLetter", Result(w))
        PROVE  \/ Result(w)' = "queued" /\ (jobs[KeyOf(w)].state)' # "none"
               \/ Result(w)' = "dispatched" /\ (delivered[Current(w).event])' > 0
    BY <1>1, <2>4, TurnsFacts DEF Succeeded
  <2>5. \/ Add(w) /\ Leads(w, "queued")
        \/ DispatchInline(w) /\ (Leads(w, "dispatched") \/ Leads(w, "failed"))
        \/ At(w) \in {"close", "retireEvent"} /\ (Turns(w, "retire", Result(w)) \/ Turns(w, "retireLetter", Result(w)))
    <3>1. \A at, r : Turns(w, at, r) => at \in {"mark", "close", "retire", "retireEvent", "retireLetter"}
      BY <1>0, TurnsFacts
    <3>2. ~Passes(w)
      BY <1>0, <2>1
    <3> QED
      BY <1>t, <1>3, <3>1, <3>2, StepsOf
  <2> QED
    BY <2>2, <2>3, <2>4, <2>5
<1> QED
  BY <1>0, <1>2, <1>3, <1>t, RunMoves DEF StartAt

LEMMA DoneInductive ==
  ASSUME LossInv, [Next]_vars
  PROVE  DoneIsDelivered'
<1>t. PlaceInv /\ TypeOK
  BY DEF LossInv, PlaceInv
<1> SUFFICES ASSUME NEW k \in Key, jobs'[k].state = "done"
             PROVE  delivered'[k[1]] > 0
  BY DEF DoneIsDelivered
<1>k. k[1] \in Event
  BY DEF Key
<1>1. CASE jobs[k].state = "done"
  BY <1>1, <1>k, <1>t, Lasting DEF LossInv, DoneIsDelivered
<1>2. CASE jobs[k].state # "done"
  <2>1. ~Leaves(k[1])
    BY <1>2 DEF Leaves
  <2>2. ASSUME NEW w \in Runner, Step(w), At(w) # "idle" PROVE FALSE
    <3>1. KeyOf(w) \in Key
      BY <1>t, <2>2, CurrentFacts DEF PlaceInv
    <3>2. jobs' = Added(KeyOf(w)) \/ jobs' = jobs
      <4>1. CASE Add(w)
        BY <4>1 DEF Add
      <4>2. CASE ~Add(w)
        BY <1>t, <2>2, <4>2, RowData, LetterData, OtherData
           DEF Step, LiveStep, SweepStep, RedriveStep, DispatchInline, RowBecomes
      <4> QED
        BY <4>1, <4>2
    <3> QED
      BY <1>2, <1>t, <3>1, <3>2, AddedFacts
  <2>3. ASSUME NEW i \in Key, ProcessJob(i) \/ SaveJobLetter(i) \/ Stall(i) PROVE delivered'[k[1]] > 0
    <3>1. i = k
      BY <1>2, <1>t, <2>3, JobFacts
    <3>2. Handled(k[1])
      BY <1>t, <2>3, <3>1, JobFacts
    <3> QED
      BY <1>t, <1>k, <3>2, HandledTyped
  <2>4. \A n \in up : ~Receive(k[1], n)
    BY <1>2, <1>k, <1>t, ReceiveData
  <2> QED
    BY <1>k, <1>t, <2>1, <2>2, <2>3, <2>4, EventMoves
<1> QED
  BY <1>1, <1>2

LEMMA LettersInductive ==
  ASSUME LossInv, [Next]_vars
  PROVE  PendingKeepsLetters' /\ RetiredIsClosed' /\ FailedHasLetter'
<1>t. PlaceInv /\ TypeOK /\ RunTyped /\ RunsArePlaced
  BY TypeParts DEF LossInv, PlaceInv
<1>p. ASSUME NEW w \in Runner, At(w) # "idle", NEW e, e = Current(w).event, Pending(e)'
      PROVE  e \in Event /\ Pending(e)
  <2>1. e \in Event /\ row[e].state # "none"
    BY <1>t, <1>p, CurrentFacts DEF PlaceInv
  <2> QED
    BY <1>t, <1>p, <2>1, RowsMove DEF Pending
<1>1. ASSUME NEW e \in Event, Pending(e)', NEW i \in DOMAIN letters'[e]
      PROVE  letters'[e][i] = "open"
  <2>1. CASE row[e].state = "none"
    <3>1. letters'[e] = letters[e]
      BY <1>1, <1>t, <2>1, RowsMove DEF Pending
    <3>2. letters[e] = <<>>
      BY <1>t, <2>1 DEF PlaceInv, NewIsUntouched
    <3> QED
      BY <1>1, <3>1, <3>2
  <2>2. CASE row[e].state # "none"
    <3>1. Pending(e) /\ \A j \in DOMAIN letters[e] : letters[e][j] = "open"
      <4>1. Pending(e)
        BY <1>1, <1>t, <2>2, RowsMove DEF Pending
      <4> QED
        BY <4>1 DEF LossInv, PendingKeepsLetters
    <3>2. letters' = [letters EXCEPT ![e] = Append(@, "open")] => letters'[e][i] = "open"
      BY <1>1, <1>t, <3>1, LetterAdded
    <3>3. ASSUME NEW w \in Runner, Step(w), At(w) # "idle", e = Current(w).event
          PROVE  letters'[e] = letters[e] \/ letters' = [letters EXCEPT ![e] = Append(@, "open")]
      <4>1. ~RetireLetters(w) /\ ~RetireLetter(w)
        <5>1. At(w) \notin {"retire", "retireLetter"}
          BY <3>1, <3>3 DEF LossInv, RetiredIsClosed
        <5> QED
          BY <5>1 DEF RetireLetters, RetireLetter, At
      <4>2. CASE WriteLetter(w) \/ SaveLetter(w)
        BY <3>3, <4>2 DEF WriteLetter, SaveLetter
      <4>3. CASE ~(WriteLetter(w) \/ SaveLetter(w))
        BY <1>t, <3>3, <4>1, <4>3, RowData, OtherData, EnqueueData
           DEF Step, LiveStep, SweepStep, RedriveStep, RowBecomes, database
      <4> QED
        BY <4>2, <4>3
    <3>4. ASSUME NEW k \in Key, k[1] = e, ProcessJob(k) \/ SaveJobLetter(k) \/ Stall(k)
          PROVE  letters'[e] = letters[e] \/ letters' = [letters EXCEPT ![e] = Append(@, "open")]
      BY <3>4 DEF ProcessJob, SaveJobLetter, Stall, database
    <3>5. (\E n \in up : Receive(e, n)) \/ Leaves(e) => letters'[e] = letters[e]
      BY <1>t, ReceiveData DEF Leaves
    <3>6. letters'[e] = letters[e] \/ letters' = [letters EXCEPT ![e] = Append(@, "open")]
      BY <1>t, <3>3, <3>4, <3>5, EventMoves
    <3> QED
      BY <1>1, <3>1, <3>2, <3>6
  <2> QED
    BY <2>1, <2>2
<1>2. ASSUME NEW w \in Runner, At(w)' \in {"retire", "retireLetter"}
      PROVE  ~Pending(Current(w).event)'
  <2>1. CASE run'[w] = run[w]
    <3>1. At(w) = At(w)' /\ Current(w)' = Current(w)
      BY <2>1, KeepsFacts
    <3>2. ~Pending(Current(w).event)
      BY <1>2, <3>1 DEF LossInv, RetiredIsClosed
    <3> DEFINE e == Current(w).event
    <3>3. ~Pending(e)'
      BY <1>2, <1>p, <3>1, <3>2
    <3> QED
      BY <3>1, <3>3 DEF Pending
  <2>2. CASE Step(w) /\ At(w) # "idle"
    <3>1. /\ CloseReplayed(w) \/ RetireEvent(w)
          /\ Current(w)' = Current(w)
      <4>1. Passes(w) => At(w)' \in {"idle", "add", "resolve"}
        BY <1>t, <2>2, PassFacts DEF StartAt
      <4>2. \A at, r : Turns(w, at, r) => at \in {"retire", "retireLetter"} /\ Current(w)' = Current(w)
        BY <1>2, TurnsFacts
      <4>3. \A r : ~Leads(w, r)
        BY <1>2, <4>1, <4>2 DEF Leads
      <4> QED
        BY <1>2, <1>t, <2>2, <4>1, <4>2, <4>3, StepsOf
    <3>2. row'[Current(w).event].state # "pending"
      BY <1>t, <3>1, RowData DEF RowBecomes, Pending
    <3> QED
      BY <3>1, <3>2 DEF Pending
  <2> QED
    BY <1>2, <1>t, <2>1, <2>2, RunMoves DEF StartAt
<1>3. ASSUME NEW w \in Runner, At(w)' = "fail"
      PROVE  (letters[Current(w).event])' # <<>>
  <2>1. CASE run'[w] = run[w]
    <3>1. At(w) = "fail" /\ Current(w)' = Current(w)
      BY <1>3, <2>1, KeepsFacts
    <3>2. letters[Current(w).event] # <<>> /\ Current(w).event \in Event
      BY <1>t, <3>1, CurrentFacts DEF LossInv, FailedHasLetter, PlaceInv
    <3> QED
      BY <1>t, <3>1, <3>2, Lasting
  <2>2. CASE Step(w) /\ At(w) # "idle"
    <3>1. /\ \/ SaveLetter(w)
             \/ CountLetters(w) /\ letters[Current(w).event] # <<>>
          /\ Current(w)' = Current(w)
      <4>1. Passes(w) => At(w)' \in {"idle", "add", "resolve"}
        BY <1>t, <2>2, PassFacts DEF StartAt
      <4>2. \A at, r : Turns(w, at, r) => at = "fail" /\ Current(w)' = Current(w)
        BY <1>3, TurnsFacts
      <4>3. \A r : ~Leads(w, r)
        BY <1>3, <4>1, <4>2 DEF Leads
      <4> QED
        BY <1>3, <1>t, <2>2, <4>1, <4>2, <4>3, StepsOf
    <3>2. Current(w).event \in Event
      BY <1>t, <2>2, CurrentFacts DEF PlaceInv
    <3>3. CASE SaveLetter(w)
      <4>1. letters' = [letters EXCEPT ![Current(w).event] = Append(@, "open")]
        BY <3>3 DEF SaveLetter
      <4> QED
        BY <1>t, <3>1, <3>2, <4>1, LetterAdded
    <3>4. CASE CountLetters(w) /\ letters[Current(w).event] # <<>>
      BY <1>t, <3>1, <3>4, OtherData
    <3> QED
      BY <3>1, <3>3, <3>4
  <2> QED
    BY <1>3, <1>t, <2>1, <2>2, RunMoves DEF StartAt
<1> QED
  BY <1>1, <1>2, <1>3 DEF PendingKeepsLetters, RetiredIsClosed, FailedHasLetter, Pending

LEMMA LossInductive ==
  ASSUME LossInv, [Next]_vars
  PROVE  LossInv'
  BY PlaceInductive, ResultsInductive, DoneInductive, LettersInductive DEF LossInv

LEMMA InitLoss == ASSUME Init PROVE LossInv
<1>1. \A w \in Runner : At(w) = "idle"
  BY InitPlaces, IdleTyped DEF At
<1>2. \A k \in Key : jobs[k].state = "none"
  BY InitPlaces DEF NoJob
<1>3. \A e \in Event : letters[e] = <<>>
  BY InitPlaces
<1> QED
  BY <1>1, <1>2, <1>3, InitPlaces
     DEF LossInv, ResultsHold, Succeeded, DoneIsDelivered, PendingKeepsLetters, RetiredIsClosed, FailedHasLetter

(* What a runner that retires something relies on, in terms of LossIsKnown. *)
LEMMA ReliedOn ==
  ASSUME LossInv, NEW w \in Runner, At(w) # "idle", Succeeded(w), At(w)' # At(w)
  PROVE  \/ Carried(Current(w).event) \/ delivered[Current(w).event] > 0
         \/ Misled(Current(w).event)
<1>t. PlaceInv /\ TypeOK
  BY DEF LossInv, PlaceInv
<1>1. KeyOf(w) \in Key /\ KeyOf(w)[1] = Current(w).event
  BY <1>t, CurrentFacts DEF PlaceInv
<1>2. CASE Result(w) = "queued" /\ jobs[KeyOf(w)].state # "none"
  <2>1. jobs[KeyOf(w)].state \in {"waiting", "saving", "done", "failed"}
    BY <1>1, <1>2, <1>t DEF TypeOK, JobRecord, JobStates
  <2>2. CASE jobs[KeyOf(w)].state \in {"waiting", "saving"}
    BY <1>1, <2>2 DEF Carried
  <2>3. CASE jobs[KeyOf(w)].state = "done"
    BY <1>1, <2>3 DEF LossInv, DoneIsDelivered
  <2>4. CASE jobs[KeyOf(w)].state = "failed"
    <3>1. run'[w] # run[w]
      BY DEF At
    <3> QED
      BY <1>2, <2>4, <3>1 DEF Misled, Result
  <2> QED
    BY <2>1, <2>2, <2>3, <2>4
<1> QED
  BY <1>2 DEF LossInv, ResultsHold

LEMMA KnownKeeps ==
  ASSUME LossInv, NEW e \in Event
  PROVE  /\ Leaves(e) /\ Known(e) => Known(e)'
         /\ letters'[e] = letters[e] => OpenLetters(e)' = OpenLetters(e)
  BY DEF Leaves, Known, Carried, OpenLetters

(* No step loses an event. *)
LEMMA LossStep ==
  ASSUME LossInv, [Next]_vars, NEW e \in Event, Known(e)
  PROVE  Known(e)' \/ Unrecorded(e) \/ Misled(e)
<1>t. PlaceInv /\ TypeOK /\ RunTyped /\ RunsArePlaced
  BY TypeParts DEF LossInv, PlaceInv
<1>l. letters'[e] = letters[e] => OpenLetters(e)' = OpenLetters(e)
  BY KnownKeeps
<1>a. letters' = [letters EXCEPT ![e] = Append(@, "open")] => Known(e)'
  <2>1. letters' = [letters EXCEPT ![e] = Append(@, "open")] => OpenLetters(e)' # {}
    BY <1>t, LetterAdded
  <2> QED
    BY <2>1 DEF Known
<1>d. delivered[e] > 0 => Known(e)'
  BY <1>t, Lasting DEF Known
<1>1. ASSUME NEW n \in up, Receive(e, n) PROVE Known(e)'
  BY <1>1, <1>t, ReceiveData DEF Known
<1>2. ASSUME NEW k \in Key, k[1] = e, ProcessJob(k) \/ SaveJobLetter(k) \/ Stall(k)
      PROVE  Known(e)' \/ Unrecorded(e)
  <2>1. CASE jobs'[k].state \in {"waiting", "saving"}
    BY <1>2, <2>1 DEF Known, Carried
  <2>2. CASE ProcessJob(k) /\ jobs'[k].state = "done"
    <3>1. Handled(e)
      BY <1>t, <1>2, <2>2, JobFacts
    <3> QED
      BY <1>t, <3>1, HandledTyped DEF Known
  <2>3. CASE jobs'[k].state = "failed" /\ jobs[k].state # "failed"
    <3>1. letters'[e] = letters[e] => Unrecorded(e)
      BY <1>2, <2>3 DEF Unrecorded
    <3>2. UNCHANGED letters \/ letters' = [letters EXCEPT ![e] = Append(@, "open")]
      BY <1>2 DEF ProcessJob, SaveJobLetter, Stall, database
    <3> QED
      BY <1>a, <3>1, <3>2
  <2> QED
    BY <1>2, <1>t, <2>1, <2>2, <2>3, JobFacts
<1>3. ASSUME NEW w \in Runner, Step(w), At(w) # "idle", e = Current(w).event
      PROVE  Known(e)' \/ Misled(e)
  <2>k. KeyOf(w) \in Key /\ KeyOf(w)[1] = e
    BY <1>t, <1>3, CurrentFacts DEF PlaceInv
  <2>p. Passes(w) => At(w)' \in {"idle", "add", "resolve"}
    BY <1>t, <1>3, PassFacts DEF StartAt
  (* Retiring, on the strength of what enqueue() said. *)
  <2>s. ASSUME Succeeded(w), At(w)' # At(w), UNCHANGED jobs
        PROVE  Known(e)' \/ Misled(e)
    <3>1. Carried(e) => Known(e)'
      BY <2>s DEF Known, Carried
    <3> QED
      BY <1>d, <1>3, <2>s, <3>1, ReliedOn
  (* Not retiring. *)
  <2>n. ASSUME row'[e].state = row[e].state, letters'[e] = letters[e], UNCHANGED jobs
        PROVE  Known(e)'
    <3>1. OpenLetters(e)' = OpenLetters(e)
      BY <1>l, <2>n
    <3> QED
      BY <1>d, <2>n, <3>1 DEF Known, Carried
  <2>1. CASE Add(w)
    <3>1. (jobs' = Added(KeyOf(w)) \/ jobs' = jobs) /\ UNCHANGED <<row, letters, delivered>>
      BY <2>1 DEF Add, database
    <3>2. Carried(e) => Carried(e)'
      <4>1. \A k \in Key : jobs[k].state # "none" => jobs'[k] = jobs[k]
        BY <1>t, <2>k, <3>1, AddedFacts
      <4> QED
        BY <4>1 DEF Carried
    <3> QED
      BY <1>l, <3>1, <3>2 DEF Known
  <2>2. CASE DispatchInline(w)
    BY <2>2, <2>n DEF DispatchInline, database
  <2>3. CASE Mark(w)
    <3>1. CASE Result(w) = "failed"
      <4>1. row'[e].state = row[e].state /\ UNCHANGED <<letters, jobs>>
        BY <1>3, <1>t, <2>3, <3>1, RowData DEF RowBecomes
      <4> QED
        BY <2>n, <4>1
    <3>2. CASE Result(w) # "failed"
      <4>1. At(w) = "mark" /\ Passes(w) /\ UNCHANGED jobs
        BY <1>t, <2>3, <3>2, LiveSteps DEF Mark
      <4> QED
        BY <2>p, <2>s, <3>2, <4>1 DEF Succeeded
    <3> QED
      BY <3>1, <3>2
  <2>4. CASE CloseReplayed(w) \/ RetireEvent(w)
    <3>1. /\ At(w) \in {"close", "retireEvent"} /\ At(w)' \in {"retire", "retireLetter"}
          /\ UNCHANGED jobs
      BY <1>t, <2>4, SweepSteps, RedriveSteps, TurnsFacts DEF CloseReplayed, RetireEvent
    <3> QED
      BY <2>s, <3>1 DEF Succeeded
  <2>5. CASE RetireLetters(w) \/ RetireLetter(w)
    <3>1. At(w) \in {"retire", "retireLetter"} /\ Passes(w) /\ UNCHANGED jobs
      BY <1>t, <2>5, SweepSteps, RedriveSteps DEF RetireLetters, RetireLetter
    <3> QED
      BY <2>p, <2>s, <3>1 DEF Succeeded
  <2>6. CASE WriteLetter(w) \/ SaveLetter(w)
    BY <1>a, <1>3, <2>6 DEF WriteLetter, SaveLetter
  <2>7. CASE Charge(w)
    <3>1. row'[e].state = row[e].state /\ UNCHANGED <<letters, jobs>>
      BY <1>3, <1>t, <2>7, RowData DEF RowBecomes
    <3> QED
      BY <2>n, <3>1
  <2>8. CASE CloseFailed(w)
    <3>1. UNCHANGED <<letters, jobs>>
      BY <2>8 DEF CloseFailed
    <3>2. CASE Pending(e)
      <4>1. At(w) = "fail"
        BY <2>8 DEF CloseFailed, At
      <4>2. letters[e] # <<>> /\ \A i \in DOMAIN letters[e] : letters[e][i] = "open"
        BY <1>3, <3>2, <4>1 DEF LossInv, FailedHasLetter, PendingKeepsLetters
      <4>3. DOMAIN letters[e] # {}
        <5>1. Len(letters[e]) \in Nat /\ DOMAIN letters[e] = 1 .. Len(letters[e]) /\ Len(letters[e]) # 0
          BY <1>t, <4>2, LettersTyped, EmptySeq
        <5>2. \A n \in Nat : n # 0 => 1 \in 1 .. n
          OBVIOUS
        <5> QED
          BY <5>1, <5>2
      <4>4. OpenLetters(e) # {}
        BY <4>2, <4>3 DEF OpenLetters
      <4> QED
        BY <1>l, <3>1, <4>4 DEF Known
    <3>3. CASE ~Pending(e)
      <4>1. row[e].state # "none"
        BY <1>t, <1>3, CurrentFacts DEF PlaceInv
      <4>2. Carried(e) \/ OpenLetters(e) # {} \/ delivered[e] > 0
        BY <3>3, <4>1 DEF Known, Pending
      <4> QED
        BY <1>d, <1>l, <3>1, <4>2 DEF Known, Carried
    <3> QED
      BY <3>2, <3>3
  <2>9. CASE ResolveInstance(w) \/ CountLetters(w)
    BY <1>t, <2>9, <2>n, OtherData
  <2> QED
    BY <1>3, <2>1, <2>2, <2>3, <2>4, <2>5, <2>6, <2>7, <2>8, <2>9
       DEF Step, LiveStep, SweepStep, RedriveStep
<1> QED
  BY <1>1, <1>2, <1>3, <1>t, EventMoves, KnownKeeps

(* No request, replay, redrive, worker or crash, in any order, makes the   *)
(* gateway forget an event it acknowledged: what closes a row or retires   *)
(* its dead letters relies on a job or on a handling.  The two exceptions  *)
(* are a failed job whose dead letter could not be written, and a job that *)
(* had failed and was taken for the delivery.                              *)
THEOREM LossIsKnownAlways == Spec => LossIsKnown
<1>1. Init => LossInv
  BY InitLoss
<1>2. LossInv /\ [Next]_vars => LossInv'
  BY LossInductive
<1>3. LossInv /\ [Next]_vars =>
        [\A e \in Event : Known(e) => Known(e)' \/ Unrecorded(e) \/ Misled(e)]_vars
  BY LossStep
<1> QED
  BY <1>1, <1>2, <1>3, PTL DEF Spec, LossIsKnown

-----------------------------------------------------------------------------
(* Nothing undisturbed is handled twice.                                   *)

LEMMA LeavesFacts ==
  ASSUME NEW e \in Event, Leaves(e)
  PROVE  /\ OpenLetters(e)' = OpenLetters(e) /\ Carriers(e)' = Carriers(e)
         /\ delivered'[e] = delivered[e] /\ row'[e] = row[e] /\ letters'[e] = letters[e]
         /\ Fresh(e)' <=> Fresh(e)
         /\ Blank(e)' <=> Blank(e)
         /\ Rests(e)' <=> Rests(e)
<1>1. /\ OpenLetters(e)' = OpenLetters(e) /\ Carriers(e)' = Carriers(e)
      /\ delivered'[e] = delivered[e] /\ row'[e] = row[e] /\ letters'[e] = letters[e]
  BY DEF Leaves, OpenLetters, Carriers
<1>2. Fresh(e)' <=> Fresh(e)
  BY <1>1 DEF Fresh, Leaves
<1>3. Blank(e)' <=> Blank(e)
  BY <1>1, <1>2 DEF Blank
<1>4. Rests(e)' <=> Rests(e)
  BY <1>1, <1>2 DEF Rests, OneWay
<1> QED
  BY <1>1, <1>2, <1>3, <1>4

LEMMA CountsKeep ==
  ASSUME NEW e \in Event, NEW w \in Runner, Leaves(e), run'[w] = run[w]
  PROVE  Counts(w, e)' <=> Counts(w, e)
<1>1. At(w)' = At(w) /\ Result(w)' = Result(w) /\ Current(w)' = Current(w)
  BY KeepsFacts
<1>2. /\ OpenLetters(e)' = OpenLetters(e) /\ Carriers(e)' = Carriers(e)
      /\ delivered'[e] = delivered[e] /\ row'[e] = row[e] /\ letters'[e] = letters[e]
      /\ Fresh(e)' <=> Fresh(e)
      /\ Blank(e)' <=> Blank(e)
  BY LeavesFacts
<1>3. LiveCounts(w, e)' <=> LiveCounts(w, e)
  BY <1>1, <1>2 DEF LiveCounts, OneWay
<1>4. SweepCounts(w, e)' <=> SweepCounts(w, e)
  BY <1>1, <1>2 DEF SweepCounts, OneWay
<1>5. RedriveCounts(w, e)' <=> RedriveCounts(w, e)
  BY <1>1, <1>2 DEF RedriveCounts, OneWay, Pending
<1> QED
  BY <1>3, <1>4, <1>5 DEF Counts

(* An event nobody touches, and whose holder goes on holding it. *)
LEMMA Unmoved ==
  ASSUME NEW e \in Event, Leaves(e), Sound(e),
         \A w \in Runner :
           \/ run'[w] = run[w]
           \/ e \notin Holds(w) /\ e \notin Holds(w)'
           \/ e \in Holds(w) /\ e \in Holds(w)' /\ Counts(w, e)'
  PROVE  Sound(e)'
<1>1. \A w \in Runner : e \in Holds(w)' <=> e \in Holds(w)
  BY KeepsFacts
<1>2. ASSUME NEW w \in Runner, e \in Holds(w)' PROVE Counts(w, e)'
  BY <1>1, <1>2, CountsKeep DEF Sound
<1>3. Alone(e)' /\ (~Held(e)' => Rests(e)')
  BY <1>1, LeavesFacts DEF Sound, Alone, Held
<1> QED
  BY <1>2, <1>3 DEF Sound

LEMMA OneHolds ==
  ASSUME RunTyped, NEW w \in Runner, At(w) # "idle", Len(run[w].work) = 1
  PROVE  Holds(w) = {Current(w).event}
<1>1. DOMAIN run[w].work = {1} /\ Current(w) = run[w].work[1]
  BY WorkTyped
<1> QED
  BY <1>1 DEF Holds

(* A runner that is done with another event. *)
LEMMA PassedBy ==
  ASSUME OnceInv, NEW e \in Event, e \notin disturbed, Leaves(e),
         NEW w \in Runner, At(w) # "idle", e # Current(w).event,
         Passes(w) \/ \E at, r : Turns(w, at, r)
  PROVE  \/ e \notin Holds(w) /\ e \notin Holds(w)'
         \/ e \in Holds(w) /\ e \in Holds(w)' /\ Counts(w, e)'
<1>t. PlaceInv /\ TypeOK /\ RunTyped /\ RunsArePlaced
  BY TypeParts DEF OnceInv, LossInv, PlaceInv
<1>1. Holds(w)' \subseteq Holds(w) /\ Holds(w) \subseteq Holds(w)' \cup {Current(w).event}
  BY <1>t, PassFacts, TurnsFacts
<1>2. ASSUME e \in Holds(w) PROVE Counts(w, e)'
  <2>1. Counts(w, e)
    BY <1>2 DEF OnceInv, UndisturbedIsSound, Sound
  <2>2. w[1] = "sweep"
    <3>1. Len(run[w].work) # 1
      BY <1>t, <1>2, OneHolds
    <3>2. w[1] # "live"
      BY <1>t, <3>1, CurrentFacts DEF PlaceInv
    <3>3. w[1] # "redrive"
      BY <2>1, <3>1 DEF Counts, RedriveCounts
    <3> QED
      BY <3>2, <3>3, RunnerKinds
  <2>3. Fresh(e)'
    BY <2>1, <2>2, LeavesFacts DEF Counts, SweepCounts
  <2>4. At(w)' \in {"idle", "resolve"} \/ Current(w)' = Current(w)
    BY <1>t, <2>2, PassFacts, TurnsFacts DEF StartAt
  <2>5. SweepCounts(w, e)'
    BY <2>3, <2>4 DEF SweepCounts
  <2> QED
    BY <2>2, <2>5 DEF Counts
<1> QED
  BY <1>1, <1>2

(* The one runner that holds an event, and what it counts on next ...      *)
LEMMA Turned ==
  ASSUME OnceInv, NEW e \in Event, e \notin disturbed,
         NEW w \in Runner, At(w) # "idle", e = Current(w).event,
         NEW at, NEW r, Turns(w, at, r), Counts(w, e)'
  PROVE  Sound(e)'
<1>t. PlaceInv /\ TypeOK /\ RunTyped
  BY TypeParts DEF OnceInv, LossInv, PlaceInv
<1>1. e \in Holds(w) /\ Sound(e)
  BY <1>t, CurrentFacts DEF PlaceInv, OnceInv, UndisturbedIsSound
<1>2. \A v \in Runner : Holds(v)' = Holds(v)
  BY TurnsFacts, KeepsFacts DEF Turns
<1>3. \A v \in Runner : e \in Holds(v) => v = w
  BY <1>1 DEF Sound, Alone
<1> QED
  BY <1>1, <1>2, <1>3 DEF Sound, Alone, Held

(* ... or what it leaves when it is done with it.                          *)
LEMMA Passed ==
  ASSUME OnceInv, NEW e \in Event, e \notin disturbed,
         NEW w \in Runner, At(w) # "idle", e = Current(w).event,
         Passes(w), Rests(e)'
  PROVE  Sound(e)'
<1>t. PlaceInv /\ TypeOK /\ RunTyped /\ RunsArePlaced
  BY TypeParts DEF OnceInv, LossInv, PlaceInv
<1>1. e \in Holds(w) /\ Sound(e)
  BY <1>t, CurrentFacts DEF PlaceInv, OnceInv, UndisturbedIsSound
<1>2. \A v \in Runner : e \in Holds(v) => v = w
  BY <1>1 DEF Sound, Alone
<1>3. \A i, j \in DOMAIN run[w].work : run[w].work[i].event = run[w].work[j].event => i = j
  <2>1. CASE w[1] = "sweep"
    BY <1>t, <2>1 DEF RunsArePlaced, Placed
  <2>2. CASE Len(run[w].work) = 1
    BY <1>t, <2>2, WorkTyped
  <2>3. w[1] = "live" => Len(run[w].work) = 1
    BY <1>t, CurrentFacts DEF PlaceInv
  <2>4. w[1] = "redrive" => Len(run[w].work) = 1
    BY <1>1 DEF Sound, Counts, RedriveCounts
  <2> QED
    BY <2>1, <2>2, <2>3, <2>4, RunnerKinds
<1>4. e \notin Holds(w)'
  <2> SUFFICES ASSUME NEW i \in DOMAIN run'[w].work, run'[w].work[i].event = e PROVE FALSE
    BY DEF Holds
  <2>1. i + 1 \in DOMAIN run[w].work /\ run'[w].work[i] = run[w].work[i + 1]
    BY <1>t, PassFacts
  <2>2. 1 \in DOMAIN run[w].work /\ run[w].work[1].event = e
    BY <1>t, WorkTyped
  <2>3. i + 1 = 1
    BY <1>3, <2>1, <2>2
  <2>4. i \in Nat \ {0}
    <3>1. run'[w].work \in Seq(Item)
      BY <1>t, PassFacts DEF RunTyped, RunRecord
    <3>2. DOMAIN run'[w].work = 1 .. Len(run'[w].work) /\ Len(run'[w].work) \in Nat
      BY <3>1, LenProperties
    <3> QED
      BY <3>2
  <2> QED
    BY <2>3, <2>4
<1>5. \A v \in Runner : v # w => Holds(v)' = Holds(v)
  BY <1>t, PassFacts, KeepsFacts
<1>6. ~Held(e)'
  BY <1>2, <1>4, <1>5 DEF Held
<1> QED
  BY <1>6 DEF Sound, Alone, Held

LEMMA FreshFacts ==
  ASSUME NEW e \in Event, Fresh(e)
  PROVE  /\ Carriers(e) = {} /\ delivered[e] = 0 /\ Single(OpenLetters(e))
         /\ OneWay(e, OpenLetters(e)) /\ OneWay(e, {})
<1>1. Carriers(e) = {}
  BY DEF Fresh, Carriers
<1> QED
  BY <1>1 DEF Fresh, OneWay, OneOf, Single

(* A job more for an event that had no way open. *)
LEMMA AddedCarries ==
  ASSUME TypeOK, NEW e \in Event, NEW k \in Key, k[1] = e, jobs' = Added(k), Carriers(e) = {}
  PROVE  Single(Carriers(e)')
<1>1. \A i \in Key : i # k => jobs'[i] = jobs[i]
  BY AddedFacts
<1>2. \A i \in Carriers(e)' : i = k
  BY <1>1 DEF Carriers
<1> QED
  BY <1>2 DEF Single

LEMMA EnqueueSound ==
  ASSUME OnceInv, NEW w \in Runner, Add(w) \/ DispatchInline(w),
         NEW e \in Event, e = Current(w).event, e \notin disturbed'
  PROVE  Sound(e)'
<1>t. PlaceInv /\ TypeOK /\ RunTyped /\ RunsArePlaced
  BY TypeParts DEF OnceInv, LossInv, PlaceInv
<1>1. /\ At(w) \in {"add", "dispatch"} /\ e \notin disturbed
      /\ row' = row /\ letters' = letters
  BY <1>t, EnqueueData DEF StepData, database
<1>2. /\ KeyOf(w) \in Key /\ KeyOf(w)[1] = e /\ e \in Holds(w)
      /\ w[1] = "live" => Len(run[w].work) = 1
  BY <1>t, <1>1, CurrentFacts DEF PlaceInv
<1>3. Counts(w, e)
  BY <1>1, <1>2 DEF OnceInv, UndisturbedIsSound, Sound
<1>o. OpenLetters(e)' = OpenLetters(e)
  BY <1>1 DEF OpenLetters
<1> DEFINE l == Current(w).letter
(* What an event may count on here, whoever holds it. *)
<1>4. /\ w[1] = "live" => Blank(e)
      /\ w[1] = "sweep" => Fresh(e)
      /\ w[1] = "redrive" =>
           /\ l \in OpenLetters(e) /\ OneWay(e, OpenLetters(e)) /\ (Pending(e) => Fresh(e))
           /\ Len(run[w].work) = 1 /\ l \in DOMAIN letters[e]
  BY <1>1, <1>3 DEF Counts, LiveCounts, SweepCounts, RedriveCounts
<1>5. /\ Carriers(e) = {} /\ delivered[e] = 0 /\ Single(OpenLetters(e))
      /\ w[1] = "live" => OpenLetters(e) = {}
      /\ w[1] = "redrive" => OpenLetters(e) \ {l} = {}
  <2>1. CASE w[1] = "live" \/ w[1] = "sweep"
    BY <1>4, <2>1, FreshFacts DEF Blank
  <2>2. CASE w[1] = "redrive"
    <3>1. OneOf(delivered[e], Carriers(e), OpenLetters(e)) /\ OpenLetters(e) # {}
      BY <1>4, <2>2 DEF OneWay
    <3>2. delivered[e] = 0
      <4>1. delivered[e] \in 0 .. 2
        BY <1>t DEF TypeOK
      <4>2. ~(delivered[e] > 0)
        BY <3>1 DEF OneOf
      <4> QED
        BY <4>1, <4>2
    <3> QED
      BY <1>4, <2>2, <3>1, <3>2 DEF OneOf, Single
  <2> QED
    BY <2>1, <2>2, RunnerKinds
(* The two good ends of enqueue(). *)
<1>6. ASSUME NEW r \in {"queued", "dispatched"}, Leads(w, r),
             \/ Single(Carriers(e)') /\ delivered'[e] = 0
             \/ Carriers(e)' = {} /\ delivered'[e] = 1
      PROVE  Sound(e)'
  <2>1. OneOf(delivered'[e], Carriers(e)', {})
    BY <1>6 DEF OneOf, Single
  <2>2. ASSUME NEW at, Turns(w, at, r), at \in {"mark", "close", "retireEvent"},
               at = "mark" => w[1] = "live", at = "close" => w[1] = "sweep", at = "retireEvent" => w[1] = "redrive"
        PROVE  Sound(e)'
    <3>1. At(w)' = at /\ Result(w)' = r /\ Current(w)' = Current(w) /\ run'[w].work = run[w].work
      BY <2>2, TurnsFacts DEF Turns
    <3>2. w[1] = "live" => LiveCounts(w, e)'
      BY <1>5, <1>6, <1>o, <2>1, <2>2, <3>1 DEF LiveCounts, OneWay
    <3>3. w[1] = "sweep" => SweepCounts(w, e)'
      BY <1>2, <2>1, <2>2, <3>1 DEF SweepCounts, OneWay
    <3>4. w[1] = "redrive" => RedriveCounts(w, e)'
      BY <1>1, <1>4, <1>5, <1>o, <2>1, <2>2, <3>1 DEF RedriveCounts, OneWay
    <3>5. Counts(w, e)'
      BY <3>2, <3>3, <3>4 DEF Counts
    <3> QED
      BY <1>1, <2>2, <3>5, Turned
  <2> QED
    BY <1>6, <2>2 DEF Leads
(* Nothing came of it yet. *)
<1>7. ASSUME UNCHANGED <<jobs, delivered>>
      PROVE  Leaves(e) /\ (Fresh(e)' <=> Fresh(e)) /\ (Blank(e)' <=> Blank(e)) /\ (Rests(e)' <=> Rests(e))
             /\ Carriers(e)' = Carriers(e) /\ delivered'[e] = delivered[e]
  <2>1. Leaves(e)
    BY <1>1, <1>7 DEF Leaves
  <2> QED
    BY <2>1, LeavesFacts
<1>8. ASSUME UNCHANGED <<jobs, delivered>>, Turns(w, "dispatch", Result(w)) PROVE Sound(e)'
  <2>1. At(w)' = "dispatch" /\ Current(w)' = Current(w) /\ run'[w].work = run[w].work
    BY <1>8, TurnsFacts DEF Turns
  <2>2. w[1] = "live" => LiveCounts(w, e)'
    BY <1>4, <1>7, <1>8, <2>1 DEF LiveCounts
  <2>3. w[1] = "sweep" => SweepCounts(w, e)'
    BY <1>4, <1>7, <1>8, <2>1 DEF SweepCounts
  <2>4. w[1] = "redrive" => RedriveCounts(w, e)'
    BY <1>1, <1>4, <1>7, <1>8, <1>o, <2>1 DEF RedriveCounts, OneWay, Pending
  <2>5. Counts(w, e)'
    BY <2>2, <2>3, <2>4 DEF Counts
  <2> QED
    BY <1>1, <1>8, <2>5, Turned
<1>9. ASSUME UNCHANGED <<jobs, delivered>>, Leads(w, "failed") PROVE Sound(e)'
  <2>1. CASE w[1] = "redrive" /\ Passes(w)
    <3>1. Rests(e)
      BY <1>2, <1>4, <1>t, <2>1 DEF Rests, Pending, PlaceInv, NewIsUntouched
    <3> QED
      BY <1>1, <1>7, <1>9, <2>1, <3>1, Passed
  <2>2. CASE w[1] = "live" /\ Turns(w, "mark", "failed")
    <3>1. LiveCounts(w, e)'
      BY <1>4, <1>7, <1>9, <2>2, TurnsFacts DEF LiveCounts
    <3>2. Counts(w, e)'
      BY <2>2, <3>1 DEF Counts
    <3> QED
      BY <1>1, <2>2, <3>2, Turned
  <2>3. ASSUME w[1] = "sweep", NEW at \in {"count", "charge"}, Turns(w, at, Result(w)) PROVE Sound(e)'
    <3>1. SweepCounts(w, e)'
      BY <1>4, <1>7, <1>9, <2>3, TurnsFacts DEF SweepCounts
    <3>2. Counts(w, e)'
      BY <2>3, <3>1 DEF Counts
    <3> QED
      BY <1>1, <2>3, <3>2, Turned
  <2> QED
    BY <1>9, <2>1, <2>2, <2>3 DEF Leads
<1> HIDE DEF l
<1>10. CASE Add(w)
  <2>1. UNCHANGED delivered
    BY <1>10 DEF Add
  <2>2. CASE Leads(w, "queued") /\ jobs' = Added(KeyOf(w))
    <3>1. Single(Carriers(e)') /\ delivered'[e] = 0
      BY <1>2, <1>5, <1>t, <2>1, <2>2, AddedCarries
    <3> QED
      BY <1>6, <2>2, <3>1
  <2>3. CASE Turns(w, "dispatch", Result(w)) /\ UNCHANGED <<jobs, disturbed>>
    BY <1>8, <2>1, <2>3
  <2>4. CASE Disturb({Current(w).event})
    BY <2>4 DEF Disturb
  <2> QED
    BY <1>10, <1>t, <2>2, <2>3, <2>4, EnqueueSteps
<1>11. CASE DispatchInline(w)
  <2>1. UNCHANGED jobs
    BY <1>11 DEF DispatchInline
  <2>2. CASE Leads(w, "dispatched") /\ Handled(e) /\ UNCHANGED disturbed
    <3>1. Carriers(e)' = {}
      BY <1>5, <2>1 DEF Carriers
    <3>2. delivered'[e] = 1
      BY <1>1, <1>5, <1>t, <2>2, HandledTyped
    <3> QED
      BY <1>6, <2>2, <3>1, <3>2
  <2>3. CASE Leads(w, "failed") /\ UNCHANGED history
    BY <1>9, <2>1, <2>3 DEF history
  <2>4. CASE Disturb({Current(w).event})
    BY <2>4 DEF Disturb
  <2> QED
    BY <1>11, <1>t, <2>2, <2>3, <2>4, EnqueueSteps
<1> QED
  BY <1>10, <1>11

LEMMA RowSound ==
  ASSUME OnceInv, NEW w \in Runner,
         Mark(w) \/ CloseReplayed(w) \/ Charge(w) \/ CloseFailed(w) \/ RetireEvent(w)
         \/ ResolveInstance(w) \/ CountLetters(w),
         NEW e \in Event, e = Current(w).event, e \notin disturbed'
  PROVE  Sound(e)'
<1>t. PlaceInv /\ TypeOK /\ RunTyped /\ RunsArePlaced
  BY TypeParts DEF OnceInv, LossInv, PlaceInv
<1>1. /\ At(w) # "idle" /\ e \notin disturbed
      /\ UNCHANGED <<letters, jobs, delivered>>
  BY <1>t, RowData, OtherData DEF RowBecomes, StepData
<1>2. Counts(w, e)
  <2>1. e \in Holds(w)
    BY <1>t, <1>1, CurrentFacts DEF PlaceInv
  <2> QED
    BY <1>1, <2>1 DEF OnceInv, UndisturbedIsSound, Sound
<1>n. row[e].state # "none" /\ row'[e].state # "none"
  <2>1. row[e].state # "none"
    BY <1>t, <1>1, CurrentFacts DEF PlaceInv
  <2>2. Step(w)
    BY DEF Step, LiveStep, SweepStep, RedriveStep
  <2> QED
    BY <1>t, <2>1, <2>2, RowsMove DEF Next
<1>3. /\ OpenLetters(e)' = OpenLetters(e) /\ Carriers(e)' = Carriers(e)
      /\ delivered'[e] = delivered[e] /\ letters'[e] = letters[e]
      /\ (Fresh(e)' <=> Fresh(e)) /\ (Blank(e)' <=> Blank(e))
  <2>1. /\ OpenLetters(e)' = OpenLetters(e) /\ Carriers(e)' = Carriers(e)
        /\ delivered'[e] = delivered[e] /\ letters'[e] = letters[e]
    BY <1>1 DEF OpenLetters, Carriers
  <2>2. Fresh(e)' <=> Fresh(e)
    BY <1>1, <2>1 DEF Fresh
  <2> QED
    BY <2>1, <2>2 DEF Blank
<1>4. Fresh(e) /\ Passes(w) => Sound(e)'
  <2>1. Fresh(e) => Rests(e)'
    BY <1>3, FreshFacts DEF Rests, OneWay
  <2> QED
    BY <1>1, <2>1, Passed
<1>5. CASE Mark(w)
  <2>1. At(w) = "mark" /\ w[1] = "live"
    BY <1>t, <1>5, LiveSteps, KindOf
  <2>2. CASE Result(w) = "failed"
    <3>1. Turns(w, "letter", "failed")
      BY <1>t, <1>5, <2>2, LiveSteps
    <3>2. Blank(e)
      BY <1>2, <2>1, <2>2 DEF Counts, LiveCounts
    <3>3. Counts(w, e)'
      BY <1>3, <2>1, <3>1, <3>2, TurnsFacts DEF Counts, LiveCounts
    <3> QED
      BY <1>1, <3>1, <3>3, Turned
  <2>3. CASE Result(w) # "failed"
    <3>1. Passes(w) /\ row'[e].state = "dispatched"
      BY <1>t, <1>5, <2>3, LiveSteps, RowData DEF RowBecomes
    <3>2. OneWay(e, OpenLetters(e))
      BY <1>2, <2>1, <2>3 DEF Counts, LiveCounts
    <3>3. Rests(e)'
      BY <1>3, <3>1, <3>2 DEF Rests, OneWay
    <3> QED
      BY <1>1, <3>1, <3>3, Passed
  <2> QED
    BY <2>2, <2>3
<1>6. CASE CloseReplayed(w)
  <2>1. At(w) = "close" /\ w[1] = "sweep" /\ Turns(w, "retire", Result(w))
    BY <1>t, <1>6, SweepSteps, KindOf
  <2>2. OneWay(e, {})
    BY <1>2, <2>1 DEF Counts, SweepCounts
  <2>3. Counts(w, e)'
    BY <1>3, <2>1, <2>2, TurnsFacts DEF Counts, SweepCounts, OneWay
  <2> QED
    BY <1>1, <2>1, <2>3, Turned
<1>7. CASE Charge(w) \/ CloseFailed(w)
  <2>1. At(w) \in {"charge", "fail"} /\ w[1] = "sweep" /\ Passes(w)
    BY <1>t, <1>7, SweepSteps, KindOf
  <2>2. Fresh(e)
    BY <1>2, <2>1 DEF Counts, SweepCounts
  <2> QED
    BY <1>4, <2>1, <2>2
<1>8. CASE RetireEvent(w)
  <2>1. At(w) = "retireEvent" /\ w[1] = "redrive" /\ Turns(w, "retireLetter", Result(w))
    BY <1>t, <1>8, RedriveSteps, KindOf
  <2>2. RedriveCounts(w, e)'
    BY <1>2, <1>3, <2>1, TurnsFacts DEF Counts, RedriveCounts, OneWay, Turns
  <2>3. Counts(w, e)'
    BY <2>1, <2>2 DEF Counts
  <2> QED
    BY <1>1, <2>1, <2>3, Turned
<1>9. CASE ResolveInstance(w)
  <2>1. At(w) = "resolve" /\ w[1] = "sweep" /\ (Turns(w, "add", Result(w)) \/ Passes(w))
    BY <1>t, <1>9, SweepSteps, KindOf
  <2>2. Fresh(e)
    BY <1>2, <2>1 DEF Counts, SweepCounts
  <2>3. Turns(w, "add", Result(w)) => Counts(w, e)'
    BY <1>3, <2>1, <2>2, TurnsFacts DEF Counts, SweepCounts
  <2> QED
    BY <1>1, <1>4, <2>1, <2>2, <2>3, Turned
<1>10. CASE CountLetters(w)
  <2>1. /\ At(w) = "count" /\ w[1] = "sweep"
        /\ \/ letters[e] = <<>> /\ Turns(w, "save", Result(w))
           \/ Turns(w, "fail", Result(w))
    BY <1>t, <1>10, SweepSteps, KindOf
  <2>2. Fresh(e)
    BY <1>2, <2>1 DEF Counts, SweepCounts
  <2>3. letters[e] = <<>> => Blank(e)
    BY <2>2 DEF Blank, OpenLetters
  <2>4. letters[e] = <<>> /\ Turns(w, "save", Result(w)) => Counts(w, e)'
    BY <1>3, <2>1, <2>3, TurnsFacts DEF Counts, SweepCounts
  <2>5. Turns(w, "fail", Result(w)) => Counts(w, e)'
    BY <1>3, <2>1, <2>2, TurnsFacts DEF Counts, SweepCounts
  <2> QED
    BY <1>1, <2>1, <2>4, <2>5, Turned
<1> QED
  BY <1>5, <1>6, <1>7, <1>8, <1>9, <1>10

LEMMA LetterSound ==
  ASSUME OnceInv, NEW w \in Runner,
         WriteLetter(w) \/ SaveLetter(w) \/ RetireLetters(w) \/ RetireLetter(w),
         NEW e \in Event, e = Current(w).event, e \notin disturbed'
  PROVE  Sound(e)'
<1>t. PlaceInv /\ TypeOK /\ RunTyped /\ RunsArePlaced
  BY TypeParts DEF OnceInv, LossInv, PlaceInv
<1>1. /\ At(w) # "idle" /\ e \notin disturbed /\ UNCHANGED <<row, jobs, delivered>>
  BY <1>t, LetterData
<1>2. Counts(w, e) /\ row[e].state # "none"
  <2>1. e \in Holds(w) /\ row[e].state # "none"
    BY <1>t, <1>1, CurrentFacts DEF PlaceInv
  <2> QED
    BY <1>1, <2>1 DEF OnceInv, UndisturbedIsSound, Sound
<1>3. Carriers(e)' = Carriers(e) /\ delivered'[e] = delivered[e] /\ row'[e] = row[e]
  BY <1>1 DEF Carriers
(* Blank before, with one dead letter after. *)
<1>4. ASSUME Blank(e), letters' = [letters EXCEPT ![e] = Append(@, "open")]
      PROVE  Fresh(e)' /\ Rests(e)'
  <2>1. OpenLetters(e)' = {Len(letters[e]) + 1}
    BY <1>4, <1>t, LetterAdded DEF Blank
  <2>2. Single(OpenLetters(e)')
    BY <2>1 DEF Single
  <2>3. Fresh(e)'
    BY <1>1, <1>4, <2>2 DEF Fresh, Blank
  <2>4. Carriers(e) = {} /\ delivered[e] = 0
    BY <1>4, FreshFacts DEF Blank
  <2> QED
    BY <1>3, <2>2, <2>3, <2>4 DEF Rests, OneWay, OneOf, Single
<1>5. CASE WriteLetter(w)
  <2>1. At(w) = "letter" /\ w[1] = "live" /\ Passes(w)
    BY <1>t, <1>5, LiveSteps, KindOf
  <2>2. Blank(e)
    BY <1>2, <2>1 DEF Counts, LiveCounts
  <2>3. letters' = [letters EXCEPT ![e] = Append(@, "open")]
    BY <1>5 DEF WriteLetter
  <2> QED
    BY <1>1, <1>4, <2>1, <2>2, <2>3, Passed
<1>6. CASE SaveLetter(w)
  <2>1. At(w) = "save" /\ w[1] = "sweep" /\ Turns(w, "fail", Result(w))
    BY <1>t, <1>6, SweepSteps, KindOf
  <2>2. Blank(e)
    BY <1>2, <2>1 DEF Counts, SweepCounts
  <2>3. letters' = [letters EXCEPT ![e] = Append(@, "open")]
    BY <1>6 DEF SaveLetter
  <2>4. Counts(w, e)'
    BY <1>4, <2>1, <2>2, <2>3, TurnsFacts DEF Counts, SweepCounts
  <2> QED
    BY <1>1, <2>1, <2>4, Turned
<1>7. CASE RetireLetters(w)
  <2>1. At(w) = "retire" /\ w[1] = "sweep" /\ Passes(w)
    BY <1>t, <1>7, SweepSteps, KindOf
  <2>2. OneWay(e, {}) /\ ~Pending(e)
    BY <1>2, <2>1 DEF Counts, SweepCounts, OnceInv, LossInv, RetiredIsClosed
  <2>3. OpenLetters(e)' = {}
    <3>1. letters' = [letters EXCEPT ![e] = [i \in DOMAIN @ |-> "retired"]]
      BY <1>7 DEF RetireLetters
    <3> QED
      BY <1>t, <3>1, LettersRetired
  <2>4. Rests(e)'
    BY <1>2, <1>3, <2>2, <2>3 DEF Rests, OneWay, Pending
  <2> QED
    BY <1>1, <2>1, <2>4, Passed
<1>8. CASE RetireLetter(w)
  <2> DEFINE l == Current(w).letter
  <2>1. At(w) = "retireLetter" /\ w[1] = "redrive" /\ Passes(w)
    BY <1>t, <1>8, RedriveSteps, KindOf
  <2>2. OneWay(e, OpenLetters(e) \ {l}) /\ ~Pending(e)
    BY <1>2, <2>1 DEF Counts, RedriveCounts, OnceInv, LossInv, RetiredIsClosed
  <2>3. OpenLetters(e)' = OpenLetters(e) \ {l}
    <3>1. letters' = [letters EXCEPT ![e][l] = "retired"]
      BY <1>8 DEF RetireLetter
    <3> HIDE DEF l
    <3> QED
      BY <1>t, <3>1, LetterRetired
  <2>4. Rests(e)'
    BY <1>2, <1>3, <2>2, <2>3 DEF Rests, OneWay, Pending
  <2> QED
    BY <1>1, <2>1, <2>4, Passed
<1> QED
  BY <1>5, <1>6, <1>7, <1>8

LEMMA StepSound ==
  ASSUME OnceInv, NEW w \in Runner, Step(w), NEW e \in Event, e \notin disturbed'
  PROVE  Sound(e)'
<1>t. PlaceInv /\ TypeOK /\ RunTyped /\ RunsArePlaced
  BY TypeParts DEF OnceInv, LossInv, PlaceInv
<1>1. StepData(w) /\ At(w) # "idle"
  BY <1>t, StepDataAlways
<1>2. CASE e = Current(w).event
  BY <1>2, EnqueueSound, RowSound, LetterSound DEF Step, LiveStep, SweepStep, RedriveStep
<1>3. CASE e # Current(w).event
  <2>1. Leaves(e) /\ e \notin disturbed /\ Sound(e)
    BY <1>1, <1>3 DEF StepData, OnceInv, UndisturbedIsSound
  <2>2. Passes(w) \/ \E at, r : Turns(w, at, r)
    BY <1>t, StepsOf DEF Leads
  <2>3. \/ e \notin Holds(w) /\ e \notin Holds(w)'
        \/ e \in Holds(w) /\ e \in Holds(w)' /\ Counts(w, e)'
    BY <1>1, <1>3, <2>1, <2>2, PassedBy
  <2>4. \A v \in Runner : v # w => run'[v] = run[v]
    BY <1>1 DEF StepData
  <2> QED
    BY <2>1, <2>3, <2>4, Unmoved
<1> QED
  BY <1>2, <1>3

(* A job is the way that is open, until it is handled or recorded. *)
LEMMA JobSound ==
  ASSUME OnceInv, NEW k \in Key, ProcessJob(k) \/ SaveJobLetter(k) \/ Stall(k),
         NEW e \in Event, e \notin disturbed'
  PROVE  Sound(e)'
<1>t. PlaceInv /\ TypeOK
  BY DEF OnceInv, LossInv, PlaceInv
<1>1. row' = row /\ run' = run /\ disturbed \subseteq disturbed'
  BY <1>t, JobData DEF ProcessJob, SaveJobLetter, Stall, Dispatched, Disturb, history
<1>2. Sound(e) /\ e \notin disturbed
  BY <1>1 DEF OnceInv, UndisturbedIsSound
<1>3. CASE k[1] # e
  <2>1. Leaves(e)
    BY <1>3, <1>t, JobData
  <2> QED
    BY <1>1, <1>2, <2>1, Unmoved
<1>4. CASE k[1] = e
  <2>1. ~Disturb({k[1]})
    BY <1>4 DEF Disturb
  <2>2. jobs[k].state \in {"waiting", "saving"} /\ k \in Carriers(e)
    BY <1>4, <1>t, JobFacts DEF Carriers
  <2>3. /\ \A i \in Key : i # k => jobs'[i] = jobs[i]
        /\ jobs' \in [Key -> JobRecord]
    BY <1>t, JobFacts
  <2>4. ~Fresh(e) /\ ~Blank(e)
    BY <1>4, <2>2 DEF Fresh, Blank
  (* What happened, seen from the event. *)
  <2>5. \/ /\ Carriers(e)' = {} /\ delivered'[e] = 1 /\ letters'[e] = letters[e]
           /\ OpenLetters(e)' = OpenLetters(e)
        \/ /\ Carriers(e)' = Carriers(e) /\ delivered'[e] = delivered[e] /\ letters'[e] = letters[e]
           /\ OpenLetters(e)' = OpenLetters(e)
        \/ /\ Carriers(e)' = {} /\ delivered'[e] = delivered[e]
           /\ OpenLetters(e)' = OpenLetters(e) \cup {Len(letters[e]) + 1}
           /\ DOMAIN letters'[e] = DOMAIN letters[e] \cup {Len(letters[e]) + 1}
           /\ Len(letters[e]) + 1 \notin DOMAIN letters[e]
        \/ ~\E open : OneWay(e, open)
    <3> SUFFICES ASSUME NEW open, OneWay(e, open)
                 PROVE  \/ /\ Carriers(e)' = {} /\ delivered'[e] = 1 /\ letters'[e] = letters[e]
                           /\ OpenLetters(e)' = OpenLetters(e)
                        \/ /\ Carriers(e)' = Carriers(e) /\ delivered'[e] = delivered[e]
                           /\ letters'[e] = letters[e] /\ OpenLetters(e)' = OpenLetters(e)
                        \/ /\ Carriers(e)' = {} /\ delivered'[e] = delivered[e]
                           /\ OpenLetters(e)' = OpenLetters(e) \cup {Len(letters[e]) + 1}
                           /\ DOMAIN letters'[e] = DOMAIN letters[e] \cup {Len(letters[e]) + 1}
                           /\ Len(letters[e]) + 1 \notin DOMAIN letters[e]
      OBVIOUS
    <3>1. OneOf(delivered[e], Carriers(e), open)
      BY DEF OneWay
    <3>2. \A i \in Carriers(e) : i = k
      BY <2>2, <3>1 DEF OneOf, Single
    <3>3. delivered[e] = 0
      <4>1. delivered[e] \in 0 .. 2
        BY <1>t DEF TypeOK
      <4>2. ~(delivered[e] > 0)
        BY <2>2, <3>1 DEF OneOf
      <4> QED
        BY <4>1, <4>2
    <3>4. jobs'[k].state \notin {"waiting", "saving"} => Carriers(e)' = {}
      BY <2>3, <3>2 DEF Carriers
    <3>5. jobs'[k].state \in {"waiting", "saving"} => Carriers(e)' = Carriers(e)
      BY <2>2, <2>3 DEF Carriers
    <3>6. letters'[e] = letters[e] => OpenLetters(e)' = OpenLetters(e)
      BY DEF OpenLetters
    <3>7. CASE ProcessJob(k)
      <4>1. UNCHANGED letters
        BY <3>7 DEF ProcessJob, database
      <4>2. CASE jobs'[k].state = "done" /\ Handled(e) /\ UNCHANGED disturbed
        <5>1. delivered'[e] = 1
          BY <1>2, <1>t, <3>3, <4>2, HandledTyped
        <5> QED
          BY <3>4, <3>6, <4>1, <4>2, <5>1
      <4>3. CASE jobs'[k].state \in {"waiting", "saving"} /\ UNCHANGED history
        BY <3>5, <3>6, <4>1, <4>3 DEF history
      <4> QED
        BY <1>4, <1>t, <2>1, <3>7, <4>2, <4>3, JobFacts
    <3>8. CASE SaveJobLetter(k)
      <4>1. /\ letters' = [letters EXCEPT ![e] = Append(@, "open")]
            /\ UNCHANGED delivered
        BY <1>4, <2>1, <3>8 DEF SaveJobLetter
      <4>2. Carriers(e)' = {}
        BY <1>t, <3>4, <3>8, JobFacts
      <4> QED
        BY <1>t, <4>1, <4>2, LetterAdded
    <3>9. CASE Stall(k)
      BY <2>1, <3>9 DEF Stall
    <3> QED
      BY <3>7, <3>8, <3>9
  (* One way out stays one way out, whatever set of letters is counted. *)
  <2>6. OneWay(e, {}) => OneOf(delivered'[e], Carriers(e)', {})
    <3> SUFFICES ASSUME OneWay(e, {}) PROVE OneOf(delivered'[e], Carriers(e)', {})
      OBVIOUS
    <3>1. OneOf(delivered[e], Carriers(e), {})
      BY DEF OneWay
    <3>2. \/ Carriers(e)' = {} /\ delivered'[e] = 1
          \/ delivered'[e] = delivered[e] /\ Carriers(e)' = Carriers(e)
          \/ delivered'[e] = delivered[e] /\ Carriers(e)' = {}
      BY <2>5
    <3> QED
      BY <3>1, <3>2 DEF OneOf, Single
  <2>7. OneWay(e, OpenLetters(e)) => OneOf(delivered'[e], Carriers(e)', OpenLetters(e)')
    <3> SUFFICES ASSUME OneWay(e, OpenLetters(e))
                 PROVE  OneOf(delivered'[e], Carriers(e)', OpenLetters(e)')
      OBVIOUS
    <3>1. OneOf(delivered[e], Carriers(e), OpenLetters(e)) /\ Carriers(e) # {} /\ OpenLetters(e) = {}
      BY <2>2 DEF OneWay, OneOf
    <3> QED
      BY <2>5, <3>1 DEF OneOf, Single
  <2>8. ASSUME NEW l, l \in DOMAIN letters[e], OneWay(e, OpenLetters(e) \ {l})
        PROVE  OneOf(delivered'[e], Carriers(e)', OpenLetters(e)' \ {l}) /\ l \in DOMAIN letters'[e]
    <3>1. /\ OneOf(delivered[e], Carriers(e), OpenLetters(e) \ {l}) /\ Carriers(e) # {}
          /\ OpenLetters(e) \ {l} = {}
      BY <2>2, <2>8 DEF OneWay, OneOf
    <3>2. OpenLetters(e)' \ {l} = {} \/ OpenLetters(e)' \ {l} = {Len(letters[e]) + 1}
      BY <2>5, <2>8, <3>1
    <3>3. l \in DOMAIN letters'[e]
      BY <2>5, <2>8
    <3>4. OneOf(delivered'[e], Carriers(e)', OpenLetters(e)' \ {l})
      <4>1. CASE /\ Carriers(e)' = Carriers(e) /\ delivered'[e] = delivered[e]
                 /\ OpenLetters(e)' = OpenLetters(e)
        BY <3>1, <4>1
      <4>2. CASE /\ Carriers(e)' = {} /\ delivered'[e] = 1 /\ OpenLetters(e)' = OpenLetters(e)
        BY <3>1, <4>2 DEF OneOf, Single
      <4>3. CASE Carriers(e)' = {} /\ delivered'[e] = delivered[e]
        <5>1. ~(delivered[e] > 0) /\ delivered[e] <= 1
          BY <3>1 DEF OneOf
        <5> QED
          BY <3>2, <4>3, <5>1 DEF OneOf, Single
      <4> QED
        BY <2>5, <2>8, <4>1, <4>2, <4>3
    <3> QED
      BY <3>3, <3>4
  <2>9. ASSUME NEW w \in Runner, e \in Holds(w)' PROVE Counts(w, e)'
    <3>1. /\ At(w)' = At(w) /\ Result(w)' = Result(w) /\ Current(w)' = Current(w)
          /\ run'[w].work = run[w].work /\ Counts(w, e)
      BY <1>1, <1>2, <2>9, KeepsFacts DEF Sound
    <3>2. w[1] = "live" => LiveCounts(w, e)'
      BY <2>4, <2>7, <3>1 DEF Counts, LiveCounts, OneWay
    <3>3. w[1] = "sweep" => SweepCounts(w, e)'
      BY <2>4, <2>6, <3>1 DEF Counts, SweepCounts, OneWay
    <3>4. w[1] = "redrive" => RedriveCounts(w, e)'
      <4>1. w[1] = "redrive" => At(w) \notin {"add", "dispatch"}
        BY <2>2, <3>1 DEF Counts, RedriveCounts, OneWay, OneOf
      <4>2. w[1] = "redrive" =>
              /\ Len(run[w].work) = 1 /\ Current(w).letter \in DOMAIN letters[e]
              /\ OneWay(e, OpenLetters(e) \ {Current(w).letter})
        BY <3>1, <4>1 DEF Counts, RedriveCounts
      <4> QED
        BY <2>8, <3>1, <4>1, <4>2 DEF RedriveCounts, OneWay
    <3> QED
      BY <3>2, <3>3, <3>4 DEF Counts
  <2>10. \A w \in Runner : Holds(w)' = Holds(w)
    BY <1>1 DEF Holds
  <2>11. ~Held(e)' => Rests(e)'
    <3>1. ~Held(e) => Rests(e)
      BY <1>2 DEF Sound
    <3>2. ~Held(e)' => Rests(e)
      BY <2>10, <3>1 DEF Held
    <3> QED
      BY <1>1, <2>4, <2>7, <3>2 DEF Rests, OneWay
  <2>12. Alone(e)'
    BY <1>2, <2>10 DEF Sound, Alone
  <2> QED
    BY <2>9, <2>11, <2>12 DEF Sound
<1> QED
  BY <1>3, <1>4

(* The event arrives: nobody held it, and nothing came of it. *)
LEMMA ReceiveSound ==
  ASSUME OnceInv, NEW d \in Event, NEW n \in up, Receive(d, n), NEW e \in Event, e \notin disturbed'
  PROVE  Sound(e)'
<1>t. PlaceInv /\ TypeOK /\ RunTyped /\ up \subseteq Node
  BY TypeParts DEF OnceInv, LossInv, PlaceInv, DataTyped
<1>1. n \in Node /\ <<"live", d>> \in Runner
  BY <1>t DEF Runner
<1>2. /\ \A i \in Event : i # d => Leaves(i)
      /\ row[d].state = "none" /\ row'[d].state = "pending"
      /\ UNCHANGED <<letters, jobs, delivered>> /\ disturbed \subseteq disturbed'
  BY <1>t, ReceiveData
<1>3. Sound(e) /\ e \notin disturbed
  BY <1>2 DEF OnceInv, UndisturbedIsSound
<1>4. Begins(<<"live", d>>, <<NewItem(d)>>) \/ (UNCHANGED run /\ Disturb({d}))
  BY <1>t, <1>1, BeginSteps
<1>5. Holds(<<"live", d>>) = {}
  <2>1. At(<<"live", d>>) # "idle" => d \in Holds(<<"live", d>>)
    BY <1>t, <1>1, CurrentFacts DEF PlaceInv
  <2>2. d \notin Holds(<<"live", d>>)
    BY <1>t, <1>1, <1>2 DEF PlaceInv, NewIsUntouched
  <2> QED
    BY <1>t, <1>1, <2>1, <2>2, WorkTyped
<1>6. CASE e # d
  <2>1. \A w \in Runner : run'[w] = run[w] \/ (e \notin Holds(w) /\ e \notin Holds(w)')
    <3>1. Begins(<<"live", d>>, <<NewItem(d)>>) => Holds(<<"live", d>>)' = {d}
      BY <1>t, <1>1, BegunHolds
    <3> QED
      BY <1>4, <1>5, <1>6, <3>1 DEF Begins
  <2> QED
    BY <1>2, <1>3, <1>6, <2>1, Unmoved
<1>7. CASE e = d
  <2> DEFINE w == <<"live", e>>
  <2>1. Begins(w, <<NewItem(e)>>)
    BY <1>4, <1>7 DEF Disturb
  <2>2. Holds(w)' = {e} /\ w \in Runner /\ w[1] = "live"
    BY <1>1, <1>7, <1>t, <2>1, BegunHolds
  <2>3. \A v \in Runner : e \notin Holds(v)
    BY <1>7, <1>t, <1>2 DEF PlaceInv, NewIsUntouched
  <2>4. \A v \in Runner : v # w => Holds(v)' = Holds(v)
    BY <2>1, KeepsFacts DEF Begins
  <2>5. Alone(e)' /\ Held(e)'
    BY <2>2, <2>3, <2>4 DEF Alone, Held
  <2>6. Blank(e)'
    <3>1. ~Held(e) /\ letters[e] = <<>>
      BY <1>7, <1>t, <1>2, <2>3 DEF Held, PlaceInv, NewIsUntouched
    <3>2. Fresh(e)
      BY <1>3, <1>2, <1>7, <3>1 DEF Sound, Rests
    <3>3. OpenLetters(e)' = {} /\ OpenLetters(e) = {}
      BY <1>2, <3>1 DEF OpenLetters
    <3> QED
      BY <1>2, <3>2, <3>3 DEF Blank, Fresh
  <2>7. Counts(w, e)'
    <3>1. At(w)' = "add"
      BY <2>1, <2>2 DEF Begins, At, StartAt
    <3> QED
      BY <2>2, <2>6, <3>1 DEF Counts, LiveCounts
  <2> QED
    BY <2>2, <2>3, <2>4, <2>5, <2>7 DEF Sound
<1> QED
  BY <1>6, <1>7

(* A runner that begins on an event somebody holds disturbs it. *)
LEMMA BeginDisturbs ==
  ASSUME NEW w \in Runner, NEW n, NEW items, Begin(w, n, items), run'[w].work = items,
         NEW e \in Event, e \notin disturbed', Held(e)
  PROVE  e \notin Holds(w)' /\ e \notin disturbed
  BY DEF Begin, Held, Holds

LEMMA BeginsSound ==
  ASSUME OnceInv, NEW w \in Runner, At(w) = "idle",
         NEW n, NEW items, Begin(w, n, items), Begins(w, items),
         UNCHANGED <<row, letters, jobs, delivered>>,
         NEW e \in Event, e \notin disturbed',
         e \in Holds(w)' /\ Rests(e) => Counts(w, e)'
  PROVE  Sound(e)'
<1>t. PlaceInv /\ RunTyped
  BY TypeParts DEF OnceInv, LossInv, PlaceInv
<1>1. e \notin disturbed
  BY DEF Begin
<1>2. Sound(e) /\ Leaves(e)
  BY <1>1 DEF OnceInv, UndisturbedIsSound, Leaves
<1>3. run'[w].work = items /\ \A v \in Runner : v # w => run'[v] = run[v]
  BY DEF Begins
<1>4. Holds(w) = {}
  BY <1>t, WorkTyped
<1>5. CASE e \notin Holds(w)'
  BY <1>2, <1>3, <1>4, <1>5, Unmoved
<1>6. CASE e \in Holds(w)'
  <2>1. ~Held(e)
    BY <1>3, <1>6, BeginDisturbs
  <2>2. Counts(w, e)'
    BY <1>2, <1>6, <2>1 DEF Sound
  <2>3. \A v \in Runner : v # w => Holds(v)' = Holds(v) /\ e \notin Holds(v)
    BY <1>3, <2>1, KeepsFacts DEF Held
  <2> QED
    BY <1>6, <2>2, <2>3 DEF Sound, Alone, Held
<1> QED
  BY <1>5, <1>6

LEMMA SweepSound ==
  ASSUME OnceInv, NEW n \in up, BeginSweep(n), NEW e \in Event, e \notin disturbed'
  PROVE  Sound(e)'
<1>t. PlaceInv /\ TypeOK /\ RunTyped /\ up \subseteq Node
  BY TypeParts DEF OnceInv, LossInv, PlaceInv, DataTyped
<1> DEFINE w == <<"sweep", n>>
<1>1. n \in Node /\ w \in Runner /\ w[1] = "sweep"
  BY <1>t DEF Runner
<1>2. PICK q \in Stale : Begin(w, n, SweepItems(q))
  BY DEF BeginSweep, SweepItems
<1>3. /\ UNCHANGED <<row, letters, jobs, delivered>> /\ At(w) = "idle" /\ Backlog # {}
  BY DEF BeginSweep, database, At
<1> HIDE DEF w
<1>4. Begins(w, SweepItems(q))
  BY <1>t, <1>1, <1>2, <1>3, SweepReads, BeginBegins
<1>5. ASSUME e \in Holds(w)', Rests(e) PROVE Counts(w, e)'
  <2>1. row[e].state = "pending"
    BY <1>t, <1>1, <1>3, <1>4, <1>5, BegunHolds DEF Backlog, Pending
  <2>2. Fresh(e)'
    <3>1. Fresh(e)
      BY <1>5, <2>1 DEF Rests
    <3> QED
      BY <1>3, <3>1 DEF Fresh, OpenLetters
  <2>3. At(w)' = "resolve"
    BY <1>1, <1>4 DEF Begins, At, StartAt
  <2> QED
    BY <1>1, <2>2, <2>3 DEF Counts, SweepCounts
<1> QED
  BY <1>1, <1>2, <1>3, <1>4, <1>5, BeginsSound

LEMMA RedriveSound ==
  ASSUME OnceInv, NEW n \in up, NEW d \in Event, BeginRedrive(n, d), NEW e \in Event, e \notin disturbed'
  PROVE  Sound(e)'
<1>t. PlaceInv /\ TypeOK /\ RunTyped /\ up \subseteq Node
  BY TypeParts DEF OnceInv, LossInv, PlaceInv, DataTyped
<1> DEFINE w == <<"redrive", n>>
<1>1. n \in Node /\ w \in Runner /\ w[1] = "redrive"
  BY <1>t DEF Runner
<1>2. PICK q \in Lists(OpenLetters(d), Cardinality(OpenLetters(d))) : Begin(w, n, RedriveItems(d, q))
  BY DEF BeginRedrive, RedriveItems
<1>3. /\ UNCHANGED <<row, letters, jobs, delivered>> /\ At(w) = "idle" /\ OpenLetters(d) # {}
  BY DEF BeginRedrive, database, At
<1> HIDE DEF w
<1>4. Begins(w, RedriveItems(d, q))
  BY <1>t, <1>1, <1>2, <1>3, RedriveReads, BeginBegins
<1>5. ASSUME e \in Holds(w)', Rests(e) PROVE Counts(w, e)'
  <2>1. /\ e = d /\ Len(run'[w].work) = Cardinality(OpenLetters(e))
        /\ \A it \in Items(w)' : it.letter \in OpenLetters(e)
    BY <1>t, <1>1, <1>3, <1>4, <1>5, BegunHolds
  <2>2. OpenLetters(e) # {} /\ Single(OpenLetters(e)) /\ IsFiniteSet(OpenLetters(e))
    BY <1>3, <1>5, <1>t, <2>1, LettersTyped DEF Rests, OneWay, OneOf
  <2>3. Cardinality(OpenLetters(e)) = 1
    <3>1. PICK l \in OpenLetters(e) : TRUE
      BY <2>2
    <3>2. OpenLetters(e) = {l}
      BY <2>2, <3>1 DEF Single
    <3> QED
      BY <3>2, FS_Singleton
  <2>4. At(w)' = "add" /\ Current(w)' \in Items(w)'
    <3>1. At(w)' = "add"
      BY <1>1, <1>4 DEF Begins, At, StartAt
    <3>2. run'[w].work \in Seq(Item) /\ Len(run'[w].work) = 1
      BY <1>1, <1>4, <2>1, <2>3 DEF Begins, RunTyped, RunRecord
    <3>3. 1 \in DOMAIN run'[w].work /\ Head(run'[w].work) = run'[w].work[1]
      BY <3>2, LenProperties, HeadTailProperties
    <3> QED
      BY <3>1, <3>3 DEF Current, Items
  <2>5. Current(w)'.letter \in OpenLetters(e)
    BY <2>1, <2>4
  <2>6. /\ OpenLetters(e)' = OpenLetters(e) /\ letters'[e] = letters[e]
        /\ OneWay(e, OpenLetters(e))' /\ (Pending(e)' => Fresh(e)')
    <3>1. Leaves(e)
      BY <1>3 DEF Leaves
    <3>2. Rests(e)' /\ OpenLetters(e)' = OpenLetters(e) /\ letters'[e] = letters[e]
      BY <1>5, <3>1, LeavesFacts
    <3> QED
      BY <3>2 DEF Rests, Pending
  <2>7. RedriveCounts(w, e)'
    <3>1. Current(w)'.letter \in DOMAIN letters[e]
      BY <2>5 DEF OpenLetters
    <3> QED
      BY <2>1, <2>3, <2>4, <2>5, <2>6, <3>1 DEF RedriveCounts
  <2> QED
    BY <1>1, <2>7 DEF Counts
<1> QED
  BY <1>1, <1>2, <1>3, <1>4, <1>5, BeginsSound

(* What a fault touches is disturbed; the rest goes on as it was. *)
LEMMA FaultSound ==
  ASSUME OnceInv, (\E w \in Runner : FailQuery(w)) \/ (\E n \in up : Crash(n)),
         NEW e \in Event, e \notin disturbed'
  PROVE  Sound(e)'
<1>t. PlaceInv /\ TypeOK /\ RunTyped /\ up \subseteq Node
  BY TypeParts DEF OnceInv, LossInv, PlaceInv, DataTyped
<1>1. UNCHANGED <<row, letters, jobs, delivered>> /\ disturbed \subseteq disturbed'
  BY DEF FailQuery, Crash, Disturb, database
<1>2. Sound(e) /\ e \notin disturbed /\ Leaves(e)
  BY <1>1 DEF OnceInv, UndisturbedIsSound, Leaves
<1>3. ASSUME NEW w \in Runner, FailQuery(w) PROVE Sound(e)'
  <2>1. PICK n \in Node : TRUE
    BY ConstantsAssumption
  <2>2. /\ At(w) # "idle"
        /\ \/ Passes(w)
           \/ \E at, r : Turns(w, at, r)
           \/ w[1] # "sweep" /\ run' = [run EXCEPT ![w] = Idle]
    BY <1>t, <1>3, <2>1, FaultSteps
  <2>3. e # Current(w).event
    BY <1>3 DEF FailQuery, Disturb
  <2>4. CASE Passes(w) \/ \E at, r : Turns(w, at, r)
    <3>1. \/ e \notin Holds(w) /\ e \notin Holds(w)'
          \/ e \in Holds(w) /\ e \in Holds(w)' /\ Counts(w, e)'
      BY <1>2, <2>2, <2>3, <2>4, PassedBy
    <3>2. \A v \in Runner : v # w => run'[v] = run[v]
      BY <1>t, <2>2, <2>4, PassFacts DEF Turns
    <3> QED
      BY <1>2, <3>1, <3>2, Unmoved
  <2>5. CASE w[1] # "sweep" /\ run' = [run EXCEPT ![w] = Idle]
    <3>1. e \notin Holds(w)
      <4>1. CASE w[1] = "live"
        BY <1>t, <2>2, <2>3, <4>1, CurrentFacts, OneHolds DEF PlaceInv
      <4>2. CASE w[1] = "redrive" /\ e \in Holds(w)
        <5>1. Len(run[w].work) = 1
          BY <1>2, <4>2 DEF Sound, Counts, RedriveCounts
        <5> QED
          BY <1>t, <2>2, <2>3, <4>2, <5>1, OneHolds
      <4> QED
        BY <2>5, <4>1, <4>2, RunnerKinds
    <3>2. run'[w] = Idle /\ \A v \in Runner : v # w => run'[v] = run[v]
      BY <1>t, <2>5 DEF RunTyped
    <3>3. e \notin Holds(w)'
      BY <3>2, IdleHolds
    <3> QED
      BY <1>2, <3>1, <3>2, <3>3, Unmoved
  <2> QED
    BY <2>2, <2>4, <2>5
<1>4. ASSUME NEW n \in up, Crash(n) PROVE Sound(e)'
  <2>1. \A v \in Runner : run'[v] = run[v] \/ (run'[v] = Idle /\ run[v].node = n)
    BY <1>t, <1>4, FaultSteps
  <2>2. disturbed' = disturbed \cup UNION {Holds(v) : v \in {w \in Runner : run[w].node = n}}
    BY <1>4 DEF Crash, Disturb
  <2>3. \A v \in Runner : run[v].node = n => e \notin Holds(v)
    BY <2>2
  <2>4. \A v \in Runner : run'[v] = run[v] \/ (e \notin Holds(v) /\ e \notin Holds(v)')
    BY <2>1, <2>3, IdleHolds
  <2> QED
    BY <1>2, <2>4, Unmoved
<1> QED
  BY <1>3, <1>4

LEMMA OnceInductive ==
  ASSUME OnceInv, [Next]_vars
  PROVE  OnceInv'
<1>1. ASSUME NEW e \in Event, e \notin disturbed' PROVE Sound(e)'
  <2>1. CASE \E k \in Key : ProcessJob(k) \/ SaveJobLetter(k) \/ Stall(k)
    BY <1>1, <2>1, JobSound
  <2>2. CASE (\E d \in Event : Toggle(d)) \/ UNCHANGED vars
    <3>1. UNCHANGED <<row, letters, jobs, delivered, run, disturbed>>
      BY <2>2 DEF Toggle, history, vars, database
    <3>2. Leaves(e) /\ Sound(e)
      BY <1>1, <3>1 DEF Leaves, OnceInv, UndisturbedIsSound
    <3> QED
      BY <3>1, <3>2, Unmoved
  <2>3. CASE (\E w \in Runner : FailQuery(w)) \/ (\E n \in up : Crash(n))
    BY <1>1, <2>3, FaultSound
  <2>4. CASE \E w \in Runner : Step(w)
    BY <1>1, <2>4, StepSound
  <2>5. CASE \E d \in Event, n \in up : Receive(d, n)
    BY <1>1, <2>5, ReceiveSound
  <2>6. CASE \E n \in up : BeginSweep(n)
    BY <1>1, <2>6, SweepSound
  <2>7. CASE \E n \in up, d \in Event : BeginRedrive(n, d)
    BY <1>1, <2>7, RedriveSound
  <2> QED
    BY <2>1, <2>2, <2>3, <2>4, <2>5, <2>6, <2>7 DEF Next
<1>2. UndisturbedIsSound'
  BY <1>1 DEF UndisturbedIsSound
<1> QED
  BY <1>2, LossInductive DEF OnceInv

LEMMA InitOnce == ASSUME Init PROVE OnceInv
<1>1. /\ \A w \in Runner : run[w] = Idle
      /\ \A k \in Key : jobs[k].state = "none"
      /\ \A e \in Event : letters[e] = <<>> /\ delivered[e] = 0
  BY InitPlaces DEF NoJob
<1>2. \A w \in Runner : Holds(w) = {}
  BY <1>1, IdleTyped DEF Holds
<1>3. ASSUME NEW e \in Event PROVE Sound(e)
  <2>1. Fresh(e)
    BY <1>1 DEF Fresh, OpenLetters, Single
  <2>2. Rests(e)
    BY <2>1, FreshFacts DEF Rests
  <2> QED
    BY <1>2, <2>2 DEF Sound, Alone, Held
<1> QED
  BY <1>3, InitLoss DEF OnceInv, UndisturbedIsSound

(* An event that no fault, no lost answer and no two runners at once had   *)
(* to do with reaches its plugin once at most, whatever the queue refuses, *)
(* the plugin throws and the operator switches off: the runner that holds  *)
(* it, a job or one dead letter is the only way left to another handling.  *)
THEOREM DeliveredOnceAlways == Spec => []DeliveredOnce
<1>1. Init => OnceInv
  BY InitOnce
<1>2. OnceInv /\ [Next]_vars => OnceInv'
  BY OnceInductive
<1>3. OnceInv => DeliveredOnce
  <2> SUFFICES ASSUME OnceInv, NEW e \in Event, e \notin disturbed
               PROVE  delivered[e] <= 1
    BY DEF DeliveredOnce
  <2>1. Sound(e)
    BY DEF OnceInv, UndisturbedIsSound
  <2>2. CASE ~Held(e)
    BY <2>1, <2>2 DEF Sound, Rests, OneWay, OneOf
  <2>3. ASSUME NEW w \in Runner, e \in Holds(w) PROVE delivered[e] <= 1
    <3>1. Counts(w, e)
      BY <2>1, <2>3 DEF Sound
    <3>2. (\E open : OneWay(e, open)) \/ Fresh(e)
      BY <3>1, RunnerKinds DEF Counts, LiveCounts, SweepCounts, RedriveCounts, Blank
    <3> QED
      BY <3>2 DEF OneWay, OneOf, Fresh
  <2> QED
    BY <2>2, <2>3 DEF Held
<1> QED
  BY <1>1, <1>2, <1>3, PTL DEF Spec
====
