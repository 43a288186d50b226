----------------------------- MODULE BulkMessagesProofs -----------------------------
(***************************************************************************)
(* Proofs about BulkMessages, for any number of processes, batches and     *)
(* recipients, any cap and any number of faults.                           *)
(*                                                                         *)
(* Five arguments.  The counter of a process is given one place for each   *)
(* run that starts and loses one for each that ends, and a creation hands  *)
(* its place to the run it starts.  A row that was cancelled is only ever  *)
(* written by guarded UPDATEs and by writes of CANCELLED, so long as the   *)
(* row a creation saves is a new one.  And a batch nothing disturbs has a  *)
(* single run that may send; what it has not come to has not been sent.    *)
(* That run finds a cancel at the next save of its progress at the latest, *)
(* so what it has sent since is what lies behind it up to the last save.   *)
(* And its copy of the row counts what it has come to; where it leaves     *)
(* recipients out it was stopped, and does not end as COMPLETED.           *)
(***************************************************************************)
EXTENDS BulkMessages, FiniteSetTheorems, TLAPS

Active(n, b, w) == run[n][b][w].at # "idle"
Creations(n) == {b \in Batch : creating[b] = n}

(* Where a run is once it has marked its row as PROCESSING. *)
Marked == {"check", "send", "save", "reread", "write"}

(* A batch that has no row yet is known to nobody but its creation. *)
NewIsUntouched ==
  \A b \in Batch : row[b].status = "none" =>
    /\ schedule[b] = "none"
    /\ cancel[b].by = NoNode
    /\ \A n \in Node : reaping[n][b] = NoRow
    /\ \A n \in Node, w \in Caller : ~Active(n, b, w)

CreatingIsNew == \A b \in Batch : creating[b] # NoNode => row[b].status = "none"

(* A row that a run has marked never goes back to PENDING. *)
MarkedIsPast ==
  \A n \in Node, b \in Batch, w \in Caller :
    run[n][b][w].at \in Marked => row[b].status \notin {"none", "PENDING"}

WritesAreTerminal ==
  \A n \in Node, b \in Batch, w \in Caller :
    run[n][b][w].at = "write" => run[n][b][w].copy.status \in Terminal

CancelsCancel == \A b \in Batch : cancel[b].by # NoNode => cancel[b].copy.status = "CANCELLED"

IInv ==
  /\ TypeOK
  /\ ReservationsCover
  /\ NewIsUntouched
  /\ CreatingIsNew
  /\ MarkedIsPast
  /\ WritesAreTerminal
  /\ CancelsCancel

(* What almost every step does to the rows, to the runs and to whatever    *)
(* may refer to a row that is not there yet.                               *)
RowsMoveOn ==
  \A b \in Batch :
    \/ row'[b].status = row[b].status
    \/ row[b].status # "none" /\ row'[b].status \notin {"none", "PENDING"}

RunsMoveOn ==
  \A n \in Node, b \in Batch, w \in Caller :
    \/ run'[n][b][w] = run[n][b][w]
    \/ run'[n][b][w].at = "idle"
    \/ /\ Active(n, b, w)
       /\ run'[n][b][w].at \in Marked => row'[b].status \notin {"none", "PENDING"}
       /\ run'[n][b][w].at = "write" => run'[n][b][w].copy.status \in Terminal

NothingForNew ==
  \A b \in Batch :
    /\ creating'[b] \in {creating[b], NoNode}
    /\ \/ cancel'[b] \in {cancel[b], NoCancel}
       \/ row[b].status # "none" /\ cancel'[b].copy.status = "CANCELLED"
    /\ row[b].status = "none" =>
         /\ schedule'[b] = schedule[b]
         /\ \A n \in Node : reaping'[n][b] \in {reaping[n][b], NoRow}

(* Without a fault the session stays where it was. *)
OwnerStays == faults = 0 => owner # NoNode /\ connected

Unsent(b) == \A i \in Item : delivered[b][i] = 0

(* The runs of an undisturbed batch: its creation's if it was to be sent   *)
(* at once, else those of the sweeps, of which the owner's alone goes on.  *)
RunsAlone(b) ==
  \A n \in Node, w \in Caller : Active(n, b, w) =>
    \/ /\ schedule[b] = "none" /\ w = "create"
       /\ \A m \in Node : Active(m, b, "create") => m = n
    \/ /\ schedule[b] = "due" /\ w = "sweep"
       /\ n = owner \/ run[n][b][w].at = "read"

(* What the run that may send has not come to yet. *)
AheadIsUnsent(b) ==
  \A n \in Node, w \in Caller : schedule[b] = "none" \/ n = owner =>
    /\ run[n][b][w].at \in {"read", "mark"} => Unsent(b)
    /\ run[n][b][w].at \in Marked =>
         \A i \in Item : i >= run[n][b][w].copy.next => delivered[b][i] = 0

(* Past PENDING, or nothing is sent; and both of the above.                *)
SentInOrder(b) ==
  /\ \A i \in Item : delivered[b][i] <= 1
  /\ row[b].status \in {"none", "PENDING"} => Unsent(b)
  /\ RunsAlone(b)
  /\ AheadIsUnsent(b)

SentInv ==
  /\ OwnerStays
  /\ \A b \in Batch : Undisturbed(b) => SentInOrder(b)

RowsNotBack ==
  \A b \in Batch : row'[b].status \in {"none", "PENDING"} => row[b].status \in {"none", "PENDING"}

(* What almost every step does to the runs of a batch. *)
RunsKeepOrder(b) ==
  \A n \in Node, w \in Caller :
    \/ run'[n][b][w].at = "idle"
    \/ /\ Active(n, b, w)
       /\ run'[n][b][w].at = "read" => run[n][b][w].at = "read"
       /\ run'[n][b][w].at # "read" =>
            run[n][b][w].at # "read" \/ schedule[b] = "none" \/ n = owner
       /\ run'[n][b][w].at = "mark" => run[n][b][w].at \in {"read", "mark"}
       /\ run'[n][b][w].at \in Marked =>
            \/ run[n][b][w].at = "mark"
            \/ /\ run[n][b][w].at \in Marked
               /\ run'[n][b][w].copy.next >= run[n][b][w].copy.next

(* What is left of an undisturbed batch once it is cancelled: a loop that  *)
(* is still sending has sent no more than what lies behind it up to the    *)
(* last save of its progress, which is where it finds out.                 *)
LateInOrder(b) ==
  /\ late[b] <= Cadence
  /\ \A n \in Node, w \in Caller :
       run[n][b][w].at \in {"check", "send"} /\ row[b].status = "CANCELLED" =>
         late[b] <= (run[n][b][w].copy.next - 1) % Cadence

LateInv == \A b \in Batch : Undisturbed(b) => LateInOrder(b)

(* The counters of an immediate batch.  Its row is fresh until the loop    *)
(* marks it and no reaper has a copy of it; from there on the loop's copy  *)
(* counts what was sent and what was not up to its index, which it leaves  *)
(* behind only when it was stopped by an error or told to stop.            *)
FreshRow(r) == r.next = 0 /\ r.sent = 0 /\ r.failed = 0

Reached(b) == Cardinality({i \in Item : delivered[b][i] > 0})

CountsKept(n, b) ==
  LET r == run[n][b]["create"] IN
  /\ r.at \in {"read", "mark", "fail"} => row[b].status \in {"PENDING", "CANCELLED"}
  /\ r.at = "mark" => FreshRow(r.copy) /\ ~r.stopped
  /\ r.at \in Marked =>
       /\ r.copy.sent = Reached(b)
       /\ ~r.stopped => r.copy.sent + r.copy.failed = r.copy.next /\ r.copy.next <= Total
  /\ r.at \in {"check", "send"} => ~r.stopped /\ r.copy.next < Total
  /\ r.at = "save" => ~r.stopped
  /\ r.at = "reread" /\ ~r.stopped => r.copy.next = Total \/ flag[n][b] # "run"
  /\ r.at = "write" /\ r.copy.status = "COMPLETED" => ~r.stopped /\ r.copy.next = Total

Exact(b) == row[b].sent + row[b].failed = Total /\ row[b].sent = Reached(b)

CountsInOrder(b) ==
  /\ row[b].status \in {"none", "PENDING"} => FreshRow(row[b])
  /\ row[b].status = "PENDING" => \A n \in Node : reaping[n][b] = NoRow
  /\ row[b].status = "COMPLETED" => Exact(b) /\ \A n \in Node : ~Active(n, b, "create")
  /\ \A n \in Node : CountsKept(n, b)
  /\ \A n, m \in Node : run[n][b]["create"].at \in {"read", "mark", "fail"} => reaping[m][b] = NoRow

CountInv == \A b \in Batch : schedule[b] = "none" => CountsInOrder(b)

(* What a step that has no part in the batch does to its row and its run.  *)
CountsUntouched(b) ==
  /\ row'[b] = row[b] /\ delivered'[b] = delivered[b]
  /\ \A n \in Node : reaping'[n][b] \in {reaping[n][b], NoRow} \/ row[b].status = "PROCESSING"
  /\ \A n \in Node :
       LET old == run[n][b]["create"]
           new == run'[n][b]["create"]
       IN  \/ new.at = "idle"
           \/ /\ new.at = old.at /\ new.copy = old.copy /\ new.stopped = old.stopped
              /\ flag'[n][b] = flag[n][b] \/ flag'[n][b] # "run"

-----------------------------------------------------------------------------

(* What a sweep does: it starts a set of due batches that it does not run. *)
LEMMA SweepStarts ==
  ASSUME NEW n \in Node, Sweep(n), run \in [Node -> [Batch -> [Caller -> RunRecord]]]
  PROVE  \E S \in SUBSET Batch :
           /\ \A c \in S : row[c].status = "PENDING" /\ IsDue(c)
           /\ \A m \in Node, c \in Batch, v \in Caller :
                run'[m][c][v] = IF m = n /\ c \in S /\ v = "sweep" THEN Starting ELSE run[m][c][v]
           /\ run' \in [Node -> [Batch -> [Caller -> RunRecord]]]
           /\ inFlight' = [inFlight EXCEPT ![n] = @ + Cardinality(S)]
<1>1. PICK s \in SUBSET Due :
        /\ Started(n, s)
        /\ inFlight' = [inFlight EXCEPT ![n] = @ + Cardinality(Startable(n, s))]
  BY DEF Sweep
<1> DEFINE S == Startable(n, s)
           new == [b \in Batch |-> IF b \in S THEN [run[n][b] EXCEPT !["sweep"] = Starting] ELSE run[n][b]]
<1>2. S \in SUBSET Batch /\ \A c \in S : row[c].status = "PENDING" /\ IsDue(c)
  BY DEF Startable, Due
<1>3. run' = [run EXCEPT ![n] = new]
  BY <1>1 DEF Started
<1>4. Starting \in RunRecord /\ "sweep" \in Caller
  <2>1. Idle \in RunRecord
    BY DEF Idle, NoRow, RunRecord, RunStates, Row, Statuses
  <2> QED BY <2>1 DEF Starting, RunRecord, RunStates, Caller
<1>5. inFlight' = [inFlight EXCEPT ![n] = @ + Cardinality(S)]
  BY <1>1
<1> HIDE DEF S
<1>6. \A c \in Batch, v \in Caller :
        new[c][v] = IF c \in S /\ v = "sweep" THEN Starting ELSE run[n][c][v]
  BY <1>4
<1>7. new \in [Batch -> [Caller -> RunRecord]]
  BY <1>4
<1> HIDE DEF new
<1>8. /\ \A m \in Node, c \in Batch, v \in Caller :
           run'[m][c][v] = IF m = n /\ c \in S /\ v = "sweep" THEN Starting ELSE run[m][c][v]
      /\ run' \in [Node -> [Batch -> [Caller -> RunRecord]]]
  BY <1>3, <1>6, <1>7
<1> QED BY <1>2, <1>5, <1>8

(* Every step keeps the types, the cover of the counter, and what is said  *)
(* of new rows, marked rows and final writes.                              *)
LEMMA IInvInductive ==
  /\ Init => IInv
  /\ IInv /\ [Next]_vars => IInv'
<1>i. ASSUME Init PROVE IInv
  <2> USE <1>i DEF Init
  <2>1. NoRow \in Row /\ Idle \in RunRecord /\ NoCancel \in [by: Node \cup {NoNode}, copy: Row]
    BY DEF Idle, NoRow, NoCancel, RunRecord, RunStates, Row, Statuses
  <2>2. owner \in Node
    BY ConstantsAssumption
  <2>3. connected \in BOOLEAN
    OBVIOUS
  <2>4. TypeOK
    BY <2>1, <2>2, <2>3 DEF TypeOK, ScheduleValues
  <2>5. ReservationsCover
    <3>1. ASSUME NEW n \in Node
          PROVE  Runs(n) = {} /\ {b \in Batch : creating[b] = n} = {} /\ inFlight[n] = 0
      <4>1. \A b \in Batch, w \in Caller : run[n][b][w].at = "idle"
        BY DEF Idle
      <4>2. Runs(n) = {}
        BY <4>1 DEF Runs
      <4>3. {b \in Batch : creating[b] = n} = {}
        BY ConstantsAssumption
      <4> QED BY <4>2, <4>3
    <3>2. ASSUME NEW n \in Node
          PROVE  inFlight[n] >= Cardinality(Runs(n)) + Cardinality({b \in Batch : creating[b] = n})
      <4>1. Cardinality(Runs(n)) = 0 /\ Cardinality({b \in Batch : creating[b] = n}) = 0
        BY <3>1, FS_EmptySet
      <4> QED BY <3>1, <4>1
    <3> QED BY <3>2 DEF ReservationsCover
  <2>6. NewIsUntouched /\ CreatingIsNew /\ CancelsCancel
    BY DEF NewIsUntouched, CreatingIsNew, CancelsCancel, NoRow, NoCancel, Idle, Active
  <2>7. MarkedIsPast /\ WritesAreTerminal
    BY DEF MarkedIsPast, WritesAreTerminal, Marked, Idle
  <2> QED BY <2>4, <2>5, <2>6, <2>7 DEF IInv
<1> USE DEF IInv
<1> SUFFICES ASSUME IInv, [Next]_vars PROVE IInv'
  BY <1>i
<1>1. /\ IsFiniteSet(Batch \X Caller) /\ IsFiniteSet(Batch)
      /\ \A R \in SUBSET (Batch \X Caller) : IsFiniteSet(R) /\ Cardinality(R) \in Nat
      /\ \A R \in SUBSET (Batch \X Caller), p \in Batch \X Caller :
           Cardinality(R \cup {p}) <= Cardinality(R) + 1
      /\ \A R \in SUBSET Batch : IsFiniteSet(R) /\ Cardinality(R) \in Nat
  <2>1. IsFiniteSet({}) /\ IsFiniteSet({} \cup {"create"}) /\ IsFiniteSet({} \cup {"create"} \cup {"sweep"})
    BY FS_EmptySet, FS_AddElement
  <2>2. IsFiniteSet(Caller)
    <3>1. Caller = {} \cup {"create"} \cup {"sweep"}
      BY DEF Caller
    <3> QED BY <2>1, <3>1
  <2>3. /\ IsFiniteSet(Batch \X Caller) /\ IsFiniteSet(Batch)
        /\ \A R \in SUBSET (Batch \X Caller) : IsFiniteSet(R) /\ Cardinality(R) \in Nat
        /\ \A R \in SUBSET Batch : IsFiniteSet(R) /\ Cardinality(R) \in Nat
    BY <2>2, ConstantsAssumption, FS_Product, FS_Subset, FS_CardinalityType
  <2>4. ASSUME NEW R \in SUBSET (Batch \X Caller), NEW p \in Batch \X Caller
        PROVE  Cardinality(R \cup {p}) <= Cardinality(R) + 1
    <3>1. IsFiniteSet(R) /\ Cardinality(R) \in Nat
      BY <2>3
    <3>2. Cardinality(R \cup {p}) = IF p \in R THEN Cardinality(R) ELSE Cardinality(R) + 1
      BY <3>1, FS_AddElement
    <3> QED BY <3>1, <3>2
  <2> QED BY <2>3, <2>4
<1>2. ASSUME NEW n \in Node
      PROVE  /\ Runs(n) \in SUBSET (Batch \X Caller) /\ Creations(n) \in SUBSET Batch
             /\ inFlight[n] \in Nat
             /\ inFlight[n] >= Cardinality(Runs(n)) + Cardinality(Creations(n))
  BY DEF Runs, Creations, ReservationsCover, TypeOK
<1>3. ASSUME NEW n \in Node, NEW b \in Batch, NEW w \in Caller, NEW r \in RunRecord
      PROVE  /\ [run EXCEPT ![n][b][w] = r] \in [Node -> [Batch -> [Caller -> RunRecord]]]
             /\ \A m \in Node, c \in Batch, v \in Caller :
                  [run EXCEPT ![n][b][w] = r][m][c][v] =
                    IF m = n /\ c = b /\ v = w THEN r ELSE run[m][c][v]
  BY DEF TypeOK
<1>4. ASSUME NEW n \in Node, NEW b \in Batch
      PROVE  /\ [inFlight EXCEPT ![n] = @ + 1] \in [Node -> Nat]
             /\ creating[b] = n => inFlight[n] >= 1
             /\ \A w \in Caller : Active(n, b, w) => inFlight[n] >= 1
  <2>1. creating[b] = n => b \in Creations(n)
    BY DEF Creations
  <2>2. ASSUME NEW w \in Caller, Active(n, b, w) PROVE <<b, w>> \in Runs(n)
    BY <2>2 DEF Runs, Active
  <2>3. Runs(n) # {} \/ Creations(n) # {} => inFlight[n] >= 1
    BY <1>1, <1>2, FS_EmptySet
  <2>4. [inFlight EXCEPT ![n] = @ + 1] \in [Node -> Nat]
    BY DEF TypeOK
  <2> HIDE DEF IInv
  <2> QED BY <2>1, <2>2, <2>3, <2>4
<1>r. /\ \A r \in Row, s \in Statuses : [r EXCEPT !.status = s] \in Row /\ [r EXCEPT !.status = s].status = s
      /\ Idle \in RunRecord /\ Idle.at = "idle"
      /\ Starting \in RunRecord /\ Starting.at = "read"
  <2>1. \A r \in Row, s \in Statuses : [r EXCEPT !.status = s] \in Row /\ [r EXCEPT !.status = s].status = s
    BY DEF Row
  <2>2. Idle \in RunRecord /\ Idle.at = "idle"
    BY DEF Idle, NoRow, RunRecord, RunStates, Row, Statuses
  <2>3. Starting \in RunRecord /\ Starting.at = "read"
    BY <2>2 DEF Starting, RunRecord, RunStates
  <2> QED BY <2>1, <2>2, <2>3
<1>5. ASSUME NEW n \in Node, NEW b \in Batch, NEW w \in Caller, Active(n, b, w),
             run' = [run EXCEPT ![n][b][w] = Idle], inFlight' = [inFlight EXCEPT ![n] = @ - 1],
             UNCHANGED creating
      PROVE  /\ run' \in [Node -> [Batch -> [Caller -> RunRecord]]]
             /\ inFlight' \in [Node -> Nat]
             /\ ReservationsCover'
  <2>1. Idle \in RunRecord /\ Idle.at = "idle"
    BY <1>r
  <2>2. /\ run' \in [Node -> [Batch -> [Caller -> RunRecord]]]
        /\ \A m \in Node, c \in Batch, v \in Caller :
             run'[m][c][v] = IF m = n /\ c = b /\ v = w THEN Idle ELSE run[m][c][v]
    BY <1>3, <1>5, <2>1
  <2>3. inFlight' \in [Node -> Nat]
    BY <1>4, <1>5 DEF TypeOK
  <2>4. ASSUME NEW m \in Node
        PROVE  inFlight'[m] >= Cardinality(Runs(m)') + Cardinality(Creations(m)')
    <3>1. Creations(m)' = Creations(m)
      BY <1>5 DEF Creations
    <3>2. CASE m = n
      <4>1. Runs(n)' = Runs(n) \ {<<b, w>>} /\ <<b, w>> \in Runs(n)
        BY <1>5, <2>1, <2>2 DEF Runs, Active
      <4>0. IsFiniteSet(Runs(n))
        BY <1>1, <1>2
      <4>2. Cardinality(Runs(n)') = Cardinality(Runs(n)) - 1
        BY <4>0, <4>1, FS_RemoveElement
      <4>3. inFlight'[n] = inFlight[n] - 1
        BY <1>5 DEF TypeOK
      <4> QED BY <3>1, <3>2, <4>1, <4>2, <4>3, <1>1, <1>2
    <3>3. CASE m # n
      <4>1. Runs(m)' = Runs(m)
        BY <2>2, <3>3 DEF Runs
      <4>2. inFlight'[m] = inFlight[m]
        BY <1>5, <3>3 DEF TypeOK
      <4> QED BY <3>1, <4>1, <4>2, <1>2
    <3> QED BY <3>2, <3>3
  <2> QED BY <2>2, <2>3, <2>4 DEF ReservationsCover, Creations
<1>6. ASSUME NEW n \in Node, NEW b \in Batch, NEW w \in Caller, NEW r \in RunRecord,
             Active(n, b, w), r.at # "idle",
             run' = [run EXCEPT ![n][b][w] = r], UNCHANGED <<inFlight, creating>>
      PROVE  ReservationsCover'
  <2>1. \A m \in Node : Runs(m)' = Runs(m)
    BY <1>3, <1>6 DEF Runs, Active
  <2> QED BY <1>6, <2>1 DEF ReservationsCover
<1>7. ASSUME UNCHANGED <<run, inFlight, creating>>
      PROVE  ReservationsCover'
  BY <1>7 DEF ReservationsCover, Runs
<1> DEFINE Rest == NewIsUntouched /\ CreatingIsNew /\ MarkedIsPast /\ WritesAreTerminal /\ CancelsCancel
<1>s. ASSUME RowsMoveOn, RunsMoveOn, NothingForNew
      PROVE  Rest'
  <2>1. \A n \in Node, b \in Batch, w \in Caller : Active(n, b, w) => row[b].status # "none"
    BY DEF NewIsUntouched
  <2>2. \A b \in Batch : row'[b].status = "none" => row[b].status = "none"
    BY <1>s DEF RowsMoveOn
  <2>3. NewIsUntouched'
    BY <1>s, <2>1, <2>2 DEF NewIsUntouched, Active, RunsMoveOn, NothingForNew, NoCancel
  <2>4. CreatingIsNew'
    BY <1>s DEF CreatingIsNew, NothingForNew, RowsMoveOn
  <2>5. MarkedIsPast'
    BY <1>s DEF MarkedIsPast, Marked, RowsMoveOn, RunsMoveOn
  <2>6. WritesAreTerminal'
    BY <1>s DEF WritesAreTerminal, RunsMoveOn
  <2>7. CancelsCancel'
    BY <1>s DEF CancelsCancel, NothingForNew, NoCancel
  <2> QED BY <2>3, <2>4, <2>5, <2>6, <2>7
<1>u. /\ UNCHANGED row => RowsMoveOn
      /\ UNCHANGED run => RunsMoveOn
      /\ UNCHANGED <<schedule, creating, cancel, reaping>> => NothingForNew
  BY DEF RowsMoveOn, RunsMoveOn, NothingForNew, MarkedIsPast
<1> HIDE DEF IInv
<1>f. ASSUME NEW n \in Node, NEW b \in Batch, NEW w \in Caller, Active(n, b, w), Finish(n, b, w),
             UNCHANGED <<schedule, creating, cancel, reaper, reaping, owner, connected, others, faults, delivered, late>>,
             row' \in [Batch -> Row], RowsMoveOn
      PROVE  IInv'
  <2>1. /\ run' \in [Node -> [Batch -> [Caller -> RunRecord]]]
        /\ inFlight' \in [Node -> Nat]
        /\ ReservationsCover'
    BY <1>5, <1>f DEF Finish
  <2>2. TypeOK'
    BY <2>1, <1>f DEF Finish, IInv, TypeOK
  <2>3. RunsMoveOn
    BY <1>3, <1>f, <1>r DEF Finish, RunsMoveOn
  <2>4. Rest'
    BY <1>s, <1>f, <1>u, <2>3
  <2> QED BY <2>1, <2>2, <2>4 DEF IInv
<1>8. ASSUME NEW n \in Node, NEW b \in Batch, Reserve(n, b) PROVE IInv'
  <2> USE <1>8 DEF Reserve, session, history
  <2>1. inFlight' \in [Node -> Nat]
    BY <1>4
  <2>2. TypeOK'
    BY <2>1 DEF IInv, TypeOK
  <2>3. ASSUME NEW m \in Node
        PROVE  inFlight'[m] >= Cardinality(Runs(m)') + Cardinality(Creations(m)')
    <3>1. Runs(m)' = Runs(m)
      BY DEF Runs
    <3>2. CASE m = n
      <4>1. Creations(n)' = Creations(n) \cup {b} /\ b \notin Creations(n)
        BY ConstantsAssumption DEF IInv, TypeOK, Creations
      <4>2. IsFiniteSet(Creations(n))
        BY <1>1, <1>2
      <4>3. Cardinality(Creations(n)') = Cardinality(Creations(n)) + 1
        BY <4>1, <4>2, FS_AddElement
      <4>4. inFlight'[n] = inFlight[n] + 1
        BY DEF IInv, TypeOK
      <4> QED BY <3>1, <3>2, <4>3, <4>4, <1>1, <1>2
    <3>3. CASE m # n
      <4>1. Creations(m)' = Creations(m)
        BY <3>3, ConstantsAssumption DEF IInv, TypeOK, Creations
      <4>2. inFlight'[m] = inFlight[m]
        BY <3>3 DEF IInv, TypeOK
      <4> QED BY <3>1, <4>1, <4>2, <1>2
    <3> QED BY <3>2, <3>3
  <2>4. ReservationsCover'
    BY <2>3 DEF ReservationsCover, Creations
  <2>5. Rest'
    BY DEF IInv, NewIsUntouched, CreatingIsNew, MarkedIsPast, WritesAreTerminal, CancelsCancel,
       Active, TypeOK
  <2> QED BY <2>2, <2>4, <2>5 DEF IInv
<1>9. ASSUME NEW n \in Node, NEW b \in Batch, SaveNew(n, b) PROVE IInv'
  <2> USE <1>9 DEF SaveNew, session, history
  <2>1. PICK s \in Schedules :
          /\ schedule' = [schedule EXCEPT ![b] = s]
          /\ run' = IF s = "later" THEN run ELSE [run EXCEPT ![n][b]["create"] = Starting]
    OBVIOUS
  <2>2. Starting \in RunRecord /\ Starting.at = "read" /\ "create" \in Caller
    BY <1>r DEF Caller
  <2>3. run' \in [Node -> [Batch -> [Caller -> RunRecord]]]
    BY <1>3, <2>1, <2>2 DEF IInv, TypeOK
  <2>4. TypeOK'
    <3>1. row' \in [Batch -> Row]
      BY <1>r DEF IInv, TypeOK, Statuses
    <3>2. schedule' \in [Batch -> ScheduleValues]
      BY <2>1, ConstantsAssumption DEF IInv, TypeOK, ScheduleValues
    <3>3. creating' \in [Batch -> Node \cup {NoNode}]
      BY DEF IInv, TypeOK
    <3> QED BY <2>3, <3>1, <3>2, <3>3 DEF IInv, TypeOK
  <2>5. /\ ~Active(n, b, "create")
        /\ row[b].status = "none"
        /\ b \in Creations(n)
    BY <2>2, ConstantsAssumption DEF IInv, CreatingIsNew, NewIsUntouched, Creations
  <2>6. ASSUME NEW m \in Node
        PROVE  inFlight'[m] >= Cardinality(Runs(m)') + Cardinality(Creations(m)')
    <3>1. inFlight'[m] = inFlight[m]
      OBVIOUS
    <3>2. CASE m = n
      <4>1. Creations(n)' = Creations(n) \ {b}
        BY ConstantsAssumption DEF IInv, TypeOK, Creations
      <4>2. IsFiniteSet(Creations(n)) /\ IsFiniteSet(Runs(n))
        BY <1>1, <1>2
      <4>3. Cardinality(Creations(n)') = Cardinality(Creations(n)) - 1
        BY <2>5, <4>1, <4>2, FS_RemoveElement
      <4>4. Runs(n)' \in {Runs(n), Runs(n) \cup {<<b, "create">>}}
        BY <1>3, <2>1, <2>2 DEF Runs
      <4>5. /\ Cardinality(Runs(n) \cup {<<b, "create">>}) \in Nat
            /\ Cardinality(Runs(n) \cup {<<b, "create">>}) <= Cardinality(Runs(n)) + 1
        <5>1. <<b, "create">> \in Batch \X Caller /\ Runs(n) \in SUBSET (Batch \X Caller)
          BY <2>2, <1>2
        <5> QED BY <5>1, <1>1
      <4>6. Cardinality(Runs(n)) \in Nat
        BY <4>2, FS_CardinalityType
      <4>7. Cardinality(Runs(n)') \in Nat /\ Cardinality(Runs(n)') <= Cardinality(Runs(n)) + 1
        BY <4>4, <4>5, <4>6
      <4> QED BY <3>1, <3>2, <4>3, <4>6, <4>7, <1>1, <1>2
    <3>3. CASE m # n
      <4>1. Creations(m)' = Creations(m)
        BY <3>3, ConstantsAssumption DEF IInv, TypeOK, Creations
      <4>2. Runs(m)' = Runs(m)
        BY <1>3, <2>1, <2>2, <3>3 DEF Runs
      <4> QED BY <3>1, <4>1, <4>2, <1>2
    <3> QED BY <3>2, <3>3
  <2>7. ReservationsCover'
    BY <2>6 DEF ReservationsCover, Creations
  <2>8. Rest'
    BY SMTT(30), <1>3, <2>1, <2>2, <2>5 DEF IInv, NewIsUntouched, CreatingIsNew, MarkedIsPast,
       WritesAreTerminal, CancelsCancel,
                                  Active, TypeOK, Marked
  <2> QED BY <2>4, <2>7, <2>8 DEF IInv
<1>10. ASSUME NEW n \in Node, NEW b \in Batch, SaveFails(n, b) PROVE IInv'
  <2> USE <1>10 DEF SaveFails, session, history
  <2>0. inFlight' \in [Node -> Nat]
    BY <1>4, ConstantsAssumption DEF IInv, TypeOK
  <2>t. TypeOK'
    BY <2>0, ConstantsAssumption DEF IInv, TypeOK
  <2>1. ASSUME NEW m \in Node
        PROVE  inFlight'[m] >= Cardinality(Runs(m)') + Cardinality(Creations(m)')
    <3>1. Runs(m)' = Runs(m)
      BY DEF Runs
    <3>2. CASE m = n
      <4>1. Creations(n)' = Creations(n) \ {b} /\ b \in Creations(n)
        BY ConstantsAssumption DEF IInv, TypeOK, Creations
      <4>2. IsFiniteSet(Creations(n))
        BY <1>1, <1>2
      <4>3. Cardinality(Creations(n)') = Cardinality(Creations(n)) - 1
        BY <4>1, <4>2, FS_RemoveElement
      <4>4. inFlight'[n] = inFlight[n] - 1
        BY DEF IInv, TypeOK
      <4> QED BY <3>1, <3>2, <4>3, <4>4, <1>1, <1>2
    <3>3. CASE m # n
      <4>1. Creations(m)' = Creations(m)
        BY <3>3, ConstantsAssumption DEF IInv, TypeOK, Creations
      <4>2. inFlight'[m] = inFlight[m]
        BY <3>3 DEF IInv, TypeOK
      <4> QED BY <3>1, <4>1, <4>2, <1>2
    <3> QED BY <3>2, <3>3
  <2>c. ReservationsCover'
    BY <2>1 DEF ReservationsCover, Creations
  <2>r. Rest'
    BY DEF IInv, NewIsUntouched, CreatingIsNew, MarkedIsPast, WritesAreTerminal, CancelsCancel,
       Active, TypeOK, Marked
  <2> QED BY <2>t, <2>c, <2>r DEF IInv
<1>11. ASSUME NEW n \in Node, Sweep(n) PROVE IInv'
  <2>0. PICK S \in SUBSET Batch :
          /\ \A c \in S : row[c].status = "PENDING"
          /\ \A m \in Node, c \in Batch, v \in Caller :
               run'[m][c][v] = IF m = n /\ c \in S /\ v = "sweep" THEN Starting ELSE run[m][c][v]
          /\ run' \in [Node -> [Batch -> [Caller -> RunRecord]]]
          /\ inFlight' = [inFlight EXCEPT ![n] = @ + Cardinality(S)]
    BY <1>11, SweepStarts DEF IInv, TypeOK
  <2>1. /\ UNCHANGED <<row, schedule, creating, flag, cancel, reaper, reaping, owner, connected, others,
                       faults, delivered, late>>
        /\ "sweep" \in Caller
    BY <1>11 DEF Sweep, session, history, Caller
  <2>2. inFlight' \in [Node -> Nat]
    <3>1. Cardinality(S) \in Nat
      BY <1>1
    <3> QED BY <2>0, <3>1 DEF IInv, TypeOK
  <2>t. TypeOK'
    BY <2>0, <2>1, <2>2 DEF IInv, TypeOK
  <2>3. ASSUME NEW m \in Node
        PROVE  inFlight'[m] >= Cardinality(Runs(m)') + Cardinality(Creations(m)')
    <3>1. Creations(m)' = Creations(m)
      BY <2>1 DEF Creations
    <3>2. CASE m = n
      <4> DEFINE New == S \X {"sweep"}
      <4>1. Runs(n)' = Runs(n) \cup New
        BY <2>0, <2>1, <1>r DEF Runs
      <4>2. IsFiniteSet(New) /\ Cardinality(New) = Cardinality(S) * 1
        <5>1. IsFiniteSet({"sweep"}) /\ Cardinality({"sweep"}) = 1
          BY FS_Singleton
        <5>2. IsFiniteSet(S)
          BY <2>0, <1>1
        <5> QED BY <5>1, <5>2, FS_Product
      <4>3. New \cap Runs(n) \in SUBSET (Batch \X Caller) /\ New \in SUBSET (Batch \X Caller)
        BY <1>2, <2>1
      <4> HIDE DEF New
      <4>4. Cardinality(Runs(n)') = Cardinality(Runs(n)) + Cardinality(New) - Cardinality(New \cap Runs(n))
        <5>1. IsFiniteSet(Runs(n)) /\ Runs(n) \cap New = New \cap Runs(n)
          BY <1>1, <1>2
        <5> QED BY <4>1, <4>2, <5>1, FS_Union
      <4>5. inFlight'[n] = inFlight[n] + Cardinality(S)
        BY <2>0, <1>1 DEF IInv, TypeOK
      <4> QED BY <3>1, <3>2, <4>2, <4>3, <4>4, <4>5, <1>1, <1>2, <2>0
    <3>3. CASE m # n
      <4>1. Runs(m)' = Runs(m)
        BY <2>0, <3>3 DEF Runs
      <4>2. inFlight'[m] = inFlight[m]
        BY <2>0, <3>3 DEF IInv, TypeOK
      <4> QED BY <3>1, <4>1, <4>2, <1>2
    <3> QED BY <3>2, <3>3
  <2>c. ReservationsCover'
    BY <2>3 DEF ReservationsCover, Creations
  <2>4. Starting.at = "read" /\ Starting.at \notin Marked
    BY <1>r DEF Marked
  <2>r. Rest'
    <3>1. NewIsUntouched'
      <4>1. ASSUME NEW m \in Node, NEW c \in Batch, NEW v \in Caller, row[c].status = "none"
            PROVE  ~Active(m, c, v)'
        <5>1. run'[m][c][v] = run[m][c][v]
          BY <2>0, <4>1
        <5> QED BY <4>1, <5>1 DEF IInv, NewIsUntouched, Active
      <4> QED BY <2>1, <4>1 DEF IInv, NewIsUntouched
    <3>2. CreatingIsNew' /\ CancelsCancel'
      BY <2>1 DEF IInv, CreatingIsNew, CancelsCancel
    <3>3. ASSUME NEW m \in Node, NEW c \in Batch, NEW v \in Caller, run'[m][c][v].at \in Marked
          PROVE  row'[c].status \notin {"none", "PENDING"}
      <4>1. run'[m][c][v] = run[m][c][v]
        <5>1. run'[m][c][v] \in {Starting, run[m][c][v]}
          BY <2>0
        <5> QED BY <2>4, <3>3, <5>1
      <4> QED BY <2>1, <3>3, <4>1 DEF IInv, MarkedIsPast
    <3>4. WritesAreTerminal'
      <4>1. ASSUME NEW m \in Node, NEW c \in Batch, NEW v \in Caller, run'[m][c][v].at = "write"
            PROVE  run'[m][c][v].copy.status \in Terminal
        <5>1. run'[m][c][v] = run[m][c][v]
          BY <2>0, <2>4, <4>1
        <5> QED BY <4>1, <5>1 DEF IInv, WritesAreTerminal
      <4> QED BY <4>1 DEF WritesAreTerminal, Terminal
    <3>5. MarkedIsPast'
      BY <3>3 DEF MarkedIsPast, Marked
    <3> QED BY <3>1, <3>2, <3>4, <3>5
  <2> QED BY <2>t, <2>c, <2>r DEF IInv
<1>12. ASSUME NEW n \in Node, NEW b \in Batch, NEW w \in Caller, ReadBatch(n, b, w) PROVE IInv'
  <2> DEFINE r == [at |-> IF EngineAt(n) THEN "mark" ELSE "fail",
                   live |-> EngineAt(n), stopped |-> FALSE, copy |-> row[b]]
  <2>1. Active(n, b, w)
    BY <1>12 DEF ReadBatch, Active
  <2>2. r \in RunRecord /\ r.at \in {"mark", "fail"}
    <3>1. EngineAt(n) \in BOOLEAN
      BY Zenon DEF EngineAt, IInv, TypeOK
    <3>2. row[b] \in Row
      BY DEF IInv, TypeOK
    <3> QED BY <3>1, <3>2 DEF RunRecord, RunStates
  <2> HIDE DEF r
  <2>3. UNCHANGED <<row, schedule, creating, cancel, reaper, reaping, owner, connected, others, faults, delivered, late>>
    BY <1>12 DEF ReadBatch, session, history
  <2>4. CASE Finish(n, b, w)
    <3>1. row' \in [Batch -> Row] /\ RowsMoveOn
      BY <1>u, <2>3 DEF IInv, TypeOK
    <3> QED BY <1>f, <2>1, <2>3, <2>4, <3>1
  <2>5. CASE flag' = [flag EXCEPT ![n][b] = "run"] /\ run' = [run EXCEPT ![n][b][w] = r] /\ UNCHANGED inFlight
    <3>1. /\ run' \in [Node -> [Batch -> [Caller -> RunRecord]]]
          /\ \A m \in Node, c \in Batch, v \in Caller :
               run'[m][c][v] = IF m = n /\ c = b /\ v = w THEN r ELSE run[m][c][v]
      BY <1>3, <2>2, <2>5
    <3>2. ReservationsCover'
      BY <1>6, <2>1, <2>2, <2>3, <2>5
    <3>3. TypeOK'
      BY <2>3, <2>5, <3>1 DEF IInv, TypeOK
    <3>4. RunsMoveOn
      BY <2>1, <2>2, <3>1 DEF RunsMoveOn, Marked
    <3>5. Rest'
      BY <1>s, <1>u, <2>3, <3>4
    <3> QED BY <3>2, <3>3, <3>5 DEF IInv
  <2> QED BY <1>12, <2>4, <2>5 DEF ReadBatch, r
<1>a. ASSUME NEW n \in Node, NEW b \in Batch, NEW w \in Caller, run[n][b][w].at # "idle"
      PROVE  /\ Active(n, b, w)
             /\ row[b].status # "none"
             /\ run[n][b][w] \in RunRecord /\ run[n][b][w].copy \in Row /\ row[b] \in Row
  BY <1>a DEF IInv, NewIsUntouched, Active, TypeOK, RunRecord
<1>g. ASSUME NEW b \in Batch, NEW new \in Row, row[b].status # "none",
             new.status \notin {"none", "PENDING"}, Guarded(b, new)
      PROVE  row' \in [Batch -> Row] /\ RowsMoveOn /\ row'[b].status \notin {"none", "PENDING"}
  BY <1>g DEF IInv, TypeOK, Guarded, RowsMoveOn
<1>z. ASSUME NEW r \in Row, NEW c, NEW s
      PROVE  Final(c, s, r) \in Row /\ Final(c, s, r).status \in Terminal
  <2>1. FinalStatus(c, s, r) \in Terminal
    BY DEF FinalStatus, Terminal
  <2>2. (IF c THEN Pending(r) ELSE r.cancelled) \in Int
    BY ConstantsAssumption DEF Pending, Row
  <2> QED BY <2>1, <2>2 DEF Final, Row, Statuses, Terminal
<1>m. ASSUME NEW n \in Node, NEW b \in Batch, NEW w \in Caller, NEW r \in RunRecord,
             Active(n, b, w), r.at # "idle", run' = [run EXCEPT ![n][b][w] = r],
             UNCHANGED <<schedule, creating, flag, inFlight, cancel, reaper, reaping, owner,
                         connected, others, faults>>,
             row' \in [Batch -> Row], RowsMoveOn,
             delivered' \in [Batch -> [Item -> Nat]], late' \in [Batch -> Nat],
             r.at \in Marked => row'[b].status \notin {"none", "PENDING"},
             r.at = "write" => r.copy.status \in Terminal
      PROVE  IInv'
  <2>1. /\ run' \in [Node -> [Batch -> [Caller -> RunRecord]]]
        /\ \A m \in Node, c \in Batch, v \in Caller :
             run'[m][c][v] = IF m = n /\ c = b /\ v = w THEN r ELSE run[m][c][v]
    BY <1>3, <1>m
  <2>2. ReservationsCover'
    BY <1>6, <1>m
  <2>3. TypeOK'
    BY <1>m, <2>1 DEF IInv, TypeOK
  <2>4. RunsMoveOn
    <3>1. ASSUME NEW m \in Node, NEW c \in Batch, NEW v \in Caller, run[m][c][v].at \in Marked
          PROVE  row'[c].status \notin {"none", "PENDING"}
      BY <1>m, <3>1 DEF IInv, MarkedIsPast, RowsMoveOn
    <3> QED BY <1>m, <2>1, <3>1 DEF RunsMoveOn
  <2>5. Rest'
    BY <1>s, <1>u, <1>m, <2>4
  <2> QED BY <2>2, <2>3, <2>5 DEF IInv
<1>13. ASSUME NEW n \in Node, NEW b \in Batch, NEW w \in Caller, FailWithoutEngine(n, b, w) PROVE IInv'
  <2>1. run[n][b][w].at # "idle"
    BY <1>13 DEF FailWithoutEngine
  <2>2. row' \in [Batch -> Row] /\ RowsMoveOn
    BY <1>13, <1>a, <1>g, <1>r, <2>1 DEF FailWithoutEngine, Statuses
  <2> QED BY <1>13, <1>f, <1>a, <2>1, <2>2 DEF FailWithoutEngine, session, history
<1>14. ASSUME NEW n \in Node, NEW b \in Batch, NEW w \in Caller, MarkProcessing(n, b, w) PROVE IInv'
  <2>1. run[n][b][w].at # "idle"
    BY <1>14 DEF MarkProcessing
  <2>2. row' \in [Batch -> Row] /\ RowsMoveOn /\ row'[b].status \notin {"none", "PENDING"}
    BY <1>14, <1>a, <1>g, <1>r, <2>1 DEF MarkProcessing, Statuses
  <2>3. CASE Finish(n, b, w)
    BY <1>14, <1>f, <1>a, <2>1, <2>2, <2>3 DEF MarkProcessing, session, history
  <2>4. CASE ~Finish(n, b, w)
    <3> DEFINE at == IF run[n][b][w].copy.next < Total THEN "check" ELSE "reread"
    <3> DEFINE r == [run[n][b][w] EXCEPT !.at = at]
    <3>1. at \in {"check", "reread"}
      OBVIOUS
    <3> HIDE DEF at
    <3>2. r \in RunRecord /\ r.at = at
      BY <1>a, <2>1, <3>1 DEF RunRecord, RunStates
    <3>3. run' = [run EXCEPT ![n][b][w] = r]
      BY <1>14, <2>4 DEF MarkProcessing, Step, at
    <3>4. /\ UNCHANGED <<schedule, creating, flag, inFlight, cancel, reaper, reaping, owner, connected, others, faults>>
          /\ delivered' \in [Batch -> [Item -> Nat]] /\ late' \in [Batch -> Nat]
      BY <1>14, <2>4 DEF MarkProcessing, session, history, IInv, TypeOK
    <3> HIDE DEF r
    <3> QED BY <1>m, <1>a, <2>1, <2>2, <3>1, <3>2, <3>3, <3>4
  <2> QED BY <2>3, <2>4
<1>15. ASSUME NEW n \in Node, NEW b \in Batch, NEW w \in Caller, CheckFlag(n, b, w) PROVE IInv'
  <2>1. run[n][b][w].at # "idle" /\ row[b].status \notin {"none", "PENDING"}
    BY <1>15 DEF CheckFlag, IInv, MarkedIsPast, Marked
  <2> DEFINE at == IF flag[n][b] = "run" THEN "send" ELSE "reread"
  <2> DEFINE r == [run[n][b][w] EXCEPT !.at = at]
  <2>2. at \in {"send", "reread"}
    OBVIOUS
  <2> HIDE DEF at
  <2>3. r \in RunRecord /\ r.at = at
    BY <1>a, <2>1, <2>2 DEF RunRecord, RunStates
  <2>4. run' = [run EXCEPT ![n][b][w] = r]
    BY <1>15 DEF CheckFlag, Step, at
  <2>5. /\ UNCHANGED <<row, schedule, creating, flag, inFlight, cancel, reaper, reaping, owner, connected, others, faults>>
        /\ row' \in [Batch -> Row]
        /\ delivered' \in [Batch -> [Item -> Nat]] /\ late' \in [Batch -> Nat]
    BY <1>15 DEF CheckFlag, session, history, IInv, TypeOK
  <2> HIDE DEF r
  <2> QED BY <1>m, <1>a, <1>u, <2>1, <2>2, <2>3, <2>4, <2>5
<1>16. ASSUME NEW n \in Node, NEW b \in Batch, NEW w \in Caller, Sent(n, b, w) PROVE IInv'
  <2> DEFINE i == run[n][b][w].copy.next
  <2> DEFINE r == [run[n][b][w] EXCEPT !.at = AfterMessage(i), !.copy.next = i + 1, !.copy.sent = @ + 1]
  <2>1. run[n][b][w].at # "idle" /\ row[b].status \notin {"none", "PENDING"}
    BY <1>16 DEF Sent, IInv, MarkedIsPast, Marked
  <2>0. run[n][b][w] \in RunRecord /\ run[n][b][w].copy \in Row
    BY <1>a, <2>1
  <2>2. AfterMessage(i) \in {"save", "check"}
    BY DEF AfterMessage
  <2>3. r \in RunRecord /\ r.at = AfterMessage(i)
    <3> DEFINE k == [run[n][b][w].copy EXCEPT !.next = i + 1, !.sent = @ + 1]
    <3>0. ASSUME NEW c \in Row PROVE [c EXCEPT !.next = c.next + 1, !.sent = @ + 1] \in Row
      <4>1. c.next + 1 \in Nat /\ c.sent + 1 \in Nat
        BY DEF Row
      <4>2. \A x \in Nat, y \in Nat : [c EXCEPT !.next = x, !.sent = y] \in Row
        BY DEF Row
      <4> QED BY <4>1, <4>2
    <3>1. k \in Row
      BY <2>0, <3>0
    <3>2. r = [run[n][b][w] EXCEPT !.at = AfterMessage(i), !.copy = k]
      BY <2>0 DEF RunRecord
    <3> HIDE DEF k, r
    <3> QED BY <2>0, <2>2, <3>1, <3>2 DEF RunRecord, RunStates
  <2>4. run' = [run EXCEPT ![n][b][w] = r]
    BY <1>16 DEF Sent
  <2>5. delivered' \in [Batch -> [Item -> Nat]]
    <3>1. delivered[b] \in [Item -> Nat]
      BY DEF IInv, TypeOK
    <3>2. ASSUME NEW f \in [Item -> Nat], NEW j PROVE [f EXCEPT ![j] = @ + 1] \in [Item -> Nat]
      <4>1. CASE j \in Item
        BY <4>1
      <4>2. CASE j \notin Item
        <5>1. [f EXCEPT ![j] = @ + 1] = f
          BY <4>2
        <5> QED BY <5>1
      <4> QED BY <4>1, <4>2
    <3>3. delivered' = [delivered EXCEPT ![b] = [delivered[b] EXCEPT ![i] = @ + 1]]
      BY <1>16 DEF Sent
    <3> QED BY <3>1, <3>2, <3>3 DEF IInv, TypeOK
  <2>6. late' \in [Batch -> Nat]
    BY <1>16 DEF Sent, IInv, TypeOK
  <2>7. /\ UNCHANGED <<row, schedule, creating, flag, inFlight, cancel, reaper, reaping, owner, connected, others, faults>>
        /\ row' \in [Batch -> Row]
    BY <1>16 DEF Sent, session, IInv, TypeOK
  <2> HIDE DEF r, i
  <2> QED BY ZenonT(40), <1>m, <1>a, <1>u, <2>1, <2>2, <2>3, <2>4, <2>5, <2>6, <2>7
<1>17. ASSUME NEW n \in Node, NEW b \in Batch, NEW w \in Caller, SendFails(n, b, w) PROVE IInv'
  <2> DEFINE i == run[n][b][w].copy.next
  <2> DEFINE stop == [run[n][b][w] EXCEPT !.at = "reread", !.stopped = TRUE, !.copy.failed = @ + 1]
  <2> DEFINE on == [run[n][b][w] EXCEPT !.at = AfterMessage(i), !.copy.next = i + 1, !.copy.failed = @ + 1]
  <2>1. run[n][b][w].at # "idle" /\ row[b].status \notin {"none", "PENDING"}
    BY <1>17 DEF SendFails, IInv, MarkedIsPast, Marked
  <2>0. run[n][b][w] \in RunRecord /\ run[n][b][w].copy \in Row
    BY <1>a, <2>1
  <2>2. AfterMessage(i) \in {"save", "check"}
    BY DEF AfterMessage
  <2>3. on \in RunRecord /\ on.at = AfterMessage(i)
    <3> DEFINE k == [run[n][b][w].copy EXCEPT !.next = i + 1, !.failed = @ + 1]
    <3>0. ASSUME NEW c \in Row PROVE [c EXCEPT !.next = c.next + 1, !.failed = @ + 1] \in Row
      <4>1. c.next + 1 \in Nat /\ c.failed + 1 \in Nat
        BY DEF Row
      <4>2. \A x \in Nat, y \in Nat : [c EXCEPT !.next = x, !.failed = y] \in Row
        BY DEF Row
      <4> QED BY <4>1, <4>2
    <3>1. k \in Row
      BY <2>0, <3>0
    <3>2. on = [run[n][b][w] EXCEPT !.at = AfterMessage(i), !.copy = k]
      BY <2>0 DEF RunRecord
    <3> HIDE DEF k, on
    <3> QED BY <2>0, <2>2, <3>1, <3>2 DEF RunRecord, RunStates
  <2>4. stop \in RunRecord /\ stop.at = "reread"
    <3> DEFINE k == [run[n][b][w].copy EXCEPT !.failed = @ + 1]
    <3>1. k \in Row
      BY <2>0 DEF Row
    <3>2. stop = [run[n][b][w] EXCEPT !.at = "reread", !.stopped = TRUE, !.copy = k]
      BY <2>0 DEF RunRecord
    <3> HIDE DEF k, stop
    <3> QED BY <2>0, <2>2, <3>1, <3>2 DEF RunRecord, RunStates
  <2>5. run' = [run EXCEPT ![n][b][w] = stop] \/ run' = [run EXCEPT ![n][b][w] = on]
    BY <1>17 DEF SendFails
  <2>6. /\ UNCHANGED <<row, schedule, creating, flag, inFlight, cancel, reaper, reaping, owner, connected, others, faults>>
        /\ row' \in [Batch -> Row]
        /\ delivered' \in [Batch -> [Item -> Nat]] /\ late' \in [Batch -> Nat]
    BY <1>17 DEF SendFails, session, history, IInv, TypeOK
  <2> HIDE DEF stop, on, i
  <2> QED BY <1>m, <1>a, <1>u, <2>1, <2>2, <2>3, <2>4, <2>5, <2>6
<1>18. ASSUME NEW n \in Node, NEW b \in Batch, NEW w \in Caller, SaveProgress(n, b, w) PROVE IInv'
  <2> DEFINE old == run[n][b][w]
  <2> DEFINE new == [old.copy EXCEPT !.status = row[b].status]
  <2> DEFINE fin == Final(TRUE, old.stopped, old.copy)
  <2> DEFINE at == IF old.copy.next < Total THEN "check" ELSE "reread"
  <2>1. /\ old.at # "idle" /\ row[b].status \notin {"none", "PENDING"}
        /\ old \in RunRecord /\ old.copy \in Row /\ row[b] \in Row /\ row[b].status \in Statuses
    <3>1. old.at # "idle" /\ row[b].status \notin {"none", "PENDING"}
      BY <1>18 DEF SaveProgress, IInv, MarkedIsPast, Marked
    <3> QED BY <1>a, <3>1 DEF Row
  <2>2. row' \in [Batch -> Row] /\ RowsMoveOn /\ row'[b].status \notin {"none", "PENDING"}
    <3>1. new \in Row /\ new.status = row[b].status
      BY <1>r, <2>1
    <3>2. Guarded(b, new)
      BY <1>18 DEF SaveProgress
    <3> HIDE DEF new
    <3> QED BY <1>g, <2>1, <3>1, <3>2
  <2>3. fin \in Row /\ fin.status \in Terminal
    BY <1>z, <2>1
  <2>4. at \in {"check", "reread"}
    OBVIOUS
  <2>5. \/ run' = [run EXCEPT ![n][b][w] = [old EXCEPT !.at = "write", !.copy = fin]]
        \/ run' = [run EXCEPT ![n][b][w] = [old EXCEPT !.at = at]]
    BY <1>18 DEF SaveProgress
  <2>6. /\ UNCHANGED <<schedule, creating, flag, inFlight, cancel, reaper, reaping, owner, connected, others, faults>>
        /\ delivered' \in [Batch -> [Item -> Nat]] /\ late' \in [Batch -> Nat]
    BY <1>18 DEF SaveProgress, session, history, IInv, TypeOK
  <2> HIDE DEF fin, at
  <2>7. /\ [old EXCEPT !.at = "write", !.copy = fin] \in RunRecord
        /\ [old EXCEPT !.at = at] \in RunRecord
        /\ [old EXCEPT !.at = "write", !.copy = fin].copy = fin
        /\ [old EXCEPT !.at = "write", !.copy = fin].at = "write"
        /\ [old EXCEPT !.at = at].at = at
    BY <2>1, <2>3, <2>4 DEF RunRecord, RunStates
  <2> DEFINE r1 == [old EXCEPT !.at = "write", !.copy = fin]
  <2> DEFINE r2 == [old EXCEPT !.at = at]
  <2>8. Active(n, b, w)
    BY <1>a, <2>1
  <2>9. CASE run' = [run EXCEPT ![n][b][w] = r1]
    <3>1. r1 \in RunRecord /\ r1.at # "idle" /\ r1.copy.status \in Terminal
      BY <2>3, <2>7
    <3> HIDE DEF r1
    <3> QED BY <1>m, <2>2, <2>6, <2>8, <2>9, <3>1
  <2>10. CASE run' = [run EXCEPT ![n][b][w] = r2]
    <3>1. r2 \in RunRecord /\ r2.at \notin {"idle", "write"}
      BY <2>4, <2>7
    <3> HIDE DEF r2
    <3> QED BY <1>m, <2>2, <2>6, <2>8, <2>10, <3>1
  <2> QED BY <2>5, <2>9, <2>10
<1>19. ASSUME NEW n \in Node, NEW b \in Batch, NEW w \in Caller, Reread(n, b, w) PROVE IInv'
  <2> DEFINE old == run[n][b][w]
  <2> DEFINE fin == Final(row[b].status = "CANCELLED" \/ flag[n][b] # "run", old.stopped, old.copy)
  <2> DEFINE r == [old EXCEPT !.at = "write", !.copy = fin]
  <2>1. /\ old.at # "idle" /\ row[b].status \notin {"none", "PENDING"}
        /\ Active(n, b, w) /\ old \in RunRecord /\ old.copy \in Row
    <3>1. old.at # "idle" /\ row[b].status \notin {"none", "PENDING"}
      BY <1>19 DEF Reread, IInv, MarkedIsPast, Marked
    <3> QED BY <1>a, <3>1
  <2>2. fin \in Row /\ fin.status \in Terminal
    BY <1>z, <2>1
  <2>3. run' = [run EXCEPT ![n][b][w] = r]
    BY <1>19 DEF Reread
  <2>4. /\ UNCHANGED <<row, schedule, creating, flag, inFlight, cancel, reaper, reaping, owner, connected, others, faults>>
        /\ row' \in [Batch -> Row] /\ delivered' \in [Batch -> [Item -> Nat]] /\ late' \in [Batch -> Nat]
    BY <1>19 DEF Reread, session, history, IInv, TypeOK
  <2> HIDE DEF fin
  <2>5. r \in RunRecord /\ r.at # "idle" /\ r.copy.status \in Terminal
    BY <2>1, <2>2 DEF RunRecord, RunStates
  <2> HIDE DEF r
  <2> QED BY <1>m, <1>u, <2>1, <2>3, <2>4, <2>5
<1>20. ASSUME NEW n \in Node, NEW b \in Batch, NEW w \in Caller, WriteFinal(n, b, w) PROVE IInv'
  <2> DEFINE new == run[n][b][w].copy
  <2>1. /\ Active(n, b, w) /\ row[b].status # "none" /\ new \in Row
        /\ new.status \notin {"none", "PENDING"}
    <3>1. run[n][b][w].at # "idle" /\ new.status \notin {"none", "PENDING"}
      BY <1>20 DEF WriteFinal, IInv, WritesAreTerminal, Terminal
    <3> QED BY <1>a, <3>1
  <2>2. row' \in [Batch -> Row] /\ RowsMoveOn
    <3>1. CASE row' = [row EXCEPT ![b] = new]
      BY <2>1, <3>1 DEF IInv, TypeOK, RowsMoveOn
    <3>2. CASE Guarded(b, new)
      BY <1>g, <2>1, <3>2
    <3> QED BY <1>20, <3>1, <3>2 DEF WriteFinal
  <2> QED BY <1>20, <1>f, <2>1, <2>2 DEF WriteFinal, session, history
<1>21. ASSUME NEW n \in Node, NEW b \in Batch, NEW w \in Caller, QueryFails(n, b, w) PROVE IInv'
  <2>1. Active(n, b, w)
    BY <1>21 DEF QueryFails, Active
  <2>2. /\ run' = [run EXCEPT ![n][b][w] = Idle] /\ inFlight' = [inFlight EXCEPT ![n] = @ - 1]
        /\ UNCHANGED <<row, schedule, creating, cancel, reaper, reaping, owner, connected, others, delivered, late>>
        /\ faults' = faults + 1
    BY <1>21 DEF QueryFails, session, history
  <2>3. /\ run' \in [Node -> [Batch -> [Caller -> RunRecord]]]
        /\ inFlight' \in [Node -> Nat]
        /\ ReservationsCover'
    BY <1>5, <2>1, <2>2
  <2>4. flag' \in [Node -> [Batch -> {"unset", "run", "stop"}]]
    BY <1>21 DEF QueryFails, IInv, TypeOK
  <2>5. TypeOK'
    BY <2>2, <2>3, <2>4 DEF IInv, TypeOK
  <2>6. RunsMoveOn
    BY <1>3, <1>r, <2>2 DEF RunsMoveOn
  <2>7. Rest'
    BY <1>s, <1>u, <2>2, <2>6
  <2> QED BY <2>3, <2>5, <2>7 DEF IInv
<1>22. ASSUME NEW n \in Node, NEW b \in Batch, CancelRead(n, b) PROVE IInv'
  <2>1. /\ UNCHANGED <<row, schedule, creating, run, inFlight, reaper, reaping, owner, connected, others, faults, delivered, late>>
        /\ flag' = [flag EXCEPT ![n][b] = "stop"]
        /\ cancel' = [cancel EXCEPT ![b] = [by |-> n, copy |-> Cancelled(row[b])]]
        /\ row[b].status # "none"
    BY <1>22 DEF CancelRead, session, history
  <2>2. Cancelled(row[b]) \in Row /\ Cancelled(row[b]).status = "CANCELLED"
    <3>1. row[b] \in Row /\ Pending(row[b]) \in Int
      BY ConstantsAssumption DEF IInv, TypeOK, Pending, Row
    <3> QED BY <3>1 DEF Cancelled, Row, Statuses
  <2>3. TypeOK'
    BY <2>1, <2>2 DEF IInv, TypeOK
  <2>4. NothingForNew
    BY <2>1, <2>2 DEF NothingForNew, IInv, TypeOK
  <2>5. Rest'
    BY <1>s, <1>u, <2>1, <2>4
  <2> QED BY <1>7, <2>1, <2>3, <2>5 DEF IInv
<1>23. ASSUME NEW n \in Node, NEW b \in Batch, CancelWrite(n, b) PROVE IInv'
  <2> DEFINE new == [cancel[b].copy EXCEPT !.next = row[b].next]
  <2>1. /\ UNCHANGED <<schedule, creating, run, flag, inFlight, reaper, reaping, owner, connected, others, faults, delivered>>
        /\ cancel' = [cancel EXCEPT ![b] = NoCancel] /\ cancel[b].by = n
        /\ \/ row[b].status # "none" /\ row' = [row EXCEPT ![b] = new] /\ late' = [late EXCEPT ![b] = 0]
           \/ UNCHANGED <<row, late>>
    BY <1>23 DEF CancelWrite, session
  <2>2. new \in Row /\ new.status = "CANCELLED"
    <3>1. cancel[b].copy \in Row /\ cancel[b].copy.status = "CANCELLED" /\ row[b].next \in Nat
      BY <2>1, ConstantsAssumption DEF IInv, TypeOK, CancelsCancel, Row
    <3> QED BY <3>1 DEF Row
  <2> HIDE DEF new
  <2>3. NoCancel \in [by: Node \cup {NoNode}, copy: Row]
    BY <1>r DEF NoCancel, NoRow, Row, Statuses
  <2>4. TypeOK'
    <3>1. cancel' \in [Batch -> [by: Node \cup {NoNode}, copy: Row]]
      BY <2>1, <2>3 DEF IInv, TypeOK
    <3>2. row' \in [Batch -> Row]
      BY <2>1, <2>2 DEF IInv, TypeOK
    <3>3. late' \in [Batch -> Nat]
      <4>1. late \in [Batch -> Nat]
        BY DEF IInv, TypeOK
      <4> QED BY <2>1, <4>1
    <3> QED BY <2>1, <3>1, <3>2, <3>3 DEF IInv, TypeOK
  <2>5. RowsMoveOn
    BY <2>1, <2>2 DEF RowsMoveOn, IInv, TypeOK
  <2>6. NothingForNew
    BY <2>1 DEF NothingForNew, IInv, TypeOK
  <2>7. RunsMoveOn
    <3>1. \A m \in Node, c \in Batch, v \in Caller : run[m][c][v].at \in Marked => row'[c].status \notin {"none", "PENDING"}
      BY <2>5 DEF RowsMoveOn, IInv, MarkedIsPast
    <3> QED BY <2>1, <3>1 DEF RunsMoveOn
  <2>8. Rest'
    BY <1>s, <2>5, <2>6, <2>7
  <2> QED BY <1>7, <2>1, <2>4, <2>8 DEF IInv
<1>24. ASSUME NEW n \in Node, ReapRead(n) PROVE IInv'
  <2>1. /\ UNCHANGED <<row, schedule, creating, run, flag, inFlight, cancel, owner, connected, others, faults, delivered, late>>
        /\ reaper' = [reaper EXCEPT ![n] = "idle"]
        /\ reaping' = [reaping EXCEPT ![n] = [b \in Batch |->
                         IF row[b].status = "PROCESSING" /\ (reaper[n] = "adopted" \/ owner \in {n, NoNode})
                           THEN row[b] ELSE NoRow]]
    BY <1>24 DEF ReapRead, session, history
  <2>2. NoRow \in Row
    BY DEF NoRow, Row, Statuses
  <2>3. TypeOK'
    BY <2>1, <2>2 DEF IInv, TypeOK
  <2>4. NothingForNew
    BY <2>1 DEF NothingForNew, IInv, TypeOK
  <2>5. Rest'
    BY <1>s, <1>u, <2>1, <2>4
  <2> QED BY <1>7, <2>1, <2>3, <2>5 DEF IInv
<1>25. ASSUME NEW n \in Node, NEW b \in Batch, ReapSave(n, b) PROVE IInv'
  <2> DEFINE new == [reaping[n][b] EXCEPT !.status = "FAILED"]
  <2>1. /\ UNCHANGED <<schedule, creating, run, flag, inFlight, cancel, reaper, owner, connected, others, faults, delivered, late>>
        /\ reaping' = [reaping EXCEPT ![n][b] = NoRow]
        /\ row' = [row EXCEPT ![b] = new]
        /\ row[b].status # "none"
    BY <1>25 DEF ReapSave, session, history, IInv, NewIsUntouched
  <2>2. new \in Row /\ new.status = "FAILED" /\ NoRow \in Row
    <3>1. reaping[n][b] \in Row /\ "FAILED" \in Statuses
      BY DEF IInv, TypeOK, Statuses
    <3>2. NoRow \in Row
      BY DEF NoRow, Row, Statuses
    <3> QED BY <1>r, <3>1, <3>2
  <2> HIDE DEF new
  <2>3. TypeOK'
    BY <2>1, <2>2 DEF IInv, TypeOK
  <2>4. RowsMoveOn
    BY <2>1, <2>2 DEF RowsMoveOn, IInv, TypeOK
  <2>5. NothingForNew
    BY <2>1 DEF NothingForNew, IInv, TypeOK
  <2>6. RunsMoveOn
    <3>1. \A m \in Node, c \in Batch, v \in Caller : run[m][c][v].at \in Marked => row'[c].status \notin {"none", "PENDING"}
      BY <2>4 DEF RowsMoveOn, IInv, MarkedIsPast
    <3> QED BY <2>1, <3>1 DEF RunsMoveOn
  <2>7. Rest'
    BY <1>s, <2>4, <2>5, <2>6
  <2> QED BY <1>7, <2>1, <2>3, <2>7 DEF IInv
<1>26. ASSUME NEW b \in Batch, TimeComes(b) PROVE IInv'
  <2>1. /\ UNCHANGED <<row, creating, run, flag, inFlight, cancel, reaper, reaping, owner, connected, others, faults, delivered, late>>
        /\ schedule' = [schedule EXCEPT ![b] = "due"] /\ schedule[b] = "later"
    BY <1>26 DEF TimeComes, session, history
  <2>2. TypeOK'
    BY <2>1 DEF IInv, TypeOK, ScheduleValues
  <2>3. NothingForNew
    BY <2>1 DEF NothingForNew, IInv, TypeOK, NewIsUntouched
  <2>4. Rest'
    BY <1>s, <1>u, <2>1, <2>3
  <2> QED BY <1>7, <2>1, <2>2, <2>4 DEF IInv
<1>27. ASSUME NEW n \in Node, Connect(n) \/ Adopt(n) PROVE IInv'
  <2>1. /\ UNCHANGED <<row, schedule, creating, run, flag, inFlight, cancel, reaping, others, faults,
                       delivered, late>>
        /\ owner' = n /\ connected' = TRUE
        /\ reaper' \in {reaper, [reaper EXCEPT ![n] = "adopted"]}
    BY <1>27 DEF Connect, Adopt, history
  <2>2. TypeOK'
    BY <2>1 DEF IInv, TypeOK
  <2>3. Rest'
    BY <1>s, <1>u, <2>1
  <2> QED BY <1>7, <2>1, <2>2, <2>3 DEF IInv
<1>28. ASSUME Disconnect PROVE IInv'
  <2>1. /\ UNCHANGED <<row, schedule, creating, flag, inFlight, cancel, reaper, reaping, owner, others,
                       delivered, late>>
        /\ connected' = FALSE /\ faults' = faults + 1 /\ run' = Orphaned(run)
    BY <1>28 DEF Disconnect, history
  <2>2. ASSUME NEW n \in Node, NEW b \in Batch, NEW w \in Caller
        PROVE  /\ run'[n][b][w] \in RunRecord
               /\ run'[n][b][w].at = run[n][b][w].at
               /\ run'[n][b][w].copy = run[n][b][w].copy
    <3>1. run'[n][b][w] = [run[n][b][w] EXCEPT !.live = FALSE]
      BY <2>1 DEF Orphaned
    <3>2. run[n][b][w] \in RunRecord
      BY DEF IInv, TypeOK
    <3> QED BY <3>1, <3>2 DEF RunRecord
  <2>3. run' \in [Node -> [Batch -> [Caller -> RunRecord]]]
    BY <2>1, <2>2 DEF Orphaned
  <2>4. TypeOK'
    <3>1. connected' \in BOOLEAN
      BY <2>1
    <3>2. faults' \in Nat
      BY <2>1 DEF IInv, TypeOK
    <3> QED BY <2>1, <2>3, <3>1, <3>2 DEF IInv, TypeOK
  <2>5. \A n \in Node : Runs(n)' = Runs(n)
    BY <2>2 DEF Runs
  <2>6. ReservationsCover'
    BY <2>1, <2>5 DEF IInv, ReservationsCover
  <2>7. RunsMoveOn
    BY <2>1, <2>2 DEF RunsMoveOn, IInv, MarkedIsPast, WritesAreTerminal, Active
  <2>8. Rest'
    BY <1>s, <1>u, <2>1, <2>7
  <2> QED BY <2>4, <2>6, <2>8 DEF IInv
<1>29. ASSUME LoseLease PROVE IInv'
  <2>1. /\ UNCHANGED <<row, schedule, creating, run, flag, inFlight, cancel, reaper, reaping, connected, others,
                       faults, delivered, late>>
        /\ owner' = NoNode
    BY <1>29 DEF LoseLease, history
  <2>2. TypeOK'
    BY <2>1 DEF IInv, TypeOK
  <2>3. Rest'
    BY <1>s, <1>u, <2>1
  <2> QED BY <1>7, <2>1, <2>2, <2>3 DEF IInv
<1>30. ASSUME NEW n \in Node, Crash(n) PROVE IInv'
  <2> DEFINE all == [b \in Batch |-> [w \in Caller |-> Idle]]
  <2>1. /\ UNCHANGED <<row, schedule, owner, others, delivered, late>>
        /\ faults' = faults + 1
        /\ creating' = [b \in Batch |-> IF creating[b] = n THEN NoNode ELSE creating[b]]
        /\ run' = [run EXCEPT ![n] = all]
        /\ flag' = [flag EXCEPT ![n] = [b \in Batch |-> "unset"]]
        /\ inFlight' = [inFlight EXCEPT ![n] = 0]
        /\ cancel' = [b \in Batch |-> IF cancel[b].by = n THEN NoCancel ELSE cancel[b]]
        /\ reaper' = [reaper EXCEPT ![n] = "boot"]
        /\ reaping' = [reaping EXCEPT ![n] = [b \in Batch |-> NoRow]]
    BY <1>30 DEF Crash, history
  <2>2. connected' \in BOOLEAN
    BY <1>30, Zenon DEF Crash
  <2>3. NoRow \in Row /\ NoCancel \in [by: Node \cup {NoNode}, copy: Row]
    BY DEF NoCancel, NoRow, Row, Statuses
  <2>4. /\ run' \in [Node -> [Batch -> [Caller -> RunRecord]]]
        /\ \A m \in Node, b \in Batch, w \in Caller :
             run'[m][b][w] = IF m = n THEN Idle ELSE run[m][b][w]
    BY <1>r, <2>1 DEF IInv, TypeOK
  <2>5. /\ creating' \in [Batch -> Node \cup {NoNode}]
        /\ cancel' \in [Batch -> [by: Node \cup {NoNode}, copy: Row]]
        /\ reaping' \in [Node -> [Batch -> Row]]
        /\ inFlight' \in [Node -> Nat]
        /\ flag' \in [Node -> [Batch -> {"unset", "run", "stop"}]]
        /\ reaper' \in [Node -> {"idle", "boot", "adopted"}]
    BY <2>1, <2>3 DEF IInv, TypeOK
  <2>6. TypeOK'
    BY <2>1, <2>2, <2>4, <2>5 DEF IInv, TypeOK
  <2>7. ASSUME NEW m \in Node
        PROVE  inFlight'[m] >= Cardinality(Runs(m)') + Cardinality(Creations(m)')
    <3>1. CASE m = n
      <4>1. Runs(n)' = {}
        BY <2>4, <1>r DEF Runs
      <4>2. Creations(n)' = {}
        BY <2>1, ConstantsAssumption DEF Creations
      <4>3. inFlight'[n] = 0
        BY <2>1 DEF IInv, TypeOK
      <4> QED BY <3>1, <4>1, <4>2, <4>3, FS_EmptySet
    <3>2. CASE m # n
      <4>1. Runs(m)' = Runs(m)
        BY <2>4, <3>2 DEF Runs
      <4>2. Creations(m)' = Creations(m)
        BY <2>1, <3>2, ConstantsAssumption DEF Creations
      <4>3. inFlight'[m] = inFlight[m]
        BY <2>1, <3>2 DEF IInv, TypeOK
      <4> QED BY <4>1, <4>2, <4>3, <1>2
    <3> QED BY <3>1, <3>2
  <2>8. ReservationsCover'
    BY <2>7 DEF ReservationsCover, Creations
  <2>9. RunsMoveOn
    BY <2>4, <1>r DEF RunsMoveOn
  <2>10. NothingForNew
    BY <2>1 DEF NothingForNew, IInv, TypeOK
  <2>11. Rest'
    BY <1>s, <1>u, <2>1, <2>9, <2>10
  <2> QED BY <2>6, <2>8, <2>11 DEF IInv
<1>32. ASSUME OthersChange PROVE IInv'
  <2>1. /\ UNCHANGED <<row, schedule, creating, run, flag, inFlight, cancel, reaper, reaping, owner,
                       connected, faults, delivered, late>>
        /\ others' \in 0 .. MaxOthers
    BY <1>32 DEF OthersChange, history
  <2>2. TypeOK'
    BY <2>1, ConstantsAssumption DEF IInv, TypeOK
  <2>3. Rest'
    BY <1>s, <1>u, <2>1
  <2> QED BY <1>7, <2>1, <2>2, <2>3 DEF IInv
<1>31. ASSUME UNCHANGED vars PROVE IInv'
  <2>1. UNCHANGED <<row, schedule, creating, run, flag, inFlight, cancel, reaper, reaping, owner,
                    connected, others, faults, delivered, late>>
    BY <1>31 DEF vars, session, history
  <2>2. TypeOK'
    BY <2>1 DEF IInv, TypeOK
  <2>3. Rest'
    BY <1>s, <1>u, <2>1
  <2> QED BY <1>7, <2>1, <2>2, <2>3 DEF IInv
<1> QED
  BY <1>8, <1>9, <1>10, <1>11, <1>12, <1>13, <1>14, <1>15, <1>16, <1>17, <1>18, <1>19, <1>20,
     <1>21, <1>22,
     <1>23, <1>24, <1>25, <1>26, <1>27, <1>28, <1>29, <1>30, <1>31, <1>32 DEF Next, RunStep

-----------------------------------------------------------------------------

(* The types.                                                              *)
THEOREM TypeCorrect == Spec => []TypeOK
<1>1. Init => IInv
  BY IInvInductive
<1>2. IInv /\ [Next]_vars => IInv'
  BY IInvInductive
<1>3. IInv => TypeOK
  BY DEF IInv
<1> QED BY <1>1, <1>2, <1>3, PTL DEF Spec

(* The counter that createBatch() compares with its cap is never below the *)
(* loops and creations at work, so no batch is created beside MaxInFlight  *)
(* others.  That the counter comes down again is not said, and the sweep   *)
(* starts batches whatever it says.                                        *)
THEOREM ReservationsCoverAlways == Spec => []ReservationsCover
<1>1. Init => IInv
  BY IInvInductive
<1>2. IInv /\ [Next]_vars => IInv'
  BY IInvInductive
<1>3. IInv => ReservationsCover
  BY DEF IInv
<1> QED BY <1>1, <1>2, <1>3, PTL DEF Spec

(* No step but a reaper's save takes a batch out of CANCELLED: the run's   *)
(* UPDATEs are guarded, its last save writes CANCELLED over anything but   *)
(* no other outcome over CANCELLED, and a creation saves a new row.        *)
THEOREM CancelledStaysAlways == Spec => CancelledStays
<1> DEFINE Kept == \A b \in Batch : row[b].status = "CANCELLED" => row'[b].status = "CANCELLED" \/ Reaped(b)
<1>1. Init => IInv
  BY IInvInductive
<1>2. IInv /\ [Next]_vars => IInv'
  BY IInvInductive
<1>3. ASSUME IInv, [Next]_vars PROVE [Kept]_vars
  <2>0. SUFFICES ASSUME NEW b \in Batch, row[b].status = "CANCELLED"
                 PROVE  row'[b].status = "CANCELLED" \/ Reaped(b)
    OBVIOUS
  <2>1. row \in [Batch -> Row]
    BY <1>3 DEF IInv, TypeOK
  <2>2. ASSUME NEW c \in Batch, NEW new, Guarded(c, new) PROVE row'[b].status = "CANCELLED"
    BY <2>0, <2>1, <2>2 DEF Guarded
  <2>3. CASE row' = row
    BY <2>0, <2>3
  <2>4. ASSUME NEW n \in Node, NEW c \in Batch, SaveNew(n, c) PROVE row'[b].status = "CANCELLED"
    <3>1. row[c].status = "none"
      BY <1>3, <2>4, ConstantsAssumption DEF SaveNew, IInv, CreatingIsNew
    <3> QED BY <2>0, <2>1, <2>4, <3>1 DEF SaveNew
  <2>5. ASSUME NEW n \in Node, NEW c \in Batch, NEW w \in Caller, RunStep(n, c, w)
        PROVE  row'[b].status = "CANCELLED"
    <3>1. CASE WriteFinal(n, c, w)
      <4>1. CASE run[n][c][w].copy.status = "CANCELLED"
        BY <2>0, <2>1, <3>1, <4>1 DEF WriteFinal
      <4> QED BY <2>2, <3>1, <4>1 DEF WriteFinal
    <3>2. CASE FailWithoutEngine(n, c, w)
      BY <2>2, <3>2 DEF FailWithoutEngine
    <3>3. CASE MarkProcessing(n, c, w)
      BY <2>2, <3>3 DEF MarkProcessing
    <3>4. CASE SaveProgress(n, c, w)
      BY <2>2, <3>4 DEF SaveProgress
    <3>5. CASE ReadBatch(n, c, w) \/ CheckFlag(n, c, w) \/ Sent(n, c, w) \/ SendFails(n, c, w) \/ Reread(n, c, w)
      <4>1. row' = row
        BY <3>5 DEF ReadBatch, CheckFlag, Sent, SendFails, Reread
      <4> QED BY <2>0, <4>1
    <3> QED BY <2>5, <3>1, <3>2, <3>3, <3>4, <3>5 DEF RunStep
  <2>6. ASSUME NEW n \in Node, NEW c \in Batch, CancelWrite(n, c) PROVE row'[b].status = "CANCELLED"
    BY <2>0, <2>1, <2>6 DEF CancelWrite
  <2>7. ASSUME NEW n \in Node, NEW c \in Batch, ReapSave(n, c)
        PROVE  row'[b].status = "CANCELLED" \/ Reaped(b)
    <3>1. CASE c = b
      <4>1. reaping[n][b] # NoRow /\ reaping'[n][b] = NoRow
        BY <1>3, <2>7, <3>1 DEF ReapSave, IInv, TypeOK
      <4> QED BY <4>1 DEF Reaped
    <3>2. CASE c # b
      BY <2>0, <2>1, <2>7, <3>2 DEF ReapSave
    <3> QED BY <3>1, <3>2
  <2>8. ASSUME NEW n \in Node, NEW c \in Batch, NEW w \in Caller,
               \/ Reserve(n, c) \/ SaveFails(n, c) \/ QueryFails(n, c, w) \/ CancelRead(n, c)
               \/ Sweep(n) \/ ReapRead(n) \/ Connect(n) \/ Adopt(n) \/ Crash(n)
               \/ TimeComes(c) \/ Disconnect \/ LoseLease \/ OthersChange \/ UNCHANGED vars
        PROVE  row' = row
    BY <2>8 DEF Reserve, SaveFails, QueryFails, CancelRead, Sweep, ReapRead, Connect, Adopt,
       Crash, TimeComes,
                Disconnect, LoseLease, OthersChange, vars
  <2>9. "create" \in Caller /\ \E n \in Node : TRUE
    BY ConstantsAssumption DEF Caller
  <2> QED BY <1>3, <2>3, <2>4, <2>5, <2>6, <2>7, <2>8, <2>9 DEF Next
<1> QED BY <1>1, <1>2, <1>3, PTL DEF Spec, CancelledStays, Kept

-----------------------------------------------------------------------------

(* Every step keeps the order in which an undisturbed batch is sent.       *)
LEMMA SentInductive ==
  /\ Init => SentInv
  /\ IInv /\ SentInv /\ [Next]_vars => SentInv'
<1>i. ASSUME Init PROVE SentInv
  <2>1. OwnerStays
    BY <1>i, ConstantsAssumption DEF Init, OwnerStays
  <2>2. ASSUME NEW b \in Batch PROVE SentInOrder(b)
    <3>1. Unsent(b) /\ \A i \in Item : delivered[b][i] <= 1
      BY <1>i DEF Init, Unsent
    <3>2. \A n \in Node, w \in Caller : run[n][b][w].at = "idle"
      BY <1>i DEF Init, Idle
    <3> QED BY <3>1, <3>2 DEF SentInOrder, RunsAlone, AheadIsUnsent, Active, Marked
  <2> QED BY <2>1, <2>2 DEF SentInv
<1> SUFFICES ASSUME IInv, SentInv, [Next]_vars PROVE SentInv'
  BY <1>i
<1>t. /\ TypeOK
      /\ \A n \in Node, b \in Batch, w \in Caller :
           run[n][b][w] \in RunRecord /\ run[n][b][w].copy \in Row /\ run[n][b][w].copy.next \in Nat
      /\ \A b \in Batch : row[b] \in Row
  BY DEF IInv, TypeOK, RunRecord, Row
<1>n. \A n \in Node, b \in Batch, w \in Caller : run'[n][b][w].copy.next \in Nat
  <2>1. IInv'
    BY IInvInductive
  <2> QED BY <2>1 DEF IInv, TypeOK, RunRecord, Row
<1>b. ASSUME NEW b \in Batch, Undisturbed(b)', schedule[b] = "none" \/ (faults' = 0 => faults = 0),
             schedule'[b] = schedule[b]
      PROVE  Undisturbed(b) /\ SentInOrder(b)
  BY <1>b DEF Undisturbed, SentInv
<1>k. ASSUME NEW b \in Batch, SentInOrder(b),
             delivered'[b] = delivered[b], schedule'[b] = schedule[b],
             row'[b].status \in {"none", "PENDING"} => row[b].status \in {"none", "PENDING"},
             schedule[b] = "none" \/ owner' = owner,
             RunsKeepOrder(b)
      PROVE  SentInOrder(b)'
  <2>1. /\ \A i \in Item : delivered'[b][i] <= 1
        /\ row'[b].status \in {"none", "PENDING"} => Unsent(b)'
        /\ Unsent(b)' <=> Unsent(b)
    BY <1>k DEF SentInOrder, Unsent
  <2>2. ASSUME NEW n \in Node, NEW w \in Caller, Active(n, b, w)'
        PROVE  \/ /\ schedule'[b] = "none" /\ w = "create"
                  /\ \A m \in Node : Active(m, b, "create")' => m = n
               \/ /\ schedule'[b] = "due" /\ w = "sweep"
                  /\ n = owner' \/ run'[n][b][w].at = "read"
    <3>1. \A m \in Node, v \in Caller : Active(m, b, v)' => Active(m, b, v)
      BY <1>k DEF RunsKeepOrder, Active
    <3>2. CASE schedule[b] = "none"
      <4>1. w = "create" /\ \A m \in Node : Active(m, b, "create") => m = n
        BY <2>2, <3>1, <3>2, <1>k DEF SentInOrder, RunsAlone
      <4> QED BY <1>k, <3>1, <3>2, <4>1 DEF Caller
    <3>3. CASE schedule[b] # "none"
      <4>1. schedule[b] = "due" /\ w = "sweep" /\ (n = owner \/ run[n][b][w].at = "read")
        BY <2>2, <3>1, <3>3, <1>k DEF SentInOrder, RunsAlone
      <4>2. run[n][b][w].at = "read" => n = owner \/ run'[n][b][w].at = "read"
        BY <2>2, <3>3, <1>k DEF RunsKeepOrder, Active
      <4> QED BY <1>k, <3>3, <4>1, <4>2
    <3> QED BY <3>2, <3>3
  <2>3. ASSUME NEW n \in Node, NEW w \in Caller, schedule'[b] = "none" \/ n = owner'
        PROVE  /\ run'[n][b][w].at \in {"read", "mark"} => Unsent(b)'
               /\ run'[n][b][w].at \in Marked =>
                    \A i \in Item : i >= run'[n][b][w].copy.next => delivered'[b][i] = 0
    <3>1. schedule[b] = "none" \/ n = owner
      BY <1>k, <2>3
    <3>2. /\ run[n][b][w].at \in {"read", "mark"} => Unsent(b)
          /\ run[n][b][w].at \in Marked =>
               \A i \in Item : i >= run[n][b][w].copy.next => delivered[b][i] = 0
      BY <1>k, <3>1 DEF SentInOrder, AheadIsUnsent
    <3>3. run'[n][b][w].at \in {"read", "mark"} => Unsent(b)'
      BY <1>k, <2>1, <3>2 DEF RunsKeepOrder
    <3>4. ASSUME run'[n][b][w].at \in Marked, NEW i \in Item, i >= run'[n][b][w].copy.next
          PROVE  delivered'[b][i] = 0
      <4>1. CASE run[n][b][w].at = "mark"
        BY <1>k, <3>2, <4>1 DEF Unsent
      <4>2. CASE run[n][b][w].at \in Marked /\ run'[n][b][w].copy.next >= run[n][b][w].copy.next
        <5>1. i >= run[n][b][w].copy.next
          BY <1>t, <1>n, <3>4, <4>2, ConstantsAssumption DEF Item
        <5> QED BY <1>k, <3>2, <4>2, <5>1
      <4> QED BY <1>k, <3>4, <4>1, <4>2 DEF RunsKeepOrder, Marked
    <3> QED BY <3>3, <3>4
  <2> QED BY <2>1, <2>2, <2>3 DEF SentInOrder, RunsAlone, AheadIsUnsent
<1>q. ASSUME UNCHANGED <<delivered, schedule>>,
             faults' = 0 => faults = 0 /\ owner' = owner /\ connected' = connected,
             RowsNotBack,
             \A b \in Batch : Undisturbed(b) /\ SentInOrder(b) => RunsKeepOrder(b)
      PROVE  SentInv'
  <2>1. OwnerStays'
    BY <1>q DEF OwnerStays, SentInv
  <2>2. ASSUME NEW b \in Batch, Undisturbed(b)'
        PROVE  SentInOrder(b)'
    <3>1. Undisturbed(b) /\ SentInOrder(b)
      BY <1>b, <1>q, <2>2
    <3>2. schedule[b] = "none" \/ owner' = owner
      BY <1>q, <2>2 DEF Undisturbed
    <3>3. row'[b].status \in {"none", "PENDING"} => row[b].status \in {"none", "PENDING"}
      BY <1>q DEF RowsNotBack
    <3>4. delivered'[b] = delivered[b] /\ schedule'[b] = schedule[b] /\ RunsKeepOrder(b)
      BY <1>q, <3>1
    <3> QED BY <1>k, <3>1, <3>2, <3>3, <3>4
  <2> QED BY <2>1, <2>2 DEF SentInv
<1>e. /\ UNCHANGED row => RowsNotBack
      /\ \A b \in Batch : UNCHANGED run => RunsKeepOrder(b)
  BY <1>t DEF RowsNotBack, RunsKeepOrder, Active, Marked
<1>x. ASSUME NEW n \in Node, NEW b \in Batch, NEW w \in Caller, NEW r,
             run' = [run EXCEPT ![n][b][w] = r], UNCHANGED <<delivered, schedule, faults, owner, connected>>,
             RowsNotBack,
             \/ r.at = "idle"
             \/ Undisturbed(b) /\ SentInOrder(b) =>
                /\ Active(n, b, w)
                /\ r.at # "read"
                /\ run[n][b][w].at # "read" \/ schedule[b] = "none" \/ n = owner
                /\ r.at = "mark" => run[n][b][w].at \in {"read", "mark"}
                /\ r.at \in Marked =>
                     \/ run[n][b][w].at = "mark"
                     \/ run[n][b][w].at \in Marked /\ r.copy.next >= run[n][b][w].copy.next
      PROVE  SentInv'
  <2>1. \A m \in Node, c \in Batch, v \in Caller :
          run'[m][c][v] = IF m = n /\ c = b /\ v = w THEN r ELSE run[m][c][v]
    BY <1>x, <1>t DEF TypeOK
  <2>2. ASSUME NEW c \in Batch, Undisturbed(c) /\ SentInOrder(c) PROVE RunsKeepOrder(c)
    <3>1. CASE c = b
      BY SMTT(30), <1>x, <1>t, <2>1, <2>2, <3>1 DEF RunsKeepOrder, Active, Marked
    <3>2. CASE c # b
      BY <1>t, <2>1, <3>2 DEF RunsKeepOrder, Active, Marked
    <3> QED BY <3>1, <3>2
  <2> QED BY <1>x, <1>q, <2>2
<1> HIDE DEF IInv, SentInv
<1>g. ASSUME NEW b \in Batch, NEW new, Guarded(b, new), new.status \notin {"none", "PENDING"}
      PROVE  RowsNotBack
  BY <1>g, <1>t DEF Guarded, RowsNotBack, TypeOK
<1>1. ASSUME NEW n \in Node, NEW b \in Batch, Reserve(n, b) \/ SaveFails(n, b) \/ CancelRead(n, b)
      PROVE  SentInv'
  <2>1. /\ UNCHANGED <<row, run, schedule, delivered, owner, connected>>
        /\ faults' = 0 => faults = 0
    BY <1>1, <1>t DEF Reserve, SaveFails, CancelRead, session, history, TypeOK
  <2> QED BY <1>e, <1>q, <2>1
<1>2. ASSUME NEW n \in Node, NEW b \in Batch, SaveNew(n, b) PROVE SentInv'
  <2>1. PICK s \in Schedules :
          /\ schedule' = [schedule EXCEPT ![b] = s]
          /\ run' = IF s = "later" THEN run ELSE [run EXCEPT ![n][b]["create"] = Starting]
    BY <1>2 DEF SaveNew
  <2>2. /\ UNCHANGED <<owner, connected, faults, delivered>>
        /\ row' = [row EXCEPT ![b].status = "PENDING"]
    BY <1>2 DEF SaveNew, session, history
  <2>3. /\ row[b].status = "none" /\ schedule[b] = "none"
        /\ \A m \in Node, v \in Caller : ~Active(m, b, v)
    BY <1>2, ConstantsAssumption DEF SaveNew, IInv, CreatingIsNew, NewIsUntouched
  <2>4. OwnerStays'
    BY <2>2 DEF OwnerStays, SentInv
  <2>5. "create" \in Caller /\ Starting.at = "read"
    BY DEF Caller, Starting, Idle
  <2>6. \A m \in Node, c \in Batch, v \in Caller :
          run'[m][c][v] = IF s # "later" /\ m = n /\ c = b /\ v = "create" THEN Starting ELSE run[m][c][v]
    BY <1>t, <2>1, <2>5 DEF TypeOK
  <2>7. ASSUME NEW c \in Batch, Undisturbed(c)' PROVE SentInOrder(c)'
    <3>1. CASE c = b
      <4>1. Unsent(b) /\ Unsent(b)' /\ \A i \in Item : delivered'[b][i] <= 1
        BY <2>2, <2>3 DEF SentInv, SentInOrder, Undisturbed, Unsent
      <4>2. schedule'[b] = s /\ s \in {"none", "later"}
        BY <1>t, <2>1, <2>7, <3>1, ConstantsAssumption DEF TypeOK, Undisturbed
      <4>3. RunsAlone(b)'
        BY <2>3, <2>5, <2>6, <4>2 DEF RunsAlone, Active
      <4>4. AheadIsUnsent(b)'
        BY <2>3, <2>5, <2>6, <4>1 DEF AheadIsUnsent, Active, Marked
      <4> QED BY <3>1, <4>1, <4>3, <4>4 DEF SentInOrder
    <3>2. CASE c # b
      <4>1. schedule'[c] = schedule[c] /\ row'[c] = row[c]
        BY <1>t, <2>1, <2>2, <3>2 DEF TypeOK
      <4>2. RunsKeepOrder(c)
        BY <1>t, <2>6, <3>2 DEF RunsKeepOrder, Active, Marked
      <4>3. SentInOrder(c)
        BY <1>b, <2>2, <2>7, <4>1
      <4> QED BY <1>k, <2>2, <4>1, <4>2, <4>3
    <3> QED BY <3>1, <3>2
  <2> QED BY <2>4, <2>7 DEF SentInv
<1>3. ASSUME NEW n \in Node, Sweep(n) PROVE SentInv'
  <2>0. PICK S \in SUBSET Batch :
          /\ \A c \in S : row[c].status = "PENDING" /\ IsDue(c)
          /\ \A m \in Node, c \in Batch, v \in Caller :
               run'[m][c][v] = IF m = n /\ c \in S /\ v = "sweep" THEN Starting ELSE run[m][c][v]
    BY <1>3, <1>t, SweepStarts DEF TypeOK
  <2>1. UNCHANGED <<row, schedule, owner, connected, faults, delivered>>
    BY <1>3 DEF Sweep, session, history
  <2>2. OwnerStays'
    BY <2>1 DEF OwnerStays, SentInv
  <2>3. ASSUME NEW b \in Batch, Undisturbed(b)' PROVE SentInOrder(b)'
    <3>0. Undisturbed(b) /\ SentInOrder(b) /\ delivered' = delivered
      BY <1>b, <2>1, <2>3
    <3>1. CASE b \in S
      <4>1. row[b].status = "PENDING" /\ schedule[b] = "due"
        BY <2>0, <3>0, <3>1 DEF IsDue, Undisturbed
      <4>2. Unsent(b) /\ Unsent(b)' /\ \A i \in Item : delivered'[b][i] <= 1
        BY <3>0, <4>1 DEF SentInOrder, Unsent
      <4>3. RunsAlone(b)'
        <5>1. Starting.at = "read" /\ RunsAlone(b)
          BY <3>0 DEF SentInOrder, Starting, Idle
        <5> QED BY <2>0, <2>1, <4>1, <5>1 DEF RunsAlone, Active
      <4>4. AheadIsUnsent(b)'
        BY <4>2 DEF AheadIsUnsent, Unsent
      <4> QED BY <4>2, <4>3, <4>4 DEF SentInOrder
    <3>2. CASE b \notin S
      <4>1. RunsKeepOrder(b)
        BY <1>t, <2>0, <2>1, <3>2 DEF RunsKeepOrder, Active, Marked
      <4> QED BY <1>k, <2>1, <3>0, <4>1
    <3> QED BY <3>1, <3>2
  <2> QED BY <2>2, <2>3 DEF SentInv
<1>4. ASSUME NEW n \in Node, NEW b \in Batch, NEW w \in Caller, ReadBatch(n, b, w) PROVE SentInv'
  <2> DEFINE r == [at |-> IF EngineAt(n) THEN "mark" ELSE "fail",
                   live |-> EngineAt(n), stopped |-> FALSE, copy |-> row[b]]
  <2>1. /\ run[n][b][w].at = "read"
        /\ UNCHANGED <<row, delivered, schedule, faults, owner, connected>>
    BY <1>4 DEF ReadBatch, session, history
  <2>2. CASE run' = [run EXCEPT ![n][b][w] = Idle]
    <3>1. Idle.at = "idle"
      BY DEF Idle
    <3> QED BY <1>e, <1>x, <2>1, <2>2, <3>1
  <2>3. CASE run' = [run EXCEPT ![n][b][w] = r] /\ (EngineAt(n) \/ ~IsDue(b))
    <3>1. r.at \in {"mark", "fail"} /\ r.at \notin Marked
      BY DEF Marked
    <3>2. Active(n, b, w)
      BY <2>1 DEF Active
    <3>3. SentInOrder(b) => schedule[b] = "none" \/ n = owner
      <4>1. SentInOrder(b) => schedule[b] \in {"none", "due"}
        BY <3>2 DEF SentInOrder, RunsAlone
      <4> QED BY <2>3, <4>1 DEF EngineAt, IsDue
    <3> HIDE DEF r
    <3> QED BY <1>e, <1>x, <2>1, <2>3, <3>1, <3>2, <3>3
  <2> QED BY <1>4, <2>2, <2>3 DEF ReadBatch, Finish
<1>5. ASSUME NEW n \in Node, NEW b \in Batch, NEW w \in Caller,
             FailWithoutEngine(n, b, w) \/ WriteFinal(n, b, w)
      PROVE  SentInv'
  <2>1. /\ run' = [run EXCEPT ![n][b][w] = Idle] /\ Idle.at = "idle"
        /\ UNCHANGED <<delivered, schedule, faults, owner, connected>>
    BY <1>5 DEF FailWithoutEngine, WriteFinal, Finish, session, history, Idle
  <2>2. RowsNotBack
    <3>1. CASE FailWithoutEngine(n, b, w)
      <4>1. [row[b] EXCEPT !.status = "FAILED"].status = "FAILED"
        BY <1>t DEF Row
      <4> QED BY <1>g, <3>1, <4>1 DEF FailWithoutEngine
    <3>2. CASE WriteFinal(n, b, w)
      <4>1. run[n][b][w].copy.status \in Terminal
        BY <3>2 DEF WriteFinal, IInv, WritesAreTerminal
      <4>2. CASE row' = [row EXCEPT ![b] = run[n][b][w].copy]
        BY <1>t, <4>1, <4>2 DEF RowsNotBack, Terminal, TypeOK
      <4> QED BY <1>g, <3>2, <4>1, <4>2 DEF WriteFinal, Terminal
    <3> QED BY <1>5, <3>1, <3>2
  <2> QED BY <1>x, <2>1, <2>2
<1>6. ASSUME NEW n \in Node, NEW b \in Batch, NEW w \in Caller, MarkProcessing(n, b, w) PROVE SentInv'
  <2> DEFINE at == IF run[n][b][w].copy.next < Total THEN "check" ELSE "reread"
  <2> DEFINE r == [run[n][b][w] EXCEPT !.at = at]
  <2>1. /\ run[n][b][w].at = "mark"
        /\ UNCHANGED <<delivered, schedule, faults, owner, connected>>
        /\ run' = [run EXCEPT ![n][b][w] = Idle] \/ run' = [run EXCEPT ![n][b][w] = r]
    BY <1>6 DEF MarkProcessing, session, history, Finish, Step
  <2>2. RowsNotBack
    <3>1. [row[b] EXCEPT !.status = "PROCESSING"].status = "PROCESSING"
      BY <1>t DEF Row
    <3> QED BY <1>6, <1>g, <3>1 DEF MarkProcessing
  <2>3. Idle.at = "idle" /\ r.at \in {"check", "reread"}
    BY <1>t DEF Idle, RunRecord
  <2>4. Active(n, b, w)
    BY <2>1 DEF Active
  <2> HIDE DEF r
  <2> QED BY <1>x, <2>1, <2>2, <2>3, <2>4
<1>7. ASSUME NEW n \in Node, NEW b \in Batch, NEW w \in Caller, NEW r,
             run' = [run EXCEPT ![n][b][w] = r], UNCHANGED <<delivered, schedule, faults, owner, connected>>,
             RowsNotBack, run[n][b][w].at \in Marked, r.at \in Marked,
             r.copy.next >= run[n][b][w].copy.next
      PROVE  SentInv'
  BY <1>x, <1>7 DEF Marked, Active
<1>8. ASSUME NEW n \in Node, NEW b \in Batch, NEW w \in Caller, CheckFlag(n, b, w) PROVE SentInv'
  <2> DEFINE r == [run[n][b][w] EXCEPT !.at = IF flag[n][b] = "run" THEN "send" ELSE "reread"]
  <2>1. /\ run' = [run EXCEPT ![n][b][w] = r] /\ run[n][b][w].at \in Marked
        /\ UNCHANGED <<row, delivered, schedule, faults, owner, connected>>
    BY <1>8 DEF CheckFlag, Step, session, history, Marked
  <2>2. r.at \in Marked /\ r.copy.next >= run[n][b][w].copy.next
    BY <1>t DEF RunRecord, Marked
  <2> HIDE DEF r
  <2> QED BY <1>7, <1>e, <2>1, <2>2
<1>9. ASSUME NEW n \in Node, NEW b \in Batch, NEW w \in Caller, SendFails(n, b, w) PROVE SentInv'
  <2> DEFINE i == run[n][b][w].copy.next
  <2> DEFINE stop == [run[n][b][w] EXCEPT !.at = "reread", !.stopped = TRUE, !.copy.failed = @ + 1]
  <2> DEFINE on == [run[n][b][w] EXCEPT !.at = AfterMessage(i), !.copy.next = i + 1, !.copy.failed = @ + 1]
  <2>1. /\ run' = [run EXCEPT ![n][b][w] = stop] \/ run' = [run EXCEPT ![n][b][w] = on]
        /\ run[n][b][w].at \in Marked
        /\ UNCHANGED <<row, delivered, schedule, faults, owner, connected>>
    BY <1>9 DEF SendFails, session, history, Marked
  <2>2. AfterMessage(i) \in {"save", "check"} /\ i \in Nat
    BY <1>t DEF AfterMessage
  <2>3. stop.at \in Marked /\ stop.copy.next >= i
    BY <1>t, <2>2 DEF RunRecord, Row, Marked
  <2>4. on.at \in Marked /\ on.copy.next >= i
    <3>1. on.at = AfterMessage(i)
      BY <1>t DEF RunRecord
    <3>2. on.copy.next = i + 1
      <4> DEFINE k == [run[n][b][w].copy EXCEPT !.next = i + 1, !.failed = @ + 1]
      <4>1. k.next = i + 1
        BY <1>t DEF Row
      <4>2. on.copy = k
        BY <1>t DEF RunRecord
      <4> QED BY <4>1, <4>2
    <3> HIDE DEF on
    <3> QED BY <2>2, <3>1, <3>2 DEF Marked
  <2> HIDE DEF stop, on
  <2> QED BY <1>7, <1>e, <2>1, <2>3, <2>4
<1>10. ASSUME NEW n \in Node, NEW b \in Batch, NEW w \in Caller, SaveProgress(n, b, w) PROVE SentInv'
  <2> DEFINE old == run[n][b][w]
  <2> DEFINE fin == Final(TRUE, old.stopped, old.copy)
  <2> DEFINE r1 == [old EXCEPT !.at = "write", !.copy = fin]
  <2> DEFINE r2 == [old EXCEPT !.at = IF old.copy.next < Total THEN "check" ELSE "reread"]
  <2>1. /\ run' = [run EXCEPT ![n][b][w] = r1] \/ run' = [run EXCEPT ![n][b][w] = r2]
        /\ old.at \in Marked
        /\ UNCHANGED <<delivered, schedule, faults, owner, connected>>
    BY <1>10 DEF SaveProgress, session, history, Marked
  <2>2. RowsNotBack
    <3>1. [old.copy EXCEPT !.status = row[b].status].status = row[b].status
      BY <1>t DEF Row
    <3>2. row[b].status \notin {"none", "PENDING"}
      BY <2>1 DEF IInv, MarkedIsPast
    <3> QED BY <1>10, <1>g, <3>1, <3>2 DEF SaveProgress
  <2>3. fin.next = old.copy.next
    BY <1>t DEF Final, Row
  <2> HIDE DEF fin
  <2>4. r1.at \in Marked /\ r1.copy.next >= old.copy.next
    BY <1>t, <2>3 DEF RunRecord, Marked
  <2>5. r2.at \in Marked /\ r2.copy.next >= old.copy.next
    BY <1>t DEF RunRecord, Marked
  <2> HIDE DEF r1, r2
  <2> QED BY <1>7, <2>1, <2>2, <2>4, <2>5
<1>11. ASSUME NEW n \in Node, NEW b \in Batch, NEW w \in Caller, Reread(n, b, w) PROVE SentInv'
  <2> DEFINE old == run[n][b][w]
  <2> DEFINE fin == Final(row[b].status = "CANCELLED" \/ flag[n][b] # "run", old.stopped, old.copy)
  <2> DEFINE r == [old EXCEPT !.at = "write", !.copy = fin]
  <2>1. /\ run' = [run EXCEPT ![n][b][w] = r] /\ old.at \in Marked
        /\ UNCHANGED <<row, delivered, schedule, faults, owner, connected>>
    BY <1>11 DEF Reread, session, history, Marked
  <2>2. fin.next = old.copy.next
    BY <1>t DEF Final, Row
  <2> HIDE DEF fin
  <2>3. r.at \in Marked /\ r.copy.next >= old.copy.next
    BY <1>t, <2>2 DEF RunRecord, Marked
  <2> HIDE DEF r
  <2> QED BY <1>7, <1>e, <2>1, <2>3
<1>12. ASSUME NEW n \in Node, NEW b \in Batch, NEW w \in Caller, Sent(n, b, w) PROVE SentInv'
  <2> DEFINE i == run[n][b][w].copy.next
  <2> DEFINE r == [run[n][b][w] EXCEPT !.at = AfterMessage(i), !.copy.next = i + 1, !.copy.sent = @ + 1]
  <2>1. /\ run' = [run EXCEPT ![n][b][w] = r] /\ run[n][b][w].at = "send"
        /\ delivered' = [delivered EXCEPT ![b][i] = @ + 1]
        /\ UNCHANGED <<row, schedule, faults, owner, connected>>
    BY <1>12 DEF Sent, session
  <2>2. AfterMessage(i) \in {"save", "check"} /\ i \in Nat
    BY <1>t DEF AfterMessage
  <2>3. r.at \in {"save", "check"} /\ r.copy.next = i + 1
    <3>1. r.at = AfterMessage(i)
      BY <1>t DEF RunRecord
    <3>2. r.copy.next = i + 1
      <4> DEFINE k == [run[n][b][w].copy EXCEPT !.next = i + 1, !.sent = @ + 1]
      <4>1. k.next = i + 1
        BY <1>t DEF Row
      <4>2. r.copy = k
        BY <1>t DEF RunRecord
      <4> QED BY <4>1, <4>2
    <3> QED BY <2>2, <3>1, <3>2
  <2> HIDE DEF r
  <2>4. \A m \in Node, c \in Batch, v \in Caller :
          run'[m][c][v] = IF m = n /\ c = b /\ v = w THEN r ELSE run[m][c][v]
    BY <1>t, <2>1 DEF TypeOK
  <2>5. OwnerStays'
    BY <2>1 DEF OwnerStays, SentInv
  <2>6. ASSUME NEW c \in Batch, Undisturbed(c)' PROVE SentInOrder(c)'
    <3>1. SentInOrder(c)
      BY <1>b, <2>1, <2>6
    <3>2. CASE c # b
      <4>1. delivered'[c] = delivered[c]
        BY <1>t, <2>1, <3>2 DEF TypeOK
      <4>2. RunsKeepOrder(c)
        BY <1>t, <2>4, <3>2 DEF RunsKeepOrder, Active, Marked
      <4> QED BY <1>k, <2>1, <3>1, <4>1, <4>2
    <3>3. CASE c = b
      <4>1. \A j \in Item : delivered'[b][j] = IF j = i THEN delivered[b][j] + 1 ELSE delivered[b][j]
        BY <1>t, <2>1 DEF TypeOK
      <4>2. /\ RunsAlone(b) /\ AheadIsUnsent(b) /\ Active(n, b, w)
            /\ schedule[b] = "none" \/ n = owner
        BY <2>1, <3>1, <3>3 DEF SentInOrder, RunsAlone, Active
      <4>3. \A j \in Item : j >= i => delivered[b][j] = 0
        BY <2>1, <4>2 DEF AheadIsUnsent, Marked
      <4>4. \A j \in Item : delivered[b][j] \in Nat /\ delivered[b][j] <= 1
        BY <1>t, <3>1, <3>3 DEF SentInOrder, TypeOK
      <4>5. \A j \in Item : delivered'[b][j] <= 1
        BY <2>2, <4>1, <4>3, <4>4
      <4>6. row'[b].status \notin {"none", "PENDING"}
        BY <2>1 DEF IInv, MarkedIsPast, Marked
      <4>7. RunsAlone(b)'
        BY <2>1, <2>3, <2>4, <4>2 DEF RunsAlone, Active
      <4>8. ASSUME NEW m \in Node, NEW v \in Caller, schedule'[b] = "none" \/ m = owner', Active(m, b, v)'
            PROVE  m = n /\ v = w
        <5>1. Active(m, b, v)
          BY <2>4, <4>2, <4>8 DEF Active
        <5> QED BY <2>1, <4>2, <4>8, <5>1 DEF RunsAlone
      <4>9. AheadIsUnsent(b)'
        <5>1. ASSUME NEW j \in Item, j >= i + 1 PROVE delivered'[b][j] = 0
          BY <2>2, <4>1, <4>3, <5>1, ConstantsAssumption DEF Item
        <5> QED BY <2>3, <2>4, <4>8, <5>1 DEF AheadIsUnsent, Active, Marked
      <4> QED BY <3>3, <4>5, <4>6, <4>7, <4>9 DEF SentInOrder
    <3> QED BY <3>2, <3>3
  <2> QED BY <2>5, <2>6 DEF SentInv
<1>13. ASSUME NEW n \in Node, NEW b \in Batch, NEW w \in Caller, QueryFails(n, b, w) PROVE SentInv'
  <2>1. /\ run' = [run EXCEPT ![n][b][w] = Idle] /\ Idle.at = "idle"
        /\ UNCHANGED <<row, delivered, schedule, owner, connected>>
        /\ faults' = 0 => faults = 0
    BY <1>13, <1>t DEF QueryFails, session, history, Idle, TypeOK
  <2>2. \A m \in Node, c \in Batch, v \in Caller :
          run'[m][c][v] = IF m = n /\ c = b /\ v = w THEN Idle ELSE run[m][c][v]
    BY <1>t, <2>1 DEF TypeOK
  <2>3. ASSUME NEW c \in Batch PROVE RunsKeepOrder(c)
    BY <1>t, <2>1, <2>2 DEF RunsKeepOrder, Active, Marked
  <2> QED BY <1>e, <1>q, <2>1, <2>3
<1>14. ASSUME NEW n \in Node, NEW b \in Batch, CancelWrite(n, b) \/ ReapSave(n, b) PROVE SentInv'
  <2>1. UNCHANGED <<delivered, schedule, run, faults, owner, connected>>
    BY <1>14 DEF CancelWrite, ReapSave, session, history
  <2>2. RowsNotBack
    <3>1. CASE CancelWrite(n, b)
      <4>1. [cancel[b].copy EXCEPT !.next = row[b].next].status = "CANCELLED"
        BY <1>t, <3>1, ConstantsAssumption DEF CancelWrite, IInv, CancelsCancel, TypeOK, Row
      <4>2. row' \in {row, [row EXCEPT ![b] = [cancel[b].copy EXCEPT !.next = row[b].next]]}
        BY <3>1 DEF CancelWrite
      <4> QED BY <1>t, <4>1, <4>2 DEF RowsNotBack, TypeOK
    <3>2. CASE ReapSave(n, b)
      <4>1. [reaping[n][b] EXCEPT !.status = "FAILED"].status = "FAILED"
        BY <1>t DEF TypeOK, Row
      <4>2. row' = [row EXCEPT ![b] = [reaping[n][b] EXCEPT !.status = "FAILED"]]
        BY <3>2 DEF ReapSave
      <4> QED BY <1>t, <4>1, <4>2 DEF RowsNotBack, TypeOK
    <3> QED BY <1>14, <3>1, <3>2
  <2> QED BY <1>e, <1>q, <2>1, <2>2
<1>15. ASSUME NEW n \in Node, ReapRead(n) PROVE SentInv'
  <2>1. UNCHANGED <<row, run, delivered, schedule, faults, owner, connected>>
    BY <1>15 DEF ReapRead, session, history
  <2> QED BY <1>e, <1>q, <2>1
<1>16. ASSUME NEW b \in Batch, TimeComes(b) PROVE SentInv'
  <2>1. /\ UNCHANGED <<row, run, delivered, faults, owner, connected>>
        /\ schedule[b] = "later" /\ schedule' = [schedule EXCEPT ![b] = "due"]
    BY <1>16 DEF TimeComes, session, history
  <2>2. OwnerStays'
    BY <2>1 DEF OwnerStays, SentInv
  <2>3. ASSUME NEW c \in Batch, Undisturbed(c)' PROVE SentInOrder(c)'
    <3>1. CASE c = b
      <4>1. SentInOrder(b)
        BY <2>1, <2>3, <3>1, <1>t DEF Undisturbed, SentInv, TypeOK
      <4>2. \A n \in Node, w \in Caller : ~Active(n, b, w)
        BY <2>1, <4>1 DEF SentInOrder, RunsAlone
      <4> QED BY <2>1, <3>1, <4>1, <4>2 DEF SentInOrder, RunsAlone, AheadIsUnsent, Unsent, Active, Marked
    <3>2. CASE c # b
      <4>1. schedule'[c] = schedule[c]
        BY <1>t, <2>1, <3>2 DEF TypeOK
      <4> QED BY <1>b, <1>k, <1>e, <2>1, <2>3, <4>1
    <3> QED BY <3>1, <3>2
  <2> QED BY <2>2, <2>3 DEF SentInv
<1>17. ASSUME NEW n \in Node, Connect(n) \/ Adopt(n) PROVE SentInv'
  <2>1. /\ UNCHANGED <<row, run, delivered, schedule, faults>>
        /\ ~connected \/ owner = NoNode
    BY <1>17 DEF Connect, Adopt, history
  <2>2. faults' # 0
    BY <2>1 DEF SentInv, OwnerStays
  <2> QED BY <1>e, <1>q, <2>1, <2>2
<1>18. ASSUME LoseLease PROVE SentInv'
  <2>1. UNCHANGED <<row, run, delivered, schedule, faults>> /\ ~connected
    BY <1>18 DEF LoseLease, history
  <2>2. faults' # 0
    BY <2>1 DEF SentInv, OwnerStays
  <2> QED BY <1>e, <1>q, <2>1, <2>2
<1>19. ASSUME Disconnect PROVE SentInv'
  <2>1. /\ UNCHANGED <<row, delivered, schedule, owner>>
        /\ faults' # 0 /\ run' = Orphaned(run)
    BY <1>19, <1>t DEF Disconnect, history, TypeOK
  <2>2. ASSUME NEW n \in Node, NEW b \in Batch, NEW w \in Caller
        PROVE  run'[n][b][w].at = run[n][b][w].at /\ run'[n][b][w].copy = run[n][b][w].copy
    <3>1. run'[n][b][w] = [run[n][b][w] EXCEPT !.live = FALSE]
      BY <2>1 DEF Orphaned
    <3> QED BY <1>t, <3>1 DEF RunRecord
  <2>3. ASSUME NEW b \in Batch PROVE RunsKeepOrder(b)
    BY <1>t, <2>2 DEF RunsKeepOrder, Active, Marked
  <2> QED BY <1>e, <1>q, <2>1, <2>3
<1>20. ASSUME NEW n \in Node, Crash(n) PROVE SentInv'
  <2>1. /\ UNCHANGED <<row, delivered, schedule, owner>>
        /\ faults' # 0
        /\ run' = [run EXCEPT ![n] = [b \in Batch |-> [w \in Caller |-> Idle]]]
    BY <1>20, <1>t DEF Crash, history, TypeOK
  <2>2. \A m \in Node, b \in Batch, w \in Caller :
          run'[m][b][w] = IF m = n THEN Idle ELSE run[m][b][w]
    BY <1>t, <2>1 DEF TypeOK
  <2>3. ASSUME NEW b \in Batch PROVE RunsKeepOrder(b)
    <3>1. Idle.at = "idle"
      BY DEF Idle
    <3> QED BY <1>t, <2>2, <3>1 DEF RunsKeepOrder, Active, Marked
  <2> QED BY <1>e, <1>q, <2>1, <2>3
<1>22. ASSUME OthersChange PROVE SentInv'
  <2>1. UNCHANGED <<row, run, delivered, schedule, faults, owner, connected>>
    BY <1>22 DEF OthersChange, history
  <2> QED BY <1>e, <1>q, <2>1
<1>21. ASSUME UNCHANGED vars PROVE SentInv'
  <2>1. UNCHANGED <<row, run, delivered, schedule, faults, owner, connected>>
    BY <1>21 DEF vars, session, history
  <2> QED BY <1>e, <1>q, <2>1
<1> QED
  BY <1>1, <1>2, <1>3, <1>4, <1>5, <1>6, <1>8, <1>9, <1>10, <1>11, <1>12, <1>13, <1>14, <1>15,
     <1>16, <1>17,
     <1>18, <1>19, <1>20, <1>21, <1>22 DEF Next, RunStep

(* An immediate batch sends to nobody twice, whatever fails and whichever  *)
(* process dies, and a scheduled one does not while nothing fails.         *)
THEOREM SentOnceAlways == Spec => []SentOnce
<1>1. Init => IInv /\ SentInv
  BY IInvInductive, SentInductive
<1>2. IInv /\ SentInv /\ [Next]_vars => IInv' /\ SentInv'
  BY IInvInductive, SentInductive
<1>3. SentInv => SentOnce
  BY DEF SentInv, SentInOrder, SentOnce
<1> QED BY <1>1, <1>2, <1>3, PTL DEF Spec

-----------------------------------------------------------------------------

(* Two neighbours modulo Cadence: progress is saved when the upper one is  *)
(* a multiple of it, else the lower one is one behind.                     *)
LEMMA NextSave ==
  ASSUME NEW c \in Nat \ {0}, NEW i \in Nat
  PROVE  /\ (i - 1) % c \in 0 .. c - 1
         /\ i % c # 0 => i % c = ((i - 1) % c) + 1
<1> DEFINE k == (i - 1) % c
           m == i % c
           p == (i - 1) \div c
           q == i \div c
<1>1. k \in 0 .. c - 1 /\ m \in 0 .. c - 1
  OBVIOUS
<1>2. p \in Int /\ q \in Int /\ i - 1 = c * p + k /\ i = c * q + m
  OBVIOUS
<1>3. ASSUME m # 0 PROVE m = k + 1
  <2> HIDE DEF k, m, p, q
  <2>1. c * (q - p) = c * q - c * p
    BY <1>2
  <2>1a. c * p \in Int /\ c * q \in Int
    BY <1>2
  <2>2. c * (q - p) = k + 1 - m
    <3> HIDE <1>3
    <3> DEFINE x == c * p
               y == c * q
    <3>1. y - x = k + 1 - m
      <4> HIDE DEF x, y
      <4>1. i - 1 = x + k /\ i = y + m /\ x \in Int /\ y \in Int
        BY <1>2, <2>1a DEF x, y
      <4> QED BY <1>1, <4>1
    <3> QED BY <2>1, <3>1
  <2>3. c * (q - p) < c /\ c * (q - p) > -c
    BY <1>1, <1>3, <2>2
  <2>4. q - p \in Int
    BY <1>2
  <2>5. \A z \in Int : c * z < c /\ c * z > -c => z = 0
    <3>1. ASSUME NEW z \in Int, z >= 1 PROVE c * z >= c
      BY <3>1
    <3>2. ASSUME NEW z \in Int, z <= -1 PROVE c * z <= -c
      BY <3>2
    <3> QED BY <3>1, <3>2
  <2>6. q - p = 0 /\ c * 0 = 0
    BY <2>3, <2>4, <2>5
  <2> QED BY <1>1, <2>2, <2>6
<1> QED BY <1>1, <1>3

(* What has disturbed a batch is not undone. *)
LEMMA DisturbedStays ==
  ASSUME IInv, [Next]_vars, NEW b \in Batch, Undisturbed(b)'
  PROVE  Undisturbed(b)
<1>1. faults' = 0 => faults = 0
  <2> DEFINE counted == faults' = faults \/ faults' = faults + 1
  <2>1. counted
    <3>1. CASE UNCHANGED vars
      BY <3>1 DEF vars
    <3>2. ASSUME NEW n \in Node, NEW c \in Batch, NEW w \in Caller, RunStep(n, c, w)
          PROVE  counted
      BY <3>2 DEF RunStep, ReadBatch, FailWithoutEngine, MarkProcessing, CheckFlag, Sent, SendFails,
                  SaveProgress, Reread, WriteFinal
    <3>3. ASSUME NEW n \in Node, NEW c \in Batch, NEW w \in Caller, QueryFails(n, c, w)
          PROVE  counted
      BY <3>3 DEF QueryFails
    <3>4. ASSUME NEW n \in Node, NEW c \in Batch,
                 \/ Reserve(n, c) \/ SaveNew(n, c) \/ SaveFails(n, c)
                 \/ CancelRead(n, c) \/ CancelWrite(n, c) \/ ReapSave(n, c)
          PROVE  counted
      BY <3>4 DEF Reserve, SaveNew, SaveFails, CancelRead, CancelWrite, ReapSave
    <3>5. ASSUME NEW n \in Node, Sweep(n) \/ ReapRead(n) \/ Connect(n) \/ Adopt(n) \/ Crash(n)
          PROVE  counted
      BY <3>5 DEF Sweep, ReapRead, Connect, Adopt, Crash
    <3>6. ASSUME NEW c \in Batch, TimeComes(c)
          PROVE  counted
      BY <3>6 DEF TimeComes
    <3>7. CASE Disconnect \/ LoseLease \/ OthersChange
      BY <3>7 DEF Disconnect, LoseLease, OthersChange
    <3> HIDE DEF counted
    <3> QED BY <3>1, <3>2, <3>3, <3>4, <3>5, <3>6, <3>7 DEF Next
  <2>2. faults \in Nat
    BY DEF IInv, TypeOK
  <2> QED BY <2>1, <2>2
<1>2. schedule'[b] = schedule[b] \/ schedule[b] = "none" \/ (schedule[b] = "later" /\ schedule'[b] = "due")
  <2>1. CASE schedule' = schedule
    BY <2>1
  <2>2. ASSUME NEW n \in Node, NEW c \in Batch, SaveNew(n, c)
        PROVE  schedule'[b] = schedule[b] \/ schedule[b] = "none"
    <3>1. schedule[c] = "none"
      BY <2>2, ConstantsAssumption DEF SaveNew, IInv, CreatingIsNew, NewIsUntouched
    <3> QED BY <2>2, <3>1 DEF SaveNew, IInv, TypeOK
  <2>3. ASSUME NEW c \in Batch, TimeComes(c)
        PROVE  schedule'[b] = schedule[b] \/ (schedule[b] = "later" /\ schedule'[b] = "due")
    BY <2>3 DEF TimeComes, IInv, TypeOK
  <2>4. ASSUME NEW n \in Node, NEW c \in Batch, NEW w \in Caller, RunStep(n, c, w)
        PROVE  schedule' = schedule
    BY <2>4 DEF RunStep, ReadBatch, FailWithoutEngine, MarkProcessing, CheckFlag, Sent, SendFails,
                SaveProgress, Reread, WriteFinal
  <2>5. CASE UNCHANGED vars
    BY <2>5 DEF vars
  <2>6. ASSUME NEW n \in Node, NEW c \in Batch,
               \/ Reserve(n, c) \/ SaveFails(n, c) \/ CancelRead(n, c) \/ CancelWrite(n, c)
               \/ ReapSave(n, c) \/ \E w \in Caller : QueryFails(n, c, w)
        PROVE  schedule' = schedule
    BY <2>6 DEF Reserve, SaveFails, QueryFails, CancelRead, CancelWrite, ReapSave
  <2>7. ASSUME NEW n \in Node, Sweep(n) \/ ReapRead(n) \/ Connect(n) \/ Adopt(n) \/ Crash(n)
        PROVE  schedule' = schedule
    BY <2>7 DEF Sweep, ReapRead, Connect, Adopt, Crash
  <2>8. CASE Disconnect \/ LoseLease \/ OthersChange
    BY <2>8 DEF Disconnect, LoseLease, OthersChange
  <2> QED BY <2>1, <2>2, <2>3, <2>4, <2>5, <2>6, <2>7, <2>8 DEF Next
<1> QED BY <1>1, <1>2 DEF Undisturbed

(* Every step keeps the bound on what is sent after a cancel.              *)
LEMMA LateInductive ==
  /\ Init => LateInv
  /\ IInv /\ SentInv /\ LateInv /\ [Next]_vars => LateInv'
<1>i. ASSUME Init PROVE LateInv
  <2>1. \A b \in Batch : late[b] = 0 /\ row[b].status = "none"
    BY <1>i DEF Init, NoRow
  <2> QED BY <2>1, ConstantsAssumption DEF LateInv, LateInOrder
<1> SUFFICES ASSUME IInv, SentInv, LateInv, [Next]_vars PROVE LateInv'
  BY <1>i
<1>t. /\ TypeOK
      /\ \A n \in Node, b \in Batch, w \in Caller :
           run[n][b][w] \in RunRecord /\ run[n][b][w].copy \in Row /\ run[n][b][w].copy.next \in Nat
      /\ \A b \in Batch : row[b] \in Row /\ late[b] \in Nat
      /\ Idle.at = "idle" /\ Starting.at = "read"
      /\ \A r \in Row, s \in Statuses : [r EXCEPT !.status = s].status = s
  BY DEF IInv, TypeOK, RunRecord, Row, Idle, Starting
<1>d. \A b \in Batch : Undisturbed(b)' => Undisturbed(b) /\ LateInOrder(b)
  BY DisturbedStays DEF LateInv
<1>k. ASSUME NEW b \in Batch, LateInOrder(b), late'[b] = late[b],
             row'[b].status = "CANCELLED" =>
               /\ row[b].status = "CANCELLED"
               /\ \A n \in Node, w \in Caller : run'[n][b][w].at \in {"check", "send"} =>
                    /\ run[n][b][w].at \in {"check", "send"}
                    /\ run'[n][b][w].copy.next = run[n][b][w].copy.next
      PROVE  LateInOrder(b)'
  BY <1>k DEF LateInOrder
<1>q. ASSUME UNCHANGED late,
             \A b \in Batch : row'[b].status = "CANCELLED" =>
               /\ row[b].status = "CANCELLED"
               /\ \A n \in Node, w \in Caller : run'[n][b][w].at \in {"check", "send"} =>
                    /\ run[n][b][w].at \in {"check", "send"}
                    /\ run'[n][b][w].copy.next = run[n][b][w].copy.next
      PROVE  LateInv'
  BY <1>d, <1>k, <1>q DEF LateInv
<1>x. ASSUME NEW n \in Node, NEW b \in Batch, NEW w \in Caller, NEW r,
             run' = [run EXCEPT ![n][b][w] = r], UNCHANGED late,
             \A c \in Batch : row'[c].status = "CANCELLED" => row[c].status = "CANCELLED",
             LateInOrder(b) /\ r.at \in {"check", "send"} /\ row'[b].status = "CANCELLED" =>
               late[b] <= (r.copy.next - 1) % Cadence
      PROVE  LateInv'
  <2>1. \A m \in Node, c \in Batch, v \in Caller :
          run'[m][c][v] = IF m = n /\ c = b /\ v = w THEN r ELSE run[m][c][v]
    BY <1>x, <1>t DEF TypeOK
  <2>2. ASSUME NEW c \in Batch, Undisturbed(c)' PROVE LateInOrder(c)'
    <3>1. LateInOrder(c)
      BY <1>d, <2>2
    <3>2. CASE c # b
      BY <1>k, <1>x, <2>1, <3>1, <3>2
    <3>3. CASE c = b
      <4>1. late'[b] <= Cadence
        BY <1>x, <3>1, <3>3 DEF LateInOrder
      <4>2. ASSUME NEW m \in Node, NEW v \in Caller,
                   run'[m][b][v].at \in {"check", "send"}, row'[b].status = "CANCELLED"
            PROVE  late'[b] <= (run'[m][b][v].copy.next - 1) % Cadence
        BY <1>x, <2>1, <3>1, <3>3, <4>2 DEF LateInOrder
      <4> QED BY <3>3, <4>1, <4>2 DEF LateInOrder
    <3> QED BY <3>2, <3>3
  <2> QED BY <2>2 DEF LateInv
<1>g. ASSUME NEW b \in Batch, NEW new, Guarded(b, new), new.status # "CANCELLED"
      PROVE  /\ \A c \in Batch : row'[c].status = "CANCELLED" => row[c].status = "CANCELLED"
             /\ row[b].status # "CANCELLED" => row'[b].status # "CANCELLED"
  BY <1>g, <1>t DEF Guarded, TypeOK
<1> HIDE DEF IInv, SentInv, LateInv
<1>1. ASSUME \/ \E n \in Node, b \in Batch : Reserve(n, b) \/ SaveFails(n, b) \/ CancelRead(n, b)
             \/ \E n \in Node : ReapRead(n) \/ Connect(n) \/ Adopt(n)
             \/ \E b \in Batch : TimeComes(b)
             \/ LoseLease \/ OthersChange \/ UNCHANGED vars
      PROVE  LateInv'
  <2>1. UNCHANGED <<row, run, late>>
    BY <1>1 DEF Reserve, SaveFails, CancelRead, ReapRead, Connect, Adopt, TimeComes, LoseLease,
                OthersChange, vars, history
  <2> QED BY <1>q, <2>1
<1>2. ASSUME NEW n \in Node, NEW b \in Batch, SaveNew(n, b) PROVE LateInv'
  <2>1. /\ run' \in {run, [run EXCEPT ![n][b]["create"] = Starting]}
        /\ row' = [row EXCEPT ![b].status = "PENDING"] /\ UNCHANGED late
    BY <1>2 DEF SaveNew, history
  <2>2. \A c \in Batch : row'[c].status = "CANCELLED" => row[c].status = "CANCELLED"
    <3>1. [row[b] EXCEPT !.status = "PENDING"].status = "PENDING"
      BY <1>t DEF Row
    <3> QED BY <2>1, <3>1, <1>t DEF TypeOK
  <2>3. CASE run' = run
    BY <1>q, <2>1, <2>2, <2>3
  <2>4. CASE run' = [run EXCEPT ![n][b]["create"] = Starting]
    <3>1. "create" \in Caller
      BY DEF Caller
    <3> QED BY <1>t, <1>x, <2>1, <2>2, <2>4, <3>1
  <2> QED BY <2>1, <2>3, <2>4
<1>3. ASSUME NEW n \in Node, Sweep(n) PROVE LateInv'
  <2>1. UNCHANGED <<row, late>>
    BY <1>3 DEF Sweep, history
  <2>2. PICK S \in SUBSET Batch :
          \A m \in Node, c \in Batch, v \in Caller :
            run'[m][c][v] = IF m = n /\ c \in S /\ v = "sweep" THEN Starting ELSE run[m][c][v]
    BY <1>3, <1>t, SweepStarts DEF TypeOK
  <2>3. ASSUME NEW m \in Node, NEW c \in Batch, NEW v \in Caller, run'[m][c][v].at \in {"check", "send"}
        PROVE  run'[m][c][v] = run[m][c][v]
    <3>1. Starting.at = "read"
      BY DEF Starting, Idle
    <3>2. run'[m][c][v] \in {Starting, run[m][c][v]}
      BY <2>2
    <3> QED BY <2>3, <3>1, <3>2
  <2> QED BY <1>q, <2>1, <2>3
<1>4. ASSUME NEW n \in Node, NEW b \in Batch, NEW w \in Caller, ReadBatch(n, b, w) PROVE LateInv'
  <2> DEFINE r == [at |-> IF EngineAt(n) THEN "mark" ELSE "fail",
                   live |-> EngineAt(n), stopped |-> FALSE, copy |-> row[b]]
  <2>1. /\ run' = [run EXCEPT ![n][b][w] = Idle] \/ run' = [run EXCEPT ![n][b][w] = r]
        /\ UNCHANGED <<row, late>>
    BY <1>4 DEF ReadBatch, Finish, history
  <2>2. r.at \notin {"check", "send"}
    OBVIOUS
  <2> HIDE DEF r
  <2> QED BY <1>t, <1>x, <2>1, <2>2
<1>5. ASSUME NEW n \in Node, NEW b \in Batch, NEW w \in Caller, FailWithoutEngine(n, b, w) PROVE LateInv'
  <2>1. /\ run' = [run EXCEPT ![n][b][w] = Idle] /\ UNCHANGED late
        /\ Guarded(b, [row[b] EXCEPT !.status = "FAILED"])
    BY <1>5 DEF FailWithoutEngine, Finish, history
  <2>2. [row[b] EXCEPT !.status = "FAILED"].status = "FAILED"
    BY <1>t DEF Row
  <2> QED BY <1>g, <1>t, <1>x, <2>1, <2>2
<1>6. ASSUME NEW n \in Node, NEW b \in Batch, NEW w \in Caller, MarkProcessing(n, b, w) PROVE LateInv'
  <2> DEFINE at == IF run[n][b][w].copy.next < Total THEN "check" ELSE "reread"
  <2> DEFINE r == [run[n][b][w] EXCEPT !.at = at]
  <2>1. /\ UNCHANGED late
        /\ Guarded(b, [row[b] EXCEPT !.status = "PROCESSING"])
        /\ \/ run' = [run EXCEPT ![n][b][w] = Idle]
           \/ row[b].status # "CANCELLED" /\ run' = [run EXCEPT ![n][b][w] = r]
    BY <1>6 DEF MarkProcessing, Finish, Step, history
  <2>2. [row[b] EXCEPT !.status = "PROCESSING"].status = "PROCESSING"
    BY <1>t DEF Row
  <2>3. /\ \A c \in Batch : row'[c].status = "CANCELLED" => row[c].status = "CANCELLED"
        /\ row[b].status # "CANCELLED" => row'[b].status # "CANCELLED"
    BY <1>g, <2>1, <2>2
  <2> HIDE DEF r
  <2>4. CASE run' = [run EXCEPT ![n][b][w] = Idle]
    BY <1>t, <1>x, <2>1, <2>3, <2>4
  <2>5. CASE row[b].status # "CANCELLED" /\ run' = [run EXCEPT ![n][b][w] = r]
    BY <1>x, <2>1, <2>3, <2>5
  <2> QED BY <2>1, <2>4, <2>5
<1>7. ASSUME NEW n \in Node, NEW b \in Batch, NEW w \in Caller, CheckFlag(n, b, w) PROVE LateInv'
  <2> DEFINE r == [run[n][b][w] EXCEPT !.at = IF flag[n][b] = "run" THEN "send" ELSE "reread"]
  <2>1. /\ run' = [run EXCEPT ![n][b][w] = r] /\ UNCHANGED <<row, late>>
        /\ run[n][b][w].at = "check"
    BY <1>7 DEF CheckFlag, Step, history
  <2>2. r.copy = run[n][b][w].copy
    BY <1>t DEF RunRecord
  <2>3. LateInOrder(b) /\ row[b].status = "CANCELLED" => late[b] <= (r.copy.next - 1) % Cadence
    BY <2>1, <2>2 DEF LateInOrder
  <2> HIDE DEF r
  <2> QED BY <1>x, <2>1, <2>3
<1>8. ASSUME NEW n \in Node, NEW b \in Batch, NEW w \in Caller, SendFails(n, b, w) PROVE LateInv'
  <2> DEFINE old == run[n][b][w]
  <2> DEFINE i == old.copy.next
  <2> DEFINE stop == [old EXCEPT !.at = "reread", !.stopped = TRUE, !.copy.failed = @ + 1]
  <2> DEFINE on == [old EXCEPT !.at = AfterMessage(i), !.copy.next = i + 1, !.copy.failed = @ + 1]
  <2>1. /\ run' = [run EXCEPT ![n][b][w] = stop] \/ run' = [run EXCEPT ![n][b][w] = on]
        /\ old.at = "send" /\ UNCHANGED <<row, late>>
    BY <1>8 DEF SendFails, history
  <2>2. stop.at = "reread" /\ on.at = AfterMessage(i)
    BY <1>t DEF RunRecord
  <2>3. on.copy.next = i + 1
    <3> DEFINE k == [old.copy EXCEPT !.next = i + 1, !.failed = @ + 1]
    <3>1. k.next = i + 1
      BY <1>t DEF Row
    <3>2. on.copy = k
      BY <1>t DEF RunRecord
    <3> QED BY <3>1, <3>2
  <2> HIDE DEF stop, on
  <2>4. ASSUME LateInOrder(b), on.at \in {"check", "send"}, row'[b].status = "CANCELLED"
        PROVE  late[b] <= (on.copy.next - 1) % Cadence
    <3>1. late[b] <= (i - 1) % Cadence
      BY <2>1, <2>4 DEF LateInOrder
    <3>2. i % Cadence # 0
      BY <2>2, <2>4 DEF AfterMessage
    <3>3. i % Cadence = ((i - 1) % Cadence) + 1 /\ (i - 1) % Cadence \in 0 .. Cadence - 1
      BY <3>2, <1>t, NextSave, ConstantsAssumption
    <3>4. on.copy.next - 1 = i
      BY <1>t, <2>3
    <3> QED BY <1>t, <3>1, <3>3, <3>4, ConstantsAssumption
  <2> QED BY <1>x, <2>1, <2>2, <2>4
<1>9. ASSUME NEW n \in Node, NEW b \in Batch, NEW w \in Caller, SaveProgress(n, b, w) PROVE LateInv'
  <2> DEFINE old == run[n][b][w]
  <2> DEFINE r1 == [old EXCEPT !.at = "write", !.copy = Final(TRUE, old.stopped, old.copy)]
  <2> DEFINE r2 == [old EXCEPT !.at = IF old.copy.next < Total THEN "check" ELSE "reread"]
  <2>1. /\ UNCHANGED late
        /\ row' = IF row[b].status = "CANCELLED" THEN row
                    ELSE [row EXCEPT ![b] = [old.copy EXCEPT !.status = row[b].status]]
        /\ run' = [run EXCEPT ![n][b][w] = IF row[b].status = "CANCELLED" THEN r1 ELSE r2]
    BY <1>9 DEF SaveProgress, Guarded, history
  <2>2. [old.copy EXCEPT !.status = row[b].status].status = row[b].status
    BY <1>t DEF Row
  <2>3. \A c \in Batch : row'[c].status = row[c].status
    BY <1>t, <2>1, <2>2 DEF TypeOK
  <2>4. r1.at = "write"
    BY <1>t DEF RunRecord
  <2> HIDE DEF r1, r2
  <2> QED BY <1>x, <2>1, <2>3, <2>4
<1>10. ASSUME NEW n \in Node, NEW b \in Batch, NEW w \in Caller, Reread(n, b, w) PROVE LateInv'
  <2> DEFINE old == run[n][b][w]
  <2> DEFINE r == [old EXCEPT !.at = "write",
                     !.copy = Final(row[b].status = "CANCELLED" \/ flag[n][b] # "run", old.stopped, old.copy)]
  <2>1. run' = [run EXCEPT ![n][b][w] = r] /\ UNCHANGED <<row, late>>
    BY <1>10 DEF Reread, history
  <2>2. r.at = "write"
    BY <1>t DEF RunRecord
  <2> HIDE DEF r
  <2> QED BY <1>x, <2>1, <2>2
<1>11. ASSUME NEW n \in Node, NEW b \in Batch, NEW w \in Caller, QueryFails(n, b, w) PROVE LateInv'
  <2>1. run' = [run EXCEPT ![n][b][w] = Idle] /\ UNCHANGED <<row, late>>
    BY <1>11 DEF QueryFails, history
  <2> QED BY <1>t, <1>x, <2>1
<1>12. ASSUME NEW n \in Node, NEW b \in Batch, NEW w \in Caller, Sent(n, b, w) PROVE LateInv'
  <2> DEFINE old == run[n][b][w]
  <2> DEFINE i == old.copy.next
  <2> DEFINE r == [old EXCEPT !.at = AfterMessage(i), !.copy.next = i + 1, !.copy.sent = @ + 1]
  <2>1. /\ run' = [run EXCEPT ![n][b][w] = r] /\ old.at = "send" /\ UNCHANGED row
        /\ late' = [late EXCEPT ![b] = IF row[b].status = "CANCELLED" THEN @ + 1 ELSE @]
    BY <1>12 DEF Sent
  <2>2. r.at = AfterMessage(i)
    BY <1>t DEF RunRecord
  <2>3. r.copy.next = i + 1
    <3> DEFINE k == [old.copy EXCEPT !.next = i + 1, !.sent = @ + 1]
    <3>1. k.next = i + 1
      BY <1>t DEF Row
    <3>2. r.copy = k
      BY <1>t DEF RunRecord
    <3> QED BY <3>1, <3>2
  <2> HIDE DEF r
  <2>4. \A m \in Node, c \in Batch, v \in Caller :
          run'[m][c][v] = IF m = n /\ c = b /\ v = w THEN r ELSE run[m][c][v]
    BY <1>t, <2>1 DEF TypeOK
  <2>5. ASSUME NEW c \in Batch, Undisturbed(c)' PROVE LateInOrder(c)'
    <3>1. Undisturbed(c) /\ LateInOrder(c)
      BY <1>d, <2>5
    <3>2. CASE c # b
      <4>1. late'[c] = late[c]
        BY <1>t, <2>1, <3>2 DEF TypeOK
      <4> QED BY <1>k, <2>1, <2>4, <3>1, <3>2, <4>1
    <3>3. CASE c = b /\ row[b].status # "CANCELLED"
      <4>1. late'[b] = late[b] /\ row'[b].status # "CANCELLED"
        BY <1>t, <2>1, <3>3 DEF TypeOK
      <4> QED BY <3>1, <3>3, <4>1 DEF LateInOrder
    <3>4. CASE c = b /\ row[b].status = "CANCELLED"
      <4>1. late'[b] = late[b] + 1 /\ late[b] \in Nat /\ i \in Nat
        BY <1>t, <2>1, <3>4 DEF TypeOK
      <4>2. late[b] <= (i - 1) % Cadence
        BY <2>1, <3>1, <3>4 DEF LateInOrder
      <4>3. /\ (i - 1) % Cadence \in 0 .. Cadence - 1
            /\ i % Cadence # 0 => i % Cadence = ((i - 1) % Cadence) + 1
        BY <4>1, NextSave, ConstantsAssumption
      <4>4. late'[b] <= Cadence
        BY <4>1, <4>2, <4>3, ConstantsAssumption
      <4>5. ASSUME NEW m \in Node, NEW v \in Caller, run'[m][b][v].at \in {"check", "send"}
            PROVE  late'[b] <= (run'[m][b][v].copy.next - 1) % Cadence
        <5>1. run[m][b][v].at \in Marked \/ (m = n /\ v = w)
          BY <2>4, <4>5 DEF Marked
        <5>2. m = n /\ v = w
          <6>1. RunsAlone(b)
            BY <3>1, <3>4 DEF SentInv, SentInOrder
          <6> QED BY <2>1, <5>1, <6>1 DEF RunsAlone, Active, Marked
        <5>3. i % Cadence # 0
          BY <2>2, <2>4, <4>5, <5>2 DEF AfterMessage
        <5>4. run'[m][b][v].copy.next - 1 = i
          BY <2>3, <2>4, <4>1, <5>2
        <5> HIDE DEF i
        <5>5. (i - 1) % Cadence \in Int /\ late'[b] <= ((i - 1) % Cadence) + 1
          BY <4>1, <4>2, <4>3, ConstantsAssumption
        <5> QED BY <4>3, <5>3, <5>4, <5>5
      <4> QED BY <3>4, <4>4, <4>5 DEF LateInOrder
    <3> QED BY <3>2, <3>3, <3>4
  <2> QED BY <2>5 DEF LateInv
<1>13. ASSUME NEW n \in Node, NEW b \in Batch, NEW w \in Caller, WriteFinal(n, b, w) PROVE LateInv'
  <2>1. /\ run[n][b][w].at = "write" /\ run' = [run EXCEPT ![n][b][w] = Idle] /\ UNCHANGED late
        /\ \A c \in Batch \ {b} : row'[c] = row[c]
    BY <1>13, <1>t DEF WriteFinal, Finish, Guarded, history, TypeOK
  <2>2. \A m \in Node, c \in Batch, v \in Caller :
          run'[m][c][v] = IF m = n /\ c = b /\ v = w THEN Idle ELSE run[m][c][v]
    BY <1>t, <2>1 DEF TypeOK
  <2>3. ASSUME NEW c \in Batch, Undisturbed(c)' PROVE LateInOrder(c)'
    <3>1. Undisturbed(c) /\ LateInOrder(c)
      BY <1>d, <2>3
    <3>2. CASE c # b
      BY <1>k, <2>1, <2>2, <3>1, <3>2
    <3>3. CASE c = b
      <4>1. RunsAlone(b)
        BY <3>1, <3>3 DEF SentInv, SentInOrder
      <4>2. \A m \in Node, v \in Caller : run'[m][b][v].at \notin {"check", "send"}
        BY <1>t, <2>1, <2>2, <4>1 DEF RunsAlone, Active
      <4> QED BY <2>1, <3>1, <3>3, <4>2 DEF LateInOrder
    <3> QED BY <3>2, <3>3
  <2> QED BY <2>3 DEF LateInv
<1>14. ASSUME NEW n \in Node, NEW b \in Batch, CancelWrite(n, b) PROVE LateInv'
  <2>1. CASE UNCHANGED <<row, late>>
    <3>1. UNCHANGED run
      BY <1>14 DEF CancelWrite
    <3> QED BY <1>q, <2>1, <3>1
  <2>2. CASE /\ row' = [row EXCEPT ![b] = [cancel[b].copy EXCEPT !.next = row[b].next]]
             /\ late' = [late EXCEPT ![b] = 0]
    <3>1. UNCHANGED run
      BY <1>14 DEF CancelWrite
    <3>2. ASSUME NEW c \in Batch, Undisturbed(c)' PROVE LateInOrder(c)'
      <4>1. CASE c # b
        <5>1. row'[c] = row[c] /\ late'[c] = late[c]
          BY <1>t, <2>2, <4>1 DEF TypeOK
        <5> QED BY <1>d, <1>k, <3>1, <3>2, <5>1
      <4>2. CASE c = b
        <5>1. late'[b] = 0
          BY <1>t, <2>2 DEF TypeOK
        <5>2. ASSUME NEW m \in Node, NEW v \in Caller
              PROVE  0 <= (run'[m][b][v].copy.next - 1) % Cadence
          <6>1. run'[m][b][v].copy.next \in Nat
            BY <1>t, <3>1
          <6> QED BY <6>1, NextSave, ConstantsAssumption
        <5> QED BY <4>2, <5>1, <5>2, ConstantsAssumption DEF LateInOrder
      <4> QED BY <4>1, <4>2
    <3> QED BY <3>2 DEF LateInv
  <2> QED BY <1>14, <2>1, <2>2 DEF CancelWrite
<1>15. ASSUME NEW n \in Node, NEW b \in Batch, ReapSave(n, b) PROVE LateInv'
  <2>1. /\ UNCHANGED <<run, late>>
        /\ row' = [row EXCEPT ![b] = [reaping[n][b] EXCEPT !.status = "FAILED"]]
    BY <1>15 DEF ReapSave, history
  <2>2. [reaping[n][b] EXCEPT !.status = "FAILED"].status = "FAILED"
    BY <1>t DEF TypeOK, Row
  <2>3. \A c \in Batch : row'[c].status = "CANCELLED" => row[c].status = "CANCELLED"
    BY <1>t, <2>1, <2>2 DEF TypeOK
  <2> QED BY <1>q, <2>1, <2>3
<1>16. ASSUME Disconnect PROVE LateInv'
  <2>1. UNCHANGED <<row, late>> /\ run' = Orphaned(run)
    BY <1>16 DEF Disconnect, history
  <2>2. ASSUME NEW n \in Node, NEW b \in Batch, NEW w \in Caller
        PROVE  run'[n][b][w].at = run[n][b][w].at /\ run'[n][b][w].copy = run[n][b][w].copy
    <3>1. run'[n][b][w] = [run[n][b][w] EXCEPT !.live = FALSE]
      BY <2>1 DEF Orphaned
    <3> QED BY <1>t, <3>1 DEF RunRecord
  <2> QED BY <1>q, <2>1, <2>2
<1>17. ASSUME NEW n \in Node, Crash(n) PROVE LateInv'
  <2>1. /\ UNCHANGED <<row, late>>
        /\ run' = [run EXCEPT ![n] = [b \in Batch |-> [w \in Caller |-> Idle]]]
    BY <1>17 DEF Crash, history
  <2>2. \A m \in Node, b \in Batch, w \in Caller :
          run'[m][b][w] = IF m = n THEN Idle ELSE run[m][b][w]
    BY <1>t, <2>1 DEF TypeOK
  <2> QED BY <1>q, <1>t, <2>1, <2>2
<1> QED
  BY <1>1, <1>2, <1>3, <1>4, <1>5, <1>6, <1>7, <1>8, <1>9, <1>10, <1>11, <1>12, <1>13, <1>14, <1>15,
     <1>16, <1>17 DEF Next, RunStep

(* Once a cancel has committed, on whichever process, a loop that nothing  *)
(* disturbed sends no more than lies between two saves of its progress.    *)
THEOREM LateSendsBoundedAlways == Spec => []LateSendsBounded
<1>1. Init => IInv /\ SentInv /\ LateInv
  BY IInvInductive, SentInductive, LateInductive
<1>2. IInv /\ SentInv /\ LateInv /\ [Next]_vars => IInv' /\ SentInv' /\ LateInv'
  BY IInvInductive, SentInductive, LateInductive
<1>3. LateInv => LateSendsBounded
  BY DEF LateInv, LateInOrder, LateSendsBounded
<1> QED BY <1>1, <1>2, <1>3, PTL DEF Spec

-----------------------------------------------------------------------------

(* Every step keeps the counters of the immediate batches.                 *)
LEMMA CountInductive ==
  /\ Init => CountInv
  /\ IInv /\ SentInv /\ CountInv /\ [Next]_vars => CountInv'
<1>i. ASSUME Init PROVE CountInv
  <2>1. ASSUME NEW b \in Batch PROVE CountsInOrder(b)
    <3>1. /\ row[b] = NoRow /\ \A n \in Node : reaping[n][b] = NoRow
          /\ \A n \in Node : run[n][b]["create"].at = "idle"
      BY <1>i DEF Init, Idle, Caller
    <3>2. FreshRow(row[b]) /\ row[b].status = "none"
      BY <3>1 DEF NoRow, FreshRow
    <3> QED BY <3>1, <3>2 DEF CountsInOrder, CountsKept, Marked
  <2> QED BY <2>1 DEF CountInv
<1> SUFFICES ASSUME IInv, SentInv, CountInv, [Next]_vars PROVE CountInv'
  BY <1>i
<1>t. /\ TypeOK
      /\ \A n \in Node, b \in Batch, w \in Caller :
           /\ run[n][b][w] \in RunRecord /\ run[n][b][w].copy \in Row
           /\ run[n][b][w].copy.next \in Nat /\ run[n][b][w].copy.sent \in Nat
           /\ run[n][b][w].copy.failed \in Nat /\ run[n][b][w].stopped \in BOOLEAN
      /\ \A b \in Batch : row[b] \in Row
      /\ Idle \in RunRecord /\ Idle.at = "idle" /\ Starting.at = "read"
      /\ "create" \in Caller
  <2>1. Idle \in RunRecord
    BY DEF Idle, NoRow, RunRecord, RunStates, Row, Statuses
  <2> QED BY <2>1 DEF IInv, TypeOK, RunRecord, Row, Idle, Starting, Caller
<1>s. /\ MarkedIsPast /\ WritesAreTerminal /\ CancelsCancel /\ NewIsUntouched /\ CreatingIsNew
      /\ \A b \in Batch : schedule[b] = "none" => RunsAlone(b) /\ AheadIsUnsent(b) /\ CountsInOrder(b)
  BY DEF IInv, SentInv, SentInOrder, Undisturbed, CountInv
<1>k. ASSUME NEW b \in Batch, CountsInOrder(b), CountsUntouched(b) PROVE CountsInOrder(b)'
  <2>0. Reached(b)' = Reached(b)
    BY <1>k DEF CountsUntouched, Reached
  <2>1. /\ row'[b].status \in {"none", "PENDING"} => FreshRow(row'[b])
        /\ row'[b].status = "PENDING" => \A n \in Node : reaping'[n][b] = NoRow
        /\ row'[b].status = "COMPLETED" => Exact(b)' /\ \A n \in Node : ~Active(n, b, "create")'
    BY <1>k, <2>0 DEF CountsInOrder, CountsUntouched, Exact, Active
  <2>2. ASSUME NEW n \in Node PROVE CountsKept(n, b)'
    <3>1. CASE run'[n][b]["create"].at = "idle"
      BY <3>1 DEF CountsKept, Marked
    <3>2. CASE run'[n][b]["create"].at # "idle"
      <4>1. CountsKept(n, b)
        BY <1>k DEF CountsInOrder
      <4>2. /\ run'[n][b]["create"].at = run[n][b]["create"].at
            /\ run'[n][b]["create"].copy = run[n][b]["create"].copy
            /\ run'[n][b]["create"].stopped = run[n][b]["create"].stopped
            /\ flag'[n][b] = flag[n][b] \/ flag'[n][b] # "run"
            /\ row'[b] = row[b]
        BY <1>k, <3>2 DEF CountsUntouched
      <4> QED BY <2>0, <4>1, <4>2 DEF CountsKept
    <3> QED BY <3>1, <3>2
  <2>3. ASSUME NEW n \in Node, NEW m \in Node, run'[n][b]["create"].at \in {"read", "mark", "fail"}
        PROVE  reaping'[m][b] = NoRow
    <3>1. run[n][b]["create"].at \in {"read", "mark", "fail"}
      BY <1>k, <2>3 DEF CountsUntouched
    <3>2. reaping[m][b] = NoRow /\ row[b].status # "PROCESSING"
      BY <1>k, <3>1 DEF CountsInOrder, CountsKept
    <3> QED BY <1>k, <3>2 DEF CountsUntouched
  <2> QED BY <2>1, <2>2, <2>3 DEF CountsInOrder
<1>q. ASSUME \A b \in Batch : schedule'[b] = "none" => schedule[b] = "none" /\ CountsUntouched(b)
      PROVE  CountInv'
  BY <1>k, <1>q, <1>s DEF CountInv
<1> DEFINE Old(n, b) == run[n][b]["create"]
<1>y. ASSUME NEW n \in Node, NEW b \in Batch, NEW w \in Caller, Active(n, b, w), NEW r,
             run' = [run EXCEPT ![n][b][w] = r], UNCHANGED <<schedule, reaping>>,
             \A c \in Batch \ {b} : row'[c] = row[c] /\ delivered'[c] = delivered[c],
             \A m \in Node, c \in Batch \ {b} : flag'[m][c] = flag[m][c],
             /\ schedule[b] = "none" /\ w = "create" /\ row[b].status # "COMPLETED"
             /\ CountsKept(n, b) /\ AheadIsUnsent(b) /\ CountsInOrder(b)
             => /\ row'[b].status = row[b].status \/ row'[b].status \notin {"none", "PENDING"}
                /\ row'[b].status \in {"none", "PENDING"} => FreshRow(row'[b])
                /\ row'[b].status = "COMPLETED" => Exact(b)' /\ r.at = "idle"
                /\ r.at = "idle" \/ CountsKept(n, b)'
                /\ r.at \in {"read", "mark", "fail"} => Old(n, b).at \in {"read", "mark", "fail"}
      PROVE  CountInv'
  <2>1. \A m \in Node, c \in Batch, v \in Caller :
          run'[m][c][v] = IF m = n /\ c = b /\ v = w THEN r ELSE run[m][c][v]
    BY <1>y, <1>t DEF TypeOK
  <2>2. ASSUME NEW c \in Batch, schedule'[c] = "none" PROVE CountsInOrder(c)'
    <3>1. RunsAlone(c) /\ AheadIsUnsent(c) /\ CountsInOrder(c) /\ schedule[c] = "none"
      BY <1>s, <1>y, <2>2
    <3>2. CASE c # b
      <4>1. CountsUntouched(c)
        BY <1>y, <1>t, <2>1, <3>2 DEF CountsUntouched
      <4> QED BY <1>k, <3>1, <4>1
    <3>3. CASE c = b
      <4>1. w = "create" /\ \A m \in Node : m # n => run[m][b]["create"].at = "idle"
        BY <1>y, <3>1, <3>3 DEF RunsAlone, Active
      <4>2. row[b].status # "COMPLETED" /\ CountsKept(n, b)
        BY <1>y, <3>1, <3>3, <4>1 DEF CountsInOrder
      <4>3. /\ row'[b].status = row[b].status \/ row'[b].status \notin {"none", "PENDING"}
            /\ row'[b].status \in {"none", "PENDING"} => FreshRow(row'[b])
            /\ row'[b].status = "COMPLETED" => Exact(b)' /\ r.at = "idle"
            /\ r.at = "idle" \/ CountsKept(n, b)'
            /\ r.at \in {"read", "mark", "fail"} => Old(n, b).at \in {"read", "mark", "fail"}
        BY <1>y, <3>1, <3>3, <4>1, <4>2
      <4>4. \A m \in Node : run'[m][b]["create"] = IF m = n THEN r ELSE run[m][b]["create"]
        BY <2>1, <4>1, <1>t
      <4>5. ASSUME NEW m \in Node PROVE CountsKept(m, b)'
        <5>1. CASE run'[m][b]["create"].at = "idle"
          BY <5>1 DEF CountsKept, Marked
        <5> QED BY <4>1, <4>3, <4>4, <5>1
      <4>6. ASSUME NEW m \in Node, NEW k \in Node, run'[m][b]["create"].at \in {"read", "mark", "fail"}
            PROVE  reaping'[k][b] = NoRow
        <5>1. Old(n, b).at \in {"read", "mark", "fail"}
          BY <4>1, <4>3, <4>4, <4>6
        <5> QED BY <1>y, <3>1, <3>3, <5>1 DEF CountsInOrder
      <4>7. row'[b].status = "PENDING" => \A m \in Node : reaping'[m][b] = NoRow
        BY <1>y, <3>1, <3>3, <4>3 DEF CountsInOrder
      <4>8. row'[b].status = "COMPLETED" => Exact(b)' /\ \A m \in Node : ~Active(m, b, "create")'
        BY <4>1, <4>3, <4>4 DEF Active
      <4> QED BY <3>3, <4>3, <4>5, <4>6, <4>7, <4>8 DEF CountsInOrder
    <3> QED BY <3>2, <3>3
  <2> QED BY <2>2 DEF CountInv
<1>e. ASSUME NEW n \in Node, NEW b \in Batch, NEW w \in Caller, NEW r,
             run' = [run EXCEPT ![n][b][w] = r]
      PROVE  run'[n][b][w] = r
  BY <1>e, <1>t DEF TypeOK
<1> HIDE DEF IInv, SentInv, CountInv
<1>1. ASSUME \/ \E n \in Node, b \in Batch : Reserve(n, b) \/ SaveFails(n, b)
             \/ \E n \in Node : Connect(n) \/ Adopt(n)
             \/ LoseLease \/ OthersChange \/ UNCHANGED vars
      PROVE  CountInv'
  <2>1. UNCHANGED <<row, run, delivered, schedule, reaping, flag>>
    BY <1>1 DEF Reserve, SaveFails, Connect, Adopt, LoseLease, OthersChange, vars, history
  <2> QED BY <1>q, <2>1 DEF CountsUntouched
<1>2. ASSUME NEW n \in Node, NEW b \in Batch, CancelRead(n, b) PROVE CountInv'
  <2>1. UNCHANGED <<row, run, delivered, schedule, reaping>> /\ flag' = [flag EXCEPT ![n][b] = "stop"]
    BY <1>2 DEF CancelRead, history
  <2>2. \A m \in Node, c \in Batch : flag'[m][c] = flag[m][c] \/ flag'[m][c] # "run"
    BY <1>t, <2>1 DEF TypeOK
  <2> QED BY <1>q, <2>1, <2>2 DEF CountsUntouched
<1>3. ASSUME NEW n \in Node, ReapRead(n) PROVE CountInv'
  <2>1. /\ UNCHANGED <<row, run, delivered, schedule, flag>>
        /\ \A m \in Node, b \in Batch :
             reaping'[m][b] \in {reaping[m][b], NoRow} \/ row[b].status = "PROCESSING"
    BY <1>3, <1>t DEF ReapRead, history, TypeOK
  <2> QED BY <1>q, <2>1 DEF CountsUntouched
<1>4. ASSUME NEW b \in Batch, TimeComes(b) PROVE CountInv'
  <2>1. /\ UNCHANGED <<row, run, delivered, reaping, flag>>
        /\ \A c \in Batch : schedule'[c] = "none" => schedule[c] = "none"
    BY <1>4, <1>t DEF TimeComes, history, TypeOK
  <2> QED BY <1>q, <2>1 DEF CountsUntouched
<1>5. ASSUME NEW n \in Node, Sweep(n) PROVE CountInv'
  <2>1. UNCHANGED <<row, delivered, schedule, reaping, flag>>
    BY <1>5 DEF Sweep, history
  <2>2. \A m \in Node, c \in Batch : run'[m][c]["create"] = run[m][c]["create"]
    <3>1. PICK S \in SUBSET Batch :
            \A m \in Node, c \in Batch, v \in Caller :
              run'[m][c][v] = IF m = n /\ c \in S /\ v = "sweep" THEN Starting ELSE run[m][c][v]
      BY <1>5, <1>t, SweepStarts DEF TypeOK
    <3> QED BY <3>1 DEF Caller
  <2> QED BY <1>q, <2>1, <2>2 DEF CountsUntouched
<1>6. ASSUME Disconnect PROVE CountInv'
  <2>1. UNCHANGED <<row, delivered, schedule, reaping, flag>> /\ run' = Orphaned(run)
    BY <1>6 DEF Disconnect, history
  <2>2. ASSUME NEW n \in Node, NEW b \in Batch, NEW w \in Caller
        PROVE  /\ run'[n][b][w].at = run[n][b][w].at /\ run'[n][b][w].copy = run[n][b][w].copy
               /\ run'[n][b][w].stopped = run[n][b][w].stopped
    <3>1. run'[n][b][w] = [run[n][b][w] EXCEPT !.live = FALSE]
      BY <2>1 DEF Orphaned
    <3> QED BY <1>t, <3>1 DEF RunRecord
  <2> QED BY <1>q, <1>t, <2>1, <2>2 DEF CountsUntouched
<1>7. ASSUME NEW n \in Node, Crash(n) PROVE CountInv'
  <2>1. /\ UNCHANGED <<row, delivered, schedule>>
        /\ run' = [run EXCEPT ![n] = [b \in Batch |-> [w \in Caller |-> Idle]]]
        /\ flag' = [flag EXCEPT ![n] = [b \in Batch |-> "unset"]]
        /\ reaping' = [reaping EXCEPT ![n] = [b \in Batch |-> NoRow]]
    BY <1>7 DEF Crash, history
  <2>2. \A m \in Node, b \in Batch, w \in Caller :
          run'[m][b][w] = IF m = n THEN Idle ELSE run[m][b][w]
    BY <1>t, <2>1 DEF TypeOK
  <2>3. \A m \in Node, b \in Batch :
          /\ reaping'[m][b] \in {reaping[m][b], NoRow}
          /\ flag'[m][b] = flag[m][b] \/ flag'[m][b] # "run"
    BY <1>t, <2>1 DEF TypeOK
  <2> QED BY <1>q, <1>t, <2>1, <2>2, <2>3 DEF CountsUntouched
<1>8. ASSUME NEW n \in Node, NEW b \in Batch, CancelWrite(n, b) PROVE CountInv'
  <2>1. UNCHANGED <<run, delivered, schedule, reaping, flag>>
    BY <1>8 DEF CancelWrite
  <2>2. CASE UNCHANGED row
    BY <1>q, <2>1, <2>2 DEF CountsUntouched
  <2>3. CASE row' = [row EXCEPT ![b] = [cancel[b].copy EXCEPT !.next = row[b].next]]
    <3>1. row'[b].status = "CANCELLED"
      <4>1. cancel[b].copy.status = "CANCELLED" /\ cancel[b].copy \in Row
        BY <1>8, <1>s, <1>t, ConstantsAssumption DEF CancelWrite, CancelsCancel, TypeOK
      <4>2. [cancel[b].copy EXCEPT !.next = row[b].next].status = "CANCELLED"
        BY <4>1 DEF Row
      <4> QED BY <1>t, <2>3, <4>2 DEF TypeOK
    <3>2. ASSUME NEW c \in Batch, schedule'[c] = "none" PROVE CountsInOrder(c)'
      <4>1. CASE c # b
        <5>1. row'[c] = row[c]
          BY <1>t, <2>3, <4>1 DEF TypeOK
        <5>2. CountsUntouched(c) /\ CountsInOrder(c)
          BY <1>s, <2>1, <3>2, <5>1 DEF CountsUntouched
        <5> QED BY <1>k, <5>2
      <4>2. CASE c = b
        <5>1. CountsInOrder(b)
          BY <1>s, <2>1, <3>2, <4>2
        <5>2. Reached(b)' = Reached(b)
          BY <2>1 DEF Reached
        <5>3. ASSUME NEW m \in Node PROVE CountsKept(m, b)'
          <6>1. CountsKept(m, b)
            BY <5>1 DEF CountsInOrder
          <6> QED BY <2>1, <3>1, <5>2, <6>1 DEF CountsKept
        <5>4. \A m, k \in Node : run'[m][b]["create"].at \in {"read", "mark", "fail"} =>
                                   reaping'[k][b] = NoRow
          BY <2>1, <5>1 DEF CountsInOrder
        <5> QED BY <3>1, <4>2, <5>3, <5>4 DEF CountsInOrder
      <4> QED BY <4>1, <4>2
    <3> QED BY <3>2 DEF CountInv
  <2> QED BY <1>8, <2>2, <2>3 DEF CancelWrite
<1>9. ASSUME NEW n \in Node, NEW b \in Batch, ReapSave(n, b) PROVE CountInv'
  <2>1. /\ UNCHANGED <<run, delivered, schedule, flag>> /\ reaping[n][b] # NoRow
        /\ row' = [row EXCEPT ![b] = [reaping[n][b] EXCEPT !.status = "FAILED"]]
        /\ reaping' = [reaping EXCEPT ![n][b] = NoRow]
    BY <1>9 DEF ReapSave, history
  <2>2. row'[b].status = "FAILED"
    <3>1. [reaping[n][b] EXCEPT !.status = "FAILED"].status = "FAILED"
      BY <1>t DEF TypeOK, Row
    <3> QED BY <1>t, <2>1, <3>1 DEF TypeOK
  <2>3. \A m \in Node, c \in Batch : reaping'[m][c] \in {reaping[m][c], NoRow}
    BY <1>t, <2>1 DEF TypeOK
  <2>4. ASSUME NEW c \in Batch, schedule'[c] = "none" PROVE CountsInOrder(c)'
    <3>1. CASE c # b
      <4>1. row'[c] = row[c]
        BY <1>t, <2>1, <3>1 DEF TypeOK
      <4>2. CountsUntouched(c) /\ CountsInOrder(c)
        BY <1>s, <2>1, <2>3, <2>4, <4>1 DEF CountsUntouched
      <4> QED BY <1>k, <4>2
    <3>2. CASE c = b
      <4>1. CountsInOrder(b)
        BY <1>s, <2>1, <2>4, <3>2
      <4>2. Reached(b)' = Reached(b)
        BY <2>1 DEF Reached
      <4>3. \A m \in Node : run[m][b]["create"].at \notin {"read", "mark", "fail"}
        BY <2>1, <4>1 DEF CountsInOrder
      <4>4. ASSUME NEW m \in Node PROVE CountsKept(m, b)'
        <5>1. CountsKept(m, b)
          BY <4>1 DEF CountsInOrder
        <5> QED BY <2>1, <4>2, <4>3, <5>1 DEF CountsKept
      <4> QED BY <2>1, <2>2, <3>2, <4>3, <4>4 DEF CountsInOrder
    <3> QED BY <3>1, <3>2
  <2> QED BY <2>4 DEF CountInv
<1>10. ASSUME NEW n \in Node, NEW b \in Batch, SaveNew(n, b) PROVE CountInv'
  <2>1. PICK s \in Schedules :
          /\ schedule' = [schedule EXCEPT ![b] = s]
          /\ run' = IF s = "later" THEN run ELSE [run EXCEPT ![n][b]["create"] = Starting]
    BY <1>10 DEF SaveNew
  <2>2. UNCHANGED <<delivered, reaping, flag>> /\ row' = [row EXCEPT ![b].status = "PENDING"]
    BY <1>10 DEF SaveNew, history
  <2>3. /\ row[b].status = "none" /\ schedule[b] = "none"
        /\ \A m \in Node : reaping[m][b] = NoRow
        /\ \A m \in Node, v \in Caller : run[m][b][v].at = "idle"
    BY <1>10, <1>s, ConstantsAssumption DEF SaveNew, CreatingIsNew, NewIsUntouched, Active
  <2>4. \A m \in Node, c \in Batch, v \in Caller :
          run'[m][c][v] = IF s # "later" /\ m = n /\ c = b /\ v = "create" THEN Starting ELSE run[m][c][v]
    BY <1>t, <2>1 DEF TypeOK
  <2>5. ASSUME NEW c \in Batch, schedule'[c] = "none" PROVE CountsInOrder(c)'
    <3>1. CASE c # b
      <4>1. row'[c] = row[c] /\ schedule'[c] = schedule[c]
        BY <1>t, <2>1, <2>2, <3>1 DEF TypeOK
      <4>2. CountsUntouched(c)
        BY <2>2, <2>4, <3>1, <4>1, <1>t DEF CountsUntouched
      <4> QED BY <1>k, <1>s, <2>5, <4>1, <4>2
    <3>2. CASE c = b
      <4>1. FreshRow(row[b])
        BY <1>s, <2>3 DEF CountsInOrder
      <4>2. row'[b].status = "PENDING" /\ FreshRow(row'[b])
        <5> DEFINE new == [row[b] EXCEPT !.status = "PENDING"]
        <5>1. new.status = "PENDING" /\ FreshRow(new)
          BY <1>t, <4>1 DEF FreshRow, Row
        <5>2. row'[b] = new
          BY <1>t, <2>2 DEF TypeOK
        <5> QED BY <5>1, <5>2
      <4>3. \A m \in Node : run'[m][b]["create"].at \in {"idle", "read"}
        BY <1>t, <2>3, <2>4
      <4>4. \A m \in Node : CountsKept(m, b)'
        BY <4>2, <4>3 DEF CountsKept, Marked
      <4> QED BY <2>2, <2>3, <3>2, <4>2, <4>4 DEF CountsInOrder
    <3> QED BY <3>1, <3>2
  <2> QED BY <2>5 DEF CountInv
<1>f. ASSUME NEW n \in Node, NEW b \in Batch, NEW w \in Caller, Active(n, b, w), Finish(n, b, w),
             UNCHANGED <<schedule, reaping, delivered>>,
             \A c \in Batch \ {b} : row'[c] = row[c],
             /\ schedule[b] = "none" /\ w = "create" /\ row[b].status # "COMPLETED"
             /\ CountsKept(n, b) /\ CountsInOrder(b)
             => \/ row'[b] = row[b]
                \/ /\ row'[b].status \notin {"none", "PENDING"}
                   /\ row'[b].status = "COMPLETED" => Exact(b)'
      PROVE  CountInv'
  <2>1. run' = [run EXCEPT ![n][b][w] = Idle] /\ flag' = [flag EXCEPT ![n][b] = "unset"]
    BY <1>f DEF Finish
  <2>2. \A m \in Node, c \in Batch \ {b} : flag'[m][c] = flag[m][c]
    BY <1>t, <2>1 DEF TypeOK
  <2>3. /\ schedule[b] = "none" /\ w = "create" /\ row[b].status # "COMPLETED"
        /\ CountsKept(n, b) /\ AheadIsUnsent(b) /\ CountsInOrder(b)
        => /\ row'[b].status = row[b].status \/ row'[b].status \notin {"none", "PENDING"}
           /\ row'[b].status \in {"none", "PENDING"} => FreshRow(row'[b])
           /\ row'[b].status = "COMPLETED" => Exact(b)'
    BY <1>f DEF CountsInOrder
  <2>4. Idle.at = "idle" /\ Idle.at \notin {"read", "mark", "fail"}
    BY <1>t
  <2> QED BY ZenonT(40), <1>f, <1>y, <2>1, <2>2, <2>3, <2>4
<1>g. ASSUME NEW b \in Batch, NEW new, Guarded(b, new)
      PROVE  /\ \A c \in Batch \ {b} : row'[c] = row[c]
             /\ row'[b] = IF row[b].status = "CANCELLED" THEN row[b] ELSE new
  BY <1>g, <1>t DEF Guarded, TypeOK
<1>11. ASSUME NEW n \in Node, NEW b \in Batch, NEW w \in Caller, ReadBatch(n, b, w) PROVE CountInv'
  <2> DEFINE r == [at |-> IF EngineAt(n) THEN "mark" ELSE "fail",
                   live |-> EngineAt(n), stopped |-> FALSE, copy |-> row[b]]
  <2>1. /\ run[n][b][w].at = "read" /\ Active(n, b, w)
        /\ UNCHANGED <<row, delivered, schedule, reaping>>
    BY <1>11 DEF ReadBatch, history, Active
  <2>2. CASE Finish(n, b, w)
    BY <1>f, <2>1, <2>2
  <2>3. CASE /\ row[b].status # "CANCELLED" /\ flag' = [flag EXCEPT ![n][b] = "run"]
             /\ run' = [run EXCEPT ![n][b][w] = r]
    <3>1. \A m \in Node, c \in Batch \ {b} : flag'[m][c] = flag[m][c]
      BY <1>t, <2>3 DEF TypeOK
    <3>2. r.at \in {"mark", "fail"} /\ r.copy = row[b] /\ r.stopped = FALSE
      OBVIOUS
    <3> HIDE DEF r
    <3>2a. run'[n][b][w] = r
      BY <1>e, <2>3
    <3>3. ASSUME w = "create", CountsKept(n, b), CountsInOrder(b)
          PROVE  row[b].status \in {"none", "PENDING"} /\ FreshRow(row[b]) /\ CountsKept(n, b)'
      <4>1. row[b].status = "PENDING" /\ FreshRow(row[b])
        BY <2>1, <2>3, <3>3 DEF CountsKept, CountsInOrder
      <4> QED BY <2>1, <3>2, <3>2a, <3>3, <4>1 DEF CountsKept, Marked
    <3>4. /\ schedule[b] = "none" /\ w = "create" /\ row[b].status # "COMPLETED"
          /\ CountsKept(n, b) /\ AheadIsUnsent(b) /\ CountsInOrder(b)
          => /\ row'[b].status = row[b].status
             /\ row'[b].status \in {"none", "PENDING"} => FreshRow(row'[b])
             /\ row'[b].status # "COMPLETED"
             /\ CountsKept(n, b)'
             /\ Old(n, b).at \in {"read", "mark", "fail"}
      BY <2>1, <3>3
    <3> QED BY <1>y, <2>1, <2>3, <3>1, <3>4
  <2> QED BY <1>11, <2>2, <2>3 DEF ReadBatch
<1>12. ASSUME NEW n \in Node, NEW b \in Batch, NEW w \in Caller, FailWithoutEngine(n, b, w) PROVE CountInv'
  <2>1. /\ Active(n, b, w) /\ Finish(n, b, w) /\ UNCHANGED <<schedule, reaping, delivered>>
        /\ Guarded(b, [row[b] EXCEPT !.status = "FAILED"])
    BY <1>12 DEF FailWithoutEngine, history, Active
  <2>2. [row[b] EXCEPT !.status = "FAILED"].status = "FAILED"
    BY <1>t DEF Row
  <2> QED BY <1>f, <1>g, <2>1, <2>2
<1>13. ASSUME NEW n \in Node, NEW b \in Batch, NEW w \in Caller, MarkProcessing(n, b, w) PROVE CountInv'
  <2> DEFINE old == run[n][b][w]
  <2> DEFINE at == IF old.copy.next < Total THEN "check" ELSE "reread"
  <2> DEFINE r == [old EXCEPT !.at = at]
  <2>1. /\ old.at = "mark" /\ Active(n, b, w) /\ UNCHANGED <<schedule, reaping, delivered>>
        /\ Guarded(b, [row[b] EXCEPT !.status = "PROCESSING"])
        /\ \/ row[b].status = "CANCELLED" /\ Finish(n, b, w)
           \/ row[b].status # "CANCELLED" /\ run' = [run EXCEPT ![n][b][w] = r] /\ UNCHANGED flag
    BY <1>13 DEF MarkProcessing, Step, history, Active
  <2>2. [row[b] EXCEPT !.status = "PROCESSING"].status = "PROCESSING"
    BY <1>t DEF Row
  <2>3. CASE row[b].status = "CANCELLED" /\ Finish(n, b, w)
    BY <1>f, <1>g, <2>1, <2>3
  <2>4. CASE row[b].status # "CANCELLED" /\ run' = [run EXCEPT ![n][b][w] = r] /\ UNCHANGED flag
    <3>1. row'[b].status = "PROCESSING" /\ \A c \in Batch \ {b} : row'[c] = row[c]
      BY <1>g, <2>1, <2>2, <2>4
    <3>2. r.at = at /\ r.copy = old.copy /\ r.stopped = old.stopped
      BY <1>t DEF RunRecord
    <3>2a. run'[n][b][w] = r
      <4>1. run' = [run EXCEPT ![n][b][w] = r]
        BY <2>4
      <4> HIDE DEF r
      <4> QED BY <1>e, <4>1
    <3>3. ASSUME w = "create", schedule[b] = "none", CountsKept(n, b), AheadIsUnsent(b)
          PROVE  r.at = "check" /\ CountsKept(n, b)'
      <4>1. FreshRow(old.copy) /\ ~old.stopped
        BY <2>1, <3>3 DEF CountsKept
      <4>2. old.copy.next = 0 /\ at = "check" /\ 0 < Total
        BY <4>1, ConstantsAssumption DEF FreshRow
      <4>3. Reached(b)' = 0
        <5>1. Unsent(b)
          BY <2>1, <3>3 DEF AheadIsUnsent
        <5>2. {i \in Item : delivered'[b][i] > 0} = {}
          BY <2>1, <5>1 DEF Unsent
        <5> QED BY <5>2, FS_EmptySet DEF Reached
      <4> HIDE DEF r, at
      <4> QED BY SMTT(30), <3>1, <3>2, <3>2a, <3>3, <4>1, <4>2, <4>3, ConstantsAssumption DEF CountsKept, FreshRow, Marked
    <3> HIDE DEF r
    <3> QED BY <1>y, <2>1, <2>4, <3>1, <3>3
  <2> QED BY <2>1, <2>3, <2>4
<1>14. ASSUME NEW n \in Node, NEW b \in Batch, NEW w \in Caller, CheckFlag(n, b, w) PROVE CountInv'
  <2> DEFINE old == run[n][b][w]
  <2> DEFINE r == [old EXCEPT !.at = IF flag[n][b] = "run" THEN "send" ELSE "reread"]
  <2>1. /\ old.at = "check" /\ Active(n, b, w) /\ UNCHANGED <<row, schedule, reaping, delivered, flag>>
        /\ run' = [run EXCEPT ![n][b][w] = r]
    BY <1>14 DEF CheckFlag, Step, history, Active
  <2>2. /\ r.copy = old.copy /\ r.stopped = old.stopped
        /\ r.at = "send" \/ (r.at = "reread" /\ flag[n][b] # "run")
    BY <1>t DEF RunRecord
  <2>3. Reached(b)' = Reached(b)
    BY <2>1 DEF Reached
  <2> HIDE DEF r
  <2>2a. run'[n][b][w] = r
    BY <1>e, <2>1
  <2>4. ASSUME w = "create", CountsKept(n, b) PROVE CountsKept(n, b)'
    BY <2>1, <2>2, <2>2a, <2>3, <2>4 DEF CountsKept, Marked
  <2> QED BY <1>y, <2>1, <2>2, <2>4 DEF CountsInOrder
<1>15. ASSUME NEW n \in Node, NEW b \in Batch, NEW w \in Caller, Sent(n, b, w) PROVE CountInv'
  <2> DEFINE old == run[n][b][w]
  <2> DEFINE i == old.copy.next
  <2> DEFINE k == [old.copy EXCEPT !.next = i + 1, !.sent = @ + 1]
  <2> DEFINE r == [old EXCEPT !.at = AfterMessage(i), !.copy.next = i + 1, !.copy.sent = @ + 1]
  <2>1. /\ old.at = "send" /\ Active(n, b, w) /\ UNCHANGED <<row, schedule, reaping, flag>>
        /\ run' = [run EXCEPT ![n][b][w] = r]
        /\ delivered' = [delivered EXCEPT ![b][i] = @ + 1]
    BY <1>15 DEF Sent, Active
  <2>2. k.next = i + 1 /\ k.sent = old.copy.sent + 1 /\ k.failed = old.copy.failed
    BY <1>t DEF Row
  <2>3a. r.copy = k /\ r.stopped = old.stopped /\ r.at = AfterMessage(i)
    BY <1>t DEF RunRecord
  <2>3b. run'[n][b][w] = r
    <3>1. run' = [run EXCEPT ![n][b][w] = r]
      BY <2>1
    <3> HIDE DEF r
    <3> QED BY <1>e, <3>1
  <2>3. run'[n][b][w] = r /\ r.copy = k /\ r.stopped = old.stopped /\ r.at = AfterMessage(i)
    BY <2>3a, <2>3b
  <2>4. \A c \in Batch \ {b} : delivered'[c] = delivered[c]
    BY <1>t, <2>1 DEF TypeOK
  <2>5. ASSUME w = "create", schedule[b] = "none", CountsKept(n, b), AheadIsUnsent(b)
        PROVE  CountsKept(n, b)'
    <3>1. /\ i < Total /\ ~old.stopped /\ old.copy.sent = Reached(b)
          /\ old.copy.sent + old.copy.failed = i /\ i \in Nat
      BY <1>t, <2>1, <2>5 DEF CountsKept, Marked
    <3>2. i \in Item /\ delivered[b][i] = 0
      <4>1. i \in Item
        BY <3>1, ConstantsAssumption DEF Item
      <4>2. i >= i
        BY <3>1
      <4> QED BY <2>1, <2>5, <4>1, <4>2 DEF AheadIsUnsent, Marked
    <3>3. Reached(b)' = Reached(b) + 1
      <4> DEFINE S == {j \in Item : delivered[b][j] > 0}
      <4>1. {j \in Item : delivered'[b][j] > 0} = S \cup {i} /\ i \notin S
        BY SMTT(30), <1>t, <2>1, <3>2 DEF TypeOK
      <4>2. IsFiniteSet(S)
        <5>1. IsFiniteSet(0 .. Total - 1)
          BY FS_Interval, ConstantsAssumption
        <5> QED BY <5>1, FS_Subset DEF Item
      <4>3. Cardinality(S \cup {i}) = Cardinality(S) + 1
        BY <4>1, <4>2, FS_AddElement
      <4> QED BY <4>1, <4>3 DEF Reached
    <3>4. r.at = "save" \/ (r.at = "check" /\ i # Total - 1)
      BY <2>3 DEF AfterMessage
    <3> HIDE DEF r, k, i
    <3>5. r.copy.next <= Total /\ (r.at = "check" => r.copy.next < Total)
      BY <2>2, <2>3, <3>1, <3>4, ConstantsAssumption
    <3>6. r.copy.sent = Reached(b)' /\ r.copy.sent + r.copy.failed = r.copy.next
      BY <1>t, <2>2, <2>3, <3>1, <3>3
    <3> QED BY <2>3, <2>5, <3>1, <3>4, <3>5, <3>6 DEF CountsKept, Marked
  <2>6. r.at \in {"save", "check"}
    BY <2>3 DEF AfterMessage
  <2> HIDE DEF r
  <2> QED BY <1>y, <2>1, <2>4, <2>5, <2>6 DEF CountsInOrder
<1>16. ASSUME NEW n \in Node, NEW b \in Batch, NEW w \in Caller, SendFails(n, b, w) PROVE CountInv'
  <2> DEFINE old == run[n][b][w]
  <2> DEFINE i == old.copy.next
  <2> DEFINE k == [old.copy EXCEPT !.failed = @ + 1]
  <2> DEFINE l == [old.copy EXCEPT !.next = i + 1, !.failed = @ + 1]
  <2> DEFINE stop == [old EXCEPT !.at = "reread", !.stopped = TRUE, !.copy.failed = @ + 1]
  <2> DEFINE on == [old EXCEPT !.at = AfterMessage(i), !.copy.next = i + 1, !.copy.failed = @ + 1]
  <2>1. /\ old.at = "send" /\ Active(n, b, w) /\ UNCHANGED <<row, schedule, reaping, flag, delivered>>
        /\ run' = [run EXCEPT ![n][b][w] = stop] \/ run' = [run EXCEPT ![n][b][w] = on]
    BY <1>16 DEF SendFails, history, Active
  <2>2. /\ k.sent = old.copy.sent /\ l.sent = old.copy.sent
        /\ l.next = i + 1 /\ l.failed = old.copy.failed + 1
    BY <1>t DEF Row
  <2>3. /\ stop.copy = k /\ stop.stopped = TRUE /\ stop.at = "reread"
        /\ on.copy = l /\ on.stopped = old.stopped /\ on.at = AfterMessage(i)
    BY <1>t DEF RunRecord
  <2>4. Reached(b)' = Reached(b)
    BY <2>1 DEF Reached
  <2>5. AfterMessage(i) = "save" \/ (AfterMessage(i) = "check" /\ i # Total - 1)
    BY DEF AfterMessage
  <2> HIDE DEF stop, on, k, l
  <2>6. ASSUME w = "create", CountsKept(n, b), run' = [run EXCEPT ![n][b][w] = stop]
        PROVE  CountsKept(n, b)'
    <3>1. run'[n][b][w] = stop
      BY <1>t, <2>6 DEF TypeOK
    <3> QED BY SMTT(30), <2>1, <2>2, <2>3, <2>4, <2>6, <3>1 DEF CountsKept, Marked
  <2>7. ASSUME w = "create", CountsKept(n, b), run' = [run EXCEPT ![n][b][w] = on]
        PROVE  CountsKept(n, b)'
    <3>1. run'[n][b][w] = on
      BY <1>t, <2>7 DEF TypeOK
    <3>2. /\ i < Total /\ ~old.stopped /\ old.copy.sent = Reached(b)
          /\ old.copy.sent + old.copy.failed = i /\ i \in Nat
      BY <1>t, <2>1, <2>7 DEF CountsKept, Marked
    <3> HIDE DEF i
    <3>3. on.copy.next <= Total /\ (on.at = "check" => on.copy.next < Total)
      BY <2>2, <2>3, <2>5, <3>2, ConstantsAssumption
    <3>4. on.copy.sent = Reached(b)' /\ on.copy.sent + on.copy.failed = on.copy.next
      BY <1>t, <2>2, <2>3, <2>4, <3>2
    <3> QED BY <2>3, <2>5, <2>7, <3>1, <3>2, <3>3, <3>4 DEF CountsKept, Marked
  <2>8. stop.at \in {"reread"} /\ on.at \in {"save", "check"}
    BY <2>3, <2>5
  <2>9. CASE run' = [run EXCEPT ![n][b][w] = stop]
    BY <1>y, <2>1, <2>6, <2>8, <2>9 DEF CountsInOrder
  <2>10. CASE run' = [run EXCEPT ![n][b][w] = on]
    BY <1>y, <2>1, <2>7, <2>8, <2>10 DEF CountsInOrder
  <2> QED BY <2>1, <2>9, <2>10
<1>17. ASSUME NEW b \in Batch, NEW n \in Node, NEW w \in Caller, NEW c \in BOOLEAN
       PROVE  LET old == run[n][b][w]
                  fin == Final(c, old.stopped, old.copy)
              IN  /\ fin.next = old.copy.next /\ fin.sent = old.copy.sent /\ fin.failed = old.copy.failed
                  /\ fin.status = "COMPLETED" => ~c /\ ~old.stopped
  BY <1>t DEF Final, FinalStatus, Row
<1>18. ASSUME NEW n \in Node, NEW b \in Batch, NEW w \in Caller, SaveProgress(n, b, w) PROVE CountInv'
  <2> DEFINE old == run[n][b][w]
  <2> DEFINE fin == Final(TRUE, old.stopped, old.copy)
  <2> DEFINE r1 == [old EXCEPT !.at = "write", !.copy = fin]
  <2> DEFINE r2 == [old EXCEPT !.at = IF old.copy.next < Total THEN "check" ELSE "reread"]
  <2> DEFINE r == IF row[b].status = "CANCELLED" THEN r1 ELSE r2
  <2>1. /\ old.at = "save" /\ Active(n, b, w) /\ UNCHANGED <<schedule, reaping, flag, delivered>>
        /\ Guarded(b, [old.copy EXCEPT !.status = row[b].status])
        /\ run' = [run EXCEPT ![n][b][w] = r]
    BY <1>18 DEF SaveProgress, history, Active
  <2>2. row'[b].status = row[b].status /\ \A c \in Batch \ {b} : row'[c] = row[c]
    <3>1. [old.copy EXCEPT !.status = row[b].status].status = row[b].status
      BY <1>t DEF Row
    <3> QED BY <1>g, <2>1, <3>1
  <2>3. row[b].status \notin {"none", "PENDING"}
    BY <1>s, <2>1 DEF MarkedIsPast, Marked
  <2>4. /\ fin.next = old.copy.next /\ fin.sent = old.copy.sent /\ fin.failed = old.copy.failed
        /\ fin.status # "COMPLETED"
    BY <1>17
  <2>5. Reached(b)' = Reached(b)
    BY <2>1 DEF Reached
  <2> HIDE DEF fin
  <2>6. /\ r1.at = "write" /\ r1.copy = fin /\ r1.stopped = old.stopped
        /\ r2.copy = old.copy /\ r2.stopped = old.stopped
        /\ r2.at = IF old.copy.next < Total THEN "check" ELSE "reread"
    BY <1>t DEF RunRecord
  <2> HIDE DEF r1, r2
  <2>7. ASSUME w = "create", CountsKept(n, b) PROVE CountsKept(n, b)'
    <3>1. run'[n][b][w] = r
      BY <1>e, <2>1
    <3>2. /\ ~old.stopped /\ old.copy.sent = Reached(b) /\ old.copy.next <= Total
          /\ old.copy.sent + old.copy.failed = old.copy.next
      BY <2>1, <2>7 DEF CountsKept, Marked
    <3>3. CASE r = r1
      <4>1. /\ run'[n][b][w] = r1 /\ r1.at = "write" /\ r1.copy.status # "COMPLETED"
            /\ r1.copy.sent = Reached(b)' /\ r1.copy.next <= Total
            /\ r1.copy.sent + r1.copy.failed = r1.copy.next
        BY <2>4, <2>5, <2>6, <3>1, <3>2, <3>3
      <4> QED BY <2>7, <4>1 DEF CountsKept, Marked
    <3>4. CASE r = r2
      <4>1. (r2.at = "check" /\ old.copy.next < Total) \/ (r2.at = "reread" /\ old.copy.next = Total)
        BY SMTT(30), <1>t, <2>6, <3>2, ConstantsAssumption
      <4> QED BY <2>5, <2>6, <2>7, <3>1, <3>2, <3>4, <4>1 DEF CountsKept, Marked
    <3> QED BY <3>3, <3>4
  <2>8. r.at \in {"write", "check", "reread"}
    BY <2>6
  <2> HIDE DEF r
  <2> QED BY <1>y, <2>1, <2>2, <2>3, <2>7, <2>8
<1>19. ASSUME NEW n \in Node, NEW b \in Batch, NEW w \in Caller, Reread(n, b, w) PROVE CountInv'
  <2> DEFINE old == run[n][b][w]
  <2> DEFINE c == row[b].status = "CANCELLED" \/ flag[n][b] # "run"
  <2> DEFINE fin == Final(c, old.stopped, old.copy)
  <2> DEFINE r == [old EXCEPT !.at = "write", !.copy = fin]
  <2>1. /\ old.at = "reread" /\ Active(n, b, w)
        /\ UNCHANGED <<row, schedule, reaping, flag, delivered>>
        /\ run' = [run EXCEPT ![n][b][w] = r]
    BY <1>19 DEF Reread, history, Active
  <2>2. /\ fin.next = old.copy.next /\ fin.sent = old.copy.sent /\ fin.failed = old.copy.failed
        /\ fin.status = "COMPLETED" => ~c /\ ~old.stopped
    BY <1>17
  <2>3. Reached(b)' = Reached(b)
    BY <2>1 DEF Reached
  <2> HIDE DEF fin
  <2>3a. r.at = "write" /\ r.copy = fin /\ r.stopped = old.stopped
    BY <1>t DEF RunRecord
  <2>4. r.at = "write" /\ r.copy = fin /\ r.stopped = old.stopped /\ run'[n][b][w] = r
    <3>1. run' = [run EXCEPT ![n][b][w] = r]
      BY <2>1
    <3> HIDE DEF r
    <3> QED BY <1>e, <2>3a, <3>1
  <2> HIDE DEF r
  <2>5. ASSUME w = "create", CountsKept(n, b) PROVE CountsKept(n, b)'
    <3>1. /\ old.copy.sent = Reached(b)
          /\ ~old.stopped => /\ old.copy.sent + old.copy.failed = old.copy.next /\ old.copy.next <= Total
                             /\ old.copy.next = Total \/ flag[n][b] # "run"
      BY <2>1, <2>5 DEF CountsKept, Marked
    <3> QED BY <2>2, <2>3, <2>4, <2>5, <3>1 DEF CountsKept, Marked
  <2> QED BY <1>y, <2>1, <2>4, <2>5 DEF CountsInOrder
<1>20. ASSUME NEW n \in Node, NEW b \in Batch, NEW w \in Caller, WriteFinal(n, b, w) PROVE CountInv'
  <2> DEFINE k == run[n][b][w].copy
  <2>1. /\ run[n][b][w].at = "write" /\ Active(n, b, w) /\ Finish(n, b, w)
        /\ UNCHANGED <<schedule, reaping, delivered>>
    BY <1>20 DEF WriteFinal, history, Active
  <2>2. row'[b] \in {row[b], k} /\ \A c \in Batch \ {b} : row'[c] = row[c]
    <3>1. CASE row' = [row EXCEPT ![b] = k]
      BY <1>t, <3>1 DEF TypeOK
    <3>2. CASE Guarded(b, k)
      BY <1>g, <3>2
    <3> QED BY <1>20, <3>1, <3>2 DEF WriteFinal
  <2>3. k.status \in Terminal
    BY <1>s, <2>1 DEF WritesAreTerminal
  <2>4. Reached(b)' = Reached(b)
    BY <2>1 DEF Reached
  <2>5. ASSUME w = "create", CountsKept(n, b), row'[b] = k, k.status = "COMPLETED" PROVE Exact(b)'
    BY <2>1, <2>4, <2>5 DEF CountsKept, Exact, Marked
  <2> HIDE DEF k
  <2> QED BY <1>f, <2>1, <2>2, <2>3, <2>5 DEF Terminal
<1>21. ASSUME NEW n \in Node, NEW b \in Batch, NEW w \in Caller, QueryFails(n, b, w) PROVE CountInv'
  <2>1. /\ Active(n, b, w) /\ run' = [run EXCEPT ![n][b][w] = Idle]
        /\ UNCHANGED <<row, schedule, reaping, delivered>>
        /\ flag' \in {flag, [flag EXCEPT ![n][b] = "unset"]}
    BY <1>21 DEF QueryFails, history, Active
  <2>2. \A m \in Node, c \in Batch \ {b} : flag'[m][c] = flag[m][c]
    <3>1. CASE flag' = flag
      BY <3>1
    <3>2. CASE flag' = [flag EXCEPT ![n][b] = "unset"]
      BY <1>t, <3>2 DEF TypeOK
    <3> QED BY <2>1, <3>1, <3>2
  <2>3. /\ schedule[b] = "none" /\ w = "create" /\ row[b].status # "COMPLETED"
        /\ CountsKept(n, b) /\ AheadIsUnsent(b) /\ CountsInOrder(b)
        => /\ row'[b].status = row[b].status \/ row'[b].status \notin {"none", "PENDING"}
           /\ row'[b].status \in {"none", "PENDING"} => FreshRow(row'[b])
           /\ row'[b].status = "COMPLETED" => Exact(b)'
    BY <2>1 DEF CountsInOrder
  <2>4. Idle.at = "idle" /\ Idle.at \notin {"read", "mark", "fail"}
    BY <1>t
  <2> QED BY  <1>y, <2>1, <2>2, <2>3, <2>4
<1> QED
  BY <1>1, <1>2, <1>3, <1>4, <1>5, <1>6, <1>7, <1>8, <1>9, <1>10, <1>11, <1>12, <1>13, <1>14, <1>15,
     <1>16, <1>18, <1>19, <1>20, <1>21 DEF Next, RunStep

(* An immediate batch that says COMPLETED counts every recipient once, and *)
(* as sent exactly those something was sent to.                            *)
THEOREM CompletedIsExactAlways == Spec => []CompletedIsExact
<1>1. Init => IInv /\ SentInv /\ CountInv
  BY IInvInductive, SentInductive, CountInductive
<1>2. IInv /\ SentInv /\ CountInv /\ [Next]_vars => IInv' /\ SentInv' /\ CountInv'
  BY IInvInductive, SentInductive, CountInductive
<1>3. CountInv => CompletedIsExact
  BY DEF CountInv, CountsInOrder, Exact, Reached, CompletedIsExact
<1> QED BY <1>1, <1>2, <1>3, PTL DEF Spec

=============================================================================
