------------------------- MODULE ScheduledMessagesProofs -------------------------
(***************************************************************************)
(* Proofs about ScheduledMessages, for any number of processes and rows,   *)
(* any page of the poll and any number of requests and faults.             *)
(*                                                                         *)
(* Four arguments.  A message that may still be sent was accepted no more  *)
(* often than it was given a reason, unless the owner has it in hand, and  *)
(* then it is about to say so in the row.  Every successor, and every      *)
(* dispatch about to leave one, is a message the engine accepted.  A row   *)
(* becomes SENT, and one of which a successor is expected, only by the     *)
(* step that makes its dispatch leave one, or by an edit.  And with        *)
(* nothing edited and nothing going wrong only the owner gets past the     *)
(* re-read, with a row that stays pending until it is done with it.        *)
(***************************************************************************)
EXTENDS ScheduledMessages, FiniteSetTheorems, TLAPS

At(n, m) == call[n][m].at

(* The owner has a dispatch at work that the engine has taken the message  *)
(* from, and that will say so in the row or excuse that it does not.       *)
Covered(m) == \E n \in Node : n = owner /\ Unsaved(n, m)

(* The message may still be sent: its row is pending, or the owner has     *)
(* looked at the row already.                                              *)
Open(m) ==
  \/ row[m].status = "PENDING"
  \/ \E n \in Node : n = owner /\ At(n, m) \in {"gate", "send"}

(* An engine that takes a message is there, and the owner's. *)
SendsHere ==
  \A n \in Node, m \in Message : At(n, m) = "send" => n = owner /\ engine # "gone"

(* What may still be sent was not sent more often than there were reasons. *)
OpenIsExcused == \A m \in Message : Open(m) /\ ~Covered(m) => accepted[m] <= excuse[m]

(* The dispatches that were accepted and have no successor yet. *)
Reporting(m) == {n \in Node : At(n, m) \in {"sent", "recur"}}

(* A successor stands for a message the engine accepted, and so does each  *)
(* dispatch that is about to leave one.                                    *)
SuccessorsAreAccepted ==
  \A m \in Message : successors[m] + Cardinality(Reporting(m)) <= accepted[m]

IInv ==
  /\ TypeOK
  /\ SendsHere /\ ResendIsExcused /\ OpenIsExcused
  /\ SuccessorsAreAccepted
  /\ SeriesContinues

Undisturbed == edits = 0 /\ faults = 0

(* Without edits and faults the owner and its engine stay, what a dispatch *)
(* elsewhere does ends with its re-read, and one at the owner that is past *)
(* it works on a row that is still pending.                                *)
SessionCalm == owner # NoNode /\ engine = "ready" /\ \A m \in Message : edit[m] = NoEdit

DispatchesCalm ==
  \A n \in Node, m \in Message :
    /\ list[n][m] # Gone \/ At(n, m) # "idle" => row[m].status # "none"
    /\ At(n, m) \notin {"idle", "read"} => n = owner
    /\ At(n, m) \notin {"cut", "lost"}
    /\ At(n, m) \in {"gate", "send", "sent", "failed"} => row[m].status = "PENDING"

CalmInv == Undisturbed => SessionCalm /\ DispatchesCalm

-----------------------------------------------------------------------------
(* Types.                                                                  *)

LEMMA Values ==
  /\ Gone \in Row
  /\ Idle \in Call /\ Idle.at = "idle"
  /\ NoEdit \in [by: Node \cup {NoNode}, copy: Row]
  BY DEF Gone, Idle, NoEdit, Row, Statuses, Rules, Call, CallStates

LEMMA RowUpdate ==
  ASSUME NEW r \in Row, NEW st \in Statuses
  PROVE  [r EXCEPT !.status = st] \in Row
  BY DEF Row

LEMMA AtUpdate ==
  ASSUME NEW c \in Call, NEW at \in CallStates
  PROVE  [c EXCEPT !.at = at] \in Call /\ [c EXCEPT !.at = at].at = at
  BY DEF Call

LEMMA NewCall ==
  ASSUME NEW at \in CallStates, NEW polled \in BOOLEAN, NEW r \in Row
  PROVE  [at |-> at, polled |-> polled, copy |-> r] \in Call
  BY DEF Call

(* One dispatch goes from where it is to another place.                    *)
Moved(n, m, at) ==
  /\ call' \in [Node -> [Message -> Call]]
  /\ \A k \in Node, j \in Message : At(k, j)' = IF k = n /\ j = m THEN at ELSE At(k, j)

(* What an assignment to one dispatch makes of all of them.                *)
LEMMA CallUpdate ==
  ASSUME TypeOK, NEW n \in Node, NEW m \in Message, NEW c \in Call,
         call' = [call EXCEPT ![n][m] = c]
  PROVE  Moved(n, m, c.at)
  BY DEF TypeOK, Moved, At

LEMMA StepMoves ==
  ASSUME TypeOK, NEW n \in Node, NEW m \in Message, NEW at \in CallStates, Step(n, m, at)
  PROVE  Moved(n, m, at)
<1> DEFINE c == [call[n][m] EXCEPT !.at = at]
<1>1. c \in Call /\ c.at = at
  BY AtUpdate DEF TypeOK
<1>2. call' = [call EXCEPT ![n][m] = c]
  BY DEF TypeOK, Step
<1> HIDE DEF c
<1> QED
  BY <1>1, <1>2, CallUpdate

LEMMA EndMoves ==
  ASSUME TypeOK, NEW n \in Node, NEW m \in Message, End(n, m)
  PROVE  Moved(n, m, "idle")
  BY CallUpdate, Values DEF End

(* A row an edit has changed is a row.                                     *)
LEMMA UpdatedIsRow ==
  ASSUME NEW r \in Row, NEW u \in Updated(r)
  PROVE  u \in Row
  BY DEF Updated, Row, Statuses, Rules

LEMMA TypeInductive ==
  /\ Init => TypeOK
  /\ TypeOK /\ [Next]_vars => TypeOK'
<1>i. ASSUME Init PROVE TypeOK
  <2>1. owner \in Node
    BY <1>i, ConstantsAssumption DEF Init
  <2> QED
    BY <1>i, <2>1, Values DEF Init, TypeOK
<1>n. ASSUME TypeOK, [Next]_vars PROVE TypeOK'
  <2> USE <1>n, Values DEF TypeOK
  <2> DEFINE Typed(c) == c \in [Node -> [Message -> Call]]
  <2>s. ASSUME NEW n \in Node, NEW m \in Message, NEW at \in CallStates, Step(n, m, at)
        PROVE  Typed(call')
    BY <2>s, StepMoves DEF Moved
  <2>e. ASSUME NEW n \in Node, NEW m \in Message, End(n, m)
        PROVE  Typed(call')
    BY <2>e, EndMoves DEF Moved
  <2>w. ASSUME NEW m \in Message, NEW r \in Row, Save(m, r)
        PROVE  row' \in [Message -> Row]
    BY <2>w DEF Save
  <2>f. ASSUME NEW n \in Node, NEW m \in Message
        PROVE  /\ [call[n][m].copy EXCEPT !.status = "SENT"] \in Row
               /\ [call[n][m].copy EXCEPT !.status = "FAILED"] \in Row
    <3>1. call[n][m].copy \in Row
      BY DEF Call
    <3> QED
      BY <3>1, RowUpdate DEF Statuses
  <2>1. ASSUME NEW m \in Message, Create(m) PROVE TypeOK'
    BY <2>1, <2>w DEF Create, Row, Statuses, session, history
  <2>2. CASE Tick
    BY <2>2 DEF Tick, session, history
  <2>3. ASSUME NEW n \in Node, PollRead(n) PROVE TypeOK'
    <3>1. list' \in [Node -> [Message -> Row]]
      BY <2>3 DEF PollRead
    <3> QED
      BY <2>3, <3>1 DEF PollRead, session, history
  <2>4. ASSUME NEW n \in Node, NEW m \in Message, PollVisit(n, m) PROVE TypeOK'
    <3>1. list' \in [Node -> [Message -> Row]]
      BY <2>4 DEF PollVisit
    <3>2. [at |-> "read", polled |-> TRUE, copy |-> list[n][m]] \in Call
      <4>1. "read" \in CallStates /\ TRUE \in BOOLEAN /\ list[n][m] \in Row
        BY DEF CallStates
      <4> QED
        BY <4>1, NewCall
    <3>3. Typed(call')
      BY <2>4, <3>2 DEF PollVisit
    <3>4. engine' \in {"ready", "connecting", "gone"}
      BY <2>4 DEF PollVisit
    <3> QED
      BY <2>4, <3>1, <3>3, <3>4 DEF PollVisit, session, history
  <2>5. ASSUME NEW n \in Node, NEW m \in Message, SendNow(n, m) PROVE TypeOK'
    <3>1. [at |-> "read", polled |-> FALSE, copy |-> row[m]] \in Call
      BY NewCall DEF CallStates
    <3>2. Typed(call')
      BY <2>5, <3>1 DEF SendNow
    <3> QED
      BY <2>5, <3>2 DEF SendNow, session, history
  <2>6. ASSUME NEW n \in Node, NEW m \in Message, Reread(n, m) PROVE TypeOK'
    <3> DEFINE c == call[n][m]
               d == [c EXCEPT !.at = "gate", !.copy = row[m]]
    <3>1. d \in Call
      <4>1. c \in Call /\ row[m] \in Row
        OBVIOUS
      <4> HIDE DEF c
      <4> QED
        BY <4>1 DEF Call, CallStates
    <3>2. \/ call' = [call EXCEPT ![n][m] = d]
          \/ Step(n, m, "failed")
          \/ End(n, m)
      BY <2>6 DEF Reread
    <3> HIDE DEF c, d
    <3>3. "failed" \in CallStates
      BY DEF CallStates
    <3>4. CASE call' = [call EXCEPT ![n][m] = d]
      <4>1. Typed(call')
        BY <3>1, <3>4
      <4> QED
        BY <2>6, <4>1 DEF Reread, session, history
    <3>5. CASE Step(n, m, "failed")
      <4>1. Typed(call')
        BY <3>3, <3>5, <2>s
      <4> QED
        BY <2>6, <4>1 DEF Reread, session, history
    <3>6. CASE End(n, m)
      <4>1. Typed(call')
        BY <3>6, <2>e
      <4> QED
        BY <2>6, <4>1 DEF Reread, session, history
    <3> QED
      BY <3>2, <3>4, <3>5, <3>6
  <2>7. ASSUME NEW n \in Node, NEW m \in Message, Gate(n, m) PROVE TypeOK'
    <3>1. Typed(call')
      BY <2>7, <2>s DEF Gate, CallStates
    <3> QED
      BY <2>7, <3>1 DEF Gate, session, history
  <2>8. ASSUME NEW n \in Node, NEW m \in Message, Accept(n, m) PROVE TypeOK'
    <3>1. Typed(call')
      BY <2>8, <2>s DEF Accept, CallStates
    <3>2. accepted' \in [Message -> Nat]
      BY <2>8 DEF Accept
    <3> QED
      BY <2>8, <3>1, <3>2 DEF Accept, session
  <2>9. ASSUME NEW n \in Node, NEW m \in Message, Refuse(n, m) PROVE TypeOK'
    <3>1. Typed(call')
      BY <2>9, <2>s, <2>e DEF Refuse, CallStates
    <3> QED
      BY <2>9, <3>1 DEF Refuse, session, history
  <2>10. ASSUME NEW n \in Node, NEW m \in Message, SaveSent(n, m) PROVE TypeOK'
    <3>1. Typed(call')
      BY <2>10, <2>s, <2>e DEF SaveSent, CallStates
    <3>2. row' \in [Message -> Row]
      BY <2>10, <2>w, <2>f DEF SaveSent, Statuses
    <3> QED
      BY <2>10, <3>1, <3>2 DEF SaveSent, session, history
  <2>11. ASSUME NEW n \in Node, NEW m \in Message, Recur(n, m) PROVE TypeOK'
    <3>1. Typed(call')
      BY <2>11, <2>e DEF Recur
    <3>2. row' \in [Message -> Row]
      BY <2>11, <2>w DEF Recur, Row, Statuses, Rules
    <3>3. successors' \in [Message -> Nat]
      BY <2>11 DEF Recur
    <3> QED
      BY <2>11, <3>1, <3>2, <3>3 DEF Recur, session
  <2>12. ASSUME NEW n \in Node, NEW m \in Message, SaveFailed(n, m) PROVE TypeOK'
    <3>1. Typed(call')
      BY <2>12, <2>e DEF SaveFailed
    <3>2. row' \in [Message -> Row]
      BY <2>12, <2>w, <2>f DEF SaveFailed, Statuses
    <3> QED
      BY <2>12, <3>1, <3>2 DEF SaveFailed, session, history
  <2>13. ASSUME NEW n \in Node, NEW m \in Message, QueryFails(n, m) PROVE TypeOK'
    <3>1. Typed(call')
      BY <2>13, <2>s, <2>e DEF QueryFails, CallStates
    <3>2. list' \in [Node -> [Message -> Row]]
      <4> DEFINE none == [k \in Message |-> Gone]
      <4>1. none \in [Message -> Row]
        OBVIOUS
      <4>2. list' = list \/ list' = [list EXCEPT ![n] = none]
        BY <2>13 DEF QueryFails
      <4>3. list \in [Node -> [Message -> Row]]
        OBVIOUS
      <4> HIDE DEF none, TypeOK
      <4> QED
        BY <4>1, <4>2, <4>3
    <3>3. excuse' \in [Message -> Nat] /\ faults' \in Nat
      <4>1. excuse' = excuse \/ \E x \in {excuse[m], excuse[m] + 1} : excuse' = [excuse EXCEPT ![m] = x]
        BY <2>13 DEF QueryFails
      <4>2. faults' = faults + 1
        BY <2>13 DEF QueryFails
      <4>3. faults \in Nat /\ excuse \in [Message -> Nat] /\ excuse[m] \in Nat
        OBVIOUS
      <4> HIDE DEF TypeOK
      <4> QED
        BY <4>1, <4>2, <4>3
    <3>4. severed' \subseteq Message
      BY <2>13 DEF QueryFails
    <3> QED
      BY <2>13, <3>1, <3>2, <3>3, <3>4 DEF QueryFails, session
  <2>14. ASSUME NEW n \in Node, NEW m \in Message, EditRead(n, m) PROVE TypeOK'
    <3>1. PICK r \in Updated(row[m]) \cup {Gone} :
            edit' = [edit EXCEPT ![m] = [by |-> n, copy |-> r]]
      BY <2>14 DEF EditRead
    <3>2. r \in Row
      BY UpdatedIsRow
    <3>3. edit' \in [Message -> [by: Node \cup {NoNode}, copy: Row]]
      BY <3>1, <3>2
    <3> QED
      BY <2>14, <3>3 DEF EditRead, session, history
  <2>15. ASSUME NEW n \in Node, NEW m \in Message, EditSave(n, m) PROVE TypeOK'
    <3>1. row' \in [Message -> Row]
      BY <2>15, <2>w DEF EditSave
    <3>2. /\ edit' \in [Message -> [by: Node \cup {NoNode}, copy: Row]] /\ excuse' \in [Message -> Nat]
          /\ severed' \subseteq Message
      BY <2>15 DEF EditSave
    <3> QED
      BY <2>15, <3>1, <3>2 DEF EditSave, session
  <2>16. ASSUME NEW n \in Node, Connect(n) PROVE TypeOK'
    BY <2>16 DEF Connect
  <2>17. CASE Disconnect
    <3>1. Typed(call')
      <4>1. CASE engine' = "gone" /\ owner # NoNode
        <5> DEFINE cut == [m \in Message |-> IF call[owner][m].at = "send"
                            THEN [call[owner][m] EXCEPT !.at = "cut"] ELSE call[owner][m]]
        <5>1. owner \in Node /\ "cut" \in CallStates
          BY <4>1 DEF CallStates
        <5>2. \A m \in Message : [call[owner][m] EXCEPT !.at = "cut"] \in Call
          BY <5>1, AtUpdate
        <5>3. cut \in [Message -> Call]
          BY <5>1, <5>2
        <5>4. call' = [call EXCEPT ![owner] = cut] \/ call' = call
          BY <2>17, <4>1 DEF Disconnect
        <5> HIDE DEF cut
        <5> QED
          BY <5>1, <5>3, <5>4
      <4> QED
        BY <2>17, <4>1 DEF Disconnect
    <3> QED
      BY <2>17, <3>1 DEF Disconnect, history
  <2>18. CASE LoseLease
    BY <2>18 DEF LoseLease
  <2>19. ASSUME NEW n \in Node, Crash(n) PROVE TypeOK'
    <3>1. Typed(call') /\ list' \in [Node -> [Message -> Row]]
      BY <2>19 DEF Crash
    <3>2. /\ edit' \in [Message -> [by: Node \cup {NoNode}, copy: Row]] /\ excuse' \in [Message -> Nat]
          /\ severed' \subseteq Message
      BY <2>19 DEF Crash
    <3> QED
      BY <2>19, <3>1, <3>2 DEF Crash
  <2>20. CASE UNCHANGED vars
    BY <2>20 DEF vars, session, history
  <2> QED
    BY <2>1, <2>2, <2>3, <2>4, <2>5, <2>6, <2>7, <2>8, <2>9, <2>10, <2>11, <2>12, <2>13, <2>14,
       <2>15, <2>16, <2>17, <2>18, <2>19, <2>20
    DEF Next, Dispatch, Poll
<1> QED
  BY <1>i, <1>n

-----------------------------------------------------------------------------
(* What the dispatches do, in terms of where they are.                     *)

LEMMA DispatchMoves ==
  ASSUME TypeOK, NEW n \in Node, NEW m \in Message
  PROVE  /\ Reread(n, m) =>
              /\ At(n, m) = "read"
              /\ \/ row[m].status = "none" /\ Moved(n, m, "failed")
                 \/ row[m].status = "PENDING" /\ Ready(n) /\ Moved(n, m, "gate")
                 \/ Moved(n, m, "idle")
         /\ Gate(n, m) =>
              /\ At(n, m) = "gate"
              /\ \/ Moved(n, m, "failed")
                 \/ Registered(n) /\ Moved(n, m, "send")
         /\ Accept(n, m) => At(n, m) = "send" /\ Moved(n, m, "sent")
         /\ Refuse(n, m) =>
              /\ At(n, m) \in {"send", "cut"}
              /\ Moved(n, m, "failed") \/ Moved(n, m, "idle")
         /\ SaveSent(n, m) =>
              /\ At(n, m) = "sent"
              /\ \A k \in Message : k # m => row'[k] = row[k]
              /\ row'[m].status = "SENT"
              /\ Moved(n, m, "recur")
         /\ Recur(n, m) =>
              /\ At(n, m) = "recur"
              /\ Moved(n, m, "idle")
              /\ \A k \in Message : row'[k] # row[k] => Unused(k) /\ row'[k].status = "PENDING"
         /\ SaveFailed(n, m) =>
              /\ At(n, m) \in {"failed", "lost"}
              /\ \A k \in Message : k # m => row'[k] = row[k]
              /\ row'[m].status = "FAILED"
              /\ Moved(n, m, "idle")
         /\ QueryFails(n, m) =>
              \/ At(n, m) = "read" /\ Moved(n, m, "failed") /\ UNCHANGED excuse
              \/ At(n, m) = "sent" /\ Moved(n, m, "lost") /\ UNCHANGED excuse
              \/ At(n, m) \in {"recur", "failed"} /\ Moved(n, m, "idle") /\ UNCHANGED excuse
              \/ /\ At(n, m) = "lost" /\ Moved(n, m, "idle")
                 /\ excuse' = [excuse EXCEPT ![m] = @ + 1]
<1> USE DEF At
<1>1. CallStates = {"idle", "read", "gate", "send", "cut", "sent", "recur", "failed", "lost"}
  BY DEF CallStates
<1>m. \A at \in CallStates : Step(n, m, at) => Moved(n, m, at)
  BY StepMoves
<1>e. End(n, m) => Moved(n, m, "idle")
  BY EndMoves
<1>2. ASSUME Reread(n, m)
      PROVE  /\ At(n, m) = "read"
             /\ \/ row[m].status = "none" /\ Moved(n, m, "failed")
                \/ row[m].status = "PENDING" /\ Ready(n) /\ Moved(n, m, "gate")
                \/ Moved(n, m, "idle")
  <2> DEFINE c == call[n][m]
             d == [c EXCEPT !.at = "gate", !.copy = row[m]]
  <2>1. d \in Call /\ d.at = "gate"
    <3>1. c \in Call /\ row[m] \in Row
      BY DEF TypeOK
    <3> HIDE DEF c
    <3> QED
      BY <3>1 DEF Call, CallStates
  <2>2. /\ At(n, m) = "read"
        /\ \/ row[m].status = "PENDING" /\ Ready(n) /\ call' = [call EXCEPT ![n][m] = d]
           \/ row[m].status = "none" /\ Step(n, m, "failed")
           \/ End(n, m)
    BY <1>2 DEF Reread
  <2> HIDE DEF c, d
  <2>3. call' = [call EXCEPT ![n][m] = d] => Moved(n, m, "gate")
    BY <2>1, CallUpdate
  <2> QED
    BY <2>2, <2>3, <1>1, <1>m, <1>e
<1>3. ASSUME Gate(n, m)
      PROVE  /\ At(n, m) = "gate"
             /\ \/ Moved(n, m, "failed")
                \/ Registered(n) /\ Moved(n, m, "send")
  BY <1>1, <1>m, <1>3 DEF Gate
<1>4. ASSUME Accept(n, m) PROVE At(n, m) = "send" /\ Moved(n, m, "sent")
  BY <1>1, <1>m, <1>4 DEF Accept
<1>5. ASSUME Refuse(n, m)
      PROVE  /\ At(n, m) \in {"send", "cut"}
             /\ Moved(n, m, "failed") \/ Moved(n, m, "idle")
  BY <1>1, <1>m, <1>e, <1>5 DEF Refuse
<1>6. ASSUME SaveSent(n, m)
      PROVE  /\ At(n, m) = "sent"
             /\ \A k \in Message : k # m => row'[k] = row[k]
             /\ row'[m].status = "SENT"
             /\ Moved(n, m, "recur")
  <2> DEFINE r == call[n][m].copy
             s == [r EXCEPT !.status = "SENT"]
  <2>1. r \in Row
    BY DEF TypeOK, Call
  <2>2. row' = [row EXCEPT ![m] = s]
    BY <1>6 DEF SaveSent, Save
  <2>3. s.status = "SENT"
    <3> HIDE DEF r
    <3> QED
      BY <2>1 DEF Row
  <2>4. At(n, m) = "sent" /\ Moved(n, m, "recur")
    BY <1>6, <1>1, <1>m DEF SaveSent
  <2> HIDE DEF s
  <2> QED
    BY <2>2, <2>3, <2>4 DEF TypeOK
<1>7. ASSUME Recur(n, m)
      PROVE  /\ At(n, m) = "recur"
             /\ Moved(n, m, "idle")
             /\ \A k \in Message : row'[k] # row[k] => Unused(k) /\ row'[k].status = "PENDING"
  <2>1. CASE UNCHANGED row
    BY <1>7, <1>e, <2>1 DEF Recur
  <2>2. ASSUME NEW k \in Message, NEW rule, Unused(k), Save(k, [status |-> "PENDING", at |-> 1, rule |-> rule])
        PROVE  \A j \in Message : row'[j] # row[j] => Unused(j) /\ row'[j].status = "PENDING"
    BY <2>2 DEF Save, TypeOK
  <2>3. At(n, m) = "recur" /\ Moved(n, m, "idle")
    BY <1>7, <1>e DEF Recur
  <2>4. \/ UNCHANGED row
        \/ \E k \in Message, rule \in Rules :
             Unused(k) /\ Save(k, [status |-> "PENDING", at |-> 1, rule |-> rule])
    BY <1>7 DEF Recur, Rules
  <2> QED
    BY <2>1, <2>2, <2>3, <2>4
<1>8. ASSUME SaveFailed(n, m)
      PROVE  /\ At(n, m) \in {"failed", "lost"}
             /\ \A k \in Message : k # m => row'[k] = row[k]
             /\ row'[m].status = "FAILED"
             /\ Moved(n, m, "idle")
  <2> DEFINE r == call[n][m].copy
             s == [r EXCEPT !.status = "FAILED"]
  <2>1. r \in Row
    BY DEF TypeOK, Call
  <2>2. row' = [row EXCEPT ![m] = s]
    BY <1>8 DEF SaveFailed, Save
  <2>3. s.status = "FAILED"
    <3> HIDE DEF r
    <3> QED
      BY <2>1 DEF Row
  <2>4. At(n, m) \in {"failed", "lost"} /\ Moved(n, m, "idle")
    BY <1>8, <1>e DEF SaveFailed
  <2> HIDE DEF s
  <2> QED
    BY <2>2, <2>3, <2>4 DEF TypeOK
<1>9. ASSUME QueryFails(n, m)
      PROVE  \/ At(n, m) = "read" /\ Moved(n, m, "failed") /\ UNCHANGED excuse
             \/ At(n, m) = "sent" /\ Moved(n, m, "lost") /\ UNCHANGED excuse
             \/ At(n, m) \in {"recur", "failed"} /\ Moved(n, m, "idle") /\ UNCHANGED excuse
             \/ /\ At(n, m) = "lost" /\ Moved(n, m, "idle")
                /\ excuse' = [excuse EXCEPT ![m] = @ + 1]
  <2>1. At(n, m) = "failed" /\ excuse' = [excuse EXCEPT ![m] = @] => UNCHANGED excuse
    BY DEF TypeOK
  <2>2. \/ At(n, m) = "read" /\ Step(n, m, "failed") /\ UNCHANGED excuse
        \/ At(n, m) = "sent" /\ Step(n, m, "lost") /\ UNCHANGED excuse
        \/ At(n, m) = "recur" /\ End(n, m) /\ UNCHANGED excuse
        \/ At(n, m) = "failed" /\ End(n, m) /\ excuse' = [excuse EXCEPT ![m] = @]
        \/ At(n, m) = "lost" /\ End(n, m) /\ excuse' = [excuse EXCEPT ![m] = @ + 1]
    BY <1>9 DEF QueryFails, Continuing
  <2> QED
    BY <2>1, <2>2, <1>1, <1>m, <1>e
<1> QED
  BY <1>2, <1>3, <1>4, <1>5, <1>6, <1>7, <1>8, <1>9

LEMMA OtherMoves ==
  ASSUME TypeOK
  PROVE  /\ \A n \in Node, m \in Message :
              PollVisit(n, m) => UNCHANGED call \/ (At(n, m) = "idle" /\ Moved(n, m, "read"))
         /\ \A n \in Node, m \in Message : SendNow(n, m) => At(n, m) = "idle" /\ Moved(n, m, "read")
         /\ Disconnect =>
              \A n \in Node, m \in Message :
                \/ At(n, m)' = At(n, m)
                \/ n = owner /\ At(n, m) = "send" /\ At(n, m)' = "cut"
         /\ Disconnect /\ engine' = "gone" => \A n \in Node, m \in Message : n = owner => At(n, m)' # "send"
         /\ \A n \in Node : Crash(n) =>
              \A k \in Node, m \in Message : At(k, m)' = IF k = n THEN "idle" ELSE At(k, m)
<1> USE DEF At
<1>1. ASSUME NEW n \in Node, NEW m \in Message, PollVisit(n, m)
      PROVE  UNCHANGED call \/ (At(n, m) = "idle" /\ Moved(n, m, "read"))
  <2> DEFINE c == [at |-> "read", polled |-> TRUE, copy |-> list[n][m]]
  <2>1. c \in Call
    <3>1. "read" \in CallStates /\ TRUE \in BOOLEAN /\ list[n][m] \in Row
      BY DEF CallStates, TypeOK
    <3> QED
      BY <3>1, NewCall
  <2>2. UNCHANGED call \/ (At(n, m) = "idle" /\ call' = [call EXCEPT ![n][m] = c])
    <3>1. CASE ~Executing(n, m) /\ Ready(n)
      BY <1>1, <3>1 DEF PollVisit, Executing
    <3>2. CASE ~(~Executing(n, m) /\ Ready(n))
      BY <1>1, <3>2 DEF PollVisit
    <3> QED
      BY <3>1, <3>2
  <2>3. c.at = "read"
    OBVIOUS
  <2> HIDE DEF c
  <2> QED
    BY <2>1, <2>2, <2>3, CallUpdate
<1>2. ASSUME NEW n \in Node, NEW m \in Message, SendNow(n, m)
      PROVE  At(n, m) = "idle" /\ Moved(n, m, "read")
  <2> DEFINE c == [at |-> "read", polled |-> FALSE, copy |-> row[m]]
  <2>1. c \in Call
    <3>1. "read" \in CallStates /\ FALSE \in BOOLEAN /\ row[m] \in Row
      BY DEF CallStates, TypeOK
    <3> QED
      BY <3>1, NewCall
  <2>2. At(n, m) = "idle" /\ call' = [call EXCEPT ![n][m] = c]
    BY <1>2 DEF SendNow, Executing
  <2>3. c.at = "read"
    OBVIOUS
  <2> HIDE DEF c
  <2> QED
    BY <2>1, <2>2, <2>3, CallUpdate
<1>3. ASSUME Disconnect
      PROVE  /\ \A n \in Node, m \in Message :
                  \/ At(n, m)' = At(n, m)
                  \/ n = owner /\ At(n, m) = "send" /\ At(n, m)' = "cut"
             /\ engine' = "gone" => \A n \in Node, m \in Message : n = owner => At(n, m)' # "send"
  <2> DEFINE cut == [m \in Message |-> IF call[owner][m].at = "send"
                      THEN [call[owner][m] EXCEPT !.at = "cut"] ELSE call[owner][m]]
  <2>1. owner \in Node
    BY <1>3 DEF Disconnect, TypeOK
  <2>2. ASSUME NEW m \in Message
        PROVE  cut[m].at = IF At(owner, m) = "send" THEN "cut" ELSE At(owner, m)
    <3>1. [call[owner][m] EXCEPT !.at = "cut"].at = "cut"
      BY <2>1, AtUpdate DEF TypeOK, CallStates
    <3> QED
      BY <3>1
  <2>3. \/ engine' # "gone" /\ UNCHANGED call
        \/ call' = [call EXCEPT ![owner] = cut]
    BY <1>3 DEF Disconnect
  <2> HIDE DEF cut
  <2> QED
    BY <2>1, <2>2, <2>3 DEF TypeOK
<1>4. ASSUME NEW n \in Node, Crash(n), NEW k \in Node, NEW m \in Message
      PROVE  At(k, m)' = IF k = n THEN "idle" ELSE At(k, m)
  BY <1>4, Values DEF Crash, TypeOK
<1> QED
  BY <1>1, <1>2, <1>3, <1>4

-----------------------------------------------------------------------------
(* What may still be sent.                                                 *)

LEMMA ResendInductive ==
  /\ Init => SendsHere /\ ResendIsExcused /\ OpenIsExcused
  /\ /\ TypeOK /\ SendsHere /\ ResendIsExcused /\ OpenIsExcused
     /\ [Next]_vars
     => SendsHere' /\ ResendIsExcused' /\ OpenIsExcused'
<1> DEFINE Fine == SendsHere /\ ResendIsExcused /\ OpenIsExcused
<1>i. ASSUME Init PROVE Fine
  <2>1. \A n \in Node, m \in Message : At(n, m) = "idle"
    BY <1>i, Values DEF Init, At
  <2>2. \A m \in Message : accepted[m] = 0 /\ excuse[m] = 0
    BY <1>i DEF Init
  <2> QED
    BY <2>1, <2>2 DEF SendsHere, ResendIsExcused, OpenIsExcused
<1>n. ASSUME TypeOK, Fine, [Next]_vars PROVE Fine'
  <2> USE <1>n DEF SendsHere, ResendIsExcused, OpenIsExcused, Open, Covered, Unsaved, At
  <2>t. /\ owner \in Node \cup {NoNode} /\ NoNode \notin Node
        /\ \A m \in Message : accepted[m] \in Nat /\ excuse[m] \in Nat
    BY ConstantsAssumption DEF TypeOK
  <2>k. \A m \in Message : excuse'[m] \in Nat
    BY TypeInductive DEF TypeOK
  <2>1. ASSUME NEW m \in Message, Create(m) PROVE Fine'
    <3>1. accepted[m] = 0 /\ \A k \in Message : k # m => row'[k] = row[k]
      BY <2>1 DEF Create, Unused, Save, TypeOK
    <3>2. UNCHANGED <<call, owner, engine, accepted, excuse>>
      BY <2>1 DEF Create, session, history
    <3> QED
      BY <2>t, <3>1, <3>2
  <2>2. CASE Tick
    BY <2>2 DEF Tick, session, history
  <2>3. ASSUME NEW n \in Node, PollRead(n) PROVE Fine'
    BY <2>3 DEF PollRead, session, history
  <2>4. ASSUME NEW n \in Node, NEW m \in Message, PollVisit(n, m) PROVE Fine'
    <3>1. UNCHANGED <<row, owner, accepted, excuse>> /\ (engine = engine' \/ engine' # "gone")
      BY <2>4 DEF PollVisit, history
    <3>2. UNCHANGED call \/ (At(n, m) = "idle" /\ Moved(n, m, "read"))
      BY <2>4, OtherMoves
    <3> QED
      BY <3>1, <3>2 DEF Moved
  <2>5. ASSUME NEW n \in Node, NEW m \in Message, SendNow(n, m) PROVE Fine'
    <3>1. UNCHANGED <<row, owner, engine, accepted, excuse>>
      BY <2>5 DEF SendNow, session, history
    <3>2. At(n, m) = "idle" /\ Moved(n, m, "read")
      BY <2>5, OtherMoves
    <3> QED
      BY <3>1, <3>2 DEF Moved
  <2>6. ASSUME NEW n \in Node, NEW m \in Message, Reread(n, m) PROVE Fine'
    <3>1. UNCHANGED <<row, owner, engine, accepted, excuse>>
      BY <2>6 DEF Reread, session, history
    <3>2. /\ At(n, m) = "read"
          /\ \/ Moved(n, m, "failed")
             \/ row[m].status = "PENDING" /\ Moved(n, m, "gate")
             \/ Moved(n, m, "idle")
      BY <2>6, DispatchMoves
    <3> QED
      BY ZenonT(40), <3>1, <3>2 DEF Moved
  <2>7. ASSUME NEW n \in Node, NEW m \in Message, Gate(n, m) PROVE Fine'
    <3>1. UNCHANGED <<row, owner, engine, accepted, excuse>>
      BY <2>7 DEF Gate, session, history
    <3>2. /\ At(n, m) = "gate"
          /\ \/ Moved(n, m, "failed")
             \/ Registered(n) /\ Moved(n, m, "send")
      BY <2>7, DispatchMoves
    <3> QED
      BY ZenonT(40), <3>1, <3>2 DEF Moved, Registered
  <2>8. ASSUME NEW n \in Node, NEW m \in Message, Accept(n, m) PROVE Fine'
    <3>1. UNCHANGED <<row, owner, engine, excuse>> /\ accepted' = [accepted EXCEPT ![m] = @ + 1]
      BY <2>8 DEF Accept, session
    <3>2. At(n, m) = "send" /\ Moved(n, m, "sent")
      BY <2>8, DispatchMoves
    <3>3. /\ accepted'[m] = accepted[m] + 1
          /\ \A k \in Message : k # m => accepted'[k] = accepted[k]
      BY <3>1 DEF TypeOK
    <3>4. n = owner /\ accepted[m] <= excuse[m]
      BY <3>2
    <3>9. SendsHere'
      BY <3>1, <3>2 DEF Moved
    <3>10. ASSUME NEW k \in Message
          PROVE  /\ accepted'[k] <= 1 + excuse'[k]
                 /\ Open(k)' /\ ~Covered(k)' => accepted'[k] <= excuse'[k]
      <4> DEFINE a == accepted[k]
                 e == excuse[k]
      <4>1. /\ a \in Nat /\ e \in Nat /\ a <= 1 + e
            /\ Open(k) /\ ~Covered(k) => a <= e
        BY <2>t
      <4>2. CASE k = m
        BY <2>t, <3>1, <3>2, <3>3, <3>4, <4>2 DEF Moved
      <4>3. CASE k # m
        <5>1. Open(k)' = Open(k) /\ Covered(k)' = Covered(k)
          BY <3>1, <3>2, <4>3 DEF Moved
        <5> QED
          BY <3>1, <3>3, <4>1, <4>3, <5>1
      <4> QED
        BY <4>2, <4>3
    <3> QED
      BY <3>9, <3>10
  <2>9. ASSUME NEW n \in Node, NEW m \in Message, Refuse(n, m) PROVE Fine'
    <3>1. UNCHANGED <<row, owner, engine, accepted, excuse>>
      BY <2>9 DEF Refuse, session, history
    <3>2. At(n, m) \in {"send", "cut"} /\ (Moved(n, m, "failed") \/ Moved(n, m, "idle"))
      BY <2>9, DispatchMoves
    <3> QED
      BY ZenonT(40), <3>1, <3>2 DEF Moved
  <2>10. ASSUME NEW n \in Node, NEW m \in Message, SaveSent(n, m) PROVE Fine'
    <3>1. UNCHANGED <<owner, engine, accepted, excuse>>
      BY <2>10 DEF SaveSent, session, history
    <3>2. /\ At(n, m) = "sent"
          /\ \A k \in Message : k # m => row'[k] = row[k]
          /\ row'[m].status = "SENT"
          /\ Moved(n, m, "recur")
      BY <2>10, DispatchMoves
    <3>3. SendsHere'
      BY <3>1, <3>2 DEF Moved
    <3>4. ASSUME NEW k \in Message PROVE Open(k)' /\ ~Covered(k)' => accepted'[k] <= excuse'[k]
      <4>1. CASE k = m
        <5>1. Covered(m) => n = owner \/ Covered(m)'
          BY <3>1, <3>2 DEF Moved
        <5>2. Open(m)' => Open(m) /\ n # owner
          BY <3>1, <3>2 DEF Moved, SendsHere
        <5> QED
          BY <3>1, <4>1, <5>1, <5>2
      <4>2. CASE k # m
        <5>1. (Open(k)' => Open(k)) /\ (Covered(k) => Covered(k)')
          BY <3>1, <3>2, <4>2 DEF Moved
        <5> QED
          BY <3>1, <5>1
      <4> QED
        BY <4>1, <4>2
    <3> QED
      BY <3>1, <3>3, <3>4
  <2>11. ASSUME NEW n \in Node, NEW m \in Message, Recur(n, m) PROVE Fine'
    <3>1. UNCHANGED <<owner, engine, accepted, excuse>>
      BY <2>11 DEF Recur, session
    <3>2. /\ At(n, m) = "recur" /\ Moved(n, m, "idle")
          /\ \A k \in Message : row'[k] # row[k] => accepted[k] = 0
      BY <2>11, DispatchMoves DEF Unused
    <3>9. SendsHere'
      BY <3>1, <3>2 DEF Moved
    <3>10. ASSUME NEW k \in Message
          PROVE  /\ accepted'[k] <= 1 + excuse'[k]
                 /\ Open(k)' /\ ~Covered(k)' => accepted'[k] <= excuse'[k]
      <4> DEFINE a == accepted[k]
                 e == excuse[k]
      <4>1. /\ a \in Nat /\ e \in Nat /\ a <= 1 + e
            /\ Open(k) /\ ~Covered(k) => a <= e
        BY <2>t
      <4>2. CASE row'[k] # row[k]
        BY <2>t, <3>1, <3>2, <4>2
      <4>3. CASE row'[k] = row[k]
        <5>1. (Open(k)' => Open(k)) /\ (Covered(k) => Covered(k)')
          BY <3>1, <3>2, <4>3 DEF Moved
        <5> QED
          BY <3>1, <4>1, <5>1
      <4> QED
        BY <4>2, <4>3
    <3> QED
      BY <3>9, <3>10
  <2>12. ASSUME NEW n \in Node, NEW m \in Message, SaveFailed(n, m) PROVE Fine'
    <3>1. UNCHANGED <<owner, engine, accepted, excuse>>
      BY <2>12 DEF SaveFailed, session, history
    <3>2. /\ At(n, m) \in {"failed", "lost"}
          /\ \A k \in Message : k # m => row'[k] = row[k]
          /\ row'[m].status = "FAILED"
          /\ Moved(n, m, "idle")
      BY <2>12, DispatchMoves
    <3> QED
      BY SMTT(30), <3>1, <3>2 DEF Moved
  <2>13. ASSUME NEW n \in Node, NEW m \in Message, QueryFails(n, m) PROVE Fine'
    <3>1. UNCHANGED <<row, owner, engine, accepted>>
      BY <2>13 DEF QueryFails, session
    <3>2. \/ At(n, m) = "read" /\ Moved(n, m, "failed") /\ UNCHANGED excuse
          \/ At(n, m) = "sent" /\ Moved(n, m, "lost") /\ UNCHANGED excuse
          \/ At(n, m) \in {"recur", "failed"} /\ Moved(n, m, "idle") /\ UNCHANGED excuse
          \/ /\ At(n, m) = "lost" /\ Moved(n, m, "idle")
             /\ excuse' = [excuse EXCEPT ![m] = @ + 1]
      BY <2>13, DispatchMoves
    <3>3. excuse' = [excuse EXCEPT ![m] = @ + 1] =>
            \A k \in Message : excuse'[k] = IF k = m THEN excuse[m] + 1 ELSE excuse[k]
      BY DEF TypeOK
    <3>9. SendsHere'
      BY <3>1, <3>2 DEF Moved
    <3>10. ASSUME NEW k \in Message
          PROVE  /\ accepted'[k] <= 1 + excuse'[k]
                 /\ Open(k)' /\ ~Covered(k)' => accepted'[k] <= excuse'[k]
      <4> DEFINE a == accepted[k]
                 e == excuse[k]
      <4>1. /\ a \in Nat /\ e \in Nat /\ a <= 1 + e
            /\ Open(k) /\ ~Covered(k) => a <= e
        BY <2>t
      <4>2. CASE At(n, m) = "lost" /\ k = m
        <5>1. e + 1 = excuse'[k]
          BY <3>2, <3>3, <4>2
        <5> QED
          BY <3>1, <4>1, <5>1
      <4>3. CASE ~(At(n, m) = "lost" /\ k = m)
        <5>1. (Open(k)' => Open(k)) /\ (Covered(k) => Covered(k)')
          BY <3>1, <3>2, <4>3 DEF Moved
        <5>2. excuse'[k] = e
          BY <3>2, <3>3, <4>3
        <5> QED
          BY <3>1, <4>1, <5>1, <5>2
      <4> QED
        BY <4>2, <4>3
    <3> QED
      BY <3>9, <3>10
  <2>14. ASSUME NEW n \in Node, NEW m \in Message, EditRead(n, m) PROVE Fine'
    BY <2>14 DEF EditRead, session, history
  <2>15. ASSUME NEW n \in Node, NEW m \in Message, EditSave(n, m) PROVE Fine'
    <3>1. UNCHANGED <<call, owner, engine, accepted>>
      BY <2>15 DEF EditSave, session
    <3>2. \A k \in Message : k # m => row'[k] = row[k] /\ excuse'[k] = excuse[k]
      BY <2>15 DEF EditSave, Save, TypeOK
    <3>3. excuse'[m] = IF row'[m].status = "PENDING" /\ row[m].status # "PENDING"
                         THEN excuse[m] + 1 ELSE excuse[m]
      BY <2>15 DEF EditSave, Save, TypeOK
    <3> QED
      BY <2>t, <3>1, <3>2, <3>3
  <2>16. ASSUME NEW n \in Node, Connect(n) PROVE Fine'
    <3>1. UNCHANGED <<row, call, accepted>> /\ owner' = n /\ engine' = "ready"
      BY <2>16 DEF Connect
    <3>2. CASE owner = n
      BY <2>16, <2>t, <3>1, <3>2 DEF Connect
    <3>3. CASE owner = NoNode
      <4>1. \A m \in Message : excuse'[m] = IF At(n, m) = "gate" THEN excuse[m] + 1 ELSE excuse[m]
        BY <2>16, <3>3 DEF Connect
      <4>2. \A k \in Node, m \in Message : At(k, m) # "send"
        BY <2>t, <3>3
      <4> QED
        BY <2>t, <3>1, <3>3, <4>1, <4>2
    <3> QED
      BY <2>16, <3>2, <3>3 DEF Connect
  <2>17. CASE Disconnect
    <3>1. UNCHANGED <<row, owner, accepted, excuse>>
      BY <2>17 DEF Disconnect, history
    <3>2. \A n \in Node, m \in Message :
            \/ At(n, m)' = At(n, m)
            \/ n = owner /\ At(n, m) = "send" /\ At(n, m)' = "cut"
      BY <2>17, OtherMoves
    <3>3. engine' = "gone" => \A n \in Node, m \in Message : n = owner => At(n, m)' # "send"
      BY <2>17, OtherMoves
    <3> QED
      BY <3>1, <3>2, <3>3
  <2>18. CASE LoseLease
    <3>1. UNCHANGED <<row, call, engine, accepted>> /\ engine = "gone" /\ owner' = NoNode /\ owner \in Node
      BY <2>18, <2>t DEF LoseLease
    <3>2. \A m \in Message : excuse'[m] = IF Unsaved(owner, m) THEN excuse[m] + 1 ELSE excuse[m]
      BY <2>18 DEF LoseLease
    <3> QED
      BY <2>t, <3>1, <3>2
  <2>19. ASSUME NEW n \in Node, Crash(n) PROVE Fine'
    <3>1. UNCHANGED <<row, owner, accepted>> /\ engine' = IF owner = n THEN "gone" ELSE engine
      BY <2>19 DEF Crash
    <3>2. \A m \in Message : excuse'[m] = IF Unsaved(n, m) THEN excuse[m] + 1 ELSE excuse[m]
      BY <2>19 DEF Crash
    <3>3. \A k \in Node, m \in Message : At(k, m)' = IF k = n THEN "idle" ELSE At(k, m)
      BY <2>19, OtherMoves
    <3> QED
      BY <2>t, <3>1, <3>2, <3>3
  <2>20. CASE UNCHANGED vars
    BY <2>20 DEF vars, session, history
  <2> QED
    BY <2>1, <2>2, <2>3, <2>4, <2>5, <2>6, <2>7, <2>8, <2>9, <2>10, <2>11, <2>12, <2>13, <2>14,
       <2>15, <2>16, <2>17, <2>18, <2>19, <2>20
    DEF Next, Dispatch, Poll
<1> QED
  BY <1>i, <1>n


-----------------------------------------------------------------------------
(* Successors.                                                             *)

LEMMA ReportingIsFinite ==
  \A m \in Message : IsFiniteSet(Reporting(m)) /\ Cardinality(Reporting(m)) \in Nat
  BY ConstantsAssumption, FS_Subset, FS_CardinalityType DEF Reporting

(* A message with fewer dispatches to report, and as many successors and   *)
(* acceptances, is fine.                                                   *)
LEMMA FewerReporting ==
  ASSUME NEW m \in Message,
         \A n \in Node : At(n, m)' \in {"sent", "recur"} => At(n, m) \in {"sent", "recur"}
  PROVE  Cardinality(Reporting(m)') <= Cardinality(Reporting(m))
<1>1. Reporting(m)' \subseteq Reporting(m)
  BY DEF Reporting
<1> QED
  BY <1>1, ReportingIsFinite, FS_Subset

LEMMA SuccessorsInductive ==
  /\ Init => SuccessorsAreAccepted
  /\ TypeOK /\ SuccessorsAreAccepted /\ [Next]_vars => SuccessorsAreAccepted'
<1>i. ASSUME Init PROVE SuccessorsAreAccepted
  <2> SUFFICES ASSUME NEW m \in Message
               PROVE  successors[m] + Cardinality(Reporting(m)) <= accepted[m]
    BY DEF SuccessorsAreAccepted
  <2>1. \A n \in Node : At(n, m) = "idle"
    BY <1>i, Values DEF Init, At
  <2>2. Reporting(m) = {}
    BY <2>1 DEF Reporting
  <2> QED
    BY <1>i, <2>2, FS_EmptySet DEF Init
<1>n. ASSUME TypeOK, SuccessorsAreAccepted, [Next]_vars PROVE SuccessorsAreAccepted'
  <2> USE <1>n
  <2>t. ASSUME NEW m \in Message
        PROVE  /\ successors[m] \in Nat /\ accepted[m] \in Nat
               /\ Cardinality(Reporting(m)) \in Nat /\ Cardinality(Reporting(m)') \in Nat
               /\ IsFiniteSet(Reporting(m)) /\ IsFiniteSet(Reporting(m)')
               /\ successors[m] + Cardinality(Reporting(m)) <= accepted[m]
    <3>1. IsFiniteSet(Reporting(m)') /\ Cardinality(Reporting(m)') \in Nat
      BY ConstantsAssumption, FS_Subset, FS_CardinalityType DEF Reporting
    <3> QED
      BY <3>1, ReportingIsFinite DEF TypeOK, SuccessorsAreAccepted
  <2>f. ASSUME NEW m \in Message, successors'[m] = successors[m], accepted'[m] = accepted[m],
               \A n \in Node : At(n, m)' \in {"sent", "recur"} => At(n, m) \in {"sent", "recur"}
        PROVE  successors'[m] + Cardinality(Reporting(m)') <= accepted'[m]
    <3>1. Cardinality(Reporting(m)') <= Cardinality(Reporting(m))
      BY <2>f, FewerReporting
    <3> QED
      BY <2>f, <2>t, <3>1
  <2>g. ASSUME UNCHANGED <<successors, accepted>>,
               \A n \in Node, m \in Message :
                 At(n, m)' \in {"sent", "recur"} => At(n, m) \in {"sent", "recur"}
        PROVE  SuccessorsAreAccepted'
    BY <2>f, <2>g DEF SuccessorsAreAccepted
  <2>v. ASSUME NEW n \in Node, NEW m \in Message, NEW at \in CallStates, Moved(n, m, at),
               at \in {"sent", "recur"} => At(n, m) \in {"sent", "recur"},
               UNCHANGED <<successors, accepted>>
        PROVE  SuccessorsAreAccepted'
    BY <2>g, <2>v DEF Moved
  <2>s. CallStates = {"idle", "read", "gate", "send", "cut", "sent", "recur", "failed", "lost"}
    BY DEF CallStates
  <2>c. UNCHANGED <<call, successors, accepted>> => SuccessorsAreAccepted'
    BY <2>g DEF At
  <2>1. ASSUME NEW m \in Message, Create(m) PROVE SuccessorsAreAccepted'
    BY <2>1, <2>c DEF Create, history
  <2>2. CASE Tick
    BY <2>2, <2>c DEF Tick, history
  <2>3. ASSUME NEW n \in Node, PollRead(n) PROVE SuccessorsAreAccepted'
    BY <2>3, <2>c DEF PollRead, history
  <2>4. ASSUME NEW n \in Node, NEW m \in Message, PollVisit(n, m) PROVE SuccessorsAreAccepted'
    <3>1. UNCHANGED <<successors, accepted>>
      BY <2>4 DEF PollVisit, history
    <3> QED
      BY <2>4, <3>1, <2>c, <2>s, <2>v, OtherMoves
  <2>5. ASSUME NEW n \in Node, NEW m \in Message, SendNow(n, m) PROVE SuccessorsAreAccepted'
    <3>1. UNCHANGED <<successors, accepted>>
      BY <2>5 DEF SendNow, history
    <3> QED
      BY <2>5, <3>1, <2>s, <2>v, OtherMoves
  <2>6. ASSUME NEW n \in Node, NEW m \in Message, Reread(n, m) PROVE SuccessorsAreAccepted'
    <3>1. UNCHANGED <<successors, accepted>>
      BY <2>6 DEF Reread, history
    <3>2. Moved(n, m, "failed") \/ Moved(n, m, "gate") \/ Moved(n, m, "idle")
      BY <2>6, DispatchMoves
    <3> QED
      BY <3>1, <3>2, <2>s, <2>v
  <2>7. ASSUME NEW n \in Node, NEW m \in Message, Gate(n, m) PROVE SuccessorsAreAccepted'
    <3>1. UNCHANGED <<successors, accepted>>
      BY <2>7 DEF Gate, history
    <3>2. Moved(n, m, "failed") \/ Moved(n, m, "send")
      BY <2>7, DispatchMoves
    <3> QED
      BY <3>1, <3>2, <2>s, <2>v
  <2>8. ASSUME NEW n \in Node, NEW m \in Message, Accept(n, m) PROVE SuccessorsAreAccepted'
    <3>1. UNCHANGED successors /\ accepted' = [accepted EXCEPT ![m] = @ + 1]
      BY <2>8 DEF Accept
    <3>2. At(n, m) = "send" /\ Moved(n, m, "sent")
      BY <2>8, DispatchMoves
    <3>3. SUFFICES ASSUME NEW k \in Message
                   PROVE  successors'[k] + Cardinality(Reporting(k)') <= accepted'[k]
      BY DEF SuccessorsAreAccepted
    <3>4. CASE k = m
      <4>1. Reporting(m)' = Reporting(m) \cup {n} /\ n \notin Reporting(m)
        BY <3>2 DEF Reporting, Moved
      <4>2. Cardinality(Reporting(m)') = Cardinality(Reporting(m)) + 1
        BY <4>1, <2>t, FS_AddElement
      <4>3. accepted'[m] = accepted[m] + 1
        BY <3>1 DEF TypeOK
      <4> QED
        BY <3>1, <3>4, <4>2, <4>3, <2>t
    <3>5. CASE k # m
      <4>1. accepted'[k] = accepted[k]
        BY <3>1, <3>5 DEF TypeOK
      <4>2. \A j \in Node : At(j, k)' = At(j, k)
        BY <3>2, <3>5 DEF Moved
      <4> QED
        BY <3>1, <4>1, <4>2, <2>f
    <3> QED
      BY <3>4, <3>5
  <2>9. ASSUME NEW n \in Node, NEW m \in Message, Refuse(n, m) PROVE SuccessorsAreAccepted'
    <3>1. UNCHANGED <<successors, accepted>>
      BY <2>9 DEF Refuse, history
    <3>2. Moved(n, m, "failed") \/ Moved(n, m, "idle")
      BY <2>9, DispatchMoves
    <3> QED
      BY <3>1, <3>2, <2>s, <2>v
  <2>10. ASSUME NEW n \in Node, NEW m \in Message, SaveSent(n, m) PROVE SuccessorsAreAccepted'
    <3>1. UNCHANGED <<successors, accepted>>
      BY <2>10 DEF SaveSent, history
    <3>2. At(n, m) = "sent" /\ Moved(n, m, "recur")
      BY <2>10, DispatchMoves
    <3> QED
      BY <3>1, <3>2, <2>s, <2>v
  <2>11. ASSUME NEW n \in Node, NEW m \in Message, Recur(n, m) PROVE SuccessorsAreAccepted'
    <3>1. /\ UNCHANGED accepted
          /\ UNCHANGED successors \/ successors' = [successors EXCEPT ![m] = @ + 1]
      BY <2>11 DEF Recur
    <3>2. At(n, m) = "recur" /\ Moved(n, m, "idle")
      BY <2>11, DispatchMoves
    <3>3. SUFFICES ASSUME NEW k \in Message
                   PROVE  successors'[k] + Cardinality(Reporting(k)') <= accepted'[k]
      BY DEF SuccessorsAreAccepted
    <3>4. CASE k = m
      <4>1. Reporting(m)' = Reporting(m) \ {n} /\ n \in Reporting(m)
        BY <3>2 DEF Reporting, Moved
      <4>2. Cardinality(Reporting(m)') = Cardinality(Reporting(m)) - 1
        BY <4>1, <2>t, FS_RemoveElement
      <4>3. successors'[m] \in {successors[m], successors[m] + 1}
        BY <3>1 DEF TypeOK
      <4> QED
        BY <3>1, <3>4, <4>2, <4>3, <2>t
    <3>5. CASE k # m
      <4>1. successors'[k] = successors[k]
        BY <3>1, <3>5 DEF TypeOK
      <4>2. \A j \in Node : At(j, k)' = At(j, k)
        BY <3>2, <3>5 DEF Moved
      <4> QED
        BY <3>1, <4>1, <4>2, <2>f
    <3> QED
      BY <3>4, <3>5
  <2>12. ASSUME NEW n \in Node, NEW m \in Message, SaveFailed(n, m) PROVE SuccessorsAreAccepted'
    <3>1. UNCHANGED <<successors, accepted>>
      BY <2>12 DEF SaveFailed, history
    <3>2. Moved(n, m, "idle")
      BY <2>12, DispatchMoves
    <3> QED
      BY <3>1, <3>2, <2>s, <2>v
  <2>13. ASSUME NEW n \in Node, NEW m \in Message, QueryFails(n, m) PROVE SuccessorsAreAccepted'
    <3>1. UNCHANGED <<successors, accepted>>
      BY <2>13 DEF QueryFails
    <3>2. Moved(n, m, "failed") \/ Moved(n, m, "lost") \/ Moved(n, m, "idle")
      BY <2>13, DispatchMoves
    <3> QED
      BY <3>1, <3>2, <2>s, <2>v
  <2>14. ASSUME NEW n \in Node, NEW m \in Message, EditRead(n, m) PROVE SuccessorsAreAccepted'
    BY <2>14, <2>c DEF EditRead, history
  <2>15. ASSUME NEW n \in Node, NEW m \in Message, EditSave(n, m) PROVE SuccessorsAreAccepted'
    BY <2>15, <2>c DEF EditSave
  <2>16. ASSUME NEW n \in Node, Connect(n) PROVE SuccessorsAreAccepted'
    BY <2>16, <2>c DEF Connect
  <2>17. CASE Disconnect
    <3>1. UNCHANGED <<successors, accepted>>
      BY <2>17 DEF Disconnect, history
    <3>2. \A n \in Node, m \in Message : At(n, m)' = At(n, m) \/ At(n, m)' = "cut"
      BY <2>17, OtherMoves
    <3> QED
      BY <3>1, <3>2, <2>g
  <2>18. CASE LoseLease
    BY <2>18, <2>c DEF LoseLease
  <2>19. ASSUME NEW n \in Node, Crash(n) PROVE SuccessorsAreAccepted'
    <3>1. UNCHANGED <<successors, accepted>>
      BY <2>19 DEF Crash
    <3>2. \A k \in Node, m \in Message : At(k, m)' = IF k = n THEN "idle" ELSE At(k, m)
      BY <2>19, OtherMoves
    <3> QED
      BY <3>1, <3>2, <2>g
  <2>20. CASE UNCHANGED vars
    BY <2>20, <2>c DEF vars, history
  <2> QED
    BY <2>1, <2>2, <2>3, <2>4, <2>5, <2>6, <2>7, <2>8, <2>9, <2>10, <2>11, <2>12, <2>13, <2>14,
       <2>15, <2>16, <2>17, <2>18, <2>19, <2>20
    DEF Next, Dispatch, Poll
<1> QED
  BY <1>i, <1>n


-----------------------------------------------------------------------------
(* Series.                                                                 *)

(* The dispatches of other messages, or on other nodes, stay as they are.  *)
Elsewhere(n, m) ==
  \A k \in Node, j \in Message : k # n \/ j # m => call'[k][j] = call[k][j]

LEMMA DispatchesElsewhere ==
  ASSUME TypeOK, NEW n \in Node, NEW m \in Message,
         \/ \E at \in CallStates : Step(n, m, at)
         \/ End(n, m)
         \/ \E c : call' = [call EXCEPT ![n][m] = c]
  PROVE  Elsewhere(n, m)
  BY DEF TypeOK, Step, End, Elsewhere

LEMMA SeriesInductive ==
  /\ Init => SeriesContinues
  /\ TypeOK /\ SeriesContinues /\ [Next]_vars => SeriesContinues'
<1>i. ASSUME Init PROVE SeriesContinues
  BY <1>i DEF Init, Gone, SeriesContinues, SentOpen
<1>n. ASSUME TypeOK, SeriesContinues, [Next]_vars PROVE SeriesContinues'
  <2> USE <1>n
  <2> DEFINE Kept == \A n \in Node, m \in Message : Continuing(n, m) => Continuing(n, m)'
  <2>s. CallStates = {"idle", "read", "gate", "send", "cut", "sent", "recur", "failed", "lost"}
    BY DEF CallStates
  (* What no new row is, and what is not lost. *)
  <2>k. ASSUME \A m \in Message : SentOpen(row'[m]) => row'[m] = row[m] \/ m \in severed',
               UNCHANGED successors, severed \subseteq severed',
               \A n \in Node, m \in Message : Continuing(n, m) => Continuing(n, m)' \/ m \in severed'
        PROVE  SeriesContinues'
    BY <2>k DEF SeriesContinues
  <2>c. ASSUME UNCHANGED <<row, successors, severed>>, Kept PROVE SeriesContinues'
    BY <2>c, <2>k
  <2>e. ASSUME NEW n \in Node, NEW m \in Message, Elsewhere(n, m), call[n][m].at # "recur"
        PROVE  Kept
    BY <2>e DEF Elsewhere, Continuing
  <2>u. UNCHANGED call => Kept
    BY DEF Continuing
  <2> HIDE DEF Kept
  <2>1. ASSUME NEW m \in Message, Create(m) PROVE SeriesContinues'
    <3>1. \A k \in Message : SentOpen(row'[k]) => row'[k] = row[k]
      BY <2>1 DEF Create, Save, SentOpen, TypeOK
    <3>2. UNCHANGED <<call, successors, severed>>
      BY <2>1 DEF Create, history
    <3> QED
      BY <3>1, <3>2, <2>u, <2>k DEF Kept
  <2>2. CASE Tick
    BY <2>2, <2>c, <2>u DEF Tick, history
  <2>3. ASSUME NEW n \in Node, PollRead(n) PROVE SeriesContinues'
    BY <2>3, <2>c, <2>u DEF PollRead, history
  <2>4. ASSUME NEW n \in Node, NEW m \in Message, PollVisit(n, m) PROVE SeriesContinues'
    <3>1. UNCHANGED <<row, successors, severed>>
      BY <2>4 DEF PollVisit, history
    <3>2. CASE UNCHANGED call
      BY <3>1, <3>2, <2>u, <2>c
    <3>3. CASE call' # call
      <4>1. Elsewhere(n, m) /\ call[n][m].at = "idle"
        BY <2>4, <3>3, DispatchesElsewhere DEF PollVisit, Executing
      <4> QED
        BY <3>1, <4>1, <2>e, <2>c
    <3> QED
      BY <3>2, <3>3
  <2>5. ASSUME NEW n \in Node, NEW m \in Message, SendNow(n, m) PROVE SeriesContinues'
    <3>1. UNCHANGED <<row, successors, severed>>
      BY <2>5 DEF SendNow, history
    <3>2. Elsewhere(n, m) /\ call[n][m].at = "idle"
      BY <2>5, DispatchesElsewhere DEF SendNow, Executing
    <3> QED
      BY <3>1, <3>2, <2>e, <2>c
  <2>6. ASSUME NEW n \in Node, NEW m \in Message, Reread(n, m) PROVE SeriesContinues'
    <3>1. UNCHANGED <<row, successors, severed>>
      BY <2>6 DEF Reread, history
    <3>2. \/ \E c : call' = [call EXCEPT ![n][m] = c]
          \/ Step(n, m, "failed")
          \/ End(n, m)
      BY <2>6 DEF Reread
    <3>3. Elsewhere(n, m) /\ call[n][m].at = "read"
      BY <2>6, <3>2, <2>s, DispatchesElsewhere DEF Reread
    <3> QED
      BY <3>1, <3>3, <2>e, <2>c
  <2>7. ASSUME NEW n \in Node, NEW m \in Message, Gate(n, m) PROVE SeriesContinues'
    <3>1. UNCHANGED <<row, successors, severed>>
      BY <2>7 DEF Gate, history
    <3>2. Elsewhere(n, m) /\ call[n][m].at = "gate"
      BY <2>7, <2>s, DispatchesElsewhere DEF Gate
    <3> QED
      BY <3>1, <3>2, <2>e, <2>c
  <2>8. ASSUME NEW n \in Node, NEW m \in Message, Accept(n, m) PROVE SeriesContinues'
    <3>1. UNCHANGED <<row, successors, severed>>
      BY <2>8 DEF Accept
    <3>2. Elsewhere(n, m) /\ call[n][m].at = "send"
      BY <2>8, <2>s, DispatchesElsewhere DEF Accept
    <3> QED
      BY <3>1, <3>2, <2>e, <2>c
  <2>9. ASSUME NEW n \in Node, NEW m \in Message, Refuse(n, m) PROVE SeriesContinues'
    <3>1. UNCHANGED <<row, successors, severed>>
      BY <2>9 DEF Refuse, history
    <3>2. Elsewhere(n, m) /\ call[n][m].at \in {"send", "cut"}
      BY <2>9, <2>s, DispatchesElsewhere DEF Refuse
    <3> QED
      BY <3>1, <3>2, <2>e, <2>c
  <2>10. ASSUME NEW n \in Node, NEW m \in Message, SaveSent(n, m) PROVE SeriesContinues'
    <3>1. UNCHANGED <<successors, severed>>
      BY <2>10 DEF SaveSent, history
    <3>2. Elsewhere(n, m) /\ call[n][m].at = "sent"
      BY <2>10, <2>s, DispatchesElsewhere DEF SaveSent
    <3>3. \A k \in Message : k # m => row'[k] = row[k]
      BY <2>10 DEF SaveSent, Save, TypeOK
    <3>4. SentOpen(row'[m]) => Continuing(n, m)'
      <4> DEFINE c == call[n][m]
                 d == [c EXCEPT !.at = "recur"]
                 r == [c.copy EXCEPT !.status = "SENT"]
      <4>1. c \in Call /\ c.copy \in Row
        BY DEF TypeOK, Call
      <4>2. row'[m] = r /\ call'[n][m] = d
        BY <2>10 DEF SaveSent, Save, Step, TypeOK
      <4> HIDE DEF c
      <4>3. r.rule = c.copy.rule /\ d.at = "recur" /\ d.copy = c.copy
        BY <4>1 DEF Call, Row
      <4> HIDE DEF d, r
      <4> QED
        BY <4>2, <4>3 DEF SentOpen, Continuing
    <3>5. SUFFICES ASSUME NEW k \in Message, SentOpen(row'[k])
                   PROVE  successors'[k] > 0 \/ k \in severed' \/ \E j \in Node : Continuing(j, k)'
      BY DEF SeriesContinues
    <3>6. CASE k = m
      BY <3>4, <3>5, <3>6
    <3>7. CASE k # m
      BY <3>1, <3>2, <3>3, <3>5, <3>7, <2>e DEF Kept, SeriesContinues
    <3> QED
      BY <3>6, <3>7
  <2>11. ASSUME NEW n \in Node, NEW m \in Message, Recur(n, m) PROVE SeriesContinues'
    <3>1. UNCHANGED severed
      BY <2>11 DEF Recur
    <3>2. Elsewhere(n, m)
      BY <2>11, DispatchesElsewhere DEF Recur
    <3>3. \A k \in Message : row'[k] # row[k] => row'[k].status = "PENDING"
      BY <2>11, DispatchMoves
    <3>4. \/ ~Continuing(n, m) /\ UNCHANGED successors
          \/ successors' = [successors EXCEPT ![m] = @ + 1]
      BY <2>11 DEF Recur
    <3>5. /\ \A k \in Message : successors[k] \in Nat /\ (k # m => successors'[k] = successors[k])
          /\ Continuing(n, m) => successors'[m] = successors[m] + 1
          /\ successors'[m] \in {successors[m], successors[m] + 1}
      BY <3>4 DEF TypeOK
    <3>6. SUFFICES ASSUME NEW k \in Message, SentOpen(row'[k])
                   PROVE  successors'[k] > 0 \/ k \in severed' \/ \E j \in Node : Continuing(j, k)'
      BY DEF SeriesContinues
    <3>7. SentOpen(row[k])
      BY <3>3, <3>6 DEF SentOpen
    <3>8. CASE successors[k] > 0
      BY <3>5, <3>8
    <3>9. CASE k \in severed
      BY <3>1, <3>9
    <3>10. ASSUME NEW j \in Node, Continuing(j, k)
           PROVE  successors'[k] > 0 \/ Continuing(j, k)'
      <4>1. CASE j = n /\ k = m
        BY <3>5, <3>10, <4>1
      <4>2. CASE j # n \/ k # m
        BY <3>2, <3>10, <4>2 DEF Elsewhere, Continuing
      <4> QED
        BY <4>1, <4>2
    <3> QED
      BY <3>7, <3>8, <3>9, <3>10 DEF SeriesContinues
  <2>12. ASSUME NEW n \in Node, NEW m \in Message, SaveFailed(n, m) PROVE SeriesContinues'
    <3>1. UNCHANGED <<successors, severed>>
      BY <2>12 DEF SaveFailed, history
    <3>2. Elsewhere(n, m) /\ call[n][m].at \in {"failed", "lost"}
      BY <2>12, DispatchesElsewhere DEF SaveFailed
    <3>3. \A k \in Message : SentOpen(row'[k]) => row'[k] = row[k]
      BY <2>12, DispatchMoves DEF SentOpen
    <3> QED
      BY <3>1, <3>2, <3>3, <2>e, <2>k DEF Kept
  <2>13. ASSUME NEW n \in Node, NEW m \in Message, QueryFails(n, m) PROVE SeriesContinues'
    <3>1. UNCHANGED <<row, successors>>
      BY <2>13 DEF QueryFails
    <3>2. Elsewhere(n, m)
      BY <2>13, <2>s, DispatchesElsewhere DEF QueryFails
    <3>3. \/ call[n][m].at # "recur" /\ UNCHANGED severed
          \/ severed' = severed \cup {m}
      BY <2>13 DEF QueryFails
    <3>4. \A k \in Node, j \in Message : Continuing(k, j) => Continuing(k, j)' \/ j \in severed'
      BY <3>2, <3>3, <2>e DEF Elsewhere, Continuing
    <3> QED
      BY <3>1, <3>3, <3>4, <2>k
  <2>14. ASSUME NEW n \in Node, NEW m \in Message, EditRead(n, m) PROVE SeriesContinues'
    BY <2>14, <2>c, <2>u DEF EditRead, history
  <2>15. ASSUME NEW n \in Node, NEW m \in Message, EditSave(n, m) PROVE SeriesContinues'
    <3>1. UNCHANGED <<call, successors>> /\ severed \subseteq severed'
      BY <2>15 DEF EditSave
    <3>2. \A k \in Message : k # m => row'[k] = row[k]
      BY <2>15 DEF EditSave, Save, TypeOK
    <3>3. SentOpen(row'[m]) => SentOpen(row[m]) \/ m \in severed'
      BY <2>15 DEF EditSave, Save, TypeOK
    <3> QED
      BY <3>1, <3>2, <3>3 DEF SeriesContinues, Continuing
  <2>16. ASSUME NEW n \in Node, Connect(n) PROVE SeriesContinues'
    BY <2>16, <2>c, <2>u DEF Connect
  <2>17. CASE Disconnect
    <3>1. UNCHANGED <<row, successors, severed>>
      BY <2>17 DEF Disconnect, history
    <3>2. \A n \in Node, m \in Message :
            call'[n][m] = call[n][m] \/ call[n][m].at = "send"
      <4> DEFINE cut == [m \in Message |-> IF call[owner][m].at = "send"
                          THEN [call[owner][m] EXCEPT !.at = "cut"] ELSE call[owner][m]]
      <4>1. \A m \in Message : cut[m] = call[owner][m] \/ call[owner][m].at = "send"
        OBVIOUS
      <4>2. call' = call \/ call' = [call EXCEPT ![owner] = cut]
        BY <2>17 DEF Disconnect
      <4> HIDE DEF cut
      <4> QED
        BY <4>1, <4>2 DEF TypeOK
    <3>3. Kept
      BY <3>2 DEF Kept, Continuing
    <3> QED
      BY <3>1, <3>3, <2>c
  <2>18. CASE LoseLease
    BY <2>18, <2>c, <2>u DEF LoseLease
  <2>19. ASSUME NEW n \in Node, Crash(n) PROVE SeriesContinues'
    <3>1. UNCHANGED <<row, successors>>
      BY <2>19 DEF Crash
    <3>2. \A k \in Node, m \in Message : k # n => call'[k][m] = call[k][m]
      BY <2>19 DEF Crash, TypeOK
    <3>3. severed' = severed \cup {m \in Message : Continuing(n, m)}
      BY <2>19 DEF Crash
    <3>4. \A k \in Node, m \in Message : Continuing(k, m) => Continuing(k, m)' \/ m \in severed'
      BY <3>2, <3>3 DEF Continuing
    <3> QED
      BY <3>1, <3>3, <3>4, <2>k
  <2>20. CASE UNCHANGED vars
    BY <2>20, <2>c, <2>u DEF vars, history
  <2> QED
    BY <2>1, <2>2, <2>3, <2>4, <2>5, <2>6, <2>7, <2>8, <2>9, <2>10, <2>11, <2>12, <2>13, <2>14,
       <2>15, <2>16, <2>17, <2>18, <2>19, <2>20
    DEF Next, Dispatch, Poll
<1> QED
  BY <1>i, <1>n

-----------------------------------------------------------------------------
(* Without edits and faults.                                               *)

SentStaysNow ==
  \A m \in Message : row[m].status = "SENT" /\ edits = 0 /\ faults = 0 => row'[m].status = "SENT"

LEMMA CalmInductive ==
  /\ Init => CalmInv
  /\ TypeOK /\ CalmInv /\ [Next]_vars => CalmInv' /\ SentStaysNow
<1>i. ASSUME Init PROVE CalmInv
  <2>1. owner \in Node /\ owner # NoNode
    BY <1>i, ConstantsAssumption DEF Init
  <2>2. \A n \in Node, m \in Message : At(n, m) = "idle" /\ list[n][m] = Gone
    BY <1>i, Values DEF Init, At
  <2>3. \A m \in Message : row[m].status = "none"
    BY <1>i DEF Init, Gone
  <2> QED
    BY <1>i, <2>1, <2>2, <2>3 DEF CalmInv, Init, SessionCalm, DispatchesCalm
<1>n. ASSUME TypeOK, CalmInv, [Next]_vars PROVE CalmInv' /\ SentStaysNow
  <2> DEFINE Calm == SessionCalm /\ DispatchesCalm
             Aim == CalmInv' /\ SentStaysNow
  <2>t. /\ owner \in Node \cup {NoNode} /\ NoNode \notin Node
        /\ edits \in Nat /\ faults \in Nat
    BY <1>n, ConstantsAssumption DEF TypeOK
  <2>d. ASSUME UNCHANGED row,
               \/ edits' = edits + 1 /\ UNCHANGED faults
               \/ faults' = faults + 1 /\ UNCHANGED edits
        PROVE  Aim
    BY <2>d, <2>t DEF CalmInv, Undisturbed, SentStaysNow
  <2>u. ASSUME UNCHANGED <<edits, faults>>,
               Calm => /\ Calm'
                       /\ \A m \in Message : row[m].status = "SENT" => row'[m].status = "SENT"
        PROVE  Aim
    BY <1>n, <2>u DEF CalmInv, Undisturbed, SentStaysNow
  <2> USE DEF SessionCalm, DispatchesCalm
  <2>m. ASSUME NEW n \in Node, NEW m \in Message, NEW at \in CallStates, Moved(n, m, at),
               UNCHANGED <<edits, faults, row, list, owner, engine, edit>>,
               Calm => /\ at # "idle" => row[m].status # "none"
                       /\ at \notin {"idle", "read"} => n = owner
                       /\ at \notin {"cut", "lost"}
                       /\ at \in {"gate", "send", "sent", "failed"} => row[m].status = "PENDING"
        PROVE  Aim
    <3>1. ASSUME Calm
          PROVE  SessionCalm' /\ DispatchesCalm'
      BY <2>m, <3>1 DEF Moved
    <3> QED
      BY <2>m, <3>1, <2>u
  <2>s. CallStates = {"idle", "read", "gate", "send", "cut", "sent", "recur", "failed", "lost"}
    BY DEF CallStates
  <2>1. ASSUME NEW m \in Message, Create(m) PROVE Aim
    <3>1. UNCHANGED <<edits, faults, list, call, owner, engine, edit>>
      BY <2>1 DEF Create, session, history
    <3>2. /\ row[m].status = "none" /\ row'[m].status = "PENDING"
          /\ \A k \in Message : k # m => row'[k] = row[k]
          /\ \A n \in Node : At(n, m) = "idle"
      BY <1>n, <2>1, Values DEF Create, Unused, Save, TypeOK, Gone, At
    <3> QED
      BY <3>1, <3>2, <2>u DEF At
  <2>2. ASSUME Tick PROVE Aim
    BY <2>2, <2>u DEF Tick, session, history, At
  <2>3. ASSUME NEW n \in Node, PollRead(n) PROVE Aim
    <3>1. UNCHANGED <<edits, faults, row, call, owner, engine, edit>>
      BY <2>3 DEF PollRead, session, history
    <3>2. \A k \in Node, m \in Message : list'[k][m] # Gone =>
            list[k][m] # Gone \/ row[m].status = "PENDING"
      BY <1>n, <2>3 DEF PollRead, Due, TypeOK
    <3> QED
      BY <3>1, <3>2, <2>u DEF At
  <2>4. ASSUME NEW n \in Node, NEW m \in Message, PollVisit(n, m) PROVE Aim
    <3>1. /\ UNCHANGED <<edits, faults, row, owner, edit>>
          /\ engine = "ready" => engine' = "ready"
      BY <2>4 DEF PollVisit, history
    <3>2. UNCHANGED call \/ (At(n, m) = "idle" /\ Moved(n, m, "read"))
      BY <1>n, <2>4, OtherMoves
    <3>3. /\ list[n][m] # Gone
          /\ \A k \in Node, j \in Message : list'[k][j] # Gone => list[k][j] # Gone
      BY <1>n, <2>4 DEF PollVisit, TypeOK
    <3> QED
      BY <3>1, <3>2, <3>3, <2>u DEF At, Moved
  <2>5. ASSUME NEW n \in Node, NEW m \in Message, SendNow(n, m) PROVE Aim
    <3>1. UNCHANGED <<edits, faults, row, list, owner, engine, edit>>
      BY <2>5 DEF SendNow, session, history
    <3>2. At(n, m) = "idle" /\ Moved(n, m, "read") /\ row[m].status # "none"
      BY <1>n, <2>5, OtherMoves DEF SendNow
    <3> QED
      BY <3>1, <3>2, <2>m, <2>s
  <2>6. ASSUME NEW n \in Node, NEW m \in Message, Reread(n, m) PROVE Aim
    <3>1. UNCHANGED <<edits, faults, row, list, owner, engine, edit>>
      BY <2>6 DEF Reread, session, history
    <3>2. /\ At(n, m) = "read"
          /\ \/ row[m].status = "none"
             \/ row[m].status = "PENDING" /\ owner = n /\ Moved(n, m, "gate")
             \/ Moved(n, m, "idle")
      BY <1>n, <2>6, DispatchMoves DEF Ready
    <3> QED
      BY <3>1, <3>2, <2>u DEF At, Moved
  <2>7. ASSUME NEW n \in Node, NEW m \in Message, Gate(n, m) PROVE Aim
    <3>1. UNCHANGED <<edits, faults, row, list, owner, engine, edit>>
      BY <2>7 DEF Gate, session, history
    <3>2. At(n, m) = "gate" /\ (Moved(n, m, "failed") \/ Moved(n, m, "send"))
      BY <1>n, <2>7, DispatchMoves
    <3> QED
      BY <3>1, <3>2, <2>m, <2>s
  <2>8. ASSUME NEW n \in Node, NEW m \in Message, Accept(n, m) PROVE Aim
    <3>1. UNCHANGED <<edits, faults, row, list, owner, engine, edit>>
      BY <2>8 DEF Accept, session
    <3>2. At(n, m) = "send" /\ Moved(n, m, "sent")
      BY <1>n, <2>8, DispatchMoves
    <3> QED
      BY <3>1, <3>2, <2>u DEF At, Moved
  <2>9. ASSUME NEW n \in Node, NEW m \in Message, Refuse(n, m) PROVE Aim
    <3>1. UNCHANGED <<edits, faults, row, list, owner, engine, edit>>
      BY <2>9 DEF Refuse, session, history
    <3>2. At(n, m) \in {"send", "cut"} /\ (Moved(n, m, "failed") \/ Moved(n, m, "idle"))
      BY <1>n, <2>9, DispatchMoves
    <3> QED
      BY <3>1, <3>2, <2>m, <2>s
  <2>10. ASSUME NEW n \in Node, NEW m \in Message, SaveSent(n, m) PROVE Aim
    <3>1. UNCHANGED <<edits, faults, list, owner, engine, edit>>
      BY <2>10 DEF SaveSent, session, history
    <3>2. /\ At(n, m) = "sent"
          /\ \A k \in Message : k # m => row'[k] = row[k]
          /\ row'[m].status = "SENT"
          /\ Moved(n, m, "recur")
      BY <1>n, <2>10, DispatchMoves
    <3>3. ASSUME Calm
          PROVE  /\ SessionCalm'
                 /\ \A k \in Message : row[k].status = "SENT" => row'[k].status = "SENT"
      BY <3>1, <3>2, <3>3
    <3>4. ASSUME Calm PROVE DispatchesCalm'
      <4>1. n = owner
        BY <3>2, <3>4
      <4>2. \A k \in Node, j \in Message : At(k, j)' # "idle" => At(k, j) # "idle"
        BY <3>2 DEF Moved
      <4>3. \A k \in Node, j \in Message :
              At(k, j)' \in {"gate", "send", "sent", "failed"} => k = n /\ j # m
        BY <3>1, <3>2, <3>4, <4>1 DEF Moved
      <4> QED
        BY SMTT(30), <3>1, <3>2, <3>4, <4>1, <4>2, <4>3 DEF Moved
    <3> QED
      BY <3>1, <3>3, <3>4, <2>u
  <2>11. ASSUME NEW n \in Node, NEW m \in Message, Recur(n, m) PROVE Aim
    <3>1. UNCHANGED <<edits, faults, list, owner, engine, edit>>
      BY <2>11 DEF Recur, session
    <3>2. /\ At(n, m) = "recur" /\ Moved(n, m, "idle")
          /\ \A k \in Message : row'[k] # row[k] => Unused(k) /\ row'[k].status = "PENDING"
      BY <1>n, <2>11, DispatchMoves
    <3>3. \A k \in Message : row'[k] # row[k] => row[k].status = "none" /\ row'[k].status = "PENDING"
      BY <3>2 DEF Unused, Gone
    <3>4. ASSUME Calm
          PROVE  /\ SessionCalm' /\ DispatchesCalm'
                 /\ \A k \in Message : row[k].status = "SENT" => row'[k].status = "SENT"
      BY SMTT(30), <3>1, <3>2, <3>3, <3>4 DEF At, Moved
    <3> QED
      BY <3>1, <3>4, <2>u
  <2>12. ASSUME NEW n \in Node, NEW m \in Message, SaveFailed(n, m) PROVE Aim
    <3>1. UNCHANGED <<edits, faults, list, owner, engine, edit>>
      BY <2>12 DEF SaveFailed, session, history
    <3>2. /\ At(n, m) \in {"failed", "lost"}
          /\ \A k \in Message : k # m => row'[k] = row[k]
          /\ row'[m].status = "FAILED"
          /\ Moved(n, m, "idle")
      BY <1>n, <2>12, DispatchMoves
    <3>3. ASSUME Calm
          PROVE  /\ SessionCalm' /\ DispatchesCalm'
                 /\ \A k \in Message : row[k].status = "SENT" => row'[k].status = "SENT"
      BY <3>1, <3>2, <3>3 DEF Moved
    <3> QED
      BY <3>1, <3>3, <2>u
  <2>13. ASSUME NEW n \in Node, NEW m \in Message, QueryFails(n, m) PROVE Aim
    BY <2>13, <2>d DEF QueryFails
  <2>14. ASSUME NEW n \in Node, NEW m \in Message, EditRead(n, m) PROVE Aim
    BY <2>14, <2>d DEF EditRead
  <2>15. ASSUME NEW n \in Node, NEW m \in Message, EditSave(n, m) PROVE Aim
    <3>1. UNCHANGED <<edits, faults>> /\ edit[m] # NoEdit
      BY <2>15, <2>t DEF EditSave, NoEdit
    <3> QED
      BY <3>1, <2>u
  <2>16. ASSUME NEW n \in Node, Connect(n) PROVE Aim
    <3>1. UNCHANGED <<edits, faults>> /\ (owner = NoNode \/ engine # "ready")
      BY <2>16 DEF Connect
    <3> QED
      BY <3>1, <2>u
  <2>17. ASSUME Disconnect PROVE Aim
    BY <2>17, <2>d DEF Disconnect
  <2>18. ASSUME LoseLease PROVE Aim
    <3>1. UNCHANGED <<edits, faults>> /\ engine = "gone"
      BY <2>18 DEF LoseLease
    <3> QED
      BY <3>1, <2>u
  <2>19. ASSUME NEW n \in Node, Crash(n) PROVE Aim
    BY <2>19, <2>d DEF Crash
  <2>20. ASSUME UNCHANGED vars PROVE Aim
    <3>1. UNCHANGED <<edits, faults, row, list, call, owner, engine, edit>>
      BY <2>20 DEF vars, session, history
    <3> QED
      BY <3>1, <2>u DEF At
  <2> HIDE DEF Aim, SessionCalm, DispatchesCalm
  <2>21. Aim
    BY <1>n, <2>1, <2>2, <2>3, <2>4, <2>5, <2>6, <2>7, <2>8, <2>9, <2>10, <2>11, <2>12, <2>13, <2>14,
       <2>15, <2>16, <2>17, <2>18, <2>19, <2>20
    DEF Next, Dispatch, Poll
  <2> QED
    BY <2>21 DEF Aim
<1> QED
  BY <1>i, <1>n

-----------------------------------------------------------------------------
(* The theorems.                                                           *)

LEMMA IInvariant == Spec => []IInv /\ []CalmInv
<1>1. Init => IInv /\ CalmInv
  BY TypeInductive, ResendInductive, SuccessorsInductive, SeriesInductive, CalmInductive DEF IInv
<1>2. IInv /\ CalmInv /\ [Next]_vars => IInv' /\ CalmInv'
  BY TypeInductive, ResendInductive, SuccessorsInductive, SeriesInductive, CalmInductive DEF IInv
<1> QED
  BY <1>1, <1>2, PTL DEF Spec

(* The rows, the copies polls, dispatches and edits carry, and the counts  *)
(* have their types: nothing saves a row the code has no name for.         *)
THEOREM TypeCorrect == Spec => []TypeOK
<1>1. IInv => TypeOK
  BY DEF IInv
<1> QED
  BY <1>1, IInvariant, PTL

(* However polls, sendNow() on any node, edits, takeovers, crashes and     *)
(* failing queries interleave, a message is accepted once and once more    *)
(* for each reason the code had to send it again.                          *)
THEOREM ResendIsExcusedAlways == Spec => []ResendIsExcused
<1>1. IInv => ResendIsExcused
  BY DEF IInv
<1> QED
  BY <1>1, IInvariant, PTL

(* A series does not split because two dispatches of a row met: it leaves  *)
(* no more successors than the engine accepted messages.                   *)
THEOREM SeriesDoesNotForkAlways == Spec => []SeriesDoesNotFork
<1>1. IInv => SeriesDoesNotFork
  <2>1. ASSUME IInv, NEW m \in Message PROVE successors[m] <= 1 + excuse[m]
    <3>1. /\ Cardinality(Reporting(m)) \in Nat
          /\ successors[m] \in Nat /\ accepted[m] \in Nat /\ excuse[m] \in Nat
      BY <2>1, ReportingIsFinite DEF IInv, TypeOK
    <3>2. /\ successors[m] + Cardinality(Reporting(m)) <= accepted[m]
          /\ accepted[m] <= 1 + excuse[m]
      BY <2>1 DEF IInv, SuccessorsAreAccepted, ResendIsExcused
    <3> QED
      BY <3>1, <3>2
  <2> QED
    BY <2>1 DEF SeriesDoesNotFork
<1> QED
  BY <1>1, IInvariant, PTL

(* Whoever sent it, and whatever crashes, fails or is edited, a message    *)
(* that was sent and has a next occurrence has its successor, or a         *)
(* dispatch is about to leave one, or its series was cut short in one of   *)
(* the three ways the history records.                                     *)
THEOREM SeriesContinuesAlways == Spec => []SeriesContinues
<1>1. IInv => SeriesContinues
  BY DEF IInv
<1> QED
  BY <1>1, IInvariant, PTL

(* As long as there is no edit and no fault no step takes a row out of     *)
(* SENT: a dispatch that still holds an older copy ends before it saves.   *)
THEOREM SentStaysAlways == Spec => SentStays
<1>1. IInv /\ CalmInv /\ [Next]_vars => SentStaysNow
  BY CalmInductive DEF IInv
<1>2. SentStaysNow =>
        \A m \in Message : row[m].status = "SENT" /\ edits = 0 /\ faults = 0 => row'[m].status = "SENT"
  BY DEF SentStaysNow
<1> QED
  BY <1>1, <1>2, IInvariant, PTL DEF Spec, SentStays

===============================================================================
