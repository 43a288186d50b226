---------------------------- MODULE ScheduledMessages ----------------------------
(***************************************************************************)
(* Scheduled messages: the rows, the poll of each node that dispatches the *)
(* due ones, requests that send, edit, cancel or delete a row on any node, *)
(* and the successor a recurring message leaves behind.                    *)
(*                                                                         *)
(* The rows are those of one session.  Everything works on a copy of the   *)
(* row it read and saves the copy whole: a TypeORM save() writes every     *)
(* column that differs from the row and inserts the row if it is gone.     *)
(***************************************************************************)
EXTENDS Integers, FiniteSets

CONSTANTS
  Node,       \* processes that share the database
  NoNode,     \* no process
  Message,    \* row ids; a bound on the rows ever created
  Created,    \* those create() may use, the rest is for successors
  Take,       \* rows a poll looks at (25 in the code)
  MaxRequests, \* bound on the sendNow() calls at work at once
  MaxTroubles \* bound on edits, crashes, lost engines and failing queries together

ASSUME ConstantsAssumption ==
  /\ NoNode \notin Node
  /\ IsFiniteSet(Node) /\ Node # {}
  /\ IsFiniteSet(Message)
  /\ Created \subseteq Message
  /\ Take \in Nat \ {0}
  /\ MaxRequests \in Nat
  /\ MaxTroubles \in Nat

VARIABLES
  row,      \* the table
  now,      \* 0, and 1 when the later of the two dates has come
  list,     \* the rows the poll of each process has read and not yet visited
  call,     \* dispatchMessage() of each process
  edit,     \* the edit in flight for each row, with the copy it will save
  owner,    \* the process that holds the session's lease
  engine,   \* the engine the owner has for the session
  edits,    \* how many edits there were
  faults,   \* how much has gone wrong
  accepted, \* how often the engine accepted the message
  successors, \* how often a message left a successor
  excuse,   \* how often something gave a message a reason to be sent again
  severed   \* messages whose series something else than its rule cut short

session == <<owner, engine>>
history == <<accepted, successors, excuse, severed>>
vars == <<row, now, list, call, edit, session, edits, faults, history>>

Statuses == {"none", "PENDING", "SENT", "FAILED", "CANCELLED"}

(* What the recurrence makes of the date of the row: "none", there is no   *)
(* rule or its frequency is none; "last", the next occurrence lies beyond  *)
(* its endDate; "open", there is a next occurrence.                        *)
Rules == {"none", "last", "open"}

Row == [status: Statuses, at: {0, 1}, rule: Rules]
Gone == [status |-> "none", at |-> 0, rule |-> "none"]

(* "lost": the engine has the message, and the row could not become SENT;  *)
(* "cut": the engine that was to take it is no more.                       *)
CallStates == {"idle", "read", "gate", "send", "cut", "sent", "recur", "failed", "lost"}
Call == [at: CallStates, polled: BOOLEAN, copy: Row]
Idle == [at |-> "idle", polled |-> FALSE, copy |-> Gone]

NoEdit == [by |-> NoNode, copy |-> Gone]

TypeOK ==
  /\ row \in [Message -> Row]
  /\ now \in {0, 1}
  /\ list \in [Node -> [Message -> Row]]
  /\ call \in [Node -> [Message -> Call]]
  /\ edit \in [Message -> [by: Node \cup {NoNode}, copy: Row]]
  /\ owner \in Node \cup {NoNode}
  /\ engine \in {"ready", "connecting", "gone"}
  /\ edits \in Nat
  /\ faults \in Nat
  /\ accepted \in [Message -> Nat]
  /\ successors \in [Message -> Nat]
  /\ excuse \in [Message -> Nat]
  /\ severed \subseteq Message

Init ==
  /\ row = [m \in Message |-> Gone]
  /\ now = 0
  /\ list = [n \in Node |-> [m \in Message |-> Gone]]
  /\ call = [n \in Node |-> [m \in Message |-> Idle]]
  /\ edit = [m \in Message |-> NoEdit]
  /\ owner = CHOOSE n \in Node : TRUE  \* any, they are alike
  /\ engine = "ready"
  /\ edits = 0
  /\ faults = 0
  /\ accepted = [m \in Message |-> 0]
  /\ successors = [m \in Message |-> 0]
  /\ excuse = [m \in Message |-> 0]
  /\ severed = {}

-----------------------------------------------------------------------------
(* What the actions are built from.                                        *)

(* An id nothing refers to, and of which nothing is remembered.            *)
Unused(m) ==
  /\ row[m] = Gone /\ accepted[m] = 0 /\ successors[m] = 0 /\ excuse[m] = 0 /\ m \notin severed
  /\ edit[m] = NoEdit /\ \A n \in Node : list[n][m] = Gone /\ call[n][m] = Idle

(* Mutant: the poll leaves out what is due this instant. *)
DueStrictly == {m \in Message : row[m].status = "PENDING" /\ row[m].at < now}

Due == {m \in Message : row[m].status = "PENDING" /\ row[m].at <= now}

(* The oldest rows first, Take of them. *)
Page(s) ==
  /\ s \subseteq Due
  /\ Cardinality(s) = IF Cardinality(Due) < Take THEN Cardinality(Due) ELSE Take
  /\ \A m \in s, k \in Due \ s : row[m].at <= row[k].at

Owns(n) == owner = n
Ready(n) == owner = n /\ engine = "ready"
Registered(n) == owner = n /\ engine # "gone"

(* Mutant: no lock in the process. *)
NeverExecuting(n, m) == FALSE

(* executing *)
Executing(n, m) == call[n][m].at # "idle"

Polling(n) == (\E m \in Message : list[n][m] # Gone) \/ (\E m \in Message : call[n][m].polled)

Step(n, m, at) == call' = [call EXCEPT ![n][m].at = at]
End(n, m) == call' = [call EXCEPT ![n][m] = Idle]

Save(m, r) == row' = [row EXCEPT ![m] = r]

-----------------------------------------------------------------------------
(* create()                                                                *)

Create(m) ==
  /\ m \in Created /\ Unused(m)
  /\ \E at \in {0, 1}, rule \in Rules :
       Save(m, [status |-> "PENDING", at |-> at, rule |-> rule])
  /\ UNCHANGED <<now, list, call, edit, session, edits, faults, history>>

(* The clock. *)
Tick ==
  /\ now = 0
  /\ now' = 1
  /\ UNCHANGED <<row, list, call, edit, session, edits, faults, history>>

-----------------------------------------------------------------------------
(* processDueMessages()                                                    *)

PollRead(n) ==
  /\ ~Polling(n)
  /\ Due # {}
  /\ \E s \in SUBSET Due :
       /\ Page(s)
       /\ list' = [list EXCEPT ![n] = [m \in Message |-> IF m \in s THEN row[m] ELSE Gone]]
  /\ UNCHANGED <<row, now, call, edit, session, edits, faults, history>>

(* The next row of the page: dispatched and awaited if the session is here *)
(* and ready, woken if it is here and not, left alone otherwise.           *)
PollVisit(n, m) ==
  /\ list[n][m] # Gone
  /\ \A k \in Message : ~call[n][k].polled
  /\ list' = [list EXCEPT ![n][m] = Gone]
  /\ call' = IF ~Executing(n, m) /\ Ready(n)
               THEN [call EXCEPT ![n][m] = [at |-> "read", polled |-> TRUE, copy |-> list[n][m]]]
               ELSE call
  /\ engine' = IF ~Executing(n, m) /\ Owns(n) /\ engine = "gone" THEN "connecting" ELSE engine
  /\ UNCHANGED <<row, now, edit, owner, edits, faults, history>>

(* sendNow(), on the node the request reaches.                             *)
Requests == {c \in Node \X Message : call[c[1]][c[2]].at # "idle" /\ ~call[c[1]][c[2]].polled}

SendNow(n, m) ==
  /\ Cardinality(Requests) < MaxRequests
  /\ row[m].status # "none"
  /\ ~Executing(n, m)
  /\ call' = [call EXCEPT ![n][m] = [at |-> "read", polled |-> FALSE, copy |-> row[m]]]
  /\ UNCHANGED <<row, now, list, edit, session, edits, faults, history>>

-----------------------------------------------------------------------------
(* dispatchMessage()                                                       *)

(* Mutant: the status is not looked at again. *)
RereadUnchecked(n, m) ==
  /\ call[n][m].at = "read"
  /\ \/ /\ row[m].status # "none" /\ Ready(n)
        /\ call' = [call EXCEPT ![n][m] = [@ EXCEPT !.at = "gate", !.copy = row[m]]]
     \/ row[m].status = "none" /\ Step(n, m, "failed")
     \/ row[m].status # "none" /\ ~Ready(n) /\ End(n, m)
  /\ UNCHANGED <<row, now, list, edit, session, edits, faults, history>>

(* Mutant: the call goes by the copy it came with. *)
RereadStale(n, m) ==
  /\ call[n][m].at = "read"
  /\ IF call[n][m].copy.status = "PENDING" /\ Ready(n) THEN Step(n, m, "gate") ELSE End(n, m)
  /\ UNCHANGED <<row, now, list, edit, session, edits, faults, history>>

(* The re-read.  A row that is gone is an error like any other: the copy   *)
(* the call came with is saved as FAILED.                                  *)
Reread(n, m) ==
  /\ call[n][m].at = "read"
  /\ \/ /\ row[m].status = "none"
        /\ Step(n, m, "failed")
     \/ /\ row[m].status = "PENDING" /\ Ready(n)
        /\ call' = [call EXCEPT ![n][m] = [@ EXCEPT !.at = "gate", !.copy = row[m]]]
     \/ /\ row[m].status # "none"
        /\ row[m].status # "PENDING" \/ ~Ready(n)
        /\ End(n, m)
  /\ UNCHANGED <<row, now, list, edit, session, edits, faults, history>>

(* Pacing and the hooks may refuse; then the engine is looked up, and none *)
(* is a BadRequestException.                                               *)
Gate(n, m) ==
  /\ call[n][m].at = "gate"
  /\ \/ Step(n, m, "failed")
     \/ Registered(n) /\ Step(n, m, "send")
  /\ UNCHANGED <<row, now, list, edit, session, edits, faults, history>>

Accept(n, m) ==
  /\ call[n][m].at = "send"
  /\ Ready(n)
  /\ accepted' = [accepted EXCEPT ![m] = @ + 1]
  /\ Step(n, m, "sent")
  /\ UNCHANGED <<row, now, list, edit, session, edits, faults, successors, excuse, severed>>

(* The engine refuses, or is not ready: EngineNotReadyError leaves the row. *)
Refuse(n, m) ==
  /\ \/ call[n][m].at = "send" /\ Ready(n) /\ Step(n, m, "failed")
     \/ call[n][m].at = "send" /\ ~Ready(n) /\ End(n, m)
     \/ call[n][m].at = "cut" /\ (Step(n, m, "failed") \/ End(n, m))
  /\ UNCHANGED <<row, now, list, edit, session, edits, faults, history>>

(* handleRecurrence() comes next, whatever the rule. *)
SaveSent(n, m) ==
  /\ call[n][m].at = "sent"
  /\ Save(m, [call[n][m].copy EXCEPT !.status = "SENT"])
  /\ Step(n, m, "recur")
  /\ UNCHANGED <<now, list, edit, session, edits, faults, history>>

(* A dispatch that has a successor to leave. *)
Continuing(n, m) == call[n][m].at = "recur" /\ call[n][m].copy.rule = "open"

(* Mutant: only the poll goes on with a series. *)
RecurPolled(n, m) ==
  /\ call[n][m].at = "recur"
  /\ End(n, m)
  /\ IF Continuing(n, m) /\ call[n][m].polled
       THEN successors' = [successors EXCEPT ![m] = @ + 1]
       ELSE UNCHANGED successors
  /\ UNCHANGED <<row, now, list, edit, session, edits, faults, accepted, excuse, severed>>

(* handleRecurrence(): no rule, or none that allows a next occurrence, and *)
(* it returns; else one new row, due later, which may be the last one.     *)
(* Rows beyond the bound are counted and not followed.                     *)
Recur(n, m) ==
  /\ call[n][m].at = "recur"
  /\ End(n, m)
  /\ \/ /\ ~Continuing(n, m)
        /\ UNCHANGED <<row, successors>>
     \/ /\ Continuing(n, m)
        /\ successors' = [successors EXCEPT ![m] = @ + 1]
        /\ IF \E k \in Message \ Created : Unused(k)
             THEN \E k \in Message \ Created, rule \in {"last", "open"} :
                    Unused(k) /\ Save(k, [status |-> "PENDING", at |-> 1, rule |-> rule])
             ELSE UNCHANGED row
  /\ UNCHANGED <<now, list, edit, session, edits, faults, accepted, excuse, severed>>

SaveFailed(n, m) ==
  /\ call[n][m].at \in {"failed", "lost"}
  /\ Save(m, [call[n][m].copy EXCEPT !.status = "FAILED"])
  /\ End(n, m)
  /\ UNCHANGED <<now, list, edit, session, edits, faults, history>>

(* A query throws.  Before the message is sent and when it was, the row is *)
(* then saved as FAILED; a successor that cannot be saved is lost; and a   *)
(* FAILED that cannot be saved ends the poll that waits for the call, with *)
(* the row as it was.                                                      *)
QueryFails(n, m) ==
  /\ edits + faults < MaxTroubles
  /\ faults' = faults + 1
  /\ \/ /\ call[n][m].at = "read"
        /\ Step(n, m, "failed")
        /\ UNCHANGED <<list, excuse, severed>>
     \/ /\ call[n][m].at = "sent"
        /\ Step(n, m, "lost")
        /\ UNCHANGED <<list, excuse, severed>>
     \/ /\ Continuing(n, m)
        /\ End(n, m)
        /\ severed' = severed \cup {m}
        /\ UNCHANGED <<list, excuse>>
     \/ /\ call[n][m].at \in {"failed", "lost"}
        /\ End(n, m)
        /\ list' = IF call[n][m].polled THEN [list EXCEPT ![n] = [k \in Message |-> Gone]] ELSE list
        /\ excuse' = [excuse EXCEPT ![m] = IF call[n][m].at = "lost" THEN @ + 1 ELSE @]
        /\ UNCHANGED severed
  /\ UNCHANGED <<row, now, edit, session, edits, accepted, successors>>

-----------------------------------------------------------------------------
(* update(), cancel() and delete(), on the node the request reaches        *)

(* Mutant: any status a request names is taken. *)
UpdatedUnvalidated(r) == {r, [r EXCEPT !.status = "DRAFT"]}

(* What update() and cancel() may make of a row: another date queues it    *)
(* again unless it was sent, a status is taken as it is, and otherwise it  *)
(* stays.  The rule is what the request says, judged by the date.          *)
Updated(r) ==
  {[r EXCEPT !.rule = rule] : rule \in Rules} \cup
  [status: {IF r.status = "SENT" THEN "SENT" ELSE "PENDING", "PENDING", "CANCELLED"},
   at: {0, 1}, rule: Rules]

EditRead(n, m) ==
  /\ edits + faults < MaxTroubles
  /\ row[m].status # "none" /\ edit[m] = NoEdit
  /\ edits' = edits + 1
  /\ \E r \in Updated(row[m]) \cup {Gone} : edit' = [edit EXCEPT ![m] = [by |-> n, copy |-> r]]
  /\ UNCHANGED <<row, now, list, call, session, faults, history>>

(* A row of which a successor is expected. *)
SentOpen(r) == r.status = "SENT" /\ r.rule = "open"

EditSave(n, m) ==
  /\ edit[m].by = n
  /\ Save(m, edit[m].copy)
  /\ edit' = [edit EXCEPT ![m] = NoEdit]
  /\ excuse' = [excuse EXCEPT ![m] =
                 IF edit[m].copy.status = "PENDING" /\ row[m].status # "PENDING" THEN @ + 1 ELSE @]
  /\ severed' = IF SentOpen(edit[m].copy) /\ ~SentOpen(row[m]) THEN severed \cup {m} ELSE severed
  /\ UNCHANGED <<now, list, call, session, edits, faults, accepted, successors>>

-----------------------------------------------------------------------------
(* The session and the processes                                           *)

(* A dispatch that awaits pacing or a hook outlives the lease; when its    *)
(* node has the session back, it goes on by the row it read before.        *)
Connect(n) ==
  /\ \/ owner = n /\ engine # "ready"
     \/ owner = NoNode
  /\ owner' = n /\ engine' = "ready"
  /\ excuse' = [m \in Message |->
       IF owner = NoNode /\ call[n][m].at = "gate" THEN excuse[m] + 1 ELSE excuse[m]]
  /\ UNCHANGED <<row, now, list, call, edit, edits, faults, accepted, successors, severed>>

(* The socket is lost, or the engine with it. *)
Disconnect ==
  /\ owner # NoNode /\ engine = "ready"
  /\ edits + faults < MaxTroubles
  /\ faults' = faults + 1
  /\ \/ engine' = "connecting" /\ UNCHANGED call
     \/ /\ engine' = "gone"
        /\ call' = [call EXCEPT ![owner] =
             [m \in Message |-> IF @[m].at = "send" THEN [@[m] EXCEPT !.at = "cut"] ELSE @[m]]]
  /\ UNCHANGED <<row, now, list, edit, owner, edits, history>>

(* Accepted and not saved as SENT: to whoever reads the row it is not sent. *)
Unsaved(n, m) == call[n][m].at \in {"sent", "lost"}

(* The lease of a session without an engine is released, or lapses. *)
LoseLease ==
  /\ owner # NoNode /\ engine = "gone"
  /\ owner' = NoNode
  /\ excuse' = [m \in Message |-> IF Unsaved(owner, m) THEN excuse[m] + 1 ELSE excuse[m]]
  /\ UNCHANGED <<row, now, list, call, edit, engine, edits, faults, accepted, successors, severed>>

Crash(n) ==
  /\ edits + faults < MaxTroubles
  /\ faults' = faults + 1
  /\ list' = [list EXCEPT ![n] = [m \in Message |-> Gone]]
  /\ call' = [call EXCEPT ![n] = [m \in Message |-> Idle]]
  /\ edit' = [m \in Message |-> IF edit[m].by = n THEN NoEdit ELSE edit[m]]
  /\ engine' = IF owner = n THEN "gone" ELSE engine
  /\ excuse' = [m \in Message |-> IF Unsaved(n, m) THEN excuse[m] + 1 ELSE excuse[m]]
  /\ severed' = severed \cup {m \in Message : Continuing(n, m)}
  /\ UNCHANGED <<row, now, owner, edits, accepted, successors>>

-----------------------------------------------------------------------------

Dispatch(n, m) ==
  \/ Reread(n, m)
  \/ Gate(n, m)
  \/ Accept(n, m)
  \/ Refuse(n, m)
  \/ SaveSent(n, m)
  \/ Recur(n, m)
  \/ SaveFailed(n, m)

Poll(n) ==
  \/ PollRead(n)
  \/ \E m \in Message : PollVisit(n, m)

Next ==
  \/ \E m \in Message : Create(m)
  \/ Tick
  \/ \E n \in Node, m \in Message :
       \/ SendNow(n, m)
       \/ Dispatch(n, m)
       \/ QueryFails(n, m)
       \/ EditRead(n, m)
       \/ EditSave(n, m)
  \/ \E n \in Node :
       \/ Poll(n)
       \/ Connect(n)
       \/ Crash(n)
  \/ Disconnect
  \/ LoseLease

(* Timers fire, queries and sends return, and a session that lost its      *)
(* engine gets one again, on its node or on another.                       *)
Fairness ==
  /\ WF_vars(\E n \in Node : Connect(n))
  /\ \A n \in Node :
       /\ WF_vars(Poll(n))
       /\ \A m \in Message : WF_vars(Dispatch(n, m))

Spec == Init /\ [][Next]_vars /\ Fairness

-----------------------------------------------------------------------------

(* A message reaches the engine once, and again only where the code cannot *)
(* know better: its node crashed, or lost the session, or both the save as *)
(* SENT and the save as FAILED threw, between the engine taking it and the *)
(* row saying so; its node lost the session and had it back while the      *)
(* dispatch waited; or a request queued a row that was not pending.  Polls, *)
(* sendNow() on both nodes and takeovers in between give no other way.     *)
ResendIsExcused == \A m \in Message : accepted[m] <= 1 + excuse[m]

(* A recurring message leaves one successor, and another one only when it  *)
(* had a reason to be sent again: a series never splits in two because two *)
(* dispatches of the row met.                                              *)
SeriesDoesNotFork == \A m \in Message : successors[m] <= 1 + excuse[m]

(* A sent message whose rule has a next occurrence leaves its successor,   *)
(* whether the poll or sendNow() sent it and whatever an edit did to the   *)
(* rule while it was sent.  The code loses a successor in three ways only: *)
(* its save throws, its node crashes before it, or the rule is given to a  *)
(* row that was sent already.                                              *)
SeriesContinues ==
  \A m \in Message :
    SentOpen(row[m]) =>
      successors[m] > 0 \/ m \in severed \/ \E n \in Node : Continuing(n, m)

(* Without edits and faults SENT is final: no poll that read the row while *)
(* it was pending, and no request that did, writes an older copy over it.  *)
SentStays ==
  [][\A m \in Message :
       row[m].status = "SENT" /\ edits = 0 /\ faults = 0 => row'[m].status = "SENT"]_vars

(* A due message does not stay due: it is sent, fails, is cancelled or is  *)
(* given another date, through crashes, lost engines and lost leases.      *)
DueSettles ==
  \A m \in Message :
    (row[m].status = "PENDING" /\ row[m].at <= now) ~> (row[m].status # "PENDING" \/ row[m].at > now)
===============================================================================
