--------------------------- MODULE SessionOwnership ---------------------------
(***************************************************************************)
(* Lease-based ownership of WhatsApp sessions by gateway processes.        *)
(*                                                                         *)
(* A session row names the node that may run its engine and until when.    *)
(* Every query of SessionOwnershipService is awaited, so each call is two  *)
(* or three steps here: what the process does before it issues the query,  *)
(* what the query does when the database executes it, and what the process *)
(* does when the answer comes back.  Any other handler of the same process *)
(* may run in between.                                                     *)
(*                                                                         *)
(* A node reads its own clock, so timestamps written by two nodes may      *)
(* disagree by up to Skew.                                                 *)
(***************************************************************************)
EXTENDS Integers, FiniteSets

CONSTANTS
  Node,        \* processes, by their stable nodeId
  Session,     \* session ids
  NoNode,      \* the NULL nodeId
  Offset,      \* how far each node's clock is ahead of real time
  Skew,        \* bound on the difference of two nodes' clocks
  TTL,         \* leaseTtlMs
  GraceCap,    \* the 20_000 of acknowledgeLease
  Teardown,    \* longest awaited teardown: the 10_000 of teardownEngineSafely, once or twice
  Latency,     \* longest time from taking a timestamp to its UPDATE executing
  Serial,      \* TRUE: a node never overlaps a start with a hand-back of one session
  Prompt,      \* TRUE: timers fire before the clock moves on
  MaxTime,     \* bound on the clock
  MaxCalls     \* bound on the calls that wait for a query, over all nodes

Grace == IF 3 * GraceCap <= TTL THEN GraceCap ELSE TTL \div 3

ASSUME ConstantsAssumption ==
  /\ NoNode \notin Node
  /\ Offset \in [Node -> Nat]
  /\ {Skew, TTL, GraceCap, Teardown, Latency, MaxTime, MaxCalls} \subseteq Nat
  /\ TTL > 0
  /\ Serial \in BOOLEAN
  /\ Prompt \in BOOLEAN

(* NTP keeps the clocks together. *)
ASSUME SkewAssumption == \A m, n \in Node : Offset[m] <= Offset[n] + Skew

VARIABLES
  now,        \* real time
  rowNode,    \* sessions.nodeId
  rowLease,   \* sessions.leaseExpiresAt, 0 for NULL
  mode,       \* life of the process
  owned,      \* SessionOwnershipService.owned
  deadline,   \* SessionOwnershipService.deadlines, 0 for no entry
  claims,     \* claim() calls in flight
  clears,     \* UPDATEs of release() and releaseAll() in flight
  renewals,   \* renew() ticks in flight
  handBack,   \* calls that are about to run releaseUnlessEngineActive()
  engine,     \* what the process runs for the session
  closeBy     \* when a running teardown gives up

rowVars  == <<rowNode, rowLease>>
leaseVars == <<owned, deadline>>
callVars == <<claims, clears, renewals>>
engineVars == <<engine, closeBy>>
vars == <<now, rowVars, mode, leaseVars, callVars, handBack, engineVars>>

Modes == {"up", "draining"}

(* "live" is a registered engine or a pending reconnect, "closing" one     *)
(* whose teardown is awaited and which is still registered.                *)
EngineStates == {"none", "starting", "live", "closing"}

ClaimCall == [node: Node, session: Session, at: Nat, phase: {"sent", "granted"}]
ClearCall == [node: Node, session: Session, at: Nat, lapsedToo: BOOLEAN]
RenewCall == [node: Node, held: SUBSET Session, live: SUBSET Session, until: {t \in Nat : t >= TTL},
              phase: {"update", "find", "answer"}, kept: SUBSET Session]

TypeOK ==
  /\ now \in Nat
  /\ rowNode \in [Session -> Node \cup {NoNode}]
  /\ rowLease \in [Session -> Nat]
  /\ mode \in [Node -> Modes]
  /\ owned \in [Node -> SUBSET Session]
  /\ deadline \in [Node -> [Session -> Nat]]
  /\ claims \subseteq ClaimCall
  /\ clears \subseteq ClearCall
  /\ renewals \subseteq RenewCall
  /\ handBack \in [Node -> SUBSET Session]
  /\ engine \in [Node -> [Session -> EngineStates]]
  /\ closeBy \in [Node -> [Session -> Nat]]

Init ==
  /\ now = 0
  /\ rowNode = [s \in Session |-> NoNode]
  /\ rowLease = [s \in Session |-> 0]
  /\ mode = [n \in Node |-> "up"]
  /\ owned = [n \in Node |-> {}]
  /\ deadline = [n \in Node |-> [s \in Session |-> 0]]
  /\ claims = {}
  /\ clears = {}
  /\ renewals = {}
  /\ handBack = [n \in Node |-> {}]
  /\ engine = [n \in Node |-> [s \in Session |-> "none"]]
  /\ closeBy = [n \in Node |-> [s \in Session |-> 0]]

-----------------------------------------------------------------------------
(* What the actions are built from.                                        *)

(* Date.now() on node n. *)
Clock(n) == now + Offset[n]

(* owns(): in memory, no query. *)
Owns(n, s) == s \in owned[n] /\ deadline[n][s] > Clock(n)

(* claim() decides on an earlier read and updates unconditionally. *)
TakeableUnchecked(n, s, t) == TRUE

(* The predicate of claim(): free, mine, or lapsed at the time t. *)
Takeable(n, s, t) ==
  \/ rowNode[s] = NoNode
  \/ rowNode[s] = n
  \/ rowLease[s] < t

(* isHeldByOtherNode() *)
HeldByOther(n, s) ==
  /\ rowNode[s] \notin {NoNode, n}
  /\ rowLease[s] > Clock(n)

(* A start in flight counts, a registered engine does not. *)
EngineStarting(n, s) == engine[n][s] = "starting"

(* isEngineActive() *)
EngineActive(n, s) == engine[n][s] # "none"

(* Sessions whose local deadline has passed: what expireLocalLeases() sees. *)
Expired(n) == {s \in owned[n] : deadline[n][s] <= Clock(n)}

(* No time for the teardown. *)
LocalDeadlineUngraced(databaseDeadline) == databaseDeadline

(* A cap that short leases do not scale down. *)
LocalDeadlineUnscaled(databaseDeadline) == databaseDeadline - GraceCap

(* acknowledgeLease(): the local deadline for a database deadline. *)
LocalDeadline(databaseDeadline) == databaseDeadline - Grace

(* The bound on calls in flight. *)
CanCall == Cardinality(claims) + Cardinality(clears) + Cardinality(renewals) < MaxCalls

ClaimsOf(n, s) == {c \in claims : c.node = n /\ c.session = s}
ClearsOf(n, s) == {c \in clears : c.node = n /\ c.session = s}

(* The bookkeeping without the teardown. *)
LoseSessionsOnly(n, S) ==
  /\ owned' = [owned EXCEPT ![n] = @ \ S]
  /\ deadline' = [deadline EXCEPT ![n] = [s \in Session |-> IF s \in S THEN 0 ELSE @[s]]]
  /\ UNCHANGED engineVars

(* The sessions of S leave owned, deadlines and expiryTimers, and          *)
(* stopOrphanEngines() starts the teardown of their engines.  A start that *)
(* has no engine yet is only marked; start() clears that mark again.       *)
LoseSessions(n, S) ==
  /\ owned' = [owned EXCEPT ![n] = @ \ S]
  /\ deadline' = [deadline EXCEPT ![n] = [s \in Session |-> IF s \in S THEN 0 ELSE @[s]]]
  /\ engine' = [engine EXCEPT ![n] =
       [s \in Session |-> IF s \in S /\ @[s] = "live" THEN "closing" ELSE @[s]]]
  /\ closeBy' = [closeBy EXCEPT ![n] =
       [s \in Session |-> IF s \in S /\ engine[n][s] = "live"
                            THEN Clock(n) + Teardown ELSE @[s]]]

(* While calls are serial, only a process that is up takes on new work.    *)
(* Nest runs onModuleDestroy before it closes the HTTP listener, so a real *)
(* process still serves requests while it drains.                          *)
Admits(n) ==
  \/ mode[n] = "up"
  \/ ~Serial

-----------------------------------------------------------------------------
(* Claiming.  SessionService.start() claims before it launches; a start()  *)
(* of a session that already runs claims too, and only then is refused.    *)

(* start() up to the await of claim(): the timestamp is taken here. *)
SendClaim(n, s) ==
  /\ Admits(n)
  /\ Serial => ClearsOf(n, s) = {}
  /\ CanCall
  /\ claims' = claims \cup {[node |-> n, session |-> s, at |-> Clock(n), phase |-> "sent"]}
  /\ UNCHANGED <<now, rowVars, mode, leaseVars, clears, renewals, handBack, engineVars>>

(* The conditional UPDATE matches the row. *)
GrantClaim(c) ==
  /\ c.phase = "sent"
  /\ Takeable(c.node, c.session, c.at)
  /\ rowNode' = [rowNode EXCEPT ![c.session] = c.node]
  /\ rowLease' = [rowLease EXCEPT ![c.session] = c.at + TTL]
  /\ claims' = (claims \ {c}) \cup {[c EXCEPT !.phase = "granted"]}
  /\ UNCHANGED <<now, mode, leaseVars, clears, renewals, handBack, engineVars>>

(* It matches no row, and start() answers 409; or a granted call's answer  *)
(* is lost and start() rejects before its try block, so nothing is         *)
(* released.                                                               *)
DropClaim(c) ==
  /\ c.phase = "granted" \/ ~Takeable(c.node, c.session, c.at)
  /\ claims' = claims \ {c}
  /\ UNCHANGED <<now, rowVars, mode, leaseVars, clears, renewals, handBack, engineVars>>

(* The rest of claim() and the synchronous entry of the engine start.  A   *)
(* start of a session that is already active is refused and its claim kept.*)
AcceptClaim(c) ==
  LET n == c.node
      s == c.session
  IN  /\ c.phase = "granted"
      /\ claims' = claims \ {c}
      /\ owned' = [owned EXCEPT ![n] = @ \cup {s}]
      /\ deadline' = [deadline EXCEPT ![n][s] = LocalDeadline(c.at + TTL)]
      /\ engine' = [engine EXCEPT ![n][s] = IF @ = "none" THEN "starting" ELSE @]
      /\ UNCHANGED <<now, rowVars, mode, clears, renewals, handBack, closeBy>>

-----------------------------------------------------------------------------
(* The engine of a session, as far as ownership can see it.                *)

(* The claim is not checked again after the awaited launch. *)
LaunchUnfenced(n, s) ==
  /\ Admits(n)
  /\ engine[n][s] = "starting"
  /\ engine' = [engine EXCEPT ![n][s] = "live"]
  /\ UNCHANGED <<now, rowVars, mode, leaseVars, callVars, handBack, closeBy>>

(* initializeEngine() registers an engine only under a live claim. *)
Launch(n, s) ==
  /\ Admits(n)
  /\ engine[n][s] = "starting"
  /\ Owns(n, s)
  /\ engine' = [engine EXCEPT ![n][s] = "live"]
  /\ UNCHANGED <<now, rowVars, mode, leaseVars, callVars, handBack, closeBy>>

(* start() fails: its catch tears down what was registered and hands the   *)
(* claim back; a start retired by a stop mark returns and hands back       *)
(* nothing.                                                                *)
StartFails(n, s) ==
  /\ engine[n][s] \in {"starting", "live"}
  /\ engine' = [engine EXCEPT ![n][s] = IF @ = "live" THEN "closing" ELSE "none"]
  /\ closeBy' = [closeBy EXCEPT ![n][s] =
       IF engine[n][s] = "live" THEN Clock(n) + Teardown ELSE 0]
  /\ \E failed \in BOOLEAN :
       handBack' = IF failed THEN [handBack EXCEPT ![n] = @ \cup {s}] ELSE handBack
  /\ UNCHANGED <<now, rowVars, mode, leaseVars, callVars>>

(* Reconnects are exhausted or the engine fails terminally: it is evicted  *)
(* and killed, and nothing hands the claim back.                           *)
EngineDies(n, s) ==
  /\ engine[n][s] = "live"
  /\ engine' = [engine EXCEPT ![n][s] = "none"]
  /\ UNCHANGED <<now, rowVars, mode, leaseVars, callVars, handBack, closeBy>>

(* An awaited teardown settles, or its deadline does.  A stop() whose      *)
(* teardown did not complete answers 502 and keeps the claim.              *)
EngineClosed(n, s) ==
  /\ engine[n][s] = "closing"
  /\ engine' = [engine EXCEPT ![n][s] = "none"]
  /\ closeBy' = [closeBy EXCEPT ![n][s] = 0]
  /\ \E torndown \in BOOLEAN :
       handBack' = IF torndown THEN handBack ELSE [handBack EXCEPT ![n] = @ \ {s}]
  /\ UNCHANGED <<now, rowVars, mode, leaseVars, callVars>>

-----------------------------------------------------------------------------
(* Handing a claim back.                                                   *)

(* stop(), and logout() and forceKill() on a registered engine: the fence  *)
(* reads the row, then the engine, if any, is torn down.                   *)
Stop(n, s) ==
  /\ Admits(n)
  /\ ~HeldByOther(n, s)
  /\ handBack' = [handBack EXCEPT ![n] = @ \cup {s}]
  /\ engine' = [engine EXCEPT ![n][s] = IF @ = "live" THEN "closing" ELSE @]
  /\ closeBy' = [closeBy EXCEPT ![n][s] =
       IF engine[n][s] = "live" THEN Clock(n) + Teardown ELSE @]
  /\ UNCHANGED <<now, rowVars, mode, leaseVars, callVars>>

(* releaseUnlessEngineActive(), and release() up to its await. *)
HandBack(n, s) ==
  /\ s \in handBack[n]
  /\ engine[n][s] # "closing"
  /\ handBack' = [handBack EXCEPT ![n] = @ \ {s}]
  /\ \/ /\ EngineActive(n, s)
        /\ UNCHANGED <<leaseVars, clears>>
     \/ /\ ~EngineActive(n, s)
        /\ Serial => ClaimsOf(n, s) = {}
        /\ CanCall
        /\ owned' = [owned EXCEPT ![n] = @ \ {s}]
        /\ deadline' = [deadline EXCEPT ![n][s] = 0]
        /\ clears' = clears \cup
             {[node |-> n, session |-> s, at |-> Clock(n), lapsedToo |-> TRUE]}
  /\ UNCHANGED <<now, rowVars, mode, claims, renewals, engineVars>>

(* The UPDATE of release(), which also clears a lapsed foreign claim, or   *)
(* that of releaseAll(), which does not.                                   *)
ExecuteClear(c) ==
  LET s == c.session
      matches == \/ rowNode[s] = c.node
                 \/ c.lapsedToo /\ rowNode[s] # NoNode /\ rowLease[s] < c.at
  IN  /\ rowNode' = IF matches THEN [rowNode EXCEPT ![s] = NoNode] ELSE rowNode
      /\ rowLease' = IF matches THEN [rowLease EXCEPT ![s] = 0] ELSE rowLease
      /\ clears' = clears \ {c}
      /\ UNCHANGED <<now, mode, leaseVars, claims, renewals, handBack, engineVars>>

-----------------------------------------------------------------------------
(* The heartbeat, and the timers that make expiry authoritative.           *)

(* expireLocalLeases(), from its timer, a tick or a failed renewal. *)
ExpireLocalLeases(n) ==
  /\ Expired(n) # {}
  /\ LoseSessions(n, Expired(n))
  /\ UNCHANGED <<now, rowVars, mode, callVars, handBack>>

(* A tick of the interval: expireLocalLeases() has nothing left to do, and *)
(* the claims that still cover something alive are going to be extended.   *)
BeginRenew(n) ==
  /\ mode[n] = "up"
  /\ Expired(n) = {}
  /\ owned[n] # {}
  /\ CanCall
  /\ LET live == {s \in owned[n] : EngineActive(n, s)}
     IN  renewals' = renewals \cup
           {[node |-> n, held |-> owned[n], live |-> live, until |-> Clock(n) + TTL,
             phase |-> IF live = {} THEN "find" ELSE "update", kept |-> {}]}
  /\ UNCHANGED <<now, rowVars, mode, leaseVars, claims, clears, handBack, engineVars>>

(* Which rows the UPDATE of a tick extends: those that still name the node,*)
(* whether or not their lease has lapsed.                                  *)
Extends(r, s) == s \in r.live /\ rowNode[s] = r.node

ExecuteRenew(r) ==
  /\ r.phase = "update"
  /\ rowLease' = [s \in Session |-> IF Extends(r, s) THEN r.until ELSE rowLease[s]]
  /\ renewals' = (renewals \ {r}) \cup {[r EXCEPT !.phase = "find"]}
  /\ UNCHANGED <<now, rowNode, mode, leaseVars, claims, clears, handBack, engineVars>>

FindKept(r) ==
  /\ r.phase = "find"
  /\ renewals' = (renewals \ {r}) \cup
       {[r EXCEPT !.phase = "answer", !.kept = {s \in r.held : rowNode[s] = r.node}]}
  /\ UNCHANGED <<now, rowVars, mode, leaseVars, claims, clears, handBack, engineVars>>

(* Idle sessions are acknowledged as well, which the UPDATE left out. *)
AcknowledgedIdle(r) == r.kept \cap owned[r.node]

(* What a tick extended, found again and still owns. *)
Acknowledged(r) == r.live \cap r.kept \cap owned[r.node]

(* The rest of renew(): the sessions it extended and still owns are        *)
(* acknowledged; those the find did not return are lost, whatever happened *)
(* to them since.                                                          *)
ConcludeRenew(r) ==
  LET n == r.node
      lost == r.held \ r.kept
  IN  /\ r.phase = "answer"
      /\ renewals' = renewals \ {r}
      /\ owned' = [owned EXCEPT ![n] = @ \ lost]
      /\ deadline' = [deadline EXCEPT ![n] =
           [s \in Session |-> CASE s \in Acknowledged(r) -> LocalDeadline(r.until)
                                [] s \in lost -> 0
                                [] OTHER -> @[s]]]
      /\ engine' = [engine EXCEPT ![n] =
           [s \in Session |-> IF s \in lost /\ @[s] = "live" THEN "closing" ELSE @[s]]]
      /\ closeBy' = [closeBy EXCEPT ![n] =
           [s \in Session |-> IF s \in lost /\ engine[n][s] = "live"
                                THEN Clock(n) + Teardown ELSE @[s]]]
      /\ UNCHANGED <<now, rowVars, mode, claims, clears, handBack>>

(* A query of the tick fails: the catch expires what is due, no more. *)
FailRenew(r) ==
  /\ renewals' = renewals \ {r}
  /\ LoseSessions(r.node, Expired(r.node))
  /\ UNCHANGED <<now, rowVars, mode, claims, clears, handBack>>

-----------------------------------------------------------------------------
(* The life of a process, and time.                                        *)

(* onModuleDestroy(): the heartbeat stops and the engines go down. *)
BeginShutdown(n) ==
  /\ mode[n] = "up"
  /\ mode' = [mode EXCEPT ![n] = "draining"]
  /\ engine' = [engine EXCEPT ![n] =
       [s \in Session |-> IF @[s] = "live" THEN "closing" ELSE @[s]]]
  /\ closeBy' = [closeBy EXCEPT ![n] =
       [s \in Session |-> IF engine[n][s] = "live" THEN Clock(n) + Teardown ELSE @[s]]]
  /\ UNCHANGED <<now, rowVars, leaseVars, callVars, handBack>>

(* releaseAll(), once the engines that were there are down. *)
ReleaseAll(n) ==
  /\ mode[n] = "draining"
  /\ owned[n] # {}
  /\ CanCall
  /\ \A s \in Session : engine[n][s] # "closing"
  /\ Serial => \A c \in claims : c.node # n
  /\ owned' = [owned EXCEPT ![n] = {}]
  /\ deadline' = [deadline EXCEPT ![n] = [s \in Session |-> 0]]
  /\ clears' = clears \cup
       {[node |-> n, session |-> s, at |-> Clock(n), lapsedToo |-> FALSE] : s \in owned[n]}
  /\ UNCHANGED <<now, rowVars, mode, claims, renewals, handBack, engineVars>>

(* The process crashes, or its shutdown ends, and the next one with the   *)
(* same nodeId comes up.  It takes its engines, its memory and the queries *)
(* it has not sent with it; the rows stay.  A process that stays down is   *)
(* one that takes no step after this one.                                  *)
Restart(n) ==
  /\ mode' = [mode EXCEPT ![n] = "up"]
  /\ owned' = [owned EXCEPT ![n] = {}]
  /\ deadline' = [deadline EXCEPT ![n] = [s \in Session |-> 0]]
  /\ claims' = {c \in claims : c.node # n}
  /\ clears' = {c \in clears : c.node # n}
  /\ renewals' = {r \in renewals : r.node # n}
  /\ handBack' = [handBack EXCEPT ![n] = {}]
  /\ engine' = [engine EXCEPT ![n] = [s \in Session |-> "none"]]
  /\ closeBy' = [closeBy EXCEPT ![n] = [s \in Session |-> 0]]
  /\ UNCHANGED <<now, rowVars>>

(* The clock moves on.  An UPDATE is not delayed beyond Latency, and when  *)
(* timers are prompt neither an expiry nor the end of a teardown is        *)
(* overdue afterwards.                                                     *)
Tick ==
  /\ now < MaxTime
  /\ \A c \in claims : c.phase = "sent" => Clock(c.node) < c.at + Latency
  /\ \A r \in renewals : r.phase = "update" => Clock(r.node) + TTL < r.until + Latency
  /\ Prompt => \A n \in Node :
       /\ Expired(n) = {}
       /\ \A s \in Session : engine[n][s] = "closing" => Clock(n) < closeBy[n][s]
  /\ now' = now + 1
  /\ UNCHANGED <<rowVars, mode, leaseVars, callVars, handBack, engineVars>>

-----------------------------------------------------------------------------

Next ==
  \/ \E n \in Node, s \in Session :
       \/ SendClaim(n, s)
       \/ Launch(n, s)
       \/ StartFails(n, s)
       \/ EngineDies(n, s)
       \/ EngineClosed(n, s)
       \/ Stop(n, s)
       \/ HandBack(n, s)
  \/ \E c \in claims : GrantClaim(c) \/ DropClaim(c) \/ AcceptClaim(c)
  \/ \E c \in clears : ExecuteClear(c)
  \/ \E r \in renewals : ExecuteRenew(r) \/ FindKept(r) \/ ConcludeRenew(r) \/ FailRenew(r)
  \/ \E n \in Node :
       \/ ExpireLocalLeases(n)
       \/ BeginRenew(n)
       \/ BeginShutdown(n)
       \/ ReleaseAll(n)
       \/ Restart(n)
  \/ Tick

Spec == Init /\ [][Next]_vars

-----------------------------------------------------------------------------
(* Properties.                                                             *)

(* At most one node believes it may act for a session: the fence in front  *)
(* of every engine callback, reconnect and scheduled send (owns()) never   *)
(* passes on two nodes at once.                                            *)
OwnsExclusive ==
  \A s \in Session : \A m, n \in Node : Owns(m, s) /\ Owns(n, s) => m = n

(* At most one process runs an engine for a session: two engines on one    *)
(* WhatsApp account are what the claim exists to prevent.                  *)
EngineExclusive ==
  \A s \in Session : \A m, n \in Node :
    engine[m][s] \in {"live", "closing"} /\ engine[n][s] \in {"live", "closing"} => m = n

(* A node that believes it owns a session is named by the row, and its     *)
(* local deadline leaves the grace period, less what a slow UPDATE can eat *)
(* of it, before the database lease lapses.                                *)
OwnsBacked ==
  \A n \in Node, s \in Session : Owns(n, s) =>
    rowNode[s] = n /\ deadline[n][s] + Grace <= rowLease[s] + Latency

(* A release in flight never takes the row from under a running engine: it *)
(* is only issued for a session the process no longer runs or owns, and    *)
(* nothing starts it again before the row is clear.                        *)
ClearsAreIdle ==
  \A c \in clears : /\ c.session \notin owned[c.node]
                    /\ engine[c.node][c.session] \notin {"live", "closing"}
                    /\ ClaimsOf(c.node, c.session) = {}

(* A live engine is on a row that names its node: otherwise no heartbeat   *)
(* renews it, the takeover sweep does not see it, and any peer may start   *)
(* the session a second time.                                              *)
LiveIsClaimed ==
  \A n \in Node, s \in Session : engine[n][s] = "live" => rowNode[s] = n

-----------------------------------------------------------------------------
(* What the claim promises, whatever the leases, heartbeats and clocks do  *)
(* to keep the promise: one engine per session.                            *)

Running == [s \in Session |-> {n \in Node : engine[n][s] \in {"live", "closing"}}]

Abstract == INSTANCE ExclusiveEngine WITH running <- Running

ImplementsExclusiveEngine == Abstract!Spec

===============================================================================
