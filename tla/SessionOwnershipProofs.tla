----------------------- MODULE SessionOwnershipProofs -----------------------
(***************************************************************************)
(* Proofs about SessionOwnership, for any nodes, sessions, TTL and clocks. *)
(*                                                                         *)
(* The argument runs through the row.  A node may only take a row whose    *)
(* lease it sees as lapsed, by a timestamp that is at most Skew ahead of   *)
(* the holder's clock; so the holder is safe as long as it stops acting    *)
(* Skew before the lease it wrote.  It stops at its local deadline, which  *)
(* is Grace before the lease it believes it wrote; the UPDATE may have     *)
(* written one that is up to Latency older.  Hence Latency + Skew <= Grace *)
(* for the fence, and Teardown + Latency + Skew <= Grace for the engine    *)
(* whose teardown only begins at the deadline.                             *)
(***************************************************************************)
EXTENDS SessionOwnership, TLAPS

Slack == Grace - Latency

(* The row names n, with a lease up to x at least. *)
Held(n, s, x) == rowNode[s] = n /\ x <= rowLease[s]

-----------------------------------------------------------------------------
(* The inductive invariant of the leases.                                  *)

(* Timestamps in flight are of the past, and those of an UPDATE that has   *)
(* not executed yet are recent.                                            *)
StampsOfClaims ==
  \A c \in claims :
    /\ c.at <= Clock(c.node)
    /\ c.phase = "sent" => Clock(c.node) <= c.at + Latency

StampsOfClears == \A c \in clears : c.at <= Clock(c.node)

StampsOfRenewals ==
  \A r \in renewals :
    /\ r.until <= Clock(r.node) + TTL
    /\ r.phase = "update" => Clock(r.node) + TTL <= r.until + Latency

DeadlinesAhead ==
  \A n \in Node : \A s \in owned[n] : deadline[n][s] <= Clock(n) + TTL - Grace

(* A release in flight is not overtaken by a claim of the same node. *)
ClearsAlone ==
  \A c \in clears : c.session \notin owned[c.node] /\ ClaimsOf(c.node, c.session) = {}

OwnedHeld ==
  \A n \in Node : \A s \in owned[n] :
    deadline[n][s] >= Clock(n) => Held(n, s, deadline[n][s] + Slack)

GrantedHeld ==
  \A c \in claims :
    c.phase = "granted" /\ c.at + TTL - Grace >= Clock(c.node) =>
      Held(c.node, c.session, c.at + TTL - Latency)

(* Once its UPDATE has executed, the rows a tick was to extend and that    *)
(* name its node are good for what it is going to acknowledge.             *)
ExtendedHeld ==
  \A r \in renewals : \A s \in r.live :
    r.phase # "update" /\ rowNode[s] = r.node => r.until <= rowLease[s] + Latency

(* What the find saw still holds, unless the node gave the session up      *)
(* since; then it is not acknowledged.                                     *)
KeptHeld ==
  \A r \in renewals : \A s \in r.live \cap r.kept :
    r.phase = "answer" /\ r.until - Grace >= Clock(r.node) =>
      \/ rowNode[s] = r.node
      \/ /\ s \notin owned[r.node]
         /\ \A c \in ClaimsOf(r.node, s) : c.phase = "sent"

LeaseInv ==
  /\ TypeOK
  /\ StampsOfClaims
  /\ StampsOfClears
  /\ StampsOfRenewals
  /\ DeadlinesAhead
  /\ ClearsAlone
  /\ OwnedHeld
  /\ GrantedHeld
  /\ ExtendedHeld
  /\ KeptHeld

-----------------------------------------------------------------------------
(* The inductive invariant of the engines.                                 *)

ClearsIdle == \A c \in clears : engine[c.node][c.session] \notin {"live", "closing"}

LiveHeld ==
  \A n \in Node, s \in Session :
    engine[n][s] = "live" => s \in owned[n] /\ Held(n, s, Clock(n) + Slack)

ClosingHeld ==
  \A n \in Node, s \in Session :
    engine[n][s] = "closing" =>
      /\ Clock(n) <= closeBy[n][s]
      /\ closeBy[n][s] <= Clock(n) + Teardown
      /\ Held(n, s, closeBy[n][s] + Skew)

DrainingNotLive ==
  \A n \in Node, s \in Session : mode[n] = "draining" => engine[n][s] # "live"

EngineInv ==
  /\ ClearsIdle
  /\ LiveHeld
  /\ ClosingHeld
  /\ DrainingNotLive

-----------------------------------------------------------------------------
(* Types.                                                                  *)

(* The times that bound the model are natural numbers.                     *)
LEMMA ConstantTypes ==
  /\ Skew \in Nat
  /\ TTL \in Nat
  /\ GraceCap \in Nat
  /\ Teardown \in Nat
  /\ Latency \in Nat
  BY ConstantsAssumption

(* acknowledgeLease(): the grace is at most a third of the lease.          *)
LEMMA GraceBound == Grace \in Nat /\ 3 * Grace <= TTL
<1>1. /\ TTL \in Nat
      /\ GraceCap \in Nat
  BY ConstantTypes
<1>2. TTL \div 3 \in Nat /\ 3 * (TTL \div 3) <= TTL
  BY <1>1
<1> QED
  BY <1>1, <1>2 DEF Grace

(* No clock is more than Skew ahead of another.                            *)
LEMMA ClockBound ==
  ASSUME TypeOK, NEW m \in Node, NEW n \in Node
  PROVE  Clock(m) \in Nat /\ Clock(m) <= Clock(n) + Skew
<1>1. /\ now \in Nat
      /\ Offset[m] \in Nat
      /\ Offset[n] \in Nat
      /\ Skew \in Nat
      /\ Offset[m] <= Offset[n] + Skew
  BY ConstantsAssumption, SkewAssumption DEF TypeOK
<1> QED
  BY <1>1 DEF Clock

(* Every constant and variable keeps its type. *)
THEOREM TypeCorrect == Spec => []TypeOK
<1>1. Init => TypeOK
  BY ConstantsAssumption DEF Init, TypeOK, Modes, EngineStates
<1>2. TypeOK /\ [Next]_vars => TypeOK'
  <2> SUFFICES ASSUME TypeOK, [Next]_vars
               PROVE  TypeOK'
    OBVIOUS
  <2> USE ConstantTypes, GraceBound
  <2>0. \A n \in Node : Clock(n) \in Nat /\ Clock(n) + Teardown \in Nat
    BY ClockBound
  <2>1. ASSUME NEW n \in Node, NEW s \in Session, SendClaim(n, s)
        PROVE  TypeOK'
    BY <2>0, <2>1 DEF SendClaim, TypeOK, ClaimCall, rowVars, leaseVars, engineVars
  <2>2. ASSUME NEW n \in Node, NEW s \in Session, Launch(n, s)
        PROVE  TypeOK'
    BY <2>2 DEF Launch, TypeOK, EngineStates, rowVars, leaseVars, callVars
  <2>3. ASSUME NEW n \in Node, NEW s \in Session, StartFails(n, s)
        PROVE  TypeOK'
    BY <2>0, <2>3 DEF StartFails, TypeOK, EngineStates, rowVars, leaseVars, callVars
  <2>4. ASSUME NEW n \in Node, NEW s \in Session, EngineDies(n, s)
        PROVE  TypeOK'
    BY <2>4 DEF EngineDies, TypeOK, EngineStates, rowVars, leaseVars, callVars
  <2>5. ASSUME NEW n \in Node, NEW s \in Session, EngineClosed(n, s)
        PROVE  TypeOK'
    BY <2>5 DEF EngineClosed, TypeOK, EngineStates, rowVars, leaseVars, callVars
  <2>6. ASSUME NEW n \in Node, NEW s \in Session, Stop(n, s)
        PROVE  TypeOK'
    BY <2>0, <2>6 DEF Stop, TypeOK, EngineStates, rowVars, leaseVars, callVars
  <2>7. ASSUME NEW n \in Node, NEW s \in Session, HandBack(n, s)
        PROVE  TypeOK'
    <3> DEFINE c == [node |-> n, session |-> s, at |-> Clock(n), lapsedToo |-> TRUE]
    <3>1. c \in ClearCall
      BY <2>0 DEF ClearCall
    <3>2. clears' \subseteq ClearCall
      BY <2>7, <3>1 DEF HandBack, TypeOK
    <3>3. owned' \in [Node -> SUBSET Session] /\ deadline' \in [Node -> [Session -> Nat]]
      <4>1. CASE EngineActive(n, s)
        BY <2>7, <4>1 DEF HandBack, TypeOK, leaseVars
      <4>2. CASE ~EngineActive(n, s)
        <5>1. /\ owned' = [owned EXCEPT ![n] = @ \ {s}]
              /\ deadline' = [deadline EXCEPT ![n][s] = 0]
          BY <2>7, <4>2 DEF HandBack
        <5>2. owned \in [Node -> SUBSET Session] /\ deadline \in [Node -> [Session -> Nat]]
          BY DEF TypeOK
        <5> QED
          BY <5>1, <5>2
      <4> QED
        BY <4>1, <4>2
    <3> QED
      BY <2>7, <3>2, <3>3 DEF HandBack, TypeOK, rowVars, engineVars
  <2>8. ASSUME NEW c \in claims, GrantClaim(c)
        PROVE  TypeOK'
    <3> DEFINE d == [c EXCEPT !.phase = "granted"]
    <3>0. c \in ClaimCall
      BY DEF TypeOK
    <3>1. /\ d \in ClaimCall
          /\ c.node \in Node
          /\ c.session \in Session
          /\ c.at + TTL \in Nat
      BY <3>0 DEF ClaimCall
    <3>2. claims' \subseteq ClaimCall
      BY <2>8, <3>1 DEF GrantClaim, TypeOK
    <3> QED
      BY <2>8, <3>1, <3>2 DEF GrantClaim, TypeOK, leaseVars, engineVars
  <2>9. ASSUME NEW c \in claims, DropClaim(c)
        PROVE  TypeOK'
    BY <2>9 DEF DropClaim, TypeOK, rowVars, leaseVars, engineVars
  <2>10. ASSUME NEW c \in claims, AcceptClaim(c)
         PROVE  TypeOK'
    <3>1. c.node \in Node /\ c.session \in Session /\ c.at \in Nat
      BY DEF TypeOK, ClaimCall
    <3>2. LocalDeadline(c.at + TTL) \in Nat
      BY <3>1 DEF LocalDeadline
    <3> QED
      BY <2>10, <3>1, <3>2 DEF AcceptClaim, TypeOK, EngineStates, rowVars
  <2>11. ASSUME NEW c \in clears, ExecuteClear(c)
         PROVE  TypeOK'
    BY <2>11 DEF ExecuteClear, TypeOK, ClearCall, leaseVars, engineVars
  <2>12. ASSUME NEW r \in renewals, ExecuteRenew(r)
         PROVE  TypeOK'
    BY <2>12 DEF ExecuteRenew, TypeOK, RenewCall, leaseVars, engineVars
  <2>13. ASSUME NEW r \in renewals, FindKept(r)
         PROVE  TypeOK'
    <3> DEFINE K == {s \in r.held : rowNode[s] = r.node}
               q == [r EXCEPT !.phase = "answer", !.kept = K]
    <3>1. K \in SUBSET Session
      BY DEF TypeOK, RenewCall
    <3>2. q \in RenewCall
      BY ZenonT(40), <3>1 DEF TypeOK, RenewCall
    <3>3. renewals' \subseteq RenewCall
      BY <2>13, <3>2 DEF FindKept, TypeOK
    <3> QED
      BY <2>13, <3>3 DEF FindKept, TypeOK, rowVars, leaseVars, engineVars
  <2>14. ASSUME NEW r \in renewals, ConcludeRenew(r)
         PROVE  TypeOK'
    <3>1. r.node \in Node /\ r.until \in Nat /\ r.until >= TTL
      BY DEF TypeOK, RenewCall
    <3>2. LocalDeadline(r.until) \in Nat
      BY <3>1 DEF LocalDeadline
    <3> QED
      BY <2>0, <2>14, <3>1, <3>2 DEF ConcludeRenew, Acknowledged, TypeOK, EngineStates, rowVars
  <2>15. ASSUME NEW r \in renewals, FailRenew(r)
         PROVE  TypeOK'
    <3>1. r.node \in Node
      BY DEF TypeOK, RenewCall
    <3> QED
      BY <2>0, <2>15, <3>1 DEF FailRenew, LoseSessions, TypeOK, EngineStates, rowVars
  <2>16. ASSUME NEW n \in Node, ExpireLocalLeases(n)
         PROVE  TypeOK'
    BY <2>0, <2>16 DEF ExpireLocalLeases, LoseSessions, TypeOK, EngineStates, rowVars, callVars
  <2>17. ASSUME NEW n \in Node, BeginRenew(n)
         PROVE  TypeOK'
    <3>1. Clock(n) + TTL \in {t \in Nat : t >= TTL}
      BY <2>0
    <3>2. owned[n] \in SUBSET Session
      BY DEF TypeOK
    <3> QED
      BY <2>17, <3>1, <3>2 DEF BeginRenew, TypeOK, RenewCall, rowVars, leaseVars, engineVars
  <2>18. ASSUME NEW n \in Node, BeginShutdown(n)
         PROVE  TypeOK'
    BY <2>0, <2>18 DEF BeginShutdown, TypeOK, Modes, EngineStates, rowVars, leaseVars, callVars
  <2>19. ASSUME NEW n \in Node, ReleaseAll(n)
         PROVE  TypeOK'
    <3>1. \A s \in Session :
            [node |-> n, session |-> s, at |-> Clock(n), lapsedToo |-> FALSE] \in ClearCall
      BY <2>0 DEF ClearCall
    <3>2. owned[n] \subseteq Session
      BY DEF TypeOK
    <3>3. clears' \subseteq ClearCall
      BY <2>19, <3>1, <3>2 DEF ReleaseAll, TypeOK
    <3> QED
      BY <2>19, <3>3 DEF ReleaseAll, TypeOK, rowVars, engineVars
  <2>20. ASSUME NEW n \in Node, Restart(n)
         PROVE  TypeOK'
    BY <2>20 DEF Restart, TypeOK, Modes, EngineStates, rowVars
  <2>21. CASE Tick
    BY <2>21 DEF Tick, TypeOK, rowVars, leaseVars, callVars, engineVars
  <2>22. CASE UNCHANGED vars
    BY <2>22 DEF TypeOK, vars, rowVars, leaseVars, callVars, engineVars
  <2> QED
    BY <2>1, <2>2, <2>3, <2>4, <2>5, <2>6, <2>7, <2>8, <2>9, <2>10, <2>11, <2>12, <2>13,
       <2>14, <2>15, <2>16, <2>17, <2>18, <2>19, <2>20, <2>21, <2>22 DEF Next
<1> QED
  BY <1>1, <1>2, PTL DEF Spec

-----------------------------------------------------------------------------
(* Rows.  What a node relies on survives every query of every node.        *)

(* The fields of the calls in flight.                                      *)
LEMMA CallTypes ==
  ASSUME TypeOK
  PROVE  /\ \A c \in claims : /\ c.node \in Node
                              /\ c.session \in Session
                              /\ c.at \in Nat
                              /\ c.phase \in {"sent", "granted"}
         /\ \A c \in clears : /\ c.node \in Node
                              /\ c.session \in Session
                              /\ c.at \in Nat
         /\ \A r \in renewals : /\ r.node \in Node
                                /\ r.live \in SUBSET Session
                                /\ r.until \in Nat
                                /\ r.until >= TTL
                                /\ r.phase \in {"update", "find", "answer"}
  BY DEF TypeOK, ClaimCall, ClearCall, RenewCall

(* A claim takes a row from nobody who can still rely on it: it would have *)
(* to see a lease lapsed that has Skew to go by its holder's clock.        *)
LEMMA GrantKeepsHeld ==
  ASSUME TypeOK, StampsOfClaims, NEW c \in claims, GrantClaim(c),
         NEW n \in Node, NEW s \in Session, NEW x \in Int,
         Held(n, s, x), Clock(n) + Skew <= x, x <= Clock(n) + TTL - Latency
  PROVE  Held(n, s, x)'
<1> USE ConstantTypes
<1>1. /\ c.node \in Node
      /\ c.session \in Session
      /\ c.at \in Nat
      /\ c.phase = "sent"
  BY CallTypes DEF GrantClaim
<1>2. /\ c.at <= Clock(c.node)
      /\ Clock(c.node) <= c.at + Latency
  BY <1>1 DEF StampsOfClaims
<1>3. /\ Clock(c.node) \in Nat
      /\ Clock(n) \in Nat
      /\ Clock(c.node) <= Clock(n) + Skew
  BY <1>1, ClockBound
<1>4. /\ rowNode \in [Session -> Node \cup {NoNode}]
      /\ rowLease \in [Session -> Nat]
      /\ NoNode \notin Node
  BY ConstantsAssumption DEF TypeOK
<1>5. CASE s # c.session
  BY <1>1, <1>4, <1>5 DEF GrantClaim, Held
<1>6. CASE s = c.session
  <2>1. Takeable(c.node, s, c.at)
    BY <1>6 DEF GrantClaim
  <2>2. ~(rowLease[s] < c.at)
    BY <1>1, <1>2, <1>3, <1>4 DEF Held
  <2>3. c.node = n
    BY <2>1, <2>2, <1>4 DEF Takeable, Held
  <2>4. x <= c.at + TTL
    BY <2>3, <1>1, <1>2, <1>3
  <2> QED
    BY <1>1, <1>4, <1>6, <2>3, <2>4 DEF GrantClaim, Held
<1> QED
  BY <1>5, <1>6

(* A release takes a row from its own node and session, or one that has    *)
(* lapsed by a clock at most Skew ahead.                                   *)
LEMMA ClearKeepsHeld ==
  ASSUME TypeOK, StampsOfClears, NEW c \in clears, ExecuteClear(c),
         NEW n \in Node, NEW s \in Session, NEW x \in Int,
         Held(n, s, x), Clock(n) + Skew <= x, c.node # n \/ c.session # s
  PROVE  Held(n, s, x)'
<1> USE ConstantTypes
<1>1. /\ c.node \in Node
      /\ c.session \in Session
      /\ c.at \in Nat
      /\ c.at <= Clock(c.node)
  BY CallTypes DEF StampsOfClears
<1>2. /\ Clock(c.node) \in Nat
      /\ Clock(n) \in Nat
      /\ Clock(c.node) <= Clock(n) + Skew
  BY <1>1, ClockBound
<1>3. /\ rowNode \in [Session -> Node \cup {NoNode}]
      /\ rowLease \in [Session -> Nat]
  BY DEF TypeOK
<1>4. CASE s # c.session
  BY <1>1, <1>3, <1>4 DEF ExecuteClear, Held
<1>5. CASE s = c.session
  <2>1. rowNode[s] # c.node /\ ~(rowLease[s] < c.at)
    BY <1>1, <1>2, <1>3, <1>5 DEF Held
  <2> QED
    BY <1>5, <2>1 DEF ExecuteClear, Held
<1> QED
  BY <1>4, <1>5

(* A renewal extends rows and never cuts one short of what is relied on.   *)
LEMMA RenewKeepsHeld ==
  ASSUME TypeOK, StampsOfRenewals, NEW r \in renewals, ExecuteRenew(r),
         NEW n \in Node, NEW s \in Session, NEW x \in Int,
         Held(n, s, x), x <= Clock(n) + TTL - Latency
  PROVE  Held(n, s, x)'
<1> USE ConstantTypes
<1>1. /\ r.node \in Node
      /\ r.until \in Nat
      /\ r.phase = "update"
  BY CallTypes DEF ExecuteRenew
<1>2. Clock(r.node) + TTL <= r.until + Latency
  BY <1>1 DEF StampsOfRenewals
<1>3. Clock(r.node) \in Nat
  BY <1>1, ClockBound
<1>4. rowLease'[s] = IF Extends(r, s) THEN r.until ELSE rowLease[s]
  BY DEF ExecuteRenew
<1>5. rowNode' = rowNode /\ rowLease[s] \in Nat
  BY DEF ExecuteRenew, TypeOK
<1>6. CASE Extends(r, s)
  <2>1. r.node = n
    BY <1>6 DEF Extends, Held
  <2> QED
    BY <1>1, <1>2, <1>3, <1>4, <1>5, <1>6, <2>1 DEF Held
<1>7. CASE ~Extends(r, s)
  BY <1>4, <1>5, <1>7 DEF Held
<1> QED
  BY <1>6, <1>7

-----------------------------------------------------------------------------
(* Steps and leases.                                                       *)

(* What is neither now, nor the rows, nor the leases, nor a call in        *)
(* flight does not matter.                                                 *)
LEMMA LeaseFrame ==
  ASSUME LeaseInv, TypeOK',
         UNCHANGED <<now, rowVars, leaseVars, callVars>>
  PROVE  LeaseInv'
<1>1. /\ StampsOfClaims'
      /\ StampsOfClears'
      /\ StampsOfRenewals'
      /\ DeadlinesAhead'
  BY DEF LeaseInv, StampsOfClaims, StampsOfClears, StampsOfRenewals, DeadlinesAhead, Clock,
         leaseVars, callVars
<1>2. /\ ClearsAlone'
      /\ OwnedHeld'
      /\ GrantedHeld'
      /\ ExtendedHeld'
  BY DEF LeaseInv, ClearsAlone, OwnedHeld, GrantedHeld, ExtendedHeld, ClaimsOf, Clock, Held,
         rowVars, leaseVars, callVars
<1>3. KeptHeld'
  BY DEF LeaseInv, KeptHeld, ClaimsOf, Clock, rowVars, leaseVars, callVars
<1> QED
  BY <1>1, <1>2, <1>3 DEF LeaseInv

(* What n relies on for s survives this step. *)
Kept(n, s) ==
  \A x \in Int :
    Held(n, s, x) /\ Clock(n) + Skew <= x /\ x <= Clock(n) + TTL - Latency => Held(n, s, x)'

(* What an owner relies on outlasts a step that keeps its rows.            *)
LEMMA OwnedHeldKept ==
  ASSUME LeaseInv, Latency + Skew <= Grace,
         UNCHANGED <<now, owned, deadline>>,
         \A n \in Node : \A s \in owned[n] : Kept(n, s)
  PROVE  OwnedHeld'
<1> SUFFICES ASSUME NEW n \in Node, NEW s \in owned[n], deadline[n][s] >= Clock(n)
             PROVE  Held(n, s, deadline[n][s] + Slack)'
  BY DEF OwnedHeld, Clock
<1> USE ConstantTypes, GraceBound
<1>1. s \in Session /\ deadline[n][s] \in Nat
  BY DEF LeaseInv, TypeOK
<1>2. Clock(n) \in Nat
  BY ClockBound DEF LeaseInv
<1>3. PICK x \in Int : x = deadline[n][s] + Slack
  BY <1>1 DEF Slack
<1>4. Held(n, s, x)
  BY <1>3 DEF LeaseInv, OwnedHeld
<1>5. Clock(n) + Skew <= x
  BY <1>1, <1>2, <1>3 DEF Slack
<1>6. x <= Clock(n) + TTL - Latency
  BY <1>1, <1>2, <1>3 DEF LeaseInv, DeadlinesAhead, Slack
<1>7. Held(n, s, x)'
  BY <1>4, <1>5, <1>6 DEF Kept
<1> QED
  BY <1>3, <1>7 DEF Held, Slack

(* So does what a claim relies on whose answer is still on its way.        *)
LEMMA GrantedHeldKept ==
  ASSUME LeaseInv, Latency + Skew <= Grace,
         NEW c \in claims, c.phase = "granted", c.at + TTL - Grace >= Clock(c.node),
         Kept(c.node, c.session)
  PROVE  Held(c.node, c.session, c.at + TTL - Latency)'
<1> USE ConstantTypes, GraceBound
<1>1. c.node \in Node /\ c.at \in Nat
  BY CallTypes DEF LeaseInv
<1>2. Clock(c.node) \in Nat /\ c.at <= Clock(c.node)
  BY <1>1, ClockBound DEF LeaseInv, StampsOfClaims
<1>3. c.at + TTL - Latency \in Int
  BY <1>1
<1>4. Held(c.node, c.session, c.at + TTL - Latency)
  BY DEF LeaseInv, GrantedHeld
<1>5. /\ Clock(c.node) + Skew <= c.at + TTL - Latency
      /\ c.at + TTL - Latency <= Clock(c.node) + TTL - Latency
  BY <1>1, <1>2
<1> QED
  BY <1>3, <1>4, <1>5 DEF Kept

(* And so does what the answer of a renewal is going to acknowledge.       *)
LEMMA RenewedKept ==
  ASSUME LeaseInv, Latency + Skew <= Grace,
         NEW r \in renewals, NEW s \in r.live \cap r.kept,
         r.phase = "answer", r.until - Grace >= Clock(r.node), rowNode[s] = r.node,
         Kept(r.node, s)
  PROVE  rowNode'[s] = r.node
<1> USE ConstantTypes, GraceBound
<1>1. r.node \in Node /\ r.until \in Nat /\ s \in Session
  BY CallTypes DEF LeaseInv
<1>2. Clock(r.node) \in Nat /\ r.until <= Clock(r.node) + TTL
  BY <1>1, ClockBound DEF LeaseInv, StampsOfRenewals
<1>3. r.until <= rowLease[s] + Latency /\ rowLease[s] \in Nat
  BY <1>1 DEF LeaseInv, ExtendedHeld, TypeOK
<1>4. Held(r.node, s, r.until - Latency)
  BY <1>1, <1>3 DEF Held
<1>5. /\ r.until - Latency \in Int
      /\ Clock(r.node) + Skew <= r.until - Latency
      /\ r.until - Latency <= Clock(r.node) + TTL - Latency
  BY <1>1, <1>2
<1> QED
  BY <1>4, <1>5 DEF Kept, Held

-----------------------------------------------------------------------------
(* What the leases guarantee.                                              *)

(* The invariant of the leases holds before anything is claimed.           *)
LEMMA LeaseInit == Init => LeaseInv
<1> SUFFICES ASSUME Init
             PROVE  LeaseInv
  OBVIOUS
<1>1. TypeOK
  BY ConstantsAssumption DEF Init, TypeOK, Modes, EngineStates
<1>2. /\ StampsOfClaims
      /\ StampsOfClears
      /\ StampsOfRenewals
      /\ DeadlinesAhead
  BY DEF Init, StampsOfClaims, StampsOfClears, StampsOfRenewals, DeadlinesAhead
<1>3. /\ ClearsAlone
      /\ OwnedHeld
      /\ GrantedHeld
      /\ ExtendedHeld
      /\ KeptHeld
  BY DEF Init, ClearsAlone, OwnedHeld, GrantedHeld, ExtendedHeld, KeptHeld
<1> QED
  BY <1>1, <1>2, <1>3 DEF LeaseInv

(* Every step keeps the invariant of the leases.                           *)
LEMMA LeaseStep ==
  ASSUME LeaseInv, TypeOK', Serial, Latency + Skew <= Grace, [Next]_vars
  PROVE  LeaseInv'
<1> USE ConstantTypes, GraceBound
<1>1. CASE \E n \in Node, s \in Session :
             \/ Launch(n, s)
             \/ StartFails(n, s)
             \/ EngineDies(n, s)
             \/ EngineClosed(n, s)
             \/ Stop(n, s)
  BY <1>1, LeaseFrame DEF Launch, StartFails, EngineDies, EngineClosed, Stop,
     rowVars, leaseVars, callVars
<1>2. CASE \E n \in Node : BeginShutdown(n)
  BY <1>2, LeaseFrame DEF BeginShutdown, rowVars, leaseVars, callVars
<1>3. CASE UNCHANGED vars
  BY <1>3, LeaseFrame DEF vars, rowVars, leaseVars, callVars
<1>4. ASSUME NEW n \in Node, NEW s \in Session, SendClaim(n, s)
      PROVE  LeaseInv'
  <2> USE DEF LeaseInv
  <2>10. /\ StampsOfClears'
         /\ StampsOfRenewals'
         /\ DeadlinesAhead'
         /\ OwnedHeld'
         /\ ExtendedHeld'
    BY <1>4 DEF SendClaim, StampsOfClears, StampsOfRenewals, DeadlinesAhead, OwnedHeld,
       ExtendedHeld, Held, Clock, rowVars, leaseVars, callVars
  <2>11. StampsOfClaims'
    <3>1. Clock(n) \in Nat /\ \A m \in Node : Clock(m)' = Clock(m)
      BY <1>4, ClockBound DEF SendClaim, Clock
    <3> DEFINE d == [node |-> n, session |-> s, at |-> Clock(n), phase |-> "sent"]
    <3>2. claims' = claims \cup {d}
      BY <1>4 DEF SendClaim
    <3>3. d.node = n /\ d.at = Clock(n)
      OBVIOUS
    <3> HIDE DEF d
    <3> QED
      BY <3>1, <3>2, <3>3, CallTypes DEF StampsOfClaims
  <2>12. ClearsAlone'
    BY <1>4, CallTypes DEF SendClaim, ClaimsOf, ClearsOf, ClearsAlone, Clock, TypeOK, rowVars,
       leaseVars, callVars
  <2>13. GrantedHeld'
    BY <1>4, CallTypes DEF SendClaim, ClaimsOf, ClearsOf, GrantedHeld, Held, Slack, Clock,
       TypeOK, rowVars, leaseVars, callVars
  <2>14. KeptHeld'
    BY <1>4, CallTypes DEF SendClaim, ClaimsOf, ClearsOf, KeptHeld, Held, Slack, Clock, TypeOK,
       rowVars, leaseVars, callVars
  <2> QED
    BY <2>10, <2>11, <2>12, <2>13, <2>14
<1>5. ASSUME NEW c \in claims, GrantClaim(c)
      PROVE  LeaseInv'
  <2> USE DEF LeaseInv
  <2>1. \A n \in Node : Clock(n) \in Nat /\ Clock(n)' = Clock(n)
    BY <1>5, ClockBound DEF GrantClaim, Clock
  <2>2. /\ c.node \in Node
        /\ c.session \in Session
        /\ c.at \in Nat
        /\ c.phase = "sent"
    BY <1>5, CallTypes DEF GrantClaim
  <2> DEFINE d == [c EXCEPT !.phase = "granted"]
  <2>3. /\ d.node = c.node
        /\ d.session = c.session
        /\ d.at = c.at
        /\ d.phase = "granted"
    BY DEF TypeOK, ClaimCall
  <2>4. claims' = (claims \ {c}) \cup {d}
    BY <1>5 DEF GrantClaim
  <2>5. \A n \in Node, s \in Session : Kept(n, s)
    BY <1>5, GrantKeepsHeld DEF Kept
  <2>6. /\ rowNode'[c.session] = c.node
        /\ rowLease'[c.session] = c.at + TTL
        /\ \A s \in Session \ {c.session} : rowNode'[s] = rowNode[s] /\ rowLease'[s] = rowLease[s]
    BY <1>5, <2>2 DEF GrantClaim, TypeOK
  <2>7. c.at <= Clock(c.node) /\ Clock(c.node) <= c.at + Latency
    BY <2>2 DEF StampsOfClaims
  <2> HIDE DEF d
  <2>10. /\ StampsOfClears'
         /\ StampsOfRenewals'
         /\ DeadlinesAhead'
    BY <1>5 DEF GrantClaim, StampsOfClears, StampsOfRenewals, DeadlinesAhead, Clock, rowVars,
       leaseVars, callVars
  <2>11. StampsOfClaims'
    BY <2>1, <2>2, <2>3, <2>4, CallTypes DEF StampsOfClaims
  <2>12. ClearsAlone'
    <3> SUFFICES ASSUME NEW e \in clears
                 PROVE  e.session \notin owned[e.node] /\ ClaimsOf(e.node, e.session)' = {}
      BY <1>5 DEF ClearsAlone, GrantClaim, leaseVars
    <3>1. e.session \notin owned[e.node] /\ ClaimsOf(e.node, e.session) = {}
      BY DEF ClearsAlone
    <3>2. ClaimsOf(e.node, e.session)' = {}
      BY <2>3, <2>4, <3>1 DEF ClaimsOf
    <3> QED
      BY <3>1, <3>2
  <2>13. OwnedHeld'
    <3>1. \A n \in Node : owned[n] \subseteq Session
      BY DEF TypeOK
    <3> QED
      BY <1>5, <2>5, <3>1, OwnedHeldKept DEF GrantClaim, leaseVars
  <2>14. GrantedHeld'
    <3>1. ASSUME NEW e \in claims, e.phase = "granted", e.at + TTL - Grace >= Clock(e.node)
          PROVE  Held(e.node, e.session, e.at + TTL - Latency)'
      BY <2>5, <3>1, GrantedHeldKept, CallTypes
    <3>2. Held(d.node, d.session, d.at + TTL - Latency)'
      BY <2>2, <2>3, <2>6 DEF Held
    <3> QED
      BY <2>1, <2>4, <3>1, <3>2, CallTypes DEF GrantedHeld
  <2>15. ExtendedHeld'
    <3> SUFFICES ASSUME NEW r \in renewals, NEW s \in r.live,
                        r.phase # "update", rowNode'[s] = r.node
                 PROVE  r.until <= rowLease'[s] + Latency
      BY <1>5 DEF ExtendedHeld, GrantClaim
    <3>1. r.node \in Node /\ s \in Session /\ r.until \in Nat
      BY CallTypes
    <3>2. CASE s = c.session
      <4>1. r.until <= Clock(c.node) + TTL
        BY <2>6, <3>2 DEF StampsOfRenewals
      <4> QED
        BY <2>1, <2>2, <2>6, <2>7, <3>1, <3>2, <4>1
    <3>3. CASE s # c.session
      BY <2>6, <3>1, <3>3 DEF ExtendedHeld
    <3> QED
      BY <3>2, <3>3
  <2>16. KeptHeld'
    <3> SUFFICES ASSUME NEW r \in renewals, NEW s \in r.live \cap r.kept,
                        r.phase = "answer", r.until - Grace >= Clock(r.node)
                 PROVE  \/ rowNode'[s] = r.node
                        \/ /\ s \notin owned[r.node]
                           /\ \A e \in ClaimsOf(r.node, s)' : e.phase = "sent"
      BY <1>5, <2>1, CallTypes DEF KeptHeld, GrantClaim, leaseVars
    <3>1. r.node \in Node /\ s \in Session
      BY CallTypes
    <3>2. CASE rowNode[s] = r.node
      BY <2>5, <3>1, <3>2, RenewedKept
    <3>3. CASE rowNode[s] # r.node /\ c.node = r.node /\ c.session = s
      BY <2>6, <3>3
    <3>4. CASE rowNode[s] # r.node /\ ~(c.node = r.node /\ c.session = s)
      <4>1. s \notin owned[r.node] /\ \A e \in ClaimsOf(r.node, s) : e.phase = "sent"
        BY <3>4 DEF KeptHeld
      <4>2. ClaimsOf(r.node, s)' \subseteq ClaimsOf(r.node, s)
        BY <2>3, <2>4, <3>4 DEF ClaimsOf
      <4> QED
        BY <4>1, <4>2
    <3> QED
      BY <3>2, <3>3, <3>4
  <2> QED
    BY <2>10, <2>11, <2>12, <2>13, <2>14, <2>15, <2>16
<1>6. ASSUME NEW c \in claims, DropClaim(c)
      PROVE  LeaseInv'
  <2> USE DEF LeaseInv
  <2>10. /\ StampsOfClears'
         /\ StampsOfRenewals'
         /\ DeadlinesAhead'
         /\ OwnedHeld'
         /\ ExtendedHeld'
    BY <1>6 DEF DropClaim, StampsOfClears, StampsOfRenewals, DeadlinesAhead, OwnedHeld,
       ExtendedHeld, Held, Clock, rowVars, leaseVars, callVars
  <2>11. StampsOfClaims'
    BY <1>6, CallTypes DEF DropClaim, ClaimsOf, StampsOfClaims, Clock, TypeOK, rowVars,
       leaseVars, callVars
  <2>12. ClearsAlone'
    BY <1>6, CallTypes DEF DropClaim, ClaimsOf, ClearsAlone, Clock, TypeOK, rowVars, leaseVars,
       callVars
  <2>13. GrantedHeld'
    BY <1>6, CallTypes DEF DropClaim, ClaimsOf, GrantedHeld, Held, Slack, Clock, TypeOK,
       rowVars, leaseVars, callVars
  <2>14. KeptHeld'
    BY <1>6, CallTypes DEF DropClaim, ClaimsOf, KeptHeld, Held, Slack, Clock, TypeOK, rowVars,
       leaseVars, callVars
  <2> QED
    BY <2>10, <2>11, <2>12, <2>13, <2>14
<1>7. ASSUME NEW c \in claims, AcceptClaim(c)
      PROVE  LeaseInv'
  <2> USE DEF LeaseInv
  <2>1. \A n \in Node : Clock(n) \in Nat /\ Clock(n)' = Clock(n)
    BY <1>7, ClockBound DEF AcceptClaim, Clock
  <2>2. /\ c.node \in Node
        /\ c.session \in Session
        /\ c.at \in Nat
        /\ c.phase = "granted"
        /\ c.at <= Clock(c.node)
    BY <1>7, CallTypes DEF AcceptClaim, StampsOfClaims
  <2>3. /\ \A n \in Node : \A s \in owned'[n] : s \in owned[n] \/ (n = c.node /\ s = c.session)
        /\ deadline'[c.node][c.session] = c.at + TTL - Grace
        /\ \A n \in Node, s \in Session :
             ~(n = c.node /\ s = c.session) => deadline'[n][s] = deadline[n][s]
    <3>1. owned' = [owned EXCEPT ![c.node] = @ \cup {c.session}]
      BY <1>7 DEF AcceptClaim
    <3>2. deadline' = [deadline EXCEPT ![c.node][c.session] = LocalDeadline(c.at + TTL)]
      BY <1>7 DEF AcceptClaim
    <3>4. LocalDeadline(c.at + TTL) = c.at + TTL - Grace
      BY <2>2 DEF LocalDeadline
    <3>3. owned \in [Node -> SUBSET Session] /\ deadline \in [Node -> [Session -> Nat]]
      BY DEF TypeOK
    <3> QED
      BY <2>2, <3>1, <3>2, <3>3, <3>4
  <2>4. \A n \in Node : owned'[n] \subseteq Session
    BY DEF TypeOK
  <2>5. \A n \in Node, s \in Session : deadline[n][s] \in Nat
    BY DEF TypeOK
  <2>10. /\ StampsOfClears'
         /\ StampsOfRenewals'
         /\ ExtendedHeld'
    BY <1>7 DEF AcceptClaim, StampsOfClears, StampsOfRenewals, ExtendedHeld, Clock, rowVars,
       leaseVars, callVars
  <2>11. StampsOfClaims'
    BY <1>7, CallTypes DEF AcceptClaim, ClaimsOf, LocalDeadline, StampsOfClaims, Clock, TypeOK,
       rowVars, leaseVars, callVars
  <2>12. DeadlinesAhead'
    BY <2>1, <2>2, <2>3, <2>4, <2>5 DEF DeadlinesAhead
  <2>13. ClearsAlone'
    BY <1>7, CallTypes DEF AcceptClaim, ClaimsOf, LocalDeadline, ClearsAlone, Clock, TypeOK,
       rowVars, leaseVars, callVars
  <2>14. OwnedHeld'
    <3> SUFFICES ASSUME NEW n \in Node, NEW s \in owned'[n], deadline'[n][s] >= Clock(n)
                 PROVE  rowNode[s] = n /\ deadline'[n][s] + Slack <= rowLease[s]
      BY <1>7, <2>1 DEF OwnedHeld, Held, Slack, AcceptClaim, rowVars
    <3>1. CASE n = c.node /\ s = c.session
      <4>1. Held(n, s, c.at + TTL - Latency)
        BY <2>2, <2>3, <3>1 DEF GrantedHeld
      <4> QED
        BY <2>2, <2>3, <3>1, <4>1 DEF Held, Slack
    <3>2. CASE ~(n = c.node /\ s = c.session)
      BY <2>3, <2>4, <3>2 DEF OwnedHeld, Held
    <3> QED
      BY <3>1, <3>2
  <2>15. GrantedHeld'
    BY <1>7, CallTypes DEF AcceptClaim, ClaimsOf, LocalDeadline, GrantedHeld, Held, Slack,
       Clock, TypeOK, rowVars, leaseVars, callVars
  <2>16. KeptHeld'
    BY <1>7, CallTypes DEF AcceptClaim, ClaimsOf, LocalDeadline, KeptHeld, Held, Slack, Clock,
       TypeOK, rowVars, leaseVars, callVars
  <2> QED
    BY <2>10, <2>11, <2>12, <2>13, <2>14, <2>15, <2>16
<1>8. ASSUME NEW n \in Node, NEW s \in Session, HandBack(n, s)
      PROVE  LeaseInv'
  <2> USE DEF LeaseInv
  <2>1. \A m \in Node : Clock(m) \in Nat /\ Clock(m)' = Clock(m)
    BY <1>8, ClockBound DEF HandBack, Clock
  <2> DEFINE d == [node |-> n, session |-> s, at |-> Clock(n), lapsedToo |-> TRUE]
  <2>2. \A c \in clears' : c \in clears \/ (c.node = n /\ c.session = s /\ c.at = Clock(n))
    <3>1. clears' = clears \/ clears' = clears \cup {d}
      BY <1>8 DEF HandBack, leaseVars
    <3>2. d.node = n /\ d.session = s /\ d.at = Clock(n)
      OBVIOUS
    <3> HIDE DEF d
    <3>3. ASSUME NEW c \in clears'
          PROVE  c \in clears \/ c = d
      BY <3>1
    <3> QED
      BY <3>2, <3>3
  <2>3. \/ UNCHANGED <<owned, deadline, clears>>
        \/ /\ ClaimsOf(n, s) = {}
           /\ owned' = [owned EXCEPT ![n] = @ \ {s}]
           /\ deadline' = [deadline EXCEPT ![n][s] = 0]
    BY <1>8 DEF HandBack, leaseVars
  <2>4. \A m \in Node : \A t \in owned'[m] : /\ t \in owned[m]
                                           /\ t \in Session
                                           /\ deadline'[m][t] = deadline[m][t]
    BY <2>3 DEF TypeOK
  <2>5. claims' = claims /\ renewals' = renewals /\ rowNode' = rowNode /\ rowLease' = rowLease
    BY <1>8 DEF HandBack, rowVars
  <2>10. /\ StampsOfClaims'
         /\ StampsOfRenewals'
         /\ GrantedHeld'
         /\ ExtendedHeld'
    BY <1>8 DEF HandBack, StampsOfClaims, StampsOfRenewals, GrantedHeld, ExtendedHeld, Held,
       Clock, rowVars, leaseVars, callVars
  <2>11. StampsOfClears'
    BY <2>1, <2>2, CallTypes DEF StampsOfClears
  <2>12. DeadlinesAhead'
    BY <2>1, <2>4 DEF DeadlinesAhead
  <2>13. ClearsAlone'
    <3>1. CASE UNCHANGED <<owned, deadline, clears>>
      BY <2>5, <3>1 DEF ClearsAlone, ClaimsOf
    <3>2. CASE ClaimsOf(n, s) = {} /\ owned' = [owned EXCEPT ![n] = @ \ {s}]
      <4>1. s \notin owned'[n] /\ \A m \in Node : owned'[m] \subseteq owned[m]
        BY <3>2 DEF TypeOK
      <4> QED
        BY <2>2, <2>5, <3>2, <4>1, CallTypes DEF ClearsAlone, ClaimsOf
    <3> QED
      BY <2>3, <3>1, <3>2
  <2>14. OwnedHeld'
    BY <2>1, <2>4, <2>5 DEF OwnedHeld, Held, Slack
  <2>15. KeptHeld'
    BY <2>1, <2>4, <2>5, CallTypes DEF KeptHeld, ClaimsOf
  <2> QED
    BY <2>10, <2>11, <2>12, <2>13, <2>14, <2>15
<1>9. ASSUME NEW c \in clears, ExecuteClear(c)
      PROVE  LeaseInv'
  <2> USE DEF LeaseInv
  <2>1. \A n \in Node : Clock(n) \in Nat /\ Clock(n)' = Clock(n)
    BY <1>9, ClockBound DEF ExecuteClear, Clock
  <2>2. /\ c.node \in Node
        /\ c.session \in Session
        /\ c.session \notin owned[c.node]
        /\ ClaimsOf(c.node, c.session) = {}
    BY CallTypes DEF ClearsAlone
  <2>3. \A n \in Node, s \in Session : ~(n = c.node /\ s = c.session) => Kept(n, s)
    BY <1>9, ClearKeepsHeld DEF Kept
  <2>4. \A s \in Session : \/ rowNode'[s] = rowNode[s] /\ rowLease'[s] = rowLease[s]
                           \/ s = c.session /\ rowNode'[s] = NoNode
    BY <1>9, <2>2 DEF ExecuteClear, TypeOK
  <2>10. /\ StampsOfClaims'
         /\ StampsOfRenewals'
         /\ DeadlinesAhead'
    BY <1>9 DEF ExecuteClear, StampsOfClaims, StampsOfRenewals, DeadlinesAhead, Clock, rowVars,
       leaseVars, callVars
  <2>11. StampsOfClears'
    BY <1>9, CallTypes DEF ExecuteClear, ClaimsOf, StampsOfClears, Clock, TypeOK, rowVars,
       leaseVars, callVars
  <2>12. ClearsAlone'
    BY <1>9, CallTypes DEF ExecuteClear, ClaimsOf, ClearsAlone, Clock, TypeOK, rowVars,
       leaseVars, callVars
  <2>13. OwnedHeld'
    <3>1. \A n \in Node : owned[n] \subseteq Session
      BY DEF TypeOK
    <3> QED
      BY <1>9, <2>2, <2>3, <3>1, OwnedHeldKept DEF ExecuteClear, leaseVars
  <2>14. GrantedHeld'
    <3>1. ASSUME NEW e \in claims, e.phase = "granted", e.at + TTL - Grace >= Clock(e.node)
          PROVE  Held(e.node, e.session, e.at + TTL - Latency)'
      <4>1. ~(e.node = c.node /\ e.session = c.session)
        BY <2>2 DEF ClaimsOf
      <4> QED
        BY <2>3, <3>1, <4>1, GrantedHeldKept, CallTypes
    <3> QED
      BY <1>9, <2>1, <3>1, CallTypes DEF GrantedHeld, ExecuteClear
  <2>15. ExtendedHeld'
    <3>1. \A r \in renewals : r.node # NoNode /\ r.live \subseteq Session
      BY ConstantsAssumption, CallTypes
    <3> QED
      BY <1>9, <2>4, <3>1 DEF ExtendedHeld, ExecuteClear
  <2>16. KeptHeld'
    <3> SUFFICES ASSUME NEW r \in renewals, NEW s \in r.live \cap r.kept,
                        r.phase = "answer", r.until - Grace >= Clock(r.node)
                 PROVE  \/ rowNode'[s] = r.node
                        \/ /\ s \notin owned[r.node]
                           /\ \A e \in ClaimsOf(r.node, s) : e.phase = "sent"
      BY <1>9, <2>1, CallTypes DEF KeptHeld, ClaimsOf, ExecuteClear, leaseVars
    <3>1. r.node \in Node /\ s \in Session
      BY CallTypes
    <3>2. CASE r.node = c.node /\ s = c.session
      BY <2>2, <3>2
    <3>3. CASE ~(r.node = c.node /\ s = c.session) /\ rowNode[s] = r.node
      BY <2>3, <3>1, <3>3, RenewedKept
    <3>4. CASE rowNode[s] # r.node
      BY <3>4 DEF KeptHeld
    <3> QED
      BY <3>2, <3>3, <3>4
  <2> QED
    BY <2>10, <2>11, <2>12, <2>13, <2>14, <2>15, <2>16
<1>10. ASSUME NEW n \in Node, ExpireLocalLeases(n)
       PROVE  LeaseInv'
  <2> USE DEF LeaseInv
  <2>10. /\ StampsOfClaims'
         /\ StampsOfClears'
         /\ StampsOfRenewals'
         /\ GrantedHeld'
         /\ ExtendedHeld'
    BY <1>10 DEF ExpireLocalLeases, StampsOfClaims, StampsOfClears, StampsOfRenewals,
       GrantedHeld, ExtendedHeld, Held, Clock, rowVars, leaseVars, callVars
  <2>11. DeadlinesAhead'
    BY <1>10, CallTypes DEF ExpireLocalLeases, LoseSessions, DeadlinesAhead, Clock, TypeOK,
       rowVars, leaseVars, callVars
  <2>12. ClearsAlone'
    BY <1>10, CallTypes DEF ExpireLocalLeases, LoseSessions, ClearsAlone, ClaimsOf, Clock,
       TypeOK, rowVars, leaseVars, callVars
  <2>13. OwnedHeld'
    BY <1>10, CallTypes DEF ExpireLocalLeases, LoseSessions, OwnedHeld, Held, Slack, Clock,
       TypeOK, rowVars, leaseVars, callVars
  <2>14. KeptHeld'
    BY <1>10, CallTypes DEF ExpireLocalLeases, LoseSessions, KeptHeld, Held, Slack, ClaimsOf,
       Clock, TypeOK, rowVars, leaseVars, callVars
  <2> QED
    BY <2>10, <2>11, <2>12, <2>13, <2>14
<1>11. ASSUME NEW n \in Node, BeginRenew(n)
       PROVE  LeaseInv'
  <2> USE DEF LeaseInv
  <2>1. \A m \in Node : Clock(m) \in Nat /\ Clock(m)' = Clock(m)
    BY <1>11, ClockBound DEF BeginRenew, Clock
  <2>10. /\ StampsOfClaims'
         /\ StampsOfClears'
         /\ DeadlinesAhead'
         /\ ClearsAlone'
         /\ OwnedHeld'
         /\ GrantedHeld'
    BY <1>11 DEF BeginRenew, StampsOfClaims, StampsOfClears, DeadlinesAhead, ClearsAlone,
       OwnedHeld, GrantedHeld, ClaimsOf, Held, Clock, rowVars, leaseVars, callVars
  <2>11. StampsOfRenewals'
    <3> DEFINE live == {s \in owned[n] : EngineActive(n, s)}
               q == [node |-> n, held |-> owned[n], live |-> live, until |-> Clock(n) + TTL,
                     phase |-> IF live = {} THEN "find" ELSE "update", kept |-> {}]
    <3>1. renewals' = renewals \cup {q}
      BY <1>11 DEF BeginRenew
    <3>2. q.node = n /\ q.until = Clock(n) + TTL
      OBVIOUS
    <3> HIDE DEF q
    <3> QED
      BY <2>1, <3>1, <3>2, CallTypes DEF StampsOfRenewals
  <2>12. ExtendedHeld'
    BY <1>11, CallTypes DEF BeginRenew, ExtendedHeld, Held, Slack, Clock, TypeOK, rowVars,
       leaseVars, callVars
  <2>13. KeptHeld'
    BY <1>11, CallTypes DEF BeginRenew, KeptHeld, Held, Slack, ClaimsOf, Clock, TypeOK, rowVars,
       leaseVars, callVars
  <2> QED
    BY <2>10, <2>11, <2>12, <2>13
<1>12. ASSUME NEW r \in renewals, ExecuteRenew(r)
       PROVE  LeaseInv'
  <2> USE DEF LeaseInv
  <2>1. \A n \in Node : Clock(n) \in Nat /\ Clock(n)' = Clock(n)
    BY <1>12, ClockBound DEF ExecuteRenew, Clock
  <2> DEFINE q == [r EXCEPT !.phase = "find"]
  <2>2. /\ r.node \in Node
        /\ r.live \subseteq Session
        /\ r.until \in Nat
        /\ r.phase = "update"
        /\ Clock(r.node) + TTL <= r.until + Latency
    BY <1>12, CallTypes DEF ExecuteRenew, StampsOfRenewals
  <2>3. /\ q.node = r.node
        /\ q.live = r.live
        /\ q.until = r.until
        /\ q.phase = "find"
    BY DEF TypeOK, RenewCall
  <2>4. renewals' = (renewals \ {r}) \cup {q}
    BY <1>12 DEF ExecuteRenew
  <2>5. \A n \in Node, s \in Session : Kept(n, s)
    BY <1>12, RenewKeepsHeld DEF Kept
  <2>6. \A s \in Session :
          /\ rowNode'[s] = rowNode[s]
          /\ rowLease[s] \in Nat
          /\ rowLease'[s] = IF s \in r.live /\ rowNode[s] = r.node THEN r.until ELSE rowLease[s]
    BY <1>12 DEF ExecuteRenew, Extends, TypeOK
  <2> HIDE DEF q
  <2>10. /\ StampsOfClaims'
         /\ StampsOfClears'
         /\ DeadlinesAhead'
         /\ ClearsAlone'
    BY <1>12 DEF ExecuteRenew, StampsOfClaims, StampsOfClears, DeadlinesAhead, ClearsAlone,
       ClaimsOf, Clock, rowVars, leaseVars, callVars
  <2>11. StampsOfRenewals'
    BY <2>1, <2>2, <2>3, <2>4, CallTypes DEF StampsOfRenewals
  <2>12. OwnedHeld'
    <3>1. \A n \in Node : owned[n] \subseteq Session
      BY DEF TypeOK
    <3> QED
      BY <1>12, <2>5, <3>1, OwnedHeldKept DEF ExecuteRenew, leaseVars
  <2>13. GrantedHeld'
    <3>1. ASSUME NEW e \in claims, e.phase = "granted", e.at + TTL - Grace >= Clock(e.node)
          PROVE  Held(e.node, e.session, e.at + TTL - Latency)'
      BY <2>5, <3>1, GrantedHeldKept, CallTypes
    <3> QED
      BY <1>12, <2>1, <3>1, CallTypes DEF GrantedHeld, ExecuteRenew
  <2>14. ExtendedHeld'
    <3> SUFFICES ASSUME NEW p \in renewals', NEW s \in p.live,
                        p.phase # "update", rowNode'[s] = p.node
                 PROVE  p.until <= rowLease'[s] + Latency
      BY DEF ExtendedHeld
    <3>1. p \in renewals \/ p = q
      BY <2>4
    <3>2. s \in Session /\ p.node \in Node /\ p.until \in Nat
      BY <2>2, <2>3, <3>1, CallTypes
    <3>3. CASE s \in r.live /\ rowNode[s] = r.node
      <4>1. p.until <= Clock(r.node) + TTL
        BY <2>2, <2>3, <2>6, <3>1, <3>2, <3>3 DEF StampsOfRenewals
      <4> QED
        BY <2>1, <2>2, <2>6, <3>2, <3>3, <4>1
    <3>4. CASE ~(s \in r.live /\ rowNode[s] = r.node)
      BY <2>3, <2>6, <3>1, <3>2, <3>4 DEF ExtendedHeld
    <3> QED
      BY <3>3, <3>4
  <2>15. KeptHeld'
    <3>1. \A p \in renewals' : p.phase = "answer" => p \in renewals
      BY <2>3, <2>4
    <3> QED
      BY <1>12, <2>1, <2>6, <3>1, CallTypes DEF KeptHeld, ClaimsOf, ExecuteRenew, leaseVars
  <2> QED
    BY <2>10, <2>11, <2>12, <2>13, <2>14, <2>15
<1>13. ASSUME NEW r \in renewals, FindKept(r)
       PROVE  LeaseInv'
  <2> USE DEF LeaseInv
  <2>1. \A n \in Node : Clock(n) \in Nat /\ Clock(n)' = Clock(n)
    BY <1>13, ClockBound DEF FindKept, Clock
  <2> DEFINE q == [r EXCEPT !.phase = "answer", !.kept = {s \in r.held : rowNode[s] = r.node}]
  <2>2. r.node \in Node /\ r.until \in Nat /\ r.phase = "find"
    BY <1>13, CallTypes DEF FindKept
  <2>3. /\ q.node = r.node
        /\ q.live = r.live
        /\ q.until = r.until
        /\ q.phase = "answer"
        /\ q.kept = {s \in r.held : rowNode[s] = r.node}
    BY DEF TypeOK, RenewCall
  <2>4. renewals' = (renewals \ {r}) \cup {q}
    BY <1>13 DEF FindKept
  <2> HIDE DEF q
  <2>10. /\ StampsOfClaims'
         /\ StampsOfClears'
         /\ DeadlinesAhead'
         /\ ClearsAlone'
         /\ OwnedHeld'
         /\ GrantedHeld'
    BY <1>13 DEF FindKept, StampsOfClaims, StampsOfClears, DeadlinesAhead, ClearsAlone,
       OwnedHeld, GrantedHeld, ClaimsOf, Held, Clock, rowVars, leaseVars, callVars
  <2>11. StampsOfRenewals'
    BY <2>1, <2>2, <2>3, <2>4, CallTypes DEF StampsOfRenewals
  <2>12. ExtendedHeld'
    BY <1>13, <2>2, <2>3, <2>4 DEF ExtendedHeld, FindKept, rowVars
  <2>13. KeptHeld'
    <3> SUFFICES ASSUME NEW p \in renewals', NEW s \in p.live \cap p.kept,
                        p.phase = "answer", p.until - Grace >= Clock(p.node)
                 PROVE  \/ rowNode[s] = p.node
                        \/ /\ s \notin owned[p.node]
                           /\ \A e \in ClaimsOf(p.node, s) : e.phase = "sent"
      <4>1. \A p \in renewals' : p.node \in Node
        BY <2>2, <2>3, <2>4, CallTypes
      <4>2. rowNode' = rowNode /\ owned' = owned /\ claims' = claims
        BY <1>13 DEF FindKept, rowVars, leaseVars
      <4> QED
        BY <2>1, <4>1, <4>2 DEF KeptHeld, ClaimsOf
    <3>1. CASE p \in renewals
      BY <3>1 DEF KeptHeld
    <3>2. CASE p = q
      BY <2>3, <3>2
    <3> QED
      BY <2>4, <3>1, <3>2
  <2> QED
    BY <2>10, <2>11, <2>12, <2>13
<1>14. ASSUME NEW r \in renewals, ConcludeRenew(r)
       PROVE  LeaseInv'
  <2> USE DEF LeaseInv
  <2>1. \A n \in Node : Clock(n) \in Nat /\ Clock(n)' = Clock(n)
    BY <1>14, ClockBound DEF ConcludeRenew, Clock
  <2>2. /\ r.node \in Node
        /\ r.until \in Nat
        /\ r.until >= TTL
        /\ r.phase = "answer"
        /\ r.until <= Clock(r.node) + TTL
    BY <1>14, CallTypes DEF ConcludeRenew, StampsOfRenewals
  <2>3. \A n \in Node : \A s \in owned'[n] :
          /\ s \in Session
          /\ s \in owned[n]
          /\ \/ deadline'[n][s] = deadline[n][s]
             \/ n = r.node /\ s \in r.live \cap r.kept /\ deadline'[n][s] = r.until - Grace
    BY <1>14, <2>2 DEF ConcludeRenew, Acknowledged, LocalDeadline, TypeOK
  <2>4. \A n \in Node, s \in Session : deadline[n][s] \in Nat /\ rowLease[s] \in Nat
    BY DEF TypeOK
  <2>10. /\ StampsOfClaims'
         /\ StampsOfClears'
         /\ GrantedHeld'
    BY <1>14 DEF ConcludeRenew, StampsOfClaims, StampsOfClears, GrantedHeld, Held, Clock,
       rowVars, leaseVars, callVars
  <2>11. StampsOfRenewals'
    BY <1>14, CallTypes DEF ConcludeRenew, Acknowledged, LocalDeadline, StampsOfRenewals, Clock,
       TypeOK,
       rowVars, leaseVars, callVars
  <2>12. DeadlinesAhead'
    BY <2>1, <2>2, <2>3, <2>4 DEF DeadlinesAhead
  <2>13. ClearsAlone'
    BY <1>14, CallTypes DEF ConcludeRenew, Acknowledged, LocalDeadline, ClearsAlone, ClaimsOf,
       Clock, TypeOK,
       rowVars, leaseVars, callVars
  <2>14. OwnedHeld'
    <3> SUFFICES ASSUME NEW n \in Node, NEW s \in owned'[n], deadline'[n][s] >= Clock(n)
                 PROVE  rowNode[s] = n /\ deadline'[n][s] + Slack <= rowLease[s]
      BY <1>14, <2>1 DEF OwnedHeld, Held, Slack, ConcludeRenew, Acknowledged, rowVars
    <3>1. CASE deadline'[n][s] = deadline[n][s]
      BY <2>3, <3>1 DEF OwnedHeld, Held
    <3>2. CASE n = r.node /\ s \in r.live \cap r.kept /\ deadline'[n][s] = r.until - Grace
      <4>1. rowNode[s] = n
        BY <2>2, <2>3, <3>2 DEF KeptHeld
      <4>2. r.until <= rowLease[s] + Latency
        BY <2>2, <3>2, <4>1 DEF ExtendedHeld
      <4> QED
        BY <2>2, <2>3, <2>4, <3>2, <4>1, <4>2 DEF Slack
    <3> QED
      BY <2>3, <3>1, <3>2
  <2>15. ExtendedHeld'
    BY <1>14, CallTypes DEF ConcludeRenew, Acknowledged, LocalDeadline, ExtendedHeld, Held,
       Slack, Clock,
       TypeOK, rowVars, leaseVars, callVars
  <2>16. KeptHeld'
    BY <1>14, CallTypes DEF ConcludeRenew, Acknowledged, LocalDeadline, KeptHeld, Held, Slack,
       ClaimsOf,
       Clock, TypeOK, rowVars, leaseVars, callVars
  <2> QED
    BY <2>10, <2>11, <2>12, <2>13, <2>14, <2>15, <2>16
<1>15. ASSUME NEW r \in renewals, FailRenew(r)
       PROVE  LeaseInv'
  <2> USE DEF LeaseInv
  <2>10. /\ StampsOfClaims'
         /\ StampsOfClears'
         /\ GrantedHeld'
    BY <1>15 DEF FailRenew, StampsOfClaims, StampsOfClears, GrantedHeld, Held, Clock, rowVars,
       leaseVars, callVars
  <2>11. StampsOfRenewals'
    BY <1>15, CallTypes DEF FailRenew, LoseSessions, StampsOfRenewals, Clock, TypeOK, rowVars,
       leaseVars, callVars
  <2>12. DeadlinesAhead'
    BY <1>15, CallTypes DEF FailRenew, LoseSessions, DeadlinesAhead, Clock, TypeOK, rowVars,
       leaseVars, callVars
  <2>13. ClearsAlone'
    BY <1>15, CallTypes DEF FailRenew, LoseSessions, ClearsAlone, ClaimsOf, Clock, TypeOK,
       rowVars, leaseVars, callVars
  <2>14. OwnedHeld'
    BY <1>15, CallTypes DEF FailRenew, LoseSessions, OwnedHeld, Held, Slack, Clock, TypeOK,
       rowVars, leaseVars, callVars
  <2>15. ExtendedHeld'
    BY <1>15, CallTypes DEF FailRenew, LoseSessions, ExtendedHeld, Held, Slack, Clock, TypeOK,
       rowVars, leaseVars, callVars
  <2>16. KeptHeld'
    BY <1>15, CallTypes DEF FailRenew, LoseSessions, KeptHeld, Held, Slack, ClaimsOf, Clock,
       TypeOK, rowVars, leaseVars, callVars
  <2> QED
    BY <2>10, <2>11, <2>12, <2>13, <2>14, <2>15, <2>16
<1>16. ASSUME NEW n \in Node, ReleaseAll(n)
       PROVE  LeaseInv'
  <2> USE DEF LeaseInv
  <2>10. /\ StampsOfClaims'
         /\ StampsOfRenewals'
         /\ GrantedHeld'
         /\ ExtendedHeld'
    BY <1>16 DEF ReleaseAll, StampsOfClaims, StampsOfRenewals, GrantedHeld, ExtendedHeld, Held,
       Clock, rowVars, leaseVars, callVars
  <2>11. StampsOfClears'
    <3>1. \A m \in Node : Clock(m) \in Nat /\ Clock(m)' = Clock(m)
      BY <1>16, ClockBound DEF ReleaseAll, Clock
    <3> DEFINE d(s) == [node |-> n, session |-> s, at |-> Clock(n), lapsedToo |-> FALSE]
    <3>2. \A c \in clears' : c \in clears \/ \E s \in owned[n] : c = d(s)
      BY <1>16 DEF ReleaseAll
    <3>3. \A s \in owned[n] : d(s).node = n /\ d(s).at = Clock(n)
      OBVIOUS
    <3> HIDE DEF d
    <3> QED
      BY <3>1, <3>2, <3>3, CallTypes DEF StampsOfClears
  <2>12. DeadlinesAhead'
    BY <1>16, CallTypes DEF ReleaseAll, ClaimsOf, DeadlinesAhead, Clock, TypeOK, rowVars,
       leaseVars, callVars
  <2>13. ClearsAlone'
    BY <1>16, CallTypes DEF ReleaseAll, ClaimsOf, ClearsAlone, Clock, TypeOK, rowVars,
       leaseVars, callVars
  <2>14. OwnedHeld'
    BY <1>16, CallTypes DEF ReleaseAll, ClaimsOf, OwnedHeld, Held, Slack, Clock, TypeOK,
       rowVars, leaseVars, callVars
  <2>15. KeptHeld'
    BY <1>16, CallTypes DEF ReleaseAll, ClaimsOf, KeptHeld, Held, Slack, Clock, TypeOK, rowVars,
       leaseVars, callVars
  <2> QED
    BY <2>10, <2>11, <2>12, <2>13, <2>14, <2>15
<1>17. ASSUME NEW n \in Node, Restart(n)
       PROVE  LeaseInv'
  <2> USE DEF LeaseInv
  <2>10. StampsOfClaims'
    BY <1>17, CallTypes DEF Restart, ClaimsOf, StampsOfClaims, Clock, TypeOK, rowVars,
       leaseVars, callVars
  <2>11. StampsOfClears'
    BY <1>17, CallTypes DEF Restart, ClaimsOf, StampsOfClears, Clock, TypeOK, rowVars,
       leaseVars, callVars
  <2>12. StampsOfRenewals'
    BY <1>17, CallTypes DEF Restart, ClaimsOf, StampsOfRenewals, Clock, TypeOK, rowVars,
       leaseVars, callVars
  <2>13. DeadlinesAhead'
    BY <1>17, CallTypes DEF Restart, ClaimsOf, DeadlinesAhead, Clock, TypeOK, rowVars,
       leaseVars, callVars
  <2>14. ClearsAlone'
    BY <1>17, CallTypes DEF Restart, ClaimsOf, ClearsAlone, Clock, TypeOK, rowVars, leaseVars,
       callVars
  <2>15. OwnedHeld'
    BY <1>17, CallTypes DEF Restart, ClaimsOf, OwnedHeld, Held, Slack, Clock, TypeOK, rowVars,
       leaseVars, callVars
  <2>16. GrantedHeld'
    BY <1>17, CallTypes DEF Restart, ClaimsOf, GrantedHeld, Held, Slack, Clock, TypeOK, rowVars,
       leaseVars, callVars
  <2>17. ExtendedHeld'
    BY <1>17, CallTypes DEF Restart, ClaimsOf, ExtendedHeld, Held, Slack, Clock, TypeOK,
       rowVars, leaseVars, callVars
  <2>18. KeptHeld'
    BY <1>17, CallTypes DEF Restart, ClaimsOf, KeptHeld, Held, Slack, Clock, TypeOK, rowVars,
       leaseVars, callVars
  <2> QED
    BY <2>10, <2>11, <2>12, <2>13, <2>14, <2>15, <2>16, <2>17, <2>18
<1>18. CASE Tick
  <2> USE DEF LeaseInv
  <2>1. \A n \in Node : Clock(n) \in Nat /\ Clock(n)' = Clock(n) + 1
    <3>1. \A n \in Node : Offset[n] \in Nat
      BY ConstantsAssumption
    <3>2. now \in Nat /\ now' = now + 1
      BY <1>18 DEF Tick, TypeOK
    <3> QED
      BY <3>1, <3>2 DEF Clock
  <2>2. /\ rowNode' = rowNode
        /\ rowLease' = rowLease
        /\ owned' = owned
        /\ deadline' = deadline
        /\ claims' = claims
        /\ clears' = clears
        /\ renewals' = renewals
    BY <1>18 DEF Tick, rowVars, leaseVars, callVars
  <2>3. /\ \A n \in Node, s \in Session : deadline[n][s] \in Nat
        /\ \A n \in Node : owned[n] \subseteq Session
    BY DEF TypeOK
  <2>10. /\ ClearsAlone'
         /\ ExtendedHeld'
    BY <1>18 DEF Tick, ClearsAlone, ExtendedHeld, ClaimsOf, Clock, rowVars, leaseVars, callVars
  <2>11. StampsOfClaims'
    BY <1>18, <2>1, <2>2, CallTypes DEF Tick, StampsOfClaims
  <2>12. StampsOfClears'
    BY <1>18, <2>1, <2>2, CallTypes DEF Tick, StampsOfClears
  <2>13. StampsOfRenewals'
    BY <1>18, <2>1, <2>2, CallTypes DEF Tick, StampsOfRenewals
  <2>14. DeadlinesAhead'
    BY <2>1, <2>2, <2>3, CallTypes DEF DeadlinesAhead
  <2>15. OwnedHeld'
    BY <2>1, <2>2, <2>3, CallTypes DEF OwnedHeld, Held, Slack
  <2>16. GrantedHeld'
    BY <2>1, <2>2, CallTypes DEF GrantedHeld, Held
  <2>17. KeptHeld'
    BY <2>1, <2>2, CallTypes DEF KeptHeld, ClaimsOf
  <2> QED
    BY <2>10, <2>11, <2>12, <2>13, <2>14, <2>15, <2>16, <2>17
<1> QED
  BY <1>1, <1>2, <1>3, <1>4, <1>5, <1>6, <1>7, <1>8, <1>9, <1>10, <1>11, <1>12, <1>13, <1>14,
     <1>15, <1>16, <1>17, <1>18 DEF Next

(* The leases are sound whenever the skew and the latency fit in the grace. *)
THEOREM LeasesInvariant ==
  ASSUME Serial, Latency + Skew <= Grace
  PROVE  Spec => []LeaseInv
<1>1. LeaseInv /\ TypeOK' /\ [Next]_vars => LeaseInv'
  BY LeaseStep
<1> QED
  BY <1>1, LeaseInit, TypeCorrect, PTL DEF Spec

(* The fence owns() never passes on two nodes at once, however long        *)
(* answers, teardowns and timers take: it compares with the clock.         *)
THEOREM OwnsExclusiveAlways ==
  ASSUME Serial, Latency + Skew <= Grace
  PROVE  Spec => []OwnsExclusive
<1>1. LeaseInv => OwnsExclusive
  <2> SUFFICES ASSUME LeaseInv, NEW s \in Session, NEW m \in Node, NEW n \in Node,
                      Owns(m, s), Owns(n, s)
               PROVE  m = n
    BY DEF OwnsExclusive
  <2>1. ASSUME NEW k \in Node, Owns(k, s)
        PROVE  rowNode[s] = k
    <3>1. deadline[k][s] \in Nat /\ Clock(k) \in Nat
      BY ClockBound DEF LeaseInv, TypeOK
    <3> QED
      BY <2>1, <3>1 DEF LeaseInv, OwnedHeld, Owns, Held
  <2> QED
    BY <2>1
<1> QED
  BY <1>1, LeasesInvariant, PTL

(* Whoever passes the fence is named by the row, and the row's lease       *)
(* outlasts its local deadline by the grace period less a slow UPDATE.     *)
THEOREM OwnsBackedAlways ==
  ASSUME Serial, Latency + Skew <= Grace
  PROVE  Spec => []OwnsBacked
<1>1. LeaseInv => OwnsBacked
  <2> SUFFICES ASSUME LeaseInv, NEW n \in Node, NEW s \in Session, Owns(n, s)
               PROVE  rowNode[s] = n /\ deadline[n][s] + Grace <= rowLease[s] + Latency
    BY DEF OwnsBacked
  <2>1. /\ deadline[n][s] \in Nat
        /\ rowLease[s] \in Nat
        /\ Clock(n) \in Nat
    BY ClockBound DEF LeaseInv, TypeOK
  <2>2. Held(n, s, deadline[n][s] + Slack)
    BY <2>1 DEF LeaseInv, OwnedHeld, Owns
  <2> QED
    BY <2>1, <2>2, ConstantTypes, GraceBound DEF Held, Slack
<1> QED
  BY <1>1, LeasesInvariant, PTL

-----------------------------------------------------------------------------
(* What the leases and the teardown guarantee about engines.               *)

(* Every step that opens no engine and touches neither a row nor the       *)
(* clock: engines stay, close, or are gone, and only idle sessions are     *)
(* released.                                                               *)
LEMMA EngineTurn ==
  ASSUME LeaseInv, TypeOK', EngineInv, Teardown + Latency + Skew <= Grace,
         UNCHANGED <<now, rowVars>>,
         \A n \in Node, s \in Session :
           /\ engine'[n][s] = "live" => engine[n][s] = "live" /\ s \in owned'[n]
           /\ engine'[n][s] = "closing" =>
                \/ engine[n][s] = "closing" /\ closeBy'[n][s] = closeBy[n][s]
                \/ engine[n][s] = "live" /\ closeBy'[n][s] = Clock(n) + Teardown
           /\ mode'[n] = "draining" => mode[n] = "draining" \/ engine'[n][s] # "live",
         \A c \in clears' : c \in clears \/ engine[c.node][c.session] \notin {"live", "closing"}
  PROVE  EngineInv'
<1> USE ConstantTypes, GraceBound
<1>1. \A n \in Node : Clock(n) \in Nat /\ Clock(n)' = Clock(n)
  BY ClockBound DEF LeaseInv, Clock
<1>2. rowNode' = rowNode /\ rowLease' = rowLease
  BY DEF rowVars
<1>3. \A s \in Session : rowLease[s] \in Nat
  BY DEF LeaseInv, TypeOK
<1>4. \A c \in clears' : c.node \in Node /\ c.session \in Session
  BY DEF TypeOK, ClearCall
<1>5. ClearsIdle'
  BY <1>4 DEF EngineInv, ClearsIdle
<1>6. LiveHeld'
  BY <1>1, <1>2 DEF EngineInv, LiveHeld, Held, Slack
<1>7. ClosingHeld'
  <2> SUFFICES ASSUME NEW n \in Node, NEW s \in Session, engine'[n][s] = "closing"
               PROVE  /\ Clock(n) <= closeBy'[n][s]
                      /\ closeBy'[n][s] <= Clock(n) + Teardown
                      /\ rowNode[s] = n
                      /\ closeBy'[n][s] + Skew <= rowLease[s]
    BY <1>1, <1>2 DEF ClosingHeld, Held
  <2>1. CASE engine[n][s] = "closing" /\ closeBy'[n][s] = closeBy[n][s]
    BY <2>1 DEF EngineInv, ClosingHeld, Held
  <2>2. CASE engine[n][s] = "live" /\ closeBy'[n][s] = Clock(n) + Teardown
    BY <1>1, <1>3, <2>2 DEF EngineInv, LiveHeld, Held, Slack
  <2> QED
    BY <2>1, <2>2
<1>8. DrainingNotLive'
  BY DEF EngineInv, DrainingNotLive
<1> QED
  BY <1>5, <1>6, <1>7, <1>8 DEF EngineInv

(* A query executes: the rows that running engines rely on survive it.     *)
LEMMA EngineRow ==
  ASSUME LeaseInv, EngineInv, Teardown + Latency + Skew <= Grace,
         UNCHANGED <<now, mode, owned, engine, closeBy>>,
         clears' \subseteq clears,
         \A n \in Node, s \in Session : engine[n][s] \in {"live", "closing"} => Kept(n, s)
  PROVE  EngineInv'
<1> USE ConstantTypes, GraceBound
<1>1. \A n \in Node : Clock(n) \in Nat /\ Clock(n)' = Clock(n)
  BY ClockBound DEF LeaseInv, Clock
<1>2. \A n \in Node, s \in Session : closeBy[n][s] \in Nat
  BY DEF LeaseInv, TypeOK
<1>3. ClearsIdle' /\ DrainingNotLive'
  BY DEF EngineInv, ClearsIdle, DrainingNotLive
<1>4. LiveHeld'
  <2> SUFFICES ASSUME NEW n \in Node, NEW s \in Session, engine[n][s] = "live"
               PROVE  s \in owned[n] /\ rowNode'[s] = n /\ Clock(n) + Slack <= rowLease'[s]
    BY <1>1 DEF LiveHeld, Held, Slack
  <2>1. s \in owned[n] /\ Held(n, s, Clock(n) + Slack)
    BY DEF EngineInv, LiveHeld
  <2>2. /\ Clock(n) + Slack \in Int
        /\ Clock(n) + Skew <= Clock(n) + Slack
        /\ Clock(n) + Slack <= Clock(n) + TTL - Latency
    BY <1>1 DEF Slack
  <2> QED
    BY <2>1, <2>2 DEF Kept, Held
<1>5. ClosingHeld'
  <2> SUFFICES ASSUME NEW n \in Node, NEW s \in Session, engine[n][s] = "closing"
               PROVE  /\ Clock(n) <= closeBy[n][s]
                      /\ closeBy[n][s] <= Clock(n) + Teardown
                      /\ rowNode'[s] = n
                      /\ closeBy[n][s] + Skew <= rowLease'[s]
    BY <1>1 DEF ClosingHeld, Held
  <2>1. /\ Clock(n) <= closeBy[n][s]
        /\ closeBy[n][s] <= Clock(n) + Teardown
        /\ Held(n, s, closeBy[n][s] + Skew)
    BY DEF EngineInv, ClosingHeld
  <2>2. /\ closeBy[n][s] + Skew \in Int
        /\ Clock(n) + Skew <= closeBy[n][s] + Skew
        /\ closeBy[n][s] + Skew <= Clock(n) + TTL - Latency
    BY <1>1, <1>2, <2>1
  <2> QED
    BY <2>1, <2>2 DEF Kept, Held
<1> QED
  BY <1>3, <1>4, <1>5 DEF EngineInv

(* An engine that is launched is on a row its node holds.                  *)
LEMMA LaunchKeepsEngines ==
  ASSUME LeaseInv, EngineInv, Serial, Latency + Skew <= Grace,
         NEW n \in Node, NEW s \in Session, Launch(n, s)
  PROVE  EngineInv'
<1> USE ConstantTypes, GraceBound
<1>1. \A m \in Node : Clock(m) \in Nat /\ Clock(m)' = Clock(m)
  BY ClockBound DEF LeaseInv, Clock, Launch
<1>2. /\ \A m \in Node, t \in Session :
           engine'[m][t] = IF m = n /\ t = s THEN "live" ELSE engine[m][t]
      /\ closeBy' = closeBy
      /\ rowNode' = rowNode
      /\ rowLease' = rowLease
      /\ owned' = owned
      /\ clears' = clears
      /\ mode' = mode
  BY DEF Launch, LeaseInv, TypeOK, rowVars, leaseVars, callVars
<1>3. s \in owned[n] /\ deadline[n][s] > Clock(n)
  BY DEF Launch, Owns
<1>4. ClearsIdle'
  BY <1>2, <1>3, CallTypes DEF EngineInv, ClearsIdle, LeaseInv, ClearsAlone
<1>5. LiveHeld'
  <2>1. deadline[n][s] \in Nat /\ rowLease[s] \in Nat
    BY DEF LeaseInv, TypeOK
  <2>2. Held(n, s, deadline[n][s] + Slack)
    BY <1>1, <1>3, <2>1 DEF LeaseInv, OwnedHeld
  <2>3. rowNode[s] = n /\ Clock(n) + Slack <= rowLease[s]
    BY <1>1, <1>3, <2>1, <2>2 DEF Held, Slack
  <2> QED
    BY <1>1, <1>2, <1>3, <2>3 DEF EngineInv, LiveHeld, Held, Slack
<1>6. ClosingHeld'
  BY <1>1, <1>2 DEF EngineInv, ClosingHeld, Held
<1>7. DrainingNotLive'
  BY <1>2 DEF EngineInv, DrainingNotLive, Launch, Admits
<1> QED
  BY <1>4, <1>5, <1>6, <1>7 DEF EngineInv

(* Time does not catch up with an engine: its lease outlasts its teardown. *)
LEMMA TickKeepsEngines ==
  ASSUME LeaseInv, EngineInv, Prompt, Latency + Skew <= Grace, Tick
  PROVE  EngineInv'
<1> USE ConstantTypes, GraceBound
<1>1. \A n \in Node : Clock(n) \in Nat /\ Clock(n)' = Clock(n) + 1
  <2>1. \A n \in Node : Offset[n] \in Nat
    BY ConstantsAssumption
  <2>2. now \in Nat /\ now' = now + 1
    BY DEF Tick, LeaseInv, TypeOK
  <2> QED
    BY <2>1, <2>2 DEF Clock
<1>2. /\ rowNode' = rowNode
      /\ rowLease' = rowLease
      /\ owned' = owned
      /\ clears' = clears
      /\ engine' = engine
      /\ closeBy' = closeBy
      /\ mode' = mode
  BY DEF Tick, rowVars, leaseVars, callVars, engineVars
<1>3. /\ \A n \in Node, s \in Session : deadline[n][s] \in Nat /\ closeBy[n][s] \in Nat
      /\ \A s \in Session : rowLease[s] \in Nat
  BY DEF LeaseInv, TypeOK
<1>4. ClearsIdle' /\ DrainingNotLive'
  BY <1>2 DEF EngineInv, ClearsIdle, DrainingNotLive
<1>5. LiveHeld'
  <2> SUFFICES ASSUME NEW n \in Node, NEW s \in Session, engine[n][s] = "live"
               PROVE  s \in owned[n] /\ rowNode[s] = n /\ Clock(n) + 1 + Slack <= rowLease[s]
    BY <1>1, <1>2 DEF LiveHeld, Held, Slack
  <2>1. s \in owned[n]
    BY DEF EngineInv, LiveHeld
  <2>2. deadline[n][s] > Clock(n)
    BY <1>1, <1>3, <2>1 DEF Tick, Expired
  <2>3. Held(n, s, deadline[n][s] + Slack)
    BY <1>1, <1>3, <2>1, <2>2 DEF LeaseInv, OwnedHeld
  <2> QED
    BY <1>1, <1>3, <2>1, <2>2, <2>3 DEF Held, Slack
<1>6. ClosingHeld'
  <2>1. \A n \in Node, s \in Session : engine[n][s] = "closing" => Clock(n) < closeBy[n][s]
    BY DEF Tick
  <2> QED
    BY <1>1, <1>2, <1>3, <2>1 DEF EngineInv, ClosingHeld, Held
<1> QED
  BY <1>4, <1>5, <1>6 DEF EngineInv

(* The invariant of the engines holds before anything is launched.         *)
LEMMA EngineInit == Init => EngineInv
  BY DEF Init, EngineInv, ClearsIdle, LiveHeld, ClosingHeld, DrainingNotLive

(* Every step keeps the invariant of the engines.                          *)
LEMMA EngineStep ==
  ASSUME LeaseInv, TypeOK', EngineInv, Serial, Prompt,
         Teardown + Latency + Skew <= Grace, Latency + Skew <= Grace, [Next]_vars
  PROVE  EngineInv'
<1>a. TypeOK
  BY DEF LeaseInv
<1>b. /\ engine \in [Node -> [Session -> EngineStates]]
      /\ closeBy \in [Node -> [Session -> Nat]]
      /\ owned \in [Node -> SUBSET Session]
      /\ mode \in [Node -> Modes]
      /\ \A n \in Node, s \in Session : engine[n][s] = "live" => s \in owned[n]
  BY <1>a DEF EngineInv, LiveHeld, TypeOK
<1>1. ASSUME NEW n \in Node, NEW s \in Session, SendClaim(n, s)
      PROVE  EngineInv'
  BY <1>1, <1>a, <1>b, EngineTurn DEF SendClaim, rowVars, leaseVars, callVars, engineVars
<1>2. ASSUME NEW n \in Node, NEW s \in Session, StartFails(n, s)
      PROVE  EngineInv'
  BY <1>2, <1>a, <1>b, EngineTurn DEF StartFails, rowVars, leaseVars, callVars, engineVars
<1>3. ASSUME NEW n \in Node, NEW s \in Session, EngineDies(n, s)
      PROVE  EngineInv'
  BY <1>3, <1>a, <1>b, EngineTurn DEF EngineDies, rowVars, leaseVars, callVars, engineVars
<1>4. ASSUME NEW n \in Node, NEW s \in Session, EngineClosed(n, s)
      PROVE  EngineInv'
  BY <1>4, <1>a, <1>b, EngineTurn DEF EngineClosed, rowVars, leaseVars, callVars, engineVars
<1>5. ASSUME NEW n \in Node, NEW s \in Session, Stop(n, s)
      PROVE  EngineInv'
  BY <1>5, <1>a, <1>b, EngineTurn DEF Stop, rowVars, leaseVars, callVars, engineVars
<1>6. ASSUME NEW c \in claims, DropClaim(c)
      PROVE  EngineInv'
  BY <1>6, <1>a, <1>b, EngineTurn DEF DropClaim, rowVars, leaseVars, callVars, engineVars
<1>7. ASSUME NEW c \in claims, AcceptClaim(c)
      PROVE  EngineInv'
  <2>1. /\ engine' = [engine EXCEPT ![c.node][c.session] = IF @ = "none" THEN "starting" ELSE @]
        /\ owned' = [owned EXCEPT ![c.node] = @ \cup {c.session}]
        /\ UNCHANGED <<now, rowVars, mode, clears, closeBy>>
    BY <1>7 DEF AcceptClaim
  <2>2. c.node \in Node /\ c.session \in Session
    BY <1>a, CallTypes
  <2> QED
    BY <1>a, <1>b, <2>1, <2>2, EngineTurn
<1>8. ASSUME NEW n \in Node, NEW s \in Session, HandBack(n, s)
      PROVE  EngineInv'
  <2>1. engine' = engine /\ closeBy' = closeBy /\ mode' = mode /\ UNCHANGED <<now, rowVars>>
    BY <1>8 DEF HandBack, engineVars
  <2>2. CASE EngineActive(n, s)
    BY <1>8, <1>a, <1>b, <2>1, <2>2, EngineTurn DEF HandBack, leaseVars
  <2>3. CASE ~EngineActive(n, s)
    <3> DEFINE d == [node |-> n, session |-> s, at |-> Clock(n), lapsedToo |-> TRUE]
    <3>1. owned' = [owned EXCEPT ![n] = @ \ {s}] /\ clears' = clears \cup {d}
      BY <1>8, <2>3 DEF HandBack
    <3>2. d.node = n /\ d.session = s
      OBVIOUS
    <3> HIDE DEF d
    <3>3. engine[n][s] = "none"
      BY <2>3 DEF EngineActive
    <3> QED
      BY <1>a, <1>b, <2>1, <3>1, <3>2, <3>3, EngineTurn
  <2> QED
    BY <2>2, <2>3
<1>9. ASSUME NEW r \in renewals, FindKept(r)
      PROVE  EngineInv'
  BY <1>9, <1>a, <1>b, EngineTurn DEF FindKept, rowVars, leaseVars, callVars, engineVars
<1>10. ASSUME NEW r \in renewals, ConcludeRenew(r)
       PROVE  EngineInv'
  <2>1. r.node \in Node
    BY <1>a, CallTypes
  <2> QED
    BY <1>10, <1>a, <1>b, <2>1, EngineTurn DEF ConcludeRenew, rowVars
<1>11. ASSUME NEW r \in renewals, FailRenew(r)
       PROVE  EngineInv'
  <2>1. r.node \in Node
    BY <1>a, CallTypes
  <2> QED
    BY <1>11, <1>a, <1>b, <2>1, EngineTurn DEF FailRenew, LoseSessions, rowVars
<1>12. ASSUME NEW n \in Node, ExpireLocalLeases(n)
       PROVE  EngineInv'
  BY <1>12, <1>a, <1>b, EngineTurn DEF ExpireLocalLeases, LoseSessions, rowVars, leaseVars,
     callVars, engineVars
<1>13. ASSUME NEW n \in Node, BeginRenew(n)
       PROVE  EngineInv'
  BY <1>13, <1>a, <1>b, EngineTurn DEF BeginRenew, rowVars, leaseVars, callVars, engineVars
<1>14. ASSUME NEW n \in Node, BeginShutdown(n)
       PROVE  EngineInv'
  BY <1>14, <1>a, <1>b, EngineTurn DEF BeginShutdown, rowVars, leaseVars, callVars, engineVars
<1>15. ASSUME NEW n \in Node, ReleaseAll(n)
       PROVE  EngineInv'
  <2> DEFINE d(s) == [node |-> n, session |-> s, at |-> Clock(n), lapsedToo |-> FALSE]
  <2>1. \A c \in clears' : c \in clears \/ \E s \in owned[n] : c = d(s)
    BY <1>15 DEF ReleaseAll
  <2>2. \A s \in owned[n] : d(s).node = n /\ d(s).session = s
    OBVIOUS
  <2> HIDE DEF d
  <2>3. \A s \in owned[n] : engine[n][s] \notin {"live", "closing"}
    BY <1>15, <1>a DEF ReleaseAll, EngineInv, DrainingNotLive, TypeOK
  <2>4. \A c \in clears' : c \in clears \/ engine[c.node][c.session] \notin {"live", "closing"}
    BY <2>1, <2>2, <2>3
  <2>5. owned' = [owned EXCEPT ![n] = {}] /\ UNCHANGED <<now, rowVars, mode, engine, closeBy>>
    BY <1>15 DEF ReleaseAll, engineVars
  <2>6. \A m \in Node, s \in Session : engine[m][s] = "live" => s \in owned'[m]
    BY <1>15, <1>a, <2>5 DEF ReleaseAll, EngineInv, DrainingNotLive, LiveHeld, TypeOK
  <2> QED
    BY <2>4, <2>5, <2>6, EngineTurn
<1>16. ASSUME NEW n \in Node, Restart(n)
       PROVE  EngineInv'
  BY <1>16, <1>a, <1>b, EngineTurn DEF Restart, rowVars, leaseVars, callVars, engineVars
<1>17. ASSUME NEW c \in claims, GrantClaim(c)
       PROVE  EngineInv'
  <2>1. \A m \in Node, t \in Session : Kept(m, t)
    BY <1>17, <1>a, GrantKeepsHeld DEF Kept, LeaseInv
  <2> QED
    BY <1>17, <2>1, EngineRow DEF GrantClaim, leaseVars, engineVars
<1>18. ASSUME NEW r \in renewals, ExecuteRenew(r)
       PROVE  EngineInv'
  <2>1. \A m \in Node, t \in Session : Kept(m, t)
    BY <1>18, <1>a, RenewKeepsHeld DEF Kept, LeaseInv
  <2> QED
    BY <1>18, <2>1, EngineRow DEF ExecuteRenew, leaseVars, engineVars
<1>19. ASSUME NEW c \in clears, ExecuteClear(c)
       PROVE  EngineInv'
  <2>1. engine[c.node][c.session] \notin {"live", "closing"}
    BY DEF EngineInv, ClearsIdle
  <2>2. \A m \in Node, t \in Session : engine[m][t] \in {"live", "closing"} => Kept(m, t)
    BY <1>19, <1>a, <2>1, ClearKeepsHeld DEF Kept, LeaseInv
  <2> QED
    BY <1>19, <2>2, EngineRow DEF ExecuteClear, leaseVars, engineVars
<1>20. CASE UNCHANGED vars
  BY <1>20, <1>a, <1>b, EngineTurn DEF vars, rowVars, leaseVars, callVars, engineVars
<1>21. CASE Tick
  BY <1>21, TickKeepsEngines
<1>22. CASE \E n \in Node, s \in Session : Launch(n, s)
  BY <1>22, LaunchKeepsEngines
<1> QED
  BY <1>1, <1>2, <1>3, <1>4, <1>5, <1>6, <1>7, <1>8, <1>9, <1>10, <1>11, <1>12, <1>13, <1>14,
     <1>15, <1>16, <1>17, <1>18, <1>19, <1>20, <1>21, <1>22 DEF Next

(* Engines are covered by leases whenever a teardown fits in the grace too. *)
THEOREM EnginesInvariant ==
  ASSUME Serial, Prompt, Teardown + Latency + Skew <= Grace
  PROVE  Spec => [](LeaseInv /\ EngineInv)
<1>1. Latency + Skew <= Grace
  BY ConstantTypes, GraceBound
<1>2. LeaseInv /\ TypeOK' /\ EngineInv /\ [Next]_vars => EngineInv'
  BY <1>1, EngineStep
<1>3. Spec => []LeaseInv
  BY <1>1, LeasesInvariant
<1> QED
  BY <1>2, <1>3, EngineInit, TypeCorrect, PTL DEF Spec

(* A running engine is on a row that names its node, so no two nodes run   *)
(* one for the same session.                                               *)
LEMMA RunningIsNamed ==
  ASSUME EngineInv, NEW n \in Node, NEW s \in Session, engine[n][s] \in {"live", "closing"}
  PROVE  rowNode[s] = n
  BY DEF EngineInv, LiveHeld, ClosingHeld, Held

(* At most one process runs an engine for a session, counting the ones     *)
(* whose teardown is still awaited.                                        *)
THEOREM EngineExclusiveAlways ==
  ASSUME Serial, Prompt, Teardown + Latency + Skew <= Grace
  PROVE  Spec => []EngineExclusive
<1>1. EngineInv => EngineExclusive
  BY RunningIsNamed DEF EngineExclusive
<1> QED
  BY <1>1, EnginesInvariant, PTL

(* A live engine is on a row that names its node: a stop() that races a    *)
(* start() is the only way to lose that, and Serial excludes it.           *)
THEOREM LiveIsClaimedAlways ==
  ASSUME Serial, Prompt, Teardown + Latency + Skew <= Grace
  PROVE  Spec => []LiveIsClaimed
<1>1. EngineInv => LiveIsClaimed
  BY RunningIsNamed DEF LiveIsClaimed
<1> QED
  BY <1>1, EnginesInvariant, PTL

(* A release in flight never takes the row from under an engine or a       *)
(* claim of the same process.                                              *)
THEOREM ClearsAreIdleAlways ==
  ASSUME Serial, Prompt, Teardown + Latency + Skew <= Grace
  PROVE  Spec => []ClearsAreIdle
<1>1. LeaseInv /\ EngineInv => ClearsAreIdle
  BY DEF LeaseInv, EngineInv, ClearsAlone, ClearsIdle, ClearsAreIdle
<1> QED
  BY <1>1, EnginesInvariant, PTL

-----------------------------------------------------------------------------
(* Implementation.                                                         *)

(* A step after which only n's engines may differ, and none of them runs   *)
(* that did not run before, closes the ones that are gone.                 *)
LEMMA StepCloses ==
  ASSUME NEW n \in Node,
         \A m \in Node, s \in Session : m # n => engine'[m][s] = engine[m][s],
         \A s \in Session :
           engine'[n][s] \in {"live", "closing"} => engine[n][s] \in {"live", "closing"}
  PROVE  Abstract!Close(n)
<1> DEFINE S == {s \in Session : engine'[n][s] \notin {"live", "closing"}}
<1>1. \A s \in Session : Running'[s] = IF s \in S THEN Running[s] \ {n} ELSE Running[s]
  BY DEF Running
<1>2. Running' = [s \in Session |-> IF s \in S THEN Running[s] \ {n} ELSE Running[s]]
  BY <1>1 DEF Running
<1>3. S \in SUBSET Session
  OBVIOUS
<1> HIDE DEF S
<1> QED
  BY <1>2, <1>3 DEF Abstract!Close

(* A step that touches no engine is a stutter of ExclusiveEngine.          *)
LEMMA StepKeepsEngines ==
  ASSUME UNCHANGED engine
  PROVE  UNCHANGED Running
  BY DEF Running

(* An engine is only launched where nobody runs one.                       *)
LEMMA LaunchOpens ==
  ASSUME LeaseInv, EngineInv, NEW n \in Node, NEW s \in Session, Launch(n, s)
  PROVE  Abstract!Open(n, s)
<1>1. rowNode[s] = n
  <2>1. /\ deadline[n][s] \in Nat
        /\ Clock(n) \in Nat
    BY ClockBound DEF LeaseInv, TypeOK
  <2> QED
    BY <2>1 DEF Launch, Owns, LeaseInv, OwnedHeld, Held
<1>2. engine[n][s] \notin {"live", "closing"}
  BY DEF Launch
<1>3. Running[s] = {}
  BY <1>1, <1>2, RunningIsNamed DEF Running
<1>4. \A m \in Node, t \in Session :
        engine'[m][t] = IF m = n /\ t = s THEN "live" ELSE engine[m][t]
  BY DEF Launch, LeaseInv, TypeOK
<1>5. \A t \in Session : Running'[t] = IF t = s THEN {n} ELSE Running[t]
  BY <1>3, <1>4 DEF Running
<1>6. Running' = [Running EXCEPT ![s] = {n}]
  BY <1>5 DEF Running
<1> QED
  BY <1>3, <1>6 DEF Abstract!Open

(* Every step is one of ExclusiveEngine, or a stutter.                     *)
LEMMA StepImplements ==
  ASSUME LeaseInv, EngineInv, [Next]_vars
  PROVE  [Abstract!Next]_Running
<1>a. /\ engine \in [Node -> [Session -> EngineStates]]
      /\ \A c \in claims : c.node \in Node /\ c.session \in Session
      /\ \A r \in renewals : r.node \in Node
  BY CallTypes DEF LeaseInv, TypeOK
<1>1. CASE \E n \in Node, s \in Session : Launch(n, s)
  BY <1>1, LaunchOpens DEF Abstract!Next
<1>2. CASE \E n \in Node, s \in Session : StartFails(n, s) \/ EngineDies(n, s)
  <2>1. PICK n \in Node, s \in Session : StartFails(n, s) \/ EngineDies(n, s)
    BY <1>2
  <2>2. Abstract!Close(n)
    BY <1>a, <2>1, StepCloses DEF StartFails, EngineDies
  <2> QED
    BY <2>2 DEF Abstract!Next
<1>3. CASE \E n \in Node, s \in Session : EngineClosed(n, s) \/ Stop(n, s)
  <2>1. PICK n \in Node, s \in Session : EngineClosed(n, s) \/ Stop(n, s)
    BY <1>3
  <2>2. Abstract!Close(n)
    BY <1>a, <2>1, StepCloses DEF EngineClosed, Stop
  <2> QED
    BY <2>2 DEF Abstract!Next
<1>4. CASE \E c \in claims : AcceptClaim(c)
  <2>1. PICK c \in claims : AcceptClaim(c)
    BY <1>4
  <2>2. engine' = [engine EXCEPT ![c.node][c.session] = IF @ = "none" THEN "starting" ELSE @]
    BY <2>1 DEF AcceptClaim
  <2>3. Abstract!Close(c.node)
    BY <1>a, <2>2, StepCloses
  <2> QED
    BY <1>a, <2>3 DEF Abstract!Next
<1>5. CASE \E r \in renewals : ConcludeRenew(r) \/ FailRenew(r)
  <2>1. PICK r \in renewals : ConcludeRenew(r) \/ FailRenew(r)
    BY <1>5
  <2>2. Abstract!Close(r.node)
    BY <1>a, <2>1, StepCloses DEF ConcludeRenew, FailRenew, LoseSessions
  <2> QED
    BY <1>a, <2>2 DEF Abstract!Next
<1>6. CASE \E n \in Node : ExpireLocalLeases(n) \/ BeginShutdown(n) \/ Restart(n)
  <2>1. PICK n \in Node : ExpireLocalLeases(n) \/ BeginShutdown(n) \/ Restart(n)
    BY <1>6
  <2>2. Abstract!Close(n)
    BY <1>a, <2>1, StepCloses DEF ExpireLocalLeases, LoseSessions, BeginShutdown, Restart
  <2> QED
    BY <2>2 DEF Abstract!Next
<1>7. CASE \/ \E n \in Node, s \in Session : SendClaim(n, s) \/ HandBack(n, s)
           \/ \E c \in claims : GrantClaim(c) \/ DropClaim(c)
           \/ \E c \in clears : ExecuteClear(c)
           \/ \E r \in renewals : ExecuteRenew(r) \/ FindKept(r)
           \/ \E n \in Node : BeginRenew(n) \/ ReleaseAll(n)
           \/ Tick
           \/ UNCHANGED vars
  <2>1. UNCHANGED engine
    BY <1>7 DEF SendClaim, HandBack, GrantClaim, DropClaim, ExecuteClear, ExecuteRenew,
       FindKept, BeginRenew, ReleaseAll, Tick, vars, engineVars
  <2> QED
    BY <2>1, StepKeepsEngines
<1> QED
  BY <1>1, <1>2, <1>3, <1>4, <1>5, <1>6, <1>7 DEF Next

(* The leases, heartbeats and timers implement turn-taking.                *)
THEOREM OwnershipImplements ==
  ASSUME Serial, Prompt, Teardown + Latency + Skew <= Grace
  PROVE  Spec => ImplementsExclusiveEngine
<1>1. Init => Abstract!Init
  BY DEF Init, Abstract!Init, Running
<1>2. LeaseInv /\ EngineInv /\ [Next]_vars => [Abstract!Next]_Running
  BY StepImplements
<1> QED
  BY <1>1, <1>2, EnginesInvariant, PTL DEF Spec, ImplementsExclusiveEngine, Abstract!Spec

===============================================================================
