---------------------------- MODULE ExclusiveEngine ----------------------------
(***************************************************************************)
(* What session ownership is for: the processes that run an engine for a   *)
(* session take turns.  An engine opens only where none runs, and closes   *)
(* at any time; a process that dies closes all of its own at once.         *)
(***************************************************************************)
CONSTANTS Node, Session

VARIABLE running   \* for each session, the nodes that run its engine

Init == running = [s \in Session |-> {}]

Open(n, s) ==
  /\ running[s] = {}
  /\ running' = [running EXCEPT ![s] = {n}]

Close(n) ==
  \E S \in SUBSET Session :
    running' = [s \in Session |-> IF s \in S THEN running[s] \ {n} ELSE running[s]]

Next == \E n \in Node : Close(n) \/ \E s \in Session : Open(n, s)

Spec == Init /\ [][Next]_running

===============================================================================
