---------------------------- MODULE MCIngressFabric ----------------------------
(* Instances of IngressFabric for TLC. *)
EXTENDS IngressFabric

CONSTANTS n1, n2, e1, e2

(* An event that is posted, with a redrive or with a fault to come; one    *)
(* behind another after a crash; one left by a crash before two processes; *)
(* the same with two more faults to come.                                  *)
FiveStarts ==
  {[stored |-> <<>>, coming |-> {e1}, up |-> {n1}, redrives |-> 1, faults |-> 0],
   [stored |-> <<>>, coming |-> {e1}, up |-> {n1}, redrives |-> 0, faults |-> 1],
   [stored |-> <<e2, e1>>, coming |-> {}, up |-> {n1}, redrives |-> 0, faults |-> 0],
   [stored |-> <<e2>>, coming |-> {}, up |-> {n1, n2}, redrives |-> 1, faults |-> 0],
   [stored |-> <<e2>>, coming |-> {}, up |-> {n1}, redrives |-> 1, faults |-> 2]}

===============================================================================
