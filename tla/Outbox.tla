-------------------------------- MODULE Outbox --------------------------------
(***************************************************************************)
(* What the outbox of webhook deliveries is for.  The row of a delivery is *)
(* written once and then settled: as dispatched, only when there is        *)
(* something to show for the delivery, or as given up.  A settled row may  *)
(* be settled anew by a slower hand, but it is never pending again: no     *)
(* later sweep takes it up.  What there is to show stays.                  *)
(***************************************************************************)
CONSTANT Delivery

VARIABLES
  row,     \* "none", "pending", "dispatched" or "failed", for each delivery
  shown    \* the deliveries with something to show for them

Init ==
  /\ row = [d \in Delivery |-> "none"]
  /\ shown = {}

Record(d) ==
  /\ row[d] = "none"
  /\ row' = [row EXCEPT ![d] = "pending"]
  /\ UNCHANGED shown

(* A crash may bring several to light at once. *)
Show ==
  /\ shown \subseteq shown'
  /\ shown' \subseteq Delivery
  /\ UNCHANGED row

(* Whoever settles a row does not ask whether it still is pending. *)
Retire(d) ==
  /\ d \in shown
  /\ row[d] # "none"
  /\ row' = [row EXCEPT ![d] = "dispatched"]
  /\ UNCHANGED shown

GiveUp(d) ==
  /\ row[d] # "none"
  /\ row' = [row EXCEPT ![d] = "failed"]
  /\ UNCHANGED shown

Next == Show \/ \E d \in Delivery : Record(d) \/ Retire(d) \/ GiveUp(d)

Spec == Init /\ [][Next]_<<row, shown>>

===============================================================================
