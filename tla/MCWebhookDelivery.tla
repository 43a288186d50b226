-------------------------- MODULE MCWebhookDelivery --------------------------
(* Instances of WebhookDelivery for TLC. *)
EXTENDS WebhookDelivery, TLC

CONSTANTS n1, n2, d1, d2, d3

(* The nodes are interchangeable. *)
NodeSymmetry == Permutations(Node)

(* So are the deliveries. *)
DeliverySymmetry == Permutations(Delivery)

(* Two processes without the queue, one fault: replays race over one row.  *)
Direct == [queued |-> FALSE, up |-> {n1, n2}, retryCount |-> 1, maxAttempts |-> 2, maxFaults |-> 1]

(* One process with the queue, two faults: enough for a job to stall twice. *)
Queued == [queued |-> TRUE, up |-> {n1}, retryCount |-> 2, maxAttempts |-> 1, maxFaults |-> 2]

DirectAndQueued == {Direct, Queued}

(* The deployments of the other runs. *)
DirectOnly == {Direct}
OneProcess == {[Direct EXCEPT !.up = {n1}, !.retryCount = 2, !.maxAttempts = 1]}
ThreeFaults == {[Direct EXCEPT !.up = {n1}, !.maxFaults = 3]}

===============================================================================
