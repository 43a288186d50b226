---------------------------- MODULE MCBulkMessages ----------------------------
(* Instances of BulkMessages for TLC. *)
EXTENDS BulkMessages, TLC

CONSTANTS n1, n2, b1, b2

(* The batches are interchangeable. *)
BatchSymmetry == Permutations(Batch)

===============================================================================
