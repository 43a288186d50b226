------------------------- MODULE MCSessionOwnership -------------------------
(* Instances of SessionOwnership for TLC. *)
EXTENDS SessionOwnership, TLC

CONSTANTS n1, n2, s1

(* Both clocks agree. *)
OffsetNone == n1 :> 0 @@ n2 :> 0

(* With equal clocks the nodes are interchangeable. *)
NodeSymmetry == Permutations(Node)

(* n2 runs ahead, by less than one lease. *)
OffsetAhead == n1 :> 0 @@ n2 :> 5

===============================================================================
