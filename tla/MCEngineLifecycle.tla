--------------------------- MODULE MCEngineLifecycle ---------------------------
(* Instances of EngineLifecycle for TLC. *)
EXTENDS EngineLifecycle, TLC

CONSTANTS e1, e2, a1, c1, c2

(* The engines are interchangeable, and so are the controls. *)
Symmetry == Permutations({e1, e2}) \cup Permutations({c1, c2})

(* A session in which an attempt was overtaken is not followed any further: *)
(* only StoppedIsDown still says something about it, and that is proved.    *)
NotOvertaken == ~Overtaken

===============================================================================
