-------------------------- MODULE MCScheduledMessages --------------------------
(* Instances of ScheduledMessages for TLC. *)
EXTENDS ScheduledMessages

CONSTANTS n1, n2, m1, m2

===============================================================================
