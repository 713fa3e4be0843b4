---------------------------- MODULE MCLocalTasks ----------------------------
(* Instance of LocalTasks for TLC: two rows of one path.                     *)
EXTENDS LocalTasks

MCRows == 1..2

\* A fault or a crash, and up to the first write of a belated handler.
Bounded == faults + crashes <= 1 /\ hit = {}
=============================================================================
