---------------------------- MODULE MCTaskDeadline -----------------------------
(* A small instance of TaskDeadline for TLC.                               *)
EXTENDS TaskDeadline

MCTicks == [fast |-> 2, medium |-> 4, slow |-> 8]
================================================================================
