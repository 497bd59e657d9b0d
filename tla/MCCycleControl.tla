---------------------------- MODULE MCCycleControl -----------------------------
(* Small instances of CycleControl for TLC.                                *)
EXTENDS CycleControl

\* work() is not called again with the done_tasks of a shutdown still in place: what
\* happens then is the subject of the run that violates DoneTasksEmpty.
CleanCall == Start \/ CallWork => \A g \in Groups : done_tasks[g] = <<>>

\* Bound: no exception is stored when start(), stop() and work() are called for the last
\* time, nor later.  The callback may still return TRUE, so this blocks no thread.
FewExceptions == calls' = MaxCalls => exceptions' = 0

CleanSpec == Init /\ [][Next /\ CleanCall /\ FewExceptions]_vars /\ ControlFairness
================================================================================
