----------------------------- MODULE TaskDeadline ------------------------------
(***************************************************************************)
(* CycleControl with wall time, for the deadlines of wait_until_done: the  *)
(* main loops afap and timewarp, and stop(), wait for a task until         *)
(* work_start + timeout, where work_start is written by the worker when it *)
(* begins to execute the task.  The deadline is computed once, when the    *)
(* wait begins.                                                            *)
(*                                                                         *)
(* Time is kept as ages: how many units of wall time ago work_start was    *)
(* written, and how long ago the task was queued.  An age stops at the     *)
(* longest tick, which no comparison can tell from a greater one.          *)
(***************************************************************************)
EXTENDS CycleControl, Integers

CONSTANT Ticks  \* the length of each group's tick, in units of wall time

VARIABLES
  started_ago,  \* age of each task's work_start
  queued_ago,   \* age of each task's last add_task
  read_ago      \* age of the work_start in the deadline of the wait, NoWait between waits

timeVars == <<started_ago, queued_ago, read_ago>>
NoWait == -1

\* periodic_task's constructor sets work_start to now.
DeadlineInit ==
  /\ Init
  /\ started_ago = [t \in Tasks |-> 0]
  /\ queued_ago = [t \in Tasks |-> 0]
  /\ read_ago = NoWait

Older(age) == IF age < Ticks["slow"] THEN age + 1 ELSE age

TimePasses ==
  /\ started_ago' = [t \in Tasks |-> Older(started_ago[t])]
  /\ queued_ago' = [t \in Tasks |-> Older(queued_ago[t])]
  /\ read_ago' = IF read_ago = NoWait THEN NoWait ELSE Older(read_ago)
  /\ UNCHANGED vars

\* wait_until_done computes work_start + timeout, whether or not the task has begun.
BeginWait ==
  /\ (pc = "wait" \/ user = "wait") /\ left # <<>>
  /\ read_ago = NoWait
  /\ read_ago' = started_ago[Head(left)]
  /\ UNCHANGED <<vars, started_ago, queued_ago>>

\* The timeout of the wait that is in progress.
Timeout == IF pc = "wait"
             THEN Ticks[CHOOSE g \in Groups : InSeq(Head(left), tasks[g])]
             ELSE Ticks["slow"]

\* The wait in progress has no more time left: its deadline has passed.
Expired == read_ago >= Timeout

\* The wait ends: the task is done, or the deadline has passed.
TimedWait ==
  /\ read_ago # NoWait
  /\ WaitForTask \/ StopWait
  /\ work_to_do[Head(left)] => Expired
  /\ read_ago' = NoWait
  /\ UNCHANGED <<started_ago, queued_ago>>

TimedQueue ==
  /\ Queue
  /\ queued_ago' = [queued_ago EXCEPT ![Head(left)] = 0]
  /\ UNCHANGED <<started_ago, read_ago>>

\* periodic_task::operator() begins: work_start = now.
TimedTake(w) ==
  /\ TakeTask(w)
  /\ started_ago' = [started_ago EXCEPT ![Head(waiting)] = 0]
  /\ UNCHANGED <<queued_ago, read_ago>>

UntimedLoopStep ==
  \/ RealtimeBody \/ WaitingBody \/ LoopExit \/ WorkAfterWait
  \/ CheckDone \/ CheckLate \/ SkipLate \/ GiveUp
  \/ BeginSwitch \/ Switch \/ BeginQueue \/ EndGroup

DeadlineNext ==
  \/ TimePasses
  \/ BeginWait \/ TimedWait
  \/ TimedQueue
  \/ (UserStep \/ Join \/ StopDone \/ CloseScheduler \/ UntimedLoopStep) /\ UNCHANGED timeVars
  \/ \E w \in Workers : TimedTake(w) \/ (FinishTask(w) /\ UNCHANGED timeVars)

DeadlineSpec == DeadlineInit /\ [][DeadlineNext]_<<vars, timeVars>>
--------------------------------------------------------------------------------
(***************************************************************************)
(* timeout_callback is a "callback that is called when a task takes too    *)
(* long": a wait for a task does not give up before the task has had the   *)
(* timeout, counted from the moment it was handed to the scheduler.        *)
(***************************************************************************)
OnTimeIsNotLate ==
  (pc = "wait" \/ user = "wait") /\ left # <<>> /\ work_to_do[Head(left)] /\ Expired
    => queued_ago[Head(left)] >= Timeout
================================================================================
