------------------------------- MODULE TaskQueue -------------------------------
(***************************************************************************)
(* What a scheduler promises to its users (fc::thread::scheduler): jobs    *)
(* wait in a first-in first-out queue, a free worker takes the oldest one, *)
(* and once the scheduler is closed no further job is started.             *)
(*                                                                         *)
(* ParallelScheduler is shown to implement this module, and CycleControl   *)
(* is written against it.                                                  *)
(***************************************************************************)
EXTENDS Naturals, Sequences, FiniteSets

CONSTANTS
  Workers,     \* the threads that execute jobs
  Tasks,       \* the jobs handed to add_task
  EmptyTasks,  \* the jobs that are empty std::functions: dropped, never executed
  NoTask       \* "executes nothing"

ASSUME QueueAssumption ==
  /\ Workers # {} /\ IsFiniteSet(Workers)
  /\ EmptyTasks \subseteq Tasks
  /\ NoTask \notin Tasks

VARIABLES
  waiting,     \* sequence of the jobs that no worker has taken
  executing,   \* the job each worker executes, or NoTask
  phase        \* "open", "closing" (jobs may still execute) or "closed"

queueVars == <<waiting, executing, phase>>

QueueTypeOK ==
  /\ waiting \in Seq(Tasks)
  /\ executing \in [Workers -> Tasks \cup {NoTask}]
  /\ phase \in {"open", "closing", "closed"}

QueueInit ==
  /\ waiting = <<>>
  /\ executing = [w \in Workers |-> NoTask]
  /\ phase = "open"

Idle(w) == executing[w] = NoTask

\* A job is accepted in every phase: add_task does not look at do_work.
Enqueue(t) ==
  /\ waiting' = Append(waiting, t)
  /\ UNCHANGED <<executing, phase>>

Take(w) ==
  /\ phase = "open"
  /\ Idle(w)
  /\ waiting # <<>>
  /\ waiting' = Tail(waiting)
  /\ executing' = IF Head(waiting) \in EmptyTasks
                    THEN executing
                    ELSE [executing EXCEPT ![w] = Head(waiting)]
  /\ UNCHANGED phase

Finish(w) ==
  /\ ~Idle(w)
  /\ executing' = [executing EXCEPT ![w] = NoTask]
  /\ UNCHANGED <<waiting, phase>>

Close ==
  /\ phase = "open"
  /\ phase' = "closing"
  /\ UNCHANGED <<waiting, executing>>

Closed ==
  /\ phase = "closing"
  /\ \A w \in Workers : Idle(w)
  /\ phase' = "closed"
  /\ UNCHANGED <<waiting, executing>>

QueueNext ==
  \/ \E t \in Tasks : Enqueue(t)
  \/ \E w \in Workers : Take(w) \/ Finish(w)
  \/ Close
  \/ Closed

(***************************************************************************)
(* An open queue with waiting jobs and a free worker is served, jobs       *)
(* terminate, and closing completes.                                       *)
(***************************************************************************)
QueueFairness ==
  /\ WF_queueVars(\E w \in Workers : Take(w))
  /\ \A w \in Workers : WF_queueVars(Finish(w))
  /\ WF_queueVars(Closed)

QueueSpec == QueueInit /\ [][QueueNext]_queueVars /\ QueueFairness
================================================================================
