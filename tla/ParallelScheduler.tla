--------------------------- MODULE ParallelScheduler ---------------------------
(***************************************************************************)
(* fc::thread::parallel_scheduler: a pool of threads that share a task     *)
(* queue behind one mutex (task_queue_mutex) and one condition variable    *)
(* (thread_control).                                                       *)
(*                                                                         *)
(* Everything done while the mutex is held is one step; notify_one and     *)
(* notify_all run after the mutex is released and are steps of their own.  *)
(* A worker at "test" is about to evaluate the wait loop's condition with  *)
(* the mutex held; a worker at "waiting" sleeps on thread_control.         *)
(***************************************************************************)
EXTENDS Naturals, Sequences, FiniteSets

CONSTANTS
  Workers,     \* the threads of thread_pool
  Clients,     \* the threads that call add_task
  Tasks,       \* one element per call of add_task
  EmptyTasks,  \* the tasks that are empty std::functions
  NoTask       \* value of a worker's local variable task between two tasks

ASSUME PoolAssumption ==
  /\ Workers # {} /\ IsFiniteSet(Workers)   \* num_threads() >= 1
  /\ IsFiniteSet(Clients)
  /\ EmptyTasks \subseteq Tasks
  /\ NoTask \notin Tasks

VARIABLES
  task_queue,  \* the queue behind task_queue_mutex
  do_work,     \* cleared by stop(), read and written under the mutex
  worker,      \* where each worker thread is
  task,        \* the task each worker executes
  client,      \* "idle", or "notify" between add_task's unlock and notify_one
  owner,       \* where the thread is that constructs and stops the pool
  added,       \* history: the tasks in the order add_task pushed them
  popped       \* history: the tasks in the order workers popped them

vars == <<task_queue, do_work, worker, task, client, owner, added, popped>>

WorkerState == {"unborn", "test", "waiting", "run", "exited"}
OwnerState == {"spawn", "idle", "notify", "join", "stopped"}

At(s) == {w \in Workers : worker[w] = s}
Pushed == {added[i] : i \in DOMAIN added}

\* The constructor's start() sets do_work before it creates the first thread.
Init ==
  /\ task_queue = <<>>
  /\ do_work = TRUE
  /\ worker = [w \in Workers |-> "unborn"]
  /\ task = [w \in Workers |-> NoTask]
  /\ client = [c \in Clients |-> "idle"]
  /\ owner = "spawn"
  /\ added = <<>>
  /\ popped = <<>>

\* One iteration of start()'s loop; the constructor returns after the last one.
Spawn(w) ==
  /\ owner = "spawn"
  /\ worker[w] = "unborn"
  /\ worker' = [worker EXCEPT ![w] = "test"]
  /\ owner' = IF At("unborn") = {w} THEN "idle" ELSE "spawn"
  /\ UNCHANGED <<task_queue, do_work, task, client, added, popped>>

\* Mutant of AddTask: notify only when the queue was empty before the push.
AddTaskNotifyIfEmpty(c, t) ==
  /\ owner # "spawn"
  /\ client[c] = "idle"
  /\ t \notin Pushed
  /\ task_queue' = Append(task_queue, t)
  /\ added' = Append(added, t)
  /\ client' = [client EXCEPT ![c] = IF task_queue = <<>> THEN "notify" ELSE "idle"]
  /\ UNCHANGED <<do_work, worker, task, owner, popped>>

\* add_task pushes under the mutex and does not look at do_work.
AddTask(c, t) ==
  /\ owner # "spawn"
  /\ client[c] = "idle"
  /\ t \notin Pushed
  /\ task_queue' = Append(task_queue, t)
  /\ added' = Append(added, t)
  /\ client' = [client EXCEPT ![c] = "notify"]
  /\ UNCHANGED <<do_work, worker, task, owner, popped>>

\* Mutant of NotifyOne: add_task returns without calling notify_one.
ForgetNotify(c) ==
  /\ client[c] = "notify"
  /\ client' = [client EXCEPT ![c] = "idle"]
  /\ UNCHANGED <<task_queue, do_work, worker, task, owner, added, popped>>

\* add_task, after the unlock: notify_one wakes some waiting worker, if any.
NotifyOne(c) ==
  /\ client[c] = "notify"
  /\ client' = [client EXCEPT ![c] = "idle"]
  /\ \/ At("waiting") = {} /\ UNCHANGED worker
     \/ \E w \in At("waiting") : worker' = [worker EXCEPT ![w] = "test"]
  /\ UNCHANGED <<task_queue, do_work, task, owner, added, popped>>

\* while (task_queue.empty() && do_work) thread_control.wait(lock);
Wait(w) ==
  /\ worker[w] = "test"
  /\ task_queue = <<>> /\ do_work
  /\ worker' = [worker EXCEPT ![w] = "waiting"]
  /\ UNCHANGED <<task_queue, do_work, task, client, owner, added, popped>>

\* A condition variable may wake a waiter that nobody notified.
SpuriousWake(w) ==
  /\ worker[w] = "waiting"
  /\ worker' = [worker EXCEPT ![w] = "test"]
  /\ UNCHANGED <<task_queue, do_work, task, client, owner, added, popped>>

\* if (!do_work) return;
Exit(w) ==
  /\ worker[w] = "test"
  /\ ~do_work
  /\ worker' = [worker EXCEPT ![w] = "exited"]
  /\ UNCHANGED <<task_queue, do_work, task, client, owner, added, popped>>

\* Mutant of Pop: the task at the back of the queue is executed.
PopNewest(w) ==
  /\ worker[w] = "test"
  /\ task_queue # <<>> /\ do_work
  /\ LET last == Len(task_queue) IN
       /\ task_queue' = SubSeq(task_queue, 1, last - 1)
       /\ popped' = Append(popped, task_queue[last])
       /\ worker' = [worker EXCEPT ![w] = "run"]
       /\ task' = [task EXCEPT ![w] = task_queue[last]]
  /\ UNCHANGED <<do_work, client, owner, added>>

\* Mutant of Pop: the queue is drained although do_work is cleared.
PopAfterStop(w) ==
  /\ worker[w] = "test"
  /\ task_queue # <<>>
  /\ task_queue' = Tail(task_queue)
  /\ popped' = Append(popped, Head(task_queue))
  /\ worker' = [worker EXCEPT ![w] = "run"]
  /\ task' = [task EXCEPT ![w] = Head(task_queue)]
  /\ UNCHANGED <<do_work, client, owner, added>>

\* Pop the front under the mutex; an empty function is not called.
Pop(w) ==
  /\ worker[w] = "test"
  /\ task_queue # <<>> /\ do_work
  /\ task_queue' = Tail(task_queue)
  /\ popped' = Append(popped, Head(task_queue))
  /\ IF Head(task_queue) \in EmptyTasks
       THEN UNCHANGED <<worker, task>>
       ELSE /\ worker' = [worker EXCEPT ![w] = "run"]
            /\ task' = [task EXCEPT ![w] = Head(task_queue)]
  /\ UNCHANGED <<do_work, client, owner, added>>

\* Mutant of Run: the variable task outlives the iteration and keeps its value.
RunKeepsTask(w) ==
  /\ worker[w] = "run"
  /\ worker' = [worker EXCEPT ![w] = "test"]
  /\ UNCHANGED <<task_queue, do_work, task, client, owner, added, popped>>

\* task() returns and the loop starts over with a fresh local variable.
Run(w) ==
  /\ worker[w] = "run"
  /\ worker' = [worker EXCEPT ![w] = "test"]
  /\ task' = [task EXCEPT ![w] = NoTask]
  /\ UNCHANGED <<task_queue, do_work, client, owner, added, popped>>

\* stop(), called by a user and again by the destructor: clear the flag under the mutex.
Stop ==
  /\ owner \in {"idle", "stopped"}
  /\ do_work' = FALSE
  /\ owner' = "notify"
  /\ UNCHANGED <<task_queue, worker, task, client, added, popped>>

\* Mutant of NotifyAll: stop() calls notify_one.
StopNotifiesOne ==
  /\ owner = "notify"
  /\ owner' = "join"
  /\ \/ At("waiting") = {} /\ UNCHANGED worker
     \/ \E w \in At("waiting") : worker' = [worker EXCEPT ![w] = "test"]
  /\ UNCHANGED <<task_queue, do_work, task, client, added, popped>>

NotifyAll ==
  /\ owner = "notify"
  /\ owner' = "join"
  /\ worker' = [w \in Workers |-> IF worker[w] = "waiting" THEN "test" ELSE worker[w]]
  /\ UNCHANGED <<task_queue, do_work, task, client, added, popped>>

\* Every thread is joined (those an earlier stop() joined are not joinable).
Join ==
  /\ owner = "join"
  /\ At("exited") = Workers
  /\ owner' = "stopped"
  /\ UNCHANGED <<task_queue, do_work, worker, task, client, added, popped>>

WorkerStep(w) == Wait(w) \/ Exit(w) \/ Pop(w) \/ Run(w)

Next ==
  \/ \E w \in Workers : Spawn(w) \/ SpuriousWake(w) \/ WorkerStep(w)
  \/ \E c \in Clients : NotifyOne(c) \/ \E t \in Tasks : AddTask(c, t)
  \/ Stop \/ NotifyAll \/ Join

Spec == Init /\ [][Next]_vars

(***************************************************************************)
(* Threads that can run do run, and tasks terminate.  Nothing obliges a    *)
(* client to add a task, the owner to stop, or a wake-up to be spurious.   *)
(***************************************************************************)
Fairness ==
  /\ \A w \in Workers : WF_vars(WorkerStep(w)) /\ WF_vars(Spawn(w))
  /\ \A c \in Clients : WF_vars(NotifyOne(c))
  /\ WF_vars(NotifyAll) /\ WF_vars(Join)

FairSpec == Spec /\ Fairness
--------------------------------------------------------------------------------
(* Properties.                                                             *)

(***************************************************************************)
(* Every variable has its type, and a worker holds a task exactly while it *)
(* executes one.                                                           *)
(***************************************************************************)
TypeOK ==
  /\ task_queue \in Seq(Tasks)
  /\ do_work \in BOOLEAN
  /\ worker \in [Workers -> WorkerState]
  /\ task \in [Workers -> Tasks \cup {NoTask}]
  /\ client \in [Clients -> {"idle", "notify"}]
  /\ owner \in OwnerState
  /\ added \in Seq(Tasks)
  /\ popped \in Seq(Tasks)
  /\ \A w \in Workers : worker[w] = "run" <=> task[w] # NoTask

\* Every task pushed by add_task is popped exactly once or still queued, in the
\* order of the pushes: no interleaving of pushes and pops loses, repeats or
\* reorders a task.
FifoOnce ==
  /\ added = popped \o task_queue
  /\ \A i, j \in DOMAIN added : added[i] = added[j] => i = j

\* Work conservation: while the pool works and a worker sleeps on thread_control,
\* the workers about to test the queue and the notify_one calls still to come
\* are at least as many as the queued tasks. No wake-up is lost although
\* notify_one is called without the mutex.
NoLostWakeup ==
  do_work /\ At("waiting") # {} =>
    Len(task_queue) <= Cardinality(At("test"))
                         + Cardinality({c \in Clients : client[c] = "notify"})

\* Once stop() has called notify_all no worker sleeps on thread_control, so that
\* join() cannot block on a sleeping thread; and once it has returned no worker
\* executes a task.
StopWakesAll ==
  /\ owner \in {"join", "stopped"} => At("waiting") = {}
  /\ owner = "stopped" => At("exited") = Workers /\ \A w \in Workers : task[w] = NoTask

\* A queued task is eventually popped unless the pool is stopped, whatever the
\* interleaving of notify_one with workers that are about to wait.
QueuedTaskRuns ==
  \A t \in Tasks :
    (\E i \in DOMAIN task_queue : task_queue[i] = t)
      ~> (~do_work \/ \E i \in DOMAIN popped : popped[i] = t)

\* A call of stop() returns: it wakes, lets finish and joins every worker.
StopReturns == (owner = "notify") ~> (owner = "stopped")

\* The pool behaves as the abstract queue, fairness included.
Q == INSTANCE TaskQueue WITH
       waiting <- task_queue,
       executing <- task,
       phase <- IF do_work THEN "open"
                ELSE IF At("exited") = Workers THEN "closed" ELSE "closing"

\* parallel_scheduler implements TaskQueue: the queue a user of the scheduler
\* interface sees is served in order by any idle worker until stop() is called.
ImplementsQueue == Q!QueueSpec
================================================================================
