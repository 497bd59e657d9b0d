-------------------------- MODULE SharedMemoryProofs ---------------------------
(***************************************************************************)
(* Proofs about the three modules in which threads meet in memory that     *)
(* they share, and not in a cycle of cycle_control.                        *)
(*  - ParallelScheduler, for any number of workers, clients and tasks: its *)
(*    type invariant, the order of the queue, that no wake-up is lost,     *)
(*    that stop() wakes everybody, and that every step is one of TaskQueue.*)
(*  - Settings, the hand-over of a setting from the writer to the switch   *)
(*    tick, for any settings, facades, constraints and values.             *)
(*  - VirtualClock, for any rate of the master clock and any times set.    *)
(***************************************************************************)
EXTENDS ParallelScheduler, Settings, VirtualClock, FiniteSetTheorems, SequenceTheorems, TLAPS
--------------------------------------------------------------------------------
(* ParallelScheduler.                                                      *)

(***************************************************************************)
(* Two facts about sequences: appending to the second of two concatenated  *)
(* sequences, and moving the head of the second to the end of the first.   *)
(***************************************************************************)
LEMMA AppendConcat ==
  ASSUME NEW S, NEW s \in Seq(S), NEW t \in Seq(S), NEW x \in S
  PROVE  Append(s \o t, x) = s \o Append(t, x)
<1>1. /\ Append(s \o t, x) \in Seq(S) /\ s \o Append(t, x) \in Seq(S)
      /\ Len(Append(s \o t, x)) = Len(s) + Len(t) + 1
      /\ Len(s \o Append(t, x)) = Len(s) + Len(t) + 1
  OBVIOUS
<1>2. \A i \in 1 .. Len(s) + Len(t) + 1 : Append(s \o t, x)[i] = (s \o Append(t, x))[i]
  OBVIOUS
<1>3. QED
  BY <1>1, <1>2, SeqEqual

\* Taking the head of a queue and appending it to a history.
LEMMA MoveHead ==
  ASSUME NEW S, NEW s \in Seq(S), NEW t \in Seq(S), t # <<>>
  PROVE  Append(s, Head(t)) \o Tail(t) = s \o t
<1>1. /\ Head(t) \in S /\ Tail(t) \in Seq(S) /\ Len(Tail(t)) = Len(t) - 1
      /\ \A i \in 1 .. Len(t) - 1 : Tail(t)[i] = t[i + 1]
  BY HeadTailProperties
<1>2. /\ Append(s, Head(t)) \o Tail(t) \in Seq(S) /\ s \o t \in Seq(S)
      /\ Len(Append(s, Head(t)) \o Tail(t)) = Len(s) + Len(t)
      /\ Len(s \o t) = Len(s) + Len(t)
  BY <1>1
<1>3. \A i \in 1 .. Len(s) + Len(t) :
        (Append(s, Head(t)) \o Tail(t))[i] = (s \o t)[i]
  BY <1>1
<1>4. QED
  BY <1>2, <1>3, SeqEqual
--------------------------------------------------------------------------------
(* The type invariant.                                                     *)

(***************************************************************************)
(* Every step keeps the types, and a worker holds a task exactly while it  *)
(* executes one.                                                           *)
(***************************************************************************)
LEMMA TypeStep == TypeOK /\ [Next]_vars => TypeOK'
<1> SUFFICES ASSUME TypeOK, [Next]_vars PROVE TypeOK'
  OBVIOUS
<1> USE PoolAssumption DEF TypeOK, WorkerState, OwnerState
<1>1. ASSUME NEW w \in Workers, Spawn(w) PROVE TypeOK'
  BY <1>1 DEF Spawn
<1>2. ASSUME NEW w \in Workers, SpuriousWake(w) PROVE TypeOK'
  BY <1>2 DEF SpuriousWake
<1>3. ASSUME NEW w \in Workers, Wait(w) PROVE TypeOK'
  BY <1>3 DEF Wait
<1>4. ASSUME NEW w \in Workers, Exit(w) PROVE TypeOK'
  BY <1>4 DEF Exit
<1>5. ASSUME NEW w \in Workers, Pop(w) PROVE TypeOK'
  <2>1. Head(task_queue) \in Tasks /\ Tail(task_queue) \in Seq(Tasks)
    BY <1>5, HeadTailProperties DEF Pop
  <2>2. task_queue' \in Seq(Tasks) /\ popped' \in Seq(Tasks)
    BY <1>5, <2>1 DEF Pop
  <2>3. CASE Head(task_queue) \in EmptyTasks
    BY <1>5, <2>2, <2>3 DEF Pop
  <2>4. CASE Head(task_queue) \notin EmptyTasks
    <3>1. /\ worker' = [worker EXCEPT ![w] = "run"]
          /\ task' = [task EXCEPT ![w] = Head(task_queue)]
          /\ UNCHANGED <<do_work, client, owner, added>>
      BY <1>5, <2>4 DEF Pop
    <3>2. \A v \in Workers : worker'[v] = "run" <=> task'[v] # NoTask
      BY <2>1, <3>1
    <3>3. QED
      BY <2>1, <2>2, <3>1, <3>2
  <2>5. QED
    BY <2>3, <2>4
<1>6. ASSUME NEW w \in Workers, Run(w) PROVE TypeOK'
  BY <1>6 DEF Run
<1>7. ASSUME NEW c \in Clients, NotifyOne(c) PROVE TypeOK'
  BY <1>7 DEF NotifyOne, At
<1>8. ASSUME NEW c \in Clients, NEW t \in Tasks, AddTask(c, t) PROVE TypeOK'
  BY <1>8 DEF AddTask
<1>9. ASSUME Stop \/ NotifyAll \/ Join PROVE TypeOK'
  BY <1>9, Zenon DEF Stop, NotifyAll, Join
<1>10. ASSUME UNCHANGED vars PROVE TypeOK'
  BY <1>10 DEF vars
<1>11. QED
  BY <1>1, <1>2, <1>3, <1>4, <1>5, <1>6, <1>7, <1>8, <1>9, <1>10 DEF Next, WorkerStep

(***************************************************************************)
(* The variables of parallel_scheduler and of its threads keep their       *)
(* types, and a worker holds a task exactly while it executes one.         *)
(***************************************************************************)
THEOREM TypeCorrect == Spec => []TypeOK
<1>1. Init => TypeOK
  BY PoolAssumption DEF Init, TypeOK, WorkerState, OwnerState
<1>2. QED
  BY <1>1, TypeStep, PTL DEF Spec
--------------------------------------------------------------------------------
(* The order of the queue.                                                 *)

(***************************************************************************)
(* add_task and the workers' pops keep first-in first-out order: no task   *)
(* is lost, repeated or overtaken, for any number of threads.              *)
(***************************************************************************)
THEOREM QueueIsFifo == Spec => []FifoOnce
<1>1. Init => FifoOnce
  BY DEF Init, FifoOnce
<1>2. TypeOK /\ FifoOnce /\ [Next]_vars => FifoOnce'
  <2> SUFFICES ASSUME TypeOK, FifoOnce, [Next]_vars PROVE FifoOnce'
    OBVIOUS
  <2>1. ASSUME NEW c \in Clients, NEW t \in Tasks, AddTask(c, t) PROVE FifoOnce'
    <3>1. added' = popped' \o task_queue'
      BY <2>1, AppendConcat DEF AddTask, TypeOK, FifoOnce
    <3>2. \A i \in DOMAIN added : added[i] # t
      BY <2>1 DEF AddTask, Pushed
    <3>3. added' = Append(added, t)
      BY <2>1 DEF AddTask
    <3>4. \A i, j \in DOMAIN added' : added'[i] = added'[j] => i = j
      BY <3>2, <3>3 DEF TypeOK, FifoOnce
    <3>5. QED
      BY <3>1, <3>4 DEF FifoOnce
  <2>2. ASSUME NEW w \in Workers, Pop(w) PROVE FifoOnce'
    BY <2>2, MoveHead DEF Pop, TypeOK, FifoOnce
  <2>3. ASSUME UNCHANGED <<added, popped, task_queue>> PROVE FifoOnce'
    BY <2>3 DEF FifoOnce
  <2>4. QED
    BY <2>1, <2>2, <2>3
    DEF Next, WorkerStep, Spawn, SpuriousWake, Wait, Exit, Run, NotifyOne, Stop,
        NotifyAll, Join, vars
<1>3. QED
  BY <1>1, <1>2, TypeCorrect, PTL DEF Spec
--------------------------------------------------------------------------------
(* Stopping.                                                               *)

(***************************************************************************)
(* StopWakesAll is not inductive: that no worker goes to sleep behind      *)
(* notify_all's back rests on do_work being cleared before.                *)
(***************************************************************************)
StopInv ==
  /\ StopWakesAll
  /\ owner \in {"notify", "join", "stopped"} => ~do_work
  /\ do_work => At("exited") = {}

(***************************************************************************)
(* StopInv holds: notify_all runs after do_work was cleared, and no worker *)
(* begins to wait while do_work is false.                                  *)
(***************************************************************************)
LEMMA StopInvariant == Spec => []StopInv
<1>1. Init => StopInv
  BY DEF Init, StopInv, StopWakesAll, At
<1>2. TypeOK /\ StopInv /\ [Next]_vars => StopInv'
  <2> SUFFICES ASSUME TypeOK, StopInv, [Next]_vars PROVE StopInv'
    OBVIOUS
  <2> USE DEF TypeOK, StopInv, StopWakesAll, At, WorkerState, OwnerState
  <2>1. ASSUME NEW w \in Workers, Spawn(w) PROVE StopInv'
    BY <2>1 DEF Spawn
  <2>2. ASSUME NEW w \in Workers, SpuriousWake(w) PROVE StopInv'
    BY <2>2 DEF SpuriousWake
  <2>3. ASSUME NEW w \in Workers, WorkerStep(w) PROVE StopInv'
    <3>1. CASE Wait(w)
      BY <3>1 DEF Wait
    <3>2. CASE Exit(w)
      BY <3>2 DEF Exit
    <3>3. CASE Pop(w)
      BY <3>3 DEF Pop
    <3>4. CASE Run(w)
      BY <3>4 DEF Run
    <3>5. QED
      BY <2>3, <3>1, <3>2, <3>3, <3>4 DEF WorkerStep
  <2>4. ASSUME NEW c \in Clients, NotifyOne(c) PROVE StopInv'
    BY <2>4 DEF NotifyOne
  <2>5. ASSUME NEW c \in Clients, NEW t \in Tasks, AddTask(c, t) PROVE StopInv'
    BY <2>5 DEF AddTask
  <2>6. CASE Stop
    BY <2>6 DEF Stop
  <2>7. CASE NotifyAll
    BY <2>7 DEF NotifyAll
  <2>8. CASE Join
    BY <2>8 DEF Join
  <2>9. CASE UNCHANGED vars
    BY <2>9 DEF vars
  <2>10. QED
    BY <2>1, <2>2, <2>3, <2>4, <2>5, <2>6, <2>7, <2>8, <2>9 DEF Next
<1>3. QED
  BY <1>1, <1>2, TypeCorrect, PTL DEF Spec

(***************************************************************************)
(* stop() leaves no worker asleep once it has called notify_all, and when  *)
(* the last worker is joined no task is being executed.                    *)
(***************************************************************************)
THEOREM StopLeavesNobodyAsleep == Spec => []StopWakesAll
<1>1. StopInv => StopWakesAll
  BY DEF StopInv
<1>2. QED
  BY <1>1, StopInvariant, PTL
--------------------------------------------------------------------------------
(* Wake-ups.                                                               *)

Notifying == {c \in Clients : client[c] = "notify"}

(***************************************************************************)
(* The workers at a given place and the clients about to call notify_one   *)
(* are finite in number.                                                   *)
(***************************************************************************)
LEMMA CountsAreNat ==
  /\ \A s : IsFiniteSet(At(s)) /\ Cardinality(At(s)) \in Nat
  /\ IsFiniteSet(Notifying) /\ Cardinality(Notifying) \in Nat
<1>1. ASSUME NEW s PROVE IsFiniteSet(At(s)) /\ Cardinality(At(s)) \in Nat
  <2>1. At(s) \in SUBSET Workers
    BY DEF At
  <2>2. QED
    BY <2>1, PoolAssumption, FS_Subset, FS_CardinalityType
<1>2. IsFiniteSet(Notifying) /\ Cardinality(Notifying) \in Nat
  <2>1. Notifying \in SUBSET Clients
    BY DEF Notifying
  <2>2. QED
    BY <2>1, PoolAssumption, FS_Subset, FS_CardinalityType
<1>3. QED
  BY <1>1, <1>2

(***************************************************************************)
(* A worker that comes to "test" adds one to the workers there; one that   *)
(* leaves takes one away.                                                  *)
(***************************************************************************)
LEMMA OneMoreTests ==
  ASSUME TypeOK, NEW w \in Workers, worker[w] # "test",
         worker' = [worker EXCEPT ![w] = "test"]
  PROVE  Cardinality(At("test"))' = Cardinality(At("test")) + 1
<1>1. At("test")' = At("test") \cup {w} /\ w \notin At("test")
  BY DEF At, TypeOK
<1>2. QED
  BY <1>1, CountsAreNat, FS_AddElement

\* A worker that leaves "test" lowers their number by one.
LEMMA OneLessTests ==
  ASSUME TypeOK, NEW w \in Workers, worker[w] = "test",
         worker' = [worker EXCEPT ![w] = "run"]
  PROVE  Cardinality(At("test"))' = Cardinality(At("test")) - 1
<1>1. At("test")' = At("test") \ {w} /\ w \in At("test")
  BY DEF At, TypeOK
<1>2. QED
  BY <1>1, CountsAreNat, FS_RemoveElement

(***************************************************************************)
(* No wake-up is lost, for any number of workers and clients: as long as   *)
(* the pool works and some worker sleeps, every queued task is matched by  *)
(* a worker that will test the queue or a notify_one that is still to      *)
(* come, although add_task notifies without the mutex.                     *)
(***************************************************************************)
THEOREM WakeupsAreNotLost == Spec => []NoLostWakeup
<1>1. Init => NoLostWakeup
  BY DEF Init, NoLostWakeup, At
<1>2. TypeOK /\ NoLostWakeup /\ [Next]_vars => NoLostWakeup'
  <2> SUFFICES ASSUME TypeOK, NoLostWakeup, [Next]_vars,
                      do_work', At("waiting")' # {}
               PROVE  Len(task_queue') <= Cardinality(At("test"))' + Cardinality(Notifying)'
    BY DEF NoLostWakeup, Notifying
  <2> DEFINE tests == Cardinality(At("test"))
             notifies == Cardinality(Notifying)
  <2>0. /\ tests \in Nat /\ notifies \in Nat /\ Len(task_queue) \in Nat
        /\ do_work /\ At("waiting") # {} => Len(task_queue) <= tests + notifies
    BY CountsAreNat, LenProperties DEF NoLostWakeup, Notifying, TypeOK
  <2>1. ASSUME NEW w \in Workers, Spawn(w) \/ SpuriousWake(w) \/ Run(w)
        PROVE  Len(task_queue') <= tests' + notifies'
    <3>1. /\ worker[w] # "test" /\ worker' = [worker EXCEPT ![w] = "test"]
          /\ UNCHANGED <<client, task_queue, do_work>>
      BY <2>1, Zenon DEF Spawn, SpuriousWake, Run
    <3>2. tests' = tests + 1
      BY <3>1, OneMoreTests, Zenon
    <3>3. notifies' = notifies
      BY <3>1 DEF Notifying
    <3>4. At("waiting")' \subseteq At("waiting")
      BY <3>1 DEF At, TypeOK
    <3>5. QED
      BY <2>0, <3>1, <3>2, <3>3, <3>4
  <2>2. ASSUME NEW w \in Workers, Wait(w)
        PROVE  Len(task_queue') <= tests' + notifies'
    <3>1. Len(task_queue') = 0
      BY <2>2 DEF Wait
    <3>2. tests' \in Nat /\ notifies' \in Nat
      <4>1. At("test")' \in SUBSET Workers /\ Notifying' \in SUBSET Clients
        BY DEF At, Notifying
      <4>2. QED
        BY <4>1, PoolAssumption, FS_Subset, FS_CardinalityType
    <3>3. QED
      BY <3>1, <3>2
  <2>3. ASSUME NEW w \in Workers, Exit(w)
        PROVE  Len(task_queue') <= tests' + notifies'
    BY <2>3 DEF Exit
  <2>4. ASSUME NEW w \in Workers, Pop(w)
        PROVE  Len(task_queue') <= tests' + notifies'
    <3>1. /\ worker[w] = "test" /\ do_work /\ UNCHANGED client
          /\ Len(task_queue') = Len(task_queue) - 1
      BY <2>4, HeadTailProperties DEF Pop, TypeOK
    <3>2. worker' = worker \/ worker' = [worker EXCEPT ![w] = "run"]
      BY <2>4 DEF Pop
    <3>3. tests' = tests \/ tests' = tests - 1
      BY <3>1, <3>2, OneLessTests, Zenon DEF At
    <3>4. notifies' = notifies
      BY <3>1 DEF Notifying
    <3>5. At("waiting")' \subseteq At("waiting")
      BY <3>2 DEF At, TypeOK
    <3>6. QED
      BY <2>0, <3>1, <3>3, <3>4, <3>5
  <2>5. ASSUME NEW c \in Clients, NotifyOne(c)
        PROVE  Len(task_queue') <= tests' + notifies'
    <3>1. UNCHANGED <<task_queue, do_work>>
      BY <2>5, Zenon DEF NotifyOne
    <3>2. notifies' = notifies - 1
      <4>1. Notifying' = Notifying \ {c} /\ c \in Notifying
        BY <2>5 DEF NotifyOne, Notifying, TypeOK
      <4>2. QED
        BY <4>1, CountsAreNat, FS_RemoveElement
    <3>3. PICK w \in At("waiting") : worker' = [worker EXCEPT ![w] = "test"]
      BY <2>5 DEF NotifyOne, At
    <3>4. tests' = tests + 1
      BY <3>3, OneMoreTests, Zenon DEF At
    <3>5. QED
      BY <2>0, <3>1, <3>2, <3>3, <3>4
  <2>6. ASSUME NEW c \in Clients, NEW t \in Tasks, AddTask(c, t)
        PROVE  Len(task_queue') <= tests' + notifies'
    <3>1. /\ UNCHANGED <<worker, do_work>> /\ Len(task_queue') = Len(task_queue) + 1
      <4>1. task_queue' = Append(task_queue, t) /\ task_queue \in Seq(Tasks)
        BY <2>6 DEF AddTask, TypeOK
      <4>2. Len(task_queue') = Len(task_queue) + 1
        BY <4>1
      <4>3. UNCHANGED <<worker, do_work>>
        BY <2>6, Zenon DEF AddTask
      <4>4. QED
        BY <4>2, <4>3, Zenon
    <3>2. notifies' = notifies + 1
      <4>1. Notifying' = Notifying \cup {c} /\ c \notin Notifying
        BY <2>6 DEF AddTask, Notifying, TypeOK
      <4>2. QED
        BY <4>1, CountsAreNat, FS_AddElement, Zenon
    <3>3. tests' = tests /\ At("waiting")' = At("waiting")
      BY <3>1 DEF At
    <3>4. QED
      BY <2>0, <3>1, <3>2, <3>3
  <2>7. ASSUME Stop PROVE FALSE
    BY <2>7 DEF Stop
  <2>8. ASSUME NotifyAll PROVE FALSE
    BY <2>8 DEF NotifyAll, At
  <2>9. ASSUME UNCHANGED <<task_queue, worker, client, do_work>>
        PROVE  Len(task_queue') <= tests' + notifies'
    BY <2>0, <2>9 DEF At, Notifying
  <2>10. QED
    BY <2>1, <2>2, <2>3, <2>4, <2>5, <2>6, <2>7, <2>8, <2>9, Zenon
    DEF Next, WorkerStep, Join, vars
<1>3. QED
  BY <1>1, <1>2, TypeCorrect, PTL DEF Spec
--------------------------------------------------------------------------------
(* Refinement of TaskQueue.                                                *)

(***************************************************************************)
(* A pop takes the oldest task of the abstract queue for an idle worker;   *)
(* an empty function is dropped.                                           *)
(***************************************************************************)
LEMMA PopIsTake ==
  ASSUME TypeOK, NEW w \in Workers, Pop(w)
  PROVE  Q!Take(w)
<1>1. /\ task[w] = NoTask /\ task_queue # <<>> /\ do_work /\ do_work'
  BY DEF Pop, TypeOK
<1>2. task' = IF Head(task_queue) \in EmptyTasks
                THEN task ELSE [task EXCEPT ![w] = Head(task_queue)]
  BY DEF Pop
<1>3. QED
  BY <1>1, <1>2 DEF Q!Take, Q!Idle, Pop

(***************************************************************************)
(* A worker that returns leaves the abstract queue as it is, or closes it  *)
(* when it is the last one.                                                *)
(***************************************************************************)
LEMMA ExitMayClose ==
  ASSUME TypeOK, NEW w \in Workers, Exit(w)
  PROVE  Q!Closed \/ UNCHANGED Q!queueVars
<1>1. /\ worker[w] = "test" /\ ~do_work
      /\ worker' = [worker EXCEPT ![w] = "exited"]
      /\ UNCHANGED <<task_queue, do_work, task>>
  BY DEF Exit
<1>2. At("exited") # Workers
  BY <1>1 DEF At
<1>3. CASE At("exited")' = Workers
  <2>1. \A v \in Workers : worker'[v] = "exited"
    BY <1>3 DEF At
  <2>2. \A v \in Workers : worker[v] # "run"
    BY <1>1, <2>1 DEF TypeOK
  <2>3. \A v \in Workers : task[v] = NoTask
    BY <2>2 DEF TypeOK
  <2>4. QED
    BY <1>1, <1>2, <1>3, <2>3 DEF Q!Closed, Q!Idle
<1>4. CASE At("exited")' # Workers
  BY <1>1, <1>2, <1>4 DEF Q!queueVars
<1>5. QED
  BY <1>3, <1>4

(***************************************************************************)
(* Every behaviour of parallel_scheduler is, step by step, a behaviour of  *)
(* the abstract queue: add_task enqueues, a pop takes the oldest task, the *)
(* end of a task frees the worker, stop() closes the queue.                *)
(***************************************************************************)
THEOREM PoolImplementsQueue == Spec => Q!QueueInit /\ [][Q!QueueNext]_(Q!queueVars)
<1>1. Init => Q!QueueInit
  BY DEF Init, Q!QueueInit
<1>2. TypeOK /\ StopInv /\ [Next]_vars => [Q!QueueNext]_(Q!queueVars)
  <2> SUFFICES ASSUME TypeOK, StopInv, [Next]_vars
               PROVE  Q!QueueNext \/ UNCHANGED Q!queueVars
    OBVIOUS
  <2>1. ASSUME NEW w \in Workers, Spawn(w) \/ SpuriousWake(w) \/ Wait(w)
        PROVE  UNCHANGED Q!queueVars
    <3>1. /\ UNCHANGED <<task_queue, do_work, task>>
          /\ worker[w] # "exited" /\ worker'[w] # "exited"
      BY <2>1 DEF Spawn, SpuriousWake, Wait, TypeOK
    <3>2. At("exited") # Workers /\ At("exited")' # Workers
      BY <3>1 DEF At
    <3>3. QED
      BY <3>1, <3>2 DEF Q!queueVars
  <2>2. ASSUME NEW w \in Workers, Exit(w) PROVE Q!QueueNext \/ UNCHANGED Q!queueVars
    BY <2>2, ExitMayClose DEF Q!QueueNext
  <2>3. ASSUME NEW w \in Workers, Pop(w) PROVE Q!QueueNext
    BY <2>3, PopIsTake DEF Q!QueueNext
  <2>4. ASSUME NEW w \in Workers, Run(w) PROVE Q!QueueNext
    <3>1. /\ UNCHANGED <<task_queue, do_work>> /\ task' = [task EXCEPT ![w] = NoTask]
          /\ worker[w] = "run" /\ worker'[w] = "test" /\ task[w] # NoTask
      BY <2>4 DEF Run, TypeOK
    <3>2. At("exited") # Workers /\ At("exited")' # Workers
      BY <3>1 DEF At
    <3>3. Q!Finish(w)
      BY <3>1, <3>2 DEF Q!Finish, Q!Idle
    <3>4. QED
      BY <3>3 DEF Q!QueueNext
  <2>5. ASSUME NEW c \in Clients, NotifyOne(c) PROVE UNCHANGED Q!queueVars
    <3>1. UNCHANGED <<task_queue, do_work, task>>
      BY <2>5 DEF NotifyOne
    <3>2. At("exited")' = At("exited")
      BY <2>5 DEF NotifyOne, At, TypeOK
    <3>3. QED
      BY <3>1, <3>2 DEF Q!queueVars
  <2>6. ASSUME NEW c \in Clients, NEW t \in Tasks, AddTask(c, t) PROVE Q!QueueNext
    <3>1. Q!Enqueue(t)
      BY <2>6 DEF AddTask, Q!Enqueue, At
    <3>2. QED
      BY <3>1 DEF Q!QueueNext
  <2>7. ASSUME Stop PROVE Q!QueueNext \/ UNCHANGED Q!queueVars
    <3>1. UNCHANGED <<task_queue, task, worker>> /\ ~do_work'
      BY <2>7 DEF Stop
    <3>2. CASE owner = "idle" /\ do_work
      <4>1. At("exited") # Workers
        BY <3>2, PoolAssumption DEF StopInv
      <4>2. Q!Close
        BY <3>1, <3>2, <4>1 DEF Q!Close, At
      <4>3. QED
        BY <4>2 DEF Q!QueueNext
    <3>3. CASE ~do_work
      BY <3>1, <3>3 DEF Q!queueVars, At
    <3>4. QED
      BY <2>7, <3>2, <3>3 DEF Stop, StopInv, TypeOK
  <2>8. ASSUME NotifyAll PROVE UNCHANGED Q!queueVars
    <3>1. At("exited")' = At("exited")
      BY <2>8 DEF NotifyAll, At, TypeOK
    <3>2. QED
      BY <2>8, <3>1 DEF NotifyAll, Q!queueVars
  <2>9. ASSUME UNCHANGED <<task_queue, task, worker, do_work>> PROVE UNCHANGED Q!queueVars
    BY <2>9 DEF Q!queueVars, At
  <2>10. QED
    BY <2>1, <2>2, <2>3, <2>4, <2>5, <2>6, <2>7, <2>8, <2>9
    DEF Next, WorkerStep, Join, vars
<1>3. QED
  BY <1>1, <1>2, TypeCorrect, StopInvariant, PTL DEF Spec
--------------------------------------------------------------------------------
(* Settings.                                                               *)

Regional == {id \in Ids : Facade[id] = "region"}

\* Types; only settings with a region are connected to the switch tick.
SettingsTypeOK ==
  /\ cache \in [Ids -> Values \cup {NoValue}]
  /\ buffer \in [Ids -> Values]
  /\ changed \in [Ids -> BOOLEAN]
  /\ handlers \in Seq(Regional)
  /\ writing \in Regional \cup {NoId}
  /\ within \in BOOLEAN
  /\ tickAt \in {"idle", "test", "call", "reset"}
  /\ tickLeft \in Seq(Regional)
  /\ tickAt # "idle" => tickLeft # <<>>
  /\ written \in [Ids -> Values \cup {NoValue}]
  /\ overtaken \subseteq Ids

\* The tick has found the setting changed and has not reset it yet.
InHand(id) == tickAt \in {"call", "reset"} /\ Head(tickLeft) = id

\* A value that may be forwarded is the last one that was accepted, and a valid one.
BufferReady(id) ==
  changed[id] \/ writing = id \/ InHand(id) =>
    Constructed(id) /\ buffer[id] = written[id] /\ buffer[id] \in Valid[id]

\* Once the setter was called, the setting lags behind only because of a write that
\* began afterwards.
LagsBehind(id) ==
  Forwarding(id) =>
    \/ cache[id] = written[id]
    \/ writing = id /\ within
    \/ writing # id /\ id \in overtaken

\* A write that is not marked as changed has reached the setting.
Arrived(id) ==
  \/ id \in overtaken
  \/ writing = id
  \/ cache[id] = written[id]
  \/ changed[id] /\ buffer[id] = written[id]

CacheValid(id) == cache[id] = NoValue \/ cache[id] \in Valid[id]

SettingsInv ==
  /\ SettingsTypeOK
  /\ \A id \in Ids : CacheValid(id) /\ Arrived(id)
  /\ \A id \in Regional : BufferReady(id) /\ LagsBehind(id)
--------------------------------------------------------------------------------
(* The invariant holds initially and is preserved by every step.           *)

(***************************************************************************)
(* The rest of the handlers that the switch tick has to call.              *)
(***************************************************************************)
LEMMA RestOfSequence ==
  ASSUME NEW S, NEW s \in Seq(S), s # <<>>
  PROVE  Head(s) \in S /\ Tail(s) \in Seq(S) /\ (Len(s) # 1 => Tail(s) # <<>>)
<1>1. Len(s) \in Nat \ {0}
  OBVIOUS
<1>2. Tail(s) \in Seq(S) /\ Len(Tail(s)) = Len(s) - 1
  BY <1>1
<1>3. Len(s) # 1 => Len(Tail(s)) # 0
  BY <1>1, <1>2
<1> QED BY <1>1, <1>2, <1>3

(***************************************************************************)
(* Before any setting is constructed no forwarder holds a value            *)
(* (setting_forwarder starts with changed = false).                        *)
(***************************************************************************)
LEMMA InitEstablishes == SettingsInit => SettingsInv
<1> SUFFICES ASSUME SettingsInit PROVE SettingsInv
  OBVIOUS
<1> USE SettingsAssumption
<1>0. <<>> \in Seq(Regional)
  OBVIOUS
<1>1. SettingsTypeOK
  BY <1>0, Zenon DEF SettingsInit, SettingsTypeOK
<1>2. \A id \in Ids : CacheValid(id) /\ Arrived(id)
  BY Zenon DEF SettingsInit, CacheValid, Arrived
<1>3. \A id \in Regional : BufferReady(id) /\ LagsBehind(id)
  BY Zenon DEF SettingsInit, BufferReady, LagsBehind, InHand, Forwarding, Regional
<1> QED BY <1>1, <1>2, <1>3 DEF SettingsInv

(***************************************************************************)
(* Constructing a setting (the constructor of fc::setting), or registering *)
(* a value with a region, gives it a valid value and leaves its forwarder  *)
(* empty.                                                                  *)
(***************************************************************************)
LEMMA ConstructPreserves ==
  ASSUME SettingsInv, NEW id \in Ids, NEW v \in Values,
         Construct(id, v) \/ RegisterWithRegion(id, v)
  PROVE  SettingsInv'
<1> USE SettingsAssumption
<1> DEFINE w == IF Facade[id] = "json" THEN Archive[id] ELSE v
<1>0. SettingsTypeOK
  BY DEF SettingsInv
<1>1. CASE w \in Valid[id]
  <2>1. w \in Values
    BY <1>1
  <2>2. cache' = [cache EXCEPT ![id] = w] /\ written' = [written EXCEPT ![id] = w]
    BY <1>1 DEF Construct, RegisterWithRegion, RegisterInitial, RegisterJson, Setter, Accept
  <2>3. handlers' \in Seq(Regional)
    <3>1. handlers \in Seq(Regional)
      BY <1>0 DEF SettingsTypeOK
    <3>2. CASE Construct(id, v)
      BY <3>1, <3>2 DEF Construct
    <3>3. CASE RegisterWithRegion(id, v)
      <4>1. id \in Regional /\ handlers' = Append(handlers, id)
        BY <3>3 DEF RegisterWithRegion, Regional
      <4> QED BY <3>1, <4>1
    <3> QED BY <3>2, <3>3
  <2>4. SettingsTypeOK'
    BY <1>0, <2>1, <2>2, <2>3 DEF SettingsTypeOK, Construct, RegisterWithRegion, tickVars
  <2>5. \A j \in Ids : CacheValid(j)' /\ Arrived(j)'
    BY <1>0, <1>1, <2>2 DEF SettingsInv, SettingsTypeOK, Construct, RegisterWithRegion,
                            CacheValid, Arrived
  <2>6. \A j \in Regional : BufferReady(j)' /\ LagsBehind(j)'
    BY <1>0, <2>2 DEF SettingsInv, SettingsTypeOK, Construct, RegisterWithRegion, tickVars,
                      Constructed, BufferReady, LagsBehind, InHand, Forwarding, Regional
  <2> QED BY <2>4, <2>5, <2>6 DEF SettingsInv
<1>2. CASE w \notin Valid[id]
  <2>1. UNCHANGED <<cache, buffer, changed, handlers, writing, within, tickVars, written, overtaken>>
    BY <1>2 DEF Construct, RegisterWithRegion, RegisterJson
  <2> QED BY <2>1 DEF SettingsInv, SettingsTypeOK, tickVars, CacheValid, Arrived, Constructed,
                      BufferReady, LagsBehind, InHand, Forwarding
<1> QED BY <1>1, <1>2

(***************************************************************************)
(* settings_backend::write on a setting without region stores a value that *)
(* was checked against the constraint.                                     *)
(***************************************************************************)
LEMMA WriteDirectPreserves ==
  ASSUME SettingsInv, NEW id \in Ids, NEW text \in Texts, WriteDirect(id, text)
  PROVE  SettingsInv'
<1> USE SettingsAssumption
<1>0. SettingsTypeOK /\ text \in Values /\ text \in Valid[id]
  BY DEF SettingsInv, WriteDirect, Refusal
<1>1. SettingsTypeOK'
  BY <1>0 DEF SettingsTypeOK, WriteDirect, Setter, Accept, tickVars
<1>2. \A j \in Ids : CacheValid(j)' /\ Arrived(j)'
  BY <1>0 DEF SettingsInv, SettingsTypeOK, WriteDirect, Setter, Accept, CacheValid, Arrived
<1>3. \A j \in Regional : BufferReady(j)' /\ LagsBehind(j)'
  BY <1>0 DEF SettingsInv, SettingsTypeOK, WriteDirect, Setter, Accept, tickVars, Constructed,
              BufferReady, LagsBehind, InHand, Forwarding, Regional
<1> QED BY <1>1, <1>2, <1>3 DEF SettingsInv

(***************************************************************************)
(* The first store of setting_forwarder::operator() puts a checked value   *)
(* into buffer.                                                            *)
(***************************************************************************)
LEMMA StoreBufferPreserves ==
  ASSUME SettingsInv, NEW id \in Ids, NEW text \in Texts, StoreBuffer(id, text)
  PROVE  SettingsInv'
<1> USE SettingsAssumption
<1>0. /\ SettingsTypeOK /\ text \in Values /\ text \in Valid[id]
      /\ id \in Regional /\ Constructed(id) /\ writing = NoId
  BY DEF SettingsInv, StoreBuffer, Refusal, Registered, Regional
<1>1. SettingsTypeOK'
  BY <1>0 DEF SettingsTypeOK, StoreBuffer, NowBuffered, Accept, tickVars, Forwarding
<1>2. \A j \in Ids : CacheValid(j)' /\ Arrived(j)'
  BY <1>0 DEF SettingsInv, SettingsTypeOK, StoreBuffer, Accept, NowBuffered, CacheValid, Arrived
<1>3. \A j \in Regional : BufferReady(j)'
  BY <1>0 DEF SettingsInv, SettingsTypeOK, StoreBuffer, NowBuffered, Accept, tickVars, Constructed,
              BufferReady, InHand, Regional
<1>4. \A j \in Regional : LagsBehind(j)'
  BY <1>0, Zenon DEF SettingsInv, SettingsTypeOK, StoreBuffer, Accept, tickVars,
              LagsBehind, Forwarding, Regional
<1> QED BY <1>1, <1>2, <1>3, <1>4 DEF SettingsInv

(***************************************************************************)
(* The second store, changed = true: either the setting will be forwarded, *)
(* or the whole write lies within a forwarding and is counted as overtaken.*)
(***************************************************************************)
LEMMA StoreChangedPreserves ==
  ASSUME SettingsInv, StoreChanged
  PROVE  SettingsInv'
<1> USE SettingsAssumption
<1>0. SettingsTypeOK /\ writing \in Regional /\ writing \in Ids
  BY DEF SettingsInv, SettingsTypeOK, StoreChanged, Regional
<1>1. SettingsTypeOK'
  BY <1>0, Zenon DEF SettingsTypeOK, StoreChanged, tickVars
<1>2. \A j \in Ids : CacheValid(j)' /\ Arrived(j)'
  BY <1>0 DEF SettingsInv, SettingsTypeOK, StoreChanged, CacheValid, Arrived, BufferReady
<1>3. \A j \in Regional : BufferReady(j)'
  BY <1>0 DEF SettingsInv, SettingsTypeOK, StoreChanged, tickVars, Constructed,
              BufferReady, InHand, Regional
<1>4. \A j \in Regional : LagsBehind(j)'
  BY <1>0 DEF SettingsInv, SettingsTypeOK, StoreChanged, tickVars,
              LagsBehind, Forwarding, Regional
<1> QED BY <1>1, <1>2, <1>3, <1>4 DEF SettingsInv

(***************************************************************************)
(* The steps of the switch tick that only walk from handler to handler     *)
(* (event_source::fire, and the test of forward_if_changed).               *)
(***************************************************************************)
LEMMA WalkPreserves ==
  ASSUME SettingsInv, StartTick \/ TestChanged
  PROVE  SettingsInv'
<1> USE SettingsAssumption
<1>0. SettingsTypeOK
  BY DEF SettingsInv
<1>1. SettingsTypeOK'
  <2>1. CASE StartTick
    BY <1>0, <2>1 DEF SettingsTypeOK, StartTick
  <2>2. CASE TestChanged
    <3>1. Tail(tickLeft) \in Seq(Regional) /\ (Len(tickLeft) # 1 => Tail(tickLeft) # <<>>)
      BY <1>0, <2>2, RestOfSequence DEF SettingsTypeOK, TestChanged
    <3> QED BY <1>0, <2>2, <3>1, Zenon DEF SettingsTypeOK, TestChanged, NextHandler
  <2> QED BY <2>1, <2>2
<1>2. \A j \in Ids : CacheValid(j)' /\ Arrived(j)'
  BY DEF SettingsInv, StartTick, TestChanged, CacheValid, Arrived
<1>3. \A j \in Regional : BufferReady(j)' /\ LagsBehind(j)'
  BY <1>0 DEF SettingsInv, SettingsTypeOK, StartTick, TestChanged, NextHandler, Constructed,
              BufferReady, LagsBehind, InHand, Forwarding
<1> QED BY <1>1, <1>2, <1>3 DEF SettingsInv

(***************************************************************************)
(* callback(buffer) in forward_if_changed: the setting gets the last       *)
(* accepted value.                                                         *)
(***************************************************************************)
LEMMA CallSetterPreserves ==
  ASSUME SettingsInv, CallSetter
  PROVE  SettingsInv'
<1> USE SettingsAssumption
<1> DEFINE h == Head(tickLeft)
<1>0. SettingsTypeOK /\ h \in Regional /\ h \in Ids
  BY DEF SettingsInv, SettingsTypeOK, CallSetter, Regional
<1>1. buffer[h] = written[h] /\ buffer[h] \in Valid[h] /\ buffer[h] \in Values
  BY <1>0 DEF SettingsInv, SettingsTypeOK, CallSetter, BufferReady, InHand
<1>2. SettingsTypeOK'
  BY <1>0, <1>1 DEF SettingsTypeOK, CallSetter, Setter
<1>3. \A j \in Ids : CacheValid(j)' /\ Arrived(j)'
  BY <1>0, <1>1 DEF SettingsInv, SettingsTypeOK, CallSetter, Setter, CacheValid, Arrived
<1>4. \A j \in Regional : BufferReady(j)'
  BY <1>0, <1>1 DEF SettingsInv, SettingsTypeOK, CallSetter, Setter, BufferReady, InHand,
                    Constructed, Regional
<1>5. \A j \in Regional : LagsBehind(j)'
  BY <1>0, <1>1 DEF SettingsInv, SettingsTypeOK, CallSetter, Setter, LagsBehind, Forwarding, Regional
<1> QED BY <1>2, <1>3, <1>4, <1>5 DEF SettingsInv

(***************************************************************************)
(* changed = false in forward_if_changed: a value that was not forwarded   *)
(* belongs to a write that is still running or was overtaken.              *)
(***************************************************************************)
LEMMA ResetChangedPreserves ==
  ASSUME SettingsInv, ResetChanged
  PROVE  SettingsInv'
<1> USE SettingsAssumption
<1> DEFINE h == Head(tickLeft)
<1>0. SettingsTypeOK /\ h \in Regional /\ h \in Ids
  BY DEF SettingsInv, SettingsTypeOK, ResetChanged, Regional
<1>1. SettingsTypeOK'
  <2>1. Tail(tickLeft) \in Seq(Regional) /\ (Len(tickLeft) # 1 => Tail(tickLeft) # <<>>)
    BY <1>0, RestOfSequence DEF SettingsTypeOK, ResetChanged
  <2> QED BY <1>0, <2>1 DEF SettingsTypeOK, ResetChanged, NextHandler
<1>2. \A j \in Ids : CacheValid(j)' /\ Arrived(j)'
  <2>1. \A j \in Ids : CacheValid(j)'
    BY DEF SettingsInv, ResetChanged, CacheValid
  <2>2. cache[h] = written[h] \/ writing = h \/ h \in overtaken
    BY <1>0, Zenon DEF SettingsInv, ResetChanged, LagsBehind, Forwarding
  <2>3. \A j \in Ids : Arrived(j)'
    BY <1>0, <2>2 DEF SettingsInv, SettingsTypeOK, ResetChanged, Arrived
  <2> QED BY <2>1, <2>3
<1>3. \A j \in Regional : BufferReady(j)'
  BY <1>0 DEF SettingsInv, SettingsTypeOK, ResetChanged, NextHandler, BufferReady, InHand,
              Constructed, Regional
<1>4. \A j \in Regional : LagsBehind(j)'
  BY Zenon DEF ResetChanged, NextHandler, LagsBehind, Forwarding
<1> QED BY <1>1, <1>2, <1>3, <1>4 DEF SettingsInv

(***************************************************************************)
(* A write that is refused changes nothing but the answer.                 *)
(***************************************************************************)
LEMMA OthersPreserve ==
  ASSUME SettingsInv,
         cache' = cache, buffer' = buffer, changed' = changed, handlers' = handlers,
         writing' = writing, within' = within, tickAt' = tickAt, tickLeft' = tickLeft,
         written' = written, overtaken' = overtaken
  PROVE  SettingsInv'
<1>1. SettingsTypeOK'
  BY DEF SettingsInv, SettingsTypeOK
<1>2. \A j \in Ids : CacheValid(j)' /\ Arrived(j)'
  BY Zenon DEF SettingsInv, CacheValid, Arrived
<1>3. \A j \in Regional : BufferReady(j)' /\ LagsBehind(j)'
  BY DEF SettingsInv, BufferReady, LagsBehind, InHand, Forwarding, Constructed
<1> QED BY <1>1, <1>2, <1>3, Zenon DEF SettingsInv

(***************************************************************************)
(* The invariant of the hand-over between settings_backend::write and the  *)
(* switch tick holds in every reachable state.                             *)
(***************************************************************************)
THEOREM SettingsInvariant == SettingsSpec => []SettingsInv
<1>1. SettingsInit => SettingsInv
  BY InitEstablishes
<1>2. SettingsInv /\ [SettingsNext]_settingVars => SettingsInv'
  <2> SUFFICES ASSUME SettingsInv, [SettingsNext]_settingVars PROVE SettingsInv'
    OBVIOUS
  <2>1. CASE \E id \in Ids, v \in Values : Construct(id, v) \/ RegisterWithRegion(id, v)
    BY <2>1, ConstructPreserves
  <2>2. CASE \E id \in Ids, text \in Texts : RefuseWrite(id, text)
    BY <2>2, OthersPreserve DEF RefuseWrite, tickVars
  <2>3. CASE \E id \in Ids, text \in Texts : WriteDirect(id, text)
    BY <2>3, WriteDirectPreserves
  <2>4. CASE \E id \in Ids, text \in Texts : StoreBuffer(id, text)
    BY <2>4, StoreBufferPreserves
  <2>5. CASE StoreChanged
    BY <2>5, StoreChangedPreserves
  <2>6. CASE StartTick \/ TestChanged
    BY <2>6, WalkPreserves
  <2>7. CASE CallSetter
    BY <2>7, CallSetterPreserves
  <2>8. CASE ResetChanged
    BY <2>8, ResetChangedPreserves
  <2>9. CASE UNCHANGED settingVars
    BY <2>9, OthersPreserve DEF settingVars, tickVars
  <2> QED BY <2>1, <2>2, <2>3, <2>4, <2>5, <2>6, <2>7, <2>8, <2>9 DEF SettingsNext
<1> QED BY <1>1, <1>2, PTL DEF SettingsSpec

(***************************************************************************)
(* setting::operator() never returns a value that violates the constraint. *)
(***************************************************************************)
THEOREM ConstraintsHold == SettingsSpec => []SettingsFulfilConstraints
<1>1. SettingsInv => SettingsFulfilConstraints
  BY DEF SettingsInv, SettingsFulfilConstraints, CacheValid, Constructed
<1> QED BY <1>1, SettingsInvariant, PTL

(***************************************************************************)
(* A value accepted by settings_backend::write has reached the setting or  *)
(* is marked for the next switch tick, unless forward_if_changed overtook  *)
(* it.                                                                     *)
(***************************************************************************)
THEOREM WritesArrive == SettingsSpec => []AcceptedWritesArrive
<1>1. SettingsInv => AcceptedWritesArrive
  BY Zenon DEF SettingsInv, AcceptedWritesArrive, Arrived
<1> QED BY <1>1, SettingsInvariant, PTL
--------------------------------------------------------------------------------
(* The two clocks run in step.                                             *)

ClockTypeOK ==
  /\ steady \in Nat /\ system \in Int /\ loaded \in Int
  /\ clockAt \in {"idle", "storeSteady", "loadSystem", "storeSystem"}
  /\ base \in Int /\ mark \in Nat
  /\ missed \in BOOLEAN

\* What advance has loaded is still the time of the clock, unless set_time came in
\* between; and a time is never set in the future of the steady clock.
ClockInv ==
  /\ ClockTypeOK
  /\ clockAt = "storeSteady" => loaded = steady
  /\ clockAt = "storeSystem" /\ ~missed => loaded = system
  /\ clockAt \in {"loadSystem", "storeSystem"} => steady > 0
  /\ mark <= Common
  /\ ~missed => system = from_time_t(base) + (Common - mark)
--------------------------------------------------------------------------------
(***************************************************************************)
(* Whole seconds can be taken out of a duration before it is cast.         *)
(***************************************************************************)
LEMMA DivideSum ==
  ASSUME NEW s \in Nat \ {0}, NEW b \in Nat, NEW k \in Nat
  PROVE  (b * s + k) \div s = b + k \div s
<1> DEFINE q == k \div s
           r == k % s
<1>1. q \in Int /\ r \in 0 .. s - 1 /\ k = s * q + r
  OBVIOUS
<1>2. b * s + k = s * (b + q) + r
  BY <1>1
<1> HIDE DEF q, r
<1>3. (s * (b + q) + r) \div s = b + q
  <2>1. \A n \in Int : (s * n + r) \div s = n
    BY <1>1
  <2> QED BY <1>1, <2>1
<1> QED BY <1>2, <1>3 DEF q

(***************************************************************************)
(* The invariant holds when the program starts and after every step of     *)
(* advance and every set_time.                                             *)
(***************************************************************************)
LEMMA ClockInvariant == ClockSpec => []ClockInv
<1> USE ClockAssumption
<1>1. ClockInit => ClockInv
  <2>1. from_time_t(0) = 0
    BY DEF from_time_t
  <2>2. ClockInit => ClockTypeOK
    <3>1. ClockInit => missed \in BOOLEAN
      BY Zenon DEF ClockInit
    <3>2. ClockInit => /\ steady \in Nat /\ system \in Int /\ loaded \in Int
                       /\ base \in Int /\ mark \in Nat
      BY DEF ClockInit
    <3> QED BY <3>1, <3>2, Zenon DEF ClockInit, ClockTypeOK
  <2>3. ClockInit => Common = 0
    BY DEF ClockInit, Common
  <2> QED BY <2>1, <2>2, <2>3 DEF ClockInit, ClockInv
<1>2. ClockInv /\ [ClockNext]_clockVars => ClockInv'
  <2> SUFFICES ASSUME ClockInv, [ClockNext]_clockVars PROVE ClockInv'
    OBVIOUS
  <2>0. \A t \in Int : from_time_t(t) \in Int
    BY DEF from_time_t
  <2> USE DEF ClockInv, ClockTypeOK, Common
  <2>1. CASE LoadSteady
    BY <2>0, <2>1 DEF LoadSteady
  <2>2. CASE StoreSteady
    BY <2>0, <2>2 DEF StoreSteady
  <2>3. CASE LoadSystem
    BY <2>0, <2>3 DEF LoadSystem
  <2>4. CASE StoreSystem
    BY <2>0, <2>4 DEF StoreSystem
  <2>5. ASSUME NEW t \in Times, set_time(t) PROVE ClockInv'
    <3>1. t \in Int /\ from_time_t(t) \in Int
      BY <2>0
    <3>2. Common \in Nat /\ Common' = Common
      BY <2>5 DEF set_time
    <3>3. ClockTypeOK'
      BY <2>5, <3>1, <3>2 DEF set_time
    <3>4. (mark <= Common)'
      BY <2>5, <3>2 DEF set_time
    <3>5. /\ (clockAt \in {"loadSystem", "storeSystem"} => steady > 0)'
          /\ (clockAt = "storeSteady" => loaded = steady)'
      BY <2>5 DEF set_time
    <3>6. system' = from_time_t(base)' + (Common' - mark')
      BY <2>5, <3>1, <3>2 DEF set_time, from_time_t
    <3>7. (clockAt = "storeSystem" => missed)'
      BY <2>5, Zenon DEF set_time
    <3> QED BY <3>3, <3>4, <3>5, <3>6, <3>7, Zenon
  <2>6. CASE UNCHANGED clockVars
    BY <2>0, <2>6 DEF clockVars
  <2> QED BY <2>1, <2>2, <2>3, <2>4, <2>5, <2>6, Zenon DEF ClockNext
<1> QED BY <1>1, <1>2, PTL DEF ClockSpec

(***************************************************************************)
(* The calendar time is the time that was set and the whole seconds that   *)
(* the steady clock has measured since, unless set_time fell between the   *)
(* load and the store of virtual_clock::system::advance.                   *)
(***************************************************************************)
THEOREM ClocksInStep == ClockSpec => []ClocksAdvanceTogether
<1>1. ClockInv => ClocksAdvanceTogether
  <2> SUFFICES ASSUME ClockInv, ~missed PROVE ClocksAdvanceTogether
    BY DEF ClocksAdvanceTogether
  <2>1. system = from_time_t(base) + (Common - mark)
    BY DEF ClockInv
  <2>2. ASSUME base >= 0 PROVE to_time_t(system) = base + (Common - mark) \div Second
    <3>1. base \in Nat /\ Common - mark \in Nat
      BY <2>2 DEF ClockInv, ClockTypeOK, Common
    <3>2. system = base * Second + (Common - mark)
      BY <2>1 DEF from_time_t
    <3>3. base * Second \in Nat
      BY <3>1, ClockAssumption
    <3>4. system >= 0
      BY <3>1, <3>2, <3>3
    <3>5. (base * Second + (Common - mark)) \div Second = base + (Common - mark) \div Second
      BY <3>1, DivideSum, ClockAssumption, Zenon
    <3> QED BY <3>2, <3>4, <3>5 DEF to_time_t
  <2> QED BY <2>1, <2>2 DEF ClocksAdvanceTogether
<1> QED BY <1>1, ClockInvariant, PTL
================================================================================
