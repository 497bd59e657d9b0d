--------------------------- MODULE CycleControlProofs --------------------------
(***************************************************************************)
(* Proofs about CycleControl for any number of workers and tasks, any tick *)
(* rates, any main loop, any timeout callback and any sequence of calls.   *)
(*                                                                         *)
(* Most of them rest on the assertion at the start of run_periodic_tasks,  *)
(* that done_tasks is empty.  It is shown to hold during the first run of  *)
(* the scheduler, and for ever when the timeout callback lets the          *)
(* scheduler continue.                                                     *)
(***************************************************************************)
EXTENDS CycleControl, SequenceTheorems, TLAPS

Working == pc \in {"check", "recheck", "switch", "queue"}
NoRepeats(s) == \A i, j \in DOMAIN s : s[i] = s[j] => i = j
Disjoint(s, u) == \A i \in DOMAIN s : ~InSeq(s[i], u)

\* A task is registered once, in one group.
RegisteredOnce ==
  \A g, h \in Groups : \A i \in DOMAIN tasks[g], j \in DOMAIN tasks[h] :
    tasks[g][i] = tasks[h][j] => g = h /\ i = j

\* stop() waits for tasks only after the main loop has been joined.
StopAlone == user \in {"wait", "destroy"} => pc = "none"

\* What the three loops of run_periodic_tasks know of done_tasks and of the tasks
\* they have yet to visit.
LoopsInv ==
  Working =>
    /\ NoRepeats(left) /\ NoRepeats(done_tasks[Group])
    /\ pc \in {"check", "recheck"} =>
         /\ Disjoint(left, done_tasks[Group])
         /\ \A i \in DOMAIN done_tasks[Group] : ~work_to_do[done_tasks[Group][i]]
    /\ pc = "switch" => \A i \in DOMAIN left :
         InSeq(left[i], done_tasks[Group]) /\ ~work_to_do[left[i]]

SwitchedIsQuiet == \A t \in Tasks : Switched(t) => ~InFlight(t)

\* The part of the invariant about run_periodic_tasks and the scheduler.
RunInv ==
  /\ LoopsInv
  /\ DoneMeansQuiet
  /\ SwitchedIsQuiet
  /\ SingleThread

CycleInv == TypeOK /\ StopAlone /\ RegisteredOnce /\ RunInv

\* done_tasks is filled only for the group that run_periodic_tasks works on.
OthersEmpty == \A g \in Groups : ~Working \/ g # Group => done_tasks[g] = <<>>

\* The first loop moves tasks from left to done_tasks and adds none.
FirstLoopBound ==
  pc \in {"check", "recheck"} =>
    Len(left) + Len(done_tasks[Group]) =< Len(tasks[Group])

ClearInv == OthersEmpty /\ FirstLoopBound
--------------------------------------------------------------------------------
(* Facts about sequences.                                                  *)

(***************************************************************************)
(* What Append, Head and Tail do to the elements of a sequence, and to its *)
(* having no repeated element.                                             *)
(***************************************************************************)
LEMMA AppendElements ==
  ASSUME NEW S, NEW s \in Seq(S), NEW x \in S
  PROVE  /\ \A y : InSeq(y, Append(s, x)) <=> InSeq(y, s) \/ y = x
         /\ NoRepeats(s) /\ ~InSeq(x, s) => NoRepeats(Append(s, x))
<1>1. /\ DOMAIN s = 1 .. Len(s) /\ Len(s) \in Nat
      /\ DOMAIN Append(s, x) = 1 .. Len(s) + 1
      /\ \A i \in 1 .. Len(s) : Append(s, x)[i] = s[i]
      /\ Append(s, x)[Len(s) + 1] = x
  OBVIOUS
<1>2. ASSUME NEW y PROVE InSeq(y, Append(s, x)) <=> InSeq(y, s) \/ y = x
  BY <1>1 DEF InSeq
<1>3. NoRepeats(s) /\ ~InSeq(x, s) => NoRepeats(Append(s, x))
  BY <1>1 DEF InSeq, NoRepeats
<1>4. QED
  BY <1>2, <1>3

\* The elements of a sequence are its head and those of its tail.
LEMMA TailElements ==
  ASSUME NEW S, NEW s \in Seq(S), s # <<>>
  PROVE  /\ Head(s) \in S /\ Tail(s) \in Seq(S) /\ InSeq(Head(s), s)
         /\ \A y : InSeq(y, s) <=> y = Head(s) \/ InSeq(y, Tail(s))
         /\ \A i \in DOMAIN Tail(s) : InSeq(Tail(s)[i], s)
         /\ NoRepeats(s) => NoRepeats(Tail(s)) /\ ~InSeq(Head(s), Tail(s))
<1>1. /\ DOMAIN s = 1 .. Len(s) /\ Len(s) \in Nat \ {0} /\ Head(s) = s[1]
      /\ Head(s) \in S /\ Tail(s) \in Seq(S) /\ Len(Tail(s)) = Len(s) - 1
      /\ DOMAIN Tail(s) = 1 .. Len(s) - 1
      /\ \A i \in 1 .. Len(s) - 1 : Tail(s)[i] = s[i + 1]
  BY HeadTailProperties, EmptySeq, LenProperties
<1>2. ASSUME NEW y PROVE InSeq(y, s) <=> y = Head(s) \/ InSeq(y, Tail(s))
  <2>1. ASSUME InSeq(y, s), y # Head(s) PROVE InSeq(y, Tail(s))
    <3>1. PICK i \in 1 .. Len(s) : s[i] = y
      BY <1>1, <2>1 DEF InSeq
    <3>2. i - 1 \in 1 .. Len(s) - 1 /\ Tail(s)[i - 1] = y
      BY <1>1, <2>1, <3>1
    <3>3. QED
      BY <1>1, <3>2, Zenon DEF InSeq
  <2>2. InSeq(Head(s), s)
    BY <1>1 DEF InSeq
  <2>3. ASSUME InSeq(y, Tail(s)) PROVE InSeq(y, s)
    <3>1. PICK i \in 1 .. Len(s) - 1 : Tail(s)[i] = y
      BY <1>1, <2>3 DEF InSeq
    <3>2. i + 1 \in 1 .. Len(s) /\ s[i + 1] = y
      BY <1>1, <3>1
    <3>3. QED
      BY <1>1, <3>2 DEF InSeq
  <2>4. QED
    BY <2>1, <2>2, <2>3
<1>3. \A i \in DOMAIN Tail(s) : InSeq(Tail(s)[i], s)
  BY <1>2 DEF InSeq
<1>4. ASSUME NoRepeats(s) PROVE NoRepeats(Tail(s)) /\ ~InSeq(Head(s), Tail(s))
  <2>1. \A i, j \in 1 .. Len(s) : s[i] = s[j] => i = j
    BY <1>1, <1>4 DEF NoRepeats
  <2>2. NoRepeats(Tail(s))
    <3>1. SUFFICES ASSUME NEW i \in 1 .. Len(s) - 1, NEW j \in 1 .. Len(s) - 1,
                          Tail(s)[i] = Tail(s)[j]
                   PROVE  i = j
      BY <1>1 DEF NoRepeats
    <3>2. s[i + 1] = s[j + 1] /\ i + 1 \in 1 .. Len(s) /\ j + 1 \in 1 .. Len(s)
      BY <1>1, <3>1
    <3>3. i + 1 = j + 1
      BY <2>1, <3>2
    <3>4. QED
      BY <3>3
  <2>3. ASSUME NEW i \in 1 .. Len(s) - 1, Tail(s)[i] = Head(s) PROVE FALSE
    <3>1. s[i + 1] = s[1] /\ i + 1 \in 1 .. Len(s) /\ 1 \in 1 .. Len(s)
      BY <1>1, <2>3
    <3>2. i + 1 = 1
      BY <2>1, <3>1
    <3>3. QED
      BY <3>2
  <2>4. QED
    BY <1>1, <2>2, <2>3 DEF InSeq
<1>5. QED
  BY <1>1, <1>2, <1>3, <1>4
--------------------------------------------------------------------------------
(* Type correctness, whatever the timeout callback returns.                *)

(***************************************************************************)
(* Entering the next group of a work(), or returning from it, keeps the    *)
(* types of what run_periodic_tasks works on.                              *)
(***************************************************************************)
LEMMA EnterGroupType ==
  ASSUME tasks \in [Groups -> Seq(Tasks)], NEW groups \in Seq(Groups),
         EnterGroup(groups)
  PROVE  /\ agenda' = groups /\ agenda' \in Seq(Groups)
         /\ left' \in Seq(Tasks)
         /\ pc' \in {"loop", "none", "check"}
         /\ pc' = "check" <=> agenda' # <<>>
         /\ pc' = "check" => Head(groups) \in Groups /\ left' = tasks[Head(groups)]
<1>1. CASE groups = <<>>
  BY <1>1 DEF EnterGroup
<1>2. CASE groups # <<>>
  <2>1. Head(groups) \in Groups
    BY <1>2, HeadTailProperties
  <2>2. QED
    BY <1>2, <2>1 DEF EnterGroup
<1>3. QED
  BY <1>1, <1>2

(***************************************************************************)
(* work() advances the virtual clock inside one slow cycle and starts on   *)
(* the groups that are due.                                                *)
(***************************************************************************)
LEMMA BeginWorkType ==
  ASSUME TypeOK, BeginWork
  PROVE  /\ now' \in 0 .. SlowTick - 1
         /\ agenda' \in Seq(Groups)
         /\ left' \in Seq(Tasks)
         /\ pc' \in {"loop", "none", "check"}
         /\ pc' = "check" <=> agenda' # <<>>
         /\ pc' = "check" => left' = tasks[Head(agenda')]
<1>1. now' \in 0 .. SlowTick - 1
  BY CycleAssumption DEF TypeOK, BeginWork
<1>2. DueGroups \in Seq(Groups)
  <2>1. /\ <<>> \in Seq(Groups) /\ <<"fast">> \in Seq(Groups)
        /\ <<"medium">> \in Seq(Groups) /\ <<"slow">> \in Seq(Groups)
    BY DEF Groups
  <2>2. QED
    BY <2>1 DEF DueGroups
<1>3. QED
  BY <1>1, <1>2, EnterGroupType, Zenon DEF TypeOK, BeginWork

\* A new cycle_control has the types, and no stop() is under way.
LEMMA CycleInit ==
  ASSUME Init
  PROVE  TypeOK /\ StopAlone
<1>1. /\ waiting \in Seq(Tasks) /\ agenda \in Seq(Groups) /\ left \in Seq(Tasks)
      /\ agenda = <<>>
  BY DEF Init, QueueInit
<1>2. /\ tasks \in [Groups -> Seq(Tasks)] /\ done_tasks \in [Groups -> Seq(Tasks)]
      /\ work_to_do \in [Tasks -> BOOLEAN]
  BY DEF Init
<1>3. executing \in [Workers -> Tasks \cup {NoTask}] /\ phase = "open"
  BY DEF Init, QueueInit
<1>4. now \in 0 .. SlowTick - 1 /\ exceptions \in Nat /\ calls \in Nat
  BY CycleAssumption DEF Init
<1>5. QED
  BY <1>1, <1>2, <1>3, <1>4, Zenon DEF Init, TypeOK, QueueTypeOK, StopAlone

\* stop() waits for tasks only after it has joined the main loop.
LEMMA StopAloneStep ==
  ASSUME TypeOK, StopAlone, [Next]_vars
  PROVE  StopAlone'
<1>1. ASSUME NEW w \in Workers, WorkerStep(w) PROVE StopAlone'
  BY <1>1 DEF WorkerStep, TakeTask, FinishTask, controlVars, StopAlone
<1>2. CASE LoopStep
  <2>1. user' = user /\ pc # "none"
    BY <1>2, Zenon DEF LoopStep, QuietLoopStep, RealtimeBody, WaitingBody, LoopExit,
                       WaitForTask, WorkAfterWait, BeginWork, CheckDone, CheckLate, SkipLate,
                       GiveUp, BeginSwitch, BeginQueue, Queue, EndGroup, Switch
  <2>2. QED
    BY <2>1 DEF StopAlone
<1>3. CASE StopStep
  BY <1>3, Zenon DEF StopStep, Join, StopWait, StopDone, CloseScheduler, controlVars, StopAlone
<1>4. CASE UserStep
  <2>1. user' \in {"idle", "join"}
    BY <1>4 DEF UserStep, AddTask, SetMainLoop, Start, Stop, LastException, CallWork,
                BeginWork, UserFree
  <2>2. QED
    BY <2>1 DEF StopAlone
<1>5. CASE UNCHANGED vars
  BY <1>5 DEF vars, controlVars, StopAlone
<1>6. QED
  BY <1>1, <1>2, <1>3, <1>4, <1>5 DEF Next

\* One case per operation of cycle_control and of the workers.
LEMMA CycleTypeStep ==
  ASSUME TypeOK, StopAlone, [Next]_vars
  PROVE  TypeOK'
<1> USE DEF TypeOK, QueueTypeOK, queueVars, controlVars
<1>1. ASSUME NEW t \in Tasks, NEW g \in Groups, AddTask(t, g) PROVE TypeOK'
  BY <1>1 DEF AddTask
<1>2. ASSUME NEW l \in Loops, SetMainLoop(l) PROVE TypeOK'
  BY <1>2 DEF SetMainLoop
<1>3. CASE Start
  BY <1>3 DEF Start, UserFree
<1>4. CASE Stop
  <2>1. calls' \in Nat /\ timed_out' \in SUBSET Tasks
    BY <1>4 DEF Stop
  <2>2. QED
    BY <1>4, <2>1, Zenon DEF Stop
<1>5. CASE LastException
  BY <1>5 DEF LastException
<1>6. CASE CallWork \/ RealtimeBody \/ WorkAfterWait
  <2>1. BeginWork /\ (calls' = calls \/ calls' = calls + 1)
    BY <1>6 DEF CallWork, RealtimeBody, WorkAfterWait
  <2>2. QED
    BY <2>1, BeginWorkType DEF BeginWork
<1>7. CASE Join
  <2>1. tasks["fast"] \o tasks["medium"] \o tasks["slow"] \in Seq(Tasks)
    BY DEF Groups
  <2>2. QED
    BY <1>7, <2>1 DEF Join
<1>8. CASE StopWait
  <2>1. Tail(left) \in Seq(Tasks) /\ Head(left) \in Tasks
    BY <1>8, HeadTailProperties DEF StopWait
  <2>2. exceptions' \in Nat /\ timed_out' \in SUBSET Tasks
    BY <1>8, <2>1 DEF StopWait, TimeoutCallback
  <2>3. QED
    BY <1>8, <2>1, <2>2 DEF StopWait, StopAlone
<1>9. CASE StopDone
  BY <1>9, Zenon DEF StopDone
<1>10. CASE CloseScheduler
  BY <1>10 DEF CloseScheduler, Close, Closed
<1>11. CASE WaitingBody
  <2>1. left' \in Seq(Tasks)
    BY <1>11 DEF WaitingBody, Groups
  <2>2. QED
    BY <1>11, <2>1 DEF WaitingBody
<1>12. CASE LoopExit
  BY <1>12 DEF LoopExit
<1>13. CASE WaitForTask
  <2>1. Tail(left) \in Seq(Tasks)
    BY <1>13, HeadTailProperties DEF WaitForTask
  <2>2. left' \in Seq(Tasks) /\ exceptions' \in Nat
    <3>1. left' \in {Tail(left), <<>>} /\ exceptions' \in {exceptions, exceptions + 1}
      BY <1>13, Zenon DEF WaitForTask, TimeoutCallback
    <3>2. <<>> \in Seq(Tasks) /\ exceptions + 1 \in Nat
      OBVIOUS
    <3>3. QED
      BY <2>1, <3>1, <3>2, Zenon
  <2>3. keep_working' \in BOOLEAN
    BY <1>13, Zenon DEF WaitForTask
  <2>4. QED
    BY <1>13, <2>2, <2>3 DEF WaitForTask
<1>14. CASE CheckDone
  <2>1. Tail(left) \in Seq(Tasks) /\ Head(left) \in Tasks
    BY <1>14, HeadTailProperties DEF CheckDone
  <2>2. done_tasks' \in [Groups -> Seq(Tasks)]
    <3>1. Group \in Groups
      BY <1>14, HeadTailProperties DEF CheckDone, Group
    <3>2. Append(done_tasks[Group], Head(left)) \in Seq(Tasks)
      BY <2>1, <3>1
    <3>3. QED
      BY <1>14, <3>1, <3>2 DEF CheckDone
  <2>3. QED
    BY <1>14, <2>1, <2>2 DEF CheckDone
<1>15. CASE CheckLate
  BY <1>15 DEF CheckLate, TimeoutCallback
<1>16. CASE SkipLate
  BY <1>16, HeadTailProperties DEF SkipLate
<1>17. CASE GiveUp
  <2>1. <<>> \in Seq(Groups)
    OBVIOUS
  <2>2. exceptions' \in Nat
    BY <1>17 DEF GiveUp, TimeoutCallback
  <2>3. QED
    BY <1>17, <2>1, <2>2, EnterGroupType, Zenon DEF GiveUp
<1>18. CASE BeginSwitch \/ BeginQueue
  <2>1. Group \in Groups
    BY <1>18, HeadTailProperties DEF BeginSwitch, BeginQueue, Group
  <2>2. QED
    BY <1>18, <2>1, Zenon DEF BeginSwitch, BeginQueue
<1>19. CASE Switch
  <2>1. Tail(left) \in Seq(Tasks) /\ Head(left) \in Tasks
    BY <1>19, HeadTailProperties DEF Switch
  <2>2. QED
    BY <1>19, <2>1 DEF Switch
<1>20. CASE Queue
  <2>1. Tail(left) \in Seq(Tasks) /\ Head(left) \in Tasks
    BY <1>20, HeadTailProperties DEF Queue
  <2>2. QED
    BY <1>20, <2>1 DEF Queue, Enqueue
<1>21. CASE EndGroup
  <2>1. Tail(agenda) \in Seq(Groups)
    BY <1>21, HeadTailProperties DEF EndGroup
  <2>2. done_tasks' \in [Groups -> Seq(Tasks)]
    BY <1>21, Zenon DEF EndGroup
  <2>3. QED
    BY <1>21, <2>1, <2>2, EnterGroupType, Zenon DEF EndGroup
<1>22. ASSUME NEW w \in Workers, TakeTask(w) PROVE TypeOK'
  <2>1. Tail(waiting) \in Seq(Tasks) /\ Head(waiting) \in Tasks
    BY <1>22, HeadTailProperties DEF TakeTask, Take
  <2>2. QED
    BY <1>22, <2>1 DEF TakeTask, Take
<1>23. ASSUME NEW w \in Workers, FinishTask(w) PROVE TypeOK'
  BY <1>23 DEF FinishTask, Finish, Idle
<1>24. CASE UNCHANGED vars
  BY <1>24 DEF vars
<1>25. QED
  BY <1>1, <1>2, <1>3, <1>4, <1>5, <1>6, <1>7, <1>8, <1>9, <1>10, <1>11, <1>12,
     <1>13, <1>14, <1>15, <1>16, <1>17, <1>18, <1>19, <1>20, <1>21, <1>22, <1>23,
     <1>24, Zenon
     DEF Next, UserStep, StopStep, LoopStep, QuietLoopStep, WorkerStep

(***************************************************************************)
(* The state of cycle_control and of its scheduler keeps its types, and    *)
(* work() runs groups only while it is active, whatever the callback       *)
(* returns.                                                                *)
(***************************************************************************)
THEOREM CycleTypeCorrect == Spec => []TypeOK
<1>1. Init => TypeOK /\ StopAlone
  BY CycleInit
<1>2. TypeOK /\ StopAlone /\ [Next]_vars => TypeOK' /\ StopAlone'
  BY CycleTypeStep, StopAloneStep
<1>3. QED
  BY <1>1, <1>2, PTL DEF Spec
--------------------------------------------------------------------------------
(* The inductive invariant.                                                *)

(***************************************************************************)
(* add_task is the only operation that changes which tasks there are.      *)
(***************************************************************************)
LEMMA TasksStep ==
  ASSUME [Next]_vars
  PROVE  UNCHANGED tasks \/ \E t \in Tasks, g \in Groups : AddTask(t, g)
<1>1. CASE UserStep
  BY <1>1 DEF UserStep, SetMainLoop, Start, Stop, LastException, CallWork, BeginWork
<1>2. CASE StopStep
  BY <1>2, Zenon DEF StopStep, Join, StopWait, StopDone, CloseScheduler, controlVars
<1>3. CASE LoopStep
  BY <1>3, Zenon DEF LoopStep, QuietLoopStep, RealtimeBody, WaitingBody, LoopExit,
                     WaitForTask, WorkAfterWait, BeginWork, CheckDone, CheckLate, SkipLate,
                     GiveUp, BeginSwitch, BeginQueue, Queue, EndGroup, Switch
<1>4. ASSUME NEW w \in Workers, WorkerStep(w) PROVE UNCHANGED tasks
  BY <1>4 DEF WorkerStep, TakeTask, FinishTask, controlVars
<1>5. CASE UNCHANGED vars
  BY <1>5 DEF vars, controlVars
<1>6. QED
  BY <1>1, <1>2, <1>3, <1>4, <1>5 DEF Next

\* add_task enters a task in one group; nothing else changes the groups.
LEMMA RegisteredOnceStep ==
  ASSUME TypeOK, RegisteredOnce, [Next]_vars
  PROVE  RegisteredOnce'
<1>1. ASSUME NEW t \in Tasks, NEW g \in Groups, AddTask(t, g) PROVE RegisteredOnce'
  <2>1. /\ tasks[g] \in Seq(Tasks) /\ tasks' = [tasks EXCEPT ![g] = Append(tasks[g], t)]
        /\ tasks \in [Groups -> Seq(Tasks)]
    BY <1>1 DEF AddTask, TypeOK
  <2>2. \A h \in Groups : \A i \in DOMAIN tasks[h] : tasks[h][i] # t
    BY <1>1 DEF AddTask, Registered, InSeq
  <2>3. /\ DOMAIN tasks[g] = 1 .. Len(tasks[g]) /\ Len(tasks[g]) \in Nat
        /\ DOMAIN Append(tasks[g], t) = 1 .. Len(tasks[g]) + 1
        /\ \A i \in 1 .. Len(tasks[g]) : Append(tasks[g], t)[i] = tasks[g][i]
        /\ Append(tasks[g], t)[Len(tasks[g]) + 1] = t
    BY <2>1
  <2>4. ASSUME NEW h \in Groups, NEW k \in Groups,
               NEW i \in DOMAIN tasks[h], NEW j \in DOMAIN tasks[k],
               tasks[h][i] = tasks[k][j]
        PROVE  h = k /\ i = j
    BY <2>4 DEF RegisteredOnce
  <2>5. SUFFICES ASSUME NEW h \in Groups, NEW k \in Groups,
                        NEW i \in DOMAIN tasks'[h], NEW j \in DOMAIN tasks'[k],
                        tasks'[h][i] = tasks'[k][j]
                 PROVE  h = k /\ i = j
    BY DEF RegisteredOnce
  <2>6. /\ h = g => i \in 1 .. Len(tasks[g]) + 1
        /\ k = g => j \in 1 .. Len(tasks[g]) + 1
        /\ h # g => tasks'[h] = tasks[h]
        /\ k # g => tasks'[k] = tasks[k]
    BY <2>1, <2>3
  <2>7. /\ tasks'[h][i] = t => h = g /\ i = Len(tasks[g]) + 1
        /\ tasks'[k][j] = t => k = g /\ j = Len(tasks[g]) + 1
    BY <2>1, <2>2, <2>3, <2>6
  <2>8. CASE tasks'[h][i] = t
    BY <2>5, <2>7, <2>8
  <2>9. CASE tasks'[h][i] # t
    <3>1. /\ i \in DOMAIN tasks[h] /\ tasks'[h][i] = tasks[h][i]
          /\ j \in DOMAIN tasks[k] /\ tasks'[k][j] = tasks[k][j]
      BY <2>1, <2>3, <2>5, <2>6, <2>9
    <3>2. tasks[h][i] = tasks[k][j]
      BY <2>5, <3>1, Zenon
    <3>3. QED
      BY <2>4, <3>1, <3>2, Zenon
  <2>10. QED
    BY <2>8, <2>9
<1>2. CASE UNCHANGED tasks
  BY <1>2 DEF RegisteredOnce
<1>3. QED
  BY <1>1, <1>2, TasksStep

(***************************************************************************)
(* The group that run_periodic_tasks works on.                             *)
(***************************************************************************)
LEMMA GroupType ==
  ASSUME TypeOK, Working
  PROVE  /\ Group \in Groups /\ agenda # <<>>
         /\ tasks[Group] \in Seq(Tasks)
         /\ done_tasks[Group] \in Seq(Tasks)
<1>1. agenda # <<>> /\ agenda \in Seq(Groups)
  BY DEF TypeOK, Working
<1>2. QED
  BY <1>1, HeadTailProperties DEF TypeOK, Group

(***************************************************************************)
(* A step that leaves the scheduler and the flags alone, and neither       *)
(* switches nor queues a task.                                             *)
(***************************************************************************)
LEMMA SchedulerSame ==
  ASSUME DoneMeansQuiet, SwitchedIsQuiet, SingleThread,
         UNCHANGED <<waiting, executing, work_to_do>>,
         \A t \in Tasks : Switched(t)' <=> Switched(t)
  PROVE  DoneMeansQuiet' /\ SwitchedIsQuiet' /\ SingleThread'
<1>1. \A t : InFlight(t)' <=> InFlight(t)
  BY DEF InFlight, InSeq
<1>2. DoneMeansQuiet' /\ SwitchedIsQuiet'
  BY <1>1 DEF DoneMeansQuiet, SwitchedIsQuiet
<1>3. SingleThread'
  BY DEF SingleThread, Idle, InSeq
<1>4. QED
  BY <1>2, <1>3

(***************************************************************************)
(* A step that changes nothing run_periodic_tasks or the scheduler uses.   *)
(***************************************************************************)
LEMMA SameStep ==
  ASSUME RunInv,
         UNCHANGED <<waiting, executing, work_to_do, tasks, done_tasks, pc, agenda, left>>
  PROVE  RunInv'
<1>1. LoopsInv'
  BY DEF RunInv, LoopsInv, Working, Group, NoRepeats, Disjoint, InSeq
<1>2. \A t \in Tasks : Switched(t)' <=> Switched(t)
  BY DEF Switched, Group, InSeq
<1>3. QED
  BY <1>1, <1>2, SchedulerSame DEF RunInv

(***************************************************************************)
(* A step outside of run_periodic_tasks, also the one that gives up its    *)
(* first loop: the scheduler and the flags stay as they are.               *)
(***************************************************************************)
LEMMA QuietStep ==
  ASSUME RunInv, pc \notin {"switch", "queue"}, ~Working',
         UNCHANGED <<waiting, executing, work_to_do>>
  PROVE  RunInv'
<1>1. LoopsInv'
  BY DEF RunInv, LoopsInv, Working
<1>2. \A t \in Tasks : ~Switched(t)' /\ ~Switched(t)
  BY DEF Switched, Working
<1>3. QED
  BY <1>1, <1>2, SchedulerSame DEF RunInv

(***************************************************************************)
(* work() enters a group, or returns, when no task is half-way through     *)
(* run_periodic_tasks and the done_tasks of the group is empty.            *)
(***************************************************************************)
LEMMA EnterStep ==
  ASSUME TypeOK, RegisteredOnce, DoneMeansQuiet, SwitchedIsQuiet, SingleThread,
         \A t \in Tasks : ~Switched(t),
         UNCHANGED <<waiting, executing, work_to_do, tasks>>,
         pc' \in {"loop", "none", "check"},
         pc' = "check" => Head(agenda') \in Groups /\ left' = tasks[Head(agenda')],
         DoneTasksEmpty'
  PROVE  RunInv'
<1>1. LoopsInv'
  <2>1. CASE pc' # "check"
    BY <2>1 DEF LoopsInv, Working
  <2>2. CASE pc' = "check"
    <3>1. /\ Group' \in Groups /\ left' = tasks[Group'] /\ tasks[Group'] \in Seq(Tasks)
          /\ done_tasks'[Group'] = <<>>
      BY <2>2 DEF Group, TypeOK, DoneTasksEmpty
    <3>2. NoRepeats(left')
      BY <3>1 DEF NoRepeats, RegisteredOnce
    <3>3. NoRepeats(<<>>) /\ Disjoint(left', <<>>) /\ DOMAIN <<>> = {}
      BY DEF NoRepeats, Disjoint, InSeq
    <3>4. QED
      BY <2>2, <3>1, <3>2, <3>3 DEF LoopsInv, Working
  <2>3. QED
    BY <2>1, <2>2
<1>2. \A t \in Tasks : ~Switched(t)'
  BY DEF Switched
<1>3. QED
  BY <1>1, <1>2, SchedulerSame DEF RunInv

\* work() enters its first group, if one is due.
LEMMA BeginWorkStep ==
  ASSUME CycleInv, ~Working, BeginWork, DoneTasksEmpty'
  PROVE  RunInv'
<1>1. /\ pc' \in {"loop", "none", "check"} /\ agenda' \in Seq(Groups)
      /\ pc' = "check" => agenda' # <<>> /\ left' = tasks[Head(agenda')]
  BY BeginWorkType DEF CycleInv
<1>2. pc' = "check" => Head(agenda') \in Groups
  BY <1>1, HeadTailProperties
<1>3. \A t \in Tasks : ~Switched(t)
  BY DEF Switched, Working
<1>4. UNCHANGED <<waiting, executing, work_to_do, tasks>>
  BY DEF BeginWork, queueVars
<1>5. QED
  BY <1>1, <1>2, <1>3, <1>4, EnterStep DEF CycleInv, RunInv

\* At the end of a group done_tasks is cleared and the next one is entered.
LEMMA EndGroupStep ==
  ASSUME CycleInv, EndGroup, DoneTasksEmpty'
  PROVE  RunInv'
<1>1. Working /\ pc = "queue" /\ left = <<>>
  BY DEF EndGroup, Working
<1>2. Group \in Groups /\ agenda # <<>> /\ Tail(agenda) \in Seq(Groups)
  BY <1>1, GroupType, HeadTailProperties DEF CycleInv, TypeOK
<1>3. /\ pc' \in {"loop", "none", "check"}
      /\ pc' = "check" => Head(agenda') \in Groups /\ left' = tasks[Head(agenda')]
  BY <1>2, EnterGroupType, Zenon DEF EndGroup, CycleInv, TypeOK
<1>4. \A t \in Tasks : ~Switched(t)
  BY <1>1 DEF Switched, InSeq
<1>5. UNCHANGED <<waiting, executing, work_to_do, tasks>>
  BY DEF EndGroup, queueVars
<1>6. QED
  BY <1>3, <1>4, <1>5, EnterStep DEF CycleInv, RunInv

(***************************************************************************)
(* The first loop: a task moves to done_tasks only when it is done, and    *)
(* never twice.                                                            *)
(***************************************************************************)
LEMMA CheckDoneStep ==
  ASSUME CycleInv, CheckDone
  PROVE  RunInv'
<1> DEFINE t == Head(left)
           D == done_tasks[Group]
<1>1. /\ Working /\ pc \in {"check", "recheck"} /\ pc' = "check" /\ Group' = Group
      /\ ~work_to_do[t] /\ left' = Tail(left) /\ left # <<>>
      /\ done_tasks' = [done_tasks EXCEPT ![Group] = Append(D, t)]
      /\ UNCHANGED <<waiting, executing, work_to_do, tasks>>
  BY DEF CheckDone, Working, Group, queueVars
<1>2. /\ Group \in Groups /\ D \in Seq(Tasks) /\ left \in Seq(Tasks)
      /\ tasks[Group] \in Seq(Tasks)
      /\ done_tasks \in [Groups -> Seq(Tasks)]
  BY <1>1, GroupType DEF CycleInv, TypeOK
<1>3. /\ t \in Tasks /\ Tail(left) \in Seq(Tasks) /\ InSeq(t, left)
      /\ \A i \in DOMAIN Tail(left) : InSeq(Tail(left)[i], left)
      /\ NoRepeats(Tail(left)) /\ ~InSeq(t, Tail(left))
  BY <1>1, <1>2, TailElements DEF CycleInv, RunInv, LoopsInv
<1>4. /\ NoRepeats(D)
      /\ \A y : InSeq(y, left) => ~InSeq(y, D)
      /\ \A y : InSeq(y, D) => ~work_to_do[y]
  BY <1>1 DEF CycleInv, RunInv, LoopsInv, Disjoint, InSeq
<1>5. /\ done_tasks'[Group] = Append(D, t)
      /\ \A g \in Groups : g # Group => done_tasks'[g] = done_tasks[g]
  BY <1>1, <1>2
<1>6. /\ NoRepeats(Append(D, t))
      /\ \A y : InSeq(y, Append(D, t)) <=> InSeq(y, D) \/ y = t
  BY <1>2, <1>3, <1>4, AppendElements
<1>7. LoopsInv'
  <2>1. Disjoint(Tail(left), Append(D, t))
    BY <1>3, <1>4, <1>6, Zenon DEF Disjoint, InSeq
  <2>2. \A i \in DOMAIN Append(D, t) : ~work_to_do[Append(D, t)[i]]
    BY <1>1, <1>4, <1>6 DEF InSeq
  <2>3. QED
    BY <1>1, <1>3, <1>5, <1>6, <2>1, <2>2 DEF LoopsInv
<1>8. \A u \in Tasks : ~Switched(u)' /\ ~Switched(u)
  BY <1>1 DEF Switched
<1>9. QED
  BY <1>1, <1>7, <1>8, SchedulerSame DEF CycleInv, RunInv

(***************************************************************************)
(* The first loop: a late task is asked about and left out.                *)
(***************************************************************************)
LEMMA LateStep ==
  ASSUME CycleInv, CheckLate \/ SkipLate
  PROVE  RunInv'
<1>1. /\ Working /\ pc \in {"check", "recheck"} /\ pc' \in {"check", "recheck"}
      /\ Group' = Group /\ left # <<>>
      /\ left' = left \/ left' = Tail(left)
      /\ UNCHANGED <<waiting, executing, work_to_do, tasks, done_tasks>>
  BY Zenon DEF CheckLate, SkipLate, Working, Group, queueVars, CycleInv, TypeOK
<1>2. /\ Group \in Groups /\ left \in Seq(Tasks) /\ done_tasks[Group] \in Seq(Tasks)
      /\ tasks[Group] \in Seq(Tasks)
  BY <1>1, GroupType DEF CycleInv, TypeOK
<1>3. LoopsInv'
  <2>1. NoRepeats(left') /\ \A i \in DOMAIN left' : InSeq(left'[i], left)
    <3>1. NoRepeats(left) /\ \A i \in DOMAIN left : InSeq(left[i], left)
      BY <1>1 DEF CycleInv, RunInv, LoopsInv, InSeq
    <3>2. QED
      BY <1>1, <1>2, <3>1, TailElements, Zenon
  <2>2. Disjoint(left', done_tasks[Group])
    BY <1>1, <2>1 DEF CycleInv, RunInv, LoopsInv, Disjoint, InSeq
  <2>3. QED
    BY <1>1, <2>1, <2>2 DEF CycleInv, RunInv, LoopsInv
<1>4. \A u \in Tasks : ~Switched(u)' /\ ~Switched(u)
  BY <1>1 DEF Switched
<1>5. QED
  BY <1>1, <1>3, <1>4, SchedulerSame DEF CycleInv, RunInv

(***************************************************************************)
(* The second and the third loop start with the tasks of done_tasks.       *)
(***************************************************************************)
LEMMA LoopBeginStep ==
  ASSUME CycleInv, BeginSwitch \/ BeginQueue
  PROVE  RunInv'
<1>1. /\ Working /\ left = <<>> /\ left' = done_tasks[Group] /\ Group' = Group
      /\ (pc = "check" /\ pc' = "switch") \/ (pc = "switch" /\ pc' = "queue")
      /\ UNCHANGED <<waiting, executing, work_to_do, tasks, done_tasks>>
  BY DEF BeginSwitch, BeginQueue, Working, Group, queueVars
<1>2. LoopsInv'
  BY <1>1 DEF CycleInv, RunInv, LoopsInv, Working, InSeq
<1>3. \A u \in Tasks : Switched(u)' <=> Switched(u)
  <2>1. \A u : ~InSeq(u, <<>>)
    BY DEF InSeq
  <2>2. QED
    BY <1>1, <2>1 DEF Switched
<1>4. QED
  BY <1>1, <1>2, <1>3, SchedulerSame DEF CycleInv, RunInv

(***************************************************************************)
(* The second loop: the task that is switched is not in the scheduler.     *)
(***************************************************************************)
LEMMA SwitchStep ==
  ASSUME CycleInv, Switch
  PROVE  RunInv'
<1> DEFINE t == Head(left)
           D == done_tasks[Group]
<1>1. /\ Working /\ pc = "switch" /\ pc' = "switch" /\ Group' = Group
      /\ left # <<>> /\ left' = Tail(left)
      /\ work_to_do' = [work_to_do EXCEPT ![t] = TRUE]
      /\ UNCHANGED <<waiting, executing, tasks, done_tasks>>
  BY DEF Switch, Working, Group, queueVars
<1>2. left \in Seq(Tasks) /\ work_to_do \in [Tasks -> BOOLEAN]
  BY DEF CycleInv, TypeOK
<1>3. /\ t \in Tasks /\ Tail(left) \in Seq(Tasks) /\ InSeq(t, left)
      /\ \A y : InSeq(y, left) <=> y = t \/ InSeq(y, Tail(left))
      /\ \A i \in DOMAIN Tail(left) : InSeq(Tail(left)[i], left)
      /\ NoRepeats(Tail(left)) /\ ~InSeq(t, Tail(left))
  BY <1>1, <1>2, TailElements DEF CycleInv, RunInv, LoopsInv
<1>4. /\ \A y : InSeq(y, left) => InSeq(y, D) /\ ~work_to_do[y]
      /\ NoRepeats(D)
  BY <1>1 DEF CycleInv, RunInv, LoopsInv, InSeq
<1>5. \A u \in Tasks : Switched(u)' <=> Switched(u) \/ u = t
  BY <1>1, <1>3, <1>4 DEF Switched
<1>6. \A u : InFlight(u)' <=> InFlight(u)
  BY <1>1 DEF InFlight, InSeq
<1>7. work_to_do'[t] /\ \A u \in Tasks : u # t => work_to_do'[u] = work_to_do[u]
  BY <1>1, <1>2, <1>3
<1>8. LoopsInv'
  <2>1. \A i \in DOMAIN Tail(left) :
          InSeq(Tail(left)[i], D) /\ Tail(left)[i] \in Tasks /\ Tail(left)[i] # t
            /\ ~work_to_do[Tail(left)[i]]
    BY <1>3, <1>4 DEF InSeq
  <2>2. \A i \in DOMAIN Tail(left) : ~work_to_do'[Tail(left)[i]]
    BY <1>7, <2>1
  <2>3. QED
    BY <1>1, <1>3, <1>4, <2>1, <2>2 DEF LoopsInv, Working
<1>9. DoneMeansQuiet'
  BY <1>5, <1>6, <1>7 DEF CycleInv, RunInv, DoneMeansQuiet
<1>10. ~InFlight(t)
  BY <1>3, <1>4 DEF CycleInv, RunInv, DoneMeansQuiet
<1>11. SwitchedIsQuiet'
  BY <1>5, <1>6, <1>10 DEF CycleInv, RunInv, SwitchedIsQuiet
<1>12. SingleThread'
  BY <1>1 DEF CycleInv, RunInv, SingleThread, Idle, InSeq
<1>13. QED
  BY <1>8, <1>9, <1>11, <1>12 DEF RunInv

(***************************************************************************)
(* The third loop: the task that is queued is not in the scheduler yet.    *)
(***************************************************************************)
LEMMA QueueStep ==
  ASSUME CycleInv, Queue
  PROVE  RunInv'
<1> DEFINE t == Head(left)
<1>1. /\ Working /\ pc = "queue" /\ pc' = "queue" /\ Group' = Group
      /\ left # <<>> /\ left' = Tail(left) /\ waiting' = Append(waiting, t)
      /\ UNCHANGED <<executing, work_to_do, tasks, done_tasks>>
  BY DEF Queue, Enqueue, Working, Group
<1>2. /\ left \in Seq(Tasks) /\ waiting \in Seq(Tasks)
      /\ executing \in [Workers -> Tasks \cup {NoTask}]
  BY DEF CycleInv, TypeOK, QueueTypeOK
<1>3. /\ t \in Tasks /\ Tail(left) \in Seq(Tasks) /\ InSeq(t, left)
      /\ \A y : InSeq(y, left) <=> y = t \/ InSeq(y, Tail(left))
      /\ NoRepeats(Tail(left)) /\ ~InSeq(t, Tail(left))
  BY <1>1, <1>2, TailElements DEF CycleInv, RunInv, LoopsInv
<1>4. /\ \A y : InSeq(y, waiting') <=> InSeq(y, waiting) \/ y = t
      /\ NoRepeats(waiting) /\ ~InSeq(t, waiting) => NoRepeats(waiting')
  BY <1>1, <1>2, <1>3, AppendElements
<1>5. ~InFlight(t)
  BY <1>1, <1>3 DEF CycleInv, RunInv, SwitchedIsQuiet, Switched
<1>6. \A u \in Tasks : InFlight(u)' <=> InFlight(u) \/ u = t
  BY <1>1, <1>4 DEF InFlight
<1>7. \A u \in Tasks : Switched(u) <=> Switched(u)' \/ u = t
  BY <1>1, <1>3 DEF Switched
<1>8. \A u \in Tasks : Switched(u)' => u # t
  BY <1>1, <1>3 DEF Switched
<1>9. LoopsInv'
  BY <1>1, <1>3 DEF CycleInv, RunInv, LoopsInv, Working
<1>10. DoneMeansQuiet'
  BY <1>1, <1>6, <1>7 DEF CycleInv, RunInv, DoneMeansQuiet
<1>11. SwitchedIsQuiet'
  BY <1>6, <1>7, <1>8 DEF CycleInv, RunInv, SwitchedIsQuiet
<1>12. SingleThread'
  <2>1. NoRepeats(waiting')
    BY <1>4, <1>5 DEF InFlight, CycleInv, RunInv, SingleThread, NoRepeats
  <2>2. \A w \in Workers : ~InSeq(executing[w], waiting')
    BY <1>4, <1>5 DEF InFlight, CycleInv, RunInv, SingleThread
  <2>3. QED
    BY <1>1, <2>1, <2>2 DEF CycleInv, RunInv, SingleThread, NoRepeats, Idle
<1>13. QED
  BY <1>9, <1>10, <1>11, <1>12 DEF RunInv

(***************************************************************************)
(* A worker takes the oldest task: it stays in the scheduler, once.        *)
(***************************************************************************)
LEMMA TakeStep ==
  ASSUME CycleInv, NEW w \in Workers, TakeTask(w)
  PROVE  RunInv'
<1> DEFINE t == Head(waiting)
<1>1. /\ waiting # <<>> /\ waiting' = Tail(waiting) /\ executing[w] = NoTask
      /\ executing' = [executing EXCEPT ![w] = t]
      /\ UNCHANGED <<work_to_do, tasks, done_tasks, pc, agenda, left>>
  BY CycleAssumption DEF TakeTask, Take, Idle, controlVars
<1>2. waiting \in Seq(Tasks) /\ executing \in [Workers -> Tasks \cup {NoTask}]
  BY DEF CycleInv, TypeOK, QueueTypeOK
<1>3. /\ t \in Tasks /\ InSeq(t, waiting)
      /\ \A y : InSeq(y, waiting) <=> y = t \/ InSeq(y, waiting')
      /\ NoRepeats(waiting') /\ ~InSeq(t, waiting')
  BY <1>1, <1>2, TailElements DEF CycleInv, RunInv, SingleThread, NoRepeats
<1>4. executing'[w] = t /\ \A v \in Workers : v # w => executing'[v] = executing[v]
  BY <1>1, <1>2
<1>5. NoTask \notin Tasks
  BY QueueAssumption
<1>6. \A u \in Tasks : InFlight(u)' <=> InFlight(u)
  BY <1>1, <1>3, <1>4, <1>5 DEF InFlight
<1>7. \A u : Switched(u)' <=> Switched(u)
  BY <1>1 DEF Switched, Group, InSeq
<1>8. LoopsInv'
  BY <1>1 DEF CycleInv, RunInv, LoopsInv, Working, Group, NoRepeats, Disjoint, InSeq
<1>9. DoneMeansQuiet' /\ SwitchedIsQuiet'
  BY <1>1, <1>6, <1>7 DEF CycleInv, RunInv, DoneMeansQuiet, SwitchedIsQuiet
<1>10. SingleThread'
  <2>1. \A v \in Workers : executing[v] # t /\ ~InSeq(executing[v], waiting')
    BY <1>3 DEF CycleInv, RunInv, SingleThread
  <2>2. \A v \in Workers : ~InSeq(executing'[v], waiting')
    BY <1>3, <1>4, <2>1
  <2>3. \A u, v \in Workers : executing'[u] = executing'[v] /\ u # v => executing'[u] = NoTask
    BY <1>4, <2>1 DEF CycleInv, RunInv, SingleThread, Idle
  <2>4. QED
    BY <1>3, <2>2, <2>3 DEF SingleThread, NoRepeats, Idle
<1>11. QED
  BY <1>8, <1>9, <1>10 DEF RunInv

(***************************************************************************)
(* A worker ends a task and resets its flag: the task has left the         *)
(* scheduler, since it was in it only once.                                *)
(***************************************************************************)
LEMMA FinishStep ==
  ASSUME CycleInv, NEW w \in Workers, FinishTask(w)
  PROVE  RunInv'
<1> DEFINE t == executing[w]
<1>1. /\ t # NoTask /\ executing' = [executing EXCEPT ![w] = NoTask]
      /\ work_to_do' = [work_to_do EXCEPT ![t] = FALSE]
      /\ UNCHANGED <<waiting, tasks, done_tasks, pc, agenda, left>>
  BY DEF FinishTask, Finish, Idle, controlVars
<1>2. /\ waiting \in Seq(Tasks) /\ executing \in [Workers -> Tasks \cup {NoTask}]
      /\ work_to_do \in [Tasks -> BOOLEAN] /\ left \in Seq(Tasks)
  BY DEF CycleInv, TypeOK, QueueTypeOK
<1>3. /\ t \in Tasks /\ executing'[w] = NoTask
      /\ \A v \in Workers : v # w => executing'[v] = executing[v]
  BY <1>1, <1>2
<1>4. ~InSeq(t, waiting) /\ \A v \in Workers : v # w => executing[v] # t
  BY <1>1 DEF CycleInv, RunInv, SingleThread, Idle
<1>5. NoTask \notin Tasks
  BY QueueAssumption
<1>6. InFlight(t) /\ \A u \in Tasks : InFlight(u)' <=> InFlight(u) /\ u # t
  BY <1>1, <1>3, <1>4, <1>5 DEF InFlight, InSeq
<1>7. \A u : Switched(u)' <=> Switched(u)
  BY <1>1 DEF Switched, Group, InSeq
<1>8. ~work_to_do'[t] /\ \A u \in Tasks : u # t => work_to_do'[u] = work_to_do[u]
  BY <1>1, <1>2, <1>3
<1>9. LoopsInv'
  <2>1. SUFFICES ASSUME Working PROVE LoopsInv'
    BY <1>1 DEF LoopsInv, Working
  <2>2. done_tasks[Group] \in Seq(Tasks) /\ Group' = Group
    BY <1>1, <2>1, GroupType DEF CycleInv, Group
  <2>3. /\ \A i \in DOMAIN left : ~work_to_do[left[i]] => ~work_to_do'[left[i]]
        /\ \A i \in DOMAIN done_tasks[Group] :
             ~work_to_do[done_tasks[Group][i]] => ~work_to_do'[done_tasks[Group][i]]
    <3>1. \A u \in Tasks : ~work_to_do[u] => ~work_to_do'[u]
      BY <1>8
    <3>2. /\ \A i \in DOMAIN left : left[i] \in Tasks
          /\ \A i \in DOMAIN done_tasks[Group] : done_tasks[Group][i] \in Tasks
      BY <1>2, <2>2
    <3>3. QED
      BY <3>1, <3>2
  <2>4. QED
    BY <1>1, <2>1, <2>2, <2>3 DEF CycleInv, RunInv, LoopsInv, Working
<1>10. DoneMeansQuiet'
  BY <1>3, <1>6, <1>7, <1>8 DEF CycleInv, RunInv, DoneMeansQuiet, SwitchedIsQuiet
<1>11. SwitchedIsQuiet'
  BY <1>6, <1>7 DEF CycleInv, RunInv, SwitchedIsQuiet
<1>12. SingleThread'
  <2>1. ~InSeq(NoTask, waiting)
    BY <1>2, <1>5 DEF InSeq
  <2>2. \A v \in Workers : ~InSeq(executing'[v], waiting)
    BY <1>3, <2>1 DEF CycleInv, RunInv, SingleThread
  <2>3. \A u, v \in Workers : executing'[u] = executing'[v] /\ u # v => executing'[u] = NoTask
    BY <1>3 DEF CycleInv, RunInv, SingleThread, Idle
  <2>4. QED
    BY <1>1, <2>2, <2>3 DEF CycleInv, RunInv, SingleThread, Idle
<1>13. QED
  BY <1>9, <1>10, <1>11, <1>12 DEF RunInv

(***************************************************************************)
(* Every step keeps the invariant, whatever timeout_callback returns, as   *)
(* long as each run_periodic_tasks starts with an empty done_tasks.        *)
(***************************************************************************)
LEMMA RunInvStep ==
  ASSUME CycleInv, [Next]_vars, DoneTasksEmpty'
  PROVE  RunInv'
<1> USE DEF queueVars, controlVars
<1>1. /\ RunInv /\ TypeOK /\ StopAlone
      /\ UserFree /\ ~running => pc = "none"
      /\ user = "wait" => pc = "none"
  BY DEF CycleInv, UserFree, StopAlone
<1>2. CASE Stop \/ LastException \/ StopDone \/ CloseScheduler \/ UNCHANGED vars
  BY <1>1, <1>2, SameStep DEF Stop, LastException, StopDone, CloseScheduler, Close, Closed, vars
<1>3. ASSUME \/ \E t \in Tasks, g \in Groups : AddTask(t, g)
             \/ \E l \in Loops : SetMainLoop(l)
      PROVE  RunInv'
  BY <1>1, <1>3, QuietStep DEF AddTask, SetMainLoop, Working
<1>4. CASE Start \/ Join \/ StopWait
  BY <1>1, <1>4, QuietStep, Zenon DEF Start, Join, StopWait, Working
<1>5. CASE WaitingBody \/ LoopExit \/ WaitForTask
  BY <1>1, <1>5, QuietStep, Zenon DEF WaitingBody, LoopExit, WaitForTask, Working
<1>6. CASE CallWork \/ RealtimeBody \/ WorkAfterWait
  BY <1>1, <1>6, BeginWorkStep DEF CallWork, RealtimeBody, WorkAfterWait, Working
<1>7. CASE GiveUp
  <2>1. pc = "check" /\ pc' \in {"loop", "none"}
    BY <1>7, Zenon DEF GiveUp, EnterGroup
  <2>2. QED
    BY <1>1, <1>7, <2>1, QuietStep DEF GiveUp, Working
<1>8. QED
  BY <1>2, <1>3, <1>4, <1>5, <1>6, <1>7, CheckDoneStep, LateStep, LoopBeginStep,
     SwitchStep, QueueStep, EndGroupStep, TakeStep, FinishStep
     DEF Next, UserStep, StopStep, LoopStep, QuietLoopStep, WorkerStep

\* The inductive invariant holds before the first call.
LEMMA CycleInvInit ==
  ASSUME Init
  PROVE  CycleInv
<1>1. \A y : ~InSeq(y, <<>>)
  BY DEF InSeq
<1>2. /\ waiting = <<>> /\ pc = "none" /\ ~Working
      /\ \A w \in Workers : executing[w] = NoTask
      /\ \A g \in Groups : tasks[g] = <<>> /\ done_tasks[g] = <<>>
      /\ \A t \in Tasks : work_to_do[t] = FALSE
  BY DEF Init, QueueInit, Working
<1>3. \A t \in Tasks : ~InFlight(t) /\ ~Switched(t)
  BY <1>1, <1>2, QueueAssumption DEF InFlight, Switched
<1>4. RegisteredOnce
  BY <1>2 DEF RegisteredOnce
<1>5. DoneMeansQuiet /\ SwitchedIsQuiet
  BY <1>2, <1>3 DEF DoneMeansQuiet, SwitchedIsQuiet
<1>6. SingleThread
  BY <1>1, <1>2 DEF SingleThread, Idle
<1>7. LoopsInv
  BY <1>2 DEF LoopsInv, Working
<1>8. QED
  BY <1>4, <1>5, <1>6, <1>7, CycleInit DEF RunInv, CycleInv

\* A step preserves it, if it does not fail the assertion on done_tasks.
LEMMA CycleInvStep ==
  ASSUME CycleInv, [Next]_vars, DoneTasksEmpty'
  PROVE  CycleInv'
BY CycleTypeStep, StopAloneStep, RegisteredOnceStep, RunInvStep DEF CycleInv

\* Hence it holds as long as that assertion does.
LEMMA CycleInvariant == Spec /\ []DoneTasksEmpty => []CycleInv
<1>1. Init => CycleInv
  BY CycleInvInit
<1>2. CycleInv /\ [Next]_vars /\ DoneTasksEmpty' => CycleInv'
  BY CycleInvStep
<1>3. QED
  BY <1>1, <1>2, PTL DEF Spec
--------------------------------------------------------------------------------
(* done_tasks is cleared unless run_periodic_tasks gives up.               *)

(***************************************************************************)
(* Entering a group with every done_tasks empty.                           *)
(***************************************************************************)
LEMMA EnterClear ==
  ASSUME TypeOK, UNCHANGED tasks,
         \A g \in Groups : done_tasks'[g] = <<>>,
         pc' \in {"loop", "none", "check"},
         pc' = "check" => Head(agenda') \in Groups /\ left' = tasks[Head(agenda')]
  PROVE  ClearInv'
<1>1. OthersEmpty'
  BY DEF OthersEmpty
<1>2. CASE pc' # "check"
  BY <1>1, <1>2 DEF ClearInv, FirstLoopBound
<1>3. CASE pc' = "check"
  <2>1. /\ left' = tasks[Group'] /\ tasks[Group'] \in Seq(Tasks)
        /\ done_tasks'[Group'] = <<>>
    BY <1>3 DEF Group, TypeOK
  <2>2. Len(left') \in Nat /\ Len(<<>>) = 0
    BY <2>1
  <2>3. Len(left') + Len(<<>>) =< Len(left')
    BY <2>2
  <2>4. QED
    BY <1>1, <2>1, <2>3 DEF ClearInv, FirstLoopBound
<1>4. QED
  BY <1>2, <1>3

(***************************************************************************)
(* The first loop takes a task from left for each one it puts into         *)
(* done_tasks.                                                             *)
(***************************************************************************)
LEMMA CheckClear ==
  ASSUME TypeOK, ClearInv, CheckDone \/ CheckLate \/ SkipLate
  PROVE  ClearInv'
<1> DEFINE D == done_tasks[Group]
<1>1. /\ Working /\ pc \in {"check", "recheck"} /\ pc' \in {"check", "recheck"}
      /\ Group' = Group /\ left # <<>> /\ UNCHANGED tasks
  BY Zenon DEF CheckDone, CheckLate, SkipLate, Working, Group, TypeOK
<1>2. /\ Group \in Groups /\ left \in Seq(Tasks) /\ D \in Seq(Tasks)
      /\ done_tasks \in [Groups -> Seq(Tasks)] /\ tasks[Group] \in Seq(Tasks)
      /\ Head(left) \in Tasks
  BY <1>1, GroupType, HeadTailProperties DEF TypeOK
<1>3. \/ left' = left /\ done_tasks' = done_tasks
      \/ left' = Tail(left) /\ done_tasks' = done_tasks
      \/ left' = Tail(left) /\ done_tasks' = [done_tasks EXCEPT ![Group] = Append(D, Head(left))]
  BY Zenon DEF CheckDone, CheckLate, SkipLate
<1>4. OthersEmpty'
  <2>1. \A g \in Groups : g # Group => done_tasks'[g] = done_tasks[g]
    BY <1>2, <1>3
  <2>2. QED
    BY <1>1, <2>1 DEF ClearInv, OthersEmpty, Working
<1>5. /\ Len(left) \in Nat /\ Len(D) \in Nat /\ Len(tasks[Group]) \in Nat
      /\ Len(Tail(left)) = Len(left) - 1 /\ Len(Append(D, Head(left))) = Len(D) + 1
      /\ Len(left) # 0
  BY <1>1, <1>2, HeadTailProperties, AppendProperties, LenProperties, EmptySeq
<1>6. Len(left) + Len(D) =< Len(tasks[Group])
  BY <1>1 DEF ClearInv, FirstLoopBound
<1>7. \/ done_tasks'[Group] = D
      \/ left' = Tail(left) /\ done_tasks'[Group] = Append(D, Head(left))
  BY <1>2, <1>3
<1>8. Len(left') + Len(done_tasks'[Group]) =< Len(tasks[Group])
  <2>1. \A a, b, c \in Nat : a # 0 /\ a + b =< c => (a - 1) + b =< c /\ (a - 1) + (b + 1) =< c
    OBVIOUS
  <2>2. /\ Len(Tail(left)) + Len(D) =< Len(tasks[Group])
        /\ Len(Tail(left)) + Len(Append(D, Head(left))) =< Len(tasks[Group])
    BY <1>5, <1>6, <2>1, Zenon
  <2>3. QED
    BY <1>3, <1>6, <1>7, <2>2, Zenon
<1>9. QED
  BY <1>1, <1>4, <1>8 DEF ClearInv, FirstLoopBound

(***************************************************************************)
(* Every step but GiveUp, the return from the first loop of                *)
(* run_periodic_tasks, leaves done_tasks empty outside of the group that   *)
(* work() is in.                                                           *)
(***************************************************************************)
LEMMA ClearStep ==
  ASSUME TypeOK, StopAlone, ClearInv, [Next]_vars, ~GiveUp
  PROVE  ClearInv'
<1> USE DEF controlVars
<1>1. /\ UserFree /\ ~running => pc = "none"
      /\ user = "wait" => pc = "none"
      /\ user \in {"idle", "wait"} \/ ~UserFree
  BY DEF UserFree, StopAlone
<1>2. ASSUME UNCHANGED <<done_tasks, pc, agenda>>, pc \notin {"check", "recheck"}
      PROVE  ClearInv'
  BY <1>2 DEF ClearInv, OthersEmpty, FirstLoopBound, Working, Group
<1>3. ASSUME UNCHANGED <<tasks, done_tasks, pc, agenda, left>>
      PROVE  ClearInv'
  BY <1>3 DEF ClearInv, OthersEmpty, FirstLoopBound, Working, Group
<1>4. ASSUME ~Working, ~Working', UNCHANGED done_tasks
      PROVE  ClearInv'
  BY <1>4 DEF ClearInv, OthersEmpty, FirstLoopBound, Working
<1>5. CASE \/ Stop \/ LastException \/ StopDone \/ CloseScheduler \/ UNCHANGED vars
           \/ \E w \in Workers : WorkerStep(w)
  BY <1>3, <1>5 DEF Stop, LastException, StopDone, CloseScheduler, vars, WorkerStep,
                    TakeTask, FinishTask
<1>6. ASSUME \/ \E t \in Tasks, g \in Groups : AddTask(t, g)
             \/ \E l \in Loops : SetMainLoop(l)
      PROVE  ClearInv'
  BY <1>1, <1>4, <1>6 DEF AddTask, SetMainLoop, Working
<1>7. CASE Start \/ Join \/ StopWait \/ WaitingBody \/ LoopExit \/ WaitForTask
  BY <1>1, <1>4, <1>7, Zenon DEF Start, Join, StopWait, WaitingBody, LoopExit, WaitForTask,
                                 Working
<1>8. CASE Switch \/ Queue
  BY <1>2, <1>8 DEF Switch, Queue
<1>9. CASE BeginSwitch \/ BeginQueue
  BY <1>9 DEF BeginSwitch, BeginQueue, ClearInv, OthersEmpty, FirstLoopBound, Working, Group
<1>10. CASE CallWork \/ RealtimeBody \/ WorkAfterWait
  <2>1. BeginWork /\ ~Working
    BY <1>1, <1>10 DEF CallWork, RealtimeBody, WorkAfterWait, Working
  <2>2. /\ pc' \in {"loop", "none", "check"} /\ agenda' \in Seq(Groups)
        /\ pc' = "check" => agenda' # <<>> /\ left' = tasks[Head(agenda')]
    BY <2>1, BeginWorkType
  <2>3. pc' = "check" => Head(agenda') \in Groups
    BY <2>2, HeadTailProperties
  <2>4. UNCHANGED tasks /\ \A g \in Groups : done_tasks'[g] = <<>>
    BY <2>1 DEF ClearInv, OthersEmpty, BeginWork
  <2>5. QED
    BY <2>2, <2>3, <2>4, EnterClear
<1>11. CASE EndGroup
  <2>1. Working
    BY <1>11 DEF EndGroup, Working
  <2>2. Group \in Groups /\ agenda # <<>> /\ Tail(agenda) \in Seq(Groups)
    BY <2>1, GroupType, HeadTailProperties DEF TypeOK
  <2>3. /\ pc' \in {"loop", "none", "check"}
        /\ pc' = "check" => Head(agenda') \in Groups /\ left' = tasks[Head(agenda')]
    BY <1>11, <2>2, EnterGroupType, Zenon DEF EndGroup, TypeOK
  <2>4. UNCHANGED tasks /\ \A g \in Groups : done_tasks'[g] = <<>>
    BY <1>11, <2>2 DEF TypeOK, ClearInv, OthersEmpty, EndGroup
  <2>5. QED
    BY <2>3, <2>4, EnterClear
<1>12. QED
  BY <1>5, <1>6, <1>7, <1>8, <1>9, <1>10, <1>11, CheckClear
     DEF Next, UserStep, StopStep, LoopStep, QuietLoopStep

\* done_tasks is empty at first.
LEMMA ClearInit ==
  ASSUME Init
  PROVE  ClearInv
BY DEF Init, ClearInv, OthersEmpty, FirstLoopBound, Working

\* run_periodic_tasks enters a group with an empty done_tasks.
LEMMA ClearMeansEmpty ==
  ASSUME TypeOK, ClearInv
  PROVE  DoneTasksEmpty
<1>1. SUFFICES ASSUME pc = "check", left = tasks[Group]
               PROVE  done_tasks[Group] = <<>>
  BY DEF DoneTasksEmpty
<1>2. left \in Seq(Tasks) /\ done_tasks[Group] \in Seq(Tasks)
  BY <1>1, GroupType DEF TypeOK, Working
<1>3. Len(left) + Len(done_tasks[Group]) =< Len(left)
  BY <1>1, Zenon DEF ClearInv, FirstLoopBound
<1>4. Len(left) \in Nat /\ Len(done_tasks[Group]) \in Nat
  BY <1>2, LenProperties
<1>5. Len(done_tasks[Group]) = 0
  BY <1>3, <1>4
<1>6. QED
  BY <1>2, <1>5, EmptySeq
--------------------------------------------------------------------------------
(* The first run of the scheduler.                                         *)

\* The main loop has ended, or does so before it enters run_periodic_tasks again.
Ended == pc \in {"none", "loop", "finished"} /\ (pc = "loop" => ~keep_working)

\* The first run has been shut down.
GaveUp == calls = 1 /\ Ended

\* Until the second call, done_tasks is cleared or work() is never entered again.
FirstRunInv == calls =< 1 => (calls = 0 => pc = "none") /\ (ClearInv \/ GaveUp)

(***************************************************************************)
(* start(), stop() and work() are the steps that count a call.             *)
(***************************************************************************)
LEMMA CallsStep ==
  ASSUME TypeOK, [Next]_vars
  PROVE  /\ calls' \in {calls, calls + 1}
         /\ calls' = calls \/ Start \/ Stop \/ CallWork
<1> USE DEF controlVars
<1>1. CASE UserStep
  BY <1>1 DEF UserStep, AddTask, SetMainLoop, Start, Stop, LastException, CallWork
<1>2. CASE StopStep
  BY <1>2, Zenon DEF StopStep, Join, StopWait, StopDone, CloseScheduler
<1>3. CASE LoopStep
  BY <1>3, Zenon DEF LoopStep, QuietLoopStep, RealtimeBody, WaitingBody, LoopExit,
                     WaitForTask, WorkAfterWait, CheckDone, CheckLate, SkipLate,
                     GiveUp, BeginSwitch, BeginQueue, Queue, EndGroup, Switch
<1>4. ASSUME NEW w \in Workers, WorkerStep(w) PROVE calls' = calls
  BY <1>4 DEF WorkerStep, TakeTask, FinishTask
<1>5. CASE UNCHANGED vars
  BY <1>5 DEF vars
<1>6. QED
  BY <1>1, <1>2, <1>3, <1>4, <1>5, Zenon DEF Next

(***************************************************************************)
(* After a shutdown the main loop only ends: keep_working is false, and    *)
(* run_periodic_tasks is not entered before start() or work() is called.   *)
(***************************************************************************)
LEMMA EndedStep ==
  ASSUME TypeOK, Ended, [Next]_vars, ~Start, ~CallWork
  PROVE  Ended'
<1> USE DEF controlVars
<1>1. CASE UserStep
  <2>1. UNCHANGED pc /\ (~keep_working => ~keep_working')
    BY <1>1 DEF UserStep, AddTask, SetMainLoop, LastException, Stop
  <2>2. QED
    BY <2>1 DEF Ended
<1>2. CASE StopStep
  <2>1. pc' \in {pc, "none"} /\ UNCHANGED keep_working
    BY <1>2, Zenon DEF StopStep, Join, StopWait, StopDone, CloseScheduler
  <2>2. QED
    BY <2>1 DEF Ended
<1>3. CASE LoopStep
  <2>1. LoopExit
    BY <1>3, Zenon DEF Ended, LoopStep, QuietLoopStep, RealtimeBody, WaitingBody,
                       WaitForTask, WorkAfterWait, CheckDone, CheckLate, SkipLate,
                       GiveUp, BeginSwitch, BeginQueue, Queue, EndGroup, Switch
  <2>2. QED
    BY <2>1 DEF LoopExit, Ended
<1>4. ASSUME NEW w \in Workers, WorkerStep(w) PROVE Ended'
  BY <1>4 DEF WorkerStep, TakeTask, FinishTask, Ended
<1>5. CASE UNCHANGED vars
  BY <1>5 DEF vars, Ended
<1>6. QED
  BY <1>1, <1>2, <1>3, <1>4, <1>5 DEF Next

\* A first run that was shut down works no more before the second call.
LEMMA GaveUpStep ==
  ASSUME TypeOK, GaveUp, [Next]_vars, calls' = calls
  PROVE  GaveUp'
<1>1. ~Start /\ ~CallWork
  BY DEF GaveUp, Start, CallWork
<1>2. QED
  BY <1>1, EndedStep DEF GaveUp

\* The first run either leaves done_tasks clear or is shut down.
LEMMA FirstRunStep ==
  ASSUME TypeOK, StopAlone, FirstRunInv, [Next]_vars
  PROVE  FirstRunInv'
<1>1. SUFFICES ASSUME calls' =< 1
               PROVE  (calls' = 0 => pc' = "none") /\ (ClearInv' \/ GaveUp')
  BY DEF FirstRunInv
<1>2. calls \in Nat /\ calls' \in {calls, calls + 1}
  BY CallsStep DEF TypeOK
<1>3. calls =< 1 /\ (calls = 0 => pc = "none") /\ (ClearInv \/ GaveUp)
  BY <1>1, <1>2 DEF FirstRunInv
<1>4. calls' = 0 => pc' = "none"
  <2>1. SUFFICES ASSUME calls' = 0 PROVE pc' = "none"
    OBVIOUS
  <2>2. calls = 0 /\ pc = "none" /\ calls' = calls
    BY <1>2, <1>3, <2>1
  <2>3. ~Start /\ ~Stop /\ ~CallWork
    BY <2>2 DEF Start, Stop, CallWork
  <2>4. QED
    BY <2>2, <2>3, Zenon
       DEF Next, UserStep, AddTask, SetMainLoop, LastException, StopStep, Join, StopWait,
           StopDone, CloseScheduler, LoopStep, QuietLoopStep, RealtimeBody, WaitingBody,
           LoopExit, WaitForTask, WorkAfterWait, CheckDone, CheckLate, SkipLate, GiveUp,
           BeginSwitch, BeginQueue, Queue, EndGroup, Switch, WorkerStep, TakeTask,
           FinishTask, vars, controlVars
<1>5. ClearInv' \/ GaveUp'
  <2>1. CASE GaveUp
    <3>1. calls' = calls
      BY <1>1, <1>2, <2>1 DEF GaveUp
    <3>2. QED
      BY <2>1, <3>1, GaveUpStep
  <2>2. CASE ClearInv /\ ~GiveUp
    BY <2>2, ClearStep
  <2>3. CASE GiveUp
    <3>1. /\ pc = "check" /\ pc' \in {"loop", "none"} /\ ~keep_working' /\ calls' = calls
      BY <2>3, Zenon DEF GiveUp, EnterGroup
    <3>2. calls' = 1
      BY <1>2, <1>3, <3>1
    <3>3. QED
      BY <3>1, <3>2, Zenon DEF GaveUp, Ended
  <2>4. QED
    BY <1>3, <2>1, <2>2, <2>3
<1>6. QED
  BY <1>4, <1>5
--------------------------------------------------------------------------------
(* The theorems.                                                           *)

(***************************************************************************)
(* assert(tasks.done_tasks.empty()) at the start of run_periodic_tasks     *)
(* never fails when the timeout callback always lets the scheduler         *)
(* continue.  With store_exception it does fail, after a restart: that is  *)
(* the counterexample of the run on the default callback.                  *)
(***************************************************************************)
THEOREM DoneTasksAreCleared ==
  ASSUME FALSE \notin CallbackReturns
  PROVE  Spec => []DoneTasksEmpty
<1>1. Init => TypeOK /\ StopAlone /\ ClearInv
  BY CycleInit, ClearInit
<1>2. ~GiveUp
  BY Zenon DEF GiveUp, TimeoutCallback
<1>3. TypeOK /\ StopAlone /\ ClearInv /\ [Next]_vars => (TypeOK /\ StopAlone /\ ClearInv)'
  BY <1>2, CycleTypeStep, StopAloneStep, ClearStep
<1>4. TypeOK /\ ClearInv => DoneTasksEmpty
  BY ClearMeansEmpty
<1>5. QED
  BY <1>1, <1>3, <1>4, PTL DEF Spec

(***************************************************************************)
(* The same assertion never fails before the second call of start(),       *)
(* stop() or work(), whatever the timeout callback returns: the first run  *)
(* is always a clean one, and so is its shutdown.                          *)
(***************************************************************************)
THEOREM FirstRunIsClean == Spec => [](calls =< 1 => DoneTasksEmpty)
<1>1. Init => TypeOK /\ StopAlone /\ FirstRunInv
  <2>1. Init => ClearInv /\ pc = "none"
    BY ClearInit, Zenon DEF Init
  <2>2. QED
    BY <2>1, CycleInit DEF FirstRunInv
<1>2. TypeOK /\ StopAlone /\ FirstRunInv /\ [Next]_vars => (TypeOK /\ StopAlone /\ FirstRunInv)'
  BY CycleTypeStep, StopAloneStep, FirstRunStep
<1>3. TypeOK /\ FirstRunInv => (calls =< 1 => DoneTasksEmpty)
  <2>1. GaveUp => DoneTasksEmpty
    BY DEF GaveUp, Ended, DoneTasksEmpty
  <2>2. QED
    BY <2>1, ClearMeansEmpty DEF FirstRunInv
<1>4. QED
  BY <1>1, <1>2, <1>3, PTL DEF Spec

(***************************************************************************)
(* No two workers ever execute the same region, and no region is queued    *)
(* twice, however late its cycles are and whatever the timeout callback    *)
(* returns, as long as assert(tasks.done_tasks.empty()) has not failed.    *)
(***************************************************************************)
THEOREM RegionsAreSingleThreaded == Spec /\ []DoneTasksEmpty => []SingleThread
<1>1. CycleInv => SingleThread
  BY DEF CycleInv, RunInv
<1>2. QED
  BY <1>1, CycleInvariant, PTL

(***************************************************************************)
(* Under the same assertion, done() is true exactly when the region is     *)
(* neither queued nor executed nor about to be queued by                   *)
(* run_periodic_tasks.                                                     *)
(***************************************************************************)
THEOREM DoneIsExact == Spec /\ []DoneTasksEmpty => []DoneMeansQuiet
<1>1. CycleInv => DoneMeansQuiet
  BY DEF CycleInv, RunInv
<1>2. QED
  BY <1>1, CycleInvariant, PTL

\* The second loop only has tasks left that are done and not in the scheduler.
LEMMA SwitchIsQuiet ==
  ASSUME CycleInv
  PROVE  SwitchOnlyWhenDone
<1>1. SUFFICES ASSUME pc = "switch", NEW i \in DOMAIN left
               PROVE  ~work_to_do[left[i]] /\ ~InFlight(left[i])
  BY DEF SwitchOnlyWhenDone
<1>2. ~work_to_do[left[i]]
  BY <1>1 DEF CycleInv, RunInv, LoopsInv, Working
<1>3. left[i] \in Tasks
  BY <1>1 DEF CycleInv, TypeOK
<1>4. QED
  BY <1>1, <1>2, <1>3 DEF CycleInv, RunInv, DoneMeansQuiet

(***************************************************************************)
(* The first assertion implies the second: as long as                      *)
(* assert(tasks.done_tasks.empty()) has not failed, assert(task.done()) in *)
(* the second loop of run_periodic_tasks does not fail either, and the     *)
(* switch tick reaches a region only between two cycles of it.             *)
(***************************************************************************)
THEOREM SwitchesBetweenCycles == Spec /\ []DoneTasksEmpty => []SwitchOnlyWhenDone
<1>1. CycleInv => SwitchOnlyWhenDone
  BY SwitchIsQuiet
<1>2. QED
  BY <1>1, CycleInvariant, PTL

(***************************************************************************)
(* When the timeout callback lets the scheduler continue, the three hold   *)
(* in every run, without a condition.                                      *)
(***************************************************************************)
THEOREM ContinuingSchedulerIsSafe ==
  ASSUME FALSE \notin CallbackReturns
  PROVE  Spec => [](SingleThread /\ DoneMeansQuiet /\ SwitchOnlyWhenDone)
BY DoneTasksAreCleared, RegionsAreSingleThreaded, DoneIsExact, SwitchesBetweenCycles, PTL

(***************************************************************************)
(* Whatever the timeout callback returns, the three hold in the first run. *)
(***************************************************************************)
THEOREM FirstRunIsSafe ==
  Spec => [](calls =< 1 => SingleThread /\ DoneMeansQuiet /\ SwitchOnlyWhenDone)
<1>1. Init => CycleInv
  BY CycleInvInit
<1>2. /\ TypeOK /\ (calls =< 1 => CycleInv) /\ (calls =< 1 => DoneTasksEmpty)'
      /\ [Next]_vars
      => (calls =< 1 => CycleInv)'
  <2>1. TypeOK /\ [Next]_vars => (calls' =< 1 => calls =< 1)
    BY CallsStep DEF TypeOK
  <2>2. QED
    BY <2>1, CycleInvStep
<1>3. CycleInv => SingleThread /\ DoneMeansQuiet /\ SwitchOnlyWhenDone
  BY SwitchIsQuiet DEF CycleInv, RunInv
<1>4. QED
  BY <1>1, <1>2, <1>3, CycleTypeCorrect, FirstRunIsClean, PTL DEF Spec

\* start() and work() are only called when no shutdown has left a task in done_tasks.
CleanRestarts ==
  [][Start \/ CallWork => \A g \in Groups : done_tasks[g] = <<>>]_vars

(***************************************************************************)
(* The only way to fail assert(tasks.done_tasks.empty()) is to call        *)
(* start() or work() again after a timeout callback shut the scheduler     *)
(* down and left tasks in done_tasks: without such a call the assertion    *)
(* holds, with everything that rests on it, for any timeout callback and   *)
(* any number of restarts.                                                 *)
(***************************************************************************)
THEOREM OnlyDirtyRestartsFail ==
  Spec /\ CleanRestarts
    => [](DoneTasksEmpty /\ SingleThread /\ DoneMeansQuiet /\ SwitchOnlyWhenDone)
<1> DEFINE Clean == Start \/ CallWork => \A g \in Groups : done_tasks[g] = <<>>
<1>1. Init => TypeOK /\ StopAlone /\ (ClearInv \/ Ended)
  BY CycleInit, ClearInit
<1>2. ASSUME TypeOK, StopAlone, ClearInv \/ Ended, [Next]_vars, [Clean]_vars
      PROVE  ClearInv' \/ Ended'
  <2>1. CASE GiveUp
    BY <2>1, Zenon DEF GiveUp, EnterGroup, Ended
  <2>2. CASE ClearInv /\ ~GiveUp
    BY <1>2, <2>2, ClearStep
  <2>3. CASE Ended /\ ~Start /\ ~CallWork
    BY <1>2, <2>3, EndedStep
  <2>4. CASE Ended /\ (Start \/ CallWork) /\ ~GiveUp
    <3>1. pc = "none" /\ \A g \in Groups : done_tasks[g] = <<>>
      <4>1. calls' # calls /\ pc = "none"
        <5>1. calls \in Nat /\ calls' = calls + 1
          BY <1>2, <2>4, Zenon DEF Start, CallWork, TypeOK
        <5>2. pc = "none"
          BY <2>4, Zenon DEF Start, CallWork, UserFree
        <5>3. QED
          BY <5>1, <5>2
      <4>2. Clean
        BY <1>2, <4>1 DEF vars, controlVars
      <4>3. QED
        BY <2>4, <4>1, <4>2
    <3>2. ClearInv
      BY <3>1 DEF ClearInv, OthersEmpty, FirstLoopBound
    <3>3. QED
      BY <1>2, <2>4, <3>2, ClearStep
  <2>5. QED
    BY <1>2, <2>1, <2>2, <2>3, <2>4
<1>3. TypeOK /\ (ClearInv \/ Ended) => DoneTasksEmpty
  BY ClearMeansEmpty DEF Ended, DoneTasksEmpty
<1>4. TypeOK /\ StopAlone /\ [Next]_vars => TypeOK' /\ StopAlone'
  BY CycleTypeStep, StopAloneStep
<1>5. Spec /\ CleanRestarts => []DoneTasksEmpty
  BY <1>1, <1>2, <1>3, <1>4, PTL DEF Spec, CleanRestarts
<1>6. QED
  BY <1>5, RegionsAreSingleThreaded, DoneIsExact, SwitchesBetweenCycles, PTL
--------------------------------------------------------------------------------
(* stop().                                                                 *)

\* The scheduler and run_periodic_tasks only know registered tasks.
OnlyRegistered ==
  /\ \A i \in DOMAIN waiting : waiting[i] \in Registered
  /\ \A w \in Workers : executing[w] \in Registered \cup {NoTask}
  /\ \A g \in Groups : \A i \in DOMAIN done_tasks[g] : done_tasks[g][i] \in Registered
  /\ Working => \A i \in DOMAIN left : left[i] \in Registered

(***************************************************************************)
(* The elements of s \o u.                                                 *)
(***************************************************************************)
LEMMA ConcatElements ==
  ASSUME NEW S, NEW s \in Seq(S), NEW u \in Seq(S), NEW x
  PROVE  InSeq(x, s \o u) <=> InSeq(x, s) \/ InSeq(x, u)
<1>1. /\ DOMAIN s = 1 .. Len(s) /\ DOMAIN u = 1 .. Len(u)
      /\ Len(s) \in Nat /\ Len(u) \in Nat /\ s \o u \in Seq(S)
      /\ DOMAIN (s \o u) = 1 .. Len(s) + Len(u)
      /\ \A i \in 1 .. Len(s) + Len(u) :
           (s \o u)[i] = IF i =< Len(s) THEN s[i] ELSE u[i - Len(s)]
  BY ConcatProperties, LenProperties
<1>2. ASSUME InSeq(x, s) PROVE InSeq(x, s \o u)
  <2>1. PICK i \in 1 .. Len(s) : s[i] = x
    BY <1>1, <1>2 DEF InSeq
  <2>2. i \in 1 .. Len(s) + Len(u) /\ (s \o u)[i] = x
    BY <1>1, <2>1
  <2>3. QED
    BY <1>1, <2>2 DEF InSeq
<1>3. ASSUME InSeq(x, u) PROVE InSeq(x, s \o u)
  <2>1. PICK i \in 1 .. Len(u) : u[i] = x
    BY <1>1, <1>3 DEF InSeq
  <2>2. /\ Len(s) + i \in 1 .. Len(s) + Len(u) /\ ~(Len(s) + i =< Len(s))
        /\ (Len(s) + i) - Len(s) = i
    BY <1>1, <2>1
  <2>3. (s \o u)[Len(s) + i] = x
    BY <1>1, <2>1, <2>2, Zenon
  <2>4. QED
    BY <1>1, <2>2, <2>3, Zenon DEF InSeq
<1>4. ASSUME InSeq(x, s \o u) PROVE InSeq(x, s) \/ InSeq(x, u)
  <2>1. PICK i \in 1 .. Len(s) + Len(u) : (s \o u)[i] = x
    BY <1>1, <1>4 DEF InSeq
  <2>2. CASE i =< Len(s)
    BY <1>1, <2>1, <2>2 DEF InSeq
  <2>3. CASE ~(i =< Len(s))
    <3>1. i - Len(s) \in 1 .. Len(u)
      BY <1>1, <2>3
    <3>2. u[i - Len(s)] = x
      BY <1>1, <2>1, <2>3
    <3>3. QED
      BY <1>1, <3>1, <3>2, Zenon DEF InSeq
  <2>4. QED
    BY <2>2, <2>3
<1>5. QED
  BY <1>2, <1>3, <1>4

(***************************************************************************)
(* Tasks are added and never removed.                                      *)
(***************************************************************************)
LEMMA RegisteredGrows ==
  ASSUME TypeOK, [Next]_vars
  PROVE  /\ Registered \subseteq Registered'
         /\ \A g \in Groups : \A x : InSeq(x, tasks[g]) => InSeq(x, tasks'[g])
<1>1. \A g \in Groups : \A x : InSeq(x, tasks[g]) => InSeq(x, tasks'[g])
  <2>1. CASE UNCHANGED tasks
    BY <2>1
  <2>2. ASSUME NEW t \in Tasks, NEW h \in Groups, AddTask(t, h),
               NEW g \in Groups, NEW x, InSeq(x, tasks[g])
        PROVE  InSeq(x, tasks'[g])
    <3>1. tasks[h] \in Seq(Tasks) /\ tasks' = [tasks EXCEPT ![h] = Append(tasks[h], t)]
      BY <2>2 DEF AddTask, TypeOK
    <3>2. tasks'[g] = IF g = h THEN Append(tasks[h], t) ELSE tasks[g]
      BY <3>1 DEF TypeOK
    <3>3. InSeq(x, tasks[h]) => InSeq(x, Append(tasks[h], t))
      BY <3>1, AppendElements
    <3>4. QED
      BY <2>2, <3>2, <3>3
  <2>3. QED
    BY <2>1, <2>2, TasksStep
<1>2. QED
  BY <1>1 DEF Registered

(***************************************************************************)
(* When work() is about to start a group, left holds the tasks of it.      *)
(***************************************************************************)
LEMMA EnterRegistered ==
  ASSUME TypeOK, NEW groups \in Seq(Groups), EnterGroup(groups)
  PROVE  Working' => \A i \in DOMAIN left' : left'[i] \in Registered
<1>1. pc' = "check" => Head(groups) \in Groups /\ left' = tasks[Head(groups)]
  BY EnterGroupType DEF TypeOK
<1>2. pc' \in {"loop", "none", "check"}
  BY EnterGroupType DEF TypeOK
<1>3. ASSUME pc' = "check", NEW i \in DOMAIN left' PROVE left'[i] \in Registered
  <2>1. Head(groups) \in Groups /\ left' = tasks[Head(groups)] /\ left' \in Seq(Tasks)
    BY <1>1, <1>3 DEF TypeOK
  <2>2. left'[i] \in Tasks /\ InSeq(left'[i], tasks[Head(groups)])
    BY <1>3, <2>1 DEF InSeq
  <2>3. QED
    BY <2>1, <2>2 DEF Registered
<1>4. QED
  BY <1>2, <1>3 DEF Working

\* Tasks reach left, done_tasks and the scheduler from the groups only.
LEMMA OnlyRegisteredStep ==
  ASSUME TypeOK, StopAlone, OnlyRegistered, [Next]_vars
  PROVE  OnlyRegistered'
<1> USE DEF controlVars, queueVars
<1>1. Registered \subseteq Registered'
  BY RegisteredGrows
<1>2. /\ UserFree /\ ~running => pc = "none"
      /\ user = "wait" => pc = "none"
      /\ waiting \in Seq(Tasks) /\ executing \in [Workers -> Tasks \cup {NoTask}]
      /\ left \in Seq(Tasks) /\ done_tasks \in [Groups -> Seq(Tasks)]
  BY DEF UserFree, StopAlone, TypeOK, QueueTypeOK
<1>3. ASSUME UNCHANGED <<waiting, executing, done_tasks>>,
             Working' => \A i \in DOMAIN left' : left'[i] \in Registered
      PROVE  OnlyRegistered'
  BY <1>1, <1>3 DEF OnlyRegistered
<1>4. CASE Stop \/ LastException \/ StopDone \/ CloseScheduler \/ UNCHANGED vars
  BY <1>3, <1>4 DEF Stop, LastException, StopDone, CloseScheduler, Close, Closed, vars,
                    OnlyRegistered, Working
<1>5. ASSUME \/ \E t \in Tasks, g \in Groups : AddTask(t, g)
             \/ \E l \in Loops : SetMainLoop(l)
      PROVE  OnlyRegistered'
  BY <1>2, <1>3, <1>5 DEF AddTask, SetMainLoop, Working
<1>6. CASE Start \/ Join \/ StopWait \/ WaitingBody \/ LoopExit \/ WaitForTask
  BY <1>2, <1>3, <1>6, Zenon DEF Start, Join, StopWait, WaitingBody, LoopExit, WaitForTask,
                                 Working
<1>7. CASE CallWork \/ RealtimeBody \/ WorkAfterWait
  <2>1. BeginWork
    BY <1>7 DEF CallWork, RealtimeBody, WorkAfterWait
  <2>2. EnterGroup(agenda') /\ agenda' \in Seq(Groups)
    BY <2>1, BeginWorkType DEF BeginWork, EnterGroup
  <2>3. UNCHANGED <<waiting, executing, done_tasks>>
    BY <2>1 DEF BeginWork
  <2>4. QED
    BY <1>3, <2>2, <2>3, EnterRegistered
<1>8. CASE GiveUp
  <2>1. ~Working'
    BY <1>8, Zenon DEF GiveUp, EnterGroup, Working
  <2>2. QED
    BY <1>3, <1>8, <2>1 DEF GiveUp
<1>9. CASE CheckDone \/ CheckLate \/ SkipLate
  <2>1. /\ Working /\ left # <<>> /\ (left' = left \/ left' = Tail(left))
        /\ UNCHANGED <<waiting, executing>>
    BY <1>9, Zenon DEF CheckDone, CheckLate, SkipLate, Working, TypeOK
  <2>2. /\ Head(left) \in Registered
        /\ \A i \in DOMAIN left' : left'[i] \in Registered
    <3>1. \A x : InSeq(x, left) => x \in Registered
      BY <2>1 DEF OnlyRegistered, InSeq
    <3>2. InSeq(Head(left), left) /\ \A i \in DOMAIN Tail(left) : InSeq(Tail(left)[i], left)
      BY <1>2, <2>1, TailElements
    <3>3. QED
      BY <2>1, <3>1, <3>2 DEF InSeq
  <2>3. ASSUME NEW g \in Groups, NEW i \in DOMAIN done_tasks'[g]
        PROVE  done_tasks'[g][i] \in Registered
    <3>1. Group \in Groups /\ done_tasks[Group] \in Seq(Tasks)
      BY <2>1, GroupType
    <3>2. \/ done_tasks'[g] = done_tasks[g]
          \/ g = Group /\ done_tasks'[g] = Append(done_tasks[Group], Head(left))
      BY <1>2, <1>9, <3>1, Zenon DEF CheckDone, CheckLate, SkipLate
    <3>3. CASE done_tasks'[g] = done_tasks[g]
      BY <2>3, <3>3 DEF OnlyRegistered
    <3>4. CASE g = Group /\ done_tasks'[g] = Append(done_tasks[Group], Head(left))
      <4>1. InSeq(done_tasks'[g][i], Append(done_tasks[Group], Head(left)))
        BY <2>3, <3>4 DEF InSeq
      <4>2. Head(left) \in Tasks
        BY <2>2 DEF Registered
      <4>3. InSeq(done_tasks'[g][i], done_tasks[Group]) \/ done_tasks'[g][i] = Head(left)
        BY <3>1, <4>1, <4>2, AppendElements
      <4>4. QED
        BY <2>2, <3>1, <4>3 DEF OnlyRegistered, InSeq
    <3>5. QED
      BY <3>2, <3>3, <3>4
  <2>4. QED
    BY <1>1, <2>1, <2>2, <2>3 DEF OnlyRegistered
<1>10. CASE BeginSwitch \/ BeginQueue
  <2>1. Working
    BY <1>10 DEF BeginSwitch, BeginQueue, Working
  <2>2. Group \in Groups
    BY <2>1, GroupType
  <2>3. UNCHANGED <<waiting, executing, done_tasks>> /\ left' = done_tasks[Group]
    BY <1>10 DEF BeginSwitch, BeginQueue
  <2>4. QED
    BY <1>3, <2>2, <2>3 DEF OnlyRegistered
<1>11. CASE Switch \/ Queue
  <2>1. Working /\ left # <<>> /\ left' = Tail(left) /\ UNCHANGED <<executing, done_tasks>>
    BY <1>11 DEF Switch, Queue, Enqueue, Working
  <2>2. /\ Head(left) \in Registered
        /\ \A i \in DOMAIN Tail(left) : Tail(left)[i] \in Registered
    <3>1. \A x : InSeq(x, left) => x \in Registered
      BY <2>1 DEF OnlyRegistered, InSeq
    <3>2. QED
      BY <1>2, <2>1, <3>1, TailElements
  <2>3. \A i \in DOMAIN waiting' : waiting'[i] \in Registered
    <3>1. CASE waiting' = waiting
      BY <3>1 DEF OnlyRegistered
    <3>2. CASE waiting' = Append(waiting, Head(left))
      <4>1. \A y : InSeq(y, waiting') => InSeq(y, waiting) \/ y = Head(left)
        BY <1>2, <2>2, <3>2, AppendElements DEF Registered
      <4>2. QED
        BY <2>2, <4>1 DEF OnlyRegistered, InSeq
    <3>3. QED
      BY <1>11, <3>1, <3>2 DEF Switch, Queue, Enqueue
  <2>4. QED
    BY <1>1, <2>1, <2>2, <2>3 DEF OnlyRegistered
<1>12. CASE EndGroup
  <2>1. Working
    BY <1>12 DEF EndGroup, Working
  <2>2. Group \in Groups /\ Tail(agenda) \in Seq(Groups)
    BY <2>1, GroupType, HeadTailProperties DEF TypeOK
  <2>3. \A g \in Groups : done_tasks'[g] \in {done_tasks[g], <<>>}
    BY <1>2, <1>12, <2>2 DEF EndGroup
  <2>4. Working' => \A i \in DOMAIN left' : left'[i] \in Registered
    BY <1>12, <2>2, EnterRegistered, Zenon DEF EndGroup
  <2>5. QED
    BY <1>1, <1>12, <2>3, <2>4 DEF EndGroup, OnlyRegistered
<1>13. ASSUME NEW w \in Workers, TakeTask(w) PROVE OnlyRegistered'
  <2>1. /\ waiting # <<>> /\ waiting' = Tail(waiting)
        /\ executing' = [executing EXCEPT ![w] = Head(waiting)]
        /\ UNCHANGED <<done_tasks, pc, left>>
    BY <1>13, CycleAssumption DEF TakeTask, Take
  <2>2. /\ Head(waiting) \in Registered
        /\ \A i \in DOMAIN Tail(waiting) : Tail(waiting)[i] \in Registered
    <3>1. \A x : InSeq(x, waiting) => x \in Registered
      BY DEF OnlyRegistered, InSeq
    <3>2. QED
      BY <1>2, <2>1, <3>1, TailElements
  <2>3. \A v \in Workers : executing'[v] \in {executing[v], Head(waiting)}
    BY <1>2, <2>1
  <2>4. QED
    BY <1>1, <2>1, <2>2, <2>3 DEF OnlyRegistered, Working
<1>14. ASSUME NEW w \in Workers, FinishTask(w) PROVE OnlyRegistered'
  <2>1. \A v \in Workers : executing'[v] \in {executing[v], NoTask}
    BY <1>2, <1>14 DEF FinishTask, Finish
  <2>2. QED
    BY <1>1, <1>14, <2>1 DEF FinishTask, Finish, OnlyRegistered, Working
<1>15. QED
  BY <1>4, <1>5, <1>6, <1>7, <1>8, <1>9, <1>10, <1>11, <1>12, <1>13, <1>14, Zenon
     DEF Next, UserStep, StopStep, LoopStep, QuietLoopStep, WorkerStep

(***************************************************************************)
(* stop() has joined the main loop before it waits, so nothing is queued   *)
(* any more, and it waits for every registered task in turn.               *)
(***************************************************************************)
LEMMA StopQuiescentStep ==
  ASSUME CycleInv, OnlyRegistered, StopQuiescent, [Next]_vars
  PROVE  StopQuiescent'
<1> USE DEF controlVars, queueVars
<1>1. /\ waiting \in Seq(Tasks) /\ executing \in [Workers -> Tasks \cup {NoTask}]
      /\ left \in Seq(Tasks) /\ tasks \in [Groups -> Seq(Tasks)]
      /\ user \in {"wait", "destroy"} => pc = "none"
  BY DEF CycleInv, TypeOK, QueueTypeOK, StopAlone
<1>2. ASSUME user' # "wait" PROVE StopQuiescent'
  BY <1>2 DEF StopQuiescent
<1>3. ASSUME UNCHANGED <<waiting, executing, left, timed_out, user>> PROVE StopQuiescent'
  BY <1>3 DEF StopQuiescent, InFlight
<1>4. CASE UserStep
  <2>1. user' \in {"idle", "join"}
    BY <1>4 DEF UserStep, AddTask, SetMainLoop, Start, Stop, LastException, CallWork,
                BeginWork, UserFree
  <2>2. QED
    BY <1>2, <2>1
<1>5. CASE Join
  <2>1. /\ left' = (tasks["fast"] \o tasks["medium"]) \o tasks["slow"]
        /\ UNCHANGED <<waiting, executing>>
    BY <1>5 DEF Join
  <2>2. ASSUME NEW t \in Tasks, InFlight(t) PROVE InSeq(t, left')
    <3>1. t \in Registered
      BY <2>2, QueueAssumption DEF InFlight, InSeq, OnlyRegistered
    <3>2. InSeq(t, tasks["fast"]) \/ InSeq(t, tasks["medium"]) \/ InSeq(t, tasks["slow"])
      BY <3>1 DEF Registered, Groups
    <3>3. /\ tasks["fast"] \in Seq(Tasks) /\ tasks["medium"] \in Seq(Tasks)
          /\ tasks["slow"] \in Seq(Tasks) /\ tasks["fast"] \o tasks["medium"] \in Seq(Tasks)
      BY <1>1 DEF Groups
    <3>4. InSeq(t, tasks["fast"] \o tasks["medium"])
            <=> InSeq(t, tasks["fast"]) \/ InSeq(t, tasks["medium"])
      BY <3>3, ConcatElements
    <3>5. InSeq(t, (tasks["fast"] \o tasks["medium"]) \o tasks["slow"])
            <=> InSeq(t, tasks["fast"] \o tasks["medium"]) \/ InSeq(t, tasks["slow"])
      BY <3>3, ConcatElements, Zenon
    <3>6. QED
      BY <2>1, <3>2, <3>4, <3>5
  <2>3. QED
    BY <2>1, <2>2 DEF StopQuiescent, InFlight
<1>6. CASE StopWait
  <2>1. /\ left # <<>> /\ left' = Tail(left) /\ UNCHANGED <<waiting, executing>>
        /\ user = "wait" /\ timed_out \subseteq timed_out'
        /\ work_to_do[Head(left)] => Head(left) \in timed_out'
    BY <1>6, Zenon DEF StopWait
  <2>2. /\ Head(left) \in Tasks
        /\ \A y : InSeq(y, left) <=> y = Head(left) \/ InSeq(y, Tail(left))
    BY <1>1, <2>1, TailElements
  <2>3. InFlight(Head(left)) => work_to_do[Head(left)]
    BY <2>2 DEF CycleInv, RunInv, DoneMeansQuiet
  <2>4. \A t \in Tasks : InFlight(t)' <=> InFlight(t)
    BY <2>1 DEF InFlight
  <2>5. QED
    BY <2>1, <2>2, <2>3, <2>4 DEF StopQuiescent
<1>7. CASE StopDone \/ CloseScheduler
  <2>1. user' # "wait"
    BY <1>7 DEF StopDone, CloseScheduler
  <2>2. QED
    BY <1>2, <2>1
<1>8. CASE LoopStep
  <2>1. user' = user /\ pc # "none"
    BY <1>8, Zenon DEF LoopStep, QuietLoopStep, RealtimeBody, WaitingBody, LoopExit,
                       WaitForTask, WorkAfterWait, BeginWork, CheckDone, CheckLate, SkipLate,
                       GiveUp, BeginSwitch, BeginQueue, Queue, EndGroup, Switch
  <2>2. QED
    BY <1>1, <1>2, <2>1
<1>9. ASSUME NEW w \in Workers, WorkerStep(w) PROVE StopQuiescent'
  <2>1. UNCHANGED <<left, timed_out, user>>
    BY <1>9 DEF WorkerStep, TakeTask, FinishTask
  <2>2. ASSUME NEW t \in Tasks, InFlight(t)' PROVE InFlight(t)
    <3>1. CASE TakeTask(w)
      <4>1. /\ waiting # <<>> /\ waiting' = Tail(waiting)
            /\ executing' = [executing EXCEPT ![w] = Head(waiting)]
        BY <3>1, CycleAssumption DEF TakeTask, Take
      <4>2. InSeq(Head(waiting), waiting) /\ \A y : InSeq(y, waiting') => InSeq(y, waiting)
        BY <1>1, <4>1, TailElements, Zenon
      <4>3. \A v \in Workers : executing'[v] \in {executing[v], Head(waiting)}
        BY <1>1, <4>1
      <4>4. QED
        BY <2>2, <4>2, <4>3 DEF InFlight
    <3>2. CASE FinishTask(w)
      <4>1. waiting' = waiting /\ \A v \in Workers : executing'[v] \in {executing[v], NoTask}
        BY <1>1, <3>2 DEF FinishTask, Finish
      <4>2. QED
        BY <2>2, <4>1, QueueAssumption DEF InFlight
    <3>3. QED
      BY <1>9, <3>1, <3>2 DEF WorkerStep
  <2>3. QED
    BY <2>1, <2>2 DEF StopQuiescent
<1>10. CASE UNCHANGED vars
  BY <1>3, <1>10 DEF vars
<1>11. QED
  BY <1>4, <1>5, <1>6, <1>7, <1>8, <1>9, <1>10 DEF Next, StopStep

(***************************************************************************)
(* When stop() returns, every region that is still queued or executed has  *)
(* been reported to the timeout callback, in each of the three groups, as  *)
(* long as assert(tasks.done_tasks.empty()) has not failed.                *)
(***************************************************************************)
THEOREM StopForgetsNothing == Spec /\ []DoneTasksEmpty => []StopQuiescent
<1>1. Init => OnlyRegistered /\ StopQuiescent
  <2>1. SUFFICES ASSUME Init PROVE OnlyRegistered /\ StopQuiescent
    OBVIOUS
  <2>2. /\ waiting = <<>> /\ pc = "none" /\ user = "idle"
        /\ \A w \in Workers : executing[w] = NoTask
        /\ \A g \in Groups : done_tasks[g] = <<>>
    BY <2>1 DEF Init, QueueInit
  <2>3. QED
    BY <2>2 DEF OnlyRegistered, StopQuiescent, Working
<1>2. CycleInv /\ OnlyRegistered /\ StopQuiescent /\ [Next]_vars
        => OnlyRegistered' /\ StopQuiescent'
  BY OnlyRegisteredStep, StopQuiescentStep DEF CycleInv
<1>3. QED
  BY <1>1, <1>2, CycleInvariant, PTL DEF Spec
--------------------------------------------------------------------------------
(* The groups that run_periodic_tasks works on.                            *)

\* The three loops only visit tasks of the current group.
OwnGroup ==
  Working => \A x : InSeq(x, left) \/ InSeq(x, done_tasks[Group]) => InSeq(x, tasks[Group])

\* No task of the current group was skipped because it is late.
NoneSkipped ==
  Working =>
    /\ pc # "recheck"
    /\ \A x : InSeq(x, tasks[Group])
                => InSeq(x, done_tasks[Group]) \/ (pc = "check" /\ InSeq(x, left))

\* Only a callback that continues skips a late task.
LEMMA GroupsStep ==
  ASSUME TypeOK, StopAlone, OwnGroup, [Next]_vars, DoneTasksEmpty'
  PROVE  OwnGroup' /\ (NoneSkipped /\ TRUE \notin CallbackReturns => NoneSkipped')
<1> USE DEF controlVars, queueVars
<1> DEFINE Goal == OwnGroup' /\ (NoneSkipped /\ TRUE \notin CallbackReturns => NoneSkipped')
           D == done_tasks[Group]
<1>1. /\ UserFree /\ ~running => pc = "none"
      /\ user = "wait" => pc = "none"
      /\ left \in Seq(Tasks) /\ done_tasks \in [Groups -> Seq(Tasks)]
      /\ tasks \in [Groups -> Seq(Tasks)]
  BY DEF UserFree, StopAlone, TypeOK
<1>2. ASSUME ~Working' PROVE Goal
  BY <1>2, Zenon DEF OwnGroup, NoneSkipped
<1>3. ASSUME UNCHANGED <<tasks, done_tasks, pc, agenda, left>> PROVE Goal
  BY <1>3, ZenonT(60) DEF OwnGroup, NoneSkipped, Working, Group, InSeq
<1>4. ASSUME UNCHANGED tasks, pc' \in {"loop", "none", "check"},
             pc' = "check" => Head(agenda') \in Groups /\ left' = tasks[Head(agenda')]
      PROVE  Goal
  <2>1. CASE pc' # "check"
    BY <1>2, <1>4, <2>1, Zenon DEF Working
  <2>2. CASE pc' = "check"
    <3>1. left' = tasks'[Group'] /\ done_tasks'[Group'] = <<>>
      BY <1>4, <2>2 DEF Group, DoneTasksEmpty
    <3>2. \A x : ~InSeq(x, <<>>)
      BY DEF InSeq
    <3>3. QED
      BY <2>2, <3>1, <3>2, Zenon DEF OwnGroup, NoneSkipped
  <2>3. QED
    BY <2>1, <2>2, Zenon
<1>5. CASE Stop \/ LastException \/ StopDone \/ CloseScheduler \/ UNCHANGED vars
  BY <1>3, <1>5, Zenon DEF Stop, LastException, StopDone, CloseScheduler, vars
<1>6. ASSUME \/ \E t \in Tasks, g \in Groups : AddTask(t, g)
             \/ \E l \in Loops : SetMainLoop(l)
      PROVE  Goal
  BY <1>1, <1>2, <1>6, Zenon DEF AddTask, SetMainLoop, Working
<1>7. CASE Start \/ Join \/ StopWait \/ WaitingBody \/ LoopExit \/ WaitForTask
  BY <1>1, <1>2, <1>7, Zenon DEF Start, Join, StopWait, WaitingBody, LoopExit, WaitForTask,
                                 Working
<1>8. CASE CallWork \/ RealtimeBody \/ WorkAfterWait
  <2>1. BeginWork /\ UNCHANGED tasks
    BY <1>8 DEF CallWork, RealtimeBody, WorkAfterWait, BeginWork
  <2>2. /\ pc' \in {"loop", "none", "check"} /\ agenda' \in Seq(Groups)
        /\ pc' = "check" => agenda' # <<>> /\ left' = tasks[Head(agenda')]
    BY <2>1, BeginWorkType
  <2>3. pc' = "check" => Head(agenda') \in Groups
    BY <2>2, HeadTailProperties
  <2>4. QED
    BY <1>4, <2>1, <2>2, <2>3, Zenon
<1>9. CASE GiveUp
  BY <1>2, <1>9, Zenon DEF GiveUp, EnterGroup, Working
<1>10. CASE EndGroup
  <2>1. Working
    BY <1>10 DEF EndGroup, Working
  <2>2. Group \in Groups /\ Tail(agenda) \in Seq(Groups)
    BY <2>1, GroupType, HeadTailProperties DEF TypeOK
  <2>3. /\ pc' \in {"loop", "none", "check"}
        /\ pc' = "check" => Head(agenda') \in Groups /\ left' = tasks[Head(agenda')]
    BY <1>10, <2>2, EnterGroupType, Zenon DEF EndGroup, TypeOK
  <2>4. QED
    BY <1>4, <1>10, <2>3, Zenon DEF EndGroup
<1>11. CASE CheckDone
  <2>1. /\ Working /\ pc \in {"check", "recheck"} /\ pc' = "check" /\ Group' = Group
        /\ left # <<>> /\ left' = Tail(left) /\ UNCHANGED tasks
        /\ done_tasks' = [done_tasks EXCEPT ![Group] = Append(D, Head(left))]
    BY <1>11 DEF CheckDone, Working, Group
  <2>2. Group \in Groups /\ D \in Seq(Tasks)
    BY <2>1, GroupType
  <2>3. /\ Head(left) \in Tasks /\ InSeq(Head(left), left)
        /\ \A y : InSeq(y, left) <=> y = Head(left) \/ InSeq(y, Tail(left))
    BY <1>1, <2>1, TailElements
  <2>4. done_tasks'[Group'] = Append(D, Head(left))
    BY <1>1, <2>1, <2>2
  <2>5. \A y : InSeq(y, Append(D, Head(left))) <=> InSeq(y, D) \/ y = Head(left)
    BY <2>2, <2>3, AppendElements
  <2>6. QED
    BY <2>1, <2>3, <2>4, <2>5, Zenon DEF OwnGroup, NoneSkipped
<1>12. CASE CheckLate \/ SkipLate
  <2>1. /\ Working /\ left # <<>> /\ (left' = left \/ left' = Tail(left)) /\ Group' = Group
        /\ UNCHANGED <<tasks, done_tasks>> /\ (pc = "recheck" \/ TRUE \in CallbackReturns)
    BY <1>12, Zenon DEF CheckLate, SkipLate, TimeoutCallback, Working, Group, TypeOK
  <2>2. \A y : InSeq(y, Tail(left)) => InSeq(y, left)
    BY <1>1, <2>1, TailElements, Zenon
  <2>3. OwnGroup'
    BY <2>1, <2>2, Zenon DEF OwnGroup
  <2>4. QED
    BY <2>1, <2>3, Zenon DEF NoneSkipped
<1>13. CASE BeginSwitch \/ BeginQueue
  <2>1. /\ Working /\ pc \in {"check", "switch"} /\ left = <<>> /\ left' = D
        /\ pc' \in {"switch", "queue"} /\ Group' = Group /\ UNCHANGED <<tasks, done_tasks>>
    BY <1>13 DEF BeginSwitch, BeginQueue, Working, Group
  <2>2. \A y : ~InSeq(y, left)
    BY <2>1 DEF InSeq
  <2>3. QED
    BY <2>1, <2>2, Zenon DEF OwnGroup, NoneSkipped
<1>14. CASE Switch \/ Queue
  <2>1. /\ Working /\ pc' = pc /\ pc \in {"switch", "queue"} /\ left # <<>>
        /\ left' = Tail(left) /\ Group' = Group /\ UNCHANGED <<tasks, done_tasks>>
    BY <1>14 DEF Switch, Queue, Working, Group
  <2>2. \A y : InSeq(y, Tail(left)) => InSeq(y, left)
    BY <1>1, <2>1, TailElements
  <2>3. QED
    BY <2>1, <2>2, Zenon DEF OwnGroup, NoneSkipped, Working
<1>15. ASSUME NEW w \in Workers, WorkerStep(w) PROVE Goal
  BY <1>3, <1>15, Zenon DEF WorkerStep, TakeTask, FinishTask
<1>16. QED
  BY <1>5, <1>6, <1>7, <1>8, <1>9, <1>10, <1>11, <1>12, <1>13, <1>14, <1>15, Zenon
     DEF Next, UserStep, StopStep, LoopStep, QuietLoopStep

\* With a callback that shuts down no task of the group is ever skipped.
LEMMA GroupsInvariant ==
  ASSUME TRUE \notin CallbackReturns
  PROVE  Spec /\ []DoneTasksEmpty => [](OwnGroup /\ NoneSkipped)
<1>1. Init => OwnGroup /\ NoneSkipped
  BY DEF Init, OwnGroup, NoneSkipped, Working
<1>2. CycleInv /\ OwnGroup /\ NoneSkipped /\ [Next]_vars /\ DoneTasksEmpty'
        => OwnGroup' /\ NoneSkipped'
  BY GroupsStep DEF CycleInv
<1>3. QED
  BY <1>1, <1>2, CycleInvariant, PTL DEF Spec

(***************************************************************************)
(* When the timeout callback never lets the scheduler continue, the tasks  *)
(* of a group are switched together: while run_periodic_tasks sends their  *)
(* switch ticks, no worker executes any of them.                           *)
(***************************************************************************)
LEMMA GroupIsQuiet ==
  ASSUME CycleInv, OwnGroup, NoneSkipped, pc = "switch", left # <<>>,
         NEW g \in Groups, InSeq(Head(left), tasks[g])
  PROVE  \A w \in Workers : ~InSeq(executing[w], tasks[g])
<1>1. /\ Working /\ left \in Seq(Tasks) /\ tasks \in [Groups -> Seq(Tasks)]
      /\ executing \in [Workers -> Tasks \cup {NoTask}]
  BY DEF Working, CycleInv, TypeOK, QueueTypeOK
<1>2. Group \in Groups
  BY <1>1, GroupType DEF CycleInv
<1>3. InSeq(Head(left), tasks[Group])
  BY <1>1, TailElements DEF OwnGroup
<1>4. g = Group
  BY <1>2, <1>3, Zenon DEF InSeq, CycleInv, RegisteredOnce
<1>5. ASSUME NEW w \in Workers, InSeq(executing[w], tasks[Group]) PROVE FALSE
  <2>1. executing[w] \in Tasks
    BY <1>1, <1>2, <1>5 DEF InSeq
  <2>2. InSeq(executing[w], done_tasks[Group])
    BY <1>1, <1>5 DEF NoneSkipped
  <2>3. CASE InSeq(executing[w], left)
    <3>1. PICK i \in DOMAIN left : left[i] = executing[w]
      BY <2>3 DEF InSeq
    <3>2. ~InFlight(left[i])
      BY <3>1, SwitchIsQuiet DEF SwitchOnlyWhenDone
    <3>3. QED
      BY <3>1, <3>2 DEF InFlight
  <2>4. CASE ~InSeq(executing[w], left)
    <3>1. Switched(executing[w])
      BY <2>2, <2>4 DEF Switched
    <3>2. ~InFlight(executing[w])
      BY <2>1, <3>1 DEF CycleInv, RunInv, SwitchedIsQuiet
    <3>3. QED
      BY <3>2 DEF InFlight
  <2>5. QED
    BY <2>3, <2>4
<1>6. QED
  BY <1>4, <1>5
================================================================================
