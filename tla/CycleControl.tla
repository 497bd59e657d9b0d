----------------------------- MODULE CycleControl ------------------------------
(***************************************************************************)
(* fc::thread::cycle_control: a main-loop thread that, once per virtual    *)
(* tick, finds the periodic tasks that are due, checks that their last     *)
(* cycle is over, sends their switch ticks and queues them on the          *)
(* scheduler; and the user thread that adds tasks, calls and stops it.    *)
(*                                                                         *)
(* The scheduler is TaskQueue: waiting and executing are its queue and its *)
(* workers.  It is closed by its own destructor, when the members of       *)
(* cycle_control are destroyed.                                            *)
(*                                                                         *)
(* Wall time is left out.  A wait with a deadline ends when the task is    *)
(* done or, at any moment before, with a timeout.                          *)
(***************************************************************************)
EXTENDS TaskQueue

CONSTANTS
  MediumTick, SlowTick,  \* the tick rates, in fast ticks (10 and 100 in the code)
  CallbackReturns,       \* what timeout_callback may return: {FALSE} for store_exception
  Loops,                 \* the main loops in use: "realtime", "afap", "timewarp"
  MaxCalls               \* bound: how often start(), stop() and work() are called

ASSUME CycleAssumption ==
  /\ EmptyTasks = {}   \* the job of a periodic task is a lambda, never empty
  /\ MediumTick \in Nat \ {0} /\ SlowTick \in Nat \ {0}
  /\ SlowTick % MediumTick = 0
  /\ CallbackReturns \subseteq BOOLEAN /\ CallbackReturns # {}
  /\ Loops \subseteq {"realtime", "afap", "timewarp"} /\ Loops # {}
  /\ MaxCalls \in Nat

VARIABLES
  tasks,         \* the tasks of each tick_task_pair, in the order they were added
  done_tasks,    \* the done_tasks of each tick_task_pair
  work_to_do,    \* the flag of each periodic_task
  now,           \* the virtual steady clock in fast ticks, modulo SlowTick
  keep_working,  \* atomic flag: the main loop goes on
  running,       \* start() was called and stop() has not finished
  main_loop,     \* which main loop is set
  pc,            \* where the thread that executes work() is
  agenda,        \* the groups this work() still has to run; the first is the current one
  left,          \* the tasks the current loop has not visited yet
  user,          \* where the user's thread is in stop() or the destructor
  exceptions,    \* length of task_exceptions
  timed_out,     \* history: the tasks the current or last stop() gave up waiting for
  calls          \* how often start(), stop() or work() was called

controlVars == <<tasks, done_tasks, now, keep_working, running, main_loop,
                 pc, agenda, left, user, exceptions, timed_out, calls>>
vars == <<queueVars, work_to_do, controlVars>>

Groups == {"fast", "medium", "slow"}
TickOf == [fast |-> 1, medium |-> MediumTick, slow |-> SlowTick]
InSeq(x, s) == \E i \in DOMAIN s : s[i] = x
Registered == {t \in Tasks : \E g \in Groups : InSeq(t, tasks[g])}
Group == Head(agenda)

\* now % task_vector.tick == zero
Due(g) == now % TickOf[g] = 0

\* The groups due now, in the order work() runs them.
DueGroups == (IF Due("fast") THEN <<"fast">> ELSE <<>>)
               \o (IF Due("medium") THEN <<"medium">> ELSE <<>>)
               \o (IF Due("slow") THEN <<"slow">> ELSE <<>>)

Init ==
  /\ QueueInit
  /\ tasks = [g \in Groups |-> <<>>]
  /\ done_tasks = [g \in Groups |-> <<>>]
  /\ work_to_do = [t \in Tasks |-> FALSE]
  /\ now = 0
  /\ keep_working = FALSE
  /\ running = FALSE
  /\ main_loop \in Loops
  /\ pc = "none"
  /\ agenda = <<>>
  /\ left = <<>>
  /\ user = "idle"
  /\ exceptions = 0
  /\ timed_out = {}
  /\ calls = 0
--------------------------------------------------------------------------------
(* The user's thread.                                                      *)

UserFree == user = "idle" /\ (pc = "none" \/ running)

\* add_task throws while running, and for a tick rate that is not one of the three.
AddTask(t, g) ==
  /\ UserFree /\ ~running
  /\ t \notin Registered
  /\ tasks' = [tasks EXCEPT ![g] = Append(@, t)]
  /\ UNCHANGED <<queueVars, work_to_do, done_tasks, now, keep_working, running,
                 main_loop, pc, agenda, left, user, exceptions, timed_out, calls>>

SetMainLoop(l) ==
  /\ UserFree /\ ~running
  /\ main_loop' = l
  /\ UNCHANGED <<queueVars, work_to_do, tasks, done_tasks, now, keep_working, running,
                 pc, agenda, left, user, exceptions, timed_out, calls>>

Start ==
  /\ UserFree /\ ~running
  /\ calls < MaxCalls
  /\ calls' = calls + 1
  /\ keep_working' = TRUE
  /\ running' = TRUE
  /\ pc' = "loop"
  /\ UNCHANGED <<queueVars, work_to_do, tasks, done_tasks, now, main_loop,
                 agenda, left, user, exceptions, timed_out>>

\* Mutant of Stop: the main loop is joined without being told to end.
StopWithoutFlag ==
  /\ UserFree
  /\ calls < MaxCalls
  /\ calls' = calls + 1
  /\ user' = "join"
  /\ timed_out' = {}
  /\ UNCHANGED <<queueVars, work_to_do, tasks, done_tasks, now, keep_working, running,
                 main_loop, pc, agenda, left, exceptions>>

\* stop(), also called by the destructor: clear the flag, then join the main loop.
Stop ==
  /\ UserFree
  /\ calls < MaxCalls
  /\ calls' = calls + 1
  /\ keep_working' = FALSE
  /\ user' = "join"
  /\ timed_out' = {}
  /\ UNCHANGED <<queueVars, work_to_do, tasks, done_tasks, now, running, main_loop,
                 pc, agenda, left, exceptions>>

\* Mutant of Join: stop() does not wait for the slow group.
JoinForgetsSlow ==
  /\ user = "join"
  /\ pc \in {"none", "finished"}
  /\ pc' = "none"
  /\ user' = "wait"
  /\ left' = tasks["fast"] \o tasks["medium"]
  /\ UNCHANGED <<queueVars, work_to_do, tasks, done_tasks, now, keep_working, running,
                 main_loop, agenda, exceptions, timed_out, calls>>

Join ==
  /\ user = "join"
  /\ pc \in {"none", "finished"}
  /\ pc' = "none"
  /\ user' = "wait"
  /\ left' = tasks["fast"] \o tasks["medium"] \o tasks["slow"]
  /\ UNCHANGED <<queueVars, work_to_do, tasks, done_tasks, now, keep_working, running,
                 main_loop, agenda, exceptions, timed_out, calls>>

\* timeout_callback(task), with the value it returns; store_exception returns FALSE.
TimeoutCallback(r) ==
  /\ r \in CallbackReturns
  /\ exceptions' = IF r THEN exceptions ELSE exceptions + 1

\* stop() waits slow_tick for one task; it ignores what the callback returns.
StopWait ==
  /\ user = "wait" /\ left # <<>>
  /\ left' = Tail(left)
  /\ \/ /\ ~work_to_do[Head(left)]
        /\ UNCHANGED <<exceptions, timed_out>>
     \/ /\ work_to_do[Head(left)]
        /\ \E r \in BOOLEAN : TimeoutCallback(r)
        /\ timed_out' = timed_out \cup {Head(left)}
  /\ UNCHANGED <<queueVars, work_to_do, tasks, done_tasks, now, keep_working, running,
                 main_loop, pc, agenda, user, calls>>

\* stop() returns to its caller, or to the destructor that called it.
StopDone ==
  /\ user = "wait" /\ left = <<>>
  /\ user' \in {"idle", "destroy"}
  /\ running' = FALSE
  /\ UNCHANGED <<queueVars, work_to_do, tasks, done_tasks, now, keep_working, main_loop,
                 pc, agenda, left, exceptions, timed_out, calls>>

\* ~cycle_control after stop(): ~parallel_scheduler stops and joins the workers; only
\* then are the vectors of tasks destroyed.
CloseScheduler ==
  /\ user = "destroy"
  /\ Close \/ Closed
  /\ UNCHANGED <<work_to_do, controlVars>>

\* Mutant of LastException: pop_back() without asking whether there is an exception.
LastExceptionUnchecked ==
  /\ UserFree
  /\ exceptions' = exceptions - 1
  /\ UNCHANGED <<queueVars, work_to_do, tasks, done_tasks, now, keep_working, running,
                 main_loop, pc, agenda, left, user, timed_out, calls>>

\* last_exception() pops one stored exception; it returns nullptr when there is none.
LastException ==
  /\ UserFree
  /\ exceptions > 0
  /\ exceptions' = exceptions - 1
  /\ UNCHANGED <<queueVars, work_to_do, tasks, done_tasks, now, keep_working, running,
                 main_loop, pc, agenda, left, user, timed_out, calls>>
--------------------------------------------------------------------------------
(* The main loop and work().                                               *)

\* Go on with the next group of this work(), or return to the caller.
EnterGroup(groups) ==
  /\ agenda' = groups
  /\ IF groups = <<>>
       THEN pc' = (IF running THEN "loop" ELSE "none") /\ left' = <<>>
       ELSE pc' = "check" /\ left' = tasks[Head(groups)]

\* work(): read the virtual clock, advance it, then run the groups due at the time read.
BeginWork ==
  /\ now' = (now + 1) % SlowTick
  /\ EnterGroup(DueGroups)
  /\ UNCHANGED <<queueVars, work_to_do, tasks, done_tasks, keep_working, running,
                 main_loop, user, exceptions, timed_out>>

\* A user may call work() without a main loop.
CallWork ==
  /\ UserFree /\ ~running
  /\ calls < MaxCalls
  /\ calls' = calls + 1
  /\ BeginWork

RealtimeBody ==
  /\ pc = "loop" /\ keep_working
  /\ main_loop = "realtime"
  /\ BeginWork
  /\ UNCHANGED calls

\* afap and timewarp: wait_for_current_tasks() visits the slow tasks first.
WaitingBody ==
  /\ pc = "loop" /\ keep_working
  /\ main_loop \in {"afap", "timewarp"}
  /\ pc' = "wait"
  /\ left' = (IF Due("slow") THEN tasks["slow"] ELSE <<>>)
               \o (IF Due("medium") THEN tasks["medium"] ELSE <<>>)
               \o (IF Due("fast") THEN tasks["fast"] ELSE <<>>)
  /\ UNCHANGED <<queueVars, work_to_do, tasks, done_tasks, now, keep_working, running,
                 main_loop, agenda, user, exceptions, timed_out, calls>>

LoopExit ==
  /\ pc = "loop" /\ ~keep_working
  /\ pc' = "finished"
  /\ UNCHANGED <<queueVars, work_to_do, tasks, done_tasks, now, keep_working, running,
                 main_loop, agenda, left, user, exceptions, timed_out, calls>>

\* wait_until_done for one task; a callback that returns FALSE ends the waiting, and
\* the loop body goes on with work() all the same.
WaitForTask ==
  /\ pc = "wait" /\ left # <<>>
  /\ \/ /\ ~work_to_do[Head(left)]
        /\ left' = Tail(left)
        /\ UNCHANGED <<keep_working, exceptions>>
     \/ /\ work_to_do[Head(left)]
        /\ \E r \in BOOLEAN :
             /\ TimeoutCallback(r)
             /\ keep_working' = (r /\ keep_working)
             /\ left' = IF r THEN Tail(left) ELSE <<>>
  /\ UNCHANGED <<queueVars, work_to_do, tasks, done_tasks, now, running, main_loop,
                 pc, agenda, user, timed_out, calls>>

WorkAfterWait ==
  /\ pc = "wait" /\ left = <<>>
  /\ BeginWork
  /\ UNCHANGED calls

\* Mutant of CheckDone: a task is taken without asking whether it is done.
CheckNothing ==
  /\ pc = "check" /\ left # <<>>
  /\ done_tasks' = [done_tasks EXCEPT ![Group] = Append(@, Head(left))]
  /\ left' = Tail(left)
  /\ UNCHANGED <<queueVars, work_to_do, tasks, now, keep_working, running, main_loop,
                 pc, agenda, user, exceptions, timed_out, calls>>

\* First loop of run_periodic_tasks, a task that is done.
CheckDone ==
  /\ pc \in {"check", "recheck"} /\ left # <<>>
  /\ ~work_to_do[Head(left)]
  /\ done_tasks' = [done_tasks EXCEPT ![Group] = Append(@, Head(left))]
  /\ pc' = "check"
  /\ left' = Tail(left)
  /\ UNCHANGED <<queueVars, work_to_do, tasks, now, keep_working, running, main_loop,
                 agenda, user, exceptions, timed_out, calls>>

\* A task that is late and whose callback lets the scheduler continue.
CheckLate ==
  /\ pc = "check" /\ left # <<>>
  /\ work_to_do[Head(left)]
  /\ TimeoutCallback(TRUE)
  /\ pc' = "recheck"
  /\ UNCHANGED <<queueVars, work_to_do, tasks, done_tasks, now, keep_working, running,
                 main_loop, agenda, left, user, timed_out, calls>>

\* Mutant of SkipLate: after the callback the task is run again although it is late.
RunLate ==
  /\ pc = "recheck"
  /\ work_to_do[Head(left)]
  /\ done_tasks' = [done_tasks EXCEPT ![Group] = Append(@, Head(left))]
  /\ pc' = "check"
  /\ left' = Tail(left)
  /\ UNCHANGED <<queueVars, work_to_do, tasks, now, keep_working, running, main_loop,
                 agenda, user, exceptions, timed_out, calls>>

\* After the callback the task is asked again, and skipped if it is still not done.
SkipLate ==
  /\ pc = "recheck"
  /\ work_to_do[Head(left)]
  /\ pc' = "check"
  /\ left' = Tail(left)
  /\ UNCHANGED <<queueVars, work_to_do, tasks, done_tasks, now, keep_working, running,
                 main_loop, agenda, user, exceptions, timed_out, calls>>

\* A task that is late and whose callback shuts down: run_periodic_tasks and work()
\* return at once; done_tasks keeps what this loop has put there.
GiveUp ==
  /\ pc = "check" /\ left # <<>>
  /\ work_to_do[Head(left)]
  /\ TimeoutCallback(FALSE)
  /\ keep_working' = FALSE
  /\ EnterGroup(<<>>)
  /\ UNCHANGED <<queueVars, work_to_do, tasks, done_tasks, now, running, main_loop,
                 user, timed_out, calls>>

BeginSwitch ==
  /\ pc = "check" /\ left = <<>>
  /\ pc' = "switch"
  /\ left' = done_tasks[Group]
  /\ UNCHANGED <<queueVars, work_to_do, tasks, done_tasks, now, keep_working, running,
                 main_loop, agenda, user, exceptions, timed_out, calls>>

\* Second loop: set_work_to_do(true) and send_switch_tick for one task.
Switch ==
  /\ pc = "switch" /\ left # <<>>
  /\ work_to_do' = [work_to_do EXCEPT ![Head(left)] = TRUE]
  /\ left' = Tail(left)
  /\ UNCHANGED <<queueVars, tasks, done_tasks, now, keep_working, running, main_loop,
                 pc, agenda, user, exceptions, timed_out, calls>>

BeginQueue ==
  /\ pc = "switch" /\ left = <<>>
  /\ pc' = "queue"
  /\ left' = done_tasks[Group]
  /\ UNCHANGED <<queueVars, work_to_do, tasks, done_tasks, now, keep_working, running,
                 main_loop, agenda, user, exceptions, timed_out, calls>>

\* Third loop: scheduler_->add_task for one task.
Queue ==
  /\ pc = "queue" /\ left # <<>>
  /\ Enqueue(Head(left))
  /\ left' = Tail(left)
  /\ UNCHANGED <<work_to_do, tasks, done_tasks, now, keep_working, running, main_loop,
                 pc, agenda, user, exceptions, timed_out, calls>>

\* Mutant of EndGroup: done_tasks is not cleared.
EndGroupKeepsDone ==
  /\ pc = "queue" /\ left = <<>>
  /\ EnterGroup(Tail(agenda))
  /\ UNCHANGED <<queueVars, work_to_do, tasks, done_tasks, now, keep_working, running,
                 main_loop, user, exceptions, timed_out, calls>>

\* done_tasks.clear(), and work() goes on with the next group.
EndGroup ==
  /\ pc = "queue" /\ left = <<>>
  /\ done_tasks' = [done_tasks EXCEPT ![Group] = <<>>]
  /\ EnterGroup(Tail(agenda))
  /\ UNCHANGED <<queueVars, work_to_do, tasks, now, keep_working, running, main_loop,
                 user, exceptions, timed_out, calls>>
--------------------------------------------------------------------------------
(* The workers of the scheduler.                                           *)

\* Mutant of TakeTask: the flag is reset before the work instead of after it.
TakeAndReset(w) ==
  /\ Take(w)
  /\ work_to_do' = [work_to_do EXCEPT ![Head(waiting)] = FALSE]
  /\ UNCHANGED controlVars

TakeTask(w) == Take(w) /\ UNCHANGED <<work_to_do, controlVars>>

\* Mutant of FinishTask: the flag is never reset.
FinishKeepsFlag(w) == Finish(w) /\ UNCHANGED <<work_to_do, controlVars>>

\* periodic_task::operator(): the work is over, set_work_to_do(false).
FinishTask(w) ==
  /\ Finish(w)
  /\ work_to_do' = [work_to_do EXCEPT ![executing[w]] = FALSE]
  /\ UNCHANGED controlVars

\* The steps of the main loop that send no switch tick.
QuietLoopStep ==
  \/ RealtimeBody \/ WaitingBody \/ LoopExit \/ WaitForTask \/ WorkAfterWait
  \/ CheckDone \/ CheckLate \/ SkipLate \/ GiveUp
  \/ BeginSwitch \/ BeginQueue \/ Queue \/ EndGroup

LoopStep == QuietLoopStep \/ Switch

StopStep == Join \/ StopWait \/ StopDone \/ CloseScheduler

UserStep ==
  \/ \E t \in Tasks, g \in Groups : AddTask(t, g)
  \/ \E l \in Loops : SetMainLoop(l)
  \/ Start \/ Stop \/ LastException \/ CallWork

WorkerStep(w) == TakeTask(w) \/ FinishTask(w)

Next == UserStep \/ StopStep \/ LoopStep \/ \E w \in Workers : WorkerStep(w)

Spec == Init /\ [][Next]_vars

(***************************************************************************)
(* The operating system runs the main-loop thread and the thread that is   *)
(* in stop(); every wait of theirs has a deadline.                         *)
(***************************************************************************)
ControlFairness == WF_vars(LoopStep) /\ WF_vars(StopStep)

\* The workers are served and the work of a task terminates.
WorkFairness ==
  /\ WF_vars(\E w \in Workers : TakeTask(w))
  /\ \A w \in Workers : WF_vars(FinishTask(w))
--------------------------------------------------------------------------------
(* Properties.                                                             *)

InFlight(t) == InSeq(t, waiting) \/ \E w \in Workers : executing[w] = t

\* t is switched for this cycle and run_periodic_tasks has yet to queue it.
Switched(t) ==
  \/ pc = "switch" /\ InSeq(t, done_tasks[Group]) /\ ~InSeq(t, left)
  \/ pc = "queue" /\ InSeq(t, left)

(***************************************************************************)
(* Every variable has its type, work() runs groups only while it is        *)
(* active, a task that is asked again is the one the loop still stands at, *)
(* and no exception is popped that was not stored.                         *)
(***************************************************************************)
TypeOK ==
  /\ QueueTypeOK
  /\ tasks \in [Groups -> Seq(Tasks)]
  /\ done_tasks \in [Groups -> Seq(Tasks)]
  /\ work_to_do \in [Tasks -> BOOLEAN]
  /\ now \in 0 .. SlowTick - 1
  /\ keep_working \in BOOLEAN
  /\ running \in BOOLEAN
  /\ main_loop \in Loops
  /\ pc \in {"none", "loop", "wait", "check", "recheck", "switch", "queue", "finished"}
  /\ agenda \in Seq(Groups)
  /\ left \in Seq(Tasks)
  /\ user \in {"idle", "join", "wait", "destroy"}
  /\ exceptions \in Nat
  /\ timed_out \subseteq Tasks
  /\ calls \in Nat
  /\ pc \in {"check", "recheck", "switch", "queue"} <=> agenda # <<>>
  /\ pc = "recheck" => left # <<>>

(***************************************************************************)
(* assert(tasks.done_tasks.empty()) at the start of run_periodic_tasks:    *)
(* when a group is entered, no task is left over from an earlier cycle.    *)
(***************************************************************************)
DoneTasksEmpty ==
  pc = "check" /\ left = tasks[Group] => done_tasks[Group] = <<>>

(***************************************************************************)
(* "All nodes inside the region are guaranteed to be executed by a single  *)
(* thread": a periodic task is in the scheduler at most once, so no two    *)
(* workers ever execute the same region.                                   *)
(***************************************************************************)
SingleThread ==
  /\ \A i, j \in DOMAIN waiting : waiting[i] = waiting[j] => i = j
  /\ \A v, w \in Workers : executing[v] = executing[w] /\ v # w => Idle(v)
  /\ \A w \in Workers : ~InSeq(executing[w], waiting)

(***************************************************************************)
(* The flag of a task and its place in the scheduler agree: done() is true *)
(* exactly when no worker executes the task, it is not queued, and         *)
(* run_periodic_tasks is not about to queue it.  A false positive would    *)
(* switch buffers under a running region, a false negative would leave the *)
(* region late for ever.                                                   *)
(***************************************************************************)
DoneMeansQuiet == \A t \in Tasks : work_to_do[t] <=> InFlight(t) \/ Switched(t)

(***************************************************************************)
(* assert(task.done()) in the second loop of run_periodic_tasks: a switch  *)
(* tick is only sent to a region whose last cycle is over, also when the   *)
(* timeout callback lets the loop go on past a late region.                *)
(***************************************************************************)
SwitchOnlyWhenDone ==
  pc = "switch" => \A i \in DOMAIN left : ~work_to_do[left[i]] /\ ~InFlight(left[i])

(***************************************************************************)
(* When stop() returns, every task that is still queued or executed is one *)
(* that this stop() has reported to timeout_callback: nothing is forgotten *)
(* in any of the three groups.                                             *)
(***************************************************************************)
StopQuiescent ==
  user = "wait" => \A t \in Tasks : InFlight(t) => t \in timed_out \/ InSeq(t, left)

(***************************************************************************)
(* stop() returns, whatever the main loop was doing and even if a task     *)
(* never terminates: the joined loop and each wait come to an end.         *)
(***************************************************************************)
StopReturns == user = "join" ~> user \in {"idle", "destroy"}

(***************************************************************************)
(* A region that is late is not lost: while the main loop runs, every      *)
(* registered task is executed again and again, whichever main loop is set *)
(* and however often its switch tick was skipped for being late, as long   *)
(* as the work of every task comes to an end.                              *)
(***************************************************************************)
RegionsKeepRunning ==
  WorkFairness =>
    \A t \in Tasks :
      t \in Registered /\ keep_working
        ~> ~keep_working \/ \E w \in Workers : executing[w] = t
================================================================================
