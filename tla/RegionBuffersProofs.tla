-------------------------- MODULE RegionBuffersProofs --------------------------
(***************************************************************************)
(* Proofs about RegionBuffers for any number of regions, links, workers    *)
(* and events, any tick rates and any timeout callback.                    *)
(*                                                                         *)
(* Every step of the regions is a step of CycleControl, so that what is    *)
(* proved there holds here: above all that a region that is switched is    *)
(* not executed.                                                           *)
(***************************************************************************)
EXTENDS RegionBuffers, CycleControlProofs

Links == EventLinks \cup StateLinks
EventBuffer == [intern : Seq(Nat), middle : Seq(Nat), extern : Seq(Nat), read : BOOLEAN]
VoidBuffer == [intern : Nat, middle : Nat, extern : Nat, read : BOOLEAN]
StateBuffer == [intern : Nat, middle : Nat, extern : Nat]

\* to_tick is a function on the workers.
TickFunction == to_tick = [w \in Workers |-> to_tick[w]]

\* What the sink's switch tick took from middle is not there any more, and a buffer
\* between regions of the same rate never uses middle.
MiddleIsRead ==
  \A l \in EventLinks : events[l].read \/ SameRate(l) => events[l].middle = <<>>

\* A buffer is untouched until both its regions exist.
UntouchedBefore == \A l \in EventLinks : ~Connected(l) => events[l] = NewEventBuffer

\* Once the work tick of the sink has reached a buffer, extern stays empty until the
\* work is over.
TickEmptiesExtern ==
  \A l \in EventLinks, w \in Workers :
    ~SameRate(l) /\ executing[w] = l.dst /\ <<"event", l>> \notin to_tick[w]
      => events[l].extern = <<>>

EventInv == MiddleIsRead /\ UntouchedBefore /\ TickEmptiesExtern /\ ExternProcessed

\* What the sink received and what the buffer holds, in this order.
Carried(d, b) == d \o b.extern \o b.middle \o b.intern
--------------------------------------------------------------------------------
(* The regions as users of cycle_control.                                  *)

\* What a region does to its buffers is no step of cycle_control.
LEMMA ControlStep ==
  ASSUME [RegionNext]_allVars
  PROVE  [Next]_vars
<1>1. CASE SwitchRegion
  BY <1>1 DEF SwitchRegion, Next, LoopStep
<1>2. ASSUME NEW w \in Workers, RegionStep(w) PROVE [Next]_vars
  <2>1. CASE StartRegion(w) \/ EndRegion(w)
    BY <2>1 DEF StartRegion, EndRegion, Next, WorkerStep
  <2>2. CASE \/ \E l \in EventLinks : FireEvent(w, l) \/ TickEventBuffer(w, l)
             \/ \E l \in StateLinks : TickStateBuffer(w, l)
    BY <2>2, Zenon DEF FireEvent, TickEventBuffer, TickStateBuffer
  <2>3. QED
    BY <1>2, <2>1, <2>2 DEF RegionStep
<1>3. CASE (UserStep \/ StopStep \/ QuietLoopStep) /\ UNCHANGED bufferVars
  BY <1>3, Zenon DEF Next, LoopStep
<1>4. CASE UNCHANGED allVars
  BY <1>4, Zenon DEF allVars
<1>5. QED
  BY <1>1, <1>2, <1>3, <1>4 DEF RegionNext

(***************************************************************************)
(* Regions with their buffers, driven by periodic_task, are tasks of       *)
(* cycle_control like any other: each of their steps is a step of          *)
(* CycleControl or leaves its state alone.                                 *)
(***************************************************************************)
THEOREM RegionsImplementTasks == RegionSpec => Spec
<1>1. RegionInit => Init
  BY DEF RegionInit
<1>2. [RegionNext]_allVars => [Next]_vars
  BY ControlStep
<1>3. QED
  BY <1>1, <1>2, PTL DEF RegionSpec, Spec

\* The inductive invariant of cycle_control holds for regions.
LEMMA RegionCycleInv == RegionSpec /\ []DoneTasksEmpty => []CycleInv
BY RegionsImplementTasks, CycleInvariant, PTL

(***************************************************************************)
(* The steps that touch neither a buffer nor what the workers execute.     *)
(***************************************************************************)
LEMMA QuietCase ==
  ASSUME \/ (UserStep \/ StopStep \/ QuietLoopStep) /\ UNCHANGED bufferVars
         \/ UNCHANGED allVars
  PROVE  UNCHANGED <<bufferVars, executing, work_to_do>>
<1> USE DEF queueVars, controlVars
<1>1. CASE UserStep
  BY <1>1 DEF UserStep, AddTask, SetMainLoop, Start, Stop, LastException, CallWork,
              BeginWork, allVars
<1>2. CASE StopStep
  BY <1>2, Zenon DEF StopStep, Join, StopWait, StopDone, CloseScheduler, Close, Closed,
                     allVars
<1>3. CASE QuietLoopStep
  BY <1>3, Zenon DEF QuietLoopStep, RealtimeBody, WaitingBody, LoopExit,
                     WaitForTask, WorkAfterWait, BeginWork, CheckDone, CheckLate, SkipLate,
                     GiveUp, BeginSwitch, BeginQueue, Queue, Enqueue, EndGroup, allVars
<1>4. CASE UNCHANGED allVars
  BY <1>4, Zenon DEF allVars, vars
<1>5. QED
  BY <1>1, <1>2, <1>3, <1>4

\* A buffer lies between two different regions.
LEMMA LinkType ==
  ASSUME NEW l \in Links
  PROVE  l.src \in Tasks /\ l.dst \in Tasks /\ l.src # l.dst
BY LinkAssumption DEF Links

(***************************************************************************)
(* Regions are only added: a link that has its buffer keeps it, and the    *)
(* tick rates of its two regions stay the same or different.               *)
(***************************************************************************)
LEMMA RatesStep ==
  ASSUME TypeOK, [Next]_vars, NEW l \in Links
  PROVE  /\ Connected(l) => Connected(l)'
         /\ SameRate(l) => SameRate(l)' /\ Connected(l)
         /\ SameRate(l)' => SameRate(l) \/ ~Connected(l)
<1>1. /\ Registered \subseteq Registered'
      /\ \A g \in Groups : \A x : InSeq(x, tasks[g]) => InSeq(x, tasks'[g])
  BY RegisteredGrows
<1>2. l.src \in Tasks /\ l.dst \in Tasks
  BY LinkType
<1>3. Connected(l) => Connected(l)'
  BY <1>1 DEF Connected
<1>4. SameRate(l) => SameRate(l)' /\ Connected(l)
  BY <1>1, <1>2 DEF SameRate, Connected, Registered
<1>5. ASSUME SameRate(l)', Connected(l) PROVE SameRate(l)
  <2>1. CASE UNCHANGED tasks
    BY <1>5, <2>1 DEF SameRate
  <2>2. ASSUME NEW t \in Tasks, NEW h \in Groups, AddTask(t, h) PROVE SameRate(l)
    <3>1. t \notin {l.src, l.dst}
      BY <1>5, <2>2 DEF AddTask, Connected
    <3>2. tasks[h] \in Seq(Tasks) /\ tasks' = [tasks EXCEPT ![h] = Append(tasks[h], t)]
      BY <2>2 DEF AddTask, TypeOK
    <3>3. \A g \in Groups : tasks'[g] = IF g = h THEN Append(tasks[h], t) ELSE tasks[g]
      BY <3>2 DEF TypeOK
    <3>4. \A x : InSeq(x, Append(tasks[h], t)) => InSeq(x, tasks[h]) \/ x = t
      BY <3>2, AppendElements
    <3>5. \A g \in Groups : \A x \in {l.src, l.dst} :
            InSeq(x, tasks'[g]) => InSeq(x, tasks[g])
      BY <3>1, <3>3, <3>4
    <3>6. QED
      BY <1>5, <3>5 DEF SameRate
  <2>3. QED
    BY <2>1, <2>2, TasksStep
<1>6. QED
  BY <1>3, <1>4, <1>5

\* What is connected, and at equal rates, depends on the registered tasks only.
LEMMA SameTasks ==
  ASSUME UNCHANGED tasks
  PROVE  \A l : /\ Connected(l)' <=> Connected(l)
                /\ SameRate(l)' <=> SameRate(l)
BY DEF Connected, SameRate, Registered

(***************************************************************************)
(* What construct_buffer connects to the switch tick of a region.          *)
(***************************************************************************)
LEMMA KindCases ==
  ASSUME NEW l, NEW active, NEW t
  PROVE  /\ SwitchKind(l, active, t) \in {"active_passive", "active", "passive", "none"}
         /\ SwitchKind(l, active, t) = "active_passive" => SameRate(l) /\ t = active
         /\ SwitchKind(l, active, t) = "active" => ~SameRate(l) /\ t = active
         /\ SwitchKind(l, active, t) = "passive"
              => ~SameRate(l) /\ t # active /\ t \in {l.src, l.dst}
         /\ ~Connected(l) => SwitchKind(l, active, t) = "none"
BY DEF SwitchKind
--------------------------------------------------------------------------------
(* The operations of the buffers.                                          *)

(***************************************************************************)
(* The fields of an event_buffer after each switch tick, and that it is    *)
(* one again.                                                              *)
(***************************************************************************)
LEMMA SwitchEventsFields ==
  ASSUME NEW b \in EventBuffer,
         NEW kind \in {"active_passive", "active", "passive", "none"}
  PROVE  /\ SwitchEvents(kind, b) \in EventBuffer
         /\ kind = "none" => SwitchEvents(kind, b) = b
         /\ kind \in {"active", "none"} => SwitchEvents(kind, b).extern = b.extern
         /\ kind = "active" => ~SwitchEvents(kind, b).read
         /\ kind = "passive" => SwitchEvents(kind, b).middle = <<>>
         /\ kind = "active_passive" => /\ SwitchEvents(kind, b).middle = b.middle
                                       /\ SwitchEvents(kind, b).read = b.read
<1>1. /\ b.intern \in Seq(Nat) /\ b.middle \in Seq(Nat) /\ b.extern \in Seq(Nat)
      /\ b.read \in BOOLEAN
  BY DEF EventBuffer
<1>2. /\ <<>> \in Seq(Nat) /\ b.middle \o b.intern \in Seq(Nat)
      /\ b.extern \o b.intern \in Seq(Nat)
  BY <1>1
<1>3. CASE kind = "active_passive"
  BY <1>1, <1>2, <1>3, Zenon DEF SwitchEvents, SwitchActivePassive, EventBuffer
<1>4. CASE kind = "active"
  BY <1>1, <1>2, <1>4, Zenon DEF SwitchEvents, SwitchActive, EventBuffer
<1>5. CASE kind = "passive"
  BY <1>1, <1>2, <1>5, Zenon DEF SwitchEvents, SwitchPassive, EventBuffer
<1>6. CASE kind = "none"
  BY <1>1, <1>2, <1>6 DEF SwitchEvents
<1>7. QED
  BY <1>3, <1>4, <1>5, <1>6

(***************************************************************************)
(* The fields after an event was fired into the buffer, and after its      *)
(* events were sent on.                                                    *)
(***************************************************************************)
LEMMA PushFields ==
  ASSUME NEW b \in EventBuffer, NEW e \in Nat
  PROVE  /\ Push(b, e) \in EventBuffer
         /\ Push(b, e).intern = Append(b.intern, e) /\ Push(b, e).middle = b.middle
         /\ Push(b, e).extern = b.extern /\ Push(b, e).read = b.read
<1>1. /\ b.intern \in Seq(Nat) /\ b.middle \in Seq(Nat) /\ b.extern \in Seq(Nat)
      /\ b.read \in BOOLEAN /\ Append(b.intern, e) \in Seq(Nat)
  BY DEF EventBuffer
<1>2. QED
  BY <1>1, Zenon DEF Push, EventBuffer

\* send_events empties extern and nothing else.
LEMMA SendFields ==
  ASSUME NEW b \in EventBuffer
  PROVE  /\ SendEvents(b) \in EventBuffer
         /\ SendEvents(b).intern = b.intern /\ SendEvents(b).middle = b.middle
         /\ SendEvents(b).extern = <<>> /\ SendEvents(b).read = b.read
<1>1. /\ b.intern \in Seq(Nat) /\ b.middle \in Seq(Nat) /\ b.extern \in Seq(Nat)
      /\ b.read \in BOOLEAN /\ <<>> \in Seq(Nat)
  BY DEF EventBuffer
<1>2. QED
  BY <1>1, Zenon DEF SendEvents, EventBuffer

(***************************************************************************)
(* event_buffer<void> counts: each operation on the counts gives the       *)
(* counts of what the operation on the events gives.                       *)
(***************************************************************************)
LEMMA CountOperations ==
  ASSUME NEW b \in EventBuffer
  PROVE  /\ Count(b) \in VoidBuffer
         /\ \A kind \in {"active_passive", "active", "passive", "none"} :
              SwitchVoids(kind, Count(b)) = Count(SwitchEvents(kind, b))
         /\ \A e \in Nat : VoidPush(Count(b)) = Count(Push(b, e))
         /\ VoidSendEvents(Count(b)) = Count(SendEvents(b))
<1>1. /\ b.intern \in Seq(Nat) /\ b.middle \in Seq(Nat) /\ b.extern \in Seq(Nat)
      /\ b.read \in BOOLEAN
      /\ b = [intern |-> b.intern, middle |-> b.middle, extern |-> b.extern, read |-> b.read]
  BY DEF EventBuffer
<1>2. /\ Len(b.intern) \in Nat /\ Len(b.middle) \in Nat /\ Len(b.extern) \in Nat
      /\ Len(<<>>) = 0
      /\ Len(b.middle \o b.intern) = Len(b.middle) + Len(b.intern)
      /\ Len(b.extern \o b.intern) = Len(b.extern) + Len(b.intern)
      /\ \A e \in Nat : Len(Append(b.intern, e)) = Len(b.intern) + 1
  BY <1>1
<1>3. Count(b) \in VoidBuffer
  BY <1>1, <1>2 DEF Count, VoidBuffer
<1>4. ASSUME NEW kind \in {"active_passive", "active", "passive", "none"}
      PROVE  SwitchVoids(kind, Count(b)) = Count(SwitchEvents(kind, b))
  <2>1. CASE kind = "active_passive"
    BY <1>1, <1>2, <2>1, Zenon DEF SwitchVoids, SwitchEvents, VoidSwitchActivePassive,
                            SwitchActivePassive, Count
  <2>2. CASE kind = "active"
    BY <1>1, <1>2, <2>2, Zenon DEF SwitchVoids, SwitchEvents, VoidSwitchActive, SwitchActive, Count
  <2>3. CASE kind = "passive"
    BY <1>1, <1>2, <2>3, Zenon DEF SwitchVoids, SwitchEvents, VoidSwitchPassive, SwitchPassive, Count
  <2>4. CASE kind = "none"
    BY <2>4 DEF SwitchVoids, SwitchEvents
  <2>5. QED
    BY <2>1, <2>2, <2>3, <2>4
<1>5. ASSUME NEW e \in Nat PROVE VoidPush(Count(b)) = Count(Push(b, e))
  <2>1. Len(Append(b.intern, e)) = Len(b.intern) + 1
    BY <1>2
  <2>2. /\ Push(b, e).intern = Append(b.intern, e) /\ Push(b, e).middle = b.middle
        /\ Push(b, e).extern = b.extern /\ Push(b, e).read = b.read
    BY PushFields, Zenon
  <2>3. VoidPush(Count(b)) = [intern |-> Len(b.intern) + 1, middle |-> Len(b.middle),
                              extern |-> Len(b.extern), read |-> b.read]
    <3>1. ASSUME NEW i, NEW m, NEW x, NEW r
          PROVE  VoidPush([intern |-> i, middle |-> m, extern |-> x, read |-> r])
                   = [intern |-> i + 1, middle |-> m, extern |-> x, read |-> r]
      BY DEF VoidPush
    <3>2. QED
      BY <3>1, Zenon DEF Count
  <2>4. QED
    BY <2>1, <2>2, <2>3 DEF Count
<1>6. VoidSendEvents(Count(b)) = Count(SendEvents(b))
  <2>1. VoidSendEvents(Count(b)) = [intern |-> Len(b.intern), middle |-> Len(b.middle),
                                    extern |-> 0, read |-> b.read]
    <3>1. ASSUME NEW i, NEW m, NEW x, NEW r
          PROVE  VoidSendEvents([intern |-> i, middle |-> m, extern |-> x, read |-> r])
                   = [intern |-> i, middle |-> m, extern |-> 0, read |-> r]
      BY DEF VoidSendEvents
    <3>2. QED
      BY <3>1, Zenon DEF Count
  <2>2. /\ SendEvents(b).intern = b.intern /\ SendEvents(b).middle = b.middle
        /\ SendEvents(b).extern = <<>> /\ SendEvents(b).read = b.read
    BY SendFields, Zenon
  <2>3. QED
    BY <1>2, <2>1, <2>2, Zenon DEF Count
<1>7. QED
  BY <1>3, <1>4, <1>5, <1>6, Zenon

(***************************************************************************)
(* The operations of event_buffer<void> and of state_buffer keep their     *)
(* types; only the switch tick of the sink changes what a state's sink     *)
(* reads.                                                                  *)
(***************************************************************************)
LEMMA SwitchVoidsType ==
  ASSUME NEW b \in VoidBuffer,
         NEW kind \in {"active_passive", "active", "passive", "none"}
  PROVE  SwitchVoids(kind, b) \in VoidBuffer
<1>1. /\ b.intern \in Nat /\ b.middle \in Nat /\ b.extern \in Nat /\ b.read \in BOOLEAN
      /\ b.middle + b.intern \in Nat /\ b.extern + b.intern \in Nat /\ 0 \in Nat
  BY DEF VoidBuffer
<1>2. CASE kind = "active_passive"
  BY <1>1, <1>2, Zenon DEF SwitchVoids, VoidSwitchActivePassive, VoidBuffer
<1>3. CASE kind = "active"
  BY <1>1, <1>3, Zenon DEF SwitchVoids, VoidSwitchActive, VoidBuffer
<1>4. CASE kind = "passive"
  BY <1>1, <1>4, Zenon DEF SwitchVoids, VoidSwitchPassive, VoidBuffer
<1>5. CASE kind = "none"
  BY <1>5 DEF SwitchVoids
<1>6. QED
  BY <1>2, <1>3, <1>4, <1>5

\* What the two switch operations do to the fields of a state_buffer.
LEMMA SwitchStateFields ==
  ASSUME NEW b \in StateBuffer,
         NEW kind \in {"active_passive", "active", "passive", "none"}
  PROVE  /\ SwitchState(kind, b) \in StateBuffer
         /\ SwitchState(kind, b).intern = b.intern
         /\ SwitchState(kind, b).middle = IF kind = "passive" THEN b.intern ELSE b.middle
         /\ SwitchState(kind, b).extern =
              IF kind = "active" THEN b.middle
              ELSE IF kind = "active_passive" THEN b.intern ELSE b.extern
<1>1. CASE kind = "active_passive"
  BY <1>1 DEF SwitchState, StateSwitchActivePassive, StateBuffer
<1>2. CASE kind = "active"
  BY <1>2 DEF SwitchState, StateSwitchActive, StateBuffer
<1>3. CASE kind = "passive"
  BY <1>3 DEF SwitchState, StateSwitchPassive, StateBuffer
<1>4. CASE kind = "none"
  BY <1>4 DEF SwitchState, StateBuffer
<1>5. QED
  BY <1>1, <1>2, <1>3, <1>4
--------------------------------------------------------------------------------
(* Types, and the counts of event_buffer<void>.                            *)

\* BuffersTypeOK without the work ticks.
FieldsTypeOK ==
  /\ events \in [EventLinks -> EventBuffer]
  /\ voids \in [EventLinks -> VoidBuffer]
  /\ states \in [StateLinks -> StateBuffer]
  /\ value \in [StateLinks -> Nat]
  /\ fired \in [EventLinks -> Nat]
  /\ delivered \in [EventLinks -> Seq(Nat)]

TicksOutstanding == \A w \in Workers : to_tick[w] \subseteq TickedBy(executing[w])

\* The type invariant has a part on the buffers and one on the ticks.
LEMMA TypeParts == BuffersTypeOK <=> FieldsTypeOK /\ TicksOutstanding
BY Zenon DEF BuffersTypeOK, FieldsTypeOK, TicksOutstanding, EventBuffer, VoidBuffer, StateBuffer

\* New buffers have their types.
LEMMA FieldsInit ==
  ASSUME RegionInit
  PROVE  FieldsTypeOK
<1>1. /\ NewEventBuffer \in EventBuffer /\ NewVoidBuffer \in VoidBuffer
      /\ NewStateBuffer(0) \in StateBuffer /\ <<>> \in Seq(Nat) /\ 0 \in Nat
  <2>1. <<>> \in Seq(Nat) /\ 0 \in Nat /\ FALSE \in BOOLEAN
    OBVIOUS
  <2>2. QED
    BY <2>1, Zenon DEF NewEventBuffer, NewVoidBuffer, NewStateBuffer, EventBuffer, VoidBuffer,
                       StateBuffer
<1>2. QED
  BY <1>1 DEF RegionInit, FieldsTypeOK

\* One case per operation that touches a buffer.
LEMMA FieldsStep ==
  ASSUME FieldsTypeOK, [RegionNext]_allVars
  PROVE  FieldsTypeOK'
<1>1. /\ \A l \in EventLinks : /\ events[l] \in EventBuffer /\ voids[l] \in VoidBuffer
                               /\ fired[l] \in Nat /\ delivered[l] \in Seq(Nat)
      /\ \A l \in StateLinks : states[l] \in StateBuffer /\ value[l] \in Nat
  BY DEF FieldsTypeOK
<1>2. CASE SwitchRegion
  <2>1. \A l : \A active : \A t :
          SwitchKind(l, active, t) \in {"active_passive", "active", "passive", "none"}
    BY KindCases
  <2>2. events' \in [EventLinks -> EventBuffer]
    BY <1>1, <1>2, <2>1, SwitchEventsFields DEF SwitchRegion
  <2>3. voids' \in [EventLinks -> VoidBuffer]
    BY <1>1, <1>2, <2>1, SwitchVoidsType DEF SwitchRegion
  <2>4. states' \in [StateLinks -> StateBuffer]
    BY <1>1, <1>2, <2>1, SwitchStateFields DEF SwitchRegion
  <2>5. QED
    BY <1>2, <2>2, <2>3, <2>4 DEF SwitchRegion, FieldsTypeOK
<1>3. ASSUME NEW w \in Workers, NEW l \in EventLinks, FireEvent(w, l) PROVE FieldsTypeOK'
  <2>1. /\ Push(events[l], fired[l] + 1) \in EventBuffer /\ fired[l] + 1 \in Nat
    BY <1>1, PushFields
  <2>2. VoidPush(voids[l]) \in VoidBuffer
    <3>1. /\ voids[l].intern + 1 \in Nat /\ voids[l].middle \in Nat
          /\ voids[l].extern \in Nat /\ voids[l].read \in BOOLEAN
      BY <1>1 DEF VoidBuffer
    <3>2. QED
      BY <1>1, <3>1, Zenon DEF VoidPush, VoidBuffer
  <2>3. QED
    BY <1>3, <2>1, <2>2 DEF FireEvent, FieldsTypeOK
<1>4. ASSUME NEW w \in Workers, NEW l \in EventLinks, TickEventBuffer(w, l)
      PROVE  FieldsTypeOK'
  <2>1. SendEvents(events[l]) \in EventBuffer
    BY <1>1, SendFields
  <2>2. VoidSendEvents(voids[l]) \in VoidBuffer
    <3>1. /\ voids[l].intern \in Nat /\ voids[l].middle \in Nat
          /\ 0 \in Nat /\ voids[l].read \in BOOLEAN
      BY <1>1 DEF VoidBuffer
    <3>2. QED
      BY <1>1, <3>1, Zenon DEF VoidSendEvents, VoidBuffer
  <2>3. delivered[l] \o events[l].extern \in Seq(Nat)
    BY <1>1 DEF EventBuffer
  <2>4. QED
    BY <1>4, <2>1, <2>2, <2>3 DEF TickEventBuffer, FieldsTypeOK
<1>5. ASSUME NEW w \in Workers, NEW l \in StateLinks, TickStateBuffer(w, l)
      PROVE  FieldsTypeOK'
  <2>1. PICK v \in {value[l], value[l] + 1} \cap (0 .. MaxTokens) :
          /\ value' = [value EXCEPT ![l] = v]
          /\ states' = [states EXCEPT ![l] = PullState(states[l], v)]
    BY <1>5, Zenon DEF TickStateBuffer
  <2>2. v \in Nat
    BY <1>1, <2>1
  <2>3. PullState(states[l], v) \in StateBuffer
    <3>1. states[l].middle \in Nat /\ states[l].extern \in Nat
      BY <1>1 DEF StateBuffer
    <3>2. QED
      BY <1>1, <2>2, <3>1, Zenon DEF PullState, StateBuffer
  <2>4. QED
    BY <1>5, <2>1, <2>2, <2>3 DEF TickStateBuffer, FieldsTypeOK
<1>6. ASSUME UNCHANGED <<events, voids, states, value, fired, delivered>> PROVE FieldsTypeOK'
  BY <1>6 DEF FieldsTypeOK
<1>7. ASSUME NEW w \in Workers, StartRegion(w) \/ EndRegion(w) PROVE FieldsTypeOK'
  BY <1>6, <1>7 DEF StartRegion, EndRegion, bufferVars
<1>8. CASE (UserStep \/ StopStep \/ QuietLoopStep) /\ UNCHANGED bufferVars
  BY <1>6, <1>8, Zenon DEF bufferVars
<1>9. CASE UNCHANGED allVars
  BY <1>6, <1>9 DEF bufferVars, allVars
<1>10. QED
  BY <1>2, <1>3, <1>4, <1>5, <1>7, <1>8, <1>9 DEF RegionNext, RegionStep

(***************************************************************************)
(* The work ticks a region may still have to fire.                         *)
(***************************************************************************)
LEMMA TickedByLinks ==
  ASSUME NEW t
  PROVE  /\ \A l : <<"event", l>> \in TickedBy(t)
                     <=> l \in EventLinks /\ l.dst = t /\ Connected(l)
         /\ \A l : <<"state", l>> \in TickedBy(t)
                     <=> l \in StateLinks /\ l.src = t /\ Connected(l)
BY DEF TickedBy

\* A worker gets the ticks of its region when it begins, and loses one at a time.
LEMMA TicksStep ==
  ASSUME TypeOK, TickFunction, TicksOutstanding, [RegionNext]_allVars
  PROVE  TickFunction' /\ TicksOutstanding'
<1>1. /\ executing \in [Workers -> Tasks \cup {NoTask}]
      /\ \A w \in Workers : to_tick[w] \subseteq TickedBy(executing[w])
  BY DEF TypeOK, QueueTypeOK, TicksOutstanding
<1>2. ASSUME \A w \in Workers : to_tick'[w] \subseteq TickedBy(executing'[w])
      PROVE  TicksOutstanding'
  <2>1. Registered \subseteq Registered'
    BY ControlStep, RegisteredGrows
  <2>2. \A l : Connected(l) => Connected(l)'
    BY <2>1 DEF Connected
  <2>3. QED
    BY <1>2, <2>2 DEF TickedBy, TicksOutstanding
<1>3. ASSUME UNCHANGED <<to_tick, executing>> PROVE TickFunction' /\ TicksOutstanding'
  <2>1. \A w \in Workers : to_tick'[w] \subseteq TickedBy(executing'[w])
    BY <1>1, <1>3
  <2>2. QED
    BY <1>2, <1>3, <2>1 DEF TickFunction
<1>4. ASSUME NEW w \in Workers, NEW x,
             to_tick' = [to_tick EXCEPT ![w] = @ \ {x}], UNCHANGED executing
      PROVE  TickFunction' /\ TicksOutstanding'
  <2>1. \A v \in Workers : to_tick'[v] \subseteq to_tick[v]
    BY <1>4 DEF TickFunction
  <2>2. \A v \in Workers : to_tick'[v] \subseteq TickedBy(executing'[v])
    BY <1>1, <1>4, <2>1
  <2>3. QED
    BY <1>2, <1>4, <2>2 DEF TickFunction
<1>5. ASSUME NEW w \in Workers, StartRegion(w) PROVE TickFunction' /\ TicksOutstanding'
  <2>1. /\ executing' = [executing EXCEPT ![w] = Head(waiting)]
        /\ to_tick' = [to_tick EXCEPT ![w] = TickedBy(Head(waiting))]
    BY <1>5, CycleAssumption DEF StartRegion, TakeTask, Take
  <2>2. TickFunction'
    BY <2>1 DEF TickFunction
  <2>3. \A v \in Workers : to_tick'[v] \subseteq TickedBy(executing'[v])
    <3>1. executing'[w] = Head(waiting) /\ to_tick'[w] = TickedBy(Head(waiting))
      BY <1>1, <2>1 DEF TickFunction
    <3>2. \A v \in Workers : v # w => executing'[v] = executing[v] /\ to_tick'[v] = to_tick[v]
      BY <1>1, <2>1 DEF TickFunction
    <3>3. QED
      BY <1>1, <3>1, <3>2
  <2>4. QED
    BY <1>2, <2>2, <2>3
<1>6. ASSUME NEW w \in Workers, EndRegion(w) PROVE TickFunction' /\ TicksOutstanding'
  <2>1. /\ executing' = [executing EXCEPT ![w] = NoTask] /\ to_tick' = to_tick
        /\ to_tick[w] = {}
    BY <1>6 DEF EndRegion, FinishTask, Finish, bufferVars
  <2>2. \A v \in Workers : to_tick'[v] \subseteq TickedBy(executing'[v])
    BY <1>1, <2>1
  <2>3. QED
    BY <1>2, <2>1, <2>2 DEF TickFunction
<1>7. ASSUME NEW w \in Workers, RegionStep(w) PROVE TickFunction' /\ TicksOutstanding'
  <2>1. ASSUME NEW l \in EventLinks, FireEvent(w, l)
        PROVE  TickFunction' /\ TicksOutstanding'
    BY <1>3, <2>1 DEF FireEvent, vars, queueVars
  <2>2. ASSUME NEW l \in EventLinks, TickEventBuffer(w, l)
        PROVE  TickFunction' /\ TicksOutstanding'
    BY <1>4, <2>2, Zenon DEF TickEventBuffer, vars, queueVars
  <2>3. ASSUME NEW l \in StateLinks, TickStateBuffer(w, l)
        PROVE  TickFunction' /\ TicksOutstanding'
    BY <1>4, <2>3, Zenon DEF TickStateBuffer, vars, queueVars
  <2>4. QED
    BY <1>5, <1>6, <1>7, <2>1, <2>2, <2>3 DEF RegionStep
<1>8. CASE SwitchRegion
  BY <1>3, <1>8 DEF SwitchRegion, Switch, queueVars
<1>9. CASE \/ (UserStep \/ StopStep \/ QuietLoopStep) /\ UNCHANGED bufferVars
           \/ UNCHANGED allVars
  BY <1>3, <1>9, QuietCase, Zenon DEF bufferVars
<1>10. QED
  BY <1>7, <1>8, <1>9 DEF RegionNext

(***************************************************************************)
(* The buffers, the states and the events keep their types, and a worker   *)
(* has work ticks to fire only for the region it executes, for any timeout *)
(* callback and any tick rates.                                            *)
(***************************************************************************)
THEOREM BuffersTypeCorrect == RegionSpec => []BuffersTypeOK
<1>1. RegionInit => FieldsTypeOK /\ TickFunction /\ TicksOutstanding
  BY FieldsInit DEF RegionInit, TickFunction, TicksOutstanding
<1>2. /\ TypeOK /\ FieldsTypeOK /\ TickFunction /\ TicksOutstanding
      /\ [RegionNext]_allVars
      => FieldsTypeOK' /\ TickFunction' /\ TicksOutstanding'
  BY FieldsStep, TicksStep
<1>3. FieldsTypeOK /\ TicksOutstanding => BuffersTypeOK
  BY TypeParts
<1>4. QED
  BY <1>1, <1>2, <1>3, RegionsImplementTasks, CycleTypeCorrect, PTL DEF RegionSpec

\* Both kinds of buffers go through the same operations.
LEMMA VoidCountsStep ==
  ASSUME FieldsTypeOK, VoidCounts, [RegionNext]_allVars
  PROVE  VoidCounts'
<1>1. /\ events \in [EventLinks -> EventBuffer] /\ voids \in [EventLinks -> VoidBuffer]
      /\ \A l \in EventLinks : events[l] \in EventBuffer /\ fired[l] + 1 \in Nat
      /\ \A l \in EventLinks : voids[l] = Count(events[l])
  BY DEF FieldsTypeOK, VoidCounts
<1>2. CASE SwitchRegion
  <2>1. SUFFICES ASSUME NEW l \in EventLinks PROVE voids'[l] = Count(events'[l])
    BY Zenon DEF VoidCounts, Count
  <2>2. PICK kind \in {"active_passive", "active", "passive", "none"} :
          kind = SwitchKind(l, l.src, Head(left))
    BY KindCases
  <2>3. voids'[l] = SwitchVoids(kind, voids[l]) /\ events'[l] = SwitchEvents(kind, events[l])
    BY <1>2, <2>2 DEF SwitchRegion
  <2>4. QED
    BY <1>1, <2>3, CountOperations
<1>3. ASSUME NEW w \in Workers, NEW k \in EventLinks, FireEvent(w, k) PROVE VoidCounts'
  <2>1. SUFFICES ASSUME NEW l \in EventLinks PROVE voids'[l] = Count(events'[l])
    BY Zenon DEF VoidCounts, Count
  <2>2. /\ events'[k] = Push(events[k], fired[k] + 1) /\ voids'[k] = VoidPush(voids[k])
        /\ l # k => events'[l] = events[l] /\ voids'[l] = voids[l]
    BY <1>1, <1>3 DEF FireEvent
  <2>3. VoidPush(Count(events[k])) = Count(Push(events[k], fired[k] + 1))
    BY <1>1, CountOperations
  <2>4. QED
    BY <1>1, <2>2, <2>3
<1>4. ASSUME NEW w \in Workers, NEW k \in EventLinks, TickEventBuffer(w, k) PROVE VoidCounts'
  <2>1. SUFFICES ASSUME NEW l \in EventLinks PROVE voids'[l] = Count(events'[l])
    BY Zenon DEF VoidCounts, Count
  <2>2. /\ events'[k] = SendEvents(events[k]) /\ voids'[k] = VoidSendEvents(voids[k])
        /\ l # k => events'[l] = events[l] /\ voids'[l] = voids[l]
    BY <1>1, <1>4 DEF TickEventBuffer
  <2>3. VoidSendEvents(Count(events[k])) = Count(SendEvents(events[k]))
    BY <1>1, CountOperations
  <2>4. QED
    BY <1>1, <2>2, <2>3
<1>5. ASSUME UNCHANGED <<events, voids>> PROVE VoidCounts'
  BY <1>5 DEF VoidCounts, Count
<1>6. ASSUME NEW w \in Workers,
             \/ StartRegion(w) \/ EndRegion(w)
             \/ \E l \in StateLinks : TickStateBuffer(w, l)
      PROVE  VoidCounts'
  BY <1>5, <1>6, Zenon DEF StartRegion, EndRegion, TickStateBuffer, bufferVars
<1>7. CASE \/ (UserStep \/ StopStep \/ QuietLoopStep) /\ UNCHANGED bufferVars
           \/ UNCHANGED allVars
  BY <1>5, <1>7, Zenon DEF bufferVars, allVars
<1>8. QED
  BY <1>2, <1>3, <1>4, <1>6, <1>7 DEF RegionNext, RegionStep

(***************************************************************************)
(* event_buffer<void> counts exactly the events that event_buffer<T> would *)
(* store, field by field, although it overwrites middle_buffer where the   *)
(* general buffer swaps it.                                                *)
(***************************************************************************)
THEOREM VoidBuffersCount == RegionSpec => []VoidCounts
<1>1. RegionInit => FieldsTypeOK /\ VoidCounts
  <2>1. Count(NewEventBuffer) = NewVoidBuffer
    BY DEF Count, NewEventBuffer, NewVoidBuffer
  <2>2. QED
    BY <2>1, FieldsInit DEF RegionInit, VoidCounts
<1>2. FieldsTypeOK /\ VoidCounts /\ [RegionNext]_allVars => FieldsTypeOK' /\ VoidCounts'
  BY FieldsStep, VoidCountsStep
<1>3. QED
  BY <1>1, <1>2, PTL DEF RegionSpec
--------------------------------------------------------------------------------
(* Events.                                                                 *)

\* Appending nothing.
LEMMA ConcatEmpty ==
  ASSUME NEW s \in Seq(Nat)
  PROVE  s \o <<>> = s
BY ConcatEmptySeq

\* A concatenation is a sequence.
LEMMA ConcatType ==
  ASSUME NEW s \in Seq(Nat), NEW t \in Seq(Nat)
  PROVE  s \o t \in Seq(Nat)
OBVIOUS

\* The brackets of a concatenation do not matter.
LEMMA ConcatMoves ==
  ASSUME NEW s \in Seq(Nat), NEW t \in Seq(Nat), NEW u \in Seq(Nat)
  PROVE  s \o (t \o u) = (s \o t) \o u /\ (s \o t) \o u \in Seq(Nat)
<1>1. s \o t \in Seq(Nat)
  BY ConcatType, Zenon
<1>2. (s \o t) \o u \in Seq(Nat)
  BY <1>1, ConcatType, Zenon
<1>3. (s \o t) \o u = s \o (t \o u)
  BY ConcatAssociative, SMTT(30)
<1> QED BY <1>2, <1>3, Zenon

(***************************************************************************)
(* What is received and stored, through each operation of the buffer.      *)
(***************************************************************************)
LEMMA CarriedSwitch ==
  ASSUME NEW d \in Seq(Nat), NEW b \in EventBuffer,
         NEW kind \in {"active_passive", "active", "passive", "none"},
         kind = "active_passive" \/ b.read => b.middle = <<>>,
         kind = "passive" => b.extern = <<>>
  PROVE  Carried(d, SwitchEvents(kind, b)) = Carried(d, b)
<1> DEFINE e == b.extern
           m == b.middle
           i == b.intern
<1>1. e \in Seq(Nat) /\ m \in Seq(Nat) /\ i \in Seq(Nat) /\ <<>> \in Seq(Nat)
  BY DEF EventBuffer
<1>2. CASE kind = "none"
  BY <1>2 DEF SwitchEvents
<1>3. CASE kind = "active_passive"
  <2>1. /\ SwitchEvents(kind, b).extern = e \o i /\ SwitchEvents(kind, b).middle = m
        /\ SwitchEvents(kind, b).intern = <<>> /\ m = <<>>
    BY <1>1, <1>3, Zenon DEF SwitchEvents, SwitchActivePassive, EventBuffer
  <2>2. d \o (e \o i) \o <<>> \o <<>> = (d \o e) \o i /\ (d \o e) \o <<>> = d \o e
    <3> HIDE DEF e, i
    <3>1. d \o (e \o i) = (d \o e) \o i
      BY <1>1, ConcatMoves, ZenonT(60)
    <3>2. (d \o e) \o i \in Seq(Nat) /\ d \o e \in Seq(Nat)
      BY <1>1
    <3>3. ((d \o e) \o i) \o <<>> = (d \o e) \o i /\ (d \o e) \o <<>> = d \o e
      BY <3>2, ConcatEmpty, ZenonT(60)
    <3>4. QED
      BY <3>1, <3>3, Zenon
  <2>3. QED
    BY <2>1, <2>2, Zenon DEF Carried
<1>4. CASE kind = "passive"
  <2>1. /\ SwitchEvents(kind, b).extern = m /\ SwitchEvents(kind, b).middle = <<>>
        /\ SwitchEvents(kind, b).intern = i /\ e = <<>>
    BY <1>1, <1>4, Zenon DEF SwitchEvents, SwitchPassive, EventBuffer
  <2>2. d \o m \o <<>> \o i = d \o <<>> \o m \o i
    BY <1>1, ConcatAssociative, ConcatEmptySeq
  <2>3. QED
    BY <2>1, <2>2 DEF Carried
<1>5. CASE kind = "active"
  <2>1. /\ SwitchEvents(kind, b).extern = e
        /\ SwitchEvents(kind, b).middle = IF b.read THEN i ELSE m \o i
        /\ SwitchEvents(kind, b).intern = <<>>
    BY <1>1, <1>5, Zenon DEF SwitchEvents, SwitchActive, EventBuffer
  <2>2. b.read => m = <<>>
    OBVIOUS
  <2>3. /\ ((d \o e) \o i) \o <<>> = (d \o e) \o i /\ (d \o e) \o <<>> = d \o e
        /\ ((d \o e) \o (m \o i)) \o <<>> = ((d \o e) \o m) \o i
    <3> HIDE DEF e, m, i
    <3>1. d \o e \in Seq(Nat) /\ (d \o e) \o i \in Seq(Nat)
      BY <1>1
    <3>2. /\ (d \o e) \o (m \o i) = ((d \o e) \o m) \o i
          /\ ((d \o e) \o m) \o i \in Seq(Nat)
      BY <1>1, <3>1, ConcatMoves, ZenonT(60)
    <3>3. /\ ((d \o e) \o i) \o <<>> = (d \o e) \o i /\ (d \o e) \o <<>> = d \o e
          /\ (((d \o e) \o m) \o i) \o <<>> = ((d \o e) \o m) \o i
      BY <3>1, <3>2, ConcatEmpty, Zenon
    <3>4. QED
      BY <3>2, <3>3, Zenon
  <2>4. QED
    BY <2>1, <2>2, <2>3, Zenon DEF Carried
<1>6. QED
  BY <1>2, <1>3, <1>4, <1>5

\* An event that is pushed comes last.
LEMMA CarriedPush ==
  ASSUME NEW d \in Seq(Nat), NEW b \in EventBuffer, NEW x \in Nat
  PROVE  Carried(d, Push(b, x)) = Append(Carried(d, b), x)
<1>1. b.extern \in Seq(Nat) /\ b.middle \in Seq(Nat) /\ b.intern \in Seq(Nat)
  BY DEF EventBuffer
<1>2. /\ Push(b, x).intern = Append(b.intern, x) /\ Push(b, x).middle = b.middle
      /\ Push(b, x).extern = b.extern
  BY PushFields, Zenon
<1>3. ASSUME NEW s \in Seq(Nat), NEW u \in Seq(Nat)
      PROVE  s \o Append(u, x) = Append(s \o u, x)
  OBVIOUS
<1>4. d \o b.extern \o b.middle \in Seq(Nat)
  BY <1>1
<1>5. QED
  BY <1>1, <1>2, <1>3, <1>4, Zenon DEF Carried

\* Events that are sent move from the buffer to those received.
LEMMA CarriedSend ==
  ASSUME NEW d \in Seq(Nat), NEW b \in EventBuffer
  PROVE  Carried(d \o b.extern, SendEvents(b)) = Carried(d, b)
<1>1. b.extern \in Seq(Nat) /\ b.middle \in Seq(Nat) /\ b.intern \in Seq(Nat)
  BY DEF EventBuffer
<1>2. /\ SendEvents(b).intern = b.intern /\ SendEvents(b).middle = b.middle
      /\ SendEvents(b).extern = <<>>
  BY SendFields, Zenon
<1>3. (d \o b.extern) \o <<>> = d \o b.extern
  BY <1>1, ConcatEmptySeq
<1>4. QED
  BY <1>2, <1>3 DEF Carried

\* The events of a link in the order they are fired.
LEMMA FireNumbers ==
  ASSUME NEW n \in Nat
  PROVE  Append([i \in 1 .. n |-> i], n + 1) = [i \in 1 .. n + 1 |-> i]
<1>1. [i \in 1 .. n |-> i] \in Seq(Nat) /\ Len([i \in 1 .. n |-> i]) = n
  OBVIOUS
<1>2. QED
  BY <1>1

(***************************************************************************)
(* The region whose switch tick is sent is done and no worker executes it. *)
(***************************************************************************)
LEMMA HeadIsQuiet ==
  ASSUME CycleInv, pc = "switch", left # <<>>
  PROVE  /\ Head(left) \in Tasks /\ ~work_to_do[Head(left)]
         /\ \A w \in Workers : executing[w] # Head(left)
<1>1. left \in Seq(Tasks) /\ 1 \in DOMAIN left /\ Head(left) = left[1] /\ Head(left) \in Tasks
  BY DEF CycleInv, TypeOK
<1>2. ~work_to_do[left[1]] /\ ~InFlight(left[1])
  BY <1>1, SwitchIsQuiet DEF SwitchOnlyWhenDone
<1>3. QED
  BY <1>1, <1>2 DEF InFlight

\* The switch tick of a region that is done.
LEMMA EventSwitchStep ==
  ASSUME CycleInv, FieldsTypeOK, EventInv, SwitchRegion
  PROVE  EventInv'
<1> DEFINE t == Head(left)
           kind(l) == SwitchKind(l, l.src, t)
<1>1. /\ pc = "switch" /\ left # <<>> /\ work_to_do' = [work_to_do EXCEPT ![t] = TRUE]
      /\ UNCHANGED <<tasks, executing, to_tick>>
      /\ work_to_do \in [Tasks -> BOOLEAN]
  BY DEF SwitchRegion, Switch, queueVars, CycleInv, TypeOK
<1>2. t \in Tasks /\ ~work_to_do[t] /\ \A w \in Workers : executing[w] # t
  BY <1>1, HeadIsQuiet
<1>3. \A l : (Connected(l)' <=> Connected(l)) /\ (SameRate(l)' <=> SameRate(l))
  BY <1>1, SameTasks
<1>4. ASSUME NEW l \in EventLinks
      PROVE  /\ events[l] \in EventBuffer /\ events'[l] = SwitchEvents(kind(l), events[l])
             /\ kind(l) \in {"active_passive", "active", "passive", "none"}
             /\ l.src # l.dst /\ l.dst \in Tasks
  BY KindCases, LinkType DEF SwitchRegion, FieldsTypeOK, Links
<1> HIDE DEF t, kind
<1>5. ASSUME NEW l \in EventLinks
      PROVE  /\ kind(l) = "active_passive" => SameRate(l)
             /\ kind(l) = "passive" => ~SameRate(l) /\ l.dst = t
             /\ kind(l) = "active" => ~SameRate(l) /\ l.src = t
             /\ ~Connected(l) => kind(l) = "none"
  BY KindCases DEF kind
<1>6. ASSUME NEW l \in EventLinks, events'[l].read \/ SameRate(l)
      PROVE  events'[l].middle = <<>>
  <2>1. events[l].read \/ SameRate(l) => events[l].middle = <<>>
    BY DEF EventInv, MiddleIsRead
  <2>2. CASE kind(l) = "passive"
    BY <1>4, <2>2, SwitchEventsFields
  <2>3. CASE kind(l) = "active"
    BY <1>4, <1>5, <1>6, <2>3, SwitchEventsFields
  <2>4. CASE kind(l) = "active_passive"
    BY <1>4, <1>5, <2>1, <2>4, SwitchEventsFields
  <2>5. CASE kind(l) = "none"
    BY <1>4, <1>6, <2>1, <2>5, SwitchEventsFields
  <2>6. QED
    BY <1>4, <2>2, <2>3, <2>4, <2>5
<1>7. ASSUME NEW l \in EventLinks, ~Connected(l) PROVE events'[l] = NewEventBuffer
  <2>1. events[l] = NewEventBuffer
    BY <1>7 DEF EventInv, UntouchedBefore
  <2>2. QED
    BY <1>4, <1>5, <1>7, <2>1, SwitchEventsFields
<1>8. ASSUME NEW l \in EventLinks, ~SameRate(l), l.dst # t
      PROVE  events'[l].extern = events[l].extern
  BY <1>4, <1>5, <1>8, SwitchEventsFields
<1>9. ASSUME NEW l \in EventLinks, NEW w \in Workers,
             ~SameRate(l), executing[w] = l.dst, <<"event", l>> \notin to_tick[w]
      PROVE  events'[l].extern = <<>>
  BY <1>2, <1>8, <1>9 DEF EventInv, TickEmptiesExtern
<1>10. ASSUME NEW l \in EventLinks, ~SameRate(l), ~work_to_do'[l.dst]
       PROVE  events'[l].extern = <<>>
  <2>1. l.dst # t /\ ~work_to_do[l.dst]
    BY <1>1, <1>2, <1>4, <1>10
  <2>2. QED
    BY <1>8, <1>10, <2>1 DEF EventInv, ExternProcessed
<1>11. MiddleIsRead' /\ UntouchedBefore'
  BY <1>3, <1>6, <1>7 DEF MiddleIsRead, UntouchedBefore, NewEventBuffer
<1>12. TickEmptiesExtern' /\ ExternProcessed'
  BY <1>1, <1>3, <1>9, <1>10 DEF TickEmptiesExtern, ExternProcessed
<1>13. QED
  BY <1>11, <1>12 DEF EventInv

\* Starting, ticking and ending the work of a region, and firing events.
LEMMA EventWorkStep ==
  ASSUME TypeOK, FieldsTypeOK, TickFunction, TicksOutstanding, EventInv,
         NEW w \in Workers, RegionStep(w)
  PROVE  EventInv'
<1>1. /\ executing \in [Workers -> Tasks \cup {NoTask}] /\ NoTask \notin Tasks
      /\ work_to_do \in [Tasks -> BOOLEAN] /\ waiting \in Seq(Tasks)
      /\ events \in [EventLinks -> EventBuffer]
  BY QueueAssumption DEF TypeOK, QueueTypeOK, FieldsTypeOK
<1>2. UNCHANGED tasks
  BY Zenon DEF RegionStep, StartRegion, FireEvent, TickEventBuffer, TickStateBuffer, EndRegion,
         TakeTask, FinishTask, controlVars, vars
<1>3. \A l : (Connected(l)' <=> Connected(l)) /\ (SameRate(l)' <=> SameRate(l))
  BY <1>2, SameTasks
<1>4. \A l \in EventLinks : l.src \in Tasks /\ l.dst \in Tasks /\ l.src # l.dst
  BY LinkType DEF Links
<1>5. ASSUME UNCHANGED events PROVE MiddleIsRead' /\ UntouchedBefore'
  BY <1>3, <1>5 DEF EventInv, MiddleIsRead, UntouchedBefore, NewEventBuffer
<1>6. CASE StartRegion(w)
  <2>1. /\ executing' = [executing EXCEPT ![w] = Head(waiting)]
        /\ to_tick' = [to_tick EXCEPT ![w] = TickedBy(Head(waiting))]
        /\ UNCHANGED <<events, work_to_do>>
    BY <1>6, CycleAssumption DEF StartRegion, TakeTask, Take
  <2>2. ExternProcessed'
    BY <1>3, <2>1 DEF EventInv, ExternProcessed
  <2>3. ASSUME NEW l \in EventLinks, NEW v \in Workers,
               ~SameRate(l), executing'[v] = l.dst, <<"event", l>> \notin to_tick'[v]
        PROVE  events[l].extern = <<>>
    <3>1. CASE v # w
      <4>1. executing'[v] = executing[v] /\ to_tick'[v] = to_tick[v]
        BY <1>1, <2>1, <3>1 DEF TickFunction
      <4>2. QED
        BY <2>3, <4>1, Zenon DEF EventInv, TickEmptiesExtern
    <3>2. CASE v = w
      <4>1. executing'[w] = Head(waiting) /\ to_tick'[w] = TickedBy(Head(waiting))
        BY <1>1, <2>1 DEF TickFunction
      <4>2. ~Connected(l)
        BY <2>3, <3>2, <4>1, TickedByLinks
      <4>3. QED
        BY <4>2 DEF EventInv, UntouchedBefore, NewEventBuffer
    <3>3. QED
      BY <3>1, <3>2
  <2>4. TickEmptiesExtern'
    BY <1>3, <2>1, <2>3 DEF TickEmptiesExtern
  <2>5. QED
    BY <1>5, <2>1, <2>2, <2>4 DEF EventInv
<1>7. ASSUME NEW k \in EventLinks, FireEvent(w, k) PROVE EventInv'
  <2>1. /\ UNCHANGED <<executing, to_tick, work_to_do>> /\ Connected(k)
        /\ fired[k] + 1 \in Nat
        /\ events' = [events EXCEPT ![k] = Push(events[k], fired[k] + 1)]
    BY <1>7 DEF FireEvent, vars, queueVars, FieldsTypeOK
  <2>2. /\ events'[k].middle = events[k].middle /\ events'[k].extern = events[k].extern
        /\ events'[k].read = events[k].read
    <3>1. events[k] \in EventBuffer /\ events'[k] = Push(events[k], fired[k] + 1)
      BY <1>1, <2>1
    <3>2. QED
      BY <2>1, <3>1, PushFields
  <2>3. \A l \in EventLinks : l # k => events'[l] = events[l]
    BY <1>1, <2>1
  <2>4. MiddleIsRead' /\ UntouchedBefore'
    BY <1>3, <2>1, <2>2, <2>3, Zenon DEF EventInv, MiddleIsRead, UntouchedBefore, NewEventBuffer
  <2>5. TickEmptiesExtern' /\ ExternProcessed'
    BY <1>3, <2>1, <2>2, <2>3 DEF EventInv, TickEmptiesExtern, ExternProcessed
  <2>6. QED
    BY <2>4, <2>5 DEF EventInv
<1>8. ASSUME NEW k \in EventLinks, TickEventBuffer(w, k) PROVE EventInv'
  <2>1. /\ UNCHANGED <<executing, work_to_do>> /\ <<"event", k>> \in to_tick[w]
        /\ to_tick' = [to_tick EXCEPT ![w] = @ \ {<<"event", k>>}]
        /\ events' = [events EXCEPT ![k] = SendEvents(events[k])]
    BY <1>8 DEF TickEventBuffer, vars, queueVars
  <2>2. /\ events'[k].middle = events[k].middle /\ events'[k].extern = <<>>
        /\ events'[k].read = events[k].read
    <3>1. events[k] \in EventBuffer /\ events'[k] = SendEvents(events[k])
      BY <1>1, <2>1
    <3>2. QED
      BY <3>1, SendFields
  <2>3. \A l \in EventLinks : l # k => events'[l] = events[l]
    BY <1>1, <2>1
  <2>4. Connected(k)
    BY <2>1, TickedByLinks DEF TicksOutstanding
  <2>5. MiddleIsRead' /\ UntouchedBefore'
    BY <1>3, <2>2, <2>3, <2>4 DEF EventInv, MiddleIsRead, UntouchedBefore, NewEventBuffer
  <2>6. \A l \in EventLinks, v \in Workers :
          l # k /\ <<"event", l>> \notin to_tick'[v] => <<"event", l>> \notin to_tick[v]
    BY <2>1 DEF TickFunction
  <2>7. TickEmptiesExtern' /\ ExternProcessed'
    BY <1>3, <2>1, <2>2, <2>3, <2>6, Zenon DEF EventInv, TickEmptiesExtern, ExternProcessed
  <2>8. QED
    BY <2>5, <2>7 DEF EventInv
<1>9. ASSUME NEW k \in StateLinks, TickStateBuffer(w, k) PROVE EventInv'
  <2>1. /\ UNCHANGED <<executing, work_to_do, events>>
        /\ to_tick' = [to_tick EXCEPT ![w] = @ \ {<<"state", k>>}]
    BY <1>9 DEF TickStateBuffer, vars, queueVars
  <2>2. \A l \in EventLinks, v \in Workers :
          <<"event", l>> \notin to_tick'[v] => <<"event", l>> \notin to_tick[v]
    BY <2>1 DEF TickFunction
  <2>3. TickEmptiesExtern' /\ ExternProcessed'
    BY <1>3, <2>1, <2>2, Zenon DEF EventInv, TickEmptiesExtern, ExternProcessed
  <2>4. QED
    BY <1>5, <2>1, <2>3 DEF EventInv
<1>10. CASE EndRegion(w)
  <2>1. /\ executing[w] # NoTask /\ executing' = [executing EXCEPT ![w] = NoTask]
        /\ work_to_do' = [work_to_do EXCEPT ![executing[w]] = FALSE]
        /\ to_tick[w] = {} /\ UNCHANGED <<events, to_tick>>
    BY <1>10 DEF EndRegion, FinishTask, Finish, Idle, bufferVars
  <2>2. executing'[w] = NoTask /\ \A v \in Workers : v # w => executing'[v] = executing[v]
    BY <1>1, <2>1
  <2>3. TickEmptiesExtern'
    BY <1>1, <1>3, <1>4, <2>1, <2>2, Zenon DEF EventInv, TickEmptiesExtern
  <2>4. ASSUME NEW l \in EventLinks, ~SameRate(l), ~work_to_do'[l.dst]
        PROVE  events[l].extern = <<>>
    <3>1. CASE l.dst = executing[w]
      BY <2>1, <2>4, <3>1, Zenon DEF EventInv, TickEmptiesExtern
    <3>2. CASE l.dst # executing[w]
      BY <1>1, <1>4, <2>1, <2>4, <3>2 DEF EventInv, ExternProcessed
    <3>3. QED
      BY <3>1, <3>2
  <2>5. QED
    BY <1>3, <1>5, <2>1, <2>3, <2>4, Zenon DEF EventInv, ExternProcessed
<1>11. QED
  BY <1>6, <1>7, <1>8, <1>9, <1>10 DEF RegionStep

\* The steps of the main loop and of the workers together.
LEMMA EventInvStep ==
  ASSUME CycleInv, FieldsTypeOK, TickFunction, TicksOutstanding, EventInv,
         [RegionNext]_allVars
  PROVE  EventInv'
<1>1. TypeOK
  BY DEF CycleInv
<1>2. CASE \/ (UserStep \/ StopStep \/ QuietLoopStep) /\ UNCHANGED bufferVars
           \/ UNCHANGED allVars
  <2>1. UNCHANGED <<events, to_tick, executing, work_to_do>>
    BY <1>2, QuietCase, Zenon DEF bufferVars
  <2>2. \A l \in EventLinks :
          /\ Connected(l) => Connected(l)'
          /\ SameRate(l) => SameRate(l)'
          /\ SameRate(l)' => SameRate(l) \/ ~Connected(l)
    BY <1>1, ControlStep, RatesStep DEF Links
  <2>3. \A l \in EventLinks : ~Connected(l) => events[l].middle = <<>>
    BY DEF EventInv, UntouchedBefore, NewEventBuffer
  <2>4. MiddleIsRead' /\ UntouchedBefore'
    BY <2>1, <2>2, <2>3 DEF EventInv, MiddleIsRead, UntouchedBefore, NewEventBuffer
  <2>5. TickEmptiesExtern' /\ ExternProcessed'
    BY <2>1, <2>2 DEF EventInv, TickEmptiesExtern, ExternProcessed
  <2>6. QED
    BY <2>4, <2>5 DEF EventInv
<1>3. QED
  BY <1>1, <1>2, EventSwitchStep, EventWorkStep DEF RegionNext

\* New buffers are empty.
LEMMA EventInit ==
  ASSUME RegionInit
  PROVE  EventInv
<1>1. /\ \A l \in EventLinks : events[l] = NewEventBuffer
      /\ NewEventBuffer.extern = <<>> /\ NewEventBuffer.middle = <<>>
  BY DEF RegionInit, NewEventBuffer
<1>2. QED
  BY <1>1 DEF EventInv, MiddleIsRead, UntouchedBefore, TickEmptiesExtern, ExternProcessed

(***************************************************************************)
(* Together with what is proved of cycle_control, the facts about event    *)
(* buffers are an inductive invariant.                                     *)
(***************************************************************************)
LEMMA EventInvariant ==
  RegionSpec /\ []DoneTasksEmpty
    => [](CycleInv /\ FieldsTypeOK /\ TickFunction /\ TicksOutstanding /\ EventInv)
<1>1. RegionInit => FieldsTypeOK /\ TickFunction /\ TicksOutstanding /\ EventInv
  BY EventInit, FieldsInit DEF RegionInit, TickFunction, TicksOutstanding
<1>2. /\ CycleInv /\ FieldsTypeOK /\ TickFunction /\ TicksOutstanding /\ EventInv
      /\ [RegionNext]_allVars
      => FieldsTypeOK' /\ TickFunction' /\ TicksOutstanding' /\ EventInv'
  <2>1. CycleInv => TypeOK
    BY DEF CycleInv
  <2>2. QED
    BY <2>1, FieldsStep, TicksStep, EventInvStep
<1>3. QED
  BY <1>1, <1>2, RegionCycleInv, PTL DEF RegionSpec

(***************************************************************************)
(* switch_passive_buffers drops no event: "the previous value in           *)
(* extern_buffer has already been processed" whenever the sink region is   *)
(* done, for any tick rates and any timeout callback, as long as           *)
(* assert(tasks.done_tasks.empty()) has not failed.                        *)
(***************************************************************************)
THEOREM NothingIsDropped == RegionSpec /\ []DoneTasksEmpty => []ExternProcessed
<1>1. EventInv => ExternProcessed
  BY DEF EventInv
<1>2. QED
  BY <1>1, EventInvariant, PTL

\* Each operation moves events towards the sink and keeps their order.
LEMMA EventsInOrderStep ==
  ASSUME CycleInv, FieldsTypeOK, EventInv, EventsOnceInOrder, [RegionNext]_allVars
  PROVE  EventsOnceInOrder'
<1>1. /\ events \in [EventLinks -> EventBuffer] /\ fired \in [EventLinks -> Nat]
      /\ delivered \in [EventLinks -> Seq(Nat)]
      /\ \A l \in EventLinks :
           Carried(delivered[l], events[l]) = [i \in 1 .. fired[l] |-> i]
  BY Zenon DEF FieldsTypeOK, EventsOnceInOrder, Carried
<1>2. ASSUME \A l \in EventLinks :
               Carried(delivered'[l], events'[l]) = [i \in 1 .. fired'[l] |-> i]
      PROVE  EventsOnceInOrder'
  BY <1>2, Zenon DEF EventsOnceInOrder, Carried
<1>3. ASSUME UNCHANGED <<events, fired, delivered>> PROVE EventsOnceInOrder'
  BY <1>1, <1>2, <1>3
<1>4. CASE SwitchRegion
  <2>1. UNCHANGED <<fired, delivered>> /\ pc = "switch" /\ left # <<>>
    BY <1>4 DEF SwitchRegion, Switch
  <2>2. ASSUME NEW l \in EventLinks
        PROVE  Carried(delivered[l], events'[l]) = Carried(delivered[l], events[l])
    <3> DEFINE kind == SwitchKind(l, l.src, Head(left))
    <3>1. events'[l] = SwitchEvents(kind, events[l]) /\ events[l] \in EventBuffer
      BY <1>1, <1>4 DEF SwitchRegion
    <3>2. /\ kind \in {"active_passive", "active", "passive", "none"}
          /\ kind = "active_passive" => SameRate(l)
          /\ kind = "passive" => ~SameRate(l) /\ Head(left) = l.dst
      BY KindCases
    <3> HIDE DEF kind
    <3>3. kind = "active_passive" \/ events[l].read => events[l].middle = <<>>
      BY <3>2 DEF EventInv, MiddleIsRead
    <3>4. kind = "passive" => events[l].extern = <<>>
      BY <2>1, <3>2, HeadIsQuiet DEF EventInv, ExternProcessed
    <3>5. delivered[l] \in Seq(Nat)
      BY <1>1
    <3>6. QED
      BY <3>1, <3>2, <3>3, <3>4, <3>5, CarriedSwitch
  <2>3. QED
    BY <1>1, <1>2, <2>1, <2>2
<1>5. ASSUME NEW w \in Workers, NEW k \in EventLinks, FireEvent(w, k)
      PROVE  EventsOnceInOrder'
  <2>1. /\ fired'[k] = fired[k] + 1 /\ events'[k] = Push(events[k], fired[k] + 1)
        /\ delivered'[k] = delivered[k]
        /\ \A l \in EventLinks : l # k => /\ fired'[l] = fired[l] /\ events'[l] = events[l]
                                          /\ delivered'[l] = delivered[l]
    BY <1>1, <1>5 DEF FireEvent
  <2>2. /\ fired[k] \in Nat /\ fired[k] + 1 \in Nat /\ delivered[k] \in Seq(Nat)
        /\ events[k] \in EventBuffer
    BY <1>1
  <2>3. Carried(delivered[k], Push(events[k], fired[k] + 1))
          = Append(Carried(delivered[k], events[k]), fired[k] + 1)
    BY <2>2, CarriedPush
  <2>4. Carried(delivered'[k], events'[k]) = [i \in 1 .. fired'[k] |-> i]
    BY <1>1, <2>1, <2>2, <2>3, FireNumbers, Zenon
  <2>5. \A l \in EventLinks :
          l # k => Carried(delivered'[l], events'[l]) = [i \in 1 .. fired'[l] |-> i]
    BY <1>1, <2>1, Zenon
  <2>6. QED
    BY <1>2, <2>4, <2>5, Zenon
<1>6. ASSUME NEW w \in Workers, NEW k \in EventLinks, TickEventBuffer(w, k)
      PROVE  EventsOnceInOrder'
  <2>1. /\ fired'[k] = fired[k] /\ events'[k] = SendEvents(events[k])
        /\ delivered'[k] = delivered[k] \o events[k].extern
        /\ \A l \in EventLinks : l # k => /\ fired'[l] = fired[l] /\ events'[l] = events[l]
                                          /\ delivered'[l] = delivered[l]
    BY <1>1, <1>6 DEF TickEventBuffer
  <2>2. Carried(delivered'[k], events'[k]) = [i \in 1 .. fired'[k] |-> i]
    <3>1. delivered[k] \in Seq(Nat) /\ events[k] \in EventBuffer
      BY <1>1
    <3>2. Carried(delivered[k] \o events[k].extern, SendEvents(events[k]))
            = Carried(delivered[k], events[k])
      BY <3>1, CarriedSend
    <3>3. QED
      BY <1>1, <2>1, <3>2, Zenon
  <2>3. \A l \in EventLinks :
          l # k => Carried(delivered'[l], events'[l]) = [i \in 1 .. fired'[l] |-> i]
    BY <1>1, <2>1, Zenon
  <2>4. QED
    BY <1>2, <2>2, <2>3, Zenon
<1>7. ASSUME NEW w \in Workers,
             \/ StartRegion(w) \/ EndRegion(w)
             \/ \E l \in StateLinks : TickStateBuffer(w, l)
      PROVE  EventsOnceInOrder'
  BY <1>3, <1>7, Zenon DEF StartRegion, EndRegion, TickStateBuffer, bufferVars
<1>8. CASE \/ (UserStep \/ StopStep \/ QuietLoopStep) /\ UNCHANGED bufferVars
           \/ UNCHANGED allVars
  BY <1>3, <1>8, Zenon DEF bufferVars, allVars
<1>9. QED
  BY <1>4, <1>5, <1>6, <1>7, <1>8 DEF RegionNext, RegionStep

(***************************************************************************)
(* Events cross a region border exactly once and in the order they were    *)
(* fired: for any number of regions, links, workers and events, any tick   *)
(* rates, any timeout callback and every interleaving of the regions with  *)
(* the main loop, as long as assert(tasks.done_tasks.empty()) has not      *)
(* failed.                                                                 *)
(***************************************************************************)
THEOREM EventsCrossOnce == RegionSpec /\ []DoneTasksEmpty => []EventsOnceInOrder
<1>1. RegionInit => EventsOnceInOrder
  BY DEF RegionInit, EventsOnceInOrder, NewEventBuffer
<1>2. CycleInv /\ FieldsTypeOK /\ EventInv /\ EventsOnceInOrder /\ [RegionNext]_allVars
        => EventsOnceInOrder'
  BY EventsInOrderStep
<1>3. QED
  BY <1>1, <1>2, EventInvariant, PTL DEF RegionSpec
--------------------------------------------------------------------------------
(* States.                                                                 *)

\* Each operation copies a state towards the sink.
LEMMA StatesInOrderStep ==
  ASSUME TypeOK, FieldsTypeOK, StatesInOrder, [RegionNext]_allVars
  PROVE  StatesInOrder'
<1>1. /\ states \in [StateLinks -> StateBuffer] /\ value \in [StateLinks -> Nat]
      /\ \A l \in StateLinks : /\ states[l].intern \in Nat /\ states[l].middle \in Nat
                               /\ states[l].extern \in Nat /\ value[l] \in Nat
  BY DEF FieldsTypeOK, StateBuffer
<1>2. \A l \in StateLinks : SameRate(l) => SameRate(l)'
  BY ControlStep, RatesStep DEF Links
<1>3. ASSUME UNCHANGED <<states, value>> PROVE StatesInOrder'
  BY <1>1, <1>2, <1>3 DEF StatesInOrder
<1>4. CASE SwitchRegion
  <2>1. UNCHANGED <<tasks, value>>
    BY <1>4 DEF SwitchRegion, Switch
  <2>2. \A l : SameRate(l)' <=> SameRate(l)
    BY <2>1, SameTasks
  <2>3. ASSUME NEW l \in StateLinks
        PROVE  /\ states'[l].intern = states[l].intern
               /\ IF SameRate(l)
                    THEN states'[l].extern <= states'[l].intern
                    ELSE /\ states'[l].extern <= states'[l].middle
                         /\ states'[l].middle <= states'[l].intern
    <3> DEFINE kind == SwitchKind(l, l.dst, Head(left))
    <3>1. states'[l] = SwitchState(kind, states[l]) /\ states[l] \in StateBuffer
      BY <1>1, <1>4, Zenon DEF SwitchRegion
    <3>2. /\ kind \in {"active_passive", "active", "passive", "none"}
          /\ kind = "active_passive" => SameRate(l)
          /\ kind \in {"active", "passive"} => ~SameRate(l)
      BY KindCases
    <3> HIDE DEF kind
    <3>3. /\ states'[l].intern = states[l].intern
          /\ states'[l].middle = IF kind = "passive" THEN states[l].intern ELSE states[l].middle
          /\ states'[l].extern =
               IF kind = "active" THEN states[l].middle
               ELSE IF kind = "active_passive" THEN states[l].intern ELSE states[l].extern
      BY <3>1, <3>2, SwitchStateFields
    <3>4. QED
      BY <1>1, <3>2, <3>3 DEF StatesInOrder
  <2>4. QED
    BY <1>1, <2>1, <2>2, <2>3 DEF StatesInOrder
<1>5. ASSUME NEW w \in Workers, NEW k \in StateLinks, TickStateBuffer(w, k)
      PROVE  StatesInOrder'
  <2>1. PICK v \in {value[k], value[k] + 1} \cap (0 .. MaxTokens) :
          /\ value' = [value EXCEPT ![k] = v]
          /\ states' = [states EXCEPT ![k] = PullState(states[k], v)]
    BY <1>5, Zenon DEF TickStateBuffer
  <2>2. v \in Nat /\ value[k] <= v
    BY <1>1, <2>1
  <2>3. /\ value'[k] = v /\ states'[k].intern = v
        /\ states'[k].middle = states[k].middle /\ states'[k].extern = states[k].extern
    <3>1. states[k] \in StateBuffer /\ value'[k] = v /\ states'[k] = PullState(states[k], v)
      BY <1>1, <2>1
    <3>2. QED
      BY <3>1 DEF PullState, StateBuffer
  <2>4. \A l \in StateLinks : l # k => value'[l] = value[l] /\ states'[l] = states[l]
    BY <1>1, <2>1
  <2>5. UNCHANGED tasks
    BY <1>5 DEF TickStateBuffer, vars, controlVars
  <2>6. \A l : SameRate(l)' <=> SameRate(l)
    BY <2>5, SameTasks
  <2>7. ASSUME NEW l \in StateLinks
        PROVE  /\ states'[l].intern <= value'[l]
               /\ IF SameRate(l)'
                    THEN states'[l].extern <= states'[l].intern
                    ELSE /\ states'[l].extern <= states'[l].middle
                         /\ states'[l].middle <= states'[l].intern
    <3>1. /\ states[l].intern <= value[l]
          /\ IF SameRate(l)'
               THEN states[l].extern <= states[l].intern
               ELSE states[l].extern <= states[l].middle /\ states[l].middle <= states[l].intern
      BY <1>1, <2>6, Zenon DEF StatesInOrder
    <3>2. CASE l # k
      BY <2>4, <3>1, <3>2, Zenon
    <3>3. CASE l = k
      <4>1. value[k] \in Nat /\ states[k] \in StateBuffer
        BY <1>1
      <4> QED BY <2>2, <2>3, <3>1, <3>3, <4>1 DEF StateBuffer
    <3> QED BY <3>2, <3>3
  <2>8. QED
    BY <2>7, Zenon DEF StatesInOrder
<1>6. ASSUME NEW w \in Workers,
             \/ StartRegion(w) \/ EndRegion(w)
             \/ \E l \in EventLinks : FireEvent(w, l) \/ TickEventBuffer(w, l)
      PROVE  StatesInOrder'
  BY <1>3, <1>6, Zenon DEF StartRegion, EndRegion, FireEvent, TickEventBuffer, bufferVars
<1>7. CASE \/ (UserStep \/ StopStep \/ QuietLoopStep) /\ UNCHANGED bufferVars
           \/ UNCHANGED allVars
  BY <1>3, <1>7, Zenon DEF bufferVars, allVars
<1>8. QED
  BY <1>4, <1>5, <1>6, <1>7 DEF RegionNext, RegionStep

(***************************************************************************)
(* A state never travels back in time: what the sink reads is no newer     *)
(* than what state_buffer holds in the middle, and so on up to the source, *)
(* whatever the tick rates, the timeout callback and the scheduler do.     *)
(***************************************************************************)
THEOREM StatesTravelForward == RegionSpec => []StatesInOrder
<1>1. RegionInit => FieldsTypeOK /\ StatesInOrder
  BY FieldsInit DEF RegionInit, StatesInOrder, NewStateBuffer
<1>2. TypeOK /\ FieldsTypeOK /\ StatesInOrder /\ [RegionNext]_allVars
        => FieldsTypeOK' /\ StatesInOrder'
  BY FieldsStep, StatesInOrderStep
<1>3. QED
  BY <1>1, <1>2, RegionsImplementTasks, CycleTypeCorrect, PTL DEF RegionSpec

\* Only its own switch tick changes what a region reads.
LEMMA SnapshotStep ==
  ASSUME CycleInv, FieldsTypeOK, [RegionNext]_allVars, NEW l \in StateLinks,
         work_to_do[l.dst]
  PROVE  states'[l].extern = states[l].extern
<1>1. states \in [StateLinks -> StateBuffer]
  BY DEF FieldsTypeOK
<1>2. CASE SwitchRegion
  <2> DEFINE kind == SwitchKind(l, l.dst, Head(left))
  <2>1. states'[l] = SwitchState(kind, states[l]) /\ states[l] \in StateBuffer
    BY <1>1, <1>2, Zenon DEF SwitchRegion
  <2>2. Head(left) # l.dst
    BY <1>2, HeadIsQuiet DEF SwitchRegion, Switch
  <2>3. kind \in {"passive", "none"}
    BY <2>2, KindCases
  <2> HIDE DEF kind
  <2>4. QED
    BY <2>1, <2>3, SwitchStateFields
<1>3. ASSUME NEW w \in Workers, NEW k \in StateLinks, TickStateBuffer(w, k)
      PROVE  states'[l].extern = states[l].extern
  <2>1. PICK v : states' = [states EXCEPT ![k] = PullState(states[k], v)]
    BY <1>3, Zenon DEF TickStateBuffer
  <2>2. QED
    BY <1>1, <2>1 DEF PullState, StateBuffer
<1>4. ASSUME NEW w \in Workers,
             \/ StartRegion(w) \/ EndRegion(w)
             \/ \E k \in EventLinks : FireEvent(w, k) \/ TickEventBuffer(w, k)
      PROVE  UNCHANGED states
  BY <1>4, Zenon DEF StartRegion, EndRegion, FireEvent, TickEventBuffer, bufferVars
<1>5. CASE \/ (UserStep \/ StopStep \/ QuietLoopStep) /\ UNCHANGED bufferVars
           \/ UNCHANGED allVars
  BY <1>5, Zenon DEF bufferVars, allVars
<1>6. QED
  BY <1>2, <1>3, <1>4, <1>5, Zenon DEF RegionNext, RegionStep

(***************************************************************************)
(* A region computes on a snapshot: from its switch tick to the end of its *)
(* work the states it reads do not change, for any tick rates and any      *)
(* timeout callback, as long as assert(tasks.done_tasks.empty()) has not   *)
(* failed.                                                                 *)
(***************************************************************************)
THEOREM RegionsReadSnapshots == RegionSpec /\ []DoneTasksEmpty => Snapshot
<1>1. CycleInv /\ FieldsTypeOK /\ [RegionNext]_allVars
        => [\A l \in StateLinks :
              work_to_do[l.dst] => states'[l].extern = states[l].extern]_allVars
  BY SnapshotStep
<1>2. QED
  BY <1>1, EventInvariant, PTL DEF RegionSpec, Snapshot
--------------------------------------------------------------------------------
(* Accesses of the main loop and of the workers to the same buffer.        *)

(***************************************************************************)
(* The switch tick of a region and the work of the region at the other end *)
(* of a link use different fields of its buffer, unless the two have the   *)
(* same tick rate.                                                         *)
(***************************************************************************)
LEMMA FieldsApart ==
  ASSUME CycleInv, pc = "switch", left # <<>>,
         NEW l \in Links, NEW active \in {l.src, l.dst}, NEW w \in Workers,
         SameRate(l) /\ Head(left) \in {l.src, l.dst} => executing[w] \notin {l.src, l.dst}
  PROVE  SwitchFields(l, active, Head(left)) \cap WorkFields(l, executing[w]) = {}
<1> DEFINE t == Head(left)
<1>1. executing[w] # t
  BY HeadIsQuiet
<1>2. l.src # l.dst
  BY LinkType
<1>3. /\ SwitchKind(l, active, t) \in {"active_passive", "active", "passive", "none"}
      /\ SwitchKind(l, active, t) = "active_passive" => SameRate(l) /\ t \in {l.src, l.dst}
      /\ SwitchKind(l, active, t) \in {"active", "passive"} => t \in {l.src, l.dst}
  BY KindCases
<1>4. CASE SwitchKind(l, active, t) = "none"
  BY <1>4 DEF SwitchFields
<1>5. CASE SwitchKind(l, active, t) = "active_passive"
  BY <1>3, <1>5 DEF WorkFields
<1>6. CASE SwitchKind(l, active, t) \in {"active", "passive"}
  <2>1. CASE t = l.src
    BY <1>1, <1>2, <1>6, <2>1 DEF SwitchFields, WorkFields
  <2>2. CASE t = l.dst
    BY <1>1, <1>2, <1>6, <2>2 DEF SwitchFields, WorkFields
  <2>3. QED
    BY <1>3, <1>6, <2>1, <2>2, Zenon
<1>7. QED
  BY <1>3, <1>4, <1>5, <1>6, Zenon

(***************************************************************************)
(* "The switch tick serves as the synchronization point": between regions  *)
(* of different tick rates the main loop and the workers never use the     *)
(* same field of a connection buffer at the same time, for any timeout     *)
(* callback, as long as assert(tasks.done_tasks.empty()) has not failed.   *)
(***************************************************************************)
THEOREM DifferentRatesDoNotRace ==
  DifferentRatesSpec /\ []DoneTasksEmpty => []NoBufferRace
<1>1. RegionInit => DifferentRates
  BY DEF RegionInit, Init, DifferentRates, SameRate, InSeq
<1>2. DifferentRates /\ [RegionNext /\ DifferentRates']_allVars => DifferentRates'
  BY Zenon DEF DifferentRates, SameRate, allVars, vars, controlVars
<1>3. [RegionNext /\ DifferentRates']_allVars => [RegionNext]_allVars
  OBVIOUS
<1>4. CycleInv /\ DifferentRates => NoBufferRace
  BY FieldsApart, Zenon DEF NoBufferRace, DifferentRates, Links
<1>5. QED
  BY <1>1, <1>2, <1>3, <1>4, RegionCycleInv, PTL DEF DifferentRatesSpec, RegionSpec

(***************************************************************************)
(* With a timeout callback that shuts down, as store_exception does, the   *)
(* same holds for regions of any tick rates: regions of the same rate are  *)
(* switched together while none of them is executed.  (With one that lets  *)
(* the scheduler continue it fails for regions of the same rate: a late    *)
(* region may be executed while the other one is switched.)                *)
(***************************************************************************)
THEOREM ShuttingDownDoesNotRace ==
  ASSUME TRUE \notin CallbackReturns
  PROVE  RegionSpec /\ []DoneTasksEmpty => []NoBufferRace
<1>1. ASSUME CycleInv, OwnGroup, NoneSkipped, pc = "switch", left # <<>>,
             NEW w \in Workers, NEW l \in Links,
             SameRate(l), Head(left) \in {l.src, l.dst}
      PROVE  executing[w] \notin {l.src, l.dst}
  <2>1. PICK g \in Groups : InSeq(l.src, tasks[g]) /\ InSeq(l.dst, tasks[g])
    BY <1>1 DEF SameRate
  <2>2. ~InSeq(executing[w], tasks[g])
    BY <1>1, <2>1, GroupIsQuiet
  <2>3. QED
    BY <2>1, <2>2
<1>2. CycleInv /\ OwnGroup /\ NoneSkipped => NoBufferRace
  BY <1>1, FieldsApart, Zenon DEF NoBufferRace, Links
<1>3. Spec /\ []DoneTasksEmpty => [](OwnGroup /\ NoneSkipped)
  BY GroupsInvariant
<1>4. QED
  BY <1>2, <1>3, RegionCycleInv, RegionsImplementTasks, PTL

(***************************************************************************)
(* When the timeout callback lets the scheduler continue, the assertion    *)
(* never fails, and events cross region borders once and in order in every *)
(* run, none of them dropped, and every region reads snapshots.            *)
(***************************************************************************)
THEOREM ContinuingRegionsAreSafe ==
  ASSUME FALSE \notin CallbackReturns
  PROVE  RegionSpec => [](EventsOnceInOrder /\ ExternProcessed) /\ Snapshot
<1>1. Spec => []DoneTasksEmpty
  BY DoneTasksAreCleared
<1>2. QED
  BY <1>1, RegionsImplementTasks, EventsCrossOnce, NothingIsDropped, RegionsReadSnapshots, PTL

(***************************************************************************)
(* The first run: whatever the timeout callback returns, events cross      *)
(* region borders once and in order and none is dropped.                   *)
(***************************************************************************)
THEOREM FirstRunOfRegionsIsSafe ==
  RegionSpec => [](calls =< 1 => EventsOnceInOrder /\ ExternProcessed)
<1> DEFINE Inv == CycleInv /\ FieldsTypeOK /\ TickFunction /\ TicksOutstanding /\ EventInv
                    /\ EventsOnceInOrder
<1>1. RegionInit => Inv
  BY CycleInvInit, EventInit, FieldsInit
     DEF RegionInit, TickFunction, TicksOutstanding, EventsOnceInOrder, NewEventBuffer
<1>2. ASSUME TypeOK, calls =< 1 => Inv, (calls =< 1 => DoneTasksEmpty)',
             [RegionNext]_allVars
      PROVE  (calls =< 1 => Inv)'
  <2>1. [Next]_vars
    BY <1>2, ControlStep
  <2>2. calls' =< 1 => calls =< 1
    BY <1>2, <2>1, CallsStep DEF TypeOK
  <2>3. Inv /\ DoneTasksEmpty' => Inv'
    BY <1>2, <2>1, CycleInvStep, FieldsStep, TicksStep, EventInvStep, EventsInOrderStep
  <2>4. QED
    BY <1>2, <2>2, <2>3
<1>3. Inv => EventsOnceInOrder /\ ExternProcessed
  BY DEF EventInv
<1>4. QED
  BY <1>1, <1>2, <1>3, RegionsImplementTasks, CycleTypeCorrect, FirstRunIsClean, PTL
     DEF RegionSpec
================================================================================
