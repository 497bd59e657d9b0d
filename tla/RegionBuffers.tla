----------------------------- MODULE RegionBuffers -----------------------------
(***************************************************************************)
(* Regions that exchange events and states through connection buffers      *)
(* while cycle_control switches and schedules them.  A region is the       *)
(* periodic task that executes it.  buffer_factory connects every buffer   *)
(* to the switch ticks of its two regions and to the work tick of the      *)
(* passive one: the sink of an event link, the source of a state link.     *)
(*                                                                         *)
(* The events of a link are numbered in the order they are fired, and the  *)
(* values of a state in the order the source takes them.                   *)
(***************************************************************************)
EXTENDS CycleControl, ConnectionBuffer

CONSTANTS
  EventLinks, StateLinks,  \* the connections between different regions
  MaxTokens                \* bound: events fired on a link, values of a state

ASSUME LinkAssumption ==
  /\ EventLinks \subseteq {l \in [src : Tasks, dst : Tasks] : l.src # l.dst}
  /\ StateLinks \subseteq {l \in [src : Tasks, dst : Tasks] : l.src # l.dst}
  /\ MaxTokens \in Nat

VARIABLES
  events,     \* the event_buffer of each event link
  voids,      \* an event_buffer<void> beside it that sees the same operations
  states,     \* the state_buffer of each state link
  value,      \* the state each state link's source would return
  to_tick,    \* the buffers whose work tick each worker has yet to fire
  fired,      \* history: how many events were fired on each event link
  delivered   \* history: the events that arrived in the sink region

bufferVars == <<events, voids, states, value, to_tick, fired, delivered>>
allVars == <<vars, bufferVars>>

\* same_tick_rate: add_region hands a region to the group of its own tick rate.
SameRate(l) == \E g \in Groups : InSeq(l.src, tasks[g]) /\ InSeq(l.dst, tasks[g])

\* new_region registers a region when it creates it, so that construct_buffer only
\* ever joins two registered regions: before, the link has no buffer.
Connected(l) == {l.src, l.dst} \subseteq Registered

\* The buffers that construct_buffer connects to the work tick of region t.
TickedBy(t) ==
  {<<"event", l>> : l \in {k \in EventLinks : k.dst = t /\ Connected(k)}}
    \cup {<<"state", l>> : l \in {k \in StateLinks : k.src = t /\ Connected(k)}}

RegionInit ==
  /\ Init
  /\ events = [l \in EventLinks |-> NewEventBuffer]
  /\ voids = [l \in EventLinks |-> NewVoidBuffer]
  /\ states = [l \in StateLinks |-> NewStateBuffer(0)]
  /\ value = [l \in StateLinks |-> 0]
  /\ to_tick = [w \in Workers |-> {}]
  /\ fired = [l \in EventLinks |-> 0]
  /\ delivered = [l \in EventLinks |-> <<>>]
--------------------------------------------------------------------------------
(* Switch ticks, on the thread of the main loop.                           *)

\* The operation that construct_buffer connects to the switch tick of region t, for
\* a link whose active side is the given region.
SwitchKind(l, active, t) ==
  CASE Connected(l) /\ SameRate(l) /\ t = active -> "active_passive"
    [] Connected(l) /\ ~SameRate(l) /\ t = active -> "active"
    [] Connected(l) /\ ~SameRate(l) /\ t # active /\ t \in {l.src, l.dst} -> "passive"
    [] OTHER -> "none"

\* send_switch_tick: every buffer connected to the region is switched.
SwitchRegion ==
  /\ Switch
  /\ events' = [l \in EventLinks |->
                  SwitchEvents(SwitchKind(l, l.src, Head(left)), events[l])]
  /\ voids' = [l \in EventLinks |->
                  SwitchVoids(SwitchKind(l, l.src, Head(left)), voids[l])]
  /\ states' = [l \in StateLinks |->
                  SwitchState(SwitchKind(l, l.dst, Head(left)), states[l])]
  /\ UNCHANGED <<value, to_tick, fired, delivered>>
--------------------------------------------------------------------------------
(* The work of a region, on the thread of a worker.                        *)

\* periodic_task::operator() begins: work.fire() will reach each buffer once.
StartRegion(w) ==
  /\ TakeTask(w)
  /\ to_tick' = [to_tick EXCEPT ![w] = TickedBy(Head(waiting))]
  /\ UNCHANGED <<events, voids, states, value, fired, delivered>>

\* A node of the region fires an event on an outgoing connection.
FireEvent(w, l) ==
  /\ executing[w] = l.src /\ Connected(l)
  /\ fired[l] < MaxTokens
  /\ fired' = [fired EXCEPT ![l] = @ + 1]
  /\ events' = [events EXCEPT ![l] = Push(@, fired[l] + 1)]
  /\ voids' = [voids EXCEPT ![l] = VoidPush(@)]
  /\ UNCHANGED <<vars, states, value, to_tick, delivered>>

\* Work tick of an event buffer: send_events.
TickEventBuffer(w, l) ==
  /\ <<"event", l>> \in to_tick[w]
  /\ to_tick' = [to_tick EXCEPT ![w] = @ \ {<<"event", l>>}]
  /\ delivered' = [delivered EXCEPT ![l] = @ \o events[l].extern]
  /\ events' = [events EXCEPT ![l] = SendEvents(@)]
  /\ voids' = [voids EXCEPT ![l] = VoidSendEvents(@)]
  /\ UNCHANGED <<vars, states, value, fired>>

\* Work tick of a state buffer: it pulls the source's state, changed or not.
TickStateBuffer(w, l) ==
  /\ <<"state", l>> \in to_tick[w]
  /\ to_tick' = [to_tick EXCEPT ![w] = @ \ {<<"state", l>>}]
  /\ \E v \in {value[l], value[l] + 1} \cap (0 .. MaxTokens) :
       /\ value' = [value EXCEPT ![l] = v]
       /\ states' = [states EXCEPT ![l] = PullState(@, v)]
  /\ UNCHANGED <<vars, events, voids, fired, delivered>>

\* Mutant of EndRegion: the task ends before the work tick has reached every buffer.
EndRegionEarly(w) == FinishTask(w) /\ UNCHANGED bufferVars

\* The work tick has reached every buffer and every node of the region.
EndRegion(w) ==
  /\ to_tick[w] = {}
  /\ FinishTask(w)
  /\ UNCHANGED bufferVars

RegionStep(w) ==
  \/ StartRegion(w)
  \/ \E l \in EventLinks : FireEvent(w, l) \/ TickEventBuffer(w, l)
  \/ \E l \in StateLinks : TickStateBuffer(w, l)
  \/ EndRegion(w)

RegionNext ==
  \/ (UserStep \/ StopStep \/ QuietLoopStep) /\ UNCHANGED bufferVars
  \/ SwitchRegion
  \/ \E w \in Workers : RegionStep(w)

RegionSpec == RegionInit /\ [][RegionNext]_allVars

\* The links join regions of different tick rates only.
DifferentRates == \A l \in EventLinks \cup StateLinks : ~SameRate(l)
DifferentRatesSpec == RegionInit /\ [][RegionNext /\ DifferentRates']_allVars
--------------------------------------------------------------------------------
(* Properties.                                                             *)

Count(b) == [intern |-> Len(b.intern), middle |-> Len(b.middle),
             extern |-> Len(b.extern), read |-> b.read]

(***************************************************************************)
(* Every variable has its type, and work ticks are outstanding only for    *)
(* the region that the worker executes.                                    *)
(***************************************************************************)
BuffersTypeOK ==
  /\ events \in [EventLinks -> [intern : Seq(Nat), middle : Seq(Nat),
                                extern : Seq(Nat), read : BOOLEAN]]
  /\ voids \in [EventLinks -> [intern : Nat, middle : Nat, extern : Nat, read : BOOLEAN]]
  /\ states \in [StateLinks -> [intern : Nat, middle : Nat, extern : Nat]]
  /\ value \in [StateLinks -> Nat]
  /\ \A w \in Workers : to_tick[w] \subseteq TickedBy(executing[w])
  /\ fired \in [EventLinks -> Nat]
  /\ delivered \in [EventLinks -> Seq(Nat)]

(***************************************************************************)
(* Events cross a region border exactly once and in the order they were    *)
(* fired, for every pair of tick rates and every interleaving of the two   *)
(* regions with the main loop: what arrived, followed by what the three    *)
(* buffers hold, is what was fired.                                        *)
(***************************************************************************)
EventsOnceInOrder ==
  \A l \in EventLinks :
    delivered[l] \o events[l].extern \o events[l].middle \o events[l].intern
      = [i \in 1 .. fired[l] |-> i]

(***************************************************************************)
(* event_buffer<void> counts what event_buffer<T> stores, although it      *)
(* overwrites middle_buffer where the general buffer swaps it.             *)
(***************************************************************************)
VoidCounts == \A l \in EventLinks : voids[l] = Count(events[l])

(***************************************************************************)
(* "Switching the outgoing buffers means the previous value in             *)
(* extern_buffer has already been processed": whenever the sink region is  *)
(* done, its work tick has emptied extern_buffer, so that                  *)
(* switch_passive_buffers drops no event.                                  *)
(***************************************************************************)
ExternProcessed ==
  \A l \in EventLinks :
    ~SameRate(l) /\ ~work_to_do[l.dst] => events[l].extern = <<>>

(***************************************************************************)
(* The buffer fields that the switch tick of a region reads or writes on   *)
(* the main-loop thread, and those that the work of a region reads or      *)
(* writes on a worker.  No lock protects them.                             *)
(***************************************************************************)
SwitchFields(l, active, t) ==
  CASE SwitchKind(l, active, t) = "active_passive" -> {"intern", "extern"}
    [] SwitchKind(l, active, t) = "none" -> {}
    [] OTHER -> IF t = l.src THEN {"intern", "middle"} ELSE {"middle", "extern"}

WorkFields(l, t) ==
  CASE t = l.src -> {"intern"} [] t = l.dst -> {"extern"} [] OTHER -> {}

(***************************************************************************)
(* "The switch tick serves as the synchronization point": while the main   *)
(* loop sends the switch tick of a region, no worker executes a region     *)
(* that accesses the same field of a connection buffer.                    *)
(***************************************************************************)
NoBufferRace ==
  pc = "switch" /\ left # <<>> =>
    \A w \in Workers :
      /\ \A l \in EventLinks :
           SwitchFields(l, l.src, Head(left)) \cap WorkFields(l, executing[w]) = {}
      /\ \A l \in StateLinks :
           SwitchFields(l, l.dst, Head(left)) \cap WorkFields(l, executing[w]) = {}

(***************************************************************************)
(* A state never travels back in time: the sink sees a value no newer than *)
(* the one in the middle, and so on up to the source.                      *)
(***************************************************************************)
StatesInOrder ==
  \A l \in StateLinks :
    /\ states[l].intern <= value[l]
    /\ IF SameRate(l)
         THEN states[l].extern <= states[l].intern
         ELSE states[l].extern <= states[l].middle /\ states[l].middle <= states[l].intern

(***************************************************************************)
(* A region computes on a snapshot: from its switch tick to the end of its *)
(* work, the states it reads from other regions do not change, whatever    *)
(* the source region and the main loop do meanwhile.                       *)
(***************************************************************************)
Snapshot ==
  [][\A l \in StateLinks :
       work_to_do[l.dst] => states'[l].extern = states[l].extern]_allVars
================================================================================
