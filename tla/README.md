# A verification of flexcore

flexcore is a C++ library for cyclic dataflow programs. Nodes are grouped into
*regions*; a region is executed as one *periodic task* of a fixed tick rate
(10 ms, 100 ms or 1 s) on a pool of threads. Regions exchange events (pushed by
the source) and states (pulled by the sink) through buffers that a *switch tick*
moves forward and a *work tick* empties or fills. Within a region nodes are joined
by *connections*, written `source >> function >> sink`. This directory holds TLA+
models of flexcore, from its threads to its nodes, the TLC configurations that
check them on small instances, and TLAPS proofs.

## The system and its parts

| part | source (below `src/flexcore/`) | role |
|---|---|---|
| scheduler interface, `parallel_scheduler`, `blocking_scheduler` | `scheduler/` | execute jobs on threads, or at once |
| `cycle_control`, `periodic_task`, main loops | `scheduler/cyclecontrol.*` | find the due tasks each tick, switch them, queue them, notice late ones |
| virtual clock | `scheduler/clock.*` | time as the main loop advances it |
| `parallel_region`, `tick_controller` | `scheduler/parallelregion.*` | the two ticks of a region |
| connection buffers, `node_aware` | `extended/ports/` | buffers between regions and how they are connected to the ticks |
| `infrastructure` | `infrastructure.*` | owns scheduler, regions, graph and nodes |
| pure ports, proxies, mux ports | `pure/` | connecting, firing and breaking connections |
| connections, connectables, traits | `core/` | composing functions at compile time |
| nodes | `extended/nodes/` | buffers, gates, switches, watches, mergers |
| node tree, graph, visualization | `extended/` | ownership, description of the program |
| settings, logging, serialisation, ranges | `utils/`, `range/` | support code |

A cycle works as follows. The main-loop thread reads the virtual clock and
advances it. For each group of tasks (fast, medium, slow) that is due it asks
every task whether it is done; a late task goes to the timeout callback. It sends
the switch tick to the tasks that are done and then queues their work ticks on
the scheduler. Workers execute them while the main loop sleeps, or waits for
them, until the next tick.

`PROJECT.json` lists every part with its status, the hazards of the code at
their lines, and the source lines each definition stands for.

## Modules

| module | models | remarks |
|---|---|---|
| `TaskQueue` | what a scheduler promises | abstract: a queue, what each worker executes, open / closing / closed |
| `ParallelScheduler` | `parallel_scheduler` | mutex sections are single steps; `notify_one` and `notify_all` are steps of their own |
| `CycleControl` | `cycle_control`, `periodic_task`, main loops | extends `TaskQueue`, so the workers are the abstract ones |
| `CycleControlProofs` | | theorems about `CycleControl` |
| `TaskDeadline` | deadlines of `wait_until_done` | extends `CycleControl` with wall time as ages |
| `ConnectionBuffer` | `event_buffer<T>`, `event_buffer<void>`, `state_buffer<T>` | operators on records |
| `RegionBuffers` | regions, their links, `buffer_factory` | composes `CycleControl` and `ConnectionBuffer` |
| `RegionBuffersProofs` | | theorems about `RegionBuffers`; extends `CycleControlProofs` |
| `PortConnections` | what pure ports promise | abstract: which active port is connected to what |
| `SequenceRemoval` | what a circuit breaker leaves of a list of handlers | `Without`, a recursive function |
| `SequenceProofs` | | induction over numbers; what `Without` and `FlattenSeq` return |
| `Ports` | `event_source`, `event_sink`, `state_sink`, `state_source`, `active_port_base` | ports are addresses, and addresses are used again |
| `PortsProofs` | | theorems about `Ports`, among them its refinement of `PortConnections` |
| `Connecting` | `operator>>`, `connect`, proxies, mux and merge ports, traits | an expression is reduced pair by pair, in every order |
| `ChainProofs`, `ConnectingProofs` | | lemmas about expressions without mux and merge ports; theorems about `Connecting` |
| `Nodes` | `extended/nodes/`, arithmetic connectables, clamp and tee | `Fire` and `Get` are the call trees of `fire` and `get` |
| `NodeTree` | `base_node`, `connection_graph`, `visualization` | forest, graph and drawing |
| `NodeTreeProofs` | | theorems about `NodeTree` |
| `Settings` | `utils/settings/` | a writer thread and the thread that fires switch ticks |
| `VirtualClock` | `scheduler/clock.*` | load and store are two steps |
| `SharedMemoryProofs` | | theorems about `ParallelScheduler`, `Settings` and `VirtualClock` |
| `MCNodes`, `MCConnecting` | | a network of all nodes; a set of expressions |
| `MCPortMoves` | | `Ports` with a record of the connected ports that were moved |
| `MCComponents` | | `Connecting`, `Nodes`, `NodeTree`, `Settings`, `VirtualClock`, one at a time |
| other `MC...` | | instances for TLC |

How state and actions correspond to the code:

* **ParallelScheduler.** A worker is `"test"` when it is about to evaluate the
  wait loop's condition with the mutex, `"waiting"` on the condition variable,
  `"run"` inside a job, `"exited"` after `return`. `AddTask` and `NotifyOne` are
  the two halves of `add_task`; `Stop`, `NotifyAll` and `Join` are the three of
  `stop`, which the destructor calls again. Spurious wake-ups are possible at any
  time. `added` and `popped` are histories.
* **CycleControl.** `pc` is the position of the thread that executes `work()`
  (the main loop, or a user who calls `work()` directly), `agenda` the groups still
  to run and `left` the tasks the current loop has yet to visit. The three
  loops of `run_periodic_tasks` are the values `"check"`, `"switch"` and
  `"queue"`; `"recheck"` is between the callback and the second `done()`. The
  user's thread is in `user`. A task is added with any of the three rates. The
  asserts of the code are not guards: where one is broken the model goes on as a
  build with `NDEBUG` does. The preconditions `assert(!running)` of `start` and
  `set_main_loop` are guards.
* **TaskDeadline.** `wait_until_done` reads `work_start` once, before it waits (`BeginWait`),
  and the wait ends with a timeout only when `work_start + timeout` has passed.
* **RegionBuffers.** A switch tick switches all buffers of the region in one
  step; a region's work is a sequence of steps on a worker (fire an event, tick
  one buffer) that interleave with everything else. Since the code takes
  no lock, the order is only meaningful where no field is accessed from two
  threads at once. That is the invariant `NoBufferRace`, which the passing run
  of this module includes. A buffer exists once both of its regions do (`Connected`), and
  a region is registered with the scheduler where it is made
  (`region_factory::new_region`). `voids` carries an `event_buffer<void>`
  beside every `event_buffer<T>`.
* **Ports.** `handlers` and `hashes` are the two vectors of
  `multiple_handler_policy`, or the function and hash of `single_handler_policy`.
  `callback[a]` is the shared function an active port owns, and `bound` the `this`
  it captures, which a move rebinds. A passive port's `breakers` are weak
  references: `Locked` says whether one can be locked. The destructor of a passive
  port is one step per breaker. The refinement to `PortConnections` lets the
  connections end when that destructor begins. Asserts are not guards.
* **Connecting.** `values` is what is left of the expression; each step replaces two
  neighbours by what `operator>>` returns for them and records the connections it
  made. Overloads that do not compile are not enabled. That includes the name lookup:
  `mux(...) >> function` calls `mux_from_tuple`, which is declared later and found only
  through the types of the results (`NamesFc`), so with the ports of nodes and with connections, and not
  with pure ports and plain functions. `lost` counts the proxies whose destructor would assert. The code follows nested connections by
  recursion (`get_source`, `get_sink`, the call operator, `detail::apply`); `End` and
  `LeavesOf` descend one level per round instead, as often as the expression is long, since
  a value that was made of n operands is less than n deep.
* **Nodes.** A step is one call from outside: an input changes, an event is fired, a
  tick comes or a port is read. It runs to its end, or to an exception, since a
  region is single-threaded. `fired`, `delivered` and `fresh` are histories.
* **NodeTree.** A constructor that makes children is a `BeginMakeChild` and an
  `EndMakeChild` with other steps between them, or `ConstructorThrows`. The graph
  is entered by `NewPort` and `Connect`, and by nothing when a node is erased.
* **Settings.** Every access to the unsynchronised members `buffer` and `changed` of a
  forwarder is a step, in program order. Values are indivisible. `Construct` is the constructor
  of `setting`, which registers without a region. `RegisterWithRegion` is a call of the other
  overload (`settings_backend.hpp:259`) by somebody who has a region: nothing in `src/` calls
  it, though its comment says that the constructor of `fc::setting` does.
* **VirtualClock.** The main loop is at `clockAt` within `advance`; `set_time` is called
  by another thread at any moment.

## Runs

| run | instance | shows |
|---|---|---|
| `parallel_scheduler` | 2 workers, 2 clients, 3 jobs, one of them empty | queue order, no lost wake-up, `stop()` at any moment, refinement of `TaskQueue` with its fairness |
| `cycle_control` | 2 workers, 2 tasks of any rates, callback returns either value, 3 calls of start/stop/work, no work with `done_tasks` left over | `done()` is exact, late tasks are never switched, `done_tasks` is empty at each entry, a task is never in the scheduler twice, every task keeps running; `stop()` returns even if tasks hang and reports what is left |
| `cycle_control_restart` | callback returns false, 3 calls | **violated**: `done_tasks` is not empty after a shutdown by timeout |
| `task_deadline` | 1 task, afap loop, ticks of 2, 4 and 8 units | **violated**: a task that was just queued is reported late |
| `region_buffers` | 2 regions of any rates, an event and a state link, 2 tokens each, callback returns either value (between equal rates only false) | events once and in order, states in order, no race, the void buffer counts right, a region's inputs are stable during its cycle; the same past late regions |
| `region_buffers_race` | callback returns true, any rates | **violated**: with equal rates a switch tick races with a late region |
| `ports` | 2 ports of each kind, 4 kinds, 2 handlers per port | no handler outlives its port, every breaker finds its handler, refinement of `PortConnections` |
| `ports_address_reuse` | 1 event source, 2 event sinks, and a lambda connected from the address of a later sink | **violated**: a destroyed port is still called |
| `ports_moved` | 2 event sources, 2 event sinks | **violated**: the partner of a moved port does not dangle |
| `proxies_lost` | the expressions of `MCConnecting` | **violated**: proxies are destroyed unconnected at a mux port |
| `components` | see below | eleven properties of five modules |
| `collector_unread_tick` | the network of `MCNodes` | **violated**: events that are not read for one tick |

`components` explores one component at a time; they share no state:

* *expressions*: chains of up to five values between active and passive ports, with
  named and unnamed functions, and expressions with mux and merge ports, and every order in which the
  parentheses combine them. While more than one value is left, some neighbours can be
  combined, and in the end a token takes the path that was written, once
  (`PathsAsWritten`); the graph and the buffers follow that path
  (`GraphAndBuffersFollowPaths`).
* *events* and *states*: a network with every node. What arrives is what was fired at
  the selected port of an open gate (`SelectedEventsArrive`); a collector's reader
  misses nothing and sees nothing twice (`BuffersKeepEvents`); a state that changed has gone
  through the cache to the node behind it after two work ticks that did not throw
  (`CacheCatchesUp`).
* *tree*: the root and two nodes, three edges, three regions and two colours. `VerticesInStep`,
  `EdgesEndAtDrawnPorts`, and `ColoursTellRegionsApart`: a drawing shows the region of every
  node of the forest, each in a colour of its own as long as there are colours enough.
* *settings*: six settings, among them one whose json entry cannot be read and two
  with forwarders. `SettingsFulfilConstraints`, `AcceptedWritesArrive`.
* *clock*: five ticks, two to the second, times before and after the epoch.
  `ClocksAdvanceTogether`.

### The disagreements

1. `run_periodic_tasks` leaves `done_tasks` filled when it returns early
   (`cyclecontrol.cpp:129`), and asserts that it is empty when it is entered
   (`cyclecontrol.cpp:121`). It shows after `stop()` and `start()`, or a direct
   `work()`. In `cycle_control` this does not happen (`CleanCall`); `cycle_control_restart` lets it.
2. `wait_until_done` computes its deadline from `work_start`
   (`cyclecontrol.hpp:91`), which still is the previous cycle's while the task
   waits in the queue. With the default callback the afap and timewarp loops can
   shut down although nothing is late, in the extreme in their first cycle.
3. Between regions of equal rate one switch tick accesses both ends of the
   buffer (`node_aware.hpp:58`). That is sound as long as both regions are done,
   which the default callback guarantees by shutting down, and unsound with a
   callback that continues.
4. `add_handler` stores the hash of an address also for a connectable that is
   moved into the handler (`port_utils.hpp:147`). A port that is constructed at that address
   later and connected to the same event source has the same hash; its breaker
   removes the older handler and the destroyed port is still called.
5. `swap_buffers` of `list_collector<swap_on_tick>` inserts into `buffer_state` at an
   iterator of `buffer_collect` when the state was not read since the last tick
   (`buffer.hpp:88`), although the events should be "available after the next swap
   tick" (`buffer.hpp:40`).
6. "active_connection_proxy was destroyed but not connected."
   (`pure/detail/active_connection_proxy.hpp:92`) is asserted for proxies that were copied or moved for
   the connections of a mux port. `source >> function >> mux(a, b)` moves the proxy into
   a mux port of its own (`mux_ports.hpp:266`) and connects copies of it (`:225`), so two are
   destroyed unconnected. `mux(a, b) >> function` moves each proxy it makes into a tuple and from
   there into a mux port (`:244`, `:284`), so two ports lose four. The connections
   are right all the same (`PathsAsWritten`); without a mux port no proxy is lost
   (`ChainsLoseNoProxy`).
7. "If a port is moved after it has been connected, the partner of the connection is left with
   a dangling reference." (`docs/knownpitfalls.md:6`) is not what the code does. The move constructor of
   an active port rebinds its callback (`port_utils.hpp:128`), a moved-from passive port breaks its
   connections when it is destroyed, and `tests/pure/test_events.cpp:275` and
   `tests/pure/test_state_sinks.cpp:69` move connected ports. `NoDangling`
   and `ImplementsConnections` are about the code and thus say the opposite of that page.

Three more are seen from the code and have no run of their own:

* `docs/ports.md:45` says that connecting a `state_sink` more than once "invokes undefined
  behaviour"; `single_handler_policy` replaces the first connection, as its comment
  explains (`port_utils.hpp:57-66`) and `PortConnections` specifies.
* `on_changed` "does not fire the first time the state is querried" (`generic.hpp:204`); it
  compares the first state with `data_t()` (`generic.hpp:211`) and fires if they differ.
* a merge port "can't be used with node aware ports" (`mux_ports.hpp:318-320`). The static_assert
  (`mux_ports.hpp:147`) sees direct ports only: with a connectable in between the expression compiles,
  and a connection across regions has no buffer. `GraphAndBuffersFollowPaths`
  states just that.

Properties that hold with an exception state the exception, and these are worth
knowing:

* `AcceptedWritesArrive`: a value is not forwarded until the next write if both of its
  stores, to `buffer` and to `changed`, fall between the call of the setter and the reset
  of `changed` in `forward_if_changed` (`settings_backend.hpp:100`).
* `ClocksAdvanceTogether`: a `set_time` between the load and the store of the system
  clock's `advance` (`clock.cpp:46`) is overwritten.
* `CacheCatchesUp` is about a cache that only the work tick reads. A state that changes and
  changes back between two ticks would stay in a cache that somebody read meanwhile, since
  `on_changed` never sees it.
* `VerticesInStep`: `clear_graph` clears `dataflow_graph` only (`graph.cpp:188`), so that
  vertices and `vertex_map` differ afterwards.
* `EdgesEndAtDrawnPorts`: edges of an erased node are still drawn, and two named
  connectables in a row fail the assertion `visualization.cpp:56`.
* `ColoursTellRegionsApart`: the index starts again with each drawing
  (`visualization.cpp:207`), so that a region that is new in the second drawing may get
  the colour of an old one.
* `GraphAndBuffersFollowPaths`: a region of the model is its own name, so it does not
  tell what happens when two regions have one name, which `same_region` compares
  (`node_aware.hpp:22`).

### Bounds

`MaxCalls` bounds the calls of `start`, `stop` and `work`; within one call
of `start` the loop runs for ever. With the last of these calls no more exceptions are stored
(`FewExceptions`): a callback that shuts down after that only repeats what an earlier call has
shown, and the callback may still continue. `MaxTokens` bounds the events per link and the
values of a state: two are enough to reorder, lose or duplicate one.
Ticks of 1, 2 and 4 keep all combinations of due groups, and virtual time is kept
modulo the slow tick, since the code only compares it modulo a tick. Two tasks
give every pair of rates and two tasks in one group; two workers let
both execute at once. Jobs are told apart, not counted: three cover a queue that
is longer than the pool. Two ports of a kind, two handlers each and three callbacks
cover a port connected twice to the same peer, to two peers, and to the successor of a
destroyed one at the same address. Two fired tokens (`MaxEvents`) distinguish
order, loss and repetition, and are one more than a `hold_n` of capacity 1 keeps. Two nodes
below the root are siblings or parent and child, and with the root they
can lie in three regions, one more than there are colours. `CHECK_DEADLOCK FALSE` stands where the user may stop
calling and the program then rests.

### Fairness

Threads that can run do run: workers, the thread in `stop()`, the main loop and
a client between push and notify. A condition variable's wake-up is never assumed
to be spurious. That jobs terminate is assumed where a property is about tasks
(`QueuedTaskRuns`, `RegionsKeepRunning`, and `StopReturns` of the pool, which joins
its threads; for `RegionsKeepRunning` it is the premise `WorkFairness`), and not for
`StopReturns` of `cycle_control`, whose waits have deadlines.

## Proofs

`SharedMemoryProofs` proves about `ParallelScheduler`, for all finite sets of workers and clients
and any set of tasks (`PoolAssumption`):

* `TypeCorrect`, by induction over the actions.
* `QueueIsFifo`: `added = popped \o task_queue` is inductive together with the types;
  it needs two lemmas on sequences, for the push (`AppendConcat`) and the pop (`MoveHead`).
* `StopLeavesNobodyAsleep`: `StopWakesAll` is not inductive, since a worker could
  begin to wait after `notify_all`. `StopInv` adds that `do_work` is false from the
  moment `stop()` has set it, which disables `Wait`, and that no worker has
  returned while it is true.
* `WakeupsAreNotLost`: `NoLostWakeup` counts. A push adds a task and a
  notification; a notification that wakes somebody turns into a worker at
  `"test"`; a pop removes a task and at most one such worker; and whoever begins to
  wait has seen an empty queue. The lemmas `OneMoreTests` and
  `OneLessTests` carry the cardinalities.
* `PoolImplementsQueue`: each step is a step of `TaskQueue` or a stutter, under the
  mapping of `Q`.

`CycleControlProofs` proves, for any workers, tasks, tick rates, main loops and
number of calls (`QueueAssumption`, `CycleAssumption`), `CycleTypeCorrect` for every
callback. The types need one more fact, `StopAlone`: `stop()` waits for tasks
only after it has joined the main loop, so that it never touches `left` while
`run_periodic_tasks` uses it.

Everything else rests on one assertion of the code, `assert(tasks.done_tasks.empty())`
(`cyclecontrol.cpp:121`), which `cycle_control_restart` shows to fail. The theorems
therefore have two parts. The first is what follows as long as the assertion has not
failed, `Spec /\ []DoneTasksEmpty => ...`, for every callback:

* `RegionsAreSingleThreaded`, `DoneIsExact` and `SwitchesBetweenCycles`; the last one is
  the second assertion of `run_periodic_tasks`, which the first one thus implies;
* `StopForgetsNothing`: what is still queued or executed when `stop()` returns was
  reported to the callback. Its invariant `OnlyRegistered` says that only registered tasks
  reach the scheduler; the three passes of `stop()` over the groups then cover them all.

The second is when the assertion holds:

* `DoneTasksAreCleared`: always, if the callback lets the scheduler continue;
* `FirstRunIsClean`: before the second call of `start`, `stop` or `work`, for any callback;
* `OnlyDirtyRestartsFail`: as long as `start` and `work` are not called with tasks left
  in `done_tasks` (`CleanRestarts`), for any callback and any number of restarts.

`ContinuingSchedulerIsSafe`, `FirstRunIsSafe` and `OnlyDirtyRestartsFail` put the two parts
together, so that the condition is gone. The inductive invariant is `CycleInv`:

* `RegisteredOnce`: a task is in one group, once. Hence no task occurs twice in
  `left` when a group is entered.
* `OthersEmpty`: `done_tasks` is filled only for the group that is being run. A callback that
  shuts down breaks it; then `Ended` holds, the main loop has returned or does so
  before it works again.
* `LoopsInv` and `FirstLoopBound`: what each of the three loops knows of `done_tasks`
  and of the tasks it has yet to visit. In the first loop the two have no
  task in common and together are no longer than the group; in the second the
  tasks yet to switch are still done.
* `SwitchedIsQuiet`: a task that is switched and not queued yet is not in the
  scheduler. `Queue` needs it to keep `SingleThread`.
* `SingleThread` and `DoneMeansQuiet` need each other. A worker that ends a task resets
  its flag, which is right only because no other worker has the task; and the
  task is queued only once because its flag was found reset.

The steps of `cycle_control` and its workers on the scheduler are the actions of `TaskQueue`
themselves, which `PoolImplementsQueue` shows `parallel_scheduler` to implement.

`RegionBuffersProofs` proves every safety property of `RegionBuffers` for any regions,
links, workers, events, rates and callbacks. `RegionsImplementTasks` (`RegionSpec => Spec`)
carries the theorems about `CycleControl` over. Without a condition hold
`BuffersTypeCorrect`, `VoidBuffersCount` and `StatesTravelForward`. As long as the assertion above has
not failed hold

* `EventsCrossOnce` and `NothingIsDropped`. Their invariant `EventInv` follows the fields of
  `event_buffer` through a cycle of the sink. What the passive switch took from
  the middle buffer is not there any more (`MiddleIsRead`), so that the active switch may
  overwrite it; once the work tick has reached a buffer its extern field stays empty until
  the work is over (`TickEmptiesExtern`), so that the next passive switch finds it
  processed; and nothing is in a buffer before both regions exist (`UntouchedBefore`).
* `RegionsReadSnapshots`: the states a region reads are written by its own switch tick
  only, which `SwitchedIsQuiet` keeps away from its work.
* `DifferentRatesDoNotRace`, for links between regions of different rates. Each end of a
  buffer is then switched by its own region.
* `ShuttingDownDoesNotRace`, for links of any rates and a callback that shuts down
  (`TRUE \notin CallbackReturns`). It needs to know that the second loop is
  entered only when no task of the group was late: `OwnGroup` and `NoneSkipped`. With a
  callback that continues and equal rates the statement is false (`region_buffers_race`).

`ContinuingRegionsAreSafe` and `FirstRunOfRegionsIsSafe` discharge the condition.

`SharedMemoryProofs` proves about `Settings`, for any settings, facades, constraints and values
(`SettingsAssumption`), `ConstraintsHold` and `WritesArrive`. Neither is inductive.
`SettingsInv` adds:

* the types, and that `tickLeft` is not empty while the tick thread is inside a
  handler, so that its head is a forwarder of a constructed setting;
* that `buffer` holds a valid value whenever `changed` is set, a write is in
  progress or the tick is about to call the setter. The default value of `data_t`, which
  need not be valid, is never forwarded for this reason only;
* that once the setter was called the setting holds the last accepted value, unless a
  write began afterwards (`LagsBehind`). Without it nothing excludes that the reset of
  `changed` discards a value that was never forwarded.

`PortsProofs` proves `NoHandlerDangles`, `BreakersFindHandlers`, `PortsTypeCorrect` and
`PortsImplementConnections` for any ports, connections and moves. They assume `Separate`: no connected lambda has had
the address of a passive port, which is the condition that `ports_address_reuse`
drops. The inductive invariant `PortsInv` says, beside the types:

* `Paired`: handlers and hashes have the same length, and the hash of a handler that calls
  a port is that port's address. With `Separate` the search by hash in
  `remove_handler` hence finds handlers of the dying port only.
* `Owned`: a callback is bound to the port that owns it, so that no two ports share one,
  and a port without callback has no handlers.
* `Matching`: an event source has exactly as many handlers that call a passive port as this
  port has breakers for its callback. A weaker statement (at least one breaker)
  is not inductive, since two ports can be connected twice and each breaker removes
  one handler. For a state sink one breaker is enough, since it has one handler.
* a port with breakers exists. With `Matching` this is `NoDangling`.

The lemmas `CountAppend`, `CountRemoveAt` and `CountTail` say how `push_back`, `erase` and the
loop of the destructor change a count; `CountRemoveAt` needs a bijection between the
places before and after.

`PortsImplementConnections` is the refinement of `PortConnections`. All connections of a
passive port end when its destructor begins (`BeginDestroy` is `LinkDestroy`), and the
breakers that run afterwards must not be seen: `CallBreakerStutters` shows that the
handler a breaker erases is one of the dying port, by `Paired` and `Separate`, and that the
order of the others stays. `EndDestroyStutters` shows that no handler of the port is left
then, which is `Matching` without breakers. `QuietLinks` says that the mapping is the identity
while no port is being destroyed, which is when all other actions happen.

The mapping removes an element from a sequence with `Without`, a recursive function. That
the recursion defines a function, and which, is an induction over the length of the
sequence. `SequenceProofs` does it with sets of numbers: each set of naturals that
is not empty has a least member (`LeastNumber`), hence one that contains 0 and with n also n + 1
contains them all (`NumberInduction`). `WithoutNone` and `WithoutRemoveAt`, which the
refinement cites, follow from the recursion.

`SharedMemoryProofs` proves `ClocksInStep` of `VirtualClock`, for any `Second`, `Times` and `MaxTicks`
(`ClockAssumption`). `ClockInv` adds that what `advance` has loaded is still the value of the
clock unless `set_time` came in between, and that a time was not set in the future of
the steady clock. The seconds follow from the lemma `DivideSum`.

`NodeTreeProofs` proves for any number of nodes, edges, regions and named connectables

* `EdgesAreDrawnWithPorts`, from `PortsInv`: an edge ends at entered ports, and a port belongs
  to a node that was once in the forest or is a named connectable.
* `VerticesStayInStep`, from `VertexInv`. The lemmas follow the code outwards: `AddVertex` appends
  one vertex whose number is its descriptor (`AddVertexKeeps`); hence `add_edge` finds both
  vertices (`AddConnectionKeeps`); hence the loop over a path adds exactly the nodes of
  the path (`AddConnectionsKeeps`). The loop is a recursive function, and `Unrolled`
  exhibits it for the paths that `TreeNext` connects, of two to four connectables.
* `RegionsAreToldApart` (`ColoursTellRegionsApart`), from `TreeInv` and `ColourInv`. `TreeInv` says
  that the parent of a node is in the forest and older than the node, which
  `insert`, a constructor that throws and `erase` keep. `Preorder` is the recursion of
  `print_subgraph`, and it is `TreeInv` that makes it terminate: `WalksExist` builds the walks from
  the youngest node to the oldest. `WalkClosed` says that a walk which
  visits a node visits its children; the least node it does not visit would hence have an
  unvisited parent, so that it visits all (`PreorderVisitsAll`). `GetColor` and
  `ColourNodesTells` then follow `get_color` along the walk: the colours it has handed out
  in this drawing are those below its index.

`ConnectingProofs` proves three properties of `Connecting` for every chain (`IsChain`): one
active port, any number of functions, named or not, and a passive port, of any length and in any
regions. The theorems have no assumption on the constants; an expression that is no chain is only
model-checked.

* `ChainsAreAsWritten`: `operator>>` is associative. However the parentheses stand, the values
  can be combined until one connection is made, and its path is the expression.
* `ChainsAreDrawnAndBuffered`: edges and buffers are those of the written path.
* `ChainsLoseNoProxy`: the assertion of `~active_connection_proxy` holds; `lost` stays 0.

The properties say little of the values on the way. `ChainInv` says what each value stands
for: a part of the expression, from one place to another, the parts of neighbours
adjoining. Since a value is a connection of connections of any depth, "stands for" is a
recursive notion. The invariant avoids the recursion with a `Certificate`, a set of triples of a value and
the two ends of its part, that contains for each connection the triples of its two operands and
for each proxy the triple of what it has collected. A step adds one triple to it
(`CertificateGrows`, `ConnectNeighbours`). `ChainProofs` has the lemmas about certified values, up to
what `connect` makes of two of them; the invariant and the theorems are in `ConnectingProofs`. The argument
has these parts:

* `LeavesOfPart` and `EndOfPart`: the leaves of a certified value are its part of the expression,
  in order, and its ends are the ends of the part. Opening a value once makes the longest
  part shorter (`GoodOpen`), so that as many rounds as the expression has places are enough.
* `PassiveTraits`: the traits that select an overload of `connect` depend on the part only, and
  `ConnectEvent`, `ConnectState` and `ConnectPassive` go through the overloads: passive values are joined,
  an active port and a part make a proxy or, if the part reaches the other end, the
  connection.
* `ChainGoesOn`: of two values or more some two neighbours match an overload.
* `ChainDescribed`: what the expression describes, read without its parentheses, is the
  one path from end to end; `ChainConnected` compares it with what was connected.

### Only model-checked

* Liveness (`QueuedTaskRuns`, `RegionsKeepRunning`, both `StopReturns`) and the fairness part
  of the refinements.
* `TaskDeadline` and `MCPortMoves`, whose runs show a violation.
* Expressions with mux and merge ports. Their values contain lists of values, so that a
  certificate would need one part of the expression for each branch.
* The properties of `Nodes`. They are about one network and one sequence of calls, and follow
  the call trees of `fire` and `get` with recursive operators, which the prover does not handle.

## Not modelled

* `infrastructure` only delegates: `add_region` is `AddTask`, the destructor `Stop` and
  `CloseScheduler`, `iterate_main_loop` is `LastException`. The lifetimes of the nodes a worker
  may still execute after a `stop()` that timed out are not modelled.
* `blocking_scheduler` runs a job inside `add_task`: no queue, no second thread.
* The wall-time side of the main loops: how long they sleep changes nothing that
  another part of the program reads.
* The range actions `map`, `filter`, `zip` and `reduce` (`range/`), and the arithmetic connectables
  that differ from the modelled ones in the operator only: they are functions without state.
* Traits that only compute types (`function_traits`, `result_of`), and programs that do
  not compile.
* The graph that a `named` active port takes over from its connection
  (`graph_connectable.hpp:138`), and more than one port per node of the tree.
* `settings_container`, `generic_container` and `full_name` store or read without rules
  of their own. Logging, demangling, the dot and json formats are input and output.
* Values of settings that the processor cannot store at once: their bytes could mix in
  `setting_forwarder`.
* `3rdparty/` is not part of flexcore. Overflow of the 64-bit tick counters needs
  longer than any run of the program.
