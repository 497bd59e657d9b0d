--------------------------------- MODULE Nodes ---------------------------------
(***************************************************************************)
(* The nodes that flexcore supplies (buffers, gates, switches, watchers,   *)
(* caches, mergers, terminals), wired into a network of one region.        *)
(*                                                                         *)
(* Everything in a region happens synchronously: fire calls the connected  *)
(* event_sinks one after the other, depth first, and get pulls a value     *)
(* through the connected state_sources.  Fire and Get are that call tree.  *)
(* They thread a record st through the calls: the memory of the nodes, the *)
(* log of the tokens that arrived at the recorded sinks, the values of the *)
(* inputs, whether an exception is propagating (threw) and whether the     *)
(* code ran into undefined behaviour.                                      *)
(*                                                                         *)
(* A port is a pair of a node and a port name.  A connection has a "via":  *)
(* the connectables between its ends.                                      *)
(***************************************************************************)
EXTENDS Integers, SequencesExt

CONSTANTS
  NodeType,    \* node -> its class
  Param,       \* node -> predicate, capacity or operation, where the class has one
  InPorts,     \* merger or n_ary_switch -> sequence of its in ports
  Handlers,    \* event output -> sequence of [to, via], in the order of connecting
  Sources,     \* state input -> [from, via]
  Initial,     \* node -> its memory after construction
  InputStates, \* what the inputs may be set to from outside
  Tokens,      \* event_source -> the tokens, or ranges of tokens, it fires
  Readers,     \* the state_sinks that read a list_collector
  Viewers,     \* the other state_sinks that are read from outside
  MaxEvents    \* bound on the tokens fired

VARIABLES
  memory,      \* node -> its members
  log,         \* recorded sink -> tokens received
  inputs,      \* input -> current value
  call,        \* the last call from outside: a tick or another one, and how it ended
  fired,       \* history: the calls of fire, each with the inputs of the moment
  delivered,   \* history: reader -> the tokens its collector has shown it, without repeats
  fresh        \* history: reader -> its next read shows tokens for the first time

nodeVars == <<memory, log, inputs, call, fired, delivered, fresh>>

Now == [memory |-> memory, log |-> log, inputs |-> inputs, threw |-> FALSE, undefined |-> FALSE]

Value(v, st) == [val |-> v, st |-> st]

Nothing == "nothing"

\* not_connected of state_sink::get, out_of_range of std::map::at.
Throw(st) == Value(Nothing, [st EXCEPT !.threw = TRUE])

Set(st, n, field, v) == [st EXCEPT !.memory[n][field] = v]
--------------------------------------------------------------------------------
(* Connectables.                                                           *)

Clamp(v, min, max) == IF v < min THEN min ELSE IF max < v THEN max ELSE v

Arithmetic(f, v) ==
  CASE f.op = "add" -> v + f.arg
    [] f.op = "subtract" -> v - f.arg
    [] f.op = "multiply" -> f.arg * v
    [] f.op = "logical_not" -> ~v
    [] f.op = "clamp" -> Clamp(v, f.min, f.max)

Satisfies(p, v) ==
  CASE p = "odd" -> v % 2 = 1
    [] p = "positive" -> v > 0

\* tee calls its callback, here a recorded sink, and passes the token on.
Connectable(f, v, st) ==
  CASE f.op = "tee" -> Value(v, [st EXCEPT !.log[f.arg] = Append(@, v)])
    [] OTHER -> Value(Arithmetic(f, v), st)

Through(via, v, st) ==
  FoldLeft(LAMBDA r, f : Connectable(f, r.val, r.st), Value(v, st), via)
--------------------------------------------------------------------------------
RECURSIVE Fire(_, _, _)
RECURSIVE Get(_, _)

(* State: what operator() of a state_source of each node does.             *)

\* merge_node: the in ports are read and given to the operation, here a sum of two.
merge_node(n, st) ==
  LET a == Get(<<n, InPorts[n][1]>>, st)
      b == Get(<<n, InPorts[n][2]>>, a.st)
  IN IF a.st.threw THEN a
     ELSE IF b.st.threw THEN b
     ELSE Value(a.val + b.val, b.st)

\* dynamic_merger::merge_inputs: a range of the values of all in ports.
dynamic_merger(n, st) ==
  FoldLeft(LAMBDA r, p : LET v == Get(<<n, p>>, r.st)
                         IN IF r.st.threw THEN r
                            ELSE IF v.st.threw THEN v
                            ELSE Value(Append(r.val, v.val), v.st),
           Value(<<>>, st), InPorts[n])

state_cache(n, st) ==
  IF st.memory[n].load_new
    THEN LET r == Get(<<n, "in">>, st)
         IN IF r.st.threw THEN r
            ELSE Value(r.val, Set(Set(r.st, n, "cache", r.val), n, "load_new", FALSE))
    ELSE Value(st.memory[n].cache, st)

\* n_ary_switch for state: in_ports.at(switch_state.get()).get().
state_switch(n, st) ==
  LET key == Get(<<n, "control">>, st)
  IN IF key.st.threw THEN key
     ELSE IF ~Contains(InPorts[n], key.val) THEN Throw(key.st)
     ELSE Get(<<n, key.val>>, key.st)

state_terminal(n, st) == Get(<<n, "in">>, st)

\* The out port of list_collector<swap_on_tick>.
ShowCollected(n, st) == Value(st.memory[n].buffer_state, Set(st, n, "data_read", TRUE))

\* list_collector<swap_on_pull>::get_state.
PullCollected(n, st) ==
  Value(st.memory[n].buffer_collect,
        Set(Set(st, n, "buffer_state", st.memory[n].buffer_collect), n, "buffer_collect", <<>>))

Pull(n, st) ==
  CASE NodeType[n] = "input" -> Value(st.inputs[n], st)
    [] NodeType[n] = "merge_node" -> merge_node(n, st)
    [] NodeType[n] = "dynamic_merger" -> dynamic_merger(n, st)
    [] NodeType[n] = "state_cache" -> state_cache(n, st)
    [] NodeType[n] = "state_switch" -> state_switch(n, st)
    [] NodeType[n] = "state_terminal" -> state_terminal(n, st)
    [] NodeType[n] = "swap_on_pull" -> PullCollected(n, st)
    [] NodeType[n] = "swap_on_tick" -> ShowCollected(n, st)
    [] NodeType[n] \in {"hold_last", "hold_n", "current_state"} ->
         Value(st.memory[n].storage, st)

\* state_sink::get.
Get(port, st) ==
  IF port \notin DOMAIN Sources THEN Throw(st)
  ELSE LET r == Pull(Sources[port].from, st)
       IN IF r.st.threw THEN r ELSE Through(Sources[port].via, r.val, r.st)
--------------------------------------------------------------------------------
(* Events: what the event_sinks of each node do.                           *)

gate_with_predicate(n, token, st) ==
  IF Satisfies(Param[n], token) THEN Fire(<<n, "out">>, token, st) ELSE st

\* Mutant of gate_with_control: the control is not asked.
gate_with_controlOpen(n, token, st) == Fire(<<n, "out">>, token, st)

gate_with_control(n, token, st) ==
  LET open == Get(<<n, "control">>, st)
  IN IF ~open.st.threw /\ open.val THEN Fire(<<n, "out">>, token, open.st) ELSE open.st

event_terminal(n, token, st) == Fire(<<n, "out">>, token, st)

hold_last(n, token, st) == Set(st, n, "storage", token)

\* The update port of state_cache.
update(n, st) == Set(st, n, "load_new", TRUE)

pair_splitter(n, pair, st) == Fire(<<n, pair[1]>>, pair[2], st)

pair_joiner(n, key, token, st) == Fire(<<n, "out">>, <<key, token>>, st)

\* n_ary_switch for events: forward_call.
event_switch(n, key, token, st) ==
  LET chosen == Get(<<n, "control">>, st)
  IN IF ~chosen.st.threw /\ key = chosen.val THEN Fire(<<n, "out">>, token, chosen.st)
                                              ELSE chosen.st

\* watch_node::check_tick.
watch(n, st) ==
  LET r == Get(<<n, "in">>, st)
  IN IF r.st.threw THEN r.st
     ELSE IF Satisfies(Param[n], r.val) THEN Fire(<<n, "out">>, r.val, r.st) ELSE r.st

\* The work of unary_watch_node, a region_worker_node.
unary_watch(n, st) == watch(n, st)

\* Mutant of on_changed: last is replaced before it is compared.
on_changedReplacesFirst(n, st) ==
  LET r == Get(<<n, "in">>, st)
      stored == Set(r.st, n, "last", r.val)
  IN IF r.st.threw THEN r.st
     ELSE IF r.val = stored.memory[n].last THEN stored
     ELSE Fire(<<n, "out">>, r.val, stored)

\* watch_node with the predicate of on_changed; last begins as data_t().
on_changed(n, st) ==
  LET r == Get(<<n, "in">>, st)
  IN IF r.st.threw THEN r.st
     ELSE IF r.val = st.memory[n].last THEN r.st
     ELSE Fire(<<n, "out">>, r.val, Set(r.st, n, "last", r.val))

\* The work of current_state.
refresh_current(n, st) ==
  LET r == Get(<<n, "in">>, st)
  IN IF r.st.threw THEN r.st ELSE Set(r.st, n, "storage", r.val)

\* detail::collector: one token or a range of them at the end of the buffer; a
\* circular_buffer drops its oldest elements when it is full.
Insert(buffer, range, capacity) ==
  LET all == buffer \o range
  IN IF Len(all) > capacity THEN SubSeq(all, Len(all) - capacity + 1, Len(all)) ELSE all

hold_n(n, range, st) == Set(st, n, "storage", Insert(st.memory[n].storage, range, Param[n]))

Collect(n, range, st) ==
  IF NodeType[n] = "hold_n" THEN hold_n(n, range, st)
    ELSE Set(st, n, "buffer_collect", st.memory[n].buffer_collect \o range)

\* Mutant of swap_buffers: data_read is not reset.
swap_buffersStaysRead(n, st) ==
  LET m == st.memory[n]
  IN IF m.data_read
       THEN [st EXCEPT !.memory[n] = [buffer_state |-> m.buffer_collect, buffer_collect |-> <<>>,
                                      data_read |-> TRUE]]
       ELSE IF m.buffer_collect = <<>> THEN st
       ELSE [st EXCEPT !.undefined = TRUE]

\* list_collector<swap_on_tick>::swap_buffers.  When the state was not read the range
\* is inserted into buffer_state at an iterator of buffer_collect: undefined, except
\* that nothing happens for an empty range.
swap_buffers(n, st) ==
  LET m == st.memory[n]
  IN IF m.data_read
       THEN [st EXCEPT !.memory[n] = [buffer_state |-> m.buffer_collect, buffer_collect |-> <<>>,
                                      data_read |-> FALSE]]
       ELSE IF m.buffer_collect = <<>> THEN st
       ELSE [st EXCEPT !.undefined = TRUE]

Receive(port, token, st) ==
  LET n == port[1]
  IN CASE NodeType[n] = "sink" -> [st EXCEPT !.log[n] = Append(@, token)]
       [] NodeType[n] = "gate_with_predicate" -> gate_with_predicate(n, token, st)
       [] NodeType[n] = "gate_with_control" -> gate_with_control(n, token, st)
       [] NodeType[n] = "pair_splitter" -> pair_splitter(n, token, st)
       [] NodeType[n] = "pair_joiner" -> pair_joiner(n, port[2], token, st)
       [] NodeType[n] = "event_switch" -> event_switch(n, port[2], token, st)
       [] NodeType[n] = "event_terminal" -> event_terminal(n, token, st)
       [] NodeType[n] = "hold_last" -> hold_last(n, token, st)
       [] NodeType[n] = "watch" -> watch(n, st)
       [] NodeType[n] = "unary_watch" -> unary_watch(n, st)
       [] NodeType[n] = "on_changed" -> on_changed(n, st)
       [] NodeType[n] = "current_state" -> refresh_current(n, st)
       [] NodeType[n] = "state_cache" -> update(n, st)
       [] port[2] = "swap_buffers" -> swap_buffers(n, st)
       [] port[2] = "range" -> Collect(n, token, st)
       [] OTHER -> Collect(n, <<token>>, st)

\* event_source::fire: an exception ends the loop.
Fire(port, token, st) ==
  IF port \notin DOMAIN Handlers THEN st
  ELSE FoldLeft(LAMBDA s, h : IF s.threw \/ s.undefined THEN s
                              ELSE LET r == Through(h.via, token, s) IN Receive(h.to, r.val, r.st),
                st, Handlers[port])
--------------------------------------------------------------------------------
(* Calls from outside.                                                     *)

Recorded == {n \in DOMAIN NodeType : NodeType[n] = "sink"}

NodesInit ==
  /\ memory = Initial
  /\ log = [n \in Recorded |-> <<>>]
  /\ inputs \in InputStates
  /\ call = [name |-> "other", threw |-> FALSE, undefined |-> FALSE]
  /\ fired = <<>>
  /\ delivered = [r \in Readers |-> <<>>]
  /\ fresh = [r \in Readers |-> TRUE]

Returned(name, st) ==
  /\ ~call.undefined
  /\ memory' = st.memory
  /\ log' = st.log
  /\ call' = [name |-> name, threw |-> st.threw, undefined |-> st.undefined]

SetInput(i) ==
  /\ ~call.undefined
  /\ inputs' \in {f \in InputStates : f[i] # inputs[i] /\ \A j \in DOMAIN f \ {i} : f[j] = inputs[j]}
  /\ UNCHANGED <<memory, log, call, fired, delivered, fresh>>

FireEvent(e) ==
  /\ Len(fired) < MaxEvents
  /\ \E token \in Tokens[e] :
       /\ Returned("other", Fire(<<e, "out">>, token, Now))
       /\ fired' = Append(fired, [event |-> e, token |-> token, inputs |-> inputs])
  /\ UNCHANGED <<inputs, delivered, fresh>>

\* tick_controller::switch_buffers and in_work.
SwitchTick ==
  /\ Returned("switch_tick", Fire(<<"region", "switch_tick">>, Nothing, Now))
  /\ fresh' = [r \in Readers |-> TRUE]
  /\ UNCHANGED <<inputs, fired, delivered>>

WorkTick ==
  /\ Returned("work_tick", Fire(<<"region", "work">>, Nothing, Now))
  /\ UNCHANGED <<inputs, fired, delivered, fresh>>

Read(r) ==
  LET result == Get(<<r, "in">>, Now)
  IN /\ Returned("other", result.st)
     /\ delivered' = IF result.st.threw \/ ~fresh[r] THEN delivered
                     ELSE [delivered EXCEPT ![r] = @ \o result.val]
     /\ fresh' = [fresh EXCEPT ![r] = NodeType[Sources[<<r, "in">>].from] = "swap_on_pull"]
     /\ UNCHANGED <<inputs, fired>>

View(v) ==
  /\ Returned("other", Get(<<v, "in">>, Now).st)
  /\ UNCHANGED <<inputs, fired, delivered, fresh>>

NodesNext ==
  \/ \E i \in DOMAIN inputs : SetInput(i)
  \/ \E e \in DOMAIN Tokens : FireEvent(e)
  \/ SwitchTick
  \/ WorkTick
  \/ \E r \in Readers : Read(r)
  \/ \E v \in Viewers : View(v)
================================================================================
