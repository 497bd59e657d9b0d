-------------------------------- MODULE MCNodes --------------------------------
(***************************************************************************)
(* A network with every node that flexcore supplies.                       *)
(*                                                                         *)
(*   e1, e2 -> joiner -> splitter -> switch -> gate -> terminal            *)
(*   terminal -> arrived, collectors, holders                              *)
(*   x -> cache -> choice -> terminal -> current -> watch -> alarm         *)
(*   x -> changed -> update of the cache                                   *)
(*                                                                         *)
(* The state switch "choice" has no in port for the key k2, so that a work *)
(* tick throws while k2 is selected.                                       *)
(***************************************************************************)
EXTENDS Nodes

MCNodeType ==
  [x |-> "input", selected |-> "input", open |-> "input",
   e1 |-> "event_source", e2 |-> "event_source", batch |-> "event_source",
   joiner |-> "pair_joiner", splitter |-> "pair_splitter", switch |-> "event_switch",
   gate |-> "gate_with_control", relay |-> "event_terminal", odd |-> "gate_with_predicate",
   arrived |-> "sink", tapped |-> "sink",
   ontick |-> "swap_on_tick", onpull |-> "swap_on_pull",
   last |-> "hold_last", lastodd |-> "hold_last", recent |-> "hold_n", archive |-> "hold_n",
   cache |-> "state_cache", choice |-> "state_switch", border |-> "state_terminal",
   current |-> "current_state", alarm |-> "watch", guard |-> "unary_watch", raised |-> "hold_last",
   changed |-> "on_changed", sum |-> "merge_node", all |-> "dynamic_merger"]

MCParam == [odd |-> "odd", recent |-> 1, archive |-> 2, alarm |-> "positive", guard |-> "odd"]

MCInPorts == [choice |-> <<"k1">>, sum |-> <<"1", "2">>, all |-> <<"1", "2">>]

\* The connectables between the relay and the sinks; together they add 1.
Adding == <<[op |-> "add", arg |-> 3], [op |-> "tee", arg |-> "tapped"], [op |-> "subtract", arg |-> 2]>>

To(node, port) == [to |-> <<node, port>>, via |-> <<>>]

MCHandlers ==
  [p \in {<<"e1", "out">>, <<"e2", "out">>, <<"batch", "out">>, <<"joiner", "out">>, <<"splitter", "k1">>,
          <<"splitter", "k2">>, <<"switch", "out">>, <<"gate", "out">>, <<"relay", "out">>,
          <<"odd", "out">>, <<"changed", "out">>, <<"alarm", "out">>, <<"guard", "out">>,
          <<"region", "switch_tick">>, <<"region", "work">>} |->
    CASE p = <<"e1", "out">> -> <<To("joiner", "k1")>>
      [] p = <<"e2", "out">> -> <<To("joiner", "k2")>>
      [] p = <<"batch", "out">> -> <<To("archive", "range")>>
      [] p = <<"joiner", "out">> -> <<To("splitter", "in")>>
      [] p = <<"splitter", "k1">> -> <<To("switch", "k1")>>
      [] p = <<"splitter", "k2">> -> <<To("switch", "k2")>>
      [] p = <<"switch", "out">> -> <<To("gate", "in")>>
      [] p = <<"gate", "out">> -> <<To("relay", "in")>>
      [] p = <<"relay", "out">> -> <<[to |-> <<"arrived", "in">>, via |-> Adding], To("ontick", "in"),
                                     To("onpull", "in"), To("last", "in"), To("recent", "in"),
                                     To("odd", "in")>>
      [] p = <<"odd", "out">> -> <<To("lastodd", "in")>>
      [] p = <<"changed", "out">> -> <<To("cache", "update")>>
      [] p \in {<<"alarm", "out">>, <<"guard", "out">>} -> <<To("raised", "in")>>
      [] p = <<"region", "switch_tick">> -> <<To("ontick", "swap_buffers")>>
      [] p = <<"region", "work">> -> <<To("current", "work"), To("changed", "check_tick"),
                                       To("alarm", "check_tick"), To("guard", "work")>>]

From(node) == [from |-> node, via |-> <<>>]

MCSources ==
  [p \in {<<"switch", "control">>, <<"gate", "control">>, <<"cache", "in">>, <<"changed", "in">>,
          <<"choice", "control">>, <<"choice", "k1">>, <<"border", "in">>, <<"current", "in">>,
          <<"alarm", "in">>, <<"guard", "in">>, <<"sum", "1">>, <<"sum", "2">>, <<"all", "1">>, <<"all", "2">>,
          <<"tickreader", "in">>, <<"pullreader", "in">>, <<"total", "in">>, <<"every", "in">>} |->
    CASE p \in {<<"switch", "control">>, <<"choice", "control">>} -> From("selected")
      [] p = <<"gate", "control">> ->
           [from |-> "open", via |-> <<[op |-> "logical_not"], [op |-> "logical_not"]>>]
      [] p = <<"cache", "in">> ->
           [from |-> "x", via |-> <<[op |-> "multiply", arg |-> 2], [op |-> "clamp", min |-> 1, max |-> 5]>>]
      [] p = <<"changed", "in">> -> From("x")
      [] p = <<"choice", "k1">> -> From("cache")
      [] p = <<"border", "in">> -> From("choice")
      [] p = <<"current", "in">> -> From("border")
      [] p \in {<<"alarm", "in">>, <<"guard", "in">>, <<"sum", "1">>, <<"all", "1">>} -> From("current")
      [] p \in {<<"sum", "2">>, <<"all", "2">>} -> From("last")
      [] p = <<"tickreader", "in">> -> From("ontick")
      [] p = <<"pullreader", "in">> -> From("onpull")
      [] p = <<"total", "in">> -> From("sum")
      [] p = <<"every", "in">> -> From("all")]

Collector == [buffer_state |-> <<>>, buffer_collect |-> <<>>]

MCInitial ==
  [ontick |-> Collector @@ [data_read |-> FALSE], onpull |-> Collector,
   last |-> [storage |-> 0], lastodd |-> [storage |-> 0], raised |-> [storage |-> 0],
   recent |-> [storage |-> <<>>], archive |-> [storage |-> <<>>], current |-> [storage |-> 0],
   cache |-> [cache |-> 0, load_new |-> TRUE], changed |-> [last |-> 0]]

MCInputStates == [x : 0 .. 2, selected : {"k1", "k2"}, open : BOOLEAN]

MCTokens == [e1 |-> {1, 2}, e2 |-> {1, 2}, batch |-> {<<1>>, <<2, 3, 1>>}]

VARIABLE settled  \* history: work ticks that were not ended by an exception since x was set

\* The event side and the state side of the network have no memory in common, so each
\* is explored with the other one at rest.
EventSideNext ==
  /\ UNCHANGED settled
  /\ \/ \E i \in {"selected", "open"} : SetInput(i)
     \/ \E e \in DOMAIN Tokens : FireEvent(e)
     \/ SwitchTick
     \/ \E r \in Readers : Read(r)

StateSideNext ==
  \/ SetInput("x") /\ settled' = 0
  \/ WorkTick /\ settled' = IF call'.threw \/ settled = 2 THEN settled ELSE settled + 1
  \/ (SetInput("selected") \/ \E v \in Viewers : View(v)) /\ UNCHANGED settled

networkVars == <<nodeVars, settled>>

NetworkInit == NodesInit /\ settled = 0

NodesSpec == NetworkInit /\ [][EventSideNext]_networkVars
--------------------------------------------------------------------------------
(***************************************************************************)
(* An event arrives exactly if it was fired at the port that is selected   *)
(* while the gate is open, once and in order, and changed only by the      *)
(* connectables on its way: pair_joiner, pair_splitter, n_ary_switch,      *)
(* gate_with_control and event_terminal in a row ask for the control       *)
(* states at the moment of the event, and tee shows the token as it        *)
(* passed.                                                                 *)
(***************************************************************************)
SelectedEventsArrive ==
  LET Key == [e1 |-> "k1", e2 |-> "k2", batch |-> "none"]
      through == SelectSeq(fired, LAMBDA f : f.inputs.open /\ f.inputs.selected = Key[f.event])
  IN /\ log["arrived"] = [i \in DOMAIN through |-> through[i].token + 1]
     /\ log["tapped"] = [i \in DOMAIN through |-> through[i].token + 3]

Received == [i \in DOMAIN log["arrived"] |-> log["arrived"][i] - 1]

Batches ==
  LET batches == SelectSeq(fired, LAMBDA f : f.event = "batch")
  IN FlattenSeq([i \in DOMAIN batches |-> batches[i].token])

(***************************************************************************)
(* A reader of a list_collector misses no event and gets none twice,       *)
(* however its reads fall between events and switch ticks, and hold_n and  *)
(* hold_last have the latest events.  (Undefined behaviour of swap_buffers *)
(* excepted.)                                                              *)
(***************************************************************************)
BuffersKeepEvents ==
  ~call.undefined =>
    /\ Received = delivered["tickreader"]
                    \o (IF fresh["tickreader"] THEN memory["ontick"].buffer_state ELSE <<>>)
                    \o memory["ontick"].buffer_collect
    /\ Received = delivered["pullreader"] \o memory["onpull"].buffer_collect
    /\ Received # <<>> => memory["last"].storage = Last(Received) /\ memory["recent"].storage = <<Last(Received)>>
    /\ IsSuffix(memory["archive"].storage, Batches)
    /\ Len(memory["archive"].storage) = Min({2, Len(Batches)})

(***************************************************************************)
(* The node behind a state_cache that on_changed keeps up to date has the  *)
(* current state after two work ticks, whatever the state was before and   *)
(* however often it changed, and although current_state pulls the cache    *)
(* before on_changed looks: the first tick marks the cache, the second one *)
(* loads it.  Ticks that were ended by an exception do not count.  It      *)
(* needs that nobody reads the cache between ticks, where it could load a  *)
(* state that on_changed never sees.                                       *)
(***************************************************************************)
CacheCatchesUp ==
  settled = 2 => memory["current"].storage = Clamp(2 * inputs.x, 1, 5)

(***************************************************************************)
(* "Events are available after the next swap tick." (buffer.hpp:40): after *)
(* swap_buffers of list_collector<swap_on_tick> the collected events are   *)
(* in the output buffer, whether or not the previous ones were read.       *)
(***************************************************************************)
EventsAvailableAfterTick ==
  call.name = "switch_tick" => ~call.undefined /\ memory["ontick"].buffer_collect = <<>>
================================================================================
