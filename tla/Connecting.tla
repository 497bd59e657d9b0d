------------------------------ MODULE Connecting -------------------------------
(***************************************************************************)
(* How an expression  a >> b >> c  becomes connections.  operator>> takes  *)
(* two values: two passive connectables give a connection, an active port  *)
(* and a passive connectable that closes the path are connected, and an    *)
(* active port with anything else gives an active_connection_proxy that    *)
(* waits for the rest.  A mux_port repeats a connection for each of its    *)
(* ports.  The parentheses of the expression decide in which order         *)
(* neighbouring values are combined; here every order is tried.            *)
(*                                                                         *)
(* An expression is a sequence of values.  A value is a record with a tag: *)
(* leaf, connection, proxy, mux, merge, merged (a loaded_merge_port) or    *)
(* done (a port_connection).                                               *)
(***************************************************************************)
EXTENDS SequencesExt

CONSTANTS
  Kind,         \* leaf -> event_source, event_sink, state_source, state_sink,
                \*         function, consumer (returns nothing) or producer (takes nothing)
  Region,       \* leaf -> region of a node_aware port, or NoRegion
  NoRegion,
  GraphAware,   \* the leaves that are graph_connectables
  Expressions   \* the expressions a program contains

VARIABLES
  expression,  \* the expression that is evaluated
  values,      \* what is left of it: the values not yet combined
  made,        \* the connections it made: pairs of an active leaf and a value
  lost,        \* how many proxies were destroyed while not connected
  edges,       \* edge_set of the connection_graph
  buffers      \* the pairs of ports that a connection buffer joins

connectVars == <<expression, values, made, lost, edges, buffers>>

Leaf(x) == [tag |-> "leaf", name |-> x]
Mux(xs) == [tag |-> "mux", ports |-> [i \in DOMAIN xs |-> Leaf(xs[i])]]
Merge(op) == [tag |-> "merge", name |-> op]
LoadedMerge(op, xs) == [tag |-> "merged", op |-> op, ports |-> xs]
Done == [tag |-> "done"]

ConnectInit ==
  /\ expression \in Expressions
  /\ values = expression
  /\ made = <<>> /\ lost = 0 /\ edges = {} /\ buffers = {}
--------------------------------------------------------------------------------
(* Traits of a value.                                                      *)

IsKind(v, kinds) == v.tag = "leaf" /\ Kind[v.name] \in kinds

is_active_source(v) ==
  IsKind(v, {"event_source"}) \/ (v.tag = "proxy" /\ v.first = "source")

is_active_sink(v) ==
  IsKind(v, {"state_sink"}) \/ (v.tag = "proxy" /\ v.first = "sink")

is_active(v) == is_active_source(v) \/ is_active_sink(v)

\* Every >> nests its operands one level deeper: this many levels reach the leaves.
Levels == Len(expression)

\* The leaf, or merge port, at either end of a connection.
End(v, side) ==
  LET down[n \in 0 .. Levels] ==
        IF n = 0 THEN v
        ELSE LET u == down[n - 1] IN IF u.tag = "connection" THEN u[side] ELSE u
  IN down[Levels]

get_source(v) == End(v, "source")

get_sink(v) == End(v, "sink")

\* void_callable and is_passive_source: the call operator takes nothing.
is_passive_source(v) ==
  LET s == get_source(v) IN IsKind(s, {"state_source", "producer"}) \/ s.tag = "merged"

TakesToken(v) == IsKind(get_source(v), {"event_sink", "consumer", "function"})

ReturnsVoid(v) == IsKind(get_sink(v), {"event_sink", "consumer"})

\* is_passive_sink_for<T, Arg>: calling T with Arg, or without for void, returns void.
is_passive_sink_for(v, arg) ==
  ReturnsVoid(v) /\ (IF arg = "void" THEN is_passive_source(v) ELSE TakesToken(v))

is_connectable(v) == is_passive_source(v) \/ TakesToken(v)

\* What enables operator>> of two connectables, and its static_assert.
Connectables(v, w) ==
  /\ is_connectable(v) \/ is_active_source(v)
  /\ is_connectable(w) \/ is_active_sink(w)
  /\ ~(is_active(v) /\ is_active(w))
--------------------------------------------------------------------------------
(* connect: the value it returns and the connections it makes.             *)

Connection(v, w) == [tag |-> "connection", source |-> v, sink |-> w]

\* connected is the flag of a proxy among the operands.
Result(v, m) == [value |-> v, made |-> m, connected |-> TRUE]

\* Mutant of Ordered: the arguments are not swapped for an active sink.
OrderedAsGiven(first, stored, new) == Connection(stored, new)

\* active_source_first and active_sink_first.
Ordered(first, stored, new) ==
  IF first = "source" THEN Connection(stored, new) ELSE Connection(new, stored)

\* active_connection_proxy::connect: with a passive that closes the path, or not.
ProxyConnect(p, v) ==
  LET c == Ordered(p.first, p.passive, v)
      arg == IF p.first = "source" THEN "token" ELSE "void"
  IN IF is_passive_source(v) \/ is_passive_sink_for(v, arg)
       THEN Result(Done, <<[active |-> p.active, conn |-> c]>>)
       ELSE Result([p EXCEPT !.passive = c], <<>>)

\* active_passive_connect_impl.
ActiveConnect(a, v, first) ==
  IF a.tag = "proxy" THEN ProxyConnect(a, v)
  ELSE IF \/ first = "source" /\ is_passive_sink_for(v, "token")
          \/ first = "sink" /\ is_passive_source(v)
    THEN Result(Done, <<[active |-> a.name, conn |-> v]>>)
    ELSE Result([tag |-> "proxy", active |-> a.name, passive |-> v, first |-> first], <<>>)

\* connect_impl and its two specializations for active values.
connect(v, w) ==
  IF is_active(v) THEN ActiveConnect(v, w, "source")
  ELSE IF is_active(w) THEN ActiveConnect(w, v, "sink")
  ELSE Result(Connection(v, w), <<>>)
--------------------------------------------------------------------------------
(* mux_port::operator>>.                                                   *)

\* mux_traits and connect_mux: N to N, N to 1, 1 to N.
MuxPairs(l, r) ==
  CASE Len(l) = Len(r) -> [i \in DOMAIN l |-> <<l[i], r[i]>>]
    [] Len(r) = 1 -> [i \in DOMAIN l |-> <<l[i], r[1]>>]
    [] Len(l) = 1 -> [i \in DOMAIN r |-> <<l[1], r[i]>>]

\* 1 to 1 is ambiguous, and no other combination has a specialization.
MuxCompatible(l, r) == (Len(l) = 1) # (Len(r) = 1) \/ (Len(l) > 1 /\ Len(l) = Len(r))

\* The operands of the connections that v >> w makes when one of them is a mux_port.
Pairs(v, w) ==
  CASE v.tag = "mux" /\ w.tag = "mux" -> MuxPairs(v.ports, w.ports)
    [] v.tag = "mux" -> [i \in DOMAIN v.ports |-> <<v.ports[i], w>>]
    [] w.tag = "mux" -> MuxPairs(<<v>>, w.ports)

PairResults(v, w) ==
  [j \in DOMAIN Pairs(v, w) |-> connect(Pairs(v, w)[j][1], Pairs(v, w)[j][2])]

has_node_aware(v) == v.tag = "leaf" /\ Region[v.name] # NoRegion

\* mux_from_tuple is declared after mux_port: only the types of the results can lead the
\* name lookup to it, if one of them is made from a class of the namespace fc.  Those
\* are connection, port_connection and the ports of nodes, but not the pure ports.
NamesFc(v) ==
  IF v.tag = "proxy" THEN has_node_aware(Leaf(v.active)) \/ v.passive.tag = "connection"
                     ELSE v.tag \in {"connection", "done"}

MuxDefined(v, w) ==
  /\ v.tag = "mux" \/ (is_active_source(v) /\ w.tag = "mux")
  /\ w.tag = "mux" => MuxCompatible(IF v.tag = "mux" THEN v.ports ELSE <<v>>, w.ports)
  /\ w.tag # "merge"
  /\ \A j \in DOMAIN Pairs(v, w) : Connectables(Pairs(v, w)[j][1], Pairs(v, w)[j][2])
  /\ w.tag = "mux" \/ \E j \in DOMAIN Pairs(v, w) : NamesFc(PairResults(v, w)[j].value)

\* The proxies that v >> w destroys while their flag is not set.  The only port of a mux
\* and a connectable on its right are copied for each connection; before that, an
\* active operand is moved into a mux of its own.  The results of the connections are
\* moved by make_tuple into a tuple, and from there into a mux_port.
MuxLosses(v, w) ==
  LET Proxies(vs) == Len(SelectSeq(vs, LAMBDA u : u.tag = "proxy"))
  IN CASE v.tag # "mux" -> 2 * Proxies(<<v>>)
       [] v.tag = "mux" /\ w.tag = "mux" -> IF Len(v.ports) = 1 THEN Proxies(v.ports) ELSE 0
       [] v.tag = "mux" /\ w.tag # "mux" ->
            Proxies(<<w>>) + 2 * Proxies([j \in DOMAIN Pairs(v, w) |-> PairResults(v, w)[j].value])
--------------------------------------------------------------------------------
(* What an active port does when it is connected.                          *)

\* A value, one level down: the source of a connection comes before its sink.  A call
\* of a merge port calls its ports, and then the operation.
Inside(v, calls) ==
  CASE v.tag = "connection" -> <<v.source, v.sink>>
    [] v.tag = "merged" -> IF calls THEN Append(v.ports, Leaf(v.op)) ELSE <<>>
    [] OTHER -> <<v>>

Open(vs, calls) == FlattenSeq([i \in DOMAIN vs |-> Inside(vs[i], calls)])

LeavesOf(v, calls) ==
  LET open[n \in 0 .. Levels] == IF n = 0 THEN <<v>> ELSE Open(open[n - 1], calls)
      leaves == open[Levels]
  IN [i \in DOMAIN leaves |-> leaves[i].name]

\* The leaves that a call passes, in their order.
Leaves(v) == LeavesOf(v, TRUE)

\* The leaves that detail::apply reaches: it does not look into a merge port.
Applied(v) == LeavesOf(v, FALSE)

Path(m) ==
  IF Kind[m.active] = "event_source" THEN <<m.active>> \o Leaves(m.conn)
                                     ELSE Leaves(m.conn) \o <<m.active>>

graph_adder(xs) == FlattenSeq([i \in DOMAIN xs |-> IF xs[i] \in GraphAware THEN <<xs[i]>> ELSE <<>>])

\* graph_connectable::connect: add_event_connection or add_state_connection.
GraphEdges(m) ==
  LET found == graph_adder(Applied(m.conn))
      nodes == IF Kind[m.active] = "event_source" THEN <<m.active>> \o found
                                                  ELSE found \o <<m.active>>
  IN IF m.active \in GraphAware
       THEN {<<nodes[i], nodes[i + 1]>> : i \in 1 .. Len(nodes) - 1}
       ELSE {}

\* Regions are compared by their names.
same_region(x, y) == Region[x] = Region[y]

\* Mutant of Buffered: the region is read at the wrong end of the connection.
BufferedFromNearEnd(m) ==
  LET end == IF Kind[m.active] = "event_source" THEN get_source(m.conn) ELSE get_sink(m.conn)
  IN IF has_node_aware(Leaf(m.active)) /\ has_node_aware(end) /\ ~same_region(m.active, end.name)
       THEN {<<m.active, end.name>>} ELSE {}

\* node_aware::connect: introduce_buffer between ports of different regions.
Buffered(m) ==
  LET end == IF Kind[m.active] = "event_source" THEN get_sink(m.conn) ELSE get_source(m.conn)
  IN IF has_node_aware(Leaf(m.active)) /\ has_node_aware(end) /\ ~same_region(m.active, end.name)
       THEN {<<m.active, end.name>>} ELSE {}

\* The values i and i + 1 are replaced by their combination.
Replace(i, v) == SubSeq(values, 1, i - 1) \o <<v>> \o SubSeq(values, i + 2, Len(values))

Record(ms) ==
  /\ made' = made \o ms
  /\ edges' = edges \cup UNION {GraphEdges(ms[i]) : i \in DOMAIN ms}
  /\ buffers' = buffers \cup UNION {Buffered(ms[i]) : i \in DOMAIN ms}
  /\ UNCHANGED expression

Combine(i) ==
  /\ Connectables(values[i], values[i + 1])
  /\ values' = Replace(i, connect(values[i], values[i + 1]).value)
  /\ Record(connect(values[i], values[i + 1]).made)
  /\ lost' = IF connect(values[i], values[i + 1]).connected THEN lost ELSE lost + 1

\* tuple::transform: the elements of std::make_tuple are evaluated in any order.
transform(results) ==
  {FlattenSeq([j \in DOMAIN order |-> results[order[j]].made]) : order \in SetToSeqs(DOMAIN results)}

CombineMux(i) ==
  LET v == values[i]
      w == values[i + 1]
      results == PairResults(v, w)
  IN /\ MuxDefined(v, w)
     /\ values' = Replace(i, IF w.tag = "mux" THEN Done
                             ELSE [tag |-> "mux", ports |-> [j \in DOMAIN results |-> results[j].value]])
     /\ \E ms \in transform(results) : Record(ms)
     /\ lost' = lost + MuxLosses(v, w)

\* A mux_port and an unloaded_merge_port; its ports are no node_aware ports themselves.
MergeDefined(v, w) ==
  /\ v.tag = "mux" /\ w.tag = "merge"
  /\ \A j \in DOMAIN v.ports : is_passive_source(v.ports[j]) /\ ~has_node_aware(v.ports[j])

CombineMerge(i) ==
  /\ MergeDefined(values[i], values[i + 1])
  /\ values' = Replace(i, LoadedMerge(values[i + 1].name, values[i].ports))
  /\ Record(<<>>)
  /\ UNCHANGED lost

ConnectNext ==
  \E i \in 1 .. Len(values) - 1 : Combine(i) \/ CombineMux(i) \/ CombineMerge(i)

ConnectSpec == ConnectInit /\ [][ConnectNext]_connectVars
--------------------------------------------------------------------------------
(* Properties.                                                             *)

Names(v) == IF v.tag = "mux" THEN [i \in DOMAIN v.ports |-> v.ports[i].name] ELSE <<v.name>>

\* The paths an expression describes: one for each port of a mux, with the same
\* values between, or a single one that a merge joins.
Described(e) ==
  LET Between(m, n) == [i \in 1 .. n - m + 1 |-> e[m + i - 1].name]
      At(v, j) == IF Len(Names(v)) = 1 THEN Names(v)[1] ELSE Names(v)[j]
      merge == SelectInSeq(e, LAMBDA v : v.tag = "merge")
      branches == Max({Len(Names(Head(e))), Len(Names(Last(e)))})
  IN IF merge # 0
       THEN {FlattenSeq([j \in DOMAIN Head(e).ports |-> <<At(Head(e), j)>> \o Between(2, merge - 1)])
               \o Between(merge, Len(e))}
       ELSE {<<At(Head(e), j)>> \o Between(2, Len(e) - 1) \o <<At(Last(e), j)>> : j \in 1 .. branches}

(***************************************************************************)
(* operator>> is associative: wherever the parentheses of an expression    *)
(* stand, and in whatever order a mux connects its ports, the active ports *)
(* end up with the same connections, each made once, and a token passes    *)
(* the connectables in the order they are written; and no choice of the    *)
(* first parentheses leaves values that nothing can combine.  connect, the *)
(* proxies and mux_port build the pieces in very different orders.         *)
(***************************************************************************)
PathsAsWritten ==
  IF Len(values) = 1
    THEN /\ {Path(made[i]) : i \in DOMAIN made} = Described(expression)
         /\ Len(made) = Cardinality(Described(expression))
    ELSE \E i \in 1 .. Len(values) - 1 :
           LET v == values[i]
               w == values[i + 1]
           IN Connectables(v, w) \/ MuxDefined(v, w) \/ MergeDefined(v, w)

(***************************************************************************)
(* The connection graph and the buffers follow the path and not the order  *)
(* of construction: two graph_connectables are joined by an edge when they *)
(* follow each other on a path of a graph_connectable active port, other   *)
(* connectables left out, and a buffer stands exactly between the ends of  *)
(* a path that lie in different regions.  A merge port hides what is on    *)
(* its left from both: "It does not take into account region information"  *)
(* (mux_ports.hpp:319), so that a path through it has no edge before the   *)
(* merge and never a buffer, although its static_assert lets the ports of  *)
(* nodes pass as soon as a connectable stands between them and the merge.  *)
(***************************************************************************)
GraphAndBuffersFollowPaths ==
  Len(values) = 1 =>
    LET merge == SelectInSeq(expression, LAMBDA v : v.tag = "merge")
        Visible(p) ==
          IF merge = 0 THEN p ELSE SubSeq(p, Len(p) - (Len(expression) - merge) + 1, Len(p))
        Aware(p) == graph_adder(Visible(p))
        ActiveEnd(p) == IF Kind[p[1]] = "event_source" THEN p[1] ELSE Last(p)
    IN /\ edges = UNION {{<<Aware(p)[i], Aware(p)[i + 1]>> : i \in 1 .. Len(Aware(p)) - 1} :
                          p \in {q \in Described(expression) : ActiveEnd(q) \in GraphAware}}
       /\ merge = 0 =>
            {{b[1], b[2]} : b \in buffers}
              = {{p[1], Last(p)} : p \in {q \in Described(expression) :
                                           /\ NoRegion \notin {Region[q[1]], Region[Last(q)]}
                                           /\ Region[q[1]] # Region[Last(q)]}}
       /\ merge # 0 => buffers = {}

(***************************************************************************)
(* The assertion of ~active_connection_proxy, "active_connection_proxy was *)
(* destroyed but not connected.": no proxy is destroyed before its flag is *)
(* set, and none is left when the whole expression is evaluated.           *)
(***************************************************************************)
ProxiesAreConnected ==
  lost = 0 /\ (Len(values) = 1 => values[1].tag # "proxy")
================================================================================
