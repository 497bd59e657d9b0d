------------------------------- MODULE NodeTree --------------------------------
(***************************************************************************)
(* The forest that owns the nodes (base_node), the connection_graph their  *)
(* ports are entered in, and visualization, which draws both.              *)
(*                                                                         *)
(* Nodes are numbered in the order in which they enter the forest; a child *)
(* is inserted behind its siblings, so that the order of the children of a *)
(* node is the order of their numbers.  A node has at most one port, named *)
(* like the node; a named connectable is a port with a pseudo node.        *)
(***************************************************************************)
EXTENDS SequencesExt, SequenceRemoval

CONSTANTS
  Regions, RootRegion,
  Named,        \* connectables made by graph::named
  Colours,      \* number of entries of the table of colours in get_color
  MaxNodes,     \* bound on the nodes that enter the forest
  MaxEdges      \* bound on the size of edge_set

VARIABLES
  parent,       \* the forest: node -> parent; the root is its own parent
  region,       \* node -> region
  state,        \* node -> building, built, failed (its constructor threw), manual
  count,        \* number of nodes that entered the forest
  port_set, edge_set,
  vertex_map,   \* node -> descriptor of its vertex
  vertices,     \* number of vertices of dataflow_graph
  cleared,      \* history: clear_graph was called
  color_map,    \* region -> index of its colour
  drawing       \* the output of the last step, if that was visualize

treeVars == <<parent, region, state, count>>
graphVars == <<port_set, edge_set, vertex_map, vertices, cleared>>
forestVars == <<treeVars, graphVars, color_map, drawing>>

Root == 1
Black == Colours
Forest == DOMAIN parent
Building == {n \in Forest : state[n] = "building"}

\* The function f with the value y at x.
With(f, x, y) == [z \in DOMAIN f \cup {x} |-> IF z = x THEN y ELSE f[z]]

NoDrawing == [colour |-> <<>>, known |-> {}, ports |-> {}, edges |-> {}, aborted |-> FALSE]

TreeInit ==
  /\ parent = [n \in {Root} |-> Root]
  /\ region = [n \in {Root} |-> RootRegion]
  /\ state = [n \in {Root} |-> "built"]
  /\ count = 1
  /\ port_set = {} /\ edge_set = {} /\ vertex_map = <<>> /\ vertices = 0 /\ cleared = FALSE
  /\ color_map = <<>>
  /\ drawing = NoDrawing
--------------------------------------------------------------------------------
(* The forest.                                                             *)

\* A constructor makes children of its own node; other calls come from outside.
Owner(p) ==
  /\ ~drawing.aborted
  /\ IF Building = {} THEN state[p] \in {"built", "manual"} ELSE p = Max(Building)

\* add_child and new_node: a proxy is inserted as the last child of p.
InsertChild(p, r, s) ==
  /\ Owner(p)
  /\ count < MaxNodes
  /\ count' = count + 1
  /\ parent' = With(parent, count', p)
  /\ region' = With(region, count', r)
  /\ state' = With(state, count', s)
  /\ drawing' = NoDrawing
  /\ UNCHANGED <<graphVars, color_map>>

\* new_node: the caller keeps the node, until it is erased; the forest holds a proxy.
NewNode(p, r) == InsertChild(p, r, "manual")

\* make_child_impl: the constructor of the node starts with the proxy in place...
BeginMakeChild(p, r) == InsertChild(p, r, "building")

\* ...and the node replaces the proxy,
EndMakeChild ==
  /\ Building # {}
  /\ state' = [state EXCEPT ![Max(Building)] = "built"]
  /\ drawing' = NoDrawing
  /\ UNCHANGED <<parent, region, count, graphVars, color_map>>

\* or the constructor throws: the proxy, and the children made so far, stay.
ConstructorThrows ==
  /\ Building # {}
  /\ state' = [state EXCEPT ![Max(Building)] = "failed"]
  /\ drawing' = NoDrawing
  /\ UNCHANGED <<parent, region, count, graphVars, color_map>>

Ancestors(n) ==
  LET up[m \in Forest] == IF m = Root THEN {Root} ELSE {m} \cup up[parent[m]]
  IN up[n]

\* erase_with_subtree: leading to trailing position of n.  The graph is not told.
Erase(n) ==
  LET kept == {m \in Forest : n \notin Ancestors(m)}
  IN /\ n # Root /\ Building = {} /\ ~drawing.aborted
     /\ parent' = Restrict(parent, kept)
     /\ region' = Restrict(region, kept)
     /\ state' = Restrict(state, kept)
     /\ drawing' = NoDrawing
     /\ UNCHANGED <<count, graphVars, color_map>>
--------------------------------------------------------------------------------
(* The connection graph.                                                   *)

\* graph_connectable(graph, graph_info): the constructor of a port of node n.
NewPort(n) ==
  /\ ~drawing.aborted
  /\ n # Root
  /\ IF Building = {} THEN state[n] = "manual" ELSE n = Max(Building)
  /\ port_set' = port_set \cup {n}
  /\ drawing' = NoDrawing
  /\ UNCHANGED <<treeVars, edge_set, vertex_map, vertices, cleared, color_map>>

\* Mutant of AddVertex: a known vertex is added again.
AddVertexAlways(g, n) == [map |-> With(g.map, n, g.size), size |-> g.size + 1]

\* Helper of add_connection: add_vertex unless the node is known.
AddVertex(g, n) ==
  IF n \in DOMAIN g.map THEN g ELSE [map |-> With(g.map, n, g.size), size |-> g.size + 1]

\* add_connection.  boost::add_edge adds the vertices up to its descriptors if they
\* are missing.
add_connection(g, source, sink) ==
  LET h == AddVertex(AddVertex(g, source), sink)
  IN [h EXCEPT !.size = Max({@, h.map[source] + 1, h.map[sink] + 1})]

\* add_connection for one pair of neighbours on the path after the other.
add_connections(g, path) ==
  LET after[i \in 1 .. Len(path)] ==
        IF i = 1 THEN g ELSE add_connection(after[i - 1], path[i - 1], path[i])
  IN after[Len(path)]

\* Mutant of PortsOf: only the ends of the path are entered as ports.
PortsOfEnds(path) == {path[1], Last(path)}

\* The calls of add_port at the end of add_event_connection.
PortsOf(path) == Range(path)

\* graph_connectable::connect on the path from one port over named connectables to another.
Connect(path) ==
  LET pairs == [i \in 1 .. Len(path) - 1 |-> <<path[i], path[i + 1]>>]
      g == add_connections([map |-> vertex_map, size |-> vertices], path)
  IN /\ ~drawing.aborted
     /\ edge_set' = edge_set \cup Range(pairs)
     /\ Cardinality(edge_set') <= MaxEdges
     /\ vertex_map' = g.map
     /\ vertices' = g.size
     /\ port_set' = port_set \cup PortsOf(path)
     /\ drawing' = NoDrawing
     /\ UNCHANGED <<treeVars, cleared, color_map>>

LivePorts == {n \in port_set \cap Forest : state[n] # "failed"}

\* At most two named connectables lie between the ports.
Between ==
  {<<>>} \cup {<<f>> : f \in Named} \cup {fs \in Named \X Named : fs[1] # fs[2]}

\* clear_graph clears dataflow_graph and nothing else.
clear_graph ==
  /\ ~drawing.aborted
  /\ vertices' = 0
  /\ cleared' = TRUE
  /\ drawing' = NoDrawing
  /\ UNCHANGED <<treeVars, port_set, edge_set, vertex_map, color_map>>
--------------------------------------------------------------------------------
(* Visualization.                                                          *)

\* The root, which is no child, stands in for the other nodes.
Children(n) ==
  Without([m \in 1 .. count |-> IF m \in Forest /\ parent[m] = n THEN m ELSE Root], Root)

\* print_subgraph visits a node, then its children.
Preorder(n) ==
  LET walk[m \in Forest] ==
        <<m>> \o FlattenSeq([i \in DOMAIN Children(m) |-> walk[Children(m)[i]]])
  IN walk[n]

\* Mutant of get_color: the index of the next colour is not advanced.
get_colorSameIndex(c, r) ==
  IF r \in DOMAIN c.map THEN [c EXCEPT !.colour = With(@, r, c.map[r])]
  ELSE IF c.index >= Colours THEN [c EXCEPT !.colour = With(@, r, Black)]
  ELSE [map |-> With(c.map, r, c.index), index |-> c.index, colour |-> With(c.colour, r, c.index)]

\* get_color: the colour of region r; current_color_index_ is c.index.
get_color(c, r) ==
  IF r \in DOMAIN c.map THEN [c EXCEPT !.colour = With(@, r, c.map[r])]
  ELSE IF c.index >= Colours THEN [c EXCEPT !.colour = With(@, r, Black)]
  ELSE [map |-> With(c.map, r, c.index), index |-> c.index + 1, colour |-> With(c.colour, r, c.index)]

\* get_color for one node after the other.
ColourNodes(order) ==
  LET c[i \in 0 .. Len(order)] ==
        IF i = 0 THEN [map |-> color_map, index |-> 0, colour |-> <<>>]
                 ELSE get_color(c[i - 1], region[order[i]])
  IN c[Len(order)]

find_node_ports(n) == port_set \cap {n}

find_connectables(p) == {f \in Named : <<p, f>> \in edge_set}

\* print_ports is called for the ports of the nodes, the connectables behind them and
\* the named ports.
DrawnPorts ==
  (UNION {find_node_ports(n) \cup UNION {find_connectables(p) : p \in find_node_ports(n)} : n \in Forest})
    \cup (port_set \cap Named)

\* to_port_type: a named connectable is neither an event port nor a state port.
port_type(p) == IF p \in Named THEN "UNDEFINED" ELSE "EVENT"

\* The assertion of merge_property_types fails.
Untyped(e) == port_type(e[1]) = "UNDEFINED" /\ port_type(e[2]) = "UNDEFINED"

visualize ==
  LET c == ColourNodes(Preorder(Root))
  IN /\ Building = {} /\ ~drawing.aborted
     /\ color_map' = c.map
     /\ drawing' = [colour |-> c.colour, known |-> DOMAIN color_map, ports |-> DrawnPorts,
                    edges |-> edge_set, aborted |-> \E e \in edge_set : Untyped(e)]
     /\ UNCHANGED <<treeVars, graphVars>>

TreeNext ==
  \/ \E p \in Forest, r \in Regions : NewNode(p, r) \/ BeginMakeChild(p, r)
  \/ EndMakeChild
  \/ ConstructorThrows
  \/ \E n \in Forest : Erase(n) \/ NewPort(n)
  \/ \E p, q \in LivePorts, fs \in Between : p # q /\ Connect(<<p>> \o fs \o <<q>>)
  \/ clear_graph
  \/ visualize

TreeSpec == TreeInit /\ [][TreeNext]_forestVars
--------------------------------------------------------------------------------
(* Properties.                                                             *)

(***************************************************************************)
(* The documented invariant of connection_graph, that dataflow_graph has   *)
(* as many vertices as vertex_map has entries, holds until clear_graph is  *)
(* called, and every node of an edge has its vertex.  add_connection has   *)
(* to keep three containers in step over repeated and branching paths.     *)
(***************************************************************************)
VerticesInStep ==
  /\ ~cleared => vertices = Cardinality(DOMAIN vertex_map)
  /\ ~cleared => {vertex_map[n] : n \in DOMAIN vertex_map} = 0 .. vertices - 1
  /\ UNION {{e[1], e[2]} : e \in edge_set} = DOMAIN vertex_map

(***************************************************************************)
(* A drawn edge ends at ports that are drawn too, unless the node of the   *)
(* port was erased: also when the constructor of the node threw, when the  *)
(* node is owned by its user, or when a named connectable lies between.    *)
(* The graph and the forest that visualize combines change independently.  *)
(***************************************************************************)
EdgesEndAtDrawnPorts ==
  ~drawing.aborted =>
    \A e \in drawing.edges : \A p \in {e[1], e[2]} :
      p \in drawing.ports \/ p \in 1 .. count \ Forest

(***************************************************************************)
(* A drawing shows every region that has a node in the forest, however     *)
(* nodes were inserted, failed and erased, and the regions it shows for    *)
(* the first time get different colours as long as there are colours left; *)
(* get_color hands them out in the order in which print_subgraph walks the *)
(* forest.                                                                 *)
(***************************************************************************)
ColoursTellRegionsApart ==
  /\ drawing # NoDrawing => DOMAIN drawing.colour = {region[n] : n \in Forest}
  /\ \A r, s \in DOMAIN drawing.colour \ drawing.known :
       r # s /\ drawing.colour[r] = drawing.colour[s] => drawing.colour[r] = Black
================================================================================
