----------------------------- MODULE NodeTreeProofs ----------------------------
(***************************************************************************)
(* Proofs about NodeTree for any number of nodes, edges, regions, colours  *)
(* and named connectables.                                                 *)
(***************************************************************************)
EXTENDS NodeTree, SequenceProofs, FiniteSetTheorems

Neighbours(path) == [i \in 1 .. Len(path) - 1 |-> <<path[i], path[i + 1]>>]

(***************************************************************************)
(* The numbers of the nodes, the ports and the ends of the edges: an edge  *)
(* ends at a port that was entered, and a port belongs to a node that      *)
(* entered the forest or is a named connectable.                           *)
(***************************************************************************)
PortsInv ==
  /\ count \in Nat /\ Forest \subseteq 1 .. count
  /\ port_set \subseteq 1 .. count \cup Named
  /\ \A e \in edge_set : e[1] \in port_set /\ e[2] \in port_set

(***************************************************************************)
(* The paths of graph_connectable::connect: two to four connectables, each *)
(* of them a port of a node in the forest or named.                        *)
(***************************************************************************)
PathSet == {path \in Seq((port_set \cap Forest) \cup Named) : Len(path) \in {2, 3, 4}}

\* The paths that TreeNext connects are among them.
LEMMA PathType ==
  ASSUME NEW p \in LivePorts, NEW q \in LivePorts, NEW fs \in Between
  PROVE  <<p>> \o fs \o <<q>> \in PathSet
<1> DEFINE S == (port_set \cap Forest) \cup Named
<1>1. p \in S /\ q \in S /\ Named \subseteq S
  BY DEF LivePorts
<1>2. fs \in Seq(S) /\ Len(fs) \in {0, 1, 2}
  <2> HIDE DEF S
  <2>1. CASE fs = <<>>
    BY <2>1
  <2>2. ASSUME NEW f \in Named, fs = <<f>> PROVE fs \in Seq(S) /\ Len(fs) \in {0, 1, 2}
    BY <1>1, <2>2
  <2>3. CASE fs \in Named \X Named
    <3>1. PICK f, h \in Named : fs = <<f, h>>
      BY <2>3
    <3>2. f \in S /\ h \in S
      BY <1>1
    <3>3. QED
      BY <3>1, <3>2
  <2>4. QED
    BY <2>1, <2>2, <2>3 DEF Between
<1> HIDE DEF S
<1>3. <<p>> \in Seq(S) /\ <<q>> \in Seq(S) /\ Len(<<p>>) = 1 /\ Len(<<q>>) = 1
  BY <1>1
<1>4. <<p>> \o fs \in Seq(S) /\ Len(<<p>> \o fs) = 1 + Len(fs)
  BY <1>2, <1>3
<1>5. <<p>> \o fs \o <<q>> \in Seq(S) /\ Len(<<p>> \o fs \o <<q>>) = 1 + Len(fs) + 1
  BY <1>3, <1>4
<1>6. Len(<<p>> \o fs \o <<q>>) \in {2, 3, 4}
  <2>1. \A n \in {0, 1, 2} : 1 + n + 1 \in {2, 3, 4}
    OBVIOUS
  <2>2. QED
    BY <1>2, <1>5, <2>1, Zenon
<1>7. QED
  BY <1>5, <1>6, Zenon DEF S, PathSet

(***************************************************************************)
(* What Connect does to the ports and the edges.                           *)
(***************************************************************************)
LEMMA ConnectFields ==
  ASSUME NEW path, Connect(path)
  PROVE  /\ edge_set' = edge_set \cup Range(Neighbours(path))
         /\ port_set' = port_set \cup Range(path)
         /\ drawing' = NoDrawing
         /\ vertex_map' = add_connections([map |-> vertex_map, size |-> vertices], path).map
         /\ vertices' = add_connections([map |-> vertex_map, size |-> vertices], path).size
         /\ UNCHANGED <<treeVars, cleared, color_map>>
BY Zenon DEF Connect, Neighbours, PortsOf

\* The ends of the pairs of neighbours are the elements of the path.
LEMMA RangeOfPath ==
  ASSUME NEW S, NEW path \in Seq(S), Len(path) \in {2, 3, 4}
  PROVE  /\ Range(path) \subseteq S
         /\ \A e \in Range(Neighbours(path)) : e[1] \in Range(path) /\ e[2] \in Range(path)
         /\ \A x \in Range(path) : \E e \in Range(Neighbours(path)) : x \in {e[1], e[2]}
<1>1. DOMAIN path = 1 .. Len(path) /\ DOMAIN Neighbours(path) = 1 .. Len(path) - 1
  BY DEF Neighbours
<1>2. \A i \in 1 .. Len(path) - 1 :
        /\ i \in 1 .. Len(path) /\ i + 1 \in 1 .. Len(path)
        /\ Neighbours(path)[i] = <<path[i], path[i + 1]>>
  BY DEF Neighbours
<1>3. Range(path) \subseteq S
  BY <1>1 DEF Range
<1>4. ASSUME NEW e \in Range(Neighbours(path))
      PROVE  e[1] \in Range(path) /\ e[2] \in Range(path)
  <2>1. PICK i \in 1 .. Len(path) - 1 : e = Neighbours(path)[i]
    BY <1>1, Zenon DEF Range
  <2>2. e[1] = path[i] /\ e[2] = path[i + 1]
    BY <1>2, <2>1
  <2>3. QED
    BY <1>1, <1>2, <2>2, Zenon DEF Range
<1>5. ASSUME NEW x \in Range(path)
      PROVE  \E e \in Range(Neighbours(path)) : x \in {e[1], e[2]}
  <2>1. PICK i \in 1 .. Len(path) : path[i] = x
    BY <1>1 DEF Range
  <2>2. CASE i \in 1 .. Len(path) - 1
    <3>1. Neighbours(path)[i] = <<x, path[i + 1]>>
      BY <1>2, <2>1, <2>2
    <3>2. QED
      BY <1>1, <2>2, <3>1 DEF Range
  <2>3. CASE i \notin 1 .. Len(path) - 1
    <3>1. i - 1 \in 1 .. Len(path) - 1 /\ (i - 1) + 1 = i
      BY <2>1, <2>3
    <3>2. Neighbours(path)[i - 1] = <<path[i - 1], x>>
      BY <1>2, <2>1, <3>1
    <3>3. QED
      BY <1>1, <3>1, <3>2 DEF Range
  <2>4. QED
    BY <2>2, <2>3
<1>6. QED
  BY <1>3, <1>4, <1>5
--------------------------------------------------------------------------------
(* Drawn edges.                                                            *)

\* Only Connect enters edges, and it enters the ports of its path with them.
LEMMA PortsInvStep ==
  ASSUME PortsInv, [TreeNext]_forestVars
  PROVE  PortsInv'
<1> USE DEF treeVars, graphVars, forestVars
<1>1. ASSUME UNCHANGED <<parent, count, port_set, edge_set>> PROVE PortsInv'
  BY <1>1 DEF PortsInv, Forest
<1>2. ASSUME NEW p \in Forest, NEW r \in Regions, NewNode(p, r) \/ BeginMakeChild(p, r)
      PROVE  PortsInv'
  <2>1. /\ count' = count + 1 /\ parent' = With(parent, count', p)
        /\ UNCHANGED <<port_set, edge_set>>
    BY <1>2 DEF NewNode, BeginMakeChild, InsertChild
  <2>2. Forest' = Forest \cup {count'}
    BY <2>1 DEF Forest, With
  <2>3. QED
    BY <2>1, <2>2 DEF PortsInv
<1>3. ASSUME NEW n \in Forest, Erase(n) PROVE PortsInv'
  <2>1. Forest' \subseteq Forest /\ UNCHANGED <<count, port_set, edge_set>>
    BY <1>3 DEF Erase, Forest, Restrict
  <2>2. QED
    BY <2>1 DEF PortsInv
<1>4. ASSUME NEW n \in Forest, NewPort(n) PROVE PortsInv'
  <2>1. port_set' = port_set \cup {n} /\ UNCHANGED <<parent, count, edge_set>>
    BY <1>4 DEF NewPort
  <2>2. QED
    BY <1>4, <2>1, Zenon DEF PortsInv, Forest
<1>5. ASSUME NEW path \in PathSet, Connect(path) PROVE PortsInv'
  <2>1. /\ edge_set' = edge_set \cup Range(Neighbours(path))
        /\ port_set' = port_set \cup Range(path) /\ UNCHANGED <<parent, count>>
    BY <1>5, ConnectFields
  <2>2. /\ Range(path) \subseteq (port_set \cap Forest) \cup Named
        /\ \A e \in Range(Neighbours(path)) : e[1] \in Range(path) /\ e[2] \in Range(path)
    BY RangeOfPath DEF PathSet
  <2>3. QED
    BY <2>1, <2>2 DEF PortsInv, Forest
<1>6. CASE EndMakeChild \/ ConstructorThrows \/ clear_graph \/ visualize \/ UNCHANGED forestVars
  BY <1>1, <1>6, Zenon DEF EndMakeChild, ConstructorThrows, clear_graph, visualize
<1>7. QED
  BY <1>2, <1>3, <1>4, <1>5, <1>6, PathType, Zenon DEF TreeNext

(***************************************************************************)
(* Every step but visualize discards the drawing.                          *)
(***************************************************************************)
LEMMA DrawingStep ==
  ASSUME TreeNext
  PROVE  visualize \/ drawing' = NoDrawing
BY Zenon DEF TreeNext, NewNode, BeginMakeChild, InsertChild, EndMakeChild, ConstructorThrows,
             Erase, NewPort, Connect, clear_graph

(***************************************************************************)
(* A drawn edge ends at ports that visualize draws too, unless the node of *)
(* the port was erased, whatever constructors threw and however paths over *)
(* named connectables share their ports.                                   *)
(***************************************************************************)
THEOREM EdgesAreDrawnWithPorts == TreeSpec => []EdgesEndAtDrawnPorts
<1>1. TreeInit => PortsInv /\ EdgesEndAtDrawnPorts
  <2>1. SUFFICES ASSUME TreeInit PROVE PortsInv /\ EdgesEndAtDrawnPorts
    OBVIOUS
  <2>2. Forest = {1} /\ count = 1 /\ port_set = {} /\ edge_set = {} /\ drawing.edges = {}
    BY <2>1 DEF TreeInit, Forest, Root, NoDrawing
  <2>3. QED
    BY <2>2 DEF PortsInv, EdgesEndAtDrawnPorts
<1>2. ASSUME PortsInv, EdgesEndAtDrawnPorts, [TreeNext]_forestVars
      PROVE  EdgesEndAtDrawnPorts'
  <2>1. CASE UNCHANGED forestVars
    BY <1>2, <2>1 DEF EdgesEndAtDrawnPorts, forestVars, treeVars, Forest
  <2>2. CASE TreeNext /\ drawing' = NoDrawing
    BY <2>2 DEF EdgesEndAtDrawnPorts, NoDrawing
  <2>3. CASE visualize
    <3>1. /\ drawing'.ports = DrawnPorts /\ drawing'.edges = edge_set
          /\ UNCHANGED <<parent, count>>
      BY <2>3 DEF visualize, treeVars
    <3>2. ASSUME NEW p \in port_set PROVE p \in DrawnPorts \/ p \in 1 .. count \ Forest
      <4> DEFINE near(n) == UNION {find_connectables(m) : m \in find_node_ports(n)}
                 drawn(n) == find_node_ports(n) \cup near(n)
      <4>a. DrawnPorts = (UNION {drawn(n) : n \in Forest}) \cup (port_set \cap Named)
        BY DEF DrawnPorts
      <4>b. p \in find_node_ports(p)
        BY DEF find_node_ports
      <4> HIDE DEF near
      <4>c. p \in drawn(p)
        BY <4>b
      <4> HIDE DEF drawn
      <4>1. CASE p \in Forest
        BY <4>a, <4>c, <4>1
      <4>2. CASE p \in Named
        BY <4>a, <4>2
      <4>3. p \in 1 .. count \/ p \in Named
        BY <1>2 DEF PortsInv
      <4>4. QED
        BY <4>1, <4>2, <4>3, Zenon
    <3>3. QED
      BY <1>2, <3>1, <3>2, Zenon DEF PortsInv, EdgesEndAtDrawnPorts, Forest
  <2>4. QED
    BY <1>2, <2>1, <2>2, <2>3, DrawingStep
<1>3. PortsInv /\ [TreeNext]_forestVars => PortsInv'
  BY PortsInvStep
<1>4. QED
  BY <1>1, <1>2, <1>3, PTL DEF TreeSpec
--------------------------------------------------------------------------------
(* The vertices of dataflow_graph.                                         *)

(***************************************************************************)
(* The pair of vertex_map and the number of vertices, as add_connection    *)
(* finds it, and the part of the documented invariant that clear_graph     *)
(* breaks: the descriptors are the numbers of the vertices.                *)
(***************************************************************************)
GraphOK(g) ==
  /\ IsFiniteSet(DOMAIN g.map) /\ g.map \in [DOMAIN g.map -> Nat]
  /\ g.size \in Nat /\ DOMAIN g = {"map", "size"}

Tight(g) ==
  /\ g.size = Cardinality(DOMAIN g.map)
  /\ {g.map[n] : n \in DOMAIN g.map} = 0 .. g.size - 1

(***************************************************************************)
(* AddVertex adds one vertex for a new node, and its number is the         *)
(* descriptor.                                                             *)
(***************************************************************************)
LEMMA AddVertexKeeps ==
  ASSUME NEW g, NEW n, GraphOK(g)
  PROVE  /\ GraphOK(AddVertex(g, n))
         /\ DOMAIN AddVertex(g, n).map = DOMAIN g.map \cup {n}
         /\ Tight(g) => Tight(AddVertex(g, n))
<1> DEFINE h == AddVertex(g, n)
<1>1. CASE n \in DOMAIN g.map
  <2>1. h = g
    BY <1>1 DEF AddVertex
  <2>2. DOMAIN g.map = DOMAIN g.map \cup {n}
    BY <1>1
  <2> HIDE DEF h
  <2>3. QED
    BY <2>1, <2>2, Zenon DEF h
<1>2. CASE n \notin DOMAIN g.map
  <2>1. h.map = With(g.map, n, g.size) /\ h.size = g.size + 1 /\ DOMAIN h = {"map", "size"}
    BY <1>2 DEF AddVertex
  <2> HIDE DEF h
  <2>2. /\ DOMAIN h.map = DOMAIN g.map \cup {n} /\ h.map[n] = g.size
        /\ \A m \in DOMAIN g.map : h.map[m] = g.map[m]
        /\ h.map \in [DOMAIN g.map \cup {n} -> Nat]
    BY <1>2, <2>1 DEF With, GraphOK
  <2>3. /\ IsFiniteSet(DOMAIN g.map \cup {n})
        /\ Cardinality(DOMAIN g.map \cup {n}) = Cardinality(DOMAIN g.map) + 1
    BY <1>2, FS_AddElement, Zenon DEF GraphOK
  <2>4. GraphOK(h)
    BY <2>1, <2>2, <2>3 DEF GraphOK
  <2>5. ASSUME Tight(g) PROVE Tight(h)
    <3>1. h.size = Cardinality(DOMAIN h.map)
      BY <2>1, <2>2, <2>3, <2>5 DEF Tight
    <3>2. {h.map[m] : m \in DOMAIN h.map} = {g.map[m] : m \in DOMAIN g.map} \cup {g.size}
      BY <2>2
    <3>3. (0 .. g.size - 1) \cup {g.size} = 0 .. h.size - 1
      BY <2>1 DEF GraphOK
    <3>4. QED
      BY <2>5, <3>1, <3>2, <3>3, Zenon DEF Tight
  <2>6. QED
    BY <2>2, <2>4, <2>5, Zenon DEF h
<1>3. QED
  BY <1>1, <1>2

(***************************************************************************)
(* add_connection: add_edge finds both vertices, so that it adds none,     *)
(* unless clear_graph took them away.                                      *)
(***************************************************************************)
LEMMA AddConnectionKeeps ==
  ASSUME NEW g, NEW source, NEW sink, GraphOK(g)
  PROVE  LET k == add_connection(g, source, sink)
         IN /\ GraphOK(k) /\ DOMAIN k.map = DOMAIN g.map \cup {source, sink}
            /\ Tight(g) => Tight(k)
<1> DEFINE h == AddVertex(AddVertex(g, source), sink)
           S == {h.size, h.map[source] + 1, h.map[sink] + 1}
           k == add_connection(g, source, sink)
<1>1. /\ GraphOK(h) /\ DOMAIN h.map = DOMAIN g.map \cup {source, sink}
      /\ Tight(g) => Tight(h)
  <2> DEFINE a == AddVertex(g, source)
  <2>1. /\ GraphOK(a) /\ DOMAIN a.map = DOMAIN g.map \cup {source}
        /\ Tight(g) => Tight(a)
    BY AddVertexKeeps, Zenon
  <2> HIDE DEF a
  <2>2. /\ GraphOK(AddVertex(a, sink)) /\ DOMAIN AddVertex(a, sink).map = DOMAIN a.map \cup {sink}
        /\ Tight(a) => Tight(AddVertex(a, sink))
    BY <2>1, AddVertexKeeps, Zenon
  <2>3. DOMAIN a.map \cup {sink} = DOMAIN g.map \cup {source, sink}
    BY <2>1
  <2>4. QED
    BY <2>1, <2>2, <2>3, Zenon DEF a
<1>2. k.map = h.map /\ k.size = Max(S) /\ DOMAIN k = {"map", "size"}
  <2>1. DOMAIN h = {"map", "size"}
    BY <1>1, Zenon DEF GraphOK
  <2>2. k = [h EXCEPT !.size = Max(S)]
    BY DEF add_connection
  <2> HIDE DEF h, S, k
  <2>3. QED
    BY <2>1, <2>2
<1> HIDE DEF h, k
<1>3. h.size \in Nat /\ h.map[source] \in Nat /\ h.map[sink] \in Nat
  BY <1>1 DEF GraphOK
<1>4. Max(S) \in S /\ \A y \in S : Max(S) >= y
  <2>1. \E x \in S : \A y \in S : x >= y
    BY <1>3
  <2> HIDE DEF S
  <2>2. QED
    BY <2>1, Zenon DEF Max
<1>5. Max(S) \in Nat
  BY <1>3, <1>4
<1>6. GraphOK(k)
  BY <1>1, <1>2, <1>5 DEF GraphOK
<1>7. ASSUME Tight(h) PROVE Max(S) = h.size
  <2>1. h.map[source] \in 0 .. h.size - 1 /\ h.map[sink] \in 0 .. h.size - 1
    BY <1>1, <1>7 DEF Tight
  <2>2. QED
    BY <1>3, <1>4, <2>1
<1>8. Tight(g) => Tight(k)
  BY <1>1, <1>2, <1>7, Zenon DEF Tight
<1>9. QED
  BY <1>1, <1>2, <1>6, <1>8, Zenon DEF k

(***************************************************************************)
(* The loop of add_event_connection on a path of two to four connectables, *)
(* unrolled.  A recursive function is chosen; a function that satisfies    *)
(* its equation is given explicitly.                                       *)
(***************************************************************************)
LEMMA Unrolled ==
  ASSUME NEW g, NEW path, Len(path) \in {2, 3, 4}
  PROVE  LET a == add_connection(g, path[1], path[2])
             b == add_connection(a, path[2], path[3])
             c == add_connection(b, path[3], path[4])
         IN add_connections(g, path) =
              IF Len(path) = 2 THEN a ELSE IF Len(path) = 3 THEN b ELSE c
<1> DEFINE a == add_connection(g, path[1], path[2])
           b == add_connection(a, path[2], path[3])
           c == add_connection(b, path[3], path[4])
           D == 1 .. Len(path)
           E(f) == f = [i \in D |-> IF i = 1 THEN g
                                    ELSE add_connection(f[i - 1], path[i - 1], path[i])]
           w == [i \in D |-> IF i = 1 THEN g ELSE IF i = 2 THEN a ELSE IF i = 3 THEN b ELSE c]
           after == CHOOSE f : E(f)
<1>1. add_connections(g, path) = after[Len(path)]
  BY Zenon DEF add_connections
<1>2. E(w)
  <2>1. ASSUME NEW i \in D
        PROVE  w[i] = IF i = 1 THEN g ELSE add_connection(w[i - 1], path[i - 1], path[i])
    <3>1. CASE i = 1
      BY <3>1
    <3>2. CASE i = 2
      <4>1. w[1] = g /\ w[2] = a
        BY <3>2
      <4> HIDE DEF w
      <4>2. QED
        BY <3>2, <4>1
    <3>3. CASE i = 3
      <4>1. w[2] = a /\ w[3] = b
        BY <3>3
      <4> HIDE DEF w, a
      <4>2. QED
        BY <3>3, <4>1
    <3>4. CASE i = 4
      <4>1. w[3] = b /\ w[4] = c
        BY <3>4
      <4> HIDE DEF w, b
      <4>2. QED
        BY <3>4, <4>1
    <3>5. i \in {1, 2, 3, 4}
      <4>1. \A l \in {2, 3, 4} : \A j \in 1 .. l : j \in {1, 2, 3, 4}
        OBVIOUS
      <4>2. QED
        BY <4>1, Zenon
    <3>6. QED
      BY <3>1, <3>2, <3>3, <3>4, <3>5, Zenon
  <2>2. w = [i \in D |-> w[i]]
    OBVIOUS
  <2> HIDE DEF w
  <2>3. QED
    BY <2>1, <2>2, Zenon
<1>3. E(after)
  <2> HIDE DEF E, w
  <2>1. QED
    BY <1>2, Zenon
<1> HIDE DEF after
<1>4. \A i \in D : after[i] = IF i = 1 THEN g
                              ELSE add_connection(after[i - 1], path[i - 1], path[i])
  BY <1>3, Zenon
<1>5. after[1] = g /\ after[2] = a
  <2>1. 1 \in D /\ 2 \in D /\ 2 - 1 = 1 /\ 2 # 1
    OBVIOUS
  <2> HIDE DEF D
  <2>2. QED
    BY <1>4, <2>1
<1>6. 3 \in D => after[3] = b
  <2>1. 3 - 1 = 2 /\ 3 # 1
    OBVIOUS
  <2> HIDE DEF D, a
  <2>2. QED
    BY <1>4, <1>5, <2>1
<1>7. 4 \in D => after[4] = c
  <2>1. 4 - 1 = 3 /\ 4 # 1 /\ (4 \in D => 3 \in D)
    OBVIOUS
  <2> HIDE DEF D, b
  <2>2. QED
    BY <1>4, <1>6, <2>1
<1>8. (Len(path) = 3 => 3 \in D) /\ (Len(path) = 4 => 4 \in D)
  <2>1. 3 \in 1 .. 3 /\ 4 \in 1 .. 4
    OBVIOUS
  <2>2. QED
    BY <2>1, Zenon
<1> HIDE DEF D, a, b, c
<1>9. QED
  BY <1>1, <1>5, <1>6, <1>7, <1>8, Zenon DEF a, b, c

(***************************************************************************)
(* The calls of add_connection for one path.                               *)
(***************************************************************************)
LEMMA AddConnectionsKeeps ==
  ASSUME NEW S, NEW path \in Seq(S), Len(path) \in {2, 3, 4}, NEW g, GraphOK(g)
  PROVE  LET k == add_connections(g, path)
         IN /\ GraphOK(k) /\ DOMAIN k.map = DOMAIN g.map \cup Range(path)
            /\ Tight(g) => Tight(k)
<1> DEFINE a == add_connection(g, path[1], path[2])
           b == add_connection(a, path[2], path[3])
           c == add_connection(b, path[3], path[4])
           k == add_connections(g, path)
<1>1. k = IF Len(path) = 2 THEN a ELSE IF Len(path) = 3 THEN b ELSE c
  BY Unrolled
<1>2. /\ GraphOK(a) /\ DOMAIN a.map = DOMAIN g.map \cup {path[1], path[2]}
      /\ Tight(g) => Tight(a)
  BY AddConnectionKeeps, Zenon
<1> HIDE DEF a, k
<1>3. /\ GraphOK(b) /\ DOMAIN b.map = DOMAIN a.map \cup {path[2], path[3]}
      /\ Tight(a) => Tight(b)
  BY <1>2, AddConnectionKeeps, Zenon
<1> HIDE DEF b
<1>4. /\ GraphOK(c) /\ DOMAIN c.map = DOMAIN b.map \cup {path[3], path[4]}
      /\ Tight(b) => Tight(c)
  BY <1>3, AddConnectionKeeps, Zenon
<1> HIDE DEF c
<1>5. Range(path) = {path[i] : i \in 1 .. Len(path)}
  BY DEF Range
<1>6. CASE Len(path) = 2
  <2>1. k = a
    BY <1>1, <1>6, Zenon
  <2>2. 1 .. 2 = {1, 2}
    OBVIOUS
  <2>3. Range(path) = {path[1], path[2]}
    BY <1>5, <1>6, <2>2
  <2>4. QED
    BY <1>2, <2>1, <2>3, Zenon DEF k
<1>7. CASE Len(path) = 3
  <2>1. k = b
    BY <1>1, <1>7
  <2>2. 1 .. 3 = {1, 2, 3}
    OBVIOUS
  <2>3. Range(path) = {path[1], path[2], path[3]}
    BY <1>5, <1>7, <2>2
  <2>4. DOMAIN b.map = DOMAIN g.map \cup Range(path)
    BY <1>2, <1>3, <2>3
  <2>5. QED
    BY <1>2, <1>3, <2>1, <2>4, Zenon DEF k
<1>8. CASE Len(path) = 4
  <2>1. k = c
    BY <1>1, <1>8
  <2>2. 1 .. 4 = {1, 2, 3, 4}
    OBVIOUS
  <2>3. Range(path) = {path[1], path[2], path[3], path[4]}
    BY <1>5, <1>8, <2>2
  <2>4. DOMAIN c.map = DOMAIN g.map \cup Range(path)
    BY <1>2, <1>3, <1>4, <2>3
  <2>5. QED
    BY <1>2, <1>3, <1>4, <2>1, <2>4, Zenon DEF k
<1>9. QED
  BY <1>6, <1>7, <1>8, Zenon

(***************************************************************************)
(* The three containers of connection_graph.                               *)
(***************************************************************************)
CurrentGraph == [map |-> vertex_map, size |-> vertices]

VertexInv ==
  /\ GraphOK(CurrentGraph)
  /\ ~cleared => Tight(CurrentGraph)
  /\ UNION {{e[1], e[2]} : e \in edge_set} = DOMAIN vertex_map

\* Only Connect and clear_graph change the graph.
LEMMA VertexInvStep ==
  ASSUME VertexInv, [TreeNext]_forestVars
  PROVE  VertexInv'
<1>1. ASSUME UNCHANGED <<vertex_map, vertices, cleared, edge_set>> PROVE VertexInv'
  BY <1>1, Zenon DEF VertexInv, CurrentGraph, GraphOK, Tight
<1>2. CASE clear_graph
  <2>1. /\ vertices' = 0 /\ cleared' = TRUE /\ UNCHANGED <<vertex_map, edge_set>>
    BY <1>2, Zenon DEF clear_graph
  <2>2. GraphOK(CurrentGraph)'
    BY <2>1 DEF VertexInv, GraphOK, CurrentGraph
  <2>3. QED
    BY <2>1, <2>2, Zenon DEF VertexInv
<1>3. ASSUME NEW path \in PathSet, Connect(path) PROVE VertexInv'
  <2> DEFINE k == add_connections(CurrentGraph, path)
             pairs == Range(Neighbours(path))
  <2>1. /\ edge_set' = edge_set \cup pairs /\ cleared' = cleared
        /\ vertex_map' = k.map /\ vertices' = k.size
    BY <1>3, ConnectFields, Zenon DEF CurrentGraph
  <2>2. /\ GraphOK(k) /\ DOMAIN k.map = DOMAIN CurrentGraph.map \cup Range(path)
        /\ Tight(CurrentGraph) => Tight(k)
    BY AddConnectionsKeeps, Zenon DEF PathSet, VertexInv
  <2>3. /\ \A e \in pairs : e[1] \in Range(path) /\ e[2] \in Range(path)
        /\ \A x \in Range(path) : \E e \in pairs : x \in {e[1], e[2]}
    BY RangeOfPath, Zenon DEF PathSet
  <2> HIDE DEF k, pairs
  <2>4. k.map = CurrentGraph'.map /\ k.size = CurrentGraph'.size /\ DOMAIN CurrentGraph' = {"map", "size"}
    BY <2>1 DEF CurrentGraph
  <2>5. GraphOK(CurrentGraph') /\ (Tight(k) => Tight(CurrentGraph'))
    BY <2>2, <2>4, Zenon DEF GraphOK, Tight
  <2>6. UNION {{e[1], e[2]} : e \in pairs} = Range(path)
    BY <2>3
  <2>7. UNION {{e[1], e[2]} : e \in edge_set'} =
          (UNION {{e[1], e[2]} : e \in edge_set}) \cup UNION {{e[1], e[2]} : e \in pairs}
    BY <2>1
  <2>8. CurrentGraph.map = vertex_map
    BY DEF CurrentGraph
  <2>9. QED
    BY <2>1, <2>2, <2>5, <2>6, <2>7, <2>8, Zenon DEF VertexInv
<1>4. CASE UNCHANGED forestVars
  BY <1>1, <1>4, Zenon DEF forestVars, graphVars
<1>5. ASSUME TreeNext, ~clear_graph, \A path \in PathSet : ~Connect(path) PROVE VertexInv'
  <2>1. UNCHANGED <<vertex_map, vertices, cleared, edge_set>>
    BY <1>5, PathType, Zenon
    DEF TreeNext, NewNode, BeginMakeChild, InsertChild, EndMakeChild, ConstructorThrows, Erase,
        NewPort, visualize, graphVars
  <2>2. QED
    BY <1>1, <2>1
<1>6. QED
  BY <1>2, <1>3, <1>4, <1>5, Zenon

(***************************************************************************)
(* The documented invariant of connection_graph: until clear_graph is      *)
(* called, dataflow_graph has one vertex per entry of vertex_map and the   *)
(* descriptors number them; and at all times the nodes of the edges are    *)
(* the ones with a vertex, however the paths branch and repeat.            *)
(***************************************************************************)
THEOREM VerticesStayInStep == TreeSpec => []VerticesInStep
<1>1. TreeInit => VertexInv
  <2>1. SUFFICES ASSUME TreeInit PROVE VertexInv
    OBVIOUS
  <2>2. vertex_map = <<>> /\ vertices = 0 /\ edge_set = {}
    BY <2>1, Zenon DEF TreeInit
  <2>3. DOMAIN vertex_map = {} /\ vertex_map \in [{} -> Nat] /\ 0 .. 0 - 1 = {}
    BY <2>2
  <2>4. IsFiniteSet({}) /\ Cardinality({}) = 0
    BY FS_EmptySet
  <2>5. /\ CurrentGraph.map = vertex_map /\ CurrentGraph.size = vertices
        /\ DOMAIN CurrentGraph = {"map", "size"}
    BY DEF CurrentGraph
  <2>6. GraphOK(CurrentGraph)
    BY <2>2, <2>3, <2>4, <2>5 DEF GraphOK
  <2>7. {vertex_map[n] : n \in {}} = {} /\ UNION {{e[1], e[2]} : e \in {}} = {}
    OBVIOUS
  <2>8. QED
    BY <2>2, <2>3, <2>4, <2>5, <2>6, <2>7, Zenon DEF VertexInv, Tight
<1>2. VertexInv /\ [TreeNext]_forestVars => VertexInv'
  BY VertexInvStep
<1>3. VertexInv => VerticesInStep
  <2>1. CurrentGraph.map = vertex_map /\ CurrentGraph.size = vertices
    BY DEF CurrentGraph
  <2>2. QED
    BY <2>1, Zenon DEF VertexInv, VerticesInStep, Tight
<1>4. QED
  BY <1>1, <1>2, <1>3, PTL DEF TreeSpec
--------------------------------------------------------------------------------
(* The forest and the walk of print_subgraph.                              *)

(***************************************************************************)
(* The forest is a tree: the parent of a node entered it before the node,  *)
(* so that every node descends from the root.                              *)
(***************************************************************************)
TreeInv ==
  /\ count \in Nat /\ Forest \subseteq 1 .. count
  /\ Root \in Forest /\ parent[Root] = Root
  /\ \A n \in Forest : parent[n] \in Forest /\ (n # Root => parent[n] < n)
  /\ DOMAIN region = Forest
  /\ \A n \in Forest : region[n] \in Regions \cup {RootRegion}

\* Ancestors is defined by its recursion.
LEMMA AncestorsAre ==
  ASSUME TreeInv, NEW m \in Forest
  PROVE  Ancestors(m) = IF m = Root THEN {Root} ELSE {m} \cup Ancestors(parent[m])
<1> DEFINE Closed(C) == \A y \in C : parent[y] \in C
           A(n) == {x \in Forest : \A C \in SUBSET Forest : n \in C /\ Closed(C) => x \in C}
           G(u) == [n \in Forest |-> IF n = Root THEN {Root} ELSE {n} \cup u[parent[n]]]
           a == [n \in Forest |-> A(n)]
           c == CHOOSE u : u = G(u)
<1>1. A(Root) = {Root}
  <2>1. {Root} \in SUBSET Forest /\ Closed({Root})
    BY DEF TreeInv
  <2>2. Root \in A(Root)
    BY DEF TreeInv
  <2>3. \A x \in A(Root) : x \in {Root}
    BY <2>1, Zenon
  <2> QED BY <2>2, <2>3
<1>2. ASSUME NEW n \in Forest, n # Root PROVE A(n) = {n} \cup A(parent[n])
  <2>1. parent[n] \in Forest
    BY DEF TreeInv
  <2>2. {n} \cup A(parent[n]) \in SUBSET Forest /\ Closed({n} \cup A(parent[n]))
    <3>1. parent[n] \in A(parent[n])
      BY <2>1
    <3>2. \A y \in A(parent[n]) : parent[y] \in A(parent[n])
      BY DEF TreeInv
    <3> QED BY <3>1, <3>2
  <2>3. A(n) \subseteq {n} \cup A(parent[n])
    BY <2>2, Zenon
  <2>4. n \in A(n)
    OBVIOUS
  <2>5. A(parent[n]) \subseteq A(n)
    OBVIOUS
  <2> QED BY <2>3, <2>4, <2>5
<1> HIDE DEF A
<1>3. a = G(a)
  <2>1. \A n \in Forest : a[n] = A(n)
    OBVIOUS
  <2>2. \A n \in Forest : parent[n] \in Forest
    BY DEF TreeInv
  <2>3. \A n \in Forest : a[n] = IF n = Root THEN {Root} ELSE {n} \cup a[parent[n]]
    BY <1>1, <1>2, <2>1, <2>2
  <2>4. a = [n \in Forest |-> a[n]]
    OBVIOUS
  <2> HIDE DEF a
  <2> QED BY <2>3, <2>4, Zenon
<1>4. c = G(c)
  BY <1>3, Zenon
<1>5. \A n : Ancestors(n) = c[n]
  BY Zenon DEF Ancestors
<1> HIDE DEF c
<1>6. \A n \in Forest : c[n] = IF n = Root THEN {Root} ELSE {n} \cup c[parent[n]]
  BY <1>4, Zenon
<1> QED BY <1>5, <1>6, Zenon

\* Every step keeps the forest a tree.
LEMMA TreeInvStep ==
  ASSUME TreeInv, [TreeNext]_forestVars
  PROVE  TreeInv'
<1>1. ASSUME UNCHANGED <<parent, region, count>> PROVE TreeInv'
  BY <1>1, Zenon DEF TreeInv, Forest
<1>2. ASSUME NEW p \in Forest, NEW r \in Regions, NEW s, InsertChild(p, r, s) PROVE TreeInv'
  <2>1. /\ count' = count + 1 /\ parent' = With(parent, count + 1, p)
        /\ region' = With(region, count + 1, r)
    BY <1>2, Zenon DEF InsertChild
  <2>2. Forest' = Forest \cup {count + 1}
    BY <2>1 DEF Forest, With
  <2>3. /\ count + 1 \notin Forest /\ count + 1 # Root /\ p < count + 1 /\ p \in Forest
        /\ count \in Nat /\ Forest \subseteq 1 .. count
    BY DEF TreeInv, Root
  <2>4. \A n \in Forest' : /\ parent'[n] = IF n = count + 1 THEN p ELSE parent[n]
                           /\ region'[n] = IF n = count + 1 THEN r ELSE region[n]
    BY <2>1, <2>2 DEF With, TreeInv, Forest
  <2>5. DOMAIN region' = Forest'
    BY <2>1, <2>2 DEF With, TreeInv
  <2>6. count' \in Nat /\ Forest' \subseteq 1 .. count'
    BY <2>1, <2>2, <2>3
  <2>7. Root \in Forest' /\ parent'[Root] = Root
    BY <2>2, <2>3, <2>4 DEF TreeInv
  <2>8. \A n \in Forest' : parent'[n] \in Forest' /\ (n # Root => parent'[n] < n)
    BY <2>2, <2>3, <2>4 DEF TreeInv
  <2>9. \A n \in Forest' : region'[n] \in Regions \cup {RootRegion}
    BY <2>2, <2>4 DEF TreeInv
  <2> QED BY <2>5, <2>6, <2>7, <2>8, <2>9, Zenon DEF TreeInv
<1>3. ASSUME NEW n \in Forest, Erase(n) PROVE TreeInv'
  <2> DEFINE kept == {m \in Forest : n \notin Ancestors(m)}
  <2>1. /\ n # Root /\ count' = count
        /\ parent' = [m \in kept |-> parent[m]] /\ region' = [m \in kept |-> region[m]]
    BY <1>3, Zenon DEF Erase, Restrict
  <2>2. Root \in kept
    BY <2>1, AncestorsAre DEF TreeInv
  <2>3. ASSUME NEW m \in kept PROVE parent[m] \in kept
    <3>1. CASE m = Root
      BY <2>2, <3>1 DEF TreeInv
    <3>2. CASE m # Root
      <4>1. m \in Forest /\ parent[m] \in Forest
        BY DEF TreeInv
      <4>2. Ancestors(m) = {m} \cup Ancestors(parent[m])
        BY <3>2, <4>1, AncestorsAre
      <4> QED BY <4>1, <4>2
    <3> QED BY <3>1, <3>2
  <2>4. kept \subseteq Forest
    OBVIOUS
  <2> HIDE DEF kept
  <2>5. Forest' = kept /\ DOMAIN region' = kept
    BY <2>1 DEF Forest
  <2>6. \A m \in kept : parent'[m] = parent[m] /\ region'[m] = region[m]
    BY <2>1
  <2> QED BY <2>1, <2>2, <2>3, <2>4, <2>5, <2>6, Zenon DEF TreeInv
<1>4. CASE UNCHANGED forestVars
  BY <1>1, <1>4, Zenon DEF forestVars, treeVars
<1>5. ASSUME NEW path, Connect(path) PROVE TreeInv'
  BY <1>1, <1>5, Zenon DEF Connect, treeVars
<1>6. CASE EndMakeChild \/ ConstructorThrows \/ clear_graph \/ visualize \/ \E n \in Forest : NewPort(n)
  BY <1>1, <1>6, Zenon DEF EndMakeChild, ConstructorThrows, clear_graph, visualize, NewPort, treeVars
<1> QED BY <1>2, <1>3, <1>4, <1>5, <1>6, Zenon DEF TreeNext, NewNode, BeginMakeChild

\* The children of a node are the nodes it is the parent of, and come after it.
LEMMA ChildrenAre ==
  ASSUME TreeInv, NEW n
  PROVE  /\ Children(n) \in Seq(Forest)
         /\ \A c : Contains(Children(n), c) <=> c \in Forest /\ c # Root /\ parent[c] = n
<1> DEFINE s == [m \in 1 .. count |-> IF m \in Forest /\ parent[m] = n THEN m ELSE Root]
<1>1. s \in Seq(Forest) /\ Len(s) = count
  BY DEF TreeInv
<1>2. ASSUME NEW c, c # Root PROVE Contains(s, c) <=> c \in Forest /\ parent[c] = n
  <2>1. \A i \in 1 .. count : s[i] = c <=> i = c /\ c \in Forest /\ parent[c] = n
    BY <1>2
  <2>2. Forest \subseteq 1 .. count
    BY DEF TreeInv
  <2> QED BY <1>1, <2>1, <2>2, Zenon DEF Contains
<1>3. Children(n) = Without(s, Root)
  BY Zenon DEF Children
<1> HIDE DEF s
<1>4. Children(n) \in Seq(Forest)
  BY <1>1, <1>3, WithoutType, Zenon
<1>5. \A c : Contains(Without(s, Root), c) <=> Contains(s, c) /\ c # Root
  BY <1>1, WithoutContains
<1>6. \A c : Contains(Children(n), c) <=> Contains(s, c) /\ c # Root
  BY <1>3, <1>5, Zenon
<1> QED BY <1>2, <1>4, <1>6, Zenon

\* One by one, with what the induction over the nodes needs.
LEMMA ChildrenElements ==
  ASSUME TreeInv, NEW n \in Forest
  PROVE  /\ Len(Children(n)) \in Nat /\ DOMAIN Children(n) = 1 .. Len(Children(n))
         /\ \A i \in 1 .. Len(Children(n)) :
              Children(n)[i] \in Forest /\ Children(n)[i] > n
         /\ \A c \in Forest : c # Root /\ parent[c] = n =>
              \E i \in 1 .. Len(Children(n)) : Children(n)[i] = c
<1> DEFINE s == Children(n)
<1>1. s \in Seq(Forest) /\ \A c : Contains(s, c) <=> c \in Forest /\ c # Root /\ parent[c] = n
  BY ChildrenAre, Zenon
<1> HIDE DEF s
<1>2. \A i \in 1 .. Len(s) : s[i] \in Forest /\ s[i] # Root /\ parent[s[i]] = n
  BY <1>1 DEF Contains
<1>3. \A i \in 1 .. Len(s) : s[i] \in Forest /\ s[i] > n
  <2>1. \A c \in Forest : c \in Nat /\ (c # Root => parent[c] < c)
    BY DEF TreeInv
  <2>2. n \in Nat /\ \A c \in Forest : c # Root /\ parent[c] = n => c > n
    BY <2>1
  <2> QED BY <1>2, <2>2, Zenon
<1>4. \A c \in Forest : c # Root /\ parent[c] = n => \E i \in 1 .. Len(s) : s[i] = c
  BY <1>1, Zenon DEF Contains
<1>5. Len(s) \in Nat /\ DOMAIN s = 1 .. Len(s)
  BY <1>1
<1> QED BY <1>3, <1>4, <1>5, Zenon DEF s

\* The equation of Preorder, for the walks w of the nodes.
WalkOf(w, m) == <<m>> \o FlattenSeq([i \in DOMAIN Children(m) |-> w[Children(m)[i]]])

\* A walk lists nodes of the forest.
LEMMA WalkOfType ==
  ASSUME TreeInv, NEW m \in Forest, NEW w,
         \A i \in 1 .. Len(Children(m)) : w[Children(m)[i]] \in Seq(Forest)
  PROVE  /\ [i \in DOMAIN Children(m) |-> w[Children(m)[i]]] \in Seq(Seq(Forest))
         /\ WalkOf(w, m) \in Seq(Forest)
<1> DEFINE ss == [i \in DOMAIN Children(m) |-> w[Children(m)[i]]]
           n == Len(Children(m))
<1>1. n \in Nat /\ DOMAIN Children(m) = 1 .. n
  BY ChildrenElements, Zenon
<1>2. \A i \in 1 .. n : w[Children(m)[i]] \in Seq(Forest)
  OBVIOUS
<1> HIDE DEF n
<1>3. ss \in Seq(Seq(Forest))
  BY <1>1, <1>2
<1> HIDE DEF ss
<1>4. FlattenSeq(ss) \in Seq(Forest)
  BY <1>3, FlattenType, Zenon
<1>5. <<m>> \o FlattenSeq(ss) \in Seq(Forest)
  BY <1>4
<1>6. WalkOf(w, m) = <<m>> \o FlattenSeq(ss)
  BY Zenon DEF ss, WalkOf
<1> QED BY <1>3, <1>5, <1>6, Zenon DEF ss

\* The walks of all nodes exist: from the last node of the forest down to the first.
LEMMA WalksExist ==
  ASSUME TreeInv
  PROVE  \E w \in [Forest -> Seq(Forest)] : \A m \in Forest : w[m] = WalkOf(w, m)
<1> DEFINE D(k) == {m \in Forest : m + k > count}
           W(w, k) == \A m \in D(k) : w[m] = WalkOf(w, m)
           T == {k \in Nat : \E w \in [D(k) -> Seq(Forest)] : W(w, k)}
<1>0. count \in Nat /\ \A m \in Forest : m \in Nat /\ 0 < m /\ m =< count
  BY DEF TreeInv
<1>1. 0 \in T
  <2>1. D(0) = {}
    <3>1. \A m \in Forest : ~(m + 0 > count)
      BY <1>0
    <3> QED BY <3>1, Zenon
  <2> DEFINE w == [m \in {} |-> <<>>]
  <2>2. w \in [{} -> Seq(Forest)]
    OBVIOUS
  <2> HIDE DEF w, D
  <2>3. W(w, 0)
    BY <2>1, Zenon
  <2> QED BY <2>1, <2>2, <2>3, Zenon
<1>2. ASSUME NEW k \in Nat, k \in T PROVE k + 1 \in T
  <2>1. PICK w \in [D(k) -> Seq(Forest)] : W(w, k)
    BY <1>2, Zenon
  <2> DEFINE g == [m \in D(k + 1) |-> WalkOf(w, m)]
  <2>2. ASSUME NEW m \in D(k + 1)
        PROVE  m \in Forest /\ \A i \in 1 .. Len(Children(m)) : Children(m)[i] \in D(k)
    <3>1. m \in Forest /\ m + (k + 1) > count
      OBVIOUS
    <3>2. \A i \in 1 .. Len(Children(m)) : Children(m)[i] \in Forest /\ Children(m)[i] > m
      BY <3>1, ChildrenElements, Zenon
    <3>3. \A c \in Forest : c > m => c + k > count
      BY <1>0, <3>1
    <3> QED BY <3>1, <3>2, <3>3, Zenon
  <2>3. \A m \in D(k) : m \in D(k + 1)
    BY <1>0
  <2> HIDE DEF D
  <2>4. \A m \in D(k + 1) : WalkOf(w, m) \in Seq(Forest)
    <3> TAKE m \in D(k + 1)
    <3>1. \A i \in 1 .. Len(Children(m)) : w[Children(m)[i]] \in Seq(Forest)
      BY <2>2
    <3> QED BY <2>2, <3>1, WalkOfType, Zenon
  <2>5. g \in [D(k + 1) -> Seq(Forest)]
    BY <2>4, Zenon
  <2>6. \A c \in D(k) : g[c] = w[c]
    BY <2>1, <2>3, Zenon
  <2>7. \A m \in D(k + 1) : g[m] = WalkOf(w, m)
    BY Zenon
  <2> HIDE DEF g
  <2>8. ASSUME NEW m \in D(k + 1) PROVE g[m] = WalkOf(g, m)
    <3> DEFINE d == DOMAIN Children(m)
    <3>1. d = 1 .. Len(Children(m))
      BY <2>2, ChildrenElements, Zenon
    <3>2. \A i \in d : g[Children(m)[i]] = w[Children(m)[i]]
      BY <2>2, <2>6, <3>1, Zenon
    <3>3. [i \in d |-> g[Children(m)[i]]] = [i \in d |-> w[Children(m)[i]]]
      BY <3>2
    <3> QED BY <2>7, <3>3, Zenon DEF WalkOf
  <2>9. W(g, k + 1)
    BY <2>8, Zenon
  <2>10. k + 1 \in Nat
    OBVIOUS
  <2> HIDE DEF W
  <2> QED BY <2>5, <2>9, <2>10, Zenon
<1>3. count \in T
  <2> HIDE DEF T
  <2> QED BY <1>0, <1>1, <1>2, NumberInduction, Zenon
<1>4. D(count) = Forest
  <2>1. \A m \in Forest : m + count > count
    BY <1>0
  <2> QED BY <2>1, Zenon
<1> HIDE DEF D
<1> QED BY <1>3, <1>4, Zenon

\* Walks that satisfy the equation list nodes of the forest.
LEMMA WalksType ==
  ASSUME TreeInv, NEW w, w = [m \in Forest |-> WalkOf(w, m)]
  PROVE  w \in [Forest -> Seq(Forest)]
<1> DEFINE T == {k \in Nat : \A a \in Forest : a + k > count => w[a] \in Seq(Forest)}
<1>0. count \in Nat /\ \A a \in Forest : a \in Nat /\ 0 < a /\ a =< count
  BY DEF TreeInv
<1>1. 0 \in T
  <2>1. \A a \in Forest : ~(a + 0 > count)
    BY <1>0
  <2> QED BY <2>1, Zenon
<1>2. ASSUME NEW k \in Nat, k \in T PROVE k + 1 \in T
  <2>1. ASSUME NEW a \in Forest, a + (k + 1) > count PROVE w[a] \in Seq(Forest)
    <3>1. \A b \in Forest : b > a => b + k > count
      BY <1>0, <2>1
    <3>2. \A b \in Forest : b + k > count => w[b] \in Seq(Forest)
      BY <1>2, Zenon
    <3>3. \A i \in 1 .. Len(Children(a)) : w[Children(a)[i]] \in Seq(Forest)
      BY <3>1, <3>2, ChildrenElements, Zenon
    <3>4. WalkOf(w, a) \in Seq(Forest)
      BY <3>3, WalkOfType, Zenon
    <3>5. w[a] = WalkOf(w, a)
      BY Zenon
    <3> QED BY <3>4, <3>5, Zenon
  <2>2. k + 1 \in Nat
    OBVIOUS
  <2> QED BY <2>1, <2>2, Zenon
<1>3. count \in T
  <2> HIDE DEF T
  <2> QED BY <1>0, <1>1, <1>2, NumberInduction, Zenon
<1>4. \A a \in Forest : a + count > count
  BY <1>0
<1>5. \A a \in Forest : w[a] \in Seq(Forest)
  BY <1>3, <1>4, Zenon
<1>6. w = [a \in Forest |-> w[a]]
  BY Zenon
<1> QED BY <1>5, <1>6, Zenon

\* What a walk contains: its node, and what the walks of the children contain.
LEMMA WalkContains ==
  ASSUME TreeInv, NEW w \in [Forest -> Seq(Forest)], \A m \in Forest : w[m] = WalkOf(w, m),
         NEW m \in Forest, NEW x
  PROVE  Contains(w[m], x) <=>
           \/ x = m
           \/ \E i \in 1 .. Len(Children(m)) : Contains(w[Children(m)[i]], x)
<1> DEFINE ss == [i \in DOMAIN Children(m) |-> w[Children(m)[i]]]
           n == Len(Children(m))
           t == <<m>>
           f == FlattenSeq(ss)
<1>1. n \in Nat /\ DOMAIN Children(m) = 1 .. n
  BY ChildrenElements, Zenon
<1>2. \A i \in 1 .. n : w[Children(m)[i]] \in Seq(Forest)
  BY ChildrenElements, Zenon
<1>3. ss \in Seq(Seq(Forest))
  BY <1>2, WalkOfType, Zenon
<1>4. Len(ss) = n /\ \A i \in 1 .. n : ss[i] = w[Children(m)[i]]
  <2> HIDE DEF n
  <2> QED BY <1>1
<1>5. w[m] = t \o f
  BY Zenon DEF WalkOf
<1> HIDE DEF ss
<1>6. f \in Seq(Forest)
  BY <1>3, FlattenType, Zenon
<1>7. Contains(f, x) <=> \E i \in 1 .. n : Contains(w[Children(m)[i]], x)
  <2>1. Contains(FlattenSeq(ss), x) <=> \E i \in 1 .. Len(ss) : Contains(ss[i], x)
    BY <1>3, FlattenContains, Zenon
  <2> QED BY <1>4, <2>1, Zenon
<1>8. t \in Seq(Forest) /\ (Contains(t, x) <=> x = m)
  BY DEF Contains
<1> HIDE DEF f, t
<1>9. Contains(t \o f, x) <=> Contains(t, x) \/ Contains(f, x)
  BY <1>6, <1>8, ContainsConcat, Zenon
<1> QED BY <1>5, <1>7, <1>8, <1>9, Zenon DEF n

\* A walk contains, with a node, the children of that node.
LEMMA WalkClosed ==
  ASSUME TreeInv, NEW w \in [Forest -> Seq(Forest)], \A m \in Forest : w[m] = WalkOf(w, m),
         NEW m \in Forest, NEW n \in Forest, n # Root, Contains(w[m], parent[n])
  PROVE  Contains(w[m], n)
<1> DEFINE P(a) == \A c \in Forest : c # Root /\ Contains(w[a], parent[c]) => Contains(w[a], c)
           T == {k \in Nat : \A a \in Forest : a + k > count => P(a)}
<1>0. count \in Nat /\ \A a \in Forest : a \in Nat /\ 0 < a /\ a =< count
  BY DEF TreeInv
<1>1. 0 \in T
  <2>1. \A a \in Forest : ~(a + 0 > count)
    BY <1>0
  <2> QED BY <2>1, Zenon
<1>2. ASSUME NEW k \in Nat, k \in T PROVE k + 1 \in T
  <2>1. ASSUME NEW a \in Forest, a + (k + 1) > count PROVE P(a)
    <3> SUFFICES ASSUME NEW c \in Forest, c # Root, Contains(w[a], parent[c])
                 PROVE  Contains(w[a], c)
      OBVIOUS
    <3>1. \A i \in 1 .. Len(Children(a)) : Children(a)[i] \in Forest /\ P(Children(a)[i])
      <4>1. \A b \in Forest : b > a => b + k > count
        BY <1>0, <2>1
      <4> HIDE DEF P
      <4>2. \A b \in Forest : b + k > count => P(b)
        BY <1>2, Zenon
      <4> QED BY <4>1, <4>2, ChildrenElements, Zenon
    <3>2. \A x : Contains(w[a], x) <=>
            \/ x = a
            \/ \E i \in 1 .. Len(Children(a)) : Contains(w[Children(a)[i]], x)
      BY WalkContains, Zenon
    <3>3. CASE parent[c] = a
      <4>1. PICK i \in 1 .. Len(Children(a)) : Children(a)[i] = c
        BY <3>3, ChildrenElements, Zenon
      <4>2. Contains(w[c], c)
        BY WalkContains, Zenon
      <4> QED BY <3>2, <4>1, <4>2, Zenon
    <3>4. CASE parent[c] # a
      <4>1. PICK i \in 1 .. Len(Children(a)) : Contains(w[Children(a)[i]], parent[c])
        BY <3>2, <3>4, Zenon
      <4>2. Contains(w[Children(a)[i]], c)
        BY <3>1, <4>1, Zenon
      <4> QED BY <3>2, <4>2, Zenon
    <3> QED BY <3>3, <3>4, Zenon
  <2>2. k + 1 \in Nat
    OBVIOUS
  <2> HIDE DEF P
  <2> QED BY <2>1, <2>2, Zenon
<1>3. count \in T
  <2> HIDE DEF T
  <2> QED BY <1>0, <1>1, <1>2, NumberInduction, Zenon
<1>4. m + count > count
  BY <1>0
<1>5. P(m)
  BY <1>3, <1>4, Zenon
<1> QED BY <1>5, Zenon

\* print_subgraph, called for the root, visits every node of the forest.
LEMMA PreorderVisitsAll ==
  ASSUME TreeInv
  PROVE  Preorder(Root) \in Seq(Forest) /\ \A n \in Forest : Contains(Preorder(Root), n)
<1> DEFINE G(u) == [m \in Forest |-> <<m>> \o FlattenSeq([i \in DOMAIN Children(m) |-> u[Children(m)[i]]])]
           w == CHOOSE u : u = G(u)
<1>1. PICK v \in [Forest -> Seq(Forest)] : \A m \in Forest : v[m] = WalkOf(v, m)
  BY WalksExist, Zenon
<1>2. v = G(v)
  <2>1. v = [m \in Forest |-> v[m]]
    BY <1>1, Zenon
  <2> QED BY <1>1, <2>1, Zenon DEF WalkOf
<1>3. w = G(w)
  BY <1>2, Zenon
<1>4. Preorder(Root) = w[Root]
  BY Zenon DEF Preorder
<1> HIDE DEF w
<1>5. \A m \in Forest : w[m] = WalkOf(w, m)
  BY <1>3, Zenon DEF WalkOf
<1>6. w \in [Forest -> Seq(Forest)]
  <2>1. w = [m \in Forest |-> WalkOf(w, m)]
    BY <1>3, Zenon DEF WalkOf
  <2> QED BY <2>1, WalksType, Zenon
<1>7. Root \in Forest
  BY DEF TreeInv
<1>8. Contains(w[Root], Root)
  BY <1>5, <1>6, <1>7, WalkContains, Zenon
<1> DEFINE U == {n \in Forest : ~Contains(w[Root], n)}
<1>9. U = {}
  <2> SUFFICES ASSUME U # {} PROVE FALSE
    OBVIOUS
  <2>1. U \in SUBSET Nat
    <3>1. \A m \in Forest : m \in Nat
      BY DEF TreeInv
    <3> QED BY <3>1, Zenon
  <2>2. PICK m \in U : \A k \in U : m =< k
    <3> HIDE DEF U
    <3> QED BY <2>1, LeastNumber, Zenon
  <2>3. m \in Forest /\ ~Contains(w[Root], m) /\ m # Root
    BY <1>8, Zenon
  <2>4. parent[m] \in Forest /\ parent[m] \in Nat /\ m \in Nat /\ parent[m] < m
    <3>1. \A a \in Forest : a \in Nat
      BY DEF TreeInv
    <3>2. parent[m] \in Forest /\ parent[m] < m
      BY <2>3, Zenon DEF TreeInv
    <3> QED BY <2>3, <3>1, <3>2, Zenon
  <2>5. parent[m] \notin U
    <3> HIDE DEF U
    <3> QED BY <2>2, <2>4
  <2>6. Contains(w[Root], parent[m])
    BY <2>4, <2>5, Zenon
  <2> QED BY <1>5, <1>6, <1>7, <2>3, <2>6, WalkClosed, Zenon
<1> QED BY <1>4, <1>6, <1>7, <1>9, Zenon
--------------------------------------------------------------------------------
(* The colours of the regions.                                             *)

AllRegions == Regions \cup {RootRegion}

\* Maps from some of the regions to colours.
ColourMaps == UNION {[D -> Nat \cup {Black}] : D \in SUBSET AllRegions}

ColourStates == [map : ColourMaps, index : Nat, colour : ColourMaps]

\* color_map holds colours of regions.
ColourInv == color_map \in ColourMaps

\* A map with one more entry is a map.
LEMMA WithIsMap ==
  ASSUME NEW f \in ColourMaps, NEW r \in AllRegions, NEW v \in Nat \cup {Black}
  PROVE  /\ With(f, r, v) \in ColourMaps /\ DOMAIN With(f, r, v) = DOMAIN f \cup {r}
         /\ With(f, r, v)[r] = v /\ \A s \in DOMAIN f : s # r => With(f, r, v)[s] = f[s]
<1>1. PICK D \in SUBSET AllRegions : f \in [D -> Nat \cup {Black}]
  BY Zenon DEF ColourMaps
<1>2. D \cup {r} \in SUBSET AllRegions
  OBVIOUS
<1>3. With(f, r, v) \in [D \cup {r} -> Nat \cup {Black}]
  BY <1>1 DEF With
<1>4. With(f, r, v) \in ColourMaps
  BY <1>2, <1>3, Zenon DEF ColourMaps
<1> QED BY <1>4 DEF With

\* The entries of a map.
LEMMA MapEntries ==
  ASSUME NEW f \in ColourMaps
  PROVE  DOMAIN f \subseteq AllRegions /\ \A r \in DOMAIN f : f[r] \in Nat \cup {Black}
BY DEF ColourMaps

(***************************************************************************)
(* What get_color keeps, with the regions K known before the drawing: the  *)
(* new entries of the map are below the index and differ, and a new region *)
(* is drawn in the colour the map has for it or, without one left, black.  *)
(***************************************************************************)
Tells(c, K) ==
  /\ \A r \in DOMAIN c.map \ K : c.map[r] \in Nat /\ c.map[r] < c.index
  /\ \A r, s \in DOMAIN c.map \ K : c.map[r] = c.map[s] => r = s
  /\ \A r \in DOMAIN c.colour \ K :
       (r \in DOMAIN c.map /\ c.colour[r] = c.map[r]) \/ c.colour[r] = Black

\* get_color colours one region, and keeps that.
LEMMA GetColor ==
  ASSUME NEW c \in ColourStates, NEW r \in AllRegions
  PROVE  /\ get_color(c, r) \in ColourStates
         /\ DOMAIN get_color(c, r).colour = DOMAIN c.colour \cup {r}
         /\ \A K : Tells(c, K) => Tells(get_color(c, r), K)
<1> DEFINE m == c.map
           n == c.index
           l == c.colour
           d == get_color(c, r)
<1>1. m \in ColourMaps /\ n \in Nat /\ l \in ColourMaps /\ c = [map |-> m, index |-> n, colour |-> l]
  BY DEF ColourStates
<1>2. Black \in Nat \cup {Black} /\ n \in Nat \cup {Black} /\ n + 1 \in Nat
  BY <1>1
<1>3. CASE r \in DOMAIN m
  <2> DEFINE v == m[r]
  <2>1. v \in Nat \cup {Black}
    BY <1>1, <1>3, MapEntries, Zenon
  <2>2. d = [map |-> m, index |-> n, colour |-> With(l, r, v)]
    BY <1>1, <1>3 DEF get_color
  <2> DEFINE lv == With(l, r, v)
  <2> HIDE DEF v, m, n, l, d
  <2>3. /\ lv \in ColourMaps /\ DOMAIN lv = DOMAIN l \cup {r} /\ lv[r] = v
        /\ \A s \in DOMAIN l : s # r => lv[s] = l[s]
    BY <1>1, <2>1, WithIsMap, ZenonT(60)
  <2> HIDE DEF lv
  <2>4. d.map = m /\ d.index = n /\ d.colour = lv /\ d \in ColourStates
    BY <1>1, <2>2, <2>3 DEF ColourStates, lv
  <2>5. ASSUME NEW K, Tells(c, K) PROVE Tells(d, K)
    BY <1>3, <2>3, <2>4, <2>5, Zenon DEF Tells, m, n, l, v
  <2> QED BY <2>3, <2>4, <2>5, Zenon DEF d, l
<1>4. CASE r \notin DOMAIN m /\ n >= Colours
  <2> DEFINE lv == With(l, r, Black)
  <2>2. d = [map |-> m, index |-> n, colour |-> lv]
    BY <1>1, <1>4 DEF get_color
  <2> HIDE DEF m, n, l, d
  <2>3. /\ lv \in ColourMaps /\ DOMAIN lv = DOMAIN l \cup {r} /\ lv[r] = Black
        /\ \A s \in DOMAIN l : s # r => lv[s] = l[s]
    BY <1>1, <1>2, WithIsMap, ZenonT(60)
  <2> HIDE DEF lv
  <2>4. d.map = m /\ d.index = n /\ d.colour = lv /\ d \in ColourStates
    BY <1>1, <2>2, <2>3 DEF ColourStates
  <2>5. ASSUME NEW K, Tells(c, K) PROVE Tells(d, K)
    BY <2>3, <2>4, <2>5, Zenon DEF Tells, m, n, l
  <2> QED BY <2>3, <2>4, <2>5, Zenon DEF d, l
<1>5. CASE r \notin DOMAIN m /\ ~(n >= Colours)
  <2> DEFINE mv == With(m, r, n)
             lv == With(l, r, n)
             o == n + 1
  <2>2. d = [map |-> mv, index |-> o, colour |-> lv]
    BY <1>1, <1>5 DEF get_color
  <2> HIDE DEF m, n, l, d
  <2>3. /\ lv \in ColourMaps /\ DOMAIN lv = DOMAIN l \cup {r} /\ lv[r] = n
        /\ \A s \in DOMAIN l : s # r => lv[s] = l[s]
        /\ mv \in ColourMaps /\ DOMAIN mv = DOMAIN m \cup {r} /\ mv[r] = n
        /\ \A s \in DOMAIN m : s # r => mv[s] = m[s]
    BY <1>1, <1>2, WithIsMap, ZenonT(60)
  <2>4. o \in Nat /\ \A i \in Nat : i < n => i < o /\ i # n
    BY <1>1
  <2>5. n < o
    BY <1>1
  <2> HIDE DEF lv, mv, o
  <2>6. d.map = mv /\ d.index = o /\ d.colour = lv /\ d \in ColourStates
    BY <2>2, <2>3, <2>4 DEF ColourStates
  <2>7. ASSUME NEW K, Tells(c, K) PROVE Tells(d, K)
    <3>1. \A s \in DOMAIN m \ K : m[s] \in Nat /\ m[s] < n
      BY <2>7, Zenon DEF Tells, m, n
    <3>2. \A s \in DOMAIN mv \ K : mv[s] \in Nat /\ mv[s] < o
      BY <1>1, <2>3, <2>4, <2>5, <3>1, Zenon
    <3>3. \A s, t \in DOMAIN mv \ K : mv[s] = mv[t] => s = t
      <4>1. \A s, t \in DOMAIN m \ K : m[s] = m[t] => s = t
        BY <2>7, Zenon DEF Tells, m
      <4>2. \A s \in DOMAIN m \ K : m[s] # n
        BY <2>4, <3>1, Zenon
      <4> QED BY <1>5, <2>3, <4>1, <4>2, Zenon
    <3>4. \A s \in DOMAIN lv \ K : (s \in DOMAIN mv /\ lv[s] = mv[s]) \/ lv[s] = Black
      <4>1. \A s \in DOMAIN l \ K : (s \in DOMAIN m /\ l[s] = m[s]) \/ l[s] = Black
        BY <2>7, Zenon DEF Tells, m, l
      <4> QED BY <2>3, <4>1, Zenon
    <3> QED BY <2>6, <3>2, <3>3, <3>4, Zenon DEF Tells
  <2> QED BY <2>3, <2>6, <2>7, Zenon DEF d, l
<1> QED BY <1>3, <1>4, <1>5, Zenon

\* The colours given along an order of nodes.
LEMMA ColourNodesTells ==
  ASSUME TreeInv, ColourInv, NEW order \in Seq(Forest)
  PROVE  /\ ColourNodes(order) \in ColourStates
         /\ DOMAIN ColourNodes(order).colour = {region[order[i]] : i \in 1 .. Len(order)}
         /\ Tells(ColourNodes(order), DOMAIN color_map)
<1> DEFINE N == Len(order)
           b == [map |-> color_map, index |-> 0, colour |-> <<>>]
           F == [i \in 1 .. N |-> [c \in ColourStates |-> get_color(c, region[order[i]])]]
           G(u) == [i \in 0 .. N |-> IF i = 0 THEN b ELSE get_color(u[i - 1], region[order[i]])]
           c == CHOOSE u : u = G(u)
           K == DOMAIN color_map
<1>1. N \in Nat /\ \A i \in 1 .. N : order[i] \in Forest
  OBVIOUS
<1>2. \A i \in 1 .. N : region[order[i]] \in AllRegions
  BY <1>1, Zenon DEF TreeInv, AllRegions
<1>3. b \in ColourStates /\ DOMAIN b.colour = {} /\ Tells(b, K)
  <2>1. <<>> \in ColourMaps
    <3>1. <<>> \in [{} -> Nat \cup {Black}] /\ {} \in SUBSET AllRegions
      OBVIOUS
    <3> QED BY <3>1, Zenon DEF ColourMaps
  <2> QED BY <2>1 DEF ColourStates, ColourInv, Tells
<1> HIDE DEF N, b
<1>4. F \in [1 .. N -> [ColourStates -> ColourStates]]
  BY <1>2, GetColor, Zenon
<1>5. \A i \in 1 .. N : \A d \in ColourStates : F[i][d] = get_color(d, region[order[i]])
  BY Zenon
<1>6. PICK k \in [0 .. N -> ColourStates] : k[0] = b /\ \A i \in 1 .. N : k[i] = F[i][k[i - 1]]
  <2> DEFINE S == ColourStates
  <2>1. b \in S /\ F \in [1 .. N -> [S -> S]]
    BY <1>3, <1>4, Zenon
  <2>0. N \in Nat
    BY <1>1
  <2> HIDE DEF F, S
  <2>2. \E k \in [0 .. N -> S] : k[0] = b /\ \A i \in 1 .. N : k[i] = F[i][k[i - 1]]
    BY <2>0, <2>1, Iteration
  <2> QED BY <2>2, Zenon DEF S
<1> HIDE DEF F
<1>7. \A i \in 1 .. N : i - 1 \in 0 .. N /\ i # 0
  BY <1>1
<1>8. \A i \in 0 .. N : i # 0 => i \in 1 .. N
  BY <1>1
<1>9. k = G(k)
  <2>1. \A i \in 0 .. N : k[i] = IF i = 0 THEN b ELSE get_color(k[i - 1], region[order[i]])
    BY <1>5, <1>6, <1>7, <1>8, Zenon
  <2>2. k = [i \in 0 .. N |-> k[i]]
    BY <1>6, Zenon
  <2> QED BY <2>1, <2>2, Zenon
<1>10. c = G(c)
  BY <1>9, Zenon
<1>11. ColourNodes(order) = c[N]
  BY Zenon DEF ColourNodes, N, b
<1> HIDE DEF c
<1>12. 0 \in 0 .. N /\ \A i \in 1 .. N : i \in 0 .. N
  BY <1>1
<1>13. c[0] = b /\ \A i \in 1 .. N : c[i] = get_color(c[i - 1], region[order[i]])
  BY <1>7, <1>10, <1>12, Zenon
<1> DEFINE R(n) == {region[order[i]] : i \in 1 .. n}
           J(n) == c[n] \in ColourStates /\ DOMAIN c[n].colour = R(n) /\ Tells(c[n], K)
           T == {n \in Nat : n =< N => J(n)}
<1>14. 0 \in T
  <2>1. R(0) = {}
    OBVIOUS
  <2> HIDE DEF R, K
  <2> QED BY <1>3, <1>13, <2>1, Zenon
<1>15. ASSUME NEW n \in Nat, n \in T PROVE n + 1 \in T
  <2> SUFFICES ASSUME n + 1 =< N PROVE J(n + 1)
    OBVIOUS
  <2>1. n =< N /\ n + 1 \in 1 .. N /\ (n + 1) - 1 = n
    BY <1>1
  <2> DEFINE r == region[order[n + 1]]
             d == c[n]
  <2>2. R(n + 1) = R(n) \cup {r}
    <3>1. \A i : i \in 1 .. n + 1 <=> i \in 1 .. n \/ i = n + 1
      OBVIOUS
    <3> QED BY <3>1, Zenon
  <2> HIDE DEF R, K
  <2>3. J(n)
    BY <1>15, <2>1, Zenon
  <2>4. c[n + 1] = get_color(d, r) /\ r \in AllRegions
    BY <1>2, <1>13, <2>1
  <2> HIDE DEF r
  <2>5. d \in ColourStates /\ DOMAIN d.colour = R(n) /\ Tells(d, K)
    BY <2>3, Zenon
  <2> HIDE DEF d
  <2>6. /\ get_color(d, r) \in ColourStates
        /\ DOMAIN get_color(d, r).colour = DOMAIN d.colour \cup {r}
        /\ Tells(get_color(d, r), K)
    BY <2>4, <2>5, GetColor, Zenon
  <2> QED BY <2>2, <2>4, <2>5, <2>6, Zenon
<1>16. N \in T
  <2> HIDE DEF T
  <2> QED BY <1>1, <1>14, <1>15, NumberInduction, Zenon
<1>17. N =< N
  BY <1>1
<1>18. J(N)
  BY <1>16, <1>17, Zenon
<1> QED BY <1>11, <1>18, Zenon DEF N

\* What visualize draws, and what it leaves in color_map.
LEMMA VisualizeTells ==
  ASSUME TreeInv, ColourInv, visualize
  PROVE  ColourInv' /\ ColoursTellRegionsApart'
<1> DEFINE order == Preorder(Root)
           c == ColourNodes(order)
<1>1. order \in Seq(Forest) /\ \A n \in Forest : Contains(order, n)
  BY PreorderVisitsAll, Zenon
<1>2. /\ color_map' = c.map /\ drawing'.colour = c.colour /\ drawing'.known = DOMAIN color_map
      /\ parent' = parent /\ region' = region
  BY DEF visualize, treeVars
<1> HIDE DEF order
<1>3. /\ c \in ColourStates /\ Tells(c, DOMAIN color_map)
      /\ DOMAIN c.colour = {region[order[i]] : i \in 1 .. Len(order)}
  BY <1>1, ColourNodesTells, Zenon
<1> HIDE DEF c
<1>4. ColourInv'
  BY <1>2, <1>3 DEF ColourStates, ColourInv, ColourMaps, AllRegions, Black
<1>5. {region[order[i]] : i \in 1 .. Len(order)} = {region[n] : n \in Forest}
  <2>1. \A i \in 1 .. Len(order) : order[i] \in Forest
    BY <1>1
  <2>2. \A n \in Forest : \E i \in 1 .. Len(order) : order[i] = n
    BY <1>1, Zenon DEF Contains
  <2> QED BY <2>1, <2>2, Zenon
<1>6. Forest' = Forest
  BY <1>2, Zenon DEF Forest
<1>7. (drawing # NoDrawing => DOMAIN drawing.colour = {region[n] : n \in Forest})'
  BY <1>2, <1>3, <1>5, <1>6, Zenon
<1>8. \A r, s \in DOMAIN c.colour \ DOMAIN color_map :
        r # s /\ c.colour[r] = c.colour[s] => c.colour[r] = Black
  BY <1>3, Zenon DEF Tells
<1> QED BY <1>2, <1>4, <1>7, <1>8, Zenon DEF ColoursTellRegionsApart, Black

\* The other steps leave no drawing.
LEMMA OthersDrawNothing ==
  ASSUME drawing' = NoDrawing
  PROVE  ColoursTellRegionsApart'
<1>1. DOMAIN NoDrawing.colour = {}
  BY DEF NoDrawing
<1>2. (NoDrawing)' = NoDrawing
  BY Zenon DEF NoDrawing
<1> QED BY <1>1, <1>2, Zenon DEF ColoursTellRegionsApart

(***************************************************************************)
(* print_subgraph visits every node of the forest, whatever was inserted   *)
(* and erased, and get_color gives the regions it meets for the first time *)
(* different colours until the table is used up: for any regions, number   *)
(* of colours and size of the forest.                                      *)
(***************************************************************************)
THEOREM RegionsAreToldApart == TreeSpec => []ColoursTellRegionsApart
<1> DEFINE Inv == TreeInv /\ ColourInv /\ ColoursTellRegionsApart
<1>1. TreeInit => Inv
  <2> SUFFICES ASSUME TreeInit PROVE Inv
    OBVIOUS
  <2>1. TreeInv
    BY DEF TreeInit, TreeInv, Forest, Root
  <2>2. ColourInv
    <3>1. <<>> \in [{} -> Nat \cup {Black}] /\ {} \in SUBSET AllRegions
      OBVIOUS
    <3> QED BY <3>1, Zenon DEF ColourMaps, TreeInit, ColourInv
  <2>3. ColoursTellRegionsApart
    BY DEF TreeInit, ColoursTellRegionsApart, NoDrawing
  <2> QED BY <2>1, <2>2, <2>3
<1>2. Inv /\ [TreeNext]_forestVars => Inv'
  <2> SUFFICES ASSUME Inv, [TreeNext]_forestVars PROVE Inv'
    OBVIOUS
  <2>1. TreeInv'
    BY TreeInvStep, Zenon
  <2>2. ASSUME color_map' = color_map PROVE ColourInv'
    BY <2>2, Zenon DEF ColourInv, ColourMaps, AllRegions, Black
  <2>3. CASE UNCHANGED forestVars
    <3>1. UNCHANGED <<parent, region, color_map, drawing>>
      BY <2>3, Zenon DEF forestVars, treeVars
    <3>2. ColoursTellRegionsApart'
      BY <3>1, Zenon DEF ColoursTellRegionsApart, Forest, NoDrawing, Black
    <3> QED BY <2>1, <2>2, <3>1, <3>2, Zenon
  <2>4. CASE visualize
    BY <2>1, <2>4, VisualizeTells, Zenon
  <2>5. CASE drawing' = NoDrawing /\ color_map' = color_map
    BY <2>1, <2>2, <2>5, OthersDrawNothing, Zenon
  <2>6. TreeNext => visualize \/ (drawing' = NoDrawing /\ color_map' = color_map)
    BY Zenon DEF TreeNext, NewNode, BeginMakeChild, InsertChild, EndMakeChild, ConstructorThrows,
       Erase, NewPort, Connect, clear_graph
  <2> QED BY <2>3, <2>4, <2>5, <2>6, Zenon
<1> QED BY <1>1, <1>2, PTL DEF TreeSpec
================================================================================
