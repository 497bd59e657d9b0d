--------------------------- MODULE ConnectingProofs ----------------------------
(***************************************************************************)
(* Proofs about Connecting: the invariant of the evaluation of a chain,    *)
(* and that path, graph, buffers and proxies of a chain are as written,    *)
(* whatever order its operators are evaluated in.                          *)
(***************************************************************************)
EXTENDS ChainProofs, FiniteSetTheorems

\* The expression is not connected yet: its values stand for it, one after the other.
Evaluating(C) ==
  /\ made = <<>> /\ edges = {} /\ buffers = {}
  /\ \E p : Spans(C, values, p) /\ p[0] = 0 /\ p[Len(values)] = Levels

\* The single connection of a chain was made.
Connected(C) ==
  /\ values = <<Done>>
  /\ \E x, c : /\ Whole(C, x, c) /\ made = <<[active |-> x, conn |-> c]>>
               /\ edges = GraphEdges([active |-> x, conn |-> c])
               /\ buffers = Buffered([active |-> x, conn |-> c])

ChainInv ==
  IsChain(expression) => lost = 0 /\ \E C : Certificate(C) /\ (Evaluating(C) \/ Connected(C))

\* At the start every value is a leaf of the expression.
LEMMA ChainInvInit ==
  ASSUME ConnectInit
  PROVE  ChainInv
<1> SUFFICES ASSUME IsChain(expression)
             PROVE  lost = 0 /\ \E C : Certificate(C) /\ (Evaluating(C) \/ Connected(C))
  BY DEF ChainInv
<1> DEFINE C == {<<expression[i], i - 1, i>> : i \in 1 .. Levels}
           p == [i \in 0 .. Levels |-> i]
<1>1. /\ values = expression /\ made = <<>> /\ edges = {} /\ buffers = {} /\ lost = 0
      /\ Levels \in Nat /\ Len(values) = Levels
  BY ChainLeaves DEF ConnectInit
<1>2. ASSUME NEW v, NEW a, NEW b, <<v, a, b>> \in C
      PROVE  a \in 0 .. Levels /\ b \in 0 .. Levels /\ a < b /\ Single(v, a, b)
  <2>1. PICK i \in 1 .. Levels : v = expression[i] /\ a = i - 1 /\ b = i
    BY <1>2
  <2> QED BY <1>1, <2>1 DEF Single
<1>3. Certificate(C)
  <2> HIDE DEF C
  <2> QED BY <1>2, Zenon DEF Certificate
<1>4. p \in [0 .. Levels -> 0 .. Levels] /\ p[0] = 0 /\ p[Levels] = Levels
  BY <1>1
<1>5. ASSUME NEW j \in 1 .. Levels
      PROVE  <<expression[j], p[j - 1], p[j]>> \in C /\ expression[j] \in Certified(C)
  <2>1. p[j - 1] = j - 1 /\ p[j] = j
    BY <1>1
  <2>2. <<expression[j], p[j - 1], p[j]>> \in C
    BY <2>1, Zenon
  <2> HIDE DEF C, p
  <2> QED BY <1>3, <2>2, CertificateRange, Zenon
<1> HIDE DEF C, p
<1>6. expression \in Seq(Certified(C))
  <2>1. expression \in Seq({Leaf(x) : x \in DOMAIN Kind}) /\ Len(expression) = Levels
    BY <1>1 DEF IsChain
  <2> DEFINE n == Levels
             S == Certified(C)
  <2>2. expression = [j \in 1 .. n |-> expression[j]]
    BY <1>1, <2>1
  <2>3. n \in Nat /\ \A j \in 1 .. n : expression[j] \in S
    BY <1>1, <1>5, Zenon
  <2> HIDE DEF n, S
  <2>4. expression \in Seq(S)
    BY <2>2, <2>3, FunctionIsSeq, Zenon
  <2> QED BY <2>4, Zenon DEF S
<1>7. Spans(C, values, p)
  BY <1>1, <1>4, <1>5, <1>6, Zenon DEF Spans
<1>8. Evaluating(C)
  BY <1>1, <1>4, <1>7, Zenon DEF Evaluating
<1> QED BY <1>1, <1>3, <1>8, Zenon

\* The values with v instead of i and i + 1.
ValueAt(i, v, j) == IF j < i THEN values[j] ELSE IF j = i THEN v ELSE values[j + 1]

\* Replace, element by element.
LEMMA ReplaceElements ==
  ASSUME NEW S, NEW v \in S, values \in Seq(S), NEW i \in 1 .. Len(values) - 1
  PROVE  /\ Replace(i, v) \in Seq(S) /\ Len(Replace(i, v)) = Len(values) - 1
         /\ \A j \in 1 .. Len(values) - 1 : Replace(i, v)[j] = ValueAt(i, v, j)
<1> DEFINE n == Len(values)
           f == SubSeq(values, 1, i - 1)
           g == <<v>>
           h == SubSeq(values, i + 2, n)
<1>1. n \in Nat /\ i \in Nat /\ 1 =< i /\ i + 1 =< n
  OBVIOUS
<1>2. f \in Seq(S) /\ Len(f) = i - 1 /\ \A j \in 1 .. i - 1 : f[j] = values[j]
  BY <1>1
<1>3. g \in Seq(S) /\ Len(g) = 1 /\ g[1] = v
  OBVIOUS
<1>4. h \in Seq(S) /\ Len(h) = n - (i + 1) /\ \A j \in 1 .. n - (i + 1) : h[j] = values[j + (i + 1)]
  BY <1>1
<1>5. Replace(i, v) = (f \o g) \o h
  BY DEF Replace
<1> DEFINE k == f \o g
<1> HIDE DEF f, g, h
<1>6. k \in Seq(S) /\ Len(k) = i /\ k[i] = v /\ \A j \in 1 .. i - 1 : k[j] = values[j]
  <2>1. /\ k \in Seq(S) /\ Len(k) = Len(f) + Len(g)
        /\ \A j \in 1 .. Len(f) : k[j] = f[j]
        /\ \A j \in 1 .. Len(g) : k[Len(f) + j] = g[j]
    <3>1. f \in Seq(S) /\ g \in Seq(S)
      BY <1>2, <1>3, Zenon
    <3> QED BY <3>1, ConcatElements
  <2>2. Len(f) + 1 = i /\ 1 \in 1 .. Len(g)
    BY <1>1, <1>2, <1>3
  <2>3. k \in Seq(S) /\ Len(k) = i
    BY <1>3, <2>1, <2>2
  <2>4. k[i] = v
    <3>1. k[Len(f) + 1] = g[1]
      BY <2>1, <2>2, Zenon
    <3> QED BY <1>3, <2>2, <3>1, Zenon
  <2>5. \A j \in 1 .. i - 1 : k[j] = values[j]
    BY <1>2, <2>1, Zenon
  <2> QED BY <2>3, <2>4, <2>5, Zenon
<1> HIDE DEF k
<1> DEFINE r == k \o h
<1>7. /\ r \in Seq(S) /\ Len(r) = Len(k) + Len(h)
      /\ \A j \in 1 .. Len(k) : r[j] = k[j]
      /\ \A j \in 1 .. Len(h) : r[Len(k) + j] = h[j]
  <2>1. k \in Seq(S) /\ h \in Seq(S)
    BY <1>4, <1>6, Zenon
  <2> QED BY <2>1, ConcatElements
<1> HIDE DEF r
<1>8. Len(r) = n - 1
  <2>1. i + (n - (i + 1)) = n - 1
    BY <1>1
  <2> QED BY <1>4, <1>6, <1>7, <2>1, Zenon
<1>9. ASSUME NEW j \in i + 1 .. n - 1 PROVE r[j] = values[j + 1]
  <2> DEFINE d == j - i
  <2>1. d \in 1 .. n - (i + 1) /\ i + d = j /\ d + (i + 1) = j + 1
    BY <1>1
  <2> HIDE DEF d
  <2>2. r[i + d] = h[d]
    BY <1>4, <1>6, <1>7, <2>1, Zenon
  <2> QED BY <1>4, <2>1, <2>2, Zenon
<1>10. ASSUME NEW j \in 1 .. n - 1
       PROVE  r[j] = ValueAt(i, v, j)
  <2>1. \/ j < i /\ j \in 1 .. i /\ j \in 1 .. i - 1
        \/ ~(j < i) /\ j = i /\ i \in 1 .. i
        \/ ~(j < i) /\ j # i /\ j \in i + 1 .. n - 1
    BY <1>1
  <2> QED BY <1>6, <1>7, <1>9, <2>1, Zenon DEF ValueAt
<1> QED BY <1>5, <1>7, <1>8, <1>10, Zenon DEF r, k

\* What depends on the expression only does not change.
LEMMA SameExpression ==
  ASSUME UNCHANGED expression
  PROVE  /\ IsChain(expression)' <=> IsChain(expression)
         /\ Levels' = Levels
         /\ \A C : Certificate(C)' <=> Certificate(C)
         /\ \A C, x, c : Whole(C, x, c)' <=> Whole(C, x, c)
<1>1. Levels' = Levels /\ (IsChain(expression)' <=> IsChain(expression))
  BY Zenon DEF Levels, IsChain, EventChain, StateChain
<1>2. /\ EventChain(expression)' <=> EventChain(expression)
      /\ StateChain(expression)' <=> StateChain(expression)
  BY Zenon DEF EventChain, StateChain
<1>3. \A a, b : Passive(a, b)' <=> Passive(a, b)
  BY <1>1, <1>2, Zenon DEF Passive
<1>4. \A v, a, b : Single(v, a, b)' <=> Single(v, a, b)
  BY Zenon DEF Single
<1>5. \A C, v, a, b : Joined(C, v, a, b)' <=> Joined(C, v, a, b)
  BY <1>3, Zenon DEF Joined
<1>6. \A C, v, a, b : Waiting(C, v, a, b)' <=> Waiting(C, v, a, b)
  BY <1>1, <1>2 DEF Waiting
<1>7. \A C : Certificate(C)' <=> Certificate(C)
  BY <1>1, <1>4, <1>5, <1>6 DEF Certificate
<1>8. \A C, x, c : Whole(C, x, c)' <=> Whole(C, x, c)
  BY <1>1, <1>2, Zenon DEF Whole
<1> QED BY <1>1, <1>7, <1>8, Zenon

\* The values with v instead of i and i + 1 stand for the same part as before.
Replaced(D, i, v, p) ==
  \E q : /\ Spans(D, Replace(i, v), q) /\ q[0] = p[0]
         /\ q[Len(Replace(i, v))] = p[Len(values)]

\* The combination of two neighbours stands where they stood.
LEMMA SpansReplace ==
  ASSUME IsChain(expression), NEW C, NEW D, C \subseteq D, Certificate(D),
         NEW p, Spans(C, values, p), NEW i \in 1 .. Len(values) - 1,
         NEW v, <<v, p[i - 1], p[i + 1]>> \in D
  PROVE  Replaced(D, i, v, p)
<1> DEFINE n == Len(values)
           S == Certified(D)
           r == Replace(i, v)
           q == [j \in 0 .. n - 1 |-> IF j < i THEN p[j] ELSE p[j + 1]]
<1>1. values \in Seq(Certified(C)) /\ p \in [0 .. n -> 0 .. Levels]
  BY Zenon DEF Spans
<1>2. n \in Nat /\ i \in Nat /\ 1 =< i /\ i + 1 =< n
  BY <1>1
<1>3. ASSUME NEW j \in 1 .. n PROVE <<values[j], p[j - 1], p[j]>> \in D
  BY Zenon DEF Spans
<1>4. v \in S /\ \A j \in 1 .. n : values[j] \in S
  BY <1>3, CertificateRange, Zenon
<1>5. values \in Seq(S)
  <2>1. values = [j \in 1 .. n |-> values[j]]
    BY <1>1
  <2> HIDE DEF n, S
  <2> QED BY <1>2, <1>4, <2>1, FunctionIsSeq, Zenon
<1>6. /\ r \in Seq(S) /\ Len(r) = n - 1
      /\ \A j \in 1 .. n - 1 : r[j] = ValueAt(i, v, j)
  BY <1>4, <1>5, ReplaceElements, Zenon
<1>7. q \in [0 .. n - 1 -> 0 .. Levels]
  BY <1>1, <1>2
<1>8. \A j \in 0 .. n - 1 : q[j] = IF j < i THEN p[j] ELSE p[j + 1]
  BY Zenon
<1>9. q[0] = p[0] /\ q[n - 1] = p[n]
  BY <1>2, <1>8
<1> HIDE DEF q, r
<1>10. ASSUME NEW j \in 1 .. n - 1 PROVE <<r[j], q[j - 1], q[j]>> \in D
  <2>0. j \in 0 .. n - 1 /\ j - 1 \in 0 .. n - 1 /\ j \in 1 .. n /\ j + 1 \in 1 .. n
    BY <1>2
  <2>1. CASE j < i
    <3>1. j - 1 < i
      BY <1>2, <2>1
    <3>2. r[j] = values[j] /\ q[j - 1] = p[j - 1] /\ q[j] = p[j]
      BY <1>6, <1>8, <2>0, <2>1, <3>1, Zenon DEF ValueAt
    <3> QED BY <1>3, <2>0, <3>2, Zenon
  <2>2. CASE j = i
    <3>1. j - 1 < i /\ ~(j < i)
      BY <1>2, <2>2
    <3>2. r[j] = v /\ q[j - 1] = p[i - 1] /\ q[j] = p[i + 1]
      BY <1>6, <1>8, <2>0, <2>2, <3>1, Zenon DEF ValueAt
    <3> QED BY <3>2, Zenon
  <2>3. CASE j > i
    <3>1. ~(j - 1 < i) /\ ~(j < i) /\ j # i /\ (j - 1) + 1 = j /\ (j + 1) - 1 = j
      BY <1>2, <2>3
    <3>2. r[j] = values[j + 1] /\ q[j - 1] = p[j] /\ q[j] = p[j + 1]
      <4>1. r[j] = values[j + 1] /\ q[j] = p[j + 1]
        BY <1>6, <1>8, <2>0, <3>1, Zenon DEF ValueAt
      <4>2. q[j - 1] = p[(j - 1) + 1]
        BY <1>8, <2>0, <3>1, Zenon
      <4> QED BY <3>1, <4>1, <4>2, Zenon
    <3>3. <<values[j + 1], p[(j + 1) - 1], p[j + 1]>> \in D
      BY <1>3, <2>0
    <3> QED BY <3>1, <3>2, <3>3, Zenon
  <2> QED BY <1>2, <2>1, <2>2, <2>3
<1>11. Spans(D, r, q)
  BY <1>6, <1>7, <1>10, Zenon DEF Spans
<1> QED BY <1>6, <1>9, <1>11, Zenon DEF r, Replaced

\* The values of a chain are no mux_ports.
LEMMA NoMux ==
  ASSUME IsChain(expression), NEW C, Certificate(C), NEW v, NEW a, NEW b, <<v, a, b>> \in C
  PROVE  v.tag # "mux"
<1>1. Single(v, a, b) \/ Joined(C, v, a, b) \/ Waiting(C, v, a, b)
  BY Zenon DEF Certificate
<1>2. b \in 1 .. Levels
  BY CertificateRange, ChainLeaves
<1>3. ASSUME Single(v, a, b) PROVE v.tag = "leaf"
  BY <1>2, <1>3, ChainKinds, Zenon DEF Single
<1>4. ASSUME Waiting(C, v, a, b) PROVE v.tag = "proxy"
  BY <1>4 DEF Waiting
<1> QED BY <1>1, <1>3, <1>4 DEF Joined

\* The new value stands where the first of the two was.
LEMMA ReplacedElement ==
  ASSUME NEW S, NEW v \in S, values \in Seq(S), NEW i \in 1 .. Len(values) - 1
  PROVE  Replace(i, v)[i] = v
<1>1. Replace(i, v)[i] = ValueAt(i, v, i)
  BY ReplaceElements, Zenon
<1>2. ~(i < i)
  OBVIOUS
<1> QED BY <1>1, <1>2, Zenon DEF ValueAt

\* The path is closed by the last two values.
LEMMA LastTwo ==
  ASSUME IsChain(expression), NEW C, Certificate(C), NEW p, Spans(C, values, p),
         NEW i \in 1 .. Len(values) - 1, p[i - 1] = 0, p[i + 1] = Levels
  PROVE  Replace(i, Done) = <<Done>>
<1> DEFINE n == Len(values)
           S == Certified(C) \cup {Done}
           r == Replace(i, Done)
<1>1. values \in Seq(Certified(C)) /\ p \in [0 .. n -> 0 .. Levels] /\ Levels \in Nat
  BY ChainLeaves, Zenon DEF Spans
<1>2. n \in Nat /\ i \in Nat /\ 1 =< i /\ i + 1 =< n
  BY <1>1
<1>3. ASSUME NEW j \in 1 .. n
      PROVE  p[j - 1] \in 0 .. Levels /\ p[j] \in 0 .. Levels /\ p[j - 1] < p[j]
  <2>1. <<values[j], p[j - 1], p[j]>> \in C
    BY Zenon DEF Spans
  <2> QED BY <2>1, Zenon DEF Certificate
<1>4. i = 1
  <2> SUFFICES ASSUME i # 1 PROVE FALSE
    OBVIOUS
  <2>1. i - 1 \in 1 .. n
    BY <1>2
  <2>2. p[(i - 1) - 1] \in 0 .. Levels /\ p[(i - 1) - 1] < p[i - 1]
    BY <1>3, <2>1, Zenon
  <2> QED BY <1>1, <2>2
<1>5. n = 2
  <2> SUFFICES ASSUME n # 2 PROVE FALSE
    OBVIOUS
  <2>1. i + 2 \in 1 .. n /\ (i + 2) - 1 = i + 1
    <3> HIDE DEF n
    <3> QED BY <1>2, <1>4
  <2>2. p[(i + 2) - 1] < p[i + 2] /\ p[i + 2] \in 0 .. Levels
    BY <1>3, <2>1, Zenon
  <2> QED BY <1>1, <2>1, <2>2
<1>6. values \in Seq(S)
  BY <1>1
<1>7. Done \in S /\ i \in 1 .. Len(values) - 1 /\ 1 \in 1 .. Len(values) - 1
  BY <1>2
<1> HIDE DEF S
<1>8. r \in Seq(S) /\ Len(r) = Len(values) - 1
  BY <1>6, <1>7, ReplaceElements, Zenon
<1>9. r[1] = Done
  <2>1. r[i] = Done
    BY <1>6, <1>7, ReplacedElement, Zenon
  <2> QED BY <1>4, <2>1, Zenon
<1> HIDE DEF r
<1>10. r \in Seq(S) /\ Len(r) = 1 /\ r[1] = Done
  BY <1>2, <1>4, <1>5, <1>8, <1>9
<1>11. r = <<Done>>
  BY <1>10
<1> QED BY <1>11, Zenon DEF r

\* What an active port does when it is connected depends on the expression only.
LEMMA SameRecords ==
  ASSUME Levels' = Levels, NEW x, NEW c
  PROVE  /\ GraphEdges([active |-> x, conn |-> c])' = GraphEdges([active |-> x, conn |-> c])
         /\ Buffered([active |-> x, conn |-> c])' = Buffered([active |-> x, conn |-> c])
<1> DEFINE M == [active |-> x, conn |-> c]
<1>1. \A u, side : End(u, side)' = End(u, side)
  BY Zenon DEF End
<1>2. ASSUME NEW u, NEW calls PROVE LeavesOf(u, calls)' = LeavesOf(u, calls)
  <2> DEFINE L(N) == LET open[n \in 0 .. N] ==
                           IF n = 0 THEN <<u>> ELSE Open(open[n - 1], calls)
                         leaves == open[N]
                     IN [j \in DOMAIN leaves |-> leaves[j].name]
  <2>1. LeavesOf(u, calls) = L(Levels) /\ LeavesOf(u, calls)' = L(Levels')
    BY Zenon DEF LeavesOf
  <2> HIDE DEF L
  <2> QED BY <2>1, Zenon
<1>3. GraphEdges(M)' = GraphEdges(M)
  BY <1>2, Zenon DEF GraphEdges, Applied
<1>4. Buffered(M)' = Buffered(M)
  BY <1>1, Zenon DEF Buffered, get_sink, get_source
<1> QED BY <1>3, <1>4, Zenon

\* Two values are combined.
LEMMA CombineChain ==
  ASSUME ChainInv, IsChain(expression), NEW C, Certificate(C), Evaluating(C),
         NEW i \in 1 .. Len(values) - 1, Combine(i)
  PROVE  ChainInv'
<1>1. made = <<>> /\ edges = {} /\ buffers = {} /\ lost = 0
  BY DEF Evaluating, ChainInv
<1>2. PICK p : Spans(C, values, p) /\ p[0] = 0 /\ p[Len(values)] = Levels
  BY Zenon DEF Evaluating
<1> DEFINE v == values[i]
           w == values[i + 1]
           r == connect(v, w)
           a == p[i - 1]
           m == p[i]
           b == p[i + 1]
<1>3. <<v, a, m>> \in C /\ <<w, m, b>> \in C
  <2>1. i \in 1 .. Len(values) /\ i + 1 \in 1 .. Len(values) /\ (i + 1) - 1 = i
    BY <1>2 DEF Spans
  <2> QED BY <1>2, <2>1 DEF Spans
<1>4. /\ values' = Replace(i, r.value) /\ made' = made \o r.made
      /\ edges' = edges \cup UNION {GraphEdges(r.made[j]) : j \in DOMAIN r.made}
      /\ buffers' = buffers \cup UNION {Buffered(r.made[j]) : j \in DOMAIN r.made}
      /\ expression' = expression
      /\ lost' = IF r.connected THEN lost ELSE lost + 1
  BY Zenon DEF Combine, Record
<1> HIDE DEF v, w, a, m, b
<1>5. PICK D : C \subseteq D /\ Certificate(D) /\ Combined(D, r, a, b)
  BY <1>3, ConnectNeighbours, Zenon
<1> HIDE DEF r
<1>6. lost' = 0
  BY <1>1, <1>4, <1>5 DEF Combined
<1>7. Levels' = Levels /\ Certificate(D)' /\ \A x, c : Whole(D, x, c)' <=> Whole(D, x, c)
  BY <1>4, <1>5, SameExpression, Zenon
<1>8. CASE r.made = <<>> /\ <<r.value, a, b>> \in D
  <2>1. PICK q : /\ Spans(D, Replace(i, r.value), q) /\ q[0] = p[0]
                 /\ q[Len(Replace(i, r.value))] = p[Len(values)]
    <3> DEFINE x == r.value
    <3>1. <<x, p[i - 1], p[i + 1]>> \in D
      BY <1>8, Zenon DEF a, b
    <3> HIDE DEF x
    <3>2. Replaced(D, i, x, p)
      <4>1. C \subseteq D
        BY <1>5
      <4>2. Certificate(D)
        BY <1>5
      <4>3. Spans(C, values, p)
        BY <1>2
      <4> QED BY <3>1, <4>1, <4>2, <4>3, SpansReplace
    <3> QED BY <3>2, Zenon DEF x, Replaced
  <2>2. made' = <<>> /\ edges' = {} /\ buffers' = {}
    <3>1. DOMAIN r.made = {} /\ <<>> \o <<>> = <<>>
      BY <1>8
    <3> QED BY <1>1, <1>4, <1>8, <3>1, Zenon
  <2>3. Spans(D, values', q) /\ q[0] = 0 /\ q[Len(values')] = Levels
    BY <1>2, <1>4, <2>1, Zenon
  <2>4. Spans(D, values, q)'
    BY <1>7, <2>3, Zenon DEF Spans
  <2>5. Evaluating(D)'
    BY <1>7, <2>2, <2>3, <2>4, Zenon DEF Evaluating
  <2> QED BY <1>6, <1>7, <2>5, Zenon DEF ChainInv
<1>9. CASE r.value = Done /\ a = 0 /\ b = Levels /\ \E x, c :
             r.made = <<[active |-> x, conn |-> c]>> /\ Whole(D, x, c)
  <2>1. PICK x, c : r.made = <<[active |-> x, conn |-> c]>> /\ Whole(D, x, c)
    BY <1>9, Zenon
  <2> DEFINE M == [active |-> x, conn |-> c]
             ms == r.made
  <2>2. values' = <<Done>>
    BY <1>2, <1>4, <1>9, LastTwo, Zenon DEF a, b
  <2>3. ms = <<M>>
    BY <2>1
  <2> HIDE DEF M, ms
  <2>4. DOMAIN ms = {1} /\ ms[1] = M /\ <<>> \o ms = ms
    BY <2>3
  <2>5. made' = <<M>> /\ edges' = GraphEdges(M) /\ buffers' = Buffered(M)
    <3>1. made' = <<>> \o ms
      BY <1>1, <1>4, Zenon DEF ms
    <3>2. UNION {GraphEdges(ms[j]) : j \in DOMAIN ms} = GraphEdges(M)
      BY <2>4, Zenon
    <3>3. UNION {Buffered(ms[j]) : j \in DOMAIN ms} = Buffered(M)
      BY <2>4, Zenon
    <3>4. edges' = {} \cup GraphEdges(M) /\ buffers' = {} \cup Buffered(M)
      BY <1>1, <1>4, <3>2, <3>3, Zenon DEF ms
    <3> QED BY <2>3, <2>4, <3>1, <3>4
  <2>6. /\ GraphEdges([active |-> x, conn |-> c])' = GraphEdges(M)
        /\ Buffered([active |-> x, conn |-> c])' = Buffered(M)
    BY <1>7, SameRecords, Zenon DEF M
  <2>7. Whole(D, x, c)'
    BY <1>7, <2>1, Zenon
  <2>8. Connected(D)'
    BY <2>2, <2>5, <2>6, <2>7, Zenon DEF Connected, M
  <2> QED BY <1>6, <1>7, <2>8, Zenon DEF ChainInv
<1> QED BY <1>5, <1>8, <1>9, Zenon DEF Combined

\* ChainInv is inductive.
LEMMA ChainInvStep ==
  ASSUME ChainInv, [ConnectNext]_connectVars
  PROVE  ChainInv'
<1>1. CASE UNCHANGED connectVars
  <2>1. /\ expression' = expression /\ values' = values /\ made' = made /\ lost' = lost
        /\ edges' = edges /\ buffers' = buffers
    BY <1>1 DEF connectVars
  <2>2. /\ IsChain(expression)' <=> IsChain(expression)
        /\ Levels' = Levels
        /\ \A C : Certificate(C)' <=> Certificate(C)
        /\ \A C, x, c : Whole(C, x, c)' <=> Whole(C, x, c)
    BY <2>1, SameExpression, Zenon
  <2> SUFFICES ASSUME IsChain(expression)
               PROVE  lost' = 0 /\ \E C : Certificate(C)' /\ (Evaluating(C)' \/ Connected(C)')
    BY <2>2, Zenon DEF ChainInv
  <2>3. PICK C : lost = 0 /\ Certificate(C) /\ (Evaluating(C) \/ Connected(C))
    BY Zenon DEF ChainInv
  <2>4. ASSUME Evaluating(C) PROVE Evaluating(C)'
    <3>1. PICK p : Spans(C, values, p) /\ p[0] = 0 /\ p[Len(values)] = Levels
      BY <2>4, Zenon DEF Evaluating
    <3>2. Spans(C, values, p)' /\ p[0] = 0 /\ p[Len(values')] = Levels'
      BY <2>1, <2>2, <3>1, Zenon DEF Spans
    <3>3. made' = <<>> /\ edges' = {} /\ buffers' = {}
      BY <2>1, <2>4, Zenon DEF Evaluating
    <3> QED BY <3>2, <3>3, Zenon DEF Evaluating
  <2>5. ASSUME Connected(C) PROVE Connected(C)'
    <3>1. PICK x, c : /\ Whole(C, x, c) /\ made = <<[active |-> x, conn |-> c]>>
                      /\ edges = GraphEdges([active |-> x, conn |-> c])
                      /\ buffers = Buffered([active |-> x, conn |-> c])
      BY <2>5, Zenon DEF Connected
    <3> DEFINE M == [active |-> x, conn |-> c]
    <3>2. GraphEdges(M)' = GraphEdges(M) /\ Buffered(M)' = Buffered(M)
      BY <2>2, SameRecords, Zenon
    <3>3. Whole(C, x, c)' /\ values' = <<Done>>
      BY <2>1, <2>2, <2>5, <3>1, Zenon DEF Connected
    <3> QED BY <2>1, <3>1, <3>2, <3>3, Zenon DEF Connected
  <2>6. Certificate(C)' /\ lost' = 0
    BY <2>1, <2>2, <2>3, Zenon
  <2> QED BY <2>3, <2>4, <2>5, <2>6, Zenon
<1>2. CASE ConnectNext
  <2>1. PICK i \in 1 .. Len(values) - 1 : Combine(i) \/ CombineMux(i) \/ CombineMerge(i)
    BY <1>2, Zenon DEF ConnectNext
  <2>2. UNCHANGED expression
    BY <2>1, Zenon DEF Combine, CombineMux, CombineMerge, Record
  <2>3. CASE ~IsChain(expression)
    BY <2>2, <2>3, SameExpression, Zenon DEF ChainInv
  <2>4. CASE IsChain(expression)
    <3>1. PICK C : Certificate(C) /\ (Evaluating(C) \/ Connected(C))
      BY <2>4, Zenon DEF ChainInv
    <3>2. ~Connected(C)
      <4> SUFFICES ASSUME Connected(C) PROVE FALSE
        OBVIOUS
      <4>1. Len(values) = 1
        BY DEF Connected
      <4> QED BY <4>1
    <3>3. PICK p : Spans(C, values, p)
      BY <3>1, <3>2, Zenon DEF Evaluating
    <3>4. <<values[i], p[i - 1], p[i]>> \in C /\ <<values[i + 1], p[(i + 1) - 1], p[i + 1]>> \in C
      <4>1. i \in 1 .. Len(values) /\ i + 1 \in 1 .. Len(values)
        BY <3>3 DEF Spans
      <4> QED BY <3>3, <4>1, Zenon DEF Spans
    <3>5. values[i].tag # "mux" /\ values[i + 1].tag # "mux"
      BY <2>4, <3>1, <3>4, NoMux, Zenon
    <3>6. ~CombineMux(i)
      BY <3>5, Zenon DEF CombineMux, MuxDefined
    <3>7. ~CombineMerge(i)
      BY <3>5, Zenon DEF CombineMerge, MergeDefined
    <3>8. Certificate(C) /\ Evaluating(C) /\ Combine(i)
      BY <2>1, <3>1, <3>2, <3>6, <3>7, Zenon
    <3> QED BY <2>4, <3>8, CombineChain, Zenon
  <2> QED BY <2>3, <2>4, Zenon
<1> QED BY <1>1, <1>2, Zenon

\* In every reachable state the certificate of a chain exists.
LEMMA ChainInvariant == ConnectSpec => []ChainInv
BY ChainInvInit, ChainInvStep, PTL DEF ConnectSpec
--------------------------------------------------------------------------------
(* What a chain describes, and what its connection does.                   *)

\* The names of a chain in the order they are written.
Written == [i \in 1 .. Levels |-> expression[i].name]

\* The path of a chain, and its parts before the last and after the first name.
LEMMA WrittenParts ==
  ASSUME IsChain(expression)
  PROVE  /\ Written \in Seq(DOMAIN Kind) /\ Len(Written) = Levels
         /\ Written[1] = expression[1].name /\ Last(Written) = expression[Levels].name
         /\ \E ys \in Seq(DOMAIN Kind) : /\ ys = [j \in 1 .. Levels - 1 |-> expression[1 + j].name]
                                         /\ Written = <<expression[1].name>> \o ys
         /\ \E ys \in Seq(DOMAIN Kind) : /\ ys = [j \in 1 .. Levels - 1 |-> expression[j].name]
                                         /\ Written = ys \o <<expression[Levels].name>>
<1> DEFINE n == Levels
           S == DOMAIN Kind
           x == expression[1].name
           z == expression[n].name
           W == [i \in 1 .. n |-> expression[i].name]
           tl == [j \in 1 .. n - 1 |-> expression[1 + j].name]
           fr == [j \in 1 .. n - 1 |-> expression[j].name]
<1>1. n \in Nat /\ n >= 2 /\ expression \in Seq({Leaf(y) : y \in S}) /\ Len(expression) = n
  BY ChainLeaves DEF IsChain
<1>2. ASSUME NEW i \in 1 .. n PROVE expression[i].name \in S
  <2>1. expression[i] \in {Leaf(y) : y \in S}
    BY <1>1
  <2>2. PICK y \in S : expression[i] = Leaf(y)
    BY <2>1, Zenon
  <2> QED BY <2>2 DEF Leaf
<1>3. \A j \in 1 .. n - 1 : j \in 1 .. n /\ 1 + j \in 1 .. n
  BY <1>1
<1>4. 1 \in 1 .. n /\ n \in 1 .. n
  BY <1>1
<1>5. x \in S /\ z \in S
  BY <1>2, <1>4, Zenon
<1>6. W \in [1 .. n -> S] /\ tl \in [1 .. n - 1 -> S] /\ fr \in [1 .. n - 1 -> S]
  BY <1>2, <1>3, Zenon
<1>7. /\ \A i \in 1 .. n : W[i] = expression[i].name
      /\ \A j \in 1 .. n - 1 : tl[j] = expression[1 + j].name
      /\ \A j \in 1 .. n - 1 : fr[j] = expression[j].name
  BY Zenon
<1>8. tl = [j \in 1 .. Levels - 1 |-> expression[1 + j].name]
  BY Zenon
<1>9. fr = [j \in 1 .. Levels - 1 |-> expression[j].name]
  BY Zenon
<1>10. Written = W
  BY Zenon DEF Written
<1>11. W[1] = x /\ W[n] = z
  BY <1>4, <1>7, Zenon
<1> HIDE DEF W, tl, fr
<1>12. W \in Seq(S) /\ tl \in Seq(S) /\ fr \in Seq(S) /\ Len(W) = n /\ Len(tl) = n - 1 /\ Len(fr) = n - 1
  BY <1>1, <1>6
<1> HIDE DEF n, x, z
<1> DEFINE xt == <<x>> \o tl
           fz == fr \o <<z>>
<1>13. W = xt
  <2>1. xt \in Seq(S) /\ Len(xt) = n /\ xt[1] = x /\ \A j \in 2 .. n : xt[j] = tl[j - 1]
    BY <1>1, <1>5, <1>12
  <2>2. \A j \in 2 .. n : W[j] = tl[j - 1]
    <3>1. \A j \in 2 .. n : j \in 1 .. n /\ j - 1 \in 1 .. n - 1 /\ 1 + (j - 1) = j
      BY <1>1
    <3> QED BY <1>7, <3>1
  <2>3. \A j \in 1 .. n : xt[j] = W[j]
    <3> HIDE DEF xt
    <3>1. \A j \in 1 .. n : j = 1 \/ j \in 2 .. n
      BY <1>1
    <3> QED BY <1>11, <2>1, <2>2, <3>1, Zenon
  <2> HIDE DEF xt
  <2> QED BY <1>12, <2>1, <2>3
<1>14. W = fz
  <2>1. fz \in Seq(S) /\ Len(fz) = n /\ fz[n] = z /\ \A j \in 1 .. n - 1 : fz[j] = fr[j]
    BY <1>1, <1>5, <1>12
  <2>2. \A j \in 1 .. n : fz[j] = W[j]
    <3> HIDE DEF fz
    <3>1. \A j \in 1 .. n : j = n \/ j \in 1 .. n - 1
      BY <1>1
    <3> QED BY <1>3, <1>7, <1>11, <2>1, <3>1, Zenon
  <2> HIDE DEF fz
  <2> QED BY <1>12, <2>1, <2>2
<1>15. /\ Written \in Seq(S) /\ Len(Written) = Levels
       /\ Written[1] = expression[1].name /\ Last(Written) = expression[Levels].name
  BY <1>10, <1>11, <1>12, Zenon DEF n, x, z, Last
<1> HIDE DEF xt, fz
<1> QED BY <1>8, <1>9, <1>10, <1>12, <1>13, <1>14, <1>15, Zenon DEF x, z, n, xt, fz

\* A chain has no merge port.
LEMMA ChainHasNoMerge ==
  ASSUME IsChain(expression)
  PROVE  {i \in 1 .. Len(expression) : expression[i].tag = "merge"} = {}
<1>1. \A i \in 1 .. Len(expression) : expression[i].tag = "leaf"
  BY ChainLeaves, ChainKinds, Zenon
<1> QED BY <1>1

\* A chain describes one path.
LEMMA ChainDescribed ==
  ASSUME IsChain(expression)
  PROVE  Described(expression) = {Written} /\ Cardinality({Written}) = 1
<1> DEFINE e == expression
           n == Len(e)
           x == e[1].name
           z == e[n].name
           B == [i \in 1 .. (n - 1) - 2 + 1 |-> e[2 + i - 1].name]
<1>1. n \in Nat /\ n >= 2 /\ n = Levels /\ e \in Seq({Leaf(y) : y \in DOMAIN Kind})
  BY ChainLeaves DEF IsChain
<1>2. Head(e) = e[1] /\ Last(e) = e[n]
  BY <1>1 DEF Last
<1>3. e[1].tag = "leaf" /\ e[n].tag = "leaf"
  BY <1>1, ChainKinds
<1>4. Names(Head(e)) = <<x>> /\ Names(Last(e)) = <<z>>
  BY <1>2, <1>3 DEF Names
<1>5. Len(Names(Head(e))) = 1 /\ Len(Names(Last(e))) = 1 /\ Names(Head(e))[1] = x /\ Names(Last(e))[1] = z
  BY <1>4
<1>6. Max({Len(Names(Head(e))), Len(Names(Last(e)))}) = 1
  <2>1. {Len(Names(Head(e))), Len(Names(Last(e)))} = {1}
    BY <1>5, Zenon
  <2>2. Max({1}) = 1
    BY DEF Max
  <2> QED BY <2>1, <2>2, Zenon
<1>7. Described(e) = {<<x>> \o B \o <<z>>}
  <2> DEFINE At(v, j) == IF Len(Names(v)) = 1 THEN Names(v)[1] ELSE Names(v)[j]
  <2>1. Described(e) = {<<At(Head(e), j)>> \o B \o <<At(Last(e), j)>> :
                          j \in 1 .. Max({Len(Names(Head(e))), Len(Names(Last(e)))})}
    BY ChainHasNoMerge, Zenon DEF Described, SelectInSeq
  <2>2. At(Head(e), 1) = x /\ At(Last(e), 1) = z
    BY <1>5, Zenon
  <2>3. 1 .. Max({Len(Names(Head(e))), Len(Names(Last(e)))}) = {1}
    BY <1>6
  <2> HIDE DEF At, B, x, z, e
  <2> QED BY <2>1, <2>2, <2>3, Zenon
<1>8. <<x>> \o B \o <<z>> = Written
  <2> DEFINE S == DOMAIN Kind
  <2>1. PICK ys \in Seq(S) : /\ ys = [j \in 1 .. Levels - 1 |-> expression[1 + j].name]
                             /\ Written = <<x>> \o ys
    BY WrittenParts, Zenon
  <2>2. /\ Written \in Seq(S) /\ Len(Written) = n /\ Written[n] = z
        /\ \A i \in 1 .. n : Written[i] = e[i].name
    BY <1>1, WrittenParts, Zenon DEF Written, Last
  <2>3. \A i \in 1 .. n - 2 : 2 + i - 1 = i + 1 /\ i + 1 \in 1 .. n
    BY <1>1
  <2>4. (n - 1) - 2 + 1 = n - 2
    BY <1>1
  <2>5. B = [i \in 1 .. n - 2 |-> Written[i + 1]]
    BY <2>2, <2>3, <2>4, Zenon
  <2>6. x = Written[1]
    BY WrittenParts, Zenon
  <2> HIDE DEF B, x, z, S, n, e
  <2> DEFINE w == Written
  <2> HIDE DEF w
  <2>7. w \in Seq(S) /\ Len(w) = n /\ n \in Nat /\ n >= 2 /\ B = [i \in 1 .. n - 2 |-> w[i + 1]]
    BY <1>1, <2>2, <2>5, Zenon DEF w
  <2>8. \A j \in 1 .. n : w[j] \in S
    BY <2>7
  <2>9. B \in Seq(S) /\ Len(B) = n - 2 /\ \A i \in 1 .. n - 2 : B[i] = w[i + 1]
    BY <2>7, <2>8
  <2>10. x \in S /\ z \in S /\ x = w[1] /\ z = w[n]
    BY <2>2, <2>6, <2>7, <2>8 DEF w
  <2> HIDE DEF B
  <2> DEFINE f == <<x>> \o B
             g == f \o <<z>>
  <2>11. f \in Seq(S) /\ Len(f) = n - 1 /\ f[1] = x /\ \A i \in 2 .. n - 1 : f[i] = B[i - 1]
    BY <2>7, <2>9, <2>10
  <2> HIDE DEF f
  <2>12. g \in Seq(S) /\ Len(g) = n /\ g[n] = z /\ \A i \in 1 .. n - 1 : g[i] = f[i]
    BY <2>7, <2>10, <2>11
  <2> HIDE DEF g
  <2>13. \A i \in 2 .. n - 1 : B[i - 1] = w[i]
    <3>1. \A i \in 2 .. n - 1 : i - 1 \in 1 .. n - 2 /\ (i - 1) + 1 = i
      BY <2>7
    <3> QED BY <2>9, <3>1, Zenon
  <2>14. \A i \in 1 .. n : g[i] = w[i]
    <3>1. \A i \in 1 .. n : i = n \/ (i \in 1 .. n - 1 /\ (i = 1 \/ i \in 2 .. n - 1))
      BY <2>7
    <3> QED BY <2>10, <2>11, <2>12, <2>13, <3>1, Zenon
  <2>15. g = w
    BY <2>7, <2>12, <2>14
  <2> QED BY <2>15, Zenon DEF g, f, w
<1>9. Cardinality({Written}) = 1
  BY FS_Singleton, Zenon
<1> HIDE DEF B
<1> QED BY <1>7, <1>8, <1>9, Zenon

\* graph_adder finds the connectables of two parts one after the other.
LEMMA GraphAdderParts ==
  ASSUME NEW S, NEW xs \in Seq(S), NEW ys \in Seq(S)
  PROVE  graph_adder(xs \o ys) = graph_adder(xs) \o graph_adder(ys)
<1> DEFINE one(x) == IF x \in GraphAware THEN <<x>> ELSE <<>>
           f(s) == [i \in DOMAIN s |-> one(s[i])]
           k == Len(xs)
           l == Len(ys)
           zs == xs \o ys
<1>1. \A s : graph_adder(s) = FlattenSeq(f(s))
  BY Zenon DEF graph_adder
<1>2. \A x \in S : one(x) \in Seq(S)
  OBVIOUS
<1> HIDE DEF one
<1>3. ASSUME NEW s \in Seq(S)
      PROVE  /\ f(s) \in Seq(Seq(S)) /\ Len(f(s)) = Len(s)
             /\ \A i \in 1 .. Len(s) : f(s)[i] = one(s[i])
  <2>1. Len(s) \in Nat /\ DOMAIN s = 1 .. Len(s) /\ \A i \in 1 .. Len(s) : s[i] \in S
    OBVIOUS
  <2>2. f(s) \in [1 .. Len(s) -> Seq(S)]
    BY <1>2, <2>1, Zenon
  <2>3. \A i \in 1 .. Len(s) : f(s)[i] = one(s[i])
    BY <2>1, Zenon
  <2> HIDE DEF f
  <2> QED BY <2>1, <2>2, <2>3
<1>4. /\ k \in Nat /\ l \in Nat /\ zs \in Seq(S) /\ Len(zs) = k + l
      /\ \A i \in 1 .. k : zs[i] = xs[i]
      /\ \A i \in k + 1 .. k + l : zs[i] = ys[i - k]
  OBVIOUS
<1> HIDE DEF zs, f
<1> DEFINE fx == f(xs)
           fy == f(ys)
           fz == f(zs)
           c == fx \o fy
<1>5. /\ fx \in Seq(Seq(S)) /\ Len(fx) = k /\ \A i \in 1 .. k : fx[i] = one(xs[i])
      /\ fy \in Seq(Seq(S)) /\ Len(fy) = l /\ \A i \in 1 .. l : fy[i] = one(ys[i])
      /\ fz \in Seq(Seq(S)) /\ Len(fz) = k + l /\ \A i \in 1 .. k + l : fz[i] = one(zs[i])
  BY <1>3, <1>4, Zenon
<1> HIDE DEF k, l, fx, fy, fz
<1> DEFINE T == Seq(S)
<1>6. /\ fx \in Seq(T) /\ fy \in Seq(T) /\ fz \in Seq(T)
      /\ k \in Nat /\ l \in Nat /\ Len(fx) = k /\ Len(fy) = l /\ Len(fz) = k + l
  BY <1>4, <1>5
<1> HIDE DEF T
<1>7. /\ c \in Seq(T) /\ Len(c) = k + l
      /\ \A i \in 1 .. k : c[i] = fx[i]
      /\ \A i \in k + 1 .. k + l : c[i] = fy[i - k]
  BY <1>6
<1> HIDE DEF c
<1>8. \A i \in 1 .. k + l : c[i] = fz[i]
  <2> SUFFICES ASSUME NEW i \in 1 .. k + l PROVE c[i] = fz[i]
    OBVIOUS
  <2>1. fz[i] = one(zs[i])
    BY <1>5, Zenon
  <2>2. CASE i \in 1 .. k
    BY <1>4, <1>5, <1>7, <2>1, <2>2, Zenon
  <2>3. CASE i \in k + 1 .. k + l
    <3>1. i - k \in 1 .. l
      BY <1>6, <2>3
    <3> QED BY <1>4, <1>5, <1>7, <2>1, <2>3, <3>1, Zenon
  <2> QED BY <1>6, <2>2, <2>3
<1>9. fz = c
  BY <1>6, <1>7, <1>8
<1>10. FlattenSeq(fx \o fy) = FlattenSeq(fx) \o FlattenSeq(fy)
  BY <1>5, FlattenConcat, Zenon
<1> QED BY <1>1, <1>9, <1>10, Zenon DEF zs, fx, fy, fz, c

\* A graph_connectable is found.
LEMMA GraphAdderOne ==
  ASSUME NEW x \in GraphAware
  PROVE  graph_adder(<<x>>) = <<x>>
<1> DEFINE s == <<x>>
           u == <<x>>
           ss == [i \in DOMAIN s |-> IF s[i] \in GraphAware THEN <<s[i]>> ELSE <<>>]
<1>1. ss = <<u>>
  OBVIOUS
<1>2. u \in Seq({x})
  OBVIOUS
<1>3. graph_adder(s) = FlattenSeq(ss)
  BY Zenon DEF graph_adder
<1> HIDE DEF s, u, ss
<1>4. FlattenSeq(<<u>>) = u
  BY <1>2, FlattenOne, Zenon
<1> QED BY <1>1, <1>3, <1>4, Zenon DEF s, u

\* The connection of a chain passes the names as they are written, its edges follow them
\* and its buffer stands between the ends.
LEMMA ChainConnected ==
  ASSUME IsChain(expression), NEW C, Certificate(C), NEW x, NEW c, Whole(C, x, c)
  PROVE  LET M == [active |-> x, conn |-> c]
             nodes == graph_adder(Written)
             y == expression[1].name
             z == expression[Levels].name
         IN /\ Path(M) = Written
            /\ x = IF Kind[y] = "event_source" THEN y ELSE z
            /\ GraphEdges(M) = IF x \in GraphAware
                                 THEN {<<nodes[i], nodes[i + 1]>> : i \in 1 .. Len(nodes) - 1}
                                 ELSE {}
            /\ {{b[1], b[2]} : b \in Buffered(M)}
                 = IF NoRegion \notin {Region[y], Region[z]} /\ Region[y] # Region[z]
                     THEN {{y, z}} ELSE {}
<1> DEFINE M == [active |-> x, conn |-> c]
           nodes == graph_adder(Written)
           y == expression[1].name
           z == expression[Levels].name
           S == DOMAIN Kind
           G(ns) == {<<ns[i], ns[i + 1]>> : i \in 1 .. Len(ns) - 1}
<1>1. M.active = x /\ M.conn = c
  OBVIOUS
<1>e. GraphEdges(M)
        = IF M.active \in GraphAware
            THEN G(IF Kind[M.active] = "event_source"
                     THEN <<M.active>> \o graph_adder(Applied(M.conn))
                     ELSE graph_adder(Applied(M.conn)) \o <<M.active>>)
            ELSE {}
  BY Zenon DEF GraphEdges
<1>2. Levels \in Nat /\ Levels >= 2 /\ 1 \in 1 .. Levels /\ Levels \in 1 .. Levels
  BY ChainLeaves
<1>3. expression[1] = Leaf(y) /\ expression[Levels] = Leaf(z)
  BY <1>2, ChainLeaves, Zenon
<1>4. /\ has_node_aware(Leaf(y)) <=> Region[y] # NoRegion
      /\ has_node_aware(Leaf(z)) <=> Region[z] # NoRegion
      /\ Leaf(y).name = y /\ Leaf(z).name = z
  BY DEF has_node_aware, Leaf
<1>5. y \in S /\ z \in S
  <2>1. Written \in Seq(S) /\ Len(Written) = Levels /\ Written[1] = y /\ Written[Levels] = z
    BY WrittenParts, Zenon DEF Last
  <2> HIDE DEF S, y, z
  <2> QED BY <1>2, <2>1
<1>6. CASE EventChain(expression)
  <2>1. x = y /\ <<c, 1, Levels>> \in C /\ Kind[x] = "event_source" /\ Passive(1, Levels)
    BY <1>6, ChainLeaves DEF Whole, EventChain, Passive
  <2>2. PICK ys \in Seq(S) : /\ ys = [j \in 1 .. Levels - 1 |-> expression[1 + j].name]
                             /\ Written = <<y>> \o ys
    BY WrittenParts, Zenon
  <2> DEFINE lo == 1
             hi == Levels
  <2>a. <<c, lo, hi>> \in C /\ Passive(lo, hi)
    BY <2>1
  <2> HIDE DEF lo, hi
  <2>3. \A calls : LeavesOf(c, calls) = ys
    <3>1. \A calls : LeavesOf(c, calls) = [j \in 1 .. hi - lo |-> expression[lo + j].name]
      BY <2>a, LeavesOfPart
    <3> QED BY <2>2, <3>1, Zenon DEF lo, hi
  <2>4. get_sink(c) = Leaf(z)
    <3> DEFINE side == "sink"
    <3>1. side \in {"source", "sink"} /\ side # "source"
      OBVIOUS
    <3> HIDE DEF side
    <3>2. End(c, side) = expression[Levels]
      BY <2>a, <3>1, EndOfPart, Zenon DEF hi
    <3> QED BY <1>3, <3>2, Zenon DEF get_sink, side
  <2>5. Path(M) = Written
    BY <1>1, <2>1, <2>2, <2>3, Zenon DEF Path, Leaves
  <2>6. x \in GraphAware => nodes = <<x>> \o graph_adder(ys)
    <3> DEFINE xs == <<x>>
    <3> SUFFICES ASSUME x \in GraphAware PROVE nodes = <<x>> \o graph_adder(ys)
      OBVIOUS
    <3>1. xs \in Seq(S)
      BY <1>5, <2>1
    <3>2. graph_adder(xs) = xs
      BY GraphAdderOne, Zenon
    <3>3. Written = xs \o ys
      BY <2>1, <2>2, Zenon
    <3> HIDE DEF xs, S
    <3>4. graph_adder(xs \o ys) = graph_adder(xs) \o graph_adder(ys)
      BY <2>2, <3>1, GraphAdderParts, Zenon
    <3> QED BY <3>2, <3>3, <3>4, Zenon DEF xs
  <2>7. GraphEdges(M) = IF x \in GraphAware
                          THEN {<<nodes[i], nodes[i + 1]>> : i \in 1 .. Len(nodes) - 1} ELSE {}
    <3>1. Applied(c) = ys
      BY <2>3, Zenon DEF Applied
    <3> HIDE DEF nodes, G, M
    <3> QED BY <1>1, <1>e, <2>1, <2>6, <3>1, Zenon DEF G
  <2>8. Buffered(M) = IF Region[y] # NoRegion /\ Region[z] # NoRegion /\ Region[y] # Region[z]
                        THEN {<<y, z>>} ELSE {}
    BY <1>1, <1>4, <2>1, <2>4, Zenon DEF Buffered, same_region
  <2>9. {{b[1], b[2]} : b \in Buffered(M)}
          = IF NoRegion \notin {Region[y], Region[z]} /\ Region[y] # Region[z]
              THEN {{y, z}} ELSE {}
    <3> DEFINE Q == Region[y] # NoRegion /\ Region[z] # NoRegion /\ Region[y] # Region[z]
    <3>1. Q <=> NoRegion \notin {Region[y], Region[z]} /\ Region[y] # Region[z]
      BY Zenon
    <3>2. CASE Q
      <4> DEFINE t == <<y, z>>
      <4>1. Buffered(M) = {t}
        BY <2>8, <3>2
      <4>2. t[1] = y /\ t[2] = z
        OBVIOUS
      <4> HIDE DEF t, M, Q
      <4> QED BY <3>1, <3>2, <4>1, <4>2, Zenon
    <3>3. CASE ~Q
      <4>1. Buffered(M) = {}
        BY <2>8, <3>3
      <4> HIDE DEF M, Q
      <4> QED BY <3>1, <3>3, <4>1, Zenon
    <3> QED BY <3>2, <3>3, Zenon
  <2> QED BY <2>1, <2>5, <2>7, <2>9, Zenon
<1>7. CASE StateChain(expression)
  <2>1. /\ x = z /\ <<c, 0, Levels - 1>> \in C /\ Kind[x] # "event_source" /\ Kind[y] # "event_source"
        /\ Passive(0, Levels - 1)
    BY <1>2, <1>7, ChainLeaves DEF Whole, StateChain, Passive
  <2>2. PICK ys \in Seq(S) : /\ ys = [j \in 1 .. Levels - 1 |-> expression[j].name]
                             /\ Written = ys \o <<z>>
    BY WrittenParts, Zenon
  <2>3. \A calls : LeavesOf(c, calls) = ys
    <3>1. \A calls : LeavesOf(c, calls) = [j \in 1 .. (Levels - 1) - 0 |-> expression[0 + j].name]
      BY <2>1, LeavesOfPart
    <3>2. (Levels - 1) - 0 = Levels - 1 /\ \A j \in 1 .. Levels - 1 : 0 + j = j
      BY <1>2
    <3> QED BY <2>2, <3>1, <3>2, Zenon
  <2>4. get_source(c) = Leaf(y)
    <3> DEFINE side == "source"
               a == 0
    <3>1. side \in {"source", "sink"} /\ side = "source" /\ a + 1 = 1
      OBVIOUS
    <3>2. <<c, a, Levels - 1>> \in C /\ Passive(a, Levels - 1)
      BY <2>1
    <3> HIDE DEF side, a
    <3>3. End(c, side) = expression[a + 1]
      BY <3>1, <3>2, EndOfPart, Zenon
    <3> QED BY <1>3, <3>1, <3>3, Zenon DEF get_source, side
  <2>5. Path(M) = Written
    BY <1>1, <2>1, <2>2, <2>3, Zenon DEF Path, Leaves
  <2>6. x \in GraphAware => nodes = graph_adder(ys) \o <<x>>
    <3> DEFINE xs == <<x>>
    <3> SUFFICES ASSUME x \in GraphAware PROVE nodes = graph_adder(ys) \o <<x>>
      OBVIOUS
    <3>1. xs \in Seq(S)
      BY <1>5, <2>1
    <3>2. graph_adder(xs) = xs
      BY GraphAdderOne, Zenon
    <3>3. Written = ys \o xs
      BY <2>1, <2>2, Zenon
    <3> HIDE DEF xs, S
    <3>4. graph_adder(ys \o xs) = graph_adder(ys) \o graph_adder(xs)
      BY <2>2, <3>1, GraphAdderParts, Zenon
    <3> QED BY <3>2, <3>3, <3>4, Zenon DEF xs
  <2>7. GraphEdges(M) = IF x \in GraphAware
                          THEN {<<nodes[i], nodes[i + 1]>> : i \in 1 .. Len(nodes) - 1} ELSE {}
    <3>1. Applied(c) = ys
      BY <2>3, Zenon DEF Applied
    <3> HIDE DEF nodes, G, M
    <3> QED BY <1>1, <1>e, <2>1, <2>6, <3>1, Zenon DEF G
  <2>8. Buffered(M) = IF Region[y] # NoRegion /\ Region[z] # NoRegion /\ Region[y] # Region[z]
                        THEN {<<z, y>>} ELSE {}
    BY <1>1, <1>4, <2>1, <2>4, Zenon DEF Buffered, same_region
  <2>9. {{b[1], b[2]} : b \in Buffered(M)}
          = IF NoRegion \notin {Region[y], Region[z]} /\ Region[y] # Region[z]
              THEN {{y, z}} ELSE {}
    <3> DEFINE Q == Region[y] # NoRegion /\ Region[z] # NoRegion /\ Region[y] # Region[z]
    <3>1. Q <=> NoRegion \notin {Region[y], Region[z]} /\ Region[y] # Region[z]
      BY Zenon
    <3>2. CASE Q
      <4> DEFINE t == <<z, y>>
      <4>1. Buffered(M) = {t}
        BY <2>8, <3>2
      <4>2. t[1] = z /\ t[2] = y /\ {z, y} = {y, z}
        OBVIOUS
      <4> HIDE DEF t, M, Q
      <4> QED BY <3>1, <3>2, <4>1, <4>2, Zenon
    <3>3. CASE ~Q
      <4>1. Buffered(M) = {}
        BY <2>8, <3>3
      <4> HIDE DEF M, Q
      <4> QED BY <3>1, <3>3, <4>1, Zenon
    <3> QED BY <3>2, <3>3, Zenon
  <2> QED BY <2>1, <2>5, <2>7, <2>9, Zenon
<1> QED BY <1>6, <1>7, ChainLeaves, Zenon
--------------------------------------------------------------------------------
(* The properties.                                                         *)

\* While a chain is evaluated, two of its values are left and can be combined.
LEMMA ChainGoesOn ==
  ASSUME IsChain(expression), NEW C, Certificate(C), Evaluating(C)
  PROVE  /\ Len(values) # 1
         /\ \E i \in 1 .. Len(values) - 1 : Connectables(values[i], values[i + 1])
<1>1. PICK p : Spans(C, values, p) /\ p[0] = 0 /\ p[Len(values)] = Levels
  BY Zenon DEF Evaluating
<1>2. Levels \in Nat /\ Levels >= 2 /\ Len(values) \in Nat
  <2>1. values \in Seq(Certified(C))
    BY <1>1, Zenon DEF Spans
  <2> QED BY <2>1, ChainLeaves
<1>3. \A j \in 1 .. Len(values) : <<values[j], p[j - 1], p[j]>> \in C
  BY <1>1, Zenon DEF Spans
<1>4. Len(values) # 0
  <2> SUFFICES ASSUME Len(values) = 0 PROVE FALSE
    OBVIOUS
  <2>1. Levels = 0
    BY <1>1, Zenon
  <2> QED BY <1>2, <2>1
<1>5. Len(values) # 1
  <2> SUFFICES ASSUME Len(values) = 1 PROVE FALSE
    OBVIOUS
  <2> DEFINE v == values[1]
  <2>1. 1 \in 1 .. Len(values) /\ 1 - 1 = 0
    OBVIOUS
  <2>2. <<v, 0, Levels>> \in C
    BY <1>1, <1>3, <2>1
  <2> HIDE DEF v
  <2>3. Single(v, 0, Levels) \/ Joined(C, v, 0, Levels) \/ Waiting(C, v, 0, Levels)
    BY <2>2 DEF Certificate
  <2>4. ~Single(v, 0, Levels)
    BY <1>2 DEF Single
  <2>5. ~Joined(C, v, 0, Levels)
    BY <1>2 DEF Joined, Passive
  <2>6. ~Waiting(C, v, 0, Levels)
    BY <1>2 DEF Waiting
  <2> QED BY <2>3, <2>4, <2>5, <2>6, Zenon
<1>6. 1 \in 1 .. Len(values) - 1 /\ 1 \in 1 .. Len(values) /\ 1 + 1 \in 1 .. Len(values)
  <2> DEFINE n == Len(values)
  <2>1. n \in Nat /\ n # 0 /\ n # 1
    BY <1>2, <1>4, <1>5
  <2> HIDE DEF n
  <2>2. 1 \in 1 .. n - 1 /\ 1 \in 1 .. n /\ 1 + 1 \in 1 .. n
    BY <2>1
  <2> QED BY <2>2, Zenon DEF n
<1> DEFINE i == 1
           v == values[i]
           w == values[i + 1]
           a == p[i - 1]
           m == p[i]
           b == p[i + 1]
<1>7. <<v, a, m>> \in C /\ <<w, m, b>> \in C
  <2>1. (i + 1) - 1 = i
    OBVIOUS
  <2> QED BY <1>3, <1>6, <2>1
<1> HIDE DEF v, w, a, m, b
<1>8. Connectables(v, w)
  BY <1>7, ConnectNeighbours, Zenon
<1> QED BY <1>5, <1>6, <1>8, Zenon DEF v, w

\* A chain that is connected was connected as it is written.
LEMMA ChainIsAsWritten ==
  ASSUME ChainInv, IsChain(expression)
  PROVE  PathsAsWritten /\ GraphAndBuffersFollowPaths /\ ProxiesAreConnected
<1>1. PICK C : lost = 0 /\ Certificate(C) /\ (Evaluating(C) \/ Connected(C))
  BY Zenon DEF ChainInv
<1>2. CASE Evaluating(C)
  <2>1. /\ Len(values) # 1
        /\ \E i \in 1 .. Len(values) - 1 : Connectables(values[i], values[i + 1])
    BY <1>1, <1>2, ChainGoesOn, Zenon
  <2>2. PathsAsWritten
    BY <2>1, Zenon DEF PathsAsWritten
  <2> QED BY <1>1, <2>1, <2>2, Zenon DEF GraphAndBuffersFollowPaths, ProxiesAreConnected
<1>3. CASE Connected(C)
  <2>1. PICK x, c : /\ Whole(C, x, c) /\ made = <<[active |-> x, conn |-> c]>>
                    /\ edges = GraphEdges([active |-> x, conn |-> c])
                    /\ buffers = Buffered([active |-> x, conn |-> c])
    BY <1>3, Zenon DEF Connected
  <2> DEFINE M == [active |-> x, conn |-> c]
             nodes == graph_adder(Written)
             y == expression[1].name
             z == expression[Levels].name
             W == {Written}
  <2>2. /\ Path(M) = Written
        /\ x = IF Kind[y] = "event_source" THEN y ELSE z
        /\ GraphEdges(M) = IF x \in GraphAware
                             THEN {<<nodes[i], nodes[i + 1]>> : i \in 1 .. Len(nodes) - 1}
                             ELSE {}
        /\ {{b[1], b[2]} : b \in Buffered(M)}
             = IF NoRegion \notin {Region[y], Region[z]} /\ Region[y] # Region[z]
                 THEN {{y, z}} ELSE {}
    BY <1>1, <2>1, ChainConnected, Zenon
  <2>3. Described(expression) = W /\ Cardinality(W) = 1
    BY ChainDescribed, Zenon
  <2>4. Written[1] = y /\ Last(Written) = z
    BY WrittenParts, Zenon
  <2>5. values = <<Done>> /\ Len(values) = 1
    BY <1>3 DEF Connected
  <2> HIDE DEF M
  <2>6. made = <<M>> /\ edges = GraphEdges(M) /\ buffers = Buffered(M)
    BY <2>1, Zenon DEF M
  <2>7. PathsAsWritten
    <3>1. DOMAIN made = {1} /\ made[1] = M /\ Len(made) = 1
      BY <2>6
    <3>2. {Path(made[i]) : i \in DOMAIN made} = {Path(M)}
      BY <3>1, Zenon
    <3> QED BY <2>2, <2>3, <2>5, <3>1, <3>2, Zenon DEF PathsAsWritten
  <2>8. ProxiesAreConnected
    <3>1. values[1] = Done
      BY <2>5
    <3>2. Done.tag # "proxy"
      BY DEF Done
    <3> QED BY <1>1, <3>1, <3>2, Zenon DEF ProxiesAreConnected
  <2>9. GraphAndBuffersFollowPaths
    <3> DEFINE ActiveEnd(p) == IF Kind[p[1]] = "event_source" THEN p[1] ELSE Last(p)
               Edges(p) == {<<graph_adder(p)[i], graph_adder(p)[i + 1]>> :
                              i \in 1 .. Len(graph_adder(p)) - 1}
               Crossing(q) == /\ NoRegion \notin {Region[q[1]], Region[Last(q)]}
                              /\ Region[q[1]] # Region[Last(q)]
    <3>1. edges = UNION {Edges(p) : p \in {q \in W : ActiveEnd(q) \in GraphAware}}
      <4>1. ActiveEnd(Written) = x
        BY <2>2, <2>4, Zenon
      <4>2. edges = IF x \in GraphAware THEN Edges(Written) ELSE {}
        BY <2>2, <2>6, Zenon
      <4> HIDE DEF ActiveEnd, Edges
      <4>3. CASE x \in GraphAware
        <5>1. {q \in W : ActiveEnd(q) \in GraphAware} = {Written}
          BY <4>1, <4>3, Zenon
        <5>2. UNION {Edges(p) : p \in {Written}} = Edges(Written)
          BY Zenon
        <5> QED BY <4>2, <4>3, <5>1, <5>2, Zenon
      <4>4. CASE x \notin GraphAware
        <5>1. {q \in W : ActiveEnd(q) \in GraphAware} = {}
          BY <4>1, <4>4, Zenon
        <5>2. UNION {Edges(p) : p \in {}} = {}
          BY Zenon
        <5> QED BY <4>2, <4>4, <5>1, <5>2, Zenon
      <4> QED BY <4>3, <4>4, Zenon
    <3>2. {{b[1], b[2]} : b \in buffers} = {{p[1], Last(p)} : p \in {q \in W : Crossing(q)}}
      <4>1. Crossing(Written) <=> NoRegion \notin {Region[y], Region[z]} /\ Region[y] # Region[z]
        BY <2>4, Zenon
      <4>2. {{b[1], b[2]} : b \in buffers} = IF Crossing(Written) THEN {{y, z}} ELSE {}
        BY <2>2, <2>6, <4>1, Zenon
      <4> HIDE DEF Crossing
      <4>3. CASE Crossing(Written)
        <5>1. {q \in W : Crossing(q)} = {Written}
          BY <4>3, Zenon
        <5>2. {{p[1], Last(p)} : p \in {Written}} = {{Written[1], Last(Written)}}
          BY Zenon
        <5> QED BY <2>4, <4>2, <4>3, <5>1, <5>2, Zenon
      <4>4. CASE ~Crossing(Written)
        <5>1. {q \in W : Crossing(q)} = {}
          BY <4>4, Zenon
        <5>2. {{p[1], Last(p)} : p \in {}} = {}
          BY Zenon
        <5> QED BY <4>2, <4>4, <5>1, <5>2, Zenon
      <4> QED BY <4>3, <4>4, Zenon
    <3> DEFINE Visible(p, k) ==
                 IF k = 0 THEN p ELSE SubSeq(p, Len(p) - (Len(expression) - k) + 1, Len(p))
               Drawn(k, D) ==
                 UNION {{<<graph_adder(Visible(p, k))[i], graph_adder(Visible(p, k))[i + 1]>> :
                           i \in 1 .. Len(graph_adder(Visible(p, k))) - 1} :
                        p \in {q \in D : ActiveEnd(q) \in GraphAware}}
               Buffers(D) == {{p[1], Last(p)} : p \in {q \in D : Crossing(q)}}
               I == {i \in 1 .. Len(expression) : expression[i].tag = "merge"}
               merge == IF I # {} THEN Min(I) ELSE 0
    <3>3. GraphAndBuffersFollowPaths <=>
            (Len(values) = 1 =>
               /\ edges = Drawn(merge, Described(expression))
               /\ merge = 0 => {{b[1], b[2]} : b \in buffers} = Buffers(Described(expression))
               /\ merge # 0 => buffers = {})
      BY Zenon DEF GraphAndBuffersFollowPaths, SelectInSeq
    <3>4. merge = 0
      BY ChainHasNoMerge, Zenon
    <3>5. ASSUME NEW k, k = 0 PROVE Drawn(k, W) = UNION {Edges(p) : p \in {q \in W : ActiveEnd(q) \in GraphAware}}
      <4>1. \A p : Visible(p, k) = p
        BY <3>5, Zenon
      <4> HIDE DEF Visible, W, ActiveEnd
      <4> QED BY <4>1
    <3> HIDE DEF W, merge, Drawn, Buffers
    <3>6. edges = Drawn(merge, W)
      BY <3>1, <3>4, <3>5, Zenon
    <3>7. {{b[1], b[2]} : b \in buffers} = Buffers(W)
      BY <3>2, Zenon DEF Buffers
    <3> QED BY <2>3, <3>3, <3>4, <3>6, <3>7, Zenon
  <2> QED BY <2>7, <2>8, <2>9, Zenon
<1> QED BY <1>1, <1>2, <1>3, Zenon

(***************************************************************************)
(* operator>> is associative on chains of any length: however the          *)
(* parentheses stand, two neighbouring values can always be combined until *)
(* one connection is made, and its path has the connectables in the order  *)
(* in which they are written.                                              *)
(***************************************************************************)
THEOREM ChainsAreAsWritten == ConnectSpec => [](IsChain(expression) => PathsAsWritten)
<1>1. ChainInv => (IsChain(expression) => PathsAsWritten)
  BY ChainIsAsWritten, Zenon
<1> QED BY <1>1, ChainInvariant, PTL

(***************************************************************************)
(* For chains of any length the edges that graph_connectable adds follow   *)
(* the written order, and node_aware puts a buffer exactly between ends    *)
(* of different regions, whatever order connect built the path in.         *)
(***************************************************************************)
THEOREM ChainsAreDrawnAndBuffered ==
  ConnectSpec => [](IsChain(expression) => GraphAndBuffersFollowPaths)
<1>1. ChainInv => (IsChain(expression) => GraphAndBuffersFollowPaths)
  BY ChainIsAsWritten, Zenon
<1> QED BY <1>1, ChainInvariant, PTL

(***************************************************************************)
(* The assertion of ~active_connection_proxy holds for chains of any       *)
(* length, as long as no mux_port takes part: no proxy is destroyed before *)
(* it was connected, and none is left over.                                *)
(***************************************************************************)
THEOREM ChainsLoseNoProxy == ConnectSpec => [](IsChain(expression) => ProxiesAreConnected)
<1>1. ChainInv => (IsChain(expression) => ProxiesAreConnected)
  BY ChainIsAsWritten, Zenon
<1> QED BY <1>1, ChainInvariant, PTL
================================================================================
