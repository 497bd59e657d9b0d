------------------------------ MODULE ChainProofs ------------------------------
(***************************************************************************)
(* Chains: expressions of any length without a mux_port, from an event     *)
(* source to an event sink or consumer, or from a state source or producer *)
(* to a state sink.  What a value of Connecting stands for while a chain   *)
(* is evaluated, and what connect makes of two neighbouring values.        *)
(***************************************************************************)
EXTENDS Connecting, SequenceProofs

EventChain(e) ==
  Kind[e[1].name] = "event_source" /\ Kind[e[Len(e)].name] \in {"event_sink", "consumer"}

StateChain(e) ==
  Kind[e[1].name] \in {"state_source", "producer"} /\ Kind[e[Len(e)].name] = "state_sink"

\* A port, functions and another port, one of the ports active.
IsChain(e) ==
  /\ e \in Seq({Leaf(x) : x \in DOMAIN Kind})
  /\ Len(e) >= 2
  /\ \A i \in 2 .. Len(e) - 1 : Kind[e[i].name] = "function"
  /\ EventChain(e) \/ StateChain(e)

(***************************************************************************)
(* A value stands for the part a + 1 .. b of the expression.  A set of     *)
(* triples <<v, a, b>> is a certificate that it does: for each triple, the *)
(* set also has those for the operands v was made of.  The part is passive *)
(* if it does not contain the active port.                                 *)
(***************************************************************************)
Passive(a, b) == IF EventChain(expression) THEN a >= 1 ELSE b =< Levels - 1

Single(v, a, b) == b = a + 1 /\ v = expression[b]

Joined(C, v, a, b) ==
  /\ v.tag = "connection" /\ Passive(a, b)
  /\ \E m \in a + 1 .. b - 1 : <<v.source, a, m>> \in C /\ <<v.sink, m, b>> \in C

Waiting(C, v, a, b) ==
  /\ v = [tag |-> "proxy", active |-> v.active, passive |-> v.passive, first |-> v.first]
  /\ \/ /\ EventChain(expression) /\ a = 0 /\ b \in 2 .. Levels - 1
        /\ v.first = "source" /\ v.active = expression[1].name /\ <<v.passive, 1, b>> \in C
     \/ /\ StateChain(expression) /\ b = Levels /\ a \in 1 .. Levels - 2
        /\ v.first = "sink" /\ v.active = expression[Levels].name
        /\ <<v.passive, a, Levels - 1>> \in C

Certificate(C) ==
  \A v, a, b : <<v, a, b>> \in C =>
    /\ a \in 0 .. Levels /\ b \in 0 .. Levels /\ a < b
    /\ Single(v, a, b) \/ Joined(C, v, a, b) \/ Waiting(C, v, a, b)

Certified(C) == {t[1] : t \in {x \in C : x = <<x[1], x[2], x[3]>>}}

\* The values s stand, one after the other, for the part between p[0] and p[Len(s)].
Spans(C, s, p) ==
  /\ s \in Seq(Certified(C)) /\ p \in [0 .. Len(s) -> 0 .. Levels]
  /\ \A j \in 1 .. Len(s) : <<s[j], p[j - 1], p[j]>> \in C

\* The same for passive values between a and b, with at most w leaves each.
Good(C, s, a, b, w) ==
  \E p : /\ Spans(C, s, p) /\ p[0] = a /\ p[Len(s)] = b
         /\ \A j \in 1 .. Len(s) : Passive(p[j - 1], p[j]) /\ p[j] - p[j - 1] =< w
--------------------------------------------------------------------------------
(* Sequences of certified values.                                          *)

\* What IsChain says of the length of the expression and its leaves.
LEMMA ChainLeaves ==
  ASSUME IsChain(expression)
  PROVE  /\ Levels \in Nat /\ Levels >= 2 /\ Len(expression) = Levels
         /\ \A i \in 1 .. Levels : expression[i] = Leaf(expression[i].name)
         /\ EventChain(expression) \/ StateChain(expression)
         /\ EventChain(expression) => ~StateChain(expression)
<1>1. expression \in Seq({Leaf(x) : x \in DOMAIN Kind}) /\ Len(expression) >= 2
  BY DEF IsChain
<1>2. \A i \in 1 .. Len(expression) : expression[i] = Leaf(expression[i].name)
  BY <1>1 DEF Leaf
<1>3. EventChain(expression) => ~StateChain(expression)
  BY DEF EventChain, StateChain
<1> QED BY <1>1, <1>2, <1>3 DEF Levels, IsChain

\* A part is as long as its certificate says.
LEMMA CertificateRange ==
  ASSUME IsChain(expression), NEW C, Certificate(C), NEW v, NEW a, NEW b, <<v, a, b>> \in C
  PROVE  /\ a \in 0 .. Levels /\ b \in 0 .. Levels /\ a \in Nat /\ b \in Nat /\ a < b
         /\ v \in Certified(C)
<1>1. a \in 0 .. Levels /\ b \in 0 .. Levels /\ a < b
  BY Zenon DEF Certificate
<1> DEFINE t == <<v, a, b>>
<1>2. t[1] = v /\ t = <<t[1], t[2], t[3]>>
  OBVIOUS
<1>3. v \in Certified(C)
  BY <1>2, Zenon DEF Certified
<1> QED BY <1>1, <1>3, ChainLeaves

\* The certificate of a passive value.
LEMMA PassiveCertificate ==
  ASSUME IsChain(expression), NEW C, Certificate(C), NEW v, NEW a, NEW b, <<v, a, b>> \in C,
         Passive(a, b)
  PROVE  (Single(v, a, b) /\ v.tag = "leaf") \/ Joined(C, v, a, b)
<1>1. Single(v, a, b) \/ Joined(C, v, a, b) \/ Waiting(C, v, a, b)
  BY Zenon DEF Certificate
<1>2. ~Waiting(C, v, a, b)
  BY ChainLeaves DEF Waiting, Passive
<1>3. ASSUME Single(v, a, b) PROVE v.tag = "leaf"
  <2>1. b \in 1 .. Levels
    BY <1>3, CertificateRange, ChainLeaves DEF Single
  <2> QED BY <1>3, <2>1, ChainLeaves DEF Single, Leaf
<1> QED BY <1>1, <1>2, <1>3, Zenon

\* A value is a sequence of one value.
LEMMA GoodSingle ==
  ASSUME IsChain(expression), NEW C, Certificate(C), NEW v, NEW a, NEW b, <<v, a, b>> \in C,
         Passive(a, b), NEW w \in Nat, b - a =< w
  PROVE  Good(C, <<v>>, a, b, w)
<1> DEFINE s == <<v>>
           p == [j \in 0 .. 1 |-> IF j = 0 THEN a ELSE b]
<1>1. a \in 0 .. Levels /\ b \in 0 .. Levels /\ v \in Certified(C)
  BY CertificateRange, Zenon
<1>2. s \in Seq(Certified(C)) /\ Len(s) = 1 /\ s[1] = v
  BY <1>1
<1>3. p \in [0 .. 1 -> 0 .. Levels] /\ p[0] = a /\ p[1] = b /\ \A j \in 1 .. 1 : j = 1 /\ j - 1 = 0
  BY <1>1
<1> HIDE DEF s, p
<1>4. Spans(C, s, p)
  BY <1>2, <1>3 DEF Spans
<1>5. \A j \in 1 .. 1 : Passive(p[j - 1], p[j]) /\ p[j] - p[j - 1] =< w
  BY <1>3
<1>6. Good(C, s, a, b, w)
  BY <1>2, <1>3, <1>4, <1>5, Zenon DEF Good
<1> QED BY <1>6, Zenon DEF s

\* No value at all.
LEMMA GoodEmpty ==
  ASSUME NEW C, NEW a \in 0 .. Levels, NEW w
  PROVE  Good(C, <<>>, a, a, w)
<1> DEFINE s == <<>>
           p == [j \in 0 .. 0 |-> a]
<1>1. s \in Seq(Certified(C)) /\ Len(s) = 0
  OBVIOUS
<1>2. p \in [0 .. 0 -> 0 .. Levels] /\ p[0] = a /\ 1 .. 0 = {}
  OBVIOUS
<1> HIDE DEF s, p
<1>3. Spans(C, s, p)
  BY <1>1, <1>2, Zenon DEF Spans
<1>4. Good(C, s, a, a, w)
  BY <1>1, <1>2, <1>3, Zenon DEF Good
<1> QED BY <1>4, Zenon DEF s

\* Values behind each other.
LEMMA GoodConcat ==
  ASSUME IsChain(expression), NEW C, NEW s, NEW t, NEW a, NEW m, NEW b, NEW w,
         Good(C, s, a, m, w), Good(C, t, m, b, w)
  PROVE  Good(C, s \o t, a, b, w)
<1>1. PICK p : /\ Spans(C, s, p) /\ p[0] = a /\ p[Len(s)] = m
               /\ \A j \in 1 .. Len(s) : Passive(p[j - 1], p[j]) /\ p[j] - p[j - 1] =< w
  BY Zenon DEF Good
<1>2. PICK q : /\ Spans(C, t, q) /\ q[0] = m /\ q[Len(t)] = b
               /\ \A j \in 1 .. Len(t) : Passive(q[j - 1], q[j]) /\ q[j] - q[j - 1] =< w
  BY Zenon DEF Good
<1> DEFINE k == Len(s)
           l == Len(t)
           st == s \o t
           r == [j \in 0 .. k + l |-> IF j =< k THEN p[j] ELSE q[j - k]]
<1>3. k \in Nat /\ l \in Nat /\ s \in Seq(Certified(C)) /\ t \in Seq(Certified(C))
  BY <1>1, <1>2 DEF Spans
<1>4. /\ st \in Seq(Certified(C)) /\ Len(st) = k + l
      /\ \A j \in 1 .. k : st[j] = s[j]
      /\ \A j \in 1 .. l : st[k + j] = t[j]
  BY <1>3
<1>5. p \in [0 .. k -> 0 .. Levels] /\ q \in [0 .. l -> 0 .. Levels]
  BY <1>1, <1>2, Zenon DEF Spans
<1>6. \A j \in 1 .. k : /\ <<s[j], p[j - 1], p[j]>> \in C
                        /\ Passive(p[j - 1], p[j]) /\ p[j] - p[j - 1] =< w
  BY <1>1, Zenon DEF Spans
<1>7. \A j \in 1 .. l : /\ <<t[j], q[j - 1], q[j]>> \in C
                        /\ Passive(q[j - 1], q[j]) /\ q[j] - q[j - 1] =< w
  BY <1>2, Zenon DEF Spans
<1>8. p[0] = a /\ p[k] = m /\ q[0] = m /\ q[l] = b
  BY <1>1, <1>2, Zenon
<1> HIDE DEF k, l, st
<1>9. r \in [0 .. k + l -> 0 .. Levels]
  BY <1>3, <1>5
<1>10. \A j \in 0 .. k : r[j] = p[j]
  BY <1>3
<1>11. \A j \in 0 .. l : r[k + j] = q[j]
  BY <1>3, <1>8
<1> HIDE DEF r
<1>12. r[0] = a /\ r[k + l] = b
  BY <1>3, <1>8, <1>10, <1>11
<1>13. ASSUME NEW j \in 1 .. k + l
       PROVE  <<st[j], r[j - 1], r[j]>> \in C /\ Passive(r[j - 1], r[j]) /\ r[j] - r[j - 1] =< w
  <2>1. CASE j =< k
    <3>1. j \in 1 .. k /\ j \in 0 .. k /\ j - 1 \in 0 .. k
      BY <1>3, <2>1
    <3> QED BY <1>4, <1>6, <1>10, <3>1, Zenon
  <2>2. CASE ~(j =< k)
    <3> DEFINE i == j - k
    <3>1. i \in 1 .. l /\ i \in 0 .. l /\ i - 1 \in 0 .. l /\ k + i = j /\ k + (i - 1) = j - 1
      BY <1>3, <2>2
    <3> HIDE DEF i
    <3>2. st[j] = t[i] /\ r[j] = q[i] /\ r[j - 1] = q[i - 1]
      BY <1>4, <1>11, <3>1
    <3> QED BY <1>7, <3>1, <3>2, Zenon
  <2> QED BY <2>1, <2>2, Zenon
<1>14. Spans(C, st, r)
  BY <1>4, <1>9, <1>13, Zenon DEF Spans
<1>15. Good(C, st, a, b, w)
  BY <1>4, <1>12, <1>13, <1>14, Zenon DEF Good
<1> QED BY <1>15, Zenon DEF st

\* One level down, a value of more than w leaves is two of at most w.
LEMMA GoodInside ==
  ASSUME IsChain(expression), NEW C, Certificate(C), NEW v, NEW a, NEW b, <<v, a, b>> \in C,
         Passive(a, b), NEW w \in Nat, w >= 1, b - a =< w + 1, NEW calls
  PROVE  Good(C, Inside(v, calls), a, b, w)
<1>1. a \in Nat /\ b \in Nat /\ a < b
  BY CertificateRange, Zenon
<1>2. CASE Single(v, a, b) /\ v.tag = "leaf"
  <2>1. Inside(v, calls) = <<v>>
    BY <1>2 DEF Inside
  <2>2. b - a =< w
    BY <1>1, <1>2 DEF Single
  <2>3. Good(C, <<v>>, a, b, w)
    BY <2>2, GoodSingle, Zenon
  <2> QED BY <2>1, <2>3, Zenon
<1>3. CASE Joined(C, v, a, b)
  <2> DEFINE x == v.source
             y == v.sink
  <2>1. PICK m \in a + 1 .. b - 1 : <<x, a, m>> \in C /\ <<y, m, b>> \in C
    BY <1>3, Zenon DEF Joined
  <2>2. Inside(v, calls) = <<x>> \o <<y>>
    BY <1>3 DEF Inside, Joined
  <2> HIDE DEF x, y
  <2>3. m - a =< w /\ b - m =< w /\ m \in Nat
    BY <1>1
  <2>4. Passive(a, m) /\ Passive(m, b)
    BY <1>1, <2>3, ChainLeaves DEF Passive
  <2>5. Good(C, <<x>>, a, m, w) /\ Good(C, <<y>>, m, b, w)
    BY <2>1, <2>3, <2>4, GoodSingle, Zenon
  <2> DEFINE s == <<x>>
             t == <<y>>
  <2>6. Good(C, s, a, m, w) /\ Good(C, t, m, b, w)
    BY <2>5, Zenon
  <2> HIDE DEF s, t
  <2>7. Good(C, s \o t, a, b, w)
    BY <2>6, GoodConcat, Zenon
  <2> QED BY <2>2, <2>7, Zenon DEF s, t
<1> QED BY <1>2, <1>3, PassiveCertificate, Zenon

\* Without its last value, a sequence stands for the part before that value's.
LEMMA GoodFront ==
  ASSUME IsChain(expression), NEW C, NEW s, NEW a, NEW b, NEW w, Good(C, s, a, b, w),
         NEW n \in Nat, Len(s) = n + 1
  PROVE  \E m : /\ Good(C, Front(s), a, m, w) /\ <<Last(s), m, b>> \in C
                /\ Passive(m, b) /\ b - m =< w
<1>1. PICK p : /\ Spans(C, s, p) /\ p[0] = a /\ p[Len(s)] = b
               /\ \A j \in 1 .. Len(s) : Passive(p[j - 1], p[j]) /\ p[j] - p[j - 1] =< w
  BY Zenon DEF Good
<1> DEFINE t == Front(s)
           q == [j \in 0 .. n |-> p[j]]
           m == p[n]
<1>2. s \in Seq(Certified(C)) /\ p \in [0 .. n + 1 -> 0 .. Levels]
  BY <1>1, Zenon DEF Spans
<1>3. /\ t \in Seq(Certified(C)) /\ Len(t) = n /\ Last(s) = s[n + 1]
      /\ \A j \in 1 .. n : t[j] = s[j]
  BY <1>2, FrontAndLast, Zenon
<1>4. \A j \in 1 .. n + 1 : /\ <<s[j], p[j - 1], p[j]>> \in C
                            /\ Passive(p[j - 1], p[j]) /\ p[j] - p[j - 1] =< w
  BY <1>1, Zenon DEF Spans
<1> HIDE DEF t
<1>5. n + 1 \in 1 .. n + 1 /\ (n + 1) - 1 = n /\ 0 \in 0 .. n /\ n \in 0 .. n
  OBVIOUS
<1>6. <<Last(s), m, b>> \in C /\ Passive(m, b) /\ b - m =< w
  BY <1>1, <1>3, <1>4, <1>5, Zenon
<1>7. q \in [0 .. n -> 0 .. Levels]
  BY <1>2
<1>8. \A j \in 1 .. n : j \in 1 .. n + 1 /\ j \in 0 .. n /\ j - 1 \in 0 .. n
  OBVIOUS
<1>9. \A j \in 0 .. n : q[j] = p[j]
  BY Zenon
<1> HIDE DEF q
<1>10. Spans(C, t, q)
  BY <1>3, <1>4, <1>7, <1>8, <1>9, Zenon DEF Spans
<1>11. \A j \in 1 .. n : Passive(q[j - 1], q[j]) /\ q[j] - q[j - 1] =< w
  BY <1>4, <1>8, <1>9, Zenon
<1>12. Good(C, t, a, m, w)
  BY <1>1, <1>3, <1>5, <1>9, <1>10, <1>11, Zenon DEF Good
<1> QED BY <1>6, <1>12, Zenon DEF t

\* Open, one value after the other.
LEMMA OpenStep ==
  ASSUME NEW S, NEW s \in Seq(S), NEW v \in S, NEW calls,
         \A u \in S : Inside(u, calls) \in Seq(S)
  PROVE  Open(Append(s, v), calls) = Open(s, calls) \o Inside(v, calls)
<1> DEFINE n == Len(s)
           t == Append(s, v)
           R == Seq(S)
           f == [i \in DOMAIN s |-> Inside(s[i], calls)]
           g == Inside(v, calls)
           h == [i \in DOMAIN t |-> Inside(t[i], calls)]
<1>1. /\ n \in Nat /\ DOMAIN s = 1 .. n /\ DOMAIN t = 1 .. n + 1
      /\ t[n + 1] = v /\ (\A i \in 1 .. n : t[i] = s[i]) /\ \A i \in 1 .. n : s[i] \in S
  OBVIOUS
<1>2. g \in R /\ \A i \in 1 .. n : Inside(s[i], calls) \in R
  BY <1>1, Zenon
<1>3. n + 1 \in 1 .. n + 1 /\ \A i \in 1 .. n : i \in 1 .. n + 1
  BY <1>1
<1> HIDE DEF n, t, R
<1>4. f = [i \in 1 .. n |-> f[i]] /\ \A i \in 1 .. n : f[i] = Inside(s[i], calls) /\ f[i] \in R
  BY <1>1, <1>2, Zenon
<1>5. /\ h = [i \in 1 .. n + 1 |-> h[i]] /\ h[n + 1] = g /\ \A i \in 1 .. n : h[i] = f[i]
  BY <1>1, <1>3, <1>4, Zenon
<1> HIDE DEF f, g, h
<1>6. f \in Seq(R) /\ Len(f) = n
  BY <1>1, <1>4, FunctionIsSeq, Zenon
<1>7. h = Append(f, g)
  <2> DEFINE m == n + 1
  <2>1. m \in Nat /\ h = [i \in 1 .. m |-> h[i]]
    BY <1>1, <1>5
  <2>2. \A i \in 1 .. m : i \in 1 .. n \/ i = n + 1
    BY <1>1
  <2>3. \A i \in 1 .. m : h[i] \in R
    BY <1>2, <1>4, <1>5, <2>2, Zenon
  <2> HIDE DEF m
  <2>4. h \in Seq(R) /\ Len(h) = m
    BY <2>1, <2>3, FunctionIsSeq, Zenon
  <2>5. Len(h) = Len(f) + 1 /\ \A i \in 1 .. Len(f) : h[i] = f[i]
    BY <1>5, <1>6, <2>4, Zenon DEF m
  <2>6. h = Append(f, h[Len(f) + 1])
    BY <1>6, <2>4, <2>5, AppendElements, Zenon
  <2> QED BY <1>5, <1>6, <2>6, Zenon
<1>8. FlattenSeq(Append(f, g)) = FlattenSeq(f) \o g
  BY <1>2, <1>6, FlattenStep, Zenon DEF R
<1> QED BY <1>7, <1>8, Zenon DEF Open, f, g, h, t

\* What is inside a certified value is certified.
LEMMA InsideCertified ==
  ASSUME IsChain(expression), NEW C, Certificate(C), NEW calls, NEW u \in Certified(C)
  PROVE  Inside(u, calls) \in Seq(Certified(C))
<1>1. PICK t \in C : u = t[1] /\ t = <<t[1], t[2], t[3]>>
  BY Zenon DEF Certified
<1> DEFINE a == t[2]
           b == t[3]
<1>2. <<u, a, b>> \in C
  BY <1>1, Zenon
<1> HIDE DEF a, b
<1>3. CASE u.tag = "connection"
  <2>1. Single(u, a, b) \/ Joined(C, u, a, b) \/ Waiting(C, u, a, b)
    BY <1>2, Zenon DEF Certificate
  <2>2. ~Waiting(C, u, a, b)
    BY <1>3 DEF Waiting
  <2>3. ~Single(u, a, b)
    <3> SUFFICES ASSUME Single(u, a, b) PROVE FALSE
      OBVIOUS
    <3>1. b \in 1 .. Levels
      BY <1>2, CertificateRange, ChainLeaves DEF Single
    <3> QED BY <1>3, <3>1, ChainLeaves DEF Single, Leaf
  <2>4. PICK m \in a + 1 .. b - 1 : <<u.source, a, m>> \in C /\ <<u.sink, m, b>> \in C
    BY <2>1, <2>2, <2>3, Zenon DEF Joined
  <2>5. u.source \in Certified(C) /\ u.sink \in Certified(C)
    BY <2>4, CertificateRange, Zenon
  <2>6. Inside(u, calls) = <<u.source, u.sink>>
    BY <1>3 DEF Inside
  <2> QED BY <2>5, <2>6
<1>4. CASE u.tag # "connection"
  <2>1. u.tag \in {"leaf", "proxy"}
    <3>1. Single(u, a, b) \/ Waiting(C, u, a, b)
      BY <1>2, <1>4, Zenon DEF Certificate, Joined
    <3>2. ASSUME Single(u, a, b) PROVE u.tag = "leaf"
      <4>1. b \in 1 .. Levels
        BY <1>2, <3>2, CertificateRange, ChainLeaves DEF Single
      <4> QED BY <3>2, <4>1, ChainLeaves DEF Single, Leaf
    <3>3. ASSUME Waiting(C, u, a, b) PROVE u.tag = "proxy"
      BY <3>3 DEF Waiting
    <3> QED BY <3>1, <3>2, <3>3
  <2>2. Inside(u, calls) = <<u>>
    BY <2>1 DEF Inside
  <2> QED BY <2>2
<1> QED BY <1>3, <1>4, Zenon

\* Opened, values of at most w + 1 leaves become values of at most w.
LEMMA GoodOpen ==
  ASSUME IsChain(expression), NEW C, Certificate(C), NEW a \in 0 .. Levels,
         NEW w \in Nat, w >= 1, NEW calls
  PROVE  \A s, b : Good(C, s, a, b, w + 1) => Good(C, Open(s, calls), a, b, w)
<1> DEFINE P(s, b) == Good(C, s, a, b, w + 1) => Good(C, Open(s, calls), a, b, w)
           T == {n \in Nat : \A s, b : Len(s) = n => P(s, b)}
<1>0. \A s, b, x : Good(C, s, a, b, x) => /\ s \in Seq(Certified(C)) /\ Len(s) \in Nat
                                          /\ Len(s) = 0 => s = <<>> /\ b = a
  <2> SUFFICES ASSUME NEW s, NEW b, NEW x, Good(C, s, a, b, x)
               PROVE  /\ s \in Seq(Certified(C)) /\ Len(s) \in Nat
                      /\ Len(s) = 0 => s = <<>> /\ b = a
    OBVIOUS
  <2>1. PICK p : Spans(C, s, p) /\ p[0] = a /\ p[Len(s)] = b
    BY Zenon DEF Good
  <2>2. s \in Seq(Certified(C))
    BY <2>1, Zenon DEF Spans
  <2> QED BY <2>1, <2>2
<1>1. 0 \in T
  <2> SUFFICES ASSUME NEW s, NEW b, Len(s) = 0, Good(C, s, a, b, w + 1)
               PROVE  Good(C, Open(s, calls), a, b, w)
    BY Zenon
  <2>1. s = <<>> /\ b = a
    BY <1>0, Zenon
  <2>2. Open(<<>>, calls) = <<>>
    <3>1. [i \in DOMAIN <<>> |-> Inside(<<>>[i], calls)] = <<>>
      OBVIOUS
    <3> QED BY <3>1, FlattenEmpty, Zenon DEF Open
  <2> QED BY <2>1, <2>2, GoodEmpty, Zenon
<1>2. ASSUME NEW n \in Nat, n \in T PROVE n + 1 \in T
  <2>0. n + 1 \in Nat
    OBVIOUS
  <2> SUFFICES ASSUME NEW s, NEW b, Len(s) = n + 1, Good(C, s, a, b, w + 1)
               PROVE  Good(C, Open(s, calls), a, b, w)
    BY <2>0, Zenon
  <2> DEFINE t == Front(s)
             v == Last(s)
             W == w + 1
             S == Certified(C)
             ot == Open(t, calls)
             iv == Inside(v, calls)
  <2>1. s \in Seq(S)
    BY <1>0, Zenon
  <2>2. Good(C, s, a, b, W)
    OBVIOUS
  <2> HIDE DEF W
  <2>3. PICK m : Good(C, t, a, m, W) /\ <<v, m, b>> \in C /\ Passive(m, b) /\ b - m =< W
    BY <2>2, GoodFront, Zenon
  <2>4. t \in Seq(S) /\ Len(t) = n /\ v \in S /\ s = Append(t, v)
    BY <2>1, FrontAndLast, Zenon
  <2> HIDE DEF t, v
  <2>5. Good(C, ot, a, m, w)
    BY <1>2, <2>3, <2>4, Zenon DEF W
  <2>6. Good(C, iv, m, b, w)
    BY <2>3, GoodInside, Zenon DEF W
  <2>7. Open(s, calls) = ot \o iv
    <3>1. \A u \in S : Inside(u, calls) \in Seq(S)
      BY InsideCertified, Zenon
    <3> HIDE DEF S
    <3> QED BY <2>4, <3>1, OpenStep, Zenon
  <2> HIDE DEF ot, iv
  <2>8. Good(C, ot \o iv, a, b, w)
    BY <2>5, <2>6, GoodConcat, Zenon
  <2> QED BY <2>7, <2>8, Zenon
<1>3. \A n \in Nat : n \in T
  <2> HIDE DEF T
  <2> QED BY <1>1, <1>2, NumberInduction, Zenon
<1> QED BY <1>0, <1>3, Zenon

\* A larger bound holds as well.
LEMMA GoodWider ==
  ASSUME IsChain(expression), NEW C, NEW s, NEW a, NEW b, NEW w \in Nat, NEW x \in Nat, w =< x,
         Good(C, s, a, b, w)
  PROVE  Good(C, s, a, b, x)
<1>1. PICK p : /\ Spans(C, s, p) /\ p[0] = a /\ p[Len(s)] = b
               /\ \A j \in 1 .. Len(s) : Passive(p[j - 1], p[j]) /\ p[j] - p[j - 1] =< w
  BY Zenon DEF Good
<1>2. \A j \in 1 .. Len(s) : p[j] - p[j - 1] =< x
  <2> TAKE j \in 1 .. Len(s)
  <2>1. p \in [0 .. Len(s) -> 0 .. Levels] /\ s \in Seq(Certified(C))
    BY <1>1, Zenon DEF Spans
  <2>2. j \in 0 .. Len(s) /\ j - 1 \in 0 .. Len(s)
    BY <2>1
  <2>3. p[j] \in 0 .. Levels /\ p[j - 1] \in 0 .. Levels
    BY <2>1, <2>2, Zenon
  <2>4. p[j] \in Nat /\ p[j - 1] \in Nat
    BY <2>3, ChainLeaves
  <2> QED BY <1>1, <2>4
<1> QED BY <1>1, <1>2, Zenon DEF Good

\* Values of one leaf each are the leaves of the expression.
LEMMA GoodLeaves ==
  ASSUME IsChain(expression), NEW C, Certificate(C), NEW s, NEW a \in Nat, NEW b \in Nat, a < b,
         Good(C, s, a, b, 1)
  PROVE  /\ s \in Seq(Certified(C)) /\ Len(s) = b - a
         /\ \A j \in 1 .. b - a : s[j] = expression[a + j]
<1>1. PICK p : /\ Spans(C, s, p) /\ p[0] = a /\ p[Len(s)] = b
               /\ \A j \in 1 .. Len(s) : Passive(p[j - 1], p[j]) /\ p[j] - p[j - 1] =< 1
  BY Zenon DEF Good
<1> DEFINE n == Len(s)
           T == {j \in Nat : j =< n => p[j] = a + j}
<1>2. s \in Seq(Certified(C)) /\ n \in Nat
  BY <1>1 DEF Spans
<1>3. ASSUME NEW j \in 1 .. n PROVE /\ p[j] = p[j - 1] + 1 /\ p[j - 1] \in Nat
                                    /\ s[j] = expression[p[j]]
  <2> DEFINE x == p[j - 1]
             y == p[j]
             v == s[j]
  <2>1. <<v, x, y>> \in C /\ Passive(x, y) /\ y - x =< 1
    BY <1>1, Zenon DEF Spans
  <2> HIDE DEF x, y, v
  <2>2. x \in Nat /\ y \in Nat /\ x < y
    BY <2>1, CertificateRange, Zenon
  <2>3. y = x + 1
    BY <2>1, <2>2
  <2>4. x + 1 .. y - 1 = {}
    BY <2>2, <2>3
  <2>5. ~Joined(C, v, x, y)
    BY <2>4, Zenon DEF Joined
  <2>6. v = expression[y]
    BY <2>1, <2>5, PassiveCertificate, Zenon DEF Single
  <2> QED BY <2>2, <2>3, <2>6, Zenon DEF x, y, v
<1> HIDE DEF n
<1>4. 0 \in T
  BY <1>1
<1>5. ASSUME NEW j \in Nat, j \in T PROVE j + 1 \in T
  <2>1. CASE j + 1 =< n
    <3>1. j + 1 \in 1 .. n /\ (j + 1) - 1 = j /\ j =< n
      BY <1>2, <2>1
    <3>2. p[j + 1] = p[j] + 1
      BY <1>3, <3>1
    <3> QED BY <1>5, <3>1, <3>2
  <2>2. CASE ~(j + 1 =< n)
    BY <2>2
  <2> QED BY <2>1, <2>2
<1>6. \A j \in Nat : j \in T
  <2> HIDE DEF T
  <2> QED BY <1>4, <1>5, NumberInduction, Zenon
<1>7. n = b - a
  BY <1>1, <1>2, <1>6 DEF n
<1>8. \A j \in 1 .. n : p[j] = a + j
  BY <1>2, <1>6
<1> QED BY <1>2, <1>3, <1>7, <1>8, Zenon DEF n
--------------------------------------------------------------------------------
(* The ends and the leaves of a passive value.                             *)

\* What is left of a part of d leaves after i levels.
Left(d, i) == IF d - i >= 1 THEN d - i ELSE 1

\* The levels of LeavesOf.
Opening(o, v, calls, N) == o = [i \in 0 .. N |-> IF i = 0 THEN <<v>> ELSE Open(o[i - 1], calls)]

\* These levels exist.
LEMMA OpeningExists ==
  ASSUME NEW v, NEW calls, NEW N \in Nat
  PROVE  \E o : Opening(o, v, calls, N)
<1> DEFINE E(n, o) == [i \in 0 .. n |-> IF i = 0 THEN <<v>> ELSE Open(o[i - 1], calls)]
           T == {n \in Nat : \E o : o = E(n, o)}
<1>1. 0 \in T
  <2> DEFINE o == [i \in 0 .. 0 |-> <<v>>]
  <2>1. o = E(0, o)
    <3>1. \A i \in 0 .. 0 : i = 0
      OBVIOUS
    <3> QED BY <3>1, Zenon
  <2> HIDE DEF o, E
  <2> QED BY <2>1
<1>2. ASSUME NEW n \in Nat, n \in T PROVE n + 1 \in T
  <2>1. PICK o : o = E(n, o)
    BY <1>2, Zenon
  <2> DEFINE p == E(n + 1, o)
  <2>2. \A i \in 0 .. n : i \in 0 .. n + 1 /\ p[i] = o[i]
    <3>1. \A i \in 0 .. n : i \in 0 .. n + 1
      OBVIOUS
    <3> QED BY <2>1, <3>1, Zenon
  <2>3. \A i \in 0 .. n + 1 : i # 0 => i - 1 \in 0 .. n
    OBVIOUS
  <2>4. \A i \in 0 .. n + 1 : i # 0 => p[i - 1] = o[i - 1]
    BY <2>2, <2>3, Zenon
  <2>5. \A i \in 0 .. n + 1 : p[i] = IF i = 0 THEN <<v>> ELSE Open(p[i - 1], calls)
    BY <2>4, Zenon
  <2>6. p = [i \in 0 .. n + 1 |-> p[i]]
    BY Zenon
  <2> HIDE DEF p
  <2>7. p = E(n + 1, p)
    BY <2>5, <2>6, Zenon
  <2>8. n + 1 \in Nat
    OBVIOUS
  <2> HIDE DEF E
  <2> QED BY <2>7, <2>8, Zenon
<1>3. N \in T
  <2> HIDE DEF T
  <2> QED BY <1>1, <1>2, NumberInduction, Zenon
<1> QED BY <1>3, Zenon DEF Opening

\* The leaves of a passive value are those of its part of the expression.
LEMMA LeavesOfPart ==
  ASSUME IsChain(expression), NEW C, Certificate(C), NEW v, NEW a, NEW b, <<v, a, b>> \in C,
         Passive(a, b), NEW calls
  PROVE  LeavesOf(v, calls) = [j \in 1 .. b - a |-> expression[a + j].name]
<1> DEFINE N == Levels
           E(o) == [i \in 0 .. N |-> IF i = 0 THEN <<v>> ELSE Open(o[i - 1], calls)]
           c == CHOOSE o : o = E(o)
           d == b - a
<1>1. a \in Nat /\ b \in Nat /\ a < b /\ d \in Nat /\ d >= 1 /\ d =< N /\ N \in Nat
      /\ a \in 0 .. Levels
  BY CertificateRange, ChainLeaves
<1>2. c = E(c)
  <2>1. N \in Nat
    BY <1>1
  <2> HIDE DEF N
  <2>2. \E o : Opening(o, v, calls, N)
    BY <2>1, OpeningExists, Zenon
  <2> QED BY <2>2, Zenon DEF Opening
<1>3. LeavesOf(v, calls) = [i \in DOMAIN c[N] |-> c[N][i].name]
  BY Zenon DEF LeavesOf
<1> HIDE DEF c
<1>4. 0 \in 0 .. N /\ \A i \in 1 .. N : i \in 0 .. N /\ i # 0
  BY <1>1
<1>5. c[0] = <<v>> /\ \A i \in 1 .. N : c[i] = Open(c[i - 1], calls)
  BY <1>2, <1>4, Zenon
<1> DEFINE T == {i \in Nat : i =< N => Good(C, c[i], a, b, Left(d, i))}
<1>6. \A i \in Nat : Left(d, i) \in Nat /\ Left(d, i) >= 1 /\ Left(d, i) =< Left(d, i + 1) + 1
  BY <1>1 DEF Left
<1>7. 0 \in T
  <2> DEFINE w == Left(d, 0)
  <2>1. w \in Nat /\ b - a =< w
    BY <1>1 DEF Left
  <2> HIDE DEF w
  <2>2. Good(C, <<v>>, a, b, w)
    BY <2>1, GoodSingle, Zenon
  <2> QED BY <1>5, <2>2, Zenon DEF w
<1>8. ASSUME NEW i \in Nat, i \in T PROVE i + 1 \in T
  <2>0. i + 1 \in Nat
    OBVIOUS
  <2> SUFFICES ASSUME i + 1 =< N PROVE Good(C, c[i + 1], a, b, Left(d, i + 1))
    BY <2>0, Zenon
  <2> DEFINE s == c[i]
             u == Left(d, i)
             w == Left(d, i + 1)
             x == w + 1
  <2>1. i =< N /\ i + 1 \in 1 .. N /\ (i + 1) - 1 = i
    BY <1>1
  <2>2. c[i + 1] = Open(s, calls)
    BY <1>5, <2>1
  <2>3. u \in Nat /\ w \in Nat /\ w >= 1 /\ x \in Nat /\ u =< x
    BY <1>6, <2>0
  <2>4. Good(C, s, a, b, u)
    BY <1>8, <2>1, Zenon
  <2> HIDE DEF s, u, x
  <2>5. Good(C, s, a, b, x)
    BY <2>3, <2>4, GoodWider, Zenon
  <2> HIDE DEF w
  <2>6. Good(C, Open(s, calls), a, b, w)
    BY <1>1, <2>3, <2>5, GoodOpen, Zenon DEF x
  <2> QED BY <2>2, <2>6, Zenon DEF w
<1>9. N \in T
  <2> HIDE DEF T, N
  <2> QED BY <1>1, <1>7, <1>8, NumberInduction, Zenon
<1>10. N =< N /\ Left(d, N) = 1
  BY <1>1 DEF Left
<1> DEFINE s == c[N]
<1>11. Good(C, s, a, b, 1)
  BY <1>9, <1>10, Zenon
<1> HIDE DEF s
<1>12. s \in Seq(Certified(C)) /\ Len(s) = d /\ \A j \in 1 .. d : s[j] = expression[a + j]
  <2>1. a \in Nat /\ b \in Nat /\ a < b
    BY <1>1
  <2>2. s \in Seq(Certified(C)) /\ Len(s) = b - a /\ \A j \in 1 .. b - a : s[j] = expression[a + j]
    BY <1>11, <2>1, GoodLeaves
  <2> QED BY <2>2
<1>13. DOMAIN s = 1 .. d
  BY <1>12
<1>14. [i \in DOMAIN s |-> s[i].name] = [j \in 1 .. d |-> expression[a + j].name]
  BY <1>12, <1>13, Zenon
<1> QED BY <1>3, <1>14, Zenon DEF s

\* The levels of End.
Descending(o, v, side, N) ==
  o = [i \in 0 .. N |->
         IF i = 0 THEN v
         ELSE LET u == o[i - 1] IN IF u.tag = "connection" THEN u[side] ELSE u]

\* These levels exist.
LEMMA DescendingExists ==
  ASSUME NEW v, NEW side, NEW N \in Nat
  PROVE  \E o : Descending(o, v, side, N)
<1> DEFINE Down(u) == IF u.tag = "connection" THEN u[side] ELSE u
           E(n, o) == [i \in 0 .. n |-> IF i = 0 THEN v ELSE Down(o[i - 1])]
           T == {n \in Nat : \E o : o = E(n, o)}
<1>0. \A n, o : Descending(o, v, side, n) <=> o = E(n, o)
  BY Zenon DEF Descending
<1> HIDE DEF Down
<1>1. 0 \in T
  <2> DEFINE o == [i \in 0 .. 0 |-> v]
  <2>1. o = E(0, o)
    <3>1. \A i \in 0 .. 0 : i = 0
      OBVIOUS
    <3> QED BY <3>1, Zenon
  <2> HIDE DEF o, E
  <2> QED BY <2>1
<1>2. ASSUME NEW n \in Nat, n \in T PROVE n + 1 \in T
  <2>1. PICK o : o = E(n, o)
    BY <1>2, Zenon
  <2> DEFINE p == E(n + 1, o)
  <2>2. \A i \in 0 .. n : i \in 0 .. n + 1 /\ p[i] = o[i]
    <3>1. \A i \in 0 .. n : i \in 0 .. n + 1
      OBVIOUS
    <3> QED BY <2>1, <3>1, Zenon
  <2>3. \A i \in 0 .. n + 1 : i # 0 => i - 1 \in 0 .. n
    OBVIOUS
  <2>4. \A i \in 0 .. n + 1 : i # 0 => p[i - 1] = o[i - 1]
    BY <2>2, <2>3, Zenon
  <2>5. \A i \in 0 .. n + 1 : p[i] = IF i = 0 THEN v ELSE Down(p[i - 1])
    BY <2>4, Zenon
  <2>6. p = [i \in 0 .. n + 1 |-> p[i]]
    BY Zenon
  <2> HIDE DEF p
  <2>7. p = E(n + 1, p)
    BY <2>5, <2>6, Zenon
  <2>8. n + 1 \in Nat
    OBVIOUS
  <2> HIDE DEF E
  <2> QED BY <2>7, <2>8, Zenon
<1>3. N \in T
  <2> HIDE DEF T
  <2> QED BY <1>1, <1>2, NumberInduction, Zenon
<1> HIDE DEF E
<1> QED BY <1>0, <1>3, Zenon

\* A value at one end of the part, with at most w leaves.
AtEnd(C, u, a, b, side, w) ==
  \E m : \/ side = "source" /\ <<u, a, m>> \in C /\ Passive(a, m) /\ m - a =< w
         \/ side = "sink" /\ <<u, m, b>> \in C /\ Passive(m, b) /\ b - m =< w

\* One level down, that value has fewer leaves.
LEMMA DownOne ==
  ASSUME IsChain(expression), NEW C, Certificate(C), NEW u, NEW a \in Nat, NEW b \in Nat,
         NEW side \in {"source", "sink"}, NEW w \in Nat, w >= 1,
         AtEnd(C, u, a, b, side, w + 1)
  PROVE  AtEnd(C, IF u.tag = "connection" THEN u[side] ELSE u, a, b, side, w)
<1> DEFINE d == IF u.tag = "connection" THEN u[side] ELSE u
<1>1. ASSUME NEW x, NEW y, <<u, x, y>> \in C, Passive(x, y)
      PROVE  /\ x \in Nat /\ y \in Nat /\ x < y
             /\ \/ u.tag = "leaf" /\ y = x + 1
                \/ /\ u.tag = "connection"
                   /\ \E m \in x + 1 .. y - 1 : <<u.source, x, m>> \in C /\ <<u.sink, m, y>> \in C
  <2>1. x \in Nat /\ y \in Nat /\ x < y
    BY <1>1, CertificateRange, Zenon
  <2> QED BY <1>1, <2>1, PassiveCertificate, Zenon DEF Single, Joined
<1>2. CASE side = "source"
  <2>1. PICK m : <<u, a, m>> \in C /\ Passive(a, m) /\ m - a =< w + 1
    BY <1>2 DEF AtEnd
  <2>2. m \in Nat /\ a < m
    BY <1>1, <2>1, Zenon
  <2>3. CASE u.tag = "leaf" /\ m = a + 1
    <3>1. d = u /\ m - a =< w
      BY <2>3
    <3> QED BY <1>2, <2>1, <3>1, Zenon DEF AtEnd
  <2>4. CASE u.tag = "connection" /\ \E l \in a + 1 .. m - 1 : <<u.source, a, l>> \in C
    <3>1. PICK l \in a + 1 .. m - 1 : <<u.source, a, l>> \in C
      BY <2>4, Zenon
    <3>2. d = u.source
      BY <1>2, <2>4
    <3>3. l - a =< w /\ Passive(a, l)
      BY <2>1, <2>2, ChainLeaves DEF Passive
    <3> HIDE DEF d
    <3>4. AtEnd(C, d, a, b, side, w)
      BY <1>2, <3>1, <3>2, <3>3, Zenon DEF AtEnd
    <3> QED BY <3>4, Zenon DEF d
  <2> QED BY <1>1, <2>1, <2>3, <2>4, Zenon
<1>3. CASE side = "sink"
  <2>1. PICK m : <<u, m, b>> \in C /\ Passive(m, b) /\ b - m =< w + 1
    BY <1>3 DEF AtEnd
  <2>2. m \in Nat /\ m < b
    BY <1>1, <2>1, Zenon
  <2>3. CASE u.tag = "leaf" /\ b = m + 1
    <3>1. d = u /\ b - m =< w
      BY <2>2, <2>3
    <3> QED BY <1>3, <2>1, <3>1, Zenon DEF AtEnd
  <2>4. CASE u.tag = "connection" /\ \E l \in m + 1 .. b - 1 : <<u.sink, l, b>> \in C
    <3>1. PICK l \in m + 1 .. b - 1 : <<u.sink, l, b>> \in C
      BY <2>4, Zenon
    <3>2. d = u.sink
      BY <1>3, <2>4
    <3>3. b - l =< w /\ Passive(l, b)
      BY <2>1, <2>2, ChainLeaves DEF Passive
    <3> HIDE DEF d
    <3>4. AtEnd(C, d, a, b, side, w)
      BY <1>3, <3>1, <3>2, <3>3, Zenon DEF AtEnd
    <3> QED BY <3>4, Zenon DEF d
  <2> QED BY <1>1, <2>1, <2>3, <2>4, Zenon
<1> QED BY <1>2, <1>3, Zenon

\* At either end of a passive value is the leaf at that end of its part.
LEMMA EndOfPart ==
  ASSUME IsChain(expression), NEW C, Certificate(C), NEW v, NEW a, NEW b, <<v, a, b>> \in C,
         Passive(a, b), NEW side \in {"source", "sink"}
  PROVE  End(v, side) = IF side = "source" THEN expression[a + 1] ELSE expression[b]
<1> DEFINE N == Levels
           E(o) == [i \in 0 .. N |->
                     IF i = 0 THEN v
                     ELSE LET u == o[i - 1] IN IF u.tag = "connection" THEN u[side] ELSE u]
           c == CHOOSE o : o = E(o)
           d == b - a
<1>1. a \in Nat /\ b \in Nat /\ a < b /\ d \in Nat /\ d >= 1 /\ d =< N /\ N \in Nat
  BY CertificateRange, ChainLeaves
<1>2. c = E(c)
  <2>1. N \in Nat
    BY <1>1
  <2> HIDE DEF N
  <2>2. \E o : Descending(o, v, side, N)
    BY <2>1, DescendingExists, Zenon
  <2> QED BY <2>2, Zenon DEF Descending
<1>3. End(v, side) = c[N]
  BY Zenon DEF End
<1> HIDE DEF c
<1>4. 0 \in 0 .. N /\ \A i \in 1 .. N : i \in 0 .. N /\ i # 0
  BY <1>1
<1>5. c[0] = v /\ \A i \in 1 .. N : c[i] = IF c[i - 1].tag = "connection" THEN c[i - 1][side] ELSE c[i - 1]
  BY <1>2, <1>4, Zenon
<1> DEFINE T == {i \in Nat : i =< N => AtEnd(C, c[i], a, b, side, Left(d, i))}
<1>6. \A i \in Nat : Left(d, i) \in Nat /\ Left(d, i) >= 1 /\ Left(d, i) =< Left(d, i + 1) + 1
  BY <1>1 DEF Left
<1>7. 0 \in T
  <2>1. b - a =< Left(d, 0)
    BY <1>1 DEF Left
  <2>2. AtEnd(C, v, a, b, side, Left(d, 0))
    BY <2>1, Zenon DEF AtEnd
  <2> QED BY <1>5, <2>2, Zenon
<1>8. ASSUME NEW i \in Nat, i \in T PROVE i + 1 \in T
  <2>0. i + 1 \in Nat
    OBVIOUS
  <2> SUFFICES ASSUME i + 1 =< N PROVE AtEnd(C, c[i + 1], a, b, side, Left(d, i + 1))
    BY <2>0, Zenon
  <2> DEFINE u == c[i]
             l == Left(d, i)
             w == Left(d, i + 1)
  <2>1. i =< N /\ i + 1 \in 1 .. N /\ (i + 1) - 1 = i
    BY <1>1
  <2>2. c[i + 1] = IF u.tag = "connection" THEN u[side] ELSE u
    BY <1>5, <2>1
  <2>3. l \in Nat /\ w \in Nat /\ w >= 1 /\ l =< w + 1
    BY <1>6, <2>0
  <2>4. AtEnd(C, u, a, b, side, l)
    BY <1>8, <2>1, Zenon
  <2> HIDE DEF u, l, w
  <2>5. AtEnd(C, u, a, b, side, w + 1)
    <3>1. \A m : <<u, a, m>> \in C \/ <<u, m, b>> \in C => m \in Nat
      BY CertificateRange, Zenon
    <3>2. \A m \in Nat : (m - a =< l => m - a =< w + 1) /\ (b - m =< l => b - m =< w + 1)
      BY <1>1, <2>3
    <3> QED BY <2>4, <3>1, <3>2, Zenon DEF AtEnd
  <2>6. AtEnd(C, IF u.tag = "connection" THEN u[side] ELSE u, a, b, side, w)
    BY <1>1, <2>3, <2>5, DownOne, Zenon
  <2> QED BY <2>2, <2>6, Zenon DEF w
<1>9. N \in T
  <2> HIDE DEF T, N
  <2> QED BY <1>1, <1>7, <1>8, NumberInduction, Zenon
<1>10. N =< N /\ Left(d, N) = 1
  BY <1>1 DEF Left
<1> DEFINE u == c[N]
<1>11. AtEnd(C, u, a, b, side, 1)
  BY <1>9, <1>10, Zenon
<1> HIDE DEF u
<1>12. ASSUME NEW x, NEW y, <<u, x, y>> \in C, Passive(x, y), y - x =< 1
       PROVE  y = x + 1 /\ u = expression[y]
  <2>1. x \in Nat /\ y \in Nat /\ x < y
    BY <1>12, CertificateRange, Zenon
  <2>2. y = x + 1
    BY <1>12, <2>1
  <2>3. x + 1 .. y - 1 = {}
    BY <2>1, <2>2
  <2> QED BY <1>12, <2>2, <2>3, PassiveCertificate, Zenon DEF Joined, Single
<1>13. u = IF side = "source" THEN expression[a + 1] ELSE expression[b]
  BY <1>11, <1>12, Zenon DEF AtEnd
<1> QED BY <1>3, <1>13, Zenon DEF u
--------------------------------------------------------------------------------
(* The traits of the values of a chain.                                    *)

\* The kinds of the leaves of the expression.
LEMMA ChainKinds ==
  ASSUME IsChain(expression), NEW i \in 1 .. Levels
  PROVE  /\ expression[i].tag = "leaf"
         /\ EventChain(expression) =>
              /\ i = 1 => Kind[expression[i].name] = "event_source"
              /\ i # 1 /\ i # Levels => Kind[expression[i].name] = "function"
              /\ i = Levels => Kind[expression[i].name] \in {"event_sink", "consumer"}
         /\ StateChain(expression) =>
              /\ i = 1 => Kind[expression[i].name] \in {"state_source", "producer"}
              /\ i # 1 /\ i # Levels => Kind[expression[i].name] = "function"
              /\ i = Levels => Kind[expression[i].name] = "state_sink"
<1>1. expression[i].tag = "leaf"
  BY ChainLeaves DEF Leaf
<1>2. i # 1 /\ i # Levels => i \in 2 .. Levels - 1
  BY ChainLeaves
<1>3. i # 1 /\ i # Levels => Kind[expression[i].name] = "function"
  BY <1>2, Zenon DEF IsChain, Levels
<1> QED BY <1>1, <1>3, Zenon DEF EventChain, StateChain, Levels

\* A passive value closes a path exactly if it reaches the passive end of the chain.
LEMMA PassiveTraits ==
  ASSUME IsChain(expression), NEW C, Certificate(C), NEW v, NEW a, NEW b, <<v, a, b>> \in C,
         Passive(a, b)
  PROVE  /\ v.tag \in {"leaf", "connection"} /\ ~is_active_source(v) /\ ~is_active_sink(v)
         /\ is_passive_source(v) <=> StateChain(expression) /\ a = 0
         /\ TakesToken(v) <=> ~(StateChain(expression) /\ a = 0)
         /\ ReturnsVoid(v) <=> EventChain(expression) /\ b = Levels
<1>1. a \in Nat /\ b \in Nat /\ a < b /\ b =< Levels /\ Levels \in Nat
  BY CertificateRange, ChainLeaves
<1> DEFINE i == a + 1
           s == expression[i]
           t == expression[b]
<1>2. i \in 1 .. Levels /\ b \in 1 .. Levels
  BY <1>1
<1>3. get_source(v) = s /\ get_sink(v) = t
  <2>1. End(v, "source") = IF "source" = "source" THEN expression[a + 1] ELSE expression[b]
    BY EndOfPart, Zenon
  <2>2. End(v, "sink") = IF "sink" = "source" THEN expression[a + 1] ELSE expression[b]
    BY EndOfPart, Zenon
  <2> QED BY <2>1, <2>2 DEF get_source, get_sink
<1>4. s.tag = "leaf" /\ t.tag = "leaf"
  BY <1>2, ChainKinds, Zenon
<1>5. /\ EventChain(expression) => a >= 1
      /\ StateChain(expression) => ~EventChain(expression) /\ b =< Levels - 1
      /\ EventChain(expression) \/ StateChain(expression)
  BY ChainLeaves DEF Passive
<1>6. /\ StateChain(expression) /\ a = 0 => Kind[s.name] \in {"state_source", "producer"}
      /\ ~(StateChain(expression) /\ a = 0) => Kind[s.name] \in {"function", "event_sink", "consumer"}
  <2>1. (a = 0 <=> i = 1) /\ (StateChain(expression) => i # Levels)
    BY <1>1, <1>5
  <2>2. EventChain(expression) => i # 1
    BY <1>1, <1>5
  <2> QED BY <1>2, <1>5, <2>1, <2>2, ChainKinds
<1>7. /\ EventChain(expression) /\ b = Levels => Kind[t.name] \in {"event_sink", "consumer"}
      /\ ~(EventChain(expression) /\ b = Levels) =>
            Kind[t.name] \in {"function", "state_source", "producer"}
  <2>1. (EventChain(expression) => b # 1) /\ (StateChain(expression) => b # Levels)
    BY <1>1, <1>5
  <2> QED BY <1>2, <1>5, <2>1, ChainKinds
<1> HIDE DEF s, t, i
<1>8. /\ is_passive_source(v) <=> StateChain(expression) /\ a = 0
      /\ TakesToken(v) <=> ~(StateChain(expression) /\ a = 0)
  BY <1>3, <1>4, <1>6 DEF is_passive_source, TakesToken, IsKind
<1>9. ReturnsVoid(v) <=> EventChain(expression) /\ b = Levels
  BY <1>3, <1>4, <1>7 DEF ReturnsVoid, IsKind
<1>10. v.tag \in {"leaf", "connection"} /\ ~is_active_source(v) /\ ~is_active_sink(v)
  <2>1. CASE Joined(C, v, a, b)
    BY <2>1 DEF Joined, is_active_source, is_active_sink, IsKind
  <2>2. CASE Single(v, a, b) /\ v.tag = "leaf"
    <3>1. v = t
      BY <2>2 DEF Single, t
    <3>2. Kind[t.name] \in {"event_sink", "consumer", "function", "state_source", "producer"}
      BY <1>7
    <3> QED BY <2>2, <3>1, <3>2 DEF is_active_source, is_active_sink, IsKind
  <2> QED BY <2>1, <2>2, PassiveCertificate, Zenon
<1> QED BY <1>8, <1>9, <1>10, Zenon
--------------------------------------------------------------------------------
(* Combining two neighbours.                                               *)

\* A certificate with the triple of one more value.
LEMMA CertificateGrows ==
  ASSUME IsChain(expression), NEW C, Certificate(C), NEW v, NEW a, NEW b,
         a \in 0 .. Levels, b \in 0 .. Levels, a < b,
         Joined(C, v, a, b) \/ Waiting(C, v, a, b)
  PROVE  Certificate(C \cup {<<v, a, b>>})
<1> DEFINE D == C \cup {<<v, a, b>>}
<1>1. \A u, x, y : Joined(C, u, x, y) => Joined(D, u, x, y)
  BY Zenon DEF Joined
<1>2. \A u, x, y : Waiting(C, u, x, y) => Waiting(D, u, x, y)
  BY ZenonT(60) DEF Waiting
<1>3. \A u, x, y : <<u, x, y>> \in D => <<u, x, y>> \in C \/ (u = v /\ x = a /\ y = b)
  OBVIOUS
<1> HIDE DEF D
<1>4. Certificate(D)
  <2> SUFFICES ASSUME NEW u, NEW x, NEW y, <<u, x, y>> \in D
               PROVE  /\ x \in 0 .. Levels /\ y \in 0 .. Levels /\ x < y
                      /\ Single(u, x, y) \/ Joined(D, u, x, y) \/ Waiting(D, u, x, y)
    BY Zenon DEF Certificate
  <2>1. CASE <<u, x, y>> \in C
    <3>1. /\ x \in 0 .. Levels /\ y \in 0 .. Levels /\ x < y
          /\ Single(u, x, y) \/ Joined(C, u, x, y) \/ Waiting(C, u, x, y)
      BY <2>1, Zenon DEF Certificate
    <3> QED BY <1>1, <1>2, <3>1, Zenon
  <2>2. CASE u = v /\ x = a /\ y = b
    BY <1>1, <1>2, <2>2, Zenon
  <2>3. <<u, x, y>> \in C \/ (u = v /\ x = a /\ y = b)
    BY <1>3
  <2> QED BY <2>1, <2>2, <2>3, Zenon
<1> QED BY <1>4, Zenon DEF D

\* The connection of two passive neighbours.
LEMMA CertifiedConnection ==
  ASSUME IsChain(expression), NEW C, Certificate(C), NEW v, NEW w, NEW a, NEW m, NEW b,
         <<v, a, m>> \in C, <<w, m, b>> \in C, Passive(a, b)
  PROVE  Certificate(C \cup {<<Connection(v, w), a, b>>})
<1> DEFINE c == Connection(v, w)
<1>1. /\ a \in 0 .. Levels /\ m \in 0 .. Levels /\ b \in 0 .. Levels /\ a < m /\ m < b
      /\ a \in Nat /\ m \in Nat /\ b \in Nat
  BY CertificateRange, Zenon
<1>2. a < b /\ m \in a + 1 .. b - 1
  BY <1>1
<1>3. c.tag = "connection" /\ c.source = v /\ c.sink = w
  BY DEF Connection
<1> HIDE DEF c
<1>4. Joined(C, c, a, b)
  BY <1>2, <1>3, Zenon DEF Joined
<1>5. Certificate(C \cup {<<c, a, b>>})
  BY <1>1, <1>2, <1>4, CertificateGrows, Zenon
<1> QED BY <1>5, Zenon DEF c

\* The whole chain is connected: the active port x got the connection c.
Whole(C, x, c) ==
  \/ EventChain(expression) /\ x = expression[1].name /\ <<c, 1, Levels>> \in C
  \/ StateChain(expression) /\ x = expression[Levels].name /\ <<c, 0, Levels - 1>> \in C

\* What connect gives for two neighbours.
Combined(C, r, a, b) ==
  /\ r.connected
  /\ \/ r.made = <<>> /\ ~(a = 0 /\ b = Levels) /\ <<r.value, a, b>> \in C
     \/ /\ r.value = Done /\ a = 0 /\ b = Levels
        /\ \E x, c : r.made = <<[active |-> x, conn |-> c]>> /\ Whole(C, x, c)

\* Two passive neighbours.
LEMMA ConnectPassive ==
  ASSUME IsChain(expression), NEW C, Certificate(C), NEW v, NEW w, NEW a, NEW m, NEW b,
         <<v, a, m>> \in C, <<w, m, b>> \in C, Passive(a, b)
  PROVE  /\ Connectables(v, w)
         /\ \E D : C \subseteq D /\ Certificate(D) /\ Combined(D, connect(v, w), a, b)
<1>1. a \in Nat /\ m \in Nat /\ b \in Nat /\ a < m /\ m < b
  BY CertificateRange, Zenon
<1>2. Passive(a, m) /\ Passive(m, b)
  BY <1>1, ChainLeaves DEF Passive
<1>3. ~is_active(v) /\ ~is_active(w) /\ is_connectable(v) /\ is_connectable(w)
  <2>1. ~is_active(v) /\ is_connectable(v)
    BY <1>2, PassiveTraits DEF is_active, is_connectable
  <2>2. ~is_active(w) /\ is_connectable(w)
    BY <1>2, PassiveTraits DEF is_active, is_connectable
  <2> QED BY <2>1, <2>2, Zenon
<1>4. Connectables(v, w)
  BY <1>3, Zenon DEF Connectables
<1> DEFINE r == connect(v, w)
           c == Connection(v, w)
           D == C \cup {<<c, a, b>>}
<1>5. r.value = c /\ r.made = <<>> /\ r.connected
  BY <1>3 DEF connect, Result
<1>6. Certificate(D)
  BY CertifiedConnection, Zenon
<1>7. ~(a = 0 /\ b = Levels)
  BY <1>1, ChainLeaves DEF Passive
<1> HIDE DEF r, c
<1>8. C \subseteq D /\ <<c, a, b>> \in D
  OBVIOUS
<1>9. Combined(D, r, a, b)
  BY <1>5, <1>7, <1>8, Zenon DEF Combined
<1> HIDE DEF D
<1> QED BY <1>4, <1>6, <1>8, <1>9, Zenon DEF r

\* The event source, or the proxy it left, and the value behind it.
LEMMA ConnectEvent ==
  ASSUME IsChain(expression), NEW C, Certificate(C), NEW v, NEW w, NEW m, NEW b,
         <<v, 0, m>> \in C, <<w, m, b>> \in C, EventChain(expression)
  PROVE  /\ Connectables(v, w)
         /\ \E D : C \subseteq D /\ Certificate(D) /\ Combined(D, connect(v, w), 0, b)
<1>0. Single(v, 0, m) \/ Joined(C, v, 0, m) \/ Waiting(C, v, 0, m)
  BY DEF Certificate
<1>1. /\ m \in Nat /\ b \in Nat /\ 0 < m /\ m < b /\ b \in 0 .. Levels /\ m \in 0 .. Levels
  <2>1. m \in Nat /\ b \in Nat /\ m < b /\ b \in 0 .. Levels /\ m \in 0 .. Levels
    BY CertificateRange, Zenon
  <2>2. 0 < m
    BY DEF Certificate
  <2> QED BY <2>1, <2>2
<1>2. Levels \in Nat /\ Levels >= 2 /\ ~StateChain(expression)
  BY ChainLeaves, Zenon
<1>3. Passive(m, b) /\ ~Passive(0, m)
  BY <1>1 DEF Passive
<1>4. /\ ~is_active(w) /\ is_connectable(w) /\ ~is_passive_source(w)
      /\ is_passive_sink_for(w, "token") <=> b = Levels
  <2>1. /\ ~is_active_source(w) /\ ~is_active_sink(w)
        /\ is_passive_source(w) <=> StateChain(expression) /\ m = 0
        /\ TakesToken(w) <=> ~(StateChain(expression) /\ m = 0)
        /\ ReturnsVoid(w) <=> EventChain(expression) /\ b = Levels
    BY <1>3, PassiveTraits
  <2> QED BY <1>2, <2>1 DEF is_active, is_connectable, is_passive_sink_for
<1> DEFINE r == connect(v, w)
           x == expression[1].name
<1>5. CASE Single(v, 0, m)
  <2>1. m = 1 /\ v = expression[1] /\ v.tag = "leaf" /\ v.name = x /\ Kind[x] = "event_source"
    <3>1. m = 1 /\ v = expression[1] /\ 1 \in 1 .. Levels
      BY <1>2, <1>5 DEF Single
    <3> QED BY <3>1, ChainKinds, Zenon
  <2>2. is_active_source(v) /\ is_active(v)
    BY <2>1 DEF is_active_source, is_active, IsKind
  <2>3. Connectables(v, w)
    BY <1>4, <2>2, Zenon DEF Connectables
  <2>4. r = ActiveConnect(v, w, "source")
    BY <2>2, Zenon DEF connect
  <2>5. CASE b = Levels
    <3>1. r.value = Done /\ r.connected /\ r.made = <<[active |-> x, conn |-> w]>>
      BY <1>4, <2>1, <2>4, <2>5 DEF ActiveConnect, Result
    <3>2. Whole(C, x, w)
      BY <2>1, <2>5, Zenon DEF Whole
    <3>3. Combined(C, r, 0, b)
      BY <2>5, <3>1, <3>2, Zenon DEF Combined
    <3> QED BY <2>3, <3>3, Zenon
  <2>6. CASE b # Levels
    <3> DEFINE p == [tag |-> "proxy", active |-> x, passive |-> w, first |-> "source"]
               D == C \cup {<<p, 0, b>>}
    <3>1. r.value = p /\ r.connected /\ r.made = <<>>
      BY <1>4, <2>1, <2>4, <2>6 DEF ActiveConnect, Result
    <3>2. b \in 2 .. Levels - 1 /\ 0 \in 0 .. Levels /\ 0 < b
      BY <1>1, <1>2, <2>1, <2>6
    <3>3. Waiting(C, p, 0, b)
      BY <2>1, <3>2 DEF Waiting
    <3> HIDE DEF p
    <3>4. Certificate(D)
      BY <1>1, <3>2, <3>3, CertificateGrows, Zenon
    <3>5. C \subseteq D /\ <<p, 0, b>> \in D
      OBVIOUS
    <3>6. Combined(D, r, 0, b)
      BY <2>6, <3>1, <3>5, Zenon DEF Combined
    <3> HIDE DEF D
    <3> QED BY <2>3, <3>4, <3>5, <3>6, Zenon
  <2> QED BY <2>5, <2>6, Zenon
<1>6. CASE Waiting(C, v, 0, m)
  <2> DEFINE q == v.passive
             c == Connection(q, w)
             B == C \cup {<<c, 1, b>>}
  <2>1. /\ v = [tag |-> "proxy", active |-> x, passive |-> q, first |-> "source"]
        /\ <<q, 1, m>> \in C
    BY <1>2, <1>6 DEF Waiting
  <2>2. v.tag = "proxy" /\ v.first = "source" /\ v.active = x
    BY <2>1
  <2>3. is_active_source(v) /\ is_active(v)
    BY <2>2 DEF is_active_source, is_active
  <2>4. Connectables(v, w)
    BY <1>4, <2>3, Zenon DEF Connectables
  <2>5. r = ProxyConnect(v, w)
    BY <2>2, <2>3, Zenon DEF connect, ActiveConnect
  <2>6. Ordered(v.first, v.passive, w) = c
    BY <2>2 DEF Ordered
  <2>7. Passive(1, b)
    BY DEF Passive
  <2>8. Certificate(B)
    BY <2>1, <2>7, CertifiedConnection, Zenon
  <2>9. C \subseteq B /\ <<c, 1, b>> \in B
    OBVIOUS
  <2>10. CASE b = Levels
    <3>1. r.value = Done /\ r.connected /\ r.made = <<[active |-> x, conn |-> c]>>
      BY <1>4, <2>2, <2>5, <2>6, <2>10 DEF ProxyConnect, Result
    <3> HIDE DEF c, B
    <3>2. Whole(B, x, c)
      BY <2>9, <2>10, Zenon DEF Whole
    <3>3. Combined(B, r, 0, b)
      BY <2>10, <3>1, <3>2, Zenon DEF Combined
    <3> QED BY <2>4, <2>8, <2>9, <3>3, Zenon
  <2>11. CASE b # Levels
    <3> DEFINE p == [tag |-> "proxy", active |-> x, passive |-> c, first |-> "source"]
               D == B \cup {<<p, 0, b>>}
    <3>1. r.value = p /\ r.connected /\ r.made = <<>>
      <4>1. r = Result([v EXCEPT !.passive = c], <<>>)
        BY <1>4, <2>2, <2>5, <2>6, <2>11 DEF ProxyConnect
      <4>2. [v EXCEPT !.passive = c] = p
        <5> HIDE DEF c, q
        <5> QED BY <2>1
      <4> QED BY <4>1, <4>2 DEF Result
    <3>2. b \in 2 .. Levels - 1 /\ 0 \in 0 .. Levels /\ 0 < b
      BY <1>1, <1>2, <2>11
    <3> HIDE DEF c, B
    <3>3. Waiting(B, p, 0, b)
      BY <2>9, <3>2 DEF Waiting
    <3> HIDE DEF p
    <3>4. Certificate(D)
      BY <1>1, <2>8, <3>2, <3>3, CertificateGrows, Zenon
    <3>5. C \subseteq D /\ <<p, 0, b>> \in D
      BY <2>9
    <3>6. Combined(D, r, 0, b)
      BY <2>11, <3>1, <3>5, Zenon DEF Combined
    <3> HIDE DEF D
    <3> QED BY <2>4, <3>4, <3>5, <3>6, Zenon
  <2> QED BY <2>10, <2>11, Zenon
<1>7. ~Joined(C, v, 0, m)
  BY <1>3 DEF Joined
<1> QED BY <1>0, <1>5, <1>6, <1>7

\* The state sink, or the proxy it left, and the value before it.
LEMMA ConnectState ==
  ASSUME IsChain(expression), NEW C, Certificate(C), NEW v, NEW w, NEW a, NEW m, NEW b,
         <<v, a, m>> \in C, <<w, m, b>> \in C, StateChain(expression), b = Levels
  PROVE  /\ Connectables(v, w)
         /\ \E D : C \subseteq D /\ Certificate(D) /\ Combined(D, connect(v, w), a, b)
<1>0. Single(w, m, b) \/ Joined(C, w, m, b) \/ Waiting(C, w, m, b)
  BY Zenon DEF Certificate
<1>1. /\ a \in Nat /\ m \in Nat /\ b \in Nat /\ a < m /\ m < b
      /\ a \in 0 .. Levels /\ m \in 0 .. Levels /\ b \in 0 .. Levels
  BY CertificateRange, Zenon
<1>2. Levels \in Nat /\ Levels >= 2 /\ ~EventChain(expression)
  BY ChainLeaves, Zenon
<1>3. Passive(a, m) /\ ~Passive(m, b)
  BY <1>1, <1>2 DEF Passive
<1>4. /\ ~is_active(v) /\ is_connectable(v) /\ ~is_passive_sink_for(v, "void")
      /\ is_passive_source(v) <=> a = 0
  <2>1. /\ ~is_active_source(v) /\ ~is_active_sink(v)
        /\ is_passive_source(v) <=> StateChain(expression) /\ a = 0
        /\ TakesToken(v) <=> ~(StateChain(expression) /\ a = 0)
        /\ ReturnsVoid(v) <=> EventChain(expression) /\ m = Levels
    BY <1>3, PassiveTraits
  <2> QED BY <1>2, <2>1 DEF is_active, is_connectable, is_passive_sink_for
<1> DEFINE r == connect(v, w)
           x == expression[Levels].name
           k == Levels - 1
<1>5. CASE Single(w, m, b)
  <2>1. m = k /\ w.tag = "leaf" /\ w.name = x /\ Kind[x] = "state_sink"
    <3>1. m = k /\ w = expression[Levels] /\ Levels \in 1 .. Levels
      BY <1>1, <1>2, <1>5 DEF Single
    <3> QED BY <3>1, ChainKinds, Zenon
  <2>2. is_active_sink(w) /\ is_active(w)
    BY <2>1 DEF is_active_sink, is_active, IsKind
  <2>3. Connectables(v, w)
    BY <1>4, <2>2, Zenon DEF Connectables
  <2>4. r = ActiveConnect(w, v, "sink")
    BY <1>4, <2>2, Zenon DEF connect
  <2>5. CASE a = 0
    <3>1. r.value = Done /\ r.connected /\ r.made = <<[active |-> x, conn |-> v]>>
      BY <1>4, <2>1, <2>4, <2>5 DEF ActiveConnect, Result
    <3>2. Whole(C, x, v)
      BY <2>1, <2>5 DEF Whole
    <3>3. Combined(C, r, a, b)
      BY <2>5, <3>1, <3>2, Zenon DEF Combined
    <3> QED BY <2>3, <3>3, Zenon
  <2>6. CASE a # 0
    <3> DEFINE p == [tag |-> "proxy", active |-> x, passive |-> v, first |-> "sink"]
               D == C \cup {<<p, a, b>>}
    <3>1. r.value = p /\ r.connected /\ r.made = <<>>
      BY <1>4, <2>1, <2>4, <2>6 DEF ActiveConnect, Result
    <3>2. a \in 1 .. Levels - 2 /\ a < b
      BY <1>1, <1>2, <2>1, <2>6
    <3>3. Waiting(C, p, a, b)
      BY <2>1, <3>2 DEF Waiting
    <3> HIDE DEF p
    <3>4. Certificate(D)
      BY <1>1, <3>2, <3>3, CertificateGrows, Zenon
    <3>5. C \subseteq D /\ <<p, a, b>> \in D
      OBVIOUS
    <3>6. Combined(D, r, a, b)
      BY <2>6, <3>1, <3>5, Zenon DEF Combined
    <3> HIDE DEF D
    <3> QED BY <2>3, <3>4, <3>5, <3>6, Zenon
  <2> QED BY <2>5, <2>6, Zenon
<1>6. CASE Waiting(C, w, m, b)
  <2> DEFINE q == w.passive
             c == Connection(v, q)
             B == C \cup {<<c, a, k>>}
  <2>1. /\ w = [tag |-> "proxy", active |-> x, passive |-> q, first |-> "sink"]
        /\ <<q, m, k>> \in C /\ m \in 1 .. Levels - 2
    BY <1>2, <1>6 DEF Waiting
  <2>2. w.tag = "proxy" /\ w.first = "sink" /\ w.active = x
    BY <2>1
  <2>3. is_active_sink(w) /\ is_active(w)
    BY <2>2 DEF is_active_sink, is_active
  <2>4. Connectables(v, w)
    BY <1>4, <2>3, Zenon DEF Connectables
  <2>5. r = ProxyConnect(w, v)
    BY <1>4, <2>2, <2>3, Zenon DEF connect, ActiveConnect
  <2>6. Ordered(w.first, w.passive, v) = c
    BY <2>2 DEF Ordered
  <2>7. Passive(a, k)
    BY <1>2 DEF Passive
  <2>8. Certificate(B)
    <3> HIDE DEF k, q
    <3> QED BY <2>1, <2>7, CertifiedConnection, Zenon
  <2>9. C \subseteq B /\ <<c, a, k>> \in B
    OBVIOUS
  <2>10. CASE a = 0
    <3>1. r.value = Done /\ r.connected /\ r.made = <<[active |-> x, conn |-> c]>>
      BY <1>4, <2>2, <2>5, <2>6, <2>10 DEF ProxyConnect, Result
    <3> HIDE DEF c, B
    <3>2. Whole(B, x, c)
      BY <2>9, <2>10 DEF Whole
    <3>3. Combined(B, r, a, b)
      BY <2>10, <3>1, <3>2, Zenon DEF Combined
    <3> QED BY <2>4, <2>8, <2>9, <3>3, Zenon
  <2>11. CASE a # 0
    <3> DEFINE p == [tag |-> "proxy", active |-> x, passive |-> c, first |-> "sink"]
               D == B \cup {<<p, a, b>>}
    <3>1. r.value = p /\ r.connected /\ r.made = <<>>
      <4>1. r = Result([w EXCEPT !.passive = c], <<>>)
        BY <1>4, <2>2, <2>5, <2>6, <2>11 DEF ProxyConnect
      <4>2. [w EXCEPT !.passive = c] = p
        <5> HIDE DEF c, q
        <5> QED BY <2>1
      <4> QED BY <4>1, <4>2 DEF Result
    <3>2. a \in 1 .. Levels - 2 /\ a < b
      BY <1>1, <1>2, <2>1, <2>11
    <3> HIDE DEF c, B
    <3>3. Waiting(B, p, a, b)
      BY <2>9, <3>2 DEF Waiting
    <3> HIDE DEF p
    <3>4. Certificate(D)
      BY <1>1, <2>8, <3>2, <3>3, CertificateGrows, Zenon
    <3>5. C \subseteq D /\ <<p, a, b>> \in D
      BY <2>9
    <3>6. Combined(D, r, a, b)
      BY <2>11, <3>1, <3>5, Zenon DEF Combined
    <3> HIDE DEF D
    <3> QED BY <2>4, <3>4, <3>5, <3>6, Zenon
  <2> QED BY <2>10, <2>11, Zenon
<1>7. ~Joined(C, w, m, b)
  BY <1>3 DEF Joined
<1> QED BY <1>0, <1>5, <1>6, <1>7

\* Any two neighbours can be combined, and their combination is certified.
LEMMA ConnectNeighbours ==
  ASSUME IsChain(expression), NEW C, Certificate(C), NEW v, NEW w, NEW a, NEW m, NEW b,
         <<v, a, m>> \in C, <<w, m, b>> \in C
  PROVE  /\ Connectables(v, w)
         /\ \E D : C \subseteq D /\ Certificate(D) /\ Combined(D, connect(v, w), a, b)
<1>1. a \in Nat /\ b \in Nat /\ b =< Levels /\ Levels \in Nat
  BY CertificateRange, ChainLeaves
<1>2. CASE Passive(a, b)
  BY <1>2, ConnectPassive, Zenon
<1>3. CASE ~Passive(a, b) /\ EventChain(expression)
  <2>1. a = 0
    BY <1>1, <1>3 DEF Passive
  <2> QED BY <1>3, <2>1, ConnectEvent, Zenon
<1>4. CASE ~Passive(a, b) /\ StateChain(expression)
  <2>1. b = Levels
    BY <1>1, <1>4, ChainLeaves DEF Passive
  <2> QED BY <1>4, <2>1, ConnectState, Zenon
<1> QED BY <1>2, <1>3, <1>4, ChainLeaves, Zenon
================================================================================
