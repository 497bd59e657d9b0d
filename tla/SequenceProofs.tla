---------------------------- MODULE SequenceProofs ----------------------------
(***************************************************************************)
(* What removing elements from a sequence and joining sequences returns,   *)
(* and the induction over numbers that it takes to show it: as the         *)
(* statement that a set which contains 0 and is closed under successors    *)
(* contains all numbers.                                                   *)
(***************************************************************************)
EXTENDS SequenceRemoval, SequencesExt, SequenceTheorems, WellFoundedInduction, TLAPS

\* Every set of natural numbers that is not empty has a least element.
LEMMA LeastNumber ==
  ASSUME NEW T \in SUBSET Nat, T # {}
  PROVE  \E m \in T : \A k \in T : m =< k
<1> DEFINE R == OpToRel(<, Nat)
<1>1. IsWellFoundedOn(R, Nat)
  BY NatLessThanWellFounded, Zenon
<1>2. \A x, y \in Nat : x < y => <<x, y>> \in R
  BY DEF OpToRel
<1> HIDE DEF R
<1>3. PICK m \in T : \A k \in T : <<k, m>> \notin R
  BY <1>1, WFMin, Zenon
<1>4. \A k \in T : ~(k < m)
  BY <1>2, <1>3, Zenon
<1> QED BY <1>4

\* Induction, for a set of numbers.
LEMMA NumberInduction ==
  ASSUME NEW T, 0 \in T, \A n \in Nat : n \in T => n + 1 \in T
  PROVE  \A n \in Nat : n \in T
<1> DEFINE U == Nat \ T
<1> SUFFICES ASSUME U # {} PROVE FALSE
  OBVIOUS
<1>1. PICK m \in U : \A k \in U : m =< k
  BY LeastNumber, Zenon
<1>2. m # 0 /\ m \in Nat
  BY <1>1
<1>3. m - 1 \in Nat /\ m - 1 < m /\ (m - 1) + 1 = m
  BY <1>2
<1>4. m - 1 \in T
  BY <1>1, <1>3
<1> QED BY <1>1, <1>3, <1>4

\* What erase leaves of a vector.
LEMMA RemoveAtElements ==
  ASSUME NEW S, NEW s \in Seq(S), NEW i \in 1 .. Len(s)
  PROVE  /\ RemoveAt(s, i) \in Seq(S)
         /\ Len(RemoveAt(s, i)) = Len(s) - 1
         /\ \A j \in 1 .. Len(s) - 1 :
              RemoveAt(s, i)[j] = IF j < i THEN s[j] ELSE s[j + 1]
<1>1. Len(s) \in Nat
  OBVIOUS
<1> DEFINE t == SubSeq(s, 1, i - 1)
           u == SubSeq(s, i + 1, Len(s))
<1>2. /\ t \in Seq(S) /\ Len(t) = i - 1
      /\ \A j \in 1 .. i - 1 : t[j] = s[j]
  BY <1>1, SubSeqProperties
<1>3. /\ u \in Seq(S) /\ Len(u) = Len(s) - i
      /\ \A j \in 1 .. Len(s) - i : u[j] = s[i + j]
  BY <1>1, SubSeqProperties
<1> HIDE DEF t, u
<1>4. t \o u \in Seq(S) /\ Len(t \o u) = Len(s) - 1
  <2>1. t \o u \in Seq(S) /\ Len(t \o u) = Len(t) + Len(u)
    BY <1>2, <1>3, ConcatProperties, Zenon
  <2> QED BY <1>1, <1>2, <1>3, <2>1
<1>5. ASSUME NEW j \in 1 .. Len(s) - 1
      PROVE  (t \o u)[j] = IF j < i THEN s[j] ELSE s[j + 1]
  <2>1. CASE j < i
    <3>1. (t \o u)[j] = t[j]
      BY <1>1, <1>2, <1>3, <2>1, ConcatProperties
    <3> QED BY <1>1, <1>2, <2>1, <3>1
  <2>2. CASE ~(j < i)
    <3>1. (t \o u)[j] = u[j - (i - 1)]
      BY <1>1, <1>2, <1>3, <2>2, ConcatProperties
    <3>2. j - (i - 1) \in 1 .. Len(s) - i /\ i + (j - (i - 1)) = j + 1
      BY <1>1, <2>2
    <3> QED BY <1>3, <2>2, <3>1, <3>2
  <2> QED BY <2>1, <2>2, Zenon
<1>6. RemoveAt(s, i) = t \o u
  BY DEF RemoveAt, t, u
<1> QED BY <1>4, <1>5, <1>6

\* k collects what is kept of the first elements of s.
Keeps(k, s, x) ==
  k = [i \in 0 .. Len(s) |->
         IF i = 0 THEN <<>> ELSE IF s[i] = x THEN k[i - 1] ELSE Append(k[i - 1], s[i])]

\* There is such a function;
LEMMA KeepsExists ==
  ASSUME NEW S, NEW s \in Seq(S), NEW x
  PROVE  \E k \in [0 .. Len(s) -> Seq(S)] : Keeps(k, s, x)
<1> DEFINE F(k, i) == IF i = 0 THEN <<>> ELSE IF s[i] = x THEN k[i - 1] ELSE Append(k[i - 1], s[i])
           Upto(k, n) == \A i \in 0 .. n : k[i] = F(k, i)
           T == {n \in Nat : n =< Len(s) => \E k \in [0 .. n -> Seq(S)] : Upto(k, n)}
<1>1. 0 \in T
  <2> DEFINE k == [i \in 0 .. 0 |-> <<>>]
  <2>1. k \in [0 .. 0 -> Seq(S)]
    OBVIOUS
  <2>2. \A i \in 0 .. 0 : i = 0 /\ k[i] = <<>>
    OBVIOUS
  <2> HIDE DEF k
  <2>3. Upto(k, 0)
    BY <2>2, Zenon
  <2> HIDE DEF Upto
  <2> QED BY <2>1, <2>3
<1>2. ASSUME NEW n \in Nat, n \in T PROVE n + 1 \in T
  <2>a. n + 1 \in Nat
    OBVIOUS
  <2> SUFFICES ASSUME n + 1 =< Len(s)
               PROVE  \E k \in [0 .. n + 1 -> Seq(S)] : Upto(k, n + 1)
    BY <2>a, Zenon
  <2>1. n =< Len(s) /\ n + 1 \in 1 .. Len(s) /\ s[n + 1] \in S
    OBVIOUS
  <2>2. PICK k \in [0 .. n -> Seq(S)] : Upto(k, n)
    BY <1>2, <2>1, Zenon
  <2> DEFINE v == IF s[n + 1] = x THEN k[n] ELSE Append(k[n], s[n + 1])
             g == [i \in 0 .. n + 1 |-> IF i = n + 1 THEN v ELSE k[i]]
  <2>3. v \in Seq(S)
    BY <2>1, <2>2
  <2> HIDE DEF v
  <2>4. g \in [0 .. n + 1 -> Seq(S)]
    BY <2>2, <2>3
  <2>5. (\A i \in 0 .. n : g[i] = k[i]) /\ g[n + 1] = v
    BY <2>2
  <2> HIDE DEF g
  <2>6. ASSUME NEW i \in 0 .. n + 1 PROVE g[i] = F(g, i)
    <3>1. CASE i = n + 1
      <4>1. (n + 1) - 1 = n /\ n + 1 # 0 /\ n \in 0 .. n
        OBVIOUS
      <4>2. g[(n + 1) - 1] = k[n]
        BY <2>5, <4>1
      <4> QED BY <2>5, <3>1, <4>1, <4>2, Zenon DEF v
    <3>2. CASE i \in 1 .. n
      <4>1. i - 1 \in 0 .. n /\ i \in 0 .. n
        BY <3>2
      <4>2. g[i] = k[i] /\ g[i - 1] = k[i - 1] /\ k[i] = F(k, i)
        BY <2>2, <2>5, <4>1, Zenon
      <4> QED BY <4>2, Zenon
    <3>3. CASE i = 0
      <4>1. g[0] = k[0] /\ k[0] = F(k, 0)
        BY <2>2, <2>5
      <4> QED BY <3>3, <4>1, Zenon
    <3> QED BY <3>1, <3>2, <3>3
  <2> QED BY <2>4, <2>6, Zenon
<1> HIDE DEF T
<1>3. Len(s) \in T
  BY <1>1, <1>2, NumberInduction
<1>4. PICK k \in [0 .. Len(s) -> Seq(S)] : Upto(k, Len(s))
  BY <1>3 DEF T
<1> QED BY <1>4, Zenon DEF Keeps

\* and one only.
LEMMA KeepsUnique ==
  ASSUME NEW S, NEW s \in Seq(S), NEW x, NEW k, NEW g, Keeps(k, s, x), Keeps(g, s, x)
  PROVE  k = g
<1> DEFINE T == {n \in Nat : n =< Len(s) => k[n] = g[n]}
<1>1. \A i \in 0 .. Len(s) :
        /\ k[i] = IF i = 0 THEN <<>> ELSE IF s[i] = x THEN k[i - 1] ELSE Append(k[i - 1], s[i])
        /\ g[i] = IF i = 0 THEN <<>> ELSE IF s[i] = x THEN g[i - 1] ELSE Append(g[i - 1], s[i])
  BY Zenon DEF Keeps
<1>2. 0 \in T
  BY <1>1
<1>3. ASSUME NEW n \in Nat, n \in T PROVE n + 1 \in T
  <2> SUFFICES ASSUME n + 1 =< Len(s) PROVE k[n + 1] = g[n + 1]
    OBVIOUS
  <2>1. n =< Len(s) /\ n + 1 \in 0 .. Len(s) /\ (n + 1) - 1 = n /\ n + 1 # 0
    OBVIOUS
  <2>2. k[n] = g[n]
    BY <1>3, <2>1
  <2> QED BY <1>1, <2>1, <2>2
<1> HIDE DEF T
<1>4. \A n \in Nat : n \in T
  BY <1>2, <1>3, NumberInduction
<1>5. \A i \in 0 .. Len(s) : k[i] = g[i]
  BY <1>4 DEF T
<1>6. k = [i \in 0 .. Len(s) |-> k[i]] /\ g = [i \in 0 .. Len(s) |-> g[i]]
  BY DEF Keeps
<1> QED BY <1>5, <1>6, Zenon

\* Hence Without returns its last value.
LEMMA WithoutIs ==
  ASSUME NEW S, NEW s \in Seq(S), NEW x, NEW k, Keeps(k, s, x)
  PROVE  Without(s, x) = k[Len(s)]
<1> DEFINE c == CHOOSE f : Keeps(f, s, x)
<1>1. Without(s, x) = c[Len(s)]
  BY Zenon DEF Without, Keeps
<1>2. Keeps(c, s, x)
  BY Zenon
<1> HIDE DEF c
<1> QED BY <1>1, <1>2, KeepsUnique, Zenon

\* The result has no other elements than the sequence.
LEMMA WithoutType ==
  ASSUME NEW S, NEW s \in Seq(S), NEW x
  PROVE  Without(s, x) \in Seq(S)
<1>1. PICK k \in [0 .. Len(s) -> Seq(S)] : Keeps(k, s, x)
  BY KeepsExists, Zenon
<1>2. Without(s, x) = k[Len(s)]
  BY <1>1, WithoutIs, Zenon
<1> QED BY <1>1, <1>2

\* A sequence in which x does not occur stays as it is.
LEMMA WithoutNone ==
  ASSUME NEW S, NEW s \in Seq(S), NEW x, ~Contains(s, x)
  PROVE  Without(s, x) = s
<1> DEFINE k == [i \in 0 .. Len(s) |-> SubSeq(s, 1, i)]
<1>1. \A i \in 1 .. Len(s) : s[i] # x
  BY DEF Contains
<1>2. ASSUME NEW i \in 0 .. Len(s)
      PROVE  k[i] = IF i = 0 THEN <<>> ELSE IF s[i] = x THEN k[i - 1] ELSE Append(k[i - 1], s[i])
  <2>1. CASE i = 0
    BY <2>1
  <2>2. CASE i # 0
    <3>1. i \in 1 .. Len(s) /\ i - 1 \in 0 .. Len(s)
      BY <2>2
    <3>2. k[i] = SubSeq(s, 1, i) /\ k[i - 1] = SubSeq(s, 1, i - 1) /\ s[i] # x
      BY <1>1, <3>1
    <3>3. SubSeq(s, 1, i) = Append(SubSeq(s, 1, i - 1), s[i])
      BY <3>1
    <3> HIDE DEF k
    <3> QED BY <2>2, <3>2, <3>3, Zenon
  <2> QED BY <2>1, <2>2
<1>3. k[Len(s)] = s
  BY DEF k
<1>4. Keeps(k, s, x)
  <2>1. k = [i \in 0 .. Len(s) |-> k[i]]
    OBVIOUS
  <2> HIDE DEF k
  <2> QED BY <1>2, <2>1, Zenon DEF Keeps
<1> HIDE DEF k
<1> QED BY <1>3, <1>4, WithoutIs, Zenon

\* It does not matter whether an occurrence of x was removed before.
LEMMA WithoutRemoveAt ==
  ASSUME NEW S, NEW s \in Seq(S), NEW x, NEW p \in 1 .. Len(s), s[p] = x
  PROVE  Without(RemoveAt(s, p), x) = Without(s, x)
<1> DEFINE r == RemoveAt(s, p)
<1>1. /\ r \in Seq(S) /\ Len(r) = Len(s) - 1
      /\ \A i \in 1 .. Len(r) : r[i] = IF i < p THEN s[i] ELSE s[i + 1]
  BY RemoveAtElements
<1> HIDE DEF r
<1>2. PICK k \in [0 .. Len(s) -> Seq(S)] : Keeps(k, s, x)
  BY KeepsExists, Zenon
<1> DEFINE g == [i \in 0 .. Len(r) |-> IF i < p THEN k[i] ELSE k[i + 1]]
           K(i) == IF i = 0 THEN <<>> ELSE IF s[i] = x THEN k[i - 1] ELSE Append(k[i - 1], s[i])
<1>3. \A i \in 0 .. Len(s) : k[i] = K(i)
  BY <1>2, Zenon DEF Keeps
<1>4. k[p] = k[p - 1]
  BY <1>3
<1>5. \A i \in 0 .. Len(r) : g[i] = IF i < p THEN k[i] ELSE k[i + 1]
  OBVIOUS
<1>6. ASSUME NEW i \in 0 .. Len(r)
      PROVE  g[i] = IF i = 0 THEN <<>> ELSE IF r[i] = x THEN g[i - 1] ELSE Append(g[i - 1], r[i])
  <2>1. Len(r) \in Nat /\ Len(s) \in Nat /\ Len(s) = Len(r) + 1
    BY <1>1
  <2> HIDE DEF g
  <2>2. CASE i = 0
    <3>1. 0 < p /\ 0 \in 0 .. Len(s) /\ 0 \in 0 .. Len(r)
      BY <2>1
    <3>2. g[0] = k[0]
      BY <1>5, <3>1
    <3>3. k[0] = <<>>
      BY <1>3, <3>1
    <3> QED BY <2>2, <3>2, <3>3
  <2>3. CASE i # 0 /\ i < p
    <3>1. i \in 0 .. Len(s) /\ i \in 1 .. Len(r) /\ i - 1 < p /\ i - 1 \in 0 .. Len(r)
      BY <2>1, <2>3
    <3>2. g[i] = k[i] /\ g[i - 1] = k[i - 1] /\ r[i] = s[i] /\ k[i] = K(i)
      BY <1>1, <1>3, <1>5, <2>3, <3>1
    <3> QED BY <2>3, <3>2, Zenon
  <2>4. CASE i >= p
    <3>1. /\ i + 1 \in 0 .. Len(s) /\ i \in 1 .. Len(r) /\ i - 1 \in 0 .. Len(r)
          /\ ~(i < p) /\ i # 0 /\ i + 1 # 0 /\ (i + 1) - 1 = i
      BY <2>1, <2>4
    <3>2. g[i] = k[i + 1] /\ r[i] = s[i + 1] /\ k[i + 1] = K(i + 1)
      BY <1>1, <1>3, <1>5, <3>1, Zenon
    <3>3. g[i - 1] = k[i]
      <4>1. CASE i = p
        <5>1. i - 1 < p
          BY <4>1
        <5> QED BY <1>4, <1>5, <3>1, <4>1, <5>1
      <4>2. CASE i > p
        <5>1. ~(i - 1 < p) /\ (i - 1) + 1 = i
          BY <4>2
        <5> QED BY <1>5, <3>1, <5>1
      <4> QED BY <2>4, <4>1, <4>2
    <3> QED BY <3>1, <3>2, <3>3
  <2> QED BY <2>2, <2>3, <2>4
<1>7. Keeps(g, r, x)
  <2>1. g = [i \in 0 .. Len(r) |-> g[i]]
    OBVIOUS
  <2> HIDE DEF g
  <2> QED BY <1>6, <2>1, Zenon DEF Keeps
<1>8. g[Len(r)] = k[Len(s)]
  <2>1. Len(r) \in Nat /\ Len(s) \in Nat /\ Len(s) = Len(r) + 1 /\ Len(r) \in 0 .. Len(r)
    BY <1>1
  <2>2. CASE Len(r) < p
    <3>1. p = Len(s) /\ Len(r) = p - 1
      BY <2>1, <2>2
    <3>2. g[Len(r)] = k[Len(r)]
      BY <1>5, <2>1, <2>2
    <3> HIDE DEF g
    <3> QED BY <1>4, <3>1, <3>2
  <2>3. CASE ~(Len(r) < p)
    BY <1>5, <2>1, <2>3
  <2> QED BY <2>2, <2>3
<1> HIDE DEF g
<1>9. Without(r, x) = g[Len(r)]
  BY <1>1, <1>7, WithoutIs, Zenon
<1>10. Without(s, x) = k[Len(s)]
  BY <1>2, WithoutIs, Zenon
<1> QED BY <1>8, <1>9, <1>10, Zenon DEF r
--------------------------------------------------------------------------------
(* Recursion and concatenation.                                            *)

\* Repeating steps on the elements of a set gives a function of the number of steps.
LEMMA Iteration ==
  ASSUME NEW S, NEW b \in S, NEW N \in Nat, NEW F \in [1 .. N -> [S -> S]]
  PROVE  \E k \in [0 .. N -> S] : k[0] = b /\ \A i \in 1 .. N : k[i] = F[i][k[i - 1]]
<1> DEFINE Upto(k, n) == k[0] = b /\ \A i \in 1 .. n : k[i] = F[i][k[i - 1]]
           T == {n \in Nat : n =< N => \E k \in [0 .. n -> S] : Upto(k, n)}
<1>1. 0 \in T
  <2> DEFINE k == [i \in 0 .. 0 |-> b]
  <2>1. k \in [0 .. 0 -> S] /\ Upto(k, 0)
    OBVIOUS
  <2> HIDE DEF k, Upto
  <2> QED BY <2>1
<1>2. ASSUME NEW n \in Nat, n \in T PROVE n + 1 \in T
  <2>a. n + 1 \in Nat
    OBVIOUS
  <2> SUFFICES ASSUME n + 1 =< N PROVE \E k \in [0 .. n + 1 -> S] : Upto(k, n + 1)
    BY <2>a, Zenon
  <2>1. n =< N /\ n + 1 \in 1 .. N
    OBVIOUS
  <2>2. PICK k \in [0 .. n -> S] : Upto(k, n)
    BY <1>2, <2>1, Zenon
  <2> DEFINE g == [i \in 0 .. n + 1 |-> IF i = n + 1 THEN F[n + 1][k[n]] ELSE k[i]]
  <2>3. F[n + 1] \in [S -> S] /\ k[n] \in S
    BY <2>1, <2>2
  <2>4. g \in [0 .. n + 1 -> S]
    BY <2>2, <2>3
  <2>5. (\A i \in 0 .. n : g[i] = k[i]) /\ g[n + 1] = F[n + 1][k[n]]
    BY <2>2
  <2> HIDE DEF g
  <2>6. ASSUME NEW i \in 1 .. n + 1 PROVE g[i] = F[i][g[i - 1]]
    <3>1. CASE i = n + 1
      <4>1. i - 1 = n /\ n \in 0 .. n
        BY <3>1
      <4> QED BY <2>5, <3>1, <4>1
    <3>2. CASE i \in 1 .. n
      <4>1. i - 1 \in 0 .. n /\ i \in 0 .. n
        BY <3>2
      <4> QED BY <2>2, <2>5, <3>2, <4>1, Zenon
    <3> QED BY <3>1, <3>2
  <2>7. g[0] = b
    BY <2>2, <2>5
  <2> QED BY <2>4, <2>6, <2>7, Zenon
<1> HIDE DEF T
<1>3. N \in T
  BY <1>1, <1>2, NumberInduction
<1> QED BY <1>3 DEF T

\* k[i] is the concatenation of the first i sequences of ss.
Concats(k, ss) ==
  k = [i \in 0 .. Len(ss) |-> IF i = 0 THEN <<>> ELSE k[i - 1] \o ss[i]]

\* FlattenSeq concatenates the sequences.
LEMMA FlattenIs ==
  ASSUME NEW S, NEW ss \in Seq(Seq(S)), NEW k, Concats(k, ss)
  PROVE  FlattenSeq(ss) = k[Len(ss)]
<1> DEFINE n == Len(ss)
           G(f) == [i \in 1 .. n |-> IF i = 1 THEN ss[i] ELSE f[i - 1] \o ss[i]]
           c == CHOOSE f : f = G(f)
           h == [i \in 1 .. n |-> k[i]]
<1>1. n \in Nat /\ \A i \in 1 .. n : ss[i] \in Seq(S)
  OBVIOUS
<1>2. \A i \in 0 .. n : k[i] = IF i = 0 THEN <<>> ELSE k[i - 1] \o ss[i]
  BY Zenon DEF Concats
<1>3. FlattenSeq(ss) = IF n = 0 THEN ss ELSE c[n]
  BY Zenon DEF FlattenSeq
<1> HIDE DEF n
<1>4. CASE n = 0
  <2>1. ss = <<>>
    BY <1>4 DEF n
  <2>2. k[0] = <<>>
    BY <1>1, <1>2
  <2> QED BY <1>3, <1>4, <2>1, <2>2 DEF n
<1>5. CASE n # 0
  <2>1. ASSUME NEW i \in 1 .. n PROVE h[i] = IF i = 1 THEN ss[i] ELSE h[i - 1] \o ss[i]
    <3>1. h[i] = k[i] /\ k[i] = k[i - 1] \o ss[i]
      <4>1. i \in 0 .. n /\ i # 0
        BY <1>1
      <4> QED BY <1>2, <4>1, Zenon
    <3>2. CASE i = 1
      <4>1. k[i - 1] = <<>>
        BY <1>1, <1>2, <3>2
      <4> QED BY <1>1, <3>1, <3>2, <4>1
    <3>3. CASE i # 1
      <4>1. i - 1 \in 1 .. n
        BY <1>1, <3>3
      <4> QED BY <3>1, <3>3, <4>1, Zenon
    <3> QED BY <3>2, <3>3
  <2>2. h = G(h)
    <3>1. h = [i \in 1 .. n |-> h[i]]
      OBVIOUS
    <3> HIDE DEF h
    <3> QED BY <2>1, <3>1, Zenon
  <2>3. c = G(c)
    BY <2>2, Zenon
  <2> HIDE DEF c
  <2>4. \A i \in 1 .. n : c[i] = IF i = 1 THEN ss[i] ELSE c[i - 1] \o ss[i]
    BY <2>3, Zenon
  <2> DEFINE T == {i \in Nat : i + 1 =< n => c[i + 1] = h[i + 1]}
  <2>5. 0 \in T
    BY <1>1, <2>1, <2>4
  <2>6. ASSUME NEW i \in Nat, i \in T PROVE i + 1 \in T
    <3> SUFFICES ASSUME i + 1 + 1 =< n PROVE c[i + 1 + 1] = h[i + 1 + 1]
      BY DEF T
    <3>1. i + 1 + 1 \in 1 .. n /\ i + 1 =< n /\ i + 1 + 1 # 1 /\ (i + 1 + 1) - 1 = i + 1
      BY <1>1
    <3>2. c[i + 1] = h[i + 1]
      BY <2>6, <3>1
    <3> HIDE DEF h
    <3>3. /\ c[i + 1 + 1] = c[(i + 1 + 1) - 1] \o ss[i + 1 + 1]
          /\ h[i + 1 + 1] = h[(i + 1 + 1) - 1] \o ss[i + 1 + 1]
      BY <2>1, <2>4, <3>1, Zenon
    <3> QED BY <3>1, <3>2, <3>3, Zenon
  <2>7. n - 1 \in Nat /\ (n - 1) + 1 = n /\ n =< n /\ n \in 1 .. n
    BY <1>1, <1>5
  <2> HIDE DEF T, h
  <2>8. n - 1 \in T
    BY <2>5, <2>6, <2>7, NumberInduction, Zenon
  <2>9. c[n] = h[n]
    BY <2>7, <2>8 DEF T
  <2> QED BY <1>3, <1>5, <2>7, <2>9 DEF h, n
<1> QED BY <1>4, <1>5

\* The concatenations of sequences over S are sequences over S.
LEMMA ConcatsExist ==
  ASSUME NEW S, NEW ss \in Seq(Seq(S))
  PROVE  \E k \in [0 .. Len(ss) -> Seq(S)] : Concats(k, ss)
<1> DEFINE F == [i \in 1 .. Len(ss) |-> [x \in Seq(S) |-> x \o ss[i]]]
<1>1. Len(ss) \in Nat /\ <<>> \in Seq(S) /\ \A i \in 1 .. Len(ss) : ss[i] \in Seq(S)
  OBVIOUS
<1>2. \A x \in Seq(S), i \in 1 .. Len(ss) : x \o ss[i] \in Seq(S)
  BY <1>1
<1>3. F \in [1 .. Len(ss) -> [Seq(S) -> Seq(S)]]
  BY <1>2
<1>4. \A i \in 1 .. Len(ss), x \in Seq(S) : F[i][x] = x \o ss[i]
  OBVIOUS
<1> HIDE DEF F
<1>5. PICK k \in [0 .. Len(ss) -> Seq(S)] :
        k[0] = <<>> /\ \A i \in 1 .. Len(ss) : k[i] = F[i][k[i - 1]]
  <2> DEFINE R == Seq(S)
             e == <<>>
             m == Len(ss)
  <2>1. e \in R /\ m \in Nat /\ F \in [1 .. m -> [R -> R]]
    BY <1>1, <1>3
  <2> HIDE DEF R, e, m
  <2>2. \E k \in [0 .. m -> R] : k[0] = e /\ \A i \in 1 .. m : k[i] = F[i][k[i - 1]]
    BY <2>1, Iteration, SMTT(30)
  <2> QED BY <2>2 DEF R, e, m
<1>6. ASSUME NEW i \in 0 .. Len(ss) PROVE k[i] = IF i = 0 THEN <<>> ELSE k[i - 1] \o ss[i]
  <2>1. CASE i = 0
    BY <1>5, <2>1, Zenon
  <2>2. CASE i # 0
    <3>1. i \in 1 .. Len(ss) /\ i - 1 \in 0 .. Len(ss)
      BY <1>1, <2>2
    <3>2. k[i - 1] \in Seq(S)
      BY <3>1, Zenon
    <3> QED BY <1>4, <1>5, <2>2, <3>1, <3>2, Zenon
  <2> QED BY <2>1, <2>2, Zenon
<1>7. k = [i \in 0 .. Len(ss) |-> k[i]]
  OBVIOUS
<1> QED BY <1>6, <1>7, Zenon DEF Concats

\* FlattenSeq of no sequence.
LEMMA FlattenEmpty == FlattenSeq(<<>>) = <<>>
BY DEF FlattenSeq

\* FlattenSeq, one sequence after the other.
LEMMA FlattenStep ==
  ASSUME NEW S, NEW ss \in Seq(Seq(S)), NEW s \in Seq(S)
  PROVE  /\ FlattenSeq(ss) \in Seq(S)
         /\ FlattenSeq(Append(ss, s)) = FlattenSeq(ss) \o s
<1> DEFINE n == Len(ss)
           ts == Append(ss, s)
<1>1. n \in Nat /\ ts \in Seq(Seq(S)) /\ Len(ts) = n + 1
  OBVIOUS
<1>2. ts[n + 1] = s /\ \A i \in 1 .. n : ts[i] = ss[i]
  OBVIOUS
<1>3. PICK k \in [0 .. n -> Seq(S)] : Concats(k, ss)
  BY ConcatsExist, Zenon
<1>4. FlattenSeq(ss) = k[n] /\ k[n] \in Seq(S)
  <2>1. FlattenSeq(ss) = k[n]
    BY <1>3, FlattenIs, Zenon
  <2>2. n \in 0 .. n
    BY <1>1
  <2> QED BY <1>3, <2>1, <2>2, Zenon
<1> DEFINE g == [i \in 0 .. n + 1 |-> IF i = n + 1 THEN k[n] \o s ELSE k[i]]
<1> HIDE DEF n, ts
<1>5. (\A i \in 0 .. n : g[i] = k[i]) /\ g[n + 1] = k[n] \o s
  BY <1>1
<1>6. \A i \in 0 .. n : k[i] = IF i = 0 THEN <<>> ELSE k[i - 1] \o ss[i]
  BY <1>3, Zenon DEF Concats, n
<1>7. ASSUME NEW i \in 0 .. n + 1 PROVE g[i] = IF i = 0 THEN <<>> ELSE g[i - 1] \o ts[i]
  <2> HIDE DEF g
  <2>1. CASE i = n + 1
    <3>1. i # 0 /\ i - 1 = n /\ n \in 0 .. n
      BY <1>1, <2>1
    <3> QED BY <1>2, <1>5, <2>1, <3>1, Zenon
  <2>2. CASE i \in 1 .. n
    <3>1. i # 0 /\ i - 1 \in 0 .. n /\ i \in 0 .. n
      BY <1>1, <2>2
    <3> QED BY <1>2, <1>5, <1>6, <2>2, <3>1, Zenon
  <2>3. CASE i = 0
    <3>1. 0 \in 0 .. n
      BY <1>1
    <3> QED BY <1>5, <1>6, <2>3, <3>1, Zenon
  <2> QED BY <1>1, <2>1, <2>2, <2>3
<1>8. Concats(g, ts)
  <2>1. g = [i \in 0 .. n + 1 |-> g[i]]
    OBVIOUS
  <2> HIDE DEF g
  <2> QED BY <1>1, <1>7, <2>1, Zenon DEF Concats
<1>9. FlattenSeq(ts) = g[n + 1]
  <2> HIDE DEF g
  <2> QED BY <1>1, <1>8, FlattenIs, Zenon
<1> HIDE DEF g
<1> QED BY <1>4, <1>5, <1>9, Zenon DEF ts

\* The same, for the type only.
LEMMA FlattenType ==
  ASSUME NEW S, NEW ss \in Seq(Seq(S))
  PROVE  FlattenSeq(ss) \in Seq(S)
<1> DEFINE e == <<>>
<1>1. e \in Seq(S)
  OBVIOUS
<1> HIDE DEF e
<1> QED BY <1>1, FlattenStep, Zenon

\* A sequence that is not empty consists of its front and its last element.
LEMMA FrontAndLast ==
  ASSUME NEW S, NEW s \in Seq(S), NEW n \in Nat, Len(s) = n + 1
  PROVE  /\ Front(s) \in Seq(S) /\ Len(Front(s)) = n /\ \A i \in 1 .. n : Front(s)[i] = s[i]
         /\ Last(s) \in S /\ Last(s) = s[n + 1]
         /\ s = Append(Front(s), Last(s))
<1> DEFINE t == SubSeq(s, 1, n)
<1>1. t \in Seq(S) /\ Len(t) = n /\ \A i \in 1 .. n : t[i] = s[i]
  OBVIOUS
<1>2. s[n + 1] \in S
  OBVIOUS
<1>3. Front(s) = t /\ Last(s) = s[n + 1]
  BY DEF Front, Last
<1> HIDE DEF t
<1>4. s = Append(t, s[n + 1])
  BY <1>1, <1>2
<1> QED BY <1>1, <1>2, <1>3, <1>4, Zenon

\* What a concatenation contains.
LEMMA ContainsConcat ==
  ASSUME NEW S, NEW s \in Seq(S), NEW t \in Seq(S), NEW x
  PROVE  Contains(s \o t, x) <=> Contains(s, x) \/ Contains(t, x)
<1>1. /\ Len(s) \in Nat /\ Len(t) \in Nat /\ Len(s \o t) = Len(s) + Len(t)
      /\ \A i \in 1 .. Len(s) : (s \o t)[i] = s[i]
      /\ \A i \in 1 .. Len(t) : (s \o t)[Len(s) + i] = t[i]
  BY ConcatProperties
<1>2. ASSUME NEW i \in 1 .. Len(s \o t), (s \o t)[i] = x PROVE Contains(s, x) \/ Contains(t, x)
  <2>1. CASE i \in 1 .. Len(s)
    BY <1>1, <1>2, <2>1 DEF Contains
  <2>2. CASE i \notin 1 .. Len(s)
    <3>1. i - Len(s) \in 1 .. Len(t) /\ Len(s) + (i - Len(s)) = i
      BY <1>1, <2>2
    <3> QED BY <1>1, <1>2, <3>1 DEF Contains
  <2> QED BY <2>1, <2>2
<1>3. ASSUME NEW i \in 1 .. Len(s), s[i] = x PROVE Contains(s \o t, x)
  BY <1>1, <1>3 DEF Contains
<1>4. ASSUME NEW i \in 1 .. Len(t), t[i] = x PROVE Contains(s \o t, x)
  <2>1. Len(s) + i \in 1 .. Len(s \o t) /\ (s \o t)[Len(s) + i] = x
    BY <1>1, <1>4
  <2> QED BY <2>1, Zenon DEF Contains
<1> QED BY <1>2, <1>3, <1>4, Zenon DEF Contains

\* What the concatenation of many sequences contains.
LEMMA FlattenContains ==
  ASSUME NEW S, NEW ss \in Seq(Seq(S)), NEW x
  PROVE  Contains(FlattenSeq(ss), x) <=> \E i \in 1 .. Len(ss) : Contains(ss[i], x)
<1> DEFINE P(ts) == Contains(FlattenSeq(ts), x) <=> \E i \in 1 .. Len(ts) : Contains(ts[i], x)
           T == {n \in Nat : \A ts \in Seq(Seq(S)) : Len(ts) = n => P(ts)}
<1>1. 0 \in T
  <2> SUFFICES ASSUME NEW ts \in Seq(Seq(S)), Len(ts) = 0 PROVE P(ts)
    BY Zenon
  <2>1. ts = <<>>
    OBVIOUS
  <2>2. FlattenSeq(ts) = <<>>
    BY <2>1, FlattenEmpty
  <2> QED BY <2>1, <2>2 DEF Contains
<1>2. ASSUME NEW n \in Nat, n \in T PROVE n + 1 \in T
  <2>a. n + 1 \in Nat
    OBVIOUS
  <2> SUFFICES ASSUME NEW ts \in Seq(Seq(S)), Len(ts) = n + 1 PROVE P(ts)
    BY <2>a, Zenon
  <2> DEFINE us == Front(ts)
             s == Last(ts)
  <2>1. /\ us \in Seq(Seq(S)) /\ Len(us) = n /\ \A i \in 1 .. n : us[i] = ts[i]
        /\ s \in Seq(S) /\ s = ts[n + 1] /\ ts = Append(us, s)
    BY FrontAndLast, Zenon
  <2> HIDE DEF us, s
  <2>2. P(us)
    BY <1>2, <2>1, Zenon
  <2>3. FlattenSeq(ts) = FlattenSeq(us) \o s /\ FlattenSeq(us) \in Seq(S)
    BY <2>1, FlattenStep, Zenon
  <2>4. Contains(FlattenSeq(ts), x) <=> Contains(FlattenSeq(us), x) \/ Contains(s, x)
    <3> DEFINE a == FlattenSeq(us)
    <3>1. a \in Seq(S) /\ s \in Seq(S) /\ FlattenSeq(ts) = a \o s
      BY <2>1, <2>3, Zenon
    <3> HIDE DEF a
    <3>2. Contains(a \o s, x) <=> Contains(a, x) \/ Contains(s, x)
      BY <3>1, ContainsConcat, Zenon
    <3> QED BY <3>1, <3>2, Zenon DEF a
  <2>5. 1 .. n + 1 = 1 .. n \cup {n + 1}
    OBVIOUS
  <2> QED BY <2>1, <2>2, <2>4, <2>5, Zenon
<1> HIDE DEF T
<1>3. Len(ss) \in T /\ Len(ss) \in Nat
  BY <1>1, <1>2, NumberInduction
<1> QED BY <1>3, Zenon DEF T

\* Without removes x and nothing else.
LEMMA WithoutContains ==
  ASSUME NEW S, NEW s \in Seq(S), NEW x, NEW y
  PROVE  Contains(Without(s, x), y) <=> Contains(s, y) /\ y # x
<1>1. PICK k \in [0 .. Len(s) -> Seq(S)] : Keeps(k, s, x)
  BY KeepsExists, Zenon
<1> DEFINE T == {n \in Nat : n =< Len(s) =>
                   (Contains(k[n], y) <=> (\E i \in 1 .. n : s[i] = y) /\ y # x)}
<1>2. \A i \in 0 .. Len(s) :
        k[i] = IF i = 0 THEN <<>> ELSE IF s[i] = x THEN k[i - 1] ELSE Append(k[i - 1], s[i])
  BY <1>1, Zenon DEF Keeps
<1>3. 0 \in T
  <2>1. k[0] = <<>>
    BY <1>2
  <2> QED BY <2>1 DEF Contains
<1>4. ASSUME NEW n \in Nat, n \in T PROVE n + 1 \in T
  <2>a. n + 1 \in Nat
    OBVIOUS
  <2> SUFFICES ASSUME n + 1 =< Len(s)
               PROVE  Contains(k[n + 1], y) <=> (\E i \in 1 .. n + 1 : s[i] = y) /\ y # x
    BY <2>a, Zenon
  <2>1. /\ n =< Len(s) /\ n + 1 \in 0 .. Len(s) /\ (n + 1) - 1 = n /\ n + 1 # 0 /\ n \in 0 .. Len(s)
        /\ 1 .. n + 1 = 1 .. n \cup {n + 1} /\ s[n + 1] \in S
    OBVIOUS
  <2>2. Contains(k[n], y) <=> (\E i \in 1 .. n : s[i] = y) /\ y # x
    BY <1>4, <2>1, Zenon
  <2>3. k[n + 1] = IF s[n + 1] = x THEN k[n] ELSE Append(k[n], s[n + 1])
    BY <1>2, <2>1, Zenon
  <2>4. k[n] \in Seq(S)
    BY <1>1, <2>1, Zenon
  <2>5. CASE s[n + 1] = x
    BY <2>1, <2>2, <2>3, <2>5, Zenon
  <2>6. CASE s[n + 1] # x
    <3>1. Append(k[n], s[n + 1]) = k[n] \o <<s[n + 1]>> /\ <<s[n + 1]>> \in Seq(S)
      BY <2>1, <2>4
    <3>2. Contains(<<s[n + 1]>>, y) <=> s[n + 1] = y
      BY DEF Contains
    <3>3. Contains(k[n + 1], y) <=> Contains(k[n], y) \/ s[n + 1] = y
      <4> DEFINE a == k[n]
                 b == <<s[n + 1]>>
      <4>1. Contains(a \o b, y) <=> Contains(a, y) \/ Contains(b, y)
        <5>1. a \in Seq(S) /\ b \in Seq(S)
          BY <2>4, <3>1
        <5> HIDE DEF a, b
        <5> QED BY <5>1, ContainsConcat
      <4> QED BY <2>3, <2>6, <3>1, <3>2, <4>1, Zenon
    <3> QED BY <2>1, <2>2, <2>6, <3>3
  <2> QED BY <2>5, <2>6
<1> HIDE DEF T
<1>5. Len(s) \in T /\ Len(s) \in Nat /\ Len(s) =< Len(s)
  BY <1>3, <1>4, NumberInduction
<1>6. Without(s, x) = k[Len(s)]
  BY <1>1, WithoutIs, Zenon
<1> QED BY <1>5, <1>6, Zenon DEF T, Contains

\* FlattenSeq of a single sequence.
LEMMA FlattenOne ==
  ASSUME NEW S, NEW s \in Seq(S)
  PROVE  FlattenSeq(<<s>>) = s
<1> DEFINE e == <<>>
<1>1. e \in Seq(Seq(S)) /\ Append(e, s) = <<s>> /\ FlattenSeq(e) = <<>>
  BY FlattenEmpty
<1>2. <<>> \o s = s
  OBVIOUS
<1> HIDE DEF e
<1>3. FlattenSeq(Append(e, s)) = FlattenSeq(e) \o s
  BY <1>1, FlattenStep, Zenon
<1> QED BY <1>1, <1>2, <1>3, Zenon

\* FlattenSeq of one sequence of sequences behind another.
LEMMA FlattenConcat ==
  ASSUME NEW S, NEW ss \in Seq(Seq(S)), NEW tt \in Seq(Seq(S))
  PROVE  FlattenSeq(ss \o tt) = FlattenSeq(ss) \o FlattenSeq(tt)
<1>a. \A x, y, z \in Seq(S) : (x \o y) \o z = x \o (y \o z)
  <2>1. ASSUME NEW x \in Seq(S), NEW y \in Seq(S), NEW z \in Seq(S)
        PROVE  (x \o y) \o z = x \o (y \o z)
    OBVIOUS
  <2> QED BY <2>1, Zenon
<1> DEFINE P(ts) == FlattenSeq(ss \o ts) = FlattenSeq(ss) \o FlattenSeq(ts)
           T == {n \in Nat : \A ts \in Seq(Seq(S)) : Len(ts) = n => P(ts)}
<1>0. FlattenSeq(ss) \in Seq(S)
  BY FlattenType, Zenon
<1>1. 0 \in T
  <2> SUFFICES ASSUME NEW ts \in Seq(Seq(S)), Len(ts) = 0 PROVE P(ts)
    OBVIOUS
  <2>1. ts = <<>> /\ ss \o ts = ss
    OBVIOUS
  <2>2. FlattenSeq(ss) \o <<>> = FlattenSeq(ss)
    BY <1>0
  <2> QED BY <2>1, <2>2, FlattenEmpty, Zenon
<1>2. ASSUME NEW n \in Nat, n \in T PROVE n + 1 \in T
  <2> SUFFICES ASSUME NEW ts \in Seq(Seq(S)), Len(ts) = n + 1 PROVE P(ts)
    OBVIOUS
  <2> DEFINE R == Seq(S)
             us == Front(ts)
             u == Last(ts)
             vs == ss \o us
             f == FlattenSeq(ss)
             g == FlattenSeq(us)
  <2>1. us \in Seq(R) /\ Len(us) = n /\ u \in R /\ ts = Append(us, u)
    <3>1. ts \in Seq(R)
      OBVIOUS
    <3> HIDE DEF R
    <3> QED BY <3>1, FrontAndLast, Zenon
  <2>2. P(us)
    BY <1>2, <2>1
  <2> HIDE DEF us, u
  <2>3. vs \in Seq(Seq(S)) /\ ss \o ts = Append(vs, u)
    BY <2>1
  <2> HIDE DEF vs
  <2>4. FlattenSeq(Append(vs, u)) = FlattenSeq(vs) \o u /\ FlattenSeq(Append(us, u)) = g \o u
    BY <2>1, <2>3, FlattenStep, Zenon
  <2>5. f \in Seq(S) /\ g \in Seq(S) /\ u \in Seq(S)
    BY <2>1, FlattenType, Zenon
  <2>6. FlattenSeq(vs) = f \o g
    BY <2>2, Zenon DEF vs
  <2> HIDE DEF f, g
  <2>7. (f \o g) \o u = f \o (g \o u)
    BY <1>a, <2>5, Zenon
  <2> QED BY <2>1, <2>3, <2>4, <2>6, <2>7, Zenon DEF f
<1>3. Len(tt) \in Nat
  OBVIOUS
<1>4. Len(tt) \in T
  <2> DEFINE m == Len(tt)
  <2>1. m \in Nat
    BY <1>3
  <2> HIDE DEF T, m
  <2>2. m \in T
    BY <1>1, <1>2, <2>1, NumberInduction, Zenon
  <2> QED BY <2>2 DEF m
<1> QED BY <1>4, Zenon

\* A function on 1 .. n is a sequence of its values.
LEMMA FunctionIsSeq ==
  ASSUME NEW R, NEW n \in Nat, NEW h, h = [i \in 1 .. n |-> h[i]], \A i \in 1 .. n : h[i] \in R
  PROVE  h \in Seq(R) /\ Len(h) = n /\ DOMAIN h = 1 .. n
<1>1. h \in [1 .. n -> R]
  BY Zenon
<1> QED BY <1>1

\* A concatenation, element by element.
LEMMA ConcatElements ==
  ASSUME NEW R, NEW s \in Seq(R), NEW t \in Seq(R)
  PROVE  /\ s \o t \in Seq(R) /\ Len(s \o t) = Len(s) + Len(t)
         /\ \A i \in 1 .. Len(s) : (s \o t)[i] = s[i]
         /\ \A i \in 1 .. Len(t) : (s \o t)[Len(s) + i] = t[i]
<1> DEFINE m == Len(s)
           n == Len(t)
           r == s \o t
<1>1. m \in Nat /\ n \in Nat
  OBVIOUS
<1>2. r \in Seq(R) /\ Len(r) = m + n
  BY ConcatProperties, Zenon
<1>3. \A i \in 1 .. m + n : r[i] = IF i <= m THEN s[i] ELSE t[i - m]
  BY ConcatProperties, Zenon
<1> HIDE DEF m, n, r
<1>4. ASSUME NEW i \in 1 .. m PROVE r[i] = s[i]
  <2>1. i \in 1 .. m + n /\ i <= m
    BY <1>1
  <2> QED BY <1>3, <2>1, Zenon
<1>5. ASSUME NEW i \in 1 .. n PROVE r[m + i] = t[i]
  <2>1. m + i \in 1 .. m + n /\ ~(m + i <= m) /\ (m + i) - m = i
    BY <1>1
  <2>2. r[m + i] = t[(m + i) - m]
    BY <1>3, <2>1, Zenon
  <2> QED BY <2>1, <2>2, Zenon
<1> QED BY <1>2, <1>4, <1>5, Zenon DEF m, n, r

\* Append, element by element.
LEMMA AppendElements ==
  ASSUME NEW R, NEW f \in Seq(R), NEW h \in Seq(R), Len(h) = Len(f) + 1,
         \A i \in 1 .. Len(f) : h[i] = f[i]
  PROVE  h = Append(f, h[Len(f) + 1])
<1> DEFINE n == Len(f)
           k == Append(f, h[n + 1])
<1>1. n \in Nat /\ h[n + 1] \in R
  OBVIOUS
<1>2. k \in Seq(R) /\ Len(k) = n + 1 /\ k[n + 1] = h[n + 1] /\ \A i \in 1 .. n : k[i] = f[i]
  BY <1>1
<1>3. \A i \in 1 .. n + 1 : i \in 1 .. n \/ i = n + 1
  BY <1>1
<1> HIDE DEF k
<1>4. \A i \in 1 .. n + 1 : k[i] = h[i]
  BY <1>2, <1>3, Zenon
<1>5. k = h
  BY <1>1, <1>2, <1>4
<1> QED BY <1>5, Zenon DEF k
================================================================================
