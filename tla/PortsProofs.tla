------------------------------ MODULE PortsProofs ------------------------------
(***************************************************************************)
(* No connection outlives its ports, for any number of ports, connections  *)
(* and moves.                                                              *)
(***************************************************************************)
EXTENDS Ports, SequenceProofs, FiniteSetTheorems

\* The places at which x occurs in s, and how many there are.
Places(s, x) == {i \in 1 .. Len(s) : s[i] = x}
Count(s, x) == Cardinality(Places(s, x))

\* A connectable that is connected does not have the address of a passive port.
Separate == Temporaries \cap Passive = {}

PortTypes ==
  /\ alive \subseteq Active \cup Passive
  /\ handlers \in [Active -> Seq(Passive \cup {Closure})]
  /\ hashes \in [Active -> Seq(Passive \cup Temporaries \cup {Null})]
  /\ callback \in [Active -> Callbacks \cup {Null}]
  /\ bound \in [Callbacks -> Active \cup {Null}]
  /\ breakers \in [Passive -> Seq(Callbacks)]
  /\ dying \in Passive \cup {Null}

\* Handlers hs and hashes ks belong together; the hash of a handler that calls a port is
\* the address of that port.
Paired(a, hs, ks) ==
  /\ hs \in Seq(Peers(a) \cup {Closure})
  /\ ks \in Seq(Peers(a) \cup Temporaries \cup {Null})
  /\ IF a \in EventSources THEN Len(ks) = Len(hs) ELSE Len(ks) = 1 /\ Len(hs) <= 1
  /\ \A i \in 1 .. Len(hs) : IF hs[i] = Closure THEN ks[i] \in Temporaries ELSE ks[i] = hs[i]

\* An event_source whose handlers are hs and whose callback is c has as many connections
\* to p as p has breakers bs that call c; a state_sink may have one less.
Matching(a, hs, p, bs, c) ==
  IF a \in EventSources THEN Count(hs, p) = Count(bs, c) ELSE Contains(hs, p) => Contains(bs, c)

\* A callback calls the port that owns it; a port without callback has no connections.
Owned(a) ==
  IF callback[a] = Null THEN handlers[a] = <<>> ELSE a \in alive /\ bound[callback[a]] = a

PortsInv ==
  /\ PortTypes
  /\ \A a \in Active : Paired(a, handlers[a], hashes[a]) /\ Owned(a)
  /\ \A a \in Active, p \in Passive :
       callback[a] # Null => Matching(a, handlers[a], p, breakers[p], callback[a])
  /\ \A p \in Passive : breakers[p] # <<>> => p \in alive
  /\ dying # Null => dying \in alive
--------------------------------------------------------------------------------
(* Counting.                                                               *)

\* A count is a natural number, and zero if the element does not occur.
LEMMA CountType ==
  ASSUME NEW S, NEW s \in Seq(S), NEW x
  PROVE  /\ IsFiniteSet(Places(s, x))
         /\ Count(s, x) \in Nat
         /\ Count(s, x) = 0 <=> ~Contains(s, x)
<1>1. Len(s) \in Nat
  OBVIOUS
<1>2. IsFiniteSet(1 .. Len(s))
  BY <1>1, FS_Interval
<1>3. Places(s, x) \in SUBSET (1 .. Len(s))
  BY DEF Places
<1>4. IsFiniteSet(Places(s, x))
  BY <1>2, <1>3, FS_Subset
<1>5. Count(s, x) \in Nat
  BY <1>4, FS_CardinalityType DEF Count
<1>6. Count(s, x) = 0 <=> Places(s, x) = {}
  BY <1>4, FS_EmptySet DEF Count
<1>7. Places(s, x) = {} <=> ~Contains(s, x)
  BY DEF Places, Contains
<1> QED BY <1>4, <1>5, <1>6, <1>7

\* push_back of a handler, a hash or a breaker adds one to the count of that element.
LEMMA CountAppend ==
  ASSUME NEW S, NEW s \in Seq(S), NEW e \in S, NEW x
  PROVE  Count(Append(s, e), x) = Count(s, x) + (IF e = x THEN 1 ELSE 0)
<1>1. /\ Len(s) \in Nat /\ Len(Append(s, e)) = Len(s) + 1
      /\ \A i \in 1 .. Len(s) : Append(s, e)[i] = s[i]
      /\ Append(s, e)[Len(s) + 1] = e
  OBVIOUS
<1>2. Len(s) + 1 \notin Places(s, x)
  BY <1>1 DEF Places
<1>3. CASE e = x
  <2>1. Places(Append(s, e), x) = Places(s, x) \cup {Len(s) + 1}
    BY <1>1, <1>3 DEF Places
  <2> QED BY <1>2, <1>3, <2>1, CountType, FS_AddElement, Zenon DEF Count
<1>4. CASE e # x
  <2>1. Places(Append(s, e), x) = Places(s, x)
    BY <1>1, <1>4 DEF Places
  <2>2. Count(s, x) \in Nat
    BY CountType
  <2> QED BY <1>4, <2>1, <2>2 DEF Count
<1> QED BY <1>3, <1>4

\* erase takes one from the count of the element that it removes.
LEMMA CountRemoveAt ==
  ASSUME NEW S, NEW s \in Seq(S), NEW i \in 1 .. Len(s), NEW x
  PROVE  Count(RemoveAt(s, i), x) = Count(s, x) - (IF s[i] = x THEN 1 ELSE 0)
<1> DEFINE r == RemoveAt(s, i)
           f == [j \in Places(r, x) |-> IF j < i THEN j ELSE j + 1]
<1>1. /\ r \in Seq(S) /\ Len(s) \in Nat /\ Len(r) = Len(s) - 1
      /\ \A j \in 1 .. Len(s) - 1 : r[j] = IF j < i THEN s[j] ELSE s[j + 1]
  BY RemoveAtElements
<1> HIDE DEF r
<1>2. f \in [Places(r, x) -> Places(s, x) \ {i}]
  BY <1>1 DEF Places
<1>3. \A j, k \in Places(r, x) : f[j] = f[k] => j = k
  BY <1>1 DEF Places
<1>4. \A k \in Places(s, x) \ {i} : \E j \in Places(r, x) : f[j] = k
  <2> TAKE k \in Places(s, x) \ {i}
  <2>1. CASE k < i
    <3>1. k \in Places(r, x)
      BY <1>1, <2>1 DEF Places
    <3> QED BY <2>1, <3>1
  <2>2. CASE k > i
    <3>1. k - 1 \in Places(r, x) /\ ~(k - 1 < i) /\ (k - 1) + 1 = k
      BY <1>1, <2>2 DEF Places
    <3> QED BY <3>1
  <2> QED BY <2>1, <2>2 DEF Places
<1>5. f \in Bijection(Places(r, x), Places(s, x) \ {i})
  BY <1>2, <1>3, <1>4 DEF Bijection, Injection, Surjection, IsInjective
<1>6. ExistsBijection(Places(r, x), Places(s, x) \ {i})
  BY <1>5, Zenon DEF ExistsBijection
<1>7. IsFiniteSet(Places(r, x)) /\ IsFiniteSet(Places(s, x))
  BY <1>1, CountType
<1>8. Cardinality(Places(s, x) \ {i}) = Count(r, x)
  BY <1>6, <1>7, FS_Bijection DEF Count
<1>9. i \in Places(s, x) <=> s[i] = x
  BY DEF Places
<1>10. Count(s, x) \in Nat
  BY CountType
<1>11. Cardinality(Places(s, x) \ {i}) = IF s[i] = x THEN Count(s, x) - 1 ELSE Count(s, x)
  BY <1>7, <1>9, FS_RemoveElement, Zenon DEF Count
<1> QED BY <1>8, <1>10, <1>11 DEF r

\* So does the destructor of a passive port with the breaker it has called.
LEMMA CountTail ==
  ASSUME NEW S, NEW s \in Seq(S), s # <<>>, NEW x
  PROVE  Count(Tail(s), x) = Count(s, x) - (IF Head(s) = x THEN 1 ELSE 0)
<1>1. Len(s) \in Nat \ {0} /\ 1 \in 1 .. Len(s) /\ Head(s) = s[1]
  OBVIOUS
<1>2. /\ Tail(s) \in Seq(S) /\ Len(Tail(s)) = Len(s) - 1
      /\ \A j \in 1 .. Len(s) - 1 : Tail(s)[j] = s[j + 1]
  BY <1>1
<1>3. /\ RemoveAt(s, 1) \in Seq(S) /\ Len(RemoveAt(s, 1)) = Len(s) - 1
      /\ \A j \in 1 .. Len(s) - 1 : RemoveAt(s, 1)[j] = s[j + 1]
  BY <1>1, RemoveAtElements
<1>4. Places(Tail(s), x) = Places(RemoveAt(s, 1), x)
  BY <1>1, <1>2, <1>3 DEF Places
<1>5. Count(Tail(s), x) = Count(RemoveAt(s, 1), x)
  BY <1>4 DEF Count
<1> QED BY <1>1, <1>5, CountRemoveAt

\* std::find of remove_handler returns a place of the element if it occurs.
LEMMA FirstPlace ==
  ASSUME NEW S, NEW s \in Seq(S), NEW x, Contains(s, x)
  PROVE  Places(s, x) # {} /\ Min(Places(s, x)) \in Places(s, x)
<1> DEFINE I == Places(s, x)
<1>1. I # {} /\ I \subseteq Nat
  BY DEF Contains, Places
<1>2. \E i \in I : \A j \in I : i =< j
  BY <1>1, LeastNumber
<1>3. Min(I) \in I
  BY <1>2 DEF Min
<1> QED BY <1>1, <1>3
--------------------------------------------------------------------------------
(* The parts of the invariant, for the values of the variables.            *)

\* Handlers and hashes of a port without connections belong together;
LEMMA PairedNone ==
  ASSUME NEW a \in Active
  PROVE  Paired(a, <<>>, NoHashes(a))
<1>1. <<>> \in Seq(Peers(a) \cup {Closure}) /\ <<>> \in Seq(Peers(a) \cup Temporaries \cup {Null})
  OBVIOUS
<1>2. <<Null>> \in Seq(Peers(a) \cup Temporaries \cup {Null}) /\ Len(<<Null>>) = 1
  OBVIOUS
<1>3. Len(<<>>) = 0 /\ 1 .. 0 = {}
  OBVIOUS
<1>4. CASE a \in EventSources
  BY <1>1, <1>3, <1>4 DEF Paired, NoHashes
<1>5. CASE a \notin EventSources
  BY <1>1, <1>2, <1>3, <1>5 DEF Paired, NoHashes
<1> QED BY <1>4, <1>5

\* What AddHandler stores: target and address of a new connection.
Entry(a, target, address) ==
  \/ target \in Peers(a) /\ address = target
  \/ target = Closure /\ address \in Temporaries

\* still after add_handler of multiple_handler_policy,
LEMMA PairedAppend ==
  ASSUME NEW a \in EventSources, NEW hs, NEW ks, Paired(a, hs, ks),
         NEW x, NEW k, Entry(a, x, k), Closure \notin Peers(a)
  PROVE  Paired(a, Append(hs, x), Append(ks, k))
<1>1. hs \in Seq(Peers(a) \cup {Closure}) /\ ks \in Seq(Peers(a) \cup Temporaries \cup {Null})
  BY DEF Paired
<1>2. x \in Peers(a) \cup {Closure} /\ k \in Peers(a) \cup Temporaries \cup {Null}
  BY DEF Entry
<1>3. /\ Append(hs, x) \in Seq(Peers(a) \cup {Closure})
      /\ Append(ks, k) \in Seq(Peers(a) \cup Temporaries \cup {Null})
      /\ Len(hs) \in Nat /\ Len(ks) = Len(hs)
      /\ Len(Append(hs, x)) = Len(hs) + 1 /\ Len(Append(ks, k)) = Len(hs) + 1
      /\ \A i \in 1 .. Len(hs) : Append(hs, x)[i] = hs[i] /\ Append(ks, k)[i] = ks[i]
      /\ Append(hs, x)[Len(hs) + 1] = x /\ Append(ks, k)[Len(hs) + 1] = k
  BY <1>1, <1>2 DEF Paired
<1>4. ASSUME NEW i \in 1 .. Len(hs) + 1
      PROVE  IF Append(hs, x)[i] = Closure THEN Append(ks, k)[i] \in Temporaries
                                          ELSE Append(ks, k)[i] = Append(hs, x)[i]
  <2>1. CASE i \in 1 .. Len(hs)
    BY <1>3, <2>1 DEF Paired
  <2>2. CASE i = Len(hs) + 1
    BY <1>3, <2>2 DEF Entry
  <2> QED BY <1>3, <2>1, <2>2
<1> QED BY <1>3, <1>4 DEF Paired

\* after add_handler of single_handler_policy,
LEMMA PairedSingle ==
  ASSUME NEW a \in Active \ EventSources, NEW x, NEW k, Entry(a, x, k), Closure \notin Peers(a)
  PROVE  Paired(a, <<x>>, <<k>>)
<1>1. x \in Peers(a) \cup {Closure} /\ k \in Peers(a) \cup Temporaries \cup {Null}
  BY DEF Entry
<1>2. <<x>> \in Seq(Peers(a) \cup {Closure}) /\ <<k>> \in Seq(Peers(a) \cup Temporaries \cup {Null})
  BY <1>1
<1> QED BY <1>2 DEF Paired, Entry

\* and after remove_handler has erased one place from both vectors.
LEMMA PairedRemoveAt ==
  ASSUME NEW a \in EventSources, NEW hs, NEW ks, Paired(a, hs, ks), NEW i \in 1 .. Len(hs)
  PROVE  Paired(a, RemoveAt(hs, i), RemoveAt(ks, i))
<1>1. /\ hs \in Seq(Peers(a) \cup {Closure}) /\ ks \in Seq(Peers(a) \cup Temporaries \cup {Null})
      /\ Len(ks) = Len(hs) /\ Len(hs) \in Nat
  BY DEF Paired
<1>2. /\ RemoveAt(hs, i) \in Seq(Peers(a) \cup {Closure})
      /\ Len(RemoveAt(hs, i)) = Len(hs) - 1
      /\ \A j \in 1 .. Len(hs) - 1 : RemoveAt(hs, i)[j] = IF j < i THEN hs[j] ELSE hs[j + 1]
  BY <1>1, RemoveAtElements, Zenon
<1>3. /\ RemoveAt(ks, i) \in Seq(Peers(a) \cup Temporaries \cup {Null})
      /\ Len(RemoveAt(ks, i)) = Len(hs) - 1
      /\ \A j \in 1 .. Len(hs) - 1 : RemoveAt(ks, i)[j] = IF j < i THEN ks[j] ELSE ks[j + 1]
  <2>1. i \in 1 .. Len(ks)
    BY <1>1, Zenon
  <2>2. /\ RemoveAt(ks, i) \in Seq(Peers(a) \cup Temporaries \cup {Null})
        /\ Len(RemoveAt(ks, i)) = Len(ks) - 1
        /\ \A j \in 1 .. Len(ks) - 1 : RemoveAt(ks, i)[j] = IF j < i THEN ks[j] ELSE ks[j + 1]
    BY <1>1, <2>1, RemoveAtElements, Zenon
  <2> QED BY <1>1, <2>2, Zenon
<1>4. ASSUME NEW j \in 1 .. Len(hs) - 1
      PROVE  IF RemoveAt(hs, i)[j] = Closure THEN RemoveAt(ks, i)[j] \in Temporaries
                                            ELSE RemoveAt(ks, i)[j] = RemoveAt(hs, i)[j]
  <2>1. j \in 1 .. Len(hs) /\ j + 1 \in 1 .. Len(hs)
    BY <1>1
  <2>2. CASE j < i
    BY <1>2, <1>3, <2>1, <2>2 DEF Paired
  <2>3. CASE ~(j < i)
    BY <1>2, <1>3, <2>1, <2>3 DEF Paired
  <2> QED BY <2>2, <2>3
<1> QED BY <1>2, <1>3, <1>4 DEF Paired

\* The address of a passive port is the hash of the handlers that call it and of no other.
LEMMA HashMeansPort ==
  ASSUME Separate, NEW a \in EventSources, NEW hs, NEW ks, Paired(a, hs, ks), NEW p \in Passive
  PROVE  \A i \in 1 .. Len(hs) : hs[i] = p <=> ks[i] = p
<1>1. p # Closure /\ p \notin Temporaries
  BY AddressAssumption DEF Separate
<1> QED BY <1>1 DEF Paired

\* A new port has no handlers, and no breaker calls it.
LEMMA MatchingNone ==
  ASSUME NEW a, NEW p, NEW bs \in Seq(Callbacks), NEW c, ~Contains(bs, c)
  PROVE  Matching(a, <<>>, p, bs, c)
<1>1. <<>> \in Seq({}) /\ ~Contains(<<>>, p)
  BY DEF Contains
<1>2. Count(<<>>, p) = 0
  BY <1>1, CountType, Zenon
<1>3. Count(bs, c) = 0
  BY CountType
<1> QED BY <1>1, <1>2, <1>3 DEF Matching

\* A breaker of another port is added or used up.
LEMMA MatchingOther ==
  ASSUME NEW a, NEW hs, NEW p, NEW bs \in Seq(Callbacks), NEW c, Matching(a, hs, p, bs, c)
  PROVE  /\ \A d \in Callbacks \ {c} : Matching(a, hs, p, Append(bs, d), c)
         /\ bs # <<>> /\ Head(bs) # c => Matching(a, hs, p, Tail(bs), c)
<1>0. Count(bs, c) \in Nat
  BY CountType
<1>1. ASSUME NEW d \in Callbacks \ {c} PROVE Matching(a, hs, p, Append(bs, d), c)
  <2>1. Count(Append(bs, d), c) = Count(bs, c)
    BY <1>0, CountAppend
  <2>2. Append(bs, d) \in Seq(Callbacks)
    OBVIOUS
  <2>3. Contains(Append(bs, d), c) <=> Contains(bs, c)
    BY <2>1, <2>2, CountType, Zenon
  <2> QED BY <2>1, <2>3 DEF Matching
<1>2. ASSUME bs # <<>>, Head(bs) # c PROVE Matching(a, hs, p, Tail(bs), c)
  <2>1. Count(Tail(bs), c) = Count(bs, c)
    BY <1>0, <1>2, CountTail
  <2>2. Tail(bs) \in Seq(Callbacks)
    BY <1>2
  <2>3. Contains(Tail(bs), c) <=> Contains(bs, c)
    BY <2>1, <2>2, CountType, Zenon
  <2> QED BY <2>1, <2>3 DEF Matching
<1> QED BY <1>1, <1>2

\* The handlers of a after AddHandler.
Added(a, hs, x) == IF a \in EventSources THEN Append(hs, x) ELSE <<x>>

\* A connection to p adds a handler here and a breaker there.
LEMMA MatchingAdded ==
  ASSUME NEW S, NEW a, NEW hs \in Seq(S), NEW p \in S, NEW bs \in Seq(Callbacks), NEW c \in Callbacks,
         Matching(a, hs, p, bs, c)
  PROVE  Matching(a, Added(a, hs, p), p, Append(bs, c), c)
<1>1. Append(bs, c) \in Seq(Callbacks) /\ Count(bs, c) \in Nat
  BY CountType
<1>2. Count(Append(bs, c), c) = Count(bs, c) + 1
  BY CountAppend
<1>3. Contains(Append(bs, c), c)
  <2>1. Count(Append(bs, c), c) # 0
    BY <1>1, <1>2
  <2> QED BY <1>1, <2>1, CountType, Zenon
<1>4. Count(Append(hs, p), p) = Count(hs, p) + 1
  BY CountAppend
<1> QED BY <1>2, <1>3, <1>4 DEF Matching, Added

\* It says nothing of the connections to another port q.
LEMMA MatchingAddedOther ==
  ASSUME NEW S, NEW a, NEW hs \in Seq(S), NEW x \in S, NEW q, q # x, NEW bs, NEW c,
         Matching(a, hs, q, bs, c)
  PROVE  Matching(a, Added(a, hs, x), q, bs, c)
<1>1. Count(Append(hs, x), q) = Count(hs, q)
  <2>1. Count(hs, q) \in Nat
    BY CountType
  <2> QED BY <2>1, CountAppend
<1>2. ~Contains(<<x>>, q)
  BY DEF Contains
<1> QED BY <1>1, <1>2 DEF Matching, Added

--------------------------------------------------------------------------------
(* Every action preserves the invariant.                                   *)

\* Addresses of different things are different.
LEMMA Addresses ==
  /\ Null \notin Callbacks /\ Null \notin Active /\ Null \notin Passive
  /\ \A a \in Active : Peers(a) \subseteq Passive /\ Closure \notin Peers(a)
  /\ Closure \notin Passive
  /\ \A a \in StateSinks : a \notin EventSources
  BY AddressAssumption DEF Active, Passive, Peers

\* Two ports do not share a callback.
LEMMA CallbackOfOne ==
  ASSUME PortsInv, NEW a \in Active, NEW b \in Active, callback[a] = callback[b], callback[a] # Null
  PROVE  a = b
  BY DEF PortsInv, Owned

\* Before any port is constructed there are neither handlers nor breakers.
LEMMA InitPorts == Init => PortsInv
<1> SUFFICES ASSUME Init PROVE PortsInv
  OBVIOUS
<1>1. \A a \in Active : NoHashes(a) \in Seq(Passive \cup Temporaries \cup {Null})
  <2>1. /\ <<>> \in Seq(Passive \cup Temporaries \cup {Null})
        /\ <<Null>> \in Seq(Passive \cup Temporaries \cup {Null})
    OBVIOUS
  <2> QED BY <2>1, Zenon DEF NoHashes
<1>2. <<>> \in Seq(Passive \cup {Closure}) /\ <<>> \in Seq(Callbacks)
  OBVIOUS
<1>3. PortTypes
  BY <1>1, <1>2 DEF Init, PortTypes
<1>4. \A a \in Active : Paired(a, handlers[a], hashes[a]) /\ Owned(a)
  BY PairedNone DEF Init, Owned
<1> QED BY <1>3, <1>4 DEF Init, PortsInv

\* The constructor of an active port makes a callback of its own.
LEMMA NewActivePreserves ==
  ASSUME PortsInv, NEW a \in Active, NEW c \in Callbacks, NewActive(a, c)
  PROVE  PortsInv'
<1> USE Addresses
<1>1. PortTypes'
  BY DEF NewActive, PortsInv, PortTypes
<1>2. callback[a] = Null /\ handlers[a] = <<>>
  BY DEF NewActive, PortsInv, Owned
<1>3. \A b \in Active : Paired(b, handlers'[b], hashes'[b])
  BY DEF NewActive, PortsInv
<1>4. \A b \in Active : Owned(b)'
  BY <1>2 DEF NewActive, PortsInv, PortTypes, Owned, Unused
<1>5. ASSUME NEW b \in Active, NEW p \in Passive, callback'[b] # Null
      PROVE  Matching(b, handlers'[b], p, breakers'[p], callback'[b])
  <2>1. CASE b = a
    <3>1. handlers'[b] = <<>> /\ callback'[b] = c /\ breakers'[p] = breakers[p]
      BY <1>2, <2>1 DEF NewActive, PortsInv, PortTypes
    <3>2. breakers[p] \in Seq(Callbacks) /\ ~Contains(breakers[p], c)
      BY DEF NewActive, Unused, PortsInv, PortTypes
    <3> QED BY <3>1, <3>2, MatchingNone
  <2>2. CASE b # a
    BY <1>5, <2>2 DEF NewActive, PortsInv, PortTypes
  <2> QED BY <2>1, <2>2
<1>6. (\A p \in Passive : breakers[p] # <<>> => p \in alive)' /\ (dying # Null => dying \in alive)'
  BY DEF NewActive, PortsInv
<1> QED BY <1>1, <1>3, <1>4, <1>5, <1>6 DEF PortsInv

\* Move construction takes handlers, hashes and callback along and rebinds the callback.
LEMMA MoveActivePreserves ==
  ASSUME PortsInv, NEW a \in Active, NEW b \in Active, a \in EventSources <=> b \in EventSources,
         MoveActive(a, b)
  PROVE  PortsInv'
<1> USE Addresses
<1>0. a # b /\ Peers(a) = Peers(b) /\ callback[a] \in Callbacks
  BY DEF MoveActive, Peers, PortsInv, PortTypes
<1>1. callback[b] = Null /\ handlers[b] = <<>>
  BY DEF MoveActive, PortsInv, Owned
<1>2. <<>> \in Seq(Passive \cup {Closure}) /\ <<>> \in Seq(Passive \cup Temporaries \cup {Null})
  OBVIOUS
<1>3. /\ handlers'[a] = <<>> /\ handlers'[b] = handlers[a]
      /\ hashes'[a] = (IF a \in EventSources THEN <<>> ELSE hashes[a]) /\ hashes'[b] = hashes[a]
      /\ callback'[a] = Null /\ callback'[b] = callback[a]
      /\ \A d \in Active \ {a, b} :
           handlers'[d] = handlers[d] /\ hashes'[d] = hashes[d] /\ callback'[d] = callback[d]
  BY <1>0 DEF MoveActive, PortsInv, PortTypes
<1>4. PortTypes'
  BY <1>0, <1>2, Zenon DEF MoveActive, PortsInv, PortTypes
<1>5. ASSUME NEW d \in Active PROVE Paired(d, handlers'[d], hashes'[d])
  <2>1. CASE d = a
    <3>1. CASE a \in EventSources
      BY <1>3, <2>1, <3>1, PairedNone DEF NoHashes
    <3>2. CASE a \notin EventSources
      <4>1. Paired(a, handlers[a], hashes[a])
        BY DEF PortsInv
      <4>2. <<>> \in Seq(Peers(a) \cup {Closure}) /\ Len(<<>>) = 0 /\ 1 .. 0 = {}
        OBVIOUS
      <4>3. Paired(a, <<>>, hashes[a])
        BY <3>2, <4>1, <4>2 DEF Paired
      <4> QED BY <1>3, <2>1, <3>2, <4>3
    <3> QED BY <3>1, <3>2
  <2>2. CASE d = b
    <3>1. Paired(a, handlers[a], hashes[a])
      BY DEF PortsInv
    <3> QED BY <1>0, <1>3, <2>2, <3>1 DEF Paired
  <2>3. CASE d \notin {a, b}
    BY <1>3, <2>3 DEF PortsInv
  <2> QED BY <2>1, <2>2, <2>3
<1>6. ASSUME NEW d \in Active PROVE Owned(d)'
  <2>1. bound' = [bound EXCEPT ![callback[a]] = b] /\ alive' = alive \cup {b}
    BY DEF MoveActive
  <2>2. CASE d \in {a, b}
    BY <1>0, <1>3, <2>1, <2>2 DEF Owned, PortsInv, PortTypes
  <2>3. CASE d \notin {a, b}
    <3>1. callback[d] # Null => callback[d] # callback[a]
      BY <1>0, <2>3, CallbackOfOne
    <3> QED BY <1>0, <1>3, <2>1, <2>3, <3>1 DEF Owned, PortsInv, PortTypes
  <2> QED BY <2>2, <2>3
<1>7. ASSUME NEW d \in Active, NEW p \in Passive, callback'[d] # Null
      PROVE  Matching(d, handlers'[d], p, breakers'[p], callback'[d])
  <2>1. breakers' = breakers
    BY DEF MoveActive
  <2>2. CASE d = b
    <3>1. Matching(a, handlers[a], p, breakers[p], callback[a])
      BY <1>0 DEF PortsInv
    <3> QED BY <1>3, <2>1, <2>2, <3>1 DEF Matching
  <2>3. CASE d # b
    BY <1>3, <1>7, <2>1, <2>3 DEF PortsInv
  <2> QED BY <2>2, <2>3
<1>8. (\A p \in Passive : breakers[p] # <<>> => p \in alive)' /\ (dying # Null => dying \in alive)'
  BY DEF MoveActive, PortsInv
<1> QED BY <1>4, <1>5, <1>6, <1>7, <1>8 DEF PortsInv

\* The breakers that are left after an active port cannot be locked.
LEMMA DestroyActivePreserves ==
  ASSUME PortsInv, NEW a \in Active, DestroyActive(a)
  PROVE  PortsInv'
<1> USE Addresses
<1>1. /\ handlers'[a] = <<>> /\ hashes'[a] = NoHashes(a) /\ callback'[a] = Null
      /\ \A d \in Active \ {a} :
           handlers'[d] = handlers[d] /\ hashes'[d] = hashes[d] /\ callback'[d] = callback[d]
      /\ breakers' = breakers
  BY DEF DestroyActive, PortsInv, PortTypes
<1>2. PortTypes'
  <2>1. /\ <<>> \in Seq(Passive \cup {Closure})
        /\ <<>> \in Seq(Passive \cup Temporaries \cup {Null})
        /\ <<Null>> \in Seq(Passive \cup Temporaries \cup {Null})
    OBVIOUS
  <2>2. NoHashes(a) \in Seq(Passive \cup Temporaries \cup {Null})
    BY <2>1, Zenon DEF NoHashes
  <2> QED BY <2>1, <2>2 DEF DestroyActive, PortsInv, PortTypes
<1>3. ASSUME NEW d \in Active PROVE Paired(d, handlers'[d], hashes'[d])
  <2>1. CASE d = a
    BY <1>1, <2>1, PairedNone
  <2>2. CASE d # a
    BY <1>1, <2>2 DEF PortsInv
  <2> QED BY <2>1, <2>2
<1>4. ASSUME NEW d \in Active PROVE Owned(d)'
  <2>1. CASE d = a
    BY <1>1, <2>1 DEF Owned
  <2>2. CASE d # a
    <3>1. callback[d] # Null => callback[d] # callback[a]
      BY <2>2, CallbackOfOne
    <3>2. /\ bound' = [c \in Callbacks |-> IF c = callback[a] THEN Null ELSE bound[c]]
          /\ alive' = alive \ {a}
      BY DEF DestroyActive
    <3> QED BY <1>1, <2>2, <3>1, <3>2 DEF Owned, PortsInv, PortTypes
  <2> QED BY <2>1, <2>2
<1>5. ASSUME NEW d \in Active, NEW p \in Passive, callback'[d] # Null
      PROVE  Matching(d, handlers'[d], p, breakers'[p], callback'[d])
  BY <1>1, <1>5 DEF PortsInv
<1>6. (\A p \in Passive : breakers[p] # <<>> => p \in alive)' /\ (dying # Null => dying \in alive)'
  BY AddressAssumption DEF DestroyActive, PortsInv
<1> QED BY <1>2, <1>3, <1>4, <1>5, <1>6 DEF PortsInv

\* AddHandler keeps handlers and hashes in step, for a port and for a closure.
LEMMA AddHandlerPreserves ==
  ASSUME PortsInv, NEW a \in Active, NEW x, NEW k, Entry(a, x, k), AddHandler(a, x, k)
  PROVE  /\ handlers' \in [Active -> Seq(Passive \cup {Closure})]
         /\ hashes' \in [Active -> Seq(Passive \cup Temporaries \cup {Null})]
         /\ handlers'[a] = Added(a, handlers[a], x)
         /\ \A d \in Active \ {a} : handlers'[d] = handlers[d]
         /\ \A d \in Active : Paired(d, handlers'[d], hashes'[d])
<1> USE Addresses
<1>1. x \in Passive \cup {Closure} /\ k \in Passive \cup Temporaries \cup {Null}
  BY DEF Entry
<1>2. /\ Append(handlers[a], x) \in Seq(Passive \cup {Closure}) /\ <<x>> \in Seq(Passive \cup {Closure})
      /\ Append(hashes[a], k) \in Seq(Passive \cup Temporaries \cup {Null})
      /\ <<k>> \in Seq(Passive \cup Temporaries \cup {Null})
  BY <1>1 DEF PortsInv, PortTypes
<1>3. Paired(a, handlers[a], hashes[a])
  BY DEF PortsInv
<1>4. CASE a \in EventSources
  <2>1. /\ handlers' = [handlers EXCEPT ![a] = Append(handlers[a], x)]
        /\ hashes' = [hashes EXCEPT ![a] = Append(hashes[a], k)]
    BY <1>4 DEF AddHandler, AddMultiple
  <2>2. Paired(a, Append(handlers[a], x), Append(hashes[a], k))
    BY <1>3, <1>4, PairedAppend
  <2> QED BY <1>2, <1>4, <2>1, <2>2 DEF Added, PortsInv, PortTypes
<1>5. CASE a \notin EventSources
  <2>1. handlers' = [handlers EXCEPT ![a] = <<x>>] /\ hashes' = [hashes EXCEPT ![a] = <<k>>]
    BY <1>5 DEF AddHandler, AddSingle
  <2>2. Paired(a, <<x>>, <<k>>)
    BY <1>5, PairedSingle
  <2> QED BY <1>2, <1>5, <2>1, <2>2, Zenon DEF Added, PortsInv, PortTypes
<1> QED BY <1>4, <1>5

\* connect with a port adds a handler and registers a breaker.
LEMMA ConnectPreserves ==
  ASSUME PortsInv, NEW a \in Active, NEW p \in Peers(a), Connect(a, p)
  PROVE  PortsInv'
<1> USE Addresses
<1>1. Entry(a, p, p) /\ p \in Passive /\ callback[a] \in Callbacks
  BY DEF Entry, Connect, CanConnect, PortsInv, PortTypes
<1>2. AddHandler(a, p, p) /\ UNCHANGED <<alive, callback, bound, dying>>
  BY DEF Connect
<1>3. /\ handlers' \in [Active -> Seq(Passive \cup {Closure})]
      /\ hashes' \in [Active -> Seq(Passive \cup Temporaries \cup {Null})]
      /\ handlers'[a] = Added(a, handlers[a], p)
      /\ \A d \in Active \ {a} : handlers'[d] = handlers[d]
      /\ \A d \in Active : Paired(d, handlers'[d], hashes'[d])
  BY <1>1, <1>2, AddHandlerPreserves
<1>4. /\ breakers' \in [Passive -> Seq(Callbacks)]
      /\ breakers'[p] = Append(breakers[p], callback[a])
      /\ \A q \in Passive \ {p} : breakers'[q] = breakers[q]
  BY <1>1 DEF Connect, PortsInv, PortTypes
<1>5. PortTypes'
  BY <1>2, <1>3, <1>4 DEF PortsInv, PortTypes
<1>6. \A d \in Active : Owned(d)'
  BY <1>1, <1>2, <1>3 DEF Owned, PortsInv
<1>7. ASSUME NEW d \in Active, NEW q \in Passive, callback'[d] # Null
      PROVE  Matching(d, handlers'[d], q, breakers'[q], callback'[d])
  <2>1. /\ Matching(d, handlers[d], q, breakers[q], callback[d]) /\ callback'[d] = callback[d]
        /\ callback[d] \in Callbacks
        /\ breakers[q] \in Seq(Callbacks) /\ handlers[d] \in Seq(Passive \cup {Closure})
    BY <1>2, <1>7 DEF PortsInv, PortTypes
  <2>2. CASE d = a /\ q = p
    <3>1. Matching(d, Added(d, handlers[d], q), q, Append(breakers[q], callback[d]), callback[d])
      BY <2>1, MatchingAdded, Zenon
    <3> QED BY <1>3, <1>4, <2>1, <2>2, <3>1, Zenon
  <2>3. CASE d = a /\ q # p
    <3>1. p \in Passive \cup {Closure}
      BY <1>1
    <3>2. Matching(d, Added(d, handlers[d], p), q, breakers[q], callback[d])
      BY <2>1, <2>3, <3>1, MatchingAddedOther, Zenon
    <3> QED BY <1>3, <1>4, <2>1, <2>3, <3>2
  <2>4. CASE d # a
    <3>1. callback[a] # callback[d]
      BY <1>2, <1>7, <2>4, CallbackOfOne
    <3>2. Matching(d, handlers[d], q, Append(breakers[q], callback[a]), callback[d])
      BY <1>1, <2>1, <3>1, MatchingOther
    <3> QED BY <1>3, <1>4, <2>1, <2>4, <3>2, Zenon
  <2> QED BY <2>2, <2>3, <2>4
<1>8. \A q \in Passive : breakers'[q] # <<>> => q \in alive'
  BY <1>2, <1>4 DEF Connect, PortsInv
<1>9. (dying # Null => dying \in alive)'
  BY <1>2 DEF PortsInv
<1> QED BY <1>3, <1>5, <1>6, <1>7, <1>8, <1>9 DEF PortsInv

\* connect with a connectable that is no port adds a handler only.
LEMMA ConnectClosurePreserves ==
  ASSUME PortsInv, NEW a \in Active, NEW t \in Temporaries, ConnectClosure(a, t)
  PROVE  PortsInv'
<1> USE Addresses
<1>1. Entry(a, Closure, t)
  BY DEF Entry
<1>2. /\ AddHandler(a, Closure, t) /\ callback[a] # Null
      /\ UNCHANGED <<alive, callback, bound, breakers, dying>>
  BY DEF ConnectClosure, CanConnect
<1>3. /\ handlers' \in [Active -> Seq(Passive \cup {Closure})]
      /\ hashes' \in [Active -> Seq(Passive \cup Temporaries \cup {Null})]
      /\ handlers'[a] = Added(a, handlers[a], Closure)
      /\ \A d \in Active \ {a} : handlers'[d] = handlers[d]
      /\ \A d \in Active : Paired(d, handlers'[d], hashes'[d])
  BY <1>1, <1>2, AddHandlerPreserves
<1>4. PortTypes'
  BY <1>2, <1>3 DEF PortsInv, PortTypes
<1>5. \A d \in Active : Owned(d)'
  BY <1>2, <1>3 DEF Owned, PortsInv
<1>6. ASSUME NEW d \in Active, NEW q \in Passive, callback'[d] # Null
      PROVE  Matching(d, handlers'[d], q, breakers'[q], callback'[d])
  <2>1. /\ Matching(d, handlers[d], q, breakers[q], callback[d])
        /\ handlers[d] \in Seq(Passive \cup {Closure}) /\ q # Closure
    BY <1>2, <1>6 DEF PortsInv, PortTypes
  <2>2. CASE d = a
    <3>1. Matching(d, Added(d, handlers[d], Closure), q, breakers[q], callback[d])
      BY <2>1, MatchingAddedOther, Zenon
    <3> QED BY <1>2, <1>3, <2>2, <3>1
  <2>3. CASE d # a
    BY <1>2, <1>3, <2>1, <2>3
  <2> QED BY <2>2, <2>3
<1>7. (\A p \in Passive : breakers[p] # <<>> => p \in alive)' /\ (dying # Null => dying \in alive)'
  BY <1>2 DEF PortsInv
<1> QED BY <1>3, <1>4, <1>5, <1>6, <1>7 DEF PortsInv

\* The steps of a passive port that call no breaker.
LEMMA PassivePreserves ==
  ASSUME PortsInv, UNCHANGED <<active, breakers>>,
         \/ /\ \E p \in Passive : alive' = alive \cup {p}
            /\ dying' = dying
         \/ \E p \in Passive : BeginDestroy(p)
         \/ EndDestroy
         \/ UNCHANGED <<alive, dying>>
  PROVE  PortsInv'
<1> USE Addresses
<1>1. UNCHANGED <<handlers, hashes, callback, bound, breakers>>
  BY DEF active
<1>2. alive' \subseteq Active \cup Passive /\ dying' \in Passive \cup {Null}
  BY DEF BeginDestroy, EndDestroy, PortsInv, PortTypes
<1>3. \A a \in Active : a \in alive => a \in alive'
  BY AddressAssumption DEF BeginDestroy, EndDestroy, PortsInv, PortTypes
<1>4. \A p \in Passive : breakers[p] # <<>> => p \in alive'
  BY DEF BeginDestroy, EndDestroy, PortsInv
<1>5. dying' # Null => dying' \in alive'
  BY DEF BeginDestroy, EndDestroy, PortsInv
<1>6. PortTypes'
  BY <1>1, <1>2 DEF PortsInv, PortTypes
<1>7. \A a \in Active : Owned(a)'
  BY <1>1, <1>3 DEF Owned, PortsInv
<1>8. \A a \in Active : Paired(a, handlers'[a], hashes'[a])
  BY <1>1 DEF PortsInv
<1>9. \A a \in Active, p \in Passive :
        callback'[a] # Null => Matching(a, handlers'[a], p, breakers'[p], callback'[a])
  BY <1>1 DEF PortsInv
<1> QED BY <1>1, <1>4, <1>5, <1>6, <1>7, <1>8, <1>9 DEF PortsInv

\* A breaker that is called finds an event_source connected to the dying port.
LEMMA BreakerFinds ==
  ASSUME Separate, PortsInv, dying # Null, breakers[dying] # <<>>,
         NEW a \in EventSources, callback[a] = Head(breakers[dying])
  PROVE  LET i == SelectInSeq(hashes[a], LAMBDA h : h = dying)
         IN  /\ Contains(hashes[a], dying)
             /\ i \in 1 .. Len(handlers[a]) /\ handlers[a][i] = dying
<1> USE Addresses
<1>1. /\ dying \in Passive /\ a \in Active
      /\ breakers[dying] \in Seq(Callbacks)
      /\ handlers[a] \in Seq(Passive \cup {Closure})
      /\ hashes[a] \in Seq(Passive \cup Temporaries \cup {Null})
  BY DEF PortsInv, PortTypes, Active
<1>2. Head(breakers[dying]) \in Callbacks /\ Contains(breakers[dying], Head(breakers[dying]))
  BY <1>1 DEF Contains
<1>3. Matching(a, handlers[a], dying, breakers[dying], callback[a])
  BY <1>1, <1>2 DEF PortsInv
<1>4. Count(handlers[a], dying) # 0
  <2>1. Count(breakers[dying], callback[a]) # 0
    BY <1>1, <1>2, CountType
  <2> QED BY <1>3, <2>1 DEF Matching
<1>5. Contains(handlers[a], dying)
  BY <1>1, <1>4, CountType
<1>6. Paired(a, handlers[a], hashes[a])
  BY <1>1 DEF PortsInv
<1>7. Len(hashes[a]) = Len(handlers[a])
  BY <1>6 DEF Paired
<1>8. \A i \in 1 .. Len(handlers[a]) : handlers[a][i] = dying <=> hashes[a][i] = dying
  BY <1>1, <1>6, HashMeansPort
<1>9. Contains(hashes[a], dying)
  BY <1>5, <1>7, <1>8 DEF Contains
<1> DEFINE i == SelectInSeq(hashes[a], LAMBDA h : h = dying)
<1>10. i \in 1 .. Len(hashes[a]) /\ hashes[a][i] = dying
  <2> DEFINE I == Places(hashes[a], dying)
  <2>1. I # {} /\ Min(I) \in I
    BY <1>1, <1>9, FirstPlace
  <2>2. i = Min(I)
    BY <2>1 DEF SelectInSeq, Places
  <2> QED BY <2>1, <2>2, Zenon DEF Places
<1> HIDE DEF i
<1>11. i \in 1 .. Len(handlers[a]) /\ handlers[a][i] = dying
  BY <1>7, <1>8, <1>10
<1> QED BY <1>9, <1>11 DEF i

\* Its removal takes one connection to the dying port from the port a it belongs to.
LEMMA RemoveHandlerPreserves ==
  ASSUME Separate, PortsInv, dying # Null, breakers[dying] # <<>>,
         NEW a \in Active, callback[a] = Head(breakers[dying]), RemoveHandler(a, dying)
  PROVE  /\ handlers' \in [Active -> Seq(Passive \cup {Closure})]
         /\ hashes' \in [Active -> Seq(Passive \cup Temporaries \cup {Null})]
         /\ \A d \in Active \ {a} : handlers'[d] = handlers[d]
         /\ \A d \in Active : Paired(d, handlers'[d], hashes'[d])
         /\ \A p \in Passive \ {dying} : Matching(a, handlers'[a], p, breakers[p], callback[a])
         /\ Matching(a, handlers'[a], dying, Tail(breakers[dying]), callback[a])
<1> USE Addresses
<1>1. /\ dying \in Passive
      /\ breakers[dying] \in Seq(Callbacks)
      /\ handlers[a] \in Seq(Passive \cup {Closure})
      /\ hashes[a] \in Seq(Passive \cup Temporaries \cup {Null})
      /\ callback[a] \in Callbacks
  BY DEF PortsInv, PortTypes
<1>2. Paired(a, handlers[a], hashes[a])
  BY DEF PortsInv
<1>3. \A p \in Passive : Matching(a, handlers[a], p, breakers[p], callback[a])
  BY <1>1 DEF PortsInv
<1>4. CASE a \in EventSources
  <2> DEFINE i == SelectInSeq(hashes[a], LAMBDA h : h = dying)
  <2>1. i \in 1 .. Len(handlers[a]) /\ handlers[a][i] = dying
    BY <1>4, BreakerFinds, Zenon
  <2>2. /\ handlers' = [handlers EXCEPT ![a] = RemoveAt(handlers[a], i)]
        /\ hashes' = [hashes EXCEPT ![a] = RemoveAt(hashes[a], i)]
    BY <1>4 DEF RemoveHandler, RemoveMultiple
  <2> HIDE DEF i
  <2>3. Len(hashes[a]) = Len(handlers[a])
    BY <1>2, <1>4 DEF Paired
  <2>4. RemoveAt(handlers[a], i) \in Seq(Passive \cup {Closure})
    BY <1>1, <2>1, RemoveAtElements
  <2>5. RemoveAt(hashes[a], i) \in Seq(Passive \cup Temporaries \cup {Null})
    BY <1>1, <2>1, <2>3, RemoveAtElements
  <2>6. Paired(a, RemoveAt(handlers[a], i), RemoveAt(hashes[a], i))
    BY <1>2, <1>4, <2>1, PairedRemoveAt
  <2>7. ASSUME NEW p \in Passive \ {dying}
        PROVE  Matching(a, RemoveAt(handlers[a], i), p, breakers[p], callback[a])
    <3>1. Count(handlers[a], p) \in Nat
      BY <1>1, CountType
    <3>2. Count(RemoveAt(handlers[a], i), p) = Count(handlers[a], p)
      BY <1>1, <2>1, <3>1, CountRemoveAt
    <3> QED BY <1>3, <1>4, <3>2 DEF Matching
  <2>8. Matching(a, RemoveAt(handlers[a], i), dying, Tail(breakers[dying]), callback[a])
    <3>1. Count(RemoveAt(handlers[a], i), dying) = Count(handlers[a], dying) - 1
      BY <1>1, <2>1, CountRemoveAt
    <3>2. Count(Tail(breakers[dying]), callback[a]) = Count(breakers[dying], callback[a]) - 1
      BY <1>1, CountTail
    <3> QED BY <1>1, <1>3, <1>4, <3>1, <3>2 DEF Matching
  <2>9. /\ handlers'[a] = RemoveAt(handlers[a], i) /\ hashes'[a] = RemoveAt(hashes[a], i)
        /\ \A d \in Active \ {a} : handlers'[d] = handlers[d] /\ hashes'[d] = hashes[d]
    BY <2>2 DEF PortsInv, PortTypes
  <2>10. /\ handlers' \in [Active -> Seq(Passive \cup {Closure})]
         /\ hashes' \in [Active -> Seq(Passive \cup Temporaries \cup {Null})]
    BY <2>2, <2>4, <2>5 DEF PortsInv, PortTypes
  <2>11. \A d \in Active : Paired(d, handlers'[d], hashes'[d])
    BY <2>6, <2>9 DEF PortsInv
  <2> QED BY <2>7, <2>8, <2>9, <2>10, <2>11
<1>5. CASE a \notin EventSources
  <2> DEFINE hs == IF hashes[a] = <<dying>> THEN <<>> ELSE handlers[a]
  <2>1. handlers' = [handlers EXCEPT ![a] = hs] /\ hashes' = hashes
    BY <1>5 DEF RemoveHandler, RemoveSingle
  <2>2. <<>> \in Seq(Passive \cup {Closure}) /\ <<>> \in Seq(Peers(a) \cup {Closure}) /\ Len(<<>>) = 0
    OBVIOUS
  <2>3. hs \in Seq(Passive \cup {Closure})
    BY <1>1, <2>2
  <2>4. Paired(a, hs, hashes[a])
    <3>1. Paired(a, <<>>, hashes[a])
      BY <1>2, <1>5, <2>2 DEF Paired
    <3> QED BY <1>2, <3>1
  <2>5. \A p : Contains(hs, p) => Contains(handlers[a], p)
    BY DEF Contains
  <2>6. ~Contains(hs, dying)
    <3> SUFFICES ASSUME Contains(hs, dying) PROVE FALSE
      OBVIOUS
    <3>1. PICK j \in 1 .. Len(hs) : hs[j] = dying
      BY DEF Contains
    <3>2. j = 1 /\ hs[1] = dying /\ Len(hashes[a]) = 1
      BY <1>5, <2>3, <2>4, <3>1 DEF Paired
    <3>3. hashes[a][1] = dying
      BY <1>1, <2>4, <3>1, <3>2 DEF Paired
    <3>4. hashes[a] = <<dying>>
      BY <1>1, <3>2, <3>3
    <3> QED BY <3>1, <3>4
  <2> HIDE DEF hs
  <2>7. /\ \A p \in Passive : Matching(a, hs, p, breakers[p], callback[a])
        /\ Matching(a, hs, dying, Tail(breakers[dying]), callback[a])
    BY <1>3, <1>5, <2>5, <2>6 DEF Matching
  <2>8. handlers'[a] = hs /\ \A d \in Active \ {a} : handlers'[d] = handlers[d]
    BY <2>1 DEF PortsInv, PortTypes
  <2>9. \A d \in Active : Paired(d, handlers'[d], hashes'[d])
    BY <2>1, <2>4, <2>8 DEF PortsInv
  <2>10. /\ handlers' \in [Active -> Seq(Passive \cup {Closure})]
         /\ hashes' \in [Active -> Seq(Passive \cup Temporaries \cup {Null})]
    BY <2>1, <2>3 DEF PortsInv, PortTypes
  <2> QED BY <2>7, <2>8, <2>9, <2>10
<1> QED BY <1>4, <1>5

\* One breaker is called by the destructor of a passive port.
LEMMA CallBreakerPreserves ==
  ASSUME Separate, PortsInv, CallBreaker
  PROVE  PortsInv'
<1> USE Addresses
<1> DEFINE c == Head(breakers[dying])
<1>1. /\ dying \in Passive /\ dying # Null /\ breakers[dying] # <<>>
      /\ breakers[dying] \in Seq(Callbacks) /\ c \in Callbacks
      /\ Tail(breakers[dying]) \in Seq(Callbacks)
  BY DEF CallBreaker, PortsInv, PortTypes
<1>2. /\ breakers' = [breakers EXCEPT ![dying] = Tail(breakers[dying])]
      /\ UNCHANGED <<alive, callback, bound, dying>>
  BY DEF CallBreaker
<1>3. /\ breakers' \in [Passive -> Seq(Callbacks)]
      /\ breakers'[dying] = Tail(breakers[dying])
      /\ \A p \in Passive \ {dying} : breakers'[p] = breakers[p]
  BY <1>1, <1>2 DEF PortsInv, PortTypes
<1>4. ASSUME NEW d \in Active, callback[d] # Null, callback[d] # c, NEW p \in Passive
      PROVE  Matching(d, handlers[d], p, breakers'[p], callback[d])
  <2>1. Matching(d, handlers[d], p, breakers[p], callback[d]) /\ breakers[p] \in Seq(Callbacks)
    BY <1>4 DEF PortsInv, PortTypes
  <2>2. CASE p = dying
    <3>1. Matching(d, handlers[d], p, Tail(breakers[p]), callback[d])
      BY <1>1, <1>4, <2>1, <2>2, MatchingOther
    <3> QED BY <1>3, <2>2, <3>1, Zenon
  <2>3. CASE p # dying
    BY <1>3, <2>1, <2>3
  <2> QED BY <2>2, <2>3
<1>5. \A p \in Passive : breakers'[p] # <<>> => p \in alive'
  BY <1>1, <1>2, <1>3 DEF PortsInv
<1>6. (dying # Null => dying \in alive)'
  BY <1>2 DEF PortsInv
<1>7. CASE Locked(c)
  <2>1. PICK a \in Active : callback[a] = c
    BY <1>7 DEF Locked
  <2>2. bound[c] = a
    BY <1>1, <2>1 DEF PortsInv, Owned
  <2>3. RemoveHandler(a, dying)
    BY <1>7, <2>2 DEF CallBreaker
  <2>4. /\ handlers' \in [Active -> Seq(Passive \cup {Closure})]
        /\ hashes' \in [Active -> Seq(Passive \cup Temporaries \cup {Null})]
        /\ \A d \in Active \ {a} : handlers'[d] = handlers[d]
        /\ \A d \in Active : Paired(d, handlers'[d], hashes'[d])
        /\ \A p \in Passive \ {dying} : Matching(a, handlers'[a], p, breakers[p], callback[a])
        /\ Matching(a, handlers'[a], dying, Tail(breakers[dying]), callback[a])
    BY <1>1, <2>1, <2>3, RemoveHandlerPreserves
  <2>5. PortTypes'
    BY <1>2, <1>3, <2>4 DEF PortsInv, PortTypes
  <2>6. \A d \in Active : Owned(d)'
    BY <1>1, <1>2, <2>1, <2>4, Zenon DEF Owned, PortsInv
  <2>7. ASSUME NEW d \in Active, NEW p \in Passive, callback'[d] # Null
        PROVE  Matching(d, handlers'[d], p, breakers'[p], callback'[d])
    <3>1. CASE d = a
      BY <1>2, <1>3, <2>4, <3>1
    <3>2. CASE d # a
      <4>1. callback[d] # c /\ callback[d] # Null
        BY <1>2, <2>1, <2>7, <3>2, CallbackOfOne
      <4> QED BY <1>2, <1>4, <2>4, <3>2, <4>1, Zenon
    <3> QED BY <3>1, <3>2
  <2> QED BY <1>5, <1>6, <2>4, <2>5, <2>6, <2>7 DEF PortsInv
<1>8. CASE ~Locked(c)
  <2>1. handlers' = handlers /\ hashes' = hashes
    BY <1>8 DEF CallBreaker
  <2>2. PortTypes'
    BY <1>2, <1>3, <2>1 DEF PortsInv, PortTypes
  <2>3. \A d \in Active : Owned(d)' /\ Paired(d, handlers'[d], hashes'[d])
    BY <1>2, <2>1 DEF Owned, PortsInv
  <2>4. \A d \in Active, p \in Passive :
          callback'[d] # Null => Matching(d, handlers'[d], p, breakers'[p], callback'[d])
    BY <1>2, <1>4, <1>8, <2>1 DEF Locked
  <2> QED BY <1>5, <1>6, <2>2, <2>3, <2>4, Zenon DEF PortsInv
<1> QED BY <1>7, <1>8

\* No operation of a port breaks the invariant.
LEMMA NextPreserves ==
  ASSUME Separate, PortsInv, [Next]_vars
  PROVE  PortsInv'
<1>1. ASSUME NEW a \in Active, NEW c \in Callbacks, NewActive(a, c) PROVE PortsInv'
  BY <1>1, NewActivePreserves
<1>2. ASSUME NEW a \in EventSources, NEW b \in EventSources, MoveActive(a, b) PROVE PortsInv'
  BY <1>2, MoveActivePreserves DEF Active
<1>3. ASSUME NEW a \in StateSinks, NEW b \in StateSinks, MoveActive(a, b) PROVE PortsInv'
  BY <1>3, MoveActivePreserves, Addresses DEF Active
<1>4. ASSUME NEW a \in Active, DestroyActive(a) PROVE PortsInv'
  BY <1>4, DestroyActivePreserves
<1>5. ASSUME NEW a \in Active, NEW p \in Peers(a), Connect(a, p) PROVE PortsInv'
  BY <1>5, ConnectPreserves
<1>6. ASSUME NEW a \in Active, NEW t \in Temporaries, ConnectClosure(a, t) PROVE PortsInv'
  BY <1>6, ConnectClosurePreserves
<1>7. ASSUME NEW p \in Passive, NewPassive(p) \/ BeginDestroy(p) PROVE PortsInv'
  BY <1>7, PassivePreserves DEF NewPassive, BeginDestroy
<1>8. ASSUME NEW p \in Passive, NEW q \in Passive, MovePassive(p, q) PROVE PortsInv'
  BY <1>8, PassivePreserves DEF MovePassive
<1>9. CASE CallBreaker
  BY <1>9, CallBreakerPreserves
<1>10. CASE EndDestroy
  BY <1>10, PassivePreserves DEF EndDestroy
<1>11. CASE UNCHANGED vars
  BY <1>11, PassivePreserves DEF vars
<1> QED BY <1>1, <1>2, <1>3, <1>4, <1>5, <1>6, <1>7, <1>8, <1>9, <1>10, <1>11 DEF Next, Passive

\* The invariant holds always.
LEMMA PortsInvariant == Separate /\ Spec => []PortsInv
<1> SUFFICES ASSUME Separate PROVE Spec => []PortsInv
  BY DEF Separate
<1>1. PortsInv /\ [Next]_vars => PortsInv'
  BY NextPreserves
<1> QED BY <1>1, InitPorts, PTL DEF Spec
--------------------------------------------------------------------------------
(***************************************************************************)
(* Every variable keeps its type, in particular the two vectors of a       *)
(* multiple_handler_policy their common length, also while remove_handler  *)
(* erases from both.                                                       *)
(***************************************************************************)
THEOREM PortsTypeCorrect == Separate /\ Spec => []TypeOK
<1>1. PortsInv => TypeOK
  BY Zenon DEF PortsInv, PortTypes, Paired, TypeOK
<1> QED BY <1>1, PortsInvariant, PTL

(***************************************************************************)
(* fire and get never call a port that does not exist: a handler that      *)
(* refers to a port is matched by a breaker of that port, and the          *)
(* destructor returns only after all breakers were called.                 *)
(***************************************************************************)
THEOREM NoHandlerDangles == Separate /\ Spec => []NoDangling
<1>1. PortsInv => NoDangling
  <2> SUFFICES ASSUME PortsInv, NEW a \in Active, NEW i \in DOMAIN handlers[a]
               PROVE  handlers[a][i] \in alive \cup {Closure}
    BY DEF NoDangling, Calls, fire, get
  <2>1. handlers[a] \in Seq(Passive \cup {Closure}) /\ i \in 1 .. Len(handlers[a])
    BY DEF PortsInv, PortTypes
  <2>2. CASE handlers[a][i] = Closure
    BY <2>2
  <2>3. CASE handlers[a][i] # Closure
    <3> DEFINE p == handlers[a][i]
    <3>1. p \in Passive /\ handlers[a] # <<>> /\ Contains(handlers[a], p)
      BY <2>1, <2>3 DEF Contains
    <3> HIDE DEF p
    <3>2. callback[a] # Null /\ breakers[p] \in Seq(Callbacks)
      BY <3>1 DEF PortsInv, PortTypes, Owned
    <3>3. Matching(a, handlers[a], p, breakers[p], callback[a])
      BY <3>1, <3>2 DEF PortsInv
    <3>4. Contains(breakers[p], callback[a])
      <4>1. Count(handlers[a], p) # 0
        BY <2>1, <3>1, CountType
      <4> QED BY <3>1, <3>2, <3>3, <4>1, CountType DEF Matching
    <3>5. breakers[p] # <<>>
      BY <3>4 DEF Contains
    <3> QED BY <3>1, <3>5 DEF PortsInv, p
  <2> QED BY <2>2, <2>3
<1> QED BY <1>1, PortsInvariant, PTL

(***************************************************************************)
(* The asserts of multiple_handler_policy::remove_handler hold: a breaker  *)
(* that can be locked finds the handler it has to remove, however often    *)
(* the two ports were connected and wherever the active one was moved.     *)
(***************************************************************************)
THEOREM BreakersFindHandlers == Separate /\ Spec => []BreakerFindsHandler
<1> SUFFICES ASSUME Separate PROVE Spec => []BreakerFindsHandler
  BY DEF Separate
<1>1. PortsInv => BreakerFindsHandler
  <2> SUFFICES ASSUME PortsInv, dying # Null, breakers[dying] # <<>>,
                      Locked(Head(breakers[dying])), bound[Head(breakers[dying])] \in EventSources
               PROVE  Contains(hashes[bound[Head(breakers[dying])]], dying)
    BY DEF BreakerFindsHandler
  <2>1. PICK a \in Active : callback[a] = Head(breakers[dying])
    BY DEF Locked
  <2>2. callback[a] # Null
    <3>1. breakers[dying] \in Seq(Callbacks)
      BY DEF PortsInv, PortTypes
    <3> QED BY <2>1, <3>1, Addresses
  <2>3. bound[Head(breakers[dying])] = a
    BY <2>1, <2>2 DEF PortsInv, Owned
  <2> QED BY <2>1, <2>3, BreakerFinds, Zenon
<1> QED BY <1>1, PortsInvariant, PTL
--------------------------------------------------------------------------------
(* Pure ports implement the promise of PortConnections.                    *)

\* What an active port is connected to, as PortConnections sees it.
Links == [a \in Active |-> Without(handlers[a], dying)]

\* The definitions of PortConnections, for the state of Ports.
LEMMA Promise ==
  /\ P!LinkInit <=> alive \ {dying} = {} /\ Links = [a \in Active |-> <<>>]
  /\ \A x : P!LinkNew(x) <=>
       /\ x \notin alive \ {dying}
       /\ (alive \ {dying})' = (alive \ {dying}) \cup {x}
       /\ Links' = Links
  /\ \A a, x : P!LinkConnect(a, x) <=>
       /\ a \in alive \ {dying} /\ x \in (alive \ {dying}) \cup {Closure}
       /\ Links' = [Links EXCEPT ![a] = IF a \in EventSources THEN Append(Links[a], x) ELSE <<x>>]
       /\ (alive \ {dying})' = alive \ {dying}
  /\ \A a, b : P!LinkMove(a, b) <=>
       /\ a \in alive \ {dying} /\ b \notin alive \ {dying}
       /\ (alive \ {dying})' = (alive \ {dying}) \cup {b}
       /\ Links' = [Links EXCEPT ![a] = <<>>, ![b] = Links[a]]
  /\ \A x : P!LinkDestroy(x) <=>
       /\ x \in alive \ {dying}
       /\ (alive \ {dying})' = (alive \ {dying}) \ {x}
       /\ Links' = [a \in Active |-> IF a = x THEN <<>> ELSE Without(Links[a], x)]
<1>1. \A s, x : P!Without(s, x) = Without(s, x)
  BY Zenon DEF P!Without, Without
<1>2. P!Active = Active
  BY Zenon DEF P!Active, Active
<1>3. P!LinkInit <=> alive \ {dying} = {} /\ Links = [a \in Active |-> <<>>]
  BY <1>2, Zenon DEF P!LinkInit, Links
<1>4. ASSUME NEW x
      PROVE  P!LinkNew(x) <=>
               /\ x \notin alive \ {dying}
               /\ (alive \ {dying})' = (alive \ {dying}) \cup {x}
               /\ Links' = Links
  BY Zenon DEF P!LinkNew, Links
<1>5. ASSUME NEW a, NEW x
      PROVE  P!LinkConnect(a, x) <=>
               /\ a \in alive \ {dying} /\ x \in (alive \ {dying}) \cup {Closure}
               /\ Links' = [Links EXCEPT ![a] = IF a \in EventSources THEN Append(Links[a], x) ELSE <<x>>]
               /\ (alive \ {dying})' = alive \ {dying}
  BY Zenon DEF P!LinkConnect, P!Extended, Links
<1>6. ASSUME NEW a, NEW b
      PROVE  P!LinkMove(a, b) <=>
               /\ a \in alive \ {dying} /\ b \notin alive \ {dying}
               /\ (alive \ {dying})' = (alive \ {dying}) \cup {b}
               /\ Links' = [Links EXCEPT ![a] = <<>>, ![b] = Links[a]]
  BY Zenon DEF P!LinkMove, Links
<1>7. ASSUME NEW x
      PROVE  P!LinkDestroy(x) <=>
               /\ x \in alive \ {dying}
               /\ (alive \ {dying})' = (alive \ {dying}) \ {x}
               /\ Links' = [a \in Active |-> IF a = x THEN <<>> ELSE Without(Links[a], x)]
  BY <1>1, <1>2, Zenon DEF P!LinkDestroy, Links
<1> QED BY <1>3, <1>4, <1>5, <1>6, <1>7, Zenon

\* While no destructor runs these are its handlers.
LEMMA QuietLinks == PortTypes /\ dying = Null => Links = handlers /\ alive \ {dying} = alive
<1> SUFFICES ASSUME PortTypes, dying = Null PROVE Links = handlers /\ alive \ {dying} = alive
  OBVIOUS
<1> USE Addresses
<1>1. ASSUME NEW a \in Active PROVE Without(handlers[a], Null) = handlers[a]
  <2>1. handlers[a] \in Seq(Passive \cup {Closure}) /\ Null \notin Passive \cup {Closure}
    BY AddressAssumption DEF PortTypes
  <2>2. ~Contains(handlers[a], Null)
    BY <2>1 DEF Contains
  <2> QED BY <2>1, <2>2, WithoutNone
<1>2. Links = handlers
  BY <1>1 DEF Links, PortTypes
<1>3. Null \notin alive
  BY DEF PortTypes
<1> QED BY <1>2, <1>3

\* A breaker that is called changes no connection that is left.
LEMMA CallBreakerStutters ==
  ASSUME Separate, PortsInv, CallBreaker
  PROVE  Links' = Links /\ UNCHANGED <<alive, dying>>
<1> USE Addresses
<1> DEFINE c == Head(breakers[dying])
<1>1. /\ dying \in Passive /\ dying # Null /\ breakers[dying] # <<>>
      /\ breakers[dying] \in Seq(Callbacks) /\ c \in Callbacks
  BY DEF CallBreaker, PortsInv, PortTypes
<1>2. UNCHANGED <<alive, dying>>
  BY DEF CallBreaker
<1>3. CASE Locked(c)
  <2>1. PICK a \in Active : callback[a] = c
    BY <1>3 DEF Locked
  <2>2. bound[c] = a
    BY <1>1, <2>1 DEF PortsInv, Owned
  <2>3. RemoveHandler(a, dying)
    BY <1>3, <2>2 DEF CallBreaker
  <2>4. /\ handlers[a] \in Seq(Passive \cup {Closure})
        /\ Paired(a, handlers[a], hashes[a])
    BY DEF PortsInv, PortTypes
  <2>5. \A d \in Active \ {a} : handlers'[d] = handlers[d]
    BY <1>1, <2>1, <2>3, RemoveHandlerPreserves
  <2>6. Without(handlers'[a], dying) = Without(handlers[a], dying)
    <3>1. CASE a \in EventSources
      <4> DEFINE i == SelectInSeq(hashes[a], LAMBDA h : h = dying)
      <4>1. i \in 1 .. Len(handlers[a]) /\ handlers[a][i] = dying
        BY <1>1, <2>1, <3>1, BreakerFinds, Zenon
      <4>2. handlers' = [handlers EXCEPT ![a] = RemoveAt(handlers[a], i)]
        BY <2>3, <3>1 DEF RemoveHandler, RemoveMultiple
      <4> HIDE DEF i
      <4>3. handlers'[a] = RemoveAt(handlers[a], i)
        BY <4>2 DEF PortsInv, PortTypes
      <4> QED BY <2>4, <4>1, <4>3, WithoutRemoveAt
    <3>2. CASE a \notin EventSources /\ hashes[a] = <<dying>> /\ handlers[a] # <<>>
      <4>1. Len(handlers[a]) = 1
        BY <2>4, <3>2 DEF Paired
      <4>2. handlers[a][1] = dying
        <5>1. hashes[a][1] = dying /\ dying \notin Temporaries
          BY <1>1, <3>2 DEF Separate
        <5> QED BY <2>4, <4>1, <5>1 DEF Paired
      <4>3. /\ RemoveAt(handlers[a], 1) \in Seq(Passive \cup {Closure})
            /\ Len(RemoveAt(handlers[a], 1)) = 0
        <5>1. 1 \in 1 .. Len(handlers[a]) /\ Len(handlers[a]) - 1 = 0
          BY <4>1
        <5> QED BY <2>4, <5>1, RemoveAtElements, Zenon
      <4>4. RemoveAt(handlers[a], 1) = <<>>
        BY <4>3
      <4>5. handlers'[a] = <<>>
        BY <2>3, <3>2 DEF RemoveHandler, RemoveSingle, PortsInv, PortTypes
      <4> QED BY <2>4, <4>1, <4>2, <4>4, <4>5, WithoutRemoveAt
    <3>3. CASE a \notin EventSources /\ (hashes[a] # <<dying>> \/ handlers[a] = <<>>)
      BY <2>3, <3>3 DEF RemoveHandler, RemoveSingle, PortsInv, PortTypes
    <3> QED BY <3>1, <3>2, <3>3
  <2>7. \A d \in Active : Without(handlers'[d], dying') = Without(handlers[d], dying)
    BY <1>2, <2>5, <2>6
  <2> QED BY <1>2, <2>7, Zenon DEF Links
<1>4. CASE ~Locked(c)
  <2>1. handlers' = handlers
    BY <1>4 DEF CallBreaker
  <2> QED BY <1>2, <2>1, Zenon DEF Links
<1> QED BY <1>3, <1>4

\* When the last breaker was called no handler refers to the dying port any more.
LEMMA EndDestroyStutters ==
  ASSUME PortsInv, PortTypes', EndDestroy
  PROVE  Links' = Links /\ (alive \ {dying})' = alive \ {dying}
<1> USE Addresses
<1>1. /\ dying \in Passive /\ breakers[dying] = <<>> /\ dying' = Null
      /\ alive' = alive \ {dying} /\ handlers' = handlers
  BY DEF EndDestroy, active, PortsInv, PortTypes
<1>2. Links' = handlers' /\ (alive \ {dying})' = alive'
  <2>1. (PortTypes /\ dying = Null => Links = handlers /\ alive \ {dying} = alive)'
    BY QuietLinks, PTL
  <2> QED BY <1>1, <2>1
<1>3. ASSUME NEW a \in Active PROVE Without(handlers[a], dying) = handlers[a]
  <2>1. handlers[a] \in Seq(Passive \cup {Closure})
    BY DEF PortsInv, PortTypes
  <2>2. CASE callback[a] = Null
    <3>1. handlers[a] = <<>>
      BY <2>2 DEF PortsInv, Owned
    <3>2. ~Contains(handlers[a], dying)
      BY <3>1 DEF Contains
    <3> QED BY <2>1, <3>2, WithoutNone
  <2>3. CASE callback[a] # Null
    <3>1. Matching(a, handlers[a], dying, <<>>, callback[a])
      BY <1>1, <2>3 DEF PortsInv
    <3>2. ~Contains(<<>>, callback[a]) /\ <<>> \in Seq(Callbacks)
      BY DEF Contains
    <3>3. Count(<<>>, callback[a]) = 0
      BY <3>2, CountType, Zenon
    <3>4. ~Contains(handlers[a], dying)
      BY <2>1, <3>1, <3>2, <3>3, CountType DEF Matching
    <3> QED BY <2>1, <3>4, WithoutNone
  <2> QED BY <2>2, <2>3
<1>4. Links = handlers
  BY <1>3 DEF Links, PortsInv, PortTypes
<1> QED BY <1>1, <1>2, <1>4, Zenon

\* The other steps are steps of PortConnections; all but one leave dying alone.
LEMMA PortStep ==
  ASSUME Separate, PortsInv, PortsInv', [Next]_vars
  PROVE  P!LinkNext \/ (Links' = Links /\ (alive \ {dying})' = alive \ {dying})
<1> USE Addresses
<1> DEFINE Stutter == Links' = Links /\ (alive \ {dying})' = alive \ {dying}
           A == alive \ {dying}
<1>1. PortTypes /\ PortTypes'
  BY DEF PortsInv
<1>2. dying = Null => Links = handlers /\ A = alive
  BY <1>1, QuietLinks
<1>3. dying' = Null => Links' = handlers' /\ A' = alive'
  <2>1. (PortTypes /\ dying = Null => Links = handlers /\ alive \ {dying} = alive)'
    BY QuietLinks, PTL
  <2> QED BY <1>1, <2>1
<1>4. ASSUME NEW x \in Active \cup Passive, dying = Null, x \notin alive,
             alive' = alive \cup {x}, UNCHANGED <<handlers, dying>>
      PROVE  P!LinkNext
  <2>1. P!LinkNew(x)
    BY <1>2, <1>3, <1>4, Promise
  <2> QED BY <2>1, Zenon DEF P!LinkNext, P!Active, P!Passive, Active, Passive
<1>5. ASSUME NEW a \in Active, NEW c \in Callbacks, NewActive(a, c) PROVE P!LinkNext
  BY <1>4, <1>5, Zenon DEF NewActive
<1>6. ASSUME NEW p \in Passive, NewPassive(p) PROVE P!LinkNext
  BY <1>4, <1>6, Zenon DEF NewPassive, active
<1>7. ASSUME NEW p \in Passive, NEW q \in Passive, MovePassive(p, q) PROVE P!LinkNext
  BY <1>4, <1>7, Zenon DEF MovePassive, active
<1>8. ASSUME NEW a \in Active, NEW b \in Active, MoveActive(a, b) PROVE P!LinkMove(a, b)
  <2>1. /\ dying = Null /\ dying' = Null /\ a \in alive /\ b \notin alive /\ a # b
        /\ alive' = alive \cup {b}
        /\ handlers' = [handlers EXCEPT ![b] = handlers[a], ![a] = <<>>]
    BY <1>8 DEF MoveActive
  <2>2. handlers' = [handlers EXCEPT ![a] = <<>>, ![b] = handlers[a]]
    BY <1>1, <2>1, Zenon DEF PortTypes
  <2> QED BY <1>2, <1>3, <2>1, <2>2, Promise, Zenon
<1>9. ASSUME NEW a \in Active, DestroyActive(a) PROVE P!LinkNext
  <2>1. /\ dying = Null /\ dying' = Null /\ a \in alive /\ alive' = alive \ {a}
        /\ handlers' = [handlers EXCEPT ![a] = <<>>]
    BY <1>9 DEF DestroyActive
  <2>2. ASSUME NEW d \in Active PROVE Without(handlers[d], a) = handlers[d]
    <3>1. handlers[d] \in Seq(Passive \cup {Closure}) /\ a \notin Passive \cup {Closure}
      BY <1>1, AddressAssumption DEF PortTypes
    <3>2. ~Contains(handlers[d], a)
      BY <3>1 DEF Contains
    <3> QED BY <3>1, <3>2, WithoutNone
  <2>3. handlers' = [d \in Active |-> IF d = a THEN <<>> ELSE Without(handlers[d], a)]
    BY <1>1, <2>1, <2>2, Zenon DEF PortTypes
  <2>4. P!LinkDestroy(a)
    <3>1. Links = handlers /\ Links' = handlers' /\ A = alive /\ A' = alive'
      BY <1>2, <1>3, <2>1, Zenon
    <3>2. Links' = [d \in Active |-> IF d = a THEN <<>> ELSE Without(Links[d], a)]
      BY <2>3, <3>1, Zenon
    <3>3. a \in A /\ A' = A \ {a}
      BY <2>1, <3>1, Zenon
    <3> QED BY <3>2, <3>3, Promise, Zenon
  <2> QED BY <2>4, Zenon DEF P!LinkNext, P!Active, P!Passive, Active, Passive
<1>10. ASSUME NEW a \in Active, NEW x \in Peers(a) \cup {Closure}, NEW h,
              CanConnect(a), x \in alive \cup {Closure}, AddHandler(a, x, h), UNCHANGED <<alive, dying>>
       PROVE  P!LinkNext
  <2>1. dying = Null /\ dying' = Null /\ a \in alive /\ alive' = alive
    BY <1>10 DEF CanConnect
  <2>2. handlers' = [handlers EXCEPT ![a] = IF a \in EventSources THEN Append(handlers[a], x) ELSE <<x>>]
    BY <1>10, Zenon DEF AddHandler, AddMultiple, AddSingle
  <2>3. P!LinkConnect(a, x)
    BY <1>2, <1>3, <1>10, <2>1, <2>2, Promise, Zenon
  <2> QED BY <2>3, Zenon DEF P!LinkNext, P!Active, P!Peers, Active, Peers
<1>11. ASSUME NEW a \in Active, NEW p \in Peers(a), Connect(a, p) PROVE P!LinkNext
  BY <1>10, <1>11, Zenon DEF Connect
<1>12. ASSUME NEW a \in Active, NEW t \in Temporaries, ConnectClosure(a, t) PROVE P!LinkNext
  BY <1>10, <1>12, Zenon DEF ConnectClosure
<1>13. ASSUME NEW p \in Passive, BeginDestroy(p) PROVE P!LinkNext
  <2>1. /\ dying = Null /\ dying' = p /\ p \in alive /\ alive' = alive /\ handlers' = handlers
    BY <1>13 DEF BeginDestroy, active
  <2>2. Links' = [a \in Active |-> Without(handlers[a], p)]
    BY <2>1, Zenon DEF Links
  <2>3. \A a \in Active : a # p
    BY AddressAssumption
  <2>4. Links' = [a \in Active |-> IF a = p THEN <<>> ELSE Without(handlers[a], p)]
    BY <2>2, <2>3
  <2>5. P!LinkDestroy(p)
    <3>1. Links = handlers /\ A = alive
      BY <1>2, <2>1, Zenon
    <3>2. Links' = [a \in Active |-> IF a = p THEN <<>> ELSE Without(Links[a], p)]
      BY <2>4, <3>1, Zenon
    <3>3. p \in A /\ A' = A \ {p}
      BY <2>1, <3>1, Zenon
    <3> QED BY <3>2, <3>3, Promise, Zenon
  <2> QED BY <2>5, Zenon DEF P!LinkNext, P!Active, P!Passive, Active, Passive
<1>14. CASE CallBreaker
  BY <1>14, CallBreakerStutters
<1>15. CASE EndDestroy
  BY <1>1, <1>15, EndDestroyStutters
<1>16. CASE UNCHANGED vars
  BY <1>16, Zenon DEF vars, active, Links
<1>17. ASSUME NEW a \in EventSources, NEW b \in EventSources, MoveActive(a, b) PROVE P!LinkNext
  BY <1>8, <1>17, Zenon DEF P!LinkNext, Active
<1>18. ASSUME NEW a \in StateSinks, NEW b \in StateSinks, MoveActive(a, b) PROVE P!LinkNext
  BY <1>8, <1>18, Zenon DEF P!LinkNext, Active
<1> HIDE DEF Stutter, A
<1> QED BY <1>5, <1>6, <1>7, <1>9, <1>11, <1>12, <1>13, <1>14, <1>15, <1>16, <1>17, <1>18, Zenon
        DEF Next, Passive

(***************************************************************************)
(* active_port_base, the two handler policies and the circuit breakers     *)
(* implement the promise of PortConnections: a connection ends when and    *)
(* only when one of its ports is destroyed or, at a state_sink, another    *)
(* one is made; the rest keeps its order; a moved active port takes its    *)
(* connections along.                                                      *)
(***************************************************************************)
THEOREM PortsImplementConnections == Separate /\ Spec => ImplementsConnections
<1> SUFFICES ASSUME Separate PROVE Spec => ImplementsConnections
  BY DEF Separate
<1>1. Init => P!LinkInit
  <2> SUFFICES ASSUME Init PROVE P!LinkInit
    OBVIOUS
  <2>1. Links = handlers /\ alive \ {dying} = alive
    BY InitPorts, QuietLinks DEF Init, PortsInv
  <2> QED BY <2>1, Promise, Zenon DEF Init
<1>2. PortsInv /\ PortsInv' /\ [Next]_vars => [P!LinkNext]_P!linkVars
  <2> SUFFICES ASSUME PortsInv, PortsInv', [Next]_vars
               PROVE  P!LinkNext \/ P!linkVars' = P!linkVars
    OBVIOUS
  <2> QED BY PortStep, Zenon DEF P!linkVars, Links
<1> QED BY <1>1, <1>2, PortsInvariant, PTL DEF Spec, ImplementsConnections, P!LinkSpec
================================================================================
