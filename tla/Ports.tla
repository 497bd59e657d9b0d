--------------------------------- MODULE Ports ---------------------------------
(***************************************************************************)
(* event_source, event_sink, state_sink and state_source with the circuit  *)
(* breakers of active_port_base.  A port is known by its address, and an   *)
(* address is used again after its port was destroyed.                     *)
(*                                                                         *)
(* An active port stores, beside every handler, the hash of the address of *)
(* the object at the end of the connection.  It owns a callback that       *)
(* removes a handler by its hash; a passive port keeps weak references to  *)
(* the callbacks of the ports connected to it and calls each of them when  *)
(* it is destroyed.  As with NDEBUG, the asserts are not guards.           *)
(***************************************************************************)
EXTENDS SequencesExt, SequenceRemoval

CONSTANTS
  EventSources, StateSinks, EventSinks, StateSources,
  Closure,      \* a handler that refers to no port: a lambda that was moved in
  Temporaries,  \* addresses that connectables have while they are being connected
  Callbacks,    \* shared std::functions: bounds the active ports ever constructed
  Null,         \* no callback, no port, no hash
  MaxHandlers   \* bound: connections per event_source and per passive port

Active == EventSources \cup StateSinks
Passive == EventSinks \cup StateSources
Peers(a) == IF a \in EventSources THEN EventSinks ELSE StateSources

ASSUME AddressAssumption ==
  /\ EventSources \cap StateSinks = {}
  /\ EventSinks \cap StateSources = {}
  /\ Active \cap Passive = {}
  /\ Closure \notin Active \cup Passive
  /\ Null \notin Passive \cup Active \cup Callbacks \cup Temporaries \cup {Closure}
  /\ MaxHandlers \in Nat \ {0}

VARIABLES
  alive,      \* addresses of constructed ports
  handlers,   \* storage.handlers of an active port: what each one calls
  hashes,     \* storage.handler_hashes, or <<handler_hash>> of a state_sink
  callback,   \* the callback an active port owns, Null once it was moved from
  bound,      \* the "this" that each callback captures
  breakers,   \* connection_breakers of a passive port
  dying       \* the passive port whose destructor runs, or Null

active == <<handlers, hashes, callback, bound>>
vars == <<alive, active, breakers, dying>>

\* hashes of a port without handlers: the state_sink starts with hash 0.
NoHashes(a) == IF a \in EventSources THEN <<>> ELSE <<Null>>

Init ==
  /\ alive = {}
  /\ handlers = [a \in Active |-> <<>>]
  /\ hashes = [a \in Active |-> NoHashes(a)]
  /\ callback = [a \in Active |-> Null]
  /\ bound = [c \in Callbacks |-> Null]
  /\ breakers = [p \in Passive |-> <<>>]
  /\ dying = Null
--------------------------------------------------------------------------------
(* Construction and destruction of active ports.                           *)

\* A callback that no weak reference can mistake for an older one.
Unused(c) ==
  /\ \A a \in Active : callback[a] # c
  /\ \A p \in Passive : ~Contains(breakers[p], c)

NewActive(a, c) ==
  /\ dying = Null /\ a \notin alive /\ Unused(c)
  /\ alive' = alive \cup {a}
  /\ callback' = [callback EXCEPT ![a] = c]
  /\ bound' = [bound EXCEPT ![c] = a]
  /\ UNCHANGED <<handlers, hashes, breakers, dying>>

\* active_port_base(active_port_base&&), whose argument has not been moved from.
MoveActive(a, b) ==
  /\ dying = Null /\ a \in alive /\ b \notin alive /\ callback[a] # Null
  /\ alive' = alive \cup {b}
  /\ handlers' = [handlers EXCEPT ![b] = handlers[a], ![a] = <<>>]
  /\ hashes' = [hashes EXCEPT ![b] = hashes[a],
                              ![a] = IF a \in EventSources THEN <<>> ELSE @]
  /\ callback' = [callback EXCEPT ![b] = callback[a], ![a] = Null]
  /\ bound' = [bound EXCEPT ![callback[a]] = b]
  /\ UNCHANGED <<breakers, dying>>

\* The last owner of the callback goes, so that no breaker can lock it any more.
DestroyActive(a) ==
  /\ dying = Null /\ a \in alive
  /\ alive' = alive \ {a}
  /\ handlers' = [handlers EXCEPT ![a] = <<>>]
  /\ hashes' = [hashes EXCEPT ![a] = NoHashes(a)]
  /\ callback' = [callback EXCEPT ![a] = Null]
  /\ bound' = [c \in Callbacks |-> IF c = callback[a] THEN Null ELSE bound[c]]
  /\ UNCHANGED <<breakers, dying>>
--------------------------------------------------------------------------------
(* Connecting.                                                             *)

\* add_handler of multiple_handler_policy.
AddMultiple(a, target, address) ==
  /\ handlers' = [handlers EXCEPT ![a] = Append(@, target)]
  /\ hashes' = [hashes EXCEPT ![a] = Append(@, address)]

\* add_handler of single_handler_policy.
AddSingle(a, target, address) ==
  /\ handlers' = [handlers EXCEPT ![a] = <<target>>]
  /\ hashes' = [hashes EXCEPT ![a] = <<address>>]

AddHandler(a, target, address) ==
  IF a \in EventSources THEN AddMultiple(a, target, address) ELSE AddSingle(a, target, address)

CanConnect(a) ==
  /\ dying = Null /\ a \in alive /\ callback[a] # Null
  /\ Len(handlers[a]) < MaxHandlers

\* Mutant of Connect: a passive port registers each callback only once.
ConnectRegistersOnce(a, p) ==
  /\ CanConnect(a) /\ p \in alive /\ Len(breakers[p]) < MaxHandlers
  /\ AddHandler(a, p, p)
  /\ breakers' = [breakers EXCEPT ![p] =
       IF Contains(@, callback[a]) THEN @ ELSE Append(@, callback[a])]
  /\ UNCHANGED <<alive, callback, bound, dying>>

\* connect with a connection that ends in a port: get_sink or get_source finds it.
Connect(a, p) ==
  /\ CanConnect(a) /\ p \in alive /\ Len(breakers[p]) < MaxHandlers
  /\ AddHandler(a, p, p)
  /\ breakers' = [breakers EXCEPT ![p] = Append(@, callback[a])]
  /\ UNCHANGED <<alive, callback, bound, dying>>

\* connect with a connectable that is no port and cannot register a callback.  It is
\* moved into the handler, but the hash is that of the address it is moved from.
ConnectClosure(a, t) ==
  /\ CanConnect(a) /\ t \notin alive
  /\ AddHandler(a, Closure, t)
  /\ UNCHANGED <<alive, callback, bound, breakers, dying>>
--------------------------------------------------------------------------------
(* Passive ports.                                                          *)

NewPassive(p) ==
  /\ dying = Null /\ p \notin alive
  /\ alive' = alive \cup {p}
  /\ UNCHANGED <<active, breakers, dying>>

\* Mutant of MovePassive: the breakers move too, although the handlers refer to p.
MovePassiveWithBreakers(p, q) ==
  /\ dying = Null /\ p \in alive /\ q \notin alive
  /\ alive' = alive \cup {q}
  /\ breakers' = [breakers EXCEPT ![q] = breakers[p], ![p] = <<>>]
  /\ UNCHANGED <<active, dying>>

\* Move construction.  Only the function moves, which handlers do not refer to: the
\* connections stay with the moved-from port.  Move assignment swaps the functions
\* of two ports and changes nothing here.
MovePassive(p, q) ==
  /\ dying = Null /\ p \in alive /\ q \notin alive
  /\ alive' = alive \cup {q}
  /\ UNCHANGED <<active, breakers, dying>>

\* The destructor begins; it calls one breaker after the other.
BeginDestroy(p) ==
  /\ dying = Null /\ p \in alive
  /\ dying' = p
  /\ UNCHANGED <<alive, active, breakers>>

\* Mutant of RemoveMultiple: the hash of a removed handler stays.
RemoveMultipleKeepsHash(a, hash) ==
  /\ handlers' = [handlers EXCEPT ![a] =
       RemoveAt(@, SelectInSeq(hashes[a], LAMBDA h : h = hash))]
  /\ UNCHANGED hashes

\* remove_handler of multiple_handler_policy: the first one with that hash.
RemoveMultiple(a, hash) ==
  LET i == SelectInSeq(hashes[a], LAMBDA h : h = hash)
  IN /\ handlers' = [handlers EXCEPT ![a] = RemoveAt(@, i)]
     /\ hashes' = [hashes EXCEPT ![a] = RemoveAt(@, i)]

\* Mutant of RemoveSingle: a state_sink is disconnected whoever calls.
RemoveSingleAlways(a, hash) ==
  /\ handlers' = [handlers EXCEPT ![a] = <<>>]
  /\ UNCHANGED hashes

\* remove_handler of single_handler_policy: a newer connection stays.
RemoveSingle(a, hash) ==
  /\ handlers' = [handlers EXCEPT ![a] = IF hashes[a] = <<hash>> THEN <<>> ELSE @]
  /\ UNCHANGED hashes

RemoveHandler(a, hash) ==
  IF a \in EventSources THEN RemoveMultiple(a, hash) ELSE RemoveSingle(a, hash)

\* A weak reference can be locked while an active port owns the callback.
Locked(c) == \E a \in Active : callback[a] = c

CallBreaker ==
  /\ dying # Null /\ breakers[dying] # <<>>
  /\ LET c == Head(breakers[dying])
     IN IF Locked(c) THEN RemoveHandler(bound[c], dying) ELSE UNCHANGED <<handlers, hashes>>
  /\ breakers' = [breakers EXCEPT ![dying] = Tail(@)]
  /\ UNCHANGED <<alive, callback, bound, dying>>

EndDestroy ==
  /\ dying # Null /\ breakers[dying] = <<>>
  /\ alive' = alive \ {dying}
  /\ dying' = Null
  /\ UNCHANGED <<active, breakers>>

\* The handlers that fire calls, in this order.
fire(a) == handlers[a]

\* The handler that get calls; it throws not_connected when there is none.
get(a) == handlers[a]

Calls(a) == IF a \in EventSources THEN fire(a) ELSE get(a)

Next ==
  \/ \E a \in Active, c \in Callbacks : NewActive(a, c)
  \/ \E a, b \in EventSources : MoveActive(a, b)
  \/ \E a, b \in StateSinks : MoveActive(a, b)
  \/ \E a \in Active : DestroyActive(a)
  \/ \E a \in Active : \E p \in Peers(a) : Connect(a, p)
  \/ \E a \in Active, t \in Temporaries : ConnectClosure(a, t)
  \/ \E p \in Passive : NewPassive(p) \/ BeginDestroy(p)
  \/ \E p, q \in EventSinks : MovePassive(p, q)
  \/ \E p, q \in StateSources : MovePassive(p, q)
  \/ CallBreaker
  \/ EndDestroy

Spec == Init /\ [][Next]_vars
--------------------------------------------------------------------------------
(* Properties.                                                             *)

(***************************************************************************)
(* Every variable has its type.  The two vectors of a                      *)
(* multiple_handler_policy always have the same length.                    *)
(***************************************************************************)
TypeOK ==
  /\ alive \subseteq Active \cup Passive
  /\ \A a \in Active :
       /\ handlers[a] \in Seq(Peers(a) \cup {Closure})
       /\ hashes[a] \in Seq(Peers(a) \cup Temporaries \cup {Null})
       /\ IF a \in EventSources THEN Len(hashes[a]) = Len(handlers[a])
                                ELSE Len(hashes[a]) = 1 /\ Len(handlers[a]) <= 1
  /\ callback \in [Active -> Callbacks \cup {Null}]
  /\ bound \in [Callbacks -> Active \cup {Null}]
  /\ breakers \in [Passive -> Seq(Callbacks)]
  /\ dying \in Passive \cup {Null}

(***************************************************************************)
(* The handlers that fire and get call hold references to the passive      *)
(* ports.  However ports are connected (twice, to several, one connection  *)
(* replacing another), moved and destroyed, at either end and in any       *)
(* order, no handler refers to a port that does not exist.  This is what   *)
(* the code does with moved ports; docs/knownpitfalls.md:6 warns of a      *)
(* dangling reference after a move, which MovedPortsDangle refutes.        *)
(***************************************************************************)
NoDangling ==
  \A a \in Active : \A i \in DOMAIN Calls(a) : Calls(a)[i] \in alive \cup {Closure}

(***************************************************************************)
(* The asserts of multiple_handler_policy::remove_handler: a breaker that  *)
(* can be locked finds the connection it has to remove.  With NDEBUG       *)
(* erase would get the end iterator otherwise.                             *)
(***************************************************************************)
BreakerFindsHandler ==
  dying # Null /\ breakers[dying] # <<>> /\ Locked(Head(breakers[dying])) =>
    LET a == bound[Head(breakers[dying])]
    IN a \in EventSources => Contains(hashes[a], dying)

(***************************************************************************)
(* The breakers implement the promise of PortConnections: destroying a     *)
(* passive port ends all its connections and no other one, and keeps the   *)
(* order of the rest; a moved active port keeps its connections, and a     *)
(* state_sink the last one it was given.  The connections end when the     *)
(* destructor begins.                                                      *)
(***************************************************************************)
P == INSTANCE PortConnections
       WITH alive <- alive \ {dying},
            links <- [a \in Active |-> Without(handlers[a], dying)]

ImplementsConnections == P!LinkSpec
================================================================================
