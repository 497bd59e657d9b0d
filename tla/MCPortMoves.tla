------------------------------ MODULE MCPortMoves ------------------------------
(***************************************************************************)
(* Ports, with a record of the connected ports that were moved: what       *)
(* docs/knownpitfalls.md says of them is compared with the code.           *)
(***************************************************************************)
EXTENDS MCPorts

VARIABLE moves  \* history: the connections of each moved port, by the address it moved from

\* The ports that x is connected to.
Partners(x) ==
  IF x \in Active THEN {p \in Passive : Contains(handlers[x], p)}
                  ELSE {a \in Active : Contains(handlers[a], x)}

\* The ports that x refers to: by its handlers, or by the callbacks it would call.
RefersTo(x) ==
  IF x \in Active THEN {p \in Passive : Contains(Calls(x), p)}
                  ELSE {bound[c] : c \in {d \in Callbacks : Locked(d) /\ Contains(breakers[x], d)}}

Recorded(x) == moves' = moves \cup {[old |-> x, partner |-> y] : y \in Partners(x)}

MovesInit == Init /\ moves = {}

MovesNext ==
  \/ \E a, b \in EventSources : MoveActive(a, b) /\ Recorded(a)
  \/ \E a, b \in StateSinks : MoveActive(a, b) /\ Recorded(a)
  \/ \E p, q \in EventSinks : MovePassive(p, q) /\ Recorded(p)
  \/ \E p, q \in StateSources : MovePassive(p, q) /\ Recorded(p)
  \/ /\ \/ \E a \in Active, c \in Callbacks : NewActive(a, c)
        \/ \E a \in Active : DestroyActive(a) \/ \E p \in Peers(a) : Connect(a, p)
        \/ \E a \in Active, t \in Temporaries : ConnectClosure(a, t)
        \/ \E p \in Passive : NewPassive(p) \/ BeginDestroy(p)
        \/ CallBreaker \/ EndDestroy
     /\ UNCHANGED moves

MovesSpec == MovesInit /\ [][MovesNext]_<<vars, moves>>
--------------------------------------------------------------------------------
(***************************************************************************)
(* "If a port is moved after it has been connected, the partner of the     *)
(* connection is left with a dangling reference." (knownpitfalls.md:6):    *)
(* once the object that was moved from is destroyed, its partner still     *)
(* refers to it.  In the code the callback of an active port is bound to   *)
(* the new address, and the destructor of a moved-from passive port ends   *)
(* its connections.                                                        *)
(***************************************************************************)
MovedPortsDangle ==
  \A m \in moves : m.partner \in alive /\ m.old \notin alive => m.old \in RefersTo(m.partner)
================================================================================
