---------------------------- MODULE PortConnections ----------------------------
(***************************************************************************)
(* What pure ports promise.  An active port (an event_source, which fires  *)
(* events, or a state_sink, which pulls states) keeps the connections it   *)
(* was given, in order; a state_sink keeps the last one.  A connection     *)
(* ends when either of its ports is destroyed, and moves with an active    *)
(* port that is moved.                                                     *)
(*                                                                         *)
(* This is the promise of the code and its tests (the comment in           *)
(* single_handler_policy::remove_handler, move_active_after_connect of the *)
(* port tests).  The docs promise less: "Connecting the state_sink more    *)
(* than once invokes undefined behaviour" (ports.md:45), and a connected   *)
(* port "cannot be moved" (knownpitfalls.md:5).                            *)
(***************************************************************************)
EXTENDS SequenceRemoval

CONSTANTS
  EventSources, StateSinks,  \* addresses of active ports
  EventSinks, StateSources,  \* addresses of passive ports
  Closure                    \* a connectable that the active port owns itself

Active == EventSources \cup StateSinks
Passive == EventSinks \cup StateSources

\* Events go to event_sinks, states come from state_sources.
Peers(a) == IF a \in EventSources THEN EventSinks ELSE StateSources

VARIABLES
  alive,  \* the ports that exist
  links   \* what each active port is connected to

linkVars == <<alive, links>>

LinkInit ==
  /\ alive = {}
  /\ links = [a \in Active |-> <<>>]

\* The links of an active port after it was connected to x.
Extended(a, x) == IF a \in EventSources THEN Append(links[a], x) ELSE <<x>>

LinkNew(x) ==
  /\ x \notin alive
  /\ alive' = alive \cup {x}
  /\ UNCHANGED links

LinkConnect(a, x) ==
  /\ a \in alive
  /\ x \in alive \cup {Closure}
  /\ links' = [links EXCEPT ![a] = Extended(a, x)]
  /\ UNCHANGED alive

LinkMove(a, b) ==
  /\ a \in alive /\ b \notin alive
  /\ alive' = alive \cup {b}
  /\ links' = [links EXCEPT ![a] = <<>>, ![b] = links[a]]

LinkDestroy(x) ==
  /\ x \in alive
  /\ alive' = alive \ {x}
  /\ links' = [a \in Active |->
                 IF a = x THEN <<>> ELSE Without(links[a], x)]

LinkNext ==
  \/ \E x \in Active \cup Passive : LinkNew(x) \/ LinkDestroy(x)
  \/ \E a \in Active : \E x \in Peers(a) \cup {Closure} : LinkConnect(a, x)
  \/ \E a, b \in EventSources : LinkMove(a, b)
  \/ \E a, b \in StateSinks : LinkMove(a, b)

LinkSpec == LinkInit /\ [][LinkNext]_linkVars
================================================================================
