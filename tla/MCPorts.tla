-------------------------------- MODULE MCPorts --------------------------------
(* Instances of Ports.  Ports of one kind are interchangeable.             *)
EXTENDS Ports, TLC

Alike == Permutations(EventSources) \cup Permutations(StateSinks)
           \cup Permutations(EventSinks) \cup Permutations(StateSources)
           \cup Permutations(Callbacks)
================================================================================
