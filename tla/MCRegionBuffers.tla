---------------------------- MODULE MCRegionBuffers ----------------------------
(* Small instances of RegionBuffers for TLC: one region sends events and a *)
(* state to another one.                                                   *)
EXTENDS RegionBuffers

CONSTANTS r1, r2

Link == {[src |-> r1, dst |-> r2]}

\* A late region is passed over only where the linked regions differ in their rate: what
\* happens otherwise is the subject of the run that violates NoBufferRace.
LateSpec == RegionInit /\ [][RegionNext /\ (CheckLate => DifferentRates)]_allVars
================================================================================
