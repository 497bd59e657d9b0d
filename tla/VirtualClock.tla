------------------------------ MODULE VirtualClock -----------------------------
(***************************************************************************)
(* The two virtual clocks (fc::virtual_clock) and master_clock, which      *)
(* moves them.  The main loop of the scheduler calls advance; set_time may *)
(* be called by any other thread.  The clocks are atomic, but advance      *)
(* loads and stores them in two steps, first the steady clock and then the *)
(* system clock.  Times are counted in ticks of the master clock.          *)
(***************************************************************************)
EXTENDS Integers

CONSTANTS
  Second,      \* ticks per second
  Times,       \* the std::time_t values that set_time is called with
  MaxTicks     \* bound on the calls of advance

ASSUME ClockAssumption ==
  /\ Second \in Nat \ {0}
  /\ Times \subseteq Int
  /\ MaxTicks \in Nat

VARIABLES
  steady, system,  \* current_time of the two clocks
  clockAt,         \* next step of advance
  loaded,          \* the local variable tmp of advance
  base, mark,      \* history: the last time that was set, and the steady clock then
  missed           \* history: set_time fell between the load and the store of advance

clockVars == <<steady, system, clockAt, loaded, base, mark, missed>>

ClockInit ==
  /\ steady = 0 /\ system = 0
  /\ clockAt = "idle" /\ loaded = 0
  /\ base = 0 /\ mark = 0 /\ missed = FALSE

\* duration_cast to seconds truncates towards zero.
to_time_t(t) == IF t >= 0 THEN t \div Second ELSE -((-t) \div Second)
from_time_t(t) == t * Second

\* master_clock::advance: steady_clock.advance(1), then system_clock.advance(1).
LoadSteady ==
  /\ clockAt = "idle" /\ steady < MaxTicks
  /\ loaded' = steady
  /\ clockAt' = "storeSteady"
  /\ UNCHANGED <<steady, system, base, mark, missed>>

StoreSteady ==
  /\ clockAt = "storeSteady"
  /\ steady' = loaded + 1
  /\ clockAt' = "loadSystem"
  /\ UNCHANGED <<system, loaded, base, mark, missed>>

\* Mutant of LoadSystem: the other clock is read.
LoadSystemFromSteady ==
  /\ clockAt = "loadSystem"
  /\ loaded' = steady
  /\ clockAt' = "storeSystem"
  /\ UNCHANGED <<steady, system, base, mark, missed>>

LoadSystem ==
  /\ clockAt = "loadSystem"
  /\ loaded' = system
  /\ clockAt' = "storeSystem"
  /\ UNCHANGED <<steady, system, base, mark, missed>>

StoreSystem ==
  /\ clockAt = "storeSystem"
  /\ system' = loaded + 1
  /\ clockAt' = "idle"
  /\ loaded' = 0
  /\ UNCHANGED <<steady, base, mark, missed>>

\* The steady clock as of the last tick that the system clock has taken part in.
Common == IF clockAt \in {"loadSystem", "storeSystem"} THEN steady - 1 ELSE steady

\* master_clock::set_time(from_time_t(t)) leaves the steady clock alone.
set_time(t) ==
  /\ system' = from_time_t(t)
  /\ base' = t /\ mark' = Common
  /\ missed' = (clockAt = "storeSystem")
  /\ UNCHANGED <<steady, clockAt, loaded>>

ClockNext ==
  \/ LoadSteady \/ StoreSteady \/ LoadSystem \/ StoreSystem
  \/ \E t \in Times : set_time(t)

ClockSpec == ClockInit /\ [][ClockNext]_clockVars

(***************************************************************************)
(* Since the last set_time the two clocks have advanced by the same ticks, *)
(* so that the calendar time is the time that was set and the whole        *)
(* seconds that the steady clock has measured since - also when set_time   *)
(* falls into an advance, except between the load and the store of the     *)
(* system clock, where the time that was set is overwritten.               *)
(***************************************************************************)
ClocksAdvanceTogether ==
  ~missed =>
    /\ system = from_time_t(base) + (Common - mark)
    /\ base >= 0 => to_time_t(system) = base + (Common - mark) \div Second
================================================================================
