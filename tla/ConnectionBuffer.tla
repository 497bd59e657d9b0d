--------------------------- MODULE ConnectionBuffer ----------------------------
(***************************************************************************)
(* The buffers that flexcore puts into a connection between two regions:   *)
(* event_buffer<T>, its specialization event_buffer<void> that only counts *)
(* the events, and state_buffer<T>.  A buffer is a record, an operation of *)
(* the class an operator from the buffer before it to the one after it.    *)
(***************************************************************************)
EXTENDS Naturals, Sequences

(* event_buffer<T>.                                                        *)

NewEventBuffer == [intern |-> <<>>, middle |-> <<>>, extern |-> <<>>, read |-> FALSE]

\* in_event_port: the source region fires e.
Push(b, e) == [b EXCEPT !.intern = Append(@, e)]

\* Mutant of SwitchActive: always swap, whether middle was read or not.
SwitchActiveOverwrites(b) == [b EXCEPT !.intern = <<>>, !.middle = b.intern, !.read = FALSE]

\* Different rates, switch tick of the source region.
SwitchActive(b) ==
  [b EXCEPT !.intern = <<>>,
            !.middle = IF b.read THEN b.intern ELSE @ \o b.intern,
            !.read = FALSE]

\* Different rates, switch tick of the sink region: what extern held is dropped.
SwitchPassive(b) ==
  [b EXCEPT !.middle = <<>>, !.extern = b.middle, !.read = TRUE]

\* Equal rates, switch tick of the source region.
SwitchActivePassive(b) ==
  [b EXCEPT !.intern = <<>>, !.extern = @ \o b.intern]

\* Mutant of SendEvents: extern keeps the events that were sent.
SendAndKeep(b) == b

\* send_events on the work tick of the sink region fires b.extern and clears it.
SendEvents(b) == [b EXCEPT !.extern = <<>>]

\* The switch ticks of the buffer, by the name of the port.
SwitchEvents(kind, b) ==
  CASE kind = "active_passive" -> SwitchActivePassive(b)
    [] kind = "active" -> SwitchActive(b)
    [] kind = "passive" -> SwitchPassive(b)
    [] OTHER -> b
--------------------------------------------------------------------------------
(* event_buffer<void>.                                                     *)

NewVoidBuffer == [intern |-> 0, middle |-> 0, extern |-> 0, read |-> FALSE]

VoidPush(b) == [b EXCEPT !.intern = @ + 1]

\* Mutant of VoidSwitchActive: the count in middle is overwritten, read or not.
VoidSwitchOverwrites(b) == [b EXCEPT !.intern = 0, !.middle = b.intern, !.read = FALSE]

VoidSwitchActive(b) ==
  [b EXCEPT !.intern = 0,
            !.middle = IF b.read THEN b.intern ELSE @ + b.intern,
            !.read = FALSE]

VoidSwitchPassive(b) ==
  [b EXCEPT !.middle = 0, !.extern = b.middle, !.read = TRUE]

VoidSwitchActivePassive(b) ==
  [b EXCEPT !.intern = 0, !.extern = @ + b.intern]

VoidSendEvents(b) == [b EXCEPT !.extern = 0]

SwitchVoids(kind, b) ==
  CASE kind = "active_passive" -> VoidSwitchActivePassive(b)
    [] kind = "active" -> VoidSwitchActive(b)
    [] kind = "passive" -> VoidSwitchPassive(b)
    [] OTHER -> b
--------------------------------------------------------------------------------
(* state_buffer<T>.  Here the sink is the active side.                     *)

NewStateBuffer(v) == [intern |-> v, middle |-> v, extern |-> v]

\* Work tick of the source region: intern_buffer = in_port.get().
PullState(b, v) == [b EXCEPT !.intern = v]

\* Mutant of StateSwitchPassive: swap instead of copy.
StateSwitchSwaps(b) == [b EXCEPT !.middle = b.intern, !.intern = b.middle]

\* Mutant of StateSwitchPassive: the source's switch tick goes through to extern.
StateSwitchThrough(b) == [b EXCEPT !.middle = b.intern, !.extern = b.intern]

StateSwitchPassive(b) == [b EXCEPT !.middle = b.intern]
StateSwitchActive(b) == [b EXCEPT !.extern = b.middle]
StateSwitchActivePassive(b) == [b EXCEPT !.extern = b.intern]

SwitchState(kind, b) ==
  CASE kind = "active_passive" -> StateSwitchActivePassive(b)
    [] kind = "active" -> StateSwitchActive(b)
    [] kind = "passive" -> StateSwitchPassive(b)
    [] OTHER -> b
================================================================================
