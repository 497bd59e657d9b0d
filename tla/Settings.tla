-------------------------------- MODULE Settings -------------------------------
(***************************************************************************)
(* Settings (fc::setting) and the facades that provide their values: the   *)
(* constant facade, the json file, and the settings_backend, whose write   *)
(* is called by a thread of its own.  A value that is registered with a    *)
(* region changes at the switch tick of the region only: setting_forwarder *)
(* hands the value over through buffer and changed, which the two threads  *)
(* share without synchronisation.  Every step below is one access to them, *)
(* in the order of the program, which is the order the compiler emits; a   *)
(* value is small enough to be stored at once.                             *)
(***************************************************************************)
EXTENDS Naturals, Sequences

CONSTANTS
  Ids,        \* setting_ids
  Facade,     \* Ids -> const, json, direct (backend without region), region (with one)
  Valid,      \* Ids -> the values that fulfil the constraint
  Values,
  Texts,      \* serialized values; deserialisation of the others than Values fails
  Archive,    \* Ids -> the entry of the json file
  Default,    \* data_t()
  NoValue, NoId

ASSUME SettingsAssumption ==
  /\ NoValue \notin Values /\ NoId \notin Ids
  /\ Default \in Values
  /\ Facade \in [Ids -> {"const", "json", "direct", "region"}]
  /\ Valid \in [Ids -> SUBSET Values]

VARIABLES
  cache,      \* the value of each setting, NoValue before it is constructed
  buffer, changed,  \* the members of its setting_forwarder
  handlers,   \* the forwarders connected to the switch tick, in this order
  writing,    \* the setting whose forwarder the writer is in, or NoId
  within,     \* history: that write began between the call and the reset of a forwarding
  tickAt,     \* next step of the thread that fires the switch tick
  tickLeft,   \* the handlers it has to call, beginning with the current one
  answer,     \* how the last registration or write ended
  written,    \* history: the last accepted value of each setting
  overtaken   \* history: the settings whose last write lay within a forwarding

tickVars == <<tickAt, tickLeft>>
settingVars ==
  <<cache, buffer, changed, handlers, writing, within, tickVars, answer, written, overtaken>>

SettingsInit ==
  /\ cache = [id \in Ids |-> NoValue]
  /\ buffer = [id \in Ids |-> Default]
  /\ changed = [id \in Ids |-> FALSE]
  /\ handlers = <<>>
  /\ writing = NoId /\ within = FALSE
  /\ tickAt = "idle" /\ tickLeft = <<>>
  /\ answer = "none"
  /\ written = cache
  /\ overtaken = {}

Constructed(id) == cache[id] # NoValue
--------------------------------------------------------------------------------
(* Construction of a setting.                                              *)

\* The setter of the setting writes the shared cache.
Setter(id, v) == cache' = [cache EXCEPT ![id] = v]

Accept(id, v) == written' = [written EXCEPT ![id] = v]

\* register_setting of the json file; the setting is not constructed if it throws.
RegisterJson(id) ==
  IF Archive[id] \in Valid[id]
    THEN Setter(id, Archive[id]) /\ Accept(id, Archive[id]) /\ answer' = "ok"
    ELSE /\ answer' = IF Archive[id] \in Values THEN "constraint" ELSE "unreadable"
         /\ UNCHANGED <<cache, written>>

\* register_setting of the other facades.
RegisterInitial(id, initial) == Setter(id, initial) /\ Accept(id, initial) /\ answer' = "ok"

\* The constructor of setting, with a valid initial value and an unused id.
Construct(id, initial) ==
  /\ ~Constructed(id) /\ Facade[id] # "region"
  /\ initial \in Valid[id]
  /\ writing = NoId /\ tickAt = "idle"
  /\ IF Facade[id] = "json" THEN RegisterJson(id) ELSE RegisterInitial(id, initial)
  /\ UNCHANGED <<buffer, changed, handlers, writing, within, tickVars, overtaken>>

\* The register_setting with a region, which connects a forwarder to the switch tick.
\* It is said to be "used by the ctor of fc::setting", but the constructor only calls the
\* one without a region: this one is called with a setter by users of the facade.
RegisterWithRegion(id, initial) ==
  /\ ~Constructed(id) /\ Facade[id] = "region"
  /\ initial \in Valid[id]
  /\ writing = NoId /\ tickAt = "idle"
  /\ RegisterInitial(id, initial)
  /\ handlers' = Append(handlers, id)
  /\ UNCHANGED <<buffer, changed, writing, within, tickVars, overtaken>>
--------------------------------------------------------------------------------
(* settings_backend::write.                                                *)

Registered(id) == Constructed(id) /\ Facade[id] \in {"direct", "region"}

\* Mutant of Refusal: the holder of a forwarder does not look at the constraint.
RefusalUnconstrained(id, text) ==
  IF ~Registered(id) THEN "out_of_range"
  ELSE IF text \notin Values THEN "unreadable"
  ELSE IF Facade[id] = "direct" /\ text \notin Valid[id] THEN "constraint"
  ELSE "none"

\* The exceptions of write: out_of_range, deserialisation failure, constraint.
Refusal(id, text) ==
  IF ~Registered(id) THEN "out_of_range"
  ELSE IF text \notin Values THEN "unreadable"
  ELSE IF text \notin Valid[id] THEN "constraint"
  ELSE "none"

RefuseWrite(id, text) ==
  /\ writing = NoId
  /\ Refusal(id, text) # "none"
  /\ answer' = Refusal(id, text)
  /\ UNCHANGED <<cache, buffer, changed, handlers, writing, within, tickVars, written, overtaken>>

WriteDirect(id, text) ==
  /\ writing = NoId
  /\ Facade[id] = "direct" /\ Refusal(id, text) = "none"
  /\ Setter(id, text) /\ Accept(id, text)
  /\ answer' = "ok"
  /\ UNCHANGED <<buffer, changed, handlers, writing, within, tickVars, overtaken>>

\* Between the call of the setter and the reset of changed.
Forwarding(id) == tickAt = "reset" /\ Head(tickLeft) = id

\* Mutant of NowBuffered: a value that still waits is not replaced.
NowBufferedFirst(id, text) == IF changed[id] THEN buffer[id] ELSE text

NowBuffered(id, text) == text

\* forward_holder, then setting_forwarder::operator(): buffer = in,
StoreBuffer(id, text) ==
  /\ writing = NoId
  /\ Facade[id] = "region" /\ Refusal(id, text) = "none"
  /\ buffer' = [buffer EXCEPT ![id] = NowBuffered(id, text)]
  /\ Accept(id, text)
  /\ writing' = id
  /\ within' = Forwarding(id)
  /\ UNCHANGED <<cache, changed, handlers, tickVars, answer, overtaken>>

\* changed = true.
StoreChanged ==
  /\ writing # NoId
  /\ changed' = [changed EXCEPT ![writing] = TRUE]
  /\ overtaken' = IF within /\ Forwarding(writing)
                    THEN overtaken \cup {writing} ELSE overtaken \ {writing}
  /\ writing' = NoId /\ within' = FALSE
  /\ answer' = "ok"
  /\ UNCHANGED <<cache, buffer, handlers, tickVars, written>>
--------------------------------------------------------------------------------
(* The switch tick: forward_if_changed of one forwarder after the other.   *)

StartTick ==
  /\ tickAt = "idle"
  /\ handlers # <<>>
  /\ tickAt' = "test" /\ tickLeft' = handlers
  /\ UNCHANGED <<cache, buffer, changed, handlers, writing, within, answer, written, overtaken>>

NextHandler ==
  /\ tickLeft' = Tail(tickLeft)
  /\ tickAt' = IF Len(tickLeft) = 1 THEN "idle" ELSE "test"

TestChanged ==
  /\ tickAt = "test"
  /\ IF changed[Head(tickLeft)] THEN tickAt' = "call" /\ UNCHANGED tickLeft ELSE NextHandler
  /\ UNCHANGED <<cache, buffer, changed, handlers, writing, within, answer, written, overtaken>>

CallSetter ==
  /\ tickAt = "call"
  /\ Setter(Head(tickLeft), buffer[Head(tickLeft)])
  /\ tickAt' = "reset"
  /\ UNCHANGED <<buffer, changed, handlers, writing, within, tickLeft, answer, written, overtaken>>

ResetChanged ==
  /\ tickAt = "reset"
  /\ changed' = [changed EXCEPT ![Head(tickLeft)] = FALSE]
  /\ NextHandler
  /\ UNCHANGED <<cache, buffer, handlers, writing, within, answer, written, overtaken>>

SettingsNext ==
  \/ \E id \in Ids, v \in Values : Construct(id, v) \/ RegisterWithRegion(id, v)
  \/ \E id \in Ids, text \in Texts : RefuseWrite(id, text) \/ WriteDirect(id, text) \/ StoreBuffer(id, text)
  \/ StoreChanged
  \/ StartTick \/ TestChanged \/ CallSetter \/ ResetChanged

SettingsSpec == SettingsInit /\ [][SettingsNext]_settingVars
--------------------------------------------------------------------------------
(* Properties.                                                             *)

(***************************************************************************)
(* What setting::operator() returns fulfils the constraint of the setting, *)
(* whoever provided the value and whatever the writer and the switch tick  *)
(* are doing.  In particular the default value in the buffer of a          *)
(* forwarder, which need not be valid, never reaches the setting.          *)
(***************************************************************************)
SettingsFulfilConstraints == \A id \in Ids : Constructed(id) => cache[id] \in Valid[id]

(***************************************************************************)
(* A value that write accepted is the value of the setting, or marked as   *)
(* changed and forwarded by the next switch tick - unless both of its      *)
(* stores fall between the call of the setter and the reset of changed in  *)
(* forward_if_changed, where it waits for the next write.                  *)
(***************************************************************************)
AcceptedWritesArrive ==
  \A id \in Ids :
    \/ id \in overtaken
    \/ writing = id
    \/ cache[id] = written[id]
    \/ changed[id] /\ buffer[id] = written[id]
================================================================================
