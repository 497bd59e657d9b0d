CONSTANTS
  r1 = r1
  r2 = r2
  Workers = {w1, w2}
  Tasks = {r1, r2}
  EmptyTasks = {}
  NoTask = NoTask
  MediumTick = 2
  SlowTick = 4
  CallbackReturns = {TRUE, FALSE}
  Loops = {"realtime"}
  MaxCalls = 1
  EventLinks <- Link
  StateLinks <- Link
  MaxTokens = 2
SPECIFICATION LateSpec
INVARIANTS BuffersTypeOK EventsOnceInOrder VoidCounts StatesInOrder ExternProcessed NoBufferRace
PROPERTY Snapshot
CHECK_DEADLOCK FALSE
