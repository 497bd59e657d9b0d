CONSTANTS
  Workers = {w1, w2}
  Tasks = {t1, t2}
  EmptyTasks = {}
  NoTask = NoTask
  MediumTick = 2
  SlowTick = 4
  CallbackReturns = {FALSE}
  Loops = {"realtime"}
  MaxCalls = 3
SPECIFICATION Spec
INVARIANTS DoneTasksEmpty
CHECK_DEADLOCK FALSE
