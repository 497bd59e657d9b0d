CONSTANTS
  Workers = {w1, w2}
  Tasks = {t1}
  EmptyTasks = {}
  NoTask = NoTask
  MediumTick = 2
  SlowTick = 4
  CallbackReturns = {FALSE}
  Loops = {"afap"}
  MaxCalls = 1
  Ticks <- MCTicks
SPECIFICATION DeadlineSpec
INVARIANTS OnTimeIsNotLate
CHECK_DEADLOCK FALSE
