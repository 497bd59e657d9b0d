CONSTANTS
  Workers = {w1, w2}
  Tasks = {t1, t2}
  EmptyTasks = {}
  NoTask = NoTask
  MediumTick = 2
  SlowTick = 4
  CallbackReturns = {TRUE, FALSE}
  Loops = {"realtime", "afap"}
  MaxCalls = 3
SPECIFICATION CleanSpec
INVARIANTS TypeOK DoneTasksEmpty DoneMeansQuiet SwitchOnlyWhenDone SingleThread StopQuiescent
PROPERTIES StopReturns RegionsKeepRunning
CHECK_DEADLOCK FALSE
