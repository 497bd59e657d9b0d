CONSTANTS
  Workers = {w1, w2}
  Clients = {c1, c2}
  Tasks = {t1, t2, t3}
  EmptyTasks = {t3}
  NoTask = NoTask
SPECIFICATION FairSpec
INVARIANTS TypeOK FifoOnce NoLostWakeup StopWakesAll
PROPERTIES QueuedTaskRuns StopReturns ImplementsQueue
