SPECIFICATION FairSpec
CONSTANTS
  LoopThread = LoopThread
  NoThread = NoThread
  NoTask = NoTask
  c1 = c1
  c2 = c2
  f1 = f1
  f2 = f2
  f3 = f3
  Callers <- MCCallers
  Tasks <- MCTasks
  ConnHandlers <- Repaired
INVARIANTS TypeOK SleepsOnlyWhenIdle
PROPERTIES ImplementsTaskQueue QueuedRuns QuitStops
