SPECIFICATION ThreadFairSpec
CONSTANTS
  LoopThread = LoopThread
  Owner = Owner
  NoThread = NoThread
  NoTask = NoTask
  c1 = c1
  f1 = f1
  f2 = f2
  Callers <- MCCallers
  Tasks <- MCTasks
  ConnHandlers <- Repaired
INVARIANTS ThreadTypeOK ThreadAssertions LoopHandedOutLive
PROPERTIES StartLoopReturns DestroyReturns CallsReturn ForgottenQuitHangs
CHECK_DEADLOCK FALSE
