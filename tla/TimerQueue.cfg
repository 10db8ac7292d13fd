SPECIFICATION Spec
CONSTANTS
  c1 = c1
  c2 = c2
  t1 = t1
  t2 = t2
  t3 = t3
  NoConn = NoConn
  NoTimer = NoTimer
  Conns <- MCConns
  Timers <- MCTimers
  Timeouts <- MCTimeouts
  FirstTimeout = 1
  Period = 3
  AgeBound = 3
  RepairSets <- MCRepairSets
INVARIANTS TypeOK
PROPERTIES NeverEarly OnlyIdleClosed WrapForgets LateOnlyByWrap
