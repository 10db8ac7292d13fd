SPECIFICATION FairSpec
CONSTANTS
  c1 = c1
  c2 = c2
  c3 = c3
  c4 = c4
  c5 = c5
  Nobody = Nobody
  Clients <- MCClients
  ThreadNums = 3
  FirstFd = 3
  Limits <- MCLimits
  MAXFDS = 6
  Backlog = 3
INVARIANTS TypeOK TurnsBalanced NobodyLeftWaiting
PROPERTIES ClientsAccepted NeglectedForGood
CHECK_DEADLOCK FALSE
