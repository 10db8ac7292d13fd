SPECIFICATION FairSpec
CONSTANTS
  Null = Null
  b1 = b1
  b2 = b2
  b3 = b3
  b4 = b4
  b5 = b5
  b6 = b6
  b7 = b7
  b8 = b8
  b9 = b9
  Buffers <- MCBuffers
  Cap = 2
  MaxLines = 9
  HighWater = 2
  ResetsObject = TRUE
INVARIANTS TypeOK AssertionsHold Unshared FullBuffersArriveEmpty
PROPERTIES StopReturns
CHECK_DEADLOCK FALSE
