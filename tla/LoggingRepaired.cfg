SPECIFICATION FairSpec
CONSTANTS
  Null = Null
  b1 = b1
  b2 = b2
  b3 = b3
  b4 = b4
  b5 = b5
  b6 = b6
  b7 = b7
  b8 = b8
  b9 = b9
  Buffers <- MCBuffers
  Cap = 2
  MaxLines = 9
  HighWater = 2
  ResetsObject = FALSE
  SmallBuffer = 36
  MaxNumericSize = 12
  Numbers <- MCNumbers
  Logged <- MCLogged
  Texts <- MCTexts
  MaxCalls = 4
  MaxTaken = 2
INVARIANTS LinesWhole FileGetsBuffer
PROPERTIES ImplementsLogPipe LeaksOnlyThere PipeDrains
CHECK_DEADLOCK FALSE
