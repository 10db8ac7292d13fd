SPECIFICATION FairSpec
CONSTANTS
  Traffics <- PipelinedTraffics
  SplitAnywhere = TRUE
  Polite = FALSE
  PeerMayLeave = TRUE
  SndCap = 2
INVARIANTS TypeOK InOrder AnswersInOrder WaitsForRightThing
PROPERTIES ResetNoticed
CHECK_DEADLOCK FALSE
