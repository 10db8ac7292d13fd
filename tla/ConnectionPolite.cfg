SPECIFICATION PoliteSpec
CONSTANTS
  Traffics <- PoliteTraffics
  SplitAnywhere = FALSE
  Polite = TRUE
  PeerMayLeave = FALSE
  SndCap = 1
INVARIANTS AnsweredSoFar
PROPERTIES Served KeptAsAsked
CHECK_DEADLOCK FALSE
