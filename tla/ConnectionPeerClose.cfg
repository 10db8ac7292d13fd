SPECIFICATION ReaderSpec
CONSTANTS
  Traffics <- PoliteTraffics
  SplitAnywhere = FALSE
  Polite = FALSE
  PeerMayLeave = TRUE
  SndCap = 1
PROPERTIES PeerCloseHandled
CHECK_DEADLOCK FALSE
