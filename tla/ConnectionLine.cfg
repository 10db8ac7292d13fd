SPECIFICATION Spec
CONSTANTS
  Traffics <- PoliteTraffics
  SplitAnywhere = TRUE
  Polite = TRUE
  PeerMayLeave = FALSE
  SndCap = 2
INVARIANTS LineParsedWhole
CHECK_DEADLOCK FALSE
