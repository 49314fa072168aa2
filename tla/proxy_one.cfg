SPECIFICATION Spec
CONSTANTS
  p1 = p1
  Process = {p1}
  CachedBuffers = TRUE
  Faults = {"timeout", "no_segment", "submit_error"}
  MaxTransfers = 4
PROPERTIES
  ResultIsTrue
  NoFalseTimeout
CHECK_DEADLOCK FALSE
