SPECIFICATION Spec
CONSTANTS
  Prior = {0}
  Busy = TRUE
  MaxFrames = 2
  Tall = 2
  ClosedLimit = 2
  PageSize = 1
  WireCap = 1
  Modes = {"send", "listen", "raw", "verbatim", "forget"}
  MaxFaults = 1
CHECK_DEADLOCK FALSE
INVARIANTS
  
  
  NotStranded
