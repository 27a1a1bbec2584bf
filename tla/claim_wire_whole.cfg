SPECIFICATION Spec
CONSTANTS
  Patches = {1}
  MaxRetries = 1
  MaxLog = 4
  MaxBlocks = 2
  TailSize = 2
  Dialects = {"native"}
  Kinds = {"text", "call", "badcall"}
  MaxFaults = 0
CHECK_DEADLOCK FALSE
INVARIANTS
  WireWhole
