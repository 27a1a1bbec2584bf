SPECIFICATION FairSpec
CONSTANTS
  Patches = {1}
  MaxRetries = 1
  MaxLog = 4
  MaxBlocks = 2
  TailSize = 2
  Dialects = {"native", "responses"}
  Kinds = {"thinking", "call"}
  MaxFaults = 2
CHECK_DEADLOCK FALSE
INVARIANTS
  WireWhole
  
  RequestsFit
PROPERTIES
  PrefixStable
  SendEnds
