SPECIFICATION Spec
CONSTANTS
  None = None
  Stump = Stump
  Root = Root
  Genesis = Genesis
  Birth = Birth
  Arias = {1, 2, 3}
  MaxIR = 3
  MaxPatches = 3
  MaxCrashes = 1
  MaxOps = 5
  Kinds = {"create", "fork", "promote", "remove", "list", "patch", "translate", "fault"}
CHECK_DEADLOCK FALSE
INVARIANTS
  
  ForestListed
PROPERTIES
  ForkCounted
  SharedLog
