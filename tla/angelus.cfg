SPECIFICATION FairSpec
CONSTANTS
  None = None
  Arias = {a1, a2}
  Known = {a1}
  Pids = {p1}
  Handlers = {1, 2}
  MaxAgents = 3
  MaxStarts = 2
  MaxOps = 2
  MaxCrashes = 1
  Kinds = {"create", "attach", "bind", "kill", "fork", "save", "list", "unbind", "promote", "shell", "signal", "abandon"}
INVARIANTS
  BindingsAgree
  OneWriter
PROPERTIES
  BindingsSurviveRest
  ComesToRest
