SPECIFICATION Spec
CONSTANTS
  Start = {{1, 2, 4}}
  MaxLT = 5
  PageSize = 1
  PageLimit = 2
  TailLimit = 2
  DescLimit = 1
  LRULimit = 1
  Body = 1
  Steps = {1}
  Uses = {{"search"}, {"select"}}
  Hits = {{}, {1}, {4}}
  MaxSearches = 3
  MaxCopies = 1
  MaxFaults = 1
CHECK_DEADLOCK FALSE
INVARIANTS
  WindowContiguous
  SearchComplete
  CopyExact
