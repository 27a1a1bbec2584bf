SPECIFICATION FairSpec
CONSTANTS
  None = None
  MaxCalls = 1
  MaxRounds = 2
  MaxChunks = 3
  MaxTool = 2
  BufferCap = 1
  PipeCap = 1
  QueueCap = 1
  Kinds = {"fg", "bg", "pty", "interrupt", "age", "fault", "escape"}
CHECK_DEADLOCK FALSE
INVARIANTS
  OutputWhole
  NoStray

  
