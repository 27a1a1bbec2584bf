SPECIFICATION Spec
CONSTANTS
  Prompts = {p1, p2}
  Silent = {}
  Sets = {}
  Calls = {c1}
  Malformed = {}
  NoEvent = NoEvent
  Forks = {}
  Backed = TRUE
  BusCap = 1
  ReadyCap = 1
  MaxRounds = 1
  Kinds = {"interrupt", "fault", "panic", "boot"}
  MaxStrikes = 2
SYMMETRY Symmetric
INVARIANTS
  TypeOK
  TranscriptPaired
  TurnInv
  NoPromptLost
  RenderedAtMostOnce
  UndisturbedShowLog
PROPERTIES
  ResultsHonest
