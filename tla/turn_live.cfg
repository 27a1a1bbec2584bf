SPECIFICATION FairSpec
CONSTANTS
  Prompts = {p1}
  Silent = {}
  Sets = {}
  Calls = {c1}
  Malformed = {}
  NoEvent = NoEvent
  Forks = {f1}
  Backed = TRUE
  BusCap = 1
  ReadyCap = 1
  MaxRounds = 1
  Kinds = {"interrupt", "kill", "panic", "boot"}
  MaxStrikes = 2
PROPERTIES
  KillStops
  ForksAnswered
