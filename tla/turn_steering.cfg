SPECIFICATION Spec
CONSTANTS
  Prompts = {p1, p2}
  Silent = {p2}
  Sets = {s1}
  Calls = {c1}
  Malformed = {}
  NoEvent = NoEvent
  Forks = {f1}
  Backed = FALSE
  BusCap = 1
  ReadyCap = 1
  MaxRounds = 1
  Kinds = {}
  MaxStrikes = 0
INVARIANTS
  EventsOnceInOrder
PROPERTIES
  ForkAtSafePoint
