SPECIFICATION FairSpec
CONSTANTS
  byteA = byteA
  leadX = leadX
  contC = contC
  contD = contD
  Plain = {byteA}
  Lead = {leadX}
  Continuation = {contC, contD}
  Texts <- Runes
  MaxNodes = 1
  MaxFrames = 2
  MaxUnits = 2
  Pager = pager
  Healers = {h1, h2}
  WireCap = 1
  ClosedLimit = 1
  PageSize = 1
  Kinds = {"late", "read", "abandon", "reconcile", "timeout"}
INVARIANTS
  Faithful
  AnnouncedOnce
  
PROPERTIES
  Settles
