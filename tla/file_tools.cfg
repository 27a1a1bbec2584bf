SPECIFICATION Spec
CONSTANTS
  None = None
  Paths = {p1}
  Calls = {1, 2}
  Texts <- MCTexts
  News <- MCNews
  EditLists <- MCEditLists
  Limits = {0, 1, 2}
  MaxLines = 2
  MaxBytes = 4
  LineSizes = {0, 1, 2, 5}
  MaxBook = 4
  Kinds = {"edit", "write", "page"}
CHECK_DEADLOCK FALSE
INVARIANTS
  Serialized
  
  PagesCover
