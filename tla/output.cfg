SPECIFICATION Spec
CONSTANTS
  UINT32 = 256
  BufferSize = 12
  Nul = "nul"
  Columns = 14
  Rows = 16
  ClearedRows = 17
  VideoRows = 19
  Texts <- MCTexts
  DefaultRow = 5
  RegionLists <- MCRegionLists
  Counts <- MCCounts
  Kilobyte = 2
  Messages <- MCMessages
  Stray = "stray"
INVARIANTS
  TypeOK
  PanicScreenIsItsOwn
  NoStrayCharacters
  NumbersReadBack
PROPERTIES
  NothingOverwritten
CHECK_DEADLOCK FALSE
