SPECIFICATION Spec
CONSTANTS
  Routines = {f, g}
  Initializers <- MCInitializers
  MaxEntries = 3
  UINT32 = 8
  MaxCalls = 6
  Null = null
INVARIANTS
  TypeOK
PROPERTIES
  RunsInReverse
CHECK_DEADLOCK FALSE
