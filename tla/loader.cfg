SPECIFICATION Spec
CONSTANTS
  BytesPerSector = 64
  SectorPerCluster = 1
  ReservedSector = 1
  NumberOfFATs = 2
  RootEntries = 4
  SectorPerFAT = 2
  SectorPerTrack = 3
  HeadPerCylinder = 2
  Disks <- MCDisks
  ImageRoom = 4
  TableCells = 4
  StrayWords <- MCStrayWords
  PortBits = {"a20", "reset", "other"}
  A20Bit = "a20"
  ScanCodes <- MCScanCodes
  Lists <- MCLists
  BufferSlots = 4
  CountSlot = 2
  BufferByte = 160
  EntryBytes = 24
  CountByte = 224
INVARIANTS
  GivesUpAfterFive
  FoundAndFits
  OnlyA20Changes
  MapIsBios
  Stage2IsTheFile
  NoEndlessWait
PROPERTIES
  NothingWrittenOver
  LoadersShorten
  LoaderEnds
CHECK_DEADLOCK FALSE
