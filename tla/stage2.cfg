SPECIFICATION Spec
CONSTANTS
  BytesPerSector = 6
  SectorPerCluster = 1
  ReservedSector = 1
  NumberOfFATs = 2
  RootEntries = 2
  SectorPerFAT = 3
  SectorPerTrack = 3
  HeadPerCylinder = 6
  Disks <- MCDisks
  DiskSectors = 27
  ImageCell = 2
  FatCell = 6
  RootCell = 7
  SegmentCells = 13
  KernelCell = 13
  TopCell = 21
  StrayWords <- MCStrayWords
  MaxClusters = 8
INVARIANTS
  TypeOK
  KernelIsTheFile
  LowMemoryKept
PROPERTIES
  BootShortens
  BootEnds
CHECK_DEADLOCK FALSE
