SPECIFICATION BootSpec
CONSTANTS
  UINT32 = 65536
  WordBits = 4
  LogWord = 2
  ByteBits = 4
  FillBits = 2
  KERNEL_BASE = 16384
  KernelSizes <- MCKernelSizes
  Garbage <- MCGarbage
  MemoryMaps <- MCBootMaps
INVARIANTS
  RegionsReleased
PROPERTIES
  WritesInsideMap
CHECK_DEADLOCK FALSE
