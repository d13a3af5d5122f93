SPECIFICATION Spec
CONSTANTS
  UINT32 = 65536
  WordBits = 4
  LogWord = 2
  ByteBits = 4
  FillBits = 2
  KERNEL_BASE = 16384
  KernelSizes <- MCKernelSizes
  Garbage <- MCGarbage
  MemoryMaps <- MCVirtMaps
  PAGE_TABLE_SIZE = 2
  PAGE_DIRECTORY_SIZE = 3
  KERNEL_INDEX = 2
  BOOT_DIR = 61440
  BOOT_KERNEL = 8192
  MappedFrames <- MCMappedFrames
  MaxDirectories = 2
PROPERTY
  KernelStaysMapped
CHECK_DEADLOCK FALSE
