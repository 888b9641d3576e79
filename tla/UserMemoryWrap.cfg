CONSTANTS
  PAGE_SIZE = 4
  U64 = 64
  MMAP_START = 8
  MMAP_END = 24
  HEAP_START = 24
  HEAP_END = 28
  Addrs = {0}
  Lengths = {4, 52, 63}
  MaxBlocks = 3
SPECIFICATION MemorySpec
INVARIANT AddressesFromPool
