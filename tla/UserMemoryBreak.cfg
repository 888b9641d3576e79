CONSTANTS
  PAGE_SIZE = 4
  U64 = 64
  MMAP_START = 8
  MMAP_END = 24
  HEAP_START = 24
  HEAP_END = 28
  Addrs = {0, 26, 28, 29}
  Lengths = {4}
  MaxBlocks = 2
SPECIFICATION MemorySpec
INVARIANT BreakIsPremapped
