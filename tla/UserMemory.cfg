CONSTANTS
  PAGE_SIZE = 4
  U64 = 64
  MMAP_START = 8
  MMAP_END = 24
  HEAP_START = 24
  HEAP_END = 28
  Addrs = {0, 2, 16, 33}
  Lengths = {0, 1, 4, 5, 17, 36, 52, 63}
  MaxBlocks = 5
SPECIFICATION MemorySpec
INVARIANTS
  PoolBlocksDisjoint
  BlocksInPool
