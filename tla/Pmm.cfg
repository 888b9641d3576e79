CONSTANTS
  PAGE_SIZE = 3
  WORD_BYTES = 1
  BootInfos <- MCBootInfos
SPECIFICATION Spec
INVARIANTS
  OnlyUsableHandedOut
  BitmapInOneRegion
PROPERTY ImplementsFrameAllocator
