CONSTANTS
  PAGE_SIZE = 2
  WORD_SIZE = 1
  TABLE_PAGES = 8
  USER_BASE_ADDR = 4
  KernelHeap <- Kernel_
  Pool <- Pool_
  BrkHeap <- Brk_
  Stack <- Stack_
  BootPages = {13, 20}
  FrameCounts = {0, 3, 6, 9, 12, 15, 20, 28, 40}
  Programs <- MCPrograms
SPECIFICATION FairSpec
INVARIANTS
  ImageLoaded
  NoStaleBytes
  FramesExclusive
  SegmentRights
  RangesReady
  AuxvFound
PROPERTY Terminates
