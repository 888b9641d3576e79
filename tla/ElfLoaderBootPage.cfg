CONSTANTS
  PAGE_SIZE = 2
  WORD_SIZE = 1
  TABLE_PAGES = 8
  USER_BASE_ADDR = 4
  KernelHeap <- Kernel_
  Pool <- Pool_
  BrkHeap <- Brk_
  Stack <- Stack_
  BootPages = {13}
  FrameCounts = {40}
  Programs <- SharingPrograms
SPECIFICATION Spec
INVARIANT PremappedForUser
