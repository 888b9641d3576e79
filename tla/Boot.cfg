SPECIFICATION Spec
CONSTANTS
  PAGE_SIZE = 1
  ENTRIES = 4
  PAGE_TABLE_POOL_SIZE = 19
  KERNEL_BASE = 480
  HHDM_OFFSET = 64
  FRAMEBUFFER_VIRT_BASE = 320
  STACK_PAGES = 2
  WINDOW = 3
  FILE_PAGES = 1
  Kernel <- MCKernel
  Machines <- MCMachines
  MaxEvents = 3
INVARIANTS
  AddressSpaceComplete
  OneUsePerFrame
  NothingOwnedIsFree
  HandoverWellFormed
  OwnedInDirectMap
