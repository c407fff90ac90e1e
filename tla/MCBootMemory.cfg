\* Every map of up to two ranges, both widths of physaddr_t.
SPECIFICATION Spec
CONSTANTS
  PAGE_SIZE = 3
  MEM_1_GB = 3
  MEM_4_GB = 15
  KernelImageStart = 3
  KernelImageEnd = 7
  UINT64 = 64
  BootMaps <- Maps
INVARIANTS OnlyUsableOnce NothingForgotten FreeMemoryExact
\* the machine stops when there is no memory left
CHECK_DEADLOCK FALSE
