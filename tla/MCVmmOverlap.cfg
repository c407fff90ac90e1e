\* Two threads allocate at the same time.
SPECIFICATION Spec
CONSTANTS
  Threads = {t0, t1}
  thread0 = t0
  Mmappers = {t0, t1}
  Creators = {}
  Mappers = {t0}
  KERNEL_HEAP_END = 4
  END_OF_MEMORY = 6
  TABLE_SPAN = 3
  Frames = {f1, f2, f3, f4}
  Device = {dev}
  NOPAGE = NOPAGE
  PAGE_ALLOCATED = PAGE_ALLOCATED
  MaxLength = 2
  InvlpgOnUnmap = TRUE
SYMMETRY FrameSymmetry
INVARIANT RegionsDisjoint
\* the machine stops when memory or virtual space runs out
CHECK_DEADLOCK FALSE
