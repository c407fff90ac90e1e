\* thread0 creates a thread, allocates and maps; both write what it allocated. Unmapping
\* does not invalidate, as in the PAE and x86_64 builds.
SPECIFICATION Spec
CONSTANTS
  Threads = {t0, t1}
  thread0 = t0
  Mmappers = {t0}
  Creators = {t0}
  Mappers = {t0}
  KERNEL_HEAP_END = 4
  END_OF_MEMORY = 5
  TABLE_SPAN = 3
  Frames = {f1, f2, f3, f4}
  Device = {dev}
  NOPAGE = NOPAGE
  PAGE_ALLOCATED = PAGE_ALLOCATED
  MaxLength = 2
  InvlpgOnUnmap = FALSE
SYMMETRY FrameSymmetry
INVARIANTS FramesAccounted ReadsBack FatalOnlyExhausted TablesFirst StaleIsNobodys
\* the machine stops when memory or virtual space runs out
CHECK_DEADLOCK FALSE
