\* One page table is enough for the stack, as in the i386 build, and unmapping
\* does not invalidate, as in the others.
SPECIFICATION Spec
CONSTANTS
  Pages = {p1, p2, p3, p4, p5, p6}
  NOPAGE = NOPAGE
  SLOTS = 2
  TABLE_SPAN = 3
  TABLES = 1
  BootPages <- Boot
  InvlpgOnUnmap = FALSE
INVARIANTS PagesAccounted StoredInFreePages NoStaleTranslation FatalOnlyWhenEmpty
PROPERTY ImplementsPages
\* the machine stops when there is no memory left
CHECK_DEADLOCK FALSE
