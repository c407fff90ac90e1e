----------------------------- MODULE BootMemory -----------------------------
(***************************************************************************)
(* The boot memory regions of src/kernel/x86/pmm.c: pmm_init turns the     *)
(* memory map of the boot loader into s_free_memory, and pmm_alloc_page    *)
(* hands out the pages of these regions once nothing was freed.            *)
(*                                                                         *)
(* Numbers keep their width: the counters are uint64_t (modulo UINT64) and *)
(* the bounds of a region physaddr_t, which in the 32-bit build without    *)
(* PAE cannot hold 4 GB itself.  The sizes are scaled down by the model,   *)
(* not by the module.                                                      *)
(***************************************************************************)
EXTENDS Integers, Sequences, FiniteSets

CONSTANTS
  PAGE_SIZE,
  MEM_1_GB, MEM_4_GB,     \* the source's names: the first one is 1 MB
  KernelImageStart, KernelImageEnd,
  UINT64,                 \* 2^64
  BootMaps                \* the possible _BootMemoryMap, sequences of [base, length]

ASSUME BootAssumption ==
  /\ PAGE_SIZE \in Nat \ {0} /\ UINT64 \in Nat \ {0}
  /\ \A n \in {MEM_1_GB, MEM_4_GB} : n \in Nat \ {0} /\ n % PAGE_SIZE = 0
  \* KERNEL_PHYSICAL_ADDRESS of kernel/CMakeLists.txt
  /\ KernelImageStart = MEM_1_GB /\ KernelImageEnd \in KernelImageStart..MEM_4_GB
  \* a range of the boot loader ends where 64 bits can say
  /\ \A m \in BootMaps :
       /\ m \in Seq([base : Nat, length : Nat])
       /\ \A k \in DOMAIN m : m[k].base + m[k].length < UINT64

VARIABLES
  pae,                    \* 64-bit physaddr_t: the PAE and x86_64 builds
  _BootMemoryMap, i,
  s_free_memory, s_free_memory_current,
  pmm_system_memory, pmm_free_memory, pmm_unavailable_memory,
  phase,                  \* "init", "up", "no memory" or "out of memory"
  handed                  \* the pages handed out so far

counters == <<pmm_system_memory, pmm_free_memory, pmm_unavailable_memory>>
vars == <<pae, _BootMemoryMap, i, s_free_memory, s_free_memory_current,
          counters, phase, handed>>

PAGE_ALIGN_DOWN(a) == a - (a % PAGE_SIZE)
PAGE_ALIGN_UP(a) == PAGE_ALIGN_DOWN(a + PAGE_SIZE - 1)
physaddr_t(a) == IF pae THEN a ELSE a % MEM_4_GB

kernel_start == PAGE_ALIGN_DOWN(KernelImageStart)
kernel_end == PAGE_ALIGN_UP(KernelImageEnd)

Init ==
  /\ pae \in BOOLEAN
  /\ _BootMemoryMap \in BootMaps
  /\ i = 1
  /\ s_free_memory = <<>> /\ s_free_memory_current = 1
  /\ pmm_system_memory = 0 /\ pmm_free_memory = 0 /\ pmm_unavailable_memory = 0
  /\ phase = "init"
  /\ handed = <<>>
-----------------------------------------------------------------------------
(***************************************************************************)
(* pmm_init, one entry of the memory map at a time.                        *)
(***************************************************************************)
first_page(e) == PAGE_ALIGN_UP(e.base)
last_end(e) == PAGE_ALIGN_DOWN(e.base + e.length)

\* Part of an entry the 32-bit build cannot address; end - start is unsigned.
unavailable(e) ==
  IF pae THEN 0
  ELSE IF first_page(e) >= MEM_4_GB THEN last_end(e) - first_page(e)
  ELSE IF last_end(e) > MEM_4_GB THEN last_end(e) - MEM_4_GB
  ELSE 0

\* pmm_init in a build that forgets the kernel image.
usable_with_kernel(e) ==
  LET start == IF first_page(e) < MEM_1_GB THEN MEM_1_GB ELSE first_page(e)
      end == IF ~pae /\ last_end(e) > MEM_4_GB THEN MEM_4_GB ELSE last_end(e)
  IN  [start |-> start, end |-> end]

\* pmm_init in a build that rounds the end of an entry up.
usable_rounded_up(e) ==
  LET low == IF first_page(e) < MEM_1_GB THEN MEM_1_GB ELSE first_page(e)
      high == PAGE_ALIGN_UP(e.base + e.length)
      end == IF ~pae /\ high > MEM_4_GB THEN MEM_4_GB ELSE high
  IN  [start |-> IF low >= kernel_start /\ low < kernel_end THEN kernel_end ELSE low,
       end |-> IF end >= kernel_start /\ end < kernel_end THEN kernel_start ELSE end]

\* What is left of an entry: below 4 GB, above the first 1 MB, off the kernel image.
usable(e) ==
  LET low == IF first_page(e) < MEM_1_GB THEN MEM_1_GB ELSE first_page(e)
      high == IF ~pae /\ last_end(e) > MEM_4_GB THEN MEM_4_GB ELSE last_end(e)
  IN  [start |-> IF low >= kernel_start /\ low < kernel_end THEN kernel_end ELSE low,
       end |-> IF high >= kernel_start /\ high < kernel_end THEN kernel_start ELSE high]

\* One turn of pmm_init's loop.  Its limit of 1000 regions is out of reach: the
\* boot code copies at most 256 entries.
add_entry ==
  /\ phase = "init" /\ i <= Len(_BootMemoryMap)
  /\ i' = i + 1
  /\ LET e == _BootMemoryMap[i]
         r == usable(e)
         too_high == ~pae /\ first_page(e) >= MEM_4_GB
     IN  /\ pmm_system_memory' = (pmm_system_memory + e.length) % UINT64
         /\ pmm_unavailable_memory' = (pmm_unavailable_memory + unavailable(e)) % UINT64
         /\ IF too_high \/ r.start >= r.end
            THEN UNCHANGED <<s_free_memory, pmm_free_memory>>
            ELSE /\ s_free_memory' = Append(s_free_memory,
                       [start |-> physaddr_t(r.start), end |-> physaddr_t(r.end)])
                 /\ pmm_free_memory' = (pmm_free_memory + (r.end - r.start)) % UINT64
  /\ UNCHANGED <<pae, _BootMemoryMap, s_free_memory_current, phase, handed>>

\* The end of pmm_init.
init_done ==
  /\ phase = "init" /\ i > Len(_BootMemoryMap)
  /\ phase' = IF pmm_free_memory = 0 THEN "no memory" ELSE "up"
  /\ UNCHANGED <<pae, _BootMemoryMap, i, s_free_memory, s_free_memory_current,
                 counters, handed>>
-----------------------------------------------------------------------------
(***************************************************************************)
(* pmm_alloc_page when its stack is empty.                                 *)
(***************************************************************************)
\* The region test of a build that takes the bounds to be ordered.
has_pages_less(r) == r.start < r.end

\* The bounds are compared with !=: a region that ends at 4 GB ends at 0.
has_pages(r) == r.start # r.end

\* The regions the while loop can stop at.
not_empty == {k \in s_free_memory_current..Len(s_free_memory) : has_pages(s_free_memory[k])}

pmm_alloc_page ==
  /\ phase = "up" /\ not_empty # {}
  /\ LET k == CHOOSE k \in not_empty : \A j \in not_empty : k <= j
         page == s_free_memory[k].start
     IN  /\ s_free_memory_current' = k
         /\ s_free_memory' = [s_free_memory EXCEPT ![k].start = physaddr_t(page + PAGE_SIZE)]
         /\ handed' = Append(handed, page)
  /\ pmm_free_memory' = (pmm_free_memory - PAGE_SIZE) % UINT64
  /\ UNCHANGED <<pae, _BootMemoryMap, i, pmm_system_memory, pmm_unavailable_memory, phase>>

\* No region has a page left: fatal("Out of physical memory").
out_of_memory ==
  /\ phase = "up" /\ not_empty = {}
  /\ s_free_memory_current' = Len(s_free_memory) + 1
  /\ phase' = "out of memory"
  /\ UNCHANGED <<pae, _BootMemoryMap, i, s_free_memory, counters, handed>>

Next == add_entry \/ init_done \/ pmm_alloc_page \/ out_of_memory

Spec == Init /\ [][Next]_vars
-----------------------------------------------------------------------------
(***************************************************************************)
(* The reference: which pages are the kernel's to hand out.                *)
(***************************************************************************)
EndOfMemory == IF pae THEN {e.base + e.length : e \in {_BootMemoryMap[k] : k \in DOMAIN _BootMemoryMap}}
               ELSE {MEM_4_GB}

UsablePages ==
  {p \in UNION {MEM_1_GB..n : n \in EndOfMemory} :
     /\ p % PAGE_SIZE = 0
     /\ pae \/ p < MEM_4_GB
     /\ p + PAGE_SIZE <= KernelImageStart \/ p >= KernelImageEnd
     /\ \E k \in DOMAIN _BootMemoryMap :
          LET e == _BootMemoryMap[k]
          IN  e.base <= p /\ p + PAGE_SIZE <= e.base + e.length}

HandedSet == {handed[k] : k \in DOMAIN handed}

TypeOK ==
  /\ pae \in BOOLEAN
  /\ i \in 1..(Len(_BootMemoryMap) + 1)
  /\ \A k \in DOMAIN s_free_memory : s_free_memory[k].start \in Nat /\ s_free_memory[k].end \in Nat
  /\ s_free_memory_current \in 1..(Len(s_free_memory) + 1)
  /\ \A n \in {pmm_system_memory, pmm_free_memory, pmm_unavailable_memory} : n \in 0..(UINT64 - 1)
  /\ phase \in {"init", "up", "no memory", "out of memory"}

\* pmm.c: a page handed out lies whole in available memory above 1 MB, holds no
\* byte of the kernel image, can be addressed by the build, and is handed out once.
OnlyUsableOnce ==
  /\ HandedSet \subseteq UsablePages
  /\ Cardinality(HandedSet) = Len(handed)

\* pmm.c: the kernel gives up only when the last usable page is gone.
NothingForgotten ==
  phase \in {"no memory", "out of memory"} => HandedSet = UsablePages

\* pmm.c:72 "Free memory": the counter is the size of the pages still to hand out.
FreeMemoryExact ==
  phase # "init" =>
    pmm_free_memory = PAGE_SIZE * (Cardinality(UsablePages) - Len(handed))

\* pmm.c:74 "Memory that can't be used" is a part of pmm.c:71 "Detected system memory".
UnavailableIsPart == pmm_unavailable_memory <= pmm_system_memory
=============================================================================
