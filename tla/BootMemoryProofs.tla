-------------------------- MODULE BootMemoryProofs --------------------------
(***************************************************************************)
(* Theorems about BootMemory, for every page size, every position of the   *)
(* kernel image, both widths of physaddr_t and every memory map: what      *)
(* pmm_init leaves of the map, and what pmm_alloc_page then hands out.     *)
(*                                                                         *)
(* A region stands for the set of its pages, up to 4 GB when its end has   *)
(* wrapped to 0 (Left).  These sets and the pages handed out always are    *)
(* the usable pages of the entries seen so far, each once.                 *)
(***************************************************************************)
EXTENDS BootMemory, SequenceTheorems, FiniteSetTheorems, WellFoundedInduction, TLAPS

Aligned(a) == a % PAGE_SIZE = 0

PageRange(low, high) == {p \in Nat : Aligned(p) /\ low <= p /\ p < high}

\* The end of a region: 0 stands for 4 GB, but in a region that was drained up to it.
Top(r) == IF r.end = 0 /\ r.start # 0 THEN MEM_4_GB ELSE r.end

Left(r) == PageRange(r.start, Top(r))

Remaining == UNION {Left(s_free_memory[k]) : k \in DOMAIN s_free_memory}

\* The usable pages of one entry of the memory map, and of the entries seen so far.
EntryPages(e) ==
  {p \in Nat : /\ Aligned(p)
               /\ MEM_1_GB <= p /\ KernelImageEnd <= p
               /\ pae \/ p < MEM_4_GB
               /\ e.base <= p /\ p + PAGE_SIZE <= e.base + e.length}

Seen == UNION {EntryPages(_BootMemoryMap[k]) : k \in 1..(i - 1)}

\* Whole pages of a memory map m, of any kind.
Mapped(m) == {p \in Nat : Aligned(p) /\ \E k \in DOMAIN m : p + PAGE_SIZE <= m[k].base + m[k].length}

Region == [start : Nat, end : Nat]

RegionOK(r) ==
  /\ Aligned(r.start) /\ Aligned(r.end)
  /\ ~pae => r.start < MEM_4_GB /\ r.end < MEM_4_GB
  /\ r.start <= r.end \/ (~pae /\ r.end = 0)

TypeInv ==
  /\ pae \in BOOLEAN
  /\ _BootMemoryMap \in BootMaps
  /\ i \in 1..(Len(_BootMemoryMap) + 1)
  /\ s_free_memory \in Seq(Region)
  /\ s_free_memory_current \in 1..(Len(s_free_memory) + 1)
  /\ pmm_system_memory \in 0..(UINT64 - 1) /\ pmm_unavailable_memory \in 0..(UINT64 - 1)
  /\ phase \in {"init", "up", "no memory", "out of memory"}
  /\ handed \in Seq(Nat)

RegionInv ==
  /\ \A k \in DOMAIN s_free_memory : RegionOK(s_free_memory[k])
  /\ \A k \in DOMAIN s_free_memory :
       k < s_free_memory_current => s_free_memory[k].start = s_free_memory[k].end

\* Every usable page seen so far is in one region or was handed out, once.
OnceInv ==
  /\ Remaining \cup HandedSet = Seen
  /\ Remaining \cap HandedSet = {}
  /\ \A j, k \in DOMAIN s_free_memory :
       j # k => Left(s_free_memory[j]) \cap Left(s_free_memory[k]) = {}
  /\ \A j, k \in DOMAIN handed : handed[j] = handed[k] => j = k

CountInv == IsFiniteSet(Seen) /\ pmm_free_memory = PAGE_SIZE * Cardinality(Remaining)

PhaseInv ==
  /\ phase = "init" => handed = <<>> /\ s_free_memory_current = 1
  /\ phase # "init" => i = Len(_BootMemoryMap) + 1
  /\ phase \in {"no memory", "out of memory"} => Remaining = {}

IInv == TypeInv /\ RegionInv /\ OnceInv /\ CountInv /\ PhaseInv

\* A boot loader reports ranges of memory that do not overlap.
DisjointMaps ==
  \A m \in BootMaps : \A j, k \in DOMAIN m :
    j # k => \/ m[j].base + m[j].length <= m[k].base
             \/ m[k].base + m[k].length <= m[j].base
-----------------------------------------------------------------------------
(***************************************************************************)
(* Page arithmetic.                                                        *)
(***************************************************************************)
\* An aligned address is a multiple of the page size, and a multiple is aligned.
LEMMA Multiple ==
  /\ \A a \in Nat : Aligned(a) => \E n \in Nat : a = n * PAGE_SIZE
  /\ \A n \in Nat : n * PAGE_SIZE \in Nat /\ Aligned(n * PAGE_SIZE)
<1>1. ASSUME NEW a \in Nat, Aligned(a)
      PROVE  \E n \in Nat : a = n * PAGE_SIZE
  <2>1. a \div PAGE_SIZE \in Nat
    BY BootAssumption
  <2>2. a = PAGE_SIZE * (a \div PAGE_SIZE) + (a % PAGE_SIZE)
    BY BootAssumption
  <2>3. a = (a \div PAGE_SIZE) * PAGE_SIZE
    BY <1>1, <2>1, <2>2, BootAssumption DEF Aligned
  <2>q. QED
    BY <2>1, <2>3
<1>2. ASSUME NEW n \in Nat
      PROVE  n * PAGE_SIZE \in Nat /\ (n * PAGE_SIZE) % PAGE_SIZE = 0
  BY BootAssumption
<1>q. QED
  BY <1>1, <1>2 DEF Aligned

\* PAGE_ALIGN_DOWN gives the page that holds the address.
LEMMA AlignDown ==
  ASSUME NEW a \in Nat
  PROVE  /\ PAGE_ALIGN_DOWN(a) \in Nat /\ Aligned(PAGE_ALIGN_DOWN(a))
         /\ PAGE_ALIGN_DOWN(a) <= a /\ a < PAGE_ALIGN_DOWN(a) + PAGE_SIZE
<1>1. a \div PAGE_SIZE \in Nat /\ a % PAGE_SIZE \in 0..(PAGE_SIZE - 1)
  BY BootAssumption
<1>2. a = PAGE_SIZE * (a \div PAGE_SIZE) + (a % PAGE_SIZE)
  BY BootAssumption
<1>3. PAGE_ALIGN_DOWN(a) = (a \div PAGE_SIZE) * PAGE_SIZE
  BY <1>1, <1>2, BootAssumption DEF PAGE_ALIGN_DOWN
<1>4. PAGE_ALIGN_DOWN(a) <= a /\ a < PAGE_ALIGN_DOWN(a) + PAGE_SIZE
  BY <1>1, BootAssumption DEF PAGE_ALIGN_DOWN
<1>q. QED
  BY <1>1, <1>3, <1>4, Multiple

\* Two aligned addresses are a page apart at least; the next page is aligned.
LEMMA NextPage ==
  ASSUME NEW p \in Nat, NEW q \in Nat, Aligned(p), Aligned(q)
  PROVE  /\ Aligned(p + PAGE_SIZE)
         /\ p < q => p + PAGE_SIZE <= q
<1>1. PICK m \in Nat : p = m * PAGE_SIZE
  BY Multiple
<1>2. PICK n \in Nat : q = n * PAGE_SIZE
  BY Multiple
<1>3. p + PAGE_SIZE = (m + 1) * PAGE_SIZE
  BY <1>1, BootAssumption
<1>4. ASSUME p < q PROVE m + 1 <= n
  BY <1>1, <1>2, <1>4, BootAssumption
<1>5. ASSUME p < q PROVE (m + 1) * PAGE_SIZE <= n * PAGE_SIZE
  BY <1>4, <1>5, BootAssumption
<1>q. QED
  BY <1>2, <1>3, <1>5, Multiple

\* The pages whole below an end, and the pages from a start on.
LEMMA FitPage ==
  ASSUME NEW a \in Nat, NEW p \in Nat, Aligned(p)
  PROVE  /\ PAGE_ALIGN_UP(a) \in Nat /\ Aligned(PAGE_ALIGN_UP(a))
         /\ p + PAGE_SIZE <= a <=> p < PAGE_ALIGN_DOWN(a)
         /\ a <= p <=> PAGE_ALIGN_UP(a) <= p
<1> DEFINE d == PAGE_ALIGN_DOWN(a)
           b == a + PAGE_SIZE - 1
           u == PAGE_ALIGN_UP(a)
<1>1. d \in Nat /\ Aligned(d) /\ d <= a /\ a < d + PAGE_SIZE
  BY AlignDown
<1>2. b \in Nat
  BY BootAssumption
<1>3. u \in Nat /\ Aligned(u) /\ u <= b /\ b < u + PAGE_SIZE
  BY <1>2, AlignDown DEF PAGE_ALIGN_UP
<1> HIDE DEF d, u
<1>4. /\ p < d => p + PAGE_SIZE <= d
      /\ p < u => p + PAGE_SIZE <= u
  BY <1>1, <1>3, NextPage
<1>5. p + PAGE_SIZE <= a <=> p < d
  BY <1>1, <1>4, BootAssumption
<1>6. a <= p <=> u <= p
  BY <1>3, <1>4, BootAssumption
<1>q. QED
  BY <1>3, <1>5, <1>6 DEF d, u

\* The pages of a range between two aligned addresses make up its size.
LEMMA RangeSize ==
  ASSUME NEW low \in Nat, NEW high \in Nat, Aligned(low), Aligned(high), low <= high
  PROVE  /\ IsFiniteSet(PageRange(low, high))
         /\ PAGE_SIZE * Cardinality(PageRange(low, high)) = high - low
<1>1. PICK m \in Nat : low = m * PAGE_SIZE
  BY Multiple
<1>2. PICK n \in Nat : high = n * PAGE_SIZE
  BY Multiple
<1>3. m <= n
  BY <1>1, <1>2, BootAssumption
<1> DEFINE page == [k \in m..(n - 1) |-> k * PAGE_SIZE]
<1>4. \A k \in m..(n - 1) : k * PAGE_SIZE \in PageRange(low, high)
  <2> SUFFICES ASSUME NEW k \in m..(n - 1)
               PROVE  k * PAGE_SIZE \in PageRange(low, high)
    OBVIOUS
  <2>1. k \in Nat /\ m <= k /\ k < n
    OBVIOUS
  <2>2. m * PAGE_SIZE <= k * PAGE_SIZE /\ k * PAGE_SIZE < n * PAGE_SIZE
    BY <2>1, BootAssumption
  <2>q. QED
    BY <1>1, <1>2, <2>1, <2>2, Multiple DEF PageRange
<1>5. \A p \in PageRange(low, high) : \E k \in m..(n - 1) : p = k * PAGE_SIZE
  <2> SUFFICES ASSUME NEW p \in PageRange(low, high)
               PROVE  \E k \in m..(n - 1) : p = k * PAGE_SIZE
    OBVIOUS
  <2>1. PICK k \in Nat : p = k * PAGE_SIZE
    BY Multiple DEF PageRange
  <2>2. m * PAGE_SIZE <= k * PAGE_SIZE /\ k * PAGE_SIZE < n * PAGE_SIZE
    BY <1>1, <1>2, <2>1 DEF PageRange
  <2>3. m <= k /\ k < n
    BY <2>2, BootAssumption
  <2>q. QED
    BY <2>1, <2>3
<1>6. \A j, k \in m..(n - 1) : j * PAGE_SIZE = k * PAGE_SIZE => j = k
  BY BootAssumption
<1>7. page \in Bijection(m..(n - 1), PageRange(low, high))
  <2>1. page \in [m..(n - 1) -> PageRange(low, high)]
    BY <1>4
  <2>2. page \in Injection(m..(n - 1), PageRange(low, high))
    BY <2>1, <1>6 DEF Injection, IsInjective
  <2>3. page \in Surjection(m..(n - 1), PageRange(low, high))
    BY <2>1, <1>5 DEF Surjection
  <2>q. QED
    BY <2>2, <2>3 DEF Bijection
<1>8. IsFiniteSet(m..(n - 1)) /\ Cardinality(m..(n - 1)) = n - m
  <2>1. n - 1 \in Int /\ m \in Int
    OBVIOUS
  <2>2. /\ IsFiniteSet(m..(n - 1))
        /\ Cardinality(m..(n - 1)) = IF m > n - 1 THEN 0 ELSE n - 1 - m + 1
    BY <2>1, FS_Interval
  <2>q. QED
    BY <1>3, <2>2
<1>9. /\ IsFiniteSet(PageRange(low, high))
      /\ Cardinality(PageRange(low, high)) = n - m
  BY <1>7, <1>8, FS_Bijection DEF ExistsBijection
<1>10. PAGE_SIZE * (n - m) = high - low
  BY <1>1, <1>2, BootAssumption
<1>q. QED
  BY <1>9, <1>10
-----------------------------------------------------------------------------
(***************************************************************************)
(* What pmm_init leaves of an entry.                                       *)
(***************************************************************************)
\* The image starts on the page at 1 MB and takes whole pages below 4 GB.
LEMMA KernelPages ==
  /\ kernel_start = MEM_1_GB
  /\ kernel_end \in Nat /\ Aligned(kernel_end)
  /\ MEM_1_GB <= kernel_end /\ kernel_end <= MEM_4_GB
  /\ \A p \in Nat : Aligned(p) => (KernelImageEnd <= p <=> kernel_end <= p)
<1>1. MEM_1_GB \in Nat \ {0} /\ Aligned(MEM_1_GB) /\ MEM_4_GB \in Nat \ {0} /\ Aligned(MEM_4_GB)
  BY BootAssumption DEF Aligned
<1>2. KernelImageEnd \in Nat /\ MEM_1_GB <= KernelImageEnd /\ KernelImageEnd <= MEM_4_GB
  BY <1>1, BootAssumption
<1>3. kernel_start = MEM_1_GB
  BY <1>1, BootAssumption DEF kernel_start, PAGE_ALIGN_DOWN, Aligned
<1>4. /\ kernel_end \in Nat /\ Aligned(kernel_end)
      /\ \A p \in Nat : Aligned(p) => (KernelImageEnd <= p <=> kernel_end <= p)
  BY <1>1, <1>2, FitPage DEF kernel_end
<1>5. kernel_end <= MEM_4_GB
  BY <1>1, <1>2, <1>4
<1>6. KernelImageEnd <= kernel_end
  BY <1>2, <1>4
<1>q. QED
  BY <1>1, <1>2, <1>3, <1>4, <1>5, <1>6

\* The tests of pmm_init drop an entry without usable pages and cut the others to size.
LEMMA UsableEntry ==
  ASSUME NEW e \in [base : Nat, length : Nat], pae \in BOOLEAN
  PROVE  IF (~pae /\ first_page(e) >= MEM_4_GB) \/ usable(e).start >= usable(e).end
         THEN EntryPages(e) = {}
         ELSE /\ EntryPages(e) = PageRange(usable(e).start, usable(e).end)
              /\ usable(e) \in Region /\ usable(e).start # 0
              /\ Aligned(usable(e).start) /\ Aligned(usable(e).end)
              /\ ~pae => usable(e).end <= MEM_4_GB
<1> DEFINE f == first_page(e)
           l == last_end(e)
           ke == kernel_end
           low == IF f < MEM_1_GB THEN MEM_1_GB ELSE f
           high == IF ~pae /\ l > MEM_4_GB THEN MEM_4_GB ELSE l
           start == IF low >= MEM_1_GB /\ low < ke THEN ke ELSE low
           end == IF high >= MEM_1_GB /\ high < ke THEN MEM_1_GB ELSE high
<1>1. e.base \in Nat /\ e.length \in Nat /\ e.base + e.length \in Nat
  OBVIOUS
<1>2. /\ f \in Nat /\ Aligned(f)
      /\ \A p \in Nat : Aligned(p) => (e.base <= p <=> f <= p)
  BY <1>1, FitPage, BootAssumption DEF first_page, Aligned
<1>3. /\ l \in Nat /\ Aligned(l)
      /\ \A p \in Nat : Aligned(p) => (p + PAGE_SIZE <= e.base + e.length <=> p < l)
  BY <1>1, FitPage, AlignDown DEF last_end
<1>4. MEM_1_GB \in Nat \ {0} /\ Aligned(MEM_1_GB) /\ MEM_4_GB \in Nat \ {0} /\ Aligned(MEM_4_GB)
  BY BootAssumption DEF Aligned
<1>5. usable(e) = [start |-> start, end |-> end]
  BY KernelPages DEF usable
<1>6. \A p : p \in EntryPages(e) <=> /\ p \in Nat /\ Aligned(p) /\ MEM_1_GB <= p /\ ke <= p
                                     /\ pae \/ p < MEM_4_GB
                                     /\ f <= p /\ p < l
  BY <1>2, <1>3, KernelPages DEF EntryPages
<1>7. ke \in Nat /\ Aligned(ke) /\ MEM_1_GB <= ke /\ ke <= MEM_4_GB
  BY KernelPages
<1> HIDE DEF f, l, ke
<1>8. /\ start \in Nat /\ start # 0 /\ Aligned(start)
      /\ end \in Nat /\ Aligned(end)
      /\ ~pae => end <= MEM_4_GB
  BY <1>2, <1>3, <1>4, <1>7
<1>9. \A p \in Nat : (/\ MEM_1_GB <= p /\ ke <= p
                      /\ pae \/ p < MEM_4_GB
                      /\ f <= p /\ p < l) <=> (start <= p /\ p < end)
  BY <1>2, <1>3, <1>4, <1>7
<1>10. EntryPages(e) = PageRange(start, end)
  BY <1>6, <1>9 DEF PageRange
<1>11. start >= end => PageRange(start, end) = {}
  BY <1>8 DEF PageRange
<1>12. ~pae /\ f >= MEM_4_GB => EntryPages(e) = {}
  BY <1>2, <1>4, <1>6
<1> HIDE DEF start, end
<1>13. usable(e).start = start /\ usable(e).end = end
  BY <1>5
<1>q. QED
  BY <1>5, <1>8, <1>10, <1>11, <1>12, <1>13 DEF Region, f

\* Below the size of a physaddr_t nothing is cut off; 4 GB becomes 0.
LEMMA Narrow ==
  ASSUME NEW a \in Nat, pae \in BOOLEAN, ~pae => a <= MEM_4_GB
  PROVE  physaddr_t(a) = IF ~pae /\ a = MEM_4_GB THEN 0 ELSE a
<1>1. MEM_4_GB \in Nat \ {0}
  BY BootAssumption
<1>2. a < MEM_4_GB => a % MEM_4_GB = a
  BY <1>1
<1>3. MEM_4_GB % MEM_4_GB = 0
  BY <1>1
<1>q. QED
  BY <1>1, <1>2, <1>3 DEF physaddr_t

\* The pages of a region that pmm_init adds are those of the entry it comes from.
LEMMA NewRegion ==
  ASSUME pae \in BOOLEAN, NEW start \in Nat, NEW end \in Nat,
         Aligned(start), Aligned(end), start # 0, start < end, ~pae => end <= MEM_4_GB
  PROVE  LET r == [start |-> physaddr_t(start), end |-> physaddr_t(end)]
         IN  r \in Region /\ RegionOK(r) /\ Left(r) = PageRange(start, end)
<1> DEFINE r == [start |-> physaddr_t(start), end |-> physaddr_t(end)]
<1>1. MEM_4_GB \in Nat \ {0} /\ Aligned(0)
  BY BootAssumption DEF Aligned
<1>2. physaddr_t(start) = start
  BY <1>1, Narrow
<1>3. physaddr_t(end) = IF ~pae /\ end = MEM_4_GB THEN 0 ELSE end
  BY Narrow
<1>4. r.start = start /\ r.end = (IF ~pae /\ end = MEM_4_GB THEN 0 ELSE end)
  BY <1>2, <1>3
<1>5. r \in Region
  BY <1>2, <1>3 DEF Region
<1> HIDE DEF r
<1>6. RegionOK(r)
  <2>1. Aligned(r.start) /\ Aligned(r.end)
    BY <1>1, <1>4
  <2>2. ~pae => r.start < MEM_4_GB /\ r.end < MEM_4_GB
    BY <1>1, <1>4
  <2>3. r.start <= r.end \/ (~pae /\ r.end = 0)
    BY <1>1, <1>4
  <2>q. QED
    BY <2>1, <2>2, <2>3 DEF RegionOK
<1>7. Top(r) = end
  BY <1>4 DEF Top
<1>q. QED
  BY <1>4, <1>5, <1>6, <1>7 DEF r, Left

\* pmm_alloc_page takes the first page of a region, up to the last page below 4 GB.
LEMMA TakePage ==
  ASSUME pae \in BOOLEAN, NEW r \in Region, RegionOK(r), r.start # r.end
  PROVE  LET next == [r EXCEPT !.start = physaddr_t(r.start + PAGE_SIZE)]
         IN  /\ next \in Region /\ RegionOK(next)
             /\ r.start \in Left(r) /\ Left(next) = Left(r) \ {r.start}
<1> DEFINE p == r.start
           top == Top(r)
           next == [r EXCEPT !.start = physaddr_t(p + PAGE_SIZE)]
<1>1. /\ MEM_4_GB \in Nat \ {0} /\ Aligned(MEM_4_GB) /\ Aligned(0)
      /\ PAGE_SIZE \in Nat \ {0}
  BY BootAssumption DEF Aligned
<1>2. p \in Nat /\ r.end \in Nat /\ Aligned(p) /\ Aligned(r.end)
  BY DEF Region, RegionOK
<1>3. /\ top \in Nat /\ Aligned(top) /\ p < top
      /\ (~pae => top <= MEM_4_GB)
      /\ top = r.end \/ (~pae /\ r.end = 0 /\ p # 0 /\ top = MEM_4_GB)
  BY <1>1, <1>2 DEF Top, RegionOK
<1> HIDE DEF top
<1>4. p + PAGE_SIZE \in Nat /\ Aligned(p + PAGE_SIZE) /\ p + PAGE_SIZE <= top
  BY <1>1, <1>2, <1>3, NextPage
<1>5. physaddr_t(p + PAGE_SIZE) = IF ~pae /\ p + PAGE_SIZE = MEM_4_GB THEN 0 ELSE p + PAGE_SIZE
  <2>1. top \in Nat /\ MEM_4_GB \in Nat /\ (~pae => top <= MEM_4_GB)
    BY <1>1, <1>3
  <2>2. ~pae => p + PAGE_SIZE <= MEM_4_GB
    BY <2>1, <1>4
  <2>q. QED
    BY <2>2, <1>4, Narrow
<1>6. /\ next.start = IF ~pae /\ p + PAGE_SIZE = MEM_4_GB THEN 0 ELSE p + PAGE_SIZE
      /\ next.end = r.end /\ next \in Region
  BY <1>1, <1>2, <1>5 DEF Region
<1>7. p \in Left(r)
  BY <1>2, <1>3 DEF Left, PageRange, top
<1>8. Left(r) \ {p} = PageRange(p + PAGE_SIZE, top)
  <2>1. \A q \in Nat : Aligned(q) => (p < q <=> p + PAGE_SIZE <= q)
    BY <1>1, <1>2, NextPage
  <2>2. \A q \in Nat : p <= q /\ q # p <=> p < q
    BY <1>2
  <2>q. QED
    BY <2>1, <2>2 DEF Left, PageRange, top
<1> HIDE DEF next
<1>9. RegionOK(next)
  BY <1>1, <1>2, <1>3, <1>4, <1>6 DEF RegionOK
<1>10. Left(next) = PageRange(p + PAGE_SIZE, top)
  <2>1. CASE ~pae /\ p + PAGE_SIZE = MEM_4_GB
    <3>1. next.start = 0 /\ top = MEM_4_GB
      BY <1>1, <1>3, <1>4, <1>6, <2>1
    <3>2. next.end = 0 \/ next.end = MEM_4_GB
      BY <1>3, <1>6, <3>1
    <3>3. next.end # MEM_4_GB
      BY <1>1, <1>6, <2>1 DEF RegionOK
    <3>4. Top(next) = 0
      BY <3>1, <3>2, <3>3 DEF Top
    <3>5. Left(next) = {} /\ PageRange(p + PAGE_SIZE, top) = {}
      BY <1>1, <1>2, <2>1, <3>1, <3>4 DEF Left, PageRange
    <3>q. QED
      BY <3>5
  <2>2. CASE ~(~pae /\ p + PAGE_SIZE = MEM_4_GB)
    <3>1. next.start = p + PAGE_SIZE /\ next.start # 0
      BY <1>1, <1>2, <1>6, <2>2
    <3>2. Top(next) = top
      BY <1>1, <1>2, <1>3, <1>6, <3>1 DEF Top
    <3>q. QED
      BY <3>1, <3>2 DEF Left
  <2>q. QED
    BY <2>1, <2>2
<1>q. QED
  BY <1>6, <1>7, <1>8, <1>9, <1>10 DEF next

\* A region has pages left when its bounds differ.
LEMMA DrainedRegion ==
  ASSUME NEW r \in Region, r.start = r.end
  PROVE  Left(r) = {}
BY DEF Left, Top, PageRange, Region
-----------------------------------------------------------------------------
(***************************************************************************)
(* The pages of the memory map.                                            *)
(***************************************************************************)
\* The memory map is a sequence of ranges that end below 2^64.
LEMMA MapFacts ==
  ASSUME TypeInv
  PROVE  /\ Len(_BootMemoryMap) \in Nat /\ i \in Nat \ {0}
         /\ DOMAIN _BootMemoryMap = 1..Len(_BootMemoryMap)
         /\ \A k \in DOMAIN _BootMemoryMap :
              /\ _BootMemoryMap[k] \in [base : Nat, length : Nat]
              /\ _BootMemoryMap[k].base + _BootMemoryMap[k].length < UINT64
<1>1. _BootMemoryMap \in Seq([base : Nat, length : Nat])
  BY BootAssumption DEF TypeInv
<1>2. Len(_BootMemoryMap) \in Nat /\ DOMAIN _BootMemoryMap = 1..Len(_BootMemoryMap)
  BY <1>1
<1>3. \A k \in DOMAIN _BootMemoryMap : _BootMemoryMap[k] \in [base : Nat, length : Nat]
  BY <1>1, <1>2, ElementOfSeq
<1>4. \A k \in DOMAIN _BootMemoryMap :
        _BootMemoryMap[k].base + _BootMemoryMap[k].length < UINT64
  BY BootAssumption DEF TypeInv
<1>5. i \in 1..(Len(_BootMemoryMap) + 1)
  BY DEF TypeInv
<1>6. i \in Nat \ {0}
  BY <1>2, <1>5
<1>q. QED
  BY <1>2, <1>3, <1>4, <1>6

\* Sets of pages of a memory map are finite, and their size fits the counter.
LEMMA MappedSize ==
  ASSUME NEW m \in BootMaps, NEW S \in SUBSET Mapped(m)
  PROVE  /\ IsFiniteSet(S) /\ Cardinality(S) \in Nat
         /\ PAGE_SIZE * Cardinality(S) \in 0..(UINT64 - 1)
<1> DEFINE last == PAGE_ALIGN_DOWN(UINT64 - 1)
           T == PageRange(0, last)
<1>1. PAGE_SIZE \in Nat \ {0} /\ UINT64 \in Nat \ {0} /\ UINT64 - 1 \in Nat /\ Aligned(0)
  BY BootAssumption DEF Aligned
<1>2. last \in Nat /\ Aligned(last) /\ last <= UINT64 - 1
  BY <1>1, AlignDown
<1>3. S \subseteq T
  <2> SUFFICES ASSUME NEW p \in S PROVE p \in T
    OBVIOUS
  <2>1. PICK k \in DOMAIN m : p + PAGE_SIZE <= m[k].base + m[k].length
    BY DEF Mapped
  <2> DEFINE e == m[k]
  <2>2. m \in Seq([base : Nat, length : Nat]) /\ e.base + e.length < UINT64
    BY BootAssumption
  <2>3. e \in [base : Nat, length : Nat]
    <3>1. DOMAIN m = 1..Len(m) /\ Len(m) \in Nat
      BY <2>2
    <3>q. QED
      BY <3>1, <2>2, ElementOfSeq
  <2>4. p \in Nat /\ Aligned(p) /\ p + PAGE_SIZE <= e.base + e.length /\ e.base + e.length \in Nat
    BY <2>1, <2>3 DEF Mapped
  <2> HIDE DEF e
  <2>5. p + PAGE_SIZE <= UINT64 - 1
    BY <1>1, <2>2, <2>4
  <2>6. p < last
    BY <1>1, <2>4, <2>5, FitPage
  <2>q. QED
    BY <2>4, <2>6 DEF PageRange
<1> HIDE DEF last
<1>4. IsFiniteSet(T) /\ PAGE_SIZE * Cardinality(T) = last
  <2>1. 0 \in Nat /\ 0 <= last
    BY <1>2
  <2>2. /\ IsFiniteSet(PageRange(0, last))
        /\ PAGE_SIZE * Cardinality(PageRange(0, last)) = last - 0
    BY <1>1, <1>2, <2>1, RangeSize
  <2>q. QED
    BY <1>2, <2>2
<1> HIDE DEF T
<1>5. IsFiniteSet(S) /\ Cardinality(S) <= Cardinality(T)
  BY <1>3, <1>4, FS_Subset
<1>6. Cardinality(S) \in Nat /\ Cardinality(T) \in Nat
  BY <1>4, <1>5, FS_CardinalityType
<1>7. PAGE_SIZE * Cardinality(S) <= PAGE_SIZE * Cardinality(T)
  BY <1>1, <1>5, <1>6
<1>8. PAGE_SIZE * Cardinality(S) \in Nat
  BY <1>1, <1>6
<1>q. QED
  BY <1>1, <1>2, <1>4, <1>5, <1>6, <1>7, <1>8

\* The usable pages are pages of the memory map.
LEMMA SeenMapped ==
  ASSUME TypeInv
  PROVE  /\ Seen \subseteq Mapped(_BootMemoryMap)
         /\ \A k \in DOMAIN _BootMemoryMap :
              EntryPages(_BootMemoryMap[k]) \subseteq Mapped(_BootMemoryMap)
<1>1. \A k \in DOMAIN _BootMemoryMap : EntryPages(_BootMemoryMap[k]) \subseteq Mapped(_BootMemoryMap)
  BY DEF EntryPages, Mapped
<1>2. i \in 1..(Len(_BootMemoryMap) + 1)
  BY DEF TypeInv
<1>3. 1..(i - 1) \subseteq DOMAIN _BootMemoryMap
  BY <1>2, MapFacts
<1>q. QED
  BY <1>1, <1>3 DEF Seen

\* The next entry adds its pages.
LEMMA SeenNext ==
  ASSUME TypeInv, i <= Len(_BootMemoryMap), i' = i + 1, UNCHANGED <<pae, _BootMemoryMap>>
  PROVE  Seen' = Seen \cup EntryPages(_BootMemoryMap[i])
<1>1. i \in Nat /\ i >= 1
  BY MapFacts
<1>2. 1..(i' - 1) = 1..(i - 1) \cup {i}
  BY <1>1
<1>3. \A k : EntryPages(_BootMemoryMap[k])' = EntryPages(_BootMemoryMap[k])
  BY DEF EntryPages
<1>q. QED
  BY <1>2, <1>3 DEF Seen
-----------------------------------------------------------------------------
(***************************************************************************)
(* The invariant: one lemma per action.                                    *)
(***************************************************************************)
\* Before the first entry nothing was seen, and there is no region.
LEMMA InitInv == Init => IInv
<1> SUFFICES ASSUME Init PROVE IInv
  OBVIOUS
<1>1. TypeInv
  <2>1. Len(_BootMemoryMap) \in Nat
    BY BootAssumption DEF Init
  <2>2. s_free_memory \in Seq(Region) /\ handed \in Seq(Nat) /\ Len(s_free_memory) = 0
    BY EmptySeq DEF Init
  <2>3. 0 \in 0..(UINT64 - 1) /\ 1 \in 1..(Len(_BootMemoryMap) + 1) /\ 1 \in 1..(0 + 1)
    BY <2>1, BootAssumption
  <2>q. QED
    BY <2>2, <2>3 DEF Init, TypeInv
<1>2. DOMAIN s_free_memory = {} /\ DOMAIN handed = {} /\ 1..(i - 1) = {}
  BY DEF Init
<1>3. Remaining = {} /\ HandedSet = {} /\ Seen = {}
  BY <1>2 DEF Remaining, HandedSet, Seen
<1>4. RegionInv /\ OnceInv
  BY <1>2, <1>3 DEF RegionInv, OnceInv
<1>5. CountInv
  <2>1. PAGE_SIZE * 0 = 0
    BY BootAssumption
  <2>q. QED
    BY <1>3, <2>1, FS_EmptySet DEF CountInv, Init
<1>6. PhaseInv
  BY DEF PhaseInv, Init
<1>q. QED
  BY <1>1, <1>4, <1>5, <1>6 DEF IInv

\* No page of the next entry was seen before.
LEMMA Fresh ==
  ASSUME DisjointMaps, TypeInv, i \in DOMAIN _BootMemoryMap
  PROVE  Seen \cap EntryPages(_BootMemoryMap[i]) = {}
<1> SUFFICES ASSUME NEW p, p \in Seen, p \in EntryPages(_BootMemoryMap[i]) PROVE FALSE
  OBVIOUS
<1>1. PICK k \in 1..(i - 1) : p \in EntryPages(_BootMemoryMap[k])
  BY DEF Seen
<1>2. k \in DOMAIN _BootMemoryMap /\ k # i
  BY MapFacts
<1> DEFINE d == _BootMemoryMap[k]
           e == _BootMemoryMap[i]
<1>3. d.base + d.length <= e.base \/ e.base + e.length <= d.base
  BY <1>2 DEF DisjointMaps, TypeInv
<1>4. /\ d.base \in Nat /\ d.length \in Nat /\ e.base \in Nat /\ e.length \in Nat
      /\ PAGE_SIZE \in Nat \ {0}
  BY <1>2, MapFacts, BootAssumption
<1>5. /\ p \in Nat /\ d.base <= p /\ p + PAGE_SIZE <= d.base + d.length
      /\ e.base <= p /\ p + PAGE_SIZE <= e.base + e.length
  BY <1>1 DEF EntryPages
<1> HIDE DEF d, e
<1>q. QED
  BY <1>3, <1>4, <1>5

\* An entry is dropped, or becomes a region of its own.
LEMMA AddEntryInv ==
  ASSUME DisjointMaps, IInv, add_entry
  PROVE  IInv'
<1> DEFINE e == _BootMemoryMap[i]
           u == usable(e)
           r == [start |-> physaddr_t(u.start), end |-> physaddr_t(u.end)]
           dropped == (~pae /\ first_page(e) >= MEM_4_GB) \/ u.start >= u.end
<1>1. /\ TypeInv /\ pae \in BOOLEAN /\ s_free_memory \in Seq(Region)
      /\ phase = "init" /\ handed = <<>> /\ s_free_memory_current = 1
  BY DEF IInv, TypeInv, PhaseInv, add_entry
<1>2. i \in DOMAIN _BootMemoryMap /\ i \in Nat \ {0} /\ Len(_BootMemoryMap) \in Nat
  BY <1>1, MapFacts DEF add_entry
<1>3. e \in [base : Nat, length : Nat]
  BY <1>1, <1>2, MapFacts
<1>4. /\ i' = i + 1 /\ i <= Len(_BootMemoryMap)
      /\ UNCHANGED <<pae, _BootMemoryMap, s_free_memory_current, phase, handed>>
      /\ pmm_system_memory' = (pmm_system_memory + e.length) % UINT64
      /\ pmm_unavailable_memory' = (pmm_unavailable_memory + unavailable(e)) % UINT64
  BY DEF add_entry
<1>5. IF dropped THEN UNCHANGED <<s_free_memory, pmm_free_memory>>
      ELSE /\ s_free_memory' = Append(s_free_memory, r)
           /\ pmm_free_memory' = (pmm_free_memory + (u.end - u.start)) % UINT64
  BY DEF add_entry
<1>6. IF dropped THEN EntryPages(e) = {}
      ELSE /\ EntryPages(e) = PageRange(u.start, u.end)
           /\ u \in Region /\ u.start # 0
           /\ Aligned(u.start) /\ Aligned(u.end)
           /\ ~pae => u.end <= MEM_4_GB
  BY <1>1, <1>3, UsableEntry
<1>7. Seen' = Seen \cup EntryPages(e) /\ Seen \cap EntryPages(e) = {}
  BY <1>1, <1>2, <1>4, SeenNext, Fresh
<1>8. /\ pmm_system_memory' \in 0..(UINT64 - 1) /\ pmm_unavailable_memory' \in 0..(UINT64 - 1)
      /\ i' \in 1..(Len(_BootMemoryMap) + 1)
  <2>1. \A n \in Int : n % UINT64 \in 0..(UINT64 - 1)
    BY BootAssumption
  <2>2. pmm_system_memory + e.length \in Int
    BY <1>1, <1>3, BootAssumption, SMTT(30) DEF TypeInv
  <2>3. first_page(e) \in Int /\ last_end(e) \in Int
    <3>1. e.base \in Nat /\ e.base + e.length \in Nat /\ 0 \in Nat /\ Aligned(0)
      BY <1>3, BootAssumption DEF Aligned
    <3>q. QED
      BY <3>1, FitPage, AlignDown DEF first_page, last_end
  <2>4. pmm_unavailable_memory + unavailable(e) \in Int
    BY <1>1, <2>3, BootAssumption, SMTT(30) DEF TypeInv, unavailable
  <2>5. i' \in 1..(Len(_BootMemoryMap) + 1)
    BY <1>2, <1>4
  <2> HIDE DEF e
  <2>q. QED
    BY <2>1, <2>2, <2>4, <2>5, <1>4
<1>9. HandedSet = {} /\ HandedSet' = {} /\ DOMAIN handed = {}
  BY <1>1, <1>4 DEF HandedSet
<1> DEFINE n == Len(s_free_memory)
<1>10. n \in Nat /\ DOMAIN s_free_memory = 1..n
  BY <1>1
<1>11. /\ Remaining = Seen /\ IsFiniteSet(Seen)
       /\ pmm_free_memory = PAGE_SIZE * Cardinality(Seen)
       /\ \A k \in 1..n : RegionOK(s_free_memory[k])
       /\ \A j, k \in 1..n : j # k => Left(s_free_memory[j]) \cap Left(s_free_memory[k]) = {}
  BY <1>9, <1>10 DEF IInv, OnceInv, CountInv, RegionInv
<1>12. \A x : RegionOK(x)' <=> RegionOK(x)
  BY <1>4 DEF RegionOK
<1> HIDE DEF e, u, r, dropped, n
<1>13. CASE dropped
  <2>1. s_free_memory' = s_free_memory /\ pmm_free_memory' = pmm_free_memory /\ Seen' = Seen
    BY <1>5, <1>6, <1>7, <1>13
  <2>2. TypeInv'
    BY <1>1, <1>4, <1>8, <2>1 DEF TypeInv
  <2>3. Remaining' = Remaining
    BY <2>1 DEF Remaining
  <2>4. RegionInv'
    BY <1>4, <1>12, <2>1 DEF IInv, RegionInv
  <2>5. OnceInv'
    BY <1>4, <1>9, <2>1, <2>3 DEF IInv, OnceInv
  <2>6. CountInv' /\ PhaseInv'
    BY <1>1, <1>4, <2>1, <2>3 DEF IInv, CountInv, PhaseInv
  <2>q. QED
    BY <2>2, <2>4, <2>5, <2>6 DEF IInv
<1>14. CASE ~dropped
  <2>1. u.start \in Nat /\ u.end \in Nat /\ u.start < u.end
    BY <1>6, <1>14 DEF Region, dropped
  <2>2. r \in Region /\ RegionOK(r) /\ Left(r) = EntryPages(e)
    BY <1>1, <1>6, <1>14, <2>1, NewRegion DEF r
  <2>3. /\ s_free_memory' = Append(s_free_memory, r)
        /\ s_free_memory' \in Seq(Region) /\ Len(s_free_memory') = n + 1
        /\ DOMAIN s_free_memory' = 1..(n + 1)
        /\ \A k \in 1..n : s_free_memory'[k] = s_free_memory[k]
        /\ s_free_memory'[n + 1] = r
    BY <1>1, <1>5, <1>10, <1>14, <2>2, AppendProperties DEF n
  <2>4. 1..(n + 1) = 1..n \cup {n + 1} /\ n + 1 \notin 1..n
    BY <1>10
  <2>5. Remaining' = Seen'
    <3>1. Remaining' = UNION {Left(s_free_memory'[k]) : k \in 1..(n + 1)}
      BY <2>3 DEF Remaining
    <3>2. Remaining = UNION {Left(s_free_memory[k]) : k \in 1..n}
      BY <1>10 DEF Remaining
    <3>3. Remaining' = Remaining \cup Left(r)
      BY <3>1, <3>2, <2>3, <2>4
    <3>q. QED
      BY <3>3, <1>7, <1>11, <2>2
  <2>6. TypeInv'
    BY <1>1, <1>4, <1>8, <1>10, <2>3 DEF TypeInv
  <2>7. RegionInv'
    BY <1>1, <1>4, <1>11, <1>12, <2>2, <2>3, <2>4 DEF RegionInv
  <2>8. \A k \in 1..n : Left(s_free_memory[k]) \subseteq Seen
    BY <1>10, <1>11 DEF Remaining
  <2>9. OnceInv'
    <3>1. \A j, k \in 1..(n + 1) : j # k =>
            Left(s_free_memory'[j]) \cap Left(s_free_memory'[k]) = {}
      <4>1. \A k \in 1..n : Left(s_free_memory'[k]) \cap Left(s_free_memory'[n + 1]) = {}
        BY <1>7, <2>2, <2>3, <2>8
      <4>2. \A j, k \in 1..n : j # k => Left(s_free_memory'[j]) \cap Left(s_free_memory'[k]) = {}
        BY <1>11, <2>3
      <4>q. QED
        BY <4>1, <4>2, <2>4
    <3>q. QED
      BY <1>4, <1>9, <2>3, <2>5, <3>1 DEF OnceInv
  <2>10. IsFiniteSet(Seen') /\ PAGE_SIZE * Cardinality(Seen') \in 0..(UINT64 - 1)
    <3>1. _BootMemoryMap \in BootMaps /\ Seen' \in SUBSET Mapped(_BootMemoryMap)
      BY <1>1, <1>2, <1>7, SeenMapped DEF e, TypeInv
    <3>q. QED
      BY <3>1, MappedSize
  <2>11. PAGE_SIZE * Cardinality(Seen') = PAGE_SIZE * Cardinality(Seen) + (u.end - u.start)
    <3>1. /\ IsFiniteSet(EntryPages(e))
          /\ PAGE_SIZE * Cardinality(EntryPages(e)) = u.end - u.start
      BY <1>6, <1>14, <2>1, RangeSize
    <3>2. Cardinality(Seen') = Cardinality(Seen) + Cardinality(EntryPages(e)) - Cardinality({})
      BY <1>7, <1>11, <3>1, FS_Union
    <3>3. Cardinality(Seen) \in Nat /\ Cardinality(EntryPages(e)) \in Nat /\ Cardinality({}) = 0
      BY <1>11, <3>1, FS_CardinalityType, FS_EmptySet
    <3>q. QED
      BY <3>1, <3>2, <3>3, BootAssumption
  <2>12. pmm_free_memory' = PAGE_SIZE * Cardinality(Seen')
    <3>1. pmm_free_memory' = (PAGE_SIZE * Cardinality(Seen')) % UINT64
      BY <1>5, <1>11, <1>14, <2>11
    <3>2. \A m \in 0..(UINT64 - 1) : m % UINT64 = m
      BY BootAssumption
    <3>q. QED
      BY <2>10, <3>1, <3>2
  <2>13. CountInv' /\ PhaseInv'
    BY <1>1, <1>4, <2>5, <2>10, <2>12 DEF CountInv, PhaseInv
  <2>q. QED
    BY <2>6, <2>7, <2>9, <2>13 DEF IInv
<1>q. QED
  BY <1>13, <1>14

\* The map was read to its end; no counter, no region.
LEMMA InitDoneInv ==
  ASSUME IInv, init_done
  PROVE  IInv'
<1>1. /\ phase = "init" /\ i > Len(_BootMemoryMap)
      /\ phase' = IF pmm_free_memory = 0 THEN "no memory" ELSE "up"
      /\ UNCHANGED <<pae, _BootMemoryMap, i, s_free_memory, s_free_memory_current, handed>>
      /\ UNCHANGED <<pmm_system_memory, pmm_free_memory, pmm_unavailable_memory>>
  BY DEF init_done, counters
<1>2. TypeInv /\ i = Len(_BootMemoryMap) + 1
  <2>1. TypeInv /\ i \in 1..(Len(_BootMemoryMap) + 1)
    BY DEF IInv, TypeInv
  <2>2. Len(_BootMemoryMap) \in Nat
    BY <2>1, MapFacts
  <2>3. i > Len(_BootMemoryMap)
    BY <1>1
  <2> DEFINE n == Len(_BootMemoryMap)
  <2> HIDE DEF n
  <2>4. i \in 1..(n + 1) /\ i > n /\ n \in Nat
    BY <2>1, <2>2, <2>3 DEF n
  <2>5. i = n + 1
    BY <2>4
  <2>q. QED
    BY <2>1, <2>5 DEF n
<1>3. Remaining' = Remaining /\ HandedSet' = HandedSet /\ Seen' = Seen
  <2>1. \A k : EntryPages(_BootMemoryMap[k])' = EntryPages(_BootMemoryMap[k])
    BY <1>1 DEF EntryPages
  <2>q. QED
    BY <1>1, <2>1 DEF Remaining, HandedSet, Seen
<1>4. TypeInv'
  BY <1>1, <1>2 DEF TypeInv
<1>5. RegionInv' /\ OnceInv' /\ CountInv'
  BY <1>1, <1>3 DEF IInv, RegionInv, OnceInv, CountInv, RegionOK
<1>6. pmm_free_memory = 0 => Remaining = {}
  <2>1. IsFiniteSet(Remaining) /\ Cardinality(Remaining) \in Nat
    BY FS_Subset, FS_CardinalityType DEF IInv, OnceInv, CountInv
  <2>2. pmm_free_memory = PAGE_SIZE * Cardinality(Remaining)
    BY DEF IInv, CountInv
  <2>3. pmm_free_memory = 0 => Cardinality(Remaining) = 0
    BY <2>1, <2>2, BootAssumption
  <2>q. QED
    BY <2>1, <2>3, FS_EmptySet
<1>7. PhaseInv'
  BY <1>1, <1>2, <1>3, <1>6 DEF PhaseInv
<1>q. QED
  BY <1>4, <1>5, <1>7 DEF IInv

\* A set of numbers that is not empty has a smallest one.
LEMMA SmallestOf ==
  ASSUME NEW S \in SUBSET Nat, S # {}
  PROVE  \E x \in S : \A y \in S : x <= y
<1> DEFINE less == {ss \in Nat \X Nat : ss[1] < ss[2]}
<1>1. IsWellFoundedOn(less, Nat)
  BY NatLessThanWellFounded DEF OpToRel
<1> HIDE DEF less
<1>2. PICK x \in S : \A y \in S : <<y, x>> \notin less
  BY <1>1, WFMin
<1>3. \A y \in S : ~(y < x)
  BY <1>2 DEF less
<1>q. QED
  BY <1>3

\* The page comes off the first region that has one.
LEMMA AllocInv ==
  ASSUME IInv, pmm_alloc_page
  PROVE  IInv'
<1> DEFINE k == CHOOSE k \in not_empty : \A j \in not_empty : k <= j
           r == s_free_memory[k]
           page == r.start
           next == [r EXCEPT !.start = physaddr_t(page + PAGE_SIZE)]
           n == Len(s_free_memory)
           len == Len(handed)
<1>1. /\ TypeInv /\ pae \in BOOLEAN /\ s_free_memory \in Seq(Region) /\ handed \in Seq(Nat)
      /\ n \in Nat /\ DOMAIN s_free_memory = 1..n
      /\ len \in Nat /\ DOMAIN handed = 1..len
      /\ s_free_memory_current \in 1..(n + 1)
  <2>1. /\ TypeInv /\ pae \in BOOLEAN /\ s_free_memory \in Seq(Region) /\ handed \in Seq(Nat)
        /\ s_free_memory_current \in 1..(n + 1)
    BY DEF IInv, TypeInv
  <2>q. QED
    BY <2>1, LenProperties
<1>2. k \in not_empty /\ \A j \in not_empty : k <= j
  <2>1. not_empty # {} /\ not_empty \in SUBSET Nat
    BY <1>1 DEF pmm_alloc_page, not_empty
  <2>q. QED
    BY <2>1, SmallestOf
<1>3. /\ phase = "up"
      /\ s_free_memory_current' = k
      /\ s_free_memory' = [s_free_memory EXCEPT ![k].start = physaddr_t(page + PAGE_SIZE)]
      /\ handed' = Append(handed, page)
      /\ pmm_free_memory' = (pmm_free_memory - PAGE_SIZE) % UINT64
      /\ UNCHANGED <<pae, _BootMemoryMap, i, pmm_system_memory, pmm_unavailable_memory, phase>>
  BY DEF pmm_alloc_page
<1> HIDE DEF k
<1>4. k \in 1..n /\ r \in Region /\ RegionOK(r) /\ r.start # r.end /\ s_free_memory_current <= k
  <2>1. k \in 1..n /\ r.start # r.end /\ s_free_memory_current <= k
    BY <1>1, <1>2 DEF not_empty, has_pages
  <2>2. RegionOK(r)
    BY <1>1, <2>1 DEF IInv, RegionInv
  <2>q. QED
    BY <1>1, <2>1, <2>2, ElementOfSeq
<1>5. /\ next \in Region /\ RegionOK(next) /\ page \in Nat
      /\ page \in Left(r) /\ Left(next) = Left(r) \ {page}
  BY <1>1, <1>4, TakePage DEF Left, PageRange
<1>6. s_free_memory' = [s_free_memory EXCEPT ![k] = next]
  BY <1>1, <1>3, <1>4
<1>7. /\ s_free_memory' \in Seq(Region) /\ Len(s_free_memory') = n
      /\ DOMAIN s_free_memory' = 1..n
      /\ \A j \in 1..n : s_free_memory'[j] = IF j = k THEN next ELSE s_free_memory[j]
  BY <1>1, <1>4, <1>5, <1>6, ExceptSeq
<1>8. /\ handed' \in Seq(Nat) /\ Len(handed') = len + 1 /\ DOMAIN handed' = 1..(len + 1)
      /\ \A j \in 1..len : handed'[j] = handed[j]
      /\ handed'[len + 1] = page
  BY <1>1, <1>3, <1>5, AppendProperties
<1>9. 1..(len + 1) = 1..len \cup {len + 1} /\ len + 1 \notin 1..len
  BY <1>1
<1>10. HandedSet' = HandedSet \cup {page}
  <2>1. HandedSet = {handed[j] : j \in 1..len} /\ HandedSet' = {handed'[j] : j \in 1..(len + 1)}
    BY <1>1, <1>8 DEF HandedSet
  <2> HIDE DEF len, page
  <2>q. QED
    BY <1>8, <1>9, <2>1
<1>11. Seen' = Seen
  <2>1. \A j : EntryPages(_BootMemoryMap[j])' = EntryPages(_BootMemoryMap[j])
    BY <1>3 DEF EntryPages
  <2>q. QED
    BY <1>3, <2>1 DEF Seen
<1>12. /\ Remaining \cup HandedSet = Seen /\ Remaining \cap HandedSet = {}
       /\ \A j, l \in 1..n : j # l => Left(s_free_memory[j]) \cap Left(s_free_memory[l]) = {}
       /\ \A j, l \in 1..len : handed[j] = handed[l] => j = l
       /\ IsFiniteSet(Seen) /\ pmm_free_memory = PAGE_SIZE * Cardinality(Remaining)
  BY <1>1 DEF IInv, OnceInv, CountInv
<1>13. \A j \in 1..n : Left(s_free_memory[j]) \subseteq Remaining
  BY <1>1 DEF Remaining
<1>14. page \in Remaining
  BY <1>4, <1>5, <1>13
<1> HIDE DEF page, next, r, n, len
<1>15. Remaining' = Remaining \ {page}
  <2>1. Remaining' = UNION {Left(s_free_memory'[j]) : j \in 1..n}
    BY <1>7 DEF Remaining
  <2>2. Remaining = UNION {Left(s_free_memory[j]) : j \in 1..n}
    BY <1>1 DEF Remaining
  <2>3. \A j \in 1..n : Left(s_free_memory'[j]) = Left(s_free_memory[j]) \ {page}
    <3>1. \A j \in 1..n : j # k => page \notin Left(s_free_memory[j])
      BY <1>4, <1>5, <1>12 DEF r
    <3>q. QED
      BY <1>5, <1>7, <3>1 DEF r
  <2>q. QED
    BY <2>1, <2>2, <2>3
<1>16. TypeInv'
  <2>1. k \in 1..(n + 1)
    BY <1>1, <1>4
  <2>q. QED
    BY <1>1, <1>3, <1>7, <1>8, <2>1 DEF TypeInv
<1>17. RegionInv'
  <2>1. \A x : RegionOK(x)' <=> RegionOK(x)
    BY <1>3 DEF RegionOK
  <2>2. \A j \in 1..n : RegionOK(s_free_memory'[j])
    BY <1>1, <1>5, <1>7 DEF IInv, RegionInv
  <2>3. ASSUME NEW j \in 1..n, j < k
        PROVE  s_free_memory[j].start = s_free_memory[j].end
    <3>1. CASE j < s_free_memory_current
      BY <1>1, <3>1 DEF IInv, RegionInv
    <3>2. CASE ~(j < s_free_memory_current)
      <4>1. j \notin not_empty
        BY <1>2, <1>4, <2>3
      <4>2. j \in s_free_memory_current..Len(s_free_memory)
        BY <1>1, <3>2 DEF n
      <4>q. QED
        BY <4>1, <4>2 DEF not_empty, has_pages
    <3>q. QED
      BY <3>1, <3>2
  <2>4. \A j \in 1..n : j < k => s_free_memory'[j].start = s_free_memory'[j].end
    BY <1>4, <1>7, <2>3
  <2>q. QED
    BY <1>3, <1>7, <2>1, <2>2, <2>4 DEF RegionInv
<1>18. OnceInv'
  <2>1. Remaining' \cup HandedSet' = Seen' /\ Remaining' \cap HandedSet' = {}
    BY <1>10, <1>11, <1>12, <1>14, <1>15
  <2>2. \A j, l \in 1..n : j # l => Left(s_free_memory'[j]) \cap Left(s_free_memory'[l]) = {}
    <3>1. \A j \in 1..n : Left(s_free_memory'[j]) \subseteq Left(s_free_memory[j])
      BY <1>5, <1>7 DEF r
    <3>q. QED
      BY <1>12, <3>1
  <2>3. \A j, l \in 1..(len + 1) : handed'[j] = handed'[l] => j = l
    <3>1. \A j \in 1..len : handed[j] # page
      BY <1>1, <1>12, <1>14 DEF HandedSet
    <3>q. QED
      BY <1>8, <1>9, <1>12, <3>1
  <2>q. QED
    BY <1>7, <1>8, <2>1, <2>2, <2>3 DEF OnceInv
<1>19. CountInv'
  <2>1. _BootMemoryMap \in BootMaps /\ Remaining \in SUBSET Mapped(_BootMemoryMap)
    BY <1>1, <1>12, SeenMapped DEF TypeInv
  <2>2. /\ IsFiniteSet(Remaining) /\ Cardinality(Remaining) \in Nat
        /\ PAGE_SIZE * Cardinality(Remaining) \in 0..(UINT64 - 1)
    BY <2>1, MappedSize
  <2>3. Cardinality(Remaining') = Cardinality(Remaining) - 1
    BY <1>14, <1>15, <2>2, FS_RemoveElement
  <2>4. Cardinality(Remaining) # 0
    BY <1>14, <2>2, FS_EmptySet
  <2> DEFINE c == Cardinality(Remaining)
  <2>5. c \in Nat /\ c # 0 /\ PAGE_SIZE * c \in 0..(UINT64 - 1)
    BY <2>2, <2>4
  <2> HIDE DEF c
  <2>6. PAGE_SIZE * (c - 1) = PAGE_SIZE * c - PAGE_SIZE /\ PAGE_SIZE * (c - 1) \in Nat
    BY <2>5, BootAssumption
  <2>7. PAGE_SIZE * (c - 1) \in 0..(UINT64 - 1)
    BY <2>5, <2>6, BootAssumption
  <2>8. \A m \in 0..(UINT64 - 1) : m % UINT64 = m
    BY BootAssumption
  <2>9. (PAGE_SIZE * c - PAGE_SIZE) % UINT64 = PAGE_SIZE * (c - 1)
    BY <2>6, <2>7, <2>8
  <2>q. QED
    BY <1>3, <1>11, <1>12, <2>3, <2>9 DEF CountInv, c
<1>20. PhaseInv'
  BY <1>3 DEF PhaseInv, IInv
<1>q. QED
  BY <1>16, <1>17, <1>18, <1>19, <1>20 DEF IInv

\* The search passes every region only when all are drained.
LEMMA OutOfMemoryInv ==
  ASSUME IInv, out_of_memory
  PROVE  IInv'
<1> DEFINE n == Len(s_free_memory)
<1>1. /\ s_free_memory \in Seq(Region) /\ n \in Nat /\ DOMAIN s_free_memory = 1..n
      /\ s_free_memory_current \in 1..(n + 1)
  <2>1. s_free_memory \in Seq(Region) /\ s_free_memory_current \in 1..(n + 1)
    BY DEF IInv, TypeInv
  <2>q. QED
    BY <2>1, LenProperties
<1>2. /\ phase = "up" /\ not_empty = {} /\ phase' = "out of memory"
      /\ s_free_memory_current' = n + 1
      /\ UNCHANGED <<pae, _BootMemoryMap, i, s_free_memory, handed>>
      /\ UNCHANGED <<pmm_system_memory, pmm_free_memory, pmm_unavailable_memory>>
  BY DEF out_of_memory, counters
<1>3. ASSUME NEW k \in 1..n
      PROVE  s_free_memory[k].start = s_free_memory[k].end
  <2>1. CASE k < s_free_memory_current
    BY <1>1, <2>1 DEF IInv, RegionInv
  <2>2. CASE ~(k < s_free_memory_current)
    <3>1. k \in s_free_memory_current..Len(s_free_memory)
      BY <1>1, <2>2
    <3>q. QED
      BY <1>2, <3>1 DEF not_empty, has_pages
  <2>q. QED
    BY <2>1, <2>2
<1>4. Remaining = {}
  <2>1. \A k \in 1..n : Left(s_free_memory[k]) = {}
    BY <1>1, <1>3, ElementOfSeq, DrainedRegion
  <2>q. QED
    BY <1>1, <2>1 DEF Remaining
<1>5. Remaining' = Remaining /\ HandedSet' = HandedSet /\ Seen' = Seen
  <2>1. \A k : EntryPages(_BootMemoryMap[k])' = EntryPages(_BootMemoryMap[k])
    BY <1>2 DEF EntryPages
  <2>q. QED
    BY <1>2, <2>1 DEF Remaining, HandedSet, Seen
<1>6. TypeInv'
  <2>1. n + 1 \in 1..(n + 1)
    BY <1>1
  <2>q. QED
    BY <1>2, <2>1 DEF IInv, TypeInv
<1>7. RegionInv'
  <2>1. \A k \in DOMAIN s_free_memory' : RegionOK(s_free_memory[k])'
    BY <1>2 DEF IInv, RegionInv, RegionOK
  <2>q. QED
    BY <1>1, <1>2, <1>3, <2>1 DEF RegionInv
<1>8. OnceInv' /\ CountInv' /\ PhaseInv'
  BY <1>2, <1>4, <1>5 DEF IInv, OnceInv, CountInv, PhaseInv
<1>q. QED
  BY <1>6, <1>7, <1>8 DEF IInv
-----------------------------------------------------------------------------
(***************************************************************************)
(* The theorems.                                                           *)
(***************************************************************************)
\* Every step of the allocator keeps the pages of the map, each once.
LEMMA NextInv ==
  ASSUME DisjointMaps, IInv, [Next]_vars
  PROVE  IInv'
<1>1. CASE add_entry
  BY <1>1, AddEntryInv
<1>2. CASE init_done
  BY <1>2, InitDoneInv
<1>3. CASE pmm_alloc_page
  BY <1>3, AllocInv
<1>4. CASE out_of_memory
  BY <1>4, OutOfMemoryInv
<1>5. CASE UNCHANGED vars
  <2>1. /\ UNCHANGED <<pae, _BootMemoryMap, i, s_free_memory, s_free_memory_current, phase, handed>>
        /\ UNCHANGED <<pmm_system_memory, pmm_free_memory, pmm_unavailable_memory>>
    BY <1>5 DEF vars, counters
  <2>2. Remaining' = Remaining /\ HandedSet' = HandedSet /\ Seen' = Seen
    <3>1. \A k : EntryPages(_BootMemoryMap[k])' = EntryPages(_BootMemoryMap[k])
      BY <2>1 DEF EntryPages
    <3>q. QED
      BY <2>1, <3>1 DEF Remaining, HandedSet, Seen
  <2>3. TypeInv' /\ RegionInv'
    BY <2>1 DEF IInv, TypeInv, RegionInv, RegionOK
  <2>4. OnceInv' /\ CountInv' /\ PhaseInv'
    BY <2>1, <2>2 DEF IInv, OnceInv, CountInv, PhaseInv
  <2>q. QED
    BY <2>3, <2>4 DEF IInv
<1>q. QED
  BY <1>1, <1>2, <1>3, <1>4, <1>5 DEF Next

\* pmm.c: regions and pages handed out are the usable pages of the entries read so far.
THEOREM BootInvariance == DisjointMaps => (Spec => []IInv)
<1> SUFFICES ASSUME DisjointMaps PROVE Spec => []IInv
  OBVIOUS
<1>1. Init => IInv
  BY InitInv
<1>2. IInv /\ [Next]_vars => IInv'
  BY NextInv
<1>q. QED
  BY <1>1, <1>2, PTL DEF Spec

\* The reference and the invariant agree on which pages are usable.
LEMMA UsableSeen ==
  ASSUME IInv
  PROVE  /\ Seen \subseteq UsablePages
         /\ i = Len(_BootMemoryMap) + 1 => Seen = UsablePages
<1>1. TypeInv
  BY DEF IInv
<1> DEFINE n == Len(_BootMemoryMap)
<1>2. /\ n \in Nat /\ DOMAIN _BootMemoryMap = 1..n /\ i \in 1..(n + 1)
      /\ \A k \in 1..n : /\ _BootMemoryMap[k] \in [base : Nat, length : Nat]
                         /\ _BootMemoryMap[k].base \in Nat /\ _BootMemoryMap[k].length \in Nat
  BY <1>1, MapFacts DEF TypeInv
<1>3. /\ MEM_1_GB \in Nat \ {0} /\ MEM_4_GB \in Nat \ {0} /\ PAGE_SIZE \in Nat \ {0}
      /\ KernelImageStart = MEM_1_GB /\ KernelImageEnd \in Nat
  BY BootAssumption
<1> HIDE DEF n
<1>4. ASSUME NEW k \in 1..n, NEW p \in EntryPages(_BootMemoryMap[k])
      PROVE  p \in UsablePages
  <2> DEFINE e == _BootMemoryMap[k]
  <2>1. /\ p \in Nat /\ p % PAGE_SIZE = 0 /\ MEM_1_GB <= p /\ KernelImageEnd <= p
        /\ pae \/ p < MEM_4_GB
        /\ e.base <= p /\ p + PAGE_SIZE <= e.base + e.length
        /\ e.base \in Nat /\ e.length \in Nat
    BY <1>2 DEF EntryPages, Aligned
  <2>2. \E m \in EndOfMemory : p \in MEM_1_GB..m
    <3>1. CASE pae
      <4>1. e.base + e.length \in EndOfMemory
        BY <1>2, <3>1 DEF EndOfMemory
      <4> HIDE DEF e
      <4>2. p \in MEM_1_GB..(e.base + e.length)
        BY <1>3, <2>1
      <4>q. QED
        BY <4>1, <4>2
    <3>2. CASE ~pae
      <4>1. MEM_4_GB \in EndOfMemory /\ p \in MEM_1_GB..MEM_4_GB
        BY <1>3, <2>1, <3>2 DEF EndOfMemory
      <4>q. QED
        BY <4>1
    <3>q. QED
      BY <3>1, <3>2
  <2>3. p \in UNION {MEM_1_GB..m : m \in EndOfMemory}
    BY <2>2
  <2>4. \E j \in DOMAIN _BootMemoryMap :
          /\ _BootMemoryMap[j].base <= p
          /\ p + PAGE_SIZE <= _BootMemoryMap[j].base + _BootMemoryMap[j].length
    BY <1>2, <2>1
  <2> HIDE DEF e
  <2>q. QED
    BY <2>1, <2>3, <2>4 DEF UsablePages
<1>5. ASSUME NEW p \in UsablePages
      PROVE  \E k \in 1..n : p \in EntryPages(_BootMemoryMap[k])
  <2>1. /\ p \in UNION {MEM_1_GB..m : m \in EndOfMemory}
        /\ p % PAGE_SIZE = 0 /\ (pae \/ p < MEM_4_GB)
        /\ (p + PAGE_SIZE <= KernelImageStart \/ p >= KernelImageEnd)
    BY DEF UsablePages
  <2>2. PICK k \in 1..n : /\ _BootMemoryMap[k].base <= p
                          /\ p + PAGE_SIZE <= _BootMemoryMap[k].base + _BootMemoryMap[k].length
    BY <1>2 DEF UsablePages
  <2>3. p \in Int /\ MEM_1_GB <= p
    BY <2>1
  <2>4. p \in Nat /\ KernelImageEnd <= p
    BY <1>3, <2>1, <2>3
  <2>q. QED
    BY <2>1, <2>2, <2>3, <2>4 DEF EntryPages, Aligned
<1>6. 1..(i - 1) \subseteq 1..n /\ (i = n + 1 => 1..(i - 1) = 1..n)
  BY <1>2
<1>q. QED
  BY <1>4, <1>5, <1>6 DEF Seen, n

\* The pages handed out differ, so they are as many as were handed out.
LEMMA HandedSize ==
  ASSUME IInv
  PROVE  IsFiniteSet(HandedSet) /\ Cardinality(HandedSet) = Len(handed) /\ Len(handed) \in Nat
<1> DEFINE n == Len(handed)
<1>1. n \in Nat /\ DOMAIN handed = 1..n
  <2>1. handed \in Seq(Nat)
    BY DEF IInv, TypeInv
  <2>q. QED
    BY <2>1, LenProperties
<1> DEFINE page == [k \in 1..n |-> handed[k]]
<1>2. HandedSet = {page[k] : k \in 1..n}
  BY <1>1 DEF HandedSet
<1>3. \A j, k \in 1..n : page[j] = page[k] => j = k
  BY <1>1 DEF IInv, OnceInv
<1>4. page \in [1..n -> HandedSet]
  BY <1>2
<1> HIDE DEF page
<1>5. page \in Bijection(1..n, HandedSet)
  BY <1>2, <1>3, <1>4 DEF Bijection, Injection, Surjection, IsInjective
<1>6. IsFiniteSet(1..n) /\ Cardinality(1..n) = n
  <2>1. /\ IsFiniteSet(1..n) /\ Cardinality(1..n) = IF 1 > n THEN 0 ELSE n - 1 + 1
    BY <1>1, FS_Interval
  <2>q. QED
    BY <1>1, <2>1
<1>q. QED
  BY <1>1, <1>5, <1>6, FS_Bijection DEF ExistsBijection

\* pmm_alloc_page hands out usable pages only, each once.
THEOREM OnlyUsableOnceHolds == DisjointMaps => (Spec => []OnlyUsableOnce)
<1>1. IInv => OnlyUsableOnce
  BY UsableSeen, HandedSize DEF IInv, OnceInv, OnlyUsableOnce
<1>q. QED
  BY <1>1, BootInvariance, PTL

\* pmm.c gives up only when the last usable page is gone.
THEOREM NothingForgottenHolds == DisjointMaps => (Spec => []NothingForgotten)
<1>1. IInv => NothingForgotten
  <2> SUFFICES ASSUME IInv, phase \in {"no memory", "out of memory"}
               PROVE  HandedSet = UsablePages
    BY DEF NothingForgotten
  <2>1. i = Len(_BootMemoryMap) + 1 /\ Remaining = {} /\ Remaining \cup HandedSet = Seen
    BY DEF IInv, PhaseInv, OnceInv
  <2>q. QED
    BY <2>1, UsableSeen
<1>q. QED
  BY <1>1, BootInvariance, PTL

\* pmm.c:72 the counter "Free memory" is the size of the pages still to hand out.
THEOREM FreeMemoryExactHolds == DisjointMaps => (Spec => []FreeMemoryExact)
<1>1. IInv => FreeMemoryExact
  <2> SUFFICES ASSUME IInv, phase # "init"
               PROVE  pmm_free_memory = PAGE_SIZE * (Cardinality(UsablePages) - Len(handed))
    BY DEF FreeMemoryExact
  <2>1. /\ i = Len(_BootMemoryMap) + 1
        /\ Remaining \cup HandedSet = Seen /\ Remaining \cap HandedSet = {}
        /\ IsFiniteSet(Seen) /\ pmm_free_memory = PAGE_SIZE * Cardinality(Remaining)
    BY DEF IInv, PhaseInv, OnceInv, CountInv
  <2>2. IsFiniteSet(Remaining) /\ Cardinality(Remaining) \in Nat
    BY <2>1, FS_Subset, FS_CardinalityType
  <2>3. IsFiniteSet(HandedSet) /\ Cardinality(HandedSet) = Len(handed) /\ Len(handed) \in Nat
    BY HandedSize
  <2>4. Cardinality(Seen) = Cardinality(Remaining) + Cardinality(HandedSet) - Cardinality({})
    BY <2>1, <2>2, <2>3, FS_Union
  <2>5. Cardinality(Remaining) = Cardinality(UsablePages) - Len(handed)
    BY <2>1, <2>2, <2>3, <2>4, UsableSeen, FS_EmptySet
  <2>q. QED
    BY <2>1, <2>5
<1>q. QED
  BY <1>1, BootInvariance, PTL
=============================================================================
