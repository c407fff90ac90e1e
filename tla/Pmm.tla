-------------------------------- MODULE Pmm --------------------------------
(***************************************************************************)
(* The page stack of src/kernel/x86/pmm.c over the mapping functions of    *)
(* vmm.c.                                                                  *)
(*                                                                         *)
(* Free pages are recorded on a stack at a fixed virtual address.  The     *)
(* stack lives in the very pages it records: the page freed when the top   *)
(* is page aligned becomes the storage of the next SLOTS entries, itself   *)
(* the first.  Mapping it may need a page table, that is a page, from the  *)
(* allocator that is being called.                                         *)
(*                                                                         *)
(* The functions call each other, so they are operators on the state of    *)
(* memory, a record: "mem" is what the pages hold as far as the stack is   *)
(* concerned, "pte" and "tlb" the page a stack page is mapped to and what  *)
(* the CPU remembers of it, "page" the result of the last pmm_alloc_page.  *)
(* Interrupts do not matter here: see BootMemory for the boot regions and  *)
(* Vmm for preemption.                                                     *)
(***************************************************************************)
EXTENDS Naturals, Sequences, FiniteSets

CONSTANTS
  Pages,                  \* the physical pages pmm_init found
  NOPAGE,                 \* no page: an entry without PAGE_PRESENT
  SLOTS,                  \* stack entries in a page
  TABLE_SPAN,             \* stack pages one page table maps
  TABLES,                 \* page tables the stack may need
  BootPages,              \* the pages in the order of s_free_memory
  InvlpgOnUnmap           \* TRUE in the i386 build, FALSE in PAE and x86_64

ASSUME PmmAssumption ==
  /\ NOPAGE \notin Pages
  /\ {SLOTS, TABLE_SPAN, TABLES} \subseteq Nat \ {0}
  \* a page holds 512 or 1024 entries, and the stack's addresses go on after the first table
  /\ SLOTS > 1
  /\ TABLES > 1 \/ Cardinality(Pages) <= SLOTS * TABLE_SPAN + 1
  /\ BootPages \in Seq(Pages)
  \* BootMemory: every page is handed out, and once
  /\ IsFiniteSet(Pages) /\ Len(BootPages) = Cardinality(Pages)
  /\ {BootPages[k] : k \in DOMAIN BootPages} = Pages
  /\ InvlpgOnUnmap \in BOOLEAN

VARIABLES
  m,                      \* the state of memory and of the allocator
  owned                   \* pages callers have

vars == <<m, owned>>

StackPages == 0..(TABLE_SPAN * TABLES - 1)
Entry == Pages \cup {NOPAGE}
zeros == [k \in 0..(SLOTS - 1) |-> NOPAGE]

TypeOK ==
  /\ m \in [boot : Seq(Pages), top : Nat, pte : [StackPages -> Entry], tlb : [StackPages -> Entry],
            tables : [0..(TABLES - 1) -> Entry], mem : [Pages -> [0..(SLOTS - 1) -> Entry]],
            pmm_free_memory : Nat, page : Entry,
            status : {"up", "out of memory", "already there", "page fault"}]
  /\ owned \subseteq Pages

Init ==
  /\ m = [boot |-> BootPages, top |-> 0,
          pte |-> [v \in StackPages |-> NOPAGE], tlb |-> [v \in StackPages |-> NOPAGE],
          tables |-> [i \in 0..(TABLES - 1) |-> NOPAGE], mem |-> [p \in Pages |-> zeros],
          pmm_free_memory |-> Len(BootPages), page |-> NOPAGE, status |-> "up"]
  /\ owned = {}

fatal(s, why) == [s EXCEPT !.status = why]
-----------------------------------------------------------------------------
\* The page the CPU reaches at stack page v.
frame(s, v) == IF s.tlb[v] # NOPAGE THEN s.tlb[v] ELSE s.pte[v]

vmm_unmap_page(s, v) ==
  [s EXCEPT !.pte[v] = NOPAGE, !.tlb[v] = IF InvlpgOnUnmap THEN NOPAGE ELSE @]

\* pmm_alloc_page in a build that leaves the emptied stack page mapped.
pop_keeps_mapping(s) ==
  LET k == s.top - 1
      f == frame(s, k \div SLOTS)
  IN  IF f = NOPAGE THEN fatal(s, "page fault")
      ELSE [s EXCEPT !.top = k, !.page = s.mem[f][k % SLOTS], !.pmm_free_memory = @ - 1]

\* pmm_alloc_page in a build that reads the entry above the one it pops.
pop_reads_above(s) ==
  LET k == s.top - 1
      f == frame(s, k \div SLOTS)
      popped == [s EXCEPT !.top = k, !.pmm_free_memory = @ - 1,
                          !.page = s.mem[f][(k + 1) % SLOTS]]
  IN  IF f = NOPAGE THEN fatal(s, "page fault")
      ELSE IF k % SLOTS = 0 THEN vmm_unmap_page(popped, k \div SLOTS) ELSE popped

\* pmm_alloc_page, the stack: pop, and unmap a stack page that became empty.
pop(s) ==
  LET k == s.top - 1
      f == frame(s, k \div SLOTS)
      popped == [s EXCEPT !.top = k, !.page = s.mem[f][k % SLOTS], !.pmm_free_memory = @ - 1]
  IN  IF f = NOPAGE THEN fatal(s, "page fault")
      ELSE IF k % SLOTS = 0 THEN vmm_unmap_page(popped, k \div SLOTS) ELSE popped

\* pmm_alloc_page: the stack first, then the boot regions.
pmm_alloc_page(s) ==
  IF s.top # 0 THEN pop(s)
  ELSE IF s.boot # <<>>
       THEN [s EXCEPT !.boot = Tail(@), !.page = Head(s.boot), !.pmm_free_memory = @ - 1]
       ELSE fatal(s, "out of memory")

\* A table's 4 KB, cleared, hold the entries of the stack pages it maps.
add_table(s, i) ==
  [s EXCEPT !.tables[i] = s.page, !.mem[s.page] = zeros,
            !.pte = [v \in StackPages |-> IF v \div TABLE_SPAN = i THEN NOPAGE ELSE @[v]]]

\* vmm_map_page in a build that does not invalidate.
vmm_map_page_no_invlpg(s, page, v) ==
  LET i == v \div TABLE_SPAN
      a == IF s.tables[i] = NOPAGE THEN pmm_alloc_page(s) ELSE s
      r == IF s.tables[i] = NOPAGE /\ a.status = "up" THEN add_table(a, i) ELSE a
  IN  IF r.status # "up" THEN r
      ELSE IF r.pte[v] # NOPAGE THEN fatal(r, "already there")
      ELSE [r EXCEPT !.pte[v] = page]

\* vmm_map_page: a missing page table is allocated, then the entry is set.
vmm_map_page(s, page, v) ==
  LET i == v \div TABLE_SPAN
      a == IF s.tables[i] = NOPAGE THEN pmm_alloc_page(s) ELSE s
      r == IF s.tables[i] = NOPAGE /\ a.status = "up" THEN add_table(a, i) ELSE a
  IN  IF r.status # "up" THEN r
      ELSE IF r.pte[v] # NOPAGE THEN fatal(r, "already there")
      ELSE [r EXCEPT !.pte[v] = page, !.tlb[v] = NOPAGE]

\* *pmm_stack_top++ = page.
push(s, page) ==
  LET f == frame(s, s.top \div SLOTS)
  IN  IF f = NOPAGE THEN fatal(s, "page fault")
      ELSE [s EXCEPT !.mem[f][s.top % SLOTS] = page, !.top = @ + 1, !.pmm_free_memory = @ + 1]

\* pmm_free_page: vmm_map_page is called for the top as it was, the entry is
\* written at the top as it is afterwards.
pmm_free_page(s, page) ==
  LET r == IF s.top % SLOTS = 0 THEN vmm_map_page(s, page, s.top \div SLOTS) ELSE s
  IN  IF r.status # "up" THEN r ELSE push(r, page)
-----------------------------------------------------------------------------
\* A caller takes a page and clears it, like vmm_page_fault_handler.
take ==
  /\ m.status = "up"
  /\ LET a == pmm_alloc_page(m)
     IN  IF a.status # "up" THEN m' = a /\ UNCHANGED owned
         ELSE /\ m' = [a EXCEPT !.mem = [p \in Pages |-> IF p = a.page THEN zeros ELSE @[p]]]
              /\ owned' = owned \cup {a.page}

give_back(page) ==
  /\ m.status = "up"
  /\ m' = pmm_free_page(m, page)
  /\ owned' = IF m'.status = "up" THEN owned \ {page} ELSE owned

\* The CPU may load a translation whenever there is one, and forget it at any time.
TlbFill(v) ==
  /\ m.status = "up" /\ m.pte[v] # NOPAGE /\ m.tlb[v] = NOPAGE
  /\ m' = [m EXCEPT !.tlb[v] = m.pte[v]]
  /\ UNCHANGED owned

TlbEvict(v) ==
  /\ m.status = "up" /\ m.tlb[v] # NOPAGE
  /\ m' = [m EXCEPT !.tlb[v] = NOPAGE]
  /\ UNCHANGED owned

Next ==
  \/ take
  \/ \E page \in owned : give_back(page)
  \/ \E v \in StackPages : TlbFill(v) \/ TlbEvict(v)

Spec == Init /\ [][Next]_vars
-----------------------------------------------------------------------------
\* The page recorded in stack entry k, read from the page that stores it.
entry(k) == m.mem[m.pte[k \div SLOTS]][k % SLOTS]
Entries == 0..(m.top - 1)

BootSet == {m.boot[k] : k \in DOMAIN m.boot}
StackSet == {entry(k) : k \in Entries}
TableSet == {m.tables[i] : i \in DOMAIN m.tables} \ {NOPAGE}

\* pmm.c: each page is in one place, untouched, on the stack (in one entry), with
\* one caller or a page table, and none is lost; pmm_free_memory (pmm.c:72) counts
\* those that can be had.
PagesAccounted ==
  m.status = "up" =>
    /\ BootSet \cup StackSet \cup TableSet \cup owned = Pages
    /\ Len(m.boot) + m.top + Cardinality(TableSet) + Cardinality(owned) = Cardinality(Pages)
    /\ m.pmm_free_memory = Len(m.boot) + m.top

\* pmm.c:215 "Might as well use the page that is getting freed": a stack page in use
\* is stored in the page its own first entry records, so never in one that
\* is somebody's; stack pages above the top are not mapped.
StoredInFreePages ==
  m.status = "up" =>
    \A v \in StackPages :
      m.pte[v] = IF v * SLOTS < m.top THEN entry(v * SLOTS) ELSE NOPAGE

\* vmm.c: whatever the CPU remembers of a mapped stack page is true, although two
\* of the three builds do not invalidate what they unmap.
NoStaleTranslation ==
  \A v \in StackPages : m.pte[v] # NOPAGE => m.tlb[v] \in {NOPAGE, m.pte[v]}

\* pmm.h:58 "will always succeed (or never return)": it is only ever an empty
\* allocator that stops the machine.
FatalOnlyWhenEmpty ==
  m.status # "up" => m.status = "out of memory" /\ m.boot = <<>> /\ m.top = 0

\* vmm.c: "this should just be an assert", that there is nothing where a page is mapped.
NothingThereYet == m.status # "already there"

Abstract == INSTANCE AbstractPages WITH
  free <- BootSet \cup StackSet, used <- owned, kept <- TableSet

\* pmm.c: the stack and the boot regions together behave as AbstractPages.
ImplementsPages == Abstract!AbstractSpec
=============================================================================
