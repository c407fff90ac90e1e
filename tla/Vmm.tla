-------------------------------- MODULE Vmm --------------------------------
(***************************************************************************)
(* The kernel heap of src/kernel/x86/vmm.c under preemption: vmm_alloc     *)
(* (also behind mmap and thread_create), vmm_map, vmm_unmap and the page   *)
(* fault handler that backs a page when it is first written.               *)
(*                                                                         *)
(* Virtual pages are numbered from KERNEL_HEAP_BEGIN, lengths are in       *)
(* pages.  Any thread may be preempted between two steps, except inside    *)
(* the page fault handler: the IDT has interrupt gates, so IF is off until *)
(* its iret.  Page tables are made on demand too: the first write to a     *)
(* page table entry faults on the table.  pmm_alloc_page gives any free    *)
(* frame (AbstractPages).                                                  *)
(***************************************************************************)
EXTENDS Naturals, FiniteSets

CONSTANTS
  Threads, thread0,
  Mmappers,               \* threads that call mmap, or malloc
  Creators,               \* threads that call thread_create
  Mappers,                \* threads that call vmm_map and vmm_unmap
  KERNEL_HEAP_END,        \* in pages
  END_OF_MEMORY,          \* bound of the virtual pages in the model
  TABLE_SPAN,             \* pages that one page table maps
  Frames, Device,         \* physical pages of the allocator, and memory-mapped devices
  NOPAGE, PAGE_ALLOCATED, \* an empty entry, an entry vmm_alloc reserved
  MaxLength,              \* bound of a length in the model, and the length of a stack
  InvlpgOnUnmap           \* TRUE in the i386 build, FALSE in PAE and x86_64

ASSUME VmmAssumption ==
  /\ thread0 \in Threads
  /\ {KERNEL_HEAP_END, END_OF_MEMORY, TABLE_SPAN, MaxLength} \subseteq Nat \ {0}
  /\ KERNEL_HEAP_END <= END_OF_MEMORY
  /\ Frames \cap Device = {} /\ {NOPAGE, PAGE_ALLOCATED} \cap (Frames \cup Device) = {}
  /\ NOPAGE # PAGE_ALLOCATED /\ IsFiniteSet(Frames) /\ Device # {}
  /\ InvlpgOnUnmap \in BOOLEAN

VARIABLES
  next_alloc,
  pte,                    \* vmm_page_mappings_1, of the heap
  tables,                 \* vmm_page_mappings_2: the frame that holds each page table
  tlb,
  free,                   \* frames pmm_alloc_page can give
  pc, call,               \* of each thread, and its vmm_alloc in progress
  fault,                  \* of each thread: the page fault being handled
  regions,                \* what vmm_alloc returned
  sp,                     \* lowest page of its stack a thread has used
  content, last,          \* what a frame holds, what was last written to a page
  status

allocVars == <<next_alloc, pte, tables, tlb, free>>
dataVars == <<content, last>>
vars == <<allocVars, pc, call, fault, regions, sp, dataVars, status>>

VPages == 0..(END_OF_MEMORY - 1)
table(v) == v \div TABLE_SPAN

\* The locals of a call: i1 is the index of the entry that vmm_alloc writes.
Calls == [begin : Nat, end : Nat, p : Nat, i1 : Nat,
          kind : {"mmap", "stack", "map"}, arg : Threads]

\* vmm_alloc's loop, and whatever else its caller does before it returns.
MarkLoop == {"mark", "write", "invalidate", "advance"}
Busy == MarkLoop \cup {"map", "map_invalidate", "init_stack"}
Labels == Busy \cup {"none", "run", "unmap", "unmap_invalidate"}

NOFAULT == [on |-> "nothing", v |-> 0]

TypeOK ==
  /\ next_alloc \in Nat
  /\ pte \in [VPages -> Frames \cup Device \cup {NOPAGE, PAGE_ALLOCATED}]
  /\ tables \in [{table(v) : v \in VPages} -> Frames \cup {NOPAGE}]
  /\ tlb \in [VPages -> Frames \cup Device \cup {NOPAGE}]
  /\ free \subseteq Frames
  /\ pc \in [Threads -> Labels]
  /\ call \in [Threads -> Calls] /\ \A t \in Threads : call[t].p \in call[t].begin..call[t].end
  /\ fault \in [Threads -> [on : {"nothing", "page", "table"}, v : VPages]]
  /\ regions \subseteq Calls
  /\ sp \in [Threads -> Nat]
  /\ content \in [Frames -> Threads \cup {0}] /\ last \in [VPages -> Threads \cup {0}]
  /\ status \in {"up", "out of memory", "out of virtual space", "already there",
                 "unhandled page fault", "triple fault"}

\* Nothing is mapped in the heap, nor right behind it.
Init ==
  /\ next_alloc = 0
  /\ pte = [v \in VPages |-> NOPAGE]
  /\ tables = [i \in {table(v) : v \in VPages} |-> NOPAGE]
  /\ tlb = [v \in VPages |-> NOPAGE]
  /\ free = Frames
  /\ pc = [t \in Threads |-> IF t = thread0 \/ Creators = {} THEN "run" ELSE "none"]
  /\ call = [t \in Threads |-> [begin |-> 0, end |-> 0, p |-> 0, i1 |-> 0, kind |-> "mmap", arg |-> t]]
  /\ fault = [t \in Threads |-> NOFAULT]
  /\ regions = {}
  /\ sp = [t \in Threads |-> 0]
  /\ content = [f \in Frames |-> 0] /\ last = [v \in VPages |-> 0]
  /\ status = "up"

\* The same for a handler behind a trap gate, which leaves interrupts on.
may_run_trap_gate(t) == status = "up" /\ t \in Threads

\* The timer gives any thread the CPU, but not while a page fault is handled.
may_run(t) == status = "up" /\ \A u \in Threads \ {t} : fault[u] = NOFAULT

At(t, label) == may_run(t) /\ fault[t] = NOFAULT /\ pc[t] = label
Goto(t, label) == pc' = [pc EXCEPT ![t] = label]
Fault(t, what, v) == fault' = [fault EXCEPT ![t] = [on |-> what, v |-> v]]

present(e) == e \in Frames \cup Device
-----------------------------------------------------------------------------
(***************************************************************************)
(* vmm_alloc.  A length of 0 returns NULL at once and changes nothing.     *)
(***************************************************************************)
InProgress == {t \in Threads : pc[t] \in Busy}

vmm_alloc(t, length, kind, arg) ==
  /\ At(t, "run")
  /\ next_alloc + length <= END_OF_MEMORY          \* bound
  /\ call' = [call EXCEPT ![t] = [begin |-> next_alloc, end |-> next_alloc + length,
                                  p |-> next_alloc, i1 |-> 0, kind |-> kind, arg |-> arg]]
  /\ Goto(t, "mark")
  /\ UNCHANGED <<allocVars, fault, regions, sp, dataVars, status>>

\* A turn of the loop works on the page at next_alloc, which it reads three times: for
\* the index of the entry, for invlpg and to advance it.
index(t) ==
  /\ At(t, "mark") /\ call[t].p # call[t].end
  /\ next_alloc < END_OF_MEMORY                    \* bound
  /\ call' = [call EXCEPT ![t].i1 = next_alloc]
  /\ Goto(t, "write")
  /\ UNCHANGED <<allocVars, fault, regions, sp, dataVars, status>>

\* vmm_alloc in a build that reserves nothing in the page tables.
mark_nothing(t) ==
  /\ At(t, "write")
  /\ Goto(t, "invalidate")
  /\ UNCHANGED <<allocVars, call, fault, regions, sp, dataVars, status>>

\* The entry is reserved. Without a page table the write faults and is repeated.
mark(t) ==
  /\ At(t, "write")
  /\ LET i1 == call[t].i1
     IN  IF tables[table(i1)] = NOPAGE
         THEN Fault(t, "table", i1) /\ UNCHANGED <<pte, pc>>
         ELSE /\ pte' = [pte EXCEPT ![i1] = PAGE_ALLOCATED]
              /\ Goto(t, "invalidate")
              /\ UNCHANGED fault
  /\ UNCHANGED <<next_alloc, tables, tlb, free, call, regions, sp, dataVars, status>>

invalidate(t) ==
  /\ At(t, "invalidate")
  /\ next_alloc < END_OF_MEMORY                    \* bound
  /\ tlb' = [tlb EXCEPT ![next_alloc] = NOPAGE]
  /\ Goto(t, "advance")
  /\ UNCHANGED <<next_alloc, pte, tables, free, call, fault, regions, sp, dataVars, status>>

\* vmm_alloc in a build whose loop advances only its own copy.
advance_local(t) ==
  /\ At(t, "advance")
  /\ next_alloc' = IF call[t].p + 1 = call[t].end THEN call[t].begin ELSE next_alloc + 1
  /\ call' = [call EXCEPT ![t].p = @ + 1]
  /\ Goto(t, "mark")
  /\ UNCHANGED <<pte, tables, tlb, free, fault, regions, sp, dataVars, status>>

advance(t) ==
  /\ At(t, "advance")
  /\ next_alloc' = next_alloc + 1
  /\ call' = [call EXCEPT ![t].p = @ + 1]
  /\ Goto(t, "mark")
  /\ UNCHANGED <<pte, tables, tlb, free, fault, regions, sp, dataVars, status>>

\* The return to mmap.
return_mmap(t) ==
  /\ At(t, "mark") /\ call[t].p = call[t].end /\ call[t].kind = "mmap"
  /\ regions' = regions \cup {call[t]}
  /\ Goto(t, "run")
  /\ UNCHANGED <<allocVars, call, fault, sp, dataVars, status>>

\* The return to thread_create, which next writes the frames on top of the stack.
return_stack(t) ==
  /\ At(t, "mark") /\ call[t].p = call[t].end /\ call[t].kind = "stack"
  /\ Goto(t, "init_stack")
  /\ UNCHANGED <<allocVars, call, fault, regions, sp, dataVars, status>>

\* The return to vmm_map, which checks the bound now.
return_map(t) ==
  /\ At(t, "mark") /\ call[t].p = call[t].end /\ call[t].kind = "map"
  /\ IF call[t].end > KERNEL_HEAP_END
     THEN status' = "out of virtual space" /\ UNCHANGED <<pc, call>>
     ELSE Goto(t, "map") /\ call' = [call EXCEPT ![t].p = call[t].begin] /\ UNCHANGED status
  /\ UNCHANGED <<allocVars, fault, regions, sp, dataVars>>
-----------------------------------------------------------------------------
(***************************************************************************)
(* The callers: mmap, thread_create, vmm_map and vmm_unmap.                *)
(***************************************************************************)
mmap(t, length) == t \in Mmappers /\ vmm_alloc(t, length, "mmap", t)

thread_create(t, u) ==
  /\ t \in Creators /\ pc[u] = "none"
  /\ u \notin {call[c].arg : c \in {c \in InProgress : call[c].kind = "stack"}}
  /\ vmm_alloc(t, MaxLength, "stack", u)

\* thread_create writes through the top page of the new stack, as any code writes.
init_stack(t) ==
  /\ At(t, "init_stack")
  /\ LET top == call[t].end - 1
     IN  IF pte[top] = PAGE_ALLOCATED
         THEN Fault(t, "page", top) /\ UNCHANGED <<pc, sp, regions>>
         ELSE /\ pc' = [pc EXCEPT ![t] = "run", ![call[t].arg] = "run"]
              /\ sp' = [sp EXCEPT ![call[t].arg] = top]
              /\ regions' = regions \cup {call[t]}
              /\ UNCHANGED fault
  /\ UNCHANGED <<allocVars, call, dataVars, status>>

vmm_map(t, length) == t \in Mappers /\ vmm_alloc(t, length, "map", t)

\* A missing page table is made first, in every build. i386 has no other level; the
\* upper ones of PAE and x86_64 are there for the whole heap.
vmm_map_page(d, v) ==
  LET missing == tables[table(v)] = NOPAGE
  IN  IF missing /\ free = {}
      THEN status' = "out of memory" /\ UNCHANGED <<pte, tables, free>>
      ELSE IF present(pte[v])
      THEN status' = "already there" /\ UNCHANGED <<pte, tables, free>>
      ELSE /\ IF missing
              THEN \E f \in free : tables' = [tables EXCEPT ![table(v)] = f] /\ free' = free \ {f}
              ELSE UNCHANGED <<tables, free>>
           /\ pte' = [pte EXCEPT ![v] = d]
           /\ UNCHANGED status

\* A turn of vmm_map's loop, over the pages of a device: vmm_map_page, up to its invlpg.
map_page(t) ==
  /\ At(t, "map") /\ call[t].p # call[t].end
  /\ \E d \in Device : vmm_map_page(d, call[t].p)
  /\ pc' = IF status' = "up" THEN [pc EXCEPT ![t] = "map_invalidate"] ELSE pc
  /\ UNCHANGED <<next_alloc, tlb, call, fault, regions, sp, dataVars>>

\* The end of a turn of vmm_map's or vmm_unmap's loop.
next_turn(t, loop, invlpg) ==
  /\ tlb' = IF invlpg THEN [tlb EXCEPT ![call[t].p] = NOPAGE] ELSE tlb
  /\ call' = [call EXCEPT ![t].p = @ + 1]
  /\ Goto(t, loop)
  /\ UNCHANGED <<next_alloc, pte, tables, free, fault, regions, sp, dataVars, status>>

map_invalidate(t) == At(t, "map_invalidate") /\ next_turn(t, "map", TRUE)

vmm_map_return(t) ==
  /\ At(t, "map") /\ call[t].p = call[t].end
  /\ regions' = regions \cup {call[t]}
  /\ Goto(t, "run")
  /\ UNCHANGED <<allocVars, call, fault, sp, dataVars, status>>

\* vmm_unmap of a build that takes one page too many.
vmm_unmap_further(t, r) ==
  /\ t \in Mappers /\ At(t, "run") /\ r.kind = "map"
  /\ call' = [call EXCEPT ![t] = [r EXCEPT !.p = r.begin, !.end = @ + 1]]
  /\ regions' = regions \ {r}
  /\ Goto(t, "unmap")
  /\ UNCHANGED <<allocVars, fault, sp, dataVars, status>>

\* vmm_unmap of what vmm_map returned: its caller owns it no longer.
vmm_unmap(t, r) ==
  /\ t \in Mappers /\ At(t, "run") /\ r.kind = "map"
  /\ call' = [call EXCEPT ![t] = [r EXCEPT !.p = r.begin]]
  /\ regions' = regions \ {r}
  /\ Goto(t, "unmap")
  /\ UNCHANGED <<allocVars, fault, sp, dataVars, status>>

\* A turn of its loop: vmm_unmap_page clears the entry, and in the i386 build alone it
\* also invalidates the translation.
unmap_page(t) ==
  /\ At(t, "unmap") /\ call[t].p # call[t].end
  /\ pte' = [pte EXCEPT ![call[t].p] = NOPAGE]
  /\ Goto(t, "unmap_invalidate")
  /\ UNCHANGED <<next_alloc, tables, tlb, free, call, fault, regions, sp, dataVars, status>>

unmap_invalidate(t) ==
  At(t, "unmap_invalidate") /\ next_turn(t, "unmap", InvlpgOnUnmap)

vmm_unmap_return(t) ==
  /\ At(t, "unmap") /\ call[t].p = call[t].end
  /\ Goto(t, "run")
  /\ UNCHANGED <<allocVars, call, fault, regions, sp, dataVars, status>>
-----------------------------------------------------------------------------
(***************************************************************************)
(* Use of the memory, and the page fault.                                  *)
(***************************************************************************)
frame(v) == IF tlb[v] # NOPAGE THEN tlb[v] ELSE pte[v]

\* A thread writes to a page mmap returned; it reads nothing it has not written.
write(t, r, v) ==
  /\ At(t, "run") /\ r.kind = "mmap" /\ v \in r.begin..(r.end - 1)
  /\ IF present(frame(v))
     THEN /\ content' = [f \in Frames |-> IF f = frame(v) THEN t ELSE content[f]]
          /\ last' = [last EXCEPT ![v] = t]
          /\ UNCHANGED fault
     ELSE Fault(t, "page", v) /\ UNCHANGED dataVars
  /\ UNCHANGED <<allocVars, pc, call, regions, sp, status>>

\* A thread's calls reach the next page of its stack.  If that faults the CPU has
\* nowhere to push the exception frame: the gates switch no stacks.
push(t, r) ==
  /\ At(t, "run") /\ r.kind = "stack" /\ r.arg = t /\ sp[t] > r.begin
  /\ IF present(frame(sp[t] - 1))
     THEN sp' = [sp EXCEPT ![t] = @ - 1] /\ UNCHANGED status
     ELSE status' = "triple fault" /\ UNCHANGED sp
  /\ UNCHANGED <<allocVars, pc, call, fault, regions, dataVars>>

\* vmm_page_fault_handler: back a reserved page or a page table with a cleared frame.
vmm_page_fault_handler(t) ==
  /\ may_run(t) /\ fault[t] # NOFAULT
  /\ LET v == fault[t].v
         is_table == fault[t].on = "table"
     IN  IF ~is_table /\ pte[v] # PAGE_ALLOCATED
         THEN status' = "unhandled page fault" /\ UNCHANGED <<pte, tables, tlb, free, fault, content>>
         ELSE IF free = {}
         THEN status' = "out of memory" /\ UNCHANGED <<pte, tables, tlb, free, fault, content>>
         ELSE \E f \in free :
                /\ free' = free \ {f}
                /\ content' = [content EXCEPT ![f] = 0]
                /\ IF is_table
                   THEN /\ tables' = [tables EXCEPT ![table(v)] = f]
                        /\ UNCHANGED <<pte, tlb>>
                   ELSE /\ pte' = [pte EXCEPT ![v] = f]
                        /\ tlb' = [tlb EXCEPT ![v] = NOPAGE]
                        /\ UNCHANGED tables
                /\ fault' = [fault EXCEPT ![t] = NOFAULT]
                /\ UNCHANGED status
  /\ UNCHANGED <<next_alloc, pc, call, regions, sp, last>>

\* The CPU may remember a translation whenever there is one.
TlbFill(v) ==
  /\ status = "up" /\ present(pte[v]) /\ tlb[v] = NOPAGE
  /\ tlb' = [tlb EXCEPT ![v] = pte[v]]
  /\ UNCHANGED <<next_alloc, pte, tables, free, pc, call, fault, regions, sp, dataVars, status>>

Next ==
  \/ \E t \in Threads :
       \/ \E length \in 1..MaxLength : mmap(t, length) \/ vmm_map(t, length)
       \/ \E u \in Threads : thread_create(t, u)
       \/ index(t) \/ mark(t) \/ invalidate(t) \/ advance(t)
       \/ return_mmap(t) \/ return_stack(t) \/ return_map(t)
       \/ init_stack(t) \/ map_page(t) \/ map_invalidate(t) \/ vmm_map_return(t)
       \/ unmap_page(t) \/ unmap_invalidate(t) \/ vmm_unmap_return(t)
       \/ \E r \in regions : vmm_unmap(t, r) \/ push(t, r)
       \/ \E r \in regions, v \in VPages : write(t, r, v)
       \/ vmm_page_fault_handler(t)
  \/ \E v \in VPages : TlbFill(v)

Spec == Init /\ [][Next]_vars
-----------------------------------------------------------------------------
BackedPages == {v \in VPages : pte[v] \in Frames}
TableFrames == {tables[i] : i \in DOMAIN tables} \ {NOPAGE}

\* vmm.c: a frame backs one page or one page table or is free, and none leaks,
\* whatever threads fault on the same page while one allocates.
FramesAccounted ==
  LET backing == {pte[v] : v \in BackedPages}
  IN  /\ free \cup backing \cup TableFrames = Frames
      /\ Cardinality(free) + Cardinality(BackedPages)
           + Cardinality({i \in DOMAIN tables : tables[i] # NOPAGE}) = Cardinality(Frames)

\* vmm.c: what was last written to a page of a region is what the page holds.
ReadsBack ==
  \A r \in {r \in regions : r.kind = "mmap"} : \A v \in r.begin..(r.end - 1) :
    IF frame(v) \in Frames THEN content[frame(v)] = last[v] ELSE last[v] = 0

\* vmm.c: exhaustion stops the kernel, and a stack that grows past its backed pages
\* does (thread.c:286); two threads that fault on one page, or allocate while pages
\* are backed, do not.
FatalOnlyExhausted ==
  status \in {"up", "out of memory", "out of virtual space", "triple fault"}

\* vmm.c: vmm_alloc has made the page tables of a region by writing its entries, so
\* vmm_map never allocates a page itself: pmm_alloc_page, which locks nothing, is
\* only entered from the page fault handler, with interrupts off.
TablesFirst ==
  \A t \in Threads : pc[t] \in {"map", "map_invalidate"} =>
    \A v \in call[t].begin..(call[t].end - 1) : tables[table(v)] # NOPAGE

\* vmm.c:240, 469: what vmm_unmap_page leaves in the TLB hurts nobody in the builds
\* that do not invalidate: it is about an address that no region has any more and that
\* vmm_alloc will not give out again.
StaleIsNobodys ==
  \A v \in VPages : tlb[v] \notin {NOPAGE, pte[v]} =>
    v < next_alloc /\ \A r \in regions : v \notin r.begin..(r.end - 1)

\* vmm.h:64 "Unmap the specified virtual memory page": once vmm_unmap_page has done it,
\* the CPU does not reach anything there.
UnmappedIsGone ==
  \A v \in VPages \ {call[t].p : t \in {t \in Threads : pc[t] = "unmap_invalidate"}} :
    pte[v] = NOPAGE => tlb[v] = NOPAGE

\* vmm.h:74 "Alloc virtual memory": what it returns is nobody else's.
RegionsDisjoint ==
  \A r, s \in regions : r # s => r.end <= s.begin \/ s.end <= r.begin

\* vmm.h:75 "Returns NULL on failure": it returns memory of the heap only.
InsideHeap == \A r \in regions : r.end <= KERNEL_HEAP_END

\* thread.c:286: a thread can use the stack that was allocated for it.
StackUsable == status # "triple fault"
=============================================================================
