----------------------------- MODULE VmmProofs -----------------------------
(***************************************************************************)
(* Theorems about Vmm, for any number of threads, pages and frames, and    *)
(* for either build, when one thread allocates.  When two do, the regions  *)
(* overlap and frames leak: RegionsDisjoint and FramesAccounted fail.      *)
(*                                                                         *)
(* The pages in front of next_alloc are what was given out; nothing behind *)
(* it is backed, mapped or remembered by the CPU.  IInv says it in numbers *)
(* and in frames, AloneInv says what the calls in progress, the regions    *)
(* and the data have in common with the page tables.                       *)
(***************************************************************************)
EXTENDS Vmm, FiniteSetTheorems, TLAPS

Mapping == {"map", "map_invalidate"}
Unmapping == {"unmap", "unmap_invalidate"}
InCall == Busy \cup Unmapping
MidTurn == {"write", "invalidate", "advance", "map_invalidate", "unmap_invalidate"}

CallOK(t) ==
  LET c == call[t]
  IN  /\ pc[t] \in InCall => c.begin < c.end /\ c.end <= END_OF_MEMORY
      /\ pc[t] \in MarkLoop => c.p <= next_alloc
      /\ pc[t] \in InCall \ MarkLoop => c.end <= next_alloc
      /\ pc[t] \in MidTurn => c.p # c.end
      /\ pc[t] = "write" => c.i1 \in VPages
      /\ pc[t] \in Mapping => c.kind = "map"
      /\ pc[t] = "init_stack" => c.kind = "stack"

RegionOK(r) == r.begin < r.end /\ r.end <= END_OF_MEMORY /\ r.end <= next_alloc

\* One page fault is handled at a time, and what it is about stays as it was.
FaultOK(t) ==
  /\ fault[t].on = "nothing" => fault[t] = NOFAULT
  /\ fault[t] # NOFAULT => \A u \in Threads \ {t} : fault[u] = NOFAULT
  /\ fault[t].on = "page" => fault[t].v < next_alloc
  /\ fault[t].on = "table" => tables[table(fault[t].v)] = NOPAGE

\* A translation is stale only where vmm_unmap has been.
TlbOK(v) == tlb[v] \in {NOPAGE, pte[v]} \/ (pte[v] = NOPAGE /\ v < next_alloc)

PagesInv ==
  /\ \A v \in VPages : v >= next_alloc => ~present(pte[v])
  /\ \A v \in VPages : TlbOK(v)
  /\ \A v, w \in BackedPages : pte[v] = pte[w] => v = w
  /\ \A v \in BackedPages : pte[v] \notin free

IInv ==
  /\ TypeOK
  /\ \A t \in Threads : CallOK(t)
  /\ \A r \in regions : RegionOK(r)
  /\ \A t \in Threads : FaultOK(t)
  /\ PagesInv
  /\ FramesAccounted
-----------------------------------------------------------------------------
Allocators == Mmappers \cup Creators \cup Mappers
OneAllocates == \A t, u \in Allocators : t = u

Reserved(v) == pte[v] = PAGE_ALLOCATED /\ tables[table(v)] # NOPAGE
Usable(v) == pte[v] = PAGE_ALLOCATED \/ pte[v] \in Frames
\* A page of vmm_map's, before and after vmm_unmap_page.
Given(v) == pte[v] \in Device \cup {NOPAGE}

AloneCallOK(t) ==
  LET c == call[t]
  IN  /\ pc[t] \in InCall => t \in Allocators
      /\ pc[t] \in Busy => \A r \in regions : r.end <= c.begin
      /\ pc[t] \in MarkLoop =>
           next_alloc = c.p /\ \A v \in c.begin..(c.p - 1) : Reserved(v)
      /\ pc[t] = "write" => c.i1 = c.p
      /\ pc[t] \in {"invalidate", "advance"} => Reserved(c.p)
      /\ pc[t] \in Busy \ MarkLoop => next_alloc = c.end
      /\ pc[t] \in Mapping =>
           /\ \A v \in c.begin..(c.end - 1) : tables[table(v)] # NOPAGE
           /\ \A v \in c.begin..(c.p - 1) : pte[v] \in Device
           /\ \A v \in (c.p + 1)..(c.end - 1) : pte[v] = PAGE_ALLOCATED
           /\ c.p # c.end => IF pc[t] = "map" THEN pte[c.p] = PAGE_ALLOCATED ELSE pte[c.p] \in Device
      /\ pc[t] = "init_stack" => \A v \in c.begin..(c.end - 1) : Usable(v)
      /\ pc[t] \in Unmapping =>
           /\ \A v \in c.begin..(c.end - 1) : Given(v)
           /\ \A r \in regions : r.end <= c.begin \/ c.end <= r.begin

\* The faulting page is in no region that is still being made, but the stack's.
AloneFaultOK(t) ==
  fault[t].on = "page" =>
    /\ pte[fault[t].v] = PAGE_ALLOCATED
    /\ \A u \in Threads : pc[u] \in MarkLoop \cup Mapping => fault[t].v < call[u].begin

DataInv ==
  \A v \in VPages : IF pte[v] \in Frames THEN content[pte[v]] = last[v] ELSE last[v] = 0

RegionsInv ==
  /\ RegionsDisjoint
  /\ \A r \in regions : \A v \in r.begin..(r.end - 1) :
       IF r.kind = "map" THEN pte[v] \in Device ELSE Usable(v)

AloneInv ==
  /\ \A t \in Threads : AloneCallOK(t)
  /\ RegionsInv
  /\ \A t \in Threads : AloneFaultOK(t)
  /\ DataInv
  /\ FatalOnlyExhausted
-----------------------------------------------------------------------------
(***************************************************************************)
(* What the actions have in common.                                        *)
(***************************************************************************)
LEMMA ConstantFacts ==
  /\ END_OF_MEMORY \in Nat /\ END_OF_MEMORY > 0 /\ MaxLength \in Nat /\ MaxLength > 0
  /\ thread0 \in Threads /\ 0 \in VPages
  /\ \A v \in Nat : v \in VPages <=> v < END_OF_MEMORY
  /\ NOFAULT.on = "nothing" /\ NOFAULT \in [on : {"nothing", "page", "table"}, v : VPages]
<1>1. END_OF_MEMORY \in Nat /\ END_OF_MEMORY > 0 /\ MaxLength \in Nat /\ MaxLength > 0
  BY VmmAssumption
<1>2. 0 \in VPages /\ \A v \in Nat : v \in VPages <=> v < END_OF_MEMORY
  BY <1>1 DEF VPages
<1>3. QED
  BY <1>1, <1>2, VmmAssumption DEF NOFAULT

LEMMA PageKinds ==
  /\ PAGE_ALLOCATED \notin Frames \cup Device /\ NOPAGE \notin Frames \cup Device
  /\ NOPAGE # PAGE_ALLOCATED
  /\ \A d \in Device : d \notin Frames
BY VmmAssumption

LEMMA LabelFacts ==
  /\ {"run", "init_stack"} \cup MarkLoop \cup Mapping \cup Unmapping \subseteq Labels
  /\ Busy = MarkLoop \cup Mapping \cup {"init_stack"} /\ Busy \subseteq InCall
  /\ "run" \notin InCall /\ "none" \notin InCall
  /\ MarkLoop \cap Mapping = {} /\ MarkLoop \cap Unmapping = {} /\ Mapping \cap Unmapping = {}
  /\ "init_stack" \notin MarkLoop \cup Mapping \cup Unmapping
BY DEF Labels, Busy, MarkLoop, Mapping, Unmapping, InCall

LEMMA TypeFacts ==
  ASSUME TypeOK
  PROVE  /\ next_alloc \in Nat
         /\ \A t \in Threads : call[t] \in Calls /\ call[t].p \in call[t].begin..call[t].end
         /\ \A t \in Threads : fault[t] \in [on : {"nothing", "page", "table"}, v : VPages]
         /\ \A r \in Calls : /\ r.begin \in Nat /\ r.end \in Nat /\ r.p \in Nat /\ r.arg \in Threads
                             /\ r.kind \in {"mmap", "stack", "map"}
         /\ regions \subseteq Calls
BY DEF TypeOK, Calls

LEMMA AtFacts ==
  ASSUME NEW t \in Threads, NEW label, At(t, label)
  PROVE  status = "up" /\ pc[t] = label /\ \A u \in Threads : fault[u] = NOFAULT
BY DEF At, may_run

LEMMA GotoFacts ==
  ASSUME TypeOK, NEW t \in Threads, NEW label \in Labels, Goto(t, label)
  PROVE  /\ pc' \in [Threads -> Labels] /\ pc'[t] = label
         /\ \A u \in Threads \ {t} : pc'[u] = pc[u]
BY DEF TypeOK, Goto

\* The call of t becomes c.
LEMMA CallFacts ==
  ASSUME TypeOK, NEW t \in Threads, NEW c \in Calls, c.p \in c.begin..c.end,
         call' = [call EXCEPT ![t] = c]
  PROVE  /\ call' \in [Threads -> Calls]
         /\ \A u \in Threads : call'[u].p \in call'[u].begin..call'[u].end
         /\ call'[t] = c /\ \A u \in Threads \ {t} : call'[u] = call[u]
<1>1. /\ call' \in [Threads -> Calls] /\ call'[t] = c
      /\ \A u \in Threads \ {t} : call'[u] = call[u]
  BY DEF TypeOK
<1>2. \A u \in Threads : call'[u].p \in call'[u].begin..call'[u].end
  BY <1>1 DEF TypeOK
<1>3. QED
  BY <1>1, <1>2

\* What other threads do leaves a call as it was: they do not move next_alloc back.
LEMMA CallStays ==
  ASSUME TypeOK, NEW t \in Threads, CallOK(t),
         (pc'[t] = pc[t] /\ call'[t] = call[t]) \/ pc'[t] \notin InCall,
         next_alloc' \in Nat, next_alloc' >= next_alloc
  PROVE  CallOK(t)'
<1>1. /\ call[t].begin \in Nat /\ call[t].end \in Nat /\ call[t].p \in Nat
      /\ next_alloc \in Nat
  BY TypeFacts
<1>2. CASE pc'[t] \notin InCall
  BY <1>2 DEF CallOK, InCall, Busy, MarkLoop, MidTurn, Mapping, Unmapping
<1>3. CASE pc'[t] = pc[t] /\ call'[t] = call[t]
  <2>1. call[t].p <= next_alloc => call[t].p <= next_alloc'
    BY <1>1
  <2>2. call[t].end <= next_alloc => call[t].end <= next_alloc'
    BY <1>1
  <2>3. QED
    BY <1>3, <2>1, <2>2 DEF CallOK
<1>4. QED
  BY <1>2, <1>3

LEMMA RegionStays ==
  ASSUME TypeOK, NEW r \in regions, RegionOK(r), next_alloc' \in Nat, next_alloc' >= next_alloc
  PROVE  RegionOK(r)'
<1>1. r.begin \in Nat /\ r.end \in Nat /\ next_alloc \in Nat
  BY TypeFacts
<1>2. QED
  BY <1>1 DEF RegionOK

LEMMA NoFaultOK ==
  ASSUME \A u \in Threads : fault'[u] = NOFAULT
  PROVE  \A u \in Threads : FaultOK(u)'
BY DEF FaultOK, NOFAULT

\* An access that faults, which no other fault can be in the middle of.
LEMMA NewFaultOK ==
  ASSUME TypeOK, \A u \in Threads : fault[u] = NOFAULT,
         NEW t \in Threads, NEW what \in {"page", "table"}, NEW v \in VPages,
         Fault(t, what, v),
         what = "page" => v < next_alloc',
         what = "table" => tables'[table(v)] = NOPAGE
  PROVE  \A u \in Threads : FaultOK(u)'
<1>1. /\ fault'[t] = [on |-> what, v |-> v]
      /\ \A u \in Threads \ {t} : fault'[u] = NOFAULT
  BY DEF TypeOK, Fault
<1>2. FaultOK(t)'
  BY <1>1 DEF FaultOK
<1>3. ASSUME NEW u \in Threads \ {t}
      PROVE  FaultOK(u)'
  BY <1>1 DEF FaultOK, NOFAULT
<1>4. QED
  BY <1>2, <1>3

LEMMA NewFaultType ==
  ASSUME TypeOK, NEW t \in Threads, NEW what \in {"page", "table"}, NEW v \in VPages,
         Fault(t, what, v)
  PROVE  fault' \in [Threads -> [on : {"nothing", "page", "table"}, v : VPages]]
BY DEF TypeOK, Fault

LEMMA PagesStay ==
  ASSUME TypeOK, PagesInv, FramesAccounted, UNCHANGED <<pte, tables, tlb, free>>,
         next_alloc' \in Nat, next_alloc' >= next_alloc
  PROVE  PagesInv' /\ FramesAccounted'
<1>1. next_alloc \in Nat
  BY TypeFacts
<1>2. \A v \in VPages : /\ v \in Nat /\ (v >= next_alloc' => v >= next_alloc)
                        /\ v < next_alloc => v < next_alloc'
  BY <1>1 DEF VPages
<1>3. BackedPages' = BackedPages /\ TableFrames' = TableFrames
  BY DEF BackedPages, TableFrames
<1>4. PagesInv'
  BY <1>2, <1>3 DEF PagesInv, TlbOK, present
<1>5. FramesAccounted'
  BY <1>3 DEF FramesAccounted
<1>6. QED
  BY <1>4, <1>5

\* A step of t that leaves the page tables alone.
LEMMA QuietStep ==
  ASSUME IInv, TypeOK', NEW t \in Threads,
         UNCHANGED <<pte, tables, tlb, free>>, next_alloc' >= next_alloc,
         \A u \in Threads \ {t} : (pc'[u] = pc[u] /\ call'[u] = call[u]) \/ pc'[u] \notin InCall,
         CallOK(t)',
         \A r \in regions' : r \in regions \/ RegionOK(r)',
         \A u \in Threads : FaultOK(u)'
  PROVE  IInv'
<1>1. next_alloc' \in Nat
  BY DEF TypeOK
<1>2. \A u \in Threads : CallOK(u)'
  BY <1>1, CallStays DEF IInv
<1>3. \A r \in regions' : RegionOK(r)'
  BY <1>1, RegionStays DEF IInv
<1>4. PagesInv' /\ FramesAccounted'
  BY <1>1, PagesStay DEF IInv
<1>5. QED
  BY <1>2, <1>3, <1>4 DEF IInv
-----------------------------------------------------------------------------
(***************************************************************************)
(* The frames.                                                             *)
(***************************************************************************)
Tables == {i \in DOMAIN tables : tables[i] # NOPAGE}

LEMMA FiniteParts ==
  ASSUME TypeOK
  PROVE  /\ IsFiniteSet(free) /\ IsFiniteSet(BackedPages) /\ IsFiniteSet(Tables)
         /\ Cardinality(free) \in Nat /\ Cardinality(BackedPages) \in Nat
         /\ Cardinality(Tables) \in Nat
<1>1. IsFiniteSet(free)
  BY VmmAssumption, FS_Subset DEF TypeOK
<1>2. IsFiniteSet(VPages)
  BY ConstantFacts, FS_Interval DEF VPages
<1>3. IsFiniteSet(BackedPages)
  BY <1>2, FS_Subset DEF BackedPages
<1>4. IsFiniteSet({table(v) : v \in VPages})
  <2> DEFINE T == {table(v) : v \in VPages}
             f == [k \in 1..END_OF_MEMORY |-> table(k - 1)]
  <2>1. \A k \in 1..END_OF_MEMORY : k - 1 \in VPages
    BY ConstantFacts DEF VPages
  <2>2. \A v \in VPages : v + 1 \in 1..END_OF_MEMORY /\ (v + 1) - 1 = v
    BY ConstantFacts DEF VPages
  <2>3. f \in [1..END_OF_MEMORY -> T]
    BY <2>1
  <2>4. \A v \in VPages : f[v + 1] = table(v)
    BY <2>2
  <2>5. \A i \in T : \E k \in 1..END_OF_MEMORY : f[k] = i
    BY <2>2, <2>4
  <2> HIDE DEF f, T
  <2>6. ExistsSurjection(1..END_OF_MEMORY, T)
    BY <2>3, <2>5 DEF ExistsSurjection, Surjection
  <2>7. QED
    BY <2>6, ConstantFacts, FS_NatSurjection DEF T
<1>5. DOMAIN tables = {table(v) : v \in VPages}
  BY DEF TypeOK
<1>6. IsFiniteSet(Tables)
  BY <1>4, <1>5, FS_Subset DEF Tables
<1>7. QED
  BY <1>1, <1>3, <1>6, FS_CardinalityType

\* No page loses its frame, and none gets one.
SameBacked == \A v \in VPages : pte[v] \in Frames \/ pte'[v] \in Frames => pte'[v] = pte[v]

LEMMA SameBackedFacts ==
  ASSUME SameBacked
  PROVE  BackedPages' = BackedPages
         /\ \A v \in BackedPages : pte'[v] = pte[v]
BY DEF SameBacked, BackedPages

LEMMA AccountSame ==
  ASSUME FramesAccounted, SameBacked, UNCHANGED <<tables, free>>
  PROVE  FramesAccounted'
<1>1. BackedPages' = BackedPages /\ \A v \in BackedPages : pte'[v] = pte[v]
  BY SameBackedFacts
<1>2. {pte'[v] : v \in BackedPages'} = {pte[v] : v \in BackedPages}
  BY <1>1
<1>3. TableFrames' = TableFrames
  BY DEF TableFrames
<1>4. QED
  BY <1>1, <1>2, <1>3 DEF FramesAccounted

\* A free frame becomes a page table.
LEMMA AccountTable ==
  ASSUME TypeOK, FramesAccounted, SameBacked, NEW f \in free, NEW v \in VPages,
         tables[table(v)] = NOPAGE, tables' = [tables EXCEPT ![table(v)] = f],
         free' = free \ {f}
  PROVE  FramesAccounted'
<1> DEFINE i == table(v)
<1>1. BackedPages' = BackedPages /\ \A w \in BackedPages : pte'[w] = pte[w]
  BY SameBackedFacts
<1>2. {pte'[w] : w \in BackedPages'} = {pte[w] : w \in BackedPages}
  BY <1>1
<1>3. i \in DOMAIN tables /\ f \in Frames /\ f # NOPAGE
  <2>1. DOMAIN tables = {table(w) : w \in VPages}
    BY DEF TypeOK
  <2>2. i \in DOMAIN tables
    BY <2>1
  <2>3. f \in Frames /\ NOPAGE \notin Frames
    BY VmmAssumption DEF TypeOK
  <2>4. QED
    BY <2>2, <2>3
<1>4. DOMAIN tables' = DOMAIN tables /\ tables'[i] = f
      /\ \A j \in DOMAIN tables \ {i} : tables'[j] = tables[j]
  BY <1>3
<1> HIDE DEF i
<1>5. TableFrames' = TableFrames \cup {f}
  BY <1>3, <1>4 DEF TableFrames, i
<1>6. Tables' = Tables \cup {i} /\ i \notin Tables
  BY <1>3, <1>4 DEF Tables, i
<1>7. Cardinality(Tables') = Cardinality(Tables) + 1
  BY <1>6, FiniteParts, FS_AddElement
<1>8. Cardinality(free') = Cardinality(free) - 1
  BY FiniteParts, FS_RemoveElement
<1>9. free' \cup {pte'[w] : w \in BackedPages'} \cup TableFrames' = Frames
  BY <1>2, <1>5 DEF FramesAccounted
<1>10. Cardinality(free') + Cardinality(BackedPages') + Cardinality(Tables')
         = Cardinality(Frames)
  BY <1>1, <1>7, <1>8, FiniteParts DEF FramesAccounted, Tables
<1>11. QED
  BY <1>9, <1>10 DEF FramesAccounted, Tables

\* A free frame becomes a page.
LEMMA AccountPage ==
  ASSUME TypeOK, FramesAccounted, NEW f \in free, NEW v \in VPages, pte[v] \notin Frames,
         pte' = [pte EXCEPT ![v] = f], free' = free \ {f}, tables' = tables
  PROVE  FramesAccounted'
<1>1. f \in Frames /\ pte'[v] = f /\ \A w \in VPages \ {v} : pte'[w] = pte[w]
  BY DEF TypeOK
<1>2. BackedPages' = BackedPages \cup {v} /\ v \notin BackedPages
  BY <1>1 DEF BackedPages
<1>3. {pte'[w] : w \in BackedPages'} = {pte[w] : w \in BackedPages} \cup {f}
  <2>1. \A w \in BackedPages : w \in VPages \ {v}
    BY <1>2 DEF BackedPages
  <2>2. QED
    BY <1>1, <1>2, <2>1
<1>4. TableFrames' = TableFrames /\ Tables' = Tables
  BY DEF TableFrames, Tables
<1>5. Cardinality(BackedPages') = Cardinality(BackedPages) + 1
  BY <1>2, FiniteParts, FS_AddElement
<1>6. Cardinality(free') = Cardinality(free) - 1
  BY FiniteParts, FS_RemoveElement
<1>7. free' \cup {pte'[w] : w \in BackedPages'} \cup TableFrames' = Frames
  BY <1>3, <1>4 DEF FramesAccounted
<1>8. Cardinality(free') + Cardinality(BackedPages') + Cardinality(Tables')
        = Cardinality(Frames)
  BY <1>4, <1>5, <1>6, FiniteParts DEF FramesAccounted, Tables
<1>9. QED
  BY <1>7, <1>8 DEF FramesAccounted, Tables

LEMMA PagesSameBacked ==
  ASSUME TypeOK, PagesInv, SameBacked, next_alloc' \in Nat, next_alloc' >= next_alloc,
         free' \subseteq free,
         \A v \in VPages : pte'[v] = pte[v] \/ pte'[v] \notin Device \/ v < next_alloc',
         \A v \in VPages : TlbOK(v)'
  PROVE  PagesInv'
<1>1. \A v \in VPages : v \in Nat /\ (v >= next_alloc' => v >= next_alloc /\ ~(v < next_alloc'))
  BY TypeFacts DEF VPages
<1>2. BackedPages' = BackedPages /\ \A v \in BackedPages : pte'[v] = pte[v]
  BY SameBackedFacts
<1>3. \A v \in VPages : v >= next_alloc' => ~present(pte'[v])
  BY <1>1 DEF PagesInv, SameBacked, present
<1>4. QED
  BY <1>2, <1>3 DEF PagesInv, present
-----------------------------------------------------------------------------
(***************************************************************************)
(* The steps that leave the page tables alone.                             *)
(***************************************************************************)
LEMMA InitIInv == Init => IInv
<1> SUFFICES ASSUME Init PROVE IInv
  OBVIOUS
<1>1. /\ next_alloc = 0 /\ free = Frames /\ regions = {} /\ status = "up"
      /\ pte = [v \in VPages |-> NOPAGE]
      /\ tables = [i \in {table(v) : v \in VPages} |-> NOPAGE]
      /\ tlb = [v \in VPages |-> NOPAGE]
      /\ pc = [t \in Threads |-> IF t = thread0 \/ Creators = {} THEN "run" ELSE "none"]
      /\ call = [t \in Threads |-> [begin |-> 0, end |-> 0, p |-> 0, i1 |-> 0,
                                    kind |-> "mmap", arg |-> t]]
      /\ fault = [t \in Threads |-> NOFAULT]
      /\ sp = [t \in Threads |-> 0]
      /\ content = [f \in Frames |-> 0] /\ last = [v \in VPages |-> 0]
  BY DEF Init
<1>2. pc \in [Threads -> Labels]
  BY <1>1 DEF Labels
<1>3. pte \in [VPages -> Frames \cup Device \cup {NOPAGE, PAGE_ALLOCATED}]
  BY <1>1
<1>4. call \in [Threads -> Calls] /\ \A t \in Threads : call[t].p \in call[t].begin..call[t].end
  BY <1>1 DEF Calls
<1>5. fault \in [Threads -> [on : {"nothing", "page", "table"}, v : VPages]]
  BY <1>1, ConstantFacts
<1>6. TypeOK
  BY <1>1, <1>2, <1>3, <1>4, <1>5 DEF TypeOK
<1>7. \A t \in Threads : pc[t] \in {"run", "none"}
  BY <1>1
<1>8. \A t \in Threads : CallOK(t)
  BY <1>7 DEF CallOK, InCall, Busy, MarkLoop, MidTurn, Mapping, Unmapping
<1>9. \A t \in Threads : FaultOK(t)
  BY <1>1 DEF FaultOK, NOFAULT
<1>10. BackedPages = {} /\ \A v \in VPages : ~present(pte[v]) /\ TlbOK(v)
  BY <1>1, PageKinds DEF BackedPages, present, TlbOK
<1>11. PagesInv
  BY <1>10 DEF PagesInv
<1>12. TableFrames = {} /\ {i \in DOMAIN tables : tables[i] # NOPAGE} = {}
  BY <1>1 DEF TableFrames
<1>13. Cardinality(Frames) \in Nat
  BY VmmAssumption, FS_CardinalityType
<1>14. FramesAccounted
  <2>1. {pte[v] : v \in BackedPages} = {}
    BY <1>10
  <2>2. Cardinality({}) = 0
    BY FS_EmptySet
  <2>3. free \cup {pte[v] : v \in BackedPages} \cup TableFrames = Frames
    BY <1>1, <1>12, <2>1
  <2>4. Cardinality(free) + Cardinality(BackedPages)
          + Cardinality({i \in DOMAIN tables : tables[i] # NOPAGE}) = Cardinality(Frames)
    <3>1. /\ Cardinality(free) = Cardinality(Frames) /\ Cardinality(BackedPages) = 0
          /\ Cardinality({i \in DOMAIN tables : tables[i] # NOPAGE}) = 0
      BY <1>1, <1>10, <1>12, <2>2
    <3>2. Cardinality(Frames) + 0 + 0 = Cardinality(Frames)
      BY <1>13
    <3>3. QED
      BY <3>1, <3>2
  <2>5. QED
    BY <2>3, <2>4 DEF FramesAccounted
<1>15. QED
  BY <1>1, <1>6, <1>8, <1>9, <1>11, <1>14 DEF IInv

LEMMA VmmAllocInv ==
  ASSUME IInv, NEW t \in Threads, NEW length \in 1..MaxLength,
         NEW kind \in {"mmap", "stack", "map"}, NEW arg \in Threads,
         vmm_alloc(t, length, kind, arg)
  PROVE  IInv'
<1> DEFINE c == [begin |-> next_alloc, end |-> next_alloc + length, p |-> next_alloc,
                 i1 |-> 0, kind |-> kind, arg |-> arg]
<1>1. /\ At(t, "run") /\ next_alloc + length <= END_OF_MEMORY
      /\ call' = [call EXCEPT ![t] = c] /\ Goto(t, "mark")
      /\ next_alloc' = next_alloc /\ pte' = pte /\ tables' = tables /\ tlb' = tlb
      /\ free' = free /\ fault' = fault /\ regions' = regions /\ sp' = sp
      /\ content' = content /\ last' = last /\ status' = status
  BY DEF vmm_alloc, allocVars, dataVars
<1>2. TypeOK /\ next_alloc \in Nat /\ length \in Nat /\ length > 0
  BY TypeFacts, ConstantFacts DEF IInv
<1>3. c \in Calls /\ c.p \in c.begin..c.end
  BY <1>2 DEF Calls
<1>4. c.begin = next_alloc /\ c.end = next_alloc + length /\ c.p = next_alloc
  OBVIOUS
<1> HIDE DEF c
<1>5. /\ call' \in [Threads -> Calls]
      /\ \A u \in Threads : call'[u].p \in call'[u].begin..call'[u].end
      /\ call'[t] = c /\ \A u \in Threads \ {t} : call'[u] = call[u]
  BY <1>1, <1>2, <1>3, CallFacts
<1>6. "mark" \in Labels /\ "mark" \in MarkLoop
  BY DEF Labels, Busy, MarkLoop
<1>7. /\ pc' \in [Threads -> Labels] /\ pc'[t] = "mark"
      /\ \A u \in Threads \ {t} : pc'[u] = pc[u]
  BY <1>1, <1>2, <1>6, GotoFacts
<1>8. TypeOK'
  BY <1>1, <1>2, <1>5, <1>7 DEF TypeOK
<1>9. c.begin < c.end /\ c.end <= END_OF_MEMORY /\ c.p <= next_alloc' /\ next_alloc' >= next_alloc
  BY <1>1, <1>2, <1>4
<1>10. CallOK(t)'
  BY <1>5, <1>7, <1>9 DEF CallOK, InCall, Busy, MarkLoop, MidTurn, Mapping
<1>11. \A u \in Threads : FaultOK(u)'
  BY <1>1, AtFacts, NoFaultOK
<1>12. QED
  BY <1>1, <1>5, <1>7, <1>8, <1>9, <1>10, <1>11, QuietStep

LEMMA IndexInv ==
  ASSUME IInv, NEW t \in Threads, index(t)
  PROVE  IInv'
<1> DEFINE c == [call[t] EXCEPT !.i1 = next_alloc]
<1>1. /\ At(t, "mark") /\ call[t].p # call[t].end /\ next_alloc < END_OF_MEMORY
      /\ call' = [call EXCEPT ![t] = c] /\ Goto(t, "write")
      /\ next_alloc' = next_alloc /\ pte' = pte /\ tables' = tables /\ tlb' = tlb
      /\ free' = free /\ fault' = fault /\ regions' = regions /\ sp' = sp
      /\ content' = content /\ last' = last /\ status' = status
  BY DEF index, allocVars, dataVars
<1>2. TypeOK /\ next_alloc \in Nat /\ pc[t] = "mark"
  BY <1>1, TypeFacts, AtFacts DEF IInv
<1>3. call[t] \in Calls /\ call[t].p \in call[t].begin..call[t].end
  BY <1>2, TypeFacts
<1>4. /\ c \in Calls /\ c.p \in c.begin..c.end
      /\ c.begin = call[t].begin /\ c.end = call[t].end /\ c.p = call[t].p
      /\ c.i1 = next_alloc /\ c.kind = call[t].kind
  BY <1>2, <1>3 DEF Calls
<1> HIDE DEF c
<1>5. /\ call' \in [Threads -> Calls]
      /\ \A u \in Threads : call'[u].p \in call'[u].begin..call'[u].end
      /\ call'[t] = c /\ \A u \in Threads \ {t} : call'[u] = call[u]
  BY <1>1, <1>2, <1>4, CallFacts
<1>6. "write" \in Labels
  BY DEF Labels, Busy, MarkLoop
<1>7. /\ pc' \in [Threads -> Labels] /\ pc'[t] = "write"
      /\ \A u \in Threads \ {t} : pc'[u] = pc[u]
  BY <1>1, <1>2, <1>6, GotoFacts
<1>8. TypeOK'
  BY <1>1, <1>2, <1>5, <1>7 DEF TypeOK
<1>9. /\ call[t].begin < call[t].end /\ call[t].end <= END_OF_MEMORY
      /\ call[t].p <= next_alloc /\ next_alloc \in VPages /\ next_alloc' >= next_alloc
  <2>1. call[t].begin < call[t].end /\ call[t].end <= END_OF_MEMORY /\ call[t].p <= next_alloc
    BY <1>2 DEF IInv, CallOK, InCall, Busy, MarkLoop
  <2>2. next_alloc \in VPages /\ next_alloc' >= next_alloc
    BY <1>1, <1>2, ConstantFacts
  <2>3. QED
    BY <2>1, <2>2
<1>10. CallOK(t)'
  BY <1>1, <1>4, <1>5, <1>7, <1>9 DEF CallOK, InCall, Busy, MarkLoop, MidTurn, Mapping
<1>11. \A u \in Threads : FaultOK(u)'
  BY <1>1, AtFacts, NoFaultOK
<1>12. QED
  BY <1>1, <1>5, <1>7, <1>8, <1>9, <1>10, <1>11, QuietStep

\* The end of a turn of a loop, which goes on with the next page.
LEMMA NextPage ==
  ASSUME TypeOK, NEW t \in Threads, call' = [call EXCEPT ![t].p = @ + 1], call[t].p # call[t].end
  PROVE  /\ call' \in [Threads -> Calls]
         /\ \A u \in Threads : call'[u].p \in call'[u].begin..call'[u].end
         /\ call'[t].begin = call[t].begin /\ call'[t].end = call[t].end
         /\ call'[t].p = call[t].p + 1 /\ call'[t].kind = call[t].kind
         /\ \A u \in Threads \ {t} : call'[u] = call[u]
<1> DEFINE c == [call[t] EXCEPT !.p = @ + 1]
<1>1. /\ call[t] \in Calls /\ call[t].begin \in Nat /\ call[t].end \in Nat
      /\ call[t].p \in call[t].begin..call[t].end
  BY TypeFacts
<1>2. call[t].p + 1 \in call[t].begin..call[t].end
  BY <1>1
<1>3. /\ c \in Calls /\ c.begin = call[t].begin /\ c.end = call[t].end
      /\ c.p = call[t].p + 1 /\ c.kind = call[t].kind
  BY <1>1 DEF Calls
<1>4. call' = [call EXCEPT ![t] = c]
  OBVIOUS
<1> HIDE DEF c
<1>5. c.p \in c.begin..c.end
  BY <1>2, <1>3
<1>6. /\ call' \in [Threads -> Calls]
      /\ \A u \in Threads : call'[u].p \in call'[u].begin..call'[u].end
      /\ call'[t] = c /\ \A u \in Threads \ {t} : call'[u] = call[u]
  BY <1>3, <1>4, <1>5, CallFacts
<1>7. QED
  BY <1>3, <1>6

LEMMA AdvanceInv ==
  ASSUME IInv, NEW t \in Threads, advance(t)
  PROVE  IInv'
<1>1. /\ At(t, "advance") /\ next_alloc' = next_alloc + 1
      /\ call' = [call EXCEPT ![t].p = @ + 1] /\ Goto(t, "mark")
      /\ pte' = pte /\ tables' = tables /\ tlb' = tlb /\ free' = free /\ fault' = fault
      /\ regions' = regions /\ sp' = sp /\ content' = content /\ last' = last
      /\ status' = status
  BY DEF advance, dataVars
<1>2. TypeOK /\ next_alloc \in Nat /\ pc[t] = "advance"
  BY <1>1, TypeFacts, AtFacts DEF IInv
<1>3. call[t].p \in Nat
  BY <1>2, TypeFacts
<1>4. /\ call[t].begin < call[t].end /\ call[t].end <= END_OF_MEMORY
      /\ call[t].p <= next_alloc /\ call[t].p # call[t].end
  BY <1>2 DEF IInv, CallOK, InCall, Busy, MarkLoop, MidTurn
<1>5. /\ call' \in [Threads -> Calls]
      /\ \A u \in Threads : call'[u].p \in call'[u].begin..call'[u].end
      /\ call'[t].begin = call[t].begin /\ call'[t].end = call[t].end
      /\ call'[t].p = call[t].p + 1
      /\ \A u \in Threads \ {t} : call'[u] = call[u]
  BY <1>1, <1>2, <1>4, NextPage
<1>6. "mark" \in Labels
  BY DEF Labels, Busy, MarkLoop
<1>7. /\ pc' \in [Threads -> Labels] /\ pc'[t] = "mark"
      /\ \A u \in Threads \ {t} : pc'[u] = pc[u]
  BY <1>1, <1>2, <1>6, GotoFacts
<1>8. next_alloc' \in Nat /\ next_alloc' >= next_alloc /\ call[t].p + 1 <= next_alloc'
  BY <1>1, <1>2, <1>3, <1>4
<1>9. TypeOK'
  BY <1>1, <1>2, <1>5, <1>7, <1>8 DEF TypeOK
<1>10. CallOK(t)'
  BY <1>4, <1>5, <1>7, <1>8 DEF CallOK, InCall, Busy, MarkLoop, MidTurn, Mapping
<1>11. \A u \in Threads : FaultOK(u)'
  BY <1>1, AtFacts, NoFaultOK
<1>12. QED
  BY <1>1, <1>5, <1>7, <1>8, <1>9, <1>10, <1>11, QuietStep

\* What a call that has reserved all its pages leaves.
LEMMA ReturnFacts ==
  ASSUME IInv, NEW t \in Threads, pc[t] = "mark", call[t].p = call[t].end
  PROVE  /\ call[t].begin < call[t].end /\ call[t].end <= END_OF_MEMORY
         /\ call[t].end <= next_alloc
BY DEF IInv, CallOK, InCall, Busy, MarkLoop

\* A call that returns to its thread.
LEMMA RunOK ==
  ASSUME NEW t \in Threads, pc'[t] = "run"
  PROVE  CallOK(t)'
BY DEF CallOK, InCall, Busy, MarkLoop, MidTurn, Mapping, Unmapping

LEMMA ReturnMmapInv ==
  ASSUME IInv, NEW t \in Threads, return_mmap(t)
  PROVE  IInv'
<1>1. /\ At(t, "mark") /\ call[t].p = call[t].end /\ call[t].kind = "mmap"
      /\ regions' = regions \cup {call[t]} /\ Goto(t, "run")
      /\ next_alloc' = next_alloc /\ pte' = pte /\ tables' = tables /\ tlb' = tlb
      /\ free' = free /\ call' = call /\ fault' = fault /\ sp' = sp
      /\ content' = content /\ last' = last /\ status' = status
  BY DEF return_mmap, allocVars, dataVars
<1>2. TypeOK /\ next_alloc \in Nat /\ pc[t] = "mark" /\ call[t] \in Calls
  BY <1>1, TypeFacts, AtFacts DEF IInv
<1>3. /\ pc' \in [Threads -> Labels] /\ pc'[t] = "run"
      /\ \A u \in Threads \ {t} : pc'[u] = pc[u]
  BY <1>1, <1>2, GotoFacts, LabelFacts
<1>4. TypeOK'
  BY <1>1, <1>2, <1>3 DEF TypeOK
<1>5. RegionOK(call[t])'
  BY <1>1, <1>2, ReturnFacts DEF RegionOK
<1>6. CallOK(t)'
  BY <1>3, RunOK
<1>7. \A u \in Threads : FaultOK(u)'
  BY <1>1, AtFacts, NoFaultOK
<1>8. \A r \in regions' : r \in regions \/ RegionOK(r)'
  BY <1>1, <1>5
<1>9. next_alloc' >= next_alloc
  BY <1>1, <1>2
<1>10. QED
  BY <1>1, <1>3, <1>4, <1>6, <1>7, <1>8, <1>9, QuietStep

LEMMA ReturnStackInv ==
  ASSUME IInv, NEW t \in Threads, return_stack(t)
  PROVE  IInv'
<1>1. /\ At(t, "mark") /\ call[t].p = call[t].end /\ call[t].kind = "stack"
      /\ Goto(t, "init_stack")
      /\ next_alloc' = next_alloc /\ pte' = pte /\ tables' = tables /\ tlb' = tlb
      /\ free' = free /\ call' = call /\ fault' = fault /\ sp' = sp /\ regions' = regions
      /\ content' = content /\ last' = last /\ status' = status
  BY DEF return_stack, allocVars, dataVars
<1>2. TypeOK /\ next_alloc \in Nat /\ pc[t] = "mark"
  BY <1>1, TypeFacts, AtFacts DEF IInv
<1>3. /\ pc' \in [Threads -> Labels] /\ pc'[t] = "init_stack"
      /\ \A u \in Threads \ {t} : pc'[u] = pc[u]
  BY <1>1, <1>2, GotoFacts, LabelFacts
<1>4. TypeOK'
  BY <1>1, <1>2, <1>3 DEF TypeOK
<1>5. CallOK(t)'
  BY <1>1, <1>2, <1>3, ReturnFacts DEF CallOK, MarkLoop, MidTurn, Mapping
<1>6. \A u \in Threads : FaultOK(u)'
  BY <1>1, AtFacts, NoFaultOK
<1>7. next_alloc' >= next_alloc
  BY <1>1, <1>2
<1>8. QED
  BY <1>1, <1>3, <1>4, <1>5, <1>6, <1>7, QuietStep

LEMMA ReturnMapInv ==
  ASSUME IInv, NEW t \in Threads, return_map(t)
  PROVE  IInv'
<1>1. /\ At(t, "mark") /\ call[t].p = call[t].end /\ call[t].kind = "map"
      /\ next_alloc' = next_alloc /\ pte' = pte /\ tables' = tables /\ tlb' = tlb
      /\ free' = free /\ fault' = fault /\ sp' = sp /\ regions' = regions
      /\ content' = content /\ last' = last
  BY DEF return_map, allocVars, dataVars
<1>2. TypeOK /\ next_alloc \in Nat /\ pc[t] = "mark"
  BY <1>1, TypeFacts, AtFacts DEF IInv
<1>3. \A u \in Threads : FaultOK(u)'
  BY <1>1, AtFacts, NoFaultOK
<1>4. next_alloc' >= next_alloc
  BY <1>1, <1>2
<1>5. CASE call[t].end > KERNEL_HEAP_END
  <2>1. status' = "out of virtual space" /\ pc' = pc /\ call' = call
    BY <1>5 DEF return_map
  <2>2. TypeOK'
    BY <1>1, <1>2, <2>1 DEF TypeOK
  <2>3. CallOK(t)'
    BY <1>1, <1>2, <2>1 DEF IInv, CallOK
  <2>4. QED
    BY <1>1, <1>3, <1>4, <2>1, <2>2, <2>3, QuietStep
<1>6. CASE ~(call[t].end > KERNEL_HEAP_END)
  <2> DEFINE c == [call[t] EXCEPT !.p = call[t].begin]
  <2>1. Goto(t, "map") /\ call' = [call EXCEPT ![t] = c] /\ status' = status
    BY <1>6 DEF return_map
  <2>2. /\ call[t] \in Calls /\ call[t].begin \in Nat /\ call[t].end \in Nat
        /\ call[t].p \in call[t].begin..call[t].end
    BY <1>2, TypeFacts
  <2>3. /\ c \in Calls /\ c.begin = call[t].begin /\ c.end = call[t].end
        /\ c.p = call[t].begin /\ c.kind = call[t].kind
    BY <2>2 DEF Calls
  <2> HIDE DEF c
  <2>4. c.p \in c.begin..c.end
    BY <2>2, <2>3
  <2>5. /\ call' \in [Threads -> Calls]
        /\ \A u \in Threads : call'[u].p \in call'[u].begin..call'[u].end
        /\ call'[t] = c /\ \A u \in Threads \ {t} : call'[u] = call[u]
    BY <1>2, <2>1, <2>3, <2>4, CallFacts
  <2>6. "map" \in Labels
    BY DEF Labels, Busy
  <2>7. /\ pc' \in [Threads -> Labels] /\ pc'[t] = "map"
        /\ \A u \in Threads \ {t} : pc'[u] = pc[u]
    BY <1>2, <2>1, <2>6, GotoFacts
  <2>8. TypeOK'
    BY <1>1, <1>2, <2>1, <2>5, <2>7 DEF TypeOK
  <2>9. CallOK(t)'
    BY <1>1, <1>2, <2>3, <2>5, <2>7, ReturnFacts DEF CallOK, MarkLoop, MidTurn
  <2>10. QED
    BY <1>1, <1>3, <1>4, <2>5, <2>7, <2>8, <2>9, QuietStep
<1>7. QED
  BY <1>5, <1>6

LEMMA InitStackInv ==
  ASSUME IInv, NEW t \in Threads, init_stack(t)
  PROVE  IInv'
<1> DEFINE top == call[t].end - 1
<1>1. /\ At(t, "init_stack")
      /\ next_alloc' = next_alloc /\ pte' = pte /\ tables' = tables /\ tlb' = tlb
      /\ free' = free /\ call' = call /\ content' = content /\ last' = last
      /\ status' = status
  BY DEF init_stack, allocVars, dataVars
<1>2. TypeOK /\ next_alloc \in Nat /\ pc[t] = "init_stack" /\ \A u \in Threads : fault[u] = NOFAULT
  BY <1>1, TypeFacts, AtFacts DEF IInv
<1>3. /\ call[t] \in Calls /\ call[t].begin \in Nat /\ call[t].end \in Nat
      /\ call[t].begin < call[t].end /\ call[t].end <= END_OF_MEMORY
      /\ call[t].end <= next_alloc /\ call[t].arg \in Threads
  <2>1. pc[t] \in InCall \ MarkLoop
    BY <1>2, LabelFacts
  <2>2. QED
    BY <1>2, <2>1, TypeFacts DEF IInv, CallOK
<1>4. top \in VPages /\ top \in Nat /\ top < next_alloc
  BY <1>2, <1>3, ConstantFacts
<1>5. next_alloc' >= next_alloc
  BY <1>1, <1>2
<1>6. CASE pte[top] = PAGE_ALLOCATED
  <2>1. Fault(t, "page", top) /\ pc' = pc /\ sp' = sp /\ regions' = regions
    BY <1>6 DEF init_stack
  <2>2. \A u \in Threads : FaultOK(u)'
    BY <1>1, <1>2, <1>4, <2>1, NewFaultOK
  <2>3. fault' \in [Threads -> [on : {"nothing", "page", "table"}, v : VPages]]
    BY <1>2, <1>4, <2>1, NewFaultType
  <2>4. TypeOK'
    BY <1>1, <1>2, <2>1, <2>3 DEF TypeOK
  <2>5. CallOK(t)'
    BY <1>1, <1>2, <2>1 DEF IInv, CallOK
  <2>6. QED
    BY <1>1, <1>5, <2>1, <2>2, <2>4, <2>5, QuietStep
<1>7. CASE pte[top] # PAGE_ALLOCATED
  <2>1. /\ pc' = [pc EXCEPT ![t] = "run", ![call[t].arg] = "run"]
        /\ sp' = [sp EXCEPT ![call[t].arg] = top]
        /\ regions' = regions \cup {call[t]} /\ fault' = fault
    BY <1>7 DEF init_stack
  <2>2. TypeOK'
    <3>1. pc' \in [Threads -> Labels]
      BY <1>2, <2>1, LabelFacts DEF TypeOK
    <3>2. sp' \in [Threads -> Nat]
      BY <1>2, <1>4, <2>1 DEF TypeOK
    <3>3. regions' \subseteq Calls
      BY <1>2, <1>3, <2>1 DEF TypeOK
    <3>4. QED
      BY <1>1, <1>2, <2>1, <3>1, <3>2, <3>3 DEF TypeOK
  <2>3. pc'[t] = "run" /\ \A u \in Threads : pc'[u] = pc[u] \/ pc'[u] = "run"
    BY <1>2, <1>3, <2>1 DEF TypeOK
  <2>4. \A u \in Threads \ {t} : (pc'[u] = pc[u] /\ call'[u] = call[u]) \/ pc'[u] \notin InCall
    BY <1>1, <2>3, LabelFacts
  <2>5. CallOK(t)'
    BY <2>3, RunOK
  <2>6. RegionOK(call[t])'
    BY <1>1, <1>3 DEF RegionOK
  <2>7. \A r \in regions' : r \in regions \/ RegionOK(r)'
    BY <1>1, <2>1, <2>6
  <2>8. \A u \in Threads : FaultOK(u)'
    BY <1>2, <2>1, NoFaultOK
  <2>9. QED
    BY <1>1, <1>5, <2>2, <2>4, <2>5, <2>7, <2>8, QuietStep
<1>8. QED
  BY <1>6, <1>7

LEMMA VmmMapReturnInv ==
  ASSUME IInv, NEW t \in Threads, vmm_map_return(t)
  PROVE  IInv'
<1>1. /\ At(t, "map") /\ regions' = regions \cup {call[t]} /\ Goto(t, "run")
      /\ next_alloc' = next_alloc /\ pte' = pte /\ tables' = tables /\ tlb' = tlb
      /\ free' = free /\ call' = call /\ fault' = fault /\ sp' = sp
      /\ content' = content /\ last' = last /\ status' = status
  BY DEF vmm_map_return, allocVars, dataVars
<1>2. TypeOK /\ next_alloc \in Nat /\ pc[t] = "map" /\ call[t] \in Calls
  BY <1>1, TypeFacts, AtFacts DEF IInv
<1>3. /\ pc' \in [Threads -> Labels] /\ pc'[t] = "run"
      /\ \A u \in Threads \ {t} : pc'[u] = pc[u]
  BY <1>1, <1>2, GotoFacts, LabelFacts
<1>4. TypeOK'
  BY <1>1, <1>2, <1>3 DEF TypeOK
<1>5. RegionOK(call[t])'
  BY <1>1, <1>2 DEF IInv, CallOK, RegionOK, InCall, Busy, MarkLoop
<1>6. CallOK(t)'
  BY <1>3, RunOK
<1>7. \A u \in Threads : FaultOK(u)'
  BY <1>1, AtFacts, NoFaultOK
<1>8. \A r \in regions' : r \in regions \/ RegionOK(r)'
  BY <1>1, <1>5
<1>9. next_alloc' >= next_alloc
  BY <1>1, <1>2
<1>10. QED
  BY <1>1, <1>3, <1>4, <1>6, <1>7, <1>8, <1>9, QuietStep

LEMMA VmmUnmapInv ==
  ASSUME IInv, NEW t \in Threads, NEW r \in regions, vmm_unmap(t, r)
  PROVE  IInv'
<1> DEFINE c == [r EXCEPT !.p = r.begin]
<1>1. /\ At(t, "run") /\ call' = [call EXCEPT ![t] = c] /\ Goto(t, "unmap")
      /\ regions' = regions \ {r}
      /\ next_alloc' = next_alloc /\ pte' = pte /\ tables' = tables /\ tlb' = tlb
      /\ free' = free /\ fault' = fault /\ sp' = sp /\ content' = content /\ last' = last
      /\ status' = status
  BY DEF vmm_unmap, allocVars, dataVars
<1>2. TypeOK /\ next_alloc \in Nat /\ r \in Calls /\ r.begin \in Nat /\ r.end \in Nat
  BY <1>1, TypeFacts DEF IInv
<1>3. c \in Calls /\ c.begin = r.begin /\ c.end = r.end /\ c.p = r.begin
  BY <1>2 DEF Calls
<1>4. r.begin < r.end /\ r.end <= END_OF_MEMORY /\ r.end <= next_alloc /\ r.begin \in r.begin..r.end
  BY <1>2 DEF IInv, RegionOK
<1> HIDE DEF c
<1>5. /\ call' \in [Threads -> Calls]
      /\ \A u \in Threads : call'[u].p \in call'[u].begin..call'[u].end
      /\ call'[t] = c /\ \A u \in Threads \ {t} : call'[u] = call[u]
  BY <1>1, <1>2, <1>3, <1>4, CallFacts
<1>6. "unmap" \in Labels
  BY DEF Labels
<1>7. /\ pc' \in [Threads -> Labels] /\ pc'[t] = "unmap"
      /\ \A u \in Threads \ {t} : pc'[u] = pc[u]
  BY <1>1, <1>2, <1>6, GotoFacts
<1>8. TypeOK'
  BY <1>1, <1>2, <1>5, <1>7 DEF TypeOK
<1>9. CallOK(t)'
  BY <1>1, <1>3, <1>4, <1>5, <1>7 DEF CallOK, MarkLoop, MidTurn, Mapping
<1>10. \A u \in Threads : FaultOK(u)'
  BY <1>1, AtFacts, NoFaultOK
<1>11. next_alloc' >= next_alloc
  BY <1>1, <1>2
<1>12. QED
  BY <1>1, <1>5, <1>7, <1>8, <1>9, <1>10, <1>11, QuietStep

LEMMA VmmUnmapReturnInv ==
  ASSUME IInv, NEW t \in Threads, vmm_unmap_return(t)
  PROVE  IInv'
<1>1. /\ At(t, "unmap") /\ Goto(t, "run")
      /\ next_alloc' = next_alloc /\ pte' = pte /\ tables' = tables /\ tlb' = tlb
      /\ free' = free /\ call' = call /\ fault' = fault /\ sp' = sp /\ regions' = regions
      /\ content' = content /\ last' = last /\ status' = status
  BY DEF vmm_unmap_return, allocVars, dataVars
<1>2. TypeOK /\ next_alloc \in Nat
  BY <1>1, TypeFacts DEF IInv
<1>3. /\ pc' \in [Threads -> Labels] /\ pc'[t] = "run"
      /\ \A u \in Threads \ {t} : pc'[u] = pc[u]
  BY <1>1, <1>2, GotoFacts, LabelFacts
<1>4. TypeOK'
  BY <1>1, <1>2, <1>3 DEF TypeOK
<1>5. CallOK(t)'
  BY <1>3, RunOK
<1>6. \A u \in Threads : FaultOK(u)'
  BY <1>1, AtFacts, NoFaultOK
<1>7. next_alloc' >= next_alloc
  BY <1>1, <1>2
<1>8. QED
  BY <1>1, <1>3, <1>4, <1>5, <1>6, <1>7, QuietStep

LEMMA WriteInv ==
  ASSUME IInv, NEW t \in Threads, NEW r \in regions, NEW v \in VPages, write(t, r, v)
  PROVE  IInv'
<1>1. /\ At(t, "run") /\ v \in r.begin..(r.end - 1)
      /\ next_alloc' = next_alloc /\ pte' = pte /\ tables' = tables /\ tlb' = tlb
      /\ free' = free /\ pc' = pc /\ call' = call /\ regions' = regions /\ sp' = sp
      /\ status' = status
  BY DEF write, allocVars
<1>2. TypeOK /\ next_alloc \in Nat /\ pc[t] = "run" /\ \A u \in Threads : fault[u] = NOFAULT
  BY <1>1, TypeFacts, AtFacts DEF IInv
<1>3. v < next_alloc
  <2>1. r.begin \in Nat /\ r.end \in Nat
    BY <1>2, TypeFacts
  <2>2. QED
    BY <1>1, <1>2, <2>1 DEF IInv, RegionOK
<1>4. CallOK(t)' /\ next_alloc' >= next_alloc
  BY <1>1, <1>2, RunOK
<1>5. CASE present(frame(v))
  <2>1. /\ content' = [f \in Frames |-> IF f = frame(v) THEN t ELSE content[f]]
        /\ last' = [last EXCEPT ![v] = t] /\ fault' = fault
    BY <1>5 DEF write
  <2>2. content' \in [Frames -> Threads \cup {0}]
    BY <1>2, <2>1 DEF TypeOK
  <2>3. last' \in [VPages -> Threads \cup {0}]
    BY <1>2, <2>1 DEF TypeOK
  <2>4. TypeOK'
    BY <1>1, <1>2, <2>1, <2>2, <2>3 DEF TypeOK
  <2>5. \A u \in Threads : FaultOK(u)'
    BY <1>2, <2>1, NoFaultOK
  <2>6. QED
    BY <1>1, <1>4, <2>4, <2>5, QuietStep
<1>6. CASE ~present(frame(v))
  <2>1. Fault(t, "page", v) /\ content' = content /\ last' = last
    BY <1>6 DEF write, dataVars
  <2>2. \A u \in Threads : FaultOK(u)'
    BY <1>1, <1>2, <1>3, <2>1, NewFaultOK
  <2>3. fault' \in [Threads -> [on : {"nothing", "page", "table"}, v : VPages]]
    BY <1>2, <2>1, NewFaultType
  <2>4. TypeOK'
    BY <1>1, <1>2, <2>1, <2>3 DEF TypeOK
  <2>5. QED
    BY <1>1, <1>4, <2>2, <2>4, QuietStep
<1>7. QED
  BY <1>5, <1>6

LEMMA PushInv ==
  ASSUME IInv, NEW t \in Threads, NEW r \in regions, push(t, r)
  PROVE  IInv'
<1>1. /\ At(t, "run") /\ sp[t] > r.begin
      /\ next_alloc' = next_alloc /\ pte' = pte /\ tables' = tables /\ tlb' = tlb
      /\ free' = free /\ pc' = pc /\ call' = call /\ fault' = fault /\ regions' = regions
      /\ content' = content /\ last' = last
      /\ status' \in {status, "triple fault"}
      /\ sp' = sp \/ sp' = [sp EXCEPT ![t] = @ - 1]
  BY DEF push, allocVars, dataVars
<1>2. TypeOK /\ next_alloc \in Nat /\ pc[t] = "run" /\ \A u \in Threads : fault[u] = NOFAULT
  BY <1>1, TypeFacts, AtFacts DEF IInv
<1>3. sp' \in [Threads -> Nat]
  <2>1. sp \in [Threads -> Nat] /\ r.begin \in Nat
    BY <1>2, TypeFacts DEF TypeOK
  <2>2. sp[t] \in Nat /\ sp[t] > r.begin
    BY <1>1, <2>1
  <2>3. sp[t] - 1 \in Nat
    BY <2>1, <2>2
  <2>4. [sp EXCEPT ![t] = @ - 1] \in [Threads -> Nat]
    BY <2>1, <2>3
  <2>5. QED
    BY <1>1, <2>1, <2>4
<1>4. TypeOK'
  BY <1>1, <1>2, <1>3 DEF TypeOK
<1>5. CallOK(t)' /\ next_alloc' >= next_alloc
  <2>1. pc'[t] = "run"
    BY <1>1, <1>2
  <2>2. next_alloc' = next_alloc /\ next_alloc \in Nat
    BY <1>1, <1>2
  <2>3. CallOK(t)'
    BY <2>1, RunOK
  <2>4. next_alloc' >= next_alloc
    BY <2>2
  <2>5. QED
    BY <2>3, <2>4
<1>6. \A u \in Threads : FaultOK(u)'
  BY <1>1, <1>2, NoFaultOK
<1>7. QED
  BY <1>1, <1>4, <1>5, <1>6, QuietStep
-----------------------------------------------------------------------------
(***************************************************************************)
(* The steps that change the page tables, or what the CPU remembers.       *)
(***************************************************************************)
LEMMA TableStep ==
  ASSUME IInv, TypeOK', next_alloc' = next_alloc, regions' \subseteq regions,
         \A u \in Threads : (pc'[u] = pc[u] /\ call'[u] = call[u]) \/ CallOK(u)',
         \A u \in Threads : FaultOK(u)',
         PagesInv', FramesAccounted'
  PROVE  IInv'
<1>1. next_alloc' \in Nat /\ next_alloc' >= next_alloc /\ TypeOK
  BY TypeFacts DEF IInv
<1>2. ASSUME NEW u \in Threads PROVE CallOK(u)'
  <2>1. CallOK(u)
    BY DEF IInv
  <2>2. pc'[u] = pc[u] /\ call'[u] = call[u] => CallOK(u)'
    BY <1>1, <2>1, CallStays
  <2>3. QED
    BY <2>2
<1>3. \A r \in regions' : RegionOK(r)'
  BY <1>1, RegionStays DEF IInv
<1>4. QED
  BY <1>2, <1>3 DEF IInv

\* invlpg, or nothing.
LEMMA Forgotten ==
  ASSUME IInv, pte' = pte, next_alloc' = next_alloc, UNCHANGED <<tables, free>>,
         \A v \in VPages : tlb'[v] \in {NOPAGE, tlb[v]}
  PROVE  PagesInv' /\ FramesAccounted'
<1>1. SameBacked
  BY DEF SameBacked
<1>2. \A v \in VPages : TlbOK(v)'
  BY DEF IInv, PagesInv, TlbOK
<1>3. next_alloc' \in Nat /\ next_alloc' >= next_alloc /\ TypeOK
  BY TypeFacts DEF IInv
<1>4. QED
  BY <1>1, <1>2, <1>3, PagesSameBacked, AccountSame DEF IInv

LEMMA MarkInv ==
  ASSUME IInv, AloneInv, NEW t \in Threads, mark(t)
  PROVE  IInv'
<1> DEFINE i1 == call[t].i1
<1>1. /\ At(t, "write")
      /\ next_alloc' = next_alloc /\ tables' = tables /\ tlb' = tlb /\ free' = free /\ call' = call
      /\ regions' = regions /\ sp' = sp /\ content' = content /\ last' = last
      /\ status' = status
  BY DEF mark, dataVars
<1>2. TypeOK /\ next_alloc \in Nat /\ pc[t] = "write" /\ \A u \in Threads : fault[u] = NOFAULT
  BY <1>1, TypeFacts, AtFacts DEF IInv
<1>3. /\ i1 \in VPages /\ i1 = next_alloc /\ call[t].p # call[t].end
      /\ next_alloc' \in Nat /\ next_alloc' >= next_alloc
  <2>1. i1 \in VPages /\ call[t].p # call[t].end
    BY <1>2 DEF IInv, CallOK, MidTurn
  <2>2. i1 = call[t].p /\ next_alloc = call[t].p
    BY <1>2 DEF AloneInv, AloneCallOK, MarkLoop
  <2>3. QED
    BY <1>1, <1>2, <2>1, <2>2
<1>4. CASE tables[table(i1)] = NOPAGE
  <2>1. Fault(t, "table", i1) /\ pte' = pte /\ pc' = pc
    BY <1>4 DEF mark
  <2>2. \A u \in Threads : FaultOK(u)'
    BY <1>1, <1>2, <1>3, <1>4, <2>1, NewFaultOK
  <2>3. fault' \in [Threads -> [on : {"nothing", "page", "table"}, v : VPages]]
    BY <1>2, <1>3, <2>1, NewFaultType
  <2>4. TypeOK'
    BY <1>1, <1>2, <2>1, <2>3 DEF TypeOK
  <2>5. CallOK(t)'
    BY <1>1, <1>2, <2>1 DEF IInv, CallOK
  <2>6. QED
    BY <1>1, <1>3, <2>1, <2>2, <2>4, <2>5, QuietStep
<1>5. CASE tables[table(i1)] # NOPAGE
  <2>1. pte' = [pte EXCEPT ![i1] = PAGE_ALLOCATED] /\ Goto(t, "invalidate") /\ fault' = fault
    BY <1>5 DEF mark
  <2>2. "invalidate" \in Labels
    BY DEF Labels, Busy, MarkLoop
  <2>3. /\ pc' \in [Threads -> Labels] /\ pc'[t] = "invalidate"
        /\ \A u \in Threads \ {t} : pc'[u] = pc[u]
    BY <1>2, <2>1, <2>2, GotoFacts
  <2> HIDE DEF i1
  <2>4. /\ pte' \in [VPages -> Frames \cup Device \cup {NOPAGE, PAGE_ALLOCATED}]
        /\ pte'[i1] = PAGE_ALLOCATED
        /\ \A v \in VPages \ {i1} : pte'[v] = pte[v]
    BY <1>2, <1>3, <2>1 DEF TypeOK
  <2>5. TypeOK'
    BY <1>1, <1>2, <2>1, <2>3, <2>4 DEF TypeOK
  <2>6. ~present(pte[i1]) /\ TlbOK(i1) /\ tlb[i1] \in Frames \cup Device \cup {NOPAGE}
    <3>1. i1 >= next_alloc
      BY <1>2, <1>3
    <3>2. QED
      BY <1>2, <1>3, <3>1 DEF IInv, PagesInv, TypeOK
  <2>7. tlb[i1] = NOPAGE
    BY <1>2, <1>3, <2>6 DEF TlbOK, present
  <2>8. SameBacked
    BY <2>4, <2>6, PageKinds DEF SameBacked, present
  <2>9. \A v \in VPages : TlbOK(v)'
    BY <1>1, <2>4, <2>7 DEF IInv, PagesInv, TlbOK
  <2>10. \A v \in VPages : pte'[v] = pte[v] \/ pte'[v] \notin Device
    BY <2>4, PageKinds
  <2>11. PagesInv'
    BY <1>1, <1>2, <1>3, <2>8, <2>9, <2>10, PagesSameBacked DEF IInv
  <2>12. FramesAccounted'
    BY <1>1, <2>8, AccountSame DEF IInv
  <2>13. CallOK(t)'
    BY <1>1, <1>2, <2>3 DEF IInv, CallOK, InCall, Busy, MarkLoop, MidTurn, Mapping
  <2>14. \A u \in Threads : FaultOK(u)'
    BY <1>2, <2>1, NoFaultOK
  <2>15. \A u \in Threads : (pc'[u] = pc[u] /\ call'[u] = call[u]) \/ CallOK(u)'
    BY <1>1, <2>3, <2>13
  <2>16. QED
    BY <1>1, <2>5, <2>11, <2>12, <2>14, <2>15, TableStep
<1>6. QED
  BY <1>4, <1>5

LEMMA InvalidateInv ==
  ASSUME IInv, NEW t \in Threads, invalidate(t)
  PROVE  IInv'
<1>1. /\ At(t, "invalidate") /\ next_alloc < END_OF_MEMORY
      /\ tlb' = [tlb EXCEPT ![next_alloc] = NOPAGE] /\ Goto(t, "advance")
      /\ next_alloc' = next_alloc /\ pte' = pte /\ tables' = tables /\ free' = free
      /\ call' = call /\ fault' = fault /\ regions' = regions /\ sp' = sp
      /\ content' = content /\ last' = last /\ status' = status
  BY DEF invalidate, dataVars
<1>2. /\ TypeOK /\ next_alloc \in Nat /\ pc[t] = "invalidate"
      /\ \A u \in Threads : fault[u] = NOFAULT
  BY <1>1, TypeFacts, AtFacts DEF IInv
<1>3. "advance" \in Labels
  BY DEF Labels, Busy, MarkLoop
<1>4. /\ pc' \in [Threads -> Labels] /\ pc'[t] = "advance"
      /\ \A u \in Threads \ {t} : pc'[u] = pc[u]
  BY <1>1, <1>2, <1>3, GotoFacts
<1>5. /\ tlb' \in [VPages -> Frames \cup Device \cup {NOPAGE}]
      /\ \A v \in VPages : tlb'[v] \in {NOPAGE, tlb[v]}
  BY <1>1, <1>2 DEF TypeOK
<1>6. TypeOK'
  BY <1>1, <1>2, <1>4, <1>5 DEF TypeOK
<1>7. PagesInv' /\ FramesAccounted'
  BY <1>1, <1>5, Forgotten
<1>8. CallOK(t)'
  BY <1>1, <1>2, <1>4 DEF IInv, CallOK, InCall, Busy, MarkLoop, MidTurn, Mapping
<1>9. \A u \in Threads : FaultOK(u)'
  BY <1>1, <1>2, NoFaultOK
<1>10. \A u \in Threads : (pc'[u] = pc[u] /\ call'[u] = call[u]) \/ CallOK(u)'
  BY <1>1, <1>4, <1>8
<1>11. QED
  BY <1>1, <1>6, <1>7, <1>9, <1>10, TableStep

\* vmm_map's loop and vmm_unmap's go on to the next page in the same way.
LEMMA NextTurnInv ==
  ASSUME IInv, NEW t \in Threads, NEW label \in {"map_invalidate", "unmap_invalidate"},
         At(t, label), NEW invlpg \in BOOLEAN,
         next_turn(t, IF label = "map_invalidate" THEN "map" ELSE "unmap", invlpg)
  PROVE  IInv'
<1> DEFINE loop == IF label = "map_invalidate" THEN "map" ELSE "unmap"
<1>1. /\ tlb' = IF invlpg THEN [tlb EXCEPT ![call[t].p] = NOPAGE] ELSE tlb
      /\ call' = [call EXCEPT ![t].p = @ + 1] /\ Goto(t, loop)
      /\ next_alloc' = next_alloc /\ pte' = pte /\ tables' = tables /\ free' = free
      /\ fault' = fault /\ regions' = regions /\ sp' = sp
      /\ content' = content /\ last' = last /\ status' = status
  BY DEF next_turn, dataVars
<1>2. TypeOK /\ pc[t] = label /\ \A u \in Threads : fault[u] = NOFAULT
  BY AtFacts DEF IInv
<1>3. /\ call[t].p # call[t].end /\ call[t].begin < call[t].end
      /\ call[t].end <= END_OF_MEMORY /\ call[t].end <= next_alloc
      /\ label = "map_invalidate" => call[t].kind = "map"
  BY <1>2 DEF IInv, CallOK, MidTurn, InCall, Busy, MarkLoop, Mapping, Unmapping
<1>4. /\ call' \in [Threads -> Calls]
      /\ \A u \in Threads : call'[u].p \in call'[u].begin..call'[u].end
      /\ call'[t].begin = call[t].begin /\ call'[t].end = call[t].end
      /\ call'[t].kind = call[t].kind
      /\ \A u \in Threads \ {t} : call'[u] = call[u]
  BY <1>1, <1>2, <1>3, NextPage
<1>5. loop \in Labels
  BY DEF Labels, Busy
<1>6. /\ pc' \in [Threads -> Labels] /\ pc'[t] = loop
      /\ \A u \in Threads \ {t} : pc'[u] = pc[u]
  BY <1>1, <1>2, <1>5, GotoFacts
<1>7. /\ tlb' \in [VPages -> Frames \cup Device \cup {NOPAGE}]
      /\ \A v \in VPages : tlb'[v] \in {NOPAGE, tlb[v]}
  BY <1>1, <1>2 DEF TypeOK
<1>8. TypeOK'
  BY <1>1, <1>2, <1>4, <1>6, <1>7 DEF TypeOK
<1>9. PagesInv' /\ FramesAccounted'
  BY <1>1, <1>7, Forgotten
<1>10. CallOK(t)'
  BY <1>1, <1>3, <1>4, <1>6 DEF CallOK, MarkLoop, MidTurn, Mapping
<1>11. \A u \in Threads : FaultOK(u)'
  BY <1>1, <1>2, NoFaultOK
<1>12. \A u \in Threads : (pc'[u] = pc[u] /\ call'[u] = call[u]) \/ CallOK(u)'
  BY <1>4, <1>6, <1>10
<1>13. QED
  BY <1>1, <1>8, <1>9, <1>11, <1>12, TableStep

LEMMA MapInvalidateInv ==
  ASSUME IInv, NEW t \in Threads, map_invalidate(t)
  PROVE  IInv'
<1>1. At(t, "map_invalidate") /\ next_turn(t, "map", TRUE)
  BY DEF map_invalidate
<1>2. QED
  BY <1>1, NextTurnInv

LEMMA UnmapInvalidateInv ==
  ASSUME IInv, NEW t \in Threads, unmap_invalidate(t)
  PROVE  IInv'
<1>1. At(t, "unmap_invalidate") /\ next_turn(t, "unmap", InvlpgOnUnmap)
  BY DEF unmap_invalidate
<1>2. QED
  BY <1>1, VmmAssumption, NextTurnInv

LEMMA MapPageInv ==
  ASSUME IInv, AloneInv, NEW t \in Threads, map_page(t)
  PROVE  IInv'
<1> DEFINE v == call[t].p
<1>1. /\ At(t, "map") /\ v # call[t].end
      /\ next_alloc' = next_alloc /\ tlb' = tlb /\ call' = call /\ fault' = fault
      /\ regions' = regions /\ sp' = sp /\ content' = content /\ last' = last
      /\ pc' = IF status' = "up" THEN [pc EXCEPT ![t] = "map_invalidate"] ELSE pc
  BY DEF map_page, dataVars
<1>2. PICK d \in Device : vmm_map_page(d, v)
  BY DEF map_page
<1>3. /\ TypeOK /\ next_alloc \in Nat /\ pc[t] = "map" /\ status = "up"
      /\ \A u \in Threads : fault[u] = NOFAULT
  BY <1>1, TypeFacts, AtFacts DEF IInv
<1>4. /\ call[t].begin \in Nat /\ call[t].end \in Nat /\ v \in call[t].begin..call[t].end
      /\ call[t].begin < call[t].end /\ call[t].end <= END_OF_MEMORY
      /\ call[t].end <= next_alloc /\ call[t].kind = "map"
  <2>1. /\ call[t].begin \in Nat /\ call[t].end \in Nat /\ v \in call[t].begin..call[t].end
    BY <1>3, TypeFacts
  <2>2. /\ call[t].begin < call[t].end /\ call[t].end <= END_OF_MEMORY
        /\ call[t].end <= next_alloc /\ call[t].kind = "map"
    BY <1>3 DEF IInv, CallOK, InCall, Busy, MarkLoop, Mapping
  <2>3. QED
    BY <2>1, <2>2
<1>5. /\ v \in VPages /\ v < next_alloc' /\ v \in call[t].begin..(call[t].end - 1)
      /\ next_alloc' \in Nat /\ next_alloc' >= next_alloc
  BY <1>1, <1>3, <1>4, ConstantFacts
<1>6. pte[v] = PAGE_ALLOCATED /\ tables[table(v)] # NOPAGE
  BY <1>1, <1>3, <1>5 DEF AloneInv, AloneCallOK, Mapping
<1>7. tables' = tables /\ free' = free /\ pte' = [pte EXCEPT ![v] = d] /\ status' = status
  BY <1>2, <1>6, PageKinds DEF vmm_map_page, present
<1>8. Goto(t, "map_invalidate")
  BY <1>1, <1>3, <1>7 DEF Goto
<1>9. "map_invalidate" \in Labels
  BY DEF Labels, Busy
<1>10. /\ pc' \in [Threads -> Labels] /\ pc'[t] = "map_invalidate"
       /\ \A u \in Threads \ {t} : pc'[u] = pc[u]
  BY <1>3, <1>8, <1>9, GotoFacts
<1> HIDE DEF v
<1>11. /\ pte' \in [VPages -> Frames \cup Device \cup {NOPAGE, PAGE_ALLOCATED}]
       /\ pte'[v] = d /\ \A w \in VPages \ {v} : pte'[w] = pte[w]
  BY <1>3, <1>5, <1>7 DEF TypeOK
<1>12. TypeOK'
  BY <1>1, <1>3, <1>7, <1>10, <1>11 DEF TypeOK
<1>13. TlbOK(v) /\ tlb[v] \in Frames \cup Device \cup {NOPAGE}
  BY <1>3, <1>5 DEF IInv, PagesInv, TypeOK
<1>14. tlb[v] = NOPAGE
  BY <1>6, <1>13, PageKinds DEF TlbOK
<1>15. \A w \in VPages : TlbOK(w)'
  BY <1>1, <1>11, <1>14 DEF IInv, PagesInv, TlbOK
<1>16. SameBacked
  BY <1>6, <1>11, PageKinds DEF SameBacked
<1>17. \A w \in VPages : pte'[w] = pte[w] \/ w < next_alloc'
  BY <1>5, <1>11
<1>18. PagesInv'
  BY <1>3, <1>5, <1>7, <1>15, <1>16, <1>17, PagesSameBacked DEF IInv
<1>19. FramesAccounted'
  BY <1>7, <1>16, AccountSame DEF IInv
<1>20. CallOK(t)'
  BY <1>1, <1>4, <1>10 DEF CallOK, MarkLoop, v
<1>21. \A u \in Threads : FaultOK(u)'
  BY <1>1, <1>3, NoFaultOK
<1>22. \A u \in Threads : (pc'[u] = pc[u] /\ call'[u] = call[u]) \/ CallOK(u)'
  BY <1>1, <1>10, <1>20
<1>23. QED
  BY <1>1, <1>12, <1>18, <1>19, <1>21, <1>22, TableStep

LEMMA UnmapPageInv ==
  ASSUME IInv, AloneInv, NEW t \in Threads, unmap_page(t)
  PROVE  IInv'
<1> DEFINE v == call[t].p
<1>1. /\ At(t, "unmap") /\ v # call[t].end
      /\ pte' = [pte EXCEPT ![v] = NOPAGE] /\ Goto(t, "unmap_invalidate")
      /\ next_alloc' = next_alloc /\ tables' = tables /\ tlb' = tlb /\ free' = free
      /\ call' = call /\ fault' = fault /\ regions' = regions /\ sp' = sp
      /\ content' = content /\ last' = last /\ status' = status
  BY DEF unmap_page, dataVars
<1>2. /\ TypeOK /\ next_alloc \in Nat /\ pc[t] = "unmap"
      /\ \A u \in Threads : fault[u] = NOFAULT
  BY <1>1, TypeFacts, AtFacts DEF IInv
<1>3. /\ call[t].begin \in Nat /\ call[t].end \in Nat /\ v \in call[t].begin..call[t].end
      /\ call[t].begin < call[t].end /\ call[t].end <= END_OF_MEMORY
      /\ call[t].end <= next_alloc
  <2>1. /\ call[t].begin \in Nat /\ call[t].end \in Nat /\ v \in call[t].begin..call[t].end
    BY <1>2, TypeFacts
  <2>2. /\ call[t].begin < call[t].end /\ call[t].end <= END_OF_MEMORY
        /\ call[t].end <= next_alloc
    BY <1>2, LabelFacts DEF IInv, CallOK, InCall, Unmapping
  <2>3. QED
    BY <2>1, <2>2
<1>4. /\ v \in VPages /\ v < next_alloc' /\ v \in call[t].begin..(call[t].end - 1)
      /\ next_alloc' \in Nat /\ next_alloc' >= next_alloc
  BY <1>1, <1>2, <1>3, ConstantFacts
<1>5. pte[v] \in Device \cup {NOPAGE}
  BY <1>2, <1>4 DEF AloneInv, AloneCallOK, Unmapping, Given
<1>6. "unmap_invalidate" \in Labels
  BY DEF Labels
<1>7. /\ pc' \in [Threads -> Labels] /\ pc'[t] = "unmap_invalidate"
      /\ \A u \in Threads \ {t} : pc'[u] = pc[u]
  BY <1>1, <1>2, <1>6, GotoFacts
<1> HIDE DEF v
<1>8. /\ pte' \in [VPages -> Frames \cup Device \cup {NOPAGE, PAGE_ALLOCATED}]
      /\ pte'[v] = NOPAGE /\ \A w \in VPages \ {v} : pte'[w] = pte[w]
  BY <1>1, <1>2, <1>4 DEF TypeOK
<1>9. TypeOK'
  BY <1>1, <1>2, <1>7, <1>8 DEF TypeOK
<1>10. \A w \in VPages : TlbOK(w)'
  BY <1>1, <1>4, <1>8 DEF IInv, PagesInv, TlbOK
<1>11. SameBacked
  BY <1>5, <1>8, PageKinds DEF SameBacked
<1>12. \A w \in VPages : pte'[w] = pte[w] \/ w < next_alloc'
  BY <1>4, <1>8
<1>13. PagesInv'
  BY <1>1, <1>2, <1>4, <1>10, <1>11, <1>12, PagesSameBacked DEF IInv
<1>14. FramesAccounted'
  BY <1>1, <1>11, AccountSame DEF IInv
<1>15. CallOK(t)'
  BY <1>1, <1>3, <1>7 DEF CallOK, MarkLoop, Mapping, v
<1>16. \A u \in Threads : FaultOK(u)'
  BY <1>1, <1>2, NoFaultOK
<1>17. \A u \in Threads : (pc'[u] = pc[u] /\ call'[u] = call[u]) \/ CallOK(u)'
  BY <1>1, <1>7, <1>15
<1>18. QED
  BY <1>1, <1>9, <1>13, <1>14, <1>16, <1>17, TableStep

\* A page fault that is handled is about a page or a page table.
LEMMA HandledFault ==
  ASSUME IInv, NEW t \in Threads, vmm_page_fault_handler(t)
  PROVE  /\ fault[t].on \in {"page", "table"} /\ fault[t].v \in VPages
         /\ fault[t].on = "page" => fault[t].v < next_alloc
         /\ fault[t].on = "table" => tables[table(fault[t].v)] = NOPAGE
         /\ \A u \in Threads \ {t} : fault[u] = NOFAULT
         /\ status = "up"
<1>1. fault[t] # NOFAULT /\ status = "up" /\ \A u \in Threads \ {t} : fault[u] = NOFAULT
  BY DEF vmm_page_fault_handler, may_run
<1>2. FaultOK(t) /\ TypeOK
  BY DEF IInv
<1>3. fault[t] \in [on : {"nothing", "page", "table"}, v : VPages]
  BY <1>2, TypeFacts
<1>4. QED
  BY <1>1, <1>2, <1>3 DEF FaultOK

\* What the handler does, in its three outcomes.
HandlerStops ==
  /\ status' \in {"unhandled page fault", "out of memory"}
  /\ UNCHANGED <<pte, tables, tlb, free, fault, content>>
HandlerTakes(t, f) ==
  /\ free' = free \ {f} /\ content' = [content EXCEPT ![f] = 0]
  /\ fault' = [fault EXCEPT ![t] = NOFAULT] /\ status' = status

LEMMA HandlerFacts ==
  ASSUME NEW t \in Threads, vmm_page_fault_handler(t)
  PROVE  /\ next_alloc' = next_alloc /\ pc' = pc /\ call' = call /\ regions' = regions
         /\ sp' = sp /\ last' = last
         /\ \/ HandlerStops
            \/ \E f \in free :
                 /\ HandlerTakes(t, f) /\ fault[t].on = "table"
                 /\ tables' = [tables EXCEPT ![table(fault[t].v)] = f]
                 /\ pte' = pte /\ tlb' = tlb
            \/ \E f \in free :
                 /\ HandlerTakes(t, f) /\ fault[t].on # "table"
                 /\ pte[fault[t].v] = PAGE_ALLOCATED
                 /\ pte' = [pte EXCEPT ![fault[t].v] = f]
                 /\ tlb' = [tlb EXCEPT ![fault[t].v] = NOPAGE] /\ tables' = tables
BY DEF vmm_page_fault_handler, HandlerStops, HandlerTakes

LEMMA HandlerInv ==
  ASSUME IInv, NEW t \in Threads, vmm_page_fault_handler(t)
  PROVE  IInv'
<1> DEFINE v == fault[t].v
<1>1. /\ next_alloc' = next_alloc /\ pc' = pc /\ call' = call /\ regions' = regions
      /\ sp' = sp /\ last' = last
  BY HandlerFacts
<1>2. /\ TypeOK /\ next_alloc \in Nat /\ v \in VPages
      /\ fault[t].on \in {"page", "table"}
      /\ fault[t].on = "page" => v < next_alloc
      /\ fault[t].on = "table" => tables[table(v)] = NOPAGE
      /\ \A u \in Threads \ {t} : fault[u] = NOFAULT
  BY HandledFault, TypeFacts DEF IInv
<1>3. next_alloc' \in Nat /\ next_alloc' >= next_alloc
  BY <1>1, <1>2
<1>4. CASE HandlerStops
  <2>1. /\ pte' = pte /\ tables' = tables /\ tlb' = tlb /\ free' = free /\ fault' = fault
        /\ content' = content /\ status' \in {"unhandled page fault", "out of memory"}
    BY <1>4 DEF HandlerStops
  <2>2. TypeOK'
    BY <1>1, <1>2, <2>1 DEF TypeOK
  <2>3. \A u \in Threads : FaultOK(u)'
    BY <1>1, <2>1 DEF IInv, FaultOK
  <2>4. CallOK(t)'
    BY <1>1, <2>1 DEF IInv, CallOK
  <2>5. QED
    BY <1>1, <1>3, <2>1, <2>2, <2>3, <2>4, QuietStep
<1>5. ASSUME NEW f \in free, HandlerTakes(t, f)
      PROVE  /\ f \in Frames /\ free' = free \ {f} /\ free' \subseteq Frames
             /\ content' \in [Frames -> Threads \cup {0}]
             /\ fault' \in [Threads -> [on : {"nothing", "page", "table"}, v : VPages]]
             /\ \A u \in Threads : fault'[u] = NOFAULT
             /\ \A u \in Threads : FaultOK(u)'
             /\ status' = status
  <2>1. f \in Frames /\ free' = free \ {f} /\ free' \subseteq Frames /\ status' = status
    BY <1>2, <1>5 DEF HandlerTakes, TypeOK
  <2>2. content' \in [Frames -> Threads \cup {0}]
    BY <1>2, <1>5 DEF HandlerTakes, TypeOK
  <2>3. fault' \in [Threads -> [on : {"nothing", "page", "table"}, v : VPages]]
    BY <1>2, <1>5, ConstantFacts DEF HandlerTakes, TypeOK
  <2>4. \A u \in Threads : fault'[u] = NOFAULT
    BY <1>2, <1>5 DEF HandlerTakes, TypeOK
  <2>5. QED
    BY <2>1, <2>2, <2>3, <2>4, NoFaultOK
<1>6. ASSUME NEW f \in free, HandlerTakes(t, f), fault[t].on = "table",
             tables' = [tables EXCEPT ![table(v)] = f], pte' = pte, tlb' = tlb
      PROVE  IInv'
  <2>1. /\ f \in Frames /\ free' = free \ {f} /\ free' \subseteq Frames
        /\ content' \in [Frames -> Threads \cup {0}]
        /\ fault' \in [Threads -> [on : {"nothing", "page", "table"}, v : VPages]]
        /\ \A u \in Threads : FaultOK(u)'
        /\ status' = status
    BY <1>5, <1>6
  <2>2. tables' \in [{table(w) : w \in VPages} -> Frames \cup {NOPAGE}]
    BY <1>2, <1>6, <2>1 DEF TypeOK
  <2>3. TypeOK'
    BY <1>1, <1>2, <1>6, <2>1, <2>2 DEF TypeOK
  <2>4. SameBacked /\ \A w \in VPages : pte'[w] = pte[w]
    BY <1>6 DEF SameBacked
  <2>5. FramesAccounted'
    BY <1>2, <1>6, <2>1, <2>4, AccountTable DEF IInv
  <2>6. \A w \in VPages : TlbOK(w)'
    BY <1>1, <1>6 DEF IInv, PagesInv, TlbOK
  <2>7. PagesInv'
    BY <1>2, <1>3, <2>1, <2>4, <2>6, PagesSameBacked DEF IInv
  <2>8. QED
    BY <1>1, <2>1, <2>3, <2>5, <2>7, TableStep
<1>7. ASSUME NEW f \in free, HandlerTakes(t, f), fault[t].on # "table",
             pte[v] = PAGE_ALLOCATED, pte' = [pte EXCEPT ![v] = f],
             tlb' = [tlb EXCEPT ![v] = NOPAGE], tables' = tables
      PROVE  IInv'
  <2>1. /\ f \in Frames /\ free' = free \ {f} /\ free' \subseteq Frames
        /\ content' \in [Frames -> Threads \cup {0}]
        /\ fault' \in [Threads -> [on : {"nothing", "page", "table"}, v : VPages]]
        /\ \A u \in Threads : FaultOK(u)'
        /\ status' = status
    BY <1>5, <1>7
  <2>2. /\ pte'[v] = f /\ tlb'[v] = NOPAGE
        /\ \A w \in VPages \ {v} : pte'[w] = pte[w] /\ tlb'[w] = tlb[w]
        /\ pte' \in [VPages -> Frames \cup Device \cup {NOPAGE, PAGE_ALLOCATED}]
        /\ tlb' \in [VPages -> Frames \cup Device \cup {NOPAGE}]
    BY <1>2, <1>7, <2>1 DEF TypeOK
  <2>3. TypeOK'
    BY <1>1, <1>2, <1>7, <2>1, <2>2 DEF TypeOK
  <2>4. pte[v] \notin Frames /\ v < next_alloc
    BY <1>2, <1>7, PageKinds
  <2>5. FramesAccounted'
    BY <1>2, <1>7, <2>1, <2>4, AccountPage DEF IInv
  <2>6. PagesInv'
    <3>1. \A w \in VPages : w >= next_alloc => w # v
      BY <1>2, <2>4 DEF VPages
    <3>2. \A w \in VPages : w >= next_alloc' => ~present(pte'[w])
      BY <1>1, <2>2, <3>1 DEF IInv, PagesInv
    <3>3. \A w \in VPages : TlbOK(w)'
      BY <1>1, <2>2 DEF IInv, PagesInv, TlbOK
    <3>4. \A w \in BackedPages' : w = v \/ (w \in BackedPages /\ w # v /\ pte'[w] = pte[w])
      BY <2>2 DEF BackedPages
    <3>5. \A w \in BackedPages : pte[w] # f /\ pte[w] \notin free
      BY DEF IInv, PagesInv
    <3>6. \A w, x \in BackedPages' : pte'[w] = pte'[x] => w = x
      BY <2>2, <3>4, <3>5 DEF IInv, PagesInv
    <3>7. \A w \in BackedPages' : pte'[w] \notin free'
      BY <2>1, <2>2, <3>4, <3>5
    <3>8. QED
      BY <3>2, <3>3, <3>6, <3>7 DEF PagesInv, present
  <2>7. QED
    BY <1>1, <2>1, <2>3, <2>5, <2>6, TableStep
<1>8. QED
  BY <1>4, <1>6, <1>7, HandlerFacts

LEMMA TlbFillInv ==
  ASSUME IInv, NEW v \in VPages, TlbFill(v)
  PROVE  IInv'
<1>1. /\ present(pte[v]) /\ tlb' = [tlb EXCEPT ![v] = pte[v]]
      /\ next_alloc' = next_alloc /\ pte' = pte /\ tables' = tables /\ free' = free
      /\ pc' = pc /\ call' = call /\ fault' = fault /\ regions' = regions /\ sp' = sp
      /\ content' = content /\ last' = last /\ status' = status
  BY DEF TlbFill, dataVars
<1>2. TypeOK /\ next_alloc \in Nat
  BY TypeFacts DEF IInv
<1>3. /\ tlb' \in [VPages -> Frames \cup Device \cup {NOPAGE}]
      /\ \A w \in VPages : tlb'[w] = IF w = v THEN pte[v] ELSE tlb[w]
  BY <1>1, <1>2 DEF TypeOK, present
<1>4. TypeOK'
  BY <1>1, <1>2, <1>3 DEF TypeOK
<1>5. SameBacked /\ \A w \in VPages : pte'[w] = pte[w]
  BY <1>1 DEF SameBacked
<1>6. \A w \in VPages : TlbOK(w)'
  BY <1>1, <1>3 DEF IInv, PagesInv, TlbOK
<1>7. PagesInv' /\ FramesAccounted'
  <2>1. next_alloc' \in Nat /\ next_alloc' >= next_alloc
    BY <1>1, <1>2
  <2>2. QED
    BY <1>1, <1>2, <1>5, <1>6, <2>1, PagesSameBacked, AccountSame DEF IInv
<1>8. \A u \in Threads : FaultOK(u)'
  BY <1>1 DEF IInv, FaultOK
<1>9. QED
  BY <1>1, <1>4, <1>7, <1>8, TableStep
LEMMA StutterInv ==
  ASSUME IInv, UNCHANGED vars
  PROVE  IInv'
<1>1. /\ next_alloc' = next_alloc /\ pte' = pte /\ tables' = tables /\ tlb' = tlb
      /\ free' = free /\ pc' = pc /\ call' = call /\ fault' = fault /\ regions' = regions
      /\ sp' = sp /\ content' = content /\ last' = last /\ status' = status
  BY DEF vars, allocVars, dataVars
<1>2. TypeOK'
  BY <1>1 DEF IInv, TypeOK
<1>3. PagesInv' /\ FramesAccounted'
  BY <1>1, Forgotten
<1>4. \A u \in Threads : FaultOK(u)'
  BY <1>1 DEF IInv, FaultOK
<1>5. QED
  BY <1>1, <1>2, <1>3, <1>4, TableStep
-----------------------------------------------------------------------------
(***************************************************************************)
(* Calls, regions and data: what the actions have in common.               *)
(***************************************************************************)
LEMMA InCallAllocates ==
  ASSUME AloneInv, NEW t \in Threads, pc[t] \in InCall
  PROVE  t \in Allocators
BY DEF AloneInv, AloneCallOK

LEMMA NotInCallOK ==
  ASSUME NEW t \in Threads, pc'[t] \notin InCall
  PROVE  AloneCallOK(t)'
<1>1. /\ pc'[t] \notin Busy /\ pc'[t] \notin MarkLoop /\ pc'[t] \notin Mapping
      /\ pc'[t] \notin Unmapping /\ pc'[t] \notin {"write", "invalidate", "advance", "init_stack"}
  BY DEF InCall, Busy, MarkLoop, Mapping, Unmapping
<1>2. QED
  BY <1>1 DEF AloneCallOK

\* While an allocator runs, nobody else is in a call.
LEMMA OthersOK ==
  ASSUME OneAllocates, AloneInv, NEW t \in Threads, t \in Allocators,
         \A u \in Threads \ {t} : pc'[u] = pc[u] \/ pc'[u] = "run"
  PROVE  /\ \A u \in Threads \ {t} : pc[u] \notin InCall /\ pc'[u] \notin InCall
         /\ \A u \in Threads \ {t} : AloneCallOK(u)'
<1>1. ASSUME NEW u \in Threads \ {t} PROVE pc[u] \notin InCall /\ pc'[u] \notin InCall
  <2>1. pc[u] \notin InCall
    BY InCallAllocates DEF OneAllocates
  <2>2. QED
    BY <2>1, LabelFacts
<1>2. QED
  BY <1>1, NotInCallOK

LEMMA AloneNoFaultOK ==
  ASSUME \A u \in Threads : fault'[u] = NOFAULT
  PROVE  \A u \in Threads : AloneFaultOK(u)'
BY DEF AloneFaultOK, NOFAULT

LEMMA DataStays ==
  ASSUME DataInv, SameBacked, content' = content, last' = last
  PROVE  DataInv'
BY DEF DataInv, SameBacked

LEMMA RegionsStay ==
  ASSUME IInv, RegionsInv, regions' \subseteq regions,
         \A r \in regions', v \in VPages :
           v \in r.begin..(r.end - 1) => pte'[v] = pte[v] \/ (Usable(v) /\ pte'[v] \in Frames)
  PROVE  RegionsInv'
<1>1. RegionsDisjoint'
  BY DEF RegionsInv, RegionsDisjoint
<1>2. ASSUME NEW r \in regions', NEW v \in r.begin..(r.end - 1)
      PROVE  IF r.kind = "map" THEN pte'[v] \in Device
                               ELSE pte'[v] = PAGE_ALLOCATED \/ pte'[v] \in Frames
  <2>1. /\ r \in regions /\ r.begin \in Nat /\ r.end \in Nat /\ r.end <= END_OF_MEMORY
    BY TypeFacts DEF IInv, RegionOK
  <2>2. v \in VPages
    BY <1>2, <2>1, ConstantFacts
  <2>3. IF r.kind = "map" THEN pte[v] \in Device ELSE Usable(v)
    BY <2>1 DEF RegionsInv
  <2>4. pte'[v] = pte[v] \/ (Usable(v) /\ pte'[v] \in Frames)
    BY <2>2
  <2>5. QED
    BY <2>3, <2>4, PageKinds DEF Usable
<1>3. QED
  BY <1>1, <1>2 DEF RegionsInv, Usable

\* A call that returns adds its pages behind all the regions there are.
LEMMA RegionAdded ==
  ASSUME IInv, AloneInv, NEW t \in Threads, pc[t] \in Busy,
         regions' = regions \cup {call[t]}, pte' = pte,
         \A v \in call[t].begin..(call[t].end - 1) :
           IF call[t].kind = "map" THEN pte[v] \in Device ELSE Usable(v)
  PROVE  RegionsInv'
<1>1. \A r \in regions : r.end <= call[t].begin
  BY DEF AloneInv, AloneCallOK
<1>2. RegionsDisjoint'
  BY <1>1 DEF AloneInv, RegionsInv, RegionsDisjoint
<1>3. \A r \in regions' : \A v \in r.begin..(r.end - 1) :
        IF r.kind = "map" THEN pte[v] \in Device ELSE Usable(v)
  BY DEF AloneInv, RegionsInv
<1>4. QED
  BY <1>2, <1>3 DEF RegionsInv, Usable

\* A step outside a call of u's that leaves the pages it is making, or taking back, alone.
LEMMA AloneCallStays ==
  ASSUME IInv, NEW u \in Threads, AloneCallOK(u),
         pc'[u] = pc[u], call'[u] = call[u], next_alloc' = next_alloc, regions' \subseteq regions,
         \A v \in VPages : tables[table(v)] # NOPAGE => tables'[table(v)] # NOPAGE,
         \A v \in VPages : \/ pte'[v] = pte[v]
                           \/ /\ pte[v] = PAGE_ALLOCATED /\ pte'[v] \in Frames
                              /\ pc[u] \in MarkLoop \cup Mapping => v < call[u].begin
  PROVE  AloneCallOK(u)'
<1> DEFINE c == call[u]
<1>1. /\ c.begin \in Nat /\ c.end \in Nat /\ c.p \in c.begin..c.end
      /\ pc[u] \in InCall => c.begin < c.end /\ c.end <= END_OF_MEMORY
      /\ pc[u] \in MidTurn => c.p # c.end
  BY TypeFacts DEF IInv, CallOK
<1>2. ASSUME pc[u] \in InCall, NEW v \in c.begin..(c.end - 1)
      PROVE  /\ v \in VPages /\ ~(v < c.begin)
             /\ pc[u] \in MarkLoop \cup Mapping => pte'[v] = pte[v]
             /\ Usable(v) => pte'[v] = PAGE_ALLOCATED \/ pte'[v] \in Frames
             /\ Given(v) => pte'[v] \in Device \cup {NOPAGE}
             /\ tables[table(v)] # NOPAGE => tables'[table(v)] # NOPAGE
  <2>1. v \in VPages /\ ~(v < c.begin)
    BY <1>1, <1>2, ConstantFacts
  <2>2. QED
    BY <2>1, PageKinds DEF Usable, Given
<1>3. /\ \A v \in c.begin..(c.p - 1) : v \in c.begin..(c.end - 1)
      /\ \A v \in (c.p + 1)..(c.end - 1) : v \in c.begin..(c.end - 1)
      /\ c.p # c.end => c.p \in c.begin..(c.end - 1)
  BY <1>1
<1>4. pc[u] \in Busy => u \in Allocators /\ \A r \in regions' : r.end <= c.begin
  BY LabelFacts DEF AloneCallOK
<1>5. ASSUME pc[u] \in MarkLoop, NEW v \in c.begin..(c.p - 1)
      PROVE  pte'[v] = PAGE_ALLOCATED /\ tables'[table(v)] # NOPAGE
  BY <1>2, <1>3, <1>5, LabelFacts DEF AloneCallOK, Reserved
<1>6. ASSUME pc[u] \in {"invalidate", "advance"}
      PROVE  pte'[c.p] = PAGE_ALLOCATED /\ tables'[table(c.p)] # NOPAGE
  <2>1. pc[u] \in MarkLoop /\ pc[u] \in InCall /\ pc[u] \in MidTurn
    BY <1>6 DEF MarkLoop, InCall, Busy, MidTurn
  <2>2. pte[c.p] = PAGE_ALLOCATED /\ tables[table(c.p)] # NOPAGE
    BY <1>6 DEF AloneCallOK, Reserved
  <2>3. c.p \in c.begin..(c.end - 1)
    BY <1>1, <1>3, <2>1
  <2>4. QED
    BY <1>2, <2>1, <2>2, <2>3
<1>7. ASSUME pc[u] \in Mapping
      PROVE  /\ \A v \in c.begin..(c.end - 1) : tables'[table(v)] # NOPAGE
             /\ \A v \in c.begin..(c.p - 1) : pte'[v] \in Device
             /\ \A v \in (c.p + 1)..(c.end - 1) : pte'[v] = PAGE_ALLOCATED
             /\ c.p # c.end => IF pc[u] = "map" THEN pte'[c.p] = PAGE_ALLOCATED
                                                ELSE pte'[c.p] \in Device
  <2>1. pc[u] \in InCall
    BY <1>7, LabelFacts
  <2>2. /\ \A v \in c.begin..(c.end - 1) : tables[table(v)] # NOPAGE
        /\ \A v \in c.begin..(c.p - 1) : pte[v] \in Device
        /\ \A v \in (c.p + 1)..(c.end - 1) : pte[v] = PAGE_ALLOCATED
        /\ c.p # c.end => IF pc[u] = "map" THEN pte[c.p] = PAGE_ALLOCATED ELSE pte[c.p] \in Device
    BY <1>7 DEF AloneCallOK
  <2>3. \A v \in c.begin..(c.end - 1) : /\ pte'[v] = pte[v]
                                        /\ tables[table(v)] # NOPAGE => tables'[table(v)] # NOPAGE
    BY <1>2, <1>7, <2>1
  <2> HIDE DEF c
  <2>4. QED
    BY <1>3, <2>2, <2>3
<1>8. ASSUME pc[u] = "init_stack", NEW v \in c.begin..(c.end - 1)
      PROVE  pte'[v] = PAGE_ALLOCATED \/ pte'[v] \in Frames
  <2>1. Usable(v) /\ pc[u] \in InCall
    BY <1>8, LabelFacts DEF AloneCallOK
  <2>2. QED
    BY <1>2, <2>1
<1>9. ASSUME pc[u] \in Unmapping
      PROVE  /\ \A v \in c.begin..(c.end - 1) : pte'[v] \in Device \cup {NOPAGE}
             /\ \A r \in regions' : r.end <= c.begin \/ c.end <= r.begin
  <2>1. pc[u] \in InCall
    BY <1>9, LabelFacts DEF InCall
  <2>2. QED
    BY <1>2, <1>9, <2>1 DEF AloneCallOK
<1>10. /\ pc[u] \in InCall => u \in Allocators
       /\ pc[u] \in MarkLoop => next_alloc' = c.p
       /\ pc[u] = "write" => c.i1 = c.p
       /\ pc[u] \in Busy \ MarkLoop => next_alloc' = c.end
  BY DEF AloneCallOK
<1> HIDE DEF c
<1>11. QED
  BY <1>4, <1>5, <1>6, <1>7, <1>8, <1>9, <1>10 DEF AloneCallOK, Reserved, Usable, Given, c

\* A step that leaves next_alloc, the regions, the page tables and the data alone.
LEMMA AloneQuiet ==
  ASSUME IInv, AloneInv, regions' \subseteq regions,
         UNCHANGED <<next_alloc, pte, tables, content, last>>,
         \A u \in Threads : (pc'[u] = pc[u] /\ call'[u] = call[u]) \/ AloneCallOK(u)',
         \A u \in Threads : AloneFaultOK(u)',
         FatalOnlyExhausted'
  PROVE  AloneInv'
<1>1. ASSUME NEW u \in Threads PROVE AloneCallOK(u)'
  <2>1. AloneCallOK(u)
    BY DEF AloneInv
  <2>2. pc'[u] = pc[u] /\ call'[u] = call[u] => AloneCallOK(u)'
    BY <2>1, AloneCallStays
  <2>3. QED
    BY <2>2
<1>2. RegionsInv'
  BY RegionsStay DEF AloneInv
<1>3. DataInv'
  BY DEF AloneInv, DataInv
<1>4. QED
  BY <1>1, <1>2, <1>3 DEF AloneInv

LEMMA InitAlone == Init => AloneInv
<1> SUFFICES ASSUME Init PROVE AloneInv
  OBVIOUS
<1>1. /\ regions = {} /\ status = "up" /\ \A t \in Threads : fault[t] = NOFAULT
      /\ \A t \in Threads : pc[t] \in {"run", "none"}
      /\ \A v \in VPages : last[v] = 0 /\ pte[v] = NOPAGE
  BY DEF Init
<1>2. \A v \in VPages : pte[v] \notin Frames
  BY <1>1, PageKinds
<1>3. \A t \in Threads : AloneCallOK(t)
  BY <1>1 DEF AloneCallOK, InCall, Busy, MarkLoop, Mapping, Unmapping
<1>4. \A t \in Threads : AloneFaultOK(t)
  BY <1>1 DEF AloneFaultOK, NOFAULT
<1>5. RegionsInv /\ DataInv /\ FatalOnlyExhausted
  BY <1>1, <1>2 DEF RegionsInv, RegionsDisjoint, DataInv, FatalOnlyExhausted
<1>6. QED
  BY <1>3, <1>4, <1>5 DEF AloneInv
-----------------------------------------------------------------------------
(***************************************************************************)
(* Calls, regions and data: the steps of a call.                           *)
(***************************************************************************)
LEMMA VmmAllocAlone ==
  ASSUME OneAllocates, IInv, AloneInv, NEW t \in Threads, t \in Allocators,
         NEW length \in 1..MaxLength, NEW kind, NEW arg,
         vmm_alloc(t, length, kind, arg)
  PROVE  AloneInv'
<1> DEFINE c == [begin |-> next_alloc, end |-> next_alloc + length, p |-> next_alloc,
                 i1 |-> 0, kind |-> kind, arg |-> arg]
<1>1. /\ At(t, "run") /\ call' = [call EXCEPT ![t] = c] /\ Goto(t, "mark")
      /\ next_alloc' = next_alloc /\ pte' = pte /\ tables' = tables /\ fault' = fault
      /\ regions' = regions /\ content' = content /\ last' = last /\ status' = status
  BY DEF vmm_alloc, allocVars, dataVars
<1>2. /\ TypeOK /\ next_alloc \in Nat /\ \A u \in Threads : fault[u] = NOFAULT
  BY <1>1, TypeFacts, AtFacts DEF IInv
<1>3. c.begin = next_alloc /\ c.p = next_alloc
  OBVIOUS
<1> HIDE DEF c
<1>4. call'[t] = c
  BY <1>1, <1>2 DEF TypeOK
<1>5. "mark" \in Labels
  BY DEF Labels, Busy, MarkLoop
<1>6. pc'[t] = "mark" /\ \A u \in Threads \ {t} : pc'[u] = pc[u]
  BY <1>1, <1>2, <1>5, GotoFacts
<1>7. \A r \in regions : r.end <= next_alloc
  BY DEF IInv, RegionOK
<1>8. \A v \in next_alloc..(next_alloc - 1) : FALSE
  BY <1>2
<1>9. AloneCallOK(t)'
  BY <1>1, <1>3, <1>4, <1>6, <1>7, <1>8 DEF AloneCallOK, MarkLoop, Mapping, Unmapping
<1>10. \A u \in Threads : AloneCallOK(u)'
  BY <1>6, <1>9, OthersOK
<1>11. \A u \in Threads : AloneFaultOK(u)'
  BY <1>1, <1>2, AloneNoFaultOK
<1>12. FatalOnlyExhausted'
  BY <1>1 DEF AloneInv, FatalOnlyExhausted
<1>13. QED
  BY <1>1, <1>10, <1>11, <1>12, AloneQuiet

\* Where t is in vmm_alloc's loop.
LEMMA LoopFacts ==
  ASSUME IInv, AloneInv, NEW t \in Threads, pc[t] \in MarkLoop
  PROVE  /\ t \in Allocators /\ next_alloc = call[t].p /\ call[t] \in Calls
         /\ call[t].begin \in Nat /\ call[t].end \in Nat
         /\ call[t].p \in call[t].begin..call[t].end
         /\ \A v \in call[t].begin..(call[t].p - 1) : Reserved(v)
         /\ \A r \in regions : r.end <= call[t].begin
<1>1. pc[t] \in Busy /\ pc[t] \in InCall
  BY LabelFacts
<1>2. call[t] \in Calls /\ call[t].begin \in Nat /\ call[t].end \in Nat
      /\ call[t].p \in call[t].begin..call[t].end
  BY TypeFacts DEF IInv
<1>3. QED
  BY <1>1, <1>2 DEF AloneInv, AloneCallOK

LEMMA IndexAlone ==
  ASSUME OneAllocates, IInv, AloneInv, NEW t \in Threads, index(t)
  PROVE  AloneInv'
<1> DEFINE c == call[t]
<1>1. /\ At(t, "mark") /\ call' = [call EXCEPT ![t].i1 = next_alloc] /\ Goto(t, "write")
      /\ next_alloc' = next_alloc /\ pte' = pte /\ tables' = tables /\ fault' = fault
      /\ regions' = regions /\ content' = content /\ last' = last /\ status' = status
  BY DEF index, allocVars, dataVars
<1>2. /\ TypeOK /\ pc[t] \in MarkLoop /\ \A u \in Threads : fault[u] = NOFAULT
  BY <1>1, AtFacts DEF IInv, MarkLoop
<1>3. /\ t \in Allocators /\ next_alloc = c.p /\ c \in Calls
      /\ \A v \in c.begin..(c.p - 1) : Reserved(v)
      /\ \A r \in regions : r.end <= c.begin
  BY <1>2, LoopFacts
<1>4. call'[t] = [c EXCEPT !.i1 = next_alloc]
  BY <1>1, <1>2 DEF TypeOK
<1>5. call'[t].begin = c.begin /\ call'[t].p = c.p /\ call'[t].i1 = next_alloc
  BY <1>3, <1>4 DEF Calls
<1>6. "write" \in Labels
  BY DEF Labels, Busy, MarkLoop
<1>7. pc'[t] = "write" /\ \A u \in Threads \ {t} : pc'[u] = pc[u]
  BY <1>1, <1>2, <1>6, GotoFacts
<1> HIDE DEF c
<1>8. AloneCallOK(t)'
  BY <1>1, <1>3, <1>5, <1>7 DEF AloneCallOK, MarkLoop, Mapping, Unmapping, Reserved
<1>9. \A u \in Threads : AloneCallOK(u)'
  BY <1>3, <1>7, <1>8, OthersOK
<1>10. \A u \in Threads : AloneFaultOK(u)'
  BY <1>1, <1>2, AloneNoFaultOK
<1>11. FatalOnlyExhausted'
  BY <1>1 DEF AloneInv, FatalOnlyExhausted
<1>12. QED
  BY <1>1, <1>9, <1>10, <1>11, AloneQuiet

LEMMA MarkAlone ==
  ASSUME OneAllocates, IInv, AloneInv, NEW t \in Threads, mark(t)
  PROVE  AloneInv'
<1> DEFINE c == call[t]
           i1 == c.i1
<1>1. /\ At(t, "write")
      /\ next_alloc' = next_alloc /\ tables' = tables /\ call' = call
      /\ regions' = regions /\ content' = content /\ last' = last /\ status' = status
  BY DEF mark, dataVars
<1>2. /\ TypeOK /\ next_alloc \in Nat /\ pc[t] = "write" /\ pc[t] \in MarkLoop
      /\ \A u \in Threads : fault[u] = NOFAULT
  BY <1>1, TypeFacts, AtFacts DEF IInv, MarkLoop
<1>3. /\ t \in Allocators /\ next_alloc = c.p /\ c.begin \in Nat /\ c.end \in Nat
      /\ c.p \in c.begin..c.end
      /\ \A v \in c.begin..(c.p - 1) : Reserved(v)
      /\ \A r \in regions : r.end <= c.begin
  BY <1>2, LoopFacts
<1>4. i1 \in VPages /\ i1 = c.p
  BY <1>2 DEF IInv, CallOK, AloneInv, AloneCallOK
<1>5. FatalOnlyExhausted'
  BY <1>1 DEF AloneInv, FatalOnlyExhausted
<1>6. CASE tables[table(i1)] = NOPAGE
  <2>1. Fault(t, "table", i1) /\ pte' = pte /\ pc' = pc
    BY <1>6 DEF mark
  <2>2. /\ fault'[t] = [on |-> "table", v |-> i1]
        /\ \A u \in Threads \ {t} : fault'[u] = NOFAULT
    BY <1>2, <2>1 DEF Fault, TypeOK
  <2>3. \A u \in Threads : AloneFaultOK(u)'
    BY <2>2 DEF AloneFaultOK, NOFAULT
  <2>4. QED
    BY <1>1, <1>5, <2>1, <2>3, AloneQuiet
<1>7. CASE tables[table(i1)] # NOPAGE
  <2>1. /\ pte' = [pte EXCEPT ![i1] = PAGE_ALLOCATED] /\ Goto(t, "invalidate") /\ fault' = fault
    BY <1>7 DEF mark
  <2>2. "invalidate" \in Labels
    BY DEF Labels, Busy, MarkLoop
  <2>3. pc'[t] = "invalidate" /\ \A u \in Threads \ {t} : pc'[u] = pc[u]
    BY <1>2, <2>1, <2>2, GotoFacts
  <2> HIDE DEF i1, c
  <2>4. pte'[i1] = PAGE_ALLOCATED /\ \A v \in VPages \ {i1} : pte'[v] = pte[v]
    BY <1>2, <1>4, <2>1 DEF TypeOK
  <2>5. SameBacked
    <3>1. i1 >= next_alloc
      BY <1>2, <1>3, <1>4
    <3>2. pte[i1] \notin Frames
      BY <1>4, <3>1 DEF IInv, PagesInv, present
    <3>3. QED
      BY <2>4, <3>2, PageKinds DEF SameBacked
  <2>6. ASSUME NEW v \in c.begin..(c.p - 1) PROVE pte'[v] = PAGE_ALLOCATED
    <3>1. v # i1 /\ v \in Nat /\ v < i1
      BY <1>3, <1>4
    <3>2. v \in VPages
      BY <1>3, <1>4, <3>1, ConstantFacts
    <3>3. QED
      BY <1>3, <2>4, <3>1, <3>2 DEF Reserved
  <2>7. AloneCallOK(t)'
    <3>1. pte'[c.p] = PAGE_ALLOCATED /\ tables[table(c.p)] # NOPAGE
      BY <1>4, <1>7, <2>4
    <3>2. \A v \in c.begin..(c.p - 1) : pte'[v] = PAGE_ALLOCATED /\ tables[table(v)] # NOPAGE
      BY <1>3, <2>6 DEF Reserved
    <3>3. QED
      BY <1>1, <1>2, <1>3, <2>3, <3>1, <3>2 DEF AloneCallOK, Reserved, MarkLoop, Mapping,
                                                 Unmapping, c
  <2>8. \A u \in Threads : AloneCallOK(u)'
    BY <1>3, <2>3, <2>7, OthersOK
  <2>9. RegionsInv'
    <3> SUFFICES ASSUME NEW r \in regions', NEW v \in VPages, v \in r.begin..(r.end - 1)
                 PROVE  pte'[v] = pte[v]
      BY <1>1, RegionsStay DEF AloneInv
    <3>1. r.begin \in Nat /\ r.end \in Nat /\ r.end <= c.begin
      BY <1>1, <1>2, <1>3, TypeFacts
    <3>2. v # i1
      BY <1>3, <1>4, <3>1
    <3>3. QED
      BY <2>4, <3>2
  <2>10. DataInv'
    BY <1>1, <2>5, DataStays DEF AloneInv
  <2>11. \A u \in Threads : AloneFaultOK(u)'
    BY <1>2, <2>1, AloneNoFaultOK
  <2>12. QED
    BY <1>5, <2>8, <2>9, <2>10, <2>11 DEF AloneInv
<1>8. QED
  BY <1>6, <1>7

LEMMA InvalidateAlone ==
  ASSUME OneAllocates, IInv, AloneInv, NEW t \in Threads, invalidate(t)
  PROVE  AloneInv'
<1>1. /\ At(t, "invalidate") /\ Goto(t, "advance") /\ call' = call
      /\ next_alloc' = next_alloc /\ pte' = pte /\ tables' = tables /\ fault' = fault
      /\ regions' = regions /\ content' = content /\ last' = last /\ status' = status
  BY DEF invalidate, dataVars
<1>2. /\ TypeOK /\ pc[t] = "invalidate" /\ pc[t] \in MarkLoop
      /\ \A u \in Threads : fault[u] = NOFAULT
  BY <1>1, AtFacts DEF IInv, MarkLoop
<1>3. /\ t \in Allocators /\ next_alloc = call[t].p
      /\ \A v \in call[t].begin..(call[t].p - 1) : Reserved(v)
      /\ \A r \in regions : r.end <= call[t].begin
  BY <1>2, LoopFacts
<1>4. Reserved(call[t].p)
  BY <1>2 DEF AloneInv, AloneCallOK
<1>5. "advance" \in Labels
  BY DEF Labels, Busy, MarkLoop
<1>6. pc'[t] = "advance" /\ \A u \in Threads \ {t} : pc'[u] = pc[u]
  BY <1>1, <1>2, <1>5, GotoFacts
<1>7. AloneCallOK(t)'
  BY <1>1, <1>3, <1>4, <1>6 DEF AloneCallOK, MarkLoop, Mapping, Unmapping, Reserved
<1>8. \A u \in Threads : AloneCallOK(u)'
  BY <1>3, <1>6, <1>7, OthersOK
<1>9. \A u \in Threads : AloneFaultOK(u)'
  BY <1>1, <1>2, AloneNoFaultOK
<1>10. FatalOnlyExhausted'
  BY <1>1 DEF AloneInv, FatalOnlyExhausted
<1>11. QED
  BY <1>1, <1>8, <1>9, <1>10, AloneQuiet

LEMMA AdvanceAlone ==
  ASSUME OneAllocates, IInv, AloneInv, NEW t \in Threads, advance(t)
  PROVE  AloneInv'
<1> DEFINE c == call[t]
<1>1. /\ At(t, "advance") /\ next_alloc' = next_alloc + 1
      /\ call' = [call EXCEPT ![t].p = @ + 1] /\ Goto(t, "mark")
      /\ pte' = pte /\ tables' = tables /\ fault' = fault
      /\ regions' = regions /\ content' = content /\ last' = last /\ status' = status
  BY DEF advance, dataVars
<1>2. /\ TypeOK /\ next_alloc \in Nat /\ pc[t] = "advance" /\ pc[t] \in MarkLoop
      /\ \A u \in Threads : fault[u] = NOFAULT
  BY <1>1, TypeFacts, AtFacts DEF IInv, MarkLoop
<1>3. /\ t \in Allocators /\ next_alloc = c.p /\ c \in Calls /\ c.begin \in Nat /\ c.end \in Nat
      /\ c.p \in c.begin..c.end
      /\ \A v \in c.begin..(c.p - 1) : Reserved(v)
      /\ \A r \in regions : r.end <= c.begin
  BY <1>2, LoopFacts
<1>4. Reserved(c.p)
  BY <1>2 DEF AloneInv, AloneCallOK
<1>5. call'[t] = [c EXCEPT !.p = @ + 1]
  BY <1>1, <1>2 DEF TypeOK
<1>6. call'[t].begin = c.begin /\ call'[t].p = c.p + 1
  BY <1>3, <1>5 DEF Calls
<1>7. "mark" \in Labels
  BY DEF Labels, Busy, MarkLoop
<1>8. pc'[t] = "mark" /\ \A u \in Threads \ {t} : pc'[u] = pc[u]
  BY <1>1, <1>2, <1>7, GotoFacts
<1> HIDE DEF c
<1>9. \A v \in c.begin..((c.p + 1) - 1) : Reserved(v)
  <2>1. \A v \in c.begin..((c.p + 1) - 1) : v = c.p \/ v \in c.begin..(c.p - 1)
    BY <1>3
  <2>2. QED
    BY <1>3, <1>4, <2>1
<1>10. AloneCallOK(t)'
  BY <1>1, <1>3, <1>6, <1>8, <1>9 DEF AloneCallOK, MarkLoop, Mapping, Unmapping, Reserved
<1>11. \A u \in Threads : AloneCallOK(u)'
  BY <1>3, <1>8, <1>10, OthersOK
<1>12. \A u \in Threads : AloneFaultOK(u)'
  BY <1>1, <1>2, AloneNoFaultOK
<1>13. RegionsInv' /\ DataInv' /\ FatalOnlyExhausted'
  BY <1>1 DEF AloneInv, RegionsInv, RegionsDisjoint, Usable, DataInv, FatalOnlyExhausted
<1>14. QED
  BY <1>11, <1>12, <1>13 DEF AloneInv

\* What a call that has reserved all its pages leaves.
LEMMA ReturnAlone ==
  ASSUME IInv, AloneInv, NEW t \in Threads, pc[t] = "mark", call[t].p = call[t].end
  PROVE  /\ t \in Allocators /\ next_alloc = call[t].end /\ pc[t] \in Busy
         /\ \A r \in regions : r.end <= call[t].begin
         /\ \A v \in call[t].begin..(call[t].end - 1) : Reserved(v)
<1>1. pc[t] \in MarkLoop
  BY DEF MarkLoop
<1>2. QED
  BY <1>1, LoopFacts, LabelFacts

LEMMA ReturnMmapAlone ==
  ASSUME OneAllocates, IInv, AloneInv, NEW t \in Threads, return_mmap(t)
  PROVE  AloneInv'
<1>1. /\ At(t, "mark") /\ call[t].p = call[t].end /\ call[t].kind = "mmap"
      /\ regions' = regions \cup {call[t]} /\ Goto(t, "run")
      /\ pte' = pte /\ fault' = fault
      /\ content' = content /\ last' = last /\ status' = status
  BY DEF return_mmap, allocVars, dataVars
<1>2. /\ TypeOK /\ pc[t] = "mark" /\ t \in Allocators /\ pc[t] \in Busy
      /\ \A u \in Threads : fault[u] = NOFAULT
  BY <1>1, AtFacts, ReturnAlone DEF IInv
<1>3. pc'[t] = "run" /\ \A u \in Threads \ {t} : pc'[u] = pc[u]
  BY <1>1, <1>2, GotoFacts, LabelFacts
<1>4. AloneCallOK(t)'
  BY <1>3, NotInCallOK, LabelFacts
<1>5. \A u \in Threads : AloneCallOK(u)'
  BY <1>2, <1>3, <1>4, OthersOK
<1>6. RegionsInv'
  <2>1. \A v \in call[t].begin..(call[t].end - 1) : Usable(v)
    BY <1>1, <1>2, ReturnAlone DEF Reserved, Usable
  <2>2. QED
    BY <1>1, <1>2, <2>1, RegionAdded
<1>7. \A u \in Threads : AloneFaultOK(u)'
  BY <1>1, <1>2, AloneNoFaultOK
<1>8. DataInv' /\ FatalOnlyExhausted'
  BY <1>1 DEF AloneInv, DataInv, FatalOnlyExhausted
<1>9. QED
  BY <1>5, <1>6, <1>7, <1>8 DEF AloneInv

LEMMA ReturnStackAlone ==
  ASSUME OneAllocates, IInv, AloneInv, NEW t \in Threads, return_stack(t)
  PROVE  AloneInv'
<1>1. /\ At(t, "mark") /\ call[t].p = call[t].end /\ Goto(t, "init_stack")
      /\ next_alloc' = next_alloc /\ regions' = regions /\ call' = call
      /\ pte' = pte /\ tables' = tables /\ fault' = fault
      /\ content' = content /\ last' = last /\ status' = status
  BY DEF return_stack, allocVars, dataVars
<1>2. /\ TypeOK /\ pc[t] = "mark" /\ t \in Allocators
      /\ \A u \in Threads : fault[u] = NOFAULT
  BY <1>1, AtFacts, ReturnAlone DEF IInv
<1>3. pc'[t] = "init_stack" /\ \A u \in Threads \ {t} : pc'[u] = pc[u]
  BY <1>1, <1>2, GotoFacts, LabelFacts
<1>4. AloneCallOK(t)'
  <2>1. \A v \in call[t].begin..(call[t].end - 1) : Usable(v)
    BY <1>1, <1>2, ReturnAlone DEF Reserved, Usable
  <2>2. /\ next_alloc = call[t].end /\ \A r \in regions : r.end <= call[t].begin
    BY <1>1, <1>2, ReturnAlone
  <2>3. QED
    BY <1>1, <1>2, <1>3, <2>1, <2>2 DEF AloneCallOK, Usable, MarkLoop, Mapping, Unmapping
<1>5. \A u \in Threads : AloneCallOK(u)'
  BY <1>2, <1>3, <1>4, OthersOK
<1>6. \A u \in Threads : AloneFaultOK(u)'
  BY <1>1, <1>2, AloneNoFaultOK
<1>7. FatalOnlyExhausted'
  BY <1>1 DEF AloneInv, FatalOnlyExhausted
<1>8. QED
  BY <1>1, <1>5, <1>6, <1>7, AloneQuiet

LEMMA ReturnMapAlone ==
  ASSUME OneAllocates, IInv, AloneInv, NEW t \in Threads, return_map(t)
  PROVE  AloneInv'
<1> DEFINE c == call[t]
<1>1. /\ At(t, "mark") /\ c.p = c.end
      /\ next_alloc' = next_alloc /\ regions' = regions /\ pte' = pte /\ tables' = tables
      /\ fault' = fault /\ content' = content /\ last' = last
      /\ \/ status' = "out of virtual space" /\ pc' = pc /\ call' = call
         \/ status' = status /\ Goto(t, "map") /\ call' = [call EXCEPT ![t].p = c.begin]
  BY DEF return_map, allocVars, dataVars
<1>2. /\ TypeOK /\ pc[t] = "mark" /\ t \in Allocators
      /\ \A u \in Threads : fault[u] = NOFAULT
  BY <1>1, AtFacts, ReturnAlone DEF IInv
<1>3. /\ next_alloc = c.end /\ \A r \in regions : r.end <= c.begin
      /\ \A v \in c.begin..(c.end - 1) : pte[v] = PAGE_ALLOCATED /\ tables[table(v)] # NOPAGE
  BY <1>1, <1>2, ReturnAlone DEF Reserved
<1>4. \A u \in Threads : AloneFaultOK(u)'
  BY <1>1, <1>2, AloneNoFaultOK
<1>5. FatalOnlyExhausted'
  BY <1>1 DEF AloneInv, FatalOnlyExhausted
<1>6. \A u \in Threads : (pc'[u] = pc[u] /\ call'[u] = call[u]) \/ AloneCallOK(u)'
  <2>1. CASE Goto(t, "map") /\ call' = [call EXCEPT ![t].p = c.begin]
    <3>1. "map" \in Labels
      BY DEF Labels, Busy
    <3>2. pc'[t] = "map" /\ \A u \in Threads \ {t} : pc'[u] = pc[u]
      BY <1>2, <2>1, <3>1, GotoFacts
    <3>3. c \in Calls /\ c.begin \in Nat /\ c.end \in Nat
      BY <1>2, TypeFacts
    <3>4. call'[t] = [c EXCEPT !.p = c.begin]
      BY <1>2, <2>1 DEF TypeOK
    <3>5. call'[t].begin = c.begin /\ call'[t].end = c.end /\ call'[t].p = c.begin
      BY <3>3, <3>4 DEF Calls
    <3> HIDE DEF c
    <3>6. /\ \A v \in c.begin..(c.begin - 1) : FALSE
          /\ \A v \in (c.begin + 1)..(c.end - 1) : v \in c.begin..(c.end - 1)
          /\ c.begin # c.end => c.begin \in c.begin..(c.end - 1)
      <4>1. c.begin < c.end
        BY <1>1, <1>2, ReturnFacts DEF c
      <4>2. QED
        BY <3>3, <4>1
    <3>7. AloneCallOK(t)'
      BY <1>1, <1>2, <1>3, <3>2, <3>5, <3>6 DEF AloneCallOK, MarkLoop, Unmapping
    <3>8. QED
      BY <1>2, <3>2, <3>7, OthersOK
  <2>2. QED
    BY <1>1, <2>1
<1>7. QED
  BY <1>1, <1>4, <1>5, <1>6, AloneQuiet

LEMMA InitStackAlone ==
  ASSUME OneAllocates, IInv, AloneInv, NEW t \in Threads, init_stack(t)
  PROVE  AloneInv'
<1> DEFINE c == call[t]
           top == c.end - 1
<1>1. /\ At(t, "init_stack")
      /\ next_alloc' = next_alloc /\ pte' = pte /\ tables' = tables /\ call' = call
      /\ content' = content /\ last' = last /\ status' = status
      /\ \/ /\ pte[top] = PAGE_ALLOCATED /\ Fault(t, "page", top) /\ pc' = pc /\ regions' = regions
         \/ /\ pc' = [pc EXCEPT ![t] = "run", ![c.arg] = "run"]
            /\ regions' = regions \cup {c} /\ fault' = fault
  BY DEF init_stack, allocVars, dataVars
<1>2. /\ TypeOK /\ pc[t] = "init_stack" /\ pc[t] \in Busy /\ pc[t] \in InCall
      /\ \A u \in Threads : fault[u] = NOFAULT
  BY <1>1, AtFacts, LabelFacts DEF IInv
<1>3. t \in Allocators /\ c.kind = "stack"
  BY <1>2, InCallAllocates DEF IInv, CallOK
<1>4. FatalOnlyExhausted'
  BY <1>1 DEF AloneInv, FatalOnlyExhausted
<1>5. CASE pte[top] = PAGE_ALLOCATED /\ Fault(t, "page", top) /\ pc' = pc /\ regions' = regions
  <2>1. /\ fault'[t] = [on |-> "page", v |-> top]
        /\ \A u \in Threads \ {t} : fault'[u] = NOFAULT
    BY <1>2, <1>5 DEF Fault, TypeOK
  <2>2. \A u \in Threads : pc'[u] \notin MarkLoop \cup Mapping
    <3>1. \A u \in Threads \ {t} : pc[u] \notin InCall
      BY <1>3, <1>5, OthersOK
    <3>2. QED
      BY <1>2, <1>5, <3>1, LabelFacts
  <2> HIDE DEF top
  <2>3. \A u \in Threads : AloneFaultOK(u)'
    BY <1>1, <1>5, <2>1, <2>2 DEF AloneFaultOK, NOFAULT
  <2>4. QED
    BY <1>1, <1>4, <1>5, <2>3, AloneQuiet
<1>6. CASE /\ pc' = [pc EXCEPT ![t] = "run", ![c.arg] = "run"]
           /\ regions' = regions \cup {c} /\ fault' = fault
  <2>1. c.arg \in Threads
    BY <1>2, TypeFacts
  <2>2. pc'[t] = "run" /\ \A u \in Threads \ {t} : pc'[u] = pc[u] \/ pc'[u] = "run"
    BY <1>2, <1>6, <2>1 DEF TypeOK
  <2>3. AloneCallOK(t)'
    BY <2>2, NotInCallOK, LabelFacts
  <2>4. \A u \in Threads : AloneCallOK(u)'
    BY <1>3, <2>2, <2>3, OthersOK
  <2>5. \A v \in c.begin..(c.end - 1) : Usable(v)
    BY <1>2 DEF AloneInv, AloneCallOK
  <2>6. RegionsInv'
    BY <1>1, <1>2, <1>3, <1>6, <2>5, RegionAdded
  <2>7. \A u \in Threads : AloneFaultOK(u)'
    BY <1>2, <1>6, AloneNoFaultOK
  <2>8. DataInv'
    BY <1>1 DEF AloneInv, DataInv
  <2>9. QED
    BY <1>4, <2>4, <2>6, <2>7, <2>8 DEF AloneInv
<1>7. QED
  BY <1>1, <1>5, <1>6

\* Where t is in vmm_map's loop.
LEMMA MapFacts ==
  ASSUME IInv, AloneInv, NEW t \in Threads, pc[t] \in Mapping
  PROVE  LET c == call[t]
         IN  /\ t \in Allocators /\ next_alloc = c.end /\ c \in Calls /\ c.kind = "map"
             /\ c.begin \in Nat /\ c.end \in Nat /\ c.p \in c.begin..c.end /\ c.end <= END_OF_MEMORY
             /\ \A r \in regions : r.end <= c.begin
             /\ \A v \in c.begin..(c.end - 1) : tables[table(v)] # NOPAGE
             /\ \A v \in c.begin..(c.p - 1) : pte[v] \in Device
             /\ \A v \in (c.p + 1)..(c.end - 1) : pte[v] = PAGE_ALLOCATED
             /\ c.p # c.end => IF pc[t] = "map" THEN pte[c.p] = PAGE_ALLOCATED
                                                ELSE pte[c.p] \in Device
<1>1. pc[t] \in Busy /\ pc[t] \in InCall /\ pc[t] \in Busy \ MarkLoop
  BY LabelFacts
<1>2. /\ call[t] \in Calls /\ call[t].begin \in Nat /\ call[t].end \in Nat
      /\ call[t].p \in call[t].begin..call[t].end
  BY TypeFacts DEF IInv
<1>3. call[t].end <= END_OF_MEMORY /\ call[t].kind = "map"
  BY <1>1 DEF IInv, CallOK
<1>4. QED
  BY <1>1, <1>2, <1>3 DEF AloneInv, AloneCallOK

LEMMA MapPageAlone ==
  ASSUME OneAllocates, IInv, AloneInv, NEW t \in Threads, map_page(t)
  PROVE  AloneInv'
<1> DEFINE c == call[t]
           v == c.p
<1>1. /\ At(t, "map") /\ v # c.end
      /\ next_alloc' = next_alloc /\ call' = call /\ fault' = fault /\ regions' = regions
      /\ content' = content /\ last' = last
      /\ pc' = IF status' = "up" THEN [pc EXCEPT ![t] = "map_invalidate"] ELSE pc
  BY DEF map_page, dataVars
<1>2. PICK d \in Device : vmm_map_page(d, v)
  BY DEF map_page
<1>3. /\ TypeOK /\ pc[t] = "map" /\ pc[t] \in Mapping /\ status = "up"
      /\ \A u \in Threads : fault[u] = NOFAULT
  BY <1>1, AtFacts DEF IInv, Mapping
<1>4. /\ t \in Allocators /\ next_alloc = c.end
      /\ c.begin \in Nat /\ c.end \in Nat /\ v \in c.begin..c.end /\ c.end <= END_OF_MEMORY
      /\ \A r \in regions : r.end <= c.begin
      /\ \A w \in c.begin..(c.end - 1) : tables[table(w)] # NOPAGE
      /\ \A w \in c.begin..(v - 1) : pte[w] \in Device
      /\ \A w \in (v + 1)..(c.end - 1) : pte[w] = PAGE_ALLOCATED
      /\ pte[v] = PAGE_ALLOCATED
  BY <1>1, <1>3, MapFacts
<1>5. v \in VPages /\ v \in c.begin..(c.end - 1)
  BY <1>1, <1>4, ConstantFacts
<1>6. tables[table(v)] # NOPAGE /\ ~present(pte[v])
  BY <1>4, <1>5, PageKinds DEF present
<1>7. pte' = [pte EXCEPT ![v] = d] /\ tables' = tables /\ status' = status
  BY <1>2, <1>6 DEF vmm_map_page
<1>8. Goto(t, "map_invalidate") /\ "map_invalidate" \in Labels
  BY <1>1, <1>3, <1>7 DEF Goto, Labels, Busy
<1>9. pc'[t] = "map_invalidate" /\ \A u \in Threads \ {t} : pc'[u] = pc[u]
  BY <1>3, <1>8, GotoFacts
<1> HIDE DEF v, c
<1>10. pte'[v] = d /\ \A w \in VPages \ {v} : pte'[w] = pte[w]
  BY <1>3, <1>5, <1>7 DEF TypeOK
<1>11. /\ \A w \in c.begin..(v - 1) : w \in VPages \ {v}
       /\ \A w \in (v + 1)..(c.end - 1) : w \in VPages \ {v}
  BY <1>4, ConstantFacts
<1>12. /\ \A w \in c.begin..(v - 1) : pte'[w] \in Device
       /\ \A w \in (v + 1)..(c.end - 1) : pte'[w] = PAGE_ALLOCATED
  BY <1>4, <1>10, <1>11
<1>13. AloneCallOK(t)'
  BY <1>1, <1>4, <1>7, <1>9, <1>10, <1>12 DEF AloneCallOK, MarkLoop, Unmapping, c, v
<1>14. \A u \in Threads : AloneCallOK(u)'
  BY <1>4, <1>9, <1>13, OthersOK
<1>15. SameBacked
  BY <1>4, <1>10, PageKinds DEF SameBacked
<1>16. DataInv' /\ FatalOnlyExhausted'
  BY <1>1, <1>3, <1>7, <1>15, DataStays DEF AloneInv, FatalOnlyExhausted
<1>17. \A u \in Threads : AloneFaultOK(u)'
  BY <1>1, <1>3, AloneNoFaultOK
<1>18. RegionsInv'
  <2> SUFFICES ASSUME NEW r \in regions', NEW w \in VPages, w \in r.begin..(r.end - 1)
               PROVE  pte'[w] = pte[w]
    BY <1>1, RegionsStay DEF AloneInv
  <2>1. r.begin \in Nat /\ r.end \in Nat /\ r.end <= c.begin
    BY <1>1, <1>3, <1>4, TypeFacts
  <2>2. w # v
    BY <1>4, <2>1
  <2>3. QED
    BY <1>10, <2>2
<1>19. QED
  BY <1>14, <1>16, <1>17, <1>18 DEF AloneInv

LEMMA MapInvalidateAlone ==
  ASSUME OneAllocates, IInv, AloneInv, NEW t \in Threads, map_invalidate(t)
  PROVE  AloneInv'
<1> DEFINE c == call[t]
<1>1. /\ At(t, "map_invalidate") /\ call' = [call EXCEPT ![t].p = @ + 1] /\ Goto(t, "map")
      /\ next_alloc' = next_alloc /\ pte' = pte /\ tables' = tables /\ fault' = fault
      /\ regions' = regions /\ content' = content /\ last' = last /\ status' = status
  BY DEF map_invalidate, next_turn, dataVars
<1>2. /\ TypeOK /\ pc[t] = "map_invalidate" /\ pc[t] \in Mapping /\ pc[t] \in MidTurn
      /\ \A u \in Threads : fault[u] = NOFAULT
  BY <1>1, AtFacts DEF IInv, Mapping, MidTurn
<1>3. c.p # c.end
  BY <1>2 DEF IInv, CallOK
<1>4. /\ t \in Allocators /\ next_alloc = c.end
      /\ c.begin \in Nat /\ c.end \in Nat /\ c.p \in c.begin..c.end
      /\ \A r \in regions : r.end <= c.begin
      /\ \A v \in c.begin..(c.end - 1) : tables[table(v)] # NOPAGE
      /\ \A v \in c.begin..(c.p - 1) : pte[v] \in Device
      /\ \A v \in (c.p + 1)..(c.end - 1) : pte[v] = PAGE_ALLOCATED
      /\ pte[c.p] \in Device
  BY <1>2, <1>3, MapFacts
<1>5. call'[t].begin = c.begin /\ call'[t].end = c.end /\ call'[t].p = c.p + 1
  BY <1>1, <1>2, <1>3, NextPage
<1>6. "map" \in Labels
  BY DEF Labels, Busy
<1>7. pc'[t] = "map" /\ \A u \in Threads \ {t} : pc'[u] = pc[u]
  BY <1>1, <1>2, <1>6, GotoFacts
<1> HIDE DEF c
<1>8. /\ \A v \in c.begin..((c.p + 1) - 1) : v = c.p \/ v \in c.begin..(c.p - 1)
      /\ \A v \in ((c.p + 1) + 1)..(c.end - 1) : v \in (c.p + 1)..(c.end - 1)
      /\ c.p + 1 # c.end => c.p + 1 \in (c.p + 1)..(c.end - 1)
  BY <1>3, <1>4
<1>9. /\ \A v \in c.begin..((c.p + 1) - 1) : pte[v] \in Device
      /\ \A v \in ((c.p + 1) + 1)..(c.end - 1) : pte[v] = PAGE_ALLOCATED
      /\ c.p + 1 # c.end => pte[c.p + 1] = PAGE_ALLOCATED
  BY <1>4, <1>8
<1>10. AloneCallOK(t)'
  BY <1>1, <1>4, <1>5, <1>7, <1>9 DEF AloneCallOK, MarkLoop, Unmapping
<1>11. \A u \in Threads : AloneCallOK(u)'
  BY <1>4, <1>7, <1>10, OthersOK
<1>12. \A u \in Threads : AloneFaultOK(u)'
  BY <1>1, <1>2, AloneNoFaultOK
<1>13. FatalOnlyExhausted'
  BY <1>1 DEF AloneInv, FatalOnlyExhausted
<1>14. QED
  BY <1>1, <1>11, <1>12, <1>13, AloneQuiet

LEMMA VmmMapReturnAlone ==
  ASSUME OneAllocates, IInv, AloneInv, NEW t \in Threads, vmm_map_return(t)
  PROVE  AloneInv'
<1>1. /\ At(t, "map") /\ call[t].p = call[t].end
      /\ regions' = regions \cup {call[t]} /\ Goto(t, "run")
      /\ pte' = pte /\ fault' = fault
      /\ content' = content /\ last' = last /\ status' = status
  BY DEF vmm_map_return, allocVars, dataVars
<1>2. /\ TypeOK /\ pc[t] = "map" /\ pc[t] \in Mapping /\ pc[t] \in Busy
      /\ \A u \in Threads : fault[u] = NOFAULT
  BY <1>1, AtFacts, LabelFacts DEF IInv, Mapping
<1>3. /\ t \in Allocators /\ call[t].kind = "map"
      /\ \A v \in call[t].begin..(call[t].end - 1) : pte[v] \in Device
  BY <1>1, <1>2, MapFacts
<1>4. pc'[t] = "run" /\ \A u \in Threads \ {t} : pc'[u] = pc[u]
  BY <1>1, <1>2, GotoFacts, LabelFacts
<1>5. AloneCallOK(t)'
  BY <1>4, NotInCallOK, LabelFacts
<1>6. \A u \in Threads : AloneCallOK(u)'
  BY <1>3, <1>4, <1>5, OthersOK
<1>7. RegionsInv'
  BY <1>1, <1>2, <1>3, RegionAdded
<1>8. \A u \in Threads : AloneFaultOK(u)'
  BY <1>1, <1>2, AloneNoFaultOK
<1>9. DataInv' /\ FatalOnlyExhausted'
  BY <1>1 DEF AloneInv, DataInv, FatalOnlyExhausted
<1>10. QED
  BY <1>6, <1>7, <1>8, <1>9 DEF AloneInv

LEMMA VmmUnmapAlone ==
  ASSUME OneAllocates, IInv, AloneInv, NEW t \in Threads, NEW r \in regions, vmm_unmap(t, r)
  PROVE  AloneInv'
<1> DEFINE c == [r EXCEPT !.p = r.begin]
<1>1. /\ At(t, "run") /\ r.kind = "map" /\ t \in Allocators
      /\ call' = [call EXCEPT ![t] = c] /\ Goto(t, "unmap") /\ regions' = regions \ {r}
      /\ next_alloc' = next_alloc /\ pte' = pte /\ tables' = tables /\ fault' = fault
      /\ content' = content /\ last' = last /\ status' = status
  BY DEF vmm_unmap, allocVars, dataVars, Allocators
<1>2. TypeOK /\ r \in Calls /\ \A u \in Threads : fault[u] = NOFAULT
  BY <1>1, TypeFacts, AtFacts DEF IInv
<1>3. c.begin = r.begin /\ c.end = r.end
  BY <1>2 DEF Calls
<1> HIDE DEF c
<1>4. call'[t] = c
  BY <1>1, <1>2 DEF TypeOK
<1>5. "unmap" \in Labels
  BY DEF Labels
<1>6. pc'[t] = "unmap" /\ \A u \in Threads \ {t} : pc'[u] = pc[u]
  BY <1>1, <1>2, <1>5, GotoFacts
<1>7. /\ \A v \in r.begin..(r.end - 1) : pte[v] \in Device
      /\ \A s \in regions' : s.end <= r.begin \/ r.end <= s.begin
  <2>1. \A v \in r.begin..(r.end - 1) : pte[v] \in Device
    BY <1>1 DEF AloneInv, RegionsInv
  <2>2. \A s \in regions' : s \in regions /\ s # r
    BY <1>1
  <2>3. QED
    BY <2>1, <2>2 DEF AloneInv, RegionsInv, RegionsDisjoint
<1>8. AloneCallOK(t)'
  BY <1>1, <1>3, <1>4, <1>6, <1>7 DEF AloneCallOK, Busy, MarkLoop, Mapping, Given
<1>9. \A u \in Threads : AloneCallOK(u)'
  BY <1>1, <1>6, <1>8, OthersOK
<1>10. \A u \in Threads : AloneFaultOK(u)'
  BY <1>1, <1>2, AloneNoFaultOK
<1>11. FatalOnlyExhausted'
  BY <1>1 DEF AloneInv, FatalOnlyExhausted
<1>12. QED
  BY <1>1, <1>9, <1>10, <1>11, AloneQuiet

\* Where t is in vmm_unmap's loop.
LEMMA UnmapFacts ==
  ASSUME IInv, AloneInv, NEW t \in Threads, pc[t] \in Unmapping
  PROVE  LET c == call[t]
         IN  /\ t \in Allocators /\ c.begin \in Nat /\ c.end \in Nat /\ c.p \in c.begin..c.end
             /\ c.end <= END_OF_MEMORY
             /\ \A v \in c.begin..(c.end - 1) : Given(v)
             /\ \A r \in regions : r.end <= c.begin \/ c.end <= r.begin
<1>1. pc[t] \in InCall
  BY DEF InCall
<1>2. /\ call[t].begin \in Nat /\ call[t].end \in Nat
      /\ call[t].p \in call[t].begin..call[t].end
  BY TypeFacts DEF IInv
<1>3. call[t].end <= END_OF_MEMORY
  BY <1>1 DEF IInv, CallOK
<1>4. QED
  BY <1>1, <1>2, <1>3 DEF AloneInv, AloneCallOK

LEMMA UnmapPageAlone ==
  ASSUME OneAllocates, IInv, AloneInv, NEW t \in Threads, unmap_page(t)
  PROVE  AloneInv'
<1> DEFINE c == call[t]
           v == c.p
<1>1. /\ At(t, "unmap") /\ v # c.end /\ pte' = [pte EXCEPT ![v] = NOPAGE]
      /\ Goto(t, "unmap_invalidate") /\ "unmap_invalidate" \in Labels
      /\ call' = call /\ fault' = fault /\ regions' = regions
      /\ content' = content /\ last' = last /\ status' = status
  BY DEF unmap_page, dataVars, Labels
<1>2. /\ TypeOK /\ pc[t] \in Unmapping /\ \A u \in Threads : fault[u] = NOFAULT
  BY <1>1, AtFacts DEF IInv, Unmapping
<1>3. /\ t \in Allocators /\ c.begin \in Nat /\ c.end \in Nat /\ v \in c.begin..c.end
      /\ c.end <= END_OF_MEMORY
      /\ \A w \in c.begin..(c.end - 1) : pte[w] \in Device \cup {NOPAGE}
      /\ \A r \in regions : r.end <= c.begin \/ c.end <= r.begin
  BY <1>2, UnmapFacts DEF Given
<1>4. v \in VPages /\ v \in c.begin..(c.end - 1)
  BY <1>1, <1>3, ConstantFacts
<1>5. pc'[t] = "unmap_invalidate" /\ \A u \in Threads \ {t} : pc'[u] = pc[u]
  BY <1>1, <1>2, GotoFacts
<1> HIDE DEF v, c
<1>6. pte'[v] = NOPAGE /\ \A w \in VPages \ {v} : pte'[w] = pte[w]
  BY <1>1, <1>2, <1>4 DEF TypeOK
<1>7. \A w \in c.begin..(c.end - 1) : pte'[w] \in Device \cup {NOPAGE}
  <2>1. \A w \in c.begin..(c.end - 1) : w \in VPages
    BY <1>3, ConstantFacts
  <2>2. QED
    BY <1>3, <1>6, <2>1
<1>8. AloneCallOK(t)'
  BY <1>1, <1>3, <1>5, <1>7 DEF AloneCallOK, Busy, MarkLoop, Mapping, Given, c
<1>9. \A u \in Threads : AloneCallOK(u)'
  BY <1>3, <1>5, <1>8, OthersOK
<1>10. SameBacked
  BY <1>3, <1>4, <1>6, PageKinds DEF SameBacked
<1>11. DataInv' /\ FatalOnlyExhausted'
  BY <1>1, <1>10, DataStays DEF AloneInv, FatalOnlyExhausted
<1>12. \A u \in Threads : AloneFaultOK(u)'
  BY <1>1, <1>2, AloneNoFaultOK
<1>13. RegionsInv'
  <2> SUFFICES ASSUME NEW r \in regions', NEW w \in VPages, w \in r.begin..(r.end - 1)
               PROVE  pte'[w] = pte[w]
    BY <1>1, RegionsStay DEF AloneInv
  <2>1. r.begin \in Nat /\ r.end \in Nat /\ (r.end <= c.begin \/ c.end <= r.begin)
    BY <1>1, <1>2, <1>3, TypeFacts
  <2>2. w # v
    BY <1>3, <1>4, <2>1
  <2>3. QED
    BY <1>6, <2>2
<1>14. QED
  BY <1>9, <1>11, <1>12, <1>13 DEF AloneInv

LEMMA UnmapInvalidateAlone ==
  ASSUME OneAllocates, IInv, AloneInv, NEW t \in Threads, unmap_invalidate(t)
  PROVE  AloneInv'
<1> DEFINE c == call[t]
<1>1. /\ At(t, "unmap_invalidate") /\ call' = [call EXCEPT ![t].p = @ + 1]
      /\ Goto(t, "unmap") /\ "unmap" \in Labels
      /\ next_alloc' = next_alloc /\ pte' = pte /\ tables' = tables /\ fault' = fault
      /\ regions' = regions /\ content' = content /\ last' = last /\ status' = status
  BY DEF unmap_invalidate, next_turn, dataVars, Labels
<1>2. /\ TypeOK /\ pc[t] \in Unmapping /\ pc[t] \in MidTurn
      /\ \A u \in Threads : fault[u] = NOFAULT
  BY <1>1, AtFacts DEF IInv, Unmapping, MidTurn
<1>3. c.p # c.end
  BY <1>2 DEF IInv, CallOK
<1>4. /\ t \in Allocators
      /\ \A v \in c.begin..(c.end - 1) : Given(v)
      /\ \A r \in regions : r.end <= c.begin \/ c.end <= r.begin
  BY <1>2, UnmapFacts
<1>5. call'[t].begin = c.begin /\ call'[t].end = c.end
  BY <1>1, <1>2, <1>3, NextPage
<1>6. pc'[t] = "unmap" /\ \A u \in Threads \ {t} : pc'[u] = pc[u]
  BY <1>1, <1>2, GotoFacts
<1> HIDE DEF c
<1>7. AloneCallOK(t)'
  BY <1>1, <1>4, <1>5, <1>6 DEF AloneCallOK, Busy, MarkLoop, Mapping, Given
<1>8. \A u \in Threads : AloneCallOK(u)'
  BY <1>4, <1>6, <1>7, OthersOK
<1>9. \A u \in Threads : AloneFaultOK(u)'
  BY <1>1, <1>2, AloneNoFaultOK
<1>10. FatalOnlyExhausted'
  BY <1>1 DEF AloneInv, FatalOnlyExhausted
<1>11. QED
  BY <1>1, <1>8, <1>9, <1>10, AloneQuiet

LEMMA VmmUnmapReturnAlone ==
  ASSUME IInv, AloneInv, NEW t \in Threads, vmm_unmap_return(t)
  PROVE  AloneInv'
<1>1. /\ At(t, "unmap") /\ Goto(t, "run") /\ call' = call
      /\ next_alloc' = next_alloc /\ pte' = pte /\ tables' = tables /\ fault' = fault
      /\ regions' = regions /\ content' = content /\ last' = last /\ status' = status
  BY DEF vmm_unmap_return, allocVars, dataVars
<1>2. TypeOK /\ \A u \in Threads : fault[u] = NOFAULT
  BY <1>1, AtFacts DEF IInv
<1>3. pc'[t] = "run" /\ \A u \in Threads \ {t} : pc'[u] = pc[u]
  BY <1>1, <1>2, GotoFacts, LabelFacts
<1>4. AloneCallOK(t)'
  BY <1>3, NotInCallOK, LabelFacts
<1>5. \A u \in Threads : (pc'[u] = pc[u] /\ call'[u] = call[u]) \/ AloneCallOK(u)'
  BY <1>1, <1>3, <1>4
<1>6. \A u \in Threads : AloneFaultOK(u)'
  BY <1>1, <1>2, AloneNoFaultOK
<1>7. FatalOnlyExhausted'
  BY <1>1 DEF AloneInv, FatalOnlyExhausted
<1>8. QED
  BY <1>1, <1>5, <1>6, <1>7, AloneQuiet
-----------------------------------------------------------------------------
(***************************************************************************)
(* Calls, regions and data: what all threads do.                           *)
(***************************************************************************)
\* An access reaches the frame the page table entry names.
LEMMA FrameIs ==
  ASSUME IInv, NEW v \in VPages, pte[v] # NOPAGE
  PROVE  /\ present(frame(v)) <=> present(pte[v])
         /\ present(frame(v)) => frame(v) = pte[v]
<1>1. tlb[v] = NOPAGE \/ tlb[v] = pte[v]
  BY DEF IInv, PagesInv, TlbOK
<1>2. QED
  BY <1>1 DEF frame, present

LEMMA WriteAlone ==
  ASSUME OneAllocates, IInv, AloneInv, NEW t \in Threads, NEW r \in regions,
         NEW v \in VPages, write(t, r, v)
  PROVE  AloneInv'
<1>1. /\ At(t, "run") /\ r.kind = "mmap" /\ v \in r.begin..(r.end - 1)
      /\ next_alloc' = next_alloc /\ pte' = pte /\ tables' = tables /\ pc' = pc
      /\ call' = call /\ regions' = regions /\ status' = status
  BY DEF write, allocVars
<1>2. TypeOK /\ \A u \in Threads : fault[u] = NOFAULT
  BY <1>1, AtFacts DEF IInv
<1>3. Usable(v)
  BY <1>1 DEF AloneInv, RegionsInv
<1>4. pte[v] # NOPAGE
  BY <1>3, PageKinds DEF Usable
<1>5. \A u \in Threads : AloneCallOK(u)'
  BY <1>1, AloneCallStays DEF AloneInv
<1>6. RegionsInv' /\ FatalOnlyExhausted'
  BY <1>1, RegionsStay DEF AloneInv, FatalOnlyExhausted
<1>7. CASE present(frame(v))
  <2>1. frame(v) = pte[v] /\ pte[v] \in Frames
    BY <1>3, <1>4, <1>7, FrameIs, PageKinds DEF Usable, present
  <2>2. /\ content' = [f \in Frames |-> IF f = pte[v] THEN t ELSE content[f]]
        /\ last' = [last EXCEPT ![v] = t] /\ fault' = fault
    BY <1>7, <2>1 DEF write
  <2>3. /\ last'[v] = t /\ \A w \in VPages \ {v} : last'[w] = last[w]
        /\ content'[pte[v]] = t /\ \A f \in Frames : f # pte[v] => content'[f] = content[f]
    BY <1>2, <2>1, <2>2 DEF TypeOK
  <2>4. \A w \in VPages : w # v /\ pte[w] \in Frames => pte[w] # pte[v]
    BY <2>1 DEF IInv, PagesInv, BackedPages
  <2>5. DataInv'
    <3> SUFFICES ASSUME NEW w \in VPages
                 PROVE  IF pte[w] \in Frames THEN content'[pte[w]] = last'[w] ELSE last'[w] = 0
      BY <1>1 DEF DataInv
    <3>1. CASE w = v
      BY <2>1, <2>3, <3>1
    <3>2. CASE w # v
      BY <2>3, <2>4, <3>2 DEF AloneInv, DataInv
    <3>3. QED
      BY <3>1, <3>2
  <2>6. \A u \in Threads : AloneFaultOK(u)'
    BY <1>2, <2>2, AloneNoFaultOK
  <2>7. QED
    BY <1>5, <1>6, <2>5, <2>6 DEF AloneInv
<1>8. CASE ~present(frame(v))
  <2>1. Fault(t, "page", v) /\ content' = content /\ last' = last
    BY <1>8 DEF write, dataVars
  <2>2. pte[v] = PAGE_ALLOCATED
    BY <1>3, <1>4, <1>8, FrameIs DEF Usable, present
  <2>3. /\ fault'[t] = [on |-> "page", v |-> v]
        /\ \A u \in Threads \ {t} : fault'[u] = NOFAULT
    BY <1>2, <2>1 DEF Fault, TypeOK
  <2>4. ASSUME NEW u \in Threads, pc[u] \in MarkLoop \cup Mapping PROVE v < call[u].begin
    <3>1. r.end <= call[u].begin
      BY <2>4, LabelFacts DEF AloneInv, AloneCallOK
    <3>2. r.begin \in Nat /\ r.end \in Nat /\ call[u].begin \in Nat
      BY <1>2, TypeFacts
    <3>3. QED
      BY <1>1, <3>1, <3>2
  <2>5. \A u \in Threads : AloneFaultOK(u)'
    BY <1>1, <2>2, <2>3, <2>4 DEF AloneFaultOK, NOFAULT
  <2>6. DataInv'
    BY <1>1, <2>1 DEF AloneInv, DataInv
  <2>7. QED
    BY <1>5, <1>6, <2>5, <2>6 DEF AloneInv
<1>9. QED
  BY <1>7, <1>8

LEMMA PushAlone ==
  ASSUME IInv, AloneInv, NEW t \in Threads, NEW r \in regions, push(t, r)
  PROVE  AloneInv'
<1>1. /\ next_alloc' = next_alloc /\ pte' = pte /\ tables' = tables /\ pc' = pc
      /\ call' = call /\ regions' = regions /\ fault' = fault
      /\ content' = content /\ last' = last
      /\ status' = status \/ status' = "triple fault"
  BY DEF push, allocVars, dataVars
<1>2. \A u \in Threads : AloneFaultOK(u)'
  BY <1>1 DEF AloneInv, AloneFaultOK
<1>3. FatalOnlyExhausted'
  BY <1>1 DEF AloneInv, FatalOnlyExhausted
<1>4. QED
  BY <1>1, <1>2, <1>3, AloneQuiet

LEMMA HandlerAlone ==
  ASSUME OneAllocates, IInv, AloneInv, NEW t \in Threads, vmm_page_fault_handler(t)
  PROVE  AloneInv'
<1> DEFINE v == fault[t].v
<1>1. /\ next_alloc' = next_alloc /\ pc' = pc /\ call' = call /\ regions' = regions
      /\ last' = last
  BY HandlerFacts
<1>2. /\ TypeOK /\ v \in VPages /\ fault[t].on \in {"page", "table"}
      /\ \A u \in Threads \ {t} : fault[u] = NOFAULT
      /\ fault[t].on = "page" =>
           /\ pte[v] = PAGE_ALLOCATED
           /\ \A u \in Threads : pc[u] \in MarkLoop \cup Mapping => v < call[u].begin
  BY HandledFault DEF IInv, AloneInv, AloneFaultOK
<1>3. ASSUME HandlerStops PROVE AloneInv'
  <2>1. /\ pte' = pte /\ tables' = tables /\ fault' = fault /\ content' = content
    BY <1>3 DEF HandlerStops
  <2>2. status' = "out of memory"
    BY <1>2, <1>3 DEF vmm_page_fault_handler, HandlerStops
  <2>3. \A u \in Threads : AloneFaultOK(u)'
    BY <1>1, <2>1 DEF AloneInv, AloneFaultOK
  <2>4. FatalOnlyExhausted'
    BY <2>2 DEF FatalOnlyExhausted
  <2>5. QED
    BY <1>1, <2>1, <2>3, <2>4, AloneQuiet
<1>4. ASSUME NEW f \in free, HandlerTakes(t, f)
      PROVE  /\ f \in Frames /\ status' = status
             /\ content'[f] = 0 /\ \A g \in Frames \ {f} : content'[g] = content[g]
             /\ \A u \in Threads : AloneFaultOK(u)'
             /\ \A w \in VPages : pte[w] \in Frames => pte[w] # f
  <2>1. f \in Frames /\ status' = status
    BY <1>2, <1>4 DEF HandlerTakes, TypeOK
  <2>2. content'[f] = 0 /\ \A g \in Frames \ {f} : content'[g] = content[g]
    BY <1>2, <1>4, <2>1 DEF HandlerTakes, TypeOK
  <2>3. \A u \in Threads : fault'[u] = NOFAULT
    BY <1>2, <1>4 DEF HandlerTakes, TypeOK
  <2>4. \A w \in VPages : pte[w] \in Frames => pte[w] # f
    BY DEF IInv, PagesInv, BackedPages
  <2>5. QED
    BY <2>1, <2>2, <2>3, <2>4, AloneNoFaultOK
<1>5. ASSUME NEW f \in free, HandlerTakes(t, f), fault[t].on = "table",
             tables' = [tables EXCEPT ![table(v)] = f], pte' = pte
      PROVE  AloneInv'
  <2>1. /\ f \in Frames /\ status' = status
        /\ \A g \in Frames \ {f} : content'[g] = content[g]
        /\ \A u \in Threads : AloneFaultOK(u)'
        /\ \A w \in VPages : pte[w] \in Frames => pte[w] # f
    BY <1>4, <1>5
  <2>2. \A w \in VPages : tables[table(w)] # NOPAGE => tables'[table(w)] # NOPAGE
    <3>1. DOMAIN tables = {table(w) : w \in VPages}
      BY <1>2 DEF TypeOK
    <3>2. \A w \in VPages : table(w) \in DOMAIN tables
      BY <3>1
    <3>3. f # NOPAGE
      BY <2>1, PageKinds
    <3>4. QED
      BY <1>5, <3>2, <3>3
  <2>3. \A u \in Threads : AloneCallOK(u)'
    BY <1>1, <1>5, <2>2, AloneCallStays DEF AloneInv
  <2>4. DataInv'
    BY <1>1, <1>5, <2>1 DEF AloneInv, DataInv
  <2>5. RegionsInv' /\ FatalOnlyExhausted'
    BY <1>1, <1>5, <2>1, RegionsStay DEF AloneInv, FatalOnlyExhausted
  <2>6. QED
    BY <2>1, <2>3, <2>4, <2>5 DEF AloneInv
<1>6. ASSUME NEW f \in free, HandlerTakes(t, f), fault[t].on # "table",
             pte' = [pte EXCEPT ![v] = f], tables' = tables
      PROVE  AloneInv'
  <2>1. /\ f \in Frames /\ status' = status
        /\ content'[f] = 0 /\ \A g \in Frames \ {f} : content'[g] = content[g]
        /\ \A u \in Threads : AloneFaultOK(u)'
        /\ \A w \in VPages : pte[w] \in Frames => pte[w] # f
    BY <1>4, <1>6
  <2>2. /\ pte[v] = PAGE_ALLOCATED /\ v \in Nat
        /\ \A u \in Threads : pc[u] \in MarkLoop \cup Mapping => v < call[u].begin
    BY <1>2, <1>6 DEF VPages
  <2>3. pte'[v] = f /\ \A w \in VPages \ {v} : pte'[w] = pte[w]
    BY <1>2, <1>6 DEF TypeOK
  <2> HIDE DEF v
  <2>4. ASSUME NEW u \in Threads PROVE AloneCallOK(u)'
    <3>1. \A w \in VPages : \/ pte'[w] = pte[w]
                             \/ /\ pte[w] = PAGE_ALLOCATED /\ pte'[w] \in Frames
                                /\ pc[u] \in MarkLoop \cup Mapping => w < call[u].begin
      BY <2>1, <2>2, <2>3
    <3>2. AloneCallOK(u)
      BY DEF AloneInv
    <3>3. QED
      BY <1>1, <1>6, <3>1, <3>2, AloneCallStays
  <2>5. \A w \in VPages : pte'[w] = pte[w] \/ (Usable(w) /\ pte'[w] \in Frames)
    BY <2>1, <2>2, <2>3 DEF Usable
  <2>6. RegionsInv'
    BY <1>1, <2>5, RegionsStay DEF AloneInv
  <2>7. DataInv'
    <3> SUFFICES ASSUME NEW w \in VPages
                 PROVE  IF pte'[w] \in Frames THEN content'[pte'[w]] = last[w] ELSE last[w] = 0
      BY <1>1 DEF DataInv
    <3>1. IF pte[w] \in Frames THEN content[pte[w]] = last[w] ELSE last[w] = 0
      BY DEF AloneInv, DataInv
    <3>2. CASE w = v
      BY <2>1, <2>2, <2>3, <3>1, <3>2, PageKinds
    <3>3. CASE w # v
      BY <2>1, <2>3, <3>1, <3>3
    <3>4. QED
      BY <3>2, <3>3
  <2>8. FatalOnlyExhausted'
    BY <2>1 DEF AloneInv, FatalOnlyExhausted
  <2>9. QED
    BY <2>1, <2>4, <2>6, <2>7, <2>8 DEF AloneInv
<1>7. QED
  BY <1>3, <1>5, <1>6, HandlerFacts

LEMMA TlbFillAlone ==
  ASSUME IInv, AloneInv, NEW v \in VPages, TlbFill(v)
  PROVE  AloneInv'
<1>1. /\ next_alloc' = next_alloc /\ pte' = pte /\ tables' = tables /\ pc' = pc
      /\ call' = call /\ regions' = regions /\ fault' = fault
      /\ content' = content /\ last' = last /\ status' = status
  BY DEF TlbFill, dataVars
<1>2. \A u \in Threads : AloneFaultOK(u)'
  BY <1>1 DEF AloneInv, AloneFaultOK
<1>3. FatalOnlyExhausted'
  BY <1>1 DEF AloneInv, FatalOnlyExhausted
<1>4. QED
  BY <1>1, <1>2, <1>3, AloneQuiet

LEMMA StutterAlone ==
  ASSUME IInv, AloneInv, UNCHANGED vars
  PROVE  AloneInv'
<1>1. /\ next_alloc' = next_alloc /\ pte' = pte /\ tables' = tables /\ pc' = pc
      /\ call' = call /\ regions' = regions /\ fault' = fault
      /\ content' = content /\ last' = last /\ status' = status
  BY DEF vars, allocVars, dataVars
<1>2. \A u \in Threads : AloneFaultOK(u)'
  BY <1>1 DEF AloneInv, AloneFaultOK
<1>3. FatalOnlyExhausted'
  BY <1>1 DEF AloneInv, FatalOnlyExhausted
<1>4. QED
  BY <1>1, <1>2, <1>3, AloneQuiet
-----------------------------------------------------------------------------
(***************************************************************************)
(* The theorems.                                                           *)
(***************************************************************************)
LEMMA CallerSteps ==
  ASSUME OneAllocates, IInv, AloneInv, NEW t \in Threads
  PROVE  /\ \A length \in 1..MaxLength :
              mmap(t, length) \/ vmm_map(t, length) => IInv' /\ AloneInv'
         /\ \A u \in Threads : thread_create(t, u) => IInv' /\ AloneInv'
<1>1. ASSUME NEW length \in 1..MaxLength, mmap(t, length) PROVE IInv' /\ AloneInv'
  BY <1>1, VmmAllocInv, VmmAllocAlone DEF mmap, Allocators
<1>2. ASSUME NEW length \in 1..MaxLength, vmm_map(t, length) PROVE IInv' /\ AloneInv'
  BY <1>2, VmmAllocInv, VmmAllocAlone DEF vmm_map, Allocators
<1>3. ASSUME NEW u \in Threads, thread_create(t, u) PROVE IInv' /\ AloneInv'
  <2>1. MaxLength \in 1..MaxLength
    BY ConstantFacts
  <2>2. t \in Allocators /\ vmm_alloc(t, MaxLength, "stack", u)
    BY <1>3 DEF thread_create, Allocators
  <2>3. QED
    BY <2>1, <2>2, VmmAllocInv, VmmAllocAlone
<1>4. QED
  BY <1>1, <1>2, <1>3

LEMMA NextSteps ==
  ASSUME OneAllocates, IInv, AloneInv, [Next]_vars
  PROVE  IInv' /\ AloneInv'
<1>1. CASE UNCHANGED vars
  BY <1>1, StutterInv, StutterAlone
<1>2. ASSUME NEW t \in Threads,
             \/ \E length \in 1..MaxLength : mmap(t, length) \/ vmm_map(t, length)
             \/ \E u \in Threads : thread_create(t, u)
      PROVE  IInv' /\ AloneInv'
  BY <1>2, CallerSteps
<1>3. ASSUME NEW t \in Threads,
             \/ index(t) \/ mark(t) \/ invalidate(t) \/ advance(t)
             \/ return_mmap(t) \/ return_stack(t) \/ return_map(t)
             \/ init_stack(t) \/ map_page(t) \/ map_invalidate(t) \/ vmm_map_return(t)
             \/ unmap_page(t) \/ unmap_invalidate(t) \/ vmm_unmap_return(t)
             \/ vmm_page_fault_handler(t)
      PROVE  IInv' /\ AloneInv'
  <2>1. IInv'
    BY <1>3, IndexInv, MarkInv, InvalidateInv, AdvanceInv, ReturnMmapInv, ReturnStackInv,
       ReturnMapInv, InitStackInv, MapPageInv, MapInvalidateInv, VmmMapReturnInv,
       UnmapPageInv, UnmapInvalidateInv, VmmUnmapReturnInv, HandlerInv
  <2>2. AloneInv'
    BY <1>3, IndexAlone, MarkAlone, InvalidateAlone, AdvanceAlone, ReturnMmapAlone,
       ReturnStackAlone, ReturnMapAlone, InitStackAlone, MapPageAlone, MapInvalidateAlone,
       VmmMapReturnAlone, UnmapPageAlone, UnmapInvalidateAlone, VmmUnmapReturnAlone,
       HandlerAlone
  <2>3. QED
    BY <2>1, <2>2
<1>4. ASSUME NEW t \in Threads, NEW r \in regions, vmm_unmap(t, r) \/ push(t, r)
      PROVE  IInv' /\ AloneInv'
  BY <1>4, VmmUnmapInv, VmmUnmapAlone, PushInv, PushAlone
<1>5. ASSUME NEW t \in Threads, NEW r \in regions, NEW v \in VPages, write(t, r, v)
      PROVE  IInv' /\ AloneInv'
  BY <1>5, WriteInv, WriteAlone
<1>6. ASSUME NEW v \in VPages, TlbFill(v) PROVE IInv' /\ AloneInv'
  BY <1>6, TlbFillInv, TlbFillAlone
<1>7. QED
  BY <1>1, <1>2, <1>3, <1>4, <1>5, <1>6 DEF Next

\* vmm.c:488: when one thread allocates, next_alloc, its calls, the regions, the page
\* tables, the frames and the data in them fit together in every reachable state.
THEOREM Inductive ==
  ASSUME OneAllocates
  PROVE  Spec => [](IInv /\ AloneInv)
<1>1. Init => IInv /\ AloneInv
  BY InitIInv, InitAlone
<1>2. IInv /\ AloneInv /\ [Next]_vars => IInv' /\ AloneInv'
  BY NextSteps
<1>3. QED
  BY <1>1, <1>2, PTL DEF Spec

\* vmm.c:587: no frame leaks and none is used twice, whatever threads fault on the same
\* page while one allocates.
THEOREM FramesAccountedHolds ==
  ASSUME OneAllocates
  PROVE  Spec => []FramesAccounted
<1>1. IInv => FramesAccounted
  BY DEF IInv
<1>2. QED
  BY <1>1, Inductive, PTL

\* vmm.c:240, 469: in the builds that do not invalidate, and in the one that does, what
\* the CPU still remembers is about an address nobody has.
THEOREM StaleIsNobodysHolds ==
  ASSUME OneAllocates
  PROVE  Spec => []StaleIsNobodys
<1>1. IInv /\ AloneInv => StaleIsNobodys
  <2> SUFFICES ASSUME IInv, AloneInv, NEW v \in VPages, tlb[v] \notin {NOPAGE, pte[v]}
               PROVE  v < next_alloc /\ \A r \in regions : v \notin r.begin..(r.end - 1)
    BY DEF StaleIsNobodys
  <2>1. pte[v] = NOPAGE /\ v < next_alloc
    BY DEF IInv, PagesInv, TlbOK
  <2>2. ASSUME NEW r \in regions, v \in r.begin..(r.end - 1) PROVE FALSE
    <3>1. IF r.kind = "map" THEN pte[v] \in Device ELSE Usable(v)
      BY <2>2 DEF AloneInv, RegionsInv
    <3>2. QED
      BY <2>1, <3>1, PageKinds DEF Usable
  <2>3. QED
    BY <2>1, <2>2
<1>2. QED
  BY <1>1, Inductive, PTL

\* vmm.c:587: a page of a region holds what was last written to it, whatever faults,
\* translations the CPU remembers and unmapped pages there have been.
THEOREM ReadsBackHolds ==
  ASSUME OneAllocates
  PROVE  Spec => []ReadsBack
<1>1. IInv /\ AloneInv => ReadsBack
  <2> SUFFICES ASSUME IInv, AloneInv, NEW r \in regions, r.kind = "mmap",
                      NEW v \in r.begin..(r.end - 1)
               PROVE  IF frame(v) \in Frames THEN content[frame(v)] = last[v] ELSE last[v] = 0
    BY DEF ReadsBack
  <2>1. v \in VPages
    <3>1. r.begin \in Nat /\ r.end \in Nat /\ r.end <= END_OF_MEMORY
      BY TypeFacts DEF IInv, RegionOK
    <3>2. QED
      BY <3>1, ConstantFacts
  <2>2. pte[v] = PAGE_ALLOCATED \/ pte[v] \in Frames
    BY DEF AloneInv, RegionsInv, Usable
  <2>3. /\ present(frame(v)) <=> present(pte[v])
        /\ present(frame(v)) => frame(v) = pte[v]
    BY <2>1, <2>2, FrameIs, PageKinds
  <2>4. frame(v) \in Frames <=> pte[v] \in Frames
    BY <2>2, <2>3, PageKinds DEF present
  <2>5. QED
    BY <2>1, <2>3, <2>4 DEF AloneInv, DataInv, present
<1>2. QED
  BY <1>1, Inductive, PTL

\* vmm.c: nothing but exhaustion stops the kernel: a page fault never finds an entry it
\* does not handle, and vmm_map never finds a page that is there.
THEOREM FatalOnlyExhaustedHolds ==
  ASSUME OneAllocates
  PROVE  Spec => []FatalOnlyExhausted
<1>1. AloneInv => FatalOnlyExhausted
  BY DEF AloneInv
<1>2. QED
  BY <1>1, Inductive, PTL

\* vmm.c:535: vmm_map finds the page tables of its pages made.
THEOREM TablesFirstHolds ==
  ASSUME OneAllocates
  PROVE  Spec => []TablesFirst
<1>1. AloneInv => TablesFirst
  BY DEF AloneInv, AloneCallOK, TablesFirst, Mapping
<1>2. QED
  BY <1>1, Inductive, PTL

\* vmm.h:74: what vmm_alloc returns is nobody else's.
THEOREM RegionsDisjointHolds ==
  ASSUME OneAllocates
  PROVE  Spec => []RegionsDisjoint
<1>1. AloneInv => RegionsDisjoint
  BY DEF AloneInv, RegionsInv
<1>2. QED
  BY <1>1, Inductive, PTL
=============================================================================
