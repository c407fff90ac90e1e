----------------------------- MODULE PmmProofs -----------------------------
(***************************************************************************)
(* Proofs about the page stack of Pmm, for any number of pages, any size   *)
(* of a stack page and either way to unmap: its pages are accounted for,   *)
(* it is stored in free pages, it is never read through a stale            *)
(* translation, and it is a page allocator (AbstractPages).  Where one     *)
(* page table maps all of the stack that the pages can fill (OneTable),    *)
(* nothing else is mapped there; else a page stays mapped above the stack  *)
(* when a second table is needed, and the next time stops the machine.     *)
(***************************************************************************)
EXTENDS Pmm, FiniteSetTheorems, TLAPS

\* All pages but the table itself fit on the part of the stack that one page table maps.  In
\* the i386 build these are 1024 stack pages of 1024 entries: all of 4 GB.
OneTable == Cardinality(Pages) <= SLOTS * TABLE_SPAN + 1

State ==
  [boot : Seq(Pages), top : Nat, pte : [StackPages -> Entry], tlb : [StackPages -> Entry],
   tables : [0..(TABLES - 1) -> Entry], mem : [Pages -> [0..(SLOTS - 1) -> Entry]],
   pmm_free_memory : Nat, page : Entry,
   status : {"up", "out of memory", "already there", "page fault"}]

\* Where the pages are, in any state s of memory.
slot(s, k) == s.mem[s.pte[k \div SLOTS]][k % SLOTS]
BootOf(s) == {s.boot[k] : k \in DOMAIN s.boot}
StackOf(s) == {slot(s, k) : k \in 0..(s.top - 1)}
TablesOf(s) == {s.tables[i] : i \in DOMAIN s.tables} \ {NOPAGE}
FreeOf(s) == BootOf(s) \cup StackOf(s)

\* The stack has asked for a second page table.
Second(s) == 1 \in DOMAIN s.tables /\ s.tables[1] # NOPAGE

\* The stack is stored in the pages its own entries record, and mapped truly.  It never
\* outgrows the first table: a second one is taken from the top of the stack, so the page
\* it was needed for is mapped above what is used.
Stored(s) ==
  /\ s.top <= SLOTS * TABLE_SPAN
  /\ \A v \in StackPages \ {TABLE_SPAN} :
       s.pte[v] = IF v * SLOTS < s.top THEN slot(s, v * SLOTS) ELSE NOPAGE
  /\ TABLE_SPAN \in StackPages => (s.pte[TABLE_SPAN] # NOPAGE <=> Second(s))
  /\ Second(s) => ~ OneTable /\ s.tables[0] \notin {NOPAGE, s.tables[1]}
  /\ \A v \in StackPages : s.pte[v] # NOPAGE => s.tlb[v] \in {NOPAGE, s.pte[v]}
  /\ \A k \in 0..(s.top - 1) : slot(s, k) \in Pages
  /\ \A i \in 2..(TABLES - 1) : s.tables[i] = NOPAGE
  /\ s.top # 0 => s.tables[0] # NOPAGE

\* No page is in two places, and the set "out" holds those that are in none.
Apart(s, out) ==
  /\ \A j, k \in 0..(s.top - 1) : slot(s, j) = slot(s, k) => j = k
  /\ \A j, k \in DOMAIN s.boot : s.boot[j] = s.boot[k] => j = k
  /\ BootOf(s) \cap StackOf(s) = {}
  /\ FreeOf(s) \cap TablesOf(s) = {}
  /\ (FreeOf(s) \cup TablesOf(s)) \cap out = {}
  /\ FreeOf(s) \cup TablesOf(s) \cup out = Pages

Counted(s, out) ==
  /\ Len(s.boot) + s.top + Cardinality(TablesOf(s)) + Cardinality(out) = Cardinality(Pages)
  /\ s.pmm_free_memory = Len(s.boot) + s.top

Held(s, out) == s \in State /\ s.status = "up" /\ Stored(s) /\ Apart(s, out) /\ Counted(s, out)

\* The inductive invariant: a machine that has stopped has stopped for want of memory, or
\* because a second page table was needed for the second time.
IInv ==
  /\ m \in State
  /\ owned \subseteq Pages
  /\ m.status = "up" => Held(m, owned)
  /\ m.status # "up" =>
       \/ m.status = "out of memory" /\ m.boot = <<>> /\ m.top = 0
       \/ /\ m.status = "already there" /\ m.top = SLOTS * TABLE_SPAN
          /\ Cardinality(Pages) > SLOTS * TABLE_SPAN + 2
  /\ NoStaleTranslation
-----------------------------------------------------------------------------
(***************************************************************************)
(* Stack entries and the pages they are in.                                *)
(***************************************************************************)
LEMMA DivFacts ==
  ASSUME NEW a \in Nat, NEW n \in Nat \ {0}
  PROVE  /\ a \div n \in Nat /\ a % n \in 0..(n - 1)
         /\ a = (a \div n) * n + (a % n)
<1>1. a \div n \in Int /\ a % n \in 0..(n - 1) /\ a = (a \div n) * n + (a % n)
  OBVIOUS
<1>2. a \div n >= 0
  <2>1. SUFFICES ASSUME a \div n <= 0 - 1 PROVE FALSE
    BY <1>1
  <2>2. (a \div n) * n <= 0 - n
    BY <1>1, <2>1
  <2>3. QED
    BY <1>1, <2>2
<1>3. QED
  BY <1>1, <1>2

\* Multiples of n are n apart.
LEMMA MultiplesApart ==
  ASSUME NEW v \in Int, NEW w \in Int, NEW n \in Nat \ {0}, v < w
  PROVE  v * n + n <= w * n
<1>1. (w - v) * n >= n
  BY w - v >= 1
<1>2. (w - v) * n = w * n - v * n
  OBVIOUS
<1>3. v * n \in Int /\ w * n \in Int
  OBVIOUS
<1>4. QED
  BY <1>1, <1>2, <1>3

\* a is in page v, and nowhere else.
LEMMA PageOf ==
  ASSUME NEW a \in Nat, NEW v \in Nat, NEW n \in Nat \ {0}, v * n <= a, a < v * n + n
  PROVE  a \div n = v /\ a % n = a - v * n
<1> DEFINE q == a \div n
           r == a % n
<1>1. q \in Nat /\ r \in 0..(n - 1) /\ a = q * n + r
  BY DivFacts
<1>2. q * n \in Nat /\ v * n \in Nat
  BY <1>1
<1> HIDE DEF q, r
<1>3. ~ q < v
  BY <1>1, <1>2, MultiplesApart
<1>4. ~ v < q
  BY <1>1, <1>2, MultiplesApart
<1>5. q = v
  BY <1>1, <1>3, <1>4
<1>6. r = a - v * n
  BY <1>1, <1>2, <1>5
<1>7. QED
  BY <1>5, <1>6 DEF q, r

LEMMA SlotOf ==
  ASSUME NEW v \in Nat, NEW n \in Nat \ {0}
  PROVE  /\ v * n \in Nat /\ (v * n) \div n = v /\ (v * n) % n = 0
<1>1. v * n \in Nat
  OBVIOUS
<1>2. v * n <= v * n /\ v * n < v * n + n
  BY <1>1
<1>3. (v * n) \div n = v /\ (v * n) % n = v * n - v * n
  BY <1>1, <1>2, PageOf
<1>4. QED
  BY <1>1, <1>3

LEMMA Constants ==
  /\ NOPAGE \notin Pages /\ IsFiniteSet(Pages) /\ Cardinality(Pages) \in Nat
  /\ SLOTS \in Nat \ {0} /\ TABLE_SPAN \in Nat \ {0} /\ TABLES \in Nat \ {0}
  /\ BootPages \in Seq(Pages)
  /\ SLOTS > 1 /\ (OneTable \/ TABLES > 1)
  /\ SLOTS * TABLE_SPAN \in Nat
BY PmmAssumption, FS_CardinalityType DEF OneTable

LEMMA StateFacts ==
  ASSUME NEW s \in State
  PROVE  /\ s.boot \in Seq(Pages) /\ Len(s.boot) \in Nat /\ s.top \in Nat
         /\ s.pte \in [StackPages -> Entry] /\ s.tlb \in [StackPages -> Entry]
         /\ s.tables \in [0..(TABLES - 1) -> Entry]
         /\ s.mem \in [Pages -> [0..(SLOTS - 1) -> Entry]]
         /\ s.pmm_free_memory \in Nat /\ s.page \in Entry
<1>1. /\ s.boot \in Seq(Pages) /\ s.top \in Nat
      /\ s.pte \in [StackPages -> Entry] /\ s.tlb \in [StackPages -> Entry]
  BY DEF State
<1>2. /\ s.tables \in [0..(TABLES - 1) -> Entry]
      /\ s.mem \in [Pages -> [0..(SLOTS - 1) -> Entry]]
      /\ s.pmm_free_memory \in Nat /\ s.page \in Entry
  BY DEF State
<1>3. Len(s.boot) \in Nat
  BY <1>1
<1>4. QED
  BY <1>1, <1>2, <1>3

\* Page numbers of the first table.
LEMMA InFirstTable ==
  ASSUME NEW a \in Nat, a < SLOTS * TABLE_SPAN
  PROVE  /\ a \div SLOTS \in 0..(TABLE_SPAN - 1) /\ a \div SLOTS \in StackPages
         /\ a \div SLOTS # TABLE_SPAN
         /\ (a \div SLOTS) \div TABLE_SPAN = 0
         /\ a % SLOTS \in 0..(SLOTS - 1)
<1> DEFINE v == a \div SLOTS
<1>1. SLOTS \in Nat \ {0} /\ TABLE_SPAN \in Nat \ {0} /\ TABLES \in Nat \ {0}
  BY Constants
<1>2. v \in Nat /\ a % SLOTS \in 0..(SLOTS - 1) /\ a = v * SLOTS + (a % SLOTS)
  BY <1>1, DivFacts
<1> HIDE DEF v
<1>3. v * SLOTS \in Nat /\ v * SLOTS <= a
  BY <1>1, <1>2
<1>4. v < TABLE_SPAN
  <2>1. SUFFICES ASSUME TABLE_SPAN <= v PROVE FALSE
    BY <1>1, <1>2
  <2>2. TABLE_SPAN * SLOTS <= v * SLOTS
    <3>1. CASE TABLE_SPAN = v
      BY <3>1, <1>1, <1>2, <1>3
    <3>2. CASE TABLE_SPAN < v
      <4>1. TABLE_SPAN * SLOTS + SLOTS <= v * SLOTS
        BY <3>2, <1>1, <1>2, MultiplesApart
      <4>2. TABLE_SPAN * SLOTS \in Nat
        BY <1>1
      <4>3. QED
        BY <4>1, <4>2, <1>1, <1>3
    <3>3. QED
      BY <2>1, <3>1, <3>2, <1>1, <1>2
  <2>3. TABLE_SPAN * SLOTS = SLOTS * TABLE_SPAN /\ SLOTS * TABLE_SPAN \in Nat
    BY <1>1
  <2>4. QED
    BY <2>2, <2>3, <1>3
<1>5. TABLE_SPAN <= TABLE_SPAN * TABLES
  <2>1. CASE TABLES = 1
    BY <2>1, <1>1
  <2>2. CASE 1 < TABLES
    <3>1. 1 * TABLE_SPAN + TABLE_SPAN <= TABLES * TABLE_SPAN
      BY <2>2, <1>1, MultiplesApart
    <3>2. QED
      BY <3>1, <1>1
  <2>3. QED
    BY <2>1, <2>2, <1>1
<1>6. v \in StackPages
  BY <1>1, <1>2, <1>4, <1>5 DEF StackPages
<1>7. v \div TABLE_SPAN = 0
  <2>1. 0 * TABLE_SPAN <= v /\ v < 0 * TABLE_SPAN + TABLE_SPAN /\ 0 \in Nat
    BY <1>1, <1>2, <1>4
  <2>2. QED
    BY <2>1, <1>1, <1>2, PageOf
<1>8. QED
  BY <1>1, <1>2, <1>4, <1>6, <1>7 DEF v

LEMMA TablesAre ==
  ASSUME NEW s \in State, Stored(s)
  PROVE  /\ s.tables[0] \in Entry
         /\ s.tables[0] = NOPAGE => TablesOf(s) = {} /\ ~ Second(s)
         /\ TablesOf(s) \subseteq Pages
         /\ IsFiniteSet(TablesOf(s)) /\ Cardinality(TablesOf(s)) \in Nat
         /\ s.tables[0] # NOPAGE => Cardinality(TablesOf(s)) >= 1
         /\ Second(s) => Cardinality(TablesOf(s)) >= 2
<1> DEFINE first == s.tables[0]
           second == s.tables[1]
<1>1. /\ TABLES \in Nat \ {0} /\ DOMAIN s.tables = 0..(TABLES - 1)
      /\ \A i \in 0..(TABLES - 1) : s.tables[i] \in Entry
      /\ \A i \in 2..(TABLES - 1) : s.tables[i] = NOPAGE
      /\ Second(s) => first \notin {NOPAGE, second}
  BY Constants, StateFacts DEF Stored
<1>2. s.tables[0] = NOPAGE => TablesOf(s) = {}
  <2>1. SUFFICES ASSUME s.tables[0] = NOPAGE, NEW i \in 0..(TABLES - 1)
                 PROVE  s.tables[i] = NOPAGE
    BY <1>1 DEF TablesOf
  <2>2. i = 0 \/ i = 1 \/ i \in 2..(TABLES - 1)
    BY <1>1
  <2>3. QED
    BY <1>1, <2>1, <2>2 DEF Second
<1>3. TablesOf(s) \subseteq Pages
  BY <1>1 DEF TablesOf, Entry
<1>4. IsFiniteSet(TablesOf(s))
  BY <1>3, Constants, FS_Subset
<1>5. 0 \in 0..(TABLES - 1)
  BY <1>1
<1>6. first # NOPAGE => {first} \subseteq TablesOf(s)
  BY <1>1, <1>5 DEF TablesOf
<1>7. Second(s) => {first} \cup {second} \subseteq TablesOf(s) /\ second \notin {first}
  BY <1>1, <1>5 DEF TablesOf, Second
<1> HIDE DEF first, second
<1>8. Cardinality({first}) = 1 /\ IsFiniteSet({first})
  BY FS_Singleton
<1>9. second \notin {first} => Cardinality({first} \cup {second}) = 2
  BY <1>8, FS_AddElement, SMTT(30)
<1>10. \A T : T \subseteq TablesOf(s) =>
         Cardinality(T) \in Nat /\ Cardinality(T) <= Cardinality(TablesOf(s))
  BY <1>4, FS_Subset, FS_CardinalityType
<1>11. Cardinality(TablesOf(s)) \in Nat
  BY <1>4, FS_CardinalityType
<1>12. first # NOPAGE => Cardinality(TablesOf(s)) >= 1
  BY <1>6, <1>8, <1>10, <1>11
<1>13. Second(s) => Cardinality(TablesOf(s)) >= 2
  BY <1>7, <1>9, <1>10, <1>11
<1>14. QED
  BY <1>1, <1>2, <1>3, <1>4, <1>5, <1>11, <1>12, <1>13 DEF first

\* The stack never outgrows the first table.
LEMMA StackFits ==
  ASSUME NEW s, NEW out \in SUBSET Pages, Held(s, out)
  PROVE  /\ s.top \in Nat /\ SLOTS * TABLE_SPAN \in Nat /\ s.top <= SLOTS * TABLE_SPAN
         /\ \A k \in 0..(s.top - 1) : k < SLOTS * TABLE_SPAN
         /\ IsFiniteSet(out) /\ Cardinality(out) \in Nat
<1> DEFINE most == SLOTS * TABLE_SPAN
<1>1. s.top \in Nat /\ s.top <= most /\ most \in Nat
  BY StateFacts, Constants DEF Held, Stored
<1>2. IsFiniteSet(out) /\ Cardinality(out) \in Nat
  BY Constants, FS_Subset, FS_CardinalityType
<1> HIDE DEF most
<1>3. \A k \in 0..(s.top - 1) : k < most
  BY <1>1
<1>4. QED
  BY <1>1, <1>2, <1>3 DEF most
-----------------------------------------------------------------------------
(***************************************************************************)
(* pmm_alloc_page.                                                         *)
(***************************************************************************)
\* An entry of the stack is read where it was written.
LEMMA Reached ==
  ASSUME NEW s, NEW out \in SUBSET Pages, Held(s, out),
         NEW k \in 0..(s.top - 1)
  PROVE  /\ k \div SLOTS \in StackPages /\ k % SLOTS \in 0..(SLOTS - 1)
         /\ k = (k \div SLOTS) * SLOTS + (k % SLOTS)
         /\ (k \div SLOTS) * SLOTS \in 0..k
         /\ s.pte[k \div SLOTS] = slot(s, (k \div SLOTS) * SLOTS)
         /\ s.pte[k \div SLOTS] \in Pages /\ s.pte[k \div SLOTS] # NOPAGE
         /\ frame(s, k \div SLOTS) = s.pte[k \div SLOTS]
<1> DEFINE v == k \div SLOTS
<1>1. /\ s \in State /\ s.top \in Nat /\ k \in Nat /\ SLOTS \in Nat \ {0}
      /\ NOPAGE \notin Pages /\ k < SLOTS * TABLE_SPAN
  BY Constants, StateFacts, StackFits DEF Held
<1>2. /\ v \in StackPages \ {TABLE_SPAN} /\ k % SLOTS \in 0..(SLOTS - 1) /\ v \in Nat
      /\ k = v * SLOTS + (k % SLOTS)
  BY <1>1, InFirstTable, DivFacts
<1> HIDE DEF v
<1>3. v * SLOTS \in Nat /\ v * SLOTS <= k
  BY <1>1, <1>2
<1>4. v * SLOTS \in 0..k /\ v * SLOTS \in 0..(s.top - 1) /\ v * SLOTS < s.top
  BY <1>1, <1>3
<1>5. s.pte[v] = slot(s, v * SLOTS) /\ slot(s, v * SLOTS) \in Pages
  BY <1>2, <1>4 DEF Held, Stored
<1>6. frame(s, v) = s.pte[v]
  <2>1. s.tlb[v] \in {NOPAGE, s.pte[v]}
    BY <1>1, <1>2, <1>5 DEF Held, Stored
  <2>2. QED
    BY <2>1 DEF frame
<1>7. QED
  BY <1>1, <1>2, <1>4, <1>5, <1>6 DEF v

\* What an allocation that succeeds does.
Got(s, r, out) ==
  /\ r.page \in FreeOf(s) /\ FreeOf(r) = FreeOf(s) \ {r.page} /\ TablesOf(r) = TablesOf(s)
  /\ r.tables = s.tables
  /\ Held(r, out \cup {r.page})

LEMMA PopFields ==
  ASSUME NEW s, NEW out \in SUBSET Pages, Held(s, out), s.top # 0
  PROVE  LET r == pop(s)
             k == s.top - 1
         IN  /\ r \in State /\ r.status = "up" /\ r.top = k /\ r.page = slot(s, k)
             /\ r.boot = s.boot /\ r.tables = s.tables /\ r.mem = s.mem
             /\ r.pmm_free_memory = s.pmm_free_memory - 1
             /\ \A w \in StackPages :
                  IF k % SLOTS = 0 /\ w = k \div SLOTS
                  THEN r.pte[w] = NOPAGE
                  ELSE r.pte[w] = s.pte[w] /\ r.tlb[w] = s.tlb[w]
<1> DEFINE k == s.top - 1
           v == k \div SLOTS
           popped == [s EXCEPT !.top = k, !.page = s.mem[s.pte[v]][k % SLOTS],
                               !.pmm_free_memory = @ - 1]
<1>1. s \in State /\ s.top \in Nat /\ Len(s.boot) \in Nat /\ s.status = "up"
  BY StateFacts DEF Held
<1>2. k \in 0..(s.top - 1) /\ k \in Nat
  BY <1>1
<1>3. /\ v \in StackPages /\ k % SLOTS \in 0..(SLOTS - 1)
      /\ s.pte[v] \in Pages /\ frame(s, v) = s.pte[v] /\ frame(s, v) # NOPAGE
  BY <1>2, Reached
<1>4. s.pmm_free_memory - 1 \in Nat
  BY <1>1, <1>2 DEF Held, Counted
<1>5. slot(s, k) = s.mem[s.pte[v]][k % SLOTS] /\ slot(s, k) \in Entry
  BY <1>2 DEF slot, Held, Stored, Entry
<1>6. pop(s) = IF k % SLOTS = 0 THEN vmm_unmap_page(popped, v) ELSE popped
  BY <1>3 DEF pop
<1> HIDE DEF v, k
<1>7. popped \in State
  BY <1>1, <1>2, <1>4, <1>5 DEF State
<1>8. /\ popped.top = k /\ popped.page = slot(s, k) /\ popped.boot = s.boot
      /\ popped.tables = s.tables /\ popped.mem = s.mem /\ popped.status = s.status
      /\ popped.pmm_free_memory = s.pmm_free_memory - 1
      /\ popped.pte = s.pte /\ popped.tlb = s.tlb
  BY <1>1, <1>5 DEF State
<1> HIDE DEF popped
<1>9. CASE k % SLOTS = 0
  <2> DEFINE r == vmm_unmap_page(popped, v)
             left == IF InvlpgOnUnmap THEN NOPAGE ELSE s.tlb[v]
  <2>1. r = [popped EXCEPT !.pte[v] = NOPAGE, !.tlb[v] = left]
    BY <1>7, <1>8 DEF vmm_unmap_page, State
  <2>0. left \in Entry
    BY <1>1, <1>3, StateFacts DEF Entry
  <2> HIDE DEF left
  <2>2. r.pte = [s.pte EXCEPT ![v] = NOPAGE]
    BY <1>7, <1>8, <2>1, ZenonT(40) DEF State
  <2>3. r.tlb = [s.tlb EXCEPT ![v] = left]
    <3> DEFINE q == [popped EXCEPT !.pte[v] = NOPAGE]
    <3>1. r = [q EXCEPT !.tlb[v] = left]
      BY <2>1
    <3>2. q.tlb = s.tlb /\ DOMAIN q = DOMAIN popped
      BY <1>7, <1>8 DEF State
    <3>3. "tlb" \in DOMAIN popped
      BY <1>7 DEF State
    <3> HIDE DEF q, r
    <3>4. QED
      BY <3>1, <3>2, <3>3
  <2>4. /\ r.top = k /\ r.page = slot(s, k) /\ r.boot = s.boot
        /\ r.tables = s.tables /\ r.mem = s.mem /\ r.status = s.status
        /\ r.pmm_free_memory = s.pmm_free_memory - 1
    BY <1>7, <1>8, <2>1 DEF State
  <2>5. s.pte \in [StackPages -> Entry] /\ s.tlb \in [StackPages -> Entry]
    BY <1>1, StateFacts
  <2>6. r.pte \in [StackPages -> Entry] /\ r.tlb \in [StackPages -> Entry]
    BY <2>0, <2>2, <2>3, <2>5 DEF Entry
  <2>7. r \in State
    <3>1. r = [popped EXCEPT !.pte = r.pte, !.tlb = r.tlb]
      BY <1>7, <2>1 DEF State
    <3> HIDE DEF r
    <3>2. QED
      BY <3>1, <2>6, <1>7 DEF State
  <2>8. \A w \in StackPages :
          IF w = v THEN r.pte[w] = NOPAGE ELSE r.pte[w] = s.pte[w] /\ r.tlb[w] = s.tlb[w]
    BY <2>2, <2>3, <2>5
  <2>9. pop(s) = r
    BY <1>6, <1>9
  <2> HIDE DEF r
  <2>10. QED
    BY <2>4, <2>7, <2>8, <2>9, <1>1, <1>9 DEF k, v
<1>10. CASE k % SLOTS # 0
  <2>1. pop(s) = popped
    BY <1>6, <1>10
  <2>2. QED
    BY <2>1, <1>1, <1>7, <1>8, <1>10 DEF k, v
<1>11. QED
  BY <1>9, <1>10

\* The slots below the one that is popped stay, and the last one of a stack page is unmapped.
LEMMA PopSlots ==
  ASSUME NEW s, NEW out \in SUBSET Pages, Held(s, out), s.top # 0
  PROVE  LET r == pop(s)
         IN  /\ \A j \in 0..(r.top - 1) : slot(r, j) = slot(s, j)
             /\ Stored(r)
<1> DEFINE r == pop(s)
           k == s.top - 1
           v == k \div SLOTS
<1>1. /\ s \in State /\ s.top \in Nat /\ SLOTS \in Nat \ {0} /\ k \in Nat /\ k \in 0..(s.top - 1)
      /\ k + 1 = s.top
  BY StateFacts, Constants DEF Held
<1>2. /\ r \in State /\ r.top = k /\ r.tables = s.tables /\ r.mem = s.mem
      /\ \A w \in StackPages :
           IF k % SLOTS = 0 /\ w = v THEN r.pte[w] = NOPAGE
           ELSE r.pte[w] = s.pte[w] /\ r.tlb[w] = s.tlb[w]
  BY PopFields
<1>3. /\ k = v * SLOTS + (k % SLOTS) /\ v \in StackPages /\ v \in Nat /\ k % SLOTS \in 0..(SLOTS - 1)
      /\ v # TABLE_SPAN
  <2>1. k < SLOTS * TABLE_SPAN
    BY <1>1, StackFits
  <2>2. QED
    BY <1>1, <2>1, Reached, DivFacts, InFirstTable
<1> HIDE DEF r, k, v
<1>4. ASSUME NEW j \in 0..(k - 1)
      PROVE  slot(r, j) = slot(s, j)
  <2>1. j \in 0..(s.top - 1) /\ j < k /\ j \in Nat
    BY <1>1
  <2>2. j \div SLOTS \in StackPages /\ (j \div SLOTS) * SLOTS \in 0..j
    BY <2>1, Reached
  <2>3. ~ (k % SLOTS = 0 /\ j \div SLOTS = v)
    BY <1>1, <1>3, <2>1, <2>2
  <2>4. r.pte[j \div SLOTS] = s.pte[j \div SLOTS]
    BY <1>2, <2>2, <2>3
  <2>5. QED
    BY <1>2, <2>4 DEF slot
<1>5. ASSUME NEW w \in StackPages
      PROVE  /\ w # TABLE_SPAN =>
                  r.pte[w] = IF w * SLOTS < k THEN slot(r, w * SLOTS) ELSE NOPAGE
             /\ w = TABLE_SPAN => r.pte[w] = s.pte[w]
             /\ r.pte[w] # NOPAGE => r.tlb[w] \in {NOPAGE, r.pte[w]}
  <2>1. /\ w # TABLE_SPAN =>
             s.pte[w] = IF w * SLOTS < s.top THEN slot(s, w * SLOTS) ELSE NOPAGE
        /\ s.pte[w] # NOPAGE => s.tlb[w] \in {NOPAGE, s.pte[w]}
    BY DEF Held, Stored
  <2>2. w \in Nat /\ w * SLOTS \in Nat
    BY <1>1, Constants DEF StackPages
  <2>3. CASE k % SLOTS = 0 /\ w = v
    <3>1. w * SLOTS = k
      BY <2>3, <1>3, <1>1, <2>2
    <3>2. r.pte[w] = NOPAGE
      BY <1>2, <2>3
    <3>3. QED
      BY <3>1, <3>2, <1>1, <1>3, <2>3
  <2>4. CASE ~ (k % SLOTS = 0 /\ w = v)
    <3>1. r.pte[w] = s.pte[w] /\ r.tlb[w] = s.tlb[w]
      BY <1>2, <2>4
    <3>2. w * SLOTS # k
      <4>1. SUFFICES ASSUME w * SLOTS = k PROVE FALSE
        OBVIOUS
      <4>2. k \div SLOTS = w /\ k % SLOTS = 0
        BY <4>1, <1>1, <2>2, SlotOf
      <4>3. QED
        BY <4>2, <2>4 DEF v
    <3>3. w * SLOTS < k <=> w * SLOTS < s.top
      BY <3>2, <1>1, <2>2
    <3>4. w * SLOTS < k => slot(r, w * SLOTS) = slot(s, w * SLOTS)
      BY <1>1, <2>2, <1>4
    <3>5. QED
      BY <2>1, <3>1, <3>3, <3>4
  <2>5. QED
    BY <2>3, <2>4
<1>6. \A j \in 0..(k - 1) : slot(r, j) \in Pages
  BY <1>1, <1>4 DEF Held, Stored
<1>7. /\ \A i \in 2..(TABLES - 1) : r.tables[i] = NOPAGE
      /\ r.top # 0 => r.tables[0] # NOPAGE
      /\ Second(r) <=> Second(s)
      /\ Second(r) => ~ OneTable /\ r.tables[0] \notin {NOPAGE, r.tables[1]}
      /\ TABLE_SPAN \in StackPages => (s.pte[TABLE_SPAN] # NOPAGE <=> Second(s))
  BY <1>1, <1>2 DEF Held, Stored, Second
<1>8. Stored(r)
  <2>1. r.top <= SLOTS * TABLE_SPAN
    BY <1>1, <1>2, StackFits
  <2>2. \A w \in StackPages \ {TABLE_SPAN} :
          r.pte[w] = IF w * SLOTS < r.top THEN slot(r, w * SLOTS) ELSE NOPAGE
    BY <1>2, <1>5
  <2>3. TABLE_SPAN \in StackPages => (r.pte[TABLE_SPAN] # NOPAGE <=> Second(r))
    BY <1>5, <1>7
  <2>4. QED
    BY <2>1, <2>2, <2>3, <1>2, <1>5, <1>6, <1>7 DEF Stored
<1>9. QED
  BY <1>2, <1>4, <1>8 DEF r

\* A page taken off the stack.
LEMMA PopStep ==
  ASSUME NEW s, NEW out \in SUBSET Pages, Held(s, out), s.top # 0
  PROVE  Got(s, pop(s), out)
<1> DEFINE r == pop(s)
           k == s.top - 1
           more == out \cup {r.page}
<1>1. /\ s \in State /\ s.top \in Nat /\ k \in Nat /\ k \in 0..(s.top - 1) /\ k + 1 = s.top
      /\ 0..(s.top - 1) = (0..(k - 1)) \cup {k} /\ k \notin 0..(k - 1)
  BY StateFacts DEF Held
<1>2. /\ r \in State /\ r.status = "up" /\ r.top = k /\ r.page = slot(s, k)
      /\ r.boot = s.boot /\ r.tables = s.tables
      /\ r.pmm_free_memory = s.pmm_free_memory - 1
  BY PopFields
<1>3. (\A j \in 0..(k - 1) : slot(r, j) = slot(s, j)) /\ Stored(r)
  BY <1>2, PopSlots
<1> HIDE DEF r, k
<1>4. /\ \A i, j \in 0..(s.top - 1) : slot(s, i) = slot(s, j) => i = j
      /\ \A j \in 0..(s.top - 1) : slot(s, j) \in Pages
  BY DEF Held, Apart, Stored
<1>5. /\ StackOf(s) = {slot(s, j) : j \in 0..(s.top - 1)}
      /\ StackOf(r) = {slot(r, j) : j \in 0..(k - 1)}
  BY <1>2 DEF StackOf
<1>6. StackOf(r) = StackOf(s) \ {r.page} /\ r.page \in StackOf(s)
  BY <1>1, <1>2, <1>3, <1>4, <1>5
<1>7. BootOf(r) = BootOf(s) /\ TablesOf(r) = TablesOf(s)
  BY <1>2 DEF BootOf, TablesOf
<1>8. /\ BootOf(s) \cap StackOf(s) = {} /\ FreeOf(s) = BootOf(s) \cup StackOf(s)
      /\ FreeOf(s) \cap TablesOf(s) = {}
      /\ (FreeOf(s) \cup TablesOf(s)) \cap out = {}
      /\ FreeOf(s) \cup TablesOf(s) \cup out = Pages
      /\ \A i, j \in DOMAIN s.boot : s.boot[i] = s.boot[j] => i = j
  BY DEF Held, Apart, FreeOf
<1>9. FreeOf(r) = FreeOf(s) \ {r.page} /\ r.page \in FreeOf(s) /\ r.page \in Pages
  BY <1>6, <1>7, <1>8 DEF FreeOf
<1>10. Apart(r, more)
  <2>1. \A i, j \in 0..(r.top - 1) : slot(r, i) = slot(r, j) => i = j
    BY <1>1, <1>2, <1>3, <1>4
  <2>2. \A i, j \in DOMAIN r.boot : r.boot[i] = r.boot[j] => i = j
    BY <1>2, <1>8
  <2>3. /\ BootOf(r) \cap StackOf(r) = {} /\ FreeOf(r) \cap TablesOf(r) = {}
        /\ (FreeOf(r) \cup TablesOf(r)) \cap more = {}
        /\ FreeOf(r) \cup TablesOf(r) \cup more = Pages
    BY <1>6, <1>7, <1>8, <1>9
  <2>4. QED
    BY <2>1, <2>2, <2>3 DEF Apart
<1>11. Counted(r, more)
  <2>1. IsFiniteSet(out) /\ Cardinality(out) \in Nat /\ r.page \notin out
    BY StackFits, <1>8, <1>9
  <2>2. Cardinality(more) = Cardinality(out) + 1
    BY <2>1, FS_AddElement
  <2>3. Len(s.boot) \in Nat /\ Cardinality(TablesOf(s)) \in Nat /\ s.pmm_free_memory \in Nat
    BY <1>1, StateFacts, TablesAre DEF Held
  <2>4. /\ Len(s.boot) + s.top + Cardinality(TablesOf(s)) + Cardinality(out) = Cardinality(Pages)
        /\ s.pmm_free_memory = Len(s.boot) + s.top
    BY DEF Held, Counted
  <2>5. Len(r.boot) = Len(s.boot) /\ Cardinality(TablesOf(r)) = Cardinality(TablesOf(s))
    BY <1>2, <1>7
  <2>6. k \in Nat /\ s.top = k + 1 /\ r.pmm_free_memory = s.pmm_free_memory - 1
    BY <1>1, <1>2
  <2> DEFINE n == Len(s.boot)
             t == Cardinality(TablesOf(s))
             o == Cardinality(out)
             f == s.pmm_free_memory
             all == Cardinality(Pages)
  <2>7. n \in Nat /\ t \in Nat /\ o \in Nat /\ all \in Nat /\ n + s.top + t + o = all /\ f = n + s.top
    BY <2>1, <2>3, <2>4, Constants
  <2> HIDE DEF n, t, o, f, all
  <2>8. n + k + t + (o + 1) = all /\ f - 1 = n + k
    BY <2>6, <2>7
  <2>9. QED
    BY <1>2, <2>2, <2>5, <2>6, <2>8 DEF Counted, n, t, o, f, all
<1>12. Held(r, more)
  BY <1>2, <1>3, <1>10, <1>11 DEF Held
<1>13. QED
  BY <1>2, <1>7, <1>9, <1>12 DEF Got, r

\* The rest of a sequence without repetitions.
LEMMA TailFacts ==
  ASSUME NEW b \in Seq(Pages), b # <<>>, \A j, k \in DOMAIN b : b[j] = b[k] => j = k
  PROVE  LET c == Tail(b)
         IN  /\ c \in Seq(Pages) /\ Len(c) \in Nat /\ Len(b) = Len(c) + 1
             /\ Head(b) \in Pages /\ Head(b) \in {b[k] : k \in DOMAIN b}
             /\ \A j, k \in DOMAIN c : c[j] = c[k] => j = k
             /\ {c[k] : k \in DOMAIN c} = {b[k] : k \in DOMAIN b} \ {Head(b)}
<1> DEFINE c == Tail(b)
           n == Len(c)
<1>1. c \in Seq(Pages) /\ Len(b) \in Nat /\ DOMAIN b = 1..Len(b)
  OBVIOUS
<1>2. n \in Nat /\ Len(b) = n + 1 /\ DOMAIN c = 1..n
  OBVIOUS
<1>3. \A k \in 1..n : c[k] = b[k + 1]
  OBVIOUS
<1>4. Head(b) = b[1] /\ Head(b) \in Pages
  OBVIOUS
<1> HIDE DEF c, n
<1>5. \A k \in 1..n : k + 1 \in 1..(n + 1) /\ k + 1 # 1
  BY <1>2
<1>6. \A k \in 1..(n + 1) : k = 1 \/ k - 1 \in 1..n
  BY <1>2
<1>7. ASSUME NEW j \in 1..n, NEW k \in 1..n, c[j] = c[k]
      PROVE  j = k
  <2>1. j + 1 = k + 1
    BY <1>1, <1>2, <1>3, <1>5, <1>7
  <2>2. QED
    BY <2>1, <1>2
<1>8. \A x : x \in {c[k] : k \in DOMAIN c} <=> x \in {b[k] : k \in DOMAIN b} \ {Head(b)}
  <2>1. ASSUME NEW k \in 1..n
        PROVE  c[k] \in {b[i] : i \in DOMAIN b} \ {Head(b)}
    <3>1. c[k] = b[k + 1] /\ k + 1 \in DOMAIN b /\ 1 \in DOMAIN b /\ k + 1 # 1
      BY <1>1, <1>2, <1>3, <1>5
    <3>2. b[k + 1] # b[1]
      BY <3>1
    <3>3. QED
      BY <3>1, <3>2, <1>4
  <2>2. ASSUME NEW k \in 1..(n + 1), b[k] # Head(b)
        PROVE  b[k] \in {c[i] : i \in DOMAIN c}
    <3>1. k - 1 \in 1..n /\ (k - 1) + 1 = k
      BY <2>2, <1>4, <1>6
    <3>2. c[k - 1] = b[k]
      BY <3>1, <1>3
    <3>3. QED
      BY <3>1, <3>2, <1>2
  <2>3. QED
    BY <2>1, <2>2, <1>1, <1>2
<1>9. 1 \in DOMAIN b
  BY <1>1, <1>2
<1>10. QED
  BY <1>1, <1>2, <1>4, <1>7, <1>8, <1>9 DEF c, n

\* A page taken from the boot regions.
LEMMA BootStep ==
  ASSUME NEW s, NEW out \in SUBSET Pages, Held(s, out), s.top = 0, s.boot # <<>>
  PROVE  Got(s, [s EXCEPT !.boot = Tail(@), !.page = Head(s.boot), !.pmm_free_memory = @ - 1], out)
<1> DEFINE r == [s EXCEPT !.boot = Tail(@), !.page = Head(s.boot), !.pmm_free_memory = @ - 1]
           more == out \cup {r.page}
           n == Len(r.boot)
<1>1. /\ s \in State /\ s.boot \in Seq(Pages) /\ s.status = "up" /\ s.pmm_free_memory \in Nat
      /\ \A j, k \in DOMAIN s.boot : s.boot[j] = s.boot[k] => j = k
  BY StateFacts DEF Held, Apart
<1>2. /\ r.boot = Tail(s.boot) /\ r.page = Head(s.boot)
      /\ r.pmm_free_memory = s.pmm_free_memory - 1
      /\ r.status = "up" /\ r.top = s.top /\ r.tables = s.tables
      /\ r.mem = s.mem /\ r.pte = s.pte /\ r.tlb = s.tlb
  BY <1>1 DEF State
<1>3. /\ r.boot \in Seq(Pages) /\ n \in Nat /\ Len(s.boot) = n + 1
      /\ r.page \in Pages /\ r.page \in BootOf(s)
      /\ \A j, k \in DOMAIN r.boot : r.boot[j] = r.boot[k] => j = k
      /\ BootOf(r) = BootOf(s) \ {r.page}
  <2> DEFINE b == s.boot
             c == Tail(b)
  <2>1. b \in Seq(Pages) /\ b # <<>> /\ \A j, k \in DOMAIN b : b[j] = b[k] => j = k
    BY <1>1
  <2>2. r.boot = c /\ r.page = Head(b)
    BY <1>2
  <2> HIDE DEF b, r
  <2>3. /\ c \in Seq(Pages) /\ Len(c) \in Nat /\ Len(b) = Len(c) + 1
        /\ Head(b) \in Pages /\ Head(b) \in {b[k] : k \in DOMAIN b}
        /\ \A j, k \in DOMAIN c : c[j] = c[k] => j = k
        /\ {c[k] : k \in DOMAIN c} = {b[k] : k \in DOMAIN b} \ {Head(b)}
    BY <2>1, TailFacts
  <2> HIDE DEF c
  <2>4. BootOf(s) = {b[k] : k \in DOMAIN b} /\ BootOf(r) = {c[k] : k \in DOMAIN c}
    BY <2>2 DEF BootOf, b
  <2>5. b = s.boot
    BY DEF b
  <2>6. r.boot \in Seq(Pages) /\ n \in Nat /\ Len(s.boot) = n + 1
    BY <2>2, <2>3, <2>5
  <2>7. \A j, k \in DOMAIN r.boot : r.boot[j] = r.boot[k] => j = k
    BY <2>2, <2>3
  <2>8. r.page \in Pages /\ r.page \in BootOf(s) /\ BootOf(r) = BootOf(s) \ {r.page}
    BY <2>2, <2>3, <2>4
  <2>9. QED
    BY <2>6, <2>7, <2>8
<1>4. s.pmm_free_memory = Len(s.boot) + s.top
  BY DEF Held, Counted
<1>5. r.pmm_free_memory = n + s.top /\ r.pmm_free_memory \in Nat
  <2>1. s.pmm_free_memory = n + 1 + s.top /\ s.top = 0 /\ n \in Nat
    BY <1>3, <1>4
  <2> HIDE DEF n, r
  <2>2. QED
    BY <2>1, <1>2
<1>6. r \in State
  <2>1. r = [s EXCEPT !.boot = r.boot, !.page = r.page, !.pmm_free_memory = r.pmm_free_memory]
    BY <1>1, <1>2
  <2> HIDE DEF r
  <2>2. QED
    BY <2>1, <1>1, <1>3, <1>5 DEF State, Entry
<1> HIDE DEF r
<1>7. \A k : slot(r, k) = slot(s, k)
  BY <1>2 DEF slot
<1>8. StackOf(r) = StackOf(s) /\ TablesOf(r) = TablesOf(s)
  BY <1>2, <1>7 DEF StackOf, TablesOf
<1>9. Stored(r)
  BY <1>2, <1>7 DEF Held, Stored, Second
<1>10. /\ BootOf(s) \cap StackOf(s) = {} /\ FreeOf(s) = BootOf(s) \cup StackOf(s)
       /\ FreeOf(s) \cap TablesOf(s) = {}
       /\ (FreeOf(s) \cup TablesOf(s)) \cap out = {}
       /\ FreeOf(s) \cup TablesOf(s) \cup out = Pages
  BY DEF Held, Apart, FreeOf
<1>11. FreeOf(r) = FreeOf(s) \ {r.page} /\ r.page \in FreeOf(s)
  BY <1>3, <1>8, <1>10 DEF FreeOf
<1>12. Apart(r, more)
  <2>1. \A i, j \in 0..(r.top - 1) : slot(r, i) = slot(r, j) => i = j
    BY <1>2, <1>7 DEF Held, Apart
  <2>2. /\ BootOf(r) \cap StackOf(r) = {} /\ FreeOf(r) \cap TablesOf(r) = {}
        /\ (FreeOf(r) \cup TablesOf(r)) \cap more = {}
        /\ FreeOf(r) \cup TablesOf(r) \cup more = Pages
    BY <1>3, <1>8, <1>10, <1>11
  <2>3. QED
    BY <2>1, <2>2, <1>3 DEF Apart
<1>13. Counted(r, more)
  <2>1. IsFiniteSet(out) /\ Cardinality(out) \in Nat /\ r.page \notin out
    BY StackFits, <1>10, <1>11
  <2>2. Cardinality(more) = Cardinality(out) + 1
    BY <2>1, FS_AddElement
  <2>3. Cardinality(TablesOf(s)) \in Nat
    BY <1>1, TablesAre DEF Held
  <2>4. Len(s.boot) + s.top + Cardinality(TablesOf(s)) + Cardinality(out) = Cardinality(Pages)
    BY DEF Held, Counted
  <2> DEFINE t == Cardinality(TablesOf(s))
             o == Cardinality(out)
  <2>5. n \in Nat /\ t \in Nat /\ o \in Nat /\ n + 1 + s.top + t + o = Cardinality(Pages) /\ s.top = 0
    BY <2>1, <2>3, <2>4, <1>3
  <2> HIDE DEF n, t, o
  <2>6. n + s.top + t + (o + 1) = Cardinality(Pages)
    BY <2>5
  <2>7. QED
    BY <1>2, <1>5, <1>8, <2>2, <2>6 DEF Counted, n, t, o
<1>14. Held(r, more)
  BY <1>2, <1>6, <1>9, <1>12, <1>13 DEF Held
<1>15. QED
  BY <1>2, <1>8, <1>11, <1>14 DEF Got, r

LEMMA AllocStep ==
  ASSUME NEW s, NEW out \in SUBSET Pages, Held(s, out)
  PROVE  \/ Got(s, pmm_alloc_page(s), out)
         \/ /\ s.top = 0 /\ s.boot = <<>>
            /\ pmm_alloc_page(s) = fatal(s, "out of memory")
BY PopStep, BootStep DEF pmm_alloc_page

\* What does not touch a free page or a mapping leaves the stack as it is.
LEMMA Untouched ==
  ASSUME NEW s, NEW out \in SUBSET Pages, Held(s, out),
         NEW r \in State,
         r.boot = s.boot, r.top = s.top, r.tables = s.tables, r.status = s.status,
         r.pmm_free_memory = s.pmm_free_memory, r.pte = s.pte,
         \A v \in StackPages : s.pte[v] # NOPAGE => r.tlb[v] \in {NOPAGE, s.pte[v]},
         \A q \in FreeOf(s) : r.mem[q] = s.mem[q]
  PROVE  Held(r, out) /\ FreeOf(r) = FreeOf(s) /\ TablesOf(r) = TablesOf(s)
<1>1. s \in State /\ s.top \in Nat
  BY StateFacts DEF Held
<1>2. ASSUME NEW k \in 0..(s.top - 1)
      PROVE  slot(r, k) = slot(s, k)
  <2>1. /\ s.pte[k \div SLOTS] = slot(s, (k \div SLOTS) * SLOTS)
        /\ (k \div SLOTS) * SLOTS \in 0..k
    BY Reached
  <2>2. (k \div SLOTS) * SLOTS \in 0..(s.top - 1)
    BY <1>1, <2>1
  <2>3. s.pte[k \div SLOTS] \in FreeOf(s)
    BY <2>1, <2>2 DEF FreeOf, StackOf
  <2>4. QED
    BY <2>3 DEF slot
<1>3. StackOf(r) = StackOf(s) /\ BootOf(r) = BootOf(s) /\ TablesOf(r) = TablesOf(s)
  BY <1>2 DEF StackOf, BootOf, TablesOf
<1>4. FreeOf(r) = FreeOf(s)
  BY <1>3 DEF FreeOf
<1>5. ASSUME NEW w \in StackPages \ {TABLE_SPAN}
      PROVE  r.pte[w] = IF w * SLOTS < r.top THEN slot(r, w * SLOTS) ELSE NOPAGE
  <2>1. w * SLOTS \in Nat
    BY Constants DEF StackPages
  <2>2. w * SLOTS < s.top => w * SLOTS \in 0..(s.top - 1)
    BY <1>1, <2>1
  <2>3. s.pte[w] = IF w * SLOTS < s.top THEN slot(s, w * SLOTS) ELSE NOPAGE
    BY DEF Held, Stored
  <2>4. QED
    BY <1>2, <2>2, <2>3
<1>6. Stored(r)
  BY <1>2, <1>5 DEF Held, Stored, Second
<1>7. Apart(r, out)
  BY <1>2, <1>3, <1>4 DEF Held, Apart
<1>8. Counted(r, out)
  BY <1>3 DEF Held, Counted
<1>9. QED
  BY <1>3, <1>4, <1>6, <1>7, <1>8 DEF Held
-----------------------------------------------------------------------------
(***************************************************************************)
(* pmm_free_page.                                                          *)
(***************************************************************************)
\* The page is written to the top of the stack, and holds it if it is a new stack page.
Pushed(s, r, page) ==
  LET v == s.top \div SLOTS
  IN  /\ r \in State /\ r.status = "up" /\ r.top = s.top + 1
      /\ r.boot = s.boot /\ r.tables = s.tables
      /\ r.pmm_free_memory = s.pmm_free_memory + 1
      /\ \A w \in StackPages :
           IF s.top % SLOTS = 0 /\ w = v
           THEN r.pte[w] = page /\ r.tlb[w] = NOPAGE
           ELSE r.pte[w] = s.pte[w] /\ r.tlb[w] = s.tlb[w]
      /\ r.mem = [s.mem EXCEPT ![r.pte[v]][s.top % SLOTS] = page]

LEMMA PushSlots ==
  ASSUME NEW s, NEW out \in SUBSET Pages, Held(s, out), NEW page \in out,
         s.top < SLOTS * TABLE_SPAN, s.tables[0] # NOPAGE, NEW r, Pushed(s, r, page)
  PROVE  /\ \A j \in 0..(s.top - 1) : slot(r, j) = slot(s, j)
         /\ slot(r, s.top) = page
         /\ Stored(r)
<1> DEFINE k == s.top
           v == k \div SLOTS
<1>1. /\ s \in State /\ k \in Nat /\ SLOTS \in Nat \ {0} /\ k < SLOTS * TABLE_SPAN
      /\ page \in Pages /\ NOPAGE \notin Pages
      /\ s.mem \in [Pages -> [0..(SLOTS - 1) -> Entry]]
  BY StateFacts, StackFits, Constants DEF Held
<1>2. /\ k = v * SLOTS + (k % SLOTS) /\ v \in StackPages \ {TABLE_SPAN} /\ v \in Nat
      /\ k % SLOTS \in 0..(SLOTS - 1)
  BY <1>1, InFirstTable, DivFacts
<1>3. /\ r \in State /\ r.top = k + 1 /\ r.tables = s.tables
      /\ \A w \in StackPages :
           IF k % SLOTS = 0 /\ w = v
           THEN r.pte[w] = page /\ r.tlb[w] = NOPAGE
           ELSE r.pte[w] = s.pte[w] /\ r.tlb[w] = s.tlb[w]
      /\ r.mem = [s.mem EXCEPT ![r.pte[v]][k % SLOTS] = page]
  BY DEF Pushed
<1>4. /\ \A w \in StackPages \ {TABLE_SPAN} :
           s.pte[w] = IF w * SLOTS < k THEN slot(s, w * SLOTS) ELSE NOPAGE
      /\ \A w \in StackPages : s.pte[w] # NOPAGE => s.tlb[w] \in {NOPAGE, s.pte[w]}
      /\ \A j \in 0..(k - 1) : slot(s, j) \in Pages /\ slot(s, j) # page
      /\ \A i, j \in 0..(k - 1) : slot(s, i) = slot(s, j) => i = j
  BY DEF Held, Stored, Apart, FreeOf, StackOf
<1>5. \A j \in 0..(k - 1) :
        /\ j \div SLOTS \in StackPages /\ j \div SLOTS \in Nat /\ j % SLOTS \in 0..(SLOTS - 1)
        /\ j = (j \div SLOTS) * SLOTS + (j % SLOTS)
        /\ (j \div SLOTS) * SLOTS \in 0..j
        /\ s.pte[j \div SLOTS] = slot(s, (j \div SLOTS) * SLOTS)
        /\ s.pte[j \div SLOTS] \in Pages
  <2>1. StackPages \subseteq Nat
    BY Constants DEF StackPages
  <2>2. SUFFICES ASSUME NEW j \in 0..(k - 1)
                 PROVE  /\ j \div SLOTS \in StackPages /\ j % SLOTS \in 0..(SLOTS - 1)
                        /\ j = (j \div SLOTS) * SLOTS + (j % SLOTS)
                        /\ (j \div SLOTS) * SLOTS \in 0..j
                        /\ s.pte[j \div SLOTS] = slot(s, (j \div SLOTS) * SLOTS)
                        /\ s.pte[j \div SLOTS] \in Pages
    BY <2>1
  <2>3. j \in 0..(s.top - 1)
    OBVIOUS
  <2>4. QED
    BY <2>3, Reached
<1> HIDE DEF k, v
<1>6. r.pte[v] \in Pages /\ (k % SLOTS # 0 => r.pte[v] = slot(s, v * SLOTS) /\ v * SLOTS \in 0..(k - 1))
  <2>1. CASE k % SLOTS = 0
    BY <2>1, <1>1, <1>2, <1>3
  <2>2. CASE k % SLOTS # 0
    <3>1. v * SLOTS \in Nat /\ v * SLOTS < k
      <4> DEFINE a == v * SLOTS
                 x == k % SLOTS
      <4>0. v * SLOTS \in Nat
        BY <1>1, <1>2, SlotOf
      <4>1. a \in Nat /\ x \in Nat /\ x # 0 /\ k = a + x
        BY <4>0, <2>2, <1>2
      <4> HIDE DEF a, x
      <4>2. a < k
        BY <4>1
      <4>3. QED
        BY <4>1, <4>2 DEF a
    <3>2. v * SLOTS \in 0..(k - 1)
      BY <3>1, <1>1
    <3>3. QED
      BY <2>2, <3>1, <3>2, <1>2, <1>3, <1>4
  <2>3. QED
    BY <2>1, <2>2
<1>7. ASSUME NEW j \in 0..(k - 1)
      PROVE  slot(r, j) = slot(s, j)
  <2> DEFINE w == j \div SLOTS
             g == s.pte[w]
  <2>1. /\ w \in StackPages /\ w \in Nat /\ j % SLOTS \in 0..(SLOTS - 1)
        /\ j = w * SLOTS + (j % SLOTS) /\ w * SLOTS \in 0..j
        /\ g = slot(s, w * SLOTS) /\ g \in Pages
    BY <1>5
  <2> HIDE DEF w, g
  <2>2. j < k /\ j \in Nat /\ w * SLOTS \in 0..(k - 1)
    <3> DEFINE a == w * SLOTS
    <3>1. a \in 0..j /\ k \in Nat
      BY <1>1, <2>1
    <3> HIDE DEF a
    <3>2. j < k /\ j \in Nat /\ a \in 0..(k - 1)
      BY <3>1
    <3>3. QED
      BY <3>2 DEF a
  <2>3. ~ (k % SLOTS = 0 /\ w = v)
    BY <1>1, <1>2, <2>1, <2>2
  <2>4. r.pte[w] = g
    BY <1>3, <2>1, <2>3 DEF g
  <2>5. r.mem[g][j % SLOTS] = s.mem[g][j % SLOTS]
    <3>1. CASE g # r.pte[v]
      BY <3>1, <1>1, <1>3, <2>1
    <3>2. CASE g = r.pte[v]
      <4>1. k % SLOTS # 0
        <5>1. SUFFICES ASSUME k % SLOTS = 0 PROVE FALSE
          OBVIOUS
        <5>2. r.pte[v] = page
          BY <5>1, <1>2, <1>3
        <5>3. QED
          BY <5>2, <3>2, <1>4, <2>1, <2>2
      <4>2. w * SLOTS = v * SLOTS
        BY <4>1, <3>2, <1>4, <1>6, <2>1, <2>2
      <4>3. j % SLOTS # k % SLOTS
        <5> DEFINE a == w * SLOTS
        <5>1. a \in Int /\ a = v * SLOTS
          BY <4>2, <1>1, <2>1
        <5> HIDE DEF a
        <5>2. j = a + (j % SLOTS) /\ k = a + (k % SLOTS)
          BY <1>2, <2>1, <5>1 DEF a
        <5>3. QED
          BY <5>2, <2>2
      <4>4. QED
        BY <4>3, <3>2, <1>1, <1>2, <1>3, <2>1
    <3>3. QED
      BY <3>1, <3>2
  <2>6. QED
    BY <2>4, <2>5 DEF slot, g, w
<1>8. slot(r, k) = page
  <2>1. r.mem[r.pte[v]][k % SLOTS] = page
    BY <1>1, <1>2, <1>3, <1>6
  <2>2. QED
    BY <2>1 DEF slot, v
<1>9. ASSUME NEW w \in StackPages
      PROVE  /\ w # TABLE_SPAN =>
                  r.pte[w] = IF w * SLOTS < k + 1 THEN slot(r, w * SLOTS) ELSE NOPAGE
             /\ w = TABLE_SPAN => r.pte[w] = s.pte[w]
             /\ r.pte[w] # NOPAGE => r.tlb[w] \in {NOPAGE, r.pte[w]}
  <2>1. w \in Nat /\ w * SLOTS \in Nat
    BY <1>1, Constants DEF StackPages
  <2>2. CASE k % SLOTS = 0 /\ w = v
    <3>1. w * SLOTS = k
      BY <2>2, <1>1, <1>2, <2>1
    <3>2. r.pte[w] = page /\ r.tlb[w] = NOPAGE
      BY <2>2, <1>3
    <3>3. QED
      BY <3>1, <3>2, <1>1, <1>2, <1>8, <2>2
  <2>3. CASE ~ (k % SLOTS = 0 /\ w = v)
    <3>1. r.pte[w] = s.pte[w] /\ r.tlb[w] = s.tlb[w]
      BY <2>3, <1>3
    <3>2. w * SLOTS # k
      <4>1. SUFFICES ASSUME w * SLOTS = k PROVE FALSE
        OBVIOUS
      <4>2. k \div SLOTS = w /\ k % SLOTS = 0
        BY <4>1, <1>1, <2>1, SlotOf
      <4>3. QED
        BY <4>2, <2>3 DEF v
    <3>3. w * SLOTS < k <=> w * SLOTS < k + 1
      BY <3>2, <1>1, <2>1
    <3>4. w * SLOTS < k => slot(r, w * SLOTS) = slot(s, w * SLOTS)
      BY <1>1, <2>1, <1>7
    <3>5. QED
      BY <1>4, <3>1, <3>3, <3>4
  <2>4. QED
    BY <2>2, <2>3
<1>10. ASSUME NEW j \in 0..(r.top - 1)
       PROVE  slot(r, j) \in Pages
  <2>1. j = k \/ j \in 0..(k - 1)
    BY <1>1, <1>3
  <2>2. QED
    BY <2>1, <1>1, <1>4, <1>7, <1>8
<1>11. /\ \A i \in 2..(TABLES - 1) : r.tables[i] = NOPAGE
       /\ r.tables[0] # NOPAGE
       /\ Second(r) <=> Second(s)
       /\ Second(r) => ~ OneTable /\ r.tables[0] \notin {NOPAGE, r.tables[1]}
       /\ TABLE_SPAN \in StackPages => (s.pte[TABLE_SPAN] # NOPAGE <=> Second(s))
  BY <1>3 DEF Held, Stored, Second
<1>12. Stored(r)
  <2>1. r.top <= SLOTS * TABLE_SPAN
    BY <1>1, <1>3, Constants
  <2>2. \A w \in StackPages \ {TABLE_SPAN} :
          r.pte[w] = IF w * SLOTS < r.top THEN slot(r, w * SLOTS) ELSE NOPAGE
    BY <1>3, <1>9
  <2>3. TABLE_SPAN \in StackPages => (r.pte[TABLE_SPAN] # NOPAGE <=> Second(r))
    BY <1>9, <1>11
  <2>4. QED
    BY <2>1, <2>2, <2>3, <1>3, <1>9, <1>10, <1>11 DEF Stored
<1>13. QED
  BY <1>7, <1>8, <1>12 DEF k

\* The page is free afterwards, and everything else where it was.
LEMMA PushStep ==
  ASSUME NEW s, NEW out \in SUBSET Pages, Held(s, out), NEW page \in out,
         s.top < SLOTS * TABLE_SPAN, s.tables[0] # NOPAGE, NEW r, Pushed(s, r, page)
  PROVE  /\ Held(r, out \ {page})
         /\ FreeOf(r) = FreeOf(s) \cup {page} /\ TablesOf(r) = TablesOf(s)
<1> DEFINE k == s.top
           less == out \ {page}
<1>1. /\ s \in State /\ k \in Nat /\ s.pmm_free_memory \in Nat /\ Len(s.boot) \in Nat
  BY StateFacts DEF Held
<1>2. /\ r \in State /\ r.status = "up" /\ r.top = k + 1 /\ r.boot = s.boot /\ r.tables = s.tables
      /\ r.pmm_free_memory = s.pmm_free_memory + 1
  BY DEF Pushed
<1>3. /\ \A j \in 0..(k - 1) : slot(r, j) = slot(s, j)
      /\ slot(r, k) = page
      /\ Stored(r)
  BY PushSlots
<1>4. /\ BootOf(s) \cap StackOf(s) = {} /\ FreeOf(s) = BootOf(s) \cup StackOf(s)
      /\ FreeOf(s) \cap TablesOf(s) = {}
      /\ (FreeOf(s) \cup TablesOf(s)) \cap out = {}
      /\ FreeOf(s) \cup TablesOf(s) \cup out = Pages
      /\ \A i, j \in DOMAIN s.boot : s.boot[i] = s.boot[j] => i = j
      /\ \A i, j \in 0..(k - 1) : slot(s, i) = slot(s, j) => i = j
      /\ StackOf(s) = {slot(s, j) : j \in 0..(k - 1)}
  BY DEF Held, Apart, FreeOf, StackOf
<1>5. StackOf(r) = {slot(r, j) : j \in (0..(k - 1)) \cup {k}}
  <2>1. 0..(r.top - 1) = (0..(k - 1)) \cup {k}
    BY <1>1, <1>2
  <2> HIDE DEF k
  <2>2. QED
    BY <2>1 DEF StackOf
<1> HIDE DEF k, less
<1>6. StackOf(r) = StackOf(s) \cup {page}
  BY <1>1, <1>3, <1>4, <1>5
<1>7. BootOf(r) = BootOf(s) /\ TablesOf(r) = TablesOf(s)
  BY <1>2 DEF BootOf, TablesOf
<1>8. FreeOf(r) = FreeOf(s) \cup {page}
  BY <1>4, <1>6, <1>7 DEF FreeOf
<1>9. Apart(r, less)
  <2>1. \A j \in 0..(k - 1) : slot(r, j) # page
    BY <1>3, <1>4
  <2>2. \A i, j \in 0..(r.top - 1) : slot(r, i) = slot(r, j) => i = j
    <3>1. \A j \in 0..(r.top - 1) : j \in 0..(k - 1) \/ j = k
      BY <1>1, <1>2
    <3>2. QED
      BY <3>1, <1>3, <1>4, <2>1
  <2>3. \A i, j \in DOMAIN r.boot : r.boot[i] = r.boot[j] => i = j
    BY <1>2, <1>4
  <2>4. /\ BootOf(r) \cap StackOf(r) = {} /\ FreeOf(r) \cap TablesOf(r) = {}
        /\ (FreeOf(r) \cup TablesOf(r)) \cap less = {}
        /\ FreeOf(r) \cup TablesOf(r) \cup less = Pages
    BY <1>4, <1>6, <1>7, <1>8 DEF less
  <2>5. QED
    BY <2>2, <2>3, <2>4 DEF Apart
<1>10. Counted(r, less)
  <2>1. IsFiniteSet(out) /\ Cardinality(out) \in Nat
    BY StackFits
  <2>2. Cardinality(less) = Cardinality(out) - 1
    BY <2>1, FS_RemoveElement DEF less
  <2>3. Cardinality(TablesOf(s)) \in Nat
    BY <1>1, TablesAre DEF Held
  <2>4. /\ Len(s.boot) + k + Cardinality(TablesOf(s)) + Cardinality(out) = Cardinality(Pages)
        /\ s.pmm_free_memory = Len(s.boot) + k
    BY DEF Held, Counted, k
  <2>5. Len(r.boot) = Len(s.boot) /\ Cardinality(TablesOf(r)) = Cardinality(TablesOf(s))
    BY <1>2, <1>7
  <2> DEFINE n == Len(s.boot)
             t == Cardinality(TablesOf(s))
             o == Cardinality(out)
             f == s.pmm_free_memory
             all == Cardinality(Pages)
  <2>6. k \in Nat /\ n \in Nat /\ t \in Nat /\ o \in Nat /\ all \in Nat /\ n + k + t + o = all /\ f = n + k
    BY <1>1, <2>1, <2>3, <2>4, Constants
  <2> HIDE DEF n, t, o, f, all
  <2>7. n + (k + 1) + t + (o - 1) = all /\ f + 1 = n + (k + 1)
    BY <2>6
  <2>8. QED
    BY <1>2, <2>2, <2>5, <2>7 DEF Counted, n, t, o, f, all
<1>11. Held(r, less)
  BY <1>2, <1>3, <1>9, <1>10 DEF Held
<1>12. QED
  BY <1>7, <1>8, <1>11 DEF less

\* "*pmm_stack_top++ = page" below a page boundary.
LEMMA PushBelow ==
  ASSUME NEW s, NEW out \in SUBSET Pages, Held(s, out), NEW page \in out,
         s.top < SLOTS * TABLE_SPAN, s.top % SLOTS # 0
  PROVE  s.tables[0] # NOPAGE /\ Pushed(s, push(s, page), page)
<1> DEFINE k == s.top
           v == k \div SLOTS
           f == s.pte[v]
           r == [s EXCEPT !.mem[f][k % SLOTS] = page, !.top = k + 1,
                          !.pmm_free_memory = s.pmm_free_memory + 1]
<1>1. /\ s \in State /\ k \in Nat /\ SLOTS \in Nat \ {0} /\ k < SLOTS * TABLE_SPAN
      /\ page \in Pages /\ NOPAGE \notin Pages /\ s.status = "up" /\ s.pmm_free_memory \in Nat
      /\ s.mem \in [Pages -> [0..(SLOTS - 1) -> Entry]]
  BY StateFacts, StackFits, Constants DEF Held
<1>2. /\ k = v * SLOTS + (k % SLOTS) /\ v \in StackPages \ {TABLE_SPAN} /\ v \in Nat
      /\ k % SLOTS \in 0..(SLOTS - 1)
  BY <1>1, InFirstTable, DivFacts
<1>3. k # 0
  <2>1. SUFFICES ASSUME k = 0 PROVE FALSE
    OBVIOUS
  <2>2. 0 * SLOTS = 0 /\ 0 \in Nat
    BY <1>1
  <2>3. k % SLOTS = 0
    BY <1>1, <2>1, <2>2, SlotOf
  <2>4. QED
    BY <2>3
<1>4. v * SLOTS \in 0..(k - 1) /\ v * SLOTS < k
  <2> DEFINE a == v * SLOTS
             x == k % SLOTS
  <2> HIDE DEF v
  <2>1. a \in Nat
    BY <1>1, <1>2, SlotOf
  <2>2. x \in Nat /\ x # 0 /\ k = a + x
    BY <1>2
  <2> HIDE DEF a, x
  <2>3. a \in 0..(k - 1) /\ a < k
    BY <2>1, <2>2
  <2>4. QED
    BY <2>3 DEF a
<1> HIDE DEF v
<1>5. f = slot(s, v * SLOTS) /\ f \in Pages /\ f # NOPAGE /\ s.tlb[v] \in {NOPAGE, f}
  <2>1. /\ s.pte[v] = IF v * SLOTS < k THEN slot(s, v * SLOTS) ELSE NOPAGE
        /\ slot(s, v * SLOTS) \in Pages
        /\ s.pte[v] # NOPAGE => s.tlb[v] \in {NOPAGE, s.pte[v]}
    BY <1>2, <1>4 DEF Held, Stored
  <2>2. QED
    BY <2>1, <1>1, <1>4
<1>6. frame(s, v) = f
  BY <1>5 DEF frame
<1>7. push(s, page) = r
  BY <1>5, <1>6 DEF push, v
<1> HIDE DEF f, k
<1>8. /\ r.mem = [s.mem EXCEPT ![f][k % SLOTS] = page]
      /\ r.top = k + 1 /\ r.pmm_free_memory = s.pmm_free_memory + 1
      /\ r.status = "up" /\ r.boot = s.boot /\ r.tables = s.tables
      /\ r.pte = s.pte /\ r.tlb = s.tlb
  BY <1>1 DEF State
<1>9. r.mem \in [Pages -> [0..(SLOTS - 1) -> Entry]]
  <2> DEFINE g == [s.mem[f] EXCEPT ![k % SLOTS] = page]
  <2>1. page \in Entry /\ s.mem[f] \in [0..(SLOTS - 1) -> Entry]
    BY <1>1, <1>5 DEF Entry
  <2>2. g \in [0..(SLOTS - 1) -> Entry]
    BY <2>1
  <2>3. r.mem = [s.mem EXCEPT ![f] = g]
    BY <1>8
  <2> HIDE DEF g, r
  <2>4. QED
    BY <1>1, <2>2, <2>3
<1>10. r \in State
  <2>1. r = [s EXCEPT !.mem = r.mem, !.top = r.top, !.pmm_free_memory = r.pmm_free_memory]
    BY <1>1 DEF State
  <2>2. r.top \in Nat /\ r.pmm_free_memory \in Nat
    BY <1>1, <1>8
  <2> HIDE DEF r
  <2>3. QED
    BY <2>1, <2>2, <1>1, <1>9 DEF State
<1> HIDE DEF r
<1>11. Pushed(s, r, page)
  BY <1>8, <1>10 DEF Pushed, f, k, v
<1>12. s.tables[0] # NOPAGE
  BY <1>3 DEF Held, Stored, k
<1>13. QED
  BY <1>7, <1>11, <1>12

\* A new stack page: mapped to the page that is freed, which it then records first.
LEMMA PushAtStart ==
  ASSUME NEW s, NEW out \in SUBSET Pages, Held(s, out), NEW page \in out,
         s.top < SLOTS * TABLE_SPAN, s.top % SLOTS = 0
  PROVE  LET v == s.top \div SLOTS
             q == [s EXCEPT !.pte[v] = page, !.tlb[v] = NOPAGE]
         IN  s.pte[v] = NOPAGE /\ q.status = "up" /\ Pushed(s, push(q, page), page)
<1> DEFINE k == s.top
           v == k \div SLOTS
           q == [s EXCEPT !.pte[v] = page, !.tlb[v] = NOPAGE]
           r == [q EXCEPT !.mem[page][k % SLOTS] = page, !.top = k + 1,
                          !.pmm_free_memory = s.pmm_free_memory + 1]
<1>1. /\ s \in State /\ k \in Nat /\ SLOTS \in Nat \ {0} /\ k < SLOTS * TABLE_SPAN
      /\ page \in Pages /\ NOPAGE \notin Pages /\ s.status = "up" /\ s.pmm_free_memory \in Nat
      /\ s.mem \in [Pages -> [0..(SLOTS - 1) -> Entry]]
      /\ s.pte \in [StackPages -> Entry] /\ s.tlb \in [StackPages -> Entry]
  BY StateFacts, StackFits, Constants DEF Held
<1>2. /\ k = v * SLOTS + (k % SLOTS) /\ v \in StackPages \ {TABLE_SPAN} /\ v \in Nat
      /\ k % SLOTS \in 0..(SLOTS - 1)
  BY <1>1, InFirstTable, DivFacts
<1>3. v * SLOTS = k
  <2> HIDE DEF v
  <2>1. v * SLOTS \in Nat
    BY <1>1, <1>2, SlotOf
  <2>2. k = v * SLOTS + 0
    BY <1>2
  <2>3. QED
    BY <2>1, <2>2
<1> HIDE DEF v
<1>4. s.pte[v] = NOPAGE
  <2>1. s.pte[v] = IF v * SLOTS < k THEN slot(s, v * SLOTS) ELSE NOPAGE
    BY <1>2 DEF Held, Stored
  <2>2. ~ (k < k)
    BY <1>1
  <2>3. QED
    BY <2>1, <2>2, <1>3
<1>5. q.pte = [s.pte EXCEPT ![v] = page]
  BY <1>1 DEF State
<1>6. q.tlb = [s.tlb EXCEPT ![v] = NOPAGE]
  <2> DEFINE p == [s EXCEPT !.pte[v] = page]
  <2>1. q = [p EXCEPT !.tlb[v] = NOPAGE]
    OBVIOUS
  <2>2. p.tlb = s.tlb /\ DOMAIN p = DOMAIN s /\ "tlb" \in DOMAIN s
    BY <1>1 DEF State
  <2> HIDE DEF p, q
  <2>3. QED
    BY <2>1, <2>2
<1>7. /\ q.mem = s.mem /\ q.top = k /\ q.pmm_free_memory = s.pmm_free_memory
      /\ q.status = "up" /\ q.boot = s.boot /\ q.tables = s.tables
  BY <1>1 DEF State
<1>8. q \in State
  <2>1. q.pte \in [StackPages -> Entry] /\ q.tlb \in [StackPages -> Entry]
    BY <1>1, <1>2, <1>5, <1>6, ZenonT(40) DEF Entry
  <2>2. q = [s EXCEPT !.pte = q.pte, !.tlb = q.tlb]
    BY <1>1 DEF State
  <2> HIDE DEF q
  <2>3. QED
    BY <2>1, <2>2, <1>1 DEF State
<1> HIDE DEF q
<1>9. q.pte[v] = page /\ q.tlb[v] = NOPAGE
  BY <1>1, <1>2, <1>5, <1>6
<1>10. frame(q, q.top \div SLOTS) = page
  BY <1>7, <1>9 DEF frame, v
<1>11. push(q, page) = r
  BY <1>1, <1>7, <1>10 DEF push
<1>12. /\ r.mem = [s.mem EXCEPT ![page][k % SLOTS] = page]
       /\ r.top = k + 1 /\ r.pmm_free_memory = s.pmm_free_memory + 1
       /\ r.status = "up" /\ r.boot = s.boot /\ r.tables = s.tables
       /\ r.pte = q.pte /\ r.tlb = q.tlb
  BY <1>7, <1>8 DEF State
<1>13. r.mem \in [Pages -> [0..(SLOTS - 1) -> Entry]]
  <2> DEFINE g == [s.mem[page] EXCEPT ![k % SLOTS] = page]
  <2>1. page \in Entry /\ s.mem[page] \in [0..(SLOTS - 1) -> Entry]
    BY <1>1 DEF Entry
  <2>2. g \in [0..(SLOTS - 1) -> Entry]
    BY <2>1
  <2>3. r.mem = [s.mem EXCEPT ![page] = g]
    BY <1>12
  <2> HIDE DEF g, r
  <2>4. QED
    BY <1>1, <2>2, <2>3
<1>14. r \in State
  <2>1. r = [q EXCEPT !.mem = r.mem, !.top = r.top, !.pmm_free_memory = r.pmm_free_memory]
    BY <1>8 DEF State
  <2>2. r.top \in Nat /\ r.pmm_free_memory \in Nat
    BY <1>1, <1>12
  <2> HIDE DEF r
  <2>3. QED
    BY <2>1, <2>2, <1>8, <1>13 DEF State
<1> HIDE DEF r, k
<1>15. \A w \in StackPages :
         IF w = v THEN r.pte[w] = page /\ r.tlb[w] = NOPAGE
         ELSE r.pte[w] = s.pte[w] /\ r.tlb[w] = s.tlb[w]
  <2>1. \A w \in StackPages : w # v => q.pte[w] = s.pte[w] /\ q.tlb[w] = s.tlb[w]
    BY <1>1, <1>5, <1>6
  <2>2. QED
    BY <2>1, <1>9, <1>12
<1>16. r.pte[v] = page
  BY <1>9, <1>12
<1>17. k % SLOTS = 0
  BY DEF k
<1>18. Pushed(s, r, page)
  BY <1>12, <1>14, <1>15, <1>16, <1>17 DEF Pushed, k, v
<1>19. QED
  BY <1>4, <1>7, <1>11, <1>18 DEF k, v, q

\* The first page table of the stack: it is the allocator's from now on.
LEMMA TableStep ==
  ASSUME NEW a, NEW out \in SUBSET Pages, a.page \in Pages, a.page \notin out,
         Held(a, out \cup {a.page}), a.top = 0, a.tables[0] = NOPAGE
  PROVE  LET r == add_table(a, 0)
         IN  /\ Held(r, out) /\ r.top = 0 /\ r.tables[0] = a.page
             /\ FreeOf(r) = FreeOf(a) /\ TablesOf(r) = {a.page}
<1> DEFINE p == a.page
           r == add_table(a, 0)
           more == out \cup {p}
<1>1. /\ a \in State /\ a.status = "up" /\ a.top = 0 /\ SLOTS \in Nat \ {0} /\ TABLES \in Nat \ {0}
      /\ p \in Pages /\ NOPAGE \notin Pages
      /\ a.mem \in [Pages -> [0..(SLOTS - 1) -> Entry]]
      /\ a.pte \in [StackPages -> Entry] /\ a.tables \in [0..(TABLES - 1) -> Entry]
  BY StateFacts, Constants DEF Held
<1>2. \A w \in StackPages : w * SLOTS \in Nat /\ a.pte[w] = NOPAGE
  <2> SUFFICES ASSUME NEW w \in StackPages
               PROVE  w * SLOTS \in Nat /\ a.pte[w] = NOPAGE
    OBVIOUS
  <2>1. w \in Nat
    BY DEF StackPages
  <2>2. w * SLOTS \in Nat
    BY <1>1, <2>1, SlotOf
  <2>3. CASE w = TABLE_SPAN
    <3>1. ~ Second(a)
      BY <1>1, TablesAre DEF Held
    <3>2. QED
      BY <2>2, <2>3, <3>1 DEF Held, Stored
  <2>4. CASE w # TABLE_SPAN
    <3>1. a.pte[w] = IF w * SLOTS < a.top THEN slot(a, w * SLOTS) ELSE NOPAGE
      BY <2>4 DEF Held, Stored
    <3>2. QED
      BY <1>1, <2>2, <3>1
  <2>5. QED
    BY <2>3, <2>4
<1>3. /\ r.tables = [a.tables EXCEPT ![0] = p] /\ r.mem = [a.mem EXCEPT ![p] = zeros]
      /\ r.pte = [v \in StackPages |-> IF v \div TABLE_SPAN = 0 THEN NOPAGE ELSE a.pte[v]]
      /\ r.boot = a.boot /\ r.top = 0 /\ r.status = "up" /\ r.tlb = a.tlb
      /\ r.pmm_free_memory = a.pmm_free_memory /\ r.page = a.page
  BY <1>1 DEF add_table, State
<1>4. r.pte = [v \in StackPages |-> NOPAGE] /\ r.pte \in [StackPages -> Entry]
  BY <1>2, <1>3 DEF Entry
<1>5. r.tables \in [0..(TABLES - 1) -> Entry] /\ r.mem \in [Pages -> [0..(SLOTS - 1) -> Entry]]
  <2>1. zeros \in [0..(SLOTS - 1) -> Entry]
    BY DEF zeros, Entry
  <2>2. p \in Entry
    BY <1>1 DEF Entry
  <2> HIDE DEF r, p
  <2>3. r.mem \in [Pages -> [0..(SLOTS - 1) -> Entry]]
    BY <1>1, <1>3, <2>1
  <2>4. r.tables \in [0..(TABLES - 1) -> Entry]
    BY <1>1, <1>3, <2>2
  <2>5. QED
    BY <2>3, <2>4
<1>6. r \in State
  <2>1. r = [a EXCEPT !.tables = r.tables, !.mem = r.mem, !.pte = r.pte]
    BY <1>1 DEF add_table, State
  <2> HIDE DEF r
  <2>2. QED
    BY <2>1, <1>1, <1>4, <1>5 DEF State
<1> HIDE DEF r
<1>7. /\ r.tables[0] = p
      /\ \A i \in 1..(TABLES - 1) : r.tables[i] = NOPAGE
      /\ ~ Second(r)
  <2>1. ~ Second(a) /\ \A i \in 2..(TABLES - 1) : a.tables[i] = NOPAGE
    BY <1>1, TablesAre DEF Held, Stored
  <2>2. \A i \in 1..(TABLES - 1) : i = 1 \/ i \in 2..(TABLES - 1)
    BY <1>1
  <2>3. \A i \in 1..(TABLES - 1) : a.tables[i] = NOPAGE /\ i # 0 /\ i \in 0..(TABLES - 1)
    BY <1>1, <2>1, <2>2 DEF Second
  <2>4. \A i \in 1..(TABLES - 1) : r.tables[i] = NOPAGE
    BY <1>1, <1>3, <2>3
  <2>5. r.tables[0] = p
    BY <1>1, <1>3
  <2>6. 1 \in DOMAIN r.tables => 1 \in 1..(TABLES - 1)
    BY <1>1, <1>3
  <2>7. QED
    BY <2>4, <2>5, <2>6 DEF Second
<1>8. Stored(r)
  <2>1. \A w \in StackPages : r.pte[w] = NOPAGE /\ ~ (w * SLOTS < r.top)
    BY <1>2, <1>3, <1>4
  <2>2. \A k \in 0..(r.top - 1) : FALSE
    BY <1>3
  <2>3. r.top <= SLOTS * TABLE_SPAN
    BY <1>3, Constants
  <2>4. \A i \in 2..(TABLES - 1) : r.tables[i] = NOPAGE
    BY <1>1, <1>7
  <2>5. QED
    BY <2>1, <2>2, <2>3, <2>4, <1>3, <1>7 DEF Stored
<1>9. TablesOf(r) = {p} /\ TablesOf(a) = {}
  <2>1. DOMAIN r.tables = 0..(TABLES - 1) /\ \A i \in 0..(TABLES - 1) : i = 0 \/ i \in 1..(TABLES - 1)
    BY <1>1, <1>3
  <2>2. TablesOf(r) = {p}
    BY <2>1, <1>1, <1>7 DEF TablesOf
  <2>3. TablesOf(a) = {}
    BY <1>1, TablesAre DEF Held
  <2>4. QED
    BY <2>2, <2>3
<1>10. BootOf(r) = BootOf(a) /\ StackOf(r) = {} /\ StackOf(a) = {} /\ FreeOf(r) = FreeOf(a)
  <2>1. BootOf(r) = BootOf(a)
    BY <1>3 DEF BootOf
  <2>2. 0..(r.top - 1) = {} /\ 0..(a.top - 1) = {}
    BY <1>1, <1>3
  <2>3. StackOf(r) = {} /\ StackOf(a) = {}
    BY <2>2 DEF StackOf
  <2>4. QED
    BY <2>1, <2>3 DEF FreeOf
<1>11. /\ FreeOf(a) \cap more = {} /\ FreeOf(a) \cup more = Pages
       /\ \A i, j \in DOMAIN a.boot : a.boot[i] = a.boot[j] => i = j
  BY <1>9 DEF Held, Apart
<1>12. Apart(r, out)
  <2>1. \A i, j \in 0..(r.top - 1) : slot(r, i) = slot(r, j) => i = j
    BY <1>3
  <2>2. \A i, j \in DOMAIN r.boot : r.boot[i] = r.boot[j] => i = j
    BY <1>3, <1>11
  <2>3. /\ BootOf(r) \cap StackOf(r) = {} /\ FreeOf(r) \cap TablesOf(r) = {}
        /\ (FreeOf(r) \cup TablesOf(r)) \cap out = {}
        /\ FreeOf(r) \cup TablesOf(r) \cup out = Pages
    BY <1>9, <1>10, <1>11
  <2>4. QED
    BY <2>1, <2>2, <2>3 DEF Apart
<1>13. Counted(r, out)
  <2>1. IsFiniteSet(out)
    BY Constants, FS_Subset
  <2>2. Cardinality(more) = Cardinality(out) + 1 /\ Cardinality(out) \in Nat
    BY <2>1, FS_AddElement, FS_CardinalityType
  <2>3. Cardinality({p}) = 1 /\ Cardinality({}) = 0
    BY FS_Singleton, FS_EmptySet
  <2>4. Len(a.boot) \in Nat
    BY <1>1, StateFacts
  <2>5. /\ Len(a.boot) + a.top + Cardinality(TablesOf(a)) + Cardinality(more) = Cardinality(Pages)
        /\ a.pmm_free_memory = Len(a.boot) + a.top
    BY DEF Held, Counted
  <2> DEFINE n == Len(a.boot)
             o == Cardinality(out)
  <2>6. n \in Nat /\ o \in Nat /\ n + 0 + 0 + (o + 1) = Cardinality(Pages)
    BY <2>2, <2>3, <2>4, <2>5, <1>1, <1>9
  <2> HIDE DEF n, o
  <2>7. n + 0 + 1 + o = Cardinality(Pages)
    BY <2>6
  <2>8. QED
    BY <2>3, <2>5, <2>7, <1>1, <1>3, <1>9 DEF Counted, n, o
<1>14. Held(r, out)
  BY <1>3, <1>6, <1>8, <1>12, <1>13 DEF Held
<1>15. QED
  BY <1>3, <1>7, <1>9, <1>10, <1>14 DEF r

\* The second page table of the stack.  Nothing was mapped through it yet, so clearing it
\* changes no mapping; the page it was needed for is then mapped where no entry will be.
LEMMA SecondTableStep ==
  ASSUME NEW a, NEW out \in SUBSET Pages, a.page \in Pages, a.page \notin out,
         Held(a, out \cup {a.page}), a.tables[0] # NOPAGE,
         1 \in DOMAIN a.tables, a.tables[1] = NOPAGE, TABLE_SPAN \in StackPages, ~ OneTable,
         NEW page \in Pages
  PROVE  LET b == add_table(a, 1)
             c == [b EXCEPT !.pte[TABLE_SPAN] = page, !.tlb[TABLE_SPAN] = NOPAGE]
         IN  /\ b.status = "up" /\ b.pte[TABLE_SPAN] = NOPAGE
             /\ Held(c, out) /\ c.top = a.top
             /\ FreeOf(c) = FreeOf(a) /\ TablesOf(c) = TablesOf(a) \cup {a.page}
<1> DEFINE p == a.page
           b == add_table(a, 1)
           c == [b EXCEPT !.pte[TABLE_SPAN] = page, !.tlb[TABLE_SPAN] = NOPAGE]
           more == out \cup {p}
<1>1. /\ a \in State /\ a.status = "up" /\ SLOTS \in Nat \ {0} /\ TABLES \in Nat \ {0}
      /\ TABLE_SPAN \in Nat \ {0} /\ a.top \in Nat /\ a.top <= SLOTS * TABLE_SPAN
      /\ p \in Pages /\ NOPAGE \notin Pages /\ ~ Second(a) /\ DOMAIN a.tables = 0..(TABLES - 1)
      /\ a.mem \in [Pages -> [0..(SLOTS - 1) -> Entry]]
      /\ a.pte \in [StackPages -> Entry] /\ a.tlb \in [StackPages -> Entry]
      /\ a.tables \in [0..(TABLES - 1) -> Entry]
  BY StateFacts, Constants, StackFits DEF Held, Stored, Second
<1>2. \A w \in StackPages : w \div TABLE_SPAN = 1 => a.pte[w] = NOPAGE
  <2> SUFFICES ASSUME NEW w \in StackPages, w \div TABLE_SPAN = 1
               PROVE  a.pte[w] = NOPAGE
    OBVIOUS
  <2>1. w \in Nat
    BY DEF StackPages
  <2>2. w >= TABLE_SPAN
    <3>1. w = (w \div TABLE_SPAN) * TABLE_SPAN + (w % TABLE_SPAN) /\ w % TABLE_SPAN \in Nat
      BY <1>1, <2>1, DivFacts
    <3>2. QED
      BY <3>1, <1>1
  <2>3. CASE w = TABLE_SPAN
    BY <2>3, <1>1 DEF Held, Stored
  <2>4. CASE w # TABLE_SPAN
    <3>1. TABLE_SPAN * SLOTS + SLOTS <= w * SLOTS
      <4>1. TABLE_SPAN \in Int /\ w \in Int /\ TABLE_SPAN < w
        BY <2>1, <2>2, <2>4, <1>1
      <4>2. SLOTS \in Nat \ {0}
        BY <1>1
      <4>3. QED
        BY <4>1, <4>2, MultiplesApart
    <3>2. TABLE_SPAN * SLOTS = SLOTS * TABLE_SPAN /\ w * SLOTS \in Nat /\ TABLE_SPAN * SLOTS \in Nat
      BY <1>1, <2>1
    <3>3. ~ (w * SLOTS < a.top)
      <4> DEFINE x == w * SLOTS
                 most == SLOTS * TABLE_SPAN
      <4>1. x \in Nat /\ most \in Nat /\ most + SLOTS <= x /\ a.top <= most
        BY <3>1, <3>2, <1>1
      <4> HIDE DEF x, most
      <4>2. ~ (x < a.top)
        BY <4>1, <1>1
      <4>3. QED
        BY <4>2 DEF x
    <3>4. a.pte[w] = IF w * SLOTS < a.top THEN slot(a, w * SLOTS) ELSE NOPAGE
      BY <2>4 DEF Held, Stored
    <3>5. QED
      BY <3>3, <3>4
  <2>5. QED
    BY <2>3, <2>4
<1>3. /\ b.tables = [a.tables EXCEPT ![1] = p] /\ b.mem = [a.mem EXCEPT ![p] = zeros]
      /\ b.pte = [v \in StackPages |-> IF v \div TABLE_SPAN = 1 THEN NOPAGE ELSE a.pte[v]]
      /\ b.boot = a.boot /\ b.top = a.top /\ b.status = "up" /\ b.tlb = a.tlb
      /\ b.pmm_free_memory = a.pmm_free_memory /\ b.page = a.page
  BY <1>1 DEF add_table, State
<1>4. b.pte = a.pte
  <2> DEFINE e == b.pte
  <2>1. e = [v \in StackPages |-> IF v \div TABLE_SPAN = 1 THEN NOPAGE ELSE a.pte[v]]
    BY <1>3
  <2>2. \A v \in StackPages : (IF v \div TABLE_SPAN = 1 THEN NOPAGE ELSE a.pte[v]) = a.pte[v]
    BY <1>2
  <2> HIDE DEF e
  <2>3. e = [v \in StackPages |-> a.pte[v]]
    BY <2>1, <2>2
  <2>4. QED
    BY <2>3, <1>1 DEF e
<1>5. b.tables \in [0..(TABLES - 1) -> Entry] /\ b.mem \in [Pages -> [0..(SLOTS - 1) -> Entry]]
  <2>1. zeros \in [0..(SLOTS - 1) -> Entry] /\ p \in Entry
    BY <1>1 DEF zeros, Entry
  <2> HIDE DEF b, p
  <2>2. QED
    BY <1>1, <1>3, <2>1
<1>6. b \in State
  <2>1. b = [a EXCEPT !.tables = b.tables, !.mem = b.mem, !.pte = b.pte]
    BY <1>1 DEF add_table, State
  <2> HIDE DEF b
  <2>2. QED
    BY <2>1, <1>1, <1>4, <1>5 DEF State
<1> HIDE DEF b
<1>7. b.pte[TABLE_SPAN] = NOPAGE
  BY <1>1, <1>4 DEF Held, Stored
<1>8. c.pte = [a.pte EXCEPT ![TABLE_SPAN] = page] /\ c.tlb = [a.tlb EXCEPT ![TABLE_SPAN] = NOPAGE]
  <2> DEFINE d == [b EXCEPT !.pte[TABLE_SPAN] = page]
  <2>1. c = [d EXCEPT !.tlb[TABLE_SPAN] = NOPAGE]
    OBVIOUS
  <2>2. d.tlb = b.tlb /\ DOMAIN d = DOMAIN b /\ "tlb" \in DOMAIN b
    BY <1>6 DEF State
  <2>3. c.pte = [b.pte EXCEPT ![TABLE_SPAN] = page]
    BY <1>6 DEF State
  <2> HIDE DEF d, c
  <2>4. c.tlb = [b.tlb EXCEPT ![TABLE_SPAN] = NOPAGE]
    BY <2>1, <2>2
  <2>5. QED
    BY <2>3, <2>4, <1>3, <1>4
<1>9. /\ c.tables = b.tables /\ c.mem = b.mem /\ c.boot = a.boot /\ c.top = a.top
      /\ c.status = "up" /\ c.pmm_free_memory = a.pmm_free_memory
  BY <1>3, <1>6 DEF State
<1>10. c \in State
  <2>1. c = [b EXCEPT !.pte = c.pte, !.tlb = c.tlb]
    BY <1>6 DEF State
  <2> HIDE DEF c
  <2>2. page \in Entry /\ NOPAGE \in Entry
    BY DEF Entry
  <2>3. c.pte \in [StackPages -> Entry] /\ c.tlb \in [StackPages -> Entry]
    BY <2>2, <1>1, <1>8
  <2>4. QED
    BY <2>1, <2>3, <1>6 DEF State
<1> HIDE DEF c
<1>11. /\ \A w \in StackPages \ {TABLE_SPAN} : c.pte[w] = a.pte[w] /\ c.tlb[w] = a.tlb[w]
       /\ c.pte[TABLE_SPAN] = page /\ c.tlb[TABLE_SPAN] = NOPAGE
  BY <1>1, <1>8
<1>12. p \notin FreeOf(a) /\ p \notin TablesOf(a)
  BY DEF Held, Apart
<1>13. ASSUME NEW k \in 0..(a.top - 1)
       PROVE  slot(c, k) = slot(a, k)
  <2>1. /\ a.pte[k \div SLOTS] = slot(a, (k \div SLOTS) * SLOTS)
        /\ (k \div SLOTS) * SLOTS \in 0..k /\ a.pte[k \div SLOTS] \in Pages
    BY Reached
  <2>2. (k \div SLOTS) * SLOTS \in 0..(a.top - 1)
    BY <1>1, <2>1
  <2>3. a.pte[k \div SLOTS] \in FreeOf(a)
    BY <2>1, <2>2 DEF FreeOf, StackOf
  <2>4. k \div SLOTS \in StackPages \ {TABLE_SPAN}
    BY StackFits, InFirstTable
  <2>5. c.mem[a.pte[k \div SLOTS]] = a.mem[a.pte[k \div SLOTS]]
    <3> DEFINE g == a.pte[k \div SLOTS]
    <3>1. g \in Pages /\ g # p
      BY <1>12, <2>1, <2>3
    <3>2. c.mem = [a.mem EXCEPT ![p] = zeros]
      BY <1>3, <1>9
    <3> HIDE DEF g, p
    <3>3. c.mem[g] = a.mem[g]
      BY <3>1, <3>2, <1>1
    <3>4. QED
      BY <3>3 DEF g
  <2>6. QED
    BY <2>4, <2>5, <1>11 DEF slot
<1>14. /\ \A i \in 2..(TABLES - 1) : c.tables[i] = NOPAGE
       /\ c.tables[0] = a.tables[0] /\ c.tables[1] = p /\ DOMAIN c.tables = 0..(TABLES - 1)
  <2> DEFINE t == a.tables
  <2>1. \A i \in 2..(TABLES - 1) : t[i] = NOPAGE
    BY <1>1 DEF Held, Stored
  <2>2. \A i \in 2..(TABLES - 1) : i \in 0..(TABLES - 1) /\ i # 1
    BY <1>1
  <2>3. 0 \in 0..(TABLES - 1) /\ 1 \in 0..(TABLES - 1)
    BY <1>1
  <2>4. c.tables = [t EXCEPT ![1] = p] /\ DOMAIN t = 0..(TABLES - 1)
    BY <1>1, <1>3, <1>9
  <2> HIDE DEF t, p
  <2>5. /\ DOMAIN c.tables = 0..(TABLES - 1) /\ c.tables[1] = p
        /\ \A i \in 0..(TABLES - 1) : i # 1 => c.tables[i] = t[i]
    BY <2>3, <2>4
  <2>6. \A i \in 2..(TABLES - 1) : c.tables[i] = NOPAGE
    BY <2>1, <2>2, <2>5
  <2>7. c.tables[0] = t[0]
    BY <2>3, <2>5
  <2>8. QED
    BY <2>5, <2>6, <2>7 DEF t
<1>15. TablesOf(c) = TablesOf(a) \cup {p}
  <2>1. c.tables = [a.tables EXCEPT ![1] = p] /\ DOMAIN c.tables = DOMAIN a.tables
    BY <1>1, <1>3, <1>9
  <2>2. a.tables[1] = NOPAGE /\ 1 \in DOMAIN a.tables /\ p # NOPAGE
    BY <1>1
  <2>3. \A i \in DOMAIN a.tables : c.tables[i] = IF i = 1 THEN p ELSE a.tables[i]
    BY <2>1, <1>1
  <2> HIDE DEF p, c
  <2>4. \A x : x \in TablesOf(c) <=> x \in TablesOf(a) \cup {p}
    BY <2>1, <2>2, <2>3 DEF TablesOf
  <2>5. QED
    BY <2>4
<1>16. Second(c) /\ c.tables[0] \notin {NOPAGE, c.tables[1]}
  <2>1. a.tables[0] \in TablesOf(a)
    BY <1>1, SMTT(40) DEF TablesOf
  <2>2. QED
    BY <2>1, <1>1, <1>12, <1>14 DEF Second
<1>17. Stored(c)
  <2>1. ASSUME NEW w \in StackPages \ {TABLE_SPAN}
        PROVE  c.pte[w] = IF w * SLOTS < c.top THEN slot(c, w * SLOTS) ELSE NOPAGE
    <3>1. w * SLOTS \in Nat
      BY Constants DEF StackPages
    <3>2. w * SLOTS < a.top => w * SLOTS \in 0..(a.top - 1)
      BY <1>1, <3>1
    <3>3. a.pte[w] = IF w * SLOTS < a.top THEN slot(a, w * SLOTS) ELSE NOPAGE
      BY DEF Held, Stored
    <3>4. QED
      BY <1>9, <1>11, <1>13, <3>2, <3>3
  <2>2. \A w \in StackPages : c.pte[w] # NOPAGE => c.tlb[w] \in {NOPAGE, c.pte[w]}
    BY <1>11 DEF Held, Stored
  <2>3. \A k \in 0..(c.top - 1) : slot(c, k) \in Pages
    BY <1>9, <1>13 DEF Held, Stored
  <2>4. c.pte[TABLE_SPAN] # NOPAGE
    BY <1>1, <1>11
  <2>5. c.top <= SLOTS * TABLE_SPAN
    BY <1>1, <1>9
  <2>6. QED
    BY <2>1, <2>2, <2>3, <2>4, <2>5, <1>14, <1>16 DEF Stored
<1>18. BootOf(c) = BootOf(a) /\ StackOf(c) = StackOf(a) /\ FreeOf(c) = FreeOf(a)
  <2>1. BootOf(c) = BootOf(a) /\ StackOf(c) = StackOf(a)
    BY <1>9, <1>13 DEF BootOf, StackOf
  <2>2. QED
    BY <2>1 DEF FreeOf
<1>19. /\ \A j, k \in 0..(a.top - 1) : slot(a, j) = slot(a, k) => j = k
       /\ \A j, k \in DOMAIN a.boot : a.boot[j] = a.boot[k] => j = k
       /\ BootOf(a) \cap StackOf(a) = {} /\ FreeOf(a) \cap TablesOf(a) = {}
       /\ (FreeOf(a) \cup TablesOf(a)) \cap more = {}
       /\ FreeOf(a) \cup TablesOf(a) \cup more = Pages
  BY DEF Held, Apart
<1>20. Apart(c, out)
  <2>1. \A i, j \in 0..(c.top - 1) : slot(c, i) = slot(c, j) => i = j
    BY <1>9, <1>13, <1>19
  <2>2. \A i, j \in DOMAIN c.boot : c.boot[i] = c.boot[j] => i = j
    BY <1>9, <1>19
  <2>3. /\ BootOf(c) \cap StackOf(c) = {} /\ FreeOf(c) \cap TablesOf(c) = {}
        /\ (FreeOf(c) \cup TablesOf(c)) \cap out = {}
        /\ FreeOf(c) \cup TablesOf(c) \cup out = Pages
    BY <1>12, <1>15, <1>18, <1>19
  <2>4. QED
    BY <2>1, <2>2, <2>3 DEF Apart
<1>21. Counted(c, out)
  <2>1. IsFiniteSet(out) /\ IsFiniteSet(TablesOf(a)) /\ Cardinality(TablesOf(a)) \in Nat
    BY <1>1, Constants, FS_Subset, TablesAre DEF Held
  <2>2. Cardinality(more) = Cardinality(out) + 1 /\ Cardinality(out) \in Nat
    BY <2>1, FS_AddElement, FS_CardinalityType
  <2>3. Cardinality(TablesOf(c)) = Cardinality(TablesOf(a)) + 1
    BY <2>1, <1>12, <1>15, FS_AddElement
  <2>4. Len(a.boot) \in Nat /\ Len(c.boot) = Len(a.boot)
    BY <1>1, <1>9, StateFacts
  <2>5. /\ Len(a.boot) + a.top + Cardinality(TablesOf(a)) + Cardinality(more) = Cardinality(Pages)
        /\ a.pmm_free_memory = Len(a.boot) + a.top
    BY DEF Held, Counted
  <2> DEFINE n == Len(a.boot)
             o == Cardinality(out)
             t == Cardinality(TablesOf(a))
             h == a.top
  <2>6. n \in Nat /\ o \in Nat /\ t \in Nat /\ h \in Nat /\ n + h + t + (o + 1) = Cardinality(Pages)
    BY <2>1, <2>2, <2>4, <2>5, <1>1
  <2> HIDE DEF n, o, t, h
  <2>7. n + h + (t + 1) + o = Cardinality(Pages)
    BY <2>6
  <2>8. QED
    BY <2>3, <2>4, <2>5, <2>7, <1>9 DEF Counted, n, o, t, h
<1>22. Held(c, out)
  BY <1>9, <1>10, <1>17, <1>20, <1>21 DEF Held
<1>23. QED
  BY <1>3, <1>7, <1>9, <1>15, <1>18, <1>22 DEF b, c

\* What freeing a page does: it may cost a page for a table.
Returned(s, r, page, out) ==
  /\ Held(r, out \ {page})
  /\ \E new \in SUBSET FreeOf(s) :
       /\ \A t, u \in new : t = u
       /\ FreeOf(r) = (FreeOf(s) \ new) \cup {page}
       /\ TablesOf(r) = TablesOf(s) \cup new

\* Mapping and writing once the page table is there.
LEMMA MapStep ==
  ASSUME NEW s, NEW out \in SUBSET Pages, Held(s, out), NEW page \in out,
         s.top < SLOTS * TABLE_SPAN, s.top % SLOTS = 0, s.tables[0] # NOPAGE
  PROVE  LET v == s.top \div SLOTS
             q == [s EXCEPT !.pte[v] = page, !.tlb[v] = NOPAGE]
             r == push(q, page)
         IN  /\ s.pte[v] = NOPAGE /\ q.status = "up"
             /\ Held(r, out \ {page})
             /\ FreeOf(r) = FreeOf(s) \cup {page} /\ TablesOf(r) = TablesOf(s)
<1> DEFINE v == s.top \div SLOTS
           q == [s EXCEPT !.pte[v] = page, !.tlb[v] = NOPAGE]
           r == push(q, page)
<1>1. s.pte[v] = NOPAGE /\ q.status = "up" /\ Pushed(s, r, page)
  BY PushAtStart
<1> HIDE DEF q, r
<1>2. Held(r, out \ {page}) /\ FreeOf(r) = FreeOf(s) \cup {page} /\ TablesOf(r) = TablesOf(s)
  BY <1>1, PushStep
<1>3. QED
  BY <1>1, <1>2 DEF q, r

LEMMA FreeInFirstTable ==
  ASSUME NEW s, NEW out \in SUBSET Pages, Held(s, out), NEW page \in out,
         s.top < SLOTS * TABLE_SPAN
  PROVE  \/ Returned(s, pmm_free_page(s, page), page, out)
         \/ /\ s.top = 0 /\ s.boot = <<>>
            /\ pmm_free_page(s, page) = fatal(s, "out of memory")
<1> DEFINE v == s.top \div SLOTS
           r == pmm_free_page(s, page)
<1>1. s \in State /\ s.status = "up" /\ s.top \in Nat
  BY StateFacts DEF Held
<1>2. v \div TABLE_SPAN = 0
  BY <1>1, InFirstTable
<1>3. \A x : FreeOf(x) = FreeOf(s) \cup {page} /\ TablesOf(x) = TablesOf(s) /\ Held(x, out \ {page})
               => Returned(s, x, page, out)
  <2>1. {} \in SUBSET FreeOf(s) /\ \A t, u \in {} : t = u
    OBVIOUS
  <2>2. QED
    BY <2>1 DEF Returned
<1> HIDE DEF v
<1>4. CASE s.top % SLOTS # 0
  <2>1. r = push(s, page)
    BY <1>1, <1>4 DEF pmm_free_page
  <2>2. s.tables[0] # NOPAGE /\ Pushed(s, push(s, page), page)
    BY <1>4, PushBelow
  <2> HIDE DEF r
  <2>3. Held(r, out \ {page}) /\ FreeOf(r) = FreeOf(s) \cup {page} /\ TablesOf(r) = TablesOf(s)
    BY <2>1, <2>2, PushStep
  <2>4. QED
    BY <1>3, <2>3 DEF r
<1>5. CASE s.top % SLOTS = 0 /\ s.tables[0] # NOPAGE
  <2> DEFINE q == [s EXCEPT !.pte[v] = page, !.tlb[v] = NOPAGE]
  <2>1. /\ s.pte[v] = NOPAGE /\ q.status = "up"
        /\ Held(push(q, page), out \ {page})
        /\ FreeOf(push(q, page)) = FreeOf(s) \cup {page} /\ TablesOf(push(q, page)) = TablesOf(s)
    BY <1>5, MapStep DEF v
  <2>2. vmm_map_page(s, page, v) = q
    BY <1>1, <1>2, <1>5, <2>1 DEF vmm_map_page
  <2> HIDE DEF q
  <2>3. r = push(q, page)
    BY <1>5, <2>1, <2>2 DEF pmm_free_page, v
  <2>4. QED
    BY <1>3, <2>1, <2>3
<1>6. CASE s.top % SLOTS = 0 /\ s.tables[0] = NOPAGE
  <2> DEFINE a == pmm_alloc_page(s)
             p == a.page
             b == add_table(a, 0)
             q == [b EXCEPT !.pte[v] = page, !.tlb[v] = NOPAGE]
  <2>1. s.top = 0
    BY <1>1, <1>6 DEF Held, Stored
  <2>2. \/ Got(s, a, out)
        \/ /\ s.boot = <<>>
           /\ a = fatal(s, "out of memory")
    BY AllocStep
  <2>3. CASE s.boot = <<>> /\ a = fatal(s, "out of memory")
    <3>1. a.status = "out of memory"
      BY <2>3, <1>1 DEF fatal, State
    <3>2. vmm_map_page(s, page, v) = a
      BY <1>2, <1>6, <3>1 DEF vmm_map_page
    <3> HIDE DEF a
    <3>3. r = a
      BY <1>6, <3>1, <3>2 DEF pmm_free_page, v
    <3>4. QED
      BY <2>1, <2>3, <3>3
  <2>4. CASE Got(s, a, out)
    <3>1. /\ p \in FreeOf(s) /\ FreeOf(a) = FreeOf(s) \ {p} /\ TablesOf(a) = TablesOf(s)
          /\ a.tables = s.tables /\ Held(a, out \cup {p})
      BY <2>4 DEF Got
    <3>2. p \in Pages /\ p \notin out /\ TablesOf(s) = {}
      BY <3>1, <1>1, <1>6, TablesAre DEF Held, Apart
    <3>3. a.top = 0 /\ a.tables[0] = NOPAGE /\ a.status = "up"
      BY <3>1, <1>6 DEF Held, Stored
    <3> HIDE DEF a
    <3>4. /\ Held(b, out) /\ b.top = 0 /\ b.tables[0] = p
          /\ FreeOf(b) = FreeOf(a) /\ TablesOf(b) = {p}
      BY <3>1, <3>2, <3>3, TableStep
    <3>5. /\ b.status = "up" /\ b.tables[0] # NOPAGE /\ b.top % SLOTS = 0 /\ v = b.top \div SLOTS
          /\ b.top < SLOTS * TABLE_SPAN
      BY <3>2, <3>4, <2>1, <1>6, Constants DEF Held, v
    <3> HIDE DEF b
    <3>6. /\ b.pte[v] = NOPAGE /\ q.status = "up"
          /\ Held(push(q, page), out \ {page})
          /\ FreeOf(push(q, page)) = FreeOf(b) \cup {page}
          /\ TablesOf(push(q, page)) = TablesOf(b)
      BY <3>4, <3>5, MapStep, ZenonT(40)
    <3>7. vmm_map_page(s, page, v) = q
      BY <1>2, <1>6, <3>3, <3>5, <3>6, Zenon DEF vmm_map_page, a, b
    <3> HIDE DEF q
    <3>8. r = push(q, page)
      BY <1>6, <3>6, <3>7 DEF pmm_free_page, v
    <3> HIDE DEF r
    <3>9. /\ {p} \in SUBSET FreeOf(s)
          /\ FreeOf(r) = (FreeOf(s) \ {p}) \cup {page}
          /\ TablesOf(r) = TablesOf(s) \cup {p}
      BY <3>1, <3>2, <3>4, <3>6, <3>8
    <3>10. Held(r, out \ {page})
      BY <3>6, <3>8
    <3> HIDE DEF p
    <3>11. Returned(s, r, page, out)
      BY <3>9, <3>10 DEF Returned
    <3>12. QED
      BY <3>11 DEF r
  <2>5. QED
    BY <2>2, <2>3, <2>4
<1>7. QED
  BY <1>4, <1>5, <1>6

\* The stack fills what the first table maps: the page for the second table comes off the
\* stack, which makes room for the page that is freed below; the next time, the page mapped
\* for it is still there.
LEMMA FreeAtEnd ==
  ASSUME NEW s, NEW out \in SUBSET Pages, Held(s, out), NEW page \in out,
         s.top = SLOTS * TABLE_SPAN
  PROVE  \/ Returned(s, pmm_free_page(s, page), page, out)
         \/ /\ Cardinality(Pages) > SLOTS * TABLE_SPAN + 2
            /\ pmm_free_page(s, page) = fatal(s, "already there")
<1> DEFINE r == pmm_free_page(s, page)
           most == SLOTS * TABLE_SPAN
           last == TABLE_SPAN - 1
<1>1. /\ s \in State /\ s.status = "up" /\ s.top \in Nat /\ most \in Nat /\ s.top = most
      /\ SLOTS \in Nat \ {0} /\ SLOTS > 1 /\ TABLE_SPAN \in Nat \ {0} /\ TABLES \in Nat \ {0}
      /\ page \in Pages /\ Len(s.boot) \in Nat /\ DOMAIN s.tables = 0..(TABLES - 1)
      /\ Cardinality(Pages) \in Nat
  BY StateFacts, Constants DEF Held
<1>2. most = TABLE_SPAN * SLOTS
  BY <1>1
<1>3. s.top \div SLOTS = TABLE_SPAN /\ s.top % SLOTS = 0
  BY <1>1, <1>2, SlotOf
<1>4. TABLE_SPAN \div TABLE_SPAN = 1
  <2>1. (1 * TABLE_SPAN) \div TABLE_SPAN = 1
    BY <1>1, SlotOf
  <2>2. 1 * TABLE_SPAN = TABLE_SPAN
    BY <1>1
  <2>3. QED
    BY <2>1, <2>2
<1>5. most > 1 /\ (most - 1) % SLOTS # 0
  <2>1. last \in Nat /\ TABLE_SPAN * SLOTS = last * SLOTS + SLOTS /\ last * SLOTS \in Nat
    <3>1. last \in Nat
      BY <1>1
    <3>2. (last + 1) * SLOTS = last * SLOTS + SLOTS /\ last * SLOTS \in Nat
      BY <3>1, <1>1
    <3>3. last + 1 = TABLE_SPAN
      BY <1>1
    <3>4. QED
      BY <3>1, <3>2, <3>3
  <2> DEFINE x == last * SLOTS
  <2>2. x \in Nat /\ most = x + SLOTS
    BY <2>1, <1>2
  <2> HIDE DEF most, x
  <2>3. most - 1 \in Nat /\ x <= most - 1 /\ most - 1 < x + SLOTS /\ most > 1
    BY <2>2, <1>1
  <2>4. (most - 1) % SLOTS = (most - 1) - x
    <3>1. last * SLOTS <= most - 1 /\ most - 1 < last * SLOTS + SLOTS
      BY <2>3 DEF x
    <3> HIDE DEF last
    <3>2. (most - 1) % SLOTS = (most - 1) - last * SLOTS
      BY <2>1, <2>3, <3>1, <1>1, PageOf, ZenonT(40)
    <3>3. QED
      BY <3>2 DEF x
  <2>5. QED
    BY <2>2, <2>3, <2>4, <1>1
<1> HIDE DEF most, last
<1>6. s.tables[0] # NOPAGE /\ Stored(s)
  BY <1>1, <1>5, SMTT(40) DEF Held, Stored
<1>7. /\ Cardinality(Pages) > most + 1
      /\ Second(s) => Cardinality(Pages) > most + 2
  <2>1. IsFiniteSet(out) /\ Cardinality(out) \in Nat /\ Cardinality(out) # 0
    <3>1. IsFiniteSet(out) /\ Cardinality(out) \in Nat
      BY StackFits
    <3>2. QED
      BY <3>1, FS_EmptySet
  <2>2. Len(s.boot) + s.top + Cardinality(TablesOf(s)) + Cardinality(out) = Cardinality(Pages)
    BY DEF Held, Counted
  <2>3. /\ Cardinality(TablesOf(s)) \in Nat /\ Cardinality(TablesOf(s)) >= 1
        /\ Second(s) => Cardinality(TablesOf(s)) >= 2
    BY <1>1, <1>6, TablesAre
  <2> DEFINE n == Len(s.boot)
             o == Cardinality(out)
             t == Cardinality(TablesOf(s))
  <2>4. n \in Nat /\ o \in Nat /\ t \in Nat /\ o # 0 /\ t >= 1 /\ n + most + t + o = Cardinality(Pages)
    BY <2>1, <2>2, <2>3, <1>1
  <2>5. Second(s) => t >= 2
    BY <2>3
  <2> HIDE DEF n, o, t
  <2>6. QED
    BY <2>4, <2>5, <1>1
<1>8. ~ OneTable
  BY <1>1, <1>7 DEF OneTable, most
<1>9. 1 \in DOMAIN s.tables /\ TABLE_SPAN \in StackPages
  <2>1. TABLES > 1
    BY <1>8, Constants
  <2>2. 1 * TABLE_SPAN + TABLE_SPAN <= TABLES * TABLE_SPAN
    BY <2>1, <1>1, MultiplesApart
  <2>3. TABLE_SPAN * TABLES = TABLES * TABLE_SPAN /\ TABLES * TABLE_SPAN \in Nat
    BY <1>1
  <2> DEFINE x == TABLES * TABLE_SPAN
  <2>4. x \in Nat /\ TABLE_SPAN + TABLE_SPAN <= x /\ TABLE_SPAN * TABLES = x
    BY <2>2, <2>3, <1>1
  <2> HIDE DEF x
  <2>5. TABLE_SPAN \in 0..(x - 1)
    BY <2>4, <1>1
  <2>6. QED
    BY <2>1, <2>4, <2>5, <1>1 DEF StackPages
<1>10. CASE Second(s)
  <2>1. s.tables[1] # NOPAGE /\ s.pte[TABLE_SPAN] # NOPAGE
    BY <1>6, <1>9, <1>10 DEF Second, Stored
  <2>2. vmm_map_page(s, page, TABLE_SPAN) = fatal(s, "already there")
    BY <1>1, <1>4, <2>1 DEF vmm_map_page
  <2>3. fatal(s, "already there").status = "already there"
    BY <1>1 DEF fatal, State
  <2>4. r = fatal(s, "already there")
    BY <1>3, <2>2, <2>3 DEF pmm_free_page
  <2>5. QED
    BY <2>4, <1>7, <1>10 DEF most
<1>11. CASE ~ Second(s)
  <2> DEFINE a == pop(s)
             p == a.page
             b == add_table(a, 1)
             c == [b EXCEPT !.pte[TABLE_SPAN] = page, !.tlb[TABLE_SPAN] = NOPAGE]
  <2>1. s.tables[1] = NOPAGE /\ s.top # 0
    BY <1>1, <1>5, <1>9, <1>11 DEF Second
  <2>2. pmm_alloc_page(s) = a
    BY <2>1 DEF pmm_alloc_page
  <2>3. a.top = most - 1 /\ Got(s, a, out)
    BY <2>1, <1>1, PopFields, PopStep
  <2>4. /\ p \in FreeOf(s) /\ FreeOf(a) = FreeOf(s) \ {p} /\ TablesOf(a) = TablesOf(s)
        /\ a.tables = s.tables /\ Held(a, out \cup {p}) /\ a.status = "up"
    BY <2>3 DEF Got, Held
  <2>5. p \in Pages /\ p \notin out
    BY <2>4 DEF Held, Apart
  <2> HIDE DEF a
  <2>6. /\ b.status = "up" /\ b.pte[TABLE_SPAN] = NOPAGE
        /\ Held(c, out) /\ c.top = a.top
        /\ FreeOf(c) = FreeOf(a) /\ TablesOf(c) = TablesOf(a) \cup {p}
    BY <1>1, <1>6, <1>8, <1>9, <2>1, <2>4, <2>5, SecondTableStep
  <2>7. vmm_map_page(s, page, TABLE_SPAN) = c
    BY <1>4, <2>1, <2>2, <2>4, <2>6 DEF vmm_map_page
  <2>8. c.status = "up"
    BY <2>6 DEF Held
  <2> HIDE DEF b, c
  <2>9. r = push(c, page)
    BY <1>3, <2>7, <2>8 DEF pmm_free_page
  <2>10. c.top < SLOTS * TABLE_SPAN /\ c.top % SLOTS # 0
    BY <1>1, <1>5, <2>3, <2>6 DEF most
  <2> HIDE DEF r
  <2>11. /\ Held(r, out \ {page}) /\ FreeOf(r) = FreeOf(c) \cup {page}
         /\ TablesOf(r) = TablesOf(c)
    <3>1. c.tables[0] # NOPAGE /\ Pushed(c, r, page)
      BY <2>6, <2>9, <2>10, PushBelow
    <3>2. Held(c, out)
      BY <2>6
    <3>3. QED
      BY <3>1, <3>2, <2>10, PushStep
  <2>12. /\ {p} \in SUBSET FreeOf(s)
         /\ FreeOf(r) = (FreeOf(s) \ {p}) \cup {page}
         /\ TablesOf(r) = TablesOf(s) \cup {p}
    BY <2>4, <2>6, <2>11
  <2> HIDE DEF p
  <2>13. Returned(s, r, page, out)
    BY <2>11, <2>12 DEF Returned
  <2>14. QED
    BY <2>13 DEF r
<1>12. QED
  BY <1>10, <1>11

LEMMA FreeStep ==
  ASSUME NEW s, NEW out \in SUBSET Pages, Held(s, out), NEW page \in out
  PROVE  \/ Returned(s, pmm_free_page(s, page), page, out)
         \/ /\ s.top = 0 /\ s.boot = <<>>
            /\ pmm_free_page(s, page) = fatal(s, "out of memory")
         \/ /\ s.top = SLOTS * TABLE_SPAN /\ Cardinality(Pages) > SLOTS * TABLE_SPAN + 2
            /\ pmm_free_page(s, page) = fatal(s, "already there")
<1>1. s.top < SLOTS * TABLE_SPAN \/ s.top = SLOTS * TABLE_SPAN
  <2> DEFINE most == SLOTS * TABLE_SPAN
  <2>1. s.top \in Nat /\ most \in Nat /\ s.top <= most
    BY StackFits
  <2> HIDE DEF most
  <2>2. s.top < most \/ s.top = most
    BY <2>1
  <2>3. QED
    BY <2>2 DEF most
<1>2. QED
  BY <1>1, FreeInFirstTable, FreeAtEnd
-----------------------------------------------------------------------------
(***************************************************************************)
(* The invariant is inductive, one lemma per action, and each step is one  *)
(* of AbstractPages.                                                       *)
(***************************************************************************)
\* What a step does to the sets of AbstractPages.
Allocates ==
  \E p \in FreeOf(m) :
    FreeOf(m') = FreeOf(m) \ {p} /\ TablesOf(m') = TablesOf(m) /\ owned' = owned \cup {p}

Frees ==
  \E p \in owned :
    /\ owned' = owned \ {p}
    /\ \E new \in SUBSET FreeOf(m) :
         /\ \A t, u \in new : t = u
         /\ FreeOf(m') = (FreeOf(m) \ new) \cup {p}
         /\ TablesOf(m') = TablesOf(m) \cup new

Stutters == FreeOf(m') = FreeOf(m) /\ TablesOf(m') = TablesOf(m) /\ owned' = owned

LEMMA InitInv ==
  ASSUME Init
  PROVE  IInv /\ FreeOf(m) = Pages /\ TablesOf(m) = {}
<1> DEFINE n == Len(BootPages)
<1>1. /\ n \in Nat /\ n = Cardinality(Pages) /\ IsFiniteSet(Pages) /\ DOMAIN BootPages = 1..n
      /\ BootPages \in Seq(Pages) /\ {BootPages[k] : k \in 1..n} = Pages
      /\ TABLES \in Nat \ {0}
  BY PmmAssumption, Constants
<1>2. /\ m.boot = BootPages /\ m.top = 0 /\ m.status = "up" /\ m.pmm_free_memory = n /\ m.page = NOPAGE
      /\ m.pte = [v \in StackPages |-> NOPAGE] /\ m.tlb = [v \in StackPages |-> NOPAGE]
      /\ m.tables = [i \in 0..(TABLES - 1) |-> NOPAGE] /\ m.mem = [p \in Pages |-> zeros]
      /\ owned = {}
  BY DEF Init
<1>3. m \in State
  <2>1. zeros \in [0..(SLOTS - 1) -> Entry] /\ NOPAGE \in Entry
    BY DEF zeros, Entry
  <2>2. QED
    BY <1>1, <2>1 DEF Init, State
<1> HIDE DEF n
<1>4. \A j, k \in 1..n : BootPages[j] = BootPages[k] => j = k
  <2>1. BootPages \in [1..n -> Pages]
    BY <1>1
  <2>2. \A p \in Pages : \E k \in 1..n : BootPages[k] = p
    BY <1>1
  <2>3. BootPages \in Surjection(1..n, Pages)
    BY <2>1, <2>2 DEF Surjection
  <2>4. IsFiniteSet(1..n) /\ Cardinality(1..n) = n
    BY <1>1, FS_Interval
  <2>5. BootPages \in Injection(1..n, Pages)
    BY <2>3, <2>4, <1>1, FS_Surjection
  <2>6. QED
    BY <2>1, <2>5 DEF Injection, IsInjective
<1>5. BootOf(m) = Pages
  BY <1>1, <1>2 DEF BootOf
<1>6. StackOf(m) = {} /\ FreeOf(m) = Pages
  <2>1. 0..(m.top - 1) = {}
    BY <1>2
  <2>2. QED
    BY <2>1, <1>5 DEF StackOf, FreeOf
<1>7. TablesOf(m) = {} /\ Cardinality({}) = 0
  BY <1>1, <1>2, FS_EmptySet DEF TablesOf
<1>8. Stored(m)
  <2>0. ~ Second(m) /\ m.top <= SLOTS * TABLE_SPAN
    BY <1>1, <1>2, Constants DEF Second
  <2>1. \A v \in StackPages : m.pte[v] = NOPAGE /\ ~ (v * SLOTS < m.top)
    <3>1. \A v \in StackPages : v * SLOTS \in Nat
      BY Constants DEF StackPages
    <3>2. QED
      BY <3>1, <1>2
  <2>2. \A k \in 0..(m.top - 1) : FALSE
    BY <1>2
  <2>3. QED
    BY <2>0, <2>1, <2>2, <1>1, <1>2 DEF Stored
<1>9. Apart(m, {})
  BY <1>1, <1>2, <1>4, <1>5, <1>6, <1>7 DEF Apart
<1>10. Counted(m, {})
  BY <1>1, <1>2, <1>7 DEF Counted
<1>11. Held(m, owned)
  BY <1>2, <1>3, <1>8, <1>9, <1>10 DEF Held
<1>12. NoStaleTranslation
  BY <1>2 DEF NoStaleTranslation
<1>13. QED
  BY <1>2, <1>3, <1>6, <1>7, <1>11, <1>12 DEF IInv

\* What keeps the state "up" keeps the invariant.
LEMMA UpInv ==
  ASSUME Held(m', owned'), owned' \subseteq Pages
  PROVE  IInv'
<1>1. m' \in State /\ m'.status = "up"
  BY DEF Held
<1>2. NoStaleTranslation'
  BY DEF NoStaleTranslation, Held, Stored
<1>3. QED
  BY <1>1, <1>2 DEF IInv

LEMMA StoppedInv ==
  ASSUME IInv, m.status = "up", owned' = owned,
         \/ m.top = 0 /\ m.boot = <<>> /\ m' = fatal(m, "out of memory")
         \/ /\ m.top = SLOTS * TABLE_SPAN /\ Cardinality(Pages) > SLOTS * TABLE_SPAN + 2
            /\ m' = fatal(m, "already there")
  PROVE  IInv' /\ Stutters
<1>1. PICK why \in {"out of memory", "already there"} : m' = [m EXCEPT !.status = why]
  BY DEF fatal
<1>2. /\ m'.status = why /\ m'.top = m.top /\ m'.boot = m.boot /\ m'.tables = m.tables
      /\ m'.mem = m.mem /\ m'.pte = m.pte /\ m'.tlb = m.tlb /\ m' \in State
  BY <1>1 DEF State, IInv
<1>3. FreeOf(m') = FreeOf(m) /\ TablesOf(m') = TablesOf(m)
  BY <1>2 DEF FreeOf, BootOf, StackOf, TablesOf, slot
<1>4. NoStaleTranslation'
  BY <1>2 DEF NoStaleTranslation, IInv
<1>5. \/ m'.status = "out of memory" /\ m'.boot = <<>> /\ m'.top = 0
      \/ /\ m'.status = "already there" /\ m'.top = SLOTS * TABLE_SPAN
         /\ Cardinality(Pages) > SLOTS * TABLE_SPAN + 2
  <2>1. m' = fatal(m, "out of memory") => m'.status = "out of memory"
    BY DEF fatal, State, IInv
  <2>2. m' = fatal(m, "already there") => m'.status = "already there"
    BY DEF fatal, State, IInv
  <2>3. QED
    BY <2>1, <2>2, <1>2
<1>6. m'.status # "up"
  BY <1>5
<1>7. QED
  BY <1>2, <1>3, <1>4, <1>5, <1>6 DEF IInv, Stutters

LEMMA TakeInv ==
  ASSUME IInv, take
  PROVE  IInv' /\ (Allocates \/ Stutters)
<1> DEFINE a == pmm_alloc_page(m)
           p == a.page
           more == owned \cup {p}
<1>1. m.status = "up" /\ Held(m, owned) /\ owned \in SUBSET Pages /\ m \in State
  BY DEF take, IInv
<1>2. \/ Got(m, a, owned)
      \/ m.top = 0 /\ m.boot = <<>> /\ a = fatal(m, "out of memory")
  BY <1>1, AllocStep
<1>3. CASE m.top = 0 /\ m.boot = <<>> /\ a = fatal(m, "out of memory")
  <2>1. a.status = "out of memory"
    BY <1>1, <1>3 DEF fatal, State
  <2>2. m' = a /\ owned' = owned
    BY <2>1 DEF take
  <2>3. QED
    BY <2>2, <1>1, <1>3, StoppedInv
<1>4. CASE Got(m, a, owned)
  <2>1. /\ p \in FreeOf(m) /\ FreeOf(a) = FreeOf(m) \ {p} /\ TablesOf(a) = TablesOf(m)
        /\ Held(a, more)
    BY <1>4 DEF Got
  <2>2. a \in State /\ a.status = "up"
    BY <2>1 DEF Held
  <2>3. /\ m' = [a EXCEPT !.mem = [q \in Pages |-> IF q = p THEN zeros ELSE a.mem[q]]]
        /\ owned' = more
    BY <2>2 DEF take
  <2>4. FreeOf(m) \subseteq Pages
    BY <1>1 DEF Held, Apart
  <2> HIDE DEF a, p, more
  <2>5. p \in Pages /\ more \in SUBSET Pages
    BY <1>1, <2>1, <2>4 DEF more
  <2>6. /\ m'.boot = a.boot /\ m'.top = a.top /\ m'.tables = a.tables /\ m'.status = a.status
        /\ m'.pmm_free_memory = a.pmm_free_memory /\ m'.pte = a.pte /\ m'.tlb = a.tlb
        /\ m'.mem = [q \in Pages |-> IF q = p THEN zeros ELSE a.mem[q]]
    BY <2>2, <2>3 DEF State
  <2>7. m' \in State
    <3>1. m'.mem \in [Pages -> [0..(SLOTS - 1) -> Entry]]
      <4>1. zeros \in [0..(SLOTS - 1) -> Entry]
        BY DEF zeros, Entry
      <4>2. a.mem \in [Pages -> [0..(SLOTS - 1) -> Entry]]
        BY <2>2, StateFacts
      <4>3. QED
        BY <4>1, <4>2, <2>6
    <3>2. m' = [a EXCEPT !.mem = m'.mem]
      BY <2>2, <2>3 DEF State
    <3>3. QED
      BY <3>1, <3>2, <2>2 DEF State
  <2>8. \A q \in FreeOf(a) : m'.mem[q] = a.mem[q]
    BY <2>1, <2>4, <2>6
  <2>9. \A v \in StackPages : a.pte[v] # NOPAGE => m'.tlb[v] \in {NOPAGE, a.pte[v]}
    BY <2>1, <2>6 DEF Held, Stored
  <2>10. Held(m', more) /\ FreeOf(m') = FreeOf(a) /\ TablesOf(m') = TablesOf(a)
    BY <2>1, <2>5, <2>6, <2>7, <2>8, <2>9, Untouched
  <2>11. IInv'
    BY <2>3, <2>5, <2>10, UpInv
  <2>12. Allocates
    BY <2>1, <2>3, <2>10 DEF Allocates, more
  <2>13. QED
    BY <2>11, <2>12
<1>5. QED
  BY <1>2, <1>3, <1>4

LEMMA GiveBackInv ==
  ASSUME IInv, NEW page \in owned, give_back(page)
  PROVE  IInv' /\ (Frees \/ Stutters)
<1>1. m.status = "up" /\ Held(m, owned) /\ owned \in SUBSET Pages /\ m \in State
  BY DEF give_back, IInv
<1>2. /\ m' = pmm_free_page(m, page)
      /\ owned' = IF m'.status = "up" THEN owned \ {page} ELSE owned
  BY DEF give_back
<1>3. \/ Returned(m, m', page, owned)
      \/ m.top = 0 /\ m.boot = <<>> /\ m' = fatal(m, "out of memory")
      \/ /\ m.top = SLOTS * TABLE_SPAN /\ Cardinality(Pages) > SLOTS * TABLE_SPAN + 2
         /\ m' = fatal(m, "already there")
  BY <1>1, <1>2, FreeStep
<1>4. CASE \/ m.top = 0 /\ m.boot = <<>> /\ m' = fatal(m, "out of memory")
           \/ /\ m.top = SLOTS * TABLE_SPAN /\ Cardinality(Pages) > SLOTS * TABLE_SPAN + 2
              /\ m' = fatal(m, "already there")
  <2>1. m'.status # "up"
    BY <1>1, <1>4 DEF fatal, State
  <2>2. owned' = owned
    BY <2>1, <1>2
  <2>3. QED
    BY <2>2, <1>1, <1>4, StoppedInv
<1>5. CASE Returned(m, m', page, owned)
  <2>1. Held(m', owned \ {page})
    BY <1>5 DEF Returned
  <2>2. owned' = owned \ {page} /\ owned' \subseteq Pages
    BY <1>1, <1>2, <2>1 DEF Held
  <2>3. IInv'
    BY <2>1, <2>2, UpInv
  <2>4. Frees
    BY <1>5, <2>2 DEF Returned, Frees
  <2>5. QED
    BY <2>3, <2>4
<1>6. QED
  BY <1>3, <1>4, <1>5

LEMMA TlbInv ==
  ASSUME IInv, NEW v \in StackPages, TlbFill(v) \/ TlbEvict(v)
  PROVE  IInv' /\ Stutters
<1> DEFINE x == m'.tlb[v]
<1>1. m.status = "up" /\ Held(m, owned) /\ owned \in SUBSET Pages /\ m \in State /\ owned' = owned
  BY DEF TlbFill, TlbEvict, IInv
<1>2. m.tlb \in [StackPages -> Entry] /\ m.pte \in [StackPages -> Entry]
  BY <1>1, StateFacts
<1>3. PICK y \in {NOPAGE, m.pte[v]} : m' = [m EXCEPT !.tlb[v] = y]
  BY DEF TlbFill, TlbEvict
<1>4. y \in Entry
  BY <1>2, <1>3 DEF Entry
<1>5. /\ m'.boot = m.boot /\ m'.top = m.top /\ m'.tables = m.tables /\ m'.status = m.status
      /\ m'.pmm_free_memory = m.pmm_free_memory /\ m'.pte = m.pte /\ m'.mem = m.mem
      /\ m'.tlb = [m.tlb EXCEPT ![v] = y]
  BY <1>1, <1>3 DEF State
<1>6. m' \in State
  <2>1. m'.tlb \in [StackPages -> Entry]
    BY <1>2, <1>4, <1>5
  <2>2. m' = [m EXCEPT !.tlb = m'.tlb]
    BY <1>1, <1>3 DEF State
  <2>3. QED
    BY <2>1, <2>2, <1>1 DEF State
<1>7. \A w \in StackPages : m.pte[w] # NOPAGE => m'.tlb[w] \in {NOPAGE, m.pte[w]}
  BY <1>1, <1>2, <1>3, <1>5 DEF Held, Stored
<1>8. Held(m', owned) /\ FreeOf(m') = FreeOf(m) /\ TablesOf(m') = TablesOf(m)
  BY <1>1, <1>5, <1>6, <1>7, Untouched
<1>9. QED
  BY <1>1, <1>8, UpInv DEF Stutters

LEMMA NextInv ==
  ASSUME IInv, [Next]_vars
  PROVE  IInv' /\ (Allocates \/ Frees \/ Stutters)
<1>1. CASE take
  BY <1>1, TakeInv
<1>2. CASE \E page \in owned : give_back(page)
  BY <1>2, GiveBackInv
<1>3. CASE \E v \in StackPages : TlbFill(v) \/ TlbEvict(v)
  BY <1>3, TlbInv
<1>4. CASE UNCHANGED vars
  <2>1. m' = m /\ owned' = owned
    BY <1>4 DEF vars
  <2>2. FreeOf(m') = FreeOf(m) /\ TablesOf(m') = TablesOf(m)
    BY <2>1
  <2>3. IInv'
    BY <2>1 DEF IInv, NoStaleTranslation
  <2>4. QED
    BY <2>1, <2>2, <2>3 DEF Stutters
<1>5. QED
  BY <1>1, <1>2, <1>3, <1>4 DEF Next
-----------------------------------------------------------------------------
(***************************************************************************)
(* The theorems.                                                           *)
(***************************************************************************)
\* pmm.c: boot regions, stack, tables and callers never share a page, and the stack lies in
\* the pages it records, however many pages there are: all that the other theorems need.
THEOREM Inductive == Spec => []IInv
<1>1. Init => IInv
  BY InitInv
<1>2. IInv /\ [Next]_vars => IInv'
  BY NextInv
<1>3. QED
  BY <1>1, <1>2, PTL DEF Spec

\* The sets of Pmm's properties.
LEMMA Sets ==
  /\ BootSet = BootOf(m) /\ StackSet = StackOf(m) /\ TableSet = TablesOf(m)
  /\ BootSet \cup StackSet = FreeOf(m)
  /\ \A k : entry(k) = slot(m, k)
BY DEF BootSet, BootOf, StackSet, StackOf, Entries, entry, slot, TableSet, TablesOf, FreeOf

\* pmm.c: each page is untouched, on the stack, a table or a caller's, once and in one
\* place, and pmm_free_memory counts those that can be had.
THEOREM PagesAccountedHolds == Spec => []PagesAccounted
<1>1. IInv => PagesAccounted
  <2>1. SUFFICES ASSUME IInv, m.status = "up"
                 PROVE  /\ BootSet \cup StackSet \cup TableSet \cup owned = Pages
                        /\ Len(m.boot) + m.top + Cardinality(TableSet) + Cardinality(owned)
                             = Cardinality(Pages)
                        /\ m.pmm_free_memory = Len(m.boot) + m.top
    BY DEF PagesAccounted
  <2>2. Apart(m, owned) /\ Counted(m, owned)
    BY <2>1 DEF IInv, Held
  <2>3. QED
    BY <2>2, Sets DEF Apart, Counted
<1>2. QED
  BY <1>1, Inductive, PTL

\* pmm.c:215: a stack page in use is stored in the page its first entry records, and
\* stack pages above the top are not mapped, as long as one page table maps the stack.
THEOREM StoredInFreePagesHolds ==
  ASSUME OneTable
  PROVE  Spec => []StoredInFreePages
<1>1. IInv => StoredInFreePages
  <2>1. SUFFICES ASSUME IInv, m.status = "up", NEW v \in StackPages
                 PROVE  m.pte[v] = IF v * SLOTS < m.top THEN entry(v * SLOTS) ELSE NOPAGE
    BY DEF StoredInFreePages
  <2>2. Stored(m)
    BY <2>1 DEF IInv, Held
  <2>3. CASE v # TABLE_SPAN
    BY <2>2, <2>3, Sets DEF Stored
  <2>4. CASE v = TABLE_SPAN
    <3>1. m.pte[v] = NOPAGE
      BY <2>2, <2>4 DEF Stored
    <3>2. ~ (v * SLOTS < m.top)
      <4> DEFINE most == SLOTS * TABLE_SPAN
      <4>1. m.top \in Nat /\ most \in Nat /\ m.top <= most
        BY <2>1, StackFits DEF IInv
      <4>2. v * SLOTS = most
        BY <2>4, Constants
      <4> HIDE DEF most
      <4>3. QED
        BY <4>1, <4>2
    <3>3. QED
      BY <3>1, <3>2
  <2>5. QED
    BY <2>3, <2>4
<1>2. QED
  BY <1>1, Inductive, PTL

\* The part of StoredInFreePages that also the second page table leaves true: every entry
\* of the stack is in the page recorded first in its stack page.
StackInFreePages ==
  m.status = "up" =>
    \A k \in Entries : /\ m.pte[k \div SLOTS] = entry((k \div SLOTS) * SLOTS)
                       /\ m.pte[k \div SLOTS] \notin owned \cup TableSet

\* pmm.c:215, for any number of page tables: the stack is stored in free pages, never in one
\* that is a caller's or a page table.
THEOREM StackInFreePagesHolds == Spec => []StackInFreePages
<1>1. IInv => StackInFreePages
  <2>1. SUFFICES ASSUME IInv, m.status = "up", NEW k \in Entries
                 PROVE  /\ m.pte[k \div SLOTS] = entry((k \div SLOTS) * SLOTS)
                        /\ m.pte[k \div SLOTS] \notin owned \cup TableSet
    BY DEF StackInFreePages
  <2>2. Held(m, owned) /\ owned \in SUBSET Pages /\ k \in 0..(m.top - 1) /\ m.top \in Nat
    BY <2>1, StateFacts DEF IInv, Entries
  <2>3. /\ m.pte[k \div SLOTS] = slot(m, (k \div SLOTS) * SLOTS)
        /\ (k \div SLOTS) * SLOTS \in 0..k
    BY <2>2, Reached
  <2>4. (k \div SLOTS) * SLOTS \in 0..(m.top - 1)
    BY <2>2, <2>3
  <2>5. m.pte[k \div SLOTS] \in FreeOf(m)
    BY <2>3, <2>4 DEF FreeOf, StackOf
  <2>6. m.pte[k \div SLOTS] \notin owned \cup TablesOf(m)
    BY <2>2, <2>5 DEF Held, Apart
  <2>7. QED
    BY <2>3, <2>6, Sets
<1>2. QED
  BY <1>1, Inductive, PTL

\* vmm.c: what the CPU remembers of a mapped stack page is true, also where unmapping
\* does not invalidate, since mapping does.
THEOREM NoStaleTranslationHolds == Spec => []NoStaleTranslation
<1>1. IInv => NoStaleTranslation
  BY DEF IInv
<1>2. QED
  BY <1>1, Inductive, PTL

\* pmm.c and vmm.c: the stack itself never page faults, and the only way to stop with memory
\* left is a stack that fills its first page table again after a second one was needed: so
\* there are both tables, a page for each entry, and the page that is freed.
StopsAtTheEnds ==
  m.status # "up" =>
    \/ m.status = "out of memory" /\ m.boot = <<>> /\ m.top = 0
    \/ /\ m.status = "already there" /\ m.top = SLOTS * TABLE_SPAN
       /\ Cardinality(Pages) > SLOTS * TABLE_SPAN + 2

\* The two ends at which pmm_free_page and pmm_alloc_page stop the machine.
THEOREM StopsAtTheEndsHolds == Spec => []StopsAtTheEnds
<1>1. IInv => StopsAtTheEnds
  BY DEF IInv, StopsAtTheEnds
<1>2. QED
  BY <1>1, Inductive, PTL

\* pmm.h:58: it is only ever an empty allocator that stops the machine, and nothing is
\* already there where a stack page is mapped, up to two pages more than one table's stack.
THEOREM FatalOnlyWhenEmptyHolds ==
  ASSUME Cardinality(Pages) <= SLOTS * TABLE_SPAN + 2
  PROVE  Spec => [](FatalOnlyWhenEmpty /\ NothingThereYet)
<1>1. IInv => FatalOnlyWhenEmpty /\ NothingThereYet
  <2>1. ~ (Cardinality(Pages) > SLOTS * TABLE_SPAN + 2)
    BY Constants
  <2>2. QED
    BY <2>1 DEF IInv, FatalOnlyWhenEmpty, NothingThereYet
<1>2. QED
  BY <1>1, Inductive, PTL

\* The boot regions and the page stack together are a page allocator, however many pages
\* there are: initial states map to initial states, and a step to Allocate, Free or nothing.
THEOREM PagesRefinement == Spec => ImplementsPages
<1> DEFINE free == BootSet \cup StackSet
<1>1. Init => Abstract!AbstractInit
  <2>1. SUFFICES ASSUME Init PROVE Abstract!AbstractInit
    OBVIOUS
  <2>2. FreeOf(m) = Pages /\ TablesOf(m) = {} /\ owned = {}
    BY <2>1, InitInv DEF Init
  <2>3. QED
    BY <2>2, Sets DEF Abstract!AbstractInit
<1>2. IInv /\ [Next]_vars => [Abstract!AbstractNext]_<<BootSet \cup StackSet, owned, TableSet>>
  <2>1. SUFFICES ASSUME IInv, [Next]_vars
                 PROVE  Abstract!AbstractNext \/ UNCHANGED <<BootSet \cup StackSet, owned, TableSet>>
    OBVIOUS
  <2>2. /\ free = FreeOf(m) /\ TableSet = TablesOf(m)
        /\ free' = FreeOf(m') /\ TableSet' = TablesOf(m')
    BY Sets DEF BootSet, BootOf, StackSet, StackOf, Entries, entry, slot, TableSet, TablesOf, FreeOf
  <2>3. Allocates \/ Frees \/ Stutters
    BY <2>1, NextInv
  <2>4. owned \subseteq Pages /\ (m.status = "up" => FreeOf(m) \subseteq Pages)
    BY <2>1 DEF IInv, Held, Apart
  <2>5. CASE Allocates
    <3>1. PICK p \in FreeOf(m) : /\ FreeOf(m') = FreeOf(m) \ {p} /\ TablesOf(m') = TablesOf(m)
                                 /\ owned' = owned \cup {p}
      BY <2>5 DEF Allocates
    <3>2. p \in Pages
      <4>1. owned' \subseteq Pages
        BY <2>1, NextInv DEF IInv
      <4>2. QED
        BY <3>1, <4>1
    <3>3. Abstract!Allocate(p)
      BY <2>2, <3>1 DEF Abstract!Allocate
    <3>4. QED
      BY <3>2, <3>3 DEF Abstract!AbstractNext
  <2>6. CASE Frees
    <3>1. PICK p \in owned :
            /\ owned' = owned \ {p}
            /\ \E new \in SUBSET FreeOf(m) :
                 /\ \A t, u \in new : t = u
                 /\ FreeOf(m') = (FreeOf(m) \ new) \cup {p}
                 /\ TablesOf(m') = TablesOf(m) \cup new
      BY <2>6 DEF Frees
    <3>2. PICK new \in SUBSET FreeOf(m) :
            /\ \A t, u \in new : t = u
            /\ FreeOf(m') = (FreeOf(m) \ new) \cup {p}
            /\ TablesOf(m') = TablesOf(m) \cup new
      BY <3>1
    <3>3. p \in Pages
      BY <2>4
    <3>4. \E tables \in SUBSET (BootSet \cup StackSet) :
            /\ \A t, u \in tables : t = u
            /\ (BootSet \cup StackSet)' = ((BootSet \cup StackSet) \ tables) \cup {p}
            /\ TableSet' = TableSet \cup tables
      BY <2>2, <3>2
    <3>5. Abstract!Free(p)
      BY <3>1, <3>4 DEF Abstract!Free
    <3>6. QED
      BY <3>3, <3>5 DEF Abstract!AbstractNext
  <2>7. CASE Stutters
    <3>1. free' = free /\ TableSet' = TableSet /\ owned' = owned
      BY <2>2, <2>7 DEF Stutters
    <3>2. QED
      BY <3>1
  <2>8. QED
    BY <2>3, <2>5, <2>6, <2>7
<1>3. QED
  BY <1>1, <1>2, Inductive, PTL DEF Spec, ImplementsPages, Abstract!AbstractSpec
=============================================================================
