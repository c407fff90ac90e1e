-------------------------- MODULE ThreadListProofs --------------------------
(***************************************************************************)
(* Theorems about ThreadList, for every set of threads: the links of       *)
(* thread.c and semaphore.c spell the sequences that Scheduler and         *)
(* Semaphore take the lists for, whatever links a thread keeps.            *)
(*                                                                         *)
(* The links are right because a thread is on one list at most, once: an   *)
(* update of its next disturbs no other element and no other list.         *)
(***************************************************************************)
EXTENDS ThreadList, Integers, TLAPS

Once(s) == \A i, j \in DOMAIN s : s[i] = s[j] => i = j

DistinctInv ==
  /\ \A l \in Lists : Once(content[l])
  /\ \A t \in Threads : ~(On(content["ready_list"], t) /\ On(content["suspended_list"], t))

\* The operation in progress: an append has passed elements of its list, a remove has
\* passed them without meeting its thread.
OpInv ==
  /\ op = "append" => /\ OnNoList(thread) /\ next[thread] = NULL
                      /\ On(content[list], cursor)
  /\ op = "remove" => \/ cursor = NULL
                      \/ \E i \in DOMAIN content[list] :
                           /\ content[list][i] = cursor
                           /\ \A k \in 1..i : content[list][k] # thread

Linked == \A l \in Lists : Spells(head[l], next, content[l])

ListInv == DistinctInv /\ OpInv /\ Linked
QueueInv == Once(queue) /\ QueueLinked

IInv == TypeOK /\ ListInv /\ QueueInv
-----------------------------------------------------------------------------
(***************************************************************************)
(* Links and the sequences they spell.                                     *)
(***************************************************************************)
LEMMA AppendOnce ==
  ASSUME NEW s \in Seq(Threads), Once(s), NEW t \in Threads, ~On(s, t)
  PROVE  /\ Append(s, t) \in Seq(Threads) /\ Once(Append(s, t))
         /\ \A u \in Threads : On(Append(s, t), u) <=> On(s, u) \/ u = t
<1>1. /\ DOMAIN s = 1..Len(s) /\ DOMAIN Append(s, t) = 1..(Len(s) + 1) /\ Len(s) \in Nat
      /\ \A i \in 1..Len(s) : Append(s, t)[i] = s[i]
      /\ Append(s, t)[Len(s) + 1] = t
  OBVIOUS
<1>2. Once(Append(s, t))
  BY <1>1 DEF Once, On
<1>3. \A u \in Threads : On(Append(s, t), u) <=> On(s, u) \/ u = t
  BY <1>1 DEF On
<1>4. QED
  BY <1>2, <1>3

LEMMA TailOnce ==
  ASSUME NEW s \in Seq(Threads), Once(s), s # <<>>
  PROVE  /\ Tail(s) \in Seq(Threads) /\ Once(Tail(s))
         /\ s[1] \in Threads /\ On(s, s[1])
         /\ \A u \in Threads : On(Tail(s), u) => On(s, u) /\ u # s[1]
<1>1. /\ DOMAIN s = 1..Len(s) /\ Len(s) \in Nat /\ Len(s) > 0
      /\ Tail(s) \in Seq(Threads) /\ DOMAIN Tail(s) = 1..(Len(s) - 1)
      /\ \A i \in 1..(Len(s) - 1) : Tail(s)[i] = s[i + 1]
  OBVIOUS
<1>2. Once(Tail(s))
  BY <1>1 DEF Once
<1>3. s[1] \in Threads /\ On(s, s[1])
  BY <1>1 DEF On
<1>4. \A u \in Threads : On(Tail(s), u) => On(s, u) /\ u # s[1]
  BY <1>1 DEF On, Once
<1>5. QED
  BY <1>1, <1>2, <1>3, <1>4

\* A new first element, whose link ends the list.
LEMMA SpellsOne ==
  ASSUME NEW t \in Threads, NEW links, links[t] = NULL
  PROVE  Spells(t, links, Append(<<>>, t))
<1>1. Append(<<>>, t) = <<t>> /\ Len(<<t>>) = 1 /\ DOMAIN <<t>> = {1} /\ <<t>>[1] = t
  OBVIOUS
<1>2. QED
  BY <1>1 DEF Spells

\* A link of a thread that is not on the list changes nothing of the list.
LEMMA SpellsElsewhere ==
  ASSUME NEW s \in Seq(Threads), NEW links \in [Threads -> Pointers], NEW first,
         Spells(first, links, s), NEW t \in Threads, ~On(s, t), NEW p \in Pointers
  PROVE  Spells(first, [links EXCEPT ![t] = p], s)
<1>1. \A i \in DOMAIN s : s[i] \in Threads /\ s[i] # t
  BY DEF On
<1>2. QED
  BY <1>1 DEF Spells

\* append_link and append_waiter: the last link is redirected to the new element.
LEMMA SpellsAppend ==
  ASSUME NEW s \in Seq(Threads), Once(s), s # <<>>,
         NEW links \in [Threads -> Pointers], NEW first, Spells(first, links, s),
         NEW t \in Threads, ~On(s, t), links[t] = NULL
  PROVE  Spells(first, [links EXCEPT ![s[Len(s)]] = t], Append(s, t))
<1> DEFINE n == Len(s)
           new == [links EXCEPT ![s[n]] = t]
           a == Append(s, t)
<1>1. /\ n \in Nat /\ n > 0 /\ DOMAIN s = 1..n /\ \A i \in 1..n : s[i] \in Threads
      /\ a # <<>> /\ Len(a) = n + 1 /\ DOMAIN a = 1..(n + 1)
      /\ \A i \in 1..n : a[i] = s[i]
      /\ a[n + 1] = t
  OBVIOUS
<1>2. \A u \in Threads : new[u] = IF u = s[n] THEN t ELSE links[u]
  BY <1>1
<1>3. \A i, j \in 1..n : s[i] = s[j] => i = j
  BY <1>1, SMTT(30) DEF Once
<1>4. \A i \in 1..n : s[i] # t
  BY <1>1 DEF On
<1>5. first = s[1] /\ \A i \in 1..n : i # n => links[s[i]] = s[i + 1]
  BY <1>1 DEF Spells
<1> HIDE DEF n, new, a
<1>6. ASSUME NEW i \in 1..(n + 1)
      PROVE  new[a[i]] = IF i = n + 1 THEN NULL ELSE a[i + 1]
  <2>1. CASE i = n + 1
    <3>1. a[i] = t /\ t # s[n]
      BY <1>1, <1>4, <2>1
    <3>2. QED
      BY <1>2, <2>1, <3>1
  <2>2. CASE i = n
    <3>1. a[i] = s[n] /\ a[i + 1] = t /\ i # n + 1 /\ s[n] \in Threads
      BY <1>1, <2>2
    <3>2. QED
      BY <1>2, <3>1
  <2>3. CASE i \in 1..(n - 1)
    <3>1. /\ i \in 1..n /\ n \in 1..n /\ i + 1 \in 1..n /\ i # n /\ i # n + 1
      BY <1>1, <2>3
    <3>2. a[i] = s[i] /\ a[i + 1] = s[i + 1] /\ s[i] \in Threads /\ s[i] # s[n]
      BY <1>1, <1>3, <3>1
    <3>3. links[s[i]] = s[i + 1]
      BY <1>5, <3>1
    <3>4. QED
      BY <1>2, <3>1, <3>2, <3>3
  <2>4. QED
    BY <1>1, <2>1, <2>2, <2>3
<1>7. first = a[1]
  BY <1>1, <1>5
<1>8. Spells(first, new, a)
  BY <1>1, <1>6, <1>7 DEF Spells
<1>9. QED
  BY <1>8 DEF new, a, n

\* Where the end is: the only element whose link is NULL is the last.
LEMMA SpellsEnd ==
  ASSUME NEW s \in Seq(Threads), NEW links, NEW first, Spells(first, links, s)
  PROVE  /\ first = NULL <=> s = <<>>
         /\ \A i \in 1..Len(s) :
              /\ s[i] \in Threads
              /\ links[s[i]] = NULL <=> i = Len(s)
              /\ i # Len(s) => i + 1 \in 1..Len(s) /\ links[s[i]] = s[i + 1]
<1>1. /\ Len(s) \in Nat /\ DOMAIN s = 1..Len(s) /\ \A i \in 1..Len(s) : s[i] \in Threads
      /\ s # <<>> => Len(s) > 0
  OBVIOUS
<1>2. first = NULL <=> s = <<>>
  BY <1>1, ThreadListAssumption, SMTT(30) DEF Spells
<1>3. ASSUME NEW i \in 1..Len(s)
      PROVE  /\ s[i] \in Threads
             /\ links[s[i]] = NULL <=> i = Len(s)
             /\ i # Len(s) => i + 1 \in 1..Len(s) /\ links[s[i]] = s[i + 1]
  <2>1. links[s[i]] = IF i = Len(s) THEN NULL ELSE s[i + 1]
    BY <1>1 DEF Spells
  <2>2. i # Len(s) => i + 1 \in 1..Len(s)
    <3>1. Len(s) \in Nat /\ i \in 1..Len(s)
      BY <1>1, SMTT(30)
    <3>2. QED
      BY <3>1
  <2>3. i # Len(s) => s[i + 1] # NULL
    BY <1>1, <2>2, ThreadListAssumption
  <2>4. QED
    BY <1>1, <2>1, <2>2, <2>3, ZenonT(40)
<1>4. QED
  BY <1>2, <1>3

\* list_pop, which clears the link of what it returns, and pop_waiter, which does not.
LEMMA SpellsTail ==
  ASSUME NEW s \in Seq(Threads), Once(s), s # <<>>,
         NEW links \in [Threads -> Pointers], NEW first, Spells(first, links, s)
  PROVE  /\ first = s[1] /\ links[s[1]] \in Pointers
         /\ links[s[1]] = NULL <=> Tail(s) = <<>>
         /\ Spells(links[s[1]], links, Tail(s))
         /\ Spells(links[s[1]], [links EXCEPT ![s[1]] = NULL], Tail(s))
<1> DEFINE n == Len(s)
           r == Tail(s)
<1>1. /\ n \in Nat /\ n > 0 /\ DOMAIN s = 1..n /\ \A i \in 1..n : s[i] \in Threads
      /\ r \in Seq(Threads) /\ Len(r) = n - 1 /\ DOMAIN r = 1..(n - 1)
      /\ \A i \in 1..(n - 1) : r[i] = s[i + 1]
  OBVIOUS
<1>2. r = <<>> <=> n = 1
  BY <1>1
<1>3. first = s[1] /\ \A i \in 1..n : links[s[i]] = IF i = n THEN NULL ELSE s[i + 1]
  BY <1>1 DEF Spells
<1>4. links[s[1]] \in Pointers
  BY <1>1
<1> HIDE DEF n, r
<1>5. links[s[1]] = IF r = <<>> THEN NULL ELSE r[1]
  <2>1. CASE n = 1
    BY <1>1, <1>2, <1>3, <2>1
  <2>2. CASE n > 1
    <3>1. 1 \in 1..n /\ 1 # n /\ 1 \in 1..(n - 1)
      BY <1>1, <2>2
    <3>2. links[s[1]] = s[1 + 1] /\ r[1] = s[1 + 1]
      BY <1>1, <1>3, <3>1
    <3>3. QED
      BY <1>2, <3>1, <3>2
  <2>3. QED
    BY <1>1, <2>1, <2>2
<1>6. ASSUME NEW i \in 1..(n - 1)
      PROVE  links[r[i]] = IF i = n - 1 THEN NULL ELSE r[i + 1]
  <2>1. i + 1 \in 1..n /\ r[i] = s[i + 1] /\ (i + 1 = n <=> i = n - 1)
    BY <1>1
  <2>2. links[s[i + 1]] = IF i + 1 = n THEN NULL ELSE s[(i + 1) + 1]
    BY <1>3, <2>1
  <2>3. i # n - 1 => i + 1 \in 1..(n - 1)
    BY <1>1
  <2>4. i # n - 1 => r[i + 1] = s[(i + 1) + 1]
    BY <1>1, <2>3
  <2>5. QED
    BY <2>1, <2>2, <2>4
<1>7. Spells(links[s[1]], links, r)
  BY <1>1, <1>5, <1>6 DEF Spells
<1>8. ~On(r, s[1])
  <2>1. s[1] \in Threads
    BY <1>1
  <2>2. QED
    BY <2>1, TailOnce DEF r
<1>9. Spells(links[s[1]], [links EXCEPT ![s[1]] = NULL], r)
  <2>1. s[1] \in Threads /\ NULL \in Pointers
    BY <1>1 DEF Pointers
  <2>2. QED
    BY <1>1, <1>7, <1>8, <2>1, SpellsElsewhere
<1>10. links[s[1]] = NULL <=> r = <<>>
  <2>1. r # <<>> => r[1] \in Threads
    <3>1. r # <<>> => 1 \in 1..(n - 1) /\ 1 + 1 \in 1..n
      BY <1>1, <1>2
    <3>2. QED
      BY <1>1, <3>1
  <2>2. QED
    BY <1>5, <2>1, ThreadListAssumption
<1>11. QED
  BY <1>3, <1>4, <1>7, <1>9, <1>10 DEF r

\* list_remove leaves out the one place of its thread.
Cut(s, i) == [k \in 1..(Len(s) - 1) |-> IF k < i THEN s[k] ELSE s[k + 1]]

LEMMA WithoutCuts ==
  ASSUME NEW s \in Seq(Threads), Once(s), NEW i \in 1..Len(s)
  PROVE  Without(s, s[i]) = Cut(s, i)
<1>1. On(s, s[i]) /\ DOMAIN s = 1..Len(s) /\ Len(s) \in Nat
  BY DEF On
<1>2. \A j \in DOMAIN s :
        (s[j] = s[i] /\ \A k \in 1..(j - 1) : s[k] # s[i]) <=> j = i
  BY <1>1 DEF Once
<1>3. (CHOOSE j \in DOMAIN s : s[j] = s[i] /\ \A k \in 1..(j - 1) : s[k] # s[i]) = i
  BY <1>1, <1>2
<1>4. QED
  BY <1>1, <1>3 DEF Without, Cut

LEMMA CutPlaces ==
  ASSUME NEW s \in Seq(Threads), NEW i \in 1..Len(s)
  PROVE  /\ Cut(s, i) \in Seq(Threads)
         /\ DOMAIN Cut(s, i) = 1..(Len(s) - 1) /\ Len(Cut(s, i)) = Len(s) - 1
         /\ \A k \in 1..(Len(s) - 1) : Cut(s, i)[k] = IF k < i THEN s[k] ELSE s[k + 1]
<1>1. Len(s) \in Nat /\ DOMAIN s = 1..Len(s) /\ \A k \in 1..Len(s) : s[k] \in Threads
  OBVIOUS
<1>2. /\ DOMAIN Cut(s, i) = 1..(Len(s) - 1) /\ Len(s) - 1 \in Nat
      /\ \A k \in 1..(Len(s) - 1) : Cut(s, i)[k] = IF k < i THEN s[k] ELSE s[k + 1]
  BY <1>1 DEF Cut
<1>3. \A k \in 1..(Len(s) - 1) : (IF k < i THEN s[k] ELSE s[k + 1]) \in Threads
  BY <1>1
<1>4. Cut(s, i) \in Seq(Threads)
  BY <1>1, <1>2, <1>3 DEF Cut
<1>5. Len(Cut(s, i)) = Len(s) - 1
  BY <1>2, <1>4
<1>6. QED
  BY <1>2, <1>4, <1>5

LEMMA CutOnce ==
  ASSUME NEW s \in Seq(Threads), Once(s), NEW i \in 1..Len(s)
  PROVE  /\ Once(Cut(s, i))
         /\ \A u \in Threads : On(Cut(s, i), u) => On(s, u) /\ u # s[i]
<1> DEFINE n == Len(s)
           c == Cut(s, i)
           at(k) == IF k < i THEN k ELSE k + 1
<1>1. n \in Nat /\ DOMAIN s = 1..n /\ i \in 1..n
  OBVIOUS
<1>2. \A k, j \in 1..n : s[k] = s[j] => k = j
  BY <1>1 DEF Once
<1>3. DOMAIN c = 1..(n - 1) /\ \A k \in 1..(n - 1) : c[k] = IF k < i THEN s[k] ELSE s[k + 1]
  BY CutPlaces
<1> HIDE DEF n, c
<1>4. \A k \in 1..(n - 1) : at(k) \in 1..n /\ c[k] = s[at(k)] /\ at(k) # i
  BY <1>1, <1>3
<1>5. \A k, j \in 1..(n - 1) : at(k) = at(j) => k = j
  BY <1>1
<1> HIDE DEF at
<1>6. Once(c)
  <2> SUFFICES ASSUME NEW k \in 1..(n - 1), NEW j \in 1..(n - 1), c[k] = c[j]
               PROVE  k = j
    BY <1>3 DEF Once
  <2>1. at(k) = at(j)
    BY <1>2, <1>4
  <2>2. QED
    BY <1>5, <2>1
<1>7. ASSUME NEW u \in Threads, On(c, u)
      PROVE  On(s, u) /\ u # s[i]
  <2>1. PICK k \in 1..(n - 1) : c[k] = u
    BY <1>3, <1>7 DEF On
  <2>2. at(k) \in 1..n /\ u = s[at(k)] /\ at(k) # i
    BY <1>4, <2>1
  <2>3. QED
    BY <1>1, <1>2, <2>2 DEF On
<1>8. QED
  BY <1>6, <1>7 DEF c

\* remove_unlink of the head: *pp is head itself.
LEMMA SpellsCutHead ==
  ASSUME NEW s \in Seq(Threads), Once(s), s # <<>>,
         NEW links \in [Threads -> Pointers], NEW first, Spells(first, links, s)
  PROVE  /\ first = s[1] /\ links[s[1]] \in Pointers
         /\ Spells(links[s[1]], links, Cut(s, 1))
<1>1. Len(s) \in Nat /\ Len(s) > 0 /\ 1 \in 1..Len(s)
  OBVIOUS
<1>2. /\ Tail(s) \in Seq(Threads) /\ Len(Tail(s)) = Len(s) - 1
      /\ \A k \in 1..(Len(s) - 1) : Tail(s)[k] = s[k + 1]
  OBVIOUS
<1>3. /\ Cut(s, 1) \in Seq(Threads) /\ Len(Cut(s, 1)) = Len(s) - 1
      /\ \A k \in 1..(Len(s) - 1) : Cut(s, 1)[k] = s[k + 1]
  BY <1>1, CutPlaces
<1>4. Cut(s, 1) = Tail(s)
  BY <1>1, <1>2, <1>3
<1>5. QED
  BY <1>4, SpellsTail

\* remove_unlink behind the head: *pp = thread->next.
LEMMA SpellsCut ==
  ASSUME NEW s \in Seq(Threads), Once(s), NEW i \in 1..(Len(s) - 1),
         NEW links \in [Threads -> Pointers], NEW first, Spells(first, links, s)
  PROVE  Spells(first, [links EXCEPT ![s[i]] = links[s[i + 1]]], Cut(s, i + 1))
<1> DEFINE n == Len(s)
           c == Cut(s, i + 1)
           new == [links EXCEPT ![s[i]] = links[s[i + 1]]]
<1>1. /\ n \in Nat /\ n > 1 /\ DOMAIN s = 1..n /\ \A k \in 1..n : s[k] \in Threads
      /\ s # <<>> /\ i \in 1..(n - 1) /\ i \in 1..n /\ i + 1 \in 1..n
  OBVIOUS
<1>2. \A k, j \in 1..n : s[k] = s[j] => k = j
  BY <1>1 DEF Once
<1>3. first = s[1] /\ \A k \in 1..n : links[s[k]] = IF k = n THEN NULL ELSE s[k + 1]
  BY <1>1 DEF Spells
<1>4. \A u \in Threads : new[u] = IF u = s[i] THEN links[s[i + 1]] ELSE links[u]
  BY <1>1, SMTT(30)
<1>5. /\ c \in Seq(Threads) /\ DOMAIN c = 1..(n - 1) /\ Len(c) = n - 1
      /\ \A k \in 1..(n - 1) : c[k] = IF k < i + 1 THEN s[k] ELSE s[k + 1]
  BY <1>1, CutPlaces, Zenon
<1> HIDE DEF n, c, new
<1>6. ASSUME NEW k \in 1..(n - 1)
      PROVE  new[c[k]] = IF k = n - 1 THEN NULL ELSE c[k + 1]
  <2>0. k \in 1..n /\ k + 1 \in 1..n /\ k \in Nat
    BY <1>1
  <2>1. CASE k < i
    <3>1. /\ k < i + 1 /\ k + 1 < i + 1 /\ k + 1 \in 1..(n - 1)
          /\ k # n - 1 /\ k # n /\ k # i
      BY <1>1, <2>0, <2>1
    <3>2. c[k] = s[k] /\ c[k + 1] = s[k + 1]
      BY <1>5, <3>1
    <3>3. s[k] # s[i] /\ s[k] \in Threads
      BY <1>1, <1>2, <2>0, <3>1
    <3>4. links[s[k]] = s[k + 1]
      BY <1>3, <2>0, <3>1
    <3>5. QED
      BY <1>4, <3>1, <3>2, <3>3, <3>4
  <2>2. CASE k = i
    <3>1. c[k] = s[i] /\ s[i] \in Threads
      BY <1>1, <1>5, <2>2
    <3>2. links[s[i + 1]] = IF i + 1 = n THEN NULL ELSE s[(i + 1) + 1]
      BY <1>1, <1>3
    <3>3. k # n - 1 => c[k + 1] = s[(k + 1) + 1]
      <4>1. k # n - 1 => k + 1 \in 1..(n - 1) /\ ~(k + 1 < i + 1)
        BY <1>1, <2>0, <2>2
      <4>2. QED
        BY <1>5, <4>1
    <3>4. i + 1 = n <=> k = n - 1
      BY <1>1, <2>0, <2>2
    <3>5. QED
      BY <1>4, <2>2, <3>1, <3>2, <3>3, <3>4
  <2>3. CASE k > i
    <3>1. /\ ~(k < i + 1) /\ ~(k + 1 < i + 1) /\ k + 1 # i
          /\ k + 1 = n <=> k = n - 1
          /\ k # n - 1 => k + 1 \in 1..(n - 1)
      BY <1>1, <2>0, <2>3
    <3>2. c[k] = s[k + 1] /\ (k # n - 1 => c[k + 1] = s[(k + 1) + 1])
      BY <1>5, <3>1
    <3>3. s[k + 1] # s[i] /\ s[k + 1] \in Threads
      BY <1>1, <1>2, <2>0, <3>1
    <3>4. links[s[k + 1]] = IF k + 1 = n THEN NULL ELSE s[(k + 1) + 1]
      BY <1>3, <2>0
    <3>5. QED
      BY <1>4, <3>1, <3>2, <3>3, <3>4
  <2>4. QED
    BY <1>1, <2>0, <2>1, <2>2, <2>3
<1>7. c # <<>> /\ first = c[1]
  <2>1. 1 \in 1..(n - 1) /\ 1 < i + 1 /\ n - 1 # 0
    BY <1>1
  <2>2. QED
    BY <1>3, <1>5, <2>1
<1>8. Spells(first, new, c)
  BY <1>5, <1>6, <1>7 DEF Spells
<1>9. QED
  BY <1>8 DEF new, c
-----------------------------------------------------------------------------
(***************************************************************************)
(* The two lists.                                                          *)
(***************************************************************************)
OthersWithout(l, u) == \A m \in Lists \ {l} : ~On(content[m], u)

LEMMA ListFacts ==
  ASSUME TypeOK, ListInv, NEW l \in Lists
  PROVE  /\ content[l] \in Seq(Threads) /\ Once(content[l])
         /\ Spells(head[l], next, content[l])
         /\ \A u \in Threads : On(content[l], u) => OthersWithout(l, u)
<1>1. content[l] \in Seq(Threads) /\ Once(content[l]) /\ Spells(head[l], next, content[l])
  BY DEF TypeOK, ListInv, DistinctInv, Linked
<1>2. \A u \in Threads : On(content[l], u) => OthersWithout(l, u)
  BY DEF ListInv, DistinctInv, OthersWithout, Lists
<1>3. QED
  BY <1>1, <1>2

\* One list becomes s, and the links follow.
LEMMA ListUpdate ==
  ASSUME TypeOK, ListInv, NEW l \in Lists, NEW s \in Seq(Threads), Once(s),
         \A u \in Threads : On(s, u) => OthersWithout(l, u),
         content' = [content EXCEPT ![l] = s],
         Spells(head'[l], next', s),
         \A m \in Lists \ {l} : Spells(head'[m], next', content[m])
  PROVE  content' \in [Lists -> Seq(Threads)] /\ DistinctInv' /\ Linked'
<1>1. content \in [Lists -> Seq(Threads)]
  BY DEF TypeOK
<1>2. /\ content' \in [Lists -> Seq(Threads)] /\ content'[l] = s
      /\ \A m \in Lists \ {l} : content'[m] = content[m]
  BY <1>1
<1>3. \A m \in Lists : Once(content'[m])
  BY <1>2 DEF ListInv, DistinctInv
<1>4. ASSUME NEW u \in Threads, On(content'["ready_list"], u), On(content'["suspended_list"], u)
      PROVE  FALSE
  BY <1>2, <1>4 DEF OthersWithout, Lists
<1>5. Linked'
  BY <1>2 DEF Linked
<1>6. QED
  BY <1>2, <1>3, <1>4, <1>5 DEF DistinctInv

LEMMA QueueUnchanged ==
  ASSUME QueueInv, UNCHANGED waiterVars
  PROVE  QueueInv'
BY DEF QueueInv, QueueLinked, Once, Spells, waiterVars

LEMMA ListUnchanged ==
  ASSUME ListInv, UNCHANGED threadVars
  PROVE  ListInv'
<1>1. /\ head' = head /\ next' = next /\ op' = op /\ list' = list /\ thread' = thread
      /\ cursor' = cursor /\ content' = content
  BY DEF threadVars
<1>2. DistinctInv' /\ Linked'
  BY <1>1 DEF ListInv, DistinctInv, Linked
<1>3. OpInv'
  BY <1>1 DEF ListInv, OpInv, OnNoList
<1>4. QED
  BY <1>2, <1>3 DEF ListInv

\* The operation in progress.
LEMMA InProgress ==
  ASSUME TypeOK, op # "none"
  PROVE  thread \in Threads /\ thread # NULL /\ list \in Lists
BY ThreadListAssumption DEF TypeOK, Pointers

LEMMA InitIInv == Init => IInv
<1> SUFFICES ASSUME Init PROVE IInv
  OBVIOUS
<1>1. TypeOK
  BY DEF Init, TypeOK, Pointers, Lists
<1>2. \A l \in Lists : content[l] = <<>> /\ head[l] = NULL
  BY DEF Init
<1>3. DistinctInv
  BY <1>2 DEF DistinctInv, Once, On, Lists
<1>4. OpInv
  BY DEF Init, OpInv
<1>5. Linked
  BY <1>2 DEF Linked, Spells
<1>6. QueueInv
  BY DEF Init, QueueInv, QueueLinked, Once, Spells
<1>7. QED
  BY <1>1, <1>3, <1>4, <1>5, <1>6 DEF IInv, ListInv

LEMMA ListAppendInv ==
  ASSUME TypeOK, ListInv, NEW l \in Lists, NEW t \in Threads, list_append(l, t)
  PROVE  TypeOK' /\ ListInv'
<1>1. /\ op = "none" /\ OnNoList(t) /\ next' = [next EXCEPT ![t] = NULL]
      /\ popped' = popped /\ whead' = whead /\ wtail' = wtail /\ wnext' = wnext
      /\ woken' = woken /\ queue' = queue
  BY DEF list_append, waiterVars
<1>2. /\ next \in [Threads -> Pointers] /\ head \in [Lists -> Pointers]
      /\ next' \in [Threads -> Pointers] /\ next'[t] = NULL /\ NULL \in Pointers
      /\ t \in Pointers
  BY <1>1 DEF TypeOK, Pointers
<1>3. \A m \in Lists : Spells(head[m], next', content[m])
  BY <1>1, <1>2, ListFacts, SpellsElsewhere DEF OnNoList
<1>4. CASE head[l] = NULL
  <2>1. /\ head' = [head EXCEPT ![l] = t]
        /\ content' = [content EXCEPT ![l] = Append(@, t)]
        /\ op' = op /\ list' = list /\ thread' = thread /\ cursor' = cursor
    BY <1>4 DEF list_append
  <2>2. content[l] = <<>>
    BY <1>4, ListFacts, SpellsEnd
  <2>3. content' = [content EXCEPT ![l] = Append(<<>>, t)]
    BY <2>1, <2>2
  <2>4. /\ Append(<<>>, t) \in Seq(Threads) /\ Once(Append(<<>>, t))
        /\ \A u \in Threads : On(Append(<<>>, t), u) => u = t
    BY AppendOnce DEF Once, On
  <2>5. OthersWithout(l, t)
    BY <1>1 DEF OthersWithout, OnNoList
  <2>6. head' \in [Lists -> Pointers] /\ head'[l] = t /\ \A m \in Lists \ {l} : head'[m] = head[m]
    BY <1>2, <2>1
  <2>7. Spells(head'[l], next', Append(<<>>, t))
    BY <1>2, <2>6, SpellsOne
  <2>8. \A m \in Lists \ {l} : Spells(head'[m], next', content[m])
    BY <1>3, <2>6
  <2>9. \A u \in Threads : On(Append(<<>>, t), u) => OthersWithout(l, u)
    BY <2>4, <2>5
  <2>10. content' \in [Lists -> Seq(Threads)] /\ DistinctInv' /\ Linked'
    BY <2>3, <2>4, <2>7, <2>8, <2>9, ListUpdate
  <2>11. TypeOK'
    BY <1>1, <1>2, <2>1, <2>6, <2>10 DEF TypeOK
  <2>12. OpInv'
    BY <1>1, <2>1 DEF OpInv
  <2>13. QED
    BY <2>10, <2>11, <2>12 DEF ListInv
<1>5. CASE head[l] # NULL
  <2>1. /\ op' = "append" /\ list' = l /\ thread' = t /\ cursor' = head[l]
        /\ head' = head /\ content' = content
    BY <1>5 DEF list_append, begin
  <2>2. TypeOK'
    BY <1>1, <1>2, <2>1, ThreadListAssumption DEF TypeOK
  <2>3. DistinctInv' /\ Linked'
    BY <1>3, <2>1 DEF ListInv, DistinctInv, Linked
  <2>4. On(content[l], head[l])
    <3>1. content[l] # <<>> /\ content[l] \in Seq(Threads)
      BY <1>5, ListFacts, SpellsEnd
    <3>2. head[l] = content[l][1]
      BY <3>1, ListFacts DEF Spells
    <3>3. QED
      BY <3>1, <3>2 DEF On
  <2>5. OpInv'
    BY <1>1, <1>2, <2>1, <2>4 DEF OpInv, OnNoList
  <2>6. QED
    BY <2>2, <2>3, <2>5 DEF ListInv
<1>6. QED
  BY <1>4, <1>5

LEMMA AppendWalkInv ==
  ASSUME TypeOK, ListInv, append_walk
  PROVE  TypeOK' /\ ListInv'
<1>1. /\ op = "append" /\ next[cursor] # NULL /\ cursor' = next[cursor]
      /\ head' = head /\ next' = next /\ op' = op /\ list' = list /\ thread' = thread
      /\ content' = content /\ popped' = popped
      /\ whead' = whead /\ wtail' = wtail /\ wnext' = wnext /\ woken' = woken /\ queue' = queue
  BY DEF append_walk, waiterVars
<1>2. list \in Lists /\ On(content[list], cursor)
  BY <1>1 DEF TypeOK, ListInv, OpInv
<1> DEFINE s == content[list]
<1>3. s \in Seq(Threads) /\ Spells(head[list], next, s)
  BY <1>2, ListFacts
<1>4. PICK i \in 1..Len(s) : s[i] = cursor
  BY <1>2, <1>3 DEF On
<1>5. i + 1 \in 1..Len(s) /\ cursor' = s[i + 1]
  BY <1>1, <1>3, <1>4, SpellsEnd
<1>6. On(s, cursor') /\ cursor' \in Threads
  BY <1>3, <1>5 DEF On
<1>7. TypeOK'
  BY <1>1, <1>6 DEF TypeOK, Pointers
<1>8. DistinctInv' /\ Linked'
  BY <1>1 DEF ListInv, DistinctInv, Linked
<1>9. OpInv'
  BY <1>1, <1>6 DEF ListInv, OpInv, OnNoList
<1>10. QED
  BY <1>7, <1>8, <1>9 DEF ListInv

LEMMA AppendLinkInv ==
  ASSUME TypeOK, ListInv, append_link
  PROVE  TypeOK' /\ ListInv'
<1> DEFINE s == content[list]
<1>1. /\ op = "append" /\ next[cursor] = NULL
      /\ next' = [next EXCEPT ![cursor] = thread]
      /\ content' = [content EXCEPT ![list] = Append(s, thread)]
      /\ op' = "none" /\ thread' = NULL /\ cursor' = NULL /\ list' = list
      /\ head' = head /\ popped' = popped
      /\ whead' = whead /\ wtail' = wtail /\ wnext' = wnext /\ woken' = woken /\ queue' = queue
  BY DEF append_link, done, waiterVars
<1>2. thread \in Threads /\ list \in Lists
  BY <1>1, InProgress
<1>3. OnNoList(thread) /\ next[thread] = NULL /\ On(s, cursor)
  BY <1>1 DEF ListInv, OpInv
<1>4. /\ s \in Seq(Threads) /\ Once(s) /\ Spells(head[list], next, s)
      /\ \A u \in Threads : On(s, u) => OthersWithout(list, u)
  BY <1>2, ListFacts
<1>5. next \in [Threads -> Pointers] /\ head \in [Lists -> Pointers] /\ thread \in Pointers
  BY <1>2 DEF TypeOK, Pointers
<1>6. PICK i \in 1..Len(s) : s[i] = cursor
  BY <1>3, <1>4 DEF On
<1>7. cursor \in Threads /\ i = Len(s) /\ s # <<>>
  <2>1. cursor \in Threads /\ i = Len(s)
    BY <1>1, <1>4, <1>6, SpellsEnd
  <2>2. QED
    BY <1>4, <1>6, <2>1
<1>8. next' = [next EXCEPT ![s[Len(s)]] = thread] /\ next' \in [Threads -> Pointers]
  BY <1>1, <1>5, <1>6, <1>7
<1>9. ~On(s, thread) /\ OthersWithout(list, thread)
  BY <1>2, <1>3 DEF OnNoList, OthersWithout
<1>10. Spells(head'[list], next', Append(s, thread))
  <2>1. Spells(head[list], [next EXCEPT ![s[Len(s)]] = thread], Append(s, thread))
    BY <1>2, <1>3, <1>4, <1>5, <1>7, <1>9, SpellsAppend
  <2>2. QED
    BY <1>1, <1>8, <2>1
<1>11. \A m \in Lists \ {list} : Spells(head'[m], next', content[m])
  <2> SUFFICES ASSUME NEW m \in Lists \ {list} PROVE Spells(head'[m], next', content[m])
    OBVIOUS
  <2>1. ~On(content[m], cursor)
    BY <1>3, <1>4, <1>7 DEF OthersWithout
  <2>2. content[m] \in Seq(Threads) /\ Spells(head[m], next, content[m])
    BY ListFacts
  <2>3. QED
    BY <1>1, <1>5, <1>7, <2>1, <2>2, SpellsElsewhere
<1>12. /\ Append(s, thread) \in Seq(Threads) /\ Once(Append(s, thread))
       /\ \A u \in Threads : On(Append(s, thread), u) => OthersWithout(list, u)
  BY <1>2, <1>4, <1>9, AppendOnce
<1>13. content' \in [Lists -> Seq(Threads)] /\ DistinctInv' /\ Linked'
  BY <1>1, <1>2, <1>10, <1>11, <1>12, ListUpdate
<1>14. TypeOK'
  BY <1>1, <1>8, <1>13 DEF TypeOK, Pointers
<1>15. QED
  BY <1>1, <1>13, <1>14 DEF ListInv, OpInv

LEMMA ListPopInv ==
  ASSUME TypeOK, ListInv, NEW l \in Lists, list_pop(l)
  PROVE  TypeOK' /\ ListInv'
<1>1. /\ op = "none" /\ popped' = head[l]
      /\ whead' = whead /\ wtail' = wtail /\ wnext' = wnext /\ woken' = woken /\ queue' = queue
  BY DEF list_pop, waiterVars
<1>2. /\ next \in [Threads -> Pointers] /\ head \in [Lists -> Pointers]
      /\ head[l] \in Pointers /\ NULL \in Pointers
  BY DEF TypeOK, Pointers
<1>3. CASE head[l] = NULL
  <2>1. UNCHANGED threadVars
    BY <1>3 DEF list_pop
  <2>2. TypeOK'
    BY <1>1, <1>2, <2>1 DEF TypeOK, threadVars
  <2>3. QED
    BY <2>1, <2>2, ListUnchanged
<1>4. CASE head[l] # NULL
  <2> DEFINE s == content[l]
  <2>1. /\ head' = [head EXCEPT ![l] = next[head[l]]]
        /\ next' = [next EXCEPT ![head[l]] = NULL]
        /\ content' = [content EXCEPT ![l] = Tail(s)]
        /\ op' = op /\ list' = list /\ thread' = thread /\ cursor' = cursor
    BY <1>4 DEF list_pop
  <2>2. /\ s \in Seq(Threads) /\ Once(s) /\ Spells(head[l], next, s)
        /\ \A u \in Threads : On(s, u) => OthersWithout(l, u)
    BY ListFacts
  <2>3. s # <<>>
    BY <1>4, <2>2, SpellsEnd
  <2>4. /\ head[l] = s[1] /\ next[s[1]] \in Pointers
        /\ Spells(next[s[1]], [next EXCEPT ![s[1]] = NULL], Tail(s))
    BY <1>2, <2>2, <2>3, SpellsTail
  <2>5. /\ Tail(s) \in Seq(Threads) /\ Once(Tail(s)) /\ s[1] \in Threads /\ On(s, s[1])
        /\ \A u \in Threads : On(Tail(s), u) => On(s, u)
    BY <2>2, <2>3, TailOnce
  <2>6. /\ head' \in [Lists -> Pointers] /\ head'[l] = next[s[1]]
        /\ \A m \in Lists \ {l} : head'[m] = head[m]
    BY <1>2, <2>1, <2>4
  <2>7. next' = [next EXCEPT ![s[1]] = NULL] /\ next' \in [Threads -> Pointers]
    BY <1>2, <2>1, <2>4
  <2>8. Spells(head'[l], next', Tail(s))
    BY <2>4, <2>6, <2>7
  <2>9. \A m \in Lists \ {l} : Spells(head'[m], next', content[m])
    <3> SUFFICES ASSUME NEW m \in Lists \ {l} PROVE Spells(head'[m], next', content[m])
      OBVIOUS
    <3>1. ~On(content[m], s[1])
      BY <2>2, <2>5 DEF OthersWithout
    <3>2. content[m] \in Seq(Threads) /\ Spells(head[m], next, content[m])
      BY ListFacts
    <3>3. QED
      BY <1>2, <2>5, <2>6, <2>7, <3>1, <3>2, SpellsElsewhere
  <2>10. \A u \in Threads : On(Tail(s), u) => OthersWithout(l, u)
    BY <2>2, <2>5
  <2>11. content' \in [Lists -> Seq(Threads)] /\ DistinctInv' /\ Linked'
    BY <2>1, <2>5, <2>8, <2>9, <2>10, ListUpdate
  <2>12. TypeOK'
    BY <1>1, <1>2, <2>1, <2>6, <2>7, <2>11 DEF TypeOK
  <2>13. QED
    BY <1>1, <2>1, <2>11, <2>12 DEF ListInv, OpInv
<1>5. QED
  BY <1>3, <1>4

LEMMA ListRemoveInv ==
  ASSUME TypeOK, ListInv, NEW l \in Lists, NEW t \in Threads, list_remove(l, t)
  PROVE  TypeOK' /\ ListInv'
<1>1. /\ op = "none" /\ op' = "remove" /\ list' = l /\ thread' = t /\ cursor' = NULL
      /\ head' = head /\ next' = next /\ content' = content /\ popped' = popped
      /\ whead' = whead /\ wtail' = wtail /\ wnext' = wnext /\ woken' = woken /\ queue' = queue
  BY DEF list_remove, begin, waiterVars
<1>2. TypeOK'
  BY <1>1, ThreadListAssumption DEF TypeOK, Pointers
<1>3. DistinctInv' /\ Linked' /\ OpInv'
  BY <1>1 DEF ListInv, DistinctInv, Linked, OpInv
<1>4. QED
  BY <1>2, <1>3 DEF ListInv

\* What *pp is: the first element, or the one behind the cursor.
LEMMA AtPp ==
  ASSUME TypeOK, ListInv, op = "remove"
  PROVE  /\ list \in Lists
         /\ at_pp = NULL => ~On(content[list], thread)
         /\ at_pp # NULL =>
              \E i \in 1..Len(content[list]) :
                /\ content[list][i] = at_pp
                /\ \A k \in 1..(i - 1) : content[list][k] # thread
                /\ IF cursor = NULL THEN i = 1
                   ELSE i - 1 \in 1..(Len(content[list]) - 1) /\ content[list][i - 1] = cursor
<1> DEFINE s == content[list]
<1>1. list \in Lists /\ thread \in Threads
  BY InProgress
<1>2. /\ s \in Seq(Threads) /\ Spells(head[list], next, s)
      /\ DOMAIN s = 1..Len(s) /\ Len(s) \in Nat
  BY <1>1, ListFacts
<1>3. CASE cursor = NULL
  <2>1. at_pp = head[list]
    BY <1>3 DEF at_pp
  <2>2. at_pp = NULL => s = <<>>
    BY <1>2, <2>1, SpellsEnd
  <2>3. at_pp # NULL => s # <<>> /\ s[1] = at_pp
    BY <1>2, <2>1, SpellsEnd DEF Spells
  <2>4. at_pp # NULL => 1 \in 1..Len(s)
    BY <1>2, <2>3
  <2>5. at_pp = NULL => ~On(s, thread)
    BY <2>2 DEF On
  <2>6. \A k \in 1..(1 - 1) : s[k] # thread
    OBVIOUS
  <2>7. QED
    BY <1>1, <1>3, <2>3, <2>4, <2>5, <2>6
<1>4. CASE cursor # NULL
  <2>1. PICK i \in DOMAIN s : s[i] = cursor /\ \A k \in 1..i : s[k] # thread
    BY <1>4 DEF ListInv, OpInv
  <2>2. i \in 1..Len(s) /\ at_pp = next[s[i]]
    BY <1>2, <1>4, <2>1 DEF at_pp
  <2>3. /\ at_pp = NULL <=> i = Len(s)
        /\ i # Len(s) => i + 1 \in 1..Len(s) /\ at_pp = s[i + 1]
    BY <1>2, <2>2, SpellsEnd
  <2>4. at_pp = NULL => ~On(s, thread)
    BY <1>2, <2>1, <2>3 DEF On
  <2>5. at_pp # NULL =>
          /\ i + 1 \in 1..Len(s) /\ s[i + 1] = at_pp
          /\ \A k \in 1..((i + 1) - 1) : s[k] # thread
          /\ (i + 1) - 1 \in 1..(Len(s) - 1) /\ s[(i + 1) - 1] = cursor
    <3>1. (i + 1) - 1 = i
      BY <2>2
    <3>2. i # Len(s) => i \in 1..(Len(s) - 1)
      BY <1>2, <2>2
    <3>3. QED
      BY <2>1, <2>3, <3>1, <3>2
  <2>6. QED
    BY <1>1, <1>4, <2>4, <2>5
<1>5. QED
  BY <1>3, <1>4

LEMMA RemoveWalkInv ==
  ASSUME TypeOK, ListInv, remove_walk
  PROVE  TypeOK' /\ ListInv'
<1> DEFINE s == content[list]
<1>1. /\ op = "remove" /\ at_pp # thread /\ at_pp # NULL /\ cursor' = at_pp
      /\ head' = head /\ next' = next /\ op' = op /\ list' = list /\ thread' = thread
      /\ content' = content /\ popped' = popped
      /\ whead' = whead /\ wtail' = wtail /\ wnext' = wnext /\ woken' = woken /\ queue' = queue
  BY DEF remove_walk, waiterVars
<1>2. PICK i \in 1..Len(s) : s[i] = at_pp /\ \A k \in 1..(i - 1) : s[k] # thread
  BY <1>1, AtPp
<1>3. list \in Lists /\ s \in Seq(Threads) /\ DOMAIN s = 1..Len(s) /\ Len(s) \in Nat
  BY <1>1, InProgress, ListFacts
<1>4. at_pp \in Threads
  BY <1>2, <1>3
<1>5. \A k \in 1..i : s[k] # thread
  <2>1. \A k \in 1..i : k = i \/ k \in 1..(i - 1)
    BY <1>3
  <2>2. QED
    BY <1>1, <1>2, <2>1
<1>6. TypeOK'
  BY <1>1, <1>4 DEF TypeOK, Pointers
<1>7. DistinctInv' /\ Linked'
  BY <1>1 DEF ListInv, DistinctInv, Linked
<1>8. OpInv'
  BY <1>1, <1>2, <1>3, <1>5 DEF OpInv
<1>9. QED
  BY <1>6, <1>7, <1>8 DEF ListInv

LEMMA RemoveUnlinkInv ==
  ASSUME TypeOK, ListInv, remove_unlink
  PROVE  TypeOK' /\ ListInv'
<1> DEFINE s == content[list]
<1>1. /\ op = "remove" /\ at_pp = thread
      /\ content' = [content EXCEPT ![list] = Without(s, thread)]
      /\ op' = "none" /\ thread' = NULL /\ cursor' = NULL /\ list' = list
      /\ popped' = popped
      /\ whead' = whead /\ wtail' = wtail /\ wnext' = wnext /\ woken' = woken /\ queue' = queue
  BY DEF remove_unlink, done, waiterVars
<1>2. thread \in Threads /\ thread # NULL /\ list \in Lists
  BY <1>1, InProgress
<1>3. PICK i \in 1..Len(s) :
        /\ s[i] = thread
        /\ IF cursor = NULL THEN i = 1 ELSE i - 1 \in 1..(Len(s) - 1) /\ s[i - 1] = cursor
  BY <1>1, <1>2, AtPp
<1>4. /\ s \in Seq(Threads) /\ Once(s) /\ Spells(head[list], next, s)
      /\ \A u \in Threads : On(s, u) => OthersWithout(list, u)
      /\ DOMAIN s = 1..Len(s) /\ Len(s) \in Nat
  BY <1>2, ListFacts
<1>5. /\ next \in [Threads -> Pointers] /\ head \in [Lists -> Pointers]
      /\ next[thread] \in Pointers /\ NULL \in Pointers
  BY <1>2 DEF TypeOK, Pointers
<1>6. content' = [content EXCEPT ![list] = Cut(s, i)]
  BY <1>1, <1>3, <1>4, WithoutCuts
<1>7. /\ Cut(s, i) \in Seq(Threads) /\ Once(Cut(s, i))
      /\ \A u \in Threads : On(Cut(s, i), u) => OthersWithout(list, u)
  BY <1>4, CutPlaces, CutOnce
<1>8. /\ head' \in [Lists -> Pointers] /\ next' \in [Threads -> Pointers]
      /\ Spells(head'[list], next', Cut(s, i))
      /\ \A m \in Lists \ {list} : Spells(head'[m], next', content[m])
  <2>1. CASE cursor = NULL
    <3>1. head' = [head EXCEPT ![list] = next[thread]] /\ next' = next
      BY <2>1 DEF remove_unlink
    <3>2. i = 1 /\ s # <<>> /\ s[1] = thread
      BY <1>3, <1>4, <2>1
    <3>3. Spells(next[s[1]], next, Cut(s, 1))
      BY <1>4, <1>5, <3>2, SpellsCutHead
    <3>4. /\ head' \in [Lists -> Pointers] /\ head'[list] = next[thread]
          /\ \A m \in Lists \ {list} : head'[m] = head[m]
      BY <1>2, <1>5, <3>1
    <3>5. \A m \in Lists \ {list} : Spells(head[m], next, content[m])
      BY ListFacts
    <3>6. QED
      BY <1>5, <3>1, <3>2, <3>3, <3>4, <3>5
  <2>2. CASE cursor # NULL
    <3>1. next' = [next EXCEPT ![cursor] = next[thread]] /\ head' = head
      BY <2>2 DEF remove_unlink
    <3>2. PICK j \in 1..(Len(s) - 1) : j = i - 1 /\ s[j] = cursor
      BY <1>3, <2>2
    <3>3. i = j + 1 /\ j \in 1..Len(s)
      BY <1>4, <3>2
    <3>4. cursor \in Threads /\ On(s, cursor)
      BY <1>4, <3>2, <3>3 DEF On
    <3>5. next' = [next EXCEPT ![s[j]] = next[s[j + 1]]] /\ next' \in [Threads -> Pointers]
      BY <1>3, <1>5, <3>1, <3>2, <3>3, <3>4
    <3>6. Spells(head[list], [next EXCEPT ![s[j]] = next[s[j + 1]]], Cut(s, j + 1))
      BY <1>4, <1>5, SpellsCut
    <3>7. \A m \in Lists \ {list} : Spells(head[m], next', content[m])
      <4> SUFFICES ASSUME NEW m \in Lists \ {list} PROVE Spells(head[m], next', content[m])
        OBVIOUS
      <4>1. ~On(content[m], cursor)
        BY <1>4, <3>4 DEF OthersWithout
      <4>2. content[m] \in Seq(Threads) /\ Spells(head[m], next, content[m])
        BY ListFacts
      <4>3. QED
        BY <1>5, <3>1, <3>4, <4>1, <4>2, SpellsElsewhere
    <3>8. QED
      BY <1>5, <3>1, <3>3, <3>5, <3>6, <3>7
  <2>3. QED
    BY <2>1, <2>2
<1>9. content' \in [Lists -> Seq(Threads)] /\ DistinctInv' /\ Linked'
  BY <1>2, <1>6, <1>7, <1>8, ListUpdate
<1>10. TypeOK'
  BY <1>1, <1>8, <1>9 DEF TypeOK, Pointers
<1>11. QED
  BY <1>1, <1>9, <1>10 DEF ListInv, OpInv

LEMMA RemoveAbsentInv ==
  ASSUME TypeOK, ListInv, remove_absent
  PROVE  TypeOK' /\ ListInv'
<1>1. /\ op = "remove" /\ at_pp = NULL
      /\ content' = [content EXCEPT ![list] = Without(content[list], thread)]
      /\ op' = "none" /\ thread' = NULL /\ cursor' = NULL /\ list' = list
      /\ head' = head /\ next' = next /\ popped' = popped
      /\ whead' = whead /\ wtail' = wtail /\ wnext' = wnext /\ woken' = woken /\ queue' = queue
  BY DEF remove_absent, done, waiterVars
<1>2. content \in [Lists -> Seq(Threads)]
  BY DEF TypeOK
<1>3. Without(content[list], thread) = content[list]
  BY <1>1, AtPp DEF Without
<1>4. content' = content
  BY <1>1, <1>2, <1>3
<1>5. TypeOK'
  BY <1>1, <1>4 DEF TypeOK, Pointers
<1>6. DistinctInv' /\ Linked' /\ OpInv'
  BY <1>1, <1>4 DEF ListInv, DistinctInv, Linked, OpInv
<1>7. QED
  BY <1>5, <1>6 DEF ListInv
-----------------------------------------------------------------------------
(***************************************************************************)
(* The queue of a semaphore.                                               *)
(***************************************************************************)
LEMMA QueueFacts ==
  ASSUME TypeOK, QueueInv
  PROVE  /\ queue \in Seq(Threads) /\ Once(queue) /\ Spells(whead, wnext, queue)
         /\ wtail = NULL <=> queue = <<>>
         /\ queue # <<>> => wtail = queue[Len(queue)] /\ wtail \in Threads
<1>1. queue \in Seq(Threads) /\ Once(queue) /\ Spells(whead, wnext, queue)
  BY DEF TypeOK, QueueInv, QueueLinked
<1>2. wtail = IF queue = <<>> THEN NULL ELSE queue[Len(queue)]
  BY DEF QueueInv, QueueLinked
<1>3. queue # <<>> => queue[Len(queue)] \in Threads
  BY <1>1
<1>4. QED
  BY <1>1, <1>2, <1>3, ThreadListAssumption

LEMMA AppendWaiterInv ==
  ASSUME TypeOK, QueueInv, NEW t \in Threads, append_waiter(t)
  PROVE  TypeOK' /\ QueueInv'
<1>1. /\ ~On(queue, t) /\ wtail' = t /\ queue' = Append(queue, t)
      /\ popped' = popped /\ woken' = woken
      /\ head' = head /\ next' = next /\ op' = op /\ list' = list /\ thread' = thread
      /\ cursor' = cursor /\ content' = content
  BY DEF append_waiter, threadVars
<1>2. /\ queue \in Seq(Threads) /\ Once(queue) /\ Spells(whead, wnext, queue)
      /\ wnext \in [Threads -> Pointers] /\ whead \in Pointers
      /\ t \in Pointers /\ NULL \in Pointers
  BY QueueFacts DEF TypeOK, Pointers
<1>3. Append(queue, t) \in Seq(Threads) /\ Once(Append(queue, t))
  BY <1>1, <1>2, AppendOnce
<1>4. wtail' = Append(queue, t)[Len(Append(queue, t))] /\ Append(queue, t) # <<>>
  BY <1>1, <1>2
<1> DEFINE cleared == [wnext EXCEPT ![t] = NULL]
<1>5. cleared \in [Threads -> Pointers] /\ cleared[t] = NULL
  BY <1>2
<1>6. /\ whead' \in Pointers /\ wnext' \in [Threads -> Pointers]
      /\ Spells(whead', wnext', Append(queue, t))
  <2>1. CASE wtail = NULL
    <3>1. whead' = t /\ wnext' = cleared
      BY <2>1 DEF append_waiter
    <3>2. queue = <<>>
      BY <2>1, QueueFacts
    <3>3. Spells(t, cleared, Append(<<>>, t))
      BY <1>5, SpellsOne
    <3>4. QED
      BY <1>2, <1>5, <3>1, <3>2, <3>3
  <2>2. CASE wtail # NULL
    <3>1. whead' = whead /\ wnext' = [wnext EXCEPT ![t] = NULL, ![wtail] = t]
      BY <2>2 DEF append_waiter
    <3>2. queue # <<>> /\ wtail = queue[Len(queue)] /\ wtail \in Threads
      BY <2>2, QueueFacts
    <3>3. wnext' = [cleared EXCEPT ![queue[Len(queue)]] = t]
      BY <3>1, <3>2
    <3>4. Spells(whead, cleared, queue)
      BY <1>1, <1>2, SpellsElsewhere
    <3> HIDE DEF cleared
    <3>5. Spells(whead, [cleared EXCEPT ![queue[Len(queue)]] = t], Append(queue, t))
      BY <1>1, <1>2, <1>5, <3>2, <3>4, SpellsAppend
    <3>6. wnext' \in [Threads -> Pointers]
      BY <1>2, <1>5, <3>3
    <3>7. QED
      BY <1>2, <3>1, <3>3, <3>5, <3>6
  <2>3. QED
    BY <2>1, <2>2
<1>7. TypeOK'
  BY <1>1, <1>2, <1>3, <1>6 DEF TypeOK
<1>8. QueueInv'
  BY <1>1, <1>3, <1>4, <1>6 DEF QueueInv, QueueLinked
<1>9. QED
  BY <1>7, <1>8

LEMMA PopWaiterInv ==
  ASSUME TypeOK, QueueInv, pop_waiter
  PROVE  TypeOK' /\ QueueInv'
<1>1. /\ whead # NULL /\ woken' = whead /\ popped' = popped /\ whead' = wnext[whead]
      /\ wtail' = (IF wnext[whead] = NULL THEN NULL ELSE wtail)
      /\ queue' = Tail(queue) /\ wnext' = wnext
      /\ head' = head /\ next' = next /\ op' = op /\ list' = list /\ thread' = thread
      /\ cursor' = cursor /\ content' = content
  BY DEF pop_waiter, threadVars
<1>2. /\ queue \in Seq(Threads) /\ Once(queue) /\ Spells(whead, wnext, queue)
      /\ wnext \in [Threads -> Pointers] /\ whead \in Pointers /\ wtail \in Pointers
      /\ NULL \in Pointers
  BY QueueFacts DEF TypeOK, Pointers
<1>3. queue # <<>>
  BY <1>1, <1>2, SpellsEnd
<1>4. /\ whead = queue[1] /\ wnext[queue[1]] \in Pointers
      /\ wnext[queue[1]] = NULL <=> Tail(queue) = <<>>
      /\ Spells(wnext[queue[1]], wnext, Tail(queue))
  BY <1>2, <1>3, SpellsTail
<1>5. Tail(queue) \in Seq(Threads) /\ Once(Tail(queue))
  BY <1>2, <1>3, TailOnce
<1>6. Tail(queue) # <<>> => Tail(queue)[Len(Tail(queue))] = queue[Len(queue)]
  BY <1>2, <1>3
<1>7. wtail = queue[Len(queue)]
  BY <1>3, QueueFacts
<1>8. wtail' = IF Tail(queue) = <<>> THEN NULL ELSE Tail(queue)[Len(Tail(queue))]
  BY <1>1, <1>4, <1>6, <1>7
<1>9. TypeOK'
  BY <1>1, <1>2, <1>4, <1>5 DEF TypeOK
<1>10. QueueInv'
  BY <1>1, <1>4, <1>5, <1>8 DEF QueueInv, QueueLinked
<1>11. QED
  BY <1>9, <1>10
-----------------------------------------------------------------------------
LEMMA NextIInv ==
  ASSUME IInv, [Next]_vars
  PROVE  IInv'
<1>1. TypeOK /\ ListInv /\ QueueInv
  BY DEF IInv
<1>2. CASE ListNext
  <2>1. UNCHANGED waiterVars
    BY <1>2 DEF ListNext, Walk, append_walk, append_link, remove_walk, remove_unlink,
                remove_absent, list_append, list_remove, list_pop
  <2>2. TypeOK' /\ ListInv'
    BY <1>1, <1>2, ListAppendInv, AppendWalkInv, AppendLinkInv, ListPopInv, ListRemoveInv,
       RemoveWalkInv, RemoveUnlinkInv, RemoveAbsentInv DEF ListNext, Walk
  <2>3. QED
    BY <1>1, <2>1, <2>2, QueueUnchanged DEF IInv
<1>3. CASE (\E t \in Threads : append_waiter(t)) \/ pop_waiter
  <2>1. UNCHANGED threadVars
    BY <1>3 DEF append_waiter, pop_waiter
  <2>2. TypeOK' /\ QueueInv'
    BY <1>1, <1>3, AppendWaiterInv, PopWaiterInv
  <2>3. QED
    BY <1>1, <2>1, <2>2, ListUnchanged DEF IInv
<1>4. CASE UNCHANGED vars
  <2>1. UNCHANGED threadVars /\ UNCHANGED waiterVars /\ popped' = popped
    BY <1>4 DEF vars
  <2>2. TypeOK'
    BY <1>1, <2>1 DEF TypeOK, threadVars, waiterVars
  <2>3. QED
    BY <1>1, <2>1, <2>2, ListUnchanged, QueueUnchanged DEF IInv
<1>5. QED
  BY <1>2, <1>3, <1>4 DEF Next

\* thread.c:54, semaphore.c:70: the links and the sequences they stand for, a walk's
\* place in its list, and each thread on one list, once, in every reachable state.
THEOREM Inductive == Spec => []IInv
<1>1. Init => IInv
  BY InitIInv
<1>2. IInv /\ [Next]_vars => IInv'
  BY NextIInv
<1>3. QED
  BY <1>1, <1>2, PTL DEF Spec

\* thread.c:54: both lists are the sequences Scheduler takes them for, and no walk
\* leaves its list.
THEOREM ListsLinkedHolds == Spec => []ListsLinked
<1>1. IInv => ListsLinked
  <2> SUFFICES ASSUME IInv PROVE ListsLinked
    OBVIOUS
  <2>1. \A l \in Lists : Spells(head[l], next, content[l])
    BY DEF IInv, ListInv, Linked
  <2>2. op \in {"none", "append", "remove"}
    BY DEF IInv, TypeOK
  <2>3. op # "none" /\ cursor # NULL => On(content[list], cursor)
    BY <2>2 DEF IInv, ListInv, OpInv, On
  <2>4. QED
    BY <2>1, <2>3 DEF ListsLinked
<1>2. QED
  BY <1>1, Inductive, PTL

\* semaphore.c:70: the queue of waiters is the sequence Semaphore takes it for, and
\* tail is its last, or NULL.
THEOREM QueueLinkedHolds == Spec => []QueueLinked
<1>1. IInv => QueueLinked
  BY DEF IInv, QueueInv
<1>2. QED
  BY <1>1, Inductive, PTL
-----------------------------------------------------------------------------
(***************************************************************************)
(* What the callers see.  An operation takes effect at the step that ends  *)
(* it, and what is popped is the first of the sequence because Spells says *)
(* what head and the links are.                                            *)
(***************************************************************************)
\* list_append of a thread that is on no list, to an empty list or at the end of a walk.
LEMMA AppendInserts ==
  ASSUME NEW t \in Threads, NEW l \in Lists, OnNoList(t),
         content' = [content EXCEPT ![l] = Append(content[l], t)], popped' = popped
  PROVE  Abstract!AbstractNext
<1>1. Abstract!Insert(t, l)
  BY DEF Abstract!Insert, Abstract!OnNone, OnNoList, On
<1>2. QED
  BY <1>1 DEF Abstract!AbstractNext

LEMMA PopTakes ==
  ASSUME TypeOK, ListInv, NEW l \in Lists, list_pop(l)
  PROVE  Abstract!AbstractNext
<1>1. popped' = head[l] /\ content[l] \in Seq(Threads) /\ Spells(head[l], next, content[l])
  BY ListFacts DEF list_pop
<1>2. CASE head[l] = NULL
  <2>1. content[l] = <<>> /\ content' = content
    BY <1>1, <1>2, SpellsEnd DEF list_pop, threadVars
  <2>2. Abstract!TakeNothing(l)
    BY <1>1, <1>2, <2>1 DEF Abstract!TakeNothing
  <2>3. QED
    BY <2>2 DEF Abstract!AbstractNext
<1>3. CASE head[l] # NULL
  <2>1. content[l] # <<>> /\ content' = [content EXCEPT ![l] = Tail(content[l])]
    BY <1>1, <1>3, SpellsEnd DEF list_pop
  <2>2. head[l] = Head(content[l])
    BY <1>1, <2>1 DEF Spells
  <2>3. Abstract!Take(l)
    BY <1>1, <2>1, <2>2 DEF Abstract!Take
  <2>4. QED
    BY <2>3 DEF Abstract!AbstractNext
<1>4. QED
  BY <1>2, <1>3

LEMMA UnlinkRemoves ==
  ASSUME TypeOK, ListInv, remove_unlink
  PROVE  Abstract!AbstractNext
<1> DEFINE s == content[list]
<1>1. /\ op = "remove" /\ at_pp = thread /\ popped' = popped
      /\ content' = [content EXCEPT ![list] = Without(s, thread)]
  BY DEF remove_unlink
<1>2. thread # NULL /\ list \in Lists
  BY <1>1, InProgress
<1>3. PICK i \in 1..Len(s) : s[i] = thread
  BY <1>1, <1>2, AtPp
<1>4. s \in Seq(Threads) /\ Once(s) /\ DOMAIN s = 1..Len(s)
  BY <1>2, ListFacts
<1>5. content' = [content EXCEPT ![list] = Cut(s, i)]
  BY <1>1, <1>3, <1>4, WithoutCuts
<1>6. Abstract!Remove(i, list)
  BY <1>1, <1>3, <1>4, <1>5 DEF Abstract!Remove, Abstract!CutAt, Cut
<1>7. QED
  BY <1>2, <1>3, <1>4, <1>6 DEF Abstract!AbstractNext

\* A walk, and a remove that has just begun or that finds nothing, are not seen.
LEMMA Unseen ==
  ASSUME TypeOK, ListInv,
         \/ append_walk
         \/ \E l \in Lists, t \in Threads : list_remove(l, t)
         \/ remove_walk
         \/ remove_absent
  PROVE  UNCHANGED Abstract!avars
<1>1. CASE remove_absent
  <2>1. /\ op = "remove" /\ at_pp = NULL /\ popped' = popped
        /\ content' = [content EXCEPT ![list] = Without(content[list], thread)]
    BY <1>1 DEF remove_absent
  <2>2. Without(content[list], thread) = content[list] /\ content \in [Lists -> Seq(Threads)]
    BY <2>1, AtPp DEF Without, TypeOK
  <2>3. QED
    BY <2>1, <2>2 DEF Abstract!avars
<1>2. CASE append_walk \/ remove_walk \/ \E l \in Lists, t \in Threads : list_remove(l, t)
  BY <1>2 DEF append_walk, remove_walk, list_remove, Abstract!avars
<1>3. QED
  BY <1>1, <1>2

LEMMA ListsStep ==
  ASSUME TypeOK, ListInv, [Next]_vars
  PROVE  Abstract!AbstractNext \/ UNCHANGED Abstract!avars
<1>1. ASSUME NEW l \in Lists, NEW t \in Threads, list_append(l, t)
      PROVE  Abstract!AbstractNext \/ UNCHANGED Abstract!avars
  <2>1. OnNoList(t) /\ popped' = popped
    BY <1>1 DEF list_append
  <2>2. CASE head[l] = NULL
    BY <1>1, <2>1, <2>2, AppendInserts DEF list_append
  <2>3. CASE head[l] # NULL
    BY <1>1, <2>1, <2>3 DEF list_append, Abstract!avars
  <2>4. QED
    BY <2>2, <2>3
<1>2. CASE append_link
  <2>1. thread \in Threads /\ list \in Lists /\ OnNoList(thread)
    BY <1>2, InProgress DEF append_link, ListInv, OpInv
  <2>2. QED
    BY <1>2, <2>1, AppendInserts DEF append_link
<1>3. CASE (\E t \in Threads : append_waiter(t)) \/ pop_waiter \/ UNCHANGED vars
  BY <1>3 DEF append_waiter, pop_waiter, vars, threadVars, Abstract!avars
<1>4. QED
  BY <1>1, <1>2, <1>3, PopTakes, UnlinkRemoves, Unseen DEF Next, ListNext, Walk

\* The queue of a semaphore: the same promise, with one list.
LEMMA WaitersStep ==
  ASSUME TypeOK, QueueInv, [Next]_vars
  PROVE  Waiters!AbstractNext \/ UNCHANGED Waiters!avars
<1> DEFINE lists == [l \in {"queue"} |-> queue]
<1>1. lists["queue"] = queue /\ lists' = [l \in {"queue"} |-> queue']
  OBVIOUS
<1>2. ASSUME NEW t \in Threads, append_waiter(t)
      PROVE  Waiters!AbstractNext
  <2>1. ~On(queue, t) /\ queue' = Append(queue, t) /\ woken' = woken
    BY <1>2 DEF append_waiter
  <2>2. Waiters!Insert(t, "queue")
    BY <2>1 DEF Waiters!Insert, Waiters!OnNone, On
  <2>3. QED
    BY <2>2 DEF Waiters!AbstractNext
<1>3. CASE pop_waiter
  <2>1. whead # NULL /\ woken' = whead /\ queue' = Tail(queue)
    BY <1>3 DEF pop_waiter
  <2>2. queue \in Seq(Threads) /\ Spells(whead, wnext, queue)
    BY QueueFacts
  <2>3. queue # <<>> /\ whead = Head(queue)
    BY <2>1, <2>2, SpellsEnd DEF Spells
  <2>4. Waiters!Take("queue")
    BY <2>1, <2>3 DEF Waiters!Take
  <2>5. QED
    BY <2>4 DEF Waiters!AbstractNext
<1>4. CASE ListNext \/ UNCHANGED vars
  <2>1. UNCHANGED <<woken, queue>>
    BY <1>4 DEF ListNext, Walk, append_walk, append_link, remove_walk, remove_unlink,
                remove_absent, list_append, list_remove, list_pop, vars, waiterVars
  <2>2. QED
    BY <2>1 DEF Waiters!avars
<1>5. QED
  BY <1>2, <1>3, <1>4 DEF Next

\* thread.c, semaphore.c: the linked lists are first in, first out sequences of threads.
THEOREM ListsRefinement == Spec => ImplementsLists
<1>1. Init => Abstract!AbstractInit /\ Waiters!AbstractInit
  BY DEF Init, Abstract!AbstractInit, Waiters!AbstractInit
<1>2. IInv /\ [Next]_vars =>
        [Abstract!AbstractNext]_Abstract!avars /\ [Waiters!AbstractNext]_Waiters!avars
  BY ListsStep, WaitersStep DEF IInv
<1>3. QED
  BY <1>1, <1>2, Inductive, PTL
  DEF Spec, ImplementsLists, Abstract!AbstractSpec, Waiters!AbstractSpec
=============================================================================
