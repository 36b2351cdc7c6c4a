---------------------------- MODULE AccountProofs ---------------------------
(***************************************************************************)
(* The account of the physical pages: with a page to spare, and swap space *)
(* for all, every page a process has written is in a physical page of its  *)
(* own or in an entry of the swap table, and every physical page is in the *)
(* free list or holds such a page.  So no two pages are in one physical    *)
(* page, none is lost, and no step has an undefined effect.                *)
(***************************************************************************)
EXTENDS PagingProofs

\* the entries of the swap table s that are of page pg
Entries(s, pg) == {i \in 1..Len(s) : s[i].page = pg}

\* the keys of A that a has in page pg
AtPageOf(A, a, pg) == {m \in A : a[m] = pg}

(***************************************************************************)
(* The pages R that are in memory have a physical page each and the free   *)
(* list has the others; the pages A that are not have an entry each.  The  *)
(* address of a page is that of a.                                         *)
(***************************************************************************)
Private(R, a) == \A m, n \in R : a[m] = a[n] => m = n

Shared(R, a, free) ==
  \A pg \in Pages : Once(free, pg) /\ (Occurs(free, pg) <=> \A m \in R : a[m] # pg)

Entered(A, a, swap) ==
  /\ IsFiniteSet(A) /\ Cardinality(A) = Len(swap)
  /\ \A pg \in Pages : Cardinality(Entries(swap, pg)) = Cardinality(AtPageOf(A, a, pg))

Balanced(R, A, a, free, swap) ==
  /\ \A m \in R \cup A : a[m] \in Pages
  /\ Private(R, a) /\ Shared(R, a, free) /\ Entered(A, a, swap)

\* Only the addresses of the pages that are accounted for matter.
LEMMA BalancedSame ==
  ASSUME NEW R, NEW A, NEW a, NEW b, NEW free, NEW swap,
         Balanced(R, A, a, free, swap), \A m \in R \cup A : b[m] = a[m]
  PROVE  Balanced(R, A, b, free, swap)
<1>1. (\A m \in R \cup A : b[m] \in Pages) /\ Private(R, b) BY DEF Balanced, Private
<1>2. Shared(R, b, free)
  <2> SUFFICES ASSUME NEW pg \in Pages
               PROVE  Once(free, pg) /\ (Occurs(free, pg) <=> \A m \in R : b[m] # pg)
    BY DEF Shared
  <2>1. Once(free, pg) /\ (Occurs(free, pg) <=> \A m \in R : a[m] # pg)
    BY DEF Balanced, Shared
  <2> QED BY <2>1
<1>3. Entered(A, b, swap)
  <2>1. \A pg : AtPageOf(A, b, pg) = AtPageOf(A, a, pg) BY DEF AtPageOf
  <2> QED BY <2>1 DEF Balanced, Entered
<1> QED BY <1>1, <1>2, <1>3 DEF Balanced

\* A page that comes in takes the first free page.
LEMMA TakenBalanced ==
  ASSUME NEW R, NEW A, NEW a, NEW b, NEW free \in Seq(Pages), NEW swap,
         Balanced(R, A, a, free, swap), free # <<>>, NEW m, m \notin R \cup A,
         b[m] = Head(free), \A n \in R \cup A : b[n] = a[n]
  PROVE  Balanced(R \cup {m}, A, b, Tail(free), swap)
<1>1. Balanced(R, A, b, free, swap) BY BalancedSame
<1> DEFINE h == Head(free)
<1>2. /\ h \in Pages /\ Occurs(free, h)
      /\ \A x : Occurs(Tail(free), x) => Occurs(free, x)
      /\ \A x : Occurs(free, x) => Occurs(Tail(free), x) \/ x = h
      /\ \A x : Once(free, x) => Once(Tail(free), x) /\ (x = h => ~ Occurs(Tail(free), x))
  BY TailOccurs
<1>3. b[m] = h OBVIOUS
<1> HIDE DEF h
<1>4. \A n \in R : b[n] # h BY <1>1, <1>2 DEF Balanced, Shared
<1>5. \A n \in (R \cup {m}) \cup A : b[n] \in Pages BY <1>1, <1>2, <1>3 DEF Balanced
<1>6. Private(R \cup {m}, b) BY <1>1, <1>3, <1>4 DEF Balanced, Private
<1>7. Shared(R \cup {m}, b, Tail(free))
  <2> SUFFICES ASSUME NEW pg \in Pages
               PROVE  /\ Once(Tail(free), pg)
                      /\ Occurs(Tail(free), pg) <=> \A n \in R \cup {m} : b[n] # pg
    BY DEF Shared
  <2>1. Once(free, pg) /\ (Occurs(free, pg) <=> \A n \in R : b[n] # pg)
    BY <1>1 DEF Balanced, Shared
  <2>2. CASE pg = h BY <1>2, <1>3, <2>1, <2>2
  <2>3. CASE pg # h BY <1>2, <1>3, <2>1, <2>3
  <2> QED BY <2>2, <2>3
<1> QED BY <1>1, <1>5, <1>6, <1>7 DEF Balanced

\* A page that leaves memory gives its physical page back.
LEMMA GivenBalanced ==
  ASSUME NEW R, NEW A, NEW a, NEW free \in Seq(Pages), NEW swap,
         Balanced(R, A, a, free, swap), NEW m \in R
  PROVE  Balanced(R \ {m}, A, a, Append(free, a[m]), swap) /\ ~ Occurs(free, a[m])
<1> DEFINE h == a[m]
<1>1. h \in Pages /\ ~ Occurs(free, h) BY DEF Balanced, Shared
<1>2. /\ \A x : Occurs(Append(free, h), x) <=> Occurs(free, x) \/ x = h
      /\ \A x : Once(free, x) /\ (x = h => ~ Occurs(free, x)) => Once(Append(free, h), x)
  BY <1>1, AppendOccurs
<1>3. \A n \in R \ {m} : a[n] # h BY DEF Balanced, Private
<1>4. Shared(R \ {m}, a, Append(free, h))
  <2> SUFFICES ASSUME NEW pg \in Pages
               PROVE  /\ Once(Append(free, h), pg)
                      /\ Occurs(Append(free, h), pg) <=> \A n \in R \ {m} : a[n] # pg
    BY DEF Shared
  <2>1. Once(free, pg) /\ (Occurs(free, pg) <=> \A n \in R : a[n] # pg)
    BY DEF Balanced, Shared
  <2>2. CASE pg = h BY <1>1, <1>2, <1>3, <2>1, <2>2
  <2>3. CASE pg # h
    <3>1. a[m] # pg BY <2>3
    <3> HIDE DEF h
    <3> QED BY <1>2, <2>1, <2>3, <3>1
  <2> QED BY <2>2, <2>3
<1>5. Private(R \ {m}, a) /\ \A n \in (R \ {m}) \cup A : a[n] \in Pages
  BY DEF Balanced, Private
<1> QED BY <1>1, <1>4, <1>5 DEF Balanced

\* A page that leaves memory gets an entry of the swap table.
LEMMA NotedBalanced ==
  ASSUME NEW R, NEW A, NEW a, NEW free, NEW swap \in Seq(SwapEntry), NEW e \in SwapEntry,
         Balanced(R, A, a, free, swap), NEW m, m \notin A, a[m] = e.page
  PROVE  Balanced(R, A \cup {m}, a, free, Append(swap, e))
<1> DEFINE t == Append(swap, e)
           l == Len(swap) + 1
<1>1. e.page \in Pages BY DEF SwapEntry
<1>2. Entered(A, a, swap) BY DEF Balanced
<1>3. Len(t) = l /\ t[l] = e /\ (\A i \in 1..Len(swap) : t[i] = swap[i])
      /\ Len(swap) \in Nat
  OBVIOUS
<1> HIDE DEF t
<1>4. IsFiniteSet(A \cup {m}) /\ Cardinality(A \cup {m}) = Len(t)
  <2>1. IsFiniteSet(A) /\ Cardinality(A) = Len(swap) BY <1>2 DEF Entered
  <2>2. IsFiniteSet(A \cup {m}) /\ Cardinality(A \cup {m}) = Cardinality(A) + 1
    BY <2>1, FS_AddElement
  <2> QED BY <1>3, <2>1, <2>2
<1>5. ASSUME NEW pg \in Pages
      PROVE  Cardinality(Entries(t, pg)) = Cardinality(AtPageOf(A \cup {m}, a, pg))
  <2> DEFINE E == Entries(swap, pg)
             H == AtPageOf(A, a, pg)
  <2>1. IsFiniteSet(E)
    <3>1. IsFiniteSet(1..Len(swap)) BY <1>3, FS_Interval
    <3> QED BY <3>1, FS_Subset DEF Entries
  <2>2. IsFiniteSet(H) BY <1>2, FS_Subset DEF Entered, AtPageOf
  <2>3. Cardinality(E) = Cardinality(H) BY <1>2 DEF Entered
  <2>4. CASE e.page = pg
    <3>1. Entries(t, pg) = E \cup {l} BY <1>3, <2>4 DEF Entries
    <3>2. l \notin E BY <1>3 DEF Entries
    <3>3. AtPageOf(A \cup {m}, a, pg) = H \cup {m} /\ m \notin H BY <2>4 DEF AtPageOf
    <3> HIDE DEF E, H, l
    <3>4. Cardinality(E \cup {l}) = Cardinality(E) + 1 BY <2>1, <3>2, FS_AddElement
    <3>5. Cardinality(H \cup {m}) = Cardinality(H) + 1 BY <2>2, <3>3, FS_AddElement
    <3> QED BY <2>3, <3>1, <3>3, <3>4, <3>5
  <2>5. CASE e.page # pg
    <3>1. Entries(t, pg) = E BY <1>3, <2>5 DEF Entries
    <3>2. AtPageOf(A \cup {m}, a, pg) = H BY <2>5 DEF AtPageOf
    <3> QED BY <2>3, <3>1, <3>2
  <2> QED BY <2>4, <2>5
<1>6. Entered(A \cup {m}, a, t) BY <1>4, <1>5 DEF Entered
<1>7. \A n \in R \cup (A \cup {m}) : a[n] \in Pages BY <1>1 DEF Balanced
<1> QED BY <1>6, <1>7 DEF Balanced, t

\* The entry that is erased may be any of those of its page.
LEMMA StruckEntries ==
  ASSUME NEW swap \in Seq(SwapEntry), NEW i \in 1..Len(swap), NEW pg
  PROVE  /\ IsFiniteSet(Entries(swap, pg))
         /\ Cardinality(Entries(WithoutIndex(swap, i), pg)) =
              Cardinality(Entries(swap, pg) \ {i})
<1> DEFINE t == WithoutIndex(swap, i)
           E == Entries(swap, pg) \ {i}
           T == Entries(t, pg)
           f == [j \in T |-> IF j < i THEN j ELSE j + 1]
<1>0. Len(swap) \in Nat /\ i \in Nat /\ i <= Len(swap) /\ 1 <= i OBVIOUS
<1>1. /\ Len(t) = Len(swap) - 1
      /\ \A j \in 1..(Len(swap) - 1) : t[j] = IF j < i THEN swap[j] ELSE swap[j + 1]
  <2>1. t = [j \in 1..(Len(swap) - 1) |-> IF j < i THEN swap[j] ELSE swap[j + 1]]
    BY DEF WithoutIndex
  <2>2. Len(swap) - 1 \in Nat BY <1>0
  <2> QED BY <2>1, <2>2
<1>2. IsFiniteSet(Entries(swap, pg))
  <2>1. IsFiniteSet(1..Len(swap)) BY <1>0, FS_Interval
  <2> QED BY <2>1, FS_Subset DEF Entries
<1> HIDE DEF t
<1>3. \A j \in T : j \in 1..(Len(swap) - 1) /\ t[j].page = pg BY <1>1 DEF Entries
<1>4. f \in [T -> E]
  <2> SUFFICES ASSUME NEW j \in T PROVE (IF j < i THEN j ELSE j + 1) \in E OBVIOUS
  <2>1. j \in 1..(Len(swap) - 1) /\ t[j].page = pg BY <1>3
  <2>2. CASE j < i BY <1>0, <1>1, <2>1, <2>2 DEF Entries
  <2>3. CASE ~ j < i
    <3>1. j + 1 \in 1..Len(swap) /\ j + 1 # i BY <1>0, <2>1, <2>3
    <3>2. swap[j + 1].page = pg BY <1>1, <2>1, <2>3
    <3> QED BY <2>3, <3>1, <3>2 DEF Entries
  <2> QED BY <2>2, <2>3
<1>5. \A g \in E : \E j \in T : f[j] = g
  <2> SUFFICES ASSUME NEW g \in E PROVE \E j \in T : f[j] = g OBVIOUS
  <2>1. g \in 1..Len(swap) /\ g # i /\ swap[g].page = pg BY DEF Entries
  <2>2. CASE g < i
    <3>1. g \in 1..(Len(swap) - 1) BY <1>0, <2>1, <2>2
    <3>2. g \in T BY <1>1, <2>1, <2>2, <3>1 DEF Entries
    <3> QED BY <2>2, <3>2
  <2>3. CASE ~ g < i
    <3>1. g - 1 \in 1..(Len(swap) - 1) /\ ~ g - 1 < i /\ (g - 1) + 1 = g BY <1>0, <2>1, <2>3
    <3>2. t[g - 1] = swap[g] BY <1>1, <3>1
    <3>3. g - 1 \in T BY <1>1, <2>1, <3>1, <3>2 DEF Entries
    <3> QED BY <3>1, <3>3
  <2> QED BY <2>2, <2>3
<1>6. \A j, g \in T : f[j] = f[g] => j = g
  <2> SUFFICES ASSUME NEW j \in T, NEW g \in T, f[j] = f[g] PROVE j = g OBVIOUS
  <2>1. j \in Nat /\ g \in Nat BY <1>0, <1>3
  <2>2. (IF j < i THEN j ELSE j + 1) = (IF g < i THEN g ELSE g + 1) OBVIOUS
  <2> QED BY <1>0, <2>1, <2>2
<1> HIDE DEF E, T, f
<1>7. f \in Surjection(T, E) BY <1>4, <1>5 DEF Surjection
<1>8. f \in Injection(T, E) BY <1>4, <1>6 DEF Injection, IsInjective
<1>9. IsFiniteSet(E) BY <1>2, FS_Subset DEF E
<1>10. IsFiniteSet(T) /\ Cardinality(T) <= Cardinality(E) BY <1>8, <1>9, FS_Injection
<1>11. Cardinality(T) = Cardinality(E) BY <1>7, <1>8, <1>10, FS_Surjection
<1> QED BY <1>2, <1>11 DEF t, E, T

\* A page that comes back, or is given up, takes an entry of its number with it:
\* not always the one it left with.
LEMMA StruckBalanced ==
  ASSUME NEW R, NEW A, NEW a, NEW free, NEW swap \in Seq(SwapEntry),
         NEW i \in 1..Len(swap), Balanced(R, A, a, free, swap), NEW m \in A,
         a[m] = swap[i].page
  PROVE  Balanced(R, A \ {m}, a, free, WithoutIndex(swap, i))
<1> DEFINE t == WithoutIndex(swap, i)
<1>1. Entered(A, a, swap) BY DEF Balanced
<1>2. Len(t) = Len(swap) - 1
  <2>1. Len(swap) \in Nat /\ Len(swap) - 1 \in Nat OBVIOUS
  <2>2. t = [j \in 1..(Len(swap) - 1) |-> IF j < i THEN swap[j] ELSE swap[j + 1]]
    BY DEF WithoutIndex
  <2> QED BY <2>1, <2>2
<1> HIDE DEF t
<1>3. IsFiniteSet(A \ {m}) /\ Cardinality(A \ {m}) = Len(t)
  BY <1>1, <1>2, FS_RemoveElement DEF Entered
<1>4. ASSUME NEW pg \in Pages
      PROVE  Cardinality(Entries(t, pg)) = Cardinality(AtPageOf(A \ {m}, a, pg))
  <2> DEFINE E == Entries(swap, pg)
             H == AtPageOf(A, a, pg)
  <2>1. IsFiniteSet(E) /\ Cardinality(Entries(t, pg)) = Cardinality(E \ {i})
    BY StruckEntries DEF t
  <2>2. IsFiniteSet(H) BY <1>1, FS_Subset DEF Entered, AtPageOf
  <2>3. Cardinality(E) = Cardinality(H) BY <1>1 DEF Entered
  <2>4. CASE a[m] = pg
    <3>1. i \in E BY <2>4 DEF Entries
    <3>2. AtPageOf(A \ {m}, a, pg) = H \ {m} /\ m \in H BY <2>4 DEF AtPageOf
    <3> HIDE DEF E, H
    <3>3. Cardinality(E \ {i}) = Cardinality(E) - 1 BY <2>1, <3>1, FS_RemoveElement
    <3>4. Cardinality(H \ {m}) = Cardinality(H) - 1 BY <2>2, <3>2, FS_RemoveElement
    <3> QED BY <2>1, <2>3, <3>2, <3>3, <3>4
  <2>5. CASE a[m] # pg
    <3>1. E \ {i} = E BY <2>5 DEF Entries
    <3>2. AtPageOf(A \ {m}, a, pg) = H BY <2>5 DEF AtPageOf
    <3> QED BY <2>1, <2>3, <3>1, <3>2
  <2> QED BY <2>4, <2>5
<1>5. Entered(A \ {m}, a, t) BY <1>3, <1>4 DEF Entered
<1>6. \A n \in R \cup (A \ {m}) : a[n] \in Pages BY DEF Balanced
<1> QED BY <1>5, <1>6 DEF Balanced, t

\* A page that is not in memory has an entry.
LEMMA AbsentIsSwapped ==
  ASSUME NEW R, NEW A, NEW a, NEW pmem \in PageMemories,
         Balanced(R, A, a, pmem.free, pmem.swap), NEW m \in A
  PROVE  a[m] \in Pages /\ Swapped(pmem, a[m])
<1> DEFINE H == AtPageOf(A, a, a[m])
<1>1. a[m] \in Pages BY DEF Balanced
<1>2. IsFiniteSet(A) /\ Cardinality(Entries(pmem.swap, a[m])) = Cardinality(H)
  BY <1>1 DEF Balanced, Entered
<1>3. IsFiniteSet(H) /\ H # {} BY <1>2, FS_Subset DEF AtPageOf
<1>4. Entries(pmem.swap, a[m]) # {}
  <2> HIDE DEF H
  <2> QED BY <1>2, <1>3, FS_EmptySet
<1> QED BY <1>1, <1>4 DEF Entries, Swapped

-----------------------------------------------------------------------------
(* What the operations on the swap space do to the lists *)

\* pg_swap_out(pg) with a free block: the page is free, and has an entry.
LEMMA SwappedOutLists ==
  ASSUME NEW m \in PageMemories, NEW pg \in Pages, FreeBlocks(m) # {}
  PROVE  /\ SwappedOut(m, pg).free = Append(m.free, pg)
         /\ Len(SwappedOut(m, pg).files) = Len(m.files)
         /\ \E e \in SwapEntry : /\ e.page = pg
                                 /\ SwappedOut(m, pg).swap = Append(m.swap, e)
<1> DEFINE e == [page |-> pg, blk |-> FreeBlock(m), count |-> m.count[pg]]
<1>1. FreeBlock(m) \in Nat /\ FileOf(FreeBlock(m)) \in 1..Len(m.files) BY FreeBlockIsFree
<1>2. m.count[pg] \in Nat BY DEF PageMemories
<1>3. e \in SwapEntry /\ e.page = pg BY <1>1, <1>2 DEF SwapEntry
<1>4. /\ SwappedOut(m, pg).free = Append(m.free, pg)
      /\ SwappedOut(m, pg).swap = Append(m.swap, e)
      /\ SwappedOut(m, pg).files = m.files
  BY DEF SwappedOut
<1> QED BY <1>3, <1>4

\* release_swap(pg): one entry of the page is erased.
LEMMA ReleasedLists ==
  ASSUME NEW m, Sound(m), NEW pg, Swapped(m, pg)
  PROVE  /\ Released(m, pg).free = m.free /\ Released(m, pg).files = m.files
         /\ FirstEntry(m, pg) \in 1..Len(m.swap) /\ m.swap[FirstEntry(m, pg)].page = pg
         /\ Released(m, pg).swap = WithoutIndex(m.swap, FirstEntry(m, pg))
<1>1. m \in PageMemories BY DEF Sound
<1>2. FirstEntry(m, pg) \in 1..Len(m.swap) /\ m.swap[FirstEntry(m, pg)].page = pg
  <2> DEFINE T == {i \in 1..Len(m.swap) : m.swap[i].page = pg}
  <2>1. T # {} /\ T \in SUBSET Nat BY DEF Swapped
  <2>2. PICK i \in T : \A j \in T : i <= j
    <3> HIDE DEF T
    <3> QED BY <2>1, LeastNat
  <2>3. i \in 1..Len(m.swap) /\ m.swap[i].page = pg
        /\ \A j \in 1..(i - 1) : m.swap[j].page # pg
    <3>1. \A j \in 1..(i - 1) : j \in 1..Len(m.swap) /\ ~ i <= j BY <1>1 DEF PageMemories
    <3> QED BY <2>2, <3>1
  <2> QED BY <2>3 DEF FirstEntry
<1>3. Released(m, pg).swap = WithoutIndex(m.swap, FirstEntry(m, pg))
  BY <1>1 DEF Released, PageMemories
<1> QED BY <1>2, <1>3, ReleasedSound

\* pg_swap_in(pg): one entry of the page is erased, and the first free page taken.
LEMMA SwappedInLists ==
  ASSUME NEW m, Sound(m), NEW pg, Swapped(m, pg), m.free # <<>>
  PROVE  /\ SwappedIn(m, pg).free = Tail(m.free) /\ SwapInPage(m, pg) = Head(m.free)
         /\ SwappedIn(m, pg).swap = WithoutIndex(m.swap, FirstEntry(m, pg))
         /\ Len(SwappedIn(m, pg).files) = Len(m.files)
         /\ FreeBlocks(SwappedIn(m, pg)) # {}
<1> DEFINE r == Released(m, pg)
           b == Entry(m, pg).blk
<1>1. /\ Sound(r) /\ r.free = m.free /\ r.files = m.files /\ b \in m.used
      /\ r.used = m.used \ {b}
  BY ReleasedSound
<1>2. r.swap = WithoutIndex(m.swap, FirstEntry(m, pg)) BY ReleasedLists
<1>3. r \in PageMemories /\ m \in PageMemories /\ Matches(m) BY <1>1 DEF Sound
<1>4. b \in Nat /\ FileOf(b) \in 1..Len(m.files) BY <1>1, <1>3 DEF Matches, PageMemories
<1>5. SwappedIn(m, pg) = [Allocated(r) EXCEPT !.count[NextPage(m)] = Entry(m, pg).count,
                                             !.size = ReadSwap(m, b)]
  BY DEF SwappedIn
<1> HIDE DEF r, b
<1>6. /\ SwappedIn(m, pg).free = Tail(m.free) /\ SwappedIn(m, pg).swap = r.swap
      /\ SwappedIn(m, pg).used = r.used /\ SwappedIn(m, pg).files = m.files
  BY <1>1, <1>3, <1>5 DEF Allocated, PageMemories
<1>7. Len(SwappedIn(m, pg).files) = Len(m.files) BY <1>6
<1>8. b \in FreeBlocks(SwappedIn(m, pg))
  <2>1. b \notin r.used BY <1>1
  <2>2. b \in 0..(PerFile * Len(m.files) - 1)
    <3> DEFINE l == Len(m.files)
               q == b \div PerFile
    <3>1. l \in Nat /\ q + 1 <= l BY <1>3, <1>4 DEF FileOf, PageMemories
    <3>2. q \in Nat /\ b < PerFile * q + PerFile BY <1>4, PageAssumption, DivBounds
    <3> HIDE DEF l, q
    <3>3. PerFile * (q + 1) <= PerFile * l BY <3>1, <3>2, PageAssumption
    <3>4. b < PerFile * l BY <3>1, <3>2, <3>3, <1>4, PageAssumption
    <3>5. PerFile * l \in Nat BY <3>1, PageAssumption
    <3> QED BY <1>4, <3>4, <3>5 DEF l
  <2> QED BY <1>6, <1>7, <2>1, <2>2 DEF FreeBlocks
<1>9. SwapInPage(m, pg) = Head(m.free) BY DEF SwapInPage, NextPage
<1> QED BY <1>2, <1>6, <1>7, <1>8, <1>9

\* alloc_page(): the first free page is taken, and the swap space left alone.
LEMMA AllocatedLists ==
  ASSUME NEW m \in PageMemories, m.free # <<>>
  PROVE  /\ Allocated(m).free = Tail(m.free) /\ NextPage(m) = Head(m.free)
         /\ Allocated(m).swap = m.swap /\ Allocated(m).files = m.files
         /\ FreeBlocks(Allocated(m)) = FreeBlocks(m)
<1>1. /\ Allocated(m).free = Tail(m.free) /\ Allocated(m).swap = m.swap
      /\ Allocated(m).files = m.files /\ Allocated(m).used = m.used
  BY DEF Allocated, PageMemories
<1> QED BY <1>1 DEF NextPage, FreeBlocks

-----------------------------------------------------------------------------
(* What alloc_frame() does to the page table *)

\* The page that leaves keeps its address, and nothing else changes.
LEMMA PlacedPages ==
  ASSUME NEW k \in VirtMemories, Counted(k), Exact(k), NEW v \in VPages,
         ~ InFrame(k, v), k.page[v].present, Full(k) => Candidates(k) # {}
  PROVE  LET n == Placed(k, v)
             e == Evicted(k)
         IN  /\ ~ Full(k) => n.page = k.page
             /\ Full(k) => /\ e \in VPages \ {0, v} /\ k.page[e].present
                           /\ \A w \in VPages : w # e => n.page[w] = k.page[w]
                           /\ ~ n.page[e].present /\ n.page[e].refed = k.page[e].refed
                           /\ n.page[e].addr = k.page[e].addr
<1> DEFINE e == Evicted(k)
<1>1. CASE ~ Full(k)
  <2>1. Placed(k, v) = Framed(k, v) BY <1>1 DEF Placed
  <2>2. Framed(k, v) = [k EXCEPT !.frame = [k.frame EXCEPT ![EmptyFrame(k)] = v],
                                 !.nmapped = k.nmapped + 1]
    BY DEF Framed
  <2>3. Framed(k, v).page = k.page BY <2>2 DEF VirtMemories
  <2> QED BY <1>1, <2>1, <2>3
<1>2. CASE Full(k)
  <2> DEFINE r == Replaced(k)
             t == [k.page[e] EXCEPT !.present = FALSE]
  <2>1. Candidates(k) # {} BY <1>2
  <2>2. e \in VPages \ {0, v} /\ k.page[e].present BY <1>2, <2>1, ReplacedExact
  <2>3. r = [k EXCEPT !.page = [k.page EXCEPT ![e] = t],
                      !.frame = [k.frame EXCEPT ![Oldest(k)] = Empty], !.nmapped = k.nmapped - 1]
    BY DEF Replaced
  <2>4. ~ t.present /\ t.refed = k.page[e].refed /\ t.addr = k.page[e].addr
    <3>1. k.page[e] \in PageEntry BY <2>2, FrameFacts
    <3> QED BY <3>1 DEF PageEntry
  <2>5. r \in VirtMemories
    <3>1. FramedAll(k, {}) BY DEF FramedAll
    <3> QED BY <1>2, <2>1, <3>1, ReplacedKeeps
  <2>6. Placed(k, v) = Framed(r, v) BY <1>2 DEF Placed
  <2> HIDE DEF t, e
  <2>7. r.page = [k.page EXCEPT ![e] = t] BY <2>3 DEF VirtMemories
  <2> HIDE DEF r
  <2>8. Framed(r, v) = [r EXCEPT !.frame = [r.frame EXCEPT ![EmptyFrame(r)] = v],
                                 !.nmapped = r.nmapped + 1]
    BY DEF Framed
  <2>9. Placed(k, v).page = [k.page EXCEPT ![e] = t] BY <2>5, <2>6, <2>7, <2>8 DEF VirtMemories
  <2>10. k.page \in [VPages -> PageEntry] BY FrameFacts
  <2> QED BY <1>2, <2>2, <2>4, <2>9, <2>10 DEF e
<1> QED BY <1>1, <1>2

\* With two frames or more there is always a page to evict.
LEMMA CandidateIsThere ==
  ASSUME NEW k \in VirtMemories, Exact(k), Len(k.frame) \notin {0, 1}
  PROVE  Candidates(k) # {}
<1>1. Len(k.frame) \in Nat BY FrameFacts
<1>2. 1 \in 1..Len(k.frame) /\ 2 \in 1..Len(k.frame)
  <2> DEFINE l == Len(k.frame)
  <2>1. l \in Nat /\ l # 0 /\ l # 1 BY <1>1
  <2> HIDE DEF l
  <2>2. 1 \in 1..l /\ 2 \in 1..l BY <2>1
  <2> QED BY <2>2 DEF l
<1>3. ~ (k.frame[1] = 0 /\ k.frame[2] = 0)
  <2> SUFFICES ASSUME k.frame[1] = 0, k.frame[2] = 0 PROVE FALSE OBVIOUS
  <2>1. 0 # Empty BY DEF Empty
  <2>2. 2 = 1 BY <1>2, <2>1 DEF Exact
  <2> QED BY <2>2
<1> QED BY <1>2, <1>3 DEF Candidates

-----------------------------------------------------------------------------
(* Which pages are in memory, and where *)

\* of the memories f of the processes L
Here(f, L) ==
  {m \in Procs \X VPages : /\ m[1] \in L /\ f[m[1]].page[m[2]].refed
                           /\ f[m[1]].page[m[2]].present}
Away(f, L) ==
  {m \in Procs \X VPages : /\ m[1] \in L /\ f[m[1]].page[m[2]].refed
                           /\ ~ f[m[1]].page[m[2]].present}
Addr(f) == [m \in Procs \X VPages |-> f[m[1]].page[m[2]].addr]

AccountOf(f, L, free, swap) == Balanced(Here(f, L), Away(f, L), Addr(f), free, swap)

\* When no memory is being deleted these are the pages the properties speak of.
LEMMA CalmPages ==
  ASSUME dying = NoProc
  PROVE  Resident = Here(vm, live) /\ Absent = Away(vm, live)
<1>1. \A p \in Procs : p # dying BY PagingAssumption
<1> QED BY <1>1 DEF Resident, Absent, Held, Page, Here, Away

\* The same of the next state.
LEMMA CalmPagesNext ==
  ASSUME dying' = NoProc
  PROVE  Resident' = Here(vm', live') /\ Absent' = Away(vm', live')
<1>1. \A p \in Procs : p # dying' BY PagingAssumption
<1> QED BY <1>1 DEF Resident, Absent, Held, Page, Here, Away

\* A page is known by its process and its number.
LEMMA PageKeys ==
  ASSUME NEW x \in Procs \X VPages, NEW p, NEW v
  PROVE  /\ x[1] \in Procs /\ x[2] \in VPages /\ x = <<x[1], x[2]>>
         /\ x # <<p, v>> => x[1] # p \/ x[2] # v
<1>1. x[1] \in Procs /\ x[2] \in VPages /\ x = <<x[1], x[2]>> OBVIOUS
<1>2. x[1] = p /\ x[2] = v => x = <<p, v>> BY <1>1
<1> QED BY <1>1, <1>2

\* b is k with page v in memory, or without
Gains(k, b, v) ==
  /\ \A w \in VPages : w # v => b.page[w] = k.page[w]
  /\ b.page[v].refed /\ b.page[v].present

Loses(k, b, v) ==
  /\ k.page[v].refed /\ k.page[v].present
  /\ \A w \in VPages : w # v => b.page[w] = k.page[w]
  /\ b.page[v].refed /\ ~ b.page[v].present /\ b.page[v].addr = k.page[v].addr

\* k is the memory of p, or p is new and no page of k was written
Starts(f, L, p, k) ==
  /\ p \in L => f[p] = k
  /\ p \notin L => \A w \in VPages : ~ k.page[w].refed

\* what is seen of it: page x came to address pg, or left it
SeenIn(f, L, g, K, x, pg) ==
  /\ Here(g, K) = Here(f, L) \cup {x} /\ Away(g, K) = Away(f, L) \ {x}
  /\ \A y \in Here(f, L) \cup Away(f, L) : y # x => Addr(g)[y] = Addr(f)[y]
  /\ Addr(g)[x] = pg

SeenOut(f, L, g, x, pg) ==
  /\ Here(g, L) = Here(f, L) \ {x} /\ x \in Here(f, L)
  /\ Away(g, L) = Away(f, L) \cup {x} /\ x \notin Away(f, L)
  /\ Addr(g) = Addr(f) /\ Addr(f)[x] = pg

\* Page v of p comes in; the process may be a new one, that had no page.
LEMMA PageEnters ==
  ASSUME NEW f \in [Procs -> VirtMemories], NEW L \in SUBSET Procs, NEW p \in Procs,
         NEW k, Starts(f, L, p, k), NEW v \in VPages, NEW b, Gains(k, b, v),
         NEW g, g = [f EXCEPT ![p] = b]
  PROVE  SeenIn(f, L, g, L \cup {p}, <<p, v>>, b.page[v].addr)
<1> DEFINE x == <<p, v>>
           K == L \cup {p}
<1> USE DEF Starts, Gains
<1>1. x \in Procs \X VPages /\ x[1] = p /\ x[2] = v OBVIOUS
<1>2. \A q \in Procs : g[q] = IF q = p THEN b ELSE f[q] OBVIOUS
<1>3. \A y \in Procs \X VPages :
        /\ y[1] \in Procs /\ y[2] \in VPages /\ (y # x => y[1] # p \/ y[2] # v)
        /\ Addr(f)[y] = f[y[1]].page[y[2]].addr /\ Addr(g)[y] = g[y[1]].page[y[2]].addr
  BY PageKeys DEF Addr
<1> HIDE DEF x
<1>4. ASSUME NEW y \in Procs \X VPages, y # x
      PROVE  /\ y \in Here(g, K) <=> y \in Here(f, L)
             /\ y \in Away(g, K) <=> y \in Away(f, L)
             /\ y \in Here(f, L) \cup Away(f, L) => Addr(g)[y] = Addr(f)[y]
  <2>1. y[1] \in Procs /\ y[2] \in VPages /\ (y[1] # p \/ y[2] # v) BY <1>3, <1>4
  <2>2. CASE y[1] # p
    <3>1. g[y[1]] = f[y[1]] /\ (y[1] \in K <=> y[1] \in L) BY <1>2, <2>1, <2>2
    <3>2. Addr(f)[y] = f[y[1]].page[y[2]].addr /\ Addr(g)[y] = g[y[1]].page[y[2]].addr
      BY <1>3
    <3>3. y \in Here(g, K) <=> y \in Here(f, L) BY <3>1 DEF Here
    <3>4. y \in Away(g, K) <=> y \in Away(f, L) BY <3>1 DEF Away
    <3> QED BY <3>1, <3>2, <3>3, <3>4
  <2>3. CASE y[1] = p /\ y[2] # v
    <3>1. g[y[1]].page[y[2]] = k.page[y[2]] /\ y[1] \in K BY <1>2, <2>1, <2>3
    <3>2. y[1] \in L => f[y[1]].page[y[2]] = k.page[y[2]] BY <2>3
    <3>3. y[1] \notin L => ~ k.page[y[2]].refed BY <2>1, <2>3
    <3>4. y \in Here(g, K) <=> k.page[y[2]].refed /\ k.page[y[2]].present BY <3>1 DEF Here
    <3>5. y \in Away(g, K) <=> k.page[y[2]].refed /\ ~ k.page[y[2]].present BY <3>1 DEF Away
    <3>6. y \in Here(f, L) <=> y[1] \in L /\ k.page[y[2]].refed /\ k.page[y[2]].present
      BY <3>2 DEF Here
    <3>7. y \in Away(f, L) <=> y[1] \in L /\ k.page[y[2]].refed /\ ~ k.page[y[2]].present
      BY <3>2 DEF Away
    <3>8. y[1] \in L => Addr(g)[y] = Addr(f)[y]
      <4>1. Addr(f)[y] = f[y[1]].page[y[2]].addr /\ Addr(g)[y] = g[y[1]].page[y[2]].addr
        BY <1>3
      <4> QED BY <3>1, <3>2, <4>1
    <3>9. y \in Here(g, K) <=> y \in Here(f, L) BY <3>3, <3>4, <3>6
    <3>10. y \in Away(g, K) <=> y \in Away(f, L) BY <3>3, <3>5, <3>7
    <3>11. y \in Here(f, L) \cup Away(f, L) => Addr(g)[y] = Addr(f)[y] BY <3>6, <3>7, <3>8
    <3> QED BY <3>9, <3>10, <3>11
  <2>4. y[1] # p \/ (y[1] = p /\ y[2] # v) BY <2>1
  <2> HIDE DEF K
  <2> QED BY <2>2, <2>3, <2>4
<1>5. x \in Here(g, K) /\ x \notin Away(g, K) /\ Addr(g)[x] = b.page[v].addr
  <2>1. g[x[1]] = b /\ x[1] \in K BY <1>1, <1>2
  <2> QED BY <1>1, <1>3, <2>1 DEF Here, Away
<1>6. /\ Here(f, L) \in SUBSET (Procs \X VPages) /\ Away(f, L) \in SUBSET (Procs \X VPages)
      /\ Here(g, K) \in SUBSET (Procs \X VPages) /\ Away(g, K) \in SUBSET (Procs \X VPages)
  BY DEF Here, Away
<1>7. Here(g, K) = Here(f, L) \cup {x} BY <1>1, <1>4, <1>5, <1>6
<1>8. Away(g, K) = Away(f, L) \ {x} BY <1>1, <1>4, <1>5, <1>6
<1> QED BY <1>4, <1>5, <1>6, <1>7, <1>8 DEF x, K, SeenIn

\* Page e of p leaves, and keeps its address.
LEMMA PageLeaves ==
  ASSUME NEW f \in [Procs -> VirtMemories], NEW L \in SUBSET Procs, NEW p \in L,
         NEW e \in VPages, NEW n, Loses(f[p], n, e), NEW g, g = [f EXCEPT ![p] = n]
  PROVE  SeenOut(f, L, g, <<p, e>>, f[p].page[e].addr)
<1> DEFINE x == <<p, e>>
<1> USE DEF Loses
<1>1. x \in Procs \X VPages /\ x[1] = p /\ x[2] = e OBVIOUS
<1>2. \A q \in Procs : g[q] = IF q = p THEN n ELSE f[q] OBVIOUS
<1>3. \A y \in Procs \X VPages :
        /\ y[1] \in Procs /\ y[2] \in VPages /\ (y # x => y[1] # p \/ y[2] # e)
        /\ Addr(f)[y] = f[y[1]].page[y[2]].addr /\ Addr(g)[y] = g[y[1]].page[y[2]].addr
  BY PageKeys DEF Addr
<1> HIDE DEF x
<1>4. ASSUME NEW y \in Procs \X VPages, y # x
      PROVE  g[y[1]].page[y[2]] = f[y[1]].page[y[2]]
  BY <1>2, <1>3, <1>4
<1>5. ASSUME NEW y \in Procs \X VPages, y # x
      PROVE  /\ y \in Here(g, L) <=> y \in Here(f, L)
             /\ y \in Away(g, L) <=> y \in Away(f, L)
             /\ Addr(g)[y] = Addr(f)[y]
  <2>1. g[y[1]].page[y[2]] = f[y[1]].page[y[2]] BY <1>4, <1>5
  <2>2. Addr(g)[y] = Addr(f)[y]
    <3>1. Addr(f)[y] = f[y[1]].page[y[2]].addr /\ Addr(g)[y] = g[y[1]].page[y[2]].addr
      BY <1>3
    <3> QED BY <2>1, <3>1
  <2>3. y \in Here(g, L) <=> y \in Here(f, L) BY <2>1 DEF Here
  <2>4. y \in Away(g, L) <=> y \in Away(f, L) BY <2>1 DEF Away
  <2> QED BY <2>2, <2>3, <2>4
<1>6. /\ x \in Here(f, L) /\ x \notin Away(f, L) /\ x \notin Here(g, L) /\ x \in Away(g, L)
      /\ Addr(g)[x] = Addr(f)[x] /\ Addr(f)[x] = f[p].page[e].addr
  <2>1. g[x[1]] = n BY <1>1, <1>2
  <2> QED BY <1>1, <1>3, <2>1 DEF Here, Away
<1>7. /\ Here(f, L) \in SUBSET (Procs \X VPages) /\ Away(f, L) \in SUBSET (Procs \X VPages)
      /\ Here(g, L) \in SUBSET (Procs \X VPages) /\ Away(g, L) \in SUBSET (Procs \X VPages)
  BY DEF Here, Away
<1>8. Here(g, L) = Here(f, L) \ {x} BY <1>5, <1>6, <1>7
<1>9. Away(g, L) = Away(f, L) \cup {x} BY <1>5, <1>6, <1>7, <1>1
<1>10. Addr(g) = Addr(f)
  <2>1. \A y \in Procs \X VPages : Addr(g)[y] = Addr(f)[y] BY <1>5, <1>6
  <2> QED BY <2>1 DEF Addr
<1> QED BY <1>6, <1>8, <1>9, <1>10 DEF x, SeenOut

\* page v of b wants a frame, which it finds, or a free block for another page
Awaits(b, v) ==
  /\ Counted(b) /\ Exact(b) /\ FramedAll(b, VPages \ {v})
  /\ ~ InFrame(b, v) /\ b.page[v].present

Fitting(m, b) == CanPlace(m, b) /\ (Full(b) => FreeBlocks(m) # {})

\* the account with memory s, that has the swap files of m
Booked(g, L, s, m) == AccountOf(g, L, s.free, s.swap) /\ Len(s.files) = Len(m.files)

\* alloc_frame(): a page may leave the memory for a free block of the swap space.
LEMMA PlacedBalanced ==
  ASSUME NEW f \in [Procs -> VirtMemories], NEW L \in SUBSET Procs, NEW p \in L,
         NEW v \in VPages, Awaits(f[p], v), NEW m \in PageMemories, Fitting(m, f[p]),
         AccountOf(f, L, m.free, m.swap)
  PROVE  Booked([f EXCEPT ![p] = Placed(f[p], v)], L, PlacedMemory(m, f[p]), m)
<1> USE DEF Awaits, Fitting
<1> DEFINE b == f[p]
           g == [f EXCEPT ![p] = Placed(b, v)]
           s == PlacedMemory(m, b)
<1> SUFFICES AccountOf(g, L, s.free, s.swap) /\ Len(s.files) = Len(m.files) BY DEF Booked
<1> DEFINE n == Placed(b, v)
           e == Evicted(b)
           x == <<p, e>>
           t == b.page[e].addr
<1>1. b \in VirtMemories /\ (Full(b) => Candidates(b) # {}) BY DEF CanPlace
<1>2. /\ ~ Full(b) => n.page = b.page
      /\ Full(b) => /\ e \in VPages \ {0, v} /\ b.page[e].present
                    /\ \A w \in VPages : w # e => n.page[w] = b.page[w]
                    /\ ~ n.page[e].present /\ n.page[e].refed = b.page[e].refed
                    /\ n.page[e].addr = t
  BY <1>1, PlacedPages
<1>3. \A q \in Procs : g[q] = IF q = p THEN n ELSE f[q] OBVIOUS
<1> HIDE DEF n
<1>4. CASE ~ Full(b)
  <2>1. s = m BY <1>4 DEF PlacedMemory
  <2>2. \A q \in Procs : g[q].page = f[q].page BY <1>2, <1>3, <1>4
  <2>3. Here(g, L) = Here(f, L) /\ Away(g, L) = Away(f, L) /\ Addr(g) = Addr(f)
    BY <2>2 DEF Here, Away, Addr
  <2> QED BY <2>1, <2>3 DEF AccountOf
<1>5. CASE Full(b)
  <2>1. s = SwappedOut(m, t) BY <1>5 DEF PlacedMemory
  <2>2. e \in VPages /\ b.page[e].present /\ b.page[e].refed
    BY <1>2, <1>5 DEF FramedAll
  <2>3. /\ \A w \in VPages : w # e => n.page[w] = b.page[w]
        /\ ~ n.page[e].present /\ n.page[e].refed /\ n.page[e].addr = t
    BY <1>2, <1>5, <2>2
  <2>4. g = [f EXCEPT ![p] = n] BY DEF n
  <2> HIDE DEF e, g, s
  <2>5. /\ Here(g, L) = Here(f, L) \ {x} /\ x \in Here(f, L)
        /\ Away(g, L) = Away(f, L) \cup {x} /\ x \notin Away(f, L)
        /\ Addr(g) = Addr(f) /\ Addr(f)[x] = t
    <3>1. Loses(f[p], n, e) BY <2>2, <2>3 DEF Loses
    <3>2. SeenOut(f, L, g, <<p, e>>, f[p].page[e].addr) BY <2>2, <2>4, <3>1, PageLeaves
    <3> QED BY <3>2 DEF SeenOut
  <2> HIDE DEF x, t
  <2>6. Balanced(Here(f, L), Away(f, L), Addr(f), m.free, m.swap) BY DEF AccountOf
  <2>7. t \in Pages BY <2>5, <2>6 DEF Balanced
  <2>8. /\ s.free = Append(m.free, t) /\ Len(s.files) = Len(m.files)
        /\ \E o \in SwapEntry : o.page = t /\ s.swap = Append(m.swap, o)
    BY <1>5, <2>1, <2>7, SwappedOutLists
  <2>9. PICK o \in SwapEntry : o.page = t /\ s.swap = Append(m.swap, o) BY <2>8
  <2>10. m.free \in Seq(Pages) /\ m.swap \in Seq(SwapEntry) BY DEF PageMemories
  <2>11. Balanced(Here(g, L), Away(f, L), Addr(f), s.free, m.swap)
    <3>1. Balanced(Here(f, L) \ {x}, Away(f, L), Addr(f), Append(m.free, Addr(f)[x]), m.swap)
      BY <2>5, <2>6, <2>10, GivenBalanced
    <3> QED BY <2>5, <2>8, <3>1
  <2>12. Balanced(Here(g, L), Away(g, L), Addr(f), s.free, s.swap)
    <3>1. Balanced(Here(g, L), Away(f, L) \cup {x}, Addr(f), s.free, Append(m.swap, o))
      BY <2>5, <2>9, <2>10, <2>11, NotedBalanced
    <3> QED BY <2>5, <2>9, <3>1
  <2> QED BY <2>5, <2>8, <2>12 DEF AccountOf
<1> QED BY <1>4, <1>5

\* the memory after a page came in, with the mark that it is present
Received(k, v, pg, time) == Mapped(k, v, pg, time, TRUE)

\* page v of b is in physical page pg, and wants a frame
Fits(k, b, v, pg) ==
  /\ b \in VirtMemories /\ Counted(b) /\ Exact(b) /\ ~ InFrame(b, v)
  /\ b.frame = k.frame /\ b.nmapped = k.nmapped /\ FramedAll(b, VPages \ {v})
  /\ \A w \in VPages : w # v => b.page[w] = k.page[w]
  /\ b.page[v].refed /\ b.page[v].present /\ b.page[v].addr = pg

\* A page table entry that is new, in a physical page.
LEMMA MappedPages ==
  ASSUME NEW k \in VirtMemories, Exact(k), FramedAll(k, VPages), Counted(k),
         NEW v \in VPages, ~ k.page[v].present, NEW pg \in Pages, NEW time \in Nat
  PROVE  Fits(k, Received(k, v, pg, time), v, pg)
<1> DEFINE b == Received(k, v, pg, time)
<1> DEFINE e == [refed |-> TRUE, present |-> TRUE, addr |-> pg, tIn |-> time, tRef |-> time]
<1>1. b = [k EXCEPT !.page = [k.page EXCEPT ![v] = e]] BY DEF Received, Mapped
<1>2. e.refed /\ e.present /\ e.addr = pg OBVIOUS
<1>3. TRUE \in BOOLEAN /\ pg \in Pages \cup {NoPage} OBVIOUS
<1>4. b \in VirtMemories /\ Counted(b) /\ FramedAll(b, VPages \ {v})
  BY <1>3, MappedKeeps DEF Received
<1> HIDE DEF e, b
<1>5. /\ b.page = [k.page EXCEPT ![v] = e] /\ b.frame = k.frame /\ b.nmapped = k.nmapped
      /\ k.page \in [VPages -> PageEntry]
  BY <1>1, FrameFacts DEF VirtMemories
<1>6. b.page[v] = e /\ \A w \in VPages : w # v => b.page[w] = k.page[w] BY <1>5
<1>7. b.page[v].present BY <1>2, <1>6
<1>8. Exact(b) /\ ~ InFrame(k, v) BY <1>5, <1>6, <1>7, MappedExact
<1>9. ~ InFrame(b, v) BY <1>5, <1>8 DEF InFrame
<1> QED BY <1>2, <1>4, <1>5, <1>6, <1>8, <1>9 DEF b, Fits

\* What a page that comes in does to the account of all pages.
LEMMA BroughtBalanced ==
  ASSUME NEW f \in [Procs -> VirtMemories], NEW L \in SUBSET Procs, NEW p \in Procs,
         NEW k \in VirtMemories, Exact(k), FramedAll(k, VPages), Counted(k),
         Starts(f, L, p, k), NEW v \in VPages, ~ k.page[v].present, NEW time \in Nat,
         NEW free \in Seq(Pages), free # <<>>,
         NEW m \in PageMemories, m.free = Tail(free),
         Fitting(m, Received(k, v, Head(free), time)),
         Balanced(Here(f, L), Away(f, L) \ {<<p, v>>}, Addr(f), free, m.swap)
  PROVE  LET b == Received(k, v, Head(free), time)
         IN  Booked([f EXCEPT ![p] = Placed(b, v)], L \cup {p}, PlacedMemory(m, b), m)
<1> DEFINE pg == Head(free)
           b == Received(k, v, pg, time)
           g == [f EXCEPT ![p] = Placed(b, v)]
           s == PlacedMemory(m, b)
<1>0. pg \in Pages OBVIOUS
<1> DEFINE h == [f EXCEPT ![p] = b]
           x == <<p, v>>
           K == L \cup {p}
<1>1. /\ b \in VirtMemories /\ Counted(b) /\ Exact(b) /\ ~ InFrame(b, v)
      /\ FramedAll(b, VPages \ {v}) /\ \A w \in VPages : w # v => b.page[w] = k.page[w]
      /\ b.page[v].refed /\ b.page[v].present /\ b.page[v].addr = pg
  <2> HIDE DEF pg
  <2>1. Fits(k, Received(k, v, pg, time), v, pg) BY <1>0, MappedPages
  <2> QED BY <2>1 DEF Fits
<1>2. /\ Here(h, K) = Here(f, L) \cup {x} /\ Away(h, K) = Away(f, L) \ {x}
      /\ \A y \in Here(f, L) \cup Away(f, L) : y # x => Addr(h)[y] = Addr(f)[y]
      /\ Addr(h)[x] = b.page[v].addr
  <2>1. h = [f EXCEPT ![p] = b] OBVIOUS
  <2>2. Gains(k, b, v) BY <1>1 DEF Gains
  <2> HIDE DEF h
  <2>3. SeenIn(f, L, h, L \cup {p}, <<p, v>>, b.page[v].addr) BY <2>1, <2>2, PageEnters
  <2> QED BY <2>3 DEF SeenIn
<1>3. x \notin Here(f, L)
  <2>1. x[1] = p /\ x[2] = v OBVIOUS
  <2>2. p \in L => ~ f[p].page[v].present BY DEF Starts
  <2> HIDE DEF x
  <2> QED BY <2>1, <2>2 DEF Here
<1>4. /\ h \in [Procs -> VirtMemories] /\ K \in SUBSET Procs /\ p \in K /\ b = h[p]
      /\ g = [h EXCEPT ![p] = Placed(b, v)]
  BY <1>1
<1>8. Fitting(m, b) /\ pg = Head(free) OBVIOUS
<1> HIDE DEF h, x, K, b, g, s, pg
<1>5. Balanced(Here(f, L) \cup {x}, Away(f, L) \ {x}, Addr(h), Tail(free), m.swap)
  <2>1. x \notin Here(f, L) \cup (Away(f, L) \ {x}) BY <1>3
  <2>2. Addr(h)[x] = Head(free) BY <1>1, <1>2, <1>8
  <2>3. \A y \in Here(f, L) \cup (Away(f, L) \ {x}) : Addr(h)[y] = Addr(f)[y] BY <1>2, <1>3
  <2>4. Balanced(Here(f, L), Away(f, L) \ {x}, Addr(f), free, m.swap) BY DEF x
  <2> QED BY <2>1, <2>2, <2>3, <2>4, TakenBalanced
<1>6. AccountOf(h, K, m.free, m.swap) BY <1>2, <1>5 DEF AccountOf
<1>7. Booked(g, K, s, m)
  <2>1. Awaits(h[p], v) BY <1>1, <1>4 DEF Awaits
  <2>2. Fitting(m, h[p]) BY <1>4, <1>8
  <2>3. Booked([h EXCEPT ![p] = Placed(h[p], v)], K, PlacedMemory(m, h[p]), m)
    BY <1>4, <1>6, <2>1, <2>2, PlacedBalanced
  <2> QED BY <1>4, <2>3 DEF s
<1> QED BY <1>7 DEF K, b, g, s, pg

-----------------------------------------------------------------------------
(* The steps *)

Account == Balanced(Resident, Absent, Addr(vm), pm.free, pm.swap)

(***************************************************************************)
(* The invariant: the frames are exact, nothing undefined has been done,   *)
(* and every page that was written is accounted for, in a physical page    *)
(* of its own or in an entry of the swap table.                            *)
(***************************************************************************)
AccountInv ==
  /\ ExactInv /\ site = "none" /\ Account
  /\ Len(pm.files) >= 1 /\ \A p \in live : Len(vm[p].frame) \in Blocks

\* what the steps rest on: each process has two frames or more, and reads its
\* instructions from its first page
Ample == CodePages = {0} /\ Blocks \cap {0, 1} = {}

\* The parts of the invariant the steps use.
LEMMA AccountParts ==
  ASSUME AccountInv
  PROVE  /\ Sound(pm) /\ Typed /\ vm \in [Procs -> VirtMemories] /\ live \in SUBSET Procs
         /\ \A p \in live : /\ vm[p] \in VirtMemories /\ Counted(vm[p]) /\ Exact(vm[p])
                            /\ FramedAll(vm[p], VPages) /\ vm[p].page[0].present
         /\ pm \in PageMemories /\ pm.free \in Seq(Pages) /\ pm.swap \in Seq(SwapEntry)
         /\ clock \in Nat
<1>1. /\ Sound(pm) /\ Typed /\ vm \in [Procs -> VirtMemories]
      /\ \A p \in live : Kept(vm[p]) /\ Exact(vm[p])
  BY InvParts DEF AccountInv, ExactInv
<1>2. pm \in PageMemories BY <1>1 DEF Sound
<1> QED BY <1>1, <1>2 DEF Typed, Kept, PageMemories

\* A page that comes into a memory finds a frame, or another page to evict.
LEMMA ReceivedFits ==
  ASSUME AccountInv, Ample, dying = NoProc, NEW p \in live, NEW v \in VPages,
         ~ vm[p].page[v].present, NEW pg \in Pages, NEW time \in Nat,
         NEW m, Full(vm[p]) => FreeBlocks(m) # {}
  PROVE  Fitting(m, Received(vm[p], v, pg, time))
<1> DEFINE k == vm[p]
           b == Received(k, v, pg, time)
           e == Evicted(b)
<1>1. /\ k \in VirtMemories /\ Counted(k) /\ Exact(k) /\ FramedAll(k, VPages) /\ p \in Procs
      /\ Len(k.frame) \in Blocks
  BY AccountParts DEF AccountInv
<1>2. Fits(k, b, v, pg) BY <1>1, MappedPages
<1> HIDE DEF b
<1>3. b \in VirtMemories /\ Counted(b) /\ Exact(b) /\ b.frame = k.frame /\ ~ InFrame(b, v)
      /\ b.nmapped = k.nmapped /\ b.page[v].present
      /\ \A w \in VPages : w # v => b.page[w] = k.page[w]
  BY <1>2 DEF Fits
<1>4. Candidates(b) # {}
  <2>1. Len(b.frame) \notin {0, 1} BY <1>1, <1>3 DEF Ample
  <2> QED BY <1>3, <2>1, CandidateIsThere
<1>5. Full(b) => FreeBlocks(m) # {} BY <1>3 DEF Full
<1>6. ASSUME Full(b) PROVE b.page[e].addr # NoPage
  <2>1. e \in VPages \ {0, v} /\ b.page[e].present
    BY <1>3, <1>4, <1>6, ReplacedExact
  <2> HIDE DEF e
  <2>2. b.page[e] = k.page[e] /\ k.page[e].refed BY <1>1, <1>3, <2>1 DEF FramedAll
  <2>3. <<p, e>> \in Here(vm, live) /\ Addr(vm)[<<p, e>>] = k.page[e].addr
    BY <1>1, <2>1, <2>2 DEF Here, Addr
  <2>4. <<p, e>> \in Resident BY <2>3, CalmPages
  <2>5. Addr(vm)[<<p, e>>] \in Pages BY <2>4 DEF AccountInv, Account, Balanced
  <2> QED BY <2>2, <2>3, <2>5 DEF Pages, NoPage
<1>7. CanPlace(m, b) BY <1>4, <1>6 DEF CanPlace
<1> QED BY <1>5, <1>7 DEF Fitting, b

\* A step of a process that leaves its page table, but for the times, as it is.
LEMMA AccountStays ==
  ASSUME AccountInv, live' = live, vm' \in [Procs -> VirtMemories], dying' = dying, at' = at,
         \A p \in Procs, v \in VPages :
           /\ vm'[p].page[v].refed = vm[p].page[v].refed
           /\ vm'[p].page[v].present = vm[p].page[v].present
           /\ vm'[p].page[v].addr = vm[p].page[v].addr,
         pm'.free = pm.free, pm'.swap = pm.swap
  PROVE  Account'
<1>1. \A m \in Procs \X VPages : m[1] \in Procs /\ m[2] \in VPages OBVIOUS
<1>2. Resident' = Resident BY <1>1 DEF Resident, Held, Page
<1>3. Absent' = Absent BY <1>1 DEF Absent, Held, Page
<1>4. Addr(vm') = Addr(vm) BY <1>1 DEF Addr
<1> QED BY <1>2, <1>3, <1>4 DEF Account, AccountInv

\* Everything but the account and the site of a step is kept as it was.
LEMMA AccountNext ==
  ASSUME AccountInv, Ample, [Next]_vars, site' = "none", Account', Len(pm'.files) >= 1,
         \A p \in live' : Len(vm'[p].frame) \in Blocks
  PROVE  AccountInv'
<1>1. ExactInv' BY StepImplements DEF AccountInv, Ample
<1> QED BY <1>1 DEF AccountInv

\* Page v of a process, that may be new, comes in, and what it takes is there.
LEMMA BroughtAccount ==
  ASSUME AccountInv, RoomForAll, dying = NoProc, dying' = NoProc, NEW p \in Procs,
         NEW k \in VirtMemories, Exact(k), FramedAll(k, VPages), Counted(k),
         Starts(vm, live, p, k), Len(k.frame) \in Blocks,
         NEW v \in VPages, ~ k.page[v].present,
         NEW m \in PageMemories, m.free = Tail(pm.free), Len(m.files) = Len(pm.files),
         Balanced(Resident, Absent \ {<<p, v>>}, Addr(vm), pm.free, m.swap),
         Fitting(m, Received(k, v, Head(pm.free), clock)),
         vm' = [vm EXCEPT ![p] = Placed(Received(k, v, Head(pm.free), clock), v)],
         pm' = PlacedMemory(m, Received(k, v, Head(pm.free), clock)),
         live' = live \cup {p}
  PROVE  /\ Account' /\ Len(pm'.files) >= 1 /\ \A q \in live' : Len(vm'[q].frame) \in Blocks
<1> DEFINE b == Received(k, v, Head(pm.free), clock)
<1>1. /\ vm \in [Procs -> VirtMemories] /\ live \in SUBSET Procs /\ pm.free \in Seq(Pages)
      /\ clock \in Nat /\ pm.free # <<>>
  BY AccountParts DEF RoomForAll
<1>2. Balanced(Here(vm, live), Away(vm, live) \ {<<p, v>>}, Addr(vm), pm.free, m.swap)
  BY CalmPages
<1>3. Booked([vm EXCEPT ![p] = Placed(b, v)], live \cup {p}, PlacedMemory(m, b), m)
  BY <1>1, <1>2, BroughtBalanced
<1>4. Booked(vm', live', pm', m) BY <1>3
<1>5. Account' BY <1>4, CalmPagesNext DEF Booked, AccountOf, Account
<1>6. Len(pm'.files) >= 1 BY <1>4 DEF Booked, AccountInv
<1>7. Len(Placed(b, v).frame) = Len(k.frame)
  <2>1. Head(pm.free) \in Pages BY <1>1
  <2>2. Fits(k, b, v, Head(pm.free)) BY <1>1, <2>1, MappedPages
  <2>3. Full(b) => Candidates(b) # {} BY DEF Fitting, CanPlace
  <2> HIDE DEF b
  <2>4. b \in VirtMemories /\ Counted(b) /\ b.frame = k.frame /\ b.nmapped = k.nmapped
        /\ b.page[v].present /\ \A w \in VPages : w # v => b.page[w] = k.page[w]
    BY <2>2 DEF Fits
  <2>5. BroughtIn(k, Placed(b, v), v) BY <2>3, <2>4, BroughtExact
  <2> QED BY <2>5 DEF BroughtIn
<1>8. \A q \in live' : Len(vm'[q].frame) \in Blocks
  <2> TAKE q \in live'
  <2>1. q \in Procs BY <1>1
  <2>2. vm'[q] = IF q = p THEN Placed(b, v) ELSE vm[q] BY <1>1, <2>1
  <2> QED BY <1>7, <2>2 DEF AccountInv
<1> QED BY <1>5, <1>6, <1>8

\* PAGE_FAULT: a page is written first.
LEMMA FaultAccount ==
  ASSUME AccountInv, Ample, RoomForAll, NEW p \in Procs, NEW v \in VPages,
         dying = NoProc, p \in live, ~ Page(p, v).refed
  PROVE  /\ CanFaultIn(vm[p], v)
         /\ Fault(p, v) =>
              /\ Account' /\ Len(pm'.files) >= 1
              /\ \A q \in live' : Len(vm'[q].frame) \in Blocks
<1> DEFINE k == vm[p]
           m == Allocated(pm)
           b == Received(k, v, Head(pm.free), clock)
<1>1. /\ vm \in [Procs -> VirtMemories] /\ k \in VirtMemories /\ Counted(k) /\ Exact(k)
      /\ FramedAll(k, VPages) /\ clock \in Nat /\ pm.free # <<>>
      /\ pm.free \in Seq(Pages) /\ Sound(pm) /\ pm \in PageMemories
      /\ Len(k.frame) \in Blocks
  BY AccountParts DEF RoomForAll, AccountInv
<1>2. /\ m.free = Tail(pm.free) /\ NextPage(pm) = Head(pm.free)
      /\ m.swap = pm.swap /\ m.files = pm.files /\ FreeBlocks(m) = FreeBlocks(pm)
  BY <1>1, AllocatedLists
<1>3. m \in PageMemories BY <1>1, AllocatedSound DEF Sound
<1>4. ~ k.page[v].refed /\ ~ k.page[v].present BY <1>1 DEF Page, FramedAll
<1>5. Full(k) => FreeBlocks(m) # {} BY <1>2 DEF RoomForAll
<1>6. Head(pm.free) \in Pages BY <1>1
<1> HIDE DEF m
<1>7. Fitting(m, b) BY <1>1, <1>4, <1>5, <1>6, ReceivedFits
<1>8. Faulted(k, v) = b BY <1>2 DEF Faulted, Received
<1>9. CanFaultIn(k, v) BY <1>7, <1>8 DEF CanFaultIn, Fitting, m
<1>10. Starts(vm, live, p, k) BY DEF Starts
<1>11. Balanced(Resident, Absent \ {<<p, v>>}, Addr(vm), pm.free, m.swap)
  <2>1. <<p, v>> \notin Absent BY <1>4 DEF Absent, Held, Page
  <2>2. Absent \ {<<p, v>>} = Absent BY <2>1
  <2> QED BY <1>2, <2>2 DEF AccountInv, Account
<1>12. ASSUME Fault(p, v)
       PROVE  /\ Account' /\ Len(pm'.files) >= 1
              /\ \A q \in live' : Len(vm'[q].frame) \in Blocks
  <2>1. /\ vm' = [vm EXCEPT ![p] = Placed(b, v)] /\ pm' = PlacedMemory(m, b)
        /\ live' = live \cup {p} /\ dying' = NoProc
    BY <1>8, <1>12 DEF Fault, FaultIn, m
  <2>2. Len(m.files) = Len(pm.files) BY <1>2
  <2> HIDE DEF k
  <2> QED BY <1>1, <1>2, <1>3, <1>4, <1>7, <1>10, <1>11, <2>1, <2>2, BroughtAccount
<1> QED BY <1>9, <1>12
\* swap_in(): a page comes back, and the entry it takes may be that of another.
LEMMA SwapInAccount ==
  ASSUME AccountInv, Ample, RoomForAll, NEW p \in Procs, NEW v \in VPages,
         dying = NoProc, p \in live, Page(p, v).refed, ~ Page(p, v).present
  PROVE  /\ CanSwapIn(p, v, TRUE)
         /\ SwapIn(p, v, TRUE) =>
              /\ Account' /\ Len(pm'.files) >= 1
              /\ \A q \in live' : Len(vm'[q].frame) \in Blocks
<1> DEFINE k == vm[p]
           x == <<p, v>>
           a == Page(p, v).addr
           m == SwappedIn(pm, a)
           b == Received(k, v, Head(pm.free), clock)
<1>1. /\ vm \in [Procs -> VirtMemories] /\ k \in VirtMemories /\ Counted(k) /\ Exact(k)
      /\ FramedAll(k, VPages) /\ clock \in Nat /\ pm.free # <<>>
      /\ pm.free \in Seq(Pages) /\ pm.swap \in Seq(SwapEntry) /\ Sound(pm)
      /\ pm \in PageMemories /\ Len(k.frame) \in Blocks
  BY AccountParts DEF RoomForAll, AccountInv
<1>2. x \in Absent /\ Addr(vm)[x] = a
  <2>1. x \in Procs \X VPages /\ x[1] = p /\ x[2] = v /\ p # dying
    BY PagingAssumption
  <2> HIDE DEF x
  <2> QED BY <2>1 DEF Absent, Held, Addr, Page
<1>3. a \in Pages /\ Swapped(pm, a)
  <2>1. Addr(vm)[x] \in Pages /\ Swapped(pm, Addr(vm)[x])
    BY <1>1, <1>2, AbsentIsSwapped DEF AccountInv, Account
  <2> QED BY <1>2, <2>1
<1> HIDE DEF a, x
<1>4. /\ m.free = Tail(pm.free) /\ SwapInPage(pm, a) = Head(pm.free)
      /\ m.swap = WithoutIndex(pm.swap, FirstEntry(pm, a))
      /\ Len(m.files) = Len(pm.files) /\ FreeBlocks(m) # {}
  BY <1>1, <1>3, SwappedInLists
<1>5. FirstEntry(pm, a) \in 1..Len(pm.swap) /\ pm.swap[FirstEntry(pm, a)].page = a
  BY <1>1, <1>3, ReleasedLists
<1>6. m \in PageMemories BY <1>1, SwappedInSound DEF Sound
<1>7. ~ k.page[v].present /\ Head(pm.free) \in Pages BY <1>1 DEF Page
<1> HIDE DEF m
<1>8. Fitting(m, b) BY <1>1, <1>4, <1>7, ReceivedFits
<1>9. Returned(p, v, TRUE) = b BY <1>4 DEF Returned, Received, a
<1>10. CanSwapIn(p, v, TRUE)
  <2>1. CanReturn(p, v) BY <1>1, <1>3 DEF CanReturn, Pages, NoPage, a
  <2> QED BY <1>8, <1>9, <2>1 DEF CanSwapIn, Fitting, m, a
<1>11. Starts(vm, live, p, k) BY DEF Starts
<1>12. Balanced(Resident, Absent \ {x}, Addr(vm), pm.free, m.swap)
  <2>1. Addr(vm)[x] = pm.swap[FirstEntry(pm, a)].page BY <1>2, <1>5
  <2>2. Balanced(Resident, Absent, Addr(vm), pm.free, pm.swap) BY DEF AccountInv, Account
  <2>3. Balanced(Resident, Absent \ {x}, Addr(vm), pm.free,
                 WithoutIndex(pm.swap, FirstEntry(pm, a)))
    BY <1>1, <1>2, <1>5, <2>1, <2>2, StruckBalanced
  <2> QED BY <1>4, <2>3
<1>13. ASSUME SwapIn(p, v, TRUE)
       PROVE  /\ Account' /\ Len(pm'.files) >= 1
              /\ \A q \in live' : Len(vm'[q].frame) \in Blocks
  <2>1. /\ vm' = [vm EXCEPT ![p] = Placed(b, v)] /\ pm' = PlacedMemory(m, b)
        /\ live' = live \cup {p} /\ dying' = NoProc
    BY <1>9, <1>13 DEF SwapIn, m, a
  <2>2. Balanced(Resident, Absent \ {<<p, v>>}, Addr(vm), pm.free, m.swap) BY <1>12 DEF x
  <2> HIDE DEF k
  <2> QED BY <1>1, <1>4, <1>6, <1>7, <1>8, <1>11, <2>1, <2>2, BroughtAccount
<1> QED BY <1>10, <1>13

\* A process is loaded: its first page finds an empty frame.
LEMMA LoadAccount ==
  ASSUME AccountInv, Ample, RoomForAll, NEW p \in Procs, NEW n \in Blocks,
         dying = NoProc, p \notin live
  PROVE  /\ CanFaultIn(Fresh(initAlgo, n), 0)
         /\ Load(p, n) =>
              /\ Account' /\ Len(pm'.files) >= 1
              /\ \A q \in live' : Len(vm'[q].frame) \in Blocks
<1> DEFINE k == Fresh(initAlgo, n)
           m == Allocated(pm)
           b == Received(k, 0, Head(pm.free), clock)
<1>1. /\ vm \in [Procs -> VirtMemories] /\ clock \in Nat /\ pm.free # <<>>
      /\ pm.free \in Seq(Pages) /\ Sound(pm) /\ pm \in PageMemories
      /\ initAlgo \in ReplaceAlgs /\ n \in Nat /\ 0 \in VPages
  <2>1. 0 \in VPages BY VirtAssumption DEF VPages
  <2> QED BY <2>1, AccountParts, PagingAssumption DEF RoomForAll, Typed
<1>2. /\ m.free = Tail(pm.free) /\ NextPage(pm) = Head(pm.free)
      /\ m.swap = pm.swap /\ m.files = pm.files
  BY <1>1, AllocatedLists
<1>3. m \in PageMemories BY <1>1, AllocatedSound DEF Sound
<1>4. k \in VirtMemories /\ Counted(k) /\ FramedAll(k, VPages) BY <1>1, FreshKeeps
<1>5. /\ Len(k.frame) = n /\ k.nmapped = 0 /\ \A i \in 1..n : k.frame[i] = Empty
      /\ \A w \in VPages : ~ k.page[w].refed /\ ~ k.page[w].present
  <2>1. /\ k.frame = [i \in 1..n |-> Empty] /\ k.nmapped = 0
        /\ k.page = [w \in VPages |-> Untouched]
    BY DEF Fresh
  <2> QED BY <1>1, <2>1 DEF Untouched
<1> HIDE DEF k
<1>6. Exact(k) BY <1>5 DEF Exact
<1>7. Head(pm.free) \in Pages BY <1>1
<1> HIDE DEF m
<1>8. Fits(k, b, 0, Head(pm.free)) BY <1>1, <1>4, <1>5, <1>6, <1>7, MappedPages
<1>9. ~ Full(b)
  <2>1. b.nmapped = 0 /\ Len(b.frame) = n BY <1>5, <1>8 DEF Fits
  <2>2. n # 0 BY DEF Ample
  <2> QED BY <2>1, <2>2 DEF Full
<1>10. Fitting(m, b) BY <1>9 DEF Fitting, CanPlace
<1>11. Faulted(k, 0) = b BY <1>2 DEF Faulted, Received
<1>12. CanFaultIn(k, 0) BY <1>10, <1>11 DEF CanFaultIn, Fitting, m
<1>13. Starts(vm, live, p, k) BY <1>5 DEF Starts
<1>14. Balanced(Resident, Absent \ {<<p, 0>>}, Addr(vm), pm.free, m.swap)
  <2>1. <<p, 0>> \notin Absent BY DEF Absent, Held
  <2>2. Absent \ {<<p, 0>>} = Absent BY <2>1
  <2> QED BY <1>2, <2>2 DEF AccountInv, Account
<1>15. ASSUME Load(p, n)
       PROVE  /\ Account' /\ Len(pm'.files) >= 1
              /\ \A q \in live' : Len(vm'[q].frame) \in Blocks
  <2>1. /\ vm' = [vm EXCEPT ![p] = Placed(b, 0)] /\ pm' = PlacedMemory(m, b)
        /\ live' = live \cup {p} /\ dying' = NoProc
    BY <1>11, <1>15 DEF Load, FaultIn, m, k
  <2>2. Len(m.files) = Len(pm.files) BY <1>2
  <2>3. ~ k.page[0].present /\ Len(k.frame) \in Blocks BY <1>1, <1>5
  <2> QED BY <1>1, <1>2, <1>3, <1>4, <1>6, <1>10, <1>13, <1>14, <2>1, <2>2, <2>3,
             BroughtAccount
<1> QED BY <1>12, <1>15 DEF k

\* A round of the destructor: the page, or an entry of it, is given back.
LEMMA ReleaseAccount ==
  ASSUME AccountInv, Releasing
  PROVE  /\ CanGiveBack
         /\ Release => Account' /\ Len(pm'.files) = Len(pm.files)
<1> DEFINE x == <<dying, at>>
           a == AtPage.addr
<1>1. /\ Sound(pm) /\ Typed /\ pm \in PageMemories /\ pm.free \in Seq(Pages)
      /\ pm.swap \in Seq(SwapEntry)
  BY AccountParts
<1>2. dying \in live /\ dying \in Procs /\ at \in VPages
  BY <1>1, PagingAssumption, VirtAssumption DEF Typed, Releasing, VPages
<1>3. x \in Procs \X VPages /\ x[1] = dying /\ x[2] = at BY <1>2
<1>4. Balanced(Resident, Absent, Addr(vm), pm.free, pm.swap) BY DEF AccountInv, Account
<1> HIDE DEF x
<1>5. /\ x \in Resident <=> AtPage.refed /\ AtPage.present
      /\ x \in Absent <=> AtPage.refed /\ ~ AtPage.present
      /\ Addr(vm)[x] = a
  <2>1. at >= at BY <1>2 DEF VPages
  <2> QED BY <1>2, <1>3, <2>1 DEF Resident, Absent, Held, AtPage, Page, Addr
<1> HIDE DEF a
<1>6. CanGiveBack
  <2>1. ASSUME AtPage.refed, AtPage.present PROVE AtPage.addr # NoPage
    <3>1. a \in Pages BY <1>4, <1>5, <2>1 DEF Balanced
    <3> QED BY <3>1 DEF a, Pages, NoPage
  <2>2. ASSUME AtPage.refed, ~ AtPage.present
        PROVE  AtPage.addr # NoPage /\ Swapped(pm, AtPage.addr)
    <3>1. Addr(vm)[x] \in Pages /\ Swapped(pm, Addr(vm)[x])
      BY <1>1, <1>4, <1>5, <2>2, AbsentIsSwapped
    <3> QED BY <1>5, <3>1 DEF a, Pages, NoPage
  <2> QED BY <2>1, <2>2 DEF CanGiveBack
<1>7. ASSUME Release PROVE Account' /\ Len(pm'.files) = Len(pm.files)
  <2>1. /\ pm' = GivenBack /\ at' = at + 1 /\ dying' = dying /\ vm' = vm /\ live' = live
    BY <1>7 DEF Release
  <2>2. /\ Resident' = Resident \ {x} /\ Absent' = Absent \ {x}
    <3>1. \A v \in VPages : v >= at' <=> v >= at /\ v # at
      BY <1>2, <2>1 DEF VPages
    <3>2. \A y \in Procs \X VPages :
            /\ y[1] \in Procs /\ y[2] \in VPages /\ (y # x => y[1] # dying \/ y[2] # at)
      BY PageKeys DEF x
    <3>3. \A y \in Procs \X VPages : Held(y[1], y[2])' <=> Held(y[1], y[2]) /\ y # x
      BY <1>3, <2>1, <3>1, <3>2 DEF Held, Page
    <3>4. \A y \in Procs \X VPages : Page(y[1], y[2])' = Page(y[1], y[2])
      BY <2>1 DEF Page
    <3>5. Resident' = Resident \ {x} BY <3>3, <3>4 DEF Resident
    <3>6. Absent' = Absent \ {x} BY <3>3, <3>4 DEF Absent
    <3> QED BY <3>5, <3>6
  <2>3. Addr(vm') = Addr(vm) BY <2>1
  <2>4. CASE ~ AtPage.refed
    <3>1. Resident' = Resident /\ Absent' = Absent BY <1>5, <2>2, <2>4
    <3>2. pm' = pm BY <2>1, <2>4 DEF GivenBack
    <3> QED BY <1>4, <2>3, <3>1, <3>2 DEF Account
  <2>5. CASE AtPage.refed /\ AtPage.present
    <3>1. x \in Resident /\ x \notin Absent BY <1>5, <2>5
    <3>2. a \in Pages BY <1>4, <1>5, <3>1 DEF Balanced
    <3>3. pm' = Freed(pm, a) BY <2>1, <2>5 DEF GivenBack, a
    <3>4. /\ pm'.free = Append(pm.free, a) /\ pm'.swap = pm.swap /\ pm'.files = pm.files
      BY <1>1, <3>2, <3>3 DEF Freed, PageMemories
    <3>5. Balanced(Resident \ {x}, Absent, Addr(vm), Append(pm.free, Addr(vm)[x]), pm.swap)
      BY <1>1, <1>4, <3>1, GivenBalanced
    <3>6. Absent' = Absent BY <2>2, <3>1
    <3> QED BY <1>5, <2>2, <2>3, <3>4, <3>5, <3>6 DEF Account
  <2>6. CASE AtPage.refed /\ ~ AtPage.present
    <3>1. x \in Absent /\ x \notin Resident BY <1>5, <2>6
    <3>2. Swapped(pm, a) BY <1>6, <2>6 DEF CanGiveBack, a
    <3>3. pm' = Released(pm, a) BY <2>1, <2>6 DEF GivenBack, a
    <3>4. /\ pm'.free = pm.free /\ pm'.files = pm.files
          /\ pm'.swap = WithoutIndex(pm.swap, FirstEntry(pm, a))
          /\ FirstEntry(pm, a) \in 1..Len(pm.swap) /\ pm.swap[FirstEntry(pm, a)].page = a
      BY <1>1, <3>2, <3>3, ReleasedLists
    <3>5. Balanced(Resident, Absent \ {x}, Addr(vm), pm.free,
                   WithoutIndex(pm.swap, FirstEntry(pm, a)))
      BY <1>1, <1>4, <1>5, <3>1, <3>4, StruckBalanced
    <3>6. Resident' = Resident BY <2>2, <3>1
    <3> QED BY <2>2, <2>3, <3>4, <3>5, <3>6 DEF Account
  <2> QED BY <2>4, <2>5, <2>6
<1> QED BY <1>6, <1>7

\* A deletion starts with all pages of the process, and ends with none.
LEMMA KillAccount ==
  ASSUME AccountInv, NEW p \in Procs, Kill(p)
  PROVE  Account'
<1>1. dying = NoProc /\ dying' = p /\ at' = 0 /\ vm' = vm /\ live' = live /\ pm' = pm
  BY DEF Kill, Calm
<1>2. \A y \in Procs \X VPages : /\ y[1] \in Procs /\ y[1] # dying /\ y[2] >= 0
  BY <1>1, PagingAssumption DEF VPages
<1>3. \A y \in Procs \X VPages : /\ Held(y[1], y[2])' <=> Held(y[1], y[2])
                                 /\ Page(y[1], y[2])' = Page(y[1], y[2])
  BY <1>1, <1>2 DEF Held, Page
<1>4. Resident' = Resident BY <1>3 DEF Resident
<1>5. Absent' = Absent BY <1>3 DEF Absent
<1> QED BY <1>1, <1>4, <1>5 DEF Account, AccountInv

\* The same of its end.
LEMMA GoneAccount ==
  ASSUME AccountInv, Gone
  PROVE  Account' /\ Len(pm'.files) >= 1 /\ \A q \in live' : Len(vm'[q].frame) \in Blocks
<1>1. /\ dying # NoProc /\ at = NVPages /\ live' = live \ {dying} /\ pm' = pm
      /\ vm' = [vm EXCEPT ![dying] = NoMemory] /\ dying' = NoProc
  BY DEF Gone
<1>2. vm \in [Procs -> VirtMemories] /\ live \in SUBSET Procs BY AccountParts
<1>3. \A q \in Procs \ {dying} : vm'[q] = vm[q] BY <1>1, <1>2
<1>4. \A y \in Procs \X VPages : /\ y[1] \in Procs /\ ~ y[2] >= at /\ y[1] # dying'
  BY <1>1, PagingAssumption, VirtAssumption DEF VPages
<1>5. \A y \in Procs \X VPages : /\ Held(y[1], y[2])' <=> Held(y[1], y[2])
                                 /\ Held(y[1], y[2]) => Page(y[1], y[2])' = Page(y[1], y[2])
                                 /\ Held(y[1], y[2]) => y[1] # dying
  BY <1>1, <1>3, <1>4 DEF Held, Page
<1>6. Resident' = Resident BY <1>5 DEF Resident
<1>7. Absent' = Absent BY <1>5 DEF Absent
<1>8. \A y \in Resident \cup Absent : Addr(vm')[y] = Addr(vm)[y]
  <2> SUFFICES ASSUME NEW y \in Resident \cup Absent PROVE Addr(vm')[y] = Addr(vm)[y]
    OBVIOUS
  <2>1. y \in Procs \X VPages /\ Held(y[1], y[2]) BY DEF Resident, Absent
  <2>2. Page(y[1], y[2])' = Page(y[1], y[2]) BY <1>5, <2>1
  <2> QED BY <2>1, <2>2 DEF Addr, Page
<1>9. Account' BY <1>1, <1>6, <1>7, <1>8, BalancedSame DEF Account, AccountInv
<1>10. \A q \in live' : Len(vm'[q].frame) \in Blocks
  BY <1>1, <1>2, <1>3 DEF AccountInv
<1> QED BY <1>1, <1>9, <1>10 DEF AccountInv
\* A page that is present is in a physical page: it can be read.
LEMMA HitReaches ==
  ASSUME AccountInv, NEW p \in Procs, NEW v \in VPages, dying = NoProc, p \in live,
         Page(p, v).refed, Page(p, v).present
  PROVE  CanReach(p, v, FALSE)
<1> DEFINE x == <<p, v>>
<1>1. x \in Procs \X VPages /\ x[1] = p /\ x[2] = v /\ p # dying BY PagingAssumption
<1> HIDE DEF x
<1>2. x \in Resident /\ Addr(vm)[x] = Page(p, v).addr
  BY <1>1 DEF Resident, Held, Addr, Page
<1>3. Page(p, v).addr \in Pages BY <1>2 DEF AccountInv, Account, Balanced
<1> QED BY <1>3 DEF CanReach, Pages, NoPage

\* The account holds when the system starts.
LEMMA InitAccount == ASSUME Init PROVE AccountInv
<1>1. live = {} /\ pm = NewMemory /\ site = "none" BY DEF Init
<1>2. ExactInv BY <1>1, InitInv DEF ExactInv
<1>3. Resident = {} /\ Absent = {} BY <1>1 DEF Resident, Absent, Held
<1>4. pm.swap = <<>> /\ Len(pm.files) >= 1 BY <1>1 DEF NewMemory
<1>5. Shared({}, Addr(vm), pm.free)
  <2>1. pm.free = [i \in 1..NPages |-> i - 1] BY <1>1 DEF NewMemory
  <2>2. Len(pm.free) = NPages /\ \A i \in 1..NPages : pm.free[i] = i - 1
    BY <2>1, PageAssumption
  <2>3. \A pg \in Pages : pg + 1 \in 1..NPages /\ pg = (pg + 1) - 1
    BY PageAssumption DEF Pages
  <2>4. \A pg \in Pages : Occurs(pm.free, pg) BY <2>2, <2>3 DEF Occurs
  <2>5. \A pg \in Pages : Once(pm.free, pg)
    <3>1. \A i, j \in 1..NPages : i - 1 = j - 1 => i = j BY PageAssumption
    <3> QED BY <2>2, <3>1 DEF Once
  <2> QED BY <2>4, <2>5 DEF Shared
<1>6. Entered({}, Addr(vm), pm.swap)
  <2>1. IsFiniteSet({}) /\ Cardinality({}) = 0 BY FS_EmptySet
  <2>2. Len(pm.swap) = 0 BY <1>4
  <2>3. \A pg : Entries(pm.swap, pg) = {} /\ AtPageOf({}, Addr(vm), pg) = {}
    BY <2>2 DEF Entries, AtPageOf
  <2> QED BY <2>1, <2>2, <2>3 DEF Entered
<1>7. Account BY <1>3, <1>5, <1>6 DEF Account, Balanced, Private
<1> QED BY <1>1, <1>2, <1>4, <1>7 DEF AccountInv

\* Every step keeps the account, and none is one that C++ leaves undefined.
LEMMA NextAccount ==
  ASSUME Ample, AccountInv, RoomForAll, [Next]_vars
  PROVE  AccountInv'
<1> DEFINE Good == /\ site' = "none" /\ Account' /\ Len(pm'.files) >= 1
                   /\ \A q \in live' : Len(vm'[q].frame) \in Blocks
<1>1. SUFFICES Good BY AccountNext
<1>2. site = "none" /\ Len(pm.files) >= 1 /\ Account
      /\ \A q \in live : Len(vm[q].frame) \in Blocks
  BY DEF AccountInv
<1>3. /\ vm \in [Procs -> VirtMemories] /\ live \in SUBSET Procs /\ pm \in PageMemories
      /\ clock \in Nat /\ \A p \in live : vm[p].page[0].present
  BY AccountParts
<1>4. ASSUME NEW p \in Procs, NEW v \in VPages, NEW write \in BOOLEAN, Hit(p, v, write)
      PROVE  Good
  <2> DEFINE k == vm[p]
             r == [k.page[v] EXCEPT !.tRef = clock]
             n == [k EXCEPT !.page = [k.page EXCEPT ![v] = r]]
  <2>1. k \in VirtMemories BY <1>3
  <2>2. /\ vm' = [vm EXCEPT ![p] = n] /\ site' = site /\ live' = live /\ dying' = dying
        /\ at' = at /\ pm' = pm
    BY <1>4 DEF Hit
  <2> HIDE DEF k
  <2>3. r \in PageEntry /\ r.present = k.page[v].present /\ r.refed = k.page[v].refed
        /\ r.addr = k.page[v].addr
    <3>1. k.page[v] \in PageEntry BY <2>1, FrameFacts
    <3>2. clock \in Time BY <1>3 DEF Time
    <3> QED BY <3>1, <3>2 DEF PageEntry
  <2> HIDE DEF r
  <2>4. [k.page EXCEPT ![v] = r] \in [VPages -> PageEntry] BY <2>1, <2>3, FrameFacts
  <2>5. n \in VirtMemories /\ n.page = [k.page EXCEPT ![v] = r] /\ n.frame = k.frame
    BY <2>1, <2>4 DEF VirtMemories
  <2> HIDE DEF n
  <2>6. \A w \in VPages : /\ n.page[w].present = k.page[w].present
                          /\ n.page[w].refed = k.page[w].refed
                          /\ n.page[w].addr = k.page[w].addr
    BY <2>1, <2>3, <2>5, FrameFacts
  <2>7. \A q \in Procs : vm'[q] = IF q = p THEN n ELSE vm[q] BY <1>3, <2>2
  <2>8. vm' \in [Procs -> VirtMemories] BY <1>3, <2>2, <2>5
  <2>9. \A q \in Procs, w \in VPages :
          /\ vm'[q].page[w].refed = vm[q].page[w].refed
          /\ vm'[q].page[w].present = vm[q].page[w].present
          /\ vm'[q].page[w].addr = vm[q].page[w].addr
    BY <2>6, <2>7 DEF k
  <2>10. Account' BY <2>2, <2>8, <2>9, AccountStays
  <2>11. \A q \in live' : Len(vm'[q].frame) \in Blocks BY <1>2, <1>3, <2>2, <2>5, <2>7 DEF k
  <2> QED BY <1>2, <2>2, <2>10, <2>11
<1>5. ASSUME NEW p \in Procs, NEW v \in VPages, Fault(p, v) PROVE Good
  BY <1>2, <1>5, FaultAccount DEF Fault, Calm, FaultIn
<1>6. ASSUME NEW p \in Procs, NEW v \in VPages, SwapIn(p, v, TRUE) PROVE Good
  BY <1>2, <1>6, SwapInAccount DEF SwapIn, Calm
<1>7. ASSUME NEW p \in Procs, NEW v \in VPages,
             Write(p, v) \/ Read(p, v) \/ AccessUndefined(p, v)
      PROVE  Good
  <2>1. CASE Write(p, v) BY <1>4, <1>5, <1>6, <2>1 DEF Write
  <2>2. CASE Read(p, v)
    <3>1. v = 0 BY <2>2 DEF Read, Ample
    <3>2. ~ SwapIn(p, v, FALSE) BY <1>3, <3>1 DEF SwapIn, Page
    <3> QED BY <1>4, <2>2, <3>2 DEF Read
  <2>3. CASE AccessUndefined(p, v)
    <3>1. ~ FaultUndefined(p, v) BY FaultAccount DEF FaultUndefined, Calm
    <3>2. ~ SwapInUndefined(p, v, TRUE) BY SwapInAccount DEF SwapInUndefined, Calm
    <3>3. ~ HitUndefined(p, v) BY HitReaches DEF HitUndefined, Calm
    <3> QED BY <2>3, <3>1, <3>2, <3>3 DEF AccessUndefined
  <2> QED BY <1>7, <2>1, <2>2, <2>3
<1>8. ASSUME NEW p \in Procs, NEW n \in Blocks, Load(p, n) \/ LoadUndefined(p, n) PROVE Good
  <2>1. ~ LoadUndefined(p, n) BY LoadAccount DEF LoadUndefined, Calm
  <2>2. CASE Load(p, n) BY <1>2, <2>2, LoadAccount DEF Load, Calm, FaultIn
  <2> QED BY <1>8, <2>1, <2>2
<1>9. CASE Release \/ ReleaseUndefined \/ Gone
  <2>1. CASE Release
    <3>1. Account' /\ Len(pm'.files) = Len(pm.files) BY <2>1, ReleaseAccount DEF Release
    <3> QED BY <1>2, <2>1, <3>1 DEF Release
  <2>2. ~ ReleaseUndefined BY ReleaseAccount DEF ReleaseUndefined
  <2>3. CASE Gone BY <1>2, <2>3, GoneAccount DEF Gone
  <2> QED BY <1>9, <2>1, <2>2, <2>3
<1>10. ASSUME NEW a \in Switches, Chalg(a) PROVE Good
  <2>1. a \in ReplaceAlgs BY PagingAssumption
  <2>2. ASSUME NEW q \in Procs
        PROVE  /\ vm'[q] \in VirtMemories /\ vm'[q].page = vm[q].page
               /\ vm'[q].frame = vm[q].frame
    <3>1. vm[q] \in VirtMemories BY <1>3
    <3>2. vm'[q] = IF q \in live THEN [vm[q] EXCEPT !.algo = a] ELSE vm[q]
      BY <1>10 DEF Chalg
    <3> QED BY <2>1, <3>1, <3>2 DEF VirtMemories
  <2>3. vm' = [q \in Procs |-> vm'[q]] BY <1>10 DEF Chalg
  <2>4. vm' \in [Procs -> VirtMemories] BY <2>2, <2>3
  <2>5. live' = live /\ dying' = dying /\ at' = at /\ pm' = pm /\ site' = site
    BY <1>10 DEF Chalg
  <2>6. Account' BY <2>2, <2>4, <2>5, AccountStays
  <2> QED BY <1>2, <1>3, <2>2, <2>5, <2>6
<1>11. ASSUME NEW p \in Procs, Kill(p) PROVE Good
  BY <1>2, <1>11, KillAccount DEF Kill
<1>12. ASSUME NEW path \in SwapPaths, NEW created \in BOOLEAN, Mkswap(path, created)
       PROVE  Good
  <2>1. /\ pm'.free = pm.free /\ pm'.swap = pm.swap /\ Len(pm'.files) = Len(pm.files) + 1
    BY <1>3, <1>12 DEF Mkswap, Extended, PageMemories
  <2>2. live' = live /\ dying' = dying /\ at' = at /\ vm' = vm /\ site' = site
    BY <1>12 DEF Mkswap
  <2>3. Account' BY <1>3, <2>1, <2>2, AccountStays
  <2>4. Len(pm'.files) >= 1
    <3>1. Len(pm.files) \in Nat BY <1>3 DEF PageMemories
    <3> QED BY <1>2, <2>1, <3>1
  <2> QED BY <1>2, <2>2, <2>3, <2>4
<1>13. CASE Tick \/ UNCHANGED vars
  <2>1. /\ live' = live /\ dying' = dying /\ at' = at /\ vm' = vm /\ site' = site /\ pm' = pm
    BY <1>13 DEF Tick, vars
  <2>2. Account' BY <1>3, <2>1, AccountStays
  <2> QED BY <1>2, <2>1, <2>2
<1> QED BY <1>7, <1>8, <1>9, <1>10, <1>11, <1>12, <1>13 DEF Next

-----------------------------------------------------------------------------
(* The theorems *)

\* The account holds as long as there is room for all.
LEMMA AccountInvariance ==
  ASSUME Ample
  PROVE  Spec /\ []RoomForAll => []AccountInv
<1>1. Init => AccountInv BY InitAccount
<1>2. AccountInv /\ RoomForAll /\ [Next]_vars => AccountInv' BY NextAccount
<1> QED BY <1>1, <1>2, PTL DEF Spec

\* Keys of the pages: their addresses are those of the account.
LEMMA AddressOf == \A m \in Procs \X VPages : Addr(vm)[m] = PageOf(m)
BY DEF Addr, PageOf, Page

\* What the account says of the physical pages and of the swap table.
LEMMA AccountSays ==
  AccountInv => NeverUndefined /\ PagesArePrivate /\ PagesAreConserved /\ SwapIsAccounted
<1> SUFFICES ASSUME AccountInv
             PROVE  NeverUndefined /\ PagesArePrivate /\ PagesAreConserved /\ SwapIsAccounted
  OBVIOUS
<1>1. Balanced(Resident, Absent, Addr(vm), pm.free, pm.swap) BY DEF AccountInv, Account
<1>2. \A m \in Resident \cup Absent : Addr(vm)[m] = PageOf(m)
  BY AddressOf DEF Resident, Absent
<1>3. NeverUndefined BY DEF AccountInv, NeverUndefined
<1>4. PagesArePrivate BY <1>1, <1>2 DEF Balanced, Private, PagesArePrivate
<1>5. PagesAreConserved
  <2> SUFFICES ASSUME NEW pg \in Pages
               PROVE  /\ Once(pm.free, pg)
                      /\ Occurs(pm.free, pg) <=> \A m \in Resident : PageOf(m) # pg
    BY DEF PagesAreConserved
  <2>1. /\ Once(pm.free, pg)
        /\ Occurs(pm.free, pg) <=> \A m \in Resident : Addr(vm)[m] # pg
    BY <1>1 DEF Balanced, Shared
  <2> QED BY <1>2, <2>1
<1>6. SwapIsAccounted
  <2> SUFFICES ASSUME NEW pg \in Pages
               PROVE  Cardinality({i \in 1..Len(pm.swap) : pm.swap[i].page = pg})
                        = Cardinality({m \in Absent : PageOf(m) = pg})
    BY DEF SwapIsAccounted
  <2>1. AtPageOf(Absent, Addr(vm), pg) = {m \in Absent : PageOf(m) = pg}
    BY <1>2 DEF AtPageOf
  <2> QED BY <1>1, <2>1 DEF Balanced, Entered, Entries
<1> QED BY <1>3, <1>4, <1>5, <1>6

-----------------------------------------------------------------------------
(* When there is room for all *)

(***************************************************************************)
(* Memory enough: a page more than all the frames the processes may have,  *)
(* and a block of the first swap file for each page that can be out of     *)
(* memory, which the page of the program cannot.  No process has less than *)
(* two frames, and instructions are read from the first page only.         *)
(***************************************************************************)
Spacious ==
  /\ CodePages = {0} /\ IsFiniteSet(Procs)
  /\ \E b \in Nat : Blocks \subseteq 2..b /\ Cardinality(Procs) * b < NPages
  /\ Cardinality(Procs) * (NVPages - 1) <= PerFile

\* Memory enough is more than what the account asks for.
LEMMA SpaciousIsAmple == ASSUME Spacious PROVE Ample
BY DEF Spacious, Ample

\* A set whose elements are all values of a function on a finite set is no larger.
LEMMA ValuesAreFewer ==
  ASSUME NEW S, NEW T, IsFiniteSet(T), NEW f, \A s \in S : \E t \in T : f[t] = s
  PROVE  IsFiniteSet(S) /\ Cardinality(S) <= Cardinality(T)
<1> DEFINE g == [s \in S |-> CHOOSE t \in T : f[t] = s]
<1>1. \A s \in S : g[s] \in T /\ f[g[s]] = s OBVIOUS
<1>2. g = [s \in S |-> g[s]] OBVIOUS
<1> HIDE DEF g
<1>3. g \in [S -> T] BY <1>1, <1>2
<1>4. \A r, s \in S : g[r] = g[s] => r = s BY <1>1
<1>5. g \in Injection(S, T) BY <1>3, <1>4 DEF Injection, IsInjective
<1> QED BY <1>5, FS_Injection

\* A page is free: the pages in memory are no more than the frames there are.
LEMMA PageToSpare ==
  ASSUME AccountInv, Spacious
  PROVE  pm.free # <<>>
<1>1. PICK b \in Nat : Blocks \subseteq 2..b /\ Cardinality(Procs) * b < NPages
  BY DEF Spacious
<1> DEFINE T == Procs \X (1..b)
           f == [y \in T |-> vm[y[1]].page[vm[y[1]].frame[y[2]]].addr]
<1>2. IsFiniteSet(Procs) BY DEF Spacious
<1>3. IsFiniteSet(1..b) /\ Cardinality(1..b) = b
  <2>1. 1 \in Int /\ b \in Int BY <1>1
  <2>2. IsFiniteSet(1..b) /\ Cardinality(1..b) = IF 1 > b THEN 0 ELSE b - 1 + 1
    BY <2>1, FS_Interval
  <2> QED BY <2>2, <1>1
<1>4. IsFiniteSet(T) /\ Cardinality(T) = Cardinality(Procs) * b
  BY <1>2, <1>3, FS_Product
<1> SUFFICES ASSUME pm.free = <<>> PROVE FALSE OBVIOUS
<1>5. \A pg \in Pages : \E y \in T : f[y] = pg
  <2> SUFFICES ASSUME NEW pg \in Pages PROVE \E y \in T : f[y] = pg OBVIOUS
  <2>1. ~ Occurs(pm.free, pg) BY DEF Occurs
  <2>2. PICK m \in Resident : Addr(vm)[m] = pg
    BY <2>1 DEF AccountInv, Account, Balanced, Shared
  <2> DEFINE p == m[1]
             v == m[2]
  <2>3. m \in Procs \X VPages /\ p \in live /\ Page(p, v).present
    BY DEF Resident, Held
  <2>4. p \in Procs /\ v \in VPages /\ vm[p].page[v].present /\ vm[p].page[v].addr = pg
    BY <2>2, <2>3 DEF Page, Addr
  <2>5. FramedAll(vm[p], VPages) /\ Len(vm[p].frame) \in Blocks
    BY <2>3, AccountParts DEF AccountInv
  <2> HIDE DEF p, v
  <2>6. PICK i \in 1..Len(vm[p].frame) : vm[p].frame[i] = v
    BY <2>4, <2>5 DEF FramedAll, InFrame
  <2>7. i \in 1..b BY <1>1, <2>5, <2>6
  <2>8. <<p, i>> \in T /\ f[<<p, i>>] = pg BY <2>4, <2>6, <2>7
  <2> QED BY <2>8
<1> HIDE DEF T, f
<1>6. Cardinality(Pages) <= Cardinality(T) BY <1>4, <1>5, ValuesAreFewer
<1>7. Cardinality(Pages) = NPages
  <2>1. 0 \in Int /\ NPages - 1 \in Int /\ NPages \in Nat \ {0} BY PageAssumption
  <2>2. Cardinality(0..(NPages - 1)) = IF 0 > NPages - 1 THEN 0 ELSE NPages - 1 - 0 + 1
    BY <2>1, FS_Interval
  <2> QED BY <2>1, <2>2 DEF Pages
<1>8. Cardinality(Procs) \in Nat /\ NPages \in Nat BY <1>2, FS_CardinalityType, PageAssumption
<1>9. Cardinality(Procs) * b < NPages BY <1>1
<1> DEFINE c == Cardinality(Procs) * b
<1>10. c < NPages /\ NPages <= c BY <1>4, <1>6, <1>7, <1>9
<1>11. c \in Nat BY <1>1, <1>8
<1> HIDE DEF c
<1> QED BY <1>8, <1>10, <1>11

\* The blocks in use are as many as the pages that are not in memory.
LEMMA BlocksInUse ==
  ASSUME AccountInv
  PROVE  /\ IsFiniteSet(Absent) /\ IsFiniteSet(pm.used)
         /\ Cardinality(pm.used) <= Cardinality(Absent)
<1> DEFINE S == 1..Len(pm.swap)
           f == [i \in S |-> pm.swap[i].blk]
<1>1. Len(pm.swap) \in Nat BY AccountParts
<1>2. IsFiniteSet(S) /\ Cardinality(S) = Len(pm.swap)
  <2>1. 1 \in Int /\ Len(pm.swap) \in Int BY <1>1
  <2>2. IsFiniteSet(S) /\ Cardinality(S) = IF 1 > Len(pm.swap) THEN 0 ELSE Len(pm.swap) - 1 + 1
    BY <2>1, FS_Interval
  <2> QED BY <2>2, <1>1
<1>3. \A u \in pm.used : \E i \in S : f[i] = u
  <2>1. pm.used = {pm.swap[i].blk : i \in S} BY AccountParts DEF Sound, Matches
  <2> QED BY <2>1
<1>4. IsFiniteSet(Absent) /\ Cardinality(Absent) = Len(pm.swap)
  BY DEF AccountInv, Account, Balanced, Entered
<1> HIDE DEF S, f
<1> QED BY <1>2, <1>3, <1>4, ValuesAreFewer

\* The blocks of the first swap file are not all in use, if some page of a
\* process was never written.
LEMMA BlockToSpare ==
  ASSUME AccountInv, Spacious, NEW p \in live, NEW v \in VPages, ~ Page(p, v).refed
  PROVE  FreeBlocks(pm) # {}
<1> DEFINE V == 1..(NVPages - 1)
           T == Procs \X V
           x == <<p, v>>
           n == Cardinality(Procs) * (NVPages - 1)
<1>1. /\ p \in Procs /\ vm[p].page[0].present /\ FramedAll(vm[p], VPages)
      /\ 0 \in VPages /\ NVPages \in Nat /\ NVPages >= 1
  BY AccountParts, VirtAssumption DEF VPages
<1>2. v # 0 BY <1>1 DEF FramedAll, Page
<1>3. x \in T
  <2>1. v \in V BY <1>1, <1>2 DEF VPages
  <2> QED BY <1>1, <2>1
<1>4. IsFiniteSet(Procs) /\ n <= PerFile BY DEF Spacious
<1>5. IsFiniteSet(V) /\ Cardinality(V) = NVPages - 1
  <2>1. 1 \in Int /\ NVPages - 1 \in Int BY <1>1
  <2>2. IsFiniteSet(V) /\ Cardinality(V) = IF 1 > NVPages - 1 THEN 0 ELSE NVPages - 1 - 1 + 1
    BY <2>1, FS_Interval
  <2> QED BY <2>2, <1>1
<1>6. IsFiniteSet(T) /\ Cardinality(T) = n BY <1>4, <1>5, FS_Product
<1>7. Absent \subseteq T \ {x}
  <2> SUFFICES ASSUME NEW m \in Absent PROVE m \in T \ {x} OBVIOUS
  <2>1. /\ m \in Procs \X VPages /\ m[1] \in live
        /\ Page(m[1], m[2]).refed /\ ~ Page(m[1], m[2]).present
    BY DEF Absent, Held
  <2>2. m # x
    <3>1. x[1] = p /\ x[2] = v OBVIOUS
    <3> HIDE DEF x
    <3> QED BY <2>1, <3>1
  <2>3. m[2] # 0
    <3>1. vm[m[1]].page[0].present BY <2>1, AccountParts
    <3> QED BY <2>1, <3>1 DEF Page
  <2>4. m[1] \in Procs /\ m[2] \in V /\ m = <<m[1], m[2]>>
    BY <2>1, <2>3, <1>1 DEF VPages
  <2>5. m \in T BY <2>4
  <2> QED BY <2>2, <2>5
<1> HIDE DEF T, V, x
<1>8. IsFiniteSet(T \ {x}) /\ Cardinality(T \ {x}) = n - 1
  BY <1>3, <1>6, FS_RemoveElement
<1>9. Cardinality(Absent) <= n - 1
  BY <1>7, <1>8, FS_Subset
<1>10. IsFiniteSet(pm.used) /\ Cardinality(pm.used) <= Cardinality(Absent) BY BlocksInUse
<1>11. Cardinality(Absent) \in Nat /\ Cardinality(pm.used) \in Nat /\ n \in Nat
  BY <1>1, <1>4, <1>6, <1>10, BlocksInUse, FS_CardinalityType
<1> HIDE DEF n
<1>12. Cardinality(pm.used) < PerFile
  BY <1>4, <1>9, <1>10, <1>11, PageAssumption
<1>13. PerFile \in Nat /\ PerFile >= 1 /\ Len(pm.files) \in Nat /\ Len(pm.files) >= 1
  BY AccountParts, PageAssumption DEF AccountInv, PageMemories
<1> SUFFICES ASSUME FreeBlocks(pm) = {} PROVE FALSE OBVIOUS
<1>14. 0..(PerFile - 1) \subseteq pm.used
  <2>1. PerFile - 1 <= PerFile * Len(pm.files) - 1
    <3>1. \A a, b \in Nat : b >= 1 => a <= a * b
      <4> SUFFICES ASSUME NEW a \in Nat, NEW b \in Nat, b >= 1 PROVE a <= a * b OBVIOUS
      <4>1. a * b = a * (b - 1) + a /\ a * (b - 1) \in Nat OBVIOUS
      <4> QED BY <4>1
    <3>2. PerFile <= PerFile * Len(pm.files) BY <3>1, <1>13
    <3> DEFINE q == PerFile * Len(pm.files)
    <3>3. q \in Nat BY <1>13
    <3> HIDE DEF q
    <3>4. PerFile <= q BY <3>2 DEF q
    <3>5. PerFile - 1 <= q - 1 BY <3>3, <3>4, <1>13
    <3> QED BY <3>5 DEF q
  <2>2. 0..(PerFile - 1) \subseteq 0..(PerFile * Len(pm.files) - 1)
    <3> DEFINE q == PerFile * Len(pm.files) - 1
    <3>1. q \in Int BY <1>13
    <3>2. PerFile - 1 <= q BY <2>1
    <3> HIDE DEF q
    <3>3. 0..(PerFile - 1) \subseteq 0..q BY <3>1, <3>2, <1>13
    <3> QED BY <3>3 DEF q
  <2> QED BY <2>2 DEF FreeBlocks
<1>15. Cardinality(0..(PerFile - 1)) = PerFile
  <2>1. 0 \in Int /\ PerFile - 1 \in Int BY <1>13
  <2>2. Cardinality(0..(PerFile - 1)) = IF 0 > PerFile - 1 THEN 0 ELSE PerFile - 1 - 0 + 1
    BY <2>1, FS_Interval
  <2> QED BY <2>2, <1>13
<1>16. Cardinality(0..(PerFile - 1)) <= Cardinality(pm.used) BY <1>10, <1>14, FS_Subset
<1> QED BY <1>11, <1>12, <1>13, <1>15, <1>16

\* With memory enough there is always room for all.
LEMMA RoomThere == ASSUME AccountInv, Spacious PROVE RoomForAll
BY PageToSpare, BlockToSpare DEF RoomForAll

-----------------------------------------------------------------------------
(* The theorems *)

\* Two frames or more for each process, and room for all: no step of the system is
\* one whose effect C++ leaves undefined.
THEOREM NothingUndefined ==
  ASSUME Ample
  PROVE  Spec /\ []RoomForAll => []NeverUndefined
BY AccountInvariance, AccountSays, PTL

\* Under the same, alloc_page(), pg_swap_in() and load() never give two pages one
\* physical page.
THEOREM PagesStayPrivate ==
  ASSUME Ample
  PROVE  Spec /\ []RoomForAll => []PagesArePrivate
BY AccountInvariance, AccountSays, PTL

\* Under the same, the free list and the page tables share the physical pages out:
\* the swapping and the destructor of a memory lose none and free none twice.
THEOREM PagesStayConserved ==
  ASSUME Ample
  PROVE  Spec /\ []RoomForAll => []PagesAreConserved
BY AccountInvariance, AccountSays, PTL

\* Under the same, the swap table has an entry for each page that is not in memory,
\* though pg_swap_in() and release_swap() look for it by a page number that pages of
\* several processes may have had.
THEOREM SwapStaysAccounted ==
  ASSUME Ample
  PROVE  Spec /\ []RoomForAll => []SwapIsAccounted
BY AccountInvariance, AccountSays, PTL

\* With memory enough there is always room for all: the hypothesis of the theorems
\* above follows from the sizes the system is built with.
THEOREM AlwaysRoom ==
  ASSUME Spacious
  PROVE  Spec => []RoomForAll
<1>1. Init => AccountInv BY InitAccount
<1>2. AccountInv /\ [Next]_vars => AccountInv'
  <2>1. AccountInv => RoomForAll BY RoomThere
  <2> QED BY <2>1, NextAccount, SpaciousIsAmple
<1>3. AccountInv => RoomForAll BY RoomThere
<1> QED BY <1>1, <1>2, <1>3, PTL DEF Spec

\* So, with memory enough, all four hold without a further hypothesis.
THEOREM EnoughMemoryIsSafe ==
  ASSUME Spacious
  PROVE  Spec => /\ []NeverUndefined /\ []PagesArePrivate
                 /\ []PagesAreConserved /\ []SwapIsAccounted
<1>1. Ample BY SpaciousIsAmple
<1> QED BY <1>1, AlwaysRoom, NothingUndefined, PagesStayPrivate, PagesStayConserved,
           SwapStaysAccounted, PTL
=============================================================================
