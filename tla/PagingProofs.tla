---------------------------- MODULE PagingProofs ----------------------------
(***************************************************************************)
(* The theorems about module Paging.  They hold for every number of pages, *)
(* of swap files, of blocks of a file, of processes and of their frames.   *)
(* First what the operations on the physical pages, the swap space and a   *)
(* virtual memory keep, then the steps of the system, which compose them,  *)
(* and at the end that they implement module Residency.                    *)
(***************************************************************************)
EXTENDS PagingProperties, ListLemmas, FiniteSetTheorems, TLAPS

USE PageAssumption, VirtAssumption, PagingAssumption

-----------------------------------------------------------------------------
(* Swap files and blocks *)

\* What a sequence has is of its type.
LEMMA SeqAt ==
  ASSUME NEW S, NEW s \in Seq(S), NEW i \in 1..Len(s)
  PROVE  s[i] \in S
  OBVIOUS

\* What a division of whole numbers leaves.
LEMMA DivBounds ==
  ASSUME NEW n \in Nat \ {0}, NEW b \in Nat
  PROVE  /\ b \div n \in Nat
         /\ n * (b \div n) <= b
         /\ b < n * (b \div n) + n
  BY SMTT(30)

\* A block of the bitmap is in one of the swap files.
LEMMA BlockHasFile ==
  ASSUME NEW n \in Nat, NEW b \in 0..(PerFile * n - 1)
  PROVE  FileOf(b) \in 1..n
<1> DEFINE q == b \div PerFile
<1>0. PerFile * n \in Int BY PageAssumption
<1>1. b \in Nat /\ b < PerFile * n
  BY <1>0
<1>2. q \in Nat /\ PerFile * q <= b
  BY <1>1, DivBounds
<1>3. FileOf(b) = q + 1 BY DEF FileOf
<1> HIDE DEF q
<1>4. SUFFICES ASSUME q >= n PROVE FALSE BY <1>2, <1>3
<1>5. PerFile * q >= PerFile * n BY <1>2, <1>4
<1> QED BY <1>1, <1>2, <1>5

\* A swap file has PerFile blocks at most.
LEMMA FileHolds ==
  ASSUME NEW S \in SUBSET Nat, NEW f \in Nat
  PROVE  /\ IsFiniteSet({b \in S : FileOf(b) = f})
         /\ Cardinality({b \in S : FileOf(b) = f}) \in Nat
         /\ Cardinality({b \in S : FileOf(b) = f}) <= PerFile
<1> DEFINE T == {b \in S : FileOf(b) = f}
           lo == PerFile * (f - 1)
           I == lo..(lo + PerFile - 1)
<1>1. T \subseteq I
  <2> SUFFICES ASSUME NEW b \in T PROVE b \in I OBVIOUS
  <2>1. b \in Nat /\ b \div PerFile = f - 1
    <3>1. b \in Nat /\ b \div PerFile \in Nat BY DivBounds
    <3> QED BY <3>1 DEF FileOf
  <2>2. PerFile * (f - 1) <= b /\ b < PerFile * (f - 1) + PerFile
    BY <2>1, DivBounds
  <2> QED BY <2>1, <2>2
<1>2. lo \in Int /\ lo + PerFile - 1 \in Int /\ (lo + PerFile - 1) - lo + 1 = PerFile /\ lo <= lo + PerFile - 1
  OBVIOUS
<1>3. IsFiniteSet(I) /\ Cardinality(I) = PerFile
  <2> HIDE DEF lo
  <2>1. IsFiniteSet(I) /\ Cardinality(I) = IF lo > lo + PerFile - 1 THEN 0 ELSE (lo + PerFile - 1) - lo + 1
    BY <1>2, FS_Interval
  <2> QED BY <2>1, <1>2
<1> HIDE DEF T, I
<1>4. IsFiniteSet(T) /\ Cardinality(T) <= PerFile
  BY <1>1, <1>3, FS_Subset
<1>5. Cardinality(T) \in Nat
  BY <1>4, FS_CardinalityType
<1> QED BY <1>4, <1>5 DEF T

\* pg_swap_out() takes the first block that is free.
LEMMA FreeBlockIsFree ==
  ASSUME NEW m \in PageMemories, FreeBlocks(m) # {}
  PROVE  /\ FreeBlock(m) \in Nat /\ FreeBlock(m) \notin m.used
         /\ FileOf(FreeBlock(m)) \in 1..Len(m.files)
<1>1. FreeBlocks(m) \in SUBSET Nat
  BY DEF FreeBlocks
<1>2. \E b \in FreeBlocks(m) : \A c \in FreeBlocks(m) : b <= c
  BY <1>1, LeastNat
<1>3. FreeBlock(m) \in FreeBlocks(m)
  BY <1>2 DEF FreeBlock
<1>4. Len(m.files) \in Nat
  BY DEF PageMemories
<1> QED BY <1>3, <1>4, BlockHasFile DEF FreeBlocks

-----------------------------------------------------------------------------
(* The swap table, its bitmap and the sizes of the files *)

\* A block of a registered file is counted at its path and at no other.
LEMMA WrittenSize ==
  ASSUME NEW m \in PageMemories, NEW b, FileOf(b) \in 1..Len(m.files)
  PROVE  LET q  == m.files[FileOf(b)]
             sz == WriteSwap(m, b)
         IN  /\ q \in SwapPaths /\ sz \in [SwapPaths -> FileSizes]
             /\ \A path \in SwapPaths \ {q} : sz[path] = m.size[path]
             /\ sz[q] = NoFile <=> m.size[q] = NoFile
             /\ m.size[q] \in 0..(PerFile - 1) => sz[q] = m.size[q] + 1
             /\ m.size[q] = PerFile => sz[q] = PerFile
<1> DEFINE q == m.files[FileOf(b)]
           sz == WriteSwap(m, b)
<1>1. m.files \in Seq(SwapPaths) /\ m.size \in [SwapPaths -> FileSizes] BY DEF PageMemories
<1>2. q \in SwapPaths BY <1>1, SeqAt
<1>3. sz = IF m.size[q] \in {NoFile, PerFile} THEN m.size
           ELSE [m.size EXCEPT ![q] = CountedUp(m.size[q])]
  BY DEF WriteSwap, PathOf
<1> HIDE DEF q, sz
<1>4. m.size[q] \in FileSizes BY <1>1, <1>2
<1>5. m.size[q] # NoFile =>
        /\ CountedUp(m.size[q]) \in FileSizes \ {NoFile}
        /\ m.size[q] < PerFile => CountedUp(m.size[q]) = m.size[q] + 1
  BY <1>4 DEF CountedUp, FileSizes, NoFile
<1>6. CASE m.size[q] \in {NoFile, PerFile}
  <2>1. sz = m.size BY <1>3, <1>6
  <2> QED BY <1>1, <1>2, <1>6, <2>1 DEF q, sz, NoFile
<1>7. CASE m.size[q] \notin {NoFile, PerFile}
  <2>1. sz = [m.size EXCEPT ![q] = CountedUp(m.size[q])] BY <1>3, <1>7
  <2>2. /\ sz \in [SwapPaths -> FileSizes] /\ sz[q] = CountedUp(m.size[q])
        /\ \A path \in SwapPaths \ {q} : sz[path] = m.size[path]
    BY <1>1, <1>2, <1>5, <1>7, <2>1
  <2> QED BY <1>2, <1>5, <1>7, <2>2 DEF q, sz
<1> QED BY <1>6, <1>7

\* The same of a block that is read.
LEMMA ReadSize ==
  ASSUME NEW m \in PageMemories, NEW b, FileOf(b) \in 1..Len(m.files)
  PROVE  LET q  == m.files[FileOf(b)]
             sz == ReadSwap(m, b)
         IN  /\ q \in SwapPaths /\ sz \in [SwapPaths -> FileSizes]
             /\ \A path \in SwapPaths \ {q} : sz[path] = m.size[path]
             /\ sz[q] = NoFile <=> m.size[q] = NoFile
             /\ m.size[q] \in Nat \ {0} => sz[q] = m.size[q] - 1
<1> DEFINE q == m.files[FileOf(b)]
           sz == ReadSwap(m, b)
<1>1. m.files \in Seq(SwapPaths) /\ m.size \in [SwapPaths -> FileSizes] BY DEF PageMemories
<1>2. q \in SwapPaths BY <1>1, SeqAt
<1>3. sz = IF m.size[q] = NoFile THEN m.size
           ELSE [m.size EXCEPT ![q] = CountedDown(m.size[q])]
  BY DEF ReadSwap, PathOf
<1> HIDE DEF q, sz
<1>4. m.size[q] \in FileSizes BY <1>1, <1>2
<1>5. m.size[q] # NoFile =>
        /\ CountedDown(m.size[q]) \in FileSizes \ {NoFile}
        /\ m.size[q] # 0 => CountedDown(m.size[q]) = m.size[q] - 1
  BY <1>4 DEF CountedDown, FileSizes, NoFile
<1>6. CASE m.size[q] = NoFile
  <2>1. sz = m.size /\ m.size[q] \notin Nat BY <1>3, <1>6 DEF NoFile
  <2> QED BY <1>1, <1>2, <1>6, <2>1 DEF q, sz
<1>7. CASE m.size[q] # NoFile
  <2>1. sz = [m.size EXCEPT ![q] = CountedDown(m.size[q])] BY <1>3, <1>7
  <2>2. /\ sz \in [SwapPaths -> FileSizes] /\ sz[q] = CountedDown(m.size[q])
        /\ \A path \in SwapPaths \ {q} : sz[path] = m.size[path]
    BY <1>1, <1>2, <1>5, <1>7, <2>1
  <2> QED BY <1>2, <1>5, <1>7, <2>2 DEF q, sz
<1> QED BY <1>6, <1>7

\* what every operation of class PageMemoryModel keeps
Sound(m) == m \in PageMemories /\ Matches(m) /\ Covers(m) /\ Listed(m)

\* Only the swap table, the bitmap and the files matter to their agreement.
LEMMA SameSwapSpace ==
  ASSUME NEW m, NEW n, Sound(m), n \in PageMemories,
         n.swap = m.swap, n.used = m.used, n.files = m.files, n.size = m.size
  PROVE  Sound(n)
<1>1. Matches(n) /\ Listed(n) BY DEF Sound, Matches, Listed
<1>2. \A f : (Alone(n, f) <=> Alone(m, f)) /\ UsedOf(n, f) = UsedOf(m, f)
  BY DEF Alone, UsedOf
<1>3. Covers(n) BY <1>2 DEF Sound, Covers
<1> QED BY <1>1, <1>3 DEF Sound

\* alloc_page() and free_page() leave the swap space alone.
LEMMA AllocatedSound ==
  ASSUME NEW m, Sound(m)
  PROVE  /\ Sound(Allocated(m)) /\ NextPage(m) \in Pages \cup {NoPage}
         /\ m.free # <<>> => NextPage(m) \in Pages
<1>1. CASE m.free = <<>>
  BY <1>1 DEF Allocated, NextPage
<1>2. CASE m.free # <<>>
  <2>1. m \in PageMemories BY DEF Sound
  <2>2. Head(m.free) \in Pages /\ Tail(m.free) \in Seq(Pages)
    BY <1>2, <2>1 DEF PageMemories
  <2>3. m.count[Head(m.free)] + 1 \in Nat
    BY <2>1, <2>2 DEF PageMemories
  <2> DEFINE n == Allocated(m)
  <2>4. /\ n \in PageMemories /\ n.swap = m.swap /\ n.used = m.used
        /\ n.files = m.files /\ n.size = m.size
    BY <1>2, <2>1, <2>2, <2>3 DEF Allocated, PageMemories
  <2>5. Sound(n)
    <3> HIDE DEF n
    <3> QED BY <2>4, SameSwapSpace
  <2> QED BY <1>2, <2>2, <2>5 DEF NextPage
<1> QED BY <1>1, <1>2

\* free_page(): the swap space is as it was.
LEMMA FreedSound ==
  ASSUME NEW m, Sound(m), NEW pg \in Pages
  PROVE  Sound(Freed(m, pg))
<1> DEFINE n == Freed(m, pg)
<1>1. m \in PageMemories BY DEF Sound
<1>2. Append(m.free, pg) \in Seq(Pages) /\ [m.count EXCEPT ![pg] = 0] \in [Pages -> Nat]
  BY <1>1 DEF PageMemories
<1>3. n = [m EXCEPT !.count = [m.count EXCEPT ![pg] = 0], !.free = Append(m.free, pg)]
  BY DEF Freed
<1>4. /\ n \in PageMemories /\ n.swap = m.swap /\ n.used = m.used
      /\ n.files = m.files /\ n.size = m.size
  <2> HIDE DEF n
  <2> QED BY <1>1, <1>2, <1>3 DEF PageMemories
<1> HIDE DEF n
<1>5. Sound(n) BY <1>4, SameSwapSpace
<1> QED BY <1>5 DEF n

\* A block more, or a block less, in the bitmap.
LEMMA UsedMore ==
  ASSUME NEW m \in PageMemories, NEW n \in PageMemories, NEW b \in Nat \ m.used,
         n.used = m.used \cup {b}, NEW f \in Nat
  PROVE  /\ Cardinality(UsedOf(n, f)) =
              IF FileOf(b) = f THEN Cardinality(UsedOf(m, f)) + 1 ELSE Cardinality(UsedOf(m, f))
         /\ Cardinality(UsedOf(m, f)) \in Nat
         /\ Cardinality(UsedOf(n, f)) <= PerFile
<1>1. m.used \in SUBSET Nat /\ n.used \in SUBSET Nat BY DEF PageMemories
<1>2. /\ IsFiniteSet(UsedOf(m, f)) /\ Cardinality(UsedOf(m, f)) \in Nat
      /\ Cardinality(UsedOf(n, f)) <= PerFile
  BY <1>1, FileHolds DEF UsedOf
<1>3. CASE FileOf(b) = f
  <2>1. UsedOf(n, f) = UsedOf(m, f) \cup {b} /\ b \notin UsedOf(m, f)
    BY <1>3 DEF UsedOf
  <2> QED BY <1>2, <1>3, <2>1, FS_AddElement
<1>4. CASE FileOf(b) # f
  <2>1. UsedOf(n, f) = UsedOf(m, f) BY <1>4 DEF UsedOf
  <2> QED BY <1>2, <1>4, <2>1
<1> QED BY <1>3, <1>4

\* A block less.
LEMMA UsedLess ==
  ASSUME NEW m \in PageMemories, NEW n \in PageMemories, NEW b \in m.used,
         n.used = m.used \ {b}, NEW f \in Nat
  PROVE  /\ Cardinality(UsedOf(n, f)) =
              IF FileOf(b) = f THEN Cardinality(UsedOf(m, f)) - 1 ELSE Cardinality(UsedOf(m, f))
         /\ Cardinality(UsedOf(m, f)) \in Nat /\ Cardinality(UsedOf(n, f)) \in Nat
<1>1. m.used \in SUBSET Nat /\ n.used \in SUBSET Nat BY DEF PageMemories
<1>2. /\ IsFiniteSet(UsedOf(m, f)) /\ Cardinality(UsedOf(m, f)) \in Nat
      /\ Cardinality(UsedOf(n, f)) \in Nat
  BY <1>1, FileHolds DEF UsedOf
<1>3. CASE FileOf(b) = f
  <2>1. UsedOf(n, f) = UsedOf(m, f) \ {b} /\ b \in UsedOf(m, f)
    BY <1>3 DEF UsedOf
  <2>2. Cardinality(UsedOf(m, f) \ {b}) = Cardinality(UsedOf(m, f)) - 1
    BY <1>2, <2>1, FS_RemoveElement
  <2> QED BY <1>2, <1>3, <2>1, <2>2
<1>4. CASE FileOf(b) # f
  <2>1. UsedOf(n, f) = UsedOf(m, f) BY <1>4 DEF UsedOf
  <2> QED BY <1>2, <1>4, <2>1
<1> QED BY <1>3, <1>4

\* new_swap() and create_swapspace(): the blocks of a new file are not in use,
\* and a path registered before is registered twice now.
LEMMA ExtendedSound ==
  ASSUME NEW m, Sound(m), NEW path \in SwapPaths, NEW created \in BOOLEAN
  PROVE  Sound(Extended(m, path, created))
<1> DEFINE n  == Extended(m, path, created)
           fs == Append(m.files, path)
           sz == [m.size EXCEPT ![path] = IF created /\ @ = NoFile THEN 0 ELSE @]
<1>1. m \in PageMemories /\ Matches(m) /\ Covers(m) /\ Listed(m) BY DEF Sound
<1>2. /\ m.files \in Seq(SwapPaths) /\ m.used \in SUBSET Nat
      /\ m.size \in [SwapPaths -> FileSizes]
  BY <1>1 DEF PageMemories
<1>3. /\ fs \in Seq(SwapPaths) /\ Len(fs) = Len(m.files) + 1 /\ Len(m.files) \in Nat
      /\ \A f \in 1..Len(m.files) : fs[f] = m.files[f]
      /\ fs[Len(fs)] = path
  BY <1>2
<1>4. /\ sz \in [SwapPaths -> FileSizes]
      /\ \A other \in SwapPaths \ {path} : sz[other] = m.size[other]
      /\ m.size[path] = NoFile => sz[path] \in {NoFile, 0}
  <2>1. 0 \in FileSizes BY PageAssumption DEF FileSizes
  <2> QED BY <1>2, <2>1
<1>5. n = [m EXCEPT !.files = fs, !.size = sz] BY DEF Extended
<1>6. n \in PageMemories /\ n.swap = m.swap /\ n.used = m.used /\ n.files = fs /\ n.size = sz
  <2> HIDE DEF n, fs, sz
  <2> QED BY <1>1, <1>3, <1>4, <1>5 DEF PageMemories
<1> HIDE DEF n, fs, sz
<1>7. Matches(n)
  BY <1>1, <1>2, <1>3, <1>6 DEF Matches
<1>8. Covers(n)
  <2> SUFFICES ASSUME NEW f \in 1..Len(fs), Alone(n, f), sz[fs[f]] # NoFile
               PROVE  Cardinality(UsedOf(n, f)) <= sz[fs[f]] /\ sz[fs[f]] <= PerFile
    BY <1>6 DEF Covers
  <2>1. UsedOf(n, f) = UsedOf(m, f) BY <1>6 DEF UsedOf
  <2>2. CASE f \in 1..Len(m.files)
    <3>1. Len(fs) \in 1..Len(fs) /\ Len(fs) # f BY <1>3, <2>2
    <3>2. fs[f] = m.files[f] /\ fs[f] # path
      BY <1>3, <1>6, <2>2, <3>1 DEF Alone
    <3>3. fs[f] \in SwapPaths BY <1>3, SeqAt
    <3>4. sz[fs[f]] = m.size[m.files[f]] BY <1>4, <3>2, <3>3
    <3>5. Alone(m, f) BY <1>3, <1>6, <2>2 DEF Alone
    <3> QED BY <1>1, <2>1, <2>2, <3>4, <3>5 DEF Covers
  <2>3. CASE f = Len(fs)
    <3>1. f \notin 1..Len(m.files) BY <1>3, <2>3
    <3>2. UsedOf(m, f) = {} BY <1>1, <3>1 DEF Matches, UsedOf
    <3>3. Cardinality(UsedOf(n, f)) = 0 BY <2>1, <3>2, FS_EmptySet
    <3>4. m.size[path] = NoFile
      <4> SUFFICES ASSUME m.size[path] # NoFile PROVE FALSE OBVIOUS
      <4>1. PICK g \in 1..Len(m.files) : m.files[g] = path BY <1>1 DEF Listed
      <4>2. g \in 1..Len(fs) /\ fs[g] = fs[f] /\ g # f BY <1>3, <2>3, <3>1, <4>1
      <4> QED BY <1>6, <4>2 DEF Alone
    <3> QED BY <1>3, <1>4, <2>3, <3>3, <3>4, PageAssumption
  <2> QED BY <1>3, <2>2, <2>3
<1>9. Listed(n)
  <2> SUFFICES ASSUME NEW other \in SwapPaths, sz[other] # NoFile
               PROVE  \E f \in 1..Len(fs) : fs[f] = other
    BY <1>6 DEF Listed
  <2>1. CASE other = path
    <3>1. Len(fs) \in 1..Len(fs) BY <1>3
    <3> QED BY <1>3, <2>1, <3>1
  <2>2. CASE other # path
    <3>1. PICK f \in 1..Len(m.files) : m.files[f] = other BY <1>1, <1>4, <2>2 DEF Listed
    <3>2. f \in 1..Len(fs) BY <1>3
    <3> QED BY <1>3, <3>1, <3>2
  <2> QED BY <2>1, <2>2
<1>10. Sound(n) BY <1>6, <1>7, <1>8, <1>9 DEF Sound
<1> QED BY <1>10 DEF n

\* pg_swap_out(): the block that is marked is the new entry's, and is counted
\* unless the file says that it is full.
LEMMA SwappedOutSound ==
  ASSUME NEW m, Sound(m), NEW pg, FreeBlocks(m) = {} \/ pg \in Pages
  PROVE  Sound(SwappedOut(m, pg))
<1>1. CASE FreeBlocks(m) = {}
  BY <1>1 DEF SwappedOut
<1>2. CASE FreeBlocks(m) # {}
  <2> DEFINE n == SwappedOut(m, pg)
             b == FreeBlock(m)
             g == FileOf(b)
             e == [page |-> pg, blk |-> b, count |-> m.count[pg]]
             sz == WriteSwap(m, b)
  <2>1. /\ m \in PageMemories /\ Matches(m) /\ Covers(m) /\ Listed(m) /\ pg \in Pages
    BY <1>2 DEF Sound
  <2>2. b \in Nat /\ b \notin m.used /\ g \in 1..Len(m.files) BY <1>2, <2>1, FreeBlockIsFree
  <2>3. /\ m.swap \in Seq(SwapEntry) /\ m.free \in Seq(Pages) /\ m.count \in [Pages -> Nat]
        /\ m.used \in SUBSET Nat /\ m.files \in Seq(SwapPaths)
        /\ m.size \in [SwapPaths -> FileSizes]
    BY <2>1 DEF PageMemories
  <2> HIDE DEF b
  <2> DEFINE q == m.files[g]
  <2>4. /\ q \in SwapPaths /\ sz \in [SwapPaths -> FileSizes]
        /\ \A path \in SwapPaths \ {q} : sz[path] = m.size[path]
        /\ sz[q] = NoFile <=> m.size[q] = NoFile
        /\ m.size[q] \in 0..(PerFile - 1) => sz[q] = m.size[q] + 1
        /\ m.size[q] = PerFile => sz[q] = PerFile
    BY <2>1, <2>2, WrittenSize
  <2>5. e \in SwapEntry /\ e.blk = b BY <2>1, <2>2, <2>3 DEF SwapEntry
  <2>6. n = [free |-> Append(m.free, pg), count |-> [m.count EXCEPT ![pg] = 0],
             swap |-> Append(m.swap, e), used |-> m.used \cup {b},
             files |-> m.files, size |-> sz]
    BY <1>2 DEF SwappedOut, b
  <2> HIDE DEF n, sz, e, g, q
  <2>7. n \in PageMemories
    <3>1. /\ Append(m.free, pg) \in Seq(Pages) /\ [m.count EXCEPT ![pg] = 0] \in [Pages -> Nat]
          /\ Append(m.swap, e) \in Seq(SwapEntry) /\ m.used \cup {b} \in SUBSET Nat
      BY <2>1, <2>2, <2>3, <2>5
    <3> QED BY <2>3, <2>4, <2>6, <3>1 DEF PageMemories
  <2>8. Matches(n)
    <3>1. /\ Len(n.swap) = Len(m.swap) + 1 /\ Len(m.swap) \in Nat
          /\ \A i \in 1..Len(m.swap) : n.swap[i] = m.swap[i]
          /\ n.swap[Len(m.swap) + 1].blk = b
      BY <2>3, <2>5, <2>6
    <3>2. n.used = {n.swap[i].blk : i \in 1..Len(n.swap)}
      <4>1. \A x \in n.used : \E i \in 1..Len(n.swap) : n.swap[i].blk = x
        <5> TAKE x \in n.used
        <5>1. CASE x = b
          <6>1. Len(m.swap) + 1 \in 1..Len(n.swap) BY <3>1
          <6> QED BY <5>1, <6>1, <3>1
        <5>2. CASE x \in m.used
          <6>1. PICK i \in 1..Len(m.swap) : m.swap[i].blk = x BY <5>2, <2>1 DEF Matches
          <6>2. i \in 1..Len(n.swap) BY <3>1
          <6> QED BY <6>1, <6>2, <3>1
        <5> QED BY <5>1, <5>2, <2>6
      <4>2. \A i \in 1..Len(n.swap) : n.swap[i].blk \in n.used
        <5> TAKE i \in 1..Len(n.swap)
        <5>1. CASE i = Len(m.swap) + 1 BY <5>1, <3>1, <2>6
        <5>2. CASE i \in 1..Len(m.swap) BY <5>2, <3>1, <2>1, <2>6 DEF Matches
        <5> QED BY <5>1, <5>2, <3>1
      <4> HIDE DEF b
      <4>3. \A x : x \in n.used <=> x \in {n.swap[i].blk : i \in 1..Len(n.swap)}
        BY <4>1, <4>2, Zenon
      <4> QED BY <4>3, Zenon
    <3>3. \A i, j \in 1..Len(n.swap) : n.swap[i].blk = n.swap[j].blk => i = j
      <4>1. \A i \in 1..Len(m.swap) : m.swap[i].blk \in m.used BY <2>1 DEF Matches
      <4>2. \A i, j \in 1..Len(m.swap) : m.swap[i].blk = m.swap[j].blk => i = j
        BY <2>1 DEF Matches
      <4>3. \A i \in 1..Len(m.swap) : n.swap[i].blk # b BY <4>1, <3>1, <2>2
      <4>4. \A i \in 1..Len(n.swap) : i = Len(m.swap) + 1 \/ i \in 1..Len(m.swap) BY <3>1
      <4> HIDE DEF b
      <4> QED BY <4>2, <4>3, <4>4, <3>1
    <3>4. \A x \in n.used : FileOf(x) \in 1..Len(n.files)
      BY <2>1, <2>2, <2>6 DEF Matches, g
    <3> QED BY <3>2, <3>3, <3>4 DEF Matches
  <2>9. Covers(n)
    <3> SUFFICES ASSUME NEW f \in 1..Len(m.files), Alone(m, f), sz[m.files[f]] # NoFile
                 PROVE  /\ Cardinality(UsedOf(n, f)) <= sz[m.files[f]]
                        /\ sz[m.files[f]] <= PerFile
      BY <2>6 DEF Covers, Alone
    <3>1. /\ Cardinality(UsedOf(n, f)) = IF g = f THEN Cardinality(UsedOf(m, f)) + 1
                                                  ELSE Cardinality(UsedOf(m, f))
          /\ Cardinality(UsedOf(m, f)) \in Nat /\ Cardinality(UsedOf(n, f)) <= PerFile
      <4>1. b \in Nat \ m.used /\ n.used = m.used \cup {b} /\ f \in Nat BY <2>2, <2>3, <2>6
      <4> QED BY <2>1, <2>7, <4>1, UsedMore DEF g
    <3>2. m.files[f] \in SwapPaths BY <2>3, SeqAt
    <3>3. CASE f = g
      <4>1. m.size[q] # NoFile BY <2>4, <3>3 DEF q
      <4>2. Cardinality(UsedOf(m, f)) <= m.size[q] /\ m.size[q] <= PerFile
        BY <2>1, <3>3, <4>1 DEF Covers, q
      <4>3. m.size[q] \in Int /\ m.size[q] \in Nat
        BY <2>3, <2>4, <4>1 DEF FileSizes, NoFile
      <4> QED BY <2>4, <3>1, <3>3, <4>2, <4>3 DEF q
    <3>4. CASE f # g
      <4>1. m.files[f] # q BY <2>2, <3>4 DEF Alone, q
      <4>2. sz[m.files[f]] = m.size[m.files[f]] BY <2>4, <3>2, <4>1
      <4> QED BY <2>1, <3>1, <3>4, <4>2 DEF Covers
    <3> QED BY <3>3, <3>4
  <2>10. Listed(n) BY <2>1, <2>4, <2>6 DEF Listed
  <2>11. Sound(n) BY <2>7, <2>8, <2>9, <2>10 DEF Sound
  <2> QED BY <2>11 DEF n
<1> QED BY <1>1, <1>2

\* The first entry for a page is an entry for it.
LEMMA EntryIsThere ==
  ASSUME NEW m \in PageMemories, NEW pg, Swapped(m, pg)
  PROVE  /\ FirstEntry(m, pg) \in 1..Len(m.swap)
         /\ Entry(m, pg) = m.swap[FirstEntry(m, pg)]
         /\ Entry(m, pg) \in SwapEntry
<1> DEFINE T == {i \in 1..Len(m.swap) : m.swap[i].page = pg}
<1>1. m.swap \in Seq(SwapEntry) BY DEF PageMemories
<1>2. T # {} /\ T \in SUBSET Nat BY DEF Swapped
<1>3. PICK i \in T : \A k \in T : i <= k
  <2> HIDE DEF T
  <2> QED BY <1>2, LeastNat
<1>4. i \in 1..Len(m.swap) /\ m.swap[i].page = pg /\ \A j \in 1..(i - 1) : m.swap[j].page # pg
  <2> SUFFICES ASSUME NEW j \in 1..(i - 1), m.swap[j].page = pg PROVE FALSE OBVIOUS
  <2>1. j \in T /\ i \in Nat /\ j < i BY <1>1, <1>3
  <2> QED BY <1>3, <2>1
<1>5. FirstEntry(m, pg) \in 1..Len(m.swap)
  BY <1>4 DEF FirstEntry
<1> QED BY <1>1, <1>5, SeqAt DEF Entry

\* An entry is taken out with its block.
LEMMA ReleasedSound ==
  ASSUME NEW m, Sound(m), NEW pg, Swapped(m, pg)
  PROVE  /\ Sound(Released(m, pg))
         /\ Released(m, pg).free = m.free /\ Released(m, pg).files = m.files
         /\ Released(m, pg).size = m.size
         /\ Entry(m, pg).blk \in m.used
         /\ Released(m, pg).used = m.used \ {Entry(m, pg).blk}
<1> DEFINE n == Released(m, pg)
           i == FirstEntry(m, pg)
           b == Entry(m, pg).blk
           sw == WithoutIndex(m.swap, i)
<1>1. m \in PageMemories /\ Matches(m) /\ Covers(m) BY DEF Sound
<1>2. m.swap \in Seq(SwapEntry) /\ m.used \in SUBSET Nat BY <1>1 DEF PageMemories
<1>3. i \in 1..Len(m.swap) /\ b = m.swap[i].blk BY <1>1, EntryIsThere
<1>4. b \in m.used BY <1>1, <1>3 DEF Matches
<1>5. n = [m EXCEPT !.swap = sw, !.used = m.used \ {b}] BY DEF Released
<1> HIDE DEF n, i, b
<1>6. /\ sw \in Seq(SwapEntry) /\ Len(sw) = Len(m.swap) - 1
      /\ \A j \in 1..Len(sw) : sw[j] = m.swap[IF j < i THEN j ELSE j + 1]
      /\ \A j \in 1..Len(sw) : (IF j < i THEN j ELSE j + 1) \in 1..Len(m.swap) \ {i}
  <2>1. sw \in Seq(SwapEntry) BY <1>2, <1>3, WithoutIndexOccurs
  <2> QED BY <2>1, <1>2, <1>3 DEF WithoutIndex
<1> HIDE DEF sw
<1>7. /\ n \in PageMemories /\ n.swap = sw /\ n.used = m.used \ {b} /\ n.files = m.files
      /\ n.free = m.free /\ n.size = m.size
  BY <1>1, <1>2, <1>5, <1>6 DEF PageMemories
<1>8. Matches(n)
  <2>1. \A j \in 1..Len(sw) : sw[j].blk \in n.used
    <3> TAKE j \in 1..Len(sw)
    <3> DEFINE k == IF j < i THEN j ELSE j + 1
    <3>1. k \in 1..Len(m.swap) /\ k # i /\ sw[j] = m.swap[k] BY <1>6
    <3> HIDE DEF k
    <3>2. m.swap[k].blk \in m.used /\ m.swap[k].blk # b BY <1>1, <1>3, <3>1 DEF Matches
    <3> QED BY <1>7, <3>1, <3>2
  <2>2. \A x \in n.used : \E j \in 1..Len(sw) : sw[j].blk = x
    <3> TAKE x \in n.used
    <3>1. x \in m.used /\ x # b BY <1>7
    <3>2. PICK k \in 1..Len(m.swap) : m.swap[k].blk = x BY <1>1, <3>1 DEF Matches
    <3>3. k # i BY <1>3, <3>1, <3>2
    <3> DEFINE j == IF k < i THEN k ELSE k - 1
    <3>4. j \in 1..Len(sw) /\ sw[j] = m.swap[k] BY <1>2, <1>3, <1>6, <3>3
    <3> QED BY <3>2, <3>4
  <2>3. n.used = {sw[j].blk : j \in 1..Len(sw)}
    <3>1. \A x : x \in n.used <=> x \in {sw[j].blk : j \in 1..Len(sw)} BY <2>1, <2>2, Zenon
    <3> QED BY <3>1, Zenon
  <2>4. \A j, l \in 1..Len(sw) : sw[j].blk = sw[l].blk => j = l
    <3> SUFFICES ASSUME NEW j \in 1..Len(sw), NEW l \in 1..Len(sw), sw[j].blk = sw[l].blk
                 PROVE  j = l
      OBVIOUS
    <3> DEFINE k(x) == IF x < i THEN x ELSE x + 1
    <3>1. /\ k(j) \in 1..Len(m.swap) /\ sw[j] = m.swap[k(j)]
          /\ k(l) \in 1..Len(m.swap) /\ sw[l] = m.swap[k(l)]
      BY <1>6
    <3>2. k(j) = k(l)
      <4> HIDE DEF k
      <4> QED BY <1>1, <3>1 DEF Matches
    <3>3. i \in Int /\ j \in Int /\ l \in Int BY <1>3
    <3> QED BY <3>2, <3>3
  <2>5. \A x \in n.used : FileOf(x) \in 1..Len(n.files) BY <1>1, <1>7 DEF Matches
  <2>6. n.swap = sw BY <1>7
  <2>7. n.used = {n.swap[j].blk : j \in 1..Len(n.swap)} BY ONLY <2>3, <2>6
  <2>8. \A j, l \in 1..Len(n.swap) : n.swap[j].blk = n.swap[l].blk => j = l BY ONLY <2>4, <2>6
  <2> QED BY <2>5, <2>7, <2>8, Zenon DEF Matches
<1>9. Covers(n)
  <2> SUFFICES ASSUME NEW f \in 1..Len(m.files), Alone(m, f), m.size[m.files[f]] # NoFile
               PROVE  /\ Cardinality(UsedOf(n, f)) <= m.size[m.files[f]]
                      /\ m.size[m.files[f]] <= PerFile
    BY <1>7 DEF Covers, Alone
  <2>1. m.files \in Seq(SwapPaths) /\ f \in Nat BY <1>1 DEF PageMemories
  <2>2. m.size[m.files[f]] \in Nat
    <3>1. m.files[f] \in SwapPaths BY <2>1, SeqAt
    <3> QED BY <1>1, <3>1 DEF PageMemories, FileSizes, NoFile
  <2>3. /\ Cardinality(UsedOf(n, f)) <= Cardinality(UsedOf(m, f))
        /\ Cardinality(UsedOf(m, f)) \in Nat /\ Cardinality(UsedOf(n, f)) \in Nat
    <3>1. /\ Cardinality(UsedOf(n, f)) =
                IF FileOf(b) = f THEN Cardinality(UsedOf(m, f)) - 1 ELSE Cardinality(UsedOf(m, f))
          /\ Cardinality(UsedOf(m, f)) \in Nat /\ Cardinality(UsedOf(n, f)) \in Nat
      BY <1>1, <1>4, <1>7, <2>1, UsedLess
    <3> QED BY <3>1
  <2>4. Cardinality(UsedOf(m, f)) <= m.size[m.files[f]] /\ m.size[m.files[f]] <= PerFile
    BY <1>1 DEF Covers
  <2> QED BY <2>2, <2>3, <2>4
<1>10. Listed(n) BY <1>7 DEF Sound, Listed
<1>11. Sound(n) BY <1>7, <1>8, <1>9, <1>10 DEF Sound
<1> QED BY <1>4, <1>7, <1>11 DEF n, b

\* pg_swap_in(): the block of the entry is free again, and the file counts one less.
LEMMA SwappedInSound ==
  ASSUME NEW m, Sound(m), NEW pg, Swapped(m, pg) => m.free # <<>>
  PROVE  Sound(SwappedIn(m, pg)) /\ SwapInPage(m, pg) \in Pages
<1>1. CASE ~ Swapped(m, pg)
  BY <1>1, PageAssumption DEF SwappedIn, SwapInPage, Pages
<1>2. CASE Swapped(m, pg)
  <2> DEFINE r == Released(m, pg)
             k == Allocated(r)
             b == Entry(m, pg).blk
             g == FileOf(b)
             q == m.files[g]
             sz == ReadSwap(m, b)
             ct == [k.count EXCEPT ![NextPage(m)] = Entry(m, pg).count]
             n == SwappedIn(m, pg)
  <2>1. /\ Sound(r) /\ r.free = m.free /\ r.files = m.files /\ r.size = m.size /\ b \in m.used
        /\ r.used = m.used \ {b}
    BY <1>2, ReleasedSound
  <2>2. m \in PageMemories /\ Matches(m) /\ Covers(m) /\ Listed(m) BY DEF Sound
  <2>3. Entry(m, pg).count \in Nat
    <3>1. Entry(m, pg) \in SwapEntry BY <1>2, <2>2, EntryIsThere
    <3> QED BY <3>1 DEF SwapEntry
  <2>4. n = [k EXCEPT !.count = ct, !.size = sz]
    BY <1>2 DEF SwappedIn
  <2> HIDE DEF r, b
  <2>5. Sound(k) /\ k.used = m.used \ {b} /\ k.files = m.files /\ k.size = m.size
    <3>1. Sound(k) BY <2>1, AllocatedSound
    <3> QED BY <3>1, <2>1 DEF Allocated
  <2>6. NextPage(m) \in Pages BY <1>2, AllocatedSound
  <2> HIDE DEF k
  <2>7. /\ m.used \in SUBSET Nat /\ m.files \in Seq(SwapPaths) /\ g \in 1..Len(m.files)
        /\ m.size \in [SwapPaths -> FileSizes]
        /\ k \in PageMemories /\ Matches(k) /\ Listed(k)
    BY <2>1, <2>2, <2>5 DEF PageMemories, Matches, Sound
  <2>8. /\ q \in SwapPaths /\ sz \in [SwapPaths -> FileSizes]
        /\ \A path \in SwapPaths \ {q} : sz[path] = m.size[path]
        /\ sz[q] = NoFile <=> m.size[q] = NoFile
        /\ m.size[q] \in Nat \ {0} => sz[q] = m.size[q] - 1
    BY <2>2, <2>7, ReadSize
  <2> HIDE DEF n, g, q, sz
  <2>9. ASSUME NEW f \in 1..Len(m.files), Alone(m, f), m.size[m.files[f]] # NoFile
        PROVE  /\ m.files[f] \in SwapPaths /\ m.size[m.files[f]] \in Nat
               /\ Cardinality(UsedOf(k, f)) =
                    IF g = f THEN Cardinality(UsedOf(m, f)) - 1 ELSE Cardinality(UsedOf(m, f))
               /\ Cardinality(UsedOf(m, f)) \in Nat /\ Cardinality(UsedOf(k, f)) \in Nat
               /\ Cardinality(UsedOf(m, f)) <= m.size[m.files[f]]
               /\ m.size[m.files[f]] <= PerFile
    <3>1. f \in Nat /\ m.files[f] \in SwapPaths BY <2>7, SeqAt
    <3>2. m.size[m.files[f]] \in Nat BY <2>7, <2>9, <3>1 DEF FileSizes, NoFile
    <3>3. /\ Cardinality(UsedOf(k, f)) =
               IF g = f THEN Cardinality(UsedOf(m, f)) - 1 ELSE Cardinality(UsedOf(m, f))
          /\ Cardinality(UsedOf(m, f)) \in Nat /\ Cardinality(UsedOf(k, f)) \in Nat
      BY <2>1, <2>2, <2>5, <2>7, <3>1, UsedLess DEF g
    <3> QED BY <2>2, <2>9, <3>1, <3>2, <3>3 DEF Covers
  <2>10. ct \in [Pages -> Nat] BY <2>3, <2>6, <2>7 DEF PageMemories
  <2> HIDE DEF ct
  <2>11. /\ n \in PageMemories /\ n.swap = k.swap /\ n.used = k.used
         /\ n.files = m.files /\ n.size = sz
    BY <2>4, <2>5, <2>7, <2>8, <2>10 DEF PageMemories
  <2>12. Matches(n) BY <2>5, <2>7, <2>11 DEF Matches
  <2>13. Covers(n)
    <3> SUFFICES ASSUME NEW f \in 1..Len(m.files), Alone(m, f), sz[m.files[f]] # NoFile
                 PROVE  /\ Cardinality(UsedOf(n, f)) <= sz[m.files[f]]
                        /\ sz[m.files[f]] <= PerFile
      BY <2>11 DEF Covers, Alone
    <3>1. UsedOf(n, f) = UsedOf(k, f) BY <2>11 DEF UsedOf
    <3>2. CASE f = g
      <4>1. m.size[m.files[f]] # NoFile /\ m.files[f] = q BY <2>8, <3>2 DEF q
      <4> QED BY <2>8, <2>9, <3>1, <3>2, <4>1, PageAssumption
    <3>3. CASE f # g
      <4>1. m.files[f] # q /\ m.files[f] \in SwapPaths BY <2>7, <3>3, SeqAt DEF Alone, q
      <4>2. sz[m.files[f]] = m.size[m.files[f]] BY <2>8, <4>1
      <4> QED BY <2>9, <3>1, <3>3, <4>2
    <3> QED BY <3>2, <3>3
  <2>14. Listed(n) BY <2>2, <2>5, <2>7, <2>8, <2>11 DEF Listed
  <2>15. Sound(n) BY <2>11, <2>12, <2>13, <2>14 DEF Sound
  <2> QED BY <1>2, <2>6, <2>15 DEF n, SwapInPage
<1> QED BY <1>1, <1>2

\* The memory at the start.
LEMMA NewSound == Sound(NewMemory)
<1> DEFINE sz == [path \in SwapPaths |-> IF path = BootPath THEN 0 ELSE NoFile]
<1>1. [i \in 1..NPages |-> i - 1] \in Seq(Pages)
  BY PageAssumption DEF Pages
<1>2. sz \in [SwapPaths -> FileSizes] /\ sz[BootPath] = 0
      /\ \A path \in SwapPaths : sz[path] # NoFile => path = BootPath
  BY PageAssumption DEF FileSizes
<1>3. /\ NewMemory \in PageMemories /\ NewMemory.used = {} /\ NewMemory.swap = <<>>
      /\ NewMemory.files = <<BootPath>> /\ NewMemory.size = sz
  <2>1. /\ [pg \in Pages |-> 0] \in [Pages -> Nat] /\ <<>> \in Seq(SwapEntry)
        /\ {} \in SUBSET Nat /\ <<BootPath>> \in Seq(SwapPaths)
    BY PageAssumption
  <2> HIDE DEF sz
  <2> QED BY <1>1, <1>2, <2>1 DEF NewMemory, PageMemories, sz
<1> HIDE DEF sz
<1>4. Matches(NewMemory) BY <1>3 DEF Matches
<1>5. \A f \in 1..Len(NewMemory.files) : NewMemory.files[f] = BootPath BY <1>3
<1>6. Covers(NewMemory)
  <2>1. \A f : Cardinality(UsedOf(NewMemory, f)) = 0
    <3> TAKE f
    <3>1. UsedOf(NewMemory, f) = {} BY <1>3 DEF UsedOf
    <3> QED BY <3>1, FS_EmptySet
  <2> QED BY <1>2, <1>3, <1>5, <2>1, PageAssumption DEF Covers
<1>7. Listed(NewMemory)
  <2>1. 1 \in 1..Len(NewMemory.files) BY <1>3
  <2> QED BY <1>2, <1>3, <1>5, <2>1 DEF Listed
<1> QED BY <1>3, <1>4, <1>6, <1>7 DEF Sound

-----------------------------------------------------------------------------
(* The frames of a process *)

\* What the frames and the page table of a process are.
LEMMA FrameFacts ==
  ASSUME NEW k \in VirtMemories
  PROVE  /\ k.frame \in Seq(VPages \cup {Empty}) /\ Len(k.frame) \in Nat /\ k.nmapped \in Nat
         /\ k.page \in [VPages -> PageEntry]
         /\ \A i \in 1..Len(k.frame) : k.frame[i] \in VPages \cup {Empty}
         /\ Empty \notin VPages /\ VPages \subseteq Nat /\ 0 \in VPages
         /\ IsFiniteSet(FramesInUse(k)) /\ Cardinality(FramesInUse(k)) \in 0..Len(k.frame)
         /\ Cardinality(FramesInUse(k)) = Len(k.frame) => FramesInUse(k) = 1..Len(k.frame)
<1>1. /\ k.frame \in Seq(VPages \cup {Empty}) /\ Len(k.frame) \in Nat /\ k.nmapped \in Nat
      /\ k.page \in [VPages -> PageEntry]
  BY DEF VirtMemories
<1>2. Empty \notin VPages /\ VPages \subseteq Nat /\ 0 \in VPages
  BY VirtAssumption DEF Empty, VPages
<1>3. \A i \in 1..Len(k.frame) : k.frame[i] \in VPages \cup {Empty}
  BY <1>1
<1>4. IsFiniteSet(1..Len(k.frame)) /\ Cardinality(1..Len(k.frame)) = Len(k.frame)
  <2> DEFINE a == Len(k.frame)
  <2> HIDE DEF a
  <2>1. a \in Nat => IsFiniteSet(1..a) /\ Cardinality(1..a) = a BY FS_Interval
  <2> QED BY <1>1, <2>1 DEF a
<1>5. FramesInUse(k) \in SUBSET (1..Len(k.frame)) BY DEF FramesInUse
<1>6. /\ IsFiniteSet(FramesInUse(k)) /\ Cardinality(FramesInUse(k)) <= Len(k.frame)
      /\ Cardinality(FramesInUse(k)) = Len(k.frame) => FramesInUse(k) = 1..Len(k.frame)
  <2> DEFINE A == 1..Len(k.frame)
             B == FramesInUse(k)
  <2> HIDE DEF A, B
  <2>1. IsFiniteSet(A) /\ Cardinality(A) = Len(k.frame) /\ B \in SUBSET A BY <1>4, <1>5 DEF A, B
  <2>2. IsFiniteSet(B) /\ Cardinality(B) <= Cardinality(A) /\ (Cardinality(A) = Cardinality(B) => A = B)
    BY <2>1, FS_Subset
  <2> QED BY <2>1, <2>2 DEF A, B
<1>7. Cardinality(FramesInUse(k)) \in Nat BY <1>6, FS_CardinalityType
<1> QED BY <1>1, <1>2, <1>3, <1>6, <1>7

\* What a frame gets and loses, with the page tables of k and n alike or not.
LEMMA FrameFilled ==
  ASSUME NEW k \in VirtMemories, NEW n \in VirtMemories, Counted(k),
         NEW i \in 1..Len(k.frame), k.frame[i] = Empty, NEW v \in VPages,
         n.frame = [k.frame EXCEPT ![i] = v], n.nmapped = k.nmapped + 1
  PROVE  Counted(n)
<1>1. FramesInUse(n) = FramesInUse(k) \cup {i} /\ i \notin FramesInUse(k)
  <2>1. Len(n.frame) = Len(k.frame) /\ v # Empty BY FrameFacts
  <2>2. \A j \in 1..Len(k.frame) : n.frame[j] = IF j = i THEN v ELSE k.frame[j]
    BY FrameFacts
  <2> QED BY <2>1, <2>2 DEF FramesInUse
<1>2. IsFiniteSet(FramesInUse(k)) BY FrameFacts
<1>3. Cardinality(FramesInUse(n)) = Cardinality(FramesInUse(k)) + 1
  <2> DEFINE A == FramesInUse(k)
             B == FramesInUse(n)
  <2> HIDE DEF A, B
  <2>1. IsFiniteSet(A) /\ B = A \cup {i} /\ i \notin A BY <1>1, <1>2 DEF A, B
  <2>2. Cardinality(B) = Cardinality(A) + 1 BY <2>1, FS_AddElement
  <2> QED BY <2>2 DEF A, B
<1> QED BY <1>3 DEF Counted

\* A frame loses its page.
LEMMA FrameEmptied ==
  ASSUME NEW k \in VirtMemories, NEW n \in VirtMemories, Counted(k),
         NEW i \in 1..Len(k.frame), k.frame[i] # Empty,
         n.frame = [k.frame EXCEPT ![i] = Empty], n.nmapped = k.nmapped - 1
  PROVE  Counted(n)
<1>1. FramesInUse(n) = FramesInUse(k) \ {i} /\ i \in FramesInUse(k)
  BY FrameFacts DEF FramesInUse
<1>2. IsFiniteSet(FramesInUse(k)) BY FrameFacts
<1>3. Cardinality(FramesInUse(n)) = Cardinality(FramesInUse(k)) - 1
  <2> DEFINE A == FramesInUse(k)
             B == FramesInUse(n)
  <2> HIDE DEF A, B
  <2>1. IsFiniteSet(A) /\ B = A \ {i} /\ i \in A BY <1>1, <1>2 DEF A, B
  <2>2. Cardinality(B) = Cardinality(A) - 1 BY <2>1, FS_RemoveElement
  <2> QED BY <2>2 DEF A, B
<1> QED BY <1>3 DEF Counted

\* alloc_frame() finds an empty frame unless all are counted.
LEMMA EmptyFrameIsThere ==
  ASSUME NEW k \in VirtMemories, Counted(k), ~ Full(k)
  PROVE  EmptyFrame(k) \in 1..Len(k.frame) /\ k.frame[EmptyFrame(k)] = Empty
<1> DEFINE T == {i \in 1..Len(k.frame) : k.frame[i] = Empty}
<1>1. T # {}
  <2> SUFFICES ASSUME T = {} PROVE FALSE OBVIOUS
  <2>1. FramesInUse(k) = 1..Len(k.frame) BY DEF FramesInUse
  <2>2. Len(k.frame) \in Nat BY FrameFacts
  <2>3. Cardinality(1..Len(k.frame)) = Len(k.frame) BY <2>2, FS_Interval
  <2> QED BY <2>1, <2>3 DEF Counted, Full
<1>2. T \in SUBSET Nat OBVIOUS
<1>3. PICK i \in T : \A j \in T : i <= j
  <2> HIDE DEF T
  <2> QED BY <1>1, <1>2, LeastNat
<1>4. i \in 1..Len(k.frame) /\ k.frame[i] = Empty /\ \A j \in 1..(i - 1) : k.frame[j] # Empty
  <2> SUFFICES ASSUME NEW j \in 1..(i - 1), k.frame[j] = Empty PROVE FALSE OBVIOUS
  <2>1. Len(k.frame) \in Nat BY FrameFacts
  <2>2. j \in T /\ i \in Nat /\ j < i BY <1>3, <2>1
  <2> QED BY <1>3, <2>2
<1> QED BY <1>4 DEF EmptyFrame

\* replace() finds a page to evict among the frames, and not that of the program.
LEMMA OldestIsThere ==
  ASSUME NEW k \in VirtMemories, Counted(k), Full(k), Candidates(k) # {}
  PROVE  /\ Oldest(k) \in 1..Len(k.frame)
         /\ Evicted(k) = k.frame[Oldest(k)]
         /\ Evicted(k) \in VPages \ {0}
         /\ \A j \in Candidates(k) : Age(k, Oldest(k)) <= Age(k, j)
<1> DEFINE C == Candidates(k)
           A(i) == Age(k, i)
<1>1. /\ C # {} /\ C \in SUBSET Nat /\ C \subseteq 1..Len(k.frame)
      /\ \A i \in C : k.frame[i] # 0
  BY DEF Candidates
<1>2. \A i \in 1..Len(k.frame) : k.frame[i] \in VPages
  <2>1. FramesInUse(k) = 1..Len(k.frame) BY FrameFacts DEF Counted, Full
  <2> QED BY <2>1, FrameFacts DEF FramesInUse
<1>3. \A i \in C : A(i) \in Nat \cup {-1}
  <2> TAKE i \in C
  <2>1. k.frame[i] \in VPages BY <1>1, <1>2
  <2>2. k.page[k.frame[i]] \in PageEntry BY <2>1, FrameFacts
  <2> QED BY <2>2 DEF Age, PageEntry, Time
<1> HIDE DEF C, A
<1>4. PICK i \in C : \A j \in C : A(i) <= A(j)
  <2> DEFINE T == {A(i) + 1 : i \in C}
  <2>0. \A j \in C : A(j) + 1 \in Nat BY <1>3
  <2>1. T # {} /\ T \in SUBSET Nat BY <1>1, <2>0
  <2>2. PICK t \in T : \A u \in T : t <= u
    <3> HIDE DEF T
    <3> QED BY <2>1, LeastNat
  <2>3. PICK i \in C : t = A(i) + 1 OBVIOUS
  <2>4. \A j \in C : A(i) + 1 <= A(j) + 1 BY <2>2, <2>3
  <2>5. \A j \in C : A(i) <= A(j) BY <1>3, <2>4
  <2> QED BY <2>5
<1>5. PICK o \in C : A(o) = A(i) /\ \A j \in C : A(j) = A(i) => o <= j
  <2> DEFINE T == {j \in C : A(j) = A(i)}
  <2>1. T # {} /\ T \in SUBSET Nat BY <1>1
  <2>2. PICK o \in T : \A j \in T : o <= j
    <3> HIDE DEF T
    <3> QED BY <2>1, LeastNat
  <2> QED BY <2>2
<1>6. \A j \in C : A(o) < A(j) \/ (A(o) = A(j) /\ o <= j)
  BY <1>3, <1>4, <1>5
<1>7. /\ Oldest(k) \in C
      /\ \A j \in C : A(Oldest(k)) < A(j) \/ (A(Oldest(k)) = A(j) /\ Oldest(k) <= j)
  BY <1>6 DEF Oldest, C, A
<1>8. \A j \in C : A(Oldest(k)) <= A(j) BY <1>3, <1>7
<1> QED BY <1>1, <1>2, <1>7, <1>8 DEF Evicted, A, C

\* replace(): a page leaves, and with it the mark that it is present.
LEMMA ReplacedKeeps ==
  ASSUME NEW k \in VirtMemories, Counted(k), Full(k), Candidates(k) # {},
         NEW S \in SUBSET VPages, FramedAll(k, S)
  PROVE  LET n == Replaced(k)
         IN  /\ n \in VirtMemories /\ Counted(n) /\ ~ Full(n) /\ FramedAll(n, S)
             /\ n.page[0].present = k.page[0].present
             /\ \A v \in VPages : n.page[v].refed = k.page[v].refed
<1> DEFINE n == Replaced(k)
           o == Oldest(k)
           e == Evicted(k)
           r == [k.page[e] EXCEPT !.present = FALSE]
<1>1. o \in 1..Len(k.frame) /\ e = k.frame[o] /\ e \in VPages \ {0}
  BY OldestIsThere
<1>2. n = [k EXCEPT !.page = [k.page EXCEPT ![e] = r],
                    !.frame = [k.frame EXCEPT ![o] = Empty], !.nmapped = k.nmapped - 1]
  BY DEF Replaced
<1> HIDE DEF n, o, e
<1>3. r \in PageEntry /\ ~ r.present /\ r.refed = k.page[e].refed
  <2>1. k.page[e] \in PageEntry BY <1>1, FrameFacts
  <2> QED BY <2>1 DEF PageEntry
<1> HIDE DEF r
<1>4. /\ [k.page EXCEPT ![e] = r] \in [VPages -> PageEntry]
      /\ [k.frame EXCEPT ![o] = Empty] \in Seq(VPages \cup {Empty})
      /\ Len([k.frame EXCEPT ![o] = Empty]) = Len(k.frame)
  BY <1>1, <1>3, FrameFacts
<1>5. k.nmapped - 1 \in Nat /\ k.nmapped = Len(k.frame)
  BY <1>1, FrameFacts DEF Full
<1>6. /\ n \in VirtMemories
      /\ n.page = [k.page EXCEPT ![e] = r] /\ n.frame = [k.frame EXCEPT ![o] = Empty]
      /\ n.nmapped = k.nmapped - 1
  BY <1>2, <1>4, <1>5 DEF VirtMemories
<1>7. k.frame[o] # Empty BY <1>1, FrameFacts
<1>8. Counted(n) BY <1>1, <1>6, <1>7, FrameEmptied
<1>9. ~ Full(n) BY <1>4, <1>5, <1>6 DEF Full
<1>10. FramedAll(n, S)
  <2> SUFFICES ASSUME NEW v \in S, n.page[v].present
               PROVE  n.page[v].refed /\ InFrame(n, v)
    BY DEF FramedAll
  <2>1. v # e /\ n.page[v] = k.page[v] BY <1>1, <1>3, <1>6, FrameFacts
  <2>2. k.page[v].refed /\ InFrame(k, v) BY <2>1 DEF FramedAll
  <2>3. PICK i \in 1..Len(k.frame) : k.frame[i] = v BY <2>2 DEF InFrame
  <2>4. i # o /\ n.frame[i] = v BY <1>1, <1>6, <2>1, <2>3, FrameFacts
  <2> QED BY <1>4, <1>6, <2>1, <2>2, <2>3, <2>4 DEF InFrame
<1>11. n.page[0].present = k.page[0].present BY <1>1, <1>6, FrameFacts
<1>12. \A v \in VPages : n.page[v].refed = k.page[v].refed BY <1>1, <1>3, <1>6, FrameFacts
<1> QED BY <1>6, <1>8, <1>9, <1>10, <1>11, <1>12 DEF n

\* alloc_frame() with an empty frame: the page that came in is in it.
LEMMA FramedKeeps ==
  ASSUME NEW k \in VirtMemories, Counted(k), ~ Full(k), NEW v \in VPages,
         FramedAll(k, VPages \ {v}), k.page[v].refed
  PROVE  LET n == Framed(k, v)
         IN  /\ n \in VirtMemories /\ Counted(n) /\ FramedAll(n, VPages)
             /\ n.page = k.page
<1> DEFINE n == Framed(k, v)
           o == EmptyFrame(k)
<1>1. o \in 1..Len(k.frame) /\ k.frame[o] = Empty BY EmptyFrameIsThere
<1>2. n = [k EXCEPT !.frame = [k.frame EXCEPT ![o] = v], !.nmapped = k.nmapped + 1]
  BY DEF Framed
<1> HIDE DEF n, o
<1>3. /\ [k.frame EXCEPT ![o] = v] \in Seq(VPages \cup {Empty})
      /\ Len([k.frame EXCEPT ![o] = v]) = Len(k.frame)
      /\ k.nmapped + 1 \in Nat
  BY <1>1, FrameFacts
<1>4. /\ n \in VirtMemories /\ n.page = k.page
      /\ n.frame = [k.frame EXCEPT ![o] = v] /\ n.nmapped = k.nmapped + 1
  BY <1>2, <1>3 DEF VirtMemories
<1>5. Counted(n) BY <1>1, <1>4, FrameFilled
<1>6. FramedAll(n, VPages)
  <2> SUFFICES ASSUME NEW w \in VPages, n.page[w].present
               PROVE  n.page[w].refed /\ InFrame(n, w)
    BY DEF FramedAll
  <2>1. CASE w = v
    <3>1. n.frame[o] = v BY <1>1, <1>4, FrameFacts
    <3> QED BY <1>1, <1>3, <1>4, <2>1, <3>1 DEF InFrame
  <2>2. CASE w # v
    <3>1. k.page[w].refed /\ InFrame(k, w) BY <1>4, <2>2 DEF FramedAll
    <3>2. PICK i \in 1..Len(k.frame) : k.frame[i] = w BY <3>1 DEF InFrame
    <3>3. i # o /\ n.frame[i] = w BY <1>1, <1>4, <3>2, FrameFacts
    <3> QED BY <1>3, <1>4, <3>1, <3>2, <3>3 DEF InFrame
  <2> QED BY <2>1, <2>2
<1> QED BY <1>4, <1>5, <1>6 DEF n

\* A page comes into memory and into a frame, in place of another if need be.
LEMMA PlacedKeeps ==
  ASSUME NEW k \in VirtMemories, Counted(k), NEW v \in VPages,
         Full(k) => Candidates(k) # {},
         FramedAll(k, VPages \ {v}), k.page[v].refed, k.page[0].present
  PROVE  LET n == Placed(k, v)
         IN  n \in VirtMemories /\ Counted(n) /\ FramedAll(n, VPages) /\ n.page[0].present
<1>1. CASE Full(k)
  <2> DEFINE r == Replaced(k)
  <2>1. /\ r \in VirtMemories /\ Counted(r) /\ ~ Full(r) /\ FramedAll(r, VPages \ {v})
        /\ r.page[0].present /\ r.page[v].refed
    BY <1>1, ReplacedKeeps
  <2>2. Placed(k, v) = Framed(r, v) BY <1>1 DEF Placed
  <2> HIDE DEF r
  <2> QED BY <2>1, <2>2, FramedKeeps
<1>2. CASE ~ Full(k)
  BY <1>2, FramedKeeps DEF Placed
<1> QED BY <1>1, <1>2

\* The entry of a page that comes in.
LEMMA MappedKeeps ==
  ASSUME NEW k \in VirtMemories, Counted(k), NEW v \in VPages,
         NEW pg \in Pages \cup {NoPage}, NEW time \in Nat, NEW present, present \in BOOLEAN,
         FramedAll(k, VPages)
  PROVE  LET n == Mapped(k, v, pg, time, present)
         IN  /\ n \in VirtMemories /\ Counted(n) /\ FramedAll(n, VPages \ {v})
             /\ n.page[v].refed /\ (n.page[v].present <=> present)
             /\ v # 0 => (n.page[0].present <=> k.page[0].present)
<1> DEFINE n == Mapped(k, v, pg, time, present)
           e == [refed |-> TRUE, present |-> present, addr |-> pg, tIn |-> time, tRef |-> time]
<1>1. n = [k EXCEPT !.page = [k.page EXCEPT ![v] = e]] BY DEF Mapped
<1>2. e \in PageEntry /\ e.refed /\ e.present = present BY DEF PageEntry, Time
<1> HIDE DEF n, e
<1>3. [k.page EXCEPT ![v] = e] \in [VPages -> PageEntry] BY <1>2, FrameFacts
<1>4. /\ n \in VirtMemories /\ n.page = [k.page EXCEPT ![v] = e]
      /\ n.frame = k.frame /\ n.nmapped = k.nmapped
  BY <1>1, <1>3 DEF VirtMemories
<1>5. n.page[v] = e /\ \A w \in VPages : w # v => n.page[w] = k.page[w]
  BY <1>4, FrameFacts
<1>6. Counted(n) BY <1>4 DEF Counted, FramesInUse
<1>7. FramedAll(n, VPages \ {v}) BY <1>4, <1>5 DEF FramedAll, InFrame
<1> QED BY <1>2, <1>4, <1>5, <1>6, <1>7 DEF n

\* A memory that was just made: no page is in it.
LEMMA FreshKeeps ==
  ASSUME NEW a \in ReplaceAlgs, NEW n \in Nat
  PROVE  LET k == Fresh(a, n)
         IN  k \in VirtMemories /\ Counted(k) /\ FramedAll(k, VPages)
<1> DEFINE k == Fresh(a, n)
           fr == [i \in 1..n |-> Empty]
           pt == [v \in VPages |-> Untouched]
<1>1. k = [algo |-> a, frame |-> fr, nmapped |-> 0, page |-> pt] BY DEF Fresh
<1>2. fr \in Seq(VPages \cup {Empty}) /\ Len(fr) = n /\ \A i \in 1..n : fr[i] = Empty
  OBVIOUS
<1>3. pt \in [VPages -> PageEntry] /\ \A v \in VPages : ~ pt[v].present
  <2>1. Untouched \in PageEntry /\ ~ Untouched.present
    BY DEF Untouched, PageEntry, Time, NoPage
  <2> QED BY <2>1
<1> HIDE DEF k, fr, pt
<1>4. k \in VirtMemories BY <1>1, <1>2, <1>3 DEF VirtMemories
<1>5. Counted(k)
  <2>1. FramesInUse(k) = {} BY <1>1, <1>2 DEF FramesInUse
  <2>2. Cardinality(FramesInUse(k)) = 0 BY <2>1, FS_EmptySet
  <2> QED BY <1>1, <2>2 DEF Counted
<1>6. FramedAll(k, VPages) BY <1>1, <1>3 DEF FramedAll
<1> QED BY <1>4, <1>5, <1>6 DEF k


-----------------------------------------------------------------------------
(* The parts of the invariant *)

\* what every operation on the memory of a process keeps
Kept(k) ==
  k \in VirtMemories /\ Counted(k) /\ FramedAll(k, VPages) /\ k.page[0].present

\* the types of the variables other than pm and vm
Typed ==
  /\ live \subseteq Procs
  /\ algo \in ReplaceAlgs /\ initAlgo \in ReplaceAlgs
  /\ clock \in Nat
  /\ dying \in live \cup {NoProc} /\ at \in 0..NVPages
  /\ site \in {"none", "replace", "swap_in", "access", "release"}

\* The invariant is that the parts are sound, each on its own.
LEMMA InvParts ==
  IInv <=> /\ Sound(pm) /\ Typed /\ vm \in [Procs -> VirtMemories]
           /\ \A p \in live : Kept(vm[p])
<1>1. ASSUME IInv
      PROVE  /\ Sound(pm) /\ Typed /\ vm \in [Procs -> VirtMemories]
             /\ \A p \in live : Kept(vm[p])
  <2>1. live \subseteq Procs /\ vm \in [Procs -> VirtMemories] BY <1>1 DEF IInv, TypeOK
  <2>2. \A p \in live : Kept(vm[p])
    BY <1>1, <2>1 DEF IInv, FramesAreCounted, PresentIsInFrame, CodeStays, Page, Kept
  <2> QED BY <1>1, <2>1, <2>2 DEF IInv, TypeOK, Typed, Sound, BitmapIsTable, SizeCoversUse
<1>2. ASSUME Sound(pm), Typed, vm \in [Procs -> VirtMemories],
             \A p \in live : Kept(vm[p])
      PROVE  IInv
  BY <1>2 DEF IInv, TypeOK, Typed, Sound, BitmapIsTable, SizeCoversUse,
              FramesAreCounted, PresentIsInFrame, CodeStays, Page, Kept
<1> QED BY <1>1, <1>2

\* The same of the next state.
LEMMA InvPartsNext ==
  ASSUME Sound(pm)', Typed', vm' \in [Procs -> VirtMemories],
         \A p \in live' : Kept(vm'[p])
  PROVE  IInv'
BY DEF IInv, TypeOK, Typed, Sound, BitmapIsTable, SizeCoversUse,
       FramesAreCounted, PresentIsInFrame, CodeStays, Page, Kept

\* A step that leaves the memories alone, and keeps the types.
LEMMA MemoriesStay ==
  ASSUME IInv, Sound(pm)', Typed', vm' = vm, live' = live
  PROVE  IInv'
<1>1. vm \in [Procs -> VirtMemories] /\ \A p \in live : Kept(vm[p]) BY InvParts
<1> QED BY <1>1, InvPartsNext

\* A step of one process, that may be a new one.
LEMMA MemoryChanges ==
  ASSUME IInv, Sound(pm)', NEW p \in Procs, NEW n, Kept(n),
         vm' = [vm EXCEPT ![p] = n], live' = live \/ live' = live \cup {p},
         UNCHANGED <<algo, initAlgo, dying, at, site>>, UNCHANGED clock
  PROVE  IInv'
<1>1. Typed /\ vm \in [Procs -> VirtMemories] /\ \A q \in live : Kept(vm[q]) BY InvParts
<1>2. Typed' BY <1>1 DEF Typed
<1>3. n \in VirtMemories BY DEF Kept
<1>4. vm' \in [Procs -> VirtMemories] BY <1>1, <1>3
<1>5. \A q \in live' : Kept(vm'[q])
  <2> TAKE q \in live'
  <2>1. CASE q = p BY <1>1, <2>1
  <2>2. CASE q # p BY <1>1, <2>2 DEF Typed
  <2> QED BY <2>1, <2>2
<1> QED BY <1>2, <1>4, <1>5, InvPartsNext

-----------------------------------------------------------------------------
(* The page that leaves goes to the swap space *)

\* The physical pages and the swap space after alloc_frame().
LEMMA PlacedMemorySound ==
  ASSUME NEW m, Sound(m), NEW k \in VirtMemories, Counted(k), CanPlace(m, k)
  PROVE  Sound(PlacedMemory(m, k))
<1>1. CASE Full(k)
  <2>1. Candidates(k) # {} BY <1>1 DEF CanPlace
  <2>2. Evicted(k) \in VPages BY <1>1, <2>1, OldestIsThere
  <2>3. k.page[Evicted(k)] \in PageEntry BY <2>2, FrameFacts
  <2>4. k.page[Evicted(k)].addr \in Pages \cup {NoPage} BY <2>3 DEF PageEntry
  <2>5. FreeBlocks(m) = {} \/ k.page[Evicted(k)].addr \in Pages
    BY <1>1, <2>4 DEF CanPlace
  <2> QED BY <1>1, <2>5, SwappedOutSound DEF PlacedMemory
<1>2. CASE ~ Full(k)
  BY <1>2 DEF PlacedMemory
<1> QED BY <1>1, <1>2

\* A page comes into a memory that has page 0, or is page 0 itself.
LEMMA BroughtKeeps ==
  ASSUME NEW m, Sound(m), NEW k \in VirtMemories, Counted(k), FramedAll(k, VPages),
         NEW v \in VPages, NEW pg \in Pages \cup {NoPage}, NEW time \in Nat,
         NEW present, present \in BOOLEAN, k.page[0].present \/ present,
         v = 0 => present, v # 0 => k.page[0].present,
         CanPlace(m, Mapped(k, v, pg, time, present))
  PROVE  /\ Kept(Placed(Mapped(k, v, pg, time, present), v))
         /\ Sound(PlacedMemory(m, Mapped(k, v, pg, time, present)))
<1> DEFINE n == Mapped(k, v, pg, time, present)
<1>1. /\ n \in VirtMemories /\ Counted(n) /\ FramedAll(n, VPages \ {v})
      /\ n.page[v].refed /\ (n.page[v].present <=> present)
      /\ v # 0 => (n.page[0].present <=> k.page[0].present)
  <2>1. n \in VirtMemories /\ Counted(n) /\ FramedAll(n, VPages \ {v}) BY MappedKeeps
  <2>2. n.page[v].refed /\ (n.page[v].present <=> present) BY MappedKeeps
  <2>3. v # 0 => (n.page[0].present <=> k.page[0].present) BY MappedKeeps
  <2> QED BY <2>1, <2>2, <2>3
<1>2. CanPlace(m, n) OBVIOUS
<1> HIDE DEF n
<1>3. n.page[0].present
  <2>1. CASE v = 0 BY <1>1, <2>1
  <2>2. CASE v # 0 BY <1>1, <2>2, FrameFacts
  <2> QED BY <2>1, <2>2
<1>4. Kept(Placed(n, v))
  <2>1. Full(n) => Candidates(n) # {} BY <1>2 DEF CanPlace
  <2> QED BY <1>1, <1>3, <2>1, PlacedKeeps DEF Kept
<1>5. Sound(PlacedMemory(m, n)) BY <1>1, <1>2, PlacedMemorySound
<1> QED BY <1>4, <1>5 DEF n

-----------------------------------------------------------------------------
(* The steps *)

\* The invariant holds when the system starts.
LEMMA InitInv == ASSUME Init PROVE IInv
<1>1. Sound(pm) BY NewSound DEF Init
<1>2. Typed
  <2>1. algo \in ReplaceAlgs BY PagingAssumption DEF Init
  <2>2. at \in 0..NVPages BY VirtAssumption DEF Init
  <2> QED BY <2>1, <2>2 DEF Init, Typed
<1>3. vm \in [Procs -> VirtMemories]
  <2>1. NoMemory \in VirtMemories BY FreshKeeps DEF NoMemory, ReplaceAlgs
  <2> QED BY <2>1 DEF Init
<1>4. live = {} BY DEF Init
<1> QED BY <1>1, <1>2, <1>3, <1>4, InvParts

\* A step whose effect is left undefined is only named.
LEMMA UndefinedKeeps ==
  ASSUME IInv, NEW where \in {"replace", "swap_in", "access", "release"}, Undefined(where)
  PROVE  IInv'
<1>1. Sound(pm) /\ Typed BY InvParts
<1>2. pm' = pm /\ vm' = vm /\ live' = live BY DEF Undefined
<1>3. Typed' BY <1>1 DEF Typed, Undefined
<1>4. Sound(pm)' BY <1>1, <1>2
<1> QED BY <1>2, <1>3, <1>4, MemoriesStay

\* write_page() and access_page() of a page that is present.
LEMMA HitKeeps ==
  ASSUME IInv, NEW p \in Procs, NEW v \in VPages, NEW write \in BOOLEAN, Hit(p, v, write)
  PROVE  IInv'
<1> DEFINE k == vm[p]
           r == [k.page[v] EXCEPT !.tRef = clock]
           n == [k EXCEPT !.page = [k.page EXCEPT ![v] = r]]
<1>1. Sound(pm) /\ Typed /\ vm \in [Procs -> VirtMemories] /\ Kept(k)
  BY InvParts DEF Hit
<1>2. k \in VirtMemories /\ Counted(k) /\ FramedAll(k, VPages) /\ k.page[0].present
  BY <1>1 DEF Kept
<1>3. vm' = [vm EXCEPT ![p] = n] BY <1>1 DEF Hit
<1> HIDE DEF k
<1>4. r \in PageEntry /\ r.present = k.page[v].present /\ r.refed = k.page[v].refed
  <2>1. k.page[v] \in PageEntry BY <1>2, FrameFacts
  <2>2. clock \in Time BY <1>1 DEF Typed, Time
  <2> QED BY <2>1, <2>2 DEF PageEntry
<1> HIDE DEF r
<1>5. [k.page EXCEPT ![v] = r] \in [VPages -> PageEntry] BY <1>2, <1>4, FrameFacts
<1>6. /\ n \in VirtMemories /\ n.page = [k.page EXCEPT ![v] = r]
      /\ n.frame = k.frame /\ n.nmapped = k.nmapped
  BY <1>2, <1>5 DEF VirtMemories
<1> HIDE DEF n
<1>7. Counted(n) BY <1>2, <1>6 DEF Counted, FramesInUse
<1>8. \A w \in VPages : /\ n.page[w].present = k.page[w].present
                        /\ n.page[w].refed = k.page[w].refed
  BY <1>2, <1>4, <1>6, FrameFacts
<1>9. FramedAll(n, VPages) BY <1>2, <1>6, <1>8 DEF FramedAll, InFrame
<1>10. n.page[0].present BY <1>2, <1>8, FrameFacts
<1>11. Kept(n) BY <1>6, <1>7, <1>9, <1>10 DEF Kept
<1>12. Sound(pm)' BY <1>1 DEF Hit
<1> QED BY <1>3, <1>11, <1>12, MemoryChanges DEF Hit

\* PAGE_FAULT, of a process that runs or is being loaded.
LEMMA FaultInKeeps ==
  ASSUME IInv, NEW p \in Procs, NEW k \in VirtMemories, Counted(k), FramedAll(k, VPages),
         NEW v \in VPages, v # 0 => k.page[0].present,
         CanFaultIn(k, v), FaultIn(p, k, v), live' = live \/ live' = live \cup {p}
  PROVE  IInv'
<1>1. Sound(pm) /\ Typed BY InvParts
<1>2. Sound(Allocated(pm)) /\ NextPage(pm) \in Pages \cup {NoPage} BY <1>1, AllocatedSound
<1>3. clock \in Nat BY <1>1 DEF Typed
<1>4. Kept(Placed(Faulted(k, v), v)) /\ Sound(PlacedMemory(Allocated(pm), Faulted(k, v)))
  BY <1>2, <1>3, BroughtKeeps DEF CanFaultIn, Faulted
<1>5. Sound(pm)' BY <1>4 DEF FaultIn
<1> QED BY <1>4, <1>5, MemoryChanges DEF FaultIn

\* The first write of a process that runs: page 0 is there already.
LEMMA FaultKeeps ==
  ASSUME IInv, NEW p \in Procs, NEW v \in VPages, Fault(p, v)
  PROVE  IInv'
<1>1. p \in live /\ Kept(vm[p]) /\ ~ vm[p].page[v].refed BY InvParts DEF Fault, Page
<1>2. vm[p].page[0].present /\ vm[p] \in VirtMemories /\ Counted(vm[p]) /\ FramedAll(vm[p], VPages)
  BY <1>1 DEF Kept
<1>3. CanFaultIn(vm[p], v) /\ FaultIn(p, vm[p], v) /\ live' = live BY DEF Fault
<1> QED BY <1>2, <1>3, FaultInKeeps

\* fork(1) and load_prog(): page 0 is written first.
LEMMA LoadKeeps ==
  ASSUME IInv, NEW p \in Procs, NEW n \in Blocks, Load(p, n)
  PROVE  IInv'
<1> DEFINE k == Fresh(initAlgo, n)
<1>1. initAlgo \in ReplaceAlgs /\ n \in Nat /\ 0 \in VPages
  <2>1. 0 \in VPages BY VirtAssumption DEF VPages
  <2> QED BY <2>1, InvParts, PagingAssumption DEF Typed
<1>2. k \in VirtMemories /\ Counted(k) /\ FramedAll(k, VPages) BY <1>1, FreshKeeps
<1>3. CanFaultIn(k, 0) /\ FaultIn(p, k, 0) /\ live' = live \cup {p} BY DEF Load
<1> HIDE DEF k
<1> QED BY <1>1, <1>2, <1>3, FaultInKeeps

\* swap_in() of a page that is not present, which is not page 0.
LEMMA SwapInKeeps ==
  ASSUME IInv, NEW p \in Procs, NEW v \in VPages, NEW write \in BOOLEAN, SwapIn(p, v, write)
  PROVE  IInv'
<1> DEFINE k  == vm[p]
           pg == Page(p, v).addr
<1>1. Sound(pm) /\ Typed /\ Kept(k) /\ ~ k.page[v].present BY InvParts DEF SwapIn, Page
<1>2. k \in VirtMemories /\ Counted(k) /\ FramedAll(k, VPages) /\ k.page[0].present /\ v # 0
  BY <1>1 DEF Kept
<1>3. Swapped(pm, pg) => pm.free # <<>> BY DEF SwapIn, CanSwapIn, CanReturn
<1>4. Sound(SwappedIn(pm, pg)) /\ SwapInPage(pm, pg) \in Pages BY <1>1, <1>3, SwappedInSound
<1>5. clock \in Nat BY <1>1 DEF Typed
<1>6. /\ Kept(Placed(Returned(p, v, write), v))
      /\ Sound(PlacedMemory(SwappedIn(pm, pg), Returned(p, v, write)))
  <2>1. /\ Returned(p, v, write) = Mapped(k, v, SwapInPage(pm, pg), clock, write)
        /\ CanPlace(SwappedIn(pm, pg), Returned(p, v, write))
    BY DEF Returned, SwapIn, CanSwapIn
  <2> HIDE DEF k, pg
  <2> QED BY <1>2, <1>4, <1>5, <2>1, BroughtKeeps
<1>7. /\ vm' = [vm EXCEPT ![p] = Placed(Returned(p, v, write), v)]
      /\ pm' = PlacedMemory(SwappedIn(pm, pg), Returned(p, v, write))
      /\ UNCHANGED <<live, algo, initAlgo, clock, dying, at, site>>
  BY DEF SwapIn
<1> HIDE DEF k, pg
<1>8. Sound(pm)' BY <1>6, <1>7
<1> QED BY <1>6, <1>7, <1>8, MemoryChanges

\* A round of the destructor: the page goes back to the free list or its block to
\* the bitmap.
LEMMA ReleaseKeeps == ASSUME IInv, Release PROVE IInv'
<1>1. Sound(pm) /\ Typed /\ vm \in [Procs -> VirtMemories] BY InvParts
<1>2. dying \in Procs /\ at \in VPages
  BY <1>1, PagingAssumption, VirtAssumption DEF Typed, Release, Releasing, VPages
<1>3. AtPage \in PageEntry
  <2>1. vm[dying] \in VirtMemories BY <1>1, <1>2
  <2>2. vm[dying].page[at] \in PageEntry BY <1>2, <2>1, FrameFacts
  <2> QED BY <2>2 DEF AtPage, Page
<1>4. AtPage.addr \in Pages \cup {NoPage} BY <1>3 DEF PageEntry
<1>5. Sound(GivenBack)
  <2>1. CanGiveBack BY DEF Release
  <2>2. CASE ~ AtPage.refed BY <1>1, <2>2 DEF GivenBack
  <2>3. CASE AtPage.refed /\ AtPage.present
    <3>1. AtPage.addr \in Pages BY <1>4, <2>1, <2>3 DEF CanGiveBack
    <3> QED BY <1>1, <2>3, <3>1, FreedSound DEF GivenBack
  <2>4. CASE AtPage.refed /\ ~ AtPage.present
    <3>1. Swapped(pm, AtPage.addr) BY <2>1, <2>4 DEF CanGiveBack
    <3> QED BY <1>1, <2>4, <3>1, ReleasedSound DEF GivenBack
  <2> QED BY <2>2, <2>3, <2>4
<1>6. Sound(pm)' BY <1>5 DEF Release
<1>7. Typed' BY <1>1, VirtAssumption DEF Typed, Release, Releasing
<1> QED BY <1>6, <1>7, MemoriesStay DEF Release

\* The memory is gone.
LEMMA GoneKeeps == ASSUME IInv, Gone PROVE IInv'
<1>1. Sound(pm) /\ Typed /\ vm \in [Procs -> VirtMemories] /\ \A p \in live : Kept(vm[p])
  BY InvParts
<1>2. NoMemory \in VirtMemories BY FreshKeeps DEF NoMemory, ReplaceAlgs
<1>3. Sound(pm)' BY <1>1 DEF Gone
<1>4. Typed' BY <1>1, VirtAssumption DEF Typed, Gone
<1>5. vm' \in [Procs -> VirtMemories]
  <2>1. vm' = [vm EXCEPT ![dying] = NoMemory] BY DEF Gone
  <2> HIDE DEF NoMemory
  <2> QED BY <1>1, <1>2, <2>1
<1>6. \A p \in live' : Kept(vm'[p])
  <2> TAKE p \in live'
  <2>1. p \in live /\ p # dying /\ p \in Procs BY <1>1 DEF Gone, Typed
  <2>2. vm'[p] = vm[p] BY <1>1, <2>1 DEF Gone
  <2> QED BY <1>1, <2>1, <2>2
<1> QED BY <1>3, <1>4, <1>5, <1>6, InvPartsNext

\* chalg() tells the memories of the processes.
LEMMA ChalgKeeps == ASSUME IInv, NEW a \in Switches, Chalg(a) PROVE IInv'
<1>1. Sound(pm) /\ Typed /\ vm \in [Procs -> VirtMemories] /\ \A p \in live : Kept(vm[p])
  BY InvParts
<1>2. a \in ReplaceAlgs BY PagingAssumption
<1>3. ASSUME NEW k \in VirtMemories
      PROVE  LET n == [k EXCEPT !.algo = a]
             IN  n \in VirtMemories /\ (Kept(k) => Kept(n))
  <2> DEFINE n == [k EXCEPT !.algo = a]
  <2>1. n \in VirtMemories /\ n.frame = k.frame /\ n.nmapped = k.nmapped /\ n.page = k.page
    BY <1>2 DEF VirtMemories
  <2> HIDE DEF n
  <2>2. Kept(k) => Kept(n) BY <2>1 DEF Kept, Counted, FramesInUse, FramedAll, InFrame
  <2> QED BY <2>1, <2>2 DEF n
<1>4. Sound(pm)' BY <1>1 DEF Chalg
<1>5. Typed' BY <1>1, <1>2 DEF Typed, Chalg
<1>6. vm' = [p \in Procs |-> IF p \in live THEN [vm[p] EXCEPT !.algo = a] ELSE vm[p]]
      /\ live' = live
  BY DEF Chalg
<1>7. vm' \in [Procs -> VirtMemories] BY <1>1, <1>3, <1>6
<1>8. \A p \in live' : Kept(vm'[p])
  <2> TAKE p \in live'
  <2>1. p \in live /\ p \in Procs BY <1>1, <1>6 DEF Typed
  <2>2. vm'[p] = [vm[p] EXCEPT !.algo = a] BY <1>6, <2>1
  <2> QED BY <1>1, <1>3, <2>1, <2>2
<1> QED BY <1>4, <1>5, <1>7, <1>8, InvPartsNext

\* The steps that leave the memories of the processes alone.
LEMMA OtherStepsKeep ==
  ASSUME IInv, \/ \E p \in Procs : Kill(p)
               \/ \E path \in SwapPaths, created \in BOOLEAN : Mkswap(path, created)
               \/ Tick \/ UNCHANGED vars
  PROVE  IInv'
<1>1. Sound(pm) /\ Typed BY InvParts
<1>2. CASE \E p \in Procs : Kill(p)
  <2>1. Sound(pm)' BY <1>1, <1>2 DEF Kill
  <2>2. Typed' BY <1>1, <1>2, VirtAssumption DEF Kill, Typed
  <2> QED BY <1>2, <2>1, <2>2, MemoriesStay DEF Kill
<1>3. CASE \E path \in SwapPaths, created \in BOOLEAN : Mkswap(path, created)
  <2>1. Sound(pm)' BY <1>1, <1>3, ExtendedSound DEF Mkswap
  <2>2. Typed' BY <1>1, <1>3 DEF Mkswap, Typed
  <2> QED BY <1>3, <2>1, <2>2, MemoriesStay DEF Mkswap
<1>4. CASE Tick
  <2>1. Sound(pm)' BY <1>1, <1>4 DEF Tick
  <2>2. Typed' BY <1>1, <1>4 DEF Tick, Typed
  <2> QED BY <1>4, <2>1, <2>2, MemoriesStay DEF Tick
<1>5. CASE UNCHANGED vars
  <2>1. Sound(pm)' BY <1>1, <1>5 DEF vars
  <2>2. Typed' BY <1>1, <1>5 DEF vars, Typed
  <2> QED BY <1>5, <2>1, <2>2, MemoriesStay DEF vars
<1> QED BY <1>2, <1>3, <1>4, <1>5

\* Every step keeps the invariant.
LEMMA NextInv == ASSUME IInv, [Next]_vars PROVE IInv'
<1>1. ASSUME NEW p \in Procs, NEW v \in VPages,
             Write(p, v) \/ Read(p, v) \/ AccessUndefined(p, v)
      PROVE  IInv'
  <2>1. CASE Write(p, v) BY <2>1, HitKeeps, FaultKeeps, SwapInKeeps DEF Write
  <2>2. CASE Read(p, v) BY <2>2, HitKeeps, SwapInKeeps DEF Read
  <2>3. CASE AccessUndefined(p, v)
    BY <2>3, UndefinedKeeps
       DEF AccessUndefined, FaultUndefined, SwapInUndefined, HitUndefined
  <2> QED BY <1>1, <2>1, <2>2, <2>3
<1>2. ASSUME NEW p \in Procs, NEW n \in Blocks, Load(p, n) \/ LoadUndefined(p, n)
      PROVE  IInv'
  BY <1>2, LoadKeeps, UndefinedKeeps DEF LoadUndefined
<1>3. CASE Release \/ ReleaseUndefined \/ Gone
  BY <1>3, ReleaseKeeps, GoneKeeps, UndefinedKeeps DEF ReleaseUndefined
<1>4. CASE \E a \in Switches : Chalg(a)
  BY <1>4, ChalgKeeps
<1> QED BY <1>1, <1>2, <1>3, <1>4, OtherStepsKeep DEF Next

-----------------------------------------------------------------------------
(* Which page leaves *)

\* page w of k is judged by when it came in, or by when it was used last
AgeOf(k, w) == IF k.algo = "FIFO" THEN k.page[w].tIn ELSE k.page[w].tRef

\* a page that is there in k and not in n is no younger than one that is in both
Fair(k, n) ==
  \A u, w \in VPages :
    /\ k.page[u].present /\ ~ n.page[u].present
    /\ w # 0 /\ k.page[w].present /\ n.page[w].present
    => AgeOf(k, u) <= AgeOf(k, w)

\* Where no page leaves, nothing is asked.
LEMMA NoneLeaves ==
  ASSUME NEW k, NEW n, \A u \in VPages : n.page[u].present = k.page[u].present
  PROVE  Fair(k, n)
BY DEF Fair

\* alloc_frame() evicts the oldest of the pages that are in a frame.
LEMMA PlacedFair ==
  ASSUME NEW k \in VirtMemories, Counted(k), NEW v \in VPages, FramedAll(k, VPages \ {v}),
         Full(k) => Candidates(k) # {},
         NEW u \in VPages, k.page[u].present, ~ Placed(k, v).page[u].present,
         NEW w \in VPages \ {0, v}, k.page[w].present
  PROVE  AgeOf(k, u) <= AgeOf(k, w)
<1> DEFINE o == Oldest(k)
           e == Evicted(k)
           r == Replaced(k)
           t == [k.page[e] EXCEPT !.present = FALSE]
<1>1. Full(k)
  <2> SUFFICES ASSUME ~ Full(k) PROVE FALSE OBVIOUS
  <2>1. Placed(k, v) = Framed(k, v) BY DEF Placed
  <2>2. Framed(k, v) = [k EXCEPT !.frame = [k.frame EXCEPT ![EmptyFrame(k)] = v],
                                 !.nmapped = k.nmapped + 1]
    BY DEF Framed
  <2>3. Framed(k, v).page = k.page BY <2>2 DEF VirtMemories
  <2> QED BY <2>1, <2>3
<1>2. /\ o \in 1..Len(k.frame) /\ e = k.frame[o] /\ e \in VPages
      /\ \A j \in Candidates(k) : Age(k, o) <= Age(k, j)
  BY <1>1, OldestIsThere
<1>3. r = [k EXCEPT !.page = [k.page EXCEPT ![e] = t],
                    !.frame = [k.frame EXCEPT ![o] = Empty], !.nmapped = k.nmapped - 1]
  BY DEF Replaced
<1>4. Placed(k, v) = [r EXCEPT !.frame = [r.frame EXCEPT ![EmptyFrame(r)] = v],
                               !.nmapped = r.nmapped + 1]
  BY <1>1 DEF Placed, Framed
<1> HIDE DEF o, e, t
<1>5. Placed(k, v).page = [k.page EXCEPT ![e] = t] BY <1>3, <1>4 DEF VirtMemories
<1>6. u = e
  <2> SUFFICES ASSUME u # e PROVE FALSE OBVIOUS
  <2>1. Placed(k, v).page[u] = k.page[u] BY <1>5, FrameFacts
  <2> QED BY <2>1
<1>7. PICK j \in 1..Len(k.frame) : k.frame[j] = w BY DEF FramedAll, InFrame
<1>8. j \in Candidates(k) BY <1>7 DEF Candidates
<1>9. Age(k, o) <= Age(k, j) BY <1>2, <1>8
<1>10. Age(k, o) = AgeOf(k, u) /\ Age(k, j) = AgeOf(k, w) BY <1>2, <1>6, <1>7 DEF Age, AgeOf
<1> QED BY <1>9, <1>10

\* A page that was not present comes in, and the oldest of the others leaves.
LEMMA BroughtFair ==
  ASSUME NEW k \in VirtMemories, Counted(k), FramedAll(k, VPages),
         NEW v \in VPages, ~ k.page[v].present, NEW pg \in Pages \cup {NoPage},
         NEW time \in Nat, NEW present, present \in BOOLEAN,
         NEW m, CanPlace(m, Mapped(k, v, pg, time, present))
  PROVE  Fair(k, Placed(Mapped(k, v, pg, time, present), v))
<1> DEFINE b == Mapped(k, v, pg, time, present)
           x == [refed |-> TRUE, present |-> present, addr |-> pg, tIn |-> time, tRef |-> time]
<1>1. b \in VirtMemories /\ Counted(b) /\ FramedAll(b, VPages \ {v}) BY MappedKeeps
<1>2. b = [k EXCEPT !.page = [k.page EXCEPT ![v] = x]] BY DEF Mapped
<1>3. Full(b) => Candidates(b) # {} BY DEF CanPlace
<1> HIDE DEF b, x
<1>4. b.algo = k.algo /\ b.page = [k.page EXCEPT ![v] = x] BY <1>2 DEF VirtMemories
<1>5. \A u \in VPages : u # v => b.page[u] = k.page[u] BY <1>4, FrameFacts
<1> SUFFICES ASSUME NEW u \in VPages, NEW w \in VPages, k.page[u].present,
                    ~ Placed(b, v).page[u].present, w # 0, k.page[w].present
             PROVE  AgeOf(k, u) <= AgeOf(k, w)
  BY DEF Fair, b
<1>6. u # v /\ w # v OBVIOUS
<1>7. b.page[u] = k.page[u] /\ b.page[w] = k.page[w] BY <1>5, <1>6
<1>8. AgeOf(b, u) <= AgeOf(b, w)
  <2>1. b.page[u].present /\ b.page[w].present BY <1>7
  <2>2. w \in VPages \ {0, v} BY <1>6
  <2> QED BY <1>1, <1>3, <2>1, <2>2, PlacedFair
<1> QED BY <1>4, <1>7, <1>8 DEF AgeOf

\* A step that changes one memory, and is fair there, is fair to all.
LEMMA OneIsFair ==
  ASSUME vm \in [Procs -> VirtMemories], NEW p \in Procs, NEW n,
         vm' = [vm EXCEPT ![p] = n], p \in live => Fair(vm[p], n)
  PROVE  \A q \in live : q \in Procs => Fair(vm[q], vm'[q])
<1> SUFFICES ASSUME NEW q \in live, q \in Procs PROVE Fair(vm[q], vm'[q]) OBVIOUS
<1>1. CASE q = p BY <1>1
<1>2. CASE q # p
  <2>1. vm'[q] = vm[q] BY <1>2
  <2> QED BY <2>1, NoneLeaves
<1> QED BY <1>1, <1>2

\* PAGE_FAULT is fair.
LEMMA FaultFair ==
  ASSUME IInv, NEW p \in Procs, NEW v \in VPages, Fault(p, v)
  PROVE  \A q \in live : q \in Procs => Fair(vm[q], vm'[q])
<1> DEFINE k == vm[p]
<1>1. /\ Sound(pm) /\ Typed /\ vm \in [Procs -> VirtMemories] /\ Kept(k)
      /\ ~ k.page[v].refed
  BY InvParts DEF Fault, Page
<1>2. k \in VirtMemories /\ Counted(k) /\ FramedAll(k, VPages) /\ ~ k.page[v].present
  BY <1>1 DEF Kept, FramedAll
<1>3. NextPage(pm) \in Pages \cup {NoPage} /\ clock \in Nat BY <1>1, AllocatedSound DEF Typed
<1>4. /\ CanPlace(Allocated(pm), Mapped(k, v, NextPage(pm), clock, TRUE))
      /\ vm' = [vm EXCEPT ![p] = Placed(Mapped(k, v, NextPage(pm), clock, TRUE), v)]
  BY DEF Fault, FaultIn, CanFaultIn, Faulted
<1> HIDE DEF k
<1>5. Fair(k, Placed(Mapped(k, v, NextPage(pm), clock, TRUE), v))
  BY <1>2, <1>3, <1>4, BroughtFair
<1> QED BY <1>1, <1>4, <1>5, OneIsFair DEF k

\* swap_in() is fair.
LEMMA SwapInFair ==
  ASSUME IInv, NEW p \in Procs, NEW v \in VPages, NEW write \in BOOLEAN, SwapIn(p, v, write)
  PROVE  \A q \in live : q \in Procs => Fair(vm[q], vm'[q])
<1> DEFINE k  == vm[p]
           pg == Page(p, v).addr
           to == SwapInPage(pm, pg)
<1>1. /\ Sound(pm) /\ Typed /\ vm \in [Procs -> VirtMemories] /\ Kept(k)
      /\ ~ k.page[v].present
  BY InvParts DEF SwapIn, Page
<1>2. k \in VirtMemories /\ Counted(k) /\ FramedAll(k, VPages) BY <1>1 DEF Kept
<1>3. to \in Pages /\ clock \in Nat
  <2>1. Swapped(pm, pg) => pm.free # <<>> BY DEF SwapIn, CanSwapIn, CanReturn
  <2> QED BY <1>1, <2>1, SwappedInSound DEF Typed
<1>4. /\ CanPlace(SwappedIn(pm, pg), Mapped(k, v, to, clock, write))
      /\ vm' = [vm EXCEPT ![p] = Placed(Mapped(k, v, to, clock, write), v)]
  BY DEF SwapIn, CanSwapIn, Returned
<1> HIDE DEF k, to, pg
<1>5. Fair(k, Placed(Mapped(k, v, to, clock, write), v)) BY <1>1, <1>2, <1>3, <1>4, BroughtFair
<1> QED BY <1>1, <1>4, <1>5, OneIsFair DEF k

\* In the other steps no page leaves.
LEMMA OthersFair ==
  ASSUME IInv,
         \/ \E p \in Procs, v \in VPages, write \in BOOLEAN : Hit(p, v, write)
         \/ \E p \in Procs, n \in Blocks : Load(p, n)
         \/ Gone \/ \E a \in Switches : Chalg(a)
  PROVE  \A q \in live : q \in Procs /\ q \in live' => Fair(vm[q], vm'[q])
<1>1. /\ vm \in [Procs -> VirtMemories] /\ live \subseteq Procs
      /\ \A p \in live : vm[p] \in VirtMemories
  BY InvParts DEF Typed
<1>2. ASSUME NEW p \in Procs, NEW v \in VPages, NEW write \in BOOLEAN, Hit(p, v, write)
      PROVE  \A q \in live : q \in Procs => Fair(vm[q], vm'[q])
  <2> DEFINE k == vm[p]
             r == [k.page[v] EXCEPT !.tRef = clock]
             n == [k EXCEPT !.page = [k.page EXCEPT ![v] = r]]
  <2>1. k \in VirtMemories BY <1>1
  <2>2. vm' = [vm EXCEPT ![p] = n] BY <1>1, <1>2 DEF Hit
  <2> HIDE DEF k
  <2>3. r.present = k.page[v].present
    <3>1. k.page[v] \in PageEntry BY <2>1, FrameFacts
    <3> QED BY <3>1 DEF PageEntry
  <2> HIDE DEF r
  <2>4. n.page = [k.page EXCEPT ![v] = r] BY <2>1 DEF VirtMemories
  <2> HIDE DEF n
  <2>5. \A u \in VPages : n.page[u].present = k.page[u].present
    BY <2>1, <2>3, <2>4, FrameFacts
  <2>6. Fair(k, n) BY <2>5, NoneLeaves
  <2> QED BY <1>1, <2>2, <2>6, OneIsFair DEF k
<1>3. ASSUME NEW p \in Procs, NEW n \in Blocks, Load(p, n)
      PROVE  \A q \in live : q \in Procs => Fair(vm[q], vm'[q])
  BY <1>1, <1>3, OneIsFair DEF Load, FaultIn
<1>4. ASSUME Gone
      PROVE  \A q \in live : q \in live' => Fair(vm[q], vm'[q])
  <2> SUFFICES ASSUME NEW q \in live, q \in live' PROVE Fair(vm[q], vm'[q]) OBVIOUS
  <2>1. q # dying /\ vm' = [vm EXCEPT ![dying] = NoMemory] BY <1>4 DEF Gone
  <2>2. vm'[q] = vm[q] BY <1>1, <2>1
  <2> QED BY <2>2, NoneLeaves
<1>5. ASSUME NEW a \in Switches, Chalg(a)
      PROVE  \A q \in live : q \in live' => Fair(vm[q], vm'[q])
  <2> SUFFICES ASSUME NEW q \in live PROVE Fair(vm[q], vm'[q]) OBVIOUS
  <2>1. vm'[q] = [vm[q] EXCEPT !.algo = a] BY <1>1, <1>5 DEF Chalg
  <2>2. vm'[q].page = vm[q].page BY <1>1, <2>1 DEF VirtMemories
  <2> QED BY <2>2, NoneLeaves
<1> QED BY <1>2, <1>3, <1>4, <1>5

\* Every step is fair to the pages of every memory that is still there after it.
LEMMA NextFair ==
  ASSUME IInv, [Next]_vars
  PROVE  \A q \in live : q \in live' => Fair(vm[q], vm'[q])
<1>1. live \subseteq Procs BY InvParts DEF Typed
<1>2. ASSUME vm' = vm PROVE \A q \in live : q \in live' => Fair(vm[q], vm'[q])
  BY <1>2, NoneLeaves
<1>3. ASSUME NEW p \in Procs, NEW v \in VPages,
             Write(p, v) \/ Read(p, v) \/ AccessUndefined(p, v)
      PROVE  \A q \in live : q \in live' => Fair(vm[q], vm'[q])
  <2>1. CASE AccessUndefined(p, v)
    BY <1>2, <2>1 DEF AccessUndefined, FaultUndefined, SwapInUndefined, HitUndefined, Undefined
  <2>2. CASE \E write \in BOOLEAN : Hit(p, v, write) BY <1>1, <2>2, OthersFair
  <2>3. CASE \E write \in BOOLEAN : SwapIn(p, v, write) BY <1>1, <2>3, SwapInFair
  <2>4. CASE Fault(p, v) BY <1>1, <2>4, FaultFair
  <2> QED BY <1>3, <2>1, <2>2, <2>3, <2>4 DEF Write, Read
<1>4. CASE \E p \in Procs, n \in Blocks : Load(p, n) BY <1>1, <1>4, OthersFair
<1>5. CASE \E p \in Procs, n \in Blocks : LoadUndefined(p, n)
  BY <1>2, <1>5 DEF LoadUndefined, Undefined
<1>6. CASE \E p \in Procs : Kill(p) BY <1>2, <1>6 DEF Kill
<1>7. CASE Release \/ ReleaseUndefined
  BY <1>2, <1>7 DEF Release, ReleaseUndefined, Undefined
<1>8. CASE Gone \/ \E a \in Switches : Chalg(a) BY <1>1, <1>8, OthersFair
<1>9. CASE (\E path \in SwapPaths, created \in BOOLEAN : Mkswap(path, created)) \/ Tick BY <1>2, <1>9 DEF Mkswap, Tick
<1>10. CASE UNCHANGED vars BY <1>2, <1>10 DEF vars
<1> QED BY <1>3, <1>4, <1>5, <1>6, <1>7, <1>8, <1>9, <1>10 DEF Next

-----------------------------------------------------------------------------
(* The theorems *)

(***************************************************************************)
(* However the accesses, the loads, the deletions, the switches of the     *)
(* algorithm and the new swap files follow one another, the page tables,   *)
(* the frames, the swap table, the bitmap and the sizes on disk stay sound.*)
(***************************************************************************)
THEOREM PagingInvariance == Spec => []IInv
BY InitInv, NextInv, PTL DEF Spec

\* pg_swap_out() and pg_swap_in() keep the bitmap and the swap table in step: no
\* block is overwritten that has a page.
THEOREM BitmapInvariance == Spec => []BitmapIsTable
<1>1. IInv => BitmapIsTable BY DEF IInv
<1> QED BY <1>1, PagingInvariance, PTL

\* The size of a swap file on disk covers the blocks in use, so read_swapspace()
\* never counts it below 0.
THEOREM SizeInvariance == Spec => []SizeCoversUse
<1>1. IInv => SizeCoversUse BY DEF IInv
<1> QED BY <1>1, PagingInvariance, PTL

\* A page that is marked as present is in a frame of its process: alloc_frame() and
\* replace() change the two together.
THEOREM FrameInvariance == Spec => []PresentIsInFrame
<1>1. IInv => PresentIsInFrame BY DEF IInv
<1> QED BY <1>1, PagingInvariance, PTL

\* replace() evicts the page that came in first, or was used last the longest ago,
\* by the algorithm the memory has now, and never a younger one: for every step of
\* any process, however often chalg has switched the algorithm.
THEOREM OldestIsReplaced == Spec => ReplacesOldest
<1> DEFINE Step ==
      \A p \in Procs : \A v, w \in VPages :
        Leaves(p, v) /\ Stays(p, w) =>
          IF vm[p].algo = "FIFO" THEN Page(p, v).tIn <= Page(p, w).tIn
                                 ELSE Page(p, v).tRef <= Page(p, w).tRef
<1>1. IInv /\ [Next]_vars => Step
  <2> SUFFICES ASSUME IInv, [Next]_vars, NEW p \in Procs, NEW v \in VPages, NEW w \in VPages,
                      Leaves(p, v), Stays(p, w)
               PROVE  IF vm[p].algo = "FIFO" THEN Page(p, v).tIn <= Page(p, w).tIn
                                             ELSE Page(p, v).tRef <= Page(p, w).tRef
    OBVIOUS
  <2>1. Fair(vm[p], vm'[p]) BY NextFair DEF Leaves
  <2>2. AgeOf(vm[p], v) <= AgeOf(vm[p], w) BY <2>1 DEF Fair, Leaves, Stays, Page
  <2> QED BY <2>2 DEF AgeOf, Page
<1>2. IInv /\ [Next]_vars => [Step]_vars BY <1>1
<1> QED BY <1>2, PagingInvariance, PTL DEF Spec, ReplacesOldest

-----------------------------------------------------------------------------
(***************************************************************************)
(* Module Paging implements module Residency when instructions are fetched *)
(* from the page of the program only: access_page() then never brings a    *)
(* page back that it does not mark as present.                             *)
(***************************************************************************)
(* The frames are exact: none holds a page that is not present, or twice *)

Exact(k) ==
  \A i \in 1..Len(k.frame) : k.frame[i] # Empty =>
    /\ k.page[k.frame[i]].present
    /\ \A j \in 1..Len(k.frame) : k.frame[j] = k.frame[i] => j = i

InMemory(k) == {v \in VPages : k.page[v].present}

\* The pages in memory are as many as nmapped says.
LEMMA InMemoryCounted ==
  ASSUME NEW k \in VirtMemories, Counted(k), Exact(k), FramedAll(k, VPages)
  PROVE  Cardinality(InMemory(k)) = k.nmapped /\ k.nmapped <= Len(k.frame)
<1> DEFINE S == FramesInUse(k)
           T == InMemory(k)
           f == [i \in S |-> k.frame[i]]
<1>1. IsFiniteSet(S) /\ Cardinality(S) \in 0..Len(k.frame) BY FrameFacts
<1>2. f \in [S -> T]
  <2> SUFFICES ASSUME NEW i \in S PROVE k.frame[i] \in T OBVIOUS
  <2>1. i \in 1..Len(k.frame) /\ k.frame[i] # Empty BY DEF FramesInUse
  <2>2. k.frame[i] \in VPages BY <2>1, FrameFacts
  <2> QED BY <2>1, <2>2 DEF Exact, InMemory
<1>3. \A v \in T : \E i \in S : f[i] = v
  <2> SUFFICES ASSUME NEW v \in T PROVE \E i \in S : f[i] = v OBVIOUS
  <2>1. v \in VPages /\ k.page[v].present BY DEF InMemory
  <2>2. PICK i \in 1..Len(k.frame) : k.frame[i] = v BY <2>1 DEF FramedAll, InFrame
  <2>3. i \in S BY <2>1, <2>2, FrameFacts DEF FramesInUse
  <2> QED BY <2>2, <2>3
<1>4. \A i, j \in S : f[i] = f[j] => i = j BY DEF Exact, FramesInUse
<1> HIDE DEF S, T, f
<1>5. f \in Surjection(S, T) BY <1>2, <1>3 DEF Surjection
<1>6. f \in Injection(S, T) BY <1>2, <1>4 DEF Injection, IsInjective
<1>7. Cardinality(T) = Cardinality(S) BY <1>1, <1>5, <1>6, FS_Surjection
<1> QED BY <1>1, <1>7 DEF S, T, Counted

\* A page that comes in was in no frame.
LEMMA MappedExact ==
  ASSUME NEW k \in VirtMemories, Exact(k), NEW v \in VPages, ~ k.page[v].present,
         NEW n, n.frame = k.frame, n.page[v].present,
         \A w \in VPages : w # v => n.page[w] = k.page[w]
  PROVE  Exact(n) /\ ~ InFrame(k, v) /\ InMemory(n) = InMemory(k) \cup {v}
<1>1. ~ InFrame(k, v) BY FrameFacts DEF InFrame, Exact
<1>2. \A i \in 1..Len(k.frame) : k.frame[i] # Empty => n.page[k.frame[i]].present
  <2> SUFFICES ASSUME NEW i \in 1..Len(k.frame), k.frame[i] # Empty
               PROVE  n.page[k.frame[i]].present
    OBVIOUS
  <2>1. k.frame[i] \in VPages /\ k.page[k.frame[i]].present BY FrameFacts DEF Exact
  <2> QED BY <2>1
<1>3. Exact(n) BY <1>2 DEF Exact
<1>4. InMemory(n) = InMemory(k) \cup {v} BY DEF InMemory
<1> QED BY <1>1, <1>3, <1>4

\* The page that replace() picks was in memory, and is no longer.
LEMMA ReplacedExact ==
  ASSUME NEW k \in VirtMemories, Counted(k), Full(k), Candidates(k) # {}, Exact(k),
         NEW v \in VPages, ~ InFrame(k, v), k.page[v].present
  PROVE  LET n == Replaced(k)
             w == Evicted(k)
         IN  /\ Exact(n) /\ Len(n.frame) = Len(k.frame)
             /\ ~ InFrame(n, v) /\ n.page[v].present
             /\ w \in VPages \ {0, v} /\ k.page[w].present
             /\ InMemory(n) = InMemory(k) \ {w}
<1> DEFINE n == Replaced(k)
           o == Oldest(k)
           e == Evicted(k)
           r == [k.page[e] EXCEPT !.present = FALSE]
<1>1. o \in 1..Len(k.frame) /\ e = k.frame[o] /\ e \in VPages \ {0}
  BY OldestIsThere
<1>2. n = [k EXCEPT !.page = [k.page EXCEPT ![e] = r],
                    !.frame = [k.frame EXCEPT ![o] = Empty], !.nmapped = k.nmapped - 1]
  BY DEF Replaced
<1>3. n.page = [k.page EXCEPT ![e] = r] /\ n.frame = [k.frame EXCEPT ![o] = Empty]
  <2> HIDE DEF n, o, e, r
  <2> QED BY <1>2 DEF VirtMemories
<1> HIDE DEF n, o, e
<1>4. ~ r.present
  <2>1. k.page[e] \in PageEntry BY <1>1, FrameFacts
  <2> QED BY <2>1 DEF PageEntry
<1> HIDE DEF r
<1>5. e # v /\ k.page[e].present
  <2>1. e # v BY <1>1 DEF InFrame
  <2>2. k.frame[o] # Empty BY <1>1, FrameFacts
  <2> QED BY <1>1, <2>1, <2>2 DEF Exact
<1>6. ~ n.page[e].present /\ \A w \in VPages : w # e => n.page[w] = k.page[w]
  BY <1>1, <1>3, <1>4, FrameFacts
<1>7. /\ Len(n.frame) = Len(k.frame)
      /\ \A i \in 1..Len(k.frame) : n.frame[i] = IF i = o THEN Empty ELSE k.frame[i]
  BY <1>1, <1>3, FrameFacts
<1>8. Exact(n)
  <2> SUFFICES ASSUME NEW i \in 1..Len(k.frame), n.frame[i] # Empty
               PROVE  /\ n.page[n.frame[i]].present
                      /\ \A j \in 1..Len(k.frame) : n.frame[j] = n.frame[i] => j = i
    BY <1>7 DEF Exact
  <2>1. i # o /\ n.frame[i] = k.frame[i] /\ k.frame[i] # Empty BY <1>7
  <2>2. k.frame[i] # e BY <1>1, <2>1 DEF Exact
  <2>3. k.frame[i] \in VPages /\ k.page[k.frame[i]].present BY <2>1, FrameFacts DEF Exact
  <2>4. n.page[n.frame[i]].present BY <1>6, <2>1, <2>2, <2>3
  <2>5. \A j \in 1..Len(k.frame) : n.frame[j] = n.frame[i] => j = i
    BY <1>7, <2>1 DEF Exact
  <2> QED BY <2>4, <2>5
<1>9. ~ InFrame(n, v) BY <1>7, FrameFacts DEF InFrame
<1>10. InMemory(n) = InMemory(k) \ {e} BY <1>6 DEF InMemory
<1>11. n.page[v].present BY <1>5, <1>6
<1> QED BY <1>1, <1>5, <1>7, <1>8, <1>9, <1>10, <1>11 DEF n, e

\* The page that came in is in one frame.
LEMMA FramedExact ==
  ASSUME NEW k \in VirtMemories, Counted(k), ~ Full(k), Exact(k),
         NEW v \in VPages, ~ InFrame(k, v), k.page[v].present
  PROVE  LET n == Framed(k, v)
         IN  Exact(n) /\ Len(n.frame) = Len(k.frame) /\ InMemory(n) = InMemory(k)
<1> DEFINE n == Framed(k, v)
           o == EmptyFrame(k)
<1>1. o \in 1..Len(k.frame) /\ k.frame[o] = Empty BY EmptyFrameIsThere
<1>2. n = [k EXCEPT !.frame = [k.frame EXCEPT ![o] = v], !.nmapped = k.nmapped + 1]
  BY DEF Framed
<1> HIDE DEF n, o
<1>3. n.page = k.page /\ n.frame = [k.frame EXCEPT ![o] = v] BY <1>2 DEF VirtMemories
<1>4. /\ Len(n.frame) = Len(k.frame)
      /\ \A i \in 1..Len(k.frame) : n.frame[i] = IF i = o THEN v ELSE k.frame[i]
  BY <1>1, <1>3, FrameFacts
<1>5. Exact(n)
  <2> SUFFICES ASSUME NEW i \in 1..Len(k.frame), n.frame[i] # Empty
               PROVE  /\ k.page[n.frame[i]].present
                      /\ \A j \in 1..Len(k.frame) : n.frame[j] = n.frame[i] => j = i
    BY <1>3, <1>4 DEF Exact
  <2>1. \A j \in 1..Len(k.frame) : k.frame[j] # v BY DEF InFrame
  <2>2. CASE i = o BY <1>4, <2>1, <2>2
  <2>3. CASE i # o
    <3>1. n.frame[i] = k.frame[i] BY <1>4, <2>3
    <3> QED BY <1>4, <2>1, <2>3, <3>1 DEF Exact
  <2> QED BY <2>2, <2>3
<1>6. InMemory(n) = InMemory(k) BY <1>3 DEF InMemory
<1> QED BY <1>4, <1>5, <1>6 DEF n

\* k became n when page v came in
BroughtIn(k, n, v) ==
  /\ Exact(n) /\ Len(n.frame) = Len(k.frame)
  /\ \/ /\ Cardinality(InMemory(k)) < Len(k.frame)
        /\ InMemory(n) = InMemory(k) \cup {v}
     \/ /\ Cardinality(InMemory(k)) = Len(k.frame)
        /\ \E w \in InMemory(k) \ {0} : InMemory(n) = (InMemory(k) \ {w}) \cup {v}

\* A page comes into memory in a free frame, or in exchange for another.
LEMMA BroughtExact ==
  ASSUME NEW k \in VirtMemories, Counted(k), Exact(k), FramedAll(k, VPages),
         NEW v \in VPages, ~ k.page[v].present,
         NEW b \in VirtMemories, Counted(b), b.frame = k.frame, b.nmapped = k.nmapped,
         b.page[v].present, \A w \in VPages : w # v => b.page[w] = k.page[w],
         Full(b) => Candidates(b) # {}, NEW n, n = Placed(b, v)
  PROVE  BroughtIn(k, n, v)
<1>1. Cardinality(InMemory(k)) = k.nmapped /\ k.nmapped <= Len(k.frame) BY InMemoryCounted
<1>2. k.nmapped \in Nat /\ Len(k.frame) \in Nat BY FrameFacts
<1>3. Exact(b) /\ ~ InFrame(k, v) /\ InMemory(b) = InMemory(k) \cup {v} BY MappedExact
<1>4. ~ InFrame(b, v) BY <1>3 DEF InFrame
<1>5. CASE Full(b)
  <2> DEFINE r == Replaced(b)
             w == Evicted(b)
  <2>1. Candidates(b) # {} BY <1>5
  <2>2. /\ Exact(r) /\ Len(r.frame) = Len(b.frame)
        /\ ~ InFrame(r, v) /\ r.page[v].present
        /\ w \in VPages \ {0, v} /\ b.page[w].present
        /\ InMemory(r) = InMemory(b) \ {w}
    BY <1>4, <1>3, <1>5, <2>1, ReplacedExact
  <2>3. r \in VirtMemories /\ Counted(r) /\ ~ Full(r)
    <3>1. FramedAll(b, {}) BY DEF FramedAll
    <3> QED BY <1>5, <2>1, <3>1, ReplacedKeeps
  <2>4. n = Framed(r, v) BY <1>5 DEF Placed
  <2> HIDE DEF r, w
  <2>5. Exact(n) /\ Len(n.frame) = Len(r.frame) /\ InMemory(n) = InMemory(r)
    BY <2>2, <2>3, <2>4, FramedExact
  <2>6. w \in InMemory(b) BY <2>2 DEF InMemory
  <2>7. w \in InMemory(k) \ {0} /\ InMemory(n) = (InMemory(k) \ {w}) \cup {v}
    BY <1>3, <2>2, <2>5, <2>6
  <2>8. Cardinality(InMemory(k)) = Len(k.frame) BY <1>1, <1>5 DEF Full
  <2> QED BY <2>2, <2>5, <2>7, <2>8 DEF BroughtIn
<1>6. CASE ~ Full(b)
  <2>1. n = Framed(b, v) BY <1>6 DEF Placed
  <2>2. Exact(n) /\ Len(n.frame) = Len(b.frame) /\ InMemory(n) = InMemory(b)
    BY <1>4, <1>3, <1>6, <2>1, FramedExact
  <2>3. Cardinality(InMemory(k)) < Len(k.frame) BY <1>1, <1>2, <1>6 DEF Full
  <2> QED BY <1>3, <2>2, <2>3 DEF BroughtIn
<1> QED BY <1>5, <1>6

-----------------------------------------------------------------------------
(* What module Residency sees of a step *)

\* what the theorem rests on beside IInv
ExactInv == IInv /\ \A p \in live : Exact(vm[p])

\* Module Residency counts with the same operator.
LEMMA SameCardinality == \A S : RS!Cardinality(S) = Cardinality(S)
BY DEF RS!Cardinality, Cardinality

\* Of a process that is there, its pages in memory and its frames.
LEMMA View ==
  /\ \A p \in Procs : /\ ResidentPages[p] = (IF p \in live THEN InMemory(vm[p]) ELSE {})
                      /\ Quotas[p] = (IF p \in live THEN Len(vm[p].frame) ELSE 0)
  /\ ResidentPages = [p \in Procs |-> ResidentPages[p]]
  /\ Quotas = [p \in Procs |-> Quotas[p]]
BY DEF ResidentPages, Quotas, InMemory, Page

\* Nothing is seen of a step that leaves the pages in memory and the frames.
LEMMA ViewStays ==
  ASSUME live' = live, live \subseteq Procs,
         \A p \in live : /\ InMemory(vm'[p]) = InMemory(vm[p])
                         /\ Len(vm'[p].frame) = Len(vm[p].frame)
  PROVE  UNCHANGED <<ResidentPages, Quotas>>
BY DEF ResidentPages, Quotas, InMemory, Page

\* A step of one process is seen of that process only.
LEMMA ViewChanges ==
  ASSUME NEW p \in Procs, NEW n, vm \in [Procs -> VirtMemories],
         vm' = [vm EXCEPT ![p] = n], live' = live \cup {p}
  PROVE  /\ ResidentPages' = [ResidentPages EXCEPT ![p] = InMemory(n)]
         /\ Quotas' = [Quotas EXCEPT ![p] = Len(n.frame)]
         /\ Quotas'[p] = Len(n.frame)
<1>1. \A q \in Procs : vm'[q] = IF q = p THEN n ELSE vm[q] OBVIOUS
<1>2. \A q \in Procs : /\ ResidentPages'[q] = (IF q \in live' THEN InMemory(vm'[q]) ELSE {})
                       /\ Quotas'[q] = (IF q \in live' THEN Len(vm'[q].frame) ELSE 0)
  BY DEF ResidentPages, Quotas, InMemory, Page
<1>3. /\ ResidentPages' = [q \in Procs |-> ResidentPages'[q]]
      /\ Quotas' = [q \in Procs |-> Quotas'[q]]
  BY DEF ResidentPages, Quotas
<1>4. \A q \in Procs \ {p} : ResidentPages'[q] = ResidentPages[q] /\ Quotas'[q] = Quotas[q]
  BY <1>1, <1>2, View
<1>5. ResidentPages'[p] = InMemory(n) /\ Quotas'[p] = Len(n.frame) BY <1>1, <1>2
<1> QED BY <1>3, <1>4, <1>5, View

\* A page is brought in or exchanged.
LEMMA BroughtStep ==
  ASSUME ExactInv, NEW p \in live, NEW v \in VPages, ~ vm[p].page[v].present,
         NEW pg \in Pages \cup {NoPage}, NEW m,
         CanPlace(m, Mapped(vm[p], v, pg, clock, TRUE)), live' = live,
         vm' = [vm EXCEPT ![p] = Placed(Mapped(vm[p], v, pg, clock, TRUE), v)]
  PROVE  RS!Next /\ \A q \in live' : Exact(vm'[q])
<1> DEFINE k == vm[p]
           n == Placed(Mapped(k, v, pg, clock, TRUE), v)
<1>1. /\ Typed /\ vm \in [Procs -> VirtMemories] /\ Kept(k) /\ Exact(k) /\ p \in Procs
      /\ \A q \in live : Exact(vm[q])
  BY InvParts DEF ExactInv, Typed
<1>2. clock \in Nat /\ k \in VirtMemories /\ Counted(k) /\ FramedAll(k, VPages)
  BY <1>1 DEF Typed, Kept
<1>3. BroughtIn(k, n, v)
  <2> DEFINE b == Mapped(k, v, pg, clock, TRUE)
             e == [refed |-> TRUE, present |-> TRUE, addr |-> pg, tIn |-> clock, tRef |-> clock]
  <2>1. TRUE \in BOOLEAN OBVIOUS
  <2>2. b = [k EXCEPT !.page = [k.page EXCEPT ![v] = e]] /\ e.present BY DEF Mapped
  <2>3. n = Placed(b, v) /\ CanPlace(m, b) /\ ~ k.page[v].present OBVIOUS
  <2> HIDE DEF k
  <2>4. b \in VirtMemories /\ Counted(b) BY <1>2, <2>1, MappedKeeps
  <2> HIDE DEF b, e, n
  <2>5. b.page = [k.page EXCEPT ![v] = e] /\ b.frame = k.frame /\ b.nmapped = k.nmapped
    BY <1>2, <2>2 DEF VirtMemories
  <2>6. b.page[v].present /\ \A w \in VPages : w # v => b.page[w] = k.page[w]
    BY <1>2, <2>2, <2>5, FrameFacts
  <2>7. Full(b) => Candidates(b) # {} BY <2>3 DEF CanPlace
  <2> QED BY <1>1, <1>2, <2>3, <2>4, <2>5, <2>6, <2>7, BroughtExact
<1>4. vm' = [vm EXCEPT ![p] = n] /\ live' = live \cup {p} OBVIOUS
<1>5. v \notin InMemory(k) BY DEF InMemory
<1> HIDE DEF n
<1>6. /\ ResidentPages' = [ResidentPages EXCEPT ![p] = InMemory(n)]
      /\ Quotas' = [Quotas EXCEPT ![p] = Len(n.frame)]
  BY <1>1, <1>4, ViewChanges
<1>7. ResidentPages[p] = InMemory(k) /\ Quotas[p] = Len(k.frame) BY <1>1, View
<1> HIDE DEF k
<1>8. UNCHANGED Quotas BY <1>1, <1>3, <1>6, <1>7, View DEF BroughtIn
<1>9. RS!Next
  <2>1. CASE /\ Cardinality(InMemory(k)) < Len(k.frame)
             /\ InMemory(n) = InMemory(k) \cup {v}
    <3>1. RS!Bring(p, v) BY <1>5, <1>6, <1>7, <1>8, <2>1, SameCardinality DEF RS!Bring
    <3> QED BY <1>1, <3>1 DEF RS!Next
  <2>2. CASE /\ Cardinality(InMemory(k)) = Len(k.frame)
             /\ \E w \in InMemory(k) \ {0} : InMemory(n) = (InMemory(k) \ {w}) \cup {v}
    <3>1. PICK w \in InMemory(k) \ {0} : InMemory(n) = (InMemory(k) \ {w}) \cup {v}
      BY <2>2
    <3>2. RS!Exchange(p, v, w) BY <1>5, <1>6, <1>7, <1>8, <2>2, <3>1, SameCardinality DEF RS!Exchange
    <3>3. w \in VPages BY <3>1 DEF InMemory
    <3> QED BY <1>1, <3>2, <3>3 DEF RS!Next
  <2> QED BY <1>3, <2>1, <2>2 DEF BroughtIn
<1>10. \A q \in live' : Exact(vm'[q])
  <2> TAKE q \in live'
  <2>1. q \in Procs BY <1>1 DEF Typed
  <2>2. vm'[q] = IF q = p THEN n ELSE vm[q] BY <1>1, <1>4, <2>1
  <2> QED BY <1>1, <1>3, <2>2 DEF BroughtIn
<1> QED BY <1>9, <1>10

\* A process is loaded: its first page is that of the program.
LEMMA LoadStep ==
  ASSUME ExactInv, NEW p \in Procs, NEW n \in Blocks, Load(p, n)
  PROVE  RS!Next /\ \A q \in live' : Exact(vm'[q])
<1> DEFINE k == Fresh(initAlgo, n)
           b == Mapped(k, 0, NextPage(pm), clock, TRUE)
           r == Placed(b, 0)
           e == [refed |-> TRUE, present |-> TRUE, addr |-> NextPage(pm),
                 tIn |-> clock, tRef |-> clock]
<1>1. /\ Sound(pm) /\ Typed /\ vm \in [Procs -> VirtMemories]
      /\ \A q \in live : Exact(vm[q])
  BY InvParts DEF ExactInv
<1>2. /\ initAlgo \in ReplaceAlgs /\ n \in Nat /\ 0 \in VPages /\ clock \in Nat
      /\ NextPage(pm) \in Pages \cup {NoPage} /\ TRUE \in BOOLEAN
  <2>1. 0 \in VPages BY VirtAssumption DEF VPages
  <2>2. NextPage(pm) \in Pages \cup {NoPage} BY <1>1, AllocatedSound
  <2> QED BY <1>1, <2>1, <2>2, PagingAssumption DEF Typed
<1>3. k \in VirtMemories /\ Counted(k) /\ FramedAll(k, VPages) BY <1>2, FreshKeeps
<1>4. Exact(k) /\ InMemory(k) = {} /\ Len(k.frame) = n
  <2>1. k.frame = [i \in 1..n |-> Empty] /\ k.page = [v \in VPages |-> Untouched]
    BY DEF Fresh
  <2>2. Len(k.frame) = n /\ \A i \in 1..n : k.frame[i] = Empty BY <1>2, <2>1
  <2>3. \A v \in VPages : ~ k.page[v].present BY <2>1 DEF Untouched
  <2> QED BY <2>2, <2>3 DEF Exact, InMemory
<1>5. /\ r = Placed(b, 0) /\ vm' = [vm EXCEPT ![p] = r]
      /\ Full(b) => Candidates(b) # {}
  BY DEF Load, FaultIn, CanFaultIn, Faulted, CanPlace
<1>6. b = [k EXCEPT !.page = [k.page EXCEPT ![0] = e]] /\ e.present BY DEF Mapped
<1>7. p \notin live /\ live' = live \cup {p} BY DEF Load
<1> HIDE DEF k
<1>8. b \in VirtMemories /\ Counted(b) BY <1>2, <1>3, MappedKeeps
<1> HIDE DEF b, e, r
<1>9. b.page = [k.page EXCEPT ![0] = e] /\ b.frame = k.frame /\ b.nmapped = k.nmapped
  BY <1>3, <1>6 DEF VirtMemories
<1>10. b.page[0].present /\ \A w \in VPages : w # 0 => b.page[w] = k.page[w]
  BY <1>2, <1>3, <1>6, <1>9, FrameFacts
<1>11. ~ k.page[0].present BY <1>2, <1>4 DEF InMemory
<1>12. BroughtIn(k, r, 0)
  BY <1>2, <1>3, <1>4, <1>5, <1>8, <1>9, <1>10, <1>11, BroughtExact
<1>13. Exact(r) /\ Len(r.frame) = n /\ InMemory(r) = {0} /\ n # 0
  <2>1. Cardinality(InMemory(k)) = 0 BY <1>4, FS_EmptySet
  <2> QED BY <1>2, <1>4, <1>12, <2>1 DEF BroughtIn
<1>14. /\ ResidentPages' = [ResidentPages EXCEPT ![p] = {0}]
       /\ Quotas' = [Quotas EXCEPT ![p] = n] /\ Quotas'[p] = n
  BY <1>1, <1>5, <1>7, <1>13, ViewChanges
<1>15. ResidentPages[p] = {} BY <1>7, View
<1>16. RS!Begin(p) BY <1>2, <1>13, <1>14, <1>15 DEF RS!Begin
<1>17. \A q \in live' : Exact(vm'[q])
  <2> TAKE q \in live'
  <2>1. q \in Procs BY <1>1, <1>7 DEF Typed
  <2>2. vm'[q] = IF q = p THEN r ELSE vm[q] BY <1>1, <1>5, <2>1
  <2> QED BY <1>1, <1>7, <1>13, <2>2
<1> QED BY <1>16, <1>17 DEF RS!Next

\* The memory of a process that is gone holds no page.
LEMMA GoneStep ==
  ASSUME ExactInv, Gone
  PROVE  RS!Next /\ \A q \in live' : Exact(vm'[q])
<1>1. /\ Typed /\ vm \in [Procs -> VirtMemories] /\ \A q \in live : Exact(vm[q])
  BY InvParts DEF ExactInv
<1>2. dying \in live /\ dying \in Procs BY <1>1 DEF Typed, Gone
<1>3. live' = live \ {dying} /\ vm' = [vm EXCEPT ![dying] = NoMemory] BY DEF Gone
<1>4. \A q \in Procs \ {dying} : vm'[q] = vm[q] BY <1>1, <1>3
<1>5. \A q \in Procs : /\ ResidentPages'[q] = (IF q \in live' THEN InMemory(vm'[q]) ELSE {})
                       /\ Quotas'[q] = (IF q \in live' THEN Len(vm'[q].frame) ELSE 0)
  BY DEF ResidentPages, Quotas, InMemory, Page
<1>6. /\ ResidentPages' = [q \in Procs |-> ResidentPages'[q]]
      /\ Quotas' = [q \in Procs |-> Quotas'[q]]
  BY DEF ResidentPages, Quotas
<1>7. \A q \in Procs \ {dying} : ResidentPages'[q] = ResidentPages[q] /\ Quotas'[q] = Quotas[q]
  BY <1>3, <1>4, <1>5, View
<1>8. ResidentPages'[dying] = {} /\ Quotas'[dying] = 0 BY <1>2, <1>3, <1>5
<1>9. RS!End(dying) BY <1>2, <1>6, <1>7, <1>8, View DEF RS!End
<1>10. \A q \in live' : Exact(vm'[q]) BY <1>1, <1>3, <1>4 DEF Typed
<1> QED BY <1>2, <1>9, <1>10 DEF RS!Next

\* Every step is one of module Residency, or none.
LEMMA StepImplements ==
  ASSUME CodePages = {0}, ExactInv, [Next]_vars
  PROVE  [RS!Next]_<<ResidentPages, Quotas>> /\ ExactInv'
<1>1. /\ Typed /\ vm \in [Procs -> VirtMemories]
      /\ \A q \in live : Kept(vm[q]) /\ Exact(vm[q])
  BY InvParts DEF ExactInv
<1>2. IInv' BY NextInv DEF ExactInv
<1> DEFINE Good == /\ RS!Next \/ UNCHANGED <<ResidentPages, Quotas>>
                   /\ \A q \in live' : Exact(vm'[q])
<1>3. SUFFICES Good BY <1>2 DEF ExactInv
<1>4. ASSUME vm' = vm, live' = live PROVE Good
  <2>1. UNCHANGED <<ResidentPages, Quotas>> BY <1>1, <1>4, ViewStays DEF Typed
  <2> QED BY <1>1, <1>4, <2>1
<1>5. ASSUME NEW p \in Procs, NEW v \in VPages, NEW write \in BOOLEAN, Hit(p, v, write)
      PROVE  Good
  <2> DEFINE k == vm[p]
             r == [k.page[v] EXCEPT !.tRef = clock]
             n == [k EXCEPT !.page = [k.page EXCEPT ![v] = r]]
  <2>1. p \in live /\ live' = live /\ k \in VirtMemories /\ Exact(k) BY <1>1, <1>5 DEF Hit
  <2>2. vm' = [vm EXCEPT ![p] = n] BY <1>5 DEF Hit
  <2> HIDE DEF k
  <2>3. r.present = k.page[v].present
    <3>1. k.page[v] \in PageEntry BY <2>1, FrameFacts
    <3> QED BY <3>1 DEF PageEntry
  <2> HIDE DEF r
  <2>4. n.page = [k.page EXCEPT ![v] = r] /\ n.frame = k.frame BY <2>1 DEF VirtMemories
  <2> HIDE DEF n
  <2>5. \A w \in VPages : n.page[w].present = k.page[w].present
    BY <2>1, <2>3, <2>4, FrameFacts
  <2>6. InMemory(n) = InMemory(k) BY <2>5 DEF InMemory
  <2>7. Exact(n)
    <3>1. \A i \in 1..Len(k.frame) : k.frame[i] # Empty => k.frame[i] \in VPages
      BY <2>1, FrameFacts
    <3> QED BY <2>1, <2>4, <2>5, <3>1 DEF Exact
  <2>8. \A q \in live : vm'[q] = IF q = p THEN n ELSE vm[q] BY <1>1, <2>2 DEF Typed
  <2>9. \A q \in live : /\ InMemory(vm'[q]) = InMemory(vm[q])
                        /\ Len(vm'[q].frame) = Len(vm[q].frame)
    BY <2>4, <2>6, <2>8 DEF k
  <2>10. UNCHANGED <<ResidentPages, Quotas>> BY <1>1, <2>1, <2>9, ViewStays DEF Typed
  <2> QED BY <1>1, <2>1, <2>7, <2>8, <2>10
<1>6. ASSUME NEW p \in Procs, NEW v \in VPages, Fault(p, v) PROVE Good
  <2>1. p \in live /\ live' = live /\ ~ vm[p].page[v].refed BY <1>6 DEF Fault, Page
  <2>2. ~ vm[p].page[v].present BY <1>1, <2>1 DEF Kept, FramedAll
  <2>3. /\ CanPlace(Allocated(pm), Mapped(vm[p], v, NextPage(pm), clock, TRUE))
        /\ vm' = [vm EXCEPT ![p] = Placed(Mapped(vm[p], v, NextPage(pm), clock, TRUE), v)]
    BY <1>6 DEF Fault, FaultIn, CanFaultIn, Faulted
  <2>4. NextPage(pm) \in Pages \cup {NoPage}
    <3>1. Sound(pm) BY InvParts DEF ExactInv
    <3> QED BY <3>1, AllocatedSound
  <2> QED BY <2>1, <2>2, <2>3, <2>4, BroughtStep
<1>7. ASSUME NEW p \in Procs, NEW v \in VPages, SwapIn(p, v, TRUE) PROVE Good
  <2> DEFINE old == Page(p, v).addr
             pg  == SwapInPage(pm, old)
  <2>1. p \in live /\ live' = live /\ ~ vm[p].page[v].present BY <1>7 DEF SwapIn, Page
  <2>2. /\ CanPlace(SwappedIn(pm, old), Mapped(vm[p], v, pg, clock, TRUE))
        /\ vm' = [vm EXCEPT ![p] = Placed(Mapped(vm[p], v, pg, clock, TRUE), v)]
    BY <1>7 DEF SwapIn, CanSwapIn, Returned
  <2>3. pg \in Pages \cup {NoPage}
    <3>1. Swapped(pm, old) => pm.free # <<>> BY <1>7 DEF SwapIn, CanSwapIn, CanReturn
    <3>2. Sound(pm) BY InvParts DEF ExactInv
    <3> HIDE DEF old
    <3> QED BY <3>1, <3>2, SwappedInSound
  <2> HIDE DEF pg, old
  <2> QED BY <2>1, <2>2, <2>3, BroughtStep
<1>8. ASSUME NEW p \in Procs, SwapIn(p, 0, FALSE) PROVE Good
  BY <1>1, <1>8 DEF SwapIn, Page, Kept
<1>9. ASSUME NEW p \in Procs, NEW v \in VPages,
             Write(p, v) \/ Read(p, v) \/ AccessUndefined(p, v)
      PROVE  Good
  <2>1. CASE Write(p, v) BY <1>5, <1>6, <1>7, <2>1 DEF Write
  <2>2. CASE Read(p, v) BY <1>5, <1>8, <2>2 DEF Read
  <2>3. CASE AccessUndefined(p, v)
    BY <1>4, <2>3 DEF AccessUndefined, FaultUndefined, SwapInUndefined, HitUndefined, Undefined
  <2> QED BY <1>9, <2>1, <2>2, <2>3
<1>10. ASSUME NEW p \in Procs, NEW n \in Blocks, Load(p, n) \/ LoadUndefined(p, n) PROVE Good
  BY <1>4, <1>10, LoadStep DEF LoadUndefined, Undefined
<1>11. ASSUME NEW a \in Switches, Chalg(a) PROVE Good
  <2>1. ASSUME NEW q \in live
        PROVE  /\ InMemory(vm'[q]) = InMemory(vm[q]) /\ vm'[q].frame = vm[q].frame
               /\ Exact(vm'[q])
    <3> DEFINE k == vm[q]
               n == [k EXCEPT !.algo = a]
    <3>1. q \in Procs /\ k \in VirtMemories /\ Exact(k) BY <1>1 DEF Typed
    <3>2. vm'[q] = n BY <1>11, <3>1 DEF Chalg
    <3> HIDE DEF k
    <3>3. n.page = k.page /\ n.frame = k.frame BY <3>1 DEF VirtMemories
    <3> HIDE DEF n
    <3>4. InMemory(n) = InMemory(k) /\ Exact(n) BY <3>1, <3>3 DEF InMemory, Exact
    <3> QED BY <3>2, <3>3, <3>4 DEF k
  <2>2. live' = live BY <1>11 DEF Chalg
  <2>3. UNCHANGED <<ResidentPages, Quotas>> BY <1>1, <2>1, <2>2, ViewStays DEF Typed
  <2> QED BY <2>1, <2>2, <2>3
<1>12. CASE \/ \E p \in Procs : Kill(p)
            \/ Release \/ ReleaseUndefined
            \/ \E path \in SwapPaths, created \in BOOLEAN : Mkswap(path, created)
            \/ Tick \/ UNCHANGED vars
  <2>1. vm' = vm /\ live' = live
    BY <1>12 DEF Kill, Release, ReleaseUndefined, Undefined, Mkswap, Tick, vars
  <2> QED BY <1>4, <2>1
<1>13. CASE Gone BY <1>13, GoneStep
<1> QED BY <1>9, <1>10, <1>11, <1>12, <1>13 DEF Next

(***************************************************************************)
(* Paging implements module Residency for any number of pages, frames,     *)
(* processes and swap blocks, as long as instructions are fetched from     *)
(* the page of the program only.  With code in a second page the read of   *)
(* access_page() brings a page back that it does not mark as present, and  *)
(* the frames are no longer exact.                                         *)
(***************************************************************************)
THEOREM ResidencyImplemented ==
  ASSUME CodePages = {0}
  PROVE  Spec => ImplementsResidency
<1>1. Init => RS!Init /\ ExactInv
  <2> SUFFICES ASSUME Init PROVE RS!Init /\ ExactInv OBVIOUS
  <2>1. live = {} BY DEF Init
  <2>2. ResidentPages = [p \in Procs |-> {}] /\ Quotas = [p \in Procs |-> 0]
    BY <2>1 DEF ResidentPages, Quotas
  <2> QED BY <2>1, <2>2, InitInv DEF RS!Init, ExactInv
<1>2. ExactInv /\ [Next]_vars => [RS!Next]_<<ResidentPages, Quotas>> /\ ExactInv'
  BY StepImplements
<1> QED BY <1>1, <1>2, PTL DEF Spec, ImplementsResidency, RS!Spec, RS!rvars
=============================================================================
