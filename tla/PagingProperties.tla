-------------------------- MODULE PagingProperties --------------------------
(***************************************************************************)
(* What should be true of module Paging.                                   *)
(***************************************************************************)
EXTENDS Paging

Time == Nat \cup {-1}
PageEntry ==
  [refed : BOOLEAN, present : BOOLEAN, addr : Pages \cup {NoPage},
   tIn : Time, tRef : Time]
VirtMemories ==
  [algo : ReplaceAlgs, frame : Seq(VPages \cup {Empty}), nmapped : Nat,
   page : [VPages -> PageEntry]]
FileSizes == 0..(SizeWord - 1) \cup {NoFile}
SwapEntry == [page : Pages, blk : Nat, count : Nat]
PageMemories ==
  [free : Seq(Pages), count : [Pages -> Nat], swap : Seq(SwapEntry),
   used : SUBSET Nat, files : Seq(SwapPaths), size : [SwapPaths -> FileSizes]]

\* Every variable keeps its type.
TypeOK ==
  /\ pm \in PageMemories
  /\ live \subseteq Procs
  /\ vm \in [Procs -> VirtMemories]
  /\ algo \in ReplaceAlgs /\ initAlgo \in ReplaceAlgs
  /\ clock \in Nat
  /\ dying \in live \cup {NoProc} /\ at \in 0..NVPages
  /\ site \in {"none", "replace", "swap_in", "access", "release"}

-----------------------------------------------------------------------------
(* What holds however little memory there is *)

\* The blocks of file f that hold a page, by the bitmap.
UsedOf(m, f) == {b \in m.used : FileOf(b) = f}

Matches(m) ==
  /\ m.used = {m.swap[i].blk : i \in 1..Len(m.swap)}
  /\ \A i, j \in 1..Len(m.swap) : m.swap[i].blk = m.swap[j].blk => i = j
  /\ \A b \in m.used : FileOf(b) \in 1..Len(m.files)

\* the path of swap file f is registered once
Alone(m, f) == \A g \in 1..Len(m.files) : m.files[g] = m.files[f] => g = f

Covers(m) ==
  \A f \in 1..Len(m.files) :
    Alone(m, f) /\ m.size[m.files[f]] # NoFile =>
      /\ Cardinality(UsedOf(m, f)) <= m.size[m.files[f]]
      /\ m.size[m.files[f]] <= PerFile

\* only a path that is registered leads to a swap file
Listed(m) ==
  \A path \in SwapPaths :
    m.size[path] # NoFile => \E f \in 1..Len(m.files) : m.files[f] = path

(***************************************************************************)
(* The bitmap and the swap table agree: a block is marked if and only if   *)
(* an entry has it, and no two entries have the same one.  In swap files   *)
(* registered once no swapped page is overwritten by another; two that     *)
(* share a path share the blocks on disk as well.                          *)
(***************************************************************************)
BitmapIsTable == Matches(pm)

(***************************************************************************)
(* The size of a swap file on disk, which write_swapspace() and            *)
(* read_swapspace() count up and down, covers the blocks the bitmap has in *)
(* use; this is why counting it down does not wrap below 0.  It is so for  *)
(* the files whose path is registered once: those that share a path are    *)
(* counted by one size, which wraps.                                       *)
(***************************************************************************)
SizeCoversUse == Covers(pm)

FramesInUse(k) == {i \in 1..Len(k.frame) : k.frame[i] # Empty}
InFrame(k, v)  == \E i \in 1..Len(k.frame) : k.frame[i] = v

Counted(k) == k.nmapped = Cardinality(FramesInUse(k))
FramedAll(k, S) == \A v \in S : k.page[v].present => k.page[v].refed /\ InFrame(k, v)

\* nmapped counts the frames in use: the last free frame is found when it should.
FramesAreCounted == \A p \in live : Counted(vm[p])

\* A page that is present is "in frame" (memory.cpp:303) and has been written once.
PresentIsInFrame == \A p \in live : FramedAll(vm[p], VPages)

\* The page of the program is present as long as the process lives: no
\* instruction is fetched by way of the swap space.
CodeStays == \A p \in live : Page(p, 0).present

\* The inductive invariant.
IInv ==
  /\ TypeOK
  /\ BitmapIsTable /\ SizeCoversUse /\ Listed(pm)
  /\ FramesAreCounted /\ PresentIsInFrame /\ CodeStays

-----------------------------------------------------------------------------
(* What holds with a page to spare and swap space for all *)

\* the pages that are in memory, and the pages that are not; those of a memory
\* that is being deleted have been given back up to at
Held(p, v) == p \in live /\ Page(p, v).refed /\ (p = dying => v >= at)

Resident ==
  {m \in Procs \X VPages : Held(m[1], m[2]) /\ Page(m[1], m[2]).present}
Absent ==
  {m \in Procs \X VPages : Held(m[1], m[2]) /\ ~ Page(m[1], m[2]).present}

PageOf(m) == Page(m[1], m[2]).addr

\* No two pages, of one process or of two, are in the same physical page.
PagesArePrivate == \A m, n \in Resident : PageOf(m) = PageOf(n) => m = n

(***************************************************************************)
(* No physical page is lost or given away twice: each is in the free list  *)
(* once, or holds a page of a process, and never both.                     *)
(***************************************************************************)
PagesAreConserved ==
  \A pg \in Pages : /\ Once(pm.free, pg)
                    /\ Occurs(pm.free, pg) <=> \A m \in Resident : PageOf(m) # pg

\* Every page that is not in memory has an entry of the swap table, one for
\* one: though entries are found by a page number several of them may have.
SwapIsAccounted ==
  \A pg \in Pages :
    Cardinality({i \in 1..Len(pm.swap) : pm.swap[i].page = pg})
      = Cardinality({m \in Absent : PageOf(m) = pg})

\* A page to spare and swap space for all: a physical page is free, and when a
\* page that is written first has to take the frame of another there is a block
\* for that one.
RoomForAll ==
  /\ pm.free # <<>>
  /\ \A p \in live, v \in VPages :
       ~ Page(p, v).refed /\ Full(vm[p]) => FreeBlocks(pm) # {}

\* No step of the system is one whose effect C++ leaves undefined.
NeverUndefined == site = "none"

\* what module Residency sees of the memories
ResidentPages == [p \in Procs |-> {v \in VPages : p \in live /\ Page(p, v).present}]
Quotas        == [p \in Procs |-> IF p \in live THEN Len(vm[p].frame) ELSE 0]

RS == INSTANCE Residency WITH
        Owners <- Procs, VirtPages <- VPages, CodePage <- 0,
        resident <- ResidentPages, quota <- Quotas

\* Paging keeps the promises of module Residency.
ImplementsResidency == RS!Spec

\* The page that leaves came in, or was used, no later than those that stay, by
\* the algorithm now in force, though another may have been in force before.
Leaves(p, v) == p \in live \cap live' /\ Page(p, v).present /\ ~ vm'[p].page[v].present
Stays(p, w)  == w # 0 /\ Page(p, w).present /\ vm'[p].page[w].present

ReplacesOldest ==
  [][ \A p \in Procs : \A v, w \in VPages :
        Leaves(p, v) /\ Stays(p, w) =>
          IF vm[p].algo = "FIFO" THEN Page(p, v).tIn <= Page(p, w).tIn
                                 ELSE Page(p, v).tRef <= Page(p, w).tRef ]_vars

-----------------------------------------------------------------------------
(* What the code says of itself, and does not keep *)

\* "in frame, in memory" (memory.cpp:303): the physical page of a page that is
\* present is not a free one.
PresentIsInMemory == \A m \in Resident : ~ Occurs(pm.free, PageOf(m))
=============================================================================
