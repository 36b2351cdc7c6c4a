----------------------------- MODULE PageMemory -----------------------------
(***************************************************************************)
(* The physical pages and the swap space (class PageMemoryModel): the list *)
(* of free pages, the use counters of the page table, the swap table with  *)
(* its block bitmap, and the sizes the swap files have on disk.  The       *)
(* operators are the methods of the class, on a record of these.           *)
(*                                                                         *)
(* A swap file is registered as a path; a path may be registered again,    *)
(* and then stands for 15 blocks more of the same file on disk.            *)
(*                                                                         *)
(* Page::locked is never set and Page::refed never becomes 1, so what the  *)
(* code does only for such pages is left out: alloc_page() never evicts,   *)
(* pg_swap_in() never finds its page in place.                             *)
(***************************************************************************)
EXTENDS Lists

CONSTANTS NPages,     \* physical pages (16 in the code)
          PerFile,    \* blocks of a swap file (15 in the code)
          SizeWord,   \* 2^64 bytes in blocks, which the size of a file wraps at
          SwapPaths,  \* the paths of swap files, as walk() takes them
          BootPath    \* "/.swap"

ASSUME PageAssumption ==
  /\ NPages \in Nat \ {0} /\ PerFile \in Nat \ {0}
  /\ SizeWord \in Nat /\ SizeWord > PerFile
  /\ BootPath \in SwapPaths

Pages  == 0..(NPages - 1)
NoPage == -1
NoFile == -1     \* in place of a size: the path leads to no file

NewMemory ==
  [free  |-> [i \in 1..NPages |-> i - 1],
   count |-> [pg \in Pages |-> 0],
   swap  |-> <<>>,                           \* swaptable
   used  |-> {},                             \* the bits of swapbitmap that are set
   files |-> <<BootPath>>,                   \* swapspace
   size  |-> [path \in SwapPaths |-> IF path = BootPath THEN 0 ELSE NoFile]]

-----------------------------------------------------------------------------
(* Free pages *)

NextPage(m) == IF m.free = <<>> THEN NoPage ELSE Head(m.free)

\* a bug to be caught: the page stays in the free list
AllocatedKept(m) ==
  IF m.free = <<>> THEN m ELSE [m EXCEPT !.count[Head(m.free)] = @ + 1]

\* alloc_page()
Allocated(m) ==
  IF m.free = <<>> THEN m
  ELSE [m EXCEPT !.free = Tail(@), !.count[Head(m.free)] = @ + 1]

\* a bug to be caught: the page is not given back
FreedNot(m, pg) == [m EXCEPT !.count[pg] = 0]

\* free_page(pg)
Freed(m, pg) == [m EXCEPT !.count[pg] = 0, !.free = Append(@, pg)]

-----------------------------------------------------------------------------
(* Swap files *)

FileOf(blk) == (blk \div PerFile) + 1

PathOf(m, blk) == m.files[FileOf(blk)]

CountedUp(n)   == IF n = SizeWord - 1 THEN 0 ELSE n + 1
CountedDown(n) == IF n = 0 THEN SizeWord - 1 ELSE n - 1

\* write_swapspace() counts the blocks written, and refuses when all are
WriteSwap(m, blk) ==
  IF m.size[PathOf(m, blk)] \in {NoFile, PerFile} THEN m.size
  ELSE [m.size EXCEPT ![PathOf(m, blk)] = CountedUp(@)]

\* a bug to be caught: a block that is read counts twice
ReadSwapTwice(m, blk) ==
  IF m.size[PathOf(m, blk)] = NoFile THEN m.size
  ELSE [m.size EXCEPT ![PathOf(m, blk)] = CountedDown(CountedDown(@))]

\* read_swapspace()
ReadSwap(m, blk) ==
  IF m.size[PathOf(m, blk)] = NoFile THEN m.size
  ELSE [m.size EXCEPT ![PathOf(m, blk)] = CountedDown(@)]

FreeBlocks(m) == 0..(PerFile * Len(m.files) - 1) \ m.used

FreeBlock(m) ==
  CHOOSE b \in FreeBlocks(m) : \A c \in FreeBlocks(m) : b <= c

(***************************************************************************)
(* new_swap(path) and create_swapspace().  The path is registered whether  *)
(* or not a file is "created", also for the second time: create_swapspace  *)
(* looks up the path with "//" in it, which is never found.  The second    *)
(* file of one path is never reached: walk() takes the first.              *)
(***************************************************************************)
Extended(m, path, created) ==
  [m EXCEPT !.files = Append(@, path),
            !.size[path] = IF created /\ @ = NoFile THEN 0 ELSE @]

-----------------------------------------------------------------------------
(* Swapping *)

\* a bug to be caught: the block is not marked in the bitmap
SwappedOutUnmarked(m, pg) ==
  IF FreeBlocks(m) = {} THEN m
  ELSE [m EXCEPT !.free = Append(@, pg), !.count[pg] = 0,
                 !.swap = Append(@, [page |-> pg, blk |-> FreeBlock(m), count |-> m.count[pg]]),
                 !.size = WriteSwap(m, FreeBlock(m))]

\* pg_swap_out(pg): with no block free, the page is left as it is
SwappedOut(m, pg) ==
  IF FreeBlocks(m) = {} THEN m
  ELSE [free  |-> Append(m.free, pg),
        count |-> [m.count EXCEPT ![pg] = 0],
        swap  |-> Append(m.swap, [page |-> pg, blk |-> FreeBlock(m), count |-> m.count[pg]]),
        used  |-> m.used \cup {FreeBlock(m)},
        files |-> m.files,
        size  |-> WriteSwap(m, FreeBlock(m))]

Swapped(m, pg) == \E i \in 1..Len(m.swap) : m.swap[i].page = pg

\* the first entry with this page number, which several may have
FirstEntry(m, pg) ==
  CHOOSE i \in 1..Len(m.swap) :
    m.swap[i].page = pg /\ \A j \in 1..(i - 1) : m.swap[j].page # pg

Entry(m, pg) == m.swap[FirstEntry(m, pg)]

\* release_swap(pg): the file's size on disk is not told
Released(m, pg) ==
  [m EXCEPT !.swap = WithoutIndex(@, FirstEntry(m, pg)), !.used = @ \ {Entry(m, pg).blk}]

\* a bug to be caught: the entry stays in the swap table
SwappedInKept(m, pg) ==
  IF ~ Swapped(m, pg) THEN m
  ELSE [Allocated(m) EXCEPT !.count[NextPage(m)] = Entry(m, pg).count,
                            !.used = @ \ {Entry(m, pg).blk},
                            !.size = ReadSwap(m, Entry(m, pg).blk)]

(***************************************************************************)
(* pg_swap_in(pg): the page comes back in another physical page.  When the *)
(* page is in no entry ("page loss") it returns false, which its callers   *)
(* take for page 0.                                                        *)
(***************************************************************************)
SwapInPage(m, pg) == IF Swapped(m, pg) THEN NextPage(m) ELSE 0

SwappedIn(m, pg) ==
  IF ~ Swapped(m, pg) THEN m
  ELSE [Allocated(Released(m, pg)) EXCEPT
          !.count[NextPage(m)] = Entry(m, pg).count,
          !.size = ReadSwap(m, Entry(m, pg).blk)]
=============================================================================
