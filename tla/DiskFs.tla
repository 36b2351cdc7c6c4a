------------------------------- MODULE DiskFs -------------------------------
(***************************************************************************)
(* The filesystem on disk.bin (class Filesystem and namespace FS): inodes, *)
(* directories, and the two bitmaps and the counts of the superblock,      *)
(* which are kept in memory and written by the destructor only.  Inodes    *)
(* and directories are written at once.                                    *)
(*                                                                         *)
(* The bitmaps are searched for BLK_SIZE entries, MapSize here, of 8 times *)
(* as many inodes and blocks; a search that fails ends at number MapSize,  *)
(* which is then used like the others.  A size is in slots for a directory *)
(* and in units, PerBlock to a block, for a file.                          *)
(*                                                                         *)
(* The files are the user's own, who may do with them what their           *)
(* permissions say, administrator or not (uid == i_uid is tested first).   *)
(***************************************************************************)
EXTENDS Integers, Sequences, FiniteSets

CONSTANTS
  MapSize,     \* entries of a bitmap (1024 in the code)
  NData,       \* data blocks and inodes, by the superblock (8192)
  NSlots,      \* entries of a directory (8)
  SwapBlks,    \* blocks of a swap file (15)
  MaxBlks,     \* blocks a file may have (15)
  PerBlock,    \* units of a block
  Word,        \* 2^64, which the size of a directory wraps at
  Names,       \* the names files are given; no path read without its last "/"
               \* is one of them (see Exists), nor is "." or ".."
  NoName,
  Swap,        \* ".swap"
  Sizes,       \* the sizes in units files are written with
  Modes,       \* the permissions chmod gives
  MaxDepth,    \* bound: names in a path
  MaxOpens,    \* bound: entries of the system file table
  MaxMarks,    \* bound: marks in "past"
  MaxBoots,    \* bound: starts
  MaxDrift     \* bound: blocks or inodes counted as free more often than taken

ASSUME DiskAssumption ==
  /\ MapSize \in Nat /\ MapSize > SwapBlks /\ NData \in Nat /\ NData >= MapSize
  /\ NSlots \in Nat /\ NSlots > 2 /\ Word \in Nat /\ Word > NSlots
  /\ SwapBlks \in Nat \ {0} /\ MaxBlks \in Nat \ {0} /\ SwapBlks <= MaxBlks
  /\ PerBlock \in Nat \ {0} /\ Sizes \subseteq Nat
  /\ NoName \notin Names /\ Swap \notin Names \cup {NoName}
  /\ {".", ".."} \cap (Names \cup {Swap, NoName}) = {}
  /\ Modes \subseteq SUBSET {"r", "w"}
  /\ MaxDepth \in Nat /\ MaxOpens \in Nat /\ MaxMarks \in Nat /\ MaxBoots \in Nat /\ MaxDrift \in Nat

Numbers == 0..MapSize     \* of inodes, and of blocks
Mapped  == 0..(MapSize - 1)
Slots   == 1..NSlots
Nowhere == -1             \* the index of what was not found
Stray   == -1             \* the address of a block found before the bitmap's start

VARIABLES
  fs,       \* the disk, and in memory the bitmaps and the free counts
  saved,    \* the bitmaps and the counts on disk
  opened,   \* the inodes of the files in the system file table
  past,     \* what went wrong so far, of the things this code does not see to
  boots,    \* how often the system was started again
  site      \* the step whose effect C++ leaves undefined, if one was made

vars == <<fs, saved, opened, past, site, boots>>

-----------------------------------------------------------------------------
(* The disk *)

Entry(type, name, i) == [type |-> type, name |-> name, inode |-> i]
NoEntry == Entry("None", NoName, 0)
Junk    == Entry("Junk", NoName, Stray)     \* a file's bytes, read as an entry

\* an inode that was never written; its first address is used as it is, 0
NoInode == [mode |-> "None", size |-> 0, nlinks |-> 0, blk |-> <<0>>, acl |-> {}]

\* the slots of a new directory i under p; the rest of its block stays as it is
DirSlots(d, i, p) ==
  [d EXCEPT ![1] = Entry("Dir", ".", i), ![2] = Entry("Dir", "..", p)]

Directory(b) ==
  [mode |-> "Dir", size |-> 2, nlinks |-> 3, blk |-> <<b>>, acl |-> {"r", "w"}]
PlainFile(blks) ==
  [mode |-> "File", size |-> 0, nlinks |-> 1, blk |-> blks, acl |-> {"r", "w"}]

(***************************************************************************)
(* makefs() prepares an inode for the root, and writes it to the block     *)
(* before the one in which read_inode() and write_inode() have the first   *)
(* inodes.  So the inode of the root is one that was never written: of no  *)
(* mode, and of size 0 though its directory has two entries.               *)
(***************************************************************************)
NewDisk ==
  [ino  |-> [i \in Numbers |-> NoInode],
   dir  |-> [b \in Numbers |->
               LET empty == [s \in Slots |-> NoEntry]
               IN  IF b = 0 THEN DirSlots(empty, 0, 0) ELSE empty],
   imap |-> {0}, dmap |-> {0},
   blks |-> NData - 1, inos |-> NData - 1]

\* a bug to be caught: the counts are not written with the bitmaps
BitmapsOnly(f) == [imap |-> f.imap, dmap |-> f.dmap, blks |-> NData - 1, inos |-> NData - 1]

Bitmaps(f) == [imap |-> f.imap, dmap |-> f.dmap, blks |-> f.blks, inos |-> f.inos]

Least(S) == CHOOSE x \in S : \A y \in S : x <= y

Search(map) == IF Mapped \subseteq map THEN MapSize ELSE Least(Mapped \ map)

-----------------------------------------------------------------------------
(* walk(): the number of the inode a path leads to or Nowhere, the inode    *)
(* that was read last, the directory d that was read last, and              *)
(* whether it went "through" a file: what was allocated for the answer is   *)
(* then deleted, and by the caller again.  The root's directory is read at  *)
(* the start, and by no entry that leads back to it: it is of no mode       *)

Used(d)      == {s \in Slots : d[s].type # "None"}
Free(d)      == {s \in Slots : d[s].type = "None"}
Named(d, n)  == {s \in Used(d) : d[s].name = n}

Entered(f, w, n) ==
  LET found == Named(w.d, n)
      i == w.d[Least(found)].inode
  IN  IF w.index = Nowhere THEN w
      ELSE IF w.node.mode = "File" THEN [w EXCEPT !.index = Nowhere, !.through = TRUE]
      ELSE IF found = {} THEN [w EXCEPT !.index = Nowhere]
      ELSE [index |-> i, node |-> f.ino[i], through |-> FALSE,
            d |-> IF f.ino[i].mode = "Dir" THEN f.dir[f.ino[i].blk[1]] ELSE w.d]

Paths == UNION {[1..n -> Names \cup {Swap}] : n \in 0..MaxDepth}

Root(f) == [index |-> 0, node |-> f.ino[0], through |-> FALSE, d |-> f.dir[f.ino[0].blk[1]]]

WalkIn(f, path) ==
  LET after[n \in 0..Len(path)] ==      \* its first n names
        IF n = 0 THEN Root(f) ELSE Entered(f, after[n - 1], path[n])
  IN  after[Len(path)]

Walk(path) == WalkIn(fs, path)

-----------------------------------------------------------------------------
(* Taking and giving back *)

\* a bug to be caught: the block is not marked
TakenUnmarked(f, blks) ==
  [f EXCEPT !.imap = @ \cup ({Search(f.imap)} \cap Mapped),
            !.blks = @ - Cardinality(blks), !.inos = @ - 1]

\* create() takes an inode and a block; the numbers past the bitmaps stay unmarked
Taken(f, blks) ==
  [f EXCEPT !.imap = @ \cup ({Search(f.imap)} \cap Mapped),
            !.dmap = @ \cup (blks \cap Mapped),
            !.blks = @ - Cardinality(blks), !.inos = @ - 1]

\* the entry of inode i in the directory w, and the two inodes
Linked(f, w, name, i, node) ==
  LET s      == Least(Free(w.d))
      parent == IF w.index = Nowhere THEN f.ino
                ELSE [f.ino EXCEPT ![w.index] = [w.node EXCEPT !.size = (@ + 1) % Word]]
  IN  [f EXCEPT !.ino = [parent EXCEPT ![i] = node],
                !.dir[w.node.blk[1]] = [w.d EXCEPT ![s] = Entry(node.mode, name, i)]]

\* a bug to be caught: ".." of a new directory is the directory itself
PreparedAlone(f, w, i, node) ==
  IF node.mode = "Dir"
  THEN [f EXCEPT !.dir[node.blk[1]] = DirSlots(@, i, i)] ELSE f

\* the block of a new directory is written before its parent's
Prepared(f, w, i, node) ==
  IF node.mode = "Dir"
  THEN [f EXCEPT !.dir[node.blk[1]] = DirSlots(@, i, w.index)] ELSE f

HasRoom(w) == Free(w.d) # {}

(***************************************************************************)
(* The end of fdelete(): the directory d that the file's entry is in (or   *)
(* the deleted directory's own) gives the parent by its "." (or ".."); the *)
(* parent's block is read over d, cleared of the inode and written back.   *)
(* The parent is then written where the same entry of the *new* d says.    *)
(***************************************************************************)
Pointer(d, dots) == d[Least({s \in Slots : d[s].name = dots})].inode

\* a bug to be caught: the entry stays
ClearedNot(d, i) == d

Cleared(d, i) == [s \in Slots |-> IF d[s].inode = i THEN [d[s] EXCEPT !.type = "None"] ELSE d[s]]

Parent(f, w, dots) ==
  LET p == Pointer(w.d, dots) IN f.ino[IF p \in Numbers THEN p ELSE w.index]

Unlinked(f, w, dots) ==
  LET q  == Parent(f, w, dots)
      d  == Cleared(f.dir[q.blk[1]], w.index)
      to == d[Least({s \in Slots : w.d[s].name = dots})].inode
  IN  [f EXCEPT !.dir[q.blk[1]] = d,
                !.ino = IF to \in Numbers
                        THEN [@ EXCEPT ![to] = [q EXCEPT !.size = (@ - 1) % Word]] ELSE @]

\* a bug to be caught: the blocks stay marked
GivenBackInode(f, w) == [f EXCEPT !.imap = @ \ {w.index}]

GivenBack(f, w) ==
  [f EXCEPT !.imap = @ \ {w.index}, !.dmap = @ \ {w.node.blk[k] : k \in 1..Len(w.node.blk)}]

Counted(f, w) == [f EXCEPT !.blks = @ + Len(w.node.blk), !.inos = @ + 1]

-----------------------------------------------------------------------------
(* The operations *)

Calm == site = "none"

\* a bug to be caught: whoever may read may do anything
MayWithRead(node, right) == node.acl # {}

May(node, right) == right \in node.acl

\* the answer for a path to a file that the user may use
ToFile(w, right) == w.index # Nowhere /\ w.node.mode = "File" /\ May(w.node, right)

\* walk(path + name): but for the root this is not the name of the new file
Exists(path, name) == path = <<>> /\ Named(Walk(path).d, name) # {}

(***************************************************************************)
(* The marks a step leaves in "past":                                      *)
(*   astray     a file was made under a path that leads nowhere            *)
(*   twice      ... under a name its directory has already                 *)
(*   full       ... in a directory with no slot free                       *)
(*   exhausted  ... with an inode or a block the bitmaps have no bit for   *)
(*   reused     a directory was made in a block with a file's bytes        *)
(*   nested     a directory was deleted that was not in the root           *)
(*   grown      a file was given a further block                           *)
(*   crash      the bitmaps in memory were lost                            *)
(***************************************************************************)
When(condition, mark) == IF condition THEN {mark} ELSE {}

Marked(marks) ==
  /\ past' = past \cup marks
  /\ Cardinality(past') <= MaxMarks

Drained == fs.blks = 0 \/ fs.inos = 0       \* bound: nothing is counted as free

\* create() of a file or a directory
Create(path, name, type) ==
  LET w  == Walk(path)
      i  == Search(fs.imap)
      b  == Search(fs.dmap)
      node == IF type = "Dir" THEN Directory(b) ELSE PlainFile(<<b>>)
  IN  /\ Calm /\ ~ Drained /\ ~ w.through
      /\ ~ Exists(path, name) /\ w.node.mode # "File"
      /\ Marked(When(w.index = Nowhere, "astray") \cup When(~ HasRoom(w), "full")
                \cup When(MapSize \in {i, b}, "exhausted")
                \cup When(type = "Dir" /\ \E s \in 3..NSlots : s \in Used(fs.dir[b]), "reused")
                \cup When(Named(w.d, name) # {}, "twice"))
      /\ fs' = IF HasRoom(w)
               THEN Linked(Prepared(Taken(fs, {b}), w, i, node), w, name, i, node)
               ELSE Taken(fs, {b})
      /\ UNCHANGED <<saved, opened, site, boots>>

\* the first n free blocks, in their order
FirstFree(f, n) ==
  {b \in Mapped \ f.dmap : Cardinality({c \in Mapped \ f.dmap : c < b}) < n}

InOrder(S) == [k \in 1..Cardinality(S) |-> CHOOSE b \in S : Cardinality({c \in S : c < b}) = k - 1]

\* create_swapspace(), which leaves the permissions as they are in the heap
SwapMade(f, w, name, acl) ==
  LET blks == FirstFree(f, SwapBlks)
      node == [PlainFile(InOrder(blks)) EXCEPT !.acl = acl]
  IN  IF Free(w.d) # {}
      THEN Linked(Taken(f, blks), w, name, Search(f.imap), node) ELSE Taken(f, blks)

CanSwap(f) == Cardinality(FirstFree(f, SwapBlks)) = SwapBlks

SwapMarks(f, w, name) ==
  When(~ HasRoom(w), "full") \cup When(Search(f.imap) = MapSize, "exhausted")
  \cup When(Named(w.d, name) # {}, "twice")

\* "mkswap", which does not find out whether the name is there: it has "//" in it
CreateSwap(path, name, acl) ==
  LET w == Walk(path)
  IN  /\ Calm /\ ~ w.through /\ w.node.mode # "File"
      /\ fs.blks >= SwapBlks /\ fs.inos > 0 /\ CanSwap(fs)
      /\ Marked(When(w.index = Nowhere, "astray") \cup SwapMarks(fs, w, name))
      /\ fs' = SwapMade(fs, w, name, acl)
      /\ UNCHANGED <<saved, opened, site, boots>>

Dots(w) == IF w.node.mode = "Dir" THEN ".." ELSE "."

HasDots(w) == \E s \in Slots : w.d[s].name = Dots(w)

\* a file goes with its last link, a directory at once
IsGivenBack(w) == w.node.mode = "Dir" \/ (w.node.nlinks - 1) % Word = 0

\* the numbers to be given back have a byte in the bitmaps
InBitmaps(w) == w.index \in Mapped /\ \A k \in 1..Len(w.node.blk) : w.node.blk[k] \in Mapped

\* fdelete() of what a path leads to, up to the search for the parent; "/" is pwd
Deletable(path, w) ==
  /\ Calm /\ path # <<>> /\ w.index # Nowhere
  /\ May(w.node, "w") /\ w.node.mode # "None"
  /\ w.node.mode = "Dir" => w.node.size <= 2
  /\ fs.blks + Len(w.node.blk) <= NData + MaxDrift /\ fs.inos < NData + MaxDrift

Delete(path) ==
  LET w == Walk(path)
      f == [fs EXCEPT !.ino[w.index].nlinks = IF w.node.mode = "Dir" THEN @ ELSE (@ - 1) % Word]
      g == IF IsGivenBack(w) THEN GivenBack(f, w) ELSE f
  IN  /\ Deletable(path, w) /\ HasDots(w) /\ (IsGivenBack(w) => InBitmaps(w))
      /\ Marked(When(w.node.mode = "Dir" /\ Len(path) > 1, "nested"))
      /\ fs' = Unlinked(Counted(g, w), w, Dots(w))
      /\ UNCHANGED <<saved, opened, site, boots>>

\* the units of a file of n that go to its k-th block
Part(n, k) ==
  IF n >= k * PerBlock THEN PerBlock
  ELSE IF n > (k - 1) * PerBlock THEN n - (k - 1) * PerBlock ELSE 0

Covers(units, s) == s * PerBlock <= units * NSlots

(***************************************************************************)
(* write() of n units from offset 0.  The division under ceil() is that of *)
(* integers, and the search for a free block starts before the bitmap: at  *)
(* a byte of the heap that may be 0.  No block it finds is marked.         *)
(***************************************************************************)
Added(node, n) == IF n > node.size THEN (n - node.size) \div PerBlock ELSE 0

Write(path, n, db) ==
  LET w     == Walk(path)
      extra == Added(w.node, n)
      blk   == w.node.blk \o [k \in 1..extra |-> db]
  IN  /\ Calm /\ ToFile(w, "w")
      /\ fs.blks >= extra /\ Len(blk) <= MaxBlks
      /\ db \in {Stray, Search(fs.dmap)} /\ (extra = 0 => db = Stray)
      /\ Marked(When(extra > 0, "grown"))
      /\ fs' = [fs EXCEPT
                  !.ino[w.index].size = n, !.ino[w.index].blk = blk,
                  !.dir = [b \in Numbers |->
                             [s \in Slots |->
                                IF \E k \in 1..Len(blk) : blk[k] = b /\ Covers(Part(n, k), s)
                                THEN Junk ELSE @[b][s]]]]
      /\ UNCHANGED <<saved, opened, site, boots>>

Chmod(path, mode) ==
  LET w == Walk(path)
  IN  /\ Calm /\ ToFile(w, "w")
      /\ fs' = [fs EXCEPT !.ino[w.index].acl = mode]
      /\ UNCHANGED <<saved, opened, past, site, boots>>

\* open(), which truncates a file that is not in the system file table yet
Open(path) ==
  LET w == Walk(path)
  IN  /\ Calm /\ ToFile(w, "r") /\ w.index \notin opened
      /\ Cardinality(opened) < MaxOpens
      /\ fs' = [fs EXCEPT !.ino[w.index].size = 0]
      /\ opened' = opened \cup {w.index}
      /\ UNCHANGED <<saved, past, site, boots>>

(***************************************************************************)
(* The steps C++ leaves undefined: any operation on a path that goes       *)
(* through a file (what walk() has deleted is deleted again), a swap file  *)
(* under a file (mkswap looks up a path through it first) or for which     *)
(* there are too few free blocks (the addresses that are missing are never *)
(* set), the deletion of what is in a directory without dots (the search   *)
(* for them runs past its end) or has a number outside the bitmaps.        *)
(***************************************************************************)
UndefinedSites(path) ==
  LET w == Walk(path)
  IN  When(w.through, "walk")
      \cup When(/\ ~ w.through /\ fs.blks >= SwapBlks
                /\ w.node.mode = "File" \/ ~ CanSwap(fs), "swap")
      \cup When(Deletable(path, w) /\ ~ HasDots(w), "dots")
      \cup When(Deletable(path, w) /\ IsGivenBack(w) /\ ~ InBitmaps(w), "map")

Undefined ==
  /\ Calm /\ site' \in UNION {UndefinedSites(path) : path \in Paths}
  /\ UNCHANGED <<fs, saved, opened, past, boots>>

-----------------------------------------------------------------------------
(* Start and end.  The kernel makes "/.swap" or empties the one there is. *)

Loaded(f, maps) ==
  [f EXCEPT !.imap = maps.imap, !.dmap = maps.dmap, !.blks = maps.blks, !.inos = maps.inos]

Booted(f, acl) ==
  LET w == WalkIn(f, <<Swap>>)
  IN  IF w.index = Nowhere THEN SwapMade(f, WalkIn(f, <<>>), Swap, acl)
      ELSE IF w.node.mode = "Dir" THEN f ELSE [f EXCEPT !.ino[w.index].size = 0]

BootMarks(f) ==
  IF WalkIn(f, <<Swap>>).index = Nowhere THEN SwapMarks(f, WalkIn(f, <<>>), Swap) ELSE {}

CanBoot(f) == WalkIn(f, <<Swap>>).index = Nowhere => f.blks >= SwapBlks /\ CanSwap(f)

Boot(maps, acl, marks) ==
  /\ Calm /\ CanBoot(Loaded(fs, maps))
  /\ fs' = Booted(Loaded(fs, maps), acl)
  /\ Marked(marks \cup BootMarks(Loaded(fs, maps)))
  /\ boots < MaxBoots /\ boots' = boots + 1
  /\ saved' = maps /\ opened' = {}
  /\ UNCHANGED site

\* the destructor writes the bitmaps
Restart(acl) == Boot(Bitmaps(fs), acl, {})

Crash(acl) == Boot(saved, acl, When(saved # Bitmaps(fs), "crash"))

Init ==
  /\ \E acl \in Modes : fs = Booted(NewDisk, acl)
  /\ saved = Bitmaps(NewDisk)
  /\ opened = {} /\ past = {} /\ site = "none" /\ boots = 0

Next ==
  \/ \E path \in {p \in Paths : Len(p) < MaxDepth}, name \in Names :
       \/ \E type \in {"File", "Dir"} : Create(path, name, type)
       \/ \E acl \in Modes : CreateSwap(path, name, acl)
  \/ \E path \in Paths :
       \/ Delete(path)
       \/ \E n \in Sizes, db \in Numbers \cup {Stray} : Write(path, n, db)
       \/ \E mode \in Modes : Chmod(path, mode)
       \/ Open(path)
  \/ Undefined
  \/ \E acl \in Modes : Restart(acl) \/ Crash(acl)

Spec == Init /\ [][Next]_vars
=============================================================================
