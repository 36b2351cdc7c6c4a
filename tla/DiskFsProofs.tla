---------------------------- MODULE DiskFsProofs ----------------------------
(***************************************************************************)
(* What the directories, the inodes and the bitmaps of the disk say of     *)
(* each other stays so, for every disk and every sequence of operations in *)
(* which nothing happens that the code does not see to: theorems           *)
(* EntriesStayOne, BlocksStayPrivate, MarksStayOwned, CountsStayRight,     *)
(* TreeStaysSound and ReadOnlyStays.                                       *)
(*                                                                         *)
(* They rest on one invariant, Sound: there is a set T of inodes, the      *)
(* files and directories that are found by a name, and for each of them    *)
(* but the root one directory "par" and one slot of it, where its entry    *)
(* is.  T is less than what the bitmaps mark: create() keeps the inode and *)
(* the block it took when there is no slot free.                           *)
(***************************************************************************)
EXTENDS DiskFsProperties, ListLemmas, FiniteSetTheorems

-----------------------------------------------------------------------------
(* The invariant *)

AllNames == Names \cup {Swap, NoName, ".", ".."}
Entries  == [type : {"None", "Dir", "File", "Junk"}, name : AllNames, inode : Int]
Inodes   == [mode : {"None", "Dir", "File"}, size : Nat, nlinks : Nat,
             blk : Seq(Numbers), acl : SUBSET {"r", "w"}]
Disks    == [ino : [Numbers -> Inodes], dir : [Numbers -> [Slots -> Entries]],
             imap : SUBSET Mapped, dmap : SUBSET Mapped, blks : Int, inos : Int]

\* What the s-th slot of any block may hold
EntryOK(e, s) ==
  /\ e \in Entries
  /\ e.type = "Junk" => e = Junk
  /\ s > 2 => e.name \notin {".", ".."}
  /\ s <= 2 => e.type \in {"None", "Junk"} \/ e.name \in {".", ".."}

Typed(f) ==
  /\ f \in Disks
  /\ \A i \in Numbers : Len(f.ino[i].blk) >= 1
  /\ \A b \in Numbers : \A s \in Slots : EntryOK(f.dir[b][s], s)

\* The slots of a directory with the entry of a file or a directory
Real(d) == {s \in 3..NSlots : d[s].type \in {"Dir", "File"}}

\* The root is a directory by its number, its inode says nothing
IsDir(f, i)  == i = 0 \/ f.ino[i].mode = "Dir"
DirsIn(f, T) == {i \in T : IsDir(f, i)}
Home(f, i)   == f.ino[i].blk[1]
DirOf(f, i)  == f.dir[Home(f, i)]
BlksOf(f, i) == {f.ino[i].blk[k] : k \in 1..Len(f.ino[i].blk)}

\* The inodes that are found by a name
Shape(f, T) ==
  /\ 0 \in T /\ T \in SUBSET f.imap /\ f.ino[0].mode = "None"
  /\ \A i \in T : /\ i # 0 => f.ino[i].mode \in {"Dir", "File"}
                  /\ IsDir(f, i) => Len(f.ino[i].blk) = 1
                  /\ f.ino[i].mode = "File" => f.ino[i].nlinks = 1

\* Their blocks are marked, and each is one block of one of them
Apart(f, T) ==
  /\ \A i \in T : \A k \in 1..Len(f.ino[i].blk) : f.ino[i].blk[k] \in f.dmap
  /\ \A i, j \in T : \A k \in 1..Len(f.ino[i].blk), l \in 1..Len(f.ino[j].blk) :
       f.ino[i].blk[k] = f.ino[j].blk[l] => i = j /\ k = l

\* The entries of directory i
Holds(f, T, par, slot, i) ==
  LET d == DirOf(f, i)
  IN  /\ d[1] = Entry("Dir", ".", i) /\ d[2] = Entry("Dir", "..", par[i])
      /\ \A s \in Real(d) : /\ d[s].inode \in T \ {0} /\ d[s].type = f.ino[d[s].inode].mode
                            /\ par[d[s].inode] = i /\ slot[d[s].inode] = s

\* The entry of j is where par and slot say
Kept(f, T, par, slot, j) ==
  /\ par[j] \in DirsIn(f, T) /\ slot[j] \in Real(DirOf(f, par[j]))
  /\ DirOf(f, par[j])[slot[j]].inode = j

Filing(f, T, par, slot) ==
  /\ par \in [Numbers -> Numbers] /\ slot \in [Numbers -> Slots] /\ par[0] = 0
  /\ \A i \in DirsIn(f, T) : Holds(f, T, par, slot, i)
  /\ \A j \in T \ {0} : Kept(f, T, par, slot, j)

\* No entry is left in a block that is not a directory's
Leftover(f, T) ==
  \A b \in Numbers : (\A i \in DirsIn(f, T) : Home(f, i) # b) => Real(f.dir[b]) = {}

Sized(f, T) ==
  \A i \in DirsIn(f, T) : f.ino[i].size + Uncounted(i) = 2 + Cardinality(Real(DirOf(f, i)))

Counts(f) ==
  /\ NData - f.inos = Cardinality(f.imap)
  /\ NData - f.blks = Cardinality(f.dmap)

Good(f, T, par, slot) ==
  /\ Typed(f) /\ Shape(f, T) /\ Apart(f, T) /\ Filing(f, T, par, slot)
  /\ Leftover(f, T) /\ Sized(f, T) /\ Counts(f)

\* What holds until a directory was made in a block with a file's bytes
NoJunk(f, T) == \A i \in DirsIn(f, T) : \A s \in Slots : DirOf(f, i)[s].type # "Junk"

\* What holds until create() gave up: nothing is marked in vain
Whole(f, T) == T = f.imap /\ f.dmap = UNION {BlksOf(f, i) : i \in T}

Sound(T, par, slot) ==
  /\ Good(fs, T, par, slot)
  /\ NoneOf({"reused"}) => NoJunk(fs, T)
  /\ NoneOf({"full"}) => Whole(fs, T)

IInv == NoneOf(Upsetting) => \E T, par, slot : Sound(T, par, slot)

-----------------------------------------------------------------------------
(* The parts of the disk *)

\* What the parts of a disk are.
LEMMA Parts ==
  ASSUME NEW f, Typed(f)
  PROVE  /\ f.ino \in [Numbers -> Inodes] /\ f.dir \in [Numbers -> [Slots -> Entries]]
         /\ f.imap \in SUBSET Mapped /\ f.dmap \in SUBSET Mapped /\ f.blks \in Int /\ f.inos \in Int
         /\ \A i \in Numbers : /\ f.ino[i].blk \in Seq(Numbers) /\ Len(f.ino[i].blk) \in Nat \ {0}
                               /\ f.ino[i].blk[1] \in Numbers
<1>1. f \in Disks /\ \A i \in Numbers : Len(f.ino[i].blk) >= 1 BY DEF Typed
<1>2. f.ino \in [Numbers -> Inodes] BY <1>1 DEF Disks
<1>3. ASSUME NEW i \in Numbers
      PROVE  /\ f.ino[i].blk \in Seq(Numbers) /\ Len(f.ino[i].blk) \in Nat \ {0}
             /\ f.ino[i].blk[1] \in Numbers
  <2>1. f.ino[i].blk \in Seq(Numbers) BY <1>2 DEF Inodes
  <2>2. Len(f.ino[i].blk) \in Nat \ {0} BY <2>1, <1>1
  <2> QED BY <2>1, <2>2
<1> QED BY <1>1, <1>2, <1>3 DEF Disks

\* The numbers of the bitmaps are finitely many.
LEMMA MappedFinite ==
  /\ Mapped \subseteq Numbers /\ IsFiniteSet(Mapped) /\ Numbers \subseteq Nat /\ 0 \in Mapped
  /\ \A S \in SUBSET Mapped : IsFiniteSet(S) /\ Cardinality(S) \in Nat
<1>1. MapSize \in Nat \ {0} BY DiskAssumption
<1>2. IsFiniteSet(0..(MapSize - 1)) BY <1>1, FS_Interval
<1>3. \A S \in SUBSET Mapped : IsFiniteSet(S) BY <1>2, FS_Subset DEF Mapped
<1> QED BY <1>1, <1>2, <1>3, FS_CardinalityType DEF Mapped, Numbers

\* The slots with entries are finitely many.
LEMMA RealFinite ==
  ASSUME NEW d
  PROVE  IsFiniteSet(Real(d)) /\ Cardinality(Real(d)) \in Nat /\ Real(d) \subseteq Slots
<1>1. IsFiniteSet(3..NSlots) BY FS_Interval, DiskAssumption
<1>2. Real(d) \in SUBSET (3..NSlots) BY DEF Real
<1>3. IsFiniteSet(Real(d)) BY <1>1, <1>2, FS_Subset
<1> QED BY <1>2, <1>3, FS_CardinalityType, DiskAssumption DEF Slots

\* What is known of a directory that is found by a name.
LEMMA DirFacts ==
  ASSUME NEW f, NEW T, NEW par, NEW slot, Good(f, T, par, slot), NEW i \in DirsIn(f, T)
  PROVE  /\ i \in T /\ T \subseteq Numbers /\ IsDir(f, i)
         /\ Len(f.ino[i].blk) = 1 /\ Home(f, i) \in f.dmap /\ Home(f, i) \in Numbers
         /\ DirOf(f, i) \in [Slots -> Entries]
         /\ Holds(f, T, par, slot, i)
         /\ BlksOf(f, i) = {Home(f, i)}
<1>1. Typed(f) /\ Shape(f, T) /\ Apart(f, T) /\ Filing(f, T, par, slot) BY DEF Good
<1>2. i \in T /\ IsDir(f, i) /\ T \subseteq Numbers
  BY <1>1, Parts, MappedFinite DEF DirsIn, Shape
<1>3. Len(f.ino[i].blk) = 1 BY <1>1, <1>2 DEF Shape
<1>4. Home(f, i) \in f.dmap /\ Home(f, i) \in Numbers
  BY <1>1, <1>2, <1>3, Parts DEF Home, Apart
<1>5. DirOf(f, i) \in [Slots -> Entries] BY <1>1, <1>4, Parts DEF DirOf
<1>6. Holds(f, T, par, slot, i) BY <1>1 DEF Filing
<1>7. BlksOf(f, i) = {Home(f, i)} BY <1>3 DEF BlksOf, Home
<1> QED BY <1>2, <1>3, <1>4, <1>5, <1>6, <1>7

\* No two directories have a block in common, nor a directory and a file.
LEMMA HomesApart ==
  ASSUME NEW f, NEW T, NEW par, NEW slot, Good(f, T, par, slot),
         NEW i \in DirsIn(f, T), NEW j \in T
  PROVE  /\ Home(f, i) = Home(f, j) => i = j
         /\ Home(f, i) \in BlksOf(f, j) => i = j
<1>1. Apart(f, T) /\ Typed(f) BY DEF Good
<1>2. i \in T /\ Len(f.ino[i].blk) = 1 /\ T \subseteq Numbers BY DirFacts
<1>3. 1 \in 1..Len(f.ino[j].blk) BY <1>1, <1>2, Parts
<1>4. Home(f, i) \in BlksOf(f, j) => i = j
  <2> SUFFICES ASSUME NEW k \in 1..Len(f.ino[j].blk), f.ino[i].blk[1] = f.ino[j].blk[k] PROVE i = j
    BY DEF Home, BlksOf
  <2>1. 1 \in 1..Len(f.ino[i].blk) BY <1>2
  <2> QED BY <2>1, <1>1, <1>2 DEF Apart
<1>5. Home(f, j) \in BlksOf(f, j) BY <1>3 DEF Home, BlksOf
<1> QED BY <1>4, <1>5

-----------------------------------------------------------------------------
(* Steps that leave the tree as it is *)

\* The directories, and what has blocks, are the same on g as on f; more may be marked
SameTree(f, g, T) ==
  /\ Typed(g) /\ Counts(g) /\ f.imap \subseteq g.imap /\ f.dmap \subseteq g.dmap
  /\ \A i \in T : /\ g.ino[i].mode = f.ino[i].mode /\ g.ino[i].blk = f.ino[i].blk
                  /\ g.ino[i].nlinks = f.ino[i].nlinks
                  /\ IsDir(f, i) => g.ino[i].size = f.ino[i].size
  /\ \A b \in Numbers : \/ Real(g.dir[b]) = {} /\ \A i \in DirsIn(f, T) : Home(f, i) # b
                        \/ g.dir[b] = f.dir[b]

\* Such a step keeps the invariant, with the same inodes and entries.
LEMMA SameTreeGood ==
  ASSUME NEW f, NEW g, NEW T, NEW par, NEW slot, Good(f, T, par, slot), SameTree(f, g, T)
  PROVE  /\ Good(g, T, par, slot)
         /\ NoJunk(f, T) => NoJunk(g, T)
         /\ Whole(f, T) /\ g.imap = f.imap /\ g.dmap = f.dmap => Whole(g, T)
<1>1. /\ Typed(f) /\ Shape(f, T) /\ Apart(f, T) /\ Filing(f, T, par, slot)
      /\ Leftover(f, T) /\ Sized(f, T) BY DEF Good
<1>2. T \subseteq Numbers BY <1>1, Parts, MappedFinite DEF Shape
<1>3. DirsIn(g, T) = DirsIn(f, T) BY DEF DirsIn, IsDir, SameTree
<1>4. \A i \in T : Home(g, i) = Home(f, i) /\ BlksOf(g, i) = BlksOf(f, i)
  BY DEF SameTree, Home, BlksOf
<1>5. \A i \in DirsIn(f, T) : DirOf(g, i) = DirOf(f, i)
  <2> SUFFICES ASSUME NEW i \in DirsIn(f, T) PROVE DirOf(g, i) = DirOf(f, i) OBVIOUS
  <2>1. Home(f, i) \in Numbers /\ Home(g, i) = Home(f, i) BY <1>4, DirFacts
  <2> QED BY <2>1 DEF SameTree, DirOf
<1>6. Shape(g, T) BY <1>1 DEF Shape, SameTree, IsDir
<1>7. Apart(g, T)
  <2>1. \A i \in T : g.ino[i].blk = f.ino[i].blk BY DEF SameTree
  <2>2. f.dmap \subseteq g.dmap BY DEF SameTree
  <2>3. ASSUME NEW i \in T, NEW k \in 1..Len(g.ino[i].blk) PROVE g.ino[i].blk[k] \in g.dmap
    <3>1. k \in 1..Len(f.ino[i].blk) /\ g.ino[i].blk[k] = f.ino[i].blk[k] BY <2>1
    <3>2. f.ino[i].blk[k] \in f.dmap BY <3>1, <1>1 DEF Apart
    <3> QED BY <2>2, <3>1, <3>2
  <2>4. ASSUME NEW i \in T, NEW j \in T, NEW k \in 1..Len(g.ino[i].blk), NEW l \in 1..Len(g.ino[j].blk),
               g.ino[i].blk[k] = g.ino[j].blk[l]
        PROVE  i = j /\ k = l
    <3>1. g.ino[i].blk = f.ino[i].blk /\ g.ino[j].blk = f.ino[j].blk BY <2>1
    <3>2. /\ k \in 1..Len(f.ino[i].blk) /\ l \in 1..Len(f.ino[j].blk)
          /\ f.ino[i].blk[k] = f.ino[j].blk[l]
      BY <2>4, <3>1
    <3> QED BY <3>2, <1>1 DEF Apart
  <2> QED BY <2>3, <2>4 DEF Apart
<1>8. Filing(g, T, par, slot)
  <2>1. ASSUME NEW i \in DirsIn(f, T) PROVE Holds(g, T, par, slot, i)
    <3>1. Holds(f, T, par, slot, i) BY DirFacts
    <3>2. \A s \in Real(DirOf(f, i)) : g.ino[DirOf(f, i)[s].inode].mode = f.ino[DirOf(f, i)[s].inode].mode
      BY <3>1 DEF Holds, SameTree
    <3> QED BY <3>1, <3>2, <1>5 DEF Holds
  <2>2. ASSUME NEW j \in T \ {0} PROVE Kept(g, T, par, slot, j)
    <3>1. Kept(f, T, par, slot, j) BY <1>1 DEF Filing
    <3> QED BY <3>1, <1>3, <1>5 DEF Kept
  <2> QED BY <1>1, <1>3, <2>1, <2>2 DEF Filing
<1>9. Leftover(g, T)
  <2> SUFFICES ASSUME NEW b \in Numbers, \A i \in DirsIn(f, T) : Home(f, i) # b
               PROVE Real(g.dir[b]) = {}
    BY <1>3, <1>4 DEF Leftover, DirsIn
  <2> QED BY <1>1 DEF Leftover, SameTree
<1>10. Sized(g, T)
  <2> SUFFICES ASSUME NEW i \in DirsIn(f, T)
               PROVE g.ino[i].size + Uncounted(i) = 2 + Cardinality(Real(DirOf(g, i)))
    BY <1>3 DEF Sized
  <2>1. g.ino[i].size = f.ino[i].size BY DEF SameTree, DirsIn
  <2> QED BY <1>1, <1>5, <2>1 DEF Sized
<1>11. Good(g, T, par, slot) BY <1>6, <1>7, <1>8, <1>9, <1>10 DEF Good, SameTree
<1>12. NoJunk(f, T) => NoJunk(g, T) BY <1>3, <1>5 DEF NoJunk
<1>13. Whole(f, T) /\ g.imap = f.imap /\ g.dmap = f.dmap => Whole(g, T)
  BY <1>4 DEF Whole
<1> QED BY <1>11, <1>12, <1>13

\* Inodes and directories are as they were, more is marked: create() gives up.
LEMMA TakenGood ==
  ASSUME NEW f, NEW T, NEW par, NEW slot, Good(f, T, par, slot), NEW blks \in SUBSET Mapped,
         Search(f.imap) # MapSize, blks \cap f.dmap = {}
  PROVE  LET g == Taken(f, blks)
         IN  /\ Good(g, T, par, slot) /\ (NoJunk(f, T) => NoJunk(g, T))
             /\ g.ino = f.ino /\ g.dir = f.dir
             /\ g.imap = f.imap \cup {Search(f.imap)} /\ g.dmap = f.dmap \cup blks
             /\ Search(f.imap) \in Mapped \ f.imap
<1> DEFINE i == Search(f.imap)
           g == Taken(f, blks)
<1>1. /\ Typed(f) /\ Counts(f) /\ f \in Disks BY DEF Good, Typed
<1>2. f.imap \in SUBSET Mapped /\ f.dmap \in SUBSET Mapped /\ f.blks \in Int /\ f.inos \in Int
  BY <1>1, Parts
<1>3. i \in Mapped \ f.imap
  <2>1. ~ Mapped \subseteq f.imap /\ i = Least(Mapped \ f.imap) BY DEF Search
  <2>2. Mapped \ f.imap \in SUBSET Nat BY MappedFinite
  <2> DEFINE S == Mapped \ f.imap
  <2>3. S \in SUBSET Nat /\ S # {} BY <2>1, <2>2
  <2> HIDE DEF S
  <2>4. \E m \in S : \A k \in S : m <= k BY <2>3, LeastNat
  <2>5. Least(S) \in S BY <2>4 DEF Least
  <2> QED BY <2>1, <2>5 DEF S
<1>4. /\ g.ino = f.ino /\ g.dir = f.dir /\ g.imap = f.imap \cup {i} /\ g.dmap = f.dmap \cup blks
      /\ g.blks = f.blks - Cardinality(blks) /\ g.inos = f.inos - 1
      /\ g \in Disks
  <2>0. /\ DOMAIN f = {"ino", "dir", "imap", "dmap", "blks", "inos"}
        /\ f.ino \in [Numbers -> Inodes] /\ f.dir \in [Numbers -> [Slots -> Entries]]
    BY <1>1 DEF Disks
  <2>1. {i} \cap Mapped = {i} /\ blks \cap Mapped = blks BY <1>3
  <2>2. Cardinality(blks) \in Int BY MappedFinite
  <2>3. g = [f EXCEPT !.imap = @ \cup {i}, !.dmap = @ \cup blks,
                      !.blks = @ - Cardinality(blks), !.inos = @ - 1]
    BY <2>1 DEF Taken
  <2> HIDE DEF i, g
  <2>4. /\ g.ino = f.ino /\ g.dir = f.dir /\ g.imap = f.imap \cup {i} /\ g.dmap = f.dmap \cup blks
        /\ g.blks = f.blks - Cardinality(blks) /\ g.inos = f.inos - 1
        /\ g = [ino |-> g.ino, dir |-> g.dir, imap |-> g.imap, dmap |-> g.dmap,
                blks |-> g.blks, inos |-> g.inos]
    BY <2>0, <2>3, <1>1 DEF Disks
  <2>5. f.imap \cup {i} \in SUBSET Mapped /\ f.dmap \cup blks \in SUBSET Mapped
    BY <1>2, <1>3
  <2>6. f.blks - Cardinality(blks) \in Int /\ f.inos - 1 \in Int BY <1>2, <2>2
  <2> QED BY <2>0, <2>4, <2>5, <2>6 DEF Disks
<1> HIDE DEF g, i
<1>5. Counts(g)
  <2>1. /\ IsFiniteSet(f.imap) /\ IsFiniteSet(f.dmap) /\ IsFiniteSet(blks)
        /\ Cardinality(f.imap) \in Nat /\ Cardinality(f.dmap) \in Nat /\ Cardinality(blks) \in Nat
    BY <1>2, MappedFinite
  <2>2. Cardinality(f.imap \cup {i}) = Cardinality(f.imap) + 1 BY <2>1, <1>3, FS_AddElement
  <2>3. Cardinality(f.dmap \cap blks) = 0
    <3>1. f.dmap \cap blks = {} OBVIOUS
    <3> QED BY <3>1, FS_EmptySet
  <2>4. Cardinality(f.dmap \cup blks) = Cardinality(f.dmap) + Cardinality(blks)
    <3>1. Cardinality(f.dmap \cup blks)
            = Cardinality(f.dmap) + Cardinality(blks) - Cardinality(f.dmap \cap blks)
      BY <2>1, FS_Union
    <3> QED BY <2>1, <2>3, <3>1
  <2>5. NData \in Int BY DiskAssumption
  <2> QED BY <1>1, <1>2, <1>4, <2>1, <2>2, <2>4, <2>5 DEF Counts
<1>6. Typed(g) BY <1>1, <1>4 DEF Typed
<1>7. SameTree(f, g, T) BY <1>4, <1>5, <1>6 DEF SameTree
<1>8. Good(g, T, par, slot) /\ (NoJunk(f, T) => NoJunk(g, T)) BY <1>7, SameTreeGood
<1> QED BY <1>3, <1>4, <1>8 DEF g, i

-----------------------------------------------------------------------------
(* Where a path leads *)

\* The least of some numbers is one of them.
LEMMA LeastIn ==
  ASSUME NEW S \in SUBSET Nat, S # {}
  PROVE  Least(S) \in S /\ \A k \in S : Least(S) <= k
<1>1. \E m \in S : \A k \in S : m <= k BY LeastNat
<1> QED BY <1>1 DEF Least

\* What walk() returns for a file or a directory that is found
Found(f, T, par, w) ==
  /\ w.index \in T /\ w.node = f.ino[w.index]
  /\ w.d = DirOf(f, IF IsDir(f, w.index) THEN w.index ELSE par[w.index])

\* What walk() returns after n names
After(f, T, par, w, n) ==
  w.index # Nowhere =>
    /\ Found(f, T, par, w)
    /\ n > 0 => w.index # 0
    /\ n = 1 => par[w.index] = 0

\* An entry of a file or a directory, where it is found by its name.
LEMMA NamedEntry ==
  ASSUME NEW f, NEW T, NEW par, NEW slot, Good(f, T, par, slot), NEW i \in DirsIn(f, T),
         NEW n \in Names \cup {Swap}, Named(DirOf(f, i), n) # {}
  PROVE  LET s == Least(Named(DirOf(f, i), n))
             j == DirOf(f, i)[s].inode
         IN  /\ s \in Real(DirOf(f, i)) /\ j \in T \ {0} /\ par[j] = i
             /\ DirOf(f, i)[s].type = f.ino[j].mode
<1> DEFINE d == DirOf(f, i)
           s == Least(Named(d, n))
<1>1. /\ Home(f, i) \in Numbers /\ d \in [Slots -> Entries] /\ Holds(f, T, par, slot, i)
  BY DirFacts
<1>2. s \in Named(d, n)
  <2>1. Named(d, n) \in SUBSET Nat BY DiskAssumption DEF Named, Used, Slots
  <2> QED BY <2>1, LeastIn
<1>3. s \in Slots /\ d[s].type # "None" /\ d[s].name = n BY <1>2 DEF Named, Used
<1>4. n \notin {".", "..", NoName} BY DiskAssumption
<1>5. EntryOK(d[s], s) BY <1>1, <1>3 DEF Good, Typed, DirOf
<1>6. d[s].type \in {"Dir", "File"}
  <2>1. d[s].type # "Junk" BY <1>3, <1>4, <1>5 DEF EntryOK, Junk, Entry
  <2> QED BY <2>1, <1>3, <1>5 DEF EntryOK, Entries
<1>7. s > 2 BY <1>3, <1>4, <1>5, <1>6, DiskAssumption DEF EntryOK, Slots
<1>8. s \in Real(d) BY <1>3, <1>6, <1>7, DiskAssumption DEF Real, Slots
<1> QED BY <1>1, <1>8 DEF Holds

\* One more name of a path.
LEMMA EnteredAfter ==
  ASSUME NEW f, NEW T, NEW par, NEW slot, Good(f, T, par, slot),
         NEW w, NEW n \in Nat, After(f, T, par, w, n), n = 0 => w.index = 0,
         NEW name \in Names \cup {Swap}, w = [index |-> w.index, node |-> w.node, through |-> w.through, d |-> w.d]
  PROVE  After(f, T, par, Entered(f, w, name), n + 1)
<1> DEFINE e == Entered(f, w, name)
<1>0. e.index # Nowhere => w.index # Nowhere
  BY DEF Entered
<1>1. CASE w.index = Nowhere BY <1>1, <1>0 DEF After
<1>2. CASE w.index # Nowhere /\ w.node.mode = "File"
  <2>1. e.index = Nowhere BY <1>2 DEF Entered
  <2> QED BY <2>1 DEF After
<1>3. CASE w.index # Nowhere /\ w.node.mode # "File" /\ Named(w.d, name) = {}
  <2>1. e.index = Nowhere BY <1>3 DEF Entered
  <2> QED BY <2>1 DEF After
<1>4. CASE w.index # Nowhere /\ w.node.mode # "File" /\ Named(w.d, name) # {}
  <2> DEFINE i == w.d[Least(Named(w.d, name))].inode
  <2>1. Found(f, T, par, w) BY <1>4 DEF After
  <2>2. w.index \in DirsIn(f, T) /\ w.d = DirOf(f, w.index)
    BY <2>1, <1>4 DEF Found, DirsIn, IsDir, Good, Shape
  <2>3. i \in T \ {0} /\ par[i] = w.index BY <2>2, <1>4, NamedEntry
  <2>4. e = [index |-> i, node |-> f.ino[i], through |-> FALSE,
             d |-> IF f.ino[i].mode = "Dir" THEN f.dir[f.ino[i].blk[1]] ELSE w.d]
    BY <1>4 DEF Entered
  <2> HIDE DEF i, e
  <2>5. e.index = i /\ e.node = f.ino[i]
        /\ e.d = DirOf(f, IF IsDir(f, i) THEN i ELSE par[i])
    BY <2>2, <2>3, <2>4 DEF DirOf, Home, IsDir
  <2>6. Found(f, T, par, e) BY <2>3, <2>5 DEF Found
  <2>7. n + 1 = 1 => par[i] = 0 BY <2>3
  <2> QED BY <2>3, <2>5, <2>6, <2>7 DEF After, e
<1> QED BY <1>1, <1>2, <1>3, <1>4

\* The recursion of WalkIn
Follows(f, path, a, n) ==
  a = [k \in 0..n |-> IF k = 0 THEN Root(f) ELSE Entered(f, a[k - 1], path[k])]

\* It defines a function.
LEMMA WalkExists ==
  ASSUME NEW f, NEW path, NEW len \in Nat
  PROVE  \E a : Follows(f, path, a, len)
<1> DEFINE T == {n \in Nat : ~ \E a : Follows(f, path, a, n)}
<1> SUFFICES ASSUME T # {} PROVE FALSE OBVIOUS
<1>1. PICK m \in T : \A k \in T : m <= k
  <2> HIDE DEF T
  <2>1. T \in SUBSET Nat BY DEF T
  <2> QED BY <2>1, LeastNat
<1>2. m # 0
  <2>1. Follows(f, path, [k \in 0..0 |-> Root(f)], 0) BY DEF Follows
  <2> QED BY <2>1
<1>3. m \in Nat \ {0} /\ m - 1 \in Nat /\ m - 1 \notin T BY <1>1, <1>2
<1>4. PICK g : Follows(f, path, g, m - 1) BY <1>3
<1> DEFINE h == [k \in 0..m |-> IF k = m THEN Entered(f, g[m - 1], path[m]) ELSE g[k]]
           r == [k \in 0..m |-> IF k = 0 THEN Root(f) ELSE Entered(f, h[k - 1], path[k])]
<1>5. ASSUME NEW i \in 0..m PROVE h[i] = r[i]
  <2>1. CASE i = m
    <3>1. m - 1 \in 0..m /\ m - 1 # m BY <1>3
    <3>2. h[m - 1] = g[m - 1] BY <3>1
    <3> QED BY <2>1, <3>2, <1>3
  <2>2. CASE i # m
    <3>1. i \in 0..(m - 1) /\ h[i] = g[i] BY <2>2, <1>3
    <3>2. g[i] = IF i = 0 THEN Root(f) ELSE Entered(f, g[i - 1], path[i])
      BY <3>1, <1>4 DEF Follows
    <3>3. i # 0 => h[i - 1] = g[i - 1] BY <3>1, <1>3
    <3> QED BY <3>1, <3>2, <3>3
  <2> QED BY <2>1, <2>2
<1>6. Follows(f, path, h, m) BY <1>5 DEF Follows
<1> QED BY <1>6, <1>1

\* walk() returns a record
IsRecord(w) == w = [index |-> w.index, node |-> w.node, through |-> w.through, d |-> w.d]

\* A path leads nowhere, or to a file or directory in the tree: to the root
\* exactly when it is empty, and with one name to what is in the root.
LEMMA WalkAfter ==
  ASSUME NEW f, NEW T, NEW par, NEW slot, Good(f, T, par, slot), NEW path \in Seq(Names \cup {Swap})
  PROVE  /\ After(f, T, par, WalkIn(f, path), Len(path))
         /\ path = <<>> => WalkIn(f, path) = Root(f) /\ WalkIn(f, path).index = 0
<1> DEFINE len == Len(path)
           a == CHOOSE g : Follows(f, path, g, len)
<1>0. len \in Nat /\ \A k \in 1..len : path[k] \in Names \cup {Swap} OBVIOUS
<1>1. Follows(f, path, a, len) BY <1>0, WalkExists
<1>2. WalkIn(f, path) = a[len] BY DEF WalkIn, Follows
<1> HIDE DEF a, len
<1>3. /\ a[0] = Root(f)
      /\ \A k \in 1..len : a[k] = Entered(f, a[k - 1], path[k])
  BY <1>0, <1>1 DEF Follows
<1> DEFINE P(k) == After(f, T, par, a[k], k) /\ IsRecord(a[k])
<1>4. P(0) /\ a[0].index = 0
  <2>1. /\ Root(f).index = 0 /\ Root(f).node = f.ino[0] /\ Root(f).d = DirOf(f, 0)
    BY DEF Root, DirOf, Home
  <2>2. 0 \in T /\ IsDir(f, 0) BY DEF Good, Shape, IsDir
  <2>3. Found(f, T, par, Root(f)) BY <2>1, <2>2 DEF Found
  <2>4. IsRecord(Root(f)) BY DEF IsRecord, Root
  <2> QED BY <1>3, <2>1, <2>3, <2>4 DEF After
<1>5. ASSUME NEW k \in 1..len, P(k - 1) PROVE P(k)
  <2>1. k - 1 \in Nat /\ (k - 1) + 1 = k /\ path[k] \in Names \cup {Swap} BY <1>0
  <2>2. k - 1 = 0 => a[k - 1].index = 0 BY <1>4
  <2> DEFINE b == a[k - 1]
             m == k - 1
             nm == path[k]
  <2>3. b = [index |-> b.index, node |-> b.node, through |-> b.through, d |-> b.d] BY <1>5 DEF IsRecord
  <2>4. After(f, T, par, b, m) BY <1>5
  <2>5. m \in Nat /\ m + 1 = k /\ nm \in Names \cup {Swap} /\ (m = 0 => b.index = 0) /\ a[k] = Entered(f, b, nm)
    BY <2>1, <2>2, <1>3
  <2> HIDE DEF b, m, nm
  <2>6. After(f, T, par, Entered(f, b, nm), m + 1) BY <2>3, <2>4, <2>5, EnteredAfter
  <2>7. IsRecord(Entered(f, b, nm)) BY <2>3 DEF IsRecord, Entered
  <2> QED BY <2>5, <2>6, <2>7
<1>6. \A k \in 0..len : P(k)
  <2> DEFINE S == {k \in 0..len : ~ P(k)}
  <2> HIDE DEF P
  <2> SUFFICES ASSUME S # {} PROVE FALSE OBVIOUS
  <2>1. PICK k \in S : \A i \in S : k <= i
    <3> HIDE DEF S
    <3>1. S \in SUBSET Nat BY <1>0 DEF S
    <3> QED BY <3>1, LeastNat
  <2>2. k # 0 BY <2>1, <1>4 DEF S
  <2>3. k \in 1..len /\ k - 1 \in 0..len /\ k - 1 \notin S BY <2>1, <2>2, <1>0
  <2>4. P(k - 1) BY <2>3
  <2> QED BY <2>1, <2>3, <2>4, <1>5
<1>7. P(len) BY <1>0, <1>6
<1>8. path = <<>> => len = 0 BY DEF len
<1> QED BY <1>2, <1>3, <1>4, <1>7, <1>8 DEF len

\* The paths the operations are given
LEMMA PathIs ==
  ASSUME NEW path \in Paths
  PROVE  path \in Seq(Names \cup {Swap})
<1>1. PICK n \in 0..MaxDepth : path \in [1..n -> Names \cup {Swap}] BY DEF Paths
<1>2. n \in Nat BY DiskAssumption
<1> QED BY <1>1, <1>2

-----------------------------------------------------------------------------
(* A new file or directory *)

\* What its user may not write is as it was
Spared(f, g, T, U) ==
  \A i \in T : (f.ino[i].mode = "File" /\ "w" \notin f.ino[i].acl) =>
    /\ i \in U /\ g.ino[i].acl = f.ino[i].acl /\ g.ino[i].blk = f.ino[i].blk
    /\ \A b \in BlksOf(f, i) : g.dir[b] = f.dir[b]

\* The new inode i: its number is marked, its blocks are, and nothing else has them
Fresh(f, T, i, node) ==
  /\ i \in f.imap \ T /\ node \in Inodes /\ node.mode \in {"Dir", "File"} /\ Len(node.blk) >= 1
  /\ node.mode = "Dir" => Len(node.blk) = 1 /\ node.size = 2
  /\ node.mode = "File" => node.nlinks = 1
  /\ \A k \in 1..Len(node.blk) : node.blk[k] \in f.dmap /\ \A j \in T : node.blk[k] \notin BlksOf(f, j)
  /\ \A k, l \in 1..Len(node.blk) : node.blk[k] = node.blk[l] => k = l

\* g is f with inode i and its entry, in slot s of directory p
IsLinked(f, g, p, s, i, node, name) ==
  /\ g \in Disks
  /\ g.imap = f.imap /\ g.dmap = f.dmap /\ g.blks = f.blks /\ g.inos = f.inos
  /\ g.ino[i] = node
  /\ g.ino[p] = [f.ino[p] EXCEPT !.size = @ + 1]
  /\ \A j \in Numbers \ {i, p} : g.ino[j] = f.ino[j]
  /\ g.dir[Home(f, p)] = [DirOf(f, p) EXCEPT ![s] = Entry(node.mode, name, i)]
  /\ node.mode = "Dir" => g.dir[node.blk[1]] = DirSlots(f.dir[node.blk[1]], i, p)
  /\ \A b \in Numbers \ {Home(f, p)} :
       (node.mode = "Dir" /\ b = node.blk[1]) \/ g.dir[b] = f.dir[b]

\* A free slot of a directory, and the directory with one more entry.
LEMMA FreeSlot ==
  ASSUME NEW f, NEW T, NEW par, NEW slot, Good(f, T, par, slot), NEW p \in DirsIn(f, T),
         Free(DirOf(f, p)) # {}
  PROVE  LET s == Least(Free(DirOf(f, p)))
         IN  /\ s \in 3..NSlots /\ s \notin Real(DirOf(f, p)) /\ DirOf(f, p)[s].type = "None"
             /\ f.ino[p].size + 1 <= NSlots
<1> DEFINE d == DirOf(f, p)
           s == Least(Free(d))
<1>1. Holds(f, T, par, slot, p) /\ d \in [Slots -> Entries] BY DirFacts
<1>2. s \in Free(d)
  <2>1. Free(d) \in SUBSET Nat BY DiskAssumption DEF Free, Slots
  <2> QED BY <2>1, LeastIn
<1> HIDE DEF s
<1>3. s \in Slots /\ d[s].type = "None" BY <1>2 DEF Free
<1>4. d[1].type = "Dir" /\ d[2].type = "Dir" BY <1>1 DEF Holds, Entry
<1> HIDE DEF d
<1>5. s \in 3..NSlots BY <1>3, <1>4, DiskAssumption DEF Slots
<1>6. s \notin Real(d) BY <1>3 DEF Real
<1>7. Cardinality(Real(d)) < NSlots - 2
  <2>1. IsFiniteSet(3..NSlots) /\ Cardinality(3..NSlots) = NSlots - 2 BY FS_Interval, DiskAssumption
  <2>2. Real(d) \in SUBSET (3..NSlots) BY DEF Real
  <2>3. /\ Cardinality(Real(d)) <= Cardinality(3..NSlots)
        /\ Cardinality(3..NSlots) = Cardinality(Real(d)) => 3..NSlots = Real(d)
    BY <2>1, <2>2, FS_Subset
  <2>4. Cardinality(Real(d)) # NSlots - 2 BY <2>1, <2>3, <1>5, <1>6
  <2>5. Cardinality(Real(d)) \in Nat BY RealFinite
  <2> QED BY <2>1, <2>3, <2>4, <2>5, DiskAssumption
<1>8. f.ino[p].size + Uncounted(p) = 2 + Cardinality(Real(d)) BY DEF Good, Sized, d
<1>9. Cardinality(Real(d)) \in Nat BY RealFinite
<1>10. f.ino[p].size \in Nat BY DirFacts, Parts DEF Good, Inodes
<1>11. Uncounted(p) \in Nat BY DEF Uncounted
<1>12. f.ino[p].size + 1 <= NSlots BY <1>7, <1>8, <1>9, <1>10, <1>11, DiskAssumption
<1> QED BY <1>3, <1>5, <1>6, <1>12 DEF s, d

\* What create() writes for the new file or directory.
LEMMA LinkedIs ==
  ASSUME NEW f, NEW T, NEW par, NEW slot, Good(f, T, par, slot),
         NEW w, w.index \in DirsIn(f, T), w.node = f.ino[w.index], w.d = DirOf(f, w.index),
         Free(w.d) # {}, NEW i, NEW node, Fresh(f, T, i, node), NEW name \in Names \cup {Swap}
  PROVE  IsLinked(f, Linked(Prepared(f, w, i, node), w, name, i, node),
                  w.index, Least(Free(w.d)), i, node, name)
<1> DEFINE p == w.index
           s == Least(Free(w.d))
           b == node.blk[1]
           h == Home(f, p)
           k == Prepared(f, w, i, node)
           g == Linked(k, w, name, i, node)
           top == [f.ino[p] EXCEPT !.size = @ + 1]
           e == [DirOf(f, p) EXCEPT ![s] = Entry(node.mode, name, i)]
<1>1. /\ Typed(f) /\ f \in Disks /\ f.ino \in [Numbers -> Inodes] /\ f.dir \in [Numbers -> [Slots -> Entries]]
      /\ DOMAIN f = {"ino", "dir", "imap", "dmap", "blks", "inos"} /\ f.imap \in SUBSET Mapped
  BY DEF Good, Typed, Disks
<1>2. p \in T /\ T \subseteq Numbers /\ h \in Numbers /\ DirOf(f, p) \in [Slots -> Entries] BY DirFacts
<1>3. i \in Numbers /\ i # p /\ node \in Inodes /\ node.mode \in {"Dir", "File"}
  BY <1>1, <1>2, MappedFinite DEF Fresh
<1>4. b \in Numbers /\ b # h
  <2>1. node.blk \in Seq(Numbers) /\ 1 \in 1..Len(node.blk) BY <1>3 DEF Inodes, Fresh
  <2>2. b \in Numbers /\ b \notin BlksOf(f, p) BY <2>1, <1>2 DEF Fresh
  <2>3. h \in BlksOf(f, p) BY <1>2, DirFacts
  <2> QED BY <2>2, <2>3
<1>5. s \in Slots /\ s \in 3..NSlots /\ f.ino[p].size + 1 <= NSlots
  <2>1. s \in 3..NSlots /\ f.ino[p].size + 1 <= NSlots BY FreeSlot
  <2> QED BY <2>1, DiskAssumption DEF Slots
<1>6. (f.ino[p].size + 1) % Word = f.ino[p].size + 1
  <2>1. f.ino[p].size \in Nat BY <1>1, <1>2 DEF Inodes
  <2>2. f.ino[p].size + 1 \in 0..(Word - 1) BY <2>1, <1>5, DiskAssumption
  <2> QED BY <2>2, DiskAssumption
<1>7. [w.node EXCEPT !.size = (@ + 1) % Word] = top BY <1>6
<1>8. top \in Inodes
  <2>1. f.ino[p] \in Inodes /\ f.ino[p].size + 1 \in Nat BY <1>1, <1>2 DEF Inodes
  <2> QED BY <2>1 DEF Inodes
<1>9. e \in [Slots -> Entries]
  <2>1. i \in Int /\ name \in AllNames BY <1>3, MappedFinite DEF AllNames
  <2>2. Entry(node.mode, name, i) \in Entries BY <1>3, <2>1 DEF Entry, Entries
  <2> QED BY <2>2, <1>2
<1>10. DirSlots(f.dir[b], i, p) \in [Slots -> Entries]
  <2>1. i \in Int /\ p \in Int
    <3>1. Numbers \subseteq Int BY DEF Numbers
    <3>2. p \in Numbers BY <1>2
    <3> QED BY <1>3, <3>1, <3>2
  <2>2. Entry("Dir", ".", i) \in Entries /\ Entry("Dir", "..", p) \in Entries
    BY <2>1 DEF Entry, Entries, AllNames
  <2> QED BY <2>2, <1>1, <1>4 DEF DirSlots
<1>11. /\ k.ino = f.ino /\ k.imap = f.imap /\ k.dmap = f.dmap /\ k.blks = f.blks /\ k.inos = f.inos
       /\ k.dir = IF node.mode = "Dir" THEN [f.dir EXCEPT ![b] = DirSlots(f.dir[b], i, p)] ELSE f.dir
       /\ DOMAIN k = {"ino", "dir", "imap", "dmap", "blks", "inos"}
       /\ k = [ino |-> k.ino, dir |-> k.dir, imap |-> k.imap, dmap |-> k.dmap, blks |-> k.blks, inos |-> k.inos]
  BY <1>1 DEF Prepared, Disks
<1>12. k.dir \in [Numbers -> [Slots -> Entries]] BY <1>1, <1>4, <1>10, <1>11
<1>13. w.index # Nowhere BY <1>2, MappedFinite DEF Nowhere
<1> DEFINE ino == [[f.ino EXCEPT ![p] = top] EXCEPT ![i] = node]
           dir == [k.dir EXCEPT ![h] = e]
<1>14. g = [k EXCEPT !.ino = ino, !.dir[h] = e]
  BY <1>7, <1>11, <1>13 DEF Linked, Home
<1> HIDE DEF k, e, top
<1>15. ino \in [Numbers -> Inodes] /\ dir \in [Numbers -> [Slots -> Entries]]
  BY <1>1, <1>2, <1>3, <1>8, <1>9, <1>12
<1>16. /\ ino[i] = node /\ ino[p] = top /\ \A j \in Numbers \ {i, p} : ino[j] = f.ino[j]
       /\ dir[h] = e /\ \A c \in Numbers \ {h} : dir[c] = k.dir[c]
  BY <1>1, <1>2, <1>3, <1>12
<1> HIDE DEF ino
<1>17. /\ g.ino = ino /\ g.dir = dir /\ g.imap = f.imap /\ g.dmap = f.dmap
       /\ g.blks = f.blks /\ g.inos = f.inos
       /\ g = [ino |-> g.ino, dir |-> g.dir, imap |-> g.imap, dmap |-> g.dmap, blks |-> g.blks, inos |-> g.inos]
  BY <1>11, <1>14
<1> HIDE DEF g, dir
<1>18. g \in Disks BY <1>1, <1>15, <1>17 DEF Disks
<1>19. node.mode = "Dir" => g.dir[b] = DirSlots(f.dir[b], i, p)
  BY <1>1, <1>4, <1>11, <1>16, <1>17
<1>20. ASSUME NEW c \in Numbers \ {h} PROVE (node.mode = "Dir" /\ c = b) \/ g.dir[c] = f.dir[c]
  BY <1>1, <1>11, <1>16, <1>17
<1> HIDE DEF p, s, b, h
<1>21. IsLinked(f, g, p, s, i, node, name)
  BY <1>16, <1>17, <1>18, <1>19, <1>20 DEF IsLinked, e, top, b, h
<1> QED BY <1>21 DEF g, k, p, s

\* The tree of g is that of f with i, the tree is as it should be, and what was
\* there is as it was.
Grown(f, g, T, par, slot, p, s, i, node) ==
  LET U == T \cup {i}
  IN  /\ Good(g, U, [par EXCEPT ![i] = p], [slot EXCEPT ![i] = s])
      /\ Spared(f, g, T, U)
      /\ (NoJunk(f, T) /\ (node.mode = "Dir" => \A c \in 3..NSlots : f.dir[node.blk[1]][c].type = "None"))
           => NoJunk(g, U)
      /\ (f.imap = U /\ f.dmap = (UNION {BlksOf(f, j) : j \in T}) \cup {node.blk[k] : k \in 1..Len(node.blk)})
           => Whole(g, U)

\* The new file or directory is found where its entry is.
LEMMA LinkedGood ==
  ASSUME NEW f, NEW g, NEW T, NEW par, NEW slot, Good(f, T, par, slot),
         NEW p \in DirsIn(f, T), NEW s \in Slots, s = Least(Free(DirOf(f, p))), Free(DirOf(f, p)) # {},
         NEW i, NEW node, Fresh(f, T, i, node), NEW name \in Names \cup {Swap},
         IsLinked(f, g, p, s, i, node, name)
  PROVE  Grown(f, g, T, par, slot, p, s, i, node)
<1> DEFINE U == T \cup {i}
           q == [par EXCEPT ![i] = p]
           t == [slot EXCEPT ![i] = s]
           b == node.blk[1]
           d == DirOf(f, p)
           e == [d EXCEPT ![s] = Entry(node.mode, name, i)]
<1>1. /\ Typed(f) /\ Shape(f, T) /\ Apart(f, T) /\ Filing(f, T, par, slot)
      /\ Leftover(f, T) /\ Sized(f, T) /\ Counts(f) BY DEF Good
<1>2. /\ T \subseteq Numbers /\ p \in T /\ IsDir(f, p) /\ Home(f, p) \in Numbers
      /\ d \in [Slots -> Entries] /\ Holds(f, T, par, slot, p)
  BY DirFacts
<1>3. /\ s \in 3..NSlots /\ s \notin Real(d) /\ d[s].type = "None"
  BY FreeSlot
<1>4. /\ i \in f.imap /\ i \notin T /\ i \in Numbers /\ i # p /\ i # 0 /\ node \in Inodes
      /\ node.mode \in {"Dir", "File"} /\ node.blk \in Seq(Numbers) /\ Len(node.blk) \in Nat \ {0} /\ b \in Numbers
  <2>1. i \in Numbers /\ i # 0 /\ i # p BY <1>1, <1>2, Parts, MappedFinite DEF Fresh, Shape
  <2>2. node.blk \in Seq(Numbers) /\ Len(node.blk) >= 1 BY DEF Fresh, Inodes
  <2> QED BY <2>1, <2>2 DEF Fresh
<1>5. /\ g \in Disks /\ g.imap = f.imap /\ g.dmap = f.dmap /\ g.blks = f.blks /\ g.inos = f.inos
      /\ g.ino[i] = node /\ g.ino[p] = [f.ino[p] EXCEPT !.size = @ + 1]
      /\ \A j \in Numbers \ {i, p} : g.ino[j] = f.ino[j]
      /\ g.dir[Home(f, p)] = e
      /\ node.mode = "Dir" => g.dir[b] = DirSlots(f.dir[b], i, p)
      /\ \A c \in Numbers \ {Home(f, p)} : (node.mode = "Dir" /\ c = b) \/ g.dir[c] = f.dir[c]
  BY DEF IsLinked
<1>6. \A j \in T : /\ g.ino[j].mode = f.ino[j].mode /\ g.ino[j].blk = f.ino[j].blk
                   /\ g.ino[j].nlinks = f.ino[j].nlinks /\ g.ino[j].acl = f.ino[j].acl
                   /\ j # p => g.ino[j].size = f.ino[j].size
  <2>1. f.ino[p] \in Inodes BY <1>1, <1>2, Parts
  <2>2. /\ g.ino[p].mode = f.ino[p].mode /\ g.ino[p].blk = f.ino[p].blk
        /\ g.ino[p].nlinks = f.ino[p].nlinks /\ g.ino[p].acl = f.ino[p].acl
    BY <2>1, <1>5 DEF Inodes
  <2>3. \A j \in T \ {p} : g.ino[j] = f.ino[j] BY <1>2, <1>4, <1>5
  <2> QED BY <2>2, <2>3
<1>7. g.ino[p].size = f.ino[p].size + 1
  <2>1. f.ino[p] \in Inodes BY <1>1, <1>2, Parts
  <2> QED BY <2>1, <1>5 DEF Inodes
<1>8. \A j \in T : Home(g, j) = Home(f, j) /\ BlksOf(g, j) = BlksOf(f, j) /\ Home(f, j) \in BlksOf(f, j)
  <2>1. \A j \in T : 1 \in 1..Len(f.ino[j].blk) BY <1>1, <1>2, Parts
  <2> QED BY <1>6, <2>1 DEF Home, BlksOf
<1>9. Home(g, i) = b /\ BlksOf(g, i) = {node.blk[k] : k \in 1..Len(node.blk)} /\ b \in BlksOf(g, i)
  BY <1>4, <1>5 DEF Home, BlksOf
<1>10. \A j \in T : b \notin BlksOf(f, j) /\ Home(f, j) # b BY <1>4, <1>8 DEF Fresh
<1>11. DirOf(g, p) = e BY <1>5, <1>8, <1>2 DEF DirOf
<1>12. \A j \in DirsIn(f, T) \ {p} : DirOf(g, j) = DirOf(f, j)
  <2> SUFFICES ASSUME NEW j \in DirsIn(f, T) \ {p} PROVE DirOf(g, j) = DirOf(f, j) OBVIOUS
  <2>1. j \in T /\ Home(f, j) \in Numbers /\ Home(f, j) # Home(f, p) BY DirFacts, HomesApart
  <2>2. Home(f, j) # b BY <2>1, <1>10
  <2> QED BY <2>1, <2>2, <1>5, <1>8 DEF DirOf
<1>13. node.mode = "Dir" => DirOf(g, i) = DirSlots(f.dir[b], i, p) BY <1>5, <1>9 DEF DirOf
<1>14. DirsIn(g, U) = DirsIn(f, T) \cup (IF node.mode = "Dir" THEN {i} ELSE {})
  BY <1>4, <1>5, <1>6 DEF DirsIn, IsDir
<1>15. Real(e) = Real(d) \cup {s} /\ \A c \in Slots \ {s} : e[c] = d[c]
  <2>1. e[s].type = node.mode BY <1>2, <1>3 DEF Entry
  <2>2. \A c \in Slots \ {s} : e[c] = d[c] BY <1>2
  <2>3. 3..NSlots \subseteq Slots BY DiskAssumption DEF Slots
  <2> HIDE DEF e
  <2> QED BY <2>1, <2>2, <2>3, <1>3, <1>4 DEF Real
<1>16. e[s].inode = i /\ e[s].type = node.mode /\ e[s].name = name BY <1>2, <1>3 DEF Entry
<1>17. f.dir[b] \in [Slots -> Entries] /\ Real(f.dir[b]) = {}
  <2>1. \A j \in DirsIn(f, T) : Home(f, j) # b BY <1>10 DEF DirsIn
  <2> QED BY <2>1, <1>1, <1>4, Parts DEF Leftover
<1> DEFINE n == DirSlots(f.dir[b], i, p)
<1>18. /\ n[1] = Entry("Dir", ".", i) /\ n[2] = Entry("Dir", "..", p)
       /\ \A c \in 3..NSlots : n[c] = f.dir[b][c]
       /\ Real(n) = {}
  <2>1. 1 \in Slots /\ 2 \in Slots /\ 3..NSlots \subseteq Slots BY DiskAssumption DEF Slots
  <2>2. n[1] = Entry("Dir", ".", i) /\ n[2] = Entry("Dir", "..", p) BY <2>1, <1>17 DEF DirSlots
  <2>3. \A c \in 3..NSlots : n[c] = f.dir[b][c] BY <2>1, <1>17 DEF DirSlots
  <2> HIDE DEF n
  <2>4. Real(n) = {} BY <2>3, <1>17 DEF Real
  <2> QED BY <2>2, <2>3, <2>4
<1>19. /\ par \in [Numbers -> Numbers] /\ slot \in [Numbers -> Slots] /\ par[0] = 0
       /\ \A j \in DirsIn(f, T) : Holds(f, T, par, slot, j)
       /\ \A j \in T \ {0} : Kept(f, T, par, slot, j)
  BY <1>1 DEF Filing
<1>20. /\ q \in [Numbers -> Numbers] /\ t \in [Numbers -> Slots] /\ q[0] = 0 /\ q[i] = p /\ t[i] = s
       /\ \A j \in T : q[j] = par[j] /\ t[j] = slot[j]
  BY <1>2, <1>4, <1>19
<1> HIDE DEF U, q, t, n
<1>21. Typed(g)
  <2>1. \A j \in Numbers : Len(g.ino[j].blk) >= 1
    <3>1. \A j \in Numbers : Len(f.ino[j].blk) >= 1 BY <1>1 DEF Typed
    <3> QED BY <3>1, <1>2, <1>4, <1>5, <1>6
  <2>2. ASSUME NEW c \in Numbers, NEW a \in Slots PROVE EntryOK(g.dir[c][a], a)
    <3>0. EntryOK(f.dir[c][a], a) BY <1>1 DEF Typed
    <3>1. CASE c = Home(f, p)
      <4>1. CASE a # s
        <5>1. g.dir[c] = e /\ e[a] = d[a] /\ d = f.dir[c] BY <3>1, <4>1, <1>5, <1>15 DEF DirOf
        <5> QED BY <5>1, <3>0
      <4>2. CASE a = s
        <5>1. g.dir[c][a] = Entry(node.mode, name, i) BY <3>1, <4>2, <1>2, <1>5
        <5>2. i \in Int /\ name \in AllNames /\ name \notin {".", ".."} /\ a > 2
          BY <4>2, <1>3, <1>4, DiskAssumption DEF Numbers, AllNames
        <5> DEFINE x == Entry(node.mode, name, i)
        <5>3. x \in Entries /\ x.type # "Junk" /\ x.name = name BY <5>2, <1>4 DEF Entry, Entries
        <5>4. ~ (a <= 2) BY <5>2 DEF Slots
        <5> HIDE DEF x
        <5> QED BY <5>1, <5>2, <5>3, <5>4 DEF EntryOK, x
      <4> QED BY <4>1, <4>2
    <3>2. CASE c # Home(f, p) /\ node.mode = "Dir" /\ c = b
      <4>1. g.dir[c] = n /\ a \in 1..NSlots BY <3>2, <1>5 DEF n, Slots
      <4>2. CASE a > 2
        <5>1. a \in 3..NSlots BY <4>1, <4>2, DiskAssumption
        <5>2. g.dir[c][a] = f.dir[c][a] BY <4>1, <5>1, <3>2, <1>18
        <5> QED BY <5>2, <3>0
      <4>3. CASE a <= 2
        <5>1. a = 1 \/ a = 2 BY <4>1, <4>3, DiskAssumption
        <5>2. g.dir[c][a] = Entry("Dir", ".", i) \/ g.dir[c][a] = Entry("Dir", "..", p)
          BY <4>1, <5>1, <1>18
        <5>3. i \in Int /\ p \in Int BY <1>2, <1>4 DEF Numbers
        <5>4. /\ Entry("Dir", ".", i) \in Entries /\ Entry("Dir", "..", p) \in Entries
              /\ Entry("Dir", ".", i).type = "Dir" /\ Entry("Dir", "..", p).type = "Dir"
              /\ Entry("Dir", ".", i).name = "." /\ Entry("Dir", "..", p).name = ".."
          BY <5>3 DEF Entry, Entries, AllNames
        <5>5. ~ (a > 2) BY <4>1, <4>3
        <5> QED BY <5>2, <5>4, <5>5 DEF EntryOK
      <4> QED BY <4>1, <4>2, <4>3, DiskAssumption
    <3>3. CASE c # Home(f, p) /\ ~ (node.mode = "Dir" /\ c = b)
      <4>1. g.dir[c] = f.dir[c] BY <3>3, <1>5
      <4> QED BY <4>1, <3>0
    <3> QED BY <3>1, <3>2, <3>3
  <2> QED BY <2>1, <2>2, <1>5 DEF Typed
<1>22. Shape(g, U)
  <2>1. 0 \in U /\ U \in SUBSET g.imap /\ g.ino[0].mode = "None"
    BY <1>1, <1>4, <1>5, <1>6 DEF Shape, U
  <2>2. ASSUME NEW j \in U
        PROVE  /\ j # 0 => g.ino[j].mode \in {"Dir", "File"}
               /\ IsDir(g, j) => Len(g.ino[j].blk) = 1
               /\ g.ino[j].mode = "File" => g.ino[j].nlinks = 1
    <3>1. CASE j = i BY <3>1, <1>4, <1>5 DEF Fresh, IsDir
    <3>2. CASE j \in T BY <3>2, <1>1, <1>6 DEF Shape, IsDir
    <3> QED BY <3>1, <3>2 DEF U
  <2> QED BY <2>1, <2>2 DEF Shape
<1>23. Apart(g, U)
  <2>1. ASSUME NEW j \in U, NEW k \in 1..Len(g.ino[j].blk) PROVE g.ino[j].blk[k] \in g.dmap
    <3>1. CASE j = i BY <3>1, <1>5 DEF Fresh
    <3>2. CASE j \in T BY <3>2, <1>1, <1>5, <1>6 DEF Apart
    <3> QED BY <3>1, <3>2 DEF U
  <2>2. ASSUME NEW j \in U, NEW m \in U, NEW k \in 1..Len(g.ino[j].blk), NEW l \in 1..Len(g.ino[m].blk),
               g.ino[j].blk[k] = g.ino[m].blk[l]
        PROVE  j = m /\ k = l
    <3>1. CASE j = i /\ m = i BY <2>2, <3>1, <1>5 DEF Fresh
    <3>2. CASE j = i /\ m \in T
      <4>1. g.ino[m].blk[l] \in BlksOf(f, m) BY <3>2, <1>6 DEF BlksOf
      <4>2. node.blk[k] \notin BlksOf(f, m) BY <3>2, <1>5 DEF Fresh
      <4> QED BY <2>2, <3>2, <4>1, <4>2, <1>5
    <3>3. CASE j \in T /\ m = i
      <4>1. g.ino[j].blk[k] \in BlksOf(f, j) BY <3>3, <1>6 DEF BlksOf
      <4>2. node.blk[l] \notin BlksOf(f, j) BY <3>3, <1>5 DEF Fresh
      <4> QED BY <2>2, <3>3, <4>1, <4>2, <1>5
    <3>4. CASE j \in T /\ m \in T
      <4>1. g.ino[j].blk = f.ino[j].blk /\ g.ino[m].blk = f.ino[m].blk BY <3>4, <1>6
      <4>2. /\ k \in 1..Len(f.ino[j].blk) /\ l \in 1..Len(f.ino[m].blk)
            /\ f.ino[j].blk[k] = f.ino[m].blk[l]
        BY <2>2, <4>1
      <4> QED BY <3>4, <4>2, <1>1 DEF Apart
    <3> QED BY <3>1, <3>2, <3>3, <3>4 DEF U
  <2> QED BY <2>1, <2>2 DEF Apart
<1>24. Filing(g, U, q, t)
  <2>1. ASSUME NEW j \in DirsIn(g, U) PROVE Holds(g, U, q, t, j)
    <3>1. CASE j = i
      <4>1. node.mode = "Dir" BY <3>1, <1>4, <1>5 DEF DirsIn, IsDir
      <4>2. DirOf(g, j) = n BY <3>1, <4>1, <1>13 DEF n
      <4> QED BY <3>1, <4>2, <1>18, <1>20 DEF Holds
    <3>2. CASE j = p
      <4>1. 1 \in Slots \ {s} /\ 2 \in Slots \ {s} BY <1>3, DiskAssumption DEF Slots
      <4>2. DirOf(g, j) = e /\ e[1] = d[1] /\ e[2] = d[2] BY <3>2, <4>1, <1>11, <1>15
      <4>3. d[1] = Entry("Dir", ".", p) /\ d[2] = Entry("Dir", "..", q[p]) BY <1>2, <1>20 DEF Holds
      <4>4. ASSUME NEW a \in Real(e)
            PROVE  /\ e[a].inode \in U \ {0} /\ e[a].type = g.ino[e[a].inode].mode
                   /\ q[e[a].inode] = p /\ t[e[a].inode] = a
        <5>1. CASE a = s BY <5>1, <1>4, <1>5, <1>16, <1>20 DEF U
        <5>2. CASE a # s
          <6>1. a \in Real(d) /\ e[a] = d[a] BY <5>2, <1>15, RealFinite
          <6> HIDE DEF e
          <6>2. /\ d[a].inode \in T \ {0} /\ d[a].type = f.ino[d[a].inode].mode
                /\ par[d[a].inode] = p /\ slot[d[a].inode] = a
            BY <6>1, <1>2 DEF Holds
          <6> QED BY <6>1, <6>2, <1>6, <1>20 DEF U
        <5> QED BY <5>1, <5>2
      <4> HIDE DEF e
      <4> QED BY <3>2, <4>2, <4>3, <4>4 DEF Holds
    <3>3. CASE j # i /\ j # p
      <4>1. j \in DirsIn(f, T) \ {p} /\ j \in T BY <3>3, <1>14 DEF DirsIn
      <4>2. DirOf(g, j) = DirOf(f, j) /\ Holds(f, T, par, slot, j) BY <4>1, <1>12, <1>19
      <4>3. q[j] = par[j] BY <4>1, <1>20
      <4>4. ASSUME NEW a \in Real(DirOf(f, j))
            PROVE  LET m == DirOf(f, j)[a].inode
                   IN  /\ m \in U \ {0} /\ DirOf(f, j)[a].type = g.ino[m].mode
                       /\ q[m] = j /\ t[m] = a
        BY <4>2, <1>6, <1>20 DEF Holds, U
      <4> QED BY <4>2, <4>3, <4>4 DEF Holds
    <3> QED BY <3>1, <3>2, <3>3
  <2>2. ASSUME NEW j \in U \ {0} PROVE Kept(g, U, q, t, j)
    <3>1. CASE j = i
      <4>1. q[j] = p /\ t[j] = s /\ p \in DirsIn(g, U) BY <3>1, <1>14, <1>20
      <4>2. s \in Real(DirOf(g, p)) /\ DirOf(g, p)[s].inode = j BY <3>1, <1>11, <1>15, <1>16
      <4> QED BY <4>1, <4>2 DEF Kept
    <3>2. CASE j \in T
      <4>1. Kept(f, T, par, slot, j) BY <3>2, <1>19
      <4>2. par[j] \in DirsIn(f, T) /\ slot[j] \in Real(DirOf(f, par[j])) /\ DirOf(f, par[j])[slot[j]].inode = j
        BY <4>1 DEF Kept
      <4>3. q[j] = par[j] /\ t[j] = slot[j] /\ par[j] \in DirsIn(g, U) BY <3>2, <4>2, <1>14, <1>20
      <4>4. CASE par[j] = p
        <5>1. slot[j] \in Slots /\ slot[j] # s BY <4>2, <4>4, <1>3, RealFinite
        <5>2. e[slot[j]] = d[slot[j]] /\ slot[j] \in Real(e) BY <4>2, <4>4, <5>1, <1>15
        <5> HIDE DEF e
        <5> QED BY <4>2, <4>3, <4>4, <5>2, <1>11 DEF Kept
      <4>5. CASE par[j] # p
        <5>1. DirOf(g, par[j]) = DirOf(f, par[j]) BY <4>2, <4>5, <1>12
        <5> QED BY <4>2, <4>3, <5>1 DEF Kept
      <4> QED BY <4>4, <4>5
    <3> QED BY <3>1, <3>2 DEF U
  <2> QED BY <2>1, <2>2, <1>20 DEF Filing
<1>25. Leftover(g, U)
  <2> SUFFICES ASSUME NEW c \in Numbers, \A j \in DirsIn(g, U) : Home(g, j) # c
               PROVE Real(g.dir[c]) = {}
    BY DEF Leftover
  <2>1. \A j \in DirsIn(f, T) : Home(f, j) # c BY <1>8, <1>14 DEF DirsIn
  <2>2. c # Home(f, p) BY <2>1
  <2>3. CASE node.mode = "Dir" /\ c = b
    <3>1. i \in DirsIn(g, U) BY <2>3, <1>14
    <3> QED BY <3>1, <2>3, <1>9
  <2>4. CASE ~ (node.mode = "Dir" /\ c = b)
    <3>1. g.dir[c] = f.dir[c] BY <2>2, <2>4, <1>5
    <3> QED BY <3>1, <2>1, <1>1 DEF Leftover
  <2> QED BY <2>3, <2>4
<1>26. Sized(g, U)
  <2> SUFFICES ASSUME NEW j \in DirsIn(g, U)
               PROVE g.ino[j].size + Uncounted(j) = 2 + Cardinality(Real(DirOf(g, j)))
    BY DEF Sized
  <2>1. CASE j = i
    <3>1. node.mode = "Dir" BY <2>1, <1>4, <1>5 DEF DirsIn, IsDir
    <3>2. Real(DirOf(g, j)) = {} BY <2>1, <3>1, <1>13, <1>18 DEF n
    <3>3. node.size = 2 /\ Uncounted(j) = 0 BY <2>1, <3>1, <1>4 DEF Fresh, Uncounted
    <3> QED BY <2>1, <3>2, <3>3, <1>5, FS_EmptySet
  <2>2. CASE j = p
    <3>1. Real(DirOf(g, j)) = Real(d) \cup {s} BY <2>2, <1>11, <1>15
    <3>2. IsFiniteSet(Real(d)) /\ Cardinality(Real(d)) \in Nat BY RealFinite
    <3>3. Cardinality(Real(d) \cup {s}) = Cardinality(Real(d)) + 1 BY <3>2, <1>3, FS_AddElement
    <3>4. f.ino[p].size + Uncounted(p) = 2 + Cardinality(Real(d)) BY <1>1 DEF Sized
    <3>5. f.ino[p].size \in Nat /\ Uncounted(p) \in Nat BY <1>1, <1>2, Parts DEF Inodes, Uncounted
    <3> QED BY <2>2, <3>1, <3>2, <3>3, <3>4, <3>5, <1>7
  <2>3. CASE j # i /\ j # p
    <3>1. j \in DirsIn(f, T) \ {p} /\ j \in T BY <2>3, <1>14 DEF DirsIn
    <3> QED BY <3>1, <2>3, <1>1, <1>6, <1>12 DEF Sized
  <2> QED BY <2>1, <2>2, <2>3
<1>27. Good(g, U, q, t)
  <2>1. Counts(g) BY <1>1, <1>5 DEF Counts
  <2> QED BY <2>1, <1>21, <1>22, <1>23, <1>24, <1>25, <1>26 DEF Good
<1>28. Spared(f, g, T, U)
  <2> SUFFICES ASSUME NEW j \in T, f.ino[j].mode = "File"
               PROVE /\ j \in U /\ g.ino[j].acl = f.ino[j].acl /\ g.ino[j].blk = f.ino[j].blk
                     /\ \A c \in BlksOf(f, j) : g.dir[c] = f.dir[c]
    BY DEF Spared
  <2>1. ASSUME NEW c \in BlksOf(f, j) PROVE g.dir[c] = f.dir[c]
    <3>1. c # b BY <1>10
    <3>2. c # Home(f, p)
      <4>1. j # p BY <1>1, <1>2 DEF IsDir, Shape
      <4> QED BY <4>1, <1>2, HomesApart
    <3>3. c \in Numbers
      <4>1. f.ino[j].blk \in Seq(Numbers) BY <1>1, <1>2, Parts
      <4> QED BY <4>1 DEF BlksOf
    <3> QED BY <3>1, <3>2, <3>3, <1>5
  <2> QED BY <2>1, <1>6 DEF U
<1>29. ASSUME NoJunk(f, T), node.mode = "Dir" => \A c \in 3..NSlots : f.dir[b][c].type = "None"
       PROVE  NoJunk(g, U)
  <2> SUFFICES ASSUME NEW j \in DirsIn(g, U), NEW a \in Slots
               PROVE DirOf(g, j)[a].type # "Junk"
    BY DEF NoJunk
  <2>1. CASE j = i
    <3>1. node.mode = "Dir" BY <2>1, <1>4, <1>5 DEF DirsIn, IsDir
    <3>2. DirOf(g, j) = n BY <2>1, <3>1, <1>13 DEF n
    <3>3. a = 1 \/ a = 2 \/ a \in 3..NSlots BY DiskAssumption DEF Slots
    <3>4. n[1].type = "Dir" /\ n[2].type = "Dir" BY <1>18 DEF Entry
    <3>5. \A c \in 3..NSlots : n[c].type = "None" BY <3>1, <1>18, <1>29
    <3> QED BY <3>2, <3>3, <3>4, <3>5
  <2>2. CASE j = p
    <3>1. CASE a = s BY <2>2, <3>1, <1>4, <1>11, <1>16
    <3>2. CASE a # s
      <4>1. DirOf(g, j)[a] = d[a] BY <2>2, <3>2, <1>11, <1>15
      <4> QED BY <4>1, <1>29 DEF NoJunk
    <3> QED BY <3>1, <3>2
  <2>3. CASE j # i /\ j # p
    <3>1. j \in DirsIn(f, T) \ {p} BY <2>3, <1>14
    <3> QED BY <3>1, <1>12, <1>29 DEF NoJunk
  <2> QED BY <2>1, <2>2, <2>3
<1>30. ASSUME f.imap = U,
              f.dmap = (UNION {BlksOf(f, j) : j \in T}) \cup {node.blk[k] : k \in 1..Len(node.blk)}
       PROVE  Whole(g, U)
  <2>1. (UNION {BlksOf(g, j) : j \in U}) = (UNION {BlksOf(f, j) : j \in T}) \cup BlksOf(g, i)
    BY <1>8 DEF U
  <2> QED BY <2>1, <1>5, <1>9, <1>30 DEF Whole
<1> QED BY <1>27, <1>28, <1>29, <1>30 DEF Grown, U, q, t

-----------------------------------------------------------------------------
(* A file or directory is deleted *)

\* g is f without inode i, which had its entry in directory p
IsUnlinked(f, g, p, i) ==
  /\ g \in Disks
  /\ g.imap = f.imap \ {i} /\ g.dmap = f.dmap \ BlksOf(f, i)
  /\ g.blks = f.blks + Len(f.ino[i].blk) /\ g.inos = f.inos + 1
  /\ g.ino[i].blk = f.ino[i].blk
  /\ g.ino[p] = [f.ino[p] EXCEPT !.size = @ - 1]
  /\ \A j \in Numbers \ {i, p} : g.ino[j] = f.ino[j]
  /\ g.dir[Home(f, p)] = Cleared(DirOf(f, p), i)
  /\ \A b \in Numbers \ {Home(f, p)} : g.dir[b] = f.dir[b]

\* What may be deleted: a file, or a directory in the root that has no entries.
Removable(f, T, par, i) ==
  /\ i \in T \ {0}
  /\ IsDir(f, i) => par[i] = 0 /\ Real(DirOf(f, i)) = {}

\* How many are left when some are taken away.
LEMMA RestCount ==
  ASSUME NEW A, NEW B, IsFiniteSet(A), B \subseteq A
  PROVE  Cardinality(A \ B) = Cardinality(A) - Cardinality(B)
<1>1. IsFiniteSet(B) /\ IsFiniteSet(A \ B) BY FS_Subset
<1>2. Cardinality((A \ B) \cup B)
        = Cardinality(A \ B) + Cardinality(B) - Cardinality((A \ B) \cap B)
  BY <1>1, FS_Union
<1>3. (A \ B) \cup B = A /\ (A \ B) \cap B = {} OBVIOUS
<1>4. Cardinality({}) = 0 BY FS_EmptySet
<1>5. Cardinality(A \ B) \in Nat /\ Cardinality(B) \in Nat BY <1>1, FS_CardinalityType
<1> QED BY <1>2, <1>3, <1>4, <1>5

\* A file or directory has as many blocks as its inode lists.
LEMMA BlksCount ==
  ASSUME NEW f, NEW T, Typed(f), Apart(f, T), NEW i \in T, i \in Numbers
  PROVE  /\ IsFiniteSet(BlksOf(f, i)) /\ Cardinality(BlksOf(f, i)) = Len(f.ino[i].blk)
         /\ BlksOf(f, i) \subseteq f.dmap
<1> DEFINE blk == f.ino[i].blk
           K == 1..Len(blk)
           B == BlksOf(f, i)
           m == [k \in K |-> blk[k]]
<1>1. Len(blk) \in Nat BY Parts
<1>2. IsFiniteSet(K) /\ Cardinality(K) = Len(blk) BY <1>1, FS_Interval
<1>3. \A k, l \in K : blk[k] = blk[l] => k = l BY DEF Apart
<1>4. B = {blk[k] : k \in K} BY DEF BlksOf
<1> HIDE DEF K, blk, B
<1>5. m \in Surjection(K, B) BY <1>4 DEF Surjection
<1>6. m \in Injection(K, B) BY <1>3, <1>4 DEF Injection, IsInjective
<1> HIDE DEF m
<1>7. IsFiniteSet(B) /\ Cardinality(B) = Cardinality(K) BY <1>2, <1>5, <1>6, FS_Surjection
<1>8. B \subseteq f.dmap BY <1>4 DEF Apart, K, blk
<1> QED BY <1>2, <1>7, <1>8 DEF B, blk

\* The directory of a file's entry without it.
LEMMA ClearedIs ==
  ASSUME NEW f, NEW T, NEW par, NEW slot, Good(f, T, par, slot), NEW i, Removable(f, T, par, i)
  PROVE  LET p == par[i]
             d == DirOf(f, p)
             e == Cleared(d, i)
         IN  /\ p \in DirsIn(f, T) /\ p # i /\ e \in [Slots -> Entries]
             /\ e[1] = d[1] /\ e[2] = d[2]
             /\ \A s \in Slots : /\ e[s].inode = d[s].inode /\ e[s].name = d[s].name
                                 /\ e[s] = d[s] \/ e[s].type = "None"
                                 /\ d[s].inode = i => e[s].type = "None"
                                 /\ d[s].inode # i => e[s] = d[s]
             /\ slot[i] \in Real(d) /\ Real(e) = Real(d) \ {slot[i]}
             /\ f.ino[p].size >= 1
             /\ \A j \in T \ {0} : par[j] # i
<1> DEFINE p == par[i]
           d == DirOf(f, p)
           e == Cleared(d, i)
<1>1. /\ Typed(f) /\ Shape(f, T) /\ Filing(f, T, par, slot) /\ Sized(f, T) BY DEF Good
<1>2. /\ i \in T \ {0} /\ Kept(f, T, par, slot, i) /\ par[0] = 0
      /\ IsDir(f, i) => p = 0 /\ Real(DirOf(f, i)) = {}
  BY <1>1 DEF Filing, Removable
<1>3. p \in DirsIn(f, T) /\ slot[i] \in Real(d) /\ d[slot[i]].inode = i BY <1>2 DEF Kept
<1>4. p # i
  <2>1. CASE IsDir(f, i) BY <2>1, <1>2
  <2>2. CASE ~ IsDir(f, i) BY <2>2, <1>3 DEF DirsIn
  <2> QED BY <2>1, <2>2
<1>5. d \in [Slots -> Entries] /\ Holds(f, T, par, slot, p) BY <1>3, DirFacts
<1>6. \A j \in T \ {0} : par[j] # i
  <2> SUFFICES ASSUME NEW j \in T \ {0}, par[j] = i PROVE FALSE OBVIOUS
  <2>1. Kept(f, T, par, slot, j) BY <1>1 DEF Filing
  <2>2. i \in DirsIn(f, T) /\ slot[j] \in Real(DirOf(f, i)) BY <2>1 DEF Kept
  <2> QED BY <2>2, <1>2 DEF DirsIn
<1>7. par[p] # i
  <2>1. p \in T BY <1>3 DEF DirsIn
  <2> QED BY <2>1, <1>2, <1>6
<1> HIDE DEF p, d
<1>8. e = [s \in Slots |-> IF d[s].inode = i THEN [d[s] EXCEPT !.type = "None"] ELSE d[s]]
  BY DEF Cleared
<1>9. ASSUME NEW s \in Slots
      PROVE  /\ e[s] \in Entries
             /\ e[s].inode = d[s].inode /\ e[s].name = d[s].name
             /\ e[s] = d[s] \/ e[s].type = "None"
             /\ d[s].inode = i => e[s].type = "None"
             /\ d[s].inode # i => e[s] = d[s]
  <2>1. d[s] \in Entries BY <1>5 DEF d
  <2>2. CASE d[s].inode = i BY <2>1, <2>2, <1>8 DEF Entries
  <2>3. CASE d[s].inode # i BY <2>1, <2>3, <1>8
  <2> QED BY <2>2, <2>3
<1>10. e \in [Slots -> Entries] BY <1>8, <1>9
<1> HIDE DEF e
<1>11. e[1] = d[1] /\ e[2] = d[2]
  <2>1. 1 \in Slots /\ 2 \in Slots BY DiskAssumption DEF Slots
  <2>2. d[1].inode = p /\ d[2].inode = par[p] BY <1>5 DEF Holds, Entry, d
  <2> QED BY <2>1, <2>2, <1>4, <1>7, <1>9
<1>12. Real(e) = Real(d) \ {slot[i]}
  <2>1. Real(d) \subseteq Slots /\ Real(e) \subseteq Slots BY RealFinite
  <2>2. \A s \in Real(d) : slot[d[s].inode] = s BY <1>5 DEF Holds, d
  <2>3. \A s \in Real(d) : d[s].inode = i <=> s = slot[i] BY <2>2, <1>3 DEF d, p
  <2> QED BY <2>1, <2>3, <1>9 DEF Real
<1>13. f.ino[p].size >= 1
  <2>1. IsFiniteSet(Real(d)) /\ Cardinality(Real(d)) \in Nat BY RealFinite
  <2>2. Cardinality(Real(d)) # 0 BY <2>1, <1>3, FS_EmptySet DEF d, p
  <2>3. f.ino[p].size + Uncounted(p) = 2 + Cardinality(Real(d)) BY <1>1, <1>3 DEF Sized, d, p
  <2>4. f.ino[p].size \in Nat BY <1>1, <1>3, DirFacts, Parts DEF Inodes, d, p
  <2>5. Uncounted(p) \in 0..2 BY DEF Uncounted
  <2> QED BY <2>1, <2>2, <2>3, <2>4, <2>5
<1> QED BY <1>3, <1>4, <1>6, <1>9, <1>10, <1>11, <1>12, <1>13 DEF p, d, e

\* The tree without the file or directory is as it should be.
LEMMA UnlinkedGood ==
  ASSUME NEW f, NEW g, NEW T, NEW par, NEW slot, Good(f, T, par, slot),
         NEW i, Removable(f, T, par, i), IsUnlinked(f, g, par[i], i)
  PROVE  LET U == T \ {i}
         IN  /\ Good(g, U, par, slot)
             /\ (f.ino[i].mode = "File" => "w" \in f.ino[i].acl) => Spared(f, g, T, U)
             /\ NoJunk(f, T) => NoJunk(g, U)
             /\ Whole(f, T) => Whole(g, U)
<1> DEFINE U == T \ {i}
           p == par[i]
           d == DirOf(f, p)
           e == Cleared(d, i)
<1>1. /\ Typed(f) /\ Shape(f, T) /\ Apart(f, T) /\ Filing(f, T, par, slot)
      /\ Leftover(f, T) /\ Sized(f, T) /\ Counts(f) BY DEF Good
<1>2. /\ i \in T \ {0} /\ T \subseteq Numbers /\ i \in Numbers
      /\ IsDir(f, i) => Real(DirOf(f, i)) = {}
  BY <1>1, Parts, MappedFinite DEF Removable, Shape
<1>3. /\ p \in DirsIn(f, T) /\ p # i /\ e \in [Slots -> Entries]
      /\ e[1] = d[1] /\ e[2] = d[2]
      /\ \A s \in Slots : /\ e[s].inode = d[s].inode /\ e[s].name = d[s].name
                          /\ e[s] = d[s] \/ e[s].type = "None"
                          /\ d[s].inode = i => e[s].type = "None"
                          /\ d[s].inode # i => e[s] = d[s]
      /\ slot[i] \in Real(d) /\ Real(e) = Real(d) \ {slot[i]}
      /\ f.ino[p].size >= 1
      /\ \A j \in T \ {0} : par[j] # i
  BY ClearedIs
<1>4. /\ p \in T /\ IsDir(f, p) /\ Home(f, p) \in Numbers
      /\ d \in [Slots -> Entries] /\ Holds(f, T, par, slot, p)
  BY <1>3, DirFacts
<1>5. /\ g \in Disks /\ g.imap = f.imap \ {i} /\ g.dmap = f.dmap \ BlksOf(f, i)
      /\ g.blks = f.blks + Len(f.ino[i].blk) /\ g.inos = f.inos + 1
      /\ g.ino[i].blk = f.ino[i].blk
      /\ g.ino[p] = [f.ino[p] EXCEPT !.size = @ - 1]
      /\ \A j \in Numbers \ {i, p} : g.ino[j] = f.ino[j]
      /\ g.dir[Home(f, p)] = e
      /\ \A b \in Numbers \ {Home(f, p)} : g.dir[b] = f.dir[b]
  BY DEF IsUnlinked
<1>6. \A j \in U : /\ g.ino[j].mode = f.ino[j].mode /\ g.ino[j].blk = f.ino[j].blk
                   /\ g.ino[j].nlinks = f.ino[j].nlinks /\ g.ino[j].acl = f.ino[j].acl
                   /\ j # p => g.ino[j].size = f.ino[j].size
  <2>1. f.ino[p] \in Inodes BY <1>1, <1>2, <1>4, Parts
  <2>2. /\ g.ino[p].mode = f.ino[p].mode /\ g.ino[p].blk = f.ino[p].blk
        /\ g.ino[p].nlinks = f.ino[p].nlinks /\ g.ino[p].acl = f.ino[p].acl
    BY <2>1, <1>5 DEF Inodes
  <2>3. \A j \in U \ {p} : g.ino[j] = f.ino[j] BY <1>2, <1>5
  <2> QED BY <2>2, <2>3
<1>7. g.ino[p].size = f.ino[p].size - 1
  <2>1. f.ino[p] \in Inodes BY <1>1, <1>2, <1>4, Parts
  <2> QED BY <2>1, <1>5 DEF Inodes
<1>8. \A j \in U : Home(g, j) = Home(f, j) /\ BlksOf(g, j) = BlksOf(f, j)
  BY <1>6 DEF Home, BlksOf
<1>9. DirsIn(g, U) = DirsIn(f, T) \ {i} BY <1>6 DEF DirsIn, IsDir
<1>10. DirOf(g, p) = e BY <1>3, <1>4, <1>5, <1>8 DEF DirOf
<1>11. \A j \in DirsIn(f, T) \ {i, p} : DirOf(g, j) = DirOf(f, j)
  <2> SUFFICES ASSUME NEW j \in DirsIn(f, T) \ {i, p} PROVE DirOf(g, j) = DirOf(f, j) OBVIOUS
  <2>1. j \in U /\ Home(f, j) \in Numbers /\ Home(f, j) # Home(f, p)
    BY <1>3, <1>4, DirFacts, HomesApart
  <2> QED BY <2>1, <1>5, <1>8 DEF DirOf
<1>12. \A j \in U : \A c \in BlksOf(f, j) : c \notin BlksOf(f, i)
  BY <1>1, <1>2 DEF Apart, BlksOf
<1>13. /\ par \in [Numbers -> Numbers] /\ slot \in [Numbers -> Slots] /\ par[0] = 0
       /\ \A j \in DirsIn(f, T) : Holds(f, T, par, slot, j)
       /\ \A j \in T \ {0} : Kept(f, T, par, slot, j)
  BY <1>1 DEF Filing
<1> HIDE DEF e, U
<1>14. Typed(g)
  <2>1. \A j \in Numbers : Len(g.ino[j].blk) >= 1
    <3>1. \A j \in Numbers : Len(f.ino[j].blk) >= 1 BY <1>1 DEF Typed
    <3>2. g.ino[p].blk = f.ino[p].blk BY <1>3, <1>4, <1>6 DEF U
    <3> QED BY <3>1, <3>2, <1>5
  <2>2. ASSUME NEW c \in Numbers, NEW a \in Slots PROVE EntryOK(g.dir[c][a], a)
    <3>0. EntryOK(f.dir[c][a], a) BY <1>1 DEF Typed
    <3>1. CASE c = Home(f, p)
      <4>1. g.dir[c] = e /\ d = f.dir[c] BY <3>1, <1>5 DEF DirOf
      <4>2. e[a] \in Entries /\ e[a].name = d[a].name /\ (e[a] = d[a] \/ e[a].type = "None")
        BY <1>3
      <4> QED BY <4>1, <4>2, <3>0 DEF EntryOK
    <3>2. CASE c # Home(f, p)
      <4>1. g.dir[c] = f.dir[c] BY <3>2, <1>5
      <4> QED BY <4>1, <3>0
    <3> QED BY <3>1, <3>2
  <2> QED BY <2>1, <2>2, <1>5 DEF Typed
<1>15. Shape(g, U)
  <2>1. 0 \in U /\ U \in SUBSET g.imap /\ g.ino[0].mode = "None"
    BY <1>1, <1>2, <1>5, <1>6 DEF Shape, U
  <2>2. \A j \in U : /\ j # 0 => g.ino[j].mode \in {"Dir", "File"}
                     /\ IsDir(g, j) => Len(g.ino[j].blk) = 1
                     /\ g.ino[j].mode = "File" => g.ino[j].nlinks = 1
    BY <1>1, <1>6 DEF Shape, U, IsDir
  <2> QED BY <2>1, <2>2 DEF Shape
<1>16. Apart(g, U)
  <2>1. \A j \in U : \A k \in 1..Len(g.ino[j].blk) : g.ino[j].blk[k] \in g.dmap
    <3> SUFFICES ASSUME NEW j \in U, NEW k \in 1..Len(f.ino[j].blk)
                 PROVE  f.ino[j].blk[k] \in g.dmap
      BY <1>6
    <3>1. f.ino[j].blk[k] \in BlksOf(f, j) BY DEF BlksOf
    <3>2. f.ino[j].blk[k] \in f.dmap BY <1>1 DEF Apart, U
    <3> QED BY <3>1, <3>2, <1>5, <1>12
  <2>2. ASSUME NEW j \in U, NEW m \in U, NEW k \in 1..Len(g.ino[j].blk), NEW l \in 1..Len(g.ino[m].blk),
               g.ino[j].blk[k] = g.ino[m].blk[l]
        PROVE  j = m /\ k = l
    <3>1. j \in T /\ m \in T BY DEF U
    <3>2. g.ino[j].blk = f.ino[j].blk /\ g.ino[m].blk = f.ino[m].blk BY <1>6
    <3>3. k \in 1..Len(f.ino[j].blk) /\ l \in 1..Len(f.ino[m].blk) /\ f.ino[j].blk[k] = f.ino[m].blk[l]
      BY <2>2, <3>2
    <3> QED BY <3>1, <3>3, <1>1 DEF Apart
  <2> QED BY <2>1, <2>2 DEF Apart
<1>17. Filing(g, U, par, slot)
  <2>1. ASSUME NEW j \in DirsIn(g, U) PROVE Holds(g, U, par, slot, j)
    <3>1. CASE j = p
      <4>1. ASSUME NEW a \in Real(e)
            PROVE  /\ e[a].inode \in U \ {0} /\ e[a].type = g.ino[e[a].inode].mode
                   /\ par[e[a].inode] = p /\ slot[e[a].inode] = a
        <5>1. a \in Real(d) /\ a # slot[i] /\ a \in Slots BY <1>3, RealFinite
        <5>2. e[a].type # "None" BY <4>1 DEF Real
        <5>3. e[a] = d[a] /\ d[a].inode # i BY <5>1, <5>2, <1>3
        <5>4. /\ d[a].inode \in T \ {0} /\ d[a].type = f.ino[d[a].inode].mode
              /\ par[d[a].inode] = p /\ slot[d[a].inode] = a
          BY <5>1, <1>4 DEF Holds
        <5> QED BY <5>3, <5>4, <1>6 DEF U
      <4>2. d[1] = Entry("Dir", ".", p) /\ d[2] = Entry("Dir", "..", par[p]) BY <1>4 DEF Holds
      <4> QED BY <3>1, <4>1, <4>2, <1>3, <1>10 DEF Holds
    <3>2. CASE j # p
      <4>1. j \in DirsIn(f, T) \ {i, p} /\ j \in T BY <3>2, <1>9 DEF DirsIn
      <4>2. DirOf(g, j) = DirOf(f, j) /\ Holds(f, T, par, slot, j) BY <4>1, <1>11, <1>13
      <4>3. ASSUME NEW a \in Real(DirOf(f, j))
            PROVE  LET m == DirOf(f, j)[a].inode
                   IN  /\ m \in U \ {0} /\ DirOf(f, j)[a].type = g.ino[m].mode
                       /\ par[m] = j /\ slot[m] = a
        <5>1. DirOf(f, j)[a].inode # i BY <3>2, <4>2 DEF Holds
        <5> QED BY <4>2, <5>1, <1>6 DEF Holds, U
      <4> QED BY <4>2, <4>3 DEF Holds
    <3> QED BY <3>1, <3>2
  <2>2. ASSUME NEW j \in U \ {0} PROVE Kept(g, U, par, slot, j)
    <3>1. /\ par[j] \in DirsIn(f, T) /\ slot[j] \in Real(DirOf(f, par[j]))
          /\ DirOf(f, par[j])[slot[j]].inode = j /\ j # i /\ par[j] # i
      BY <1>3, <1>13 DEF Kept, U
    <3>2. par[j] \in DirsIn(g, U) BY <3>1, <1>9
    <3>3. CASE par[j] = p
      <4>1. slot[j] \in Slots /\ slot[j] # slot[i]
        <5>1. DirOf(f, par[i])[slot[i]].inode = i BY <1>2, <1>13 DEF Kept
        <5> QED BY <3>1, <3>3, <5>1, RealFinite
      <4>2. slot[j] \in Real(e) /\ e[slot[j]].inode = j BY <3>1, <3>3, <4>1, <1>3
      <4> QED BY <3>2, <3>3, <4>2, <1>10 DEF Kept
    <3>4. CASE par[j] # p
      <4>1. DirOf(g, par[j]) = DirOf(f, par[j]) BY <3>1, <3>4, <1>11
      <4> QED BY <3>1, <3>2, <4>1 DEF Kept
    <3> QED BY <3>3, <3>4
  <2> QED BY <2>1, <2>2, <1>13 DEF Filing
<1>18. Leftover(g, U)
  <2> SUFFICES ASSUME NEW c \in Numbers, \A j \in DirsIn(g, U) : Home(g, j) # c
               PROVE Real(g.dir[c]) = {}
    BY DEF Leftover
  <2>1. \A j \in DirsIn(f, T) \ {i} : Home(f, j) # c BY <1>8, <1>9 DEF DirsIn, U
  <2>2. c # Home(f, p) BY <2>1, <1>3
  <2>3. g.dir[c] = f.dir[c] BY <2>2, <1>5
  <2>4. CASE i \in DirsIn(f, T) /\ Home(f, i) = c
    <3>1. Real(DirOf(f, i)) = {} BY <2>4, <1>2 DEF DirsIn
    <3> QED BY <2>3, <2>4, <3>1 DEF DirOf
  <2>5. CASE ~ (i \in DirsIn(f, T) /\ Home(f, i) = c)
    <3>1. \A j \in DirsIn(f, T) : Home(f, j) # c BY <2>1, <2>5
    <3> QED BY <2>3, <3>1, <1>1 DEF Leftover
  <2> QED BY <2>4, <2>5
<1>19. Sized(g, U)
  <2> SUFFICES ASSUME NEW j \in DirsIn(g, U)
               PROVE g.ino[j].size + Uncounted(j) = 2 + Cardinality(Real(DirOf(g, j)))
    BY DEF Sized
  <2>1. CASE j = p
    <3>1. IsFiniteSet(Real(d)) /\ Cardinality(Real(d)) \in Nat BY RealFinite
    <3>2. Cardinality(Real(d) \ {slot[i]}) = Cardinality(Real(d)) - 1 BY <3>1, <1>3, FS_RemoveElement
    <3>3. f.ino[p].size + Uncounted(p) = 2 + Cardinality(Real(d)) BY <1>1, <1>3 DEF Sized
    <3>4. Real(DirOf(g, j)) = Real(d) \ {slot[i]} BY <2>1, <1>3, <1>10
    <3>5. Cardinality(Real(DirOf(g, j))) = Cardinality(Real(d)) - 1 BY <3>2, <3>4
    <3>6. g.ino[j].size + Uncounted(j) = 2 + Cardinality(Real(d)) - 1
      <4>1. g.ino[j].size = f.ino[p].size - 1 BY <2>1, <1>7
      <4>2. f.ino[p].size \in Nat /\ Uncounted(p) \in Nat BY <1>1, <1>2, <1>4, Parts DEF Inodes, Uncounted
      <4> QED BY <2>1, <3>1, <3>3, <4>1, <4>2
    <3> QED BY <3>1, <3>5, <3>6
  <2>2. CASE j # p
    <3>1. j \in DirsIn(f, T) \ {i, p} /\ j \in U BY <2>2, <1>9 DEF DirsIn
    <3> QED BY <3>1, <2>2, <1>1, <1>6, <1>11 DEF Sized
  <2> QED BY <2>1, <2>2
<1>20. Counts(g)
  <2>1. /\ IsFiniteSet(BlksOf(f, i)) /\ Cardinality(BlksOf(f, i)) = Len(f.ino[i].blk)
        /\ BlksOf(f, i) \subseteq f.dmap
    BY <1>1, <1>2, BlksCount
  <2>2. /\ f.imap \in SUBSET Mapped /\ f.dmap \in SUBSET Mapped /\ f.blks \in Int /\ f.inos \in Int
        /\ Len(f.ino[i].blk) \in Nat
    BY <1>1, <1>2, Parts
  <2>3. /\ IsFiniteSet(f.imap) /\ Cardinality(f.imap) \in Nat
        /\ IsFiniteSet(g.dmap) /\ Cardinality(g.dmap) \in Nat /\ Cardinality(f.dmap) \in Nat
    BY <2>2, <1>5, MappedFinite
  <2>4. Cardinality(f.imap \ {i}) = Cardinality(f.imap) - 1
    <3>1. i \in f.imap BY <1>1, <1>2 DEF Shape
    <3> QED BY <3>1, <2>3, FS_RemoveElement
  <2>5. Cardinality(g.dmap) = Cardinality(f.dmap) - Cardinality(BlksOf(f, i))
    <3>1. IsFiniteSet(f.dmap) BY <2>2, MappedFinite
    <3> QED BY <2>1, <3>1, <1>5, RestCount
  <2>6. Cardinality(g.imap) = Cardinality(f.imap) - 1 BY <2>4, <1>5
  <2>7. NData - f.inos = Cardinality(f.imap) /\ NData - f.blks = Cardinality(f.dmap) BY <1>1 DEF Counts
  <2>8. NData \in Int BY DiskAssumption
  <2>9. NData - g.inos = Cardinality(g.imap) BY <2>2, <2>3, <2>6, <2>7, <2>8, <1>5
  <2>10. NData - g.blks = Cardinality(g.dmap)
    <3> DEFINE n == Len(f.ino[i].blk)
               a == Cardinality(f.dmap)
               c == Cardinality(g.dmap)
    <3>1. n \in Int /\ a \in Int /\ c = a - n /\ NData - f.blks = a /\ g.blks = f.blks + n
      BY <2>1, <2>2, <2>3, <2>5, <2>7, <1>5
    <3> HIDE DEF n, a, c
    <3>2. NData - g.blks = c BY <3>1, <2>2, <2>8
    <3> QED BY <3>2 DEF c
  <2> QED BY <2>9, <2>10 DEF Counts
<1>21. Good(g, U, par, slot)
  BY <1>14, <1>15, <1>16, <1>17, <1>18, <1>19, <1>20 DEF Good
<1>22. ASSUME f.ino[i].mode = "File" => "w" \in f.ino[i].acl PROVE Spared(f, g, T, U)
  <2> SUFFICES ASSUME NEW j \in T, f.ino[j].mode = "File", "w" \notin f.ino[j].acl
               PROVE /\ j \in U /\ g.ino[j].acl = f.ino[j].acl /\ g.ino[j].blk = f.ino[j].blk
                     /\ \A c \in BlksOf(f, j) : g.dir[c] = f.dir[c]
    BY DEF Spared
  <2>1. j \in U BY <1>22 DEF U
  <2>2. ASSUME NEW c \in BlksOf(f, j) PROVE g.dir[c] = f.dir[c]
    <3>1. c # Home(f, p)
      <4>1. j # p BY <1>1, <1>4 DEF IsDir, Shape
      <4> QED BY <4>1, <1>3, <1>4, HomesApart
    <3>2. c \in Numbers
      <4>1. f.ino[j].blk \in Seq(Numbers) BY <1>1, <1>2, Parts
      <4> QED BY <4>1 DEF BlksOf
    <3> QED BY <3>1, <3>2, <1>5
  <2> QED BY <2>1, <2>2, <1>6
<1>23. ASSUME NoJunk(f, T) PROVE NoJunk(g, U)
  <2> SUFFICES ASSUME NEW j \in DirsIn(g, U), NEW a \in Slots
               PROVE DirOf(g, j)[a].type # "Junk"
    BY DEF NoJunk
  <2>1. CASE j = p
    <3>1. d[a].type # "Junk" BY <1>3, <1>23 DEF NoJunk
    <3> QED BY <2>1, <3>1, <1>3, <1>10
  <2>2. CASE j # p
    <3>1. j \in DirsIn(f, T) \ {i, p} BY <2>2, <1>9
    <3> QED BY <3>1, <1>11, <1>23 DEF NoJunk
  <2> QED BY <2>1, <2>2
<1>24. ASSUME Whole(f, T) PROVE Whole(g, U)
  <2>1. U = g.imap BY <1>5, <1>24 DEF Whole, U
  <2>2. g.dmap = UNION {BlksOf(g, j) : j \in U}
    <3>1. f.dmap = UNION {BlksOf(f, j) : j \in T} BY <1>24 DEF Whole
    <3>2. ASSUME NEW c \in g.dmap PROVE c \in UNION {BlksOf(g, j) : j \in U}
      <4>1. c \in f.dmap /\ c \notin BlksOf(f, i) BY <1>5
      <4>2. PICK j \in T : c \in BlksOf(f, j) BY <3>1, <4>1
      <4>3. j \in U BY <4>1, <4>2 DEF U
      <4> QED BY <4>2, <4>3, <1>8
    <3>3. ASSUME NEW c \in UNION {BlksOf(g, j) : j \in U} PROVE c \in g.dmap
      <4>1. PICK j \in U : c \in BlksOf(f, j) BY <1>8
      <4>2. c \in f.dmap BY <3>1, <4>1 DEF U
      <4> QED BY <4>1, <4>2, <1>5, <1>12
    <3> QED BY <3>2, <3>3
  <2> QED BY <2>1, <2>2 DEF Whole
<1> QED BY <1>21, <1>22, <1>23, <1>24 DEF U

\* Where "." and ".." are.
LEMMA DotSlots ==
  ASSUME NEW f, NEW T, NEW par, NEW slot, Good(f, T, par, slot), NEW i \in DirsIn(f, T)
  PROVE  LET d == DirOf(f, i)
         IN  /\ {s \in Slots : d[s].name = "."} = {1} /\ {s \in Slots : d[s].name = ".."} = {2}
             /\ Pointer(d, ".") = i /\ Pointer(d, "..") = par[i]
<1> DEFINE d == DirOf(f, i)
<1>1. Holds(f, T, par, slot, i) /\ Home(f, i) \in Numbers BY DirFacts
<1>2. d[1] = Entry("Dir", ".", i) /\ d[2] = Entry("Dir", "..", par[i]) BY <1>1 DEF Holds
<1>3. \A s \in Slots : s > 2 => d[s].name \notin {".", ".."} BY <1>1 DEF Good, Typed, EntryOK, DirOf
<1>4. d[1].name = "." /\ d[2].name = ".." /\ d[1].inode = i /\ d[2].inode = par[i] BY <1>2 DEF Entry
<1> HIDE DEF d
<1>5. \A s \in Slots : s = 1 \/ s = 2 \/ s > 2 BY DiskAssumption DEF Slots
<1>6. 1 \in Slots /\ 2 \in Slots BY DiskAssumption DEF Slots
<1>7. {s \in Slots : d[s].name = "."} = {1} /\ {s \in Slots : d[s].name = ".."} = {2}
  BY <1>3, <1>4, <1>5, <1>6
<1>8. Least({1}) = 1 /\ Least({2}) = 2
  <2>1. Least({1}) \in {1} BY LeastIn
  <2>2. Least({2}) \in {2} BY LeastIn
  <2> QED BY <2>1, <2>2
<1> QED BY <1>4, <1>7, <1>8 DEF Pointer, d

\* What fdelete() writes.
LEMMA UnlinkedIs ==
  ASSUME NEW f, NEW T, NEW par, NEW slot, Good(f, T, par, slot),
         NEW w, Found(f, T, par, w), Removable(f, T, par, w.index)
  PROVE  LET m == [f EXCEPT !.ino[w.index].nlinks = IF w.node.mode = "Dir" THEN @ ELSE (@ - 1) % Word]
             g == IF IsGivenBack(w) THEN GivenBack(m, w) ELSE m
         IN  IsUnlinked(f, Unlinked(Counted(g, w), w, Dots(w)), par[w.index], w.index)
<1> DEFINE i == w.index
           p == par[i]
           d == DirOf(f, p)
           e == Cleared(d, i)
           c == IF IsDir(f, i) THEN i ELSE p
           dots == Dots(w)
           less == IF w.node.mode = "Dir" THEN f.ino[i].nlinks ELSE (f.ino[i].nlinks - 1) % Word
           m == [f EXCEPT !.ino[i].nlinks = IF w.node.mode = "Dir" THEN @ ELSE (@ - 1) % Word]
           g == IF IsGivenBack(w) THEN GivenBack(m, w) ELSE m
           k == Counted(g, w)
           o == Unlinked(k, w, dots)
<1>1. /\ Typed(f) /\ Shape(f, T) /\ f \in Disks /\ f.ino \in [Numbers -> Inodes]
      /\ f.dir \in [Numbers -> [Slots -> Entries]]
      /\ DOMAIN f = {"ino", "dir", "imap", "dmap", "blks", "inos"}
      /\ f.imap \in SUBSET Mapped /\ f.dmap \in SUBSET Mapped /\ f.blks \in Int /\ f.inos \in Int
  BY DEF Good, Typed, Disks
<1>2. /\ i \in T \ {0} /\ i \in Numbers /\ w.node = f.ino[i] /\ w.d = DirOf(f, c)
      /\ IsDir(f, i) => p = 0
      /\ f.ino[i].mode \in {"Dir", "File"}
      /\ IsDir(f, i) <=> f.ino[i].mode = "Dir"
  BY <1>1, MappedFinite DEF Found, Removable, Shape, IsDir
<1>3. /\ p \in DirsIn(f, T) /\ p # i /\ e \in [Slots -> Entries]
      /\ e[1].inode = d[1].inode /\ e[2].inode = d[2].inode
      /\ f.ino[p].size >= 1
  BY ClearedIs
<1>4. p \in T /\ p \in Numbers /\ Home(f, p) \in Numbers /\ Holds(f, T, par, slot, p)
  BY <1>3, DirFacts
<1>5. c \in DirsIn(f, T) BY <1>2, <1>3 DEF DirsIn
<1>6. par[0] = 0 BY DEF Good, Filing
<1> HIDE DEF c
<1>7. Pointer(w.d, dots) = p
  <2>1. Pointer(w.d, ".") = c /\ Pointer(w.d, "..") = par[c] BY <1>2, <1>5, DotSlots
  <2> QED BY <2>1, <1>2 DEF Dots, c
<1>8. e[Least({s \in Slots : w.d[s].name = dots})].inode = p
  <2>1. /\ {s \in Slots : w.d[s].name = "."} = {1} /\ {s \in Slots : w.d[s].name = ".."} = {2}
    BY <1>2, <1>5, DotSlots
  <2>2. Least({1}) \in {1} BY LeastIn
  <2>3. Least({2}) \in {2} BY LeastIn
  <2>4. d[1].inode = p /\ d[2].inode = par[p] BY <1>4 DEF Holds, Entry
  <2>5. CASE f.ino[i].mode = "Dir"
    <3>1. dots = ".." BY <2>5, <1>2 DEF Dots
    <3>2. e[2].inode = p BY <2>5, <2>4, <1>2, <1>3, <1>6
    <3> QED BY <3>1, <3>2, <2>1, <2>3
  <2>6. CASE f.ino[i].mode # "Dir"
    <3>1. dots = "." BY <2>6, <1>2 DEF Dots
    <3>2. e[1].inode = p BY <2>4, <1>3
    <3> QED BY <3>1, <3>2, <2>1, <2>2
  <2> QED BY <2>5, <2>6
<1>9. less \in Nat /\ IsGivenBack(w)
  <2>1. f.ino[i].nlinks \in Nat BY <1>1, <1>2 DEF Inodes
  <2>2. w.node.mode # "Dir" => f.ino[i].nlinks = 1 BY <1>1, <1>2 DEF Shape
  <2>3. 0 % Word = 0 BY DiskAssumption
  <2> QED BY <2>1, <2>2, <2>3, <1>2 DEF IsGivenBack
<1> DEFINE node == [f.ino[i] EXCEPT !.nlinks = less]
<1>10. /\ m = [f EXCEPT !.ino = [f.ino EXCEPT ![i] = node]]
       /\ node \in Inodes /\ node.blk = f.ino[i].blk /\ node.nlinks = less
  <2>1. f.ino[i] \in Inodes BY <1>1, <1>2
  <2>2. node \in Inodes /\ node.blk = f.ino[i].blk /\ node.nlinks = less BY <2>1, <1>9 DEF Inodes
  <2>3. m = [f EXCEPT !.ino = [f.ino EXCEPT ![i] = node]] BY <1>1, <1>2
  <2> QED BY <2>2, <2>3
<1> HIDE DEF m, node, less
<1>11. /\ m.ino = [f.ino EXCEPT ![i] = node] /\ m.dir = f.dir /\ m.imap = f.imap /\ m.dmap = f.dmap
       /\ m.blks = f.blks /\ m.inos = f.inos
       /\ DOMAIN m = {"ino", "dir", "imap", "dmap", "blks", "inos"}
       /\ m = [ino |-> m.ino, dir |-> m.dir, imap |-> m.imap, dmap |-> m.dmap, blks |-> m.blks, inos |-> m.inos]
  BY <1>1, <1>10 DEF Disks
<1>12. m.ino[i] = node BY <1>1, <1>2, <1>11
<1>13. g = GivenBack(m, w) BY <1>9, <1>10, <1>12
<1>14. {w.node.blk[l] : l \in 1..Len(w.node.blk)} = BlksOf(f, i) BY <1>2 DEF BlksOf
<1>15. /\ k.ino = m.ino /\ k.dir = f.dir /\ k.imap = f.imap \ {i} /\ k.dmap = f.dmap \ BlksOf(f, i)
       /\ k.blks = f.blks + Len(f.ino[i].blk) /\ k.inos = f.inos + 1
       /\ k = [ino |-> k.ino, dir |-> k.dir, imap |-> k.imap, dmap |-> k.dmap, blks |-> k.blks, inos |-> k.inos]
  <2>1. g = [m EXCEPT !.imap = @ \ {i}, !.dmap = @ \ BlksOf(f, i)] BY <1>13, <1>14 DEF GivenBack
  <2>2. k = [g EXCEPT !.blks = @ + Len(f.ino[i].blk), !.inos = @ + 1] BY <1>2 DEF Counted
  <2> HIDE DEF g, k
  <2>3. /\ g.ino = m.ino /\ g.dir = m.dir /\ g.imap = m.imap \ {i} /\ g.dmap = m.dmap \ BlksOf(f, i)
        /\ g.blks = m.blks /\ g.inos = m.inos
        /\ g = [ino |-> g.ino, dir |-> g.dir, imap |-> g.imap, dmap |-> g.dmap, blks |-> g.blks, inos |-> g.inos]
    BY <2>1, <1>11
  <2>4. /\ k.ino = g.ino /\ k.dir = g.dir /\ k.imap = g.imap /\ k.dmap = g.dmap
        /\ k.blks = g.blks + Len(f.ino[i].blk) /\ k.inos = g.inos + 1
        /\ k = [ino |-> k.ino, dir |-> k.dir, imap |-> k.imap, dmap |-> k.dmap, blks |-> k.blks, inos |-> k.inos]
    BY <2>2, <2>3
  <2> QED BY <2>3, <2>4, <1>11
<1> HIDE DEF k, g
<1> DEFINE q == Parent(k, w, dots)
<1>16. q = f.ino[p]
  <2>1. k.ino[p] = f.ino[p] BY <1>1, <1>2, <1>3, <1>4, <1>11, <1>15
  <2> QED BY <2>1, <1>4, <1>7 DEF Parent
<1>17. k.dir[q.blk[1]] = d BY <1>15, <1>16 DEF DirOf, Home
<1> DEFINE low == [f.ino[p] EXCEPT !.size = @ - 1]
<1>18. [q EXCEPT !.size = (@ - 1) % Word] = low /\ low \in Inodes
  <2>1. f.ino[p] \in Inodes /\ f.ino[p].size \in Nat BY <1>1, <1>4 DEF Inodes
  <2>2. f.ino[p].size + Uncounted(p) = 2 + Cardinality(Real(d)) /\ Uncounted(p) \in Nat
    BY <1>3 DEF Good, Sized, Uncounted
  <2>3. Cardinality(Real(d)) \in Nat /\ Cardinality(Real(d)) <= NSlots - 2
    <3>1. IsFiniteSet(3..NSlots) /\ Cardinality(3..NSlots) = NSlots - 2 BY FS_Interval, DiskAssumption
    <3>2. Real(d) \in SUBSET (3..NSlots) BY DEF Real
    <3>3. Cardinality(Real(d)) <= Cardinality(3..NSlots) BY <3>1, <3>2, FS_Subset
    <3> QED BY <3>1, <3>3, RealFinite
  <2>4. f.ino[p].size - 1 \in 0..(Word - 1) BY <2>1, <2>2, <2>3, <1>3, DiskAssumption
  <2>5. (f.ino[p].size - 1) % Word = f.ino[p].size - 1 BY <2>4, DiskAssumption
  <2>6. low \in Inodes BY <2>1, <2>4 DEF Inodes
  <2> QED BY <2>5, <2>6, <1>16
<1> HIDE DEF q, low, d, e, dots, p, i
<1>19. o = [k EXCEPT !.dir[Home(f, p)] = e, !.ino = [k.ino EXCEPT ![p] = low]]
  <2>1. Cleared(k.dir[q.blk[1]], w.index) = e BY <1>17 DEF e, i
  <2>2. q.blk[1] = Home(f, p) BY <1>16 DEF Home
  <2> QED BY <2>1, <2>2, <1>4, <1>8, <1>18 DEF Unlinked, q
<1> DEFINE ino == [k.ino EXCEPT ![p] = low]
           dir == [k.dir EXCEPT ![Home(f, p)] = e]
<1>20. ino \in [Numbers -> Inodes] /\ dir \in [Numbers -> [Slots -> Entries]]
  <2>1. ino \in [Numbers -> Inodes] BY <1>1, <1>2, <1>3, <1>4, <1>10, <1>11, <1>15, <1>18
  <2>2. dir \in [Numbers -> [Slots -> Entries]]
    BY <1>1, <1>2, <1>3, <1>4, <1>10, <1>11, <1>15, <1>18
  <2> QED BY <2>1, <2>2
<1>21. /\ ino[p] = low /\ ino[i] = node /\ \A j \in Numbers \ {i, p} : ino[j] = f.ino[j]
       /\ dir[Home(f, p)] = e /\ \A b \in Numbers \ {Home(f, p)} : dir[b] = f.dir[b]
  BY <1>1, <1>2, <1>3, <1>4, <1>11, <1>15
<1> HIDE DEF ino, o
<1>22. /\ o.ino = ino /\ o.dir = dir /\ o.imap = f.imap \ {i} /\ o.dmap = f.dmap \ BlksOf(f, i)
       /\ o.blks = f.blks + Len(f.ino[i].blk) /\ o.inos = f.inos + 1
       /\ o = [ino |-> o.ino, dir |-> o.dir, imap |-> o.imap, dmap |-> o.dmap, blks |-> o.blks, inos |-> o.inos]
  BY <1>15, <1>19 DEF ino
<1>23. o \in Disks
  <2>1. f.ino[i].blk \in Seq(Numbers) BY <1>1, <1>2, Parts
  <2>2. Len(f.ino[i].blk) \in Int BY <2>1
  <2>3. f.blks + Len(f.ino[i].blk) \in Int /\ f.inos + 1 \in Int BY <2>2, <1>1
  <2>4. f.imap \ {i} \in SUBSET Mapped /\ f.dmap \ BlksOf(f, i) \in SUBSET Mapped BY <1>1
  <2> HIDE DEF dir
  <2> QED BY <2>3, <2>4, <1>20, <1>22 DEF Disks
<1> HIDE DEF dir
<1>24. IsUnlinked(f, o, p, i) BY <1>10, <1>21, <1>22, <1>23 DEF IsUnlinked, low, e, d
<1> QED BY <1>24 DEF o, k, g, m, p, i, dots

-----------------------------------------------------------------------------
(* Blocks in their order *)

\* How many of some numbers are less than b
Rank(S, b) == Cardinality({c \in S : c < b})

\* Some numbers in their order are each of them once.
LEMMA InOrderIs ==
  ASSUME NEW S \in SUBSET Nat, IsFiniteSet(S)
  PROVE  /\ InOrder(S) \in Seq(S) /\ Len(InOrder(S)) = Cardinality(S)
         /\ \A k, l \in 1..Cardinality(S) : InOrder(S)[k] = InOrder(S)[l] => k = l
         /\ {InOrder(S)[k] : k \in 1..Cardinality(S)} = S
<1> DEFINE n == Cardinality(S)
           below(b) == {c \in S : c < b}
           r == [b \in S |-> Rank(S, b)]
           o == InOrder(S)
<1>0. \A b \in S : b \in Nat OBVIOUS
<1>1. n \in Nat BY FS_CardinalityType
<1>2. \A b \in S : IsFiniteSet(below(b)) /\ Rank(S, b) \in Nat
  BY FS_Subset, FS_CardinalityType DEF Rank
<1>3. ASSUME NEW b \in S, NEW c \in S, b < c PROVE Rank(S, b) < Rank(S, c)
  <2>1. below(b) \cup {b} \in SUBSET below(c)
    <3>1. ASSUME NEW x \in below(b) \cup {b} PROVE x \in S /\ x < c
      BY <1>0, <1>3
    <3> QED BY <3>1
  <2>2. b \notin below(b) BY <1>0
  <2> DEFINE B == below(b)
             C == below(c)
  <2>3. IsFiniteSet(B) /\ IsFiniteSet(C) /\ Cardinality(B) = Rank(S, b) /\ Cardinality(C) = Rank(S, c)
    BY <1>2 DEF Rank
  <2> HIDE DEF B, C
  <2>4. Cardinality(B \cup {b}) = Cardinality(B) + 1 BY <2>2, <2>3, FS_AddElement DEF B
  <2>5. Cardinality(B \cup {b}) <= Cardinality(C) BY <2>1, <2>3, FS_Subset DEF B, C
  <2>6. Rank(S, b) \in Nat /\ Rank(S, c) \in Nat BY <1>2
  <2> HIDE DEF below
  <2> QED BY <2>3, <2>4, <2>5, <2>6
<1>4. ASSUME NEW b \in S PROVE Rank(S, b) \in 0..(n - 1)
  <2> DEFINE B == below(b)
  <2>1. B \in SUBSET S /\ b \notin B /\ IsFiniteSet(B) /\ Cardinality(B) = Rank(S, b) /\ Cardinality(B) \in Nat BY <1>0, <1>2 DEF Rank
  <2> HIDE DEF B
  <2>2. Cardinality(B) <= n /\ (n = Cardinality(B) => S = B) BY <2>1, FS_Subset
  <2>3. Cardinality(B) # n BY <2>1, <2>2
  <2> HIDE DEF n
  <2> QED BY <2>1, <2>2, <2>3, <1>1
<1> HIDE DEF below, n
<1>5. IsFiniteSet(0..(n - 1)) /\ Cardinality(0..(n - 1)) = n BY <1>1, FS_Interval
<1>6. r \in Injection(S, 0..(n - 1))
  <2>1. r \in [S -> 0..(n - 1)] BY <1>4
  <2>2. ASSUME NEW b \in S, NEW c \in S, r[b] = r[c] PROVE b = c
    <3>1. Rank(S, b) = Rank(S, c) /\ Rank(S, b) \in Nat BY <2>2, <1>2
    <3>2. b \in Nat /\ c \in Nat BY <1>0
    <3>3. ~ b < c BY <3>1, <1>3, <1>2
    <3>4. ~ c < b BY <3>1, <1>3, <1>2
    <3> QED BY <3>2, <3>3, <3>4
  <2> QED BY <2>1, <2>2 DEF Injection, IsInjective
<1>7. r \in Surjection(S, 0..(n - 1)) BY <1>5, <1>6, FS_Injection DEF n
<1>8. \A k \in 0..(n - 1) : \E b \in S : Rank(S, b) = k BY <1>7 DEF Surjection
<1>9. o = [k \in 1..n |-> CHOOSE b \in S : Rank(S, b) = k - 1] BY DEF InOrder, Rank, n
<1> HIDE DEF r, o
<1>10. \A k \in 1..n : o[k] \in S /\ Rank(S, o[k]) = k - 1
  <2> SUFFICES ASSUME NEW k \in 1..n PROVE o[k] \in S /\ Rank(S, o[k]) = k - 1 OBVIOUS
  <2> HIDE DEF o
  <2>1. k - 1 \in 0..(n - 1) BY <1>1
  <2>2. \E b \in S : Rank(S, b) = k - 1 BY <2>1, <1>8
  <2>3. o[k] = CHOOSE b \in S : Rank(S, b) = k - 1 BY <1>9
  <2> QED BY <2>2, <2>3
<1>11. o \in [1..n -> S] BY <1>9, <1>10
<1>12. o \in Seq(S) /\ Len(o) = n BY <1>1, <1>11
<1>13. \A k, l \in 1..n : o[k] = o[l] => k = l
  <2> SUFFICES ASSUME NEW k \in 1..n, NEW l \in 1..n, o[k] = o[l] PROVE k = l OBVIOUS
  <2>1. k - 1 = l - 1 BY <1>10
  <2> QED BY <2>1, <1>1
<1>14. ASSUME NEW b \in S PROVE b \in {o[k] : k \in 1..n}
  <2> DEFINE k == Rank(S, b) + 1
  <2>1. k \in 1..n /\ k - 1 = Rank(S, b) BY <1>1, <1>4
  <2> HIDE DEF k
  <2>2. o[k] \in S /\ Rank(S, o[k]) = Rank(S, b) BY <2>1, <1>10
  <2> DEFINE c == o[k]
  <2>3. c \in S /\ Rank(S, c) = Rank(S, b) /\ Rank(S, b) \in Nat BY <2>2, <1>2
  <2> HIDE DEF c
  <2>4. ~ c < b /\ ~ b < c BY <2>3, <1>3
  <2>5. c = b BY <2>3, <2>4, <1>0
  <2> QED BY <2>1, <2>5 DEF c
<1>15. {o[k] : k \in 1..n} = S BY <1>10, <1>14
<1> QED BY <1>12, <1>13, <1>15 DEF o, n

-----------------------------------------------------------------------------
(* What create() and create_swapspace() make of the disk *)

\* From the tree T of f a step leads to one of g: clean if no block with a
\* file's bytes is taken for a directory, kept if nothing is marked in vain.
Leads(f, T, g, clean, kept) ==
  \E U, q, t : /\ Good(g, U, q, t) /\ Spared(f, g, T, U)
               /\ clean /\ NoJunk(f, T) => NoJunk(g, U)
               /\ kept /\ Whole(f, T) => Whole(g, U)

\* The new inode, before anything is written
IsNode(node, blks) ==
  /\ node \in Inodes /\ node.mode \in {"Dir", "File"} /\ Len(node.blk) >= 1
  /\ node.mode = "Dir" => Len(node.blk) = 1 /\ node.size = 2
  /\ node.mode = "File" => node.nlinks = 1
  /\ {node.blk[k] : k \in 1..Len(node.blk)} = blks
  /\ \A k, l \in 1..Len(node.blk) : node.blk[k] = node.blk[l] => k = l

\* A new file or directory with its entry.
LEMMA MadeGood ==
  ASSUME NEW f, NEW T, NEW par, NEW slot, Good(f, T, par, slot),
         NEW w, w.index \in DirsIn(f, T), w.node = f.ino[w.index], w.d = DirOf(f, w.index),
         NEW blks \in SUBSET Mapped, blks \cap f.dmap = {}, Search(f.imap) # MapSize,
         NEW node, IsNode(node, blks), NEW name \in Names \cup {Swap}, HasRoom(w)
  PROVE  LET i == Search(f.imap)
             g == Linked(Prepared(Taken(f, blks), w, i, node), w, name, i, node)
         IN  Leads(f, T, g, node.mode = "Dir" =>
                              \A c \in 3..NSlots : f.dir[node.blk[1]][c].type = "None", TRUE)
<1> DEFINE i == Search(f.imap)
           k == Taken(f, blks)
           g == Linked(Prepared(k, w, i, node), w, name, i, node)
           s == Least(Free(w.d))
           p == w.index
           U == T \cup {i}
           q == [par EXCEPT ![i] = p]
           t == [slot EXCEPT ![i] = s]
           clean == node.mode = "Dir" => \A c \in 3..NSlots : f.dir[node.blk[1]][c].type = "None"
<1>1. /\ Good(k, T, par, slot) /\ (NoJunk(f, T) => NoJunk(k, T))
      /\ k.ino = f.ino /\ k.dir = f.dir
      /\ k.imap = f.imap \cup {i} /\ k.dmap = f.dmap \cup blks
      /\ i \in Mapped \ f.imap
  BY TakenGood
<1> HIDE DEF k
<1>2. /\ DirsIn(k, T) = DirsIn(f, T) /\ DirOf(k, p) = DirOf(f, p)
      /\ \A j : BlksOf(k, j) = BlksOf(f, j)
  BY <1>1 DEF DirsIn, IsDir, DirOf, Home, BlksOf
<1>3. p \in DirsIn(k, T) /\ w.node = k.ino[p] /\ w.d = DirOf(k, p) /\ Free(w.d) # {}
  BY <1>1, <1>2 DEF HasRoom
<1>4. \A j \in T : BlksOf(f, j) \subseteq f.dmap BY DEF Good, Apart, BlksOf
<1>5. Fresh(k, T, i, node)
  <2>1. i \in k.imap \ T BY <1>1 DEF Good, Shape
  <2>2. \A m \in 1..Len(node.blk) : node.blk[m] \in blks BY DEF IsNode
  <2>3. \A m \in 1..Len(node.blk) : node.blk[m] \in k.dmap /\ \A j \in T : node.blk[m] \notin BlksOf(k, j)
    BY <2>2, <1>1, <1>2, <1>4
  <2> QED BY <2>1, <2>3 DEF IsNode, Fresh
<1> HIDE DEF i
<1>6. IsLinked(k, g, p, s, i, node, name) BY <1>1, <1>3, <1>5, LinkedIs
<1>7. s \in Slots
  <2>1. Least(Free(DirOf(k, p))) \in 3..NSlots BY <1>1, <1>3, FreeSlot
  <2> QED BY <2>1, <1>3, DiskAssumption DEF Slots
<1> HIDE DEF g
<1>8. /\ Good(g, U, q, t) /\ Spared(k, g, T, U)
      /\ (NoJunk(k, T) /\ (node.mode = "Dir" => \A c \in 3..NSlots : k.dir[node.blk[1]][c].type = "None"))
           => NoJunk(g, U)
      /\ (k.imap = U /\ k.dmap = (UNION {BlksOf(k, j) : j \in T}) \cup {node.blk[m] : m \in 1..Len(node.blk)})
           => Whole(g, U)
  <2>1. s = Least(Free(DirOf(k, p))) /\ Free(DirOf(k, p)) # {} BY <1>3
  <2> HIDE DEF s, p
  <2>2. Grown(k, g, T, par, slot, p, s, i, node) BY <2>1, <1>1, <1>3, <1>5, <1>6, <1>7, LinkedGood
  <2> QED BY <2>2 DEF Grown, U, q, t
<1>9. Spared(f, g, T, U) BY <1>1, <1>2, <1>8 DEF Spared
<1>10. clean /\ NoJunk(f, T) => NoJunk(g, U) BY <1>1, <1>8
<1>11. Whole(f, T) => Whole(g, U)
  <2> SUFFICES ASSUME Whole(f, T) PROVE Whole(g, U) OBVIOUS
  <2>1. k.imap = U BY <1>1 DEF Whole
  <2>2. (UNION {BlksOf(k, j) : j \in T}) = f.dmap BY <1>2 DEF Whole
  <2>3. {node.blk[m] : m \in 1..Len(node.blk)} = blks BY DEF IsNode
  <2> QED BY <2>1, <2>2, <2>3, <1>1, <1>8
<1> HIDE DEF clean, U, q, t
<1>12. Leads(f, T, g, clean, TRUE) BY <1>8, <1>9, <1>10, <1>11 DEF Leads
<1> QED BY <1>12 DEF clean, g, k, i

\* There is no slot free: an inode and blocks are marked and nothing has them.
LEMMA GivenUpGood ==
  ASSUME NEW f, NEW T, NEW par, NEW slot, Good(f, T, par, slot),
         NEW blks \in SUBSET Mapped, blks \cap f.dmap = {}, Search(f.imap) # MapSize
  PROVE  Leads(f, T, Taken(f, blks), TRUE, FALSE)
<1>1. LET g == Taken(f, blks)
      IN  /\ Good(g, T, par, slot) /\ (NoJunk(f, T) => NoJunk(g, T))
          /\ g.ino = f.ino /\ g.dir = f.dir
  BY TakenGood
<1>2. Spared(f, Taken(f, blks), T, T) BY <1>1 DEF Spared
<1> QED BY <1>1, <1>2 DEF Leads

-----------------------------------------------------------------------------
(* The operations, one by one *)

\* The first free number of a bitmap.
LEMMA SearchIn ==
  ASSUME NEW map \in SUBSET Mapped, Search(map) # MapSize
  PROVE  Search(map) \in Mapped \ map
<1> DEFINE S == Mapped \ map
<1>1. Search(map) = Least(S) /\ S # {} BY DEF Search
<1>2. S \in SUBSET Nat BY MappedFinite
<1> HIDE DEF S
<1>3. Least(S) \in S BY <1>1, <1>2, LeastIn
<1> QED BY <1>1, <1>3 DEF S

\* A directory that a path leads to.
LEMMA WalkedDir ==
  ASSUME NEW f, NEW T, NEW par, NEW slot, Good(f, T, par, slot),
         NEW w, Found(f, T, par, w), w.node.mode # "File"
  PROVE  w.index \in DirsIn(f, T) /\ w.node = f.ino[w.index] /\ w.d = DirOf(f, w.index)
<1>1. w.index \in T /\ w.node = f.ino[w.index] /\ IsDir(f, w.index)
  BY DEF Found, Good, Shape, IsDir
<1> QED BY <1>1 DEF Found, DirsIn

\* g is f with the inode of file i written, and no block but the file's own
IsWritten(f, g, i, node) ==
  /\ g \in Disks
  /\ g.imap = f.imap /\ g.dmap = f.dmap /\ g.blks = f.blks /\ g.inos = f.inos
  /\ g.ino[i] = node /\ \A j \in Numbers \ {i} : g.ino[j] = f.ino[j]
  /\ \A b \in Numbers : \A s \in Slots : g.dir[b][s] \in {Junk, f.dir[b][s]}
  /\ \A b \in Numbers : b \in BlksOf(f, i) \/ g.dir[b] = f.dir[b]

\* A file is written and its tree stays, if only to the file's own blocks.
LEMMA FileWritten ==
  ASSUME NEW f, NEW g, NEW T, NEW par, NEW slot, Good(f, T, par, slot),
         NEW i \in T, f.ino[i].mode = "File", NEW node \in Inodes, IsWritten(f, g, i, node),
         node.mode = f.ino[i].mode, node.blk = f.ino[i].blk, node.nlinks = f.ino[i].nlinks,
         "w" \in f.ino[i].acl \/ (node.acl = f.ino[i].acl /\ g.dir = f.dir)
  PROVE  Leads(f, T, g, TRUE, TRUE)
<1>1. Typed(f) /\ Shape(f, T) /\ Apart(f, T) /\ Leftover(f, T) /\ Counts(f) BY DEF Good
<1>2. i \in Numbers /\ T \subseteq Numbers BY <1>1, Parts, MappedFinite DEF Shape
<1>3. \A j \in T : /\ g.ino[j].mode = f.ino[j].mode /\ g.ino[j].blk = f.ino[j].blk
                   /\ g.ino[j].nlinks = f.ino[j].nlinks
                   /\ IsDir(f, j) => g.ino[j].size = f.ino[j].size
  BY <1>1, <1>2 DEF IsWritten, Shape, IsDir
<1>4. Typed(g)
  <2>1. \A j \in Numbers : Len(g.ino[j].blk) >= 1
    <3> SUFFICES ASSUME NEW j \in Numbers PROVE Len(g.ino[j].blk) >= 1 OBVIOUS
    <3>1. g.ino[j].blk = f.ino[j].blk BY DEF IsWritten
    <3> QED BY <3>1, <1>1 DEF Typed
  <2>2. \A s \in Slots : EntryOK(Junk, s)
    <3>1. Junk \in Entries BY DEF Junk, Entry, Entries, AllNames, Stray
    <3>2. Junk.type = "Junk" /\ Junk.name = NoName BY DEF Junk, Entry
    <3>3. NoName \notin {".", ".."} BY DiskAssumption
    <3> QED BY <3>1, <3>2, <3>3 DEF EntryOK
  <2>3. \A b \in Numbers : \A s \in Slots : EntryOK(g.dir[b][s], s)
    <3> SUFFICES ASSUME NEW b \in Numbers, NEW s \in Slots PROVE EntryOK(g.dir[b][s], s) OBVIOUS
    <3>1. g.dir[b][s] = Junk \/ g.dir[b][s] = f.dir[b][s] BY DEF IsWritten
    <3>2. EntryOK(f.dir[b][s], s) BY <1>1 DEF Typed
    <3> QED BY <2>2, <3>1, <3>2
  <2> QED BY <2>1, <2>3 DEF Typed, IsWritten
<1>5. ASSUME NEW b \in Numbers
      PROVE  \/ Real(g.dir[b]) = {} /\ \A j \in DirsIn(f, T) : Home(f, j) # b
             \/ g.dir[b] = f.dir[b]
  <2> SUFFICES ASSUME b \in BlksOf(f, i)
               PROVE  Real(g.dir[b]) = {} /\ \A j \in DirsIn(f, T) : Home(f, j) # b
    BY DEF IsWritten
  <2>1. \A j \in DirsIn(f, T) : Home(f, j) # b BY <1>1, HomesApart DEF DirsIn, IsDir, Shape
  <2>2. Real(f.dir[b]) = {} BY <2>1, <1>1 DEF Leftover
  <2>3. ASSUME NEW s \in Real(g.dir[b]) PROVE FALSE
    <3>1. s \in Slots /\ s \in 3..NSlots /\ g.dir[b][s].type \in {"Dir", "File"} BY RealFinite DEF Real
    <3>2. g.dir[b][s] # Junk BY <3>1 DEF Junk, Entry
    <3>3. g.dir[b][s] = f.dir[b][s] BY <3>1, <3>2 DEF IsWritten
    <3> QED BY <3>1, <3>3, <2>2 DEF Real
  <2> QED BY <2>1, <2>3
<1>6. SameTree(f, g, T)
  <2>1. Counts(g) BY <1>1 DEF Counts, IsWritten
  <2>2. f.imap \subseteq g.imap /\ f.dmap \subseteq g.dmap BY DEF IsWritten
  <2>3. \A b \in Numbers : \/ Real(g.dir[b]) = {} /\ \A j \in DirsIn(f, T) : Home(f, j) # b
                           \/ g.dir[b] = f.dir[b]
    BY <1>5
  <2> QED BY <2>1, <2>2, <2>3, <1>3, <1>4 DEF SameTree
<1>7. /\ Good(g, T, par, slot) /\ (NoJunk(f, T) => NoJunk(g, T))
      /\ (Whole(f, T) => Whole(g, T))
  BY <1>6, SameTreeGood DEF IsWritten
<1>8. Spared(f, g, T, T)
  <2> SUFFICES ASSUME NEW j \in T, f.ino[j].mode = "File", "w" \notin f.ino[j].acl
               PROVE  /\ g.ino[j].acl = f.ino[j].acl /\ g.ino[j].blk = f.ino[j].blk
                      /\ \A b \in BlksOf(f, j) : g.dir[b] = f.dir[b]
    BY DEF Spared
  <2>1. CASE j = i BY <2>1, <1>3 DEF IsWritten
  <2>2. CASE j # i
    <3>1. g.ino[j] = f.ino[j] BY <2>2, <1>2 DEF IsWritten
    <3>2. ASSUME NEW b \in BlksOf(f, j) PROVE g.dir[b] = f.dir[b]
      <4>1. b \notin BlksOf(f, i) BY <2>2, <1>1 DEF Apart, BlksOf
      <4>2. b \in f.dmap BY <1>1 DEF Apart, BlksOf
      <4>3. b \in Numbers BY <4>2, <1>1, Parts, MappedFinite
      <4> QED BY <4>1, <4>3 DEF IsWritten
    <3> QED BY <3>1, <3>2
  <2> QED BY <2>1, <2>2
<1> QED BY <1>7, <1>8 DEF Leads

\* One inode is written, and nothing else.
LEMMA InodeWritten ==
  ASSUME NEW f, Typed(f), NEW i \in Numbers, NEW node \in Inodes, NEW g,
         g = [f EXCEPT !.ino = [f.ino EXCEPT ![i] = node]]
  PROVE  IsWritten(f, g, i, node) /\ g.dir = f.dir
<1> DEFINE ino == [f.ino EXCEPT ![i] = node]
<1>1. f \in Disks BY DEF Typed
<1>2. f.ino \in [Numbers -> Inodes] BY <1>1, Parts
<1>3. /\ ino \in [Numbers -> Inodes] /\ ino[i] = node /\ \A j \in Numbers \ {i} : ino[j] = f.ino[j]
  BY <1>2
<1> HIDE DEF ino
<1>4. /\ g.ino = ino /\ g.dir = f.dir /\ g.imap = f.imap /\ g.dmap = f.dmap /\ g.blks = f.blks /\ g.inos = f.inos
      /\ g = [ino |-> g.ino, dir |-> g.dir, imap |-> g.imap, dmap |-> g.dmap, blks |-> g.blks, inos |-> g.inos]
  <2>1. g = [f EXCEPT !.ino = ino] BY DEF ino
  <2> QED BY <2>1, <1>1 DEF Disks
<1>5. g \in Disks BY <1>1, <1>3, <1>4 DEF Disks
<1> QED BY <1>3, <1>4, <1>5 DEF IsWritten

\* A swap file that is made in a directory.
LEMMA SwapGood ==
  ASSUME NEW f, NEW T, NEW par, NEW slot, Good(f, T, par, slot),
         NEW w, w.index \in DirsIn(f, T), w.node = f.ino[w.index], w.d = DirOf(f, w.index),
         CanSwap(f), Search(f.imap) # MapSize, NEW name \in Names \cup {Swap}, NEW acl \in Modes
  PROVE  Leads(f, T, SwapMade(f, w, name, acl), TRUE, HasRoom(w))
<1> DEFINE blks == FirstFree(f, SwapBlks)
           node == [PlainFile(InOrder(blks)) EXCEPT !.acl = acl]
           i == Search(f.imap)
<1>1. blks \in SUBSET Mapped /\ blks \cap f.dmap = {} BY DEF FirstFree
<1>2. Cardinality(blks) = SwapBlks /\ SwapBlks \in Nat \ {0} BY DiskAssumption DEF CanSwap
<1> HIDE DEF blks
<1>3. blks \in SUBSET Nat /\ IsFiniteSet(blks) /\ blks \subseteq Numbers BY <1>1, MappedFinite
<1> DEFINE o == InOrder(blks)
<1>4. /\ o \in Seq(blks) /\ Len(o) = SwapBlks
      /\ \A k, l \in 1..SwapBlks : o[k] = o[l] => k = l
      /\ {o[k] : k \in 1..SwapBlks} = blks
  BY <1>2, <1>3, InOrderIs
<1> HIDE DEF o
<1>5. o \in Seq(Numbers) BY <1>3, <1>4
<1>6. acl \in SUBSET {"r", "w"} BY DiskAssumption
<1>7. node = [mode |-> "File", size |-> 0, nlinks |-> 1, blk |-> o, acl |-> acl]
  <2>1. PlainFile(o) = [mode |-> "File", size |-> 0, nlinks |-> 1, blk |-> o, acl |-> {"r", "w"}] BY DEF PlainFile
  <2>2. node = [PlainFile(o) EXCEPT !.acl = acl] BY DEF o
  <2> QED BY <2>1, <2>2
<1>8. IsNode(node, blks) BY <1>2, <1>4, <1>5, <1>6, <1>7 DEF IsNode, Inodes
<1>9. SwapMade(f, w, name, acl) = IF HasRoom(w) THEN Linked(Taken(f, blks), w, name, i, node) ELSE Taken(f, blks)
  BY DEF SwapMade, HasRoom, blks
<1>10. node.mode = "File" BY <1>7
<1> HIDE DEF node
<1>11. CASE HasRoom(w)
  <2> DEFINE g == Linked(Prepared(Taken(f, blks), w, i, node), w, name, i, node)
  <2>1. Leads(f, T, g, node.mode = "Dir" => \A c \in 3..NSlots : f.dir[node.blk[1]][c].type = "None", TRUE)
    BY <1>1, <1>8, <1>11, MadeGood
  <2>2. g = SwapMade(f, w, name, acl) BY <1>9, <1>10, <1>11 DEF Prepared
  <2> HIDE DEF g
  <2>3. Leads(f, T, g, TRUE, HasRoom(w)) BY <2>1, <1>10, <1>11 DEF Leads
  <2> QED BY <2>2, <2>3
<1>12. CASE ~ HasRoom(w)
  <2>1. Leads(f, T, Taken(f, blks), TRUE, FALSE) BY <1>1, GivenUpGood
  <2> QED BY <2>1, <1>9, <1>12 DEF Leads
<1> QED BY <1>11, <1>12

\* What a step makes of the tree T, by the marks it leaves
Steps(T) == Leads(fs, T, fs', NoneOf({"reused"})', NoneOf({"full"})')

\* A mark that must not be there was not left by the step.
LEMMA NotMarked ==
  ASSUME NEW marks, Marked(marks), NoneOf(Upsetting)'
  PROVE  /\ "astray" \notin marks /\ "exhausted" \notin marks /\ "nested" \notin marks
         /\ "grown" \notin marks /\ "crash" \notin marks
         /\ NoneOf({"reused"})' => "reused" \notin marks
         /\ NoneOf({"full"})' => "full" \notin marks
BY DEF Marked, NoneOf, Upsetting

\* create() of a file or a directory.
LEMMA CreateKeeps ==
  ASSUME NEW T, NEW par, NEW slot, Good(fs, T, par, slot), NEW path \in Paths, NEW name \in Names,
         NEW type \in {"File", "Dir"}, Create(path, name, type), NoneOf(Upsetting)'
  PROVE  Steps(T)
<1> DEFINE w == Walk(path)
           i == Search(fs.imap)
           b == Search(fs.dmap)
           node == IF type = "Dir" THEN Directory(b) ELSE PlainFile(<<b>>)
           marks == When(w.index = Nowhere, "astray") \cup When(~ HasRoom(w), "full")
                    \cup When(MapSize \in {i, b}, "exhausted")
                    \cup When(type = "Dir" /\ \E s \in 3..NSlots : s \in Used(fs.dir[b]), "reused")
                    \cup When(Named(w.d, name) # {}, "twice")
<1>1. /\ w.node.mode # "File" /\ Marked(marks)
      /\ fs' = IF HasRoom(w) THEN Linked(Prepared(Taken(fs, {b}), w, i, node), w, name, i, node)
               ELSE Taken(fs, {b})
  BY DEF Create
<1>2. /\ "astray" \notin marks /\ "exhausted" \notin marks
      /\ NoneOf({"reused"})' => "reused" \notin marks
      /\ NoneOf({"full"})' => "full" \notin marks
  BY <1>1, NotMarked
<1>3. /\ w.index # Nowhere /\ i # MapSize /\ b # MapSize
      /\ NoneOf({"full"})' => HasRoom(w)
      /\ NoneOf({"reused"})' /\ type = "Dir" => \A s \in 3..NSlots : s \notin Used(fs.dir[b])
  BY <1>2 DEF When
<1> HIDE DEF marks
<1>4. /\ w.index \in DirsIn(fs, T) /\ w.node = fs.ino[w.index] /\ w.d = DirOf(fs, w.index)
  <2>1. After(fs, T, par, w, Len(path)) BY PathIs, WalkAfter DEF Walk
  <2>2. Found(fs, T, par, w) BY <2>1, <1>3 DEF After
  <2> QED BY <2>2, <1>1, WalkedDir
<1> HIDE DEF w
<1>5. fs.dmap \in SUBSET Mapped /\ fs.dir \in [Numbers -> [Slots -> Entries]] BY Parts DEF Good
<1>6. b \in Mapped \ fs.dmap BY <1>3, <1>5, SearchIn
<1>7. {b} \in SUBSET Mapped /\ {b} \cap fs.dmap = {} /\ b \in Numbers BY <1>6, MappedFinite
<1> HIDE DEF b
<1>8. /\ node \in Inodes /\ node.mode = type /\ node.blk = <<b>>
      /\ type = "Dir" => node.size = 2
      /\ type = "File" => node.nlinks = 1
  <2> DEFINE o == <<b>>
             a == {"r", "w"}
  <2>1. o \in Seq(Numbers) /\ a \in SUBSET {"r", "w"} BY <1>7
  <2>2. type = "Dir" => node = [mode |-> "Dir", size |-> 2, nlinks |-> 3, blk |-> o, acl |-> a]
    BY DEF Directory
  <2>3. type = "File" => node = [mode |-> "File", size |-> 0, nlinks |-> 1, blk |-> o, acl |-> a]
    BY DEF PlainFile
  <2> HIDE DEF node, o, a
  <2>4. CASE type = "Dir"
    <3>1. node = [mode |-> "Dir", size |-> 2, nlinks |-> 3, blk |-> o, acl |-> a] BY <2>2, <2>4
    <3>2. node \in Inodes BY <2>1, <3>1 DEF Inodes
    <3>3. node.mode = "Dir" /\ node.blk = o /\ node.size = 2 BY <3>1
    <3> QED BY <2>4, <3>2, <3>3 DEF o
  <2>5. CASE type = "File"
    <3>1. node = [mode |-> "File", size |-> 0, nlinks |-> 1, blk |-> o, acl |-> a] BY <2>3, <2>5
    <3>2. node \in Inodes BY <2>1, <3>1 DEF Inodes
    <3>3. node.mode = "File" /\ node.blk = o /\ node.nlinks = 1 BY <3>1
    <3> QED BY <2>5, <3>2, <3>3 DEF o
  <2> QED BY <2>4, <2>5
<1> HIDE DEF node
<1>9. IsNode(node, {b})
  <2>1. Len(node.blk) = 1 /\ node.blk[1] = b BY <1>8
  <2>2. {node.blk[k] : k \in 1..Len(node.blk)} = {b} BY <2>1
  <2> QED BY <2>1, <2>2, <1>8 DEF IsNode
<1>10. NoneOf({"reused"})' => (node.mode = "Dir" => \A c \in 3..NSlots : fs.dir[node.blk[1]][c].type = "None")
  <2> SUFFICES ASSUME NoneOf({"reused"})', type = "Dir", NEW c \in 3..NSlots PROVE fs.dir[b][c].type = "None"
    BY <1>8
  <2>1. c \in Slots /\ c \notin Used(fs.dir[b]) BY <1>3, DiskAssumption DEF Slots
  <2> QED BY <2>1 DEF Used
<1>11. CASE HasRoom(w)
  <2> DEFINE g == Linked(Prepared(Taken(fs, {b}), w, i, node), w, name, i, node)
  <2>1. Leads(fs, T, g, node.mode = "Dir" => \A c \in 3..NSlots : fs.dir[node.blk[1]][c].type = "None", TRUE)
    BY <1>3, <1>4, <1>7, <1>9, <1>11, MadeGood
  <2>2. fs' = g BY <1>1, <1>11
  <2> HIDE DEF g
  <2>3. PICK U, q, t : /\ Good(g, U, q, t) /\ Spared(fs, g, T, U)
                       /\ (node.mode = "Dir" => \A c \in 3..NSlots : fs.dir[node.blk[1]][c].type = "None")
                            /\ NoJunk(fs, T) => NoJunk(g, U)
                       /\ Whole(fs, T) => Whole(g, U)
    BY <2>1 DEF Leads
  <2> QED BY <2>2, <2>3, <1>10 DEF Steps, Leads
<1>12. CASE ~ HasRoom(w)
  <2> DEFINE g == Taken(fs, {b})
  <2>1. Leads(fs, T, g, TRUE, FALSE) BY <1>3, <1>7, GivenUpGood
  <2>2. fs' = g BY <1>1, <1>12
  <2> HIDE DEF g
  <2>3. PICK U, q, t : /\ Good(g, U, q, t) /\ Spared(fs, g, T, U)
                       /\ NoJunk(fs, T) => NoJunk(g, U)
    BY <2>1 DEF Leads
  <2> QED BY <2>2, <2>3, <1>3, <1>12 DEF Steps, Leads
<1> QED BY <1>11, <1>12

\* A step that leads somewhere whatever marks it leaves.
LEMMA AlwaysLeads ==
  ASSUME NEW T, Leads(fs, T, fs', TRUE, TRUE)
  PROVE  Steps(T)
BY DEF Steps, Leads

\* "mkswap".
LEMMA CreateSwapKeeps ==
  ASSUME NEW T, NEW par, NEW slot, Good(fs, T, par, slot), NEW path \in Paths, NEW name \in Names,
         NEW acl \in Modes, CreateSwap(path, name, acl), NoneOf(Upsetting)'
  PROVE  Steps(T)
<1> DEFINE w == Walk(path)
           marks == When(w.index = Nowhere, "astray") \cup SwapMarks(fs, w, name)
<1>1. /\ w.node.mode # "File" /\ CanSwap(fs) /\ Marked(marks) /\ fs' = SwapMade(fs, w, name, acl)
  BY DEF CreateSwap
<1>2. /\ "astray" \notin marks /\ "exhausted" \notin marks
      /\ NoneOf({"full"})' => "full" \notin marks
  BY <1>1, NotMarked
<1>3. w.index # Nowhere /\ Search(fs.imap) # MapSize /\ (NoneOf({"full"})' => HasRoom(w))
  BY <1>2 DEF When, SwapMarks
<1>4. w.index \in DirsIn(fs, T) /\ w.node = fs.ino[w.index] /\ w.d = DirOf(fs, w.index)
  <2>1. After(fs, T, par, w, Len(path)) BY PathIs, WalkAfter DEF Walk
  <2>2. Found(fs, T, par, w) BY <2>1, <1>3 DEF After
  <2> QED BY <2>2, <1>1, WalkedDir
<1> HIDE DEF w, marks
<1>5. Leads(fs, T, fs', TRUE, HasRoom(w)) BY <1>1, <1>3, <1>4, SwapGood
<1> QED BY <1>3, <1>5 DEF Steps, Leads

\* fdelete() of a file or a directory.
LEMMA DeleteKeeps ==
  ASSUME NEW T, NEW par, NEW slot, Good(fs, T, par, slot), NEW path \in Paths,
         Delete(path), NoneOf(Upsetting)'
  PROVE  Steps(T)
<1> DEFINE w == Walk(path)
           i == w.index
           marks == When(w.node.mode = "Dir" /\ Len(path) > 1, "nested")
           m == [fs EXCEPT !.ino[i].nlinks = IF w.node.mode = "Dir" THEN @ ELSE (@ - 1) % Word]
           k == IF IsGivenBack(w) THEN GivenBack(m, w) ELSE m
           g == Unlinked(Counted(k, w), w, Dots(w))
<1>1. /\ path # <<>> /\ i # Nowhere /\ May(w.node, "w")
      /\ w.node.mode = "Dir" => w.node.size <= 2
      /\ Marked(marks) /\ fs' = g
  BY DEF Delete, Deletable
<1>2. ~ (w.node.mode = "Dir" /\ Len(path) > 1)
  <2>1. "nested" \notin marks BY <1>1, NotMarked
  <2> QED BY <2>1 DEF When
<1> HIDE DEF marks
<1>3. path \in Seq(Names \cup {Swap}) /\ Len(path) \in Nat \ {0}
  <2>1. path \in Seq(Names \cup {Swap}) BY PathIs
  <2> QED BY <2>1, <1>1
<1>4. Found(fs, T, par, w) /\ i # 0 /\ (Len(path) = 1 => par[i] = 0)
  <2>1. After(fs, T, par, w, Len(path)) BY <1>3, WalkAfter DEF Walk
  <2> QED BY <2>1, <1>1, <1>3 DEF After
<1> HIDE DEF w
<1>5. i \in T \ {0} /\ w.node = fs.ino[i] BY <1>4 DEF Found
<1>6. Removable(fs, T, par, i)
  <2> SUFFICES ASSUME fs.ino[i].mode = "Dir" PROVE par[i] = 0 /\ Real(DirOf(fs, i)) = {}
    BY <1>5 DEF Removable, IsDir
  <2>0. w.node.mode = "Dir" BY <1>5
  <2>1. par[i] = 0
    <3>1. ~ (Len(path) > 1) BY <1>2, <2>0
    <3> DEFINE n == Len(path)
    <3>2. n \in Nat \ {0} /\ ~ (n > 1) /\ (n = 1 => par[i] = 0) BY <1>3, <1>4, <3>1
    <3> HIDE DEF n
    <3>3. n = 1 BY <3>2
    <3> QED BY <3>2, <3>3
  <2>2. fs.ino[i].size = 2 + Cardinality(Real(DirOf(fs, i)))
    <3>1. fs.ino[i].size + Uncounted(i) = 2 + Cardinality(Real(DirOf(fs, i))) /\ Uncounted(i) = 0
      BY <1>5 DEF Good, Sized, DirsIn, IsDir, Uncounted
    <3>2. fs.ino[i].size \in Nat BY <1>5, Parts, MappedFinite DEF Good, Shape, Inodes
    <3> QED BY <3>1, <3>2
  <2>3. IsFiniteSet(Real(DirOf(fs, i))) /\ Cardinality(Real(DirOf(fs, i))) \in Nat BY RealFinite
  <2>4. Cardinality(Real(DirOf(fs, i))) = 0 BY <2>2, <2>3, <1>1, <1>5
  <2> QED BY <2>1, <2>3, <2>4, FS_EmptySet
<1>7. IsUnlinked(fs, g, par[i], i) BY <1>4, <1>6, UnlinkedIs
<1> HIDE DEF g
<1>8. /\ Good(g, T \ {i}, par, slot)
      /\ (fs.ino[i].mode = "File" => "w" \in fs.ino[i].acl) => Spared(fs, g, T, T \ {i})
      /\ NoJunk(fs, T) => NoJunk(g, T \ {i})
      /\ Whole(fs, T) => Whole(g, T \ {i})
  BY <1>6, <1>7, UnlinkedGood
<1>9. Spared(fs, g, T, T \ {i}) BY <1>1, <1>5, <1>8 DEF May
<1>10. Leads(fs, T, g, TRUE, TRUE) BY <1>8, <1>9 DEF Leads
<1> QED BY <1>1, <1>10, AlwaysLeads

\* What ToFile() has found out.
LEMMA FileFound ==
  ASSUME NEW T, NEW par, NEW slot, Good(fs, T, par, slot), NEW path \in Paths,
         NEW right \in {"r", "w"}, ToFile(Walk(path), right)
  PROVE  LET w == Walk(path)
         IN  /\ w.index \in T /\ w.index \in Numbers /\ w.node = fs.ino[w.index]
             /\ w.node.mode = "File" /\ right \in w.node.acl
             /\ Typed(fs) /\ w.node \in Inodes
<1> DEFINE w == Walk(path)
<1>1. w.index # Nowhere /\ w.node.mode = "File" /\ right \in w.node.acl BY DEF ToFile, May
<1>2. After(fs, T, par, w, Len(path)) BY PathIs, WalkAfter DEF Walk
<1>3. Found(fs, T, par, w) BY <1>1, <1>2 DEF After
<1>4. Typed(fs) /\ Shape(fs, T) BY DEF Good
<1>5. T \subseteq Numbers /\ fs.ino \in [Numbers -> Inodes] BY <1>4, Parts, MappedFinite DEF Shape
<1> HIDE DEF w
<1>6. w.index \in T /\ w.index \in Numbers /\ w.node = fs.ino[w.index] BY <1>3, <1>5 DEF Found
<1>7. w.node \in Inodes BY <1>5, <1>6
<1> QED BY <1>1, <1>4, <1>6, <1>7 DEF w

\* chmod
LEMMA ChmodKeeps ==
  ASSUME NEW T, NEW par, NEW slot, Good(fs, T, par, slot), NEW path \in Paths, NEW mode \in Modes,
         Chmod(path, mode)
  PROVE  Steps(T)
<1> DEFINE w == Walk(path)
           i == w.index
           node == [w.node EXCEPT !.acl = mode]
<1>1. ToFile(w, "w") /\ fs' = [fs EXCEPT !.ino[i].acl = mode] BY DEF Chmod
<1>2. /\ i \in T /\ i \in Numbers /\ w.node = fs.ino[i] /\ w.node.mode = "File"
      /\ "w" \in w.node.acl /\ Typed(fs) /\ w.node \in Inodes
  BY <1>1, FileFound
<1> HIDE DEF w
<1>3. mode \in SUBSET {"r", "w"} BY DiskAssumption
<1>4. /\ node \in Inodes /\ node.mode = w.node.mode /\ node.blk = w.node.blk /\ node.nlinks = w.node.nlinks
  BY <1>2, <1>3 DEF Inodes
<1>5. fs' = [fs EXCEPT !.ino = [fs.ino EXCEPT ![i] = node]] BY <1>1, <1>2
<1> HIDE DEF node
<1>6. IsWritten(fs, fs', i, node) BY <1>2, <1>4, <1>5, InodeWritten
<1>7. Leads(fs, T, fs', TRUE, TRUE) BY <1>2, <1>4, <1>6, FileWritten
<1> QED BY <1>7, AlwaysLeads

\* open()
LEMMA OpenKeeps ==
  ASSUME NEW T, NEW par, NEW slot, Good(fs, T, par, slot), NEW path \in Paths, Open(path)
  PROVE  Steps(T)
<1> DEFINE w == Walk(path)
           i == w.index
           node == [w.node EXCEPT !.size = 0]
<1>1. ToFile(w, "r") /\ fs' = [fs EXCEPT !.ino[i].size = 0] BY DEF Open
<1>2. /\ i \in T /\ i \in Numbers /\ w.node = fs.ino[i] /\ w.node.mode = "File"
      /\ Typed(fs) /\ w.node \in Inodes
  BY <1>1, FileFound
<1> HIDE DEF w
<1>4. /\ node \in Inodes /\ node.mode = w.node.mode /\ node.blk = w.node.blk /\ node.nlinks = w.node.nlinks
      /\ node.acl = w.node.acl
  BY <1>2 DEF Inodes
<1>5. fs' = [fs EXCEPT !.ino = [fs.ino EXCEPT ![i] = node]] BY <1>1, <1>2
<1> HIDE DEF node
<1>6. IsWritten(fs, fs', i, node) /\ fs'.dir = fs.dir BY <1>2, <1>4, <1>5, InodeWritten
<1>7. Leads(fs, T, fs', TRUE, TRUE) BY <1>2, <1>4, <1>6, FileWritten
<1> QED BY <1>7, AlwaysLeads

\* write(), which gives the file no further block.
LEMMA WriteKeeps ==
  ASSUME NEW T, NEW par, NEW slot, Good(fs, T, par, slot), NEW path \in Paths, NEW n \in Sizes,
         NEW db, Write(path, n, db), NoneOf(Upsetting)'
  PROVE  Steps(T)
<1> DEFINE w == Walk(path)
           i == w.index
           extra == Added(w.node, n)
           more == [k \in 1..extra |-> db]
           blk == w.node.blk \o more
           dir == [b \in Numbers |->
                     [s \in Slots |->
                        IF \E k \in 1..Len(blk) : blk[k] = b /\ Covers(Part(n, k), s)
                        THEN Junk ELSE fs.dir[b][s]]]
           marks == When(extra > 0, "grown")
           node == [w.node EXCEPT !.size = n]
<1>1. /\ ToFile(w, "w") /\ Marked(marks)
      /\ fs' = [fs EXCEPT !.ino[i].size = n, !.ino[i].blk = blk, !.dir = dir]
  BY DEF Write
<1>2. /\ i \in T /\ i \in Numbers /\ w.node = fs.ino[i] /\ w.node.mode = "File"
      /\ "w" \in w.node.acl /\ Typed(fs) /\ w.node \in Inodes
  BY <1>1, FileFound
<1>3. "grown" \notin marks BY <1>1, NotMarked
<1>4. ~ (extra > 0) BY <1>3 DEF When
<1> HIDE DEF w
<1>5. n \in Nat /\ PerBlock \in Nat \ {0} /\ w.node.size \in Nat BY <1>2, DiskAssumption DEF Inodes
<1>6. extra \in Int BY <1>5 DEF Added
<1> HIDE DEF extra
<1>7. w.node.blk \in Seq(Numbers) BY <1>2 DEF Inodes
<1>8. blk = w.node.blk
  <2>1. 1..extra = {} BY <1>4, <1>6
  <2>2. more = <<>> BY <2>1
  <2> HIDE DEF more
  <2> QED BY <2>2, <1>7
<1> HIDE DEF blk
<1>9. node \in Inodes /\ node.mode = w.node.mode /\ node.blk = w.node.blk /\ node.nlinks = w.node.nlinks
  BY <1>2, <1>5 DEF Inodes
<1>10. fs' = [[fs EXCEPT !.ino = [fs.ino EXCEPT ![i] = node]] EXCEPT !.dir = dir]
  <2> HIDE DEF dir
  <2>1. fs' = [[fs EXCEPT !.ino = [fs.ino EXCEPT ![i] = [node EXCEPT !.blk = blk]]] EXCEPT !.dir = dir]
    BY <1>1, <1>2, Parts
  <2>2. [node EXCEPT !.blk = blk] = node BY <1>8, <1>9 DEF Inodes
  <2> QED BY <2>1, <2>2
<1> DEFINE k == [fs EXCEPT !.ino = [fs.ino EXCEPT ![i] = node]]
<1> HIDE DEF node
<1>11. IsWritten(fs, k, i, node) /\ k.dir = fs.dir BY <1>2, <1>9, InodeWritten
<1> HIDE DEF k
<1>12. fs' = [k EXCEPT !.dir = dir] BY <1>10 DEF k
<1>13. /\ fs.dir \in [Numbers -> [Slots -> Entries]] /\ Junk \in Entries
  BY <1>2, Parts DEF Junk, Entry, Entries, AllNames, Stray
<1>14. /\ dir \in [Numbers -> [Slots -> Entries]]
       /\ \A b \in Numbers : \A s \in Slots : dir[b][s] \in {Junk, fs.dir[b][s]}
  <2>1. \A b \in Numbers : \A s \in Slots : fs.dir[b][s] \in Entries BY <1>13
  <2> QED BY <2>1, <1>13
<1>15. ASSUME NEW b \in Numbers, b \notin BlksOf(fs, i) PROVE dir[b] = fs.dir[b]
  <2>1. \A c \in 1..Len(blk) : blk[c] # b BY <1>2, <1>8, <1>15 DEF BlksOf
  <2>2. dir[b] = [s \in Slots |-> fs.dir[b][s]] BY <2>1
  <2>3. fs.dir[b] \in [Slots -> Entries] BY <1>13
  <2> QED BY <2>2, <2>3
<1> HIDE DEF dir
<1>16. /\ fs'.ino = k.ino /\ fs'.dir = dir /\ fs'.imap = k.imap /\ fs'.dmap = k.dmap
       /\ fs'.blks = k.blks /\ fs'.inos = k.inos
       /\ fs' \in Disks
  BY <1>11, <1>12, <1>14 DEF IsWritten, Disks
<1>17. IsWritten(fs, fs', i, node) BY <1>11, <1>14, <1>15, <1>16 DEF IsWritten
<1>18. Leads(fs, T, fs', TRUE, TRUE) BY <1>2, <1>9, <1>17, FileWritten
<1> QED BY <1>18, AlwaysLeads

-----------------------------------------------------------------------------
(* Start and end *)

\* The kernel makes the swap file or empties it.
LEMMA BootedGood ==
  ASSUME NEW f, NEW T, NEW par, NEW slot, Good(f, T, par, slot), CanBoot(f), NEW acl \in Modes,
         "exhausted" \notin BootMarks(f)
  PROVE  Leads(f, T, Booted(f, acl), TRUE, "full" \notin BootMarks(f))
<1> DEFINE w == WalkIn(f, <<Swap>>)
           r == WalkIn(f, <<>>)
<1>1. After(f, T, par, w, Len(<<Swap>>)) /\ r = Root(f)
  <2>1. <<Swap>> \in Seq(Names \cup {Swap}) /\ <<>> \in Seq(Names \cup {Swap}) OBVIOUS
  <2> QED BY <2>1, WalkAfter
<1>2. /\ CanBoot(f) = (w.index = Nowhere => f.blks >= SwapBlks /\ CanSwap(f))
      /\ BootMarks(f) = IF w.index = Nowhere THEN SwapMarks(f, r, Swap) ELSE {}
      /\ Booted(f, acl) = IF w.index = Nowhere THEN SwapMade(f, r, Swap, acl)
                          ELSE IF w.node.mode = "Dir" THEN f ELSE [f EXCEPT !.ino[w.index].size = 0]
  BY DEF CanBoot, BootMarks, Booted
<1> HIDE DEF w, r
<1>3. CASE w.index = Nowhere
  <2>1. CanSwap(f) /\ Search(f.imap) # MapSize /\ ("full" \notin BootMarks(f) => HasRoom(r))
    BY <1>2, <1>3 DEF SwapMarks, When
  <2>2. r.index \in DirsIn(f, T) /\ r.node = f.ino[r.index] /\ r.d = DirOf(f, r.index)
    <3>1. r.index = 0 /\ r.node = f.ino[0] /\ r.d = DirOf(f, 0) BY <1>1 DEF Root, DirOf, Home
    <3> QED BY <3>1 DEF Good, Shape, DirsIn, IsDir
  <2>3. Leads(f, T, SwapMade(f, r, Swap, acl), TRUE, HasRoom(r)) BY <2>1, <2>2, SwapGood
  <2> QED BY <1>2, <1>3, <2>1, <2>3 DEF Leads
<1>4. CASE w.index # Nowhere /\ w.node.mode = "Dir"
  <2>1. Spared(f, f, T, T) BY DEF Spared
  <2> QED BY <1>2, <1>4, <2>1 DEF Leads
<1>5. CASE w.index # Nowhere /\ w.node.mode # "Dir"
  <2>1. w.index \in T /\ w.node = f.ino[w.index] /\ w.index # 0
    <3>1. Len(<<Swap>>) = 1 OBVIOUS
    <3> QED BY <3>1, <1>1, <1>5 DEF After, Found
  <2>2. Typed(f) /\ Shape(f, T) BY DEF Good
  <2>3. T \subseteq Numbers /\ f.ino \in [Numbers -> Inodes] BY <2>2, Parts, MappedFinite DEF Shape
  <2> DEFINE i == w.index
             node == [f.ino[i] EXCEPT !.size = 0]
             g == [f EXCEPT !.ino = [f.ino EXCEPT ![i] = node]]
  <2>4. i \in T /\ i \in Numbers /\ f.ino[i] \in Inodes /\ f.ino[i].mode = "File"
    BY <2>1, <2>2, <2>3, <1>5 DEF Shape
  <2>5. Booted(f, acl) = g BY <1>2, <1>5
  <2> HIDE DEF i
  <2>6. /\ node \in Inodes /\ node.mode = f.ino[i].mode /\ node.blk = f.ino[i].blk
        /\ node.nlinks = f.ino[i].nlinks /\ node.acl = f.ino[i].acl
    BY <2>4 DEF Inodes
  <2> HIDE DEF node
  <2>7. IsWritten(f, g, i, node) /\ g.dir = f.dir BY <2>2, <2>4, <2>6, InodeWritten
  <2> HIDE DEF g
  <2>8. Leads(f, T, g, TRUE, TRUE) BY <2>4, <2>6, <2>7, FileWritten
  <2> QED BY <2>5, <2>8 DEF Leads
<1> QED BY <1>3, <1>4, <1>5

\* A start with the bitmaps the system had in memory when it ended.
LEMMA BootKeeps ==
  ASSUME NEW T, NEW par, NEW slot, Good(fs, T, par, slot), NEW acl \in Modes,
         Restart(acl) \/ Crash(acl), NoneOf(Upsetting)'
  PROVE  Steps(T)
<1>1. PICK maps, marks : /\ Boot(maps, acl, marks)
                         /\ maps = Bitmaps(fs) \/ "crash" \in marks
  <2>1. CASE Restart(acl) BY <2>1 DEF Restart
  <2>2. CASE Crash(acl)
    <3>1. CASE saved = Bitmaps(fs) BY <2>2, <3>1 DEF Crash
    <3>2. CASE saved # Bitmaps(fs) BY <2>2, <3>2 DEF Crash, When
    <3> QED BY <3>1, <3>2
  <2> QED BY <2>1, <2>2
<1> DEFINE f == Loaded(fs, maps)
<1>2. /\ CanBoot(f) /\ fs' = Booted(f, acl) /\ Marked(marks \cup BootMarks(f))
  BY <1>1 DEF Boot
<1> DEFINE all == marks \cup BootMarks(f)
<1>3. /\ "exhausted" \notin all /\ "crash" \notin all
      /\ NoneOf({"full"})' => "full" \notin all
  BY <1>2, NotMarked
<1>4. maps = Bitmaps(fs) BY <1>1, <1>3
<1>5. f = fs
  <2>1. fs \in Disks BY DEF Good, Typed
  <2> QED BY <1>4, <2>1 DEF Disks, Loaded, Bitmaps
<1> HIDE DEF f
<1>6. Leads(fs, T, fs', TRUE, "full" \notin BootMarks(fs)) BY <1>2, <1>3, <1>5, BootedGood
<1> QED BY <1>3, <1>5, <1>6 DEF Steps, Leads

\* What makefs() writes: the root, with inode 0 and block 0.
LEMMA NewDiskGood ==
  \E par, slot : /\ Good(NewDisk, {0}, par, slot)
                 /\ NoJunk(NewDisk, {0}) /\ Whole(NewDisk, {0})
<1> DEFINE f == NewDisk
           empty == [s \in Slots |-> NoEntry]
           d == DirSlots(empty, 0, 0)
           par == [i \in Numbers |-> 0]
           slot == [i \in Numbers |-> 1]
           o == <<0>>
<1>1. 0 \in Numbers /\ 0 \in Mapped /\ 1 \in Slots /\ 2 \in Slots /\ NoEntry \in Entries
  BY MappedFinite, DiskAssumption DEF Slots, NoEntry, Entry, Entries, AllNames
<1>2. /\ d \in [Slots -> Entries]
      /\ d[1] = Entry("Dir", ".", 0) /\ d[2] = Entry("Dir", "..", 0)
      /\ \A s \in Slots \ {1, 2} : d[s] = NoEntry
  <2>1. Entry("Dir", ".", 0) \in Entries /\ Entry("Dir", "..", 0) \in Entries
    BY DEF Entry, Entries, AllNames
  <2>2. empty \in [Slots -> Entries] /\ \A s \in Slots : empty[s] = NoEntry BY <1>1
  <2> HIDE DEF empty
  <2> QED BY <1>1, <2>1, <2>2 DEF DirSlots
<1>3. o \in Seq(Numbers) /\ Len(o) = 1 /\ o[1] = 0 BY <1>1
<1>4. NoInode = [mode |-> "None", size |-> 0, nlinks |-> 0, blk |-> o, acl |-> {}] BY DEF NoInode
<1> HIDE DEF o
<1>6. NoInode \in Inodes /\ NoInode.blk = o /\ NoInode.mode = "None" /\ NoInode.size = 0
  BY <1>3, <1>4 DEF Inodes
<1>7. /\ f.ino = [i \in Numbers |-> NoInode]
      /\ f.dir = [b \in Numbers |-> IF b = 0 THEN d ELSE empty]
      /\ f.imap = {0} /\ f.dmap = {0} /\ f.blks = NData - 1 /\ f.inos = NData - 1
      /\ f = [ino |-> f.ino, dir |-> f.dir, imap |-> f.imap, dmap |-> f.dmap,
              blks |-> f.blks, inos |-> f.inos]
  BY DEF NewDisk
<1>8. empty \in [Slots -> Entries] /\ \A s \in Slots : empty[s] = NoEntry BY <1>1
<1> HIDE DEF d, empty, f
<1>9. NData \in Nat /\ NSlots \in Nat /\ NSlots > 2 /\ NoName \notin {".", ".."} BY DiskAssumption
<1>10. f \in Disks
  <2>1. f.ino \in [Numbers -> Inodes] BY <1>6, <1>7
  <2>2. f.dir \in [Numbers -> [Slots -> Entries]] BY <1>2, <1>7, <1>8
  <2>3. f.imap \in SUBSET Mapped /\ f.dmap \in SUBSET Mapped /\ f.blks \in Int /\ f.inos \in Int
    BY <1>1, <1>7, <1>9
  <2> QED BY <1>7, <2>1, <2>2, <2>3 DEF Disks
<1>11. /\ f.ino[0] = NoInode /\ \A i \in Numbers : f.ino[i].blk = o
       /\ f.dir[0] = d /\ \A b \in Numbers \ {0} : f.dir[b] = empty
  BY <1>1, <1>6, <1>7
<1>12. \A s \in Slots : EntryOK(NoEntry, s) BY <1>1, <1>9 DEF EntryOK, NoEntry, Entry
<1>13. \A s \in Slots : EntryOK(d[s], s)
  <2> SUFFICES ASSUME NEW s \in Slots PROVE EntryOK(d[s], s) OBVIOUS
  <2>1. CASE s = 1 BY <2>1, <1>2 DEF EntryOK, Entry
  <2>2. CASE s = 2 BY <2>2, <1>2 DEF EntryOK, Entry
  <2>3. CASE s \notin {1, 2} BY <2>3, <1>2, <1>12
  <2> QED BY <2>1, <2>2, <2>3
<1>14. Typed(f)
  <2>1. \A i \in Numbers : Len(f.ino[i].blk) >= 1 BY <1>3, <1>11
  <2>2. \A b \in Numbers : \A s \in Slots : EntryOK(f.dir[b][s], s)
    BY <1>8, <1>11, <1>12, <1>13
  <2> QED BY <1>10, <2>1, <2>2 DEF Typed
<1>15. DirsIn(f, {0}) = {0} /\ Home(f, 0) = 0 /\ DirOf(f, 0) = d /\ BlksOf(f, 0) = {0}
  BY <1>1, <1>3, <1>6, <1>11 DEF DirsIn, IsDir, Home, DirOf, BlksOf
<1>16. Real(d) = {} /\ Real(empty) = {}
  <2>1. \A s \in 3..NSlots : s \in Slots \ {1, 2} BY <1>9 DEF Slots
  <2>2. NoEntry.type = "None" BY DEF NoEntry, Entry
  <2> QED BY <1>2, <1>8, <2>1, <2>2 DEF Real
<1>17. Shape(f, {0})
  <2>1. {0} \in SUBSET f.imap /\ f.ino[0].mode = "None" /\ Len(f.ino[0].blk) = 1
    BY <1>1, <1>3, <1>6, <1>7, <1>11
  <2> QED BY <2>1 DEF Shape
<1>18. Apart(f, {0})
  <2>1. f.ino[0].blk = o BY <1>1, <1>11
  <2>2. \A k \in 1..Len(f.ino[0].blk) : k = 1 /\ f.ino[0].blk[k] = 0 BY <2>1, <1>3
  <2>3. \A k \in 1..Len(f.ino[0].blk) : f.ino[0].blk[k] \in f.dmap BY <2>2, <1>7
  <2>4. \A k, l \in 1..Len(f.ino[0].blk) : k = l BY <2>2
  <2> QED BY <2>3, <2>4, Zenon DEF Apart
<1>19. par \in [Numbers -> Numbers] /\ slot \in [Numbers -> Slots] /\ par[0] = 0 BY <1>1
<1> HIDE DEF par, slot
<1>20. Filing(f, {0}, par, slot)
  <2>1. Holds(f, {0}, par, slot, 0) BY <1>2, <1>15, <1>16, <1>19 DEF Holds
  <2> QED BY <1>15, <1>19, <2>1 DEF Filing
<1>21. Leftover(f, {0}) BY <1>11, <1>15, <1>16 DEF Leftover
<1>22. Sized(f, {0})
  <2>1. Cardinality(Real(d)) = 0 BY <1>16, FS_EmptySet
  <2> QED BY <2>1, <1>6, <1>11, <1>15 DEF Sized, Uncounted
<1>23. Counts(f)
  <2>1. Cardinality({0}) = 1 BY FS_Singleton
  <2> QED BY <2>1, <1>7, <1>9 DEF Counts
<1>24. NoJunk(f, {0})
  <2>1. \A s \in Slots : d[s].type # "Junk"
    <3> SUFFICES ASSUME NEW s \in Slots PROVE d[s].type # "Junk" OBVIOUS
    <3>1. d[s] \in {Entry("Dir", ".", 0), Entry("Dir", "..", 0), NoEntry} BY <1>2
    <3> QED BY <3>1 DEF Entry, NoEntry
  <2> QED BY <2>1, <1>15 DEF NoJunk
<1>25. Whole(f, {0}) BY <1>7, <1>15 DEF Whole
<1>26. Good(f, {0}, par, slot)
  BY <1>14, <1>17, <1>18, <1>20, <1>21, <1>22, <1>23 DEF Good
<1> QED BY <1>24, <1>25, <1>26 DEF f

-----------------------------------------------------------------------------
(* The invariant is one *)

\* An empty disk has a block for every block of the swap file, and room for it.
LEMMA NewDiskBoots ==
  CanBoot(NewDisk) /\ BootMarks(NewDisk) \cap {"full", "exhausted"} = {}
<1> DEFINE f == NewDisk
           free == Mapped \ {0}
           below(b) == {c \in free : c < b}
           first == FirstFree(f, SwapBlks)
<1>1. /\ f.imap = {0} /\ f.dmap = {0} /\ f.blks = NData - 1
      /\ f.ino[0].blk = <<0>> /\ \A s \in 3..NSlots : f.dir[0][s].type = "None"
  <2>1. f.imap = {0} /\ f.dmap = {0} /\ f.blks = NData - 1 BY DEF NewDisk
  <2>2. 0 \in Numbers BY MappedFinite
  <2>3. f.ino[0] = NoInode BY <2>2 DEF NewDisk
  <2>7. f.ino[0].blk = <<0>> BY <2>3 DEF NoInode
  <2> HIDE DEF f
  <2> DEFINE empty == [s \in Slots |-> NoEntry]
  <2>8. f.dir[0] = DirSlots(empty, 0, 0) BY <2>2 DEF NewDisk, f
  <2>9. \A s \in 3..NSlots : s \in Slots /\ s # 1 /\ s # 2 BY DiskAssumption DEF Slots
  <2>10. empty \in [Slots -> {NoEntry}] OBVIOUS
  <2> HIDE DEF empty
  <2>11. \A s \in 3..NSlots : f.dir[0][s] = NoEntry BY <2>8, <2>9, <2>10 DEF DirSlots
  <2> QED BY <2>1, <2>7, <2>11 DEF NoEntry, Entry, f
<1> HIDE DEF f
<1>2. /\ MapSize \in Nat /\ SwapBlks \in Nat \ {0} /\ MapSize > SwapBlks /\ NData \in Nat /\ NData >= MapSize
      /\ NSlots \in Nat /\ NSlots > 2
  BY DiskAssumption
<1>3. free = 1..(MapSize - 1) BY <1>2 DEF Mapped
<1>4. \A b \in free : Cardinality(below(b)) = b - 1
  <2> SUFFICES ASSUME NEW b \in free PROVE Cardinality(below(b)) = b - 1 OBVIOUS
  <2>1. b \in 1..(MapSize - 1) /\ b - 1 \in Nat BY <1>2, <1>3
  <2>2. below(b) = 1..(b - 1) BY <2>1, <1>2, <1>3
  <2>3. Cardinality(1..(b - 1)) = IF 1 > b - 1 THEN 0 ELSE (b - 1) - 1 + 1 BY <2>1, FS_Interval
  <2> HIDE DEF below
  <2> QED BY <2>1, <2>2, <2>3
<1>5. first = {b \in free : Cardinality(below(b)) < SwapBlks} BY <1>1 DEF FirstFree
<1> HIDE DEF below
<1>6. first = {b \in free : b - 1 < SwapBlks} BY <1>4, <1>5
<1>7. first = 1..SwapBlks BY <1>2, <1>3, <1>6
<1>8. CanSwap(f)
  <2>1. Cardinality(1..SwapBlks) = SwapBlks BY <1>2, FS_Interval
  <2> QED BY <2>1, <1>7 DEF CanSwap, f
<1>9. CanBoot(f) BY <1>1, <1>2, <1>8 DEF CanBoot
<1>10. Search(f.imap) # MapSize
  <2> DEFINE S == Mapped \ f.imap
  <2>1. 1 \in free BY <1>2, <1>3
  <2>2. S = free BY <1>1
  <2>3. S \in SUBSET Nat /\ S # {} /\ \A n \in S : n < MapSize BY <2>1, <2>2, <1>2, <1>3
  <2>4. Search(f.imap) = Least(S) BY <2>1, <1>1 DEF Search
  <2> HIDE DEF S
  <2>5. Least(S) \in S BY <2>3, LeastIn
  <2>6. Least(S) < MapSize BY <2>3, <2>5
  <2> QED BY <2>3, <2>4, <2>5, <2>6, <1>2
<1>11. HasRoom(WalkIn(f, <<>>))
  <2>1. PICK par, slot : Good(f, {0}, par, slot) BY NewDiskGood DEF f
  <2>2. <<>> \in Seq(Names \cup {Swap}) OBVIOUS
  <2>3. WalkIn(f, <<>>) = Root(f) BY <2>1, <2>2, WalkAfter
  <2>4. Root(f).d = f.dir[0] BY <1>1 DEF Root
  <2>5. 3 \in Slots /\ f.dir[0][3].type = "None" BY <1>1, <1>2 DEF Slots
  <2> QED BY <2>3, <2>4, <2>5 DEF HasRoom, Free
<1>12. BootMarks(f) \subseteq SwapMarks(f, WalkIn(f, <<>>), Swap) BY DEF BootMarks
<1>13. SwapMarks(f, WalkIn(f, <<>>), Swap) \subseteq {"twice"} BY <1>10, <1>11 DEF SwapMarks, When
<1> QED BY <1>9, <1>12, <1>13 DEF f

\* The first start makes the swap file in the root.
LEMMA InitSound == Init => IInv
<1> SUFFICES ASSUME Init PROVE IInv OBVIOUS
<1>1. PICK acl \in Modes : fs = Booted(NewDisk, acl) BY DEF Init
<1>2. PICK par, slot : /\ Good(NewDisk, {0}, par, slot)
                       /\ NoJunk(NewDisk, {0}) /\ Whole(NewDisk, {0})
  BY NewDiskGood
<1>3. Leads(NewDisk, {0}, Booted(NewDisk, acl), TRUE, "full" \notin BootMarks(NewDisk))
  BY <1>2, NewDiskBoots, BootedGood
<1>4. Leads(NewDisk, {0}, fs, TRUE, TRUE) BY <1>1, <1>3, NewDiskBoots
<1>5. PICK U, q, t : Good(fs, U, q, t) /\ NoJunk(fs, U) /\ Whole(fs, U) BY <1>2, <1>4 DEF Leads
<1> QED BY <1>5 DEF IInv, Sound

\* A step that leaves the disk alone.
LEMMA SameDisk ==
  ASSUME NEW T, NEW par, NEW slot, Good(fs, T, par, slot), fs' = fs
  PROVE  Steps(T)
<1>1. Spared(fs, fs, T, T) BY DEF Spared
<1>2. Leads(fs, T, fs, TRUE, TRUE) BY <1>1 DEF Leads
<1> QED BY <1>2, AlwaysLeads

\* What has gone wrong has gone wrong.
LEMMA PastGrows ==
  ASSUME [Next]_vars
  PROVE  past \subseteq past'
<1>1. CASE UNCHANGED vars BY <1>1 DEF vars
<1>2. CASE Next
  <2>1. \A marks : Marked(marks) => past \subseteq past' BY DEF Marked
  <2>2. ASSUME NEW path, NEW name, NEW type, Create(path, name, type) PROVE past \subseteq past'
    BY <2>1, <2>2 DEF Create
  <2>3. ASSUME NEW path, NEW name, NEW acl, CreateSwap(path, name, acl) PROVE past \subseteq past'
    BY <2>1, <2>3 DEF CreateSwap
  <2>4. ASSUME NEW path, Delete(path) PROVE past \subseteq past' BY <2>1, <2>4 DEF Delete
  <2>5. ASSUME NEW path, NEW n, NEW db, Write(path, n, db) PROVE past \subseteq past'
    BY <2>1, <2>5 DEF Write
  <2>6. ASSUME NEW path, NEW mode, Chmod(path, mode) PROVE past \subseteq past' BY <2>6 DEF Chmod
  <2>7. ASSUME NEW path, Open(path) PROVE past \subseteq past' BY <2>7 DEF Open
  <2>8. CASE Undefined BY <2>8 DEF Undefined
  <2>9. ASSUME NEW acl, Restart(acl) \/ Crash(acl) PROVE past \subseteq past'
    BY <2>1, <2>9 DEF Restart, Crash, Boot
  <2> QED BY <1>2, <2>2, <2>3, <2>4, <2>5, <2>6, <2>7, <2>8, <2>9 DEF Next
<1> QED BY <1>1, <1>2

\* What every step makes of the tree.
LEMMA NextSteps ==
  ASSUME NEW T, NEW par, NEW slot, Good(fs, T, par, slot), [Next]_vars, NoneOf(Upsetting)'
  PROVE  Steps(T)
<1>1. CASE UNCHANGED vars BY <1>1, SameDisk DEF vars
<1>2. ASSUME NEW path \in Paths, NEW name \in Names, NEW type \in {"File", "Dir"},
             Create(path, name, type)
      PROVE  Steps(T)
  BY <1>2, CreateKeeps
<1>3. ASSUME NEW path \in Paths, NEW name \in Names, NEW acl \in Modes, CreateSwap(path, name, acl)
      PROVE  Steps(T)
  BY <1>3, CreateSwapKeeps
<1>4. ASSUME NEW path \in Paths, Delete(path) PROVE Steps(T) BY <1>4, DeleteKeeps
<1>5. ASSUME NEW path \in Paths, NEW n \in Sizes, NEW db, Write(path, n, db) PROVE Steps(T)
  BY <1>5, WriteKeeps
<1>6. ASSUME NEW path \in Paths, NEW mode \in Modes, Chmod(path, mode) PROVE Steps(T)
  BY <1>6, ChmodKeeps
<1>7. ASSUME NEW path \in Paths, Open(path) PROVE Steps(T) BY <1>7, OpenKeeps
<1>8. CASE Undefined BY <1>8, SameDisk DEF Undefined
<1>9. ASSUME NEW acl \in Modes, Restart(acl) \/ Crash(acl) PROVE Steps(T) BY <1>9, BootKeeps
<1> QED BY <1>1, <1>2, <1>3, <1>4, <1>5, <1>6, <1>7, <1>8, <1>9 DEF Next

\* A step from a sound tree leads to one, and spares what may not be written.
LEMMA NextSound ==
  ASSUME NEW T, NEW par, NEW slot, Sound(T, par, slot), [Next]_vars, NoneOf(Upsetting)'
  PROVE  \E U, q, t : Sound(U, q, t)' /\ Spared(fs, fs', T, U)
<1>1. Good(fs, T, par, slot) BY DEF Sound
<1>2. Steps(T) BY <1>1, NextSteps
<1>3. PICK U, q, t : /\ Good(fs', U, q, t) /\ Spared(fs, fs', T, U)
                     /\ NoneOf({"reused"})' /\ NoJunk(fs, T) => NoJunk(fs', U)
                     /\ NoneOf({"full"})' /\ Whole(fs, T) => Whole(fs', U)
  BY <1>2 DEF Steps, Leads
<1>4. /\ NoneOf({"reused"})' => NoneOf({"reused"})
      /\ NoneOf({"full"})' => NoneOf({"full"})
  BY PastGrows DEF NoneOf
<1>5. Sound(U, q, t)' BY <1>1, <1>3, <1>4 DEF Sound
<1> QED BY <1>3, <1>5

\* The invariant is kept.
LEMMA NextKeepsSound == IInv /\ [Next]_vars => IInv'
<1> SUFFICES ASSUME IInv, [Next]_vars, NoneOf(Upsetting)' PROVE \E U, q, t : Sound(U, q, t)'
  BY DEF IInv
<1>1. NoneOf(Upsetting) BY PastGrows DEF NoneOf
<1>2. PICK T, par, slot : Sound(T, par, slot) BY <1>1 DEF IInv
<1> QED BY <1>2, NextSound

\* The invariant holds in every state.
LEMMA AlwaysSound == Spec => []IInv
<1> QED BY InitSound, NextKeepsSound, PTL DEF Spec

-----------------------------------------------------------------------------
(* What follows from it *)

\* An entry, wherever a directory's inode leads: of a file or directory that is
\* found by it, at the place the invariant gives, or bytes of a file.
LEMMA PlaceIs ==
  ASSUME NEW T, NEW par, NEW slot, Good(fs, T, par, slot), NEW p \in Places
  PROVE  /\ \/ EntryAt(p).inode \in T \ {0}
            \/ EntryAt(p).type = "Junk" /\ EntryAt(p).inode \notin Numbers
         /\ p[1] \in DirsIn(fs, T) =>
              \/ p[2] \in Real(SlotsOf(p[1]))
              \/ EntryAt(p).type = "Junk"
<1> DEFINE b == fs.ino[p[1]].blk[1]
           s == p[2]
           d == fs.dir[b]
<1>1. /\ p[1] \in fs.imap /\ s \in Slots /\ d[s].type # "None" /\ d[s].name \notin {".", ".."}
      /\ EntryAt(p) = d[s] /\ SlotsOf(p[1]) = d
  BY DEF Places, Dirs, Used, SlotsOf, EntryAt
<1>2. Typed(fs) /\ Leftover(fs, T) BY DEF Good
<1>3. b \in Numbers BY <1>1, <1>2, Parts, MappedFinite
<1> HIDE DEF b, s
<1>4. EntryOK(d[s], s) BY <1>1, <1>2, <1>3 DEF Typed
<1>5. CASE d[s].type = "Junk"
  <2>1. d[s] = Junk BY <1>4, <1>5 DEF EntryOK
  <2>2. -1 \notin Numbers BY MappedFinite
  <2>3. d[s].inode = -1 BY <2>1 DEF Junk, Entry, Stray
  <2> QED BY <1>1, <1>5, <2>2, <2>3
<1>6. CASE d[s].type # "Junk"
  <2>1. s > 2 /\ s \in 3..NSlots /\ d[s].type \in {"Dir", "File"}
    <3>1. ~ (s <= 2) /\ d[s] \in Entries BY <1>1, <1>4, <1>6 DEF EntryOK
    <3>2. s \in Int /\ s <= NSlots /\ NSlots \in Int BY <1>1, DiskAssumption DEF Slots
    <3>3. d[s].type \in {"Dir", "File"} BY <3>1, <1>1, <1>6 DEF Entries
    <3> QED BY <3>1, <3>2, <3>3
  <2>2. s \in Real(d) BY <2>1 DEF Real
  <2>3. PICK i \in DirsIn(fs, T) : Home(fs, i) = b BY <2>2, <1>2, <1>3 DEF Leftover
  <2>4. Holds(fs, T, par, slot, i) /\ DirOf(fs, i) = d BY <2>3, DirFacts DEF DirOf
  <2>5. d[s].inode \in T \ {0} BY <2>2, <2>4 DEF Holds
  <2> QED BY <1>1, <2>2, <2>5 DEF s
<1> QED BY <1>5, <1>6

\* Where the entry of a file or a directory is, it is an entry.
LEMMA KeptIsPlace ==
  ASSUME NEW T, NEW par, NEW slot, Good(fs, T, par, slot), NEW j \in T \ {0}
  PROVE  <<par[j], slot[j]>> \in Places /\ EntryAt(<<par[j], slot[j]>>).inode = j
<1> DEFINE i == par[j]
           s == slot[j]
           d == DirOf(fs, i)
<1>1. /\ i \in DirsIn(fs, T) /\ s \in Real(d) /\ d[s].inode = j BY DEF Good, Filing, Kept
<1>2. i \in Dirs BY <1>1 DEF Dirs, DirsIn, IsDir, Good, Shape
<1>3. s \in Slots /\ s > 2 /\ d[s].type \in {"Dir", "File"}
  <2>1. s \in Slots BY <1>1, RealFinite
  <2>2. s \in 3..NSlots /\ d[s].type \in {"Dir", "File"} BY <1>1 DEF Real
  <2> HIDE DEF s
  <2>3. s > 2 BY <2>2, DiskAssumption
  <2> QED BY <2>1, <2>2, <2>3
<1>4. Home(fs, i) \in Numbers BY <1>1, DirFacts
<1>5. EntryOK(d[s], s) BY <1>3, <1>4 DEF Good, Typed, DirOf
<1>6. d[s].name \notin {".", ".."} BY <1>3, <1>5 DEF EntryOK
<1>7. SlotsOf(i) = d BY DEF SlotsOf, DirOf, Home
<1> HIDE DEF i, s, d
<1>8. s \in Used(SlotsOf(i)) BY <1>3, <1>7 DEF Used
<1>9. <<i, s>> \in Dirs \X Slots BY <1>2, <1>3
<1> DEFINE p == <<i, s>>
<1>10. p[1] = i /\ p[2] = s OBVIOUS
<1>11. p \in Places BY <1>6, <1>7, <1>8, <1>9, <1>10 DEF Places
<1>12. EntryAt(p).inode = j BY <1>1, <1>7, <1>10 DEF EntryAt
<1> QED BY <1>11, <1>12 DEF i, s

\* The inodes the entries name are the tree.
LEMMA FiledIs ==
  ASSUME NEW T, NEW par, NEW slot, Good(fs, T, par, slot)
  PROVE  Filed = T
<1>1. 0 \in T /\ T \subseteq Numbers
  <2>1. Typed(fs) /\ Shape(fs, T) BY DEF Good
  <2> QED BY <2>1, Parts, MappedFinite DEF Shape
<1>2. ASSUME NEW j \in Filed PROVE j \in T
  <2>1. CASE j = 0 BY <2>1, <1>1
  <2>2. CASE j # 0
    <3>1. PICK p \in Places : EntryAt(p).inode = j BY <1>2, <2>2 DEF Filed
    <3>2. j \in Numbers BY <1>2 DEF Filed
    <3> QED BY <3>1, <3>2, PlaceIs
  <2> QED BY <2>1, <2>2
<1>3. ASSUME NEW j \in T PROVE j \in Filed
  <2>1. CASE j = 0 BY <2>1, <1>1 DEF Filed
  <2>2. CASE j # 0
    <3> DEFINE p == <<par[j], slot[j]>>
    <3>1. p \in Places /\ EntryAt(p).inode = j BY <2>2, KeptIsPlace
    <3> HIDE DEF p
    <3> QED BY <3>1, <1>1 DEF Filed
  <2> QED BY <2>1, <2>2
<1> QED BY <1>2, <1>3

\* The same of the next state.
LEMMA FiledNext == (\A T, par, slot : Good(fs, T, par, slot) => Filed = T)'
<1>1. \A T, par, slot : Good(fs, T, par, slot) => Filed = T BY FiledIs
<1> QED BY <1>1, PTL

\* The tree the invariant speaks of is the one the entries give.
LEMMA SoundNow ==
  ASSUME IInv, NoneOf(Upsetting)
  PROVE  \E T, par, slot : Sound(T, par, slot) /\ Good(fs, T, par, slot) /\ Filed = T
BY FiledIs DEF IInv, Sound

\* Every inode but the root's has its one entry.
LEMMA SoundHasEntries == IInv => OneEntryEach
<1> SUFFICES ASSUME IInv, NoneOf(Upsetting \cup {"full", "reused"})
             PROVE  /\ \A p \in Places : EntryAt(p).inode \in fs.imap
                    /\ \A i \in fs.imap \ {0} : Cardinality({p \in Places : EntryAt(p).inode = i}) = 1
  BY DEF OneEntryEach
<1>1. NoneOf(Upsetting) /\ NoneOf({"full"}) /\ NoneOf({"reused"}) BY DEF NoneOf
<1>2. PICK T, par, slot : Sound(T, par, slot) /\ Good(fs, T, par, slot) /\ Filed = T BY <1>1, SoundNow
<1>3. T = fs.imap /\ NoJunk(fs, T) BY <1>1, <1>2 DEF Sound, Whole
<1>4. Dirs = DirsIn(fs, T) BY <1>3 DEF Dirs, DirsIn, IsDir
<1>5. ASSUME NEW p \in Places
      PROVE  /\ EntryAt(p).inode \in T \ {0} /\ p[1] \in DirsIn(fs, T) /\ p[2] \in Real(SlotsOf(p[1]))
             /\ p = <<p[1], p[2]>>
  <2>1. p \in Dirs \X Slots /\ p[1] \in DirsIn(fs, T) /\ p[2] \in Slots BY <1>4 DEF Places
  <2>2. EntryAt(p).type # "Junk" BY <2>1, <1>3 DEF NoJunk, EntryAt, SlotsOf, DirOf, Home
  <2> QED BY <2>1, <2>2, <1>2, PlaceIs
<1>6. ASSUME NEW i \in T \ {0} PROVE Cardinality({p \in Places : EntryAt(p).inode = i}) = 1
  <2> DEFINE at == <<par[i], slot[i]>>
             S == {p \in Places : EntryAt(p).inode = i}
  <2>1. at \in S BY <1>2, KeptIsPlace
  <2>2. ASSUME NEW p \in S PROVE p = at
    <3>1. /\ p \in Places /\ EntryAt(p).inode = i /\ p[1] \in DirsIn(fs, T)
          /\ p[2] \in Real(SlotsOf(p[1])) /\ p = <<p[1], p[2]>>
      BY <1>5
    <3>2. Holds(fs, T, par, slot, p[1]) BY <3>1, <1>2, DirFacts
    <3>3. SlotsOf(p[1]) = DirOf(fs, p[1]) BY DEF SlotsOf, DirOf, Home
    <3>4. DirOf(fs, p[1])[p[2]].inode = i BY <3>1, <3>3 DEF EntryAt
    <3>5. par[i] = p[1] /\ slot[i] = p[2] BY <3>1, <3>2, <3>3, <3>4 DEF Holds
    <3> QED BY <3>1, <3>5
  <2> HIDE DEF at, S
  <2>3. S = {at} BY <2>1, <2>2
  <2>4. Cardinality(S) = 1 BY <2>3, FS_Singleton
  <2> QED BY <2>4 DEF S
<1> QED BY <1>3, <1>5, <1>6

\* No block is two files'.
LEMMA SoundIsPrivate == IInv => BlocksArePrivate
<1> SUFFICES ASSUME IInv, NoneOf(Upsetting), NEW i \in Filed, NEW j \in Filed, i # j
             PROVE  BlocksOf(i) \cap BlocksOf(j) = {}
  BY DEF BlocksArePrivate
<1>1. PICK T, par, slot : Good(fs, T, par, slot) /\ Filed = T BY SoundNow
<1>2. i \in T /\ j \in T /\ Apart(fs, T) BY <1>1 DEF Good
<1> QED BY <1>2 DEF Apart, BlocksOf

\* What is marked is somebody's.
LEMMA SoundIsOwned == IInv => MarkedIsOwned
<1> SUFFICES ASSUME IInv, NoneOf(Upsetting \cup {"full"})
             PROVE  fs.dmap = UNION {BlocksOf(i) : i \in Filed}
  BY DEF MarkedIsOwned
<1>1. NoneOf(Upsetting) /\ NoneOf({"full"}) BY DEF NoneOf
<1>2. PICK T, par, slot : Sound(T, par, slot) /\ Filed = T BY <1>1, SoundNow
<1>3. Whole(fs, T) BY <1>1, <1>2 DEF Sound
<1>4. \A i : BlocksOf(i) = BlksOf(fs, i) BY DEF BlocksOf, BlksOf
<1> QED BY <1>2, <1>3, <1>4 DEF Whole

\* The counts are those of the bitmaps.
LEMMA SoundIsCounted == IInv => CountsMatch
<1> SUFFICES ASSUME IInv, NoneOf(Upsetting) PROVE Counts(fs) BY DEF CountsMatch, Counts
<1> QED BY SoundNow DEF Good

\* Sizes and ".." are right.
LEMMA SoundIsTree == IInv => TreeIsSound
<1> SUFFICES ASSUME IInv, NoneOf(Upsetting \cup {"reused"})
             PROVE  /\ \A i \in Dirs \cap Filed :
                         fs.ino[i].size + Uncounted(i) = Cardinality(Used(SlotsOf(i)))
                    /\ \A p \in Places : p[1] \in Filed /\ EntryAt(p).type = "Dir" =>
                         Pointer(SlotsOf(EntryAt(p).inode), "..") = p[1]
  BY DEF TreeIsSound
<1>1. NoneOf(Upsetting) /\ NoneOf({"reused"}) BY DEF NoneOf
<1>2. PICK T, par, slot : Sound(T, par, slot) /\ Good(fs, T, par, slot) /\ Filed = T BY <1>1, SoundNow
<1>3. NoJunk(fs, T) BY <1>1, <1>2 DEF Sound
<1>4. Dirs \cap Filed = DirsIn(fs, T)
  <2>1. T \subseteq fs.imap BY <1>2 DEF Good, Shape
  <2> QED BY <2>1, <1>2 DEF Dirs, DirsIn, IsDir
<1>5. \A i : SlotsOf(i) = DirOf(fs, i) BY DEF SlotsOf, DirOf, Home
<1>6. ASSUME NEW i \in DirsIn(fs, T)
      PROVE  fs.ino[i].size + Uncounted(i) = Cardinality(Used(SlotsOf(i)))
  <2> DEFINE d == DirOf(fs, i)
             R == Real(d)
  <2>1. Holds(fs, T, par, slot, i) /\ d \in [Slots -> Entries] BY <1>2, DirFacts
  <2>2. d[1].type = "Dir" /\ d[2].type = "Dir" BY <2>1 DEF Holds, Entry
  <2>3. \A s \in Slots : d[s].type \in {"None", "Dir", "File"} BY <2>1, <1>3 DEF NoJunk, Entries
  <2>4. \A s \in Slots : s = 1 \/ s = 2 \/ s \in 3..NSlots BY DiskAssumption DEF Slots
  <2>5. 1 \in Slots /\ 2 \in Slots /\ R \subseteq Slots /\ IsFiniteSet(R) /\ Cardinality(R) \in Nat
    BY RealFinite, DiskAssumption DEF Slots
  <2>6. 1 \notin R /\ 2 \notin R BY DiskAssumption DEF Real
  <2>7. \A s \in R : d[s].type # "None" BY DEF Real
  <2>8. \A s \in Slots : s \in R \/ s = 1 \/ s = 2 \/ d[s].type = "None" BY <2>3, <2>4 DEF Real
  <2> HIDE DEF d, R
  <2>9. Used(d) = (R \cup {1}) \cup {2} BY <2>2, <2>5, <2>7, <2>8 DEF Used
  <2> DEFINE Q == R \cup {1}
  <2>10. IsFiniteSet(Q) /\ Cardinality(Q) = Cardinality(R) + 1 /\ 2 \notin Q
    BY <2>5, <2>6, FS_AddElement
  <2> HIDE DEF Q
  <2>11. Cardinality(Q \cup {2}) = Cardinality(Q) + 1 BY <2>10, FS_AddElement
  <2>12. fs.ino[i].size + Uncounted(i) = 2 + Cardinality(R) BY <1>2 DEF Good, Sized, d, R
  <2>13. Cardinality(Used(d)) = 2 + Cardinality(R) BY <2>5, <2>9, <2>10, <2>11 DEF Q
  <2> QED BY <2>12, <2>13, <1>5 DEF d
<1>7. ASSUME NEW p \in Places, p[1] \in Filed, EntryAt(p).type = "Dir"
      PROVE  Pointer(SlotsOf(EntryAt(p).inode), "..") = p[1]
  <2> DEFINE i == p[1]
             s == p[2]
             j == EntryAt(p).inode
  <2>1. i \in Dirs BY DEF Places
  <2>2. i \in DirsIn(fs, T) BY <2>1, <1>4, <1>7
  <2>3. s \in Real(SlotsOf(i)) /\ j \in T \ {0} BY <2>2, <1>2, <1>7, PlaceIs
  <2>4. EntryAt(p) = DirOf(fs, i)[s] BY <1>5 DEF EntryAt
  <2>5. Holds(fs, T, par, slot, i) BY <2>2, <1>2, DirFacts
  <2>6. fs.ino[j].mode = "Dir" /\ par[j] = i BY <2>3, <2>4, <2>5, <1>5, <1>7 DEF Holds
  <2>7. j \in DirsIn(fs, T) BY <2>3, <2>6 DEF DirsIn, IsDir
  <2>8. Pointer(DirOf(fs, j), "..") = par[j] BY <2>7, <1>2, DotSlots
  <2> QED BY <2>6, <2>8, <1>5
<1> QED BY <1>4, <1>6, <1>7

-----------------------------------------------------------------------------
(* The theorems *)

\* Every inode in use but the root's has exactly one entry in a directory in
\* use, and no entry names an inode that is not, whatever create(), fdelete()
\* and the start of the system did, in whatever order.
THEOREM EntriesStayOne == Spec => []OneEntryEach
<1> QED BY AlwaysSound, SoundHasEntries, PTL

\* create() never gives a block to a second file or directory.
THEOREM BlocksStayPrivate == Spec => []BlocksArePrivate
<1> QED BY AlwaysSound, SoundIsPrivate, PTL

\* A block is marked exactly as long as something that is found by its name has it.
THEOREM MarksStayOwned == Spec => []MarkedIsOwned
<1> QED BY AlwaysSound, SoundIsOwned, PTL

\* The free counts of the superblock are those of the bitmaps.
THEOREM CountsStayRight == Spec => []CountsMatch
<1> QED BY AlwaysSound, SoundIsCounted, PTL

\* The size of a directory is the number of its entries (the root's, which
\* begins with an inode nobody wrote, is two less) and its ".." leads to the
\* directory that has it, so that fdelete() finds both right.
THEOREM TreeStaysSound == Spec => []TreeIsSound
<1> QED BY AlwaysSound, SoundIsTree, PTL

\* What its user may not write is neither deleted nor changed, nor is it given
\* other permissions or other blocks.
THEOREM ReadOnlyStays == Spec => ReadOnlyIsKept
<1> DEFINE Same(i) == /\ i \in Filed'
                      /\ fs'.ino[i].acl = fs.ino[i].acl /\ fs'.ino[i].blk = fs.ino[i].blk
                      /\ \A b \in BlocksOf(i) : fs'.dir[b] = fs.dir[b]
           Step == (NoneOf(Upsetting) /\ NoneOf(Upsetting)') =>
                     \A i \in Filed : (fs.ino[i].mode = "File" /\ "w" \notin fs.ino[i].acl) => Same(i)
<1>1. IInv /\ [Next]_vars => Step
  <2> SUFFICES ASSUME IInv, [Next]_vars, NoneOf(Upsetting), NoneOf(Upsetting)',
                      NEW i \in Filed, fs.ino[i].mode = "File", "w" \notin fs.ino[i].acl
               PROVE  Same(i)
    OBVIOUS
  <2>1. PICK T, par, slot : Sound(T, par, slot) /\ Good(fs, T, par, slot) /\ Filed = T BY SoundNow
  <2>2. PICK U, q, t : Sound(U, q, t)' /\ Spared(fs, fs', T, U) BY <2>1, NextSound
  <2>3. (Filed = U)'
    <3>1. Good(fs, U, q, t)' BY <2>2 DEF Sound
    <3> QED BY <3>1, FiledNext
  <2>4. BlocksOf(i) = BlksOf(fs, i) BY DEF BlocksOf, BlksOf
  <2> QED BY <2>1, <2>2, <2>3, <2>4 DEF Spared
<1> QED BY <1>1, AlwaysSound, PTL DEF Spec, ReadOnlyIsKept
=============================================================================
