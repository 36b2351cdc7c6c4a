-------------------------- MODULE DiskFsProperties --------------------------
(***************************************************************************)
(* What should be true of the disk of module DiskFs as long as nothing has *)
(* happened that the code does not see to (the marks in "past").           *)
(***************************************************************************)
EXTENDS DiskFs

Marks == {"astray", "twice", "full", "exhausted", "reused", "nested", "grown", "crash"}

NoneOf(marks) == past \cap marks = {}

\* what upsets several of the relations below at once; a run need not follow it
Upsetting == {"astray", "exhausted", "nested", "grown", "crash"}

-----------------------------------------------------------------------------
(* The tree as the directories in use give it *)

\* the root is a directory by its place alone
Dirs == {i \in fs.imap : i = 0 \/ fs.ino[i].mode = "Dir"}

SlotsOf(i) == fs.dir[fs.ino[i].blk[1]]

\* the entries of all directories but "." and "..": a directory and a slot
Places ==
  {p \in Dirs \X Slots : /\ p[2] \in Used(SlotsOf(p[1]))
                         /\ SlotsOf(p[1])[p[2]].name \notin {".", ".."}}

EntryAt(p) == SlotsOf(p[1])[p[2]]

\* the inodes a directory entry names, and the root's
Filed == ({0} \cup {EntryAt(p).inode : p \in Places}) \cap Numbers

BlocksOf(i) == {fs.ino[i].blk[k] : k \in 1..Len(fs.ino[i].blk)}

-----------------------------------------------------------------------------
\* Every inode marked as used but the root's is named by exactly one entry of
\* a directory in use, and every entry names a marked inode: create() and
\* fdelete() change the bitmap, the inode and the entry in separate writes.
OneEntryEach ==
  NoneOf(Upsetting \cup {"full", "reused"}) =>
    /\ \A p \in Places : EntryAt(p).inode \in fs.imap
    /\ \A i \in fs.imap \ {0} : Cardinality({p \in Places : EntryAt(p).inode = i}) = 1

\* No two files or directories share a data block, whatever was deleted and
\* made again before: create() searches the bitmap fdelete() has cleared.
BlocksArePrivate ==
  NoneOf(Upsetting) =>
    \A i, j \in Filed : i # j => BlocksOf(i) \cap BlocksOf(j) = {}

\* A block is marked in the bitmap exactly when a file or a directory that is
\* found by its name has it: no block is lost, none may be given out twice.
MarkedIsOwned ==
  NoneOf(Upsetting \cup {"full"}) => fs.dmap = UNION {BlocksOf(i) : i \in Filed}

\* The free counts of the superblock agree with the bitmaps, also after a
\* restart, and when create() gave up after it had taken an inode and a block.
CountsMatch ==
  NoneOf(Upsetting) =>
    /\ NData - fs.inos = Cardinality(fs.imap)
    /\ NData - fs.blks = Cardinality(fs.dmap)

\* The entries a directory's size does not count: the root's "." and "..",
\* which were there before its inode had a size.
Uncounted(i) == IF i = 0 THEN 2 ELSE 0

\* The size of a directory is the number of its entries, which is what
\* fdelete() takes for "empty" (the root's is two less, from the start), and
\* ".." leads to the directory it is in.  A directory that was deleted is not
\* meant: its inode, taken by a create() that gave up, still says that it is
\* one.
TreeIsSound ==
  NoneOf(Upsetting \cup {"reused"}) =>
    /\ \A i \in Dirs \cap Filed :
         fs.ino[i].size + Uncounted(i) = Cardinality(Used(SlotsOf(i)))
    /\ \A p \in Places : p[1] \in Filed /\ EntryAt(p).type = "Dir" =>
         Pointer(SlotsOf(EntryAt(p).inode), "..") = p[1]

\* A file that its user may not write keeps its entry, its permissions, its
\* blocks and what is in them, whatever is done to it and to the files beside
\* it (its size does not: open() empties the files that it opens).
ReadOnlyIsKept ==
  [][(NoneOf(Upsetting) /\ NoneOf(Upsetting)') =>
       \A i \in Filed :
         (fs.ino[i].mode = "File" /\ "w" \notin fs.ino[i].acl) =>
            /\ i \in Filed'
            /\ fs'.ino[i].acl = fs.ino[i].acl /\ fs'.ino[i].blk = fs.ino[i].blk
            /\ \A b \in BlocksOf(i) : fs'.dir[b] = fs.dir[b]]_vars
=============================================================================
