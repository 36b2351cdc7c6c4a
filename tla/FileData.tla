------------------------------ MODULE FileData ------------------------------
(***************************************************************************)
(* The contents of one file, as Filesystem::write() and read() treat them  *)
(* when they are called as the editor calls them: from offset 0 and with   *)
(* the whole text (src/src/filesystem.cpp 810-880 and 955-1012).  Which    *)
(* blocks hold the contents is the business of module DiskFs; here a file  *)
(* has its size, the number of its blocks, what a reader finds in them and *)
(* what its owner may do with it.                                          *)
(***************************************************************************)
EXTENDS Integers, Sequences

CONSTANTS
  PerBlock,     \* FS::BLK_SIZE, in characters
  MaxBlks       \* FS::MAX_N_BLKS

ASSUME BlockAssumption == PerBlock \in Nat \ {0} /\ MaxBlks \in Nat \ {0}

\* A file just made has one block
NewFile(acl) == [size |-> 0, nblks |-> 1, data |-> <<>>, acl |-> acl]

\* Blocks added when the size grows to n: the division is one of integers,
\* so that the part of a block at the end adds none
Extra(file, n) == IF n > file.size THEN (n - file.size) \div PerBlock ELSE 0

\* write() from offset 0, while free blocks of the disk are counted free.  The
\* buffer is never advanced: each block gets what the first one gets, and what
\* the blocks cannot hold is not written, while the size is that of the text.
Write(file, text, free) ==
  LET n     == Len(text)
      nblks == file.nblks + Extra(file, n)
      Held(k) == IF n < k * PerBlock THEN n ELSE k * PerBlock
  IN  IF "w" \notin file.acl \/ free < Extra(file, n) \/ nblks > MaxBlks THEN file
      ELSE [file EXCEPT
              !.size  = n,
              !.nblks = nblks,
              !.data  = [i \in 1..Held(nblks) |-> text[((i - 1) % PerBlock) + 1]]]

\* What a buffer holds after read(): the whole file, or what the buffer held
\* before when the file may not be read
Reads(file, garbage) == IF "r" \in file.acl THEN {file.data} ELSE garbage
=============================================================================
