----------------------------- MODULE FileTable -----------------------------
(***************************************************************************)
(* One entry of the system file table with its queue (struct FS::File and  *)
(* filequeue of class Filesystem): the lock word rw, the count of opens,   *)
(* and the lists of the processes that read and that write it.  Entries    *)
(* are never erased, so a file never opened is an entry with counter 0.    *)
(***************************************************************************)
EXTENDS Lists

\* the values of rw, with the names expose_sft() gives them
Idle  == 0
Read  == 1
Write == 2

NewEntry == [rw |-> Idle, counter |-> 0, readers |-> <<>>, writers |-> <<>>]

Opened(e) == [e EXCEPT !.counter = @ + 1]
Closed(e) == [e EXCEPT !.counter = @ - 1]

\* fread() and fwrite() let the caller go on (state 0) under these conditions
Grants(e, rw) == IF rw = Read THEN e.rw # Write ELSE e.rw = Idle

\* ... and queue it in either case
Accessed(e, rw, pid) ==
  LET lock == IF Grants(e, rw) THEN rw ELSE e.rw
  IN  IF rw = Read THEN [e EXCEPT !.rw = lock, !.readers = Append(@, pid)]
                   ELSE [e EXCEPT !.rw = lock, !.writers = Append(@, pid)]

\* a bug to be caught: the lock is not freed
DoneLocked(e, rw, pid) ==
  IF rw = Read THEN [e EXCEPT !.readers = Without(@, pid)]
               ELSE [e EXCEPT !.writers = Without(@, pid)]

\* fpop(): the caller leaves its list; the last of a list frees the lock
Done(e, rw, pid) ==
  LET rest == IF rw = Read THEN Without(e.readers, pid)
                           ELSE Without(e.writers, pid)
      lock == IF rest = <<>> THEN Idle ELSE e.rw
  IN  IF rw = Read THEN [e EXCEPT !.rw = lock, !.readers = rest]
                   ELSE [e EXCEPT !.rw = lock, !.writers = rest]

(***************************************************************************)
(* The processes fpop() sends FILE_WAKE to, in order, e being the entry    *)
(* after the caller has left: the first writer when the last reader is     *)
(* done, every reader when the last writer is done.                        *)
(***************************************************************************)
ToWake(e, rw) ==
  IF rw = Read
  THEN IF e.readers = <<>> /\ e.writers # <<>> THEN <<Head(e.writers)>> ELSE <<>>
  ELSE IF e.writers = <<>> THEN e.readers ELSE <<>>
=============================================================================
