----------------------------- MODULE VirtMemory -----------------------------
(***************************************************************************)
(* The virtual memory of one process (class VirtMemoryModel): its page     *)
(* table, its frames, and the choice of the page that leaves a full set of *)
(* frames.  The operators take and return a record of these.               *)
(***************************************************************************)
EXTENDS Integers, Sequences

CONSTANT NVPages   \* virtual pages of a process (32 in the code)

ASSUME VirtAssumption == NVPages \in Nat \ {0}

VPages == 0..(NVPages - 1)
Empty  == -1                 \* a frame that holds no page

Untouched == [refed |-> FALSE, present |-> FALSE, addr |-> -1, tIn |-> -1, tRef |-> -1]

\* a new memory with n frames
Fresh(algo, n) ==
  [algo |-> algo, frame |-> [i \in 1..n |-> Empty], nmapped |-> 0,
   page |-> [v \in VPages |-> Untouched]]

-----------------------------------------------------------------------------
(* replace() *)

Full(k) == k.nmapped = Len(k.frame)

\* a bug to be caught: both algorithms look at the last use
AgeOfUse(k, i) == k.page[k.frame[i]].tRef

\* the time a frame is judged by
Age(k, i) == IF k.algo = "FIFO" THEN k.page[k.frame[i]].tIn ELSE k.page[k.frame[i]].tRef

\* a bug to be caught: page 0 is replaced like any other
CandidatesAll(k) == 1..Len(k.frame)

\* "if (frame[i] && ..." passes over page 0, where the program is
Candidates(k) == {i \in 1..Len(k.frame) : k.frame[i] # 0}

Oldest(k) ==
  CHOOSE i \in Candidates(k) :
    \A j \in Candidates(k) : \/ Age(k, i) < Age(k, j)
                             \/ Age(k, i) = Age(k, j) /\ i <= j

Evicted(k) == k.frame[Oldest(k)]

\* a bug to be caught: the page that left is still marked as present
ReplacedPresent(k) ==
  [k EXCEPT !.frame[Oldest(k)] = Empty, !.nmapped = @ - 1]

Replaced(k) ==
  [k EXCEPT !.page[Evicted(k)].present = FALSE,
            !.frame[Oldest(k)] = Empty,
            !.nmapped = @ - 1]

-----------------------------------------------------------------------------
(* alloc_frame() *)

EmptyFrame(k) ==
  CHOOSE i \in 1..Len(k.frame) :
    k.frame[i] = Empty /\ \A j \in 1..(i - 1) : k.frame[j] # Empty

\* a bug to be caught: the frame is not counted
FramedUncounted(k, v) == [k EXCEPT !.frame[EmptyFrame(k)] = v]

Framed(k, v) == [k EXCEPT !.frame[EmptyFrame(k)] = v, !.nmapped = @ + 1]

\* the page table entry of a page that came into physical page pg at this time
Mapped(k, v, pg, time, present) ==
  [k EXCEPT !.page[v] = [refed |-> TRUE, present |-> present, addr |-> pg,
                         tIn |-> time, tRef |-> time]]
=============================================================================
