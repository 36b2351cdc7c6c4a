------------------------------- MODULE Lists -------------------------------
(***************************************************************************)
(* The std::list operations the scheduler, the devices and the file table  *)
(* use, on TLA+ sequences.  They are written here, and not taken from      *)
(* SequencesExt, because SequencesExt!Remove rests on SelectSeq, which the *)
(* proof system cannot unfold; module ListLemmas proves what these return. *)
(***************************************************************************)
EXTENDS Integers, Sequences

\* x is an element of the list s
Occurs(s, x) == \E i \in 1..Len(s) : s[i] = x

\* x is in the list at most once
Once(s, x) == \A i, j \in 1..Len(s) : s[i] = x /\ s[j] = x => i = j

\* a stands before b somewhere in the list
Before(s, a, b) == \E i, j \in 1..Len(s) : i < j /\ s[i] = a /\ s[j] = b

\* list::remove(e) and remove_if([e](x){ return x == e; }): every e goes
Without(s, e) ==
  LET keep[i \in 0..Len(s)] ==
        IF i = 0 THEN <<>>
        ELSE IF s[i] = e THEN keep[i - 1] ELSE Append(keep[i - 1], s[i])
  IN  keep[Len(s)]

\* list::erase(v), v being the iterator of the i-th element
WithoutIndex(s, i) ==
  [j \in 1..(Len(s) - 1) |-> IF j < i THEN s[j] ELSE s[j + 1]]
=============================================================================
