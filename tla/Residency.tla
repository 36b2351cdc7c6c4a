----------------------------- MODULE Residency ------------------------------
(***************************************************************************)
(* What demand paging promises a process: a page is resident once it is    *)
(* written, no more pages are resident than the program asked frames for,  *)
(* a page leaves only to make room for another, one for one, and the page  *)
(* of the program itself never leaves.                                     *)
(***************************************************************************)
EXTENDS Integers, FiniteSets

CONSTANTS Owners, VirtPages, CodePage

VARIABLES resident, quota

rvars == <<resident, quota>>

Begin(p) ==
  /\ resident[p] = {}
  /\ resident' = [resident EXCEPT ![p] = {CodePage}]
  /\ quota'[p] \in Nat \ {0}
  /\ quota' = [quota EXCEPT ![p] = quota'[p]]

Bring(p, v) ==
  /\ v \notin resident[p] /\ Cardinality(resident[p]) < quota[p]
  /\ resident' = [resident EXCEPT ![p] = @ \cup {v}]
  /\ UNCHANGED quota

Exchange(p, v, w) ==
  /\ v \notin resident[p] /\ Cardinality(resident[p]) = quota[p]
  /\ w \in resident[p] /\ w # CodePage
  /\ resident' = [resident EXCEPT ![p] = (@ \ {w}) \cup {v}]
  /\ UNCHANGED quota

End(p) ==
  /\ resident' = [resident EXCEPT ![p] = {}]
  /\ quota' = [quota EXCEPT ![p] = 0]

Init == resident = [p \in Owners |-> {}] /\ quota = [p \in Owners |-> 0]

Next ==
  \E p \in Owners :
    \/ Begin(p)
    \/ \E v \in VirtPages : Bring(p, v)
    \/ \E v, w \in VirtPages : Exchange(p, v, w)
    \/ End(p)

Spec == Init /\ [][Next]_rvars
=============================================================================
