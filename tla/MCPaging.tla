------------------------------ MODULE MCPaging ------------------------------
(***************************************************************************)
(* Small instances of module Paging for TLC.                               *)
(***************************************************************************)
EXTENDS PagingProperties, TLC

CONSTANTS p1, p2, boot, other

Symmetry == Permutations(Procs)
=============================================================================
