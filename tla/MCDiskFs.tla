------------------------------ MODULE MCDiskFs ------------------------------
(***************************************************************************)
(* The instance of DiskFs that TLC checks.                                 *)
(***************************************************************************)
EXTENDS DiskFsProperties, TLC

CONSTANTS one, two      \* the names

\* names are only ever compared
MCSymmetry == Permutations({one, two})

\* bound: the first states with such a mark or the last one are checked, not followed
MCFollowed == NoneOf(Upsetting) /\ Cardinality(past) < MaxMarks
=============================================================================
