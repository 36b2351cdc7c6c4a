------------------------------ MODULE MCShell -------------------------------
(***************************************************************************)
(* A small tree, and the lines that are typed in it.                       *)
(***************************************************************************)
EXTENDS ShellProperties

\* Directories of the same name at two levels, so that a wrong turn is noticed
Tree == { <<>>, <<"a">>, <<"b">>, <<"a", "a">>, <<"a", "b">> }

PartLists == UNION { [1..n -> {"a", "b", ".", ".."}] : n \in 1..2 }
               \cup [1..3 -> {"b", ".", ".."}]

Absolute == { Path(TRUE, parts) : parts \in UNION { [1..n -> {"a", "b", ".."}] : n \in 0..2 } }

Cd(path) == [op |-> "cd", path |-> path]

Words == { [op |-> "set", mode |-> 2], [op |-> "set", mode |-> 3],
           [op |-> "pause"], [op |-> "window"], [op |-> "exit"] }

\* One cd, or up to two commands of another kind
TypedLines ==
  { <<Cd(path)>> : path \in Absolute \cup { Path(FALSE, parts) : parts \in PartLists } }
    \cup { <<w>> : w \in Words }
    \cup { <<v, w>> : v, w \in Words }

\* A directory, and a name that there is not
TypedInWindow == { Path(TRUE, <<"a", "b">>), Path(FALSE, <<"c">>) }
=============================================================================
