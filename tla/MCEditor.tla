------------------------------ MODULE MCEditor ------------------------------
(***************************************************************************)
(* The values the configurations give to the constants of module Editor.   *)
(***************************************************************************)
EXTENDS EditorProperties

\* A row that starts with a tab
TabText == { <<"\t", "/", NL>> }

OneText == { <<"a", NL>> }

ReadWrite == { {"r", "w"} }
=============================================================================
