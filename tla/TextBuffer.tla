----------------------------- MODULE TextBuffer -----------------------------
(***************************************************************************)
(* What an editor promises its user: one text with a point in it, the text *)
(* on disk, and that a text with unsaved changes is not left behind before *)
(* the user was warned Limit times in a row.  Module Editor is shown to    *)
(* implement this specification (EditorProperties!ImplementsTextBuffer).   *)
(***************************************************************************)
EXTENDS Integers, Sequences, SequencesExt

CONSTANTS NL, Limit

VARIABLES
  mode,         \* "shell", "edit" or "find"
  contents,     \* the characters of the text, each line ended by NL
  point,        \* how many of them stand before the cursor
  disk,         \* the text on disk
  changed,      \* the text differs from what was loaded or saved last
  warnings      \* warnings since the last other key

vars == <<mode, contents, point, disk, changed, warnings>>

Init ==
  /\ mode = "shell" /\ contents = <<>> /\ point = 0
  /\ changed = FALSE /\ warnings = 0

Load ==
  /\ mode = "shell" /\ mode' = "edit"
  /\ contents' = Append(disk, NL) /\ point' = 0 /\ changed' = FALSE
  /\ UNCHANGED <<disk, warnings>>

Save ==
  /\ mode = "edit"
  /\ disk' = contents /\ changed' = FALSE /\ warnings' = 0
  /\ UNCHANGED <<mode, contents, point>>

\* A character at the point; at the end of the text it gets a line
Insert ==
  /\ mode = "edit" /\ changed' = TRUE /\ warnings' = 0
  /\ point' = point + 1
  /\ Len(contents') > point
  /\ contents' = InsertAt(contents, point + 1, contents'[point + 1])
                   \o (IF point = Len(contents) /\ contents'[point + 1] # NL
                       THEN <<NL>> ELSE <<>>)
  /\ UNCHANGED <<mode, disk>>

\* The character before or after the point, but not the end of the last line
Erase ==
  /\ mode = "edit" /\ changed' = TRUE /\ warnings' = 0
  /\ \E p \in {point, point + 1} \cap 1..(Len(contents) - 1) :
       contents' = RemoveAt(contents, p) /\ point' = p - 1
  /\ UNCHANGED <<mode, disk>>

Move ==
  /\ mode = "edit" /\ warnings' = 0
  /\ point' \in 0..Len(contents)
  /\ UNCHANGED <<mode, contents, disk, changed>>

\* A search starts, goes on and ends; only the point is moved by it
Search ==
  /\ <<mode, mode'>> \in {<<"edit", "find">>, <<"find", "find">>, <<"find", "edit">>}
  /\ point' \in 0..Len(contents)
  /\ mode = "edit" => point' = point
  /\ warnings' = IF mode' = "edit" THEN 0 ELSE warnings
  /\ UNCHANGED <<contents, disk, changed>>

Warn ==
  /\ mode = "edit" /\ changed /\ warnings < Limit
  /\ warnings' = warnings + 1
  /\ UNCHANGED <<mode, contents, point, disk, changed>>

\* A text with changes is left after Limit warnings only
Close ==
  /\ mode = "edit" /\ (changed => warnings = Limit)
  /\ mode' = "shell"
  /\ UNCHANGED <<contents, point, disk, changed, warnings>>

Next == Load \/ Save \/ Insert \/ Erase \/ Move \/ Search \/ Warn \/ Close

Spec == Init /\ [][Next]_vars
=============================================================================
