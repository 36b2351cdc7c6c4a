-------------------------- MODULE EditorProperties --------------------------
(***************************************************************************)
(* What the editor keeps true of its text, its cursor and its colours.     *)
(***************************************************************************)
EXTENDS Editor

-----------------------------------------------------------------------------
(* The cursor is in the text: in a row or just below the last one, at a    *)
(* character or just behind the row.  Every key relies on it -             *)
(* editorInsertChar() and editorInsertNewline() index the row of the       *)
(* cursor unchecked, editorRowDelChar() only checks the character - while  *)
(* the page keys, a search and the snap to a shorter row each set one      *)
(* coordinate before the other.  The place a search goes back to is a      *)
(* place in the text too, and the screen starts above the cursor.          *)

Texts   == Seq(Seq(Characters))
Cursors == [cy : Nat, cx : Nat]
Files   == [size : Nat, nblks : Nat, data : Seq(Characters), acl : SUBSET {"r", "w"}]

TypeOK ==
  /\ mode \in {"shell", "edit", "find"}
  /\ text \in Texts /\ DOMAIN look = 1..Len(text)
  /\ cursor \in Cursors /\ rowoff \in Nat
  /\ dirty \in BOOLEAN /\ quits \in 0..QuitTimes
  /\ file \in Files
  /\ DOMAIN find = DOMAIN NoSearch
  /\ find.from \in [cursor : Cursors, rowoff : Nat]
  /\ find.last \in Nat

InRows(rows, c) == c.cy \in 0..Len(rows) /\ c.cx \in 0..RowLen(rows, c.cy)
InText(c)       == InRows(text, c)

\* The row of the cursor is on the screen
OnScreen == rowoff <= cursor.cy /\ cursor.cy < rowoff + ScreenRows

CursorInText ==
  /\ TypeOK
  /\ mode # "shell" => InText(cursor) /\ OnScreen
  /\ mode = "find" => InText(find.from.cursor) /\ find.line \in 0..Len(text)

-----------------------------------------------------------------------------
(* A row is coloured as its characters and the row above it say, whatever  *)
(* was typed or erased before and whether or not a search has marked it.   *)
(* The rows are scanned one by one as they change, and the next one as     *)
(* long as what is left open changes (editor.cpp:44, :142).  Three rows    *)
(* may be left behind, with the colours of another text: the one below two *)
(* that are joined (editor.cpp:278, editorDelRow()); the last one, after a *)
(* row was split, because numrows is not increased until then              *)
(* (editor.cpp:266, :268); and the one below a row that left a comment     *)
(* open and is split where its second part does not, as "/*/" is between   *)
(* its first two characters: the second part is scanned below the whole    *)
(* row, and compared with a row that was not scanned at all.               *)

Looks == IF mode = "find" THEN Unmarked ELSE look

Coloured(i) == Looks[i] = Scan(Rendered(text[i]), OpenAbove(Looks, i))

WellColoured == mode # "shell" => \A i \in 1..Len(text) : Coloured(i)

Joined == mode = "edit" /\ Len(text') < Len(text)
Split  == mode = "edit" /\ cursor.cx > 0 /\ Len(text') > Len(text)

CommentClosed == look[cursor.cy + 1].open /\ ~ look'[cursor.cy + 2].open

LeftBehind(i) ==
  \/ Joined /\ i = cursor'.cy + 2
  \/ Split /\ i = Len(text')
  \/ Split /\ CommentClosed /\ i = cursor.cy + 3

ColoursFollow ==
  [][ WellColoured /\ mode' # "shell" =>
        \A i \in 1..Len(text') : LeftBehind(i) \/ Coloured(i)' ]_<<mode, text, look, cursor, find>>

-----------------------------------------------------------------------------
(* During a search the cursor stands at the match: what is drawn from the  *)
(* column of the mark on is the query, and the character at the cursor is  *)
(* the one drawn at that column, also where tabs stand before it.  The     *)
(* cursor is set from the column in the drawn row (editor.cpp:477) while   *)
(* the mark is set on the colours of the drawn row (editor.cpp:483).  Once *)
(* the search is over, no mark is left.                                    *)

MarkOf(i) == {k \in DOMAIN look[i].hl : look[i].hl[k] = "match"}

FoundIsThere ==
  /\ \A i \in DOMAIN text :
       MarkOf(i) # {} => mode = "find" /\ i = find.line
  /\ mode = "find" /\ find.line # 0 =>
       LET drawn == Rendered(text[find.line])
           row   == text[find.line]
           mark  == MarkOf(find.line)
       IN  /\ Cardinality(mark) = Len(find.query)
           /\ cursor.cy = find.line - 1
           /\ mark # {} =>
                /\ SubSeq(drawn, Min(mark), Max(mark)) = find.query
                /\ CxToRx(row, cursor.cx) < Min(mark)
                /\ Min(mark) <= CxToRx(row, cursor.cx + 1)

-----------------------------------------------------------------------------
(* Seen as one text with a point in it, the editor does what module        *)
(* TextBuffer says: a key inserts or erases one character or moves the     *)
(* point, what is loaded is what was saved, and changes are not left       *)
(* behind before QuitTimes warnings without another key between them.      *)
(* Rows are split and joined in several steps that each see the row of the *)
(* cursor, and the count of warnings is kept in a static variable.         *)

PointOf(c) == Len(Flat(SubSeq(text, 1, c.cy))) + c.cx

Abstract == INSTANCE TextBuffer WITH
  contents <- Flat(text),
  point    <- PointOf(cursor),
  disk     <- file.data,
  changed  <- dirty,
  warnings <- QuitTimes - quits,
  Limit    <- QuitTimes

ImplementsTextBuffer == Abstract!Spec

-----------------------------------------------------------------------------
(* While no "(modified)" is shown (editor.cpp:605) the file holds the text *)
(* on the screen: it was just read, and then it lacks the newline of the   *)
(* last row, or it was just saved.                                         *)

UnmodifiedIsOnDisk ==
  mode = "edit" /\ ~dirty => Flat(text) \in {file.data, Append(file.data, NL)}
=============================================================================
