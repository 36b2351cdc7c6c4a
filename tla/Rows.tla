-------------------------------- MODULE Rows --------------------------------
(***************************************************************************)
(* The rows of the editor: how a row is drawn, how it is coloured, and how *)
(* the colours follow when rows change (src/src/editor.cpp 27-287).        *)
(*                                                                         *)
(* A text is a sequence of rows, a row a sequence of characters.  What the *)
(* editor keeps beside a row is its look: the colour of every drawn        *)
(* character, and whether a block comment is still open at its end, which  *)
(* is where the colouring of the next row starts.  Keywords and numbers    *)
(* have no colour here: they are looked for where nothing else begins and  *)
(* never reach into the next row.                                          *)
(***************************************************************************)
EXTENDS Integers, Sequences, SequencesExt

CONSTANT TabStop        \* KILO_TAB_STOP

ASSUME TabAssumption == TabStop \in Nat \ {0}

Tab    == "\t"
Space  == " "
Quotes == {"\"", "'"}
Escape == "\\"

-----------------------------------------------------------------------------
(* What is drawn *)

\* The column after a character that is drawn at column rx
After(rx, c) == IF c = Tab THEN rx + TabStop - (rx % TabStop) ELSE rx + 1

\* The column at which the character after the first cx ones is drawn
CxToRx(s, cx) ==
  LET col[j \in 0..cx] == IF j = 0 THEN 0 ELSE After(col[j - 1], s[j])
  IN  col[cx]

\* a bug to be caught: a column of the screen is taken for a position in the row
RxToCxRaw(s, rx) == IF rx > Len(s) THEN Len(s) ELSE rx

\* The character that is drawn at column rx, or the end of the row
RxToCx(s, rx) ==
  Min({cx \in 0..(Len(s) - 1) : CxToRx(s, cx + 1) > rx} \cup {Len(s)})

Rendered(s) ==
  LET upto[j \in 0..Len(s)] ==
        IF j = 0 THEN <<>>
        ELSE upto[j - 1] \o
               IF s[j] = Tab
               THEN [k \in 1..(TabStop - (Len(upto[j - 1]) % TabStop)) |-> Space]
               ELSE <<s[j]>>
  IN  upto[Len(s)]

-----------------------------------------------------------------------------
(* Colours.  A scan is in "code", in a "block" comment or in a string, and *)
(* then its state is the quote that ends it.                               *)

States == {"code", "block"} \cup Quotes

Pair(s, i, a, b) == i < Len(s) /\ s[i] = a /\ s[i + 1] = b

Token(len, colour, state) == [len |-> len, colour |-> colour, state |-> state]

\* What the loop of editorUpdateSyntax() takes from the row in one turn
Taken(s, i, state) ==
  CASE state = "code" /\ Pair(s, i, "/", "/") -> Token(Len(s) + 1 - i, "comment", "code")
    [] state = "code" /\ Pair(s, i, "/", "*") -> Token(2, "block", "block")
    [] state = "code" /\ s[i] \in Quotes      -> Token(1, "string", s[i])
    [] state = "block" ->
         IF Pair(s, i, "*", "/") THEN Token(2, "block", "code")
                                 ELSE Token(1, "block", "block")
    [] state \in Quotes ->
         IF s[i] = Escape /\ i < Len(s) THEN Token(2, "string", state)
         ELSE Token(1, "string", IF s[i] = state THEN "code" ELSE state)
    [] OTHER -> Token(1, "normal", "code")

\* The look of a row with these drawn characters, below a row that leaves a
\* block comment open or not
Scan(s, open) ==
  LET from[i \in 1..(Len(s) + 1)] ==
        [state \in States |->
           IF i > Len(s) THEN [open |-> state = "block", hl |-> <<>>]
           ELSE LET t    == Taken(s, i, state)
                    rest == from[i + t.len][t.state]
                IN  [rest EXCEPT !.hl = [k \in 1..t.len |-> t.colour] \o @]]
  IN  from[1][IF open THEN "block" ELSE "code"]

\* Rows i, i+1, ... scanned one after the other, the first below a row that
\* leaves a block comment open or not
ScannedFrom(text, i, open) ==
  LET scan[k \in i..Len(text)] ==
        Scan(Rendered(text[k]), IF k = i THEN open ELSE scan[k - 1].open)
  IN  scan

Unscanned == [open |-> FALSE, hl |-> <<>>]

OpenAbove(look, i) == i > 1 /\ look[i - 1].open

\* a bug to be caught: the next row is scanned again only if a comment was opened
UpdateSyntaxOpened(text, look, i, numrows) ==
  LET scan == ScannedFrom(text, i, OpenAbove(look, i))
      Redone(k) ==
        \/ k = i
        \/ k \in (i + 1)..numrows /\ \A j \in i..(k - 1) : scan[j].open /\ ~ look[j].open
  IN  [k \in 1..Len(text) |-> IF Redone(k) THEN scan[k] ELSE look[k]]

\* editorUpdateSyntax(): row i is scanned again, and the next one as long as
\* what is left open changes; numrows is what the editor takes for the
\* number of rows at that moment
UpdateSyntax(text, look, i, numrows) ==
  LET scan == ScannedFrom(text, i, OpenAbove(look, i))
      Redone(k) ==
        \/ k = i
        \/ k \in (i + 1)..numrows /\ \A j \in i..(k - 1) : scan[j].open # look[j].open
  IN  [k \in 1..Len(text) |-> IF Redone(k) THEN scan[k] ELSE look[k]]

-----------------------------------------------------------------------------
(* Operations on rows: each returns the text or the looks afterwards.      *)

InsertRow(text, i, s) == InsertAt(text, i, s)

\* A new row is scanned before numrows is increased
LookOfInsert(text, look, i, s) ==
  UpdateSyntax(InsertAt(text, i, s), InsertAt(look, i, Unscanned), i, Len(text))

UpdateRow(text, i, s) == [text EXCEPT ![i] = s]

LookOfUpdate(text, look, i, s) ==
  UpdateSyntax([text EXCEPT ![i] = s], look, i, Len(text))

\* The rows above and below are not scanned again
DelRow(rows, i) == RemoveAt(rows, i)
=============================================================================
