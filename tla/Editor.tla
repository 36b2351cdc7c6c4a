------------------------------- MODULE Editor -------------------------------
(***************************************************************************)
(* The text editor that the shell's command "edit" runs on one file, a     *)
(* ".p" program (src/src/editor.cpp; src/src/shell.cpp 507-515).           *)
(*                                                                         *)
(* Every action is one key: the handler in editorProcessKeypress() with    *)
(* all it calls, and the refresh of the screen that follows.  A search is  *)
(* a loop of its own that reads keys until it is left, so it is a mode     *)
(* here.  Rows are counted from 0 by the cursor, as in the code, and from  *)
(* 1 by the sequences: cursor.cy = 0 is text[1].                           *)
(***************************************************************************)
EXTENDS Rows, FileData

CONSTANTS
  Letters,      \* the characters that are typed
  InitTexts,    \* what the file may hold at first
  Modes,        \* what its owner may do with it, sets of "r" and "w"
  Garbage,      \* what uninitialised memory may read as
  ScreenRows,   \* rows of the screen, without the two lines at the bottom
  QuitTimes,    \* KILO_QUIT_TIMES
  MaxRows,      \* bounds of the model: rows of the text,
  MaxChars,     \*   characters in its rows,
  MaxFile,      \*   characters of a text that is saved,
  MaxSearched,  \*   characters of a text that is searched,
  MaxQuery      \*   characters of a query

\* With fewer than three lines on the terminal the loop of the page keys
\* does not end as it should.
ASSUME ScreenAssumption == ScreenRows \in Nat \ {0}
ASSUME QuitAssumption   == QuitTimes \in Nat

VARIABLES
  mode,         \* "shell", "edit" or, in the loop of a search, "find"
  text,         \* E.row[].chars, their number is E.numrows
  look,         \* E.row[].hl and hl_open_comment
  cursor,       \* E.cy and E.cx
  rowoff,       \* E.rowoff
  dirty,        \* E.dirty # 0
  quits,        \* quit_times of editorProcessKeypress()
  file,         \* the file on disk
  find          \* the variables of a search

vars == <<mode, text, look, cursor, rowoff, dirty, quits, file, find>>

NL == "\n"

Characters == Letters \cup {Tab, NL}

ASSUME TextAssumption ==
  /\ InitTexts \subseteq Seq(Characters) /\ Garbage \subseteq Seq(Characters)
  /\ Modes \subseteq SUBSET {"r", "w"}

At(cy, cx) == [cy |-> cy, cx |-> cx]

\* The static variables of editorFindCallback() between two searches: last
\* is last_match, 0 standing for -1, and line is the row whose colours are
\* saved in hl, 0 standing for none.
NoSearch == [query |-> <<>>, last |-> 0, dir |-> 1, line |-> 0, hl |-> <<>>,
             from |-> [cursor |-> At(0, 0), rowoff |-> 0]]

-----------------------------------------------------------------------------
(* The text in a file *)

\* editorRowsToString()
Flat(rows) ==
  LET upto[i \in 0..Len(rows)] ==
        IF i = 0 THEN <<>> ELSE upto[i - 1] \o rows[i] \o <<NL>>
  IN  upto[Len(rows)]

\* The rows editorOpen() makes: what follows the last newline is a row, even
\* when nothing follows
Lines(data) ==
  LET upto[i \in 0..Len(data)] ==
        IF i = 0 THEN << <<>> >>
        ELSE IF data[i] = NL THEN Append(upto[i - 1], <<>>)
        ELSE LET n == Len(upto[i - 1])
             IN  [upto[i - 1] EXCEPT ![n] = Append(@, data[i])]
  IN  upto[Len(data)]

\* The characters of all rows, for the bounds
Chars(rows) == Len(Flat(rows)) - Len(rows)

-----------------------------------------------------------------------------
(* The cursor *)

\* The characters of the row at cy; below the last row there are none
RowLen(rows, cy) == IF cy < Len(rows) THEN Len(rows[cy + 1]) ELSE 0

\* a bug to be caught: the cursor keeps its column in a row that is shorter by one
SnappedLate(rows, c) ==
  IF c.cx > RowLen(rows, c.cy) + 1 THEN [c EXCEPT !.cx = RowLen(rows, c.cy)] ELSE c

\* The end of editorMoveCursor(): in a shorter row the cursor goes to its end
Snapped(rows, c) ==
  IF c.cx > RowLen(rows, c.cy) THEN [c EXCEPT !.cx = RowLen(rows, c.cy)] ELSE c

\* editorMoveCursor()
Moved(rows, c, key) ==
  Snapped(rows,
    CASE key = "left"  /\ c.cx # 0               -> At(c.cy, c.cx - 1)
      [] key = "left"  /\ c.cx = 0 /\ c.cy > 0   -> At(c.cy - 1, RowLen(rows, c.cy - 1))
      [] key = "right" /\ c.cx < RowLen(rows, c.cy) -> At(c.cy, c.cx + 1)
      [] key = "right" /\ c.cx = RowLen(rows, c.cy) /\ c.cy < Len(rows) -> At(c.cy + 1, 0)
      [] key = "up"    /\ c.cy # 0               -> At(c.cy - 1, c.cx)
      [] key = "down"  /\ c.cy < Len(rows)       -> At(c.cy + 1, c.cx)
      [] OTHER -> c)

MovedTimes(rows, c, key, times) ==
  LET after[n \in 0..times] == IF n = 0 THEN c ELSE Moved(rows, after[n - 1], key)
  IN  after[times]

\* Where each key that only moves the cursor takes it
Target(key) ==
  LET bottom == rowoff + ScreenRows - 1
  IN  CASE key \in {"left", "right", "up", "down"} -> Moved(text, cursor, key)
        [] key = "home" -> At(cursor.cy, 0)
        [] key = "end" ->
             IF cursor.cy < Len(text) THEN At(cursor.cy, RowLen(text, cursor.cy)) ELSE cursor
        [] key = "page_up" ->
             MovedTimes(text, At(rowoff, cursor.cx), "up", ScreenRows)
        [] key = "page_down" ->
             MovedTimes(text, At(IF bottom > Len(text) THEN Len(text) ELSE bottom, cursor.cx),
                        "down", ScreenRows)

Keys == {"left", "right", "up", "down", "home", "end", "page_up", "page_down"}

\* editorScroll(): the first row on the screen once the cursor is at cy
Scroll(off, cy) ==
  CASE cy < off -> cy
    [] cy >= off + ScreenRows -> cy - ScreenRows + 1
    [] OTHER -> off

\* a bug to be caught: another key between two warnings does not start the count again
KeyDoneCounted(c) ==
  /\ cursor' = c
  /\ rowoff' = Scroll(rowoff, c.cy)
  /\ UNCHANGED <<mode, find, quits>>

\* The end of a key that is handled while editing: the screen is refreshed
\* and the count of Ctrl-Q starts again
KeyDone(c) ==
  /\ cursor' = c
  /\ rowoff' = Scroll(rowoff, c.cy)
  /\ quits' = QuitTimes
  /\ UNCHANGED <<mode, find>>

-----------------------------------------------------------------------------
(* Opening, saving, leaving *)

Edit ==
  /\ mode = "shell"
  /\ \E data \in Reads(file, Garbage) :
       LET rows == Lines(data)
           scan == ScannedFrom(rows, 1, FALSE)
       IN  /\ Len(rows) <= MaxRows
           /\ text' = rows
           /\ look' = [i \in 1..Len(rows) |-> scan[i]]
  /\ mode' = "edit"
  /\ cursor' = At(0, 0) /\ rowoff' = 0 /\ dirty' = FALSE
  /\ UNCHANGED <<quits, file, find>>

\* What write() returns is thrown away.  How many blocks are free depends on the
\* other files.
Save ==
  /\ mode = "edit"
  /\ Len(Flat(text)) <= MaxFile /\ Len(text) < MaxRows
  /\ \E free \in 0..MaxBlks : file' = Write(file, Flat(text), free)
  /\ dirty' = FALSE
  /\ KeyDone(cursor)
  /\ UNCHANGED <<text, look>>

\* Ctrl-Q with a change that was not saved
Warn ==
  /\ mode = "edit" /\ dirty /\ quits > 0
  /\ quits' = quits - 1
  /\ UNCHANGED <<mode, text, look, cursor, rowoff, dirty, file, find>>

\* Ctrl-Q: the count is static and keeps its value
Leave ==
  /\ mode = "edit" /\ ~(dirty /\ quits > 0)
  /\ mode' = "shell"
  /\ UNCHANGED <<text, look, cursor, rowoff, dirty, quits, file, find>>

-----------------------------------------------------------------------------
(* Changing the text *)

\* editorInsertChar(): below the last row a row is made first
InsertChar(c) ==
  /\ mode = "edit" /\ Chars(text) < MaxChars
  /\ LET i     == cursor.cy + 1
         below == cursor.cy = Len(text)
         rows  == IF below THEN InsertRow(text, i, <<>>) ELSE text
         looks == IF below THEN LookOfInsert(text, look, i, <<>>) ELSE look
         s     == InsertAt(rows[i], cursor.cx + 1, c)
     IN  /\ Len(rows) <= MaxRows
         /\ text' = UpdateRow(rows, i, s)
         /\ look' = LookOfUpdate(rows, looks, i, s)
  /\ dirty' = TRUE
  /\ KeyDone(At(cursor.cy, cursor.cx + 1))
  /\ UNCHANGED file

\* editorInsertNewline(): within a row the second part becomes a row first
NewLine ==
  /\ mode = "edit" /\ Len(text) < MaxRows
  /\ LET i == cursor.cy + 1
     IN  IF cursor.cx = 0
         THEN /\ text' = InsertRow(text, i, <<>>)
              /\ look' = LookOfInsert(text, look, i, <<>>)
         ELSE LET s      == text[i]
                  first  == SubSeq(s, 1, cursor.cx)
                  second == SubSeq(s, cursor.cx + 1, Len(s))
                  rows   == InsertRow(text, i + 1, second)
                  looks  == LookOfInsert(text, look, i + 1, second)
              IN  /\ text' = UpdateRow(rows, i, first)
                  /\ look' = LookOfUpdate(rows, looks, i, first)
  /\ dirty' = TRUE
  /\ KeyDone(At(cursor.cy + 1, 0))
  /\ UNCHANGED file

\* editorDelChar() at c: the character before it, or the end of the row above
DelChar(c) ==
  LET i == c.cy + 1
  IN  IF c.cy = Len(text) \/ (c.cx = 0 /\ c.cy = 0)
      THEN /\ KeyDone(c)
           /\ UNCHANGED <<text, look, dirty>>
      ELSE /\ dirty' = TRUE
           /\ IF c.cx > 0
              THEN LET s == RemoveAt(text[i], c.cx)
                   IN  /\ text' = UpdateRow(text, i, s)
                       /\ look' = LookOfUpdate(text, look, i, s)
                       /\ KeyDone(At(c.cy, c.cx - 1))
              ELSE LET s == text[i - 1] \o text[i]
                   IN  /\ text' = DelRow(UpdateRow(text, i - 1, s), i)
                       /\ look' = DelRow(LookOfUpdate(text, look, i - 1, s), i)
                       /\ KeyDone(At(c.cy - 1, RowLen(text, c.cy - 1)))

\* BACKSPACE and DEL, which moves right first
Erase(key) ==
  /\ mode = "edit"
  /\ DelChar(IF key = "del" THEN Moved(text, cursor, "right") ELSE cursor)
  /\ UNCHANGED file

\* The keys that only move the cursor, and those that do nothing ("none")
Go(key) ==
  /\ mode = "edit"
  /\ KeyDone(IF key = "none" THEN cursor ELSE Target(key))
  /\ UNCHANGED <<text, look, dirty, file>>

-----------------------------------------------------------------------------
(* Searching *)

\* The columns of s at which query begins
Hits(s, query) ==
  {m \in 0..(Len(s) - Len(query)) : SubSeq(s, m + 1, m + Len(query)) = query}

\* What the colours are without the mark of a search
Unmarked == IF find.line = 0 THEN look ELSE [look EXCEPT ![find.line].hl = find.hl]

\* editorFindCallback() for a key that goes on with the search
Searched(key, query) ==
  LET n    == Len(text)
      last == IF key \in {"next", "prev"} THEN find.last ELSE 0
      dir  == IF key = "prev" /\ last # 0 THEN -1 ELSE 1
      Visited(i) == ((last - 1 + dir * i) % n) + 1
      found == {i \in 1..n : Hits(Rendered(text[Visited(i)]), query) # {}}
  IN  IF found = {}
      THEN /\ find' = [find EXCEPT !.query = query, !.last = last, !.dir = dir,
                                   !.line = 0, !.hl = <<>>]
           /\ look' = Unmarked
           /\ UNCHANGED <<cursor, rowoff>>
      ELSE LET row == Visited(Min(found))
               m   == Min(Hits(Rendered(text[row]), query))
           IN  /\ find' = [find EXCEPT !.query = query, !.last = row, !.dir = dir,
                                       !.line = row, !.hl = Unmarked[row].hl]
               /\ look' = [Unmarked EXCEPT ![row].hl =
                             [k \in 1..Len(@) |->
                                IF k \in (m + 1)..(m + Len(query)) THEN "match" ELSE @[k]]]
               /\ cursor' = At(row - 1, RxToCx(text[row], m))
               /\ rowoff' = Scroll(n, row - 1)

StartFind ==
  /\ mode = "edit" /\ Chars(text) <= MaxSearched
  /\ mode' = "find"
  /\ find' = [NoSearch EXCEPT !.from = [cursor |-> cursor, rowoff |-> rowoff]]
  /\ UNCHANGED <<text, look, cursor, rowoff, dirty, quits, file>>

\* A key of the prompt: a character, BACKSPACE, an arrow, or another
FindKey ==
  /\ mode = "find"
  /\ \/ \E c \in Letters : Len(find.query) < MaxQuery /\ Searched("type", Append(find.query, c))
     \/ Searched("rub", SubSeq(find.query, 1, Len(find.query) - 1))
     \/ \E key \in {"next", "prev", "none"} : Searched(key, find.query)
  /\ UNCHANGED <<mode, text, dirty, quits, file>>

\* ENTER without a query does not leave the prompt
FindNothing ==
  /\ mode = "find" /\ find.query = <<>>
  /\ look' = Unmarked
  /\ find' = [NoSearch EXCEPT !.from = find.from]
  /\ UNCHANGED <<mode, text, cursor, rowoff, dirty, quits, file>>

\* ENTER stays where the match is
FindEnter ==
  /\ mode = "find" /\ find.query # <<>>
  /\ mode' = "edit"
  /\ look' = Unmarked
  /\ find' = NoSearch
  /\ quits' = QuitTimes
  /\ UNCHANGED <<text, cursor, rowoff, dirty, file>>

\* ESC goes back to where the search began
FindEsc ==
  /\ mode = "find"
  /\ mode' = "edit"
  /\ look' = Unmarked
  /\ find' = NoSearch
  /\ cursor' = find.from.cursor
  /\ rowoff' = Scroll(find.from.rowoff, find.from.cursor.cy)
  /\ quits' = QuitTimes
  /\ UNCHANGED <<text, dirty, file>>

-----------------------------------------------------------------------------

Init ==
  /\ mode = "shell"
  /\ text = <<>> /\ look = <<>>
  /\ cursor = At(0, 0) /\ rowoff = 0
  /\ dirty = FALSE /\ quits = QuitTimes
  /\ \E acl \in Modes, data \in InitTexts :
       file = [Write(NewFile({"w"}), data, MaxBlks) EXCEPT !.acl = acl]
  /\ find = NoSearch

Next ==
  \/ Edit \/ Save \/ Warn \/ Leave
  \/ \E c \in Letters : InsertChar(c)
  \/ NewLine
  \/ \E key \in {"backspace", "del"} : Erase(key)
  \/ \E key \in Keys \cup {"none"} : Go(key)
  \/ StartFind \/ FindKey \/ FindNothing \/ FindEnter \/ FindEsc

Spec == Init /\ [][Next]_vars
=============================================================================
