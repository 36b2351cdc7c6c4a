---------------------------- MODULE EditorProofs ----------------------------
(***************************************************************************)
(* The cursor of the editor is in the text, for every text, screen and     *)
(* sequence of keys: theorem CursorStays.  As long as saves fit in a block *)
(* the editor is a text buffer, and what is not modified is on disk:       *)
(* theorems BufferImplemented and UnmodifiedStaysOnDisk.  The colours      *)
(* follow the text, and a search stands at its match: theorems             *)
(* ColoursStayRight and MatchStays.                                        *)
(***************************************************************************)
EXTENDS EditorProperties, ListLemmas, FiniteSetTheorems

-----------------------------------------------------------------------------
(* Sequences and numbers *)

\* The least of some numbers is one of them.
LEMMA MinIn ==
  ASSUME NEW T \in SUBSET Nat, T # {}
  PROVE  Min(T) \in T /\ \A k \in T : Min(T) <= k
<1>1. \E m \in T : \A k \in T : m <= k BY LeastNat
<1> QED BY <1>1 DEF Min

\* The sequence t is s with e as the i-th element
IsInserted(S, s, i, e, t) ==
  /\ t \in Seq(S) /\ Len(t) = Len(s) + 1
  /\ \A k \in 1..(Len(s) + 1) : t[k] = IF k < i THEN s[k] ELSE IF k = i THEN e ELSE s[k - 1]

\* The sequence t is s without its i-th element
IsRemoved(S, s, i, t) ==
  /\ t \in Seq(S) /\ Len(t) = Len(s) - 1
  /\ \A k \in 1..(Len(s) - 1) : t[k] = IF k < i THEN s[k] ELSE s[k + 1]

\* Which elements a sequence has after one was inserted.
LEMMA InsertedAt ==
  ASSUME NEW S, NEW s \in Seq(S), NEW i \in 1..(Len(s) + 1), NEW e \in S
  PROVE  IsInserted(S, s, i, e, InsertAt(s, i, e))
<1> DEFINE a == SubSeq(s, 1, i - 1)
           b == SubSeq(s, i, Len(s))
           y == <<e>>
<1>1. /\ a \in Seq(S) /\ Len(a) = i - 1 /\ Len(s) \in Nat /\ i \in Nat
      /\ b \in Seq(S) /\ Len(b) = Len(s) - i + 1
      /\ \A j \in 1..(i - 1) : a[j] = s[j]
      /\ \A j \in 1..(Len(s) - i + 1) : b[j] = s[i + j - 1]
      /\ y \in Seq(S) /\ Len(y) = 1 /\ y[1] = e
  OBVIOUS
<1>2. InsertAt(s, i, e) = (a \o y) \o b BY DEF InsertAt
<1> HIDE DEF a, b, y
<1> DEFINE h == a \o y
           t == h \o b
<1>3. /\ h \in Seq(S) /\ Len(h) = Len(a) + Len(y)
      /\ \A j \in 1..(Len(a) + Len(y)) : h[j] = IF j <= Len(a) THEN a[j] ELSE y[j - Len(a)]
  BY <1>1, ConcatProperties, Zenon
<1> HIDE DEF h
<1>4. Len(h) = i BY <1>1, <1>3
<1>5. \A j \in 1..(i - 1) : h[j] = s[j] BY <1>1, <1>3
<1>6. h[i] = e
  <2>1. i \in 1..(Len(a) + Len(y)) /\ ~ (i <= Len(a)) /\ i - Len(a) = 1 BY <1>1
  <2> QED BY <1>1, <1>3, <2>1
<1>7. /\ t \in Seq(S) /\ Len(t) = Len(h) + Len(b)
      /\ \A j \in 1..(Len(h) + Len(b)) : t[j] = IF j <= Len(h) THEN h[j] ELSE b[j - Len(h)]
  <2>1. h \in Seq(S) /\ b \in Seq(S) BY <1>1, <1>3
  <2> QED BY <2>1, ConcatProperties, Zenon
<1> HIDE DEF t
<1>8. Len(t) = Len(s) + 1 BY <1>1, <1>4, <1>7
<1>9. ASSUME NEW k \in 1..(Len(s) + 1)
      PROVE  t[k] = IF k < i THEN s[k] ELSE IF k = i THEN e ELSE s[k - 1]
  <2>1. t[k] = IF k <= i THEN h[k] ELSE b[k - i] BY <1>1, <1>4, <1>7
  <2>2. CASE k < i BY <1>1, <1>5, <2>1, <2>2
  <2>3. CASE k = i BY <1>1, <1>6, <2>1, <2>3
  <2>4. CASE k > i
    <3>1. k - i \in 1..(Len(s) - i + 1) /\ i + (k - i) - 1 = k - 1 BY <1>1, <2>4
    <3>2. b[k - i] = s[k - 1] BY <1>1, <3>1
    <3> QED BY <1>1, <2>1, <2>4, <3>2
  <2> QED BY <1>1, <2>2, <2>3, <2>4
<1> QED BY <1>2, <1>7, <1>8, <1>9 DEF t, h, IsInserted

\* One more in a sequence.
LEMMA InsertAtType ==
  ASSUME NEW S, NEW s \in Seq(S), NEW i \in 1..(Len(s) + 1), NEW e \in S
  PROVE  /\ InsertAt(s, i, e) \in Seq(S) /\ Len(InsertAt(s, i, e)) = Len(s) + 1
         /\ InsertAt(s, i, e)[i] = e
         /\ i > 1 => InsertAt(s, i, e)[i - 1] = s[i - 1]
<1>1. Len(s) \in Nat /\ i \in Nat OBVIOUS
<1> DEFINE t == InsertAt(s, i, e)
<1>2. IsInserted(S, s, i, e, t) BY InsertedAt
<1> HIDE DEF t
<1>3. t[i] = e BY <1>1, <1>2 DEF IsInserted
<1>4. i > 1 => t[i - 1] = s[i - 1] BY <1>1, <1>2 DEF IsInserted
<1>5. t \in Seq(S) /\ Len(t) = Len(s) + 1 BY <1>2 DEF IsInserted
<1> QED BY <1>3, <1>4, <1>5 DEF t

\* ... and after one was taken out.
LEMMA RemovedAt ==
  ASSUME NEW S, NEW s \in Seq(S), NEW i \in 1..Len(s)
  PROVE  IsRemoved(S, s, i, RemoveAt(s, i))
<1> DEFINE a == SubSeq(s, 1, i - 1)
           b == SubSeq(s, i + 1, Len(s))
           t == a \o b
<1>1. /\ a \in Seq(S) /\ Len(a) = i - 1 /\ Len(s) \in Nat /\ i \in Nat
      /\ b \in Seq(S) /\ Len(b) = Len(s) - i
      /\ \A j \in 1..(i - 1) : a[j] = s[j]
      /\ \A j \in 1..(Len(s) - i) : b[j] = s[i + j]
  OBVIOUS
<1>2. RemoveAt(s, i) = t BY DEF RemoveAt
<1> HIDE DEF a, b
<1>3. /\ t \in Seq(S) /\ Len(t) = Len(a) + Len(b)
      /\ \A j \in 1..(Len(a) + Len(b)) : t[j] = IF j <= Len(a) THEN a[j] ELSE b[j - Len(a)]
  BY <1>1, ConcatProperties, Zenon
<1> HIDE DEF t
<1>4. Len(t) = Len(s) - 1 BY <1>1, <1>3
<1>5. ASSUME NEW k \in 1..(Len(s) - 1) PROVE t[k] = IF k < i THEN s[k] ELSE s[k + 1]
  <2>1. t[k] = IF k <= i - 1 THEN a[k] ELSE b[k - (i - 1)] BY <1>1, <1>3
  <2>2. CASE k < i BY <1>1, <2>1, <2>2
  <2>3. CASE k >= i
    <3>1. k - (i - 1) \in 1..(Len(s) - i) /\ i + (k - (i - 1)) = k + 1 BY <1>1, <2>3
    <3>2. b[k - (i - 1)] = s[k + 1] BY <1>1, <3>1
    <3> QED BY <1>1, <2>1, <2>3, <3>2
  <2> QED BY <1>1, <2>2, <2>3
<1> QED BY <1>2, <1>3, <1>4, <1>5 DEF IsRemoved

\* One less.
LEMMA RemoveAtType ==
  ASSUME NEW S, NEW s \in Seq(S), NEW i \in 1..Len(s)
  PROVE  /\ RemoveAt(s, i) \in Seq(S) /\ Len(RemoveAt(s, i)) = Len(s) - 1
         /\ i > 1 => RemoveAt(s, i)[i - 1] = s[i - 1]
<1>1. Len(s) \in Nat /\ i \in Nat OBVIOUS
<1> DEFINE t == RemoveAt(s, i)
<1>2. IsRemoved(S, s, i, t) BY RemovedAt
<1> HIDE DEF t
<1>3. i > 1 => t[i - 1] = s[i - 1] BY <1>1, <1>2 DEF IsRemoved
<1>4. t \in Seq(S) /\ Len(t) = Len(s) - 1 BY <1>2 DEF IsRemoved
<1> QED BY <1>3, <1>4 DEF t

\* A part of a sequence.
LEMMA PartType ==
  ASSUME NEW S, NEW s \in Seq(S), NEW m \in 1..(Len(s) + 1), NEW n \in 0..Len(s)
  PROVE  SubSeq(s, m, n) \in Seq(S) /\ (m = 1 => Len(SubSeq(s, m, n)) = n)
OBVIOUS

-----------------------------------------------------------------------------
(* The cursor *)

\* editorScroll() brings the row of the cursor on the screen.
LEMMA ScrollShows ==
  ASSUME NEW off \in Nat, NEW cy \in Nat
  PROVE  /\ Scroll(off, cy) \in Nat
         /\ Scroll(off, cy) <= cy /\ cy < Scroll(off, cy) + ScreenRows
<1>1. CASE cy < off BY <1>1, ScreenAssumption DEF Scroll
<1>2. CASE cy >= off /\ cy >= off + ScreenRows BY <1>2, ScreenAssumption DEF Scroll
<1>3. CASE cy >= off /\ cy < off + ScreenRows BY <1>3, ScreenAssumption DEF Scroll
<1> QED BY <1>1, <1>2, <1>3, ScreenAssumption

\* The length of the row of the cursor; below the last row it is 0.
LEMMA RowLenType ==
  ASSUME NEW rows \in Texts, NEW cy \in Nat
  PROVE  /\ RowLen(rows, cy) \in Nat
         /\ cy < Len(rows) => /\ cy + 1 \in 1..Len(rows)
                              /\ rows[cy + 1] \in Seq(Characters)
                              /\ RowLen(rows, cy) = Len(rows[cy + 1])
         /\ cy >= Len(rows) => RowLen(rows, cy) = 0
BY DEF Texts, RowLen

\* Wherever a key takes the cursor within the rows, it ends in a row.
LEMMA SnappedIn ==
  ASSUME NEW rows \in Texts, NEW c \in Cursors, c.cy <= Len(rows)
  PROVE  Snapped(rows, c) \in Cursors /\ InRows(rows, Snapped(rows, c))
<1>1. RowLen(rows, c.cy) \in Nat /\ Len(rows) \in Nat /\ c.cy \in Nat /\ c.cx \in Nat
  BY RowLenType DEF Cursors, Texts
<1>2. CASE c.cx > RowLen(rows, c.cy)
  <2>1. Snapped(rows, c) = [c EXCEPT !.cx = RowLen(rows, c.cy)] BY <1>2 DEF Snapped
  <2>2. Snapped(rows, c) = [cy |-> c.cy, cx |-> RowLen(rows, c.cy)] BY <2>1 DEF Cursors
  <2> QED BY <1>1, <2>2 DEF Cursors, InRows
<1>3. CASE ~ (c.cx > RowLen(rows, c.cy))
  BY <1>1, <1>3 DEF Snapped, InRows
<1> QED BY <1>2, <1>3

\* An arrow leads from a place in the rows to another.
LEMMA MovedIn ==
  ASSUME NEW rows \in Texts, NEW c \in Cursors, c.cy <= Len(rows), NEW key
  PROVE  Moved(rows, c, key) \in Cursors /\ InRows(rows, Moved(rows, c, key))
<1> DEFINE d ==
       CASE key = "left"  /\ c.cx # 0               -> At(c.cy, c.cx - 1)
         [] key = "left"  /\ c.cx = 0 /\ c.cy > 0   -> At(c.cy - 1, RowLen(rows, c.cy - 1))
         [] key = "right" /\ c.cx < RowLen(rows, c.cy) -> At(c.cy, c.cx + 1)
         [] key = "right" /\ c.cx = RowLen(rows, c.cy) /\ c.cy < Len(rows) -> At(c.cy + 1, 0)
         [] key = "up"    /\ c.cy # 0               -> At(c.cy - 1, c.cx)
         [] key = "down"  /\ c.cy < Len(rows)       -> At(c.cy + 1, c.cx)
         [] OTHER -> c
<1>1. RowLen(rows, c.cy) \in Nat /\ Len(rows) \in Nat /\ c.cy \in Nat /\ c.cx \in Nat
  BY RowLenType DEF Cursors, Texts
<1>2. c.cy > 0 => RowLen(rows, c.cy - 1) \in Nat
  <2>1. c.cy > 0 => c.cy - 1 \in Nat BY <1>1
  <2> HIDE DEF d
  <2> QED BY <2>1, RowLenType
<1>3. d \in Cursors /\ d.cy <= Len(rows)
  <2>1. CASE key = "left"
    <3>1. d = IF c.cx # 0 THEN At(c.cy, c.cx - 1)
              ELSE IF c.cy > 0 THEN At(c.cy - 1, RowLen(rows, c.cy - 1)) ELSE c
      BY <1>1, <2>1
    <3> HIDE DEF d
    <3> QED BY <1>1, <1>2, <3>1 DEF Cursors, At
  <2>2. CASE key = "right"
    <3>1. d \in {At(c.cy, c.cx + 1), c} \/ (c.cy < Len(rows) /\ d = At(c.cy + 1, 0))
      BY <1>1, <2>2
    <3> HIDE DEF d
    <3> QED BY <1>1, <3>1 DEF Cursors, At
  <2>3. CASE key = "up"    BY <1>1, <2>3 DEF Cursors, At
  <2>4. CASE key = "down"  BY <1>1, <2>4 DEF Cursors, At
  <2>5. CASE key \notin {"left", "right", "up", "down"} BY <2>5
  <2> QED BY <2>1, <2>2, <2>3, <2>4, <2>5
<1>4. Moved(rows, c, key) = Snapped(rows, d) BY DEF Moved
<1> HIDE DEF d
<1> QED BY <1>3, <1>4, SnappedIn

\* After n arrows, as MovedTimes counts them.
Arrows(rows, c, key, f, n) ==
  f = [i \in 0..n |-> IF i = 0 THEN c ELSE Moved(rows, f[i - 1], key)]

\* The count of MovedTimes is a function.
LEMMA ArrowsExist ==
  ASSUME NEW rows, NEW c, NEW key, NEW times \in Nat
  PROVE  \E f : Arrows(rows, c, key, f, times)
<1> DEFINE T == {n \in Nat : ~ \E f : Arrows(rows, c, key, f, n)}
<1> SUFFICES ASSUME T # {} PROVE FALSE OBVIOUS
<1>1. PICK m \in T : \A k \in T : m <= k
  <2> HIDE DEF T
  <2>1. T \in SUBSET Nat BY DEF T
  <2> QED BY <2>1, LeastNat
<1>2. m # 0
  <2>1. Arrows(rows, c, key, [i \in 0..0 |-> c], 0) BY DEF Arrows
  <2> QED BY <2>1
<1>3. m \in Nat \ {0} /\ m - 1 \in Nat /\ m - 1 \notin T BY <1>1, <1>2
<1>4. PICK g : Arrows(rows, c, key, g, m - 1) BY <1>3
<1> DEFINE h == [i \in 0..m |-> IF i = m THEN Moved(rows, g[m - 1], key) ELSE g[i]]
           r == [i \in 0..m |-> IF i = 0 THEN c ELSE Moved(rows, h[i - 1], key)]
<1>5. ASSUME NEW i \in 0..m PROVE h[i] = r[i]
  <2>1. CASE i = m
    <3>1. m - 1 \in 0..m /\ m - 1 # m BY <1>3
    <3>2. h[m - 1] = g[m - 1] BY <3>1
    <3> QED BY <2>1, <3>2, <1>3
  <2>2. CASE i # m
    <3>1. i \in 0..(m - 1) /\ h[i] = g[i] BY <2>2, <1>3
    <3>2. g[i] = IF i = 0 THEN c ELSE Moved(rows, g[i - 1], key) BY <3>1, <1>4 DEF Arrows
    <3>3. i # 0 => h[i - 1] = g[i - 1] BY <3>1, <1>3
    <3> QED BY <3>1, <3>2, <3>3
  <2> QED BY <2>1, <2>2
<1>6. Arrows(rows, c, key, h, m) BY <1>5 DEF Arrows
<1> QED BY <1>6, <1>1

\* A page of arrows ends in a row, even where the cursor starts beyond the end
\* of the row it was put in.
LEMMA MovedTimesIn ==
  ASSUME NEW rows \in Texts, NEW c \in Cursors, c.cy <= Len(rows), NEW key,
         NEW times \in Nat \ {0}
  PROVE  /\ MovedTimes(rows, c, key, times) \in Cursors
         /\ InRows(rows, MovedTimes(rows, c, key, times))
<1> DEFINE f == CHOOSE g : Arrows(rows, c, key, g, times)
<1>1. Arrows(rows, c, key, f, times) BY ArrowsExist
<1>2. MovedTimes(rows, c, key, times) = f[times] BY DEF MovedTimes, Arrows
<1> HIDE DEF f
<1>3. /\ f[0] = c
      /\ \A n \in 1..times : f[n] = Moved(rows, f[n - 1], key)
  BY <1>1 DEF Arrows
<1> DEFINE Q(n) == f[n] \in Cursors /\ InRows(rows, f[n])
           T == {n \in 1..times : ~ Q(n)}
<1>4. T = {}
  <2> SUFFICES ASSUME T # {} PROVE FALSE OBVIOUS
  <2>1. PICK m \in T : \A k \in T : m <= k
    <3> HIDE DEF T
    <3>1. T \in SUBSET Nat BY DEF T
    <3> QED BY <3>1, LeastNat
  <2>2. f[m - 1] \in Cursors /\ f[m - 1].cy <= Len(rows)
    <3>1. CASE m = 1 BY <3>1, <1>3
    <3>2. CASE m # 1
      <4>1. m - 1 \in 1..times /\ m - 1 \notin T BY <2>1, <3>2
      <4>2. Q(m - 1) BY <4>1
      <4> QED BY <4>2 DEF InRows, Cursors
    <3> QED BY <3>1, <3>2
  <2>3. Q(m)
    <3>1. f[m] = Moved(rows, f[m - 1], key) BY <1>3, <2>1
    <3> QED BY <2>2, <3>1, MovedIn
  <2> QED BY <2>1, <2>3
<1>5. Q(times)
  <2>1. times \in 1..times OBVIOUS
  <2> HIDE DEF Q
  <2> QED BY <1>4, <2>1
<1> QED BY <1>2, <1>5

\* Every key that moves the cursor takes it into the text.
LEMMA TargetIn ==
  ASSUME CursorInText, mode = "edit", NEW key \in Keys
  PROVE  Target(key) \in Cursors /\ InText(Target(key))
<1>1. /\ text \in Texts /\ cursor \in Cursors /\ InRows(text, cursor)
      /\ rowoff \in Nat /\ rowoff <= cursor.cy /\ Len(text) \in Nat
      /\ cursor.cy \in Nat /\ cursor.cx \in Nat /\ cursor.cy <= Len(text)
      /\ ScreenRows \in Nat \ {0}
  BY ScreenAssumption DEF CursorInText, TypeOK, InText, OnScreen, InRows, Cursors, Texts
<1>2. RowLen(text, cursor.cy) \in Nat BY <1>1, RowLenType
<1>3. CASE key \in {"left", "right", "up", "down"}
  BY <1>1, <1>3, MovedIn DEF Target, InText
<1>4. CASE key = "home"
  <2>1. Target(key) = At(cursor.cy, 0) BY <1>4 DEF Target
  <2> QED BY <1>1, <1>2, <2>1 DEF At, Cursors, InText, InRows
<1>5. CASE key = "end"
  <2>1. Target(key) = IF cursor.cy < Len(text)
                      THEN At(cursor.cy, RowLen(text, cursor.cy)) ELSE cursor
    BY <1>5 DEF Target
  <2> QED BY <1>1, <1>2, <2>1 DEF At, Cursors, InText, InRows
<1>6. CASE key = "page_up"
  <2>1. Target(key) = MovedTimes(text, At(rowoff, cursor.cx), "up", ScreenRows)
    BY <1>6 DEF Target
  <2>2. At(rowoff, cursor.cx) \in Cursors /\ At(rowoff, cursor.cx).cy <= Len(text)
    BY <1>1 DEF At, Cursors
  <2> QED BY <1>1, <2>1, <2>2, MovedTimesIn DEF InText
<1>7. CASE key = "page_down"
  <2> DEFINE bottom == rowoff + ScreenRows - 1
             c == At(IF bottom > Len(text) THEN Len(text) ELSE bottom, cursor.cx)
  <2>1. Target(key) = MovedTimes(text, c, "down", ScreenRows) BY <1>7 DEF Target
  <2>2. c \in Cursors /\ c.cy <= Len(text) BY <1>1 DEF At, Cursors
  <2> HIDE DEF c
  <2> QED BY <1>1, <2>1, <2>2, MovedTimesIn DEF InText
<1> QED BY <1>3, <1>4, <1>5, <1>6, <1>7 DEF Keys

-----------------------------------------------------------------------------
(* The text *)

\* The rows after the first i characters, as Lines finds them.
LineOf(rows, ch) ==
  IF ch = NL THEN Append(rows, <<>>)
  ELSE LET n == Len(rows) IN [rows EXCEPT ![n] = Append(@, ch)]

Splits(data, f, n) == f = [i \in 0..n |-> IF i = 0 THEN << <<>> >> ELSE LineOf(f[i - 1], data[i])]

\* The recursion of Lines defines a function.
LEMMA SplitsExist ==
  ASSUME NEW data, NEW len \in Nat
  PROVE  \E f : Splits(data, f, len)
<1> DEFINE T == {n \in Nat : ~ \E f : Splits(data, f, n)}
<1> SUFFICES ASSUME T # {} PROVE FALSE OBVIOUS
<1>1. PICK m \in T : \A k \in T : m <= k
  <2> HIDE DEF T
  <2>1. T \in SUBSET Nat BY DEF T
  <2> QED BY <2>1, LeastNat
<1>2. m # 0
  <2>1. Splits(data, [i \in 0..0 |-> << <<>> >>], 0) BY DEF Splits
  <2> QED BY <2>1
<1>3. m \in Nat \ {0} /\ m - 1 \in Nat /\ m - 1 \notin T BY <1>1, <1>2
<1>4. PICK g : Splits(data, g, m - 1) BY <1>3
<1> DEFINE h == [i \in 0..m |-> IF i = m THEN LineOf(g[m - 1], data[m]) ELSE g[i]]
           r == [i \in 0..m |-> IF i = 0 THEN << <<>> >> ELSE LineOf(h[i - 1], data[i])]
<1>5. ASSUME NEW i \in 0..m PROVE h[i] = r[i]
  <2>1. CASE i = m
    <3>1. m - 1 \in 0..m /\ m - 1 # m BY <1>3
    <3>2. h[m - 1] = g[m - 1] BY <3>1
    <3> QED BY <2>1, <3>2, <1>3
  <2>2. CASE i # m
    <3>1. i \in 0..(m - 1) /\ h[i] = g[i] BY <2>2, <1>3
    <3>2. g[i] = IF i = 0 THEN << <<>> >> ELSE LineOf(g[i - 1], data[i])
      BY <3>1, <1>4 DEF Splits
    <3>3. i # 0 => h[i - 1] = g[i - 1] BY <3>1, <1>3
    <3> QED BY <3>1, <3>2, <3>3
  <2> QED BY <2>1, <2>2
<1>6. Splits(data, h, m) BY <1>5 DEF Splits
<1> QED BY <1>6, <1>1

\* One character more leaves rows, at least one.
LEMMA LineOfType ==
  ASSUME NEW rows \in Texts, Len(rows) >= 1, NEW ch \in Characters
  PROVE  LineOf(rows, ch) \in Texts /\ Len(LineOf(rows, ch)) >= 1
<1>1. CASE ch = NL
  <2>1. <<>> \in Seq(Characters) OBVIOUS
  <2> QED BY <1>1, <2>1 DEF LineOf, Texts
<1>2. CASE ch # NL
  <2> DEFINE n == Len(rows)
             row == Append(rows[n], ch)
  <2>1. n \in 1..Len(rows) BY DEF Texts
  <2>2. rows[n] \in Seq(Characters) BY <2>1 DEF Texts
  <2>3. row \in Seq(Characters)
    <3> HIDE DEF n
    <3> QED BY <2>2, AppendProperties, Zenon
  <2>4. LineOf(rows, ch) = [rows EXCEPT ![n] = row] BY <1>2 DEF LineOf
  <2> HIDE DEF row, n
  <2>5. [rows EXCEPT ![n] = row] \in Texts /\ Len([rows EXCEPT ![n] = row]) = Len(rows)
    BY <2>1, <2>3, ExceptSeq DEF Texts
  <2> QED BY <2>4, <2>5
<1> QED BY <1>1, <1>2

\* editorOpen() makes at least one row.
LEMMA LinesType ==
  ASSUME NEW data \in Seq(Characters)
  PROVE  Lines(data) \in Texts /\ Len(Lines(data)) >= 1
<1> DEFINE len == Len(data)
<1>0. len \in Nat /\ \A i \in 1..len : data[i] \in Characters OBVIOUS
<1> DEFINE f == CHOOSE g : Splits(data, g, len)
<1>1. Splits(data, f, len) BY <1>0, SplitsExist
<1>2. Lines(data) = f[len] BY DEF Lines, Splits, LineOf
<1> HIDE DEF f, len
<1>3. /\ f[0] = << <<>> >>
      /\ \A n \in 1..len : f[n] = LineOf(f[n - 1], data[n])
  BY <1>0, <1>1 DEF Splits
<1> DEFINE Q(n) == f[n] \in Texts /\ Len(f[n]) >= 1
           T == {n \in 0..len : ~ Q(n)}
<1>4. T = {}
  <2> SUFFICES ASSUME T # {} PROVE FALSE OBVIOUS
  <2>1. PICK m \in T : \A k \in T : m <= k
    <3> HIDE DEF T
    <3>1. T \in SUBSET Nat BY <1>0 DEF T
    <3> QED BY <3>1, LeastNat
  <2>2. CASE m = 0
    <3>1. Q(0) BY <1>3 DEF Texts
    <3> QED BY <2>1, <2>2, <3>1
  <2>3. CASE m # 0
    <3>1. m - 1 \in 0..len /\ m - 1 \notin T /\ m \in 1..len BY <1>0, <2>1, <2>3
    <3>2. Q(m - 1) BY <3>1
    <3>3. f[m] = LineOf(f[m - 1], data[m]) BY <1>3, <3>1
    <3>4. data[m] \in Characters BY <1>0, <3>1
    <3>5. Q(m) BY <3>2, <3>3, <3>4, LineOfType
    <3> QED BY <2>1, <3>5
  <2> QED BY <2>2, <2>3
<1>5. Q(len)
  <2> HIDE DEF Q
  <2> QED BY <1>0, <1>4
<1> QED BY <1>2, <1>5

\* write() leaves a file.
LEMMA WriteType ==
  ASSUME NEW f \in Files, NEW data \in Seq(Characters), NEW free
  PROVE  Write(f, data, free) \in Files
<1> DEFINE n == Len(data)
           nblks == f.nblks + Extra(f, n)
           held == IF n < nblks * PerBlock THEN n ELSE nblks * PerBlock
           d == [i \in 1..held |-> data[((i - 1) % PerBlock) + 1]]
<1>1. PerBlock \in Nat \ {0} /\ n \in Nat /\ f.size \in Nat /\ f.nblks \in Nat
  BY BlockAssumption DEF Files
<1>2. Extra(f, n) \in Nat BY <1>1 DEF Extra
<1>3. held \in Nat /\ held <= n
  <2>1. nblks * PerBlock \in Nat BY <1>1, <1>2
  <2> QED BY <1>1, <2>1
<1>4. ASSUME NEW i \in 1..held PROVE data[((i - 1) % PerBlock) + 1] \in Characters
  <2>1. i - 1 \in Nat /\ (i - 1) % PerBlock \in Nat BY <1>1, <1>3
  <2>2. (i - 1) % PerBlock <= i - 1 BY <1>1, <2>1
  <2>3. ((i - 1) % PerBlock) + 1 \in 1..n BY <1>1, <1>3, <2>1, <2>2
  <2> QED BY <2>3
<1>5. d \in Seq(Characters)
  <2> HIDE DEF held
  <2>1. d \in [1..held -> Characters] BY <1>4
  <2> QED BY <1>3, <2>1, SeqDef
<1>6. Write(f, data, free) \in {f, [f EXCEPT !.size = n, !.nblks = nblks, !.data = d]}
  BY DEF Write
<1> HIDE DEF d, n, nblks
<1>7. nblks \in Nat BY <1>1, <1>2 DEF nblks
<1>8. [f EXCEPT !.size = n, !.nblks = nblks, !.data = d] \in Files
  BY <1>1, <1>5, <1>7 DEF Files
<1> QED BY <1>6, <1>8

\* The text as it is written.
Ends(rows, f, n) == f = [i \in 0..n |-> IF i = 0 THEN <<>> ELSE f[i - 1] \o rows[i] \o <<NL>>]

\* The recursion of Flat defines a function.
LEMMA EndsExist ==
  ASSUME NEW rows, NEW len \in Nat
  PROVE  \E f : Ends(rows, f, len)
<1> DEFINE T == {n \in Nat : ~ \E f : Ends(rows, f, n)}
<1> SUFFICES ASSUME T # {} PROVE FALSE OBVIOUS
<1>1. PICK m \in T : \A k \in T : m <= k
  <2> HIDE DEF T
  <2>1. T \in SUBSET Nat BY DEF T
  <2> QED BY <2>1, LeastNat
<1>2. m # 0
  <2>1. Ends(rows, [i \in 0..0 |-> <<>>], 0) BY DEF Ends
  <2> QED BY <2>1
<1>3. m \in Nat \ {0} /\ m - 1 \in Nat /\ m - 1 \notin T BY <1>1, <1>2
<1>4. PICK g : Ends(rows, g, m - 1) BY <1>3
<1> DEFINE h == [i \in 0..m |-> IF i = m THEN g[m - 1] \o rows[m] \o <<NL>> ELSE g[i]]
           r == [i \in 0..m |-> IF i = 0 THEN <<>> ELSE h[i - 1] \o rows[i] \o <<NL>>]
<1>5. ASSUME NEW i \in 0..m PROVE h[i] = r[i]
  <2>1. CASE i = m
    <3>1. m - 1 \in 0..m /\ m - 1 # m BY <1>3
    <3>2. h[m - 1] = g[m - 1] BY <3>1
    <3> QED BY <2>1, <3>2, <1>3
  <2>2. CASE i # m
    <3>1. i \in 0..(m - 1) /\ h[i] = g[i] BY <2>2, <1>3
    <3>2. g[i] = IF i = 0 THEN <<>> ELSE g[i - 1] \o rows[i] \o <<NL>>
      BY <3>1, <1>4 DEF Ends
    <3>3. i # 0 => h[i - 1] = g[i - 1] BY <3>1, <1>3
    <3> QED BY <3>1, <3>2, <3>3
  <2> QED BY <2>1, <2>2
<1>6. Ends(rows, h, m) BY <1>5 DEF Ends
<1> QED BY <1>6, <1>1

\* What is saved is characters.
LEMMA FlatType ==
  ASSUME NEW rows \in Texts
  PROVE  Flat(rows) \in Seq(Characters)
<1> DEFINE len == Len(rows)
<1>0. len \in Nat /\ \A i \in 1..len : rows[i] \in Seq(Characters) BY DEF Texts
<1> DEFINE f == CHOOSE g : Ends(rows, g, len)
<1>1. Ends(rows, f, len) BY <1>0, EndsExist
<1>2. Flat(rows) = f[len] BY DEF Flat, Ends
<1> HIDE DEF f, len
<1>3. /\ f[0] = <<>>
      /\ \A n \in 1..len : f[n] = f[n - 1] \o rows[n] \o <<NL>>
  BY <1>0, <1>1 DEF Ends
<1> DEFINE T == {n \in 0..len : f[n] \notin Seq(Characters)}
<1>4. T = {}
  <2> SUFFICES ASSUME T # {} PROVE FALSE OBVIOUS
  <2>1. PICK m \in T : \A k \in T : m <= k
    <3> HIDE DEF T
    <3>1. T \in SUBSET Nat BY <1>0 DEF T
    <3> QED BY <3>1, LeastNat
  <2>2. m # 0
    <3>1. f[0] \in Seq(Characters) BY <1>3
    <3> QED BY <2>1, <3>1
  <2>3. m - 1 \in 0..len /\ m - 1 \notin T /\ m \in 1..len BY <1>0, <2>1, <2>2
  <2>4. f[m - 1] \in Seq(Characters) /\ rows[m] \in Seq(Characters) BY <1>0, <2>3
  <2>5. f[m] = f[m - 1] \o rows[m] \o <<NL>> BY <1>3, <2>3
  <2>6. NL \in Characters BY DEF Characters
  <2>7. \A a, b \in Seq(Characters) : a \o b \o <<NL>> \in Seq(Characters)
    <3>1. <<NL>> \in Seq(Characters) BY <2>6
    <3> HIDE DEF NL
    <3> QED BY <3>1, ConcatProperties, Zenon
  <2>8. f[m] \in Seq(Characters) BY <2>4, <2>5, <2>7
  <2> QED BY <2>1, <2>8
<1> QED BY <1>0, <1>2, <1>4

\* The cursor of a match is in the row of the match.
LEMMA RxToCxIn ==
  ASSUME NEW s \in Seq(Characters), NEW rx
  PROVE  RxToCx(s, rx) \in 0..Len(s)
<1> DEFINE T == {cx \in 0..(Len(s) - 1) : CxToRx(s, cx + 1) > rx} \cup {Len(s)}
<1>1. Len(s) \in Nat OBVIOUS
<1>2. T \in SUBSET Nat /\ T \subseteq 0..Len(s) /\ T # {} BY <1>1
<1>3. RxToCx(s, rx) = Min(T) BY DEF RxToCx
<1> HIDE DEF T
<1> QED BY <1>2, <1>3, MinIn

-----------------------------------------------------------------------------
(* The keys *)

\* What the invariant says of a text that is edited.
LEMMA Facts ==
  ASSUME CursorInText
  PROVE  /\ text \in Texts /\ Len(text) \in Nat /\ DOMAIN look = 1..Len(text)
         /\ cursor \in Cursors /\ cursor.cy \in Nat /\ cursor.cx \in Nat /\ rowoff \in Nat
         /\ mode # "shell" =>
              /\ InRows(text, cursor) /\ cursor.cy <= Len(text)
              /\ cursor.cx <= RowLen(text, cursor.cy)
BY DEF CursorInText, TypeOK, Texts, Cursors, InText, InRows

\* A key that leaves the cursor in the rows it makes, and their colours.
LEMMA KeyDoneKeeps ==
  ASSUME CursorInText, mode = "edit", NEW c \in Cursors, KeyDone(c),
         text' \in Texts, InRows(text', c), DOMAIN look' = 1..Len(text'),
         dirty' \in BOOLEAN, file' \in Files
  PROVE  CursorInText'
<1>1. /\ cursor' = c /\ rowoff' = Scroll(rowoff, c.cy) /\ quits' = QuitTimes
      /\ mode' = "edit" /\ find' = find
  BY DEF KeyDone
<1>2. rowoff \in Nat /\ c.cy \in Nat BY Facts DEF Cursors
<1>3. rowoff' \in Nat /\ rowoff' <= c.cy /\ c.cy < rowoff' + ScreenRows
  BY <1>1, <1>2, ScrollShows
<1>4. TypeOK'
  BY <1>1, <1>3, QuitAssumption DEF CursorInText, TypeOK
<1>5. InText(cursor)' /\ OnScreen' BY <1>1, <1>3 DEF InText, InRows, OnScreen, RowLen
<1> QED BY <1>1, <1>4, <1>5 DEF CursorInText

\* The looks after a change are as many as the rows.
LEMMA LooksAfterUpdate ==
  ASSUME NEW rows \in Texts, NEW looks, NEW i \in 1..Len(rows), NEW s
  PROVE  DOMAIN LookOfUpdate(rows, looks, i, s) = 1..Len(rows)
<1>1. Len([rows EXCEPT ![i] = s]) = Len(rows)
  <2>1. DOMAIN [rows EXCEPT ![i] = s] = 1..Len(rows) /\ Len(rows) \in Nat BY DEF Texts
  <2> QED BY <2>1
<1> QED BY <1>1 DEF LookOfUpdate, UpdateSyntax

\* ... and one more after a row was inserted.
LEMMA LooksAfterInsert ==
  ASSUME NEW rows \in Texts, NEW looks, NEW i \in 1..(Len(rows) + 1), NEW s \in Seq(Characters)
  PROVE  DOMAIN LookOfInsert(rows, looks, i, s) = 1..(Len(rows) + 1)
<1>1. Len(InsertAt(rows, i, s)) = Len(rows) + 1 BY InsertAtType DEF Texts
<1> QED BY <1>1 DEF LookOfInsert, UpdateSyntax

\* One row is changed, and no other.
LEMMA UpdateRowType ==
  ASSUME NEW rows \in Texts, NEW i \in 1..Len(rows), NEW s \in Seq(Characters)
  PROVE  /\ UpdateRow(rows, i, s) \in Texts
         /\ Len(UpdateRow(rows, i, s)) = Len(rows)
         /\ UpdateRow(rows, i, s)[i] = s
         /\ \A j \in 1..Len(rows) : j # i => UpdateRow(rows, i, s)[j] = rows[j]
BY DEF UpdateRow, Texts

\* The rows s are the given ones with r as the i-th
IsUpdated(rows, i, r, s) ==
  /\ s \in Texts /\ Len(s) = Len(rows) /\ s[i] = r
  /\ \A j \in 1..Len(rows) : j # i => s[j] = rows[j]

\* UpdateRow changes one row.
LEMMA RowUpdated ==
  ASSUME NEW rows \in Texts, NEW i \in 1..Len(rows), NEW r \in Seq(Characters)
  PROVE  IsUpdated(rows, i, r, UpdateRow(rows, i, r))
BY DEF UpdateRow, Texts, IsUpdated

\* A row is inserted.
LEMMA InsertRowType ==
  ASSUME NEW rows \in Texts, NEW i \in 1..(Len(rows) + 1), NEW s \in Seq(Characters)
  PROVE  /\ InsertRow(rows, i, s) \in Texts
         /\ Len(InsertRow(rows, i, s)) = Len(rows) + 1
         /\ InsertRow(rows, i, s)[i] = s
BY InsertAtType DEF InsertRow, Texts

\* A character is inserted where the cursor is, below the last row in a row of its own.
LEMMA InsertCharKeeps ==
  ASSUME CursorInText, NEW ch \in Letters, InsertChar(ch) PROVE CursorInText'
<1> DEFINE i     == cursor.cy + 1
           below == cursor.cy = Len(text)
           rows  == IF below THEN InsertRow(text, i, <<>>) ELSE text
           looks == IF below THEN LookOfInsert(text, look, i, <<>>) ELSE look
           s     == InsertAt(rows[i], cursor.cx + 1, ch)
           c     == At(cursor.cy, cursor.cx + 1)
<1>1. /\ mode = "edit"
      /\ text' = UpdateRow(rows, i, s) /\ look' = LookOfUpdate(rows, looks, i, s)
      /\ dirty' = TRUE /\ KeyDone(c) /\ file' = file
  BY DEF InsertChar
<1>2. /\ text \in Texts /\ Len(text) \in Nat
      /\ cursor.cy \in Nat /\ cursor.cy <= Len(text)
      /\ cursor.cx \in Nat /\ cursor.cx <= RowLen(text, cursor.cy)
  BY <1>1, Facts
<1>3. ch \in Characters BY DEF Characters
<1>4. /\ rows \in Texts /\ i \in 1..Len(rows)
      /\ rows[i] \in Seq(Characters) /\ cursor.cx <= Len(rows[i])
  <2>1. CASE below
    <3> DEFINE e == <<>>
    <3>1. e \in Seq(Characters) /\ i \in 1..(Len(text) + 1) /\ Len(e) = 0 BY <1>2, <2>1
    <3>2. rows = InsertRow(text, i, e) BY <2>1
    <3> HIDE DEF e, i, rows
    <3>3. rows \in Texts /\ Len(rows) = Len(text) + 1 /\ rows[i] = e
      BY <1>2, <3>1, <3>2, InsertRowType
    <3> USE DEF i
    <3>4. cursor.cx = 0
      <4>1. RowLen(text, cursor.cy) = 0 BY <2>1 DEF RowLen
      <4> QED BY <1>2, <4>1
    <3> QED BY <1>2, <3>1, <3>3, <3>4
  <2>2. CASE ~ below
    <3>1. rows = text /\ cursor.cy < Len(text) BY <1>2, <2>2
    <3> QED BY <1>2, <3>1, RowLenType
  <2> QED BY <2>1, <2>2
<1>5. s \in Seq(Characters) /\ Len(s) = Len(rows[i]) + 1
  <2>1. cursor.cx + 1 \in 1..(Len(rows[i]) + 1) BY <1>2, <1>4
  <2> HIDE DEF rows, i
  <2> QED BY <1>3, <1>4, <2>1, InsertAtType
<1> HIDE DEF s, rows, looks
<1>6. /\ text' \in Texts /\ Len(text') = Len(rows) /\ text'[i] = s
      /\ DOMAIN look' = 1..Len(text')
  BY <1>1, <1>4, <1>5, UpdateRowType, LooksAfterUpdate
<1>7. c \in Cursors /\ InRows(text', c)
  <2>1. c.cy = cursor.cy /\ c.cx = cursor.cx + 1 /\ c \in Cursors BY <1>2 DEF At, Cursors
  <2>2. c.cy \in Nat /\ c.cy < Len(text') BY <1>2, <1>4, <1>6, <2>1
  <2>3. RowLen(text', c.cy) = Len(s) BY <1>6, <2>1, <2>2 DEF RowLen
  <2>4. c.cx \in 0..Len(s) BY <1>2, <1>4, <1>5, <2>1
  <2> QED BY <2>1, <2>2, <2>3, <2>4, <1>4, <1>6 DEF InRows
<1>8. file' \in Files BY <1>1 DEF CursorInText, TypeOK
<1> HIDE DEF c
<1> QED BY <1>1, <1>6, <1>7, <1>8, KeyDoneKeeps

\* A row is split, or an empty one is made above the cursor's.
LEMMA NewLineKeeps ==
  ASSUME CursorInText, NewLine PROVE CursorInText'
<1> DEFINE i == cursor.cy + 1
           c == At(cursor.cy + 1, 0)
<1>1. mode = "edit" /\ dirty' = TRUE /\ KeyDone(c) /\ file' = file
  BY DEF NewLine
<1>2. /\ text \in Texts /\ Len(text) \in Nat
      /\ cursor.cy \in Nat /\ cursor.cy <= Len(text)
      /\ cursor.cx \in Nat /\ cursor.cx <= RowLen(text, cursor.cy)
  BY <1>1, Facts
<1>3. text' \in Texts /\ Len(text') = Len(text) + 1 /\ DOMAIN look' = 1..Len(text')
  <2>1. CASE cursor.cx = 0
    <3> DEFINE e == <<>>
    <3>1. text' = InsertRow(text, i, e) /\ look' = LookOfInsert(text, look, i, e)
      BY <2>1 DEF NewLine
    <3>2. e \in Seq(Characters) /\ i \in 1..(Len(text) + 1) BY <1>2
    <3> HIDE DEF e
    <3>3. text' \in Texts /\ Len(text') = Len(text) + 1
      BY <1>2, <3>1, <3>2, InsertRowType
    <3>4. DOMAIN look' = 1..(Len(text) + 1) BY <1>2, <3>1, <3>2, LooksAfterInsert
    <3> QED BY <3>3, <3>4
  <2>2. CASE cursor.cx # 0
    <3> DEFINE first  == SubSeq(text[i], 1, cursor.cx)
               second == SubSeq(text[i], cursor.cx + 1, Len(text[i]))
               rows   == InsertRow(text, i + 1, second)
               looks  == LookOfInsert(text, look, i + 1, second)
    <3>1. text' = UpdateRow(rows, i, first) /\ look' = LookOfUpdate(rows, looks, i, first)
      BY <2>2 DEF NewLine
    <3>2. cursor.cy < Len(text) BY <1>2, <2>2, RowLenType
    <3>3. i \in 1..Len(text) /\ text[i] \in Seq(Characters) /\ cursor.cx <= Len(text[i])
      BY <1>2, <3>2, RowLenType
    <3>4. first \in Seq(Characters) /\ second \in Seq(Characters) BY <1>2, <3>3
    <3> HIDE DEF first, second
    <3>5. rows \in Texts /\ Len(rows) = Len(text) + 1
      <4>1. i + 1 \in 1..(Len(text) + 1) BY <1>2, <3>3
      <4> QED BY <1>2, <3>4, <4>1, InsertRowType
    <3> HIDE DEF rows, looks
    <3>6. i \in 1..Len(rows) BY <1>2, <3>3, <3>5
    <3> QED BY <3>1, <3>4, <3>5, <3>6, UpdateRowType, LooksAfterUpdate
  <2> QED BY <2>1, <2>2
<1>4. c \in Cursors /\ InRows(text', c)
  <2>1. c.cy = cursor.cy + 1 /\ c.cx = 0 /\ c \in Cursors BY <1>2 DEF At, Cursors
  <2>2. RowLen(text', c.cy) \in Nat
    <3>1. \A rows \in Texts, cy \in Nat : RowLen(rows, cy) \in Nat BY RowLenType
    <3>2. c.cy \in Nat BY <1>2, <2>1
    <3> HIDE DEF c
    <3> QED BY <1>3, <3>1, <3>2, Zenon
  <2> QED BY <1>2, <1>3, <2>1, <2>2 DEF InRows
<1>5. file' \in Files BY <1>1 DEF CursorInText, TypeOK
<1> HIDE DEF c
<1> QED BY <1>1, <1>3, <1>4, <1>5, KeyDoneKeeps

\* The looks that are left when a row is taken out.
LEMMA LooksAfterDelete ==
  ASSUME NEW n \in Nat, NEW looks, looks = [k \in 1..n |-> looks[k]], NEW i \in 1..n
  PROVE  DOMAIN DelRow(looks, i) = 1..(n - 1)
<1> DEFINE S == {looks[k] : k \in 1..n}
<1>1. \A k \in 1..n : looks[k] \in S OBVIOUS
<1> HIDE DEF S
<1>2. looks \in [1..n -> S] BY <1>1
<1>3. looks \in Seq(S) /\ Len(looks) = n BY <1>2
<1>4. RemoveAt(looks, i) \in Seq(S) /\ Len(RemoveAt(looks, i)) = n - 1
  BY <1>3, RemoveAtType
<1>5. DOMAIN RemoveAt(looks, i) = 1..(n - 1) BY <1>4, LenProperties
<1> QED BY <1>5 DEF DelRow

\* The character before c goes, or the row of c goes to the end of the one above.
LEMMA DelCharKeeps ==
  ASSUME CursorInText, mode = "edit", NEW c \in Cursors, InRows(text, c), DelChar(c),
         file' = file
  PROVE  CursorInText'
<1> DEFINE i == c.cy + 1
<1>1. /\ text \in Texts /\ Len(text) \in Nat /\ DOMAIN look = 1..Len(text)
      /\ c.cy \in Nat /\ c.cx \in Nat /\ c.cy <= Len(text) /\ c.cx <= RowLen(text, c.cy)
  BY Facts DEF InRows, Cursors
<1>2. file' \in Files /\ dirty \in BOOLEAN BY DEF CursorInText, TypeOK
<1>3. CASE c.cy = Len(text) \/ (c.cx = 0 /\ c.cy = 0)
  <2>1. KeyDone(c) /\ text' = text /\ look' = look /\ dirty' = dirty BY <1>3 DEF DelChar
  <2> QED BY <1>1, <1>2, <2>1, KeyDoneKeeps
<1>4. CASE ~ (c.cy = Len(text) \/ (c.cx = 0 /\ c.cy = 0))
  <2>1. /\ i \in 1..Len(text) /\ text[i] \in Seq(Characters)
        /\ RowLen(text, c.cy) = Len(text[i]) /\ c.cy < Len(text)
    <3>1. c.cy < Len(text) BY <1>1, <1>4
    <3> QED BY <1>1, <3>1, RowLenType
  <2>2. CASE c.cx > 0
    <3> DEFINE s == RemoveAt(text[i], c.cx)
               d == At(c.cy, c.cx - 1)
    <3>1. /\ text' = UpdateRow(text, i, s) /\ look' = LookOfUpdate(text, look, i, s)
          /\ dirty' = TRUE /\ KeyDone(d)
      BY <1>4, <2>2 DEF DelChar
    <3>2. s \in Seq(Characters) /\ Len(s) = Len(text[i]) - 1
      <4>1. c.cx \in 1..Len(text[i]) BY <1>1, <2>1, <2>2
      <4> QED BY <2>1, <4>1, RemoveAtType
    <3> HIDE DEF s
    <3>3. /\ text' \in Texts /\ Len(text') = Len(text) /\ text'[i] = s
          /\ DOMAIN look' = 1..Len(text')
      BY <1>1, <2>1, <3>1, <3>2, UpdateRowType, LooksAfterUpdate
    <3>4. d \in Cursors /\ InRows(text', d)
      <4>1. d.cy = c.cy /\ d.cx = c.cx - 1 /\ d \in Cursors BY <1>1, <2>2 DEF At, Cursors
      <4>2. RowLen(text', d.cy) = Len(s) BY <2>1, <3>3, <4>1 DEF RowLen
      <4> QED BY <1>1, <2>1, <2>2, <3>2, <3>3, <4>1, <4>2 DEF InRows
    <3> HIDE DEF d
    <3> QED BY <1>2, <3>1, <3>3, <3>4, KeyDoneKeeps
  <2>3. CASE ~ (c.cx > 0)
    <3> DEFINE s == text[i - 1] \o text[i]
               rows == UpdateRow(text, i - 1, s)
               looks == LookOfUpdate(text, look, i - 1, s)
               d == At(c.cy - 1, RowLen(text, c.cy - 1))
    <3>1. /\ text' = DelRow(rows, i) /\ look' = DelRow(looks, i)
          /\ dirty' = TRUE /\ KeyDone(d)
      BY <1>4, <2>3 DEF DelChar
    <3>2. c.cx = 0 /\ c.cy > 0 /\ i - 1 \in 1..Len(text) /\ i - 1 = c.cy /\ i > 1
      BY <1>1, <1>4, <2>1, <2>3
    <3>3. /\ text[i - 1] \in Seq(Characters)
          /\ RowLen(text, c.cy - 1) = Len(text[i - 1])
      <4>1. c.cy - 1 \in Nat /\ c.cy - 1 < Len(text) /\ (c.cy - 1) + 1 = i - 1
        BY <1>1, <2>1, <3>2
      <4> QED BY <1>1, <4>1, RowLenType
    <3>4. s \in Seq(Characters) /\ Len(s) = Len(text[i - 1]) + Len(text[i])
      BY <2>1, <3>3, ConcatProperties
    <3> HIDE DEF s
    <3>5. /\ rows \in Texts /\ Len(rows) = Len(text) /\ rows[i - 1] = s
          /\ looks = [k \in 1..Len(text) |-> looks[k]]
      <4>1. rows \in Texts /\ Len(rows) = Len(text) /\ rows[i - 1] = s
        BY <1>1, <3>2, <3>4, UpdateRowType
      <4>2. Len([text EXCEPT ![i - 1] = s]) = Len(text) BY <4>1 DEF UpdateRow
      <4> QED BY <4>1, <4>2 DEF LookOfUpdate, UpdateSyntax
    <3> HIDE DEF rows, looks
    <3>6. /\ text' \in Texts /\ Len(text') = Len(text) - 1 /\ text'[i - 1] = s
      <4>1. i \in 1..Len(rows) BY <2>1, <3>5
      <4> HIDE DEF i
      <4>2. /\ RemoveAt(rows, i) \in Texts /\ Len(RemoveAt(rows, i)) = Len(rows) - 1
            /\ i > 1 => RemoveAt(rows, i)[i - 1] = rows[i - 1]
        BY <3>5, <4>1, RemoveAtType DEF Texts
      <4> QED BY <3>1, <3>2, <3>5, <4>2 DEF DelRow
    <3>7. DOMAIN look' = 1..Len(text')
      BY <1>1, <2>1, <3>1, <3>5, <3>6, LooksAfterDelete
    <3>8. d \in Cursors /\ InRows(text', d)
      <4>1. Len(text[i]) \in Nat /\ Len(text[i - 1]) \in Nat BY <2>1, <3>3
      <4>2. d.cy = c.cy - 1 /\ d.cx = Len(text[i - 1]) /\ d \in Cursors
        BY <1>1, <3>2, <3>3, <4>1 DEF At, Cursors
      <4>3. d.cy + 1 = i - 1 /\ d.cy < Len(text') BY <1>1, <2>1, <3>2, <3>6, <4>2
      <4>4. RowLen(text', d.cy) = Len(s) BY <3>6, <4>3 DEF RowLen
      <4>5. d.cy \in 0..Len(text') BY <1>1, <3>2, <3>6, <4>2, <4>3
      <4>6. d.cx \in 0..Len(s)
        <5> DEFINE a == Len(text[i - 1])
                   b == Len(text[i])
        <5>1. a \in Nat /\ b \in Nat /\ Len(s) = a + b /\ d.cx = a BY <3>4, <4>1, <4>2
        <5> HIDE DEF a, b, d
        <5> QED BY <5>1
      <4> HIDE DEF d
      <4> QED BY <4>2, <4>4, <4>5, <4>6 DEF InRows
    <3> HIDE DEF d
    <3> QED BY <1>2, <3>1, <3>6, <3>7, <3>8, KeyDoneKeeps
  <2> QED BY <2>2, <2>3
<1> QED BY <1>3, <1>4

\* BACKSPACE at the cursor, DEL one place to the right of it.
LEMMA EraseKeeps ==
  ASSUME CursorInText, NEW key, Erase(key) PROVE CursorInText'
<1>1. mode = "edit" /\ file' = file BY DEF Erase
<1>2. /\ text \in Texts /\ cursor \in Cursors /\ InRows(text, cursor) /\ cursor.cy <= Len(text)
  BY <1>1, Facts
<1> DEFINE c == IF key = "del" THEN Moved(text, cursor, "right") ELSE cursor
<1>3. c \in Cursors /\ InRows(text, c) BY <1>2, MovedIn
<1>4. DelChar(c) BY DEF Erase
<1> HIDE DEF c
<1> QED BY <1>1, <1>3, <1>4, DelCharKeeps

\* The keys that only move the cursor.
LEMMA GoKeeps ==
  ASSUME CursorInText, NEW key \in Keys \cup {"none"}, Go(key) PROVE CursorInText'
<1> DEFINE c == IF key = "none" THEN cursor ELSE Target(key)
<1>1. /\ mode = "edit" /\ KeyDone(c)
      /\ text' = text /\ look' = look /\ dirty' = dirty /\ file' = file
  BY DEF Go
<1>2. /\ text \in Texts /\ DOMAIN look = 1..Len(text)
      /\ cursor \in Cursors /\ InRows(text, cursor)
  BY <1>1, Facts
<1>3. c \in Cursors /\ InRows(text, c) BY <1>1, <1>2, TargetIn DEF InText
<1>4. file \in Files /\ dirty \in BOOLEAN BY DEF CursorInText, TypeOK
<1> HIDE DEF c
<1> QED BY <1>1, <1>2, <1>3, <1>4, KeyDoneKeeps

\* What is saved is a file.
LEMMA SaveKeeps ==
  ASSUME CursorInText, Save PROVE CursorInText'
<1>1. /\ mode = "edit" /\ KeyDone(cursor) /\ dirty' = FALSE
      /\ text' = text /\ look' = look
  BY DEF Save
<1>2. /\ text \in Texts /\ DOMAIN look = 1..Len(text)
      /\ cursor \in Cursors /\ InRows(text, cursor)
  BY <1>1, Facts
<1>3. file' \in Files
  <2>1. file \in Files BY DEF CursorInText, TypeOK
  <2>2. PICK free \in 0..MaxBlks : file' = Write(file, Flat(text), free) BY DEF Save
  <2> QED BY <1>2, <2>1, <2>2, FlatType, WriteType
<1> QED BY <1>1, <1>2, <1>3, KeyDoneKeeps

\* A file that is opened has at least one row, and the cursor is in the first.
LEMMA EditKeeps ==
  ASSUME CursorInText, Edit PROVE CursorInText'
<1>1. PICK data \in Reads(file, Garbage) :
        /\ text' = Lines(data)
        /\ look' = [i \in 1..Len(text') |-> ScannedFrom(text', 1, FALSE)[i]]
  BY DEF Edit
<1>2. /\ mode' = "edit" /\ cursor' = At(0, 0) /\ rowoff' = 0 /\ dirty' = FALSE
      /\ quits' = quits /\ file' = file /\ find' = find
  BY DEF Edit
<1>3. data \in Seq(Characters) BY TextAssumption DEF Reads, CursorInText, TypeOK, Files
<1>4. text' \in Texts /\ Len(text') >= 1 BY <1>1, <1>3, LinesType
<1>5. TypeOK' BY <1>1, <1>2, <1>4 DEF CursorInText, TypeOK, At, Cursors
<1>6. InText(cursor)'
  <2>1. RowLen(text', 0) \in Nat BY <1>4, RowLenType
  <2>2. Len(text') \in Nat BY <1>4 DEF Texts
  <2>3. cursor'.cy = 0 /\ cursor'.cx = 0 BY <1>2 DEF At
  <2> QED BY <1>4, <2>1, <2>2, <2>3 DEF InText, InRows
<1>7. OnScreen' BY <1>2, ScreenAssumption DEF OnScreen, At
<1> QED BY <1>2, <1>5, <1>6, <1>7 DEF CursorInText

-----------------------------------------------------------------------------
(* Searching *)

\* A mark is taken off without a row being lost.
LEMMA UnmarkedDomain == DOMAIN Unmarked = DOMAIN look
BY DEF Unmarked

\* Steps of a search that only forget it, or go back.
LEMMA SearchFacts ==
  ASSUME CursorInText, mode = "find"
  PROVE  /\ text \in Texts /\ Len(text) \in Nat /\ DOMAIN look = 1..Len(text)
         /\ cursor \in Cursors /\ rowoff \in Nat /\ InText(cursor) /\ OnScreen
         /\ find.from.cursor \in Cursors /\ find.from.rowoff \in Nat
         /\ find.from \in [cursor : Cursors, rowoff : Nat]
         /\ InText(find.from.cursor)
         /\ find.last \in Nat /\ DOMAIN find = DOMAIN NoSearch
BY DEF CursorInText, TypeOK, Texts

\* The row a search looks at in its i-th turn is one of the text.
LEMMA VisitedIn ==
  ASSUME NEW n \in Nat \ {0}, NEW last \in Nat, NEW dir \in {-1, 1}, NEW i \in Nat
  PROVE  ((last - 1 + dir * i) % n) + 1 \in 1..n
<1>1. dir * i \in Int
  <2>1. CASE dir = 1 BY <2>1
  <2>2. CASE dir = -1 BY <2>2
  <2> QED BY <2>1, <2>2
<1>2. last - 1 + dir * i \in Int BY <1>1
<1>3. \A x \in Int : (x % n) \in 0..(n - 1) OBVIOUS
<1> QED BY <1>2, <1>3

\* A search sets the cursor in the row it finds, and leaves it where it finds none.
LEMMA SearchedKeeps ==
  ASSUME CursorInText, mode = "find", NEW key, NEW query, Searched(key, query),
         UNCHANGED <<mode, text, dirty, quits, file>>
  PROVE  CursorInText'
<1> DEFINE n    == Len(text)
           last == IF key \in {"next", "prev"} THEN find.last ELSE 0
           dir  == IF key = "prev" /\ last # 0 THEN -1 ELSE 1
           Visited(i) == ((last - 1 + dir * i) % n) + 1
           found == {i \in 1..n : Hits(Rendered(text[Visited(i)]), query) # {}}
<1>1. /\ text \in Texts /\ n \in Nat /\ DOMAIN look = 1..n
      /\ cursor \in Cursors /\ rowoff \in Nat /\ InText(cursor) /\ OnScreen
      /\ find.from \in [cursor : Cursors, rowoff : Nat]
      /\ InText(find.from.cursor)
      /\ find.last \in Nat /\ DOMAIN find = DOMAIN NoSearch
  BY SearchFacts
<1>2. DOMAIN NoSearch = {"query", "last", "dir", "line", "hl", "from"} BY DEF NoSearch
<1>3. last \in Nat /\ dir \in {-1, 1} BY <1>1
<1>4. /\ mode' = "find" /\ text' = text /\ dirty' = dirty /\ quits' = quits /\ file' = file
      /\ dirty \in BOOLEAN /\ quits \in 0..QuitTimes /\ file \in Files
  BY DEF CursorInText, TypeOK
<1>5. CASE found = {}
  <2>1. /\ find' = [find EXCEPT !.query = query, !.last = last, !.dir = dir,
                                 !.line = 0, !.hl = <<>>]
        /\ look' = Unmarked /\ cursor' = cursor /\ rowoff' = rowoff
    BY <1>5 DEF Searched
  <2> HIDE DEF last, dir, n
  <2>2. /\ DOMAIN find' = DOMAIN NoSearch /\ find'.from = find.from
        /\ find'.last = last /\ find'.line = 0
    BY <1>1, <1>2, <2>1
  <2>3. DOMAIN look' = 1..n BY <1>1, <2>1, UnmarkedDomain
  <2>4. TypeOK' BY <1>1, <1>3, <1>4, <2>1, <2>2, <2>3 DEF TypeOK, n
  <2>5. InText(cursor)' /\ OnScreen' /\ InText(find.from.cursor)'
    BY <1>1, <1>4, <2>1, <2>2 DEF InText, OnScreen
  <2>6. (find.line \in 0..Len(text))' BY <1>1, <1>4, <2>2 DEF n
  <2> QED BY <2>4, <2>5, <2>6 DEF CursorInText
<1>6. CASE found # {}
  <2> DEFINE row == Visited(Min(found))
             m   == Min(Hits(Rendered(text[row]), query))
             cx  == RxToCx(text[row], m)
  <2>1. /\ find' = [find EXCEPT !.query = query, !.last = row, !.dir = dir,
                                 !.line = row, !.hl = Unmarked[row].hl]
        /\ look' = [Unmarked EXCEPT ![row].hl =
                       [k \in 1..Len(@) |->
                          IF k \in (m + 1)..(m + Len(query)) THEN "match" ELSE @[k]]]
        /\ cursor' = At(row - 1, cx)
        /\ rowoff' = Scroll(n, row - 1)
    BY <1>6 DEF Searched
  <2>2. row \in 1..n
    <3> HIDE DEF last, dir
    <3>1. found \in SUBSET Nat /\ Min(found) \in found
      <4>1. found \in SUBSET Nat BY <1>1
      <4> HIDE DEF found
      <4> QED BY <1>6, <4>1, MinIn
    <3>2. Min(found) \in 1..n
      <4> DEFINE first == Min(found)
      <4>1. first \in found BY <3>1
      <4> HIDE DEF first
      <4>2. first \in 1..n BY <4>1
      <4> QED BY <4>2 DEF first
    <3> HIDE DEF found
    <3>3. n \in Nat \ {0} /\ Min(found) \in Nat BY <1>1, <3>2
    <3> HIDE DEF n
    <3> QED BY <1>3, <3>3, VisitedIn
  <2> HIDE DEF row, m, found, dir, last
  <2>3. cx \in 0..Len(text[row])
    <3>1. text[row] \in Seq(Characters) BY <1>1, <2>2 DEF Texts
    <3> QED BY <3>1, RxToCxIn
  <2> HIDE DEF cx
  <2>4. row \in Nat /\ row - 1 \in Nat /\ row - 1 < n /\ (row - 1) + 1 = row
        /\ cx \in Nat /\ text[row] \in Seq(Characters)
    BY <1>1, <2>2, <2>3 DEF Texts
  <2>5. cursor'.cy = row - 1 /\ cursor'.cx = cx /\ cursor' \in Cursors
    BY <2>1, <2>4 DEF At, Cursors
  <2>6. /\ DOMAIN find' = DOMAIN NoSearch /\ find'.from = find.from
        /\ find'.last = row /\ find'.line = row
    <3> HIDE DEF n
    <3> QED BY <1>1, <1>2, <2>1
  <2>7. DOMAIN look' = 1..n BY <1>1, <2>1, UnmarkedDomain
  <2>8. rowoff' \in Nat /\ rowoff' <= row - 1 /\ row - 1 < rowoff' + ScreenRows
    BY <1>1, <2>1, <2>4, ScrollShows
  <2>9. TypeOK' BY <1>1, <1>4, <2>4, <2>5, <2>6, <2>7, <2>8 DEF TypeOK
  <2>10. InRows(text, cursor')
    <3>1. RowLen(text, row - 1) = Len(text[row]) BY <2>4 DEF RowLen
    <3> QED BY <1>1, <2>3, <2>4, <2>5, <3>1 DEF InRows
  <2>11. InText(cursor)' /\ OnScreen'
    BY <1>4, <2>5, <2>8, <2>10 DEF InText, OnScreen, InRows, RowLen
  <2>12. InText(find.from.cursor)' /\ (find.line \in 0..Len(text))'
    BY <1>1, <1>4, <2>2, <2>6 DEF InText
  <2> QED BY <2>9, <2>11, <2>12 DEF CursorInText
<1> QED BY <1>5, <1>6

\* A search begins, and remembers where.
LEMMA StartFindKeeps ==
  ASSUME CursorInText, StartFind PROVE CursorInText'
<1>1. /\ mode = "edit" /\ mode' = "find"
      /\ find' = [NoSearch EXCEPT !.from = [cursor |-> cursor, rowoff |-> rowoff]]
      /\ UNCHANGED <<text, look, cursor, rowoff, dirty, quits, file>>
  BY DEF StartFind
<1>2. /\ DOMAIN find' = DOMAIN NoSearch /\ find'.last = 0 /\ find'.line = 0
      /\ find'.from = [cursor |-> cursor, rowoff |-> rowoff]
  BY <1>1 DEF NoSearch
<1>3. text \in Texts /\ Len(text) \in Nat /\ cursor \in Cursors /\ rowoff \in Nat BY Facts
<1>4. TypeOK' BY <1>1, <1>2, <1>3 DEF CursorInText, TypeOK
<1>5. InText(cursor) /\ OnScreen BY <1>1 DEF CursorInText
<1>6. InText(cursor)' /\ OnScreen' /\ InText(find.from.cursor)'
  BY <1>1, <1>2, <1>5 DEF InText, OnScreen
<1>7. (find.line \in 0..Len(text))' BY <1>1, <1>2, <1>3
<1> QED BY <1>4, <1>6, <1>7 DEF CursorInText

\* Any key of the prompt goes on with the search.
LEMMA FindKeyKeeps ==
  ASSUME CursorInText, FindKey PROVE CursorInText'
<1>1. mode = "find" /\ UNCHANGED <<mode, text, dirty, quits, file>> BY DEF FindKey
<1>2. \E key, query : Searched(key, query) BY DEF FindKey
<1> QED BY <1>1, <1>2, SearchedKeeps

\* ENTER without a query forgets the search, but not where it began.
LEMMA FindNothingKeeps ==
  ASSUME CursorInText, FindNothing PROVE CursorInText'
<1>1. /\ mode = "find" /\ look' = Unmarked
      /\ find' = [NoSearch EXCEPT !.from = find.from]
      /\ UNCHANGED <<mode, text, cursor, rowoff, dirty, quits, file>>
  BY DEF FindNothing
<1>2. /\ DOMAIN find' = DOMAIN NoSearch /\ find'.last = 0 /\ find'.line = 0
      /\ find'.from = find.from
  BY <1>1 DEF NoSearch
<1>3. DOMAIN look' = DOMAIN look BY <1>1, UnmarkedDomain
<1>4. TypeOK' BY <1>1, <1>2, <1>3 DEF CursorInText, TypeOK
<1>5. InText(cursor) /\ OnScreen /\ InText(find.from.cursor) /\ Len(text) \in Nat
  BY <1>1, SearchFacts
<1>6. InText(cursor)' /\ OnScreen' /\ InText(find.from.cursor)' /\ (find.line \in 0..Len(text))'
  BY <1>1, <1>2, <1>5 DEF InText, OnScreen
<1> QED BY <1>4, <1>6 DEF CursorInText

\* ENTER leaves the cursor at the match.
LEMMA FindEnterKeeps ==
  ASSUME CursorInText, FindEnter PROVE CursorInText'
<1>1. /\ mode = "find" /\ mode' = "edit" /\ look' = Unmarked
      /\ find' = NoSearch /\ quits' = QuitTimes
      /\ UNCHANGED <<text, cursor, rowoff, dirty, file>>
  BY DEF FindEnter
<1>2. /\ DOMAIN find' = DOMAIN NoSearch /\ find'.last = 0
      /\ find'.from \in [cursor : Cursors, rowoff : Nat]
  BY <1>1 DEF NoSearch, At, Cursors
<1>3. DOMAIN look' = DOMAIN look BY <1>1, UnmarkedDomain
<1>4. TypeOK' BY <1>1, <1>2, <1>3, QuitAssumption DEF CursorInText, TypeOK
<1>5. InText(cursor) /\ OnScreen BY <1>1, SearchFacts
<1>6. InText(cursor)' /\ OnScreen' BY <1>1, <1>5 DEF InText, OnScreen
<1> QED BY <1>1, <1>4, <1>6 DEF CursorInText

\* ESC takes it back to where it was, in a text that is the same.
LEMMA FindEscKeeps ==
  ASSUME CursorInText, FindEsc PROVE CursorInText'
<1>1. /\ mode = "find" /\ mode' = "edit" /\ look' = Unmarked
      /\ find' = NoSearch /\ quits' = QuitTimes
      /\ cursor' = find.from.cursor
      /\ rowoff' = Scroll(find.from.rowoff, find.from.cursor.cy)
      /\ UNCHANGED <<text, dirty, file>>
  BY DEF FindEsc
<1>2. /\ DOMAIN find' = DOMAIN NoSearch /\ find'.last = 0
      /\ find'.from \in [cursor : Cursors, rowoff : Nat]
  BY <1>1 DEF NoSearch, At, Cursors
<1>3. DOMAIN look' = DOMAIN look BY <1>1, UnmarkedDomain
<1>4. find.from.cursor \in Cursors /\ find.from.rowoff \in Nat /\ InText(find.from.cursor)
  BY <1>1, SearchFacts
<1>5. find.from.cursor.cy \in Nat BY <1>4 DEF Cursors
<1>6. rowoff' \in Nat /\ rowoff' <= cursor'.cy /\ cursor'.cy < rowoff' + ScreenRows
  BY <1>1, <1>4, <1>5, ScrollShows
<1>7. TypeOK' BY <1>1, <1>2, <1>3, <1>4, <1>6, QuitAssumption DEF CursorInText, TypeOK
<1>8. InText(cursor)' /\ OnScreen' BY <1>1, <1>4, <1>6 DEF InText, OnScreen
<1> QED BY <1>1, <1>7, <1>8 DEF CursorInText

-----------------------------------------------------------------------------
(* The theorem *)

\* Before the editor is opened there is no text.
LEMMA InitIn == ASSUME Init PROVE CursorInText
<1>1. /\ mode = "shell" /\ text = <<>> /\ look = <<>> /\ cursor = At(0, 0) /\ rowoff = 0
      /\ dirty = FALSE /\ quits = QuitTimes /\ find = NoSearch
  BY DEF Init
<1>2. PICK acl \in Modes, data \in InitTexts :
        file = [Write(NewFile({"w"}), data, MaxBlks) EXCEPT !.acl = acl]
  BY DEF Init
<1>3. NewFile({"w"}) \in Files BY DEF NewFile, Files
<1>4. data \in Seq(Characters) /\ acl \in SUBSET {"r", "w"} BY TextAssumption
<1>5. Write(NewFile({"w"}), data, MaxBlks) \in Files BY <1>3, <1>4, WriteType
<1>6. file \in Files BY <1>2, <1>4, <1>5 DEF Files
<1>7. TypeOK
  <2>1. text \in Texts /\ DOMAIN look = 1..Len(text) BY <1>1 DEF Texts
  <2>2. find.from \in [cursor : Cursors, rowoff : Nat] /\ find.last = 0
    BY <1>1 DEF NoSearch, At, Cursors
  <2>3. cursor \in Cursors BY <1>1 DEF At, Cursors
  <2>4. quits \in 0..QuitTimes /\ rowoff \in Nat /\ find.last \in Nat
    BY <1>1, <2>2, QuitAssumption
  <2>5. mode \in {"shell", "edit", "find"} /\ dirty \in BOOLEAN /\ DOMAIN find = DOMAIN NoSearch
    BY <1>1
  <2> QED BY <1>6, <2>1, <2>2, <2>3, <2>4, <2>5 DEF TypeOK
<1> QED BY <1>1, <1>7 DEF CursorInText

\* Every key keeps the invariant.
LEMMA NextIn == ASSUME CursorInText, [Next]_vars PROVE CursorInText'
<1>1. ASSUME Edit PROVE CursorInText' BY <1>1, EditKeeps
<1>2. ASSUME Save PROVE CursorInText' BY <1>2, SaveKeeps
<1>3. ASSUME Warn PROVE CursorInText'
  <2>1. /\ quits \in 0..QuitTimes /\ quits > 0 /\ quits' = quits - 1
        /\ UNCHANGED <<mode, text, look, cursor, rowoff, dirty, file, find>>
    BY <1>3 DEF Warn, CursorInText, TypeOK
  <2>2. quits' \in 0..QuitTimes BY <2>1, QuitAssumption
  <2> QED BY <2>1, <2>2 DEF CursorInText, TypeOK, InText, OnScreen
<1>4. ASSUME Leave PROVE CursorInText'
  BY <1>4 DEF Leave, CursorInText, TypeOK
<1>5. ASSUME NEW c \in Letters, InsertChar(c) PROVE CursorInText' BY <1>5, InsertCharKeeps
<1>6. ASSUME NewLine PROVE CursorInText' BY <1>6, NewLineKeeps
<1>7. ASSUME NEW key \in {"backspace", "del"}, Erase(key) PROVE CursorInText'
  BY <1>7, EraseKeeps
<1>8. ASSUME NEW key \in Keys \cup {"none"}, Go(key) PROVE CursorInText' BY <1>8, GoKeeps
<1>9. ASSUME StartFind PROVE CursorInText' BY <1>9, StartFindKeeps
<1>10. ASSUME FindKey PROVE CursorInText' BY <1>10, FindKeyKeeps
<1>11. ASSUME FindNothing PROVE CursorInText' BY <1>11, FindNothingKeeps
<1>12. ASSUME FindEnter PROVE CursorInText' BY <1>12, FindEnterKeeps
<1>13. ASSUME FindEsc PROVE CursorInText' BY <1>13, FindEscKeeps
<1>14. ASSUME UNCHANGED vars PROVE CursorInText'
  BY <1>14 DEF vars, CursorInText, TypeOK, InText, OnScreen
<1> QED
  BY <1>1, <1>2, <1>3, <1>4, <1>5, <1>6, <1>7, <1>8, <1>9, <1>10, <1>11, <1>12, <1>13, <1>14
  DEF Next

\* The cursor is in the text and on the screen after every key, for all texts,
\* characters, screens and bounds, and so is the place a search goes back to:
\* the rows that the editor indexes by its cursor exist.
THEOREM CursorStays == Spec => []CursorInText
BY InitIn, NextIn, PTL DEF Spec

-----------------------------------------------------------------------------
(* One text: the rows seen as the characters that are written *)

Content == Seq(Characters)

\* The text of the first k rows
FlatTo(rows, k) == Flat(SubSeq(rows, 1, k))

\* f is the text of the first rows, for each number of them
Grows(rows, f) ==
  f[0] = <<>> /\ \A n \in 1..Len(rows) : f[n] = f[n - 1] \o rows[n] \o <<NL>>

\* r and s begin with the same n rows
SameTo(r, s, n) == n <= Len(r) /\ n <= Len(s) /\ \A i \in 1..n : r[i] = s[i]

\* Flat as its recursion gives it.
LEMMA FlatIs ==
  ASSUME NEW rows \in Texts
  PROVE  \E f : Grows(rows, f) /\ Flat(rows) = f[Len(rows)]
<1> DEFINE len == Len(rows)
<1>0. len \in Nat BY DEF Texts
<1> DEFINE f == CHOOSE g : Ends(rows, g, len)
<1>1. Ends(rows, f, len) BY <1>0, EndsExist
<1>2. Flat(rows) = f[len] BY DEF Flat, Ends
<1> HIDE DEF f, len
<1>3. f[0] = <<>> /\ \A n \in 1..len : f[n] = f[n - 1] \o rows[n] \o <<NL>>
  BY <1>0, <1>1 DEF Ends
<1> QED BY <1>2, <1>3 DEF len, Grows

\* The text of rows that begin alike begins alike.
LEMMA FlatAlike ==
  ASSUME NEW r \in Texts, NEW s \in Texts, NEW f, NEW g, NEW n \in Nat,
         SameTo(r, s, n), Grows(r, f), Grows(s, g)
  PROVE  f[n] = g[n]
<1> USE DEF SameTo, Grows
<1> DEFINE T == {i \in 0..n : f[i] # g[i]}
<1> SUFFICES ASSUME T # {} PROVE FALSE
  <2>1. n \in 0..n OBVIOUS
  <2> QED BY <2>1
<1>0. Len(r) \in Nat /\ Len(s) \in Nat BY DEF Texts
<1>1. PICK m \in T : \A k \in T : m <= k
  <2>1. T \in SUBSET Nat OBVIOUS
  <2> HIDE DEF T
  <2> QED BY <2>1, LeastNat
<1>2. m \in 0..n /\ f[m] # g[m] /\ m # 0 BY <1>1
<1>3. m - 1 \in 0..n /\ m - 1 \notin T
  <2> HIDE DEF T
  <2> QED BY <1>1, <1>2
<1>4. f[m - 1] = g[m - 1] BY <1>3
<1>5. m \in 1..Len(r) /\ m \in 1..Len(s) /\ m \in 1..n BY <1>0, <1>2
<1>6. f[m] = f[m - 1] \o r[m] \o <<NL>> BY <1>5
<1>7. g[m] = g[m - 1] \o s[m] \o <<NL>> BY <1>5
<1> QED BY <1>2, <1>4, <1>5, <1>6, <1>7

\* The first rows of a text are rows.
LEMMA FirstRows ==
  ASSUME NEW rows \in Texts, NEW k \in 0..Len(rows)
  PROVE  /\ SubSeq(rows, 1, k) \in Texts /\ Len(SubSeq(rows, 1, k)) = k
         /\ \A i \in 1..k : SubSeq(rows, 1, k)[i] = rows[i]
BY DEF Texts

\* Row after row: each adds its characters and a newline.
LEMMA FlatStep ==
  ASSUME NEW rows \in Texts
  PROVE  /\ FlatTo(rows, 0) = <<>>
         /\ FlatTo(rows, Len(rows)) = Flat(rows)
         /\ \A k \in 1..Len(rows) :
              FlatTo(rows, k) = FlatTo(rows, k - 1) \o rows[k] \o <<NL>>
<1>0. Len(rows) \in Nat BY DEF Texts
<1>1. FlatTo(rows, 0) = <<>>
  <2>1. SubSeq(rows, 1, 0) = <<>> BY SubSeqEmpty
  <2> DEFINE e == SubSeq(rows, 1, 0)
  <2>2. e \in Texts /\ Len(e) = 0 BY <1>0, FirstRows
  <2> HIDE DEF e
  <2>3. PICK f : Grows(e, f) /\ Flat(e) = f[Len(e)] BY <2>2, FlatIs
  <2> QED BY <2>2, <2>3 DEF FlatTo, e, Grows
<1>2. FlatTo(rows, Len(rows)) = Flat(rows)
  <2>1. SubSeq(rows, 1, Len(rows)) = rows BY SubSeqFull DEF Texts
  <2> QED BY <2>1 DEF FlatTo
<1>3. ASSUME NEW k \in 1..Len(rows)
      PROVE  FlatTo(rows, k) = FlatTo(rows, k - 1) \o rows[k] \o <<NL>>
  <2> DEFINE a == SubSeq(rows, 1, k)
             b == SubSeq(rows, 1, k - 1)
  <2>1. k \in 0..Len(rows) /\ k - 1 \in 0..Len(rows) BY <1>0
  <2>2. /\ a \in Texts /\ Len(a) = k /\ \A i \in 1..k : a[i] = rows[i]
        /\ b \in Texts /\ Len(b) = k - 1 /\ \A i \in 1..(k - 1) : b[i] = rows[i]
    BY <2>1, FirstRows
  <2> HIDE DEF a, b
  <2>3. PICK f : Grows(a, f) /\ Flat(a) = f[Len(a)]
    BY <2>2, FlatIs
  <2>4. PICK g : Grows(b, g) /\ Flat(b) = g[Len(b)]
    BY <2>2, FlatIs
  <2>5. k - 1 \in Nat /\ SameTo(a, b, k - 1) BY <2>1, <2>2 DEF SameTo
  <2>6. f[k - 1] = g[k - 1] BY <2>2, <2>3, <2>4, <2>5, FlatAlike
  <2>7. k \in 1..Len(a) /\ a[k] = rows[k] BY <2>1, <2>2
  <2>8. f[k] = f[k - 1] \o rows[k] \o <<NL>> BY <2>3, <2>7 DEF Grows
  <2>9. Flat(a) = f[k] /\ Flat(b) = g[k - 1] BY <2>2, <2>3, <2>4
  <2> QED BY <2>6, <2>8, <2>9 DEF FlatTo, a, b
<1> QED BY <1>1, <1>2, <1>3

\* The text of the first rows is a text.
LEMMA FlatToType ==
  ASSUME NEW rows \in Texts, NEW k \in 0..Len(rows)
  PROVE  FlatTo(rows, k) \in Content /\ Len(FlatTo(rows, k)) \in Nat
<1>1. FlatTo(rows, k) \in Seq(Characters) BY FirstRows, FlatType DEF FlatTo
<1> QED BY <1>1, LenProperties DEF Content

\* It is a matter of these rows only.
LEMMA FlatToSame ==
  ASSUME NEW r \in Texts, NEW s \in Texts, NEW k \in 0..Len(r), k <= Len(s),
         \A i \in 1..k : r[i] = s[i]
  PROVE  FlatTo(r, k) = FlatTo(s, k)
<1>1. k \in 0..Len(s) BY DEF Texts
<1> DEFINE a == SubSeq(r, 1, k)
           b == SubSeq(s, 1, k)
<1>2. /\ a \in Texts /\ Len(a) = k /\ \A i \in 1..k : a[i] = r[i]
      /\ b \in Texts /\ Len(b) = k /\ \A i \in 1..k : b[i] = s[i]
  BY <1>1, FirstRows
<1> HIDE DEF a, b
<1>3. a = b
  <2>1. \A i \in 1..Len(a) : a[i] = b[i] BY <1>2
  <2> QED BY <1>2, <2>1, SeqEqual DEF Texts
<1> QED BY <1>3 DEF FlatTo, a, b

\* Sequences of characters are put together in any order.
LEMMA Together ==
  /\ <<>> \in Content /\ <<NL>> \in Content
  /\ \A a, b \in Content : a \o b \in Content
  /\ \A a, b \in Content : Len(a \o b) = Len(a) + Len(b) /\ Len(a) \in Nat
  /\ \A a, b, c \in Content : (a \o b) \o c = a \o (b \o c)
  /\ \A a \in Content : a \o <<>> = a /\ <<>> \o a = a
<1>1. \A a, b \in Content : (a \o b) \in Content /\ Len(a \o b) = Len(a) + Len(b)
  BY ConcatProperties, Zenon DEF Content
<1>2. \A a \in Content : Len(a) \in Nat BY LenProperties DEF Content
<1>3. \A a, b, c \in Content : (a \o b) \o c = a \o (b \o c)
  <2> SUFFICES ASSUME NEW a \in Content, NEW b \in Content, NEW c \in Content
               PROVE  (a \o b) \o c = a \o (b \o c)
    OBVIOUS
  <2> QED BY ConcatAssociative DEF Content
<1>4. \A a \in Content : a \o <<>> = a /\ <<>> \o a = a BY ConcatEmptySeq, Zenon DEF Content
<1>5. <<>> \in Content BY DEF Content
<1>6. <<NL>> \in Content
  <2>1. NL \in Characters BY DEF Characters
  <2> HIDE DEF NL
  <2> QED BY <2>1 DEF Content
<1> QED BY <1>1, <1>2, <1>3, <1>4, <1>5, <1>6

\* Rows that end alike have one text behind what is before them.
LEMMA FlatApart ==
  ASSUME NEW r \in Texts, NEW s \in Texts, NEW i \in 0..Len(r), NEW j \in 0..Len(s),
         Len(r) - i = Len(s) - j, \A k \in 1..(Len(r) - i) : r[i + k] = s[j + k]
  PROVE  \E t \in Content : Flat(r) = FlatTo(r, i) \o t /\ Flat(s) = FlatTo(s, j) \o t
<1> DEFINE n == Len(r) - i
           P(k) == \E t \in Content : /\ FlatTo(r, i + k) = FlatTo(r, i) \o t
                                    /\ FlatTo(s, j + k) = FlatTo(s, j) \o t
           T == {k \in 0..n : ~ P(k)}
<1>0. /\ Len(r) \in Nat /\ Len(s) \in Nat /\ n \in Nat /\ i + n = Len(r) /\ j + n = Len(s)
      /\ i \in Nat /\ j \in Nat
  BY DEF Texts
<1>1. P(0)
  <2>1. FlatTo(r, i) \in Content /\ FlatTo(s, j) \in Content BY FlatToType
  <2>2. <<>> \in Content /\ FlatTo(r, i) = FlatTo(r, i) \o <<>> /\ FlatTo(s, j) = FlatTo(s, j) \o <<>>
    BY <2>1, Together
  <2>3. i + 0 = i /\ j + 0 = j BY <1>0
  <2> QED BY <2>2, <2>3
<1>2. ASSUME NEW k \in 1..n, P(k - 1) PROVE P(k)
  <2>1. PICK t \in Content : /\ FlatTo(r, i + (k - 1)) = FlatTo(r, i) \o t
                           /\ FlatTo(s, j + (k - 1)) = FlatTo(s, j) \o t
    BY <1>2
  <2> DEFINE x == r[i + k]
  <2>2. i + k \in 1..Len(r) /\ j + k \in 1..Len(s)
        /\ (i + k) - 1 = i + (k - 1) /\ (j + k) - 1 = j + (k - 1)
    BY <1>0
  <2>3. x = s[j + k] /\ x \in Content BY <2>2 DEF Texts, Content
  <2>4. FlatTo(r, i + k) = (FlatTo(r, i) \o t) \o x \o <<NL>> BY <2>1, <2>2, FlatStep
  <2>5. FlatTo(s, j + k) = (FlatTo(s, j) \o t) \o x \o <<NL>> BY <2>1, <2>2, <2>3, FlatStep
  <2>6. FlatTo(r, i) \in Content /\ FlatTo(s, j) \in Content BY FlatToType
  <2> HIDE DEF x
  <2> DEFINE y == x \o <<NL>>
             u == t \o y
  <2>7. y \in Content /\ u \in Content BY <2>3, Together
  <2>8. ASSUME NEW a \in Content PROVE (a \o t) \o x \o <<NL>> = a \o u
    <3>1. (a \o t) \in Content /\ <<NL>> \in Content BY Together
    <3>2. ((a \o t) \o x) \o <<NL>> = (a \o t) \o y BY <2>3, <3>1, Together
    <3>3. (a \o t) \o y = a \o (t \o y) BY <2>7, Together
    <3> QED BY <3>2, <3>3
  <2> HIDE DEF u
  <2> QED BY <2>4, <2>5, <2>6, <2>7, <2>8
<1>3. T = {}
  <2> SUFFICES ASSUME T # {} PROVE FALSE OBVIOUS
  <2>1. PICK m \in T : \A k \in T : m <= k
    <3>1. T \in SUBSET Nat OBVIOUS
    <3> HIDE DEF T
    <3> QED BY <3>1, LeastNat
  <2>2. m \in 0..n /\ ~ P(m) BY <2>1
  <2> HIDE DEF P
  <2>3. m # 0 BY <1>1, <2>2
  <2>4. m \in 1..n /\ m - 1 \in 0..n /\ m - 1 \notin T
    <3> HIDE DEF T
    <3> QED BY <1>0, <2>1, <2>2, <2>3
  <2>5. P(m - 1) BY <2>4
  <2> QED BY <1>2, <2>2, <2>4, <2>5
<1>4. P(n)
  <2> HIDE DEF P
  <2> QED BY <1>0, <1>3
<1>5. FlatTo(r, i + n) = Flat(r) /\ FlatTo(s, j + n) = Flat(s) BY <1>0, FlatStep
<1> HIDE DEF n
<1> QED BY <1>4, <1>5

\* What stands before a place and after it.
LEMMA Halves ==
  ASSUME NEW S, NEW a \in Seq(S), NEW b \in Seq(S)
  PROVE  /\ SubSeq(a \o b, 1, Len(a)) = a
         /\ SubSeq(a \o b, Len(a) + 1, Len(a \o b)) = b
<1> DEFINE s == a \o b
           m == Len(a)
           n == Len(b)
<1>1. /\ m \in Nat /\ n \in Nat /\ s \in Seq(S) /\ Len(s) = m + n
      /\ \A i \in 1..(m + n) : s[i] = IF i <= m THEN a[i] ELSE b[i - m]
  BY ConcatProperties, LenProperties
<1> HIDE DEF s
<1>2. SubSeq(s, 1, m) = a
  <2> DEFINE u == SubSeq(s, 1, m)
  <2>1. u \in Seq(S) /\ Len(u) = m /\ \A i \in 1..m : u[i] = s[i] BY <1>1
  <2> HIDE DEF u
  <2>2. \A i \in 1..Len(u) : u[i] = a[i] BY <1>1, <2>1
  <2>3. u = a BY <2>1, <2>2, SeqEqual
  <2> QED BY <2>3 DEF u
<1>3. SubSeq(s, m + 1, Len(s)) = b
  <2> DEFINE u == SubSeq(s, m + 1, m + n)
  <2>1. u \in Seq(S) /\ Len(u) = n /\ \A i \in 1..n : u[i] = s[m + i] BY <1>1
  <2> HIDE DEF u
  <2>2. \A i \in 1..Len(u) : u[i] = b[i]
    <3> SUFFICES ASSUME NEW i \in 1..n PROVE u[i] = b[i] BY <2>1
    <3>1. m + i \in 1..(m + n) /\ ~ (m + i <= m) /\ (m + i) - m = i BY <1>1
    <3> HIDE DEF m, n
    <3> QED BY <1>1, <2>1, <3>1
  <2>3. u = b BY <2>1, <2>2, SeqEqual
  <2> QED BY <1>1, <2>3 DEF u
<1> QED BY <1>2, <1>3 DEF s

\* One more character.
LEMMA InsertBetween ==
  ASSUME NEW a \in Content, NEW b \in Content, NEW x
  PROVE  InsertAt(a \o b, Len(a) + 1, x) = a \o <<x>> \o b
<1> DEFINE s == a \o b
           m == Len(a)
           i == m + 1
<1>1. i - 1 = m BY LenProperties DEF Content
<1>2. SubSeq(s, 1, m) = a /\ SubSeq(s, i, Len(s)) = b BY Halves DEF Content
<1> HIDE DEF s, m, i
<1>3. InsertAt(s, i, x) = SubSeq(s, 1, i - 1) \o <<x>> \o SubSeq(s, i, Len(s)) BY DEF InsertAt
<1>4. InsertAt(s, i, x) = a \o <<x>> \o b BY <1>1, <1>2, <1>3
<1> QED BY <1>4 DEF s, m, i

\* One less.
LEMMA RemoveBetween ==
  ASSUME NEW a \in Content, NEW b \in Content, NEW x \in Characters
  PROVE  RemoveAt(a \o (<<x>> \o b), Len(a) + 1) = a \o b
<1> DEFINE y == <<x>>
<1>1. y \in Content /\ Len(y) = 1 BY DEF Content
<1> HIDE DEF y
<1> DEFINE c == a \o y
           s == a \o (y \o b)
<1>2. c \in Content /\ y \o b \in Content BY <1>1, Together
<1>3. Len(c) = Len(a) + 1 /\ Len(a) \in Nat BY <1>1, Together
<1>4. s = c \o b BY <1>1, Together
<1>5. SubSeq(s, 1, Len(a)) = a BY <1>2, Halves DEF Content
<1>6. SubSeq(c \o b, Len(c) + 1, Len(c \o b)) = b BY <1>2, Halves DEF Content
<1> HIDE DEF s, c
<1>7. RemoveAt(s, Len(c)) = a \o b
  <2>1. Len(c) - 1 = Len(a) BY <1>3
  <2> QED BY <1>4, <1>5, <1>6, <2>1 DEF RemoveAt
<1> QED BY <1>3, <1>7 DEF s, y

\* A sequence before and after a place in it.
LEMMA CutAt ==
  ASSUME NEW S, NEW s \in Seq(S), NEW k \in 0..Len(s)
  PROVE  /\ SubSeq(s, 1, k) \in Seq(S) /\ Len(SubSeq(s, 1, k)) = k
         /\ SubSeq(s, k + 1, Len(s)) \in Seq(S)
         /\ s = SubSeq(s, 1, k) \o SubSeq(s, k + 1, Len(s))
<1>1. Len(s) \in Nat /\ 1 \in 1..(Len(s) + 1) /\ k \in (1 - 1)..Len(s) /\ Len(s) \in k..Len(s)
  BY LenProperties
<1>2. SubSeq(s, 1, k) \o SubSeq(s, k + 1, Len(s)) = SubSeq(s, 1, Len(s))
  BY <1>1, ConcatAdjacentSubSeq
<1>3. SubSeq(s, 1, Len(s)) = s BY SubSeqFull
<1>4. SubSeq(s, 1, k) \in Seq(S) /\ Len(SubSeq(s, 1, k)) = k BY <1>1
<1>5. SubSeq(s, k + 1, Len(s)) \in Seq(S) BY <1>1
<1> QED BY <1>2, <1>3, <1>4, <1>5, Zenon

\* Two texts make one.
LEMMA Glued ==
  ASSUME NEW a \in Content, NEW b \in Content
  PROVE  /\ a \o b \in Content /\ Len(a \o b) = Len(a) + Len(b)
         /\ Len(a) \in Nat /\ Len(b) \in Nat
BY Together

\* Three texts make one, either way.
LEMMA GluedAlike ==
  ASSUME NEW a \in Content, NEW b \in Content, NEW c \in Content
  PROVE  (a \o b) \o c = a \o (b \o c)
BY Together

\* A text is what is above a row, the row, its newline, and what is below.
LEMMA RowText ==
  ASSUME NEW rows \in Texts, NEW i \in 1..Len(rows)
  PROVE  \E t \in Content : /\ Flat(rows) = FlatTo(rows, i - 1) \o (rows[i] \o (<<NL>> \o t))
                          /\ Flat(rows) = FlatTo(rows, i) \o t
<1>0. i \in 0..Len(rows) /\ i - 1 \in 0..Len(rows) BY DEF Texts
<1>1. PICK t \in Content : Flat(rows) = FlatTo(rows, i) \o t BY <1>0, FlatApart
<1> DEFINE f == FlatTo(rows, i - 1)
           r == rows[i]
           y == <<NL>>
<1>2. FlatTo(rows, i) = (f \o r) \o y BY FlatStep
<1>3. f \in Content /\ r \in Content /\ y \in Content
  BY <1>0, FlatToType, Together DEF Texts, Content
<1>4. Flat(rows) = f \o (r \o (y \o t))
  <2> HIDE DEF f, r, y
  <2>1. f \in Content /\ r \in Content /\ y \in Content /\ t \in Content BY <1>3
  <2>2. ((f \o r) \o y) \o t = (f \o r) \o (y \o t)
    <3> DEFINE u == f \o r
    <3>1. u \in Content BY <2>1, Glued
    <3> HIDE DEF u
    <3>2. (u \o y) \o t = u \o (y \o t) BY <2>1, <3>1, GluedAlike
    <3> QED BY <3>2 DEF u
  <2>3. (f \o r) \o (y \o t) = f \o (r \o (y \o t))
    <3> DEFINE u == y \o t
    <3>1. u \in Content BY <2>1, Glued
    <3> HIDE DEF u
    <3>2. (f \o r) \o u = f \o (r \o u) BY <2>1, <3>1, GluedAlike
    <3> QED BY <3>2 DEF u
  <2> QED BY <1>1, <1>2, <2>2, <2>3
<1> QED BY <1>1, <1>4

\* How many characters stand before a place
PlaceOf(rows, c) == Len(FlatTo(rows, c.cy)) + c.cx

\* The cursor's point is in the text; that of a row is before its newline.
LEMMA PlaceIn ==
  ASSUME NEW rows \in Texts, NEW c \in Cursors, InRows(rows, c)
  PROVE  /\ PlaceOf(rows, c) \in 0..Len(Flat(rows))
         /\ c.cy = Len(rows) => PlaceOf(rows, c) = Len(Flat(rows))
         /\ c.cy # Len(rows) => PlaceOf(rows, c) < Len(Flat(rows))
<1>0. /\ Len(rows) \in Nat /\ c.cy \in Nat /\ c.cx \in Nat /\ c.cy <= Len(rows)
      /\ c.cx <= RowLen(rows, c.cy)
  BY DEF Texts, Cursors, InRows
<1>1. CASE c.cy = Len(rows)
  <2>1. c.cx = 0 BY <1>0, <1>1 DEF RowLen
  <2>2. FlatTo(rows, c.cy) = Flat(rows) BY <1>1, FlatStep
  <2>3. Len(Flat(rows)) \in Nat BY FlatType, LenProperties
  <2> QED BY <1>1, <2>1, <2>2, <2>3 DEF PlaceOf
<1>2. CASE c.cy # Len(rows)
  <2> DEFINE i == c.cy + 1
             f == FlatTo(rows, i - 1)
             r == rows[i]
  <2>1. i \in 1..Len(rows) /\ i - 1 \in 0..Len(rows) /\ i - 1 = c.cy BY <1>0, <1>2
  <2>2. PICK t \in Content : Flat(rows) = f \o (r \o (<<NL>> \o t)) BY <2>1, RowText
  <2>3. f \in Content /\ r \in Content BY <2>1, FlatToType DEF Texts, Content
  <2>4. c.cx <= Len(r) BY <1>0, <1>2 DEF RowLen
  <2>5. FlatTo(rows, c.cy) = f BY <2>1
  <2> DEFINE y == <<NL>>
  <2>6. y \in Content /\ Len(y) = 1 BY Together
  <2> HIDE DEF f, r, y
  <2>7. y \o t \in Content /\ Len(y \o t) = 1 + Len(t) /\ Len(t) \in Nat BY <2>6, Together
  <2>8. r \o (y \o t) \in Content /\ Len(r \o (y \o t)) = Len(r) + Len(y \o t) /\ Len(r) \in Nat
    BY <2>3, <2>7, Together
  <2>9. Len(f \o (r \o (y \o t))) = Len(f) + Len(r \o (y \o t)) /\ Len(f) \in Nat
    BY <2>3, <2>8, Together
  <2>10. Len(Flat(rows)) = Len(f) + (Len(r) + (1 + Len(t))) BY <2>2, <2>7, <2>8, <2>9 DEF y
  <2>11. PlaceOf(rows, c) = Len(f) + c.cx BY <2>5 DEF PlaceOf
  <2> QED BY <1>0, <1>2, <2>4, <2>7, <2>8, <2>9, <2>10, <2>11
<1> QED BY <1>1, <1>2

-----------------------------------------------------------------------------
(* The editor implements TextBuffer *)

\* What the theorem is about: saves that fit in one block, files that may be
\* read and written, and a key for the newline that types no character
SavesFit ==
  /\ MaxFile \in Int /\ MaxFile < PerBlock
  /\ \A acl \in Modes : {"r", "w"} \subseteq acl
  /\ NL \notin Letters

\* The file may be read and written, and its blocks are not too many
FileInv == file.nblks \in 1..MaxBlks /\ {"r", "w"} \subseteq file.acl

\* The character x is inserted between a and b, in a line of its own or not.
Inserts(a, b, x, end) ==
  /\ mode = "edit" /\ UNCHANGED <<mode, file>> /\ dirty' = TRUE /\ quits' = QuitTimes
  /\ Flat(text) = a \o b /\ PlaceOf(text, cursor) = Len(a)
  /\ PlaceOf(text', cursor') = Len(a) + 1
  /\ Flat(text') = (a \o <<x>> \o b) \o end
  /\ end = IF b = <<>> /\ x # NL THEN <<NL>> ELSE <<>>

\* The two modules mean the same by it.
LEMMA AlikeAt ==
  /\ \A s, i, x : Abstract!InsertAt(s, i, x) = InsertAt(s, i, x)
  /\ \A s, i : Abstract!RemoveAt(s, i) = RemoveAt(s, i)
BY DEF Abstract!InsertAt, InsertAt, Abstract!RemoveAt, RemoveAt

\* Where the new character stands.
LEMMA NewCharacter ==
  ASSUME NEW a \in Content, NEW b \in Content, NEW x \in Characters, NEW end \in Content
  PROVE  /\ ((a \o <<x>> \o b) \o end)[Len(a) + 1] = x
         /\ Len((a \o <<x>> \o b) \o end) > Len(a)
<1> DEFINE y == <<x>>
<1>1. y \in Content /\ Len(y) = 1 /\ y[1] = x BY DEF Content
<1> HIDE DEF y
<1>2. a \o y \in Content /\ Len(a \o y) = Len(a) + 1 /\ Len(a) \in Nat
  <2>1. a \o y \in Content /\ Len(a \o y) = Len(a) + Len(y) /\ Len(a) \in Nat
    BY <1>1, Glued, Zenon
  <2> QED BY <1>1, <2>1
<1>3. (a \o y)[Len(a) + 1] = x
  <2>1. \A i \in 1..(Len(a) + Len(y)) : (a \o y)[i] = IF i <= Len(a) THEN a[i] ELSE y[i - Len(a)]
    BY <1>1, ConcatProperties DEF Content
  <2>2. Len(a) + 1 \in 1..(Len(a) + Len(y)) /\ ~ (Len(a) + 1 <= Len(a)) /\ (Len(a) + 1) - Len(a) = 1
    BY <1>1, <1>2
  <2> QED BY <1>1, <2>1, <2>2
<1> DEFINE c == a \o y
           d == b \o end
           f == c \o d
<1>4. c \in Content /\ d \in Content /\ Len(c) = Len(a) + 1 /\ c[Len(a) + 1] = x
  BY <1>2, <1>3, Glued
<1>5. (c \o b) \o end = f
  <2> HIDE DEF c
  <2> QED BY <1>4, GluedAlike
<1> HIDE DEF c, d
<1>6. /\ Len(f) = Len(c) + Len(d)
      /\ \A i \in 1..(Len(c) + Len(d)) : f[i] = IF i <= Len(c) THEN c[i] ELSE d[i - Len(c)]
  <2>1. c \in Seq(Characters) /\ d \in Seq(Characters) BY <1>4 DEF Content
  <2> QED BY <2>1, ConcatProperties, Zenon
<1> HIDE DEF f
<1>7. Len(d) \in Nat /\ Len(a) \in Nat BY <1>4, LenProperties DEF Content
<1>8. Len(a) + 1 \in 1..(Len(c) + Len(d)) /\ Len(a) + 1 <= Len(c) BY <1>4, <1>7
<1>9. f[Len(a) + 1] = x /\ Len(f) > Len(a) BY <1>4, <1>6, <1>7, <1>8
<1> QED BY <1>5, <1>9 DEF c, y

\* A character is inserted between a and b.
LEMMA InsertMaps ==
  ASSUME NEW a \in Content, NEW b \in Content, NEW x \in Characters, NEW end \in Content,
         Inserts(a, b, x, end)
  PROVE  Abstract!Insert
<1> DEFINE p == PointOf(cursor)
           g == Flat(text)
           f == Flat(text')
           z == IF p = Len(g) /\ f[p + 1] # NL THEN <<NL>> ELSE <<>>
<1>1. p = Len(a) /\ g = a \o b /\ PointOf(cursor)' = Len(a) + 1
  BY DEF Inserts, PointOf, PlaceOf, FlatTo
<1>2. f = (a \o <<x>> \o b) \o end /\ end = IF b = <<>> /\ x # NL THEN <<NL>> ELSE <<>>
  BY DEF Inserts
<1>3. f[p + 1] = x /\ Len(f) > p BY <1>1, <1>2, NewCharacter
<1>4. Len(a) = Len(a \o b) <=> b = <<>>
  <2>1. Len(a \o b) = Len(a) + Len(b) /\ Len(b) \in Nat /\ Len(a) \in Nat BY Glued
  <2>2. b # <<>> => Len(b) # 0 BY DEF Content
  <2>3. b = <<>> => Len(b) = 0 OBVIOUS
  <2> QED BY <2>1, <2>2, <2>3
<1>5. z = end BY <1>1, <1>2, <1>3, <1>4
<1>6. InsertAt(g, p + 1, x) = a \o <<x>> \o b
  <2>1. InsertAt(a \o b, Len(a) + 1, x) = a \o <<x>> \o b BY InsertBetween
  <2> QED BY <1>1, <2>1
<1> HIDE DEF p, g, f, z
<1>7. f = Abstract!InsertAt(g, p + 1, f[p + 1]) \o z
  <2>1. f = InsertAt(g, p + 1, f[p + 1]) \o z BY <1>2, <1>3, <1>5, <1>6
  <2> QED BY <2>1, AlikeAt
<1>8. /\ mode = "edit" /\ UNCHANGED <<mode, file.data>> /\ dirty' = TRUE
      /\ (QuitTimes - quits)' = 0
  BY QuitAssumption DEF Inserts
<1>9. PointOf(cursor)' = p + 1 BY <1>1
<1> QED BY <1>3, <1>7, <1>8, <1>9, Zenon DEF Abstract!Insert, p, g, f, z

\* Row i is x and y, and t is below it
Parted(rows, i, x, y, t) == rows[i] = x \o y /\ Flat(rows) = FlatTo(rows, i) \o t

\* The whole is a and b, and b is something
Cut(whole, a, b) == a \in Content /\ b \in Content /\ Len(b) > 0 /\ whole = a \o b

\* A text around a place in a row.
LEMMA RowParts ==
  ASSUME NEW rows \in Texts, NEW i \in 1..Len(rows), NEW x \in Content, NEW y \in Content,
         NEW t \in Content, Parted(rows, i, x, y, t)
  PROVE  Cut(Flat(rows), FlatTo(rows, i - 1) \o x, y \o (<<NL>> \o t))
<1> DEFINE f == FlatTo(rows, i - 1)
           z == <<NL>>
<1>1. f \in Content
  <2>1. i - 1 \in 0..Len(rows) BY DEF Texts
  <2> QED BY <2>1, FlatToType
<1>2. z \in Content /\ Len(z) = 1 BY Together
<1>3. Flat(rows) = ((f \o (x \o y)) \o z) \o t BY FlatStep DEF Parted
<1> HIDE DEF f, z
<1> DEFINE a == f \o x
           u == z \o t
           b == y \o u
<1>4. a \in Content /\ u \in Content BY <1>1, <1>2, Glued
<1>5. f \o (x \o y) = a \o y BY <1>1, GluedAlike
<1> HIDE DEF a
<1>6. a \o y \in Content /\ ((a \o y) \o z) \o t = (a \o y) \o u
  <2> DEFINE c == a \o y
  <2>1. c \in Content BY <1>4, Glued
  <2> HIDE DEF c
  <2>2. (c \o z) \o t = c \o (z \o t) BY <1>2, <2>1, GluedAlike
  <2> QED BY <2>1, <2>2 DEF c
<1>7. Len(u) > 0
  <2>1. Len(u) = Len(z) + Len(t) /\ Len(t) \in Nat BY <1>2, Glued, Zenon
  <2> QED BY <1>2, <2>1
<1> HIDE DEF u
<1>8. (a \o y) \o u = a \o b BY <1>4, GluedAlike
<1>9. b \in Content /\ Len(b) > 0
  <2>1. b \in Content /\ Len(b) = Len(y) + Len(u) /\ Len(y) \in Nat /\ Len(u) \in Nat
    BY <1>4, Glued, Zenon
  <2> QED BY <1>7, <2>1
<1> QED BY <1>3, <1>4, <1>5, <1>6, <1>8, <1>9 DEF a, u, z, f, Cut

\* A row that changes between x and y, which nothing else does.
LEMMA RowChanges ==
  ASSUME NEW rows \in Texts, NEW i \in 1..Len(rows), NEW x \in Content, NEW y \in Content,
         rows[i] = x \o y, NEW z \in Content, NEW w \in Content
  PROVE  \E b \in Content :
           /\ Cut(Flat(rows), FlatTo(rows, i - 1) \o x, b)
           /\ w = z \o y => Cut(Flat(UpdateRow(rows, i, w)), FlatTo(rows, i - 1) \o z, b)
<1> DEFINE s == UpdateRow(rows, i, w)
<1>1. /\ s \in Texts /\ Len(s) = Len(rows) /\ s[i] = w
      /\ \A j \in 1..Len(rows) : j # i => s[j] = rows[j]
  BY UpdateRowType DEF Content
<1>2. /\ Len(rows) \in Nat /\ i \in 0..Len(rows) /\ i \in 0..Len(s) /\ i - 1 \in 0..Len(rows)
      /\ i \in 1..Len(s)
  BY <1>1 DEF Texts
<1> HIDE DEF s
<1>3. PICK t \in Content : Flat(rows) = FlatTo(rows, i) \o t /\ Flat(s) = FlatTo(s, i) \o t
  <2>1. \A k \in 1..(Len(rows) - i) : rows[i + k] = s[i + k]
    <3> SUFFICES ASSUME NEW k \in 1..(Len(rows) - i) PROVE rows[i + k] = s[i + k] OBVIOUS
    <3>1. i + k \in 1..Len(rows) /\ i + k # i BY <1>2
    <3> QED BY <1>1, <3>1
  <2> QED BY <1>1, <1>2, <2>1, FlatApart
<1>4. FlatTo(s, i - 1) = FlatTo(rows, i - 1)
  <2>1. \A j \in 1..(i - 1) : rows[j] = s[j] BY <1>1, <1>2
  <2>2. i - 1 <= Len(s) BY <1>1, <1>2
  <2> HIDE DEF s
  <2> DEFINE k == i - 1
  <2>3. k \in 0..Len(rows) /\ k <= Len(s) /\ \A j \in 1..k : rows[j] = s[j] BY <1>2, <2>1, <2>2
  <2> HIDE DEF k
  <2>4. FlatTo(rows, k) = FlatTo(s, k) BY <1>1, <2>3, FlatToSame
  <2> QED BY <2>4 DEF k
<1> DEFINE b == y \o (<<NL>> \o t)
<1>5. Cut(Flat(rows), FlatTo(rows, i - 1) \o x, b)
  <2>1. Parted(rows, i, x, y, t) BY <1>3 DEF Parted
  <2> QED BY <2>1, RowParts
<1>6. ASSUME w = z \o y PROVE Cut(Flat(s), FlatTo(s, i - 1) \o z, b)
  <2>1. Parted(s, i, z, y, t) BY <1>1, <1>3, <1>6 DEF Parted
  <2> QED BY <1>1, <1>2, <2>1, RowParts
<1> HIDE DEF b
<1> QED BY <1>4, <1>5, <1>6 DEF s, Cut

\* The rows s are the given ones and r as the i-th
OneMore(rows, i, r, s) ==
  /\ s \in Texts /\ Len(s) = Len(rows) + 1
  /\ \A k \in 1..(Len(rows) + 1) :
       s[k] = IF k < i THEN rows[k] ELSE IF k = i THEN r ELSE rows[k - 1]
  /\ FlatTo(s, i - 1) = FlatTo(rows, i - 1)
  /\ FlatTo(s, i) = FlatTo(rows, i - 1) \o r \o <<NL>>
  /\ \E t \in Content : Flat(rows) = FlatTo(rows, i - 1) \o t /\ Flat(s) = FlatTo(s, i) \o t

\* A row inserted below the first i - 1 ones.
LEMMA RowInserted ==
  ASSUME NEW rows \in Texts, NEW i \in 1..(Len(rows) + 1), NEW r \in Content
  PROVE  OneMore(rows, i, r, InsertRow(rows, i, r))
<1> DEFINE s == InsertRow(rows, i, r)
           m == i - 1
<1>1. /\ s \in Texts /\ Len(s) = Len(rows) + 1
      /\ \A k \in 1..(Len(rows) + 1) :
           s[k] = IF k < i THEN rows[k] ELSE IF k = i THEN r ELSE rows[k - 1]
  <2> DEFINE S == Seq(Characters)
  <2>1. rows \in Seq(S) /\ r \in S /\ s = InsertAt(rows, i, r)
    BY DEF Texts, Content, InsertRow
  <2> HIDE DEF S, s
  <2> DEFINE q == InsertAt(rows, i, r)
  <2>2. IsInserted(S, rows, i, r, q) BY <2>1, InsertedAt
  <2>3. s = q BY <2>1
  <2> HIDE DEF q
  <2> QED BY <2>2, <2>3 DEF Texts, S, IsInserted
<1> HIDE DEF s
<1>2. /\ Len(rows) \in Nat /\ i \in Nat /\ m \in 0..Len(rows) /\ m <= Len(s) /\ m \in 0..Len(s)
      /\ i \in 1..Len(s) /\ i \in 0..Len(s)
  BY <1>1 DEF Texts
<1>3. \A j \in 1..m : rows[j] = s[j] BY <1>1, <1>2
<1>4. FlatTo(s, i) = FlatTo(s, i - 1) \o r \o <<NL>>
  <2>1. s[i] = r BY <1>1
  <2> QED BY <1>1, <1>2, <2>1, FlatStep
<1>5. \A k \in 1..(Len(rows) - m) : rows[m + k] = s[i + k]
  <2> SUFFICES ASSUME NEW k \in 1..(Len(rows) - m) PROVE rows[m + k] = s[i + k] OBVIOUS
  <2>1. i + k \in 1..(Len(rows) + 1) /\ ~ (i + k < i) /\ i + k # i /\ (i + k) - 1 = m + k BY <1>2
  <2> QED BY <1>1, <2>1
<1>6. Len(rows) - m = Len(s) - i BY <1>1, <1>2
<1> HIDE DEF m
<1>7. FlatTo(rows, m) = FlatTo(s, m) BY <1>1, <1>2, <1>3, FlatToSame
<1>8. \E t \in Content : Flat(rows) = FlatTo(rows, m) \o t /\ Flat(s) = FlatTo(s, i) \o t
  BY <1>1, <1>2, <1>5, <1>6, FlatApart
<1> QED BY <1>1, <1>4, <1>7, <1>8 DEF s, m, OneMore

\* What a key that is done says of the point and the warnings.
LEMMA DonePoint ==
  ASSUME mode = "edit", NEW c, KeyDone(c)
  PROVE  cursor' = c /\ quits' = QuitTimes /\ mode' = mode
BY DEF KeyDone

\* A character that is typed below the last row.
LEMMA TypedBelow ==
  ASSUME CursorInText, SavesFit, NEW ch \in Letters, InsertChar(ch), cursor.cy = Len(text)
  PROVE  Abstract!Insert
<1> DEFINE i     == cursor.cy + 1
           rows  == InsertRow(text, i, <<>>)
           s     == InsertAt(rows[i], cursor.cx + 1, ch)
           c     == At(cursor.cy, cursor.cx + 1)
<1>1. /\ mode = "edit" /\ text' = UpdateRow(rows, i, s) /\ dirty' = TRUE /\ KeyDone(c)
      /\ file' = file
  BY DEF InsertChar
<1>2. /\ text \in Texts /\ Len(text) \in Nat /\ cursor.cx = 0 /\ i = Len(text) + 1
      /\ i \in 1..(Len(text) + 1) /\ i - 1 = Len(text) /\ i - 1 = cursor.cy
  BY <1>1, Facts DEF RowLen
<1>3. ch \in Characters /\ ch # NL /\ <<>> \in Content BY Together DEF Characters, SavesFit
<1> DEFINE y == <<ch>>
<1>14. /\ rows \in Texts /\ Len(rows) = i /\ rows[i] = <<>>
       /\ FlatTo(rows, i - 1) = FlatTo(text, i - 1)
  <2> DEFINE r == <<>>
             w == InsertRow(text, i, r)
  <2>1. r \in Content BY <1>3
  <2> HIDE DEF i, r
  <2>2. OneMore(text, i, r, w) BY <1>2, <2>1, RowInserted
  <2> HIDE DEF w
  <2>3. w[i] = r BY <1>2, <2>2 DEF OneMore
  <2> QED BY <1>2, <2>2, <2>3 DEF w, r, OneMore
<1>4. s = y
  <2>1. rows[i] = <<>> BY <1>14
  <2>2. InsertAt(<<>> \o <<>>, Len(<<>>) + 1, ch) = <<>> \o <<ch>> \o <<>>
    BY <1>3, InsertBetween
  <2>3. <<>> \o <<>> = <<>> /\ Len(<<>>) + 1 = cursor.cx + 1 /\ <<>> \o <<ch>> \o <<>> = <<ch>>
    BY <1>2
  <2> QED BY <2>1, <2>2, <2>3
<1>5. y \in Content
  BY <1>3 DEF Content
<1> HIDE DEF s, y
<1> DEFINE a == Flat(text)
           end == <<NL>>
           new == UpdateRow(rows, i, y)
<1>6. new \in Texts /\ Len(new) = i /\ new[i] = y /\ FlatTo(new, i - 1) = a
  <2>1. /\ rows \in Texts /\ Len(rows) = i /\ FlatTo(rows, i - 1) = FlatTo(text, i - 1)
    BY <1>14
  <2>2. FlatTo(text, i - 1) = a BY <1>2, FlatStep
  <2>3. i \in 1..Len(rows) /\ y \in Seq(Characters) BY <1>2, <1>5, <2>1 DEF Content
  <2> HIDE DEF rows
  <2>4. /\ new \in Texts /\ Len(new) = Len(rows) /\ new[i] = y
        /\ \A j \in 1..Len(rows) : j # i => new[j] = rows[j]
    BY <2>1, <2>3, UpdateRowType
  <2> DEFINE k == i - 1
  <2>5. k \in 0..Len(rows) /\ k <= Len(new) /\ \A j \in 1..k : rows[j] = new[j]
    BY <1>2, <2>1, <2>3, <2>4
  <2> HIDE DEF k, new
  <2>6. FlatTo(rows, k) = FlatTo(new, k) BY <2>1, <2>4, <2>5, FlatToSame
  <2> QED BY <2>1, <2>2, <2>4, <2>6 DEF k
<1> HIDE DEF new
<1>7. Flat(new) = (a \o y) \o end
  <2>1. i \in 1..Len(new) /\ FlatTo(new, Len(new)) = Flat(new) BY <1>2, <1>6, FlatStep
  <2>2. FlatTo(new, i) = FlatTo(new, i - 1) \o new[i] \o <<NL>> BY <1>6, <2>1, FlatStep
  <2> QED BY <1>6, <2>1, <2>2
<1>8. text' = new BY <1>1, <1>4 DEF new
<1>9. cursor' = c /\ quits' = QuitTimes /\ mode' = mode BY <1>1, DonePoint
<1>10. a \in Content /\ end \in Content /\ a = FlatTo(text, i - 1)
  BY <1>2, FlatType, FlatStep, Together DEF Content
<1>11. PlaceOf(text, cursor) = Len(a) /\ PlaceOf(text', cursor') = Len(a) + 1
  <2>1. c.cy = i - 1 /\ c.cx = 1 BY <1>2 DEF At
  <2>2. PlaceOf(new, c) = Len(FlatTo(new, i - 1)) + 1 BY <2>1 DEF PlaceOf
  <2>3. PlaceOf(text, cursor) = Len(FlatTo(text, i - 1)) + 0 BY <1>2 DEF PlaceOf
  <2>4. Len(a) \in Nat BY <1>10, LenProperties DEF Content
  <2> HIDE DEF c, a
  <2> QED BY <1>6, <1>8, <1>9, <1>10, <2>2, <2>3, <2>4
<1> DEFINE b == <<>>
<1>12. a = a \o b /\ (a \o y \o b) = a \o y
  <2>1. a \o y \in Content BY <1>5, <1>10, Glued
  <2> QED BY <1>10, <2>1, Together
<1>13. Inserts(a, b, ch, end)
  <2> HIDE DEF a, c
  <2>1. end = IF b = <<>> /\ ch # NL THEN <<NL>> ELSE <<>> BY <1>3
  <2>2. Flat(text) = a \o b BY <1>12 DEF a
  <2>3. Flat(text') = (a \o <<ch>> \o b) \o end BY <1>7, <1>8, <1>12 DEF y
  <2> HIDE DEF end, b
  <2> QED BY <1>1, <1>9, <1>11, <2>1, <2>2, <2>3 DEF Inserts
<1> QED BY <1>3, <1>10, <1>13, InsertMaps

\* A character that is typed in a row.
LEMMA TypedInside ==
  ASSUME CursorInText, NEW ch \in Letters, InsertChar(ch), cursor.cy # Len(text)
  PROVE  Abstract!Insert
<1> DEFINE i == cursor.cy + 1
           s == InsertAt(text[i], cursor.cx + 1, ch)
           c == At(cursor.cy, cursor.cx + 1)
<1>1. /\ mode = "edit" /\ text' = UpdateRow(text, i, s) /\ dirty' = TRUE /\ KeyDone(c)
      /\ file' = file
  BY DEF InsertChar
<1>2. /\ text \in Texts /\ Len(text) \in Nat /\ i \in 1..Len(text) /\ i - 1 = cursor.cy
      /\ cursor.cx \in 0..Len(text[i])  /\ text[i] \in Seq(Characters)
  <2>1. /\ text \in Texts /\ Len(text) \in Nat /\ cursor.cy \in Nat /\ cursor.cx \in Nat
        /\ cursor.cy <= Len(text) /\ cursor.cx <= RowLen(text, cursor.cy)
    BY <1>1, Facts
  <2>2. RowLen(text, cursor.cy) = Len(text[i]) BY <2>1 DEF RowLen
  <2>3. i \in 1..Len(text) /\ text[i] \in Seq(Characters) BY <2>1 DEF Texts
  <2> QED BY <2>1, <2>2, <2>3
<1>3. ch \in Characters BY DEF Characters
<1> DEFINE x == SubSeq(text[i], 1, cursor.cx)
           y == SubSeq(text[i], cursor.cx + 1, Len(text[i]))
           z == x \o <<ch>>
<1>4. x \in Content /\ Len(x) = cursor.cx /\ y \in Content /\ text[i] = x \o y
  BY <1>2, CutAt DEF Content
<1> HIDE DEF x, y
<1>5. s = z \o y BY <1>4, InsertBetween
<1>6. z \in Content /\ Len(z) = cursor.cx + 1 /\ s \in Content
  <2> DEFINE u == <<ch>>
  <2>1. u \in Content /\ Len(u) = 1 BY <1>3 DEF Content
  <2> HIDE DEF u
  <2>2. x \o u \in Content /\ Len(x \o u) = Len(x) + Len(u) BY <1>4, <2>1, Glued, Zenon
  <2>3. z \in Content /\ Len(z) = cursor.cx + 1 BY <1>4, <2>1, <2>2 DEF u
  <2> HIDE DEF z
  <2>4. z \o y \in Content BY <1>4, <2>3, Glued
  <2> QED BY <1>5, <2>3, <2>4
<1> DEFINE f == FlatTo(text, i - 1)
           a == f \o x
<1> HIDE DEF s, z
<1>7. PICK b \in Content :
           /\ Cut(Flat(text), a, b)
           /\ s = z \o y => Cut(Flat(UpdateRow(text, i, s)), f \o z, b)
  BY <1>2, <1>4, <1>6, RowChanges
<1>8. f \in Content /\ Len(f) \in Nat
  <2>1. i - 1 \in 0..Len(text) BY <1>2
  <2> QED BY <1>2, <2>1, FlatToType
<1> DEFINE u == <<ch>>
<1>9. f \o z = a \o u
  <2>1. u \in Content BY <1>3 DEF Content
  <2> HIDE DEF f, u
  <2>2. (f \o x) \o u = f \o (x \o u) BY <1>4, <1>8, <2>1, GluedAlike
  <2> QED BY <2>2 DEF z, u
<1>10. cursor' = c /\ quits' = QuitTimes /\ mode' = mode BY <1>1, DonePoint
<1>11. Len(a) = Len(f) + cursor.cx
  <2> HIDE DEF f
  <2>1. Len(f \o x) = Len(f) + Len(x) BY <1>4, <1>8, Glued, Zenon
  <2> QED BY <1>4, <2>1
<1>12. PlaceOf(text, cursor) = Len(a) BY <1>2, <1>11 DEF PlaceOf
<1>13. PlaceOf(text', cursor') = Len(a) + 1
  <2>1. c.cy = i - 1 /\ c.cx = cursor.cx + 1 BY <1>2 DEF At
  <2>2. FlatTo(text', i - 1) = f
    <3> DEFINE k == i - 1
               w == UpdateRow(text, i, s)
    <3>1. /\ w \in Texts /\ Len(w) = Len(text)
          /\ \A j \in 1..Len(text) : j # i => w[j] = text[j]
      BY <1>2, <1>6, UpdateRowType DEF Content
    <3>2. k \in 0..Len(text) /\ k <= Len(w) /\ \A j \in 1..k : text[j] = w[j]
      BY <1>2, <3>1
    <3> HIDE DEF k, w
    <3>3. FlatTo(text, k) = FlatTo(w, k) BY <1>2, <3>1, <3>2, FlatToSame
    <3> QED BY <1>1, <3>3 DEF k, w
  <2>3. PlaceOf(text', c) = Len(f) + (cursor.cx + 1) BY <2>1, <2>2 DEF PlaceOf
  <2> QED BY <1>2, <1>8, <1>10, <1>11, <2>3
<1>14. Len(b) > 0 /\ a \in Content /\ Flat(text) = a \o b /\ Flat(text') = (a \o u) \o b
  BY <1>1, <1>5, <1>7, <1>9 DEF Cut
<1> DEFINE end == <<>>
<1>15. Inserts(a, b, ch, end)
  <2> HIDE DEF a, c
  <2>1. b # <<>> BY <1>14
  <2>2. end = IF b = <<>> /\ ch # NL THEN <<NL>> ELSE <<>> BY <2>1
  <2>3. Flat(text') = (a \o <<ch>> \o b) \o end
    <3>1. u \in Content BY <1>3 DEF Content
    <3> HIDE DEF u
    <3> DEFINE d == a \o u
    <3>2. d \in Content BY <1>14, <3>1, Glued
    <3> HIDE DEF d
    <3>3. d \o b \in Content BY <3>2, Glued
    <3>4. (d \o b) \o <<>> = d \o b BY <3>3, Together
    <3> QED BY <1>14, <3>4 DEF d, u
  <2> HIDE DEF end
  <2> QED BY <1>1, <1>10, <1>12, <1>13, <1>14, <2>2, <2>3 DEF Inserts
<1>16. end \in Content BY Together
<1> QED BY <1>3, <1>14, <1>15, <1>16, InsertMaps

\* A line is begun at the start of a row or below the last one.
LEMMA NewLineAbove ==
  ASSUME CursorInText, NewLine, cursor.cx = 0 PROVE Abstract!Insert
<1> DEFINE i == cursor.cy + 1
           r == <<>>
           s == InsertRow(text, i, r)
           c == At(cursor.cy + 1, 0)
<1>1. /\ mode = "edit" /\ text' = s /\ dirty' = TRUE /\ KeyDone(c) /\ file' = file
  BY DEF NewLine
<1>2. /\ text \in Texts /\ Len(text) \in Nat /\ i \in 1..(Len(text) + 1) /\ i - 1 = cursor.cy
      /\ i \in Nat /\ i - 1 \in 0..Len(text)
  BY <1>1, Facts
<1>3. r \in Content BY Together
<1>4. cursor' = c /\ quits' = QuitTimes /\ mode' = mode BY <1>1, DonePoint
<1>5. c.cy = i /\ c.cx = 0 BY DEF At
<1> HIDE DEF i, r, c
<1>6. OneMore(text, i, r, s) BY <1>2, <1>3, RowInserted
<1> HIDE DEF s
<1> DEFINE a == FlatTo(text, i - 1)
           u == <<NL>>
<1>7. PICK t \in Content : Flat(text) = a \o t /\ Flat(s) = FlatTo(s, i) \o t
  BY <1>6 DEF OneMore
<1>8. a \in Content /\ Len(a) \in Nat /\ u \in Content /\ Len(u) = 1 BY <1>2, FlatToType, Together
<1>9. FlatTo(s, i) = a \o u
  <2>1. FlatTo(s, i) = a \o r \o u BY <1>6 DEF OneMore
  <2> HIDE DEF a, u
  <2>2. a \o r = a BY <1>8, Together DEF r
  <2> QED BY <2>1, <2>2
<1>10. PlaceOf(text, cursor) = Len(a) BY <1>2, <1>8 DEF PlaceOf
<1>11. PlaceOf(text', cursor') = Len(a) + 1
  <2>1. PlaceOf(s, c) = Len(a \o u) + 0 BY <1>5, <1>9 DEF PlaceOf
  <2> HIDE DEF a, u
  <2>2. Len(a \o u) = Len(a) + Len(u) BY <1>8, Glued, Zenon
  <2> QED BY <1>1, <1>4, <1>8, <2>1, <2>2
<1>12. Flat(text') = (a \o <<NL>> \o t) \o <<>>
  <2> HIDE DEF a, u
  <2> DEFINE d == a \o u
  <2>1. d \in Content BY <1>8, Glued
  <2> HIDE DEF d
  <2>2. d \o t \in Content BY <2>1, Glued
  <2>3. (d \o t) \o <<>> = d \o t BY <2>2, Together
  <2> QED BY <1>1, <1>7, <1>9, <2>3 DEF d, u
<1>13. Inserts(a, t, NL, <<>>)
  <2> HIDE DEF a, c
  <2> QED BY <1>1, <1>4, <1>7, <1>10, <1>11, <1>12 DEF Inserts
<1>14. NL \in Characters /\ <<>> \in Content BY Together DEF Characters
<1> HIDE DEF a
<1> QED BY <1>8, <1>13, <1>14, InsertMaps

\* A row is split.
LEMMA NewLineInside ==
  ASSUME CursorInText, NewLine, cursor.cx # 0 PROVE Abstract!Insert
<1> DEFINE i == cursor.cy + 1
           x == SubSeq(text[i], 1, cursor.cx)
           y == SubSeq(text[i], cursor.cx + 1, Len(text[i]))
           rows == InsertRow(text, i + 1, y)
           s == UpdateRow(rows, i, x)
           c == At(cursor.cy + 1, 0)
<1>1. /\ mode = "edit" /\ text' = s /\ dirty' = TRUE /\ KeyDone(c) /\ file' = file
  BY DEF NewLine
<1>2. /\ text \in Texts /\ Len(text) \in Nat /\ i \in 1..Len(text) /\ i - 1 = cursor.cy
      /\ cursor.cx \in 0..Len(text[i])  /\ text[i] \in Seq(Characters) /\ i \in Nat
      /\ i + 1 \in 1..(Len(text) + 1) /\ i - 1 \in 0..Len(text) /\ i \in 0..Len(text)
  <2>1. /\ text \in Texts /\ Len(text) \in Nat /\ cursor.cy \in Nat /\ cursor.cx \in Nat
        /\ cursor.cy <= Len(text) /\ cursor.cx <= RowLen(text, cursor.cy)
    BY <1>1, Facts
  <2>2. cursor.cy < Len(text) BY <2>1 DEF RowLen
  <2>3. RowLen(text, cursor.cy) = Len(text[i]) BY <2>2 DEF RowLen
  <2>4. i \in 1..Len(text) /\ text[i] \in Seq(Characters) BY <2>1, <2>2 DEF Texts
  <2> QED BY <2>1, <2>3, <2>4
<1>3. x \in Content /\ Len(x) = cursor.cx /\ y \in Content /\ text[i] = x \o y
  BY <1>2, CutAt DEF Content
<1>4. cursor' = c /\ quits' = QuitTimes /\ mode' = mode BY <1>1, DonePoint
<1>5. c.cy = i /\ c.cx = 0 BY DEF At
<1> HIDE DEF i, x, y, c
<1> DEFINE j == i + 1
<1>6. j \in 1..(Len(text) + 1) /\ j - 1 = i /\ j \in Nat /\ j # i BY <1>2
<1> HIDE DEF j
<1> DEFINE q == InsertRow(text, j, y)
<1>7. OneMore(text, j, y, q) /\ rows = q
  <2>1. rows = q BY DEF j
  <2> HIDE DEF q, rows
  <2>2. OneMore(text, j, y, InsertRow(text, j, y)) BY <1>2, <1>3, <1>6, RowInserted
  <2> QED BY <2>1, <2>2 DEF q
<1> HIDE DEF q, rows
<1>8. /\ q \in Texts /\ Len(q) = Len(text) + 1 /\ q[j] = y
      /\ \A k \in 1..i : q[k] = text[k]
  BY <1>2, <1>6, <1>7 DEF OneMore
<1>9. /\ s \in Texts /\ Len(s) = Len(q) /\ s[i] = x /\ \A k \in 1..Len(q) : k # i => s[k] = q[k]
  <2>1. i \in 1..Len(q) /\ x \in Seq(Characters) BY <1>2, <1>3, <1>8 DEF Content
  <2> HIDE DEF q, rows
  <2>2. IsUpdated(rows, i, x, s) BY <1>7, <1>8, <2>1, RowUpdated
  <2> HIDE DEF s
  <2> QED BY <1>7, <2>2 DEF IsUpdated
<1> HIDE DEF s
<1> DEFINE f == FlatTo(text, i - 1)
           a == f \o x
           u == <<NL>>
<1>10. FlatTo(s, i - 1) = f
  <2> DEFINE k == i - 1
  <2>1. k \in 0..Len(text) /\ k <= Len(s) /\ \A n \in 1..k : text[n] = s[n]
    BY <1>2, <1>8, <1>9
  <2> HIDE DEF k
  <2>2. FlatTo(text, k) = FlatTo(s, k) BY <1>2, <1>9, <2>1, FlatToSame
  <2> QED BY <2>2 DEF k
<1>11. FlatTo(s, i) = a \o u
  <2>1. i \in 1..Len(s) BY <1>2, <1>8, <1>9
  <2>2. FlatTo(s, i) = FlatTo(s, i - 1) \o s[i] \o <<NL>> BY <1>9, <2>1, FlatStep
  <2> QED BY <1>9, <1>10, <2>2
<1>12. PICK t \in Content : Flat(text) = FlatTo(text, i) \o t /\ Flat(s) = FlatTo(s, j) \o t
  <2>1. \A k \in 1..(Len(text) - i) : text[i + k] = s[j + k]
    <3> SUFFICES ASSUME NEW k \in 1..(Len(text) - i) PROVE text[i + k] = s[j + k] OBVIOUS
    <3>1. j + k \in 1..(Len(text) + 1) /\ ~ (j + k < j) /\ j + k # j /\ (j + k) - 1 = i + k
          /\ j + k # i
      BY <1>2, <1>6
    <3>2. q[j + k] = text[(j + k) - 1] BY <1>7, <3>1 DEF OneMore
    <3>3. s[j + k] = q[j + k] BY <1>8, <1>9, <3>1
    <3> QED BY <3>1, <3>2, <3>3
  <2>2. i \in 0..Len(text) /\ j \in 0..Len(s) /\ Len(text) - i = Len(s) - j
    BY <1>2, <1>6, <1>8, <1>9
  <2> QED BY <1>2, <1>9, <2>1, <2>2, FlatApart
<1> DEFINE b == y \o (u \o t)
<1>13. Cut(Flat(text), a, b)
  <2>1. Parted(text, i, x, y, t) BY <1>3, <1>12 DEF Parted
  <2> QED BY <1>2, <1>3, <2>1, RowParts
<1>14. Cut(Flat(s), FlatTo(s, i) \o <<>>, b)
  <2> DEFINE e == <<>>
  <2>1. e \in Content /\ y = e \o y BY <1>3, Together
  <2>2. s[j] = y /\ j \in 1..Len(s) BY <1>2, <1>6, <1>8, <1>9
  <2> HIDE DEF e
  <2>3. Parted(s, j, e, y, t) BY <1>12, <2>1, <2>2 DEF Parted
  <2>4. Cut(Flat(s), FlatTo(s, j - 1) \o e, b) BY <1>3, <1>9, <2>1, <2>2, <2>3, RowParts
  <2> QED BY <1>6, <2>4 DEF e
<1>15. f \in Content /\ Len(f) \in Nat /\ u \in Content /\ Len(u) = 1
  BY <1>2, FlatToType, Together
<1>16. a \in Content /\ Len(a) = Len(f) + Len(x) /\ a \o u \in Content /\ Len(a \o u) = Len(a) + Len(u)
  <2> HIDE DEF f, u
  <2>1. a \in Content /\ Len(a) = Len(f) + Len(x) BY <1>3, <1>15, Glued, Zenon
  <2> HIDE DEF a
  <2>2. a \o u \in Content /\ Len(a \o u) = Len(a) + Len(u) BY <1>15, <2>1, Glued, Zenon
  <2> QED BY <2>1, <2>2
<1> HIDE DEF a, u, b
<1>17. (a \o u) \o <<>> = a \o u BY <1>16, Together
<1>18. /\ b \in Content /\ Flat(text) = a \o b /\ Flat(s) = (a \o u) \o b BY <1>11, <1>13, <1>14, <1>17 DEF Cut
<1>19. Flat(text') = (a \o <<NL>> \o b) \o <<>>
  <2> DEFINE d == a \o u
  <2>1. d \in Content BY <1>16
  <2> HIDE DEF d
  <2>2. d \o b \in Content BY <1>18, <2>1, Glued
  <2>3. (d \o b) \o <<>> = d \o b BY <2>2, Together
  <2> QED BY <1>1, <1>18, <2>3 DEF d, u
<1>20. PlaceOf(text, cursor) = Len(a) BY <1>2, <1>3, <1>16 DEF PlaceOf
<1>21. PlaceOf(text', cursor') = Len(a) + 1
  <2>1. PlaceOf(s, c) = Len(a \o u) + 0 BY <1>5, <1>11 DEF PlaceOf
  <2>2. Len(a) \in Nat BY <1>16, LenProperties DEF Content
  <2> QED BY <1>1, <1>4, <1>15, <1>16, <2>1, <2>2
<1>22. Inserts(a, b, NL, <<>>)
  BY <1>1, <1>4, <1>18, <1>19, <1>20, <1>21 DEF Inserts
<1>23. NL \in Characters /\ <<>> \in Content BY Together DEF Characters
<1> QED BY <1>16, <1>18, <1>22, <1>23, InsertMaps

\* The character x between a and b is taken out
Erases(a, b, x) ==
  /\ mode = "edit" /\ UNCHANGED <<mode, file>> /\ dirty' = TRUE /\ quits' = QuitTimes
  /\ Len(b) > 0
  /\ Flat(text) = a \o (<<x>> \o b) /\ Flat(text') = a \o b
  /\ PlaceOf(text, cursor) \in {Len(a), Len(a) + 1} /\ PlaceOf(text', cursor') = Len(a)

\* A character is erased between a and b.
LEMMA EraseMaps ==
  ASSUME NEW a \in Content, NEW b \in Content, NEW x \in Characters, Erases(a, b, x)
  PROVE  Abstract!Erase
<1> DEFINE p == Len(a) + 1
           g == Flat(text)
           u == <<x>>
<1>1. u \in Content /\ Len(u) = 1 BY DEF Content
<1>2. g = a \o (u \o b) /\ Flat(text') = a \o b /\ Len(b) > 0 BY DEF Erases
<1>3. RemoveAt(a \o (u \o b), p) = a \o b BY RemoveBetween
<1>4. PointOf(cursor) \in {Len(a), Len(a) + 1} /\ PointOf(cursor)' = Len(a)
  BY DEF Erases, PointOf, PlaceOf, FlatTo
<1> HIDE DEF u
<1>5. Len(g) = Len(a) + (1 + Len(b)) /\ Len(a) \in Nat /\ Len(b) \in Nat
  <2> DEFINE v == u \o b
  <2>1. v \in Content /\ Len(v) = Len(u) + Len(b) /\ Len(b) \in Nat BY <1>1, Glued, Zenon
  <2> HIDE DEF v
  <2>2. Len(a \o v) = Len(a) + Len(v) /\ Len(a) \in Nat BY <2>1, Glued, Zenon
  <2> QED BY <1>1, <1>2, <2>1, <2>2 DEF v
<1>6. Flat(text') = RemoveAt(g, p) BY <1>2, <1>3
<1> HIDE DEF g
<1>7. p \in {PointOf(cursor), PointOf(cursor) + 1} \cap 1..(Len(g) - 1)
  BY <1>2, <1>4, <1>5
<1>8. PointOf(cursor)' = p - 1 BY <1>4, <1>5
<1>9. Flat(text') = Abstract!RemoveAt(g, p) BY <1>6, AlikeAt
<1>10. /\ mode = "edit" /\ UNCHANGED <<mode, file.data>> /\ dirty' = TRUE
       /\ (QuitTimes - quits)' = 0
  BY QuitAssumption DEF Erases
<1> HIDE DEF p
<1> QED BY <1>7, <1>8, <1>9, <1>10, Zenon DEF Abstract!Erase, g

\* Only the point moves.
LEMMA MoveMaps ==
  ASSUME mode = "edit", text' = text, text \in Texts, dirty' = dirty, file' = file,
         NEW c \in Cursors, KeyDone(c), InRows(text, c)
  PROVE  Abstract!Move
<1>1. cursor' = c /\ quits' = QuitTimes /\ mode' = mode BY DonePoint
<1>2. PointOf(cursor)' = PlaceOf(text, c) BY <1>1 DEF PointOf, PlaceOf, FlatTo
<1>3. PlaceOf(text, c) \in 0..Len(Flat(text)) BY PlaceIn
<1>4. (QuitTimes - quits)' = 0 BY <1>1, QuitAssumption
<1>5. Flat(text)' = Flat(text) /\ (file.data)' = file.data OBVIOUS
<1>6. mode = "edit" /\ mode' = mode /\ dirty' = dirty BY <1>1
<1>7. PointOf(cursor)' \in 0..Len(Flat(text)) BY <1>2, <1>3
<1> QED BY <1>4, <1>5, <1>6, <1>7, Zenon DEF Abstract!Move

\* To the right the point passes one character, unless it is at the end.
LEMMA RightPasses ==
  ASSUME NEW rows \in Texts, NEW c \in Cursors, InRows(rows, c)
  PROVE  \/ Moved(rows, c, "right") = c
         \/ PlaceOf(rows, Moved(rows, c, "right")) = PlaceOf(rows, c) + 1
<1> DEFINE d == Moved(rows, c, "right")
           i == c.cy + 1
<1>0. /\ Len(rows) \in Nat /\ c.cy \in Nat /\ c.cx \in Nat /\ c.cy <= Len(rows)
      /\ c.cx <= RowLen(rows, c.cy) /\ c = At(c.cy, c.cx) /\ RowLen(rows, c.cy) \in Nat
  BY RowLenType DEF Texts, Cursors, InRows, At
<1>1. CASE c.cx < RowLen(rows, c.cy)
  <2> DEFINE e == At(c.cy, c.cx + 1)
  <2>1. d = Snapped(rows, e) BY <1>0, <1>1 DEF Moved
  <2>2. e.cx = c.cx + 1 /\ e.cy = c.cy BY DEF At
  <2>3. Snapped(rows, e) = e BY <1>0, <1>1, <2>2 DEF Snapped
  <2>4. i - 1 \in 0..Len(rows) /\ i - 1 = c.cy BY <1>0
  <2> HIDE DEF i
  <2>5. Len(FlatTo(rows, c.cy)) \in Nat BY <2>4, FlatToType
  <2> HIDE DEF e, d
  <2>6. PlaceOf(rows, d) = PlaceOf(rows, c) + 1 BY <1>0, <2>1, <2>2, <2>3, <2>5 DEF PlaceOf
  <2> QED BY <2>6 DEF d
<1>2. CASE c.cx = RowLen(rows, c.cy) /\ c.cy < Len(rows)
  <2> DEFINE e == At(c.cy + 1, 0)
  <2>1. d = Snapped(rows, e) BY <1>0, <1>2 DEF Moved
  <2>2. e.cx = 0 /\ e.cy = i BY DEF At
  <2>3. /\ i \in 1..Len(rows) /\ i - 1 \in 0..Len(rows) /\ i - 1 = c.cy /\ i \in Nat
        /\ RowLen(rows, c.cy) = Len(rows[i])
    BY <1>0, <1>2 DEF RowLen
  <2> HIDE DEF i
  <2>4. RowLen(rows, i) \in Nat BY <2>3, RowLenType
  <2>5. Snapped(rows, e) = e BY <2>2, <2>4 DEF Snapped
  <2> HIDE DEF e, d
  <2> DEFINE f == FlatTo(rows, i - 1)
             r == rows[i]
             u == <<NL>>
  <2>6. FlatTo(rows, i) = f \o r \o u BY <2>3, FlatStep
  <2>7. f \in Content /\ r \in Content /\ u \in Content /\ Len(u) = 1 /\ Len(f) \in Nat
    BY <2>3, FlatToType, Together DEF Texts, Content
  <2>8. Len(FlatTo(rows, i)) = (Len(f) + Len(r)) + 1 /\ Len(r) \in Nat
    <3> HIDE DEF f, r, u
    <3> DEFINE a == f \o r
    <3>1. a \in Content /\ Len(a) = Len(f) + Len(r) /\ Len(r) \in Nat BY <2>7, Glued, Zenon
    <3> HIDE DEF a
    <3>2. Len(a \o u) = Len(a) + Len(u) BY <2>7, <3>1, Glued, Zenon
    <3> QED BY <2>6, <2>7, <3>1, <3>2 DEF a
  <2>9. PlaceOf(rows, c) = Len(f) + Len(r) BY <1>2, <2>3 DEF PlaceOf
  <2>10. PlaceOf(rows, d) = Len(FlatTo(rows, i)) + 0 BY <2>1, <2>2, <2>5 DEF PlaceOf
  <2>11. PlaceOf(rows, d) = PlaceOf(rows, c) + 1 BY <2>7, <2>8, <2>9, <2>10
  <2> QED BY <2>11 DEF d
<1>3. CASE ~ (c.cx < RowLen(rows, c.cy)) /\ ~ (c.cy < Len(rows))
  <2>1. d = Snapped(rows, c) BY <1>3 DEF Moved
  <2>2. Snapped(rows, c) = c BY <1>0 DEF Snapped
  <2> QED BY <2>1, <2>2
<1> QED BY <1>0, <1>1, <1>2, <1>3

\* The cursor c is where the erasing is done: at the point, or one to the right
Reached(c) ==
  /\ c \in Cursors /\ InRows(text, c)
  /\ PlaceOf(text, c) \in {PlaceOf(text, cursor), PlaceOf(text, cursor) + 1}

\* A character is erased in its row.
LEMMA ErasedInside ==
  ASSUME CursorInText, mode = "edit", NEW c, Reached(c), DelChar(c), file' = file,
         c.cy # Len(text), c.cx > 0
  PROVE  Abstract!Erase
<1> DEFINE i == c.cy + 1
           m == c.cx - 1
           s == RemoveAt(text[i], c.cx)
           d == At(c.cy, c.cx - 1)
<1>1. text' = UpdateRow(text, i, s) /\ dirty' = TRUE /\ KeyDone(d) BY DEF DelChar
<1>2. /\ text \in Texts /\ Len(text) \in Nat /\ i \in 1..Len(text) /\ i - 1 = c.cy
      /\ text[i] \in Seq(Characters) /\ i \in Nat /\ i - 1 \in 0..Len(text)
      /\ c.cx \in 1..Len(text[i]) /\ m \in 0..Len(text[i]) /\ m \in Nat /\ m + 1 = c.cx
  <2>1. /\ text \in Texts /\ Len(text) \in Nat /\ c.cy \in Nat /\ c.cx \in Nat
        /\ c.cy <= Len(text) /\ c.cx <= RowLen(text, c.cy)
    BY Facts DEF Reached, Cursors, InRows
  <2>2. c.cy < Len(text) BY <2>1
  <2>3. RowLen(text, c.cy) = Len(text[i]) BY <2>2 DEF RowLen
  <2>4. i \in 1..Len(text) /\ text[i] \in Seq(Characters) BY <2>1, <2>2 DEF Texts
  <2> QED BY <2>1, <2>3, <2>4
<1> HIDE DEF i, m
<1> DEFINE r == text[i]
           x == SubSeq(r, 1, m)
           v == SubSeq(r, m + 1, Len(r))
<1>3. x \in Content /\ Len(x) = m /\ v \in Content /\ r = x \o v
  BY <1>2, CutAt DEF Content
<1>4. Len(v) = Len(r) - m BY <1>2
<1> HIDE DEF r, x, v
<1> DEFINE ch == v[1]
           u == <<ch>>
           y == SubSeq(v, 2, Len(v))
<1>5. ch \in Characters /\ u \in Content /\ y \in Content /\ v = u \o y /\ Len(u) = 1
  <2>1. v \in Seq(Characters) /\ 1 \in 0..Len(v) /\ 1 \in 1..Len(v)
    <3>1. Len(v) >= 1 BY <1>2, <1>4 DEF r
    <3> QED BY <1>3, <3>1 DEF Content
  <2>2. ch \in Characters BY <2>1
  <2>3. /\ SubSeq(v, 1, 1) \in Seq(Characters) /\ SubSeq(v, 1 + 1, Len(v)) \in Seq(Characters)
        /\ v = SubSeq(v, 1, 1) \o SubSeq(v, 1 + 1, Len(v))
    BY <2>1, CutAt
  <2>4. SubSeq(v, 1, 1) = u
    <3> DEFINE w == SubSeq(v, 1, 1)
    <3>1. w \in Seq(Characters) /\ Len(w) = 1 /\ w[1] = v[1] BY <2>1
    <3> HIDE DEF w
    <3>2. w = <<v[1]>> BY <3>1
    <3> QED BY <3>2 DEF w
  <2>5. 1 + 1 = 2 OBVIOUS
  <2>6. u \in Content /\ Len(u) = 1 BY <2>2 DEF Content
  <2>7. y \in Content /\ v = u \o y BY <2>3, <2>4, <2>5 DEF Content
  <2> QED BY <2>2, <2>6, <2>7
<1> HIDE DEF ch, u, y
<1> DEFINE z == x \o u
<1>6. z \in Content /\ r = z \o y
  <2>1. z \in Content BY <1>3, <1>5, Glued
  <2>2. x \o (u \o y) = z \o y BY <1>3, <1>5, GluedAlike
  <2> QED BY <1>3, <1>5, <2>1, <2>2
<1>7. s = x \o y
  <2>1. RemoveAt(x \o (<<ch>> \o y), Len(x) + 1) = x \o y BY <1>3, <1>5, RemoveBetween
  <2> QED BY <1>2, <1>3, <1>5, <2>1 DEF u, r
<1>8. s \in Content BY <1>3, <1>5, <1>7, Glued
<1> HIDE DEF s, z
<1> DEFINE f == FlatTo(text, i - 1)
           a == f \o x
<1>9. PICK b \in Content :
           /\ Cut(Flat(text), f \o z, b)
           /\ s = x \o y => Cut(Flat(UpdateRow(text, i, s)), a, b)
  <2>1. text[i] = z \o y BY <1>6 DEF r
  <2> QED BY <1>2, <1>3, <1>5, <1>6, <1>8, <2>1, RowChanges
<1>10. f \in Content /\ Len(f) \in Nat BY <1>2, FlatToType
<1>11. FlatTo(text', i - 1) = f
  <2> DEFINE k == i - 1
             w == UpdateRow(text, i, s)
  <2>1. /\ w \in Texts /\ Len(w) = Len(text)
        /\ \A j \in 1..Len(text) : j # i => w[j] = text[j]
    BY <1>2, <1>8, UpdateRowType DEF Content
  <2>2. k \in 0..Len(text) /\ k <= Len(w) /\ \A j \in 1..k : text[j] = w[j]
    BY <1>2, <2>1
  <2> HIDE DEF k, w
  <2>3. FlatTo(text, k) = FlatTo(w, k) BY <1>2, <2>1, <2>2, FlatToSame
  <2> QED BY <1>1, <2>3 DEF k, w, i
<1>12. cursor' = d /\ quits' = QuitTimes /\ mode' = mode BY <1>1, DonePoint
<1>13. d.cy = i - 1 /\ d.cx = m BY <1>2 DEF At, m
<1>14. /\ PlaceOf(text, c) = Len(f) + (m + 1) /\ PlaceOf(text', cursor') = Len(f) + m
  BY <1>2, <1>11, <1>12, <1>13 DEF PlaceOf
<1> HIDE DEF f, d
<1>15. a \in Content /\ Len(a) = Len(f) + m BY <1>3, <1>10, Glued, Zenon
<1> DEFINE g == u \o b
<1>16. f \o z = a \o u
  <2>1. f \in Content /\ x \in Content /\ u \in Content BY <1>3, <1>5, <1>10
  <2>2. (f \o x) \o u = f \o (x \o u) BY <2>1, GluedAlike, Zenon
  <2> QED BY <2>2 DEF z
<1> HIDE DEF a
<1>17. (a \o u) \o b = a \o g BY <1>5, <1>15, GluedAlike
<1>18. /\ Len(b) > 0 /\ Flat(text) = a \o (<<ch>> \o b) /\ Flat(text') = a \o b
  BY <1>1, <1>7, <1>9, <1>16, <1>17 DEF Cut, u, i
<1>19. PlaceOf(text, cursor) \in {Len(a), Len(a) + 1} /\ PlaceOf(text', cursor') = Len(a)
  <2>1. PlaceOf(text, c) = Len(a) + 1 /\ Len(a) \in Nat BY <1>2, <1>10, <1>14, <1>15
  <2>2. PlaceOf(text, cursor) \in Nat
    <3>1. cursor \in Cursors /\ InRows(text, cursor) BY Facts
    <3>2. PlaceOf(text, cursor) \in 0..Len(Flat(text)) BY <1>2, <3>1, PlaceIn
    <3> QED BY <3>2
  <2> QED BY <1>14, <1>15, <2>1, <2>2 DEF Reached
<1>20. Erases(a, b, ch) BY <1>1, <1>12, <1>18, <1>19 DEF Erases
<1> QED BY <1>5, <1>15, <1>20, EraseMaps

\* A row goes to the end of the one above it.
LEMMA Joins ==
  ASSUME CursorInText, mode = "edit", NEW c, Reached(c), DelChar(c), file' = file,
         c.cy # Len(text), c.cx = 0, c.cy # 0
  PROVE  Abstract!Erase
<1> DEFINE i == c.cy + 1
           h == i - 1
           x == text[h]
           y == text[i]
           s == x \o y
           w == UpdateRow(text, h, s)
           q == RemoveAt(w, i)
           d == At(c.cy - 1, RowLen(text, c.cy - 1))
<1>1. text' = q /\ dirty' = TRUE /\ KeyDone(d) BY DEF DelChar, DelRow
<1>2. /\ text \in Texts /\ Len(text) \in Nat /\ i \in 1..Len(text) /\ h = c.cy /\ i \in Nat
      /\ h \in 1..Len(text) /\ h \in Nat /\ h # i /\ h - 1 \in 0..Len(text) /\ i \in 0..Len(text)
      /\ h \in 0..Len(text) /\ h + 1 = i /\ h - 1 \in Nat
      /\ x \in Content /\ y \in Content /\ RowLen(text, c.cy - 1) = Len(x)
  <2>1. /\ text \in Texts /\ Len(text) \in Nat /\ c.cy \in Nat /\ c.cy <= Len(text)
    BY Facts DEF Reached, Cursors, InRows
  <2>2. c.cy < Len(text) /\ c.cy > 0 /\ (c.cy - 1) + 1 = h /\ c.cy - 1 < Len(text) BY <2>1
  <2>3. RowLen(text, c.cy - 1) = Len(x) BY <2>2 DEF RowLen
  <2>4. h \in 1..Len(text) /\ i \in 1..Len(text) BY <2>1, <2>2
  <2>5. x \in Content /\ y \in Content BY <2>1, <2>4 DEF Texts, Content
  <2> QED BY <2>1, <2>2, <2>3, <2>4, <2>5
<1>3. d.cy = h - 1 /\ d.cx = Len(x) BY <1>2 DEF At
<1> HIDE DEF h, i, x, y, d
<1>25. Len(text) \in Nat /\ h \in Nat /\ h >= 1 /\ i = h + 1 /\ i <= Len(text) BY <1>2
<1>4. s \in Content BY <1>2, Glued
<1>5. /\ w \in Texts /\ Len(w) = Len(text) /\ w[h] = s
      /\ \A j \in 1..Len(text) : j # h => w[j] = text[j]
  <2>1. s \in Seq(Characters) BY <1>4 DEF Content
  <2>2. text \in Texts /\ h \in 1..Len(text) BY <1>2
  <2> HIDE DEF s
  <2>3. IsUpdated(text, h, s, w) BY <2>1, <2>2, RowUpdated
  <2> HIDE DEF w
  <2> QED BY <2>3 DEF IsUpdated
<1> HIDE DEF w, s
<1>6. /\ q \in Texts /\ Len(q) = Len(text) - 1
      /\ \A k \in 1..(Len(text) - 1) : q[k] = IF k < i THEN w[k] ELSE w[k + 1]
  <2> DEFINE S == Seq(Characters)
  <2>1. w \in Seq(S) /\ i \in 1..Len(w) BY <1>2, <1>5 DEF Texts
  <2> HIDE DEF S
  <2>2. IsRemoved(S, w, i, q) BY <2>1, RemovedAt
  <2> HIDE DEF q
  <2> QED BY <1>5, <2>2 DEF S, Texts, IsRemoved
<1> HIDE DEF q
<1>7. q[h] = s /\ \A k \in 1..(h - 1) : q[k] = text[k]
  <2>1. q[h] = s BY <1>2, <1>5, <1>6
  <2>2. ASSUME NEW k \in 1..(h - 1) PROVE q[k] = text[k]
    <3>1. k \in 1..(Len(text) - 1) /\ k < i /\ k \in 1..Len(text) /\ k # h BY <1>2
    <3>2. q[k] = w[k] BY <1>6, <3>1
    <3>3. w[k] = text[k] BY <1>5, <3>1
    <3> QED BY <3>2, <3>3
  <2> QED BY <2>1, <2>2
<1>8. /\ h \in 0..Len(q) /\ h \in 1..Len(q) /\ Len(text) - i = Len(q) - h BY <1>25, <1>6
<1>9. PICK t \in Content : Flat(text) = FlatTo(text, i) \o t /\ Flat(q) = FlatTo(q, h) \o t
  <2>1. \A k \in 1..(Len(text) - i) : text[i + k] = q[h + k]
    <3> SUFFICES ASSUME NEW k \in 1..(Len(text) - i) PROVE text[i + k] = q[h + k] OBVIOUS
    <3>1. h + k \in 1..(Len(text) - 1) /\ ~ (h + k < i) /\ (h + k) + 1 = i + k
          /\ i + k \in 1..Len(text) /\ i + k # h
      BY <1>25
    <3>2. q[h + k] = w[(h + k) + 1] BY <1>6, <3>1
    <3>3. w[i + k] = text[i + k] BY <1>5, <3>1
    <3> QED BY <3>1, <3>2, <3>3
  <2> QED BY <1>2, <1>6, <1>8, <2>1, FlatApart
<1> DEFINE f == FlatTo(text, h - 1)
           u == <<NL>>
           b == y \o (u \o t)
           a == f \o x
<1>10. FlatTo(q, h - 1) = f
  <2> DEFINE k == h - 1
  <2>1. k \in 0..Len(text) /\ k <= Len(q) /\ \A n \in 1..k : text[n] = q[n]
    BY <1>2, <1>6, <1>7
  <2> HIDE DEF k
  <2>2. FlatTo(text, k) = FlatTo(q, k) BY <1>2, <1>6, <2>1, FlatToSame
  <2> QED BY <2>2 DEF k
<1>11. FlatTo(text, h) = a \o u
  <2>1. FlatTo(text, h) = FlatTo(text, h - 1) \o text[h] \o <<NL>> BY <1>2, FlatStep
  <2> QED BY <2>1 DEF x
<1>12. Cut(Flat(q), a, b)
  <2>1. Parted(q, h, x, y, t) BY <1>7, <1>9 DEF Parted, s
  <2> QED BY <1>2, <1>6, <1>8, <1>10, <2>1, RowParts
<1>13. Cut(Flat(text), FlatTo(text, h) \o <<>>, b)
  <2> DEFINE e == <<>>
  <2>1. e \in Content /\ y = e \o y BY <1>2, Together
  <2> HIDE DEF e
  <2>2. Parted(text, i, e, y, t) BY <1>9, <2>1 DEF Parted, y
  <2>3. Cut(Flat(text), FlatTo(text, i - 1) \o e, b) BY <1>2, <2>1, <2>2, RowParts
  <2> QED BY <2>3 DEF e, h
<1>14. f \in Content /\ Len(f) \in Nat /\ u \in Content /\ Len(u) = 1
  BY <1>2, FlatToType, Together
<1>15. NL \in Characters BY DEF Characters
<1> HIDE DEF f, b
<1>16. a \in Content /\ Len(a) = Len(f) + Len(x) /\ a \o u \in Content /\ Len(a \o u) = Len(a) + Len(u)
       /\ Len(a) \in Nat
  <2> HIDE DEF u
  <2>1. a \in Content /\ Len(a) = Len(f) + Len(x) BY <1>2, <1>14, Glued, Zenon
  <2> HIDE DEF a
  <2>2. a \o u \in Content /\ Len(a \o u) = Len(a) + Len(u) /\ Len(a) \in Nat
    BY <1>14, <2>1, Glued, Zenon
  <2> QED BY <2>1, <2>2
<1>17. PlaceOf(text', cursor') = Len(a)
  <2>1. cursor' = d BY <1>1, DonePoint
  <2>2. PlaceOf(q, d) = Len(f) + Len(x) BY <1>3, <1>10 DEF PlaceOf
  <2> HIDE DEF a
  <2> QED BY <1>1, <1>16, <2>1, <2>2
<1>18. PlaceOf(text, c) = Len(a) + 1
  <2>1. PlaceOf(text, c) = Len(a \o u) + 0 BY <1>2, <1>11 DEF PlaceOf
  <2> QED BY <1>14, <1>16, <2>1
<1> HIDE DEF a, u
<1>19. (a \o u) \o <<>> = a \o u BY <1>16, Together
<1>20. /\ b \in Content /\ Len(b) > 0 /\ Flat(text') = a \o b /\ Flat(text) = (a \o u) \o b
  BY <1>1, <1>11, <1>12, <1>13, <1>19 DEF Cut
<1>21. Flat(text) = a \o (<<NL>> \o b)
  <2>1. a \in Content /\ u \in Content /\ b \in Content BY <1>14, <1>16, <1>20
  <2>2. (a \o u) \o b = a \o (u \o b) BY <2>1, GluedAlike, Zenon
  <2> QED BY <1>20, <2>2 DEF u
<1>22. PlaceOf(text, cursor) \in {Len(a), Len(a) + 1}
  <2>1. cursor \in Cursors /\ InRows(text, cursor) BY Facts
  <2>2. PlaceOf(text, cursor) \in 0..Len(Flat(text)) BY <1>2, <2>1, PlaceIn
  <2> QED BY <1>16, <1>18, <2>2 DEF Reached
<1>23. quits' = QuitTimes /\ mode' = mode BY <1>1, DonePoint
<1>24. Erases(a, b, NL) BY <1>1, <1>17, <1>20, <1>21, <1>22, <1>23 DEF Erases
<1> QED BY <1>15, <1>16, <1>20, <1>24, EraseMaps

\* BACKSPACE and DEL erase a character or do nothing.
LEMMA EraseKeyMaps ==
  ASSUME CursorInText, NEW key, Erase(key) PROVE Abstract!Erase \/ Abstract!Move
<1> DEFINE c == IF key = "del" THEN Moved(text, cursor, "right") ELSE cursor
<1>1. mode = "edit" /\ DelChar(c) /\ file' = file BY DEF Erase
<1>2. text \in Texts /\ cursor \in Cursors /\ InRows(text, cursor) /\ cursor.cy <= Len(text)
  BY <1>1, Facts
<1>3. Reached(c)
  <2>1. CASE key = "del"
    <3> DEFINE d == Moved(text, cursor, "right")
    <3>1. d \in Cursors /\ InRows(text, d) BY <1>2, MovedIn
    <3>2. d = cursor \/ PlaceOf(text, d) = PlaceOf(text, cursor) + 1 BY <1>2, RightPasses
    <3>3. c = d BY <2>1
    <3> HIDE DEF d, c
    <3> QED BY <3>1, <3>2, <3>3 DEF Reached
  <2>2. CASE key # "del" BY <1>2, <2>2 DEF Reached
  <2> QED BY <2>1, <2>2
<1> HIDE DEF c
<1>4. c \in Cursors /\ InRows(text, c) /\ c.cy \in Nat /\ c.cx \in Nat BY <1>3 DEF Reached, Cursors
<1>5. CASE c.cy = Len(text) \/ (c.cx = 0 /\ c.cy = 0)
  <2>1. KeyDone(c) /\ UNCHANGED <<text, look, dirty>> BY <1>1, <1>5 DEF DelChar
  <2> QED BY <1>1, <1>2, <1>4, <2>1, MoveMaps
<1>6. CASE c.cy # Len(text) /\ c.cx > 0 BY <1>1, <1>3, <1>6, ErasedInside
<1>7. CASE c.cy # Len(text) /\ c.cx = 0 /\ c.cy # 0 BY <1>1, <1>3, <1>7, Joins
<1> QED BY <1>4, <1>5, <1>6, <1>7

\* The text of the rows, without the newline of the last one
Body(rows) == FlatTo(rows, Len(rows) - 1) \o rows[Len(rows)]

\* A character goes to the end of the rows.
LEMMA LineGrows ==
  ASSUME NEW rows \in Texts, Len(rows) >= 1, NEW ch \in Characters
  PROVE  Body(rows) \in Content /\ Body(LineOf(rows, ch)) = Body(rows) \o <<ch>>
<1> DEFINE n == Len(rows)
           m == n - 1
           f == FlatTo(rows, m)
           r == rows[n]
           u == <<ch>>
           s == LineOf(rows, ch)
<1>1. n \in 1..Len(rows) /\ m \in 0..Len(rows) /\ n \in Nat /\ m \in Nat /\ r \in Content
  BY DEF Texts, Content
<1>2. f \in Content /\ u \in Content
  <2>1. u \in Content BY DEF Content
  <2> QED BY <1>1, <2>1, FlatToType
<1>3. s \in Texts /\ Len(s) >= 1 BY LineOfType
<1>4. FlatTo(rows, n) = f \o r \o <<NL>> BY <1>1, FlatStep
<1>5. Body(rows) = f \o r BY DEF Body
<1>6. Body(rows) \in Content BY <1>1, <1>2, <1>5, Glued
<1>7. CASE ch = NL
  <2> DEFINE e == <<>>
  <2>1. e \in Content BY Together
  <2>2. s = Append(rows, e) BY <1>7 DEF LineOf
  <2>3. Len(s) = n + 1 /\ s[n + 1] = e /\ \A i \in 1..n : s[i] = rows[i]
    <3> HIDE DEF e, s
    <3> QED BY <2>1, <2>2, AppendProperties DEF Texts, Content
  <2> HIDE DEF e, s
  <2>4. FlatTo(rows, n) = FlatTo(s, n)
    <3>1. n \in 0..Len(rows) /\ n <= Len(s) BY <1>1, <2>3
    <3> HIDE DEF n
    <3> QED BY <1>3, <2>3, <3>1, FlatToSame DEF n
  <2>5. Len(s) - 1 = n BY <1>1, <2>3
  <2>6. Body(s) = FlatTo(s, n) \o e BY <2>3, <2>5 DEF Body
  <2>7. FlatTo(s, n) \in Content
    <3>1. n \in 0..Len(s) BY <1>1, <2>3
    <3> QED BY <1>3, <3>1, FlatToType
  <2>8. FlatTo(s, n) \o e = FlatTo(s, n) BY <2>7, Together DEF e
  <2>9. Body(s) = Body(rows) \o u BY <1>4, <1>5, <1>7, <2>4, <2>6, <2>8
  <2> QED BY <1>6, <2>9 DEF s
<1>8. CASE ch # NL
  <2> DEFINE q == Append(r, ch)
  <2>1. q = r \o u /\ q \in Seq(Characters)
    <3> HIDE DEF r
    <3>1. q = r \o u BY <1>1, AppendIsConcat, Zenon DEF Content
    <3>2. q \in Seq(Characters) BY <1>1, AppendProperties, Zenon DEF Content
    <3> QED BY <3>1, <3>2
  <2>2. s = UpdateRow(rows, n, q) BY <1>8 DEF LineOf, UpdateRow
  <2> HIDE DEF q, s, n
  <2>10. IsUpdated(rows, n, q, s) BY <1>1, <2>1, <2>2, RowUpdated
  <2>3. Len(s) = Len(rows) BY <2>10 DEF IsUpdated
  <2>4. s[n] = q BY <2>10 DEF IsUpdated
  <2>5. \A j \in 1..Len(rows) : j # n => s[j] = rows[j] BY <2>10 DEF IsUpdated
  <2>6. FlatTo(rows, m) = FlatTo(s, m)
    <3>1. m <= Len(s) /\ \A i \in 1..m : rows[i] = s[i] BY <1>1, <2>3, <2>5 DEF n
    <3> HIDE DEF m
    <3> QED BY <1>1, <1>3, <3>1, FlatToSame DEF s
  <2>7. Len(s) = n BY <2>3 DEF n
  <2>8. Body(s) = FlatTo(s, m) \o q BY <2>4, <2>7 DEF Body
  <2>9. Body(s) = f \o (r \o u) BY <2>1, <2>6, <2>8
  <2> HIDE DEF f, r, u
  <2>11. (f \o r) \o u = f \o (r \o u) BY <1>1, <1>2, GluedAlike
  <2> QED BY <1>5, <1>6, <2>9, <2>11 DEF s, u
<1> QED BY <1>7, <1>8

\* What is loaded is what is in the file, and the last row gets a newline.
LEMMA FlatLines ==
  ASSUME NEW data \in Content
  PROVE  Flat(Lines(data)) = Append(data, NL)
<1> DEFINE len == Len(data)
<1>0. len \in Nat /\ \A i \in 1..len : data[i] \in Characters BY DEF Content
<1> DEFINE f == CHOOSE g : Splits(data, g, len)
<1>1. Splits(data, f, len) BY <1>0, SplitsExist
<1>2. Lines(data) = f[len] BY DEF Lines, Splits, LineOf
<1> HIDE DEF f, len
<1>3. /\ f[0] = << <<>> >>
      /\ \A n \in 1..len : f[n] = LineOf(f[n - 1], data[n])
  BY <1>0, <1>1 DEF Splits
<1> DEFINE Q(n) == f[n] \in Texts /\ Len(f[n]) >= 1 /\ Body(f[n]) = SubSeq(data, 1, n)
           T == {n \in 0..len : ~ Q(n)}
<1>4. Q(0)
  <2> DEFINE r == << <<>> >>
  <2>1. r \in Texts /\ Len(r) = 1 /\ r[1] = <<>> BY DEF Texts
  <2> HIDE DEF r
  <2>2. FlatTo(r, 0) = <<>> BY <2>1, FlatStep
  <2>3. Body(r) = <<>> \o <<>> BY <2>1, <2>2 DEF Body
  <2>4. <<>> \o <<>> = <<>> OBVIOUS
  <2>5. SubSeq(data, 1, 0) = <<>> BY SubSeqEmpty
  <2> QED BY <1>3, <2>1, <2>3, <2>4, <2>5 DEF r
<1>5. ASSUME NEW n \in 1..len, Q(n - 1) PROVE Q(n)
  <2> DEFINE g == f[n - 1]
             ch == data[n]
  <2>1. g \in Texts /\ Len(g) >= 1 /\ Body(g) = SubSeq(data, 1, n - 1) BY <1>5
  <2>2. ch \in Characters BY <1>0
  <2>3. f[n] = LineOf(g, ch) BY <1>3
  <2> HIDE DEF g, ch
  <2>4. f[n] \in Texts /\ Len(f[n]) >= 1 BY <2>1, <2>2, <2>3, LineOfType
  <2>5. Body(f[n]) = SubSeq(data, 1, n - 1) \o <<ch>> BY <2>1, <2>2, <2>3, LineGrows
  <2>6. SubSeq(data, 1, n) = SubSeq(data, 1, n - 1) \o <<ch>>
    <3> DEFINE a == SubSeq(data, 1, n - 1)
               b == SubSeq(data, 1, n)
    <3>1. /\ a \in Seq(Characters) /\ Len(a) = n - 1 /\ \A i \in 1..(n - 1) : a[i] = data[i]
          /\ b \in Seq(Characters) /\ Len(b) = n /\ \A i \in 1..n : b[i] = data[i]
      BY <1>0 DEF Content, len
    <3> HIDE DEF a, b
    <3>2. a \o <<ch>> = Append(a, ch) BY <2>2, <3>1, AppendIsConcat, Zenon
    <3> DEFINE c == Append(a, ch)
    <3>3. c \in Seq(Characters) /\ Len(c) = n /\ c[n] = ch /\ \A i \in 1..(n - 1) : c[i] = data[i]
      BY <1>0, <2>2, <3>1
    <3> HIDE DEF c
    <3>4. \A i \in 1..Len(b) : b[i] = c[i]
      <4> SUFFICES ASSUME NEW i \in 1..n PROVE b[i] = c[i] BY <3>1
      <4>1. CASE i = n BY <3>1, <3>3, <4>1 DEF ch
      <4>2. CASE i # n
        <5>1. i \in 1..(n - 1) BY <1>0, <4>2
        <5> QED BY <3>1, <3>3, <5>1
      <4> QED BY <4>1, <4>2
    <3>5. b = c BY <3>1, <3>3, <3>4, SeqEqual
    <3> QED BY <3>2, <3>5 DEF a, b, c
  <2> QED BY <2>4, <2>5, <2>6
<1>6. T = {}
  <2> SUFFICES ASSUME T # {} PROVE FALSE OBVIOUS
  <2>1. PICK m \in T : \A k \in T : m <= k
    <3>1. T \in SUBSET Nat BY <1>0
    <3> HIDE DEF T
    <3> QED BY <3>1, LeastNat
  <2>2. m \in 0..len /\ ~ Q(m) BY <2>1
  <2> HIDE DEF Q
  <2>3. m # 0 BY <1>4, <2>2
  <2>4. m \in 1..len /\ m - 1 \in 0..len /\ m - 1 \notin T
    <3> HIDE DEF T
    <3> QED BY <1>0, <2>1, <2>2, <2>3
  <2>5. Q(m - 1) BY <2>4
  <2> QED BY <1>5, <2>2, <2>4, <2>5
<1>7. Q(len)
  <2> HIDE DEF Q
  <2> QED BY <1>0, <1>6
<1> DEFINE rows == Lines(data)
<1>8. rows \in Texts /\ Len(rows) >= 1 /\ Body(rows) = data
  <2>1. SubSeq(data, 1, len) = data BY SubSeqFull DEF Content, len
  <2> QED BY <1>2, <1>7, <2>1
<1> HIDE DEF rows
<1>9. Flat(rows) = Body(rows) \o <<NL>>
  <2>1. Len(rows) \in 1..Len(rows) BY <1>8 DEF Texts
  <2>2. FlatTo(rows, Len(rows)) = Flat(rows) BY <1>8, FlatStep
  <2>3. FlatTo(rows, Len(rows)) = FlatTo(rows, Len(rows) - 1) \o rows[Len(rows)] \o <<NL>>
    BY <1>8, <2>1, FlatStep
  <2> QED BY <2>2, <2>3 DEF Body
<1>10. data \o <<NL>> = Append(data, NL)
  <2>1. NL \in Characters BY DEF Characters
  <2> HIDE DEF NL
  <2> QED BY <2>1, AppendIsConcat, Zenon DEF Content
<1> QED BY <1>8, <1>9, <1>10 DEF rows

\* What fits is written, and nothing else about the file changes but its size.
LEMMA WriteFits ==
  ASSUME SavesFit, file \in Files, FileInv, NEW data \in Content, Len(data) <= MaxFile,
         NEW free \in Nat
  PROVE  /\ Write(file, data, free).data = data
         /\ Write(file, data, free).nblks = file.nblks
         /\ Write(file, data, free).acl = file.acl
<1> DEFINE n == Len(data)
           nblks == file.nblks + Extra(file, n)
           held == IF n < nblks * PerBlock THEN n ELSE nblks * PerBlock
           d == [i \in 1..held |-> data[((i - 1) % PerBlock) + 1]]
<1>1. /\ n \in Nat /\ PerBlock \in Nat \ {0} /\ n < PerBlock
      /\ \A i \in 1..n : data[i] \in Characters
  BY BlockAssumption DEF SavesFit, Content
<1>2. /\ file.size \in Nat /\ file.nblks \in Nat /\ file.nblks >= 1 /\ file.nblks <= MaxBlks
      /\ "w" \in file.acl /\ file.acl \in SUBSET {"r", "w"} /\ DOMAIN file = {"size", "nblks", "data", "acl"}
  BY BlockAssumption DEF FileInv, Files
<1>3. Extra(file, n) = 0
  <2> HIDE DEF n
  <2>1. CASE n > file.size
    <3> DEFINE k == n - file.size
    <3>1. k \in Nat /\ k < PerBlock BY <1>1, <1>2, <2>1
    <3> HIDE DEF k
    <3>2. k \div PerBlock = 0 BY <1>1, <3>1
    <3> QED BY <2>1, <3>2 DEF Extra, k
  <2>2. CASE ~ (n > file.size) BY <2>2 DEF Extra
  <2> QED BY <2>1, <2>2
<1>4. nblks = file.nblks BY <1>2, <1>3
<1>5. Write(file, data, free) =
        IF "w" \notin file.acl \/ free < Extra(file, n) \/ nblks > MaxBlks THEN file
        ELSE [file EXCEPT !.size = n, !.nblks = nblks, !.data = d]
  BY DEF Write
<1>6. held = n
  <2> HIDE DEF n, nblks
  <2>1. nblks * PerBlock >= PerBlock BY <1>1, <1>2, <1>4
  <2>2. n < nblks * PerBlock BY <1>1, <1>2, <1>4, <2>1
  <2> QED BY <2>2
<1>7. d = data
  <2> HIDE DEF held
  <2>1. \A i \in 1..n : (i - 1) % PerBlock = i - 1
    <3> SUFFICES ASSUME NEW i \in 1..n PROVE (i - 1) % PerBlock = i - 1 OBVIOUS
    <3> DEFINE k == i - 1
    <3>1. k \in Nat /\ k < PerBlock BY <1>1
    <3> HIDE DEF k
    <3>2. k % PerBlock = k BY <1>1, <3>1
    <3> QED BY <3>2 DEF k
  <2>2. \A i \in 1..n : data[((i - 1) % PerBlock) + 1] = data[i] BY <1>1, <2>1
  <2>3. d = [i \in 1..n |-> data[i]] BY <1>6, <2>2
  <2>4. data = [i \in 1..n |-> data[i]] BY DEF Content
  <2> QED BY <2>3, <2>4
<1> HIDE DEF d, nblks, n
<1>8. Write(file, data, free) = [file EXCEPT !.size = n, !.nblks = nblks, !.data = d]
  <2>1. ~ ("w" \notin file.acl \/ free < Extra(file, n) \/ nblks > MaxBlks)
    <3>1. MaxBlks \in Nat BY BlockAssumption
    <3> QED BY <1>2, <1>3, <1>4, <3>1
  <2> QED BY <1>5, <2>1
<1>9. /\ Write(file, data, free).data = d /\ Write(file, data, free).nblks = nblks
      /\ Write(file, data, free).acl = file.acl
  BY <1>2, <1>8
<1> QED BY <1>4, <1>7, <1>9

\* Editing begins with what is on disk.
LEMMA EditMaps ==
  ASSUME SavesFit, CursorInText, FileInv, Edit PROVE Abstract!Load
<1>1. text' = Lines(file.data)
  <2>1. PICK data \in Reads(file, Garbage) : text' = Lines(data) BY DEF Edit
  <2>2. "r" \in file.acl BY DEF FileInv
  <2> QED BY <2>1, <2>2 DEF Reads
<1>2. /\ mode = "shell" /\ mode' = "edit" /\ cursor' = At(0, 0) /\ dirty' = FALSE
      /\ quits' = quits /\ file' = file
  BY DEF Edit
<1>3. file.data \in Content BY DEF CursorInText, TypeOK, Files, Content
<1>4. Flat(text)' = Append(file.data, NL) BY <1>1, <1>3, FlatLines
<1>5. PointOf(cursor)' = 0
  <2>1. text' \in Texts BY <1>1, <1>3, LinesType DEF Content
  <2>2. FlatTo(text', 0) = <<>> BY <2>1, FlatStep
  <2>3. PointOf(cursor)' = Len(FlatTo(text', 0)) + 0 BY <1>2 DEF PointOf, FlatTo, At
  <2> QED BY <2>2, <2>3
<1>6. (file.data)' = file.data /\ (QuitTimes - quits)' = QuitTimes - quits BY <1>2
<1> QED BY <1>2, <1>4, <1>5, <1>6, Zenon DEF Abstract!Load

\* What is saved is the text.
LEMMA SaveMaps ==
  ASSUME SavesFit, CursorInText, FileInv, Save PROVE Abstract!Save
<1>1. /\ mode = "edit" /\ Len(Flat(text)) <= MaxFile
      /\ dirty' = FALSE /\ KeyDone(cursor) /\ text' = text
  BY DEF Save
<1>2. Flat(text) \in Content /\ file \in Files
  <2>1. text \in Texts /\ file \in Files BY DEF CursorInText, TypeOK
  <2> QED BY <2>1, FlatType DEF Content
<1>3. (file.data)' = Flat(text)
  <2>1. PICK free \in 0..MaxBlks : file' = Write(file, Flat(text), free) BY DEF Save
  <2> QED BY <1>1, <1>2, <2>1, WriteFits
<1>4. cursor' = cursor /\ quits' = QuitTimes /\ mode' = mode BY <1>1, DonePoint
<1>5. (QuitTimes - quits)' = 0 BY <1>4, QuitAssumption
<1>6. PointOf(cursor)' = PointOf(cursor) /\ Flat(text)' = Flat(text) BY <1>1, <1>4 DEF PointOf
<1> QED BY <1>1, <1>3, <1>4, <1>5, <1>6, Zenon DEF Abstract!Save

\* The point stays in the text, whatever moves it.
LEMMA PointStays ==
  ASSUME CursorInText, CursorInText', mode' # "shell", text' = text
  PROVE  PointOf(cursor)' \in 0..Len(Flat(text))
<1>1. text \in Texts /\ cursor' \in Cursors /\ InRows(text, cursor')
  <2>1. text \in Texts BY DEF CursorInText, TypeOK
  <2>2. InText(cursor)' /\ cursor' \in Cursors BY DEF CursorInText, TypeOK
  <2>3. InText(cursor)' <=> InRows(text, cursor') BY DEF InText, InRows, RowLen
  <2> QED BY <2>1, <2>2, <2>3
<1>2. PlaceOf(text, cursor') \in 0..Len(Flat(text)) BY <1>1, PlaceIn
<1>3. PointOf(cursor)' = PlaceOf(text, cursor') BY DEF PointOf, PlaceOf, FlatTo
<1> QED BY <1>2, <1>3

\* A search moves the point and nothing else.
LEMMA SearchMaps ==
  ASSUME CursorInText, CursorInText', StartFind \/ FindKey \/ FindNothing \/ FindEnter \/ FindEsc
  PROVE  Abstract!Search
<1>1. UNCHANGED <<text, dirty, file>>
  BY DEF StartFind, FindKey, FindNothing, FindEnter, FindEsc
<1>2. <<mode, mode'>> \in {<<"edit", "find">>, <<"find", "find">>, <<"find", "edit">>}
  BY DEF StartFind, FindKey, FindNothing, FindEnter, FindEsc
<1>3. mode = "edit" => cursor' = cursor
  BY DEF StartFind, FindKey, FindNothing, FindEnter, FindEsc
<1>4. (QuitTimes - quits)' = IF mode' = "edit" THEN 0 ELSE QuitTimes - quits
  BY QuitAssumption DEF StartFind, FindKey, FindNothing, FindEnter, FindEsc
<1>5. mode' # "shell" BY <1>2
<1>6. PointOf(cursor)' \in 0..Len(Flat(text)) BY <1>1, <1>5, PointStays
<1>7. mode = "edit" => PointOf(cursor)' = PointOf(cursor) BY <1>1, <1>3 DEF PointOf
<1>8. Flat(text)' = Flat(text) /\ (file.data)' = file.data BY <1>1
<1> QED BY <1>1, <1>2, <1>4, <1>6, <1>7, <1>8, Zenon DEF Abstract!Search

\* The editor warns before changes are left behind.
LEMMA QuitMaps ==
  ASSUME CursorInText
  PROVE  (Warn => Abstract!Warn) /\ (Leave => Abstract!Close)
<1>1. quits \in 0..QuitTimes /\ QuitTimes \in Nat /\ dirty \in BOOLEAN
  BY QuitAssumption DEF CursorInText, TypeOK
<1>2. ASSUME Warn PROVE Abstract!Warn
  <2>1. /\ mode = "edit" /\ dirty /\ quits > 0 /\ quits' = quits - 1
        /\ UNCHANGED <<mode, text, cursor, dirty, file>>
    BY <1>2 DEF Warn
  <2>2. (QuitTimes - quits)' = (QuitTimes - quits) + 1 /\ QuitTimes - quits < QuitTimes
    BY <1>1, <2>1
  <2>3. PointOf(cursor)' = PointOf(cursor) /\ Flat(text)' = Flat(text) /\ (file.data)' = file.data
    BY <2>1 DEF PointOf
  <2> QED BY <2>1, <2>2, <2>3, Zenon DEF Abstract!Warn
<1>3. ASSUME Leave PROVE Abstract!Close
  <2>1. /\ mode = "edit" /\ ~ (dirty /\ quits > 0) /\ mode' = "shell"
        /\ UNCHANGED <<text, cursor, dirty, quits, file>>
    BY <1>3 DEF Leave
  <2>2. dirty => QuitTimes - quits = QuitTimes
    <3>1. dirty => quits = 0 BY <1>1, <2>1
    <3> QED BY <1>1, <3>1
  <2>3. PointOf(cursor)' = PointOf(cursor) /\ Flat(text)' = Flat(text) /\ (file.data)' = file.data
        /\ (QuitTimes - quits)' = QuitTimes - quits
    BY <2>1 DEF PointOf
  <2> QED BY <2>1, <2>2, <2>3, Zenon DEF Abstract!Close
<1> QED BY <1>2, <1>3

\* The keys that only move the cursor move the point.
LEMMA GoMaps ==
  ASSUME CursorInText, NEW key \in Keys \cup {"none"}, Go(key) PROVE Abstract!Move
<1> DEFINE c == IF key = "none" THEN cursor ELSE Target(key)
<1>1. mode = "edit" /\ KeyDone(c) /\ text' = text /\ dirty' = dirty /\ file' = file BY DEF Go
<1>2. text \in Texts /\ cursor \in Cursors /\ InRows(text, cursor) BY <1>1, Facts
<1>3. c \in Cursors /\ InRows(text, c)
  <2>1. CASE key = "none" BY <1>2, <2>1
  <2>2. CASE key # "none" BY <1>1, <2>2, TargetIn DEF InText
  <2> QED BY <2>1, <2>2
<1> HIDE DEF c
<1> QED BY <1>1, <1>2, <1>3, MoveMaps

\* The editor starts as the buffer does, with a file that can be edited.
LEMMA BufferBegins ==
  ASSUME SavesFit, Init PROVE Abstract!Init /\ FileInv
<1>1. /\ mode = "shell" /\ text = <<>> /\ cursor = At(0, 0) /\ dirty = FALSE /\ quits = QuitTimes
  BY DEF Init
<1>2. PICK acl \in Modes, data \in InitTexts :
        file = [Write(NewFile({"w"}), data, MaxBlks) EXCEPT !.acl = acl]
  BY DEF Init
<1>3. text \in Texts /\ Len(text) = 0 BY <1>1 DEF Texts
<1>4. Flat(text) = <<>> /\ FlatTo(text, 0) = <<>> BY <1>3, FlatStep
<1>5. PointOf(cursor) = 0
  <2>1. PointOf(cursor) = Len(FlatTo(text, 0)) + 0 BY <1>1 DEF PointOf, FlatTo, At
  <2> QED BY <1>4, <2>1
<1>6. QuitTimes - quits = 0 BY <1>1, QuitAssumption
<1>7. Abstract!Init BY <1>1, <1>4, <1>5, <1>6, Zenon DEF Abstract!Init
<1>8. FileInv
  <2> DEFINE new == NewFile({"w"})
             w == Write(new, data, MaxBlks)
  <2>1. new \in Files /\ new.nblks = 1 BY DEF NewFile, Files
  <2>2. data \in Seq(Characters) BY TextAssumption
  <2> HIDE DEF new
  <2>3. w \in Files BY <2>1, <2>2, WriteType
  <2>4. w.nblks \in 1..MaxBlks
    <3> DEFINE n == Len(data)
               nblks == new.nblks + Extra(new, n)
               Held(k) == IF n < k * PerBlock THEN n ELSE k * PerBlock
               d == [i \in 1..Held(nblks) |-> data[((i - 1) % PerBlock) + 1]]
    <3>1. MaxBlks \in Nat \ {0} BY BlockAssumption
    <3>2. w = IF "w" \notin new.acl \/ MaxBlks < Extra(new, n) \/ nblks > MaxBlks THEN new
              ELSE [new EXCEPT !.size = n, !.nblks = nblks, !.data = d]
      BY DEF Write
    <3> HIDE DEF d, nblks, n
    <3>3. w.nblks = 1 \/ (w.nblks = nblks /\ ~ (nblks > MaxBlks))
      BY <2>1, <3>2 DEF Files
    <3>4. w.nblks \in Nat BY <2>3 DEF Files
    <3>5. nblks >= 1
      <4>1. Extra(new, n) \in Nat
        <5> DEFINE k == n - new.size
        <5>1. n \in Nat /\ new.size \in Nat /\ PerBlock \in Nat \ {0}
          BY <2>1, <2>2, BlockAssumption DEF n, Files
        <5>2. n > new.size => k \in Nat BY <5>1
        <5> HIDE DEF k
        <5>3. k \in Nat => k \div PerBlock \in Nat BY <5>1
        <5> QED BY <5>2, <5>3 DEF Extra, k
      <4> QED BY <2>1, <4>1 DEF nblks
    <3>6. nblks \in Nat \/ w.nblks = 1 BY <3>3, <3>4
    <3> QED BY <3>1, <3>3, <3>4, <3>5
  <2> HIDE DEF w
  <2>5. file = [w EXCEPT !.acl = acl] BY <1>2 DEF w, new
  <2>6. file.nblks = w.nblks /\ file.acl = acl BY <2>3, <2>5 DEF Files
  <2> QED BY <2>4, <2>6 DEF FileInv, SavesFit
<1> QED BY <1>7, <1>8

\* Each step of the editor is one of the buffer, and leaves a file that can be edited.
LEMMA BufferSteps ==
  ASSUME SavesFit, CursorInText, CursorInText', FileInv, [Next]_vars
  PROVE  [Abstract!Next]_(Abstract!vars) /\ FileInv'
<1>1. CASE Edit
  <2>1. Abstract!Load BY <1>1, EditMaps
  <2>2. file' = file BY <1>1 DEF Edit
  <2> QED BY <2>1, <2>2 DEF Abstract!Next, FileInv
<1>2. CASE Save
  <2>1. Abstract!Save BY <1>2, SaveMaps
  <2>2. PICK free \in 0..MaxBlks :
          file' = Write(file, Flat(text), free) /\ Len(Flat(text)) <= MaxFile
    BY <1>2 DEF Save
  <2>3. Flat(text) \in Content /\ file \in Files
    <3>1. text \in Texts /\ file \in Files BY DEF CursorInText, TypeOK
    <3> QED BY <3>1, FlatType DEF Content
  <2>4. file'.nblks = file.nblks /\ file'.acl = file.acl BY <2>2, <2>3, WriteFits
  <2> QED BY <2>1, <2>4 DEF Abstract!Next, FileInv
<1>3. CASE Warn \/ Leave
  <2>1. Abstract!Warn \/ Abstract!Close BY <1>3, QuitMaps
  <2>2. file' = file BY <1>3 DEF Warn, Leave
  <2> QED BY <2>1, <2>2 DEF Abstract!Next, FileInv
<1>4. ASSUME NEW ch \in Letters, InsertChar(ch) PROVE Abstract!Next /\ FileInv'
  <2>1. Abstract!Insert BY <1>4, TypedBelow, TypedInside
  <2>2. file' = file BY <1>4 DEF InsertChar
  <2> QED BY <2>1, <2>2 DEF Abstract!Next, FileInv
<1>5. CASE NewLine
  <2>1. Abstract!Insert BY <1>5, NewLineAbove, NewLineInside
  <2>2. file' = file BY <1>5 DEF NewLine
  <2> QED BY <2>1, <2>2 DEF Abstract!Next, FileInv
<1>6. ASSUME NEW key, Erase(key) PROVE Abstract!Next /\ FileInv'
  <2>1. Abstract!Erase \/ Abstract!Move BY <1>6, EraseKeyMaps
  <2>2. file' = file BY <1>6 DEF Erase
  <2> QED BY <2>1, <2>2 DEF Abstract!Next, FileInv
<1>7. ASSUME NEW key \in Keys \cup {"none"}, Go(key) PROVE Abstract!Next /\ FileInv'
  <2>1. Abstract!Move BY <1>7, GoMaps
  <2>2. file' = file BY <1>7 DEF Go
  <2> QED BY <2>1, <2>2 DEF Abstract!Next, FileInv
<1>8. CASE StartFind \/ FindKey \/ FindNothing \/ FindEnter \/ FindEsc
  <2>1. Abstract!Search BY <1>8, SearchMaps
  <2>2. file' = file BY <1>8 DEF StartFind, FindKey, FindNothing, FindEnter, FindEsc
  <2> QED BY <2>1, <2>2 DEF Abstract!Next, FileInv
<1>9. CASE UNCHANGED vars
  <2>1. UNCHANGED <<mode, text, cursor, dirty, quits, file>> BY <1>9 DEF vars
  <2>2. UNCHANGED Abstract!vars BY <2>1 DEF Abstract!vars, PointOf
  <2> QED BY <2>1, <2>2 DEF FileInv
<1> QED BY <1>1, <1>2, <1>3, <1>4, <1>5, <1>6, <1>7, <1>8, <1>9 DEF Next

\* The editor is a text with a point in it, as module TextBuffer says: every
\* key inserts or erases one character or moves the point, what is loaded is
\* what was saved, and changes are not left without the warnings.
THEOREM BufferImplemented == ASSUME SavesFit PROVE Spec => ImplementsTextBuffer
<1>1. ASSUME Init PROVE Abstract!Init /\ FileInv BY <1>1, BufferBegins
<1>2. ASSUME CursorInText, CursorInText', FileInv, [Next]_vars
      PROVE  [Abstract!Next]_(Abstract!vars) /\ FileInv'
  BY <1>2, BufferSteps
<1> QED BY <1>1, <1>2, CursorStays, PTL DEF Spec, ImplementsTextBuffer, Abstract!Spec

\* Also during a search
OnDisk == mode # "shell" /\ ~dirty => Flat(text) \in {file.data, Append(file.data, NL)}

\* While saves fit in a block, a text that is not shown as modified is the one
\* on disk: it was loaded or saved, and what changed since then is nothing.
THEOREM UnmodifiedStaysOnDisk == ASSUME SavesFit PROVE Spec => []UnmodifiedIsOnDisk
<1>1. ASSUME Abstract!Init PROVE OnDisk BY <1>1 DEF Abstract!Init, OnDisk
<1>2. ASSUME OnDisk, [Abstract!Next]_(Abstract!vars) PROVE OnDisk'
  <2>1. CASE Abstract!Load BY <2>1 DEF Abstract!Load, OnDisk
  <2>2. CASE Abstract!Save
    <3>1. Flat(text)' = Flat(text) /\ (file.data)' = Flat(text) BY <2>2 DEF Abstract!Save
    <3> QED BY <3>1 DEF OnDisk
  <2>3. CASE Abstract!Insert \/ Abstract!Erase
    <3>1. dirty' = TRUE BY <2>3 DEF Abstract!Insert, Abstract!Erase
    <3> QED BY <3>1 DEF OnDisk
  <2>4. CASE Abstract!Move \/ Abstract!Search \/ Abstract!Warn \/ Abstract!Close
    <3>1. /\ Flat(text)' = Flat(text) /\ (file.data)' = file.data /\ dirty' = dirty
          /\ mode # "shell"
      BY <2>4 DEF Abstract!Move, Abstract!Search, Abstract!Warn, Abstract!Close
    <3> QED BY <1>2, <3>1 DEF OnDisk
  <2>5. CASE UNCHANGED Abstract!vars
    <3>1. /\ Flat(text)' = Flat(text) /\ (file.data)' = file.data /\ dirty' = dirty /\ mode' = mode
      BY <2>5 DEF Abstract!vars
    <3> QED BY <1>2, <3>1 DEF OnDisk
  <2> QED BY <1>2, <2>1, <2>2, <2>3, <2>4, <2>5 DEF Abstract!Next
<1>3. OnDisk => UnmodifiedIsOnDisk BY DEF OnDisk, UnmodifiedIsOnDisk
<1>4. Spec => Abstract!Spec BY BufferImplemented DEF ImplementsTextBuffer
<1> QED BY <1>1, <1>2, <1>3, <1>4, PTL DEF Abstract!Spec

-----------------------------------------------------------------------------
(* Colours *)

\* The colours of a scan
Colours == {"comment", "block", "string", "normal"}

\* The look of a row with n drawn characters
LooksLike(r, n) ==
  /\ DOMAIN r = {"open", "hl"} /\ r = [x \in DOMAIN r |-> r[x]]
  /\ r.open \in BOOLEAN /\ r.hl \in Seq(Colours) /\ Len(r.hl) = n

\* What a turn of the loop takes: some characters of the n that are left
Takes(t, n) == t.len \in 1..n /\ t.colour \in Colours /\ t.state \in States

\* Every turn takes something, and not more than there is.
LEMMA TakenIn ==
  ASSUME NEW C, NEW s \in Seq(C), NEW i \in 1..Len(s), NEW st \in States
  PROVE  Takes(Taken(s, i, st), Len(s) + 1 - i)
<1> DEFINE n == Len(s) + 1 - i
<1>1. Len(s) \in Nat /\ n \in 1..n /\ (i < Len(s) => 2 \in 1..n) /\ 1 \in 1..n OBVIOUS
<1> HIDE DEF n
<1>2. /\ "code" \in States /\ "block" \in States
      /\ {"comment", "block", "string", "normal"} = Colours
  BY DEF States, Colours
<1>3. ASSUME NEW l \in 1..n, NEW c \in Colours, NEW x \in States
      PROVE  Takes(Token(l, c, x), n)
  BY <1>3 DEF Takes, Token
<1>4. CASE st = "code"
  <2>1. CASE Pair(s, i, "/", "/")
    <3>1. Taken(s, i, st) = Token(n, "comment", "code")
      BY <1>4, <2>1 DEF Taken, Pair, Quotes, n
    <3> QED BY <1>1, <1>2, <1>3, <3>1 DEF n
  <2>2. CASE ~ Pair(s, i, "/", "/") /\ Pair(s, i, "/", "*")
    <3>1. Taken(s, i, st) = Token(2, "block", "block")
      BY <1>4, <2>2 DEF Taken, Pair, Quotes
    <3> QED BY <1>1, <1>2, <1>3, <2>2, <3>1 DEF n, Pair
  <2>3. CASE ~ Pair(s, i, "/", "/") /\ ~ Pair(s, i, "/", "*") /\ s[i] \in Quotes
    <3>1. Taken(s, i, st) = Token(1, "string", s[i])
      BY <1>4, <2>3 DEF Taken, Quotes
    <3>2. s[i] \in States BY <2>3 DEF States
    <3> QED BY <1>1, <1>2, <1>3, <3>1, <3>2 DEF n
  <2>4. CASE ~ Pair(s, i, "/", "/") /\ ~ Pair(s, i, "/", "*") /\ s[i] \notin Quotes
    <3>1. Taken(s, i, st) = Token(1, "normal", "code")
      BY <1>4, <2>4 DEF Taken, Quotes
    <3> QED BY <1>1, <1>2, <1>3, <3>1 DEF n
  <2> QED BY <2>1, <2>2, <2>3, <2>4
<1>5. CASE st = "block"
  <2>1. \/ Taken(s, i, st) = Token(2, "block", "code") /\ i < Len(s)
        \/ Taken(s, i, st) = Token(1, "block", "block")
    BY <1>5 DEF Taken, Quotes, Pair
  <2> QED BY <1>1, <1>2, <1>3, <2>1 DEF n
<1>6. CASE st \in Quotes
  <2>1. \/ Taken(s, i, st) = Token(2, "string", st) /\ i < Len(s)
        \/ Taken(s, i, st) = Token(1, "string", "code")
        \/ Taken(s, i, st) = Token(1, "string", st)
    BY <1>6 DEF Taken, Quotes
  <2> QED BY <1>1, <1>2, <1>3, <2>1 DEF n
<1> QED BY <1>4, <1>5, <1>6 DEF States, n


\* What the scan makes of the row from column i on, by what it makes of the rest
ScanRow(s, f, i) ==
  [st \in States |->
     IF i > Len(s) THEN [open |-> st = "block", hl |-> <<>>]
     ELSE LET t    == Taken(s, i, st)
              rest == f[i + t.len][t.state]
          IN  [rest EXCEPT !.hl = [k \in 1..t.len |-> t.colour] \o @]]

Scans(s, f, m) == f = [i \in m..(Len(s) + 1) |-> ScanRow(s, f, i)]

\* The recursion of Scan defines a function.
LEMMA ScansExist ==
  ASSUME NEW C, NEW s \in Seq(C)
  PROVE  \E f : Scans(s, f, 1)
<1> DEFINE n == Len(s)
           P(m) == \E f : Scans(s, f, m)
           T == {k \in 0..n : ~ P(n + 1 - k)}
<1>0. n \in Nat OBVIOUS
<1> SUFFICES ASSUME T # {} PROVE FALSE
  <2>1. n \in 0..n /\ n + 1 - n = 1 BY <1>0
  <2> HIDE DEF P, n
  <2>2. P(1) BY <2>1
  <2> QED BY <2>2 DEF P
<1>1. PICK m \in T : \A k \in T : m <= k
  <2> HIDE DEF P
  <2>1. T \in SUBSET Nat BY <1>0
  <2> HIDE DEF T
  <2> QED BY <2>1, LeastNat
<1> DEFINE j == n + 1 - m
<1>2. j \in 1..(n + 1) /\ j \in Nat /\ ~ P(j) /\ m \in 0..n
  <2> HIDE DEF P
  <2> QED BY <1>0, <1>1
<1>3. \E g : j + 1 <= n + 1 => Scans(s, g, j + 1)
  <2>1. CASE j + 1 > n + 1 BY <2>1, <1>2, <1>0
  <2>2. CASE j + 1 <= n + 1
    <3> HIDE DEF P
    <3>1. m - 1 \in 0..n /\ m - 1 \notin T
      <4>1. m - 1 \in 0..n BY <1>2, <1>0, <2>2
      <4> HIDE DEF T
      <4> QED BY <1>1, <1>2, <4>1
    <3>2. P(n + 1 - (m - 1)) BY <3>1
    <3>3. n + 1 - (m - 1) = j + 1 BY <1>0, <1>2
    <3> QED BY <3>2, <3>3 DEF P
  <2> QED BY <2>1, <2>2, <1>0, <1>2
<1>4. PICK g : j + 1 <= n + 1 => Scans(s, g, j + 1) BY <1>3
<1> DEFINE h == [i \in j..(n + 1) |-> IF i = j THEN ScanRow(s, g, j) ELSE g[i]]
           r == [i \in j..(n + 1) |-> ScanRow(s, h, i)]
<1>5. ASSUME NEW i \in j..(n + 1) PROVE ScanRow(s, h, i) = ScanRow(s, g, i)
  <2>1. ASSUME NEW st \in States, ~ (i > Len(s))
        PROVE  h[i + Taken(s, i, st).len] = g[i + Taken(s, i, st).len]
    <3> DEFINE l == Taken(s, i, st).len
    <3>1. i \in 1..Len(s) /\ i \in Nat BY <1>0, <1>2, <2>1
    <3>2. Takes(Taken(s, i, st), Len(s) + 1 - i) BY <3>1, TakenIn
    <3>3. l \in 1..(Len(s) + 1 - i) BY <3>2 DEF Takes
    <3> HIDE DEF l
    <3>4. i + l \in j..(n + 1) /\ i + l # j BY <1>0, <1>2, <3>1, <3>3
    <3> HIDE DEF j, n
    <3>5. h[i + l] = g[i + l] BY <3>4
    <3> HIDE DEF h
    <3> QED BY <3>5 DEF l
  <2> HIDE DEF h
  <2> QED BY <2>1 DEF ScanRow
<1>6. ASSUME NEW i \in j..(n + 1) PROVE h[i] = ScanRow(s, h, i)
  <2>1. CASE i = j BY <1>5, <2>1
  <2>2. CASE i # j
    <3>1. i \in (j + 1)..(n + 1) /\ j + 1 <= n + 1 /\ h[i] = g[i] BY <2>2, <1>2, <1>0
    <3> HIDE DEF h, j
    <3>2. g[i] = ScanRow(s, g, i) BY <3>1, <1>4 DEF Scans
    <3> QED BY <3>1, <3>2, <1>5
  <2> QED BY <2>1, <2>2
<1>7. Scans(s, h, j)
  <2>1. h = r
    <3>1. \A i \in j..(n + 1) : h[i] = r[i] BY <1>6
    <3> HIDE DEF j
    <3> QED BY <3>1
  <2> QED BY <2>1 DEF Scans
<1> QED BY <1>2, <1>7

\* The look r with l more characters of one colour before it
Behind(r, l, c) == [r EXCEPT !.hl = [k \in 1..l |-> c] \o @]

\* What is put before the colours of the rest is a colour for each character taken.
LEMMA ColourMore ==
  ASSUME NEW r, NEW n \in Nat, LooksLike(r, n), NEW l \in Nat, NEW c \in Colours
  PROVE  LooksLike(Behind(r, l, c), l + n)
<1> DEFINE a == [k \in 1..l |-> c]
           b == r.hl
           q == a \o b
<1>1. a \in Seq(Colours) /\ Len(a) = l
  <2>1. a \in [1..l -> Colours] OBVIOUS
  <2> HIDE DEF a
  <2> QED BY <2>1
<1>2. b \in Seq(Colours) /\ Len(b) = n BY DEF LooksLike
<1> HIDE DEF a, b
<1>3. q \in Seq(Colours) /\ Len(q) = l + n BY <1>1, <1>2, ConcatProperties
<1>4. Behind(r, l, c) = [r EXCEPT !.hl = q] BY DEF LooksLike, Behind, a, b
<1> HIDE DEF q
<1>5. LooksLike([r EXCEPT !.hl = q], l + n) BY <1>3 DEF LooksLike
<1> QED BY <1>4, <1>5

\* A scan gives each drawn character a colour, and knows whether a comment is open.
LEMMA ScanType ==
  ASSUME NEW C, NEW s \in Seq(C), NEW open
  PROVE  LooksLike(Scan(s, open), Len(s))
<1> DEFINE n == Len(s)
           f == CHOOSE g : Scans(s, g, 1)
           Q(i) == \A st \in States : LooksLike(f[i][st], n + 1 - i)
           T == {k \in 0..n : ~ Q(n + 1 - k)}
<1>0. n \in Nat OBVIOUS
<1>1. Scans(s, f, 1) BY ScansExist
<1>2. Scan(s, open) = f[1][IF open THEN "block" ELSE "code"] BY DEF Scan, Scans, ScanRow
<1> HIDE DEF f
<1>3. \A i \in 1..(n + 1) : f[i] = ScanRow(s, f, i) BY <1>1 DEF Scans
<1>4. T = {}
  <2> SUFFICES ASSUME T # {} PROVE FALSE OBVIOUS
  <2>1. PICK m \in T : \A k \in T : m <= k
    <3> HIDE DEF Q
    <3>1. T \in SUBSET Nat BY <1>0
    <3> HIDE DEF T
    <3> QED BY <3>1, LeastNat
  <2> DEFINE i == n + 1 - m
  <2>2. i \in 1..(n + 1) /\ ~ Q(i) /\ m \in 0..n
    <3> HIDE DEF Q
    <3> QED BY <1>0, <2>1
  <2>3. PICK st \in States : ~ LooksLike(f[i][st], n + 1 - i) BY <2>2
  <2>4. n + 1 - i = m /\ i \in Nat BY <1>0, <2>2
  <2> HIDE DEF i, Q
  <2>5. CASE i > n
    <3>1. f[i][st] = [open |-> st = "block", hl |-> <<>>] BY <1>3, <2>2, <2>5 DEF ScanRow
    <3>2. n + 1 - i = 0 BY <1>0, <2>2, <2>5
    <3> QED BY <2>3, <3>1, <3>2 DEF LooksLike
  <2>6. CASE ~ (i > n)
    <3> DEFINE t    == Taken(s, i, st)
               rest == f[i + t.len][t.state]
               l    == t.len
               k    == n + 1 - (i + l)
               c    == t.colour
               x    == t.state
    <3>1. i \in 1..Len(s) BY <1>0, <2>2, <2>6
    <3>2. Takes(t, Len(s) + 1 - i) BY <3>1, TakenIn
    <3>3. f[i][st] = [rest EXCEPT !.hl = [kk \in 1..t.len |-> t.colour] \o @]
      <4>1. f[i] = ScanRow(s, f, i) BY <1>3, <2>2
      <4>2. ScanRow(s, f, i)[st] = [rest EXCEPT !.hl = [kk \in 1..t.len |-> t.colour] \o @]
        BY <2>6 DEF ScanRow
      <4> QED BY <4>1, <4>2
    <3>4. l \in 1..(n + 1 - i) /\ c \in Colours /\ x \in States BY <3>2 DEF Takes
    <3> HIDE DEF t
    <3>5. f[i][st] = Behind(rest, l, c) BY <3>3 DEF Behind
    <3>6. rest = f[i + l][x] OBVIOUS
    <3> HIDE DEF rest, l, c, x
    <3>7. k \in 0..n /\ k < m /\ k \in Nat /\ n + 1 - k = i + l /\ l \in Nat /\ l + k = n + 1 - i
      BY <1>0, <2>2, <2>4, <3>4
    <3>8. k \notin T
      <4> HIDE DEF T, k
      <4> QED BY <2>1, <3>7, <1>0, <2>2
    <3>9. Q(n + 1 - k)
      <4> HIDE DEF k
      <4> QED BY <3>7, <3>8
    <3>10. LooksLike(rest, n + 1 - (i + l))
      <4>1. Q(i + l) BY <3>7, <3>9
      <4> QED BY <4>1, <3>4, <3>6 DEF Q
    <3>11. LooksLike(rest, k) BY <3>10
    <3> HIDE DEF k
    <3>12. LooksLike(f[i][st], l + k) BY <3>4, <3>5, <3>7, <3>11, ColourMore
    <3> QED BY <2>3, <3>7, <3>12
  <2> QED BY <2>5, <2>6
<1>5. Q(1)
  <2> HIDE DEF Q
  <2>1. n \in 0..n /\ n \notin T /\ n + 1 - n = 1 BY <1>0, <1>4
  <2>2. Q(n + 1 - n) BY <2>1
  <2> QED BY <2>1, <2>2
<1>6. (IF open THEN "block" ELSE "code") \in States BY DEF States
<1>7. n + 1 - 1 = n BY <1>0
<1> QED BY <1>2, <1>5, <1>6, <1>7

-----------------------------------------------------------------------------
(* What is drawn *)

\* The characters of the screen
Drawn == Characters \cup {Space}

\* What is drawn of a character behind d
Cell(d, c) ==
  IF c = Tab THEN [k \in 1..(TabStop - (Len(d) % TabStop)) |-> Space] ELSE <<c>>

Draws(s, f, n) ==
  f = [j \in 0..n |-> IF j = 0 THEN <<>> ELSE f[j - 1] \o Cell(f[j - 1], s[j])]

Cols(s, f, n) == f = [j \in 0..n |-> IF j = 0 THEN 0 ELSE After(f[j - 1], s[j])]

\* The recursion of Rendered defines a function.
LEMMA DrawsExist ==
  ASSUME NEW s, NEW len \in Nat
  PROVE  \E f : Draws(s, f, len)
<1> DEFINE T == {n \in Nat : ~ \E f : Draws(s, f, n)}
<1> SUFFICES ASSUME T # {} PROVE FALSE OBVIOUS
<1>1. PICK m \in T : \A k \in T : m <= k
  <2> HIDE DEF T
  <2>1. T \in SUBSET Nat BY DEF T
  <2> QED BY <2>1, LeastNat
<1>2. m # 0
  <2>1. Draws(s, [i \in 0..0 |-> <<>>], 0) BY DEF Draws
  <2> QED BY <2>1
<1>3. m \in Nat \ {0} /\ m - 1 \in Nat /\ m - 1 \notin T BY <1>1, <1>2
<1>4. PICK g : Draws(s, g, m - 1) BY <1>3
<1> DEFINE Step(d, i) == d \o Cell(d, s[i])
           h == [i \in 0..m |-> IF i = m THEN Step(g[m - 1], m) ELSE g[i]]
           r == [i \in 0..m |-> IF i = 0 THEN <<>> ELSE Step(h[i - 1], i)]
<1>5. ASSUME NEW i \in 0..m PROVE h[i] = r[i]
  <2> HIDE DEF Step
  <2>1. CASE i = m
    <3>1. m - 1 \in 0..m /\ m - 1 # m BY <1>3
    <3>2. h[m - 1] = g[m - 1] BY <3>1
    <3> QED BY <2>1, <3>2, <1>3
  <2>2. CASE i # m
    <3>1. i \in 0..(m - 1) /\ h[i] = g[i] BY <2>2, <1>3
    <3>2. g[i] = IF i = 0 THEN <<>> ELSE Step(g[i - 1], i)
      BY <3>1, <1>4 DEF Draws, Step
    <3>3. i # 0 => h[i - 1] = g[i - 1] BY <3>1, <1>3
    <3> QED BY <3>1, <3>2, <3>3
  <2> QED BY <2>1, <2>2
<1>6. Draws(s, h, m) BY <1>5 DEF Draws
<1> QED BY <1>6, <1>1

\* The recursion of CxToRx defines a function.
LEMMA ColsExist ==
  ASSUME NEW s, NEW len \in Nat
  PROVE  \E f : Cols(s, f, len)
<1> DEFINE T == {n \in Nat : ~ \E f : Cols(s, f, n)}
<1> SUFFICES ASSUME T # {} PROVE FALSE OBVIOUS
<1>1. PICK m \in T : \A k \in T : m <= k
  <2> HIDE DEF T
  <2>1. T \in SUBSET Nat BY DEF T
  <2> QED BY <2>1, LeastNat
<1>2. m # 0
  <2>1. Cols(s, [i \in 0..0 |-> 0], 0) BY DEF Cols
  <2> QED BY <2>1
<1>3. m \in Nat \ {0} /\ m - 1 \in Nat /\ m - 1 \notin T BY <1>1, <1>2
<1>4. PICK g : Cols(s, g, m - 1) BY <1>3
<1> DEFINE h == [i \in 0..m |-> IF i = m THEN After(g[m - 1], s[m]) ELSE g[i]]
           r == [i \in 0..m |-> IF i = 0 THEN 0 ELSE After(h[i - 1], s[i])]
<1>5. ASSUME NEW i \in 0..m PROVE h[i] = r[i]
  <2>1. CASE i = m
    <3>1. m - 1 \in 0..m /\ m - 1 # m BY <1>3
    <3>2. h[m - 1] = g[m - 1] BY <3>1
    <3> QED BY <2>1, <3>2, <1>3
  <2>2. CASE i # m
    <3>1. i \in 0..(m - 1) /\ h[i] = g[i] BY <2>2, <1>3
    <3>2. g[i] = IF i = 0 THEN 0 ELSE After(g[i - 1], s[i])
      BY <3>1, <1>4 DEF Cols
    <3>3. i # 0 => h[i - 1] = g[i - 1] BY <3>1, <1>3
    <3> QED BY <3>1, <3>2, <3>3
  <2> QED BY <2>1, <2>2
<1>6. Cols(s, h, m) BY <1>5 DEF Cols
<1> QED BY <1>6, <1>1

\* A character is drawn up to the column the next one is drawn at.
LEMMA CellType ==
  ASSUME NEW d \in Seq(Drawn), NEW c \in Characters
  PROVE  d \o Cell(d, c) \in Seq(Drawn) /\ Len(d \o Cell(d, c)) = After(Len(d), c)
<1> DEFINE n == TabStop - (Len(d) % TabStop)
           y == Cell(d, c)
<1>1. n \in Nat BY TabAssumption
<1>2. y \in Seq(Drawn) /\ Len(y) = (IF c = Tab THEN n ELSE 1)
  <2>1. CASE c = Tab
    <3>1. y = [k \in 1..n |-> Space] BY <2>1 DEF Cell
    <3> HIDE DEF y, n
    <3>2. y \in [1..n -> Drawn] BY <3>1 DEF Drawn
    <3>3. y \in Seq(Drawn) /\ Len(y) = n BY <1>1, <3>2
    <3> QED BY <2>1, <3>3
  <2>2. CASE c # Tab
    <3>1. y = <<c>> BY <2>2 DEF Cell
    <3>2. c \in Drawn BY DEF Drawn
    <3> HIDE DEF y
    <3> QED BY <2>2, <3>1, <3>2
  <2> QED BY <2>1, <2>2
<1> HIDE DEF y
<1>3. d \o y \in Seq(Drawn) /\ Len(d \o y) = Len(d) + Len(y) BY <1>2, ConcatProperties
<1>4. Len(d) + Len(y) = After(Len(d), c)
  <2>1. Len(d) \in Nat /\ Len(d) % TabStop \in Nat BY TabAssumption
  <2> QED BY <1>2, <2>1, TabAssumption DEF After
<1> QED BY <1>3, <1>4 DEF y

\* A row is drawn up to the column of its end, and column 0 is its beginning.
LEMMA Columns ==
  ASSUME NEW s \in Seq(Characters)
  PROVE  /\ Rendered(s) \in Seq(Drawn)
         /\ CxToRx(s, 0) = 0 /\ CxToRx(s, Len(s)) = Len(Rendered(s))
         /\ \A cx \in 0..Len(s) : CxToRx(s, cx) \in Nat
<1> DEFINE n == Len(s)
           f == CHOOSE g : Draws(s, g, n)
<1>0. n \in Nat /\ n \in 0..n /\ 0 \in 0..n /\ \A i \in 1..n : s[i] \in Characters OBVIOUS
<1>1. Draws(s, f, n) BY <1>0, DrawsExist
<1>2. Rendered(s) = f[n] BY DEF Rendered, Draws, Cell
<1> HIDE DEF f, n
<1>3. f[0] = <<>> /\ \A j \in 1..n : f[j] = f[j - 1] \o Cell(f[j - 1], s[j])
  BY <1>0, <1>1 DEF Draws
<1> DEFINE T == {j \in 0..n : f[j] \notin Seq(Drawn)}
<1>4. T = {}
  <2> SUFFICES ASSUME T # {} PROVE FALSE OBVIOUS
  <2>1. PICK m \in T : \A k \in T : m <= k
    <3>1. T \in SUBSET Nat BY <1>0
    <3> HIDE DEF T
    <3> QED BY <3>1, LeastNat
  <2>2. m # 0
    <3>1. f[0] \in Seq(Drawn) BY <1>3
    <3> QED BY <2>1, <3>1
  <2>3. m - 1 \in 0..n /\ m - 1 \notin T /\ m \in 1..n BY <1>0, <2>1, <2>2
  <2>4. f[m - 1] \in Seq(Drawn) /\ s[m] \in Characters BY <1>0, <2>3
  <2>5. f[m] = f[m - 1] \o Cell(f[m - 1], s[m]) BY <1>3, <2>3
  <2>6. f[m] \in Seq(Drawn) BY <2>4, <2>5, CellType
  <2> QED BY <2>1, <2>6
<1>5. ASSUME NEW j \in 1..n PROVE Len(f[j]) = After(Len(f[j - 1]), s[j])
  <2>1. j - 1 \in 0..n BY <1>0
  <2>2. f[j - 1] \in Seq(Drawn) /\ s[j] \in Characters BY <1>0, <1>4, <2>1
  <2>3. f[j] = f[j - 1] \o Cell(f[j - 1], s[j]) BY <1>3
  <2> QED BY <2>2, <2>3, CellType
<1>6. ASSUME NEW cx \in 0..n PROVE CxToRx(s, cx) = Len(f[cx])
  <2> DEFINE g == CHOOSE h : Cols(s, h, cx)
  <2>0. cx \in Nat /\ cx \in 0..cx BY <1>0
  <2>1. Cols(s, g, cx) BY <2>0, ColsExist
  <2>2. CxToRx(s, cx) = g[cx] BY DEF CxToRx, Cols
  <2> HIDE DEF g
  <2>3. g[0] = 0 /\ \A j \in 1..cx : g[j] = After(g[j - 1], s[j])
    BY <2>0, <2>1 DEF Cols
  <2> DEFINE U == {j \in 0..cx : g[j] # Len(f[j])}
  <2>4. U = {}
    <3> SUFFICES ASSUME U # {} PROVE FALSE OBVIOUS
    <3>1. PICK m \in U : \A k \in U : m <= k
      <4>1. U \in SUBSET Nat BY <1>0
      <4> HIDE DEF U
      <4> QED BY <4>1, LeastNat
    <3>2. m # 0
      <4>1. Len(f[0]) = 0 BY <1>3
      <4> QED BY <2>3, <3>1, <4>1
    <3>3. m - 1 \in 0..cx /\ m - 1 \notin U /\ m \in 1..cx /\ m \in 1..n BY <1>0, <3>1, <3>2
    <3>4. g[m - 1] = Len(f[m - 1]) BY <3>3
    <3>5. g[m] = After(g[m - 1], s[m]) BY <2>3, <3>3
    <3>6. Len(f[m]) = After(Len(f[m - 1]), s[m]) BY <1>5, <3>3
    <3> QED BY <3>1, <3>4, <3>5, <3>6
  <2> QED BY <2>0, <2>2, <2>4
<1>7. \A j \in 0..n : f[j] \in Seq(Drawn) /\ Len(f[j]) \in Nat BY <1>4, LenProperties
<1>8. Len(f[0]) = 0 BY <1>3
<1> QED BY <1>0, <1>2, <1>6, <1>7, <1>8 DEF n

-----------------------------------------------------------------------------
(* The looks of the rows *)

Look == [open : BOOLEAN, hl : Seq(Colours)]

\* The looks have a colour for each drawn character of the rows
Fit(rows, looks, i) == looks[i] \in Look /\ Len(looks[i].hl) = Len(Rendered(rows[i]))

Fits(rows, looks) ==
  looks \in Seq(Look) /\ Len(looks) = Len(rows) /\ \A i \in 1..Len(rows) : Fit(rows, looks, i)

\* Row i is coloured as it and the row above it say
Right(rows, looks, i) == looks[i] = Scan(Rendered(rows[i]), OpenAbove(looks, i))

\* What a scan makes of a row is a look that fits.
LEMMA ScanFits ==
  ASSUME NEW s \in Seq(Characters), NEW open
  PROVE  Scan(Rendered(s), open) \in Look /\ Len(Scan(Rendered(s), open).hl) = Len(Rendered(s))
<1> DEFINE r == Scan(Rendered(s), open)
<1>1. Rendered(s) \in Seq(Drawn) BY Columns
<1>2. LooksLike(r, Len(Rendered(s))) BY <1>1, ScanType
<1> HIDE DEF r
<1>3. r = [open |-> r.open, hl |-> r.hl] BY <1>2 DEF LooksLike
<1>4. r \in Look BY <1>2, <1>3 DEF LooksLike, Look
<1> QED BY <1>2, <1>4 DEF LooksLike, r

\* An empty row leaves a comment open that was open.
LEMMA ScanOfNothing ==
  ASSUME NEW open \in BOOLEAN
  PROVE  Scan(Rendered(<<>>), open).open = open
<1> DEFINE e == <<>>
           s == Rendered(e)
           f == CHOOSE g : Scans(s, g, 1)
<1>1. e \in Seq(Characters) /\ Len(e) = 0 OBVIOUS
<1> HIDE DEF e
<1>2. s \in Seq(Drawn) /\ Len(s) = 0
  <2>1. CxToRx(e, 0) = 0 /\ CxToRx(e, Len(e)) = Len(s) /\ s \in Seq(Drawn) BY <1>1, Columns
  <2> QED BY <1>1, <2>1
<1> HIDE DEF s
<1>3. Scans(s, f, 1) BY <1>2, ScansExist
<1>4. Scan(s, open) = f[1][IF open THEN "block" ELSE "code"] BY DEF Scan, Scans, ScanRow
<1> HIDE DEF f
<1>5. f[1] = ScanRow(s, f, 1) BY <1>2, <1>3 DEF Scans
<1>6. \A st \in States : f[1][st] = [open |-> st = "block", hl |-> <<>>]
  BY <1>2, <1>5 DEF ScanRow
<1>7. "block" \in States /\ "code" \in States BY DEF States
<1>8. f[1]["block"].open = TRUE /\ f[1]["code"].open = FALSE
  <2>1. f[1]["block"] = [open |-> TRUE, hl |-> <<>>]
    <3>1. ("block" = "block") = TRUE OBVIOUS
    <3>2. f[1]["block"] = [open |-> "block" = "block", hl |-> <<>>] BY <1>6, <1>7, Zenon
    <3> QED BY <3>1, <3>2, Zenon
  <2>2. f[1]["code"] = [open |-> FALSE, hl |-> <<>>]
    <3>1. ("code" = "block") = FALSE OBVIOUS
    <3>2. f[1]["code"] = [open |-> "code" = "block", hl |-> <<>>] BY <1>6, <1>7, Zenon
    <3> QED BY <3>1, <3>2, Zenon
  <2> QED BY <2>1, <2>2
<1>9. Scan(s, open).open = open
  <2>1. CASE open = TRUE BY <1>4, <1>8, <2>1
  <2>2. CASE open = FALSE BY <1>4, <1>8, <2>2
  <2> QED BY <2>1, <2>2
<1> QED BY <1>9 DEF s, e

\* Rows i to n as they are scanned one after the other
Follows(rows, i, open, f, n) ==
  f = [k \in i..n |-> Scan(Rendered(rows[k]), IF k = i THEN open ELSE f[k - 1].open)]

\* The recursion of ScannedFrom defines a function.
LEMMA FollowsExist ==
  ASSUME NEW rows, NEW i \in Nat, NEW open, NEW len \in Nat
  PROVE  \E f : Follows(rows, i, open, f, len)
<1> DEFINE T == {n \in Nat : ~ \E f : Follows(rows, i, open, f, n)}
<1> SUFFICES ASSUME T # {} PROVE FALSE OBVIOUS
<1>1. PICK m \in T : \A k \in T : m <= k
  <2> HIDE DEF T
  <2>1. T \in SUBSET Nat BY DEF T
  <2> QED BY <2>1, LeastNat
<1>2. m >= i
  <2> SUFFICES ASSUME m < i PROVE FALSE BY <1>1
  <2>1. i..m = {} BY <1>1
  <2>2. Follows(rows, i, open, [k \in {} |-> FALSE], m) BY <2>1 DEF Follows
  <2> QED BY <1>1, <2>2
<1>3. \E g : Follows(rows, i, open, g, m - 1)
  <2>1. CASE m = 0
    <3>1. i..(m - 1) = {} BY <2>1
    <3>2. Follows(rows, i, open, [k \in {} |-> FALSE], m - 1) BY <3>1 DEF Follows
    <3> QED BY <3>2
  <2>2. CASE m # 0
    <3>1. m - 1 \in Nat /\ m - 1 \notin T BY <1>1, <2>2
    <3> QED BY <3>1
  <2> QED BY <2>1, <2>2
<1>4. PICK g : Follows(rows, i, open, g, m - 1) BY <1>3
<1> DEFINE Step(l, k) == Scan(Rendered(rows[k]), IF k = i THEN open ELSE l.open)
           h == [k \in i..m |-> IF k = m THEN Step(g[m - 1], m) ELSE g[k]]
           r == [k \in i..m |-> Step(h[k - 1], k)]
<1>5. ASSUME NEW k \in i..m PROVE h[k] = r[k]
  <2>1. CASE k = m
    <3>1. CASE m = i BY <2>1, <3>1
    <3>2. CASE m # i
      <4>1. m - 1 \in i..m /\ m - 1 # m BY <1>1, <1>2, <3>2
      <4>2. h[m - 1] = g[m - 1] BY <4>1
      <4> HIDE DEF Step
      <4> QED BY <2>1, <4>2
    <3> QED BY <3>1, <3>2
  <2>2. CASE k # m
    <3>1. k \in i..(m - 1) /\ h[k] = g[k] BY <1>1, <2>2
    <3>2. g[k] = Step(g[k - 1], k) BY <3>1, <1>4 DEF Follows
    <3>3. k # i => h[k - 1] = g[k - 1]
      <4>1. k # i => k - 1 \in i..m /\ k - 1 # m BY <1>1, <3>1
      <4> QED BY <4>1
    <3>4. k # i => Step(h[k - 1], k) = Step(g[k - 1], k)
      <4> HIDE DEF Step, h
      <4> QED BY <3>3
    <3>5. k = i => Step(h[k - 1], k) = Step(g[k - 1], k) OBVIOUS
    <3> HIDE DEF Step, h
    <3> QED BY <3>1, <3>2, <3>4, <3>5
  <2> QED BY <2>1, <2>2
<1>6. Follows(rows, i, open, h, m)
  <2>1. h = r
    <3> HIDE DEF Step
    <3> QED BY <1>5
  <2> QED BY <2>1 DEF Follows
<1> QED BY <1>1, <1>6

\* Rows that are scanned one after the other.
LEMMA ScannedRows ==
  ASSUME NEW rows \in Texts, NEW i \in 1..Len(rows), NEW open, NEW f,
         f = ScannedFrom(rows, i, open)
  PROVE  /\ f[i] = Scan(Rendered(rows[i]), open)
         /\ \A k \in (i + 1)..Len(rows) : f[k] = Scan(Rendered(rows[k]), f[k - 1].open)
<1> DEFINE n == Len(rows)
           g == CHOOSE h : Follows(rows, i, open, h, n)
<1>1. n \in Nat /\ i \in Nat BY DEF Texts
<1>2. Follows(rows, i, open, g, n) BY <1>1, FollowsExist
<1>3. f = g BY DEF ScannedFrom, Follows
<1> HIDE DEF g
<1>4. \A k \in i..n : f[k] = Scan(Rendered(rows[k]), IF k = i THEN open ELSE f[k - 1].open)
  BY <1>2, <1>3 DEF Follows
<1>5. i \in i..n /\ \A k \in (i + 1)..n : k \in i..n /\ k # i BY <1>1
<1> QED BY <1>4, <1>5

\* The looks r after row i was scanned again: row by row, as far as what is
\* left open has changed, and no further than row nr
IsRescanned(rows, looks, i, nr, r) ==
  /\ \A k \in 1..(i - 1) : r[k] = looks[k]
  /\ r[i] = Scan(Rendered(rows[i]), OpenAbove(looks, i))
  /\ \A k \in (i + 1)..Len(rows) :
       IF k <= nr /\ r[k - 1].open # looks[k - 1].open
       THEN r[k] = Scan(Rendered(rows[k]), r[k - 1].open)
       ELSE r[k] = looks[k]

\* editorUpdateSyntax() seen from one row to the next.
LEMMA Rescans ==
  ASSUME NEW rows \in Texts, NEW looks \in Seq(Look), Len(looks) = Len(rows),
         NEW i \in 1..Len(rows), NEW nr \in Nat,
         NEW r, r = UpdateSyntax(rows, looks, i, nr)
  PROVE  /\ r \in Seq(Look) /\ Len(r) = Len(rows)
         /\ IsRescanned(rows, looks, i, nr, r)
<1> DEFINE n    == Len(rows)
           open == OpenAbove(looks, i)
           scan == ScannedFrom(rows, i, open)
           R(k) == \/ k = i
                   \/ k \in (i + 1)..nr /\ \A j \in i..(k - 1) : scan[j].open # looks[j].open
<1>1. n \in Nat /\ i \in Nat /\ i \in 1..n /\ \A k \in 1..n : looks[k] \in Look /\ rows[k] \in Seq(Characters)
  BY DEF Texts
<1>2. r = [k \in 1..n |-> IF R(k) THEN scan[k] ELSE looks[k]] BY DEF UpdateSyntax
<1>3. /\ scan[i] = Scan(Rendered(rows[i]), open)
      /\ \A k \in (i + 1)..n : scan[k] = Scan(Rendered(rows[k]), scan[k - 1].open)
  <2> HIDE DEF open
  <2> QED BY ScannedRows
<1> HIDE DEF scan, open
<1>4. ASSUME NEW k \in 1..n PROVE r[k] = IF R(k) THEN scan[k] ELSE looks[k]
  <2> HIDE DEF R
  <2> QED BY <1>2
<1>5. ASSUME NEW k \in 1..n PROVE r[k] \in Look
  <2>1. CASE R(k)
    <3>1. k \in i..n BY <1>1, <2>1
    <3>2. k = i \/ k \in (i + 1)..n BY <1>1, <3>1
    <3>3. \E o : scan[k] = Scan(Rendered(rows[k]), o) BY <1>3, <3>2
    <3>4. scan[k] \in Look BY <1>1, <3>3, ScanFits
    <3> HIDE DEF R
    <3> QED BY <1>4, <2>1, <3>4
  <2>2. CASE ~ R(k)
    <3> HIDE DEF R
    <3> QED BY <1>1, <1>4, <2>2
  <2> QED BY <2>1, <2>2
<1>6. r \in Seq(Look) /\ Len(r) = n
  <2>1. r \in [1..n -> Look]
    <3> HIDE DEF R
    <3> QED BY <1>2, <1>5
  <2> HIDE DEF R, n
  <2> QED BY <1>1, <2>1
<1>7. ASSUME NEW k \in 1..(i - 1) PROVE r[k] = looks[k]
  <2>1. k \in 1..n /\ ~ R(k) BY <1>1
  <2> HIDE DEF R
  <2> QED BY <1>4, <2>1
<1>8. r[i] = Scan(Rendered(rows[i]), open)
  <2>1. R(i) OBVIOUS
  <2> HIDE DEF R
  <2> QED BY <1>1, <1>3, <1>4, <2>1
<1>9. ASSUME NEW k \in (i + 1)..n
      PROVE  IF k <= nr /\ r[k - 1].open # looks[k - 1].open
             THEN r[k] = Scan(Rendered(rows[k]), r[k - 1].open)
             ELSE r[k] = looks[k]
  <2> DEFINE j == k - 1
  <2>1. k \in 1..n /\ j \in 1..n /\ k \in Nat /\ j \in i..n BY <1>1
  <2>2. R(k) <=> k <= nr /\ R(j) /\ scan[j].open # looks[j].open
    <3>1. ASSUME R(k) PROVE k <= nr /\ R(j) /\ scan[j].open # looks[j].open
      <4>1. k # i /\ k \in (i + 1)..nr BY <1>1, <3>1
      <4>2. \A l \in i..j : scan[l].open # looks[l].open BY <1>1, <3>1, <4>1
      <4>3. j \in i..j BY <1>1, <2>1
      <4>4. R(j) BY <1>1, <2>1, <4>1, <4>2
      <4> HIDE DEF R
      <4> QED BY <4>1, <4>2, <4>3, <4>4
    <3>2. ASSUME k <= nr, R(j), scan[j].open # looks[j].open PROVE R(k)
      <4>1. k \in (i + 1)..nr BY <1>1, <3>2
      <4>2. ASSUME NEW l \in i..(k - 1) PROVE scan[l].open # looks[l].open
        <5>1. CASE l = j BY <3>2, <5>1
        <5>2. CASE l # j
          <6>1. j # i /\ l \in i..(j - 1) BY <1>1, <2>1, <5>2
          <6> QED BY <3>2, <6>1
        <5> QED BY <5>1, <5>2
      <4> QED BY <4>1, <4>2
    <3> HIDE DEF R
    <3> QED BY <3>1, <3>2
  <2> HIDE DEF R
  <2>3. /\ r[k] = IF R(k) THEN scan[k] ELSE looks[k]
        /\ r[j] = IF R(j) THEN scan[j] ELSE looks[j]
    BY <1>4, <2>1
  <2>4. scan[k] = Scan(Rendered(rows[k]), scan[j].open) BY <1>3
  <2> HIDE DEF j
  <2>5. IF k <= nr /\ r[j].open # looks[j].open
        THEN r[k] = Scan(Rendered(rows[k]), r[j].open)
        ELSE r[k] = looks[k]
    <3>1. CASE R(k)
      <4>1. r[j] = scan[j] /\ r[k] = scan[k] BY <2>2, <2>3, <3>1
      <4> QED BY <2>2, <2>4, <3>1, <4>1
    <3>2. CASE ~ R(k)
      <4>1. r[k] = looks[k] BY <2>3, <3>2
      <4>2. ~ (k <= nr /\ r[j].open # looks[j].open) BY <2>2, <2>3, <3>2
      <4> QED BY <4>1, <4>2
    <3> QED BY <3>1, <3>2
  <2> QED BY <2>5 DEF j
<1>10. IsRescanned(rows, looks, i, nr, r)
  <2>1. r[i] = Scan(Rendered(rows[i]), OpenAbove(looks, i)) BY <1>8 DEF open
  <2> HIDE DEF R
  <2> QED BY <1>7, <2>1, <1>9 DEF IsRescanned
<1> QED BY <1>6, <1>10

\* What a scan leaves fits, if what it does not look at did.
LEMMA RescannedFits ==
  ASSUME NEW rows \in Texts, NEW looks \in Seq(Look), Len(looks) = Len(rows),
         NEW i \in 1..Len(rows), NEW nr \in Nat,
         \A k \in 1..Len(rows) : k # i => Fit(rows, looks, k)
  PROVE  Fits(rows, UpdateSyntax(rows, looks, i, nr))
<1> DEFINE r == UpdateSyntax(rows, looks, i, nr)
<1>1. /\ r \in Seq(Look) /\ Len(r) = Len(rows)
      /\ IsRescanned(rows, looks, i, nr, r)
  BY Rescans
<1> HIDE DEF r
<1>2. ASSUME NEW k \in 1..Len(rows) PROVE Fit(rows, r, k)
  <2>0. rows[k] \in Seq(Characters) /\ Len(rows) \in Nat BY DEF Texts
  <2>1. (r[k] = looks[k] /\ k # i) \/ \E o : r[k] = Scan(Rendered(rows[k]), o)
    <3>1. CASE k < i
      <4>1. k \in 1..(i - 1) BY <2>0, <3>1
      <4> QED BY <1>1, <4>1, <3>1 DEF IsRescanned
    <3>2. CASE k = i BY <1>1, <3>2 DEF IsRescanned
    <3>3. CASE k > i
      <4>1. k \in (i + 1)..Len(rows) BY <2>0, <3>3
      <4> QED BY <1>1, <4>1, <3>3 DEF IsRescanned
    <3> QED BY <2>0, <3>1, <3>2, <3>3
  <2>2. CASE r[k] = looks[k] /\ k # i BY <2>2 DEF Fit
  <2>3. CASE \E o : r[k] = Scan(Rendered(rows[k]), o) BY <2>0, <2>3, ScanFits DEF Fit
  <2> QED BY <2>1, <2>2, <2>3
<1> QED BY <1>1, <1>2 DEF Fits, r

\* The row that is scanned becomes right.
LEMMA RescannedHere ==
  ASSUME NEW rows \in Texts, NEW looks, NEW i \in 1..Len(rows), NEW nr,
         NEW r, IsRescanned(rows, looks, i, nr, r)
  PROVE  Right(rows, r, i)
<1>0. Len(rows) \in Nat BY DEF Texts
<1>1. i > 1 => r[i - 1] = looks[i - 1]
  <2>1. i > 1 => i - 1 \in 1..(i - 1) BY <1>0
  <2> QED BY <2>1 DEF IsRescanned
<1>2. r[i] = Scan(Rendered(rows[i]), OpenAbove(looks, i)) BY DEF IsRescanned
<1> QED BY <1>1, <1>2 DEF Right, OpenAbove

\* A row that was right stays so, or becomes it, and the one that was scanned is.
LEMMA RescannedRight ==
  ASSUME NEW rows \in Texts, NEW looks \in Seq(Look), Len(looks) = Len(rows),
         NEW i \in 1..Len(rows), NEW nr \in Nat,
         NEW r \in Seq(Look), Len(r) = Len(rows), IsRescanned(rows, looks, i, nr, r),
         NEW k \in 1..Len(rows), k = i \/ (Right(rows, looks, k) /\ k <= nr)
  PROVE  Right(rows, r, k)
<1>0. Len(rows) \in Nat BY DEF Texts
<1>1. CASE k < i
  <2>1. r[k] = looks[k] /\ (k > 1 => r[k - 1] = looks[k - 1])
    <3>1. k \in 1..(i - 1) /\ (k > 1 => k - 1 \in 1..(i - 1)) BY <1>0, <1>1
    <3> QED BY <3>1 DEF IsRescanned
  <2> QED BY <1>1, <2>1 DEF Right, OpenAbove
<1>2. CASE k = i
  <2>1. Right(rows, r, i) BY RescannedHere
  <2> QED BY <1>2, <2>1
<1>3. CASE k > i
  <2> DEFINE j == k - 1
             s == Rendered(rows[k])
  <2>1. k \in (i + 1)..Len(rows) /\ k > 1 /\ k <= nr /\ Right(rows, looks, k) BY <1>0, <1>3
  <2>2. IF r[j].open # looks[j].open
        THEN r[k] = Scan(s, r[j].open) ELSE r[k] = looks[k]
    BY <2>1 DEF IsRescanned
  <2>3. looks[k] = Scan(s, k > 1 /\ looks[j].open) BY <2>1 DEF Right, OpenAbove
  <2>4. Right(rows, r, k) <=> r[k] = Scan(s, k > 1 /\ r[j].open) BY DEF Right, OpenAbove
  <2>5. looks[j].open \in BOOLEAN /\ r[j].open \in BOOLEAN
    <3>1. j \in 1..Len(rows) BY <1>0, <2>1
    <3>2. \A l \in Look : l.open \in BOOLEAN BY DEF Look
    <3> HIDE DEF j
    <3>3. looks[j] \in Look /\ r[j] \in Look BY <3>1, ElementOfSeq
    <3> QED BY <3>2, <3>3
  <2> QED BY <2>1, <2>2, <2>3, <2>4, <2>5
<1> QED BY <1>0, <1>1, <1>2, <1>3

\* editorUpdateRow() keeps the looks of the rows.
LEMMA UpdateFits ==
  ASSUME NEW rows \in Texts, NEW looks, Fits(rows, looks),
         NEW i \in 1..Len(rows), NEW s \in Seq(Characters)
  PROVE  Fits(UpdateRow(rows, i, s), LookOfUpdate(rows, looks, i, s))
<1> DEFINE t == UpdateRow(rows, i, s)
<1>1. IsUpdated(rows, i, s, t) BY RowUpdated
<1>2. LookOfUpdate(rows, looks, i, s) = UpdateSyntax(t, looks, i, Len(rows))
  BY DEF LookOfUpdate, UpdateRow
<1> HIDE DEF t
<1>3. t \in Texts /\ Len(t) = Len(rows) /\ \A k \in 1..Len(rows) : k # i => t[k] = rows[k]
  BY <1>1 DEF IsUpdated
<1>4. looks \in Seq(Look) /\ Len(looks) = Len(t) /\ Len(rows) \in Nat BY <1>3 DEF Fits, Texts
<1>5. \A k \in 1..Len(t) : k # i => Fit(t, looks, k) BY <1>3 DEF Fits, Fit
<1>6. i \in 1..Len(t) BY <1>3
<1> QED BY <1>2, <1>3, <1>4, <1>5, <1>6, RescannedFits DEF t

\* ... and their colours right, also of the row that changed.
LEMMA UpdateRight ==
  ASSUME NEW rows \in Texts, NEW looks, Fits(rows, looks),
         NEW i \in 1..Len(rows), NEW s \in Seq(Characters),
         NEW k \in 1..Len(rows), k = i \/ Right(rows, looks, k)
  PROVE  Right(UpdateRow(rows, i, s), LookOfUpdate(rows, looks, i, s), k)
<1> DEFINE t == UpdateRow(rows, i, s)
           r == UpdateSyntax(t, looks, i, Len(rows))
<1>1. IsUpdated(rows, i, s, t) BY RowUpdated
<1>2. LookOfUpdate(rows, looks, i, s) = r BY DEF LookOfUpdate, UpdateRow
<1> HIDE DEF t
<1>3. t \in Texts /\ Len(t) = Len(rows) /\ \A j \in 1..Len(rows) : j # i => t[j] = rows[j]
  BY <1>1 DEF IsUpdated
<1>4. looks \in Seq(Look) /\ Len(looks) = Len(t) /\ Len(rows) \in Nat BY <1>3 DEF Fits, Texts
<1>5. i \in 1..Len(t) /\ k \in 1..Len(t) /\ k <= Len(rows) BY <1>3, <1>4
<1>6. k = i \/ Right(t, looks, k) BY <1>3 DEF Right
<1>7. r \in Seq(Look) /\ Len(r) = Len(t) /\ IsRescanned(t, looks, i, Len(rows), r)
  BY <1>3, <1>4, <1>5, Rescans
<1> HIDE DEF r
<1>8. Right(t, r, k) BY <1>3, <1>4, <1>5, <1>6, <1>7, RescannedRight
<1> QED BY <1>2, <1>8 DEF t

\* What LookOfInsert() makes: the rows t and the looks l with one more, scanned again
LookMade(rows, looks, i, s, t, l, r) ==
  /\ t \in Texts /\ Len(t) = Len(rows) + 1 /\ IsInserted(Seq(Characters), rows, i, s, t)
  /\ l \in Seq(Look) /\ Len(l) = Len(t) /\ IsInserted(Look, looks, i, Unscanned, l)
  /\ r \in Seq(Look) /\ Len(r) = Len(t) /\ IsRescanned(t, l, i, Len(rows), r)

\* editorInsertRow() keeps the looks of the rows.
LEMMA InsertFits ==
  ASSUME NEW rows \in Texts, NEW looks, Fits(rows, looks),
         NEW i \in 1..(Len(rows) + 1), NEW s \in Seq(Characters)
  PROVE  /\ Fits(InsertRow(rows, i, s), LookOfInsert(rows, looks, i, s))
         /\ \E l : LookMade(rows, looks, i, s, InsertRow(rows, i, s), l, LookOfInsert(rows, looks, i, s))
<1> DEFINE t == InsertAt(rows, i, s)
           u == Unscanned
           l == InsertAt(looks, i, u)
           r == UpdateSyntax(t, l, i, Len(rows))
<1>1. rows \in Seq(Seq(Characters)) /\ Len(rows) \in Nat BY DEF Texts
<1>2. looks \in Seq(Look) /\ Len(looks) = Len(rows) BY DEF Fits
<1>3. u \in Look
  <2>1. <<>> \in Seq(Colours) OBVIOUS
  <2> QED BY <2>1 DEF Unscanned, Look
<1>4. InsertRow(rows, i, s) = t /\ LookOfInsert(rows, looks, i, s) = r
  BY DEF InsertRow, LookOfInsert
<1> HIDE DEF u
<1>5. IsInserted(Seq(Characters), rows, i, s, t) BY <1>1, InsertedAt
<1>6. IsInserted(Look, looks, i, u, l) BY <1>2, <1>3, InsertedAt
<1> HIDE DEF t, l
<1>7. t \in Texts /\ Len(t) = Len(rows) + 1 BY <1>5 DEF IsInserted, Texts
<1>8. l \in Seq(Look) /\ Len(l) = Len(t) BY <1>2, <1>6, <1>7 DEF IsInserted
<1>9. i \in 1..Len(t) BY <1>7
<1>10. r \in Seq(Look) /\ Len(r) = Len(t) /\ IsRescanned(t, l, i, Len(rows), r)
  BY <1>1, <1>7, <1>8, <1>9, Rescans
<1>11. ASSUME NEW k \in 1..Len(t), k # i PROVE Fit(t, l, k)
  <2> DEFINE j == IF k < i THEN k ELSE k - 1
  <2>1. j \in 1..Len(rows) BY <1>1, <1>7, <1>11
  <2>2. k \in 1..(Len(rows) + 1) /\ k \in 1..(Len(looks) + 1) BY <1>2, <1>7
  <2>3. t[k] = rows[j] BY <1>5, <1>11, <2>2 DEF IsInserted
  <2>4. l[k] = looks[j] BY <1>6, <1>11, <2>2 DEF IsInserted
  <2> HIDE DEF j
  <2>5. Fit(rows, looks, j) BY <2>1 DEF Fits
  <2> QED BY <2>3, <2>4, <2>5 DEF Fit
<1>12. Fits(t, r) BY <1>1, <1>7, <1>8, <1>9, <1>11, RescannedFits
<1> HIDE DEF r
<1>13. LookMade(rows, looks, i, s, t, l, r) BY <1>5, <1>6, <1>7, <1>8, <1>10 DEF LookMade, u
<1> QED BY <1>4, <1>12, <1>13

\* editorDelRow() takes out a row and its look.
LEMMA DeleteFits ==
  ASSUME NEW rows \in Texts, NEW looks, Fits(rows, looks), NEW i \in 1..Len(rows)
  PROVE  /\ Fits(DelRow(rows, i), DelRow(looks, i))
         /\ IsRemoved(Seq(Characters), rows, i, DelRow(rows, i))
         /\ IsRemoved(Look, looks, i, DelRow(looks, i))
<1> DEFINE t == RemoveAt(rows, i)
           r == RemoveAt(looks, i)
<1>1. rows \in Seq(Seq(Characters)) /\ Len(rows) \in Nat BY DEF Texts
<1>2. looks \in Seq(Look) /\ Len(looks) = Len(rows) BY DEF Fits
<1>3. DelRow(rows, i) = t /\ DelRow(looks, i) = r BY DEF DelRow
<1>4. IsRemoved(Seq(Characters), rows, i, t) BY <1>1, RemovedAt
<1>5. IsRemoved(Look, looks, i, r) BY <1>2, RemovedAt
<1> HIDE DEF t, r
<1>6. r \in Seq(Look) /\ Len(t) = Len(rows) - 1 /\ Len(r) = Len(t) BY <1>2, <1>4, <1>5 DEF IsRemoved
<1>7. ASSUME NEW k \in 1..Len(t) PROVE Fit(t, r, k)
  <2> DEFINE j == IF k < i THEN k ELSE k + 1
  <2>1. j \in 1..Len(rows) BY <1>1, <1>6
  <2>2. k \in 1..(Len(rows) - 1) /\ k \in 1..(Len(looks) - 1) BY <1>2, <1>6
  <2>3. t[k] = rows[j] BY <1>4, <2>2 DEF IsRemoved
  <2>4. r[k] = looks[j] BY <1>5, <2>2 DEF IsRemoved
  <2> HIDE DEF j
  <2>5. Fit(rows, looks, j) BY <2>1 DEF Fits
  <2> QED BY <2>3, <2>4, <2>5 DEF Fit
<1>8. Fits(t, r) BY <1>6, <1>7 DEF Fits
<1> QED BY <1>3, <1>4, <1>5, <1>8

-----------------------------------------------------------------------------
(* The match of a search *)

\* The looks with the match of q at column m of row i marked
Marked(looks, i, m, q) ==
  [looks EXCEPT ![i].hl = [k \in 1..Len(@) |->
                             IF k \in (m + 1)..(m + Len(q)) THEN "match" ELSE @[k]]]

\* A search stands at its match at column m
Stands(m) ==
  /\ m \in Hits(Rendered(text[find.line]), find.query)
  /\ look = Marked(Unmarked, find.line, m, find.query)
  /\ cursor = At(find.line - 1, RxToCx(text[find.line], m))

\* Without the mark of a search the looks are those of the rows, and the mark
\* is where the cursor is
LooksInv ==
  /\ Fits(text, Looks)
  /\ mode = "find" =>
       find.query \in Seq(Characters) /\ (find.line # 0 => \E m \in Nat : Stands(m))

\* A search found nothing
Missed(query) == find'.line = 0 /\ find'.query = query /\ look' = Unmarked

\* A search found query in row i, at column m
Found(query, i, m) ==
  /\ m \in Hits(Rendered(text[i]), query)
  /\ find'.line = i /\ find'.query = query /\ find'.hl = Unmarked[i].hl
  /\ look' = Marked(Unmarked, i, m, query)
  /\ cursor' = At(i - 1, RxToCx(text[i], m))

\* A search finds its query in a row of the text, or not at all.
LEMMA SearchEnds ==
  ASSUME CursorInText, mode = "find", NEW key, NEW query, Searched(key, query)
  PROVE  Missed(query) \/ \E i \in 1..Len(text), m \in Nat : Found(query, i, m)
<1> DEFINE n    == Len(text)
           last == IF key \in {"next", "prev"} THEN find.last ELSE 0
           dir  == IF key = "prev" /\ last # 0 THEN -1 ELSE 1
           Visited(i) == ((last - 1 + dir * i) % n) + 1
           found == {i \in 1..n : Hits(Rendered(text[Visited(i)]), query) # {}}
<1>1. n \in Nat /\ find.last \in Nat /\ DOMAIN find = DOMAIN NoSearch BY SearchFacts
<1>2. DOMAIN NoSearch = {"query", "last", "dir", "line", "hl", "from"} BY DEF NoSearch
<1>3. last \in Nat /\ dir \in {-1, 1} BY <1>1
<1>4. CASE found = {}
  <2>1. /\ find' = [find EXCEPT !.query = query, !.last = last, !.dir = dir,
                                 !.line = 0, !.hl = <<>>]
        /\ look' = Unmarked
    BY <1>4 DEF Searched
  <2> HIDE DEF last, dir, n
  <2>2. find'.line = 0 /\ find'.query = query BY <1>1, <1>2, <2>1
  <2> QED BY <2>1, <2>2 DEF Missed
<1>5. CASE found # {}
  <2> DEFINE row  == Visited(Min(found))
             hits == Hits(Rendered(text[row]), query)
             m    == Min(hits)
             hl   == Unmarked[row].hl
  <2>1. /\ find' = [find EXCEPT !.query = query, !.last = row, !.dir = dir,
                                 !.line = row, !.hl = hl]
        /\ look' = Marked(Unmarked, row, m, query)
        /\ cursor' = At(row - 1, RxToCx(text[row], m))
    BY <1>5 DEF Searched, Marked
  <2>2. Min(found) \in found /\ found \subseteq 1..n
    <3>1. found \in SUBSET Nat /\ found \subseteq 1..n BY <1>1
    <3> HIDE DEF found
    <3> QED BY <1>5, <3>1, MinIn
  <2>3. hits # {}
    <3> DEFINE first == Min(found)
    <3>1. first \in found BY <2>2
    <3> HIDE DEF first
    <3> QED BY <3>1 DEF first
  <2>4. row \in 1..n
    <3> HIDE DEF last, dir
    <3>1. Min(found) \in 1..n BY <2>2
    <3> HIDE DEF found
    <3>2. n \in Nat \ {0} /\ Min(found) \in Nat BY <1>1, <3>1
    <3> HIDE DEF n
    <3> QED BY <1>3, <3>2, VisitedIn
  <2> HIDE DEF row, found, dir, last
  <2>5. m \in hits /\ m \in Nat
    <3>1. hits \in SUBSET Nat BY DEF Hits
    <3> HIDE DEF hits
    <3> QED BY <2>3, <3>1, MinIn
  <2> HIDE DEF m, hl, n
  <2>6. find'.line = row /\ find'.query = query /\ find'.hl = hl BY <1>1, <1>2, <2>1
  <2>7. Found(query, row, m) BY <2>1, <2>5, <2>6 DEF Found, hl
  <2> QED BY <2>4, <2>5, <2>7 DEF n
<1> QED BY <1>4, <1>5

\* A mark is taken off again.
LEMMA MarkTakenOff ==
  ASSUME NEW looks \in Seq(Look), NEW i \in 1..Len(looks), NEW m, NEW q
  PROVE  [Marked(looks, i, m, q) EXCEPT ![i].hl = looks[i].hl] = looks
<1> DEFINE x == [k \in 1..Len(looks[i].hl) |->
                   IF k \in (m + 1)..(m + Len(q)) THEN "match" ELSE looks[i].hl[k]]
           l == looks[i]
           y == [l EXCEPT !.hl = x]
<1>1. l \in Look BY ElementOfSeq
<1>2. Marked(looks, i, m, q) = [looks EXCEPT ![i] = y] BY DEF Marked
<1> HIDE DEF x
<1>3. [y EXCEPT !.hl = l.hl] = l BY <1>1 DEF Look
<1>4. [[looks EXCEPT ![i] = y] EXCEPT ![i].hl = l.hl] = looks
  <2> HIDE DEF y
  <2>1. [[looks EXCEPT ![i] = y] EXCEPT ![i].hl = l.hl] = [looks EXCEPT ![i] = [y EXCEPT !.hl = l.hl]]
    OBVIOUS
  <2>2. [looks EXCEPT ![i] = l] = looks OBVIOUS
  <2> QED BY <1>3, <2>1, <2>2
<1> QED BY <1>2, <1>4

\* A key of a search leaves the looks below the mark alone.
LEMMA SearchedLooks ==
  ASSUME CursorInText, LooksInv, mode = "find", NEW key, NEW query \in Seq(Characters),
         Searched(key, query), mode' = mode, text' = text
  PROVE  LooksInv' /\ Looks' = Looks
<1>1. Looks = Unmarked /\ Looks' = Unmarked' BY DEF Looks
<1>2. Unmarked \in Seq(Look) /\ Len(Unmarked) = Len(text) BY <1>1 DEF LooksInv, Fits
<1>3. CASE Missed(query)
  <2>1. Unmarked' = Unmarked BY <1>3 DEF Missed, Unmarked
  <2>2. Fits(text, Looks)' BY <1>1, <2>1 DEF LooksInv
  <2> QED BY <1>1, <1>3, <2>1, <2>2 DEF LooksInv, Missed
<1>4. ASSUME NEW i \in 1..Len(text), NEW m \in Nat, Found(query, i, m)
      PROVE  LooksInv' /\ Looks' = Looks
  <2>0. i # 0
    <3>1. Len(text) \in Nat BY SearchFacts
    <3> QED BY <3>1
  <2>1. Unmarked' = Unmarked
    <3>1. Unmarked' = [Marked(Unmarked, i, m, query) EXCEPT ![i].hl = Unmarked[i].hl]
      <4>1. find'.line = i /\ find'.hl = Unmarked[i].hl /\ look' = Marked(Unmarked, i, m, query)
        BY <1>4 DEF Found
      <4>2. Unmarked' = IF find'.line = 0 THEN look' ELSE [look' EXCEPT ![find'.line].hl = find'.hl]
        BY DEF Unmarked
      <4> QED BY <2>0, <4>1, <4>2
    <3> QED BY <1>2, <3>1, MarkTakenOff
  <2>2. Fits(text, Looks)' BY <1>1, <2>1 DEF LooksInv
  <2>3. Stands(m)' BY <1>4, <2>1 DEF Found, Stands
  <2>4. find'.query \in Seq(Characters) BY <1>4 DEF Found
  <2> QED BY <1>1, <2>1, <2>2, <2>3, <2>4 DEF LooksInv
<1> QED BY <1>3, <1>4, SearchEnds

\* A look has colours, and says what is open.
LEMMA LookType ==
  ASSUME NEW looks \in Seq(Look), NEW i \in 1..Len(looks)
  PROVE  /\ looks[i] \in Look /\ DOMAIN looks[i] = {"open", "hl"}
         /\ looks[i].hl \in Seq(Colours) /\ looks[i].open \in BOOLEAN
<1> DEFINE l == looks[i]
<1>1. l \in Look BY ElementOfSeq
<1> HIDE DEF l
<1>2. DOMAIN l = {"open", "hl"} /\ l.hl \in Seq(Colours) /\ l.open \in BOOLEAN BY <1>1 DEF Look
<1> QED BY <1>1, <1>2 DEF l

\* The mark is m+1 to m+n.
LEMMA MarkIs ==
  ASSUME NEW looks \in Seq(Look), NEW i \in 1..Len(looks), NEW m \in Nat, NEW q \in Seq(Characters),
         m + Len(q) <= Len(looks[i].hl), NEW r, r = Marked(looks, i, m, q)
  PROVE  /\ {k \in DOMAIN r[i].hl : r[i].hl[k] = "match"} = (m + 1)..(m + Len(q))
         /\ \A j \in 1..Len(looks) : j # i => {k \in DOMAIN r[j].hl : r[j].hl[k] = "match"} = {}
<1> DEFINE l == looks[i]
           h == l.hl
           x == [k \in 1..Len(h) |-> IF k \in (m + 1)..(m + Len(q)) THEN "match" ELSE h[k]]
<1>1. \A j \in 1..Len(looks) : looks[j].hl \in Seq(Colours) BY LookType
<1>2. \A c \in Colours : c # "match" BY DEF Colours
<1>3. \A j \in 1..Len(looks) : \A k \in DOMAIN looks[j].hl : looks[j].hl[k] # "match"
  BY <1>1, <1>2
<1>4. h \in Seq(Colours) /\ Len(h) \in Nat /\ DOMAIN h = 1..Len(h) /\ Len(q) \in Nat
      /\ m + Len(q) <= Len(h)
  BY <1>1
<1>5. l \in Look /\ DOMAIN l = {"open", "hl"} BY LookType
<1>6. r = [looks EXCEPT ![i] = [l EXCEPT !.hl = x]] BY DEF Marked
<1> HIDE DEF x
<1>7. r[i].hl = x /\ \A j \in 1..Len(looks) : j # i => r[j] = looks[j]
  <2>1. r[i] = [l EXCEPT !.hl = x] /\ \A j \in 1..Len(looks) : j # i => r[j] = looks[j] BY <1>6
  <2> QED BY <1>5, <2>1
<1>8. {k \in DOMAIN x : x[k] = "match"} = (m + 1)..(m + Len(q))
  <2>1. \A k \in 1..Len(h) : h[k] # "match" BY <1>3, <1>4
  <2>2. DOMAIN x = 1..Len(h)
        /\ \A k \in 1..Len(h) : x[k] = IF k \in (m + 1)..(m + Len(q)) THEN "match" ELSE h[k]
    BY DEF x
  <2> HIDE DEF h
  <2> QED BY <1>4, <2>1, <2>2
<1> QED BY <1>3, <1>7, <1>8

\* The first and the last of some numbers, and how many they are.
LEMMA FromTo ==
  ASSUME NEW a \in Nat, NEW b \in Nat
  PROVE  /\ Cardinality((a + 1)..(a + b)) = b
         /\ (a + 1)..(a + b) # {} =>
              b > 0 /\ Min((a + 1)..(a + b)) = a + 1 /\ Max((a + 1)..(a + b)) = a + b
<1> DEFINE T == (a + 1)..(a + b)
<1>1. Cardinality(T) = b
  <2>1. Cardinality(T) = IF a + 1 > a + b THEN 0 ELSE a + b - (a + 1) + 1
    <3>1. a + 1 \in Int /\ a + b \in Int OBVIOUS
    <3> QED BY <3>1, FS_Interval
  <2> HIDE DEF T
  <2> QED BY <2>1
<1>2. ASSUME T # {} PROVE b > 0 /\ Min(T) = a + 1 /\ Max(T) = a + b
  <2>1. b > 0 /\ a + 1 \in T /\ a + b \in T /\ \A k \in T : a + 1 <= k /\ k <= a + b BY <1>2
  <2>2. T \in SUBSET Nat OBVIOUS
  <2>3. Min(T) \in T /\ \A k \in T : Min(T) <= k
    <3> HIDE DEF T
    <3> QED BY <1>2, <2>2, MinIn
  <2>4. Max(T) \in T /\ \A k \in T : Max(T) >= k
    <3> DEFINE x == a + b
    <3>1. x \in T /\ \A k \in T : x >= k BY <2>1
    <3> HIDE DEF T, x
    <3> QED BY <3>1 DEF Max
  <2> DEFINE u == Min(T)
             v == Max(T)
             x == a + 1
             y == a + b
  <2>5. u \in T /\ u <= x /\ v \in T /\ v >= y
    <3> HIDE DEF T, x, y
    <3> QED BY <2>1, <2>3, <2>4 DEF x, y
  <2>6. u >= x /\ v <= y
    <3> HIDE DEF T, u, v
    <3> QED BY <2>1, <2>5
  <2>7. T \subseteq Nat OBVIOUS
  <2> HIDE DEF T, u, v
  <2>8. u = x /\ v = y BY <2>5, <2>6, <2>7
  <2> QED BY <2>1, <2>8 DEF u, v
<1> QED BY <1>1, <1>2

\* The character drawn at a column of the row is the one RxToCx() names.
LEMMA DrawnThere ==
  ASSUME NEW s \in Seq(Characters), NEW m \in Nat, m < Len(Rendered(s)),
         NEW cx, cx = RxToCx(s, m)
  PROVE  CxToRx(s, cx) <= m /\ m < CxToRx(s, cx + 1) /\ CxToRx(s, cx) \in Nat /\ CxToRx(s, cx + 1) \in Nat
<1> DEFINE n == Len(s)
           U == {c \in 0..(n - 1) : CxToRx(s, c + 1) > m}
           T == U \cup {n}
<1>0. n \in Nat OBVIOUS
<1>1. /\ CxToRx(s, 0) = 0 /\ CxToRx(s, n) = Len(Rendered(s))
      /\ \A c \in 0..n : CxToRx(s, c) \in Nat
  BY Columns
<1>2. cx = Min(T) BY DEF RxToCx
<1>3. cx \in T /\ \A k \in T : cx <= k
  <2>1. T \in SUBSET Nat /\ T # {} BY <1>0
  <2> HIDE DEF T
  <2> QED BY <1>2, <2>1, MinIn
<1> HIDE DEF n
<1>4. n - 1 \in U
  <2>1. n # 0 BY <1>1
  <2>2. n - 1 \in 0..(n - 1) /\ (n - 1) + 1 = n BY <1>0, <2>1
  <2> QED BY <1>1, <2>2
<1>5. cx \in U
  <2>1. cx <= n - 1 BY <1>3, <1>4
  <2> HIDE DEF U
  <2> QED BY <1>0, <1>3, <2>1
<1>6. cx \in 0..(n - 1) /\ CxToRx(s, cx + 1) > m BY <1>5
<1>7. cx \in 0..n /\ cx + 1 \in 0..n BY <1>0, <1>6
<1>8. CxToRx(s, cx) <= m
  <2>1. CASE cx = 0 BY <1>1, <2>1
  <2>2. CASE cx # 0
    <3>1. cx - 1 \in 0..(n - 1) /\ (cx - 1) + 1 = cx /\ cx - 1 < cx BY <1>0, <1>6, <2>2
    <3>2. cx - 1 \notin T
      <4> HIDE DEF T
      <4> QED BY <1>3, <1>6, <3>1
    <3>3. ~ (CxToRx(s, cx) > m) BY <3>1, <3>2
    <3> QED BY <1>1, <1>7, <3>3
  <2> QED BY <2>1, <2>2
<1> QED BY <1>1, <1>6, <1>7, <1>8

\* The match is where the cursor is.
LEMMA FoundThere ==
  ASSUME CursorInText, LooksInv PROVE FoundIsThere
<1>1. text \in Texts /\ Len(text) \in Nat /\ DOMAIN text = 1..Len(text) BY Facts DEF Texts
<1>2. Looks \in Seq(Look) /\ Len(Looks) = Len(text)
      /\ \A i \in 1..Len(text) : Len(Looks[i].hl) = Len(Rendered(text[i]))
  BY DEF LooksInv, Fits, Fit
<1>3. \A looks \in Seq(Look) : \A i \in 1..Len(looks) :
        {k \in DOMAIN looks[i].hl : looks[i].hl[k] = "match"} = {}
  <2> SUFFICES ASSUME NEW looks \in Seq(Look), NEW i \in 1..Len(looks)
               PROVE  {k \in DOMAIN looks[i].hl : looks[i].hl[k] = "match"} = {}
    OBVIOUS
  <2>1. looks[i].hl \in Seq(Colours) BY LookType
  <2>2. "match" \notin Colours BY DEF Colours
  <2> QED BY <2>1, <2>2
<1>4. CASE mode # "find" \/ find.line = 0
  <2>1. Looks = look BY <1>4 DEF Looks, Unmarked
  <2>2. \A i \in DOMAIN text : MarkOf(i) = {} BY <1>1, <1>2, <1>3, <2>1 DEF MarkOf
  <2> QED BY <1>4, <2>2 DEF FoundIsThere
<1>5. CASE mode = "find" /\ find.line # 0
  <2> DEFINE i     == find.line
             q     == find.query
             s     == text[i]
             drawn == Rendered(s)
             mark  == MarkOf(i)
             cx    == cursor.cx
  <2>1. i \in 1..Len(text)
    <3>1. i \in 0..Len(text) BY <1>5 DEF CursorInText
    <3> QED BY <1>1, <1>5, <3>1
  <2>2. PICK m \in Nat : Stands(m) BY <1>5 DEF LooksInv
  <2>3. /\ q \in Seq(Characters) /\ s \in Seq(Characters) /\ Len(q) \in Nat
        /\ drawn \in Seq(Drawn) /\ Len(drawn) \in Nat
    <3>1. q \in Seq(Characters) BY <1>5 DEF LooksInv
    <3>2. s \in Seq(Characters) BY <1>1, <2>1 DEF Texts
    <3>3. drawn \in Seq(Drawn) BY <3>2, Columns
    <3> QED BY <3>1, <3>2, <3>3, LenProperties
  <2>4. m + Len(q) <= Len(drawn) /\ SubSeq(drawn, m + 1, m + Len(q)) = q
    BY <2>2, <2>3 DEF Stands, Hits
  <2>5. look = Marked(Unmarked, i, m, q) /\ Looks = Unmarked BY <1>5, <2>2 DEF Stands, Looks
  <2>6. Unmarked \in Seq(Look) /\ Len(Unmarked) = Len(text) /\ Len(Unmarked[i].hl) = Len(drawn)
    BY <1>2, <2>1, <2>5
  <2> HIDE DEF i, q, drawn, cx
  <2>7. /\ mark = (m + 1)..(m + Len(q))
        /\ \A j \in 1..Len(text) : j # i => MarkOf(j) = {}
    BY <2>1, <2>3, <2>4, <2>5, <2>6, MarkIs DEF MarkOf
  <2> HIDE DEF mark, s
  <2>8. cursor.cy = i - 1 /\ cx = RxToCx(s, m) BY <2>2 DEF Stands, At, i, cx, s
  <2>9. Cardinality(mark) = Len(q) BY <2>3, <2>7, FromTo
  <2>10. ASSUME mark # {}
         PROVE  /\ SubSeq(drawn, Min(mark), Max(mark)) = q
                /\ CxToRx(s, cx) < Min(mark)
                /\ Min(mark) <= CxToRx(s, cx + 1)
    <3>1. Len(q) > 0 /\ Min(mark) = m + 1 /\ Max(mark) = m + Len(q)
      BY <2>3, <2>7, <2>10, FromTo
    <3>2. m < Len(Rendered(s)) BY <2>3, <2>4, <3>1 DEF drawn
    <3>3. /\ CxToRx(s, cx) <= m /\ m < CxToRx(s, cx + 1)
          /\ CxToRx(s, cx) \in Nat /\ CxToRx(s, cx + 1) \in Nat
      BY <2>3, <2>8, <3>2, DrawnThere
    <3>4. CxToRx(s, cx) < Min(mark) /\ Min(mark) <= CxToRx(s, cx + 1) BY <3>1, <3>3
    <3> QED BY <2>4, <3>1, <3>4
  <2>11. \A j \in DOMAIN text : MarkOf(j) # {} => j = i BY <1>1, <2>7
  <2> QED BY <1>5, <2>8, <2>9, <2>10, <2>11 DEF FoundIsThere, i, q, s, drawn, mark, cx
<1> QED BY <1>4, <1>5

-----------------------------------------------------------------------------
(* The colours of the rows *)

AllRight(rows, looks) == \A k \in 1..Len(rows) : Right(rows, looks, k)

\* An empty row between others takes over what is open above it, and hands it on.
LEMMA EmptyRight ==
  ASSUME NEW rows \in Texts, NEW looks, Fits(rows, looks), AllRight(rows, looks),
         NEW i \in 1..(Len(rows) + 1),
         NEW s, s = <<>>
  PROVE  AllRight(InsertRow(rows, i, s), LookOfInsert(rows, looks, i, s))
<1> DEFINE n == Len(rows)
           t == InsertRow(rows, i, s)
           r == LookOfInsert(rows, looks, i, s)
<1>0. n \in Nat /\ i \in Nat /\ s \in Seq(Characters) /\ looks \in Seq(Look) /\ Len(looks) = n
  BY DEF Texts, Fits
<1>1. PICK l : LookMade(rows, looks, i, s, t, l, r) BY <1>0, InsertFits
<1> HIDE DEF t, r
<1>2. /\ t \in Texts /\ Len(t) = n + 1
      /\ l \in Seq(Look) /\ Len(l) = Len(t)
      /\ r \in Seq(Look) /\ Len(r) = Len(t) /\ IsRescanned(t, l, i, n, r)
  BY <1>1 DEF LookMade
<1>3. /\ \A k \in 1..(n + 1) : k < i => t[k] = rows[k] /\ l[k] = looks[k]
      /\ \A k \in 1..(n + 1) : k > i => t[k] = rows[k - 1] /\ l[k] = looks[k - 1]
      /\ t[i] = s
  BY <1>0, <1>1 DEF LookMade, IsInserted
<1>4. OpenAbove(l, i) = OpenAbove(looks, i)
  <2>1. i > 1 => l[i - 1] = looks[i - 1] BY <1>0, <1>3
  <2> QED BY <2>1 DEF OpenAbove
<1>5. r[i].open = OpenAbove(looks, i)
  <2>1. OpenAbove(looks, i) \in BOOLEAN BY DEF OpenAbove
  <2>2. r[i] = Scan(Rendered(s), OpenAbove(looks, i)) BY <1>2, <1>3, <1>4 DEF IsRescanned
  <2> QED BY <2>1, <2>2, ScanOfNothing
<1>6. ASSUME i <= n
      PROVE  /\ l[i + 1] = looks[i] /\ t[i + 1] = rows[i] /\ r[i + 1] = looks[i]
             /\ looks[i] = Scan(Rendered(rows[i]), OpenAbove(looks, i))
  <2>1. i + 1 \in (i + 1)..Len(t) /\ i + 1 \in 1..(n + 1) /\ i + 1 > i /\ (i + 1) - 1 = i
    BY <1>0, <1>2, <1>6
  <2>2. l[i + 1] = looks[i] /\ t[i + 1] = rows[i] BY <1>3, <2>1
  <2>3. looks[i] = Scan(Rendered(rows[i]), OpenAbove(looks, i))
    BY <1>0, <1>6 DEF AllRight, Right
  <2>4. \/ r[i + 1] = Scan(Rendered(t[i + 1]), r[i].open)
        \/ r[i + 1] = l[i + 1]
    BY <1>2, <2>1 DEF IsRescanned
  <2>5. r[i + 1] = looks[i] BY <1>5, <2>2, <2>3, <2>4
  <2> QED BY <2>2, <2>3, <2>5
<1>7. ASSUME NEW k \in (i + 1)..(n + 1) PROVE r[k] = looks[k - 1]
  <2> DEFINE U == {j \in (i + 1)..(n + 1) : r[j] # looks[j - 1]}
  <2>1. U = {}
    <3> SUFFICES ASSUME U # {} PROVE FALSE OBVIOUS
    <3>1. PICK m \in U : \A j \in U : m <= j
      <4>1. U \in SUBSET Nat BY <1>0
      <4> HIDE DEF U
      <4> QED BY <4>1, LeastNat
    <3>2. m \in (i + 1)..(n + 1) /\ m # i + 1
      <4>1. m = i + 1 => i <= n /\ m - 1 = i BY <1>0, <3>1
      <4> QED BY <1>6, <3>1, <4>1
    <3>3. m - 1 \in (i + 1)..(n + 1) /\ m - 1 \notin U BY <1>0, <3>1, <3>2
    <3>4. r[m - 1] = looks[(m - 1) - 1] BY <3>3
    <3>5. l[m - 1] = looks[(m - 1) - 1] /\ l[m] = looks[m - 1]
      <4>1. m - 1 \in 1..(n + 1) /\ m - 1 > i /\ m \in 1..(n + 1) /\ m > i BY <1>0, <3>2, <3>3
      <4> QED BY <1>3, <4>1
    <3>6. m \in (i + 1)..Len(t) BY <1>2, <3>2
    <3>7. r[m] = l[m] BY <1>2, <3>4, <3>5, <3>6 DEF IsRescanned
    <3> QED BY <3>1, <3>5, <3>7
  <2> QED BY <2>1
<1>8. ASSUME NEW k \in 1..(n + 1) PROVE Right(t, r, k)
  <2>1. CASE k < i
    <3>1. t[k] = rows[k] /\ l[k] = looks[k] /\ (k > 1 => l[k - 1] = looks[k - 1])
      <4>1. k > 1 => k - 1 \in 1..(n + 1) /\ k - 1 < i BY <1>0, <2>1
      <4> QED BY <1>3, <2>1, <4>1
    <3>2. k \in 1..n /\ k <= n BY <1>0, <2>1
    <3>3. Right(t, l, k) BY <3>1, <3>2 DEF AllRight, Right, OpenAbove
    <3>4. i \in 1..Len(t) /\ k \in 1..Len(t) BY <1>2
    <3> QED BY <1>0, <1>2, <3>2, <3>3, <3>4, RescannedRight
  <2>2. CASE k = i
    <3>1. i \in 1..Len(t) BY <1>2
    <3>2. Right(t, r, i) BY <1>0, <1>2, <3>1, RescannedHere
    <3> QED BY <2>2, <3>2
  <2>3. CASE k = i + 1
    <3>1. i <= n /\ k > 1 /\ k - 1 = i BY <1>0, <2>3
    <3>2. r[k] = Scan(Rendered(t[k]), OpenAbove(looks, i)) BY <1>6, <2>3, <3>1
    <3>3. OpenAbove(r, k) = OpenAbove(looks, i)
      <4>1. OpenAbove(looks, i) \in BOOLEAN BY DEF OpenAbove
      <4>2. OpenAbove(r, k) = (k > 1 /\ r[i].open) BY <3>1 DEF OpenAbove
      <4> QED BY <1>5, <3>1, <4>1, <4>2
    <3> QED BY <3>2, <3>3 DEF Right
  <2>4. CASE k > i + 1
    <3> DEFINE j == k - 1
               h == j - 1
    <3>1. k \in (i + 1)..(n + 1) /\ j \in (i + 1)..(n + 1) /\ j \in 1..n /\ j > 1 /\ k > 1 BY <1>0, <2>4
    <3>2. r[k] = looks[j] /\ r[j] = looks[h] BY <1>7, <3>1
    <3>3. t[k] = rows[j] BY <1>0, <1>3, <2>4
    <3>4. looks[j] = Scan(Rendered(rows[j]), OpenAbove(looks, j)) BY <3>1 DEF AllRight, Right
    <3>5. OpenAbove(looks, j) = looks[h].open /\ OpenAbove(r, k) = r[j].open
      <4>1. OpenAbove(looks, j) = (j > 1 /\ looks[h].open) BY DEF OpenAbove
      <4>2. OpenAbove(r, k) = (k > 1 /\ r[j].open) BY DEF OpenAbove
      <4>3. looks[h].open \in BOOLEAN
        <5>1. h \in 1..Len(looks) BY <1>0, <3>1
        <5> HIDE DEF h
        <5> QED BY <1>0, <5>1, LookType
      <4> HIDE DEF h, j
      <4> QED BY <3>1, <3>2, <4>1, <4>2, <4>3
    <3> HIDE DEF h, j
    <3> QED BY <3>2, <3>3, <3>4, <3>5 DEF Right
  <2> QED BY <1>0, <2>1, <2>2, <2>3, <2>4
<1> QED BY <1>2, <1>8 DEF AllRight, t, r

\* A row that is split leaves at most two others behind: the last one, and the one
\* below if the second part has no comment open where the whole row had one.
LEMMA SplitRight ==
  ASSUME NEW rows \in Texts, NEW looks, Fits(rows, looks), AllRight(rows, looks),
         NEW i \in 1..Len(rows), NEW a \in Seq(Characters), NEW b \in Seq(Characters),
         NEW t, t = InsertRow(rows, i + 1, b), NEW l, l = LookOfInsert(rows, looks, i + 1, b),
         NEW u, u = UpdateRow(t, i, a), NEW r, r = LookOfUpdate(t, l, i, a),
         NEW k \in 1..Len(rows), ~ (k = i + 2 /\ looks[i].open /\ ~ r[i + 1].open)
  PROVE  Right(u, r, k)
<1> DEFINE n == Len(rows)
           j == i + 1
<1>0. /\ n \in Nat /\ i \in Nat /\ j \in 1..(n + 1) /\ j \in Nat
      /\ looks \in Seq(Look) /\ Len(looks) = n /\ k \in Nat
  BY DEF Texts, Fits
<1>1. /\ Fits(t, l)
      /\ \E m : LookMade(rows, looks, j, b, t, m, l)
  BY <1>0, InsertFits
<1>2. PICK m : LookMade(rows, looks, j, b, t, m, l) BY <1>1
<1>3. /\ t \in Texts /\ Len(t) = n + 1
      /\ m \in Seq(Look) /\ Len(m) = Len(t)
      /\ l \in Seq(Look) /\ Len(l) = Len(t) /\ IsRescanned(t, m, j, n, l)
  BY <1>2 DEF LookMade
<1>4. /\ \A h \in 1..(n + 1) : h < j => t[h] = rows[h] /\ m[h] = looks[h]
      /\ \A h \in 1..(n + 1) : h > j => t[h] = rows[h - 1] /\ m[h] = looks[h - 1]
      /\ t[j] = b /\ m[j] = Unscanned
  <2>1. IsInserted(Seq(Characters), rows, j, b, t) /\ IsInserted(Look, looks, j, Unscanned, m)
    BY <1>2 DEF LookMade
  <2> HIDE DEF j
  <2>2. /\ \A h \in 1..(n + 1) : t[h] = IF h < j THEN rows[h] ELSE IF h = j THEN b ELSE rows[h - 1]
        /\ \A h \in 1..(n + 1) :
             m[h] = IF h < j THEN looks[h] ELSE IF h = j THEN Unscanned ELSE looks[h - 1]
    BY <1>0, <2>1 DEF IsInserted
  <2> QED BY <1>0, <2>2
<1>5. i \in 1..Len(t) /\ k \in 1..Len(t) /\ j \in 1..Len(t) BY <1>0, <1>3
<1>6. ASSUME k = i \/ Right(t, l, k) PROVE Right(u, r, k)
  BY <1>1, <1>3, <1>5, <1>6, UpdateRight
<1>7. ASSUME k = j \/ Right(t, m, k) PROVE Right(t, l, k)
  <2>1. CASE k = j
    <3>1. Right(t, l, j) BY <1>0, <1>3, <1>5, RescannedHere
    <3> QED BY <2>1, <3>1
  <2>2. CASE Right(t, m, k) BY <1>0, <1>3, <1>5, <2>2, RescannedRight
  <2> QED BY <1>7, <2>1, <2>2
<1>8. CASE k < i
  <2>1. t[k] = rows[k] /\ m[k] = looks[k] /\ (k > 1 => m[k - 1] = looks[k - 1])
    <3>1. (k > 1 => k - 1 \in 1..(n + 1) /\ k - 1 < j) /\ k \in 1..(n + 1) /\ k < j BY <1>0, <1>8
    <3> QED BY <1>4, <3>1
  <2>2. Right(t, m, k) BY <2>1 DEF AllRight, Right, OpenAbove
  <2> QED BY <1>6, <1>7, <2>2
<1>9. CASE k = i BY <1>6, <1>9
<1>10. CASE k = j BY <1>6, <1>7, <1>10
<1>11. CASE k > j + 1
  <2> DEFINE h == k - 1
             g == h - 1
  <2>1. k \in 1..(n + 1) /\ k > j /\ h \in 1..(n + 1) /\ h > j /\ h > 1 /\ k > 1 /\ h \in 1..n /\ g \in 1..n
    BY <1>0, <1>11
  <2>2. t[k] = rows[h] /\ m[k] = looks[h] /\ m[h] = looks[g] BY <1>4, <2>1
  <2>3. looks[h] = Scan(Rendered(rows[h]), OpenAbove(looks, h)) BY <2>1 DEF AllRight, Right
  <2>4. OpenAbove(looks, h) = OpenAbove(m, k)
    <3>1. OpenAbove(looks, h) = (h > 1 /\ looks[g].open) BY DEF OpenAbove
    <3>2. OpenAbove(m, k) = (k > 1 /\ m[h].open) BY DEF OpenAbove
    <3>3. looks[g].open \in BOOLEAN BY <1>0, <2>1, LookType
    <3> HIDE DEF h, g
    <3> QED BY <2>1, <2>2, <3>1, <3>2, <3>3
  <2> HIDE DEF h, g
  <2>5. Right(t, m, k) BY <2>2, <2>3, <2>4 DEF Right
  <2> QED BY <1>6, <1>7, <2>5
<1>12. CASE k = j + 1
  <2>0. k \in (j + 1)..Len(t) /\ k <= n /\ k - 1 = j /\ k \in 1..(n + 1) /\ k > j /\ k > 1 /\ k = i + 2 /\ j \in 1..n
    BY <1>0, <1>3, <1>12
  <2>1. t[k] = rows[j] /\ m[k] = looks[j] BY <1>4, <2>0
  <2>2. m[j].open = FALSE BY <1>4 DEF Unscanned
  <2>3. IF l[j].open # FALSE THEN l[k] = Scan(Rendered(t[k]), l[j].open) ELSE l[k] = looks[j]
    <3>1. IF k <= n /\ l[k - 1].open # m[k - 1].open
          THEN l[k] = Scan(Rendered(t[k]), l[k - 1].open) ELSE l[k] = m[k]
      BY <1>3, <2>0 DEF IsRescanned
    <3> QED BY <2>0, <2>1, <2>2, <3>1
  <2>4. l[j].open \in BOOLEAN /\ looks[i].open \in BOOLEAN /\ OpenAbove(l, k) = l[j].open
    <3>1. l[j].open \in BOOLEAN BY <1>3, <1>5, LookType
    <3>2. looks[i].open \in BOOLEAN BY <1>0, LookType
    <3>3. OpenAbove(l, k) = (k > 1 /\ l[j].open) BY <2>0 DEF OpenAbove
    <3> HIDE DEF j
    <3> QED BY <2>0, <3>1, <3>2, <3>3
  <2>5. looks[j] = Scan(Rendered(rows[j]), looks[i].open)
    <3>1. looks[j] = Scan(Rendered(rows[j]), OpenAbove(looks, j)) BY <2>0 DEF AllRight, Right
    <3>2. OpenAbove(looks, j) = looks[i].open
      <4>1. OpenAbove(looks, j) = (j > 1 /\ looks[i].open) BY <1>0 DEF OpenAbove
      <4>2. j > 1 BY <1>0
      <4> HIDE DEF j
      <4> QED BY <2>4, <4>1, <4>2
    <3> QED BY <3>1, <3>2
  <2>6. CASE l[j].open = TRUE
    <3>1. Right(t, l, k) BY <2>3, <2>4, <2>6 DEF Right
    <3> QED BY <1>6, <3>1
  <2>7. CASE l[j].open = FALSE /\ looks[i].open = FALSE
    <3>1. Right(t, l, k) BY <2>1, <2>3, <2>4, <2>5, <2>7 DEF Right
    <3> QED BY <1>6, <3>1
  <2>8. CASE l[j].open = FALSE /\ looks[i].open = TRUE
    <3>1. /\ u \in Texts /\ Len(u) = Len(t)
          /\ r = UpdateSyntax(u, l, i, Len(t))
      <4>1. IsUpdated(t, i, a, UpdateRow(t, i, a)) BY <1>3, <1>5, RowUpdated
      <4>2. r = UpdateSyntax(UpdateRow(t, i, a), l, i, Len(t)) BY DEF LookOfUpdate, UpdateRow
      <4> QED BY <4>1, <4>2 DEF IsUpdated
    <3>2. r \in Seq(Look) /\ Len(r) = Len(u) /\ IsRescanned(u, l, i, Len(t), r)
      <4>1. Len(t) \in Nat /\ i \in 1..Len(u) /\ Len(l) = Len(u) BY <1>0, <1>3, <1>5, <3>1
      <4> QED BY <1>3, <3>1, <4>1, Rescans
    <3>3. r[j].open = TRUE
      <4>1. j \in 1..Len(r) BY <1>5, <3>1, <3>2
      <4>2. r[j].open \in BOOLEAN BY <3>2, <4>1, LookType
      <4>3. ~ ~ r[j].open BY <2>0, <2>8
      <4> QED BY <4>2, <4>3
    <3>4. r[k] = Scan(Rendered(u[k]), r[j].open)
      <4>1. k \in (i + 1)..Len(u) /\ k <= Len(t) BY <1>0, <1>3, <2>0, <3>1
      <4>2. r[k - 1].open # l[k - 1].open BY <2>0, <2>8, <3>3
      <4>3. r[k] = Scan(Rendered(u[k]), r[k - 1].open) BY <3>2, <4>1, <4>2 DEF IsRescanned
      <4> QED BY <2>0, <4>3
    <3>5. OpenAbove(r, k) = r[j].open
      <4>1. OpenAbove(r, k) = (k > 1 /\ r[j].open) BY <2>0 DEF OpenAbove
      <4> QED BY <2>0, <3>3, <4>1
    <3> QED BY <3>4, <3>5 DEF Right
  <2> QED BY <2>4, <2>6, <2>7, <2>8
<1> QED BY <1>0, <1>8, <1>9, <1>10, <1>11, <1>12

\* Two rows that are joined leave only the one below behind.
LEMMA JoinRight ==
  ASSUME NEW rows \in Texts, NEW looks, Fits(rows, looks), AllRight(rows, looks),
         NEW i \in 1..Len(rows), i > 1, NEW s \in Seq(Characters),
         NEW t, t = UpdateRow(rows, i - 1, s), NEW l, l = LookOfUpdate(rows, looks, i - 1, s),
         NEW k \in 1..(Len(rows) - 1), k # i
  PROVE  Right(DelRow(t, i), DelRow(l, i), k)
<1> DEFINE j == i - 1
           n == Len(rows)
           u == DelRow(t, i)
           r == DelRow(l, i)
           h == IF k < i THEN k ELSE k + 1
           g == h - 1
           f == k - 1
<1>0. n \in Nat /\ i \in Nat /\ j \in 1..n /\ k \in Nat /\ h \in 1..n /\ k \in 1..(n - 1) BY DEF Texts
<1>1. Fits(t, l) BY <1>0, UpdateFits
<1>2. Right(t, l, h) BY <1>0, UpdateRight DEF AllRight
<1>3. t \in Texts /\ Len(t) = n
  <2>1. IsUpdated(rows, j, s, UpdateRow(rows, j, s)) BY <1>0, RowUpdated
  <2> QED BY <2>1 DEF IsUpdated
<1>4. i \in 1..Len(t) BY <1>3
<1>5. /\ IsRemoved(Seq(Characters), t, i, u) /\ IsRemoved(Look, l, i, r)
  BY <1>1, <1>3, <1>4, DeleteFits
<1>6. l \in Seq(Look) /\ Len(l) = n BY <1>1, <1>3 DEF Fits
<1> HIDE DEF u, r, h
<1>7. u[k] = t[h] /\ r[k] = l[h] BY <1>0, <1>3, <1>5, <1>6 DEF IsRemoved, h
<1>8. k > 1 => r[f] = l[g] /\ h > 1
  <2>1. ASSUME k > 1 PROVE f \in 1..(n - 1) /\ g = (IF f < i THEN f ELSE f + 1) /\ h > 1
    BY <1>0, <2>1 DEF h
  <2> HIDE DEF f, g
  <2> QED BY <1>3, <1>5, <1>6, <2>1 DEF IsRemoved
<1>9. k = 1 => h = 1 BY <1>0 DEF h
<1>10. OpenAbove(r, k) = OpenAbove(l, h)
  <2>1. OpenAbove(r, k) = (k > 1 /\ r[f].open) BY DEF OpenAbove
  <2>2. OpenAbove(l, h) = (h > 1 /\ l[g].open) BY DEF OpenAbove
  <2> HIDE DEF f, g
  <2>3. CASE k > 1 BY <1>8, <2>1, <2>2, <2>3
  <2>4. CASE k = 1 BY <1>9, <2>1, <2>2, <2>4
  <2> QED BY <1>0, <2>3, <2>4
<1> QED BY <1>2, <1>7, <1>10 DEF Right, u, r

-----------------------------------------------------------------------------
(* What each key makes of the colours *)

\* The looks fit, and are right but for the rows that are left behind
LooksFollow ==
  LooksInv' /\ (WellColoured /\ mode' # "shell" =>
                  \A i \in 1..Len(text') : LeftBehind(i) \/ Coloured(i)')

\* The text and its looks stay.
LEMMA ColoursStay ==
  ASSUME mode # "shell", mode' \in {"edit", "shell"}, text' = text, look' = Looks, LooksInv
  PROVE  LooksFollow
<1>1. Looks' = Looks BY DEF Looks
<1>2. LooksInv' BY <1>1 DEF LooksInv
<1>3. \A i \in 1..Len(text') : Coloured(i) => Coloured(i)' BY <1>1 DEF Coloured
<1> QED BY <1>2, <1>3 DEF LooksFollow, WellColoured

\* The text and its looks are changed.
LEMMA ColoursChange ==
  ASSUME mode = "edit", mode' = "edit", Fits(text', look'),
         AllRight(text, look) =>
           \A k \in 1..Len(text') : LeftBehind(k) \/ Right(text', look', k)
  PROVE  LooksFollow
<1>1. Looks = look /\ Looks' = look' BY DEF Looks
<1>2. LooksInv' BY <1>1 DEF LooksInv
<1>3. WellColoured => AllRight(text, look) BY <1>1 DEF WellColoured, Coloured, AllRight, Right
<1>4. \A k \in 1..Len(text') : Right(text', look', k) => Coloured(k)' BY <1>1 DEF Coloured, Right
<1> QED BY <1>2, <1>3, <1>4 DEF LooksFollow

\* editorUpdateRow() leaves no row behind.
LEMMA UpdateAll ==
  ASSUME NEW rows \in Texts, NEW looks, Fits(rows, looks),
         NEW i \in 1..Len(rows), NEW s \in Seq(Characters),
         NEW t, t = UpdateRow(rows, i, s), NEW l, l = LookOfUpdate(rows, looks, i, s)
  PROVE  /\ Fits(t, l)
         /\ AllRight(rows, looks) => AllRight(t, l)
<1>1. Fits(t, l) BY UpdateFits
<1>2. Len(t) = Len(rows)
  <2>1. IsUpdated(rows, i, s, t) BY RowUpdated
  <2> QED BY <2>1 DEF IsUpdated
<1>3. ASSUME NEW k \in 1..Len(rows), Right(rows, looks, k) PROVE Right(t, l, k)
  BY <1>3, UpdateRight
<1> QED BY <1>1, <1>2, <1>3 DEF AllRight

\* A character that is typed colours the rows from its own on.
LEMMA InsertCharFollows ==
  ASSUME CursorInText, LooksInv, NEW ch \in Letters, InsertChar(ch) PROVE LooksFollow
<1> DEFINE i     == cursor.cy + 1
           below == cursor.cy = Len(text)
           e     == <<>>
           rows  == IF below THEN InsertRow(text, i, e) ELSE text
           looks == IF below THEN LookOfInsert(text, look, i, e) ELSE look
           s     == InsertAt(rows[i], cursor.cx + 1, ch)
           c     == At(cursor.cy, cursor.cx + 1)
<1>1. /\ mode = "edit" /\ mode' = "edit"
      /\ text' = UpdateRow(rows, i, s) /\ look' = LookOfUpdate(rows, looks, i, s)
  BY DEF InsertChar, KeyDone
<1>2. /\ text \in Texts /\ Len(text) \in Nat
      /\ cursor.cy \in Nat /\ cursor.cy <= Len(text)
      /\ cursor.cx \in Nat /\ cursor.cx <= RowLen(text, cursor.cy)
  BY <1>1, Facts
<1>3. ch \in Characters /\ e \in Seq(Characters) /\ Len(e) = 0 BY DEF Characters
<1>4. Fits(text, look) BY <1>1 DEF LooksInv, Looks
<1> HIDE DEF e
<1>5. /\ rows \in Texts /\ i \in 1..Len(rows) /\ Fits(rows, looks)
      /\ AllRight(text, look) => AllRight(rows, looks)
      /\ rows[i] \in Seq(Characters) /\ cursor.cx <= Len(rows[i])
  <2>1. CASE below
    <3>1. i \in 1..(Len(text) + 1) BY <1>2, <2>1
    <3>2. rows = InsertRow(text, i, e) /\ looks = LookOfInsert(text, look, i, e) BY <2>1
    <3> HIDE DEF i, rows, looks
    <3>3. rows \in Texts /\ Len(rows) = Len(text) + 1 /\ rows[i] = e
      BY <1>2, <1>3, <3>1, <3>2, InsertRowType
    <3>4. Fits(rows, looks) BY <1>2, <1>3, <1>4, <3>1, <3>2, InsertFits
    <3>5. AllRight(text, look) => AllRight(rows, looks)
      BY <1>2, <1>4, <3>1, <3>2, EmptyRight DEF e
    <3>6. cursor.cx = 0
      <4>1. RowLen(text, cursor.cy) = 0 BY <2>1 DEF RowLen
      <4> QED BY <1>2, <4>1
    <3> QED BY <1>2, <1>3, <3>1, <3>3, <3>4, <3>5, <3>6
  <2>2. CASE ~ below
    <3>1. rows = text /\ looks = look /\ cursor.cy < Len(text) BY <1>2, <2>2
    <3> QED BY <1>2, <1>4, <3>1, RowLenType
  <2> QED BY <2>1, <2>2
<1>6. s \in Seq(Characters)
  <2>1. cursor.cx + 1 \in 1..(Len(rows[i]) + 1) BY <1>2, <1>5
  <2> HIDE DEF rows, i
  <2> QED BY <1>3, <1>5, <2>1, InsertAtType
<1> HIDE DEF s, rows, looks, i
<1>7. Fits(text', look') /\ (AllRight(text, look) => AllRight(text', look'))
  BY <1>1, <1>5, <1>6, UpdateAll
<1> QED BY <1>1, <1>7, ColoursChange DEF AllRight

\* A row that is split leaves behind what LeftBehind says, an empty one nothing.
LEMMA NewLineFollows ==
  ASSUME CursorInText, LooksInv, NewLine PROVE LooksFollow
<1> DEFINE i == cursor.cy + 1
           n == Len(text)
<1>1. mode = "edit" /\ mode' = "edit" BY DEF NewLine, KeyDone
<1>2. /\ text \in Texts /\ n \in Nat
      /\ cursor.cy \in Nat /\ cursor.cy <= n
      /\ cursor.cx \in Nat /\ cursor.cx <= RowLen(text, cursor.cy)
  BY <1>1, Facts
<1>3. Fits(text, look) BY <1>1 DEF LooksInv, Looks
<1>4. CASE cursor.cx = 0
  <2> DEFINE e == <<>>
  <2>1. text' = InsertRow(text, i, e) /\ look' = LookOfInsert(text, look, i, e)
    BY <1>4 DEF NewLine
  <2>2. e \in Seq(Characters) /\ i \in 1..(n + 1) BY <1>2
  <2>3. AllRight(text, look) => AllRight(text', look')
    <3> HIDE DEF i
    <3> QED BY <1>2, <1>3, <2>1, <2>2, EmptyRight
  <2> HIDE DEF e, i
  <2>4. Fits(text', look') BY <1>2, <1>3, <2>1, <2>2, InsertFits
  <2> QED BY <1>1, <2>3, <2>4, ColoursChange DEF AllRight
<1>5. CASE cursor.cx # 0
  <2> DEFINE first  == SubSeq(text[i], 1, cursor.cx)
             second == SubSeq(text[i], cursor.cx + 1, Len(text[i]))
             rows   == InsertRow(text, i + 1, second)
             looks  == LookOfInsert(text, look, i + 1, second)
  <2>1. text' = UpdateRow(rows, i, first) /\ look' = LookOfUpdate(rows, looks, i, first)
    BY <1>5 DEF NewLine
  <2>2. cursor.cy < n BY <1>2, <1>5, RowLenType
  <2>3. i \in 1..n /\ text[i] \in Seq(Characters) /\ cursor.cx <= Len(text[i])
    BY <1>2, <2>2, RowLenType
  <2>4. first \in Seq(Characters) /\ second \in Seq(Characters) BY <1>2, <2>3
  <2>5. i + 1 \in 1..(n + 1) BY <1>2, <2>3
  <2> HIDE DEF first, second
  <2>6. rows \in Texts /\ Len(rows) = n + 1 BY <1>2, <2>4, <2>5, InsertRowType
  <2>7. Fits(rows, looks) BY <1>2, <1>3, <2>4, <2>5, InsertFits
  <2> HIDE DEF rows, looks
  <2>8. i \in 1..Len(rows) BY <1>2, <2>3, <2>6
  <2>9. Fits(text', look') /\ Len(text') = n + 1
    <3>1. Fits(text', look') BY <2>1, <2>4, <2>6, <2>7, <2>8, UpdateAll
    <3>2. Len(text') = n + 1 BY <2>1, <2>4, <2>6, <2>8, UpdateRowType
    <3> QED BY <3>1, <3>2
  <2>10. ASSUME AllRight(text, look), NEW k \in 1..Len(text')
         PROVE  LeftBehind(k) \/ Right(text', look', k)
    <3>1. Split
      <4>1. Len(text') > Len(text) BY <1>2, <2>9
      <4>2. cursor.cx > 0 BY <1>2, <1>5
      <4> QED BY <1>1, <4>1, <4>2 DEF Split
    <3>2. CASE k = Len(text') BY <3>1, <3>2 DEF LeftBehind
    <3>3. CASE k = i + 2 /\ look[i].open /\ ~ look'[i + 1].open
      <4>1. i + 1 = cursor.cy + 2 /\ k = cursor.cy + 3 BY <1>2, <3>3
      <4>2. CommentClosed BY <3>3, <4>1 DEF CommentClosed
      <4> QED BY <3>1, <4>1, <4>2 DEF LeftBehind
    <3>4. CASE k # Len(text') /\ ~ (k = i + 2 /\ look[i].open /\ ~ look'[i + 1].open)
      <4>1. k \in 1..Len(text) BY <1>2, <2>9, <3>4
      <4> HIDE DEF i
      <4>2. Right(text', look', k)
        BY <1>2, <1>3, <2>1, <2>3, <2>4, <2>10, <3>4, <4>1, SplitRight DEF rows, looks
      <4> QED BY <4>2
    <3> QED BY <3>2, <3>3, <3>4
  <2> QED BY <1>1, <2>9, <2>10, ColoursChange
<1> QED BY <1>4, <1>5

\* Two rows that are joined leave the one below behind, a character nothing.
LEMMA DelCharFollows ==
  ASSUME CursorInText, LooksInv, mode = "edit", NEW c \in Cursors, InRows(text, c), DelChar(c)
  PROVE  LooksFollow
<1> DEFINE i == c.cy + 1
           n == Len(text)
<1>1. /\ text \in Texts /\ n \in Nat
      /\ c.cy \in Nat /\ c.cx \in Nat /\ c.cy <= n /\ c.cx <= RowLen(text, c.cy)
  BY Facts DEF InRows, Cursors
<1>2. Fits(text, look) /\ Looks = look BY DEF LooksInv, Looks
<1>3. CASE c.cy = n \/ (c.cx = 0 /\ c.cy = 0)
  <2>1. mode' = "edit" /\ text' = text /\ look' = look BY <1>3 DEF DelChar, KeyDone
  <2> QED BY <1>2, <2>1, ColoursStay
<1>4. CASE ~ (c.cy = n \/ (c.cx = 0 /\ c.cy = 0))
  <2>1. i \in 1..n /\ text[i] \in Seq(Characters) /\ RowLen(text, c.cy) = Len(text[i]) /\ c.cy < n
    <3>1. c.cy < n BY <1>1, <1>4
    <3> QED BY <1>1, <3>1, RowLenType
  <2>2. CASE c.cx > 0
    <3> DEFINE s == RemoveAt(text[i], c.cx)
    <3>1. /\ text' = UpdateRow(text, i, s) /\ look' = LookOfUpdate(text, look, i, s)
          /\ mode' = "edit"
      BY <1>4, <2>2 DEF DelChar, KeyDone
    <3>2. s \in Seq(Characters)
      <4>1. c.cx \in 1..Len(text[i]) BY <1>1, <2>1, <2>2
      <4> QED BY <2>1, <4>1, RemoveAtType
    <3> HIDE DEF s, i
    <3>3. Fits(text', look') /\ (AllRight(text, look) => AllRight(text', look'))
      BY <1>1, <1>2, <2>1, <3>1, <3>2, UpdateAll
    <3> QED BY <3>1, <3>3, ColoursChange DEF AllRight
  <2>3. CASE ~ (c.cx > 0)
    <3> DEFINE s == text[i - 1] \o text[i]
               rows == UpdateRow(text, i - 1, s)
               looks == LookOfUpdate(text, look, i - 1, s)
               d == At(c.cy - 1, RowLen(text, c.cy - 1))
    <3>1. text' = DelRow(rows, i) /\ look' = DelRow(looks, i) /\ KeyDone(d) /\ mode' = "edit"
      BY <1>4, <2>3 DEF DelChar, KeyDone
    <3>2. c.cx = 0 /\ c.cy > 0 /\ i - 1 \in 1..n /\ i > 1 BY <1>1, <1>4, <2>1, <2>3
    <3>3. s \in Seq(Characters)
      <4>1. text[i - 1] \in Seq(Characters) BY <1>1, <3>2 DEF Texts
      <4> QED BY <2>1, <4>1, ConcatProperties
    <3>4. cursor'.cy + 2 = i
      <4>1. cursor'.cy = c.cy - 1 BY <3>1 DEF KeyDone, At
      <4> QED BY <1>1, <4>1
    <3> HIDE DEF s, d
    <3>5. rows \in Texts /\ Len(rows) = n /\ Fits(rows, looks)
      BY <1>1, <1>2, <3>2, <3>3, UpdateRowType, UpdateFits
    <3>6. Fits(text', look') /\ Len(text') = n - 1
      <4> HIDE DEF rows, looks
      <4>1. i \in 1..Len(rows) BY <2>1, <3>5
      <4> HIDE DEF i
      <4>2. Fits(text', look') /\ IsRemoved(Seq(Characters), rows, i, text')
        BY <3>1, <3>5, <4>1, DeleteFits
      <4> QED BY <3>5, <4>2 DEF IsRemoved
    <3>7. ASSUME AllRight(text, look), NEW k \in 1..Len(text')
          PROVE  LeftBehind(k) \/ Right(text', look', k)
      <4>1. CASE k = i
        <5>1. Joined BY <1>1, <3>6 DEF Joined
        <5> QED BY <3>4, <4>1, <5>1 DEF LeftBehind
      <4>2. CASE k # i
        <5>1. k \in 1..(Len(text) - 1) BY <3>6
        <5> HIDE DEF i
        <5>2. Right(text', look', k)
          BY <1>1, <1>2, <2>1, <3>1, <3>2, <3>3, <3>7, <4>2, <5>1, JoinRight
        <5> QED BY <5>2
      <4> QED BY <4>1, <4>2
    <3> QED BY <3>1, <3>6, <3>7, ColoursChange
  <2> QED BY <2>2, <2>3
<1> QED BY <1>3, <1>4

\* Only the cursor moves, or a search goes on: the looks are the same without the mark.
LEMMA LooksStay ==
  ASSUME text' = text, Looks' = Looks, LooksInv', mode # "shell" \/ mode' = "shell"
  PROVE  LooksFollow
<1>1. \A i \in 1..Len(text') : Coloured(i) => Coloured(i)' BY DEF Coloured
<1> QED BY <1>1 DEF LooksFollow, WellColoured

\* A file that is opened is scanned from its first row on.
LEMMA EditFollows ==
  ASSUME CursorInText, Edit PROVE LooksFollow
<1>1. PICK data \in Reads(file, Garbage) :
        /\ text' = Lines(data)
        /\ look' = [i \in 1..Len(text') |-> ScannedFrom(text', 1, FALSE)[i]]
  BY DEF Edit
<1>2. mode' = "edit" BY DEF Edit
<1>3. data \in Seq(Characters) BY TextAssumption DEF Reads, CursorInText, TypeOK, Files
<1>4. text' \in Texts /\ Len(text') >= 1 BY <1>1, <1>3, LinesType
<1> DEFINE rows == text'
           n    == Len(rows)
           f    == ScannedFrom(rows, 1, FALSE)
           l    == look'
<1>5. rows \in Texts /\ n \in Nat /\ 1 \in 1..n /\ l = [i \in 1..n |-> f[i]] BY <1>1, <1>4 DEF Texts
<1> HIDE DEF rows, f, l
<1>6. /\ f[1] = Scan(Rendered(rows[1]), FALSE)
      /\ \A k \in (1 + 1)..n : f[k] = Scan(Rendered(rows[k]), f[k - 1].open)
  <2> DEFINE i    == 1
             open == FALSE
  <2>1. i \in 1..n /\ f = ScannedFrom(rows, i, open) BY <1>5 DEF f
  <2> HIDE DEF i, open
  <2>2. /\ f[i] = Scan(Rendered(rows[i]), open)
        /\ \A k \in (i + 1)..n : f[k] = Scan(Rendered(rows[k]), f[k - 1].open)
    BY <1>5, <2>1, ScannedRows
  <2> QED BY <2>2 DEF i, open
<1>7. ASSUME NEW k \in 1..n
      PROVE  /\ l[k] = f[k] /\ Fit(rows, l, k)
             /\ k = 1 => l[k] = Scan(Rendered(rows[k]), FALSE)
             /\ k > 1 => k - 1 \in 1..n /\ l[k] = Scan(Rendered(rows[k]), f[k - 1].open)
  <2>1. l[k] = f[k] BY <1>5
  <2>2. k = 1 => l[k] = Scan(Rendered(rows[k]), FALSE) BY <1>6, <2>1
  <2>3. k > 1 => k - 1 \in 1..n /\ l[k] = Scan(Rendered(rows[k]), f[k - 1].open)
    <3>1. k > 1 => k \in (1 + 1)..n /\ k - 1 \in 1..n BY <1>5
    <3> QED BY <1>6, <2>1, <3>1
  <2>4. rows[k] \in Seq(Characters) BY <1>5 DEF Texts
  <2>5. \E o : l[k] = Scan(Rendered(rows[k]), o)
    <3>1. k = 1 \/ k > 1 BY <1>5
    <3> QED BY <2>2, <2>3, <3>1
  <2>6. Fit(rows, l, k) BY <2>4, <2>5, ScanFits DEF Fit
  <2> QED BY <2>1, <2>2, <2>3, <2>6
<1>8. Fits(rows, l)
  <2>1. \A k \in 1..n : l[k] \in Look BY <1>7 DEF Fit
  <2>2. l \in Seq(Look) /\ Len(l) = n
    <3>1. l \in [1..n -> Look] BY <1>5, <2>1
    <3> QED BY <1>5, <3>1
  <2> QED BY <1>7, <2>2 DEF Fits
<1>9. ASSUME NEW k \in 1..n PROVE Right(rows, l, k)
  <2>1. CASE k = 1 BY <1>7, <2>1 DEF Right, OpenAbove
  <2>2. CASE k > 1
    <3> DEFINE j == k - 1
    <3>1. j \in 1..n /\ l[k] = Scan(Rendered(rows[k]), f[j].open) BY <1>7, <2>2
    <3>2. OpenAbove(l, k) = (k > 1 /\ l[j].open) BY DEF OpenAbove
    <3> HIDE DEF j
    <3>3. l[j].open \in BOOLEAN BY <1>8, <3>1, LookType DEF Fits
    <3>4. l[j] = f[j] BY <1>7, <3>1
    <3>5. OpenAbove(l, k) = f[j].open BY <2>2, <3>2, <3>3, <3>4
    <3> QED BY <3>1, <3>5 DEF Right
  <2> QED BY <1>5, <2>1, <2>2
<1>10. Looks' = look' BY <1>2 DEF Looks
<1>11. LooksInv' BY <1>2, <1>8, <1>10 DEF LooksInv, rows, l
<1>12. \A k \in 1..Len(text') : Coloured(k)' BY <1>9, <1>10 DEF Coloured, Right, rows, l
<1> QED BY <1>11, <1>12 DEF LooksFollow

\* Before the editor is opened there is nothing to look at.
LEMMA LooksBegin == ASSUME Init PROVE LooksInv
<1>1. mode = "shell" /\ text = <<>> /\ look = <<>> BY DEF Init
<1>2. Looks = look BY <1>1 DEF Looks
<1>3. Fits(text, look) BY <1>1 DEF Fits
<1> QED BY <1>1, <1>2, <1>3 DEF LooksInv

\* Every key keeps the looks, and the colours follow.
LEMMA NextFollows == ASSUME CursorInText, LooksInv, [Next]_vars PROVE LooksFollow
<1>1. ASSUME Edit PROVE LooksFollow BY <1>1, EditFollows
<1>2. ASSUME Save \/ \E key : Go(key) PROVE LooksFollow
  <2>1. mode = "edit" /\ mode' = "edit" /\ text' = text /\ look' = look
    BY <1>2 DEF Save, Go, KeyDone
  <2>2. Looks = look BY <2>1 DEF Looks
  <2> QED BY <2>1, <2>2, ColoursStay
<1>3. ASSUME Warn \/ Leave PROVE LooksFollow
  <2>1. mode = "edit" /\ mode' \in {"edit", "shell"} /\ text' = text /\ look' = look
    BY <1>3 DEF Warn, Leave
  <2>2. Looks = look BY <2>1 DEF Looks
  <2> QED BY <2>1, <2>2, ColoursStay
<1>4. ASSUME NEW c \in Letters, InsertChar(c) PROVE LooksFollow BY <1>4, InsertCharFollows
<1>5. ASSUME NewLine PROVE LooksFollow BY <1>5, NewLineFollows
<1>6. ASSUME NEW key, Erase(key) PROVE LooksFollow
  <2> DEFINE c == IF key = "del" THEN Moved(text, cursor, "right") ELSE cursor
  <2>1. mode = "edit" /\ DelChar(c) BY <1>6 DEF Erase
  <2>2. text \in Texts /\ cursor \in Cursors /\ InRows(text, cursor) /\ cursor.cy <= Len(text)
    BY <2>1, Facts
  <2>3. c \in Cursors /\ InRows(text, c) BY <2>2, MovedIn
  <2> HIDE DEF c
  <2> QED BY <2>1, <2>3, DelCharFollows
<1>7. ASSUME StartFind PROVE LooksFollow
  <2>1. mode = "edit" /\ mode' = "find" /\ text' = text /\ look' = look
        /\ find' = [NoSearch EXCEPT !.from = [cursor |-> cursor, rowoff |-> rowoff]]
    BY <1>7 DEF StartFind
  <2>2. find'.line = 0 /\ find'.query = <<>> BY <2>1 DEF NoSearch
  <2>3. Looks' = Looks BY <2>1, <2>2 DEF Looks, Unmarked
  <2>4. LooksInv'
    <3>1. find'.query \in Seq(Characters) BY <2>2
    <3>2. Fits(text', Looks') BY <2>1, <2>3 DEF LooksInv
    <3> QED BY <2>2, <3>1, <3>2 DEF LooksInv
  <2> QED BY <2>1, <2>3, <2>4, LooksStay
<1>8. ASSUME FindKey PROVE LooksFollow
  <2>1. mode = "find" /\ mode' = mode /\ text' = text BY <1>8 DEF FindKey
  <2>2. \E key : \E query \in Seq(Characters) : Searched(key, query)
    <3>1. find.query \in Seq(Characters) BY <2>1 DEF LooksInv
    <3>2. \A c \in Letters : Append(find.query, c) \in Seq(Characters) BY <3>1 DEF Characters
    <3>3. SubSeq(find.query, 1, Len(find.query) - 1) \in Seq(Characters) BY <3>1
    <3> QED BY <1>8, <3>1, <3>2, <3>3 DEF FindKey
  <2>3. LooksInv' /\ Looks' = Looks BY <2>1, <2>2, SearchedLooks
  <2> QED BY <2>1, <2>3, LooksStay
<1>9. ASSUME FindNothing PROVE LooksFollow
  <2>1. mode = "find" /\ mode' = "find" /\ text' = text /\ look' = Unmarked
        /\ find' = [NoSearch EXCEPT !.from = find.from]
    BY <1>9 DEF FindNothing
  <2>2. find'.line = 0 /\ find'.query = <<>> BY <2>1 DEF NoSearch
  <2>3. Looks' = Looks BY <2>1, <2>2 DEF Looks, Unmarked
  <2>4. LooksInv'
    <3>1. find'.query \in Seq(Characters) BY <2>2
    <3>2. Fits(text', Looks') BY <2>1, <2>3 DEF LooksInv
    <3> QED BY <2>2, <3>1, <3>2 DEF LooksInv
  <2> QED BY <2>1, <2>3, <2>4, LooksStay
<1>10. ASSUME FindEnter \/ FindEsc PROVE LooksFollow
  <2>1. mode = "find" /\ mode' = "edit" /\ text' = text /\ look' = Unmarked
    BY <1>10 DEF FindEnter, FindEsc
  <2>2. Looks = Unmarked BY <2>1 DEF Looks
  <2> QED BY <2>1, <2>2, ColoursStay
<1>11. ASSUME UNCHANGED vars PROVE LooksFollow
  <2>1. mode' = mode /\ text' = text /\ look' = look /\ find' = find /\ cursor' = cursor
    BY <1>11 DEF vars
  <2>2. Looks' = Looks BY <2>1 DEF Looks, Unmarked
  <2>3. LooksInv' BY <2>1, <2>2 DEF LooksInv, Stands, Unmarked
  <2> QED BY <2>1, <2>2, <2>3, LooksStay
<1> QED
  BY <1>1, <1>2, <1>3, <1>4, <1>5, <1>6, <1>7, <1>8, <1>9, <1>10, <1>11 DEF Next

\* During a search the cursor stands at the match and only the match is marked,
\* for all texts, queries and widths of a tab; no mark outlives the search.
THEOREM MatchStays == Spec => []FoundIsThere
<1>1. ASSUME Init PROVE LooksInv BY <1>1, LooksBegin
<1>2. ASSUME CursorInText, LooksInv, [Next]_vars PROVE LooksInv' BY <1>2, NextFollows DEF LooksFollow
<1>3. ASSUME CursorInText, LooksInv PROVE FoundIsThere BY <1>3, FoundThere
<1> QED BY <1>1, <1>2, <1>3, CursorStays, PTL DEF Spec

\* When every row is coloured as it and the row above say, no key leaves a row
\* with the colours of another text but those three that LeftBehind names.
THEOREM ColoursStayRight == Spec => ColoursFollow
<1> DEFINE Follow == WellColoured /\ mode' # "shell" =>
                       \A i \in 1..Len(text') : LeftBehind(i) \/ Coloured(i)'
<1>1. ASSUME Init PROVE LooksInv BY <1>1, LooksBegin
<1>2. ASSUME CursorInText, LooksInv, [Next]_vars
      PROVE  LooksInv' /\ [Follow]_<<mode, text, look, cursor, find>>
  BY <1>2, NextFollows DEF LooksFollow
<1>3. ColoursFollow <=> [][Follow]_<<mode, text, look, cursor, find>> BY DEF ColoursFollow
<1> HIDE DEF Follow
<1> QED BY <1>1, <1>2, <1>3, CursorStays, PTL DEF Spec
=============================================================================
