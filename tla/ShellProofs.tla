---------------------------- MODULE ShellProofs -----------------------------
(***************************************************************************)
(* The theorems about module Shell.  They hold for every tree of           *)
(* directories, whatever lines are typed, and however the shell, the       *)
(* kernel, main() and the windows take turns.                              *)
(***************************************************************************)
EXTENDS ShellProperties, ListLemmas

Names == STRING
Places == Dirs \cup {Nowhere}

-----------------------------------------------------------------------------
(* Where a path leads, part after part *)

\* f is where walk() is after the first parts of s, for each number of them
Trail(s, f) ==
  /\ f \in [0..Len(s) -> Places]
  /\ f[0] = <<>>
  /\ \A i \in 1..Len(s) : f[i] = Enter(s[i])[f[i - 1]]

\* All but the last part, which leads to a place if the whole does.
LEMMA UpPlace == \A d \in Dirs : Up(d) \in Dirs /\ d \in Seq(Names)
BY DirsAssumption DEF Up, Names

\* An entry leads to a place.
LEMMA BeneathPlace ==
  ASSUME NEW d \in Places, NEW name
  PROVE  Beneath(d, name) \in Places
BY UpPlace DEF Beneath, Places

\* walk() goes to the directory that an entry leads to, but not to the root.
LEMMA EnterIs ==
  ASSUME NEW d \in Places, NEW name
  PROVE  /\ Enter(name)[d] = IF Beneath(d, name) = <<>> THEN d ELSE Beneath(d, name)
         /\ Enter(name)[d] \in Places
<1>1. Beneath(d, name) \in Places BY BeneathPlace
<1>2. Enter(name)[d] = IF Beneath(d, name) = <<>> THEN d ELSE Beneath(d, name)
  BY DEF Enter, Places
<1> QED BY <1>1, <1>2

\* Among() goes along a trail.
LEMMA TrailExists ==
  ASSUME NEW s \in Seq(Names)
  PROVE  Trail(s, Among(s))
<1> DEFINE n == Len(s)
           g == [x \in (1..n) \X Places |-> Enter(s[x[1]])[x[2]]]
           Runs(f) == f = [i \in 0..n |-> IF i = 0 THEN <<>> ELSE Enter(s[i])[f[i - 1]]]
<1>1. n \in Nat BY LenProperties
<1>2. g \in [(1..n) \X Places -> Places] BY EnterIs
<1>3. <<>> \in Places BY DirsAssumption DEF Places
<1>4. \A i \in 1..n, d \in Places : g[<<i, d>>] = Enter(s[i])[d] OBVIOUS
<1> HIDE DEF g
<1>5. PICK f \in [0..n -> Places] : Iterates(<<>>, g, n, f) BY <1>1, <1>2, <1>3, IteratesExists
<1>6. \A i \in 0..n : f[i] = IF i = 0 THEN <<>> ELSE Enter(s[i])[f[i - 1]]
  <2> SUFFICES ASSUME NEW i \in 0..n
               PROVE  f[i] = IF i = 0 THEN <<>> ELSE Enter(s[i])[f[i - 1]]
    OBVIOUS
  <2>1. f[i] = IF i = 0 THEN <<>> ELSE g[<<i, f[i - 1]>>] BY <1>5 DEF Iterates
  <2>2. i # 0 => i \in 1..n /\ f[i - 1] \in Places BY <1>1, <1>5
  <2> QED BY <1>4, <2>1, <2>2
<1>7. Runs(f) BY <1>5, <1>6
<1> DEFINE h == CHOOSE k : Runs(k)
<1>8. Runs(h) BY <1>7
<1>9. Among(s) = h BY DEF Among
<1>10. \A i \in 0..n : h[i] = f[i]
  <2> DEFINE T == {i \in 0..n : h[i] # f[i]}
  <2> SUFFICES ASSUME T # {} PROVE FALSE OBVIOUS
  <2>1. PICK m \in T : \A k \in T : m <= k
    <3>1. T \in SUBSET Nat OBVIOUS
    <3> HIDE DEF T
    <3> QED BY <3>1, LeastNat
  <2> HIDE DEF h
  <2>2. m \in 0..n /\ h[m] = IF m = 0 THEN <<>> ELSE Enter(s[m])[h[m - 1]] BY <1>8, <2>1
  <2>3. m # 0 BY <1>6, <2>1, <2>2
  <2>4. m - 1 \in 0..n /\ m - 1 \notin T BY <1>1, <2>1, <2>2, <2>3
  <2>5. h[m - 1] = f[m - 1] BY <2>4
  <2> QED BY <1>6, <2>1, <2>2, <2>3, <2>5
<1> HIDE DEF h
<1>11. h = f
  <2>1. h = [i \in 0..n |-> IF i = 0 THEN <<>> ELSE Enter(s[i])[h[i - 1]]] BY <1>8
  <2> QED BY <1>5, <1>10, <2>1
<1>12. Trail(s, f)
  <2>1. f[0] = <<>> BY <1>1, <1>6
  <2>2. \A i \in 1..n : f[i] = Enter(s[i])[f[i - 1]] BY <1>1, <1>6
  <2> QED BY <1>5, <2>1, <2>2 DEF Trail
<1> QED BY <1>9, <1>11, <1>12

\* Each step of a trail is an entry, which leads to a place.
LEMMA TrailStep ==
  ASSUME NEW s \in Seq(Names), NEW f, Trail(s, f), NEW i \in 1..Len(s)
  PROVE  /\ f[i - 1] \in Places /\ f[i] \in Places
         /\ f[i] = IF Beneath(f[i - 1], s[i]) = <<>> THEN f[i - 1] ELSE Beneath(f[i - 1], s[i])
<1>1. Len(s) \in Nat /\ i \in 0..Len(s) /\ i - 1 \in 0..Len(s) BY LenProperties
<1>2. f[i - 1] \in Places /\ f[i] \in Places BY <1>1 DEF Trail
<1>3. f[i] = Enter(s[i])[f[i - 1]] BY DEF Trail
<1> QED BY <1>2, <1>3, EnterIs

\* The n parts of s after the first a are those of t after the first b
Alike(s, a, t, b, n) ==
  a + n <= Len(s) /\ b + n <= Len(t) /\ \A j \in 1..n : s[a + j] = t[b + j]

\* Two paths that lead to one place, and go on alike, lead to one place.
LEMMA TrailsMeet ==
  ASSUME NEW s \in Seq(Names), NEW t \in Seq(Names), NEW f, NEW h, Trail(s, f), Trail(t, h),
         NEW a \in Nat, NEW b \in Nat, NEW n \in Nat, Alike(s, a, t, b, n), f[a] = h[b]
  PROVE  f[a + n] = h[b + n]
<1> USE DEF Alike
<1> DEFINE T == {j \in 0..n : f[a + j] # h[b + j]}
<1>0. Len(s) \in Nat /\ Len(t) \in Nat BY LenProperties
<1> SUFFICES ASSUME T # {} PROVE FALSE
  <2>1. n \in 0..n OBVIOUS
  <2> QED BY <2>1
<1>1. PICK m \in T : \A k \in T : m <= k
  <2>1. T \in SUBSET Nat OBVIOUS
  <2> HIDE DEF T
  <2> QED BY <2>1, LeastNat
<1>2. m \in 0..n /\ f[a + m] # h[b + m] BY <1>1
<1>3. m # 0
  <2>1. a + 0 = a /\ b + 0 = b OBVIOUS
  <2> QED BY <1>2, <2>1
<1>4. m - 1 \in 0..n /\ m - 1 \notin T
  <2> HIDE DEF T
  <2> QED BY <1>1, <1>2, <1>3
<1>5. f[a + (m - 1)] = h[b + (m - 1)] BY <1>4
<1>6. a + m \in 1..Len(s) /\ b + m \in 1..Len(t) BY <1>0, <1>2, <1>3
<1>7. f[a + m] = Enter(s[a + m])[f[(a + m) - 1]] BY <1>6 DEF Trail
<1>8. h[b + m] = Enter(t[b + m])[h[(b + m) - 1]] BY <1>6 DEF Trail
<1>9. (a + m) - 1 = a + (m - 1) /\ (b + m) - 1 = b + (m - 1) BY <1>2
<1>10. s[a + m] = t[b + m] BY <1>2, <1>3
<1> QED BY <1>2, <1>5, <1>7, <1>8, <1>9, <1>10

\* Whatever comes after nowhere is nowhere.
LEMMA NowhereStays ==
  ASSUME NEW s \in Seq(Names), NEW f, Trail(s, f), f[Len(s)] # Nowhere, NEW i \in 0..Len(s)
  PROVE  f[i] # Nowhere
<1> DEFINE l == Len(s)
           T == {j \in Nat : l - j \in 0..l /\ f[l - j] = Nowhere}
<1>0. l \in Nat BY LenProperties
<1> SUFFICES ASSUME f[i] = Nowhere PROVE FALSE OBVIOUS
<1>1. T # {}
  <2>1. l - i \in Nat /\ l - (l - i) = i BY <1>0
  <2>2. l - i \in T BY <2>1
  <2> QED BY <2>2
<1>2. PICK m \in T : \A k \in T : m <= k
  <2>1. T \in SUBSET Nat OBVIOUS
  <2> HIDE DEF T
  <2> QED BY <1>1, <2>1, LeastNat
<1>3. m \in Nat /\ l - m \in 0..l /\ f[l - m] = Nowhere BY <1>2
<1>4. m # 0 BY <1>0, <1>3
<1>5. m - 1 \in Nat /\ m - 1 \notin T BY <1>2, <1>3, <1>4
<1>6. l - (m - 1) \in 1..l /\ (l - (m - 1)) - 1 = l - m BY <1>0, <1>3, <1>4
<1>7. Beneath(f[l - m], s[l - (m - 1)]) = Nowhere BY <1>3 DEF Beneath
<1>8. f[l - (m - 1)] = Nowhere
  <2>1. <<>> # Nowhere BY DEF Nowhere
  <2> DEFINE i0 == l - (m - 1)
  <2> HIDE DEF i0
  <2>2. i0 \in 1..l /\ i0 - 1 = l - m BY <1>6 DEF i0
  <2>3. f[i0] = IF Beneath(f[i0 - 1], s[i0]) = <<>> THEN f[i0 - 1] ELSE Beneath(f[i0 - 1], s[i0])
    BY <2>2, TrailStep
  <2>4. Beneath(f[i0 - 1], s[i0]) = Nowhere BY <1>7, <2>2 DEF i0
  <2> QED BY <2>1, <2>3, <2>4 DEF i0
<1> QED BY <1>5, <1>6, <1>8

\* Where the last part leads, walk() is in the end, unless it is the root.
LEMMA TrailEnds ==
  ASSUME NEW s \in Seq(Names), NEW f, Trail(s, f), f = Among(s), s # <<>>
  PROVE  /\ Len(s) \in 1..Len(s) /\ LookUp(s) = Beneath(f[Len(s) - 1], s[Len(s)])
         /\ LookUp(s) # Nowhere => f[Len(s)] # Nowhere
         /\ LookUp(s) # <<>> => f[Len(s)] = LookUp(s)
<1>1. Len(s) \in 1..Len(s)
  <2>1. Len(s) \in Nat /\ Len(s) # 0 BY LenProperties, EmptySeq
  <2> QED BY <2>1
<1>2. LookUp(s) = Beneath(f[Len(s) - 1], s[Len(s)]) BY DEF LookUp
<1>3. f[Len(s)] = IF LookUp(s) = <<>> THEN f[Len(s) - 1] ELSE LookUp(s)
  BY <1>1, <1>2, TrailStep
<1>4. f[Len(s) - 1] = Nowhere => LookUp(s) = Nowhere BY <1>2 DEF Beneath
<1> QED BY <1>1, <1>2, <1>3, <1>4

\* A name that is no dot does not lead to the root.
LEMMA NameLeads ==
  ASSUME NEW d \in Places, NEW name \in Names, name \notin Dots
  PROVE  Beneath(d, name) # <<>> /\ (d = Nowhere \/ Beneath(d, name) \in {Append(d, name), Nowhere})
<1>1. CASE d = Nowhere BY <1>1 DEF Beneath, Nowhere
<1>2. CASE d # Nowhere
  <2>1. Beneath(d, name) \in {Append(d, name), Nowhere} BY <1>2 DEF Beneath, Dots
  <2>2. d \in Seq(Names) BY <1>2, UpPlace DEF Places
  <2> DEFINE u == Append(d, name)
  <2>3. Len(u) = Len(d) + 1 /\ Len(d) \in Nat BY <2>2, LenProperties
  <2> HIDE DEF u
  <2>4. u # <<>> BY <2>3
  <2>5. Nowhere # <<>> BY DEF Nowhere
  <2> QED BY <2>1, <2>4, <2>5 DEF u
<1> QED BY <1>1, <1>2

\* Names that are not dots lead to the directory of these names, or nowhere.
LEMMA PlainTrail ==
  ASSUME NEW s \in Seq(Names), NEW f, Trail(s, f), f[Len(s)] # Nowhere,
         NEW k \in 0..Len(s), \A i \in 1..k : s[i] \notin Dots
  PROVE  f[k] = SubSeq(s, 1, k)
<1> DEFINE T == {j \in 0..k : f[j] # SubSeq(s, 1, j)}
<1>0. Len(s) \in Nat /\ k \in Nat BY LenProperties
<1> SUFFICES ASSUME T # {} PROVE FALSE OBVIOUS
<1>1. PICK m \in T : \A j \in T : m <= j
  <2>1. T \in SUBSET Nat OBVIOUS
  <2> HIDE DEF T
  <2> QED BY <2>1, LeastNat
<1>2. m \in 0..k /\ f[m] # SubSeq(s, 1, m) BY <1>1
<1>3. m # 0
  <2>1. SubSeq(s, 1, 0) = <<>> BY SubSeqEmpty
  <2> QED BY <1>2, <2>1 DEF Trail
<1>4. m - 1 \in 0..k /\ m - 1 \notin T BY <1>1, <1>2, <1>3
<1>5. f[m - 1] = SubSeq(s, 1, m - 1) BY <1>4
<1>6. m \in 1..Len(s) /\ m - 1 \in 0..Len(s) BY <1>0, <1>2, <1>3
<1>7. /\ f[m] = IF Beneath(f[m - 1], s[m]) = <<>> THEN f[m - 1] ELSE Beneath(f[m - 1], s[m])
      /\ f[m] # Nowhere /\ f[m - 1] # Nowhere
  <2>1. f[m] = IF Beneath(f[m - 1], s[m]) = <<>> THEN f[m - 1] ELSE Beneath(f[m - 1], s[m])
    BY <1>6, TrailStep
  <2>2. m \in 0..Len(s) BY <1>6
  <2>3. f[m] # Nowhere BY <2>2, NowhereStays
  <2>4. f[m - 1] # Nowhere BY <1>6, NowhereStays
  <2> QED BY <2>1, <2>3, <2>4
<1>8. s[m] \notin Dots BY <1>2, <1>3
<1>9. f[m] = Append(f[m - 1], s[m])
  <2>1. f[m - 1] \in Places /\ s[m] \in Names BY <1>6, TrailStep
  <2> QED BY <1>7, <1>8, <2>1, NameLeads
<1>10. SubSeq(s, 1, m) = Append(SubSeq(s, 1, m - 1), s[m]) BY <1>6
<1> QED BY <1>2, <1>5, <1>9, <1>10

-----------------------------------------------------------------------------
(* The dots a path begins with *)

\* what a dot makes of the string of the working directory, the last of them or not
Dotted(p, name, last) ==
  IF name = "." THEN p ELSE Path(last \/ p = Slash \/ Len(p.parts) > 1, Up(p.parts))

\* k is how many dots the parts q begin with
Leading(q, k) ==
  /\ k \in 0..Len(q)
  /\ \A i \in 1..k : q[i] \in Dots
  /\ k < Len(q) => q[k + 1] \notin Dots

\* w is what the first dots of q make of pwd, for each number of them up to k
Taken(pwd0, q, k, w) ==
  /\ w \in [0..k -> PathsTyped]
  /\ w[0] = pwd0
  /\ \A i \in 1..k : w[i] = Dotted(w[i - 1], q[i], i = Len(q))

\* All but the last part are names.
LEMMA UpTyped ==
  ASSUME NEW s \in Seq(Names)
  PROVE  /\ Up(s) \in Seq(Names)
         /\ Len(Up(s)) = IF s = <<>> THEN 0 ELSE Len(s) - 1
         /\ \A i \in 1..Len(Up(s)) : Up(s)[i] = s[i]
<1>1. CASE s = <<>> BY <1>1 DEF Up
<1>2. CASE s # <<>>
  <2>1. Len(s) \in Nat /\ Len(s) >= 1 BY <1>2, EmptySeq
  <2>2. PICK m \in Nat : Len(s) = m + 1
    <3>1. Len(s) - 1 \in Nat /\ Len(s) = (Len(s) - 1) + 1 BY <2>1
    <3> QED BY <3>1
  <2>3. Up(s) = SubSeq(s, 1, m) BY <1>2, <2>2 DEF Up, Front
  <2>4. \A i \in 1..m : s[i] \in Names BY <2>2
  <2>5. /\ SubSeq(s, 1, m) \in Seq(Names)
        /\ Len(SubSeq(s, 1, m)) = IF 1 <= m THEN m - 1 + 1 ELSE 0
        /\ \A i \in 1..(m - 1 + 1) : SubSeq(s, 1, m)[i] = s[1 + i - 1]
    BY <2>2, <2>4, SubSeqProperties
  <2> DEFINE u == SubSeq(s, 1, m)
  <2> HIDE DEF u
  <2>6. Len(u) = m BY <2>2, <2>5 DEF u
  <2>7. \A i \in 1..m : u[i] = s[i] BY <2>2, <2>5 DEF u
  <2>8. u \in Seq(Names) BY <2>5 DEF u
  <2>9. Up(s) = u BY <2>3 DEF u
  <2>10. Len(s) - 1 = m BY <2>2
  <2> QED BY <1>2, <2>6, <2>7, <2>8, <2>9, <2>10
<1> QED BY <1>1, <1>2

\* A dot makes a path of a path.
LEMMA DottedTyped ==
  ASSUME NEW p \in PathsTyped, NEW name, NEW last \in BOOLEAN
  PROVE  Dotted(p, name, last) \in PathsTyped
<1>1. p.parts \in Seq(Names) BY DEF PathsTyped, Names
<1>2. Up(p.parts) \in Seq(Names) BY <1>1, UpTyped
<1> QED BY <1>2 DEF Dotted, Path, PathsTyped, Names

\* A path begins with some number of dots.
LEMMA LeadingExists ==
  ASSUME NEW q \in Seq(Names)
  PROVE  LET n     == Len(q)
             names == {i \in 1..n : q[i] \notin Dots}
         IN  Leading(q, IF names = {} THEN n ELSE Min(names) - 1)
<1> DEFINE n     == Len(q)
           names == {i \in 1..n : q[i] \notin Dots}
           k     == IF names = {} THEN n ELSE Min(names) - 1
<1>0. n \in Nat BY LenProperties
<1>1. CASE names = {}
  <2>1. k = n BY <1>1
  <2>2. \A i \in 1..n : q[i] \in Dots BY <1>1
  <2> HIDE DEF k, names
  <2>3. Leading(q, k) BY <1>0, <2>1, <2>2 DEF Leading
  <2> QED BY <2>3 DEF k, names
<1>2. CASE names # {}
  <2>1. names \in SUBSET Nat OBVIOUS
  <2>2. \A i \in names : i \in 1..n /\ q[i] \notin Dots OBVIOUS
  <2>3. \A i \in 1..n : i \notin names => q[i] \in Dots OBVIOUS
  <2> HIDE DEF names
  <2>4. PICK m \in names : \A i \in names : m <= i BY <1>2, <2>1, LeastNat
  <2>5. Min(names) \in names /\ \A i \in names : Min(names) <= i BY <2>4 DEF Min
  <2>6. Min(names) = m
    <3> DEFINE x == Min(names)
    <3>1. x \in names /\ x <= m /\ m <= x BY <2>4, <2>5
    <3> HIDE DEF x
    <3>2. x \in Nat /\ m \in Nat BY <2>1, <2>4, <3>1
    <3>3. x = m BY <3>1, <3>2
    <3> QED BY <3>3 DEF x
  <2>7. k = m - 1 BY <1>2, <2>6
  <2> HIDE DEF k
  <2>8. k \in 0..n /\ k + 1 = m BY <1>0, <2>2, <2>4, <2>7
  <2>9. q[k + 1] \notin Dots BY <2>2, <2>4, <2>8
  <2>10. \A i \in 1..k : q[i] \in Dots
    <3> SUFFICES ASSUME NEW i \in 1..k PROVE q[i] \in Dots OBVIOUS
    <3>1. i \in 1..n /\ ~ (m <= i) BY <1>0, <2>8, <2>1, <2>4
    <3> QED BY <2>3, <2>4, <3>1
  <2>11. Leading(q, k) BY <2>8, <2>9, <2>10 DEF Leading
  <2> QED BY <2>11 DEF k, names
<1> QED BY <1>1, <1>2

\* set_pwd_str() takes the dots off one by one, and appends the rest.
LEMMA SetPwdStrTakes ==
  ASSUME NEW pwd0 \in PathsTyped, NEW path \in PathsTyped, ~ path.abs
  PROVE  \E k, w : /\ Leading(path.parts, k) /\ Taken(pwd0, path.parts, k, w)
                   /\ SetPwdStr(pwd0, path) =
                        IF k = Len(path.parts) THEN w[k]
                        ELSE Path(TRUE, w[k].parts \o SubSeq(path.parts, k + 1, Len(path.parts)))
<1> DEFINE q     == path.parts
           n     == Len(q)
           names == {i \in 1..n : q[i] \notin Dots}
           k     == IF names = {} THEN n ELSE Min(names) - 1
           Value(w, i) == CASE i = 0 -> pwd0
                            [] i > 0 /\ q[i] = "." -> w[i - 1]
                            [] i > 0 /\ q[i] = ".." ->
                                 Path(i = n \/ w[i - 1] = Slash \/ Len(w[i - 1].parts) > 1,
                                      Up(w[i - 1].parts))
           Runs(w) == w = [i \in 0..k |-> Value(w, i)]
           g == [x \in (1..k) \X PathsTyped |-> Dotted(x[2], q[x[1]], x[1] = n)]
<1>1. q \in Seq(Names) BY DEF PathsTyped, Names
<1>2. Leading(q, k) BY <1>1, LeadingExists
<1> DEFINE z == CHOOSE w : Runs(w)
<1>3. SetPwdStr(pwd0, path) = IF k = n THEN z[n]
                              ELSE Path(TRUE, z[k].parts \o SubSeq(q, k + 1, n))
  BY DEF SetPwdStr
<1> HIDE DEF k
<1>4. k \in Nat /\ n \in Nat BY <1>1, <1>2, LenProperties DEF Leading
<1>5. g \in [(1..k) \X PathsTyped -> PathsTyped] BY DottedTyped
<1>6. \A i \in 1..k, p \in PathsTyped : g[<<i, p>>] = Dotted(p, q[i], i = n) OBVIOUS
<1> HIDE DEF g
<1>7. PICK w \in [0..k -> PathsTyped] : Iterates(pwd0, g, k, w)
  BY <1>4, <1>5, IteratesExists
<1>8. ASSUME NEW v, NEW i \in 0..k
      PROVE  Value(v, i) = IF i = 0 THEN pwd0 ELSE Dotted(v[i - 1], q[i], i = n)
  <2>1. CASE i = 0 BY <2>1
  <2>2. CASE i # 0
    <3>1. i \in 1..k /\ i > 0 BY <1>4, <2>2
    <3>2. q[i] = "." \/ q[i] = ".." BY <1>2, <3>1 DEF Leading, Dots
    <3> QED BY <2>2, <3>1, <3>2 DEF Dotted
  <2> QED BY <2>1, <2>2
<1> HIDE DEF Value
<1>9. \A i \in 0..k : w[i] = IF i = 0 THEN pwd0 ELSE Dotted(w[i - 1], q[i], i = n)
  <2> SUFFICES ASSUME NEW i \in 0..k
               PROVE  w[i] = IF i = 0 THEN pwd0 ELSE Dotted(w[i - 1], q[i], i = n)
    OBVIOUS
  <2>1. w[i] = IF i = 0 THEN pwd0 ELSE g[<<i, w[i - 1]>>] BY <1>7 DEF Iterates
  <2>2. i # 0 => i \in 1..k /\ w[i - 1] \in PathsTyped BY <1>4, <1>7
  <2> QED BY <1>6, <2>1, <2>2
<1>10. Runs(w) BY <1>7, <1>8, <1>9
<1>11. Runs(z) BY <1>10
<1> HIDE DEF z
<1>12. \A i \in 0..k : z[i] = IF i = 0 THEN pwd0 ELSE Dotted(z[i - 1], q[i], i = n)
  <2> SUFFICES ASSUME NEW i \in 0..k
               PROVE  z[i] = IF i = 0 THEN pwd0 ELSE Dotted(z[i - 1], q[i], i = n)
    OBVIOUS
  <2>1. z[i] = Value(z, i) BY <1>11
  <2> QED BY <1>8, <2>1
<1>13. \A i \in 0..k : z[i] = w[i]
  <2> DEFINE T == {i \in 0..k : z[i] # w[i]}
  <2> SUFFICES ASSUME T # {} PROVE FALSE OBVIOUS
  <2>1. PICK m \in T : \A j \in T : m <= j
    <3>1. T \in SUBSET Nat OBVIOUS
    <3> HIDE DEF T
    <3> QED BY <3>1, LeastNat
  <2>2. m \in 0..k /\ z[m] # w[m] BY <2>1
  <2>3. m # 0
    <3>1. 0 \in 0..k BY <1>4
    <3> QED BY <1>9, <1>12, <2>2, <3>1
  <2>4. m - 1 \in 0..k /\ m - 1 \notin T
    <3> HIDE DEF T
    <3> QED BY <1>4, <2>1, <2>2, <2>3
  <2>5. z[m - 1] = w[m - 1] BY <2>4
  <2> QED BY <1>9, <1>12, <2>2, <2>3, <2>5
<1>14. Taken(pwd0, q, k, w)
  <2>1. w[0] = pwd0 BY <1>4, <1>9
  <2>2. \A i \in 1..k : w[i] = Dotted(w[i - 1], q[i], i = Len(q)) BY <1>4, <1>9
  <2> QED BY <1>7, <2>1, <2>2 DEF Taken
<1>15. z[k] = w[k] BY <1>4, <1>13
<1> QED BY <1>2, <1>3, <1>14, <1>15

-----------------------------------------------------------------------------
(* The two ways to make a path of the working directory and what was typed *)

\* p is what a path begins with
Begins(p, s, a) == Len(p) <= a /\ \A i \in 1..Len(p) : p[i] = s[i]

\* What the dots leave is what the first directory began with.
LEMMA UpBegins ==
  ASSUME NEW p \in Seq(Names), NEW s, NEW a \in Nat, Begins(p, s, a)
  PROVE  Begins(Up(p), s, a)
<1>1. Len(p) \in Nat BY LenProperties
<1>2. /\ Len(Up(p)) = IF p = <<>> THEN 0 ELSE Len(p) - 1
      /\ \A i \in 1..Len(Up(p)) : Up(p)[i] = p[i]
  BY UpTyped
<1>3. p = <<>> => Len(p) = 0 OBVIOUS
<1> DEFINE u == Up(p)
<1>4. Len(u) <= Len(p) /\ Len(u) \in Int BY <1>1, <1>2, <1>3
<1> HIDE DEF u
<1>5. \A i \in 1..Len(u) : u[i] = p[i] BY <1>2 DEF u
<1>6. Begins(u, s, a) BY <1>1, <1>4, <1>5 DEF Begins
<1> QED BY <1>6 DEF u

\* After its first a parts, e goes on like q after the first of its k dots
GoesOnAs(e, a, q, k) ==
  /\ Len(e) = a + Len(q) - 1
  /\ \A i \in 1..(Len(q) - 1) : e[a + i] = q[i + 1]
  /\ \A i \in 1..k : q[i] \in Dots

\* The trail of walk() passes, one dot after the other, what set_pwd_str()
\* makes of the working directory: walk() finds it, and goes on there unless it
\* is the last part and the root.
LEMMA DotsFollow ==
  ASSUME NEW e \in Seq(Names), NEW f, Trail(e, f), f = Among(e), f[Len(e)] # Nowhere,
         ~ CutOff(e),
         NEW q \in Seq(Names), NEW a \in Nat, NEW k \in 1..Len(q), GoesOnAs(e, a, q, k),
         NEW p0 \in PathsTyped, NEW w, Taken(p0, q, k, w),
         f[a] = w[1].parts, Begins(w[1].parts, e, a)
  PROVE  \A i \in 1..k :
           /\ Begins(w[i].parts, e, a)
           /\ i = 1 \/ i < Len(q) => f[a + i - 1] = w[i].parts
           /\ i # 1 => Beneath(f[(a + i - 1) - 1], e[a + i - 1]) = w[i].parts
<1> USE DEF GoesOnAs
<1> DEFINE Good(i) == /\ Begins(w[i].parts, e, a)
                      /\ i = 1 \/ i < Len(q) => f[a + i - 1] = w[i].parts
                      /\ i # 1 => Beneath(f[(a + i - 1) - 1], e[a + i - 1]) = w[i].parts
           T == {i \in 1..k : ~ Good(i)}
<1>0. Len(q) \in Nat /\ Len(e) \in Nat /\ k \in Nat /\ k <= Len(q) BY LenProperties
<1> SUFFICES ASSUME T # {} PROVE FALSE OBVIOUS
<1>1. PICK m \in T : \A j \in T : m <= j
  <2>1. T \in SUBSET Nat OBVIOUS
  <2> HIDE DEF T
  <2> QED BY <2>1, LeastNat
<1>2. m \in 1..k /\ ~ Good(m) BY <1>1
<1>3. m # 1
  <2>1. a + 1 - 1 = a OBVIOUS
  <2>2. Good(1) BY <2>1
  <2> QED BY <1>2, <2>2
<1>4. m - 1 \in 1..k /\ m - 1 \notin T
  <2> HIDE DEF T
  <2> QED BY <1>1, <1>2, <1>3
<1>5. f[a + (m - 1) - 1] = w[m - 1].parts /\ Begins(w[m - 1].parts, e, a)
  <2>1. Good(m - 1) BY <1>4
  <2>2. m - 1 < Len(q) BY <1>0, <1>2
  <2> QED BY <2>1, <2>2
<1> HIDE DEF T
<1>6. a + m - 1 \in 1..Len(e) /\ (a + m - 1) - 1 = a + (m - 1) - 1 BY <1>0, <1>2, <1>3
<1> SUFFICES /\ Begins(w[m].parts, e, a)
             /\ Beneath(f[(a + m - 1) - 1], e[a + m - 1]) = w[m].parts
  <2> SUFFICES ASSUME m < Len(q) PROVE f[a + m - 1] = Beneath(f[(a + m - 1) - 1], e[a + m - 1])
    BY <1>2, <1>3
  <2> DEFINE c == a + m - 1
  <2>1. c \in 1..(Len(e) - 1) BY <1>0, <1>2, <1>6
  <2> HIDE DEF c
  <2>2. f[c] = Beneath(f[c - 1], e[c]) BY <2>1 DEF CutOff
  <2> QED BY <2>2 DEF c
<1>8. m - 1 \in 1..(Len(q) - 1) /\ a + m - 1 = a + (m - 1) /\ (m - 1) + 1 = m
  BY <1>0, <1>2, <1>4
<1>9. e[a + m - 1] = q[m] BY <1>8
<1>10. q[m] = "." \/ q[m] = ".." BY <1>2 DEF Dots
<1>11. f[(a + m - 1) - 1] # Nowhere
  <2>1. (a + m - 1) - 1 \in 0..Len(e) BY <1>6
  <2> QED BY <2>1, NowhereStays
<1>12. w[m] = Dotted(w[m - 1], q[m], m = Len(q)) BY <1>2 DEF Taken
<1>13. w[m - 1] \in PathsTyped
  <2>1. m - 1 \in 0..k BY <1>2
  <2> QED BY <2>1 DEF Taken
<1>14. w[m - 1].parts \in Seq(Names) BY <1>13 DEF PathsTyped, Names
<1>15. CASE q[m] = "."
  <2>1. w[m] = w[m - 1] BY <1>12, <1>15 DEF Dotted
  <2>2. Beneath(f[(a + m - 1) - 1], e[a + m - 1]) = f[(a + m - 1) - 1]
    BY <1>9, <1>11, <1>15 DEF Beneath
  <2> QED BY <1>5, <1>6, <2>1, <2>2
<1>16. CASE q[m] = ".."
  <2>1. w[m].parts = Up(w[m - 1].parts) BY <1>12, <1>16 DEF Dotted, Path
  <2>2. Beneath(f[(a + m - 1) - 1], e[a + m - 1]) = Up(f[(a + m - 1) - 1])
    BY <1>9, <1>11, <1>16 DEF Beneath
  <2>3. Beneath(f[(a + m - 1) - 1], e[a + m - 1]) = w[m].parts BY <1>5, <1>6, <2>1, <2>2
  <2>4. Begins(w[m].parts, e, a) BY <1>5, <1>14, <2>1, UpBegins
  <2> QED BY <2>3, <2>4
<1> QED BY <1>10, <1>15, <1>16

\* The parts of two lists that are put together
LEMMA PutTogether ==
  ASSUME NEW s \in Seq(Names), NEW t \in Seq(Names)
  PROVE  /\ s \o t \in Seq(Names) /\ Len(s \o t) = Len(s) + Len(t)
         /\ \A i \in 1..Len(s) : (s \o t)[i] = s[i]
         /\ \A i \in 1..Len(t) : (s \o t)[Len(s) + i] = t[i]
<1> DEFINE u == s \o t
           j == Len(s)
           n == Len(t)
<1>0. j \in Nat /\ n \in Nat BY LenProperties
<1>1. u \in Seq(Names) /\ Len(u) = j + n
      /\ \A i \in 1..(j + n) : u[i] = IF i <= j THEN s[i] ELSE t[i - j]
  BY ConcatProperties
<1> HIDE DEF u, j, n
<1>2. \A i \in 1..j : u[i] = s[i]
  <2> SUFFICES ASSUME NEW i \in 1..j PROVE u[i] = s[i] OBVIOUS
  <2>1. i \in 1..(j + n) /\ i <= j BY <1>0
  <2> QED BY <1>1, <2>1
<1>3. \A i \in 1..n : u[j + i] = t[i]
  <2> SUFFICES ASSUME NEW i \in 1..n PROVE u[j + i] = t[i] OBVIOUS
  <2>1. j + i \in 1..(j + n) /\ ~ (j + i <= j) /\ (j + i) - j = i BY <1>0
  <2> QED BY <1>1, <2>1
<1> QED BY <1>1, <1>2, <1>3 DEF u, j, n

\* A path without dots leads to the directory of its names, if another one goes
\* the same way.
LEMMA PlainLeads ==
  ASSUME NEW e \in Seq(Names), NEW f, Trail(e, f), f[Len(e)] # Nowhere,
         NEW a \in Nat, \A i \in 1..a : i <= Len(e) /\ e[i] \notin Dots, a <= Len(e),
         NEW d \in Seq(Names), Begins(d, e, a)
  PROVE  f[Len(d)] = d /\ LookUp(d) = d
<1> DEFINE j == Len(d)
           g == Among(d)
<1>1. j \in Nat /\ Len(e) \in Nat BY LenProperties
<1>2. j <= a /\ \A i \in 1..j : d[i] = e[i] BY DEF Begins
<1>3. Trail(d, g) BY TrailExists
<1> HIDE DEF g
<1>4. f[j] = d
  <2>1. j \in 0..Len(e) /\ \A i \in 1..j : e[i] \notin Dots BY <1>1, <1>2
  <2>2. f[j] = SubSeq(e, 1, j) BY <2>1, PlainTrail
  <2>3. SubSeq(e, 1, j) = d
    <3>1. SubSeq(e, 1, j) \in Seq(Names) /\ Len(SubSeq(e, 1, j)) = j
          /\ \A i \in 1..j : SubSeq(e, 1, j)[i] = e[i]
      BY <2>1, <1>1
    <3> DEFINE x == SubSeq(e, 1, j)
    <3> HIDE DEF x, j
    <3>2. x \in Seq(Names) /\ Len(x) = j /\ \A i \in 1..j : x[i] = e[i] BY <3>1 DEF x
    <3>3. Len(d) = j BY DEF j
    <3>4. x = d BY <1>2, <3>2, <3>3, SeqEqual
    <3> QED BY <3>4 DEF x
  <2> QED BY <2>2, <2>3
<1>5. g[j] = f[j]
  <2>1. f[0] = <<>> /\ g[0] = <<>> BY <1>3 DEF Trail
  <2> HIDE DEF j
  <2>2. \A i \in 1..j : e[0 + i] = d[0 + i] BY <1>1, <1>2
  <2>3. 0 + j <= Len(e) /\ 0 + j <= Len(d) /\ 0 + j = j BY <1>1, <1>2 DEF j
  <2>4. Alike(e, 0, d, 0, j) BY <2>2, <2>3 DEF Alike
  <2>5. 0 \in Nat /\ f[0] = g[0] BY <2>1
  <2>6. f[0 + j] = g[0 + j] BY <1>1, <1>3, <2>4, <2>5, TrailsMeet
  <2> QED BY <2>3, <2>6
<1>6. LookUp(d) = d
  <2>1. CASE d = <<>> BY <2>1 DEF LookUp
  <2>2. CASE d # <<>>
    <3>1. j \in 1..j /\ LookUp(d) = Beneath(g[j - 1], d[j]) BY <1>3, <2>2, TrailEnds DEF g
    <3>2. /\ g[j - 1] \in Places
          /\ g[j] = IF Beneath(g[j - 1], d[j]) = <<>> THEN g[j - 1] ELSE Beneath(g[j - 1], d[j])
      BY <1>3, <3>1, TrailStep
    <3>3. d[j] \in Names /\ d[j] \notin Dots
      <4>1. j \in 1..Len(d) /\ j \in 1..a BY <1>1, <1>2, <3>1
      <4> QED BY <1>2, <4>1
    <3>4. Beneath(g[j - 1], d[j]) # <<>> BY <3>2, <3>3, NameLeads
    <3> QED BY <1>4, <1>5, <3>1, <3>2, <3>4
  <2> QED BY <2>1, <2>2
<1> QED BY <1>4, <1>6

\* A path that begins where another one has come to, and goes on alike, leads
\* where that one does.
LEMMA TrailGoesOn ==
  ASSUME NEW e \in Seq(Names), NEW f, Trail(e, f), f = Among(e), f[Len(e)] # Nowhere,
         NEW a \in Nat, \A i \in 1..a : i <= Len(e) /\ e[i] \notin Dots, a <= Len(e),
         NEW d \in Seq(Names), Begins(d, e, a), NEW r \in Seq(Names), r # <<>>,
         NEW b \in Nat, b + Len(r) = Len(e), f[b] = d,
         \A i \in 1..Len(r) : e[b + i] = r[i]
  PROVE  LookUp(d \o r) = LookUp(e)
<1> DEFINE t == d \o r
           j == Len(d)
           n == Len(r)
           g == Among(t)
<1>1. j \in Nat /\ n \in Nat /\ n >= 1 /\ Len(e) \in Nat BY LenProperties, EmptySeq
<1>2. /\ t \in Seq(Names) /\ Len(t) = j + n
      /\ \A i \in 1..j : t[i] = d[i]
      /\ \A i \in 1..n : t[j + i] = r[i]
  BY PutTogether
<1> HIDE DEF t
<1>3. Trail(t, g) BY <1>2, TrailExists
<1> HIDE DEF g
<1>4. j <= a /\ \A i \in 1..j : d[i] = e[i] BY DEF Begins
<1>5. f[j] = d BY PlainLeads
<1> HIDE DEF j, n
<1>6. g[j] = f[j]
  <2>1. f[0] = <<>> /\ g[0] = <<>> BY <1>3 DEF Trail
  <2>2. \A i \in 1..j : e[0 + i] = t[0 + i] BY <1>1, <1>2, <1>4
  <2>3. 0 + j <= Len(e) /\ 0 + j <= Len(t) /\ 0 + j = j BY <1>1, <1>2, <1>4
  <2>4. Alike(e, 0, t, 0, j) BY <2>2, <2>3 DEF Alike
  <2>5. 0 \in Nat /\ f[0] = g[0] BY <2>1
  <2>6. f[0 + j] = g[0 + j] BY <1>1, <1>2, <1>3, <2>4, <2>5, TrailsMeet
  <2> QED BY <2>3, <2>6
<1>7. f[b] = g[j] BY <1>5, <1>6
<1>8. b + n = Len(e) /\ j + n = Len(t) /\ \A i \in 1..n : e[b + i] = t[j + i]
  BY <1>2 DEF n
<1>9. f[b + (n - 1)] = g[j + (n - 1)]
  <2>1. n - 1 \in Nat /\ b + (n - 1) <= Len(e) /\ j + (n - 1) <= Len(t) BY <1>1, <1>8
  <2>2. \A i \in 1..(n - 1) : e[b + i] = t[j + i] BY <1>1, <1>8
  <2>3. Alike(e, b, t, j, n - 1) BY <2>1, <2>2 DEF Alike
  <2> QED BY <1>1, <1>2, <1>3, <1>7, <2>1, <2>3, TrailsMeet
<1>10. e # <<>> /\ t # <<>>
  <2>1. Len(e) # 0 /\ Len(t) # 0 BY <1>1, <1>8
  <2> QED BY <2>1
<1>11. LookUp(e) = Beneath(f[Len(e) - 1], e[Len(e)]) /\ LookUp(t) = Beneath(g[Len(t) - 1], t[Len(t)])
  BY <1>10 DEF LookUp, g
<1>12. Len(e) - 1 = b + (n - 1) /\ Len(t) - 1 = j + (n - 1)
  <2>1. Len(e) = b + n /\ Len(t) = j + n BY <1>8
  <2> QED BY <1>1, <2>1
<1>13. e[Len(e)] = t[Len(t)]
  <2>1. n \in 1..n BY <1>1
  <2> QED BY <1>8, <2>1
<1>14. LookUp(t) = LookUp(e) BY <1>9, <1>11, <1>12, <1>13
<1> QED BY <1>14 DEF t

\* A relative path that begins with dots is looked up from what the first of
\* them makes of the working directory.
LEMMA DotsExpanded ==
  ASSUME NEW p0 \in PathsTyped, NEW path \in PathsTyped, ~ path.abs,
         NEW last \in BOOLEAN, path.parts[1] \in Dots
  PROVE  Expanded(p0, path) = Dotted(p0, path.parts[1], last).parts \o Tail(path.parts)
<1>1. CASE path.parts[1] = "." BY <1>1 DEF Expanded, Dotted
<1>2. CASE path.parts[1] = ".."
  <2>1. Expanded(p0, path) = Up(p0.parts) \o Tail(path.parts) BY <1>2 DEF Expanded
  <2>2. Dotted(p0, path.parts[1], last).parts = Up(p0.parts) BY <1>2 DEF Dotted, Path
  <2> QED BY <2>1, <2>2
<1> QED BY <1>1, <1>2 DEF Dots

\* What walk() finds is where the new working directory leads, if it does not come
\* to the root and go on.
LEMMA WalkAgrees ==
  ASSUME NEW p0 \in PathsTyped, Plain(p0), NEW path \in PathsTyped, Walk(p0, path) # Nowhere,
         ~ CutOff(Expanded(p0, path))
  PROVE  LookUp(SetPwdStr(p0, path).parts) = Walk(p0, path)
<1> DEFINE q == path.parts
           n == Len(q)
<1>1. q \in Seq(Names) /\ n \in Nat /\ p0.parts \in Seq(Names)
  BY LenProperties DEF PathsTyped, Names
<1>2. CASE path.abs
  <2>1. path # Nothing /\ path # Path(FALSE, <<".">>) BY <1>2 DEF Nothing, Path
  <2>2. Walk(p0, path) = LookUp(path.parts) BY <1>2, <2>1 DEF Walk, Expanded
  <2>3. SetPwdStr(p0, path) = path BY <1>2 DEF SetPwdStr
  <2> QED BY <2>2, <2>3
<1>3. CASE ~ path.abs
  <2>1. path = [abs |-> path.abs, parts |-> q] /\ path.abs \in BOOLEAN BY DEF PathsTyped
  <2>2. q # <<>> /\ n >= 1
    <3>1. q = <<>> => path = Nothing BY <1>3, <2>1 DEF Nothing, Path
    <3>2. path # Nothing BY DEF Walk
    <3> QED BY <1>1, <3>1, <3>2, EmptySeq
  <2> DEFINE e == Expanded(p0, path)
  <2>3. Walk(p0, path) = LookUp(e) BY DEF Walk
  <2>4. PICK k, w : /\ Leading(q, k) /\ Taken(p0, q, k, w)
                    /\ SetPwdStr(p0, path) =
                         IF k = n THEN w[k] ELSE Path(TRUE, w[k].parts \o SubSeq(q, k + 1, n))
    BY <1>3, SetPwdStrTakes
  <2>5. k \in 0..n /\ w[0] = p0 BY <2>4 DEF Leading, Taken
  <2>6. CASE k = 0
    <3>1. q[1] \notin Dots BY <2>2, <2>4, <2>6 DEF Leading
    <3>2. e = p0.parts \o q BY <1>3, <3>1 DEF Expanded, Dots
    <3>3. SubSeq(q, 0 + 1, n) = q BY <1>1
    <3>4. SetPwdStr(p0, path) = Path(TRUE, p0.parts \o q)
      <4>1. k # n /\ w[k] = p0 BY <1>1, <2>2, <2>5, <2>6
      <4>2. SubSeq(q, k + 1, n) = q BY <2>6, <3>3
      <4> HIDE DEF q
      <4> QED BY <2>4, <4>1, <4>2
    <3>5. SetPwdStr(p0, path).parts = p0.parts \o q
      <4> DEFINE x == p0.parts \o q
      <4>1. SetPwdStr(p0, path) = Path(TRUE, x) BY <3>4
      <4> HIDE DEF x
      <4>2. SetPwdStr(p0, path).parts = x BY <4>1 DEF Path
      <4> QED BY <4>2 DEF x
    <3> QED BY <2>3, <3>2, <3>5
  <2>7. CASE k # 0
    <3>1. k \in 1..n /\ \A i \in 1..k : q[i] \in Dots BY <1>1, <2>4, <2>5, <2>7 DEF Leading
    <3> DEFINE b == w[1].parts
               a == Len(b)
               d == w[k].parts
               r == SubSeq(q, k + 1, n)
    <3>2. 1 \in 1..k /\ w[1] = Dotted(p0, q[1], 1 = n)
      <4>1. 1 \in 1..k /\ 1 - 1 = 0 BY <1>1, <3>1
      <4>2. w[1] = Dotted(w[1 - 1], q[1], 1 = Len(q)) BY <2>4, <4>1 DEF Taken
      <4> QED BY <2>5, <4>1, <4>2
    <3>3. e = b \o Tail(q) BY <1>3, <3>1, <3>2, DotsExpanded
    <3> HIDE DEF e
    <3>4. \A i \in 0..k : w[i] \in PathsTyped BY <2>4 DEF Taken
    <3>5. b \in Seq(Names) /\ d \in Seq(Names) /\ a \in Nat
      <4>1. w[1] \in PathsTyped /\ w[k] \in PathsTyped BY <3>1, <3>4
      <4> QED BY <4>1, LenProperties DEF PathsTyped, Names
    <3>6. Tail(q) \in Seq(Names) /\ Len(Tail(q)) = n - 1
          /\ \A i \in 1..(n - 1) : Tail(q)[i] = q[i + 1]
      BY <1>1, <2>2
    <3>7. /\ e \in Seq(Names) /\ Len(e) = a + n - 1
          /\ \A i \in 1..a : e[i] = b[i]
          /\ \A i \in 1..(n - 1) : e[a + i] = q[i + 1]
      <4> DEFINE u == Tail(q)
      <4> HIDE DEF u
      <4>1. u \in Seq(Names) /\ Len(u) = n - 1 /\ \A i \in 1..(n - 1) : u[i] = q[i + 1]
        BY <3>6 DEF u
      <4>2. /\ b \o u \in Seq(Names) /\ Len(b \o u) = Len(b) + Len(u)
            /\ \A i \in 1..Len(b) : (b \o u)[i] = b[i]
            /\ \A i \in 1..Len(u) : (b \o u)[Len(b) + i] = u[i]
        BY <3>5, <4>1, PutTogether
      <4>3. e = b \o u BY <3>3 DEF u
      <4> HIDE DEF b, q
      <4>4. Len(e) = a + (n - 1) BY <4>1, <4>2, <4>3
      <4> HIDE DEF a, n
      <4>5. Len(e) = a + n - 1 BY <1>1, <3>5, <4>4
      <4>6. \A i \in 1..(n - 1) : e[a + i] = q[i + 1] BY <4>1, <4>2, <4>3 DEF a
      <4> QED BY <4>2, <4>3, <4>5, <4>6 DEF a
    <3>8. \A i \in 1..a : i <= Len(p0.parts) /\ b[i] = p0.parts[i]
      <4>1. CASE q[1] = "." BY <3>2, <4>1, <1>1 DEF Dotted
      <4>2. CASE q[1] = ".."
        <5>1. b = Up(p0.parts) BY <3>2, <4>2 DEF Dotted, Path
        <5> DEFINE u == Up(p0.parts)
                   l == Len(p0.parts)
        <5>2. /\ Len(u) = IF p0.parts = <<>> THEN 0 ELSE l - 1
              /\ \A i \in 1..Len(u) : u[i] = p0.parts[i]
          BY <1>1, UpTyped
        <5>3. l \in Nat BY <1>1, LenProperties
        <5>4. p0.parts = <<>> => l = 0 OBVIOUS
        <5> HIDE DEF u, l
        <5>5. Len(u) \in Int /\ Len(u) <= l BY <5>2, <5>3, <5>4
        <5>6. \A i \in 1..Len(u) : i <= l /\ u[i] = p0.parts[i] BY <5>2, <5>3, <5>5
        <5> QED BY <5>1, <5>6 DEF u, l
      <4> QED BY <3>1, <3>2, <4>1, <4>2 DEF Dots
    <3>9. \A i \in 1..a : i <= Len(e) /\ e[i] \notin Dots
      <4>1. \A i \in 1..a : e[i] \notin Dots
        <5> SUFFICES ASSUME NEW i \in 1..a PROVE e[i] \notin Dots OBVIOUS
        <5>1. e[i] = p0.parts[i] /\ i \in 1..Len(p0.parts) BY <1>1, <3>5, <3>7, <3>8
        <5> QED BY <5>1 DEF Plain
      <4> HIDE DEF q, b, a, n
      <4>2. \A i \in 1..a : i <= Len(e) BY <1>1, <2>2, <3>5, <3>7
      <4> QED BY <4>1, <4>2
    <3> DEFINE f == Among(e)
    <3>10. Trail(e, f) /\ f = Among(e) BY <3>7, TrailExists
    <3> HIDE DEF f
    <3>11. f[Len(e)] # Nowhere
      <4>1. CASE e = <<>>
        <5>1. f[Len(e)] = <<>> BY <3>10, <4>1 DEF Trail
        <5>2. <<>> # Nowhere BY DEF Nowhere
        <5> QED BY <5>1, <5>2
      <4>2. CASE e # <<>> BY <2>3, <3>7, <3>10, <4>2, TrailEnds
      <4> QED BY <4>1, <4>2
    <3>12. a \in 0..Len(e) /\ a <= Len(e)
      <4> HIDE DEF q, b, a, n
      <4> QED BY <1>1, <2>2, <3>5, <3>7
    <3>13. Begins(b, e, a) BY <3>5, <3>7 DEF Begins
    <3>14. f[a] = b BY <3>5, <3>7, <3>9, <3>10, <3>11, <3>12, <3>13, PlainLeads
    <3>15. /\ Begins(d, e, a)
           /\ k = 1 \/ k < n => f[a + k - 1] = d
           /\ k # 1 => Beneath(f[(a + k - 1) - 1], e[a + k - 1]) = d
      <4>1. GoesOnAs(e, a, q, k) BY <3>1, <3>7 DEF GoesOnAs
      <4>2. k \in 1..Len(q) BY <3>1
      <4>3. f[a] = w[1].parts /\ Begins(w[1].parts, e, a) BY <3>13, <3>14
      <4>4. q \in Seq(Names) /\ a \in Nat /\ e \in Seq(Names) BY <1>1, <3>5, <3>7
      <4>5. Trail(e, f) /\ f = Among(e) /\ f[Len(e)] # Nowhere /\ Taken(p0, q, k, w) /\ ~ CutOff(e)
        BY <2>4, <3>10, <3>11 DEF e
      <4> HIDE DEF q, a
      <4>6. \A i \in 1..k :
              /\ Begins(w[i].parts, e, a)
              /\ i = 1 \/ i < Len(q) => f[a + i - 1] = w[i].parts
              /\ i # 1 => Beneath(f[(a + i - 1) - 1], e[a + i - 1]) = w[i].parts
        BY <4>1, <4>2, <4>3, <4>4, <4>5, DotsFollow
      <4>7. k \in 1..k BY <3>1
      <4> QED BY <4>6, <4>7
    <3>16. r \in Seq(Names) /\ Len(r) = n - k /\ \A i \in 1..(n - k) : r[i] = q[k + i]
      BY <1>1, <3>1
    <3>17. LookUp(d \o r) = LookUp(e)
      <4>1. CASE k = n
        <5>1. r = <<>> BY <1>1, <4>1
        <5>2. d \o <<>> = d BY <3>5
        <5>3. LookUp(d) = d
          <6> HIDE DEF a, b, d
          <6> QED BY <3>5, <3>7, <3>9, <3>10, <3>11, <3>12, <3>15, PlainLeads
        <5>4. CASE k = 1
          <6>1. Len(e) = Len(b) /\ \A i \in 1..Len(b) : e[i] = b[i]
            BY <1>1, <3>5, <3>7, <4>1, <5>4
          <6>2. e = b
            <7> HIDE DEF b
            <7> QED BY <3>5, <3>7, <6>1, SeqEqual
          <6> QED BY <5>1, <5>2, <5>3, <5>4, <6>2
        <5>5. CASE k # 1
          <6> HIDE DEF a, b, d, r, q, n
          <6>1. a + k - 1 = Len(e) /\ Len(e) # 0 BY <1>1, <3>1, <3>5, <3>7, <4>1, <5>5
          <6>2. e # <<>> BY <6>1
          <6>3. LookUp(e) = Beneath(f[Len(e) - 1], e[Len(e)]) BY <3>7, <3>10, <6>2, TrailEnds
          <6>4. LookUp(e) = d BY <3>15, <5>5, <6>1, <6>3
          <6> QED BY <5>1, <5>2, <5>3, <6>4
        <5> QED BY <5>4, <5>5
      <4>2. CASE k # n
        <5> DEFINE c == a + k - 1
        <5> HIDE DEF a, b, d, r, q, n
        <5>1. c \in Nat /\ c + Len(r) = Len(e) /\ k < n
          <6>1. n \in Nat /\ a \in Nat /\ k \in Nat /\ 1 <= k /\ k < n
            BY <1>1, <3>1, <3>5, <4>2
          <6>2. Len(r) = n - k /\ Len(e) = a + n - 1 BY <3>7, <3>16
          <6> QED BY <6>1, <6>2
        <5>2. f[c] = d BY <3>15, <5>1
        <5>3. \A i \in 1..Len(r) : e[c + i] = r[i]
          <6> SUFFICES ASSUME NEW i \in 1..Len(r) PROVE e[c + i] = r[i] OBVIOUS
          <6>1. i \in 1..(n - k) /\ k + i - 1 \in 1..(n - 1) BY <1>1, <3>1, <3>16
          <6>2. c + i = a + (k + i - 1) /\ (k + i - 1) + 1 = k + i BY <1>1, <3>1, <3>5, <6>1
          <6>3. e[a + (k + i - 1)] = q[k + i] BY <3>7, <6>1, <6>2
          <6> QED BY <3>16, <6>1, <6>2, <6>3
        <5>4. r # <<>>
          <6>1. Len(r) # 0 BY <1>1, <3>1, <3>16, <5>1
          <6> QED BY <6>1
        <5>5. d \in Seq(Names) /\ e \in Seq(Names) /\ r \in Seq(Names) /\ a \in Nat
              /\ Begins(d, e, a)
          BY <3>5, <3>7, <3>15, <3>16
        <5>6. /\ Trail(e, f) /\ f = Among(e) /\ f[Len(e)] # Nowhere /\ a <= Len(e)
              /\ \A i \in 1..a : i <= Len(e) /\ e[i] \notin Dots
          BY <3>9, <3>10, <3>11, <3>12
        <5>7. c \in Nat /\ c + Len(r) = Len(e) BY <5>1
        <5> HIDE DEF c
        <5> QED BY SMTT(60), <5>2, <5>3, <5>4, <5>5, <5>6, <5>7, TrailGoesOn
      <4> QED BY <4>1, <4>2
    <3>18. SetPwdStr(p0, path).parts = d \o r
      <4>1. CASE k = n
        <5>1. r = <<>> BY <1>1, <4>1
        <5>2. d \o <<>> = d BY <3>5
        <5> QED BY <2>4, <4>1, <5>1, <5>2
      <4>2. CASE k # n
        <5>1. SetPwdStr(p0, path) = Path(TRUE, d \o r) BY <2>4, <4>2
        <5> HIDE DEF d, r
        <5> QED BY <5>1 DEF Path
      <4> QED BY <4>1, <4>2
    <3> QED BY <2>3, <3>17, <3>18
  <2> QED BY <2>6, <2>7
<1> QED BY <1>2, <1>3

-----------------------------------------------------------------------------
(* The threads *)

\* What is kept of the working directory, the line and the modes
SInv ==
  /\ pwd \in PathsTyped
  /\ line \in Seq(Commands)
  /\ spc \in {"line", "cd"} => line # <<>>
  /\ spc = "cd" => Head(line).op = "cd"
  /\ smode \in Int /\ kmode \in Int
  /\ ModesAgree

\* set_pwd_str() makes a path of two.
LEMMA SetPwdStrTyped ==
  ASSUME NEW p0 \in PathsTyped, NEW path \in PathsTyped
  PROVE  SetPwdStr(p0, path) \in PathsTyped
<1>1. CASE path.abs BY <1>1 DEF SetPwdStr
<1>2. CASE ~ path.abs
  <2> DEFINE q == path.parts
             n == Len(q)
  <2>1. PICK k, w : /\ Leading(q, k) /\ Taken(p0, q, k, w)
                    /\ SetPwdStr(p0, path) =
                         IF k = n THEN w[k] ELSE Path(TRUE, w[k].parts \o SubSeq(q, k + 1, n))
    BY <1>2, SetPwdStrTakes
  <2>2. q \in Seq(Names) /\ n \in Nat BY LenProperties DEF PathsTyped, Names
  <2>3. k \in 0..n BY <2>1 DEF Leading
  <2>4. w[k] \in PathsTyped
    <3>1. k \in 0..k BY <2>2, <2>3
    <3> QED BY <2>1, <3>1 DEF Taken
  <2>5. CASE k = n BY <2>1, <2>4, <2>5
  <2>6. CASE k # n
    <3> DEFINE r == SubSeq(q, k + 1, n)
               u == w[k].parts \o r
    <3>1. r \in Seq(Names) BY <2>2, <2>3
    <3>2. w[k].parts \in Seq(Names) BY <2>4 DEF PathsTyped, Names
    <3>3. SetPwdStr(p0, path) = Path(TRUE, u) BY <2>1, <2>6
    <3> HIDE DEF r
    <3>4. u \in Seq(Names) BY <3>1, <3>2
    <3> HIDE DEF u
    <3> QED BY <3>3, <3>4 DEF Path, PathsTyped, Names
  <2> QED BY <2>5, <2>6
<1> QED BY <1>1, <1>2

\* A command is what its name says.
LEMMA CommandTyped ==
  ASSUME NEW c \in Commands
  PROVE  /\ c.op = "cd" => c.path \in PathsTyped
         /\ c.op = "set" => c.mode \in Int
BY DEF Commands

\* The working directory, the line and the modes are kept so by every step.
LEMMA SInvStep ==
  SInv /\ [Next]_vars => SInv'
<1> SUFFICES ASSUME SInv, [Next]_vars PROVE SInv' OBVIOUS
<1>1. /\ pwd \in PathsTyped /\ line \in Seq(Commands) /\ smode \in Int /\ kmode \in Int
      /\ spc \in {"line", "cd"} => line # <<>>
      /\ spc = "cd" => Head(line).op = "cd"
      /\ kmode \in {smode, - smode}
  BY DEF SInv, ModesAgree
<1>2. line # <<>> => Head(line) \in Commands /\ Tail(line) \in Seq(Commands) BY <1>1
<1>3. ASSUME ReadLine PROVE SInv'
  <2>1. line' \in Seq(Commands) /\ line' # <<>> BY <1>3, ShellAssumption DEF ReadLine
  <2>2. UNCHANGED <<pwd, smode, kmode>> /\ spc' = "line" BY <1>3 DEF ReadLine, dirs, kvars
  <2> QED BY <1>1, <2>1, <2>2 DEF SInv, ModesAgree
<1>4. ASSUME CtrlX PROVE SInv'
  <2>1. UNCHANGED <<pwd, line, spc>> /\ smode' = 0 /\ kmode' = 0 BY <1>4 DEF CtrlX, dirs
  <2> QED BY <1>1, <2>1 DEF SInv, ModesAgree
<1>5. ASSUME CheckCd PROVE SInv'
  <2>1. UNCHANGED <<pwd, smode, kmode>> BY <1>5 DEF CheckCd, dirs, kvars
  <2>2. line # <<>> /\ Head(line).op = "cd" BY <1>1, <1>5 DEF CheckCd, Command
  <2>3. CASE spc' = "cd" /\ UNCHANGED line
    <3>1. line' \in Seq(Commands) /\ line' # <<>> /\ Head(line').op = "cd" BY <1>1, <2>2, <2>3
    <3> QED BY <1>1, <2>1, <2>3, <3>1 DEF SInv, ModesAgree
  <2>4. CASE Done BY <1>1, <1>2, <2>1, <2>2, <2>4 DEF SInv, ModesAgree, Done
  <2>5. (spc' = "cd" /\ UNCHANGED line) \/ Done BY <1>5 DEF CheckCd
  <2> QED BY <2>3, <2>4, <2>5
<1>6. ASSUME SetCd PROVE SInv'
  <2>1. line # <<>> /\ Head(line).op = "cd" BY <1>1, <1>6 DEF SetCd
  <2>2. Head(line).path \in PathsTyped BY <1>2, <2>1, CommandTyped
  <2>3. pwd' \in PathsTyped BY <1>1, <1>6, <2>2, SetPwdStrTyped DEF SetCd
  <2>4. Done /\ UNCHANGED <<smode, kmode>> BY <1>6 DEF SetCd, kvars
  <2> QED BY <1>1, <1>2, <2>1, <2>3, <2>4 DEF SInv, ModesAgree, Done
<1>7. ASSUME SetMode PROVE SInv'
  <2>1. line # <<>> /\ Head(line).op = "set" BY <1>1, <1>7 DEF SetMode, Command
  <2>2. Head(line).mode \in Int BY <1>2, <2>1, CommandTyped
  <2>3. Done /\ pwd' = pwd /\ smode' = Head(line).mode /\ kmode' = Head(line).mode
    BY <1>7 DEF SetMode, dirs
  <2> QED BY <1>1, <1>2, <2>1, <2>2, <2>3 DEF SInv, ModesAgree, Done
<1>8. ASSUME Pause PROVE SInv'
  <2>1. line # <<>> BY <1>1, <1>8 DEF Pause, Command
  <2>2. Done /\ pwd' = pwd /\ smode' = smode /\ kmode' = - kmode BY <1>8 DEF Pause, dirs
  <2>3. kmode' \in Int /\ kmode' \in {smode', - smode'} BY <1>1, <2>2
  <2> QED BY <1>1, <1>2, <2>1, <2>2, <2>3 DEF SInv, ModesAgree, Done
<1>9. ASSUME OpenWindow \/ Exit PROVE SInv'
  <2>1. line # <<>> BY <1>1, <1>9 DEF OpenWindow, Exit, Command
  <2>2. Done /\ UNCHANGED <<pwd, smode, kmode>> BY <1>9 DEF OpenWindow, Exit, dirs, kvars
  <2> QED BY <1>1, <1>2, <2>1, <2>2 DEF SInv, ModesAgree, Done
<1>10. ASSUME ShellEnds PROVE SInv'
  <2>1. UNCHANGED <<pwd, line, smode, kmode>> /\ spc' = "done" BY <1>10 DEF ShellEnds, dirs, kvars
  <2> QED BY <1>1, <2>1 DEF SInv, ModesAgree
<1>11. ASSUME KernelStep \/ Delete \/ CloseWindow \/ UNCHANGED vars PROVE SInv'
  <2>1. UNCHANGED <<pwd, line, spc, smode, kmode>>
    BY <1>11 DEF KernelStep, KernelTurn, TickEnds, Delete, CloseWindow, vars, dirs, svars, kvars
  <2> QED BY <1>1, <2>1 DEF SInv, ModesAgree
<1>12. ASSUME NEW path \in WindowPaths, WindowCd(path) PROVE SInv'
  <2>1. path \in PathsTyped BY ShellAssumption
  <2>2. pwd' \in PathsTyped BY <1>1, <1>12, <2>1, SetPwdStrTyped DEF WindowCd
  <2>3. UNCHANGED <<line, spc, smode, kmode>> BY <1>12 DEF WindowCd, svars, kvars
  <2> QED BY <1>1, <2>2, <2>3 DEF SInv, ModesAgree
<1> QED
  BY <1>3, <1>4, <1>5, <1>6, <1>7, <1>8, <1>9, <1>10, <1>11, <1>12 DEF Next, ShellStep

\* The program begins with the root, no line, and mode 1 in both places.
LEMMA SInvInit == Init => SInv
<1> SUFFICES ASSUME Init PROVE SInv OBVIOUS
<1>1. Slash \in PathsTyped
  <2>1. <<>> \in Seq(STRING) OBVIOUS
  <2> QED BY <2>1 DEF Slash, Path, PathsTyped
<1>2. <<>> \in Seq(Commands) OBVIOUS
<1> QED BY <1>1, <1>2 DEF Init, SInv, ModesAgree

\* They are so in every state.
LEMMA SInvHolds == Spec => []SInv
BY SInvInit, SInvStep, PTL DEF Spec

\* The shell and the kernel agree on the mode, up to its sign, whatever is set,
\* paused or ended by Ctrl-X, in any order (shell.cpp:45, :146, kernel.cpp:75).
THEOREM ModesStayAgreed == Spec => []ModesAgree
<1>1. SInv => ModesAgree BY DEF SInv
<1> QED BY <1>1, SInvHolds, PTL

\* A cd leads where its path leads, for every tree of directories: from a
\* working directory without dots, and with a path that does not come to the
\* root by ".." and go on, the string that set_pwd_str() makes names the
\* directory that walk() has found (filesystem.cpp:281-312, :336, :1022).
THEOREM CdLeadsThere == Spec => CdAgrees
<1> DEFINE Step == spc = "cd" /\ spc' # "cd" /\ Plain(pwd)
                     /\ ~ CutOff(Expanded(pwd, Head(line).path)) =>
                     Walk(pwd, Head(line).path) \in {LookUp(pwd'.parts), Nowhere}
<1>1. SInv /\ [Next]_vars => [Step]_vars
  <2> SUFFICES ASSUME SInv, Next, spc = "cd", spc' # "cd", Plain(pwd),
                      ~ CutOff(Expanded(pwd, Head(line).path)),
                      Walk(pwd, Head(line).path) # Nowhere
               PROVE  Walk(pwd, Head(line).path) = LookUp(pwd'.parts)
    OBVIOUS
  <2>1. SetCd
    BY DEF Next, ShellStep, KernelStep, ReadLine, CtrlX, CheckCd, SetMode, Pause, OpenWindow,
           Exit, ShellEnds, KernelTurn, TickEnds, Delete, CloseWindow, WindowCd, Command, svars
  <2>2. pwd \in PathsTyped /\ line \in Seq(Commands) /\ line # <<>> /\ Head(line).op = "cd"
    BY DEF SInv
  <2>3. Head(line) \in Commands BY <2>2
  <2>4. Head(line).path \in PathsTyped BY <2>2, <2>3, CommandTyped
  <2>5. pwd' = SetPwdStr(pwd, Head(line).path) BY <2>1 DEF SetCd
  <2> QED BY <2>2, <2>4, <2>5, WalkAgrees
<1>2. Spec => [][Next]_vars BY DEF Spec
<1> QED BY <1>1, <1>2, SInvHolds, PTL DEF CdAgrees
=============================================================================
