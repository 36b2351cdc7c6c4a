----------------------------- MODULE ListLemmas -----------------------------
(***************************************************************************)
(* What the list operations of module Lists return: which elements they    *)
(* keep, that an element that was there once is there once at most, and    *)
(* that those that are kept stay in their order.                           *)
(***************************************************************************)
EXTENDS Lists, WellFoundedInduction, SequenceTheorems, TLAPS

\* A set of numbers that is not empty has a least one (this stands in for induction).
LEMMA LeastNat ==
  ASSUME NEW T \in SUBSET Nat, T # {}
  PROVE  \E m \in T : \A k \in T : m <= k
<1> DEFINE R == {ss \in Nat \X Nat : ss[1] < ss[2]}
<1>1. IsWellFoundedOn(R, Nat)
  BY NatLessThanWellFounded DEF OpToRel
<1>3. \A k, m \in Nat : ~ (<<k, m>> \in R) => m <= k
  OBVIOUS
<1> HIDE DEF R
<1>2. \E m \in T : \A k \in T : ~ (<<k, m>> \in R)
  BY <1>1, WFMin
<1> QED BY <1>2, <1>3

\* push_back(y): the elements of the list, and y.
LEMMA AppendOccurs ==
  ASSUME NEW S, NEW s \in Seq(S), NEW y \in S
  PROVE  /\ Append(s, y) \in Seq(S)
         /\ \A x : Occurs(Append(s, y), x) <=> Occurs(s, x) \/ x = y
         /\ \A x : Once(s, x) /\ (x = y => ~ Occurs(s, x)) => Once(Append(s, y), x)
  BY DEF Occurs, Once

\* pop_front(): all the elements but the first.
LEMMA TailOccurs ==
  ASSUME NEW S, NEW s \in Seq(S), s # <<>>
  PROVE  /\ Tail(s) \in Seq(S)
         /\ Head(s) \in S
         /\ Occurs(s, Head(s))
         /\ \A x : Occurs(Tail(s), x) => Occurs(s, x)
         /\ \A x : Occurs(s, x) => Occurs(Tail(s), x) \/ x = Head(s)
         /\ \A x : Once(s, x) => Once(Tail(s), x) /\ (x = Head(s) => ~ Occurs(Tail(s), x))
<1>1. /\ Tail(s) \in Seq(S) /\ Head(s) \in S /\ Head(s) = s[1] /\ Len(s) \in Nat /\ Len(s) >= 1
      /\ Len(Tail(s)) = Len(s) - 1
      /\ \A i \in 1..Len(Tail(s)) : Tail(s)[i] = s[i+1]
  OBVIOUS
<1>2. Occurs(s, Head(s)) BY <1>1 DEF Occurs
<1>3. ASSUME NEW x, Occurs(Tail(s), x) PROVE Occurs(s, x)
   <2>1. PICK i \in 1..Len(Tail(s)) : Tail(s)[i] = x BY <1>3 DEF Occurs
   <2>2. i+1 \in 1..Len(s) /\ s[i+1] = x BY <2>1, <1>1
   <2> QED BY <2>2 DEF Occurs
<1>4. ASSUME NEW x, Occurs(s, x), x # Head(s) PROVE Occurs(Tail(s), x)
   <2>1. PICK i \in 1..Len(s) : s[i] = x BY <1>4 DEF Occurs
   <2>2. i-1 \in 1..Len(Tail(s)) /\ Tail(s)[i-1] = x BY <2>1, <1>1, <1>4
   <2> QED BY <2>2 DEF Occurs
<1>5. ASSUME NEW x, Once(s, x) PROVE Once(Tail(s), x)
   BY <1>1, <1>5 DEF Once
<1>6. ASSUME NEW x, Once(s, x), x = Head(s), Occurs(Tail(s), x) PROVE FALSE
   <2>1. PICK i \in 1..Len(Tail(s)) : Tail(s)[i] = x BY <1>6 DEF Occurs
   <2>2. i+1 \in 1..Len(s) /\ s[i+1] = x /\ 1 \in 1..Len(s) /\ s[1] = x BY <2>1, <1>1, <1>6
   <2> QED BY <2>2, <1>6 DEF Once
<1> QED BY <1>1, <1>2, <1>3, <1>4, <1>5, <1>6

\* erase(v): all the elements but the i-th.
LEMMA WithoutIndexOccurs ==
  ASSUME NEW S, NEW s \in Seq(S), NEW i \in 1..Len(s)
  PROVE  /\ WithoutIndex(s, i) \in Seq(S)
         /\ \A x : Occurs(WithoutIndex(s, i), x) => Occurs(s, x)
         /\ \A x : Occurs(s, x) => Occurs(WithoutIndex(s, i), x) \/ x = s[i]
         /\ \A x : Once(s, x) => /\ Once(WithoutIndex(s, i), x)
                                 /\ x = s[i] => ~ Occurs(WithoutIndex(s, i), x)
<1> DEFINE t == WithoutIndex(s, i)
<1>1. /\ t \in Seq(S) /\ Len(t) = Len(s) - 1 /\ Len(s) \in Nat /\ i \in Nat
      /\ \A j \in 1..Len(t) : t[j] = IF j < i THEN s[j] ELSE s[j+1]
  BY DEF WithoutIndex
<1> HIDE DEF t
<1>3. ASSUME NEW x, Occurs(t, x) PROVE Occurs(s, x)
   <2>1. PICK k \in 1..Len(t) : t[k] = x BY <1>3 DEF Occurs
   <2> QED BY <2>1, <1>1 DEF Occurs
<1>4. ASSUME NEW x, Occurs(s, x), x # s[i] PROVE Occurs(t, x)
   <2>1. PICK k \in 1..Len(s) : s[k] = x BY <1>4 DEF Occurs
   <2>2. CASE k < i
      <3>1. k \in 1..Len(t) /\ t[k] = x BY <2>1, <2>2, <1>1
      <3> QED BY <3>1 DEF Occurs
   <2>3. CASE k > i
      <3>1. k-1 \in 1..Len(t) /\ t[k-1] = x BY <2>1, <2>3, <1>1
      <3> QED BY <3>1 DEF Occurs
   <2> QED BY <2>1, <2>2, <2>3, <1>4, <1>1
<1>5. ASSUME NEW x, Once(s, x) PROVE Once(t, x)
   <2> SUFFICES ASSUME NEW j \in 1..Len(t), NEW k \in 1..Len(t), t[j] = x, t[k] = x PROVE j = k
     BY DEF Once
   <2> DEFINE p(n) == IF n < i THEN n ELSE n + 1
   <2>1. /\ p(j) \in 1..Len(s) /\ s[p(j)] = x
         /\ p(k) \in 1..Len(s) /\ s[p(k)] = x
     BY <1>1
   <2>2. p(j) = p(k) 
     <3> HIDE DEF p
     <3> QED BY <2>1, <1>5 DEF Once
   <2> QED BY <2>2, <1>1
<1>6. ASSUME NEW x, Once(s, x), x = s[i], Occurs(t, x) PROVE FALSE
   <2>1. PICK k \in 1..Len(t) : t[k] = x BY <1>6 DEF Occurs
   <2> DEFINE p == IF k < i THEN k ELSE k + 1
   <2>2. p \in 1..Len(s) /\ s[p] = x /\ p # i BY <2>1, <1>1
   <2> QED BY <2>2, <1>6 DEF Once
<1> QED BY <1>1, <1>3, <1>4, <1>5, <1>6 DEF t

\* f is the function that Without's recursion defines, up to n
Keeps(s, e, f, n) ==
  f = [i \in 0..n |-> IF i = 0 THEN <<>>
                      ELSE IF s[i] = e THEN f[i-1] ELSE Append(f[i-1], s[i])]

\* The recursion of Without defines a function.
LEMMA KeepsExists ==
  ASSUME NEW S, NEW s \in Seq(S), NEW e
  PROVE  \E f : Keeps(s, e, f, Len(s))
<1> DEFINE T == {n \in Nat : ~ \E f : Keeps(s, e, f, n)}
<1>1. SUFFICES T = {}
  BY LenProperties
<1>2. SUFFICES ASSUME T # {} PROVE FALSE
  OBVIOUS
<1>3. PICK m \in T : \A k \in T : m <= k
  <2> HIDE DEF T
  <2>1. T \in SUBSET Nat BY DEF T
  <2> QED BY <2>1, LeastNat, <1>2
<1>4. m # 0
  <2>1. Keeps(s, e, [i \in 0..0 |-> <<>>], 0)
    BY DEF Keeps
  <2> QED BY <2>1
<1>5. m - 1 \in Nat /\ m-1 \notin T
  BY <1>3, <1>4
<1>6. PICK g : Keeps(s, e, g, m-1)
  BY <1>5
<1> DEFINE h == [i \in 0..m |-> IF i = m THEN (IF s[m] = e THEN g[m-1] ELSE Append(g[m-1], s[m])) ELSE g[i]]
<1>7. Keeps(s, e, h, m)
  <2> DEFINE r == [i \in 0..m |-> IF i = 0 THEN <<>>
                      ELSE IF s[i] = e THEN h[i-1] ELSE Append(h[i-1], s[i])]
  <2>1. ASSUME NEW i \in 0..m PROVE h[i] = r[i]
    <3>1. CASE i = m
       <4>1. h[m-1] = g[m-1] BY <1>5
       <4>2. h[i] = IF s[m] = e THEN g[m-1] ELSE Append(g[m-1], s[m]) BY <3>1
       <4>3. r[i] = IF s[m] = e THEN h[m-1] ELSE Append(h[m-1], s[m]) BY <3>1, <1>4
       <4> QED BY <4>1, <4>2, <4>3
    <3>2. CASE i # m
       <4>1. h[i] = g[i] BY <3>2
       <4>2. i \in 0..(m-1) BY <3>2, <1>5
       <4>3. g[i] = IF i = 0 THEN <<>> ELSE IF s[i] = e THEN g[i-1] ELSE Append(g[i-1], s[i])
         BY <4>2, <1>6 DEF Keeps
       <4>4. i # 0 => h[i-1] = g[i-1] BY <4>2
       <4> QED BY <4>1, <4>3, <4>4
    <3> QED BY <3>1, <3>2
  <2>2. h = r
    BY <2>1
  <2> QED BY <2>2 DEF Keeps
<1> QED BY <1>7

\* remove(e): all the elements but e, wherever it stood.
LEMMA WithoutOccurs ==
  ASSUME NEW S, NEW s \in Seq(S), NEW e
  PROVE  /\ Without(s, e) \in Seq(S)
         /\ \A x : Occurs(Without(s, e), x) <=> x # e /\ Occurs(s, x)
         /\ \A x : Once(s, x) => Once(Without(s, e), x)
<1> DEFINE f == CHOOSE g : Keeps(s, e, g, Len(s))
<1>1. Keeps(s, e, f, Len(s)) BY KeepsExists
<1>2. Without(s, e) = f[Len(s)] BY DEF Without, Keeps
<1> HIDE DEF f
<1> DEFINE InPrefix(n, x) == \E i \in 1..n : s[i] = x
           OnceInPrefix(n, x) == \A i, j \in 1..n : s[i] = x /\ s[j] = x => i = j
           Q(n) == /\ f[n] \in Seq(S)
                   /\ \A x : Occurs(f[n], x) <=> (x # e /\ InPrefix(n, x))
                   /\ \A x : OnceInPrefix(n, x) => Once(f[n], x)
<1> DEFINE T == {n \in 0..Len(s) : ~ Q(n)}
<1>0. Len(s) \in Nat /\ \A i \in 1..Len(s) : s[i] \in S OBVIOUS
<1>3. T = {}
  <2> SUFFICES ASSUME T # {} PROVE FALSE OBVIOUS
  <2>1. PICK m \in T : \A k \in T : m <= k
    <3> HIDE DEF T, Q
    <3>1. T \in SUBSET Nat BY <1>0 DEF T
    <3> QED BY <3>1, LeastNat
  <2>2. Q(0)
    <3>1. f[0] = <<>> BY <1>1, <1>0 DEF Keeps
    <3>2. \A x : ~ Occurs(f[0], x) /\ Once(f[0], x) BY <3>1 DEF Occurs, Once
    <3> QED BY <3>1, <3>2
  <2>3. m # 0 BY <2>2
  <2>4. m \in 1..Len(s) /\ m - 1 \in 0..Len(s) /\ m - 1 \notin T 
    <3> HIDE DEF Q
    <3> QED BY <2>1, <2>3, <1>0
  <2>5. Q(m-1)
    <3> HIDE DEF Q
    <3> QED BY <2>4
  <2>6. f[m] = IF s[m] = e THEN f[m-1] ELSE Append(f[m-1], s[m])
    <3>1. f = [i \in 0..Len(s) |-> IF i = 0 THEN <<>>
                 ELSE IF s[i] = e THEN f[i-1] ELSE Append(f[i-1], s[i])]
      BY <1>1 DEF Keeps
    <3>2. m \in 0..Len(s) BY <2>4, <1>0
    <3> QED BY <3>1, <3>2, <2>3
  <2>7. s[m] \in S BY <2>4, <1>0
  <2>8. \A x : InPrefix(m, x) <=> InPrefix(m-1, x) \/ s[m] = x
    BY <2>4, <1>0
  <2>9. CASE s[m] = e
    <3>1. f[m] = f[m-1] BY <2>9, <2>6
    <3>2. \A x : OnceInPrefix(m, x) => OnceInPrefix(m-1, x) BY <2>4
    <3>3. Q(m)
      <4> HIDE DEF InPrefix, OnceInPrefix
      <4> QED BY <3>1, <3>2, <2>5, <2>8, <2>9
    <3> QED BY <3>3
  <2>10. CASE s[m] # e
    <3> DEFINE t == f[m-1]
    <3>1. f[m] = Append(t, s[m]) BY <2>6, <2>10
    <3> HIDE DEF t
    <3>2. t \in Seq(S) BY <2>5 DEF t
    <3>3. /\ Append(t, s[m]) \in Seq(S)
          /\ \A x : Occurs(Append(t, s[m]), x) <=> Occurs(t, x) \/ x = s[m]
          /\ \A x : Once(t, x) /\ (x = s[m] => ~ Occurs(t, x)) => Once(Append(t, s[m]), x)
       BY AppendOccurs, <3>2, <2>7
    <3>4. \A x : Occurs(f[m], x) <=> x # e /\ InPrefix(m, x)
       BY <3>1, <3>3, <2>5, <2>8, <2>10 DEF t
    <3>5. ASSUME NEW x, OnceInPrefix(m, x) PROVE Once(f[m], x)
       <4>1. Once(t, x)
         <5>1. OnceInPrefix(m-1, x) BY <3>5, <2>4
         <5> QED BY <5>1, <2>5 DEF t
       <4>2. x = s[m] => ~ InPrefix(m-1, x) BY <3>5, <2>4
       <4>3. x = s[m] => ~ Occurs(t, x) BY <4>2, <2>5 DEF t
       <4> QED BY <4>1, <4>3, <3>3, <3>1
    <3> QED BY <3>1, <3>3, <3>4, <3>5
  <2> QED BY <2>9, <2>10
<1>4. Q(Len(s)) 
  <2> HIDE DEF Q
  <2> QED BY <1>3, <1>0
<1>5. \A x : InPrefix(Len(s), x) <=> Occurs(s, x) BY DEF Occurs
<1>6. \A x : OnceInPrefix(Len(s), x) <=> Once(s, x) BY DEF Once
<1> HIDE DEF InPrefix, OnceInPrefix
<1> QED BY <1>4, <1>2, <1>5, <1>6

\* push_back(y): what stands before something else stays before it.
LEMMA AppendBefore ==
  ASSUME NEW S, NEW s \in Seq(S), NEW y \in S, NEW a, NEW b, Before(s, a, b)
  PROVE  Before(Append(s, y), a, b)
<1>1. PICK i \in 1..Len(s), j \in 1..Len(s) : i < j /\ s[i] = a /\ s[j] = b BY DEF Before
<1>2. /\ i \in 1..Len(Append(s, y)) /\ Append(s, y)[i] = a
      /\ j \in 1..Len(Append(s, y)) /\ Append(s, y)[j] = b
  BY <1>1
<1> QED BY <1>1, <1>2 DEF Before

\* pop_front(): so does what is not the element that goes, which is before all others.
LEMMA TailBefore ==
  ASSUME NEW S, NEW s \in Seq(S), s # <<>>, NEW a, NEW b, Before(s, a, b)
  PROVE  /\ Once(s, a) /\ Occurs(Tail(s), a) => Before(Tail(s), a, b)
         /\ Once(s, b) => Head(s) # b
<1>0. PICK i \in 1..Len(s), j \in 1..Len(s) : i < j /\ s[i] = a /\ s[j] = b BY DEF Before
<1>1. /\ Head(s) = s[1] /\ Len(s) \in Nat /\ Len(s) >= 1 /\ Len(Tail(s)) = Len(s) - 1
      /\ \A k \in 1..Len(Tail(s)) : Tail(s)[k] = s[k+1]
  OBVIOUS
<1>2. ASSUME Once(s, a), Occurs(Tail(s), a) PROVE Before(Tail(s), a, b)
  <2>1. i # 1 BY <1>0, <1>1, <1>2, TailOccurs
  <2>2. /\ i - 1 \in 1..Len(Tail(s)) /\ Tail(s)[i - 1] = a
        /\ j - 1 \in 1..Len(Tail(s)) /\ Tail(s)[j - 1] = b
    BY <1>0, <1>1, <2>1
  <2>3. i - 1 < j - 1 BY <1>0
  <2> QED BY <2>2, <2>3 DEF Before
<1>3. ASSUME Once(s, b), s[1] = b PROVE FALSE
  <2>1. 1 \in 1..Len(s) /\ 1 # j BY <1>0, <1>1
  <2> QED BY <1>0, <1>3, <2>1 DEF Once
<1> QED BY <1>1, <1>2, <1>3

\* erase(v): the two elements that are left keep their order.
LEMMA WithoutIndexBefore ==
  ASSUME NEW S, NEW s \in Seq(S), NEW k \in 1..Len(s), NEW a, NEW b,
         Before(s, a, b), Once(s, a), Once(s, b),
         Occurs(WithoutIndex(s, k), a), Occurs(WithoutIndex(s, k), b)
  PROVE  Before(WithoutIndex(s, k), a, b)
<1> DEFINE t == WithoutIndex(s, k)
           now(n) == IF n < k THEN n ELSE n - 1
<1>0. PICK i \in 1..Len(s), j \in 1..Len(s) : i < j /\ s[i] = a /\ s[j] = b BY DEF Before
<1>1. /\ t \in Seq(S) /\ Len(t) = Len(s) - 1 /\ Len(s) \in Nat /\ k \in Nat
      /\ \A n \in 1..Len(t) : t[n] = IF n < k THEN s[n] ELSE s[n + 1]
  BY DEF WithoutIndex
<1>2. i # k /\ j # k BY <1>0, WithoutIndexOccurs
<1> HIDE DEF t
<1>3. /\ now(i) \in 1..Len(t) /\ t[now(i)] = s[i]
  <2>1. CASE i < k BY <1>1, <2>1
  <2>2. CASE i > k BY <1>1, <2>2
  <2> QED BY <1>1, <1>2, <2>1, <2>2
<1>4. /\ now(j) \in 1..Len(t) /\ t[now(j)] = s[j]
  <2>1. CASE j < k BY <1>1, <2>1
  <2>2. CASE j > k BY <1>1, <2>2
  <2> QED BY <1>1, <1>2, <2>1, <2>2
<1>5. now(i) < now(j) BY <1>0, <1>1, <1>2
<1> QED
  <2> HIDE DEF now
  <2>1. Before(t, a, b) BY <1>0, <1>3, <1>4, <1>5 DEF Before
  <2> QED BY <2>1 DEF t

\* remove(e): all the elements but e keep their order.
LEMMA WithoutBefore ==
  ASSUME NEW S, NEW s \in Seq(S), NEW e, NEW a, NEW b, a # e, b # e, Before(s, a, b)
  PROVE  Before(Without(s, e), a, b)
<1> DEFINE f == CHOOSE g : Keeps(s, e, g, Len(s))
<1>1. Keeps(s, e, f, Len(s)) BY KeepsExists
<1>2. Without(s, e) = f[Len(s)] BY DEF Without, Keeps
<1> HIDE DEF f
<1> DEFINE In(n)    == \E i \in 1..n : s[i] = a
           Order(n) == \E i, j \in 1..n : i < j /\ s[i] = a /\ s[j] = b
           Q(n)     == /\ f[n] \in Seq(S)
                       /\ In(n) => Occurs(f[n], a)
                       /\ Order(n) => Before(f[n], a, b)
           T        == {n \in 0..Len(s) : ~ Q(n)}
<1>0. Len(s) \in Nat /\ \A i \in 1..Len(s) : s[i] \in S OBVIOUS
<1>3. T = {}
  <2> SUFFICES ASSUME T # {} PROVE FALSE OBVIOUS
  <2>1. PICK m \in T : \A k \in T : m <= k
    <3> HIDE DEF T, Q
    <3>1. T \in SUBSET Nat BY <1>0 DEF T
    <3> QED BY <3>1, LeastNat
  <2>2. Q(0)
    <3>1. f[0] = <<>> BY <1>1, <1>0 DEF Keeps
    <3> QED BY <3>1
  <2>3. m # 0 BY <2>2
  <2>4. m \in 1..Len(s) /\ m - 1 \in 0..Len(s) /\ m - 1 \notin T
    <3> HIDE DEF Q
    <3> QED BY <2>1, <2>3, <1>0
  <2>5. Q(m - 1)
    <3> HIDE DEF Q
    <3> QED BY <2>4
  <2>6. f[m] = IF s[m] = e THEN f[m - 1] ELSE Append(f[m - 1], s[m])
    <3>1. f = [i \in 0..Len(s) |-> IF i = 0 THEN <<>>
                 ELSE IF s[i] = e THEN f[i-1] ELSE Append(f[i-1], s[i])]
      BY <1>1 DEF Keeps
    <3>2. m \in 0..Len(s) BY <2>4, <1>0
    <3> QED BY <3>1, <3>2, <2>3
  <2>7. s[m] \in S BY <2>4, <1>0
  <2>8. (In(m) => In(m - 1) \/ s[m] = a) /\ (Order(m) => Order(m - 1) \/ (In(m - 1) /\ s[m] = b))
    <3>1. In(m) => In(m - 1) \/ s[m] = a BY <2>4, <1>0
    <3>2. ASSUME NEW i \in 1..m, NEW j \in 1..m, i < j, s[i] = a, s[j] = b
          PROVE  Order(m - 1) \/ (In(m - 1) /\ s[m] = b)
      <4>1. i \in 1..(m - 1) BY <2>4, <3>2
      <4>2. CASE j = m BY <3>2, <4>1, <4>2
      <4>3. CASE j # m
        <5>1. j \in 1..(m - 1) BY <2>4, <3>2, <4>3
        <5> QED BY <3>2, <4>1, <5>1
      <4> QED BY <4>2, <4>3
    <3> QED BY <3>1, <3>2
  <2> HIDE DEF In, Order
  <2>9. CASE s[m] = e
    <3>1. f[m] = f[m - 1] BY <2>9, <2>6
    <3> QED BY <3>1, <2>1, <2>5, <2>8, <2>9
  <2>10. CASE s[m] # e
    <3> DEFINE t == f[m - 1]
    <3>1. f[m] = Append(t, s[m]) BY <2>6, <2>10
    <3>2. t \in Seq(S) /\ (In(m - 1) => Occurs(t, a)) /\ (Order(m - 1) => Before(t, a, b)) BY <2>5
    <3> HIDE DEF t
    <3>3. Append(t, s[m]) \in Seq(S) /\ (In(m) => Occurs(Append(t, s[m]), a))
      BY <2>7, <2>8, <3>2, AppendOccurs
    <3>4. ASSUME Occurs(t, a), s[m] = b PROVE Before(Append(t, s[m]), a, b)
      <4>1. PICK i \in 1..Len(t) : t[i] = a BY <3>4 DEF Occurs
      <4>2. /\ i \in 1..Len(Append(t, s[m])) /\ Append(t, s[m])[i] = a
            /\ Len(t) + 1 \in 1..Len(Append(t, s[m])) /\ Append(t, s[m])[Len(t) + 1] = b
            /\ i < Len(t) + 1
        BY <2>7, <3>2, <3>4, <4>1
      <4> QED BY <4>2 DEF Before
    <3>5. Order(m) => Before(Append(t, s[m]), a, b)
      BY <2>7, <2>8, <3>2, <3>4, AppendBefore
    <3> QED BY <2>1, <3>1, <3>3, <3>5
  <2> QED BY <2>9, <2>10
<1>4. Q(Len(s))
  <2> HIDE DEF Q
  <2> QED BY <1>3, <1>0
<1>5. Order(Len(s)) BY DEF Before
<1> HIDE DEF Order, In
<1> QED BY <1>4, <1>2, <1>5

\* The values a function of two arguments goes through, from a on, up to n.
Iterates(a, g, n, f) == f = [i \in 0..n |-> IF i = 0 THEN a ELSE g[<<i, f[i - 1]>>]]

\* A recursion that takes its next value from the last one and the index defines a
\* function: what the recursive definitions of the models rest on.
LEMMA IteratesExists ==
  ASSUME NEW D, NEW a \in D, NEW n \in Nat, NEW g \in [(1..n) \X D -> D]
  PROVE  \E f \in [0..n -> D] : Iterates(a, g, n, f)
<1> DEFINE P(m) == \E f \in [0..m -> D] : Iterates(a, g, m, f)
           T == {m \in 0..n : ~ P(m)}
<1>1. T = {}
  <2> SUFFICES ASSUME T # {} PROVE FALSE OBVIOUS
  <2>1. PICK m \in T : \A k \in T : m <= k
    <3> HIDE DEF T, P
    <3>1. T \in SUBSET Nat BY DEF T
    <3> QED BY <3>1, LeastNat
  <2>2. P(0)
    <3> DEFINE h == [i \in 0..0 |-> a]
    <3>1. h \in [0..0 -> D] /\ Iterates(a, g, 0, h) BY DEF Iterates
    <3> QED BY <3>1
  <2>3. m \in 1..n /\ m - 1 \in 0..n /\ m - 1 \notin T
    <3> HIDE DEF P
    <3> QED BY <2>1, <2>2
  <2>4. PICK f \in [0..(m - 1) -> D] : Iterates(a, g, m - 1, f) BY <2>3
  <2>5. f[m - 1] \in D BY <2>3, <2>4
  <2>6. <<m, f[m - 1]>> \in (1..n) \X D BY <2>3, <2>5
  <2>7. g[<<m, f[m - 1]>>] \in D BY <2>6
  <2> DEFINE h == [i \in 0..m |-> IF i = m THEN g[<<m, f[m - 1]>>] ELSE f[i]]
  <2>8. h \in [0..m -> D] BY <2>3, <2>7
  <2>9. \A i \in 0..m : h[i] = IF i = 0 THEN a ELSE g[<<i, h[i - 1]>>]
    <3> SUFFICES ASSUME NEW i \in 0..m PROVE h[i] = IF i = 0 THEN a ELSE g[<<i, h[i - 1]>>]
      OBVIOUS
    <3>1. CASE i = m
      <4>1. h[m] = g[<<m, f[m - 1]>>] BY <2>3
      <4>2. h[m - 1] = f[m - 1] BY <2>3
      <4> HIDE DEF h
      <4> QED BY <2>3, <3>1, <4>1, <4>2
    <3>2. CASE i # m
      <4>1. i \in 0..(m - 1) /\ h[i] = f[i] BY <2>3, <3>2
      <4>2. f[i] = IF i = 0 THEN a ELSE g[<<i, f[i - 1]>>] BY <2>4, <4>1 DEF Iterates
      <4>3. i # 0 => h[i - 1] = f[i - 1] BY <2>3, <4>1
      <4> HIDE DEF h
      <4> QED BY <4>1, <4>2, <4>3
    <3> QED BY <3>1, <3>2
  <2>10. Iterates(a, g, m, h) BY <2>8, <2>9 DEF Iterates
  <2>11. P(m) BY <2>8, <2>10
  <2> QED BY <2>1, <2>11
<1>2. P(n)
  <2> HIDE DEF P
  <2> QED BY <1>1
<1> QED BY <1>2
=============================================================================
