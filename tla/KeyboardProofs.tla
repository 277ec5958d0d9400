---------------------------- MODULE KeyboardProofs ----------------------------
(***************************************************************************)
(* The keyboard from end to end, for any keys, events, layouts, table of   *)
(* keysyms and number of runs of the keymap program.  First the parts: the *)
(* binary search in a table of any length, the normal form of the map and  *)
(* the tables of the code, each by itself; then what the X server will     *)
(* take to be down once the dispatch queue has run; then the maps in the   *)
(* server, and the two together.                                           *)
(***************************************************************************)
EXTENDS Integers, Keyboard, WellFoundedInduction, FiniteSetTheorems, TLAPS

----------------------------------------------------------------------------
(* The binary search *)

\* The spans of rows the search may be left with; an empty one ends before it begins.
Spans(tab) == (0 .. Len(tab)) \X (-1 .. Len(tab) - 1)
\* One turn of the loop, given what the search finds in the narrower spans.
Probe(tab, field, x, f, span) ==
        LET min == span[1]
            max == span[2]
            mid == (min + max) \div 2
        IN IF max < min THEN NotFound
           ELSE IF tab[mid + 1][field] < x THEN f[<<mid + 1, max>>]
           ELSE IF tab[mid + 1][field] > x THEN f[<<min, mid - 1>>]
           ELSE mid
\* The recursion of Search.
IsSearch(tab, field, x, f) == f = [span \in Spans(tab) |-> Probe(tab, field, x, f, span)]
\* A field by which a search can compare.
Column(tab, field) == \A i \in 1 .. Len(tab) : tab[i][field] \in Int
\* A table in the order of one of its fields.
Ascending(tab, field) ==
  \A i, j \in 1 .. Len(tab) : i <= j => tab[i][field] <= tab[j][field]
\* The measure that the search makes smaller.
Width(tab, span) == span[2] - span[1] + Len(tab) + 1

\* The natural numbers are well founded.
LEMMA Least ==
  ASSUME NEW T \in SUBSET Nat, T # {}
  PROVE  \E n \in T : \A m \in T : n <= m
<1> DEFINE R == OpToRel(<, Nat)
<1>1. IsWellFoundedOn(R, Nat)
  BY NatLessThanWellFounded
<1>2. \A m, n \in Nat : m < n => <<m, n>> \in R
  BY DEF OpToRel
<1> HIDE DEF R
<1>3. PICK n \in T : \A m \in T : ~(<<m, n>> \in R)
  BY <1>1, WFMin
<1>4. ASSUME NEW m \in T PROVE n <= m
  <2>1. n \in Nat /\ m \in Nat /\ ~(m < n)
    BY <1>2, <1>3
  <2> QED BY <2>1
<1> QED BY <1>4

\* One turn of the loop: the row looked at is in the span, and what is searched on is narrower.
LEMMA Halves ==
  ASSUME NEW tab, Len(tab) \in Nat, NEW s \in Spans(tab), s[1] <= s[2],
         NEW mid, mid = (s[1] + s[2]) \div 2
  PROVE  /\ mid \in s[1] .. s[2] /\ mid + 1 \in 1 .. Len(tab)
         /\ <<mid + 1, s[2]>> \in Spans(tab)
         /\ Width(tab, <<mid + 1, s[2]>>) < Width(tab, s)
         /\ <<s[1], mid - 1>> \in Spans(tab)
         /\ Width(tab, <<s[1], mid - 1>>) < Width(tab, s)
<1>1. s[1] \in 0 .. Len(tab) /\ s[2] \in -1 .. Len(tab) - 1
  BY DEF Spans
<1>2. mid \in s[1] .. s[2]
  BY <1>1
<1>3. /\ mid + 1 \in 1 .. Len(tab) /\ mid - 1 \in -1 .. Len(tab) - 1
      /\ s[2] - (mid + 1) < s[2] - s[1] /\ (mid - 1) - s[1] < s[2] - s[1]
  BY <1>1, <1>2
<1>4. <<mid + 1, s[2]>> \in Spans(tab) /\ <<s[1], mid - 1>> \in Spans(tab)
  BY <1>1, <1>3 DEF Spans
<1>5. /\ Width(tab, <<mid + 1, s[2]>>) < Width(tab, s)
      /\ Width(tab, <<s[1], mid - 1>>) < Width(tab, s)
  <2> DEFINE a == s[1]
             b == s[2]
             l == Len(tab)
  <2>1. Width(tab, s) = b - a + l + 1
    BY DEF Width
  <2>2. /\ Width(tab, <<mid + 1, b>>) = b - (mid + 1) + l + 1
        /\ Width(tab, <<a, mid - 1>>) = (mid - 1) - a + l + 1
    BY DEF Width
  <2>3. a \in Int /\ b \in Int /\ l \in Int /\ mid \in a .. b
    BY <1>1, <1>2
  <2> HIDE DEF a, b, l
  <2>4. /\ b - (mid + 1) + l + 1 < b - a + l + 1
        /\ (mid - 1) - a + l + 1 < b - a + l + 1
    BY <2>3
  <2>5. Width(tab, <<mid + 1, b>>) < Width(tab, s) /\ Width(tab, <<a, mid - 1>>) < Width(tab, s)
    BY <2>1, <2>2, <2>4
  <2> QED BY <2>5 DEF a, b
<1> QED BY <1>2, <1>3, <1>4, <1>5

\* The width of a span, made a natural number.
LEMMA WidthNat ==
  ASSUME NEW tab, Len(tab) \in Nat, NEW s \in Spans(tab)
  PROVE Width(tab, s) \in Nat /\ Width(tab, s) <= 2 * Len(tab)
BY DEF Spans, Width

\* A turn of the loop looks at narrower spans only.
LEMMA ProbeSame ==
  ASSUME NEW tab, Len(tab) \in Nat, NEW field, NEW x, NEW f, NEW g, NEW s \in Spans(tab),
         \A r \in Spans(tab) : Width(tab, r) < Width(tab, s) => f[r] = g[r]
  PROVE  Probe(tab, field, x, f, s) = Probe(tab, field, x, g, s)
<1> DEFINE mid == (s[1] + s[2]) \div 2
<1>1. CASE s[2] < s[1]
  BY <1>1 DEF Probe
<1>2. CASE s[1] <= s[2]
  <2>1. f[<<mid + 1, s[2]>>] = g[<<mid + 1, s[2]>>] /\ f[<<s[1], mid - 1>>] = g[<<s[1], mid - 1>>]
    BY <1>2, Halves
  <2> QED BY <2>1 DEF Probe
<1>3. s[1] \in Int /\ s[2] \in Int
  BY DEF Spans
<1> QED BY <1>1, <1>2, <1>3

\* The recursion of a search is well founded: there is a function that satisfies it.
\* If not, a least width at which there is none would have one.
LEMMA SearchExists ==
  ASSUME NEW tab, Len(tab) \in Nat, NEW field, NEW x
  PROVE  \E f : IsSearch(tab, field, x, f)
<1> DEFINE S == Spans(tab)
           Solved(n, f) == \A s \in S : Width(tab, s) < n => f[s] = Probe(tab, field, x, f, s)
           T == {n \in Nat : ~\E f : Solved(n, f)}
<1>1. T = {}
  <2> SUFFICES ASSUME T # {} PROVE FALSE
    OBVIOUS
  <2>1. PICK n \in T : \A m \in T : n <= m
    <3> HIDE DEF T
    <3>1. T \subseteq Nat BY DEF T
    <3> QED BY <3>1, Least
  <2>2. n # 0
    <3>1. Solved(0, [s \in S |-> NotFound])
      BY WidthNat
    <3> HIDE DEF Solved
    <3> QED BY <3>1
  <2>3. PICK f : Solved(n - 1, f)
    <3> HIDE DEF Solved
    <3>1. n - 1 \in Nat /\ n - 1 \notin T
      BY <2>1, <2>2
    <3> QED BY <3>1
  <2> DEFINE g == [s \in S |-> IF Width(tab, s) < n - 1 THEN f[s] ELSE Probe(tab, field, x, f, s)]
  <2>4. ASSUME NEW s \in S, Width(tab, s) < n PROVE g[s] = Probe(tab, field, x, g, s)
    <3>1. g[s] = Probe(tab, field, x, f, s)
      BY <2>3
    <3>2. \A r \in S : Width(tab, r) < Width(tab, s) => f[r] = g[r]
      <4> SUFFICES ASSUME NEW r \in S, Width(tab, r) < Width(tab, s) PROVE f[r] = g[r]
        OBVIOUS
      <4>1. Width(tab, r) \in Nat /\ Width(tab, s) \in Nat /\ n \in Nat
        BY WidthNat
      <4>2. Width(tab, r) < n - 1
        BY <4>1, <2>4
      <4> QED BY <4>2
    <3> HIDE DEF g
    <3> QED BY <3>1, <3>2, ProbeSame
  <2>5. Solved(n, g)
    <3> HIDE DEF g
    <3> QED BY <2>4
  <2> HIDE DEF Solved, g
  <2> QED BY <2>5
<1>2. PICK f : Solved(2 * Len(tab) + 1, f)
  <2> HIDE DEF Solved
  <2> QED BY <1>1
<1> DEFINE h == [s \in S |-> f[s]]
<1>3. ASSUME NEW s \in S PROVE f[s] = Probe(tab, field, x, h, s)
  <2>1. f[s] = Probe(tab, field, x, f, s)
    BY <1>2, WidthNat
  <2>2. \A r \in S : Width(tab, r) < Width(tab, s) => f[r] = h[r]
    OBVIOUS
  <2> HIDE DEF h
  <2> QED BY <2>1, <2>2, ProbeSame
<1>4. h = [s \in S |-> Probe(tab, field, x, h, s)]
  <2> DEFINE k == [s \in S |-> Probe(tab, field, x, h, s)]
  <2>1. \A s \in S : h[s] = k[s]
    BY <1>3
  <2> QED BY <2>1
<1> QED BY <1>4 DEF IsSearch

\* A search is its recursion on the whole table.
LEMMA SearchFrom ==
  ASSUME NEW tab, Len(tab) \in Nat, NEW field, NEW x
  PROVE  \E f : /\ \A s \in Spans(tab) : f[s] = Probe(tab, field, x, f, s)
                /\ Search(tab, field, x) = f[<<0, Len(tab) - 1>>]
<1> DEFINE from == CHOOSE f : IsSearch(tab, field, x, f)
<1>1. IsSearch(tab, field, x, from)
  BY SearchExists
<1>2. Search(tab, field, x) = from[<<0, Len(tab) - 1>>]
  BY DEF Search, IsSearch, Probe, Spans
<1> HIDE DEF from
<1>3. \A s \in Spans(tab) : from[s] = Probe(tab, field, x, from, s)
  BY <1>1 DEF IsSearch
<1> QED BY <1>2, <1>3

\* In any table in ascending order, a search ends, and finds a row with the key
\* asked for if there is one.
LEMMA SearchCorrect ==
  ASSUME NEW tab, Len(tab) \in Nat, NEW field, NEW x \in Int,
         Column(tab, field), Ascending(tab, field)
  PROVE  LET i == Search(tab, field, x)
         IN \/ i = NotFound /\ \A j \in 1 .. Len(tab) : tab[j][field] # x
            \/ i + 1 \in 1 .. Len(tab) /\ tab[i + 1][field] = x
<1>1. PICK f : /\ \A s \in Spans(tab) : f[s] = Probe(tab, field, x, f, s)
               /\ Search(tab, field, x) = f[<<0, Len(tab) - 1>>]
  BY SearchFrom
<1> DEFINE Right(s) ==
             \/ f[s] = NotFound /\ \A j \in s[1] .. s[2] : tab[j + 1][field] # x
             \/ f[s] + 1 \in 1 .. Len(tab) /\ tab[f[s] + 1][field] = x
           T == {n \in Nat : \E s \in Spans(tab) : Width(tab, s) = n /\ ~Right(s)}
<1>2. T = {}
  <2> SUFFICES ASSUME T # {} PROVE FALSE
    OBVIOUS
  <2>1. PICK n \in T : \A m \in T : n <= m
    <3> HIDE DEF T
    <3>1. T \subseteq Nat BY DEF T
    <3> QED BY <3>1, Least
  <2>2. PICK s \in Spans(tab) : Width(tab, s) = n /\ ~Right(s)
    <3> HIDE DEF Right
    <3> QED BY <2>1
  <2>3. ASSUME NEW r \in Spans(tab), Width(tab, r) < Width(tab, s) PROVE Right(r)
    <3> HIDE DEF Right
    <3>1. Width(tab, r) \in Nat /\ Width(tab, r) \notin T /\ n \in Nat
      BY <2>1, <2>2, <2>3, WidthNat
    <3> QED BY <3>1
  <2>4. s[1] \in 0 .. Len(tab) /\ s[2] \in -1 .. Len(tab) - 1
    BY DEF Spans
  <2> DEFINE mid == (s[1] + s[2]) \div 2
  <2>5. f[s] = Probe(tab, field, x, f, s)
    BY <1>1
  <2>6. CASE s[2] < s[1]
    BY <2>2, <2>4, <2>5, <2>6 DEF Probe
  <2>7. CASE s[1] <= s[2]
    <3>1. /\ mid \in s[1] .. s[2] /\ mid + 1 \in 1 .. Len(tab)
          /\ Right(<<mid + 1, s[2]>>) /\ Right(<<s[1], mid - 1>>)
      <4> HIDE DEF Right
      <4> QED BY <2>3, <2>7, Halves
    <3>2. tab[mid + 1][field] \in Int
      BY <3>1 DEF Column
    <3>3. CASE tab[mid + 1][field] < x
      <4>1. f[s] = f[<<mid + 1, s[2]>>]
        BY <2>4, <2>5, <2>7, <3>3 DEF Probe
      <4>2. \A j \in s[1] .. mid : tab[j + 1][field] # x
        <5> SUFFICES ASSUME NEW j \in s[1] .. mid PROVE tab[j + 1][field] # x
          OBVIOUS
        <5>1. j + 1 \in 1 .. Len(tab) /\ j + 1 <= mid + 1
          <6> HIDE DEF Right, T, mid
          <6> QED BY <2>4, <3>1
        <5>2. tab[j + 1][field] <= tab[mid + 1][field] /\ tab[j + 1][field] \in Int
          BY <3>1, <5>1 DEF Ascending, Column
        <5> QED BY <3>2, <3>3, <5>2
      <4> HIDE DEF mid
      <4> QED BY <2>2, <2>4, <3>1, <4>1, <4>2
    <3>4. CASE tab[mid + 1][field] > x
      <4>1. f[s] = f[<<s[1], mid - 1>>]
        BY <2>4, <2>5, <2>7, <3>2, <3>4 DEF Probe
      <4>2. \A j \in mid .. s[2] : tab[j + 1][field] # x
        <5> SUFFICES ASSUME NEW j \in mid .. s[2] PROVE tab[j + 1][field] # x
          OBVIOUS
        <5>1. j + 1 \in 1 .. Len(tab) /\ mid + 1 <= j + 1
          <6> HIDE DEF Right, T, mid
          <6> QED BY <2>4, <3>1
        <5>2. tab[mid + 1][field] <= tab[j + 1][field] /\ tab[j + 1][field] \in Int
          BY <3>1, <5>1 DEF Ascending, Column
        <5> QED BY <3>2, <3>4, <5>2
      <4> HIDE DEF mid
      <4> QED BY <2>2, <2>4, <3>1, <4>1, <4>2
    <3>5. CASE tab[mid + 1][field] = x
      <4>1. f[s] = mid
        BY <2>4, <2>5, <2>7, <3>5 DEF Probe
      <4> HIDE DEF mid
      <4> QED BY <2>2, <3>1, <3>5, <4>1
    <3> QED BY <3>2, <3>3, <3>4, <3>5
  <2> QED BY <2>4, <2>6, <2>7
<1> DEFINE all == <<0, Len(tab) - 1>>
<1>3. all \in Spans(tab) /\ Width(tab, all) \in Nat
  BY WidthNat DEF Spans
<1>4. Right(all)
  <2> HIDE DEF Right, all
  <2> QED BY <1>2, <1>3
<1>5. CASE f[all] = NotFound
  <2>1. \A j \in 0 .. Len(tab) - 1 : tab[j + 1][field] # x
    BY <1>4, <1>5 DEF NotFound
  <2>2. ASSUME NEW j \in 1 .. Len(tab) PROVE tab[j][field] # x
    <3>1. j - 1 \in 0 .. Len(tab) - 1 /\ (j - 1) + 1 = j OBVIOUS
    <3> QED BY <2>1, <3>1
  <2> QED BY <1>1, <1>5, <2>2
<1>6. CASE f[all] # NotFound
  BY <1>1, <1>4, <1>6
<1> QED BY <1>5, <1>6

----------------------------------------------------------------------------
\* Characters of 16 bits are below the mark of a direct encoding.
LEMMA DirectBound ==
  Direct \in Nat /\ Max16 \in Nat /\ Max16 >= 256 /\ Max16 < Direct
BY SMT DEF Direct, Max16

\* The numbers in a row of a table.
LEMMA RowType ==
  ASSUME NEW e \in Rows
  PROVE  /\ e.keysym \in Nat /\ e.keysym >= 256 /\ e.keysym <= Max16
         /\ e.ucs \in Nat /\ e.ucs <= Max16
<1>1. e.keysym \in 256 .. Max16 /\ e.ucs \in 0 .. Max16
  BY DEF Rows
<1> QED BY <1>1, DirectBound

\* A table is in ascending order of keysyms, which are all different.
LEMMA TableOrder ==
  ASSUME NEW tab, IsTable(tab)
  PROVE  /\ Len(tab) \in Nat /\ tab \in [1 .. Len(tab) -> Rows]
         /\ Column(tab, "keysym") /\ Column(tab, "ucs")
         /\ Ascending(tab, "keysym")
         /\ \A i, j \in 1 .. Len(tab) : tab[i].keysym = tab[j].keysym => i = j
<1>1. Len(tab) \in Nat /\ tab \in [1 .. Len(tab) -> Rows]
  BY DEF IsTable
<1>2. \A i \in 1 .. Len(tab) : tab[i].keysym \in Int /\ tab[i].ucs \in Int
  <2> SUFFICES ASSUME NEW i \in 1 .. Len(tab) PROVE tab[i].keysym \in Int /\ tab[i].ucs \in Int
    OBVIOUS
  <2>1. tab[i] \in Rows
    BY <1>1
  <2> QED BY <2>1, RowType
<1>3. Column(tab, "keysym") /\ Column(tab, "ucs")
  BY <1>2 DEF Column
<1>4. ASSUME NEW i \in 1 .. Len(tab), NEW j \in 1 .. Len(tab), i <= j
      PROVE  tab[i].keysym <= tab[j].keysym
  <2>1. i = j \/ i < j
    BY <1>1, <1>4
  <2>2. tab[i].keysym \in Int /\ tab[j].keysym \in Int
    BY <1>2
  <2>3. i < j => tab[i].keysym < tab[j].keysym
    BY DEF IsTable
  <2> QED BY <2>1, <2>2, <2>3
<1>5. ASSUME NEW i \in 1 .. Len(tab), NEW j \in 1 .. Len(tab), tab[i].keysym = tab[j].keysym
      PROVE  i = j
  <2>1. i = j \/ i < j \/ j < i
    BY <1>1
  <2>2. tab[i].keysym \in Int /\ tab[j].keysym \in Int
    BY <1>2
  <2>3. /\ i < j => tab[i].keysym < tab[j].keysym
        /\ j < i => tab[j].keysym < tab[i].keysym
    BY DEF IsTable
  <2> QED BY <1>5, <2>1, <2>2, <2>3
<1>6. Ascending(tab, "keysym")
  BY <1>4 DEF Ascending
<1> QED BY <1>1, <1>3, <1>5, <1>6

\* Sorting by character loses no row and makes none up.
LEMMA ReversalIsPermutation ==
  ASSUME NEW tab, IsTable(tab), NEW r \in Reversals(tab)
  PROVE  /\ Len(r) = Len(tab)
         /\ \A i \in 1 .. Len(r) : \E j \in 1 .. Len(tab) : r[i] = tab[j]
         /\ \A j \in 1 .. Len(tab) : \E i \in 1 .. Len(r) : r[i] = tab[j]
<1> DEFINE n == Len(tab)
           rows == ToSet(tab)
<1>1. n \in Nat /\ rows = {tab[i] : i \in 1 .. n}
  <2>1. n \in Nat /\ DOMAIN tab = 1 .. n
    BY TableOrder
  <2> QED BY <2>1 DEF ToSet
<1>2. tab \in Bijection(1 .. n, rows)
  <2>1. tab \in [1 .. n -> rows]
    <3>1. tab \in [1 .. n -> Rows]
      BY TableOrder
    <3> QED BY <1>1, <3>1
  <2>2. \A i, j \in 1 .. n : tab[i] = tab[j] => i = j
    <3>1. \A i, j \in 1 .. n : tab[i].keysym = tab[j].keysym => i = j
      BY TableOrder
    <3> QED BY <3>1
  <2>3. \A e \in rows : \E i \in 1 .. n : tab[i] = e
    BY <1>1
  <2> HIDE DEF rows, n
  <2> QED BY <2>1, <2>2, <2>3 DEF Bijection, Injection, IsInjective, Surjection
<1>3. IsFiniteSet(rows) /\ Cardinality(rows) = n
  <2>1. ExistsBijection(1 .. n, rows)
    BY <1>2 DEF ExistsBijection
  <2> HIDE DEF rows
  <2> QED BY <1>1, <2>1, FS_NatBijection, FS_CountingElements
<1>4. PICK s \in SUBSET rows :
        /\ r \in [1 .. Cardinality(s) -> s]
        /\ \A i, j \in 1 .. Cardinality(s) : i # j => r[i] # r[j]
  BY DEF Reversals, SetToAllKPermutations, SetToSeqs
<1>5. Len(r) = n
  BY DEF Reversals
<1>6. IsFiniteSet(s) /\ Cardinality(s) \in Nat
  <2> HIDE DEF rows
  <2> QED BY <1>3, FS_Subset, FS_CardinalityType
<1>7. Cardinality(s) = n
  <2>1. DOMAIN r = 1 .. Cardinality(s)
    BY <1>4
  <2> QED BY <1>5, <1>6, <2>1
<1>8. s = rows
  <2> HIDE DEF rows
  <2> QED BY <1>3, <1>7, FS_Subset
<1>9. r \in Injection(1 .. n, rows)
  BY <1>4, <1>7, <1>8 DEF Injection, IsInjective
<1>10. r \in Surjection(1 .. n, rows)
  <2>1. Cardinality(1 .. n) = n
    <3> DEFINE id == [i \in 1 .. n |-> i]
    <3>1. id \in Bijection(1 .. n, 1 .. n)
      BY DEF Bijection, Injection, IsInjective, Surjection
    <3>2. ExistsBijection(1 .. n, 1 .. n)
      BY <3>1 DEF ExistsBijection
    <3> QED BY <1>1, <3>2, FS_NatBijection, FS_CountingElements
  <2> HIDE DEF rows
  <2> QED BY <1>3, <1>9, <2>1, FS_Injection
<1>11. \A e \in rows : \E i \in 1 .. n : r[i] = e
  BY <1>10 DEF Surjection
<1>12. \A i \in 1 .. n : r[i] \in rows
  BY <1>4, <1>7, <1>8
<1> QED BY <1>1, <1>5, <1>11, <1>12

\* However qsort has placed equal characters, the result is in ascending order.
LEMMA ReversalOrder ==
  ASSUME NEW tab, IsTable(tab), NEW r \in Reversals(tab)
  PROVE  /\ Len(r) \in Nat
         /\ \A i \in 1 .. Len(r) : r[i] \in Rows
         /\ Column(r, "ucs") /\ Ascending(r, "ucs")
<1>1. Len(r) = Len(tab) /\ Len(r) \in Nat /\ tab \in [1 .. Len(tab) -> Rows]
  BY TableOrder, ReversalIsPermutation
<1>2. \A i \in 1 .. Len(r) : r[i] \in Rows
  <2> SUFFICES ASSUME NEW i \in 1 .. Len(r) PROVE r[i] \in Rows
    OBVIOUS
  <2>1. PICK j \in 1 .. Len(tab) : r[i] = tab[j]
    BY ReversalIsPermutation
  <2> QED BY <1>1, <2>1
<1>3. \A i \in 1 .. Len(r) : r[i].ucs \in Int
  BY <1>2, RowType
<1>4. \A i \in 1 .. Len(r) - 1 : r[i].ucs <= r[i + 1].ucs
  BY DEF Reversals
<1>5. ASSUME NEW i \in 1 .. Len(r), NEW j \in 1 .. Len(r), i <= j
      PROVE  r[i].ucs <= r[j].ucs
  <2> DEFINE T == {d \in Nat : i + d \in 1 .. Len(r) /\ ~(r[i].ucs <= r[i + d].ucs)}
  <2>1. T = {}
    <3> SUFFICES ASSUME T # {} PROVE FALSE
      OBVIOUS
    <3>1. PICK d \in T : \A m \in T : d <= m
      <4>1. T \subseteq Nat OBVIOUS
      <4> HIDE DEF T
      <4> QED BY <4>1, Least
    <3>2. d \in Nat /\ i + d \in 1 .. Len(r) /\ ~(r[i].ucs <= r[i + d].ucs)
      OBVIOUS
    <3>3. d # 0
      <4> SUFFICES ASSUME d = 0 PROVE FALSE
        OBVIOUS
      <4>1. i + d = i
        BY <1>1
      <4> QED BY <1>3, <3>2, <4>1
    <3>4. /\ d - 1 \in Nat /\ i + (d - 1) \in 1 .. Len(r) - 1
          /\ i + (d - 1) \in 1 .. Len(r) /\ (i + (d - 1)) + 1 = i + d
      <4> HIDE DEF T
      <4> QED BY <1>1, <3>2, <3>3
    <3>5. r[i].ucs <= r[i + (d - 1)].ucs
      <4>1. d - 1 \notin T
        <5>1. ~(d <= d - 1) BY <3>2
        <5> HIDE DEF T
        <5> QED BY <3>1, <5>1
      <4>2. d - 1 \in Nat /\ i + (d - 1) \in 1 .. Len(r)
        BY <3>4
      <4> QED BY <4>1, <4>2
    <3>6. r[i + (d - 1)].ucs <= r[i + d].ucs
      BY <1>4, <3>4
    <3>7. /\ r[i].ucs \in Int /\ r[i + (d - 1)].ucs \in Int
          /\ r[i + d].ucs \in Int
      BY <1>3, <3>2, <3>4
    <3> HIDE DEF T
    <3> QED BY <3>2, <3>5, <3>6, <3>7
  <2>2. j - i \in Nat /\ i + (j - i) = j
    BY <1>1, <1>5
  <2>3. j - i \notin T
    BY <2>1
  <2> QED BY <2>2, <2>3
<1>6. Column(r, "ucs")
  BY <1>3 DEF Column
<1>7. Ascending(r, "ucs")
  BY <1>5 DEF Ascending
<1> QED BY <1>1, <1>2, <1>6, <1>7

\* Division by a number of a smaller one, alone and added to it.
LEMMA QuotientOne ==
  ASSUME NEW c \in Nat, NEW d \in Nat, c < d
  PROVE  /\ (c + d) \div d = 1 /\ (c + d) % d = c
         /\ c \div d = 0
<1>1. d * 1 + c = c + d /\ d * 0 + c = c /\ d > 0
  BY SMT
<1>2. (c + d) \div d = 1
  BY <1>1, SMTT(20)
<1>3. c \div d = 0
  BY <1>1, SMTT(20)
<1>4. (c + d) % d = c
  BY <1>1, SMTT(20)
<1> QED BY <1>2, <1>3, <1>4

\* A directly encoded character comes back from its keysym.
LEMMA DirectKeysym ==
  ASSUME NEW c \in 0 .. Max16
  PROVE  /\ c + Direct \in Nat /\ ~Latin1(c + Direct)
         /\ (c + Direct) \div Direct = 1 /\ (c + Direct) % Direct = c
<1>1. c \in Nat /\ c < Direct /\ c + Direct \in Nat /\ c + Direct > Max16
  BY DirectBound
<1>2. ~Latin1(c + Direct)
  BY <1>1, DirectBound DEF Latin1
<1>3. (c + Direct) \div Direct = 1 /\ (c + Direct) % Direct = c
  BY <1>1, DirectBound, QuotientOne
<1> QED BY <1>1, <1>2, <1>3

\* No character of Latin-1 is one of the directly encoded keysyms.
LEMMA LatinBelowDirect ==
  ASSUME NEW c \in Nat, Latin1(c) PROVE ~(c >= Direct)
BY DirectBound DEF Latin1

\* A keysym of the table is neither Latin-1 nor directly encoded.
LEMMA TableKeysym ==
  ASSUME NEW s \in Nat, s >= 256, s <= Max16
  PROVE  ~Latin1(s) /\ s \div Direct # 1
<1>1. s < Direct
  BY DirectBound
<1>2. s \div Direct = 0
  BY <1>1, DirectBound, QuotientOne
<1> QED BY <1>2 DEF Latin1

\* For any table a keysym is found if and only if it is there.
THEOREM SearchFindsCorrect ==
  ASSUME NEW tab, IsTable(tab), NEW keysym \in 256 .. Max16
  PROVE  SearchFinds(tab, keysym)
<1> DEFINE i == Search(tab, "keysym", keysym)
           hits == {j \in 1 .. Len(tab) : tab[j].keysym = keysym}
<1>1. \/ i = NotFound /\ hits = {}
      \/ i + 1 \in 1 .. Len(tab) /\ tab[i + 1].keysym = keysym
  BY TableOrder, SearchCorrect
<1>2. ToUcs(tab, keysym) = IF i = NotFound THEN -1 ELSE tab[i + 1].ucs
  BY TableKeysym DEF ToUcs
<1>3. CASE i = NotFound /\ hits = {}
  BY <1>2, <1>3 DEF SearchFinds
<1>4. CASE i + 1 \in 1 .. Len(tab) /\ tab[i + 1].keysym = keysym
  <2> HIDE DEF i
  <2>1. i # NotFound
    BY <1>4, TableOrder DEF NotFound
  <2>2. \A j \in hits : j = i + 1
    BY <1>4, TableOrder
  <2> QED BY <1>2, <1>4, <2>1, <2>2 DEF SearchFinds
<1> QED BY <1>1, <1>3, <1>4

\* A character beyond Latin-1 has the keysym of one of its rows, or is encoded
\* directly if it has none.
LEMMA FromUcsRow ==
  ASSUME NEW tab, IsTable(tab), NEW r \in Reversals(tab), NEW c \in 0 .. Max16, ~Latin1(c)
  PROVE  \/ /\ FromUcs(r, c) = c + Direct
            /\ \A j \in 1 .. Len(tab) : tab[j].ucs # c
         \/ \E j \in 1 .. Len(tab) : tab[j].ucs = c /\ tab[j].keysym = FromUcs(r, c)
<1> DEFINE i == Search(r, "ucs", c)
<1>1. \/ i = NotFound /\ \A j \in 1 .. Len(r) : r[j].ucs # c
      \/ i + 1 \in 1 .. Len(r) /\ r[i + 1].ucs = c
  BY ReversalOrder, SearchCorrect
<1>2. FromUcs(r, c) = IF i = NotFound THEN c + Direct ELSE r[i + 1].keysym
  BY DEF FromUcs
<1> HIDE DEF i
<1>3. CASE i = NotFound /\ \A j \in 1 .. Len(r) : r[j].ucs # c
  <2>1. ASSUME NEW j \in 1 .. Len(tab) PROVE tab[j].ucs # c
    <3>1. PICK k \in 1 .. Len(r) : r[k] = tab[j]
      BY ReversalIsPermutation
    <3> QED BY <1>3, <3>1
  <2> QED BY <1>2, <1>3, <2>1
<1>4. CASE i + 1 \in 1 .. Len(r) /\ r[i + 1].ucs = c
  <2>1. i # NotFound
    BY <1>4, ReversalOrder DEF NotFound
  <2>2. PICK j \in 1 .. Len(tab) : r[i + 1] = tab[j]
    BY <1>4, ReversalIsPermutation
  <2> QED BY <1>2, <1>4, <2>1, <2>2
<1> QED BY <1>1, <1>3, <1>4

\* For any table, in whatever order qsort leaves equals: a character is the
\* character of its keysym.
THEOREM RoundTripCorrect ==
  ASSUME NEW tab, IsTable(tab), NEW r \in Reversals(tab), NEW ucs \in 0 .. Max16
  PROVE  RoundTrip(tab, r, ucs)
<1>1. CASE Latin1(ucs)
  BY <1>1, LatinBelowDirect DEF RoundTrip, FromUcs, ToUcs
<1>2. CASE ~Latin1(ucs)
  <2>1. CASE /\ FromUcs(r, ucs) = ucs + Direct
             /\ \A j \in 1 .. Len(tab) : tab[j].ucs # ucs
    BY <2>1, DirectKeysym DEF RoundTrip, ToUcs
  <2>2. ASSUME NEW j \in 1 .. Len(tab), tab[j].ucs = ucs, tab[j].keysym = FromUcs(r, ucs)
        PROVE  RoundTrip(tab, r, ucs)
    <3> DEFINE s == tab[j].keysym
    <3>1. s \in Nat /\ s >= 256 /\ s <= Max16 /\ s \in 256 .. Max16
      BY TableOrder, RowType
    <3>2. ToUcs(tab, s) = ucs
      <4>1. SearchFinds(tab, s)
        BY <3>1, SearchFindsCorrect
      <4> QED BY <2>2, <4>1 DEF SearchFinds
    <3>3. ~(s >= Direct)
      BY <3>1, DirectBound
    <3> QED BY <2>2, <3>2, <3>3 DEF RoundTrip
  <2> QED BY <1>2, <2>1, <2>2, FromUcsRow
<1> QED BY <1>1, <1>2
----------------------------------------------------------------------------
(* The normal form of the four glyphs of a key *)

\* Clearing changes the levels named, if the condition holds, and no other.
LEMMA ClearType ==
  ASSUME NEW k \in [Level -> Nat], NEW levels, NEW condition
  PROVE  /\ Clear(k, levels, condition) \in [Level -> Nat]
         /\ \A j \in Level : Clear(k, levels, condition)[j] =
              IF condition /\ j \in levels THEN NoSymbol ELSE k[j]
BY DEF Clear, NoSymbol

\* The levels are four.
LEMMA FourLevels == 1 \in Level /\ 2 \in Level /\ 3 \in Level /\ 4 \in Level
BY DEF Level

\* What is left of each of the four glyphs.
LEMMA NormalForm ==
  ASSUME NEW k \in [Level -> Nat]
  PROVE  LET n == Normalise(k)
             fourth == IF k[4] = k[3] THEN NoSymbol ELSE k[4]
             second == IF k[2] = k[1] THEN NoSymbol ELSE k[2]
             same == k[1] = k[3] /\ second = fourth
         IN  /\ n \in [Level -> Nat]
             /\ n[1] = k[1] /\ n[2] = second
             /\ n[3] = IF same THEN NoSymbol ELSE k[3]
             /\ \/ /\ n[4] = NoSymbol
                   /\ same \/ (fourth = k[1] /\ n[3] = NoSymbol /\ second = NoSymbol)
                \/ n[4] = fourth /\ ~same
<1> DEFINE k1 == Clear(k, {4}, k[4] = k[3])
           k2 == Clear(k1, {2}, k1[2] = k1[1])
           k3 == Clear(k2, {3, 4}, k2[1] = k2[3] /\ k2[2] = k2[4])
           k4 == Clear(k3, {4}, k3[4] = k3[1] /\ k3[3] = k3[2] /\ k3[3] = NoSymbol)
<1>1. /\ k1 \in [Level -> Nat] /\ k1[1] = k[1] /\ k1[2] = k[2] /\ k1[3] = k[3]
      /\ k1[4] = IF k[4] = k[3] THEN NoSymbol ELSE k[4]
  <2>1. /\ k1 \in [Level -> Nat]
        /\ \A j \in Level : k1[j] = IF k[4] = k[3] /\ j \in {4} THEN NoSymbol ELSE k[j]
    <3> DEFINE cond == k[4] = k[3]
    <3> HIDE DEF cond
    <3>1. k1 = Clear(k, {4}, cond) BY DEF cond
    <3>2. /\ k1 \in [Level -> Nat]
          /\ \A j \in Level : k1[j] = IF cond /\ j \in {4} THEN NoSymbol ELSE k[j]
      <4> HIDE DEF k1
      <4> QED BY <3>1, ClearType
    <3> QED BY <3>2 DEF cond
  <2> HIDE DEF k1
  <2> QED BY <2>1, FourLevels
<1> HIDE DEF k1
<1>2. /\ k2 \in [Level -> Nat] /\ k2[1] = k1[1] /\ k2[3] = k1[3] /\ k2[4] = k1[4]
      /\ k2[2] = IF k1[2] = k1[1] THEN NoSymbol ELSE k1[2]
  <2>1. /\ k2 \in [Level -> Nat]
        /\ \A j \in Level : k2[j] = IF k1[2] = k1[1] /\ j \in {2} THEN NoSymbol ELSE k1[j]
    <3> DEFINE cond == k1[2] = k1[1]
    <3> HIDE DEF cond
    <3>1. k2 = Clear(k1, {2}, cond) BY DEF cond
    <3>2. /\ k2 \in [Level -> Nat]
          /\ \A j \in Level : k2[j] = IF cond /\ j \in {2} THEN NoSymbol ELSE k1[j]
      <4> HIDE DEF k2
      <4> QED BY <1>1, <3>1, ClearType
    <3> QED BY <3>2 DEF cond
  <2> HIDE DEF k2
  <2> QED BY <2>1, FourLevels
<1> HIDE DEF k2
<1> DEFINE same == k2[1] = k2[3] /\ k2[2] = k2[4]
<1>3. /\ k3 \in [Level -> Nat] /\ k3[1] = k2[1] /\ k3[2] = k2[2]
      /\ k3[3] = IF same THEN NoSymbol ELSE k2[3]
      /\ k3[4] = IF same THEN NoSymbol ELSE k2[4]
  <2>1. /\ k3 \in [Level -> Nat]
        /\ \A j \in Level : k3[j] = IF same /\ j \in {3, 4} THEN NoSymbol ELSE k2[j]
    <3> HIDE DEF same
    <3>1. k3 = Clear(k2, {3, 4}, same) BY DEF same
    <3> QED BY <1>2, <3>1, ClearType
  <2> HIDE DEF k3, same
  <2> QED BY <2>1, FourLevels
<1> HIDE DEF k3
<1> DEFINE last == k3[4] = k3[1] /\ k3[3] = k3[2] /\ k3[3] = NoSymbol
<1>4. /\ k4 \in [Level -> Nat] /\ k4[1] = k3[1] /\ k4[2] = k3[2] /\ k4[3] = k3[3]
      /\ k4[4] = IF last THEN NoSymbol ELSE k3[4]
  <2>1. /\ k4 \in [Level -> Nat]
        /\ \A j \in Level : k4[j] = IF last /\ j \in {4} THEN NoSymbol ELSE k3[j]
    <3> HIDE DEF last
    <3>1. k4 = Clear(k3, {4}, last) BY DEF last
    <3> QED BY <1>3, <3>1, ClearType
  <2> HIDE DEF k4, last
  <2> QED BY <2>1, FourLevels
<1>5. Normalise(k) = k4
  BY DEF Normalise, k1, k2, k3
<1> HIDE DEF k4
<1> DEFINE n == Normalise(k)
           fourth == IF k[4] = k[3] THEN NoSymbol ELSE k[4]
           second == IF k[2] = k[1] THEN NoSymbol ELSE k[2]
<1>6. n = k4 /\ k2[4] = fourth /\ k2[2] = second /\ k2[1] = k[1] /\ k2[3] = k[3]
  BY <1>1, <1>2, <1>5
<1> HIDE DEF n, fourth, second
<1>7. same <=> k[1] = k[3] /\ second = fourth
  BY <1>6
<1> HIDE DEF same
<1>8. /\ n \in [Level -> Nat]
      /\ n[1] = k[1] /\ n[2] = second
      /\ n[3] = IF same THEN NoSymbol ELSE k[3]
      /\ \/ n[4] = NoSymbol /\ (same \/ (fourth = k[1] /\ n[3] = NoSymbol /\ second = NoSymbol))
         \/ n[4] = fourth /\ ~same
  <2>1. /\ n \in [Level -> Nat]
        /\ n[1] = k[1] /\ n[2] = second
        /\ n[3] = IF same THEN NoSymbol ELSE k[3]
        /\ n[4] = IF last THEN NoSymbol ELSE k3[4]
    <3> HIDE DEF last
    <3> QED BY <1>3, <1>4, <1>6
  <2>2. k3[4] = IF same THEN NoSymbol ELSE fourth
    BY <1>3, <1>6
  <2>3. CASE last
    BY <1>3, <1>6, <2>1, <2>2, <2>3
  <2>4. CASE ~last
    <3>1. n[4] = k3[4] BY <2>1, <2>4
    <3>2. CASE same
      <4> HIDE DEF last
      <4> QED BY <2>1, <2>2, <3>1, <3>2
    <3>3. CASE ~same
      <4> HIDE DEF last
      <4> QED BY <2>1, <2>2, <3>1, <3>3
    <3> QED BY <3>2, <3>3
  <2> QED BY <2>3, <2>4
<1> DEFINE repeated == k[1] = k[3] /\ second = fourth
<1>9. /\ n \in [Level -> Nat]
      /\ n[1] = k[1] /\ n[2] = second
      /\ n[3] = IF repeated THEN NoSymbol ELSE k[3]
      /\ \/ /\ n[4] = NoSymbol
            /\ repeated \/ (fourth = k[1] /\ n[3] = NoSymbol /\ second = NoSymbol)
         \/ n[4] = fourth /\ ~repeated
  BY <1>7, <1>8
<1> QED BY <1>9 DEF n, fourth, second

\* The two cases of a letter, and what is not a letter.
LEMMA Cases ==
  ASSUME NEW s \in Nat
  PROVE  /\ Lower(s) \in Nat /\ Upper(s) \in Nat
         /\ Lower(Lower(s)) = Lower(s) /\ Lower(Upper(s)) = Lower(s)
         /\ Upper(Lower(s)) = Upper(s)
         /\ (Lower(s) = s \/ Upper(s) = s)
         /\ ~IsLetter(s) => Lower(s) = s /\ Upper(s) = s
         /\ s = NoSymbol <=> Lower(s) = NoSymbol
         /\ s = NoSymbol <=> Upper(s) = NoSymbol
BY DEF Lower, Upper, IsLetter, NoSymbol

\* Leaving out glyphs that repeat another never changes what the key shows, for all
\* four glyphs of any key, but for the case of a letter.
THEOREM GlyphsKeptCorrect ==
  ASSUME NEW k \in [Level -> Nat] PROVE GlyphsKept(k)
<1> DEFINE n == Normalise(k)
<1> SUFFICES ASSUME NEW j \in Level, k[j] # NoSymbol
             PROVE  LET shown == Shown(Normalise(k), j)
                        pair == IF j \in {1, 2} THEN <<k[1], k[2]>> ELSE <<k[3], k[4]>>
                    IN \/ shown = k[j]
                       \/ /\ IsLetter(k[j]) /\ Lower(shown) = Lower(k[j])
                          /\ ~(Lower(pair[1]) = pair[1] /\ Upper(pair[1]) = pair[2])
  BY DEF GlyphsKept
<1>1. k[1] \in Nat /\ k[2] \in Nat /\ k[3] \in Nat /\ k[4] \in Nat
  BY FourLevels
<1>2. CASE j = 1
  BY <1>1, <1>2, NormalForm, Cases DEF Shown, NoSymbol
<1>3. CASE j = 2
  BY <1>1, <1>3, NormalForm, Cases DEF Shown, NoSymbol
<1>4. CASE j = 3
  BY <1>1, <1>4, NormalForm, Cases DEF Shown, NoSymbol
<1>5. CASE j = 4
  BY <1>1, <1>5, NormalForm, Cases DEF Shown, NoSymbol
<1> QED BY <1>2, <1>3, <1>4, <1>5 DEF Level
----------------------------------------------------------------------------
(* The tables of keymap.c *)

\* An entry of a table of the code is one of its rows.
LEMMA TableRows ==
  ASSUME NEW rows, NEW key \in DOMAIN Table(rows)
  PROVE  \E row \in rows : row[1] = key /\ Table(rows)[key] = row[2]
<1>1. key \in {row[1] : row \in rows} /\ Table(rows)[key] = (CHOOSE row \in rows : row[1] = key)[2]
  BY DEF Table
<1>2. \E row \in rows : row[1] = key
  BY <1>1
<1> QED BY <1>1, <1>2

\* The keysyms of modifiers are neither Latin-1 nor directly encoded.
LEMMA ModifierSyms ==
  ASSUME NEW m \in ModifierNames, NEW s \in ModifierKeysyms[m]
  PROVE  s \in Nat /\ s > 255 /\ s < Direct /\ s # NoSymbol
BY SMTT(30) DEF ModifierNames, ModifierKeysyms, Direct, NoSymbol, Shift_L, Shift_R, Caps_Lock,
   Control_L, Control_R, Alt_L, Alt_R, Meta_L, Meta_R, Num_Lock

\* The keysyms of dead keys are neither Latin-1 nor directly encoded nor modifiers.
LEMMA DeadKeysyms ==
  ASSUME NEW a \in DOMAIN DeadKeys
  PROVE  /\ a \in Nat /\ a # NoSymbol
         /\ DeadKeys[a] \in Nat /\ DeadKeys[a] > 255 /\ DeadKeys[a] < Direct
         /\ \A m \in ModifierNames : DeadKeys[a] \notin ModifierKeysyms[m]
<1>1. \A row \in DeadKeyRows :
        /\ row[1] \in Nat /\ row[1] # NoSymbol
        /\ row[2] \in Nat /\ row[2] > 65000 /\ row[2] < 65200
  BY SMT DEF DeadKeyRows, Direct, NoSymbol
<1>2. \A s \in Nat : s > 65000 /\ s < 65200 =>
        /\ s > 255 /\ s < Direct
        /\ \A m \in ModifierNames : s \notin ModifierKeysyms[m]
  BY SMTT(30) DEF ModifierNames, ModifierKeysyms, Direct, Shift_L, Shift_R, Caps_Lock,
     Control_L, Control_R, Alt_L, Alt_R, Meta_L, Meta_R, Num_Lock
<1>3. PICK row \in DeadKeyRows : row[1] = a /\ DeadKeys[a] = row[2]
  BY TableRows DEF DeadKeys
<1> QED BY <1>1, <1>2, <1>3, SMT

\* The characters of the numeric pad, and their keysyms there, none of a modifier.
LEMMA NumericKeys ==
  ASSUME NEW i \in DOMAIN KnownNumericKeys
  PROVE  LET normal == KnownNumericKeys[i] IN
         /\ normal \in (42 .. 61) \cup {Direct + 3}
         /\ Keypad(normal) \in Nat /\ Keypad(normal) > 255
         /\ \A m \in ModifierNames : Keypad(normal) \notin ModifierKeysyms[m]
<1>1. \A row \in KnownNumericRows : row[2] \in (42 .. 61) \cup {Direct + 3}
  BY SMT DEF KnownNumericRows
<1>2. PICK row \in KnownNumericRows : row[1] = i /\ KnownNumericKeys[i] = row[2]
  BY TableRows DEF KnownNumericKeys
<1> DEFINE normal == row[2]
<1>3. normal \in (42 .. 61) \cup {Direct + 3}
  BY <1>1
<1> HIDE DEF normal
<1>4. Keypad(normal) = 65421 \/ Keypad(normal) \in 65450 .. 65469
  BY <1>3, SMT DEF Keypad, XK_KP, XK_KP_Enter, Direct
<1>5. \A s \in 65421 .. 65469 :
        s \in Nat /\ s > 255 /\ \A m \in ModifierNames : s \notin ModifierKeysyms[m]
  BY SMTT(30) DEF ModifierNames, ModifierKeysyms, Shift_L, Shift_R, Caps_Lock,
     Control_L, Control_R, Alt_L, Alt_R, Meta_L, Meta_R, Num_Lock
<1>6. /\ Keypad(normal) \in Nat /\ Keypad(normal) > 255
      /\ \A m \in ModifierNames : Keypad(normal) \notin ModifierKeysyms[m]
  BY <1>4, <1>5, SMT
<1> QED BY <1>2, <1>3, <1>6, SMT DEF normal

\* Every key filled in gets a keysym.
LEMMA KnownKeysyms ==
  ASSUME NEW i \in DOMAIN KnownKeys
  PROVE  KnownKeys[i] \in Nat /\ KnownKeys[i] # NoSymbol
<1>1. \A row \in KnownKeyRows : row[2] \in Nat /\ row[2] # NoSymbol
  BY SMT DEF KnownKeyRows, XK_F, Meta_L, Shift_L, Caps_Lock, Alt_L, Control_L, Shift_R,
     Alt_R, Control_R, Meta_R, NoSymbol
<1>2. PICK row \in KnownKeyRows : row[1] = i /\ KnownKeys[i] = row[2]
  BY TableRows DEF KnownKeys
<1> QED BY <1>1, <1>2
----------------------------------------------------------------------------
(* What one key of an installed map shows *)

\* The keysym of a character stands for it, and is neither a dead key nor a modifier.
LEMMA FromUcsKind ==
  ASSUME NEW r \in Reversals(KeysymTab), NEW c \in 0 .. Max16, c # NoChar
  PROVE  LET s == FromUcs(r, c) IN
         /\ s \in Nat /\ s # NoSymbol /\ (s <= 255 => s = c)
         /\ ~IsDead(s) /\ \A m \in ModifierNames : s \notin ModifierKeysyms[m]
         /\ ToUcs(KeysymTab, s) = c
<1> DEFINE s == FromUcs(r, c)
<1>1. IsTable(KeysymTab)
  BY TableAssumption
<1>2. ToUcs(KeysymTab, s) = c
  BY <1>1, RoundTripCorrect DEF RoundTrip
<1>3. CASE Latin1(c)
  <2>1. s = c
    BY <1>3 DEF FromUcs
  <2>2. c \in Nat /\ c <= 255
    BY <1>3, DirectBound DEF Latin1
  <2>3. ~IsDead(c)
    BY <2>2, DeadKeysyms DEF IsDead
  <2>4. \A m \in ModifierNames : c \notin ModifierKeysyms[m]
    BY <2>2, ModifierSyms
  <2> HIDE DEF s
  <2> QED BY <1>2, <2>1, <2>2, <2>3, <2>4 DEF NoChar, NoSymbol, s
<1>4. CASE s = c + Direct
  <2> HIDE DEF s
  <2>1. s \in Nat /\ s >= Direct /\ s > 255
    BY <1>4, DirectBound
  <2>2. ~IsDead(s)
    BY <2>1, DirectBound, DeadKeysyms DEF IsDead
  <2>3. \A m \in ModifierNames : s \notin ModifierKeysyms[m]
    BY <2>1, DirectBound, ModifierSyms
  <2> QED BY <1>2, <2>1, <2>2, <2>3 DEF NoSymbol, s
<1>5. ASSUME NEW j \in 1 .. Len(KeysymTab), KeysymTab[j].keysym = s
      PROVE  /\ s \in Nat /\ s >= 256
             /\ ~IsDead(s) /\ \A m \in ModifierNames : s \notin ModifierKeysyms[m]
  <2>1. KeysymTab[j] \in Rows
    BY <1>1, TableOrder
  <2> QED BY <1>5, <2>1, RowType, PlainKeysyms
<1>6. ASSUME NEW j \in 1 .. Len(KeysymTab), KeysymTab[j].keysym = s
      PROVE  s \in Nat /\ s # NoSymbol /\ (s <= 255 => s = c)
  <2> HIDE DEF s
  <2> QED BY <1>5, <1>6 DEF NoSymbol
<1>7. \/ Latin1(c) \/ s = c + Direct
      \/ \E j \in 1 .. Len(KeysymTab) : KeysymTab[j].keysym = s
  BY <1>1, FromUcsRow
<1> HIDE DEF s
<1> QED BY <1>2, <1>3, <1>4, <1>5, <1>6, <1>7 DEF s

\* The glyphs of a layout: each has the character of the layout, a dead one as
\* one of its accents, and none is a modifier.
LEMMA GlyphKind ==
  ASSUME NEW r \in Reversals(KeysymTab), NEW t \in [char : 0 .. Max16, dead : BOOLEAN]
  PROVE  LET s == Glyph(t, r) IN
         /\ s \in Nat /\ \A m \in ModifierNames : s \notin ModifierKeysyms[m]
         /\ t.char \in {NoChar, FunctionKey} => s = NoSymbol
         /\ t.char \notin {NoChar, FunctionKey} =>
              /\ s # NoSymbol /\ (s <= 255 => s = t.char)
              /\ \/ ~IsDead(s) /\ ToUcs(KeysymTab, s) = t.char
                 \/ /\ s > 255 /\ s < Direct
                    /\ \E a \in DOMAIN DeadKeys :
                         DeadKeys[a] = s /\ ToUcs(KeysymTab, a) = t.char
<1> DEFINE s == Glyph(t, r)
           f == FromUcs(r, t.char)
<1>0. t.char \in 0 .. Max16 /\ t.dead \in BOOLEAN
  OBVIOUS
<1>1. CASE t.char \in {NoChar, FunctionKey}
  <2>1. s = NoSymbol
    BY <1>1 DEF Glyph
  <2>2. \A m \in ModifierNames : NoSymbol \notin ModifierKeysyms[m]
    BY ModifierSyms
  <2>3. NoSymbol \in Nat
    BY DEF NoSymbol
  <2> HIDE DEF s
  <2> QED BY <1>1, <2>1, <2>2, <2>3 DEF s
<1>2. CASE t.char \notin {NoChar, FunctionKey}
  <2>1. /\ f \in Nat /\ f # NoSymbol /\ (f <= 255 => f = t.char)
        /\ ~IsDead(f) /\ \A m \in ModifierNames : f \notin ModifierKeysyms[m]
        /\ ToUcs(KeysymTab, f) = t.char
    BY <1>0, <1>2, FromUcsKind
  <2>2. s = IF t.dead THEN MakeDeadKey(f) ELSE f
    BY <1>2 DEF Glyph
  <2> HIDE DEF s, f
  <2>3. CASE t.dead /\ f \in DOMAIN DeadKeys
    <3>1. s = DeadKeys[f]
      BY <2>2, <2>3 DEF MakeDeadKey
    <3>2. /\ s \in Nat /\ s > 255 /\ s < Direct
          /\ \A m \in ModifierNames : s \notin ModifierKeysyms[m]
      BY <2>3, <3>1, DeadKeysyms
    <3>3. s # NoSymbol /\ ~(s <= 255)
      BY <3>2 DEF NoSymbol
    <3> QED BY <1>2, <2>1, <2>3, <3>1, <3>2, <3>3 DEF s
  <2>4. CASE ~(t.dead /\ f \in DOMAIN DeadKeys)
    <3>1. s = f
      BY <2>2, <2>4 DEF MakeDeadKey
    <3> QED BY <1>2, <2>1, <3>1 DEF s
  <2> QED BY <2>3, <2>4
<1> QED BY <1>1, <1>2

\* A key on which some state has a glyph keeps that one, and is not one of the
\* keys filled in.
LEMMA SomeGlyph ==
  ASSUME NEW k \in [Level -> Nat], NEW j \in Level, k[j] # NoSymbol
  PROVE  Normalise(k) # NoGlyphs
<1> SUFFICES ASSUME Normalise(k) = NoGlyphs PROVE FALSE
  OBVIOUS
<1>1. /\ Normalise(k)[1] = NoSymbol /\ Normalise(k)[2] = NoSymbol
      /\ Normalise(k)[3] = NoSymbol /\ Normalise(k)[4] = NoSymbol
  BY FourLevels DEF NoGlyphs
<1>2. j = 1 \/ j = 2 \/ j = 3 \/ j = 4
  BY DEF Level
<1> HIDE DEF NoSymbol
<1> QED BY <1>1, <1>2, NormalForm

\* What a key shows in a state of the layout, once the map has its keypad keysym:
\* the glyph, or the keypad's one for it.
LEMMA FixedShown ==
  ASSUME NEW i \in Keycodes \ Blacklist, NEW k \in [Level -> Nat], NEW j \in Level,
         k[j] # NoSymbol
  PROVE  LET m == DropBlacklisted(i, FixKeypad(i, FillMissing(i, Normalise(k))))
             v == Shown(m, j)
         IN  \/ v \in Nat /\ (v = k[j] \/ (IsLetter(k[j]) /\ Lower(v) = Lower(k[j])))
             \/ /\ i \in DOMAIN KnownNumericKeys /\ k[j] = KnownNumericKeys[i]
                /\ v = Keypad(KnownNumericKeys[i])
<1> DEFINE n == Normalise(k)
           p == FixKeypad(i, n)
<1>1. DropBlacklisted(i, FixKeypad(i, FillMissing(i, n))) = p
  <2>1. FillMissing(i, n) = n
    BY SomeGlyph DEF FillMissing
  <2> QED BY <2>1 DEF DropBlacklisted
<1>2. n \in [Level -> Nat]
  BY NormalForm
<1>3. GlyphsKept(k)
  BY GlyphsKeptCorrect
<1>4. CASE p = n
  <2>1. \/ Shown(n, j) = k[j]
        \/ IsLetter(k[j]) /\ Lower(Shown(n, j)) = Lower(k[j])
    BY <1>3 DEF GlyphsKept
  <2>2. Shown(n, j) \in Nat
    BY <1>2, FourLevels, Cases DEF Shown
  <2> QED BY <1>1, <1>4, <2>1, <2>2
<1>5. CASE p # n
  <2> DEFINE normal == KnownNumericKeys[i]
             key == Keypad(normal)
  <2>1. /\ i \in DOMAIN KnownNumericKeys /\ n[1] = normal
        /\ p = [n EXCEPT ![1] = key]
    BY <1>5 DEF FixKeypad
  <2>2. /\ normal \in Nat /\ normal # NoSymbol /\ Lower(normal) = normal /\ Upper(normal) = normal
        /\ key \in Nat /\ key # NoSymbol /\ Lower(key) = key /\ Upper(key) = key
    <3>1. /\ normal \in (42 .. 61) \cup {Direct + 3}
          /\ key \in Nat /\ key > 255
      BY <2>1, NumericKeys
    <3>2. normal \in 42 .. 61 \/ (normal \in Nat /\ normal > 255)
      BY <3>1, DirectBound
    <3> HIDE DEF normal, key
    <3> QED BY <3>1, <3>2 DEF Lower, Upper, NoSymbol
  <2>3. /\ p[1] = key /\ p[2] = n[2] /\ p[3] = n[3] /\ p[4] = n[4]
    BY <1>2, <2>1, FourLevels
  <2>4. k[1] = normal
    BY <2>1, NormalForm
  <2>5. \A s \in Nat : /\ Lower(s) = normal => s = normal
                       /\ Upper(s) = normal => s = normal
    BY <2>2, Cases
  <2> DEFINE fourth == IF k[4] = k[3] THEN NoSymbol ELSE k[4]
             second == IF k[2] = k[1] THEN NoSymbol ELSE k[2]
             same == k[1] = k[3] /\ second = fourth
  <2>6. /\ n[2] = second /\ n[3] = IF same THEN NoSymbol ELSE k[3]
        /\ \/ /\ n[4] = NoSymbol
              /\ same \/ (fourth = k[1] /\ n[3] = NoSymbol /\ second = NoSymbol)
           \/ n[4] = fourth /\ ~same
    BY NormalForm
  <2> DEFINE low == p[3] = NoSymbol /\ p[4] = NoSymbol
  <2>7. CASE j \in {1, 2} \/ (j \in {3, 4} /\ low)
    <3> DEFINE v == Shown(p, j)
    <3>1. v = IF n[2] # NoSymbol THEN (IF j \in {2, 4} THEN n[2] ELSE key) ELSE key
      <4> HIDE DEF n, p, normal, key
      <4> QED BY <2>2, <2>3, <2>7 DEF Shown
    <3>2. \/ v = k[j] \/ (k[j] = normal /\ v = key)
      <4> HIDE DEF n, p, normal, key, v, NoSymbol
      <4>1. CASE j = 1
        BY <2>4, <3>1, <4>1
      <4>2. CASE j = 2
        BY <2>4, <2>6, <3>1, <4>2
      <4>3. CASE j = 3 /\ low
        BY <2>3, <2>4, <2>6, <3>1, <4>3
      <4>4. CASE j = 4 /\ low
        BY <2>2, <2>3, <2>4, <2>6, <3>1, <4>4
      <4> QED BY <2>7, <4>1, <4>2, <4>3, <4>4
    <3>3. v \in Nat
      BY <2>2, <3>2
    <3> HIDE DEF v, normal, key, n, p
    <3> QED BY <1>1, <2>1, <3>2, <3>3 DEF v, normal, key, n, p
  <2>8. CASE j \in {3, 4} /\ ~low
    <3>1. Shown(p, j) = Shown(n, j)
      <4> HIDE DEF n, p
      <4> QED BY <2>3, <2>8 DEF Shown
    <3>2. \/ Shown(n, j) = k[j]
          \/ IsLetter(k[j]) /\ Lower(Shown(n, j)) = Lower(k[j])
      BY <1>3 DEF GlyphsKept
    <3>3. Shown(n, j) \in Nat
      BY <1>2, FourLevels, Cases DEF Shown
    <3> HIDE DEF n, p
    <3> QED BY <1>1, <3>1, <3>2, <3>3 DEF n, p
  <2> QED BY <2>7, <2>8 DEF Level
<1> QED BY <1>4, <1>5

\* The character a shown glyph has for the programs of X.
LEMMA ShownChar ==
  ASSUME NEW r \in Reversals(KeysymTab), NEW t \in [char : 0 .. Max16, dead : BOOLEAN],
         t.char \notin {NoChar, FunctionKey}, NEW v \in Nat,
         LET s == Glyph(t, r) IN v = s \/ (IsLetter(s) /\ Lower(v) = Lower(s))
  PROVE  \E c \in Chars(v) : Lower(c) = Lower(t.char)
<1> DEFINE s == Glyph(t, r)
<1>1. /\ s \in Nat /\ (s <= 255 => s = t.char)
      /\ \/ ~IsDead(s) /\ ToUcs(KeysymTab, s) = t.char
         \/ /\ s > 255 /\ s < Direct
            /\ \E a \in DOMAIN DeadKeys : DeadKeys[a] = s /\ ToUcs(KeysymTab, a) = t.char
  BY GlyphKind
<1> HIDE DEF s
<1>2. CASE v = s /\ ~IsDead(s)
  BY <1>1, <1>2, DeadKeysyms DEF Chars, IsDead
<1>3. CASE v = s /\ IsDead(s)
  <2>1. PICK a \in DOMAIN DeadKeys : DeadKeys[a] = s /\ ToUcs(KeysymTab, a) = t.char
    BY <1>1, <1>3
  <2>2. t.char \in Chars(v)
    BY <1>3, <2>1 DEF Chars
  <2> QED BY <2>2
<1>4. CASE IsLetter(s) /\ Lower(v) = Lower(s)
  <2>1. s \in 65 .. 90 \cup 97 .. 122 /\ v \in 65 .. 90 \cup 97 .. 122
    BY <1>1, <1>4 DEF IsLetter, Lower, Upper
  <2>2. s = t.char
    BY <1>1, <2>1
  <2>3. ~IsDead(v)
    BY <2>1, DeadKeysyms DEF IsDead
  <2>4. ToUcs(KeysymTab, v) = v
    BY <2>1 DEF ToUcs, Latin1
  <2>5. v \in Chars(v)
    BY <2>3, <2>4 DEF Chars
  <2> QED BY <1>4, <2>2, <2>5
<1> QED BY <1>2, <1>3, <1>4 DEF s
----------------------------------------------------------------------------
(* What is down once the queue has drained *)

\* The last block for x in the queue is a press, or there is none and x is down.
WillBeDown(x) ==
  \/ \E i \in 1 .. Len(queue) :
       /\ queue[i].code = Code(x) /\ queue[i].press
       /\ \A j \in 1 .. Len(queue) : j > i => queue[j].code # Code(x)
  \/ /\ Code(x) \in down
     /\ \A j \in 1 .. Len(queue) : queue[j].code # Code(x)

\* A swallowed key has been taken as a shortcut.
Marked == doSwallow => swallowKeycode \in Keys /\ "shortcut" \in seen[swallowKeycode]

KeyFate(x) == WillBeDown(x) <=> "plain" \in seen[x] \/ x \in mixed

ModifierFate(m) ==
  m \notin missed =>
    /\ WillBeDown(m) => m \in held
    /\ m \in held /\ MaskOf[m] \in Tested /\ Lone(m) => WillBeDown(m)

KInv ==
  /\ TypeOK /\ Marked
  /\ \A x \in Keys \cup Buttons : KeyFate(x)
  /\ \A m \in Modifiers : ModifierFate(m)

----------------------------------------------------------------------------
\* No key is taken for another, nor for a button.
LEMMA CodeOneToOne == \A x, y \in Inputs : Code(x) = Code(y) => x = y
BY KeysAssumption DEF Inputs, Code, KeycodeOffset

\* A block put last decides the fate of its key, and of no other.
LEMMA PostFate ==
  ASSUME TypeOK, NEW y \in Inputs, NEW p \in BOOLEAN, Post(y, p), UNCHANGED down
  PROVE  /\ WillBeDown(y)' <=> p
         /\ \A x \in Inputs : x # y => (WillBeDown(x)' <=> WillBeDown(x))
<1> DEFINE n == Len(queue)
<1>1. queue \in Seq(Blocks) /\ n \in Nat
  BY DEF TypeOK
<1>2. /\ Len(queue') = n + 1
      /\ queue'[n + 1].code = Code(y) /\ queue'[n + 1].press = p
      /\ \A i \in 1 .. n : queue'[i] = queue[i]
  BY <1>1 DEF Post, Block
<1>3. WillBeDown(y)' <=> p
  BY <1>1, <1>2 DEF WillBeDown, Code
<1>4. ASSUME NEW x \in Inputs, x # y PROVE WillBeDown(x)' <=> WillBeDown(x)
  <2>1. Code(x) # Code(y)
    BY <1>4, CodeOneToOne
  <2>2. ASSUME WillBeDown(x) PROVE WillBeDown(x)'
    BY <1>1, <1>2, <2>1, <2>2 DEF WillBeDown, Code
  <2>3. ASSUME WillBeDown(x)' PROVE WillBeDown(x)
    BY <1>1, <1>2, <2>1, <2>3 DEF WillBeDown, Code
  <2> QED BY <2>2, <2>3
<1> QED BY <1>3, <1>4

\* Running the first block changes no fate.
LEMMA RunFate ==
  ASSUME TypeOK, RunBlock, NEW x \in Inputs
  PROVE  WillBeDown(x)' <=> WillBeDown(x)
<1> DEFINE n == Len(queue)
<1>1. queue \in Seq(Blocks) /\ n \in Nat \ {0}
  BY DEF TypeOK, RunBlock
<1>2. /\ Len(queue') = n - 1
      /\ \A i \in 1 .. n - 1 : queue'[i] = queue[i + 1]
      /\ \A j \in 1 .. n : j > 1 => queue[j] = queue'[j - 1]
  BY <1>1 DEF RunBlock
<1>3. /\ queue[1].press \in BOOLEAN
      /\ down' = IF queue[1].press THEN down \cup {queue[1].code}
                                   ELSE down \ {queue[1].code}
  <2>1. Head(queue) = queue[1] /\ queue[1] \in Blocks
    BY <1>1
  <2> QED BY <2>1 DEF RunBlock, Blocks
<1>4. ASSUME WillBeDown(x) PROVE WillBeDown(x)'
  <2>1. CASE /\ Code(x) \in down
             /\ \A j \in 1 .. n : queue[j].code # Code(x)
    BY <1>1, <1>2, <1>3, <2>1 DEF WillBeDown, Code
  <2>2. ASSUME NEW i \in 1 .. n, queue[i].code = Code(x), queue[i].press,
               \A j \in 1 .. n : j > i => queue[j].code # Code(x)
        PROVE  WillBeDown(x)'
    <3>1. CASE i = 1
      <4>1. Code(x) \in down'
        BY <1>3, <2>2, <3>1
      <4>2. \A j \in 1 .. n - 1 : queue'[j].code # Code(x)
        BY <1>1, <1>2, <2>2, <3>1
      <4> QED BY <1>2, <4>1, <4>2 DEF WillBeDown, Code
    <3>2. CASE i > 1
      <4>1. /\ i - 1 \in 1 .. n - 1
            /\ queue'[i - 1].code = Code(x) /\ queue'[i - 1].press
            /\ \A j \in 1 .. n - 1 : j > i - 1 => queue'[j].code # Code(x)
        BY <1>1, <1>2, <2>2, <3>2
      <4> QED BY <1>2, <4>1 DEF WillBeDown, Code
    <3> QED BY <1>1, <2>2, <3>1, <3>2
  <2> QED BY <1>4, <2>1, <2>2 DEF WillBeDown
<1>5. ASSUME WillBeDown(x)' PROVE WillBeDown(x)
  <2>1. ASSUME NEW i \in 1 .. n - 1, queue'[i].code = Code(x), queue'[i].press,
               \A j \in 1 .. n - 1 : j > i => queue'[j].code # Code(x)
        PROVE  WillBeDown(x)
    <3>1. i + 1 \in 1 .. n /\ queue[i + 1].code = Code(x) /\ queue[i + 1].press
      BY <1>1, <1>2, <2>1
    <3>2. ASSUME NEW j \in 1 .. n, j > i + 1 PROVE queue[j].code # Code(x)
      <4>1. j - 1 \in 1 .. n - 1 /\ j - 1 > i
        BY <1>1, <3>2
      <4>2. queue[j] = queue'[j - 1]
        BY <1>1, <1>2, <3>2
      <4> QED BY <2>1, <4>1, <4>2
    <3> QED BY <3>1, <3>2 DEF WillBeDown
  <2>2. CASE Code(x) \in down' /\ \A j \in 1 .. n - 1 : queue'[j].code # Code(x)
    <3>1. ASSUME NEW j \in 1 .. n, j > 1 PROVE queue[j].code # Code(x)
      <4>1. j - 1 \in 1 .. n - 1
        BY <1>1, <3>1
      <4>2. queue[j] = queue'[j - 1]
        BY <1>2, <3>1
      <4> QED BY <2>2, <4>1, <4>2
    <3>2. CASE queue[1].code = Code(x)
      BY <1>1, <1>3, <2>2, <3>1, <3>2 DEF WillBeDown
    <3>3. CASE queue[1].code # Code(x)
      <4>1. Code(x) \in down
        BY <1>3, <2>2, <3>3
      <4>2. \A j \in 1 .. n : queue[j].code # Code(x)
        BY <1>1, <3>1, <3>3
      <4> QED BY <4>1, <4>2 DEF WillBeDown
    <3> QED BY <3>2, <3>3
  <2> QED BY <1>2, <1>5, <2>1, <2>2 DEF WillBeDown, Code
<1> QED BY <1>4, <1>5

\* Where neither the queue nor the server changes, no fate does.
LEMMA SameFate ==
  ASSUME UNCHANGED <<queue, down>>, NEW x PROVE WillBeDown(x)' <=> WillBeDown(x)
BY DEF WillBeDown, Code

\* With nothing in the queue, what will be down is down.
LEMMA DrainedFate ==
  ASSUME queue = <<>>, NEW x PROVE WillBeDown(x) <=> Code(x) \in down
BY DEF WillBeDown

----------------------------------------------------------------------------
\* The invariant of the input path holds at the start.
LEMMA KInvInit == Init => KInv
<1> SUFFICES ASSUME Init PROVE KInv
  OBVIOUS
<1> USE DEF Init
<1>1. TypeOK
  <2>1. seen \in [Keys \cup Buttons -> SUBSET {"plain", "shortcut"}]
    OBVIOUS
  <2>2. queue \in Seq(Blocks)
    OBVIOUS
  <2> QED BY <2>1, <2>2 DEF TypeOK
<1>2. Marked
  BY DEF Marked
<1>3. \A x : ~WillBeDown(x)
  BY DrainedFate
<1> QED BY <1>1, <1>2, <1>3 DEF KInv, KeyFate, ModifierFate

\* The blocks posted are blocks.
LEMMA BlockType == \A x \in Inputs, p \in BOOLEAN : Block(x, p) \in Blocks
BY DEF Block, Blocks

\* The queue holds blocks only.
LEMMA PostType ==
  ASSUME TypeOK, NEW x \in Inputs, NEW p \in BOOLEAN, Post(x, p)
  PROVE  queue' \in Seq(Blocks)
BY BlockType DEF TypeOK, Post

\* Every step of the input path keeps the types.
LEMMA TypeStep == TypeOK /\ [Next]_vars => TypeOK'
<1> SUFFICES ASSUME TypeOK, [Next]_vars PROVE TypeOK'
  OBVIOUS
<1> USE DEF TypeOK, handler, history
<1>1. ASSUME NEW k \in Keys, ShortcutDown(k) PROVE TypeOK'
  BY <1>1 DEF ShortcutDown, Inputs
<1>2. ASSUME NEW k \in Keys, PlainDown(k) PROVE TypeOK'
  <2>1. queue' \in Seq(Blocks) BY <1>2, PostType DEF PlainDown, Inputs
  <2> QED BY <1>2, <2>1 DEF PlainDown, Inputs
<1>3. ASSUME NEW k \in Keys, SwallowedUp(k) PROVE TypeOK'
  BY <1>3 DEF SwallowedUp
<1>4. ASSUME NEW k \in Keys, PlainUp(k) PROVE TypeOK'
  <2>1. queue' \in Seq(Blocks) BY <1>4, PostType DEF PlainUp, Inputs
  <2> QED BY <1>4, <2>1 DEF PlainUp
<1>5. ASSUME NEW b \in Buttons, ButtonDown(b) PROVE TypeOK'
  <2>1. queue' \in Seq(Blocks) BY <1>5, PostType DEF ButtonDown, Inputs
  <2> QED BY <1>5, <2>1 DEF ButtonDown, Inputs
<1>6. ASSUME NEW b \in Buttons, ButtonUp(b) PROVE TypeOK'
  <2>1. queue' \in Seq(Blocks) BY <1>6, PostType DEF ButtonUp, Inputs
  <2> QED BY <1>6, <2>1 DEF ButtonUp
<1>7. ASSUME NEW m \in Modifiers, FlagsChanged(m) PROVE TypeOK'
  <2>1. queue' \in Seq(Blocks) BY <1>7, PostType DEF FlagsChanged, Inputs
  <2>2. currentModFlags' \subseteq Flags(Modifiers) BY <1>7 DEF FlagsChanged, Flags
  <2> QED BY <1>7, <2>1, <2>2 DEF FlagsChanged, Toggled, Inputs
<1>8. CASE Switch BY <1>8 DEF Switch
<1>9. ASSUME NEW x \in Inputs, Elsewhere(x) PROVE TypeOK'
  BY <1>9 DEF Elsewhere, Toggled
<1>10. CASE RunBlock
  <2>1. Head(queue) \in Blocks /\ queue' \in Seq(Blocks) BY <1>10 DEF RunBlock
  <2> QED BY <1>10, <2>1 DEF RunBlock, Blocks
<1>11. CASE UNCHANGED vars BY <1>11 DEF vars
<1> QED BY <1>1, <1>2, <1>3, <1>4, <1>5, <1>6, <1>7, <1>8, <1>9, <1>10, <1>11
        DEF Next, UserStep

\* The mark is only set by a shortcut, and used before its key counts anew.
LEMMA MarkedStep == TypeOK /\ Marked /\ [Next]_vars => Marked'
<1> SUFFICES ASSUME TypeOK, Marked, [Next]_vars PROVE Marked'
  OBVIOUS
<1> USE DEF TypeOK, Marked, handler, history
<1>1. ASSUME NEW k \in Keys, ShortcutDown(k) PROVE Marked'
  BY <1>1 DEF ShortcutDown
<1>2. ASSUME NEW k \in Keys, PlainDown(k) PROVE Marked'
  BY <1>2 DEF PlainDown
<1>3. ASSUME NEW k \in Keys, SwallowedUp(k) PROVE Marked'
  BY <1>3 DEF SwallowedUp
<1>4. ASSUME NEW k \in Keys, PlainUp(k) PROVE Marked'
  BY <1>4 DEF PlainUp
<1>5. ASSUME NEW b \in Buttons, ButtonDown(b) \/ ButtonUp(b) PROVE Marked'
  BY <1>5, KeysAssumption DEF ButtonDown, ButtonUp
<1>6. ASSUME NEW m \in Modifiers, FlagsChanged(m) PROVE Marked'
  BY <1>6 DEF FlagsChanged
<1>7. ASSUME NEW x \in Inputs, Elsewhere(x) PROVE Marked'
  BY <1>7 DEF Elsewhere
<1>8. CASE Switch \/ RunBlock BY <1>8 DEF Switch, RunBlock
<1>9. CASE UNCHANGED vars BY <1>9 DEF vars
<1> QED BY <1>1, <1>2, <1>3, <1>4, <1>5, <1>6, <1>7, <1>8, <1>9 DEF Next, UserStep

\* The fate of a key changes with its own events, and with no other.
LEMMA KeyStep ==
  ASSUME TypeOK, Marked, [Next]_vars, NEW x \in Keys \cup Buttons, KeyFate(x)
  PROVE  KeyFate(x)'
<1> USE DEF TypeOK, KeyFate, handler, history
<1> x \in Inputs BY DEF Inputs
<1>1. ASSUME NEW k \in Keys, ShortcutDown(k) PROVE KeyFate(x)'
  <2>1. WillBeDown(x)' <=> WillBeDown(x) BY <1>1, SameFate DEF ShortcutDown
  <2> QED BY <1>1, <2>1 DEF ShortcutDown
<1>2. ASSUME NEW k \in Keys, PlainDown(k) PROVE KeyFate(x)'
  <2>1. Post(k, TRUE) /\ UNCHANGED down /\ k \in Inputs BY <1>2 DEF PlainDown, Inputs
  <2>2. CASE x = k
    <3>1. WillBeDown(x)' BY <2>1, <2>2, PostFate
    <3> QED BY <1>2, <2>2, <3>1 DEF PlainDown
  <2>3. CASE x # k
    <3>1. WillBeDown(x)' <=> WillBeDown(x) BY <2>1, <2>3, PostFate
    <3> QED BY <1>2, <2>3, <3>1 DEF PlainDown
  <2> QED BY <2>2, <2>3
<1>3. ASSUME NEW k \in Keys, SwallowedUp(k) PROVE KeyFate(x)'
  <2>1. WillBeDown(x)' <=> WillBeDown(x) BY <1>3, SameFate DEF SwallowedUp
  <2>2. "shortcut" \in seen[k] BY <1>3 DEF SwallowedUp, Marked
  <2> QED BY <1>3, <2>1, <2>2 DEF SwallowedUp
<1>4. ASSUME NEW k \in Keys, PlainUp(k) PROVE KeyFate(x)'
  <2>1. Post(k, FALSE) /\ UNCHANGED down /\ k \in Inputs BY <1>4 DEF PlainUp, Inputs
  <2>2. CASE x = k
    <3>1. ~WillBeDown(x)' BY <2>1, <2>2, PostFate
    <3> QED BY <1>4, <2>2, <3>1 DEF PlainUp
  <2>3. CASE x # k
    <3>1. WillBeDown(x)' <=> WillBeDown(x) BY <2>1, <2>3, PostFate
    <3> QED BY <1>4, <2>3, <3>1 DEF PlainUp
  <2> QED BY <2>2, <2>3
<1>5. ASSUME NEW b \in Buttons, ButtonDown(b) PROVE KeyFate(x)'
  <2>1. Post(b, TRUE) /\ UNCHANGED down /\ b \in Inputs BY <1>5 DEF ButtonDown, Inputs
  <2>2. CASE x = b
    <3>1. WillBeDown(x)' BY <2>1, <2>2, PostFate
    <3> QED BY <1>5, <2>2, <3>1 DEF ButtonDown
  <2>3. CASE x # b
    <3>1. WillBeDown(x)' <=> WillBeDown(x) BY <2>1, <2>3, PostFate
    <3> QED BY <1>5, <2>3, <3>1 DEF ButtonDown
  <2> QED BY <2>2, <2>3
<1>6. ASSUME NEW b \in Buttons, ButtonUp(b) PROVE KeyFate(x)'
  <2>1. Post(b, FALSE) /\ UNCHANGED down /\ b \in Inputs BY <1>6 DEF ButtonUp, Inputs
  <2>2. CASE x = b
    <3>1. ~WillBeDown(x)' BY <2>1, <2>2, PostFate
    <3>2. x \notin mixed BY <2>2, KeysAssumption
    <3> QED BY <1>6, <2>2, <3>1, <3>2 DEF ButtonUp
  <2>3. CASE x # b
    <3>1. WillBeDown(x)' <=> WillBeDown(x) BY <2>1, <2>3, PostFate
    <3> QED BY <1>6, <2>3, <3>1 DEF ButtonUp
  <2> QED BY <2>2, <2>3
<1>7. ASSUME NEW m \in Modifiers, FlagsChanged(m) PROVE KeyFate(x)'
  <2>1. PICK p \in BOOLEAN : Post(m, p)
    BY <1>7 DEF FlagsChanged
  <2>2. UNCHANGED <<down, seen, mixed>> /\ m \in Inputs /\ x # m
    BY <1>7, KeysAssumption DEF FlagsChanged, Inputs
  <2>3. WillBeDown(x)' <=> WillBeDown(x) BY <2>1, <2>2, PostFate
  <2> QED BY <2>2, <2>3
<1>8. CASE RunBlock
  <2>1. WillBeDown(x)' <=> WillBeDown(x) BY <1>8, RunFate
  <2> QED BY <1>8, <2>1 DEF RunBlock
<1>9. CASE Switch \/ (\E y \in Inputs : Elsewhere(y)) \/ UNCHANGED vars
  <2>1. UNCHANGED <<queue, down, seen, mixed>> BY <1>9 DEF Switch, Elsewhere, vars
  <2>2. WillBeDown(x)' <=> WillBeDown(x) BY <2>1, SameFate
  <2> QED BY <2>1, <2>2
<1> QED BY <1>1, <1>2, <1>3, <1>4, <1>5, <1>6, <1>7, <1>8, <1>9 DEF Next, UserStep

\* A change of a modifier that is seen with all others in step posts a press only
\* if the key is now held, and does so if the flag is its own.
LEMMA PressIsHeld ==
  ASSUME NEW m \in Modifiers, FlagsChanged(m), InSync
  PROVE  LET press == (Flags(held') \ currentModFlags) \cap Tested # {} IN
         /\ press => m \in held'
         /\ m \in held' /\ MaskOf[m] \in Tested /\ Lone(m) => press
<1> USE DEF FlagsChanged, InSync, Toggled
<1>1. CASE m \in held
  <2>1. Flags(held') \subseteq Flags(held) /\ m \notin held'
    BY <1>1 DEF Flags
  <2> QED BY <2>1
<1>2. CASE m \notin held
  <2>1. m \in held' /\ MaskOf[m] \in Flags(held')
    BY <1>2 DEF Flags
  <2>2. Lone(m) => MaskOf[m] \notin Flags(held)
    BY <1>2 DEF Flags, Lone
  <2> QED BY <2>1, <2>2
<1> QED BY <1>1, <1>2

\* Only its own events, seen or not, change whether a modifier is held.
LEMMA ModifierStep ==
  ASSUME TypeOK, [Next]_vars, NEW n \in Modifiers, ModifierFate(n)
  PROVE  ModifierFate(n)'
<1> USE DEF ModifierFate, handler, history
<1> n \in Inputs /\ n \notin Keys /\ n \notin Buttons
  BY KeysAssumption DEF Inputs
<1>0. Lone(n)' <=> Lone(n)
  BY DEF Lone
<1>1. ASSUME NEW k \in Keys, ShortcutDown(k) \/ SwallowedUp(k) PROVE ModifierFate(n)'
  <2>1. WillBeDown(n)' <=> WillBeDown(n) BY <1>1, SameFate DEF ShortcutDown, SwallowedUp
  <2> QED BY <1>0, <1>1, <2>1 DEF ShortcutDown, SwallowedUp, Tested
<1>2. ASSUME NEW k \in Keys, PlainDown(k) \/ PlainUp(k) PROVE ModifierFate(n)'
  <2>1. PICK p \in BOOLEAN : Post(k, p) BY <1>2 DEF PlainDown, PlainUp
  <2>2. UNCHANGED down /\ k \in Inputs BY <1>2 DEF PlainDown, PlainUp, Inputs
  <2>3. WillBeDown(n)' <=> WillBeDown(n) BY <2>1, <2>2, PostFate
  <2> QED BY <1>0, <1>2, <2>3 DEF PlainDown, PlainUp, Tested
<1>3. ASSUME NEW b \in Buttons, ButtonDown(b) \/ ButtonUp(b) PROVE ModifierFate(n)'
  <2>1. PICK p \in BOOLEAN : Post(b, p) BY <1>3 DEF ButtonDown, ButtonUp
  <2>2. UNCHANGED down /\ b \in Inputs BY <1>3 DEF ButtonDown, ButtonUp, Inputs
  <2>3. WillBeDown(n)' <=> WillBeDown(n) BY <2>1, <2>2, PostFate
  <2> QED BY <1>0, <1>3, <2>3 DEF ButtonDown, ButtonUp, Tested
<1>4. ASSUME NEW m \in Modifiers, FlagsChanged(m) PROVE ModifierFate(n)'
  <2> DEFINE press == (Flags(held') \ currentModFlags) \cap Tested # {}
  <2>1. Post(m, press) /\ press \in BOOLEAN /\ UNCHANGED down /\ m \in Inputs
    BY <1>4 DEF FlagsChanged, Inputs
  <2>2. CASE n # m
    <3>1. WillBeDown(n)' <=> WillBeDown(n)
      <4> HIDE DEF press
      <4> QED BY <2>1, <2>2, PostFate
    <3>2. n \in held' <=> n \in held BY <1>4, <2>2 DEF FlagsChanged, Toggled
    <3>3. n \notin missed' => n \notin missed BY <1>4, <2>2 DEF FlagsChanged
    <3> QED BY <1>0, <3>1, <3>2, <3>3 DEF Tested
  <2>3. CASE n = m /\ InSync
    <3>1. WillBeDown(n)' <=> press
      <4> HIDE DEF press
      <4> QED BY <2>1, <2>3, PostFate
    <3>2. press => n \in held'
      BY <1>4, <2>3, PressIsHeld
    <3>3. n \in held' /\ MaskOf[n] \in Tested /\ Lone(n) => press
      BY <1>4, <2>3, PressIsHeld
    <3> HIDE DEF press
    <3> QED BY <1>0, <3>1, <3>2, <3>3 DEF Tested
  <2>4. CASE n = m /\ ~InSync
    BY <1>4, <2>4 DEF FlagsChanged
  <2> QED BY <2>2, <2>3, <2>4
<1>5. ASSUME NEW x \in Inputs, Elsewhere(x) PROVE ModifierFate(n)'
  <2>1. WillBeDown(n)' <=> WillBeDown(n) BY <1>5, SameFate DEF Elsewhere
  <2>2. n \notin missed' => n \notin missed /\ n # x BY <1>5 DEF Elsewhere
  <2>3. n # x => (n \in held' <=> n \in held) BY <1>5 DEF Elsewhere, Toggled
  <2> QED BY <1>0, <2>1, <2>2, <2>3 DEF Tested
<1>6. CASE RunBlock
  <2>1. WillBeDown(n)' <=> WillBeDown(n) BY <1>6, RunFate
  <2> QED BY <1>0, <1>6, <2>1 DEF RunBlock, Tested
<1>7. CASE Switch \/ UNCHANGED vars
  <2>1. UNCHANGED <<queue, down, held, missed>> BY <1>7 DEF Switch, vars
  <2>2. WillBeDown(n)' <=> WillBeDown(n) BY <2>1, SameFate
  <2> QED BY <1>0, <2>1, <2>2 DEF Tested
<1> QED BY <1>1, <1>2, <1>3, <1>4, <1>5, <1>6, <1>7 DEF Next, UserStep

----------------------------------------------------------------------------
\* The inductive invariant: what each key, button and modifier will be once the
\* queue of XtoqController has run.
THEOREM KInvHolds == Spec => []KInv
<1>1. KInv /\ [Next]_vars => KInv'
  <2> SUFFICES ASSUME KInv, [Next]_vars PROVE KInv'
    OBVIOUS
  <2>1. TypeOK' /\ Marked'
    BY TypeStep, MarkedStep DEF KInv
  <2>2. ASSUME NEW x \in Keys \cup Buttons PROVE KeyFate(x)'
    BY KeyStep DEF KInv
  <2>3. ASSUME NEW m \in Modifiers PROVE ModifierFate(m)'
    BY ModifierStep DEF KInv
  <2> QED BY <2>1, <2>2, <2>3 DEF KInv
<1> QED BY <1>1, KInvInit, PTL DEF Spec

\* The types of the state of sendEvent, the queue and the server's keys.
THEOREM InputTypes == Spec => []TypeOK
<1>1. KInv => TypeOK
  BY DEF KInv
<1> QED BY <1>1, KInvHolds, PTL

\* No order of presses, shortcuts, repeats and releases leaves a key or button
\* stuck or lost, but for one that was pressed in part as a shortcut.
THEOREM NoStuckKeyCorrect == Spec => []NoStuckKey
<1>1. KInv => NoStuckKey
  BY DrainedFate DEF KInv, NoStuckKey, KeyFate
<1> QED BY <1>1, KInvHolds, PTL

\* A modifier whose changes were all seen is down in the server if and only if it
\* is held, as far as its flag is its own.
THEOREM ModifiersAgreeCorrect == Spec => []ModifiersAgree
<1>1. KInv => ModifiersAgree
  BY DrainedFate DEF KInv, ModifiersAgree, ModifierFate
<1> QED BY <1>1, KInvHolds, PTL
----------------------------------------------------------------------------
(* The maps in the server *)

\* The two maps of the layout read, which are blank if there is none.
MapRead == IF layout = NoLayout THEN BlankMap ELSE ReadSystemKeymap(Layouts[layout], reversed)
ModsRead == IF layout = NoLayout THEN NoModifiers ELSE ModKeymap(MapRead)

KbInv ==
  /\ KbTypeOK /\ reversed \in Reversals(KeysymTab)
  /\ tool \in {"read", "mapped"} => keyMap = MapRead /\ modKeymap = ModsRead
  /\ tool \in {"mapped", "idle"} /\ mapStatus = "Success" => serverMap = MapRead
  /\ tool = "idle" /\ status = "Success" => serverMods = ModsRead

----------------------------------------------------------------------------
\* A map read from a layout has a keysym in every place, or none.
LEMMA MapType ==
  ASSUME NEW r \in Reversals(KeysymTab),
         NEW l \in [Keycodes -> [Level -> [char : 0 .. Max16, dead : BOOLEAN]]]
  PROVE  ReadSystemKeymap(l, r) \in [Keycodes -> [Level -> Nat]]
<1> SUFFICES ASSUME NEW i \in Keycodes
             PROVE  DropBlacklisted(i, FixKeypad(i, FillMissing(i,
                      Normalise([j \in Level |-> Glyph(l[i][j], r)])))) \in [Level -> Nat]
  BY DEF ReadSystemKeymap
<1> DEFINE k == [j \in Level |-> Glyph(l[i][j], r)]
<1>1. k \in [Level -> Nat]
  <2>1. \A j \in Level : Glyph(l[i][j], r) \in Nat
    BY GlyphKind
  <2> QED BY <2>1
<1> DEFINE n == Normalise(k)
           f == FillMissing(i, n)
           x == FixKeypad(i, f)
<1>2. n \in [Level -> Nat]
  <2> HIDE DEF k
  <2> QED BY <1>1, NormalForm
<1> HIDE DEF n
<1>3. f \in [Level -> Nat]
  BY <1>2, KnownKeysyms DEF FillMissing
<1> HIDE DEF f
<1>4. x \in [Level -> Nat]
  BY <1>3, NumericKeys DEF FixKeypad
<1> HIDE DEF x
<1>5. DropBlacklisted(i, x) \in [Level -> Nat]
  BY <1>4 DEF DropBlacklisted, NoGlyphs, NoSymbol
<1> QED BY <1>5 DEF x, f, n

\* A modifier map has X keycodes of keys with a keysym of the modifier, and no other.
LEMMA ModKeymapFits ==
  ASSUME NEW map \in [Keycodes -> [Level -> Nat]]
  PROVE  /\ ModKeymap(map) \in [ModifierNames -> SUBSET Nat]
         /\ \A m \in ModifierNames : \A c \in ModKeymap(map)[m] :
              /\ c \in Nat /\ c - MinKeycode \in Keycodes
              /\ map[c - MinKeycode][1] \in ModifierKeysyms[m]
<1> SUFFICES ASSUME NEW m \in ModifierNames, NEW c \in ModKeymap(map)[m]
             PROVE  /\ c \in Nat /\ c - MinKeycode \in Keycodes
                    /\ map[c - MinKeycode][1] \in ModifierKeysyms[m]
  BY DEF ModKeymap
<1>1. PICK i \in Keycodes : c = MinKeycode + i /\ map[i][1] \in ModifierKeysyms[m]
  BY DEF ModKeymap
<1>2. i \in Nat
  BY KeycodesAssumption
<1>3. c \in Nat /\ c - MinKeycode = i
  BY <1>1, <1>2 DEF MinKeycode
<1> QED BY <1>1, <1>3

\* The blank maps are maps.
LEMMA BlankFits ==
  /\ BlankMap \in [Keycodes -> [Level -> Nat]]
  /\ NoModifiers \in [ModifierNames -> SUBSET Nat]
BY DEF BlankMap, NoGlyphs, NoSymbol, NoModifiers

\* The types of the two maps read.
LEMMA ReadType ==
  ASSUME reversed \in Reversals(KeysymTab), layout \in DOMAIN Layouts \cup {NoLayout}
  PROVE  /\ MapRead \in [Keycodes -> [Level -> Nat]]
         /\ ModsRead \in [ModifierNames -> SUBSET Nat]
<1>1. CASE layout = NoLayout
  BY <1>1, BlankFits DEF MapRead, ModsRead
<1>2. CASE layout # NoLayout
  <2>1. MapRead = ReadSystemKeymap(Layouts[layout], reversed) /\ ModsRead = ModKeymap(MapRead)
    BY <1>2 DEF MapRead, ModsRead
  <2>2. MapRead \in [Keycodes -> [Level -> Nat]]
    BY <1>2, <2>1, LayoutsAssumption, MapType
  <2> QED BY <2>1, <2>2, ModKeymapFits
<1> QED BY <1>1, <1>2

----------------------------------------------------------------------------
\* What happens in XtoQ are steps of the input path; the keymap program leaves it alone.
LEMMA KbInputStep == [KbNext]_kbVars => [Next]_vars
BY DEF KbNext, kbVars, Xtoq, ReSync, ChangeKeyboardMapping, SetModifierMapping, Next

\* The keyboard implements the input path.
LEMMA KbImplementsInput == KbSpec => Spec
<1>1. KbInit => Init
  BY DEF KbInit
<1> QED BY <1>1, KbInputStep, PTL DEF KbSpec, Spec

\* The invariant holds before the first run of the keymap program.
LEMMA KbInvInit == KbInit => KbInv
<1> SUFFICES ASSUME KbInit PROVE KbInv
  OBVIOUS
<1>1. TypeOK
  BY KInvInit DEF KbInit, KInv
<1> QED BY <1>1, ServerAssumption, BlankFits DEF KbInit, KbInv, KbTypeOK

\* Every step keeps it.
LEMMA KbInvStep == KbInv /\ TypeOK' /\ [KbNext]_kbVars => KbInv'
<1> SUFFICES ASSUME KbInv, TypeOK', [KbNext]_kbVars PROVE KbInv'
  OBVIOUS
<1> USE DEF KbInv, KbTypeOK
<1>1. CASE Xtoq \/ UNCHANGED kbVars
  <2>1. UNCHANGED <<reversed, tool, layout, keyMap, modKeymap, serverMap, serverMods,
                    mapStatus, status>>
    BY <1>1 DEF Xtoq, kbVars, toolVars, serverVars
  <2>2. UNCHANGED <<MapRead, ModsRead>>
    BY <2>1 DEF MapRead, ModsRead
  <2> QED BY <2>1, <2>2
<1>2. ASSUME NEW l \in DOMAIN Layouts \cup {NoLayout}, ReSync(l) PROVE KbInv'
  <2>1. /\ tool' = "read" /\ layout' = l /\ reversed' = reversed /\ status' = "none"
        /\ serverMap' = serverMap /\ serverMods' = serverMods /\ mapStatus' = "none"
    BY <1>2 DEF ReSync, serverVars
  <2>2. keyMap' = MapRead' /\ modKeymap' = ModsRead'
    BY <1>2 DEF ReSync, MapRead, ModsRead
  <2>3. keyMap' \in [Keycodes -> [Level -> Nat]] /\ modKeymap' \in [ModifierNames -> SUBSET Nat]
    <3>1. CASE l = NoLayout
      BY <1>2, <3>1, BlankFits DEF ReSync
    <3>2. CASE l # NoLayout
      <4>1. keyMap' = ReadSystemKeymap(Layouts[l], reversed) /\ modKeymap' = ModKeymap(keyMap')
        BY <1>2, <3>2 DEF ReSync
      <4>2. keyMap' \in [Keycodes -> [Level -> Nat]]
        BY <3>2, <4>1, LayoutsAssumption, MapType
      <4> QED BY <4>1, <4>2, ModKeymapFits
    <3> QED BY <3>1, <3>2
  <2> QED BY <2>1, <2>2, <2>3
<1>3. CASE ChangeKeyboardMapping
  <2>1. /\ tool = "read" /\ tool' = "mapped"
        /\ UNCHANGED <<reversed, layout, keyMap, modKeymap, serverMods, status>>
        /\ \/ mapStatus' = "Success" /\ serverMap' = keyMap
           \/ mapStatus' = "Error" /\ serverMap' = serverMap
    BY <1>3 DEF ChangeKeyboardMapping
  <2>2. UNCHANGED <<MapRead, ModsRead>>
    BY <2>1 DEF MapRead, ModsRead
  <2> QED BY <2>1, <2>2
<1>4. CASE SetModifierMapping
  <2>1. /\ tool = "mapped" /\ tool' = "idle" /\ reversed' = reversed /\ layout' = layout
        /\ keyMap' = BlankMap /\ modKeymap' = NoModifiers /\ serverMap' = serverMap
        /\ mapStatus' = mapStatus
        /\ \/ status' \in {"Error", "Busy"} /\ serverMods' = serverMods
           \/ status' = "Success" /\ serverMods' = modKeymap
    BY <1>4 DEF SetModifierMapping
  <2>2. UNCHANGED <<MapRead, ModsRead>>
    BY <2>1 DEF MapRead, ModsRead
  <2> QED BY <2>1, <2>2, BlankFits
<1> QED BY <1>1, <1>2, <1>3, <1>4 DEF KbNext

\* The inductive invariant: what the program has read is the two maps of one layout, and
\* each is what the server holds once its request has succeeded.
THEOREM KbInvHolds == KbSpec => []KbInv
<1>1. KbSpec => []TypeOK
  BY KbImplementsInput, InputTypes, PTL
<1> QED BY <1>1, KbInvInit, KbInvStep, PTL DEF KbSpec

\* Every variable keeps its type: the maps have a keysym or none in every place.
THEOREM KbTypeCorrect == KbSpec => []KbTypeOK
<1>1. KbInv => KbTypeOK
  BY DEF KbInv
<1> QED BY <1>1, KbInvHolds, PTL

\* For any layouts, the two maps of the server fit together once both requests of the
\* last run have succeeded.
THEOREM MapsFitCorrect == KbSpec => []MapsFit
<1>1. KbInv => MapsFit
  <2> SUFFICES ASSUME KbInv, tool = "idle", mapStatus = "Success", status = "Success",
                      NEW m \in ModifierNames, NEW c \in serverMods[m]
               PROVE  serverMap[c - MinKeycode][1] \in ModifierKeysyms[m]
    BY DEF MapsFit
  <2>1. /\ serverMap = MapRead /\ serverMods = ModsRead
        /\ serverMap \in [Keycodes -> [Level -> Nat]]
    BY DEF KbInv, KbTypeOK
  <2>2. CASE layout = NoLayout
    BY <2>1, <2>2 DEF ModsRead, NoModifiers
  <2>3. CASE layout # NoLayout
    BY <2>1, <2>3, ModKeymapFits DEF ModsRead
  <2> QED BY <2>2, <2>3
<1> QED BY <1>1, KbInvHolds, PTL
----------------------------------------------------------------------------
(* The characters and the modifiers in the server *)

\* In each of the four states, what the program installs stands for the character of
\* the layout.
LEMMA InstalledChar ==
  ASSUME NEW r \in Reversals(KeysymTab),
         NEW l \in [Keycodes -> [Level -> [char : 0 .. Max16, dead : BOOLEAN]]],
         NEW i \in Keycodes \ Blacklist, NEW j \in Level,
         l[i][j].char \notin {NoChar, FunctionKey}
  PROVE  LET shown == Shown(ReadSystemKeymap(l, r)[i], j) IN
         \/ \E c \in Chars(shown) : Lower(c) = Lower(l[i][j].char)
         \/ /\ i \in DOMAIN KnownNumericKeys
            /\ ToUcs(KeysymTab, KnownNumericKeys[i]) = l[i][j].char
            /\ shown = Keypad(KnownNumericKeys[i])
<1> DEFINE k == [h \in Level |-> Glyph(l[i][h], r)]
           m == DropBlacklisted(i, FixKeypad(i, FillMissing(i, Normalise(k))))
           v == Shown(m, j)
           t == l[i][j]
           s == Glyph(t, r)
<1>1. ReadSystemKeymap(l, r)[i] = m
  BY DEF ReadSystemKeymap
<1>2. t \in [char : 0 .. Max16, dead : BOOLEAN]
  OBVIOUS
<1>3. k \in [Level -> Nat] /\ k[j] = s /\ s # NoSymbol
  <2>1. \A h \in Level : Glyph(l[i][h], r) \in Nat
    BY GlyphKind
  <2>2. s # NoSymbol
    BY <1>2, GlyphKind
  <2> HIDE DEF NoSymbol
  <2> QED BY <2>1, <2>2
<1> HIDE DEF k
<1>4. \/ v \in Nat /\ (v = s \/ (IsLetter(s) /\ Lower(v) = Lower(s)))
      \/ /\ i \in DOMAIN KnownNumericKeys /\ s = KnownNumericKeys[i]
         /\ v = Keypad(KnownNumericKeys[i])
  BY <1>3, FixedShown
<1> HIDE DEF m
<1>5. CASE v \in Nat /\ (v = s \/ (IsLetter(s) /\ Lower(v) = Lower(s)))
  <2> HIDE DEF v
  <2>1. \E c \in Chars(v) : Lower(c) = Lower(t.char)
    BY <1>2, <1>5, ShownChar
  <2> QED BY <1>1, <2>1 DEF v
<1>6. CASE /\ i \in DOMAIN KnownNumericKeys /\ s = KnownNumericKeys[i]
           /\ v = Keypad(KnownNumericKeys[i])
  <2>1. s \in (42 .. 61) \cup {Direct + 3}
    BY <1>6, NumericKeys
  <2>2. ~(s > 255 /\ s < Direct)
    BY <2>1, DirectBound
  <2>3. ToUcs(KeysymTab, s) = t.char
    <3> HIDE DEF s, t
    <3>1. \/ ~IsDead(s) /\ ToUcs(KeysymTab, s) = t.char
          \/ s > 255 /\ s < Direct
      BY <1>2, GlyphKind DEF s, t
    <3> QED BY <2>2, <3>1
  <2> HIDE DEF v, s
  <2> QED BY <1>1, <1>6, <2>3 DEF v
<1> QED BY <1>4, <1>5, <1>6

\* For any table, any layouts and any order qsort leaves, every entry of an installed map
\* stands for the layout's characters in its four states, of which the first two are typed.
THEOREM GlyphsInstalledCorrect == KbSpec => GlyphsInstalled
<1> DEFINE Installed ==
      serverMap' # serverMap /\ layout # NoLayout =>
       \A i \in Keycodes \ Blacklist, j \in Level :
         LET char == Layouts[layout][i][j].char
             shown == Shown(serverMap'[i], j)
         IN char \notin {NoChar, FunctionKey} =>
              \/ \E c \in Chars(shown) : Lower(c) = Lower(char)
              \/ /\ i \in DOMAIN KnownNumericKeys
                 /\ ToUcs(KeysymTab, KnownNumericKeys[i]) = char
                 /\ shown = Keypad(KnownNumericKeys[i])
<1>1. KbInv /\ [KbNext]_kbVars => Installed
  <2> SUFFICES ASSUME KbInv, [KbNext]_kbVars, serverMap' # serverMap, layout # NoLayout,
                      NEW i \in Keycodes \ Blacklist, NEW j \in Level,
                      Layouts[layout][i][j].char \notin {NoChar, FunctionKey}
               PROVE  LET shown == Shown(serverMap'[i], j) IN
                      \/ \E c \in Chars(shown) : Lower(c) = Lower(Layouts[layout][i][j].char)
                      \/ /\ i \in DOMAIN KnownNumericKeys
                         /\ ToUcs(KeysymTab, KnownNumericKeys[i]) = Layouts[layout][i][j].char
                         /\ shown = Keypad(KnownNumericKeys[i])
    OBVIOUS
  <2>1. tool = "read" /\ serverMap' = keyMap
    BY DEF KbNext, Xtoq, ReSync, ChangeKeyboardMapping, SetModifierMapping, kbVars, serverVars
  <2>2. /\ reversed \in Reversals(KeysymTab) /\ layout \in DOMAIN Layouts
        /\ keyMap = ReadSystemKeymap(Layouts[layout], reversed)
    BY <2>1 DEF KbInv, KbTypeOK, MapRead
  <2>3. Layouts[layout] \in [Keycodes -> [Level -> [char : 0 .. Max16, dead : BOOLEAN]]]
    BY <2>2, LayoutsAssumption
  <2> QED BY <2>1, <2>2, <2>3, InstalledChar
<1>2. KbInv /\ [KbNext]_kbVars => [Installed]_kbVars
  BY <1>1
<1> QED BY <1>2, KbInvHolds, PTL DEF KbSpec, GlyphsInstalled

----------------------------------------------------------------------------
\* The first keysym of a key in the map is one of a modifier only where the
\* program has filled it in.
LEMMA FilledIn ==
  ASSUME NEW r \in Reversals(KeysymTab),
         NEW l \in [Keycodes -> [Level -> [char : 0 .. Max16, dead : BOOLEAN]]],
         NEW i \in Keycodes, NEW x \in ModifierNames,
         ReadSystemKeymap(l, r)[i][1] \in ModifierKeysyms[x]
  PROVE  i \in DOMAIN KnownKeys /\ KnownKeys[i] \in ModifierKeysyms[x]
<1> DEFINE k == [h \in Level |-> Glyph(l[i][h], r)]
           n == Normalise(k)
           f == FillMissing(i, n)
           p == FixKeypad(i, f)
           d == DropBlacklisted(i, p)
<1>1. d[1] \in ModifierKeysyms[x]
  BY DEF ReadSystemKeymap
<1>2. k \in [Level -> Nat] /\ k[1] \notin ModifierKeysyms[x]
  <2>1. \A h \in Level : Glyph(l[i][h], r) \in Nat /\ Glyph(l[i][h], r) \notin ModifierKeysyms[x]
    BY GlyphKind
  <2> QED BY <2>1, FourLevels
<1> HIDE DEF k
<1>3. n \in [Level -> Nat] /\ n[1] \notin ModifierKeysyms[x]
  BY <1>2, NormalForm
<1> HIDE DEF n
<1>4. NoSymbol \notin ModifierKeysyms[x]
  BY ModifierSyms
<1> HIDE DEF p
<1>5. p[1] \in ModifierKeysyms[x]
  <2>1. NoGlyphs[1] = NoSymbol
    BY FourLevels DEF NoGlyphs
  <2> HIDE DEF NoSymbol
  <2> QED BY <1>1, <1>4, <2>1 DEF DropBlacklisted
<1>6. f \in [Level -> Nat]
  BY <1>3, KnownKeysyms DEF FillMissing
<1> HIDE DEF f
<1>7. f[1] \in ModifierKeysyms[x]
  <2>1. CASE i \in DOMAIN KnownNumericKeys /\ f[1] = KnownNumericKeys[i]
    <3>1. p[1] = Keypad(KnownNumericKeys[i])
      BY <1>6, <2>1, FourLevels DEF p, FixKeypad
    <3>2. \A m \in ModifierNames : Keypad(KnownNumericKeys[i]) \notin ModifierKeysyms[m]
      BY <2>1, NumericKeys
    <3> QED BY <1>5, <3>1, <3>2
  <2>2. CASE ~(i \in DOMAIN KnownNumericKeys /\ f[1] = KnownNumericKeys[i])
    BY <1>5, <2>2 DEF p, FixKeypad
  <2> QED BY <2>1, <2>2
<1>8. i \in DOMAIN KnownKeys /\ f[1] = KnownKeys[i]
  BY <1>3, <1>7, FourLevels DEF f, FillMissing
<1> QED BY <1>7, <1>8

\* A modifier key to which the layout gives no character has its own keysym.
LEMMA ModifierFilled ==
  ASSUME NEW r \in Reversals(KeysymTab),
         NEW l \in [Keycodes -> [Level -> [char : 0 .. Max16, dead : BOOLEAN]]],
         NEW i \in Keycodes, NEW x \in ModifierNames, i \in DOMAIN KnownKeys,
         KnownKeys[i] \in ModifierKeysyms[x], \A j \in Level : l[i][j].char = NoChar
  PROVE  ReadSystemKeymap(l, r)[i][1] = KnownKeys[i]
<1> DEFINE k == [h \in Level |-> Glyph(l[i][h], r)]
           n == Normalise(k)
           f == FillMissing(i, n)
<1>1. k \in [Level -> Nat] /\ \A j \in Level : k[j] = NoSymbol
  <2>1. \A h \in Level : Glyph(l[i][h], r) = NoSymbol
    BY DEF Glyph
  <2>2. NoSymbol \in Nat
    BY DEF NoSymbol
  <2> HIDE DEF NoSymbol
  <2> QED BY <2>1, <2>2
<1>2. n = NoGlyphs
  <2> HIDE DEF k
  <2>1. n \in [Level -> Nat] /\ \A j \in Level : n[j] = NoSymbol
    BY <1>1, NormalForm, FourLevels DEF Level
  <2> HIDE DEF n
  <2> QED BY <2>1 DEF NoGlyphs
<1> HIDE DEF n
<1>3. f[1] = KnownKeys[i]
  BY <1>2, FourLevels DEF FillMissing, NoGlyphs
<1> HIDE DEF f
<1>4. KnownKeys[i] > 255 /\ KnownKeys[i] < Direct /\ KnownKeys[i] \in Nat
  BY ModifierSyms
<1>5. FixKeypad(i, f) = f
  <2> SUFFICES ASSUME i \in DOMAIN KnownNumericKeys, KnownKeys[i] = KnownNumericKeys[i]
               PROVE  FALSE
    BY <1>3 DEF FixKeypad
  <2>1. KnownNumericKeys[i] \in (42 .. 61) \cup {Direct + 3}
    BY NumericKeys
  <2> QED BY <1>4, <2>1, DirectBound
<1>6. i \notin Blacklist
  <2>1. \A row \in KnownKeyRows : row[1] \notin Blacklist
    BY SMT DEF KnownKeyRows, Blacklist
  <2>2. \E row \in KnownKeyRows : row[1] = i
    BY TableRows DEF KnownKeys
  <2> QED BY <2>1, <2>2
<1>7. ReadSystemKeymap(l, r)[i] = f
  BY <1>5, <1>6 DEF ReadSystemKeymap, DropBlacklisted, f, n
<1> QED BY <1>3, <1>7

\* No modifier with a flag has more than the two keys the modifier map has room for.
LEMMA TwoKeys ==
  ASSUME NEW flag \in DOMAIN XModifier
  PROVE  /\ XModifier[flag] \in ModifierNames
         /\ \E a, b \in Nat : \A i \in DOMAIN KnownKeys :
              KnownKeys[i] \in ModifierKeysyms[XModifier[flag]] => i \in {a, b}
<1> DEFINE pair == IF flag = "Shift" THEN <<56, 60>> ELSE IF flag = "Control" THEN <<59, 62>>
                   ELSE IF flag = "Alternate" THEN <<58, 61>> ELSE <<55, 63>>
           syms == IF flag = "Shift" THEN {Shift_L, Shift_R}
                   ELSE IF flag = "Control" THEN {Control_L, Control_R}
                   ELSE IF flag = "Alternate" THEN {Alt_L, Alt_R} ELSE {Meta_L, Meta_R}
<1>1. XModifier[flag] \in ModifierNames /\ ModifierKeysyms[XModifier[flag]] = syms
  BY DEF XModifier, ModifierNames, ModifierKeysyms
<1>2. \A row \in KnownKeyRows : row[2] \in syms => row[1] \in {pair[1], pair[2]}
  BY SMTT(30) DEF KnownKeyRows, XK_F, Meta_L, Shift_L, Caps_Lock, Alt_L, Control_L, Shift_R,
     Alt_R, Control_R, Meta_R
<1>3. pair[1] \in Nat /\ pair[2] \in Nat
  OBVIOUS
<1>4. \A i \in DOMAIN KnownKeys : \E row \in KnownKeyRows : row[1] = i /\ KnownKeys[i] = row[2]
  BY TableRows DEF KnownKeys
<1> HIDE DEF syms, pair
<1> QED BY <1>1, <1>2, <1>3, <1>4

\* Of two keys, less than two come before one of them.
LEMMA RoomForBoth ==
  ASSUME NEW a, NEW b, NEW c \in {a, b}, NEW S, S \subseteq {a, b}, c \notin S
  PROVE  Cardinality(S) < KeysPerModifier
<1>1. PICK y : S \subseteq {y}
  OBVIOUS
<1>2. IsFiniteSet({y}) /\ Cardinality({y}) = 1
  BY FS_Singleton
<1>3. IsFiniteSet(S) /\ Cardinality(S) <= 1
  BY <1>1, <1>2, FS_Subset
<1>4. Cardinality(S) \in Nat
  BY <1>3, FS_CardinalityType
<1> QED BY <1>3, <1>4 DEF KeysPerModifier

\* In a map that has the keysym of a modifier only where it has been filled in,
\* a key with that keysym is in the modifier map.
LEMMA HasRoom ==
  ASSUME NEW map, NEW flag \in DOMAIN XModifier, NEW m \in Keycodes,
         \A i \in Keycodes : map[i][1] \in ModifierKeysyms[XModifier[flag]] =>
           i \in DOMAIN KnownKeys /\ KnownKeys[i] \in ModifierKeysyms[XModifier[flag]],
         map[m][1] \in ModifierKeysyms[XModifier[flag]]
  PROVE  MinKeycode + m \in ModKeymap(map)[XModifier[flag]]
<1> DEFINE keys == {i \in Keycodes : map[i][1] \in ModifierKeysyms[XModifier[flag]]}
           before == {i \in keys : i < m}
<1>1. PICK a, b \in Nat : \A i \in DOMAIN KnownKeys :
              KnownKeys[i] \in ModifierKeysyms[XModifier[flag]] => i \in {a, b}
  BY TwoKeys
<1>2. keys \subseteq {a, b} /\ m \in keys
  BY <1>1
<1>3. m \in Nat /\ m \notin before
  BY <1>1, <1>2
<1>4. Cardinality(before) < KeysPerModifier
  <2>1. m \in {a, b} /\ before \subseteq {a, b}
    BY <1>2
  <2> HIDE DEF before
  <2> QED BY <1>3, <2>1, RoomForBoth
<1>5. XModifier[flag] \in ModifierNames
  BY TwoKeys
<1> QED BY <1>2, <1>4, <1>5 DEF ModKeymap

\* For any keys and layouts, the server applies the modifiers the user holds, once the
\* program has installed its modifier map, whether or not its key map, too.
THEOREM ModifiersWorkCorrect == KbSpec => []ModifiersWork
<1>1. KbInv /\ ModifiersAgree => ModifiersWork
  <2> SUFFICES ASSUME KbInv, ModifiersAgree,
                      queue = <<>>, tool = "idle", status = "Success", layout # NoLayout,
                      \A n \in Modifiers, j \in Level : Layouts[layout][n][j].char = NoChar,
                      NEW m \in Modifiers, m \notin missed, MaskOf[m] \in Tested, Lone(m)
               PROVE  m \in held <=> serverMods[XModifier[MaskOf[m]]] \cap down # {}
    BY DEF ModifiersWork
  <2> DEFINE flag == MaskOf[m]
             x == XModifier[flag]
             l == Layouts[layout]
             map == MapRead
  <2>1. /\ reversed \in Reversals(KeysymTab)
        /\ l \in [Keycodes -> [Level -> [char : 0 .. Max16, dead : BOOLEAN]]]
        /\ map = ReadSystemKeymap(l, reversed) /\ serverMods = ModKeymap(map)
    BY LayoutsAssumption DEF KbInv, KbTypeOK, MapRead, ModsRead
  <2>2. flag \in DOMAIN XModifier /\ x \in ModifierNames
    BY TwoKeys DEF Tested, XModifier
  <2> HIDE DEF flag, x, l, map
  <2>3. \A i \in Keycodes : map[i][1] \in ModifierKeysyms[x] =>
          i \in DOMAIN KnownKeys /\ KnownKeys[i] \in ModifierKeysyms[x]
    BY <2>1, <2>2, FilledIn
  <2>4. /\ m \in Keycodes /\ m \in DOMAIN KnownKeys
        /\ KnownKeys[m] \in ModifierKeysyms[x]
    BY <2>2, ModifiersAssumption DEF flag, x
  <2>5. map[m][1] = KnownKeys[m]
    <3>1. \A j \in Level : l[m][j].char = NoChar
      BY DEF l
    <3> QED BY <2>1, <2>2, <2>4, <3>1, ModifierFilled
  <2>6. MinKeycode + m \in serverMods[x]
    BY <2>1, <2>2, <2>3, <2>4, <2>5, HasRoom DEF x
  <2>7. Code(m) = MinKeycode + m
    BY KeysAssumption DEF Code, KeycodeOffset, MinKeycode
  <2>8. /\ Code(m) \in down => m \in held
        /\ m \in held => Code(m) \in down
    BY DEF ModifiersAgree
  <2>9. ASSUME NEW c \in serverMods[x], c \in down
        PROVE  c = Code(m)
    <3>1. PICK i \in Keycodes : c = MinKeycode + i /\ map[i][1] \in ModifierKeysyms[x]
      BY <2>1, <2>2 DEF ModKeymap
    <3>2. PICK y \in Inputs : c = Code(y)
      BY <2>9 DEF KbInv, KbTypeOK, TypeOK
    <3>3. i \in Nat
      BY KeycodesAssumption
    <3>4. y \in Keys \cup Modifiers /\ y = i
      BY <3>1, <3>2, <3>3, KeysAssumption DEF Code, KeycodeOffset, MinKeycode, Inputs
    <3>5. i \in DOMAIN KnownKeys /\ KnownKeys[i] \in ModifierKeysyms[x]
      BY <2>3, <3>1
    <3>6. y \in Modifiers
      BY <2>2, <3>4, <3>5, ModifiersAssumption
    <3>7. MaskOf[y] = flag
      BY <2>2, <3>4, <3>5, <3>6, ModifiersAssumption DEF x
    <3> QED BY <3>2, <3>6, <3>7 DEF Lone, flag
  <2>10. x = XModifier[MaskOf[m]]
    BY DEF x, flag
  <2> QED BY <2>6, <2>7, <2>8, <2>9, <2>10
<1>2. KbSpec => []ModifiersAgree
  BY KbImplementsInput, ModifiersAgreeCorrect, PTL
<1> QED BY <1>1, <1>2, KbInvHolds, PTL

\* The server has no key stuck, whatever the keymap program does meanwhile.
THEOREM KbNoStuckKey == KbSpec => []NoStuckKey /\ []ModifiersAgree
BY KbImplementsInput, NoStuckKeyCorrect, ModifiersAgreeCorrect, PTL
=============================================================================
