-------------------------- MODULE EvaluationProofs --------------------------
(***************************************************************************)
(* What an evaluation keeps of its evidence, what it may spend, and what a *)
(* report that nobody looks at is worth: for every number of criteria and  *)
(* of runs, every rule pack, every index and every budget.                 *)
(*                                                                         *)
(* Sums come first, and orders: Sorted lists a finite set by rank, since   *)
(* ranks are numbers 0 to n - 1 and no two members share one.  Then the    *)
(* evidence of a criterion, step by step (Ranked, DedupByDocument, Packed),*)
(* and the loop that packs the report, with what it keeps true after each  *)
(* reference (Considered).  What is proved by induction is proved of a set *)
(* of numbers, with the well-foundedness of < (Induction).                 *)
(***************************************************************************)
EXTENDS Evaluation, FiniteSetTheorems, SequenceTheorems, WellFoundedInduction, TLAPS

TrackerType == [total : Nat, degraded : BOOLEAN, blocked : BOOLEAN]

-----------------------------------------------------------------------------
(* Induction, and sums *)

\* Induction with a set for the induction hypothesis.
LEMMA Induction ==
    ASSUME NEW S, 0 \in S, \A n \in Nat : n \in S => n + 1 \in S
    PROVE  \A n \in Nat : n \in S
<1> DEFINE Less == {pair \in Nat \X Nat : pair[1] < pair[2]}
           Out == Nat \ S
<1> SUFFICES ASSUME Out # {} PROVE FALSE
  OBVIOUS
<1>1. PICK b \in Out : \A c \in Out : <<c, b>> \notin Less
  <2>1. IsWellFoundedOn(Less, Nat)
    BY NatLessThanWellFounded, Zenon DEF OpToRel
  <2> QED
    BY <2>1, WFMin
<1>2. b - 1 \in Nat /\ b - 1 \notin Out
  <2>1. b - 1 \in Nat
    BY 0 \in S
  <2>2. SUFFICES ASSUME b - 1 \in Out PROVE FALSE
    BY <2>1
  <2>3. <<b - 1, b>> \in Nat \X Nat /\ <<b - 1, b>>[1] = b - 1 /\ <<b - 1, b>>[2] = b
    BY <2>1
  <2>4. <<b - 1, b>> \in Less
    BY <2>1, <2>3
  <2> QED
    BY <1>1, <2>2, <2>4
<1> QED
  BY <1>2

\* The recursive function of SumTo exists.
LEMMA SumExists ==
    ASSUME NEW f, NEW n \in Nat
    PROVE  \E h : h = [k \in 0..n |-> IF k = 0 THEN 0 ELSE h[k - 1] + f[k]]
<1> DEFINE Good == {m \in Nat : \E h : h = [k \in 0..m |-> IF k = 0 THEN 0 ELSE h[k - 1] + f[k]]}
<1>1. 0 \in Good
  <2> DEFINE h == [k \in 0..0 |-> 0]
  <2>1. h = [k \in 0..0 |-> IF k = 0 THEN 0 ELSE h[k - 1] + f[k]]
    OBVIOUS
  <2> HIDE DEF h
  <2> QED
    BY <2>1
<1>2. ASSUME NEW m \in Nat, m \in Good PROVE m + 1 \in Good
  <2>1. PICK g : g = [k \in 0..m |-> IF k = 0 THEN 0 ELSE g[k - 1] + f[k]]
    BY <1>2
  <2> DEFINE h == [k \in 0..(m + 1) |-> IF k = m + 1 THEN g[m] + f[m + 1] ELSE g[k]]
  <2>2. \A k \in 0..m : h[k] = g[k]
    OBVIOUS
  <2>3. \A k \in 0..m : g[k] = IF k = 0 THEN 0 ELSE g[k - 1] + f[k]
    BY <2>1
  <2>4. \A k \in 0..(m + 1) : h[k] = IF k = 0 THEN 0 ELSE h[k - 1] + f[k]
    <3> SUFFICES ASSUME NEW k \in 0..(m + 1)
                 PROVE  h[k] = IF k = 0 THEN 0 ELSE h[k - 1] + f[k]
      OBVIOUS
    <3>1. CASE k = m + 1
      BY <2>2, <3>1
    <3>2. CASE k \in 0..m
      <4>1. k # 0 => k - 1 \in 0..m
        BY <3>2
      <4> QED
        BY <2>2, <2>3, <3>2, <4>1
    <3> QED
      BY <3>1, <3>2
  <2>5. h = [k \in 0..(m + 1) |-> h[k]]
    OBVIOUS
  <2> HIDE DEF h
  <2>6. h = [k \in 0..(m + 1) |-> IF k = 0 THEN 0 ELSE h[k - 1] + f[k]]
    BY <2>4, <2>5
  <2> QED
    BY <2>6
<1> HIDE DEF Good
<1>3. n \in Good
  BY <1>1, <1>2, Induction
<1> QED
  BY <1>3 DEF Good

\* What SumTo computes.
LEMMA SumDef ==
    ASSUME NEW f
    PROVE  /\ SumTo(f, 0) = 0
           /\ \A n \in Nat : SumTo(f, n + 1) = SumTo(f, n) + f[n + 1]
<1> DEFINE Is(h, n) == h = [k \in 0..n |-> IF k = 0 THEN 0 ELSE h[k - 1] + f[k]]
<1>1. ASSUME NEW n \in Nat PROVE \E h : Is(h, n) /\ SumTo(f, n) = h[n]
  <2> DEFINE h == CHOOSE g : Is(g, n)
  <2>1. Is(h, n)
    BY SumExists
  <2>2. SumTo(f, n) = h[n]
    BY DEF SumTo
  <2> QED
    BY <2>1, <2>2
<1>2. ASSUME NEW n \in Nat, NEW g, NEW h, Is(g, n), Is(h, n + 1)
      PROVE  \A k \in 0..n : g[k] = h[k]
  <2> DEFINE Same == {k \in Nat : k <= n => g[k] = h[k]}
  <2>1. \A k \in 0..n : g[k] = IF k = 0 THEN 0 ELSE g[k - 1] + f[k]
    BY <1>2
  <2>2. \A k \in 0..(n + 1) : h[k] = IF k = 0 THEN 0 ELSE h[k - 1] + f[k]
    BY <1>2
  <2> HIDE DEF Is
  <2>3. 0 \in Same
    BY <2>1, <2>2
  <2>4. ASSUME NEW k \in Nat, k \in Same PROVE k + 1 \in Same
    <3> SUFFICES ASSUME k + 1 <= n PROVE g[k + 1] = h[k + 1]
      OBVIOUS
    <3>1. k + 1 \in 0..n /\ k + 1 \in 0..(n + 1) /\ (k + 1) - 1 = k /\ k + 1 # 0
      OBVIOUS
    <3>2. g[k] = h[k]
      BY <2>4
    <3> QED
      BY <2>1, <2>2, <3>1, <3>2
  <2> HIDE DEF Same
  <2>5. \A k \in Nat : k \in Same
    BY <2>3, <2>4, Induction
  <2> QED
    BY <2>5 DEF Same
<1>3. SumTo(f, 0) = 0
  <2>1. PICK h : Is(h, 0) /\ SumTo(f, 0) = h[0]
    BY <1>1
  <2> QED
    BY <2>1
<1>4. ASSUME NEW n \in Nat PROVE SumTo(f, n + 1) = SumTo(f, n) + f[n + 1]
  <2>1. PICK g : Is(g, n) /\ SumTo(f, n) = g[n]
    BY <1>1
  <2>2. PICK h : Is(h, n + 1) /\ SumTo(f, n + 1) = h[n + 1]
    BY <1>1
  <2>3. h[n + 1] = h[n] + f[n + 1]
    BY <2>2
  <2>4. g[n] = h[n]
    <3> HIDE DEF Is
    <3>1. \A k \in 0..n : g[k] = h[k]
      BY <1>2, <2>1, <2>2
    <3> QED
      BY <3>1
  <2>5. SumTo(f, n) = g[n] /\ SumTo(f, n + 1) = h[n + 1]
    BY <2>1, <2>2
  <2> HIDE DEF Is
  <2> QED
    BY <2>3, <2>4, <2>5, Zenon
<1> QED
  BY <1>3, <1>4

\* A sum of integers is an integer, one of numbers a number.
LEMMA SumType ==
    ASSUME NEW n \in Nat, NEW f
    PROVE  /\ (\A k \in 1..n : f[k] \in Int) => SumTo(f, n) \in Int
           /\ (\A k \in 1..n : f[k] \in Nat) => SumTo(f, n) \in Nat
<1> DEFINE Good == {m \in Nat : /\ (\A k \in 1..m : f[k] \in Int) => SumTo(f, m) \in Int
                                /\ (\A k \in 1..m : f[k] \in Nat) => SumTo(f, m) \in Nat}
<1>1. 0 \in Good
  BY SumDef
<1>2. ASSUME NEW m \in Nat, m \in Good PROVE m + 1 \in Good
  <2>1. SumTo(f, m + 1) = SumTo(f, m) + f[m + 1]
    BY SumDef
  <2> QED
    BY <1>2, <2>1
<1> HIDE DEF Good
<1>3. n \in Good
  BY <1>1, <1>2, Induction
<1> QED
  BY <1>3 DEF Good

\* The sum depends on the first n values only, and grows with each of them.
LEMMA SumSame ==
    ASSUME NEW n \in Nat, NEW f, NEW g, \A k \in 1..n : f[k] = g[k]
    PROVE  SumTo(f, n) = SumTo(g, n)
<1> DEFINE Good == {m \in Nat : m <= n => SumTo(f, m) = SumTo(g, m)}
<1>1. 0 \in Good
  BY SumDef
<1>2. ASSUME NEW m \in Nat, m \in Good PROVE m + 1 \in Good
  BY <1>2, SumDef
<1> HIDE DEF Good
<1>3. n \in Good
  BY <1>1, <1>2, Induction
<1> QED
  BY <1>3 DEF Good

LEMMA SumGrows ==
    ASSUME NEW n \in Nat, NEW f, NEW g,
           \A k \in 1..n : f[k] \in Int /\ g[k] \in Int /\ f[k] <= g[k]
    PROVE  SumTo(f, n) <= SumTo(g, n)
<1> DEFINE Good == {m \in Nat : m <= n => SumTo(f, m) <= SumTo(g, m)}
<1>1. 0 \in Good
  BY SumDef
<1>2. ASSUME NEW m \in Nat, m \in Good PROVE m + 1 \in Good
  <2> SUFFICES ASSUME m + 1 <= n PROVE SumTo(f, m + 1) <= SumTo(g, m + 1)
    OBVIOUS
  <2>1. SumTo(f, m) \in Int /\ SumTo(g, m) \in Int
    BY SumType
  <2>2. SumTo(f, m + 1) = SumTo(f, m) + f[m + 1] /\ SumTo(g, m + 1) = SumTo(g, m) + g[m + 1]
    BY SumDef
  <2>3. f[m + 1] \in Int /\ g[m + 1] \in Int /\ f[m + 1] <= g[m + 1]
    OBVIOUS
  <2> QED
    BY <1>2, <2>1, <2>2, <2>3
<1> HIDE DEF Good
<1>3. n \in Good
  BY <1>1, <1>2, Induction
<1> QED
  BY <1>3 DEF Good

\* One value changes, and the sum by as much.
LEMMA SumChanges ==
    ASSUME NEW n \in Nat, NEW f, NEW g, NEW i \in 1..n,
           \A k \in 1..n : f[k] \in Int /\ g[k] \in Int,
           \A k \in 1..n : k # i => f[k] = g[k]
    PROVE  SumTo(g, n) = SumTo(f, n) + g[i] - f[i]
<1> DEFINE Good == {m \in Nat : (i <= m /\ m <= n) => SumTo(g, m) = SumTo(f, m) + g[i] - f[i]}
<1>1. 0 \in Good
  OBVIOUS
<1>2. ASSUME NEW m \in Nat, m \in Good PROVE m + 1 \in Good
  <2> SUFFICES ASSUME m + 1 <= n, i <= m + 1
               PROVE  SumTo(g, m + 1) = SumTo(f, m + 1) + g[i] - f[i]
    OBVIOUS
  <2>1. SumTo(f, m) \in Int /\ SumTo(g, m) \in Int
    BY SumType
  <2>2. SumTo(f, m + 1) = SumTo(f, m) + f[m + 1] /\ SumTo(g, m + 1) = SumTo(g, m) + g[m + 1]
    BY SumDef
  <2>3. CASE i = m + 1
    <3>1. SumTo(f, m) = SumTo(g, m)
      BY <2>3, SumSame
    <3>2. f[i] \in Int /\ g[i] \in Int
      OBVIOUS
    <3> QED
      BY <2>1, <2>2, <2>3, <3>1, <3>2
  <2>4. CASE i <= m
    <3>1. f[m + 1] = g[m + 1]
      BY <2>4
    <3>2. f[m + 1] \in Int /\ f[i] \in Int /\ g[i] \in Int
      OBVIOUS
    <3> QED
      BY <1>2, <2>1, <2>2, <2>4, <3>1, <3>2
  <2> QED
    BY <2>3, <2>4
<1> HIDE DEF Good
<1>3. n \in Good
  BY <1>1, <1>2, Induction
<1> QED
  BY <1>3 DEF Good

-----------------------------------------------------------------------------
(* Sorted, for an order R on a finite set S *)

Orders(R, S) ==
    /\ \A x \in S : <<x, x>> \notin R
    /\ \A x, y, z \in S : <<x, y>> \in R /\ <<y, z>> \in R => <<x, z>> \in R
    /\ \A x, y \in S : x # y => <<x, y>> \in R \/ <<y, x>> \in R

Under(R, S, x) == {y \in S : <<y, x>> \in R}

\* How many are below x: this numbers the members of S.
LEMMA Ranking ==
    ASSUME NEW S, IsFiniteSet(S), NEW R, Orders(R, S)
    PROVE  /\ \A x \in S : Cardinality(Under(R, S, x)) \in 0..(Cardinality(S) - 1)
           /\ \A x, y \in S : <<x, y>> \in R
                 => Cardinality(Under(R, S, x)) < Cardinality(Under(R, S, y))
           /\ \A k \in 1..Cardinality(S) : \E x \in S : Cardinality(Under(R, S, x)) = k - 1
<1> DEFINE rank == [x \in S |-> Cardinality(Under(R, S, x))]
           n == Cardinality(S)
<1>0. n \in Nat
  BY FS_CardinalityType
<1>1. ASSUME NEW x \in S PROVE IsFiniteSet(Under(R, S, x)) /\ rank[x] \in Nat
  BY FS_Subset, FS_CardinalityType DEF Under
<1>2. ASSUME NEW x \in S PROVE rank[x] \in 0..(n - 1)
  <2>1. Under(R, S, x) \in SUBSET S /\ Under(R, S, x) # S
    BY DEF Under, Orders
  <2>2. rank[x] <= n /\ rank[x] # n
    BY <2>1, FS_Subset
  <2> QED
    BY <1>0, <1>1, <2>2
<1>3. ASSUME NEW x \in S, NEW y \in S, <<x, y>> \in R PROVE rank[x] < rank[y]
  <2>1. Under(R, S, x) \in SUBSET Under(R, S, y) /\ Under(R, S, x) # Under(R, S, y)
    BY <1>3 DEF Under, Orders
  <2>2. rank[x] <= rank[y] /\ rank[x] # rank[y]
    BY <1>1, <2>1, FS_Subset
  <2> QED
    BY <1>1, <2>2
<1>4. rank \in Injection(S, 0..(n - 1))
  <2>1. rank \in [S -> 0..(n - 1)]
    BY <1>2
  <2>2. ASSUME NEW x \in S, NEW y \in S, x # y PROVE rank[x] # rank[y]
    <3>1. <<x, y>> \in R \/ <<y, x>> \in R
      BY <2>2 DEF Orders
    <3> HIDE DEF rank
    <3> QED
      BY <1>1, <1>3, <3>1
  <2> HIDE DEF rank
  <2> QED
    BY <2>1, <2>2 DEF Injection, IsInjective
<1>5. IsFiniteSet(0..(n - 1)) /\ Cardinality(0..(n - 1)) = n
  BY <1>0, FS_Interval
<1>6. rank \in Surjection(S, 0..(n - 1))
  <2> HIDE DEF rank
  <2> QED
    BY <1>4, <1>5, FS_Injection
<1>7. ASSUME NEW k \in 1..n PROVE \E x \in S : rank[x] = k - 1
  <2>1. k - 1 \in 0..(n - 1)
    BY <1>0
  <2> HIDE DEF rank
  <2> QED
    BY <1>6, <2>1 DEF Surjection
<1> QED
  BY <1>2, <1>3, <1>7

\* What is chosen by rank lists S in order.
Lists(o, R, S) ==
    /\ \A k \in 1..Cardinality(S) : o[k] \in S
    /\ \A k, l \in 1..Cardinality(S) : k < l => <<o[k], o[l]>> \in R
    /\ \A x \in S : \E k \in 1..Cardinality(S) : o[k] = x

LEMMA Listing ==
    ASSUME NEW S, IsFiniteSet(S), NEW R, Orders(R, S), NEW o,
           \A k \in 1..Cardinality(S) :
              (\E x \in S : Cardinality(Under(R, S, x)) = k - 1)
                 => o[k] \in S /\ Cardinality(Under(R, S, o[k])) = k - 1
    PROVE  Lists(o, R, S)
<1> DEFINE n == Cardinality(S)
<1>0. n \in Nat
  BY FS_CardinalityType
<1>1. ASSUME NEW k \in 1..n PROVE o[k] \in S /\ Cardinality(Under(R, S, o[k])) = k - 1
  BY Ranking
<1>2. ASSUME NEW k \in 1..n, NEW l \in 1..n, k < l PROVE <<o[k], o[l]>> \in R
  <2>1. Cardinality(Under(R, S, o[k])) = k - 1 /\ Cardinality(Under(R, S, o[l])) = l - 1
    BY <1>1
  <2>2. o[k] # o[l]
    BY <1>2, <2>1
  <2>3. <<o[l], o[k]>> \notin R
    BY <1>1, <1>2, <2>1, Ranking
  <2> QED
    BY <1>1, <2>2, <2>3 DEF Orders
<1>3. ASSUME NEW x \in S PROVE \E k \in 1..n : o[k] = x
  <2> DEFINE k == Cardinality(Under(R, S, x)) + 1
  <2>1. k \in 1..n /\ k - 1 = Cardinality(Under(R, S, x))
    BY <1>0, Ranking
  <2>2. o[k] \in S /\ Cardinality(Under(R, S, o[k])) = Cardinality(Under(R, S, x))
    BY <1>1, <2>1
  <2> HIDE DEF k
  <2>3. o[k] = x
    <3> SUFFICES ASSUME o[k] # x PROVE FALSE
      OBVIOUS
    <3>1. <<o[k], x>> \in R \/ <<x, o[k]>> \in R
      BY <2>2 DEF Orders
    <3>2. \/ Cardinality(Under(R, S, o[k])) < Cardinality(Under(R, S, x))
          \/ Cardinality(Under(R, S, x)) < Cardinality(Under(R, S, o[k]))
      BY <2>2, <3>1, Ranking
    <3> QED
      BY <1>0, <2>1, <2>2, <3>2, Ranking
  <2> QED
    BY <2>1, <2>3
<1> QED
  BY <1>1, <1>2, <1>3 DEF Lists

\* Ascending lists the positions of a sequence in order.
LEMMA AscendingLists ==
    ASSUME NEW n \in Nat, NEW S \in SUBSET (1..n)
    PROVE  /\ IsFiniteSet(S) /\ Cardinality(S) \in 0..n
           /\ \A k \in 1..Cardinality(S) :
                 /\ Ascending(S)[k] \in S
                 /\ Cardinality({y \in S : y < Ascending(S)[k]}) = k - 1
           /\ \A k, l \in 1..Cardinality(S) : k < l => Ascending(S)[k] < Ascending(S)[l]
           /\ \A i \in S : \E k \in 1..Cardinality(S) : Ascending(S)[k] = i
<1> DEFINE R == {pair \in (1..n) \X (1..n) : pair[1] < pair[2]}
           o == Ascending(S)
<1>1. IsFiniteSet(S) /\ Cardinality(S) \in 0..n
  <2>1. IsFiniteSet(1..n) /\ Cardinality(1..n) = n
    BY FS_Interval
  <2>2. IsFiniteSet(S) /\ Cardinality(S) <= n
    BY <2>1, FS_Subset
  <2>3. Cardinality(S) \in Nat
    BY <2>2, FS_CardinalityType
  <2> QED
    BY <2>2, <2>3
<1>2. \A x, y \in 1..n : <<x, y>> \in R <=> x < y
  OBVIOUS
<1> HIDE DEF R
<1>3. Orders(R, S)
  BY <1>2 DEF Orders
<1>4. ASSUME NEW k \in 1..Cardinality(S)
      PROVE  /\ o[k] \in S /\ Cardinality(Under(R, S, o[k])) = k - 1
             /\ Cardinality({y \in S : y < o[k]}) = k - 1
  <2>1. \A x \in S : Under(R, S, x) = {y \in S : y < x}
    BY <1>2 DEF Under
  <2>2. o[k] = CHOOSE x \in S : Cardinality({y \in S : y < x}) = k - 1
    BY DEF Ascending, Sorted
  <2>3. \E x \in S : Cardinality({y \in S : y < x}) = k - 1
    <3>1. PICK x \in S : Cardinality(Under(R, S, x)) = k - 1
      BY <1>1, <1>3, Ranking
    <3> QED
      BY <2>1, <3>1
  <2>4. o[k] \in S /\ Cardinality({y \in S : y < o[k]}) = k - 1
    BY <2>2, <2>3
  <2> QED
    BY <2>1, <2>4
<1> HIDE DEF o
<1>5. Lists(o, R, S)
  BY <1>1, <1>3, <1>4, Listing
<1> QED
  BY <1>1, <1>2, <1>4, <1>5 DEF Lists, o

\* What is picked from a sequence.
LEMMA PickedIs ==
    ASSUME NEW X, NEW s \in Seq(X), NEW S \in SUBSET (1..Len(s))
    PROVE  /\ Picked(s, S) \in Seq(X)
           /\ Len(Picked(s, S)) = Cardinality(S)
           /\ \A k \in 1..Cardinality(S) : Picked(s, S)[k] = s[Ascending(S)[k]]
<1>0. Len(s) \in Nat
  OBVIOUS
<1>1. Cardinality(S) \in 0..Len(s) /\ \A k \in 1..Cardinality(S) : Ascending(S)[k] \in S
  <2> DEFINE n == Len(s)
  <2>1. n \in Nat /\ S \in SUBSET (1..n)
    OBVIOUS
  <2> HIDE DEF n
  <2>2. Cardinality(S) \in 0..n
    BY <2>1, AscendingLists
  <2>3. \A k \in 1..Cardinality(S) : Ascending(S)[k] \in S
    BY <2>1, AscendingLists
  <2> QED
    BY <2>2, <2>3 DEF n
<1>2. \A k \in 1..Cardinality(S) : s[Ascending(S)[k]] \in X
  <2>1. \A i \in 1..Len(s) : s[i] \in X
    OBVIOUS
  <2>2. \A i \in S : i \in 1..Len(s)
    OBVIOUS
  <2> QED
    BY <1>1, <2>1, <2>2
<1>3. Cardinality(S) \in Nat /\ Picked(s, S) = [k \in 1..Cardinality(S) |-> s[Ascending(S)[k]]]
  BY <1>0, <1>1 DEF Picked
<1> QED
  BY <1>2, <1>3

\* Summing what was picked is summing at the positions.
Only(f, S, n) == [i \in 1..n |-> IF i \in S THEN f[i] ELSE 0]

LEMMA PickedSum ==
    ASSUME NEW n \in Nat, NEW S \in SUBSET (1..n), NEW f, NEW g,
           \A i \in 1..n : f[i] \in Int,
           \A k \in 1..Cardinality(S) : g[k] = f[Ascending(S)[k]]
    PROVE  SumTo(g, Cardinality(S)) = SumTo(Only(f, S, n), n)
<1> DEFINE Upto(m) == S \intersect (1..m)
           Good == {m \in Nat : m <= n =>
                       SumTo(g, Cardinality(Upto(m))) = SumTo(Only(f, S, n), m)}
<1>0. /\ IsFiniteSet(S) /\ Cardinality(S) \in 0..n
      /\ \A k \in 1..Cardinality(S) :
            /\ Ascending(S)[k] \in S
            /\ Cardinality({y \in S : y < Ascending(S)[k]}) = k - 1
      /\ \A i \in S : \E k \in 1..Cardinality(S) : Ascending(S)[k] = i
  BY AscendingLists
<1>1. 0 \in Good
  <2>1. Upto(0) = {}
    OBVIOUS
  <2> QED
    BY <2>1, FS_EmptySet, SumDef
<1>2. ASSUME NEW m \in Nat, m \in Good PROVE m + 1 \in Good
  <2> SUFFICES ASSUME m + 1 <= n
               PROVE  SumTo(g, Cardinality(Upto(m + 1))) = SumTo(Only(f, S, n), m + 1)
    OBVIOUS
  <2>1. SumTo(g, Cardinality(Upto(m))) = SumTo(Only(f, S, n), m)
    BY <1>2
  <2>2. SumTo(Only(f, S, n), m + 1) = SumTo(Only(f, S, n), m) + Only(f, S, n)[m + 1]
    BY SumDef
  <2>3. Only(f, S, n)[m + 1] = IF m + 1 \in S THEN f[m + 1] ELSE 0
    BY DEF Only
  <2>4. SumTo(Only(f, S, n), m) \in Int
    <3>1. \A k \in 1..m : Only(f, S, n)[k] \in Int
      BY DEF Only
    <3> QED
      BY <3>1, SumType
  <2>5. CASE m + 1 \notin S
    <3>1. Upto(m + 1) = Upto(m)
      BY <2>5
    <3> QED
      BY <2>1, <2>2, <2>3, <2>4, <2>5, <3>1
  <2>6. CASE m + 1 \in S
    <3>1. PICK k \in 1..Cardinality(S) : Ascending(S)[k] = m + 1
      BY <1>0, <2>6
    <3>2. {y \in S : y < m + 1} = Upto(m)
      <4>1. \A y \in S : y < m + 1 <=> y \in 1..m
        OBVIOUS
      <4> QED
        BY <4>1
    <3>3. Cardinality(Upto(m)) = k - 1
      BY <1>0, <3>1, <3>2
    <3>4. IsFiniteSet(S)
      BY <1>0
    <3>5. IsFiniteSet(Upto(m))
      BY <3>4, FS_Subset
    <3>6. Upto(m + 1) = Upto(m) \union {m + 1} /\ m + 1 \notin Upto(m)
      BY <2>6
    <3>7. Cardinality(Upto(m + 1)) = k
      <4>1. Cardinality(S) \in Nat
        BY <1>0
      <4> HIDE DEF Upto
      <4>2. Cardinality(Upto(m + 1)) = Cardinality(Upto(m)) + 1
        BY <3>5, <3>6, FS_AddElement
      <4> QED
        BY <3>3, <4>1, <4>2
    <3>8. SumTo(g, k) = SumTo(g, k - 1) + g[k]
      <4>1. k - 1 \in Nat /\ (k - 1) + 1 = k
        BY <1>0
      <4> QED
        BY <4>1, SumDef
    <3>9. g[k] = f[m + 1]
      BY <3>1
    <3> HIDE DEF Upto
    <3> QED
      BY <2>1, <2>2, <2>3, <2>6, <3>3, <3>7, <3>8, <3>9
  <2> QED
    BY <2>5, <2>6
<1> HIDE DEF Good
<1>3. n \in Good
  BY <1>1, <1>2, Induction
<1>4. Upto(n) = S
  OBVIOUS
<1> QED
  BY <1>3, <1>4 DEF Good

-----------------------------------------------------------------------------
(* TrimToBudget *)

\* Ranking puts the best item first and cuts at the maximum.
LEMMA RankedIs ==
    ASSUME NEW ev \in Seq(Items)
    PROVE  /\ Ranked(ev) \in Seq(Items)
           /\ Len(Ranked(ev)) = Least(Len(ev), MaxEvidence)
           /\ ev # <<>> =>
                 \A j \in 1..Len(ev) : ev[j].score <= Ranked(ev)[1].score
<1> DEFINE n == Len(ev)
           S == 1..n
           Better(i, j) == \/ ev[i].score > ev[j].score
                           \/ ev[i].score = ev[j].score /\ i < j
           R == {pair \in S \X S : Better(pair[1], pair[2])}
           o == [k \in 1..Cardinality(S) |->
                    CHOOSE x \in S : Cardinality({y \in S : Better(y, x)}) = k - 1]
           r == [k \in 1..Least(n, MaxEvidence) |-> ev[o[k]]]
<1>1. Ranked(ev) = r
  <2>1. DOMAIN ev = S
    OBVIOUS
  <2> QED
    BY <2>1 DEF Ranked, Sorted
<1>2. n \in Nat /\ \A i \in S : ev[i] \in Items /\ ev[i].score \in Int
  <2>1. n \in Nat /\ \A i \in S : ev[i] \in Items
    OBVIOUS
  <2> QED
    BY <2>1 DEF Items
<1>3. IsFiniteSet(S) /\ Cardinality(S) = n
  <2> HIDE DEF n
  <2> QED
    BY <1>2, FS_Interval
<1>4. \A x, y \in S : <<x, y>> \in R <=> Better(x, y)
  OBVIOUS
<1>5. Orders(R, S)
  <2>1. \A x \in S : ~Better(x, x)
    BY <1>2
  <2>2. \A x, y, z \in S : Better(x, y) /\ Better(y, z) => Better(x, z)
    BY <1>2
  <2>3. \A x, y \in S : x # y => Better(x, y) \/ Better(y, x)
    BY <1>2
  <2> HIDE DEF R, Better, S
  <2> QED
    BY <1>4, <2>1, <2>2, <2>3 DEF Orders
<1>6. ASSUME NEW k \in 1..Cardinality(S)
      PROVE  o[k] \in S /\ Cardinality(Under(R, S, o[k])) = k - 1
  <2> HIDE DEF R, Better, S
  <2>1. \A x \in S : Under(R, S, x) = {y \in S : Better(y, x)}
    BY <1>4 DEF Under
  <2>2. PICK x \in S : Cardinality(Under(R, S, x)) = k - 1
    BY <1>3, <1>5, Ranking
  <2>3. \E z \in S : Cardinality({y \in S : Better(y, z)}) = k - 1
    BY <2>1, <2>2
  <2>4. o[k] = CHOOSE z \in S : Cardinality({y \in S : Better(y, z)}) = k - 1
    OBVIOUS
  <2>5. o[k] \in S /\ Cardinality({y \in S : Better(y, o[k])}) = k - 1
    BY <2>3, <2>4
  <2> QED
    BY <2>1, <2>5
<1>7. Least(n, MaxEvidence) \in 0..n
  BY <1>2, BudgetAssumption DEF Least
<1>8. r \in Seq(Items) /\ Len(r) = Least(n, MaxEvidence)
  <2> HIDE DEF o, n, S
  <2>1. \A k \in 1..Least(n, MaxEvidence) : k \in 1..Cardinality(S)
    BY <1>2, <1>3, <1>7
  <2>2. \A k \in 1..Least(n, MaxEvidence) : o[k] \in S
    BY <1>6, <2>1
  <2>3. \A k \in 1..Least(n, MaxEvidence) : ev[o[k]] \in Items
    BY <1>2, <2>2
  <2> QED
    BY <1>7, <2>3
<1>9. ASSUME ev # <<>>, NEW j \in S PROVE ev[j].score <= r[1].score
  <2>0. n # 0
    BY <1>9
  <2>1. 1 \in 1..n /\ 1 \in 1..Least(n, MaxEvidence)
    BY <1>2, <2>0, BudgetAssumption DEF Least
  <2>2. o[1] \in S /\ Cardinality(Under(R, S, o[1])) = 0
    <3> HIDE DEF o, n, S, R
    <3>1. 1 \in 1..Cardinality(S)
      BY <1>3, <2>1
    <3> QED
      BY <1>6, <3>1
  <2>3. Under(R, S, o[1]) = {}
    <3>1. IsFiniteSet(Under(R, S, o[1]))
      BY <1>3, FS_Subset DEF Under
    <3> QED
      BY <2>2, <3>1, FS_EmptySet
  <2>4. ~Better(j, o[1])
    <3> HIDE DEF R, Better, S, o
    <3> QED
      BY <1>4, <1>9, <2>2, <2>3 DEF Under
  <2>5. r[1] = ev[o[1]]
    BY <2>1
  <2> HIDE DEF o, r
  <2> QED
    BY <1>2, <2>2, <2>4, <2>5
<1> HIDE DEF r
<1> QED
  BY <1>1, <1>8, <1>9

\* Deduplication keeps the first item, the minimum, and above it one per document.
LEMMA DedupIs ==
    ASSUME NEW r \in Seq(Items)
    PROVE  /\ DedupByDocument(r) \in Seq(Items)
           /\ Len(DedupByDocument(r)) >= Least(Len(r), MinEvidence)
           /\ r # <<>> => Len(DedupByDocument(r)) >= 1 /\ DedupByDocument(r)[1] = r[1]
           /\ Len(DedupByDocument(r)) > MinEvidence =>
                 \A i, j \in 1..Len(DedupByDocument(r)) :
                    i # j /\ DedupByDocument(r)[i].doc = DedupByDocument(r)[j].doc
                       => DedupByDocument(r)[i].doc = None
<1> DEFINE n == Len(r)
           Again(i) == r[i].doc # None /\ \E j \in 1..(i - 1) : r[j].doc = r[i].doc
           K == {i \in 1..n : ~Again(i)}
           D == {i \in 1..n : Again(i)}
           kept == Picked(r, K)
           deferred == Picked(r, D)
           needed == IF Len(kept) < MinEvidence THEN MinEvidence - Len(kept) ELSE 0
           rest == SubSeq(deferred, 1, Least(needed, Len(deferred)))
           d == kept \o rest
<1>1. DedupByDocument(r) = d
  <2>1. DOMAIN r = 1..n
    OBVIOUS
  <2> QED
    BY <2>1 DEF DedupByDocument
<1>2. n \in Nat /\ K \in SUBSET (1..n) /\ D \in SUBSET (1..n)
  OBVIOUS
<1>k. K \union D = 1..n /\ K \intersect D = {}
  OBVIOUS
<1>q. \A p \in K : p \in Nat /\ p >= 1
  OBVIOUS
<1>u. ASSUME NEW p \in K, NEW q \in K, p < q, r[p].doc = r[q].doc PROVE r[q].doc = None
  <2>1. p \in 1..(q - 1)
    BY <1>2, <1>u
  <2> QED
    BY <1>u, <2>1
<1>o. r # <<>> => 1 \in K
  <2>1. r # <<>> => 1 \in 1..n
    OBVIOUS
  <2> QED
    BY <2>1
<1> HIDE DEF K, D, n
<1>3. /\ kept \in Seq(Items) /\ Len(kept) = Cardinality(K)
      /\ \A k \in 1..Cardinality(K) : kept[k] = r[Ascending(K)[k]]
  BY <1>2, PickedIs DEF n
<1>4. deferred \in Seq(Items) /\ Len(deferred) = Cardinality(D)
  BY <1>2, PickedIs DEF n
<1>5. /\ Cardinality(K) \in Nat /\ Cardinality(D) \in Nat
      /\ Cardinality(K) + Cardinality(D) = n
  <2>2. IsFiniteSet(K) /\ Cardinality(K) \in Nat /\ IsFiniteSet(D) /\ Cardinality(D) \in Nat
    <3>1. IsFiniteSet(K) /\ Cardinality(K) \in 0..n
      BY <1>2, AscendingLists
    <3>2. IsFiniteSet(D) /\ Cardinality(D) \in 0..n
      BY <1>2, AscendingLists
    <3> QED
      BY <1>2, <3>1, <3>2
  <2>3. Cardinality(K \union D) = Cardinality(K) + Cardinality(D) - Cardinality(K \intersect D)
    BY <2>2, FS_Union
  <2>4. Cardinality(1..n) = n /\ Cardinality({}) = 0
    BY <1>2, FS_Interval, FS_EmptySet
  <2>5. Cardinality(K \union D) = n /\ Cardinality(K \intersect D) = 0
    BY <1>k, <2>4
  <2> QED
    BY <2>2, <2>3, <2>5
<1> HIDE DEF kept, deferred
<1>6. needed \in Nat /\ Least(needed, Len(deferred)) \in 0..Len(deferred)
  <2>1. Len(kept) \in Nat /\ Len(deferred) \in Nat
    BY <1>3, <1>4, <1>5
  <2>2. needed \in Nat
    BY <2>1, BudgetAssumption
  <2> HIDE DEF needed
  <2> QED
    BY <2>1, <2>2 DEF Least
<1>7. rest \in Seq(Items) /\ Len(rest) = Least(needed, Len(deferred))
  <2>1. Len(deferred) \in Nat
    BY <1>4
  <2> DEFINE m == Least(needed, Len(deferred))
  <2>2. m \in 0..Len(deferred) /\ rest = SubSeq(deferred, 1, m)
    BY <1>6
  <2> HIDE DEF m, needed, rest
  <2>3. rest \in Seq(Items) /\ Len(rest) = m
    BY <1>4, <2>1, <2>2
  <2> QED
    BY <2>3 DEF m
<1> HIDE DEF rest
<1>8. /\ d \in Seq(Items) /\ Len(d) = Len(kept) + Len(rest)
      /\ \A i \in 1..Len(kept) : d[i] = kept[i]
  <2>1. kept \in Seq(Items) /\ rest \in Seq(Items)
    BY <1>3, <1>7
  <2> QED
    BY <2>1
<1> HIDE DEF d
<1>l. /\ Len(kept) \in Nat /\ Len(deferred) \in Nat /\ Len(rest) \in Nat /\ Len(d) \in Nat
      /\ Len(rest) = IF needed <= Len(deferred) THEN needed ELSE Len(deferred)
      /\ needed = (IF Len(kept) < MinEvidence THEN MinEvidence - Len(kept) ELSE 0)
  <2>1. Len(kept) \in Nat /\ Len(deferred) \in Nat /\ Len(rest) \in Nat /\ Len(d) \in Nat
    BY <1>3, <1>4, <1>7, <1>8
  <2> QED
    BY <1>7, <2>1 DEF Least
<1> HIDE DEF needed
<1>9. Len(d) >= Least(n, MinEvidence)
  BY <1>2, <1>3, <1>4, <1>5, <1>8, <1>l, BudgetAssumption DEF Least
<1>10. ASSUME r # <<>> PROVE Len(d) >= 1 /\ d[1] = r[1]
  <2>1. 1 \in K
    BY <1>o, <1>10
  <2>2. PICK k \in 1..Cardinality(K) : Ascending(K)[k] = 1
    <3> QED
      BY <1>2, <2>1, AscendingLists
  <2>3. k = 1
    <3> SUFFICES ASSUME k # 1 PROVE FALSE
      OBVIOUS
    <3>1. 1 \in 1..Cardinality(K) /\ 1 < k
      BY <1>5
    <3>2. Ascending(K)[1] < 1 /\ Ascending(K)[1] \in K
      <4>1. \A p, q \in 1..Cardinality(K) : p < q => Ascending(K)[p] < Ascending(K)[q]
        BY <1>2, AscendingLists
      <4>2. Ascending(K)[1] \in K
        BY <1>2, <3>1, AscendingLists
      <4> QED
        BY <2>2, <3>1, <4>1, <4>2
    <3> QED
      BY <1>q, <3>2
  <2>4. 1 \in 1..Len(kept) /\ kept[1] = r[1]
    BY <1>3, <1>5, <2>2, <2>3
  <2> QED
    BY <1>8, <1>l, <2>4
<1>11. ASSUME Len(d) > MinEvidence, NEW i \in 1..Len(d), NEW j \in 1..Len(d),
              i # j, d[i].doc = d[j].doc
       PROVE  d[i].doc = None
  <2>1. Len(d) = Len(kept) /\ Len(kept) = Cardinality(K)
    BY <1>3, <1>8, <1>11, <1>l, BudgetAssumption
  <2>2. d[i] = r[Ascending(K)[i]] /\ d[j] = r[Ascending(K)[j]]
    BY <1>3, <1>8, <1>11, <2>1
  <2>3. Ascending(K)[i] \in K /\ Ascending(K)[j] \in K /\ Ascending(K)[i] # Ascending(K)[j]
    <3>1. i \in 1..Cardinality(K) /\ j \in 1..Cardinality(K) /\ (i < j \/ j < i)
      BY <1>5, <1>11, <2>1
    <3>2. Ascending(K)[i] \in K /\ Ascending(K)[j] \in K
      BY <1>2, <3>1, AscendingLists
    <3>3. \A p, q \in 1..Cardinality(K) : p < q => Ascending(K)[p] < Ascending(K)[q]
      BY <1>2, AscendingLists
    <3> QED
      BY <1>q, <3>1, <3>2, <3>3
  <2>5. Ascending(K)[i] < Ascending(K)[j] \/ Ascending(K)[j] < Ascending(K)[i]
    BY <1>q, <2>3
  <2> QED
    BY <1>11, <1>u, <2>2, <2>3, <2>5
<1> QED
  BY <1>1, <1>9, <1>8, <1>10, <1>11 DEF n

\* Packing takes a prefix: all, or the minimum at least, within the budget above it.
LEMMA PackedIs ==
    ASSUME NEW ev \in Seq(Items)
    PROVE  \E n \in 0..Len(ev) :
              /\ Packed(ev) = SubSeq(ev, 1, n)
              /\ n = Len(ev) \/ n >= MinEvidence
              /\ n <= MinEvidence \/ TokensOf(SubSeq(ev, 1, n)) <= SingleBudget
<1> DEFINE Fits(n) == n <= MinEvidence \/ TokensOf(SubSeq(ev, 1, n)) <= SingleBudget
           Stops(n) == /\ \A m \in 1..n : Fits(m)
                       /\ n = Len(ev) \/ ~Fits(n + 1)
           n == CHOOSE k \in 0..Len(ev) : Stops(k)
<1>0. Len(ev) \in Nat
  OBVIOUS
<1>1. \E k \in 0..Len(ev) : Stops(k)
  <2> SUFFICES ASSUME \A k \in 0..Len(ev) : ~Stops(k) PROVE FALSE
    OBVIOUS
  <2> DEFINE Good == {k \in Nat : k <= Len(ev) => \A m \in 1..k : Fits(m)}
  <2> HIDE DEF Fits
  <2>1. 0 \in Good
    OBVIOUS
  <2>2. ASSUME NEW k \in Nat, k \in Good PROVE k + 1 \in Good
    <3> SUFFICES ASSUME k + 1 <= Len(ev) PROVE \A m \in 1..(k + 1) : Fits(m)
      OBVIOUS
    <3>1. k \in 0..Len(ev) /\ k # Len(ev) /\ \A m \in 1..k : Fits(m)
      BY <1>0, <2>2
    <3>2. Fits(k + 1)
      BY <3>1
    <3> QED
      BY <3>1, <3>2
  <2> HIDE DEF Good
  <2>3. Len(ev) \in Good
    BY <1>0, <2>1, <2>2, Induction
  <2>4. Stops(Len(ev))
    BY <1>0, <2>3 DEF Good
  <2> QED
    BY <1>0, <2>4
<1>2. n \in 0..Len(ev) /\ Stops(n)
  BY <1>1
<1>3. Packed(ev) = SubSeq(ev, 1, n)
  BY DEF Packed
<1> HIDE DEF n
<1>4. n = Len(ev) \/ n >= MinEvidence
  BY <1>0, <1>2, BudgetAssumption
<1>5. Fits(n)
  <2>1. CASE n = 0
    BY <2>1, BudgetAssumption
  <2>2. CASE n # 0
    <3> HIDE DEF Fits
    <3>1. n \in 1..n
      BY <1>0, <1>2, <2>2
    <3> QED
      BY <1>2, <3>1
  <2> QED
    BY <2>1, <2>2
<1> QED
  BY <1>2, <1>3, <1>4, <1>5

LEMMA TokensType == ASSUME NEW ev \in Seq(Items) PROVE TokensOf(ev) \in Nat
<1>1. \A i \in 1..Len(ev) : [j \in DOMAIN ev |-> ev[j].tokens][i] \in Nat
  <2>1. DOMAIN ev = 1..Len(ev) /\ \A i \in 1..Len(ev) : ev[i] \in Items
    OBVIOUS
  <2>2. \A item \in Items : item.tokens \in Nat
    BY DEF Items
  <2> QED
    BY <2>1, <2>2
<1>2. Len(ev) \in Nat
  OBVIOUS
<1> QED
  BY <1>1, <1>2, SumType DEF TokensOf

\* What TrimToBudget keeps of the evidence of a criterion.
Trimmed(ev, t) ==
    /\ t \in Seq(Items)
    /\ Len(t) <= MinEvidence \/ TokensOf(t) <= SingleBudget
    /\ Len(t) >= Least(Len(ev), MinEvidence)
    /\ ev # <<>> => /\ Len(t) >= 1
                    /\ \A j \in 1..Len(ev) : ev[j].score <= t[1].score
    /\ Len(t) > MinEvidence =>
          \A i, j \in 1..Len(t) : i # j /\ t[i].doc = t[j].doc => t[i].doc = None

\* The evidence of one criterion, after all three.
LEMMA TrimKeeps == ASSUME NEW ev \in Seq(Items) PROVE Trimmed(ev, TrimToBudget(ev))
<1> DEFINE r == Ranked(ev)
           d == DedupByDocument(r)
<1>1. /\ r \in Seq(Items) /\ Len(r) = Least(Len(ev), MaxEvidence)
      /\ ev # <<>> => \A j \in 1..Len(ev) : ev[j].score <= r[1].score
  BY RankedIs
<1> HIDE DEF r
<1>2. /\ d \in Seq(Items) /\ Len(d) >= Least(Len(r), MinEvidence)
      /\ r # <<>> => Len(d) >= 1 /\ d[1] = r[1]
      /\ Len(d) > MinEvidence =>
            \A i, j \in 1..Len(d) : i # j /\ d[i].doc = d[j].doc => d[i].doc = None
  BY <1>1, DedupIs
<1> HIDE DEF d
<1>3. PICK n \in 0..Len(d) :
          /\ Packed(d) = SubSeq(d, 1, n)
          /\ n = Len(d) \/ n >= MinEvidence
          /\ n <= MinEvidence \/ TokensOf(SubSeq(d, 1, n)) <= SingleBudget
  BY <1>2, PackedIs
<1> DEFINE t == SubSeq(d, 1, n)
<1>4. Len(ev) \in Nat /\ Len(r) \in Nat /\ Len(d) \in Nat
  BY <1>1, <1>2
<1>5. /\ t \in Seq(Items) /\ Len(t) = n
      /\ \A i \in 1..n : t[i] = d[i]
  BY <1>2, <1>4
<1> HIDE DEF t
<1>6. Len(t) >= Least(Len(ev), MinEvidence)
  BY <1>1, <1>2, <1>3, <1>4, <1>5, BudgetAssumption DEF Least
<1>7. ASSUME ev # <<>>
      PROVE  Len(t) >= 1 /\ \A j \in 1..Len(ev) : ev[j].score <= t[1].score
  <2>1. Len(ev) >= 1
    BY <1>4, <1>7
  <2>2. Len(r) >= 1
    BY <1>1, <1>4, <2>1, BudgetAssumption DEF Least
  <2>3. r # <<>>
    BY <2>2
  <2>4. Len(d) >= 1 /\ d[1] = r[1]
    BY <1>2, <2>3
  <2>5. n >= 1
    BY <1>3, <2>4, BudgetAssumption
  <2>6. t[1] = d[1]
    BY <1>5, <2>5
  <2> QED
    BY <1>1, <1>5, <1>7, <2>4, <2>5, <2>6
<1>8. ASSUME Len(t) > MinEvidence, NEW i \in 1..Len(t), NEW j \in 1..Len(t),
             i # j, t[i].doc = t[j].doc
      PROVE  t[i].doc = None
  <2>1. Len(d) > MinEvidence /\ i \in 1..Len(d) /\ j \in 1..Len(d)
    BY <1>3, <1>4, <1>5, <1>8, BudgetAssumption
  <2> QED
    BY <1>2, <1>5, <1>8, <2>1
<1>9. TrimToBudget(ev) = t /\ (n <= MinEvidence \/ TokensOf(t) <= SingleBudget)
  BY <1>3 DEF TrimToBudget, t, d, r
<1> QED
  BY <1>5, <1>6, <1>7, <1>8, <1>9 DEF Trimmed

-----------------------------------------------------------------------------
(* ApplyReportBudget: t is the trimmed evidence of the report *)

\* The references of a report.
LEMMA ReferencesAre ==
    ASSUME NEW t \in Seq(Seq(Items))
    PROVE  /\ \A c, i : <<c, i>> \in References(t) <=> c \in 1..Len(t) /\ i \in 1..Len(t[c])
           /\ \A r \in References(t) : r = <<r[1], r[2]>>
           /\ IsFiniteSet(References(t))
<1> DEFINE Of(c) == {<<c, i>> : i \in DOMAIN t[c]}
           f == [c \in 1..Len(t) |-> Of(c)]
           All == {Of(c) : c \in 1..Len(t)}
<1>0. Len(t) \in Nat /\ DOMAIN t = 1..Len(t)
  OBVIOUS
<1>1. ASSUME NEW c \in 1..Len(t) PROVE Len(t[c]) \in Nat /\ DOMAIN t[c] = 1..Len(t[c])
  <2>1. t[c] \in Seq(Items)
    OBVIOUS
  <2> QED
    BY <2>1
<1>2. References(t) = UNION All
  BY <1>0 DEF References
<1>3. \A c, i : <<c, i>> \in UNION All <=> c \in 1..Len(t) /\ i \in 1..Len(t[c])
  BY <1>1
<1>4. \A r \in UNION All : r = <<r[1], r[2]>>
  OBVIOUS
<1>5. ASSUME NEW c \in 1..Len(t) PROVE IsFiniteSet(Of(c))
  <2> DEFINE pair == [i \in 1..Len(t[c]) |-> <<c, i>>]
  <2>1. pair \in Surjection(1..Len(t[c]), Of(c))
    BY <1>1 DEF Surjection
  <2>2. IsFiniteSet(1..Len(t[c]))
    BY <1>1, FS_Interval
  <2> QED
    BY <2>1, <2>2, FS_Surjection
<1>6. IsFiniteSet(All)
  <2> HIDE DEF Of
  <2>1. f \in Surjection(1..Len(t), All)
    BY DEF Surjection
  <2>2. IsFiniteSet(1..Len(t))
    BY <1>0, FS_Interval
  <2> QED
    BY <2>1, <2>2, FS_Surjection
<1>7. IsFiniteSet(UNION All)
  <2>1. \A s \in All : IsFiniteSet(s)
    BY <1>5
  <2> HIDE DEF All
  <2> QED
    BY <1>6, <2>1, FS_UNION
<1> HIDE DEF All
<1> QED
  BY <1>2, <1>3, <1>4, <1>7

LowerIn(t) == {pair \in References(t) \X References(t) : Lower(t, pair[1], pair[2])}

\* The order in which the loop considers them.
LEMMA LowerOrders ==
    ASSUME NEW t \in Seq(Seq(Items))
    PROVE  /\ Orders(LowerIn(t), References(t))
           /\ \A r, s \in References(t) : <<r, s>> \in LowerIn(t) <=> Lower(t, r, s)
           /\ \A r \in References(t) : Item(t, r) \in Items
           /\ \A r, s \in References(t) : Lower(t, r, s) =>
                 Item(t, r).score <= Item(t, s).score
<1>1. ASSUME NEW r \in References(t)
      PROVE  /\ r[1] \in 1..Len(t) /\ r[2] \in 1..Len(t[r[1]])
             /\ r[1] \in Nat /\ r[2] \in Nat
             /\ Item(t, r) \in Items /\ Item(t, r).score \in Int
  <2>1. r[1] \in 1..Len(t) /\ r[2] \in 1..Len(t[r[1]])
    BY ReferencesAre
  <2>2. t[r[1]] \in Seq(Items)
    BY <2>1
  <2>3. t[r[1]][r[2]] \in Items
    BY <2>1, <2>2
  <2> QED
    BY <2>1, <2>2, <2>3 DEF Item, Items
<1>2. \A r, s \in References(t) : r # s => r[1] # s[1] \/ r[2] # s[2]
  BY ReferencesAre
<1>3. \A r, s \in References(t) : <<r, s>> \in LowerIn(t) <=> Lower(t, r, s)
  BY DEF LowerIn
<1> DEFINE S == References(t)
           score == [r \in S |-> Item(t, r).score]
<1>4. \A r, s \in S : Lower(t, r, s) <=> \/ score[r] < score[s]
                                         \/ score[r] = score[s] /\ r[1] < s[1]
                                         \/ score[r] = score[s] /\ r[1] = s[1] /\ r[2] < s[2]
  BY DEF Lower
<1>5. \A r \in S : score[r] \in Int /\ r[1] \in Nat /\ r[2] \in Nat
  BY <1>1
<1> HIDE DEF S, score
<1>6. \A r \in S : ~Lower(t, r, r)
  BY <1>4, <1>5
<1>7. \A r, s, u \in S : Lower(t, r, s) /\ Lower(t, s, u) => Lower(t, r, u)
  <2> SUFFICES ASSUME NEW r \in S, NEW s \in S, NEW u \in S, Lower(t, r, s), Lower(t, s, u)
               PROVE  Lower(t, r, u)
    OBVIOUS
  <2>1. /\ score[r] \in Int /\ score[s] \in Int /\ score[u] \in Int
        /\ r[1] \in Nat /\ s[1] \in Nat /\ u[1] \in Nat
        /\ r[2] \in Nat /\ s[2] \in Nat /\ u[2] \in Nat
    BY <1>5
  <2>2. \/ score[r] < score[s]
        \/ score[r] = score[s] /\ r[1] < s[1]
        \/ score[r] = score[s] /\ r[1] = s[1] /\ r[2] < s[2]
    BY <1>4
  <2>3. \/ score[s] < score[u]
        \/ score[s] = score[u] /\ s[1] < u[1]
        \/ score[s] = score[u] /\ s[1] = u[1] /\ s[2] < u[2]
    BY <1>4
  <2>4. \/ score[r] < score[u]
        \/ score[r] = score[u] /\ r[1] < u[1]
        \/ score[r] = score[u] /\ r[1] = u[1] /\ r[2] < u[2]
    BY <2>1, <2>2, <2>3
  <2> QED
    BY <1>4, <2>4
<1>8. \A r, s \in S : r # s => Lower(t, r, s) \/ Lower(t, s, r)
  BY <1>2, <1>4, <1>5 DEF S
<1>9. \A r, s \in S : Lower(t, r, s) => score[r] <= score[s]
  BY <1>4, <1>5
<1>10. Orders(LowerIn(t), S)
  BY <1>3, <1>6, <1>7, <1>8 DEF Orders, S
<1> QED
  BY <1>1, <1>3, <1>9, <1>10 DEF S, score

\* The tokens of what is left, criterion by criterion.
Tokens(ev) == [i \in 1..Len(ev) |-> ev[i].tokens]
Share(t, gone, c) == SumTo(Only(Tokens(t[c]), Stays(t, gone, c), Len(t[c])), Len(t[c]))
Shares(t, gone) == [c \in 1..Len(t) |-> Share(t, gone, c)]
Left(t, gone) == SumTo(Shares(t, gone), Len(t))

LEMMA TokensAre ==
    ASSUME NEW ev \in Seq(Items)
    PROVE  /\ Len(ev) \in Nat /\ DOMAIN ev = 1..Len(ev)
           /\ \A i \in 1..Len(ev) : ev[i] \in Items /\ Tokens(ev)[i] = ev[i].tokens
                                    /\ ev[i].tokens \in Nat /\ ev[i].score \in Int
           /\ TokensOf(ev) = SumTo(Tokens(ev), Len(ev))
<1>1. Len(ev) \in Nat /\ DOMAIN ev = 1..Len(ev) /\ \A i \in 1..Len(ev) : ev[i] \in Items
  OBVIOUS
<1>2. \A i \in 1..Len(ev) : Tokens(ev)[i] = ev[i].tokens
  BY DEF Tokens
<1>3. \A item \in Items : item.tokens \in Nat /\ item.score \in Int
  BY DEF Items
<1>4. TokensOf(ev) = SumTo(Tokens(ev), Len(ev))
  BY <1>1 DEF TokensOf, Tokens
<1> QED
  BY <1>1, <1>2, <1>3, <1>4

LEMMA StaysAre ==
    ASSUME NEW t \in Seq(Seq(Items)), NEW gone, NEW c \in 1..Len(t)
    PROVE  /\ t[c] \in Seq(Items) /\ Len(t[c]) \in Nat
           /\ Stays(t, gone, c) \in SUBSET (1..Len(t[c]))
           /\ \A i \in 1..Len(t[c]) : i \in Stays(t, gone, c) <=> <<c, i>> \notin gone
           /\ IsFiniteSet(Stays(t, gone, c))
           /\ Cardinality(Stays(t, gone, c)) \in 0..Len(t[c])
           /\ \A i \in 1..Len(t[c]) :
                 Only(Tokens(t[c]), Stays(t, gone, c), Len(t[c]))[i] \in Nat
           /\ Share(t, gone, c) \in Nat
<1>1. t[c] \in Seq(Items)
  OBVIOUS
<1>2. Len(t[c]) \in Nat /\ DOMAIN t[c] = 1..Len(t[c])
  BY <1>1
<1>3. /\ Stays(t, gone, c) \in SUBSET (1..Len(t[c]))
      /\ \A i \in 1..Len(t[c]) : i \in Stays(t, gone, c) <=> <<c, i>> \notin gone
  BY <1>2 DEF Stays
<1>4. IsFiniteSet(Stays(t, gone, c)) /\ Cardinality(Stays(t, gone, c)) \in 0..Len(t[c])
  BY <1>2, <1>3, AscendingLists
<1>5. \A i \in 1..Len(t[c]) : Only(Tokens(t[c]), Stays(t, gone, c), Len(t[c]))[i] \in Nat
  BY <1>1, TokensAre DEF Only
<1>6. Share(t, gone, c) \in Nat
  BY <1>2, <1>5, SumType DEF Share
<1> QED
  BY <1>1, <1>2, <1>3, <1>4, <1>5, <1>6

\* Taking one reference away.
LEMMA OneGoes ==
    ASSUME NEW t \in Seq(Seq(Items)), NEW gone, NEW r \in References(t), r \notin gone
    PROVE  /\ r[1] \in 1..Len(t) /\ r[2] \in Stays(t, gone, r[1])
           /\ Stays(t, gone \union {r}, r[1]) = Stays(t, gone, r[1]) \ {r[2]}
           /\ \A c \in 1..Len(t) : c # r[1] => Stays(t, gone \union {r}, c) = Stays(t, gone, c)
           /\ Left(t, gone \union {r}) = Left(t, gone) - Item(t, r).tokens
           /\ Left(t, gone) \in Nat /\ Item(t, r).tokens \in Nat
<1> DEFINE after == gone \union {r}
           a == r[1]
           n == Len(t[a])
           tok == Tokens(t[a])
           f == Only(tok, Stays(t, gone, a), n)
           g == Only(tok, Stays(t, after, a), n)
<1>1. a \in 1..Len(t) /\ r[2] \in 1..n /\ r = <<a, r[2]>>
  BY ReferencesAre
<1>2. r[2] \in Stays(t, gone, a)
  BY <1>1, StaysAre
<1>3. Stays(t, after, a) = Stays(t, gone, a) \ {r[2]}
  <2>1. \A i \in 1..n : <<a, i>> \in after <=> <<a, i>> \in gone \/ i = r[2]
    BY <1>1
  <2>2. \A i \in 1..n : i \in Stays(t, after, a) <=> <<a, i>> \notin after
    BY <1>1, StaysAre
  <2>3. \A i \in 1..n : i \in Stays(t, gone, a) <=> <<a, i>> \notin gone
    BY <1>1, StaysAre
  <2>4. Stays(t, after, a) \in SUBSET (1..n) /\ Stays(t, gone, a) \in SUBSET (1..n)
    BY <1>1, StaysAre
  <2> HIDE DEF n, after, a
  <2> QED
    BY <2>1, <2>2, <2>3, <2>4
<1>4. ASSUME NEW c \in 1..Len(t), c # a PROVE Stays(t, after, c) = Stays(t, gone, c)
  <2>1. \A i : <<c, i>> \in after <=> <<c, i>> \in gone
    BY <1>1, <1>4
  <2> QED
    BY <2>1 DEF Stays
<1>5. Item(t, r) = t[a][r[2]] /\ tok[r[2]] = Item(t, r).tokens /\ Item(t, r).tokens \in Nat
  <2>1. t[a] \in Seq(Items)
    BY <1>1
  <2> QED
    BY <1>1, <2>1, TokensAre DEF Item
<1>6. Share(t, after, a) = Share(t, gone, a) - Item(t, r).tokens
  <2>1. \A i \in 1..n : f[i] \in Int /\ g[i] \in Int
    BY <1>1, StaysAre
  <2>2. \A i \in 1..n : i # r[2] => f[i] = g[i]
    BY <1>3 DEF Only
  <2>3. f[r[2]] = tok[r[2]] /\ g[r[2]] = 0
    BY <1>1, <1>2, <1>3 DEF Only
  <2>4. n \in Nat /\ SumTo(f, n) \in Int
    BY <1>1, <2>1, StaysAre, SumType
  <2>5. SumTo(g, n) = SumTo(f, n) + g[r[2]] - f[r[2]]
    <3>1. PICK m \in Nat : m = n
      BY <2>4
    <3>2. PICK i \in 1..m : i = r[2]
      BY <1>1, <3>1
    <3>3. \A k \in 1..m : k # i => f[k] = g[k]
      BY <2>2, <3>1, <3>2
    <3>4. \A k \in 1..m : f[k] \in Int /\ g[k] \in Int
      BY <2>1, <3>1
    <3> HIDE DEF f, g, n
    <3>5. SumTo(g, m) = SumTo(f, m) + g[i] - f[i]
      BY <3>3, <3>4, SumChanges
    <3> QED
      BY <3>1, <3>2, <3>5
  <2>6. Share(t, gone, a) = SumTo(f, n) /\ Share(t, after, a) = SumTo(g, n)
    BY DEF Share
  <2>7. g[r[2]] = 0 /\ f[r[2]] = Item(t, r).tokens
    BY <1>5, <2>3
  <2> HIDE DEF f, g, n, a, after
  <2> QED
    BY <1>5, <2>4, <2>5, <2>6, <2>7
<1>7. \A c \in 1..Len(t) : Shares(t, gone)[c] \in Nat /\ Shares(t, after)[c] \in Nat
  BY StaysAre DEF Shares
<1>8. \A c \in 1..Len(t) : c # a => Shares(t, gone)[c] = Shares(t, after)[c]
  BY <1>4 DEF Shares, Share
<1>9. Shares(t, after)[a] = Shares(t, gone)[a] - Item(t, r).tokens
  BY <1>1, <1>6 DEF Shares
<1>10. Len(t) \in Nat
  OBVIOUS
<1>11. Left(t, gone) \in Nat
  BY <1>7, <1>10, SumType DEF Left
<1>12. Left(t, after) = Left(t, gone) - Item(t, r).tokens
  <2> DEFINE p == Shares(t, gone)
             q == Shares(t, after)
  <2>1. \A c \in 1..Len(t) : p[c] \in Int /\ q[c] \in Int
    <3> HIDE DEF after
    <3>1. \A c \in 1..Len(t) : p[c] \in Nat /\ q[c] \in Nat
      BY <1>7
    <3> HIDE DEF p, q
    <3> QED
      BY <3>1
  <2>2. SumTo(q, Len(t)) = SumTo(p, Len(t)) + q[a] - p[a]
    <3> HIDE DEF p, q, a
    <3>1. a \in 1..Len(t) /\ \A c \in 1..Len(t) : c # a => p[c] = q[c]
      BY <1>1, <1>8 DEF p, q
    <3> QED
      BY <1>10, <2>1, <3>1, SumChanges
  <2>3. SumTo(p, Len(t)) \in Int
    BY <1>11 DEF Left
  <2> QED
    BY <1>1, <1>5, <1>9, <2>1, <2>2, <2>3 DEF Left
<1> QED
  BY <1>1, <1>2, <1>3, <1>4, <1>5, <1>11, <1>12

\* The loop considers each reference once, the lower scores first.
LEMMA ScoredRefsList ==
    ASSUME NEW t \in Seq(Seq(Items))
    PROVE  Lists(ScoredRefs(t), LowerIn(t), References(t))
<1> DEFINE S == References(t)
           R == LowerIn(t)
           o == ScoredRefs(t)
<1>1. IsFiniteSet(S) /\ Orders(R, S)
  BY ReferencesAre, LowerOrders
<1>2. ASSUME NEW k \in 1..Cardinality(S)
      PROVE  o[k] \in S /\ Cardinality(Under(R, S, o[k])) = k - 1
  <2>1. \A x \in S : Under(R, S, x) = {y \in S : Lower(t, y, x)}
    BY LowerOrders DEF Under
  <2>2. PICK x \in S : Cardinality(Under(R, S, x)) = k - 1
    BY <1>1, Ranking
  <2>3. \E z \in S : Cardinality({y \in S : Lower(t, y, z)}) = k - 1
    BY <2>1, <2>2
  <2>4. o[k] = CHOOSE z \in S : Cardinality({y \in S : Lower(t, y, z)}) = k - 1
    BY DEF ScoredRefs, Sorted
  <2> HIDE DEF S, o, R
  <2>5. o[k] \in S /\ Cardinality({y \in S : Lower(t, y, o[k])}) = k - 1
    BY <2>3, <2>4
  <2> QED
    BY <2>1, <2>5
<1> HIDE DEF S, o, R
<1> QED
  BY <1>1, <1>2, Listing DEF S, o, R

\* h[k] is the state of the loop when k references have been considered.
States(h, t, o, base, n) ==
    h = [k \in 0..n |-> IF k = 0 THEN base ELSE Consider(t, h[k - 1], o[k])]

LEMMA RemovalExists ==
    ASSUME NEW t, NEW o, NEW base, NEW n \in Nat
    PROVE  \E h : States(h, t, o, base, n)
<1> DEFINE Is(h, m) == h = [k \in 0..m |-> IF k = 0 THEN base ELSE Consider(t, h[k - 1], o[k])]
           Good == {m \in Nat : \E h : Is(h, m)}
<1>1. 0 \in Good
  <2> DEFINE h == [k \in 0..0 |-> base]
  <2>1. Is(h, 0)
    OBVIOUS
  <2> HIDE DEF h
  <2> QED
    BY <2>1
<1>2. ASSUME NEW m \in Nat, m \in Good PROVE m + 1 \in Good
  <2>1. PICK g : Is(g, m)
    BY <1>2
  <2> DEFINE h == [k \in 0..(m + 1) |->
                      IF k = m + 1 THEN Consider(t, g[m], o[m + 1]) ELSE g[k]]
  <2>2. \A k \in 0..m : h[k] = g[k]
    OBVIOUS
  <2>3. \A k \in 0..m : g[k] = IF k = 0 THEN base ELSE Consider(t, g[k - 1], o[k])
    BY <2>1
  <2>4. \A k \in 0..(m + 1) : h[k] = IF k = 0 THEN base ELSE Consider(t, h[k - 1], o[k])
    <3> SUFFICES ASSUME NEW k \in 0..(m + 1)
                 PROVE  h[k] = IF k = 0 THEN base ELSE Consider(t, h[k - 1], o[k])
      OBVIOUS
    <3>1. CASE k = m + 1
      BY <2>2, <3>1
    <3>2. CASE k \in 0..m
      <4>1. k # 0 => k - 1 \in 0..m
        BY <3>2
      <4> QED
        BY <2>2, <2>3, <3>2, <4>1
    <3> QED
      BY <3>1, <3>2
  <2>5. h = [k \in 0..(m + 1) |-> h[k]]
    OBVIOUS
  <2> HIDE DEF h
  <2>6. Is(h, m + 1)
    BY <2>4, <2>5
  <2> QED
    BY <2>6
<1> HIDE DEF Good
<1>3. n \in Good
  BY <1>1, <1>2, Induction
<1> QED
  BY <1>3 DEF Good, States

-----------------------------------------------------------------------------
(* The loop of apply_report_budget, with the first k references considered *)

Kept(t, gone, c) == Cardinality(Stays(t, gone, c))

Considered(t, k, state) ==
    /\ state.gone \subseteq References(t)
    /\ state.total = Left(t, state.gone)
    /\ \A r \in state.gone : \E j \in 1..k : ScoredRefs(t)[j] = r
    /\ \A j \in 1..k : \/ ScoredRefs(t)[j] \in state.gone
                       \/ state.total <= ReportBudget
                       \/ Kept(t, state.gone, ScoredRefs(t)[j][1]) <= MinEvidence
    /\ \A c \in 1..Len(t) :
          /\ Kept(t, state.gone, c) >= Least(Len(t[c]), MinEvidence)
          /\ Len(t[c]) >= 1 => \E i \in Stays(t, state.gone, c) : t[c][1].score <= t[c][i].score

LEMMA FirstConsidered ==
    ASSUME NEW t \in Seq(Seq(Items)), NEW state,
           state = [gone |-> {}, total |-> TokensOfReport(t)]
    PROVE  Considered(t, 0, state)
<1>1. Len(t) \in Nat /\ DOMAIN t = 1..Len(t)
  OBVIOUS
<1>2. ASSUME NEW c \in 1..Len(t)
      PROVE  /\ Stays(t, {}, c) = 1..Len(t[c]) /\ Len(t[c]) \in Nat
             /\ Share(t, {}, c) = TokensOf(t[c])
             /\ \A i \in 1..Len(t[c]) : t[c][i].score \in Int
  <2>1. t[c] \in Seq(Items)
    OBVIOUS
  <2>2. Stays(t, {}, c) = 1..Len(t[c])
    BY <2>1, TokensAre DEF Stays
  <2>3. \A i \in 1..Len(t[c]) :
           Only(Tokens(t[c]), 1..Len(t[c]), Len(t[c]))[i] = Tokens(t[c])[i]
    BY DEF Only
  <2>4. Share(t, {}, c) = SumTo(Tokens(t[c]), Len(t[c]))
    <3> DEFINE n == Len(t[c])
               f == Only(Tokens(t[c]), 1..n, n)
               g == Tokens(t[c])
    <3>1. n \in Nat /\ \A k \in 1..n : f[k] = g[k]
      BY <2>1, <2>3
    <3>2. Share(t, {}, c) = SumTo(f, n)
      BY <2>2 DEF Share
    <3> HIDE DEF n, f, g
    <3>3. SumTo(f, n) = SumTo(g, n)
      BY <3>1, SumSame
    <3> QED
      BY <3>2, <3>3 DEF n, g
  <2>5. /\ TokensOf(t[c]) = SumTo(Tokens(t[c]), Len(t[c])) /\ Len(t[c]) \in Nat
        /\ \A i \in 1..Len(t[c]) : t[c][i].score \in Int
    BY <2>1, TokensAre
  <2> QED
    BY <2>2, <2>4, <2>5
<1>3. TokensOfReport(t) = Left(t, {})
  <2> DEFINE f == [c \in DOMAIN t |-> TokensOf(t[c])]
  <2>1. \A c \in 1..Len(t) : f[c] = Shares(t, {})[c]
    BY <1>1, <1>2 DEF Shares
  <2> HIDE DEF f
  <2>2. SumTo(f, Len(t)) = SumTo(Shares(t, {}), Len(t))
    BY <1>1, <2>1, SumSame
  <2> QED
    BY <2>2 DEF TokensOfReport, Left, f
<1>4. ASSUME NEW c \in 1..Len(t)
      PROVE  /\ Kept(t, {}, c) >= Least(Len(t[c]), MinEvidence)
             /\ Len(t[c]) >= 1 => \E i \in Stays(t, {}, c) : t[c][1].score <= t[c][i].score
  <2>1. Kept(t, {}, c) = Len(t[c])
    <3> DEFINE n == Len(t[c])
    <3>1. n \in Nat
      BY <1>2
    <3> HIDE DEF n
    <3>2. Cardinality(1..n) = n
      BY <3>1, FS_Interval
    <3> QED
      BY <1>2, <3>2 DEF Kept, n
  <2>2. Len(t[c]) >= 1 => 1 \in Stays(t, {}, c) /\ t[c][1].score <= t[c][1].score
    BY <1>2
  <2> QED
    BY <1>2, <2>1, <2>2, BudgetAssumption DEF Least
<1> QED
  BY <1>3, <1>4 DEF Considered

LEMMA NextConsidered ==
    ASSUME NEW t \in Seq(Seq(Items)), NEW k \in Nat, k < Cardinality(References(t)),
           NEW state, Considered(t, k, state)
    PROVE  Considered(t, k + 1, Consider(t, state, ScoredRefs(t)[k + 1]))
<1> DEFINE M == Cardinality(References(t))
           o == ScoredRefs(t)
           r == o[k + 1]
           gone == state.gone
           total == state.total
<1>0. M \in Nat /\ k + 1 \in 1..M /\ \A j \in 1..k : j \in 1..M
  <2>1. M \in Nat
    BY ReferencesAre, FS_CardinalityType
  <2> QED
    BY <2>1
<1>1. /\ \A j \in 1..M : o[j] \in References(t)
      /\ \A j, l \in 1..M : j < l => <<o[j], o[l]>> \in LowerIn(t)
      /\ \A x \in References(t) : \E j \in 1..M : o[j] = x
  BY ScoredRefsList DEF Lists
<1>2. r \in References(t) /\ r[1] \in 1..Len(t) /\ r[2] \in 1..Len(t[r[1]])
  BY <1>0, <1>1, ReferencesAre
<1>a. /\ gone \subseteq References(t)
      /\ total = Left(t, gone)
      /\ \A x \in gone : \E j \in 1..k : o[j] = x
      /\ \A j \in 1..k : \/ o[j] \in gone
                         \/ total <= ReportBudget
                         \/ Kept(t, gone, o[j][1]) <= MinEvidence
  BY DEF Considered
<1>b. \A c \in 1..Len(t) :
          /\ Kept(t, gone, c) >= Least(Len(t[c]), MinEvidence)
          /\ Len(t[c]) >= 1 => \E i \in Stays(t, gone, c) : t[c][1].score <= t[c][i].score
  BY DEF Considered
<1> HIDE DEF M, o, r
<1>3. CASE total <= ReportBudget \/ Kept(t, gone, r[1]) <= MinEvidence
  <2>1. Consider(t, state, r) = state
    BY <1>3 DEF Consider, Kept
  <2>2. \A j \in 1..(k + 1) : \/ o[j] \in gone
                              \/ total <= ReportBudget
                              \/ Kept(t, gone, o[j][1]) <= MinEvidence
    <3> SUFFICES ASSUME NEW j \in 1..(k + 1)
                 PROVE  \/ o[j] \in gone
                        \/ total <= ReportBudget
                        \/ Kept(t, gone, o[j][1]) <= MinEvidence
      OBVIOUS
    <3>1. CASE j = k + 1
      BY <1>3, <3>1 DEF r
    <3>2. CASE j \in 1..k
      BY <1>a, <3>2
    <3> QED
      BY <3>1, <3>2
  <2>3. \A x \in gone : \E j \in 1..(k + 1) : o[j] = x
    BY <1>a
  <2>4. Considered(t, k + 1, state)
    BY <1>a, <1>b, <2>2, <2>3 DEF Considered, o
  <2> QED
    BY <2>1, <2>4 DEF r, o
<1>4. CASE ~(total <= ReportBudget \/ Kept(t, gone, r[1]) <= MinEvidence)
  <2> DEFINE after == gone \union {r}
             less == total - Item(t, r).tokens
             a == r[1]
  <2>1. Consider(t, state, r) = [gone |-> after, total |-> less]
    BY <1>4 DEF Consider, Kept
  <2>2. r \notin gone
    <3> SUFFICES ASSUME r \in gone PROVE FALSE
      OBVIOUS
    <3>1. PICK j \in 1..k : o[j] = r
      BY <1>a
    <3>2. <<o[j], o[k + 1]>> \in LowerIn(t)
      BY <1>0, <1>1
    <3>3. <<r, r>> \in LowerIn(t)
      BY <3>1, <3>2 DEF r
    <3> QED
      BY <1>2, <3>3, LowerOrders DEF Orders
  <2>3. /\ r[2] \in Stays(t, gone, a)
        /\ Stays(t, after, a) = Stays(t, gone, a) \ {r[2]}
        /\ \A c \in 1..Len(t) : c # a => Stays(t, after, c) = Stays(t, gone, c)
        /\ Left(t, after) = Left(t, gone) - Item(t, r).tokens
        /\ Left(t, gone) \in Nat /\ Item(t, r).tokens \in Nat
    BY <1>2, <2>2, OneGoes
  <2> HIDE DEF after
  <2>4. /\ Kept(t, gone, a) \in Nat
        /\ Kept(t, after, a) = Kept(t, gone, a) - 1
        /\ Kept(t, gone, a) > MinEvidence
        /\ \A c \in 1..Len(t) : c # a => Kept(t, after, c) = Kept(t, gone, c)
    <3>1. IsFiniteSet(Stays(t, gone, a)) /\ Cardinality(Stays(t, gone, a)) \in 0..Len(t[a])
      BY <1>2, StaysAre
    <3>2. Cardinality(Stays(t, after, a)) = Cardinality(Stays(t, gone, a)) - 1
      <4> DEFINE S == Stays(t, gone, a)
                 x == r[2]
      <4>1. IsFiniteSet(S) /\ x \in S /\ Stays(t, after, a) = S \ {x}
        BY <2>3, <3>1
      <4> HIDE DEF S, x
      <4>2. Cardinality(S \ {x}) = Cardinality(S) - 1
        BY <4>1, FS_RemoveElement
      <4> QED
        BY <4>1, <4>2 DEF S
    <3>3. Kept(t, gone, a) \in Nat
      <4>1. Len(t[a]) \in Nat
        BY <1>2, StaysAre
      <4> QED
        BY <3>1, <4>1 DEF Kept
    <3>4. Kept(t, gone, a) > MinEvidence
      BY <1>4, <3>3, BudgetAssumption
    <3>5. Kept(t, after, a) = Kept(t, gone, a) - 1
      BY <3>2 DEF Kept
    <3>6. \A c \in 1..Len(t) : c # a => Kept(t, after, c) = Kept(t, gone, c)
      BY <2>3 DEF Kept
    <3> QED
      BY <3>3, <3>4, <3>5, <3>6
  <2>5. less = Left(t, after) /\ less <= total /\ total \in Nat /\ ~(total <= ReportBudget)
    BY <1>4, <1>a, <2>3
  <2>6. \A j \in 1..(k + 1) : \/ o[j] \in after
                              \/ less <= ReportBudget
                              \/ Kept(t, after, o[j][1]) <= MinEvidence
    <3> SUFFICES ASSUME NEW j \in 1..(k + 1)
                 PROVE  \/ o[j] \in after
                        \/ Kept(t, after, o[j][1]) <= MinEvidence
      OBVIOUS
    <3>1. CASE j = k + 1
      BY <3>1 DEF r, after
    <3>2. CASE j \in 1..k
      <4>1. o[j] \in gone \/ Kept(t, gone, o[j][1]) <= MinEvidence
        BY <1>a, <2>5, <3>2
      <4>2. CASE o[j] \in gone
        BY <4>2 DEF after
      <4>3. CASE Kept(t, gone, o[j][1]) <= MinEvidence
        <5>1. o[j][1] \in 1..Len(t)
          BY <1>0, <1>1, <3>2, ReferencesAre
        <5>2. o[j][1] # a
          BY <2>4, <4>3, BudgetAssumption
        <5> QED
          BY <2>4, <4>3, <5>1, <5>2
      <4> QED
        BY <4>1, <4>2, <4>3
    <3> QED
      BY <3>1, <3>2
  <2>7. \A x \in after : \E j \in 1..(k + 1) : o[j] = x
    <3> SUFFICES ASSUME NEW x \in after PROVE \E j \in 1..(k + 1) : o[j] = x
      OBVIOUS
    <3>1. CASE x = r
      BY <3>1 DEF r
    <3>2. CASE x \in gone
      BY <1>a, <3>2
    <3> QED
      BY <3>1, <3>2 DEF after
  <2>8. ASSUME NEW c \in 1..Len(t)
        PROVE  /\ Kept(t, after, c) >= Least(Len(t[c]), MinEvidence)
               /\ Len(t[c]) >= 1 =>
                     \E i \in Stays(t, after, c) : t[c][1].score <= t[c][i].score
    <3>1. CASE c # a
      BY <1>b, <2>3, <2>4, <3>1
    <3>2. CASE c = a
      <4>0. t[a] \in Seq(Items) /\ Len(t[a]) \in Nat
        BY <1>2, StaysAre
      <4>s. \A i \in 1..Len(t[a]) : t[a][i].score \in Int
        BY <4>0, TokensAre
      <4>1. Kept(t, after, a) >= Least(Len(t[a]), MinEvidence)
        <5>1. Kept(t, after, a) >= MinEvidence
          BY <2>4, BudgetAssumption
        <5>2. Kept(t, after, a) \in Int
          BY <2>4
        <5>3. Least(Len(t[a]), MinEvidence) \in Int /\ Least(Len(t[a]), MinEvidence) <= MinEvidence
          BY <4>0, BudgetAssumption DEF Least
        <5> DEFINE K == Kept(t, after, a)
                   L == Least(Len(t[a]), MinEvidence)
        <5>4. K >= MinEvidence /\ K \in Int /\ L \in Int /\ L <= MinEvidence /\ MinEvidence \in Int
          BY <5>1, <5>2, <5>3, BudgetAssumption
        <5> HIDE DEF K, L
        <5>5. K >= L
          BY <5>4
        <5> QED
          BY <5>5 DEF K, L
      <4>2. PICK i \in Stays(t, gone, a) : t[a][1].score <= t[a][i].score
        <5>1. a \in 1..Len(t) /\ Len(t[a]) >= 1
          BY <1>2, <4>0
        <5> HIDE DEF a
        <5> QED
          BY <1>b, <5>1
      <4>3. CASE i # r[2]
        BY <2>3, <3>2, <4>1, <4>2, <4>3
      <4>4. CASE i = r[2]
        <5>1. PICK l \in Stays(t, gone, a) : l # r[2]
          <6> SUFFICES ASSUME \A l \in Stays(t, gone, a) : l = r[2] PROVE FALSE
            OBVIOUS
          <6>1. Stays(t, after, a) = {}
            BY <2>3
          <6> QED
            BY <2>4, <6>1, FS_EmptySet, BudgetAssumption DEF Kept
        <5>2. l \in 1..Len(t[a]) /\ <<a, l>> \notin gone /\ l \in Stays(t, after, a)
          BY <1>2, <2>3, <5>1, StaysAre
        <5>3. <<a, l>> \in References(t) /\ <<a, l>> # r
          BY <1>2, <5>1, <5>2, ReferencesAre
        <5>4. PICK j \in 1..M : o[j] = <<a, l>>
          BY <1>1, <5>3
        <5>5. j \notin 1..k
          <6> SUFFICES ASSUME j \in 1..k PROVE FALSE
            OBVIOUS
          <6>1. \/ o[j] \in gone
                \/ total <= ReportBudget
                \/ Kept(t, gone, o[j][1]) <= MinEvidence
            BY <1>a
          <6>2. o[j][1] = a
            BY <5>4
          <6>3. ~(Kept(t, gone, a) <= MinEvidence)
            BY <2>4, BudgetAssumption
          <6> QED
            BY <2>5, <5>2, <5>4, <6>1, <6>2, <6>3
        <5>6. j # k + 1
          BY <5>3, <5>4 DEF r
        <5>7. <<r, <<a, l>>>> \in LowerIn(t)
          <6>1. j \in Nat /\ k + 1 < j
            BY <1>0, <5>4, <5>5, <5>6
          <6> QED
            BY <1>0, <1>1, <5>4, <6>1 DEF r
        <5>8. Item(t, r).score <= Item(t, <<a, l>>).score
          BY <1>2, <5>3, <5>7, LowerOrders
        <5>9. t[a][r[2]].score <= t[a][l].score
          BY <5>8 DEF Item
        <5>10. t[a][1].score \in Int /\ t[a][r[2]].score \in Int /\ t[a][l].score \in Int
          <6>1. 1 \in 1..Len(t[a]) /\ r[2] \in 1..Len(t[a]) /\ l \in 1..Len(t[a])
            BY <1>2, <4>0, <5>2
          <6> QED
            BY <4>s, <6>1
        <5>11. t[a][1].score <= t[a][l].score
          <6>1. t[a][1].score <= t[a][r[2]].score
            BY <4>2, <4>4
          <6>2. \A x, y, z \in Int : x <= y /\ y <= z => x <= z
            OBVIOUS
          <6> QED
            BY <5>9, <5>10, <6>1, <6>2, Zenon
        <5> QED
          BY <3>2, <4>1, <5>2, <5>11
      <4> QED
        BY <4>3, <4>4
    <3> QED
      BY <3>1, <3>2
  <2>9. after \subseteq References(t)
    BY <1>2, <1>a DEF after
  <2>10. Considered(t, k + 1, [gone |-> after, total |-> less])
    <3> DEFINE st == [gone |-> after, total |-> less]
    <3>1. st.gone = after /\ st.total = less
      OBVIOUS
    <3> HIDE DEF st, less
    <3> QED
      BY <2>5, <2>6, <2>7, <2>8, <2>9, <3>1 DEF Considered, o
  <2> QED
    BY <2>1, <2>10 DEF r, o
<1> QED
  BY <1>3, <1>4

\* What Removed takes away, when the loop has gone through every reference.
LEMMA RemovedIs ==
    ASSUME NEW t \in Seq(Seq(Items))
    PROVE  \E state : /\ state.gone = Removed(t)
                      /\ Considered(t, Cardinality(References(t)), state)
<1> DEFINE M == Cardinality(References(t))
           o == ScoredRefs(t)
           base == [gone |-> {}, total |-> TokensOfReport(t)]
           h == CHOOSE g : States(g, t, o, base, M)
<1>0. M \in Nat
  BY ReferencesAre, FS_CardinalityType
<1>1. Removed(t) = h[M].gone
  BY DEF Removed, States
<1>2. States(h, t, o, base, M)
  <2> HIDE DEF M, o, base
  <2>1. \E g : States(g, t, o, base, M)
    BY <1>0, RemovalExists
  <2> QED
    BY <2>1
<1> HIDE DEF h
<1>3. h[0] = base /\ \A k \in 1..M : h[k] = Consider(t, h[k - 1], o[k])
  <2> HIDE DEF o, base, M
  <2>1. \A k \in 0..M : h[k] = IF k = 0 THEN base ELSE Consider(t, h[k - 1], o[k])
    BY <1>2 DEF States
  <2> QED
    BY <1>0, <2>1
<1> DEFINE Good == {k \in Nat : k <= M => Considered(t, k, h[k])}
<1>4. 0 \in Good
  BY <1>3, FirstConsidered
<1>5. ASSUME NEW k \in Nat, k \in Good PROVE k + 1 \in Good
  <2> SUFFICES ASSUME k + 1 <= M PROVE Considered(t, k + 1, h[k + 1])
    OBVIOUS
  <2>1. k < M /\ k + 1 \in 1..M /\ (k + 1) - 1 = k
    BY <1>0
  <2>2. Considered(t, k, h[k])
    BY <1>0, <1>5
  <2>3. h[k + 1] = Consider(t, h[k], o[k + 1])
    BY <1>3, <2>1
  <2> QED
    BY <2>1, <2>2, <2>3, NextConsidered
<1> HIDE DEF Good
<1>6. M \in Good
  BY <1>0, <1>4, <1>5, Induction
<1> QED
  BY <1>0, <1>1, <1>6 DEF Good

\* What ApplyReportBudget keeps of the evidence of a criterion.
Fitting(ev, e) ==
    /\ e \in Seq(Items)
    /\ Len(e) <= MinEvidence \/ TokensOf(e) <= SingleBudget
    /\ Len(e) >= Least(Len(ev), MinEvidence)
    /\ ev # <<>> => \E i \in 1..Len(e) : \A j \in 1..Len(ev) : ev[j].score <= e[i].score
    /\ Len(e) > MinEvidence =>
          \A i, j \in 1..Len(e) : i # j /\ e[i].doc = e[j].doc => e[i].doc = None

LEMMA TrimmedFits ==
    ASSUME NEW ev \in Seq(Items), NEW t, Trimmed(ev, t) PROVE Fitting(ev, t)
<1>1. Len(t) \in Nat
  BY DEF Trimmed
<1>2. ASSUME ev # <<>>
      PROVE  \E i \in 1..Len(t) : \A j \in 1..Len(ev) : ev[j].score <= t[i].score
  <2>1. 1 \in 1..Len(t) /\ \A j \in 1..Len(ev) : ev[j].score <= t[1].score
    BY <1>1, <1>2 DEF Trimmed
  <2> QED
    BY <2>1
<1> QED
  BY <1>2 DEF Trimmed, Fitting

\* What is left of a criterion has the tokens Left counts for it.
LEMMA PickedTokens ==
    ASSUME NEW t \in Seq(Seq(Items)), NEW gone, NEW c \in 1..Len(t)
    PROVE  /\ TokensOf(Picked(t[c], Stays(t, gone, c))) = Share(t, gone, c)
           /\ Share(t, gone, c) <= TokensOf(t[c])
<1> DEFINE S == Stays(t, gone, c)
           n == Len(t[c])
           tok == Tokens(t[c])
           e == Picked(t[c], S)
<1>1. t[c] \in Seq(Items) /\ n \in Nat /\ S \in SUBSET (1..n) /\ S \in SUBSET (1..Len(t[c]))
  BY StaysAre
<1>2. \A i \in 1..n : tok[i] \in Nat /\ Only(tok, S, n)[i] \in Nat /\ Only(tok, S, n)[i] <= tok[i]
  <2>1. \A i \in 1..n : tok[i] \in Nat
    BY <1>1, TokensAre
  <2> HIDE DEF tok, S, n
  <2> QED
    BY <2>1 DEF Only
<1>3. e \in Seq(Items) /\ Len(e) = Cardinality(S) /\ \A k \in 1..Cardinality(S) : e[k] = t[c][Ascending(S)[k]]
  BY <1>1, PickedIs
<1>4. \A k \in 1..Cardinality(S) : Ascending(S)[k] \in 1..n
  <2> HIDE DEF S, n
  <2> QED
    BY <1>1, AscendingLists
<1>5. TokensOf(e) = SumTo(Tokens(e), Cardinality(S))
  <2> HIDE DEF e, S
  <2> QED
    BY <1>3, TokensAre
<1>6. \A k \in 1..Cardinality(S) : Tokens(e)[k] = tok[Ascending(S)[k]]
  <2> SUFFICES ASSUME NEW k \in 1..Cardinality(S) PROVE Tokens(e)[k] = tok[Ascending(S)[k]]
    OBVIOUS
  <2>1. Ascending(S)[k] \in 1..n
    BY <1>4
  <2>2. Tokens(e)[k] = e[k].tokens
    <3> HIDE DEF e, S
    <3> QED
      BY <1>3, TokensAre
  <2>3. tok[Ascending(S)[k]] = t[c][Ascending(S)[k]].tokens
    <3> HIDE DEF S
    <3> QED
      BY <1>1, <2>1, TokensAre
  <2>4. e[k] = t[c][Ascending(S)[k]]
    BY <1>3
  <2> QED
    BY <2>2, <2>3, <2>4
<1>7. SumTo(Tokens(e), Cardinality(S)) = SumTo(Only(tok, S, n), n)
  <2> DEFINE g == Tokens(e)
  <2>1. n \in Nat /\ S \in SUBSET (1..n)
    BY <1>1
  <2>2. \A k \in 1..Cardinality(S) : g[k] = tok[Ascending(S)[k]]
    BY <1>6
  <2> HIDE DEF e, S, n, tok, g
  <2>3. \A i \in 1..n : tok[i] \in Int
    BY <1>2
  <2>4. SumTo(g, Cardinality(S)) = SumTo(Only(tok, S, n), n)
    BY <2>1, <2>2, <2>3, PickedSum
  <2> QED
    BY <2>4 DEF g
<1>8. SumTo(Only(tok, S, n), n) <= SumTo(tok, n)
  <2> DEFINE f == Only(tok, S, n)
  <2>1. n \in Nat
    BY <1>1
  <2>2. \A i \in 1..n : f[i] \in Nat /\ tok[i] \in Nat /\ f[i] <= tok[i]
    BY <1>2
  <2> HIDE DEF S, n, tok, f
  <2>3. \A i \in 1..n : f[i] \in Int /\ tok[i] \in Int /\ f[i] <= tok[i]
    BY <2>2
  <2>4. SumTo(f, n) <= SumTo(tok, n)
    BY <2>1, <2>3, SumGrows
  <2> QED
    BY <2>4 DEF f
<1>9. TokensOf(t[c]) = SumTo(tok, n)
  BY <1>1, TokensAre
<1> QED
  BY <1>5, <1>7, <1>8, <1>9 DEF Share

LEMMA LessFits ==
    ASSUME NEW t \in Seq(Seq(Items)), NEW state,
           Considered(t, Cardinality(References(t)), state),
           NEW c \in 1..Len(t), NEW ev \in Seq(Items), Trimmed(ev, t[c])
    PROVE  /\ Fitting(ev, Picked(t[c], Stays(t, state.gone, c)))
           /\ Len(Picked(t[c], Stays(t, state.gone, c))) = Kept(t, state.gone, c)
<1> DEFINE gone == state.gone
           S == Stays(t, gone, c)
           w == t[c]
           n == Len(w)
           e == Picked(w, S)
<1>1. w \in Seq(Items) /\ n \in Nat /\ S \in SUBSET (1..n) /\ Cardinality(S) \in 0..n
  BY StaysAre
<1>2. e \in Seq(Items) /\ Len(e) = Cardinality(S) /\ \A k \in 1..Cardinality(S) : e[k] = w[Ascending(S)[k]]
  BY <1>1, PickedIs
<1>3. /\ \A k \in 1..Cardinality(S) : Ascending(S)[k] \in 1..n
      /\ \A k, l \in 1..Cardinality(S) : k < l => Ascending(S)[k] < Ascending(S)[l]
      /\ \A i \in S : \E k \in 1..Cardinality(S) : Ascending(S)[k] = i
  <2> HIDE DEF S, n
  <2> QED
    BY <1>1, AscendingLists
<1>4. /\ Cardinality(S) >= Least(n, MinEvidence)
      /\ n >= 1 => \E i \in S : w[1].score <= w[i].score
  BY DEF Considered, Kept
<1>5. /\ n <= MinEvidence \/ TokensOf(w) <= SingleBudget
      /\ n >= Least(Len(ev), MinEvidence)
      /\ ev # <<>> => n >= 1 /\ \A j \in 1..Len(ev) : ev[j].score <= w[1].score
      /\ n > MinEvidence =>
            \A i, j \in 1..n : i # j /\ w[i].doc = w[j].doc => w[i].doc = None
  BY DEF Trimmed
<1>6. TokensOf(e) <= TokensOf(w) /\ TokensOf(e) \in Nat /\ TokensOf(w) \in Nat
  <2>1. TokensOf(e) <= TokensOf(w)
    BY PickedTokens
  <2> HIDE DEF e, w
  <2> QED
    BY <1>1, <1>2, <2>1, TokensType
<1>7. Len(ev) \in Nat
  OBVIOUS
<1> HIDE DEF S, w, n, e
<1>8. Len(e) <= MinEvidence \/ TokensOf(e) <= SingleBudget
  <2>1. CASE n <= MinEvidence
    BY <1>1, <1>2, <2>1, BudgetAssumption
  <2>2. CASE TokensOf(w) <= SingleBudget
    <3> DEFINE x == TokensOf(e)
               y == TokensOf(w)
    <3>1. x <= y /\ x \in Nat /\ y \in Nat /\ y <= SingleBudget /\ SingleBudget \in Int
      BY <1>6, <2>2, BudgetAssumption
    <3> HIDE DEF x, y
    <3>2. x <= SingleBudget
      BY <3>1
    <3> QED
      BY <3>2 DEF x
  <2> QED
    BY <1>5, <2>1, <2>2
<1>9. Len(e) >= Least(Len(ev), MinEvidence)
  BY <1>1, <1>2, <1>4, <1>5, <1>7, BudgetAssumption DEF Least
<1>10. ASSUME ev # <<>>
       PROVE  \E i \in 1..Len(e) : \A j \in 1..Len(ev) : ev[j].score <= e[i].score
  <2>1. n >= 1 /\ \A j \in 1..Len(ev) : ev[j].score <= w[1].score
    BY <1>5, <1>10
  <2>2. PICK i \in S : w[1].score <= w[i].score
    BY <1>4, <2>1
  <2>3. PICK k \in 1..Cardinality(S) : Ascending(S)[k] = i
    BY <1>3
  <2>4. e[k] = w[i] /\ k \in 1..Len(e)
    BY <1>2, <2>3
  <2>5. i \in 1..n /\ 1 \in 1..n
    BY <1>1, <2>1
  <2>6. w[1].score \in Int /\ w[i].score \in Int
    BY <1>1, <2>5, TokensAre DEF n
  <2>7. \A j \in 1..Len(ev) : ev[j].score \in Int
    BY TokensAre
  <2>8. \A j \in 1..Len(ev) : ev[j].score <= w[i].score
    BY <2>1, <2>2, <2>6, <2>7
  <2> QED
    BY <2>4, <2>8
<1>11. ASSUME Len(e) > MinEvidence, NEW i \in 1..Len(e), NEW j \in 1..Len(e),
              i # j, e[i].doc = e[j].doc
       PROVE  e[i].doc = None
  <2> DEFINE a == Ascending(S)[i]
             b == Ascending(S)[j]
  <2>1. a \in 1..n /\ b \in 1..n /\ i \in 1..Cardinality(S) /\ j \in 1..Cardinality(S)
    BY <1>2, <1>3
  <2>2. i < j \/ j < i
    BY <1>1, <1>11, <2>1
  <2>3. a < b \/ b < a
    BY <1>3, <2>1, <2>2
  <2>4. e[i] = w[a] /\ e[j] = w[b]
    BY <1>2, <2>1
  <2> HIDE DEF a, b
  <2>5. a # b
    BY <1>1, <2>1, <2>3
  <2>6. n > MinEvidence
    BY <1>1, <1>2, <1>11, BudgetAssumption
  <2> QED
    BY <1>5, <1>11, <2>1, <2>4, <2>5, <2>6
<1>12. Fitting(ev, e)
  BY <1>2, <1>8, <1>9, <1>10, <1>11 DEF Fitting
<1> QED
  BY <1>2, <1>12 DEF Kept, e, w, S

\* When every reference has been considered, the rest fits or is minimal.
LEMMA AllConsidered ==
    ASSUME NEW t \in Seq(Seq(Items)), NEW state,
           Considered(t, Cardinality(References(t)), state),
           NEW c \in 1..Len(t)
    PROVE  Left(t, state.gone) <= ReportBudget \/ Kept(t, state.gone, c) <= MinEvidence
<1> DEFINE M == Cardinality(References(t))
           gone == state.gone
<1> SUFFICES ASSUME ~(Kept(t, gone, c) <= MinEvidence)
             PROVE  Left(t, gone) <= ReportBudget
  OBVIOUS
<1>1. Stays(t, gone, c) # {}
  <2> SUFFICES ASSUME Stays(t, gone, c) = {} PROVE FALSE
    OBVIOUS
  <2>1. Kept(t, gone, c) = 0
    BY FS_EmptySet DEF Kept
  <2> QED
    BY <2>1, BudgetAssumption
<1>2. PICK i \in Stays(t, gone, c) : TRUE
  BY <1>1
<1>3. i \in 1..Len(t[c]) /\ <<c, i>> \notin gone
  BY <1>2, StaysAre
<1>4. <<c, i>> \in References(t)
  BY <1>3, ReferencesAre
<1>5. PICK j \in 1..M : ScoredRefs(t)[j] = <<c, i>>
  BY <1>4, ScoredRefsList DEF Lists
<1>6. \/ ScoredRefs(t)[j] \in gone
      \/ state.total <= ReportBudget
      \/ Kept(t, gone, ScoredRefs(t)[j][1]) <= MinEvidence
  BY DEF Considered
<1>7. state.total = Left(t, gone)
  BY DEF Considered
<1> QED
  BY <1>3, <1>5, <1>6, <1>7

\* What ApplyReportBudget keeps of the evidence f of a report.
BudgetKept(f, e) ==
    /\ e \in Seq(Seq(Items)) /\ Len(e) = Len(f)
    /\ \A c \in 1..Len(f) : Fitting(f[c], e[c])
    /\ \/ TokensOfReport(e) <= ReportBudget
       \/ \A c \in 1..Len(f) : Len(e[c]) <= MinEvidence

LEMMA BudgetKeeps ==
    ASSUME NEW f \in Seq(Seq(Items)) PROVE BudgetKept(f, ApplyReportBudget(f))
<1> DEFINE m == Len(f)
           t == [c \in DOMAIN f |-> TrimToBudget(f[c])]
<1>1. m \in Nat /\ DOMAIN f = 1..m /\ \A c \in 1..m : f[c] \in Seq(Items)
  OBVIOUS
<1>2. \A c \in 1..m : t[c] = TrimToBudget(f[c])
  BY <1>1
<1>3. \A c \in 1..m : Trimmed(f[c], t[c]) /\ t[c] \in Seq(Items)
  <2> SUFFICES ASSUME NEW c \in 1..m PROVE Trimmed(f[c], t[c]) /\ t[c] \in Seq(Items)
    OBVIOUS
  <2>1. f[c] \in Seq(Items) /\ t[c] = TrimToBudget(f[c])
    BY <1>1, <1>2
  <2>2. Trimmed(f[c], t[c])
    BY <2>1, TrimKeeps
  <2> QED
    BY <2>2 DEF Trimmed
<1>4. t \in Seq(Seq(Items)) /\ Len(t) = m /\ DOMAIN t = 1..m
  <2>1. t = [c \in 1..m |-> t[c]]
    BY <1>1
  <2> HIDE DEF t, m
  <2>2. t \in [1..m -> Seq(Items)]
    BY <1>3, <2>1
  <2> QED
    BY <1>1, <2>2
<1>5. ApplyReportBudget(f) =
         IF TokensOfReport(t) <= ReportBudget THEN t
         ELSE [c \in DOMAIN t |-> Picked(t[c], Stays(t, Removed(t), c))]
  BY DEF ApplyReportBudget
<1> HIDE DEF t, m
<1>6. CASE TokensOfReport(t) <= ReportBudget
  <2>1. \A c \in 1..m : Fitting(f[c], t[c])
    BY <1>1, <1>3, TrimmedFits
  <2> QED
    BY <1>4, <1>5, <1>6, <2>1 DEF BudgetKept, m
<1>7. CASE ~(TokensOfReport(t) <= ReportBudget)
  <2>1. PICK state : /\ state.gone = Removed(t)
                     /\ Considered(t, Cardinality(References(t)), state)
    BY <1>4, RemovedIs
  <2> DEFINE gone == state.gone
             e == [c \in DOMAIN t |-> Picked(t[c], Stays(t, gone, c))]
  <2>2. ApplyReportBudget(f) = e
    BY <1>5, <1>7, <2>1
  <2>3. e = [c \in 1..m |-> e[c]] /\ \A c \in 1..m : e[c] = Picked(t[c], Stays(t, gone, c))
    BY <1>4
  <2> HIDE DEF e
  <2>4. ASSUME NEW c \in 1..m
        PROVE  /\ Fitting(f[c], e[c])
               /\ Len(e[c]) = Kept(t, gone, c)
               /\ TokensOf(e[c]) = Shares(t, gone)[c]
               /\ Left(t, gone) <= ReportBudget \/ Len(e[c]) <= MinEvidence
    <3>1. c \in 1..Len(t)
      BY <1>4
    <3>2. f[c] \in Seq(Items) /\ Trimmed(f[c], t[c]) /\ e[c] = Picked(t[c], Stays(t, gone, c))
      BY <1>1, <1>3, <2>3
    <3>3. Fitting(f[c], e[c]) /\ Len(e[c]) = Kept(t, gone, c)
      BY <1>4, <2>1, <3>1, <3>2, LessFits
    <3>4. TokensOf(e[c]) = Shares(t, gone)[c]
      BY <1>4, <3>1, <3>2, PickedTokens DEF Shares
    <3>5. Left(t, gone) <= ReportBudget \/ Kept(t, gone, c) <= MinEvidence
      BY <1>4, <2>1, <3>1, AllConsidered
    <3> QED
      BY <3>3, <3>4, <3>5
  <2>5. e \in Seq(Seq(Items)) /\ Len(e) = m /\ DOMAIN e = 1..m
    <3>1. \A c \in 1..m : e[c] \in Seq(Items)
      BY <2>4 DEF Fitting
    <3>2. e \in [1..m -> Seq(Items)]
      BY <2>3, <3>1
    <3> QED
      BY <1>1, <3>2
  <2>6. TokensOfReport(e) = Left(t, gone)
    <3> DEFINE g == [c \in DOMAIN e |-> TokensOf(e[c])]
    <3>1. \A c \in 1..m : g[c] = Shares(t, gone)[c]
      BY <2>4, <2>5
    <3>2. TokensOfReport(e) = SumTo(g, m)
      BY <2>5 DEF TokensOfReport
    <3> HIDE DEF g
    <3>3. SumTo(g, m) = SumTo(Shares(t, gone), m)
      BY <1>1, <3>1, SumSame
    <3> QED
      BY <1>4, <3>2, <3>3 DEF Left
  <2>7. TokensOfReport(e) <= ReportBudget \/ \A c \in 1..m : Len(e[c]) <= MinEvidence
    BY <2>4, <2>6
  <2> QED
    BY <2>2, <2>4, <2>5, <2>7 DEF BudgetKept, m
<1> QED
  BY <1>6, <1>7

-----------------------------------------------------------------------------
(* What the nodes keep: evidence, scores and the report *)

Result == [score : Int, cited : BOOLEAN]

\* What a run has retrieved, packed and scored so far.
EvaluationType ==
    /\ stage \in {"retrieve", "rules", "score", "gate", "persisted"}
    /\ runs \in 1..MaxRuns
    /\ hard \in BOOLEAN
    /\ tracker \in TrackerType
    /\ results \in Seq(Result) /\ Len(results) <= N
    /\ stage # "retrieve" => evidence \in Seq(Seq(Items)) /\ Len(evidence) = N

\* The evidence as it was packed, until the rules have been looked at.
PackedEvidence ==
    stage = "rules" => found \in Seq(Seq(Items)) /\ Len(found) = N /\ BudgetKept(found, evidence)

\* Every criterion has been scored unless the budget has stopped the run, and
\* the report says what the scores say.
AllAreScored ==
    stage \in {"gate", "persisted"} /\ ~tracker.blocked => Len(results) = N

ReportFollows ==
    stage = "persisted" =>
        /\ report.scored = Len(results)
        /\ report.total = IF hard THEN Total ELSE 0
        /\ ~report.review => ~redline /\ ~Deviates(Total, MaxTotal)

EvaluationInv == EvaluationType /\ PackedEvidence /\ AllAreScored /\ ReportFollows

-----------------------------------------------------------------------------
LEMMA RetrievedIs ==
    ASSUME NEW r \in 1..MaxRuns, NEW indexed \in Found[r]
    PROVE  Retrieved(indexed) \in Seq(Seq(Items)) /\ Len(Retrieved(indexed)) = N
<1>1. indexed \in Seq(Seq(Items)) /\ Len(indexed) = N /\ Standin \in Seq(Items) /\ N \in Nat
  BY EvaluationAssumption
<1>2. \A c \in 1..N : indexed[c] \in Seq(Items)
  BY <1>1
<1> DEFINE f == Retrieved(indexed)
<1>3. f = [c \in 1..N |-> IF indexed[c] = <<>> THEN Standin ELSE indexed[c]]
  BY DEF Retrieved
<1> HIDE DEF f
<1>4. f \in [1..N -> Seq(Items)]
  BY <1>1, <1>2, <1>3
<1>5. f \in Seq(Seq(Items)) /\ Len(f) = N
  <2>1. N \in Nat
    BY <1>1
  <2> DEFINE X == Seq(Items)
  <2>2. f \in [1..N -> X]
    BY <1>4
  <2> HIDE DEF X
  <2>3. f \in Seq(X) /\ Len(f) = N
    BY <2>1, <2>2
  <2> QED
    BY <2>3 DEF X
<1> QED
  BY <1>5 DEF f

LEMMA ClampedIs ==
    ASSUME NEW score \in Int, NEW top \in Nat PROVE Clamped(score, top) \in Int
BY DEF Clamped, Least

LEMMA MockScoreIs ==
    ASSUME evidence \in Seq(Seq(Items)), Len(evidence) = N, NEW c \in 1..N
    PROVE  MockScore(c) \in Int
<1> DEFINE ev == evidence[c]
           scores == [i \in DOMAIN ev |-> ev[i].score]
           base == IF ev = <<>> THEN 3 ELSE SumTo(scores, Len(ev)) \div Len(ev)
           high == IF hard /\ base < 9 THEN 9 ELSE base
           top == MaxScore[c]
<1>1. ev \in Seq(Items)
  OBVIOUS
<1>2. Len(ev) \in Nat /\ \A i \in 1..Len(ev) : scores[i] \in Int
  BY <1>1, TokensAre
<1>3. ev # <<>> => Len(ev) \in Nat \ {0}
  BY <1>1
<1>4. SumTo(scores, Len(ev)) \in Int
  <2> HIDE DEF scores, ev
  <2> QED
    BY <1>2, SumType
<1>5. base \in Int
  <2> DEFINE sum == SumTo(scores, Len(ev))
             len == Len(ev)
  <2>1. sum \in Int /\ (ev # <<>> => len \in Nat \ {0})
    BY <1>3, <1>4
  <2>2. base = IF ev = <<>> THEN 3 ELSE sum \div len
    OBVIOUS
  <2> HIDE DEF sum, len, ev, base
  <2>3. ev # <<>> => sum \div len \in Int
    BY <2>1
  <2> QED
    BY <2>2, <2>3
<1>6. top \in Nat
  BY EvaluationAssumption
<1>7. MockScore(c) = Clamped((top * high) \div 10, top)
  BY DEF MockScore
<1> HIDE DEF base, top
<1>8. high \in Int
  BY <1>5
<1> HIDE DEF high
<1>9. top * high \in Int
  BY <1>6, <1>8
<1>10. (top * high) \div 10 \in Int
  BY <1>9
<1> QED
  BY <1>6, <1>7, <1>10, ClampedIs

LEMMA CheckedIs ==
    ASSUME NEW t \in TrackerType
    PROVE  /\ Checked(t) \in TrackerType
           /\ CheckBudget(t) = "blocked" => Checked(t).blocked
           /\ t.blocked => Checked(t).blocked
BY DEF Checked, TrackerType

LEMMA EvaluationInit == Init => EvaluationInv
BY EvaluationAssumption
   DEF Init, NewTracker, TrackerType, Result, EvaluationInv, EvaluationType, PackedEvidence,
       AllAreScored, ReportFollows

\* A step of scoring: one more result, or none.
LEMMA ScoringKeeps ==
    ASSUME EvaluationInv, stage = "score", UNCHANGED <<stage, hard, evidence, runs>>,
           tracker' \in TrackerType, results' \in Seq(Result), Len(results') <= N
    PROVE  EvaluationInv'
BY DEF EvaluationInv, EvaluationType, PackedEvidence, AllAreScored, ReportFollows

LEMMA OneMoreResult ==
    ASSUME EvaluationInv, NEW c \in 1..N, NEW score \in Int, Next1(c), Scored(c, score)
    PROVE  results' \in Seq(Result) /\ Len(results') <= N
<1>1. results \in Seq(Result) /\ N \in Nat /\ Len(results) + 1 <= N
  BY EvaluationAssumption DEF EvaluationInv, EvaluationType, Next1
<1>2. [score |-> score, cited |-> evidence[c] # <<>>] \in Result
  BY DEF Result
<1>3. results' = Append(results, [score |-> score, cited |-> evidence[c] # <<>>])
  BY DEF Scored
<1> QED
  BY <1>1, <1>2, <1>3

LEMMA EvaluationStep == EvaluationInv /\ [Next]_vars => EvaluationInv'
<1> SUFFICES ASSUME EvaluationInv, [Next]_vars PROVE EvaluationInv'
  OBVIOUS
<1>t. EvaluationType
  BY DEF EvaluationInv
<1>1. CASE RetrieveEvidence
  <2>1. PICK indexed \in Found[runs] :
            /\ found' = Retrieved(indexed)
            /\ evidence' = ApplyReportBudget(Retrieved(indexed))
    BY <1>1 DEF RetrieveEvidence
  <2>2. found' \in Seq(Seq(Items)) /\ Len(found') = N
    BY <1>t, <2>1, RetrievedIs DEF EvaluationType
  <2>3. BudgetKept(found', evidence')
    BY <2>1, <2>2, BudgetKeeps
  <2>4. evidence' \in Seq(Seq(Items)) /\ Len(evidence') = N
    BY <2>2, <2>3 DEF BudgetKept
  <2>5. stage' = "rules" /\ UNCHANGED <<hard, tracker, results, runs>>
    BY <1>1 DEF RetrieveEvidence
  <2>6. EvaluationType'
    BY <1>t, <2>4, <2>5 DEF EvaluationType
  <2>7. PackedEvidence'
    BY <2>2, <2>3 DEF PackedEvidence
  <2> QED
    BY <2>5, <2>6, <2>7 DEF EvaluationInv, AllAreScored, ReportFollows
<1>2. CASE EvaluateRules
  BY <1>2 DEF EvaluateRules, EvaluationInv, EvaluationType, PackedEvidence, AllAreScored,
              ReportFollows
<1>3. ASSUME NEW c \in 1..N, LlmAnswers(c) PROVE EvaluationInv'
  <2>1. PICK score \in LlmScores, tokens \in 0..MaxCall :
            /\ Scored(c, Clamped(score, MaxScore[c]))
            /\ tracker' = [Checked(tracker) EXCEPT !.total = @ + tokens]
    BY <1>3 DEF LlmAnswers
  <2>2. score \in Int /\ MaxScore[c] \in Nat /\ MaxCall \in Nat
    BY EvaluationAssumption
  <2>3. results' \in Seq(Result) /\ Len(results') <= N
    <3>1. Clamped(score, MaxScore[c]) \in Int /\ Next1(c)
      BY <1>3, <2>2, ClampedIs DEF LlmAnswers
    <3> QED
      BY <2>1, <3>1, OneMoreResult
  <2>4. tracker' \in TrackerType
    <3>1. Checked(tracker) \in TrackerType
      BY <1>t, CheckedIs DEF EvaluationType
    <3> QED
      BY <2>1, <2>2, <3>1 DEF TrackerType
  <2> QED
    BY <1>3, <2>3, <2>4, ScoringKeeps DEF LlmAnswers, Next1
<1>4. ASSUME NEW c \in 1..N, LlmFails(c) \/ MockScores(c) PROVE EvaluationInv'
  <2>1. /\ Next1(c) /\ Scored(c, MockScore(c)) /\ tracker' = Checked(tracker)
        /\ UNCHANGED <<stage, hard, evidence, runs>>
    BY <1>4 DEF LlmFails, MockScores
  <2>2. stage = "score"
    BY <2>1 DEF Next1
  <2>3. MockScore(c) \in Int
    BY <1>t, <2>2, MockScoreIs DEF EvaluationType
  <2>4. tracker' \in TrackerType
    BY <1>t, <2>1, CheckedIs DEF EvaluationType
  <2> QED
    BY <2>1, <2>2, <2>3, <2>4, OneMoreResult, ScoringKeeps
<1>5. ASSUME NEW c \in 1..N, BudgetStops(c) PROVE EvaluationInv'
  <2>1. tracker' \in TrackerType /\ tracker'.blocked
    BY <1>5, <1>t, CheckedIs DEF BudgetStops, EvaluationType
  <2>2. stage = "score" /\ stage' = "gate" /\ UNCHANGED <<hard, evidence, results, runs>>
    BY <1>5 DEF BudgetStops, Next1
  <2> QED
    BY <1>t, <2>1, <2>2
       DEF EvaluationInv, EvaluationType, PackedEvidence, AllAreScored, ReportFollows
<1>6. CASE AllScored
  BY <1>6 DEF AllScored, EvaluationInv, EvaluationType, PackedEvidence, AllAreScored,
              ReportFollows
<1>7. CASE QualityGate
  <2>1. PICK other \in BOOLEAN :
            report' = [total  |-> IF hard THEN Total ELSE 0,
                       scored |-> Len(results),
                       review |-> \/ other \/ ~Covered \/ redline
                                  \/ Deviates(Total, MaxTotal)
                                  \/ Unsupported # {}]
    BY <1>7 DEF QualityGate
  <2>2. stage = "gate" /\ stage' = "persisted"
        /\ UNCHANGED <<hard, evidence, redline, tracker, results, runs>>
    BY <1>7 DEF QualityGate
  <2>3. Total' = Total /\ MaxTotal' = MaxTotal
    BY <2>2 DEF Total, MaxTotal
  <2>4. ReportFollows'
    <3> DEFINE total == Total
               deviates == Deviates(Total, MaxTotal)
               covered == Covered
               unsupported == Unsupported # {}
               rep == [total  |-> IF hard THEN total ELSE 0,
                       scored |-> Len(results),
                       review |-> other \/ ~covered \/ redline \/ deviates \/ unsupported]
    <3>1. report' = rep
      BY <2>1
    <3> HIDE DEF total, deviates, covered, unsupported
    <3>2. /\ rep.scored = Len(results)
          /\ rep.total = IF hard THEN total ELSE 0
          /\ ~rep.review => ~redline /\ ~deviates
      OBVIOUS
    <3> QED
      BY <2>2, <2>3, <3>1, <3>2 DEF ReportFollows, total, deviates
  <2> QED
    BY <2>2, <2>4 DEF EvaluationInv, EvaluationType, PackedEvidence, AllAreScored
<1>8. CASE RunAgain
  <2>1. /\ stage' = "retrieve" /\ hard' = hard /\ runs' = runs + 1 /\ runs < MaxRuns
        /\ tracker' \in TrackerType /\ results' = <<>>
    BY <1>8 DEF RunAgain, NewTracker, TrackerType
  <2>2. EvaluationType'
    BY <1>t, <2>1, EvaluationAssumption DEF EvaluationType
  <2> QED
    BY <2>1, <2>2 DEF EvaluationInv, PackedEvidence, AllAreScored, ReportFollows
<1>9. CASE UNCHANGED vars
  BY <1>9 DEF vars, run, EvaluationInv, EvaluationType, PackedEvidence, AllAreScored,
              ReportFollows, Total, MaxTotal
<1> QED
  BY <1>1, <1>2, <1>3, <1>4, <1>5, <1>6, <1>7, <1>8, <1>9 DEF Next

\* Whatever is retrieved, the packed evidence is within the budgets or at the
\* minimum and keeps the best item of every criterion (trim_to_budget and
\* apply_report_budget, token_budget.py).
THEOREM EvidenceIsPacked == Spec => []EvidenceFits
<1>1. EvaluationInv => EvidenceFits
  <2> SUFFICES ASSUME EvaluationInv, stage = "rules" PROVE EvidenceFits
    BY DEF EvidenceFits
  <2>1. Len(found) = N /\ BudgetKept(found, evidence)
    BY DEF EvaluationInv, PackedEvidence
  <2>2. \A c \in 1..N : Fitting(found[c], evidence[c])
    BY <2>1 DEF BudgetKept
  <2>3. \A c \in 1..N : /\ found[c] \in Seq(Items) /\ DOMAIN found[c] = 1..Len(found[c])
                        /\ DOMAIN evidence[c] = 1..Len(evidence[c])
    <3>1. \A c \in 1..N : found[c] \in Seq(Items) /\ evidence[c] \in Seq(Items)
      BY <2>1, <2>2 DEF EvaluationInv, PackedEvidence, Fitting
    <3> QED
      BY <3>1
  <2>4. TokensOfReport(evidence) <= ReportBudget \/ \A c \in 1..N : Len(evidence[c]) <= MinEvidence
    BY <2>1 DEF BudgetKept
  <2>5. ASSUME NEW c \in 1..N
        PROVE  /\ Len(evidence[c]) <= MinEvidence \/ TokensOf(evidence[c]) <= SingleBudget
               /\ Len(evidence[c]) >= Least(Len(found[c]), MinEvidence)
               /\ found[c] # <<>> =>
                     \E i \in DOMAIN evidence[c] : \A j \in DOMAIN found[c] :
                        found[c][j].score <= evidence[c][i].score
               /\ Len(evidence[c]) > MinEvidence =>
                     \A i, j \in DOMAIN evidence[c] :
                        i # j /\ evidence[c][i].doc = evidence[c][j].doc
                           => evidence[c][i].doc = None
    BY <2>2, <2>3 DEF Fitting
  <2> QED
    BY <2>4, <2>5 DEF EvidenceFits
<1> QED
  BY <1>1, EvaluationInit, EvaluationStep, PTL DEF Spec

\* A report that node_quality_gate sends to nobody covers every criterion that
\* the budget let it score, violates no rule and is close to the maximum
\* (node_score_with_llm and node_quality_gate, evaluation_nodes.py).
THEOREM UnreviewedReportsAreSound == Spec => []UnreviewedIsSound
<1>1. EvaluationInv => UnreviewedIsSound
  <2> SUFFICES ASSUME EvaluationInv, stage = "persisted", ~report.review PROVE UnreviewedIsSound
    BY DEF UnreviewedIsSound
  <2>1. /\ ~redline /\ ~Deviates(Total, MaxTotal)
        /\ report.scored = Len(results)
        /\ report.total = IF hard THEN Total ELSE 0
    BY DEF EvaluationInv, ReportFollows
  <2>2. ~tracker.blocked => Len(results) = N
    BY DEF EvaluationInv, AllAreScored
  <2> DEFINE best == [c \in 1..N |-> MaxScore[c] * Weight[c]]
             sum == SumTo(best, N)
  <2>3. ASSUME ~tracker.blocked, hard PROVE report.total * 5 >= 4 * sum
    <3>1. Len(results) = N /\ results \in Seq(Result) /\ N \in Nat
      BY <2>2, <2>3, EvaluationAssumption DEF EvaluationInv, EvaluationType
    <3>2. DOMAIN results = 1..N
      BY <3>1
    <3>3. MaxTotal = IF sum = 0 THEN 1 ELSE sum
      BY <3>1, <3>2 DEF MaxTotal
    <3>4. sum \in Int
      <4>1. \A c \in 1..N : best[c] \in Int
        BY EvaluationAssumption
      <4> HIDE DEF best
      <4> QED
        BY <3>1, <4>1, SumType
    <3>5. Total \in Int
      <4> DEFINE f == [c \in DOMAIN results |-> results[c].score * Weight[c]]
      <4>1. \A c \in 1..N : f[c] \in Int
        <5> SUFFICES ASSUME NEW c \in 1..N PROVE f[c] \in Int
          OBVIOUS
        <5>1. results[c] \in Result
          BY <3>1
        <5>2. results[c].score \in Int /\ Weight[c] \in Int
          BY <5>1, EvaluationAssumption DEF Result
        <5>3. results[c].score * Weight[c] \in Int
          BY <5>2
        <5> QED
          BY <3>2, <5>3
      <4>2. Total = SumTo(f, N)
        BY <3>1 DEF Total
      <4> HIDE DEF f
      <4> QED
        BY <3>1, <4>1, <4>2, SumType
    <3> DEFINE top == MaxTotal
               total == Total
    <3>6. ~((top - total) * 100 > 20 * top)
      BY <2>1 DEF Deviates
    <3>7. report.total = total
      BY <2>1, <2>3
    <3>8. top = IF sum = 0 THEN 1 ELSE sum
      BY <3>3
    <3>9. total \in Int
      BY <3>5
    <3> HIDE DEF top, total, sum
    <3>10. total * 5 >= 4 * sum
      BY <3>4, <3>6, <3>8, <3>9
    <3> QED
      BY <3>7, <3>10 DEF sum
  <2> QED
    BY <2>1, <2>2, <2>3 DEF UnreviewedIsSound
<1> QED
  BY <1>1, EvaluationInit, EvaluationStep, PTL DEF Spec

-----------------------------------------------------------------------------
(* What a task spends: the tracker of a run stays below the largest total   *)
(* at which CheckBudget still answers "ok" and one call, since no model is  *)
(* asked otherwise; what earlier runs spent is bounded by as many such sums. *)

\* The counters.
Counted ==
    /\ tracker \in TrackerType
    /\ runs \in Nat \ {0}
    /\ spent \in Nat
    /\ unread \in Nat

\* One run, and all of them.
RunBounded == TaskBudget > 0 => tracker.total <= PerRun
TaskBounded ==
    TaskBudget > 0 => spent <= (runs - 1) * PerRun + tracker.total + unread * MaxCall

SpendInv == Counted /\ RunBounded /\ TaskBounded

-----------------------------------------------------------------------------
LEMMA PerRunIsNat == TaskBudget > 0 => DegradeAt \in Nat /\ PerRun \in Nat
<1>1. ASSUME TaskBudget > 0 PROVE DegradeAt \in Nat
  BY <1>1, EvaluationAssumption DEF DegradeAt
<1> QED
  BY <1>1, EvaluationAssumption DEF PerRun

\* One more run is one more share.
LEMMA OneMore == ASSUME NEW n \in Nat, NEW q \in Int PROVE n * q = (n - 1) * q + q
OBVIOUS

\* The model is asked only while the total is below the mark.
LEMMA OkIsBelow ==
    ASSUME NEW t \in TrackerType, CheckBudget(t) = "ok"
    PROVE  TaskBudget > 0 => t.total < DegradeAt
<1>1. ~t.blocked
  BY DEF CheckBudget, TrackerType
<1> SUFFICES ASSUME TaskBudget > 0, t.total >= DegradeAt PROVE FALSE
  BY PerRunIsNat DEF TrackerType
<1>2. BlockAbove \in Int
  BY EvaluationAssumption DEF BlockAbove
<1>3. CASE t.total > BlockAbove
  BY <1>1, <1>3, EvaluationAssumption DEF CheckBudget
<1>4. CASE t.total <= BlockAbove
  BY <1>1, <1>4, EvaluationAssumption DEF CheckBudget
<1> QED
  BY <1>2, <1>3, <1>4 DEF TrackerType

LEMMA CheckedKeepsTotal ==
    ASSUME NEW t \in TrackerType
    PROVE  Checked(t) \in TrackerType /\ Checked(t).total = t.total
BY DEF Checked, TrackerType

-----------------------------------------------------------------------------
LEMMA SpendInit == Init => SpendInv
<1> SUFFICES ASSUME Init PROVE SpendInv
  OBVIOUS
<1>1. Counted
  BY DEF Init, NewTracker, Counted, TrackerType
<1>2. tracker.total = 0 /\ spent = 0 /\ runs = 1 /\ unread = 0
  BY DEF Init, NewTracker
<1> QED
  BY <1>1, <1>2, PerRunIsNat, EvaluationAssumption DEF SpendInv, RunBounded, TaskBounded

LEMMA SpendStep == SpendInv /\ [Next]_vars => SpendInv'
<1> SUFFICES ASSUME SpendInv, [Next]_vars PROVE SpendInv'
  OBVIOUS
<1> USE DEF SpendInv
<1>a. MaxCall \in Nat \ {0}
  BY EvaluationAssumption
<1>k. ASSUME UNCHANGED <<runs, spent, unread>>,
             tracker' \in TrackerType, tracker'.total = tracker.total
      PROVE  SpendInv'
  BY <1>k DEF Counted, RunBounded, TaskBounded, PerRun, DegradeAt
<1>1. CASE RetrieveEvidence
  BY <1>1, <1>k DEF RetrieveEvidence, Counted
<1>2. CASE EvaluateRules
  BY <1>2, <1>k DEF EvaluateRules, Counted
<1>3. ASSUME NEW c \in 1..N, LlmAnswers(c) PROVE SpendInv'
  <2>1. PICK tokens \in 0..MaxCall :
            /\ tracker' = [Checked(tracker) EXCEPT !.total = @ + tokens]
            /\ spent' = spent + tokens
    BY <1>3 DEF LlmAnswers
  <2>2. UNCHANGED <<runs, unread>> /\ CheckBudget(tracker) = "ok"
    BY <1>3 DEF LlmAnswers
  <2>3. tracker' \in TrackerType /\ tracker'.total = tracker.total + tokens
    BY <2>1, CheckedKeepsTotal, <1>a DEF Counted, TrackerType
  <2>4. Counted'
    BY <1>a, <2>1, <2>2, <2>3 DEF Counted
  <2>5. RunBounded'
    <3> SUFFICES ASSUME TaskBudget > 0 PROVE tracker'.total <= PerRun
      BY DEF RunBounded, PerRun, DegradeAt
    <3>1. tracker.total < DegradeAt
      BY <2>2, OkIsBelow DEF Counted
    <3> QED
      BY <1>a, <2>3, <3>1, PerRunIsNat DEF PerRun, Counted, TrackerType
  <2>6. TaskBounded'
    <3> SUFFICES ASSUME TaskBudget > 0
                 PROVE  spent' <= (runs - 1) * PerRun + tracker'.total + unread * MaxCall
      BY <2>2 DEF TaskBounded, PerRun, DegradeAt
    <3>1. (runs - 1) * PerRun \in Int /\ unread * MaxCall \in Int
      BY <1>a, PerRunIsNat DEF Counted
    <3> QED
      BY <1>a, <2>1, <2>3, <3>1 DEF Counted, TaskBounded, TrackerType
  <2> QED
    BY <2>4, <2>5, <2>6
<1>4. ASSUME NEW c \in 1..N, LlmFails(c) PROVE SpendInv'
  <2>1. PICK tokens \in 0..MaxCall : spent' = spent + tokens
    BY <1>4 DEF LlmFails
  <2>2. tracker' \in TrackerType /\ tracker'.total = tracker.total
    BY <1>4, CheckedKeepsTotal DEF LlmFails, Counted
  <2>3. runs' = runs /\ unread' = unread + 1
    BY <1>4 DEF LlmFails
  <2>4. Counted' /\ RunBounded'
    BY <1>a, <2>1, <2>2, <2>3 DEF Counted, RunBounded, PerRun, DegradeAt
  <2>5. TaskBounded'
    <3> SUFFICES ASSUME TaskBudget > 0
                 PROVE  spent' <= (runs - 1) * PerRun + tracker.total + (unread + 1) * MaxCall
      BY <2>2, <2>3 DEF TaskBounded, PerRun, DegradeAt
    <3>1. (unread + 1) * MaxCall = unread * MaxCall + MaxCall
      BY <1>a, OneMore DEF Counted
    <3>2. (runs - 1) * PerRun \in Int /\ unread * MaxCall \in Int
      BY <1>a, PerRunIsNat DEF Counted
    <3> QED
      BY <1>a, <2>1, <3>1, <3>2 DEF Counted, TaskBounded, TrackerType
  <2> QED
    BY <2>4, <2>5
<1>5. ASSUME NEW c \in 1..N, MockScores(c) \/ BudgetStops(c) PROVE SpendInv'
  BY <1>5, <1>k, CheckedKeepsTotal DEF MockScores, BudgetStops, Counted
<1>6. CASE AllScored \/ QualityGate
  BY <1>6, <1>k DEF AllScored, QualityGate, Counted
<1>7. CASE RunAgain
  <2>1. /\ runs' = runs + 1 /\ spent' = spent /\ unread' = unread
        /\ tracker' \in TrackerType /\ tracker'.total = 0
    BY <1>7 DEF RunAgain, NewTracker, TrackerType
  <2>2. Counted' /\ RunBounded'
    BY <2>1, PerRunIsNat DEF Counted, RunBounded, PerRun, DegradeAt
  <2>3. TaskBounded'
    <3> SUFFICES ASSUME TaskBudget > 0
                 PROVE  spent <= runs * PerRun + unread * MaxCall
      BY <1>a, <2>1, PerRunIsNat DEF TaskBounded, PerRun, DegradeAt, Counted
    <3>1. runs * PerRun = (runs - 1) * PerRun + PerRun
      BY PerRunIsNat, OneMore DEF Counted
    <3>2. (runs - 1) * PerRun \in Int /\ unread * MaxCall \in Int
      BY <1>a, PerRunIsNat DEF Counted
    <3> QED
      BY <3>1, <3>2, PerRunIsNat DEF Counted, RunBounded, TaskBounded, TrackerType
  <2> QED
    BY <2>2, <2>3
<1>8. CASE UNCHANGED vars
  BY <1>8, <1>k DEF vars, run, Counted
<1> QED
  BY <1>1, <1>2, <1>3, <1>4, <1>5, <1>6, <1>7, <1>8 DEF Next

\* A task spends no more than its budget allows to each of its runs and to the
\* calls whose answers were of no use (CostBudgetTracker, llm_score_criteria).
THEOREM SpendingBounded == Spec => []SpendBounded
<1>1. SpendInv => SpendBounded
  <2> SUFFICES ASSUME SpendInv, TaskBudget > 0
               PROVE  spent <= runs * PerRun + unread * MaxCall
    BY DEF SpendBounded
  <2>1. runs * PerRun = (runs - 1) * PerRun + PerRun
    BY PerRunIsNat, OneMore DEF SpendInv, Counted
  <2>2. (runs - 1) * PerRun \in Int /\ unread * MaxCall \in Int
    BY PerRunIsNat, EvaluationAssumption DEF SpendInv, Counted
  <2> QED
    BY <2>1, <2>2, PerRunIsNat
       DEF SpendInv, Counted, RunBounded, TaskBounded, TrackerType
<1> QED
  BY <1>1, SpendInit, SpendStep, PTL DEF Spec
=============================================================================
