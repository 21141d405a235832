--------------------------- MODULE InductionLemmas ---------------------------
(***************************************************************************)
(* Induction over the natural numbers, without an operator as a parameter: *)
(* the induction is over a set, that of the numbers with the property, so  *)
(* that its lemmas can be cited for any property there is.  They make the  *)
(* recursive functions of the models something to reason about.  And the   *)
(* counting of a finite set in an order, for what is sorted.               *)
(***************************************************************************)
EXTENDS Lists, WellFoundedInduction, FiniteSetTheorems, TLAPS

Less == {pair \in Nat \X Nat : pair[1] < pair[2]}

LEMMA LessWellFounded == IsWellFoundedOn(Less, Nat)
BY NatLessThanWellFounded, Zenon DEF OpToRel, Less

\* A set of natural numbers has a least element.
LEMMA LeastElement ==
    ASSUME NEW T \in SUBSET Nat, T # {}
    PROVE  \E x \in T : \A y \in T : x <= y
<1>1. PICK x \in T : \A y \in T : ~(<<y, x>> \in Less)
  BY LessWellFounded, WFMin
<1>2. ASSUME NEW y \in T, y < x
      PROVE  <<y, x>> \in Less
  <2>1. <<y, x>> \in Nat \X Nat
    OBVIOUS
  <2> QED
    BY <1>2, <2>1 DEF Less
<1>3. \A y \in T : ~(y < x)
  BY <1>1, <1>2
<1> QED
  BY <1>3

\* A set that holds zero, and with a number below n its successor, holds all up to n.
LEMMA Induction ==
    ASSUME NEW n \in Nat, NEW T, 0 \in T, \A i \in 0 .. n - 1 : i \in T => i + 1 \in T
    PROVE  0 .. n \subseteq T
<1> DEFINE missing == {i \in 0 .. n : i \notin T}
<1> SUFFICES ASSUME missing # {} PROVE FALSE
  OBVIOUS
<1>1. missing \in SUBSET Nat
  OBVIOUS
<1>2. PICK x \in missing : \A y \in missing : x <= y
  <2> HIDE DEF missing
  <2> QED
    BY <1>1, LeastElement
<1>3. x \in 1 .. n /\ x - 1 \in 0 .. n - 1
  OBVIOUS
<1>4. x - 1 \in T
  BY <1>2, <1>3
<1> QED
  BY <1>2, <1>3, <1>4

\* f is defined up to k by its first value and by steps within V.
Upto(k, f, V, base, step) ==
    /\ f \in [0 .. k -> V] /\ f[0] = base
    /\ \A i \in 1 .. k : f[i] = step[<<i, f[i - 1]>>]

\* The function that is given by its first value and by the step from each value to the
\* next exists, when the steps stay within a set of values.
LEMMA RecursiveFunction ==
    ASSUME NEW n \in Nat, NEW V, NEW base \in V, NEW step \in [(1 .. n) \X V -> V]
    PROVE  \E f : Upto(n, f, V, base, step)
<1> DEFINE T == {k \in 0 .. n : \E f : Upto(k, f, V, base, step)}
<1>1. 0 \in T
  <2>1. Upto(0, [i \in 0 .. 0 |-> base], V, base, step)
    BY DEF Upto
  <2> QED
    BY <2>1
<1>2. ASSUME NEW k \in 0 .. n - 1, k \in T
      PROVE  k + 1 \in T
  <2>1. PICK f : Upto(k, f, V, base, step)
    BY <1>2
  <2> DEFINE last == step[<<k + 1, f[k]>>]
             g == [i \in 0 .. k + 1 |-> IF i = k + 1 THEN last ELSE f[i]]
  <2>2. k \in 0 .. k /\ k + 1 \in 1 .. n /\ f[k] \in V
    BY <2>1 DEF Upto
  <2>3. last \in V
    BY <2>2
  <2>4. g \in [0 .. k + 1 -> V]
    BY <2>1, <2>3 DEF Upto
  <2>5. g[0] = base
    BY <2>1 DEF Upto
  <2>6. ASSUME NEW i \in 1 .. k + 1
        PROVE  g[i] = step[<<i, g[i - 1]>>]
    <3>1. i - 1 \in 0 .. k /\ i \in 0 .. k + 1 /\ i - 1 \in 0 .. k + 1 /\ i - 1 # k + 1
      OBVIOUS
    <3>2. g[i - 1] = f[i - 1]
      BY <3>1
    <3>3. CASE i = k + 1
      <4>1. g[i] = last /\ i - 1 = k
        BY <3>1, <3>3
      <4> QED
        BY <3>2, <3>3, <4>1
    <3>4. CASE i # k + 1
      <4>1. g[i] = f[i] /\ i \in 1 .. k
        BY <3>1, <3>4
      <4> QED
        BY <2>1, <3>2, <4>1 DEF Upto
    <3> QED
      BY <3>3, <3>4
  <2>7. Upto(k + 1, g, V, base, step)
    <3> HIDE DEF g
    <3> QED
      BY <2>4, <2>5, <2>6 DEF Upto
  <2>8. k + 1 \in 0 .. n
    OBVIOUS
  <2> HIDE DEF g
  <2> QED
    BY <2>7, <2>8
<1>3. 0 .. n \subseteq T
  <2> HIDE DEF T
  <2> QED
    BY <1>1, <1>2, Induction
<1> QED
  BY <1>3

\* h takes the same steps, for as long as it stays within V.
Follows(n, h, V, base, step) ==
    /\ h = [k \in 0 .. n |-> h[k]] /\ h[0] = base
    /\ \A k \in 1 .. n : h[k - 1] \in V => h[k] = step[<<k, h[k - 1]>>]

\* There is no other such function.
LEMMA OnlyRecursion ==
    ASSUME NEW n \in Nat, NEW V, NEW base, NEW step, NEW g, Upto(n, g, V, base, step),
           NEW h, Follows(n, h, V, base, step)
    PROVE  h = g
<1> DEFINE T == {k \in 0 .. n : h[k] = g[k]}
<1>1. g \in [0 .. n -> V] /\ g[0] = base /\ \A k \in 1 .. n : g[k] = step[<<k, g[k - 1]>>]
  BY DEF Upto
<1>5. /\ h = [k \in 0 .. n |-> h[k]] /\ h[0] = base
      /\ \A k \in 1 .. n : h[k - 1] \in V => h[k] = step[<<k, h[k - 1]>>]
  BY DEF Follows
<1>2. 0 \in T
  BY <1>1, <1>5
<1>3. ASSUME NEW k \in 0 .. n - 1, k \in T PROVE k + 1 \in T
  <2> DEFINE m == k + 1
  <2>1. m \in 1 .. n /\ m \in 0 .. n /\ m - 1 = k /\ k \in 0 .. n
    OBVIOUS
  <2>2. h[k] = g[k] /\ g[k] \in V
    BY <1>1, <1>3, <2>1
  <2> HIDE DEF m
  <2>3. h[m] = step[<<m, h[m - 1]>>] /\ g[m] = step[<<m, g[m - 1]>>]
    BY <1>1, <1>5, <2>1, <2>2
  <2>4. m \in T
    BY <2>1, <2>2, <2>3
  <2> QED
    BY <2>4 DEF m
<1>4. 0 .. n \subseteq T
  <2> HIDE DEF T
  <2> QED
    BY <1>2, <1>3, Induction
<1> QED
  BY <1>1, <1>4, <1>5

-----------------------------------------------------------------------------
(* A finite set in order.                                                  *)

\* R is a strict order of S in which any two are comparable.
StrictlyOrdered(S, R) ==
    /\ \A x \in S : <<x, x>> \notin R
    /\ \A x, y, z \in S : <<x, y>> \in R /\ <<y, z>> \in R => <<x, z>> \in R
    /\ \A x, y \in S : x = y \/ <<x, y>> \in R \/ <<y, x>> \in R

\* In such an order of a finite set every place is taken by exactly one.
LEMMA RanksAreTaken ==
    ASSUME NEW S, IsFiniteSet(S), NEW R, StrictlyOrdered(S, R)
    PROVE  /\ \A x \in S : Rank(S, R, x) \in 0 .. Cardinality(S) - 1
           /\ \A x, y \in S : <<x, y>> \in R => Rank(S, R, x) < Rank(S, R, y)
           /\ \A x, y \in S : Rank(S, R, x) = Rank(S, R, y) => x = y
           /\ \A p \in 0 .. Cardinality(S) - 1 : \E x \in S : Rank(S, R, x) = p
<1> DEFINE n == Cardinality(S)
           r == [x \in S |-> Rank(S, R, x)]
<1>1. n \in Nat
  BY FS_CardinalityType
<1>2. \A x \in S : Preceding(S, R, x) \in SUBSET S /\ IsFiniteSet(Preceding(S, R, x))
  BY FS_Subset DEF Preceding
<1>3. ASSUME NEW x \in S PROVE Rank(S, R, x) \in 0 .. n - 1
  <2>1. Preceding(S, R, x) # S
    BY DEF Preceding, StrictlyOrdered
  <2>2. Rank(S, R, x) \in Nat /\ Rank(S, R, x) <= n /\ Rank(S, R, x) # n
    BY <1>2, <2>1, FS_Subset, FS_CardinalityType DEF Rank
  <2> HIDE DEF n
  <2> QED
    BY <1>1, <2>2
<1>4. ASSUME NEW x \in S, NEW y \in S, <<x, y>> \in R
      PROVE  Rank(S, R, x) < Rank(S, R, y)
  <2>1. Preceding(S, R, x) \in SUBSET Preceding(S, R, y)
    BY <1>4 DEF Preceding, StrictlyOrdered
  <2>2. Preceding(S, R, x) # Preceding(S, R, y)
    BY <1>4 DEF Preceding, StrictlyOrdered
  <2>3. Rank(S, R, x) <= Rank(S, R, y) /\ Rank(S, R, x) # Rank(S, R, y)
    BY <1>2, <2>1, <2>2, FS_Subset DEF Rank
  <2>4. Rank(S, R, x) \in Int /\ Rank(S, R, y) \in Int
    BY <1>3
  <2> QED
    BY <2>3, <2>4
<1>5. ASSUME NEW x \in S, NEW y \in S, Rank(S, R, x) = Rank(S, R, y)
      PROVE  x = y
  <2>1. Rank(S, R, x) \in Int /\ Rank(S, R, y) \in Int
    BY <1>3
  <2>2. <<x, y>> \notin R /\ <<y, x>> \notin R
    <3>1. <<x, y>> \in R => Rank(S, R, x) < Rank(S, R, y)
      BY <1>4
    <3>2. <<y, x>> \in R => Rank(S, R, y) < Rank(S, R, x)
      BY <1>4
    <3> QED
      BY <1>5, <2>1, <3>1, <3>2
  <2>3. x = y \/ <<x, y>> \in R \/ <<y, x>> \in R
    BY DEF StrictlyOrdered
  <2> QED
    BY <2>2, <2>3
<1>6. IsFiniteSet(0 .. n - 1) /\ Cardinality(0 .. n - 1) = n
  <2>1. 0 \in Int /\ n - 1 \in Int
    BY <1>1
  <2>2. /\ IsFiniteSet(0 .. n - 1)
        /\ Cardinality(0 .. n - 1) = IF 0 > n - 1 THEN 0 ELSE n - 1 - 0 + 1
    BY <2>1, FS_Interval
  <2> HIDE DEF n
  <2> QED
    BY <1>1, <2>2
<1>7. r \in Injection(S, 0 .. n - 1)
  <2> HIDE DEF n
  <2>1. r \in [S -> 0 .. n - 1] /\ \A x \in S : r[x] = Rank(S, R, x)
    BY <1>3
  <2> HIDE DEF r
  <2> QED
    BY <1>5, <2>1 DEF Injection, IsInjective
<1>8. r \in Surjection(S, 0 .. n - 1)
  <2> HIDE DEF r
  <2> QED
    BY <1>6, <1>7, FS_Injection
<1>9. ASSUME NEW p \in 0 .. n - 1 PROVE \E x \in S : Rank(S, R, x) = p
  <2>1. PICK x \in S : r[x] = p
    BY <1>8 DEF Surjection
  <2> QED
    BY <2>1
<1> QED
  BY <1>3, <1>4, <1>5, <1>9

\* As many members as numbers when different numbers give different members.
LEMMA CountOf ==
    ASSUME NEW n \in Nat, NEW S, NEW f \in [1 .. n -> S],
           \A j, k \in 1 .. n : f[j] = f[k] => j = k, \A x \in S : \E k \in 1 .. n : f[k] = x
    PROVE  IsFiniteSet(S) /\ Cardinality(S) = n
<1>1. f \in Bijection(1 .. n, S)
  BY DEF Bijection, Injection, Surjection, IsInjective
<1>2. ExistsBijection(1 .. n, S)
  BY <1>1 DEF ExistsBijection
<1> QED
  BY <1>2, FS_CountingElements, FS_NatBijection

\* If there are no more members than numbers, every member has a number.
LEMMA AllCounted ==
    ASSUME NEW n \in Nat, NEW S, IsFiniteSet(S), Cardinality(S) = n, NEW f \in [1 .. n -> S],
           \A j, k \in 1 .. n : f[j] = f[k] => j = k, NEW x \in S
    PROVE  \E k \in 1 .. n : f[k] = x
<1>1. f \in Injection(1 .. n, S)
  BY DEF Injection, IsInjective
<1>2. Cardinality(1 .. n) = n
  <2>1. 1 \in Int /\ n \in Int
    OBVIOUS
  <2>2. Cardinality(1 .. n) = IF 1 > n THEN 0 ELSE n - 1 + 1
    BY <2>1, FS_Interval
  <2> QED
    BY <2>2
<1>3. f \in Surjection(1 .. n, S)
  BY <1>1, <1>2, FS_Injection
<1> QED
  BY <1>3 DEF Surjection

-----------------------------------------------------------------------------
(* Lists (Lists).                                                          *)

\* What is sorted has every member once, in the order.
LEMMA SortedMeans ==
    ASSUME NEW S, IsFiniteSet(S), NEW R, StrictlyOrdered(S, R)
    PROVE  /\ Cardinality(S) \in Nat
           /\ Sorted(S, R) \in [1 .. Cardinality(S) -> S]
           /\ \A p, q \in 1 .. Cardinality(S) :
                 /\ <<Sorted(S, R)[p], Sorted(S, R)[q]>> \in R <=> p < q
                 /\ Sorted(S, R)[p] = Sorted(S, R)[q] => p = q
           /\ \A x \in S : \E p \in 1 .. Cardinality(S) : Sorted(S, R)[p] = x
<1> DEFINE n == Cardinality(S)
           s == Sorted(S, R)
<1>1. n \in Nat
  BY FS_CardinalityType
<1>2. ASSUME NEW p \in 1 .. n
      PROVE  s[p] \in S /\ Rank(S, R, s[p]) = p - 1
  <2>1. p - 1 \in 0 .. n - 1
    BY <1>1
  <2>2. \E x \in S : Rank(S, R, x) = p - 1
    <3> HIDE DEF n
    <3> QED
      BY <2>1, RanksAreTaken DEF n
  <2>3. s[p] = CHOOSE x \in S : Rank(S, R, x) = p - 1
    BY DEF Sorted
  <2> QED
    BY <2>2, <2>3
<1>3. s \in [1 .. n -> S]
  BY <1>2 DEF Sorted
<1>4. ASSUME NEW p \in 1 .. n, NEW q \in 1 .. n
      PROVE  (<<s[p], s[q]>> \in R <=> p < q) /\ (s[p] = s[q] => p = q)
  <2>1. /\ s[p] \in S /\ s[q] \in S /\ Rank(S, R, s[p]) = p - 1 /\ Rank(S, R, s[q]) = q - 1
    BY <1>2
  <2>2. /\ <<s[p], s[q]>> \in R => p - 1 < q - 1
        /\ <<s[q], s[p]>> \in R => q - 1 < p - 1
    <3> HIDE DEF s
    <3> QED
      BY <2>1, RanksAreTaken
  <2>3. s[p] = s[q] \/ <<s[p], s[q]>> \in R \/ <<s[q], s[p]>> \in R
    <3> HIDE DEF s
    <3> QED
      BY <2>1 DEF StrictlyOrdered
  <2>4. s[p] = s[q] => p = q
    BY <2>1, <1>1
  <2> HIDE DEF s, n
  <2> QED
    BY <1>1, <2>2, <2>3, <2>4
<1>5. ASSUME NEW x \in S
      PROVE  \E p \in 1 .. n : s[p] = x
  <2>1. Rank(S, R, x) \in 0 .. n - 1
    BY RanksAreTaken
  <2>2. PICK p \in 1 .. n : p - 1 = Rank(S, R, x)
    <3> HIDE DEF n
    <3>1. Rank(S, R, x) + 1 \in 1 .. n
      BY <1>1, <2>1
    <3> QED
      BY <2>1, <3>1
  <2>3. s[p] \in S /\ Rank(S, R, s[p]) = Rank(S, R, x)
    BY <1>2, <2>2
  <2>4. s[p] = x
    <3> HIDE DEF s
    <3> QED
      BY <2>3, RanksAreTaken
  <2> QED
    BY <2>4
<1> QED
  BY <1>1, <1>3, <1>4, <1>5

\* A list that has every member, each before those that come after it, is the sorted one.
LEMMA SortedIsUnique ==
    ASSUME NEW S, NEW R, StrictlyOrdered(S, R), NEW n \in Nat, NEW f \in [1 .. n -> S],
           \A x \in S : \E p \in 1 .. n : f[p] = x,
           \A p, q \in 1 .. n : p < q => <<f[p], f[q]>> \in R
    PROVE  IsFiniteSet(S) /\ Cardinality(S) = n /\ Sorted(S, R) = f
<1>1. \A p, q \in 1 .. n : f[p] = f[q] => p = q
  <2> SUFFICES ASSUME NEW p \in 1 .. n, NEW q \in 1 .. n, f[p] = f[q], p # q PROVE FALSE
    OBVIOUS
  <2>1. p < q \/ q < p
    OBVIOUS
  <2>2. <<f[p], f[p]>> \in R
    BY <2>1
  <2> QED
    BY <2>2 DEF StrictlyOrdered
<1>2. IsFiniteSet(S) /\ Cardinality(S) = n
  BY <1>1, CountOf
<1>3. ASSUME NEW p \in 1 .. n
      PROVE  Rank(S, R, f[p]) = p - 1
  <2>1. \A q \in 1 .. n : <<f[q], f[p]>> \in R <=> q < p
    <3> SUFFICES ASSUME NEW q \in 1 .. n, <<f[q], f[p]>> \in R PROVE q < p
      OBVIOUS
    <3>1. q = p => FALSE
      BY DEF StrictlyOrdered
    <3>2. p < q => FALSE
      <4> SUFFICES ASSUME p < q PROVE FALSE
        OBVIOUS
      <4>1. <<f[p], f[q]>> \in R
        OBVIOUS
      <4>2. <<f[p], f[p]>> \in R
        BY <4>1 DEF StrictlyOrdered
      <4> QED
        BY <4>2 DEF StrictlyOrdered
    <3> QED
      BY <3>1, <3>2
  <2> DEFINE B == Preceding(S, R, f[p])
             g == [q \in 1 .. p - 1 |-> f[q]]
  <2>2. \A q \in 1 .. p - 1 : q \in 1 .. n /\ f[q] \in B
    BY <2>1 DEF Preceding
  <2>3. g \in [1 .. p - 1 -> B]
    <3> HIDE DEF B
    <3> QED
      BY <2>2
  <2>4. \A x \in B : \E q \in 1 .. p - 1 : g[q] = x
    <3> SUFFICES ASSUME NEW x \in B PROVE \E q \in 1 .. p - 1 : g[q] = x
      OBVIOUS
    <3>1. x \in S /\ <<x, f[p]>> \in R
      BY DEF Preceding
    <3>2. PICK q \in 1 .. n : f[q] = x
      BY <3>1
    <3>3. q \in 1 .. p - 1
      BY <3>1, <3>2, <2>1
    <3> QED
      BY <3>2, <3>3
  <2>5. \A j, k \in 1 .. p - 1 : g[j] = g[k] => j = k
    BY <1>1, <2>2
  <2>6. p - 1 \in Nat
    OBVIOUS
  <2>7. Cardinality(B) = p - 1
    <3> HIDE DEF B, g
    <3> QED
      BY <2>3, <2>4, <2>5, <2>6, CountOf
  <2> QED
    BY <2>7 DEF Rank
<1>4. ASSUME NEW p \in 1 .. n
      PROVE  Sorted(S, R)[p] = f[p]
  <2>1. Sorted(S, R)[p] = CHOOSE x \in S : Rank(S, R, x) = p - 1
    BY <1>2 DEF Sorted
  <2>2. \A x \in S : Rank(S, R, x) = p - 1 => x = f[p]
    BY <1>2, <1>3, RanksAreTaken
  <2> QED
    BY <1>3, <2>1, <2>2
<1>5. Sorted(S, R) = [p \in 1 .. n |-> Sorted(S, R)[p]]
  BY <1>2 DEF Sorted
<1> QED
  BY <1>2, <1>4, <1>5

\* Numbers in order.
LEMMA NumbersOrdered ==
    ASSUME NEW S \in SUBSET Int
    PROVE  StrictlyOrdered(S, Increasing(S))
<1>1. \A x, y \in S : <<x, y>> \in Increasing(S) <=> x < y
  BY DEF Increasing
<1> QED
  BY <1>1 DEF StrictlyOrdered

LEMMA AscendingMeans ==
    ASSUME NEW S \in SUBSET Int, IsFiniteSet(S)
    PROVE  /\ Cardinality(S) \in Nat
           /\ Ascending(S) \in [1 .. Cardinality(S) -> S]
           /\ \A p, q \in 1 .. Cardinality(S) : Ascending(S)[p] < Ascending(S)[q] <=> p < q
           /\ \A p, q \in 1 .. Cardinality(S) : Ascending(S)[p] = Ascending(S)[q] => p = q
           /\ \A x \in S : \E p \in 1 .. Cardinality(S) : Ascending(S)[p] = x
<1>1. StrictlyOrdered(S, Increasing(S))
  BY NumbersOrdered
<1>2. /\ Cardinality(S) \in Nat
      /\ Ascending(S) \in [1 .. Cardinality(S) -> S]
      /\ \A p, q \in 1 .. Cardinality(S) :
            /\ <<Ascending(S)[p], Ascending(S)[q]>> \in Increasing(S) <=> p < q
            /\ Ascending(S)[p] = Ascending(S)[q] => p = q
      /\ \A x \in S : \E p \in 1 .. Cardinality(S) : Ascending(S)[p] = x
  BY <1>1, SortedMeans DEF Ascending
<1>3. \A p, q \in 1 .. Cardinality(S) :
         <<Ascending(S)[p], Ascending(S)[q]>> \in Increasing(S)
            <=> Ascending(S)[p] < Ascending(S)[q]
  BY <1>2 DEF Increasing
<1> QED
  BY <1>2, <1>3

\* The numbers up to n are already in order.
LEMMA AscendingOfAll ==
    ASSUME NEW n \in Nat
    PROVE  Ascending(1 .. n) = [p \in 1 .. n |-> p]
<1> DEFINE f == [p \in 1 .. n |-> p]
           S == 1 .. n
           R == Increasing(S)
<1>1. S \in SUBSET Int /\ f \in [1 .. n -> S] /\ \A x \in S : \E p \in 1 .. n : f[p] = x
  OBVIOUS
<1>2. StrictlyOrdered(S, R)
  <2> HIDE DEF S
  <2> QED
    BY <1>1, NumbersOrdered
<1>3. \A p, q \in 1 .. n : p < q => <<f[p], f[q]>> \in R
  BY DEF Increasing
<1>4. Sorted(S, R) = f
  <2> HIDE DEF S, f, R
  <2> QED
    BY <1>1, <1>2, <1>3, SortedIsUnique, ZenonT(30)
<1> QED
  BY <1>4 DEF Ascending

\* Some of the places of a list, in their order.
PickedList(V, s, I) ==
    /\ IsFiniteSet(I) /\ Cardinality(I) \in 0 .. Len(s)
    /\ Picked(s, I) \in Seq(V) /\ Len(Picked(s, I)) = Cardinality(I)
    /\ Ascending(I) \in [1 .. Cardinality(I) -> I]
    /\ \A p \in 1 .. Cardinality(I) : Picked(s, I)[p] = s[Ascending(I)[p]]
    /\ \A p, q \in 1 .. Cardinality(I) : Ascending(I)[p] < Ascending(I)[q] <=> p < q
    /\ \A p, q \in 1 .. Cardinality(I) : Ascending(I)[p] = Ascending(I)[q] => p = q
    /\ \A i \in I : \E p \in 1 .. Cardinality(I) : Ascending(I)[p] = i

LEMMA PickedMeans ==
    ASSUME NEW V, NEW s \in Seq(V), NEW I \in SUBSET DOMAIN s
    PROVE  PickedList(V, s, I)
<1>1. DOMAIN s = 1 .. Len(s) /\ Len(s) \in Nat /\ \A i \in DOMAIN s : s[i] \in V
  OBVIOUS
<1>2. IsFiniteSet(1 .. Len(s)) /\ Cardinality(1 .. Len(s)) = Len(s)
  <2>1. 1 \in Int /\ Len(s) \in Int
    BY <1>1
  <2>2. /\ IsFiniteSet(1 .. Len(s))
        /\ Cardinality(1 .. Len(s)) = IF 1 > Len(s) THEN 0 ELSE Len(s) - 1 + 1
    BY <2>1, FS_Interval
  <2> QED
    BY <1>1, <2>2
<1>3. IsFiniteSet(I) /\ Cardinality(I) \in 0 .. Len(s)
  <2>1. I \in SUBSET (1 .. Len(s))
    BY <1>1
  <2>2. IsFiniteSet(I) /\ Cardinality(I) <= Cardinality(1 .. Len(s))
    BY <1>2, <2>1, FS_Subset
  <2>3. Cardinality(I) \in Nat
    BY <2>2, FS_CardinalityType
  <2> QED
    BY <1>1, <1>2, <2>2, <2>3
<1>4. I \in SUBSET Int
  BY <1>1
<1>5. /\ Ascending(I) \in [1 .. Cardinality(I) -> I]
      /\ \A p, q \in 1 .. Cardinality(I) : Ascending(I)[p] < Ascending(I)[q] <=> p < q
      /\ \A p, q \in 1 .. Cardinality(I) : Ascending(I)[p] = Ascending(I)[q] => p = q
      /\ \A i \in I : \E p \in 1 .. Cardinality(I) : Ascending(I)[p] = i
  BY <1>3, <1>4, AscendingMeans
<1>6. \A p \in 1 .. Cardinality(I) : Picked(s, I)[p] = s[Ascending(I)[p]] /\ Picked(s, I)[p] \in V
  BY <1>1, <1>5 DEF Picked
<1>7. Picked(s, I) \in Seq(V) /\ Len(Picked(s, I)) = Cardinality(I)
  <2>1. Picked(s, I) = [p \in 1 .. Cardinality(I) |-> Picked(s, I)[p]]
    BY DEF Picked
  <2>2. Picked(s, I) \in [1 .. Cardinality(I) -> V]
    BY <1>6, <2>1
  <2> QED
    BY <1>3, <2>2
<1> QED
  BY <1>3, <1>5, <1>6, <1>7 DEF PickedList

\* The greatest number of a set that is bounded.
LEMMA BoundedHasGreatest ==
    ASSUME NEW n \in Int, NEW T \in SUBSET Int, T # {}, \A x \in T : x <= n
    PROVE  \E x \in T : \A y \in T : y <= x
<1> DEFINE U == {n - x : x \in T}
<1>1. U \in SUBSET Nat /\ U # {}
  <2>1. \A x \in T : n - x \in Nat
    OBVIOUS
  <2>2. \A u \in U : u \in Nat
    BY <2>1
  <2>3. PICK x \in T : TRUE
    OBVIOUS
  <2>4. n - x \in U
    BY <2>3
  <2> HIDE DEF U
  <2> QED
    BY <2>2, <2>4
<1>2. PICK u \in U : \A v \in U : u <= v
  <2> HIDE DEF U
  <2> QED
    BY <1>1, LeastElement
<1>3. PICK x \in T : u = n - x
  OBVIOUS
<1>4. \A y \in T : n - x <= n - y
  BY <1>2, <1>3
<1> QED
  BY <1>4

\* The list that is made of the lists of a list has the members of each, by their places.
FlatBy(seqs, n, at) ==
    /\ Flat(seqs) = [p \in 1 .. n |-> seqs[at[p][1]][at[p][2]]]
    /\ \A p \in 1 .. n : at[p][1] \in DOMAIN seqs /\ at[p][2] \in DOMAIN seqs[at[p][1]]
    /\ \A i \in DOMAIN seqs : \A k \in DOMAIN seqs[i] :
          \E p \in 1 .. n : at[p][1] = i /\ at[p][2] = k
    /\ \A p, q \in 1 .. n : at[p][1] = at[q][1] /\ at[p][2] = at[q][2] => p = q

LEMMA FlatMeans ==
    ASSUME NEW m \in Nat, NEW seqs, DOMAIN seqs = 1 .. m, NEW len \in [1 .. m -> Nat],
           \A i \in 1 .. m : DOMAIN seqs[i] = 1 .. len[i]
    PROVE  \E n \in Nat : \E at : FlatBy(seqs, n, at)
<1> DEFINE here == [i \in 1 .. m |-> {<<i, k>> : k \in DOMAIN seqs[i]}]
           sets == {{<<i, k>> : k \in DOMAIN seqs[i]} : i \in DOMAIN seqs}
           S == UNION {{<<i, k>> : k \in DOMAIN seqs[i]} : i \in DOMAIN seqs}
           R == Lexicographic(S)
           n == Cardinality(S)
           at == Sorted(S, R)
<1>1. \A i \in 1 .. m : IsFiniteSet({<<i, k>> : k \in DOMAIN seqs[i]})
  <2> SUFFICES ASSUME NEW i \in 1 .. m PROVE IsFiniteSet({<<i, k>> : k \in DOMAIN seqs[i]})
    OBVIOUS
  <2>1. IsFiniteSet(1 .. len[i])
    <3>1. 1 \in Int /\ len[i] \in Int
      OBVIOUS
    <3> QED
      BY <3>1, FS_Interval
  <2> DEFINE T == {<<i, k>> : k \in 1 .. len[i]}
             f == [k \in 1 .. len[i] |-> <<i, k>>]
  <2>2. f \in Surjection(1 .. len[i], T)
    BY DEF Surjection
  <2>3. IsFiniteSet(T)
    <3> HIDE DEF f, T
    <3> QED
      BY <2>1, <2>2, FS_Surjection
  <2> QED
    BY <2>3
<1>2. IsFiniteSet(sets)
  <2>1. here \in Surjection(1 .. m, sets)
    <3>1. \A i \in 1 .. m : {<<i, k>> : k \in DOMAIN seqs[i]} \in sets
      OBVIOUS
    <3>2. \A T \in sets : \E i \in 1 .. m : T = {<<i, k>> : k \in DOMAIN seqs[i]}
      OBVIOUS
    <3>3. here \in [1 .. m -> sets]
      <4> HIDE DEF sets
      <4> QED
        BY <3>1
    <3>4. \A T \in sets : \E i \in 1 .. m : here[i] = T
      <4> HIDE DEF sets
      <4> QED
        BY <3>2
    <3> HIDE DEF here, sets
    <3> QED
      BY <3>3, <3>4 DEF Surjection
  <2>2. IsFiniteSet(1 .. m)
    BY FS_Interval
  <2> HIDE DEF here, sets
  <2> QED
    BY <2>1, <2>2, FS_Surjection
<1>3. IsFiniteSet(S)
  <2>1. \A T \in sets : IsFiniteSet(T)
    BY <1>1
  <2>2. S = UNION sets
    OBVIOUS
  <2> HIDE DEF sets, S
  <2> QED
    BY <1>2, <2>1, <2>2, FS_UNION
<1>4. \A x \in S : x \in Nat \X Nat /\ x[1] \in DOMAIN seqs /\ x[2] \in DOMAIN seqs[x[1]]
  OBVIOUS
<1>5. \A i \in DOMAIN seqs : \A k \in DOMAIN seqs[i] : <<i, k>> \in S
  OBVIOUS
<1>6. Flat(seqs) = [p \in DOMAIN at |-> seqs[at[p][1]][at[p][2]]]
  BY DEF Flat
<1> HIDE DEF S
<1>7. \A x, y \in S : <<x, y>> \in R <=> \/ x[1] < y[1]
                                         \/ x[1] = y[1] /\ x[2] < y[2]
  BY DEF Lexicographic
<1>8. StrictlyOrdered(S, R)
  <2> HIDE DEF R
  <2>1. \A x \in S : <<x, x>> \notin R
    BY <1>4, <1>7
  <2>2. \A x, y, z \in S : <<x, y>> \in R /\ <<y, z>> \in R => <<x, z>> \in R
    <3> SUFFICES ASSUME NEW x \in S, NEW y \in S, NEW z \in S, <<x, y>> \in R, <<y, z>> \in R
                 PROVE  <<x, z>> \in R
      OBVIOUS
    <3>1. /\ x[1] \in Nat /\ x[2] \in Nat /\ y[1] \in Nat /\ y[2] \in Nat
          /\ z[1] \in Nat /\ z[2] \in Nat
      BY <1>4
    <3>2. /\ x[1] < y[1] \/ (x[1] = y[1] /\ x[2] < y[2])
          /\ y[1] < z[1] \/ (y[1] = z[1] /\ y[2] < z[2])
      BY <1>7
    <3>3. x[1] < z[1] \/ (x[1] = z[1] /\ x[2] < z[2])
      BY <3>1, <3>2
    <3> QED
      BY <1>7, <3>3
  <2>3. \A x, y \in S : x = y \/ <<x, y>> \in R \/ <<y, x>> \in R
    <3> SUFFICES ASSUME NEW x \in S, NEW y \in S, <<x, y>> \notin R, <<y, x>> \notin R
                 PROVE  x = y
      OBVIOUS
    <3>1. /\ x[1] \in Nat /\ x[2] \in Nat /\ y[1] \in Nat /\ y[2] \in Nat
          /\ x = <<x[1], x[2]>> /\ y = <<y[1], y[2]>>
      BY <1>4
    <3>2. x[1] = y[1] /\ x[2] = y[2]
      BY <1>7, <3>1
    <3> QED
      BY <3>1, <3>2
  <2> QED
    BY <2>1, <2>2, <2>3 DEF StrictlyOrdered
<1>9. /\ n \in Nat /\ at \in [1 .. n -> S]
      /\ \A p, q \in 1 .. n : at[p] = at[q] => p = q
      /\ \A x \in S : \E p \in 1 .. n : at[p] = x
  <2> HIDE DEF R
  <2>1. /\ Cardinality(S) \in Nat
        /\ Sorted(S, R) \in [1 .. Cardinality(S) -> S]
        /\ \A p, q \in 1 .. Cardinality(S) :
              /\ <<Sorted(S, R)[p], Sorted(S, R)[q]>> \in R <=> p < q
              /\ Sorted(S, R)[p] = Sorted(S, R)[q] => p = q
        /\ \A x \in S : \E p \in 1 .. Cardinality(S) : Sorted(S, R)[p] = x
    BY <1>3, <1>8, SortedMeans, SMTT(30)
  <2> QED
    BY <2>1
<1> HIDE DEF n, at, R
<1>10. DOMAIN at = 1 .. n /\ \A p \in 1 .. n : at[p] \in S
  BY <1>9
<1>11. \A p \in 1 .. n : at[p][1] \in DOMAIN seqs /\ at[p][2] \in DOMAIN seqs[at[p][1]]
  BY <1>4, <1>10
<1>12. \A i \in DOMAIN seqs : \A k \in DOMAIN seqs[i] :
          \E p \in 1 .. n : at[p][1] = i /\ at[p][2] = k
  <2> SUFFICES ASSUME NEW i \in DOMAIN seqs, NEW k \in DOMAIN seqs[i]
               PROVE  \E p \in 1 .. n : at[p][1] = i /\ at[p][2] = k
    OBVIOUS
  <2>1. PICK p \in 1 .. n : at[p] = <<i, k>>
    BY <1>5, <1>9
  <2> QED
    BY <2>1
<1>13. \A p, q \in 1 .. n : at[p][1] = at[q][1] /\ at[p][2] = at[q][2] => p = q
  <2> SUFFICES ASSUME NEW p \in 1 .. n, NEW q \in 1 .. n,
                      at[p][1] = at[q][1], at[p][2] = at[q][2]
               PROVE  p = q
    OBVIOUS
  <2>1. at[p] = <<at[p][1], at[p][2]>> /\ at[q] = <<at[q][1], at[q][2]>>
    BY <1>4, <1>10
  <2>2. at[p] = at[q]
    BY <2>1
  <2> QED
    BY <1>9, <2>2
<1>14. FlatBy(seqs, n, at)
  BY <1>6, <1>10, <1>11, <1>12, <1>13 DEF FlatBy
<1> QED
  BY <1>9, <1>14

\* The numbers of an interval are already in order.
LEMMA AscendingInterval ==
    ASSUME NEW a \in Int, NEW b \in Int, a <= b + 1
    PROVE  Ascending(a .. b) = [p \in 1 .. b - a + 1 |-> a + p - 1]
<1> DEFINE n == b - a + 1
           f == [p \in 1 .. n |-> a + p - 1]
           S == a .. b
           R == Increasing(S)
<1>1. n \in Nat /\ S \in SUBSET Int /\ f \in [1 .. n -> S]
  OBVIOUS
<1>2. \A x \in S : \E p \in 1 .. n : f[p] = x
  <2> SUFFICES ASSUME NEW x \in S PROVE \E p \in 1 .. n : f[p] = x
    OBVIOUS
  <2>1. x - a + 1 \in 1 .. n /\ a + (x - a + 1) - 1 = x
    OBVIOUS
  <2>2. f[x - a + 1] = x
    BY <2>1
  <2> QED
    BY <2>1, <2>2
<1>3. \A p, q \in 1 .. n : p < q => <<f[p], f[q]>> \in R
  BY <1>1 DEF Increasing
<1>4. StrictlyOrdered(S, R)
  <2> HIDE DEF S
  <2> QED
    BY <1>1, NumbersOrdered
<1>5. Sorted(S, R) = f
  <2> HIDE DEF S, f, R, n
  <2> QED
    BY <1>1, <1>2, <1>3, <1>4, SortedIsUnique, ZenonT(30)
<1> QED
  BY <1>5 DEF Ascending

\* The recursion of a sum and that of a product.
Summing(f, n, total) ==
    total = [i \in 0 .. n |-> IF i = 0 THEN 0 ELSE total[i - 1] + f[i]]

Multiplying(f, n, product) ==
    product = [i \in 0 .. n |-> IF i = 0 THEN 1 ELSE product[i - 1] * f[i]]

LEMMA SummingExists ==
    ASSUME NEW n \in Nat, NEW f, \A i \in 1 .. n : f[i] \in Int
    PROVE  \E total \in [0 .. n -> Int] : Summing(f, n, total) /\ SumTo(f, n) = total[n]
<1> DEFINE step == [p \in (1 .. n) \X Int |-> p[2] + f[p[1]]]
<1>1. step \in [(1 .. n) \X Int -> Int]
  <2>1. ASSUME NEW p \in (1 .. n) \X Int PROVE p[2] + f[p[1]] \in Int
    <3>1. p[1] \in 1 .. n /\ p[2] \in Int
      OBVIOUS
    <3>2. f[p[1]] \in Int
      BY <3>1
    <3> QED
      BY <3>1, <3>2
  <2> QED
    BY <2>1
<1>2. PICK g : Upto(n, g, Int, 0, step)
  <2>1. 0 \in Int
    OBVIOUS
  <2> HIDE DEF step
  <2> QED
    BY <1>1, <2>1, RecursiveFunction
<1>3. g \in [0 .. n -> Int] /\ g[0] = 0 /\ \A i \in 1 .. n : g[i] = step[<<i, g[i - 1]>>]
  BY <1>2 DEF Upto
<1>4. ASSUME NEW i \in 1 .. n PROVE g[i] = g[i - 1] + f[i]
  <2>1. i - 1 \in 0 .. n /\ g[i - 1] \in Int /\ <<i, g[i - 1]>> \in (1 .. n) \X Int
    BY <1>3
  <2> QED
    BY <1>3, <2>1
<1>5. Summing(f, n, g)
  <2>1. \A i \in 0 .. n : g[i] = IF i = 0 THEN 0 ELSE g[i - 1] + f[i]
    <3> SUFFICES ASSUME NEW i \in 0 .. n PROVE g[i] = IF i = 0 THEN 0 ELSE g[i - 1] + f[i]
      OBVIOUS
    <3>1. i # 0 => i \in 1 .. n
      OBVIOUS
    <3> QED
      BY <1>3, <1>4, <3>1
  <2> QED
    BY <1>3, <2>1 DEF Summing
<1>6. ASSUME NEW h, Summing(f, n, h) PROVE h = g
  <2>1. \A i \in 0 .. n : h[i] = IF i = 0 THEN 0 ELSE h[i - 1] + f[i]
    BY <1>6 DEF Summing
  <2> DEFINE T == {i \in 0 .. n : h[i] = g[i]}
  <2>2. 0 \in T
    BY <2>1, <1>3
  <2>3. ASSUME NEW i \in 0 .. n - 1, i \in T PROVE i + 1 \in T
    <3>1. i + 1 \in 1 .. n /\ i + 1 \in 0 .. n /\ i + 1 # 0 /\ i + 1 - 1 = i
      OBVIOUS
    <3>2. h[i + 1] = h[i + 1 - 1] + f[i + 1] /\ g[i + 1] = g[i + 1 - 1] + f[i + 1]
      BY <2>1, <1>4, <3>1
    <3> QED
      BY <2>3, <3>1, <3>2
  <2>4. 0 .. n \subseteq T
    <3> HIDE DEF T
    <3> QED
      BY <2>2, <2>3, Induction
  <2>5. h = [i \in 0 .. n |-> h[i]]
    <3>1. h = [i \in 0 .. n |-> IF i = 0 THEN 0 ELSE h[i - 1] + f[i]]
      BY <1>6 DEF Summing
    <3> QED
      BY <3>1, Zenon
  <2> QED
    BY <1>3, <2>4, <2>5
<1>7. SumTo(f, n) = (CHOOSE total : Summing(f, n, total))[n]
  BY DEF SumTo, Summing
<1>8. (CHOOSE total : Summing(f, n, total)) = g
  BY <1>5, <1>6
<1> QED
  BY <1>3, <1>5, <1>7, <1>8

\* A sum grows by one value at a time.
LEMMA SumSteps ==
    ASSUME NEW n \in Nat, NEW f, \A i \in 1 .. n : f[i] \in Int
    PROVE  /\ SumTo(f, 0) = 0 /\ SumTo(f, n) \in Int
           /\ n > 0 => SumTo(f, n - 1) \in Int /\ SumTo(f, n) = SumTo(f, n - 1) + f[n]
<1>1. ASSUME NEW m \in 0 .. n
      PROVE  \E total \in [0 .. m -> Int] : Summing(f, m, total) /\ SumTo(f, m) = total[m]
  <2>1. m \in Nat /\ \A i \in 1 .. m : f[i] \in Int
    OBVIOUS
  <2> QED
    BY <2>1, SummingExists
<1>2. SumTo(f, 0) = 0
  <2>1. PICK total \in [0 .. 0 -> Int] : Summing(f, 0, total) /\ SumTo(f, 0) = total[0]
    <3>1. 0 \in 0 .. n
      OBVIOUS
    <3> QED
      BY <1>1, <3>1
  <2> QED
    BY <2>1 DEF Summing
<1>3. PICK g \in [0 .. n -> Int] : Summing(f, n, g) /\ SumTo(f, n) = g[n]
  BY <1>1
<1>4. \A i \in 0 .. n : g[i] = IF i = 0 THEN 0 ELSE g[i - 1] + f[i]
  BY <1>3 DEF Summing
<1>5. ASSUME n > 0
      PROVE  SumTo(f, n - 1) \in Int /\ SumTo(f, n) = SumTo(f, n - 1) + f[n]
  <2>1. n - 1 \in 0 .. n
    BY <1>5
  <2>2. PICK h \in [0 .. n - 1 -> Int] : Summing(f, n - 1, h) /\ SumTo(f, n - 1) = h[n - 1]
    BY <1>1, <2>1
  <2>3. \A i \in 0 .. n - 1 : h[i] = IF i = 0 THEN 0 ELSE h[i - 1] + f[i]
    BY <2>2 DEF Summing
  <2> DEFINE T == {i \in 0 .. n - 1 : h[i] = g[i]}
  <2>4. 0 \in T
    BY <2>1, <2>3, <1>4
  <2>5. ASSUME NEW i \in 0 .. n - 2, i \in T PROVE i + 1 \in T
    <3>1. i + 1 \in 0 .. n - 1 /\ i + 1 \in 0 .. n /\ i + 1 # 0 /\ i + 1 - 1 = i
      BY <1>5
    <3>2. h[i + 1] = h[i + 1 - 1] + f[i + 1] /\ g[i + 1] = g[i + 1 - 1] + f[i + 1]
      BY <2>3, <1>4, <3>1
    <3> QED
      BY <2>5, <3>1, <3>2
  <2>6. 0 .. n - 1 \subseteq T
    <3>1. n - 1 \in Nat /\ (n - 1) - 1 = n - 2
      BY <1>5
    <3> HIDE DEF T
    <3> QED
      BY <2>4, <2>5, <3>1, Induction
  <2>7. n - 1 \in T
    BY <2>6, <1>5
  <2>8. g[n] = g[n - 1] + f[n]
    BY <1>4, <1>5
  <2> QED
    BY <2>2, <2>7, <2>8, <1>3, <2>1
<1> QED
  BY <1>2, <1>3, <1>5

LEMMA MultiplyingExists ==
    ASSUME NEW n \in Nat, NEW f, \A i \in 1 .. n : f[i] \in Int
    PROVE  \E product \in [0 .. n -> Int] : Multiplying(f, n, product) /\ ProductTo(f, n) = product[n]
<1> DEFINE step == [p \in (1 .. n) \X Int |-> p[2] * f[p[1]]]
<1>1. step \in [(1 .. n) \X Int -> Int]
  <2>1. ASSUME NEW p \in (1 .. n) \X Int PROVE p[2] * f[p[1]] \in Int
    <3>1. p[1] \in 1 .. n /\ p[2] \in Int
      OBVIOUS
    <3>2. f[p[1]] \in Int
      BY <3>1
    <3> QED
      BY <3>1, <3>2
  <2> QED
    BY <2>1
<1>2. PICK g : Upto(n, g, Int, 1, step)
  <2>1. 1 \in Int
    OBVIOUS
  <2> HIDE DEF step
  <2> QED
    BY <1>1, <2>1, RecursiveFunction
<1>3. g \in [0 .. n -> Int] /\ g[0] = 1 /\ \A i \in 1 .. n : g[i] = step[<<i, g[i - 1]>>]
  BY <1>2 DEF Upto
<1>4. ASSUME NEW i \in 1 .. n PROVE g[i] = g[i - 1] * f[i]
  <2>1. i - 1 \in 0 .. n /\ g[i - 1] \in Int /\ <<i, g[i - 1]>> \in (1 .. n) \X Int
    BY <1>3
  <2> QED
    BY <1>3, <2>1
<1>5. Multiplying(f, n, g)
  <2>1. \A i \in 0 .. n : g[i] = IF i = 0 THEN 1 ELSE g[i - 1] * f[i]
    <3> SUFFICES ASSUME NEW i \in 0 .. n PROVE g[i] = IF i = 0 THEN 1 ELSE g[i - 1] * f[i]
      OBVIOUS
    <3>1. i # 0 => i \in 1 .. n
      OBVIOUS
    <3> QED
      BY <1>3, <1>4, <3>1
  <2> QED
    BY <1>3, <2>1 DEF Multiplying
<1>6. ASSUME NEW h, Multiplying(f, n, h) PROVE h = g
  <2>1. \A i \in 0 .. n : h[i] = IF i = 0 THEN 1 ELSE h[i - 1] * f[i]
    BY <1>6 DEF Multiplying
  <2> DEFINE T == {i \in 0 .. n : h[i] = g[i]}
  <2>2. 0 \in T
    BY <2>1, <1>3
  <2>3. ASSUME NEW i \in 0 .. n - 1, i \in T PROVE i + 1 \in T
    <3>1. i + 1 \in 1 .. n /\ i + 1 \in 0 .. n /\ i + 1 # 0 /\ i + 1 - 1 = i
      OBVIOUS
    <3>2. h[i + 1] = h[i + 1 - 1] * f[i + 1] /\ g[i + 1] = g[i + 1 - 1] * f[i + 1]
      BY <2>1, <1>4, <3>1
    <3> QED
      BY <2>3, <3>1, <3>2
  <2>4. 0 .. n \subseteq T
    <3> HIDE DEF T
    <3> QED
      BY <2>2, <2>3, Induction
  <2>5. h = [i \in 0 .. n |-> h[i]]
    <3>1. h = [i \in 0 .. n |-> IF i = 0 THEN 1 ELSE h[i - 1] * f[i]]
      BY <1>6 DEF Multiplying
    <3> QED
      BY <3>1, Zenon
  <2> QED
    BY <1>3, <2>4, <2>5
<1>7. ProductTo(f, n) = (CHOOSE product : Multiplying(f, n, product))[n]
  BY DEF ProductTo, Multiplying
<1>8. (CHOOSE product : Multiplying(f, n, product)) = g
  BY <1>5, <1>6
<1> QED
  BY <1>3, <1>5, <1>7, <1>8

\* A product grows by one factor at a time.
LEMMA ProductSteps ==
    ASSUME NEW n \in Nat, NEW f, \A i \in 1 .. n : f[i] \in Int
    PROVE  /\ ProductTo(f, 0) = 1 /\ ProductTo(f, n) \in Int
           /\ n > 0 => ProductTo(f, n - 1) \in Int /\ ProductTo(f, n) = ProductTo(f, n - 1) * f[n]
<1>1. ASSUME NEW m \in 0 .. n
      PROVE  \E product \in [0 .. m -> Int] : Multiplying(f, m, product) /\ ProductTo(f, m) = product[m]
  <2>1. m \in Nat /\ \A i \in 1 .. m : f[i] \in Int
    OBVIOUS
  <2> QED
    BY <2>1, MultiplyingExists
<1>2. ProductTo(f, 0) = 1
  <2>1. PICK product \in [0 .. 0 -> Int] : Multiplying(f, 0, product) /\ ProductTo(f, 0) = product[0]
    <3>1. 0 \in 0 .. n
      OBVIOUS
    <3> QED
      BY <1>1, <3>1
  <2> QED
    BY <2>1 DEF Multiplying
<1>3. PICK g \in [0 .. n -> Int] : Multiplying(f, n, g) /\ ProductTo(f, n) = g[n]
  BY <1>1
<1>4. \A i \in 0 .. n : g[i] = IF i = 0 THEN 1 ELSE g[i - 1] * f[i]
  BY <1>3 DEF Multiplying
<1>5. ASSUME n > 0
      PROVE  ProductTo(f, n - 1) \in Int /\ ProductTo(f, n) = ProductTo(f, n - 1) * f[n]
  <2>1. n - 1 \in 0 .. n
    BY <1>5
  <2>2. PICK h \in [0 .. n - 1 -> Int] : Multiplying(f, n - 1, h) /\ ProductTo(f, n - 1) = h[n - 1]
    BY <1>1, <2>1
  <2>3. \A i \in 0 .. n - 1 : h[i] = IF i = 0 THEN 1 ELSE h[i - 1] * f[i]
    BY <2>2 DEF Multiplying
  <2> DEFINE T == {i \in 0 .. n - 1 : h[i] = g[i]}
  <2>4. 0 \in T
    BY <2>1, <2>3, <1>4
  <2>5. ASSUME NEW i \in 0 .. n - 2, i \in T PROVE i + 1 \in T
    <3>1. i + 1 \in 0 .. n - 1 /\ i + 1 \in 0 .. n /\ i + 1 # 0 /\ i + 1 - 1 = i
      BY <1>5
    <3>2. h[i + 1] = h[i + 1 - 1] * f[i + 1] /\ g[i + 1] = g[i + 1 - 1] * f[i + 1]
      BY <2>3, <1>4, <3>1
    <3> QED
      BY <2>5, <3>1, <3>2
  <2>6. 0 .. n - 1 \subseteq T
    <3>1. n - 1 \in Nat /\ (n - 1) - 1 = n - 2
      BY <1>5
    <3> HIDE DEF T
    <3> QED
      BY <2>4, <2>5, <3>1, Induction
  <2>7. n - 1 \in T
    BY <2>6, <1>5
  <2>8. g[n] = g[n - 1] * f[n]
    BY <1>4, <1>5
  <2> QED
    BY <2>2, <2>7, <2>8, <1>3, <2>1
<1> QED
  BY <1>2, <1>3, <1>5

\* Greater values have a greater sum.
LEMMA SumGrows ==
    ASSUME NEW n \in Nat, NEW f, NEW g,
           \A i \in 1 .. n : f[i] \in Int /\ g[i] \in Int /\ f[i] <= g[i]
    PROVE  SumTo(f, n) <= SumTo(g, n)
<1> DEFINE T == {m \in 0 .. n : SumTo(f, m) <= SumTo(g, m)}
<1>1. ASSUME NEW m \in 0 .. n
      PROVE  /\ SumTo(f, 0) = 0 /\ SumTo(g, 0) = 0 /\ SumTo(f, m) \in Int /\ SumTo(g, m) \in Int
             /\ m > 0 => /\ SumTo(f, m) = SumTo(f, m - 1) + f[m]
                         /\ SumTo(g, m) = SumTo(g, m - 1) + g[m]
  <2>1. m \in Nat /\ \A i \in 1 .. m : f[i] \in Int /\ g[i] \in Int
    OBVIOUS
  <2> QED
    BY <2>1, SumSteps
<1>2. 0 \in T
  BY <1>1
<1>3. ASSUME NEW m \in 0 .. n - 1, m \in T PROVE m + 1 \in T
  <2>1. m + 1 \in 0 .. n /\ m + 1 > 0 /\ m + 1 - 1 = m /\ m \in 0 .. n /\ m + 1 \in 1 .. n
    OBVIOUS
  <2>2. /\ SumTo(f, m + 1) = SumTo(f, m) + f[m + 1]
        /\ SumTo(g, m + 1) = SumTo(g, m) + g[m + 1]
        /\ SumTo(f, m) \in Int /\ SumTo(g, m) \in Int
    BY <1>1, <2>1
  <2>3. f[m + 1] \in Int /\ g[m + 1] \in Int /\ f[m + 1] <= g[m + 1]
    BY <2>1
  <2> QED
    BY <1>3, <2>1, <2>2, <2>3
<1>4. 0 .. n \subseteq T
  <2> HIDE DEF T
  <2> QED
    BY <1>2, <1>3, Induction
<1> QED
  BY <1>4

\* A product of positive numbers is one, and each of them divides it.
LEMMA ProductDivides ==
    ASSUME NEW n \in Nat, NEW f, \A i \in 1 .. n : f[i] \in Nat \ {0}
    PROVE  /\ ProductTo(f, n) \in Nat \ {0}
           /\ \A i \in 1 .. n : \E q \in Nat \ {0} : ProductTo(f, n) = f[i] * q
<1> DEFINE Good(m) == /\ ProductTo(f, m) \in Nat \ {0}
                      /\ \A i \in 1 .. m : \E q \in Nat \ {0} : ProductTo(f, m) = f[i] * q
           T == {m \in 0 .. n : Good(m)}
<1>1. ASSUME NEW m \in 0 .. n
      PROVE  /\ ProductTo(f, 0) = 1
             /\ m > 0 => ProductTo(f, m) = ProductTo(f, m - 1) * f[m]
  <2>1. m \in Nat /\ \A i \in 1 .. m : f[i] \in Int
    OBVIOUS
  <2> QED
    BY <2>1, ProductSteps
<1>2. 0 \in T
  BY <1>1
<1>3. ASSUME NEW m \in 0 .. n - 1, m \in T PROVE m + 1 \in T
  <2>1. m + 1 \in 0 .. n /\ m + 1 > 0 /\ m + 1 - 1 = m /\ m + 1 \in 1 .. n
    OBVIOUS
  <2> DEFINE a == ProductTo(f, m)
             b == f[m + 1]
  <2>2. ProductTo(f, m + 1) = a * b
    BY <1>1, <2>1
  <2>3. a \in Nat \ {0} /\ b \in Nat \ {0}
    BY <1>3, <2>1
  <2>4. a * b \in Nat \ {0}
    <3> HIDE DEF a, b
    <3> QED
      BY <2>3
  <2>5. ASSUME NEW i \in 1 .. m + 1
        PROVE  \E q \in Nat \ {0} : a * b = f[i] * q
    <3>1. CASE i = m + 1
      <4>1. a * b = f[i] * a
        <5>1. f[i] = b
          BY <3>1
        <5> HIDE DEF a, b
        <5> QED
          BY <5>1, <2>3
      <4> HIDE DEF a, b
      <4> QED
        BY <2>3, <4>1
    <3>2. CASE i # m + 1
      <4>1. i \in 1 .. m
        BY <3>2
      <4>2. PICK q \in Nat \ {0} : a = f[i] * q
        BY <1>3, <4>1
      <4>3. f[i] \in Nat
        BY <2>1
      <4>4. (f[i] * q) * b = f[i] * (q * b) /\ q * b \in Nat \ {0}
        <5> DEFINE c == f[i]
        <5>1. c \in Nat
          BY <4>3
        <5> HIDE DEF a, b, c
        <5>2. (c * q) * b = c * (q * b) /\ q * b \in Nat \ {0}
          BY <5>1, <2>3
        <5> QED
          BY <5>2 DEF c
      <4> HIDE DEF a, b
      <4> QED
        BY <4>2, <4>4
    <3> QED
      BY <3>1, <3>2
  <2> HIDE DEF a, b
  <2> QED
    BY <2>1, <2>2, <2>4, <2>5
<1>4. 0 .. n \subseteq T
  <2> HIDE DEF T
  <2> QED
    BY <1>2, <1>3, Induction
<1>5. n \in T
  BY <1>4
<1> QED
  BY <1>5

=============================================================================
