---------------------------- MODULE FunctionProofs ----------------------------
(***************************************************************************)
(* Proofs about the functions that keep no state: what they compute, for   *)
(* all values of the constants and all arguments of their kind.            *)
(***************************************************************************)
EXTENDS Routing, Evaluation, PromptContext, Chunking, InductionLemmas,
        SequenceTheorems, TLAPS

-----------------------------------------------------------------------------
(* Numbers and sequences.                                                  *)

\* The quotient and the remainder.
LEMMA Quotient ==
    ASSUME NEW a \in Nat, NEW b \in Nat \ {0}
    PROVE  /\ a \div b \in Nat
           /\ b * (a \div b) <= a
           /\ a < b * (a \div b) + b
OBVIOUS

\* What b divides without a rest.
LEMMA ExactQuotient ==
    ASSUME NEW q \in Nat, NEW b \in Nat \ {0}
    PROVE  (b * q) \div b = q
<1> DEFINE d == (b * q) \div b
<1>1. b * q \in Nat
  OBVIOUS
<1>2. d \in Nat /\ b * d <= b * q /\ b * q < b * d + b
  BY <1>1, Quotient
<1> HIDE DEF d
<1>3. ~(q < d)
  <2> SUFFICES ASSUME q + 1 <= d PROVE FALSE
    BY <1>2
  <2>1. b * (q + 1) <= b * d
    BY <1>2
  <2>2. b * (q + 1) = b * q + b
    OBVIOUS
  <2> QED
    BY <1>2, <2>1, <2>2, <1>1
<1>4. ~(d < q)
  <2> SUFFICES ASSUME d + 1 <= q PROVE FALSE
    BY <1>2
  <2>1. b * (d + 1) <= b * q
    BY <1>2
  <2>2. b * (d + 1) = b * d + b
    BY <1>2
  <2> QED
    BY <1>2, <2>1, <2>2, <1>1
<1>5. d = q
  BY <1>2, <1>3, <1>4
<1> QED
  BY <1>5 DEF d

\* A part is the smaller the more there are of them.
LEMMA QuotientsFall ==
    ASSUME NEW a \in Nat, NEW b \in Nat \ {0}, NEW c \in Nat, b <= c
    PROVE  a \div c <= a \div b
<1> DEFINE p == a \div b
           q == a \div c
<1>1. p \in Nat /\ a < b * p + b
  BY Quotient
<1>2. q \in Nat /\ c * q <= a
  BY Quotient
<1> HIDE DEF p, q
<1> SUFFICES ASSUME p + 1 <= q PROVE FALSE
  BY <1>1, <1>2 DEF p, q
<1>3. b * (p + 1) <= b * q
  BY <1>1, <1>2
<1>4. b * q <= c * q
  BY <1>2
<1>5. b * (p + 1) = b * p + b
  BY <1>1
<1>6. b * (p + 1) \in Int /\ b * q \in Int /\ c * q \in Int /\ b * p + b \in Int
  BY <1>1, <1>2
<1> QED
  BY <1>1, <1>2, <1>3, <1>4, <1>5, <1>6

LEMMA TopMeans ==
    ASSUME NEW V, NEW s \in Seq(V), NEW n \in Nat
    PROVE  /\ TopOf(s, n) \in Seq(V)
           /\ Len(TopOf(s, n)) = (IF n < Len(s) THEN n ELSE Len(s))
           /\ Len(TopOf(s, n)) \in 0 .. Len(s) /\ Len(s) \in Nat
           /\ DOMAIN TopOf(s, n) = 1 .. Len(TopOf(s, n)) /\ DOMAIN s = 1 .. Len(s)
           /\ \A i \in DOMAIN TopOf(s, n) : i \in DOMAIN s /\ TopOf(s, n)[i] = s[i]
<1> DEFINE m == IF n < Len(s) THEN n ELSE Len(s)
<1>1. Len(s) \in Nat /\ DOMAIN s = 1 .. Len(s) /\ m \in 0 .. Len(s)
  OBVIOUS
<1>2. \A i \in 1 .. m : s[i] \in V
  BY <1>1
<1>3. /\ SubSeq(s, 1, m) \in Seq(V) /\ Len(SubSeq(s, 1, m)) = m
      /\ \A i \in 1 .. m : SubSeq(s, 1, m)[i] = s[i]
  <2> HIDE DEF m
  <2> QED
    BY <1>1
<1>4. TopOf(s, n) = SubSeq(s, 1, m)
  BY DEF TopOf
<1> HIDE DEF m
<1>5. DOMAIN TopOf(s, n) = 1 .. m
  BY <1>1, <1>3, <1>4
<1> QED
  BY <1>1, <1>3, <1>4, <1>5 DEF m

-----------------------------------------------------------------------------
(* Rankings.                                                               *)

\* A sequence without repetition.
EachOnce(s) == \A i, j \in DOMAIN s : s[i] = s[j] => i = j

Listing(s) == s \in Seq(Chunks) /\ EachOnce(s)

LEMMA PlaceMeans ==
    ASSUME NEW V, NEW s \in Seq(V), EachOnce(s), NEW c
    PROVE  /\ Contains(s, c) <=> c \in ToSet(s)
           /\ Contains(s, c) => /\ Place(s, c) \in 1 .. Len(s) /\ s[Place(s, c)] = c
                                /\ Place(s, c) \in DOMAIN s
           /\ \A i \in DOMAIN s : s[i] = c => Contains(s, c) /\ Place(s, c) = i
<1>1. DOMAIN s = 1 .. Len(s)
  OBVIOUS
<1>2. Contains(s, c) <=> \E i \in DOMAIN s : s[i] = c
  BY <1>1 DEF Contains
<1>3. ASSUME NEW i \in DOMAIN s, s[i] = c PROVE Place(s, c) = i
  BY <1>3 DEF Place, EachOnce
<1>4. Contains(s, c) <=> c \in ToSet(s)
  BY <1>2 DEF ToSet
<1> QED
  BY <1>1, <1>2, <1>3, <1>4

\* Rankings read one after the other meet one chunk before the other.
LEMMA MetInOrder ==
    ASSUME NEW rankings \in Seq(Seq(Chunks)), \A i \in DOMAIN rankings : EachOnce(rankings[i]),
           NEW x \in UNION {ToSet(rankings[i]) : i \in DOMAIN rankings},
           NEW y \in UNION {ToSet(rankings[i]) : i \in DOMAIN rankings}
    PROVE  /\ ~MetBefore(rankings, x, x)
           /\ x # y => MetBefore(rankings, x, y) \/ MetBefore(rankings, y, x)
           /\ ~(MetBefore(rankings, x, y) /\ MetBefore(rankings, y, x))
           /\ \A z \in UNION {ToSet(rankings[i]) : i \in DOMAIN rankings} :
                 MetBefore(rankings, x, y) /\ MetBefore(rankings, y, z)
                    => MetBefore(rankings, x, z)
<1> DEFINE all == UNION {ToSet(rankings[i]) : i \in DOMAIN rankings}
           In(i, c) == Contains(rankings[i], c)
           at(i, c) == Place(rankings[i], c)
<1>1. DOMAIN rankings = 1 .. Len(rankings) /\ Len(rankings) \in Nat
  OBVIOUS
<1>2. ASSUME NEW i \in DOMAIN rankings, NEW c
      PROVE  /\ In(i, c) <=> c \in ToSet(rankings[i])
             /\ In(i, c) => at(i, c) \in Nat /\ rankings[i][at(i, c)] = c
  BY PlaceMeans
<1>3. ASSUME NEW c \in all
      PROVE  \E i \in DOMAIN rankings : In(i, c) /\ \A j \in 1 .. i - 1 : ~In(j, c)
  <2> DEFINE T == {i \in DOMAIN rankings : In(i, c)}
  <2>1. T \in SUBSET Nat /\ T # {}
    BY <1>1, <1>2
  <2>2. PICK i \in T : \A j \in T : i <= j
    <3> HIDE DEF T
    <3> QED
      BY <2>1, LeastElement
  <2>3. i \in DOMAIN rankings /\ In(i, c)
    BY <2>2
  <2>4. ASSUME NEW j \in 1 .. i - 1 PROVE ~In(j, c)
    <3>1. j \in DOMAIN rankings /\ j < i
      BY <2>3, <1>1
    <3>2. ~(i <= j)
      BY <2>3, <3>1, <1>1
    <3>3. j \notin T
      BY <2>2, <3>2
    <3> QED
      BY <3>1, <3>3
  <2> QED
    BY <2>3, <2>4
<1>4. \A c, d : MetBefore(rankings, c, d) <=>
         \E i \in DOMAIN rankings :
            /\ In(i, c) /\ \A j \in 1 .. i - 1 : ~In(j, d)
            /\ In(i, d) => at(i, c) < at(i, d)
  BY DEF MetBefore
<1>5. \A i \in DOMAIN rankings : i \in Nat
  BY <1>1
<1>6. \A i, j \in DOMAIN rankings : j < i => j \in 1 .. i - 1
  BY <1>1
<1> HIDE DEF In, at
<1>7. ~MetBefore(rankings, x, x)
  BY <1>2, <1>4
<1>8. ASSUME x # y, ~MetBefore(rankings, x, y) PROVE MetBefore(rankings, y, x)
  <2>1. PICK i \in DOMAIN rankings : In(i, x) /\ \A j \in 1 .. i - 1 : ~In(j, x)
    BY <1>3
  <2>2. PICK k \in DOMAIN rankings : In(k, y) /\ \A j \in 1 .. k - 1 : ~In(j, y)
    BY <1>3
  <2>3. CASE i < k
    <3>1. \A j \in 1 .. i - 1 : ~In(j, y)
      BY <2>2, <2>3, <1>5
    <3>2. ~In(i, y)
      BY <2>2, <2>3, <1>6
    <3> QED
      BY <1>8, <1>4, <2>1, <3>1, <3>2
  <2>4. CASE k < i
    <3>1. \A j \in 1 .. k - 1 : ~In(j, x)
      BY <2>1, <2>4, <1>5
    <3>2. ~In(k, x)
      BY <2>1, <2>4, <1>6
    <3> QED
      BY <1>4, <2>2, <3>1, <3>2
  <2>5. CASE i = k
    <3>1. at(i, x) \in Nat /\ at(i, y) \in Nat /\ at(i, x) # at(i, y)
      BY <1>2, <1>8, <2>1, <2>2, <2>5
    <3>2. ~(at(i, x) < at(i, y))
      BY <1>8, <1>4, <2>1, <2>2, <2>5
    <3>3. at(i, y) < at(i, x)
      BY <3>1, <3>2
    <3> QED
      BY <1>4, <2>1, <2>2, <2>5, <3>3
  <2> QED
    BY <1>5, <2>3, <2>4, <2>5
<1>9. ASSUME NEW z \in all, MetBefore(rankings, x, y), MetBefore(rankings, y, z)
      PROVE  MetBefore(rankings, x, z)
  <2>1. PICK i \in DOMAIN rankings : /\ In(i, x) /\ \A j \in 1 .. i - 1 : ~In(j, y)
                                     /\ In(i, y) => at(i, x) < at(i, y)
    BY <1>4, <1>9
  <2>2. PICK k \in DOMAIN rankings : /\ In(k, y) /\ \A j \in 1 .. k - 1 : ~In(j, z)
                                     /\ In(k, z) => at(k, y) < at(k, z)
    BY <1>4, <1>9
  <2>3. ~(k < i)
    BY <1>6, <2>1, <2>2
  <2>4. CASE i < k
    <3>1. \A j \in 1 .. i - 1 : ~In(j, z)
      BY <2>2, <2>4, <1>5
    <3>2. ~In(i, z)
      BY <2>2, <2>4, <1>6
    <3> QED
      BY <1>4, <2>1, <3>1, <3>2
  <2>5. CASE i = k
    <3>1. In(i, z) => at(i, x) < at(i, z)
      BY <1>2, <2>1, <2>2, <2>5, SMTT(30)
    <3> QED
      BY <1>4, <2>1, <2>2, <2>5, <3>1
  <2> QED
    BY <1>5, <2>3, <2>4, <2>5
<1>10. ASSUME MetBefore(rankings, x, y), MetBefore(rankings, y, x) PROVE FALSE
  BY <1>7, <1>9, <1>10
<1> QED
  BY <1>7, <1>8, <1>9, <1>10

\* The order by scores is one, when all that is ordered was met.
LEMMA ScoresOrder ==
    ASSUME NEW rankings \in Seq(Seq(Chunks)), \A i \in DOMAIN rankings : EachOnce(rankings[i]),
           NEW S \in SUBSET UNION {ToSet(rankings[i]) : i \in DOMAIN rankings},
           NEW score, \A x \in S : score[x] \in Int
    PROVE  StrictlyOrdered(S, ByScore(S, rankings, score))
<1> DEFINE R == ByScore(S, rankings, score)
           met == UNION {ToSet(rankings[i]) : i \in DOMAIN rankings}
<1>1. \A x, y \in S : <<x, y>> \in R <=>
         score[x] > score[y] \/ (score[x] = score[y] /\ MetBefore(rankings, x, y))
  BY DEF ByScore
<1>2. \A x, y \in S : /\ ~MetBefore(rankings, x, x)
                      /\ x # y => MetBefore(rankings, x, y) \/ MetBefore(rankings, y, x)
  BY MetInOrder
<1>3. \A x, y, z \in S : MetBefore(rankings, x, y) /\ MetBefore(rankings, y, z)
                            => MetBefore(rankings, x, z)
  <2> SUFFICES ASSUME NEW x \in S, NEW y \in S, NEW z \in S,
                      MetBefore(rankings, x, y), MetBefore(rankings, y, z)
               PROVE  MetBefore(rankings, x, z)
    OBVIOUS
  <2>1. x \in met /\ y \in met /\ z \in met
    OBVIOUS
  <2> HIDE DEF met
  <2> QED
    BY <2>1, MetInOrder DEF met
<1> HIDE DEF R, met
<1> DEFINE More(x, y) == score[x] > score[y]
           Same(x, y) == score[x] = score[y]
<1>7. \A x, y \in S : <<x, y>> \in R <=>
         More(x, y) \/ (Same(x, y) /\ MetBefore(rankings, x, y))
  BY <1>1
<1>8. /\ \A x, y \in S : More(x, y) \/ Same(x, y) \/ More(y, x)
      /\ \A x \in S : ~More(x, x)
  OBVIOUS
<1>9. \A x, y, z \in S :
         /\ More(x, y) /\ (More(y, z) \/ Same(y, z)) => More(x, z)
         /\ Same(x, y) /\ More(y, z) => More(x, z)
         /\ Same(x, y) /\ Same(y, z) => Same(x, z)
  OBVIOUS
<1>10. \A x, y \in S : Same(x, y) => Same(y, x)
  OBVIOUS
<1> HIDE DEF More, Same
<1>4. \A x \in S : <<x, x>> \notin R
  BY <1>7, <1>8, <1>2, Zenon
<1>5. \A x, y, z \in S : <<x, y>> \in R /\ <<y, z>> \in R => <<x, z>> \in R
  <2> SUFFICES ASSUME NEW x \in S, NEW y \in S, NEW z \in S, <<x, y>> \in R, <<y, z>> \in R
               PROVE  <<x, z>> \in R
    OBVIOUS
  <2>1. /\ More(x, y) \/ (Same(x, y) /\ MetBefore(rankings, x, y))
        /\ More(y, z) \/ (Same(y, z) /\ MetBefore(rankings, y, z))
    BY <1>7, Zenon
  <2>2. More(x, z) \/ (Same(x, z) /\ MetBefore(rankings, x, z))
    BY <2>1, <1>9, <1>3, Zenon
  <2> QED
    BY <2>2, <1>7, Zenon
<1>6. \A x, y \in S : x = y \/ <<x, y>> \in R \/ <<y, x>> \in R
  BY <1>7, <1>8, <1>10, <1>2, Zenon
<1> QED
  BY <1>4, <1>5, <1>6 DEF StrictlyOrdered, R

AllListings(rankings) ==
    rankings \in Seq(Seq(Chunks)) /\ \A i \in DOMAIN rankings : EachOnce(rankings[i])

MetIn(rankings) == UNION {ToSet(rankings[i]) : i \in DOMAIN rankings}

\* s has every member of S once, by scores, and of equal ones the one that was met first.
InScoreOrder(s, S, rankings, score) ==
    /\ IsFiniteSet(S) /\ Cardinality(S) \in Nat
    /\ s \in [1 .. Cardinality(S) -> S] /\ s \in Seq(Chunks)
    /\ Len(s) = Cardinality(S) /\ EachOnce(s)
    /\ DOMAIN s = 1 .. Cardinality(S) /\ ToSet(s) = S
    /\ \A p, q \in DOMAIN s : p < q <=> <<s[p], s[q]>> \in ByScore(S, rankings, score)

LEMMA SortByScoreMeans ==
    ASSUME NEW rankings, AllListings(rankings), NEW S \in SUBSET MetIn(rankings),
           NEW score, \A x \in S : score[x] \in Int
    PROVE  InScoreOrder(SortByScore(S, rankings, score), S, rankings, score)
<1>0. /\ rankings \in Seq(Seq(Chunks)) /\ \A i \in DOMAIN rankings : EachOnce(rankings[i])
      /\ S \in SUBSET UNION {ToSet(rankings[i]) : i \in DOMAIN rankings}
  BY DEF AllListings, MetIn
<1> DEFINE s == SortByScore(S, rankings, score)
           R == ByScore(S, rankings, score)
           n == Cardinality(S)
<1>1. S \subseteq Chunks
  <2>1. \A i \in DOMAIN rankings : rankings[i] \in Seq(Chunks)
    BY <1>0
  <2>2. \A i \in DOMAIN rankings : ToSet(rankings[i]) \subseteq Chunks
    <3> SUFFICES ASSUME NEW i \in DOMAIN rankings PROVE ToSet(rankings[i]) \subseteq Chunks
      OBVIOUS
    <3>1. rankings[i] \in Seq(Chunks)
      BY <2>1
    <3> QED
      BY <3>1 DEF ToSet
  <2> QED
    BY <1>0, <2>2
<1>2. IsFiniteSet(S)
  BY <1>1, RankingAssumption, FS_Subset
<1>3. StrictlyOrdered(S, R)
  BY <1>0, ScoresOrder
<1>4. /\ n \in Nat
      /\ s \in [1 .. n -> S]
      /\ \A p, q \in 1 .. n : /\ <<s[p], s[q]>> \in R <=> p < q
                              /\ s[p] = s[q] => p = q
      /\ \A x \in S : \E p \in 1 .. n : s[p] = x
  <2> HIDE DEF R
  <2> QED
    BY <1>2, <1>3, SortedMeans DEF SortByScore, R
<1> HIDE DEF s, R, n
<1>5. s \in Seq(S) /\ s \in Seq(Chunks) /\ Len(s) = n /\ DOMAIN s = 1 .. n
  <2>1. s \in [1 .. n -> Chunks]
    BY <1>1, <1>4
  <2> QED
    BY <1>4, <2>1
<1>6. \A i, j \in DOMAIN s : s[i] = s[j] => i = j
  BY <1>4, <1>5, Zenon
<1>7. EachOnce(s)
  BY <1>6, Zenon DEF EachOnce
<1>8. \A p, q \in DOMAIN s : p < q <=> <<s[p], s[q]>> \in R
  BY <1>4, <1>5, Zenon
<1>9. ToSet(s) = S
  BY <1>4, <1>5 DEF ToSet
<1> QED
  BY <1>2, <1>4, <1>5, <1>7, <1>8, <1>9, Zenon DEF s, R, n, InScoreOrder

-----------------------------------------------------------------------------
(* Fusion.                                                                 *)

LEMMA ScaleIsNat == Scale \in Nat \ {0}
<1>1. MaxHits \in Nat /\ \A r \in 1 .. MaxHits : RrfK + r \in Nat \ {0}
  BY RankingAssumption
<1> DEFINE f == [r \in 1 .. MaxHits |-> RrfK + r]
<1>2. \A r \in 1 .. MaxHits : f[r] \in Nat \ {0}
  BY <1>1
<1> HIDE DEF f
<1>3. ProductTo(f, MaxHits) \in Nat \ {0}
  BY <1>1, <1>2, ProductDivides
<1> QED
  BY <1>3 DEF Scale, f

\* The better the place, the more it is worth.
LEMMA ReciprocalFalls ==
    ASSUME NEW s \in Seq(Chunks), EachOnce(s), Len(s) <= MaxHits, NEW x, NEW y
    PROVE  /\ Reciprocal(s, x) \in Nat /\ RankIn(s, x) \in Nat
           /\ RankIn(s, x) <= RankIn(s, y) => Reciprocal(s, x) >= Reciprocal(s, y)
           /\ RankIn(s, x) <= RankIn(s, y) /\ Contains(s, y) => Contains(s, x)
<1>1. Len(s) \in Nat /\ MaxHits \in Nat /\ RrfK \in Nat /\ Scale \in Nat
  BY RankingAssumption, ScaleIsNat
<1>2. ASSUME NEW c
      PROVE  Contains(s, c) => Place(s, c) \in 1 .. MaxHits
  BY <1>1, PlaceMeans
<1>3. ASSUME NEW c
      PROVE  /\ Reciprocal(s, c) \in Nat /\ RankIn(s, c) \in 1 .. MaxHits + 1
             /\ Contains(s, c) => /\ RrfK + Place(s, c) \in Nat \ {0}
                                  /\ Reciprocal(s, c) = Scale \div (RrfK + Place(s, c))
                                  /\ RankIn(s, c) = Place(s, c)
             /\ ~Contains(s, c) => Reciprocal(s, c) = 0 /\ RankIn(s, c) = MaxHits + 1
  <2>1. CASE Contains(s, c)
    <3>1. Place(s, c) \in 1 .. MaxHits /\ RrfK + Place(s, c) \in Nat \ {0}
      BY <1>1, <1>2, <2>1
    <3>2. Scale \div (RrfK + Place(s, c)) \in Nat
      BY <1>1, <3>1, Quotient
    <3> QED
      BY <1>1, <2>1, <3>1, <3>2 DEF Reciprocal, RankIn
  <2>2. CASE ~Contains(s, c)
    BY <1>1, <2>2 DEF Reciprocal, RankIn
  <2> QED
    BY <2>1, <2>2
<1>4. ASSUME RankIn(s, x) <= RankIn(s, y), Contains(s, y) PROVE Contains(s, x)
  BY <1>1, <1>2, <1>3, <1>4
<1>5. ASSUME RankIn(s, x) <= RankIn(s, y) PROVE Reciprocal(s, x) >= Reciprocal(s, y)
  <2>1. CASE ~Contains(s, y)
    BY <1>3, <2>1
  <2>2. CASE Contains(s, y)
    <3>1. Contains(s, x)
      BY <1>4, <1>5, <2>2
    <3> DEFINE b == RrfK + Place(s, x)
               c == RrfK + Place(s, y)
    <3>2. b \in Nat \ {0} /\ c \in Nat \ {0}
      BY <1>3, <2>2, <3>1
    <3>3. b <= c
      BY <1>1, <1>2, <1>3, <1>5, <2>2, <3>1
    <3>4. Reciprocal(s, x) = Scale \div b /\ Reciprocal(s, y) = Scale \div c
      BY <1>3, <2>2, <3>1
    <3> HIDE DEF b, c
    <3>5. Scale \div c <= Scale \div b
      BY <1>1, <3>2, <3>3, QuotientsFall
    <3>6. Reciprocal(s, x) \in Nat /\ Reciprocal(s, y) \in Nat
      BY <1>3
    <3> QED
      BY <3>4, <3>5, <3>6
  <2> QED
    BY <2>1, <2>2
<1> QED
  BY <1>3, <1>4, <1>5

\* A chunk that no ranking places lower is worth no less and is met before.
LEMMA AheadIsFirst ==
    ASSUME NEW rankings \in Seq(Seq(Chunks)), \A i \in DOMAIN rankings : EachOnce(rankings[i]),
           \A i \in DOMAIN rankings : Len(rankings[i]) <= MaxHits,
           NEW x \in UNION {ToSet(rankings[i]) : i \in DOMAIN rankings}, NEW y,
           Ahead(rankings, x, y)
    PROVE  /\ \A i \in DOMAIN rankings :
                 /\ Reciprocal(rankings[i], x) \in Nat /\ Reciprocal(rankings[i], y) \in Nat
                 /\ Reciprocal(rankings[i], x) >= Reciprocal(rankings[i], y)
           /\ MetBefore(rankings, x, y)
<1>1. DOMAIN rankings = 1 .. Len(rankings) /\ Len(rankings) \in Nat
  OBVIOUS
<1>2. ASSUME NEW i \in DOMAIN rankings
      PROVE  rankings[i] \in Seq(Chunks) /\ EachOnce(rankings[i]) /\ Len(rankings[i]) <= MaxHits
  OBVIOUS
<1>3. x # y /\ \A i \in DOMAIN rankings : RankIn(rankings[i], x) <= RankIn(rankings[i], y)
  BY DEF Ahead
<1>4. ASSUME NEW i \in DOMAIN rankings
      PROVE  /\ Reciprocal(rankings[i], x) \in Nat /\ Reciprocal(rankings[i], y) \in Nat
             /\ Reciprocal(rankings[i], x) >= Reciprocal(rankings[i], y)
             /\ Contains(rankings[i], y) => Contains(rankings[i], x)
  BY <1>2, <1>3, ReciprocalFalls
<1> DEFINE T == {i \in DOMAIN rankings : Contains(rankings[i], x)}
<1>5. T \in SUBSET Nat /\ T # {}
  <2>1. PICK i \in DOMAIN rankings : x \in ToSet(rankings[i])
    OBVIOUS
  <2>2. Contains(rankings[i], x)
    BY <1>2, <2>1, PlaceMeans
  <2> QED
    BY <1>1, <2>2
<1>6. PICK i \in T : \A j \in T : i <= j
  <2> HIDE DEF T
  <2> QED
    BY <1>5, LeastElement
<1>7. i \in DOMAIN rankings /\ Contains(rankings[i], x)
  BY <1>6
<1>8. ASSUME NEW j \in 1 .. i - 1 PROVE ~Contains(rankings[j], y)
  <2>1. j \in DOMAIN rankings /\ ~(i <= j)
    BY <1>1, <1>7
  <2>2. j \notin T
    BY <1>6, <2>1
  <2> QED
    BY <1>4, <2>1, <2>2
<1>9. ASSUME Contains(rankings[i], y)
      PROVE  Place(rankings[i], x) < Place(rankings[i], y)
  <2> DEFINE s == rankings[i]
  <2>1. s \in Seq(Chunks) /\ EachOnce(s)
    BY <1>2, <1>7
  <2>2. RankIn(s, x) <= RankIn(s, y)
    BY <1>3, <1>7
  <2>3. RankIn(s, x) = Place(s, x) /\ RankIn(s, y) = Place(s, y)
    BY <1>7, <1>9 DEF RankIn
  <2>4. /\ Place(s, x) \in 1 .. Len(s) /\ s[Place(s, x)] = x
        /\ Place(s, y) \in 1 .. Len(s) /\ s[Place(s, y)] = y
    <3> HIDE DEF s
    <3> QED
      BY <1>7, <1>9, <2>1, PlaceMeans DEF s
  <2>5. Len(s) \in Nat
    <3> HIDE DEF s
    <3> QED
      BY <2>1
  <2> HIDE DEF s
  <2>6. Place(s, x) # Place(s, y)
    BY <1>3, <2>4
  <2> QED
    BY <2>2, <2>3, <2>4, <2>5, <2>6 DEF s
<1>10. MetBefore(rankings, x, y)
  BY <1>7, <1>8, <1>9 DEF MetBefore
<1> QED
  BY <1>4, <1>10

-----------------------------------------------------------------------------
(* The calls.                                                              *)

LEMMA BoundedIsSeq ==
    ASSUME NEW S, NEW n \in Nat
    PROVE  BoundedSeq(S, n) \subseteq Seq(S)
<1> SUFFICES ASSUME NEW s \in BoundedSeq(S, n) PROVE s \in Seq(S)
  OBVIOUS
<1>1. PICK m \in 0 .. n : s \in [1 .. m -> S]
  BY DEF BoundedSeq, SeqOf
<1> QED
  BY <1>1

\* What TLC enumerates as rankings are rankings.
LEMMA RankingsAreListings ==
    ASSUME NEW n \in Nat, NEW s \in RankingsOf(Chunks, n)
    PROVE  Listing(s) /\ Len(s) \in 0 .. n
<1>1. s \in BoundedSeq(Chunks, n) /\ EachOnce(s)
  BY DEF RankingsOf, EachOnce
<1>2. PICK m \in 0 .. n : s \in [1 .. m -> Chunks]
  BY <1>1 DEF BoundedSeq, SeqOf
<1>3. s \in Seq(Chunks) /\ Len(s) = m
  BY <1>2
<1> QED
  BY <1>1, <1>3 DEF Listing

\* The chunks can be named one after the other.
LEMMA NamedOnce == Named \in [1 .. Cardinality(Chunks) -> Chunks] /\ EachOnce(Named)
                      /\ Cardinality(Chunks) \in Nat
<1> DEFINE n == Cardinality(Chunks)
<1>1. IsFiniteSet(Chunks) /\ n \in Nat
  BY RankingAssumption, FS_CardinalityType
<1>2. PICK m \in Nat : ExistsBijection(1 .. m, Chunks)
  BY <1>1, FS_NatBijection
<1>3. m = n
  BY <1>2, FS_CountingElements
<1>4. PICK g : g \in Bijection(1 .. n, Chunks)
  BY <1>2, <1>3 DEF ExistsBijection
<1>5. g \in [1 .. n -> Chunks] /\ \A a, b \in 1 .. n : g[a] = g[b] => a = b
  BY <1>4 DEF Bijection, Injection, IsInjective
<1>6. \E f \in [1 .. n -> Chunks] : \A a, b \in DOMAIN f : f[a] = f[b] => a = b
  <2>1. DOMAIN g = 1 .. n
    BY <1>5
  <2> QED
    BY <1>5, <2>1
<1>7. Named \in [1 .. n -> Chunks] /\ \A a, b \in DOMAIN Named : Named[a] = Named[b] => a = b
  <2> HIDE DEF n
  <2> QED
    BY <1>6 DEF Named, SetToSeq, IsInjective, n
<1> QED
  BY <1>1, <1>7 DEF EachOnce

LEMMA FirstAreListings ==
    ASSUME NEW s \in FirstRankings
    PROVE  Listing(s) /\ Len(s) \in 0 .. MaxHits
<1>1. PICK n \in 0 .. MaxHits : s = SubSeq(Named, 1, n)
  BY DEF FirstRankings
<1>2. /\ MaxHits \in Nat /\ MaxHits <= Cardinality(Chunks) /\ Cardinality(Chunks) \in Nat
      /\ Named \in [1 .. Cardinality(Chunks) -> Chunks]
  BY RankingAssumption, NamedOnce
<1> DEFINE m == Cardinality(Chunks)
<1> HIDE DEF m
<1>3. /\ n \in Nat /\ n <= m /\ m \in Nat
      /\ Named \in Seq(Chunks) /\ Len(Named) = m /\ DOMAIN Named = 1 .. m
  BY <1>2 DEF m
<1>4. s \in Seq(Chunks) /\ Len(s) = n /\ \A i \in 1 .. n : s[i] = Named[i]
  BY <1>1, <1>3
<1>5. DOMAIN s = 1 .. n
  BY <1>3, <1>4
<1>6. EachOnce(s)
  <2>1. \A i, j \in 1 .. n : Named[i] = Named[j] => i = j
    BY <1>3, NamedOnce DEF EachOnce
  <2> QED
    BY <1>4, <1>5, <2>1 DEF EachOnce
<1> QED
  BY <1>4, <1>6 DEF Listing

\* The best of a ranking are a ranking.
LEMMA TopIsListing ==
    ASSUME NEW s, Listing(s), NEW n \in Nat
    PROVE  Listing(TopOf(s, n)) /\ Len(TopOf(s, n)) <= Len(s) /\ ToSet(TopOf(s, n)) \subseteq ToSet(s)
<1>1. s \in Seq(Chunks)
  BY DEF Listing
<1>2. /\ TopOf(s, n) \in Seq(Chunks) /\ Len(TopOf(s, n)) \in 0 .. Len(s) /\ Len(s) \in Nat
      /\ \A i \in DOMAIN TopOf(s, n) : i \in DOMAIN s /\ TopOf(s, n)[i] = s[i]
  BY <1>1, TopMeans
<1>3. EachOnce(TopOf(s, n))
  BY <1>2 DEF Listing, EachOnce
<1>4. ToSet(TopOf(s, n)) \subseteq ToSet(s)
  BY <1>2 DEF ToSet
<1> QED
  BY <1>2, <1>3, <1>4 DEF Listing

-----------------------------------------------------------------------------
(* One search (hybrid_search).                                             *)

DenseLeg(c, n) == IF c.denseFails THEN << >> ELSE TopOf(c.dense, n)

LexicalLeg(c, n) == IF c.lexicalFails THEN << >> ELSE TopOf(c.lexical, n)

FoundOf(c, n) ==
    ToSet(DenseLeg(c, n))
        \cup (IF c.fetchFails THEN {} ELSE ToSet(LexicalLeg(c, n)) \cap c.stored)

FusedScore(c, n) == [x \in FoundOf(c, n) |-> Rrf(DenseLeg(c, n), LexicalLeg(c, n), x)]

Fused(c, n) ==
    SortByScore(FoundOf(c, n), <<DenseLeg(c, n), LexicalLeg(c, n)>>, FusedScore(c, n))

Legs(c) ==
    /\ Listing(c.dense) /\ Len(c.dense) <= MaxHits
    /\ Listing(c.lexical) /\ Len(c.lexical) <= MaxHits

LEMMA EmptyIsListing == Listing(<< >>) /\ Len(<< >>) = 0
BY DEF Listing, EachOnce

LEMMA LegsAreListings ==
    ASSUME NEW c, Legs(c), NEW n \in Nat
    PROVE  /\ Listing(DenseLeg(c, n)) /\ Len(DenseLeg(c, n)) <= MaxHits
           /\ Listing(LexicalLeg(c, n)) /\ Len(LexicalLeg(c, n)) <= MaxHits
<1>1. MaxHits \in Nat
  BY RankingAssumption
<1>2. /\ Listing(TopOf(c.dense, n)) /\ Len(TopOf(c.dense, n)) <= Len(c.dense)
      /\ Listing(TopOf(c.lexical, n)) /\ Len(TopOf(c.lexical, n)) <= Len(c.lexical)
  BY TopIsListing DEF Legs
<1>3. /\ Len(TopOf(c.dense, n)) \in Nat /\ Len(TopOf(c.lexical, n)) \in Nat
      /\ Len(c.dense) \in Nat /\ Len(c.lexical) \in Nat
  BY <1>2 DEF Legs, Listing
<1>4. Len(TopOf(c.dense, n)) <= MaxHits /\ Len(TopOf(c.lexical, n)) <= MaxHits
  BY <1>1, <1>2, <1>3 DEF Legs
<1> QED
  BY <1>1, <1>2, <1>4, EmptyIsListing DEF DenseLeg, LexicalLeg

\* Two rankings.
LEMMA PairOfListings ==
    ASSUME NEW a, Listing(a), Len(a) <= MaxHits, NEW b, Listing(b), Len(b) <= MaxHits
    PROVE  /\ <<a, b>> \in Seq(Seq(Chunks)) /\ DOMAIN <<a, b>> = {1, 2}
           /\ <<a, b>>[1] = a /\ <<a, b>>[2] = b
           /\ \A i \in DOMAIN <<a, b>> : EachOnce(<<a, b>>[i]) /\ Len(<<a, b>>[i]) <= MaxHits
           /\ UNION {ToSet(<<a, b>>[i]) : i \in DOMAIN <<a, b>>} = ToSet(a) \cup ToSet(b)
<1>1. a \in Seq(Chunks) /\ EachOnce(a) /\ b \in Seq(Chunks) /\ EachOnce(b)
  BY DEF Listing
<1>2. /\ <<a, b>> \in Seq(Seq(Chunks)) /\ DOMAIN <<a, b>> = {1, 2}
      /\ <<a, b>>[1] = a /\ <<a, b>>[2] = b
  BY <1>1
<1>3. \A i \in DOMAIN <<a, b>> : <<a, b>>[i] = a \/ <<a, b>>[i] = b
  BY <1>2
<1>4. \A i \in DOMAIN <<a, b>> : EachOnce(<<a, b>>[i]) /\ Len(<<a, b>>[i]) <= MaxHits
  BY <1>1, <1>3
<1> DEFINE r == <<a, b>>
<1>5. UNION {ToSet(r[i]) : i \in DOMAIN r} = ToSet(r[1]) \cup ToSet(r[2])
  <2>1. DOMAIN r = {1, 2}
    BY <1>2
  <2> HIDE DEF r
  <2> QED
    BY <2>1
<1> QED
  BY <1>2, <1>4, <1>5

\* Of two chunks that the search finds, the one that is ahead is sorted before.
LEMMA FusedOrder ==
    ASSUME NEW c, Legs(c), NEW n \in Nat
    PROVE  /\ AllListings(<<DenseLeg(c, n), LexicalLeg(c, n)>>)
           /\ FoundOf(c, n) \in SUBSET MetIn(<<DenseLeg(c, n), LexicalLeg(c, n)>>)
           /\ \A x \in FoundOf(c, n) : FusedScore(c, n)[x] \in Int
           /\ \A x, y \in FoundOf(c, n) :
                 Ahead(<<DenseLeg(c, n), LexicalLeg(c, n)>>, x, y) =>
                    <<x, y>> \in ByScore(FoundOf(c, n), <<DenseLeg(c, n), LexicalLeg(c, n)>>,
                                        FusedScore(c, n))
<1> DEFINE d == DenseLeg(c, n)
           l == LexicalLeg(c, n)
           r == <<d, l>>
           S == FoundOf(c, n)
           score == FusedScore(c, n)
<1>1. Listing(d) /\ Len(d) <= MaxHits /\ Listing(l) /\ Len(l) <= MaxHits
  BY LegsAreListings
<1>2. /\ r \in Seq(Seq(Chunks)) /\ DOMAIN r = {1, 2} /\ r[1] = d /\ r[2] = l
      /\ \A i \in DOMAIN r : EachOnce(r[i]) /\ Len(r[i]) <= MaxHits
      /\ AllListings(r) /\ MetIn(r) = ToSet(d) \cup ToSet(l)
  <2> HIDE DEF d, l
  <2> QED
    BY <1>1, PairOfListings DEF AllListings, MetIn
<1>3. S \in SUBSET MetIn(r)
  BY <1>2 DEF FoundOf
<1>4. \A x : Reciprocal(d, x) \in Nat /\ Reciprocal(l, x) \in Nat
  <2> HIDE DEF d, l
  <2> QED
    BY <1>1, ReciprocalFalls DEF Listing
<1>5. \A x \in S : score[x] = Reciprocal(d, x) + Reciprocal(l, x) /\ score[x] \in Int
  BY <1>4 DEF FusedScore, Rrf
<1> HIDE DEF d, l, S, score, r
<1>6. ASSUME NEW x \in S, NEW y \in S, Ahead(r, x, y) PROVE <<x, y>> \in ByScore(S, r, score)
  <2>1. /\ \A k \in DOMAIN r : /\ Reciprocal(r[k], x) \in Nat /\ Reciprocal(r[k], y) \in Nat
                               /\ Reciprocal(r[k], x) >= Reciprocal(r[k], y)
        /\ MetBefore(r, x, y)
    <3>1. x \in UNION {ToSet(r[k]) : k \in DOMAIN r}
      BY <1>3 DEF MetIn
    <3>2. r \in Seq(Seq(Chunks)) /\ \A k \in DOMAIN r : EachOnce(r[k]) /\ Len(r[k]) <= MaxHits
      BY <1>2
    <3> QED
      BY <3>1, <3>2, <1>6, AheadIsFirst
  <2>2. /\ Reciprocal(d, x) \in Nat /\ Reciprocal(d, y) \in Nat
        /\ Reciprocal(l, x) \in Nat /\ Reciprocal(l, y) \in Nat
        /\ Reciprocal(d, x) >= Reciprocal(d, y) /\ Reciprocal(l, x) >= Reciprocal(l, y)
    BY <1>2, <2>1
  <2>3. score[x] >= score[y] /\ score[x] \in Int /\ score[y] \in Int
    BY <1>5, <2>2
  <2> QED
    BY <2>1, <2>3 DEF ByScore
<1> QED
  BY <1>2, <1>3, <1>5, <1>6 DEF S, r, d, l, score

\* What the search finds, all of it, in order.
LEMMA FusedMeans ==
    ASSUME NEW c, Legs(c), NEW n \in Nat
    PROVE  /\ Cardinality(FoundOf(c, n)) \in Nat /\ IsFiniteSet(FoundOf(c, n))
           /\ Listing(Fused(c, n)) /\ Len(Fused(c, n)) = Cardinality(FoundOf(c, n))
           /\ ToSet(Fused(c, n)) = FoundOf(c, n)
           /\ \A i, j \in DOMAIN Fused(c, n) :
                 Ahead(<<DenseLeg(c, n), LexicalLeg(c, n)>>, Fused(c, n)[i], Fused(c, n)[j])
                    => i < j
<1> DEFINE r == <<DenseLeg(c, n), LexicalLeg(c, n)>>
           S == FoundOf(c, n)
           score == FusedScore(c, n)
           s == Fused(c, n)
<1>1. /\ AllListings(r) /\ S \in SUBSET MetIn(r) /\ \A x \in S : score[x] \in Int
      /\ \A x, y \in S : Ahead(r, x, y) => <<x, y>> \in ByScore(S, r, score)
  BY FusedOrder
<1>2. s = SortByScore(S, r, score)
  BY DEF Fused
<1> HIDE DEF S, score, s, r
<1>3. InScoreOrder(s, S, r, score)
  BY <1>1, <1>2, SortByScoreMeans
<1>4. /\ IsFiniteSet(S) /\ Cardinality(S) \in Nat /\ s \in Seq(Chunks)
      /\ Len(s) = Cardinality(S) /\ EachOnce(s) /\ ToSet(s) = S
      /\ \A p \in DOMAIN s : s[p] \in S
      /\ \A p, q \in DOMAIN s : <<s[p], s[q]>> \in ByScore(S, r, score) => p < q
  BY <1>3 DEF InScoreOrder
<1>5. \A i, j \in DOMAIN s : Ahead(r, s[i], s[j]) => i < j
  BY <1>1, <1>4
<1>6. Listing(s)
  BY <1>4 DEF Listing
<1> QED
  BY <1>4, <1>5, <1>6 DEF S, s, r

\* As many members as places.
LEMMA OnceEach ==
    ASSUME NEW V, NEW s \in Seq(V), EachOnce(s)
    PROVE  IsFiniteSet(ToSet(s)) /\ Cardinality(ToSet(s)) = Len(s)
<1>1. Len(s) \in Nat /\ DOMAIN s = 1 .. Len(s) /\ s \in [1 .. Len(s) -> V]
  OBVIOUS
<1>2. s \in [1 .. Len(s) -> ToSet(s)] /\ \A x \in ToSet(s) : \E k \in 1 .. Len(s) : s[k] = x
  BY <1>1 DEF ToSet
<1>3. \A j, k \in 1 .. Len(s) : s[j] = s[k] => j = k
  BY <1>1, Zenon DEF EachOnce
<1> QED
  BY <1>1, <1>2, <1>3, CountOf

\* What a leg loses the other finds, and nothing comes before what is ahead of it.
LEMMA SearchIsFair ==
    ASSUME NEW c, Legs(c), NEW n \in Nat
    PROVE  /\ HybridSearch(c, n) = TopOf(Fused(c, n), n) /\ Listing(HybridSearch(c, n))
           /\ \A i, j \in DOMAIN HybridSearch(c, n) :
                 Ahead(<<DenseLeg(c, n), LexicalLeg(c, n)>>, HybridSearch(c, n)[i],
                       HybridSearch(c, n)[j]) => i < j
           /\ ToSet(HybridSearch(c, n)) \subseteq FoundOf(c, n)
           /\ Cardinality(ToSet(HybridSearch(c, n))) = Len(HybridSearch(c, n))
           /\ Len(HybridSearch(c, n)) = (IF n < Cardinality(FoundOf(c, n)) THEN n
                                         ELSE Cardinality(FoundOf(c, n)))
           /\ \A x \in FoundOf(c, n) \ ToSet(HybridSearch(c, n)), i \in DOMAIN HybridSearch(c, n) :
                 ~Ahead(<<DenseLeg(c, n), LexicalLeg(c, n)>>, x, HybridSearch(c, n)[i])
<1> DEFINE t == HybridSearch(c, n)
           s == Fused(c, n)
           S == FoundOf(c, n)
           Precedes(x, y) == Ahead(<<DenseLeg(c, n), LexicalLeg(c, n)>>, x, y)
<1>1. t = TopOf(s, n)
  BY DEF HybridSearch, Fused, FusedScore, FoundOf, DenseLeg, LexicalLeg
<1>2. /\ Listing(s) /\ s \in Seq(Chunks) /\ Len(s) = Cardinality(S) /\ ToSet(s) = S
      /\ Cardinality(S) \in Nat /\ \A i, j \in DOMAIN s : Precedes(s[i], s[j]) => i < j
  BY FusedMeans DEF Listing
<1> HIDE DEF t, s, S, Precedes
<1>3. /\ Listing(t) /\ ToSet(t) \subseteq S
  BY <1>1, <1>2, TopIsListing
<1>4. /\ Len(t) = (IF n < Len(s) THEN n ELSE Len(s)) /\ DOMAIN t = 1 .. Len(t) /\ DOMAIN s = 1 .. Len(s)
      /\ Len(s) \in Nat /\ Len(t) \in Nat
      /\ \A i \in DOMAIN t : i \in DOMAIN s /\ t[i] = s[i]
  BY <1>1, <1>2, TopMeans
<1>5. Cardinality(ToSet(t)) = Len(t)
  BY <1>3, OnceEach DEF Listing
<1>6. \A i, j \in DOMAIN t : Precedes(t[i], t[j]) => i < j
  BY <1>2, <1>4
<1>7. ASSUME NEW x \in S \ ToSet(t), NEW i \in DOMAIN t PROVE ~Precedes(x, t[i])
  <2>1. PICK k \in DOMAIN s : s[k] = x
    BY <1>2 DEF ToSet
  <2>2. ~(k \in DOMAIN t)
    BY <1>4, <2>1 DEF ToSet
  <2>3. ~(k < i)
    BY <1>4, <2>2
  <2> QED
    BY <1>2, <1>4, <2>1, <2>3
<1> QED
  BY <1>1, <1>2, <1>3, <1>4, <1>5, <1>6, <1>7 DEF t, s, S, Precedes

LEMMA HybridCallsMean ==
    ASSUME NEW c \in HybridCalls
    PROVE  Legs(c) /\ c.top \in Nat
<1>1. c.dense \in FirstRankings /\ c.lexical \in RankingsOf(Chunks, MaxHits) /\ c.top \in Tops \cup {MaxHits}
  BY DEF HybridCalls
<1>2. c.top \in Nat /\ MaxHits \in Nat
  BY <1>1, RankingAssumption
<1>3. /\ Listing(c.dense) /\ Len(c.dense) \in 0 .. MaxHits
      /\ Listing(c.lexical) /\ Len(c.lexical) \in 0 .. MaxHits
  BY <1>1, <1>2, FirstAreListings, RankingsAreListings
<1> QED
  BY <1>2, <1>3 DEF Legs

-----------------------------------------------------------------------------
(* The same query in several phrasings (fuse_ranked_lists).                *)

FusionScores(rankings) == [c \in MetIn(rankings) |-> Score(rankings, c)]

\* A chunk that no phrasing places lower has no lower score.
LEMMA ScoreGrows ==
    ASSUME NEW rankings, AllListings(rankings),
           \A i \in DOMAIN rankings : Len(rankings[i]) <= MaxHits,
           NEW x, NEW y,
           \A i \in DOMAIN rankings : Reciprocal(rankings[i], x) >= Reciprocal(rankings[i], y)
    PROVE  Score(rankings, x) \in Int /\ Score(rankings, y) \in Int
              /\ Score(rankings, x) >= Score(rankings, y)
<1> DEFINE f(z) == [i \in DOMAIN rankings |-> Reciprocal(rankings[i], z)]
           n == Len(rankings)
<1>1. n \in Nat /\ DOMAIN rankings = 1 .. n
  BY DEF AllListings
<1>2. ASSUME NEW i \in DOMAIN rankings, NEW z PROVE Reciprocal(rankings[i], z) \in Int
  <2>1. rankings[i] \in Seq(Chunks) /\ EachOnce(rankings[i])
    BY DEF AllListings
  <2> QED
    BY <2>1, ReciprocalFalls
<1>3. \A i \in 1 .. n : f(x)[i] \in Int /\ f(y)[i] \in Int /\ f(y)[i] <= f(x)[i]
  BY <1>1, <1>2
<1>4. Score(rankings, x) = SumTo(f(x), n) /\ Score(rankings, y) = SumTo(f(y), n)
  BY DEF Score
<1> DEFINE fx == f(x)
           fy == f(y)
<1>5. \A i \in 1 .. n : fx[i] \in Int /\ fy[i] \in Int /\ fy[i] <= fx[i]
  BY <1>3
<1> HIDE DEF f, n, fx, fy
<1>6. SumTo(fy, n) <= SumTo(fx, n) /\ SumTo(fx, n) \in Int /\ SumTo(fy, n) \in Int
  BY <1>1, <1>5, SumGrows, SumSteps
<1> QED
  BY <1>4, <1>6 DEF fx, fy

LEMMA FusionMeans ==
    ASSUME NEW rankings, AllListings(rankings),
           \A i \in DOMAIN rankings : Len(rankings[i]) <= MaxHits
    PROVE  /\ InScoreOrder(FuseRankedLists(rankings), MetIn(rankings), rankings,
                           FusionScores(rankings))
           /\ \A i, j \in DOMAIN FuseRankedLists(rankings) :
                 Ahead(rankings, FuseRankedLists(rankings)[i], FuseRankedLists(rankings)[j])
                    => i < j
<1> DEFINE s == FuseRankedLists(rankings)
           S == MetIn(rankings)
           score == FusionScores(rankings)
<1>1. s = SortByScore(S, rankings, score)
  BY DEF FuseRankedLists, MetIn, FusionScores
<1>2. ASSUME NEW x, NEW y, Ahead(rankings, x, y), x \in S
      PROVE  /\ Score(rankings, x) \in Int /\ Score(rankings, y) \in Int
             /\ Score(rankings, x) >= Score(rankings, y)
             /\ MetBefore(rankings, x, y)
  <2>1. /\ \A i \in DOMAIN rankings : Reciprocal(rankings[i], x) >= Reciprocal(rankings[i], y)
        /\ MetBefore(rankings, x, y)
    BY <1>2, AheadIsFirst DEF AllListings, MetIn
  <2> QED
    BY <2>1, ScoreGrows
<1>3. ASSUME NEW x \in S PROVE score[x] \in Int /\ score[x] = Score(rankings, x)
  <2>1. ASSUME NEW i \in DOMAIN rankings PROVE Reciprocal(rankings[i], x) \in Int
    <3>1. rankings[i] \in Seq(Chunks) /\ EachOnce(rankings[i])
      BY DEF AllListings
    <3> QED
      BY <3>1, ReciprocalFalls
  <2>2. \A i \in DOMAIN rankings : Reciprocal(rankings[i], x) >= Reciprocal(rankings[i], x)
    BY <2>1
  <2> QED
    BY <2>2, ScoreGrows DEF FusionScores
<1> HIDE DEF s, S, score
<1>4. InScoreOrder(s, S, rankings, score)
  BY <1>1, <1>3, SortByScoreMeans DEF S
<1>5. /\ \A p \in DOMAIN s : s[p] \in S
      /\ \A p, q \in DOMAIN s : <<s[p], s[q]>> \in ByScore(S, rankings, score) => p < q
  BY <1>4 DEF InScoreOrder
<1>6. ASSUME NEW i \in DOMAIN s, NEW j \in DOMAIN s, Ahead(rankings, s[i], s[j]) PROVE i < j
  <2>1. s[i] \in S /\ s[j] \in S
    BY <1>5
  <2>2. /\ score[s[i]] \in Int /\ score[s[j]] \in Int /\ score[s[i]] >= score[s[j]]
        /\ MetBefore(rankings, s[i], s[j])
    BY <1>2, <1>3, <1>6, <2>1
  <2>3. <<s[i], s[j]>> \in ByScore(S, rankings, score)
    BY <2>1, <2>2 DEF ByScore
  <2> QED
    BY <1>5, <2>3
<1> QED
  BY <1>4, <1>6 DEF s, S, score

LEMMA FunctionIsList ==
    ASSUME NEW V, NEW n \in Nat, NEW r \in [1 .. n -> V]
    PROVE  r \in Seq(V) /\ Len(r) = n /\ (n > 0 => Head(r) = r[1])
<1>1. r \in Seq(V) /\ Len(r) = n
  OBVIOUS
<1>2. ASSUME n > 0 PROVE Head(r) = r[1]
  <2>1. r # << >>
    BY <1>1, <1>2
  <2> QED
    BY <1>1, <2>1
<1> QED
  BY <1>1, <1>2

LEMMA ExpandedCallsMean ==
    ASSUME NEW c \in ExpandedCalls
    PROVE  /\ AllListings(c.rankings) /\ DOMAIN c.rankings = {1, 2}
           /\ \A i \in DOMAIN c.rankings : Len(c.rankings[i]) <= MaxHits
           /\ AllListings(<<c.rankings[1]>>) /\ DOMAIN <<c.rankings[1]>> = {1}
           /\ \A i \in DOMAIN <<c.rankings[1]>> : Len(<<c.rankings[1]>>[i]) <= MaxHits
           /\ Head(c.rankings) = c.rankings[1]
<1>1. c.rankings \in [1 .. 2 -> RankingsOf(Chunks, MaxHits)]
  BY DEF ExpandedCalls
<1>2. MaxHits \in Nat
  BY RankingAssumption
<1> DEFINE r == c.rankings
<1> HIDE DEF r
<1>3. DOMAIN r = {1, 2} /\ r \in [1 .. 2 -> RankingsOf(Chunks, MaxHits)]
  BY <1>1 DEF r
<1>4. \A i \in 1 .. 2 : r[i] \in RankingsOf(Chunks, MaxHits)
  BY <1>3
<1>5. \A i \in 1 .. 2 : r[i] \in Seq(Chunks) /\ EachOnce(r[i]) /\ Len(r[i]) \in 0 .. MaxHits
  BY <1>2, <1>4, RankingsAreListings DEF Listing
<1>6. r \in [1 .. 2 -> Seq(Chunks)]
  BY <1>3, <1>5
<1>7. r \in Seq(Seq(Chunks)) /\ Head(r) = r[1]
  <2> 2 \in Nat /\ 2 > 0
    OBVIOUS
  <2> QED
    BY <1>6, FunctionIsList
<1>8. AllListings(r) /\ \A i \in DOMAIN r : Len(r[i]) <= MaxHits
  BY <1>2, <1>3, <1>5, <1>7 DEF AllListings
<1> DEFINE a == r[1]
<1>9. a \in Seq(Chunks) /\ EachOnce(a) /\ Len(a) <= MaxHits
  BY <1>2, <1>5
<1> HIDE DEF a
<1>10. <<a>> \in Seq(Seq(Chunks)) /\ DOMAIN <<a>> = {1} /\ <<a>>[1] = a
  BY <1>9
<1>11. AllListings(<<a>>) /\ \A i \in DOMAIN <<a>> : Len(<<a>>[i]) <= MaxHits
  BY <1>9, <1>10 DEF AllListings
<1> QED
  BY <1>3, <1>7, <1>8, <1>10, <1>11 DEF a, r

\* Searches keep what is ahead ahead, and phrasings likewise.
LEMMA FusionIsFair ==
    ASSUME Of("hybrid_search") => call \in HybridCalls /\ result = HybridSearch(call, call.top),
           Of("expanded_search") => call \in ExpandedCalls /\ result = ExpandedSearch(call)
    PROVE  FusionFair
<1> DEFINE n == call.top
           d == DenseLeg(call, n)
           l == LexicalLeg(call, n)
           S == FoundOf(call, n)
<1>1. ASSUME Of("hybrid_search")
      PROVE  /\ \A i, j \in DOMAIN result : Ahead(<<d, l>>, result[i], result[j]) => i < j
             /\ ToSet(result) \subseteq S
             /\ Cardinality(ToSet(result)) = Len(result)
             /\ Len(result) = (IF n < Cardinality(S) THEN n ELSE Cardinality(S))
             /\ \A x \in S \ ToSet(result), i \in DOMAIN result : ~Ahead(<<d, l>>, x, result[i])
  <2>1. call \in HybridCalls /\ result = HybridSearch(call, n)
    BY <1>1
  <2>2. Legs(call) /\ n \in Nat
    BY <2>1, HybridCallsMean
  <2> QED
    BY <2>1, <2>2, SearchIsFair
<1>2. S = ToSet(d) \cup (IF call.fetchFails THEN {} ELSE ToSet(l) \cap call.stored)
  BY DEF FoundOf
<1> DEFINE read == IF call.fails THEN <<call.rankings[1]>> ELSE call.rankings
<1>3. ASSUME Of("expanded_search")
      PROVE  /\ ToSet(result) = UNION {ToSet(read[i]) : i \in DOMAIN read}
             /\ \A i, j \in DOMAIN result : Ahead(read, result[i], result[j]) => i < j
  <2>1. call \in ExpandedCalls /\ result = ExpandedSearch(call)
    BY <1>3
  <2>2. AllListings(read) /\ \A i \in DOMAIN read : Len(read[i]) <= MaxHits
    BY <2>1, ExpandedCallsMean
  <2>3. result = FuseRankedLists(read)
    BY <2>1, ExpandedCallsMean DEF ExpandedSearch
  <2> HIDE DEF read
  <2>4. /\ InScoreOrder(result, MetIn(read), read, FusionScores(read))
        /\ \A i, j \in DOMAIN result : Ahead(read, result[i], result[j]) => i < j
    BY <2>2, <2>3, FusionMeans
  <2> QED
    BY <2>4 DEF InScoreOrder, MetIn
<1> HIDE DEF S
<1> QED
  BY <1>1, <1>2, <1>3 DEF FusionFair, DenseLeg, LexicalLeg

-----------------------------------------------------------------------------
(* The second order (semantic_search).                                     *)

\* A ranking that another leg adds nothing to.
LEMMA AloneIsFused ==
    ASSUME NEW c, Legs(c), NEW n \in Nat, c.denseFails = FALSE, c.lexicalFails = TRUE
    PROVE  HybridSearch(c, n) = TopOf(c.dense, n)
<1> DEFINE d == DenseLeg(c, n)
           l == LexicalLeg(c, n)
           r == <<d, l>>
           S == FoundOf(c, n)
           R == ByScore(S, r, FusedScore(c, n))
           m == Len(d)
<1>1. d = TopOf(c.dense, n) /\ l = << >> /\ S = ToSet(d)
  BY DEF DenseLeg, LexicalLeg, FoundOf, ToSet
<1>2. Listing(d) /\ d \in Seq(Chunks) /\ EachOnce(d) /\ m <= MaxHits
  BY LegsAreListings DEF Listing
<1>3. /\ AllListings(r) /\ S \in SUBSET MetIn(r) /\ \A x \in S : FusedScore(c, n)[x] \in Int
      /\ \A x, y \in S : Ahead(r, x, y) => <<x, y>> \in R
  BY FusedOrder
<1>4. DOMAIN r = {1, 2} /\ r[1] = d /\ r[2] = << >>
  BY <1>1
<1>5. MaxHits \in Nat
  BY RankingAssumption
<1>6. StrictlyOrdered(S, R)
  BY <1>3, ScoresOrder DEF AllListings, MetIn
<1> HIDE DEF d, l, r, S, R
<1>7. m \in Nat /\ DOMAIN d = 1 .. m /\ d \in [1 .. m -> S] /\ \A x \in S : \E p \in 1 .. m : d[p] = x
  BY <1>1, <1>2 DEF ToSet
<1>8. ASSUME NEW p \in 1 .. m, NEW q \in 1 .. m, p < q PROVE <<d[p], d[q]>> \in R
  <2>1. /\ Contains(d, d[p]) /\ Place(d, d[p]) = p
        /\ Contains(d, d[q]) /\ Place(d, d[q]) = q
    BY <1>2, <1>7, PlaceMeans
  <2>2. \A x : ~Contains(<< >>, x)
    <3> SUFFICES ASSUME NEW x PROVE ~Contains(<< >>, x)
      OBVIOUS
    <3>1. << >> \in Seq(Chunks) /\ EachOnce(<< >>)
      BY EmptyIsListing DEF Listing
    <3>2. x \notin ToSet(<< >>)
      BY DEF ToSet
    <3> QED
      BY <3>1, <3>2, PlaceMeans
  <2>3. RankIn(d, d[p]) = p /\ RankIn(d, d[q]) = q
    BY <2>1 DEF RankIn
  <2>4. RankIn(<< >>, d[p]) = MaxHits + 1 /\ RankIn(<< >>, d[q]) = MaxHits + 1
    BY <2>2 DEF RankIn
  <2>5. \A i \in DOMAIN r : RankIn(r[i], d[p]) <= RankIn(r[i], d[q])
    <3> SUFFICES ASSUME NEW i \in DOMAIN r PROVE RankIn(r[i], d[p]) <= RankIn(r[i], d[q])
      OBVIOUS
    <3>1. CASE r[i] = d
      BY <1>8, <2>3, <3>1
    <3>2. CASE r[i] = << >>
      BY <1>5, <2>4, <3>2
    <3> QED
      BY <1>4, <3>1, <3>2
  <2>6. d[p] # d[q]
    BY <1>8, <2>1
  <2>7. d[p] \in S /\ d[q] \in S
    BY <1>7
  <2> QED
    BY <1>3, <2>5, <2>6, <2>7 DEF Ahead
<1>9. Sorted(S, R) = d
  BY <1>6, <1>7, <1>8, SortedIsUnique
<1>10. HybridSearch(c, n) = TopOf(Sorted(S, R), n)
  BY SearchIsFair DEF Fused, SortByScore, S, R, r, d, l
<1>11. TopOf(d, n) = d
  <2>1. c.dense \in Seq(Chunks)
    BY DEF Legs, Listing
  <2>2. m = (IF n < Len(c.dense) THEN n ELSE Len(c.dense)) /\ Len(c.dense) \in Nat
    BY <1>1, <2>1, TopMeans
  <2>3. ~(n < m)
    BY <1>7, <2>2
  <2>4. TopOf(d, n) = SubSeq(d, 1, m)
    BY <2>3 DEF TopOf
  <2>5. SubSeq(d, 1, m) = d
    BY <1>2
  <2> QED
    BY <2>4, <2>5
<1> QED
  BY <1>1, <1>9, <1>10, <1>11

LEMMA SameList ==
    ASSUME NEW V, NEW s \in Seq(V), NEW t \in Seq(V), Len(s) = Len(t),
           \A i \in 1 .. Len(s) : s[i] = t[i]
    PROVE  s = t
<1>1. s = [i \in 1 .. Len(s) |-> s[i]]
  OBVIOUS
<1>2. t = [i \in 1 .. Len(s) |-> t[i]]
  OBVIOUS
<1> QED
  BY <1>1, <1>2

\* The best of the best are the best.
LEMMA TopOfTop ==
    ASSUME NEW V, NEW s \in Seq(V), NEW n \in Nat, NEW m \in Nat
    PROVE  TopOf(TopOf(s, m), n) = SubSeq(s, 1, Len(TopOf(TopOf(s, m), n)))
<1> DEFINE d == TopOf(s, m)
           t == TopOf(d, n)
<1>1. /\ d \in Seq(V) /\ Len(d) \in 0 .. Len(s) /\ Len(s) \in Nat
      /\ DOMAIN d = 1 .. Len(d) /\ \A i \in DOMAIN d : d[i] = s[i]
  BY TopMeans
<1> HIDE DEF d
<1>2. /\ t \in Seq(V) /\ Len(t) \in 0 .. Len(d)
      /\ DOMAIN t = 1 .. Len(t) /\ \A i \in DOMAIN t : i \in DOMAIN d /\ t[i] = d[i]
  BY <1>1, TopMeans
<1> HIDE DEF t
<1> DEFINE k == Len(t)
<1>3. k \in 0 .. Len(s) /\ \A i \in 1 .. k : t[i] = s[i]
  BY <1>1, <1>2
<1> HIDE DEF k
<1>4. /\ SubSeq(s, 1, k) \in Seq(V) /\ Len(SubSeq(s, 1, k)) = k
      /\ \A i \in 1 .. k : SubSeq(s, 1, k)[i] = s[i]
  BY <1>1, <1>3
<1>5. t = SubSeq(s, 1, k)
  BY <1>2, <1>3, <1>4, SameList DEF k
<1> QED
  BY <1>5 DEF t, d, k

LEMMA PoolIsNat == \A n \in Nat : Pool(n) \in Nat
BY RankingAssumption DEF Pool

LEMMA SemanticCallsMean ==
    ASSUME NEW c \in SemanticCalls
    PROVE  /\ Legs(c) /\ c.top \in Nat /\ c.denseFails = FALSE /\ c.lexicalFails = TRUE
           /\ c.score \in [Chunks -> Nat] /\ c.fails \in BOOLEAN
<1>1. /\ c.dense \in FirstRankings /\ c.lexical = << >> /\ c.top \in Tops
      /\ c.denseFails = FALSE /\ c.lexicalFails = TRUE /\ c.score \in [Chunks -> Grades]
      /\ c.fails \in BOOLEAN
  BY DEF SemanticCalls
<1>2. c.top \in Nat /\ MaxHits \in Nat /\ c.score \in [Chunks -> Nat]
  BY <1>1, RankingAssumption
<1>3. Listing(c.dense) /\ Len(c.dense) \in 0 .. MaxHits
  BY <1>1, FirstAreListings
<1>4. Listing(c.lexical) /\ Len(c.lexical) <= MaxHits
  BY <1>1, <1>2, EmptyIsListing
<1> QED
  BY <1>1, <1>2, <1>3, <1>4 DEF Legs

\* The second model orders all that was fetched for it.
LEMMA SecondOpinionIsTaken ==
    ASSUME Of("semantic_search") => call \in SemanticCalls /\ result = SemanticSearch(call)
    PROVE  SecondOpinion
<1> DEFINE pool == TopOf(call.dense, Pool(call.top))
           n == call.top
<1> SUFFICES ASSUME Of("semantic_search")
             PROVE  /\ Len(result) = (IF n < Len(pool) THEN n ELSE Len(pool))
                    /\ call.fails => result = SubSeq(call.dense, 1, Len(result))
                    /\ ~call.fails => \A i \in DOMAIN result :
                          \A x \in ToSet(pool) \ {result[j] : j \in 1 .. i - 1} :
                             call.score[result[i]] >= call.score[x]
  BY DEF SecondOpinion
<1>1. /\ Legs(call) /\ n \in Nat /\ call.denseFails = FALSE /\ call.lexicalFails = TRUE
      /\ call.score \in [Chunks -> Nat] /\ call.fails \in BOOLEAN
  BY SemanticCallsMean
<1>2. Pool(n) \in Nat
  BY <1>1, PoolIsNat
<1>3. HybridSearch(call, Pool(n)) = pool
  BY <1>1, <1>2, AloneIsFused
<1>4. result = Rerank(pool, call.score, call.fails, n)
  BY <1>3 DEF SemanticSearch
<1>5. Listing(pool) /\ pool \in Seq(Chunks) /\ EachOnce(pool) /\ Len(pool) \in Nat
  <2>1. Listing(pool)
    BY <1>1, <1>2, TopIsListing DEF Legs
  <2> QED
    BY <2>1 DEF Listing
<1>6. CASE call.fails
  <2>1. result = TopOf(pool, n)
    BY <1>4, <1>6 DEF Rerank
  <2>2. Len(result) = IF n < Len(pool) THEN n ELSE Len(pool)
    <3> HIDE DEF pool
    <3> QED
      BY <1>1, <1>5, <2>1, TopMeans
  <2>3. call.dense \in Seq(Chunks)
    BY <1>1 DEF Legs, Listing
  <2>4. result = SubSeq(call.dense, 1, Len(result))
    BY <1>1, <1>2, <2>1, <2>3, TopOfTop
  <2> QED
    BY <1>6, <2>2, <2>4
<1>7. CASE ~call.fails
  <2> DEFINE r == <<pool>>
             S == ToSet(pool)
             s == SortByScore(S, r, call.score)
  <2>1. result = TopOf(s, n)
    BY <1>4, <1>7 DEF Rerank
  <2> HIDE DEF pool, n
  <2>2. AllListings(r) /\ S \in SUBSET MetIn(r)
    <3>1. r \in Seq(Seq(Chunks)) /\ DOMAIN r = {1} /\ r[1] = pool
      BY <1>5
    <3> HIDE DEF r
    <3> QED
      BY <1>5, <3>1 DEF AllListings, MetIn
  <2>3. \A x \in S : call.score[x] \in Int
    BY <1>1, <1>5 DEF ToSet
  <2>4. InScoreOrder(s, S, r, call.score)
    BY <2>2, <2>3, SortByScoreMeans
  <2>5. IsFiniteSet(S) /\ Cardinality(S) = Len(pool)
    BY <1>5, OnceEach
  <2> HIDE DEF s, S, r
  <2>6. /\ s \in Seq(Chunks) /\ Len(s) = Len(pool) /\ ToSet(s) = S
        /\ DOMAIN s = 1 .. Len(s) /\ Len(s) \in Nat
        /\ \A p, q \in DOMAIN s : p < q => <<s[p], s[q]>> \in ByScore(S, r, call.score)
    BY <1>5, <2>4, <2>5 DEF InScoreOrder
  <2>7. /\ Len(result) = (IF n < Len(s) THEN n ELSE Len(s)) /\ DOMAIN result = 1 .. Len(result)
        /\ Len(result) \in 0 .. Len(s)
        /\ \A i \in DOMAIN result : i \in DOMAIN s /\ result[i] = s[i]
    BY <1>1, <2>1, <2>6, TopMeans
  <2>8. ASSUME NEW i \in DOMAIN result, NEW x \in S \ {result[j] : j \in 1 .. i - 1}
        PROVE  call.score[result[i]] >= call.score[x]
    <3>1. PICK k \in DOMAIN s : s[k] = x
      BY <2>6 DEF ToSet
    <3>2. i \in Nat /\ k \in Nat /\ i \in DOMAIN s /\ result[i] = s[i]
      BY <2>6, <2>7
    <3>3. ~(k < i)
      <4> SUFFICES ASSUME k < i PROVE FALSE
        OBVIOUS
      <4>1. k \in 1 .. i - 1 /\ k \in DOMAIN result
        BY <2>6, <2>7, <3>2
      <4>2. result[k] = x
        BY <2>7, <3>1, <4>1
      <4> QED
        BY <4>1, <4>2
    <3>4. call.score[s[i]] \in Int /\ call.score[x] \in Int
      BY <2>3, <2>6, <3>2 DEF ToSet
    <3>5. CASE k = i
      BY <3>1, <3>2, <3>4, <3>5
    <3>6. CASE i < k
      <4>1. <<s[i], s[k]>> \in ByScore(S, r, call.score)
        BY <2>6, <3>2, <3>6
      <4>2. call.score[s[i]] > call.score[s[k]] \/ call.score[s[i]] = call.score[s[k]]
        BY <4>1 DEF ByScore
      <4> QED
        BY <3>1, <3>2, <3>4, <4>2
    <3> QED
      BY <3>2, <3>3, <3>5, <3>6
  <2> QED
    BY <1>7, <2>6, <2>7, <2>8 DEF S
<1> QED
  BY <1>1, <1>6, <1>7

-----------------------------------------------------------------------------
(* The evidence of a question (generate_answer_endpoint).                  *)

LEMMA LowestMeans ==
    ASSUME NEW S \in SUBSET Nat, S # {}
    PROVE  Lowest(S) \in S /\ \A y \in S : Lowest(S) <= y
<1>1. \E x \in S : \A y \in S : x <= y
  BY LeastElement
<1> QED
  BY <1>1 DEF Lowest

\* A whole document is asked for by a cue for it.
LEMMA ScopeMeans ==
    ASSUME NEW cues
    PROVE  ClassifyScope(cues) = "global"
              <=> cues \cap ({"global"} \cup ToSet(TaskTriggers)) # {}
<1> DEFINE hits == {i \in DOMAIN TaskTriggers : TaskTriggers[i] \in cues}
<1>1. /\ DOMAIN TaskTriggers = 1 .. 6
      /\ \A i \in 1 .. 6 : TaskTriggers[i] # "answer"
  BY DEF TaskTriggers
<1>2. hits \in SUBSET Nat
  BY <1>1
<1>3. hits # {} => Lowest(hits) \in 1 .. 6
  <2>1. hits # {} => Lowest(hits) \in hits
    <3> HIDE DEF hits
    <3> QED
      BY <1>2, LowestMeans
  <2> QED
    BY <1>1, <2>1
<1>4. ClassifyTask(cues) = "answer" <=> hits = {}
  <2>1. ClassifyTask(cues) = IF hits = {} THEN "answer" ELSE TaskTriggers[Lowest(hits)]
    BY DEF ClassifyTask
  <2> HIDE DEF hits
  <2> QED
    BY <1>1, <1>3, <2>1
<1>5. hits # {} <=> cues \cap ToSet(TaskTriggers) # {}
  BY DEF ToSet
<1>6. ClassifyScope(cues) = "global" <=> hits # {} \/ "global" \in cues
  <2> HIDE DEF hits
  <2> QED
    BY <1>4 DEF ClassifyScope
<1> HIDE DEF hits
<1> QED
  BY <1>5, <1>6

\* What is read of a document is its beginning, in order.
LEMMA WholeMeans ==
    ASSUME NEW c, c.document \in ReadOrders
    PROVE  \E k \in Nat :
              /\ WholeDocument(c) = [i \in 1 .. k |-> i]
              /\ k = 0 <=> c.readFails \/ c.document = << >>
              /\ k # 0 => k = Len(c.document) \/ k = WholeCap
<1> DEFINE L == IF c.readFails THEN 0 ELSE Len(c.document)
           all == [i \in 1 .. L |-> i]
           k == IF WholeCap = 0 \/ L <= WholeCap THEN L ELSE WholeCap
<1>1. /\ WholeCap \in Nat /\ c.document \in Seq(Nat) /\ Len(c.document) \in Nat
      /\ ToSet(c.document) = 1 .. Len(c.document)
  BY RoutingAssumption
<1>2. L \in Nat /\ k \in Nat
  BY <1>1
<1>3. Len(c.document) = 0 <=> c.document = << >>
  BY <1>1
<1>4. FetchWholeDocument(c) = all
  <2>1. CASE c.readFails
    <3>1. all = << >>
      BY <2>1
    <3> QED
      BY <2>1, <3>1 DEF FetchWholeDocument
  <2>2. CASE ~c.readFails
    BY <1>1, <2>2, AscendingOfAll DEF FetchWholeDocument
  <2> QED
    BY <2>1, <2>2
<1>5. k = 0 <=> c.readFails \/ c.document = << >>
  BY <1>1, <1>3
<1>6. k # 0 => k = Len(c.document) \/ k = WholeCap
  BY <1>1
<1>7. WholeDocument(c) = [i \in 1 .. k |-> i]
  <2> DEFINE some == [i \in 1 .. k |-> i]
  <2>0. WholeDocument(c) = IF WholeCap = 0 THEN all ELSE TopOf(all, WholeCap)
    BY <1>4 DEF WholeDocument, CapWhole
  <2>1. CASE WholeCap = 0
    BY <2>0, <2>1
  <2>2. CASE WholeCap # 0
    <3>1. k = IF WholeCap < L THEN WholeCap ELSE L
      BY <1>1, <1>2, <2>2
    <3>2. all \in Seq(Nat) /\ Len(all) = L /\ \A i \in 1 .. L : all[i] = i
      <4> HIDE DEF L
      <4> QED
        BY <1>2
    <3>3. some \in Seq(Nat) /\ Len(some) = k /\ \A i \in 1 .. k : some[i] = i
      <4> HIDE DEF k
      <4> QED
        BY <1>2
    <3> HIDE DEF all, some, L, k
    <3>4. /\ TopOf(all, WholeCap) \in Seq(Nat) /\ Len(TopOf(all, WholeCap)) = k /\ k \in 0 .. L
          /\ DOMAIN TopOf(all, WholeCap) = 1 .. k
          /\ \A i \in DOMAIN TopOf(all, WholeCap) : i \in DOMAIN all /\ TopOf(all, WholeCap)[i] = all[i]
      BY <1>1, <1>2, <3>1, <3>2, TopMeans
    <3>5. \A i \in 1 .. k : TopOf(all, WholeCap)[i] = some[i]
      BY <1>2, <3>2, <3>3, <3>4, SMTT(30)
    <3>6. TopOf(all, WholeCap) = some
      BY <3>3, <3>4, <3>5, SameList
    <3> QED
      BY <2>0, <2>2, <3>6 DEF some
  <2> QED
    BY <2>1, <2>2
<1> HIDE DEF k
<1> QED
  BY <1>2, <1>5, <1>6, <1>7

\* u is s and then t.
IsJoined(u, s, t) ==
    /\ Len(u) = Len(s) + Len(t) /\ DOMAIN u = 1 .. Len(s) + Len(t)
    /\ \A i \in 1 .. Len(s) : u[i] = s[i]
    /\ \A i \in 1 .. Len(t) : u[Len(s) + i] = t[i]

LEMMA JoinedMeans ==
    ASSUME NEW V, NEW s \in Seq(V), NEW t \in Seq(V)
    PROVE  s \o t \in Seq(V) /\ IsJoined(s \o t, s, t)
<1>1. s \o t \in Seq(V) /\ Len(s \o t) = Len(s) + Len(t) /\ Len(s) \in Nat /\ Len(t) \in Nat
  OBVIOUS
<1>2. DOMAIN (s \o t) = 1 .. Len(s) + Len(t)
  BY <1>1
<1>3. \A i \in 1 .. Len(s) : (s \o t)[i] = s[i]
  BY <1>1
<1>4. \A i \in 1 .. Len(t) : (s \o t)[Len(s) + i] = t[i]
  <2> SUFFICES ASSUME NEW i \in 1 .. Len(t) PROVE (s \o t)[Len(s) + i] = t[i]
    OBVIOUS
  <2>1. Len(s) + i \in 1 .. Len(s) + Len(t) /\ ~(Len(s) + i <= Len(s))
           /\ Len(s) + i - Len(s) = i
    BY <1>1
  <2> QED
    BY <2>1
<1> DEFINE u == s \o t
<1> HIDE DEF u
<1>5. IsJoined(u, s, t)
  BY <1>1, <1>2, <1>3, <1>4 DEF IsJoined, u
<1> QED
  BY <1>1, <1>5 DEF u

\* What a second search adds comes after, and none of it twice.
LEMMA AddedOnce ==
    ASSUME NEW a, Listing(a), NEW b, Listing(b)
    PROVE  LET added == Picked(b, {k \in DOMAIN b : b[k] \notin ToSet(a)})
           IN  /\ Listing(a \o added)
               /\ ToSet(a \o added) \subseteq ToSet(a) \cup ToSet(b)
               /\ Len(a \o added) \in Len(a) .. Len(a) + Len(b)
               /\ TopOf(a \o added, Len(a)) = a
<1> DEFINE I == {k \in DOMAIN b : b[k] \notin ToSet(a)}
           added == Picked(b, I)
           t == a \o added
           n == Cardinality(I)
           at == Ascending(I)
<1>1. /\ a \in Seq(Chunks) /\ EachOnce(a) /\ Len(a) \in Nat /\ DOMAIN a = 1 .. Len(a)
      /\ b \in Seq(Chunks) /\ EachOnce(b) /\ Len(b) \in Nat /\ DOMAIN b = 1 .. Len(b)
  BY DEF Listing
<1>2. I \in SUBSET DOMAIN b
  OBVIOUS
<1> HIDE DEF I
<1>3. /\ n \in 0 .. Len(b) /\ added \in Seq(Chunks) /\ Len(added) = n
      /\ at \in [1 .. n -> I] /\ \A p \in 1 .. n : added[p] = b[at[p]]
      /\ \A p, q \in 1 .. n : at[p] = at[q] => p = q
  <2>1. PickedList(Chunks, b, I)
    BY <1>1, <1>2, PickedMeans
  <2> QED
    BY <2>1 DEF PickedList
<1> HIDE DEF added, n, at
<1>4. /\ t \in Seq(Chunks) /\ Len(t) = Len(a) + n /\ DOMAIN t = 1 .. Len(a) + n
      /\ \A i \in 1 .. Len(a) : t[i] = a[i]
      /\ \A p \in 1 .. n : t[Len(a) + p] = added[p]
  <2>1. t \in Seq(Chunks) /\ IsJoined(t, a, added)
    BY <1>1, <1>3, JoinedMeans
  <2> HIDE DEF t
  <2> QED
    BY <1>3, <2>1 DEF IsJoined
<1> HIDE DEF t
<1>5. ASSUME NEW p \in 1 .. n PROVE added[p] \in ToSet(b) /\ added[p] \notin ToSet(a)
  <2>1. at[p] \in DOMAIN b /\ b[at[p]] \notin ToSet(a)
    BY <1>3 DEF I
  <2> QED
    BY <1>3, <2>1 DEF ToSet
<1>6. \A p, q \in 1 .. n : added[p] = added[q] => p = q
  <2> SUFFICES ASSUME NEW p \in 1 .. n, NEW q \in 1 .. n, added[p] = added[q] PROVE p = q
    OBVIOUS
  <2>1. at[p] \in DOMAIN b /\ at[q] \in DOMAIN b
    BY <1>2, <1>3
  <2>2. b[at[p]] = b[at[q]]
    BY <1>3
  <2>3. at[p] = at[q]
    BY <1>1, <2>1, <2>2 DEF EachOnce
  <2> QED
    BY <1>3, <2>3
<1>7. ASSUME NEW i \in DOMAIN t
      PROVE  \/ i \in 1 .. Len(a) /\ t[i] = a[i] /\ t[i] \in ToSet(a)
             \/ /\ i - Len(a) \in 1 .. n /\ t[i] = added[i - Len(a)]
                /\ t[i] \in ToSet(b) /\ t[i] \notin ToSet(a)
  <2>1. CASE i <= Len(a)
    <3>1. i \in 1 .. Len(a)
      BY <1>1, <1>3, <1>4, <2>1
    <3> QED
      BY <1>1, <1>4, <3>1 DEF ToSet
  <2>2. CASE ~(i <= Len(a))
    <3>1. i - Len(a) \in 1 .. n /\ Len(a) + (i - Len(a)) = i
      BY <1>1, <1>3, <1>4, <2>2
    <3>2. t[i] = added[i - Len(a)]
      BY <1>4, <3>1
    <3> QED
      BY <1>5, <3>1, <3>2
  <2> QED
    BY <2>1, <2>2
<1>8. EachOnce(t)
  <2> SUFFICES ASSUME NEW i \in DOMAIN t, NEW j \in DOMAIN t, t[i] = t[j] PROVE i = j
    BY DEF EachOnce
  <2>1. CASE i \in 1 .. Len(a) /\ t[i] = a[i] /\ t[i] \in ToSet(a)
    <3>1. j \in 1 .. Len(a) /\ t[j] = a[j]
      BY <1>7, <2>1
    <3> QED
      BY <1>1, <2>1, <3>1 DEF EachOnce
  <2>2. CASE i - Len(a) \in 1 .. n /\ t[i] = added[i - Len(a)] /\ t[i] \notin ToSet(a)
    <3>1. j - Len(a) \in 1 .. n /\ t[j] = added[j - Len(a)]
      BY <1>7, <2>2
    <3>2. i - Len(a) = j - Len(a)
      BY <1>6, <2>2, <3>1
    <3>3. i \in Int /\ j \in Int
      BY <1>1, <1>3, <1>4
    <3> QED
      BY <1>1, <3>2, <3>3
  <2> QED
    BY <1>7, <2>1, <2>2
<1>9. ToSet(t) \subseteq ToSet(a) \cup ToSet(b)
  <2>1. \A i \in DOMAIN t : t[i] \in ToSet(a) \cup ToSet(b)
    BY <1>7
  <2>2. ToSet(t) = {t[i] : i \in DOMAIN t}
    BY DEF ToSet
  <2> QED
    BY <2>1, <2>2
<1>10. Len(t) \in Len(a) .. Len(a) + Len(b)
  BY <1>1, <1>3, <1>4
<1>11. TopOf(t, Len(a)) = a
  <2>1. /\ TopOf(t, Len(a)) \in Seq(Chunks) /\ Len(TopOf(t, Len(a))) = Len(a)
        /\ DOMAIN TopOf(t, Len(a)) = 1 .. Len(a)
        /\ \A i \in DOMAIN TopOf(t, Len(a)) : TopOf(t, Len(a))[i] = t[i]
    BY <1>1, <1>4, <1>10, TopMeans
  <2>2. \A i \in 1 .. Len(a) : TopOf(t, Len(a))[i] = a[i]
    BY <1>4, <2>1
  <2> QED
    BY <1>1, <2>1, <2>2, SameList
<1>12. Listing(t)
  BY <1>4, <1>8 DEF Listing
<1> QED
  BY <1>9, <1>10, <1>11, <1>12 DEF t, added, I

LEMMA RetrieveCallsMean ==
    ASSUME NEW c \in RetrieveCalls
    PROVE  /\ Listing(c.found) /\ Listing(c.broader) /\ c.top \in Nat \ {0}
           /\ c.document \in ReadOrders
           /\ c.oneDocument \in BOOLEAN /\ c.routing \in BOOLEAN /\ c.readFails \in BOOLEAN
<1>1. /\ c.found \in FirstRankings /\ c.broader \in RankingsOf(Chunks, 2) /\ c.top \in Tops
      /\ c.document \in ReadOrders
      /\ c.oneDocument \in BOOLEAN /\ c.routing \in BOOLEAN /\ c.readFails \in BOOLEAN
  BY DEF RetrieveCalls
<1>2. c.top \in Nat \ {0}
  BY <1>1, RankingAssumption
<1> QED
  BY <1>1, <1>2, FirstAreListings, RankingsAreListings

\* All of a ranking.
LEMMA TopOfAll ==
    ASSUME NEW V, NEW s \in Seq(V)
    PROVE  TopOf(s, Len(s)) = s
<1>1. Len(s) \in Nat
  OBVIOUS
<1>2. TopOf(s, Len(s)) = SubSeq(s, 1, Len(s))
  BY <1>1 DEF TopOf
<1> QED
  BY <1>2

\* What the search leaves to answer from.
FoundEvidence(c) ==
    IF c.found = << >> THEN << >> ELSE Retried(c, TopOf(c.found, c.top))

LEMMA FoundEvidenceMeans ==
    ASSUME NEW c \in RetrieveCalls
    PROVE  /\ Listing(FoundEvidence(c))
           /\ TopOf(FoundEvidence(c), Len(TopOf(c.found, c.top))) = TopOf(c.found, c.top)
           /\ Len(FoundEvidence(c)) < ThinThreshold + c.top \/ Len(FoundEvidence(c)) = c.top
           /\ c.found = << >> => FoundEvidence(c) = << >>
           /\ ToSet(FoundEvidence(c)) \subseteq ToSet(TopOf(c.found, c.top)) \cup ToSet(c.broader)
<1> DEFINE e == FoundEvidence(c)
           n == c.top
           best == TopOf(c.found, n)
           extra == TopOf(c.broader, n)
           added == Picked(extra, {k \in DOMAIN extra : extra[k] \notin ToSet(best)})
<1>1. /\ Listing(c.found) /\ Listing(c.broader) /\ n \in Nat /\ n > 0
      /\ ThinThreshold \in Nat
  BY RetrieveCallsMean, RoutingAssumption
<1>2. Listing(best) /\ best \in Seq(Chunks) /\ Len(best) \in Nat /\ Len(best) <= n
  <2>1. Listing(best)
    BY <1>1, TopIsListing
  <2>2. Len(best) = (IF n < Len(c.found) THEN n ELSE Len(c.found)) /\ Len(c.found) \in Nat
    BY <1>1, TopMeans DEF Listing
  <2> QED
    BY <1>1, <2>1, <2>2 DEF Listing
<1>3. Listing(extra) /\ Len(extra) \in Nat /\ Len(extra) <= n /\ ToSet(extra) \subseteq ToSet(c.broader)
  <2>1. Listing(extra) /\ ToSet(extra) \subseteq ToSet(c.broader)
    BY <1>1, TopIsListing
  <2>2. Len(extra) = (IF n < Len(c.broader) THEN n ELSE Len(c.broader)) /\ Len(c.broader) \in Nat
    BY <1>1, TopMeans DEF Listing
  <2> QED
    BY <1>1, <2>1, <2>2 DEF Listing
<1>4. /\ Listing(best \o added) /\ ToSet(best \o added) \subseteq ToSet(best) \cup ToSet(extra)
      /\ Len(best \o added) \in Len(best) .. Len(best) + Len(extra)
      /\ TopOf(best \o added, Len(best)) = best
  <2> HIDE DEF best, extra
  <2> QED
    BY <1>2, <1>3, AddedOnce
<1>5. CASE c.found = << >>
  <2>1. e = << >>
    BY <1>5 DEF FoundEvidence
  <2>2. Listing(e) /\ Len(e) = 0 /\ ToSet(e) = {}
    BY <2>1, EmptyIsListing DEF ToSet
  <2>3. best = << >>
    <3>1. Len(best) = 0
      <4>1. Len(best) = (IF n < Len(c.found) THEN n ELSE Len(c.found)) /\ Len(c.found) = 0
        BY <1>1, <1>5, TopMeans DEF Listing
      <4> QED
        BY <1>1, <4>1
    <3> HIDE DEF best
    <3> QED
      BY <1>2, <3>1
  <2>4. TopOf(<< >>, Len(<< >>)) = << >>
    BY EmptyIsListing, TopOfAll DEF Listing
  <2> QED
    BY <1>1, <2>1, <2>2, <2>3, <2>4
<1>6. CASE c.found # << >>
  <2>1. e = Retried(c, best)
    BY <1>6 DEF FoundEvidence
  <2>2. \/ e = best
        \/ e = best \o added /\ Len(best) < ThinThreshold
    BY <2>1 DEF Retried
  <2>3. CASE e = best
    <3>1. TopOf(best, Len(best)) = best
      BY <1>2, TopOfAll
    <3>2. Len(best) < ThinThreshold + n \/ Len(best) = n
      BY <1>1, <1>2
    <3> QED
      BY <1>2, <1>6, <2>3, <3>1, <3>2
  <2>4. CASE e = best \o added /\ Len(best) < ThinThreshold
    <3>1. Len(e) < ThinThreshold + n
      BY <1>1, <1>2, <1>3, <1>4, <2>4
    <3> QED
      BY <1>3, <1>4, <1>6, <2>4, <3>1
  <2> QED
    BY <2>2, <2>3, <2>4
<1> QED
  BY <1>5, <1>6

LEMMA EvidenceIsRouted ==
    ASSUME Of("retrieve") => call \in RetrieveCalls /\ result = RetrieveEvidence(call)
    PROVE  EvidenceRouted
<1> SUFFICES ASSUME Of("retrieve") PROVE EvidenceRouted
  BY DEF EvidenceRouted
<1> DEFINE evidence == result.evidence
           n == Len(evidence)
           wants == call.cues \cap ({"global"} \cup ToSet(TaskTriggers)) # {}
           best == TopOf(call.found, call.top)
           scope == IF call.routing THEN ClassifyScope(call.cues) ELSE "local"
           W == WholeDocument(call)
           whole == IF scope = "global" /\ call.oneDocument THEN W ELSE << >>
           e == FoundEvidence(call)
<1>1. /\ call \in RetrieveCalls /\ result = RetrieveEvidence(call)
      /\ call.oneDocument \in BOOLEAN /\ call.routing \in BOOLEAN /\ call.readFails \in BOOLEAN
      /\ call.document \in ReadOrders
  BY RetrieveCallsMean
<1>2. result = IF whole # << >>
               THEN [evidence |-> whole, whole |-> TRUE, thin |-> FALSE, scope |-> scope]
               ELSE [evidence |-> e, whole |-> FALSE, thin |-> Len(e) < 2, scope |-> scope]
  BY <1>1 DEF RetrieveEvidence, FoundEvidence
<1>3. PICK k \in Nat : /\ W = [i \in 1 .. k |-> i]
                       /\ k = 0 <=> call.readFails \/ call.document = << >>
                       /\ k # 0 => k = Len(call.document) \/ k = WholeCap
  BY <1>1, WholeMeans
<1>4. scope = "global" <=> call.routing /\ wants
  BY <1>1, ScopeMeans
<1>5. W \in Seq(Nat) /\ Len(W) = k /\ EachOnce(W) /\ (W = << >> <=> k = 0)
  <2>1. W \in Seq(Nat) /\ Len(W) = k
    BY <1>3
  <2>2. EachOnce(W)
    BY <1>3 DEF EachOnce
  <2> HIDE DEF W
  <2> QED
    BY <2>1, <2>2
<1>6. /\ Listing(e) /\ TopOf(e, Len(best)) = best
      /\ Len(e) < ThinThreshold + call.top \/ Len(e) = call.top
      /\ call.found = << >> => e = << >>
      /\ ToSet(e) \subseteq ToSet(best) \cup ToSet(call.broader)
  BY <1>1, FoundEvidenceMeans
<1>7. whole # << >> <=> wants /\ call.routing /\ call.oneDocument
                            /\ call.document # << >> /\ ~call.readFails
  <2> HIDE DEF W, wants, scope
  <2> QED
    BY <1>1, <1>3, <1>4, <1>5
<1>8. whole # << >> => whole = W
  OBVIOUS
<1> HIDE DEF whole, scope, W, e, wants, best
<1>9. CASE whole # << >>
  <2>1. evidence = W /\ result.whole = TRUE /\ result.thin = FALSE
    BY <1>2, <1>8, <1>9
  <2>2. n = k /\ Cardinality(ToSet(evidence)) = n /\ evidence = [i \in 1 .. n |-> i]
    BY <1>3, <1>5, <2>1, OnceEach
  <2>3. k # 0
    BY <1>5, <1>8, <1>9
  <2>4. n = Len(call.document) \/ n = WholeCap
    BY <1>3, <2>2, <2>3
  <2> HIDE DEF evidence, n
  <2> QED
    BY <1>7, <1>9, <2>1, <2>2, <2>4 DEF EvidenceRouted, evidence, n, wants, best
<1>10. CASE whole = << >>
  <2>1. evidence = e /\ result.whole = FALSE /\ result.thin = (Len(e) < 2)
    BY <1>2, <1>10
  <2>2. Cardinality(ToSet(evidence)) = n
    BY <1>6, <2>1, OnceEach DEF Listing
  <2> HIDE DEF evidence, n
  <2>3. n = Len(e)
    BY <2>1 DEF n, evidence
  <2> QED
    BY <1>6, <1>7, <1>10, <2>1, <2>2, <2>3 DEF EvidenceRouted, evidence, n, wants, best
<1> QED
  BY <1>9, <1>10

-----------------------------------------------------------------------------
(* The spread of passages (mmr_rerank).                                    *)

\* A finite set of numbers has a greatest member.
LEMMA GreatestElement ==
    ASSUME NEW S \in SUBSET Int, IsFiniteSet(S), S # {}
    PROVE  \E x \in S : \A y \in S : y <= x
<1> DEFINE n == Cardinality(S)
<1>1. /\ n \in Nat
      /\ Ascending(S) \in [1 .. n -> S]
      /\ \A p, q \in 1 .. n : Ascending(S)[p] < Ascending(S)[q] <=> p < q
      /\ \A x \in S : \E p \in 1 .. n : Ascending(S)[p] = x
  BY AscendingMeans
<1>2. n # 0
  BY FS_EmptySet
<1> HIDE DEF n
<1>3. n \in 1 .. n /\ Ascending(S)[n] \in S
  BY <1>1, <1>2
<1>4. ASSUME NEW y \in S PROVE y <= Ascending(S)[n]
  <2>1. PICK p \in 1 .. n : Ascending(S)[p] = y
    BY <1>1
  <2>2. ~(n < p)
    BY <1>1
  <2>3. ~(Ascending(S)[n] < Ascending(S)[p])
    BY <1>1, <1>3, <2>2
  <2>4. y \in Int /\ Ascending(S)[n] \in Int
    BY <1>3
  <2> QED
    BY <2>1, <2>3, <2>4
<1> QED
  BY <1>3, <1>4

LEMMA HighestMeans ==
    ASSUME NEW S \in SUBSET Int, IsFiniteSet(S), S # {}
    PROVE  Highest(S) \in S /\ \A y \in S : y <= Highest(S)
BY GreatestElement DEF Highest

\* The calls, of any number of candidates.
Diversifies(c) ==
    /\ Len(c.score) \in Nat \ {0} /\ c.score \in [1 .. Len(c.score) -> Grades]
    /\ DOMAIN c.score = 1 .. Len(c.score)
    /\ c.alike \in [kSubset(2, 1 .. Len(c.score)) -> Grades]
    /\ c.weight \in Nat /\ c.top \in Nat \ {0} /\ c.fails \in BOOLEAN

LEMMA MmrCallsMean ==
    ASSUME NEW c \in MmrCalls
    PROVE  Diversifies(c)
<1>1. PICK n \in 1 .. 3 :
         /\ c.score \in [1 .. n -> Grades] /\ c.alike \in [kSubset(2, 1 .. n) -> Grades]
         /\ c.weight \in Weights /\ c.top \in Tops /\ c.fails \in BOOLEAN
  BY DEF MmrCalls
<1>2. n \in Nat \ {0} /\ Len(c.score) = n /\ DOMAIN c.score = 1 .. n
  <2> DEFINE s == c.score
  <2>1. s \in [1 .. n -> Grades] /\ n \in Nat \ {0}
    BY <1>1
  <2> HIDE DEF s
  <2>2. s \in Seq(Grades) /\ Len(s) = n /\ DOMAIN s = 1 .. n
    BY <2>1
  <2> QED
    BY <2>1, <2>2 DEF s
<1> QED
  BY <1>1, <1>2, RankingAssumption DEF Diversifies

Redundancy(c, i, S) == Highest({Alike(c, i, j) : j \in S})

\* Who is less relevant or more like what was chosen is passed over for a.
WellChosen(c, S, a) ==
    \A i \in DOMAIN c.score \ S :
        i # a => c.score[a] > c.score[i] \/ Redundancy(c, a, S) <= Redundancy(c, i, S)

\* Who is not more relevant and more alike has the lower merit.
LEMMA MeritFalls ==
    ASSUME NEW w \in 0 .. 9, NEW p \in Nat, NEW q \in Nat, p <= q, NEW g \in Nat,
           NEW r \in Nat, NEW t \in Nat, t < r, NEW d \in Nat \ {0}
    PROVE  w * p * g - (10 - w) * r * d < w * q * g - (10 - w) * t * d
<1> DEFINE e == 10 - w
           wp == w * p
           wq == w * q
           er == e * r
           et == e * t
<1>1. e \in Nat \ {0} /\ w \in Nat
  OBVIOUS
<1>2. wp \in Nat /\ wq \in Nat /\ wp <= wq
  BY <1>1
<1>3. er \in Nat /\ et \in Nat /\ et + e <= er
  <2> HIDE DEF e
  <2>1. e * (t + 1) <= e * r
    BY <1>1
  <2>2. e * (t + 1) = e * t + e
    BY <1>1
  <2> QED
    BY <1>1, <2>1, <2>2
<1> HIDE DEF wp, wq, er, et, e
<1>4. wp * g <= wq * g /\ wp * g \in Int /\ wq * g \in Int
  BY <1>2
<1>5. et * d < er * d /\ et * d \in Int /\ er * d \in Int
  <2>1. (et + 1) * d <= er * d
    BY <1>1, <1>3
  <2>2. (et + 1) * d = et * d + d
    BY <1>3
  <2>3. et * d \in Int /\ er * d \in Int
    BY <1>3
  <2> QED
    BY <2>1, <2>2, <2>3
<1>6. wp * g - er * d < wq * g - et * d
  BY <1>4, <1>5
<1> QED
  BY <1>6 DEF wp, wq, er, et, e

LEMMA MeritMeans ==
    ASSUME NEW c, Diversifies(c), c.weight < 10,
           NEW s \in Seq(1 .. Len(c.score)), Len(s) > 0
    PROVE  /\ \A i \in DOMAIN c.score \ ToSet(s) : Merit(c, i, s) \in Int
           /\ \A a, i \in DOMAIN c.score \ ToSet(s) :
                 Merit(c, a, s) >= Merit(c, i, s) =>
                    \/ c.score[a] > c.score[i]
                    \/ Redundancy(c, a, ToSet(s)) <= Redundancy(c, i, ToSet(s))
<1> DEFINE L == Len(c.score)
           w == c.weight
           S == ToSet(s)
           scores == {c.score[i] : i \in DOMAIN c.score}
           g == Highest(Grades)
           d == IF Spread(c) = 0 THEN 1 ELSE Spread(c)
<1>1. /\ L \in Nat \ {0} /\ c.score \in [1 .. L -> Grades] /\ DOMAIN c.score = 1 .. L
      /\ c.alike \in [kSubset(2, 1 .. L) -> Grades] /\ w \in 0 .. 9
  <2>1. /\ L \in Nat \ {0} /\ c.score \in [1 .. L -> Grades] /\ DOMAIN c.score = 1 .. L
        /\ c.alike \in [kSubset(2, 1 .. L) -> Grades] /\ w \in Nat
    BY Zenon DEF Diversifies
  <2>2. w \in 0 .. 9
    <3>1. w \in Nat /\ w < 10
      BY <2>1, Zenon
    <3> HIDE DEF w
    <3> QED
      BY <3>1
  <2> QED
    BY <2>1, <2>2, Zenon
<1>2. Grades \in SUBSET Nat /\ IsFiniteSet(Grades)
  BY RankingAssumption
<1>3. scores \in SUBSET Grades /\ scores # {}
  <2>1. 1 \in 1 .. L
    BY <1>1
  <2>2. 1 \in DOMAIN c.score
    BY <1>1, <2>1, Zenon
  <2>3. \A i \in DOMAIN c.score : c.score[i] \in Grades
    BY <1>1
  <2> QED
    BY <2>2, <2>3
<1>4. IsFiniteSet(scores) /\ scores \in SUBSET Nat /\ scores \in SUBSET Int
  <2> HIDE DEF scores
  <2>1. IsFiniteSet(scores)
    BY <1>2, <1>3, FS_Subset
  <2>2. scores \in SUBSET Nat
    BY <1>2, <1>3
  <2> QED
    BY <2>1, <2>2
<1>5. g \in Nat
  <2>1. Grades # {} /\ Grades \in SUBSET Int
    <3> HIDE DEF scores
    <3>1. Grades # {}
      BY <1>3, Zenon
    <3>2. \A x \in Grades : x \in Int
      BY <1>2
    <3> QED
      BY <3>1, <3>2, Zenon
  <2>2. g \in Grades
    BY <1>2, <2>1, HighestMeans
  <2> QED
    BY <1>2, <2>2
<1>6. /\ Lowest(scores) \in Nat /\ \A x \in scores : Lowest(scores) <= x
      /\ Highest(scores) \in Nat /\ \A x \in scores : x <= Highest(scores)
  <2> HIDE DEF scores
  <2> QED
    BY <1>3, <1>4, LowestMeans, HighestMeans
<1>7. Spread(c) \in Nat /\ d \in Nat \ {0}
  <2>1. Spread(c) = Highest(scores) - Lowest(scores)
    BY DEF Spread
  <2>2. Lowest(scores) <= Highest(scores)
    <3> HIDE DEF scores
    <3>1. PICK x \in scores : TRUE
      BY <1>3
    <3>2. Lowest(scores) <= x /\ x <= Highest(scores) /\ x \in Nat
      BY <1>4, <1>6
    <3> QED
      BY <1>6, <3>2
  <2>3. Spread(c) \in Nat
    <3> HIDE DEF scores
    <3> QED
      BY <1>6, <2>1, <2>2
  <2> QED
    BY <2>3
<1>8. ASSUME NEW i \in DOMAIN c.score
      PROVE  c.score[i] \in scores /\ c.score[i] \in Nat
  BY <1>1, <1>4
<1>9. ASSUME NEW i \in DOMAIN c.score
      PROVE  /\ Normalise(c, i) \in Nat
             /\ \A j \in DOMAIN c.score : c.score[i] <= c.score[j] => Normalise(c, i) <= Normalise(c, j)
  <2>1. \A j \in DOMAIN c.score :
           Normalise(c, j) = IF Spread(c) = 0 THEN 1 ELSE c.score[j] - Lowest(scores)
    BY DEF Normalise
  <2>2. \A j \in DOMAIN c.score : c.score[j] \in Nat /\ Lowest(scores) <= c.score[j]
    <3> HIDE DEF scores
    <3> QED
      BY <1>6, <1>8
  <2> DEFINE low == Lowest(scores)
  <2>3. low \in Nat
    BY <1>6
  <2> HIDE DEF scores, low
  <2>4. \A j \in DOMAIN c.score : c.score[j] - low \in Nat
    BY <2>2, <2>3 DEF low
  <2>5. CASE Spread(c) = 0
    <3>1. \A j \in DOMAIN c.score : Normalise(c, j) = 1
      BY <2>1, <2>5
    <3> QED
      BY <3>1
  <2>6. CASE Spread(c) # 0
    <3>1. \A j \in DOMAIN c.score : Normalise(c, j) = c.score[j] - low
      BY <2>1, <2>6 DEF low
    <3>2. Normalise(c, i) \in Nat
      BY <2>4, <3>1
    <3>3. ASSUME NEW j \in DOMAIN c.score, c.score[i] <= c.score[j]
          PROVE  Normalise(c, i) <= Normalise(c, j)
      <4>1. c.score[i] \in Nat /\ c.score[j] \in Nat
        BY <2>2
      <4>2. Normalise(c, i) = c.score[i] - low /\ Normalise(c, j) = c.score[j] - low
        BY <3>1
      <4> QED
        BY <2>3, <3>3, <4>1, <4>2
    <3> QED
      BY <3>2, <3>3
  <2> QED
    BY <2>5, <2>6
<1>10. ASSUME NEW i \in DOMAIN c.score \ S
       PROVE  Redundancy(c, i, S) \in Nat
  <2> DEFINE near == {Alike(c, i, j) : j \in S}
  <2>1. 1 \in DOMAIN s /\ s[1] \in S /\ S \in SUBSET (1 .. L)
    BY DEF ToSet
  <2>2. ASSUME NEW j \in S PROVE Alike(c, i, j) \in Grades
    <3>1. i # j /\ i \in 1 .. L /\ j \in 1 .. L
      BY <1>1, <2>1
    <3>2. Cardinality({i, j}) = 2
      <4>1. IsFiniteSet({j}) /\ Cardinality({j}) = 1
        BY FS_Singleton
      <4>2. Cardinality({j} \cup {i}) = Cardinality({j}) + 1
        BY <3>1, <4>1, FS_AddElement
      <4>3. {j} \cup {i} = {i, j}
        OBVIOUS
      <4>4. Cardinality({i, j}) = Cardinality({j}) + 1
        BY <4>2, <4>3, Zenon
      <4> DEFINE one == Cardinality({j})
                 two == Cardinality({i, j})
      <4>5. one = 1 /\ two = one + 1
        BY <4>1, <4>4
      <4> HIDE DEF one, two
      <4>6. two = 2
        BY <4>5
      <4> QED
        BY <4>6 DEF two
    <3>3. {i, j} \in kSubset(2, 1 .. L)
      BY <3>1, <3>2 DEF kSubset
    <3> QED
      BY <1>1, <3>3 DEF Alike
  <2>3. near \in SUBSET Grades /\ near # {}
    BY <2>1, <2>2
  <2> HIDE DEF near
  <2>4. IsFiniteSet(near) /\ near \in SUBSET Int
    <3>1. IsFiniteSet(near)
      BY <1>2, <2>3, FS_Subset
    <3>2. near \in SUBSET Int
      BY <1>2, <2>3
    <3> QED
      BY <3>1, <3>2
  <2>5. Highest(near) \in near
    BY <2>3, <2>4, HighestMeans
  <2> QED
    BY <1>2, <2>3, <2>5 DEF Redundancy, near
<1>11. ASSUME NEW i \in DOMAIN c.score \ S
       PROVE  Merit(c, i, s) = w * Normalise(c, i) * g - (10 - w) * Redundancy(c, i, S) * d
  <2>1. {Alike(c, i, s[k]) : k \in DOMAIN s} = {Alike(c, i, j) : j \in S}
    BY DEF ToSet
  <2> QED
    BY <2>1 DEF Merit, Redundancy
<1> HIDE DEF scores, g, d, S, w, L
<1>12. ASSUME NEW i \in DOMAIN c.score \ S PROVE Merit(c, i, s) \in Int
  <2>1. Normalise(c, i) \in Nat /\ Redundancy(c, i, S) \in Nat
    BY <1>9, <1>10
  <2>2. w * Normalise(c, i) * g \in Int
    BY <1>1, <1>5, <2>1
  <2>3. (10 - w) * Redundancy(c, i, S) * d \in Int
    BY <1>1, <1>7, <2>1
  <2> QED
    BY <1>11, <2>2, <2>3
<1>13. ASSUME NEW a \in DOMAIN c.score \ S, NEW i \in DOMAIN c.score \ S,
              Merit(c, a, s) >= Merit(c, i, s)
       PROVE  c.score[a] > c.score[i] \/ Redundancy(c, a, S) <= Redundancy(c, i, S)
  <2>0. /\ Redundancy(c, a, S) \in Nat /\ Redundancy(c, i, S) \in Nat
        /\ c.score[a] \in Nat /\ c.score[i] \in Nat
        /\ Normalise(c, a) \in Nat /\ Normalise(c, i) \in Nat
    BY <1>8, <1>9, <1>10
  <2> SUFFICES ASSUME c.score[a] <= c.score[i], Redundancy(c, i, S) < Redundancy(c, a, S)
               PROVE  FALSE
    BY <2>0
  <2>1. Normalise(c, a) <= Normalise(c, i)
    BY <1>9
  <2>2. Merit(c, a, s) < Merit(c, i, s)
    <3>1. w * Normalise(c, a) * g - (10 - w) * Redundancy(c, a, S) * d
             < w * Normalise(c, i) * g - (10 - w) * Redundancy(c, i, S) * d
      BY <1>1, <1>5, <1>7, <2>0, <2>1, MeritFalls
    <3>2. /\ Merit(c, a, s) = w * Normalise(c, a) * g - (10 - w) * Redundancy(c, a, S) * d
          /\ Merit(c, i, s) = w * Normalise(c, i) * g - (10 - w) * Redundancy(c, i, S) * d
      BY <1>11, Zenon
    <3> QED
      BY <3>1, <3>2, Zenon
  <2>3. Merit(c, a, s) \in Int /\ Merit(c, i, s) \in Int
    BY <1>12
  <2> QED
    BY <1>13, <2>2, <2>3
<1> QED
  BY <1>12, <1>13 DEF S

\* The best of what remains.
LEMMA ChoiceMeans ==
    ASSUME NEW c, Diversifies(c), c.weight < 10,
           NEW s \in Seq(1 .. Len(c.score)), EachOnce(s), Len(s) \in 1 .. Len(c.score) - 1
    PROVE  /\ Choice(c, s) \in 1 .. Len(c.score) /\ Choice(c, s) \notin ToSet(s)
           /\ WellChosen(c, ToSet(s), Choice(c, s))
<1> DEFINE L == Len(c.score)
           S == ToSet(s)
           remaining == DOMAIN c.score \ S
           merit == [i \in remaining |-> Merit(c, i, s)]
           merits == {Merit(c, i, s) : i \in remaining}
           best == {i \in remaining :
                       \A j \in remaining : Merit(c, i, s) >= Merit(c, j, s)}
<1>1. L \in Nat \ {0} /\ DOMAIN c.score = 1 .. L
  BY DEF Diversifies
<1>2. Len(s) \in Nat /\ Len(s) > 0 /\ Len(s) < L
  BY <1>1
<1>3. /\ \A i \in remaining : Merit(c, i, s) \in Int
      /\ \A a, i \in remaining : Merit(c, a, s) >= Merit(c, i, s) =>
            \/ c.score[a] > c.score[i]
            \/ Redundancy(c, a, S) <= Redundancy(c, i, S)
  BY <1>2, MeritMeans
<1>4. IsFiniteSet(1 .. L) /\ Cardinality(1 .. L) = L
  <2> HIDE DEF L
  <2>1. 1 \in Int /\ L \in Int
    BY <1>1
  <2>2. IsFiniteSet(1 .. L) /\ Cardinality(1 .. L) = IF 1 > L THEN 0 ELSE L - 1 + 1
    BY <2>1, FS_Interval
  <2> QED
    BY <1>1, <2>2
<1>5. IsFiniteSet(S) /\ Cardinality(S) = Len(s)
  BY OnceEach
<1> HIDE DEF L, S
<1>6. remaining # {} /\ remaining \in SUBSET (1 .. L)
  <2>1. remaining \in SUBSET (1 .. L)
    BY <1>1
  <2> SUFFICES ASSUME remaining = {} PROVE FALSE
    BY <2>1
  <2>2. (1 .. L) \in SUBSET S
    BY <1>1
  <2>3. Cardinality(1 .. L) <= Cardinality(S)
    BY <1>5, <2>2, FS_Subset
  <2> QED
    BY <1>1, <1>2, <1>4, <1>5, <2>3
<1>7. IsFiniteSet(merits) /\ merits \in SUBSET Int /\ merits # {}
  <2>1. IsFiniteSet(remaining)
    BY <1>4, <1>6, FS_Subset
  <2>2. merit \in Surjection(remaining, merits)
    BY DEF Surjection
  <2>3. IsFiniteSet(merits)
    <3> HIDE DEF merit, merits, remaining
    <3> QED
      BY <2>1, <2>2, FS_Surjection
  <2> HIDE DEF remaining
  <2>4. merits \in SUBSET Int /\ merits # {}
    BY <1>3, <1>6
  <2> QED
    BY <2>3, <2>4
<1>8. best # {} /\ best \in SUBSET remaining
  <2>1. PICK x \in merits : \A y \in merits : y <= x
    <3> HIDE DEF merits
    <3> QED
      BY <1>7, GreatestElement
  <2> HIDE DEF remaining
  <2>2. PICK i \in remaining : x = Merit(c, i, s)
    BY <2>1
  <2>3. ASSUME NEW j \in remaining PROVE Merit(c, i, s) >= Merit(c, j, s)
    <3>1. Merit(c, j, s) \in merits
      OBVIOUS
    <3>2. Merit(c, j, s) <= x
      BY <2>1, <3>1
    <3>3. Merit(c, i, s) \in Int /\ Merit(c, j, s) \in Int
      BY <1>3
    <3> QED
      BY <2>2, <3>2, <3>3
  <2> QED
    BY <2>3
<1>9. Choice(c, s) = Lowest(best)
  BY DEF Choice, S
<1>10. Choice(c, s) \in best
  <2> HIDE DEF best
  <2>1. best \in SUBSET Nat
    <3>1. \A i \in 1 .. L : i \in Nat
      BY <1>1
    <3> HIDE DEF remaining
    <3> QED
      BY <1>6, <1>8, <3>1
  <2> QED
    BY <1>8, <1>9, <2>1, LowestMeans
<1> DEFINE a == Choice(c, s)
<1> HIDE DEF a
<1>11. a \in remaining /\ \A j \in remaining : Merit(c, a, s) >= Merit(c, j, s)
  BY <1>10 DEF a
<1>12. WellChosen(c, S, a)
  <2> SUFFICES ASSUME NEW i \in DOMAIN c.score \ S, i # a
               PROVE  c.score[a] > c.score[i] \/ Redundancy(c, a, S) <= Redundancy(c, i, S)
    BY DEF WellChosen
  <2>1. i \in remaining
    OBVIOUS
  <2> HIDE DEF remaining
  <2> QED
    BY <1>3, <1>11, <2>1
<1> QED
  BY <1>1, <1>11, <1>12 DEF a, S, L

\* What is selected one after the other.
Selecting(c, h) ==
    h = [k \in 0 .. Len(c.score) - 1 |->
            IF k = 0 THEN <<1>> ELSE Append(h[k - 1], Choice(c, h[k - 1]))]

SelectedBefore(s, j) == {s[i] : i \in 1 .. j - 1}

Selected(c, s, n) ==
    /\ s \in Seq(1 .. Len(c.score)) /\ Len(s) = n /\ EachOnce(s) /\ s[1] = 1
    /\ \A j \in 2 .. n : WellChosen(c, SelectedBefore(s, j), s[j])

\* One more.
LEMMA SelectionGrows ==
    ASSUME NEW c, Diversifies(c), c.weight < 10,
           NEW n \in 1 .. Len(c.score) - 1, NEW s, Selected(c, s, n)
    PROVE  Selected(c, Append(s, Choice(c, s)), n + 1)
<1> DEFINE L == Len(c.score)
           x == Choice(c, s)
           t == Append(s, x)
<1>1. L \in Nat \ {0}
  BY DEF Diversifies
<1>2. s \in Seq(1 .. L) /\ Len(s) = n /\ EachOnce(s) /\ s[1] = 1 /\ DOMAIN s = 1 .. n
  BY DEF Selected
<1>3. x \in 1 .. L /\ x \notin ToSet(s) /\ WellChosen(c, ToSet(s), x)
  BY <1>2, ChoiceMeans
<1> HIDE DEF x
<1>4. /\ t \in Seq(1 .. L) /\ Len(t) = n + 1 /\ DOMAIN t = 1 .. n + 1
      /\ \A i \in 1 .. n : t[i] = s[i]
      /\ t[n + 1] = x
  <2> HIDE DEF L
  <2> QED
    BY <1>2, <1>3
<1> HIDE DEF t
<1>5. \A i \in 1 .. n : s[i] # x
  BY <1>2, <1>3 DEF ToSet
<1>6. EachOnce(t)
  <2> SUFFICES ASSUME NEW i \in DOMAIN t, NEW j \in DOMAIN t, t[i] = t[j] PROVE i = j
    BY DEF EachOnce
  <2>1. \A k \in DOMAIN t : (k \in 1 .. n /\ t[k] = s[k]) \/ (k = n + 1 /\ t[k] = x)
    BY <1>4
  <2>2. CASE i \in 1 .. n /\ j \in 1 .. n
    BY <1>2, <1>4, <2>2 DEF EachOnce
  <2> QED
    BY <1>5, <2>1, <2>2
<1>7. ASSUME NEW j \in 2 .. n + 1 PROVE WellChosen(c, SelectedBefore(t, j), t[j])
  <2>1. \A i \in 1 .. j - 1 : t[i] = s[i] /\ i \in 1 .. n
    BY <1>4
  <2>2. SelectedBefore(t, j) = SelectedBefore(s, j)
    BY <2>1 DEF SelectedBefore
  <2>3. CASE j \in 2 .. n
    <3>1. t[j] = s[j]
      BY <1>4, <2>3
    <3> QED
      BY <2>2, <2>3, <3>1 DEF Selected
  <2>4. CASE j = n + 1
    <3>1. SelectedBefore(s, j) = ToSet(s)
      BY <1>2, <2>4 DEF SelectedBefore, ToSet
    <3> QED
      BY <1>3, <1>4, <2>2, <2>4, <3>1
  <2> QED
    BY <2>3, <2>4
<1>8. t[1] = 1
  BY <1>2, <1>4
<1> QED
  BY <1>4, <1>6, <1>7, <1>8 DEF Selected, t, x

LEMMA SelectionStarts ==
    ASSUME NEW c, Diversifies(c)
    PROVE  Selected(c, <<1>>, 1)
<1> DEFINE L == Len(c.score)
<1>1. 1 \in 1 .. L
  BY DEF Diversifies
<1> HIDE DEF L
<1>2. <<1>> \in Seq(1 .. L) /\ Len(<<1>>) = 1 /\ <<1>>[1] = 1 /\ DOMAIN <<1>> = {1}
  BY <1>1
<1>3. EachOnce(<<1>>)
  BY <1>2 DEF EachOnce
<1> QED
  BY <1>2, <1>3 DEF Selected, L

LEMMA SelectionExists ==
    ASSUME NEW c, Diversifies(c), c.weight < 10
    PROVE  \E h : Selecting(c, h)
<1> DEFINE n == Len(c.score) - 1
           V == {s \in Seq(1 .. Len(c.score)) : \E m \in 1 .. Len(c.score) : Selected(c, s, m)}
           step == [p \in (1 .. n) \X V |->
                       IF Len(p[2]) \in 1 .. n THEN Append(p[2], Choice(c, p[2])) ELSE p[2]]
<1>1. Len(c.score) \in Nat \ {0}
  BY DEF Diversifies
<1>2. n \in Nat
  BY <1>1
<1>3. <<1>> \in V
  BY <1>1, SelectionStarts DEF Selected
<1>4. step \in [(1 .. n) \X V -> V]
  <2>1. ASSUME NEW p \in (1 .. n) \X V
        PROVE  (IF Len(p[2]) \in 1 .. n THEN Append(p[2], Choice(c, p[2])) ELSE p[2]) \in V
    <3> DEFINE s == p[2]
    <3>1. s \in V
      OBVIOUS
    <3>2. PICK m \in 1 .. Len(c.score) : Selected(c, s, m)
      BY <3>1
    <3>3. Len(s) = m
      BY <3>2 DEF Selected
    <3> HIDE DEF s
    <3>4. CASE m \in 1 .. n
      <4>1. Selected(c, Append(s, Choice(c, s)), m + 1) /\ m + 1 \in 1 .. Len(c.score)
        BY <1>1, <3>2, <3>4, SelectionGrows
      <4>2. Append(s, Choice(c, s)) \in V
        BY <4>1 DEF Selected
      <4> QED
        BY <3>3, <3>4, <4>2 DEF s
    <3>5. CASE m \notin 1 .. n
      BY <3>1, <3>3, <3>5 DEF s
    <3> QED
      BY <3>4, <3>5
  <2> HIDE DEF V, n
  <2> QED
    BY <2>1
<1>5. PICK g : Upto(n, g, V, <<1>>, step)
  <2> HIDE DEF V, n, step
  <2> QED
    BY <1>2, <1>3, <1>4, RecursiveFunction
<1>6. g \in [0 .. n -> V] /\ g[0] = <<1>> /\ \A i \in 1 .. n : g[i] = step[<<i, g[i - 1]>>]
  <2> HIDE DEF V, n, step
  <2> QED
    BY <1>5 DEF Upto
<1> DEFINE T == {k \in 0 .. n : Selected(c, g[k], k + 1)}
<1>7. 0 \in T
  <2>1. 0 \in 0 .. n /\ 0 + 1 = 1
    BY <1>2
  <2> QED
    BY <1>6, <2>1, SelectionStarts, Zenon
<1>8. ASSUME NEW k \in 0 .. n - 1, Selected(c, g[k], k + 1)
      PROVE  g[k + 1] = Append(g[k], Choice(c, g[k])) /\ Selected(c, g[k + 1], k + 2)
  <2>1. k + 1 \in 1 .. n /\ k + 1 - 1 = k /\ k \in 0 .. n
    BY <1>2
  <2>2. g[k] \in V /\ <<k + 1, g[k]>> \in (1 .. n) \X V /\ g[k + 1] = step[<<k + 1, g[k]>>]
    <3> HIDE DEF V, step, n
    <3> QED
      BY <1>6, <2>1
  <2>3. Len(g[k]) = k + 1
    BY <1>8 DEF Selected
  <2>4. g[k + 1] = Append(g[k], Choice(c, g[k]))
    <3> HIDE DEF V, n
    <3> QED
      BY <2>1, <2>2, <2>3
  <2>5. Selected(c, Append(g[k], Choice(c, g[k])), k + 1 + 1)
    <3>1. k + 1 \in 1 .. Len(c.score) - 1
      BY <2>1
    <3> QED
      BY <1>8, <3>1, SelectionGrows
  <2>6. k + 1 + 1 = k + 2
    OBVIOUS
  <2> QED
    BY <2>4, <2>5, <2>6
<1>9. \A k \in 0 .. n - 1 : k \in T => k + 1 \in T
  <2> SUFFICES ASSUME NEW k \in 0 .. n - 1, k \in T PROVE k + 1 \in T
    OBVIOUS
  <2>1. Selected(c, g[k], k + 1)
    OBVIOUS
  <2>2. Selected(c, g[k + 1], k + 2) /\ k + 1 + 1 = k + 2 /\ k + 1 \in 0 .. n
    BY <1>2, <1>8, <2>1
  <2> QED
    BY <2>2
<1>10. 0 .. n \subseteq T
  <2> HIDE DEF T, n
  <2> QED
    BY <1>2, <1>7, <1>9, Induction
<1>11. \A k \in 0 .. n : g[k] = IF k = 0 THEN <<1>> ELSE Append(g[k - 1], Choice(c, g[k - 1]))
  <2> SUFFICES ASSUME NEW k \in 0 .. n, k # 0
               PROVE  g[k] = Append(g[k - 1], Choice(c, g[k - 1]))
    BY <1>6, Zenon
  <2>1. k - 1 \in 0 .. n /\ k - 1 \in 0 .. n - 1 /\ k - 1 + 1 = k
    BY <1>2
  <2>2. Selected(c, g[k - 1], k - 1 + 1)
    BY <1>10, <2>1
  <2> QED
    BY <1>8, <2>1, <2>2
<1>12. g = [k \in 0 .. n |-> IF k = 0 THEN <<1>> ELSE Append(g[k - 1], Choice(c, g[k - 1]))]
  <2> HIDE DEF V, n
  <2> QED
    BY <1>6, <1>11
<1> QED
  BY <1>12 DEF Selecting

\* Every selection is well chosen.
LEMMA SelectionMeans ==
    ASSUME NEW c, Diversifies(c), c.weight < 10, NEW h, Selecting(c, h),
           NEW m \in 0 .. Len(c.score) - 1
    PROVE  Selected(c, h[m], m + 1)
<1> DEFINE n == Len(c.score) - 1
           T == {k \in 0 .. n : Selected(c, h[k], k + 1)}
<1>1. n \in Nat
  BY DEF Diversifies
<1>2. \A k \in 0 .. n : h[k] = IF k = 0 THEN <<1>> ELSE Append(h[k - 1], Choice(c, h[k - 1]))
  BY Zenon DEF Selecting
<1>3. 0 \in T
  <2>1. 0 \in 0 .. n /\ 0 + 1 = 1
    BY <1>1
  <2>2. h[0] = <<1>>
    BY <1>2, <2>1
  <2> QED
    BY <2>1, <2>2, SelectionStarts
<1>4. ASSUME NEW k \in 0 .. n - 1, k \in T PROVE k + 1 \in T
  <2>1. k + 1 \in 0 .. n /\ k + 1 # 0 /\ k + 1 - 1 = k /\ k + 1 \in 1 .. Len(c.score) - 1
    BY <1>1
  <2>2. h[k + 1] = Append(h[k], Choice(c, h[k]))
    <3> DEFINE m1 == k + 1
    <3>1. m1 \in 0 .. n /\ m1 # 0 /\ m1 - 1 = k
      BY <2>1
    <3> HIDE DEF n, m1
    <3>2. h[m1] = IF m1 = 0 THEN <<1>> ELSE Append(h[m1 - 1], Choice(c, h[m1 - 1]))
      BY <1>2, <3>1, Zenon
    <3>3. h[m1] = Append(h[k], Choice(c, h[k]))
      BY <3>1, <3>2, Zenon
    <3> QED
      BY <3>3 DEF m1
  <2>3. Selected(c, h[k], k + 1)
    BY <1>4
  <2>4. Selected(c, Append(h[k], Choice(c, h[k])), k + 1 + 1)
    BY <2>1, <2>3, SelectionGrows
  <2> QED
    BY <2>1, <2>2, <2>4
<1>5. 0 .. n \subseteq T
  <2> HIDE DEF T, n
  <2> QED
    BY <1>1, <1>3, <1>4, Induction
<1> QED
  BY <1>5

\* Candidates as they came.
LEMMA AsTheyCame ==
    ASSUME NEW n \in Nat, NEW m \in Nat
    PROVE  LET s == TopOf([i \in 1 .. n |-> i], m)
           IN  /\ s \in Seq(Nat) /\ EachOnce(s) /\ Len(s) = (IF m < n THEN m ELSE n)
               /\ \A i \in 1 .. Len(s) : s[i] = i
<1> DEFINE all == [i \in 1 .. n |-> i]
           s == TopOf(all, m)
<1>1. all \in Seq(Nat) /\ Len(all) = n /\ \A i \in 1 .. n : all[i] = i
  OBVIOUS
<1> HIDE DEF all
<1>2. /\ s \in Seq(Nat) /\ Len(s) = (IF m < n THEN m ELSE n) /\ DOMAIN s = 1 .. Len(s)
      /\ Len(s) \in 0 .. n /\ \A i \in DOMAIN s : s[i] = all[i]
  BY <1>1, TopMeans
<1> HIDE DEF s
<1>3. \A i \in 1 .. Len(s) : s[i] = i
  BY <1>1, <1>2
<1>4. EachOnce(s)
  BY <1>2, <1>3 DEF EachOnce
<1> QED
  BY <1>2, <1>3, <1>4 DEF s, all

LEMMA DiversityIsFair ==
    ASSUME Of("mmr_rerank") => call \in MmrCalls /\ result = MmrRerank(call)
    PROVE  DiversityFair
<1> SUFFICES ASSUME Of("mmr_rerank") PROVE DiversityFair
  BY DEF DiversityFair
<1> DEFINE before(k) == {result[j] : j \in 1 .. k - 1}
           redundancy(k, i) == Highest({Alike(call, i, j) : j \in before(k)})
           L == Len(call.score)
           n == call.top
           plain == n >= L \/ call.weight >= 10 \/ call.fails
<1>1. result = MmrRerank(call) /\ Diversifies(call)
  BY MmrCallsMean
<1>2. L \in Nat \ {0} /\ DOMAIN call.score = 1 .. L /\ n \in Nat \ {0} /\ call.weight \in Nat
      /\ call.fails \in BOOLEAN
  BY <1>1 DEF Diversifies
<1> SUFFICES /\ Head(result) = 1
             /\ Len(result) = (IF n < L THEN n ELSE L)
             /\ Cardinality(ToSet(result)) = Len(result)
             /\ \A k \in 2 .. Len(result) : \A i \in 1 .. L \ before(k) :
                   i # result[k] /\ ~call.fails /\ n < L =>
                      \/ call.score[result[k]] > call.score[i]
                      \/ redundancy(k, result[k]) <= redundancy(k, i)
                      \/ result[k] < i /\ call.weight >= 10
  BY <1>2, Zenon DEF DiversityFair
<1>3. CASE plain
  <2>1. result = TopOf([i \in 1 .. L |-> i], n)
    BY <1>1, <1>2, <1>3 DEF MmrRerank
  <2>2. /\ result \in Seq(Nat) /\ EachOnce(result) /\ Len(result) = (IF n < L THEN n ELSE L)
        /\ \A i \in 1 .. Len(result) : result[i] = i
    <3> HIDE DEF L, n
    <3> QED
      BY <1>2, <2>1, AsTheyCame
  <2>3. Head(result) = 1
    <3> HIDE DEF L, n
    <3>1. Len(result) >= 1 /\ result # << >>
      BY <1>2, <2>2
    <3> QED
      BY <2>2, <3>1
  <2>4. Cardinality(ToSet(result)) = Len(result)
    BY <2>2, OnceEach
  <2>5. ASSUME NEW k \in 2 .. Len(result), NEW i \in 1 .. L \ before(k),
               i # result[k], ~call.fails, n < L
        PROVE  result[k] < i /\ call.weight >= 10
    <3> HIDE DEF L, n
    <3>1. call.weight >= 10
      BY <1>2, <1>3, <2>5
    <3>2. result[k] = k /\ k \in Nat
      BY <1>2, <2>2
    <3>3. ~(i < k)
      <4> SUFFICES ASSUME i < k PROVE FALSE
        OBVIOUS
      <4>1. i \in 1 .. k - 1 /\ i \in 1 .. Len(result)
        BY <1>2, <2>2, <3>2
      <4>2. result[i] = i
        BY <2>2, <4>1
      <4>3. i \in before(k)
        BY <4>1, <4>2
      <4> QED
        BY <4>3
    <3>4. i \in Nat /\ i # k
      BY <1>2, <2>5, <3>2
    <3> QED
      BY <3>1, <3>2, <3>3, <3>4
  <2> HIDE DEF L, n, before, redundancy
  <2> QED
    BY <2>2, <2>3, <2>4, <2>5
<1>4. CASE ~plain
  <2>1. n \in 1 .. L - 1 /\ call.weight < 10
    BY <1>2, <1>4
  <2>2. result = (CHOOSE h : Selecting(call, h))[n - 1]
    BY <1>1, <1>2, <1>4 DEF MmrRerank, Selecting
  <2>3. Selecting(call, CHOOSE h : Selecting(call, h))
    BY <1>1, <2>1, SelectionExists
  <2>4. n - 1 \in 0 .. L - 1 /\ n - 1 + 1 = n
    BY <1>2, <2>1
  <2>5. Selected(call, result, n)
    <3> DEFINE h == CHOOSE h : Selecting(call, h)
    <3>1. Selecting(call, h)
      BY <2>3
    <3> HIDE DEF h
    <3>2. Selected(call, h[n - 1], n - 1 + 1)
      BY <1>1, <2>1, <2>4, <3>1, SelectionMeans
    <3> QED
      BY <2>2, <2>4, <3>2 DEF h
  <2>6. /\ result \in Seq(1 .. L) /\ Len(result) = n /\ EachOnce(result) /\ result[1] = 1
        /\ \A j \in 2 .. n : WellChosen(call, SelectedBefore(result, j), result[j])
    BY <2>5 DEF Selected
  <2>7. Head(result) = 1
    <3> HIDE DEF L, n
    <3>1. result # << >>
      BY <1>2, <2>6
    <3> QED
      BY <2>6, <3>1
  <2>8. Cardinality(ToSet(result)) = Len(result)
    BY <2>6, OnceEach
  <2>9. ASSUME NEW k \in 2 .. Len(result), NEW i \in 1 .. L \ before(k), i # result[k]
        PROVE  \/ call.score[result[k]] > call.score[i]
               \/ redundancy(k, result[k]) <= redundancy(k, i)
    <3>1. WellChosen(call, SelectedBefore(result, k), result[k])
      BY <2>6
    <3>2. SelectedBefore(result, k) = before(k)
      BY DEF SelectedBefore
    <3>3. i \in DOMAIN call.score \ SelectedBefore(result, k)
      BY <1>2, <3>2
    <3>4. \/ call.score[result[k]] > call.score[i]
          \/ Redundancy(call, result[k], before(k)) <= Redundancy(call, i, before(k))
      <4> HIDE DEF before
      <4> QED
        BY <2>9, <3>1, <3>2, <3>3 DEF WellChosen
    <3> QED
      BY <3>4 DEF Redundancy
  <2> HIDE DEF before, redundancy
  <2> QED
    BY <1>2, <2>1, <2>6, <2>7, <2>8, <2>9
<1> QED
  BY <1>3, <1>4

-----------------------------------------------------------------------------
\* What is retrieved is what was asked for, best first.
LEMMA RetrievalIsGood ==
    ASSUME Of("hybrid_search") => call \in HybridCalls /\ result = HybridSearch(call, call.top),
           Of("expanded_search") => call \in ExpandedCalls /\ result = ExpandedSearch(call),
           Of("semantic_search") => call \in SemanticCalls /\ result = SemanticSearch(call),
           Of("mmr_rerank") => call \in MmrCalls /\ result = MmrRerank(call),
           Of("retrieve") => call \in RetrieveCalls /\ result = RetrieveEvidence(call)
    PROVE  RetrievalSound
BY FusionIsFair, SecondOpinionIsTaken, DiversityIsFair, EvidenceIsRouted DEF RetrievalSound

-----------------------------------------------------------------------------
(* The gate over a report (check_gate).                                    *)

LEMMA UpToIsFinite ==
    ASSUME NEW n \in Nat
    PROVE  IsFiniteSet(1 .. n) /\ Cardinality(1 .. n) = n
<1>1. 1 \in Int /\ n \in Int
  OBVIOUS
<1>2. IsFiniteSet(1 .. n) /\ Cardinality(1 .. n) = IF 1 > n THEN 0 ELSE n - 1 + 1
  BY <1>1, FS_Interval
<1> QED
  BY <1>2

\* Two parts that have nothing in common.
LEMMA TwoParts ==
    ASSUME NEW S, IsFiniteSet(S), NEW T, IsFiniteSet(T), S \cap T = {}
    PROVE  /\ IsFiniteSet(S \cup T)
           /\ Cardinality(S) \in Nat /\ Cardinality(T) \in Nat
           /\ Cardinality(S \cup T) = Cardinality(S) + Cardinality(T)
<1>1. IsFiniteSet(S \cup T)
      /\ Cardinality(S \cup T) = Cardinality(S) + Cardinality(T) - Cardinality(S \cap T)
  BY FS_Union
<1>2. Cardinality(S \cap T) = 0
  BY FS_EmptySet
<1>3. Cardinality(S) \in Nat /\ Cardinality(T) \in Nat
  BY FS_CardinalityType
<1> QED
  BY <1>1, <1>2, <1>3

LEMMA GateCallsMean ==
    ASSUME NEW c \in GateCalls
    PROVE  c.function = "check_gate" /\ c.report \in Seq(QuerySignals) /\ Len(c.report) \in Nat
<1>1. c.report \in BoundedSeq(QuerySignals, MaxReport) /\ c.function = "check_gate"
  BY DEF GateCalls
<1>2. MaxReport \in Nat
  BY EvaluationAssumption
<1>3. c.report \in Seq(QuerySignals)
  BY <1>1, <1>2, BoundedIsSeq
<1> QED
  BY <1>1, <1>3

\* Every question has one class.
LEMMA OfOneClass ==
    ASSUME NEW q
    PROVE  ClassOf(q) \in Classes
BY DEF ClassOf, ClassifyFailure, Classes

\* The questions of a class.
InClass(report, class) == {i \in DOMAIN report : ClassOf(report[i]) = class}

LEMMA CountedOnce ==
    ASSUME NEW report \in Seq(QuerySignals)
    PROVE  /\ \A class : IsFiniteSet(InClass(report, class)) /\ Counted(report, class) \in Nat
           /\ Counted(report, "retrieval_miss") + Counted(report, "over_refusal")
                 + Counted(report, "hallucination") + Counted(report, "off_topic")
                 + Counted(report, "partial_answer") + Counted(report, "ok") = Len(report)
<1>1. DOMAIN report = 1 .. Len(report) /\ Len(report) \in Nat
  OBVIOUS
<1>2. IsFiniteSet(DOMAIN report) /\ Cardinality(DOMAIN report) = Len(report)
  BY <1>1, UpToIsFinite
<1>3. \A class : Counted(report, class) = Cardinality(InClass(report, class))
  BY DEF Counted, InClass
<1>4. ASSUME NEW class
      PROVE  IsFiniteSet(InClass(report, class)) /\ Counted(report, class) \in Nat
  <2>1. InClass(report, class) \in SUBSET DOMAIN report
    BY DEF InClass
  <2> QED
    BY <1>2, <1>3, <2>1, FS_Subset, FS_CardinalityType
<1> DEFINE A == InClass(report, "retrieval_miss")
           B == InClass(report, "over_refusal")
           C == InClass(report, "hallucination")
           D == InClass(report, "off_topic")
           E == InClass(report, "partial_answer")
           F == InClass(report, "ok")
<1>5. DOMAIN report = A \cup (B \cup (C \cup (D \cup (E \cup F))))
  BY OfOneClass DEF InClass, Classes
<1>6. /\ E \cap F = {} /\ D \cap (E \cup F) = {} /\ C \cap (D \cup (E \cup F)) = {}
      /\ B \cap (C \cup (D \cup (E \cup F))) = {}
      /\ A \cap (B \cup (C \cup (D \cup (E \cup F)))) = {}
  BY DEF InClass
<1>7. /\ IsFiniteSet(A) /\ IsFiniteSet(B) /\ IsFiniteSet(C) /\ IsFiniteSet(D)
      /\ IsFiniteSet(E) /\ IsFiniteSet(F)
  BY <1>4
<1> DEFINE P == E \cup F
           Q == D \cup P
           R == C \cup Q
           S == B \cup R
<1>8. IsFiniteSet(P) /\ Cardinality(P) = Cardinality(E) + Cardinality(F)
  <2> HIDE DEF A, B, C, D, E, F
  <2> QED
    BY <1>6, <1>7, TwoParts
<1>9. IsFiniteSet(Q) /\ Cardinality(Q) = Cardinality(D) + Cardinality(P)
  <2> HIDE DEF A, B, C, D, E, F
  <2>1. D \cap P = {}
    BY <1>6
  <2> HIDE DEF P
  <2> QED
    BY <1>7, <1>8, <2>1, TwoParts
<1>10. IsFiniteSet(R) /\ Cardinality(R) = Cardinality(C) + Cardinality(Q)
  <2> HIDE DEF A, B, C, D, E, F
  <2>1. C \cap Q = {}
    BY <1>6
  <2> HIDE DEF Q
  <2> QED
    BY <1>7, <1>9, <2>1, TwoParts
<1>11. IsFiniteSet(S) /\ Cardinality(S) = Cardinality(B) + Cardinality(R)
  <2> HIDE DEF A, B, C, D, E, F
  <2>1. B \cap R = {}
    BY <1>6
  <2> HIDE DEF R
  <2> QED
    BY <1>7, <1>10, <2>1, TwoParts
<1>12. Len(report) = Cardinality(A) + Cardinality(S)
  <2>1. A \cap S = {} /\ DOMAIN report = A \cup S
    BY <1>5, <1>6
  <2> HIDE DEF A, B, C, D, E, F, S
  <2>2. Cardinality(A \cup S) = Cardinality(A) + Cardinality(S)
    BY <1>7, <1>11, <2>1, TwoParts
  <2> QED
    BY <1>2, <2>1, <2>2
<1>13. /\ Cardinality(A) \in Nat /\ Cardinality(B) \in Nat /\ Cardinality(C) \in Nat
       /\ Cardinality(D) \in Nat /\ Cardinality(E) \in Nat /\ Cardinality(F) \in Nat
  <2> HIDE DEF A, B, C, D, E, F
  <2> QED
    BY <1>7, FS_CardinalityType
<1>14. Cardinality(A) + Cardinality(B) + Cardinality(C) + Cardinality(D) + Cardinality(E)
          + Cardinality(F) = Len(report)
  <2> HIDE DEF A, B, C, D, E, F, P, Q, R, S
  <2> QED
    BY <1>8, <1>9, <1>10, <1>11, <1>12, <1>13
<1> HIDE DEF A, B, C, D, E, F
<1> QED
  BY <1>3, <1>4, <1>14 DEF A, B, C, D, E, F

LEMMA NothingIsNoGood ==
    ASSUME NEW c \in GateCalls, CheckGate(c).passed
    PROVE  Len(c.report) > 0
<1> SUFFICES ASSUME Len(c.report) = 0 PROVE FALSE
  BY GateCallsMean
<1>1. ASSUME NEW signal PROVE Total(c.report, signal) = 0
  <2> DEFINE f == [i \in DOMAIN c.report |-> c.report[i][signal]]
  <2>1. 0 \in Nat /\ \A i \in 1 .. 0 : f[i] \in Int
    OBVIOUS
  <2>2. SumTo(f, 0) = 0
    <3> HIDE DEF f
    <3> QED
      BY <2>1, SumSteps
  <2> QED
    BY <2>2 DEF Total
<1>2. PICK m \in DOMAIN MetricFloors : MetricFloors[m] > 0
  BY EvaluationAssumption
<1>3. m \in {"faithfulness", "answer_relevancy", "context_recall", "context_precision"}
      /\ MetricFloors[m] \in 0 .. 100
  BY <1>2, EvaluationAssumption
<1> DEFINE value == [faithfulness |-> Total(c.report, "faithfulness"),
                     answer_relevancy |-> Total(c.report, "relevancy"),
                     context_recall |-> Total(c.report, "recall"),
                     context_precision |-> Total(c.report, "precision")]
<1>4. value[m] >= MetricFloors[m] * 1
  BY <1>2 DEF CheckGate
<1>5. value[m] = 0
  BY <1>1, <1>3
<1> HIDE DEF value
<1> DEFINE b == MetricFloors[m]
           v == value[m]
<1>6. b \in Nat /\ b > 0
  <2>1. b \in 0 .. 100
    BY <1>3
  <2>2. b > 0
    BY <1>2
  <2> HIDE DEF b
  <2> QED
    BY <2>1, <2>2
<1>7. v >= b * 1
  BY <1>4
<1>8. v = 0
  BY <1>5
<1> HIDE DEF b, v
<1> QED
  BY <1>6, <1>7, <1>8

LEMMA GateIsSound ==
    ASSUME Of("check_gate") => call \in GateCalls /\ result = CheckGate(call)
    PROVE  GateSound
<1> SUFFICES ASSUME Of("check_gate"), call \in GateCalls, result = CheckGate(call)
             PROVE  GateSound
  BY DEF GateSound
<1> DEFINE report == call.report
           n == Len(report)
           missed == {i \in DOMAIN report : report[i].recall = 0}
           unsupported == {i \in DOMAIN report :
                              report[i].faithfulness < FaithFloor /\ ~report[i].abstained}
<1>1. report \in Seq(QuerySignals) /\ n \in Nat /\ DOMAIN report = 1 .. n
      /\ \A i \in DOMAIN report : report[i] \in QuerySignals
  BY GateCallsMean
<1>2. \A class \in Classes : result.counts[class] = Counted(report, class)
  BY DEF CheckGate
<1>3. /\ result.counts["retrieval_miss"] = Counted(report, "retrieval_miss")
      /\ result.counts["over_refusal"] = Counted(report, "over_refusal")
      /\ result.counts["hallucination"] = Counted(report, "hallucination")
      /\ result.counts["off_topic"] = Counted(report, "off_topic")
      /\ result.counts["partial_answer"] = Counted(report, "partial_answer")
      /\ result.counts["ok"] = Counted(report, "ok")
  BY <1>2 DEF Classes
<1>4. /\ \A class : IsFiniteSet(InClass(report, class)) /\ Counted(report, class) \in Nat
      /\ Counted(report, "retrieval_miss") + Counted(report, "over_refusal")
            + Counted(report, "hallucination") + Counted(report, "off_topic")
            + Counted(report, "partial_answer") + Counted(report, "ok") = n
  BY <1>1, CountedOnce
<1>5. ASSUME result.passed
      PROVE  /\ n > 0
             /\ 100 * Cardinality(missed) <= MaxRates["retrieval_miss"] * n
             /\ 100 * Cardinality(unsupported)
                   <= (MaxRates["hallucination"] + MaxRates["retrieval_miss"]) * n
  <2>1. n > 0
    BY <1>5, NothingIsNoGood
  <2>2. \A class \in DOMAIN MaxRates : 100 * Counted(report, class) <= MaxRates[class] * n
    BY <1>5 DEF CheckGate
  <2>3. DOMAIN MaxRates = {"hallucination", "retrieval_miss"}
        /\ MaxRates["hallucination"] \in Nat /\ MaxRates["retrieval_miss"] \in Nat
    BY EvaluationAssumption
  <2> DEFINE A == InClass(report, "retrieval_miss")
             C == InClass(report, "hallucination")
             a == Cardinality(A)
             h == Cardinality(C)
  <2>4. /\ 100 * a <= MaxRates["retrieval_miss"] * n
        /\ 100 * h <= MaxRates["hallucination"] * n
    BY <2>2, <2>3 DEF Counted, InClass
  <2>5. IsFiniteSet(A) /\ IsFiniteSet(C) /\ a \in Nat /\ h \in Nat
    BY <1>4, FS_CardinalityType
  <2>6. missed = A
    <3>1. ASSUME NEW i \in DOMAIN report
          PROVE  report[i].recall = 0 <=> ClassOf(report[i]) = "retrieval_miss"
      <4>1. report[i].recall \in Nat
        BY <1>1 DEF QuerySignals
      <4> QED
        BY <4>1 DEF ClassOf, ClassifyFailure
    <3> QED
      BY <3>1 DEF InClass
  <2>7. unsupported \in SUBSET (A \cup C)
    <3>1. ASSUME NEW i \in DOMAIN report,
                 report[i].faithfulness < FaithFloor, ~report[i].abstained
          PROVE  ClassOf(report[i]) \in {"retrieval_miss", "hallucination"}
      BY <3>1 DEF ClassOf, ClassifyFailure
    <3> QED
      BY <3>1 DEF InClass
  <2> HIDE DEF A, C, missed, unsupported, n, report
  <2>8. A \cap C = {}
    BY DEF A, C, InClass
  <2>9. IsFiniteSet(A \cup C) /\ Cardinality(A \cup C) = a + h
    BY <2>5, <2>8, TwoParts
  <2>10. Cardinality(unsupported) <= a + h /\ Cardinality(unsupported) \in Nat
    BY <2>7, <2>9, FS_Subset, FS_CardinalityType
  <2> DEFINE u == Cardinality(unsupported)
             x == MaxRates["retrieval_miss"]
             y == MaxRates["hallucination"]
  <2>11. u <= a + h /\ u \in Nat /\ x \in Nat /\ y \in Nat
    BY <2>3, <2>10
  <2>12. 100 * a <= x * n /\ 100 * h <= y * n
    BY <2>4
  <2>13. 100 * u <= (y + x) * n
    <3> HIDE DEF u, x, y, a, h
    <3>1. (y + x) * n = y * n + x * n /\ y * n \in Nat /\ x * n \in Nat
      BY <1>1, <2>11
    <3> QED
      BY <2>5, <2>11, <2>12, <3>1
  <2> QED
    BY <2>1, <2>4, <2>6, <2>13
<1> HIDE DEF missed, unsupported, n, report
<1> QED
  BY <1>3, <1>4, <1>5 DEF GateSound, missed, unsupported, n, report

-----------------------------------------------------------------------------
(* The offline generator and judge (ExtractiveGenerator, LexicalJudge).    *)

LEMMA SurrogateCallsMean ==
    ASSUME NEW c \in SurrogateCalls
    PROVE  /\ c.function = "generate" /\ c.question \in SUBSET Lexicon
           /\ c.chunks \in Seq(Seq(SUBSET Lexicon)) /\ IsFiniteSet(SentencesOf(c))
<1>1. /\ c.question \in SUBSET Lexicon /\ c.function = "generate"
      /\ c.chunks \in BoundedSeq(BoundedSeq(SUBSET Lexicon, 2), 2)
  BY DEF SurrogateCalls
<1>2. ASSUME NEW n \in Nat, c.chunks \in BoundedSeq(BoundedSeq(SUBSET Lexicon, n), n)
      PROVE  c.chunks \in Seq(Seq(SUBSET Lexicon)) /\ IsFiniteSet(SentencesOf(c))
  <2>1. PICK m \in 0 .. n : c.chunks \in [1 .. m -> BoundedSeq(SUBSET Lexicon, n)]
    BY <1>2 DEF BoundedSeq, SeqOf
  <2>2. ASSUME NEW k \in 1 .. m
        PROVE  /\ c.chunks[k] \in Seq(SUBSET Lexicon)
               /\ \A i \in DOMAIN c.chunks[k] : i \in 1 .. n
    <3>1. c.chunks[k] \in BoundedSeq(SUBSET Lexicon, n)
      BY <2>1
    <3>2. PICK l \in 0 .. n : c.chunks[k] \in [1 .. l -> SUBSET Lexicon]
      BY <3>1 DEF BoundedSeq, SeqOf
    <3> QED
      BY <3>1, <3>2, BoundedIsSeq
  <2>3. c.chunks \in Seq(Seq(SUBSET Lexicon)) /\ DOMAIN c.chunks = 1 .. m
    BY <2>1, <2>2
  <2>4. SentencesOf(c) \in SUBSET ((1 .. m) \X (1 .. n))
    BY <2>2, <2>3 DEF SentencesOf
  <2>5. IsFiniteSet((1 .. m) \X (1 .. n))
    <3>1. IsFiniteSet(1 .. m) /\ IsFiniteSet(1 .. n)
      BY UpToIsFinite
    <3> QED
      BY <3>1, FS_Product
  <2> QED
    BY <2>3, <2>4, <2>5, FS_Subset
<1>3. 2 \in Nat
  OBVIOUS
<1>4. c.chunks \in Seq(Seq(SUBSET Lexicon)) /\ IsFiniteSet(SentencesOf(c))
  BY <1>1, <1>2, <1>3
<1> QED
  BY <1>1, <1>4

\* What an argument of the generator is, of any length.
Generates(c) ==
    /\ c.question \in SUBSET Lexicon /\ c.chunks \in Seq(Seq(SUBSET Lexicon))
    /\ IsFiniteSet(SentencesOf(c))

LEMMA SentencesAre ==
    ASSUME NEW c, Generates(c)
    PROVE  /\ \A s \in SentencesOf(c) :
                 /\ Sentence(c, s) \in SUBSET Lexicon /\ Overlap(c, s) \in Nat
                 /\ s[1] \in Nat /\ s[2] \in Nat /\ s = <<s[1], s[2]>>
           /\ UNION {ToSet(c.chunks[k]) : k \in DOMAIN c.chunks}
                 = {Sentence(c, s) : s \in SentencesOf(c)}
<1>1. c.chunks \in Seq(Seq(SUBSET Lexicon)) /\ c.question \in SUBSET Lexicon
  BY DEF Generates
<1>2. \A k \in DOMAIN c.chunks : k \in Nat /\ c.chunks[k] \in Seq(SUBSET Lexicon)
  BY <1>1
<1>3. IsFiniteSet(c.question)
  BY <1>1, EvaluationAssumption, FS_Subset
<1>4. ASSUME NEW s \in SentencesOf(c)
      PROVE  /\ Sentence(c, s) \in SUBSET Lexicon /\ Overlap(c, s) \in Nat
             /\ s[1] \in Nat /\ s[2] \in Nat /\ s = <<s[1], s[2]>>
             /\ s[1] \in DOMAIN c.chunks /\ s[2] \in DOMAIN c.chunks[s[1]]
  <2>1. PICK k \in DOMAIN c.chunks : \E i \in DOMAIN c.chunks[k] : s = <<k, i>>
    BY DEF SentencesOf
  <2>2. PICK i \in DOMAIN c.chunks[k] : s = <<k, i>>
    BY <2>1
  <2>3. c.chunks[k] \in Seq(SUBSET Lexicon) /\ k \in Nat
    BY <1>2
  <2>4. i \in Nat /\ c.chunks[k][i] \in SUBSET Lexicon
    BY <2>3
  <2>5. s[1] = k /\ s[2] = i
    BY <2>2
  <2>6. Sentence(c, s) \in SUBSET Lexicon
    BY <2>4, <2>5 DEF Sentence
  <2>7. Overlap(c, s) \in Nat
    BY <1>3, FS_Intersection, FS_CardinalityType DEF Overlap
  <2> QED
    BY <2>2, <2>3, <2>4, <2>5, <2>6, <2>7
<1>5. ASSUME NEW x \in UNION {ToSet(c.chunks[k]) : k \in DOMAIN c.chunks}
      PROVE  x \in {Sentence(c, s) : s \in SentencesOf(c)}
  <2>1. PICK k \in DOMAIN c.chunks : x \in ToSet(c.chunks[k])
    OBVIOUS
  <2>2. PICK i \in DOMAIN c.chunks[k] : x = c.chunks[k][i]
    BY <2>1 DEF ToSet
  <2>3. <<k, i>> \in SentencesOf(c) /\ Sentence(c, <<k, i>>) = x
    BY <2>2 DEF SentencesOf, Sentence
  <2> QED
    BY <2>3
<1>6. ASSUME NEW s \in SentencesOf(c)
      PROVE  Sentence(c, s) \in UNION {ToSet(c.chunks[k]) : k \in DOMAIN c.chunks}
  <2>1. s[1] \in DOMAIN c.chunks /\ s[2] \in DOMAIN c.chunks[s[1]]
    BY <1>4
  <2>2. Sentence(c, s) \in ToSet(c.chunks[s[1]])
    BY <2>1 DEF ToSet, Sentence
  <2> QED
    BY <2>1, <2>2
<1> QED
  BY <1>4, <1>5, <1>6

LEMMA OverlapOrders ==
    ASSUME NEW c, Generates(c)
    PROVE  /\ StrictlyOrdered(SentencesOf(c), MoreOverlap(c))
           /\ \A x, y \in SentencesOf(c) :
                 <<x, y>> \in MoreOverlap(c) => Overlap(c, x) >= Overlap(c, y)
<1> DEFINE S == SentencesOf(c)
           More(x, y) == \/ Overlap(c, x) > Overlap(c, y)
                         \/ /\ Overlap(c, x) = Overlap(c, y)
                            /\ x[1] < y[1] \/ (x[1] = y[1] /\ x[2] < y[2])
<1>1. \A x, y \in S : <<x, y>> \in MoreOverlap(c) <=> More(x, y)
  BY DEF MoreOverlap
<1>2. \A x \in S : Overlap(c, x) \in Nat /\ x[1] \in Nat /\ x[2] \in Nat /\ x = <<x[1], x[2]>>
  BY SentencesAre
<1>3. \A x \in S : ~More(x, x)
  BY <1>2
<1>4. ASSUME NEW x \in S, NEW y \in S, NEW z \in S, More(x, y), More(y, z)
      PROVE  More(x, z)
  BY <1>2, <1>4
<1>5. ASSUME NEW x \in S, NEW y \in S
      PROVE  x = y \/ More(x, y) \/ More(y, x)
  <2>1. x[1] = y[1] /\ x[2] = y[2] => x = y
    BY <1>2
  <2> QED
    BY <1>2, <2>1
<1>6. \A x, y \in S : More(x, y) => Overlap(c, x) >= Overlap(c, y)
  BY <1>2
<1> HIDE DEF S, More
<1>7. StrictlyOrdered(S, MoreOverlap(c))
  BY <1>1, <1>3, <1>4, <1>5, Zenon DEF StrictlyOrdered
<1> QED
  BY <1>1, <1>6, <1>7 DEF S

\* The places of an answer's sentences.
Extracted(c, chosen) ==
    /\ chosen \in Seq(SentencesOf(c))
    /\ Extract(c) = [p \in DOMAIN chosen |-> Sentence(c, chosen[p])]
    /\ Len(chosen) <= TopSentences
    /\ SentencesOf(c) # {} => Len(chosen) > 0
    /\ \A x \in SentencesOf(c), p \in DOMAIN chosen :
          \/ \E q \in DOMAIN chosen : chosen[q] = x
          \/ Overlap(c, x) <= Overlap(c, chosen[p])

LEMMA ExtractMeans ==
    ASSUME NEW c, Generates(c)
    PROVE  \E chosen : Extracted(c, chosen)
<1> DEFINE S == SentencesOf(c)
           n == Cardinality(S)
           s == Scored(c)
           best == TopOf(s, TopSentences)
           I == {p \in DOMAIN best : Overlap(c, best[p]) > 0}
           picked == Picked(best, I)
           chosen == IF picked = << >> THEN TopOf(s, 1) ELSE picked
<1>1. /\ n \in Nat /\ s \in [1 .. n -> S]
      /\ \A p, q \in 1 .. n : <<s[p], s[q]>> \in MoreOverlap(c) <=> p < q
      /\ \A x \in S : \E p \in 1 .. n : s[p] = x
  <2>1. IsFiniteSet(S) /\ StrictlyOrdered(S, MoreOverlap(c))
    BY OverlapOrders DEF Generates
  <2> HIDE DEF S
  <2> QED
    BY <2>1, SortedMeans DEF Scored, S
<1>2. s \in Seq(S) /\ Len(s) = n /\ DOMAIN s = 1 .. n
  <2> HIDE DEF S, s, n
  <2> QED
    BY <1>1
<1>3. TopSentences \in Nat \ {0} /\ TopSentences \in Nat
  BY EvaluationAssumption
<1>4. /\ best \in Seq(S) /\ Len(best) = (IF TopSentences < n THEN TopSentences ELSE n)
      /\ Len(best) \in 0 .. n /\ DOMAIN best = 1 .. Len(best)
      /\ \A i \in DOMAIN best : i \in 1 .. n /\ best[i] = s[i]
  <2> HIDE DEF S, s, n
  <2> QED
    BY <1>2, <1>3, TopMeans
<1>5. /\ I \in SUBSET DOMAIN best /\ IsFiniteSet(I) /\ Cardinality(I) \in 0 .. Len(best)
      /\ picked \in Seq(S) /\ Len(picked) = Cardinality(I)
      /\ Ascending(I) \in [1 .. Cardinality(I) -> I]
      /\ \A p \in 1 .. Cardinality(I) : picked[p] = best[Ascending(I)[p]]
      /\ \A i \in I : \E p \in 1 .. Cardinality(I) : Ascending(I)[p] = i
  <2>1. I \in SUBSET DOMAIN best
    OBVIOUS
  <2> HIDE DEF S, best, I
  <2>2. PickedList(S, best, I)
    BY <1>4, <2>1, PickedMeans
  <2> QED
    BY <2>1, <2>2 DEF PickedList
<1>6. ASSUME NEW p \in 1 .. n, NEW q \in 1 .. n, p <= q
      PROVE  Overlap(c, s[q]) <= Overlap(c, s[p])
  <2>1. CASE p = q
    <3>1. Overlap(c, s[q]) \in Nat
      BY <1>1, SentencesAre
    <3> QED
      BY <2>1, <3>1
  <2>2. CASE p < q
    <3>1. <<s[p], s[q]>> \in MoreOverlap(c) /\ s[p] \in S /\ s[q] \in S
      BY <1>1, <2>2
    <3>2. Overlap(c, s[p]) \in Nat /\ Overlap(c, s[q]) \in Nat
      BY <3>1, SentencesAre
    <3>3. Overlap(c, s[p]) >= Overlap(c, s[q])
      BY <3>1, OverlapOrders
    <3> QED
      BY <3>2, <3>3
  <2>3. p = q \/ p < q
    <3> HIDE DEF n
    <3> QED
      BY <1>1, <1>6
  <2> QED
    BY <2>1, <2>2, <2>3
<1>7. Extract(c) = [p \in DOMAIN chosen |-> Sentence(c, chosen[p])]
  BY DEF Extract
<1>8. S # {} => n > 0
  <2> SUFFICES ASSUME NEW x \in S PROVE n > 0
    OBVIOUS
  <2>1. PICK p \in 1 .. n : s[p] = x
    BY <1>1
  <2> HIDE DEF n
  <2> QED
    BY <1>1, <2>1
<1>9. CASE picked = << >>
  <2>1. chosen = TopOf(s, 1)
    BY <1>9
  <2>2. /\ chosen \in Seq(S) /\ Len(chosen) = (IF 1 < n THEN 1 ELSE n)
        /\ DOMAIN chosen = 1 .. Len(chosen)
        /\ \A i \in DOMAIN chosen : i \in 1 .. n /\ chosen[i] = s[i]
    <3>1. 1 \in Nat
      OBVIOUS
    <3> HIDE DEF S, s, n, chosen
    <3> QED
      BY <1>2, <2>1, <3>1, TopMeans
  <2>3. Len(chosen) <= TopSentences /\ (S # {} => Len(chosen) > 0)
    <3> HIDE DEF S, n, chosen
    <3> QED
      BY <1>1, <1>3, <1>8, <2>2
  <2>4. ASSUME NEW x \in S, NEW p \in DOMAIN chosen
        PROVE  Overlap(c, x) <= Overlap(c, chosen[p])
    <3>1. PICK j \in 1 .. n : s[j] = x
      BY <1>1
    <3>2. p \in 1 .. n /\ p <= j /\ chosen[p] = s[p]
      <4> HIDE DEF S, n, chosen, s
      <4> QED
        BY <1>1, <2>2, <2>4, <3>1
    <3> QED
      BY <1>6, <3>1, <3>2
  <2> HIDE DEF chosen
  <2> QED
    BY <1>7, <2>2, <2>3, <2>4 DEF Extracted
<1>10. CASE picked # << >>
  <2>1. chosen = picked
    BY <1>10
  <2>2. chosen \in Seq(S) /\ DOMAIN chosen = 1 .. Cardinality(I) /\ Len(chosen) = Cardinality(I)
    <3> HIDE DEF chosen, picked, I, S
    <3> QED
      BY <1>5, <2>1
  <2>3. Cardinality(I) # 0
    <3> HIDE DEF I, S, best
    <3> QED
      BY <1>5, <1>10
  <2>4. Len(chosen) <= TopSentences /\ Len(chosen) > 0
    <3> HIDE DEF chosen, picked, I, S, best, n
    <3> QED
      BY <1>1, <1>3, <1>4, <1>5, <2>2, <2>3
  <2>5. ASSUME NEW x \in S, NEW p \in DOMAIN chosen
        PROVE  \/ \E q \in DOMAIN chosen : chosen[q] = x
               \/ Overlap(c, x) <= Overlap(c, chosen[p])
    <3>1. PICK j \in 1 .. n : s[j] = x
      BY <1>1
    <3> DEFINE i == Ascending(I)[p]
    <3>2. p \in 1 .. Cardinality(I) /\ i \in I /\ i \in DOMAIN best /\ chosen[p] = best[i]
      <4> HIDE DEF chosen, picked, best
      <4> QED
        BY <1>5, <2>1, <2>2, <2>5
    <3>3. i \in 1 .. n /\ chosen[p] = s[i] /\ i <= Len(best)
      <4> HIDE DEF chosen, picked, I, best, s, n, i
      <4> QED
        BY <1>4, <3>2
    <3>4. CASE j <= Len(best)
      <4>1. j \in DOMAIN best /\ best[j] = x
        <5> HIDE DEF S, best, s, n, I, i, chosen
        <5>1. j \in 1 .. Len(best)
          BY <1>1, <1>4, <3>1, <3>4
        <5> QED
          BY <1>4, <3>1, <5>1
      <4>2. CASE Overlap(c, x) > 0
        <5>1. j \in I
          BY <4>1, <4>2
        <5>2. PICK q \in 1 .. Cardinality(I) : Ascending(I)[q] = j
          BY <1>5, <5>1
        <5>3. chosen[q] = x /\ q \in DOMAIN chosen
          <6> HIDE DEF chosen, picked, I, best
          <6> QED
            BY <1>5, <2>1, <2>2, <4>1, <5>2
        <5> QED
          BY <5>3
      <4>3. CASE ~(Overlap(c, x) > 0)
        <5>1. chosen[p] \in S
          BY <1>1, <3>3
        <5>2. Overlap(c, x) \in Nat /\ Overlap(c, chosen[p]) \in Nat
          BY <5>1, SentencesAre
        <5> HIDE DEF chosen
        <5> QED
          BY <4>3, <5>2
      <4> QED
        BY <4>2, <4>3
    <3>5. CASE ~(j <= Len(best))
      <4>1. i <= j
        <5> HIDE DEF best, i, n
        <5> QED
          BY <1>1, <1>4, <3>1, <3>3, <3>5
      <4>2. Overlap(c, s[j]) <= Overlap(c, s[i])
        <5> HIDE DEF i, s, n
        <5> QED
          BY <1>6, <3>1, <3>3, <4>1
      <4> HIDE DEF chosen, s, i
      <4> QED
        BY <3>1, <3>3, <4>2
    <3> QED
      BY <3>4, <3>5
  <2> HIDE DEF chosen
  <2> QED
    BY <1>7, <2>2, <2>4, <2>5 DEF Extracted
<1> QED
  BY <1>9, <1>10

LEMMA GeneratorIsGrounded ==
    ASSUME Of("generate") => call \in SurrogateCalls /\ result = LexicalJudge(call)
    PROVE  SurrogateGrounded
<1> SUFFICES ASSUME Of("generate"), call \in SurrogateCalls, result = LexicalJudge(call)
             PROVE  SurrogateGrounded
  BY DEF SurrogateGrounded
<1> DEFINE all == UNION {ToSet(call.chunks[k]) : k \in DOMAIN call.chunks}
           S == SentencesOf(call)
           answer == Extract(call)
           words == UNION ToSet(answer)
           overlap(s) == Cardinality(call.question \cap s)
<1>1. Generates(call)
  BY SurrogateCallsMean DEF Generates
<1>2. /\ \A s \in S : Sentence(call, s) \in SUBSET Lexicon /\ Overlap(call, s) \in Nat
      /\ all = {Sentence(call, s) : s \in S}
  BY <1>1, SentencesAre
<1>3. PICK chosen : Extracted(call, chosen)
  BY <1>1, ExtractMeans
<1>4. /\ chosen \in Seq(S) /\ answer = [p \in DOMAIN chosen |-> Sentence(call, chosen[p])]
      /\ Len(chosen) <= TopSentences /\ (S # {} => Len(chosen) > 0)
      /\ \A x \in S, p \in DOMAIN chosen :
            \/ \E q \in DOMAIN chosen : chosen[q] = x
            \/ Overlap(call, x) <= Overlap(call, chosen[p])
  BY <1>3 DEF Extracted
<1>5. /\ DOMAIN chosen = 1 .. Len(chosen) /\ Len(chosen) \in Nat
      /\ \A p \in DOMAIN chosen : chosen[p] \in S
  <2> HIDE DEF S
  <2> QED
    BY <1>4
<1>6. /\ DOMAIN answer = 1 .. Len(chosen) /\ Len(answer) = Len(chosen)
      /\ \A p \in DOMAIN answer : answer[p] = Sentence(call, chosen[p])
  <2> HIDE DEF S, answer
  <2>1. DOMAIN answer = 1 .. Len(chosen) /\ \A p \in DOMAIN answer : answer[p] = Sentence(call, chosen[p])
    BY <1>4, <1>5
  <2> QED
    BY <1>5, <2>1
<1>7. /\ result.answer = answer /\ result.words = Cardinality(words)
      /\ result.faithfulness = Cardinality(words \cap UNION all)
      /\ result.relevancy = Cardinality(words \cap call.question)
  <2>1. all = UNION {ToSet(call.chunks[k]) : k \in DOMAIN call.chunks}
    OBVIOUS
  <2> QED
    BY DEF LexicalJudge
<1>8. ToSet(answer) \subseteq all
  <2> SUFFICES ASSUME NEW x \in ToSet(answer) PROVE x \in all
    OBVIOUS
  <2>1. PICK p \in DOMAIN answer : x = answer[p]
    BY DEF ToSet
  <2>2. x = Sentence(call, chosen[p]) /\ chosen[p] \in S
    BY <1>5, <1>6, <2>1
  <2> HIDE DEF S, all
  <2> QED
    BY <1>2, <2>2
<1>9. result.faithfulness = result.words
  <2>1. words \cap UNION all = words
    <3> HIDE DEF all, answer
    <3> QED
      BY <1>8
  <2> QED
    BY <1>7, <2>1
<1>10. all # {} => answer # << >>
  <2> SUFFICES ASSUME all # {}, answer = << >> PROVE FALSE
    OBVIOUS
  <2>1. S # {}
    <3> HIDE DEF S, all
    <3> QED
      BY <1>2
  <2>2. Len(answer) > 0
    <3> HIDE DEF answer, S
    <3> QED
      BY <1>4, <1>6, <2>1
  <2> HIDE DEF answer
  <2> QED
    BY <2>2
<1>11. Len(answer) <= TopSentences
  <2> HIDE DEF answer
  <2> QED
    BY <1>4, <1>6
<1>12. ASSUME NEW x \in all \ ToSet(answer), NEW i \in DOMAIN answer
       PROVE  overlap(answer[i]) >= overlap(x)
  <2>1. PICK s \in S : x = Sentence(call, s)
    <3> HIDE DEF S, all
    <3> QED
      BY <1>2
  <2>2. ~(\E q \in DOMAIN chosen : chosen[q] = s)
    <3> SUFFICES ASSUME NEW q \in DOMAIN chosen, chosen[q] = s PROVE FALSE
      OBVIOUS
    <3>1. q \in DOMAIN answer /\ answer[q] = x
      <4> HIDE DEF answer, S, all
      <4> QED
        BY <1>5, <1>6, <2>1
    <3>2. x \in ToSet(answer)
      <4> HIDE DEF answer, all
      <4> QED
        BY <3>1 DEF ToSet
    <3> QED
      BY <3>2
  <2>3. i \in DOMAIN chosen /\ answer[i] = Sentence(call, chosen[i]) /\ chosen[i] \in S
    <3> HIDE DEF answer, S
    <3> QED
      BY <1>5, <1>6
  <2>4. Overlap(call, s) <= Overlap(call, chosen[i])
    BY <1>4, <2>2, <2>3
  <2>5. overlap(x) = Overlap(call, s) /\ overlap(answer[i]) = Overlap(call, chosen[i])
    <3> HIDE DEF answer, S, all
    <3> QED
      BY <2>1, <2>3 DEF Overlap
  <2>6. Overlap(call, s) \in Nat /\ Overlap(call, chosen[i]) \in Nat
    BY <1>2, <2>3
  <2> HIDE DEF answer, overlap
  <2> QED
    BY <2>4, <2>5, <2>6
<1>13. ASSUME NEW x \in all, overlap(x) > 0
       PROVE  result.relevancy > 0
  <2>1. PICK y \in ToSet(answer) : overlap(y) > 0
    <3>1. CASE x \in ToSet(answer)
      BY <1>13, <3>1
    <3>2. CASE x \notin ToSet(answer)
      <4>1. Len(answer) > 0 /\ 1 \in DOMAIN answer /\ answer[1] \in ToSet(answer)
        <5>1. S # {}
          <6> HIDE DEF S, all
          <6> QED
            BY <1>2
        <5>2. Len(answer) > 0 /\ 1 \in DOMAIN answer
          <6> HIDE DEF answer, S
          <6> QED
            BY <1>4, <1>5, <1>6, <5>1
        <5> QED
          BY <5>2 DEF ToSet
      <4>2. overlap(answer[1]) >= overlap(x)
        BY <1>12, <3>2, <4>1
      <4>3. overlap(answer[1]) \in Nat /\ overlap(x) \in Nat
        <5>1. ASSUME NEW z \in all PROVE overlap(z) \in Nat
          <6>1. PICK s \in S : z = Sentence(call, s)
            <7> HIDE DEF S, all
            <7> QED
              BY <1>2, <5>1
          <6>2. overlap(z) = Overlap(call, s) /\ Overlap(call, s) \in Nat
            BY <1>2, <6>1 DEF Overlap
          <6> QED
            BY <6>2
        <5> HIDE DEF answer, all, overlap
        <5> QED
          BY <1>8, <4>1, <5>1
      <4>4. overlap(answer[1]) > 0
        <5> HIDE DEF answer, all, overlap
        <5> QED
          BY <1>13, <4>2, <4>3
      <4> QED
        BY <4>1, <4>4
    <3> QED
      BY <3>1, <3>2
  <2>2. IsFiniteSet(call.question)
    BY <1>1, EvaluationAssumption, FS_Subset DEF Generates
  <2>3. call.question \cap y # {}
    <3> SUFFICES ASSUME call.question \cap y = {} PROVE FALSE
      OBVIOUS
    <3>1. overlap(y) = 0
      BY FS_EmptySet
    <3> HIDE DEF overlap
    <3> QED
      BY <2>1, <3>1
  <2>4. words \cap call.question # {}
    <3> HIDE DEF answer
    <3> QED
      BY <2>1, <2>3
  <2>5. IsFiniteSet(words \cap call.question)
    BY <2>2, FS_Intersection
  <2> DEFINE W == words \cap call.question
  <2>6. Cardinality(W) \in Nat /\ Cardinality(W) # 0
    <3> HIDE DEF words
    <3> QED
      BY <2>4, <2>5, FS_CardinalityType, FS_EmptySet
  <2>7. result.relevancy = Cardinality(W)
    BY <1>7
  <2> HIDE DEF W
  <2> QED
    BY <2>6, <2>7
<1> HIDE DEF S, words
<1>14. SurrogateGrounded
  <2>1. /\ ToSet(result.answer) \subseteq all
        /\ result.faithfulness = result.words
        /\ all # {} => result.answer # << >>
        /\ Len(result.answer) <= TopSentences
        /\ \A s \in all \ ToSet(result.answer), i \in DOMAIN result.answer :
              overlap(result.answer[i]) >= overlap(s)
        /\ (\E s \in all : overlap(s) > 0) => result.relevancy > 0
    <3> HIDE DEF answer, all, overlap
    <3> QED
      BY <1>7, <1>8, <1>9, <1>10, <1>11, <1>12, <1>13
  <2> QED
    BY <2>1 DEF SurrogateGrounded
<1> QED
  BY <1>14

-----------------------------------------------------------------------------
(* The pacing of a provider's calls (_SharedPacer).                        *)

EndKinds == {"answer", "transient", "error"}
ProviderOutcomes == [kind : EndKinds, time : Nat, delay : Nat]
PacerStates ==
    [starts : Seq(Nat), last : Int, now : Nat, attempt : 0 .. MaxRetries, ends : Seq(EndKinds)]

LEMMA PaceCallsMean ==
    ASSUME NEW c \in PaceCalls
    PROVE  /\ c.function = "pace" /\ c.outcomes \in Seq(ProviderOutcomes) /\ Len(c.outcomes) \in Nat
           /\ DOMAIN c.outcomes = 1 .. Len(c.outcomes)
           /\ \A k \in 1 .. Len(c.outcomes) : c.outcomes[k] \in ProviderOutcomes
<1> DEFINE O == [kind : EndKinds, time : CallTimes, delay : {0, 1}]
<1>1. c.outcomes \in BoundedSeq(O, MaxRetries + 2) /\ c.function = "pace"
  BY DEF PaceCalls, EndKinds
<1>2. MaxRetries + 2 \in Nat /\ O \subseteq ProviderOutcomes
  BY EvaluationAssumption DEF ProviderOutcomes
<1>3. c.outcomes \in Seq(O)
  <2> HIDE DEF O
  <2> QED
    BY <1>1, <1>2, BoundedIsSeq
<1>4. c.outcomes \in Seq(ProviderOutcomes)
  <2> HIDE DEF O
  <2> QED
    BY <1>2, <1>3
<1> QED
  BY <1>1, <1>4

LEMMA BackoffIsNat ==
    ASSUME NEW outcome \in ProviderOutcomes, NEW attempt \in Nat
    PROVE  Backoff(outcome, attempt) \in Nat
<1> DEFINE f == [i \in 1 .. attempt |-> 2]
<1>1. \A i \in 1 .. attempt : f[i] \in Nat \ {0}
  OBVIOUS
<1>2. PowerOfTwo(attempt) \in Nat
  <2>1. ProductTo(f, attempt) \in Nat
    <3> HIDE DEF f
    <3> QED
      BY <1>1, ProductDivides
  <2> QED
    BY <2>1 DEF PowerOfTwo
<1>3. outcome.delay \in Nat /\ Interval \in Nat
  BY EvaluationAssumption DEF ProviderOutcomes
<1> DEFINE p == PowerOfTwo(attempt)
<1>4. Interval * p \in Nat
  <2> HIDE DEF p
  <2>1. p \in Nat
    BY <1>2 DEF p
  <2> QED
    BY <1>3, <2>1
<1> HIDE DEF p
<1> QED
  BY <1>3, <1>4 DEF Backoff, p

\* When an attempt starts.
StartOf(s) == IF s.last < 0 \/ s.now - s.last >= Interval THEN s.now ELSE s.last + Interval

\* One that is made again.
IsRetried(s, outcome) == outcome.kind = "transient" /\ s.attempt < MaxRetries

LEMMA AttemptMeans ==
    ASSUME NEW s \in PacerStates, NEW outcome \in ProviderOutcomes
    PROVE  /\ Attempt(s, outcome) \in PacerStates
           /\ Attempt(s, outcome).starts = Append(s.starts, StartOf(s))
           /\ StartOf(s) \in Nat /\ Attempt(s, outcome).last = StartOf(s)
           /\ s.last >= 0 => StartOf(s) - s.last >= Interval
           /\ Attempt(s, outcome).attempt
                 = (IF IsRetried(s, outcome) THEN s.attempt + 1 ELSE 0)
           /\ Attempt(s, outcome).ends
                 = (IF IsRetried(s, outcome) THEN s.ends ELSE Append(s.ends, outcome.kind))
<1>1. /\ s.last \in Int /\ s.now \in Nat /\ s.starts \in Seq(Nat) /\ s.attempt \in 0 .. MaxRetries
      /\ s.ends \in Seq(EndKinds) /\ outcome.kind \in EndKinds /\ outcome.time \in Nat
  BY DEF PacerStates, ProviderOutcomes
<1>2. Interval \in Nat /\ MaxRetries \in Nat
  BY EvaluationAssumption
<1>3. StartOf(s) \in Nat /\ (s.last >= 0 => StartOf(s) - s.last >= Interval)
  BY <1>1, <1>2 DEF StartOf
<1> DEFINE start == StartOf(s)
           ended == start + outcome.time
           failed == IsRetried(s, outcome)
           now == IF failed THEN ended + Backoff(outcome, s.attempt) ELSE ended
           attempt == IF failed THEN s.attempt + 1 ELSE 0
           ends == IF failed THEN s.ends ELSE Append(s.ends, outcome.kind)
<1>4. Attempt(s, outcome) =
         [starts |-> Append(s.starts, start), last |-> start, now |-> now,
          attempt |-> attempt, ends |-> ends]
  BY DEF Attempt, StartOf, IsRetried
<1>5. Backoff(outcome, s.attempt) \in Nat
  <2>1. s.attempt \in Nat
    BY <1>1, <1>2
  <2> QED
    BY <2>1, BackoffIsNat
<1>6. now \in Nat
  <2> DEFINE b == Backoff(outcome, s.attempt)
             t == outcome.time
  <2>1. b \in Nat /\ t \in Nat /\ start \in Nat
    BY <1>1, <1>3, <1>5
  <2> HIDE DEF b, t, start, failed
  <2>2. (IF failed THEN start + t + b ELSE start + t) \in Nat
    BY <2>1
  <2> QED
    BY <2>2 DEF b, t
<1>7. attempt \in 0 .. MaxRetries
  BY <1>1, <1>2 DEF IsRetried
<1>8. Append(s.starts, start) \in Seq(Nat) /\ ends \in Seq(EndKinds)
  <2> HIDE DEF start, failed
  <2>1. start \in Nat
    BY <1>3 DEF start
  <2> QED
    BY <1>1, <2>1
<1> HIDE DEF start, now, attempt, ends
<1>9. Attempt(s, outcome) \in PacerStates
  <2>1. start \in Nat /\ start \in Int
    BY <1>3 DEF start
  <2> QED
    BY <1>4, <1>6, <1>7, <1>8, <2>1 DEF PacerStates
<1>10. /\ Attempt(s, outcome).starts = Append(s.starts, start)
       /\ Attempt(s, outcome).last = start /\ Attempt(s, outcome).attempt = attempt
       /\ Attempt(s, outcome).ends = ends
  BY <1>4
<1> QED
  BY <1>3, <1>9, <1>10 DEF start, attempt, ends

\* The states of a pacer, one for each number of outcomes.
Paced(c, state) ==
    state = [k \in 0 .. Len(c.outcomes) |->
                IF k = 0
                THEN [starts |-> << >>, last |-> -1, now |-> 0, attempt |-> 0, ends |-> << >>]
                ELSE Attempt(state[k - 1], c.outcomes[k])]

Unpaced == [starts |-> << >>, last |-> -1, now |-> 0, attempt |-> 0, ends |-> << >>]

LEMMA PacedExists ==
    ASSUME NEW c \in PaceCalls
    PROVE  \E state \in [0 .. Len(c.outcomes) -> PacerStates] :
              /\ Paced(c, state) /\ Pace(c) = state[Len(c.outcomes)]
              /\ state[0] = Unpaced
              /\ \A k \in 1 .. Len(c.outcomes) :
                    state[k] = Attempt(state[k - 1], c.outcomes[k])
<1> DEFINE n == Len(c.outcomes)
           V == PacerStates
           step == [p \in (1 .. n) \X V |-> Attempt(p[2], c.outcomes[p[1]])]
<1>1. n \in Nat /\ \A k \in 1 .. n : c.outcomes[k] \in ProviderOutcomes
  BY PaceCallsMean
<1>2. Unpaced \in V
  BY EvaluationAssumption DEF Unpaced, PacerStates
<1>3. step \in [(1 .. n) \X V -> V]
  <2>1. ASSUME NEW p \in (1 .. n) \X V PROVE Attempt(p[2], c.outcomes[p[1]]) \in V
    <3>1. p[1] \in 1 .. n /\ p[2] \in V
      OBVIOUS
    <3> QED
      BY <1>1, <3>1, AttemptMeans
  <2> HIDE DEF n, V
  <2> QED
    BY <2>1
<1>4. PICK g : Upto(n, g, V, Unpaced, step)
  <2> HIDE DEF step, n, V
  <2> QED
    BY <1>1, <1>2, <1>3, RecursiveFunction
<1>5. g \in [0 .. n -> V] /\ g[0] = Unpaced /\ \A k \in 1 .. n : g[k] = step[<<k, g[k - 1]>>]
  BY <1>4 DEF Upto
<1>6. ASSUME NEW k \in 1 .. n PROVE g[k] = Attempt(g[k - 1], c.outcomes[k])
  <2>1. k - 1 \in 0 .. n
    <3> HIDE DEF n
    <3> QED
      BY <1>1
  <2>2. g[k - 1] \in V
    BY <1>5, <2>1
  <2>3. <<k, g[k - 1]>> \in (1 .. n) \X V
    <3> HIDE DEF n, V
    <3> QED
      BY <2>2
  <2>4. step[<<k, g[k - 1]>>] = Attempt(g[k - 1], c.outcomes[k])
    <3> HIDE DEF n, V
    <3> QED
      BY <2>3
  <2> QED
    BY <1>5, <2>4
<1>7. Paced(c, g)
  <2>1. \A k \in 0 .. n : g[k] = IF k = 0 THEN Unpaced ELSE Attempt(g[k - 1], c.outcomes[k])
    <3> SUFFICES ASSUME NEW k \in 0 .. n
                 PROVE  g[k] = IF k = 0 THEN Unpaced ELSE Attempt(g[k - 1], c.outcomes[k])
      OBVIOUS
    <3>1. k # 0 => k \in 1 .. n
      <4> HIDE DEF n
      <4> QED
        BY <1>1
    <3> QED
      BY <1>5, <1>6, <3>1
  <2>2. g = [k \in 0 .. n |-> g[k]]
    BY <1>5
  <2>3. g = [k \in 0 .. n |-> IF k = 0 THEN Unpaced ELSE Attempt(g[k - 1], c.outcomes[k])]
    <3> HIDE DEF n
    <3> QED
      BY <2>1, <2>2, Zenon
  <2> QED
    BY <2>3 DEF Paced, Unpaced
<1>8. ASSUME NEW h, Paced(c, h) PROVE h = g
  <2>1. h = [k \in 0 .. n |-> IF k = 0 THEN Unpaced ELSE Attempt(h[k - 1], c.outcomes[k])]
    BY <1>8 DEF Paced, Unpaced
  <2>2. \A k \in 0 .. n : h[k] = IF k = 0 THEN Unpaced ELSE Attempt(h[k - 1], c.outcomes[k])
    <3> HIDE DEF n
    <3> QED
      BY <2>1, Zenon
  <2> DEFINE T == {k \in 0 .. n : h[k] = g[k]}
  <2> HIDE DEF n
  <2>3. 0 \in T
    BY <1>1, <1>5, <2>2
  <2>4. ASSUME NEW k \in 0 .. n - 1, k \in T PROVE k + 1 \in T
    <3>1. k + 1 \in 1 .. n /\ k + 1 \in 0 .. n /\ k + 1 # 0 /\ k + 1 - 1 = k
      BY <1>1
    <3> DEFINE m == k + 1
    <3>2. h[m] = Attempt(h[m - 1], c.outcomes[m])
      <4>1. m \in 0 .. n /\ m # 0
        BY <3>1
      <4> HIDE DEF m
      <4> QED
        BY <2>2, <4>1, Zenon
    <3>3. g[m] = Attempt(g[m - 1], c.outcomes[m])
      <4>1. m \in 1 .. n
        BY <3>1
      <4> HIDE DEF m
      <4> QED
        BY <1>6, <4>1
    <3>4. m - 1 = k /\ h[k] = g[k]
      BY <2>4, <3>1
    <3>5. h[m] = g[m] /\ m \in 0 .. n
      <4>1. m \in 0 .. n
        BY <3>1
      <4> HIDE DEF m
      <4> QED
        BY <3>2, <3>3, <3>4, <4>1
    <3> QED
      BY <3>5
  <2>5. 0 .. n \subseteq T
    <3> HIDE DEF T
    <3> QED
      BY <1>1, <2>3, <2>4, Induction
  <2>6. h = [k \in 0 .. n |-> h[k]]
    BY <2>1, Zenon
  <2> QED
    BY <1>5, <2>5, <2>6
<1>9. Pace(c) = (CHOOSE state : Paced(c, state))[n]
  BY DEF Pace, Paced
<1>10. (CHOOSE state : Paced(c, state)) = g
  BY <1>7, <1>8
<1> QED
  BY <1>5, <1>6, <1>7, <1>9, <1>10

\* How many of the first n are of a kind, in a list of kinds.
OfKind(kinds, n, sort) == {i \in 1 .. n : kinds[i] \in sort}

LEMMA CountSteps ==
    ASSUME NEW n \in Nat, NEW kinds, NEW sort
    PROVE  /\ Cardinality(OfKind(kinds, 0, sort)) = 0
           /\ Cardinality(OfKind(kinds, n, sort)) \in Nat
           /\ Cardinality(OfKind(kinds, n + 1, sort))
                 = Cardinality(OfKind(kinds, n, sort))
                      + (IF kinds[n + 1] \in sort THEN 1 ELSE 0)
<1>1. Cardinality(OfKind(kinds, 0, sort)) = 0
  <2>1. OfKind(kinds, 0, sort) = {}
    BY DEF OfKind
  <2> QED
    BY <2>1, FS_EmptySet
<1>2. IsFiniteSet(OfKind(kinds, n, sort)) /\ Cardinality(OfKind(kinds, n, sort)) \in Nat
  <2>1. OfKind(kinds, n, sort) \in SUBSET (1 .. n) /\ IsFiniteSet(1 .. n)
    BY UpToIsFinite DEF OfKind
  <2> QED
    BY <2>1, FS_Subset, FS_CardinalityType
<1>3. n + 1 \notin OfKind(kinds, n, sort)
  BY DEF OfKind
<1>4. CASE kinds[n + 1] \in sort
  <2>1. OfKind(kinds, n + 1, sort) = OfKind(kinds, n, sort) \cup {n + 1}
    BY <1>4 DEF OfKind
  <2>2. Cardinality(OfKind(kinds, n + 1, sort))
           = IF n + 1 \in OfKind(kinds, n, sort) THEN Cardinality(OfKind(kinds, n, sort))
             ELSE Cardinality(OfKind(kinds, n, sort)) + 1
    BY <1>2, <2>1, FS_AddElement
  <2>3. Cardinality(OfKind(kinds, n + 1, sort)) = Cardinality(OfKind(kinds, n, sort)) + 1
    BY <1>3, <2>2
  <2> QED
    BY <1>1, <1>2, <1>4, <2>3
<1>5. CASE kinds[n + 1] \notin sort
  <2>1. OfKind(kinds, n + 1, sort) = OfKind(kinds, n, sort)
    <3>1. ASSUME NEW i \in OfKind(kinds, n + 1, sort) PROVE i \in OfKind(kinds, n, sort)
      <4>1. i \in 1 .. n + 1 /\ kinds[i] \in sort
        BY DEF OfKind
      <4>2. i # n + 1
        BY <1>5, <4>1
      <4> QED
        BY <4>1, <4>2 DEF OfKind
    <3>2. OfKind(kinds, n, sort) \subseteq OfKind(kinds, n + 1, sort)
      BY DEF OfKind
    <3> QED
      BY <3>1, <3>2
  <2> QED
    BY <1>1, <1>2, <1>5, <2>1
<1> QED
  BY <1>4, <1>5

\* Only the first n matter.
LEMMA CountOfFirst ==
    ASSUME NEW n \in Nat, NEW f, NEW g, NEW sort, \A i \in 1 .. n : f[i] = g[i]
    PROVE  OfKind(f, n, sort) = OfKind(g, n, sort)
BY DEF OfKind

\* One more at the end.
LEMMA CountAppended ==
    ASSUME NEW s \in Seq(EndKinds), NEW x \in EndKinds, NEW sort
    PROVE  /\ Cardinality(OfKind(s, Len(s), sort)) \in Nat
           /\ Cardinality(OfKind(Append(s, x), Len(Append(s, x)), sort))
                 = Cardinality(OfKind(s, Len(s), sort)) + (IF x \in sort THEN 1 ELSE 0)
<1> DEFINE n == Len(s)
           t == Append(s, x)
<1>1. /\ n \in Nat /\ Len(t) = n + 1 /\ t[n + 1] = x /\ \A i \in 1 .. n : t[i] = s[i]
  OBVIOUS
<1> HIDE DEF n, t
<1>2. OfKind(t, n, sort) = OfKind(s, n, sort)
  BY <1>1, CountOfFirst
<1>3. /\ Cardinality(OfKind(t, n, sort)) \in Nat
      /\ Cardinality(OfKind(t, n + 1, sort))
            = Cardinality(OfKind(t, n, sort)) + (IF t[n + 1] \in sort THEN 1 ELSE 0)
  BY <1>1, CountSteps
<1> QED
  BY <1>1, <1>2, <1>3 DEF n, t

Transient == {"transient"}
Final == {"answer", "error"}

OutcomeKinds(c) == [i \in DOMAIN c.outcomes |-> c.outcomes[i].kind]

\* Attempts so far keep their distance, and are as many as the ends and the retries say.
Distant(s) ==
    /\ \/ s.starts = << >> /\ s.last = -1
       \/ Len(s.starts) > 0 /\ s.last = s.starts[Len(s.starts)]
    /\ \A i \in 1 .. Len(s.starts) - 1 : s.starts[i + 1] - s.starts[i] >= Interval

Ended(s, sort) == Cardinality(OfKind(s.ends, Len(s.ends), sort))

Met(c, k, sort) == Cardinality(OfKind(OutcomeKinds(c), k, sort))

Accounted(c, k, s) ==
    /\ Ended(s, Transient) * (MaxRetries + 1) + s.attempt <= Met(c, k, Transient)
    /\ Ended(s, Final) = Met(c, k, Final)

LEMMA AttemptsKeepDistance ==
    ASSUME NEW s \in PacerStates, NEW outcome \in ProviderOutcomes, Distant(s)
    PROVE  Distant(Attempt(s, outcome))
<1> DEFINE t == Attempt(s, outcome)
           x == StartOf(s)
           n == Len(s.starts)
<1>1. /\ t.starts = Append(s.starts, x) /\ t.last = x /\ x \in Nat
      /\ s.last >= 0 => x - s.last >= Interval
  BY AttemptMeans
<1>2. s.starts \in Seq(Nat) /\ n \in Nat /\ \A i \in 1 .. n : s.starts[i] \in Nat
  BY DEF PacerStates
<1> HIDE DEF t, x
<1>3. /\ Len(t.starts) = n + 1 /\ t.starts[n + 1] = x
      /\ \A i \in 1 .. n : t.starts[i] = s.starts[i]
  BY <1>1, <1>2
<1>4. ASSUME NEW i \in 1 .. n
      PROVE  t.starts[i + 1] - t.starts[i] >= Interval
  <2>1. CASE i = n
    <3>1. s.last = s.starts[n] /\ s.starts[n] \in Nat
      BY <1>2, <2>1 DEF Distant
    <3> QED
      BY <1>1, <1>3, <2>1, <3>1
  <2>2. CASE i # n
    <3>1. i \in 1 .. n - 1 /\ i + 1 \in 1 .. n
      BY <1>2, <2>2
    <3>2. s.starts[i + 1] - s.starts[i] >= Interval
      BY <3>1 DEF Distant
    <3> QED
      BY <1>3, <3>1, <3>2
  <2> QED
    BY <2>1, <2>2
<1>5. n + 1 > 0 /\ n + 1 - 1 = n
  BY <1>2
<1>6. Len(t.starts) > 0 /\ t.last = t.starts[Len(t.starts)]
  BY <1>1, <1>3, <1>5
<1>7. \A i \in 1 .. Len(t.starts) - 1 : t.starts[i + 1] - t.starts[i] >= Interval
  <2>1. Len(t.starts) - 1 = n
    BY <1>3, <1>5
  <2> HIDE DEF n
  <2> QED
    BY <1>4, <2>1
<1>8. Distant(t)
  BY <1>6, <1>7 DEF Distant
<1> QED
  BY <1>8 DEF t

LEMMA AttemptsAreAccounted ==
    ASSUME NEW c \in PaceCalls, NEW k \in 0 .. Len(c.outcomes) - 1, NEW s \in PacerStates,
           Accounted(c, k, s)
    PROVE  Accounted(c, k + 1, Attempt(s, c.outcomes[k + 1]))
<1> DEFINE outcome == c.outcomes[k + 1]
           t == Attempt(s, outcome)
           kinds == OutcomeKinds(c)
           M == MaxRetries
<1>1. Len(c.outcomes) \in Nat /\ k \in Nat /\ k + 1 \in 1 .. Len(c.outcomes)
      /\ DOMAIN c.outcomes = 1 .. Len(c.outcomes)
  BY PaceCallsMean
<1>2. outcome \in ProviderOutcomes
  BY <1>1, PaceCallsMean
<1>3. kinds[k + 1] = outcome.kind /\ outcome.kind \in EndKinds
  BY <1>1, <1>2 DEF OutcomeKinds, ProviderOutcomes
<1>4. M \in Nat /\ s.attempt \in 0 .. M /\ s.ends \in Seq(EndKinds)
  BY EvaluationAssumption DEF PacerStates
<1> HIDE DEF outcome, kinds
<1>5. /\ t.attempt = (IF IsRetried(s, outcome) THEN s.attempt + 1 ELSE 0)
      /\ t.ends = (IF IsRetried(s, outcome) THEN s.ends ELSE Append(s.ends, outcome.kind))
  BY <1>2, AttemptMeans
<1>6. ASSUME NEW sort
      PROVE  /\ Met(c, k, sort) \in Nat
             /\ Met(c, k + 1, sort)
                   = Met(c, k, sort) + (IF outcome.kind \in sort THEN 1 ELSE 0)
  <2>1. /\ Cardinality(OfKind(kinds, k, sort)) \in Nat
        /\ Cardinality(OfKind(kinds, k + 1, sort))
              = Cardinality(OfKind(kinds, k, sort))
                   + (IF kinds[k + 1] \in sort THEN 1 ELSE 0)
    BY <1>1, CountSteps
  <2> QED
    BY <1>3, <2>1 DEF Met, kinds
<1>7. ASSUME NEW sort
      PROVE  /\ Ended(s, sort) \in Nat
             /\ ~IsRetried(s, outcome) =>
                   Ended(t, sort) = Ended(s, sort) + (IF outcome.kind \in sort THEN 1 ELSE 0)
             /\ IsRetried(s, outcome) => Ended(t, sort) = Ended(s, sort)
  <2> DEFINE old == s.ends
             x == outcome.kind
  <2>1. old \in Seq(EndKinds) /\ x \in EndKinds
    BY <1>3, <1>4
  <2>2. /\ Cardinality(OfKind(old, Len(old), sort)) \in Nat
        /\ Cardinality(OfKind(Append(old, x), Len(Append(old, x)), sort))
              = Cardinality(OfKind(old, Len(old), sort)) + (IF x \in sort THEN 1 ELSE 0)
    <3> HIDE DEF old, x
    <3> QED
      BY <2>1, CountAppended
  <2>3. Ended(s, sort) = Cardinality(OfKind(old, Len(old), sort))
    BY DEF Ended
  <2>4. CASE IsRetried(s, outcome)
    <3>1. t.ends = old
      BY <1>5, <2>4
    <3> HIDE DEF t, old, x
    <3>2. Ended(t, sort) = Cardinality(OfKind(old, Len(old), sort))
      BY <3>1 DEF Ended
    <3> QED
      BY <2>2, <2>3, <2>4, <3>2
  <2>5. CASE ~IsRetried(s, outcome)
    <3>1. t.ends = Append(old, x)
      BY <1>5, <2>5
    <3> HIDE DEF t, old, x
    <3>2. Ended(t, sort) = Cardinality(OfKind(Append(old, x), Len(Append(old, x)), sort))
      BY <3>1 DEF Ended
    <3> QED
      BY <2>2, <2>3, <2>5, <3>2 DEF x
  <2> QED
    BY <2>4, <2>5
<1> DEFINE e == Ended(s, Transient)
           m == Met(c, k, Transient)
           a == s.attempt
<1>8. e * (M + 1) + a <= m /\ Ended(s, Final) = Met(c, k, Final)
  BY DEF Accounted
<1>9. e \in Nat /\ m \in Nat /\ a \in 0 .. M
  BY <1>4, <1>6, <1>7
<1>10. outcome.kind \in Transient <=> outcome.kind \notin Final
  BY <1>3 DEF EndKinds, Transient, Final
<1> HIDE DEF t, e, m, a, M
<1>11. CASE IsRetried(s, outcome)
  <2>1. outcome.kind \in Transient
    BY <1>11 DEF IsRetried, Transient
  <2>2. /\ Ended(t, Transient) = e /\ Met(c, k + 1, Transient) = m + 1 /\ t.attempt = a + 1
        /\ Ended(t, Final) = Ended(s, Final) /\ Met(c, k + 1, Final) = Met(c, k, Final) + 0
    BY <1>5, <1>6, <1>7, <1>10, <1>11, <2>1 DEF e, m, a
  <2>3. e * (M + 1) + (a + 1) <= m + 1
    <3> DEFINE b == e * (M + 1)
    <3>1. b \in Nat
      BY <1>4, <1>9 DEF M
    <3>2. b + a <= m
      BY <1>8
    <3> HIDE DEF b
    <3>3. b + (a + 1) <= m + 1
      BY <1>9, <3>1, <3>2
    <3> QED
      BY <3>3 DEF b
  <2>4. Ended(t, Final) = Met(c, k + 1, Final)
    <3>1. Met(c, k, Final) \in Nat
      BY <1>6
    <3> QED
      BY <1>8, <2>2, <3>1
  <2> QED
    BY <2>2, <2>3, <2>4 DEF Accounted, t, M, outcome
<1>12. CASE ~IsRetried(s, outcome) /\ outcome.kind \in Transient
  <2>1. a = M
    <3>1. ~(s.attempt < MaxRetries)
      BY <1>12 DEF IsRetried, Transient
    <3> QED
      BY <1>4, <3>1 DEF a, M
  <2>2. /\ Ended(t, Transient) = e + 1 /\ Met(c, k + 1, Transient) = m + 1 /\ t.attempt = 0
        /\ Ended(t, Final) = Ended(s, Final) + 0 /\ Met(c, k + 1, Final) = Met(c, k, Final) + 0
    BY <1>5, <1>6, <1>7, <1>10, <1>12 DEF e, m
  <2>3. (e + 1) * (M + 1) + 0 <= m + 1
    <3> DEFINE b == e * (M + 1)
    <3>1. b \in Nat /\ (e + 1) * (M + 1) = b + M + 1
      BY <1>4, <1>9 DEF M
    <3>2. b + a <= m
      BY <1>8
    <3> HIDE DEF b
    <3>3. M \in Nat
      BY <1>4 DEF M
    <3> QED
      BY <1>9, <2>1, <3>1, <3>2, <3>3
  <2>4. Ended(t, Final) = Met(c, k + 1, Final)
    <3>1. Met(c, k, Final) \in Nat
      BY <1>6
    <3> QED
      BY <1>8, <2>2, <3>1
  <2> QED
    BY <2>2, <2>3, <2>4 DEF Accounted, t, M, outcome
<1>13. CASE outcome.kind \notin Transient
  <2>1. ~IsRetried(s, outcome)
    BY <1>13 DEF IsRetried, Transient
  <2>2. /\ Ended(t, Transient) = e + 0 /\ Met(c, k + 1, Transient) = m + 0 /\ t.attempt = 0
        /\ Ended(t, Final) = Ended(s, Final) + 1 /\ Met(c, k + 1, Final) = Met(c, k, Final) + 1
    BY <1>5, <1>6, <1>7, <1>10, <1>13, <2>1 DEF e, m
  <2>3. e * (M + 1) + 0 <= m
    <3> DEFINE b == e * (M + 1)
    <3>1. b \in Nat
      BY <1>4, <1>9 DEF M
    <3>2. b + a <= m
      BY <1>8
    <3> HIDE DEF b
    <3>3. b + 0 <= m
      BY <1>9, <3>1, <3>2
    <3> QED
      BY <3>3 DEF b
  <2>4. Ended(t, Transient) = e /\ Met(c, k + 1, Transient) = m
    BY <1>9, <2>2
  <2>5. Ended(t, Final) = Met(c, k + 1, Final)
    BY <1>8, <2>2
  <2> QED
    BY <2>2, <2>3, <2>4, <2>5 DEF Accounted, t, M, outcome
<1> QED
  BY <1>11, <1>12, <1>13

LEMMA PacedMeans ==
    ASSUME NEW c \in PaceCalls
    PROVE  /\ Pace(c) \in PacerStates /\ Distant(Pace(c))
           /\ Accounted(c, Len(c.outcomes), Pace(c))
<1> DEFINE n == Len(c.outcomes)
<1>1. PICK state \in [0 .. n -> PacerStates] :
         /\ Pace(c) = state[n] /\ state[0] = Unpaced
         /\ \A k \in 1 .. n : state[k] = Attempt(state[k - 1], c.outcomes[k])
  BY PacedExists
<1>2. n \in Nat /\ \A k \in 1 .. n : c.outcomes[k] \in ProviderOutcomes
  BY PaceCallsMean
<1> DEFINE T == {k \in 0 .. n : Distant(state[k]) /\ Accounted(c, k, state[k])}
<1>3. 0 \in T
  <2>1. Distant(Unpaced)
    BY DEF Distant, Unpaced
  <2>2. Accounted(c, 0, Unpaced)
    <3>1. Met(c, 0, Transient) = 0 /\ Met(c, 0, Final) = 0
      <4>1. 0 \in Nat
        OBVIOUS
      <4> QED
        BY <4>1, CountSteps DEF Met
    <3>2. Ended(Unpaced, Transient) = 0 /\ Ended(Unpaced, Final) = 0
      <4>1. Len(Unpaced.ends) = 0 /\ 0 \in Nat
        BY DEF Unpaced
      <4> QED
        BY <4>1, CountSteps DEF Ended
    <3>3. Unpaced.attempt = 0 /\ MaxRetries \in Nat
      BY EvaluationAssumption DEF Unpaced
    <3> QED
      BY <3>1, <3>2, <3>3 DEF Accounted
  <2>3. 0 \in 0 .. n
    BY <1>2
  <2> HIDE DEF n
  <2> QED
    BY <1>1, <2>1, <2>2, <2>3
<1>4. ASSUME NEW k \in 0 .. n - 1, k \in T PROVE k + 1 \in T
  <2> DEFINE m == k + 1
  <2>1. m \in 1 .. n /\ m \in 0 .. n /\ m - 1 = k /\ k \in 0 .. n
    <3> HIDE DEF n
    <3> QED
      BY <1>2
  <2>2. state[k] \in PacerStates /\ c.outcomes[m] \in ProviderOutcomes
    BY <1>1, <1>2, <2>1
  <2>3. state[m] = Attempt(state[k], c.outcomes[m])
    BY <1>1, <2>1
  <2>4. Distant(state[m])
    BY <1>4, <2>2, <2>3, AttemptsKeepDistance
  <2>5. Accounted(c, m, state[m])
    BY <1>4, <2>2, <2>3, AttemptsAreAccounted
  <2> HIDE DEF n
  <2> QED
    BY <2>1, <2>4, <2>5
<1>5. 0 .. n \subseteq T
  <2> HIDE DEF T, n
  <2> QED
    BY <1>2, <1>3, <1>4, Induction
<1>6. n \in 0 .. n
  BY <1>2
<1> HIDE DEF n
<1>7. n \in T /\ state[n] \in PacerStates
  BY <1>1, <1>5, <1>6
<1> QED
  BY <1>1, <1>7 DEF n

LEMMA PacingIsPatient ==
    ASSUME Of("pace") => call \in PaceCalls /\ result = Pace(call)
    PROVE  PacedAndPatient
<1> SUFFICES ASSUME Of("pace"), call \in PaceCalls, result = Pace(call)
             PROVE  PacedAndPatient
  BY DEF PacedAndPatient
<1> DEFINE n == Len(call.outcomes)
           e == Len(result.ends)
           given == {i \in DOMAIN result.ends : result.ends[i] = "transient"}
           final == {i \in DOMAIN result.ends : result.ends[i] # "transient"}
           seen == {i \in DOMAIN call.outcomes : call.outcomes[i].kind = "transient"}
           last == {i \in DOMAIN call.outcomes : call.outcomes[i].kind # "transient"}
<1>1. result \in PacerStates /\ Distant(result) /\ Accounted(call, n, result)
  BY PacedMeans
<1>2. /\ DOMAIN call.outcomes = 1 .. n /\ n \in Nat
      /\ \A i \in 1 .. n : call.outcomes[i] \in ProviderOutcomes
  BY PaceCallsMean
<1>3. /\ DOMAIN result.ends = 1 .. e /\ e \in Nat /\ \A i \in 1 .. e : result.ends[i] \in EndKinds
      /\ result.attempt \in 0 .. MaxRetries /\ MaxRetries \in Nat
  BY <1>1, EvaluationAssumption DEF PacerStates
<1>4. given = OfKind(result.ends, e, Transient) /\ final = OfKind(result.ends, e, Final)
  <2> HIDE DEF e
  <2>1. \A i \in 1 .. e : /\ result.ends[i] \in Transient <=> result.ends[i] = "transient"
                          /\ result.ends[i] \in Final <=> result.ends[i] # "transient"
    BY <1>3 DEF EndKinds, Transient, Final
  <2> QED
    BY <1>3, <2>1 DEF OfKind
<1>5. /\ seen = OfKind(OutcomeKinds(call), n, Transient)
      /\ last = OfKind(OutcomeKinds(call), n, Final)
  <2>1. \A i \in 1 .. n : OutcomeKinds(call)[i] = call.outcomes[i].kind
    BY <1>2 DEF OutcomeKinds
  <2>2. \A i \in 1 .. n : call.outcomes[i].kind \in EndKinds
    BY <1>2 DEF ProviderOutcomes
  <2> HIDE DEF n
  <2>3. \A i \in 1 .. n :
           /\ OutcomeKinds(call)[i] \in Transient <=> call.outcomes[i].kind = "transient"
           /\ OutcomeKinds(call)[i] \in Final <=> call.outcomes[i].kind # "transient"
    BY <2>1, <2>2 DEF EndKinds, Transient, Final
  <2> QED
    BY <1>2, <2>3 DEF OfKind
<1>6. /\ Cardinality(given) * (MaxRetries + 1) + result.attempt <= Cardinality(seen)
      /\ Cardinality(final) = Cardinality(last)
  BY <1>1, <1>4, <1>5 DEF Accounted, Ended, Met
<1>7. Cardinality(given) * (MaxRetries + 1) <= Cardinality(seen)
  <2> DEFINE g == Cardinality(given)
             s == Cardinality(seen)
  <2>1. g \in Nat /\ s \in Nat
    <3> HIDE DEF given, seen, e, n
    <3> QED
      BY <1>2, <1>3, <1>4, <1>5, CountSteps
  <2> HIDE DEF g, s
  <2>2. g * (MaxRetries + 1) \in Nat
    BY <1>3, <2>1
  <2>3. g * (MaxRetries + 1) + result.attempt <= s
    BY <1>6 DEF g, s
  <2>4. g * (MaxRetries + 1) <= s
    BY <1>3, <2>1, <2>2, <2>3
  <2> QED
    BY <2>4 DEF g, s
<1>8. \A i \in 1 .. Len(result.starts) - 1 :
         result.starts[i + 1] - result.starts[i] >= Interval
  BY <1>1 DEF Distant
<1>9. result.attempt <= MaxRetries
  BY <1>3
<1> QED
  BY <1>6, <1>7, <1>8, <1>9 DEF PacedAndPatient

-----------------------------------------------------------------------------
(* The metrics of what was retrieved (resolve_ground_truth,                *)
(* evaluate_gen_query).                                                    *)

LEMMA RanksDivide ==
    /\ Ranks \in Nat \ {0}
    /\ \A r \in 1 .. MaxRetrieved : \E q \in Nat \ {0} : Ranks = r * q
<1> DEFINE f == [r \in 1 .. MaxRetrieved |-> r]
<1>1. MaxRetrieved \in Nat /\ \A i \in 1 .. MaxRetrieved : f[i] \in Nat \ {0} /\ f[i] = i
  BY EvaluationAssumption
<1>2. /\ ProductTo(f, MaxRetrieved) \in Nat \ {0}
      /\ \A i \in 1 .. MaxRetrieved :
            \E q \in Nat \ {0} : ProductTo(f, MaxRetrieved) = f[i] * q
  <2> HIDE DEF f
  <2> QED
    BY <1>1, ProductDivides
<1>3. Ranks = ProductTo(f, MaxRetrieved)
  BY DEF Ranks
<1> HIDE DEF f
<1> QED
  BY <1>1, <1>2, <1>3

\* p is the share of h in r, times R.
Share(p, h, r, R) == p \in Nat /\ h \in 0 .. r /\ r \in Nat \ {0} /\ R \in Nat \ {0} /\ r * p = R * h

LEMMA ShareIsPart ==
    ASSUME NEW p, NEW h, NEW r, NEW R, Share(p, h, r, R)
    PROVE  p <= R /\ (p = R <=> h = r) /\ (p = 0 <=> h = 0)
<1>1. p \in Nat /\ h \in Nat /\ h <= r /\ r \in Nat \ {0} /\ R \in Nat \ {0} /\ r * p = R * h
  BY DEF Share
<1>2. R * h \in Nat /\ R * r \in Nat /\ r * p \in Nat /\ R * r = r * R
  BY <1>1
<1>3. R * h <= R * r
  BY <1>1
<1>4. ~(p > R)
  <2> SUFFICES ASSUME p >= R + 1 PROVE FALSE
    BY <1>1
  <2>1. r * (R + 1) <= r * p
    BY <1>1
  <2>2. r * (R + 1) = r * R + r
    BY <1>1
  <2> QED
    BY <1>1, <1>2, <1>3, <2>1, <2>2
<1>5. ASSUME p = R PROVE h = r
  <2> SUFFICES ASSUME h + 1 <= r PROVE FALSE
    BY <1>1
  <2>1. R * (h + 1) <= R * r
    BY <1>1
  <2>2. R * (h + 1) = R * h + R
    BY <1>1
  <2>3. R * h = R * r
    BY <1>1, <1>2, <1>5
  <2> QED
    BY <1>1, <1>2, <2>1, <2>2, <2>3
<1>6. ASSUME h = r PROVE p = R
  <2> SUFFICES ASSUME p + 1 <= R PROVE FALSE
    BY <1>1, <1>4
  <2>1. r * (p + 1) <= r * R
    BY <1>1
  <2>2. r * (p + 1) = r * p + r
    BY <1>1
  <2>3. r * p = R * r
    BY <1>1, <1>6
  <2> QED
    BY <1>1, <1>2, <2>1, <2>2, <2>3
<1>7. ASSUME p = 0 PROVE h = 0
  <2>1. R * h = 0
    BY <1>1, <1>7
  <2> SUFFICES ASSUME h >= 1 PROVE FALSE
    BY <1>1
  <2>2. R * 1 <= R * h
    BY <1>1
  <2> QED
    BY <1>1, <2>1, <2>2
<1>8. ASSUME h = 0 PROVE p = 0
  <2>1. r * p = 0
    BY <1>1, <1>8
  <2> SUFFICES ASSUME p >= 1 PROVE FALSE
    BY <1>1
  <2>2. r * 1 <= r * p
    BY <1>1
  <2> QED
    BY <1>1, <2>1, <2>2
<1> QED
  BY <1>1, <1>4, <1>5, <1>6, <1>7, <1>8

\* The same hits one rank earlier are worth more.
LEMMA SoonerIsMore ==
    ASSUME NEW p, NEW q, NEW h, NEW r, NEW R, Share(q, h, r, R), Share(p, h, r + 1, R), h > 0
    PROVE  q > p
<1>1. /\ p \in Nat /\ q \in Nat /\ h \in Nat /\ r \in Nat \ {0} /\ R \in Nat \ {0}
      /\ r * q = R * h /\ (r + 1) * p = R * h
  BY DEF Share
<1>2. p # 0
  BY ShareIsPart
<1>3. (r + 1) * p = r * p + p /\ r * p \in Nat
  BY <1>1
<1> SUFFICES ASSUME q <= p PROVE FALSE
  BY <1>1
<1>4. r * q <= r * p
  BY <1>1
<1>5. r * q \in Nat
  BY <1>1
<1> QED
  BY <1>1, <1>2, <1>3, <1>4, <1>5

\* What is retrieved, and what should be.
Measured(s, X) ==
    /\ s \in Seq(Corpus) /\ Len(s) \in 0 .. MaxRetrieved /\ DOMAIN s = 1 .. Len(s)
    /\ X \in SUBSET Corpus

LEMMA HitsAreFew ==
    ASSUME NEW n \in Nat, NEW s, NEW X
    PROVE  /\ IsFiniteSet(OfKind(s, n, X)) /\ OfKind(s, n, X) \in SUBSET (1 .. n)
           /\ HitsUpTo(s, X, n) = Cardinality(OfKind(s, n, X))
           /\ HitsUpTo(s, X, n) \in 0 .. n
<1>1. OfKind(s, n, X) \in SUBSET (1 .. n) /\ IsFiniteSet(1 .. n) /\ Cardinality(1 .. n) = n
  BY UpToIsFinite DEF OfKind
<1>2. /\ IsFiniteSet(OfKind(s, n, X)) /\ Cardinality(OfKind(s, n, X)) <= n
      /\ Cardinality(OfKind(s, n, X)) \in Nat
  BY <1>1, FS_Subset, FS_CardinalityType
<1>3. HitsUpTo(s, X, n) = Cardinality(OfKind(s, n, X))
  BY DEF HitsUpTo, OfKind
<1> QED
  BY <1>1, <1>2, <1>3

LEMMA HitsStep ==
    ASSUME NEW n \in Nat, NEW s, NEW X
    PROVE  /\ HitsUpTo(s, X, 0) = 0
           /\ HitsUpTo(s, X, n + 1) = HitsUpTo(s, X, n) + (IF s[n + 1] \in X THEN 1 ELSE 0)
<1>1. \A m \in Nat : HitsUpTo(s, X, m) = Cardinality(OfKind(s, m, X))
  BY HitsAreFew
<1>2. 0 \in Nat /\ n + 1 \in Nat
  OBVIOUS
<1>3. /\ Cardinality(OfKind(s, 0, X)) = 0
      /\ Cardinality(OfKind(s, n + 1, X))
            = Cardinality(OfKind(s, n, X)) + (IF s[n + 1] \in X THEN 1 ELSE 0)
  BY CountSteps
<1> QED
  BY <1>1, <1>2, <1>3

LEMMA PrecisionIsShare ==
    ASSUME NEW s, NEW X, NEW r \in 1 .. MaxRetrieved
    PROVE  Share(PrecisionAt(s, X, r), HitsUpTo(s, X, r), r, Ranks)
<1> DEFINE h == HitsUpTo(s, X, r)
           R == Ranks
           p == PrecisionAt(s, X, r)
<1>1. r \in Nat \ {0} /\ r \in Nat
  BY EvaluationAssumption
<1>2. h \in 0 .. r
  BY <1>1, HitsAreFew
<1>3. PICK q \in Nat \ {0} : R = r * q
  BY RanksDivide
<1>4. R \in Nat \ {0}
  BY RanksDivide
<1>5. p = (R * h) \div r
  BY DEF PrecisionAt
<1> HIDE DEF h, R, p
<1>6. h \in Nat /\ R * h = r * (q * h) /\ q * h \in Nat
  <2>1. h \in Nat
    BY <1>1, <1>2
  <2>2. (r * q) * h = r * (q * h) /\ q * h \in Nat
    BY <1>1, <2>1
  <2> QED
    BY <1>3, <2>1, <2>2
<1>7. p = q * h
  <2> DEFINE x == q * h
  <2>1. x \in Nat /\ p = (r * x) \div r
    BY <1>5, <1>6
  <2> HIDE DEF x
  <2>2. p = x
    BY <1>1, <2>1, ExactQuotient
  <2> QED
    BY <2>2 DEF x
<1>8. r * p = R * h /\ p \in Nat
  BY <1>6, <1>7
<1> QED
  BY <1>1, <1>2, <1>4, <1>8 DEF Share, h, R, p

Terms(s, X) == [r \in DOMAIN s |-> IF s[r] \in X THEN PrecisionAt(s, X, r) ELSE 0]

LEMMA TermsMean ==
    ASSUME NEW s, NEW X, Measured(s, X)
    PROVE  /\ Len(s) \in Nat /\ ContextPrecision(s, X) = SumTo(Terms(s, X), Len(s))
           /\ \A r \in 1 .. Len(s) :
                 /\ r \in 1 .. MaxRetrieved /\ r \in Nat /\ Terms(s, X)[r] \in Nat
                 /\ Terms(s, X)[r] = (IF s[r] \in X THEN PrecisionAt(s, X, r) ELSE 0)
<1>1. /\ Len(s) \in Nat /\ MaxRetrieved \in Nat /\ Len(s) <= MaxRetrieved
      /\ DOMAIN s = 1 .. Len(s)
  BY EvaluationAssumption DEF Measured
<1>2. ASSUME NEW r \in 1 .. Len(s)
      PROVE  /\ r \in 1 .. MaxRetrieved /\ r \in Nat /\ Terms(s, X)[r] \in Nat
             /\ Terms(s, X)[r] = (IF s[r] \in X THEN PrecisionAt(s, X, r) ELSE 0)
  <2>1. r \in 1 .. MaxRetrieved /\ r \in Nat
    BY <1>1
  <2>2. PrecisionAt(s, X, r) \in Nat
    BY <2>1, PrecisionIsShare DEF Share
  <2> QED
    BY <1>1, <2>1, <2>2 DEF Terms
<1>3. ContextPrecision(s, X) = SumTo(Terms(s, X), Len(s))
  BY DEF ContextPrecision, Terms
<1> QED
  BY <1>1, <1>2, <1>3

\* The sum up to m, against the hits up to m.
PreciseUpTo(s, X, m) ==
    LET total == SumTo(Terms(s, X), m)
        hits == HitsUpTo(s, X, m)
    IN  /\ total \in Nat /\ total <= Ranks * hits
        /\ total = Ranks * hits <=> \A r \in 1 .. m : s[r] \in X => HitsUpTo(s, X, r) = r
        /\ total = 0 <=> hits = 0

LEMMA PrecisionUpTo ==
    ASSUME NEW s, NEW X, Measured(s, X)
    PROVE  PreciseUpTo(s, X, Len(s))
<1> DEFINE n == Len(s)
           f == Terms(s, X)
           H(r) == HitsUpTo(s, X, r)
           R == Ranks
           T == {m \in 0 .. n : PreciseUpTo(s, X, m)}
<1>1. n \in Nat /\ \A i \in 1 .. n : f[i] \in Nat
  BY TermsMean
<1>2. R \in Nat \ {0}
  BY RanksDivide
<1>3. ASSUME NEW m \in 0 .. n
      PROVE  /\ SumTo(f, 0) = 0
             /\ m > 0 => SumTo(f, m) = SumTo(f, m - 1) + f[m]
  <2> HIDE DEF f, n
  <2>1. m \in Nat /\ \A i \in 1 .. m : f[i] \in Int
    BY <1>1
  <2> QED
    BY <2>1, SumSteps
<1>4. 0 \in T
  <2>1. SumTo(f, 0) = 0
    <3>1. 0 \in 0 .. n
      BY <1>1
    <3> HIDE DEF n, f
    <3> QED
      BY <1>3, <3>1
  <2>2. H(0) = 0
    <3>1. 0 \in Nat
      OBVIOUS
    <3> QED
      BY <3>1, HitsStep
  <2>3. R * 0 = 0
    BY <1>2
  <2> HIDE DEF R, n
  <2> QED
    BY <1>1, <1>2, <2>1, <2>2, <2>3 DEF PreciseUpTo, R
<1>5. ASSUME NEW m \in 0 .. n - 1, m \in T PROVE m + 1 \in T
  <2> DEFINE k == m + 1
             x == SumTo(f, m)
             y == SumTo(f, k)
             h == H(m)
             All(l) == \A r \in 1 .. l : s[r] \in X => H(r) = r
  <2>1. m \in Nat /\ k \in 1 .. n /\ k \in 0 .. n /\ k - 1 = m /\ k > 0 /\ k \in Nat /\ m \in 0 .. n
    <3> HIDE DEF n
    <3> QED
      BY <1>1
  <2>2. y = x + f[k]
    <3> HIDE DEF f, n
    <3> QED
      BY <1>3, <2>1
  <2>3. /\ x \in Nat /\ x <= R * h /\ (x = R * h <=> All(m)) /\ (x = 0 <=> h = 0)
    BY <1>5 DEF PreciseUpTo
  <2>4. h \in 0 .. m /\ H(k) \in 0 .. k
    <3> HIDE DEF k
    <3> QED
      BY <2>1, HitsAreFew
  <2>5. H(k) = h + (IF s[k] \in X THEN 1 ELSE 0)
    BY <2>1, HitsStep
  <2>6. All(k) <=> All(m) /\ (s[k] \in X => H(k) = k)
    <3>1. \A r \in 1 .. k : r \in 1 .. m \/ r = k
      BY <2>1
    <3>2. \A r \in 1 .. m : r \in 1 .. k
      BY <2>1
    <3>3. k \in 1 .. k
      BY <2>1
    <3> HIDE DEF k, H
    <3> QED
      BY <3>1, <3>2, <3>3
  <2>7. f[k] = IF s[k] \in X THEN PrecisionAt(s, X, k) ELSE 0
    BY <2>1, TermsMean
  <2>8. CASE s[k] \notin X
    <3>1. y = x /\ H(k) = h
      <4>1. f[k] = 0 /\ H(k) = h + 0
        BY <2>5, <2>7, <2>8
      <4> HIDE DEF x, y, f, k, H, h
      <4> QED
        BY <2>1, <2>2, <2>3, <2>4, <4>1
    <3>2. All(k) <=> All(m)
      BY <2>6, <2>8
    <3> HIDE DEF x, All, R, n
    <3>3. PreciseUpTo(s, X, k)
      <4>1. y \in Nat /\ y <= R * H(k) /\ (y = R * H(k) <=> All(k)) /\ (y = 0 <=> H(k) = 0)
        <5> HIDE DEF y, H, h
        <5> QED
          BY <2>3, <3>1, <3>2
      <4> QED
        BY <4>1 DEF PreciseUpTo, All, R
    <3> QED
      BY <2>1, <3>3
  <2>9. CASE s[k] \in X
    <3> DEFINE p == PrecisionAt(s, X, k)
    <3>1. y = x + p /\ H(k) = h + 1
      <4>1. f[k] = p /\ H(k) = h + 1
        BY <2>5, <2>7, <2>9
      <4> HIDE DEF x, y, f, k, H, h, p
      <4> QED
        BY <2>2, <4>1
    <3>2. Share(p, H(k), k, R)
      <4>1. k \in 1 .. MaxRetrieved
        BY <2>1, TermsMean
      <4> HIDE DEF k
      <4> QED
        BY <4>1, PrecisionIsShare
    <3>3. p \in Nat /\ p <= R /\ (p = R <=> H(k) = k) /\ (p = 0 <=> H(k) = 0)
      <4> HIDE DEF p, k, R, H
      <4> QED
        BY <3>2, ShareIsPart DEF Share
    <3>4. All(k) <=> All(m) /\ H(k) = k
      BY <2>6, <2>9
    <3> DEFINE Ro == R * h
    <3>5. Ro \in Nat /\ R * (h + 1) = Ro + R
      <4>1. h \in Nat
        BY <2>1, <2>4
      <4> HIDE DEF h, R
      <4> QED
        BY <1>2, <4>1
    <3>6. h \in Nat
      BY <2>1, <2>4
    <3>7. x \in Nat /\ x <= Ro /\ (x = Ro <=> All(m))
      BY <2>3
    <3>8. R \in Nat
      BY <1>2
    <3> HIDE DEF x, y, All, R, n, p, Ro, h
    <3>9. /\ y \in Nat /\ y <= Ro + R /\ (y = Ro + R <=> x = Ro /\ p = R)
      BY <3>1, <3>3, <3>5, <3>7, <3>8
    <3>10. y # 0 /\ H(k) # 0
      <4>1. H(k) # 0
        <5> HIDE DEF H
        <5> QED
          BY <3>1, <3>6
      <4>2. p # 0
        BY <3>3, <4>1
      <4> HIDE DEF H
      <4> QED
        BY <3>1, <3>3, <3>7, <4>1, <4>2
    <3>11. R * H(k) = Ro + R
      <4> HIDE DEF H
      <4> QED
        BY <3>1, <3>5
    <3>12. PreciseUpTo(s, X, k)
      <4>1. y \in Nat /\ y <= R * H(k) /\ (y = R * H(k) <=> All(k)) /\ (y = 0 <=> H(k) = 0)
        <5> HIDE DEF H
        <5> QED
          BY <3>3, <3>4, <3>7, <3>9, <3>10, <3>11
      <4> QED
        BY <4>1 DEF PreciseUpTo, All, R, y
    <3> QED
      BY <2>1, <3>12
  <2> QED
    BY <2>8, <2>9
<1>6. 0 .. n \subseteq T
  <2> HIDE DEF T, n
  <2> QED
    BY <1>1, <1>4, <1>5, Induction
<1>7. n \in 0 .. n
  BY <1>1
<1> HIDE DEF n
<1> QED
  BY <1>6, <1>7 DEF n

\* All hits count for their rank exactly when all of them are ahead.
LEMMA HitsAreAhead ==
    ASSUME NEW n \in Nat, NEW s, NEW X
    PROVE  (\A r \in 1 .. n : s[r] \in X => HitsUpTo(s, X, r) = r)
              <=> \A r \in 1 .. HitsUpTo(s, X, n) : s[r] \in X
<1> DEFINE Q == OfKind(s, n, X)
           m == HitsUpTo(s, X, n)
<1>1. IsFiniteSet(Q) /\ Q \in SUBSET (1 .. n) /\ m = Cardinality(Q) /\ m \in 0 .. n
  BY HitsAreFew
<1>2. m \in Nat /\ IsFiniteSet(1 .. m) /\ Cardinality(1 .. m) = m
  <2>1. m \in Nat
    <3> HIDE DEF m
    <3> QED
      BY <1>1
  <2> HIDE DEF m
  <2> QED
    BY <2>1, UpToIsFinite
<1>3. ASSUME \A r \in 1 .. m : s[r] \in X, NEW r \in 1 .. n, s[r] \in X
      PROVE  HitsUpTo(s, X, r) = r
  <2>1. 1 .. m \in SUBSET Q
    <3> HIDE DEF m
    <3>1. \A i \in 1 .. m : i \in 1 .. n
      BY <1>1, <1>2
    <3> QED
      BY <1>3, <3>1 DEF OfKind
  <2>2. 1 .. m = Q
    <3> HIDE DEF m, Q
    <3> QED
      BY <1>1, <1>2, <2>1, FS_Subset
  <2>3. r \in 1 .. m
    <3>1. r \in Q
      BY <1>3 DEF OfKind
    <3> HIDE DEF m, Q
    <3> QED
      BY <2>2, <3>1
  <2>4. r \in Nat /\ \A i \in 1 .. r : i \in 1 .. m
    <3> HIDE DEF m
    <3> QED
      BY <1>2, <2>3
  <2>5. OfKind(s, r, X) = 1 .. r
    <3> HIDE DEF m
    <3> QED
      BY <1>3, <2>4 DEF OfKind
  <2> QED
    BY <2>4, <2>5, HitsAreFew, UpToIsFinite
<1>4. ASSUME \A r \in 1 .. n : s[r] \in X => HitsUpTo(s, X, r) = r, NEW r \in 1 .. m
      PROVE  s[r] \in X
  <2>1. Q # {} /\ Q \in SUBSET Int
    <3> SUFFICES ASSUME Q = {} PROVE FALSE
      <4> HIDE DEF Q
      <4> QED
        BY <1>1
    <3>1. m = 0
      <4> HIDE DEF Q, m
      <4> QED
        BY <1>1, FS_EmptySet
    <3> HIDE DEF m
    <3> QED
      BY <1>4, <3>1
  <2>2. PICK g \in Q : \A y \in Q : y <= g
    <3> HIDE DEF Q
    <3> QED
      BY <1>1, <2>1, GreatestElement
  <2>3. g \in 1 .. n /\ s[g] \in X /\ g \in Nat
    BY <2>2 DEF OfKind
  <2>4. HitsUpTo(s, X, g) = g
    BY <1>4, <2>3
  <2>5. OfKind(s, g, X) = Q
    <3>1. \A y \in Q : y \in 1 .. g
      <4>1. \A y \in Q : y \in 1 .. n
        BY <1>1
      <4> HIDE DEF Q
      <4> QED
        BY <2>2, <2>3, <4>1
    <3>2. \A y \in 1 .. g : y \in 1 .. n
      BY <2>3
    <3> QED
      BY <3>1, <3>2 DEF OfKind
  <2>6. Cardinality(Q) = g /\ Q \in SUBSET (1 .. g)
    <3>1. HitsUpTo(s, X, g) = Cardinality(OfKind(s, g, X)) /\ OfKind(s, g, X) \in SUBSET (1 .. g)
      BY <2>3, HitsAreFew
    <3> HIDE DEF Q
    <3> QED
      BY <2>4, <2>5, <3>1
  <2>7. Q = 1 .. g /\ m = g
    <3>1. IsFiniteSet(1 .. g) /\ Cardinality(1 .. g) = g
      BY <2>3, UpToIsFinite
    <3> HIDE DEF Q, m
    <3> QED
      BY <1>1, <2>6, <3>1, FS_Subset
  <2>8. r \in Q
    <3> HIDE DEF Q, m
    <3> QED
      BY <1>4, <2>7
  <2> QED
    BY <2>8 DEF OfKind
<1> QED
  BY <1>3, <1>4

\* With every chunk retrieved once, the hits are the relevant chunks that were retrieved.
LEMMA RecallCountsHits ==
    ASSUME NEW s, NEW X, Measured(s, X), EachOnce(s)
    PROVE  /\ IsFiniteSet(Relevant(s, X))
           /\ Cardinality(Relevant(s, X)) = HitsUpTo(s, X, Len(s))
<1> DEFINE n == Len(s)
           Q == OfKind(s, n, X)
           S == Relevant(s, X)
           f == [q \in Q |-> s[q]]
<1>1. n \in Nat /\ DOMAIN s = 1 .. n
  BY DEF Measured
<1>2. IsFiniteSet(Q) /\ Q \in SUBSET (1 .. n) /\ HitsUpTo(s, X, n) = Cardinality(Q)
  BY <1>1, HitsAreFew
<1>3. \A q \in Q : s[q] \in S
  BY <1>1 DEF OfKind, Relevant, ToSet
<1>4. ASSUME NEW x \in S PROVE \E q \in Q : s[q] = x
  BY <1>1 DEF OfKind, Relevant, ToSet
<1>5. \A p, q \in Q : s[p] = s[q] => p = q
  BY <1>1, <1>2 DEF EachOnce
<1> HIDE DEF Q, S, n
<1>6. f \in [Q -> S] /\ \A q \in Q : f[q] = s[q]
  BY <1>3
<1> HIDE DEF f
<1>7. f \in Surjection(Q, S) /\ f \in Injection(Q, S)
  BY <1>4, <1>5, <1>6 DEF Surjection, Injection, IsInjective
<1>8. IsFiniteSet(S) /\ Cardinality(S) = Cardinality(Q)
  BY <1>2, <1>7, FS_Surjection
<1> QED
  BY <1>2, <1>8 DEF S, n

-----------------------------------------------------------------------------
\* A relevant chunk changes places with an irrelevant one before it.
Sooner(s, X, i) == i \in 1 .. Len(s) - 1 /\ s[i] \notin X /\ s[i + 1] \in X

LEMMA SwappedMeans ==
    ASSUME NEW s, NEW X, Measured(s, X), NEW i, Sooner(s, X, i)
    PROVE  /\ Measured(Swapped(s, i), X) /\ Len(Swapped(s, i)) = Len(s)
           /\ Swapped(s, i)[i] = s[i + 1] /\ Swapped(s, i)[i + 1] = s[i]
           /\ \A r \in 1 .. Len(s) : r \notin {i, i + 1} => Swapped(s, i)[r] = s[r]
<1> DEFINE n == Len(s)
           t == Swapped(s, i)
<1>1. n \in Nat /\ DOMAIN s = 1 .. n /\ s \in Seq(Corpus) /\ n \in 0 .. MaxRetrieved
      /\ X \in SUBSET Corpus
  BY DEF Measured
<1>2. i \in 1 .. n /\ i + 1 \in 1 .. n /\ i # i + 1
  <2>1. i \in 1 .. n - 1
    BY DEF Sooner
  <2> HIDE DEF n
  <2> QED
    BY <1>1, <2>1
<1>3. s \in [1 .. n -> Corpus]
  BY <1>1
<1>4. s[i] \in Corpus /\ s[i + 1] \in Corpus
  <2> HIDE DEF n
  <2> QED
    BY <1>2, <1>3
<1>5. /\ t \in [1 .. n -> Corpus] /\ t[i] = s[i + 1] /\ t[i + 1] = s[i]
      /\ \A r \in 1 .. n : r \notin {i, i + 1} => t[r] = s[r]
  <2> HIDE DEF n
  <2> QED
    BY <1>2, <1>3, <1>4 DEF Swapped
<1> HIDE DEF n, t
<1>6. t \in Seq(Corpus) /\ Len(t) = n /\ DOMAIN t = 1 .. n
  BY <1>1, <1>5
<1>7. Measured(t, X)
  BY <1>1, <1>6 DEF Measured
<1> QED
  BY <1>5, <1>6, <1>7 DEF n, t

LEMMA SwappedHits ==
    ASSUME NEW s, NEW X, Measured(s, X), NEW i, Sooner(s, X, i)
    PROVE  /\ \A r \in 1 .. Len(s) :
                 r # i => HitsUpTo(Swapped(s, i), X, r) = HitsUpTo(s, X, r)
           /\ HitsUpTo(Swapped(s, i), X, i) = HitsUpTo(s, X, i + 1)
           /\ HitsUpTo(s, X, i + 1) > 0
<1> DEFINE n == Len(s)
           t == Swapped(s, i)
           H(r) == HitsUpTo(s, X, r)
           G(r) == HitsUpTo(t, X, r)
           T == {m \in 0 .. n : (m # i => G(m) = H(m)) /\ (m = i => G(m) = H(m) + 1)}
<1>1. n \in Nat
  BY DEF Measured
<1>2. /\ t[i] = s[i + 1] /\ t[i + 1] = s[i]
      /\ \A r \in 1 .. n : r \notin {i, i + 1} => t[r] = s[r]
  BY SwappedMeans
<1>3. s[i] \notin X /\ s[i + 1] \in X /\ i \in 1 .. n - 1
  BY DEF Sooner
<1>4. i \in Nat /\ i \in 1 .. n /\ i + 1 \in 1 .. n /\ i > 0
  <2> HIDE DEF n
  <2> QED
    BY <1>1, <1>3
<1>5. ASSUME NEW m \in Nat
      PROVE  /\ H(m) \in Nat /\ G(m) \in Nat /\ H(0) = 0 /\ G(0) = 0
             /\ H(m + 1) = H(m) + (IF s[m + 1] \in X THEN 1 ELSE 0)
             /\ G(m + 1) = G(m) + (IF t[m + 1] \in X THEN 1 ELSE 0)
  <2> HIDE DEF t
  <2>1. HitsUpTo(s, X, m) \in 0 .. m /\ HitsUpTo(t, X, m) \in 0 .. m
    BY HitsAreFew
  <2>2. /\ HitsUpTo(s, X, 0) = 0
        /\ HitsUpTo(s, X, m + 1) = HitsUpTo(s, X, m) + (IF s[m + 1] \in X THEN 1 ELSE 0)
    BY HitsStep
  <2>3. /\ HitsUpTo(t, X, 0) = 0
        /\ HitsUpTo(t, X, m + 1) = HitsUpTo(t, X, m) + (IF t[m + 1] \in X THEN 1 ELSE 0)
    BY HitsStep
  <2> QED
    BY <2>1, <2>2, <2>3
<1> HIDE DEF n, t, H, G
<1>6. 0 \in T
  <2>1. 0 \in Nat /\ 0 \in 0 .. n /\ 0 # i
    BY <1>1, <1>4
  <2> QED
    BY <1>5, <2>1
<1>7. ASSUME NEW m \in 0 .. n - 1, m \in T PROVE m + 1 \in T
  <2>1. m \in Nat /\ m + 1 \in 1 .. n /\ m + 1 \in 0 .. n
    BY <1>1
  <2>2. /\ H(m) \in Nat /\ G(m) \in Nat
        /\ H(m + 1) = H(m) + (IF s[m + 1] \in X THEN 1 ELSE 0)
        /\ G(m + 1) = G(m) + (IF t[m + 1] \in X THEN 1 ELSE 0)
    BY <1>5, <2>1
  <2>3. CASE m + 1 = i
    <3>1. m # i /\ G(m) = H(m)
      BY <1>4, <1>7, <2>1, <2>3
    <3>2. H(i) = H(m) + 0 /\ G(i) = G(m) + 1
      BY <1>2, <1>3, <2>2, <2>3
    <3>3. G(i) = H(i) + 1
      BY <2>2, <3>1, <3>2
    <3> QED
      BY <2>1, <2>3, <3>3
  <2>4. CASE m = i
    <3>1. G(m) = H(m) + 1
      BY <1>7, <2>4
    <3>2. H(i + 1) = H(m) + 1 /\ G(i + 1) = G(m) + 0
      BY <1>2, <1>3, <2>2, <2>4
    <3>3. G(m + 1) = H(m + 1) /\ m + 1 # i
      BY <2>1, <2>2, <2>4, <3>1, <3>2
    <3> QED
      BY <2>1, <3>3
  <2>5. CASE m + 1 # i /\ m # i
    <3>1. m + 1 \notin {i, i + 1}
      BY <1>4, <2>1, <2>5
    <3>2. t[m + 1] = s[m + 1] /\ G(m) = H(m)
      BY <1>2, <1>7, <2>1, <2>5, <3>1
    <3>3. G(m + 1) = H(m + 1)
      BY <2>2, <3>2
    <3> QED
      BY <2>1, <2>5, <3>3
  <2> QED
    BY <2>3, <2>4, <2>5
<1>8. 0 .. n \subseteq T
  <2> HIDE DEF T
  <2> QED
    BY <1>1, <1>6, <1>7, Induction
<1>9. \A r \in 1 .. n : r \in 0 .. n
  BY <1>1
<1>10. \A r \in 1 .. n : r # i => G(r) = H(r)
  BY <1>8, <1>9
<1>11. G(i) = H(i) + 1
  BY <1>4, <1>8, <1>9
<1>12. H(i + 1) = H(i) + 1 /\ H(i) \in Nat
  BY <1>3, <1>4, <1>5
<1>13. G(i) = H(i + 1) /\ H(i + 1) > 0
  BY <1>11, <1>12
<1> QED
  BY <1>10, <1>13 DEF n, t, H, G

\* Two lists of numbers that differ in two neighbours only.
LEMMA NeighboursDecide ==
    ASSUME NEW n \in Nat, NEW f, NEW g, \A r \in 1 .. n : f[r] \in Int /\ g[r] \in Int,
           NEW i \in 1 .. n - 1, \A r \in 1 .. n : r \notin {i, i + 1} => g[r] = f[r],
           g[i] + g[i + 1] > f[i] + f[i + 1]
    PROVE  SumTo(g, n) > SumTo(f, n)
<1> DEFINE T == {m \in 0 .. n : /\ m < i => SumTo(g, m) = SumTo(f, m)
                                /\ m = i => SumTo(g, m) = SumTo(f, m) + g[i] - f[i]
                                /\ m > i => SumTo(g, m) > SumTo(f, m)}
<1>1. ASSUME NEW m \in 0 .. n
      PROVE  /\ SumTo(f, 0) = 0 /\ SumTo(g, 0) = 0 /\ SumTo(f, m) \in Int /\ SumTo(g, m) \in Int
             /\ m > 0 => /\ SumTo(f, m) = SumTo(f, m - 1) + f[m]
                         /\ SumTo(g, m) = SumTo(g, m - 1) + g[m]
  <2>1. m \in Nat /\ \A r \in 1 .. m : f[r] \in Int /\ g[r] \in Int
    OBVIOUS
  <2> QED
    BY <2>1, SumSteps
<1>2. i \in Nat /\ i > 0 /\ i \in 1 .. n /\ i + 1 \in 1 .. n
  OBVIOUS
<1>3. 0 \in T
  <2>1. 0 \in 0 .. n
    OBVIOUS
  <2> QED
    BY <1>1, <1>2, <2>1
<1>4. ASSUME NEW m \in 0 .. n - 1, m \in T PROVE m + 1 \in T
  <2> DEFINE k == m + 1
             x == SumTo(f, m)
             y == SumTo(g, m)
  <2>1. k \in 0 .. n /\ k > 0 /\ k - 1 = m /\ m \in 0 .. n /\ k \in 1 .. n /\ m \in Nat
    OBVIOUS
  <2>2. /\ SumTo(f, k) = x + f[k] /\ SumTo(g, k) = y + g[k] /\ x \in Int /\ y \in Int
    BY <1>1, <2>1
  <2>3. f[k] \in Int /\ g[k] \in Int /\ f[i] \in Int /\ g[i] \in Int
    BY <1>2, <2>1
  <2>4. /\ m < i => y = x
        /\ m = i => y = x + g[i] - f[i]
        /\ m > i => y > x
    BY <1>4
  <2>5. CASE k < i
    <3>1. y = x /\ g[k] = f[k]
      BY <1>2, <2>1, <2>4, <2>5
    <3> HIDE DEF x, y
    <3> QED
      BY <1>2, <2>1, <2>2, <2>5, <3>1
  <2>6. CASE k = i
    <3>1. y = x
      BY <1>2, <2>1, <2>4, <2>6
    <3>2. SumTo(g, i) = SumTo(f, i) + g[i] - f[i]
      <4> HIDE DEF x, y
      <4> QED
        BY <2>2, <2>3, <2>6, <3>1
    <3> QED
      BY <1>2, <2>1, <2>6, <3>2
  <2>7. CASE m = i
    <3>1. y = x + g[i] - f[i] /\ k = i + 1
      BY <2>4, <2>7
    <3>2. SumTo(g, k) > SumTo(f, k)
      <4>1. g[i] + g[k] > f[i] + f[k]
        BY <3>1
      <4> HIDE DEF x, y
      <4>2. y + g[k] > x + f[k]
        BY <2>2, <2>3, <3>1, <4>1
      <4> QED
        BY <2>2, <4>2
    <3> QED
      BY <1>2, <2>1, <3>1, <3>2
  <2>8. CASE m > i
    <3>1. y > x /\ g[k] = f[k]
      BY <1>2, <2>1, <2>4, <2>8
    <3>2. SumTo(g, k) > SumTo(f, k)
      <4> HIDE DEF x, y
      <4> QED
        BY <2>2, <2>3, <3>1
    <3> QED
      BY <1>2, <2>1, <2>8, <3>2
  <2> QED
    BY <1>2, <2>1, <2>5, <2>6, <2>7, <2>8
<1>5. 0 .. n \subseteq T
  <2> HIDE DEF T
  <2> QED
    BY <1>3, <1>4, Induction
<1>6. n \in 0 .. n /\ n > i
  BY <1>2
<1> QED
  BY <1>5, <1>6

LEMMA SoonerIsBetter ==
    ASSUME NEW s, NEW X, Measured(s, X), NEW i, Sooner(s, X, i)
    PROVE  ContextPrecision(Swapped(s, i), X) > ContextPrecision(s, X)
<1> DEFINE n == Len(s)
           t == Swapped(s, i)
           f == Terms(s, X)
           g == Terms(t, X)
           j == i + 1
<1>1. /\ Measured(t, X) /\ Len(t) = n /\ t[i] = s[j] /\ t[j] = s[i]
      /\ \A r \in 1 .. n : r \notin {i, j} => t[r] = s[r]
  BY SwappedMeans
<1>2. /\ n \in Nat /\ ContextPrecision(s, X) = SumTo(f, n)
      /\ \A r \in 1 .. n : /\ r \in 1 .. MaxRetrieved /\ r \in Nat /\ f[r] \in Nat
                           /\ f[r] = (IF s[r] \in X THEN PrecisionAt(s, X, r) ELSE 0)
  BY TermsMean
<1>3. /\ ContextPrecision(t, X) = SumTo(g, n)
      /\ \A r \in 1 .. n : g[r] \in Nat /\ g[r] = (IF t[r] \in X THEN PrecisionAt(t, X, r) ELSE 0)
  <2> HIDE DEF t, n
  <2> QED
    BY <1>1, TermsMean
<1>4. s[i] \notin X /\ s[j] \in X /\ i \in 1 .. n - 1
  BY DEF Sooner
<1>5. i \in 1 .. n /\ j \in 1 .. n /\ i \in Nat /\ i \in 1 .. MaxRetrieved /\ j \in 1 .. MaxRetrieved
  <2>1. i \in 1 .. n /\ j \in 1 .. n /\ i \in Nat
    <3> HIDE DEF n
    <3> QED
      BY <1>2, <1>4
  <2> QED
    BY <1>2, <2>1
<1>6. /\ \A r \in 1 .. n : r # i => HitsUpTo(t, X, r) = HitsUpTo(s, X, r)
      /\ HitsUpTo(t, X, i) = HitsUpTo(s, X, j)
      /\ HitsUpTo(s, X, j) > 0
  BY SwappedHits
<1> DEFINE h == HitsUpTo(s, X, j)
           p == PrecisionAt(s, X, j)
           q == PrecisionAt(t, X, i)
<1>7. Share(p, h, i + 1, Ranks) /\ Share(q, h, i, Ranks)
  <2>1. Share(PrecisionAt(s, X, j), HitsUpTo(s, X, j), j, Ranks)
    <3> HIDE DEF j
    <3> QED
      BY <1>5, PrecisionIsShare
  <2>2. Share(PrecisionAt(t, X, i), HitsUpTo(t, X, i), i, Ranks)
    <3> HIDE DEF t
    <3> QED
      BY <1>5, PrecisionIsShare
  <2> QED
    BY <1>6, <2>1, <2>2
<1>8. q > p
  <2> HIDE DEF h, p, q
  <2>1. h > 0
    BY <1>6 DEF h
  <2> QED
    BY <1>7, <2>1, SoonerIsMore
<1>9. f[i] = 0 /\ f[j] = p /\ g[i] = q /\ g[j] = 0
  <2> HIDE DEF t, f, g, n
  <2> QED
    BY <1>1, <1>2, <1>3, <1>4, <1>5
<1>10. g[i] + g[i + 1] > f[i] + f[i + 1]
  <2>1. p \in Nat /\ q \in Nat
    BY <1>7 DEF Share
  <2> HIDE DEF f, g, p, q
  <2> QED
    BY <1>8, <1>9, <2>1
<1>11. \A r \in 1 .. n : r \notin {i, i + 1} => g[r] = f[r]
  <2> SUFFICES ASSUME NEW r \in 1 .. n, r \notin {i, i + 1} PROVE g[r] = f[r]
    OBVIOUS
  <2>1. t[r] = s[r] /\ HitsUpTo(t, X, r) = HitsUpTo(s, X, r)
    BY <1>1, <1>6
  <2>2. PrecisionAt(t, X, r) = PrecisionAt(s, X, r)
    BY <2>1 DEF PrecisionAt
  <2> HIDE DEF t, f, g, n
  <2> QED
    BY <1>2, <1>3, <2>1, <2>2
<1>12. \A r \in 1 .. n : f[r] \in Int /\ g[r] \in Int
  <2> HIDE DEF t, f, g, n
  <2> QED
    BY <1>2, <1>3
<1>13. SumTo(g, n) > SumTo(f, n)
  <2> HIDE DEF t, f, g, n
  <2> QED
    BY <1>2, <1>4, <1>10, <1>11, <1>12, NeighboursDecide
<1> QED
  BY <1>2, <1>3, <1>13

-----------------------------------------------------------------------------
(* One question.                                                           *)

LEMMA EvaluateCallsMean ==
    ASSUME NEW c \in EvaluateCalls
    PROVE  /\ c.function = "evaluate_query"
           /\ Measured(c.retrieved, ResolveGroundTruth(c)) /\ EachOnce(c.retrieved)
<1>1. /\ c.function = "evaluate_query" /\ c.retrieved \in BoundedSeq(Corpus, MaxRetrieved)
      /\ Cardinality(ToSet(c.retrieved)) = Len(c.retrieved)
  BY DEF EvaluateCalls
<1>2. MaxRetrieved \in Nat
  BY EvaluationAssumption
<1>3. PICK m \in 0 .. MaxRetrieved : c.retrieved \in [1 .. m -> Corpus]
  BY <1>1 DEF BoundedSeq, SeqOf
<1> DEFINE s == c.retrieved
<1>4. s \in Seq(Corpus) /\ Len(s) = m /\ DOMAIN s = 1 .. m /\ m \in Nat
  BY <1>2, <1>3
<1>5. ResolveGroundTruth(c) \in SUBSET Corpus
  BY DEF ResolveGroundTruth, HitsOf
<1>6. EachOnce(s)
  <2> DEFINE S == ToSet(s)
  <2>1. IsFiniteSet(1 .. m) /\ Cardinality(1 .. m) = m
    BY <1>4, UpToIsFinite
  <2>2. s \in [1 .. m -> S] /\ \A x \in S : \E p \in 1 .. m : s[p] = x
    BY <1>3, <1>4 DEF ToSet
  <2>3. Cardinality(1 .. m) = Cardinality(S)
    BY <1>1, <1>4, <2>1
  <2> HIDE DEF s, S
  <2>4. s \in Surjection(1 .. m, S)
    BY <2>2 DEF Surjection
  <2>5. s \in Injection(1 .. m, S)
    BY <2>1, <2>3, <2>4, FS_SurjSameCardinalityImpliesInj
  <2>6. DOMAIN s = 1 .. m
    BY <2>2
  <2> QED
    BY <2>5, <2>6 DEF Injection, IsInjective, EachOnce
<1>7. Measured(s, ResolveGroundTruth(c))
  BY <1>3, <1>4, <1>5 DEF Measured
<1> QED
  BY <1>1, <1>6, <1>7

\* The first hit has a rank of its own, and only a question without hits has none.
LEMMA FirstHitMeans ==
    ASSUME NEW s, NEW X, Measured(s, X)
    PROVE  FirstHitRank(s, X) = 0 <=> HitsUpTo(s, X, Len(s)) = 0
<1> DEFINE n == Len(s)
           Q == OfKind(s, n, X)
<1>1. n \in Nat /\ DOMAIN s = 1 .. n
  BY DEF Measured
<1>2. IsFiniteSet(Q) /\ Q \in SUBSET (1 .. n) /\ HitsUpTo(s, X, n) = Cardinality(Q)
  BY <1>1, HitsAreFew
<1>3. FirstHitRank(s, X) = IF Q = {} THEN 0 ELSE Min(Q)
  <2>1. Q = {r \in DOMAIN s : s[r] \in X}
    BY <1>1 DEF OfKind
  <2> HIDE DEF Q
  <2> QED
    BY <2>1 DEF FirstHitRank
<1>4. Cardinality(Q) = 0 <=> Q = {}
  BY <1>2, FS_EmptySet
<1>5. ASSUME Q # {} PROVE Min(Q) # 0
  <2>1. Q \in SUBSET Nat /\ 0 \notin Q
    BY <1>1, <1>2
  <2>2. \E x \in Q : \A y \in Q : x <= y
    BY <1>5, <2>1, LeastElement
  <2> HIDE DEF Q
  <2>3. Min(Q) \in Q
    BY <2>2 DEF Min
  <2> QED
    BY <2>1, <2>3
<1> QED
  BY <1>2, <1>3, <1>4, <1>5

LEMMA MetricsAreSound ==
    ASSUME Of("evaluate_query") => call \in EvaluateCalls /\ result = EvaluateQuery(call)
    PROVE  MetricsSound
<1> DEFINE X == ResolveGroundTruth(call)
           s == call.retrieved
           n == Len(s)
           h == HitsUpTo(s, X, n)
<1> SUFFICES ASSUME Of("evaluate_query") /\ result.resolved
             PROVE  /\ result.recall = result.expected =>
                          \A snippet \in call.snippets : \E r \in DOMAIN s :
                             snippet \in call.contains[s[r]] /\ CorpusDoc[s[r]] \in call.docs
                    /\ result.rank = 0 <=> result.recall = 0
                    /\ result.recall = 0 <=> result.precision = 0
                    /\ result.precision <= Ranks * result.recall
                    /\ result.precision = Ranks * result.recall <=>
                          \A r \in 1 .. result.recall : s[r] \in X
                    /\ \A i \in 1 .. Len(s) - 1 :
                          s[i] \notin X /\ s[i + 1] \in X =>
                             ContextPrecision(Swapped(s, i), X) > result.precision
  BY DEF MetricsSound
<1>1. call \in EvaluateCalls /\ result = EvaluateQuery(call)
  OBVIOUS
<1>2. Measured(s, X) /\ EachOnce(s)
  BY <1>1, EvaluateCallsMean
<1>3. Resolvable(call)
  BY <1>1 DEF EvaluateQuery
<1>4. /\ result.rank = FirstHitRank(s, X) /\ result.precision = ContextPrecision(s, X)
      /\ result.recall = Cardinality(Relevant(s, X)) /\ result.expected = Cardinality(X)
  BY <1>1, <1>3 DEF EvaluateQuery
<1>5. IsFiniteSet(X) /\ n \in Nat
  BY <1>2, EvaluationAssumption, FS_Subset DEF Measured
<1>6. result.recall = h /\ h \in 0 .. n
  <2>1. Cardinality(Relevant(s, X)) = h
    BY <1>2, RecallCountsHits
  <2>2. h \in 0 .. n
    BY <1>5, HitsAreFew
  <2> QED
    BY <1>4, <2>1, <2>2
<1>7. ASSUME result.recall = result.expected, NEW snippet \in call.snippets
      PROVE  \E r \in DOMAIN s :
                snippet \in call.contains[s[r]] /\ CorpusDoc[s[r]] \in call.docs
  <2>1. Relevant(s, X) \in SUBSET X
    BY DEF Relevant
  <2>2. Relevant(s, X) = X
    <3> HIDE DEF X, s
    <3> QED
      BY <1>4, <1>5, <1>7, <2>1, FS_Subset
  <2>3. HitsOf(call, snippet) # {}
    BY <1>3, <1>7 DEF Resolvable
  <2>4. PICK x \in HitsOf(call, snippet) : TRUE
    BY <2>3
  <2>5. x \in X
    BY <1>7, <2>4 DEF ResolveGroundTruth
  <2>6. x \in ToSet(s)
    BY <2>2, <2>5 DEF Relevant
  <2>7. CorpusDoc[x] \in call.docs /\ snippet \in call.contains[x]
    BY <2>4 DEF HitsOf
  <2> QED
    BY <2>6, <2>7 DEF ToSet
<1>8. result.rank = 0 <=> result.recall = 0
  <2>1. FirstHitRank(s, X) = 0 <=> HitsUpTo(s, X, Len(s)) = 0
    BY <1>2, FirstHitMeans
  <2> QED
    BY <1>4, <1>6, <2>1
<1> DEFINE p == ContextPrecision(s, X)
<1>9. /\ p \in Nat /\ p <= Ranks * h /\ (p = 0 <=> h = 0)
      /\ p = Ranks * h <=> \A r \in 1 .. n : s[r] \in X => HitsUpTo(s, X, r) = r
  <2>1. PreciseUpTo(s, X, n)
    BY <1>2, PrecisionUpTo
  <2>2. p = SumTo(Terms(s, X), n)
    BY <1>2, TermsMean
  <2> QED
    BY <2>1, <2>2 DEF PreciseUpTo
<1>10. p = Ranks * h <=> \A r \in 1 .. h : s[r] \in X
  <2>1. (\A r \in 1 .. n : s[r] \in X => HitsUpTo(s, X, r) = r)
            <=> \A r \in 1 .. h : s[r] \in X
    BY <1>5, HitsAreAhead
  <2> QED
    BY <1>9, <2>1
<1>11. ASSUME NEW i \in 1 .. n - 1, s[i] \notin X, s[i + 1] \in X
       PROVE  ContextPrecision(Swapped(s, i), X) > p
  <2>1. Sooner(s, X, i)
    BY <1>11 DEF Sooner
  <2> QED
    BY <1>2, <2>1, SoonerIsBetter
<1>12. result.precision = p
  BY <1>4
<1> HIDE DEF X, h, p
<1> QED
  BY <1>6, <1>7, <1>8, <1>9, <1>10, <1>11, <1>12

\* What each function of the evaluation returns, taken together.
LEMMA EvaluationIsGood ==
    ASSUME Of("evaluate_query") => call \in EvaluateCalls /\ result = EvaluateQuery(call),
           Of("check_gate") => call \in GateCalls /\ result = CheckGate(call),
           Of("generate") => call \in SurrogateCalls /\ result = LexicalJudge(call),
           Of("pace") => call \in PaceCalls /\ result = Pace(call)
    PROVE  EvaluationSound
BY MetricsAreSound, GateIsSound, GeneratorIsGrounded, PacingIsPatient DEF EvaluationSound

-----------------------------------------------------------------------------
(* The window of a chunk (expand_context).                                 *)

\* The text of a span is the places from its start on.
LEMMA TextOfMeans ==
    ASSUME NEW a \in Nat, NEW b \in Nat
    PROVE  /\ TextOf(<<a, b>>) \in Seq(Int) /\ TextOf(<<a, b>>) \in Seq(Nat)
           /\ Len(TextOf(<<a, b>>)) = IF b > a THEN b - a ELSE 0
           /\ DOMAIN TextOf(<<a, b>>) = 1 .. Len(TextOf(<<a, b>>))
           /\ \A k \in 1 .. Len(TextOf(<<a, b>>)) : TextOf(<<a, b>>)[k] = a + k - 1
           /\ ToSet(TextOf(<<a, b>>)) = a .. b - 1
<1> DEFINE n == IF b > a THEN b - a ELSE 0
           t == TextOf(<<a, b>>)
<1>1. n \in Nat /\ 1 .. b - a = 1 .. n
  OBVIOUS
<1>2. t = [k \in 1 .. n |-> a + k - 1]
  BY <1>1 DEF TextOf
<1> HIDE DEF n
<1>3. \A k \in 1 .. n : a + k - 1 \in Nat
  BY <1>1
<1>4. t \in [1 .. n -> Nat] /\ t \in [1 .. n -> Int]
  <2> HIDE DEF t
  <2>1. \A k \in 1 .. n : t[k] \in Nat /\ t[k] \in Int
    BY <1>2, <1>3
  <2> QED
    BY <1>2, <2>1
<1>5. t \in Seq(Nat) /\ t \in Seq(Int) /\ Len(t) = n /\ DOMAIN t = 1 .. n
  <2> HIDE DEF t
  <2> QED
    BY <1>1, <1>4
<1>6. \A x \in a .. b - 1 : x - a + 1 \in 1 .. n /\ a + (x - a + 1) - 1 = x
  BY DEF n
<1>7. \A k \in 1 .. n : a + k - 1 \in a .. b - 1
  BY DEF n
<1>8. ToSet(t) = a .. b - 1
  <2>1. ToSet(t) = {t[k] : k \in 1 .. n}
    BY <1>5 DEF ToSet
  <2>2. \A k \in 1 .. n : t[k] = a + k - 1 /\ t[k] \in a .. b - 1
    BY <1>2, <1>7
  <2>3. ASSUME NEW x \in a .. b - 1 PROVE \E k \in 1 .. n : t[k] = x
    <3> DEFINE k == x - a + 1
    <3>1. k \in 1 .. n /\ a + k - 1 = x
      BY <1>6
    <3> HIDE DEF k, t
    <3> QED
      BY <2>2, <3>1
  <2> HIDE DEF t
  <2> QED
    BY <2>1, <2>2, <2>3
<1> QED
  BY <1>2, <1>5, <1>8 DEF n

\* What a text may not do: leave a gap without a seam, have a seam without a gap, or go
\* back.
Consecutive(t) ==
    \A k \in 1 .. Len(t) - 1 : t[k] # Seam /\ t[k + 1] # Seam => t[k + 1] = t[k] + 1

Seamed(t) ==
    \A k \in 1 .. Len(t) : t[k] = Seam =>
        k > 1 /\ k < Len(t) /\ t[k - 1] # Seam /\ t[k + 1] > t[k - 1] + 1

Forward(t) ==
    \A j, k \in 1 .. Len(t) : j < k /\ t[j] # Seam /\ t[k] # Seam => t[j] < t[k]

Shows(t, S) ==
    /\ \A k \in 1 .. Len(t) : t[k] # Seam => t[k] \in S
    /\ \A x \in S : x # Seam /\ \E k \in 1 .. Len(t) : t[k] = x

\* A text from a start to an end.
Text(t, start, end) ==
    /\ t \in Seq(Int) /\ Len(t) \in Nat \ {0} /\ DOMAIN t = 1 .. Len(t)
    /\ start \in Nat /\ end \in Nat
    /\ t[1] = start /\ t[Len(t)] = end - 1 /\ start < end
    /\ \A k \in 1 .. Len(t) : t[k] \in Nat \/ t[k] = Seam

Reads(t, start, end, S) ==
    Text(t, start, end) /\ Consecutive(t) /\ Seamed(t) /\ Forward(t) /\ Shows(t, S)

\* The text of one span.
LEMMA SpanReads ==
    ASSUME NEW a \in Nat, NEW b \in Nat, a < b
    PROVE  Reads(TextOf(<<a, b>>), a, b, a .. b - 1)
<1> DEFINE t == TextOf(<<a, b>>)
           n == b - a
<1>1. /\ t \in Seq(Int) /\ Len(t) = n /\ DOMAIN t = 1 .. n
      /\ \A k \in 1 .. n : t[k] = a + k - 1
      /\ ToSet(t) = a .. b - 1
  BY TextOfMeans
<1>2. n \in Nat \ {0}
  OBVIOUS
<1> HIDE DEF t
<1>3. \A k \in 1 .. n : t[k] \in Nat /\ t[k] # Seam /\ t[k] \in a .. b - 1
  BY <1>1 DEF Seam
<1>4. \A x \in a .. b - 1 : x # Seam /\ \E k \in 1 .. n : t[k] = x
  <2>1. \A x \in a .. b - 1 : x # Seam
    BY DEF Seam
  <2> HIDE DEF t, n
  <2> QED
    BY <1>1, <2>1 DEF ToSet
<1>5. t[1] = a /\ t[n] = b - 1
  BY <1>1
<1>6. \A k \in 1 .. n - 1 : t[k + 1] = t[k] + 1
  BY <1>1
<1>7. \A j, k \in 1 .. n : j < k => t[j] < t[k]
  BY <1>1
<1>8. Text(t, a, b)
  <2> HIDE DEF t, n
  <2> QED
    BY <1>1, <1>2, <1>3, <1>5 DEF Text
<1> HIDE DEF t, n
<1> QED
  BY <1>1, <1>3, <1>4, <1>6, <1>7, <1>8 DEF Reads, Consecutive, Seamed, Forward, Shows, t

\* What is written after a text: nothing or a seam, and what follows.
Gap(end, a) == IF a > end THEN <<Seam>> ELSE << >>

WrittenAfter(u, t, e, a, b) ==
    LET m == IF a > e THEN 1 ELSE 0
        n == Len(t)
        l == b - a
    IN  /\ u \in Seq(Int) /\ Len(u) = n + m + l /\ DOMAIN u = 1 .. n + m + l
        /\ \A k \in 1 .. n : u[k] = t[k]
        /\ m = 1 => u[n + 1] = Seam
        /\ \A k \in n + m + 1 .. n + m + l : u[k] = a + (k - n - m) - 1

LEMMA WrittenOn ==
    ASSUME NEW t \in Seq(Int), NEW e \in Nat, NEW a \in Nat, NEW b \in Nat, e <= a, a < b
    PROVE  WrittenAfter(t \o Gap(e, a) \o TextOf(<<a, b>>), t, e, a, b)
<1> DEFINE m == IF a > e THEN 1 ELSE 0
           n == Len(t)
           g == Gap(e, a)
           v == TextOf(<<a, b>>)
           l == b - a
           w == t \o g
           u == w \o v
<1>1. g \in Seq(Int) /\ Len(g) = m /\ (m = 1 => g[1] = Seam) /\ m \in {0, 1}
  BY DEF Gap, Seam
<1>2. v \in Seq(Int) /\ Len(v) = l /\ l \in Nat /\ \A k \in 1 .. l : v[k] = a + k - 1
  <2>1. /\ v \in Seq(Int) /\ Len(v) = IF b > a THEN b - a ELSE 0
        /\ \A k \in 1 .. Len(v) : v[k] = a + k - 1
    BY TextOfMeans
  <2> HIDE DEF v
  <2> QED
    BY <2>1
<1>3. n \in Nat
  OBVIOUS
<1> HIDE DEF g, v, m, n, l
<1>4. /\ w \in Seq(Int) /\ Len(w) = n + m /\ \A k \in 1 .. n : w[k] = t[k]
      /\ m = 1 => w[n + 1] = Seam
  BY <1>1, <1>3 DEF n
<1> HIDE DEF w
<1>5. /\ u \in Seq(Int) /\ Len(u) = n + m + l /\ DOMAIN u = 1 .. n + m + l
      /\ \A k \in 1 .. n + m : u[k] = w[k]
      /\ \A k \in n + m + 1 .. n + m + l : u[k] = v[k - (n + m)]
  <2>1. /\ u \in Seq(Int) /\ Len(u) = Len(w) + Len(v)
        /\ \A k \in 1 .. Len(w) + Len(v) : u[k] = IF k <= Len(w) THEN w[k] ELSE v[k - Len(w)]
    BY <1>2, <1>4, ConcatProperties
  <2>2. DOMAIN u = 1 .. Len(u)
    BY <2>1
  <2> HIDE DEF u
  <2>3. Len(w) = n + m /\ Len(v) = l /\ n \in Nat /\ m \in Nat /\ l \in Nat
    BY <1>1, <1>2, <1>3, <1>4
  <2>4. Len(u) = n + m + l
    BY <2>1, <2>3
  <2>5. \A k \in 1 .. n + m : u[k] = w[k]
    <3> SUFFICES ASSUME NEW k \in 1 .. n + m PROVE u[k] = w[k]
      OBVIOUS
    <3>1. k \in 1 .. Len(w) + Len(v) /\ k <= Len(w)
      BY <2>3
    <3> QED
      BY <2>1, <3>1
  <2>6. \A k \in n + m + 1 .. n + m + l : u[k] = v[k - (n + m)]
    <3> SUFFICES ASSUME NEW k \in n + m + 1 .. n + m + l PROVE u[k] = v[k - (n + m)]
      OBVIOUS
    <3>1. k \in 1 .. Len(w) + Len(v) /\ ~(k <= Len(w))
      BY <2>3
    <3> QED
      BY <2>1, <2>3, <3>1
  <2> QED
    BY <2>1, <2>2, <2>4, <2>5, <2>6
<1> HIDE DEF u
<1>6. \A k \in 1 .. n : u[k] = t[k]
  <2> SUFFICES ASSUME NEW k \in 1 .. n PROVE u[k] = t[k]
    OBVIOUS
  <2>1. k \in 1 .. n + m
    BY <1>1, <1>3
  <2>2. u[k] = w[k]
    BY <1>5, <2>1
  <2>3. w[k] = t[k]
    BY <1>4
  <2> QED
    BY <2>2, <2>3
<1>7. m = 1 => u[n + 1] = Seam
  BY <1>1, <1>3, <1>4, <1>5
<1>8. \A k \in n + m + 1 .. n + m + l : u[k] = a + (k - n - m) - 1
  <2> SUFFICES ASSUME NEW k \in n + m + 1 .. n + m + l PROVE u[k] = a + (k - n - m) - 1
    OBVIOUS
  <2>1. k - (n + m) \in 1 .. l /\ k - (n + m) = k - n - m
    BY <1>1, <1>2, <1>3
  <2> QED
    BY <1>2, <1>5, <2>1
<1> QED
  BY <1>5, <1>6, <1>7, <1>8 DEF WrittenAfter, u, w, g, v, m, n, l

LEMMA ReadsOn ==
    ASSUME NEW t, NEW start, NEW e, NEW S, Reads(t, start, e, S),
           NEW a \in Nat, NEW b \in Nat, e <= a, a < b
    PROVE  Reads(t \o Gap(e, a) \o TextOf(<<a, b>>), start, b, S \cup (a .. b - 1))
<1> DEFINE m == IF a > e THEN 1 ELSE 0
           n == Len(t)
           l == b - a
           u == t \o Gap(e, a) \o TextOf(<<a, b>>)
           N == n + m + l
           U == S \cup (a .. b - 1)
<1>1. /\ t \in Seq(Int) /\ n \in Nat \ {0} /\ start \in Nat /\ e \in Nat
      /\ t[1] = start /\ t[n] = e - 1 /\ start < e
      /\ \A k \in 1 .. n : t[k] \in Nat \/ t[k] = Seam
  BY DEF Reads, Text
<1>2. /\ u \in Seq(Int) /\ Len(u) = N /\ DOMAIN u = 1 .. N
      /\ \A k \in 1 .. n : u[k] = t[k]
      /\ m = 1 => u[n + 1] = Seam
      /\ \A k \in n + m + 1 .. N : u[k] = a + (k - n - m) - 1
  <2>1. WrittenAfter(u, t, e, a, b)
    BY <1>1, WrittenOn
  <2> HIDE DEF u
  <2> QED
    BY <2>1 DEF WrittenAfter
<1>3. /\ m \in {0, 1} /\ m \in Nat /\ l \in Nat /\ l > 0 /\ (m = 0 <=> a = e) /\ l = b - a
      /\ (m = 1 <=> a > e)
  BY <1>1
<1>4. Seam = -1
  BY DEF Seam
<1> HIDE DEF m, u, n, l
<1>5. \A k \in 1 .. N : k \in 1 .. n \/ (k = n + 1 /\ m = 1) \/ k \in n + m + 1 .. N
  BY <1>1, <1>3
<1>6. N \in Nat \ {0} /\ n <= N /\ n < N /\ n + m + 1 <= N /\ N = n + m + l
  BY <1>1, <1>3
<1> HIDE DEF N
<1>7. \A k \in n + m + 1 .. N : u[k] \in Nat /\ u[k] # Seam /\ u[k] >= a /\ u[k] \in a .. b - 1
  <2> SUFFICES ASSUME NEW k \in n + m + 1 .. N
               PROVE  u[k] \in Nat /\ u[k] # Seam /\ u[k] >= a /\ u[k] \in a .. b - 1
    OBVIOUS
  <2>1. u[k] = a + (k - n - m) - 1 /\ k \in Int
    BY <1>1, <1>2, <1>3, <1>6
  <2>2. k - n - m >= 1 /\ k - n - m <= l
    BY <1>1, <1>3, <1>6
  <2> QED
    BY <1>1, <1>3, <1>4, <2>1, <2>2
<1>8. Text(u, start, b)
  <2>1. u[1] = start
    <3>1. 1 \in 1 .. n
      BY <1>1
    <3> QED
      BY <1>1, <1>2, <3>1
  <2>2. u[N] = b - 1
    <3>1. N \in n + m + 1 .. N /\ a + (N - n - m) - 1 = b - 1
      BY <1>1, <1>3, <1>6
    <3> QED
      BY <1>2, <3>1
  <2>3. ASSUME NEW k \in 1 .. N PROVE u[k] \in Nat \/ u[k] = Seam
    BY <1>1, <1>2, <1>5, <1>7
  <2>4. start < b
    BY <1>1
  <2> QED
    BY <1>1, <1>2, <1>6, <2>1, <2>2, <2>3, <2>4 DEF Text
<1>9. Consecutive(u)
  <2> SUFFICES ASSUME NEW k \in 1 .. N - 1, u[k] # Seam, u[k + 1] # Seam
               PROVE  u[k + 1] = u[k] + 1
    BY <1>2 DEF Consecutive
  <2>1. CASE k <= n - 1
    <3>1. k \in 1 .. n - 1 /\ k \in 1 .. n /\ k + 1 \in 1 .. n
      BY <1>1, <2>1
    <3>2. u[k] = t[k] /\ u[k + 1] = t[k + 1]
      BY <1>2, <3>1
    <3>3. t[k + 1] = t[k] + 1
      BY <3>1, <3>2 DEF Reads, Consecutive, n
    <3> QED
      BY <3>2, <3>3
  <2>2. CASE k = n
    <3>1. m = 0
      BY <1>2, <1>3, <2>2
    <3>2. n + 1 \in n + m + 1 .. N /\ a + (n + 1 - n - m) - 1 = a
      BY <1>1, <1>3, <1>6, <3>1
    <3> DEFINE j == n + 1
    <3>3. u[j] = a
      <4>1. j \in n + m + 1 .. N /\ a + (j - n - m) - 1 = a
        BY <1>1, <1>3, <3>1, <3>2
      <4> HIDE DEF j
      <4> QED
        BY <1>2, <4>1
    <3>4. u[n] = e - 1
      <4>1. n \in 1 .. n /\ t[n] = e - 1
        BY <1>1
      <4> QED
        BY <1>2, <4>1
    <3>5. u[k] = e - 1 /\ u[k + 1] = a /\ a = e /\ e \in Nat
      BY <1>1, <1>3, <2>2, <3>1, <3>3, <3>4
    <3> QED
      BY <3>5
  <2>3. CASE k = n + 1 /\ m = 1
    BY <1>2, <2>3
  <2>4. CASE k >= n + m + 1
    <3>1. k \in n + m + 1 .. N /\ k + 1 \in n + m + 1 .. N
      BY <1>1, <1>3, <1>6, <2>4
    <3> DEFINE j == k + 1
    <3>2. u[k] = a + (k - n - m) - 1 /\ u[j] = a + (j - n - m) - 1
      <4>1. k \in n + m + 1 .. N /\ j \in n + m + 1 .. N
        BY <3>1
      <4> HIDE DEF j
      <4> QED
        BY <1>2, <4>1
    <3> QED
      BY <1>1, <1>3, <3>2
  <2> QED
    BY <1>1, <1>3, <1>6, <2>1, <2>2, <2>3, <2>4
<1>10. Seamed(u)
  <2> SUFFICES ASSUME NEW k \in 1 .. N, u[k] = Seam
               PROVE  k > 1 /\ k < N /\ u[k - 1] # Seam /\ u[k + 1] > u[k - 1] + 1
    BY <1>2 DEF Seamed
  <2>1. CASE k \in 1 .. n
    <3>1. u[k] = t[k]
      BY <1>2, <2>1
    <3>2. k > 1 /\ k < n /\ t[k - 1] # Seam /\ t[k + 1] > t[k - 1] + 1
      BY <2>1, <3>1 DEF Reads, Seamed, n
    <3>3. k - 1 \in 1 .. n /\ k + 1 \in 1 .. n
      BY <1>1, <3>2
    <3>4. u[k - 1] = t[k - 1] /\ u[k + 1] = t[k + 1]
      BY <1>2, <3>3
    <3> QED
      BY <1>1, <1>6, <3>2, <3>4
  <2>2. CASE k = n + 1 /\ m = 1
    <3>1. u[n] = e - 1 /\ k - 1 = n
      BY <1>1, <1>2, <2>2
    <3>2. n + 2 \in n + m + 1 .. N /\ a + (n + 2 - n - m) - 1 = a /\ k + 1 = n + 2
      BY <1>1, <1>3, <1>6, <2>2
    <3> DEFINE j == k + 1
    <3>3. u[j] = a
      <4>1. j \in n + m + 1 .. N /\ a + (j - n - m) - 1 = a
        BY <1>1, <1>3, <2>2, <3>2
      <4> HIDE DEF j
      <4> QED
        BY <1>2, <4>1
    <3> QED
      BY <1>1, <1>3, <1>4, <1>6, <2>2, <3>1, <3>3
  <2> QED
    BY <1>5, <1>7, <2>1, <2>2
<1>11. \A k \in 1 .. n : t[k] # Seam => t[k] < e
  <2> SUFFICES ASSUME NEW k \in 1 .. n, t[k] # Seam PROVE t[k] < e
    OBVIOUS
  <2>1. t[k] \in Nat /\ n \in 1 .. n /\ t[n] # Seam /\ t[n] = e - 1
    BY <1>1, <1>4
  <2>2. k < n => t[k] < t[n]
    BY <2>1 DEF Reads, Forward, n
  <2>3. k = n \/ k < n
    BY <1>1
  <2> QED
    BY <1>1, <2>1, <2>2, <2>3
<1>12. Forward(u)
  <2> SUFFICES ASSUME NEW j \in 1 .. N, NEW k \in 1 .. N, j < k, u[j] # Seam, u[k] # Seam
               PROVE  u[j] < u[k]
    BY <1>2 DEF Forward
  <2>1. CASE k \in 1 .. n
    <3>1. j \in 1 .. n
      BY <1>1, <2>1
    <3>2. u[j] = t[j] /\ u[k] = t[k]
      BY <1>2, <2>1, <3>1
    <3> QED
      BY <2>1, <3>1, <3>2 DEF Reads, Forward, n
  <2>2. CASE j \in 1 .. n /\ k \in n + m + 1 .. N
    <3>1. u[j] = t[j] /\ t[j] < e /\ t[j] \in Nat
      BY <1>1, <1>2, <1>11, <2>2
    <3>2. u[k] >= a /\ u[k] \in Nat
      BY <1>7, <2>2
    <3> QED
      BY <1>1, <3>1, <3>2
  <2>3. CASE j \in n + m + 1 .. N /\ k \in n + m + 1 .. N
    <3>1. u[j] = a + (j - n - m) - 1 /\ u[k] = a + (k - n - m) - 1
      BY <1>2, <2>3
    <3> QED
      BY <1>1, <1>3, <3>1
  <2>4. CASE k = n + 1 /\ m = 1
    BY <1>2, <2>4
  <2>5. CASE j = n + 1 /\ m = 1
    BY <1>2, <2>5
  <2>6. j \in n + m + 1 .. N => k \in n + m + 1 .. N
    BY <1>1, <1>3, <1>6
  <2> QED
    BY <1>5, <2>1, <2>2, <2>3, <2>4, <2>5, <2>6
<1>13. Shows(u, U)
  <2>1. Shows(t, S)
    BY DEF Reads
  <2>2. ASSUME NEW k \in 1 .. N, u[k] # Seam PROVE u[k] \in U
    <3>1. CASE k \in 1 .. n
      BY <1>2, <2>1, <2>2, <3>1 DEF Shows, n
    <3>2. CASE k \in n + m + 1 .. N
      BY <1>7, <3>2
    <3>3. CASE k = n + 1 /\ m = 1
      BY <1>2, <2>2, <3>3
    <3> QED
      BY <1>5, <3>1, <3>2, <3>3
  <2>3. ASSUME NEW x \in U PROVE x # Seam /\ \E k \in 1 .. N : u[k] = x
    <3>1. CASE x \in S
      <4>1. PICK k \in 1 .. n : t[k] = x
        BY <2>1, <3>1 DEF Shows, n
      <4>2. x # Seam
        BY <2>1, <3>1 DEF Shows
      <4>3. k \in 1 .. N /\ u[k] = x
        BY <1>1, <1>2, <1>6, <4>1
      <4> QED
        BY <4>2, <4>3
    <3>2. CASE x \in a .. b - 1
      <4> DEFINE k == n + m + (x - a) + 1
      <4>1. k \in n + m + 1 .. N /\ k \in 1 .. N /\ a + (k - n - m) - 1 = x /\ x # Seam
        BY <1>1, <1>3, <1>4, <1>6, <3>2
      <4> HIDE DEF k
      <4>2. u[k] = x
        BY <1>2, <4>1
      <4> QED
        BY <4>1, <4>2
    <3> QED
      BY <3>1, <3>2
  <2> QED
    BY <1>2, <2>2, <2>3 DEF Shows
<1> QED
  BY <1>8, <1>9, <1>10, <1>12, <1>13 DEF Reads, u

\* A span that begins where the last one began, or later, is joined to the text.
LEMMA JoinMeans ==
    ASSUME NEW merged, NEW start, NEW S, Reads(merged.text, start, merged.end, S),
           NEW span \in Nat \X Nat, span[1] < span[2],
           \A x \in Nat : span[1] <= x /\ x < merged.end => x \in S
    PROVE  LET U == S \cup (span[1] .. span[2] - 1)
               joined == Join(merged, span)
           IN  /\ Reads(joined.text, start, joined.end, U)
               /\ \A x \in Nat : span[1] <= x /\ x < joined.end => x \in U
<1> DEFINE t == merged.text
           e == merged.end
           a == span[1]
           b == span[2]
           U == S \cup (a .. b - 1)
           joined == Join(merged, span)
<1>1. a \in Nat /\ b \in Nat /\ a < b /\ span = <<a, b>>
  OBVIOUS
<1>2. t \in Seq(Int) /\ e \in Nat
  BY DEF Reads, Text
<1>3. joined.end = (IF e > b THEN e ELSE b)
  BY DEF Join, Later
<1>4. joined.text = IF a >= e THEN t \o (IF a > e THEN <<Seam>> ELSE << >>) \o TextOf(span)
                    ELSE t \o TextOf(<<e, b>>)
  BY DEF Join
<1>5. \A x \in Nat : a <= x /\ x < e => x \in S
  OBVIOUS
<1>6. Reads(t, start, e, S)
  OBVIOUS
<1> HIDE DEF t, e, a, b, joined
<1>7. \A x \in Nat : a <= x /\ x < joined.end => x \in U
  BY <1>1, <1>2, <1>3, <1>5
<1>8. CASE a >= e
  <2>1. joined.text = t \o Gap(e, a) \o TextOf(<<a, b>>) /\ joined.end = b
    BY <1>1, <1>2, <1>3, <1>4, <1>8 DEF Gap
  <2>2. Reads(t \o Gap(e, a) \o TextOf(<<a, b>>), start, b, S \cup (a .. b - 1))
    BY <1>1, <1>2, <1>6, <1>8, ReadsOn
  <2> QED
    BY <1>7, <2>1, <2>2 DEF joined, a, b
<1>9. CASE a < e /\ e < b
  <2>1. joined.text = t \o TextOf(<<e, b>>) /\ joined.end = b
    <3>1. ~(a >= e) /\ ~(e > b)
      BY <1>1, <1>2, <1>9
    <3> QED
      BY <1>3, <1>4, <3>1, Zenon
  <2>2. Gap(e, e) = << >> /\ t \o << >> = t
    BY <1>2, ConcatEmptySeq DEF Gap
  <2>3. Reads(t \o Gap(e, e) \o TextOf(<<e, b>>), start, b, S \cup (e .. b - 1))
    BY <1>1, <1>2, <1>6, <1>9, ReadsOn, SMTT(30)
  <2>4. S \cup (e .. b - 1) = U
    BY <1>1, <1>2, <1>5, <1>9
  <2>5. Reads(t \o TextOf(<<e, b>>), start, b, U)
    BY <2>2, <2>3, <2>4
  <2> QED
    BY <1>7, <2>1, <2>5 DEF joined, a, b
<1>10. CASE a < e /\ b <= e
  <2>1. joined.text = t \o TextOf(<<e, b>>) /\ joined.end = e
    <3>1. ~(a >= e) /\ (e > b \/ e = b)
      BY <1>1, <1>2, <1>10
    <3> QED
      BY <1>3, <1>4, <3>1, Zenon
  <2>2. TextOf(<<e, b>>) = << >>
    <3>1. TextOf(<<e, b>>) \in Seq(Int) /\ Len(TextOf(<<e, b>>)) = IF b > e THEN b - e ELSE 0
      BY <1>1, <1>2, TextOfMeans
    <3>2. Len(TextOf(<<e, b>>)) = 0
      BY <1>1, <1>2, <1>10, <3>1
    <3> QED
      BY <3>1, <3>2, EmptySeq
  <2>3. t \o << >> = t
    BY <1>2, ConcatEmptySeq
  <2>4. U = S
    BY <1>1, <1>2, <1>5, <1>10
  <2> QED
    BY <1>6, <1>7, <2>1, <2>2, <2>3, <2>4 DEF joined, a, b
<1>11. a >= e \/ (a < e /\ e < b) \/ (a < e /\ b <= e)
  BY <1>1, <1>2
<1> QED
  BY <1>8, <1>9, <1>10, <1>11, Zenon

\* The recursion of _merge_spans, and its values.
MergedTexts == [text : Seq(Int), end : Nat]

Merging(spans, merged) ==
    merged = [k \in 0 .. Len(spans) - 1 |->
                 IF k = 0 THEN [text |-> TextOf(spans[1]), end |-> spans[1][2]]
                 ELSE Join(merged[k - 1], spans[k + 1])]

LEMMA JoinStays ==
    ASSUME NEW merged \in MergedTexts, NEW span \in Nat \X Nat
    PROVE  Join(merged, span) \in MergedTexts
<1> DEFINE t == merged.text
           e == merged.end
           a == span[1]
           b == span[2]
<1>1. t \in Seq(Int) /\ e \in Nat /\ a \in Nat /\ b \in Nat /\ span = <<a, b>>
  BY DEF MergedTexts
<1>2. TextOf(<<a, b>>) \in Seq(Int) /\ TextOf(<<e, b>>) \in Seq(Int)
  BY <1>1, TextOfMeans
<1>3. <<Seam>> \in Seq(Int) /\ << >> \in Seq(Int)
  BY DEF Seam
<1>4. Join(merged, span)
        = [text |-> IF a >= e THEN t \o (IF a > e THEN <<Seam>> ELSE << >>) \o TextOf(<<a, b>>)
                    ELSE t \o TextOf(<<e, b>>),
           end |-> IF e > b THEN e ELSE b]
  BY <1>1 DEF Join, Later
<1> HIDE DEF t, e, a, b
<1>5. \A u, v \in Seq(Int) : u \o v \in Seq(Int)
  OBVIOUS
<1>6. /\ t \o TextOf(<<e, b>>) \in Seq(Int)
      /\ t \o <<Seam>> \o TextOf(<<a, b>>) \in Seq(Int)
      /\ t \o << >> \o TextOf(<<a, b>>) \in Seq(Int)
  BY <1>1, <1>2, <1>3, <1>5
<1>7. (IF e > b THEN e ELSE b) \in Nat
  BY <1>1
<1>8. (IF a >= e THEN t \o (IF a > e THEN <<Seam>> ELSE << >>) \o TextOf(<<a, b>>)
       ELSE t \o TextOf(<<e, b>>)) \in Seq(Int)
  BY <1>6, Zenon
<1> DEFINE x == IF a >= e THEN t \o (IF a > e THEN <<Seam>> ELSE << >>) \o TextOf(<<a, b>>)
                ELSE t \o TextOf(<<e, b>>)
           y == IF e > b THEN e ELSE b
<1>9. x \in Seq(Int) /\ y \in Nat /\ Join(merged, span) = [text |-> x, end |-> y]
  BY <1>4, <1>7, <1>8
<1> HIDE DEF x, y
<1> QED
  BY <1>9 DEF MergedTexts

LEMMA MergingExists ==
    ASSUME NEW spans \in Seq(Nat \X Nat), Len(spans) > 0
    PROVE  \E g \in [0 .. Len(spans) - 1 -> MergedTexts] :
              /\ MergeSpans(spans) = [text |-> g[Len(spans) - 1].text,
                                      range |-> <<spans[1][1], g[Len(spans) - 1].end>>]
              /\ g[0] = [text |-> TextOf(spans[1]), end |-> spans[1][2]]
              /\ \A k \in 1 .. Len(spans) - 1 : g[k] = Join(g[k - 1], spans[k + 1])
<1> DEFINE n == Len(spans) - 1
           V == MergedTexts
           base == [text |-> TextOf(spans[1]), end |-> spans[1][2]]
           step == [p \in (1 .. n) \X V |-> Join(p[2], spans[p[1] + 1])]
<1>1. n \in Nat /\ spans[1] \in Nat \X Nat /\ \A k \in 1 .. n : spans[k + 1] \in Nat \X Nat
  <2>1. Len(spans) \in Nat /\ \A k \in 1 .. Len(spans) : spans[k] \in Nat \X Nat
    OBVIOUS
  <2>2. n \in Nat /\ 1 \in 1 .. Len(spans) /\ \A k \in 1 .. n : k + 1 \in 1 .. Len(spans)
    BY <2>1
  <2> QED
    BY <2>1, <2>2
<1>2. base \in V
  <2>1. spans[1] = <<spans[1][1], spans[1][2]>> /\ spans[1][1] \in Nat /\ spans[1][2] \in Nat
    BY <1>1
  <2>2. TextOf(spans[1]) \in Seq(Int)
    BY <2>1, TextOfMeans
  <2> QED
    BY <2>1, <2>2 DEF MergedTexts
<1>3. step \in [(1 .. n) \X V -> V]
  <2>1. ASSUME NEW p \in (1 .. n) \X V PROVE Join(p[2], spans[p[1] + 1]) \in V
    <3>1. p[1] \in 1 .. n /\ p[2] \in V
      OBVIOUS
    <3>2. spans[p[1] + 1] \in Nat \X Nat
      BY <1>1, <3>1
    <3> HIDE DEF n
    <3> QED
      BY <3>1, <3>2, JoinStays
  <2> HIDE DEF n, V
  <2> QED
    BY <2>1
<1>4. PICK g : Upto(n, g, V, base, step)
  <2> HIDE DEF step, n, V, base
  <2> QED
    BY <1>1, <1>2, <1>3, RecursiveFunction
<1>5. g \in [0 .. n -> V] /\ g[0] = base /\ \A k \in 1 .. n : g[k] = step[<<k, g[k - 1]>>]
  BY <1>4 DEF Upto
<1> HIDE DEF V, base
<1>6. \A k \in 1 .. n, v \in V : step[<<k, v>>] = Join(v, spans[k + 1])
  <2> SUFFICES ASSUME NEW k \in 1 .. n, NEW v \in V PROVE step[<<k, v>>] = Join(v, spans[k + 1])
    OBVIOUS
  <2>1. <<k, v>> \in (1 .. n) \X V
    OBVIOUS
  <2> HIDE DEF n
  <2> QED
    BY <2>1
<1> HIDE DEF step
<1>7. \A k \in 1 .. n : g[k] = Join(g[k - 1], spans[k + 1])
  <2> SUFFICES ASSUME NEW k \in 1 .. n PROVE g[k] = Join(g[k - 1], spans[k + 1])
    OBVIOUS
  <2>1. k - 1 \in 0 .. n
    BY <1>1
  <2>2. g[k - 1] \in V
    BY <1>5, <2>1
  <2> HIDE DEF n
  <2> QED
    BY <1>5, <1>6, <2>2
<1>8. Merging(spans, g)
  <2>1. \A k \in 0 .. n : g[k] = IF k = 0 THEN base ELSE Join(g[k - 1], spans[k + 1])
    <3>1. \A k \in 0 .. n : k = 0 \/ k \in 1 .. n
      BY <1>1
    <3> HIDE DEF n
    <3> QED
      BY <1>5, <1>7, <3>1, Zenon
  <2>2. g = [k \in 0 .. n |-> g[k]]
    BY <1>5
  <2>3. g = [k \in 0 .. n |-> IF k = 0 THEN base ELSE Join(g[k - 1], spans[k + 1])]
    <3> HIDE DEF n
    <3> QED
      BY <2>1, <2>2, Zenon
  <2> QED
    BY <2>3 DEF Merging, base
<1>9. ASSUME NEW h, Merging(spans, h) PROVE h = g
  <2>1. h = [k \in 0 .. n |-> IF k = 0 THEN base ELSE Join(h[k - 1], spans[k + 1])]
    BY <1>9 DEF Merging, base
  <2> HIDE DEF n
  <2>2. \A k \in 0 .. n : h[k] = IF k = 0 THEN base ELSE Join(h[k - 1], spans[k + 1])
    BY <2>1, Zenon
  <2>3. h = [k \in 0 .. n |-> h[k]]
    BY <2>1, Zenon
  <2>4. h[0] = base
    <3>1. 0 \in 0 .. n
      BY <1>1
    <3> QED
      BY <2>2, <3>1
  <2>5. \A k \in 1 .. n : h[k - 1] \in V => h[k] = step[<<k, h[k - 1]>>]
    <3> SUFFICES ASSUME NEW k \in 1 .. n, h[k - 1] \in V PROVE h[k] = step[<<k, h[k - 1]>>]
      OBVIOUS
    <3>1. k \in 0 .. n /\ k # 0
      BY <1>1
    <3>2. h[k] = Join(h[k - 1], spans[k + 1])
      BY <2>2, <3>1, Zenon
    <3> QED
      BY <1>6, <3>2
  <2>6. Follows(n, h, V, base, step)
    BY <2>3, <2>4, <2>5 DEF Follows
  <2> QED
    BY <1>1, <1>4, <2>6, OnlyRecursion
<1>10. (CHOOSE merged : Merging(spans, merged)) = g
  BY <1>8, <1>9
<1>11. MergeSpans(spans) = [text |-> (CHOOSE merged : Merging(spans, merged))[n].text,
                            range |-> <<spans[1][1],
                                        (CHOOSE merged : Merging(spans, merged))[n].end>>]
  BY DEF MergeSpans, Merging
<1>12. MergeSpans(spans) = [text |-> g[n].text, range |-> <<spans[1][1], g[n].end>>]
  BY <1>10, <1>11
<1> QED
  BY <1>5, <1>7, <1>12 DEF base, V


\* Spans in order: none is empty, and none begins before the one ahead of it.
InOrderOfStart(spans) ==
    /\ spans \in Seq(Nat \X Nat) /\ Len(spans) \in Nat \ {0}
    /\ \A i \in 1 .. Len(spans) : spans[i] \in Nat \X Nat /\ spans[i][1] < spans[i][2]
    /\ \A i \in 1 .. Len(spans) - 1 : spans[i][1] <= spans[i + 1][1]

\* What the first m spans have in them.
Covered(spans, m) == {x \in Nat : \E i \in 1 .. m : spans[i][1] <= x /\ x < spans[i][2]}

LEMMA CoveredSteps ==
    ASSUME NEW spans, InOrderOfStart(spans), NEW k \in 1 .. Len(spans)
    PROVE  Covered(spans, k) = Covered(spans, k - 1) \cup (spans[k][1] .. spans[k][2] - 1)
<1>1. spans[k][1] \in Nat /\ spans[k][2] \in Nat /\ k \in Nat /\ k > 0
  BY DEF InOrderOfStart
<1>2. \A i \in 1 .. k : i \in 1 .. k - 1 \/ i = k
  BY <1>1
<1>3. \A i \in 1 .. k - 1 : i \in 1 .. k
  BY <1>1
<1>4. k \in 1 .. k
  BY <1>1
<1>5. \A x \in Nat : spans[k][1] <= x /\ x < spans[k][2] <=> x \in spans[k][1] .. spans[k][2] - 1
  BY <1>1
<1>6. \A x \in spans[k][1] .. spans[k][2] - 1 : x \in Nat
  BY <1>1
<1> QED
  BY <1>2, <1>3, <1>4, <1>5, <1>6 DEF Covered

\* The text of spans in order reads on, and shows what they have in them.
LEMMA MergeMeans ==
    ASSUME NEW spans, InOrderOfStart(spans)
    PROVE  \E e \in Nat : /\ MergeSpans(spans).range = <<spans[1][1], e>>
                          /\ Reads(MergeSpans(spans).text, spans[1][1], e,
                                   Covered(spans, Len(spans)))
<1> DEFINE n == Len(spans) - 1
           start == spans[1][1]
<1>1. /\ spans \in Seq(Nat \X Nat) /\ Len(spans) > 0 /\ n \in Nat /\ Len(spans) = n + 1
      /\ 1 \in 1 .. Len(spans)
  BY DEF InOrderOfStart
<1>2. PICK g \in [0 .. n -> MergedTexts] :
         /\ MergeSpans(spans) = [text |-> g[n].text, range |-> <<start, g[n].end>>]
         /\ g[0] = [text |-> TextOf(spans[1]), end |-> spans[1][2]]
         /\ \A k \in 1 .. n : g[k] = Join(g[k - 1], spans[k + 1])
  BY <1>1, MergingExists
<1> HIDE DEF n, start
<1> DEFINE Good(k) == /\ Reads(g[k].text, start, g[k].end, Covered(spans, k + 1))
                      /\ \A x \in Nat : spans[k + 1][1] <= x /\ x < g[k].end
                                           => x \in Covered(spans, k + 1)
           T == {k \in 0 .. n : Good(k)}
<1>3. 0 \in T
  <2>1. spans[1] \in Nat \X Nat /\ spans[1][1] < spans[1][2]
    BY <1>1 DEF InOrderOfStart
  <2> DEFINE a == spans[1][1]
             b == spans[1][2]
  <2>2. a \in Nat /\ b \in Nat /\ a < b /\ spans[1] = <<a, b>>
    BY <2>1
  <2>3. Reads(TextOf(<<a, b>>), a, b, a .. b - 1)
    BY <2>2, SpanReads
  <2>4. Covered(spans, 0 + 1) = a .. b - 1
    <3>1. Covered(spans, 1) = Covered(spans, 1 - 1) \cup (a .. b - 1)
      BY <1>1, CoveredSteps
    <3>2. Covered(spans, 0) = {}
      BY DEF Covered
    <3>3. 1 - 1 = 0 /\ 0 + 1 = 1
      OBVIOUS
    <3> HIDE DEF a, b
    <3> QED
      BY <3>1, <3>2, <3>3
  <2>5. g[0].text = TextOf(<<a, b>>) /\ g[0].end = b /\ start = a
    BY <1>2, <2>2 DEF start
  <2>6. 0 + 1 = 1 /\ 0 \in 0 .. n
    BY <1>1
  <2>7. \A x \in Nat : a <= x /\ x < b => x \in a .. b - 1
    BY <2>2
  <2> QED
    BY <2>3, <2>4, <2>5, <2>6, <2>7
<1>4. ASSUME NEW k \in 0 .. n - 1, k \in T PROVE k + 1 \in T
  <2> DEFINE j == k + 1
             i == j + 1
             span == spans[i]
             S == Covered(spans, j)
             m == g[k]
             joined == Join(m, span)
  <2>1. /\ j \in 1 .. n /\ j \in 0 .. n /\ i \in 1 .. Len(spans) /\ j - 1 = k /\ i - 1 = j
        /\ j \in 1 .. Len(spans) - 1
    BY <1>1
  <2>2. Reads(m.text, start, m.end, S)
    BY <1>4
  <2>3. \A x \in Nat : spans[j][1] <= x /\ x < m.end => x \in S
    BY <1>4
  <2>4. span \in Nat \X Nat /\ span[1] < span[2] /\ spans[j] \in Nat \X Nat
    <3>1. i \in 1 .. Len(spans) /\ j \in 1 .. Len(spans)
      BY <1>1, <2>1
    <3> HIDE DEF i, j
    <3> QED
      BY <3>1 DEF InOrderOfStart
  <2>5. spans[j][1] <= span[1]
    <3>1. j \in 1 .. Len(spans) - 1
      BY <2>1
    <3> HIDE DEF j
    <3> QED
      BY <3>1 DEF InOrderOfStart
  <2>6. m.end \in Nat
    BY <2>2 DEF Reads, Text
  <2>7. \A x \in Nat : span[1] <= x /\ x < m.end => x \in S
    BY <2>3, <2>4, <2>5, <2>6
  <2>8. Covered(spans, i) = S \cup (span[1] .. span[2] - 1)
    <3>1. i \in 1 .. Len(spans) /\ i - 1 = j
      BY <2>1
    <3> HIDE DEF i, j
    <3> QED
      BY <3>1, CoveredSteps
  <2>9. g[j] = joined
    <3> HIDE DEF j
    <3> QED
      BY <1>2, <2>1
  <2> HIDE DEF S, m, span, i, j
  <2>10. /\ Reads(joined.text, start, joined.end, S \cup (span[1] .. span[2] - 1))
         /\ \A x \in Nat : span[1] <= x /\ x < joined.end => x \in S \cup (span[1] .. span[2] - 1)
    BY <2>2, <2>4, <2>7, JoinMeans
  <2>11. Good(j)
    BY <2>8, <2>9, <2>10 DEF span, i
  <2> QED
    BY <2>1, <2>11 DEF j
<1>5. 0 .. n \subseteq T
  <2> HIDE DEF T
  <2> QED
    BY <1>1, <1>3, <1>4, Induction
<1>6. Good(n)
  <2>1. n \in 0 .. n
    BY <1>1
  <2> HIDE DEF Good
  <2> QED
    BY <1>5, <2>1
<1>7. g[n].end \in Nat
  <2>1. n \in 0 .. n
    BY <1>1
  <2>2. g[n] \in MergedTexts
    BY <1>2, <2>1
  <2> QED
    BY <2>2 DEF MergedTexts
<1>8. n + 1 = Len(spans)
  BY <1>1
<1> QED
  BY <1>2, <1>6, <1>7, <1>8 DEF start


\* The spans that are put in order are in order, and none is lost.
LEMMA OrderedMeans ==
    ASSUME NEW I \in SUBSET Int, IsFiniteSet(I), I # {}, NEW span \in [I -> Nat \X Nat],
           \A i \in I : span[i][1] < span[i][2]
    PROVE  /\ InOrderOfStart(Ordered(span))
           /\ Covered(Ordered(span), Len(Ordered(span)))
                 = {x \in Nat : \E i \in I : span[i][1] <= x /\ x < span[i][2]}
<1> DEFINE R == Before(span)
           n == Cardinality(I)
           s == Sorted(I, R)
           o == Ordered(span)
<1>1. DOMAIN span = I /\ \A i \in I : span[i][1] \in Nat /\ span[i][2] \in Nat /\ i \in Int
  OBVIOUS
<1>2. \A i, j \in I : <<i, j>> \in R <=>
          \/ span[i][1] < span[j][1]
          \/ span[i][1] = span[j][1] /\ span[i][2] < span[j][2]
          \/ span[i][1] = span[j][1] /\ span[i][2] = span[j][2] /\ i < j
  BY <1>1 DEF Before
<1> HIDE DEF R
<1>3. StrictlyOrdered(I, R)
  <2>1. \A i \in I : <<i, i>> \notin R
    BY <1>1, <1>2
  <2>2. ASSUME NEW i \in I, NEW j \in I, NEW k \in I, <<i, j>> \in R, <<j, k>> \in R
        PROVE  <<i, k>> \in R
    BY <1>1, <1>2, <2>2
  <2>3. ASSUME NEW i \in I, NEW j \in I, i # j, <<i, j>> \notin R PROVE <<j, i>> \in R
    <3>1. /\ span[i][1] \in Nat /\ span[i][2] \in Nat /\ span[j][1] \in Nat
          /\ span[j][2] \in Nat /\ i \in Int /\ j \in Int
      BY <1>1
    <3>2. /\ ~(span[i][1] < span[j][1])
          /\ ~(span[i][1] = span[j][1] /\ span[i][2] < span[j][2])
          /\ ~(span[i][1] = span[j][1] /\ span[i][2] = span[j][2] /\ i < j)
      BY <1>2, <2>3
    <3>3. \/ span[j][1] < span[i][1]
          \/ span[j][1] = span[i][1] /\ span[j][2] < span[i][2]
          \/ span[j][1] = span[i][1] /\ span[j][2] = span[i][2] /\ j < i
      BY <2>3, <3>1, <3>2
    <3> QED
      BY <1>2, <3>3
  <2> QED
    BY <2>1, <2>2, <2>3 DEF StrictlyOrdered
<1>4. /\ n \in Nat /\ s \in [1 .. n -> I]
      /\ \A p, q \in 1 .. n : <<s[p], s[q]>> \in R <=> p < q
      /\ \A i \in I : \E p \in 1 .. n : s[p] = i
  <2>1. /\ Cardinality(I) \in Nat
        /\ Sorted(I, R) \in [1 .. Cardinality(I) -> I]
        /\ \A p, q \in 1 .. Cardinality(I) :
              /\ <<Sorted(I, R)[p], Sorted(I, R)[q]>> \in R <=> p < q
              /\ Sorted(I, R)[p] = Sorted(I, R)[q] => p = q
        /\ \A x \in I : \E p \in 1 .. Cardinality(I) : Sorted(I, R)[p] = x
    BY <1>3, SortedMeans, SMTT(30)
  <2> QED
    BY <2>1
<1>5. n > 0
  <2>1. PICK i \in I : TRUE
    OBVIOUS
  <2>2. PICK p \in 1 .. n : s[p] = i
    BY <1>4, <2>1
  <2> HIDE DEF n
  <2> QED
    BY <1>4, <2>2
<1>6. o = [p \in DOMAIN s |-> span[s[p]]]
  BY <1>1 DEF Ordered, R
<1> HIDE DEF n, s, o
<1>7. o = [p \in 1 .. n |-> span[s[p]]]
  BY <1>4, <1>6
<1>8. \A p \in 1 .. n : o[p] = span[s[p]] /\ s[p] \in I /\ o[p] \in Nat \X Nat
  BY <1>4, <1>7
<1>9. o \in Seq(Nat \X Nat) /\ Len(o) = n
  <2>1. o \in [1 .. n -> Nat \X Nat]
    BY <1>7, <1>8
  <2> QED
    BY <1>4, <2>1
<1>10. \A p \in 1 .. n : o[p][1] < o[p][2]
  BY <1>8
<1>11. ASSUME NEW p \in 1 .. n - 1 PROVE o[p][1] <= o[p + 1][1]
  <2> DEFINE q == p + 1
  <2>1. p \in 1 .. n /\ q \in 1 .. n /\ p < q
    BY <1>4
  <2> HIDE DEF q
  <2>2. <<s[p], s[q]>> \in R
    BY <1>4, <2>1
  <2>3. s[p] \in I /\ s[q] \in I
    BY <1>4, <2>1
  <2> DEFINE i == s[p]
             j == s[q]
  <2>4. span[i][1] <= span[j][1]
    <3>1. i \in I /\ j \in I /\ <<i, j>> \in R
      BY <2>2, <2>3
    <3> HIDE DEF i, j
    <3> QED
      BY <1>1, <1>2, <3>1
  <2>5. o[p][1] <= o[q][1]
    BY <1>8, <2>1, <2>4
  <2> QED
    BY <2>5 DEF q
<1>12. InOrderOfStart(o)
  <2>1. Len(o) \in Nat \ {0} /\ Len(o) = n /\ o \in Seq(Nat \X Nat)
    BY <1>4, <1>5, <1>9
  <2>2. \A p \in 1 .. n : o[p] \in Nat \X Nat /\ o[p][1] < o[p][2]
    BY <1>8, <1>10
  <2> QED
    BY <1>11, <2>1, <2>2, Zenon DEF InOrderOfStart
<1>13. Covered(o, n) = {x \in Nat : \E i \in I : span[i][1] <= x /\ x < span[i][2]}
  <2>1. ASSUME NEW x \in Nat
        PROVE  (\E p \in 1 .. n : o[p][1] <= x /\ x < o[p][2])
                 <=> (\E i \in I : span[i][1] <= x /\ x < span[i][2])
    <3>1. ASSUME NEW p \in 1 .. n, o[p][1] <= x, x < o[p][2]
          PROVE  \E i \in I : span[i][1] <= x /\ x < span[i][2]
      BY <1>8, <3>1
    <3>2. ASSUME NEW i \in I, span[i][1] <= x, x < span[i][2]
          PROVE  \E p \in 1 .. n : o[p][1] <= x /\ x < o[p][2]
      <4>1. PICK p \in 1 .. n : s[p] = i
        BY <1>4
      <4>2. o[p] = span[i]
        BY <1>8, <4>1
      <4> QED
        BY <3>2, <4>2
    <3> QED
      BY <3>1, <3>2
  <2> QED
    BY <2>1 DEF Covered
<1> QED
  BY <1>9, <1>12, <1>13 DEF o

\* The places that a text shows, in order: from its start to its end, each once.
LEMMA ShownMeans ==
    ASSUME NEW t, NEW start, NEW end, NEW S, Reads(t, start, end, S)
    PROVE  /\ Shown(t) \in Seq(Int) /\ Len(Shown(t)) \in Nat \ {0}
           /\ \A k \in 1 .. Len(Shown(t)) - 1 : Shown(t)[k] < Shown(t)[k + 1]
           /\ Shown(t)[1] = start /\ Shown(t)[Len(Shown(t))] = end - 1
           /\ ToSet(Shown(t)) = S
<1> DEFINE I == {k \in DOMAIN t : t[k] # Seam}
           n == Cardinality(I)
           s == Shown(t)
           a == Ascending(I)
<1>1. /\ t \in Seq(Int) /\ Len(t) \in Nat \ {0} /\ DOMAIN t = 1 .. Len(t)
      /\ start \in Nat /\ end \in Nat /\ t[1] = start /\ t[Len(t)] = end - 1 /\ start < end
  BY DEF Reads, Text
<1>2. I \in SUBSET DOMAIN t
  OBVIOUS
<1>3. /\ s \in Seq(Int) /\ Len(s) = n /\ n \in 0 .. Len(t)
      /\ a \in [1 .. n -> I]
      /\ \A p \in 1 .. n : s[p] = t[a[p]]
      /\ \A p, q \in 1 .. n : a[p] < a[q] <=> p < q
      /\ \A i \in I : \E p \in 1 .. n : a[p] = i
  <2>1. s = Picked(t, I)
    BY DEF Shown
  <2> HIDE DEF I, s
  <2>2. /\ IsFiniteSet(I) /\ Cardinality(I) \in 0 .. Len(t)
        /\ Picked(t, I) \in Seq(Int) /\ Len(Picked(t, I)) = Cardinality(I)
        /\ Ascending(I) \in [1 .. Cardinality(I) -> I]
        /\ \A p \in 1 .. Cardinality(I) : Picked(t, I)[p] = t[Ascending(I)[p]]
        /\ \A p, q \in 1 .. Cardinality(I) : Ascending(I)[p] < Ascending(I)[q] <=> p < q
        /\ \A p, q \in 1 .. Cardinality(I) : Ascending(I)[p] = Ascending(I)[q] => p = q
        /\ \A i \in I : \E p \in 1 .. Cardinality(I) : Ascending(I)[p] = i
    <3>1. PickedList(Int, t, I)
      BY <1>1, <1>2, PickedMeans
    <3> QED
      BY <3>1 DEF PickedList
  <2> QED
    BY <2>1, <2>2
<1>4. 1 \in I /\ Len(t) \in I /\ \A i \in I : i \in 1 .. Len(t) /\ t[i] # Seam
  BY <1>1 DEF Seam
<1>5. \A i, j \in I : i < j => t[i] < t[j]
  BY <1>4 DEF Reads, Forward
<1>6. DOMAIN s = 1 .. n
  BY <1>3
<1> HIDE DEF I, s, a, n
<1>7. PICK p \in 1 .. n : a[p] = 1
  BY <1>3, <1>4
<1>8. PICK q \in 1 .. n : a[q] = Len(t)
  BY <1>3, <1>4
<1>9. n \in Nat \ {0} /\ 1 \in 1 .. n /\ n \in 1 .. n
  BY <1>1, <1>3, <1>7
<1>10. a[1] = 1
  <2>1. a[1] \in I /\ a[1] >= 1
    BY <1>1, <1>3, <1>4, <1>9
  <2>2. p = 1 \/ 1 < p
    BY <1>7, <1>9
  <2>3. 1 < p => a[1] < a[p]
    BY <1>3, <1>7, <1>9
  <2> QED
    BY <1>1, <1>4, <1>7, <2>1, <2>2, <2>3
<1>11. a[n] = Len(t)
  <2>1. a[n] \in I /\ a[n] <= Len(t)
    BY <1>1, <1>3, <1>4, <1>9
  <2>2. q = n \/ q < n
    BY <1>8, <1>9
  <2>3. q < n => a[q] < a[n]
    BY <1>3, <1>8, <1>9
  <2> QED
    BY <1>1, <1>4, <1>8, <2>1, <2>2, <2>3
<1>12. s[1] = start /\ s[n] = end - 1
  BY <1>1, <1>3, <1>9, <1>10, <1>11
<1>13. ASSUME NEW k \in 1 .. n - 1 PROVE s[k] < s[k + 1]
  <2> DEFINE j == k + 1
  <2>1. k \in 1 .. n /\ j \in 1 .. n /\ k < j
    BY <1>9
  <2> HIDE DEF j
  <2>2. a[k] \in I /\ a[j] \in I /\ a[k] < a[j] /\ s[k] = t[a[k]] /\ s[j] = t[a[j]]
    BY <1>3, <2>1
  <2>3. s[k] < s[j]
    BY <1>5, <2>2
  <2> QED
    BY <2>3 DEF j
<1>14. ToSet(s) = S
  <2>1. ASSUME NEW k \in 1 .. n PROVE s[k] \in S
    <3>1. a[k] \in I /\ s[k] = t[a[k]]
      BY <1>3
    <3> QED
      BY <1>4, <3>1 DEF Reads, Shows
  <2>2. ASSUME NEW x \in S PROVE \E k \in 1 .. n : s[k] = x
    <3>1. PICK i \in 1 .. Len(t) : t[i] = x
      BY DEF Reads, Shows
    <3>2. x # Seam
      BY DEF Reads, Shows
    <3>3. i \in I
      BY <1>1, <3>1, <3>2 DEF I
    <3>4. PICK k \in 1 .. n : a[k] = i
      BY <1>3, <3>3
    <3> QED
      BY <1>3, <3>1, <3>4
  <2> QED
    BY <1>6, <2>1, <2>2 DEF ToSet
<1> QED
  BY <1>3, <1>9, <1>12, <1>13, <1>14 DEF s


\* What is said of a text that reads on.
InDocumentOrder(text) ==
    /\ \A k \in 1 .. Len(Shown(text)) - 1 : Shown(text)[k] < Shown(text)[k + 1]
    /\ \A k \in 2 .. Len(text) - 1 :
          text[k] = Seam => text[k - 1] # Seam /\ text[k + 1] > text[k - 1] + 1
    /\ \A k \in 1 .. Len(text) - 1 :
          text[k] # Seam /\ text[k + 1] # Seam => text[k + 1] = text[k] + 1

LEMMA ReadsInOrder ==
    ASSUME NEW t, NEW start, NEW end, NEW S, Reads(t, start, end, S)
    PROVE  InDocumentOrder(t)
<1>1. \A k \in 1 .. Len(Shown(t)) - 1 : Shown(t)[k] < Shown(t)[k + 1]
  BY ShownMeans
<1>2. Seamed(t) /\ Consecutive(t) /\ Len(t) \in Nat
  BY DEF Reads, Text
<1>3. \A k \in 2 .. Len(t) - 1 : k \in 1 .. Len(t)
  BY <1>2
<1> QED
  BY <1>1, <1>2, <1>3 DEF InDocumentOrder, Seamed, Consecutive

\* A single span, which may be empty.
LEMMA SpanInOrder ==
    ASSUME NEW a \in Nat, NEW b \in Nat
    PROVE  InDocumentOrder(TextOf(<<a, b>>))
<1> DEFINE t == TextOf(<<a, b>>)
<1>1. CASE a < b
  BY <1>1, SpanReads, ReadsInOrder
<1>2. CASE ~(a < b)
  <2>1. t \in Seq(Int) /\ Len(t) = IF b > a THEN b - a ELSE 0
    BY TextOfMeans
  <2> HIDE DEF t
  <2>2. Len(t) = 0
    BY <1>2, <2>1
  <2> DEFINE I == {k \in DOMAIN t : t[k] # Seam}
  <2>3. Cardinality(I) \in 0 .. Len(t) /\ Len(Shown(t)) = Cardinality(I)
    <3>1. I \in SUBSET DOMAIN t /\ Shown(t) = Picked(t, I)
      BY DEF Shown
    <3> HIDE DEF I
    <3>2. PickedList(Int, t, I)
      BY <2>1, <3>1, PickedMeans
    <3> QED
      BY <3>1, <3>2 DEF PickedList
  <2> HIDE DEF I
  <2>4. Len(Shown(t)) = 0
    BY <2>2, <2>3
  <2>5. 1 .. Len(t) - 1 = {} /\ 2 .. Len(t) - 1 = {} /\ 1 .. Len(Shown(t)) - 1 = {}
    BY <2>2, <2>4
  <2>6. InDocumentOrder(t)
    BY <2>5, Zenon DEF InDocumentOrder
  <2> QED
    BY <2>6 DEF t
<1> QED
  BY <1>1, <1>2

\* The calls, and the text that a chunk was indexed with.
LEMMA ExpansionCallsMean ==
    ASSUME NEW c \in ExpansionCalls
    PROVE  /\ c.function = "expand_context"
           /\ c.doc \in [Indices -> Spans \cup {Missing}] /\ c.window \in Nat
           /\ c.target.index \in Indices \cup {Missing}
           /\ c.target.span \in Spans \cup {Missing}
           /\ c.target.index \in Indices /\ c.doc[c.target.index] # Missing
                 /\ c.target.span # Missing
                    => c.target.span = c.doc[c.target.index]
<1>1. /\ c \in [function : {"expand_context"}, doc : [Indices -> Spans \cup {Missing}],
                target : Targets, window : Windows]
      /\ c.target.index \in Indices /\ c.doc[c.target.index] # Missing
            /\ c.target.span # Missing
               => c.target.span = c.doc[c.target.index]
  BY DEF ExpansionCalls
<1>2. c.target \in Targets
  BY <1>1
<1>3. /\ c.target.index \in Indices \cup {Missing}
      /\ c.target.span \in Spans \cup {Missing}
  BY <1>2 DEF Targets
<1> QED
  BY <1>1, <1>3, PromptContextAssumption

LEMMA TargetMeans ==
    ASSUME NEW c \in ExpansionCalls
    PROVE  LET target == Target(c.target, c.doc)
           IN  /\ target.index = c.target.index /\ target.span = c.target.span
               /\ \E a, b \in Nat : target.text = TextOf(<<a, b>>)
               /\ c.target.index \in Indices /\ c.doc[c.target.index] # Missing
                     => target.text = TextOf(c.doc[c.target.index])
               /\ c.target.span # Missing => target.text = TextOf(c.target.span)
<1> DEFINE target == Target(c.target, c.doc)
           i == c.target.index
           s == c.target.span
           doc == c.doc
<1>1. /\ doc \in [Indices -> Spans \cup {Missing}] /\ s \in Spans \cup {Missing}
      /\ i \in Indices /\ doc[i] # Missing /\ s # Missing => s = doc[i]
  BY ExpansionCallsMean
<1>2. /\ target.index = i /\ target.span = s
      /\ target.text = IF s # Missing THEN TextOf(s)
                       ELSE IF i \in Indices /\ doc[i] # Missing THEN TextOf(doc[i])
                       ELSE << >>
  BY DEF Target
<1> HIDE DEF target, i, s, doc
<1>3. \A p \in Spans : \E a, b \in Nat : TextOf(p) = TextOf(<<a, b>>)
  <2> SUFFICES ASSUME NEW p \in Spans PROVE \E a, b \in Nat : TextOf(p) = TextOf(<<a, b>>)
    OBVIOUS
  <2>1. p \in Nat \X Nat
    BY PromptContextAssumption
  <2>2. p = <<p[1], p[2]>> /\ p[1] \in Nat /\ p[2] \in Nat
    BY <2>1
  <2> QED
    BY <2>2
<1>4. \E a, b \in Nat : << >> = TextOf(<<a, b>>)
  <2>1. TextOf(<<0, 0>>) \in Seq(Int) /\ Len(TextOf(<<0, 0>>)) = 0
    <3>1. \A a, b \in Nat : TextOf(<<a, b>>) \in Seq(Int)
                              /\ Len(TextOf(<<a, b>>)) = IF b > a THEN b - a ELSE 0
      BY TextOfMeans
    <3>2. 0 \in Nat /\ ~(0 > 0)
      OBVIOUS
    <3> QED
      BY <3>1, <3>2
  <2>2. TextOf(<<0, 0>>) = << >>
    BY <2>1, EmptySeq
  <2> QED
    BY <2>2
<1>5. i \in Indices /\ doc[i] # Missing => doc[i] \in Spans
  BY <1>1
<1>6. \E a, b \in Nat : target.text = TextOf(<<a, b>>)
  <2>1. CASE s # Missing
    BY <1>1, <1>2, <1>3, <2>1
  <2>2. CASE s = Missing /\ i \in Indices /\ doc[i] # Missing
    BY <1>2, <1>3, <1>5, <2>2
  <2>3. CASE s = Missing /\ ~(i \in Indices /\ doc[i] # Missing)
    BY <1>2, <1>4, <2>3
  <2> QED
    BY <2>1, <2>2, <2>3
<1>7. i \in Indices /\ doc[i] # Missing => target.text = TextOf(doc[i])
  BY <1>1, <1>2
<1>8. s # Missing => target.text = TextOf(s)
  BY <1>2
<1> QED
  BY <1>2, <1>6, <1>7, <1>8 DEF target, i, s, doc


\* The chunks of the window, and what they have in them.
WindowOf(c) ==
    Near(c.target.index, c.doc, c.window) \cup {c.target.index}

SpansOf(c) ==
    [i \in WindowOf(c) |-> IF i \in Near(c.target.index, c.doc, c.window) THEN c.doc[i]
                           ELSE c.target.span]

InWindow(c) == {x \in Nat : \E i \in WindowOf(c) : SpansOf(c)[i][1] <= x /\ x < SpansOf(c)[i][2]}

\* The chunk has a place in its document, and so have its neighbours.
Widens(c) ==
    /\ c.target.index # Missing
    /\ c.target.index \in Near(c.target.index, c.doc, c.window) \/ c.target.span # Missing
    /\ ~ \E i \in WindowOf(c) : SpansOf(c)[i][2] <= SpansOf(c)[i][1]

LEMMA ExpansionIs ==
    ASSUME NEW c \in ExpansionCalls
    PROVE  LET target == Target(c.target, c.doc)
               expanded == ExpandContext(target, c.doc, c.window)
               merged == MergeSpans(Ordered(SpansOf(c)))
           IN  /\ ~Widens(c) => expanded = Single(target)
               /\ Widens(c) => expanded = [text |-> merged.text, range |-> merged.range,
                                           indices |-> WindowOf(c)]
<1> DEFINE target == Target(c.target, c.doc)
           merged == MergeSpans(Ordered(SpansOf(c)))
<1>1. target.index = c.target.index /\ target.span = c.target.span
  BY TargetMeans
<1> HIDE DEF target
<1>2. ExpandContext(target, c.doc, c.window)
        = IF ~Widens(c) THEN Single(target)
          ELSE [text |-> merged.text, range |-> merged.range, indices |-> WindowOf(c)]
  <2>1. ExpandContext(target, c.doc, c.window)
          = IF \/ c.target.index = Missing
               \/ c.target.index \notin Near(c.target.index, c.doc, c.window)
                    /\ c.target.span = Missing
               \/ \E i \in WindowOf(c) : SpansOf(c)[i][2] <= SpansOf(c)[i][1]
            THEN Single(target)
            ELSE [text |-> merged.text, range |-> merged.range, indices |-> WindowOf(c)]
    BY <1>1, Zenon DEF ExpandContext, WindowOf, SpansOf
  <2>2. ~Widens(c) <=> \/ c.target.index = Missing
                       \/ c.target.index \notin Near(c.target.index, c.doc, c.window)
                            /\ c.target.span = Missing
                       \/ \E i \in WindowOf(c) : SpansOf(c)[i][2] <= SpansOf(c)[i][1]
    BY DEF Widens
  <2> QED
    BY <2>1, <2>2, Zenon
<1> HIDE DEF merged
<1>3. /\ ~Widens(c) => ExpandContext(target, c.doc, c.window) = Single(target)
      /\ Widens(c) => ExpandContext(target, c.doc, c.window)
                        = [text |-> merged.text, range |-> merged.range,
                           indices |-> WindowOf(c)]
  BY <1>2, Zenon
<1> QED
  BY <1>3 DEF target, merged

\* The window is of finitely many chunks, each with a place, and the target is in it.
LEMMA WindowMeans ==
    ASSUME NEW c \in ExpansionCalls, Widens(c)
    PROVE  /\ WindowOf(c) \in SUBSET Int /\ IsFiniteSet(WindowOf(c)) /\ WindowOf(c) # {}
           /\ SpansOf(c) \in [WindowOf(c) -> Nat \X Nat]
           /\ \A i \in WindowOf(c) : SpansOf(c)[i][1] < SpansOf(c)[i][2]
           /\ c.target.index \in WindowOf(c)
           /\ Target(c.target, c.doc).text = TextOf(SpansOf(c)[c.target.index])
           /\ \A i \in WindowOf(c) :
                 i \in Placed(c.doc) => SpansOf(c)[i] = c.doc[i]
           /\ \A i \in WindowOf(c) : i \in Placed(c.doc) \/ i = c.target.index
<1> DEFINE t == c.target.index
           s == c.target.span
           doc == c.doc
           w == c.window
           near == Near(t, doc, w)
           I == WindowOf(c)
           span == SpansOf(c)
<1>1. /\ doc \in [Indices -> Spans \cup {Missing}] /\ w \in Nat
      /\ t \in Indices \cup {Missing} /\ s \in Spans \cup {Missing}
      /\ t \in Indices /\ doc[t] # Missing /\ s # Missing => s = doc[t]
  BY ExpansionCallsMean
<1>2. /\ t # Missing /\ (t \in near \/ s # Missing)
      /\ \A i \in I : ~(span[i][2] <= span[i][1])
  BY DEF Widens
<1>3. near = {i \in Placed(doc) : t - w <= i /\ i <= t + w}
  BY DEF Near
<1>4. Placed(doc) = {i \in Indices : doc[i] # Missing}
  BY DEF Placed
<1>5. I = near \cup {t}
  BY DEF WindowOf
<1>6. span = [i \in I |-> IF i \in near THEN doc[i] ELSE s]
  BY DEF SpansOf, WindowOf
<1>7. /\ Target(c.target, doc).text = Target(c.target, c.doc).text
      /\ t \in Indices /\ doc[t] # Missing => Target(c.target, c.doc).text = TextOf(doc[t])
      /\ s # Missing => Target(c.target, c.doc).text = TextOf(s)
  BY TargetMeans
<1> HIDE DEF t, s, doc, w, near, I, span
<1>8. Indices \subseteq Nat /\ Spans \subseteq Nat \X Nat
  BY PromptContextAssumption
<1>9. t \in Indices /\ t \in Nat
  BY <1>1, <1>2, <1>8
<1>10. near \subseteq Indices /\ I \subseteq Indices /\ I \in SUBSET Int
  <2>1. near \subseteq Indices
    BY <1>3, <1>4
  <2>2. I \subseteq Indices
    BY <1>5, <1>9, <2>1
  <2> QED
    BY <1>8, <2>1, <2>2
<1>11. IsFiniteSet(I)
  <2>1. t - w \in Int /\ t + w \in Int
    BY <1>1, <1>9
  <2>2. IsFiniteSet((t - w) .. (t + w))
    BY <2>1, FS_Interval
  <2>3. near \in SUBSET ((t - w) .. (t + w))
    <3>1. \A i \in near : i \in Int /\ t - w <= i /\ i <= t + w
      BY <1>3, <1>8, <1>10
    <3> QED
      BY <2>1, <3>1
  <2>4. IsFiniteSet(near)
    BY <2>2, <2>3, FS_Subset
  <2> QED
    BY <1>5, <2>4, FS_AddElement
<1>12. t \in I
  BY <1>5
<1>13. t \in near <=> doc[t] # Missing
  <2>1. t - w <= t /\ t <= t + w
    BY <1>1, <1>9
  <2> QED
    BY <1>3, <1>4, <1>9, <2>1
<1>14. \A i \in I : span[i] = (IF i \in near THEN doc[i] ELSE s)
  BY <1>6
<1>15. \A i \in I : i \in near \/ (i = t /\ i \notin near)
  BY <1>5
<1>16. \A i \in near : i \in I /\ span[i] = doc[i] /\ doc[i] \in Spans
  BY <1>1, <1>3, <1>4, <1>5, <1>14
<1>17. t \notin near => span[t] = s /\ s # Missing /\ s \in Spans
  BY <1>1, <1>2, <1>12, <1>14
<1>18. \A i \in I : span[i] \in Nat \X Nat
  BY <1>8, <1>15, <1>16, <1>17
<1>19. span \in [I -> Nat \X Nat]
  BY <1>6, <1>18
<1>20. \A i \in I : span[i][1] < span[i][2]
  <2> SUFFICES ASSUME NEW i \in I PROVE span[i][1] < span[i][2]
    OBVIOUS
  <2>1. span[i][1] \in Nat /\ span[i][2] \in Nat
    BY <1>18
  <2>2. ~(span[i][2] <= span[i][1])
    BY <1>2
  <2> QED
    BY <2>1, <2>2
<1>21. Target(c.target, c.doc).text = TextOf(span[t])
  <2>1. CASE t \in near
    BY <1>7, <1>9, <1>13, <1>16, <2>1
  <2>2. CASE t \notin near
    BY <1>7, <1>17, <2>2
  <2> QED
    BY <2>1, <2>2
<1>22. \A i \in I : i \in Placed(doc) => i \in near
  BY <1>4, <1>13, <1>15
<1>23. \A i \in I : i \in Placed(doc) => span[i] = doc[i]
  BY <1>16, <1>22
<1>24. \A i \in I : i \in Placed(doc) \/ i = t
  BY <1>3, <1>5
<1> QED
  BY <1>10, <1>11, <1>12, <1>19, <1>20, <1>21, <1>23, <1>24 DEF t, s, doc, I, span

\* A widened text shows what the window has in it, and all of that.
LEMMA WidenedMeans ==
    ASSUME NEW c \in ExpansionCalls, Widens(c)
    PROVE  LET merged == MergeSpans(Ordered(SpansOf(c)))
           IN  /\ InDocumentOrder(merged.text)
               /\ InWindow(c) \subseteq ToSet(merged.text)
               /\ ToSet(Shown(merged.text)) = InWindow(c)
               /\ Shown(merged.text) # << >>
               /\ merged.range = <<Shown(merged.text)[1],
                                   Shown(merged.text)[Len(Shown(merged.text))] + 1>>
<1> DEFINE o == Ordered(SpansOf(c))
           merged == MergeSpans(o)
           t == merged.text
           start == o[1][1]
           S == InWindow(c)
           shown == Shown(t)
<1>1. InOrderOfStart(o) /\ Covered(o, Len(o)) = S
  <2>1. /\ WindowOf(c) \in SUBSET Int /\ IsFiniteSet(WindowOf(c)) /\ WindowOf(c) # {}
        /\ SpansOf(c) \in [WindowOf(c) -> Nat \X Nat]
        /\ \A i \in WindowOf(c) : SpansOf(c)[i][1] < SpansOf(c)[i][2]
    BY WindowMeans
  <2> HIDE DEF o
  <2> QED
    BY <2>1, OrderedMeans DEF InWindow, o
<1>2. PICK e \in Nat : merged.range = <<start, e>> /\ Reads(t, start, e, S)
  <2> HIDE DEF o, S
  <2> QED
    BY <1>1, MergeMeans
<1> HIDE DEF o, merged, t, start, S, shown
<1>3. InDocumentOrder(t)
  BY <1>2, ReadsInOrder
<1>4. /\ shown \in Seq(Int) /\ Len(shown) \in Nat \ {0}
      /\ shown[1] = start /\ shown[Len(shown)] = e - 1
      /\ ToSet(shown) = S
  BY <1>2, ShownMeans DEF shown
<1>5. S \subseteq ToSet(t)
  <2>1. DOMAIN t = 1 .. Len(t) /\ \A x \in S : \E k \in 1 .. Len(t) : t[k] = x
    BY <1>2 DEF Reads, Text, Shows
  <2> QED
    BY <2>1 DEF ToSet
<1>6. shown # << >>
  BY <1>4
<1>7. merged.range = <<shown[1], shown[Len(shown)] + 1>>
  BY <1>2, <1>4
<1> QED
  BY <1>3, <1>4, <1>5, <1>6, <1>7 DEF shown, t, merged, o, S

\* What a chunk's text has in it.
LEMMA SpanHas ==
    ASSUME NEW p \in Nat \X Nat
    PROVE  ToSet(TextOf(p)) = {x \in Nat : p[1] <= x /\ x < p[2]}
<1> DEFINE a == p[1]
           b == p[2]
<1>1. a \in Nat /\ b \in Nat /\ p = <<a, b>>
  OBVIOUS
<1> HIDE DEF a, b
<1>2. ToSet(TextOf(<<a, b>>)) = a .. b - 1
  BY <1>1, TextOfMeans
<1>3. a .. b - 1 = {x \in Nat : a <= x /\ x < b}
  BY <1>1
<1> QED
  BY <1>1, <1>2, <1>3 DEF a, b

LEMMA WindowReadsOn ==
    ASSUME Of("expand_context") =>
              /\ call \in ExpansionCalls
              /\ result = ExpandContext(Target(call.target, call.doc), call.doc, call.window)
    PROVE  ContextReadsOn
<1> SUFFICES ASSUME Of("expand_context") PROVE ContextReadsOn
  BY DEF ContextReadsOn
<1> DEFINE c == call
           target == Target(call.target, call.doc)
           text == result.text
           shown == Shown(text)
<1>1. call \in ExpansionCalls /\ result = ExpandContext(target, call.doc, call.window)
  OBVIOUS
<1>2. target.index = call.target.index
  BY <1>1, TargetMeans
<1>3. CASE ~Widens(call)
  <2>1. result = Single(target)
    BY <1>1, <1>3, ExpansionIs
  <2>2. text = target.text /\ result.indices = {target.index}
    BY <2>1 DEF Single
  <2>3. PICK a \in Nat, b \in Nat : target.text = TextOf(<<a, b>>)
    BY <1>1, TargetMeans
  <2>4. InDocumentOrder(text)
    BY <2>2, <2>3, SpanInOrder
  <2>5. ToSet(target.text) \subseteq ToSet(text)
    BY <2>2
  <2> HIDE DEF target
  <2> QED
    BY <2>2, <2>4, <2>5 DEF ContextReadsOn, InDocumentOrder, target
<1>4. CASE Widens(call)
  <2> DEFINE merged == MergeSpans(Ordered(SpansOf(call)))
             I == WindowOf(call)
             span == SpansOf(call)
             t == call.target.index
             S == InWindow(call)
  <2>1. result = [text |-> merged.text, range |-> merged.range, indices |-> I]
    BY <1>1, <1>4, ExpansionIs
  <2>2. text = merged.text /\ result.range = merged.range /\ result.indices = I
    BY <2>1
  <2>3. /\ InDocumentOrder(text) /\ S \subseteq ToSet(text) /\ ToSet(shown) = S
        /\ shown # << >> /\ result.range = <<shown[1], shown[Len(shown)] + 1>>
    <3>1. /\ InDocumentOrder(merged.text)
          /\ S \subseteq ToSet(merged.text)
          /\ ToSet(Shown(merged.text)) = S
          /\ Shown(merged.text) # << >>
          /\ merged.range = <<Shown(merged.text)[1],
                              Shown(merged.text)[Len(Shown(merged.text))] + 1>>
      BY <1>1, <1>4, WidenedMeans
    <3> HIDE DEF merged, S
    <3> QED
      BY <2>2, <3>1
  <2>4. /\ span \in [I -> Nat \X Nat] /\ t \in I
        /\ target.text = TextOf(span[t])
        /\ \A i \in I : i \in Placed(call.doc) => span[i] = call.doc[i]
        /\ \A i \in I : i \in Placed(call.doc) \/ i = t
    BY <1>1, <1>4, WindowMeans
  <2>5. S = {x \in Nat : \E i \in I : span[i][1] <= x /\ x < span[i][2]}
    BY DEF InWindow
  <2> HIDE DEF span, I, t, S, target, text, shown
  <2>6. \A i \in I : ToSet(TextOf(span[i])) = {x \in Nat : span[i][1] <= x /\ x < span[i][2]}
    <3> SUFFICES ASSUME NEW i \in I
                 PROVE  ToSet(TextOf(span[i])) = {x \in Nat : span[i][1] <= x /\ x < span[i][2]}
      OBVIOUS
    <3>1. span[i] \in Nat \X Nat
      BY <2>4
    <3> QED
      BY <3>1, SpanHas
  <2>7. ToSet(target.text) \subseteq S
    BY <2>4, <2>5, <2>6
  <2>8. \A i \in I \cap Placed(call.doc) : ToSet(TextOf(call.doc[i])) \subseteq S
    BY <2>4, <2>5, <2>6
  <2>9. \A x \in S : x \in ToSet(target.text)
                     \/ \E i \in I \cap Placed(call.doc) : x \in ToSet(TextOf(call.doc[i]))
    <3> SUFFICES ASSUME NEW x \in S
                 PROVE  x \in ToSet(target.text)
                        \/ \E i \in I \cap Placed(call.doc) : x \in ToSet(TextOf(call.doc[i]))
      OBVIOUS
    <3>1. PICK i \in I : x \in Nat /\ span[i][1] <= x /\ x < span[i][2]
      BY <2>5
    <3>2. x \in ToSet(TextOf(span[i]))
      BY <2>6, <3>1
    <3> QED
      BY <2>4, <3>2
  <2>10. S = ToSet(target.text)
               \cup UNION {ToSet(TextOf(call.doc[i])) : i \in I \cap Placed(call.doc)}
    BY <2>7, <2>8, <2>9
  <2>11. ToSet(target.text) \subseteq ToSet(text)
    BY <2>3, <2>7
  <2>12. /\ shown # << >> /\ result.range = <<shown[1], shown[Len(shown)] + 1>>
         /\ ToSet(shown) = ToSet(target.text) \cup
               UNION {ToSet(TextOf(call.doc[i])) :
                         i \in result.indices \cap Placed(call.doc)}
    BY <2>2, <2>3, <2>10
  <2> QED
    BY <2>3, <2>11, <2>12 DEF ContextReadsOn, InDocumentOrder, text, shown, target
<1> QED
  BY <1>3, <1>4


-----------------------------------------------------------------------------
(* The budgets (apply_token_budget, _enforce_input_budget).                *)

\* When one value changes, the sum changes by as much.
LEMMA SumChanges ==
    ASSUME NEW n \in Nat, NEW f, NEW g, NEW i \in 1 .. n,
           \A j \in 1 .. n : f[j] \in Int /\ g[j] \in Int,
           \A j \in 1 .. n : j # i => g[j] = f[j]
    PROVE  /\ SumTo(f, n) \in Int /\ SumTo(g, n) \in Int
           /\ SumTo(g, n) = SumTo(f, n) + g[i] - f[i]
<1> DEFINE Good(m) == SumTo(g, m) = SumTo(f, m) + IF m < i THEN 0 ELSE g[i] - f[i]
           T == {m \in 0 .. n : Good(m)}
<1>1. ASSUME NEW m \in 0 .. n
      PROVE  /\ SumTo(f, 0) = 0 /\ SumTo(g, 0) = 0 /\ SumTo(f, m) \in Int /\ SumTo(g, m) \in Int
             /\ m > 0 => /\ SumTo(f, m) = SumTo(f, m - 1) + f[m]
                         /\ SumTo(g, m) = SumTo(g, m - 1) + g[m]
  <2>1. m \in Nat /\ \A j \in 1 .. m : f[j] \in Int /\ g[j] \in Int
    OBVIOUS
  <2> QED
    BY <2>1, SumSteps
<1>2. 0 \in T
  BY <1>1
<1>3. ASSUME NEW m \in 0 .. n - 1, m \in T PROVE m + 1 \in T
  <2> DEFINE k == m + 1
  <2>1. k \in 0 .. n /\ k \in 1 .. n /\ k > 0 /\ k - 1 = m /\ m \in 0 .. n
    OBVIOUS
  <2>2. SumTo(g, m) = SumTo(f, m) + IF m < i THEN 0 ELSE g[i] - f[i]
    BY <1>3
  <2>3. k < i <=> m < i /\ k # i
    BY <2>1
  <2>4. k = i => m < i
    BY <2>1
  <2> HIDE DEF k
  <2>5. /\ SumTo(f, k) = SumTo(f, m) + f[k] /\ SumTo(g, k) = SumTo(g, m) + g[k]
        /\ SumTo(f, m) \in Int /\ SumTo(g, m) \in Int
    BY <1>1, <2>1
  <2>6. f[k] \in Int /\ g[k] \in Int /\ f[i] \in Int /\ g[i] \in Int /\ (k # i => g[k] = f[k])
    BY <2>1
  <2>7. Good(k)
    <3>1. CASE k = i
      BY <2>2, <2>3, <2>4, <2>5, <2>6, <3>1
    <3>2. CASE k # i
      BY <2>2, <2>3, <2>5, <2>6, <3>2
    <3> QED
      BY <3>1, <3>2
  <2> QED
    BY <2>1, <2>7 DEF k
<1>4. 0 .. n \subseteq T
  <2> HIDE DEF T
  <2> QED
    BY <1>2, <1>3, Induction
<1>5. Good(n)
  <2>1. n \in 0 .. n
    OBVIOUS
  <2> HIDE DEF Good
  <2> QED
    BY <1>4, <2>1
<1>6. SumTo(f, n) \in Int /\ SumTo(g, n) \in Int /\ ~(n < i)
  BY <1>1
<1>7. f[i] \in Int /\ g[i] \in Int
  OBVIOUS
<1> QED
  BY <1>5, <1>6, <1>7

\* A quarter, rounded down.
LEMMA EstimateMeans ==
    ASSUME NEW x \in Nat
    PROVE  Estimate(x) \in Nat /\ 4 * Estimate(x) <= x /\ x <= 4 * Estimate(x) + 3
BY DEF Estimate

\* As short as a text may become when it is cut once.
Short == 97

\* A text that is cut, and what that costs or saves.
LEMMA CutMeans ==
    ASSUME NEW x \in Nat, NEW d \in Nat \ {0}
    PROVE  LET y == TruncateMiddle(x, 4 * d)
           IN  /\ y \in Nat
               /\ y <= Short \/ (y = x - 4 * d + 17 /\ Estimate(y) <= Estimate(x) - d + 5)
               /\ Estimate(y) <= Estimate(x) + 5
               /\ y = x => y <= Short
<1> DEFINE y == TruncateMiddle(x, 4 * d)
           keep == Later(Floor, x - 4 * d)
<1>1. keep \in Nat /\ keep >= 80 /\ keep >= x - 4 * d /\ (keep = 80 \/ keep = x - 4 * d)
  BY DEF Later, Floor
<1>2. 4 * d > 0
  OBVIOUS
<1>3. y = IF 4 * d <= 0 \/ keep >= x THEN x ELSE keep + MarkLength
  BY DEF TruncateMiddle
<1>4. y = IF keep >= x THEN x ELSE keep + 17
  BY <1>1, <1>2, <1>3 DEF MarkLength
<1> HIDE DEF y, keep
<1>5. CASE keep >= x
  <2>1. y = x /\ x <= 80
    BY <1>1, <1>2, <1>4, <1>5
  <2>2. Estimate(x) \in Nat
    BY EstimateMeans
  <2>3. y \in Nat /\ y <= Short /\ Estimate(y) <= Estimate(x) + 5
    BY <2>1, <2>2 DEF Short
  <2> QED
    BY <2>3 DEF y
<1>6. CASE ~(keep >= x) /\ keep = 80
  <2>1. y = 97 /\ x > 80
    BY <1>4, <1>6
  <2>2. Estimate(y) <= Estimate(x) + 5
    BY <2>1 DEF Estimate
  <2> QED
    BY <2>1, <2>2 DEF Short, y
<1>7. CASE ~(keep >= x) /\ keep = x - 4 * d
  <2>1. y = x - 4 * d + 17
    BY <1>4, <1>7
  <2>2. y \in Nat
    BY <1>1, <1>7, <2>1
  <2>3. Estimate(y) <= Estimate(x) - d + 5
    <3>1. /\ Estimate(y) \in Nat /\ 4 * Estimate(y) <= y /\ Estimate(x) \in Nat
          /\ x <= 4 * Estimate(x) + 3
      BY <2>2, EstimateMeans
    <3> QED
      BY <2>1, <2>2, <3>1
  <2>4. Estimate(x) \in Nat /\ Estimate(y) \in Nat
    BY <2>2, EstimateMeans
  <2>5. Estimate(y) <= Estimate(x) + 5
    BY <2>3, <2>4
  <2>6. y # x
    BY <2>1
  <2> QED
    BY <2>1, <2>2, <2>3, <2>5, <2>6 DEF y
<1> QED
  BY <1>1, <1>5, <1>6, <1>7

\* The lengths of n texts.
LEMMA LengthsMean ==
    ASSUME NEW n \in Nat, NEW x \in [1 .. n -> Nat]
    PROVE  /\ x \in Seq(Nat) /\ Len(x) = n /\ DOMAIN x = 1 .. n
           /\ Sum(x) = SumTo([j \in 1 .. n |-> Estimate(x[j])], n) /\ Sum(x) \in Int
<1>1. x \in Seq(Nat) /\ Len(x) = n /\ DOMAIN x = 1 .. n
  OBVIOUS
<1> DEFINE f == [j \in 1 .. n |-> Estimate(x[j])]
<1>2. \A j \in 1 .. n : f[j] \in Int
  <2> SUFFICES ASSUME NEW j \in 1 .. n PROVE f[j] \in Int
    OBVIOUS
  <2>1. x[j] \in Nat
    OBVIOUS
  <2>2. Estimate(x[j]) \in Nat
    BY <2>1, EstimateMeans
  <2> QED
    BY <2>2
<1>3. Sum(x) = SumTo(f, n)
  BY <1>1 DEF Sum
<1>4. SumTo(f, n) \in Int
  <2> HIDE DEF f
  <2> QED
    BY <1>2, SumSteps
<1> QED
  BY <1>1, <1>3, <1>4

\* The sum when one text has another length.
LEMMA SumOfCut ==
    ASSUME NEW n \in Nat, NEW x \in [1 .. n -> Nat], NEW z \in [1 .. n -> Nat],
           NEW i \in 1 .. n, \A j \in 1 .. n : j # i => z[j] = x[j]
    PROVE  Sum(z) = Sum(x) + Estimate(z[i]) - Estimate(x[i])
<1> DEFINE f == [j \in 1 .. n |-> Estimate(x[j])]
           g == [j \in 1 .. n |-> Estimate(z[j])]
<1>1. z \in [1 .. n -> Nat] /\ \A j \in 1 .. n : j # i => z[j] = x[j]
  OBVIOUS
<1>2. Sum(x) = SumTo(f, n) /\ Sum(z) = SumTo(g, n)
  BY <1>1, LengthsMean
<1>3. \A j \in 1 .. n : f[j] = Estimate(x[j]) /\ g[j] = Estimate(z[j])
  OBVIOUS
<1>4. \A j \in 1 .. n : x[j] \in Nat /\ z[j] \in Nat
  BY <1>1
<1>5. \A j \in 1 .. n : f[j] \in Int /\ g[j] \in Int
  <2>1. \A u \in Nat : Estimate(u) \in Int
    BY EstimateMeans
  <2> HIDE DEF f, g
  <2> QED
    BY <1>3, <1>4, <2>1
<1>6. \A j \in 1 .. n : j # i => g[j] = f[j]
  BY <1>1, <1>3
<1> HIDE DEF f, g
<1>7. SumTo(g, n) = SumTo(f, n) + g[i] - f[i]
  BY <1>5, <1>6, SumChanges
<1> QED
  BY <1>1, <1>2, <1>3, <1>7

\* A text that was shorter or longer by a multiple of four and a mark, or is short.
Trimmed(x, y) == y = x \/ y <= Short \/ \E d \in Nat \ {0} : y = x - 4 * d + 17

Touched(x, y) == y # x \/ y <= Short

\* What is left of n texts x after the last k were cut, as far as that was needed.
CutBack(x, y, n, k, max) ==
    /\ y \in [1 .. n -> Nat]
    /\ \A j \in 1 .. n - k : y[j] = x[j]
    /\ \A j \in 1 .. n : Trimmed(x[j], y[j])
    /\ Sum(y) > max => \A j \in n - k + 1 .. n : Touched(x[j], y[j])
    /\ \A i, j \in 1 .. n : i < j /\ y[i] # x[i] => Touched(x[j], y[j])
    /\ Sum(y) <= max + 5 * k \/ \A j \in n - k + 1 .. n : y[j] <= Short
    /\ Sum(y) <= Sum(x) + 5 * k

LEMMA NothingCut ==
    ASSUME NEW n \in Nat, NEW x \in [1 .. n -> Nat], NEW max \in Nat
    PROVE  CutBack(x, x, n, 0, max)
<1>1. n - 0 + 1 .. n = {}
  OBVIOUS
<1>2. Sum(x) \in Int
  BY LengthsMean
<1> QED
  BY <1>1, <1>2 DEF CutBack, Trimmed

\* One more text.
LEMMA TrimKeeps ==
    ASSUME NEW n \in Nat, NEW x \in [1 .. n -> Nat], NEW max \in Nat, NEW y,
           NEW k \in 0 .. n - 1, CutBack(x, y, n, k, max)
    PROVE  CutBack(x, Trim(y, n - k, max), n, k + 1, max)
<1> DEFINE z == Trim(y, n - k, max)
           i == n - k
           l == k + 1
<1>1. i \in 1 .. n /\ n - l + 1 = i /\ n - k + 1 = i + 1 /\ l = k + 1 /\ k \in Nat /\ n - l = i - 1
  OBVIOUS
<1>2. /\ y \in [1 .. n -> Nat]
      /\ \A j \in 1 .. i : y[j] = x[j]
      /\ \A j \in 1 .. n : Trimmed(x[j], y[j])
      /\ Sum(y) > max => \A j \in i + 1 .. n : Touched(x[j], y[j])
      /\ \A h, j \in 1 .. n : h < j /\ y[h] # x[h] => Touched(x[j], y[j])
      /\ Sum(y) <= max + 5 * k \/ \A j \in i + 1 .. n : y[j] <= Short
      /\ Sum(y) <= Sum(x) + 5 * k
  BY <1>1 DEF CutBack
<1>3. Sum(x) \in Int /\ Sum(y) \in Int
  BY <1>2, LengthsMean
<1>4. \A j \in i .. n : j \in 1 .. n /\ (j = i \/ j \in i + 1 .. n)
  BY <1>1
<1>5. \A j \in 1 .. n : j \in 1 .. i \/ j \in i + 1 .. n
  BY <1>1
<1>6. \A j \in 1 .. i - 1 : j \in 1 .. i /\ j \in 1 .. n /\ j # i
  BY <1>1
<1>7. z = IF Sum(y) <= max THEN y ELSE [y EXCEPT ![i] = TruncateMiddle(y[i], 4 * (Sum(y) - max))]
  BY DEF Trim
<1> HIDE DEF i, l, z
<1>8. CASE Sum(y) <= max
  <2>1. z = y
    BY <1>7, <1>8
  <2>2. ~(Sum(z) > max)
    BY <1>3, <1>8, <2>1
  <2>3. Sum(z) <= max + 5 * l /\ Sum(z) <= Sum(x) + 5 * l
    BY <1>1, <1>2, <1>3, <1>8, <2>1
  <2>4. \A j \in 1 .. n - l : z[j] = x[j]
    BY <1>1, <1>2, <1>6, <2>1
  <2>5. CutBack(x, z, n, l, max)
    BY <1>2, <2>1, <2>2, <2>3, <2>4 DEF CutBack
  <2> QED
    BY <2>5 DEF z, i, l
<1>9. CASE ~(Sum(y) <= max)
  <2> DEFINE d == Sum(y) - max
             v == TruncateMiddle(y[i], 4 * d)
  <2>1. d \in Nat \ {0} /\ d = Sum(y) - max
    BY <1>3, <1>9
  <2>2. y[i] \in Nat /\ y[i] = x[i]
    BY <1>1, <1>2
  <2>3. z = [y EXCEPT ![i] = v]
    BY <1>7, <1>9
  <2> HIDE DEF d
  <2>4. /\ v \in Nat
        /\ v <= Short \/ (v = y[i] - 4 * d + 17 /\ Estimate(v) <= Estimate(y[i]) - d + 5)
        /\ Estimate(v) <= Estimate(y[i]) + 5
        /\ v = y[i] => v <= Short
    BY <2>1, <2>2, CutMeans
  <2> HIDE DEF v
  <2>5. z \in [1 .. n -> Nat] /\ Sum(z) = Sum(y) + Estimate(v) - Estimate(y[i])
    <3>1. y \in [1 .. n -> Nat] /\ i \in 1 .. n /\ v \in Nat
      BY <1>1, <1>2, <2>4
    <3>2. /\ z \in [1 .. n -> Nat] /\ z[i] = v
          /\ \A j \in 1 .. n : j # i => z[j] = y[j]
      BY <2>3, <3>1
    <3>3. Sum(z) = Sum(y) + Estimate(z[i]) - Estimate(y[i])
      BY <3>1, <3>2, SumOfCut
    <3> QED
      BY <3>2, <3>3
  <2>6. z[i] = v /\ \A j \in 1 .. n : j # i => z[j] = y[j]
    BY <1>1, <1>2, <2>3
  <2>7. Estimate(v) \in Nat /\ Estimate(y[i]) \in Nat
    BY <2>2, <2>4, EstimateMeans
  <2>8. \A j \in i + 1 .. n : j \in 1 .. n /\ j # i /\ z[j] = y[j]
    BY <1>1, <2>6
  <2>9. \A j \in 1 .. n - l : z[j] = x[j]
    BY <1>1, <1>2, <1>6, <2>6
  <2>10. Trimmed(x[i], z[i])
    BY <2>1, <2>2, <2>4, <2>6 DEF Trimmed
  <2>11. \A j \in 1 .. n : Trimmed(x[j], z[j])
    BY <1>2, <2>6, <2>10
  <2>12. Touched(x[i], z[i])
    BY <2>2, <2>4, <2>6 DEF Touched
  <2>13. \A j \in i + 1 .. n : Touched(x[j], z[j])
    <3>1. Sum(y) > max
      BY <1>3, <1>9
    <3> QED
      BY <1>2, <2>8, <3>1
  <2>14. \A j \in i .. n : Touched(x[j], z[j])
    BY <1>4, <2>12, <2>13
  <2>15. ASSUME NEW h \in 1 .. n, NEW j \in 1 .. n, h < j, z[h] # x[h]
         PROVE  Touched(x[j], z[j])
    <3>1. h \in i .. n
      <4>1. h \in 1 .. i - 1 => z[h] = x[h]
        BY <1>2, <1>6, <2>6
      <4> QED
        BY <1>1, <2>15, <4>1
    <3>2. j \in i .. n
      BY <1>1, <2>15, <3>1
    <3> QED
      BY <2>14, <3>2
  <2> DEFINE sy == Sum(y)
             sz == Sum(z)
             ev == Estimate(v)
             ey == Estimate(y[i])
  <2>16. /\ sy \in Int /\ sz = sy + ev - ey /\ ev \in Nat /\ ey \in Nat /\ ev <= ey + 5
         /\ sy <= Sum(x) + 5 * k /\ Sum(x) \in Int /\ l = k + 1 /\ k \in Nat
         /\ d = sy - max /\ max \in Nat
    BY <1>1, <1>2, <1>3, <2>1, <2>4, <2>5, <2>7
  <2>17. Sum(z) <= max + 5 * l \/ \A j \in i .. n : z[j] <= Short
    <3>1. CASE v <= Short /\ \A j \in i + 1 .. n : y[j] <= Short
      BY <1>4, <2>6, <2>8, <3>1
    <3>2. CASE sy <= max + 5 * k
      <4>1. sz <= max + 5 * l
        <5> HIDE DEF sy, sz, ev, ey
        <5> QED
          BY <2>16, <3>2
      <4> QED
        BY <4>1
    <3>3. CASE ev <= ey - d + 5
      <4>1. sz <= max + 5 * l
        <5> HIDE DEF sy, sz, ev, ey
        <5> QED
          BY <2>16, <3>3
      <4> QED
        BY <4>1
    <3> QED
      BY <1>2, <2>4, <3>1, <3>2, <3>3
  <2>18. Sum(z) <= Sum(x) + 5 * l
    <3>1. sz <= Sum(x) + 5 * l
      <4> HIDE DEF sy, sz, ev, ey
      <4> QED
        BY <2>16
    <3> QED
      BY <3>1
  <2>19. CutBack(x, z, n, l, max)
    BY <1>1, <2>5, <2>9, <2>11, <2>14, <2>15, <2>17, <2>18 DEF CutBack
  <2> QED
    BY <2>19 DEF z, i, l
<1> QED
  BY <1>8, <1>9


LEMMA TrimStays ==
    ASSUME NEW n \in Nat, NEW y \in [1 .. n -> Nat], NEW i \in 1 .. n, NEW max \in Nat
    PROVE  Trim(y, i, max) \in [1 .. n -> Nat]
<1> DEFINE d == Sum(y) - max
           v == TruncateMiddle(y[i], 4 * d)
<1>1. Sum(y) \in Int /\ y[i] \in Nat
  BY LengthsMean
<1>2. Trim(y, i, max) = IF Sum(y) <= max THEN y ELSE [y EXCEPT ![i] = v]
  BY DEF Trim
<1>3. CASE Sum(y) <= max
  BY <1>2, <1>3
<1>4. CASE ~(Sum(y) <= max)
  <2>1. d \in Nat \ {0}
    BY <1>1, <1>4
  <2> HIDE DEF d
  <2>2. v \in Nat
    BY <1>1, <2>1, CutMeans
  <2> HIDE DEF v
  <2>3. [y EXCEPT ![i] = v] \in [1 .. n -> Nat]
    BY <2>2
  <2> QED
    BY <1>2, <1>4, <2>3
<1> QED
  BY <1>3, <1>4

\* The recursion of apply_token_budget.
Budgeting(lengths, max, texts) ==
    texts = [k \in 0 .. Len(lengths) - 1 |->
                IF k = 0 THEN lengths ELSE Trim(texts[k - 1], Len(lengths) - k + 1, max)]

\* What it passes through.
Cuts(n, x, max, g) ==
    /\ g \in [0 .. n - 1 -> [1 .. n -> Nat]]
    /\ ApplyTokenBudget(x, max) = g[n - 1] /\ g[0] = x
    /\ \A k \in 1 .. n - 1 : g[k] = Trim(g[k - 1], n - k + 1, max)

LEMMA BudgetingExists ==
    ASSUME NEW n \in Nat \ {0}, NEW x \in [1 .. n -> Nat], NEW max \in Nat \ {0}
    PROVE  \E g : Cuts(n, x, max, g)
<1> DEFINE N == n - 1
           V == [1 .. n -> Nat]
           step == [p \in (1 .. N) \X V |-> Trim(p[2], n - p[1] + 1, max)]
<1>1. N \in Nat /\ \A k \in 1 .. N : n - k + 1 \in 1 .. n
  OBVIOUS
<1>2. Len(x) = n
  BY LengthsMean
<1>3. step \in [(1 .. N) \X V -> V]
  <2>1. ASSUME NEW p \in (1 .. N) \X V PROVE Trim(p[2], n - p[1] + 1, max) \in V
    <3>1. p[1] \in 1 .. N /\ p[2] \in V
      OBVIOUS
    <3>2. n - p[1] + 1 \in 1 .. n
      BY <1>1, <3>1
    <3> DEFINE i == n - p[1] + 1
    <3>3. i \in 1 .. n /\ max \in Nat /\ n \in Nat
      BY <3>2
    <3> HIDE DEF i
    <3>4. Trim(p[2], i, max) \in V
      BY <3>1, <3>3, TrimStays
    <3> QED
      BY <3>4 DEF i
  <2> HIDE DEF N, V
  <2> QED
    BY <2>1
<1>4. PICK g : Upto(N, g, V, x, step)
  <2>1. x \in V
    OBVIOUS
  <2> HIDE DEF step, N, V
  <2> QED
    BY <1>1, <1>3, <2>1, RecursiveFunction
<1>5. g \in [0 .. N -> V] /\ g[0] = x /\ \A k \in 1 .. N : g[k] = step[<<k, g[k - 1]>>]
  BY <1>4 DEF Upto
<1> HIDE DEF V
<1>6. \A k \in 1 .. N, v \in V : step[<<k, v>>] = Trim(v, n - k + 1, max)
  <2> SUFFICES ASSUME NEW k \in 1 .. N, NEW v \in V
               PROVE  step[<<k, v>>] = Trim(v, n - k + 1, max)
    OBVIOUS
  <2>1. <<k, v>> \in (1 .. N) \X V
    OBVIOUS
  <2> HIDE DEF N
  <2> QED
    BY <2>1
<1> HIDE DEF step
<1>7. \A k \in 1 .. N : g[k] = Trim(g[k - 1], n - k + 1, max)
  <2> SUFFICES ASSUME NEW k \in 1 .. N PROVE g[k] = Trim(g[k - 1], n - k + 1, max)
    OBVIOUS
  <2>1. k - 1 \in 0 .. N
    BY <1>1
  <2>2. g[k - 1] \in V
    BY <1>5, <2>1
  <2> HIDE DEF N
  <2> QED
    BY <1>5, <1>6, <2>2
<1>8. Budgeting(x, max, g)
  <2>1. \A k \in 0 .. N : g[k] = IF k = 0 THEN x ELSE Trim(g[k - 1], n - k + 1, max)
    <3>1. \A k \in 0 .. N : k = 0 \/ k \in 1 .. N
      BY <1>1
    <3> HIDE DEF N
    <3> QED
      BY <1>5, <1>7, <3>1, Zenon
  <2>2. g = [k \in 0 .. N |-> g[k]]
    BY <1>5
  <2>3. g = [k \in 0 .. N |-> IF k = 0 THEN x ELSE Trim(g[k - 1], n - k + 1, max)]
    <3> HIDE DEF N
    <3> QED
      BY <2>1, <2>2, Zenon
  <2> QED
    BY <1>2, <2>3, Zenon DEF Budgeting
<1>9. ASSUME NEW h, Budgeting(x, max, h) PROVE h = g
  <2>1. h = [k \in 0 .. N |-> IF k = 0 THEN x ELSE Trim(h[k - 1], n - k + 1, max)]
    BY <1>2, <1>9, Zenon DEF Budgeting
  <2> HIDE DEF N
  <2>2. \A k \in 0 .. N : h[k] = IF k = 0 THEN x ELSE Trim(h[k - 1], n - k + 1, max)
    BY <2>1, Zenon
  <2>3. h = [k \in 0 .. N |-> h[k]]
    BY <2>1, Zenon
  <2>4. h[0] = x
    <3>1. 0 \in 0 .. N
      BY <1>1
    <3> QED
      BY <2>2, <3>1
  <2>5. \A k \in 1 .. N : h[k - 1] \in V => h[k] = step[<<k, h[k - 1]>>]
    <3> SUFFICES ASSUME NEW k \in 1 .. N, h[k - 1] \in V PROVE h[k] = step[<<k, h[k - 1]>>]
      OBVIOUS
    <3>1. k \in 0 .. N /\ k # 0
      BY <1>1
    <3>2. h[k] = Trim(h[k - 1], n - k + 1, max)
      BY <2>2, <3>1, Zenon
    <3> QED
      BY <1>6, <3>2
  <2>6. Follows(N, h, V, x, step)
    BY <2>3, <2>4, <2>5 DEF Follows
  <2> QED
    BY <1>1, <1>4, <2>6, OnlyRecursion
<1>10. (CHOOSE texts : Budgeting(x, max, texts)) = g
  BY <1>8, <1>9
<1>11. ApplyTokenBudget(x, max) = (CHOOSE texts : Budgeting(x, max, texts))[N]
  <2>1. ~(max <= 0)
    OBVIOUS
  <2>2. ApplyTokenBudget(x, max)
          = IF max <= 0 THEN x ELSE (CHOOSE texts : Budgeting(x, max, texts))[Len(x) - 1]
    BY DEF ApplyTokenBudget, Budgeting
  <2> QED
    BY <1>2, <2>1, <2>2, Zenon
<1>12. ApplyTokenBudget(x, max) = g[N]
  BY <1>10, <1>11
<1>13. Cuts(n, x, max, g)
  BY <1>5, <1>7, <1>12 DEF Cuts, V
<1> QED
  BY <1>13

\* All texts but the first are cut, as far as that is needed.
LEMMA BudgetMeans ==
    ASSUME NEW n \in Nat \ {0}, NEW x \in [1 .. n -> Nat], NEW max \in Nat \ {0}
    PROVE  CutBack(x, ApplyTokenBudget(x, max), n, n - 1, max)
<1> DEFINE N == n - 1
<1>1. N \in Nat /\ n \in Nat /\ max \in Nat
  OBVIOUS
<1>0. PICK g : Cuts(n, x, max, g)
  BY BudgetingExists
<1>2. /\ ApplyTokenBudget(x, max) = g[N] /\ g[0] = x
      /\ \A k \in 1 .. N : g[k] = Trim(g[k - 1], n - k + 1, max)
  BY <1>0 DEF Cuts
<1> HIDE DEF N
<1> DEFINE T == {k \in 0 .. N : CutBack(x, g[k], n, k, max)}
<1>3. 0 \in T
  <2>1. CutBack(x, x, n, 0, max)
    BY <1>1, NothingCut
  <2>2. 0 \in 0 .. N
    BY <1>1
  <2> QED
    BY <1>2, <2>1, <2>2
<1>4. ASSUME NEW k \in 0 .. N - 1, k \in T PROVE k + 1 \in T
  <2> DEFINE l == k + 1
  <2>1. l \in 1 .. N /\ l \in 0 .. N /\ l - 1 = k /\ n - l + 1 = n - k /\ k \in 0 .. n - 1
    BY <1>1 DEF N
  <2>2. g[l] = Trim(g[l - 1], n - l + 1, max)
    <3>1. l \in 1 .. N
      BY <2>1
    <3> HIDE DEF l
    <3> QED
      BY <1>2, <3>1
  <2>3. g[l] = Trim(g[k], n - k, max)
    BY <2>1, <2>2
  <2>4. CutBack(x, g[k], n, k, max)
    BY <1>4
  <2>5. CutBack(x, Trim(g[k], n - k, max), n, k + 1, max)
    BY <1>1, <2>1, <2>4, TrimKeeps
  <2> QED
    BY <2>1, <2>3, <2>5
<1>5. 0 .. N \subseteq T
  <2> HIDE DEF T
  <2> QED
    BY <1>1, <1>3, <1>4, Induction
<1>6. N \in 0 .. N
  BY <1>1
<1>7. N \in T
  BY <1>5, <1>6
<1> QED
  BY <1>2, <1>7 DEF N

\* Twice as short.
Shortest == 114

\* A text that is cut by one budget and by the next.
LEMMA CutTwice ==
    ASSUME NEW x \in Nat, NEW y \in Nat, NEW z \in Nat, Trimmed(x, y), Trimmed(y, z)
    PROVE  /\ y <= Short => z <= Shortest
           /\ Touched(x, y) => z # x \/ z <= Shortest
           /\ Touched(y, z) => z # x \/ z <= Shortest
<1>1. y = x \/ y <= 97 \/ \E d \in Nat \ {0} : y = x - 4 * d + 17
  BY DEF Trimmed, Short
<1>2. z = y \/ z <= 97 \/ \E d \in Nat \ {0} : z = y - 4 * d + 17
  BY DEF Trimmed, Short
<1>3. y <= 97 => z <= 114
  <2>1. CASE \E d \in Nat \ {0} : z = y - 4 * d + 17
    <3>1. PICK d \in Nat \ {0} : z = y - 4 * d + 17
      BY <2>1
    <3> QED
      BY <3>1
  <2> QED
    BY <1>2, <2>1
<1>4. ASSUME y # x, z = x, z > 114 PROVE FALSE
  <2>1. y > 97
    BY <1>3, <1>4
  <2>2. PICK d \in Nat \ {0} : y = x - 4 * d + 17
    BY <1>1, <1>4, <2>1
  <2>3. z # y
    BY <1>4
  <2>4. PICK e \in Nat \ {0} : z = y - 4 * e + 17
    BY <1>2, <1>4, <2>3
  <2>5. 4 * (d + e) = 34
    BY <1>4, <2>2, <2>4
  <2> QED
    BY <2>5
<1>5. ASSUME z = x, z > 114 PROVE ~Touched(x, y) /\ ~Touched(y, z)
  <2>1. y = x
    BY <1>4, <1>5
  <2> QED
    BY <1>5, <2>1 DEF Touched, Short
<1> QED
  BY <1>3, <1>5 DEF Short, Shortest


\* What a budget leaves, whether or not there was something to cut.
LeftOf(x, y, n) ==
    /\ y \in [1 .. n -> Nat] /\ y[1] = x[1]
    /\ \A j \in 1 .. n : Trimmed(x[j], y[j])
    /\ \A i, j \in 1 .. n : i < j /\ y[i] # x[i] => Touched(x[j], y[j])
    /\ Sum(y) <= Sum(x) + 5 * (n - 1)

AllShort(y, n) == \A j \in 2 .. n : y[j] <= Short

LEMMA UncutIsLeft ==
    ASSUME NEW n \in Nat \ {0}, NEW x \in [1 .. n -> Nat]
    PROVE  LeftOf(x, x, n)
<1>1. Sum(x) \in Int /\ n \in Nat
  BY LengthsMean
<1> QED
  BY <1>1 DEF LeftOf, Trimmed

LEMMA BudgetLeaves ==
    ASSUME NEW n \in Nat \ {0}, NEW x \in [1 .. n -> Nat], NEW max \in Nat
    PROVE  LET y == ApplyTokenBudget(x, max)
           IN  /\ LeftOf(x, y, n)
               /\ max > 0 => Sum(y) <= max + 5 * (n - 1) \/ AllShort(y, n)
<1> DEFINE y == ApplyTokenBudget(x, max)
<1>1. CASE max = 0
  <2>1. y = x
    BY <1>1 DEF ApplyTokenBudget
  <2> HIDE DEF y
  <2>2. LeftOf(x, y, n) /\ ~(max > 0)
    BY <1>1, <2>1, UncutIsLeft
  <2> QED
    BY <2>2 DEF y
<1>2. CASE max # 0
  <2>1. CutBack(x, y, n, n - 1, max)
    BY <1>2, BudgetMeans
  <2> HIDE DEF y
  <2>2. n - (n - 1) = 1 /\ n - (n - 1) + 1 = 2 /\ 1 \in 1 .. 1
    OBVIOUS
  <2>3. y[1] = x[1]
    BY <2>1, <2>2 DEF CutBack
  <2>4. LeftOf(x, y, n)
    BY <2>1, <2>3 DEF LeftOf, CutBack
  <2>5. Sum(y) <= max + 5 * (n - 1) \/ AllShort(y, n)
    BY <2>1, <2>2 DEF CutBack, AllShort
  <2> QED
    BY <2>4, <2>5 DEF y
<1> QED
  BY <1>1, <1>2

\* Rounding hides less than a token of each text.
LEMMA SumsRounded ==
    ASSUME NEW n \in Nat, NEW x \in [1 .. n -> Nat]
    PROVE  SumTo(x, n) \in Nat /\ SumTo(x, n) <= 4 * Sum(x) + 3 * n
<1> DEFINE f == [j \in 1 .. n |-> Estimate(x[j])]
           T == {m \in 0 .. n : SumTo(x, m) \in Nat /\ SumTo(x, m) <= 4 * SumTo(f, m) + 3 * m}
<1>1. \A j \in 1 .. n : /\ f[j] = Estimate(x[j]) /\ x[j] \in Nat /\ f[j] \in Nat
                        /\ x[j] <= 4 * f[j] + 3
  <2> SUFFICES ASSUME NEW j \in 1 .. n
               PROVE  /\ f[j] = Estimate(x[j]) /\ x[j] \in Nat /\ f[j] \in Nat
                      /\ x[j] <= 4 * f[j] + 3
    OBVIOUS
  <2>1. f[j] = Estimate(x[j]) /\ x[j] \in Nat
    OBVIOUS
  <2> HIDE DEF f
  <2> QED
    BY <2>1, EstimateMeans
<1> HIDE DEF f
<1>2. ASSUME NEW m \in 0 .. n
      PROVE  /\ SumTo(x, 0) = 0 /\ SumTo(f, 0) = 0 /\ SumTo(x, m) \in Int /\ SumTo(f, m) \in Int
             /\ m > 0 => /\ SumTo(x, m) = SumTo(x, m - 1) + x[m]
                         /\ SumTo(f, m) = SumTo(f, m - 1) + f[m]
  <2>1. m \in Nat /\ \A j \in 1 .. m : x[j] \in Int /\ f[j] \in Int
    BY <1>1
  <2> QED
    BY <2>1, SumSteps
<1>3. 0 \in T
  BY <1>2
<1>4. ASSUME NEW m \in 0 .. n - 1, m \in T PROVE m + 1 \in T
  <2> DEFINE k == m + 1
  <2>1. k \in 0 .. n /\ k > 0 /\ k - 1 = m /\ k \in 1 .. n /\ m \in 0 .. n /\ m \in Nat
    OBVIOUS
  <2> HIDE DEF k
  <2>2. /\ SumTo(x, k) = SumTo(x, m) + x[k] /\ SumTo(f, k) = SumTo(f, m) + f[k]
        /\ SumTo(f, m) \in Int /\ SumTo(f, k) \in Int
    BY <1>2, <2>1
  <2>3. x[k] \in Nat /\ f[k] \in Nat /\ x[k] <= 4 * f[k] + 3
    BY <1>1, <2>1
  <2>4. SumTo(x, m) \in Nat /\ SumTo(x, m) <= 4 * SumTo(f, m) + 3 * m
    BY <1>4
  <2>5. k = m + 1
    BY DEF k
  <2> DEFINE a == SumTo(x, m)
             b == SumTo(f, m)
             u == x[k]
             v == f[k]
  <2>6. SumTo(x, k) \in Nat /\ SumTo(x, k) <= 4 * SumTo(f, k) + 3 * k
    <3>1. SumTo(x, k) = a + u /\ SumTo(f, k) = b + v
      BY <2>2
    <3>2. /\ a \in Nat /\ b \in Int /\ a <= 4 * b + 3 * m /\ u \in Nat /\ v \in Nat
          /\ u <= 4 * v + 3 /\ m \in Nat
      BY <2>1, <2>2, <2>3, <2>4
    <3> HIDE DEF a, b, u, v
    <3>3. a + u \in Nat /\ a + u <= 4 * (b + v) + 3 * (m + 1)
      BY <3>2
    <3> QED
      BY <2>5, <3>1, <3>3
  <2>7. k \in T
    BY <2>1, <2>6
  <2> QED
    BY <2>5, <2>7
<1>5. 0 .. n \subseteq T
  <2> HIDE DEF T
  <2> QED
    BY <1>3, <1>4, Induction
<1>6. n \in T
  BY <1>5
<1>7. Sum(x) = SumTo(f, n)
  BY LengthsMean DEF f
<1> QED
  BY <1>6, <1>7

LEMMA PromptMeans ==
    ASSUME NEW n \in Nat, NEW x \in [1 .. n -> Nat], NEW overhead \in Nat
    PROVE  /\ Prompt(overhead, x) \in Nat
           /\ Prompt(overhead, x) <= Estimate(overhead) + Sum(x) + n
<1> DEFINE s == SumTo(x, n)
           p == Prompt(overhead, x)
           e == Estimate(overhead)
<1>1. s \in Nat /\ s <= 4 * Sum(x) + 3 * n /\ Sum(x) \in Int /\ Len(x) = n
  BY SumsRounded, LengthsMean
<1>2. p = Estimate(overhead + s)
  BY <1>1 DEF Prompt
<1>3. e \in Nat /\ overhead <= 4 * e + 3
  BY EstimateMeans
<1> HIDE DEF s, p, e
<1>4. p \in Nat /\ 4 * p <= overhead + s
  <2>1. overhead + s \in Nat
    BY <1>1
  <2> QED
    BY <1>2, <2>1, EstimateMeans
<1>5. p <= e + Sum(x) + n
  BY <1>1, <1>3, <1>4
<1> QED
  BY <1>4, <1>5 DEF p, e

LEMMA PromptLeaves ==
    ASSUME NEW n \in Nat \ {0}, NEW x \in [1 .. n -> Nat], NEW overhead \in Nat, NEW max \in Nat
    PROVE  LET y == EnforceInputBudget(overhead, x, max)
           IN  /\ LeftOf(x, y, n)
               /\ \/ max <= Estimate(overhead)
                  \/ Prompt(overhead, y) <= max + 6 * n
                  \/ AllShort(y, n)
<1> DEFINE y == EnforceInputBudget(overhead, x, max)
           e == Estimate(overhead)
           rest == Later(max - e, 0)
<1>1. e \in Nat
  BY EstimateMeans
<1>2. rest \in Nat /\ (max > e => rest = max - e /\ rest > 0)
  BY <1>1 DEF Later
<1>3. y = IF max <= 0 \/ Prompt(overhead, x) <= max THEN x ELSE ApplyTokenBudget(x, rest)
  BY DEF EnforceInputBudget
<1>4. Prompt(overhead, x) \in Nat
  BY PromptMeans
<1> HIDE DEF y, e, rest
<1>5. CASE max <= 0 \/ Prompt(overhead, x) <= max
  <2>1. y = x
    BY <1>3, <1>5
  <2>2. LeftOf(x, y, n)
    BY <2>1, UncutIsLeft
  <2>3. max <= e \/ Prompt(overhead, y) <= max + 6 * n
    BY <1>1, <1>4, <1>5, <2>1
  <2> QED
    BY <2>2, <2>3 DEF y, e
<1>6. CASE ~(max <= 0 \/ Prompt(overhead, x) <= max)
  <2>1. y = ApplyTokenBudget(x, rest)
    BY <1>3, <1>6
  <2>2. /\ LeftOf(x, y, n)
        /\ rest > 0 => Sum(y) <= rest + 5 * (n - 1) \/ AllShort(y, n)
    BY <1>2, <2>1, BudgetLeaves
  <2>3. ASSUME max > e, Sum(y) <= rest + 5 * (n - 1) PROVE Prompt(overhead, y) <= max + 6 * n
    <3>1. y \in [1 .. n -> Nat] /\ n \in Nat
      BY <2>2 DEF LeftOf
    <3>2. Prompt(overhead, y) \in Nat /\ Prompt(overhead, y) <= e + Sum(y) + n
      BY <3>1, PromptMeans DEF e
    <3>3. Sum(y) \in Int
      BY <3>1, LengthsMean
    <3>4. rest = max - e
      BY <1>2, <2>3
    <3> QED
      BY <1>1, <2>3, <3>1, <3>2, <3>3, <3>4
  <2>4. max <= e \/ max > e
    BY <1>1
  <2> QED
    BY <1>2, <2>2, <2>3, <2>4 DEF y, e
<1> QED
  BY <1>5, <1>6

LEMMA PromptCallsMean ==
    ASSUME NEW c \in PromptCalls
    PROVE  /\ c.function = "build_grounded_prompt"
           /\ c.context \in Nat /\ c.limit \in Nat /\ c.overhead \in Nat
           /\ \E n \in Nat \ {0} : c.lengths \in [1 .. n -> Nat]
<1>1. /\ c.function = "build_grounded_prompt"
      /\ c.lengths \in BoundedSeq(Lengths, MaxTexts) /\ c.lengths # << >>
      /\ c.context \in ContextLimits /\ c.limit \in PromptLimits /\ c.overhead \in Overheads
  BY DEF PromptCalls
<1>2. MaxTexts \in Nat /\ Lengths \subseteq Nat
  BY PromptContextAssumption
<1>3. PICK m \in 0 .. MaxTexts : c.lengths \in [1 .. m -> Lengths]
  BY <1>1 DEF BoundedSeq, SeqOf
<1>4. m \in Nat /\ c.lengths \in [1 .. m -> Nat]
  <2>1. m \in Nat
    BY <1>2
  <2>2. c.lengths = [k \in 1 .. m |-> c.lengths[k]] /\ \A k \in 1 .. m : c.lengths[k] \in Nat
    BY <1>2, <1>3
  <2> QED
    BY <2>1, <2>2
<1>5. m # 0
  <2>1. ASSUME m = 0 PROVE FALSE
    <3>1. c.lengths \in Seq(Nat) /\ Len(c.lengths) = 0
      BY <1>4, <2>1, LengthsMean
    <3> QED
      BY <1>1, <3>1, EmptySeq
  <2> QED
    BY <2>1
<1> QED
  BY <1>1, <1>4, <1>5, PromptContextAssumption

LEMMA BudgetIsKept ==
    ASSUME Of("build_grounded_prompt") => call \in PromptCalls /\ result = BuildPrompt(call)
    PROVE  BudgetKept
<1> SUFFICES ASSUME Of("build_grounded_prompt") PROVE BudgetKept
  BY DEF BudgetKept
<1> DEFINE x == call.lengths
           y == DisplayTexts(call)
           z == result
           o == call.overhead
           context == call.context
           limit == call.limit
<1>1. call \in PromptCalls /\ z = EnforceInputBudget(o, y, limit)
  BY DEF BuildPrompt
<1>2. context \in Nat /\ limit \in Nat /\ o \in Nat
  BY <1>1, PromptCallsMean
<1>3. PICK n \in Nat \ {0} : x \in [1 .. n -> Nat]
  BY <1>1, PromptCallsMean
<1>4. y = ApplyTokenBudget(x, context)
  BY DEF DisplayTexts
<1> HIDE DEF x, y, z, o, context, limit
<1>5. /\ LeftOf(x, y, n)
      /\ context > 0 => Sum(y) <= context + 5 * (n - 1) \/ AllShort(y, n)
  BY <1>2, <1>3, <1>4, BudgetLeaves
<1>6. y \in [1 .. n -> Nat]
  BY <1>5 DEF LeftOf
<1>7. /\ LeftOf(y, z, n)
      /\ \/ limit <= Estimate(o)
         \/ Prompt(o, z) <= limit + 6 * n
         \/ AllShort(z, n)
  BY <1>1, <1>2, <1>6, PromptLeaves
<1>8. z \in [1 .. n -> Nat]
  BY <1>7 DEF LeftOf
<1>9. Len(z) = n /\ DOMAIN z = 1 .. n /\ n \in Nat /\ n >= 1
  BY <1>8, LengthsMean
<1>10. \A j \in 1 .. n : /\ y[j] <= Short => z[j] <= Shortest
                         /\ Touched(x[j], y[j]) => z[j] # x[j] \/ z[j] <= Shortest
                         /\ Touched(y[j], z[j]) => z[j] # x[j] \/ z[j] <= Shortest
  <2> SUFFICES ASSUME NEW j \in 1 .. n
               PROVE  /\ y[j] <= Short => z[j] <= Shortest
                      /\ Touched(x[j], y[j]) => z[j] # x[j] \/ z[j] <= Shortest
                      /\ Touched(y[j], z[j]) => z[j] # x[j] \/ z[j] <= Shortest
    OBVIOUS
  <2>1. x[j] \in Nat /\ y[j] \in Nat /\ z[j] \in Nat
    BY <1>3, <1>6, <1>8
  <2>2. Trimmed(x[j], y[j]) /\ Trimmed(y[j], z[j])
    BY <1>5, <1>7 DEF LeftOf
  <2> QED
    BY <2>1, <2>2, CutTwice
<1>11. \A j \in 1 .. n : AtFloor(z[j]) <=> z[j] <= Shortest
  BY DEF AtFloor, Floor, MarkLength, Shortest
<1>12. \A j \in 2 .. n : j \in 1 .. n
  BY <1>9
<1>13. z[1] = x[1]
  BY <1>5, <1>7 DEF LeftOf
<1>14. ASSUME NEW i \in 1 .. n, z[i] # x[i], NEW j \in 1 .. n, j > i
       PROVE  z[j] # x[j] \/ AtFloor(z[j])
  <2>1. i < j
    BY <1>14
  <2>2. CASE y[i] # x[i]
    <3>1. Touched(x[j], y[j])
      BY <1>5, <2>1, <2>2 DEF LeftOf
    <3> QED
      BY <1>10, <1>11, <3>1
  <2>3. CASE z[i] # y[i]
    <3>1. Touched(y[j], z[j])
      BY <1>7, <2>1, <2>3 DEF LeftOf
    <3> QED
      BY <1>10, <1>11, <3>1
  <2> QED
    BY <1>14, <2>2, <2>3
<1>15. AllShort(y, n) => \A i \in 2 .. n : AtFloor(z[i])
  BY <1>10, <1>11, <1>12 DEF AllShort
<1>16. AllShort(z, n) => \A i \in 2 .. n : AtFloor(z[i])
  <2> SUFFICES ASSUME AllShort(z, n), NEW i \in 2 .. n PROVE AtFloor(z[i])
    OBVIOUS
  <2>1. z[i] <= 97 /\ z[i] \in Nat
    BY <1>8, <1>12 DEF AllShort, Short
  <2> QED
    BY <2>1 DEF AtFloor, Floor, MarkLength
<1>17. Slack = 5
  BY DEF Slack, Estimate, MarkLength
<1>18. Sum(x) \in Int /\ Sum(y) \in Int /\ Sum(z) \in Int
  BY <1>3, <1>6, <1>8, <1>9, LengthsMean
<1>19. Sum(z) <= Sum(y) + 5 * (n - 1)
  BY <1>7 DEF LeftOf
<1>20. \/ context = 0
       \/ Sum(z) <= context + 2 * Slack * (Len(z) - 1)
       \/ \A i \in 2 .. n : AtFloor(z[i])
  <2>1. CASE context > 0 /\ Sum(y) <= context + 5 * (n - 1)
    <3> DEFINE sy == Sum(y)
               sz == Sum(z)
    <3>1. /\ sy \in Int /\ sz \in Int /\ sz <= sy + 5 * (n - 1) /\ sy <= context + 5 * (n - 1)
          /\ n \in Nat /\ context \in Nat
      BY <1>2, <1>18, <1>19, <2>1
    <3> HIDE DEF sy, sz
    <3>2. sz <= context + 2 * 5 * (n - 1)
      BY <3>1
    <3> QED
      BY <1>9, <1>17, <3>2 DEF sz
  <2>2. context > 0 \/ context = 0
    BY <1>2
  <2> QED
    BY <1>5, <1>15, <2>1, <2>2
<1>21. \/ limit <= Estimate(o)
       \/ Prompt(o, z) <= limit + (Slack + 1) * Len(z)
       \/ \A i \in 2 .. n : AtFloor(z[i])
  <2>1. (Slack + 1) * Len(z) = 6 * n
    BY <1>9, <1>17
  <2> QED
    BY <1>7, <1>16, <2>1
<1> DEFINE lower == 2 .. Len(z)
           cut == {i \in DOMAIN z : z[i] # x[i]}
<1>22. 1 \notin cut
  BY <1>13
<1>23. \A i \in cut : \A j \in lower : j > i => j \in cut \/ AtFloor(z[j])
  <2> SUFFICES ASSUME NEW i \in cut, NEW j \in lower, j > i PROVE j \in cut \/ AtFloor(z[j])
    OBVIOUS
  <2>1. i \in 1 .. n /\ z[i] # x[i] /\ j \in 1 .. n
    BY <1>9, <1>12
  <2>2. z[j] # x[j] \/ AtFloor(z[j])
    BY <1>14, <2>1
  <2> QED
    BY <1>9, <2>1, <2>2
<1>24. lower = 2 .. n
  BY <1>9
<1> QED
  BY <1>20, <1>21, <1>22, <1>23, <1>24 DEF BudgetKept, x, z, o, context, limit

\* What the model reads of the document, taken together.
LEMMA ContextIsGood ==
    ASSUME Of("expand_context") =>
              /\ call \in ExpansionCalls
              /\ result = ExpandContext(Target(call.target, call.doc), call.doc, call.window),
           Of("build_grounded_prompt") => call \in PromptCalls /\ result = BuildPrompt(call)
    PROVE  ContextSound
BY WindowReadsOn, BudgetIsKept DEF ContextSound

-----------------------------------------------------------------------------
(* Spans of a text (tokenization.py, chunker.py).                          *)

\* A longer way in equal steps.
LEMMA TimesGrows ==
    ASSUME NEW a \in Nat, NEW b \in Nat, NEW s \in Nat \ {0}
    PROVE  /\ a * s \in Nat /\ (a <= b => a * s <= b * s) /\ (a < b => a * s + s <= b * s)
<1>1. a * s \in Nat
  OBVIOUS
<1>2. ASSUME NEW k \in Nat, b = a + k PROVE b * s = a * s + k * s /\ k * s \in Nat
  BY <1>2
<1>3. ASSUME a <= b PROVE a * s <= b * s
  <2>1. b - a \in Nat /\ b = a + (b - a)
    BY <1>3
  <2> DEFINE k == b - a
  <2>2. b * s = a * s + k * s /\ k * s \in Nat
    <3> HIDE DEF k
    <3> QED
      BY <1>2, <2>1 DEF k
  <2> HIDE DEF k
  <2> QED
    BY <1>1, <2>2
<1>4. ASSUME a < b PROVE a * s + s <= b * s
  <2>1. b - a - 1 \in Nat /\ b = a + ((b - a - 1) + 1)
    BY <1>4
  <2> DEFINE k == b - a - 1
  <2>2. b * s = a * s + (k + 1) * s
    <3>1. k + 1 \in Nat /\ b = a + (k + 1)
      BY <2>1
    <3> HIDE DEF k
    <3> QED
      BY <1>2, <3>1
  <2>3. (k + 1) * s = k * s + s /\ k * s \in Nat
    <3> HIDE DEF k
    <3> QED
      BY <2>1 DEF k
  <2> HIDE DEF k
  <2> QED
    BY <1>1, <2>2, <2>3
<1> QED
  BY <1>1, <1>3, <1>4

\* Windows that begin a step apart, no farther than they are long, leave nothing out.
LEMMA WindowsCover ==
    ASSUME NEW n \in Nat \ {0}, NEW size \in Nat \ {0}, NEW step \in 1 .. size
    PROVE  /\ WindowCount(n, size, step) \in Nat \ {0}
           /\ \A w \in 1 .. WindowCount(n, size, step) :
                 (w - 1) * step \in Nat /\ (w - 1) * step < n
           /\ \A v, w \in 1 .. WindowCount(n, size, step) :
                 v < w => (v - 1) * step < (w - 1) * step
           /\ \A q \in 0 .. n - 1 : \E w \in 1 .. WindowCount(n, size, step) :
                 (w - 1) * step <= q /\ q < (w - 1) * step + size
<1> DEFINE m == AtLeast(n - size, 0)
           x == m + step - 1
           d == x \div step
<1>1. m \in Nat /\ (n >= size => m = n - size) /\ (n < size => m = 0)
  BY DEF AtLeast
<1>2. x \in Nat /\ x = m + step - 1 /\ step \in Nat \ {0}
  <2> HIDE DEF m
  <2> QED
    BY <1>1
<1>3. d \in Nat /\ d * step <= x /\ x < d * step + step
  <2>1. d \in Nat /\ step * d <= x /\ x < step * d + step
    <3> HIDE DEF x
    <3> QED
      BY <1>2, Quotient
  <2>2. step * d = d * step
    <3> HIDE DEF d
    <3> QED
      BY <1>2, <2>1
  <2> HIDE DEF d, x
  <2> QED
    BY <2>1, <2>2
<1>4. WindowCount(n, size, step) = d + 1
  <2>1. WindowCount(n, size, step) = 1 + d
    BY DEF WindowCount
  <2> HIDE DEF d
  <2> QED
    BY <1>3, <2>1
<1> HIDE DEF m, x, d
<1>5. d * step < n
  <2>1. CASE n >= size
    BY <1>1, <1>2, <1>3, <2>1
  <2>2. CASE n < size
    <3>1. d * step < step
      BY <1>1, <1>2, <1>3, <2>2
    <3>2. d = 0
      <4> SUFFICES ASSUME 0 < d PROVE FALSE
        BY <1>3
      <4>1. 0 * step + step <= d * step /\ 0 * step = 0
        BY <1>2, <1>3, TimesGrows
      <4> QED
        BY <1>2, <1>3, <3>1, <4>1
    <3> QED
      BY <3>2, <1>2
  <2> QED
    BY <2>1, <2>2
<1>6. ASSUME NEW w \in 1 .. d + 1 PROVE (w - 1) * step \in Nat /\ (w - 1) * step < n
  <2>1. w - 1 \in Nat /\ w - 1 <= d
    BY <1>3
  <2>2. (w - 1) * step \in Nat /\ (w - 1) * step <= d * step
    BY <1>2, <1>3, <2>1, TimesGrows
  <2> QED
    BY <1>2, <1>3, <1>5, <2>2
<1>7. ASSUME NEW v \in 1 .. d + 1, NEW w \in 1 .. d + 1, v < w
      PROVE  (v - 1) * step < (w - 1) * step
  <2>1. v - 1 \in Nat /\ w - 1 \in Nat /\ v - 1 < w - 1
    BY <1>3, <1>7
  <2>2. (v - 1) * step \in Nat /\ (v - 1) * step + step <= (w - 1) * step
    BY <1>2, <2>1, TimesGrows
  <2>3. (w - 1) * step \in Nat
    BY <1>2, <2>1
  <2> QED
    BY <1>2, <2>2, <2>3
<1>8. ASSUME NEW q \in 0 .. n - 1
      PROVE  \E w \in 1 .. d + 1 : (w - 1) * step <= q /\ q < (w - 1) * step + size
  <2> DEFINE e == q \div step
  <2>1. e \in Nat /\ e * step <= q /\ q < e * step + step
    <3>1. e \in Nat /\ step * e <= q /\ q < step * e + step
      BY <1>2, Quotient
    <3>2. step * e = e * step
      <4> HIDE DEF e
      <4> QED
        BY <1>2, <3>1
    <3> HIDE DEF e
    <3> QED
      BY <3>1, <3>2
  <2> HIDE DEF e
  <2>2. e * step \in Nat /\ d * step \in Nat
    BY <1>2, <1>3, <2>1
  <2>3. CASE e <= d
    <3>1. e + 1 \in 1 .. d + 1 /\ (e + 1) - 1 = e
      BY <1>3, <2>1, <2>3
    <3>2. q < e * step + size
      BY <2>1, <2>2
    <3> QED
      BY <2>1, <3>1, <3>2
  <2>4. CASE e > d
    <3>1. d + 1 \in 1 .. d + 1 /\ (d + 1) - 1 = d
      BY <1>3
    <3>2. d * step <= q
      <4>1. d * step <= e * step
        BY <1>2, <1>3, <2>1, <2>4, TimesGrows
      <4> QED
        BY <2>1, <2>2, <4>1
    <3>3. q < d * step + size
      <4>1. m <= d * step
        BY <1>1, <1>2, <1>3, <2>2
      <4>2. n <= m + size
        BY <1>1
      <4> QED
        BY <1>1, <2>2, <4>1, <4>2
    <3> QED
      BY <3>1, <3>2, <3>3
  <2> QED
    BY <1>3, <2>1, <2>3, <2>4
<1> QED
  BY <1>3, <1>4, <1>6, <1>7, <1>8

\* Where a run ends.
LEMMA EndMeans ==
    ASSUME NEW n \in Nat, NEW S \in SUBSET (0 .. n), NEW p \in S
    PROVE  /\ EndOf(S, p) \in Nat /\ p < EndOf(S, p) /\ EndOf(S, p) \notin S
           /\ p .. EndOf(S, p) - 1 \subseteq S
<1> DEFINE T == {q \in 0 .. n + 1 : p < q /\ q \notin S}
<1>1. n + 1 \in T
  OBVIOUS
<1>2. PICK q \in T : \A r \in T : q <= r
  <2>1. T \in SUBSET Nat /\ T # {}
    BY <1>1
  <2> HIDE DEF T
  <2> QED
    BY <2>1, LeastElement
<1>3. q \in 0 .. n + 1 /\ p < q /\ q \notin S /\ p \in 0 .. n
  OBVIOUS
<1>4. ASSUME NEW r \in p .. q - 1 PROVE r \in S
  <2> SUFFICES ASSUME r \notin S PROVE FALSE
    OBVIOUS
  <2>1. r \in T
    BY <1>3
  <2> HIDE DEF T
  <2> QED
    BY <1>2, <1>3, <2>1
<1>5. q - 1 \in S /\ q = (q - 1) + 1
  <2>1. q - 1 \in p .. q - 1
    BY <1>3
  <2> QED
    BY <1>3, <1>4, <2>1
<1>6. \E t \in {r + 1 : r \in S} : p < t /\ t \notin S /\ p .. t - 1 \subseteq S
  <2>1. q \in {r + 1 : r \in S}
    BY <1>5
  <2>2. p .. q - 1 \subseteq S
    BY <1>4
  <2> QED
    BY <1>3, <2>1, <2>2
<1>7. /\ EndOf(S, p) \in {r + 1 : r \in S} /\ p < EndOf(S, p) /\ EndOf(S, p) \notin S
      /\ p .. EndOf(S, p) - 1 \subseteq S
  BY <1>6, Zenon DEF EndOf
<1>8. \A r \in S : r + 1 \in Nat
  OBVIOUS
<1> QED
  BY <1>7, <1>8

\* Spans of positions in S, none of them empty, in order and apart; and all of T is in them.
Apart(spans, S) ==
    /\ spans \in Seq(Nat \X Nat)
    /\ \A i \in 1 .. Len(spans) : /\ spans[i][1] \in S /\ spans[i][1] < spans[i][2]
                                  /\ spans[i][1] .. spans[i][2] - 1 \subseteq S
    /\ \A i, j \in 1 .. Len(spans) : i < j => spans[i][2] <= spans[j][1]

AllIn(T, spans) ==
    \A p \in T : \E i \in 1 .. Len(spans) : spans[i][1] <= p /\ p < spans[i][2]

\* The runs of a set have all of it, and nothing else.
LEMMA RunsMean ==
    ASSUME NEW n \in Nat, NEW S \in SUBSET (0 .. n)
    PROVE  Apart(Runs(S), S) /\ AllIn(S, Runs(S))
<1> DEFINE B == {p \in S : p - 1 \notin S}
           m == Cardinality(B)
           s == Ascending(B)
           runs == Runs(S)
<1>1. /\ m \in Nat /\ s \in [1 .. m -> B]
      /\ \A i, j \in 1 .. m : s[i] < s[j] <=> i < j
      /\ \A p \in B : \E i \in 1 .. m : s[i] = p
  <2>1. B \in SUBSET Int /\ B \in SUBSET (0 .. n)
    <3>1. \A p \in B : p \in 0 .. n /\ p \in Int
      OBVIOUS
    <3> HIDE DEF B
    <3> QED
      BY <3>1
  <2>2. IsFiniteSet(B)
    <3>1. IsFiniteSet(0 .. n)
      BY FS_Interval
    <3> HIDE DEF B
    <3> QED
      BY <2>1, <3>1, FS_Subset
  <2> HIDE DEF B
  <2> QED
    BY <2>1, <2>2, AscendingMeans
<1>2. runs = [i \in 1 .. m |-> <<s[i], EndOf(S, s[i])>>]
  <2>1. runs = [i \in DOMAIN s |-> <<s[i], EndOf(S, s[i])>>]
    BY DEF Runs
  <2>2. DOMAIN s = 1 .. m
    BY <1>1
  <2> HIDE DEF runs, m, s
  <2> QED
    BY <2>1, <2>2
<1>3. \A p \in B : p \in S /\ p \in Nat /\ p - 1 \notin S
  OBVIOUS
<1>9. \A p \in S : p - 1 \notin S => p \in B
  OBVIOUS
<1> HIDE DEF B, m, s, runs
<1>4. ASSUME NEW i \in 1 .. m
      PROVE  /\ runs[i] \in Nat \X Nat /\ runs[i][1] = s[i] /\ runs[i][1] \in S
             /\ runs[i][1] - 1 \notin S
             /\ runs[i][1] < runs[i][2] /\ runs[i][2] \notin S
             /\ runs[i][1] .. runs[i][2] - 1 \subseteq S
  <2>1. s[i] \in S /\ s[i] \in Nat /\ s[i] - 1 \notin S
    BY <1>1, <1>3
  <2>2. /\ EndOf(S, s[i]) \in Nat /\ s[i] < EndOf(S, s[i]) /\ EndOf(S, s[i]) \notin S
        /\ s[i] .. EndOf(S, s[i]) - 1 \subseteq S
    BY <2>1, EndMeans
  <2>3. runs[i] = <<s[i], EndOf(S, s[i])>>
    BY <1>2
  <2> QED
    BY <2>1, <2>2, <2>3
<1>5. runs \in Seq(Nat \X Nat) /\ Len(runs) = m
  <2>1. runs \in [1 .. m -> Nat \X Nat]
    BY <1>2, <1>4
  <2> QED
    BY <1>1, <2>1
<1>6. ASSUME NEW i \in 1 .. m, NEW j \in 1 .. m, i < j PROVE runs[i][2] <= runs[j][1]
  <2> DEFINE a == runs[i][1]
             e == runs[i][2]
             b == runs[j][1]
  <2>1. a \in Nat /\ e \in Nat /\ b \in Nat /\ a < b
    BY <1>1, <1>4, <1>6
  <2>2. a .. e - 1 \subseteq S /\ b - 1 \notin S
    BY <1>4
  <2> HIDE DEF a, e, b
  <2>3. e <= b
    <3> SUFFICES ASSUME b < e PROVE FALSE
      BY <2>1
    <3>1. b - 1 \in a .. e - 1
      BY <2>1
    <3> QED
      BY <2>2, <3>1
  <2> QED
    BY <2>3 DEF e, b
<1>7. ASSUME NEW p \in S
      PROVE  \E i \in 1 .. m : runs[i][1] <= p /\ p < runs[i][2]
  <2> DEFINE T == {q \in 0 .. n : q <= p /\ q .. p \subseteq S}
  <2>1. p \in T
    BY DEF T
  <2>2. PICK q \in T : \A r \in T : q <= r
    <3>1. T \in SUBSET Nat /\ T # {}
      BY <2>1
    <3> HIDE DEF T
    <3> QED
      BY <3>1, LeastElement
  <2>3. q \in 0 .. n /\ p \in 0 .. n /\ q <= p /\ q .. p \subseteq S
    OBVIOUS
  <2>4. q \in S
    BY <2>3
  <2>5. q - 1 \notin S
    <3> SUFFICES ASSUME q - 1 \in S PROVE FALSE
      OBVIOUS
    <3>1. q - 1 \in 0 .. n /\ q - 1 <= p
      BY <2>3
    <3>2. \A r \in q - 1 .. p : r = q - 1 \/ r \in q .. p
      BY <2>3
    <3>3. q - 1 .. p \subseteq S
      BY <2>3, <3>2
    <3>4. q - 1 \in T
      BY <3>1, <3>3
    <3> HIDE DEF T
    <3> QED
      BY <2>2, <2>3, <3>4
  <2>6. PICK i \in 1 .. m : s[i] = q
    BY <1>1, <1>9, <2>4, <2>5
  <2>7. runs[i][1] = q /\ runs[i][2] \notin S /\ runs[i][2] \in Nat /\ q < runs[i][2]
    BY <1>4, <2>6
  <2>8. p < runs[i][2]
    <3> DEFINE e == runs[i][2]
    <3> SUFFICES ASSUME ~(p < e) PROVE FALSE
      OBVIOUS
    <3>1. e \notin S /\ e \in Nat /\ q < e
      BY <2>7
    <3> HIDE DEF e
    <3>2. e \in q .. p
      BY <2>3, <3>1
    <3> QED
      BY <2>3, <3>1, <3>2
  <2> QED
    BY <2>3, <2>7, <2>8
<1>8. \A i \in 1 .. m : /\ runs[i][1] \in S /\ runs[i][1] < runs[i][2]
                        /\ runs[i][1] .. runs[i][2] - 1 \subseteq S
  BY <1>4
<1> QED
  BY <1>5, <1>6, <1>7, <1>8 DEF Apart, AllIn, runs

\* The places where a loop comes by that always goes on, from i to next[i].
Visiting(next, at) ==
    at = [k \in 0 .. Len(next) |->
             IF k = 0 THEN 1
             ELSE IF at[k - 1] > Len(next) THEN at[k - 1] ELSE next[at[k - 1]]]

LEMMA VisitingExists ==
    ASSUME NEW next \in Seq(Nat),
           \A i \in 1 .. Len(next) : i < next[i] /\ next[i] <= Len(next) + 1
    PROVE  \E g \in [0 .. Len(next) -> 1 .. Len(next) + 1] :
              /\ Visited(next) = {g[k] : k \in 0 .. Len(next)} \cap (1 .. Len(next))
              /\ g[0] = 1
              /\ \A k \in 1 .. Len(next) :
                    g[k] = IF g[k - 1] > Len(next) THEN g[k - 1] ELSE next[g[k - 1]]
<1> DEFINE n == Len(next)
           V == 1 .. n + 1
           base == 1
           After(v) == IF v > n THEN v ELSE next[v]
           step == [p \in (1 .. n) \X V |-> After(p[2])]
<1>1. n \in Nat /\ \A i \in 1 .. n : next[i] \in Nat /\ i < next[i] /\ next[i] <= n + 1
  OBVIOUS
<1>2. base \in V
  BY <1>1
<1>3. \A v \in V : After(v) \in V
  <2> SUFFICES ASSUME NEW v \in V PROVE After(v) \in V
    OBVIOUS
  <2>1. v \in Nat /\ 1 <= v /\ v <= n + 1
    BY <1>1
  <2>2. CASE v > n
    <3>1. After(v) = v
      BY <2>2
    <3> QED
      BY <3>1
  <2>3. CASE ~(v > n)
    <3>1. After(v) = next[v] /\ v \in 1 .. n
      BY <1>1, <2>1, <2>3
    <3>2. next[v] \in 1 .. n + 1
      BY <1>1, <3>1
    <3> QED
      BY <3>1, <3>2
  <2> QED
    BY <2>2, <2>3
<1> HIDE DEF After
<1>4. step \in [(1 .. n) \X V -> V]
  <2>1. \A p \in (1 .. n) \X V : After(p[2]) \in V
    BY <1>3
  <2> HIDE DEF n, V
  <2> QED
    BY <2>1
<1>5. PICK g : Upto(n, g, V, base, step)
  <2> HIDE DEF step, n, V, base
  <2> QED
    BY <1>1, <1>2, <1>4, RecursiveFunction
<1>6. g \in [0 .. n -> V] /\ g[0] = base /\ \A k \in 1 .. n : g[k] = step[<<k, g[k - 1]>>]
  BY <1>5 DEF Upto
<1>7. \A k \in 1 .. n, v \in V : step[<<k, v>>] = After(v)
  <2> SUFFICES ASSUME NEW k \in 1 .. n, NEW v \in V PROVE step[<<k, v>>] = After(v)
    OBVIOUS
  <2>1. <<k, v>> \in (1 .. n) \X V
    OBVIOUS
  <2> HIDE DEF n, V
  <2> QED
    BY <2>1
<1> HIDE DEF step
<1>8. \A k \in 1 .. n : g[k] = After(g[k - 1])
  <2> SUFFICES ASSUME NEW k \in 1 .. n PROVE g[k] = After(g[k - 1])
    OBVIOUS
  <2>1. k - 1 \in 0 .. n
    BY <1>1
  <2>2. g[k - 1] \in V
    BY <1>6, <2>1
  <2> HIDE DEF n, V
  <2> QED
    BY <1>6, <1>7, <2>2
<1>9. Visiting(next, g)
  <2>1. \A k \in 0 .. n : g[k] = IF k = 0 THEN base ELSE After(g[k - 1])
    <3>1. \A k \in 0 .. n : k = 0 \/ k \in 1 .. n
      BY <1>1
    <3> HIDE DEF n
    <3> QED
      BY <1>6, <1>8, <3>1, Zenon
  <2>2. g = [k \in 0 .. n |-> g[k]]
    BY <1>6
  <2>3. g = [k \in 0 .. n |-> IF k = 0 THEN base ELSE After(g[k - 1])]
    <3> HIDE DEF n
    <3> QED
      BY <2>1, <2>2, Zenon
  <2> QED
    BY <2>3 DEF Visiting, After
<1>10. ASSUME NEW h, Visiting(next, h) PROVE h = g
  <2>1. h = [k \in 0 .. n |-> IF k = 0 THEN base ELSE After(h[k - 1])]
    BY <1>10 DEF Visiting, After
  <2> HIDE DEF n
  <2>2. \A k \in 0 .. n : h[k] = IF k = 0 THEN base ELSE After(h[k - 1])
    BY <2>1, Zenon
  <2>3. h = [k \in 0 .. n |-> h[k]]
    BY <2>1, Zenon
  <2>4. h[0] = base
    <3>1. 0 \in 0 .. n
      BY <1>1
    <3> QED
      BY <2>2, <3>1
  <2>5. \A k \in 1 .. n : h[k - 1] \in V => h[k] = step[<<k, h[k - 1]>>]
    <3> SUFFICES ASSUME NEW k \in 1 .. n, h[k - 1] \in V PROVE h[k] = step[<<k, h[k - 1]>>]
      OBVIOUS
    <3>1. k \in 0 .. n /\ k # 0
      BY <1>1
    <3>2. h[k] = After(h[k - 1])
      BY <2>2, <3>1, Zenon
    <3> QED
      BY <1>7, <3>2
  <2>6. Follows(n, h, V, base, step)
    BY <2>3, <2>4, <2>5 DEF Follows
  <2> QED
    BY <1>1, <1>5, <2>6, OnlyRecursion
<1>11. (CHOOSE at : Visiting(next, at)) = g
  BY <1>9, <1>10
<1>12. Visited(next)
          = {(CHOOSE at : Visiting(next, at))[k] : k \in 0 .. n} \cap (1 .. n)
  BY DEF Visited, Visiting
<1>13. Visited(next) = {g[k] : k \in 0 .. n} \cap (1 .. n)
  BY <1>11, <1>12
<1> QED
  BY <1>6, <1>8, <1>13 DEF After

\* Such a loop passes over nothing but what lies between where it comes by and where it
\* goes on from there.
LEMMA VisitedMeans ==
    ASSUME NEW next \in Seq(Nat),
           \A i \in 1 .. Len(next) : i < next[i] /\ next[i] <= Len(next) + 1
    PROVE  /\ Visited(next) \in SUBSET (1 .. Len(next)) /\ IsFiniteSet(Visited(next))
           /\ \A u \in 1 .. Len(next) : \E i \in Visited(next) : i <= u /\ u < next[i]
<1> DEFINE n == Len(next)
<1>1. n \in Nat /\ \A i \in 1 .. n : next[i] \in Nat /\ i < next[i] /\ next[i] <= n + 1
  OBVIOUS
<1>2. PICK g \in [0 .. n -> 1 .. n + 1] :
         /\ Visited(next) = {g[k] : k \in 0 .. n} \cap (1 .. n)
         /\ g[0] = 1
         /\ \A k \in 1 .. n : g[k] = IF g[k - 1] > n THEN g[k - 1] ELSE next[g[k - 1]]
  BY VisitingExists
<1> HIDE DEF n
<1>3. Visited(next) \in SUBSET (1 .. n) /\ IsFiniteSet(Visited(next))
  <2>1. Visited(next) \in SUBSET (1 .. n)
    BY <1>2
  <2>2. IsFiniteSet(1 .. n)
    BY <1>1, FS_Interval
  <2> QED
    BY <2>1, <2>2, FS_Subset
<1> DEFINE T == {k \in 0 .. n : g[k] > k}
<1>4. 0 \in T
  BY <1>1, <1>2
<1>5. ASSUME NEW k \in 0 .. n - 1, k \in T PROVE k + 1 \in T
  <2> DEFINE j == k + 1
  <2>1. j \in 1 .. n /\ j \in 0 .. n /\ j - 1 = k /\ k \in 0 .. n
    BY <1>1
  <2> HIDE DEF j
  <2>2. g[k] \in 1 .. n + 1 /\ g[j] \in 1 .. n + 1 /\ g[k] > k
    BY <1>2, <1>5, <2>1
  <2>3. g[j] = IF g[k] > n THEN g[k] ELSE next[g[k]]
    BY <1>2, <2>1
  <2>4. g[k] > n => g[j] = g[k] /\ g[j] > j
    BY <1>1, <2>1, <2>2, <2>3
  <2>5. ~(g[k] > n) => g[j] = next[g[k]] /\ g[k] \in 1 .. n
    BY <1>1, <2>2, <2>3
  <2>6. ~(g[k] > n) => g[j] > j
    BY <1>1, <2>1, <2>2, <2>5
  <2>7. n + 1 > j
    BY <1>1, <2>1
  <2>8. j \in T
    BY <1>1, <2>1, <2>2, <2>4, <2>6
  <2> QED
    BY <2>8 DEF j
<1>6. 0 .. n \subseteq T
  <2> HIDE DEF T
  <2> QED
    BY <1>1, <1>4, <1>5, Induction
<1>7. g[n] = n + 1
  <2>1. n \in 0 .. n
    BY <1>1
  <2>2. g[n] > n /\ g[n] \in 1 .. n + 1
    BY <1>2, <1>6, <2>1
  <2> QED
    BY <1>1, <2>2
<1>8. ASSUME NEW u \in 1 .. n PROVE \E i \in Visited(next) : i <= u /\ u < next[i]
  <2> DEFINE U == {k \in 0 .. n : g[k] > u}
  <2>1. PICK k \in U : \A r \in U : k <= r
    <3>1. n \in U
      BY <1>1, <1>7
    <3>2. U \in SUBSET Nat /\ U # {}
      BY <3>1
    <3> HIDE DEF U
    <3> QED
      BY <3>2, LeastElement
  <2>2. k \in 0 .. n /\ g[k] > u /\ u \in Nat
    OBVIOUS
  <2>3. k # 0
    BY <1>2, <2>2
  <2> DEFINE h == k - 1
  <2>4. h \in 0 .. n /\ k \in 1 .. n /\ h = k - 1
    BY <1>1, <2>2, <2>3
  <2>5. h \notin U
    <3> HIDE DEF U, h
    <3> QED
      BY <1>1, <2>1, <2>4
  <2>6. g[h] \in 1 .. n + 1 /\ ~(g[h] > u)
    <3>1. h \in 0 .. n
      BY <2>4
    <3> HIDE DEF h
    <3> QED
      BY <1>2, <2>5, <3>1
  <2>7. g[k] = IF g[h] > n THEN g[h] ELSE next[g[h]]
    BY <1>2, <2>4
  <2> HIDE DEF h, U
  <2>8. ~(g[h] > n) /\ g[h] \in 1 .. n /\ g[h] <= u
    BY <1>1, <2>2, <2>6
  <2>9. u < next[g[h]]
    BY <1>1, <2>2, <2>7, <2>8
  <2>10. g[h] \in Visited(next)
    BY <1>2, <2>4, <2>8
  <2> QED
    BY <2>8, <2>9, <2>10
<1> QED
  BY <1>3, <1>8 DEF n

\* What is apart is in order.
LEMMA ApartOrders ==
    ASSUME NEW S \in SUBSET Nat, NEW units, Apart(units, S)
    PROVE  /\ Len(units) \in Nat
           /\ \A a \in 1 .. Len(units) :
                 /\ units[a] = <<units[a][1], units[a][2]>>
                 /\ units[a][1] \in Nat /\ units[a][2] \in Nat /\ units[a][1] < units[a][2]
                 /\ units[a][1] \in S /\ units[a][2] - 1 \in S
           /\ \A a, b \in 1 .. Len(units) :
                 /\ a <= b => units[a][1] <= units[b][1] /\ units[a][2] <= units[b][2]
                 /\ a < b => units[a][1] < units[b][1]
<1>1. Len(units) \in Nat /\ \A a \in 1 .. Len(units) : units[a] \in Nat \X Nat
  BY DEF Apart
<1>2. ASSUME NEW a \in 1 .. Len(units)
      PROVE  /\ units[a] = <<units[a][1], units[a][2]>>
             /\ units[a][1] \in Nat /\ units[a][2] \in Nat /\ units[a][1] < units[a][2]
             /\ units[a][1] \in S /\ units[a][2] - 1 \in S
  <2>1. /\ units[a] = <<units[a][1], units[a][2]>> /\ units[a][1] \in Nat /\ units[a][2] \in Nat
        /\ units[a][1] \in S /\ units[a][1] < units[a][2]
        /\ units[a][1] .. units[a][2] - 1 \subseteq S
    BY <1>1 DEF Apart
  <2>2. units[a][2] - 1 \in units[a][1] .. units[a][2] - 1
    BY <2>1
  <2> QED
    BY <2>1, <2>2
<1>3. ASSUME NEW a \in 1 .. Len(units), NEW b \in 1 .. Len(units), a < b
      PROVE  units[a][1] < units[b][1] /\ units[a][2] <= units[b][2]
  <2>1. units[a][2] <= units[b][1]
    BY <1>3 DEF Apart
  <2> QED
    BY <1>2, <2>1
<1>4. ASSUME NEW a \in 1 .. Len(units), NEW b \in 1 .. Len(units), a <= b
      PROVE  units[a][1] <= units[b][1] /\ units[a][2] <= units[b][2]
  <2>1. CASE a = b
    BY <1>2, <2>1
  <2>2. CASE a < b
    BY <1>2, <1>3, <2>2
  <2> QED
    BY <1>1, <1>4, <2>1, <2>2
<1> QED
  BY <1>1, <1>2, <1>3, <1>4

\* How far a chunk of sentences reaches.
LEMMA ReachMeans ==
    ASSUME NEW units, Len(units) \in Nat,
           \A a \in 1 .. Len(units) : units[a][1] \in Nat /\ units[a][2] \in Nat,
           NEW i \in 1 .. Len(units), NEW max \in Nat
    PROVE  Reach(units, i, max) \in i .. Len(units)
<1> DEFINE n == Len(units)
           T == {j \in i .. n : j < n => units[j + 1][2] - units[i][1] > max}
<1>1. n \in T /\ n \in Nat /\ i \in 1 .. n
  BY DEF T
<1>2. PICK j \in T : \A r \in T : j <= r
  <2>1. T \in SUBSET Nat /\ T # {}
    BY <1>1
  <2> HIDE DEF T
  <2> QED
    BY <2>1, LeastElement
<1>3. j \in i .. n /\ (j < n => units[j + 1][2] - units[i][1] > max)
  OBVIOUS
<1>4. ASSUME NEW k \in i + 1 .. j PROVE units[k][2] - units[i][1] <= max
  <2> DEFINE h == k - 1
  <2>1. h \in i .. n /\ h < n /\ h < j /\ h + 1 = k /\ k \in 1 .. n
    BY <1>1, <1>3
  <2>2. h \notin T
    <3>1. h < j /\ h \in Nat /\ j \in Nat
      BY <1>1, <1>3, <2>1
    <3> HIDE DEF T, h
    <3> QED
      BY <1>2, <3>1
  <2>3. ~(units[k][2] - units[i][1] > max)
    BY <2>1, <2>2
  <2>4. units[k][2] \in Nat /\ units[i][1] \in Nat
    BY <1>1, <2>1
  <2> QED
    BY <2>3, <2>4
<1>5. \E t \in i .. Len(units) :
         /\ \A k \in i + 1 .. t : units[k][2] - units[i][1] <= max
         /\ t < Len(units) => units[t + 1][2] - units[i][1] > max
  BY <1>3, <1>4
<1> QED
  BY <1>5, Zenon DEF Reach

-----------------------------------------------------------------------------
(* The strategies (_fixed_size_chunk, _sentence_chunk, _paragraph_chunk). *)

\* Chunks of whole units: each begins with one and ends with it or a later one, no two begin
\* with the same, and every unit is in one.
Groups(z, units) ==
    /\ z \in Seq(Nat \X Nat)
    /\ \A p \in 1 .. Len(z) : \E a, b \in 1 .. Len(units) :
          a <= b /\ z[p][1] = units[a][1] /\ z[p][2] = units[b][2]
    /\ \A u \in 1 .. Len(units) : \E p \in 1 .. Len(z) :
          z[p][1] <= units[u][1] /\ units[u][2] <= z[p][2]
    /\ \A p, q \in 1 .. Len(z) : z[p][1] = z[q][1] => p = q

LEMMA SentencesGrouped ==
    ASSUME NEW S \in SUBSET Nat, NEW units, Apart(units, S), NEW max \in Nat,
           NEW overlap \in Nat
    PROVE  Groups(SentenceChunk(units, max, overlap), units)
<1> DEFINE n == Len(units)
           next == [i \in DOMAIN units |-> AtLeast(i + 1, Reach(units, i, max) + 1 - overlap)]
           V == Visited(next)
           m == Cardinality(V)
           from == Ascending(V)
           z == SentenceChunk(units, max, overlap)
<1>1. /\ n \in Nat /\ DOMAIN units = 1 .. n
      /\ \A a \in 1 .. n :
            /\ units[a] = <<units[a][1], units[a][2]>>
            /\ units[a][1] \in Nat /\ units[a][2] \in Nat /\ units[a][1] < units[a][2]
      /\ \A a, b \in 1 .. n :
            /\ a <= b => units[a][1] <= units[b][1] /\ units[a][2] <= units[b][2]
            /\ a < b => units[a][1] < units[b][1]
  <2>1. DOMAIN units = 1 .. n
    BY DEF Apart
  <2> QED
    BY <2>1, ApartOrders
<1>2. \A i \in 1 .. n : Reach(units, i, max) \in i .. n
  BY <1>1, ReachMeans
<1>3. ASSUME NEW i \in 1 .. n
      PROVE  /\ next[i] \in Nat /\ i < next[i] /\ next[i] <= n + 1
             /\ \A u \in 1 .. n : u < next[i] => u <= Reach(units, i, max) \/ u <= i
  <2> DEFINE r == Reach(units, i, max)
  <2>1. r \in i .. n /\ next[i] = AtLeast(i + 1, r + 1 - overlap)
    BY <1>1, <1>2
  <2> HIDE DEF r, next, n
  <2>2. next[i] = IF i + 1 < r + 1 - overlap THEN r + 1 - overlap ELSE i + 1
    BY <2>1 DEF AtLeast
  <2>3. i \in Nat /\ r \in Nat /\ i <= n /\ r <= n
    BY <1>1, <2>1
  <2> DEFINE y == next[i]
  <2>4. (y = r + 1 - overlap /\ i + 1 < y) \/ y = i + 1
    BY <2>2
  <2> HIDE DEF y
  <2>5. y \in Nat /\ i < y /\ y <= n + 1
    BY <1>1, <2>3, <2>4
  <2>6. \A u \in 1 .. n : u < y => u <= r \/ u <= i
    BY <1>1, <2>3, <2>4
  <2> QED
    BY <2>5, <2>6 DEF r, y
<1>4. next \in Seq(Nat) /\ Len(next) = n
  <2>1. next \in [1 .. n -> Nat]
    <3>1. next = [i \in 1 .. n |-> next[i]]
      BY <1>1
    <3> HIDE DEF next
    <3> QED
      BY <1>3, <3>1
  <2> HIDE DEF next
  <2> QED
    BY <1>1, <2>1
<1>5. z = [p \in DOMAIN from |-> <<units[from[p]][1], units[Reach(units, from[p], max)][2]>>]
  BY DEF SentenceChunk
<1> HIDE DEF next, z
<1>6. /\ V \in SUBSET (1 .. n) /\ IsFiniteSet(V)
      /\ \A u \in 1 .. n : \E i \in V : i <= u /\ u < next[i]
  <2> HIDE DEF n
  <2> QED
    BY <1>3, <1>4, VisitedMeans
<1> HIDE DEF V, n
<1>7. /\ m \in Nat /\ from \in [1 .. m -> V]
      /\ \A p, q \in 1 .. m : from[p] = from[q] => p = q
      /\ \A i \in V : \E p \in 1 .. m : from[p] = i
  <2>1. V \in SUBSET Int
    BY <1>6
  <2> QED
    BY <1>6, <2>1, AscendingMeans
<1> HIDE DEF from, m
<1>8. DOMAIN from = 1 .. m /\ \A p \in 1 .. m : from[p] \in 1 .. n
  BY <1>6, <1>7
<1>9. ASSUME NEW p \in 1 .. m
      PROVE  /\ z[p] \in Nat \X Nat /\ z[p][1] = units[from[p]][1]
             /\ z[p][2] = units[Reach(units, from[p], max)][2]
             /\ Reach(units, from[p], max) \in from[p] .. n
  <2>1. z[p] = <<units[from[p]][1], units[Reach(units, from[p], max)][2]>>
    BY <1>5, <1>8
  <2>2. from[p] \in 1 .. n
    BY <1>8
  <2>3. Reach(units, from[p], max) \in from[p] .. n
    BY <1>2, <2>2
  <2>4. Reach(units, from[p], max) \in 1 .. n
    BY <1>1, <2>2, <2>3
  <2> QED
    BY <1>1, <2>1, <2>2, <2>3, <2>4
<1>10. z \in Seq(Nat \X Nat) /\ Len(z) = m
  <2>1. z \in [1 .. m -> Nat \X Nat]
    BY <1>5, <1>8, <1>9
  <2> QED
    BY <1>7, <2>1
<1>11. ASSUME NEW p \in 1 .. m
       PROVE  \E a, b \in 1 .. n : a <= b /\ z[p][1] = units[a][1] /\ z[p][2] = units[b][2]
  <2> DEFINE a == from[p]
             b == Reach(units, from[p], max)
  <2>1. a \in 1 .. n /\ b \in a .. n /\ z[p][1] = units[a][1] /\ z[p][2] = units[b][2]
    BY <1>8, <1>9
  <2> HIDE DEF a, b
  <2>2. b \in 1 .. n /\ a <= b
    BY <1>1, <2>1
  <2> QED
    BY <2>1, <2>2
<1>12. ASSUME NEW u \in 1 .. n
       PROVE  \E p \in 1 .. m : z[p][1] <= units[u][1] /\ units[u][2] <= z[p][2]
  <2>1. PICK i \in V : i <= u /\ u < next[i]
    BY <1>6
  <2>2. PICK p \in 1 .. m : from[p] = i
    BY <1>7
  <2> DEFINE r == Reach(units, i, max)
  <2>3. i \in 1 .. n /\ r \in i .. n /\ z[p][1] = units[i][1] /\ z[p][2] = units[r][2]
    BY <1>6, <1>9, <2>2
  <2>4. u <= r \/ u <= i
    BY <1>3, <2>1, <2>3
  <2> HIDE DEF r
  <2>5. r \in 1 .. n /\ u <= r
    BY <1>1, <2>3, <2>4
  <2> QED
    BY <1>1, <2>1, <2>3, <2>5
<1>13. ASSUME NEW p \in 1 .. m, NEW q \in 1 .. m, z[p][1] = z[q][1] PROVE p = q
  <2> DEFINE a == from[p]
             b == from[q]
  <2>1. a \in 1 .. n /\ b \in 1 .. n /\ units[a][1] = units[b][1]
    BY <1>8, <1>9, <1>13
  <2> HIDE DEF a, b
  <2>2. a = b
    <3>1. a < b \/ b < a \/ a = b
      BY <1>1, <2>1
    <3>2. units[a][1] \in Nat /\ units[b][1] \in Nat
      BY <1>1, <2>1
    <3> QED
      BY <1>1, <2>1, <3>1, <3>2
  <2> QED
    BY <1>7, <2>2 DEF a, b
<1> QED
  BY <1>10, <1>11, <1>12, <1>13 DEF Groups, z, n

\* What a strategy, or the cutting of a part, returns: spans within the part, that have all
\* its words, of which no two begin at the same place.
Cut(text, span, z) ==
    /\ z \in Seq(Nat \X Nat)
    /\ \A p \in 1 .. Len(z) : span[1] <= z[p][1] /\ z[p][1] < span[2] /\ z[p][2] <= span[2]
    /\ AllIn(Words(text, span), z)
    /\ \A p, q \in 1 .. Len(z) : z[p][1] = z[q][1] => p = q

\* Sentences of a part, taken together.
LEMMA SentencesCut ==
    ASSUME NEW text, NEW span \in Nat \X Nat, NEW max \in Nat, NEW overlap \in Nat
    PROVE  Cut(text, span, SentenceChunk(Sentences(text, span), max, overlap))
<1> DEFINE S == Words(text, span)
           units == Sentences(text, span)
           z == SentenceChunk(units, max, overlap)
           lo == span[1]
           hi == span[2]
<1>1. lo \in Nat /\ hi \in Nat /\ \A p \in S : p \in Nat /\ lo <= p /\ p < hi
  <2>1. lo \in Nat /\ hi \in Nat
    OBVIOUS
  <2>2. \A p \in S : p \in lo .. hi - 1
    BY DEF Words, Chars
  <2> HIDE DEF S, lo, hi
  <2> QED
    BY <2>1, <2>2
<1>2. units = Runs(S)
  BY DEF Sentences
<1> HIDE DEF S, units, lo, hi
<1>3. Apart(units, S) /\ AllIn(S, units)
  <2>1. \A p \in S : p \in 0 .. hi
    BY <1>1
  <2>2. S \in SUBSET (0 .. hi)
    BY <2>1
  <2> QED
    BY <1>1, <1>2, <2>2, RunsMean
<1>4. S \in SUBSET Nat
  BY <1>1
<1>5. Groups(z, units)
  BY <1>3, <1>4, SentencesGrouped
<1>6. \A a \in 1 .. Len(units) : units[a][1] \in S /\ units[a][2] - 1 \in S
                                   /\ units[a][1] \in Nat /\ units[a][2] \in Nat
  BY <1>3, <1>4, ApartOrders
<1> HIDE DEF z
<1>7. ASSUME NEW p \in 1 .. Len(z) PROVE lo <= z[p][1] /\ z[p][1] < hi /\ z[p][2] <= hi
  <2>1. PICK a \in 1 .. Len(units), b \in 1 .. Len(units) :
           z[p][1] = units[a][1] /\ z[p][2] = units[b][2]
    BY <1>5 DEF Groups
  <2>2. /\ units[a][1] \in Nat /\ units[b][2] \in Nat /\ lo <= units[a][1]
        /\ units[a][1] < hi /\ units[b][2] - 1 < hi
    BY <1>1, <1>6
  <2> QED
    BY <1>1, <2>1, <2>2
<1>8. AllIn(S, z)
  <2> SUFFICES ASSUME NEW x \in S
               PROVE  \E p \in 1 .. Len(z) : z[p][1] <= x /\ x < z[p][2]
    BY DEF AllIn
  <2>1. PICK u \in 1 .. Len(units) : units[u][1] <= x /\ x < units[u][2]
    BY <1>3 DEF AllIn
  <2>2. PICK p \in 1 .. Len(z) : z[p][1] <= units[u][1] /\ units[u][2] <= z[p][2]
    BY <1>5 DEF Groups
  <2>3. z[p][1] \in Nat /\ z[p][2] \in Nat /\ x \in Nat
        /\ units[u][1] \in Nat /\ units[u][2] \in Nat
    <3>1. z \in Seq(Nat \X Nat)
      BY <1>5 DEF Groups
    <3>2. z[p] \in Nat \X Nat
      BY <3>1
    <3> QED
      BY <1>1, <1>6, <3>2
  <2>4. z[p][1] <= x /\ x < z[p][2]
    <3> DEFINE a == z[p][1]
               b == units[u][1]
               c == units[u][2]
               d == z[p][2]
    <3>1. a \in Nat /\ b \in Nat /\ c \in Nat /\ d \in Nat /\ x \in Nat
      BY <2>3
    <3>2. b <= x /\ x < c /\ a <= b /\ c <= d
      BY <2>1, <2>2
    <3> HIDE DEF a, b, c, d
    <3>3. a <= x /\ x < d
      BY <3>1, <3>2
    <3> QED
      BY <3>3 DEF a, d
  <2> QED
    BY <2>4
<1>9. z \in Seq(Nat \X Nat) /\ \A p, q \in 1 .. Len(z) : z[p][1] = z[q][1] => p = q
  BY <1>5 DEF Groups
<1> QED
  BY <1>7, <1>8, <1>9 DEF Cut, S, z, units, lo, hi

\* Windows of a size.
LEMMA WindowsCut ==
    ASSUME NEW text, text.len \in Nat, NEW size \in Nat \ {0}, NEW overlap \in Nat
    PROVE  Cut(text, <<0, text.len>>, FixedSize(text, size, overlap))
<1> DEFINE n == text.len
           step == size - AtMost(overlap, size - 1)
           m == WindowCount(n, size, step)
           z == FixedSize(text, size, overlap)
           T == Words(text, <<0, text.len>>)
<1>1. \A x \in T : x \in 0 .. n - 1
  BY DEF Words, Chars
<1>2. z = IF n = 0 THEN << >>
          ELSE [w \in 1 .. m |-> <<(w - 1) * step, AtMost((w - 1) * step + size, n)>>]
  BY DEF FixedSize
<1>3. step \in 1 .. size
  BY DEF AtMost
<1>4. n \in Nat
  OBVIOUS
<1> HIDE DEF T, n, step, z
<1>5. CASE n = 0
  <2>1. z = << >> /\ Len(z) = 0 /\ z \in Seq(Nat \X Nat) /\ 1 .. Len(z) = {}
    BY <1>2, <1>5
  <2>2. T = {}
    BY <1>1, <1>5
  <2>3. AllIn(T, z)
    BY <2>2 DEF AllIn
  <2> QED
    BY <2>1, <2>3 DEF Cut, T, z
<1>6. CASE n # 0
  <2>1. n \in Nat \ {0}
    BY <1>4, <1>6
  <2>2. /\ m \in Nat \ {0}
        /\ \A w \in 1 .. m : (w - 1) * step \in Nat /\ (w - 1) * step < n
        /\ \A v, w \in 1 .. m : v < w => (v - 1) * step < (w - 1) * step
        /\ \A q \in 0 .. n - 1 : \E w \in 1 .. m :
              (w - 1) * step <= q /\ q < (w - 1) * step + size
    BY <1>3, <2>1, WindowsCover
  <2>3. z = [w \in 1 .. m |-> <<(w - 1) * step, AtMost((w - 1) * step + size, n)>>]
    BY <1>2, <1>6
  <2> HIDE DEF m
  <2>4. ASSUME NEW w \in 1 .. m
        PROVE  /\ z[w] \in Nat \X Nat /\ z[w][1] = (w - 1) * step /\ z[w][1] < n
               /\ z[w][2] \in Nat /\ z[w][2] <= n
               /\ z[w][2] = (w - 1) * step + size \/ z[w][2] = n
    <3> DEFINE s == (w - 1) * step
    <3>1. s \in Nat /\ s < n
      BY <2>2
    <3>2. z[w] = <<s, AtMost(s + size, n)>>
      BY <2>3
    <3> HIDE DEF s
    <3>3. /\ AtMost(s + size, n) \in Nat /\ AtMost(s + size, n) <= n
          /\ AtMost(s + size, n) = s + size \/ AtMost(s + size, n) = n
      BY <1>4, <3>1 DEF AtMost
    <3> QED
      BY <3>1, <3>2, <3>3 DEF s
  <2>5. z \in Seq(Nat \X Nat) /\ Len(z) = m
    <3>1. z \in [1 .. m -> Nat \X Nat]
      BY <2>3, <2>4
    <3> QED
      BY <2>2, <3>1
  <2>6. AllIn(T, z)
    <3> SUFFICES ASSUME NEW x \in T PROVE \E w \in 1 .. m : z[w][1] <= x /\ x < z[w][2]
      BY <2>5 DEF AllIn
    <3>1. x \in 0 .. n - 1
      BY <1>1
    <3>2. PICK w \in 1 .. m : (w - 1) * step <= x /\ x < (w - 1) * step + size
      BY <2>2, <3>1
    <3>3. x < z[w][2]
      <4>1. z[w][2] = (w - 1) * step + size \/ z[w][2] = n
        BY <2>4
      <4> QED
        BY <1>4, <3>1, <3>2, <4>1
    <3> QED
      BY <2>4, <3>2, <3>3
  <2>7. ASSUME NEW v \in 1 .. m, NEW w \in 1 .. m, z[v][1] = z[w][1] PROVE v = w
    <3> DEFINE a == (v - 1) * step
               b == (w - 1) * step
    <3>1. a \in Nat /\ b \in Nat /\ a = b /\ (v < w => a < b) /\ (w < v => b < a)
      BY <2>2, <2>4, <2>7
    <3> HIDE DEF a, b
    <3>2. ~(v < w) /\ ~(w < v)
      BY <3>1
    <3> QED
      BY <2>2, <3>2
  <2>8. \A w \in 1 .. m : 0 <= z[w][1] /\ z[w][1] < n /\ z[w][2] <= n
    BY <2>4
  <2> QED
    BY <2>5, <2>6, <2>7, <2>8 DEF Cut, T, n, z
<1> QED
  BY <1>5, <1>6

\* The spans that are not blank have the words of all of them.
LEMMA NotBlankMeans ==
    ASSUME NEW V, NEW text, NEW spans \in Seq(V)
    PROVE  \E I \in SUBSET (1 .. Len(spans)) :
              /\ PickedList(V, spans, I)
              /\ NotBlank(text, spans) = Picked(spans, I)
              /\ \A k \in 1 .. Len(spans) : k \in I <=> Words(text, spans[k]) # {}
<1> DEFINE I == {k \in DOMAIN spans : Words(text, spans[k]) # {}}
<1>1. DOMAIN spans = 1 .. Len(spans) /\ I \in SUBSET DOMAIN spans
  OBVIOUS
<1>2. PickedList(V, spans, I)
  <2> HIDE DEF I
  <2> QED
    BY <1>1, PickedMeans
<1>3. NotBlank(text, spans) = Picked(spans, I)
  BY DEF NotBlank
<1>4. \A k \in 1 .. Len(spans) : k \in I <=> Words(text, spans[k]) # {}
  BY <1>1
<1> HIDE DEF I
<1> QED
  BY <1>1, <1>2, <1>3, <1>4

\* The paragraphs: apart, and with all words in them.
LEMMA ParagraphsMean ==
    ASSUME NEW text, text.len \in Nat
    PROVE  \E S \in SUBSET (0 .. text.len - 1) :
              /\ Apart(Paragraphs(text), S)
              /\ AllIn(Words(text, <<0, text.len>>), Paragraphs(text))
<1> DEFINE S == {p \in 0 .. text.len - 1 : ~Break(text, p)}
           blocks == Blocks(text)
           paras == Paragraphs(text)
           W == Words(text, <<0, text.len>>)
<1>1. S \in SUBSET (0 .. text.len - 1)
  OBVIOUS
<1>2. \A x \in W : x \in S /\ x \in Nat /\ x \notin text.blank
  BY DEF Words, Chars, Break
<1>3. blocks = Runs(S) /\ paras = NotBlank(text, blocks)
  BY DEF Blocks, Paragraphs
<1> HIDE DEF S, W, blocks, paras
<1>4. Apart(blocks, S) /\ AllIn(S, blocks)
  <2>1. S \in SUBSET (0 .. text.len)
    BY <1>1
  <2> QED
    BY <1>3, <2>1, RunsMean
<1>5. blocks \in Seq(Nat \X Nat)
  BY <1>4 DEF Apart
<1>6. PICK I \in SUBSET (1 .. Len(blocks)) :
         /\ PickedList(Nat \X Nat, blocks, I)
         /\ paras = Picked(blocks, I)
         /\ \A k \in 1 .. Len(blocks) : k \in I <=> Words(text, blocks[k]) # {}
  BY <1>3, <1>5, NotBlankMeans
<1> DEFINE m == Cardinality(I)
           at == Ascending(I)
<1>7. /\ paras \in Seq(Nat \X Nat) /\ Len(paras) = m /\ at \in [1 .. m -> I]
      /\ \A p \in 1 .. m : paras[p] = blocks[at[p]]
      /\ \A p, q \in 1 .. m : at[p] < at[q] <=> p < q
      /\ \A i \in I : \E p \in 1 .. m : at[p] = i
  BY <1>6 DEF PickedList
<1> HIDE DEF m, at
<1>8. \A p \in 1 .. m : at[p] \in 1 .. Len(blocks)
  BY <1>6, <1>7
<1>9. Apart(paras, S)
  <2>1. ASSUME NEW p \in 1 .. m
        PROVE  /\ paras[p][1] \in S /\ paras[p][1] < paras[p][2]
               /\ paras[p][1] .. paras[p][2] - 1 \subseteq S
    <3>1. at[p] \in 1 .. Len(blocks) /\ paras[p] = blocks[at[p]]
      BY <1>7, <1>8
    <3> QED
      BY <1>4, <3>1 DEF Apart
  <2>2. ASSUME NEW p \in 1 .. m, NEW q \in 1 .. m, p < q PROVE paras[p][2] <= paras[q][1]
    <3>1. /\ at[p] \in 1 .. Len(blocks) /\ paras[p] = blocks[at[p]]
          /\ at[q] \in 1 .. Len(blocks) /\ paras[q] = blocks[at[q]]
          /\ at[p] < at[q]
      BY <1>7, <1>8, <2>2
    <3> QED
      BY <1>4, <3>1 DEF Apart
  <2> QED
    BY <1>7, <2>1, <2>2 DEF Apart
<1>10. AllIn(W, paras)
  <2> SUFFICES ASSUME NEW x \in W
               PROVE  \E p \in 1 .. m : paras[p][1] <= x /\ x < paras[p][2]
    BY <1>7 DEF AllIn
  <2>1. PICK k \in 1 .. Len(blocks) : blocks[k][1] <= x /\ x < blocks[k][2]
    BY <1>2, <1>4 DEF AllIn
  <2>2. x \in Words(text, blocks[k])
    <3>1. blocks[k][1] \in Nat /\ blocks[k][2] \in Nat
      BY <1>5
    <3>2. x \in blocks[k][1] .. blocks[k][2] - 1
      BY <1>2, <2>1, <3>1
    <3> QED
      BY <1>2, <3>2 DEF Words, Chars
  <2>3. k \in I
    BY <1>6, <2>2
  <2>4. PICK p \in 1 .. m : at[p] = k
    BY <1>7, <2>3
  <2> QED
    BY <1>7, <2>1, <2>4
<1> QED
  BY <1>1, <1>9, <1>10 DEF paras, W

\* How far a chunk of paragraphs reaches.
LEMMA LastMeans ==
    ASSUME NEW units, Len(units) \in Nat,
           \A a \in 1 .. Len(units) : units[a][1] \in Nat /\ units[a][2] \in Nat,
           NEW i \in 1 .. Len(units), NEW max \in Nat
    PROVE  LastOf(units, i, max) \in i .. Len(units)
<1> DEFINE n == Len(units)
           Far(k) == Oversized(units[k], max) \/ units[k][2] - units[i][1] > max
           T == {j \in i .. n : j < n => Far(j + 1)}
<1>1. n \in T /\ n \in Nat /\ i \in 1 .. n
  BY DEF T
<1>2. \A k \in 1 .. n : ~Far(k) =>
         ~Oversized(units[k], max) /\ units[k][2] - units[i][1] <= max
  <2> SUFFICES ASSUME NEW k \in 1 .. n, ~Far(k)
               PROVE  ~Oversized(units[k], max) /\ units[k][2] - units[i][1] <= max
    OBVIOUS
  <2>1. units[k][2] \in Nat /\ units[i][1] \in Nat
    BY <1>1
  <2>2. ~Oversized(units[k], max) /\ ~(units[k][2] - units[i][1] > max)
    OBVIOUS
  <2> QED
    BY <2>1, <2>2
<1>3. PICK j \in T : \A r \in T : j <= r
  <2>1. T \in SUBSET Nat /\ T # {}
    <3>1. \A j \in T : j \in Nat
      BY <1>1
    <3> HIDE DEF T
    <3> QED
      BY <1>1, <3>1
  <2> HIDE DEF T
  <2> QED
    BY <2>1, LeastElement
<1> HIDE DEF Far
<1>4. j \in i .. n /\ (j < n => Far(j + 1))
  OBVIOUS
<1>5. ASSUME NEW k \in i + 1 .. j PROVE ~Far(k) /\ k \in 1 .. n
  <2> DEFINE h == k - 1
  <2>1. h \in i .. n /\ h < n /\ h < j /\ h + 1 = k /\ k \in 1 .. n
    BY <1>1, <1>4
  <2>2. h \notin T
    <3>1. h < j /\ h \in Nat /\ j \in Nat
      BY <1>1, <1>4, <2>1
    <3> HIDE DEF T, h
    <3> QED
      BY <1>3, <3>1
  <2> QED
    BY <2>1, <2>2
<1>6. \E t \in i .. Len(units) :
         /\ \A k \in i + 1 .. t :
               ~Oversized(units[k], max) /\ units[k][2] - units[i][1] <= max
         /\ t < Len(units) => \/ Oversized(units[t + 1], max)
                              \/ units[t + 1][2] - units[i][1] > max
  BY <1>2, <1>4, <1>5 DEF Far
<1> QED
  BY <1>6, Zenon DEF LastOf

\* Paragraphs, taken together or cut by their sentences.
LEMMA ParagraphsCut ==
    ASSUME NEW text, text.len \in Nat, NEW max \in Nat, NEW overlap \in Nat
    PROVE  Cut(text, <<0, text.len>>, ParagraphChunk(text, max, overlap))
<1> DEFINE len == text.len
           W == Words(text, <<0, text.len>>)
           paras == Paragraphs(text)
           n == Len(paras)
           next == [i \in DOMAIN paras |->
                       IF Oversized(paras[i], max) THEN i + 1
                       ELSE AtLeast(i + 1, LastOf(paras, i, max) + 1 - overlap)]
           V == Visited(next)
           m == Cardinality(V)
           from == Ascending(V)
           chunks(i) == IF Oversized(paras[i], max)
                        THEN SentenceChunk(Sentences(text, paras[i]), max, CarriedSentences)
                        ELSE << <<paras[i][1], paras[LastOf(paras, i, max)][2]>> >>
           seqs == [p \in DOMAIN from |-> chunks(from[p])]
           z == ParagraphChunk(text, max, overlap)
<1>1. PICK S \in SUBSET (0 .. len - 1) : Apart(paras, S) /\ AllIn(W, paras)
  BY ParagraphsMean
<1>2. z = Flat(seqs)
  BY DEF ParagraphChunk
<1>3. len \in Nat /\ \A x \in W : x \in Nat /\ x < len /\ x \notin text.blank
  BY DEF Words, Chars
<1> HIDE DEF W, paras, z, len
<1>4. /\ n \in Nat /\ DOMAIN paras = 1 .. n
      /\ \A a \in 1 .. n :
            /\ paras[a] \in Nat \X Nat
            /\ paras[a][1] \in Nat /\ paras[a][2] \in Nat /\ paras[a][1] < paras[a][2]
            /\ paras[a][2] <= len
      /\ \A a, b \in 1 .. n :
            /\ a <= b => paras[a][1] <= paras[b][1] /\ paras[a][2] <= paras[b][2]
            /\ a < b => paras[a][2] <= paras[b][1]
  <2>1. S \in SUBSET Nat /\ \A x \in S : x < len
    BY <1>3
  <2>2. /\ Len(paras) \in Nat
        /\ \A a \in 1 .. Len(paras) :
              /\ paras[a] = <<paras[a][1], paras[a][2]>>
              /\ paras[a][1] \in Nat /\ paras[a][2] \in Nat /\ paras[a][1] < paras[a][2]
              /\ paras[a][1] \in S /\ paras[a][2] - 1 \in S
        /\ \A a, b \in 1 .. Len(paras) :
              /\ a <= b => paras[a][1] <= paras[b][1] /\ paras[a][2] <= paras[b][2]
              /\ a < b => paras[a][1] < paras[b][1]
    BY <1>1, <2>1, ApartOrders
  <2>3. DOMAIN paras = 1 .. n
    BY <1>1 DEF Apart
  <2>4. \A a, b \in 1 .. n : a < b => paras[a][2] <= paras[b][1]
    BY <1>1 DEF Apart
  <2>5. ASSUME NEW a \in 1 .. n PROVE paras[a] \in Nat \X Nat /\ paras[a][2] <= len
    <3>1. /\ paras[a] = <<paras[a][1], paras[a][2]>> /\ paras[a][1] \in Nat
          /\ paras[a][2] \in Nat /\ paras[a][2] - 1 \in S
      BY <2>2
    <3>2. paras[a][2] - 1 < len
      BY <2>1, <3>1
    <3>3. paras[a] \in Nat \X Nat
      BY <3>1
    <3> QED
      BY <1>3, <3>1, <3>2, <3>3
  <2> QED
    BY <2>2, <2>3, <2>4, <2>5
<1>5. \A i \in 1 .. n : LastOf(paras, i, max) \in i .. n
  BY <1>4, LastMeans
<1> HIDE DEF n
<1>6. ASSUME NEW i \in 1 .. n
      PROVE  /\ next[i] \in Nat /\ i < next[i] /\ next[i] <= n + 1
             /\ Oversized(paras[i], max) => next[i] = i + 1
             /\ \A u \in 1 .. n : i <= u /\ u < next[i] => u <= LastOf(paras, i, max)
  <2> DEFINE r == LastOf(paras, i, max)
             y == next[i]
  <2>1. i \in Nat /\ r \in Nat /\ i <= n /\ i <= r /\ r <= n
    BY <1>4, <1>5
  <2>2. i \in DOMAIN paras
    BY <1>4
  <2>3. y = IF Oversized(paras[i], max) THEN i + 1 ELSE AtLeast(i + 1, r + 1 - overlap)
    BY <2>2
  <2> HIDE DEF r, y
  <2>4. CASE Oversized(paras[i], max)
    <3>1. y = i + 1
      BY <2>3, <2>4
    <3>2. \A u \in 1 .. n : i <= u /\ u < y => u <= r
      BY <1>4, <2>1, <3>1
    <3> QED
      BY <1>4, <2>1, <3>1, <3>2 DEF r, y
  <2>5. CASE ~Oversized(paras[i], max)
    <3>1. y = IF i + 1 < r + 1 - overlap THEN r + 1 - overlap ELSE i + 1
      BY <2>3, <2>5 DEF AtLeast
    <3>2. (y = r + 1 - overlap /\ i + 1 < y) \/ y = i + 1
      BY <3>1
    <3>3. y \in Nat /\ i < y /\ y <= n + 1
      BY <1>4, <2>1, <3>2
    <3>4. \A u \in 1 .. n : i <= u /\ u < y => u <= r
      BY <1>4, <2>1, <3>2
    <3> QED
      BY <2>5, <3>3, <3>4 DEF r, y
  <2> QED
    BY <2>4, <2>5
<1>7. next \in Seq(Nat) /\ Len(next) = n
  <2>1. next \in [1 .. n -> Nat]
    <3>1. next = [i \in 1 .. n |-> next[i]]
      BY <1>4
    <3> HIDE DEF next
    <3> QED
      BY <1>6, <3>1
  <2> HIDE DEF next
  <2> QED
    BY <1>4, <2>1
<1> HIDE DEF next
<1>8. /\ V \in SUBSET (1 .. n) /\ IsFiniteSet(V)
      /\ \A u \in 1 .. n : \E i \in V : i <= u /\ u < next[i]
  BY <1>6, <1>7, VisitedMeans
<1> HIDE DEF V
<1>9. /\ m \in Nat /\ from \in [1 .. m -> V]
      /\ \A p, q \in 1 .. m : from[p] = from[q] => p = q
      /\ \A i \in V : \E p \in 1 .. m : from[p] = i
  <2>1. V \in SUBSET Int
    BY <1>8
  <2> QED
    BY <1>8, <2>1, AscendingMeans
<1> HIDE DEF from, m
<1>10. DOMAIN from = 1 .. m /\ \A p \in 1 .. m : from[p] \in 1 .. n
  BY <1>8, <1>9
<1> HIDE DEF chunks
<1>11. ASSUME NEW i \in 1 .. n
       PROVE  /\ chunks(i) \in Seq(Nat \X Nat)
              /\ \A k \in 1 .. Len(chunks(i)) :
                    /\ paras[i][1] <= chunks(i)[k][1] /\ chunks(i)[k][1] < paras[i][2]
                    /\ chunks(i)[k][2] <= len
              /\ \A j, k \in 1 .. Len(chunks(i)) : chunks(i)[j][1] = chunks(i)[k][1] => j = k
              /\ \A u \in 1 .. n, x \in W :
                    i <= u /\ u < next[i] /\ paras[u][1] <= x /\ x < paras[u][2] =>
                       \E k \in 1 .. Len(chunks(i)) :
                          chunks(i)[k][1] <= x /\ x < chunks(i)[k][2]
  <2> DEFINE c == chunks(i)
  <2>1. CASE Oversized(paras[i], max)
    <3>1. c = SentenceChunk(Sentences(text, paras[i]), max, CarriedSentences)
      BY <2>1 DEF chunks
    <3>2. Cut(text, paras[i], c)
      <4>1. CarriedSentences \in Nat /\ paras[i] \in Nat \X Nat
        BY <1>4 DEF CarriedSentences
      <4> QED
        BY <3>1, <4>1, SentencesCut
    <3> HIDE DEF c
    <3>3. /\ c \in Seq(Nat \X Nat)
          /\ \A k \in 1 .. Len(c) :
                paras[i][1] <= c[k][1] /\ c[k][1] < paras[i][2] /\ c[k][2] <= paras[i][2]
          /\ AllIn(Words(text, paras[i]), c)
          /\ \A j, k \in 1 .. Len(c) : c[j][1] = c[k][1] => j = k
      BY <3>2 DEF Cut
    <3>4. \A k \in 1 .. Len(c) : c[k][2] <= len
      <4> SUFFICES ASSUME NEW k \in 1 .. Len(c) PROVE c[k][2] <= len
        OBVIOUS
      <4>1. c[k] \in Nat \X Nat
        BY <3>3
      <4>2. c[k][2] \in Nat /\ c[k][2] <= paras[i][2]
        BY <3>3, <4>1
      <4> QED
        BY <1>3, <1>4, <4>2
    <3>5. ASSUME NEW u \in 1 .. n, NEW x \in W, i <= u, u < next[i],
                 paras[u][1] <= x, x < paras[u][2]
          PROVE  \E k \in 1 .. Len(c) : c[k][1] <= x /\ x < c[k][2]
      <4>1. u = i
        <5>1. next[i] = i + 1
          BY <1>6, <2>1
        <5>2. i \in Nat /\ u \in Nat
          BY <1>4
        <5> QED
          BY <3>5, <5>1, <5>2
      <4>2. x \in paras[i][1] .. paras[i][2] - 1
        BY <1>3, <1>4, <3>5, <4>1
      <4>3. x \in Words(text, paras[i])
        BY <1>3, <4>2 DEF Words, Chars
      <4> QED
        BY <3>3, <4>3 DEF AllIn
    <3> QED
      BY <3>3, <3>4, <3>5 DEF c
  <2>2. CASE ~Oversized(paras[i], max)
    <3> DEFINE r == LastOf(paras, i, max)
               a == paras[i][1]
               b == paras[r][2]
    <3>1. c = << <<a, b>> >>
      BY <2>2 DEF chunks
    <3>2. r \in i .. n
      BY <1>5
    <3>3. r \in 1 .. n /\ i <= r
      BY <1>4, <3>2
    <3>4. /\ a \in Nat /\ b \in Nat /\ b <= len /\ a < paras[i][2]
      BY <1>4, <3>3
    <3>5. ASSUME NEW u \in 1 .. n, NEW x \in W, i <= u, u < next[i],
                 paras[u][1] <= x, x < paras[u][2]
          PROVE  a <= x /\ x < b
      <4>1. u <= r
        BY <1>6, <3>5
      <4>2. /\ paras[i][1] <= paras[u][1] /\ paras[u][2] <= paras[r][2]
            /\ paras[u][1] \in Nat /\ paras[u][2] \in Nat
        BY <1>4, <3>3, <3>5, <4>1
      <4> DEFINE d == paras[u][1]
                 e == paras[u][2]
      <4>3. /\ d \in Nat /\ e \in Nat /\ x \in Nat /\ a <= d /\ e <= b /\ d <= x /\ x < e
        BY <1>3, <3>5, <4>2
      <4> HIDE DEF a, b, d, e
      <4> QED
        BY <3>4, <4>3
    <3> HIDE DEF c, r
    <3>6. c \in Seq(Nat \X Nat) /\ Len(c) = 1 /\ c[1][1] = a /\ c[1][2] = b
      <4> HIDE DEF a, b
      <4>1. <<a, b>> \in Nat \X Nat
        BY <3>4
      <4> DEFINE ab == <<a, b>>
      <4>2. ab[1] = a /\ ab[2] = b /\ ab \in Nat \X Nat /\ c = <<ab>>
        BY <3>1, <4>1
      <4> HIDE DEF ab
      <4> QED
        BY <4>2
    <3> HIDE DEF b
    <3>7. \A k \in 1 .. Len(c) : k = 1
      BY <3>6
    <3>8. \A k \in 1 .. Len(c) : a <= c[k][1] /\ c[k][1] < paras[i][2] /\ c[k][2] <= len
      BY <3>4, <3>6, <3>7
    <3>9. ASSUME NEW u \in 1 .. n, NEW x \in W, i <= u, u < next[i],
                 paras[u][1] <= x, x < paras[u][2]
          PROVE  \E k \in 1 .. Len(c) : c[k][1] <= x /\ x < c[k][2]
      <4>1. a <= x /\ x < b
        BY <3>5, <3>9
      <4>2. 1 \in 1 .. Len(c)
        BY <3>6
      <4> HIDE DEF a
      <4> QED
        BY <3>6, <4>1, <4>2
    <3> QED
      BY <3>6, <3>7, <3>8, <3>9 DEF c
  <2> QED
    BY <2>1, <2>2
<1>12. seqs = [p \in 1 .. m |-> chunks(from[p])]
  BY <1>10
<1> HIDE DEF seqs
<1> DEFINE lens == [p \in 1 .. m |-> Len(seqs[p])]
<1>13. \A p \in 1 .. m : /\ seqs[p] = chunks(from[p]) /\ seqs[p] \in Seq(Nat \X Nat)
                         /\ Len(seqs[p]) \in Nat /\ DOMAIN seqs[p] = 1 .. Len(seqs[p])
  <2> SUFFICES ASSUME NEW p \in 1 .. m
               PROVE  /\ seqs[p] = chunks(from[p]) /\ seqs[p] \in Seq(Nat \X Nat)
                      /\ Len(seqs[p]) \in Nat /\ DOMAIN seqs[p] = 1 .. Len(seqs[p])
    OBVIOUS
  <2>1. seqs[p] = chunks(from[p]) /\ seqs[p] \in Seq(Nat \X Nat)
    BY <1>10, <1>11, <1>12
  <2> QED
    BY <2>1
<1>14. PICK t \in Nat : \E at : FlatBy(seqs, t, at)
  <2>1. lens \in [1 .. m -> Nat] /\ \A p \in 1 .. m : DOMAIN seqs[p] = 1 .. lens[p]
    BY <1>13
  <2>2. DOMAIN seqs = 1 .. m
    BY <1>12
  <2> HIDE DEF lens
  <2> QED
    BY <1>9, <2>1, <2>2, FlatMeans
<1>15. PICK at : FlatBy(seqs, t, at)
  BY <1>14
<1>16. /\ z = [p \in 1 .. t |-> seqs[at[p][1]][at[p][2]]]
       /\ \A p \in 1 .. t : at[p][1] \in 1 .. m /\ at[p][2] \in 1 .. Len(seqs[at[p][1]])
       /\ \A i \in 1 .. m : \A k \in 1 .. Len(seqs[i]) :
             \E p \in 1 .. t : at[p][1] = i /\ at[p][2] = k
       /\ \A p, q \in 1 .. t : at[p][1] = at[q][1] /\ at[p][2] = at[q][2] => p = q
  <2>1. DOMAIN seqs = 1 .. m
    BY <1>12
  <2>2. \A i \in 1 .. m : DOMAIN seqs[i] = 1 .. Len(seqs[i])
    BY <1>13
  <2>3. z = [p \in 1 .. t |-> seqs[at[p][1]][at[p][2]]]
    BY <1>2, <1>15 DEF FlatBy
  <2>4. \A p \in 1 .. t : at[p][1] \in 1 .. m /\ at[p][2] \in 1 .. Len(seqs[at[p][1]])
    BY <1>15, <2>1, <2>2 DEF FlatBy
  <2>5. \A i \in 1 .. m : \A k \in 1 .. Len(seqs[i]) :
           \E p \in 1 .. t : at[p][1] = i /\ at[p][2] = k
    <3> SUFFICES ASSUME NEW i \in 1 .. m, NEW k \in 1 .. Len(seqs[i])
                 PROVE  \E p \in 1 .. t : at[p][1] = i /\ at[p][2] = k
      OBVIOUS
    <3>1. i \in DOMAIN seqs /\ k \in DOMAIN seqs[i]
      BY <2>1, <2>2
    <3>2. \A x \in DOMAIN seqs : \A y \in DOMAIN seqs[x] :
             \E p \in 1 .. t : at[p][1] = x /\ at[p][2] = y
      BY <1>15, Zenon DEF FlatBy
    <3> QED
      BY <3>1, <3>2
  <2>6. \A p, q \in 1 .. t : at[p][1] = at[q][1] /\ at[p][2] = at[q][2] => p = q
    BY <1>15 DEF FlatBy
  <2> QED
    BY <2>3, <2>4, <2>5, <2>6
<1>17. ASSUME NEW p \in 1 .. t
       PROVE  \E i \in 1 .. n : \E k \in 1 .. Len(chunks(i)) :
                 /\ i = from[at[p][1]] /\ k = at[p][2] /\ z[p] = chunks(i)[k]
                 /\ z[p] \in Nat \X Nat
  <2>1. /\ at[p][1] \in 1 .. m /\ at[p][2] \in 1 .. Len(seqs[at[p][1]])
        /\ z[p] = seqs[at[p][1]][at[p][2]]
    BY <1>16
  <2> DEFINE i == from[at[p][1]]
             k == at[p][2]
  <2>2. i \in 1 .. n /\ k \in 1 .. Len(chunks(i)) /\ z[p] = chunks(i)[k]
    BY <1>10, <1>13, <2>1
  <2>3. chunks(i) \in Seq(Nat \X Nat)
    BY <1>11, <2>2
  <2> HIDE DEF i, k
  <2>4. z[p] \in Nat \X Nat
    BY <2>2, <2>3
  <2> QED
    BY <2>2, <2>4 DEF i, k
<1>18. z \in Seq(Nat \X Nat) /\ Len(z) = t
  <2>1. z \in [1 .. t -> Nat \X Nat]
    BY <1>16, <1>17
  <2> QED
    BY <1>14, <2>1
<1>19. ASSUME NEW p \in 1 .. t PROVE 0 <= z[p][1] /\ z[p][1] < len /\ z[p][2] <= len
  <2>1. PICK i \in 1 .. n : \E k \in 1 .. Len(chunks(i)) :
                               z[p] = chunks(i)[k] /\ z[p] \in Nat \X Nat
    BY <1>17
  <2>2. z[p][1] \in Nat /\ z[p][2] \in Nat /\ z[p][1] < paras[i][2] /\ z[p][2] <= len
    BY <1>11, <2>1
  <2>3. paras[i][2] \in Nat /\ paras[i][2] <= len
    BY <1>4
  <2> QED
    BY <1>3, <2>2, <2>3
<1>20. AllIn(W, z)
  <2> SUFFICES ASSUME NEW x \in W PROVE \E p \in 1 .. t : z[p][1] <= x /\ x < z[p][2]
    BY <1>18 DEF AllIn
  <2>1. PICK u \in 1 .. n : paras[u][1] <= x /\ x < paras[u][2]
    BY <1>1 DEF AllIn, n
  <2>2. PICK i \in V : i <= u /\ u < next[i]
    BY <1>8
  <2>3. i \in 1 .. n
    BY <1>8
  <2>4. PICK k \in 1 .. Len(chunks(i)) : chunks(i)[k][1] <= x /\ x < chunks(i)[k][2]
    BY <1>11, <2>1, <2>2, <2>3
  <2>5. PICK j \in 1 .. m : from[j] = i
    BY <1>9
  <2>6. seqs[j] = chunks(i)
    BY <1>13, <2>5
  <2>7. PICK p \in 1 .. t : at[p][1] = j /\ at[p][2] = k
    BY <1>16, <2>6
  <2>8. z[p] = chunks(i)[k]
    BY <1>16, <2>6, <2>7
  <2> QED
    BY <2>4, <2>8
<1>21. ASSUME NEW p \in 1 .. t, NEW q \in 1 .. t, z[p][1] = z[q][1] PROVE p = q
  <2>1. PICK i \in 1 .. n : \E k \in 1 .. Len(chunks(i)) :
                               /\ i = from[at[p][1]] /\ k = at[p][2] /\ z[p] = chunks(i)[k]
                               /\ z[p] \in Nat \X Nat
    BY <1>17
  <2>2. PICK k \in 1 .. Len(chunks(i)) :
                               /\ i = from[at[p][1]] /\ k = at[p][2] /\ z[p] = chunks(i)[k]
                               /\ z[p] \in Nat \X Nat
    BY <2>1
  <2>3. PICK j \in 1 .. n : \E l \in 1 .. Len(chunks(j)) :
                               /\ j = from[at[q][1]] /\ l = at[q][2] /\ z[q] = chunks(j)[l]
                               /\ z[q] \in Nat \X Nat
    BY <1>17
  <2>4. PICK l \in 1 .. Len(chunks(j)) :
                               /\ j = from[at[q][1]] /\ l = at[q][2] /\ z[q] = chunks(j)[l]
                               /\ z[q] \in Nat \X Nat
    BY <2>3
  <2>5. /\ paras[i][1] <= z[p][1] /\ z[p][1] < paras[i][2] /\ z[p][1] \in Nat
        /\ paras[j][1] <= z[q][1] /\ z[q][1] < paras[j][2]
    <3>1. z[p] = chunks(i)[k] /\ z[q] = chunks(j)[l] /\ z[p][1] \in Nat
      BY <2>2, <2>4
    <3>2. paras[i][1] <= chunks(i)[k][1] /\ chunks(i)[k][1] < paras[i][2]
      BY <1>11
    <3>3. paras[j][1] <= chunks(j)[l][1] /\ chunks(j)[l][1] < paras[j][2]
      BY <1>11
    <3> QED
      BY <3>1, <3>2, <3>3
  <2>6. i = j
    <3> DEFINE a == paras[i][1]
               b == paras[i][2]
               d == paras[j][1]
               e == paras[j][2]
               s == z[p][1]
    <3>1. /\ a \in Nat /\ b \in Nat /\ d \in Nat /\ e \in Nat /\ s \in Nat
          /\ a <= s /\ s < b /\ d <= s /\ s < e
          /\ i < j => b <= d
          /\ j < i => e <= a
      BY <1>4, <1>21, <2>5
    <3> HIDE DEF a, b, d, e, s
    <3>2. ~(i < j) /\ ~(j < i)
      BY <3>1
    <3> QED
      BY <1>4, <3>2
  <2>7. k = l
    <3>1. l \in 1 .. Len(chunks(i)) /\ chunks(i)[l][1] = chunks(i)[k][1]
      BY <1>21, <2>2, <2>4, <2>6
    <3> QED
      BY <1>11, <3>1
  <2>8. at[p][1] = at[q][1]
    <3>1. at[p][1] \in 1 .. m /\ at[q][1] \in 1 .. m /\ from[at[p][1]] = from[at[q][1]]
      BY <1>16, <2>2, <2>4, <2>6
    <3> QED
      BY <1>9, <3>1
  <2> QED
    BY <1>16, <2>2, <2>4, <2>7, <2>8
<1> QED
  BY <1>18, <1>19, <1>20, <1>21 DEF Cut, W, z, len

-----------------------------------------------------------------------------
(* The token guard (split_by_tokens).                                      *)

\* The words of a span, character by character.
LEMMA WordsAre ==
    ASSUME NEW text, NEW span \in Nat \X Nat
    PROVE  /\ \A x \in Words(text, span) :
                 x \in Nat /\ span[1] <= x /\ x < span[2] /\ x \notin text.blank
           /\ \A x \in Nat : span[1] <= x /\ x < span[2] /\ x \notin text.blank
                                => x \in Words(text, span)
           /\ \A x : x \in Chars(span) <=> x \in Nat /\ span[1] <= x /\ x < span[2]
           /\ \A x : x \in Words(text, span) <=> x \in Chars(span) /\ x \notin text.blank
           /\ IsFiniteSet(Chars(span))
<1> DEFINE a == span[1]
           b == span[2]
<1>1. a \in Nat /\ b \in Nat
  OBVIOUS
<1>2. Words(text, span) = Chars(span) \ text.blank /\ Chars(span) = a .. b - 1
  BY DEF Words, Chars
<1> HIDE DEF a, b
<1>3. IsFiniteSet(a .. b - 1)
  BY <1>1, FS_Interval
<1>4. \A x : x \in a .. b - 1 <=> x \in Nat /\ a <= x /\ x < b
  BY <1>1
<1> QED
  BY <1>2, <1>3, <1>4 DEF a, b

\* The tokens of a span lie in it, one after the other, and all that is read is in one.
LEMMA TokensAre ==
    ASSUME NEW text, NEW span \in Nat \X Nat, NEW tokenizer
    PROVE  LET R == ReadIn(text, span, tokenizer)
               T == TokenStarts(text, span, tokenizer)
               end(p) == TokenEnd(text, span, tokenizer, p)
           IN  /\ \A x \in R : x \in Nat /\ span[1] <= x /\ x < span[2]
               /\ \A x \in Words(text, span) : x \in R
               /\ tokenizer.kind = "model" => R = Words(text, span)
               /\ \A p \in T : p \in R
               /\ T \in SUBSET Int /\ IsFiniteSet(T)
               /\ \A p \in T : /\ end(p) \in Nat /\ p < end(p) /\ end(p) <= span[2]
                               /\ \A q \in T : p < q => end(p) <= q
               /\ \A x \in R : \E p \in T : p <= x /\ x < end(p)
<1> DEFINE R == ReadIn(text, span, tokenizer)
           T == TokenStarts(text, span, tokenizer)
           end(p) == TokenEnd(text, span, tokenizer, p)
           lo == span[1]
           hi == span[2]
<1>1. lo \in Nat /\ hi \in Nat
  OBVIOUS
<1>2. /\ \A x : x \in Chars(span) <=> x \in Nat /\ lo <= x /\ x < hi
      /\ \A x : x \in Words(text, span) <=> x \in Chars(span) /\ x \notin text.blank
      /\ IsFiniteSet(Chars(span))
  BY WordsAre
<1>3. R = IF tokenizer.kind = "model" THEN Words(text, span) ELSE Chars(span)
  BY DEF ReadIn
<1>4. \A p : p \in T <=> /\ p \in R
                         /\ \/ tokenizer.kind = "chars"
                            \/ \E s \in lo .. p : /\ p - s \in {0} \cup tokenizer.cuts
                                                  /\ Leads(text, span, s, p)
  BY DEF TokenStarts
<1>5. \A p : end(p) = EndOf(R \ (T \ {p}), p)
  BY DEF TokenEnd
<1>6. \A s, p : Leads(text, span, s, p) <=>
                   /\ \A q \in s .. p : q \in text.blank <=> p \in text.blank
                   /\ s = lo \/ ~(s - 1 \in text.blank <=> p \in text.blank)
  BY DEF Leads
<1> HIDE DEF R, T, end, lo, hi
<1>7. /\ \A x \in R : x \in Nat /\ lo <= x /\ x < hi
      /\ \A x \in Words(text, span) : x \in R
      /\ \A x \in Nat : lo <= x /\ x < hi =>
            (x \in R <=> (tokenizer.kind = "model" => x \notin text.blank))
  BY <1>2, <1>3
<1>8. T \in SUBSET Int /\ IsFiniteSet(T)
  <2>1. T \in SUBSET Chars(span)
    BY <1>2, <1>4, <1>7
  <2>2. \A x \in T : x \in Int
    BY <1>4, <1>7
  <2> QED
    BY <1>2, <2>1, <2>2, FS_Subset
<1>9. ASSUME NEW p \in T
      PROVE  /\ end(p) \in Nat /\ p < end(p) /\ end(p) <= hi
             /\ end(p) \notin R \ (T \ {p})
             /\ \A q \in T : p < q => end(p) <= q
  <2> DEFINE S == R \ (T \ {p})
  <2>1. S \in SUBSET (0 .. hi) /\ p \in S /\ p \in Nat
    BY <1>1, <1>4, <1>7
  <2>2. end(p) = EndOf(S, p)
    BY <1>5
  <2>3. \A x \in S : x \in R /\ x \notin T \ {p}
    OBVIOUS
  <2> HIDE DEF S
  <2>4. end(p) \in Nat /\ p < end(p) /\ end(p) \notin S /\ p .. end(p) - 1 \subseteq S
    BY <1>1, <2>1, <2>2, EndMeans
  <2>5. end(p) <= hi
    <3>1. end(p) - 1 \in p .. end(p) - 1
      BY <2>1, <2>4
    <3>2. end(p) - 1 \in R
      BY <2>3, <2>4, <3>1
    <3>3. end(p) - 1 < hi
      BY <1>7, <3>2
    <3> QED
      BY <1>1, <2>4, <3>3
  <2>6. ASSUME NEW q \in T, p < q PROVE end(p) <= q
    <3>1. q \in Nat
      BY <1>4, <1>7
    <3> SUFFICES ASSUME q < end(p) PROVE FALSE
      BY <2>4, <3>1
    <3>2. q \in p .. end(p) - 1
      BY <2>1, <2>4, <2>6, <3>1
    <3>3. q \notin T \ {p}
      BY <2>3, <2>4, <3>2
    <3>4. q # p
      BY <2>1, <2>6
    <3> QED
      BY <3>3, <3>4
  <2> QED
    BY <2>4, <2>5, <2>6 DEF S
<1>10. ASSUME NEW x \in R PROVE \E p \in T : p <= x /\ x < end(p)
  <2>1. x \in Nat /\ lo <= x /\ x < hi
    BY <1>7
  <2>2. \E s \in T : s <= x /\ \A q \in s .. x : q \in R
    <3>1. CASE tokenizer.kind = "chars"
      <4>1. x \in T
        BY <1>4, <3>1
      <4>2. \A q \in x .. x : q = x
        BY <2>1
      <4> QED
        BY <2>1, <4>1, <4>2
    <3>2. CASE tokenizer.kind # "chars"
      <4> DEFINE G == {s \in lo .. x : \A q \in s .. x : q \in text.blank <=> x \in text.blank}
      <4>1. \A q \in x .. x : q = x
        BY <2>1
      <4>2. x \in lo .. x
        BY <1>1, <2>1
      <4>3. x \in G
        BY <4>1, <4>2
      <4>4. G \in SUBSET Nat
        BY <1>1
      <4>5. \A s : s \in G <=> /\ s \in lo .. x
                               /\ \A q \in s .. x : q \in text.blank <=> x \in text.blank
        OBVIOUS
      <4> HIDE DEF G
      <4>6. PICK s \in G : \A r \in G : s <= r
        BY <4>3, <4>4, LeastElement
      <4>7. /\ s \in lo .. x /\ s \in Nat /\ lo <= s /\ s <= x
            /\ \A q \in s .. x : q \in text.blank <=> x \in text.blank
        BY <1>1, <4>4, <4>5, <4>6
      <4>8. \A q \in s .. x : q \in R
        <5> SUFFICES ASSUME NEW q \in s .. x PROVE q \in R
          OBVIOUS
        <5>1. q \in Nat /\ lo <= q /\ q < hi
          BY <1>1, <2>1, <4>7
        <5>2. q \in text.blank <=> x \in text.blank
          BY <4>7
        <5> QED
          BY <1>7, <2>1, <5>1, <5>2
      <4>9. s \in s .. x /\ s \in lo .. s /\ \A q \in s .. s : q = s
        BY <1>1, <4>7
      <4>10. s = lo \/ ~(s - 1 \in text.blank <=> s \in text.blank)
        <5> SUFFICES ASSUME s # lo, s - 1 \in text.blank <=> s \in text.blank PROVE FALSE
          OBVIOUS
        <5>1. s - 1 \in lo .. x
          BY <1>1, <2>1, <4>7
        <5>2. ASSUME NEW q \in s - 1 .. x PROVE q \in text.blank <=> x \in text.blank
          <6>1. CASE q = s - 1
            BY <4>7, <4>9, <6>1
          <6>2. CASE q # s - 1
            <7>1. q \in s .. x
              BY <2>1, <4>7, <6>2
            <7> QED
              BY <4>7, <7>1
          <6> QED
            BY <6>1, <6>2
        <5>3. s - 1 \in G
          BY <4>5, <5>1, <5>2
        <5> QED
          BY <4>6, <4>7, <5>3
      <4>11. Leads(text, span, s, s)
        BY <1>6, <4>9, <4>10
      <4>12. s - s \in {0} \cup tokenizer.cuts
        BY <4>7
      <4>13. s \in R
        BY <4>8, <4>9
      <4>14. s \in T
        BY <1>4, <4>9, <4>11, <4>12, <4>13
      <4> QED
        BY <4>7, <4>8, <4>14
    <3> QED
      BY <3>1, <3>2
  <2>3. PICK s \in T : s <= x /\ \A q \in s .. x : q \in R
    BY <2>2
  <2> DEFINE U == {q \in T : s <= q /\ q <= x}
  <2>4. PICK p \in U : \A q \in U : q <= p
    <3>1. U \in SUBSET Int /\ U \in SUBSET T
      BY <1>8
    <3>2. IsFiniteSet(U)
      BY <1>8, <3>1, FS_Subset
    <3>3. s \in U
      BY <1>8, <2>3
    <3> HIDE DEF U
    <3> QED
      BY <3>1, <3>2, <3>3, GreatestElement
  <2>5. p \in T /\ s <= p /\ p <= x /\ p \in Int /\ s \in Int
    BY <1>8, <2>3
  <2>6. end(p) \in Nat /\ p < end(p) /\ end(p) \notin R \ (T \ {p})
    BY <1>9, <2>5
  <2>7. ~(end(p) <= x)
    <3> SUFFICES ASSUME end(p) <= x PROVE FALSE
      OBVIOUS
    <3>1. end(p) \in s .. x
      BY <2>1, <2>5, <2>6
    <3>2. end(p) \in R
      BY <2>3, <3>1
    <3>3. end(p) \in T
      BY <2>6, <3>2
    <3>4. end(p) \in U
      BY <2>5, <2>6, <3>3
    <3>5. end(p) <= p
      BY <2>4, <3>4
    <3> QED
      BY <2>5, <2>6, <3>5
  <2> QED
    BY <2>1, <2>5, <2>6, <2>7
<1> QED
  BY <1>3, <1>4, <1>7, <1>8, <1>9, <1>10 DEF R, T, end, lo, hi

\* What begins with a word, or with blanks, is read as it was as a part.
LEMMA TokensStay ==
    ASSUME NEW text, NEW span \in Nat \X Nat, NEW y \in Nat \X Nat, NEW tokenizer,
           span[1] <= y[1], y[2] <= span[2], tokenizer.kind = "chars" \/ ~Torn(text, y),
           NEW p \in TokenStarts(text, y, tokenizer)
    PROVE  p \in TokenStarts(text, span, tokenizer)
<1>1. span[1] \in Nat /\ span[2] \in Nat /\ y[1] \in Nat /\ y[2] \in Nat
  OBVIOUS
<1>2. /\ \A x : x \in Chars(span) <=> x \in Nat /\ span[1] <= x /\ x < span[2]
      /\ \A x : x \in Words(text, span) <=> x \in Chars(span) /\ x \notin text.blank
      /\ \A x : x \in Chars(y) <=> x \in Nat /\ y[1] <= x /\ x < y[2]
      /\ \A x : x \in Words(text, y) <=> x \in Chars(y) /\ x \notin text.blank
  BY WordsAre
<1>3. /\ p \in ReadIn(text, y, tokenizer)
      /\ \/ tokenizer.kind = "chars"
         \/ \E s \in y[1] .. p : p - s \in {0} \cup tokenizer.cuts /\ Leads(text, y, s, p)
  BY DEF TokenStarts
<1>4. p \in ReadIn(text, span, tokenizer) /\ p \in Nat
  BY <1>1, <1>2, <1>3 DEF ReadIn
<1>5. CASE tokenizer.kind = "chars"
  BY <1>4, <1>5 DEF TokenStarts
<1>6. CASE tokenizer.kind # "chars"
  <2>1. PICK s \in y[1] .. p : p - s \in {0} \cup tokenizer.cuts /\ Leads(text, y, s, p)
    BY <1>3, <1>6
  <2>2. s \in Nat /\ y[1] <= s /\ s <= p /\ s \in span[1] .. p
    BY <1>1, <1>4
  <2>3. /\ \A q \in s .. p : q \in text.blank <=> p \in text.blank
        /\ s = y[1] \/ ~(s - 1 \in text.blank <=> p \in text.blank)
    BY <2>1 DEF Leads
  <2>4. s = span[1] \/ ~(s - 1 \in text.blank <=> p \in text.blank)
    <3> SUFFICES ASSUME s # span[1], s = y[1]
                 PROVE  ~(s - 1 \in text.blank <=> p \in text.blank)
      BY <2>3
    <3>1. y[1] > 0
      BY <1>1, <2>2
    <3>2. ~(s - 1 \in text.blank <=> s \in text.blank)
      BY <1>6, <3>1 DEF Torn
    <3>3. s \in s .. p
      BY <1>4, <2>2
    <3> QED
      BY <2>3, <3>2, <3>3
  <2>5. Leads(text, span, s, p)
    BY <2>3, <2>4 DEF Leads
  <2> QED
    BY <1>4, <2>1, <2>2, <2>5 DEF TokenStarts
<1> QED
  BY <1>5, <1>6

\* Tokens are counted by a number; where there are at most so many, they fit.
LEMMA TokensCounted ==
    ASSUME NEW text, NEW span \in Nat \X Nat, NEW tokenizer
    PROVE  /\ PerToken(tokenizer) \in {1, 4} /\ CountTokens(text, span, tokenizer) \in Nat
           /\ Cardinality(TokenStarts(text, span, tokenizer)) \in Nat
           /\ \A k \in Nat : Cardinality(TokenStarts(text, span, tokenizer))
                                <= PerToken(tokenizer) * k =>
                             CountTokens(text, span, tokenizer) <= k + Reserved
<1> DEFINE n == Cardinality(TokenStarts(text, span, tokenizer))
           per == PerToken(tokenizer)
           count == CountTokens(text, span, tokenizer)
<1>1. n \in Nat
  BY TokensAre, FS_CardinalityType
<1>2. per = 1 \/ per = 4
  BY DEF PerToken, CharsPerToken
<1>3. count = 0 \/ count = n \div per + 2
  BY DEF CountTokens, Reserved
<1> HIDE DEF n, per, count
<1>4. count \in Nat
  BY <1>1, <1>2, <1>3
<1>5. ASSUME NEW k \in Nat, n <= per * k PROVE count <= k + 2
  <2>1. CASE per = 1
    BY <1>1, <1>3, <1>5, <2>1
  <2>2. CASE per = 4
    BY <1>1, <1>3, <1>5, <2>2
  <2> QED
    BY <1>2, <2>1, <2>2
<1> QED
  BY <1>1, <1>2, <1>4, <1>5 DEF n, per, count, Reserved

\* No more tokens than the model reads, unless it begins inside a word.
Fits(text, piece, max, tokenizer) ==
    max > Reserved /\ CountTokens(text, piece, tokenizer) > max =>
        tokenizer.kind # "chars" /\ Torn(text, piece)

\* What a span with a word in it is cut into by its tokens.
Pieces(text, span, max, tokenizer, z) ==
    /\ z \in Seq(Nat \X Nat)
    /\ \A p \in 1 .. Len(z) : /\ span[1] <= z[p][1] /\ z[p][2] <= span[2]
                              /\ tokenizer.kind = "model" => Words(text, z[p]) # {}
                              /\ Fits(text, z[p], max, tokenizer)
    /\ AllIn(Words(text, span), z)
    /\ max = 0 \/ CountTokens(text, span, tokenizer) <= max => z = <<span>>

LEMMA TokensSplit ==
    ASSUME NEW text, NEW span \in Nat \X Nat, Words(text, span) # {}, NEW max \in Nat,
           NEW overlap \in Nat, NEW tokenizer
    PROVE  Pieces(text, span, max, tokenizer, SplitByTokens(text, span, max, overlap, tokenizer))
<1> DEFINE W == Words(text, span)
           R == ReadIn(text, span, tokenizer)
           T == TokenStarts(text, span, tokenizer)
           end(p) == TokenEnd(text, span, tokenizer, p)
           tokens == Ascending(TokenStarts(text, span, tokenizer))
           per == PerToken(tokenizer)
           count == CountTokens(text, span, tokenizer)
           budget == AtLeast(max - Reserved, 1)
           share == AtLeast(budget - AtLeast(overlap, 0), 1)
           size == per * budget
           step == per * share
           n == Cardinality(T)
           m == WindowCount(n, size, step)
           z == SplitByTokens(text, span, max, overlap, tokenizer)
           lo == span[1]
           hi == span[2]
<1>1. /\ lo \in Nat /\ hi \in Nat /\ W # {}
      /\ \A x \in W : x \in Nat /\ lo <= x /\ x < hi
  BY WordsAre
<1>2. /\ \A x \in R : x \in Nat /\ lo <= x /\ x < hi
      /\ \A x \in W : x \in R
      /\ tokenizer.kind = "model" => R = W
      /\ \A p \in T : p \in R
      /\ T \in SUBSET Int /\ IsFiniteSet(T)
      /\ \A p \in T : /\ end(p) \in Nat /\ p < end(p) /\ end(p) <= hi
                      /\ \A q \in T : p < q => end(p) <= q
      /\ \A x \in R : \E p \in T : p <= x /\ x < end(p)
  BY TokensAre
<1>3. /\ per \in {1, 4} /\ count \in Nat /\ n \in Nat
  BY TokensCounted
<1>4. /\ tokens \in [1 .. n -> T]
      /\ \A p, q \in 1 .. n : tokens[p] < tokens[q] <=> p < q
      /\ \A x \in T : \E p \in 1 .. n : tokens[p] = x
  <2> HIDE DEF T
  <2> QED
    BY <1>2, AscendingMeans DEF T
<1>5. budget \in Nat \ {0} /\ share \in 1 .. budget /\ (max > Reserved => max = budget + Reserved)
  <2>1. budget \in Nat \ {0} /\ (max > Reserved => max = budget + Reserved)
    BY DEF AtLeast, Reserved
  <2>2. AtLeast(overlap, 0) = overlap
    BY DEF AtLeast
  <2>3. share = AtLeast(budget - overlap, 1)
    BY <2>2
  <2> HIDE DEF budget, share
  <2>4. share \in 1 .. budget
    BY <2>1, <2>3 DEF AtLeast
  <2> QED
    BY <2>1, <2>4
<1>6. z = IF max <= 0 \/ count <= max THEN <<span>>
          ELSE [w \in 1 .. WindowCount(Len(tokens), size, step) |->
                  <<tokens[(w - 1) * step + 1],
                    end(tokens[AtMost((w - 1) * step + size, Len(tokens))])>>]
  BY DEF SplitByTokens
<1> HIDE DEF tokens, budget, share, z, T, R, end, W, lo, hi, per, count, n
<1>7. Len(tokens) = n
  BY <1>3, <1>4
<1>8. n > 0
  <2>1. PICK x \in W : TRUE
    BY <1>1
  <2>2. PICK p \in T : p <= x
    BY <1>2, <2>1
  <2>3. PICK k \in 1 .. n : tokens[k] = p
    BY <1>4
  <2> QED
    BY <1>3, <2>3
<1>9. size \in Nat \ {0} /\ step \in 1 .. size /\ step \in Nat \ {0}
  <2>1. CASE per = 1
    BY <1>5, <2>1
  <2>2. CASE per = 4
    BY <1>5, <2>2
  <2> QED
    BY <1>3, <2>1, <2>2
<1> HIDE DEF size, step
<1>10. CASE max = 0 \/ count <= max
  <2>1. z = <<span>>
    BY <1>6, <1>10
  <2>2. z \in Seq(Nat \X Nat) /\ Len(z) = 1 /\ z[1] = span
    BY <2>1
  <2>3. \A p \in 1 .. Len(z) : p = 1
    BY <2>2
  <2>4. Fits(text, span, max, tokenizer)
    BY <1>3, <1>10 DEF Fits, Reserved, count
  <2>5. \A p \in 1 .. Len(z) : /\ lo <= z[p][1] /\ z[p][2] <= hi
                               /\ tokenizer.kind = "model" => Words(text, z[p]) # {}
                               /\ Fits(text, z[p], max, tokenizer)
    BY <1>1, <2>2, <2>3, <2>4 DEF W, lo, hi
  <2>6. AllIn(W, z)
    BY <1>1, <2>2 DEF AllIn, lo, hi
  <2> QED
    BY <2>1, <2>2, <2>5, <2>6 DEF Pieces, W, lo, hi, z
<1>11. CASE ~(max = 0 \/ count <= max)
  <2>1. z = [w \in 1 .. m |-> <<tokens[(w - 1) * step + 1],
                                end(tokens[AtMost((w - 1) * step + size, n)])>>]
    BY <1>6, <1>7, <1>11
  <2>2. /\ m \in Nat \ {0}
        /\ \A w \in 1 .. m : (w - 1) * step \in Nat /\ (w - 1) * step < n
        /\ \A q \in 0 .. n - 1 : \E w \in 1 .. m :
              (w - 1) * step <= q /\ q < (w - 1) * step + size
    <3>1. n \in Nat \ {0}
      BY <1>3, <1>8
    <3> QED
      BY <1>9, <3>1, WindowsCover
  <2> HIDE DEF m
  <2> DEFINE a(w) == (w - 1) * step + 1
             b(w) == AtMost((w - 1) * step + size, n)
  <2>3. ASSUME NEW w \in 1 .. m
        PROVE  /\ a(w) \in 1 .. n /\ b(w) \in 1 .. n /\ a(w) <= b(w)
               /\ b(w) - a(w) + 1 <= size
               /\ a(w) = (w - 1) * step + 1
               /\ \A k \in 1 .. n : k < (w - 1) * step + 1 + size => k <= b(w)
    <3> DEFINE s == (w - 1) * step
    <3>1. s \in Nat /\ s < n
      BY <2>2
    <3> HIDE DEF s
    <3>2. /\ s + 1 \in 1 .. n
          /\ AtMost(s + size, n) \in 1 .. n /\ s + 1 <= AtMost(s + size, n)
          /\ AtMost(s + size, n) - (s + 1) + 1 <= size
          /\ \A k \in 1 .. n : k < s + 1 + size => k <= AtMost(s + size, n)
      BY <1>3, <1>9, <3>1 DEF AtMost
    <3> QED
      BY <3>2 DEF s
  <2>4. \A w \in 1 .. m : z[w] = <<tokens[a(w)], end(tokens[b(w)])>>
    BY <2>1
  <2> HIDE DEF a, b
  <2>5. ASSUME NEW w \in 1 .. m
        PROVE  /\ tokens[a(w)] \in T /\ tokens[b(w)] \in T
               /\ tokens[a(w)] \in Nat /\ tokens[b(w)] \in Nat
               /\ tokens[a(w)] <= tokens[b(w)]
               /\ z[w] \in Nat \X Nat /\ z[w][1] = tokens[a(w)] /\ z[w][2] = end(tokens[b(w)])
               /\ tokens[b(w)] < z[w][2]
               /\ lo <= z[w][1] /\ z[w][2] <= hi
    <3>1. a(w) \in 1 .. n /\ b(w) \in 1 .. n /\ a(w) <= b(w)
      BY <2>3
    <3> DEFINE x == tokens[a(w)]
               y == tokens[b(w)]
    <3>2. x \in T /\ y \in T
      BY <1>4, <3>1
    <3>3. x \in Nat /\ y \in Nat /\ lo <= x /\ end(y) \in Nat /\ y < end(y) /\ end(y) <= hi
      BY <1>2, <3>2
    <3>4. ~(y < x)
      <4>1. y < x => b(w) < a(w)
        BY <1>4, <3>1
      <4> QED
        BY <1>3, <3>1, <4>1
    <3>5. z[w] = <<x, end(y)>>
      BY <2>4
    <3> HIDE DEF x, y
    <3>6. /\ x <= y /\ z[w] \in Nat \X Nat /\ z[w][1] = x /\ z[w][2] = end(y)
          /\ y < z[w][2] /\ lo <= z[w][1] /\ z[w][2] <= hi
      BY <1>1, <3>3, <3>4, <3>5
    <3> QED
      BY <3>2, <3>3, <3>6 DEF x, y
  <2>6. z \in Seq(Nat \X Nat) /\ Len(z) = m
    <3>1. z \in [1 .. m -> Nat \X Nat]
      BY <2>1, <2>5
    <3> QED
      BY <2>2, <3>1
  <2>7. ASSUME NEW w \in 1 .. m, tokenizer.kind = "model" PROVE Words(text, z[w]) # {}
    <3> DEFINE x == tokens[a(w)]
    <3>1. /\ z[w] \in Nat \X Nat /\ z[w][1] = x /\ x < z[w][2] /\ x \in Nat /\ x \in T
      BY <1>1, <2>5
    <3>2. x \in W
      BY <1>2, <2>7, <3>1
    <3>3. x \notin text.blank
      BY <3>2, WordsAre DEF W
    <3> HIDE DEF x
    <3>4. x \in Words(text, z[w])
      BY <3>1, <3>3, WordsAre
    <3> QED
      BY <3>4
  <2>8. ASSUME NEW w \in 1 .. m PROVE Fits(text, z[w], max, tokenizer)
    <3> SUFFICES ASSUME max > Reserved, tokenizer.kind = "chars" \/ ~Torn(text, z[w])
                 PROVE  CountTokens(text, z[w], tokenizer) <= max
      <4>1. z[w] \in Nat \X Nat
        BY <2>5
      <4>2. CountTokens(text, z[w], tokenizer) \in Nat
        BY <4>1, TokensCounted
      <4> QED
        BY <4>2 DEF Fits
    <3> DEFINE X == TokenStarts(text, z[w], tokenizer)
               f == [k \in a(w) .. b(w) |-> tokens[k]]
               S == {tokens[k] : k \in a(w) .. b(w)}
               u == a(w)
               v == b(w)
    <3>1. /\ z[w] \in Nat \X Nat /\ z[w][1] = tokens[u] /\ z[w][2] = end(tokens[v])
          /\ tokens[u] \in T /\ tokens[v] \in T
          /\ tokens[u] \in Nat /\ tokens[v] \in Nat /\ lo <= z[w][1] /\ z[w][2] <= hi
      BY <2>5
    <3>2. u \in 1 .. n /\ v \in 1 .. n /\ u <= v /\ v - u + 1 <= size
      BY <2>3
    <3>3. ASSUME NEW x \in X PROVE x \in S
      <4>1. x \in T
        BY <3>1, TokensStay DEF T, lo, hi
      <4>2. x \in Nat /\ z[w][1] <= x /\ x < z[w][2]
        <5>1. /\ \A r \in ReadIn(text, z[w], tokenizer) :
                    r \in Nat /\ z[w][1] <= r /\ r < z[w][2]
              /\ \A p \in X : p \in ReadIn(text, z[w], tokenizer)
          BY <3>1, TokensAre
        <5> QED
          BY <5>1
      <4> SUFFICES \E k \in a(w) .. b(w) : tokens[k] = x
        OBVIOUS
      <4> HIDE DEF X, f, S, u, v
      <4>3. PICK k \in 1 .. n : tokens[k] = x
        BY <1>4, <4>1
      <4>4. ~(k < u)
        <5>1. k < u => x < tokens[u]
          BY <1>4, <3>2, <4>3
        <5> QED
          BY <3>1, <4>2, <5>1
      <4>5. ~(v < k)
        <5>1. v < k => tokens[v] < x
          BY <1>4, <3>2, <4>3
        <5>2. tokens[v] < x => end(tokens[v]) <= x
          BY <1>2, <3>1, <4>1
        <5> QED
          BY <1>2, <3>1, <4>2, <5>1, <5>2
      <4>6. k \in u .. v
        BY <1>3, <3>2, <4>4, <4>5
      <4> QED
        BY <4>3, <4>6 DEF u, v
    <3>4. f \in Surjection(a(w) .. b(w), S)
      BY DEF Surjection
    <3>5. X \in SUBSET S
      BY <3>3
    <3>6. /\ Cardinality(X) \in Nat
          /\ \A k \in Nat : Cardinality(X) <= per * k =>
                CountTokens(text, z[w], tokenizer) <= k + Reserved
      BY <3>1, TokensCounted DEF per
    <3> HIDE DEF X, f, S
    <3>7. IsFiniteSet(u .. v) /\ Cardinality(u .. v) = v - u + 1
      <4>1. u \in Int /\ v \in Int /\ ~(u > v)
        BY <1>3, <3>2
      <4> HIDE DEF u, v
      <4>2. IsFiniteSet(u .. v) /\ Cardinality(u .. v) = IF u > v THEN 0 ELSE v - u + 1
        BY <4>1, FS_Interval
      <4> QED
        BY <4>1, <4>2
    <3>8. IsFiniteSet(S) /\ Cardinality(S) <= v - u + 1
      BY <3>4, <3>7, FS_Surjection
    <3>9. Cardinality(X) <= Cardinality(S) /\ Cardinality(S) \in Nat
      BY <3>5, <3>8, FS_Subset, FS_CardinalityType
    <3> HIDE DEF u, v
    <3> DEFINE s == Cardinality(S)
               c == Cardinality(X)
    <3>10. u \in Nat /\ v \in Nat /\ s \in Nat /\ c \in Nat /\ size \in Nat
      BY <1>9, <3>2, <3>6, <3>9
    <3> HIDE DEF s, c
    <3>11. c <= size
      <4>1. c <= s /\ s <= v - u + 1 /\ v - u + 1 <= size
        BY <3>2, <3>8, <3>9 DEF s, c
      <4> QED
        BY <3>10, <4>1
    <3>12. CountTokens(text, z[w], tokenizer) <= budget + Reserved
      <4>1. budget \in Nat /\ size = per * budget
        BY <1>5 DEF size
      <4> QED
        BY <3>6, <3>11, <4>1 DEF c
    <3> QED
      BY <1>5, <3>12
  <2>9. AllIn(W, z)
    <3> SUFFICES ASSUME NEW x \in W PROVE \E w \in 1 .. m : z[w][1] <= x /\ x < z[w][2]
      BY <2>6 DEF AllIn
    <3>1. PICK p \in T : p <= x /\ x < end(p)
      BY <1>2
    <3>2. PICK k \in 1 .. n : tokens[k] = p
      BY <1>4
    <3>3. k - 1 \in 0 .. n - 1
      BY <1>3
    <3>4. PICK w \in 1 .. m : (w - 1) * step <= k - 1 /\ k - 1 < (w - 1) * step + size
      BY <2>2, <3>3
    <3>5. /\ a(w) \in 1 .. n /\ b(w) \in 1 .. n /\ a(w) = (w - 1) * step + 1
          /\ \A j \in 1 .. n : j < (w - 1) * step + 1 + size => j <= b(w)
      BY <2>3
    <3>6. a(w) <= k /\ k <= b(w)
      <4> DEFINE s == (w - 1) * step
      <4>1. s \in Nat /\ s <= k - 1 /\ k - 1 < s + size /\ a(w) = s + 1
        BY <2>2, <3>4, <3>5
      <4>2. \A j \in 1 .. n : j < s + 1 + size => j <= b(w)
        BY <3>5
      <4> HIDE DEF s
      <4>3. k < s + 1 + size /\ s + 1 <= k
        BY <1>3, <1>9, <4>1
      <4> QED
        BY <4>1, <4>2, <4>3
    <3>7. /\ tokens[a(w)] \in Nat /\ tokens[b(w)] \in Nat
          /\ tokens[a(w)] \in T /\ tokens[b(w)] \in T
          /\ z[w][1] = tokens[a(w)] /\ z[w][2] = end(tokens[b(w)])
      BY <2>5
    <3>8. x \in Nat /\ p \in Nat /\ end(p) \in Nat /\ end(tokens[b(w)]) \in Nat
      BY <1>1, <1>2, <3>1, <3>7
    <3>9. ~(p < tokens[a(w)])
      <4>1. p < tokens[a(w)] => k < a(w)
        BY <1>4, <3>2, <3>5
      <4> QED
        BY <1>3, <3>5, <3>6, <4>1
    <3>10. end(p) <= end(tokens[b(w)])
      <4>1. CASE k = b(w)
        BY <3>2, <3>8, <4>1
      <4>2. CASE k # b(w)
        <5>1. k < b(w)
          BY <1>3, <3>5, <3>6, <4>2
        <5>2. p < tokens[b(w)]
          BY <1>4, <3>2, <3>5, <5>1
        <5>3. end(p) <= tokens[b(w)] /\ tokens[b(w)] < end(tokens[b(w)])
          BY <1>2, <3>1, <3>7, <5>2
        <5> QED
          BY <3>7, <3>8, <5>3
      <4> QED
        BY <4>1, <4>2
    <3>11. z[w][1] <= x /\ x < z[w][2]
      BY <3>1, <3>7, <3>8, <3>9, <3>10
    <3> QED
      BY <3>11
  <2>10. \A p \in 1 .. Len(z) : /\ lo <= z[p][1] /\ z[p][2] <= hi
                                /\ tokenizer.kind = "model" => Words(text, z[p]) # {}
                                /\ Fits(text, z[p], max, tokenizer)
    BY <2>5, <2>6, <2>7, <2>8
  <2> QED
    BY <1>11, <2>6, <2>9, <2>10 DEF Pieces, W, lo, hi, z, count
<1> QED
  BY <1>10, <1>11

\* What the parts that are not blank are cut into by their tokens, one after the other.
PiecesOf(text, split, max, overlap, tokenizer) ==
    LET written == NotBlank(text, split)
    IN  Flat([i \in DOMAIN written |-> SplitByTokens(text, written[i], max, overlap, tokenizer)])

\* All words are in pieces, each of which has one if blanks are no tokens, and no more than the
\* model reads unless it begins inside a word; and when no part has more, no two begin at the
\* same place.
LEMMA PiecesMean ==
    ASSUME NEW text, text.len \in Nat, NEW split, Cut(text, <<0, text.len>>, split),
           NEW max \in Nat, NEW overlap \in Nat, NEW tokenizer
    PROVE  LET z == PiecesOf(text, split, max, overlap, tokenizer)
           IN  /\ z \in Seq(Nat \X Nat)
               /\ \A p \in 1 .. Len(z) : /\ z[p][2] <= text.len
                                         /\ tokenizer.kind = "model" => Words(text, z[p]) # {}
                                         /\ Fits(text, z[p], max, tokenizer)
               /\ AllIn(Words(text, <<0, text.len>>), z)
               /\ (\A k \in 1 .. Len(split) :
                      max = 0 \/ CountTokens(text, split[k], tokenizer) <= max) =>
                     \A p, q \in 1 .. Len(z) : z[p] = z[q] => p = q
<1> DEFINE len == text.len
           W == Words(text, <<0, text.len>>)
           written == NotBlank(text, split)
           seqs == [i \in DOMAIN written |->
                       SplitByTokens(text, written[i], max, overlap, tokenizer)]
           z == PiecesOf(text, split, max, overlap, tokenizer)
<1>1. /\ split \in Seq(Nat \X Nat)
      /\ \A p \in 1 .. Len(split) : split[p][1] < len /\ split[p][2] <= len
      /\ AllIn(W, split)
      /\ \A p, q \in 1 .. Len(split) : split[p][1] = split[q][1] => p = q
  BY DEF Cut
<1>2. PICK I \in SUBSET (1 .. Len(split)) :
         /\ PickedList(Nat \X Nat, split, I)
         /\ written = Picked(split, I)
         /\ \A k \in 1 .. Len(split) : k \in I <=> Words(text, split[k]) # {}
  BY <1>1, NotBlankMeans
<1>3. z = Flat(seqs)
  BY DEF PiecesOf
<1> DEFINE m == Cardinality(I)
           from == Ascending(I)
<1>4. /\ m \in Nat /\ written \in Seq(Nat \X Nat) /\ Len(written) = m
      /\ from \in [1 .. m -> I]
      /\ \A p \in 1 .. m : written[p] = split[from[p]]
      /\ \A p, q \in 1 .. m : from[p] = from[q] => p = q
      /\ \A i \in I : \E p \in 1 .. m : from[p] = i
  <2>1. m \in 0 .. Len(split) /\ Len(split) \in Nat
    BY <1>1, <1>2 DEF PickedList
  <2>2. m \in Nat
    <3> HIDE DEF m
    <3> QED
      BY <2>1
  <2> QED
    BY <1>2, <2>2 DEF PickedList
<1>5. \A p \in 1 .. m : from[p] \in 1 .. Len(split) /\ from[p] \in I
  BY <1>2, <1>4
<1> HIDE DEF m, from, written, seqs, z, W, len
<1>6. DOMAIN written = 1 .. m
  BY <1>4
<1>7. DOMAIN seqs = 1 .. m
      /\ \A i \in 1 .. m : seqs[i] = SplitByTokens(text, written[i], max, overlap, tokenizer)
  BY <1>6 DEF seqs
<1>8. ASSUME NEW i \in 1 .. m
      PROVE  /\ written[i] \in Nat \X Nat /\ written[i] = split[from[i]]
             /\ written[i][2] <= len
             /\ Pieces(text, written[i], max, tokenizer, seqs[i])
  <2>1. written[i] \in Nat \X Nat /\ written[i] = split[from[i]]
    BY <1>4
  <2>2. Words(text, written[i]) # {} /\ written[i][2] <= len
    BY <1>1, <1>2, <1>5, <2>1
  <2> QED
    BY <1>7, <2>1, <2>2, TokensSplit
<1>9. ASSUME NEW i \in 1 .. m
      PROVE  /\ seqs[i] \in Seq(Nat \X Nat)
             /\ \A k \in 1 .. Len(seqs[i]) : /\ seqs[i][k][2] <= written[i][2]
                                             /\ tokenizer.kind = "model" =>
                                                   Words(text, seqs[i][k]) # {}
                                             /\ Fits(text, seqs[i][k], max, tokenizer)
             /\ AllIn(Words(text, written[i]), seqs[i])
             /\ max = 0 \/ CountTokens(text, written[i], tokenizer) <= max =>
                   seqs[i] = <<written[i]>>
  BY <1>8 DEF Pieces
<1> DEFINE size == [i \in 1 .. m |-> Len(seqs[i])]
<1>10. \A i \in 1 .. m : /\ Len(seqs[i]) \in Nat /\ DOMAIN seqs[i] = 1 .. Len(seqs[i])
                         /\ size[i] = Len(seqs[i])
  <2> SUFFICES ASSUME NEW i \in 1 .. m
               PROVE  /\ Len(seqs[i]) \in Nat /\ DOMAIN seqs[i] = 1 .. Len(seqs[i])
                      /\ size[i] = Len(seqs[i])
    OBVIOUS
  <2>1. seqs[i] \in Seq(Nat \X Nat)
    BY <1>9
  <2> QED
    BY <2>1
<1>11. PICK t \in Nat : \E at : FlatBy(seqs, t, at)
  <2>1. size \in [1 .. m -> Nat]
    BY <1>10
  <2> HIDE DEF size
  <2>2. \A i \in 1 .. m : DOMAIN seqs[i] = 1 .. size[i]
    BY <1>10
  <2>3. DOMAIN seqs = 1 .. m /\ m \in Nat
    BY <1>4, <1>7
  <2> QED
    BY <2>1, <2>2, <2>3, FlatMeans
<1>12. PICK at : FlatBy(seqs, t, at)
  BY <1>11
<1> HIDE DEF size
<1>13. /\ z = [p \in 1 .. t |-> seqs[at[p][1]][at[p][2]]]
       /\ \A p \in 1 .. t : at[p][1] \in 1 .. m /\ at[p][2] \in 1 .. Len(seqs[at[p][1]])
       /\ \A i \in 1 .. m : \A k \in 1 .. Len(seqs[i]) :
             \E p \in 1 .. t : at[p][1] = i /\ at[p][2] = k
       /\ \A p, q \in 1 .. t : at[p][1] = at[q][1] /\ at[p][2] = at[q][2] => p = q
  <2>1. \A p \in 1 .. t : at[p][1] \in 1 .. m /\ at[p][2] \in DOMAIN seqs[at[p][1]]
    BY <1>7, <1>12 DEF FlatBy
  <2>2. \A p \in 1 .. t : at[p][2] \in 1 .. Len(seqs[at[p][1]])
    BY <1>10, <2>1
  <2>3. \A i \in 1 .. m : \A k \in 1 .. Len(seqs[i]) :
           \E p \in 1 .. t : at[p][1] = i /\ at[p][2] = k
    <3> SUFFICES ASSUME NEW i \in 1 .. m, NEW k \in 1 .. Len(seqs[i])
                 PROVE  \E p \in 1 .. t : at[p][1] = i /\ at[p][2] = k
      OBVIOUS
    <3>1. i \in DOMAIN seqs /\ k \in DOMAIN seqs[i]
      BY <1>7, <1>10
    <3>2. \A x \in DOMAIN seqs : \A y \in DOMAIN seqs[x] :
             \E p \in 1 .. t : at[p][1] = x /\ at[p][2] = y
      BY <1>12, Zenon DEF FlatBy
    <3> QED
      BY <3>1, <3>2
  <2>4. z = [p \in 1 .. t |-> seqs[at[p][1]][at[p][2]]]
    <3>1. Flat(seqs) = [p \in 1 .. t |-> seqs[at[p][1]][at[p][2]]]
      BY <1>12 DEF FlatBy
    <3> QED
      BY <1>3, <3>1
  <2>5. \A p, q \in 1 .. t : at[p][1] = at[q][1] /\ at[p][2] = at[q][2] => p = q
    BY <1>12 DEF FlatBy
  <2> QED
    BY <2>1, <2>2, <2>3, <2>4, <2>5
<1>14. ASSUME NEW p \in 1 .. t
       PROVE  /\ at[p][1] \in 1 .. m /\ at[p][2] \in 1 .. Len(seqs[at[p][1]])
              /\ z[p] = seqs[at[p][1]][at[p][2]]
              /\ z[p] \in Nat \X Nat
              /\ z[p][2] <= len
              /\ tokenizer.kind = "model" => Words(text, z[p]) # {}
              /\ Fits(text, z[p], max, tokenizer)
  <2> DEFINE i == at[p][1]
             k == at[p][2]
             y == seqs[i][k]
  <2>1. i \in 1 .. m /\ k \in 1 .. Len(seqs[i]) /\ z[p] = y
    BY <1>13
  <2> HIDE DEF i, k
  <2>2. y \in Nat \X Nat
    BY <1>9, <2>1
  <2>3. /\ y[2] <= written[i][2] /\ (tokenizer.kind = "model" => Words(text, y) # {})
        /\ Fits(text, y, max, tokenizer)
    BY <1>9, <2>1
  <2>4. written[i][2] <= len /\ written[i][2] \in Nat /\ y[2] \in Nat /\ len \in Nat
    BY <1>8, <2>1, <2>2 DEF len
  <2> HIDE DEF y
  <2>5. y[2] <= len
    BY <2>3, <2>4
  <2> QED
    BY <2>1, <2>2, <2>3, <2>5 DEF i, k, y
<1>15. z \in Seq(Nat \X Nat) /\ Len(z) = t
  <2>1. z \in [1 .. t -> Nat \X Nat]
    BY <1>13, <1>14
  <2> QED
    BY <2>1
<1>16. AllIn(W, z)
  <2> SUFFICES ASSUME NEW x \in W
               PROVE  \E p \in 1 .. Len(z) : z[p][1] <= x /\ x < z[p][2]
    BY DEF AllIn
  <2>1. PICK k \in 1 .. Len(split) : split[k][1] <= x /\ x < split[k][2]
    BY <1>1 DEF AllIn
  <2>2. x \in Nat /\ x \notin text.blank
    <3>1. <<0, text.len>> \in Nat \X Nat
      OBVIOUS
    <3> QED
      BY <3>1, WordsAre DEF W
  <2>3. split[k] \in Nat \X Nat
    BY <1>1
  <2>4. x \in Words(text, split[k])
    BY <2>1, <2>2, <2>3, WordsAre
  <2>5. PICK i \in 1 .. m : from[i] = k
    BY <1>2, <1>4, <2>4
  <2>6. x \in Words(text, written[i])
    BY <1>8, <2>4, <2>5
  <2>7. PICK j \in 1 .. Len(seqs[i]) : seqs[i][j][1] <= x /\ x < seqs[i][j][2]
    BY <1>9, <2>6 DEF AllIn
  <2>8. PICK p \in 1 .. t : at[p][1] = i /\ at[p][2] = j
    BY <1>13
  <2>9. z[p][1] <= x /\ x < z[p][2]
    BY <1>14, <2>7, <2>8
  <2> QED
    BY <1>15, <2>9
<1>17. ASSUME \A k \in 1 .. Len(split) :
                 max = 0 \/ CountTokens(text, split[k], tokenizer) <= max,
              NEW p \in 1 .. t, NEW q \in 1 .. t, z[p] = z[q]
       PROVE  p = q
  <2>1. ASSUME NEW i \in 1 .. m PROVE seqs[i] = <<written[i]>>
    <3>1. max = 0 \/ CountTokens(text, written[i], tokenizer) <= max
      BY <1>5, <1>8, <1>17
    <3> QED
      BY <1>9, <3>1
  <2>2. \A r \in 1 .. t : at[r][2] = 1 /\ z[r] = split[from[at[r][1]]]
    <3> SUFFICES ASSUME NEW r \in 1 .. t
                 PROVE  at[r][2] = 1 /\ z[r] = split[from[at[r][1]]]
      OBVIOUS
    <3> DEFINE i == at[r][1]
               k == at[r][2]
    <3>1. i \in 1 .. m /\ k \in 1 .. Len(seqs[i]) /\ z[r] = seqs[i][k]
      BY <1>14
    <3> HIDE DEF i, k
    <3>2. seqs[i] = <<written[i]>> /\ written[i] = split[from[i]]
      BY <1>8, <2>1, <3>1
    <3>3. Len(<<written[i]>>) = 1 /\ <<written[i]>>[1] = written[i]
      OBVIOUS
    <3>4. k = 1
      BY <3>1, <3>2, <3>3
    <3> QED
      BY <3>1, <3>2, <3>3, <3>4 DEF i, k
  <2>3. /\ at[p][2] = at[q][2] /\ split[from[at[p][1]]][1] = split[from[at[q][1]]][1]
        /\ at[p][1] \in 1 .. m /\ at[q][1] \in 1 .. m
    BY <1>14, <1>17, <2>2
  <2>4. from[at[p][1]] = from[at[q][1]]
    BY <1>1, <1>5, <2>3
  <2>5. at[p][1] = at[q][1]
    BY <1>4, <2>3, <2>4
  <2> QED
    BY <1>13, <2>3, <2>5
<1> QED
  BY <1>14, <1>15, <1>16, <1>17 DEF z, W, len

-----------------------------------------------------------------------------
(* The pages (join_pages, chunk_document).                                 *)

\* The pages lie one after the other in the joined text, apart, and what is written there is
\* in one of them.
PagesPlaced(text, spans, n) ==
    /\ DOMAIN spans = 1 .. n
    /\ \A i \in 1 .. n : /\ spans[i] \in Nat \X Nat
                         /\ spans[i][1] <= spans[i][2] /\ spans[i][2] <= text.len
    /\ \A i, j \in 1 .. n : i < j => spans[i][2] < spans[j][1]
    /\ text.len \in Nat
    /\ \A p \in Words(text, <<0, text.len>>) :
          \E i \in 1 .. n : spans[i][1] <= p /\ p < spans[i][2]

LEMMA PagesMean ==
    ASSUME NEW n \in Nat \ {0}, NEW pages, DOMAIN pages = 1 .. n, Len(pages) = n,
           \A i \in 1 .. n : pages[i].len \in Nat
    PROVE  PagesPlaced(JoinPages(pages), PageSpans(pages), n)
<1> DEFINE f == [k \in DOMAIN pages |-> pages[k].len + Separator]
           g == [i \in 0 .. n |-> SumTo(f, i)]
           spans == PageSpans(pages)
           text == JoinPages(pages)
<1>1. \A i \in 1 .. n : f[i] = pages[i].len + 2 /\ f[i] \in Nat
  BY DEF Separator
<1>2. g[0] = 0 /\ \A i \in 0 .. n : g[i] \in Int
  <2>1. \A i \in 0 .. n : SumTo(f, 0) = 0 /\ SumTo(f, i) \in Int
    <3> SUFFICES ASSUME NEW i \in 0 .. n PROVE SumTo(f, 0) = 0 /\ SumTo(f, i) \in Int
      OBVIOUS
    <3>1. i \in Nat /\ \A k \in 1 .. i : f[k] \in Int
      BY <1>1
    <3> HIDE DEF f
    <3> QED
      BY <3>1, SumSteps
  <2>2. 0 \in 0 .. n
    OBVIOUS
  <2> HIDE DEF f
  <2> QED
    BY <2>1, <2>2
<1>3. \A i \in 1 .. n : g[i] = g[i - 1] + f[i]
  <2> SUFFICES ASSUME NEW i \in 1 .. n PROVE g[i] = g[i - 1] + f[i]
    OBVIOUS
  <2>1. i \in Nat /\ i > 0 /\ \A k \in 1 .. i : f[k] \in Int
    BY <1>1
  <2>2. i \in 0 .. n /\ i - 1 \in 0 .. n
    OBVIOUS
  <2> HIDE DEF f
  <2>3. SumTo(f, i) = SumTo(f, i - 1) + f[i]
    BY <2>1, SumSteps
  <2> QED
    BY <2>2, <2>3
<1>4. /\ DOMAIN spans = 1 .. n
      /\ \A i \in 1 .. n : spans[i] = <<g[i - 1], g[i - 1] + pages[i].len>>
  <2> SUFFICES ASSUME NEW i \in 1 .. n
               PROVE  spans[i] = <<g[i - 1], g[i - 1] + pages[i].len>>
    BY DEF PageSpans
  <2>1. Offset(pages, i) = SumTo(f, i - 1)
    BY DEF Offset
  <2>2. i - 1 \in 0 .. n
    OBVIOUS
  <2> HIDE DEF f
  <2>3. g[i - 1] = Offset(pages, i)
    BY <2>1, <2>2
  <2> QED
    BY <2>3 DEF PageSpans
<1> DEFINE written == UNION {Shift((0 .. pages[i].len - 1) \ pages[i].blank, spans[i][1]) :
                                i \in DOMAIN pages}
<1>5. text.len = spans[n][2] /\ text.blank = (0 .. spans[n][2] - 1) \ written
  BY DEF JoinPages
<1>6. \A p \in written : \E i \in 1 .. n : \E q \in 0 .. pages[i].len - 1 : p = q + spans[i][1]
  BY DEF Shift
<1> HIDE DEF f, g, spans, text, written
<1> DEFINE T == {k \in 0 .. n : \A i \in 0 .. k : g[i] <= g[k]}
<1>7. 0 \in T
  BY <1>2
<1>8. ASSUME NEW k \in 0 .. n - 1, k \in T PROVE k + 1 \in T
  <2> DEFINE j == k + 1
  <2>1. j \in 1 .. n /\ j - 1 = k /\ j \in 0 .. n /\ k \in 0 .. n
    OBVIOUS
  <2>2. \A i \in 0 .. j : i \in 0 .. k \/ i = j
    OBVIOUS
  <2>3. \A i \in 0 .. k : i \in 0 .. n
    OBVIOUS
  <2> HIDE DEF j
  <2>4. g[j] = g[k] + f[j] /\ f[j] \in Nat /\ g[k] \in Int /\ g[j] \in Int
    BY <1>1, <1>2, <1>3, <2>1
  <2>5. \A i \in 0 .. k : g[i] <= g[k] /\ g[i] \in Int
    BY <1>2, <1>8, <2>3
  <2>6. \A i \in 0 .. j : g[i] <= g[j]
    BY <2>2, <2>4, <2>5
  <2>7. j \in T
    BY <2>1, <2>6
  <2> QED
    BY <2>7 DEF j
<1>9. 0 .. n \subseteq T
  <2> HIDE DEF T
  <2> QED
    BY <1>7, <1>8, Induction
<1>10. \A i, k \in 0 .. n : i <= k => g[i] <= g[k]
  <2> SUFFICES ASSUME NEW i \in 0 .. n, NEW k \in 0 .. n, i <= k PROVE g[i] <= g[k]
    OBVIOUS
  <2>1. k \in T /\ i \in 0 .. k
    BY <1>9
  <2> QED
    BY <2>1
<1> HIDE DEF T
<1>11. \A i \in 0 .. n : g[i] \in Nat
  <2> SUFFICES ASSUME NEW i \in 0 .. n PROVE g[i] \in Nat
    OBVIOUS
  <2>1. 0 \in 0 .. n /\ 0 <= i
    OBVIOUS
  <2>2. 0 <= g[i] /\ g[i] \in Int
    BY <1>2, <1>10, <2>1
  <2> QED
    BY <2>2
<1>12. ASSUME NEW i \in 1 .. n
       PROVE  /\ spans[i] \in Nat \X Nat /\ spans[i][1] <= spans[i][2]
              /\ spans[i][1] = g[i - 1] /\ spans[i][2] + 2 = g[i] /\ g[i] \in Nat
              /\ spans[i][2] = spans[i][1] + pages[i].len
  <2> DEFINE a == g[i - 1]
             l == pages[i].len
  <2>1. i - 1 \in 0 .. n /\ i \in 0 .. n
    OBVIOUS
  <2>2. a \in Nat /\ l \in Nat /\ g[i] \in Nat
    BY <1>11, <2>1
  <2>3. spans[i] = <<a, a + l>> /\ g[i] = a + f[i] /\ f[i] = l + 2
    BY <1>1, <1>3, <1>4
  <2> HIDE DEF a, l
  <2>4. spans[i][1] = a /\ spans[i][2] = a + l /\ spans[i] \in Nat \X Nat
    BY <2>2, <2>3
  <2>5. a + l + 2 = g[i]
    BY <2>2, <2>3
  <2>6. spans[i][1] <= spans[i][2] /\ spans[i][2] + 2 = g[i]
    BY <2>2, <2>4, <2>5
  <2> QED
    BY <2>2, <2>4, <2>6 DEF a, l
<1>13. \A i, j \in 1 .. n : i < j => spans[i][2] < spans[j][1]
  <2> SUFFICES ASSUME NEW i \in 1 .. n, NEW j \in 1 .. n, i < j
               PROVE  spans[i][2] < spans[j][1]
    OBVIOUS
  <2>1. i \in 0 .. n /\ j - 1 \in 0 .. n /\ i <= j - 1
    OBVIOUS
  <2>2. g[i] <= g[j - 1]
    BY <1>10, <2>1
  <2>3. /\ spans[i] \in Nat \X Nat /\ spans[j] \in Nat \X Nat
        /\ spans[i][2] + 2 = g[i] /\ spans[j][1] = g[j - 1]
    BY <1>12
  <2>4. spans[i][2] \in Nat /\ spans[j][1] \in Nat
    BY <2>3
  <2>5. spans[i][2] + 2 <= spans[j][1]
    BY <2>2, <2>3
  <2> QED
    BY <2>4, <2>5
<1>14. n \in 1 .. n
  OBVIOUS
<1>15. text.len \in Nat /\ \A i \in 1 .. n : spans[i][2] <= text.len
  <2>1. spans[n][2] \in Nat
    BY <1>12, <1>14
  <2> SUFFICES ASSUME NEW i \in 1 .. n PROVE spans[i][2] <= spans[n][2]
    BY <1>5, <2>1
  <2>2. i \in 0 .. n /\ n \in 0 .. n /\ i <= n
    OBVIOUS
  <2>3. /\ spans[i] \in Nat \X Nat /\ spans[n] \in Nat \X Nat
        /\ spans[i][2] + 2 = g[i] /\ spans[n][2] + 2 = g[n]
    BY <1>12, <1>14
  <2>4. spans[i][2] + 2 <= spans[n][2] + 2
    BY <1>10, <2>2, <2>3
  <2>5. spans[i][2] \in Nat /\ spans[n][2] \in Nat
    BY <2>3
  <2> QED
    BY <2>4, <2>5
<1>16. ASSUME NEW p \in Words(text, <<0, text.len>>)
       PROVE  \E i \in 1 .. n : spans[i][1] <= p /\ p < spans[i][2]
  <2>1. <<0, text.len>> \in Nat \X Nat
    BY <1>15
  <2>2. p \in Nat /\ p < text.len /\ p \notin text.blank
    BY <2>1, WordsAre
  <2>3. p \in 0 .. spans[n][2] - 1
    <3>1. spans[n][2] \in Nat /\ p < spans[n][2]
      BY <1>5, <1>15, <2>2
    <3> QED
      BY <2>2, <3>1
  <2>4. p \in written
    BY <1>5, <2>2, <2>3
  <2>5. PICK i \in 1 .. n : \E q \in 0 .. pages[i].len - 1 : p = q + spans[i][1]
    BY <1>6, <2>4
  <2> DEFINE a == spans[i][1]
             b == spans[i][2]
             l == pages[i].len
  <2>6. a \in Nat /\ b \in Nat /\ b = a + l /\ l \in Nat
    BY <1>12
  <2>7. PICK q \in 0 .. l - 1 : p = q + a
    BY <2>5
  <2> HIDE DEF a, b, l
  <2>8. a <= p /\ p < b
    BY <2>6, <2>7
  <2> QED
    BY <2>8 DEF a, b
<1> QED
  BY <1>4, <1>12, <1>13, <1>15, <1>16 DEF PagesPlaced, spans, text

\* The pages of a piece are all between the first and the last of them, and those of all its
\* words.
LEMMA PiecePages ==
    ASSUME NEW text, NEW n \in Nat \ {0}, NEW spans, PagesPlaced(text, spans, n),
           NEW piece \in Nat \X Nat, piece[2] <= text.len, Words(text, piece) # {}
    PROVE  LET pages == PagesOf(spans, piece)
           IN  /\ \E m \in Nat \ {0}, a \in 1 .. n :
                     pages = [k \in 1 .. m |-> a + k - 1]
               /\ \A p \in Words(text, piece) :
                     \E k \in DOMAIN pages :
                        pages[k] \in 1 .. n /\ p \in Chars(spans[pages[k]])
<1> DEFINE S == {i \in DOMAIN spans : piece[1] < spans[i][2] /\ piece[2] > spans[i][1]}
           W == Words(text, piece)
           pages == PagesOf(spans, piece)
           lo == piece[1]
           hi == piece[2]
<1>1. /\ DOMAIN spans = 1 .. n
      /\ \A i \in 1 .. n : spans[i] \in Nat \X Nat /\ spans[i][1] <= spans[i][2]
      /\ \A i, j \in 1 .. n : i < j => spans[i][2] < spans[j][1]
      /\ text.len \in Nat
      /\ \A p \in Words(text, <<0, text.len>>) :
            \E i \in 1 .. n : spans[i][1] <= p /\ p < spans[i][2]
  BY DEF PagesPlaced
<1>2. lo \in Nat /\ hi \in Nat
  OBVIOUS
<1>3. \A i \in 1 .. n : spans[i][1] \in Nat /\ spans[i][2] \in Nat
  <2> SUFFICES ASSUME NEW i \in 1 .. n PROVE spans[i][1] \in Nat /\ spans[i][2] \in Nat
    OBVIOUS
  <2>1. spans[i] \in Nat \X Nat
    BY <1>1
  <2> QED
    BY <2>1
<1>4. \A i : i \in S <=> i \in 1 .. n /\ lo < spans[i][2] /\ hi > spans[i][1]
  BY <1>1
<1>5. ASSUME NEW p \in W
      PROVE  \E i \in S : spans[i][1] <= p /\ p < spans[i][2]
  <2>1. p \in Nat /\ lo <= p /\ p < hi /\ p \notin text.blank
    BY WordsAre
  <2>2. p < text.len
    BY <1>1, <1>2, <2>1
  <2>3. p \in Words(text, <<0, text.len>>)
    <3> DEFINE whole == <<0, text.len>>
    <3>1. whole \in Nat \X Nat /\ whole[1] = 0 /\ whole[2] = text.len
      BY <1>1
    <3> HIDE DEF whole
    <3>2. p \in Words(text, whole)
      BY <2>1, <2>2, <3>1, WordsAre
    <3> QED
      BY <3>2 DEF whole
  <2>4. PICK i \in 1 .. n : spans[i][1] <= p /\ p < spans[i][2]
    BY <1>1, <2>3
  <2>5. lo < spans[i][2] /\ hi > spans[i][1]
    BY <1>2, <1>3, <2>1, <2>4
  <2> QED
    BY <1>4, <2>4, <2>5
<1>6. S \in SUBSET (1 .. n) /\ S # {}
  BY <1>4, <1>5
<1> HIDE DEF S
<1>7. PICK a \in S : \A i \in S : a <= i
  <2>1. S \in SUBSET Nat
    BY <1>6
  <2> QED
    BY <1>6, <2>1, LeastElement
<1>8. PICK b \in S : \A i \in S : i <= b
  <2>1. S \in SUBSET Int /\ n \in Int /\ \A i \in S : i <= n
    BY <1>6
  <2> QED
    BY <1>6, <2>1, BoundedHasGreatest
<1>9. a \in 1 .. n /\ b \in 1 .. n /\ a <= b
  BY <1>6, <1>7
<1>10. S = a .. b
  <2>1. \A i \in S : i \in a .. b
    BY <1>6, <1>7, <1>8
  <2>2. ASSUME NEW i \in a .. b PROVE i \in S
    <3>1. i \in 1 .. n /\ a <= i /\ i <= b
      BY <1>9
    <3>2. lo < spans[i][2]
      <4>1. CASE i = a
        BY <1>4, <4>1
      <4>2. CASE i # a
        <5>1. a < i
          BY <1>9, <3>1, <4>2
        <5>2. spans[a][2] < spans[i][1] /\ lo < spans[a][2] /\ spans[i][1] <= spans[i][2]
          BY <1>1, <1>4, <1>9, <3>1, <5>1
        <5> QED
          BY <1>2, <1>3, <1>9, <3>1, <5>2
      <4> QED
        BY <4>1, <4>2
    <3>3. hi > spans[i][1]
      <4>1. CASE i = b
        BY <1>4, <4>1
      <4>2. CASE i # b
        <5>1. i < b
          BY <1>9, <3>1, <4>2
        <5>2. spans[i][2] < spans[b][1] /\ hi > spans[b][1] /\ spans[i][1] <= spans[i][2]
          BY <1>1, <1>4, <1>9, <3>1, <5>1
        <5> QED
          BY <1>2, <1>3, <1>9, <3>1, <5>2
      <4> QED
        BY <4>1, <4>2
    <3> QED
      BY <1>4, <3>1, <3>2, <3>3
  <2> QED
    BY <2>1, <2>2
<1> DEFINE m == b - a + 1
<1>11. pages = [k \in 1 .. m |-> a + k - 1]
  <2>1. a \in Int /\ b \in Int /\ a <= b + 1
    BY <1>9
  <2>2. Ascending(a .. b) = [k \in 1 .. m |-> a + k - 1]
    BY <2>1, AscendingInterval
  <2>3. pages = Ascending(a .. b)
    BY <1>10 DEF PagesOf, S
  <2> QED
    BY <2>2, <2>3
<1>12. m \in Nat \ {0}
  BY <1>9
<1> HIDE DEF pages, W
<1>13. ASSUME NEW p \in W
       PROVE  \E k \in DOMAIN pages : pages[k] \in 1 .. n /\ p \in Chars(spans[pages[k]])
  <2>1. PICK i \in S : spans[i][1] <= p /\ p < spans[i][2]
    BY <1>5
  <2>2. i \in a .. b /\ i \in 1 .. n
    BY <1>6, <1>10
  <2> DEFINE k == i - a + 1
  <2>3. k \in 1 .. m /\ a + k - 1 = i
    BY <1>9, <2>2
  <2> HIDE DEF k, m
  <2>4. k \in DOMAIN pages /\ pages[k] = i
    BY <1>11, <2>3
  <2>5. p \in Nat
    BY WordsAre DEF W
  <2>6. p \in Chars(spans[i])
    BY <1>3, <2>1, <2>2, <2>5 DEF Chars
  <2> QED
    BY <2>2, <2>4, <2>6
<1> QED
  BY <1>9, <1>11, <1>12, <1>13 DEF pages, W

\* Whatever the strategy.
LEMMA SplitCut ==
    ASSUME NEW text, text.len \in Nat, NEW strategy \in {"fixed", "sentence", "paragraph"},
           NEW size \in Nat \ {0}, NEW overlap \in Nat
    PROVE  Cut(text, <<0, text.len>>, Split(text, strategy, size, overlap))
<1>1. CASE strategy = "fixed"
  <2>1. Split(text, strategy, size, overlap) = FixedSize(text, size, overlap)
    BY <1>1 DEF Split
  <2> QED
    BY <2>1, WindowsCut
<1>2. CASE strategy = "sentence"
  <2>1. Split(text, strategy, size, overlap) =
           SentenceChunk(Sentences(text, <<0, text.len>>), size, overlap)
    BY <1>2 DEF Split
  <2>2. <<0, text.len>> \in Nat \X Nat /\ size \in Nat
    OBVIOUS
  <2> QED
    BY <2>1, <2>2, SentencesCut
<1>3. CASE strategy = "paragraph"
  <2>1. Split(text, strategy, size, overlap) = ParagraphChunk(text, size, overlap)
    BY <1>3 DEF Split
  <2>2. size \in Nat
    OBVIOUS
  <2> QED
    BY <2>1, <2>2, ParagraphsCut
<1> QED
  BY <1>1, <1>2, <1>3

\* The calls of the chunker.
LEMMA ChunkingCallsMean ==
    ASSUME NEW c \in ChunkingCalls
    PROVE  /\ c.function = "chunk_document" /\ c.strategy \in {"fixed", "sentence", "paragraph"}
           /\ c.size \in Nat \ {0} /\ c.overlap \in Nat
           /\ c.budget \in Nat /\ c.tokenOverlap \in Nat
           /\ \E n \in Nat : /\ DOMAIN c.pages = 1 .. n /\ Len(c.pages) = n
                             /\ n = 0 <=> c.pages = << >>
                             /\ \A i \in 1 .. n : c.pages[i].len \in Nat
<1>1. /\ c.function = "chunk_document" /\ c.strategy \in {"fixed", "sentence", "paragraph"}
      /\ c.size \in Sizes /\ c.overlap \in Overlaps /\ c.budget \in Budgets
      /\ c.tokenOverlap \in Overlaps /\ c.pages \in BoundedSeq(Pages, MaxPages)
  BY DEF ChunkingCalls
<1>2. MaxPages \in Nat /\ \A page \in Pages : page.len \in Nat
  BY ChunkingAssumption
<1>3. PICK n \in 0 .. MaxPages : c.pages \in [1 .. n -> Pages]
  BY <1>1 DEF BoundedSeq, SeqOf
<1>4. n \in Nat
  BY <1>2
<1>5. c.pages \in Seq(Pages) /\ Len(c.pages) = n /\ DOMAIN c.pages = 1 .. n
  BY <1>3, <1>4
<1>6. n = 0 <=> c.pages = << >>
  BY <1>5, EmptySeq
<1>7. \A i \in 1 .. n : c.pages[i].len \in Nat
  BY <1>2, <1>3
<1> QED
  BY <1>1, <1>4, <1>5, <1>6, <1>7, ChunkingAssumption

\* What the chunker promises, of one call.
LEMMA ChunksAreGood ==
    ASSUME Of("chunk_document") => call \in ChunkingCalls /\ result = ChunkDocument(call)
    PROVE  ChunksSound
<1> SUFFICES ASSUME Of("chunk_document")
             PROVE  /\ EverythingChunked /\ ChunksPlaced /\ ChunksFit
                    /\ call.pages # << >> => ChunkIdsDiffer
  BY DEF ChunksSound
<1>1. call \in ChunkingCalls /\ result = ChunkDocument(call)
  OBVIOUS
<1>2. /\ call.strategy \in {"fixed", "sentence", "paragraph"}
      /\ call.size \in Nat \ {0} /\ call.overlap \in Nat
      /\ call.budget \in Nat /\ call.tokenOverlap \in Nat
      /\ \E n \in Nat : /\ DOMAIN call.pages = 1 .. n /\ Len(call.pages) = n
                        /\ n = 0 <=> call.pages = << >>
                        /\ \A i \in 1 .. n : call.pages[i].len \in Nat
  BY <1>1, ChunkingCallsMean
<1>3. CASE call.pages = << >>
  <2>1. result = << >>
    BY <1>1, <1>3 DEF ChunkDocument
  <2>2. DOMAIN result = {}
    BY <2>1
  <2> QED
    BY <1>3, <2>2 DEF EverythingChunked, ChunksPlaced, ChunksFit
<1>4. CASE call.pages # << >>
  <2> DEFINE text == Joined
             spans == PageSpans(call.pages)
             split == Split(text, call.strategy, call.size, call.overlap)
             z == PiecesOf(text, split, call.budget, call.tokenOverlap, call.tokenizer)
  <2>1. PICK n \in Nat \ {0} :
           /\ DOMAIN call.pages = 1 .. n /\ Len(call.pages) = n
           /\ \A i \in 1 .. n : call.pages[i].len \in Nat
    BY <1>2, <1>4
  <2>2. PagesPlaced(text, spans, n)
    BY <2>1, PagesMean DEF Joined
  <2>3. text.len \in Nat
    BY <2>2 DEF PagesPlaced
  <2>4. result = [i \in DOMAIN z |->
                    [span |-> z[i],
                     page |-> IF PagesOf(spans, z[i]) = << >> THEN 1 ELSE PagesOf(spans, z[i])[1],
                     pages |-> PagesOf(spans, z[i]),
                     tokens |-> CountTokens(text, z[i], call.tokenizer)]]
    BY <1>1, <1>4 DEF ChunkDocument, PiecesOf, Joined
  <2> HIDE DEF text, spans
  <2>5. Cut(text, <<0, text.len>>, split)
    BY <1>2, <2>3, SplitCut
  <2>6. split \in Seq(Nat \X Nat)
    BY <2>5 DEF Cut
  <2> HIDE DEF split
  <2>7. /\ z \in Seq(Nat \X Nat)
        /\ \A p \in 1 .. Len(z) :
              /\ z[p][2] <= text.len
              /\ call.tokenizer.kind = "model" => Words(text, z[p]) # {}
              /\ Fits(text, z[p], call.budget, call.tokenizer)
        /\ AllIn(Words(text, <<0, text.len>>), z)
        /\ (\A k \in 1 .. Len(split) :
               call.budget = 0 \/ CountTokens(text, split[k], call.tokenizer) <= call.budget) =>
              \A p, q \in 1 .. Len(z) : z[p] = z[q] => p = q
    BY <1>2, <2>3, <2>5, PiecesMean
  <2> HIDE DEF z
  <2>8. DOMAIN z = 1 .. Len(z) /\ \A p \in 1 .. Len(z) : z[p] \in Nat \X Nat
    BY <2>7
  <2>9. DOMAIN result = 1 .. Len(z)
    BY <2>4, <2>8
  <2>10. ASSUME NEW i \in 1 .. Len(z)
         PROVE  /\ result[i].span = z[i] /\ result[i].pages = PagesOf(spans, z[i])
                /\ result[i].tokens = CountTokens(text, z[i], call.tokenizer)
                /\ result[i].page = IF PagesOf(spans, z[i]) = << >> THEN 1
                                    ELSE PagesOf(spans, z[i])[1]
    <3>1. i \in DOMAIN z
      BY <2>8
    <3> QED
      BY <2>4, <3>1
  <2>11. EverythingChunked
    <3> SUFFICES ASSUME NEW p \in (0 .. text.len - 1) \ text.blank
                 PROVE  p \in UNION {Chars(result[i].span) : i \in DOMAIN result}
      BY DEF EverythingChunked, text
    <3>1. p \in Words(text, <<0, text.len>>) /\ p \in Nat
      BY <2>3 DEF Words, Chars
    <3>2. PICK i \in 1 .. Len(z) : z[i][1] <= p /\ p < z[i][2]
      BY <2>7, <3>1 DEF AllIn
    <3>3. z[i] \in Nat \X Nat
      BY <2>8
    <3>4. p \in Chars(z[i])
      BY <3>1, <3>2, <3>3 DEF Chars
    <3>5. p \in Chars(result[i].span) /\ i \in DOMAIN result
      BY <2>9, <2>10, <3>4
    <3> QED
      BY <3>5
  <2>12. ChunksPlaced
    <3> SUFFICES ASSUME NEW i \in DOMAIN result
                 PROVE  LET chunk == result[i] IN
                        /\ 0 <= chunk.span[1] /\ chunk.span[2] <= text.len
                        /\ call.tokenizer.kind = "model" => Words(text, chunk.span) # {}
                        /\ Words(text, chunk.span) # {} =>
                              /\ chunk.page = chunk.pages[1]
                              /\ \A k \in DOMAIN chunk.pages :
                                    chunk.pages[k] = chunk.page + k - 1
                              /\ \A p \in Words(text, chunk.span) :
                                    \E k \in DOMAIN chunk.pages :
                                       p \in Chars(spans[chunk.pages[k]])
      BY DEF ChunksPlaced, text, spans
    <3> DEFINE chunk == result[i]
               pages == PagesOf(spans, z[i])
    <3>1. i \in 1 .. Len(z)
      BY <2>9
    <3>2. /\ chunk.span = z[i] /\ chunk.pages = pages
          /\ chunk.page = IF pages = << >> THEN 1 ELSE pages[1]
      BY <2>10, <3>1
    <3>3. /\ z[i] \in Nat \X Nat /\ z[i][2] <= text.len
          /\ call.tokenizer.kind = "model" => Words(text, z[i]) # {}
      BY <2>7, <2>8, <3>1
    <3>4. 0 <= z[i][1]
      BY <3>3
    <3> HIDE DEF chunk
    <3>5. ASSUME Words(text, z[i]) # {}
          PROVE  /\ chunk.page = chunk.pages[1]
                 /\ \A k \in DOMAIN chunk.pages : chunk.pages[k] = chunk.page + k - 1
                 /\ \A p \in Words(text, z[i]) :
                       \E k \in DOMAIN chunk.pages : p \in Chars(spans[chunk.pages[k]])
      <4>1. /\ \E m \in Nat \ {0}, a \in 1 .. n : pages = [k \in 1 .. m |-> a + k - 1]
            /\ \A p \in Words(text, z[i]) :
                  \E k \in DOMAIN pages :
                     pages[k] \in 1 .. n /\ p \in Chars(spans[pages[k]])
        BY <2>2, <3>3, <3>5, PiecePages
      <4> HIDE DEF pages
      <4>2. PICK m \in Nat \ {0}, a \in 1 .. n : pages = [k \in 1 .. m |-> a + k - 1]
        BY <4>1
      <4>3. DOMAIN pages = 1 .. m /\ 1 \in 1 .. m /\ \A k \in 1 .. m : pages[k] = a + k - 1
        BY <4>2
      <4>4. pages # << >> /\ pages[1] = a
        BY <4>3
      <4>5. chunk.page = a
        BY <3>2, <4>4
      <4> QED
        BY <3>2, <4>1, <4>3, <4>4, <4>5
    <3> QED
      BY <3>2, <3>3, <3>4, <3>5 DEF chunk
  <2>13. ChunksFit
    <3> SUFFICES ASSUME call.budget > Reserved, NEW i \in DOMAIN result,
                        result[i].tokens > call.budget
                 PROVE  call.tokenizer.kind # "chars" /\ Torn(text, result[i].span)
      BY DEF ChunksFit, text
    <3>1. i \in 1 .. Len(z)
      BY <2>9
    <3> QED
      BY <2>7, <2>10, <3>1 DEF Fits
  <2>14. ChunkIdsDiffer
    <3>1. DOMAIN split = 1 .. Len(split)
      BY <2>6
    <3> SUFFICES ASSUME \A k \in 1 .. Len(split) :
                           \/ call.budget = 0
                           \/ CountTokens(text, split[k], call.tokenizer) <= call.budget,
                        NEW i \in DOMAIN result, NEW j \in DOMAIN result,
                        result[i].span = result[j].span
                 PROVE  i = j
      BY <3>1 DEF ChunkIdsDiffer, text, split
    <3>2. i \in 1 .. Len(z) /\ j \in 1 .. Len(z)
      BY <2>9
    <3>3. z[i] = z[j]
      BY <2>10, <3>2
    <3> QED
      BY <2>7, <3>2, <3>3
  <2> QED
    BY <2>11, <2>12, <2>13, <2>14
<1> QED
  BY <1>3, <1>4

=============================================================================
