-------------------------------- MODULE Lists --------------------------------
(***************************************************************************)
(* Python's sorted(), its comprehensions with a condition, and its sum():  *)
(* what is sorted or picked is named by the place that it takes.  An order *)
(* is the set of the pairs whose first comes before the second.            *)
(***************************************************************************)
EXTENDS Integers, FiniteSets, Sequences

\* What comes before x in the order R.
Preceding(S, R, x) == {y \in S : <<y, x>> \in R}

Rank(S, R, x) == Cardinality(Preceding(S, R, x))

\* The members of a finite set in a strict order in which any two are comparable.
Sorted(S, R) == [p \in 1 .. Cardinality(S) |-> CHOOSE x \in S : Rank(S, R, x) = p - 1]

Increasing(S) == {p \in S \X S : p[1] < p[2]}

Ascending(S) == Sorted(S, Increasing(S))

\* The first n, or all when there are fewer.
TopOf(s, n) == SubSeq(s, 1, IF n < Len(s) THEN n ELSE Len(s))

\* What a sequence has at the places of a set, in its order.
Picked(s, places) == [p \in 1 .. Cardinality(places) |-> s[Ascending(places)[p]]]

Lexicographic(S) ==
    {p \in S \X S : \/ p[1][1] < p[2][1]
                    \/ p[1][1] = p[2][1] /\ p[1][2] < p[2][2]}

\* The sequences of a sequence, one after the other: a comprehension with two loops.
Flat(seqs) ==
    LET places == UNION {{<<i, k>> : k \in DOMAIN seqs[i]} : i \in DOMAIN seqs}
        sorted == Sorted(places, Lexicographic(places))
    IN  [p \in DOMAIN sorted |-> seqs[sorted[p][1]][sorted[p][2]]]

\* The sum of the first n values of f.
SumTo(f, n) ==
    LET total[i \in 0 .. n] == IF i = 0 THEN 0 ELSE total[i - 1] + f[i] IN total[n]

\* Their product.
ProductTo(f, n) ==
    LET product[i \in 0 .. n] == IF i = 0 THEN 1 ELSE product[i - 1] * f[i] IN product[n]

=============================================================================
