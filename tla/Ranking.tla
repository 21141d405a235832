------------------------------- MODULE Ranking -------------------------------
(***************************************************************************)
(* Rankings: the dense and the lexical ranking of a query are fused, those *)
(* of several phrasings likewise, and the candidates are ordered by a      *)
(* second model or spread out over different passages.                     *)
(*                                                                         *)
(* A ranking is a sequence of distinct chunks, best first.  Scores are     *)
(* integers: a reciprocal rank is taken times Scale.                       *)
(***************************************************************************)
EXTENDS Calls, Lists, SequencesExt, FiniteSetsExt

CONSTANTS
    Chunks,     \* ids of chunks
    RrfK,       \* RRF_K
    MaxHits,    \* bound: the length of a ranking
    Tops,       \* how many results are asked for
    Grades,     \* relevance and similarity of chunks: 0 to the grade of an exact copy
    Weights,    \* lambda_mult, in tenths
    PoolFactor, \* 6: a search fetches so many candidates per result
    PoolCap     \* 50: and no more than this

ASSUME RankingAssumption ==
    /\ RrfK \in Nat /\ MaxHits \in Nat /\ Tops \subseteq Nat \ {0}
    /\ IsFiniteSet(Chunks) /\ MaxHits <= Cardinality(Chunks) /\ IsFiniteSet(Grades)
    /\ Grades \subseteq Nat /\ Weights \subseteq Nat /\ {PoolFactor, PoolCap} \subseteq Nat

-----------------------------------------------------------------------------
(* Fusion (hybrid_search, fuse_ranked_lists).                              *)

\* Divisible by every rank's denominator.
Scale == ProductTo([r \in 1 .. MaxHits |-> RrfK + r], MaxHits)

Place(ranking, c) == CHOOSE r \in DOMAIN ranking : ranking[r] = c

Reciprocal(ranking, c) ==
    IF Contains(ranking, c) THEN Scale \div (RrfK + Place(ranking, c)) ELSE 0

Score(rankings, c) ==
    SumTo([i \in DOMAIN rankings |-> Reciprocal(rankings[i], c)], Len(rankings))

\* Of two chunks, the one that is met first when the rankings are read one after the other.
MetBefore(rankings, x, y) ==
    \E i \in DOMAIN rankings :
        /\ Contains(rankings[i], x)
        /\ \A j \in 1 .. i - 1 : ~Contains(rankings[j], y)
        /\ Contains(rankings[i], y) => Place(rankings[i], x) < Place(rankings[i], y)

\* The sort is stable: of equal scores the one that was met first comes first.
ByScore(S, rankings, score) ==
    {p \in S \X S : \/ score[p[1]] > score[p[2]]
                    \/ score[p[1]] = score[p[2]] /\ MetBefore(rankings, p[1], p[2])}

SortByScore(S, rankings, score) == Sorted(S, ByScore(S, rankings, score))

FuseRankedLists(rankings) ==
    LET met == UNION {ToSet(rankings[i]) : i \in DOMAIN rankings}
    IN  SortByScore(met, rankings, [c \in met |-> Score(rankings, c)])

\* Fault: a hit of the lexical leg is stored anew, and its place in the dense one forgotten.
RrfOfLast(dense, lexical, c) ==
    IF Contains(lexical, c) THEN Reciprocal(lexical, c) ELSE Reciprocal(dense, c)

Rrf(dense, lexical, c) == Reciprocal(dense, c) + Reciprocal(lexical, c)

RankingsOf(chunks, n) ==
    {s \in BoundedSeq(chunks, n) : \A i, j \in DOMAIN s : s[i] = s[j] => i = j}

\* Either leg may fail; the text of a hit of the lexical leg alone is fetched, all of them
\* or, when the store is down, none, and of those only what the store has.  The hits that
\* have no text keep their rank.
HybridSearch(c, n) ==
    LET dense == IF c.denseFails THEN << >> ELSE TopOf(c.dense, n)
        lexical == IF c.lexicalFails THEN << >> ELSE TopOf(c.lexical, n)
        shown == ToSet(dense) \cup (IF c.fetchFails THEN {} ELSE ToSet(lexical) \cap c.stored)
    IN  TopOf(SortByScore(shown, <<dense, lexical>>,
                          [x \in shown |-> Rrf(dense, lexical, x)]), n)

\* Chunks are named in the order in which the first ranking has them.
Named == SetToSeq(Chunks)

FirstRankings == {SubSeq(Named, 1, n) : n \in 0 .. MaxHits}

\* What the two legs have to say of a query, best first, and what fails.  The dense leg
\* reads the store, so what it finds is there; the lexical index may hold what it does not.
HybridCalls ==
    {c \in [function : {"hybrid_search"}, dense : FirstRankings,
            lexical : RankingsOf(Chunks, MaxHits), denseFails : BOOLEAN,
            lexicalFails : BOOLEAN, fetchFails : BOOLEAN, stored : SUBSET Chunks,
            top : Tops \cup {MaxHits}] : ToSet(c.dense) \subseteq c.stored}

HybridReturns == Return("hybrid_search", LAMBDA c : {HybridSearch(c, c.top)})

-----------------------------------------------------------------------------
(* The second order (semantic_search, mmr_rerank) and several phrasings.   *)

\* By the scores of the model, or as it was when the model fails.
Rerank(candidates, score, fails, top) ==
    IF fails THEN TopOf(candidates, top)
    ELSE TopOf(SortByScore(ToSet(candidates), <<candidates>>, score), top)

Pool(top) == IF top * PoolFactor < PoolCap THEN top * PoolFactor ELSE PoolCap

\* The pool is fetched, then ordered and cut.
SemanticSearch(c) == Rerank(HybridSearch(c, Pool(c.top)), c.score, c.fails, c.top)

\* The lexical leg fails, so that the dense one is what is fused.
SemanticCalls ==
    [function : {"semantic_search"}, dense : FirstRankings, lexical : {<< >>},
     denseFails : {FALSE}, lexicalFails : {TRUE}, fetchFails : {FALSE}, stored : {Chunks},
     top : Tops, score : [Chunks -> Grades], fails : BOOLEAN]

SemanticReturns == Return("semantic_search", LAMBDA c : {SemanticSearch(c)})

\* The results of each phrasing, fused; the query as it was asked comes first, and is the
\* only one when the model fails (rewrite_query).
ExpandedSearch(c) == FuseRankedLists(IF c.fails THEN <<Head(c.rankings)>> ELSE c.rankings)

ExpandedCalls ==
    {c \in [function : {"expanded_search"}, fails : BOOLEAN,
            rankings : [1 .. 2 -> RankingsOf(Chunks, MaxHits)]] :
        c.rankings[1] \in FirstRankings}

ExpandedReturns == Return("expanded_search", LAMBDA c : {ExpandedSearch(c)})

Highest(S) == CHOOSE x \in S : \A y \in S : y <= x
Lowest(S) == CHOOSE x \in S : \A y \in S : x <= y

\* Relevance from 0 to 1 as a numerator over Spread; equal ones are all 1.
Spread(c) ==
    LET scores == {c.score[i] : i \in DOMAIN c.score} IN Highest(scores) - Lowest(scores)

Normalise(c, i) ==
    LET scores == {c.score[j] : j \in DOMAIN c.score}
    IN  IF Spread(c) = 0 THEN 1 ELSE c.score[i] - Lowest(scores)

Alike(c, i, j) == c.alike[{i, j}]

\* lambda * relevance - (1 - lambda) * redundancy, times 10, Spread and the best grade.
Merit(c, i, selected) ==
    LET spread == IF Spread(c) = 0 THEN 1 ELSE Spread(c)
        redundancy == Highest({Alike(c, i, selected[k]) : k \in DOMAIN selected})
    IN  c.weight * Normalise(c, i) * Highest(Grades) - (10 - c.weight) * redundancy * spread

\* The best of what remains, the first of equals.
Choice(c, selected) ==
    LET remaining == DOMAIN c.score \ ToSet(selected)
        best == {i \in remaining :
                    \A j \in remaining : Merit(c, i, selected) >= Merit(c, j, selected)}
    IN  Lowest(best)

\* The candidates are numbered in the order they come in.
MmrRerank(c) ==
    LET candidates == [i \in DOMAIN c.score |-> i]
        selection[k \in 0 .. Len(c.score) - 1] ==
            IF k = 0 THEN <<1>>
            ELSE Append(selection[k - 1], Choice(c, selection[k - 1]))
    IN  IF c.top >= Len(c.score) \/ c.weight >= 10 \/ c.fails THEN TopOf(candidates, c.top)
        ELSE selection[c.top - 1]

Descending(s) == \A i \in 1 .. Len(s) - 1 : s[i] >= s[i + 1]

MmrCalls ==
    UNION {[function : {"mmr_rerank"}, score : {s \in [1 .. n -> Grades] : Descending(s)},
            alike : [kSubset(2, 1 .. n) -> Grades], weight : Weights, top : Tops,
            fails : BOOLEAN] : n \in 1 .. 3}

MmrReturns == Return("mmr_rerank", LAMBDA c : {MmrRerank(c)})

-----------------------------------------------------------------------------
(* Properties.                                                             *)

RankIn(ranking, c) ==
    IF Contains(ranking, c) THEN Place(ranking, c) ELSE MaxHits + 1

\* y is nowhere ahead of x, and x is ahead somewhere or the first to be met.
Ahead(rankings, x, y) ==
    /\ x # y
    /\ \A i \in DOMAIN rankings : RankIn(rankings[i], x) <= RankIn(rankings[i], y)

\* A search loses a leg but not its results: as long as the store can be read, whatever
\* either leg found and the store has is among them, up to the number asked for.  A chunk
\* that no ranking places lower than another comes before it, wherever its text came from,
\* and the same holds of the phrasings of a query (hybrid_search, fuse_ranked_lists).
FusionFair ==
    /\ Of("hybrid_search") =>
        LET dense == IF call.denseFails THEN << >> ELSE TopOf(call.dense, call.top)
            lexical == IF call.lexicalFails THEN << >> ELSE TopOf(call.lexical, call.top)
            found == ToSet(dense)
                \cup (IF call.fetchFails THEN {} ELSE ToSet(lexical) \cap call.stored)
        IN  /\ \A i, j \in DOMAIN result :
                  Ahead(<<dense, lexical>>, result[i], result[j]) => i < j
            /\ ToSet(result) \subseteq found
            /\ Cardinality(ToSet(result)) = Len(result)
            /\ Len(result) =
                  (IF call.top < Cardinality(found) THEN call.top ELSE Cardinality(found))
            /\ \A x \in found \ ToSet(result), i \in DOMAIN result :
                  ~Ahead(<<dense, lexical>>, x, result[i])
    /\ Of("expanded_search") =>
        LET read == IF call.fails THEN <<call.rankings[1]>> ELSE call.rankings
        IN  /\ ToSet(result) = UNION {ToSet(read[i]) : i \in DOMAIN read}
            /\ \A i, j \in DOMAIN result : Ahead(read, result[i], result[j]) => i < j

\* What is returned is what the second model finds best of all that the first stage fetched
\* for it, not of what would have been returned without it; when it fails, it is the first
\* stage's best (semantic_search).
SecondOpinion ==
    Of("semantic_search") =>
        LET pool == TopOf(call.dense, Pool(call.top))
        IN  /\ Len(result) = (IF call.top < Len(pool) THEN call.top ELSE Len(pool))
            /\ call.fails => result = SubSeq(call.dense, 1, Len(result))
            /\ ~call.fails => \A i \in DOMAIN result :
                  \A x \in ToSet(pool) \ {result[j] : j \in 1 .. i - 1} :
                     call.score[result[i]] >= call.score[x]

\* Diversity changes which and in which order, never how many, and never drops the best;
\* a candidate is passed over only for one that is more relevant or less like what was
\* chosen before (mmr_rerank).
DiversityFair ==
    Of("mmr_rerank") =>
        LET before(k) == {result[j] : j \in 1 .. k - 1}
            redundancy(k, i) == Highest({Alike(call, i, j) : j \in before(k)})
        IN  /\ Head(result) = 1
            /\ Len(result) = (IF call.top < Len(call.score) THEN call.top
                              ELSE Len(call.score))
            /\ Cardinality(ToSet(result)) = Len(result)
            /\ \A k \in 2 .. Len(result) : \A i \in DOMAIN call.score \ before(k) :
                  i # result[k] /\ ~call.fails /\ call.top < Len(call.score) =>
                      \/ call.score[result[k]] > call.score[i]
                      \/ redundancy(k, result[k]) <= redundancy(k, i)
                      \/ result[k] < i /\ call.weight >= 10

=============================================================================
