----------------------------- MODULE Evaluation -----------------------------
(***************************************************************************)
(* The evaluation harnesses: the ground truth of a question, the metrics   *)
(* of what was retrieved for it, the class of its failure, the gate over a *)
(* report, the offline generator and judge, and the pacing of the calls of *)
(* a provider.                                                             *)
(*                                                                         *)
(* Metrics are numerators over a denominator that is named; the rounding   *)
(* to four decimals is left out.  Scores of a judge, floors and ceilings   *)
(* are in percent.  A text is the set of its content words.                *)
(***************************************************************************)
EXTENDS Calls, Lists, SequencesExt, FiniteSetsExt

CONSTANTS
    Corpus,         \* stored chunks
    CorpusDoc,      \* the document of a chunk
    Snippets,       \* phrases of the expected answers
    MaxRetrieved,   \* bound: how many chunks are retrieved
    Scores,         \* of the judge, in percent
    FaithFloor, OffTopicFloor, PartialFloor,    \* of the classification
    MetricFloors,   \* of the gate, per metric
    MaxRates,       \* of the gate: hallucination and retrieval_miss
    MaxReport,      \* bound: how many questions a report is about
    Lexicon,        \* content words
    TopSentences,   \* top_sentences of the offline generator
    Interval,       \* 60 / rpm
    MaxRetries,     \* max_retries of the pacer
    CallTimes       \* bound: how long a call of the provider, or between two, lasts

ASSUME EvaluationAssumption ==
    /\ CorpusDoc \in [Corpus -> {CorpusDoc[x] : x \in Corpus}]
    /\ IsFiniteSet(Corpus) /\ IsFiniteSet(Lexicon)
    /\ {MaxRetrieved, MaxReport, Interval, MaxRetries} \subseteq Nat
    /\ TopSentences \in Nat \ {0}
    /\ Scores \cup {FaithFloor, OffTopicFloor, PartialFloor} \subseteq 0 .. 100
    /\ MetricFloors \in [{"faithfulness", "answer_relevancy", "context_recall",
                          "context_precision"} -> 0 .. 100]
    /\ \E m \in DOMAIN MetricFloors : MetricFloors[m] > 0
    /\ MaxRates \in [{"hallucination", "retrieval_miss"} -> 0 .. 100]
    /\ CallTimes \subseteq Nat

-----------------------------------------------------------------------------
(* One question (harness, gen_harness).                                    *)

\* The chunks of the expected documents that hold a phrase.
HitsOf(c, snippet) ==
    {x \in Corpus : CorpusDoc[x] \in c.docs /\ snippet \in c.contains[x]}

\* Every phrase must be somewhere, or the fixture does not fit.
Resolvable(c) == \A snippet \in c.snippets : HitsOf(c, snippet) # {}

ResolveGroundTruth(c) == UNION {HitsOf(c, snippet) : snippet \in c.snippets}

\* 0 for none.
FirstHitRank(retrieved, expected) ==
    LET hits == {r \in DOMAIN retrieved : retrieved[r] \in expected}
    IN  IF hits = {} THEN 0 ELSE Min(hits)

Relevant(retrieved, expected) == ToSet(retrieved) \cap expected

\* Divisible by every rank.
Ranks == ProductTo([r \in 1 .. MaxRetrieved |-> r], MaxRetrieved)

\* How many of the first r are relevant.
HitsUpTo(retrieved, expected, r) == Cardinality({q \in 1 .. r : retrieved[q] \in expected})

\* Fault: precision at a rank over all that was retrieved.
PrecisionAtLast(retrieved, expected, r) ==
    (Ranks * HitsUpTo(retrieved, expected, r)) \div Len(retrieved)

\* Times Ranks.
PrecisionAt(retrieved, expected, r) == (Ranks * HitsUpTo(retrieved, expected, r)) \div r

\* Average precision, times Ranks and the number of relevant chunks.
ContextPrecision(retrieved, expected) ==
    SumTo([r \in DOMAIN retrieved |-> IF retrieved[r] \in expected
                                     THEN PrecisionAt(retrieved, expected, r) ELSE 0],
          Len(retrieved))

\* The first that holds.
ClassifyFailure(found, abstained, faithfulness, relevancy) ==
    IF ~found THEN "retrieval_miss"
    ELSE IF abstained THEN "over_refusal"
    ELSE IF faithfulness < FaithFloor THEN "hallucination"
    ELSE IF relevancy < OffTopicFloor THEN "off_topic"
    ELSE IF relevancy < PartialFloor THEN "partial_answer"
    ELSE "ok"

Classes ==
    {"retrieval_miss", "over_refusal", "hallucination", "off_topic", "partial_answer", "ok"}

\* The fixture that does not fit is an error; the answer is judged elsewhere.
EvaluateQuery(c) ==
    IF ~Resolvable(c) THEN [resolved |-> FALSE]
    ELSE LET expected == ResolveGroundTruth(c)
         IN  [resolved |-> TRUE, rank |-> FirstHitRank(c.retrieved, expected),
              precision |-> ContextPrecision(c.retrieved, expected),
              recall |-> Cardinality(Relevant(c.retrieved, expected)),
              expected |-> Cardinality(expected)]

\* The chunks are retrieved from all documents, each once.
EvaluateCalls ==
    {c \in [function : {"evaluate_query"},
            docs : (SUBSET {CorpusDoc[x] : x \in Corpus}) \ {{}},
            snippets : (SUBSET Snippets) \ {{}}, contains : [Corpus -> SUBSET Snippets],
            retrieved : BoundedSeq(Corpus, MaxRetrieved)] :
        Cardinality(ToSet(c.retrieved)) = Len(c.retrieved)}

EvaluateReturns == Return("evaluate_query", LAMBDA c : {EvaluateQuery(c)})

-----------------------------------------------------------------------------
(* The gate over a report (_aggregate, _failure_breakdown, check_gate).    *)

Total(report, signal) == SumTo([i \in DOMAIN report |-> report[i][signal]], Len(report))

ClassOf(q) == ClassifyFailure(q.recall > 0, q.abstained, q.faithfulness, q.relevancy)

Counted(report, class) == Cardinality({i \in DOMAIN report : ClassOf(report[i]) = class})

\* The averages against their floors, the rates against their ceilings.  An empty report
\* averages to nothing.
CheckGate(c) ==
    LET n == Len(c.report)
        value == [faithfulness |-> Total(c.report, "faithfulness"),
                  answer_relevancy |-> Total(c.report, "relevancy"),
                  context_recall |-> Total(c.report, "recall"),
                  context_precision |-> Total(c.report, "precision")]
    IN  [passed |->
            /\ \A m \in DOMAIN MetricFloors :
                  value[m] >= MetricFloors[m] * (IF n = 0 THEN 1 ELSE n)
            /\ \A class \in DOMAIN MaxRates :
                  100 * Counted(c.report, class) <= MaxRates[class] * n,
         counts |-> [class \in Classes |-> Counted(c.report, class)]]

\* No precision without recall.
QuerySignals ==
    {q \in [recall : {0, 50, 100}, precision : {0, 50, 100}, abstained : BOOLEAN,
            faithfulness : Scores, relevancy : Scores] : q.recall = 0 <=> q.precision = 0}

GateCalls == [function : {"check_gate"}, report : BoundedSeq(QuerySignals, MaxReport)]

GateReturns == Return("check_gate", LAMBDA c : {CheckGate(c)})

-----------------------------------------------------------------------------
(* The offline generator and judge (ExtractiveGenerator, LexicalJudge).    *)

\* Where the sentences are: a chunk and a place in it.
SentencesOf(c) == UNION {{<<k, i>> : i \in DOMAIN c.chunks[k]} : k \in DOMAIN c.chunks}

Sentence(c, s) == c.chunks[s[1]][s[2]]

Overlap(c, s) == Cardinality(c.question \cap Sentence(c, s))

\* The one with more words of the question first; of equals, the one of the higher ranked
\* chunk.
MoreOverlap(c) ==
    {p \in SentencesOf(c) \X SentencesOf(c) :
        LET x == p[1]
            y == p[2]
        IN  \/ Overlap(c, x) > Overlap(c, y)
            \/ /\ Overlap(c, x) = Overlap(c, y)
               /\ x[1] < y[1] \/ (x[1] = y[1] /\ x[2] < y[2])}

Scored(c) == Sorted(SentencesOf(c), MoreOverlap(c))

\* Of the best sentences those that have a word of the question, or the first when there
\* is none.
Extract(c) ==
    LET scored == Scored(c)
        best == TopOf(scored, TopSentences)
        picked == Picked(best, {p \in DOMAIN best : Overlap(c, best[p]) > 0})
        chosen == IF picked = << >> THEN TopOf(scored, 1) ELSE picked
    IN  [p \in DOMAIN chosen |-> Sentence(c, chosen[p])]

\* The numerators are over the words of the answer and of the question.
LexicalJudge(c) ==
    LET answer == UNION ToSet(Extract(c))
        context == UNION UNION {ToSet(c.chunks[k]) : k \in DOMAIN c.chunks}
    IN  [answer |-> Extract(c), words |-> Cardinality(answer),
         faithfulness |-> Cardinality(answer \cap context),
         relevancy |-> Cardinality(answer \cap c.question)]

SurrogateCalls ==
    [function : {"generate"}, question : SUBSET Lexicon,
     chunks : BoundedSeq(BoundedSeq(SUBSET Lexicon, 2), 2)]

SurrogateReturns == Return("generate", LAMBDA c : {LexicalJudge(c)})

-----------------------------------------------------------------------------
(* The pacing of a provider's calls (_SharedPacer).                        *)

PowerOfTwo(n) == ProductTo([i \in 1 .. n |-> 2], n)

\* The wait after an attempt: as long as the server asks, or longer each time.
Backoff(outcome, attempt) ==
    (IF outcome.delay > 0 THEN outcome.delay ELSE Interval * PowerOfTwo(attempt)) + 1

\* One attempt: it starts when the interval since the last start has passed.
Attempt(s, outcome) ==
    LET start == IF s.last < 0 \/ s.now - s.last >= Interval THEN s.now
                 ELSE s.last + Interval
        ended == start + outcome.time
        failed == outcome.kind = "transient" /\ s.attempt < MaxRetries
    IN  [starts |-> Append(s.starts, start), last |-> start,
         now |-> IF failed THEN ended + Backoff(outcome, s.attempt) ELSE ended,
         attempt |-> IF failed THEN s.attempt + 1 ELSE 0,
         ends |-> IF failed THEN s.ends ELSE Append(s.ends, outcome.kind)]

\* The calls of the generator and the judge are made one after the other, through one
\* pacer; what the provider does is one outcome per attempt.
Pace(c) ==
    LET n == Len(c.outcomes)
        state[k \in 0 .. n] ==
            IF k = 0
            THEN [starts |-> << >>, last |-> -1, now |-> 0, attempt |-> 0, ends |-> << >>]
            ELSE Attempt(state[k - 1], c.outcomes[k])
    IN  state[n]

PaceCalls ==
    [function : {"pace"},
     outcomes : BoundedSeq([kind : {"answer", "transient", "error"}, time : CallTimes,
                            delay : {0, 1}], MaxRetries + 2)]

PaceReturns == Return("pace", LAMBDA c : {Pace(c)})

-----------------------------------------------------------------------------
(* Properties.                                                             *)

Swapped(s, i) == [s EXCEPT ![i] = s[i + 1], ![i + 1] = s[i]]

\* A full context recall means that every phrase of the expected answer was retrieved, from
\* a document that was asked for; a question without a hit has no precision and no recall.
\* A relevant chunk that moves ahead of an irrelevant one always raises the precision, which
\* is full only when all of them are ahead (resolve_ground_truth, evaluate_gen_query).
MetricsSound ==
    Of("evaluate_query") /\ result.resolved =>
        LET expected == ResolveGroundTruth(call)
            retrieved == call.retrieved
        IN  /\ result.recall = result.expected =>
                  \A snippet \in call.snippets : \E r \in DOMAIN retrieved :
                     snippet \in call.contains[retrieved[r]]
                        /\ CorpusDoc[retrieved[r]] \in call.docs
            /\ result.rank = 0 <=> result.recall = 0
            /\ result.recall = 0 <=> result.precision = 0
            /\ result.precision <= Ranks * result.recall
            /\ result.precision = Ranks * result.recall <=>
                  \A r \in 1 .. result.recall : retrieved[r] \in expected
            /\ \A i \in 1 .. Len(retrieved) - 1 :
                  retrieved[i] \notin expected /\ retrieved[i + 1] \in expected =>
                     ContextPrecision(Swapped(retrieved, i), expected) > result.precision

\* A report that passes hides nothing: the questions that found no evidence, and the
\* answers that their evidence does not support, stay within the ceilings, whatever their
\* other signals; every question is counted once, and an empty report fails (check_gate).
GateSound ==
    Of("check_gate") =>
        LET report == call.report
            n == Len(report)
            counts == result.counts
            missed == {i \in DOMAIN report : report[i].recall = 0}
            unsupported == {i \in DOMAIN report :
                               report[i].faithfulness < FaithFloor /\ ~report[i].abstained}
        IN  /\ counts["retrieval_miss"] + counts["over_refusal"] + counts["hallucination"]
                  + counts["off_topic"] + counts["partial_answer"] + counts["ok"] = n
            /\ result.passed =>
                  /\ n > 0
                  /\ 100 * Cardinality(missed) <= MaxRates["retrieval_miss"] * n
                  /\ 100 * Cardinality(unsupported)
                        <= (MaxRates["hallucination"] + MaxRates["retrieval_miss"]) * n

\* What the offline generator says is in the chunks, so that the offline judge finds it
\* faithful unless it says nothing; no sentence it leaves out has more of the question than
\* one that it takes (ExtractiveGenerator, LexicalJudge).
SurrogateGrounded ==
    Of("generate") =>
        LET all == UNION {ToSet(call.chunks[k]) : k \in DOMAIN call.chunks}
            overlap(s) == Cardinality(call.question \cap s)
        IN  /\ ToSet(result.answer) \subseteq all
            /\ result.faithfulness = result.words
            /\ all # {} => result.answer # << >>
            /\ Len(result.answer) <= TopSentences
            /\ \A s \in all \ ToSet(result.answer), i \in DOMAIN result.answer :
                  overlap(result.answer[i]) >= overlap(s)
            /\ (\E s \in all : overlap(s) > 0) => result.relevancy > 0

\* No two attempts start within the interval, whoever makes them and whether or not they
\* are retries; a call is given up at once for an error that will not pass, and otherwise
\* only after the last retry (_SharedPacer).
PacedAndPatient ==
    Of("pace") =>
        /\ \A i \in 1 .. Len(result.starts) - 1 :
              result.starts[i + 1] - result.starts[i] >= Interval
        /\ Cardinality({i \in DOMAIN result.ends : result.ends[i] = "transient"})
                 * (MaxRetries + 1)
              <= Cardinality({i \in DOMAIN call.outcomes : call.outcomes[i].kind = "transient"})
        /\ Cardinality({i \in DOMAIN result.ends : result.ends[i] # "transient"})
              = Cardinality({i \in DOMAIN call.outcomes : call.outcomes[i].kind # "transient"})
        /\ result.attempt <= MaxRetries

\* What an evaluation reports is what was measured.
EvaluationSound == MetricsSound /\ GateSound /\ SurrogateGrounded /\ PacedAndPatient

=============================================================================
