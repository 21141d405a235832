---------------------------- MODULE Verification ----------------------------
(***************************************************************************)
(* What an answer is checked for before it is sent: each of its citations  *)
(* against the chunk it names, all of it against the chunks by a second    *)
(* model, and how much of it is copied.                                    *)
(*                                                                         *)
(* An answer is a sequence of sentences; a sentence has a citation marker, *)
(* facts (codes and numbers) and other words.  A marker is a sequence of   *)
(* tokens, and a token the numbers that hyphens join in it: [1] has one,   *)
(* [1-3] has two, and [1-3-5], or a date in brackets, has three.  A chunk  *)
(* is its facts and words.  Probabilities are fractions, pairs of integers.*)
(***************************************************************************)
EXTENDS Calls, Integers, Sequences, SequencesExt

CONSTANTS
    CitedTokens,    \* the tokens that a marker may hold
    MaxSentences,   \* bound: how many sentences an answer has at most
    Facts,          \* codes and numbers
    Within,         \* the pairs of facts of which one is a part of the other, 1 of 10
    Vocabulary,     \* other words that count
    MaxChunks,      \* bound: how many chunks the answer was drawn from
    MaxLines        \* bound: how many lines the verifier writes

ASSUME VerificationAssumption ==
    /\ \A token \in CitedTokens : token \in Seq(Nat) /\ token # << >>
    /\ {MaxSentences, MaxChunks, MaxLines} \subseteq Nat
    /\ IsFiniteSet(Vocabulary)

-----------------------------------------------------------------------------
(* Citations (citation_parser, citation_validator).                        *)

AtLeastOf(a, b) == IF a < b THEN a ELSE b
AtMostOf(a, b) == IF a > b THEN a ELSE b

\* What int() reads on either side of the first hyphen; of three numbers it raises.
Readable(token) == Len(token) <= 2

\* _expand: a range that runs backwards is one that runs forwards.
Expand(token) ==
    LET end == token[Len(token)]
    IN  AtLeastOf(token[1], end) .. AtMostOf(token[1], end)

\* The numbers that a sentence cites; parse_citations without the number of chunks.
Cites(sentence) ==
    {n \in UNION {Expand(sentence.marker[i]) : i \in DOMAIN sentence.marker} : n >= 1}

ParseCitations(answer) == UNION {Cites(answer.text[i]) : i \in DOMAIN answer.text}

\* parse_citations does not return: one token that it cannot read fails the answer.
ParsingRaises(answer) ==
    \E i \in DOMAIN answer.text : \E j \in DOMAIN answer.text[i].marker :
        ~Readable(answer.text[i].marker[j])

\* The sentences that a citation vouches for.
ClaimForIndex(answer, index) == {i \in DOMAIN answer.text : index \in Cites(answer.text[i])}

\* What the sentences of a claim have of facts or of words.
Asserted(answer, claim, what(_)) == UNION {what(answer.text[i]) : i \in claim}

FactsOf(part) == part.facts
WordsOf(part) == part.words

\* Six words of ten, or no words at all.
Overlaps60(words, chunk) ==
    words = {} \/ 10 * Cardinality(words \cap chunk.words) >= 6 * Cardinality(words)

\* A reply of the judge is what it holds of four phrases.  "not supported" is one of
\* "not_mentioned" and holds "supported" as well; "denies" stands for a denial that is none
\* of the phrases looked for, "unsupported" or "doesn't support".
JudgeReplies == SUBSET {"contradicted", "not_mentioned", "supported", "denies"}

\* "support" is in the reply, whatever is said of it.
SaysSupport(reply) == reply \cap {"supported", "denies"} # {}

\* Fault: support is looked for first.
ParseJudgeSupport(reply) ==
    CASE SaysSupport(reply) -> "supported"
      [] ~SaysSupport(reply) /\ "contradicted" \in reply -> "contradicted"
      [] ~SaysSupport(reply) /\ "contradicted" \notin reply
            /\ "not_mentioned" \in reply -> "not_mentioned"
      [] OTHER -> "unverified"

ParseJudge(reply) ==
    CASE "contradicted" \in reply -> "contradicted"
      [] "contradicted" \notin reply /\ "not_mentioned" \in reply -> "not_mentioned"
      [] "contradicted" \notin reply /\ "not_mentioned" \notin reply
            /\ SaysSupport(reply) -> "supported"
      [] OTHER -> "unverified"

\* The facts that a search for them as text finds in a chunk: its own, and parts of them.
FoundIn(chunk) == chunk.facts \cup {f \in Facts : \E g \in chunk.facts : <<f, g>> \in Within}

\* Every fact of the claim is found in the chunk; without facts, enough of the words are.
ClearlySupported(answer, claim, chunk) ==
    LET facts == Asserted(answer, claim, FactsOf)
        words == Asserted(answer, claim, WordsOf)
    IN  facts \subseteq FoundIn(chunk) /\ (facts # {} \/ Overlaps60(words, chunk))

\* _assess: the judge is asked when the first look does not settle it; one that is
\* switched off, missing or failing leaves the citation unverified.
Assess(answer, claim, chunk, judge) ==
    CASE ClearlySupported(answer, claim, chunk) -> "supported"
      [] ~ClearlySupported(answer, claim, chunk) /\ judge.answers -> ParseJudge(judge.reply)
      [] OTHER -> "unverified"

\* validate_citations: the verdict of each number that is cited.
ValidateCitations(c) ==
    [n \in IF c.answer.abstains \/ c.answer.text = << >> THEN {} ELSE ParseCitations(c.answer) |->
        IF n \notin DOMAIN c.chunks THEN "invalid"
        ELSE Assess(c.answer, ClaimForIndex(c.answer, n), c.chunks[n], c.judge)]

Judged(verdicts, kinds) == {n \in DOMAIN verdicts : verdicts[n] \in kinds}

-----------------------------------------------------------------------------
(* The verifier (groundedness_check).                                      *)

\* What a line may be, by the phrases the code looks for:
\*   "nothing"           nothing is unsupported, in one of the expected wordings
\*   "none_supported"    begins with "none" and means that nothing is supported
\*   "not_all"           "not all claims are supported": holds "all claims are supported"
\*   "one_fully"         affirms one claim with "fully supported"
\*   "heading"           speaks about the list
\*   "affirms"           affirms a claim in other words
\*   "short"             eight characters or less
\*   "passing"           a claim in a sentence that holds "the following" or the like
\*   "claim"             any other claim
Lines == {"nothing", "none_supported", "not_all", "one_fully", "heading", "affirms", "short",
          "passing", "claim"}

FailClosed == [grounded |-> FALSE, confidence |-> <<0, 1>>, unsupported |-> 0,
               verified |-> FALSE]

\* A first line that begins with "none", or that holds a phrase of support anywhere,
\* settles it, whatever it says and whatever follows.
GroundedOutright(line) == line \in {"nothing", "none_supported", "not_all", "one_fully"}

\* The lines that are findings against the answer.
Unsupported(lines) == {i \in DOMAIN lines : lines[i] = "claim"}

GroundednessCheck(c) ==
    LET findings == Cardinality(Unsupported(c.lines))
        total == AtMostOf(Len(c.answer.text), 1)
    IN  CASE c.lines = << >> -> FailClosed
          [] c.lines # << >> /\ GroundedOutright(Head(c.lines)) ->
                [grounded |-> TRUE, confidence |-> <<1, 1>>, unsupported |-> 0,
                 verified |-> TRUE]
          [] c.lines # << >> /\ ~GroundedOutright(Head(c.lines)) /\ findings = 0 ->
                [grounded |-> TRUE, confidence |-> <<85, 100>>, unsupported |-> 0,
                 verified |-> TRUE]
          [] OTHER ->
                [grounded |-> FALSE, confidence |-> <<AtMostOf(total - findings, 0), total>>,
                 unsupported |-> findings, verified |-> TRUE]

-----------------------------------------------------------------------------
(* The response (_compute_confidence_signals, _build_answer_response).     *)

Exceeds(a, b) == a[1] * b[2] > b[1] * a[2]

LowerOf(a, b) == IF Exceeds(a, b) THEN b ELSE a

Signals(c, verdicts, check) ==
    LET valid == Judged(verdicts, {"supported"})
        dropped == Judged(verdicts, {"contradicted", "not_mentioned"})
        cited == Cardinality(valid \cup dropped)
        coverage == IF cited = 0 THEN <<0, 1>> ELSE <<Cardinality(valid), cited>>
        retrieval == IF c.chunks = << >> THEN <<0, 1>> ELSE c.relevance
    IN  [coverage |-> coverage, retrieval |-> retrieval,
         capped |-> check.verified /\ Exceeds(check.confidence, LowerOf(retrieval, coverage))]

BuildAnswerResponse(c) ==
    LET verdicts == ValidateCitations(c)
        check == IF c.answer.abstains THEN [FailClosed EXCEPT !.verified = TRUE]
                 ELSE GroundednessCheck(c)
    IN  [raised |-> FALSE, verdicts |-> verdicts,
         cited |-> Judged(verdicts, {"supported"}),
         dropped |-> Judged(verdicts, {"contradicted", "not_mentioned"}),
         abstained |-> c.answer.abstains, check |-> check,
         signals |-> Signals(c, verdicts, check)]

\* The request has no response when its answer cannot be parsed.
Respond(c) ==
    IF ParsingRaises(c.answer) THEN [raised |-> TRUE] ELSE BuildAnswerResponse(c)

\* What a sentence or a chunk says: facts, or words without a fact.
Said == {s \in [facts : SUBSET Facts, words : SUBSET Vocabulary] : s.facts = {} \/ s.words = {}}

SentenceShapes ==
    {[marker |-> m, facts |-> s.facts, words |-> s.words] :
        m \in BoundedSeq(CitedTokens, 1), s \in Said}

JudgeOff == [answers |-> FALSE, reply |-> {}]

JudgeSays(reply) == [answers |-> TRUE, reply |-> reply]

Judges == {JudgeSays(reply) : reply \in JudgeReplies} \cup {JudgeOff}

\* Any answer before one verifier and a judge of a few words, an answer of one sentence
\* before any judge, and a plain answer before any verifier.
VerificationCalls ==
    LET plain == [marker |-> << <<1>> >>, facts |-> {}, words |-> {}]
    IN  [function : {"build_answer_response"},
         answer : [text : BoundedSeq(SentenceShapes, MaxSentences), abstains : {FALSE}],
         chunks : BoundedSeq(Said, MaxChunks),
         judge : {JudgeSays({"supported"}), JudgeSays({"not_mentioned"})},
         lines : {<<"claim">>}, relevance : {<<1, 2>>}]
        \cup
        [function : {"build_answer_response"},
         answer : [text : BoundedSeq(SentenceShapes, 1), abstains : BOOLEAN],
         chunks : BoundedSeq(Said, MaxChunks), judge : Judges,
         lines : {<<"claim">>}, relevance : {<<1, 2>>}]
        \cup
        [function : {"build_answer_response"},
         answer : [text : BoundedSeq({plain}, MaxSentences), abstains : BOOLEAN],
         chunks : BoundedSeq({[facts |-> {}, words |-> {}]}, MaxChunks),
         judge : {JudgeSays({"not_mentioned"}), JudgeOff},
         lines : BoundedSeq(Lines, MaxLines), relevance : {<<1, 2>>, <<1, 1>>}]

VerificationReturns == Return("build_answer_response", LAMBDA c : {Respond(c)})

-----------------------------------------------------------------------------
(* Properties.                                                             *)

\* An answer that is not checked is one whose marker could not be read: no number, be it
\* zero, out of range or in a range that runs backwards, costs the reader the response.
RaisesOnTokensOnly ==
    result.raised => \E i \in DOMAIN call.answer.text :
        \E token \in {call.answer.text[i].marker[j] : j \in DOMAIN call.answer.text[i].marker} :
            Len(token) >= 3

\* Every number that the answer cites gets one verdict, and a source that is listed as
\* cited is one of the chunks and vouches for a sentence.  Either a judge confirmed it, in
\* words that hold "support", a denial of it included, and no phrase of contradiction or
\* absence; or each fact of each sentence that cites it is in its text, if only as a part of
\* another, and where they have no fact, all but four words of ten that they have together.
CitationsEarned ==
    /\ ~call.answer.abstains => DOMAIN result.verdicts = ParseCitations(call.answer)
    /\ result.cited \subseteq DOMAIN call.chunks
    /\ \A n \in result.cited :
        LET chunk == call.chunks[n]
            claim == ClaimForIndex(call.answer, n)
            said == Asserted(call.answer, claim, WordsOf)
        IN  /\ claim # {}
            /\ \/ /\ call.judge.answers
                  /\ call.judge.reply # {}
                  /\ call.judge.reply \subseteq {"supported", "denies"}
               \/ /\ \A i \in claim : \A f \in call.answer.text[i].facts :
                        \E g \in chunk.facts : f = g \/ <<f, g>> \in Within
                  /\ \/ \E i \in claim : call.answer.text[i].facts # {}
                     \/ 5 * Cardinality(said \ chunk.words) <= 2 * Cardinality(said)

\* A citation is dropped only by a judge whose reply holds a phrase of contradiction or
\* absence: one that is out, silent or not understood deletes nothing.
DroppedByJudge ==
    \A n \in result.dropped :
        call.judge.answers /\ call.judge.reply \cap {"contradicted", "not_mentioned"} # {}

\* Confidence is earned: none without a verification that ran, none in an abstention, and
\* less than all when a claim was found unsupported.  A claim that is not worded in passing
\* counts, unless the first line begins with "none" or holds a phrase of support; with such
\* a first line, be it "not all claims are supported", nothing counts that follows.
ConfidenceEarned ==
    LET check == result.check
        claims == \E i \in DOMAIN call.lines : call.lines[i] = "claim"
    IN  /\ ~check.verified \/ result.abstained => ~check.grounded /\ check.confidence[1] = 0
        /\ call.lines = << >> /\ ~result.abstained => ~check.verified
        /\ check.unsupported > 0 => ~check.grounded /\ Exceeds(<<1, 1>>, check.confidence)
        /\ ~result.abstained /\ claims /\ check.grounded =>
              Head(call.lines) \in {"nothing", "none_supported", "not_all", "one_fully"}
        /\ check.confidence[1] <= check.confidence[2]

\* An answer that is more certain than its evidence is marked: without a citation that
\* holds, no confidence goes unmarked.
ThinEvidenceMarked ==
    result.cited = {} /\ result.check.verified /\ result.check.confidence[1] > 0 =>
        result.signals.capped

\* What the reader is told of an answer is what was found out about it, or the reader is
\* told nothing for a marker that no parsing could read (_build_answer_response).
VerdictsEarned ==
    Of("build_answer_response") =>
        /\ RaisesOnTokensOnly
        /\ ~result.raised =>
              CitationsEarned /\ DroppedByJudge /\ ConfidenceEarned /\ ThinEvidenceMarked

=============================================================================
