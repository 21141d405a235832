---------------------------- MODULE PromptContext ----------------------------
(***************************************************************************)
(* What the model is given to read: each retrieved chunk is widened to its *)
(* neighbours in the document, and the texts are cut, lowest rank first,   *)
(* until they fit the budget of the context and then that of the prompt.   *)
(*                                                                         *)
(* A text is the sequence of the document's positions that it shows, with  *)
(* Seam where something is left out between two chunks.  For the budgets   *)
(* only lengths count.                                                     *)
(***************************************************************************)
EXTENDS Calls, Lists, SequencesExt

CONSTANTS
    Spans,          \* places of a chunk in its document, some of them unusable
    Indices,        \* chunk_index of a document's chunks
    Windows,        \* context_expansion_window
    Lengths,        \* lengths of texts, in characters
    MaxTexts,       \* bound: how many texts a prompt holds
    ContextLimits,  \* context_max_tokens
    PromptLimits,   \* gen_max_input_tokens
    Overheads,      \* characters of a prompt beside its texts
    Missing         \* a chunk that is not there, metadata that is not there

ASSUME PromptContextAssumption ==
    /\ MaxTexts \in Nat /\ Indices \subseteq Nat /\ Windows \subseteq Nat
    /\ Lengths \subseteq Nat /\ ContextLimits \subseteq Nat /\ PromptLimits \subseteq Nat
    /\ Overheads \subseteq Nat /\ Spans \subseteq Nat \X Nat

Seam == -1      \* _GAP_SEP

-----------------------------------------------------------------------------
(* The window (expand_context).                                            *)

\* The text of a chunk: what the document has in its place.
TextOf(span) == [k \in 1 .. span[2] - span[1] |-> span[1] + k - 1]

Later(a, b) == IF a > b THEN a ELSE b

\* Fault: the end of the window is that of the last chunk, not of the one that reaches
\* farthest.
JoinByLast(merged, span) ==
    [text |-> IF span[1] >= merged.end
              THEN merged.text \o (IF span[1] > merged.end THEN <<Seam>> ELSE << >>)
                      \o TextOf(span)
              ELSE merged.text \o TextOf(<<merged.end, span[2]>>),
     end |-> span[2]]

\* Of a chunk that begins before the end only what goes beyond it.
Join(merged, span) ==
    [text |-> IF span[1] >= merged.end
              THEN merged.text \o (IF span[1] > merged.end THEN <<Seam>> ELSE << >>)
                      \o TextOf(span)
              ELSE merged.text \o TextOf(<<merged.end, span[2]>>),
     end |-> Later(merged.end, span[2])]

\* _merge_spans.
MergeSpans(spans) ==
    LET last == Len(spans) - 1
        merged[k \in 0 .. last] ==
            IF k = 0 THEN [text |-> TextOf(spans[1]), end |-> spans[1][2]]
            ELSE Join(merged[k - 1], spans[k + 1])
    IN  [text |-> merged[last].text, range |-> <<spans[1][1], merged[last].end>>]

\* The chunks that can be placed: fetch_doc_chunks leaves out the others, and gives none
\* when the store cannot be read.
Placed(doc) == {i \in Indices : doc[i] # Missing}

\* By start and end; chunks with the same place keep their order.
Before(span) ==
    {p \in (DOMAIN span) \X (DOMAIN span) :
        LET a == span[p[1]]
            b == span[p[2]]
        IN  \/ a[1] < b[1]
            \/ a[1] = b[1] /\ a[2] < b[2]
            \/ a[1] = b[1] /\ a[2] = b[2] /\ p[1] < p[2]}

\* The spans in order, those with the same place as often as they occur.
Ordered(span) ==
    LET sorted == Sorted(DOMAIN span, Before(span))
    IN  [k \in DOMAIN sorted |-> span[sorted[k]]]

Single(target) == [text |-> target.text, range |-> target.span, indices |-> {target.index}]

Near(index, doc, window) == {i \in Placed(doc) : index - window <= i /\ i <= index + window}

ExpandContext(target, doc, window) ==
    LET near == Near(target.index, doc, window)
        selected == near \cup {target.index}
        span == [i \in selected |-> IF i \in near THEN doc[i] ELSE target.span]
        merged == MergeSpans(Ordered(span))
    IN  IF \/ target.index = Missing
           \/ target.index \notin near /\ target.span = Missing
           \/ \E i \in selected : span[i][2] <= span[i][1]
        THEN Single(target)
        ELSE [text |-> merged.text, range |-> merged.range, indices |-> selected]

\* A retrieved chunk: one of the document, one that the store no longer has, one without
\* a place or without an index.
Targets ==
    [index : Indices, span : Spans] \cup [index : Indices \cup {Missing}, span : {Missing}]

\* Its text is what it was indexed with.
Target(t, doc) ==
    [index |-> t.index, span |-> t.span,
     text |-> IF t.span # Missing THEN TextOf(t.span)
              ELSE IF t.index \in Indices /\ doc[t.index] # Missing THEN TextOf(doc[t.index])
              ELSE << >>]

ExpansionCalls ==
    {c \in [function : {"expand_context"}, doc : [Indices -> Spans \cup {Missing}],
            target : Targets, window : Windows] :
        c.target.index \in Indices /\ c.doc[c.target.index] # Missing /\ c.target.span # Missing
            => c.target.span = c.doc[c.target.index]}

ExpansionReturns ==
    Return("expand_context",
           LAMBDA c : {ExpandContext(Target(c.target, c.doc), c.doc, c.window)})

-----------------------------------------------------------------------------
(* The budgets (apply_token_budget, _enforce_input_budget).                *)

Floor == 80     \* characters that a text keeps at least
MarkLength == 17

Estimate(length) == length \div 4

Sum(lengths) == SumTo([i \in DOMAIN lengths |-> Estimate(lengths[i])], Len(lengths))

\* The length that is left; the mark is added whenever something is cut.
TruncateMiddle(length, remove) ==
    LET keep == Later(Floor, length - remove)
    IN  IF remove <= 0 \/ keep >= length THEN length ELSE keep + MarkLength

\* One text is cut, unless the sum fits.
Trim(texts, i, max) ==
    IF Sum(texts) <= max THEN texts
    ELSE [texts EXCEPT ![i] = TruncateMiddle(texts[i], 4 * (Sum(texts) - max))]

\* From the lowest rank up to the second.
ApplyTokenBudget(lengths, max) ==
    LET last == Len(lengths) - 1
        texts[k \in 0 .. last] ==
            IF k = 0 THEN lengths ELSE Trim(texts[k - 1], Len(lengths) - k + 1, max)
    IN  IF max <= 0 THEN lengths ELSE texts[last]

Prompt(overhead, lengths) == Estimate(overhead + SumTo(lengths, Len(lengths)))

\* What is left of the limit beside the rest of the prompt is the budget of the texts;
\* when nothing is left, the budget is none and nothing is cut.
EnforceInputBudget(overhead, lengths, max) ==
    IF max <= 0 \/ Prompt(overhead, lengths) <= max THEN lengths
    ELSE ApplyTokenBudget(lengths, Later(max - Estimate(overhead), 0))

\* The texts, widened or not, within the budget of the context.
DisplayTexts(c) == ApplyTokenBudget(c.lengths, c.context)

BuildPrompt(c) == EnforceInputBudget(c.overhead, DisplayTexts(c), c.limit)

PromptCalls ==
    [function : {"build_grounded_prompt"}, lengths : BoundedSeq(Lengths, MaxTexts) \ {<< >>},
     context : ContextLimits, limit : PromptLimits, overhead : Overheads]

PromptReturns == Return("build_grounded_prompt", LAMBDA c : {BuildPrompt(c)})

-----------------------------------------------------------------------------
(* Properties.                                                             *)

Shown(text) == Picked(text, {k \in DOMAIN text : text[k] # Seam})

\* A widened text reads as the document does: in order, nothing twice, with a seam exactly
\* where something is left out, and with all of the target in it; its range is what it
\* shows (expand_context).
ContextReadsOn ==
    Of("expand_context") =>
        LET text == result.text
            shown == Shown(text)
            target == Target(call.target, call.doc)
        IN  /\ \A k \in 1 .. Len(shown) - 1 : shown[k] < shown[k + 1]
            /\ \A k \in 2 .. Len(text) - 1 :
                  text[k] = Seam => text[k - 1] # Seam /\ text[k + 1] > text[k - 1] + 1
            /\ \A k \in 1 .. Len(text) - 1 :
                  text[k] # Seam /\ text[k + 1] # Seam => text[k + 1] = text[k] + 1
            /\ ToSet(target.text) \subseteq ToSet(text)
            /\ result.indices # {target.index} =>
                  /\ shown # << >> /\ result.range = <<shown[1], shown[Len(shown)] + 1>>
                  /\ ToSet(shown) = ToSet(target.text) \cup
                        UNION {ToSet(TextOf(call.doc[i])) :
                                  i \in result.indices \cap Placed(call.doc)}

\* The tokens that a mark may cost.
Slack == Estimate(MarkLength) + 1

\* As short as what is cut may become: it can be marked twice.
AtFloor(length) == length <= Floor + 2 * MarkLength

\* The first text is never cut, and a text is cut only when all after it were, or are short.
\* The sum keeps to the limit, give or take a mark for each text and each of the two times
\* (cutting little from a text makes it longer), and so does the prompt, where rounding may
\* hide a token of each text; unless all texts but the first are as short as they may become
\* (build_grounded_prompt, with a limit beyond its overhead).
BudgetKept ==
    Of("build_grounded_prompt") =>
        LET lower == 2 .. Len(result)
            cut == {i \in DOMAIN result : result[i] # call.lengths[i]}
        IN  /\ 1 \notin cut
            /\ \A i \in cut : \A j \in lower : j > i => j \in cut \/ AtFloor(result[j])
            /\ \/ call.context = 0
               \/ Sum(result) <= call.context + 2 * Slack * (Len(result) - 1)
               \/ \A i \in lower : AtFloor(result[i])
            /\ \/ call.limit <= Estimate(call.overhead)
               \/ Prompt(call.overhead, result) <= call.limit + (Slack + 1) * Len(result)
               \/ \A i \in lower : AtFloor(result[i])

\* What the model reads of the document, and what is left of it within the budgets.
ContextSound == ContextReadsOn /\ BudgetKept

=============================================================================
