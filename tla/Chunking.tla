------------------------------ MODULE Chunking ------------------------------
(***************************************************************************)
(* The chunker: pages are joined, the text is cut by one of three          *)
(* strategies, what is too long for the embedding model is cut again, and  *)
(* each piece is given its place and its pages.                            *)
(*                                                                         *)
(* A text is a length and the set of its blank positions, counted from 0.  *)
(* A word, here also a sentence, is a run without blanks, and a paragraph  *)
(* ends at two blanks or more.  A span is a pair of a start and of an end  *)
(* that is not part of it.                                                 *)
(*                                                                         *)
(* A tokenizer reads a word from where it begins, and begins a further     *)
(* piece of it after some numbers of characters, its cuts: which letters   *)
(* they are is left out.  The rest of a word, read alone, is read as a     *)
(* word is, and so not in the pieces it had as a part.                     *)
(***************************************************************************)
EXTENDS Calls, Lists, SequencesExt

CONSTANTS
    Pages,      \* what a page may be: its length and its blanks
    MaxPages,   \* bound: how many pages a document has at most
    Sizes,      \* sizes of a chunk
    Overlaps,   \* overlaps of two chunks
    Budgets,    \* embed_max_tokens
    Tokenizers  \* the tokenizer that is there: its kind ("model", "tiktoken" or "chars"), and
                \* its cuts

ASSUME ChunkingAssumption ==
    /\ MaxPages \in Nat /\ Sizes \subseteq Nat \ {0} /\ Overlaps \subseteq Nat
    /\ Budgets \subseteq Nat /\ \A tokenizer \in Tokenizers : tokenizer.cuts \subseteq Nat
    /\ \A page \in Pages : page.len \in Nat

Separator == 2      \* len(PAGE_SEPARATOR)
Reserved == 2       \* _RESERVED_SPECIAL
CharsPerToken == 4  \* _CHARS_PER_TOKEN
CarriedSentences == 2   \* the default of sentence_overlap

-----------------------------------------------------------------------------
(* join_pages.                                                             *)

Shift(S, k) == {p + k : p \in S}

AtLeast(a, b) == IF a < b THEN b ELSE a
AtMost(a, b) == IF a > b THEN b ELSE a

\* Where a page begins.
Offset(pages, i) == SumTo([k \in DOMAIN pages |-> pages[k].len + Separator], i - 1)

\* The place of each page in the joined text.
PageSpans(pages) ==
    [i \in DOMAIN pages |-> <<Offset(pages, i), Offset(pages, i) + pages[i].len>>]

JoinPages(pages) ==
    LET spans == PageSpans(pages)
        length == spans[Len(pages)][2]
        written == UNION {Shift((0 .. pages[i].len - 1) \ pages[i].blank, spans[i][1]) :
                             i \in DOMAIN pages}
    IN  [len |-> length, blank |-> (0 .. length - 1) \ written]

-----------------------------------------------------------------------------
(* The strategies.                                                         *)

Chars(span) == span[1] .. span[2] - 1

Words(text, span) == Chars(span) \ text.blank

\* Where the run of positions in S that begins with p ends.
EndOf(S, p) ==
    CHOOSE q \in {r + 1 : r \in S} : p < q /\ q \notin S /\ p .. q - 1 \subseteq S

\* The maximal runs of positions in S, in order.
Runs(S) ==
    LET starts == Ascending({p \in S : p - 1 \notin S})
    IN  [i \in DOMAIN starts |-> <<starts[i], EndOf(S, starts[i])>>]

\* The words of a span in runs: its sentences.
Sentences(text, span) == Runs(Words(text, span))

\* A blank that lies in a run of two or more.
Break(text, p) ==
    p \in text.blank /\ (p - 1 \in text.blank \/ p + 1 \in text.blank)

\* What lies between paragraph breaks.
Blocks(text) == Runs({p \in 0 .. text.len - 1 : ~Break(text, p)})

\* The spans that are not blank.
NotBlank(text, spans) == Picked(spans, {k \in DOMAIN spans : Words(text, spans[k]) # {}})

Paragraphs(text) == NotBlank(text, Blocks(text))

\* How many windows of a size that begin a step apart there are up to the first that reaches
\* the end.
WindowCount(length, size, step) == 1 + (AtLeast(length - size, 0) + step - 1) \div step

\* Fault: an overlap that leaves a gap.
FixedSizeGap(text, size, overlap) ==
    LET step == size + AtMost(overlap, size - 1)
    IN  IF text.len = 0 THEN << >>
        ELSE [w \in 1 .. WindowCount(text.len, size, step) |->
                 <<(w - 1) * step, AtMost((w - 1) * step + size, text.len)>>]

\* Windows of a size that overlap.
FixedSize(text, size, overlap) ==
    LET step == size - AtMost(overlap, size - 1)
    IN  IF text.len = 0 THEN << >>
        ELSE [w \in 1 .. WindowCount(text.len, size, step) |->
                 <<(w - 1) * step, AtMost((w - 1) * step + size, text.len)>>]

\* Where a loop over the indices of a list comes by, when it goes on from i to next[i].
Visited(next) ==
    LET n == Len(next)
        at[k \in 0 .. n] ==
            IF k = 0 THEN 1 ELSE IF at[k - 1] > n THEN at[k - 1] ELSE next[at[k - 1]]
    IN  {at[k] : k \in 0 .. n} \cap (1 .. n)

\* The last of the units from i on that a chunk which begins with i takes in.
Reach(units, i, max) ==
    CHOOSE j \in i .. Len(units) :
        /\ \A k \in i + 1 .. j : units[k][2] - units[i][1] <= max
        /\ j < Len(units) => units[j + 1][2] - units[i][1] > max

\* Whole sentences up to a length, or one that is longer; the next chunk begins some
\* sentences before the end of this one, but after its start.
SentenceChunk(units, max, overlap) ==
    LET next == [i \in DOMAIN units |-> AtLeast(i + 1, Reach(units, i, max) + 1 - overlap)]
        from == Ascending(Visited(next))
    IN  [p \in DOMAIN from |-> <<units[from[p]][1], units[Reach(units, from[p], max)][2]>>]

Oversized(span, max) == span[2] - span[1] > max

\* The last of the paragraphs from i on that a chunk which begins with i takes in.
LastOf(paras, i, max) ==
    CHOOSE j \in i .. Len(paras) :
        /\ \A k \in i + 1 .. j : ~Oversized(paras[k], max) /\ paras[k][2] - paras[i][1] <= max
        /\ j < Len(paras) => \/ Oversized(paras[j + 1], max)
                             \/ paras[j + 1][2] - paras[i][1] > max

\* Whole paragraphs up to a length; one that is longer is cut by its sentences.
ParagraphChunk(text, max, overlap) ==
    LET paras == Paragraphs(text)
        next == [i \in DOMAIN paras |->
                    IF Oversized(paras[i], max) THEN i + 1
                    ELSE AtLeast(i + 1, LastOf(paras, i, max) + 1 - overlap)]
        from == Ascending(Visited(next))
        chunks(i) == IF Oversized(paras[i], max)
                     THEN SentenceChunk(Sentences(text, paras[i]), max, CarriedSentences)
                     ELSE << <<paras[i][1], paras[LastOf(paras, i, max)][2]>> >>
    IN  Flat([p \in DOMAIN from |-> chunks(from[p])])

Split(text, strategy, size, overlap) ==
    CASE strategy = "fixed" -> FixedSize(text, size, overlap)
      [] strategy = "sentence" ->
            SentenceChunk(Sentences(text, <<0, text.len>>), size, overlap)
      [] strategy = "paragraph" -> ParagraphChunk(text, size, overlap)

-----------------------------------------------------------------------------
(* The token guard and the assembly.                                       *)

\* In a span, the characters from s to p are all of a word, or all blank, and s is the first.
Leads(text, span, s, p) ==
    /\ \A q \in s .. p : q \in text.blank <=> p \in text.blank
    /\ s = span[1] \/ ~(s - 1 \in text.blank <=> p \in text.blank)

\* What is in tokens: the model's tokenizer leaves blanks out.
ReadIn(text, span, tokenizer) ==
    IF tokenizer.kind = "model" THEN Words(text, span) ELSE Chars(span)

\* Where tokens begin; the last resort takes every character for a part of one.
TokenStarts(text, span, tokenizer) ==
    {p \in ReadIn(text, span, tokenizer) :
        \/ tokenizer.kind = "chars"
        \/ \E s \in span[1] .. p : p - s \in {0} \cup tokenizer.cuts /\ Leads(text, span, s, p)}

\* Where the token that begins with p ends.
TokenEnd(text, span, tokenizer, p) ==
    EndOf(ReadIn(text, span, tokenizer) \ (TokenStarts(text, span, tokenizer) \ {p}), p)

PerToken(tokenizer) == IF tokenizer.kind = "chars" THEN CharsPerToken ELSE 1

CountTokens(text, span, tokenizer) ==
    IF Chars(span) = {} THEN 0
    ELSE Cardinality(TokenStarts(text, span, tokenizer)) \div PerToken(tokenizer) + Reserved

\* Windows of tokens: from the beginning of the first to the end of the last.
SplitByTokens(text, span, max, overlap, tokenizer) ==
    LET starts == Ascending(TokenStarts(text, span, tokenizer))
        budget == AtLeast(max - Reserved, 1)
        step == PerToken(tokenizer) * AtLeast(budget - AtLeast(overlap, 0), 1)
        size == PerToken(tokenizer) * budget
    IN  IF max <= 0 \/ CountTokens(text, span, tokenizer) <= max THEN <<span>>
        ELSE [w \in 1 .. WindowCount(Len(starts), size, step) |->
                 <<starts[(w - 1) * step + 1],
                   TokenEnd(text, span, tokenizer,
                            starts[AtMost((w - 1) * step + size, Len(starts))])>>]

\* The pages that a piece has part in.
PagesOf(spans, piece) ==
    Ascending({i \in DOMAIN spans : piece[1] < spans[i][2] /\ piece[2] > spans[i][1]})

ChunkDocument(c) ==
    LET text == JoinPages(c.pages)
        written == NotBlank(text, Split(text, c.strategy, c.size, c.overlap))
        pieces == Flat([i \in DOMAIN written |->
                           SplitByTokens(text, written[i], c.budget, c.tokenOverlap,
                                         c.tokenizer)])
        chunk(piece) ==
            LET pages == PagesOf(PageSpans(c.pages), piece)
            IN  [span |-> piece, page |-> IF pages = << >> THEN 1 ELSE pages[1],
                 pages |-> pages, tokens |-> CountTokens(text, piece, c.tokenizer)]
    IN  IF c.pages = << >> THEN << >> ELSE [i \in DOMAIN pieces |-> chunk(pieces[i])]

ChunkingCalls ==
    [function : {"chunk_document"}, pages : BoundedSeq(Pages, MaxPages),
     strategy : {"fixed", "sentence", "paragraph"}, size : Sizes, overlap : Overlaps,
     budget : Budgets, tokenOverlap : Overlaps, tokenizer : Tokenizers]

ChunkingReturns == Return("chunk_document", LAMBDA c : {ChunkDocument(c)})

-----------------------------------------------------------------------------
(* Properties.                                                             *)

Joined == JoinPages(call.pages)

\* No written character of the document is left out of all chunks.
EverythingChunked ==
    call.pages # << >> =>
        (0 .. Joined.len - 1) \ Joined.blank \subseteq
            UNION {Chars(result[i].span) : i \in DOMAIN result}

\* Each chunk lies in the text, and holds a word unless the tokenizer reads blanks too.  The
\* pages of one with a word are those whose words it holds, or touches with blanks, in order
\* and without a gap, and its page is the first of them.
ChunksPlaced ==
    \A i \in DOMAIN result :
        LET chunk == result[i] IN
        /\ 0 <= chunk.span[1] /\ chunk.span[2] <= Joined.len
        /\ call.tokenizer.kind = "model" => Words(Joined, chunk.span) # {}
        /\ Words(Joined, chunk.span) # {} =>
              /\ chunk.page = chunk.pages[1]
              /\ \A k \in DOMAIN chunk.pages : chunk.pages[k] = chunk.page + k - 1
              /\ \A p \in Words(Joined, chunk.span) :
                    \E k \in DOMAIN chunk.pages :
                        p \in Chars(PageSpans(call.pages)[chunk.pages[k]])

\* A span begins inside a word, or inside blanks.
Torn(text, span) ==
    span[1] > 0 /\ (span[1] - 1 \in text.blank <=> span[1] \in text.blank)

\* A chunk that is longer in tokens than the model reads, if the model reads any, begins
\* inside a word, where the tokenizer reads it otherwise than when it was cut.
ChunksFit ==
    call.budget > Reserved =>
        \A i \in DOMAIN result : result[i].tokens > call.budget =>
            call.tokenizer.kind # "chars" /\ Torn(Joined, result[i].span)

\* No two chunks have one place, and so one id, unless a chunk was cut by its tokens: the
\* pieces of two that overlap may then coincide.
ChunkIdsDiffer ==
    LET text == Joined
        whole == Split(text, call.strategy, call.size, call.overlap)
    IN  (\A i \in DOMAIN whole :
            call.budget = 0 \/ CountTokens(text, whole[i], call.tokenizer) <= call.budget) =>
            \A i, j \in DOMAIN result : result[i].span = result[j].span => i = j

\* What chunking promises to what comes after it, for every strategy, size, overlap and
\* tokenizer: nothing is lost, every chunk can be found and traced to its pages, none is cut
\* off by the embedding model unless it begins inside a word, and ids are unique where they
\* can be (chunk_document).
ChunksSound ==
    Of("chunk_document") =>
        EverythingChunked /\ ChunksPlaced /\ ChunksFit
            /\ (call.pages # << >> => ChunkIdsDiffer)

=============================================================================
