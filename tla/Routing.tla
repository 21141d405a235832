------------------------------- MODULE Routing -------------------------------
(***************************************************************************)
(* What a question is answered from.  It is classified by the cues in it:  *)
(* how it reads, the shape its answer must take, and whether it is about   *)
(* the whole document.  Such a question about one document is given all of *)
(* the document's chunks, any other the best of what the search finds,     *)
(* with one broader search when that is little.                            *)
(*                                                                         *)
(* A question is the set of the cues it contains; two cues may be one word *)
(* of the text.                                                            *)
(***************************************************************************)
EXTENDS Ranking

CONSTANTS
    ReadOrders,     \* how the store may return the chunks of a document, each an index
    ThinThreshold,  \* thin_result_threshold
    WholeCap        \* scope_whole_doc_max_chunks; 0 for none

ASSUME RoutingAssumption ==
    /\ {ThinThreshold, WholeCap} \subseteq Nat
    /\ \A order \in ReadOrders : order \in Seq(Nat) /\ ToSet(order) = 1 .. Len(order)

-----------------------------------------------------------------------------
(* Classification (query_classifier).                                      *)

\* In the order in which they are looked for.
TaskTriggers == <<"table", "classify", "critique", "infer", "enumerate", "summarize">>

QueryCues == {"analytical", "definitional", "heading", "short", "question"}

Cues == ToSet(TaskTriggers) \cup QueryCues \cup {"global"}

\* A heading is short and asks nothing.
ClassifyQuery(cues) ==
    IF "analytical" \in cues THEN "analytical"
    ELSE IF "definitional" \in cues THEN "definitional"
    ELSE IF {"heading", "short"} \subseteq cues /\ "question" \notin cues THEN "navigational"
    ELSE "informational"

\* The first list of triggers with a hit.
ClassifyTask(cues) ==
    LET hits == {i \in DOMAIN TaskTriggers : TaskTriggers[i] \in cues}
    IN  IF hits = {} THEN "answer" ELSE TaskTriggers[Lowest(hits)]

ClassifyScope(cues) ==
    IF ClassifyTask(cues) # "answer" \/ "global" \in cues THEN "global" ELSE "local"

-----------------------------------------------------------------------------
(* Retrieval (generate_answer_endpoint).                                   *)

\* In reading order; the store returns the chunks in any order, or fails.
FetchWholeDocument(c) ==
    IF c.readFails THEN << >>
    ELSE Ascending(ToSet(c.document))

CapWhole(chunks) == IF WholeCap = 0 THEN chunks ELSE TopOf(chunks, WholeCap)

\* Fault: the cap is the limit of the read, before the chunks are put in order.
WholeOfLimited(c) ==
    FetchWholeDocument([c EXCEPT !.document = CapWhole(c.document)])

WholeDocument(c) == CapWhole(FetchWholeDocument(c))

\* One more search, with a broader question, when there is little to answer from; what it
\* finds in addition comes after.
Retried(c, top) ==
    LET thin == Len(top) < ThinThreshold
                   /\ ClassifyQuery(c.cues) \in {"definitional", "informational"}
        extra == TopOf(c.broader, c.top)
    IN  IF thin /\ c.broadens
        THEN top \o Picked(extra, {k \in DOMAIN extra : extra[k] \notin ToSet(top)})
        ELSE top

\* A whole document, or the search; the 404 is the empty evidence.
RetrieveEvidence(c) ==
    LET scope == IF c.routing THEN ClassifyScope(c.cues) ELSE "local"
        whole == IF scope = "global" /\ c.oneDocument THEN WholeDocument(c) ELSE << >>
        top == IF c.found = << >> THEN << >> ELSE Retried(c, TopOf(c.found, c.top))
    IN  IF whole # << >>
        THEN [evidence |-> whole, whole |-> TRUE, thin |-> FALSE, scope |-> scope]
        ELSE [evidence |-> top, whole |-> FALSE, thin |-> Len(top) < 2, scope |-> scope]

\* The chunks of a document are their indices.  At most two cues, and one where the search
\* is retried.
RetrieveCalls ==
    {c \in [function : {"retrieve"}, cues : {{x, y} : x, y \in Cues} \cup {{}},
            oneDocument : BOOLEAN, routing : BOOLEAN, readFails : BOOLEAN,
            document : ReadOrders,
            found : FirstRankings,
            broader : RankingsOf(Chunks, 2), broadens : BOOLEAN, top : Tops] :
        /\ ~c.broadens => c.broader = << >>
        /\ Cardinality(c.cues) = 2 => ~c.broadens
        /\ ~c.oneDocument => c.document = << >> /\ ~c.readFails
        /\ c.document = << >> => ~c.readFails}

RetrieveReturns == Return("retrieve", LAMBDA c : {RetrieveEvidence(c)})

-----------------------------------------------------------------------------
(* Properties.                                                             *)

\* A question about a whole document that can be read gets the document from its beginning,
\* in reading order and without a gap; a document that cannot be read, or holds nothing,
\* leaves what the search found, whose best stay ahead of what a broader question adds, none
\* of them twice.  Only a question with a cue for it is taken as one about the whole
\* document, and the evidence is called thin only when it is (generate_answer_endpoint).
EvidenceRouted ==
    Of("retrieve") =>
        LET evidence == result.evidence
            n == Len(evidence)
            wants == call.cues \cap ({"global"} \cup ToSet(TaskTriggers)) # {}
            best == TopOf(call.found, call.top)
        IN  /\ Cardinality(ToSet(evidence)) = n
            /\ result.whole <=>
                  wants /\ call.routing /\ call.oneDocument
                  /\ call.document # << >> /\ ~call.readFails
            /\ result.whole =>
                  /\ evidence = [i \in 1 .. n |-> i]
                  /\ n = Len(call.document) \/ n = WholeCap
            /\ ~result.whole =>
                  /\ TopOf(evidence, Len(best)) = best
                  /\ n < ThinThreshold + call.top \/ n = call.top
                  /\ call.found = << >> => evidence = << >>
                  /\ ToSet(evidence) \subseteq ToSet(best) \cup ToSet(call.broader)
            /\ result.thin <=> ~result.whole /\ n < 2

\* What a question is answered from is what it asks for, best first.
RetrievalSound == FusionFair /\ SecondOpinion /\ DiversityFair /\ EvidenceRouted

=============================================================================
