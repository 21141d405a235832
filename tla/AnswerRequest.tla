---------------------------- MODULE AnswerRequest ----------------------------
(***************************************************************************)
(* POST /generate/answer about one document: the answer cache, retrieval   *)
(* with its one retry, generation (streamed or not), verification, and the *)
(* client that may leave, while the document is still being ingested or is *)
(* being deleted, and while other requests share the cache.                *)
(*                                                                         *)
(* Scores, prompts and texts are left out: an answer is known by the       *)
(* question, the model it was asked of and whether the verifier saw it.    *)
(* The requests share one event loop: they run one at a time and hand over *)
(* only where a stream sends.  The document changes in other threads and   *)
(* processes, at any time.                                                 *)
(***************************************************************************)
EXTENDS Integers, Sequences, FiniteSets, SequencesExt

CONSTANTS
    Requests,   \* the requests made, each once
    Chunks,     \* the chunks of the document
    Questions,  \* the normalised queries
    Models,     \* the tiers of the model picker
    TopK,       \* how many chunks retrieval returns at most
    Thin,       \* thin_result_threshold: with fewer chunks retrieval is retried
    MaxTokens,  \* bound: how many pieces an answer is streamed in at most
    MaxEntries  \* cache_max_memory_entries

ASSUME BoundsAssumption ==
    /\ TopK \in Nat \ {0} /\ Thin \in Nat
    /\ MaxTokens \in Nat \ {0} /\ MaxEntries \in Nat \ {0}

VARIABLES
    doc,        \* the document: "stored", "emptied" (by a delete) or "deleted"
    indexed,    \* its chunks in the vector store
    cache,      \* the answer cache, least recently used entry first
    pc,         \* where each request is
    req,        \* what each request keeps in memory
    events      \* the SSE events each client was sent

docVars == <<doc, indexed>>
vars == <<docVars, cache, pc, req, events>>

-----------------------------------------------------------------------------
NoAnswer == [status |-> "none"]

Answers == [status : {"verified", "unverified"}, question : Questions, model : Models]

\* A request's memory.  late: its row lookup found the document deleted.
NoReq == [stream |-> FALSE, cacheable |-> FALSE, late |-> FALSE, top |-> {},
          plain |-> FALSE, answer |-> NoAnswer]

Reqs == [question : Questions, model : Models, stream : BOOLEAN, cacheable : BOOLEAN,
         late : BOOLEAN, top : SUBSET Chunks, plain : BOOLEAN,
         answer : Answers \cup {NoAnswer}]

\* A token event carries the number of its piece of the answer.
Events == [type : {"token"}, piece : 1 .. MaxTokens]
          \cup [type : {"done", "verification"}, piece : {0}]

TypeOK ==
    /\ doc \in {"stored", "emptied", "deleted"} /\ indexed \subseteq Chunks
    /\ \A i \in DOMAIN cache : cache[i].answer \in Answers /\ cache[i].expired \in BOOLEAN
    /\ \A r \in Requests :
          /\ pc[r] \in {"new", "lookup", "retrieve", "widen", "generate", "tokens", "verify",
                        "save", "verdict", "hit", "over"}
          /\ pc[r] # "new" => req[r] \in Reqs
          /\ \A i \in DOMAIN events[r] : events[r][i] \in Events

Init ==
    /\ doc = "stored" /\ indexed = {}
    /\ cache = << >>
    /\ pc = [r \in Requests |-> "new"]
    /\ req = [r \in Requests |-> NoReq]
    /\ events = [r \in Requests |-> << >>]

-----------------------------------------------------------------------------
(* The document.  A delete that overtakes its ingestion is left to         *)
(* Ingestion: here it comes after the last chunk is indexed.               *)

Index ==
    /\ doc = "stored"
    /\ \E c \in Chunks \ indexed : indexed' = indexed \cup {c}
    /\ UNCHANGED <<doc, cache, pc, req, events>>

RemoveVectors ==
    /\ doc = "stored" /\ indexed = Chunks
    /\ indexed' = {} /\ doc' = "emptied"
    /\ UNCHANGED <<cache, pc, req, events>>

RemoveRow ==
    /\ doc = "emptied"
    /\ doc' = "deleted"
    /\ UNCHANGED <<indexed, cache, pc, req, events>>

-----------------------------------------------------------------------------
(* The cache: an OrderedDict of entries that expire.                       *)

\* Fault: the key forgets the model.
QuestionKey(q, m) == <<q>>

\* compute_cache_key; the user, the document and its version are the same throughout.
Key(q, m) == <<q, m>>

At(k) == {i \in DOMAIN cache : cache[i].key = k}

Without(k) == IF At(k) = {} THEN cache ELSE RemoveAt(cache, CHOOSE i \in At(k) : TRUE)

\* Where the live entry of key k is, if there is one.
Live(k) == {i \in At(k) : ~cache[i].expired}

\* Fault: a hit gives the pair of expiry and payload.
WholeEntry(e) == e

\* What a hit gives.
Payload(e) == e.answer

\* Fault: the entry that a new one makes too many stays.
PutOnly(k, a) == Append(Without(k), [key |-> k, answer |-> a, expired |-> FALSE])

\* The new entry comes last, and the one that is used least goes when they are too many.
Put(k, a) ==
    LET longer == Append(Without(k), [key |-> k, answer |-> a, expired |-> FALSE])
    IN  IF Len(longer) > MaxEntries THEN Tail(longer) ELSE longer

Expire ==
    /\ \E i \in DOMAIN cache :
          ~cache[i].expired /\ cache' = [cache EXCEPT ![i].expired = TRUE]
    /\ UNCHANGED <<docVars, pc, req, events>>

-----------------------------------------------------------------------------
(* A request.                                                              *)

Goto(r, label) == pc' = [pc EXCEPT ![r] = label]

\* The request ends and forgets its local variables.
Return(r) ==
    /\ Goto(r, "over")
    /\ req' = [req EXCEPT ![r].top = {}, ![r].plain = FALSE, ![r].cacheable = FALSE]

Send(r, type, piece) ==
    events' = [events EXCEPT ![r] = Append(@, [type |-> type, piece |-> piece])]

Ask(r) ==
    /\ pc[r] = "new"
    /\ \E q \in Questions, m \in Models, s \in BOOLEAN :
          req' = [req EXCEPT ![r] =
                     [question |-> q, model |-> m, stream |-> s, cacheable |-> FALSE,
                      late |-> FALSE, top |-> {}, plain |-> FALSE, answer |-> NoAnswer]]
    /\ Goto(r, "lookup")
    /\ UNCHANGED <<docVars, cache, events>>

\* Fault: the version is taken to be 1 without a look at the row.
LookupBlind(r) ==
    LET k   == Key(req[r].question, req[r].model)
        hit == Live(k)
    IN  /\ pc[r] = "lookup"
        /\ IF hit # {}
           THEN /\ \E i \in hit :
                      /\ cache' = Append(Without(k), cache[i])
                      /\ req' = [req EXCEPT ![r].answer = Payload(cache[i]),
                                            ![r].late = doc = "deleted"]
                /\ Goto(r, IF req[r].stream THEN "hit" ELSE "over")
           ELSE /\ cache' = Without(k)
                /\ req' = [req EXCEPT ![r].cacheable = TRUE, ![r].late = doc = "deleted"]
                /\ Goto(r, "retrieve")
        /\ UNCHANGED <<docVars, events>>

\* The row gives the version, and without a row nothing is cached.  A hit becomes the
\* entry used last; an expired entry is dropped.
Lookup(r) ==
    LET k   == Key(req[r].question, req[r].model)
        hit == IF doc = "deleted" THEN {} ELSE Live(k)
    IN  /\ pc[r] = "lookup"
        /\ IF hit # {}
           THEN /\ \E i \in hit :
                      /\ cache' = Append(Without(k), cache[i])
                      /\ req' = [req EXCEPT ![r].answer = Payload(cache[i])]
                /\ Goto(r, IF req[r].stream THEN "hit" ELSE "over")
           ELSE /\ cache' = IF doc = "deleted" THEN cache ELSE Without(k)
                /\ req' = [req EXCEPT ![r].cacheable = doc # "deleted",
                                      ![r].late = doc = "deleted"]
                /\ Goto(r, "retrieve")
        /\ UNCHANGED <<docVars, events>>

\* A hit is streamed as one terminal token and the verification.
SendHit(r) ==
    /\ pc[r] = "hit"
    /\ Send(r, "done", 0) /\ Goto(r, "verdict")
    /\ UNCHANGED <<docVars, cache, req>>

\* Nothing found, or an error of the stores, is a 404; a question about the whole document
\* gets all of it; any other gets TopK chunks at most and, if it is a general one and
\* they are few, another retrieval.
Retrieve(r) ==
    /\ pc[r] = "retrieve"
    /\ \/ Return(r)
       \/ /\ indexed # {}
          /\ req' = [req EXCEPT ![r].top = indexed] /\ Goto(r, "generate")
       \/ \E top \in (SUBSET indexed) \ {{}} :
             /\ Cardinality(top) <= TopK
             /\ req' = [req EXCEPT ![r].top = top]
             /\ \/ Goto(r, "generate")
                \/ Cardinality(top) < Thin /\ Goto(r, "widen")
    /\ UNCHANGED <<docVars, cache, events>>

\* Fault: retrieval is widened until there is enough.
WidenAgain(r) ==
    /\ pc[r] = "widen"
    /\ \E more \in SUBSET indexed :
          /\ Cardinality(more) <= TopK
          /\ req' = [req EXCEPT ![r].top = @ \cup more]
          /\ Goto(r, IF Cardinality(req[r].top \cup more) < Thin THEN "widen" ELSE "generate")
    /\ UNCHANGED <<docVars, cache, events>>

\* One more retrieval, with a broader query; what is new is appended.
Widen(r) ==
    /\ pc[r] = "widen"
    /\ \E more \in SUBSET indexed :
          /\ Cardinality(more) <= TopK
          /\ req' = [req EXCEPT ![r].top = @ \cup more]
    /\ Goto(r, "generate")
    /\ UNCHANGED <<docVars, cache, events>>

\* Without streaming the model is called once; an error of its is answered honestly
\* and never cached, as is a model that is not configured.
Generate(r) ==
    /\ pc[r] = "generate"
    /\ \/ Return(r)
       \/ Goto(r, IF req[r].stream THEN "tokens" ELSE "verify") /\ UNCHANGED req
    /\ UNCHANGED <<docVars, cache, events>>

Pieces(r) == Len(events[r])

Token(r) ==
    /\ pc[r] = "tokens"
    /\ IF req[r].plain THEN Pieces(r) = 0 ELSE Pieces(r) < MaxTokens
    /\ Send(r, "token", Pieces(r) + 1)
    /\ UNCHANGED <<docVars, cache, pc, req>>

\* Fault: a stream that breaks is begun again with the plain call.
FallBackLate(r) ==
    /\ pc[r] = "tokens" /\ ~req[r].plain
    /\ req' = [req EXCEPT ![r].plain = TRUE]
    /\ IF Pieces(r) > 0 THEN Send(r, "token", 1) ELSE UNCHANGED events
    /\ UNCHANGED <<docVars, cache, pc>>

\* The stream fails on its first piece, or there is none to be had: the plain call
\* takes over and gives the answer in one piece.
FallBack(r) ==
    /\ pc[r] = "tokens" /\ ~req[r].plain /\ Pieces(r) = 0
    /\ req' = [req EXCEPT ![r].plain = TRUE]
    /\ UNCHANGED <<docVars, cache, pc, events>>

\* The plain call fails as well: a terminal token and an error for a verification.
StreamError(r) ==
    /\ pc[r] = "tokens" /\ req[r].plain /\ Pieces(r) = 0
    /\ Send(r, "done", 0) /\ Goto(r, "verdict")
    /\ UNCHANGED <<docVars, cache, req>>

\* The answer is complete, empty, or broken off after its first pieces: the terminal
\* token carries what there is.
EndStream(r) ==
    /\ pc[r] = "tokens"
    /\ Send(r, "done", 0) /\ Goto(r, "verify")
    /\ UNCHANGED <<docVars, cache, req>>

\* Citations and groundedness; without an answer of the verifier the reply carries
\* error = "verification_unavailable".  A marker that is no range of numbers raises: the
\* request ends with an error, the stream without its verification.
Verify(r) ==
    /\ pc[r] = "verify"
    /\ \/ Return(r)
       \/ /\ \E s \in {"verified", "unverified"} :
                req' = [req EXCEPT ![r].answer =
                           [status |-> s, question |-> req[r].question, model |-> req[r].model]]
          /\ Goto(r, "save")
    /\ UNCHANGED <<docVars, cache, events>>

Save(r) ==
    /\ pc[r] = "save"
    /\ cache' = IF req[r].cacheable
                THEN Put(Key(req[r].question, req[r].model), req[r].answer) ELSE cache
    /\ IF req[r].stream THEN Goto(r, "verdict") /\ UNCHANGED req ELSE Return(r)
    /\ UNCHANGED <<docVars, events>>

SendVerdict(r) ==
    /\ pc[r] = "verdict"
    /\ Send(r, "verification", 0) /\ Return(r)
    /\ UNCHANGED <<docVars, cache>>

\* Where a stream sends, or before a request begins and after it ends, the others run.
HandsOver(r) ==
    \/ pc[r] \in {"new", "hit", "tokens", "verdict", "over"}
    \/ pc[r] = "verify" /\ req[r].stream

OnLoop(r) == \A o \in Requests \ {r} : HandsOver(o)

\* The client leaves, which a stream notices where it sends and the plain call never.
Disconnect(r) ==
    /\ HandsOver(r) /\ pc[r] \notin {"new", "over"}
    /\ Return(r)
    /\ UNCHANGED <<docVars, cache, events>>

-----------------------------------------------------------------------------
Document == Index \/ RemoveVectors \/ RemoveRow

Step(r) ==
    /\ OnLoop(r)
    /\ \/ Lookup(r) \/ SendHit(r) \/ Retrieve(r) \/ Widen(r) \/ Generate(r)
       \/ Token(r) \/ FallBack(r) \/ StreamError(r) \/ EndStream(r)
       \/ Verify(r) \/ Save(r) \/ SendVerdict(r)

Client(r) == OnLoop(r) /\ (Ask(r) \/ Disconnect(r))

Next == Document \/ Expire \/ \E r \in Requests : Step(r) \/ Client(r)

Spec == Init /\ [][Next]_vars

\* The event loop serves every request; clients, users and clocks owe nothing.
FairSpec == Spec /\ \A r \in Requests : WF_vars(Step(r))

-----------------------------------------------------------------------------
(* Properties.                                                             *)

\* The cache never exceeds its bound and has one entry per key, whatever hits, stores,
\* evictions and expiries of several requests come between (InMemoryAnswerCache).
CacheBounded ==
    /\ Len(cache) <= MaxEntries
    /\ \A i, j \in DOMAIN cache : cache[i].key = cache[j].key => i = j

\* A request is answered with an answer to its own question by its own model, out of the
\* cache or not (compute_cache_key).
OwnAnswer ==
    \A r \in Requests :
        req[r].answer # NoAnswer =>
            req[r].answer.question = req[r].question /\ req[r].answer.model = req[r].model

\* A request made after the document was deleted gets no answer from it, though the
\* cache keeps its entries (_resolve_doc_version).
DeletedNotServed ==
    \A r \in Requests : req[r].late => req[r].answer = NoAnswer /\ events[r] = << >>

\* A client is sent the pieces of one answer in order and each once, then one terminal
\* token, then one verification, and nothing after it, wherever the provider fails
\* (event_generator, stream_generation).
StreamWellFormed ==
    \A r \in Requests :
        LET e == events[r]
        IN  \A i \in DOMAIN e :
               /\ e[i].type = "token" => e[i].piece = i
               /\ e[i].type = "done" => \A j \in 1 .. i - 1 : e[j].type = "token"
               /\ e[i].type = "verification" => i = Len(e) /\ i > 1 /\ e[i - 1].type = "done"

\* Every request comes to its end: retrieval is widened once and never in a loop.
Answered == \A r \in Requests : pc[r] = "lookup" ~> pc[r] = "over"

\* What the cache holds is a valid answer and no error: the comment of
\* generate_answer_endpoint on what is never cached, which the code does not keep.
NoErrorCached == \A i \in DOMAIN cache : cache[i].answer.status # "unverified"

=============================================================================
