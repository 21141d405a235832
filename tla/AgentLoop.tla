------------------------------ MODULE AgentLoop ------------------------------
(***************************************************************************)
(* POST /generate/agent: a planning model chooses what to retrieve, one    *)
(* tool call per step, until it is content, errs or goes in circles; then  *)
(* the answer is generated from what was collected, and verified.          *)
(*                                                                         *)
(* A passage is a pair of its document and its place in it.  What the      *)
(* planner writes is a record of what parse_action and the tools tell      *)
(* apart, and what a search returns is any list of passages in its scope.  *)
(***************************************************************************)
EXTENDS Integers, Sequences, FiniteSets

CONSTANTS
    AgentDocs,      \* the user's documents
    Length,         \* how many passages each of them has
    Searches,       \* the queries a planner may ask, Question among them
    Question,       \* the user's question
    MaxSteps,       \* agent_max_steps
    AskedWidth,     \* top_k of the request
    DefaultWidth,   \* top_k of retrieve_docs when the planner gives none
    MaxWidth,       \* _MAX_TOP_K
    AgentTokens,    \* bound: how many pieces the answer is streamed in at most
    Nothing         \* no document, no argument

ASSUME AgentAssumption ==
    /\ MaxSteps \in Nat /\ Length \in Nat /\ AgentTokens \in Nat
    /\ {AskedWidth, DefaultWidth, MaxWidth} \subseteq Nat \ {0}
    /\ Question \in Searches

VARIABLES
    request,    \* what was asked for: scope, documents, permitted tools, mode
    stage,      \* "plan", "fallback", "evidence", "write", "verify", "over", "failed"
    history,    \* the executed steps (AgentState.history)
    collected,  \* the passages gathered, first seen first (AgentState.collected)
    seenCalls,  \* the calls made so far
    sent        \* what the client was sent

agentVars == <<request, stage, history, collected, seenCalls, sent>>

-----------------------------------------------------------------------------
Tools == {"retrieve_docs", "fetch_document"}

Invented == "document_0"

Passages == AgentDocs \X (1 .. Length)

\* Fault: the passages are counted from zero.
WholeFromZero(d) == IF d \in AgentDocs THEN [i \in 1 .. Length |-> <<d, i - 1>>] ELSE << >>

Whole(d) == IF d \in AgentDocs THEN [i \in 1 .. Length |-> <<d, i>>] ELSE << >>

\* A document that is asked for by name, by a name made up, or not at all.
DocNames == AgentDocs \cup {Invented, Nothing}

\* The arguments of a call: a blank query is a query of spaces or none at all; odd
\* arguments are a width that is no number or a name that the tool does not have.
Arguments ==
    [tool : {"retrieve_docs"}, query : Searches \cup {Nothing}, width : {0, MaxWidth + 1},
     odd : BOOLEAN]
    \cup [tool : {"fetch_document"}, doc : DocNames, odd : BOOLEAN]

\* What a planner may write: nothing that holds a JSON action, an action without a
\* proper name or with arguments that are no object, "finish", or a call, perhaps of
\* a tool that does not exist.
Replies ==
    [kind : {"prose", "nameless", "misshapen", "finish", "stranger"}]
    \cup [kind : {"call"}, args : Arguments]

\* parse_action: "stranger" is a call of an unknown tool.
ParseAction(reply) ==
    CASE reply.kind \in {"prose", "nameless", "misshapen"} -> "error"
      [] reply.kind = "finish" -> "finish"
      [] OTHER -> "call"

\* Only retrieve_docs has a required argument.
RequiredMissing(args) == args.tool = "retrieve_docs" /\ args.query = Nothing

\* int(top_k or 5), between one and the upper bound.
Width(k) ==
    LET asked == IF k = 0 THEN DefaultWidth ELSE k
    IN  IF asked > MaxWidth THEN MaxWidth ELSE asked

\* A name that is known is taken as it is; else the document in scope, else the only one.
ResolveDoc(asked) ==
    CASE asked \in request.available -> asked
      [] asked \notin request.available /\ request.scope # Nothing -> request.scope
      [] asked \notin request.available /\ request.scope = Nothing
            /\ Cardinality(request.available) = 1 ->
               CHOOSE d \in request.available : TRUE
      [] OTHER -> asked

InScope == {p \in Passages : request.scope = Nothing \/ p[1] = request.scope}

\* Lists of at most n distinct passages: what hybrid search and the reranker may give.
Rankings(n) ==
    {s \in UNION {[1 .. k -> InScope] : k \in 0 .. n} :
        \A i, j \in DOMAIN s : s[i] = s[j] => i = j}

\* A search that fails gives less or nothing; a document that cannot be read gives nothing.
Findings(args) ==
    IF args.tool = "retrieve_docs" THEN Rankings(Width(args.width))
    ELSE {Whole(ResolveDoc(args.doc)), << >>}

Known(p, passages) == \E i \in DOMAIN passages : passages[i] = p

\* Fault: duplicates are told apart by nothing.
AddAll(found) == collected \o found

\* add_chunks: one after the other, a chunk that is not collected yet is appended.
AddChunks(found) ==
    LET added[n \in 0 .. Len(found)] ==
            IF n = 0 THEN collected
            ELSE IF Known(found[n], added[n - 1]) THEN added[n - 1]
            ELSE Append(added[n - 1], found[n])
    IN  added[Len(found)]

-----------------------------------------------------------------------------
AgentTypeOK ==
    /\ request.scope \in AgentDocs \cup {Nothing} /\ request.available \subseteq AgentDocs
    /\ request.allowed \subseteq Tools /\ request.stream \in BOOLEAN
    /\ stage \in {"plan", "fallback", "evidence", "write", "verify", "over", "failed"}
    /\ \A i \in DOMAIN history :
          /\ history[i].status \in {"ok", "error"} /\ history[i].fallback \in BOOLEAN
          /\ \A j \in DOMAIN history[i].found : history[i].found[j] \in Passages
    /\ \A i \in DOMAIN collected : collected[i] \in Passages
    /\ seenCalls \subseteq Arguments
    /\ \A i \in DOMAIN sent : sent[i] \in {"step", "token", "done", "verification"}

\* The documents that are ready, those in scope only when there is a scope; an empty
\* list of permitted tools permits all.
AgentInit ==
    /\ \E scope \in AgentDocs \cup {Nothing}, ready \in SUBSET AgentDocs,
          allowed \in (SUBSET Tools) \ {{}}, stream \in BOOLEAN :
          request = [scope |-> scope,
                     available |-> IF scope = Nothing THEN ready ELSE ready \cap {scope},
                     allowed |-> allowed, stream |-> stream]
    /\ stage = "plan"
    /\ history = << >> /\ collected = << >> /\ seenCalls = {} /\ sent = << >>

-----------------------------------------------------------------------------
(* The loop (agent_events).                                                *)

Steps == Len(history)

\* Fault: the cap is looked at only after the step.
PlanningLate == stage = "plan" /\ Steps <= MaxSteps

Planning == stage = "plan" /\ Steps < MaxSteps

\* Where a loop ends, with evidence or without.
Leave(found) == IF found = << >> THEN "fallback" ELSE "evidence"

Record(step) ==
    /\ history' = Append(history, step)
    /\ sent' = IF request.stream THEN Append(sent, "step") ELSE sent

ErrorStep == [status |-> "error", found |-> << >>, fallback |-> FALSE]

\* A step that is recorded as an error; the loop goes on or ends.
Err(ends) ==
    /\ Record(ErrorStep)
    /\ stage' = IF ends THEN Leave(collected) ELSE "plan"
    /\ UNCHANGED <<request, collected, seenCalls>>

\* Fault: the fallback is reached from the loop's breaks only.
CapReachedWithEvidence ==
    /\ stage = "plan" /\ ~Planning /\ collected # << >>
    /\ stage' = "evidence"
    /\ UNCHANGED <<request, history, collected, seenCalls, sent>>

CapReached ==
    /\ stage = "plan" /\ ~Planning
    /\ stage' = Leave(collected)
    /\ UNCHANGED <<request, history, collected, seenCalls, sent>>

\* The call of the planning model fails.
PlannerFails == Planning /\ Err(TRUE)

Finish ==
    /\ Planning
    /\ \E reply \in Replies : ParseAction(reply) = "finish"
    /\ stage' = Leave(collected)
    /\ UNCHANGED <<request, history, collected, seenCalls, sent>>

\* The loop ends when at most one step came before: the history is cut by its last step,
\* and this step is not in it yet.
ParseError ==
    /\ Planning
    /\ \E reply \in Replies : ParseAction(reply) = "error"
    /\ Err(Steps <= 1)

\* An unknown tool, one that is not permitted, or one whose query is missing.
Refused ==
    /\ Planning
    /\ \E reply \in Replies :
          /\ ParseAction(reply) = "call"
          /\ \/ reply.kind = "stranger"
             \/ reply.kind = "call" /\ reply.args.tool \notin request.allowed
             \/ reply.kind = "call" /\ RequiredMissing(reply.args)
    /\ Err(FALSE)

Callable(args) == args.tool \in request.allowed /\ ~RequiredMissing(args)

Repeated(args) == args \in seenCalls

RepeatedCall ==
    /\ Planning
    /\ \E args \in Arguments : Callable(args) /\ Repeated(args)
    /\ Err(TRUE)

\* _run_tool; a call that adds nothing when there is evidence already ends the loop.
Call ==
    /\ Planning
    /\ \E args \in Arguments :
          /\ Callable(args) /\ ~Repeated(args) /\ ~args.odd
          /\ seenCalls' = seenCalls \cup {args}
          /\ \E found \in Findings(args) :
                /\ collected' = AddChunks(found)
                /\ Record([status |-> "ok", found |-> found, fallback |-> FALSE])
                /\ stage' = IF collected' = collected /\ collected # << >>
                            THEN "evidence" ELSE "plan"
    /\ UNCHANGED request

\* An argument that the tool does not take, or a reranker that cannot be loaded: the
\* exception leaves the loop, and a stream breaks off.
ToolRaises ==
    /\ Planning
    /\ \E args \in Arguments :
          /\ Callable(args) /\ ~Repeated(args)
          /\ args.odd \/ args.tool = "retrieve_docs"
    /\ stage' = "failed"
    /\ UNCHANGED <<request, history, collected, seenCalls, sent>>

\* Fault: the fallback is a step like any other and keeps to the cap.
FallBackWithinCap ==
    /\ stage = "fallback"
    /\ IF Steps < MaxSteps
       THEN \E found \in Rankings(Width(AskedWidth)) :
               /\ collected' = found
               /\ Record([status |-> "ok", found |-> found, fallback |-> TRUE])
       ELSE UNCHANGED <<collected, history, sent>>
    /\ stage' = "evidence"
    /\ UNCHANGED <<request, seenCalls>>

\* Nothing was collected: one plain search with the question, permitted or not, and
\* beyond the cap if need be.
FallBackToRag ==
    /\ stage = "fallback"
    /\ \E found \in Rankings(Width(AskedWidth)) :
          /\ collected' = AddChunks(found)
          /\ Record([status |-> "ok", found |-> found, fallback |-> TRUE])
    /\ stage' = "evidence"
    /\ UNCHANGED <<request, seenCalls>>

FallBackRaises ==
    /\ stage = "fallback"
    /\ stage' = "failed"
    /\ UNCHANGED <<request, history, collected, seenCalls, sent>>

-----------------------------------------------------------------------------
(* The answer (generate_agent_endpoint).                                   *)

Tell(what) == sent' = IF request.stream THEN Append(sent, what) ELSE sent

\* Without evidence the reply is a 404, or an honest end of the stream.
Evidence ==
    /\ stage = "evidence"
    /\ IF collected # << >> THEN stage' = "write" /\ UNCHANGED sent
       ELSE /\ Tell("done")
            /\ stage' = IF request.stream THEN "verify" ELSE "over"
    /\ UNCHANGED <<request, history, collected, seenCalls>>

Written == Len(SelectSeq(sent, LAMBDA e : e = "token"))

\* A piece of the answer.
WriteToken ==
    /\ stage = "write" /\ request.stream /\ Written < AgentTokens
    /\ Tell("token")
    /\ UNCHANGED <<request, stage, history, collected, seenCalls>>

\* Fault: an answer whose generation failed has no terminal token.
EndAnswerBare ==
    /\ stage = "write"
    /\ Tell("done") \/ UNCHANGED sent
    /\ stage' = "verify"
    /\ UNCHANGED <<request, history, collected, seenCalls>>

\* The answer is complete or its generation failed: in both cases a stream gets its
\* terminal token and a verification that says which.
EndAnswer ==
    /\ stage = "write"
    /\ Tell("done")
    /\ stage' = "verify"
    /\ UNCHANGED <<request, history, collected, seenCalls>>

SendVerification ==
    /\ stage = "verify"
    /\ Tell("verification")
    /\ stage' = "over"
    /\ UNCHANGED <<request, history, collected, seenCalls>>

\* Reading the citations of an answer may raise, and with it the request, a stream after its
\* terminal token.  The model lets this happen after a failed generation as well, where the
\* reply reads no citations.
VerifyRaises ==
    /\ stage = "verify" /\ collected # << >>
    /\ stage' = "failed"
    /\ UNCHANGED <<request, history, collected, seenCalls, sent>>

\* The client of a stream leaves.
AgentDisconnect ==
    /\ request.stream /\ stage \notin {"over", "failed"} /\ sent # << >>
    /\ stage' = "failed"
    /\ UNCHANGED <<request, history, collected, seenCalls, sent>>

AgentStep ==
    \/ CapReached \/ PlannerFails \/ Finish \/ ParseError \/ Refused \/ RepeatedCall \/ Call
    \/ ToolRaises \/ FallBackToRag \/ FallBackRaises
    \/ Evidence \/ WriteToken \/ EndAnswer \/ SendVerification \/ VerifyRaises

AgentNext == AgentStep \/ AgentDisconnect

AgentSpec == AgentInit /\ [][AgentNext]_agentVars

\* The event loop serves the request; the client owes nothing.
AgentFair == AgentSpec /\ WF_agentVars(AgentStep)

-----------------------------------------------------------------------------
(* Properties.                                                             *)

Fallbacks == {i \in DOMAIN history : history[i].fallback}

\* The planner has at most MaxSteps steps, errors included, and the only step beyond the
\* cap is one search of the fallback, which is the last step (agent_events).
AgentBounded ==
    /\ Steps <= MaxSteps + Cardinality(Fallbacks)
    /\ \A i \in Fallbacks : i = Steps

\* However the planner erred, a request that comes to an end without a tool having raised
\* is no worse than a plain search: it has evidence, or the search with the question was
\* made, after all else, and found nothing (the fallback of agent_events).
NeverWorseThanRag ==
    stage \in {"evidence", "write", "verify", "over"} =>
        collected # << >> \/ (history # << >> /\ history[Steps].fallback
                                /\ history[Steps].found = << >>)

\* The evidence that citations are numbered by: every passage that a step found, each once,
\* and no passage that no step found (AgentState.add_chunks).
EvidenceOnce ==
    /\ \A i, j \in DOMAIN collected : collected[i] = collected[j] => i = j
    /\ {collected[i] : i \in DOMAIN collected}
          = UNION {{history[k].found[i] : i \in DOMAIN history[k].found} : k \in DOMAIN history}

\* The client of a stream is sent every step, then the answer's pieces, then one terminal
\* token, then one verification, in this order; a stream that ends is complete
\* (event_generator).
AgentStream ==
    request.stream =>
        /\ \A i \in DOMAIN sent : sent[i] = "step" <=> i <= Steps
        /\ \A i \in DOMAIN sent : sent[i] = "done" =>
              \A j \in DOMAIN sent : j > i => sent[j] = "verification" /\ j = i + 1
        /\ stage = "over" => Len(sent) > 1 /\ sent[Len(sent)] = "verification"
                                /\ sent[Len(sent) - 1] = "done"

\* Every request that took a step comes to its end, whatever the planner writes.
AgentEnds == (history # << >>) ~> (stage \in {"over", "failed"})

=============================================================================
