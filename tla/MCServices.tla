------------------------------ MODULE MCServices ------------------------------
(***************************************************************************)
(* Everything beside ingestion and the answer endpoint, for TLC: the agent,*)
(* the chat sessions, the accounts, the tracing of requests, the vector    *)
(* registry, and the functions that keep no state.  They share no state,   *)
(* so that a behaviour of one of them at a time shows all there is: the    *)
(* part is chosen at the start, and the others stay where they begin.      *)
(***************************************************************************)
EXTENDS AgentLoop, ChatSessions, Accounts, Tracing, VectorRegistry,
        Chunking, PromptContext, Verification, Routing, VectorStores, Evaluation, TLC

CONSTANTS i1, i2, i3, i4, f1, f2, c1, c2, c3, x1, x2

VARIABLE part   \* what runs

vars == <<part, agentVars, chatVars, accountVars, tracingVars, registryVars, callVars>>

-----------------------------------------------------------------------------
(* Values of constants.                                                    *)

PageShapes == UNION {[len : {n}, blank : SUBSET (0 .. n - 1)] : n \in 0 .. 3}
TokenizersHere ==
    {[kind |-> "model", cuts |-> {1}],
     [kind |-> "tiktoken", cuts |-> {1}], [kind |-> "chars", cuts |-> {}]}
SpanShapes == {s \in (0 .. 3) \X (1 .. 4) : s[1] < s[2]} \cup {<<0, 0>>}
Tokens == {<<1>>, <<2, 1>>, <<0, 3>>, <<1, 2, 3>>}
Parts == {<<x1, x2>>}
ChunkDocs == i1 :> f1 @@ i2 :> f1 @@ i3 :> f1 @@ i4 :> f2
ChunkGrades == i1 :> 2 @@ i2 :> 0 @@ i3 :> 1 @@ i4 :> 1
CorpusDocs == c1 :> f1 @@ c2 :> f1 @@ c3 :> f2
OrdersRead == {<<1, 2, 3>>, <<3, 1, 2>>, <<2, 1>>, <<1>>, << >>}
Floors == [faithfulness |-> 55, answer_relevancy |-> 30, context_recall |-> 50,
           context_precision |-> 30]
Ceilings == [hallucination |-> 0, retrieval_miss |-> 50]

-----------------------------------------------------------------------------

\* The agent has many initial states; where it stays put, one of them.
AgentRests ==
    request.scope = Nothing /\ request.available = {} /\ request.allowed = Tools
        /\ ~request.stream

NoCall == Pick({[function |-> "none"]})

ACall ==
    \/ Pick(ChunkingCalls)
    \/ Pick(ExpansionCalls)
    \/ Pick(PromptCalls)
    \/ Pick(VerificationCalls)
    \/ Pick(HybridCalls)
    \/ Pick(SemanticCalls)
    \/ Pick(ExpandedCalls)
    \/ Pick(MmrCalls)
    \/ Pick(RetrieveCalls)
    \/ Pick(ReindexCalls)
    \/ Pick(DeleteCalls)
    \/ Pick(SearchCalls)
    \/ Pick(ReadCalls)
    \/ Pick(EvaluateCalls)
    \/ Pick(GateCalls)
    \/ Pick(SurrogateCalls)
    \/ Pick(PaceCalls)

CallReturns ==
    \/ ChunkingReturns
    \/ ExpansionReturns
    \/ PromptReturns
    \/ VerificationReturns
    \/ HybridReturns
    \/ SemanticReturns
    \/ ExpandedReturns
    \/ MmrReturns
    \/ RetrieveReturns
    \/ ReindexReturns
    \/ DeleteReturns
    \/ SearchReturns
    \/ ReadReturns
    \/ EvaluateReturns
    \/ GateReturns
    \/ SurrogateReturns
    \/ PaceReturns

Init ==
    /\ AgentInit /\ ChatInit /\ AccountsInit /\ TracingInit /\ RegistryInit
    /\ \/ part = "agent" /\ NoCall
       \/ part \in {"chat", "accounts", "tracing", "registry"} /\ AgentRests /\ NoCall
       \/ part = "call" /\ AgentRests /\ ACall

AgentPart(step) ==
    /\ part = "agent" /\ step
    /\ UNCHANGED <<part, chatVars, accountVars, tracingVars, registryVars, callVars>>

Next ==
    \/ AgentPart(AgentNext)
    \/ /\ part = "chat" /\ ChatNext
       /\ UNCHANGED <<part, agentVars, accountVars, tracingVars, registryVars, callVars>>
    \/ /\ part = "accounts" /\ AccountsNext
       /\ UNCHANGED <<part, agentVars, chatVars, tracingVars, registryVars, callVars>>
    \/ /\ part = "tracing" /\ TracingNext
       /\ UNCHANGED <<part, agentVars, chatVars, accountVars, registryVars, callVars>>
    \/ /\ part = "registry" /\ RegistryNext
       /\ UNCHANGED <<part, agentVars, chatVars, accountVars, tracingVars, callVars>>
    \/ /\ part = "call" /\ CallReturns
       /\ UNCHANGED <<part, agentVars, chatVars, accountVars, tracingVars, registryVars>>

\* Only the agent's liveness is checked: the event loop serves its request.
Spec == Init /\ [][Next]_vars /\ WF_vars(AgentPart(AgentStep))

\* The type invariants of the parts.
ServicesTypeOK ==
    AgentTypeOK /\ ChatTypeOK /\ AccountsTypeOK /\ TracingTypeOK /\ RegistryTypeOK

===============================================================================
