--------------------------- MODULE AgentLoopProofs ---------------------------
(***************************************************************************)
(* Proofs about AgentLoop, for every set of documents and queries and for  *)
(* every bound on steps, widths and pieces of the answer.  What the planner*)
(* writes and what the searches find plays no part in them.                *)
(***************************************************************************)
EXTENDS AgentLoop, FiniteSetTheorems, InductionLemmas, TLAPS

ExecutedSteps ==
    [status : {"ok", "error"}, found : Seq(Passages), fallback : BOOLEAN]

Stages == {"plan", "fallback", "evidence", "write", "verify", "over", "failed"}

\* The history by the stage: before the fallback there is no step of it, and the fallback
\* comes once.
HistoryInv ==
    /\ history \in Seq(ExecutedSteps) /\ stage \in Stages
    /\ Steps <= MaxSteps \/ (Steps = MaxSteps + 1 /\ history[Steps].fallback)
    /\ \A i \in DOMAIN history : history[i].fallback => i = Steps
    /\ stage \in {"plan", "fallback"} =>
          Steps <= MaxSteps /\ \A i \in DOMAIN history : ~history[i].fallback

\* What a stream has carried by the stage: the steps, then pieces, then the end.
StepsSent == \A i \in DOMAIN sent : sent[i] = "step" <=> i <= Steps

StreamInv ==
    request.stream =>
        /\ sent \in Seq({"step", "token", "done", "verification"})
        /\ StepsSent
        /\ stage \in {"plan", "fallback", "evidence"} => Len(sent) = Steps
        /\ stage # "failed" => Len(sent) >= Steps
        /\ stage \in {"plan", "fallback", "evidence", "write"} =>
              \A i \in DOMAIN sent : sent[i] \in {"step", "token"}
        /\ stage = "verify" =>
              /\ Len(sent) > 0 /\ sent[Len(sent)] = "done"
              /\ \A i \in 1 .. Len(sent) - 1 : sent[i] \in {"step", "token"}

AgentInv == HistoryInv /\ AgentStream /\ StreamInv /\ request.stream \in BOOLEAN

-----------------------------------------------------------------------------
LEMMA ErrorSteps == ErrorStep \in ExecutedSteps /\ ~ErrorStep.fallback
BY DEF ErrorStep, ExecutedSteps

LEMMA Fruitful ==
    ASSUME NEW found \in Seq(Passages), NEW fallback \in BOOLEAN
    PROVE  /\ [status |-> "ok", found |-> found, fallback |-> fallback] \in ExecutedSteps
           /\ [status |-> "ok", found |-> found, fallback |-> fallback].fallback = fallback
BY DEF ExecutedSteps

\* What searches give are lists of passages.
LEMMA RankingsFound ==
    ASSUME NEW n \in Nat, NEW s \in Rankings(n)
    PROVE  s \in Seq(Passages)
<1>1. PICK k \in 0 .. n : s \in [1 .. k -> InScope]
  BY DEF Rankings
<1>2. s \in [1 .. k -> Passages]
  BY <1>1 DEF InScope
<1> QED
  BY <1>2

LEMMA Widths == ASSUME NEW k \in Nat PROVE Width(k) \in Nat
BY AgentAssumption DEF Width

LEMMA FindingsFound ==
    ASSUME NEW args \in Arguments, NEW found \in Findings(args)
    PROVE  found \in Seq(Passages)
<1>1. CASE args.tool = "retrieve_docs"
  <2>1. args.width \in {0, MaxWidth + 1}
    BY <1>1 DEF Arguments
  <2>2. MaxWidth \in Nat
    BY AgentAssumption
  <2>3. args.width \in Nat
    BY <2>1, <2>2
  <2> QED
    BY <1>1, <2>3, Widths, RankingsFound DEF Findings
<1>2. CASE args.tool # "retrieve_docs"
  <2>1. ASSUME NEW d PROVE Whole(d) \in Seq(Passages)
    <3>1. CASE d \in AgentDocs
      <4>1. \A i \in 1 .. Length : <<d, i>> \in Passages
        BY <3>1 DEF Passages
      <4>2. Length \in Nat
        BY AgentAssumption
      <4> QED
        BY <3>1, <4>1, <4>2 DEF Whole
    <3>2. CASE d \notin AgentDocs
      BY <3>2 DEF Whole
    <3> QED
      BY <3>1, <3>2
  <2>2. found = Whole(ResolveDoc(args.doc)) \/ found = << >>
    BY <1>2 DEF Findings
  <2>3. Whole(ResolveDoc(args.doc)) \in Seq(Passages)
    BY <2>1
  <2>4. << >> \in Seq(Passages)
    OBVIOUS
  <2> QED
    BY <2>2, <2>3, <2>4, Zenon
<1> QED
  BY <1>1, <1>2

-----------------------------------------------------------------------------
(* The two ways in which a step moves on: with a step recorded, or without. *)

\* A planner's step is recorded, and the loop goes on or ends.
LEMMA PlannedStep ==
    ASSUME AgentInv, Planning, UNCHANGED request, NEW step \in ExecutedSteps, ~step.fallback,
           Record(step), stage' \in {"plan", "fallback", "evidence"}, AgentAssumption
    PROVE  AgentInv'
<1>1. /\ history' = Append(history, step) /\ Len(history') = Steps + 1 /\ Steps \in Nat
      /\ \A i \in DOMAIN history : history'[i] = history[i]
      /\ DOMAIN history' = 1 .. Steps + 1 /\ DOMAIN history = 1 .. Steps
      /\ history'[Steps + 1] = step /\ history' \in Seq(ExecutedSteps)
  <2>1. history \in Seq(ExecutedSteps) /\ history' = Append(history, step)
    BY DEF Record, AgentInv, HistoryInv
  <2> QED
    BY <2>1 DEF Steps
<1>2. Steps < MaxSteps /\ stage = "plan"
  BY DEF Planning
<1>3. HistoryInv'
  <2>1. Steps' = Steps + 1 /\ MaxSteps \in Nat /\ stage' \in Stages
    BY <1>1, AgentAssumption DEF Steps, Stages
  <2>2. \A i \in DOMAIN history : ~history[i].fallback
    BY <1>2 DEF AgentInv, HistoryInv
  <2>3. \A i \in DOMAIN history' : ~history'[i].fallback
    BY <1>1, <2>2
  <2> QED
    BY <1>1, <1>2, <2>1, <2>3 DEF HistoryInv
<1>4. ASSUME request.stream
      PROVE  StreamInv' /\ AgentStream'
  <2>1. sent' = Append(sent, "step") /\ Len(sent) = Steps /\ StepsSent
    BY <1>2, <1>4 DEF Record, AgentInv, StreamInv
  <2>2. /\ sent \in Seq({"step", "token", "done", "verification"})
        /\ \A i \in DOMAIN sent : sent[i] \in {"step", "token"}
    BY <1>2, <1>4 DEF AgentInv, StreamInv
  <2>3. /\ sent' \in Seq({"step", "token", "done", "verification"})
        /\ Len(sent') = Steps + 1 /\ DOMAIN sent' = 1 .. Steps + 1 /\ DOMAIN sent = 1 .. Steps
        /\ \A i \in 1 .. Steps : sent'[i] = sent[i]
        /\ sent'[Steps + 1] = "step"
    BY <1>1, <2>1, <2>2
  <2>4. StepsSent'
    BY <1>1, <2>1, <2>3 DEF StepsSent, Steps
  <2>5. \A i \in DOMAIN sent' : sent'[i] \in {"step", "token"}
    BY <1>1, <2>2, <2>3
  <2>6. StreamInv'
    BY <1>1, <2>3, <2>4, <2>5 DEF StreamInv, Steps
  <2> QED
    BY <2>4, <2>5, <2>6 DEF AgentStream, StepsSent
<1> QED
  BY <1>3, <1>4 DEF AgentInv, StreamInv, AgentStream

\* No step is recorded and nothing sent.
LEMMA QuietStep ==
    ASSUME AgentInv, UNCHANGED <<request, history, sent>>,
           \/ stage \in {"plan", "fallback"} /\ stage' \in {"evidence", "failed"}
           \/ stage = "plan" /\ stage' = "fallback"
           \/ stage = "evidence" /\ stage' \in {"write", "failed"}
           \/ stage' = "failed"
    PROVE  AgentInv'
<1>1. HistoryInv'
  BY DEF AgentInv, HistoryInv, Steps, Stages
<1>2. StreamInv' /\ AgentStream'
  BY DEF AgentInv, StreamInv, AgentStream, StepsSent, Steps
<1> QED
  BY <1>1, <1>2 DEF AgentInv

LEMMA LeaveStages ==
    ASSUME NEW found PROVE Leave(found) \in {"fallback", "evidence"}
BY DEF Leave

-----------------------------------------------------------------------------
(* Every step keeps the invariant.                                         *)

LEMMA AgentInitKeeps == AgentInit => AgentInv
<1> SUFFICES ASSUME AgentInit PROVE AgentInv
  OBVIOUS
<1>1. request.stream \in BOOLEAN
  BY DEF AgentInit
<1>2. HistoryInv
  BY AgentAssumption DEF AgentInit, HistoryInv, Steps, Stages
<1>3. AgentStream /\ StreamInv
  BY DEF AgentInit, AgentStream, StreamInv, StepsSent, Steps
<1> QED
  BY <1>1, <1>2, <1>3 DEF AgentInv

\* A step that goes wrong, whether it ends the loop or not.
LEMMA ErrKeeps ==
    ASSUME AgentInv, Planning, NEW ends \in BOOLEAN, Err(ends)
    PROVE  AgentInv'
<1>1. stage' \in {"plan", "fallback", "evidence"}
  BY LeaveStages DEF Err
<1> QED
  BY <1>1, ErrorSteps, PlannedStep, AgentAssumption DEF Err

LEMMA CallKeeps ==
    ASSUME AgentInv, Call
    PROVE  AgentInv'
<1>1. PICK args \in Arguments : \E found \in Findings(args) :
         /\ Record([status |-> "ok", found |-> found, fallback |-> FALSE])
         /\ stage' \in {"evidence", "plan"}
  BY DEF Call
<1>2. PICK found \in Findings(args) :
         /\ Record([status |-> "ok", found |-> found, fallback |-> FALSE])
         /\ stage' \in {"evidence", "plan"}
  BY <1>1
<1>3. found \in Seq(Passages)
  BY FindingsFound
<1> DEFINE step == [status |-> "ok", found |-> found, fallback |-> FALSE]
<1>4. step \in ExecutedSteps /\ ~step.fallback
  BY <1>3, Fruitful
<1>5. Planning /\ UNCHANGED request /\ Record(step)
  BY <1>2 DEF Call
<1> HIDE DEF step
<1> QED
  BY <1>2, <1>4, <1>5, PlannedStep, AgentAssumption

\* The fallback's search is the last step, and may be one beyond the cap.
LEMMA FallBackToRagKeeps ==
    ASSUME AgentInv, FallBackToRag
    PROVE  AgentInv'
<1>1. PICK found \in Rankings(Width(AskedWidth)) :
         Record([status |-> "ok", found |-> found, fallback |-> TRUE])
  BY DEF FallBackToRag
<1>2. found \in Seq(Passages)
  BY AgentAssumption, Widths, RankingsFound
<1> DEFINE step == [status |-> "ok", found |-> found, fallback |-> TRUE]
<1>3. step \in ExecutedSteps /\ step.fallback
  BY <1>2, Fruitful
<1>4. Record(step) /\ UNCHANGED request /\ stage = "fallback" /\ stage' = "evidence"
  BY <1>1 DEF FallBackToRag
<1> HIDE DEF step
<1>5. /\ Len(history') = Steps + 1 /\ Steps \in Nat
      /\ \A i \in DOMAIN history : history'[i] = history[i]
      /\ DOMAIN history' = 1 .. Steps + 1 /\ DOMAIN history = 1 .. Steps
      /\ history'[Steps + 1] = step /\ history' \in Seq(ExecutedSteps)
  <2>1. history \in Seq(ExecutedSteps) /\ history' = Append(history, step)
    BY <1>4 DEF Record, AgentInv, HistoryInv
  <2> QED
    BY <1>3, <2>1 DEF Steps
<1>6. HistoryInv'
  <2>1. Steps' = Steps + 1 /\ MaxSteps \in Nat /\ stage' \in Stages
    BY <1>4, <1>5, AgentAssumption DEF Steps, Stages
  <2>2. Steps <= MaxSteps /\ \A i \in DOMAIN history : ~history[i].fallback
    BY <1>4 DEF AgentInv, HistoryInv
  <2>3. \A i \in DOMAIN history' : history'[i].fallback => i = Steps + 1
    BY <1>5, <2>2
  <2>4. Steps + 1 <= MaxSteps \/ (Steps + 1 = MaxSteps + 1 /\ history'[Steps + 1].fallback)
    BY <1>3, <1>5, <2>1, <2>2
  <2> QED
    BY <1>4, <1>5, <2>1, <2>3, <2>4 DEF HistoryInv
<1>7. ASSUME request.stream
      PROVE  StreamInv' /\ AgentStream'
  <2>1. /\ sent' = Append(sent, "step") /\ Len(sent) = Steps /\ StepsSent
        /\ sent \in Seq({"step", "token", "done", "verification"})
        /\ \A i \in DOMAIN sent : sent[i] \in {"step", "token"}
    BY <1>4, <1>7 DEF Record, AgentInv, StreamInv
  <2>2. /\ sent' \in Seq({"step", "token", "done", "verification"})
        /\ Len(sent') = Steps + 1 /\ DOMAIN sent' = 1 .. Steps + 1 /\ DOMAIN sent = 1 .. Steps
        /\ \A i \in 1 .. Steps : sent'[i] = sent[i]
        /\ sent'[Steps + 1] = "step"
    BY <1>5, <2>1
  <2>3. StepsSent'
    BY <1>5, <2>1, <2>2 DEF StepsSent, Steps
  <2>4. \A i \in DOMAIN sent' : sent'[i] \in {"step", "token"}
    BY <1>5, <2>1, <2>2
  <2>5. StreamInv'
    BY <1>4, <1>5, <2>2, <2>3, <2>4 DEF StreamInv, Steps
  <2> QED
    BY <1>4, <2>3, <2>4, <2>5 DEF AgentStream, StepsSent
<1> QED
  BY <1>4, <1>6, <1>7 DEF AgentInv, StreamInv, AgentStream

-----------------------------------------------------------------------------
\* What is told after the steps, when nothing terminal was told before.
LEMMA ToldAfterSteps ==
    ASSUME AgentInv, UNCHANGED <<request, history>>, stage \in {"evidence", "write"},
           NEW what \in {"token", "done"}, Tell(what),
           \/ what = "token" /\ stage' = "write" /\ stage = "write"
           \/ what = "done" /\ stage' = "verify"
    PROVE  AgentInv'
<1>1. HistoryInv'
  BY DEF AgentInv, HistoryInv, Steps, Stages
<1>2. ASSUME request.stream
      PROVE  StreamInv' /\ AgentStream'
  <2>1. /\ sent' = Append(sent, what) /\ Len(sent) >= Steps /\ StepsSent
        /\ sent \in Seq({"step", "token", "done", "verification"})
        /\ \A i \in DOMAIN sent : sent[i] \in {"step", "token"}
    BY <1>2 DEF Tell, AgentInv, StreamInv
  <2>2. Steps \in Nat /\ Steps' = Steps
    BY DEF AgentInv, HistoryInv, Steps
  <2>3. /\ sent' \in Seq({"step", "token", "done", "verification"})
        /\ Len(sent') = Len(sent) + 1 /\ DOMAIN sent' = 1 .. Len(sent) + 1
        /\ DOMAIN sent = 1 .. Len(sent) /\ Len(sent) \in Nat
        /\ \A i \in 1 .. Len(sent) : sent'[i] = sent[i]
        /\ sent'[Len(sent) + 1] = what
    BY <2>1
  <2>4. StepsSent'
    BY <2>1, <2>2, <2>3 DEF StepsSent
  <2>5. \A i \in 1 .. Len(sent) : sent'[i] \in {"step", "token"}
    BY <2>1, <2>3
  <2>6. CASE what = "token"
    <3>1. \A i \in DOMAIN sent' : sent'[i] \in {"step", "token"}
      BY <2>3, <2>5, <2>6
    <3> QED
      BY <2>1, <2>2, <2>3, <2>4, <2>6, <3>1 DEF StreamInv, AgentStream, StepsSent
  <2>7. CASE what = "done"
    <3>1. \A i \in DOMAIN sent' : sent'[i] = "done" => i = Len(sent) + 1
      BY <2>3, <2>5
    <3>2. AgentStream'
      BY <2>2, <2>3, <2>4, <2>7, <3>1 DEF AgentStream, StepsSent
    <3>3. StreamInv'
      BY <2>1, <2>2, <2>3, <2>4, <2>5, <2>7 DEF StreamInv
    <3> QED
      BY <3>2, <3>3
  <2> QED
    BY <2>6, <2>7
<1>3. StreamInv' /\ AgentStream'
  BY <1>2 DEF StreamInv, AgentStream
<1> QED
  BY <1>1, <1>3 DEF AgentInv

LEMMA EvidenceKeeps ==
    ASSUME AgentInv, Evidence
    PROVE  AgentInv'
<1>1. CASE collected # << >>
  BY <1>1, QuietStep DEF Evidence
<1>2. CASE collected = << >> /\ request.stream
  BY <1>2, ToldAfterSteps DEF Evidence
<1>3. CASE collected = << >> /\ ~request.stream
  <2>1. UNCHANGED <<request, history>> /\ stage' = "over" /\ ~request'.stream
    BY <1>3 DEF Evidence
  <2>2. HistoryInv'
    BY <2>1 DEF AgentInv, HistoryInv, Steps, Stages
  <2> QED
    BY <2>1, <2>2 DEF AgentInv, StreamInv, AgentStream
<1> QED
  BY <1>1, <1>2, <1>3 DEF AgentInv

\* The verification comes right after the terminal token, and is the last event.
LEMMA SendVerificationKeeps ==
    ASSUME AgentInv, SendVerification
    PROVE  AgentInv'
<1>1. /\ stage = "verify" /\ stage' = "over" /\ UNCHANGED <<request, history>>
      /\ Tell("verification")
  BY DEF SendVerification
<1>2. HistoryInv'
  BY <1>1 DEF AgentInv, HistoryInv, Steps, Stages
<1>3. ASSUME request.stream
      PROVE  StreamInv' /\ AgentStream'
  <2>1. /\ sent' = Append(sent, "verification") /\ Len(sent) >= Steps /\ StepsSent
        /\ sent \in Seq({"step", "token", "done", "verification"})
        /\ Len(sent) > 0 /\ sent[Len(sent)] = "done"
        /\ \A i \in 1 .. Len(sent) - 1 : sent[i] \in {"step", "token"}
    BY <1>1, <1>3 DEF Tell, AgentInv, StreamInv
  <2>2. Steps \in Nat /\ Steps' = Steps
    BY <1>1 DEF AgentInv, HistoryInv, Steps
  <2>3. /\ sent' \in Seq({"step", "token", "done", "verification"})
        /\ Len(sent') = Len(sent) + 1 /\ DOMAIN sent' = 1 .. Len(sent) + 1
        /\ DOMAIN sent = 1 .. Len(sent) /\ Len(sent) \in Nat
        /\ \A i \in 1 .. Len(sent) : sent'[i] = sent[i]
        /\ sent'[Len(sent) + 1] = "verification"
    BY <2>1
  <2>4. StepsSent'
    BY <2>1, <2>2, <2>3 DEF StepsSent
  <2>5. \A i \in DOMAIN sent' : sent'[i] = "done" => i = Len(sent)
    BY <2>1, <2>3
  <2>6. AgentStream'
    <3>1. \A i \in DOMAIN sent' : sent'[i] = "done" =>
             \A j \in DOMAIN sent' : j > i => sent'[j] = "verification" /\ j = i + 1
      BY <2>3, <2>5
    <3>2. /\ Len(sent') > 1 /\ sent'[Len(sent')] = "verification"
          /\ sent'[Len(sent') - 1] = "done"
      <4>1. Len(sent') - 1 = Len(sent) /\ Len(sent) \in 1 .. Len(sent)
        BY <2>1, <2>3
      <4>2. sent'[Len(sent)] = "done"
        BY <2>1, <2>3, <4>1
      <4> QED
        BY <2>1, <2>3, <4>1, <4>2
    <3> QED
      BY <2>4, <3>1, <3>2 DEF AgentStream, StepsSent
  <2>7. StreamInv'
    BY <1>1, <2>1, <2>2, <2>3, <2>4 DEF StreamInv
  <2> QED
    BY <2>6, <2>7
<1>4. StreamInv' /\ AgentStream'
  BY <1>1, <1>3 DEF StreamInv, AgentStream
<1> QED
  BY <1>1, <1>2, <1>4 DEF AgentInv

LEMMA NextKeeps ==
    ASSUME AgentInv, AgentNext
    PROVE  AgentInv'
<1>1. CASE CapReached
  BY <1>1, LeaveStages, QuietStep DEF CapReached
<1>2. CASE PlannerFails
  BY <1>2, ErrKeeps DEF PlannerFails
<1>3. CASE Finish
  BY <1>3, LeaveStages, QuietStep DEF Finish, Planning
<1>4. CASE ParseError
  <2>1. (Steps <= 1) \in BOOLEAN
    OBVIOUS
  <2> QED
    BY <1>4, <2>1, ErrKeeps DEF ParseError
<1>5. CASE Refused
  BY <1>5, ErrKeeps DEF Refused
<1>6. CASE RepeatedCall
  BY <1>6, ErrKeeps DEF RepeatedCall
<1>7. CASE Call
  BY <1>7, CallKeeps
<1>8. CASE ToolRaises \/ FallBackRaises \/ VerifyRaises \/ AgentDisconnect
  BY <1>8, QuietStep DEF ToolRaises, FallBackRaises, VerifyRaises, AgentDisconnect
<1>9. CASE FallBackToRag
  BY <1>9, FallBackToRagKeeps
<1>10. CASE Evidence
  BY <1>10, EvidenceKeeps
<1>11. CASE WriteToken
  BY <1>11, ToldAfterSteps DEF WriteToken
<1>12. CASE EndAnswer
  BY <1>12, ToldAfterSteps DEF EndAnswer
<1>13. CASE SendVerification
  BY <1>13, SendVerificationKeeps
<1> QED
  BY <1>1, <1>2, <1>3, <1>4, <1>5, <1>6, <1>7, <1>8, <1>9, <1>10, <1>11, <1>12, <1>13
  DEF AgentNext, AgentStep

LEMMA AgentInvariant == AgentSpec => []AgentInv
<1>1. AgentInv /\ [AgentNext]_agentVars => AgentInv'
  <2> SUFFICES ASSUME AgentInv, [AgentNext]_agentVars PROVE AgentInv'
    OBVIOUS
  <2>1. CASE UNCHANGED agentVars
    BY <2>1 DEF agentVars, AgentInv, HistoryInv, StreamInv, AgentStream, StepsSent, Steps
  <2> QED
    BY <2>1, NextKeeps
<1> QED
  BY <1>1, AgentInitKeeps, PTL DEF AgentSpec

\* Whatever the planner writes, and however large the cap, at most MaxSteps steps are the
\* planner's, and the one beyond them is the fallback's search, made once and last.
THEOREM AgentIsBounded == AgentSpec => []AgentBounded
<1>1. AgentInv => AgentBounded
  <2> SUFFICES ASSUME AgentInv PROVE AgentBounded
    OBVIOUS
  <2>1. /\ history \in Seq(ExecutedSteps) /\ Steps \in Nat /\ MaxSteps \in Nat
        /\ \A i \in DOMAIN history : history[i].fallback => i = Steps
        /\ DOMAIN history = 1 .. Steps
    BY AgentAssumption DEF AgentInv, HistoryInv, Steps
  <2>2. Fallbacks \subseteq {Steps}
    BY <2>1 DEF Fallbacks
  <2>3. Fallbacks = {} \/ Fallbacks = {Steps}
    BY <2>2
  <2>4. Cardinality({}) = 0 /\ Cardinality({Steps}) = 1
    BY FS_EmptySet, FS_Singleton
  <2>5. Cardinality(Fallbacks) = 0 \/ Cardinality(Fallbacks) = 1
    BY <2>3, <2>4, Zenon
  <2>6. Steps <= MaxSteps + Cardinality(Fallbacks)
    <3>1. CASE Steps <= MaxSteps
      BY <2>1, <2>5, <3>1
    <3>2. CASE Steps = MaxSteps + 1 /\ history[Steps].fallback
      <4>1. Steps \in DOMAIN history
        BY <2>1, <3>2
      <4>2. Fallbacks = {Steps}
        BY <2>2, <3>2, <4>1 DEF Fallbacks
      <4>3. Cardinality(Fallbacks) = 1
        BY <2>4, <4>2, Zenon
      <4> QED
        BY <3>2, <4>3
    <3> QED
      BY <3>1, <3>2 DEF AgentInv, HistoryInv
  <2> QED
    BY <2>2, <2>6 DEF AgentBounded
<1> QED
  BY <1>1, AgentInvariant, PTL

\* The client of a stream is sent the steps, then the pieces of the answer, then one
\* terminal token and one verification, whichever way the loop or the answer ended.
THEOREM AgentStreamInOrder == AgentSpec => []AgentStream
<1>1. AgentInv => AgentStream
  BY DEF AgentInv
<1> QED
  BY <1>1, AgentInvariant, PTL

-----------------------------------------------------------------------------
(* The evidence.                                                           *)

Members(s) == {s[i] : i \in DOMAIN s}

Distinct(s) == \A i, j \in DOMAIN s : s[i] = s[j] => i = j

\* The recursion of AddChunks.
Adding(found, added) ==
    added = [n \in 0 .. Len(found) |->
                IF n = 0 THEN collected
                ELSE IF Known(found[n], added[n - 1]) THEN added[n - 1]
                ELSE Append(added[n - 1], found[n])]

\* There is such a function.
LEMMA AddingExists ==
    ASSUME collected \in Seq(Passages), NEW found \in Seq(Passages)
    PROVE  \E added : Adding(found, added) /\ AddChunks(found) = added[Len(found)]
<1> DEFINE n == Len(found)
           step == [p \in (1 .. n) \X Seq(Passages) |->
                       IF Known(found[p[1]], p[2]) THEN p[2] ELSE Append(p[2], found[p[1]])]
<1>1. n \in Nat /\ DOMAIN found = 1 .. n
  OBVIOUS
<1>2. step \in [(1 .. n) \X Seq(Passages) -> Seq(Passages)]
  <2>1. ASSUME NEW p \in (1 .. n) \X Seq(Passages)
        PROVE  p[2] \in Seq(Passages) /\ Append(p[2], found[p[1]]) \in Seq(Passages)
    <3>1. p[2] \in Seq(Passages) /\ found[p[1]] \in Passages
      BY <1>1
    <3> QED
      BY <3>1
  <2> HIDE DEF n
  <2> QED
    BY <2>1
<1>3. PICK f : Upto(n, f, Seq(Passages), collected, step)
  <2> HIDE DEF n, step
  <2> QED
    BY <1>1, <1>2, RecursiveFunction
<1>4. /\ f \in [0 .. n -> Seq(Passages)] /\ f[0] = collected
      /\ \A i \in 1 .. n : f[i] = step[<<i, f[i - 1]>>]
  BY <1>3 DEF Upto
<1>5. ASSUME NEW i \in 0 .. n
      PROVE  f[i] = IF i = 0 THEN collected
                    ELSE IF Known(found[i], f[i - 1]) THEN f[i - 1]
                    ELSE Append(f[i - 1], found[i])
  <2>1. CASE i = 0
    BY <1>4, <2>1
  <2>2. CASE i # 0
    <3>1. i \in 1 .. n /\ i - 1 \in 0 .. n
      BY <1>1, <2>2
    <3>2. <<i, f[i - 1]>> \in (1 .. n) \X Seq(Passages)
      BY <1>4, <3>1
    <3>3. f[i] = step[<<i, f[i - 1]>>]
      BY <1>4, <3>1
    <3> HIDE DEF n
    <3> QED
      BY <2>2, <3>2, <3>3
  <2> QED
    BY <2>1, <2>2
<1>6. Adding(found, f)
  BY <1>4, <1>5 DEF Adding
<1>7. Adding(found, CHOOSE added : Adding(found, added))
  BY <1>6
<1>8. AddChunks(found) = (CHOOSE added : Adding(found, added))[Len(found)]
  BY DEF AddChunks, Adding
<1> QED
  BY <1>7, <1>8

\* What one more passage makes of the evidence.
LEMMA OneAdded ==
    ASSUME NEW s \in Seq(Passages), Distinct(s), NEW p \in Passages, ~Known(p, s)
    PROVE  /\ Append(s, p) \in Seq(Passages) /\ Distinct(Append(s, p))
           /\ Members(Append(s, p)) = Members(s) \cup {p}
<1>1. /\ Append(s, p) \in Seq(Passages) /\ DOMAIN s = 1 .. Len(s) /\ Len(s) \in Nat
      /\ DOMAIN Append(s, p) = 1 .. Len(s) + 1 /\ Append(s, p)[Len(s) + 1] = p
      /\ \A i \in 1 .. Len(s) : Append(s, p)[i] = s[i]
  OBVIOUS
<1>2. \A i \in 1 .. Len(s) : s[i] # p
  BY <1>1 DEF Known
<1>3. Distinct(Append(s, p))
  BY <1>1, <1>2 DEF Distinct
<1>4. Members(Append(s, p)) = Members(s) \cup {p}
  BY <1>1 DEF Members
<1> QED
  BY <1>1, <1>3, <1>4

LEMMA KnownMember ==
    ASSUME NEW s, NEW p, Known(p, s)
    PROVE  Members(s) \cup {p} = Members(s)
BY DEF Known, Members

\* add_chunks keeps the evidence without repetition and adds all that was found.
LEMMA ChunksAdded ==
    ASSUME collected \in Seq(Passages), Distinct(collected), NEW found \in Seq(Passages)
    PROVE  /\ AddChunks(found) \in Seq(Passages) /\ Distinct(AddChunks(found))
           /\ Members(AddChunks(found)) = Members(collected) \cup Members(found)
<1>1. PICK added : Adding(found, added) /\ AddChunks(found) = added[Len(found)]
  BY AddingExists
<1> DEFINE n == Len(found)
           First(k) == {found[i] : i \in 1 .. k}
           T == {k \in 0 .. n : /\ added[k] \in Seq(Passages) /\ Distinct(added[k])
                                /\ Members(added[k]) = Members(collected) \cup First(k)}
<1>2. n \in Nat /\ DOMAIN found = 1 .. n
  OBVIOUS
<1>3. 0 \in T
  <2>1. added[0] = collected
    BY <1>1, <1>2 DEF Adding
  <2>2. First(0) = {}
    OBVIOUS
  <2>3. Members(collected) \cup First(0) = Members(collected)
    BY <2>2
  <2> HIDE DEF First
  <2> QED
    BY <1>2, <2>1, <2>3
<1>4. ASSUME NEW k \in 0 .. n - 1, k \in T
      PROVE  k + 1 \in T
  <2>1. /\ added[k] \in Seq(Passages) /\ Distinct(added[k])
        /\ Members(added[k]) = Members(collected) \cup First(k)
    BY <1>4
  <2>2. k + 1 \in 0 .. n /\ k + 1 # 0 /\ (k + 1) - 1 = k /\ k + 1 \in 1 .. n
    BY <1>2
  <2>3. added[k + 1] = IF Known(found[k + 1], added[k]) THEN added[k]
                       ELSE Append(added[k], found[k + 1])
    BY <1>1, <2>2 DEF Adding
  <2>4. found[k + 1] \in Passages
    BY <1>2, <2>2
  <2>5. First(k + 1) = First(k) \cup {found[k + 1]}
    BY <1>2, <2>2
  <2>6. /\ added[k + 1] \in Seq(Passages) /\ Distinct(added[k + 1])
        /\ Members(added[k + 1]) = Members(added[k]) \cup {found[k + 1]}
    <3>1. CASE Known(found[k + 1], added[k])
      BY <2>1, <2>3, <3>1, KnownMember
    <3>2. CASE ~Known(found[k + 1], added[k])
      BY <2>1, <2>3, <2>4, <3>2, OneAdded
    <3> QED
      BY <3>1, <3>2
  <2> HIDE DEF First, n
  <2>7. Members(added[k + 1]) = Members(collected) \cup First(k + 1)
    BY <2>1, <2>5, <2>6
  <2> QED
    BY <2>2, <2>6, <2>7
<1>5. n \in T
  <2>1. 0 .. n \subseteq T
    <3> HIDE DEF T, n
    <3> QED
      BY <1>2, <1>3, <1>4, Induction
  <2>2. n \in 0 .. n
    BY <1>2
  <2> QED
    BY <2>1, <2>2
<1>6. First(n) = Members(found)
  BY <1>2 DEF Members
<1> QED
  BY <1>1, <1>5, <1>6

\* The evidence by the stage: the fallback is for a request that has none.
EvidenceInv ==
    /\ collected \in Seq(Passages)
    /\ EvidenceOnce
    /\ NeverWorseThanRag
    /\ stage = "fallback" => collected = << >>

\* The passages that steps found.
FoundBy(steps) == UNION {Members(steps[k].found) : k \in DOMAIN steps}

LEMMA OnceMeans == EvidenceOnce <=> Distinct(collected) /\ Members(collected) = FoundBy(history)
BY DEF EvidenceOnce, Distinct, Members, FoundBy

LEMMA OnceMeansNext ==
    EvidenceOnce' <=> Distinct(collected') /\ Members(collected') = FoundBy(history')
BY DEF EvidenceOnce, Distinct, Members, FoundBy

\* A step is recorded, and what it found is added.
LEMMA StepAdds ==
    ASSUME AgentInv, EvidenceInv, NEW step \in ExecutedSteps, history' = Append(history, step),
           collected' = AddChunks(step.found)
    PROVE  /\ collected' \in Seq(Passages) /\ EvidenceOnce'
           /\ Members(collected') = Members(collected) \cup Members(step.found)
<1>1. step.found \in Seq(Passages)
  BY DEF ExecutedSteps
<1>2. Distinct(collected) /\ Members(collected) = FoundBy(history)
  BY OnceMeans DEF EvidenceInv
<1>3. /\ collected' \in Seq(Passages) /\ Distinct(collected')
      /\ Members(collected') = Members(collected) \cup Members(step.found)
  BY <1>1, <1>2, ChunksAdded DEF EvidenceInv
<1>4. FoundBy(history') = FoundBy(history) \cup Members(step.found)
  <2>1. /\ DOMAIN history' = DOMAIN history \cup {Len(history) + 1}
        /\ history'[Len(history) + 1] = step
        /\ \A k \in DOMAIN history : history'[k] = history[k]
    <3>1. history \in Seq(ExecutedSteps)
      BY DEF AgentInv, HistoryInv
    <3> QED
      BY <3>1
  <2> QED
    BY <2>1 DEF FoundBy
<1> QED
  BY <1>2, <1>3, <1>4, OnceMeansNext

LEMMA MembersOfNone == ASSUME NEW s, s = << >> PROVE Members(s) = {}
BY DEF Members

LEMMA NoMembers ==
    ASSUME NEW s \in Seq(Passages)
    PROVE  s = << >> <=> Members(s) = {}
<1>1. CASE s = << >>
  BY <1>1, MembersOfNone
<1>2. CASE s # << >>
  <2>1. DOMAIN s = 1 .. Len(s) /\ Len(s) \in Nat
    OBVIOUS
  <2>2. Len(s) # 0
    BY <1>2
  <2>3. 1 \in DOMAIN s
    BY <2>1, <2>2
  <2>4. s[1] \in Members(s)
    BY <2>3, Zenon DEF Members
  <2> QED
    BY <1>2, <2>4
<1> QED
  BY <1>1, <1>2

\* A step that found nothing leaves the evidence as it is.
LEMMA ErrorAddsNothing ==
    ASSUME AgentInv, EvidenceInv, history' = Append(history, ErrorStep), UNCHANGED collected
    PROVE  collected' \in Seq(Passages) /\ EvidenceOnce'
<1>1. /\ DOMAIN history' = DOMAIN history \cup {Len(history) + 1}
      /\ history'[Len(history) + 1] = ErrorStep
      /\ \A k \in DOMAIN history : history'[k] = history[k]
  <2>1. history \in Seq(ExecutedSteps) /\ ErrorStep \in ExecutedSteps
    BY ErrorSteps DEF AgentInv, HistoryInv
  <2> QED
    BY <2>1
<1>2. Members(ErrorStep.found) = {}
  BY MembersOfNone DEF ErrorStep
<1>3. FoundBy(history') = FoundBy(history)
  BY <1>1, <1>2 DEF FoundBy
<1> QED
  BY <1>3, OnceMeans, OnceMeansNext DEF EvidenceInv

LEMMA ErrKeepsEvidence ==
    ASSUME AgentInv, EvidenceInv, Planning, NEW ends \in BOOLEAN, Err(ends)
    PROVE  EvidenceInv'
<1>1. collected' \in Seq(Passages) /\ EvidenceOnce' /\ UNCHANGED collected
  BY ErrorAddsNothing DEF Err, Record
<1>2. stage' \in {"plan", Leave(collected)}
  BY DEF Err
<1> QED
  BY <1>1, <1>2 DEF EvidenceInv, NeverWorseThanRag, Leave

LEMMA CallKeepsEvidence ==
    ASSUME AgentInv, EvidenceInv, Call
    PROVE  EvidenceInv'
<1>1. PICK args \in Arguments : \E found \in Findings(args) :
         /\ collected' = AddChunks(found)
         /\ Record([status |-> "ok", found |-> found, fallback |-> FALSE])
         /\ stage' = IF collected' = collected /\ collected # << >> THEN "evidence" ELSE "plan"
  BY DEF Call
<1>2. PICK found \in Findings(args) :
         /\ collected' = AddChunks(found)
         /\ Record([status |-> "ok", found |-> found, fallback |-> FALSE])
         /\ stage' = IF collected' = collected /\ collected # << >> THEN "evidence" ELSE "plan"
  BY <1>1
<1> DEFINE step == [status |-> "ok", found |-> found, fallback |-> FALSE]
<1>3. step \in ExecutedSteps /\ step.found = found /\ history' = Append(history, step)
  BY <1>2, FindingsFound, Fruitful DEF Record
<1> HIDE DEF step
<1>4. collected' \in Seq(Passages) /\ EvidenceOnce'
  BY <1>2, <1>3, StepAdds
<1> QED
  BY <1>2, <1>4 DEF EvidenceInv, NeverWorseThanRag

\* The fallback's search is the last step: either there is evidence now, or it found none.
LEMMA FallBackKeepsEvidence ==
    ASSUME AgentInv, EvidenceInv, FallBackToRag
    PROVE  EvidenceInv'
<1>1. PICK found \in Rankings(Width(AskedWidth)) :
         /\ collected' = AddChunks(found)
         /\ Record([status |-> "ok", found |-> found, fallback |-> TRUE])
  BY DEF FallBackToRag
<1>2. found \in Seq(Passages)
  BY AgentAssumption, Widths, RankingsFound
<1> DEFINE step == [status |-> "ok", found |-> found, fallback |-> TRUE]
<1>3. step \in ExecutedSteps /\ step.fallback /\ step.found = found
      /\ history' = Append(history, step)
  BY <1>1, <1>2, Fruitful DEF Record
<1> HIDE DEF step
<1>4. /\ collected' \in Seq(Passages) /\ EvidenceOnce'
      /\ Members(collected') = Members(collected) \cup Members(found)
  BY <1>1, <1>3, StepAdds
<1>5. history' # << >> /\ history'[Steps'] = step
  <2>1. history \in Seq(ExecutedSteps)
    BY DEF AgentInv, HistoryInv
  <2> QED
    BY <1>3, <2>1 DEF Steps
<1>6. collected' # << >> \/ found = << >>
  BY <1>2, <1>4, NoMembers
<1> QED
  BY <1>3, <1>4, <1>5, <1>6 DEF EvidenceInv, NeverWorseThanRag, FallBackToRag

\* The other steps leave the evidence and the history alone.
LEMMA QuietKeepsEvidence ==
    ASSUME AgentInv, EvidenceInv, UNCHANGED <<history, collected>>,
           \/ stage' = Leave(collected)
           \/ stage' = "failed"
           \/ stage \in {"evidence", "write", "verify"}
              /\ stage' \in {"evidence", "write", "verify", "over"}
           \/ stage' = stage
    PROVE  EvidenceInv'
<1>1. EvidenceOnce'
  BY OnceMeans, OnceMeansNext DEF EvidenceInv
<1> QED
  BY <1>1 DEF EvidenceInv, NeverWorseThanRag, Leave, Steps

LEMMA AgentInitEvidence == AgentInit => EvidenceInv
<1> SUFFICES ASSUME AgentInit PROVE EvidenceInv
  OBVIOUS
<1>1. collected = << >> /\ history = << >> /\ stage = "plan"
  BY DEF AgentInit
<1> QED
  BY <1>1 DEF EvidenceInv, EvidenceOnce, NeverWorseThanRag

LEMMA NextKeepsEvidence ==
    ASSUME AgentInv, EvidenceInv, AgentNext
    PROVE  EvidenceInv'
<1>1. CASE PlannerFails \/ Refused \/ RepeatedCall
  BY <1>1, ErrKeepsEvidence DEF PlannerFails, Refused, RepeatedCall
<1>2. CASE ParseError
  <2>1. (Steps <= 1) \in BOOLEAN
    OBVIOUS
  <2> QED
    BY <1>2, <2>1, ErrKeepsEvidence DEF ParseError
<1>3. CASE Call
  BY <1>3, CallKeepsEvidence
<1>4. CASE FallBackToRag
  BY <1>4, FallBackKeepsEvidence
<1>5. CASE CapReached \/ Finish
  BY <1>5, QuietKeepsEvidence DEF CapReached, Finish
<1>6. CASE ToolRaises \/ FallBackRaises \/ VerifyRaises \/ AgentDisconnect
  BY <1>6, QuietKeepsEvidence DEF ToolRaises, FallBackRaises, VerifyRaises, AgentDisconnect
<1>7. CASE Evidence \/ WriteToken \/ EndAnswer \/ SendVerification
  BY <1>7, QuietKeepsEvidence DEF Evidence, WriteToken, EndAnswer, SendVerification
<1> QED
  BY <1>1, <1>2, <1>3, <1>4, <1>5, <1>6, <1>7 DEF AgentNext, AgentStep

LEMMA EvidenceInvariant == AgentSpec => []EvidenceInv
<1>1. AgentInv /\ EvidenceInv /\ [AgentNext]_agentVars => EvidenceInv'
  <2> SUFFICES ASSUME AgentInv, EvidenceInv, [AgentNext]_agentVars PROVE EvidenceInv'
    OBVIOUS
  <2>1. CASE UNCHANGED agentVars
    BY <2>1, QuietKeepsEvidence DEF agentVars
  <2> QED
    BY <2>1, NextKeepsEvidence
<1> QED
  BY <1>1, AgentInitEvidence, AgentInvariant, PTL DEF AgentSpec

\* Whatever the planner wrote and however it failed, a request that comes to its answer has
\* evidence, or made the plain search after all else and it found nothing.
THEOREM NoWorseThanRag == AgentSpec => []NeverWorseThanRag
<1>1. EvidenceInv => NeverWorseThanRag
  BY DEF EvidenceInv
<1> QED
  BY <1>1, EvidenceInvariant, PTL

\* The passages that citations are numbered by are those that the steps found, all of them
\* and each once, for searches of any width and any number of steps.
THEOREM EvidenceIsOnce == AgentSpec => []EvidenceOnce
<1>1. EvidenceInv => EvidenceOnce
  BY DEF EvidenceInv
<1> QED
  BY <1>1, EvidenceInvariant, PTL

-----------------------------------------------------------------------------
(* The types.                                                              *)

Sendings == {"step", "token", "done", "verification"}

RequestTyped ==
    /\ request.scope \in AgentDocs \cup {Nothing} /\ request.available \subseteq AgentDocs
    /\ request.allowed \subseteq Tools /\ request.stream \in BOOLEAN

RestTyped == RequestTyped /\ seenCalls \subseteq Arguments /\ sent \in Seq(Sendings)

\* Whatever a request is sent, or not, is one of the events.
LEMMA SentTyped ==
    ASSUME sent \in Seq(Sendings), NEW what \in Sendings,
           sent' = IF request.stream THEN Append(sent, what) ELSE sent
    PROVE  sent' \in Seq(Sendings)
<1>1. Append(sent, what) \in Seq(Sendings)
  OBVIOUS
<1> QED
  BY <1>1

LEMMA NextTyped ==
    ASSUME RestTyped, AgentNext
    PROVE  RestTyped'
<1>1. UNCHANGED request
  BY DEF AgentNext, AgentStep, CapReached, PlannerFails, Finish, ParseError, Refused,
         RepeatedCall, Call, ToolRaises, FallBackToRag, FallBackRaises, Evidence, WriteToken,
         EndAnswer, SendVerification, VerifyRaises, AgentDisconnect, Err
<1>2. seenCalls' \subseteq Arguments
  <2>1. CASE Call
    BY <2>1 DEF Call, RestTyped
  <2>2. CASE ~Call
    <3>1. UNCHANGED seenCalls
      BY <2>2
      DEF AgentNext, AgentStep, CapReached, PlannerFails, Finish, ParseError, Refused,
          RepeatedCall, ToolRaises, FallBackToRag, FallBackRaises, Evidence, WriteToken,
          EndAnswer, SendVerification, VerifyRaises, AgentDisconnect, Err
    <3> QED
      BY <3>1 DEF RestTyped
  <2> QED
    BY <2>1, <2>2
<1>3. \/ UNCHANGED sent
      \/ \E what \in Sendings : sent' = IF request.stream THEN Append(sent, what) ELSE sent
  <2>1. \A step : Record(step) => sent' = IF request.stream THEN Append(sent, "step") ELSE sent
    BY DEF Record
  <2>2. \A what : Tell(what) => sent' = IF request.stream THEN Append(sent, what) ELSE sent
    BY DEF Tell
  <2>3. {"step", "token", "done", "verification"} = Sendings
    BY DEF Sendings
  <2>4. CASE PlannerFails \/ ParseError \/ Refused \/ RepeatedCall
    BY <2>1, <2>3, <2>4 DEF PlannerFails, ParseError, Refused, RepeatedCall, Err
  <2>5. CASE Call \/ FallBackToRag
    BY <2>1, <2>3, <2>5 DEF Call, FallBackToRag
  <2>6. CASE Evidence \/ WriteToken \/ EndAnswer \/ SendVerification
    BY <2>2, <2>3, <2>6 DEF Evidence, WriteToken, EndAnswer, SendVerification
  <2>7. CASE CapReached \/ Finish \/ ToolRaises \/ FallBackRaises \/ VerifyRaises \/ AgentDisconnect
    BY <2>7 DEF CapReached, Finish, ToolRaises, FallBackRaises, VerifyRaises, AgentDisconnect
  <2> QED
    BY <2>4, <2>5, <2>6, <2>7 DEF AgentNext, AgentStep
<1>4. sent' \in Seq(Sendings)
  BY <1>3, SentTyped DEF RestTyped
<1> QED
  BY <1>1, <1>2, <1>4 DEF RestTyped, RequestTyped

LEMMA TypedInvariant == AgentSpec => []RestTyped
<1>1. AgentInit => RestTyped
  <2> SUFFICES ASSUME AgentInit PROVE RestTyped
    OBVIOUS
  <2>1. sent \in Seq(Sendings) /\ seenCalls \subseteq Arguments
    BY DEF AgentInit
  <2>2. RequestTyped
    BY DEF AgentInit, RequestTyped
  <2> QED
    BY <2>1, <2>2 DEF RestTyped
<1>2. RestTyped /\ [AgentNext]_agentVars => RestTyped'
  BY NextTyped DEF agentVars, RestTyped, RequestTyped
<1> QED
  BY <1>1, <1>2, PTL DEF AgentSpec

\* Steps, evidence, calls and events have their types; above all, no step and no evidence
\* holds anything but passages of the user's documents.
THEOREM AgentTypeCorrect == AgentSpec => []AgentTypeOK
<1>1. AgentInv /\ EvidenceInv /\ RestTyped => AgentTypeOK
  <2> SUFFICES ASSUME AgentInv, EvidenceInv, RestTyped PROVE AgentTypeOK
    OBVIOUS
  <2>1. ASSUME NEW i \in DOMAIN history
        PROVE  /\ history[i].status \in {"ok", "error"} /\ history[i].fallback \in BOOLEAN
               /\ \A j \in DOMAIN history[i].found : history[i].found[j] \in Passages
    <3>1. history[i] \in ExecutedSteps
      BY DEF AgentInv, HistoryInv
    <3>2. history[i].found \in Seq(Passages)
      BY <3>1 DEF ExecutedSteps
    <3> QED
      BY <3>1, <3>2 DEF ExecutedSteps
  <2>2. \A i \in DOMAIN collected : collected[i] \in Passages
    BY DEF EvidenceInv
  <2>3. \A i \in DOMAIN sent : sent[i] \in {"step", "token", "done", "verification"}
    BY DEF RestTyped, Sendings
  <2>4. stage \in Stages
    BY DEF AgentInv, HistoryInv
  <2> QED
    BY <2>1, <2>2, <2>3, <2>4 DEF AgentTypeOK, RestTyped, RequestTyped, Stages
<1> QED
  BY <1>1, AgentInvariant, EvidenceInvariant, TypedInvariant, PTL

=============================================================================
