------------------------------- MODULE Tracing -------------------------------
(***************************************************************************)
(* The spans of traced requests (observability): a stack of spans and a    *)
(* trace id in context variables of each request, spans that open and      *)
(* close along it, a streamed answer that takes up the root span after the *)
(* endpoint closed it, and a tracer that may fail at any call.             *)
(*                                                                         *)
(* Fields, scores and costs are left out.  A span is known by its place in *)
(* the order in which the tracer recorded them; one that was not recorded  *)
(* is Unrecorded, and records nothing of what is opened under it.          *)
(***************************************************************************)
EXTENDS Integers, Sequences, FiniteSets

CONSTANTS
    TraceRequests,  \* the traced requests
    MaxNesting,     \* bound: how many spans a request has open at most
    MaxSpans        \* bound: how many spans are recorded at most

ASSUME TracingAssumption == MaxNesting \in Nat \ {0} /\ MaxSpans \in Nat

VARIABLES
    context,    \* each request's context variables: span stack and trace id
    open,       \* the spans a request is inside of, with what leaving them restores
    traced,     \* the spans recorded: request, parent, trace id
    minted,     \* how many trace ids were minted
    phase,      \* "endpoint", then "stream" for a streamed answer, then "done"
    adopted     \* the root span and the trace id that a stream takes up

tracingVars == <<context, open, traced, minted, phase, adopted>>

-----------------------------------------------------------------------------
Unrecorded == 0
NoTrace == 0
NoParent == -1      \* the span stack is empty

Empty == [stack |-> << >>, trace |-> NoTrace]

TracingTypeOK ==
    /\ \A r \in TraceRequests :
          /\ context[r].trace \in 0 .. minted
          /\ \A i \in DOMAIN context[r].stack : context[r].stack[i] \in 0 .. Len(traced)
    /\ \A i \in DOMAIN traced : traced[i].parent \in -1 .. Len(traced)
    /\ minted \in Nat
    /\ phase \in [TraceRequests -> {"endpoint", "stream", "done"}]

TracingInit ==
    /\ context = [r \in TraceRequests |-> Empty]
    /\ open = [r \in TraceRequests |-> << >>]
    /\ traced = << >> /\ minted = 0
    /\ phase = [r \in TraceRequests |-> "endpoint"]
    /\ adopted = [r \in TraceRequests |-> [span |-> Unrecorded, trace |-> NoTrace]]

\* Fault: one span stack for all requests, as a module global would be.
CurrentOfAny(r) ==
    LET other == {o \in TraceRequests : context[o].stack # << >>}
    IN  IF other = {} THEN NoParent
        ELSE LET o == CHOOSE o \in other : TRUE IN context[o].stack[Len(context[o].stack)]

\* current_span.
Current(r) ==
    IF context[r].stack = << >> THEN NoParent ELSE context[r].stack[Len(context[r].stack)]

Push(stack, span) == Append(stack, span)

\* A span opens: a root takes the trace id of the context or mints one, a child inherits.
\* The tracer may fail, and what it cannot attach to a recorded parent it does not record.
OpenSpan(r) ==
    LET parent == Current(r)
        fresh  == parent = NoParent /\ context[r].trace = NoTrace
        tid    == IF fresh THEN minted + 1 ELSE context[r].trace
    IN  /\ Len(open[r]) < MaxNesting
        /\ minted' = IF fresh THEN minted + 1 ELSE minted
        /\ \E recorded \in BOOLEAN :
              /\ recorded => parent # Unrecorded /\ Len(traced) < MaxSpans
              /\ traced' = IF recorded
                           THEN Append(traced, [request |-> r, parent |-> parent, trace |-> tid])
                           ELSE traced
              /\ LET span == IF recorded THEN Len(traced) + 1 ELSE Unrecorded
                 IN  /\ open' = [open EXCEPT ![r] = Append(@, context[r])]
                     /\ context' = [context EXCEPT ![r] =
                                       [stack |-> Push(@.stack, span), trace |-> tid]]
                     /\ adopted' = IF open[r] = << >> /\ phase[r] = "endpoint"
                                   THEN [adopted EXCEPT ![r] = [span |-> span, trace |-> tid]]
                                   ELSE adopted

\* A request first opens its root span.
EnterSpan(r) ==
    /\ phase[r] = "stream" => open[r] # << >>
    /\ phase[r] # "done"
    /\ OpenSpan(r)
    /\ UNCHANGED phase

\* Fault: leaving a span resets the trace id and leaves the stack.
RestoreTraceOnly(r, saved) == [stack |-> context[r].stack, trace |-> saved.trace]

\* pop_span and reset_trace_id give back what was there when the span was opened.
Restore(r, saved) == saved

\* A span closes, normally or by an exception that goes on; with its root an endpoint
\* ends, and a streamed answer begins.
ExitSpan(r) ==
    /\ open[r] # << >>
    /\ phase[r] = "stream" => Len(open[r]) > 1
    /\ LET depth == Len(open[r])
       IN  /\ context' = [context EXCEPT ![r] = Restore(r, open[r][depth])]
           /\ open' = [open EXCEPT ![r] = SubSeq(@, 1, depth - 1)]
           /\ IF depth > 1 THEN UNCHANGED phase
              ELSE \E p \in {"stream", "done"} : phase' = [phase EXCEPT ![r] = p]
    /\ UNCHANGED <<traced, minted, adopted>>

\* Fault: the stream takes up the trace id only.
AdoptTraceOnly(r) ==
    /\ phase[r] = "stream" /\ open[r] = << >>
    /\ open' = [open EXCEPT ![r] = << context[r] >>]
    /\ context' = [context EXCEPT ![r] = [stack |-> @.stack, trace |-> adopted[r].trace]]
    /\ UNCHANGED <<traced, minted, phase, adopted>>

\* The stream's generator puts the root span, closed by now, back on the stack.
Adopt(r) ==
    /\ phase[r] = "stream" /\ open[r] = << >>
    /\ open' = [open EXCEPT ![r] = << context[r] >>]
    /\ context' = [context EXCEPT ![r] = [stack |-> Push(@.stack, adopted[r].span),
                                          trace |-> adopted[r].trace]]
    /\ UNCHANGED <<traced, minted, phase, adopted>>

\* The stream ends, and its spans were closed before, by the client's leaving if need be.
EndAdopt(r) ==
    /\ phase[r] = "stream" /\ Len(open[r]) = 1
    /\ context' = [context EXCEPT ![r] = Restore(r, open[r][1])]
    /\ open' = [open EXCEPT ![r] = << >>]
    /\ phase' = [phase EXCEPT ![r] = "done"]
    /\ UNCHANGED <<traced, minted, adopted>>

TracingNext == \E r \in TraceRequests : EnterSpan(r) \/ ExitSpan(r) \/ Adopt(r) \/ EndAdopt(r)

TracingSpec == TracingInit /\ [][TracingNext]_tracingVars

-----------------------------------------------------------------------------
(* Properties.                                                             *)

\* The spans of a request are one tree with one trace id, of which no other request has a
\* part, in the stream as before it, whatever the tracer fails to record; and a request
\* that is over leaves no span and no trace id behind (span, adopt).
OneTreePerRequest ==
    /\ \A i \in DOMAIN traced : traced[i].parent # NoParent =>
          LET p == traced[traced[i].parent]
          IN  p.request = traced[i].request /\ p.trace = traced[i].trace
    /\ \A i, j \in DOMAIN traced :
          (traced[i].parent = NoParent /\ traced[j].parent = NoParent /\ i # j) =>
              traced[i].request # traced[j].request /\ traced[i].trace # traced[j].trace
    /\ \A r \in TraceRequests : phase[r] = "done" => context[r] = Empty

=============================================================================
