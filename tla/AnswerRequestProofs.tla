------------------------- MODULE AnswerRequestProofs -------------------------
(***************************************************************************)
(* Proofs about AnswerRequest, for every set of requests, chunks, questions*)
(* and models and for all bounds.  First what a client is sent, and that a *)
(* deleted document is not served, in which the cache is left open: what it*)
(* holds plays no part.  Then the types, the cache, and whose answer it is *)
(* that a request gets.                                                    *)
(***************************************************************************)
EXTENDS AnswerRequest, TLAPS

Labels == {"new", "lookup", "retrieve", "widen", "generate", "tokens", "verify", "save",
           "verdict", "hit", "over"}

Fields == {"stream", "cacheable", "late", "top", "plain", "answer"}

SentEvents == [type : {"token", "done", "verification"}, piece : Nat]

Shaped(r) ==
    /\ pc[r] \in Labels
    /\ Fields \subseteq DOMAIN req[r] /\ req[r].stream \in BOOLEAN
    /\ events[r] \in Seq(SentEvents)

\* The first n events are the pieces of the answer, in order.
PiecesUpTo(e, n) == \A i \in 1 .. n : e[i].type = "token" /\ e[i].piece = i

\* The terminal token is the last event.
Terminated(e) == Len(e) > 0 /\ e[Len(e)].type = "done" /\ PiecesUpTo(e, Len(e) - 1)

\* What was sent, by where the request is.
SentSoFar(r) ==
    /\ pc[r] \in {"new", "lookup", "retrieve", "widen", "generate", "hit"} => events[r] = << >>
    /\ pc[r] = "tokens" => req[r].stream /\ PiecesUpTo(events[r], Len(events[r]))
    /\ pc[r] \in {"verify", "save"} =>
          IF req[r].stream THEN Terminated(events[r]) ELSE events[r] = << >>
    /\ pc[r] = "verdict" => Terminated(events[r])

WellFormed(e) ==
    \A i \in DOMAIN e :
        /\ e[i].type = "token" => e[i].piece = i
        /\ e[i].type = "done" => \A j \in 1 .. i - 1 : e[j].type = "token"
        /\ e[i].type = "verification" => i = Len(e) /\ i > 1 /\ e[i - 1].type = "done"

\* Before its lookup a request is not late and has no answer, and one that is late finds
\* nothing to answer from.
Unanswered(r) ==
    /\ pc[r] \in {"new", "lookup"} => ~req[r].late /\ req[r].answer = NoAnswer
    /\ req[r].late =>
          /\ doc = "deleted" /\ pc[r] \in {"retrieve", "over"}
          /\ req[r].answer = NoAnswer /\ events[r] = << >>

Kept(r) == Shaped(r) /\ SentSoFar(r) /\ WellFormed(events[r]) /\ Unanswered(r)

\* A document that is being deleted has no chunks left in the store.
DocInv == doc \in {"stored", "emptied", "deleted"} /\ (doc # "stored" => indexed = {})

Functions == DOMAIN pc = Requests /\ DOMAIN req = Requests /\ DOMAIN events = Requests

AnswerInv == DocInv /\ Functions /\ \A r \in Requests : Kept(r)

-----------------------------------------------------------------------------
\* Only one request moves, and the document stays.
LEMMA OneMoves ==
    ASSUME AnswerInv, NEW r \in Requests, UNCHANGED docVars, Functions', Kept(r)',
           \A o \in Requests \ {r} :
               pc'[o] = pc[o] /\ req'[o] = req[o] /\ events'[o] = events[o]
    PROVE  AnswerInv'
<1>1. DocInv'
  BY DEF AnswerInv, DocInv, docVars
<1>2. \A o \in Requests \ {r} : Kept(o)'
  BY DEF AnswerInv, Kept, Shaped, SentSoFar, Unanswered, docVars
<1> QED
  BY <1>1, <1>2 DEF AnswerInv

\* The document changes, and no request moves.
LEMMA DocMoves ==
    ASSUME AnswerInv, DocInv', UNCHANGED <<pc, req, events>>, doc = "deleted" => doc' = "deleted"
    PROVE  AnswerInv'
<1>1. \A o \in Requests : Kept(o)'
  BY DEF AnswerInv, Kept, Shaped, SentSoFar, Unanswered
<1> QED
  BY <1>1 DEF AnswerInv, Functions

\* What is sent is the events before and one more.
LEMMA Sending ==
    ASSUME AnswerInv, NEW r \in Requests, NEW type \in {"token", "done", "verification"},
           NEW piece \in Nat, Send(r, type, piece)
    PROVE  /\ DOMAIN events' = Requests /\ events'[r] \in Seq(SentEvents)
           /\ Len(events'[r]) = Len(events[r]) + 1 /\ Len(events[r]) \in Nat
           /\ DOMAIN events'[r] = 1 .. Len(events[r]) + 1
           /\ DOMAIN events[r] = 1 .. Len(events[r])
           /\ \A i \in 1 .. Len(events[r]) : events'[r][i] = events[r][i]
           /\ events'[r][Len(events[r]) + 1].type = type
           /\ events'[r][Len(events[r]) + 1].piece = piece
           /\ \A o \in Requests \ {r} : events'[o] = events[o]
<1> DEFINE ev == [type |-> type, piece |-> piece]
<1>1. ev \in SentEvents /\ ev.type = type /\ ev.piece = piece
  BY DEF SentEvents
<1>2. events[r] \in Seq(SentEvents) /\ DOMAIN events = Requests
  BY DEF AnswerInv, Kept, Shaped, Functions
<1>3. events' = [events EXCEPT ![r] = Append(events[r], ev)]
  BY DEF Send
<1> HIDE DEF ev
<1> QED
  BY <1>1, <1>2, <1>3

LEMMA Going ==
    ASSUME AnswerInv, NEW r \in Requests, NEW label \in Labels, Goto(r, label)
    PROVE  /\ DOMAIN pc' = Requests /\ pc'[r] = label
           /\ \A o \in Requests \ {r} : pc'[o] = pc[o]
BY DEF AnswerInv, Functions, Goto

LEMMA Returning ==
    ASSUME AnswerInv, NEW r \in Requests, Return(r)
    PROVE  /\ DOMAIN pc' = Requests /\ pc'[r] = "over"
           /\ DOMAIN req' = Requests /\ Fields \subseteq DOMAIN req'[r]
           /\ req'[r].stream = req[r].stream /\ req'[r].late = req[r].late
           /\ req'[r].answer = req[r].answer
           /\ \A o \in Requests \ {r} : pc'[o] = pc[o] /\ req'[o] = req[o]
<1>1. Goto(r, "over") /\ "over" \in Labels
  BY DEF Return, Labels
<1>2. DOMAIN req = Requests /\ Fields \subseteq DOMAIN req[r]
  BY DEF AnswerInv, Functions, Kept, Shaped
<1>3. req' = [req EXCEPT ![r].top = {}, ![r].plain = FALSE, ![r].cacheable = FALSE]
  BY DEF Return
<1>4. /\ DOMAIN req' = Requests /\ Fields \subseteq DOMAIN req'[r]
      /\ \A o \in Requests \ {r} : req'[o] = req[o]
  BY <1>2, <1>3 DEF Fields
<1>5. /\ req'[r].stream = req[r].stream /\ req'[r].late = req[r].late
      /\ req'[r].answer = req[r].answer
  BY <1>2, <1>3 DEF Fields
<1> QED
  BY <1>1, <1>4, <1>5, Going

\* A request that ends or loses its client, with what it was sent so far.
LEMMA ReturnKeeps ==
    ASSUME AnswerInv, NEW r \in Requests, Return(r), UNCHANGED <<docVars, events>>
    PROVE  AnswerInv'
<1>1. /\ DOMAIN pc' = Requests /\ pc'[r] = "over"
      /\ DOMAIN req' = Requests /\ Fields \subseteq DOMAIN req'[r]
      /\ req'[r].stream = req[r].stream /\ req'[r].late = req[r].late
      /\ req'[r].answer = req[r].answer
      /\ \A o \in Requests \ {r} : pc'[o] = pc[o] /\ req'[o] = req[o]
  BY Returning
<1>2. Kept(r)'
  BY <1>1 DEF AnswerInv, Kept, Shaped, SentSoFar, Unanswered, Labels, docVars
<1> QED
  BY <1>1, <1>2, OneMoves DEF AnswerInv, Functions

\* A request that goes on with nothing sent: what has to be shown of where it goes.
LEMMA SilentKeeps ==
    ASSUME AnswerInv, NEW r \in Requests, NEW label \in Labels \ {"new", "lookup", "verdict"},
           Goto(r, label), UNCHANGED <<docVars, events>>,
           DOMAIN req' = Requests, Fields \subseteq DOMAIN req'[r],
           req'[r].stream = req[r].stream,
           \A o \in Requests \ {r} : req'[o] = req[o],
           ~req'[r].late,
           events[r] = << >>,
           label \in {"verify", "save"} => ~req[r].stream,
           label = "tokens" => req[r].stream
    PROVE  AnswerInv'
<1>1. /\ DOMAIN pc' = Requests /\ pc'[r] = label
      /\ \A o \in Requests \ {r} : pc'[o] = pc[o]
  BY Going
<1>2. Shaped(r)'
  BY <1>1 DEF AnswerInv, Kept, Shaped
<1>3. SentSoFar(r)'
  BY <1>1 DEF SentSoFar, PiecesUpTo
<1>4. WellFormed(events[r])' /\ Unanswered(r)'
  BY <1>1 DEF AnswerInv, Kept, Unanswered
<1> QED
  BY <1>1, <1>2, <1>3, <1>4, OneMoves DEF AnswerInv, Functions, Kept

-----------------------------------------------------------------------------
(* Every step keeps the invariant.                                         *)

LEMMA AnswerInitKeeps == Init => AnswerInv
<1> SUFFICES ASSUME Init PROVE AnswerInv
  OBVIOUS
<1>1. DocInv /\ Functions
  BY DEF Init, DocInv, Functions
<1>2. ASSUME NEW r \in Requests PROVE Kept(r)
  <2>1. pc[r] = "new" /\ req[r] = NoReq /\ events[r] = << >>
    BY DEF Init
  <2>2. /\ Fields \subseteq DOMAIN req[r] /\ req[r].stream = FALSE /\ req[r].late = FALSE
        /\ req[r].answer = NoAnswer
    BY <2>1 DEF NoReq, Fields
  <2>3. << >> \in Seq(SentEvents)
    OBVIOUS
  <2>4. Shaped(r)
    BY <2>1, <2>2, <2>3 DEF Shaped, Labels
  <2> QED
    BY <2>1, <2>2, <2>4 DEF Kept, SentSoFar, WellFormed, Unanswered
<1> QED
  BY <1>1, <1>2 DEF AnswerInv

LEMMA DocumentKeeps == AnswerInv /\ Document => AnswerInv'
<1> SUFFICES ASSUME AnswerInv, Document PROVE AnswerInv'
  OBVIOUS
<1>1. DocInv' /\ UNCHANGED <<pc, req, events>> /\ (doc = "deleted" => doc' = "deleted")
  BY DEF AnswerInv, DocInv, Document, Index, RemoveVectors, RemoveRow
<1> QED
  BY <1>1, DocMoves

LEMMA ExpireKeeps == AnswerInv /\ Expire => AnswerInv'
<1> SUFFICES ASSUME AnswerInv, Expire PROVE AnswerInv'
  OBVIOUS
<1> QED
  BY DocMoves DEF Expire, docVars, AnswerInv, DocInv

LEMMA AskKeeps ==
    ASSUME AnswerInv, NEW r \in Requests, Ask(r)
    PROVE  AnswerInv'
<1>1. PICK q \in Questions, m \in Models, s \in BOOLEAN :
         req' = [req EXCEPT ![r] =
                    [question |-> q, model |-> m, stream |-> s, cacheable |-> FALSE,
                     late |-> FALSE, top |-> {}, plain |-> FALSE, answer |-> NoAnswer]]
  BY DEF Ask
<1>2. /\ DOMAIN req' = Requests /\ \A o \in Requests \ {r} : req'[o] = req[o]
      /\ Fields \subseteq DOMAIN req'[r] /\ req'[r].stream \in BOOLEAN
      /\ req'[r].late = FALSE /\ req'[r].answer = NoAnswer
  BY <1>1 DEF AnswerInv, Functions, Fields
<1>3. /\ DOMAIN pc' = Requests /\ pc'[r] = "lookup"
      /\ \A o \in Requests \ {r} : pc'[o] = pc[o]
  BY Going DEF Ask, Labels
<1>4. events[r] = << >> /\ UNCHANGED <<docVars, events>>
  BY DEF Ask, AnswerInv, Kept, SentSoFar
<1>5. Kept(r)'
  BY <1>2, <1>3, <1>4
  DEF AnswerInv, Kept, Shaped, SentSoFar, Unanswered, Labels
<1> QED
  BY <1>2, <1>3, <1>4, <1>5, OneMoves DEF AnswerInv, Functions

\* With the row gone there is neither a hit nor an answer.
LEMMA LookupKeeps ==
    ASSUME AnswerInv, NEW r \in Requests, Lookup(r)
    PROVE  AnswerInv'
<1> DEFINE hit == IF doc = "deleted" THEN {} ELSE Live(Key(req[r].question, req[r].model))
<1>1. /\ pc[r] = "lookup" /\ UNCHANGED <<docVars, events>> /\ events[r] = << >>
      /\ DOMAIN req = Requests /\ Fields \subseteq DOMAIN req[r]
      /\ ~req[r].late /\ req[r].answer = NoAnswer /\ req[r].stream \in BOOLEAN
  BY DEF Lookup, AnswerInv, Functions, Kept, Shaped, SentSoFar, Unanswered
<1>2. CASE hit # {}
  <2>1. doc # "deleted" /\ \E i \in hit : req' = [req EXCEPT ![r].answer = Payload(cache[i])]
    BY <1>2 DEF Lookup
  <2>2. PICK label \in {"hit", "over"} : Goto(r, label)
    BY <1>2 DEF Lookup
  <2>3. /\ DOMAIN req' = Requests /\ Fields \subseteq DOMAIN req'[r]
        /\ req'[r].stream = req[r].stream /\ req'[r].late = req[r].late
        /\ \A o \in Requests \ {r} : req'[o] = req[o]
    BY <1>1, <2>1 DEF Fields
  <2> QED
    BY <1>1, <2>2, <2>3, SilentKeeps DEF Labels
<1>3. CASE hit = {}
  <2>1. req' = [req EXCEPT ![r].cacheable = doc # "deleted", ![r].late = doc = "deleted"]
    BY <1>3 DEF Lookup
  <2> DEFINE cacheable == doc # "deleted"
             late == doc = "deleted"
  <2>2. req' = [req EXCEPT ![r].cacheable = cacheable, ![r].late = late]
    BY <2>1
  <2>3. late <=> doc = "deleted"
    OBVIOUS
  <2> HIDE DEF cacheable, late
  <2>4. /\ DOMAIN req' = Requests /\ Fields \subseteq DOMAIN req'[r]
        /\ req'[r].stream = req[r].stream /\ req'[r].answer = req[r].answer
        /\ \A o \in Requests \ {r} : req'[o] = req[o]
    BY <1>1, <2>2 DEF Fields
  <2>5. req'[r].late = late
    BY <1>1, <2>2 DEF Fields
  <2>6. /\ DOMAIN pc' = Requests /\ pc'[r] = "retrieve"
        /\ \A o \in Requests \ {r} : pc'[o] = pc[o]
    BY <1>3, Going DEF Lookup, Labels
  <2>7. Kept(r)'
    BY <1>1, <2>3, <2>4, <2>5, <2>6
    DEF AnswerInv, Kept, Shaped, SentSoFar, Unanswered, Labels, docVars
  <2> QED
    BY <1>1, <2>4, <2>6, <2>7, OneMoves DEF AnswerInv, Functions
<1> QED
  BY <1>2, <1>3

\* A request that is late finds no chunk: its document has none left.
LEMMA RetrieveKeeps ==
    ASSUME AnswerInv, NEW r \in Requests, Retrieve(r)
    PROVE  AnswerInv'
<1>1. /\ UNCHANGED <<docVars, events>> /\ events[r] = << >>
      /\ DOMAIN req = Requests /\ Fields \subseteq DOMAIN req[r]
      /\ req[r].late => indexed = {}
  BY DEF Retrieve, AnswerInv, DocInv, Functions, Kept, Shaped, SentSoFar, Unanswered
<1>2. CASE Return(r)
  BY <1>1, <1>2, ReturnKeeps
<1>3. CASE \E top \in (SUBSET indexed) \ {{}} :
              /\ req' = [req EXCEPT ![r].top = top]
              /\ Goto(r, "generate") \/ Goto(r, "widen")
  <2>1. PICK top \in (SUBSET indexed) \ {{}} :
           /\ req' = [req EXCEPT ![r].top = top]
           /\ Goto(r, "generate") \/ Goto(r, "widen")
    BY <1>3
  <2>2. indexed # {}
    OBVIOUS
  <2>3. PICK label \in {"generate", "widen"} : Goto(r, label)
    BY <2>1
  <2>4. /\ DOMAIN req' = Requests /\ Fields \subseteq DOMAIN req'[r]
        /\ req'[r].stream = req[r].stream /\ req'[r].late = req[r].late
        /\ \A o \in Requests \ {r} : req'[o] = req[o]
    BY <1>1, <2>1 DEF Fields
  <2>5. ~req'[r].late
    BY <1>1, <2>2, <2>4 DEF AnswerInv, Kept, Unanswered
  <2> QED
    BY <1>1, <2>3, <2>4, <2>5, SilentKeeps DEF Labels
<1> QED
  BY <1>2, <1>3 DEF Retrieve

LEMMA WidenKeeps ==
    ASSUME AnswerInv, NEW r \in Requests, Widen(r)
    PROVE  AnswerInv'
<1>1. /\ pc[r] = "widen" /\ UNCHANGED <<docVars, events>> /\ Goto(r, "generate")
      /\ DOMAIN req = Requests /\ Fields \subseteq DOMAIN req[r]
      /\ events[r] = << >> /\ ~req[r].late
  BY DEF Widen, AnswerInv, Functions, Kept, Shaped, SentSoFar, Unanswered
<1>2. PICK more \in SUBSET indexed : req' = [req EXCEPT ![r].top = @ \cup more]
  BY DEF Widen
<1>3. /\ DOMAIN req' = Requests /\ Fields \subseteq DOMAIN req'[r]
      /\ req'[r].stream = req[r].stream /\ req'[r].late = req[r].late
      /\ \A o \in Requests \ {r} : req'[o] = req[o]
  BY <1>1, <1>2 DEF Fields
<1> QED
  BY <1>1, <1>3, SilentKeeps DEF Labels

LEMMA GenerateKeeps ==
    ASSUME AnswerInv, NEW r \in Requests, Generate(r)
    PROVE  AnswerInv'
<1>1. /\ pc[r] = "generate" /\ UNCHANGED <<docVars, events>>
      /\ DOMAIN req = Requests /\ Fields \subseteq DOMAIN req[r]
      /\ events[r] = << >> /\ ~req[r].late /\ req[r].stream \in BOOLEAN
  BY DEF Generate, AnswerInv, Functions, Kept, Shaped, SentSoFar, Unanswered
<1>2. CASE Return(r)
  BY <1>1, <1>2, ReturnKeeps
<1>3. CASE Goto(r, IF req[r].stream THEN "tokens" ELSE "verify") /\ UNCHANGED req
  <2>1. CASE req[r].stream
    BY <1>1, <1>3, <2>1, SilentKeeps DEF Labels
  <2>2. CASE ~req[r].stream
    BY <1>1, <1>3, <2>2, SilentKeeps DEF Labels
  <2> QED
    BY <1>1, <2>1, <2>2
<1> QED
  BY <1>2, <1>3 DEF Generate

-----------------------------------------------------------------------------
(* The stream.                                                             *)

\* The facts about a request that sends, whatever it sends.
LEMMA InStream ==
    ASSUME AnswerInv, NEW r \in Requests, pc[r] \in {"tokens", "hit"}
    PROVE  /\ ~req[r].late /\ PiecesUpTo(events[r], Len(events[r]))
           /\ events[r] \in Seq(SentEvents) /\ Len(events[r]) \in Nat
           /\ pc[r] = "tokens" => req[r].stream
<1>1. events[r] \in Seq(SentEvents) /\ Len(events[r]) \in Nat
  BY DEF AnswerInv, Kept, Shaped
<1>2. PiecesUpTo(events[r], Len(events[r]))
  BY <1>1 DEF AnswerInv, Kept, SentSoFar, PiecesUpTo
<1> QED
  BY <1>1, <1>2 DEF AnswerInv, Kept, SentSoFar, Unanswered

LEMMA TokenKeeps ==
    ASSUME AnswerInv, NEW r \in Requests, Token(r)
    PROVE  AnswerInv'
<1>1. /\ pc[r] = "tokens" /\ UNCHANGED <<docVars, pc, req>>
      /\ Send(r, "token", Len(events[r]) + 1)
  BY DEF Token, Pieces
<1>2. /\ ~req[r].late /\ PiecesUpTo(events[r], Len(events[r])) /\ req[r].stream
      /\ Len(events[r]) \in Nat
  BY <1>1, InStream
<1>3. /\ DOMAIN events' = Requests /\ events'[r] \in Seq(SentEvents)
      /\ Len(events'[r]) = Len(events[r]) + 1
      /\ DOMAIN events'[r] = 1 .. Len(events[r]) + 1
      /\ \A i \in 1 .. Len(events[r]) : events'[r][i] = events[r][i]
      /\ events'[r][Len(events[r]) + 1].type = "token"
      /\ events'[r][Len(events[r]) + 1].piece = Len(events[r]) + 1
      /\ \A o \in Requests \ {r} : events'[o] = events[o]
  BY <1>1, <1>2, Sending
<1>4. PiecesUpTo(events'[r], Len(events'[r]))
  BY <1>2, <1>3 DEF PiecesUpTo
<1>5. WellFormed(events'[r])
  BY <1>2, <1>3, <1>4 DEF PiecesUpTo, WellFormed
<1>6. Kept(r)'
  BY <1>1, <1>2, <1>3, <1>4, <1>5 DEF AnswerInv, Kept, Shaped, SentSoFar, Unanswered
<1> QED
  BY <1>1, <1>3, <1>6, OneMoves DEF AnswerInv, Functions

\* The terminal token, after pieces only.
LEMMA DoneKeeps ==
    ASSUME AnswerInv, NEW r \in Requests, pc[r] \in {"tokens", "hit"}, Send(r, "done", 0),
           UNCHANGED <<docVars, req>>,
           \/ Goto(r, "verdict")
           \/ Goto(r, "verify") /\ pc[r] = "tokens"
    PROVE  AnswerInv'
<1>1. /\ ~req[r].late /\ PiecesUpTo(events[r], Len(events[r])) /\ Len(events[r]) \in Nat
      /\ pc[r] = "tokens" => req[r].stream
  BY InStream
<1>2. /\ DOMAIN events' = Requests /\ events'[r] \in Seq(SentEvents)
      /\ Len(events'[r]) = Len(events[r]) + 1
      /\ DOMAIN events'[r] = 1 .. Len(events[r]) + 1
      /\ \A i \in 1 .. Len(events[r]) : events'[r][i] = events[r][i]
      /\ events'[r][Len(events[r]) + 1].type = "done"
      /\ \A o \in Requests \ {r} : events'[o] = events[o]
  BY Sending
<1>3. Terminated(events'[r])
  BY <1>1, <1>2 DEF Terminated, PiecesUpTo
<1>4. WellFormed(events'[r])
  BY <1>1, <1>2 DEF PiecesUpTo, WellFormed
<1>5. PICK label \in {"verdict", "verify"} :
         Goto(r, label) /\ (label = "verify" => req[r].stream)
  BY <1>1
<1>6. /\ DOMAIN pc' = Requests /\ pc'[r] = label
      /\ \A o \in Requests \ {r} : pc'[o] = pc[o]
  BY <1>5, Going DEF Labels
<1>7. Kept(r)'
  BY <1>1, <1>2, <1>3, <1>4, <1>5, <1>6
  DEF AnswerInv, Kept, Shaped, SentSoFar, Unanswered, Labels
<1> QED
  BY <1>2, <1>6, <1>7, OneMoves DEF AnswerInv, Functions

LEMMA FallBackKeeps ==
    ASSUME AnswerInv, NEW r \in Requests, FallBack(r)
    PROVE  AnswerInv'
<1>1. /\ UNCHANGED <<docVars, pc, events>> /\ req' = [req EXCEPT ![r].plain = TRUE]
      /\ DOMAIN req = Requests /\ Fields \subseteq DOMAIN req[r]
  BY DEF FallBack, AnswerInv, Functions, Kept, Shaped
<1>2. /\ DOMAIN req' = Requests /\ Fields \subseteq DOMAIN req'[r]
      /\ req'[r].stream = req[r].stream /\ req'[r].late = req[r].late
      /\ req'[r].answer = req[r].answer
      /\ \A o \in Requests \ {r} : req'[o] = req[o]
  BY <1>1 DEF Fields
<1>3. Kept(r)'
  BY <1>1, <1>2 DEF AnswerInv, Kept, Shaped, SentSoFar, Unanswered, docVars
<1> QED
  BY <1>1, <1>2, <1>3, OneMoves DEF AnswerInv, Functions

\* The answer is put together; what was sent stays.
LEMMA VerifyKeeps ==
    ASSUME AnswerInv, NEW r \in Requests, Verify(r)
    PROVE  AnswerInv'
<1>0. SUFFICES ASSUME ~Return(r) PROVE AnswerInv'
  BY ReturnKeeps DEF Verify
<1>1. /\ UNCHANGED <<docVars, events>> /\ pc[r] = "verify" /\ Goto(r, "save")
      /\ DOMAIN req = Requests /\ Fields \subseteq DOMAIN req[r]
  BY <1>0 DEF Verify, AnswerInv, Functions, Kept, Shaped
<1>2. PICK answer : req' = [req EXCEPT ![r].answer = answer]
  BY <1>0 DEF Verify
<1>3. /\ DOMAIN req' = Requests /\ Fields \subseteq DOMAIN req'[r]
      /\ req'[r].stream = req[r].stream /\ req'[r].late = req[r].late
      /\ \A o \in Requests \ {r} : req'[o] = req[o]
  BY <1>1, <1>2 DEF Fields
<1>4. /\ DOMAIN pc' = Requests /\ pc'[r] = "save"
      /\ \A o \in Requests \ {r} : pc'[o] = pc[o]
  BY <1>1, Going DEF Labels
<1>5. Kept(r)'
  BY <1>1, <1>3, <1>4 DEF AnswerInv, Kept, Shaped, SentSoFar, Unanswered, Labels
<1> QED
  BY <1>1, <1>3, <1>4, <1>5, OneMoves DEF AnswerInv, Functions

LEMMA SaveKeeps ==
    ASSUME AnswerInv, NEW r \in Requests, Save(r)
    PROVE  AnswerInv'
<1>1. UNCHANGED <<docVars, events>> /\ pc[r] = "save"
  BY DEF Save
<1>2. CASE Return(r)
  BY <1>1, <1>2, ReturnKeeps
<1>3. CASE req[r].stream /\ Goto(r, "verdict") /\ UNCHANGED req
  <2>1. /\ DOMAIN pc' = Requests /\ pc'[r] = "verdict"
        /\ \A o \in Requests \ {r} : pc'[o] = pc[o]
    BY <1>3, Going DEF Labels
  <2>2. Kept(r)'
    BY <1>1, <1>3, <2>1 DEF AnswerInv, Kept, Shaped, SentSoFar, Unanswered, Labels
  <2> QED
    BY <1>1, <1>3, <2>1, <2>2, OneMoves DEF AnswerInv, Functions
<1> QED
  BY <1>2, <1>3 DEF Save

\* The verification comes right after the terminal token.
LEMMA SendVerdictKeeps ==
    ASSUME AnswerInv, NEW r \in Requests, SendVerdict(r)
    PROVE  AnswerInv'
<1>1. /\ UNCHANGED docVars /\ pc[r] = "verdict" /\ Send(r, "verification", 0) /\ Return(r)
      /\ Terminated(events[r]) /\ ~req[r].late /\ req[r].stream \in BOOLEAN
  BY DEF SendVerdict, AnswerInv, Kept, Shaped, SentSoFar, Unanswered
<1>2. /\ DOMAIN events' = Requests /\ events'[r] \in Seq(SentEvents)
      /\ Len(events'[r]) = Len(events[r]) + 1 /\ Len(events[r]) \in Nat
      /\ DOMAIN events'[r] = 1 .. Len(events[r]) + 1
      /\ \A i \in 1 .. Len(events[r]) : events'[r][i] = events[r][i]
      /\ events'[r][Len(events[r]) + 1].type = "verification"
      /\ \A o \in Requests \ {r} : events'[o] = events[o]
  BY <1>1, Sending
<1>3. WellFormed(events'[r])
  <2> DEFINE n == Len(events[r])
  <2>1. n > 0 /\ events'[r][n].type = "done"
    BY <1>1, <1>2 DEF Terminated
  <2>2. \A i \in 1 .. n - 1 : events'[r][i].type = "token" /\ events'[r][i].piece = i
    BY <1>1, <1>2 DEF Terminated, PiecesUpTo
  <2>3. DOMAIN events'[r] = (1 .. n - 1) \cup {n, n + 1}
    BY <1>2, <2>1
  <2>4. events'[r][n + 1].type = "verification" /\ Len(events'[r]) = n + 1 /\ n \in Nat
    BY <1>2
  <2> HIDE DEF n
  <2> QED
    BY <2>1, <2>2, <2>3, <2>4 DEF WellFormed
<1>4. /\ DOMAIN pc' = Requests /\ pc'[r] = "over"
      /\ DOMAIN req' = Requests /\ Fields \subseteq DOMAIN req'[r]
      /\ req'[r].stream = req[r].stream /\ req'[r].late = req[r].late
      /\ \A o \in Requests \ {r} : pc'[o] = pc[o] /\ req'[o] = req[o]
  BY <1>1, Returning
<1>5. Kept(r)'
  BY <1>1, <1>2, <1>3, <1>4 DEF Kept, Shaped, SentSoFar, Unanswered, Labels
<1> QED
  BY <1>1, <1>2, <1>4, <1>5, OneMoves DEF AnswerInv, Functions

-----------------------------------------------------------------------------
LEMMA RequestKeeps ==
    ASSUME AnswerInv, NEW r \in Requests, Step(r) \/ Client(r)
    PROVE  AnswerInv'
<1>1. CASE Lookup(r) \/ Retrieve(r) \/ Widen(r) \/ Generate(r)
  BY <1>1, LookupKeeps, RetrieveKeeps, WidenKeeps, GenerateKeeps
<1>2. CASE SendHit(r) \/ StreamError(r) \/ EndStream(r)
  BY <1>2, DoneKeeps DEF SendHit, StreamError, EndStream
<1>3. CASE Token(r) \/ FallBack(r) \/ Verify(r) \/ Save(r) \/ SendVerdict(r)
  BY <1>3, TokenKeeps, FallBackKeeps, VerifyKeeps, SaveKeeps, SendVerdictKeeps
<1>4. CASE Ask(r)
  BY <1>4, AskKeeps
<1>5. CASE Disconnect(r)
  BY <1>5, ReturnKeeps DEF Disconnect
<1> QED
  BY <1>1, <1>2, <1>3, <1>4, <1>5 DEF Step, Client

LEMMA AnswerInvariant == Spec => []AnswerInv
<1>1. AnswerInv /\ [Next]_vars => AnswerInv'
  <2> SUFFICES ASSUME AnswerInv, [Next]_vars PROVE AnswerInv'
    OBVIOUS
  <2>1. CASE UNCHANGED vars
    BY <2>1, DocMoves DEF vars, docVars, AnswerInv, DocInv
  <2> QED
    BY <2>1, DocumentKeeps, ExpireKeeps, RequestKeeps DEF Next
<1> QED
  BY <1>1, AnswerInitKeeps, PTL DEF Spec

\* Whatever the providers, the other requests, the document and the clients do, the events
\* of a stream are pieces in order, then one terminal token, then one verification.
THEOREM StreamsWellFormed == Spec => []StreamWellFormed
<1>1. AnswerInv => StreamWellFormed
  BY DEF AnswerInv, Kept, WellFormed, StreamWellFormed
<1> QED
  BY <1>1, AnswerInvariant, PTL

\* A request that is made when the document is deleted gets no answer and no event,
\* however full of its answers the cache still is.
THEOREM DeletedIsNotServed == Spec => []DeletedNotServed
<1>1. AnswerInv => DeletedNotServed
  BY DEF AnswerInv, Kept, Unanswered, DeletedNotServed
<1> QED
  BY <1>1, AnswerInvariant, PTL

-----------------------------------------------------------------------------
(* The types, and whose answer a request holds.  An entry of the cache is  *)
(* filed under the question and the model of its answer.                   *)

CacheEntries ==
    {e \in [key : Questions \X Models, answer : Answers, expired : BOOLEAN] :
        e.key = Key(e.answer.question, e.answer.model)}

\* A request keeps an answer to its own question by its own model, and has one to save.
Own(r) ==
    /\ req[r].answer # NoAnswer =>
          req[r].answer.question = req[r].question /\ req[r].answer.model = req[r].model
    /\ pc[r] = "save" => req[r].answer # NoAnswer

SentTyped(r) == \A i \in DOMAIN events[r] : events[r][i] \in Events

Typed(r) ==
    /\ pc[r] = "new" => req[r] = NoReq
    /\ pc[r] # "new" => req[r] \in Reqs
    /\ Own(r) /\ SentTyped(r)

TypedInv == AnswerInv /\ indexed \subseteq Chunks /\ \A r \in Requests : Typed(r)

CacheInv == cache \in Seq(CacheEntries) /\ CacheBounded

-----------------------------------------------------------------------------
(* A sequence without one of its elements.                                 *)

LEMMA Removed ==
    ASSUME NEW S, NEW s \in Seq(S), NEW i \in 1 .. Len(s)
    PROVE  /\ RemoveAt(s, i) \in Seq(S) /\ Len(RemoveAt(s, i)) = Len(s) - 1
           /\ \A j \in 1 .. Len(s) - 1 :
                 RemoveAt(s, i)[j] = s[IF j < i THEN j ELSE j + 1]
<1> DEFINE a == SubSeq(s, 1, i - 1)
           b == SubSeq(s, i + 1, Len(s))
<1>1. /\ a \in Seq(S) /\ Len(a) = i - 1
      /\ \A j \in 1 .. i - 1 : a[j] = s[j]
  OBVIOUS
<1>2. /\ b \in Seq(S) /\ Len(b) = Len(s) - i
      /\ \A j \in 1 .. Len(s) - i : b[j] = s[i + j]
  OBVIOUS
<1>3. RemoveAt(s, i) = a \o b
  BY DEF RemoveAt
<1>4. Len(s) \in Nat /\ i \in Nat
  OBVIOUS
<1> HIDE DEF a, b
<1>5. /\ a \o b \in Seq(S) /\ Len(a \o b) = Len(s) - 1
      /\ \A j \in 1 .. Len(s) - 1 :
            (a \o b)[j] = IF j <= i - 1 THEN a[j] ELSE b[j - (i - 1)]
  <2>1. a \in Seq(S) /\ b \in Seq(S)
    BY <1>1, <1>2
  <2>2. /\ a \o b \in Seq(S) /\ Len(a \o b) = Len(a) + Len(b)
        /\ \A j \in 1 .. Len(a) + Len(b) :
              (a \o b)[j] = IF j <= Len(a) THEN a[j] ELSE b[j - Len(a)]
    BY <2>1
  <2>3. Len(a) = i - 1 /\ Len(b) = Len(s) - i /\ Len(a) + Len(b) = Len(s) - 1
    BY <1>1, <1>2, <1>4
  <2> QED
    BY <2>2, <2>3
<1>6. \A j \in 1 .. Len(s) - 1 : (a \o b)[j] = s[IF j < i THEN j ELSE j + 1]
  <2> SUFFICES ASSUME NEW j \in 1 .. Len(s) - 1
               PROVE  (a \o b)[j] = s[IF j < i THEN j ELSE j + 1]
    OBVIOUS
  <2>1. CASE j < i
    BY <1>1, <1>4, <1>5, <2>1
  <2>2. CASE ~(j < i)
    <3>1. j - (i - 1) \in 1 .. Len(s) - i /\ i + (j - (i - 1)) = j + 1
      BY <1>4, <2>2
    <3> QED
      BY <1>2, <1>4, <1>5, <2>2, <3>1
  <2> QED
    BY <2>1, <2>2
<1> QED
  BY <1>3, <1>5, <1>6

\* Without its entry of key k the cache keeps the others, each once.
LEMMA WithoutKeeps ==
    ASSUME CacheInv, NEW k
    PROVE  /\ Without(k) \in Seq(CacheEntries) /\ Len(Without(k)) \in Nat
           /\ Len(Without(k)) <= Len(cache)
           /\ At(k) # {} => Len(Without(k)) < Len(cache)
           /\ \A j \in 1 .. Len(Without(k)) : Without(k)[j].key # k
           /\ \A i, j \in 1 .. Len(Without(k)) :
                 Without(k)[i].key = Without(k)[j].key => i = j
<1>1. /\ cache \in Seq(CacheEntries) /\ DOMAIN cache = 1 .. Len(cache) /\ Len(cache) \in Nat
      /\ \A i, j \in 1 .. Len(cache) : cache[i].key = cache[j].key => i = j
  BY DEF CacheInv, CacheBounded
<1>2. CASE At(k) = {}
  <2>1. Without(k) = cache
    BY <1>2 DEF Without
  <2>2. \A j \in 1 .. Len(cache) : cache[j].key # k
    BY <1>1, <1>2 DEF At
  <2> QED
    BY <1>1, <1>2, <2>1, <2>2
<1>3. CASE At(k) # {}
  <2> DEFINE i == CHOOSE i \in At(k) : TRUE
             w == RemoveAt(cache, i)
  <2>1. i \in At(k)
    BY <1>3
  <2>2. i \in 1 .. Len(cache) /\ cache[i].key = k /\ i \in Nat
    BY <1>1, <2>1 DEF At
  <2>3. Without(k) = w
    BY <1>3 DEF Without
  <2> HIDE DEF i
  <2>4. /\ w \in Seq(CacheEntries) /\ Len(w) = Len(cache) - 1
        /\ \A j \in 1 .. Len(cache) - 1 : w[j] = cache[IF j < i THEN j ELSE j + 1]
    BY <1>1, <2>2, Removed
  <2> HIDE DEF w
  <2> DEFINE old(j) == IF j < i THEN j ELSE j + 1
  <2>5. \A j \in 1 .. Len(w) :
           w[j] = cache[old(j)] /\ old(j) \in 1 .. Len(cache) /\ old(j) # i
    BY <1>1, <2>2, <2>4
  <2>6. \A j, l \in 1 .. Len(w) : old(j) = old(l) => j = l
    BY <1>1, <2>2, <2>4
  <2> HIDE DEF old
  <2>7. \A j \in 1 .. Len(w) : w[j].key # k
    BY <1>1, <2>2, <2>5
  <2>8. \A j, l \in 1 .. Len(w) : w[j].key = w[l].key => j = l
    BY <1>1, <2>5, <2>6
  <2>9. Len(w) \in Nat /\ Len(w) < Len(cache)
    BY <1>1, <2>2, <2>4
  <2> QED
    BY <1>1, <2>3, <2>4, <2>7, <2>8, <2>9
<1> QED
  BY <1>2, <1>3

\* An entry of a key that the others do not have, put last.
LEMMA Appended ==
    ASSUME NEW w \in Seq(CacheEntries), NEW e \in CacheEntries,
           \A j \in 1 .. Len(w) : w[j].key # e.key,
           \A i, j \in 1 .. Len(w) : w[i].key = w[j].key => i = j
    PROVE  /\ Append(w, e) \in Seq(CacheEntries) /\ Len(Append(w, e)) = Len(w) + 1
           /\ \A i, j \in 1 .. Len(w) + 1 :
                 Append(w, e)[i].key = Append(w, e)[j].key => i = j
<1> DEFINE l == Append(w, e)
<1>1. /\ l \in Seq(CacheEntries) /\ Len(l) = Len(w) + 1 /\ l[Len(w) + 1] = e
      /\ \A j \in 1 .. Len(w) : l[j] = w[j]
  OBVIOUS
<1>2. Len(w) \in Nat
  OBVIOUS
<1> HIDE DEF l
<1>3. ASSUME NEW i \in 1 .. Len(w) + 1, NEW j \in 1 .. Len(w) + 1, l[i].key = l[j].key
      PROVE  i = j
  <2>1. CASE i \in 1 .. Len(w) /\ j \in 1 .. Len(w)
    BY <1>1, <1>3, <2>1
  <2>2. CASE i = Len(w) + 1 /\ j \in 1 .. Len(w)
    BY <1>1, <1>3, <2>2
  <2>3. CASE j = Len(w) + 1 /\ i \in 1 .. Len(w)
    BY <1>1, <1>3, <2>3
  <2>4. CASE i = Len(w) + 1 /\ j = Len(w) + 1
    BY <2>4
  <2> QED
    BY <1>2, <2>1, <2>2, <2>3, <2>4
<1>4. \A i, j \in 1 .. Len(w) + 1 : l[i].key = l[j].key => i = j
  BY <1>3
<1> QED
  BY <1>1, <1>4 DEF l

\* What is put into the cache, or found in it, leaves it within its bound.
LEMMA PutKeeps ==
    ASSUME CacheInv, NEW k, NEW a, NEW e \in CacheEntries, e.key = k,
           e = [key |-> k, answer |-> a, expired |-> FALSE], cache' = Put(k, a)
    PROVE  CacheInv'
<1> DEFINE w == Without(k)
           l == Append(w, e)
<1>1. /\ w \in Seq(CacheEntries) /\ Len(w) \in Nat /\ Len(w) <= Len(cache)
      /\ \A j \in 1 .. Len(w) : w[j].key # k
      /\ \A i, j \in 1 .. Len(w) : w[i].key = w[j].key => i = j
  BY WithoutKeeps
<1>2. cache' = IF Len(l) > MaxEntries THEN Tail(l) ELSE l
  BY DEF Put
<1> HIDE DEF w
<1>3. /\ l \in Seq(CacheEntries) /\ Len(l) = Len(w) + 1
      /\ \A i, j \in 1 .. Len(w) + 1 : l[i].key = l[j].key => i = j
  BY <1>1, Appended
<1>4. Len(cache) <= MaxEntries /\ MaxEntries \in Nat /\ Len(cache) \in Nat
  BY BoundsAssumption DEF CacheInv, CacheBounded
<1> HIDE DEF l
<1>5. CASE Len(l) > MaxEntries
  <2>1. /\ cache' \in Seq(CacheEntries) /\ Len(cache') = Len(w)
        /\ \A i \in 1 .. Len(w) : cache'[i] = l[i + 1]
    BY <1>1, <1>2, <1>3, <1>5
  <2>2. \A i, j \in 1 .. Len(w) : l[i + 1].key = l[j + 1].key => i = j
    BY <1>1, <1>3
  <2>3. DOMAIN cache' = 1 .. Len(w) /\ Len(cache') <= MaxEntries
    BY <1>1, <1>4, <2>1
  <2>4. \A i, j \in DOMAIN cache' : cache'[i].key = cache'[j].key => i = j
    BY <2>1, <2>2, <2>3
  <2> QED
    BY <2>1, <2>3, <2>4 DEF CacheInv, CacheBounded
<1>6. CASE ~(Len(l) > MaxEntries)
  BY <1>1, <1>2, <1>3, <1>4, <1>6 DEF CacheInv, CacheBounded
<1> QED
  BY <1>5, <1>6

LEMMA SavedEntry ==
    ASSUME TypedInv, NEW r \in Requests, pc[r] = "save"
    PROVE  LET k == Key(req[r].question, req[r].model)
           IN  [key |-> k, answer |-> req[r].answer, expired |-> FALSE] \in CacheEntries
<1>1. /\ req[r] \in Reqs /\ req[r].answer # NoAnswer
      /\ req[r].answer.question = req[r].question /\ req[r].answer.model = req[r].model
  BY DEF TypedInv, Typed, Own
<1>2. /\ req[r].answer \in Answers /\ req[r].question \in Questions
      /\ req[r].model \in Models
  BY <1>1 DEF Reqs
<1>3. Key(req[r].question, req[r].model) \in Questions \X Models
  BY <1>2 DEF Key
<1> QED
  BY <1>1, <1>2, <1>3 DEF CacheEntries

LEMMA SaveKeepsCache ==
    ASSUME TypedInv, CacheInv, NEW r \in Requests, Save(r)
    PROVE  CacheInv'
<1>1. CASE req[r].cacheable
  <2> DEFINE k == Key(req[r].question, req[r].model)
             e == [key |-> k, answer |-> req[r].answer, expired |-> FALSE]
  <2>1. cache' = Put(k, req[r].answer) /\ e \in CacheEntries /\ e.key = k
    BY <1>1, SavedEntry DEF Save
  <2> QED
    BY <2>1, PutKeeps
<1>2. CASE ~req[r].cacheable
  BY <1>2 DEF Save, CacheInv, CacheBounded
<1> QED
  BY <1>1, <1>2

\* A hit goes last, as it was; a miss drops what expired under the key.
LEMMA LookupKeepsCache ==
    ASSUME CacheInv, NEW r \in Requests, Lookup(r)
    PROVE  CacheInv'
<1> DEFINE k == Key(req[r].question, req[r].model)
           hit == IF doc = "deleted" THEN {} ELSE Live(k)
           w == Without(k)
<1>1. /\ w \in Seq(CacheEntries) /\ Len(w) \in Nat /\ Len(w) <= Len(cache)
      /\ At(k) # {} => Len(w) < Len(cache)
      /\ \A j \in 1 .. Len(w) : w[j].key # k
      /\ \A i, j \in 1 .. Len(w) : w[i].key = w[j].key => i = j
  BY WithoutKeeps
<1>2. Len(cache) <= MaxEntries /\ MaxEntries \in Nat /\ Len(cache) \in Nat
  BY BoundsAssumption DEF CacheInv, CacheBounded
<1>3. CASE hit # {}
  <2>1. PICK i \in Live(k) : cache' = Append(w, cache[i])
    BY <1>3 DEF Lookup
  <2>2. i \in At(k) /\ i \in DOMAIN cache /\ cache[i].key = k
    BY DEF Live, At
  <2> HIDE DEF k, w
  <2>3. cache[i] \in CacheEntries
    BY <2>2 DEF CacheInv
  <2>4. /\ cache' \in Seq(CacheEntries) /\ Len(cache') = Len(w) + 1
        /\ \A j, l \in 1 .. Len(w) + 1 : cache'[j].key = cache'[l].key => j = l
    BY <1>1, <2>1, <2>2, <2>3, Appended
  <2>5. DOMAIN cache' = 1 .. Len(w) + 1 /\ Len(cache') <= MaxEntries
    BY <1>1, <1>2, <2>2, <2>4
  <2> QED
    BY <2>4, <2>5 DEF CacheInv, CacheBounded
<1>4. CASE hit = {}
  <2>1. cache' = cache \/ cache' = w
    BY <1>4 DEF Lookup
  <2> HIDE DEF w, k
  <2>2. CASE cache' = w
    <3>1. DOMAIN w = 1 .. Len(w) /\ Len(w) <= MaxEntries
      BY <1>1, <1>2
    <3> QED
      BY <1>1, <2>2, <3>1 DEF CacheInv, CacheBounded
  <2>3. CASE cache' = cache
    BY <2>3 DEF CacheInv, CacheBounded
  <2> QED
    BY <2>1, <2>2, <2>3
<1> QED
  BY <1>3, <1>4

LEMMA ExpireKeepsCache ==
    ASSUME CacheInv, Expire
    PROVE  CacheInv'
<1>1. PICK i \in DOMAIN cache : cache' = [cache EXCEPT ![i].expired = TRUE]
  BY DEF Expire
<1> DEFINE e == [cache[i] EXCEPT !.expired = TRUE]
<1>2. /\ cache \in Seq(CacheEntries) /\ cache[i] \in CacheEntries
      /\ cache' = [cache EXCEPT ![i] = e]
  BY <1>1 DEF CacheInv
<1>3. e \in CacheEntries /\ e.key = cache[i].key
  BY <1>2 DEF CacheEntries
<1> HIDE DEF e
<1>4. /\ cache' \in Seq(CacheEntries) /\ Len(cache') = Len(cache)
      /\ DOMAIN cache' = DOMAIN cache
      /\ \A j \in DOMAIN cache : cache'[j].key = cache[j].key
  BY <1>2, <1>3
<1> QED
  BY <1>4 DEF CacheInv, CacheBounded

-----------------------------------------------------------------------------
(* Every step keeps the types.                                             *)

\* What a step makes of the request that takes it.
LEMMA OneTyped ==
    ASSUME TypedInv, AnswerInv', NEW r \in Requests, UNCHANGED docVars, Typed(r)',
           \A o \in Requests \ {r} :
               pc'[o] = pc[o] /\ req'[o] = req[o] /\ events'[o] = events[o]
    PROVE  TypedInv'
<1>1. \A o \in Requests \ {r} : Typed(o)'
  BY DEF TypedInv, Typed, Own, SentTyped
<1> QED
  BY <1>1 DEF TypedInv, docVars

\* The fields of a request that its steps set.
LEMMA Answering ==
    ASSUME NEW q \in Reqs, NEW a \in Answers
    PROVE  /\ [q EXCEPT !.answer = a] \in Reqs /\ [q EXCEPT !.answer = a].answer = a
           /\ [q EXCEPT !.answer = a].question = q.question
           /\ [q EXCEPT !.answer = a].model = q.model
BY DEF Reqs

LEMMA Collecting ==
    ASSUME NEW q \in Reqs, NEW top \in SUBSET Chunks
    PROVE  /\ [q EXCEPT !.top = top] \in Reqs
           /\ [q EXCEPT !.top = top].answer = q.answer
           /\ [q EXCEPT !.top = top].question = q.question
           /\ [q EXCEPT !.top = top].model = q.model
BY DEF Reqs

LEMMA Flagging ==
    ASSUME NEW q \in Reqs, NEW b \in BOOLEAN, NEW c \in BOOLEAN
    PROVE  /\ [q EXCEPT !.cacheable = b, !.late = c] \in Reqs
           /\ [q EXCEPT !.cacheable = b, !.late = c].answer = q.answer
           /\ [q EXCEPT !.cacheable = b, !.late = c].question = q.question
           /\ [q EXCEPT !.cacheable = b, !.late = c].model = q.model
BY DEF Reqs

LEMMA Falling ==
    ASSUME NEW q \in Reqs, NEW b \in BOOLEAN
    PROVE  /\ [q EXCEPT !.plain = b] \in Reqs
           /\ [q EXCEPT !.plain = b].answer = q.answer
           /\ [q EXCEPT !.plain = b].question = q.question
           /\ [q EXCEPT !.plain = b].model = q.model
BY DEF Reqs

LEMMA Forgetting ==
    ASSUME NEW q \in Reqs
    PROVE  LET over == [q EXCEPT !.top = {}, !.plain = FALSE, !.cacheable = FALSE]
           IN  /\ over \in Reqs /\ over.answer = q.answer
               /\ over.question = q.question /\ over.model = q.model
BY DEF Reqs

\* A request that goes on with memory q.
LEMMA GoesOn ==
    ASSUME TypedInv, AnswerInv', NEW r \in Requests, NEW label \in Labels \ {"new"},
           Goto(r, label) \/ (UNCHANGED pc /\ pc[r] = label),
           NEW q \in Reqs, req' = [req EXCEPT ![r] = q] \/ (UNCHANGED req /\ req[r] = q),
           q.answer # NoAnswer => q.answer.question = q.question /\ q.answer.model = q.model,
           label = "save" => q.answer # NoAnswer,
           UNCHANGED docVars, SentTyped(r)',
           \A o \in Requests \ {r} : events'[o] = events[o]
    PROVE  TypedInv'
<1>1. AnswerInv
  BY DEF TypedInv
<1>2. /\ pc'[r] = label
      /\ \A o \in Requests \ {r} : pc'[o] = pc[o]
  BY <1>1, Going
<1>3. req'[r] = q /\ \A o \in Requests \ {r} : req'[o] = req[o]
  BY <1>1 DEF AnswerInv, Functions
<1>4. Typed(r)'
  BY <1>2, <1>3 DEF Typed, Own
<1> QED
  BY <1>2, <1>3, <1>4, OneTyped

\* What a step finds in a request that was asked.
LEMMA Asked ==
    ASSUME TypedInv, NEW r \in Requests, pc[r] # "new"
    PROVE  /\ req[r] \in Reqs /\ Own(r) /\ SentTyped(r) /\ AnswerInv
           /\ DOMAIN req = Requests /\ Labels \ {"new"} \subseteq Labels
           /\ UNCHANGED events => SentTyped(r)' /\ \A o \in Requests : events'[o] = events[o]
BY DEF TypedInv, Typed, SentTyped, AnswerInv, Functions

LEMMA ReturnTyped ==
    ASSUME TypedInv, AnswerInv', NEW r \in Requests, pc[r] # "new", Return(r),
           UNCHANGED docVars, SentTyped(r)',
           \A o \in Requests \ {r} : events'[o] = events[o]
    PROVE  TypedInv'
<1> DEFINE q == [req[r] EXCEPT !.top = {}, !.plain = FALSE, !.cacheable = FALSE]
<1>1. /\ q \in Reqs /\ q.answer = req[r].answer
      /\ q.question = req[r].question /\ q.model = req[r].model
  BY Asked, Forgetting
<1>2. req' = [req EXCEPT ![r] = q] /\ Goto(r, "over")
  BY DEF Return
<1> HIDE DEF q
<1>3. q.answer # NoAnswer => q.answer.question = q.question /\ q.answer.model = q.model
  BY <1>1, Asked DEF Own
<1>4. "over" \in Labels \ {"new"}
  BY DEF Labels
<1> QED
  BY <1>1, <1>2, <1>3, <1>4, GoesOn

LEMMA AskTyped ==
    ASSUME TypedInv, AnswerInv', NEW r \in Requests, Ask(r)
    PROVE  TypedInv'
<1>1. PICK q \in Questions : \E m \in Models, s \in BOOLEAN :
         req' = [req EXCEPT ![r] =
                    [question |-> q, model |-> m, stream |-> s, cacheable |-> FALSE,
                     late |-> FALSE, top |-> {}, plain |-> FALSE, answer |-> NoAnswer]]
  BY DEF Ask
<1>2. PICK m \in Models : \E s \in BOOLEAN :
         req' = [req EXCEPT ![r] =
                    [question |-> q, model |-> m, stream |-> s, cacheable |-> FALSE,
                     late |-> FALSE, top |-> {}, plain |-> FALSE, answer |-> NoAnswer]]
  BY <1>1
<1>3. PICK s \in BOOLEAN :
         req' = [req EXCEPT ![r] =
                    [question |-> q, model |-> m, stream |-> s, cacheable |-> FALSE,
                     late |-> FALSE, top |-> {}, plain |-> FALSE, answer |-> NoAnswer]]
  BY <1>2
<1> DEFINE new == [question |-> q, model |-> m, stream |-> s, cacheable |-> FALSE,
                   late |-> FALSE, top |-> {}, plain |-> FALSE, answer |-> NoAnswer]
<1>4. new \in Reqs /\ new.answer = NoAnswer
  BY DEF Reqs
<1>5. req' = [req EXCEPT ![r] = new] /\ Goto(r, "lookup") /\ UNCHANGED <<docVars, events>>
  BY <1>3 DEF Ask
<1> HIDE DEF new
<1>6. SentTyped(r)' /\ "lookup" \in Labels \ {"new"}
  BY <1>5 DEF TypedInv, Typed, SentTyped, Labels
<1> QED
  BY <1>4, <1>5, <1>6, GoesOn

\* A hit is filed under the request's own question and model.
LEMMA LookupTyped ==
    ASSUME TypedInv, CacheInv, AnswerInv', NEW r \in Requests, Lookup(r)
    PROVE  TypedInv'
<1> DEFINE k == Key(req[r].question, req[r].model)
           hit == IF doc = "deleted" THEN {} ELSE Live(k)
<1>1. /\ pc[r] = "lookup" /\ UNCHANGED <<docVars, events>>
      /\ \A o \in Requests \ {r} : events'[o] = events[o]
  BY DEF Lookup
<1>2. req[r] \in Reqs /\ Own(r) /\ SentTyped(r)' /\ {"hit", "over", "retrieve"} \subseteq Labels
  BY <1>1, Asked DEF Labels
<1>3. CASE hit # {}
  <2>1. PICK i \in Live(k) : req' = [req EXCEPT ![r].answer = Payload(cache[i])]
    BY <1>3 DEF Lookup
  <2> DEFINE a == cache[i].answer
             q == [req[r] EXCEPT !.answer = a]
  <2>2. cache[i] \in CacheEntries /\ cache[i].key = k
    BY DEF CacheInv, Live, At
  <2>3. a \in Answers /\ a.question = req[r].question /\ a.model = req[r].model
    BY <2>2 DEF CacheEntries, Key
  <2>4. req' = [req EXCEPT ![r] = q]
    BY <2>1 DEF Payload
  <2> HIDE DEF a
  <2>5. /\ q \in Reqs /\ q.answer = a
        /\ q.question = req[r].question /\ q.model = req[r].model
    BY <1>2, <2>3, Answering
  <2> HIDE DEF q
  <2>6. PICK label \in {"hit", "over"} : Goto(r, label)
    BY <1>3 DEF Lookup
  <2> QED
    BY <1>1, <1>2, <2>3, <2>4, <2>5, <2>6, GoesOn
<1>4. CASE hit = {}
  <2> DEFINE b == doc # "deleted"
             c == doc = "deleted"
             q == [req[r] EXCEPT !.cacheable = b, !.late = c]
  <2>1. b \in BOOLEAN /\ c \in BOOLEAN
    OBVIOUS
  <2>2. req' = [req EXCEPT ![r] = q] /\ Goto(r, "retrieve")
    BY <1>4 DEF Lookup
  <2> HIDE DEF b, c
  <2>3. /\ q \in Reqs /\ q.answer = req[r].answer
        /\ q.question = req[r].question /\ q.model = req[r].model
    BY <1>2, <2>1, Flagging
  <2> HIDE DEF q
  <2>4. q.answer # NoAnswer => q.answer.question = q.question /\ q.answer.model = q.model
    BY <1>2, <2>3 DEF Own
  <2>5. "retrieve" \in Labels \ {"new"} /\ UNCHANGED docVars
    BY <1>1 DEF Labels
  <2> HIDE DEF k, hit
  <2> QED
    BY <1>1, <1>2, <2>2, <2>3, <2>4, <2>5, GoesOn
<1> QED
  BY <1>3, <1>4

LEMMA TopTyped ==
    ASSUME TypedInv, AnswerInv', NEW r \in Requests, pc[r] # "new",
           NEW label \in {"generate", "widen"}, Goto(r, label), NEW top \in SUBSET Chunks,
           req' = [req EXCEPT ![r].top = top], UNCHANGED <<docVars, events>>
    PROVE  TypedInv'
<1> DEFINE q == [req[r] EXCEPT !.top = top]
<1>1. /\ q \in Reqs /\ q.answer = req[r].answer
      /\ q.question = req[r].question /\ q.model = req[r].model
  BY Asked, Collecting
<1>2. req' = [req EXCEPT ![r] = q]
  OBVIOUS
<1> HIDE DEF q
<1>3. q.answer # NoAnswer => q.answer.question = q.question /\ q.answer.model = q.model
  BY <1>1, Asked DEF Own
<1>4. label \in Labels \ {"new"} /\ label # "save" /\ SentTyped(r)'
  BY Asked DEF Labels
<1> QED
  BY <1>1, <1>2, <1>3, <1>4, GoesOn

LEMMA RetrieveTyped ==
    ASSUME TypedInv, AnswerInv', NEW r \in Requests, Retrieve(r)
    PROVE  TypedInv'
<1>1. pc[r] # "new" /\ UNCHANGED <<docVars, events>> /\ indexed \subseteq Chunks
  BY DEF Retrieve, TypedInv
<1>2. CASE Return(r)
  BY <1>1, <1>2, Asked, ReturnTyped
<1>3. CASE \E top \in (SUBSET indexed) \ {{}} :
              /\ req' = [req EXCEPT ![r].top = top]
              /\ Goto(r, "generate") \/ Goto(r, "widen")
  <2>1. PICK top \in SUBSET Chunks :
           /\ req' = [req EXCEPT ![r].top = top]
           /\ Goto(r, "generate") \/ Goto(r, "widen")
    BY <1>1, <1>3
  <2> QED
    BY <1>1, <2>1, TopTyped
<1> QED
  BY <1>2, <1>3 DEF Retrieve

LEMMA WidenTyped ==
    ASSUME TypedInv, AnswerInv', NEW r \in Requests, Widen(r)
    PROVE  TypedInv'
<1>1. /\ pc[r] # "new" /\ UNCHANGED <<docVars, events>> /\ indexed \subseteq Chunks
      /\ Goto(r, "generate")
  BY DEF Widen, TypedInv
<1>2. PICK more \in SUBSET indexed : req' = [req EXCEPT ![r].top = @ \cup more]
  BY DEF Widen
<1> DEFINE top == req[r].top \cup more
<1>3. top \in SUBSET Chunks /\ req' = [req EXCEPT ![r].top = top]
  BY <1>1, <1>2, Asked DEF Reqs
<1> HIDE DEF top
<1> QED
  BY <1>1, <1>3, TopTyped

\* A request that goes on with the memory it has.
LEMMA StaysTyped ==
    ASSUME TypedInv, AnswerInv', NEW r \in Requests, pc[r] # "new", UNCHANGED <<docVars, req>>,
           NEW label \in Labels \ {"new", "save"},
           Goto(r, label) \/ (UNCHANGED pc /\ pc[r] = label), SentTyped(r)',
           \A o \in Requests \ {r} : events'[o] = events[o]
    PROVE  TypedInv'
<1>1. req[r] \in Reqs /\ Own(r)
  BY Asked
<1> QED
  BY <1>1, GoesOn DEF Own

LEMMA GenerateTyped ==
    ASSUME TypedInv, AnswerInv', NEW r \in Requests, Generate(r)
    PROVE  TypedInv'
<1>1. pc[r] # "new" /\ UNCHANGED <<docVars, events>> /\ SentTyped(r)'
  BY Asked DEF Generate
<1>2. CASE Return(r)
  BY <1>1, <1>2, ReturnTyped
<1>3. CASE ~Return(r)
  <2>1. UNCHANGED req /\ (Goto(r, "tokens") \/ Goto(r, "verify"))
    BY <1>3 DEF Generate
  <2> QED
    BY <1>1, <2>1, StaysTyped DEF Labels
<1> QED
  BY <1>2, <1>3

\* One more event of the right type.
LEMMA SendTyped ==
    ASSUME TypedInv, NEW r \in Requests, NEW type \in {"token", "done", "verification"},
           NEW piece \in Nat, [type |-> type, piece |-> piece] \in Events, Send(r, type, piece)
    PROVE  SentTyped(r)' /\ \A o \in Requests \ {r} : events'[o] = events[o]
<1> DEFINE e == [type |-> type, piece |-> piece]
           n == Len(events[r])
<1>1. /\ AnswerInv /\ SentTyped(r) /\ DOMAIN events = Requests
      /\ events[r] \in Seq(SentEvents) /\ e \in Events
      /\ events' = [events EXCEPT ![r] = Append(events[r], e)]
  BY DEF TypedInv, Typed, AnswerInv, Functions, Kept, Shaped, Send
<1> HIDE DEF e
<1>2. /\ events'[r] = Append(events[r], e)
      /\ \A o \in Requests \ {r} : events'[o] = events[o]
  BY <1>1
<1>3. /\ n \in Nat /\ DOMAIN events[r] = 1 .. n /\ DOMAIN Append(events[r], e) = 1 .. n + 1
      /\ Append(events[r], e)[n + 1] = e
      /\ \A i \in 1 .. n : Append(events[r], e)[i] = events[r][i]
  BY <1>1
<1> HIDE DEF n
<1>4. SentTyped(r)'
  BY <1>1, <1>2, <1>3 DEF SentTyped
<1> QED
  BY <1>2, <1>4

\* A piece has a number within the bound of the pieces.
LEMMA TokenTyped ==
    ASSUME TypedInv, AnswerInv', NEW r \in Requests, Token(r)
    PROVE  TypedInv'
<1> DEFINE p == Len(events[r]) + 1
<1>1. /\ pc[r] = "tokens" /\ UNCHANGED <<docVars, pc, req>> /\ Send(r, "token", p)
      /\ IF req[r].plain THEN Len(events[r]) = 0 ELSE Len(events[r]) < MaxTokens
  BY DEF Token, Pieces
<1>2. p \in 1 .. MaxTokens /\ p \in Nat
  <2>1. Len(events[r]) \in Nat
    BY <1>1, InStream DEF TypedInv
  <2> QED
    BY <1>1, <2>1, BoundsAssumption
<1> HIDE DEF p
<1>3. [type |-> "token", piece |-> p] \in Events
  BY <1>2 DEF Events
<1>4. SentTyped(r)' /\ \A o \in Requests \ {r} : events'[o] = events[o]
  BY <1>1, <1>2, <1>3, SendTyped
<1>5. "tokens" \in Labels \ {"new", "save"}
  BY DEF Labels
<1> QED
  BY <1>1, <1>4, <1>5, StaysTyped

LEMMA DoneTyped ==
    ASSUME TypedInv, AnswerInv', NEW r \in Requests, pc[r] # "new", Send(r, "done", 0),
           UNCHANGED <<docVars, req>>, NEW label \in {"verdict", "verify"}, Goto(r, label)
    PROVE  TypedInv'
<1>1. [type |-> "done", piece |-> 0] \in Events
  BY DEF Events
<1>2. SentTyped(r)' /\ \A o \in Requests \ {r} : events'[o] = events[o]
  BY <1>1, SendTyped
<1> QED
  BY <1>2, StaysTyped DEF Labels

LEMMA FallBackTyped ==
    ASSUME TypedInv, AnswerInv', NEW r \in Requests, FallBack(r)
    PROVE  TypedInv'
<1> DEFINE q == [req[r] EXCEPT !.plain = TRUE]
<1>1. /\ pc[r] = "tokens" /\ UNCHANGED <<docVars, pc, events>> /\ req' = [req EXCEPT ![r] = q]
      /\ SentTyped(r)' /\ req[r] \in Reqs /\ Own(r)
  BY Asked DEF FallBack
<1>2. /\ q \in Reqs /\ q.answer = req[r].answer
      /\ q.question = req[r].question /\ q.model = req[r].model
  BY <1>1, Falling
<1> HIDE DEF q
<1>3. "tokens" \in Labels \ {"new", "save"}
  BY DEF Labels
<1>4. q.answer # NoAnswer => q.answer.question = q.question /\ q.answer.model = q.model
  BY <1>1, <1>2 DEF Own
<1> QED
  BY <1>1, <1>2, <1>3, <1>4, GoesOn

LEMMA VerifyTyped ==
    ASSUME TypedInv, AnswerInv', NEW r \in Requests, Verify(r)
    PROVE  TypedInv'
<1>a. pc[r] = "verify" /\ UNCHANGED <<docVars, events>> /\ SentTyped(r)' /\ req[r] \in Reqs
  BY Asked DEF Verify
<1>b. SUFFICES ASSUME ~Return(r) PROVE TypedInv'
  BY <1>a, ReturnTyped
<1>1. PICK s \in {"verified", "unverified"} :
         req' = [req EXCEPT ![r].answer =
                    [status |-> s, question |-> req[r].question, model |-> req[r].model]]
  BY <1>b DEF Verify
<1> DEFINE a == [status |-> s, question |-> req[r].question, model |-> req[r].model]
           q == [req[r] EXCEPT !.answer = a]
<1>2. /\ pc[r] = "verify" /\ UNCHANGED <<docVars, events>> /\ Goto(r, "save")
      /\ SentTyped(r)' /\ req[r] \in Reqs
  BY <1>a, <1>b DEF Verify
<1>3. /\ a \in Answers /\ a # NoAnswer
      /\ a.question = req[r].question /\ a.model = req[r].model
  <2>1. req[r].question \in Questions /\ req[r].model \in Models
    BY <1>2 DEF Reqs
  <2>2. a.status # NoAnswer.status
    BY DEF NoAnswer
  <2> QED
    BY <2>1, <2>2 DEF Answers
<1>4. req' = [req EXCEPT ![r] = q]
  BY <1>1
<1> HIDE DEF a
<1>5. /\ q \in Reqs /\ q.answer = a
      /\ q.question = req[r].question /\ q.model = req[r].model
  BY <1>2, <1>3, Answering
<1> HIDE DEF q
<1> QED
  BY <1>2, <1>3, <1>4, <1>5, GoesOn DEF Labels

LEMMA SaveTyped ==
    ASSUME TypedInv, AnswerInv', NEW r \in Requests, Save(r)
    PROVE  TypedInv'
<1>1. pc[r] # "new" /\ UNCHANGED <<docVars, events>> /\ SentTyped(r)'
  BY Asked DEF Save
<1>2. CASE Return(r)
  BY <1>1, <1>2, ReturnTyped
<1>3. CASE ~Return(r)
  BY <1>1, <1>3, StaysTyped DEF Save, Labels
<1> QED
  BY <1>2, <1>3

LEMMA SendVerdictTyped ==
    ASSUME TypedInv, AnswerInv', NEW r \in Requests, SendVerdict(r)
    PROVE  TypedInv'
<1>1. pc[r] # "new" /\ UNCHANGED docVars /\ Send(r, "verification", 0) /\ Return(r)
  BY DEF SendVerdict
<1>2. [type |-> "verification", piece |-> 0] \in Events
  BY DEF Events
<1>3. SentTyped(r)' /\ \A o \in Requests \ {r} : events'[o] = events[o]
  BY <1>1, <1>2, SendTyped
<1> QED
  BY <1>1, <1>3, ReturnTyped

-----------------------------------------------------------------------------
LEMMA StepTyped ==
    ASSUME TypedInv, CacheInv, AnswerInv', NEW r \in Requests, Step(r) \/ Client(r)
    PROVE  TypedInv'
<1>1. CASE Lookup(r) \/ Retrieve(r) \/ Widen(r) \/ Generate(r)
  BY <1>1, LookupTyped, RetrieveTyped, WidenTyped, GenerateTyped
<1>2. CASE SendHit(r) \/ StreamError(r) \/ EndStream(r)
  BY <1>2, DoneTyped DEF SendHit, StreamError, EndStream
<1>3. CASE Token(r) \/ FallBack(r) \/ Verify(r) \/ Save(r) \/ SendVerdict(r)
  BY <1>3, TokenTyped, FallBackTyped, VerifyTyped, SaveTyped, SendVerdictTyped
<1>4. CASE Ask(r)
  BY <1>4, AskTyped
<1>5. CASE Disconnect(r)
  <2>1. pc[r] # "new" /\ Return(r) /\ UNCHANGED <<docVars, events>>
    BY <1>5 DEF Disconnect
  <2> QED
    BY <2>1, Asked, ReturnTyped
<1> QED
  BY <1>1, <1>2, <1>3, <1>4, <1>5 DEF Step, Client

LEMMA StepKeepsCache ==
    ASSUME TypedInv, CacheInv, NEW r \in Requests, Step(r) \/ Client(r)
    PROVE  CacheInv'
<1>1. CASE UNCHANGED cache
  BY <1>1 DEF CacheInv, CacheBounded
<1>2. CASE Lookup(r)
  BY <1>2, LookupKeepsCache
<1>3. CASE Save(r)
  BY <1>3, SaveKeepsCache
<1> QED
  BY <1>1, <1>2, <1>3
  DEF Step, Client, SendHit, Retrieve, Widen, Generate, Token, FallBack, StreamError,
      EndStream, Verify, SendVerdict, Ask, Disconnect

\* The document gains chunks it has, or loses all of them.
LEMMA DocumentTyped ==
    ASSUME TypedInv, AnswerInv', Document \/ Expire \/ UNCHANGED vars
    PROVE  TypedInv'
<1>1. indexed' \subseteq Chunks /\ UNCHANGED <<pc, req, events>>
  BY DEF TypedInv, Document, Index, RemoveVectors, RemoveRow, Expire, docVars, vars
<1> QED
  BY <1>1 DEF TypedInv, Typed, Own, SentTyped

LEMMA TypedInvariant == Spec => [](TypedInv /\ CacheInv)
<1>1. Init => TypedInv /\ CacheInv
  <2> SUFFICES ASSUME Init PROVE TypedInv /\ CacheInv
    OBVIOUS
  <2>1. AnswerInv /\ indexed \subseteq Chunks
    BY AnswerInitKeeps DEF Init
  <2>2. ASSUME NEW r \in Requests PROVE Typed(r)
    BY DEF Init, Typed, Own, SentTyped, NoReq
  <2>3. CacheInv
    <3>1. cache = << >> /\ << >> \in Seq(CacheEntries) /\ Len(<< >>) = 0
      BY DEF Init
    <3> QED
      BY <3>1, BoundsAssumption DEF CacheInv, CacheBounded
  <2> QED
    BY <2>1, <2>2, <2>3 DEF TypedInv
<1>2. TypedInv /\ CacheInv /\ AnswerInv' /\ [Next]_vars => (TypedInv /\ CacheInv)'
  <2> SUFFICES ASSUME TypedInv, CacheInv, AnswerInv', [Next]_vars
               PROVE  TypedInv' /\ CacheInv'
    OBVIOUS
  <2>1. CASE Document \/ UNCHANGED vars
    <3>1. UNCHANGED cache
      BY <2>1 DEF Document, Index, RemoveVectors, RemoveRow, vars
    <3> QED
      BY <2>1, <3>1, DocumentTyped DEF CacheInv, CacheBounded
  <2>2. CASE Expire
    BY <2>2, DocumentTyped, ExpireKeepsCache
  <2>3. CASE \E r \in Requests : Step(r) \/ Client(r)
    BY <2>3, StepTyped, StepKeepsCache
  <2> QED
    BY <2>1, <2>2, <2>3 DEF Next
<1> QED
  BY <1>1, <1>2, AnswerInvariant, PTL DEF Spec

\* However hits, stores, evictions and expiries of several requests come between, the cache
\* stays within its bound and has one entry per key (InMemoryAnswerCache).
THEOREM CacheIsBounded == Spec => []CacheBounded
<1>1. CacheInv => CacheBounded
  BY DEF CacheInv
<1> QED
  BY <1>1, TypedInvariant, PTL

\* No request is ever answered with the answer to another question, or of another model,
\* although all share one cache: an entry is filed under what it answers
\* (compute_cache_key).
THEOREM AnswersAreOwn == Spec => []OwnAnswer
<1>1. TypedInv => OwnAnswer
  BY DEF TypedInv, Typed, Own, OwnAnswer
<1> QED
  BY <1>1, TypedInvariant, PTL

\* The types of the module hold in every state.
THEOREM AnswerTypeCorrect == Spec => []TypeOK
<1>1. TypedInv /\ CacheInv => TypeOK
  <2> SUFFICES ASSUME TypedInv, CacheInv PROVE TypeOK
    OBVIOUS
  <2>1. \A i \in DOMAIN cache : cache[i].answer \in Answers /\ cache[i].expired \in BOOLEAN
    BY DEF CacheInv, CacheEntries
  <2>2. doc \in {"stored", "emptied", "deleted"} /\ indexed \subseteq Chunks
    BY DEF TypedInv, AnswerInv, DocInv
  <2>3. ASSUME NEW r \in Requests
        PROVE  /\ pc[r] \in Labels /\ (pc[r] # "new" => req[r] \in Reqs)
               /\ \A i \in DOMAIN events[r] : events[r][i] \in Events
    BY DEF TypedInv, AnswerInv, Kept, Shaped, Typed, SentTyped
  <2> QED
    BY <2>1, <2>2, <2>3 DEF TypeOK, Labels
<1> QED
  BY <1>1, TypedInvariant, PTL

=============================================================================
