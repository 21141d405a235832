---------------------------- MODULE LexicalCorpus ----------------------------
(***************************************************************************)
(* What BM25Index promises its callers about the corpus of one user: each  *)
(* call takes effect at once, at some moment between its beginning and its *)
(* end, or not at all when it fails; a query is answered from the corpus   *)
(* of such a moment.                                                       *)
(***************************************************************************)
CONSTANTS Chunks, Threads

VARIABLES
    corpus,     \* the chunks in the index
    call,       \* the call each thread is in
    seen        \* the corpus each thread's last call, if a query, was answered from

vars == <<corpus, call, seen>>

\* A call: upsert_many(items), delete and delete_chunks (remove items), or query.
NoCall == [kind |-> "none", items |-> {}]
Query  == [kind |-> "query", items |-> {}]
Writes == [kind : {"upsert", "remove"}, items : (SUBSET Chunks) \ {{}}]

\* The corpus after the write w.
Result(w, c) == IF w.kind = "upsert" THEN c \cup w.items ELSE c \ w.items

Init ==
    /\ corpus = {}
    /\ call = [t \in Threads |-> NoCall]
    /\ seen = [t \in Threads |-> {}]

Invoke(t) ==
    /\ call[t] = NoCall
    /\ \E w \in Writes \cup {Query} : call' = [call EXCEPT ![t] = w]
    /\ seen' = [seen EXCEPT ![t] = {}]
    /\ UNCHANGED corpus

Apply(t) ==
    /\ call[t] \in Writes
    /\ corpus' = Result(call[t], corpus)
    /\ call' = [call EXCEPT ![t] = NoCall]
    /\ UNCHANGED seen

Answer(t) ==
    /\ call[t] = Query
    /\ seen' = [seen EXCEPT ![t] = corpus]
    /\ call' = [call EXCEPT ![t] = NoCall]
    /\ UNCHANGED corpus

\* Some calls fail, or die with their process.
Fail ==
    /\ \E T \in SUBSET Threads :
          call' = [t \in Threads |-> IF t \in T THEN NoCall ELSE call[t]]
    /\ UNCHANGED <<corpus, seen>>

Next == Fail \/ \E t \in Threads : Invoke(t) \/ Apply(t) \/ Answer(t)

Spec == Init /\ [][Next]_vars

=============================================================================
