----------------------------- MODULE VectorStores -----------------------------
(***************************************************************************)
(* The drivers of the two vector stores and the client that reads from     *)
(* both.  The rest of the program uses a store as Chroma's collection, but *)
(* the stores differ in what a read may miss.  A read of Postgres sees     *)
(* every write before it; one of Pinecone sees, chunk by chunk, what is    *)
(* there or what was there a moment ago.  A search uses an approximate     *)
(* index in both, and may miss any chunk.                                  *)
(*                                                                         *)
(* A store is one table or index for all users: it maps a user's           *)
(* collection and a chunk id to the hash of the chunk's text, or to Vacant. *)
(* A chunk belongs to one document.                                        *)
(***************************************************************************)
EXTENDS Calls, Integers, Sequences, SequencesExt, FiniteSetsExt

CONSTANTS
    Owners,         \* users, each with a collection
    Ids,            \* chunk ids
    DocOf,          \* the document of a chunk
    Similarity,     \* how like the question a chunk is: 0 to Exact
    Exact,
    Wanted,         \* how many results are asked for
    ReadCap,        \* Pinecone's limit of a read by document: 10000 chunks
    RequestCap,     \* how many chunks a request to Pinecone carries: 100
    SinkCap,        \* chroma_upsert_max: how many the sink hands over at once
    Texts,          \* hashes of texts
    Vacant

ASSUME StoresAssumption ==
    /\ Owners # {} /\ Texts # {} /\ IsFiniteSet(Ids)
    /\ DocOf \in [Ids -> {DocOf[i] : i \in Ids}]
    /\ Vacant \notin Texts \cup {DocOf[i] : i \in Ids}
    /\ Exact \in Nat /\ Similarity \in [Ids -> 0 .. Exact]
    /\ {ReadCap, RequestCap, SinkCap} \subseteq Nat \ {0} /\ Wanted \subseteq Nat \ {0}

Kinds == {"pgvector", "pinecone"}

Held(store, owner) == {i \in Ids : store[owner][i] # Vacant}

\* The filters in use: one document, or none.
Docs == {DocOf[i] : i \in Ids}

\* The id and the document: a filter that names neither lets every chunk pass.
Passes(i, ids, doc) == (ids = {} \/ i \in ids) /\ (doc = Vacant \/ DocOf[i] = doc)

-----------------------------------------------------------------------------
(* Reads.                                                                  *)

\* The chunks take the texts they are given.
Rewritten(store, owner, ids, texts) ==
    [store EXCEPT ![owner] = [i \in Ids |-> IF i \in ids THEN texts[i] ELSE @[i]]]

\* The stores that a read may find, when a moment ago the owner's chunks were as in "was":
\* the store as it is, or one in which some of the chunks are late.
Views(kind, store, was, owner) ==
    IF kind = "pgvector" THEN {store}
    ELSE {Rewritten(store, owner, late, was) :
             late \in SUBSET {i \in Ids : was[i] # store[owner][i]}}

\* Of the chunks, the best n by the measure, in any order of equals.
Best(chunks, n, less(_, _)) ==
    {s \in [1 .. (IF n < Cardinality(chunks) THEN n ELSE Cardinality(chunks)) -> chunks] :
        /\ \A i, j \in DOMAIN s : s[i] = s[j] => i = j
        /\ \A i \in DOMAIN s : \A x \in chunks \ {s[j] : j \in 1 .. i} : ~less(x, s[i])}

\* Of the chunks, any n or less, the best first: what an approximate index finds, which
\* looks at the neighbours first and at the conditions after.
Nearest(chunks, n, less(_, _)) ==
    UNION {Best(some, n, less) : some \in {t \in SUBSET chunks : Cardinality(t) <= n}}

\* Cosine distance, least first (PgVectorCollection.query).
PgQuery(store, owner, doc, n) ==
    LET distance(i) == Exact - Similarity[i]
        chunks == {i \in Held(store, owner) : Passes(i, {}, doc)}
    IN  {[k \in DOMAIN s |-> [id |-> s[k], distance |-> distance(s[k])]] :
            s \in Nearest(chunks, n, LAMBDA x, y : distance(x) < distance(y))}

\* Fault: the similarity is passed on as it is.
ScoreAsDistance(score) == score

ScoreToDistance(score) == Exact - score

\* Cosine similarity, greatest first, turned into a distance (PineconeCollection.query).
PineconeQuery(store, owner, doc, n) ==
    LET chunks == {i \in Held(store, owner) : Passes(i, {}, doc)}
    IN  {[k \in DOMAIN s |-> [id |-> s[k], distance |-> ScoreToDistance(Similarity[s[k]])]] :
            s \in Nearest(chunks, n, LAMBDA x, y : Similarity[x] > Similarity[y])}

Query(kind, store, owner, doc, n) ==
    IF kind = "pgvector" THEN PgQuery(store, owner, doc, n)
    ELSE PineconeQuery(store, owner, doc, n)

\* Both conditions, and a limit if there is one; the rows come in any order.
PgGet(store, owner, ids, doc) == {{i \in Held(store, owner) : Passes(i, ids, doc)}}

\* By id, or else by document as a query without a meaning, which returns no more than the
\* cap.
PineconeGet(store, owner, ids, doc) ==
    IF ids # {} THEN {ids \cap Held(store, owner)}
    ELSE LET passing == {i \in Held(store, owner) : Passes(i, {}, doc)}
         IN  IF Cardinality(passing) <= ReadCap THEN {passing}
             ELSE kSubset(ReadCap, passing)

Get(kind, store, owner, ids, doc) ==
    IF kind = "pgvector" THEN PgGet(store, owner, ids, doc)
    ELSE PineconeGet(store, owner, ids, doc)

-----------------------------------------------------------------------------
(* Writes.  What a write leaves, with the outcome; a write that fails      *)
(* raises.                                                                 *)

Removed(store, owner, ids) == Rewritten(store, owner, ids, [i \in ids |-> Vacant])

\* A request that fails may have been carried out.
Attempted(store, done) ==
    {[store |-> done, ok |-> TRUE], [store |-> done, ok |-> FALSE],
     [store |-> store, ok |-> FALSE]}

\* One transaction.
PgUpsert(store, owner, batch, texts) ==
    Attempted(store, Rewritten(store, owner, ToSet(batch), texts))

\* One request after another; the one that fails ends it.
PineconeUpsert(store, owner, batch, texts) ==
    {[store |-> Rewritten(store, owner, ToSet(batch), texts), ok |-> TRUE]} \cup
    {[store |-> Rewritten(store, owner, ToSet(SubSeq(batch, 1, n)), texts), ok |-> FALSE] :
        n \in {n \in 0 .. Len(batch) : n % RequestCap = 0 \/ n = Len(batch)}}

Upsert(kind, store, owner, batch, texts) ==
    IF batch = << >> THEN {[store |-> store, ok |-> TRUE]}
    ELSE IF kind = "pgvector" THEN PgUpsert(store, owner, batch, texts)
    ELSE PineconeUpsert(store, owner, batch, texts)

PgDelete(store, owner, ids, doc) ==
    Attempted(store, Removed(store, owner, {i \in Ids : Passes(i, ids, doc)}))

\* By id, or else by document, or else everything; the error of a collection that does not
\* exist, as one that was never written to, is taken for success.
PineconeDelete(store, owner, ids, doc) ==
    LET chosen == IF ids # {} THEN ids ELSE {i \in Ids : Passes(i, {}, doc)}
    IN  IF Held(store, owner) = {} THEN {[store |-> store, ok |-> TRUE]}
        ELSE Attempted(store, Removed(store, owner, chosen))

Delete(kind, store, owner, ids, doc) ==
    IF kind = "pgvector" THEN PgDelete(store, owner, ids, doc)
    ELSE PineconeDelete(store, owner, ids, doc)

-----------------------------------------------------------------------------
(* The callers: indexing a document anew, deleting it, and searching.      *)

\* One call of the driver after another, as long as they succeed.
Then(outcomes, Step(_)) ==
    UNION {IF o.ok THEN Step(o.store) ELSE {o} : o \in outcomes}

\* Fault: what is stored under an id is taken to be what is to be stored.
ChangedById(read, seen, owner, new) == DOMAIN new \ read

\* The chunks whose text is not stored yet, by the ids and the hashes that were read.
Changed(read, seen, owner, new) ==
    {i \in DOMAIN new : i \notin read \/ seen[owner][i] # new[i]}

\* The chunks go to the store in batches (batch_upsert_sink).
Sink(kind, store, owner, chunks, texts) ==
    LET order == SetToSeq(chunks)
        batch(k) == SubSeq(order, SinkCap * (k - 1) + 1,
                           IF SinkCap * k < Len(order) THEN SinkCap * k ELSE Len(order))
        after[k \in 0 .. Len(order)] ==
            IF k = 0 THEN {[store |-> store, ok |-> TRUE]}
            ELSE Then(after[k - 1], LAMBDA s : Upsert(kind, s, owner, batch(k), texts))
    IN  after[(Len(order) + SinkCap - 1) \div SinkCap]

\* What is stored and no longer wanted is deleted, then what is wanted and not stored is
\* embedded and written, all by what was read at first (reconcile_document,
\* batch_upsert_sink).
ReindexAs(seen, kind, store, owner, doc, new) ==
    UNION {LET ghosts == read \ DOMAIN new
               cleared == IF ghosts = {} THEN {[store |-> store, ok |-> TRUE]}
                          ELSE Delete(kind, store, owner, ghosts, Vacant)
           IN  Then(cleared, LAMBDA s :
                       Sink(kind, s, owner, Changed(read, seen, owner, new), new)) :
              read \in Get(kind, seen, owner, {}, doc)}

Reindex(kind, store, was, owner, doc, new) ==
    UNION {ReindexAs(seen, kind, store, owner, doc, new) :
              seen \in Views(kind, store, was, owner)}

\* What a run that is tried again may find late: what the first attempt wrote, and what was
\* late at the first attempt.
RunAgain(c, store) ==
    UNION {Reindex(c.kind, store, before[c.owner], c.owner, c.doc, c.new) :
              before \in Views(c.kind, c.store, c.was, c.owner)}

\* A run that fails is tried again, and succeeds.
ReindexTwice(c) ==
    UNION {IF first.ok THEN {<<first>>}
           ELSE {<<first, second>> : second \in {o \in RunAgain(c, first.store) : o.ok}} :
              first \in Reindex(c.kind, c.store, c.was, c.owner, c.doc, c.new)}

\* One user, one document and one text stand for all.
TheOwner == CHOOSE o \in Owners : TRUE
TheText == CHOOSE t \in Texts : TRUE
TheDoc == CHOOSE d \in Docs : TRUE

Maybe == Texts \cup {Vacant}

\* The document's chunks hold anything; all others, the other users' too, hold one
\* text or nothing.
Stores(owner, doc) ==
    {[o \in Owners |-> [i \in Ids |-> IF o = owner /\ DocOf[i] = doc THEN own[i] ELSE t]] :
        own \in [{i \in Ids : DocOf[i] = doc} -> Maybe], t \in {TheText, Vacant}}

\* A moment ago the user's chunks held the same, or nothing.
ReindexCalls ==
    {c \in [function : {"reindex"}, kind : Kinds, owner : {TheOwner}, doc : {TheDoc},
            store : Stores(TheOwner, TheDoc), was : {[i \in Ids |-> t] : t \in Maybe},
            new : UNION {[ids -> Texts] : ids \in SUBSET {i \in Ids : DocOf[i] = TheDoc}}] :
        c.kind = "pgvector" => c.was = [i \in Ids |-> Vacant]}

ReindexReturns == Return("reindex", ReindexTwice)

DeleteCalls ==
    [function : {"delete_document"}, kind : Kinds, owner : {TheOwner}, doc : Docs,
     store : Stores(TheOwner, TheDoc)]

DeleteReturns ==
    Return("delete_document", LAMBDA c : Delete(c.kind, c.store, c.owner, {}, c.doc))

\* The stores that fail or have no such collection contribute nothing.
Answering(c) == Kinds \ c.failing

\* The hits of all answers, each a store and a place in its answer; the least distance comes
\* first, and of equals the hits of the first store, as they were.
ComesFirst(answers, x, y) ==
    LET distance(hit) == answers[hit[1]][hit[2]].distance
    IN  \/ distance(x) < distance(y)
        \/ distance(x) = distance(y) /\ x[1] = "pgvector" /\ y[1] = "pinecone"
        \/ distance(x) = distance(y) /\ x[1] = y[1] /\ x[2] < y[2]

\* The answers of all in this order, cut to the number asked for
\* (MultiBackendCollection.query).
Merge(answers, n) ==
    LET hits == UNION {{<<kind, k>> : k \in DOMAIN answers[kind]} : kind \in DOMAIN answers}
        nth(p) == CHOOSE x \in hits :
                     Cardinality({y \in hits : ComesFirst(answers, y, x)}) = p - 1
    IN  [p \in 1 .. (IF n < Cardinality(hits) THEN n ELSE Cardinality(hits)) |->
            answers[nth(p)[1]][nth(p)[2]].id]

\* Where a chunk is, and the other users' chunks are.
StoreOf(c, kind) ==
    [o \in Owners |-> [i \in Ids |->
        IF (IF o = c.owner THEN c.place[i] ELSE c.others) = kind THEN TheText ELSE Vacant]]

\* What a read of a store may find while the last write of the pending chunks is late: one
\* that was added is not there yet, one that was removed still is.
Found(c, kind) ==
    LET store == StoreOf(c, kind)
        was == [i \in Ids |-> IF i \notin c.pending THEN store[c.owner][i]
                              ELSE IF c.place[i] = Vacant THEN TheText ELSE Vacant]
    IN  Views(kind, store, was, c.owner)

\* What each store may answer, one answer of each.
OneOfEach(kinds, Outcomes(_)) ==
    {f \in [kinds -> UNION {Outcomes(kind) : kind \in kinds}] :
        \A kind \in kinds : f[kind] \in Outcomes(kind)}

\* A search over all stores: what they returned, and what became of it.
Search(c) ==
    LET answers(kind) == UNION {Query(kind, s, c.owner, c.doc, c.n) : s \in Found(c, kind)}
    IN  {[found |-> Merge(a, c.n),
          returned |-> UNION {{a[kind][k].id : k \in DOMAIN a[kind]} : kind \in Answering(c)}] :
            a \in OneOfEach(Answering(c), answers)}

\* A read over all stores (MultiBackendCollection.get).
Read(c) ==
    LET reads(kind) == UNION {Get(kind, s, c.owner, c.ids, c.doc) : s \in Found(c, kind)}
    IN  {[read |-> UNION {r[kind] : kind \in Answering(c)}] :
            r \in OneOfEach(Answering(c), reads)}

\* A chunk is in one store; what Postgres holds is not late.
Sited(calls) ==
    {c \in calls : \A i \in c.pending : c.place[i] # "pgvector"}

Pendings == {{}, {CHOOSE i \in Ids : DocOf[i] = TheDoc}}

SearchCalls ==
    Sited([function : {"search"}, owner : {TheOwner}, doc : Docs \cup {Vacant}, n : Wanted,
            failing : SUBSET Kinds, place : [Ids -> Kinds \cup {Vacant}], others : Kinds,
            pending : Pendings])

SearchReturns == Return("search", Search)

ReadCalls ==
    Sited({c \in [function : {"get"}, owner : {TheOwner}, doc : Docs \cup {Vacant},
                   ids : {{}} \cup {{i} : i \in Ids}, failing : SUBSET Kinds,
                   place : [Ids -> Kinds \cup {Vacant}], others : Kinds,
                   pending : Pendings] :
               c.ids # {} => c.doc = Vacant})

ReadReturns == Return("get", Read)

-----------------------------------------------------------------------------
(* Properties.                                                             *)

\* The other documents and the other users' chunks.
Elsewhere(store, owner, doc) ==
    [o \in Owners |-> [i \in Ids |->
        IF o = owner /\ DocOf[i] = doc THEN Vacant ELSE store[o][i]]]

\* Whichever store a document is in, indexing it anew leaves its new chunks with their new
\* texts and no other, also when the first attempt stopped half-way, and touches nothing
\* else.  A chunk may be what it was before for two reasons only: Pinecone showed it as it
\* was a moment ago, and that was right (the new text, or no such chunk); or it is one of
\* the old ones of a document with more chunks than a read returns.  What is late of the
\* first attempt's own writes does no harm (reconcile_document with the drivers).
ReindexConverges ==
    Of("reindex") =>
        LET before(i) == call.store[call.owner][i]
            after(i) == result[Len(result)].store[call.owner][i]
            late(i, right) == call.kind = "pinecone" /\ call.was[i] = right
            seen == {i \in Ids : DocOf[i] = call.doc
                                    /\ (before(i) # Vacant \/ call.was[i] # Vacant)}
        IN  /\ result[Len(result)].ok
            /\ \A i \in DOMAIN call.new :
                  after(i) = call.new[i] \/ (late(i, call.new[i]) /\ after(i) = before(i))
            /\ \A i \in {i \in Ids : DocOf[i] = call.doc} \ DOMAIN call.new :
                  \/ after(i) = Vacant
                  \/ /\ after(i) = before(i)
                     /\ \/ late(i, Vacant)
                        \/ call.kind = "pinecone"
                              /\ Cardinality(seen \cup DOMAIN call.new) > ReadCap
            /\ \A k \in DOMAIN result :
                  Elsewhere(result[k].store, call.owner, call.doc)
                     = Elsewhere(call.store, call.owner, call.doc)

\* A deleted document is gone from its store, with every chunk and no other; an attempt
\* that fails leaves all of it or nothing (the drivers' delete).
DeletesExactly ==
    Of("delete_document") =>
        \/ result.store = Elsewhere(call.store, call.owner, call.doc)
        \/ ~result.ok /\ result.store = call.store

\* What the stores that answer hold of the user's chunks that pass, and what may still seem
\* to be there.
Holding(c, ids) ==
    {i \in Ids : c.place[i] \in Kinds \ c.failing /\ Passes(i, ids, c.doc)}

Lingering(c, ids) ==
    {i \in Ids : i \in c.pending /\ c.place[i] = Vacant /\ "pinecone" \notin c.failing
                    /\ Passes(i, ids, c.doc)}

\* Several stores answer as one store would: what is found is the best of all that they
\* returned, as the distances of one are comparable with those of the other, and nothing of
\* another user or document.  A read finds all there is, up to the cap, but what Pinecone is
\* late with (MultiBackendCollection).
StoresAsOne ==
    /\ Of("search") =>
          /\ result.returned \subseteq Holding(call, {}) \cup Lingering(call, {})
          /\ result.found \in
                Best(result.returned, call.n, LAMBDA x, y : Similarity[x] > Similarity[y])
    /\ Of("get") =>
          LET there == Holding(call, call.ids)
              seen == there \cup Lingering(call, call.ids)
          IN  /\ result.read \subseteq seen
              /\ Cardinality(seen) <= ReadCap => there \ call.pending \subseteq result.read

\* The drivers differ to a caller in what a read of Pinecone is late with and where it is
\* cut, and in nothing else.
StoresAlike == ReindexConverges /\ DeletesExactly /\ StoresAsOne

=============================================================================
