# DocuChunk in TLA+

DocuChunk lets a user upload documents, turns each into embedded chunks in the background,
and answers questions from them with citations. This directory holds a formal model of the
parts of it whose correctness depends on order, interleaving and failure: TLA+ modules,
instances that TLC checks, and theorems that TLAPS proves. Paths are relative to the
repository; `app/` stands for `src/app/`.

## 1. The system

Three kinds of process share a database, a vector store and a directory.

    browser -- HTTP --> web process ---- enqueue ----> Redis (arq) ----> worker process
                        (FastAPI)                                        (threads)
                           |   \                                          /   |
                           |    +-- documents, chunks, embedding_jobs ---+    |
                           |    +-- one vector collection per user ------+    |
                           +------- uploads/, bm25_<user>.pkl ----------------+

| component | state | operations | what is hard |
|---|---|---|---|
| Upload and delete (`app/routers/documents.py`) | file on disk, row in `documents` | `upload_document`, `delete_document` | several commits with calls between them; a delete overtakes a run |
| Orchestrator (`app/pipeline/orchestrator.py`) | `documents.status`, `chunks` rows | `run_pipeline` | resume by status, by persisted chunks, by job; a handler that commits what the failed run left |
| Embedder (`app/pipeline/embedder.py`) | `embedding_jobs`: status, total, completed, failed ids, checkpoint | `embed_document`, `resume_embedding` | size tiers save at different points; batches of a delta against batches of the full list |
| Worker (`app/worker.py`, `app/workers/tasks.py`) | arq's queue, tries, in-progress key | task `run_pipeline` | redelivery, shutdown and timeout, while `asyncio.to_thread` cannot be cancelled |
| Vector sink (`app/pipeline/vector_store.py`) | the user's collection | `batch_upsert_sink`, `reconcile_document` | two indexes written one after the other |
| Lexical index (`app/pipeline/bm25_index.py`) | one pickle per user, a cache per process | `upsert_many`, `delete`, `delete_chunks`, `query` | a lock per process and a file for all of them |
| Registry and multi-backend store (`app/core/vector_registry.py`, `app/pipeline/multi_backend_store.py`) | one client per backend | `get_client`, merged reads, writes | partial failure of backends |
| Vector store drivers (`app/pipeline/pgvector_store.py`, `pinecone_store.py`) | one table or index for all users | upsert, get, query, delete | requests and reads are capped; a failure in the middle of several requests |
| Retrieval (`app/pipeline/retrieval.py`, `mmr.py`, `query_rewriter.py`) | none | hybrid search, fusion, rerank, diversity, groundedness | ranks, ties, cut-offs; each leg and each model may fail |
| Chunking (`app/pipeline/chunker.py`, `tokenization.py`) | none | three strategies, the token guard, offsets and pages | edges of windows, blanks, overlap |
| Context and citations (`app/generation/context_expander.py`, `prompt_builder.py`, `citation_*.py`, `query_classifier.py`) | none | widen, cut to a budget, classify, parse and validate citations | edges and rounding; what a silent or wrong judge may do |
| Answers (`app/routers/search.py`, `app/generation/*`) | answer cache | `generate_answer_endpoint`, streaming | what is cached when; disconnects; an index that changes under a request |
| Agent (`app/generation/agent/*`, `app/routers/agent.py`) | steps, collected chunks, calls made | `agent_events`, `generate_agent_endpoint` | budgets, parse errors, repetitions, fallback, tool errors |
| Chat (`app/routers/chat.py`) | sessions, messages | create, append, lock, delete | check-then-insert by concurrent requests |
| Authentication (`app/routers/auth.py`) | users, reset tokens, audit log | register, login, refresh, reset, two OAuth callbacks | look-then-insert; accounts that are linked by email and by identity |
| Tracing (`app/observability/*`) | span stack and trace id per request | `span`, `adopt` | a stream that outlives its endpoint; a tracer that fails |
| Evaluation (`app/eval/*`) | pacing state | metrics, failure classes, gate, pacing | edges of metrics; retries under a rate limit |
| LLM and embedding providers, integrations, pages, pipeline lab | clients | | I/O, or no state the program depends on |

How they interact: the upload commits a row and hands its id to arq. The worker's task runs
the orchestrator in a thread; it reads and writes the row, calls the embedder, which calls
the provider and the sink for every batch; the sink writes the vector collection and then
the lexical index. The web process reads both indexes for searches and removes a document
from them on delete, without any lock shared with the worker.

### What makes each component correct

* Ingestion: no crash, retry or resume leaves a chunk out silently; a checkpoint means what
  it says; counters stay within their totals; a queued document ends ready, failed or
  deleted; ready is final; a deleted document stays deleted; a lexical hit has its vector.
* Lexical index: its calls look atomic; readers see whole files and current caches.
* Answers: a cached answer is served to its own question and model only and never for a
  deleted document; the cache stays within its bound; a stream carries the pieces of one
  answer and ends in exactly one verification; every request ends.
* Agent: it ends within its budget, is never worse than a plain search, numbers its evidence
  without gaps or doubles, and its stream is well formed.
* Chat: blank sessions do not stack up; titles come from the user's messages.
* Authentication: an identity belongs to one account; whoever was let in is in the log.
* Tracing: a request is one tree, whatever overlaps or fails; nothing is left behind.
* Vector stores: a caller can tell which store, or how many, are behind its collection by what
  a read may miss and by nothing else; each backend has one client per process.
* Retrieval, chunking, context, citations, evaluation: each function does what its callers
  rely on for every input, edges and failing models included.

## 2. Modules

| module | what it is |
|---|---|
| `Ingestion` | one document from upload to deletion: web requests, arq job, pipeline runs, both indexes |
| `DocumentLife` | what a document's status promises, from upload to deletion; `Ingestion` implements it |
| `LexicalCorpus` | the promise of `BM25Index`: atomic calls on one corpus |
| `BM25Store` | the pickle file, the locks and the caches; implements `LexicalCorpus` while one process writes |
| `AnswerRequest` | requests for answers, their streams and the answer cache, over a document that comes and goes |
| `AgentLoop` | the agent's loop, its fallback and its endpoint |
| `ChatSessions` | chat sessions and their messages under overlapping requests |
| `Accounts` | accounts, reset tokens, OAuth callbacks, the audit log |
| `Tracing` | the span context of traced requests |
| `VectorRegistry` | the clients of the vector backends, built once by several threads |
| `Lists` | sorted lists, lists picked from and put together, sums: Python's list operations, for the functions below |
| `Calls` | one call of a function that keeps no state; extended by the seven that follow |
| `Chunking` | the chunker with its strategies, the token guard, offsets and pages |
| `PromptContext` | context expansion and the two token budgets |
| `Verification` | citations, their validation, the groundedness verdict, confidence |
| `Ranking` | rank fusion, rerank, diversity, several phrasings of a query |
| `Routing` | classification of a question and what evidence it is given; extends `Ranking` |
| `VectorStores` | both drivers, reindexing and deletion over them, and the merge of several backends |
| `Evaluation` | ground truth, metrics, failure classes, the gate, the offline generator and judge, pacing |
| `MCIngestion`, `MCBM25Store`, `MCAnswerRequest`, `MCChunking` | instances of one module for TLC |
| `MCServices` | the modules from `AgentLoop` on, in one instance |
| `IngestionProofs`, `BM25StoreProofs`, `AnswerRequestProofs`, `AgentLoopProofs` | theorems, each about the module of its name |
| `UsersProofs` | theorems about `ChatSessions` and `Accounts` |
| `FunctionProofs` | lemmas about what the functions of `Chunking`, `PromptContext`, `Routing`, `Ranking` and `Evaluation` return |
| `ServicesProofs` | theorems about `VectorRegistry`, `Tracing`, `Verification` and `VectorStores`, and about `MCServices`, which joins all parts from `AgentLoop` on |
| `InductionLemmas` | induction and recursive functions over the numbers, counting in a finite order, what `Lists` defines, for all of these |

Interaction. `Ingestion` has the shared stores and both processes in one module;
`BM25Store` looks closer at one of them, and `Ingestion` uses of it what `LexicalCorpus`
promises (a co-write takes effect at once or not at all). `AnswerRequest` meets ingestion in
what a request can find (`Index`, `RemoveVectors`, `RemoveRow`). The other parts share no
state with one another. `Routing` decides what the requests of `AnswerRequest` retrieve, and
`Verification` what their verdict says, where `AnswerRequest` has any.

### Ingestion

One document is modelled: documents share no row, job or chunk id. (What they share, the
pickle of their user's lexical corpus, is `BM25Store`'s subject.) A step is the code between
two points at which another process can look: a commit, a write to a store, a call that
leaves the process.

| variable | in the code |
|---|---|
| `upload`, `deletion` | how far `upload_document` and `delete_document` have come |
| `file` | the uploaded file |
| `collides` | whether the chunker gives two chunks of this file one id; chosen at the start |
| `doc` | `documents.status`; `absent` and `deleted` when there is no row |
| `rows` | the `chunks` rows, which one commit writes, so all or none |
| `job` | the newest `embedding_jobs` row of the version |
| `store`, `bm25` | the document's chunks in the vector collection and in the lexical index |
| `queue`, `tries` | the arq job and its `job_try` |
| `pc`, `loc` | where each thread is in `run_pipeline`, and its local variables |

| action | in the code |
|---|---|
| `SaveFile`, `InsertDocument`, `AssignBackend`, `Enqueue`, `RunInline`, `UploadAborts` | the steps of `upload_document`; `UploadAborts` is a crash, the 400 of `_assign_backend` after the row is committed, or an error of Redis |
| `DeleteFile`, `DeleteVectors`, `DeleteLexical`, `DeleteRow`, `DeleteCrash` | the steps of `delete_document`, whose store errors are swallowed |
| `StartJob`, `Ack`, `AbandonJob`, `Shutdown`, `Timeout`, `Crash` | arq and the operating system |
| `Begin` | resume by status and by persisted chunks |
| `Parse`, `Chunk`, `SetEmbedding`, `EmbedStage` | the stages of `_run_stages` and `_run_embed_and_finish` |
| `EmbedBatch`, `CoWrite`, `CommitBatch`, `Finalize` | the loop of `embedder._run` with the sink, and `_finalize_status` |
| `Settle`, `FailDoc`, `Raise`, `RowGone` | the last commit, `_fail`, the handler, and a run whose row is gone |

Details that are easily missed and are in the model: a session's objects expire at each
commit, so a run counts from what its session read last (`held`, `done`, `bad`); a SMALL job
counts in memory, and the handler's commit saves what it has counted; SQLAlchemy writes the
columns that changed, so a batch without failures leaves `failed_chunk_ids` to others;
autoflush is off; a delta embed numbers its batches in the list of missing chunks and a
resume in the full list; a worker that is shut down leaves its thread running.

`DocumentLife` is the abstract specification: what somebody who only looks at the status may
count on. Its actions are `Accept`, `Work`, `Finish`, `Retry`, `Withdraw` and `Remove`; jobs,
runs, checkpoints, the queue and the lexical index are not in it. `Ingestion` maps the statuses
from uploaded to embedding to "accepted", a document whose file is deleted and whose row is
not to "withdrawn", the store to `kept` and the job's failed ids to `givenUp`
(`LivesAsPromised`).

Chunk ids that collide. `Chunking` shows that two chunks of one run may have one id
(`chunk_ids`), and `Ingestion` takes this from it as the choice of `collides`, which is the same
for every run of the file. The commit of the chunk rows then fails, and so does the handler
(`app/pipeline/orchestrator.py:109-116`), which queries in the same session without a
rollback; its error is swallowed, the task returns, and arq acknowledges the job. The document
stays at "chunking" without a row, a run or a job, whatever tries are left (`Unchunkable`),
although `:202-204` says that deterministic ids avoid duplicate keys. The same exit is taken when
another run has inserted the rows; there somebody else settles the document.

The store is one whose reads see every write before them, as those of pgvector and Chroma do;
what Pinecone's late reads do to `reconcile_document` is in `VectorStores`.

Left out, and why it does not matter here: chunk ids are deterministic and the document
version never changes, so `reconcile_document` never finds a chunk that is out of date or to
be removed; creating the job row is one step with its first update; a run reads a row and
commits its change in one step where no call leaves the process in between; errors of the
database itself are not modelled; `retry_failed_embeddings` has no caller.

### BM25Store and LexicalCorpus

A file is missing, torn or whole. Writers open one shared temporary name (which truncates
what is there), dump, and swap; whoever holds a file open keeps it when it is moved (`at`).
A query looks at the mtime, then loads; `current[p]` says whether the mtime process p looked
at last still holds. mtimes are taken to differ between two writes. The dump is one step: a
small pickle is written when the file is closed. `LexicalCorpus` is the abstract
specification: a call takes effect at once or not at all.

### AnswerRequest

The requests ask for answers from one document of one user, whose version never changes, so
a cache key is a question and a model. `cache` is the `OrderedDict` of `InMemoryAnswerCache`,
least recently used first; `req[r]` holds the local variables of a request, `events[r]` what
its client was sent. `generate_answer_endpoint` is a coroutine that awaits nothing: it runs
from the lookup to the first event of its stream, or to its reply, without another request in
between (`OnLoop`), while the document changes at any moment, in other threads and processes.

| action | in the code |
|---|---|
| `Index`, `RemoveVectors`, `RemoveRow` | what ingestion and delete do to what a request can find |
| `Expire` | an entry's time to live passes; `get` drops it later |
| `Ask`, `Lookup`, `SendHit` | a request, `_resolve_doc_version` with `cache.get`, `_cached_sse_stream` |
| `Retrieve`, `Widen` | whole document or hybrid search and rerank; the retry for thin results |
| `Generate`, `Token`, `FallBack`, `StreamError`, `EndStream` | the plain call or `stream_generation`, with its failures before, on and after the first piece |
| `Verify`, `Save`, `SendVerdict` | `_build_answer_response`, which may raise, `_maybe_cache`, the last event |
| `Disconnect` | the client leaves |

A document deleted while it is ingested is `Ingestion`'s subject (`ingest_orphan`); here the
delete comes after the last chunk, and without that `DeletedNotServed` could not hold.

### AgentLoop

A request asks for one or all documents, with a subset of the tools, streamed or not.
`history` is `AgentState.history`, `collected` the numbered evidence, `seenCalls` the calls
made so far, `sent` what the client was sent.

| action | in the code |
|---|---|
| `CapReached`, `PlannerFails`, `Finish` | the three regular ends of `agent_events` |
| `ParseError`, `Refused`, `RepeatedCall` | error steps: no JSON, a tool or argument that is not allowed, the same call again; two in a row end the loop |
| `Call`, `ToolRaises` | a tool runs, or raises what `_run_tool` does not catch |
| `FallBackToRag`, `FallBackRaises` | the one search of a loop that found nothing |
| `Evidence`, `WriteToken`, `EndAnswer`, `SendVerification` | the endpoint, plain or streamed |
| `VerifyRaises` | `_build_answer_response` raises in `_finalize`: the request has no verification |
| `AgentDisconnect` | the client leaves |

The planner may write anything `parse_action` tells apart. That a tool's exception leaves the
loop, which the docstring of `agent/loop.py:14-22` denies, is modelled as the code does it.

### ChatSessions

Requests run in threads of their own and look in one step and write in a later one:
`CreateLook`/`CreateInsert`, `AppendLook`/`AppendMessage`, `ChangeLook` before `LockSession` and
`DeleteSession`; `DeleteDoc` takes the document's sessions along (foreign keys as PostgreSQL
keeps them). Empty messages and the limit of 25 listed documents are left out.

### Accounts

`RegisterLook`/`RegisterInsert` are two steps, and the unique email decides a race; `Login`,
`Refresh`, `ForgotPassword`, `ResetPassword` and `OAuthCallback` are one step each: nothing
another request could change lies between a look and its commit that the properties could
tell. `ExpireToken` and `Disable` are the clock and an operator. `granted` is a history
variable: how many pairs of tokens an account was given.

### Tracing and VectorRegistry

In `Tracing`, `EnterSpan` and `ExitSpan` are a span's enter and exit in the context of a
request, `Adopt` and `EndAdopt` the stream that takes up the root span after its endpoint
returned. A span the tracer failed to record is `Unrecorded`. In `VectorRegistry` a thread
resolves which backends it reads, and for each of them looks (`LookUp`), locks
(`AcquireLock`), looks again (`LookAgain`) and builds (`Build`, `BuildFails`).

### Functions

A module that extends `Calls` has no behaviour but one: a call with arguments from the
module's set, and its return. Its properties relate arguments and result, and say what the
function is for and not how it computes it. Texts are positions with blanks (`Chunking`),
sequences of positions (`PromptContext`), or sets of facts and words (`Verification`);
scores are integers or fractions.

`Chunking` knows three tokenizers. The model's begins a token with each word and at certain
lengths from its beginning (`cuts`), and leaves blanks out; tiktoken does the same and reads
blanks too; the last resort counts four characters a token. A piece of a chunk is tokenized
again from its own beginning, as `count_tokens` does, so a piece that begins inside a word may
count more tokens than the window it was cut by.

`Verification` keeps of a citation marker the numbers its tokens join by hyphens, of a judge's
reply which of four phrases it holds, of a verifier's line which of nine kinds it is of by the
phrases that are looked for, and of facts which is found inside which as text. A marker that
`int()` cannot read leaves no response (`Respond`).

`VectorStores` returns the set of all outcomes where the store is free to choose: ties, which
part of a failing request went through, a search by an approximate index with the conditions
applied afterwards, which may miss any chunk and find fewer than asked for (`Nearest`), and,
for Pinecone, which chunks a read or a search finds as they were a moment ago (`Views`): before
the writes of the last attempt, or in one earlier state of the user's chunks, and no older.

## 3. What TLC checks

| run | instance | shows |
|---|---|---|
| `ingest_recovery` | 5 chunks, batches of 2, SMALL to 2, LARGE from 4, 3 tries, one worker | resume after crashes: `ReadyAccountsForEveryChunk`, `CheckpointSound`, `LexicalWithinVector`, `CompletedWithinTotal`, `NoSilentLimbo`, the refinement `LivesAsPromised`, `QueuedSettles` |
| `ingest_overlap` | 2 chunks, LARGE from 2, two workers, shutdown without stopping the thread | with two runs at once the document settles: `NoSilentLimbo`, `QueuedSettles` |
| `ingest_delete` | 1 chunk, two workers, deletes, timeouts, shutdowns, inline runs | `DeletedIsFinal`, `DeletedSettles` |
| `bm25_one_writer` | 2 chunks, two threads of the worker that write, one of the web process that reads, crashes | `NeverHalfWritten`, `CacheSound`, and the refinement `KeepsPromise` |
| `answer_requests` | 2 requests, 2 chunks, 2 models, a cache of one entry, answers of up to 2 pieces | `CacheBounded`, `OwnAnswer`, `DeletedNotServed`, `StreamWellFormed`, `Answered` |
| `services` | every other part, one at a time: see below | the 18 properties below |

What `services` checks, part by part; each property's comment says what it means:

| part | instance | properties |
|---|---|---|
| `AgentLoop` | 2 documents of one passage, one query, 3 steps, one piece of answer | `AgentBounded`, `NeverWorseThanRag`, `EvidenceOnce`, `AgentStream`, `AgentEnds` |
| `ChatSessions` | one document, 2 requests, 2 sessions, 2 messages | `BlanksBounded`, `TitledByUser` |
| `Accounts` | 2 emails, one password, one provider with one identity, 2 registrations, 4 events | `OneAccountPerIdentity`, `GrantsLogged` |
| `Tracing` | 2 requests, nesting to 2, 4 spans | `OneTreePerRequest` |
| `VectorRegistry` | 2 backends, 2 threads, 3 builds | `OneClientPerBackend` |
| `Chunking` | up to 2 pages of up to 3 characters, any of them blank, 3 sizes, 2 overlaps, 3 token budgets of which one is none, 3 tokenizers of which two cut words | `ChunksSound` |
| `PromptContext` | spans within 4 characters, up to 3 texts of 5 lengths, 3 limits of each budget | `ContextSound` |
| `Verification` | up to 2 sentences with a marker of a number, a range or three numbers, 2 facts of which one is a part of the other, 2 chunks, 2 lines of a verifier of every kind, every reply of a judge | `VerdictsEarned` |
| `Ranking`, `Routing` | 4 chunks, rankings of up to 3, every cue | `RetrievalSound` |
| `VectorStores` | 2 users, 4 chunks of 2 documents, 2 texts, requests of one chunk, reads of 2, reads that are late with any of the chunks | `StoresAlike` |
| `Evaluation` | 3 chunks of 2 documents, reports of up to 2 questions, 2 retries | `EvaluationSound` |

Six runs find a violation of what the repository says of itself:

| run | what happens |
|---|---|
| `ingest_inline` | without Redis a document becomes ready with nothing in any index: the inline run has no provider and no store |
| `ingest_orphan` | a delete removes vectors and row while a run is under way, which then stores its next batch |
| `ingest_lost_update` | a second run counts from what it read before the first committed, and overwrites its failed ids: a checkpoint covers a chunk that is neither stored nor listed |
| `bm25_two_writers` | worker and web process write at the same time under one temporary name: a half-written corpus is swapped in, which a loader takes for an empty one |
| `answer_error_cached` | the verifier is away; the reply that says so is cached and served as a hit |
| `chunk_ids` | two overlapping chunks are both cut by the token guard, and a piece of each has the same place and so the same id, which is the primary key of its row; `Ingestion` takes up what follows |

Bounds. Five chunks in batches of two give a LARGE first attempt with a short last batch;
what a crash leaves over can be of each tier and shifts the batches of a delta against those
of the full list; three tries allow a delta, a resume of the delta and a redelivery. Two
chunks with LARGE from two are the least with two batches and checkpoints while two runs
overlap; the lost update needs three. One chunk is enough for deletes, as their properties
are about the row and the ends of runs. `MaxTries` is arq's own bound (5 by default).
`Crashes` says whether processes die: not in `ingest_overlap`, since a thread that outlived its
worker can move a document that is settled back to a processing status, and if it then dies,
with the tries used up, the document stays there. Two requests suffice for a hit, an eviction
and two interleaved streams, as the cache holds one entry for two keys; with two chunks and
one chunk per retrieval a result can be thin after the retry as well; `MaxTokens` bounds the
pieces of a stream, two being the least with a middle to fail in.

In `services` the parts share no state, so a behaviour of all of them is a behaviour of each,
and one part runs at a time. Three steps of the agent allow a success between errors, two
errors in a row at the cap or before it, and the fallback after the cap. Two actors are the
least that can race, and all the races of these parts (blank sessions, titles, registrations,
clients) are between two. `MaxSessions`, `MaxMessages`, `MaxEvents`, `MaxSpans`, `MaxNesting`,
`MaxBuilds` and `AgentTokens` bound how much is ever created. The caps of the stores, the
retrieval and the budgets are small, so that inputs on both sides of each occur; windows,
overlaps and lengths lie at, below and above the edges of the formulas.

Fairness. `FairSpec` assumes that a worker polls the queue (`StartJob`, `AbandonJob`) and
that a thread that was started goes on (`Step`), which holds of a running worker with a
scheduler; the requests of users, crashes, shutdowns, timeouts and exceptions are assumed of
nobody. Weak fairness is enough: none of these steps is disabled by another but for good or
by one of themselves. The lock of `BM25Store` is not fair, so no liveness is claimed there.
In `AnswerRequest` the event loop serves each request that can run (`Step`), and in
`AgentLoop` it serves the request (`AgentStep`); calls to models return or raise, as all of
them have time limits.

`CHECK_DEADLOCK FALSE` stands where the system may come to rest: a document that is ready or
failed, with its job gone; requests that are over; a function that has returned.

Deliberate faults. An operator whose comment begins with "Fault:" is no part of the model: it
is the definition after it with a mistake, and shows that a property notices the mistake.

### Seen while modelling

What the code does at its edges, and the models follow unless a point says that they do not.
Where a document says otherwise, it is quoted; none of this has a run of its own:

* A citation such as `[1-3-5]` or a date in brackets makes `int()` raise in
  `citation_parser._expand` (`app/generation/citation_parser.py:37-53`), and the answer is lost
  with it; the docstring (`:63-67`) speaks of markers out of range only, "flagged, never raised".
* A judge's "unsupported" or "doesn't support" is read as support
  (`app/generation/citation_validator.py:169-174`), of which the docstring says only that "not
  supported" is not; a fact is looked for as a substring, so that 1 is found in 10 (`:187`).
* A verifier whose first line begins with "None of the claims are supported", or holds one of
  the phrases anywhere, as in "Not all claims are supported" or in a bullet that affirms one claim
  as "fully supported", is read as finding nothing unsupported
  (`app/pipeline/retrieval.py:520-535`). Not in the model: it is shown the first eight chunks
  (`:468-470`) while `top_k` may be up to 50.
* `app/pipeline/tokenization.py:11-13` promises that every chunk fits the model's window. A window
  that begins inside a word is tokenized anew, and may then have more tokens than it was cut
  by (`:142-149`). With tiktoken or with the four characters a token a piece may be blank.
* `eval/BACKEND_COMPARISON.md:14-26` finds that Pinecone's reads may miss what was just written,
  and that what ingests and then reads needs a poll or a delay there. `reconcile_document`
  has neither: with Pinecone a chunk may stay although it is no longer wanted, or one may be
  taken for stored that has just been removed.
* After an error that names a `retryDelay` the evaluation's pacer waits that long and a second
  more (`app/eval/gen_harness.py:811-817`); the model has the interval between calls and the
  number of attempts, and not this.
* Cutting little from a text lengthens it by the mark of 17 characters; a source budget of 0
  means that nothing is cut.
* The load of the rerank model lies outside the `try` that its failure is meant for; the retry
  of a thin search ignores `top_k`; `rewrite_query` caches failures.
* `delete(ids=[])` and `get(ids=[])` of the pgvector driver mean the whole collection, from
  which its callers guard it; Pinecone's ignores `where` when ids are given; a document of
  more chunks than a read returns keeps ghosts there.
* `app/eval/agent_harness.py:412` says the agent never loses context recall; its sub-queries
  replace the question, so that it may. Classes of failure mask one another, and an answer
  without content words scores a faithfulness of 0.
* A tool that raises what `_run_tool` does not expect ends the agent's request, against
  `app/generation/agent/loop.py:14-22`; two parse errors end the loop on its second step too.
* A run that fails on all the chunks left to it marks the document failed though earlier runs
  stored most (`app/pipeline/orchestrator.py:278`); a delete that dies between its steps leaves
  a ready document without its file or its vectors (`app/routers/documents.py:316`); an answer
  cut off in mid-stream is cached like any other (`app/generation/streaming.py:69`).

## 4. What TLAPS proves

Every theorem holds for every value of the constants, from their assumptions only; a
hypothesis beyond them is named. The assumptions stand in the modules that declare the
constants. They say what the code's settings and types give: sizes, caps and floors are
natural numbers, texts, corpora and stores are finite, a size of a chunk or a number of hits
asked for is at least 1, at least one metric of the gate has a floor, and a document is read
in some order of its chunks. One is about the bounds only: a ranking names no more chunks
than there are.

| theorem | property | hypothesis |
|---|---|---|
| `IngestionProofs!TypeCorrect` | `TypeOK` | |
| `IngestionProofs!LexicalHitsResolve` | `LexicalWithinVector` | |
| `IngestionProofs!DeletedStaysDeleted` | `DeletedIsFinal` | |
| `IngestionProofs!ReadyStaysReady` | `ReadyIsFinal`, which no run checks | no run outlives its worker by a shutdown |
| `IngestionProofs!CheckpointsAreSound`, `ReadyMeansAccounted` | `CheckpointSound`, `ReadyAccountsForEveryChunk` | the same, and nothing runs inline |
| `IngestionProofs!NobodyInLimbo` | `NoSilentLimbo` | no run outlives its worker by a shutdown or outlasts its time limit, and nothing runs inline |
| `IngestionProofs!DocumentsLiveAsPromised` | the refinement `LivesAsPromised` | no run outlives its worker by a shutdown, and nothing runs inline |
| `IngestionProofs!OverlapsLeaveNobodyInLimbo` | `NoSilentLimbo`, and the same without the exception of used-up tries | no process dies and arq tries a job at all (`MaxTries > 0`); runs may overlap, outlast their limit and run inline |
| `IngestionProofs!ProgressWithinTotal` | `CompletedWithinTotal` | no run outlives its worker by a shutdown, and nothing runs inline |
| `BM25StoreProofs!StoreTypeCorrect` | `TypeOK` | |
| `BM25StoreProofs!FileIsWhole`, `CacheIsSound`, `PromiseIsKept` | `NeverHalfWritten`, `CacheSound`, the refinement `KeepsPromise` | all writers share a process |
| `AnswerRequestProofs!AnswerTypeCorrect`, `CacheIsBounded`, `AnswersAreOwn` | `TypeOK`, `CacheBounded`, `OwnAnswer` | |
| `AnswerRequestProofs!StreamsWellFormed`, `DeletedIsNotServed` | `StreamWellFormed`, `DeletedNotServed` | |
| `AgentLoopProofs!AgentTypeCorrect`, `AgentIsBounded`, `AgentStreamInOrder` | the type invariant, `AgentBounded`, `AgentStream` | |
| `AgentLoopProofs!NoWorseThanRag`, `EvidenceIsOnce` | `NeverWorseThanRag`, `EvidenceOnce` | |
| `UsersProofs!ChatTypeCorrect`, `TitlesByUser`, `BlanksAreBounded` | the type invariant, `TitledByUser`, `BlanksBounded` | |
| `UsersProofs!AccountsTypeCorrect`, `IdentitiesAreUnique`, `GrantsAreLogged` | the type invariant, `OneAccountPerIdentity`, `GrantsLogged` | |
| `ServicesProofs!RegistryTypeCorrect`, `OneClient` | the type invariant, `OneClientPerBackend` | |
| `ServicesProofs!TracingTypeCorrect`, `OneTree` | the type invariant, `OneTreePerRequest` | |
| `ServicesProofs!ServicesTypeCorrect` | `ServicesTypeOK` | |
| `ServicesProofs!VerdictsAreEarned` | `VerdictsEarned` | |
| `ServicesProofs!StoresAreAlike` | `StoresAlike` | |
| `ServicesProofs!RetrievalIsSound` | `RetrievalSound` | |
| `ServicesProofs!EvaluationIsSound` | `EvaluationSound` | |
| `ServicesProofs!ContextIsSound` | `ContextSound` | |
| `ServicesProofs!ChunksAreSound` | `ChunksSound` | |

The hypotheses are needed: `ingest_lost_update` and `ingest_inline` refute
`CheckpointSound` and `ReadyAccountsForEveryChunk` without theirs, `bm25_two_writers` refutes
`NeverHalfWritten` without its own.

### Ingestion

`LexicalWithinVector` is not inductive: a co-write adds `ok`, so `LexicalInv` carries that a
run about to co-write has its `ok` in the store (`UpsertComesFirst`), that the delete takes
the file first (`FileGoesFirst`), and that nothing is anywhere before the row (`Untouched`).

For the checkpoint, `ResumeInv` says that at most one run is at work (`OneRun`), that idle
runs remember nothing (`Forgotten`), and, while the file is there, what a run in the middle
of a job knows (`WorkInv`): it counts from the row's values (`HeldCounters`), the chunks
still to embed lie after those dealt with (`RestIsAhead`), and whatever of the first `next`
batches of the *full* list is not still ahead is stored, failed or in hand (`Covered`). The
last is what reconciles the two ways of counting batches: the k-th batch of a list of
missing chunks never begins before the k-th batch of the full list, so a checkpoint from a
delta is cautious when read as one of the full list. `BatchAdvance` is that counting
argument, from the cardinality theorems of the library. `DoneInv` carries the result to the
last commit.

That a deleted document stays so needs `RowLife` only: nothing is being deleted without a
row, and the upload inserts it once; a run neither inserts nor deletes (`NoRowNoWrite`). That
a ready one stays so needs that no run is past its first step then (`ReadyRests`), by
`OneRun`. `NoSilentLimbo` needs that arq waits for every run (`Awaited`) and that a run that has
returned has settled its document (`RunSettles`), which it could fail to do in three places
only: its chunk ids collide, its chunk rows were inserted by another run, or its job is gone
while the row is there. The first leaves the document `Unchunkable` for good, which the
property names as its exception; the invariants carry that no run gets past the chunk rows
of a file whose ids collide. Where runs overlap, the second does happen, and the document may
then be in mid-pipeline with that run gone. `OverlapInv` says that somebody else will settle it
(`Underway`): whenever a document that was dispatched is neither settled nor `Unchunkable`, there
is a run that will not give up silently (`GoingOn`: it has not returned, and the chunk rows it
may be about to insert are not there and their ids differ), or the job was never started. A run ceases to be one only by settling the document, or when another
inserts the chunk rows, which then is one.
A death of a process breaks this, and only a job that arq still waits for mends it: hence two
theorems, with deaths and without overlaps and the other way round.

That a document lives as its status says (`LivesAsPromised`) needs `LifeInv`: to `ResumeInv`
and `RowLife` it adds that there is nothing before the row (`NotYet`) and that whatever a run
does beyond its first look it does on a document in process (`Shown`), which is why its writes
are steps of `Work`: nothing is stored, and no failure reported, for a document that is ready
or failed. `LooksTheSame` proves a step that changes nothing of the image to be a stutter,
`WorkIsSeen` one of a run in mid-work to be `Work`; `RunIsSeen` goes through the steps of a
run and `LifeStep` through all others. `Settle` is `Finish` by `DoneInv`, a redelivery or an
upload in progress stutters, the resume of a failed document is `Retry`, and the delete's first
step is `Withdraw`. TLC checks the refinement without deletes, the theorem has them.

That a job never reports more than its total needs two bounds on what a run has counted, in
memory or in the row (`Tallied`): with what is left to it, no more than the total, and no more
than a full batch for each number it has used. By the second, what a checkpoint is saved with
fits into the batches it covers (`JobTallied`), so that what a resume adds fits into the rest.

### The lexical index

`StoreInv` says who has the lock (`Calls`), that the file in place is whole and the temporary
one is the work of the writer who has the lock (`FilesInv`), and that an entry under an mtime
that holds is the corpus unless a load of the same process is on its way (`CacheInv`). With
one process that writes, `OneHolder` makes the writer unique, so that what it swaps in is
what it loaded with its change. Each step is then one of `LexicalCorpus` or a stutter
(`StoreNext`): a write takes effect at its swap, or at its load when it changes nothing, a
query at its look or its load, and a failure or a crash is `Fail`. The type invariant needs no
hypothesis: with `Calls` it holds for any number of writers.

### The other parts

`AnswerInv` speaks of the document and of each request apart (`DocInv`, `Kept`): the shape of
what was sent so far by where the request is, and that a request made after the delete gets
no further than its retrieval, with nothing sent; for these two theorems the cache may hold
anything. `CacheInv` says of it that every entry is filed under the question and the model of
its answer, each key once, within the bound; `TypedInv` that a request holds an answer of its
own only, which a hit and a store hand on. What a cache without one of its entries is, is
proved of `RemoveAt` (`Removed`, `WithoutKeeps`).

`AgentInv` bounds the history by the stage, with at most one fallback and that last, and
says what a stream has carried at each stage. `EvidenceInv` adds that the evidence is what
the steps found, each once, and that a stage after the loop has evidence or a fallback that
found none; what `AddChunks` computes is proved by induction on the number of passages.
`ChatInv` adds to the titles what an append under way has seen (`ReferencesHold`): it saw the
session untitled or the session has a title now. That blank sessions are bounded is counted:
the blank sessions of a document with the requests about to insert one are never more than
the requests (`BlanksBacked`), as a request decides to insert only where there is no blank
session, and inserting trades one for the other. `AccountsInv` is `LinkedOnce`: the callbacks link only what
they found unlinked, in one step; `LogInv` keeps the pairs of tokens given within the events
that say so, one step adding to both.

`RegistryInv` adds to the one client what a thread between its two looks still asks for
(`Asking`). `TraceInv` says that what is recorded is a forest with a root for each request
(`Forest`), and that a request's context, the ones saved below it and the one its stream will
take up are its own and fit how deep it is inside of spans (`Nested`). The type invariants of
the parts give that of all, `ServicesTypeOK`, as the parts share no variable and a step is of
one of them.

A function's theorem has the invariant `CallsInv`, which says that the arguments are those of
a call of that function and that what was returned is what the module defines. The rest are
lemmas about the definitions. `VerdictsEarned` splits as its definition does; the fractions are
compared by multiplying out, and a sentence's citations are finite because the vocabulary is.
For `StoresAlike`, what a read finds of a chunk is what is there or what was a moment ago
(`ViewsMean`); a write of either driver writes some of its batch, and all of it if it
succeeds (`UpsertMeans`); by induction on the batches the sink does the same with its chunks
(`BatchesMean`, `SinkMeans`), and a delete removes what it names or nothing (`DeleteMeans`).
So one run of `reconcile_document` leaves between what was there and what is wanted, exactly
the latter where it read what is there (`ReindexMeans`, `RunConverges`), and a second run starts
from there, late with the first or with what the first was late with. Searches and reads over
both stores return what is there or lingers (`SearchesAsOne`, `ReadsAsOne`). A merged answer is a
best choice of what the stores returned (`MergeIsBest`): in a strict order of a finite
set every place is taken by exactly one member (`RanksAreTaken`), hits are different chunks
(`HitsDiffer`), and a chunk that is no hit was beaten by as many hits of its own store as were
asked for (`NotAnswered`).

The functions of text and numbers have their lemmas in `FunctionProofs`, a section each, and
all rest on `InductionLemmas`: what is sorted has every member in exactly one place, which
counts those before it; what is flattened has exactly the members of its parts; a sum is
bounded by bounds of its terms.

* `RetrievalSound`. A listing names each chunk once. Two legs are fused in the order of their
  scores (`FusedMeans`, `FusionMeans`), where a lost leg leaves the other's order
  (`AloneIsFused`) because a reciprocal falls with the rank (`ReciprocalFalls`). The selection of
  MMR grows by the best of what is left (`ChoiceMeans`, `SelectionMeans`), by induction on its
  steps.
* `EvaluationSound`. The edges of the metrics are inequalities between fractions, compared by
  multiplying out: what moves up by a place raises precision and rank (`NeighboursDecide`,
  `SoonerIsBetter`). Counting gives each failed question one class (`CountedOnce`); the extracted
  answer is made of sentences of the chunks (`GeneratorIsGrounded`); the pacer's log keeps its
  distance by induction on the attempts (`AttemptsKeepDistance`).
* `ContextSound`. A text "reads" when it goes on or has a seam at every place; joining one more
  span keeps it so and adds what the span has (`ReadsOn`, `JoinMeans`), hence merging does, by
  induction on the spans (`MergeMeans`). For the budgets, after each cut what was passed by was
  cut or is at its floor, and the sum exceeds the limit by no more than the marks
  (`TrimKeeps`, `BudgetMeans`); a second budget adds a second mark at most (`CutTwice`), and the
  rounding of the estimate hides less than a token of each text (`PromptMeans`).
* `ChunksSound`. Each strategy covers what is written and cuts in different places. Windows with a
  positive step leave no gap (`WindowsCover`). Sentences and blocks are the maximal runs of a set
  of positions (`RunsMean`). A loop that goes on from a unit to a later one, not beyond the end
  of its chunk, leaves no unit uncovered (`VisitedMeans`, with `ReachMeans` and `LastMeans` for
  the ends); so the chunks of sentences and of paragraphs cover all units (`SentencesCut`,
  `ParagraphsCut`). The token guard splits by windows of a span's tokens, which lie one after the
  other and cover what is written (`TokensAre`, `TokensSplit`); a piece that does not begin inside a
  word has in itself the tokens it was cut by (`TokensStay`, `TokensCounted`), and so fits. The
  pages of a span are an interval, as pages lie one after the other (`PagesMean`, `PiecePages`).

### What the proofs changed

Four definitions were found wrong or too weak when TLC's instance was left behind, and were
corrected. `CitationsEarned` had claimed more of a citation without facts than the validation
looks at. `BudgetKept` had left out the marks of cut texts where the floor is reached.
`SecondOpinion` compared with the wrong pool, which the instance had too few chunks to tell.
The merge of `VectorStores` and the retrieval's pool are now stated by what is chosen rather
than by how it is sorted.

`Ranking`, `Routing`, `Evaluation`, `PromptContext` and `Chunking` were written with the folds and
`SelectSeq` of the community modules, of which nothing can be proved here; they now say what is
chosen and in which order, or recur over a number. For `Chunking`, TLC compared the two
definitions on 980,000 inputs, and they agreed. `SurrogateGrounded`, a part of `EvaluationSound`,
turned out to be weaker than what holds: it had excused answers that are shorter than they may
be, and sentences without a word of the question, and does so no more.

### What stays with TLC

Liveness and whatever needs ENABLED: `QueuedSettles`, `DeletedSettles`, `Answered`, `AgentEnds`.
Every other property of a passing run is the property of a theorem, under the
hypotheses of the table.

The provers have no induction over data, but the library's well-founded induction can be
cited for a *set* of numbers, and so for a property of a recursive function that is stated as
one (`InductionLemmas`); an operator that is `RECURSIVE`, or a fold of the community modules, has
no such definition to unfold.

## 5. Not modelled

* LLM and embedding clients, mail, the exchange with the OAuth providers: calls to services,
  whose outcomes are choices of the models that make them.
* Parsing, OCR, cleaning and language statistics: what they make of a file is not
  controlled by state; that they succeed or fail is a choice of `Ingestion`.
* The wording of prompts, the patterns of the quality guard, tokens and BM25 scores: text.
* The Redis cache of answers (one `SETEX` per entry, no bound of its own) and replies over
  several documents, which are never cached.
* The pipeline lab and inspection endpoints: they read, and store one finished record.
* Chroma as a third backend of `VectorStores`; creating schemas and indexes, heartbeats.
* The agent and RAGAS harnesses' set-up and reports, the LangChain and LlamaIndex adapters,
  pages, start-up, scripts, deployment.
* `retry_failed_embeddings`, which nothing calls.

## 6. What is left

A cache of answers shared by processes, as Redis is; several documents of one user in one
model, so that their runs meet in the lexical index and in a search; the repair of a lexical
index that has lost a co-write, which the code does not have.
