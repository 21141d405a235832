------------------------------ MODULE Ingestion ------------------------------
(***************************************************************************)
(* The life of one uploaded document: the upload and delete requests of    *)
(* the web process, the arq job that carries its id to a worker, the       *)
(* pipeline run (parse, chunk, embed, store) with its two levels of        *)
(* resume, and the two indexes the run fills.                              *)
(*                                                                         *)
(* Documents share no row, no embedding job and no chunk id, so one        *)
(* document is modelled; the pickle file in which the documents of a user  *)
(* share a BM25 corpus is the subject of a module of its own.  A step is   *)
(* the code between two points at which another process can look: a        *)
(* commit, a write to a store, a call that leaves the process.             *)
(***************************************************************************)
EXTENDS Integers, FiniteSets

CONSTANTS
    N,          \* the number of chunks the chunker makes of this document
    BatchSize,  \* embed_batch_size
    SmallMax,   \* embed_small_max: a job of at most so many chunks is SMALL
    LargeMin,   \* embed_large_min: a job of at least so many chunks is LARGE
    MaxTries,   \* arq's max_tries: how often a job is started at most
    Runs,       \* the threads that can execute run_pipeline
    Modes,      \* how uploads are dispatched: a subset of {"arq", "inline"}
    Crashes,    \* TRUE: a process may die in the middle of a run
    Overlap,    \* TRUE: a worker may be shut down while its thread goes on
    Timeouts,   \* TRUE: a run may outlast arq's job_timeout
    Deletes,    \* TRUE: the user may delete the document
    Cascade     \* TRUE: the database enforces ON DELETE CASCADE

ASSUME SizesAssumption ==
    /\ N \in Nat \ {0} /\ BatchSize \in Nat \ {0}
    /\ SmallMax \in Nat /\ LargeMin \in Nat /\ SmallMax < LargeMin

ASSUME ModeAssumption ==
    /\ MaxTries \in Nat
    /\ Modes \subseteq {"arq", "inline"}
    /\ {Crashes, Overlap, Timeouts, Deletes, Cascade} \subseteq BOOLEAN

VARIABLES
    upload,     \* where the upload request is
    deletion,   \* where the delete request is
    file,       \* is the uploaded file on disk?
    collides,   \* does the chunker give two chunks of this file the same id?
    doc,        \* documents.status, "absent" before and "deleted" after the row
    rows,       \* are the chunk rows there?  (all of them or none)
    job,        \* the embedding_jobs row of this document version
    store,      \* the chunks whose vectors are in the owner's collection
    bm25,       \* the chunks in the owner's lexical index
    queue,      \* the arq job: "none", "queued" or "running"
    tries,      \* arq's job_try
    pc,         \* where each run is
    loc         \* what each run keeps in memory

webVars   == <<upload, deletion, file, collides>>
indexVars == <<store, bm25>>
queueVars == <<queue, tries>>
runVars   == <<pc, loc>>
vars == <<webVars, doc, rows, job, indexVars, queueVars, runVars>>

-----------------------------------------------------------------------------
Chunks == 1 .. N

\* The row is absent before the first commit and after the delete.
HasRow == doc \notin {"absent", "deleted"}

\* The size tier of a job of n chunks.
Tier(n) == IF n <= SmallMax THEN "SMALL"
           ELSE IF n >= LargeMin THEN "LARGE" ELSE "MEDIUM"

NoJob == [status |-> "none", total |-> 0, completed |-> 0, failed |-> {}, ckpt |-> -1]

\* A run's memory: who waits for it, the size of its job, the number of the next
\* batch, the chunks still to embed, the batch in hand and the part of it that was
\* embedded.  held: the session holds the job's counters as done and bad, read when
\* the job was begun; its next commit expires them, so that they are read anew.
NoLoc == [mode |-> "none", total |-> 0, next |-> 0, rest |-> {}, batch |-> {},
          ok |-> {}, held |-> FALSE, done |-> 0, bad |-> {}]

Jobs == [status : {"none", "in_progress", "completed", "completed_with_failures", "failed"},
         total : Nat, completed : Nat, failed : SUBSET Chunks, ckpt : Nat \cup {-1}]

Locs == [mode : {"none", "arq", "inline", "zombie"}, total : Nat, next : Nat,
         rest : SUBSET Chunks, batch : SUBSET Chunks, ok : SUBSET Chunks,
         held : BOOLEAN, done : Nat, bad : SUBSET Chunks]

Labels == {"idle", "begin", "parse", "chunk", "rechunk", "status", "embed", "batch", "bm25", "commit",
           "ready", "failed", "ack"}

TypeOK ==
    /\ upload \in {"idle", "saved", "inserted", "assigned", "done", "dead"}
    /\ deletion \in {"idle", "vectors", "bm25", "row"}
    /\ file \in BOOLEAN /\ collides \in BOOLEAN
    /\ doc \in {"absent", "uploaded", "parsing", "chunking", "embedding", "ready",
                "failed", "deleted"}
    /\ rows \in BOOLEAN
    /\ job \in Jobs
    /\ store \in SUBSET Chunks /\ bm25 \in SUBSET Chunks
    /\ queue \in {"none", "queued", "running"}
    /\ tries \in 0 .. MaxTries
    /\ pc \in [Runs -> Labels]
    /\ loc \in [Runs -> Locs]

Init ==
    /\ upload = "idle" /\ deletion = "idle" /\ file = FALSE /\ collides \in BOOLEAN
    /\ doc = "absent" /\ rows = FALSE /\ job = NoJob
    /\ store = {} /\ bm25 = {}
    /\ queue = "none" /\ tries = 0
    /\ pc = [r \in Runs |-> "idle"]
    /\ loc = [r \in Runs |-> NoLoc]

-----------------------------------------------------------------------------
(* The upload request.                                                     *)

SaveFile ==
    /\ upload = "idle"
    /\ upload' = "saved" /\ file' = TRUE
    /\ UNCHANGED <<deletion, collides, doc, rows, job, indexVars, queueVars, runVars>>

InsertDocument ==
    /\ upload = "saved"
    /\ upload' = "inserted" /\ doc' = "uploaded"
    /\ UNCHANGED <<deletion, file, collides, rows, job, indexVars, queueVars, runVars>>

\* The row is on view since its commit, so a delete may have overtaken the request:
\* then pinning the backend finds no row and the request ends with an error.
AssignBackend ==
    /\ upload = "inserted"
    /\ upload' = IF HasRow THEN "assigned" ELSE "dead"
    /\ UNCHANGED <<deletion, file, collides, doc, rows, job, indexVars, queueVars, runVars>>

Enqueue ==
    /\ upload = "assigned" /\ "arq" \in Modes
    /\ upload' = "done" /\ queue' = "queued"
    /\ UNCHANGED <<deletion, file, collides, doc, rows, job, indexVars, tries, runVars>>

\* Without a pool the web process itself runs the pipeline, after the response and
\* with neither an embedding provider nor a vector store.
RunInline(r) ==
    /\ upload = "assigned" /\ "inline" \in Modes
    /\ pc[r] = "idle"
    /\ upload' = "done"
    /\ pc' = [pc EXCEPT ![r] = "begin"]
    /\ loc' = [loc EXCEPT ![r] = [NoLoc EXCEPT !.mode = "inline"]]
    /\ UNCHANGED <<deletion, file, collides, doc, rows, job, indexVars, queueVars>>

\* The request ends early: the web process dies, the chosen backend turns out to be
\* unavailable (400, after the row is committed), Redis refuses the job.
UploadAborts ==
    /\ upload \in {"saved", "inserted", "assigned"}
    /\ upload' = "dead"
    /\ UNCHANGED <<deletion, file, collides, doc, rows, job, indexVars, queueVars, runVars>>

-----------------------------------------------------------------------------
(* The delete request: file, vectors, lexical entries, row, in that order. *)

DeleteFile ==
    /\ Deletes /\ deletion = "idle" /\ HasRow
    /\ file' = FALSE /\ deletion' = "vectors"
    /\ UNCHANGED <<upload, collides, doc, rows, job, indexVars, queueVars, runVars>>

\* An error of the store is swallowed, and an unreachable backend is replaced by the
\* default one, which holds nothing of this document: either way the vectors stay.
DeleteVectors ==
    /\ deletion = "vectors"
    /\ store' \in {{}, store}
    /\ deletion' = "bm25"
    /\ UNCHANGED <<upload, file, collides, doc, rows, job, bm25, queueVars, runVars>>

DeleteLexical ==
    /\ deletion = "bm25"
    /\ bm25' \in {{}, bm25}
    /\ deletion' = "row"
    /\ UNCHANGED <<upload, file, collides, doc, rows, job, store, queueVars, runVars>>

DeleteRow ==
    /\ deletion = "row"
    /\ doc' = "deleted" /\ deletion' = "idle"
    /\ IF Cascade THEN rows' = FALSE /\ job' = NoJob ELSE UNCHANGED <<rows, job>>
    /\ UNCHANGED <<upload, file, collides, indexVars, queueVars, runVars>>

DeleteCrash ==
    /\ deletion # "idle"
    /\ deletion' = "idle"
    /\ UNCHANGED <<upload, file, collides, doc, rows, job, indexVars, queueVars, runVars>>

-----------------------------------------------------------------------------
(* The arq job around a run.                                               *)

\* Fault: a job is started however often it was started before.
UnboundedStart(r) ==
    /\ queue = "queued" /\ pc[r] = "idle"
    /\ queue' = "running" /\ tries' = tries + 1
    /\ pc' = [pc EXCEPT ![r] = "begin"]
    /\ loc' = [loc EXCEPT ![r] = [NoLoc EXCEPT !.mode = "arq"]]
    /\ UNCHANGED <<webVars, doc, rows, job, indexVars>>

StartJob(r) ==
    /\ queue = "queued" /\ tries < MaxTries
    /\ pc[r] = "idle"
    /\ queue' = "running" /\ tries' = tries + 1
    /\ pc' = [pc EXCEPT ![r] = "begin"]
    /\ loc' = [loc EXCEPT ![r] = [NoLoc EXCEPT !.mode = "arq"]]
    /\ UNCHANGED <<webVars, doc, rows, job, indexVars>>

\* Too many starts: arq drops the job, and the document stays as it is.
AbandonJob ==
    /\ queue = "queued" /\ tries = MaxTries
    /\ queue' = "none"
    /\ UNCHANGED <<webVars, doc, rows, job, indexVars, tries, runVars>>

\* Fault: the job leaves the queue when it is started, not when it has been run.
CrashLosesJob(r) ==
    /\ Crashes /\ pc[r] # "idle"
    /\ queue' = IF loc[r].mode = "arq" THEN "none" ELSE queue
    /\ pc' = [pc EXCEPT ![r] = "idle"]
    /\ loc' = [loc EXCEPT ![r] = NoLoc]
    /\ UNCHANGED <<webVars, doc, rows, job, indexVars, tries>>

\* The process that executes run r dies.  If arq still waits for the run, the job is
\* started again once its in-progress key has expired.
Crash(r) ==
    /\ Crashes /\ pc[r] # "idle"
    /\ queue' = IF loc[r].mode = "arq" THEN "queued" ELSE queue
    /\ pc' = [pc EXCEPT ![r] = "idle"]
    /\ loc' = [loc EXCEPT ![r] = NoLoc]
    /\ UNCHANGED <<webVars, doc, rows, job, indexVars, tries>>

\* A worker that is asked to stop cancels the job, for another worker to start again;
\* the thread that executes the pipeline cannot be cancelled and goes on.
Shutdown(r) ==
    /\ Overlap /\ pc[r] # "idle" /\ loc[r].mode = "arq"
    /\ queue' = "queued"
    /\ loc' = [loc EXCEPT ![r].mode = "zombie"]
    /\ UNCHANGED <<webVars, doc, rows, job, indexVars, tries, pc>>

\* After job_timeout arq gives the job up for good; the thread goes on all the same.
Timeout(r) ==
    /\ Timeouts /\ pc[r] # "idle" /\ loc[r].mode = "arq"
    /\ queue' = "none"
    /\ loc' = [loc EXCEPT ![r].mode = "zombie"]
    /\ UNCHANGED <<webVars, doc, rows, job, indexVars, tries, pc>>

\* run_pipeline returns.  A run that arq waits for is acknowledged in a step of its own.
Return(r) ==
    IF loc[r].mode = "arq"
    THEN /\ pc' = [pc EXCEPT ![r] = "ack"]
         /\ loc' = [loc EXCEPT ![r] = [NoLoc EXCEPT !.mode = "arq"]]
    ELSE /\ pc' = [pc EXCEPT ![r] = "idle"]
         /\ loc' = [loc EXCEPT ![r] = NoLoc]

Ack(r) ==
    /\ pc[r] = "ack"
    /\ queue' = IF loc[r].mode = "arq" THEN "none" ELSE queue
    /\ pc' = [pc EXCEPT ![r] = "idle"]
    /\ loc' = [loc EXCEPT ![r] = NoLoc]
    /\ UNCHANGED <<webVars, doc, rows, job, indexVars, tries>>

-----------------------------------------------------------------------------
(* The pipeline run.                                                       *)

Goto(r, label) == pc' = [pc EXCEPT ![r] = label] /\ UNCHANGED loc

\* Fault: a run waits for the row of its document to come back.
AwaitRow(r) ==
    /\ ~HasRow
    /\ Goto(r, pc[r])
    /\ UNCHANGED <<webVars, doc, rows, job, indexVars, queueVars>>

\* A run whose document row is gone fails at its next commit or refresh of it, and
\* the handler that should record the failure finds nothing to record it in.
RowGone(r) ==
    /\ ~HasRow
    /\ Return(r)
    /\ UNCHANGED <<webVars, doc, rows, job, indexVars, queueVars>>

\* Fault: a caught failure ends the run without a word in the document row.
FailSilently(r) ==
    /\ HasRow
    /\ Return(r)
    /\ UNCHANGED <<webVars, doc, rows, job, indexVars, queueVars>>

\* A caught failure: the document is marked failed and the run is over.
FailDoc(r) ==
    /\ HasRow
    /\ doc' = "failed"
    /\ Return(r)
    /\ UNCHANGED <<webVars, rows, job, indexVars, queueVars>>

\* Resume by status and by persisted chunks.
Begin(r) ==
    /\ pc[r] = "begin"
    /\ IF ~HasRow \/ doc = "ready"
       THEN Return(r) /\ UNCHANGED doc
       ELSE IF rows
       THEN Goto(r, "status") /\ UNCHANGED doc
       ELSE Goto(r, "parse") /\ doc' = "parsing"
    /\ UNCHANGED <<webVars, rows, job, indexVars, queueVars>>

\* Parse and clean; an unreadable, missing or empty file fails the document.
Parse(r) ==
    /\ pc[r] = "parse"
    /\ \/ RowGone(r)
       \/ FailDoc(r)
       \/ /\ HasRow /\ file
          /\ doc' = "chunking" /\ Goto(r, IF rows THEN "rechunk" ELSE "chunk")
          /\ UNCHANGED <<webVars, rows, job, indexVars, queueVars>>

\* Fault: the chunk rows are inserted without deleting the ones that are there.
InsertOnly(r) ==
    /\ pc[r] \in {"chunk", "rechunk"}
    /\ \/ RowGone(r)
       \/ FailDoc(r)
       \/ /\ HasRow /\ ~collides /\ ~rows
          /\ rows' = TRUE /\ Goto(r, "status")
          /\ UNCHANGED <<webVars, doc, job, indexVars, queueVars>>
       \/ /\ HasRow /\ (collides \/ rows)
          /\ Return(r)
          /\ UNCHANGED <<webVars, doc, rows, job, indexVars, queueVars>>

\* Delete-then-insert of the chunk rows, in one commit.  Rows that were there before
\* are replaced.  The insert fails when the same id is in it twice, and when an
\* overlapping run has inserted the same deterministic ids after a delete that found
\* none: then the session that should record the failure is the one that failed, so
\* that nothing is recorded.
Chunk(r) ==
    /\ pc[r] \in {"chunk", "rechunk"}
    /\ \/ RowGone(r)
       \/ FailDoc(r)
       \/ /\ HasRow /\ ~collides
          /\ rows' = TRUE /\ Goto(r, "status")
          /\ UNCHANGED <<webVars, doc, job, indexVars, queueVars>>
       \/ /\ HasRow /\ (collides \/ (pc[r] = "chunk" /\ rows))
          /\ Return(r)
          /\ UNCHANGED <<webVars, doc, rows, job, indexVars, queueVars>>

\* Fault: the status is left as it is, to be written when the embedding is over.
EmbedQuietly(r) ==
    /\ pc[r] = "status"
    /\ \/ RowGone(r)
       \/ /\ HasRow
          /\ Goto(r, "embed")
          /\ UNCHANGED <<webVars, doc, rows, job, indexVars, queueVars>>

SetEmbedding(r) ==
    /\ pc[r] = "status"
    /\ \/ RowGone(r)
       \/ /\ HasRow
          /\ doc' = "embedding" /\ Goto(r, "embed")
          /\ UNCHANGED <<webVars, rows, job, indexVars, queueVars>>

\* Begin a job over the chunks todo, numbering its batches from first.
InitJob(r, j, todo, first, total) ==
    /\ job' = [j EXCEPT !.status = "in_progress", !.total = total]
    /\ pc' = [pc EXCEPT ![r] = "batch"]
    /\ loc' = [loc EXCEPT ![r] = [@ EXCEPT !.rest = todo, !.next = first, !.total = total,
                                           !.held = TRUE, !.done = j.completed,
                                           !.bad = j.failed]]

\* Fault: a resumed job starts from empty counters, as a fresh one does.
ResumeAfresh(r) ==
    InitJob(r, [job EXCEPT !.completed = 0, !.failed = {}],
            {c \in Chunks : c > (job.ckpt + 1) * BatchSize}, job.ckpt + 1, N)

\* Fault: the batches to skip are counted in the list of what is missing.
ResumeDelta(r) ==
    LET missing == Chunks \ store
        left    == {c \in missing :
                      Cardinality({d \in missing : d <= c}) > (job.ckpt + 1) * BatchSize}
    IN  InitJob(r, job, left, job.ckpt + 1, N)

\* A job that stopped after batch ckpt goes on with the batches after it, of the full
\* list of chunks.
ResumeEmbedding(r) ==
    InitJob(r, job, {c \in Chunks : c > (job.ckpt + 1) * BatchSize}, job.ckpt + 1, N)

\* Fault: a fresh job keeps the counters of the attempt before.
EmbedOnTop(r) ==
    LET todo == Chunks \ store
    IN  InitJob(r, job, todo, 0, Cardinality(todo))

\* A fresh job: the chunks reconcile_document finds missing from the store.  Chunk ids
\* and contents are the same in every run, so that no stored chunk is out of date.
EmbedDocument(r) ==
    LET todo == Chunks \ store
    IN  InitJob(r, NoJob, todo, 0, Cardinality(todo))

\* The embed stage decides: no provider, already complete, resume, or start.
EmbedStage(r) ==
    /\ pc[r] = "embed"
    /\ \/ RowGone(r)
       \/ /\ HasRow
          /\ IF loc[r].mode = "inline" \/ job.status = "completed"
             THEN Goto(r, "ready") /\ UNCHANGED job
             ELSE IF job.ckpt >= 0 THEN ResumeEmbedding(r) ELSE EmbedDocument(r)
          /\ UNCHANGED <<webVars, doc, rows, indexVars, queueVars>>

\* b is the next batch of rest: its BatchSize first chunks, or all that is left.
IsBatch(b, rest) ==
    /\ b \in SUBSET rest
    /\ \A x \in b, y \in rest \ b : x < y
    /\ Cardinality(b) = BatchSize \/ (b = rest /\ Cardinality(b) < BatchSize)

\* One batch: the provider embeds ok and returns None for the others, and the sink
\* upserts ok.  An empty batch never reaches the indexes.
EmbedBatch(r) ==
    /\ pc[r] = "batch" /\ loc[r].rest # {}
    /\ \E b \in SUBSET loc[r].rest :
          /\ IsBatch(b, loc[r].rest)
          /\ \E ok \in SUBSET b :
                /\ store' = store \cup ok
                /\ pc' = [pc EXCEPT ![r] = IF ok = {} THEN "commit" ELSE "bm25"]
                /\ loc' = [loc EXCEPT ![r] = [@ EXCEPT !.rest = loc[r].rest \ b, !.batch = b,
                                                      !.ok = ok]]
    /\ UNCHANGED <<webVars, doc, rows, job, bm25, queueVars>>

\* Fault: the co-write mirrors the batch and not what was embedded of it.
CoWriteBatch(r) ==
    /\ pc[r] = "bm25"
    /\ bm25' \in {bm25 \cup loc[r].batch, bm25}
    /\ Goto(r, "commit")
    /\ UNCHANGED <<webVars, doc, rows, job, store, queueVars>>

\* The co-write of the lexical index; its failure is logged and swallowed.
CoWrite(r) ==
    /\ pc[r] = "bm25"
    /\ bm25' \in {bm25 \cup loc[r].ok, bm25}
    /\ Goto(r, "commit")
    /\ UNCHANGED <<webVars, doc, rows, job, store, queueVars>>

\* The counters as run r sees them: the ones its session holds, or the row's.
Counters(r) ==
    IF loc[r].held THEN [completed |-> loc[r].done, failed |-> loc[r].bad]
    ELSE [completed |-> job.completed, failed |-> job.failed]

\* The end of a batch.  A SMALL job only counts in memory; a MEDIUM one saves the
\* counters that changed; a LARGE one saves the checkpoint with them.  A job row that
\* the delete has taken along ends the run.
CommitBatch(r) ==
    LET l         == loc[r]
        completed == Counters(r).completed + Cardinality(l.ok)
        failed    == Counters(r).failed \cup (l.batch \ l.ok)
        next      == [l EXCEPT !.next = @ + 1, !.batch = {}, !.ok = {}]
    IN  /\ pc[r] = "commit"
        /\ IF Tier(l.total) = "SMALL"
           THEN /\ pc' = [pc EXCEPT ![r] = "batch"]
                /\ loc' = [loc EXCEPT ![r] = [next EXCEPT !.done = completed, !.bad = failed]]
                /\ UNCHANGED job
           ELSE IF job.status = "none"
           THEN Return(r) /\ UNCHANGED job
           ELSE /\ pc' = [pc EXCEPT ![r] = "batch"]
                /\ loc' = [loc EXCEPT ![r] = [next EXCEPT !.held = FALSE, !.done = 0, !.bad = {}]]
                /\ job' = [job EXCEPT !.completed = IF l.ok # {} THEN completed ELSE @,
                                      !.failed = IF l.batch # l.ok THEN failed ELSE @,
                                      !.ckpt = IF Tier(l.total) = "LARGE" THEN l.next ELSE @]
        /\ UNCHANGED <<webVars, doc, rows, indexVars, queueVars>>

\* The job row with what run r holds unsaved, which only a SMALL job does.
Flushed(r) ==
    IF Tier(loc[r].total) = "SMALL"
    THEN [job EXCEPT !.completed = IF loc[r].done > 0 THEN loc[r].done ELSE @,
                     !.failed = IF loc[r].bad # {} THEN loc[r].bad ELSE @]
    ELSE job

\* Nothing embedded of a nonempty job is a failure; some chunks left out is not.
FinalStatus(completed, total, failed) ==
    IF completed = 0 /\ total > 0 THEN "failed"
    ELSE IF failed # {} THEN "completed_with_failures" ELSE "completed"

Finalize(r) ==
    LET result == FinalStatus(Counters(r).completed, loc[r].total, Counters(r).failed)
    IN  /\ pc[r] = "batch" /\ loc[r].rest = {}
        /\ IF job.status = "none"
           THEN Return(r) /\ UNCHANGED job
           ELSE /\ job' = [Flushed(r) EXCEPT !.status = result]
                /\ pc' = [pc EXCEPT ![r] = IF result = "failed" THEN "failed" ELSE "ready"]
                /\ loc' = [loc EXCEPT ![r] = [NoLoc EXCEPT !.mode = loc[r].mode]]
        /\ UNCHANGED <<webVars, doc, rows, indexVars, queueVars>>

\* Fault: the last commit writes the document anew when its row is gone.
SettleAnyway(r) ==
    /\ pc[r] \in {"ready", "failed"}
    /\ doc' = pc[r]
    /\ Return(r)
    /\ UNCHANGED <<webVars, rows, job, indexVars, queueVars>>

\* The last commit: failed when nothing could be embedded, ready otherwise.
Settle(r) ==
    /\ pc[r] \in {"ready", "failed"}
    /\ \/ RowGone(r)
       \/ /\ HasRow
          /\ doc' = pc[r]
          /\ Return(r)
          /\ UNCHANGED <<webVars, rows, job, indexVars, queueVars>>

\* An exception no stage catches (cleaning, analysing, an unavailable backend, the
\* vector store): the handler marks the document failed, and its commit saves
\* whatever the session held.  An upsert that raises may have stored a part.
Raise(r) ==
    /\ pc[r] \in {"parse", "status", "embed", "batch"}
    /\ ~(pc[r] = "embed" /\ loc[r].mode = "inline")
    /\ IF pc[r] = "batch"
       THEN \E b \in SUBSET loc[r].rest :
               /\ b # {} /\ IsBatch(b, loc[r].rest)
               /\ \E part \in SUBSET b : store' = store \cup part
       ELSE UNCHANGED store
    /\ IF HasRow THEN doc' = "failed" /\ job' = Flushed(r) ELSE UNCHANGED <<doc, job>>
    /\ Return(r)
    /\ UNCHANGED <<webVars, rows, bm25, queueVars>>

-----------------------------------------------------------------------------
Web ==
    \/ SaveFile \/ InsertDocument \/ AssignBackend \/ Enqueue \/ UploadAborts
    \/ DeleteFile \/ DeleteVectors \/ DeleteLexical \/ DeleteRow \/ DeleteCrash
    \/ \E r \in Runs : RunInline(r)

\* What a run does of its own accord, once it has been started.
Step(r) ==
    \/ Begin(r) \/ Parse(r) \/ Chunk(r) \/ SetEmbedding(r) \/ EmbedStage(r)
    \/ EmbedBatch(r) \/ CoWrite(r) \/ CommitBatch(r) \/ Finalize(r) \/ Settle(r) \/ Ack(r)

Next ==
    \/ Web
    \/ AbandonJob
    \/ \E r \in Runs :
          StartJob(r) \/ Step(r) \/ Raise(r) \/ Crash(r) \/ Shutdown(r) \/ Timeout(r)

Spec == Init /\ [][Next]_vars

\* A worker polls the queue and a thread that was started goes on; users, crashes
\* and shutdowns owe nothing.
Fairness ==
    /\ WF_vars(AbandonJob)
    /\ WF_vars(\E r \in Runs : StartJob(r))
    /\ \A r \in Runs : WF_vars(Step(r))

FairSpec == Spec /\ Fairness

-----------------------------------------------------------------------------
(* Properties.                                                             *)

Idle == \A r \in Runs : pc[r] = "idle"

\* A document that is ready, and whose delete has not begun, has every chunk in the
\* vector store or named in the job's failed_chunk_ids: no crash, retry or resume
\* makes the pipeline skip a chunk silently (orchestrator._run_embed_and_finish).
ReadyAccountsForEveryChunk ==
    doc = "ready" /\ file => rows /\ Chunks \subseteq store \cup job.failed

\* checkpoint_batch = k means that batches 0..k of the full chunk list need no more
\* work, although the batches were cut from whatever list the interrupted run
\* embedded (embedder.resume_embedding).
CheckpointSound ==
    file /\ job.ckpt >= 0 =>
        \A c \in Chunks : c <= (job.ckpt + 1) * BatchSize => c \in store \cup job.failed

\* A lexical hit always has its text in the vector store, as hybrid_search needs to
\* fetch it: the upsert comes before the co-write (vector_store.batch_upsert_sink).
LexicalWithinVector == file => bm25 \subseteq store

\* The progress a job reports never exceeds its total, however it was interrupted.
CompletedWithinTotal == job.completed <= job.total

\* The document stands at "chunking" without chunk rows, for two of its chunks would have
\* the same id.
Unchunkable == collides /\ doc = "chunking" /\ ~rows

\* A document is left in mid-pipeline only with a run at work or a job queued, unless
\* arq has used up its tries, or the chunk ids collided and the run that met this could
\* not record it (resume after crash, workers/tasks.py).
NoSilentLimbo ==
    /\ Idle
    /\ doc \in {"parsing", "chunking", "embedding"} \/ (doc = "uploaded" /\ upload = "done")
    => queue = "queued" \/ tries = MaxTries \/ Unchunkable

\* Once ready, a document stays so until it is deleted: a redelivered job is a no-op.
ReadyIsFinal == [][doc = "ready" => doc' \in {"ready", "deleted"}]_vars

\* What a document looks like from outside.  Its delete begins with the file.
Lifetime ==
    IF doc = "absent" THEN "none" ELSE IF doc = "deleted" THEN "deleted"
    ELSE IF ~file THEN "withdrawn"
    ELSE IF doc \in {"ready", "failed"} THEN doc ELSE "accepted"

Life == INSTANCE DocumentLife
            WITH life <- Lifetime,
                 kept <- IF HasRow /\ file THEN store ELSE {},
                 givenUp <- IF HasRow /\ file THEN job.failed ELSE {}

\* However runs are retried, resumed and lost, a document lives as its status says: it is
\* ready only when every chunk is stored or reported, its vectors only grow in number until
\* its owner deletes it, and nothing is stored or reported while it is ready or failed
\* (run_pipeline, delete_document).
LivesAsPromised == Life!Spec

\* An upload that was queued leaves the queue for good with its document ready, failed
\* or deleted, or with its tries used up, or stuck on chunk ids that collide.
QueuedSettles ==
    queue # "none" ~>
        /\ queue = "none"
        /\ doc \in {"ready", "failed", "deleted"} \/ tries = MaxTries \/ Unchunkable

\* Once the row is gone nothing brings it, its chunk rows or its embedding job back,
\* whatever runs were under way (delete_document against run_pipeline).
DeletedIsFinal ==
    [][doc = "deleted" =>
          doc' = "deleted" /\ rows' = rows /\ (job = NoJob => job' = NoJob)]_vars

\* Once the row is gone no vector and no lexical entry of the document is written:
\* delete_document removes them first, so nothing may follow.
NothingStoredAfterDelete ==
    [][doc = "deleted" => store' \subseteq store /\ bm25' \subseteq bm25]_vars

\* However the runs of a deleted document overlap, they all end and its job leaves the
\* queue: no run waits for, or retries, a document that is gone.
DeletedSettles == doc = "deleted" ~> Idle /\ queue = "none"

=============================================================================
