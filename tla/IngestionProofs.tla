--------------------------- MODULE IngestionProofs ---------------------------
(***************************************************************************)
(* Proofs about Ingestion, for every number of chunks, batch size, tier    *)
(* boundary, number of tries and set of runs.                              *)
(***************************************************************************)
EXTENDS Ingestion, FiniteSetTheorems, TLAPS

-----------------------------------------------------------------------------
(* Facts about the data.                                                   *)

\* A set of chunks is finite, and not larger than the document.
LEMMA ChunkSets ==
    ASSUME NEW S \in SUBSET Chunks
    PROVE  IsFiniteSet(S) /\ Cardinality(S) \in Nat /\ Cardinality(S) <= N
<1>1. 1 \in Int /\ N \in Int /\ N >= 1
  BY SizesAssumption
<1>2. IsFiniteSet(Chunks) /\ Cardinality(Chunks) = N
  <2>1. IsFiniteSet(1 .. N) /\ Cardinality(1 .. N) = IF 1 > N THEN 0 ELSE N - 1 + 1
    BY <1>1, FS_Interval
  <2> QED
    BY <2>1, <1>1 DEF Chunks
<1>3. IsFiniteSet(S) /\ Cardinality(S) <= Cardinality(Chunks)
  BY <1>2, FS_Subset
<1>4. Cardinality(S) \in Nat
  BY <1>3, FS_CardinalityType
<1> QED
  BY <1>2, <1>3, <1>4

LEMMA ReturnType ==
    ASSUME TypeOK, NEW r \in Runs, Return(r)
    PROVE  pc' \in [Runs -> Labels] /\ loc' \in [Runs -> Locs]
<1>1. loc[r].mode \in {"none", "arq", "inline", "zombie"}
  BY DEF TypeOK, Locs
<1>2. NoLoc \in Locs /\ [NoLoc EXCEPT !.mode = "arq"] \in Locs
  BY DEF NoLoc, Locs
<1> QED
  BY <1>2 DEF Return, TypeOK, Labels

LEMMA FlushedType ==
    ASSUME TypeOK, NEW r \in Runs
    PROVE  Flushed(r) \in Jobs
BY DEF TypeOK, Flushed, Jobs, Locs

LEMMA CountersType ==
    ASSUME TypeOK, NEW r \in Runs
    PROVE  Counters(r).completed \in Nat /\ Counters(r).failed \in SUBSET Chunks
BY DEF TypeOK, Counters, Jobs, Locs

\* The memory of a run that begins a job, and of one that ends a batch.
LEMMA BeginJobLoc ==
    ASSUME NEW l \in Locs, NEW todo \in SUBSET Chunks, NEW first \in Nat, NEW total \in Nat,
           NEW d \in Nat, NEW f \in SUBSET Chunks
    PROVE  [l EXCEPT !.rest = todo, !.next = first, !.total = total, !.held = TRUE,
                     !.done = d, !.bad = f] \in Locs
BY DEF Locs

LEMMA EndBatchLoc ==
    ASSUME NEW l \in Locs
    PROVE  [l EXCEPT !.next = @ + 1, !.batch = {}, !.ok = {}] \in Locs
<1> DEFINE n == l.next + 1
           e == {}
<1>1. n \in Nat /\ e \in SUBSET Chunks
  BY DEF Locs
<1> HIDE DEF n, e
<1>2. [l EXCEPT !.next = n, !.batch = e, !.ok = e] \in Locs
  BY <1>1 DEF Locs
<1> QED
  BY <1>2 DEF n, e

\* What the start of a job leaves in the row and in the run's memory, field by field.
LEMMA ResumeFields ==
    ASSUME TypeOK, NEW r \in Runs, ResumeEmbedding(r)
    PROVE  /\ job'.status = "in_progress" /\ job'.failed = job.failed /\ job'.ckpt = job.ckpt
           /\ pc' = [pc EXCEPT ![r] = "batch"]
           /\ loc'[r].mode = loc[r].mode /\ loc'[r].batch = loc[r].batch /\ loc'[r].ok = loc[r].ok
           /\ loc'[r].rest = {c \in Chunks : c > (job.ckpt + 1) * BatchSize}
           /\ loc'[r].next = job.ckpt + 1 /\ loc'[r].total = N
           /\ loc'[r].held = TRUE /\ loc'[r].bad = job.failed
           /\ job'.completed = job.completed /\ job'.total = N /\ loc'[r].done = job.completed
           /\ \A q \in Runs : q # r => loc'[q] = loc[q]
<1> DEFINE todo  == {c \in Chunks : c > (job.ckpt + 1) * BatchSize}
           first == job.ckpt + 1
           total == N
           d     == job.completed
           f     == job.failed
<1>1. /\ loc'[r] = [loc[r] EXCEPT !.rest = todo, !.next = first, !.total = total,
                                  !.held = TRUE, !.done = d, !.bad = f]
      /\ \A q \in Runs : q # r => loc'[q] = loc[q]
      /\ loc[r] \in Locs
      /\ pc' = [pc EXCEPT ![r] = "batch"]
  BY DEF ResumeEmbedding, InitJob, TypeOK
<1>2. /\ job'.status = "in_progress" /\ job'.failed = job.failed /\ job'.ckpt = job.ckpt
      /\ job'.completed = job.completed /\ job'.total = N /\ d = job.completed /\ f = job.failed
  BY DEF ResumeEmbedding, InitJob, TypeOK, Jobs
<1> HIDE DEF todo, first, total, d, f
<1>3. \A l \in Locs : LET m == [l EXCEPT !.rest = todo, !.next = first, !.total = total,
                                         !.held = TRUE, !.done = d, !.bad = f]
                      IN  /\ m.mode = l.mode /\ m.batch = l.batch /\ m.ok = l.ok
                          /\ m.rest = todo /\ m.next = first /\ m.total = total
                          /\ m.held = TRUE /\ m.done = d /\ m.bad = f
  BY DEF Locs
<1>4. /\ loc'[r].mode = loc[r].mode /\ loc'[r].batch = loc[r].batch /\ loc'[r].ok = loc[r].ok
      /\ loc'[r].rest = todo /\ loc'[r].next = first /\ loc'[r].total = total
      /\ loc'[r].held = TRUE /\ loc'[r].done = d /\ loc'[r].bad = f
  BY <1>1, <1>3
<1> QED
  BY <1>1, <1>2, <1>4 DEF todo, first, total

LEMMA FreshFields ==
    ASSUME TypeOK, NEW r \in Runs, EmbedDocument(r)
    PROVE  /\ job'.status = "in_progress" /\ job'.failed = {} /\ job'.ckpt = -1
           /\ pc' = [pc EXCEPT ![r] = "batch"]
           /\ loc'[r].mode = loc[r].mode /\ loc'[r].batch = loc[r].batch /\ loc'[r].ok = loc[r].ok
           /\ loc'[r].rest = Chunks \ store
           /\ loc'[r].next = 0 /\ loc'[r].total = Cardinality(Chunks \ store)
           /\ loc'[r].held = TRUE /\ loc'[r].bad = {}
           /\ job'.completed = 0 /\ job'.total = Cardinality(Chunks \ store)
           /\ loc'[r].done = 0
           /\ \A q \in Runs : q # r => loc'[q] = loc[q]
<1> DEFINE todo  == Chunks \ store
           first == 0
           total == Cardinality(Chunks \ store)
           d     == NoJob.completed
           f     == NoJob.failed
<1>1. /\ loc'[r] = [loc[r] EXCEPT !.rest = todo, !.next = first, !.total = total,
                                  !.held = TRUE, !.done = d, !.bad = f]
      /\ \A q \in Runs : q # r => loc'[q] = loc[q]
      /\ loc[r] \in Locs
      /\ pc' = [pc EXCEPT ![r] = "batch"]
  BY DEF EmbedDocument, InitJob, TypeOK
<1>2. /\ job'.status = "in_progress" /\ job'.failed = {} /\ job'.ckpt = -1
      /\ job'.completed = 0 /\ job'.total = total /\ d = 0 /\ f = {}
  BY DEF EmbedDocument, InitJob, TypeOK, NoJob
<1> HIDE DEF todo, first, total, d, f
<1>3. \A l \in Locs : LET m == [l EXCEPT !.rest = todo, !.next = first, !.total = total,
                                         !.held = TRUE, !.done = d, !.bad = f]
                      IN  /\ m.mode = l.mode /\ m.batch = l.batch /\ m.ok = l.ok
                          /\ m.rest = todo /\ m.next = first /\ m.total = total
                          /\ m.held = TRUE /\ m.done = d /\ m.bad = f
  BY DEF Locs
<1>4. /\ loc'[r].mode = loc[r].mode /\ loc'[r].batch = loc[r].batch /\ loc'[r].ok = loc[r].ok
      /\ loc'[r].rest = todo /\ loc'[r].next = first /\ loc'[r].total = total
      /\ loc'[r].held = TRUE /\ loc'[r].done = d /\ loc'[r].bad = f
  BY <1>1, <1>3
<1> QED
  BY <1>1, <1>2, <1>4 DEF todo, first, total

\* What a batch that does not end the run leaves in the row and in memory.
LEMMA CommitFields ==
    ASSUME TypeOK, NEW r \in Runs, CommitBatch(r), ~(Return(r) /\ UNCHANGED job)
    PROVE  /\ pc' = [pc EXCEPT ![r] = "batch"]
           /\ loc'[r].mode = loc[r].mode /\ loc'[r].batch = {} /\ loc'[r].ok = {}
           /\ loc'[r].rest = loc[r].rest /\ loc'[r].next = loc[r].next + 1
           /\ loc'[r].total = loc[r].total
           /\ \A q \in Runs : q # r => loc'[q] = loc[q]
           /\ job'.status = job.status
           /\ Tier(loc[r].total) = "SMALL" =>
                 /\ loc'[r].held = loc[r].held
                 /\ loc'[r].done = Counters(r).completed + Cardinality(loc[r].ok)
                 /\ loc'[r].bad = Counters(r).failed \cup (loc[r].batch \ loc[r].ok)
                 /\ job' = job
           /\ Tier(loc[r].total) # "SMALL" =>
                 /\ loc'[r].held = FALSE /\ loc'[r].bad = {}
                 /\ job'.total = job.total
                 /\ job'.completed = IF loc[r].ok # {}
                                     THEN Counters(r).completed + Cardinality(loc[r].ok)
                                     ELSE job.completed
                 /\ job'.failed = IF loc[r].batch # loc[r].ok
                                  THEN Counters(r).failed \cup (loc[r].batch \ loc[r].ok)
                                  ELSE job.failed
                 /\ job'.ckpt = IF Tier(loc[r].total) = "LARGE" THEN loc[r].next ELSE job.ckpt
<1> DEFINE l         == loc[r]
           completed == Counters(r).completed + Cardinality(l.ok)
           failed    == Counters(r).failed \cup (l.batch \ l.ok)
           next      == [l EXCEPT !.next = @ + 1, !.batch = {}, !.ok = {}]
           saved     == [job EXCEPT !.completed = IF l.ok # {} THEN completed ELSE @,
                                    !.failed = IF l.batch # l.ok THEN failed ELSE @,
                                    !.ckpt = IF Tier(l.total) = "LARGE" THEN l.next ELSE @]
<1>1. l \in Locs /\ job \in Jobs
  BY DEF TypeOK
<1>2. /\ next \in Locs /\ next.mode = l.mode /\ next.batch = {} /\ next.ok = {}
      /\ next.rest = l.rest /\ next.next = l.next + 1 /\ next.total = l.total
      /\ next.held = l.held
  <2>1. next \in Locs
    BY <1>1, EndBatchLoc
  <2> QED
    BY <1>1, <2>1 DEF Locs
<1>3. /\ saved.status = job.status /\ saved.total = job.total
      /\ saved.completed = IF l.ok # {} THEN completed ELSE job.completed
      /\ saved.failed = IF l.batch # l.ok THEN failed ELSE job.failed
      /\ saved.ckpt = IF Tier(l.total) = "LARGE" THEN l.next ELSE job.ckpt
  <2> HIDE DEF completed, failed, l
  <2> QED
    BY <1>1 DEF Jobs
<1>4. /\ pc' = [pc EXCEPT ![r] = "batch"]
      /\ Tier(l.total) = "SMALL" =>
            loc' = [loc EXCEPT ![r] = [next EXCEPT !.done = completed, !.bad = failed]] /\ job' = job
      /\ Tier(l.total) # "SMALL" =>
            loc' = [loc EXCEPT ![r] = [next EXCEPT !.held = FALSE, !.done = 0, !.bad = {}]] /\ job' = saved
  BY DEF CommitBatch
<1> HIDE DEF next, saved, completed, failed
<1>5. CASE Tier(l.total) = "SMALL"
  <2>1. loc'[r] = [next EXCEPT !.done = completed, !.bad = failed]
        /\ \A q \in Runs : q # r => loc'[q] = loc[q]
    BY <1>4, <1>5 DEF TypeOK
  <2>2. /\ loc'[r].done = completed
        /\ loc'[r].bad = failed /\ loc'[r].mode = next.mode /\ loc'[r].batch = next.batch
        /\ loc'[r].ok = next.ok /\ loc'[r].rest = next.rest /\ loc'[r].next = next.next
        /\ loc'[r].total = next.total /\ loc'[r].held = next.held
    BY <2>1, <1>2 DEF Locs
  <2> QED
    BY <1>2, <1>4, <1>5, <2>1, <2>2 DEF completed, failed
<1>6. CASE Tier(l.total) # "SMALL"
  <2>1. loc'[r] = [next EXCEPT !.held = FALSE, !.done = 0, !.bad = {}]
        /\ \A q \in Runs : q # r => loc'[q] = loc[q]
    BY <1>4, <1>6 DEF TypeOK
  <2>2. /\ loc'[r].bad = {} /\ loc'[r].mode = next.mode /\ loc'[r].batch = next.batch
        /\ loc'[r].ok = next.ok /\ loc'[r].rest = next.rest /\ loc'[r].next = next.next
        /\ loc'[r].total = next.total /\ loc'[r].held = FALSE
    BY <2>1, <1>2 DEF Locs
  <2> QED
    BY <1>2, <1>3, <1>4, <1>6, <2>1, <2>2 DEF completed, failed
<1> QED
  BY <1>5, <1>6

LEMMA InitJobType ==
    ASSUME TypeOK, NEW r \in Runs, NEW j \in Jobs, NEW todo \in SUBSET Chunks,
           NEW first \in Nat, NEW total \in Nat, InitJob(r, j, todo, first, total)
    PROVE  job' \in Jobs /\ pc' \in [Runs -> Labels] /\ loc' \in [Runs -> Locs]
<1>1. job' \in Jobs
  BY DEF InitJob, Jobs
<1>2. pc' \in [Runs -> Labels]
  BY DEF InitJob, TypeOK, Labels
<1>3. [loc[r] EXCEPT !.rest = todo, !.next = first, !.total = total, !.held = TRUE,
                     !.done = j.completed, !.bad = j.failed] \in Locs
  <2>1. loc[r] \in Locs /\ j.completed \in Nat /\ j.failed \in SUBSET Chunks
    BY DEF TypeOK, Jobs
  <2> QED
    BY <2>1, BeginJobLoc
<1>4. loc' \in [Runs -> Locs]
  BY <1>3 DEF InitJob, TypeOK
<1> QED
  BY <1>1, <1>2, <1>4

LEMMA NoJobType == NoJob \in Jobs
BY DEF NoJob, Jobs

LEMMA NoLocType == NoLoc \in Locs
BY DEF NoLoc, Locs

-----------------------------------------------------------------------------
(* Type correctness.                                                       *)

LEMMA TypeInit == Init => TypeOK
<1> SUFFICES ASSUME Init PROVE TypeOK
  OBVIOUS
<1>1. NoJob \in Jobs /\ NoLoc \in Locs
  BY NoJobType, NoLocType
<1>2. 0 \in 0 .. MaxTries
  BY ModeAssumption
<1> QED
  BY <1>1, <1>2 DEF Init, TypeOK, Labels

\* The requests of the web process keep the types.
LEMMA TypeWeb == TypeOK /\ Web => TypeOK'
<1> SUFFICES ASSUME TypeOK, Web PROVE TypeOK'
  OBVIOUS
<1> USE DEF TypeOK
<1>1. CASE SaveFile \/ InsertDocument \/ AssignBackend \/ Enqueue \/ UploadAborts
  BY <1>1 DEF SaveFile, InsertDocument, AssignBackend, Enqueue, UploadAborts,
              indexVars, queueVars, runVars
<1>2. CASE DeleteFile \/ DeleteVectors \/ DeleteLexical \/ DeleteCrash
  BY <1>2 DEF DeleteFile, DeleteVectors, DeleteLexical, DeleteCrash,
              indexVars, queueVars, runVars
<1>3. CASE DeleteRow
  BY <1>3, NoJobType DEF DeleteRow, indexVars, queueVars, runVars
<1>4. ASSUME NEW r \in Runs, RunInline(r) PROVE TypeOK'
  <2>1. [NoLoc EXCEPT !.mode = "inline"] \in Locs
    BY DEF NoLoc, Locs
  <2> QED
    BY <1>4, <2>1 DEF RunInline, Labels, indexVars, queueVars
<1> QED
  BY <1>1, <1>2, <1>3, <1>4 DEF Web

\* Starting, losing and ending a run keep the types.
LEMMA TypeQueue ==
    ASSUME TypeOK, NEW r \in Runs,
           AbandonJob \/ StartJob(r) \/ Crash(r) \/ Shutdown(r) \/ Timeout(r) \/ Ack(r)
    PROVE  TypeOK'
<1> USE DEF TypeOK
<1>1. CASE AbandonJob
  BY <1>1 DEF AbandonJob, webVars, indexVars, runVars
<1>2. CASE StartJob(r)
  <2>1. [NoLoc EXCEPT !.mode = "arq"] \in Locs
    BY DEF NoLoc, Locs
  <2>2. tries' \in 0 .. MaxTries
    BY <1>2, ModeAssumption DEF StartJob
  <2> QED
    BY <1>2, <2>1, <2>2 DEF StartJob, webVars, indexVars, Labels
<1>3. CASE Crash(r) \/ Ack(r)
  BY <1>3, NoLocType DEF Crash, Ack, webVars, indexVars, Labels
<1>4. CASE Shutdown(r) \/ Timeout(r)
  <2>1. [loc[r] EXCEPT !.mode = "zombie"] \in Locs
    BY DEF Locs
  <2> QED
    BY <1>4, <2>1 DEF Shutdown, Timeout, webVars, indexVars
<1> QED
  BY <1>1, <1>2, <1>3, <1>4

\* The stages before the first batch keep the types.
LEMMA TypeStages ==
    ASSUME TypeOK, NEW r \in Runs,
           Begin(r) \/ Parse(r) \/ Chunk(r) \/ SetEmbedding(r) \/ EmbedStage(r)
    PROVE  TypeOK'
<1>1. ASSUME RowGone(r) \/ FailDoc(r) PROVE TypeOK'
  BY <1>1, ReturnType DEF RowGone, FailDoc, TypeOK, webVars, indexVars, queueVars
<1>2. ASSUME NEW label \in Labels, Goto(r, label)
      PROVE  pc' \in [Runs -> Labels] /\ loc' = loc
  BY <1>2 DEF Goto, TypeOK
<1>3. {"status", "parse", "chunk", "rechunk", "embed", "ready"} \subseteq Labels
  BY DEF Labels
<1>4. CASE Begin(r)
  BY <1>4, <1>2, <1>3, ReturnType DEF Begin, TypeOK, webVars, indexVars, queueVars
<1>5. CASE Parse(r)
  BY <1>5, <1>1, <1>2, <1>3 DEF Parse, TypeOK, webVars, indexVars, queueVars
<1>6. CASE Chunk(r)
  BY <1>6, <1>1, <1>2, <1>3, ReturnType DEF Chunk, TypeOK, webVars, indexVars, queueVars
<1>7. CASE SetEmbedding(r)
  BY <1>7, <1>1, <1>2, <1>3 DEF SetEmbedding, TypeOK, webVars, indexVars, queueVars
<1>8. CASE EmbedStage(r)
  <2>1. CASE RowGone(r)
    BY <2>1, <1>1
  <2>2. ASSUME ~RowGone(r) PROVE job' \in Jobs /\ pc' \in [Runs -> Labels] /\ loc' \in [Runs -> Locs]
    <3>1. CASE Goto(r, "ready") /\ UNCHANGED job
      BY <3>1, <1>2, <1>3 DEF TypeOK
    <3>2. CASE job.ckpt >= 0 /\ ResumeEmbedding(r)
      <4>1. job \in Jobs /\ job.ckpt + 1 \in Nat /\ N \in Nat
        BY <3>2, SizesAssumption DEF TypeOK, Jobs
      <4> QED
        BY <3>2, <4>1, InitJobType DEF ResumeEmbedding
    <3>3. CASE EmbedDocument(r)
      BY <3>3, InitJobType, NoJobType, ChunkSets DEF EmbedDocument
    <3> QED
      BY <1>8, <2>2, <3>1, <3>2, <3>3 DEF EmbedStage
  <2> QED
    BY <1>8, <2>1, <2>2 DEF EmbedStage, TypeOK, webVars, indexVars, queueVars
<1> QED
  BY <1>4, <1>5, <1>6, <1>7, <1>8

\* The embedding loop and the end of a run keep the types.
LEMMA TypeBatches ==
    ASSUME TypeOK, NEW r \in Runs,
           EmbedBatch(r) \/ CoWrite(r) \/ CommitBatch(r) \/ Finalize(r) \/ Settle(r) \/ Raise(r)
    PROVE  TypeOK'
<1> DEFINE l == loc[r]
<1>0. l \in Locs /\ job \in Jobs
  BY DEF TypeOK
<1>1. CASE EmbedBatch(r)
  <2>0. PICK b \in SUBSET loc[r].rest : \E ok \in SUBSET b :
            /\ store' = store \cup ok
            /\ pc' = [pc EXCEPT ![r] = IF ok = {} THEN "commit" ELSE "bm25"]
            /\ loc' = [loc EXCEPT ![r] = [@ EXCEPT !.rest = loc[r].rest \ b, !.batch = b,
                                                !.ok = ok]]
    BY <1>1 DEF EmbedBatch
  <2>1. PICK ok \in SUBSET b :
            /\ store' = store \cup ok
            /\ pc' = [pc EXCEPT ![r] = IF ok = {} THEN "commit" ELSE "bm25"]
            /\ loc' = [loc EXCEPT ![r] = [@ EXCEPT !.rest = loc[r].rest \ b, !.batch = b,
                                                !.ok = ok]]
    BY <2>0
  <2>2. b \in SUBSET Chunks /\ ok \in SUBSET Chunks
    BY <1>0 DEF Locs
  <2>3. [loc[r] EXCEPT !.rest = loc[r].rest \ b, !.batch = b, !.ok = ok] \in Locs
    BY <2>2, <1>0 DEF Locs
  <2>4. loc' \in [Runs -> Locs]
    BY <2>1, <2>3 DEF TypeOK
  <2>5. pc' \in [Runs -> Labels] /\ store' \in SUBSET Chunks
    BY <2>1, <2>2 DEF TypeOK, Labels
  <2> QED
    BY <1>1, <2>4, <2>5 DEF EmbedBatch, TypeOK, webVars, queueVars
<1>2. CASE CoWrite(r)
  <2>1. l.ok \in SUBSET Chunks
    BY <1>0 DEF Locs
  <2> QED
    BY <1>2, <2>1 DEF CoWrite, Goto, TypeOK, Labels, webVars, queueVars
<1>3. CASE CommitBatch(r)
  <2> DEFINE completed == Counters(r).completed + Cardinality(l.ok)
             failed    == Counters(r).failed \cup (l.batch \ l.ok)
             next      == [l EXCEPT !.next = @ + 1, !.batch = {}, !.ok = {}]
  <2>1. completed \in Nat /\ failed \in SUBSET Chunks
    <3>1. l.ok \in SUBSET Chunks /\ l.batch \in SUBSET Chunks
      BY <1>0 DEF Locs
    <3>2. Cardinality(l.ok) \in Nat
      BY <3>1, ChunkSets
    <3> QED
      BY <3>1, <3>2, CountersType
  <2>2. next \in Locs
    BY <1>0, EndBatchLoc
  <2> HIDE DEF completed, failed, next
  <2>3. [next EXCEPT !.done = completed, !.bad = failed] \in Locs
    BY <2>1, <2>2 DEF Locs
  <2>4. [next EXCEPT !.held = FALSE, !.done = 0, !.bad = {}] \in Locs
    BY <2>2 DEF Locs
  <2>5. [job EXCEPT !.completed = IF l.ok # {} THEN completed ELSE @,
                    !.failed = IF l.batch # l.ok THEN failed ELSE @,
                    !.ckpt = IF Tier(l.total) = "LARGE" THEN l.next ELSE @] \in Jobs
    BY <2>1, <1>0 DEF Jobs, Locs
  <2>6. job' \in Jobs /\ pc' \in [Runs -> Labels] /\ loc' \in [Runs -> Locs]
    <3>1. CASE Return(r) /\ UNCHANGED job
      BY <3>1, ReturnType, <1>0
    <3>2. CASE /\ pc' = [pc EXCEPT ![r] = "batch"]
               /\ loc' = [loc EXCEPT ![r] = [next EXCEPT !.done = completed, !.bad = failed]]
               /\ UNCHANGED job
      BY <3>2, <2>3 DEF TypeOK, Labels
    <3>3. CASE /\ pc' = [pc EXCEPT ![r] = "batch"]
               /\ loc' = [loc EXCEPT ![r] = [next EXCEPT !.held = FALSE, !.done = 0, !.bad = {}]]
               /\ job' = [job EXCEPT !.completed = IF l.ok # {} THEN completed ELSE @,
                                     !.failed = IF l.batch # l.ok THEN failed ELSE @,
                                     !.ckpt = IF Tier(l.total) = "LARGE" THEN l.next ELSE @]
      BY <3>3, <2>4, <2>5 DEF TypeOK, Labels
    <3> QED
      BY <1>3, <3>1, <3>2, <3>3 DEF CommitBatch, completed, failed, next
  <2> QED
    BY <1>3, <2>6 DEF CommitBatch, TypeOK, webVars, indexVars, queueVars
<1>4. CASE Finalize(r)
  <2>1. ASSUME NEW result \in {"failed", "completed", "completed_with_failures"}
        PROVE  [Flushed(r) EXCEPT !.status = result] \in Jobs
    BY FlushedType DEF Jobs
  <2>2. \A c, t, f : FinalStatus(c, t, f) \in {"failed", "completed", "completed_with_failures"}
    BY DEF FinalStatus
  <2>3. [NoLoc EXCEPT !.mode = loc[r].mode] \in Locs
    BY <1>0 DEF NoLoc, Locs
  <2>4. job' \in Jobs /\ pc' \in [Runs -> Labels] /\ loc' \in [Runs -> Locs]
    <3>1. CASE job.status = "none"
      BY <1>4, <3>1, ReturnType, <1>0 DEF Finalize
    <3>2. CASE job.status # "none"
      BY <1>4, <3>2, <2>1, <2>2, <2>3 DEF Finalize, TypeOK, Labels
    <3> QED
      BY <3>1, <3>2
  <2> QED
    BY <1>4, <2>4 DEF Finalize, TypeOK, webVars, indexVars, queueVars
<1>5. CASE Settle(r)
  BY <1>5, ReturnType DEF Settle, RowGone, TypeOK, webVars, indexVars, queueVars
<1>6. CASE Raise(r)
  <2>1. store' \in SUBSET Chunks
    BY <1>6, <1>0 DEF Raise, TypeOK, Locs
  <2> QED
    BY <1>6, <2>1, ReturnType, FlushedType DEF Raise, TypeOK, webVars, queueVars
<1> QED
  BY <1>1, <1>2, <1>3, <1>4, <1>5, <1>6

LEMMA TypeNext == TypeOK /\ [Next]_vars => TypeOK'
<1> SUFFICES ASSUME TypeOK, [Next]_vars PROVE TypeOK'
  OBVIOUS
<1>1. CASE UNCHANGED vars
  BY <1>1 DEF vars, webVars, indexVars, queueVars, runVars, TypeOK
<1>2. CASE Web
  BY <1>2, TypeWeb
<1>3. CASE AbandonJob
  BY <1>3 DEF AbandonJob, TypeOK, webVars, indexVars, runVars
<1>4. ASSUME NEW r \in Runs,
             StartJob(r) \/ Step(r) \/ Raise(r) \/ Crash(r) \/ Shutdown(r) \/ Timeout(r)
      PROVE  TypeOK'
  BY <1>4, TypeQueue, TypeStages, TypeBatches DEF Step
<1> QED
  BY <1>1, <1>2, <1>3, <1>4 DEF Next

\* Every variable keeps its type, for any number of runs, tries and chunks.
THEOREM TypeCorrect == Spec => []TypeOK
<1>1. Init => TypeOK
  BY TypeInit
<1>2. TypeOK /\ [Next]_vars => TypeOK'
  BY TypeNext
<1> QED
  BY <1>1, <1>2, PTL DEF Spec

-----------------------------------------------------------------------------
(* The lexical index never runs ahead of the vector store, however runs    *)
(* overlap.                                                                *)

\* Nothing has happened to a document whose upload has not begun.
Untouched ==
    upload = "idle" => /\ doc = "absent" /\ deletion = "idle" /\ queue = "none"
                       /\ Idle /\ bm25 = {} /\ job = NoJob

\* A delete removes the file before anything else.
FileGoesFirst == deletion # "idle" => ~file

\* What a run is about to write to the lexical index, it has upserted.
UpsertComesFirst == file => \A r \in Runs : pc[r] = "bm25" => loc[r].ok \subseteq store

LexicalInv == TypeOK /\ Untouched /\ FileGoesFirst /\ UpsertComesFirst /\ LexicalWithinVector

LEMMA LexicalInit == Init => LexicalInv
<1> SUFFICES ASSUME Init PROVE LexicalInv
  OBVIOUS
<1>1. TypeOK
  BY TypeInit
<1>2. Untouched /\ FileGoesFirst /\ UpsertComesFirst /\ LexicalWithinVector
  BY DEF Init, Untouched, Idle, FileGoesFirst, UpsertComesFirst, LexicalWithinVector
<1> QED
  BY <1>1, <1>2 DEF LexicalInv

\* The first two parts of the invariant, which every proof below uses.
LEMMA UntouchedNext ==
    TypeOK /\ Untouched /\ FileGoesFirst /\ [Next]_vars => Untouched' /\ FileGoesFirst'
<1> SUFFICES ASSUME TypeOK, Untouched, FileGoesFirst, [Next]_vars
             PROVE  Untouched' /\ FileGoesFirst'
  OBVIOUS
<1> USE DEF Untouched, FileGoesFirst
<1>1. CASE UNCHANGED vars
  BY <1>1 DEF vars, webVars, indexVars, queueVars, runVars, Idle
<1>2. CASE Web
  <2>1. CASE SaveFile \/ InsertDocument \/ AssignBackend \/ Enqueue \/ UploadAborts
    BY <1>2, <2>1 DEF SaveFile, InsertDocument, AssignBackend, Enqueue, UploadAborts,
                      indexVars, queueVars, runVars, Idle
  <2>2. CASE DeleteFile \/ DeleteVectors \/ DeleteLexical \/ DeleteRow \/ DeleteCrash
    BY <1>2, <2>2 DEF DeleteFile, DeleteVectors, DeleteLexical, DeleteRow, DeleteCrash,
                      indexVars, queueVars, runVars, Idle, HasRow
  <2>3. ASSUME NEW r \in Runs, RunInline(r) PROVE Untouched' /\ FileGoesFirst'
    BY <2>3 DEF RunInline
  <2> QED
    BY <1>2, <2>1, <2>2, <2>3 DEF Web
<1>3. CASE AbandonJob
  BY <1>3 DEF AbandonJob, webVars, indexVars, runVars, Idle
<1>4. ASSUME NEW r \in Runs,
             StartJob(r) \/ Step(r) \/ Raise(r) \/ Crash(r) \/ Shutdown(r) \/ Timeout(r)
      PROVE  Untouched' /\ FileGoesFirst'
  <2>1. pc[r] # "idle" \/ queue = "queued"
    BY <1>4 DEF StartJob, Step, Raise, Crash, Shutdown, Timeout, Begin, Parse, Chunk,
                SetEmbedding, EmbedStage, EmbedBatch, CoWrite, CommitBatch, Finalize, Settle, Ack
  <2>2. upload # "idle"
    BY <2>1 DEF Idle
  <2>3. UNCHANGED webVars
    BY <1>4 DEF StartJob, Step, Raise, Crash, Shutdown, Timeout, Begin, Parse, Chunk,
                SetEmbedding, EmbedStage, EmbedBatch, CoWrite, CommitBatch, Finalize, Settle, Ack,
                RowGone, FailDoc
  <2> QED
    BY <2>2, <2>3 DEF webVars
<1> QED
  BY <1>1, <1>2, <1>3, <1>4 DEF Next

\* A step that moves run r elsewhere, and takes nothing out of the vector store,
\* leaves the other runs with what they had.
LEMMA UpsertStays ==
    ASSUME UpsertComesFirst, TypeOK, NEW r \in Runs, NEW label, label # "bm25", NEW l,
           pc' = [pc EXCEPT ![r] = label], loc' = [loc EXCEPT ![r] = l],
           store \subseteq store', file' = file
    PROVE  UpsertComesFirst'
BY DEF UpsertComesFirst, TypeOK

LEMMA LexicalNext == LexicalInv /\ [Next]_vars => LexicalInv'
<1> SUFFICES ASSUME LexicalInv, [Next]_vars PROVE LexicalInv'
  OBVIOUS
<1>0. TypeOK /\ Untouched /\ FileGoesFirst /\ UpsertComesFirst /\ LexicalWithinVector
  BY DEF LexicalInv
<1> SUFFICES UpsertComesFirst' /\ LexicalWithinVector'
  BY <1>0, TypeNext, UntouchedNext DEF LexicalInv
<1>1. CASE UNCHANGED vars
  BY <1>0, <1>1 DEF vars, webVars, indexVars, runVars, UpsertComesFirst, LexicalWithinVector
<1>2. CASE Web
  <2>1. CASE SaveFile
    BY <1>0, <2>1 DEF SaveFile, Untouched, Idle, UpsertComesFirst, LexicalWithinVector,
                      indexVars, runVars
  <2>2. CASE InsertDocument \/ AssignBackend \/ Enqueue \/ UploadAborts
    BY <1>0, <2>2 DEF InsertDocument, AssignBackend, Enqueue, UploadAborts, UpsertComesFirst,
                      LexicalWithinVector, indexVars, queueVars, runVars
  <2>3. CASE DeleteFile \/ DeleteVectors \/ DeleteLexical \/ DeleteRow
    BY <1>0, <2>3 DEF DeleteFile, DeleteVectors, DeleteLexical, DeleteRow, FileGoesFirst,
                      UpsertComesFirst, LexicalWithinVector
  <2>4. CASE DeleteCrash
    BY <1>0, <2>4 DEF DeleteCrash, UpsertComesFirst, LexicalWithinVector, indexVars, runVars
  <2>5. ASSUME NEW r \in Runs, RunInline(r) PROVE UpsertComesFirst' /\ LexicalWithinVector'
    BY <1>0, <2>5, UpsertStays DEF RunInline, LexicalWithinVector, indexVars
  <2> QED
    BY <1>2, <2>1, <2>2, <2>3, <2>4, <2>5 DEF Web
<1>3. CASE AbandonJob
  BY <1>0, <1>3 DEF AbandonJob, webVars, indexVars, runVars, UpsertComesFirst, LexicalWithinVector
<1>4. ASSUME NEW r \in Runs,
             StartJob(r) \/ Step(r) \/ Raise(r) \/ Crash(r) \/ Shutdown(r) \/ Timeout(r)
      PROVE  UpsertComesFirst' /\ LexicalWithinVector'
  <2>0. ASSUME Return(r), store \subseteq store', file' = file PROVE UpsertComesFirst'
    BY <1>0, <2>0, UpsertStays DEF Return
  <2>1. ASSUME NEW label, label # "bm25", Goto(r, label), UNCHANGED <<store, file>>
        PROVE  UpsertComesFirst'
    BY <1>0, <2>1 DEF Goto, UpsertComesFirst, TypeOK
  <2>2. CASE StartJob(r) \/ Crash(r) \/ Ack(r)
    BY <1>0, <2>2, UpsertStays DEF StartJob, Crash, Ack, LexicalWithinVector, webVars, indexVars
  <2>3. CASE Shutdown(r) \/ Timeout(r)
    BY <1>0, <2>3 DEF Shutdown, Timeout, TypeOK, Locs, UpsertComesFirst, LexicalWithinVector,
                      webVars, indexVars
  <2>4. CASE Begin(r) \/ Parse(r) \/ Chunk(r) \/ SetEmbedding(r) \/ Settle(r)
    BY <1>0, <2>0, <2>1, <2>4
    DEF Begin, Parse, Chunk, SetEmbedding, Settle, RowGone, FailDoc, LexicalWithinVector,
        webVars, indexVars
  <2>5. CASE EmbedStage(r)
    <3>1. UNCHANGED <<file, store, bm25>>
      BY <2>5 DEF EmbedStage, RowGone, webVars, indexVars
    <3>2. UpsertComesFirst'
      <4>1. CASE Return(r) \/ Goto(r, "ready")
        BY <4>1, <3>1, <2>0, <2>1
      <4>2. CASE ResumeEmbedding(r) \/ EmbedDocument(r)
        BY <4>2, <3>1, <1>0, UpsertStays DEF ResumeEmbedding, EmbedDocument, InitJob
      <4> QED
        BY <2>5, <4>1, <4>2 DEF EmbedStage, RowGone
    <3> QED
      BY <1>0, <3>1, <3>2 DEF LexicalWithinVector
  <2>6. CASE EmbedBatch(r)
    BY <1>0, <2>6 DEF EmbedBatch, TypeOK, Locs, UpsertComesFirst, LexicalWithinVector, webVars
  <2>7. CASE CoWrite(r)
    BY <1>0, <2>1, <2>7 DEF CoWrite, UpsertComesFirst, LexicalWithinVector, webVars
  <2>8. CASE CommitBatch(r)
    <3>1. UNCHANGED <<file, store, bm25>>
      BY <2>8 DEF CommitBatch, webVars, indexVars
    <3>2. UpsertComesFirst'
      <4>1. CASE Return(r)
        BY <4>1, <3>1, <2>0
      <4>2. CASE ~Return(r)
        BY <4>2, <2>8, <3>1, <1>0, UpsertStays DEF CommitBatch
      <4> QED
        BY <4>1, <4>2
    <3> QED
      BY <1>0, <3>1, <3>2 DEF LexicalWithinVector
  <2>9. CASE Finalize(r)
    <3>1. UNCHANGED <<file, store, bm25>>
      BY <2>9 DEF Finalize, webVars, indexVars
    <3>2. UpsertComesFirst'
      <4>1. CASE Return(r)
        BY <4>1, <3>1, <2>0
      <4>2. CASE ~Return(r)
        BY <4>2, <2>9, <3>1, <1>0, UpsertStays DEF Finalize
      <4> QED
        BY <4>1, <4>2
    <3> QED
      BY <1>0, <3>1, <3>2 DEF LexicalWithinVector
  <2>10. CASE Raise(r)
    <3>1. UNCHANGED <<file, bm25>> /\ store \subseteq store' /\ Return(r)
      BY <2>10 DEF Raise, webVars
    <3> QED
      BY <1>0, <3>1, <2>0 DEF LexicalWithinVector
  <2> QED
    BY <1>4, <2>2, <2>3, <2>4, <2>5, <2>6, <2>7, <2>8, <2>9, <2>10 DEF Step
<1> QED
  BY <1>1, <1>2, <1>3, <1>4 DEF Next

\* A lexical hit always resolves in the vector store, however many runs overlap, crash
\* or race with the delete, up to the moment the delete begins.
THEOREM LexicalHitsResolve == Spec => []LexicalWithinVector
<1>1. Init => LexicalInv
  BY LexicalInit
<1>2. LexicalInv /\ [Next]_vars => LexicalInv'
  BY LexicalNext
<1>3. LexicalInv => LexicalWithinVector
  BY DEF LexicalInv
<1> QED
  BY <1>1, <1>2, <1>3, PTL DEF Spec

-----------------------------------------------------------------------------
(* Resume is sound, as long as the runs of a document do not overlap.      *)

Working == {"batch", "bm25", "commit"}

\* At most one run is under way, and none while its job waits to be started.
OneRun ==
    /\ \A r, s \in Runs : pc[r] # "idle" /\ pc[s] # "idle" => r = s
    /\ queue = "queued" => Idle
    /\ upload # "done" => Idle /\ queue = "none"

\* Outside of the embedding loop a run remembers nothing of a job.
Forgotten ==
    \A r \in Runs :
       /\ loc[r].mode # "inline"
       /\ pc[r] \notin Working => loc[r].total = 0 /\ loc[r].done = 0 /\ loc[r].bad = {}
       /\ pc[r] \notin {"bm25", "commit"} => loc[r].batch = {} /\ loc[r].ok = {}

\* A run past the chunking stage has its chunk rows.
Chunked ==
    \A r \in Runs : pc[r] \notin {"idle", "begin", "parse", "chunk", "rechunk", "ack"} => rows

\* The counters a run holds agree with the row, up to what a SMALL job keeps unsaved.
HeldCounters(r) ==
    /\ ~loc[r].held => loc[r].bad = {}
    /\ Tier(loc[r].total) = "SMALL" => loc[r].held /\ job.failed = {}
    /\ Tier(loc[r].total) # "SMALL" /\ loc[r].held => loc[r].bad = job.failed
    /\ Tier(loc[r].total) # "LARGE" => job.ckpt = -1

\* Batch boundaries may shift from one attempt to the next, but what is left after
\* batch k always lies beyond the first (k + 1) * BatchSize chunks.
RestIsAhead(r) ==
    \A c \in loc[r].rest :
       c > (IF pc[r] = "batch" THEN loc[r].next ELSE loc[r].next + 1) * BatchSize

\* Each chunk is still to do, or stored, or recorded as failed.
Covered(r) ==
    Chunks \subseteq loc[r].rest \cup (loc[r].batch \ loc[r].ok) \cup store
                    \cup job.failed \cup loc[r].bad

WorkInv ==
    \A r \in Runs : pc[r] \in Working =>
       /\ loc[r].total <= N
       /\ loc[r].ok \subseteq store
       /\ HeldCounters(r) /\ RestIsAhead(r) /\ Covered(r)

Accounted == Chunks \subseteq store \cup job.failed

DoneInv ==
    /\ job.status = "completed" => Accounted
    /\ \A r \in Runs : pc[r] = "ready" => Accounted
    /\ doc = "ready" => rows /\ Accounted /\ \A r \in Runs : pc[r] \in {"idle", "begin", "ack"}

CheckpointInv == job.ckpt >= 0 => N >= LargeMin /\ CheckpointSound

ResumeInv ==
    /\ TypeOK /\ Untouched /\ FileGoesFirst /\ OneRun /\ Forgotten
    /\ file => Chunked /\ WorkInv /\ DoneInv /\ CheckpointInv

\* The first BatchSize chunks of a list that lies beyond k leave a rest that lies beyond
\* k + BatchSize: the reason why a checkpoint counts, though boundaries may shift.
LEMMA BatchAdvance ==
    ASSUME NEW rest \in SUBSET Chunks, NEW b, IsBatch(b, rest), NEW k \in Nat,
           \A c \in rest : c > k
    PROVE  \A c \in rest \ b : c > k + BatchSize
<1> SUFFICES ASSUME NEW c \in rest \ b PROVE c > k + BatchSize
  OBVIOUS
<1>1. c \in Nat /\ c > k /\ BatchSize \in Nat
  BY SizesAssumption DEF Chunks
<1>2. Cardinality(b) = BatchSize
  BY DEF IsBatch
<1>3. b \subseteq (k + 1) .. (c - 1)
  BY <1>1 DEF IsBatch, Chunks
<1>4. IsFiniteSet((k + 1) .. (c - 1)) /\ Cardinality((k + 1) .. (c - 1)) = c - 1 - k
  <2>1. k + 1 \in Int /\ c - 1 \in Int
    BY <1>1
  <2>2. /\ IsFiniteSet((k + 1) .. (c - 1))
        /\ Cardinality((k + 1) .. (c - 1)) = IF k + 1 > c - 1 THEN 0 ELSE (c - 1) - (k + 1) + 1
    BY <2>1, FS_Interval
  <2> QED
    BY <2>2, <1>1
<1>5. Cardinality(b) <= c - 1 - k
  <2> DEFINE S == (k + 1) .. (c - 1)
  <2>1. IsFiniteSet(S) /\ b \in SUBSET S /\ Cardinality(S) = c - 1 - k
    BY <1>3, <1>4
  <2> HIDE DEF S
  <2>2. Cardinality(b) <= Cardinality(S)
    BY <2>1, FS_Subset
  <2> QED
    BY <2>1, <2>2
<1> QED
  BY <1>1, <1>2, <1>5

-----------------------------------------------------------------------------
(* One run at a time.                                                      *)

LEMMA ResumeInit == Init => ResumeInv
<1> SUFFICES ASSUME Init PROVE ResumeInv
  OBVIOUS
<1>1. TypeOK /\ Untouched /\ FileGoesFirst
  BY LexicalInit DEF LexicalInv
<1>2. OneRun /\ Forgotten /\ ~file
  BY DEF Init, OneRun, Idle, Forgotten, NoLoc, Working
<1> QED
  BY <1>1, <1>2 DEF ResumeInv

\* A step of a run that has ended, or moves on, by itself.
LEMMA OneRunStep ==
    ASSUME TypeOK, OneRun, NEW r \in Runs, pc[r] # "idle", UNCHANGED <<upload, queueVars>>,
           NEW label, pc' = [pc EXCEPT ![r] = label]
    PROVE  OneRun'
BY DEF OneRun, Idle, TypeOK, queueVars

\* Every step of a run moves that run only.
LEMMA StepMoves ==
    ASSUME NEW r \in Runs, Step(r) \/ Raise(r), ~Ack(r)
    PROVE  /\ pc[r] # "idle"
           /\ UNCHANGED <<webVars, queueVars>>
           /\ \E label : pc' = [pc EXCEPT ![r] = label]
<1> USE DEF Return, Goto
<1>1. CASE Begin(r) \/ Parse(r) \/ Chunk(r) \/ SetEmbedding(r) \/ Settle(r) \/ CoWrite(r) \/ Raise(r)
  BY <1>1 DEF Begin, Parse, Chunk, SetEmbedding, Settle, CoWrite, Raise, RowGone, FailDoc
<1>2. CASE EmbedStage(r)
  BY <1>2 DEF EmbedStage, RowGone, ResumeEmbedding, EmbedDocument, InitJob
<1>3. CASE EmbedBatch(r)
  BY <1>3 DEF EmbedBatch
<1>4. CASE CommitBatch(r)
  BY <1>4 DEF CommitBatch
<1>5. CASE Finalize(r)
  BY <1>5 DEF Finalize
<1> QED
  BY <1>1, <1>2, <1>3, <1>4, <1>5 DEF Step

LEMMA OneRunNext ==
    ASSUME Overlap = FALSE
    PROVE  TypeOK /\ OneRun /\ [Next]_vars => OneRun'
<1> SUFFICES ASSUME TypeOK, OneRun, [Next]_vars PROVE OneRun'
  OBVIOUS
<1>1. CASE UNCHANGED vars
  BY <1>1 DEF vars, webVars, queueVars, runVars, OneRun, Idle
<1>2. CASE Web
  <2>1. CASE SaveFile \/ InsertDocument \/ AssignBackend \/ Enqueue \/ UploadAborts
    BY <2>1 DEF SaveFile, InsertDocument, AssignBackend, Enqueue, UploadAborts,
                queueVars, runVars, OneRun, Idle
  <2>2. CASE DeleteFile \/ DeleteVectors \/ DeleteLexical \/ DeleteRow \/ DeleteCrash
    BY <2>2 DEF DeleteFile, DeleteVectors, DeleteLexical, DeleteRow, DeleteCrash,
                queueVars, runVars, OneRun, Idle
  <2>3. ASSUME NEW r \in Runs, RunInline(r) PROVE OneRun'
    BY <2>3 DEF RunInline, queueVars, OneRun, Idle, TypeOK
  <2> QED
    BY <1>2, <2>1, <2>2, <2>3 DEF Web
<1>3. CASE AbandonJob
  BY <1>3 DEF AbandonJob, webVars, runVars, OneRun, Idle
<1>4. ASSUME NEW r \in Runs, StartJob(r) \/ Crash(r) \/ Shutdown(r) \/ Timeout(r) \/ Ack(r)
      PROVE  OneRun'
  BY <1>4 DEF StartJob, Crash, Shutdown, Timeout, Ack, webVars, OneRun, Idle, TypeOK
<1>5. ASSUME NEW r \in Runs, Step(r) \/ Raise(r), ~Ack(r)
      PROVE  OneRun'
  BY <1>5, StepMoves, OneRunStep DEF webVars
<1> QED
  BY <1>1, <1>2, <1>3, <1>4, <1>5 DEF Next, Step

LEMMA ForgottenNext ==
    ASSUME "inline" \notin Modes
    PROVE  TypeOK /\ Forgotten /\ [Next]_vars => Forgotten'
<1> SUFFICES ASSUME TypeOK, Forgotten, [Next]_vars PROVE Forgotten'
  OBVIOUS
<1> USE DEF Forgotten
<1>0. \A r \in Runs : loc[r] \in Locs
  BY DEF TypeOK
<1>1. CASE UNCHANGED vars
  BY <1>1 DEF vars, runVars
<1>2. CASE Web
  BY <1>2 DEF Web, SaveFile, InsertDocument, AssignBackend, Enqueue, UploadAborts, RunInline,
              DeleteFile, DeleteVectors, DeleteLexical, DeleteRow, DeleteCrash, runVars
<1>3. CASE AbandonJob
  BY <1>3 DEF AbandonJob, runVars
\* Most steps leave run r with a memory of this kind, outside of the loop.
<1>4. ASSUME NEW r \in Runs, NEW label, pc' = [pc EXCEPT ![r] = label],
             \/ label \notin Working /\ loc' = [loc EXCEPT ![r] = NoLoc]
             \/ label \notin Working /\ loc' = [loc EXCEPT ![r] = [NoLoc EXCEPT !.mode = "arq"]]
             \/ label \notin Working /\ loc' = [loc EXCEPT ![r] = [NoLoc EXCEPT !.mode = loc[r].mode]]
             \/ label \notin Working /\ pc[r] \notin Working /\ loc' = loc
      PROVE  Forgotten'
  BY <1>0, <1>4 DEF NoLoc, TypeOK, Working, Locs
<1>5. ASSUME NEW r \in Runs, Return(r) PROVE Forgotten'
  BY <1>4, <1>5 DEF Return, Working
<1>6. ASSUME NEW r \in Runs,
             \/ StartJob(r) \/ Crash(r) \/ Ack(r) \/ Begin(r) \/ Parse(r) \/ Chunk(r)
             \/ SetEmbedding(r) \/ Settle(r) \/ Raise(r)
      PROVE  Forgotten'
  BY <1>4, <1>5, <1>6
  DEF StartJob, Crash, Ack, Begin, Parse, Chunk, SetEmbedding, Settle, Raise, RowGone, FailDoc,
      Goto, Working
<1>7. ASSUME NEW r \in Runs, Shutdown(r) \/ Timeout(r) PROVE Forgotten'
  BY <1>0, <1>7 DEF Shutdown, Timeout, TypeOK, Locs
<1>8. ASSUME NEW r \in Runs, EmbedStage(r) PROVE Forgotten'
  <2>1. CASE Return(r) \/ Goto(r, "ready")
    BY <2>1, <1>4, <1>5, <1>8 DEF Goto, EmbedStage, Working
  <2>2. CASE ResumeEmbedding(r) \/ EmbedDocument(r)
    <3>1. pc[r] = "embed"
      BY <1>8 DEF EmbedStage
    <3>2. /\ pc' = [pc EXCEPT ![r] = "batch"]
          /\ loc'[r].mode = loc[r].mode /\ loc'[r].batch = loc[r].batch /\ loc'[r].ok = loc[r].ok
          /\ \A q \in Runs : q # r => loc'[q] = loc[q]
      BY <2>2, ResumeFields, FreshFields
    <3> QED
      BY <3>1, <3>2 DEF TypeOK, Working
  <2> QED
    BY <1>8, <2>1, <2>2 DEF EmbedStage, RowGone
<1>9. ASSUME NEW r \in Runs, EmbedBatch(r) PROVE Forgotten'
  BY <1>0, <1>9 DEF EmbedBatch, TypeOK, Locs, Working
<1>10. ASSUME NEW r \in Runs, CoWrite(r) PROVE Forgotten'
  BY <1>10 DEF CoWrite, Goto, TypeOK, Working
<1>11. ASSUME NEW r \in Runs, CommitBatch(r) PROVE Forgotten'
  <2>1. CASE Return(r)
    BY <2>1, <1>5
  <2>2. CASE ~Return(r)
    <3>1. /\ pc' = [pc EXCEPT ![r] = "batch"]
          /\ loc'[r].mode = loc[r].mode /\ loc'[r].batch = {} /\ loc'[r].ok = {}
          /\ \A q \in Runs : q # r => loc'[q] = loc[q]
      BY <2>2, <1>11, CommitFields
    <3> QED
      BY <3>1 DEF TypeOK, Working
  <2> QED
    BY <2>1, <2>2
<1>12. ASSUME NEW r \in Runs, Finalize(r) PROVE Forgotten'
  BY <1>4, <1>5, <1>12 DEF Finalize, Working
<1> QED
  BY <1>1, <1>2, <1>3, <1>6, <1>7, <1>8, <1>9, <1>10, <1>11, <1>12 DEF Next, Step

-----------------------------------------------------------------------------
(* The parts of ResumeInv that speak of a document whose file is there.    *)

PipelineInv == Chunked /\ WorkInv /\ DoneInv /\ CheckpointInv

\* When one run is under way, the others are idle.
LEMMA OthersIdle ==
    ASSUME OneRun, NEW r \in Runs, pc[r] # "idle" \/ Idle
    PROVE  \A q \in Runs : q # r => pc[q] = "idle"
BY DEF OneRun, Idle

\* A step of the only run that stays or goes outside of the embedding loop, and leaves
\* the embedding job and the vector store as they are.
LEMMA QuietStep ==
    ASSUME TypeOK, PipelineInv, file, NEW r \in Runs, \A q \in Runs : q # r => pc[q] = "idle",
           NEW label, label \notin Working, pc' = [pc EXCEPT ![r] = label],
           UNCHANGED <<file, job, store>>,
           rows => rows',
           label \notin {"idle", "begin", "parse", "chunk", "rechunk", "ack"} => rows',
           label = "ready" => Accounted,
           doc' = "ready" => rows /\ Accounted /\ label \in {"idle", "begin", "ack"}
    PROVE  PipelineInv'
<1>1. \A q \in Runs : pc'[q] = IF q = r THEN label ELSE "idle"
  BY DEF TypeOK
<1>2. Accounted' <=> Accounted
  BY DEF Accounted
<1>3. Chunked'
  BY <1>1 DEF Chunked
<1>4. WorkInv'
  BY <1>1 DEF WorkInv, Working
<1>5. DoneInv'
  BY <1>1, <1>2 DEF DoneInv, PipelineInv
<1>6. CheckpointInv'
  BY DEF CheckpointInv, CheckpointSound, PipelineInv
<1> QED
  BY <1>3, <1>4, <1>5, <1>6 DEF PipelineInv

\* Start, loss, time-out and acknowledgement of the run.
LEMMA PipelineQueue ==
    ASSUME ResumeInv, file, Overlap = FALSE, NEW r \in Runs,
           StartJob(r) \/ Crash(r) \/ Shutdown(r) \/ Timeout(r) \/ Ack(r)
    PROVE  PipelineInv'
<1>1. TypeOK /\ PipelineInv /\ OneRun
  BY DEF ResumeInv, PipelineInv
<1>2. pc[r] # "idle" \/ Idle
  BY <1>1 DEF StartJob, Crash, Shutdown, Timeout, Ack, OneRun
<1>3. \A q \in Runs : q # r => pc[q] = "idle"
  BY <1>1, <1>2, OthersIdle
<1>4. doc = "ready" => rows /\ Accounted
  BY <1>1 DEF PipelineInv, DoneInv
<1>5. CASE StartJob(r) \/ Crash(r) \/ Ack(r)
  <2>1. PICK label \in {"begin", "idle"} : pc' = [pc EXCEPT ![r] = label]
    BY <1>5 DEF StartJob, Crash, Ack
  <2>2. UNCHANGED <<file, doc, rows, job, store>>
    BY <1>5 DEF StartJob, Crash, Ack, webVars, indexVars
  <2> QED
    BY <1>1, <1>3, <1>4, <2>1, <2>2, QuietStep DEF Working
<1>6. CASE Shutdown(r) \/ Timeout(r)
  <2>1. UNCHANGED <<file, doc, rows, job, store, pc>>
    BY <1>6 DEF Shutdown, Timeout, webVars, indexVars
  <2>2. \A q \in Runs : /\ loc'[q].rest = loc[q].rest /\ loc'[q].next = loc[q].next
                       /\ loc'[q].total = loc[q].total /\ loc'[q].batch = loc[q].batch
                       /\ loc'[q].ok = loc[q].ok /\ loc'[q].held = loc[q].held
                       /\ loc'[q].bad = loc[q].bad
    <3>1. \A l \in Locs : LET m == [l EXCEPT !.mode = "zombie"]
                          IN  /\ m.rest = l.rest /\ m.next = l.next /\ m.total = l.total
                              /\ m.batch = l.batch /\ m.ok = l.ok /\ m.held = l.held
                              /\ m.bad = l.bad
      BY DEF Locs
    <3>2. \A q \in Runs : loc[q] \in Locs /\ loc'[q] \in {loc[q], [loc[q] EXCEPT !.mode = "zombie"]}
      BY <1>1, <1>6 DEF Shutdown, Timeout, TypeOK
    <3> QED
      BY <3>1, <3>2
  <2>3. Chunked' /\ DoneInv' /\ CheckpointInv'
    BY <1>1, <2>1 DEF PipelineInv, Chunked, DoneInv, CheckpointInv, CheckpointSound, Accounted
  <2>4. WorkInv'
    BY <1>1, <2>1, <2>2 DEF PipelineInv, WorkInv, HeldCounters, RestIsAhead, Covered
  <2> QED
    BY <2>3, <2>4 DEF PipelineInv
<1> QED
  BY <1>5, <1>6

\* The stages of a run before the first batch, and its end.
LEMMA PipelineStages ==
    ASSUME ResumeInv, file, file' = file, "inline" \notin Modes, NEW r \in Runs,
           Begin(r) \/ Parse(r) \/ Chunk(r) \/ SetEmbedding(r) \/ EmbedStage(r) \/ Settle(r)
    PROVE  PipelineInv'
<1>1. TypeOK /\ PipelineInv /\ OneRun /\ Forgotten
  BY DEF ResumeInv, PipelineInv
<1>2. pc[r] \in {"begin", "parse", "chunk", "rechunk", "status", "embed", "ready", "failed"}
  BY DEF Begin, Parse, Chunk, SetEmbedding, EmbedStage, Settle
<1>3. \A q \in Runs : q # r => pc[q] = "idle"
  BY <1>1, <1>2, OthersIdle
<1>4. /\ doc = "ready" => rows /\ Accounted /\ pc[r] = "begin"
      /\ pc[r] = "ready" => Accounted
      /\ pc[r] \in {"status", "embed", "ready", "failed"} => rows
  BY <1>1, <1>2 DEF PipelineInv, DoneInv, Chunked
<1>5. ASSUME NEW label, label \notin Working, pc' = [pc EXCEPT ![r] = label],
             UNCHANGED <<job, store>>, rows => rows',
             label \notin {"idle", "begin", "parse", "chunk", "rechunk", "ack"} => rows',
             label = "ready" => Accounted,
             doc' = "ready" => rows /\ Accounted /\ label \in {"idle", "begin", "ack"}
      PROVE  PipelineInv'
  BY <1>1, <1>3, <1>5, QuietStep
<1>6. ASSUME Return(r), UNCHANGED <<rows, job, store>>, doc' = "ready" => rows /\ Accounted
      PROVE  PipelineInv'
  <2>1. PICK label \in {"ack", "idle"} : pc' = [pc EXCEPT ![r] = label]
    BY <1>6 DEF Return
  <2> QED
    BY <1>5, <1>6, <2>1 DEF Working
<1>7. ASSUME RowGone(r) \/ FailDoc(r) PROVE PipelineInv'
  BY <1>4, <1>6, <1>7 DEF RowGone, FailDoc, webVars, indexVars
<1>14. ASSUME NEW label \in {"status", "parse", "chunk", "rechunk", "embed"}, Goto(r, label),
             UNCHANGED <<job, store>>, rows => rows', label \in {"status", "embed"} => rows',
             doc' # "ready"
      PROVE  PipelineInv'
  <2>1. pc' = [pc EXCEPT ![r] = label] /\ label \notin Working
    BY <1>14 DEF Goto, Working
  <2>2. label \notin {"idle", "begin", "parse", "chunk", "rechunk", "ack"} => rows'
    BY <1>14
  <2>3. label # "ready"
    BY <1>14
  <2> QED
    BY <1>5, <1>14, <2>1, <2>2, <2>3
<1>8. CASE Begin(r)
  <2>1. UNCHANGED <<rows, job, store>>
    BY <1>8 DEF Begin, indexVars
  <2>2. CASE Return(r) /\ UNCHANGED doc
    BY <2>1, <2>2, <1>4, <1>6
  <2>3. CASE doc # "ready" /\ rows /\ Goto(r, "status") /\ UNCHANGED doc
    BY <2>1, <2>3, <1>14
  <2>4. CASE Goto(r, "parse") /\ doc' = "parsing"
    BY <2>1, <2>4, <1>14
  <2> QED
    BY <1>8, <2>2, <2>3, <2>4 DEF Begin
<1>9. CASE Parse(r)
  <2>1. ASSUME doc' = "chunking", UNCHANGED <<rows, job, store>>,
               NEW label \in {"chunk", "rechunk"}, Goto(r, label)
        PROVE  PipelineInv'
    BY <2>1, <1>14
  <2> QED
    BY <1>7, <1>9, <2>1 DEF Parse, indexVars
<1>10. CASE Chunk(r)
  <2>1. CASE rows' = TRUE /\ Goto(r, "status") /\ UNCHANGED <<doc, job, store>>
    BY <2>1, <1>4, <1>10, <1>14 DEF Chunk
  <2>2. CASE Return(r) /\ UNCHANGED <<doc, rows, job, store>>
    BY <2>2, <1>4, <1>6
  <2> QED
    BY <1>7, <1>10, <2>1, <2>2 DEF Chunk, indexVars
<1>11. CASE SetEmbedding(r)
  <2>1. CASE doc' = "embedding" /\ Goto(r, "embed") /\ UNCHANGED <<rows, job, store>>
    BY <2>1, <1>4, <1>11, <1>14 DEF SetEmbedding
  <2> QED
    BY <1>7, <1>11, <2>1 DEF SetEmbedding, indexVars
<1>12. CASE Settle(r)
  <2>1. CASE doc' = pc[r] /\ Return(r) /\ UNCHANGED <<rows, job, store>>
    BY <2>1, <1>4, <1>6
  <2> QED
    BY <1>7, <1>12, <2>1 DEF Settle, indexVars
<1>13. CASE EmbedStage(r)
  <2>0. UNCHANGED <<doc, rows, store>> /\ pc[r] = "embed" /\ rows /\ doc # "ready"
    BY <1>13, <1>4 DEF EmbedStage, RowGone, indexVars
  <2>1. CASE RowGone(r)
    BY <2>1, <1>7
  <2>2. CASE job.status = "completed" /\ Goto(r, "ready") /\ UNCHANGED job
    <3>1. Accounted
      BY <1>1, <2>2 DEF PipelineInv, DoneInv
    <3> QED
      BY <2>0, <2>2, <3>1, <1>5 DEF Goto, Working
  <2>3. CASE ResumeEmbedding(r) /\ job.ckpt >= 0
    <3> DEFINE todo == {c \in Chunks : c > (job.ckpt + 1) * BatchSize}
    <3>1. N >= LargeMin /\ CheckpointSound
      BY <1>1, <2>3 DEF PipelineInv, CheckpointInv
    <3>2. job \in Jobs
      BY <1>1 DEF TypeOK
    <3>3. /\ job'.status = "in_progress" /\ job'.failed = job.failed /\ job'.ckpt = job.ckpt
          /\ pc' = [pc EXCEPT ![r] = "batch"]
          /\ loc'[r].batch = {} /\ loc'[r].ok = {}
          /\ loc'[r].rest = todo /\ loc'[r].next = job.ckpt + 1 /\ loc'[r].total = N
          /\ loc'[r].held = TRUE /\ loc'[r].bad = job.failed
      <4>1. loc[r].batch = {} /\ loc[r].ok = {}
        BY <1>1, <2>0 DEF Forgotten
      <4> QED
        BY <1>1, <2>3, <4>1, ResumeFields
    <3>4. \A q \in Runs : pc'[q] = IF q = r THEN "batch" ELSE "idle"
      BY <1>1, <1>3, <3>3 DEF TypeOK
    <3>5. Tier(N) = "LARGE"
      BY <3>1, SizesAssumption DEF Tier
    <3>6. HeldCounters(r)'
      BY <3>3, <3>5 DEF HeldCounters, Tier
    <3>7. RestIsAhead(r)'
      BY <3>3, <3>4 DEF RestIsAhead
    <3>8. Covered(r)'
      <4>1. ASSUME NEW c \in Chunks, c \notin todo PROVE c \in store \cup job.failed
        <5>1. ~(c > (job.ckpt + 1) * BatchSize)
          BY <4>1
        <5>2. c <= (job.ckpt + 1) * BatchSize
          BY <5>1, <2>3, <3>2, SizesAssumption DEF Jobs, Chunks
        <5> QED
          BY <5>2, <3>1, <2>3 DEF CheckpointSound
      <4> HIDE DEF todo
      <4> QED
        BY <4>1, <3>3, <2>0 DEF Covered
    <3>9. WorkInv'
      BY <3>3, <3>4, <3>6, <3>7, <3>8, SizesAssumption DEF WorkInv, Working
    <3>10. Chunked' /\ DoneInv' /\ CheckpointInv'
      BY <1>1, <2>0, <3>1, <3>3, <3>4 DEF PipelineInv, Chunked, DoneInv, CheckpointInv, CheckpointSound
    <3> QED
      BY <3>9, <3>10 DEF PipelineInv
  <2>4. CASE EmbedDocument(r)
    <3>1. /\ job'.status = "in_progress" /\ job'.failed = {} /\ job'.ckpt = -1
          /\ pc' = [pc EXCEPT ![r] = "batch"]
          /\ loc'[r].batch = {} /\ loc'[r].ok = {}
          /\ loc'[r].rest = Chunks \ store /\ loc'[r].next = 0
          /\ loc'[r].total = Cardinality(Chunks \ store)
          /\ loc'[r].held = TRUE /\ loc'[r].bad = {}
      <4>1. loc[r].batch = {} /\ loc[r].ok = {}
        BY <1>1, <2>0 DEF Forgotten
      <4> QED
        BY <1>1, <2>4, <4>1, FreshFields
    <3>2. \A q \in Runs : pc'[q] = IF q = r THEN "batch" ELSE "idle"
      BY <1>1, <1>3, <3>1 DEF TypeOK
    <3>3. HeldCounters(r)'
      BY <3>1 DEF HeldCounters, Tier
    <3>4. RestIsAhead(r)'
      BY <3>1, <3>2, SizesAssumption DEF RestIsAhead, Chunks
    <3>5. Covered(r)'
      BY <3>1, <2>0 DEF Covered
    <3>6. loc'[r].total <= N
      BY <3>1, ChunkSets
    <3>7. WorkInv'
      BY <3>1, <3>2, <3>3, <3>4, <3>5, <3>6 DEF WorkInv, Working
    <3>8. Chunked' /\ DoneInv' /\ CheckpointInv'
      BY <2>0, <3>1, <3>2 DEF Chunked, DoneInv, CheckpointInv
    <3> QED
      BY <3>7, <3>8 DEF PipelineInv
  <2> QED
    BY <1>1, <1>13, <2>1, <2>2, <2>3, <2>4 DEF EmbedStage, Forgotten
<1> QED
  BY <1>8, <1>9, <1>10, <1>11, <1>12, <1>13

LEMMA EmbedFields ==
    ASSUME TypeOK, NEW r \in Runs, NEW b \in SUBSET loc[r].rest, NEW ok \in SUBSET b,
           loc' = [loc EXCEPT ![r] = [@ EXCEPT !.rest = loc[r].rest \ b, !.batch = b, !.ok = ok]]
    PROVE  /\ loc'[r].rest = loc[r].rest \ b /\ loc'[r].batch = b /\ loc'[r].ok = ok
           /\ loc'[r].next = loc[r].next /\ loc'[r].total = loc[r].total
           /\ loc'[r].held = loc[r].held /\ loc'[r].bad = loc[r].bad
<1> DEFINE rest == loc[r].rest \ b
<1>1. loc[r] \in Locs /\ loc'[r] = [loc[r] EXCEPT !.rest = rest, !.batch = b, !.ok = ok]
  BY DEF TypeOK
<1> HIDE DEF rest
<1>2. \A l \in Locs : LET m == [l EXCEPT !.rest = rest, !.batch = b, !.ok = ok]
                      IN  /\ m.rest = rest /\ m.batch = b /\ m.ok = ok
                          /\ m.next = l.next /\ m.total = l.total
                          /\ m.held = l.held /\ m.bad = l.bad
  BY DEF Locs
<1> QED
  BY <1>1, <1>2 DEF rest

LEMMA FlushedFields ==
    ASSUME TypeOK, NEW r \in Runs
    PROVE  /\ Flushed(r) \in Jobs
           /\ Flushed(r).status = job.status /\ Flushed(r).ckpt = job.ckpt
           /\ Flushed(r).total = job.total
           /\ Flushed(r).completed = IF Tier(loc[r].total) = "SMALL" /\ loc[r].done > 0
                                     THEN loc[r].done ELSE job.completed
           /\ Flushed(r).failed = IF Tier(loc[r].total) = "SMALL" /\ loc[r].bad # {}
                                  THEN loc[r].bad ELSE job.failed
<1>1. Flushed(r) \in Jobs
  BY FlushedType
<1>2. job \in Jobs
  BY DEF TypeOK
<1> QED
  BY <1>1, <1>2 DEF Flushed, Jobs

\* A step by which the only run leaves the loop without losing track of a chunk.
LEMMA LeaveLoop ==
    ASSUME TypeOK, PipelineInv, file, NEW r \in Runs, \A q \in Runs : q # r => pc[q] = "idle",
           NEW label, label \notin Working, pc' = [pc EXCEPT ![r] = label],
           UNCHANGED <<file, rows>>, store \subseteq store',
           job.failed \subseteq job'.failed, job'.ckpt = job.ckpt,
           job'.status = "completed" => Accounted', label = "ready" => Accounted',
           label \notin {"idle", "ack"} => rows, doc' # "ready"
    PROVE  PipelineInv'
<1>1. \A q \in Runs : pc'[q] = IF q = r THEN label ELSE "idle"
  BY DEF TypeOK
<1>2. Chunked' /\ WorkInv' /\ DoneInv'
  BY <1>1 DEF Chunked, WorkInv, Working, DoneInv
<1>3. CheckpointInv'
  BY DEF PipelineInv, CheckpointInv, CheckpointSound
<1> QED
  BY <1>2, <1>3 DEF PipelineInv

\* The embedding loop.
LEMMA PipelineBatches ==
    ASSUME ResumeInv, file, file' = file, NEW r \in Runs,
           EmbedBatch(r) \/ CoWrite(r) \/ CommitBatch(r) \/ Finalize(r) \/ Raise(r)
    PROVE  PipelineInv'
<1>1. TypeOK /\ PipelineInv /\ OneRun /\ Forgotten
  BY DEF ResumeInv, PipelineInv
<1>2. pc[r] \in {"parse", "status", "embed", "batch", "bm25", "commit"}
  BY DEF EmbedBatch, CoWrite, CommitBatch, Finalize, Raise
<1>3. \A q \in Runs : q # r => pc[q] = "idle"
  BY <1>1, <1>2, OthersIdle
<1>4. /\ doc # "ready"
      /\ pc[r] \in Working => rows
  BY <1>1, <1>2 DEF PipelineInv, DoneInv, Chunked, Working
<1>5. pc[r] \in Working =>
         /\ loc[r].total <= N /\ loc[r].ok \subseteq store
         /\ HeldCounters(r) /\ RestIsAhead(r) /\ Covered(r)
  BY <1>1 DEF PipelineInv, WorkInv
<1>6. loc[r] \in Locs /\ job \in Jobs
  BY <1>1 DEF TypeOK
\* What is common to the steps inside of the loop.
<1>7. ASSUME NEW label \in Working, pc' = [pc EXCEPT ![r] = label], pc[r] \in Working,
             UNCHANGED <<doc, rows>>, store \subseteq store', job.failed \subseteq job'.failed,
             job'.status = job.status, CheckpointInv',
             loc'[r].total <= N, loc'[r].ok \subseteq store',
             HeldCounters(r)', RestIsAhead(r)', Covered(r)'
      PROVE  PipelineInv'
  <2>1. \A q \in Runs : pc'[q] = IF q = r THEN label ELSE "idle"
    BY <1>1, <1>3, <1>7 DEF TypeOK
  <2>2. WorkInv'
    BY <1>7, <2>1 DEF WorkInv, Working
  <2>3. Chunked'
    BY <1>4, <1>7, <2>1 DEF Chunked
  <2>4. DoneInv'
    BY <1>1, <1>4, <1>7, <2>1 DEF PipelineInv, DoneInv, Accounted, Working
  <2> QED
    BY <1>7, <2>2, <2>3, <2>4 DEF PipelineInv
<1>8. CASE EmbedBatch(r)
  <2>1. /\ pc[r] = "batch" /\ pc[r] \in Working
        /\ UNCHANGED <<doc, rows, job>>
    BY <1>8 DEF EmbedBatch, Working
  <2>2. PICK b \in SUBSET loc[r].rest :
           /\ IsBatch(b, loc[r].rest)
           /\ \E ok \in SUBSET b :
                 /\ store' = store \cup ok
                 /\ pc' = [pc EXCEPT ![r] = IF ok = {} THEN "commit" ELSE "bm25"]
                 /\ loc' = [loc EXCEPT ![r] = [@ EXCEPT !.rest = loc[r].rest \ b, !.batch = b,
                                                       !.ok = ok]]
    BY <1>8 DEF EmbedBatch
  <2>3. PICK ok \in SUBSET b :
           /\ store' = store \cup ok
           /\ pc' = [pc EXCEPT ![r] = IF ok = {} THEN "commit" ELSE "bm25"]
           /\ loc' = [loc EXCEPT ![r] = [@ EXCEPT !.rest = loc[r].rest \ b, !.batch = b, !.ok = ok]]
    BY <2>2
  <2>4. PICK label \in {"commit", "bm25"} : pc' = [pc EXCEPT ![r] = label]
    BY <2>3
  <2>5. /\ loc'[r].rest = loc[r].rest \ b /\ loc'[r].batch = b /\ loc'[r].ok = ok
        /\ loc'[r].next = loc[r].next /\ loc'[r].total = loc[r].total
        /\ loc'[r].held = loc[r].held /\ loc'[r].bad = loc[r].bad
    BY <1>1, <2>3, EmbedFields
  <2>6. RestIsAhead(r)'
    <3> DEFINE k == loc[r].next * BatchSize
    <3>1. loc[r].next \in Nat /\ BatchSize \in Nat /\ loc[r].rest \in SUBSET Chunks
      BY <1>6, SizesAssumption DEF Locs
    <3>2. k \in Nat /\ (loc[r].next + 1) * BatchSize = k + BatchSize
      BY <3>1
    <3>3. \A c \in loc[r].rest : c > k
      BY <1>5, <2>1 DEF RestIsAhead
    <3> HIDE DEF k
    <3>4. \A c \in loc[r].rest \ b : c > k + BatchSize
      BY <2>2, <3>1, <3>2, <3>3, BatchAdvance
    <3>5. pc'[r] # "batch"
      BY <1>1, <2>4 DEF TypeOK
    <3> QED
      BY <2>5, <3>2, <3>4, <3>5 DEF RestIsAhead
  <2>7. HeldCounters(r)'
    BY <1>5, <2>1, <2>5 DEF HeldCounters, Tier
  <2>8. Covered(r)'
    <3>1. Chunks \subseteq loc[r].rest \cup store \cup job.failed \cup loc[r].bad
      <4>1. loc[r].batch = {}
        BY <1>1, <2>1 DEF Forgotten
      <4> QED
        BY <1>5, <2>1, <4>1 DEF Covered
    <3>2. loc[r].rest \subseteq (loc[r].rest \ b) \cup (b \ ok) \cup store'
      BY <2>3
    <3>3. store \subseteq store' /\ job' = job
      BY <2>1, <2>3
    <3>4. Chunks \subseteq (loc[r].rest \ b) \cup (b \ ok) \cup store' \cup job'.failed \cup loc[r].bad
      BY <3>1, <3>2, <3>3
    <3> QED
      BY <2>5, <3>4 DEF Covered
  <2>9. CheckpointInv'
    BY <1>1, <2>1, <2>3 DEF PipelineInv, CheckpointInv, CheckpointSound
  <2> QED
    BY <1>5, <1>7, <2>1, <2>3, <2>4, <2>5, <2>6, <2>7, <2>8, <2>9 DEF Working
<1>9. CASE CoWrite(r)
  <2>1. /\ pc[r] = "bm25" /\ pc[r] \in Working /\ pc' = [pc EXCEPT ![r] = "commit"]
        /\ UNCHANGED <<doc, rows, job, store, loc>>
    BY <1>9 DEF CoWrite, Goto, Working
  <2>2. pc'[r] = "commit"
    BY <1>1, <2>1 DEF TypeOK
  <2>3. HeldCounters(r)' /\ RestIsAhead(r)' /\ Covered(r)'
    BY <1>5, <2>1, <2>2 DEF HeldCounters, RestIsAhead, Covered
  <2>4. CheckpointInv'
    BY <1>1, <2>1 DEF PipelineInv, CheckpointInv, CheckpointSound
  <2> QED
    BY <1>5, <1>7, <2>1, <2>3, <2>4 DEF Working
<1>10. CASE CommitBatch(r)
  <2>0. pc[r] = "commit" /\ pc[r] \in Working /\ UNCHANGED <<doc, rows, store>>
    BY <1>10 DEF CommitBatch, Working, indexVars
  <2>1. CASE Return(r) /\ UNCHANGED job
    <3>1. PICK label \in {"idle", "ack"} : pc' = [pc EXCEPT ![r] = label]
      BY <2>1 DEF Return
    <3> QED
      BY <1>1, <1>3, <1>4, <2>0, <2>1, <3>1, QuietStep DEF Working
  <2>2. CASE ~(Return(r) /\ UNCHANGED job)
    <3>1. /\ pc' = [pc EXCEPT ![r] = "batch"]
          /\ loc'[r].batch = {} /\ loc'[r].ok = {}
          /\ loc'[r].rest = loc[r].rest /\ loc'[r].next = loc[r].next + 1
          /\ loc'[r].total = loc[r].total
          /\ job'.status = job.status
      BY <1>1, <1>10, <2>2, CommitFields
    <3>2. Tier(loc[r].total) = "SMALL" =>
             /\ loc'[r].held = loc[r].held
             /\ loc'[r].bad = Counters(r).failed \cup (loc[r].batch \ loc[r].ok)
             /\ job' = job
      BY <1>1, <1>10, <2>2, CommitFields
    <3>3. Tier(loc[r].total) # "SMALL" =>
             /\ loc'[r].held = FALSE /\ loc'[r].bad = {}
             /\ job'.failed = IF loc[r].batch # loc[r].ok
                              THEN Counters(r).failed \cup (loc[r].batch \ loc[r].ok)
                              ELSE job.failed
             /\ job'.ckpt = IF Tier(loc[r].total) = "LARGE" THEN loc[r].next ELSE job.ckpt
      BY <1>1, <1>10, <2>2, CommitFields
    <3>4. /\ Tier(loc[r].total) = "SMALL" => Counters(r).failed = loc[r].bad
          /\ Tier(loc[r].total) # "SMALL" => Counters(r).failed = job.failed
      BY <1>5, <2>0 DEF HeldCounters, Counters
    <3>5. pc'[r] = "batch"
      BY <1>1, <3>1 DEF TypeOK
    <3>6. RestIsAhead(r)'
      BY <1>5, <2>0, <3>1, <3>5 DEF RestIsAhead
    <3>7. Tier(loc[r].total)' = Tier(loc[r].total)
      BY <3>1 DEF Tier
    <3>8. HeldCounters(r)'
      <4>1. CASE Tier(loc[r].total) = "SMALL"
        BY <1>5, <2>0, <3>2, <3>7, <4>1 DEF HeldCounters
      <4>2. CASE Tier(loc[r].total) # "SMALL"
        BY <1>5, <2>0, <3>3, <3>7, <4>2 DEF HeldCounters
      <4> QED
        BY <4>1, <4>2
    <3>9. job.failed \subseteq job'.failed
      BY <3>2, <3>3, <3>4
    <3>10. Covered(r)'
      <4>1. CASE Tier(loc[r].total) = "SMALL"
        BY <1>5, <2>0, <3>1, <3>2, <3>4, <4>1 DEF Covered
      <4>2. CASE Tier(loc[r].total) # "SMALL"
        <5>1. loc[r].bad \subseteq job.failed
          BY <1>5, <2>0, <4>2 DEF HeldCounters
        <5>2. loc[r].batch \ loc[r].ok \subseteq job'.failed
          BY <3>3, <4>2
        <5> QED
          BY <1>5, <2>0, <3>1, <3>9, <5>1, <5>2 DEF Covered
      <4> QED
        BY <4>1, <4>2
    <3>11. CheckpointInv'
      <4>1. CASE Tier(loc[r].total) = "LARGE"
        <5>1. N >= LargeMin
          BY <1>5, <1>6, <2>0, <4>1, SizesAssumption DEF Tier, Locs
        <5>2. job'.ckpt = loc[r].next /\ loc'[r].bad = {}
          BY <3>3, <4>1
        <5>3. \A c \in loc[r].rest : ~(c <= (loc[r].next + 1) * BatchSize)
          <6>1. \A c \in loc[r].rest : c > (loc[r].next + 1) * BatchSize
            BY <1>5, <2>0 DEF RestIsAhead
          <6>2. loc[r].next \in Nat /\ BatchSize \in Nat /\ loc[r].rest \subseteq Nat
            BY <1>6, SizesAssumption DEF Locs, Chunks
          <6>3. (loc[r].next + 1) * BatchSize \in Nat
            BY <6>2
          <6> QED
            BY <6>1, <6>2, <6>3
        <5>4. Chunks \subseteq loc[r].rest \cup store' \cup job'.failed
          BY <3>1, <3>10, <5>2 DEF Covered
        <5>5. CheckpointSound'
          BY <5>2, <5>3, <5>4 DEF CheckpointSound
        <5> QED
          BY <5>1, <5>5 DEF CheckpointInv
      <4>2. CASE Tier(loc[r].total) # "LARGE"
        <5>1. job'.ckpt = -1
          BY <1>5, <2>0, <3>2, <3>3, <4>2 DEF HeldCounters
        <5> QED
          BY <5>1 DEF CheckpointInv
      <4> QED
        BY <4>1, <4>2
    <3> QED
      BY <1>5, <1>7, <2>0, <3>1, <3>6, <3>8, <3>9, <3>10, <3>11 DEF Working
  <2> QED
    BY <2>1, <2>2
<1>11. CASE Finalize(r)
  <2>0. /\ pc[r] = "batch" /\ pc[r] \in Working /\ loc[r].rest = {}
        /\ UNCHANGED <<doc, rows, store>>
    BY <1>11 DEF Finalize, Working, indexVars
  <2>1. CASE job.status = "none"
    <3>1. Return(r) /\ UNCHANGED job
      BY <1>11, <2>1 DEF Finalize
    <3>2. PICK label \in {"idle", "ack"} : pc' = [pc EXCEPT ![r] = label]
      BY <3>1 DEF Return
    <3> QED
      BY <1>1, <1>3, <1>4, <2>0, <3>1, <3>2, QuietStep DEF Working
  <2>2. CASE job.status # "none"
    <3>1. PICK result : job' = [Flushed(r) EXCEPT !.status = result]
      BY <1>11, <2>2 DEF Finalize
    <3>2. PICK label \in {"failed", "ready"} : pc' = [pc EXCEPT ![r] = label]
      BY <1>11, <2>2 DEF Finalize
    <3>3. /\ job'.ckpt = job.ckpt
          /\ job'.failed = IF Tier(loc[r].total) = "SMALL" /\ loc[r].bad # {}
                           THEN loc[r].bad ELSE job.failed
      BY <1>1, <3>1, FlushedFields DEF Jobs
    <3>4. loc[r].batch = {}
      BY <1>1, <2>0 DEF Forgotten
    <3>5. Accounted' /\ job.failed \subseteq job'.failed
      <4>1. Chunks \subseteq store \cup job.failed \cup loc[r].bad
        BY <1>5, <2>0, <3>4 DEF Covered
      <4>2. loc[r].bad \subseteq job'.failed /\ job.failed \subseteq job'.failed
        BY <1>5, <2>0, <3>3 DEF HeldCounters
      <4> QED
        BY <2>0, <4>1, <4>2 DEF Accounted
    <3> QED
      BY <1>1, <1>3, <1>4, <2>0, <3>2, <3>3, <3>5, LeaveLoop DEF Working
  <2> QED
    BY <2>1, <2>2
<1>12. CASE Raise(r)
  <2>1. PICK label \in {"idle", "ack"} : pc' = [pc EXCEPT ![r] = label]
    BY <1>12 DEF Raise, Return
  <2>2. UNCHANGED rows /\ store \subseteq store' /\ doc' # "ready" /\ job' \in {job, Flushed(r)}
    BY <1>4, <1>12 DEF Raise
  <2>3. job'.status = job.status /\ job'.ckpt = job.ckpt /\ job.failed \subseteq job'.failed
    <3>1. Tier(loc[r].total) = "SMALL" => job.failed = {} \/ loc[r].bad = {}
      <4>1. CASE pc[r] \in Working
        BY <1>5, <4>1 DEF HeldCounters
      <4>2. CASE pc[r] \notin Working
        BY <1>1, <4>2 DEF Forgotten
      <4> QED
        BY <4>1, <4>2
    <3> QED
      BY <1>1, <2>2, <3>1, FlushedFields
  <2>4. job'.status = "completed" => Accounted'
    BY <1>1, <2>2, <2>3 DEF PipelineInv, DoneInv, Accounted
  <2> QED
    BY <1>1, <1>3, <2>1, <2>2, <2>3, <2>4, LeaveLoop DEF Working
<1> QED
  BY <1>8, <1>9, <1>10, <1>11, <1>12

\* The requests, with the file in place before and after.
LEMMA PipelineWeb ==
    ASSUME ResumeInv, file, file', "inline" \notin Modes, Web \/ AbandonJob \/ UNCHANGED vars
    PROVE  PipelineInv'
<1>1. TypeOK /\ PipelineInv /\ Untouched /\ FileGoesFirst /\ OneRun
  BY DEF ResumeInv, PipelineInv
<1>2. UNCHANGED <<rows, job, store, pc, loc>> /\ (doc' = "ready" => doc = "ready")
  <2>1. CASE SaveFile \/ InsertDocument \/ AssignBackend \/ Enqueue \/ UploadAborts
    BY <2>1 DEF SaveFile, InsertDocument, AssignBackend, Enqueue, UploadAborts,
                indexVars, queueVars, runVars
  <2>2. CASE DeleteFile \/ DeleteVectors \/ DeleteLexical \/ DeleteRow \/ DeleteCrash
    BY <1>1, <2>2 DEF DeleteFile, DeleteVectors, DeleteLexical, DeleteRow, DeleteCrash, FileGoesFirst
  <2>3. CASE AbandonJob \/ UNCHANGED vars
    BY <2>3 DEF AbandonJob, vars, webVars, indexVars, runVars
  <2>4. ASSUME NEW r \in Runs, RunInline(r) PROVE FALSE
    BY <2>4 DEF RunInline
  <2> QED
    BY <2>1, <2>2, <2>3, <2>4 DEF Web
<1>3. Chunked' /\ DoneInv' /\ CheckpointInv'
  BY <1>1, <1>2 DEF PipelineInv, Chunked, DoneInv, CheckpointInv, CheckpointSound, Accounted
<1>4. WorkInv'
  BY <1>1, <1>2 DEF PipelineInv, WorkInv, HeldCounters, RestIsAhead, Covered
<1> QED
  BY <1>3, <1>4 DEF PipelineInv

LEMMA ResumeNext ==
    ASSUME Overlap = FALSE, "inline" \notin Modes
    PROVE  ResumeInv /\ [Next]_vars => ResumeInv'
<1> SUFFICES ASSUME ResumeInv, [Next]_vars PROVE ResumeInv'
  OBVIOUS
<1>1. TypeOK /\ Untouched /\ FileGoesFirst /\ OneRun /\ Forgotten
  BY DEF ResumeInv
<1>2. TypeOK' /\ Untouched' /\ FileGoesFirst' /\ OneRun' /\ Forgotten'
  BY <1>1, TypeNext, UntouchedNext, OneRunNext, ForgottenNext
<1>3. ASSUME file' PROVE PipelineInv'
  <2>1. CASE ~file
    <3>1. SaveFile
      <4>1. ASSUME NEW r \in Runs, Step(r) \/ Raise(r), ~Ack(r) PROVE FALSE
        BY <1>3, <2>1, <4>1, StepMoves DEF webVars
      <4>2. ASSUME NEW r \in Runs,
                   StartJob(r) \/ Crash(r) \/ Shutdown(r) \/ Timeout(r) \/ Ack(r) \/ RunInline(r)
            PROVE  FALSE
        BY <1>3, <2>1, <4>2 DEF StartJob, Crash, Shutdown, Timeout, Ack, RunInline, webVars
      <4>3. ~(AbandonJob \/ UNCHANGED vars)
        BY <1>3, <2>1 DEF AbandonJob, vars, webVars
      <4>4. CASE Web
        BY <1>3, <2>1, <4>2, <4>4
        DEF Web, InsertDocument, AssignBackend, Enqueue, UploadAborts,
            DeleteFile, DeleteVectors, DeleteLexical, DeleteRow, DeleteCrash
      <4> QED
        BY <4>1, <4>2, <4>3, <4>4 DEF Next, Step
    <3>2. Idle' /\ doc' = "absent" /\ job' = NoJob
      BY <1>1, <3>1 DEF SaveFile, Untouched, Idle, runVars
    <3>3. Chunked' /\ WorkInv' /\ DoneInv' /\ CheckpointInv'
      BY <3>2 DEF Idle, Chunked, WorkInv, Working, DoneInv, CheckpointInv, NoJob
    <3> QED
      BY <3>3 DEF PipelineInv
  <2>2. CASE file
    <3>1. CASE Web \/ AbandonJob \/ UNCHANGED vars
      BY <1>3, <2>2, <3>1, PipelineWeb
    <3>2. ASSUME NEW r \in Runs, StartJob(r) \/ Crash(r) \/ Shutdown(r) \/ Timeout(r) \/ Ack(r)
          PROVE  PipelineInv'
      BY <2>2, <3>2, PipelineQueue
    <3>3. ASSUME NEW r \in Runs, Step(r) \/ Raise(r), ~Ack(r)
          PROVE  PipelineInv'
      <4>1. file' = file
        BY <3>3, StepMoves DEF webVars
      <4> QED
        BY <2>2, <3>3, <4>1, PipelineStages, PipelineBatches DEF Step
    <3> QED
      BY <3>1, <3>2, <3>3 DEF Next, Step
  <2> QED
    BY <2>1, <2>2
<1> QED
  BY <1>2, <1>3 DEF ResumeInv, PipelineInv

LEMMA ResumeAlways ==
    ASSUME Overlap = FALSE, "inline" \notin Modes
    PROVE  Spec => []ResumeInv
<1>1. Init => ResumeInv
  BY ResumeInit
<1>2. ResumeInv /\ [Next]_vars => ResumeInv'
  BY ResumeNext
<1> QED
  BY <1>1, <1>2, PTL DEF Spec

\* When the runs of a document do not overlap, a checkpoint never covers a chunk that is
\* neither stored nor recorded as failed, though the batches of a run over what was
\* missing are not the batches the resume counts in.
THEOREM CheckpointsAreSound ==
    ASSUME Overlap = FALSE, "inline" \notin Modes
    PROVE  Spec => []CheckpointSound
<1>1. ResumeInv => CheckpointSound
  BY DEF ResumeInv, CheckpointInv, CheckpointSound
<1> QED
  BY <1>1, ResumeAlways, PTL

\* Under the same conditions no crash, retry, resume or time-out makes a document ready
\* with a chunk that is neither stored nor recorded as failed.
THEOREM ReadyMeansAccounted ==
    ASSUME Overlap = FALSE, "inline" \notin Modes
    PROVE  Spec => []ReadyAccountsForEveryChunk
<1>1. ResumeInv => ReadyAccountsForEveryChunk
  BY DEF ResumeInv, DoneInv, Accounted, ReadyAccountsForEveryChunk
<1> QED
  BY <1>1, ResumeAlways, PTL

-----------------------------------------------------------------------------
(* The counters of a job.                                                  *)

\* What run r has counted of its job: no more than it took from the list of chunks, and
\* no more than a full batch for each number it has used.
Tallied(r) ==
    /\ loc[r].total = job.total
    /\ job.completed <= Counters(r).completed
    /\ Counters(r).completed + Cardinality(loc[r].rest) + Cardinality(loc[r].batch)
          <= loc[r].total
    /\ Counters(r).completed <= loc[r].next * BatchSize
    /\ Tier(loc[r].total) = "SMALL" => loc[r].held
    /\ Tier(loc[r].total) # "LARGE" => job.ckpt = -1
    /\ loc[r].ok \subseteq loc[r].batch /\ Cardinality(loc[r].batch) <= BatchSize

\* A checkpoint is saved with counters that fit into the batches it covers, so that what
\* a resume adds to them fits into the rest of the document.
JobTallied ==
    /\ job.completed <= job.total /\ job.total <= N
    /\ job.ckpt >= 0 => N >= LargeMin /\ job.completed <= (job.ckpt + 1) * BatchSize

TallyInv ==
    /\ JobTallied
    /\ \A r \in Runs : pc[r] \in Working =>
          IF job.status = "none" THEN ~HasRow ELSE Tallied(r)

Tallying == TypeOK /\ OneRun /\ Forgotten /\ TallyInv

LEMMA TallyInit == Init => TallyInv
BY SizesAssumption DEF Init, TallyInv, JobTallied, Working, NoJob

\* The types of what a tally is made of.
LEMMA TallyTypes ==
    ASSUME TypeOK, NEW r \in Runs
    PROVE  /\ job.completed \in Nat /\ job.total \in Nat /\ job.ckpt \in Nat \cup {-1}
           /\ loc[r].next \in Nat /\ loc[r].total \in Nat /\ loc[r].done \in Nat
           /\ Counters(r).completed = IF loc[r].held THEN loc[r].done ELSE job.completed
           /\ Counters(r).completed \in Nat
           /\ loc[r].rest \in SUBSET Chunks /\ Cardinality(loc[r].rest) \in Nat
           /\ loc[r].batch \in SUBSET Chunks /\ Cardinality(loc[r].batch) \in Nat
           /\ loc[r].ok \in SUBSET Chunks /\ Cardinality(loc[r].ok) \in Nat
<1>1. loc[r] \in Locs /\ job \in Jobs
  BY DEF TypeOK
<1>2. /\ loc[r].rest \in SUBSET Chunks /\ loc[r].batch \in SUBSET Chunks
      /\ loc[r].ok \in SUBSET Chunks
      /\ job.completed \in Nat /\ job.total \in Nat /\ job.ckpt \in Nat \cup {-1}
      /\ loc[r].next \in Nat /\ loc[r].total \in Nat /\ loc[r].done \in Nat
  BY <1>1 DEF Locs, Jobs
<1>3. /\ Cardinality(loc[r].rest) \in Nat /\ Cardinality(loc[r].batch) \in Nat
      /\ Cardinality(loc[r].ok) \in Nat
  BY <1>2, ChunkSets
<1>4. Counters(r).completed = IF loc[r].held THEN loc[r].done ELSE job.completed
  BY DEF Counters
<1> QED
  BY <1>2, <1>3, <1>4

\* A step of the only run out of the loop, or outside of it.
LEMMA TallyOutside ==
    ASSUME TypeOK, JobTallied', NEW r \in Runs, \A q \in Runs : q # r => pc[q] = "idle",
           NEW label, label \notin Working, pc' = [pc EXCEPT ![r] = label]
    PROVE  TallyInv'
<1>1. \A q \in Runs : pc'[q] \notin Working
  BY DEF TypeOK, Working
<1> QED
  BY <1>1 DEF TallyInv

\* A step of the only run inside of the loop.
LEMMA TallyInside ==
    ASSUME TypeOK, JobTallied', NEW r \in Runs, \A q \in Runs : q # r => pc[q] = "idle",
           NEW label, pc' = [pc EXCEPT ![r] = label],
           IF job'.status = "none" THEN ~HasRow' ELSE Tallied(r)'
    PROVE  TallyInv'
<1>1. \A q \in Runs : pc'[q] \in Working => q = r
  BY DEF TypeOK, Working
<1> QED
  BY <1>1 DEF TallyInv

\* Whatever leaves the job and the memory of the runs alone, and brings no row back
\* while a run is at work.
LEMMA TallyStays ==
    ASSUME TallyInv, UNCHANGED <<job, pc, loc>>, (HasRow' => HasRow) \/ Idle
    PROVE  TallyInv'
<1>1. JobTallied'
  BY DEF TallyInv, JobTallied
<1>2. ASSUME NEW r \in Runs, pc'[r] \in Working
      PROVE  IF job'.status = "none" THEN ~HasRow' ELSE Tallied(r)'
  BY <1>2 DEF TallyInv, Tallied, Counters, Working, Idle
<1> QED
  BY <1>1, <1>2 DEF TallyInv

\* What was counted when the run before stopped fits into the batches its checkpoint
\* covers; the rest of the document is what a resume may add.
LEMMA TallyResume ==
    ASSUME Tallying, NEW r \in Runs, pc[r] = "embed", ResumeEmbedding(r), job.ckpt >= 0,
           \A q \in Runs : q # r => pc[q] = "idle"
    PROVE  TallyInv'
<1> DEFINE k    == (job.ckpt + 1) * BatchSize
           rest == {c \in Chunks : c > (job.ckpt + 1) * BatchSize}
<1>1. TypeOK /\ JobTallied
  BY DEF Tallying, TallyInv
<1>2. /\ job'.status = "in_progress" /\ job'.ckpt = job.ckpt
      /\ pc' = [pc EXCEPT ![r] = "batch"]
      /\ loc'[r].batch = loc[r].batch /\ loc'[r].ok = loc[r].ok
      /\ loc'[r].rest = rest
      /\ loc'[r].next = job.ckpt + 1 /\ loc'[r].total = N /\ loc'[r].held = TRUE
      /\ job'.completed = job.completed /\ job'.total = N /\ loc'[r].done = job.completed
  BY <1>1, ResumeFields
<1>3. loc[r].batch = {} /\ loc[r].ok = {}
  BY DEF Tallying, Forgotten
<1>4. /\ job.completed \in Nat /\ job.ckpt \in Nat /\ N \in Nat /\ BatchSize \in Nat
      /\ LargeMin \in Nat /\ SmallMax \in Nat /\ SmallMax < LargeMin
      /\ job.completed <= N /\ job.completed <= k /\ N >= LargeMin
  BY <1>1, TallyTypes, SizesAssumption DEF JobTallied
<1>5. k \in Nat
  BY <1>4
<1>6. rest = (k + 1) .. N
  BY <1>4, <1>5 DEF Chunks
<1> HIDE DEF k, rest
<1>7. job.completed + Cardinality(rest) <= N
  <2>1. k + 1 \in Int /\ N \in Int
    BY <1>4, <1>5
  <2>2. Cardinality(rest) = IF k + 1 > N THEN 0 ELSE N - (k + 1) + 1
    BY <1>6, <2>1, FS_Interval
  <2> QED
    BY <1>4, <1>5, <2>2
<1>8. Cardinality({}) = 0 /\ 0 <= BatchSize
  BY <1>4, FS_EmptySet
<1>9. JobTallied'
  BY <1>1, <1>2, <1>4 DEF JobTallied
<1>10. Counters(r)'.completed = job.completed
  BY <1>2 DEF Counters
<1>11. Tallied(r)'
  <2>1. Tier(N) = "LARGE"
    BY <1>4 DEF Tier
  <2>2. job.completed <= (job.ckpt + 1) * BatchSize
    BY <1>4 DEF k
  <2>3. Counters(r)'.completed + Cardinality(rest) + Cardinality({}) <= N
    BY <1>4, <1>7, <1>8, <1>10, <1>1, ChunkSets DEF rest
  <2> QED
    BY <1>2, <1>3, <1>4, <1>8, <1>10, <2>1, <2>2, <2>3 DEF Tallied
<1> QED
  BY <1>1, <1>2, <1>9, <1>11, TallyInside

LEMMA TallyFresh ==
    ASSUME Tallying, NEW r \in Runs, pc[r] = "embed", EmbedDocument(r),
           \A q \in Runs : q # r => pc[q] = "idle"
    PROVE  TallyInv'
<1> DEFINE n == Cardinality(Chunks \ store)
<1>1. TypeOK
  BY DEF Tallying
<1>2. /\ job'.status = "in_progress" /\ job'.ckpt = -1
      /\ pc' = [pc EXCEPT ![r] = "batch"]
      /\ loc'[r].batch = loc[r].batch /\ loc'[r].ok = loc[r].ok
      /\ loc'[r].rest = Chunks \ store
      /\ loc'[r].next = 0 /\ loc'[r].total = n /\ loc'[r].held = TRUE
      /\ job'.completed = 0 /\ job'.total = n /\ loc'[r].done = 0
  BY <1>1, FreshFields
<1>3. loc[r].batch = {} /\ loc[r].ok = {}
  BY DEF Tallying, Forgotten
<1>4. n \in Nat /\ n <= N /\ BatchSize \in Nat
  BY ChunkSets, SizesAssumption
<1>5. Cardinality(loc'[r].rest) = n
  BY <1>2
<1> HIDE DEF n
<1>6. Cardinality({}) = 0 /\ 0 <= BatchSize /\ 0 * BatchSize = 0
  BY <1>4, FS_EmptySet
<1>7. JobTallied'
  BY <1>2, <1>4 DEF JobTallied
<1>8. Counters(r)'.completed = 0
  BY <1>2 DEF Counters
<1>9. Tallied(r)'
  BY <1>2, <1>3, <1>4, <1>5, <1>6, <1>8 DEF Tallied
<1> QED
  BY <1>1, <1>2, <1>7, <1>9, TallyInside

\* The batch in hand was taken from the rest.
LEMMA TallyBatch ==
    ASSUME Tallying, NEW r \in Runs, EmbedBatch(r), \A q \in Runs : q # r => pc[q] = "idle"
    PROVE  TallyInv'
<1>1. TypeOK /\ TallyInv /\ pc[r] = "batch" /\ UNCHANGED <<doc, job>>
  BY DEF Tallying, EmbedBatch
<1>2. PICK b \in SUBSET loc[r].rest :
         /\ IsBatch(b, loc[r].rest)
         /\ \E ok \in SUBSET b :
               /\ pc' = [pc EXCEPT ![r] = IF ok = {} THEN "commit" ELSE "bm25"]
               /\ loc' = [loc EXCEPT ![r] = [@ EXCEPT !.rest = loc[r].rest \ b, !.batch = b,
                                                     !.ok = ok]]
  BY DEF EmbedBatch
<1>3. PICK ok \in SUBSET b :
         /\ pc' = [pc EXCEPT ![r] = IF ok = {} THEN "commit" ELSE "bm25"]
         /\ loc' = [loc EXCEPT ![r] = [@ EXCEPT !.rest = loc[r].rest \ b, !.batch = b, !.ok = ok]]
  BY <1>2
<1>4. PICK label \in {"commit", "bm25"} : pc' = [pc EXCEPT ![r] = label]
  BY <1>3
<1> DEFINE rest == loc[r].rest \ b
<1>5. /\ loc'[r].rest = rest /\ loc'[r].batch = b /\ loc'[r].ok = ok
      /\ loc'[r].next = loc[r].next /\ loc'[r].total = loc[r].total
      /\ loc'[r].held = loc[r].held /\ loc'[r].done = loc[r].done
  <2>1. loc[r] \in Locs /\ loc'[r] = [loc[r] EXCEPT !.rest = rest, !.batch = b, !.ok = ok]
    BY <1>1, <1>3 DEF TypeOK
  <2> HIDE DEF rest
  <2>2. \A l \in Locs : LET m == [l EXCEPT !.rest = rest, !.batch = b, !.ok = ok]
                        IN  /\ m.rest = rest /\ m.batch = b /\ m.ok = ok
                            /\ m.next = l.next /\ m.total = l.total
                            /\ m.held = l.held /\ m.done = l.done
    BY DEF Locs
  <2> QED
    BY <2>1, <2>2
<1>6. /\ loc[r].rest \in SUBSET Chunks /\ Cardinality(loc[r].rest) \in Nat
      /\ Counters(r).completed \in Nat /\ loc[r].total \in Nat /\ BatchSize \in Nat
      /\ b \in SUBSET Chunks
  BY <1>1, TallyTypes, SizesAssumption
<1>7. /\ Cardinality(rest) + Cardinality(b) = Cardinality(loc[r].rest)
      /\ Cardinality(rest) \in Nat /\ Cardinality(b) \in Nat
  <2>1. IsFiniteSet(loc[r].rest) /\ loc[r].rest \cap b = b
    BY <1>6, ChunkSets
  <2>2. Cardinality(rest) = Cardinality(loc[r].rest) - Cardinality(b)
    <3>1. Cardinality(rest) = Cardinality(loc[r].rest) - Cardinality(loc[r].rest \cap b)
      BY <2>1, FS_Difference, Zenon
    <3> QED
      BY <2>1, <3>1, Zenon
  <2>3. Cardinality(b) \in Nat /\ Cardinality(rest) \in Nat
    BY <1>6, ChunkSets
  <2> QED
    BY <1>6, <2>2, <2>3
<1> HIDE DEF rest
<1>8. JobTallied'
  BY <1>1 DEF TallyInv, JobTallied
<1>9. CASE job.status = "none"
  <2>1. ~HasRow'
    BY <1>1, <1>9 DEF TallyInv, Working, HasRow
  <2> QED
    BY <1>1, <1>4, <1>8, <1>9, <2>1, TallyInside
<1>10. CASE job.status # "none"
  <2>1. Tallied(r) /\ loc[r].batch = {} /\ Cardinality({}) = 0
    BY <1>1, <1>10, FS_EmptySet DEF TallyInv, Working, Tallying, Forgotten
  <2>2. Counters(r)'.completed = Counters(r).completed
    BY <1>1, <1>5 DEF Counters
  <2>3. Cardinality(b) <= BatchSize
    BY <1>2, <1>6, <1>7 DEF IsBatch
  <2>4. Counters(r).completed + Cardinality(rest) + Cardinality(b) <= loc[r].total
    BY <1>6, <1>7, <2>1 DEF Tallied
  <2>5. Tallied(r)'
    BY <1>1, <1>5, <2>1, <2>2, <2>3, <2>4 DEF Tallied
  <2> QED
    BY <1>1, <1>4, <1>8, <1>10, <2>5, TallyInside
<1> QED
  BY <1>9, <1>10

\* What is embedded of a batch is counted, in memory or in the row.
LEMMA TallyCommit ==
    ASSUME Tallying, NEW r \in Runs, CommitBatch(r), \A q \in Runs : q # r => pc[q] = "idle"
    PROVE  TallyInv'
<1> DEFINE c == Counters(r).completed
           o == Cardinality(loc[r].ok)
<1>1. TypeOK /\ JobTallied /\ TallyInv /\ pc[r] = "commit" /\ doc' = doc
  BY DEF Tallying, TallyInv, CommitBatch
<1>2. CASE Return(r) /\ UNCHANGED job
  <2>1. PICK label \in {"idle", "ack"} : pc' = [pc EXCEPT ![r] = label]
    BY <1>2 DEF Return
  <2>2. JobTallied'
    BY <1>1, <1>2 DEF JobTallied
  <2> QED
    BY <1>1, <2>1, <2>2, TallyOutside DEF Working
<1>3. CASE ~(Return(r) /\ UNCHANGED job)
  <2>1. /\ pc' = [pc EXCEPT ![r] = "batch"]
        /\ loc'[r].batch = {} /\ loc'[r].ok = {}
        /\ loc'[r].rest = loc[r].rest /\ loc'[r].next = loc[r].next + 1
        /\ loc'[r].total = loc[r].total
        /\ job'.status = job.status
        /\ Tier(loc[r].total) = "SMALL" =>
              loc'[r].held = loc[r].held /\ loc'[r].done = c + o /\ job' = job
        /\ Tier(loc[r].total) # "SMALL" =>
              /\ loc'[r].held = FALSE /\ job'.total = job.total
              /\ job'.completed = IF loc[r].ok # {} THEN c + o ELSE job.completed
              /\ job'.ckpt = IF Tier(loc[r].total) = "LARGE" THEN loc[r].next ELSE job.ckpt
    BY <1>1, <1>3, CommitFields
  <2>2. CASE job.status = "none"
    <3>1. Tier(loc[r].total) = "SMALL"
      BY <1>3, <2>2 DEF CommitBatch
    <3>2. JobTallied' /\ ~HasRow' /\ job'.status = "none"
      BY <1>1, <2>1, <2>2, <3>1 DEF TallyInv, JobTallied, Working, HasRow
    <3> QED
      BY <1>1, <2>1, <3>2, TallyInside
  <2>3. CASE job.status # "none"
    <3>1. Tallied(r)
      BY <1>1, <2>3 DEF TallyInv, Working
    <3>2. /\ c \in Nat /\ o \in Nat /\ Cardinality(loc[r].rest) \in Nat
          /\ Cardinality(loc[r].batch) \in Nat
          /\ job.completed \in Nat /\ job.total \in Nat /\ loc[r].next \in Nat
          /\ loc[r].total \in Nat /\ job.ckpt \in Nat \cup {-1}
          /\ BatchSize \in Nat /\ N \in Nat
      BY <1>1, TallyTypes, SizesAssumption
    <3>3. o <= Cardinality(loc[r].batch)
      <4>1. IsFiniteSet(loc[r].batch) /\ loc[r].ok \in SUBSET loc[r].batch
        BY <1>1, <3>1, TallyTypes, ChunkSets DEF Tallied
      <4> QED
        BY <4>1, FS_Subset
    <3>4. Counters(r)'.completed = IF loc'[r].held THEN loc'[r].done ELSE job'.completed
      BY DEF Counters
    <3>5. /\ c + Cardinality(loc[r].rest) + Cardinality(loc[r].batch) <= loc[r].total
          /\ c <= loc[r].next * BatchSize /\ job.completed <= c
          /\ Cardinality(loc[r].batch) <= BatchSize /\ loc[r].total = job.total
          /\ job.completed <= job.total /\ job.total <= N
      BY <1>1, <3>1 DEF Tallied, JobTallied
    <3>6. (loc[r].next + 1) * BatchSize = loc[r].next * BatchSize + BatchSize
          /\ loc[r].next * BatchSize \in Nat
      BY <3>2
    <3>7. Cardinality({}) = 0 /\ 0 <= BatchSize
      BY <3>2, FS_EmptySet
    <3> DEFINE k  == loc[r].next * BatchSize
               k1 == (loc[r].next + 1) * BatchSize
               cr == Cardinality(loc[r].rest)
    <3>8. /\ c + o + cr <= loc[r].total /\ c + o <= k1 /\ c <= k1
          /\ c + cr <= loc[r].total /\ cr \in Nat
      <4>1. /\ k \in Nat /\ k1 = k + BatchSize /\ cr \in Nat /\ o <= BatchSize /\ c <= k
            /\ c + cr + Cardinality(loc[r].batch) <= loc[r].total
        BY <3>2, <3>3, <3>5, <3>6
      <4> HIDE DEF k, k1, c, o, cr
      <4> QED
        BY <3>2, <3>3, <4>1
    <3> HIDE DEF c, o, cr
    <3>9. CASE Tier(loc[r].total) = "SMALL"
      <4>1. /\ job' = job /\ loc'[r].held = TRUE /\ Counters(r)'.completed = c + o
            /\ job.ckpt = -1
        BY <2>1, <3>1, <3>4, <3>9, <1>1 DEF Tallied, TypeOK, Locs
      <4>2. JobTallied'
        BY <1>1, <4>1 DEF JobTallied
      <4>3. /\ Counters(r)'.completed + Cardinality(loc'[r].rest) + Cardinality(loc'[r].batch)
                  <= loc'[r].total
            /\ Counters(r)'.completed <= loc'[r].next * BatchSize
            /\ job'.completed <= Counters(r)'.completed
        BY <2>1, <3>2, <3>5, <3>7, <3>8, <4>1 DEF cr
      <4>4. Tallied(r)'
        BY <2>1, <3>1, <3>7, <4>1, <4>3 DEF Tallied
      <4> QED
        BY <1>1, <2>1, <2>3, <4>2, <4>4, TallyInside
    <3>10. CASE Tier(loc[r].total) # "SMALL"
      <4>1. /\ loc'[r].held = FALSE /\ job'.total = job.total
            /\ job'.completed \in {c, c + o, job.completed}
            /\ Counters(r)'.completed = job'.completed
            /\ job'.ckpt = IF Tier(loc[r].total) = "LARGE" THEN loc[r].next ELSE -1
        BY <2>1, <3>1, <3>4, <3>10 DEF Tallied
      <4>2. /\ job'.completed \in Nat /\ job'.completed <= k1
            /\ job'.completed + cr <= loc[r].total /\ job'.completed <= job.total
        BY <3>2, <3>5, <3>8, <4>1
      <4>3. Tier(loc[r].total) = "LARGE" => N >= LargeMin
        BY <3>2, <3>5, SizesAssumption DEF Tier
      <4>4. JobTallied'
        BY <3>5, <4>1, <4>2, <4>3 DEF JobTallied
      <4>5. Tallied(r)'
        <5>1. job'.completed + Cardinality(loc'[r].rest) + Cardinality(loc'[r].batch)
                 <= loc'[r].total
          BY <2>1, <3>7, <3>8, <4>2 DEF cr
        <5> QED
          BY <2>1, <3>5, <3>7, <3>10, <4>1, <4>2, <5>1 DEF Tallied
      <4> QED
        BY <1>1, <2>1, <2>3, <4>4, <4>5, TallyInside
    <3> QED
      BY <3>9, <3>10
  <2> QED
    BY <2>2, <2>3
<1> QED
  BY <1>2, <1>3

\* What a SMALL job kept in memory goes into the row, and fits.
LEMMA TallyFlushed ==
    ASSUME Tallying, NEW r \in Runs, pc[r] \in Working => job.status # "none"
    PROVE  /\ Flushed(r).completed <= Flushed(r).total /\ Flushed(r).total <= N
           /\ Flushed(r).total = job.total
           /\ Flushed(r).ckpt = job.ckpt
           /\ job.ckpt >= 0 => Flushed(r).completed = job.completed
<1>1. TypeOK /\ JobTallied
  BY DEF Tallying, TallyInv
<1>2. /\ Flushed(r).total = job.total /\ Flushed(r).ckpt = job.ckpt
      /\ Flushed(r).completed = IF Tier(loc[r].total) = "SMALL" /\ loc[r].done > 0
                                THEN loc[r].done ELSE job.completed
  BY <1>1, FlushedFields
<1>3. CASE Tier(loc[r].total) = "SMALL" /\ loc[r].done > 0
  <2>1. pc[r] \in Working
    <3>1. pc[r] \notin Working => loc[r].done = 0
      BY DEF Tallying, Forgotten
    <3> QED
      BY <1>3, <3>1
  <2>2. Tallied(r)
    BY <2>1 DEF Tallying, TallyInv
  <2>3. loc[r].done = Counters(r).completed /\ job.ckpt = -1 /\ loc[r].total = job.total
    BY <1>3, <2>2 DEF Tallied, Counters
  <2>4. loc[r].done <= loc[r].total
    <3>1. /\ Counters(r).completed \in Nat /\ loc[r].total \in Nat
          /\ Cardinality(loc[r].rest) \in Nat /\ Cardinality(loc[r].batch) \in Nat
      BY <1>1, TallyTypes
    <3> QED
      BY <2>2, <2>3, <3>1 DEF Tallied
  <2> QED
    BY <1>1, <1>2, <1>3, <2>3, <2>4 DEF JobTallied
<1>4. CASE ~(Tier(loc[r].total) = "SMALL" /\ loc[r].done > 0)
  BY <1>1, <1>2, <1>4 DEF JobTallied
<1> QED
  BY <1>3, <1>4

LEMMA TallyFinalize ==
    ASSUME Tallying, NEW r \in Runs, Finalize(r), \A q \in Runs : q # r => pc[q] = "idle"
    PROVE  TallyInv'
<1>1. TypeOK /\ JobTallied /\ TallyInv
  BY DEF Tallying, TallyInv
<1>2. CASE job.status = "none"
  <2>1. Return(r) /\ UNCHANGED job
    BY <1>2 DEF Finalize
  <2>2. PICK label \in {"idle", "ack"} : pc' = [pc EXCEPT ![r] = label]
    BY <2>1 DEF Return
  <2>3. JobTallied'
    BY <1>1, <2>1 DEF JobTallied
  <2> QED
    BY <1>1, <2>2, <2>3, TallyOutside DEF Working
<1>3. CASE job.status # "none"
  <2>1. PICK result : job' = [Flushed(r) EXCEPT !.status = result]
    BY <1>3 DEF Finalize
  <2>2. PICK label \in {"failed", "ready"} : pc' = [pc EXCEPT ![r] = label]
    BY <1>3 DEF Finalize
  <2>3. /\ job'.completed = Flushed(r).completed /\ job'.total = Flushed(r).total
        /\ job'.ckpt = Flushed(r).ckpt
    BY <1>1, <2>1, FlushedType DEF Jobs
  <2>4. JobTallied'
    BY <1>1, <1>3, <2>3, TallyFlushed DEF JobTallied
  <2> QED
    BY <1>1, <2>2, <2>4, TallyOutside DEF Working
<1> QED
  BY <1>2, <1>3

LEMMA TallyRaise ==
    ASSUME Tallying, NEW r \in Runs, Raise(r), \A q \in Runs : q # r => pc[q] = "idle"
    PROVE  TallyInv'
<1>1. TypeOK /\ JobTallied /\ TallyInv
  BY DEF Tallying, TallyInv
<1>2. PICK label \in {"idle", "ack"} : pc' = [pc EXCEPT ![r] = label]
  BY DEF Raise, Return
<1>3. job' = job \/ (HasRow /\ job' = Flushed(r))
  BY DEF Raise
<1>4. JobTallied'
  <2>1. CASE job' = job
    BY <1>1, <2>1 DEF JobTallied
  <2>2. CASE HasRow /\ job' = Flushed(r)
    <3>1. pc[r] \in Working => job.status # "none"
      BY <1>1, <2>2 DEF TallyInv
    <3> QED
      BY <1>1, <2>2, <3>1, TallyFlushed DEF JobTallied
  <2> QED
    BY <1>3, <2>1, <2>2
<1> QED
  BY <1>1, <1>2, <1>4, TallyOutside DEF Working

\* The steps of a run that do not count.
LEMMA TallyQuiet ==
    ASSUME Tallying, NEW r \in Runs, \A q \in Runs : q # r => pc[q] = "idle",
           \/ StartJob(r) \/ Crash(r) \/ Shutdown(r) \/ Timeout(r) \/ Ack(r) \/ Begin(r)
           \/ Parse(r) \/ Chunk(r) \/ SetEmbedding(r) \/ CoWrite(r) \/ Settle(r)
    PROVE  TallyInv'
<1>1. TypeOK /\ TallyInv /\ job' = job
  BY DEF Tallying, StartJob, Crash, Shutdown, Timeout, Ack, Begin, Parse, Chunk, SetEmbedding,
         CoWrite, Settle, RowGone, FailDoc
<1>2. JobTallied'
  BY <1>1 DEF TallyInv, JobTallied
<1>3. CASE StartJob(r) \/ Crash(r) \/ Ack(r) \/ Begin(r) \/ Parse(r) \/ Chunk(r)
           \/ SetEmbedding(r) \/ Settle(r)
  <2>1. PICK label \in {"idle", "begin", "parse", "chunk", "rechunk", "status", "embed", "ack"} :
           pc' = [pc EXCEPT ![r] = label]
    BY <1>3 DEF StartJob, Crash, Ack, Begin, Parse, Chunk, SetEmbedding, Settle, RowGone,
                FailDoc, Return, Goto
  <2> QED
    BY <1>1, <1>2, <2>1, TallyOutside DEF Working
<1>4. CASE CoWrite(r)
  <2>1. pc' = [pc EXCEPT ![r] = "commit"] /\ UNCHANGED <<loc, doc>> /\ pc[r] = "bm25"
    BY <1>4 DEF CoWrite, Goto
  <2>2. IF job'.status = "none" THEN ~HasRow' ELSE Tallied(r)'
    BY <1>1, <2>1 DEF TallyInv, Tallied, Counters, Working, HasRow
  <2> QED
    BY <1>1, <1>2, <2>1, <2>2, TallyInside
<1>5. CASE Shutdown(r) \/ Timeout(r)
  <2>1. UNCHANGED <<doc, pc>>
    BY <1>5 DEF Shutdown, Timeout
  <2>2. \A q \in Runs : /\ loc'[q].rest = loc[q].rest /\ loc'[q].next = loc[q].next
                       /\ loc'[q].total = loc[q].total /\ loc'[q].batch = loc[q].batch
                       /\ loc'[q].ok = loc[q].ok /\ loc'[q].held = loc[q].held
                       /\ loc'[q].done = loc[q].done
    <3>1. \A l \in Locs : LET m == [l EXCEPT !.mode = "zombie"]
                          IN  /\ m.rest = l.rest /\ m.next = l.next /\ m.total = l.total
                              /\ m.batch = l.batch /\ m.ok = l.ok /\ m.held = l.held
                              /\ m.done = l.done
      BY DEF Locs
    <3>2. \A q \in Runs : loc[q] \in Locs /\ loc'[q] \in {loc[q], [loc[q] EXCEPT !.mode = "zombie"]}
      BY <1>1, <1>5 DEF Shutdown, Timeout, TypeOK
    <3> QED
      BY <3>1, <3>2
  <2>3. ASSUME NEW q \in Runs, pc'[q] \in Working
        PROVE  IF job'.status = "none" THEN ~HasRow' ELSE Tallied(q)'
    <3>1. IF job.status = "none" THEN ~HasRow ELSE Tallied(q)
      BY <1>1, <2>1, <2>3 DEF TallyInv
    <3>2. Counters(q)'.completed = Counters(q).completed
      BY <1>1, <2>2 DEF Counters
    <3> QED
      BY <1>1, <2>1, <2>2, <3>1, <3>2 DEF Tallied, HasRow
  <2> QED
    BY <1>2, <2>3 DEF TallyInv
<1> QED
  BY <1>3, <1>4, <1>5

LEMMA TallyWeb ==
    ASSUME Tallying, "inline" \notin Modes, Web \/ AbandonJob \/ UNCHANGED vars
    PROVE  TallyInv'
<1>1. TallyInv /\ OneRun
  BY DEF Tallying
<1>2. CASE SaveFile \/ AssignBackend \/ Enqueue \/ UploadAborts \/ DeleteFile \/ DeleteVectors
           \/ DeleteLexical \/ DeleteCrash \/ AbandonJob \/ UNCHANGED vars
  <2>1. UNCHANGED <<doc, job, pc, loc>>
    BY <1>2 DEF SaveFile, AssignBackend, Enqueue, UploadAborts, DeleteFile, DeleteVectors,
                DeleteLexical, DeleteCrash, AbandonJob, vars, runVars
  <2> QED
    BY <1>1, <2>1, TallyStays DEF HasRow
<1>3. CASE InsertDocument
  BY <1>1, <1>3, TallyStays DEF InsertDocument, OneRun, runVars
<1>4. CASE DeleteRow
  <2>1. ~HasRow' /\ UNCHANGED <<pc, loc>> /\ job' \in {job, NoJob}
    BY <1>4 DEF DeleteRow, HasRow, runVars
  <2>2. CASE job' = job
    BY <1>1, <2>1, <2>2, TallyStays
  <2>3. CASE job' = NoJob
    BY <2>1, <2>3, SizesAssumption DEF TallyInv, JobTallied, NoJob
  <2> QED
    BY <2>1, <2>2, <2>3
<1>5. ASSUME NEW r \in Runs, RunInline(r) PROVE FALSE
  BY <1>5 DEF RunInline
<1> QED
  BY <1>2, <1>3, <1>4, <1>5 DEF Web

LEMMA TallyNext ==
    ASSUME Overlap = FALSE, "inline" \notin Modes
    PROVE  Tallying /\ [Next]_vars => Tallying'
<1> SUFFICES ASSUME Tallying, [Next]_vars PROVE Tallying'
  OBVIOUS
<1>1. TypeOK' /\ OneRun' /\ Forgotten'
  BY TypeNext, OneRunNext, ForgottenNext DEF Tallying
<1>2. CASE Web \/ AbandonJob \/ UNCHANGED vars
  BY <1>1, <1>2, TallyWeb DEF Tallying
<1>3. ASSUME NEW r \in Runs,
             StartJob(r) \/ Step(r) \/ Raise(r) \/ Crash(r) \/ Shutdown(r) \/ Timeout(r)
      PROVE  TallyInv'
  <2>1. pc[r] # "idle" \/ Idle
    BY <1>3, StepMoves DEF Tallying, OneRun, StartJob, Crash, Shutdown, Timeout, Ack
  <2>2. \A q \in Runs : q # r => pc[q] = "idle"
    BY <2>1, OthersIdle DEF Tallying
  <2>3. CASE EmbedStage(r)
    <3>1. pc[r] = "embed"
      BY <2>3 DEF EmbedStage
    <3>2. CASE ResumeEmbedding(r) /\ job.ckpt >= 0
      BY <2>2, <3>1, <3>2, TallyResume
    <3>3. CASE EmbedDocument(r)
      BY <2>2, <3>1, <3>3, TallyFresh
    <3>4. CASE (Return(r) \/ Goto(r, "ready")) /\ UNCHANGED job
      <4>1. PICK label \in {"idle", "ack", "ready"} : pc' = [pc EXCEPT ![r] = label]
        BY <3>4 DEF Return, Goto
      <4>2. TypeOK /\ JobTallied'
        BY <3>4 DEF Tallying, TallyInv, JobTallied
      <4> QED
        BY <2>2, <4>1, <4>2, TallyOutside DEF Working
    <3> QED
      BY <2>3, <3>2, <3>3, <3>4 DEF EmbedStage, RowGone
  <2> QED
    BY <1>3, <2>2, <2>3, TallyQuiet, TallyBatch, TallyCommit, TallyFinalize, TallyRaise DEF Step
<1> QED
  BY <1>1, <1>2, <1>3 DEF Next, Tallying

\* When runs do not overlap, a job never reports more chunks done than it has, whether it
\* counts in memory or in its row, and whatever a resume from a checkpoint adds to what the
\* run before it counted (EmbeddingJob.completed_chunks, resume_embedding).
THEOREM ProgressWithinTotal ==
    ASSUME Overlap = FALSE, "inline" \notin Modes
    PROVE  Spec => []CompletedWithinTotal
<1>1. Init => Tallying
  BY ResumeInit, TallyInit DEF Tallying, ResumeInv
<1>2. Tallying /\ [Next]_vars => Tallying'
  BY TallyNext
<1>3. Tallying => CompletedWithinTotal
  BY DEF Tallying, TallyInv, JobTallied, CompletedWithinTotal
<1> QED
  BY <1>1, <1>2, <1>3, PTL DEF Spec

-----------------------------------------------------------------------------
(* What is final: a document that is deleted, and one that is ready.       *)

\* Without a row nothing is being deleted, and before the upload inserts it there is none.
RowLife ==
    /\ ~HasRow => deletion = "idle"
    /\ upload \in {"idle", "saved"} => doc = "absent"

\* A run never inserts or deletes the document, and without a row it writes neither the
\* chunk rows nor a job out of nothing.
LEMMA NoRowNoWrite ==
    ASSUME NEW r \in Runs,
           StartJob(r) \/ Step(r) \/ Raise(r) \/ Crash(r) \/ Shutdown(r) \/ Timeout(r)
    PROVE  /\ doc' = doc \/ (HasRow /\ HasRow')
           /\ ~HasRow => rows' = rows /\ (job = NoJob => job' = NoJob)
<1> USE DEF HasRow
<1>1. CASE StartJob(r) \/ Crash(r) \/ Shutdown(r) \/ Timeout(r) \/ Ack(r)
  BY <1>1 DEF StartJob, Crash, Shutdown, Timeout, Ack
<1>2. CASE Begin(r) \/ Parse(r) \/ Chunk(r) \/ SetEmbedding(r) \/ EmbedStage(r) \/ Settle(r) \/ Raise(r)
  BY <1>2 DEF Begin, Parse, Chunk, SetEmbedding, EmbedStage, Settle, Raise, RowGone, FailDoc
<1>3. CASE EmbedBatch(r) \/ CoWrite(r)
  BY <1>3 DEF EmbedBatch, CoWrite
<1>4. CASE CommitBatch(r) \/ Finalize(r)
  <2>1. NoJob.status = "none"
    BY DEF NoJob
  <2> QED
    BY <1>4, <2>1 DEF CommitBatch, Finalize
<1> QED
  BY <1>1, <1>2, <1>3, <1>4 DEF Step

\* A run, and whatever starts or ends it, leaves the requests alone.
LEMMA RunsLeaveWeb ==
    ASSUME NEW r \in Runs,
           StartJob(r) \/ Step(r) \/ Raise(r) \/ Crash(r) \/ Shutdown(r) \/ Timeout(r)
    PROVE  UNCHANGED webVars
BY StepMoves DEF StartJob, Crash, Shutdown, Timeout, Ack, Step

LEMMA RowLifeNext == RowLife /\ [Next]_vars => RowLife'
<1> SUFFICES ASSUME RowLife, [Next]_vars PROVE RowLife'
  OBVIOUS
<1> USE DEF RowLife, HasRow
<1>1. CASE UNCHANGED vars \/ AbandonJob
  BY <1>1 DEF vars, AbandonJob, webVars
<1>2. CASE Web
  <2>1. CASE SaveFile \/ InsertDocument \/ AssignBackend \/ Enqueue \/ UploadAborts
    BY <2>1 DEF SaveFile, InsertDocument, AssignBackend, Enqueue, UploadAborts
  <2>2. CASE DeleteFile \/ DeleteVectors \/ DeleteLexical \/ DeleteRow \/ DeleteCrash
    BY <2>2 DEF DeleteFile, DeleteVectors, DeleteLexical, DeleteRow, DeleteCrash
  <2>3. ASSUME NEW r \in Runs, RunInline(r) PROVE RowLife'
    BY <2>3 DEF RunInline
  <2> QED
    BY <1>2, <2>1, <2>2, <2>3 DEF Web
<1>3. ASSUME NEW r \in Runs,
             StartJob(r) \/ Step(r) \/ Raise(r) \/ Crash(r) \/ Shutdown(r) \/ Timeout(r)
      PROVE  RowLife'
  BY <1>3, RunsLeaveWeb, NoRowNoWrite DEF webVars
<1> QED
  BY <1>1, <1>2, <1>3 DEF Next

LEMMA RowLifeAlways == Spec => []RowLife
<1>1. Init => RowLife
  BY DEF Init, RowLife, HasRow
<1> QED
  BY <1>1, RowLifeNext, PTL DEF Spec

\* Nothing brings a deleted document, its chunk rows or its embedding job back, however
\* many runs overlap, are inline, time out or die (delete_document against run_pipeline).
THEOREM DeletedStaysDeleted == Spec => DeletedIsFinal
<1> DEFINE Final == doc = "deleted" =>
                       doc' = "deleted" /\ rows' = rows /\ (job = NoJob => job' = NoJob)
<1>1. RowLife /\ [Next]_vars => [Final]_vars
  <2> SUFFICES ASSUME RowLife, Next, doc = "deleted"
               PROVE  doc' = "deleted" /\ rows' = rows /\ (job = NoJob => job' = NoJob)
    OBVIOUS
  <2>1. CASE AbandonJob
    BY <2>1 DEF AbandonJob
  <2>2. CASE Web
    BY <2>2 DEF Web, SaveFile, InsertDocument, AssignBackend, Enqueue, UploadAborts, RunInline,
                DeleteFile, DeleteVectors, DeleteLexical, DeleteRow, DeleteCrash, RowLife,
                HasRow, indexVars, queueVars, runVars
  <2>3. ASSUME NEW r \in Runs,
               StartJob(r) \/ Step(r) \/ Raise(r) \/ Crash(r) \/ Shutdown(r) \/ Timeout(r)
        PROVE  doc' = "deleted" /\ rows' = rows /\ (job = NoJob => job' = NoJob)
    BY <2>3, NoRowNoWrite DEF HasRow
  <2> QED
    BY <2>1, <2>2, <2>3 DEF Next
<1> QED
  BY <1>1, RowLifeAlways, PTL DEF Spec, DeletedIsFinal

\* No run is at work on a document that is ready, whether or not its file is there.
ReadyRests == doc = "ready" => \A r \in Runs : pc[r] \in {"idle", "begin", "ack"}

ReadyInv == TypeOK /\ OneRun /\ RowLife /\ ReadyRests

LEMMA ReadyStep ==
    ASSUME Overlap = FALSE, ReadyInv, NEW r \in Runs,
           StartJob(r) \/ Step(r) \/ Raise(r) \/ Crash(r) \/ Shutdown(r) \/ Timeout(r)
    PROVE  ReadyRests' /\ (doc = "ready" => doc' = "ready")
<1> USE DEF ReadyInv, ReadyRests
<1>1. CASE StartJob(r) \/ Crash(r) \/ Shutdown(r) \/ Timeout(r) \/ Ack(r)
  BY <1>1 DEF StartJob, Crash, Shutdown, Timeout, Ack, TypeOK
<1>2. CASE (Step(r) \/ Raise(r)) /\ ~Ack(r)
  <2>1. pc[r] # "idle" /\ \A q \in Runs : q # r => pc[q] = "idle"
    BY <1>2, StepMoves, OthersIdle
  <2>2. PICK label : pc' = [pc EXCEPT ![r] = label]
    BY <1>2, StepMoves
  <2>3. \A q \in Runs : q # r => pc'[q] = "idle"
    BY <2>1, <2>2 DEF TypeOK
  <2>4. CASE doc = "ready"
    <3>1. Begin(r)
      BY <1>2, <2>1, <2>4
      DEF Step, Raise, Parse, Chunk, SetEmbedding, EmbedStage, EmbedBatch, CoWrite, CommitBatch,
          Finalize, Settle
    <3>2. Return(r) /\ doc' = doc
      BY <2>4, <3>1 DEF Begin
    <3> QED
      BY <2>3, <2>4, <3>2 DEF Return, TypeOK
  <2>5. CASE doc # "ready"
    <3>1. SUFFICES ASSUME doc' = "ready" PROVE pc'[r] \in {"idle", "ack"}
      BY <2>3, <2>5
    <3>2. Settle(r)
      BY <1>2, <2>5, <3>1
      DEF Step, Raise, Begin, Parse, Chunk, SetEmbedding, EmbedStage, EmbedBatch, CoWrite,
          CommitBatch, Finalize, RowGone, FailDoc
    <3> QED
      BY <3>2 DEF Settle, RowGone, Return, TypeOK
  <2> QED
    BY <2>4, <2>5
<1> QED
  BY <1>1, <1>2 DEF Step

LEMMA ReadyNext ==
    ASSUME Overlap = FALSE
    PROVE  ReadyInv /\ [Next]_vars =>
              ReadyRests' /\ (doc = "ready" => doc' \in {"ready", "deleted"})
<1> SUFFICES ASSUME ReadyInv, [Next]_vars
             PROVE  ReadyRests' /\ (doc = "ready" => doc' \in {"ready", "deleted"})
  OBVIOUS
<1>1. ASSUME NEW r \in Runs,
             StartJob(r) \/ Step(r) \/ Raise(r) \/ Crash(r) \/ Shutdown(r) \/ Timeout(r)
      PROVE  ReadyRests' /\ (doc = "ready" => doc' \in {"ready", "deleted"})
  BY <1>1, ReadyStep
<1>2. CASE UNCHANGED vars \/ AbandonJob
  BY <1>2 DEF vars, AbandonJob, runVars, ReadyInv, ReadyRests
<1>3. CASE Web
  <2>1. CASE SaveFile \/ InsertDocument \/ AssignBackend \/ Enqueue \/ UploadAborts
    BY <2>1 DEF SaveFile, InsertDocument, AssignBackend, Enqueue, UploadAborts, runVars,
                ReadyInv, ReadyRests, RowLife
  <2>2. CASE DeleteFile \/ DeleteVectors \/ DeleteLexical \/ DeleteRow \/ DeleteCrash
    BY <2>2 DEF DeleteFile, DeleteVectors, DeleteLexical, DeleteRow, DeleteCrash, runVars,
                ReadyInv, ReadyRests
  <2>3. ASSUME NEW r \in Runs, RunInline(r)
        PROVE  ReadyRests' /\ (doc = "ready" => doc' \in {"ready", "deleted"})
    BY <2>3 DEF RunInline, ReadyInv, ReadyRests, TypeOK
  <2> QED
    BY <1>3, <2>1, <2>2, <2>3 DEF Web
<1> QED
  BY <1>1, <1>2, <1>3 DEF Next

\* When runs do not overlap, a document that is ready stays so until it is deleted: a
\* redelivered job, a crash or a time-out never takes it back (run_pipeline).
THEOREM ReadyStaysReady ==
    ASSUME Overlap = FALSE
    PROVE  Spec => ReadyIsFinal
<1> DEFINE Final == doc = "ready" => doc' \in {"ready", "deleted"}
<1>1. Init => ReadyInv
  BY TypeInit DEF Init, ReadyInv, OneRun, Idle, RowLife, HasRow, ReadyRests
<1>2. ReadyInv /\ [Next]_vars => ReadyInv'
  BY TypeNext, OneRunNext, RowLifeNext, ReadyNext DEF ReadyInv
<1>3. ReadyInv /\ [Next]_vars => [Final]_vars
  BY ReadyNext
<1> QED
  BY <1>1, <1>2, <1>3, PTL DEF Spec, ReadyIsFinal

-----------------------------------------------------------------------------
(* No document is left behind in the middle of the pipeline, as long as    *)
(* arq waits for every run.                                                *)

Settled == doc \notin {"uploaded", "parsing", "chunking", "embedding"}

\* arq waits for every run under way, and has a run under way if it waits.
Awaited ==
    /\ \A r \in Runs : pc[r] # "idle" => loc[r].mode = "arq" /\ queue = "running"
    /\ queue = "running" => ~Idle

\* The pipeline touches no document before it is queued, and a job leaves the queue when
\* its document is settled or stuck, or its tries are used up.
Tended ==
    /\ upload # "done" => doc \in {"absent", "uploaded", "deleted"}
    /\ upload = "done" /\ queue = "none" => Settled \/ Unchunkable \/ tries = MaxTries

\* A run that has returned has settled its document, or met chunk ids that collide: it
\* never finds its chunk rows inserted by another, or its job gone while the document is
\* there.
RunSettles ==
    /\ collides => ~rows
    /\ \A r \in Runs :
          /\ pc[r] = "chunk" => ~rows /\ (HasRow => doc = "chunking")
          /\ pc[r] = "rechunk" => ~collides
          /\ pc[r] = "ack" => Settled \/ Unchunkable
          /\ pc[r] \in Working => job.status # "none" \/ ~HasRow

LimboInv == TypeOK /\ OneRun /\ RowLife /\ Awaited /\ Tended /\ RunSettles

\* A run that arq waits for goes on until it is acknowledged, and is waited for.
LEMMA AwaitedStep ==
    ASSUME TypeOK, NEW r \in Runs, Step(r) \/ Raise(r), ~Ack(r), loc[r].mode = "arq"
    PROVE  \E label : /\ label # "idle" /\ pc' = [pc EXCEPT ![r] = label]
                      /\ loc'[r].mode = "arq" /\ \A q \in Runs : q # r => loc'[q] = loc[q]
<1> DEFINE Goes == \E label : /\ label # "idle" /\ pc' = [pc EXCEPT ![r] = label]
                              /\ loc'[r].mode = "arq" /\ \A q \in Runs : q # r => loc'[q] = loc[q]
<1>1. ASSUME Return(r) PROVE Goes
  <2>1. [NoLoc EXCEPT !.mode = "arq"].mode = "arq"
    BY DEF NoLoc
  <2> QED
    BY <1>1, <2>1 DEF Return, TypeOK
<1>2. ASSUME NEW label, label # "idle", Goto(r, label) PROVE Goes
  BY <1>2 DEF Goto
<1>3. CASE Begin(r) \/ Parse(r) \/ Chunk(r) \/ SetEmbedding(r) \/ Settle(r) \/ CoWrite(r) \/ Raise(r)
  BY <1>1, <1>2, <1>3
  DEF Begin, Parse, Chunk, SetEmbedding, Settle, CoWrite, Raise, RowGone, FailDoc
<1>4. CASE EmbedStage(r)
  <2>1. ASSUME ResumeEmbedding(r) \/ EmbedDocument(r) PROVE Goes
    <3>1. /\ pc' = [pc EXCEPT ![r] = "batch"] /\ loc'[r].mode = "arq"
          /\ \A q \in Runs : q # r => loc'[q] = loc[q]
      BY <2>1, ResumeFields, FreshFields
    <3> QED
      BY <3>1
  <2> QED
    BY <1>1, <1>2, <1>4, <2>1 DEF EmbedStage, RowGone
<1>5. CASE EmbedBatch(r)
  <2>0. PICK b \in SUBSET loc[r].rest : \E ok \in SUBSET b :
            /\ pc' = [pc EXCEPT ![r] = IF ok = {} THEN "commit" ELSE "bm25"]
            /\ loc' = [loc EXCEPT ![r] = [@ EXCEPT !.rest = loc[r].rest \ b, !.batch = b,
                                                !.ok = ok]]
    BY <1>5 DEF EmbedBatch
  <2>1. PICK ok \in SUBSET b :
            /\ pc' = [pc EXCEPT ![r] = IF ok = {} THEN "commit" ELSE "bm25"]
            /\ loc' = [loc EXCEPT ![r] = [@ EXCEPT !.rest = loc[r].rest \ b, !.batch = b,
                                                !.ok = ok]]
    BY <2>0
  <2> DEFINE rest == loc[r].rest \ b
  <2>2. loc \in [Runs -> Locs] /\ loc[r] \in Locs
    BY DEF TypeOK
  <2>3. loc' = [loc EXCEPT ![r] = [loc[r] EXCEPT !.rest = rest, !.batch = b, !.ok = ok]]
    BY <2>1
  <2> HIDE DEF rest
  <2>4. loc'[r].mode = "arq" /\ \A q \in Runs : q # r => loc'[q] = loc[q]
    BY <2>2, <2>3 DEF Locs
  <2>5. \E label : label # "idle" /\ pc' = [pc EXCEPT ![r] = label]
    BY <2>1
  <2> QED
    BY <2>4, <2>5
<1>6. CASE CommitBatch(r)
  <2>1. ASSUME ~(Return(r) /\ UNCHANGED job) PROVE Goes
    <3>1. /\ pc' = [pc EXCEPT ![r] = "batch"] /\ loc'[r].mode = "arq"
          /\ \A q \in Runs : q # r => loc'[q] = loc[q]
      BY <1>6, <2>1, CommitFields
    <3> QED
      BY <3>1
  <2> QED
    BY <1>1, <2>1
<1>7. CASE Finalize(r)
  <2>1. [NoLoc EXCEPT !.mode = "arq"].mode = "arq"
    BY DEF NoLoc
  <2> QED
    BY <1>1, <1>7, <2>1 DEF Finalize, TypeOK
<1> QED
  BY <1>3, <1>4, <1>5, <1>6, <1>7 DEF Step

\* What a run leaves behind where it goes.
LEMMA SettlesStep ==
    ASSUME TypeOK, RunSettles, NEW r \in Runs, Step(r) \/ Raise(r), ~Ack(r),
           loc[r].mode = "arq", \A q \in Runs : q # r => pc[q] = "idle"
    PROVE  RunSettles'
<1>0. PICK label : pc' = [pc EXCEPT ![r] = label]
  BY StepMoves
<1>1. SUFFICES /\ collides' => ~rows'
               /\ pc'[r] = "chunk" => ~rows' /\ (HasRow' => doc' = "chunking")
               /\ pc'[r] = "rechunk" => ~collides'
               /\ pc'[r] = "ack" => Settled' \/ Unchunkable'
               /\ pc'[r] \in Working => job'.status # "none" \/ ~HasRow'
  BY <1>0 DEF RunSettles, TypeOK, Working
<1>a. UNCHANGED collides
  BY StepMoves DEF webVars
<1> USE <1>a DEF RunSettles, Settled, Unchunkable, HasRow, Working
<1>2. ASSUME Return(r) PROVE pc'[r] = "ack"
  BY <1>2 DEF Return, TypeOK
<1>3. CASE Begin(r) \/ Parse(r) \/ SetEmbedding(r) \/ Settle(r)
  BY <1>2, <1>3 DEF Begin, Parse, SetEmbedding, Settle, RowGone, FailDoc, Goto, TypeOK
<1>4. CASE Chunk(r)
  BY <1>2, <1>4 DEF Chunk, RowGone, FailDoc, Goto, TypeOK
<1>5. CASE EmbedStage(r)
  <2>0. rows' = rows /\ doc' = doc
    BY <1>5 DEF EmbedStage, RowGone
  <2>1. CASE ResumeEmbedding(r)
    BY <2>0, <2>1, ResumeFields DEF TypeOK
  <2>2. CASE EmbedDocument(r)
    BY <2>0, <2>2, FreshFields DEF TypeOK
  <2> QED
    BY <1>2, <1>5, <2>1, <2>2 DEF EmbedStage, RowGone, Goto, TypeOK
<1>6. CASE EmbedBatch(r)
  BY <1>6 DEF EmbedBatch, TypeOK
<1>7. CASE CoWrite(r)
  BY <1>7 DEF CoWrite, Goto, TypeOK
<1>8. CASE CommitBatch(r)
  <2>1. CASE Return(r) /\ UNCHANGED job
    <3>1. doc' = doc /\ (job.status = "none" \/ pc'[r] = "batch")
      BY <1>8 DEF CommitBatch, TypeOK
    <3> QED
      BY <1>2, <1>8, <2>1, <3>1 DEF CommitBatch
  <2>2. CASE ~(Return(r) /\ UNCHANGED job)
    <3>1. pc' = [pc EXCEPT ![r] = "batch"] /\ job'.status = job.status
      BY <1>8, <2>2, CommitFields
    <3> QED
      BY <1>8, <3>1 DEF CommitBatch, TypeOK
  <2> QED
    BY <2>1, <2>2
<1>9. CASE Finalize(r)
  <2>1. pc[r] = "batch" /\ doc' = doc /\ rows' = rows
    BY <1>9 DEF Finalize
  <2>2. (job.status = "none" /\ Return(r)) \/ pc'[r] \in {"ready", "failed"}
    BY <1>9 DEF Finalize, TypeOK
  <2> QED
    BY <1>2, <2>1, <2>2
<1>10. CASE Raise(r)
  <2>1. Return(r) /\ Settled' /\ rows' = rows
    BY <1>10 DEF Raise
  <2> QED
    BY <1>2, <2>1
<1> QED
  BY <1>3, <1>4, <1>5, <1>6, <1>7, <1>8, <1>9, <1>10 DEF Step

LEMMA LimboInit == Init => LimboInv
BY TypeInit
DEF Init, LimboInv, OneRun, Idle, RowLife, HasRow, Awaited, Tended, RunSettles, Working

LEMMA LimboRun ==
    ASSUME LimboInv, NEW r \in Runs, Step(r) \/ Raise(r), ~Ack(r)
    PROVE  Awaited' /\ Tended' /\ RunSettles'
<1> USE DEF LimboInv
<1>1. /\ pc[r] # "idle" /\ UNCHANGED <<webVars, queueVars>>
      /\ loc[r].mode = "arq" /\ queue = "running"
  BY StepMoves DEF Awaited
<1>2. \A q \in Runs : q # r => pc[q] = "idle"
  BY <1>1, OthersIdle
<1>3. PICK label : /\ label # "idle" /\ pc' = [pc EXCEPT ![r] = label]
                   /\ loc'[r].mode = "arq" /\ \A q \in Runs : q # r => loc'[q] = loc[q]
  BY <1>1, AwaitedStep
<1>4. Awaited'
  BY <1>1, <1>2, <1>3 DEF Awaited, Idle, TypeOK, queueVars
<1>5. Tended'
  BY <1>1 DEF Tended, OneRun, Idle, webVars, queueVars
<1>6. RunSettles'
  BY <1>1, <1>2, SettlesStep
<1> QED
  BY <1>4, <1>5, <1>6

LEMMA LimboJob ==
    ASSUME LimboInv, Overlap = FALSE, Timeouts = FALSE, NEW r \in Runs,
           StartJob(r) \/ Crash(r) \/ Shutdown(r) \/ Timeout(r) \/ Ack(r)
    PROVE  Awaited' /\ Tended' /\ RunSettles'
<1> USE DEF LimboInv
<1>0. UNCHANGED <<upload, collides, doc, rows, job>>
  BY DEF StartJob, Crash, Shutdown, Timeout, Ack, webVars
<1>1. CASE StartJob(r)
  <2>1. /\ pc' = [pc EXCEPT ![r] = "begin"] /\ queue' = "running" /\ Idle
        /\ loc' = [loc EXCEPT ![r] = [NoLoc EXCEPT !.mode = "arq"]]
    BY <1>1 DEF StartJob, OneRun
  <2>2. [NoLoc EXCEPT !.mode = "arq"].mode = "arq"
    BY DEF NoLoc
  <2>3. Awaited'
    BY <2>1, <2>2 DEF Awaited, Idle, TypeOK
  <2>4. Tended' /\ RunSettles'
    BY <1>0, <2>1 DEF Tended, RunSettles, Idle, TypeOK, Settled, Unchunkable, HasRow, Working
  <2> QED
    BY <2>3, <2>4
<1>2. CASE Crash(r) \/ Ack(r)
  <2>1. /\ pc[r] # "idle" /\ pc' = [pc EXCEPT ![r] = "idle"]
        /\ loc[r].mode = "arq" /\ tries' = tries
        /\ (queue' = "queued" \/ (pc[r] = "ack" /\ queue' = "none"))
    BY <1>2 DEF Crash, Ack, Awaited
  <2>2. \A q \in Runs : q # r => pc[q] = "idle"
    BY <2>1, OthersIdle
  <2>3. Idle'
    BY <2>1, <2>2 DEF Idle, TypeOK
  <2>4. Awaited'
    BY <2>1, <2>3 DEF Awaited, Idle
  <2>5. Tended' /\ RunSettles'
    BY <1>0, <2>1, <2>3 DEF Tended, RunSettles, Idle, Settled, Unchunkable, HasRow, Working
  <2> QED
    BY <2>4, <2>5
<1>3. ~Shutdown(r) /\ ~Timeout(r)
  BY DEF Shutdown, Timeout
<1> QED
  BY <1>1, <1>2, <1>3

LEMMA LimboWeb ==
    ASSUME LimboInv, "inline" \notin Modes, Web \/ AbandonJob \/ UNCHANGED vars
    PROVE  Awaited' /\ Tended' /\ RunSettles'
<1> USE DEF LimboInv
<1>0. ASSUME NEW r \in Runs, RunInline(r) PROVE FALSE
  BY <1>0 DEF RunInline
<1>1. CASE SaveFile \/ InsertDocument \/ AssignBackend \/ Enqueue \/ UploadAborts
  <2>1. Idle /\ queue = "none"
    BY <1>1 DEF SaveFile, InsertDocument, AssignBackend, Enqueue, UploadAborts, OneRun
  <2>2. UNCHANGED <<runVars, collides, rows>> /\ queue' \in {"none", "queued"}
    BY <1>1, <2>1 DEF SaveFile, InsertDocument, AssignBackend, Enqueue, UploadAborts, queueVars
  <2>3. Awaited' /\ RunSettles'
    BY <2>1, <2>2 DEF Awaited, RunSettles, Idle, runVars, Working
  <2>4. Tended'
    BY <1>1 DEF SaveFile, InsertDocument, AssignBackend, Enqueue, UploadAborts, Tended, Unchunkable
  <2> QED
    BY <2>3, <2>4
<1>2. CASE DeleteFile \/ DeleteVectors \/ DeleteLexical \/ DeleteRow \/ DeleteCrash
  <2>1. UNCHANGED <<upload, collides, queueVars, runVars>>
    BY <1>2 DEF DeleteFile, DeleteVectors, DeleteLexical, DeleteRow, DeleteCrash
  <2>2. \/ UNCHANGED <<doc, rows, job>>
        \/ doc' = "deleted" /\ (rows' => rows)
    BY <1>2 DEF DeleteFile, DeleteVectors, DeleteLexical, DeleteRow, DeleteCrash
  <2> QED
    BY <2>1, <2>2 DEF Awaited, Tended, RunSettles, Settled, Unchunkable, HasRow, Idle, queueVars, runVars
<1>3. CASE AbandonJob
  BY <1>3 DEF AbandonJob, Awaited, Tended, RunSettles, OneRun, Settled, Unchunkable, HasRow, Idle, webVars,
              runVars, Working
<1>4. CASE UNCHANGED vars
  BY <1>4 DEF vars, webVars, queueVars, runVars, Awaited, Tended, RunSettles, Settled, Unchunkable, HasRow, Idle
<1> QED
  BY <1>0, <1>1, <1>2, <1>3, <1>4 DEF Web

\* When no run outlives its worker and nothing runs inline, a document stands in the middle
\* of the pipeline only with a run at work, a job queued, arq's tries used up, or chunk ids
\* that collide, wherever the worker died and whatever the user deletes.
THEOREM NobodyInLimbo ==
    ASSUME Overlap = FALSE, Timeouts = FALSE, "inline" \notin Modes
    PROVE  Spec => []NoSilentLimbo
<1>1. LimboInv /\ [Next]_vars => LimboInv'
  <2> SUFFICES ASSUME LimboInv, [Next]_vars PROVE LimboInv'
    OBVIOUS
  <2>1. TypeOK' /\ OneRun' /\ RowLife'
    BY TypeNext, OneRunNext, RowLifeNext DEF LimboInv
  <2>2. Awaited' /\ Tended' /\ RunSettles'
    BY LimboRun, LimboJob, LimboWeb DEF Next, Step
  <2> QED
    BY <2>1, <2>2 DEF LimboInv
<1>2. LimboInv => NoSilentLimbo
  BY DEF LimboInv, TypeOK, Awaited, Tended, Settled, NoSilentLimbo
<1> QED
  BY <1>1, <1>2, LimboInit, PTL DEF Spec

-----------------------------------------------------------------------------
(* The same where runs overlap, as long as no process dies.                *)

\* A run that is sure to settle its document: it has not returned, nor has another run
\* inserted the chunk rows it is about to insert, nor are there two of the same id in them.
GoingOn(r) ==
    /\ pc[r] \notin {"idle", "ack"}
    /\ pc[r] \in {"chunk", "rechunk"} => ~collides
    /\ pc[r] = "chunk" => ~rows

\* Nothing is done about a document before it is queued, or run inline.
Dispatched ==
    upload # "done" => /\ Idle /\ queue = "none" /\ tries = 0
                       /\ doc \in {"absent", "uploaded", "deleted"}

\* arq waits only for runs that it has started.
Started == \A r \in Runs : loc[r].mode = "arq" => tries > 0

\* A run in the middle of a job loses its row with the document only.
WorkHasJob == \A r \in Runs : pc[r] \in Working => job.status # "none" \/ ~HasRow

\* A document that is not settled has somebody who will, or has never been started, or is
\* stuck.
Underway ==
    upload = "done" /\ ~Settled =>
       \/ \E r \in Runs : GoingOn(r)
       \/ queue = "queued" /\ tries = 0
       \/ MaxTries = 0
       \/ Unchunkable

\* Chunks whose ids collide are never inserted.
NeverInserted == collides => ~rows

OverlapInv == TypeOK /\ Dispatched /\ Started /\ WorkHasJob /\ NeverInserted /\ Underway

LEMMA OverlapInit == Init => OverlapInv
BY TypeInit, ModeAssumption
DEF Init, OverlapInv, Dispatched, Started, WorkHasJob, NeverInserted, Underway, Idle, Working,
    NoLoc

\* No step of a run makes arq wait for it.
LEMMA ModeStep ==
    ASSUME TypeOK, NEW r \in Runs, Step(r) \/ Raise(r), NEW q \in Runs, loc'[q].mode = "arq"
    PROVE  loc[q].mode = "arq"
<1> DEFINE Keeps == loc'[r].mode = "arq" => loc[r].mode = "arq"
           Alone == \A p \in Runs : p # r => loc'[p] = loc[p]
<1>1. NoLoc.mode = "none" /\ loc \in [Runs -> Locs] /\ loc[r] \in Locs
  BY DEF NoLoc, TypeOK
<1>2. ASSUME Return(r) PROVE Keeps /\ Alone
  BY <1>1, <1>2 DEF Return
<1>3. ASSUME NEW label, Goto(r, label) PROVE Keeps /\ Alone
  BY <1>3 DEF Goto
<1>4. CASE Begin(r) \/ Parse(r) \/ Chunk(r) \/ SetEmbedding(r) \/ Settle(r) \/ CoWrite(r) \/ Raise(r)
  BY <1>2, <1>3, <1>4
  DEF Begin, Parse, Chunk, SetEmbedding, Settle, CoWrite, Raise, RowGone, FailDoc
<1>5. CASE EmbedStage(r)
  BY <1>2, <1>3, <1>5, ResumeFields, FreshFields DEF EmbedStage, RowGone
<1>6. CASE EmbedBatch(r)
  <2>1. PICK b \in SUBSET loc[r].rest : \E ok \in SUBSET b :
            loc' = [loc EXCEPT ![r] = [@ EXCEPT !.rest = loc[r].rest \ b, !.batch = b,
                                                !.ok = ok]]
    BY <1>6 DEF EmbedBatch
  <2>2. PICK ok \in SUBSET b :
            loc' = [loc EXCEPT ![r] = [@ EXCEPT !.rest = loc[r].rest \ b, !.batch = b,
                                                !.ok = ok]]
    BY <2>1
  <2> DEFINE rest == loc[r].rest \ b
  <2>3. loc' = [loc EXCEPT ![r] = [loc[r] EXCEPT !.rest = rest, !.batch = b, !.ok = ok]]
    BY <2>2
  <2> HIDE DEF rest
  <2> QED
    BY <1>1, <2>3 DEF Locs
<1>7. CASE CommitBatch(r)
  BY <1>2, <1>7, CommitFields
<1>8. CASE Finalize(r)
  <2>1. ASSUME loc' = [loc EXCEPT ![r] = [NoLoc EXCEPT !.mode = loc[r].mode]]
        PROVE  Keeps /\ Alone
    <3>1. \A m : [NoLoc EXCEPT !.mode = m].mode = m
      BY DEF NoLoc
    <3> QED
      BY <1>1, <2>1, <3>1
  <2> QED
    BY <1>2, <1>8, <2>1 DEF Finalize
<1>9. CASE Ack(r)
  BY <1>1, <1>9 DEF Ack
<1> QED
  BY <1>4, <1>5, <1>6, <1>7, <1>8, <1>9 DEF Step

\* A run goes on, or has settled the document, or was no more sure to settle it.
LEMMA GoesOn ==
    ASSUME TypeOK, WorkHasJob, NeverInserted, NEW r \in Runs, Step(r) \/ Raise(r), ~Ack(r)
    PROVE  /\ \/ Settled' \/ GoingOn(r)' \/ Unchunkable'
              \/ ~GoingOn(r) /\ UNCHANGED <<doc, rows>>
           /\ rows' = rows \/ (GoingOn(r)' /\ ~collides)
           /\ pc'[r] \in Working => job'.status # "none" \/ ~HasRow'
           /\ job'.status # "none" \/ job'.status = job.status
           /\ HasRow' = HasRow
<1> DEFINE Goes ==
      /\ \/ Settled' \/ GoingOn(r)' \/ Unchunkable'
         \/ ~GoingOn(r) /\ UNCHANGED <<doc, rows>>
      /\ rows' = rows \/ (GoingOn(r)' /\ ~collides)
      /\ pc'[r] \in Working => job'.status # "none" \/ ~HasRow'
      /\ job'.status # "none" \/ job'.status = job.status
      /\ HasRow' = HasRow
<1>0. UNCHANGED collides
  BY StepMoves DEF webVars
<1> USE DEF GoingOn, Settled, HasRow, Working
<1>1. ASSUME Return(r) PROVE pc'[r] \in {"idle", "ack"}
  BY <1>1 DEF Return, TypeOK
<1>2. CASE Begin(r)
  BY <1>1, <1>2 DEF Begin, Goto, TypeOK
<1>3. CASE Parse(r)
  BY <1>0, <1>1, <1>3 DEF Parse, RowGone, FailDoc, Goto, TypeOK, Unchunkable, NeverInserted
<1>4. CASE Chunk(r)
  BY <1>0, <1>1, <1>4 DEF Chunk, RowGone, FailDoc, Goto, TypeOK
<1>5. CASE SetEmbedding(r) \/ Settle(r)
  BY <1>1, <1>5 DEF SetEmbedding, Settle, RowGone, Goto, TypeOK
<1>6. CASE EmbedStage(r)
  <2>1. doc' = doc /\ rows' = rows
    BY <1>6 DEF EmbedStage, RowGone
  <2>2. CASE ResumeEmbedding(r)
    BY <2>1, <2>2, ResumeFields DEF TypeOK
  <2>3. CASE EmbedDocument(r)
    BY <2>1, <2>3, FreshFields DEF TypeOK
  <2> QED
    BY <1>1, <1>6, <2>1, <2>2, <2>3 DEF EmbedStage, RowGone, Goto, TypeOK
<1>7. CASE EmbedBatch(r)
  <2>1. UNCHANGED <<doc, rows, job>> /\ pc[r] = "batch" /\ pc'[r] \in {"commit", "bm25"}
    BY <1>7 DEF EmbedBatch, TypeOK
  <2> QED
    BY <2>1 DEF WorkHasJob
<1>8. CASE CoWrite(r)
  BY <1>8 DEF CoWrite, Goto, TypeOK, WorkHasJob
<1>9. CASE CommitBatch(r)
  <2>1. pc[r] = "commit" /\ doc' = doc /\ rows' = rows
    BY <1>9 DEF CommitBatch
  <2>2. CASE Return(r) /\ UNCHANGED job
    <3>1. job.status = "none" \/ pc'[r] = "batch"
      BY <1>9 DEF CommitBatch, TypeOK
    <3> QED
      BY <1>1, <2>1, <2>2, <3>1 DEF WorkHasJob
  <2>3. CASE ~(Return(r) /\ UNCHANGED job)
    <3>1. pc' = [pc EXCEPT ![r] = "batch"] /\ job'.status = job.status
      BY <1>9, <2>3, CommitFields
    <3> QED
      BY <2>1, <3>1 DEF TypeOK, WorkHasJob
  <2> QED
    BY <2>2, <2>3
<1>10. CASE Finalize(r)
  <2>1. pc[r] = "batch" /\ doc' = doc /\ rows' = rows
    BY <1>10 DEF Finalize
  <2>2. CASE job.status = "none"
    BY <1>1, <1>10, <2>1, <2>2 DEF Finalize, WorkHasJob
  <2>3. CASE job.status # "none"
    <3> DEFINE result == FinalStatus(Counters(r).completed, loc[r].total, Counters(r).failed)
    <3>1. job' = [Flushed(r) EXCEPT !.status = result] /\ pc'[r] \in {"ready", "failed"}
      BY <1>10, <2>3 DEF Finalize, TypeOK
    <3>2. result # "none"
      BY DEF FinalStatus
    <3> HIDE DEF result
    <3>3. Flushed(r) \in Jobs
      BY FlushedType
    <3>4. job'.status = result
      BY <3>1, <3>3 DEF Jobs
    <3> QED
      BY <2>1, <3>1, <3>2, <3>4
  <2> QED
    BY <2>2, <2>3
<1>11. CASE Raise(r)
  <2>1. Return(r) /\ Settled' /\ rows' = rows /\ HasRow' = HasRow
    BY <1>11 DEF Raise
  <2>2. job'.status = job.status
    BY <1>11, FlushedFields DEF Raise
  <2> QED
    BY <1>1, <2>1, <2>2
<1> QED
  BY <1>2, <1>3, <1>4, <1>5, <1>6, <1>7, <1>8, <1>9, <1>10, <1>11 DEF Step

LEMMA OverlapRun ==
    ASSUME OverlapInv, TypeOK', NEW r \in Runs, Step(r) \/ Raise(r), ~Ack(r)
    PROVE  OverlapInv'
<1> USE DEF OverlapInv
<1>1. /\ pc[r] # "idle" /\ UNCHANGED <<webVars, queueVars>>
      /\ \A q \in Runs : q # r => pc'[q] = pc[q]
  BY StepMoves DEF TypeOK
<1>2. upload' = "done" /\ tries' = tries /\ queue' = queue
  BY <1>1 DEF Dispatched, Idle, webVars, queueVars
<1>3. Dispatched'
  BY <1>2 DEF Dispatched
<1>4. Started'
  BY <1>2, ModeStep DEF Started
<1>5. /\ \/ Settled' \/ GoingOn(r)' \/ Unchunkable'
         \/ ~GoingOn(r) /\ UNCHANGED <<doc, rows>>
      /\ rows' = rows \/ (GoingOn(r)' /\ ~collides)
      /\ pc'[r] \in Working => job'.status # "none" \/ ~HasRow'
      /\ job'.status # "none" \/ job'.status = job.status
      /\ HasRow' = HasRow
  BY GoesOn
<1>6. WorkHasJob'
  BY <1>1, <1>5 DEF WorkHasJob
<1>8. NeverInserted'
  BY <1>1, <1>5 DEF NeverInserted, webVars
<1>7. Underway'
  <2> SUFFICES ASSUME ~Settled', ~GoingOn(r)', ~Unchunkable' PROVE Underway'
    BY DEF Underway
  <2>1. ~GoingOn(r) /\ UNCHANGED <<doc, rows>>
    BY <1>5
  <2>2. \A q \in Runs : GoingOn(q) => GoingOn(q)'
    BY <1>1, <2>1 DEF GoingOn, webVars
  <2> QED
    BY <1>1, <1>2, <2>1, <2>2 DEF Underway, Settled, Unchunkable, webVars
<1> QED
  BY <1>3, <1>4, <1>6, <1>7, <1>8

LEMMA OverlapJob ==
    ASSUME OverlapInv, Crashes = FALSE, TypeOK', NEW r \in Runs,
           StartJob(r) \/ Crash(r) \/ Shutdown(r) \/ Timeout(r) \/ Ack(r)
    PROVE  OverlapInv'
<1> USE DEF OverlapInv
<1>0. UNCHANGED <<webVars, doc, rows, job>> /\ ~Crash(r)
  BY DEF StartJob, Crash, Shutdown, Timeout, Ack
<1>1. upload = "done"
  BY DEF Dispatched, Idle, StartJob, Crash, Shutdown, Timeout, Ack
<1>2. upload' = "done" /\ collides' = collides /\ Dispatched' /\ NeverInserted'
  BY <1>0, <1>1 DEF Dispatched, NeverInserted, webVars
<1>3. CASE StartJob(r)
  <2>1. /\ pc' = [pc EXCEPT ![r] = "begin"] /\ tries' = tries + 1
        /\ loc' = [loc EXCEPT ![r] = [NoLoc EXCEPT !.mode = "arq"]]
    BY <1>3 DEF StartJob
  <2>2. Started'
    BY <2>1 DEF Started, TypeOK
  <2>3. WorkHasJob'
    BY <1>0, <2>1 DEF WorkHasJob, Working, HasRow, TypeOK
  <2>4. GoingOn(r)'
    BY <2>1 DEF GoingOn, TypeOK
  <2> QED
    BY <1>2, <2>2, <2>3, <2>4 DEF Underway
<1>4. CASE Shutdown(r) \/ Timeout(r)
  <2>1. /\ pc' = pc /\ tries' = tries /\ loc[r].mode = "arq"
        /\ loc' = [loc EXCEPT ![r].mode = "zombie"]
    BY <1>4 DEF Shutdown, Timeout
  <2>2. Started'
    <3>1. \A l \in Locs : [l EXCEPT !.mode = "zombie"].mode = "zombie"
      BY DEF Locs
    <3> QED
      BY <2>1, <3>1 DEF Started, TypeOK
  <2>3. WorkHasJob' /\ \A q \in Runs : GoingOn(q) => GoingOn(q)'
    BY <1>0, <1>2, <2>1 DEF WorkHasJob, HasRow, GoingOn
  <2>4. tries > 0
    BY <2>1 DEF Started
  <2> QED
    BY <1>0, <1>1, <1>2, <2>2, <2>3, <2>4 DEF Underway, Settled, Unchunkable, TypeOK
<1>5. CASE Ack(r)
  <2>1. /\ pc[r] = "ack" /\ pc' = [pc EXCEPT ![r] = "idle"] /\ tries' = tries
        /\ loc' = [loc EXCEPT ![r] = NoLoc]
        /\ queue' = queue \/ loc[r].mode = "arq"
    BY <1>5 DEF Ack
  <2>2. Started'
    BY <2>1 DEF Started, TypeOK, NoLoc
  <2>3. WorkHasJob' /\ \A q \in Runs : GoingOn(q) => GoingOn(q)'
    BY <1>0, <1>2, <2>1 DEF WorkHasJob, Working, HasRow, GoingOn, TypeOK
  <2>4. queue' = queue \/ tries > 0
    BY <2>1 DEF Started
  <2> QED
    BY <1>0, <1>1, <1>2, <2>1, <2>2, <2>3, <2>4 DEF Underway, Settled, Unchunkable, TypeOK
<1> QED
  BY <1>0, <1>3, <1>4, <1>5

LEMMA OverlapWeb ==
    ASSUME OverlapInv, TypeOK', Web \/ AbandonJob \/ UNCHANGED vars
    PROVE  OverlapInv'
<1> USE DEF OverlapInv
<1>1. CASE SaveFile \/ InsertDocument \/ AssignBackend \/ Enqueue \/ UploadAborts
  <2>1. upload # "done" /\ UNCHANGED <<runVars, tries, collides, rows>>
    BY <1>1 DEF SaveFile, InsertDocument, AssignBackend, Enqueue, UploadAborts, queueVars
  <2>2. Idle /\ tries = 0
    BY <2>1 DEF Dispatched
  <2>3. Dispatched'
    BY <1>1, <2>1, <2>2
    DEF Dispatched, SaveFile, InsertDocument, AssignBackend, Enqueue, UploadAborts, Idle,
        runVars, queueVars
  <2>4. Started' /\ WorkHasJob' /\ NeverInserted'
    BY <2>1, <2>2 DEF Started, WorkHasJob, NeverInserted, Idle, Working, runVars
  <2>5. Underway'
    BY <1>1, <2>1, <2>2
    DEF Underway, SaveFile, InsertDocument, AssignBackend, Enqueue, UploadAborts
  <2> QED
    BY <2>3, <2>4, <2>5
<1>2. CASE DeleteFile \/ DeleteVectors \/ DeleteLexical \/ DeleteRow \/ DeleteCrash
  <2>1. UNCHANGED <<upload, collides, queueVars, runVars>>
    BY <1>2 DEF DeleteFile, DeleteVectors, DeleteLexical, DeleteRow, DeleteCrash
  <2>2. \/ UNCHANGED <<doc, rows, job>>
        \/ doc' = "deleted" /\ (rows' => rows)
    BY <1>2 DEF DeleteFile, DeleteVectors, DeleteLexical, DeleteRow, DeleteCrash
  <2> QED
    BY <2>1, <2>2
    DEF Dispatched, Started, WorkHasJob, NeverInserted, Underway, Settled, Unchunkable, HasRow,
        Idle, GoingOn, queueVars, runVars
<1>3. ASSUME NEW r \in Runs, RunInline(r) PROVE OverlapInv'
  <2>1. /\ upload' = "done" /\ UNCHANGED <<collides, doc, rows, job, queueVars>>
        /\ pc' = [pc EXCEPT ![r] = "begin"]
        /\ loc' = [loc EXCEPT ![r] = [NoLoc EXCEPT !.mode = "inline"]]
    BY <1>3 DEF RunInline
  <2>2. [NoLoc EXCEPT !.mode = "inline"].mode = "inline"
    BY DEF NoLoc
  <2>3. Started'
    BY <2>1, <2>2 DEF Started, TypeOK, queueVars
  <2>4. WorkHasJob' /\ NeverInserted' /\ GoingOn(r)'
    BY <2>1 DEF WorkHasJob, NeverInserted, Working, HasRow, GoingOn, TypeOK
  <2> QED
    BY <2>1, <2>3, <2>4 DEF Dispatched, Underway
<1>4. CASE AbandonJob
  <2>1. /\ queue = "queued" /\ tries = MaxTries
        /\ UNCHANGED <<webVars, doc, rows, job, tries, runVars>>
    BY <1>4 DEF AbandonJob
  <2> QED
    BY <2>1
    DEF Dispatched, Started, WorkHasJob, NeverInserted, Underway, Settled, Unchunkable, HasRow,
        GoingOn, webVars, runVars
<1>5. CASE UNCHANGED vars
  BY <1>5
  DEF vars, webVars, queueVars, runVars, Dispatched, Started, WorkHasJob, NeverInserted,
      Underway, Settled, Unchunkable, HasRow, Idle, GoingOn
<1> QED
  BY <1>1, <1>2, <1>3, <1>4, <1>5 DEF Web

\* When no process dies and a job is started at all, a document stands in the middle of the
\* pipeline only with a run at work, its job queued, or chunk ids that collide, however many
\* runs of it overlap, outlast their time limit or run inline, whatever the user deletes, and
\* without an exception for tries used up: of runs that meet, one settles the document after
\* the others have touched it for the last time.
THEOREM OverlapsLeaveNobodyInLimbo ==
    ASSUME Crashes = FALSE, MaxTries > 0
    PROVE  Spec => [](/\ NoSilentLimbo
                      /\ Idle /\ upload = "done" /\ ~Settled => queue = "queued" \/ Unchunkable)
<1>1. OverlapInv /\ [Next]_vars => OverlapInv'
  <2> SUFFICES ASSUME OverlapInv, [Next]_vars PROVE OverlapInv'
    OBVIOUS
  <2>1. TypeOK'
    BY TypeNext DEF OverlapInv
  <2> QED
    BY <2>1, OverlapRun, OverlapJob, OverlapWeb DEF Next, Step
<1> DEFINE Promise == /\ NoSilentLimbo
                      /\ Idle /\ upload = "done" /\ ~Settled => queue = "queued" \/ Unchunkable
<1>2. OverlapInv => Promise
  <2> SUFFICES ASSUME OverlapInv, Idle, ~Settled, upload = "done"
               PROVE  queue = "queued" \/ Unchunkable
    BY DEF NoSilentLimbo, OverlapInv, Dispatched, Settled
  <2>1. \A r \in Runs : ~GoingOn(r)
    BY DEF Idle, GoingOn
  <2> QED
    BY <2>1, ModeAssumption DEF OverlapInv, Underway, TypeOK
<1> QED
  BY <1>1, <1>2, OverlapInit, PTL DEF Spec

-----------------------------------------------------------------------------
(* A document lives as its status says (DocumentLife).                     *)

InProcess == {"uploaded", "parsing", "chunking", "embedding"}

\* Before the row there is nothing, and the file comes before the row.
NotYet ==
    /\ doc = "absent" => /\ upload \in {"idle", "saved", "dead"}
                         /\ store = {} /\ job = NoJob
    /\ upload = "saved" => file

\* What a run does, it does on a document whose status says so.
Shown ==
    HasRow => \A r \in Runs :
       /\ pc[r] \notin {"idle", "begin", "status", "ack"} => doc \in InProcess
       /\ pc[r] = "status" => doc # "ready"

LifeInv == ResumeInv /\ RowLife /\ NotYet /\ Shown

\* Starting a run, its loss and its end leave the document alone.
Unseen == UNCHANGED <<webVars, doc, rows, job, indexVars>>

LEMMA QueueUnseen ==
    ASSUME NEW r \in Runs, StartJob(r) \/ Crash(r) \/ Shutdown(r) \/ Timeout(r) \/ Ack(r)
    PROVE  Unseen
BY DEF StartJob, Crash, Shutdown, Timeout, Ack, Unseen

LEMMA NotYetNext ==
    ASSUME TypeOK, OneRun, RowLife, NotYet, [Next]_vars
    PROVE  NotYet'
<1> USE DEF NotYet
<1>1. CASE UNCHANGED vars \/ AbandonJob
  BY <1>1 DEF vars, AbandonJob, webVars, indexVars
<1>2. CASE Web
  <2>1. CASE SaveFile \/ InsertDocument \/ AssignBackend \/ Enqueue \/ UploadAborts
    BY <2>1 DEF SaveFile, InsertDocument, AssignBackend, Enqueue, UploadAborts, indexVars,
                RowLife, HasRow
  <2>2. CASE DeleteFile \/ DeleteVectors \/ DeleteLexical \/ DeleteRow \/ DeleteCrash
    BY <2>2 DEF DeleteFile, DeleteVectors, DeleteLexical, DeleteRow, DeleteCrash, indexVars,
                RowLife, HasRow
  <2>3. ASSUME NEW r \in Runs, RunInline(r) PROVE NotYet'
    BY <2>3 DEF RunInline, indexVars
  <2> QED
    BY <1>2, <2>1, <2>2, <2>3 DEF Web
<1>3. ASSUME NEW r \in Runs, StartJob(r) \/ Crash(r) \/ Shutdown(r) \/ Timeout(r) \/ Ack(r)
      PROVE  NotYet'
  BY <1>3, QueueUnseen DEF Unseen, webVars, indexVars
<1>4. ASSUME NEW r \in Runs, Step(r) \/ Raise(r), ~Ack(r)
      PROVE  NotYet'
  <2>1. pc[r] # "idle" /\ UNCHANGED webVars
    BY <1>4, StepMoves
  <2>2. upload = "done"
    BY <2>1 DEF OneRun, Idle
  <2>3. doc # "absent"
    BY <2>2
  <2>4. doc' # "absent"
    BY <1>4, <2>3, NoRowNoWrite DEF HasRow
  <2> QED
    BY <2>1, <2>2, <2>4 DEF webVars
<1> QED
  BY <1>1, <1>2, <1>3, <1>4 DEF Next, Step

\* A run goes on in a stage that the status names, or the document is out of process and the
\* run at its end.
LEMMA ShownStep ==
    ASSUME TypeOK, OneRun, Shown, NEW r \in Runs, Step(r) \/ Raise(r), ~Ack(r)
    PROVE  Shown'
<1>1. pc[r] # "idle" /\ \A q \in Runs : q # r => pc[q] = "idle"
  BY StepMoves, OthersIdle
<1>2. PICK label : pc' = [pc EXCEPT ![r] = label]
  BY StepMoves
<1>3. pc'[r] = label /\ \A q \in Runs : q # r => pc'[q] = "idle"
  BY <1>1, <1>2 DEF TypeOK
<1>4. SUFFICES ASSUME HasRow'
               PROVE  /\ pc'[r] \notin {"idle", "begin", "status", "ack"} => doc' \in InProcess
                      /\ pc'[r] = "status" => doc' # "ready"
  BY <1>3 DEF Shown
<1>5. HasRow
  BY <1>4, NoRowNoWrite DEF HasRow
<1>6. /\ pc[r] \notin {"idle", "begin", "status", "ack"} => doc \in InProcess
      /\ pc[r] = "status" => doc # "ready"
  BY <1>5 DEF Shown
<1>7. Return(r) => pc'[r] \in {"idle", "ack"}
  BY DEF Return, TypeOK
<1>8. ASSUME NEW l, Goto(r, l) PROVE pc'[r] = l
  BY <1>8 DEF Goto, TypeOK
<1> USE DEF InProcess
<1>9. CASE Begin(r)
  BY <1>5, <1>7, <1>8, <1>9 DEF Begin
<1>10. CASE Parse(r)
  BY <1>5, <1>7, <1>8, <1>10 DEF Parse, RowGone, FailDoc
<1>11. CASE Chunk(r)
  BY <1>5, <1>6, <1>7, <1>8, <1>11 DEF Chunk, RowGone, FailDoc
<1>12. CASE SetEmbedding(r)
  BY <1>5, <1>7, <1>8, <1>12 DEF SetEmbedding, RowGone
<1>13. CASE EmbedStage(r)
  BY <1>5, <1>6, <1>13 DEF EmbedStage, RowGone
<1>14. CASE EmbedBatch(r) \/ CoWrite(r) \/ CommitBatch(r) \/ Finalize(r)
  BY <1>3, <1>6, <1>14 DEF EmbedBatch, CoWrite, CommitBatch, Finalize, Return, Goto, TypeOK
<1>15. CASE Settle(r)
  BY <1>5, <1>7, <1>15 DEF Settle, RowGone
<1>16. CASE Raise(r)
  BY <1>7, <1>16 DEF Raise
<1> QED
  BY <1>9, <1>10, <1>11, <1>12, <1>13, <1>14, <1>15, <1>16 DEF Step

LEMMA ShownNext ==
    ASSUME Overlap = FALSE, TypeOK, OneRun, NotYet, RowLife, Shown, [Next]_vars
    PROVE  Shown'
<1>1. CASE UNCHANGED vars \/ AbandonJob
  BY <1>1 DEF vars, AbandonJob, runVars, Shown, HasRow
<1>2. CASE Web
  <2>1. CASE SaveFile \/ AssignBackend \/ Enqueue \/ UploadAborts
    BY <2>1 DEF SaveFile, AssignBackend, Enqueue, UploadAborts, runVars, Shown, HasRow
  <2>2. CASE InsertDocument
    BY <2>2 DEF InsertDocument, runVars, Shown, InProcess
  <2>3. CASE DeleteFile \/ DeleteVectors \/ DeleteLexical \/ DeleteRow \/ DeleteCrash
    BY <2>3 DEF DeleteFile, DeleteVectors, DeleteLexical, DeleteRow, DeleteCrash, runVars, Shown,
                HasRow
  <2>4. ASSUME NEW r \in Runs, RunInline(r) PROVE Shown'
    BY <2>4 DEF RunInline, Shown, HasRow, TypeOK
  <2> QED
    BY <1>2, <2>1, <2>2, <2>3, <2>4 DEF Web
<1>3. ASSUME NEW r \in Runs, StartJob(r) \/ Crash(r) \/ Shutdown(r) \/ Timeout(r) \/ Ack(r)
      PROVE  Shown'
  BY <1>3 DEF StartJob, Crash, Shutdown, Timeout, Ack, Shown, HasRow, TypeOK
<1>4. ASSUME NEW r \in Runs, Step(r) \/ Raise(r), ~Ack(r)
      PROVE  Shown'
  BY <1>4, ShownStep
<1> QED
  BY <1>1, <1>2, <1>3, <1>4 DEF Next, Step

\* What can be found, and what is reported, of a document with a row and a file.
KeptNow == IF HasRow /\ file THEN store ELSE {}
GivenUpNow == IF HasRow /\ file THEN job.failed ELSE {}

LEMMA LooksTheSame ==
    ASSUME UNCHANGED <<file, doc, store>>, job'.failed = job.failed
    PROVE  UNCHANGED <<Lifetime, KeptNow, GivenUpNow>>
BY DEF Lifetime, KeptNow, GivenUpNow, HasRow

\* A run works on a document in process: chunks are stored, or reported, or it fails.
LEMMA WorkIsSeen ==
    ASSUME TypeOK', doc \in InProcess, doc' \in InProcess \cup {"failed"}, file, file',
           store \subseteq store'
    PROVE  Life!Work
<1>1. Lifetime = "accepted" /\ Lifetime' \in {"accepted", "failed"}
  BY DEF Lifetime, InProcess
<1>2. HasRow /\ HasRow'
  BY DEF HasRow, InProcess
<1>3. job'.failed \subseteq Chunks /\ store' \subseteq Chunks
  BY DEF TypeOK, Jobs
<1> QED
  BY <1>1, <1>2, <1>3 DEF Life!Work

\* A step of a run on a document with its row and its file.
LEMMA RunIsSeen ==
    ASSUME LifeInv, TypeOK', HasRow, file, NEW r \in Runs, Step(r) \/ Raise(r), ~Ack(r)
    PROVE  Life!Next \/ UNCHANGED <<Lifetime, KeptNow, GivenUpNow>>
<1>1. TypeOK /\ OneRun /\ Forgotten /\ DoneInv /\ Shown
  BY DEF LifeInv, ResumeInv
<1>2. /\ pc[r] \notin {"idle", "begin", "status", "ack"} => doc \in InProcess
      /\ pc[r] = "status" => doc # "ready"
      /\ pc[r] = "ready" => Accounted
      /\ pc[r] \notin Working => loc[r].total = 0 /\ loc[r].done = 0 /\ loc[r].bad = {}
  BY <1>1 DEF Shown, DoneInv, Forgotten
<1>3. file' = file
  BY StepMoves DEF webVars
<1>4. ASSUME doc = "failed", doc' \in InProcess, UNCHANGED <<store, job>>
      PROVE  Life!Retry
  BY <1>3, <1>4 DEF Life!Retry, Lifetime, HasRow, InProcess
<1>5. doc \in InProcess \cup {"ready", "failed"}
  BY <1>1 DEF TypeOK, HasRow, InProcess
<1>6. CASE Begin(r)
  <2>1. UNCHANGED <<store, job>> /\ (doc' = doc \/ (doc # "ready" /\ doc' = "parsing"))
    BY <1>6 DEF Begin, indexVars
  <2>2. CASE doc' = doc
    BY <1>3, <2>1, <2>2, LooksTheSame
  <2>3. CASE doc # "ready" /\ doc' = "parsing"
    <3>1. CASE doc = "failed"
      BY <1>4, <2>1, <2>3, <3>1 DEF Life!Next, InProcess
    <3>2. CASE doc \in InProcess
      <4>1. store \subseteq store' /\ doc' \in InProcess
        BY <2>1, <2>3 DEF InProcess
      <4> QED
        BY <1>3, <3>2, <4>1, WorkIsSeen DEF Life!Next
    <3> QED
      BY <1>5, <2>3, <3>1, <3>2
  <2> QED
    BY <2>1, <2>2, <2>3
<1>7. CASE Parse(r) \/ Chunk(r)
  <2>1. /\ doc \in InProcess /\ store' = store
        /\ doc' \in {doc, "failed", "chunking"}
    BY <1>2, <1>7 DEF Parse, Chunk, RowGone, FailDoc, indexVars
  <2>2. doc' \in InProcess \cup {"failed"} /\ store \subseteq store'
    BY <2>1 DEF InProcess
  <2> QED
    BY <1>3, <2>1, <2>2, WorkIsSeen DEF Life!Next
<1>8. CASE SetEmbedding(r)
  <2>1. doc # "ready" /\ doc' = "embedding" /\ UNCHANGED <<store, job>>
    BY <1>2, <1>8 DEF SetEmbedding, RowGone, indexVars
  <2>2. CASE doc = "failed"
    BY <1>4, <2>1, <2>2 DEF Life!Next, InProcess
  <2>3. CASE doc \in InProcess
    <3>1. store \subseteq store' /\ doc' \in InProcess
      BY <2>1 DEF InProcess
    <3> QED
      BY <1>3, <2>3, <3>1, WorkIsSeen DEF Life!Next
  <2> QED
    BY <1>5, <2>1, <2>2, <2>3
<1>9. CASE EmbedStage(r) \/ EmbedBatch(r) \/ CoWrite(r) \/ CommitBatch(r) \/ Finalize(r)
  <2>1. doc \in InProcess
    BY <1>2, <1>9 DEF EmbedStage, EmbedBatch, CoWrite, CommitBatch, Finalize
  <2>2. doc' = doc
    BY <1>9 DEF EmbedStage, EmbedBatch, CoWrite, CommitBatch, Finalize, RowGone
  <2>3. store \subseteq store'
    <3>1. CASE EmbedBatch(r)
      BY <3>1 DEF EmbedBatch
    <3>2. CASE EmbedStage(r) \/ CoWrite(r) \/ CommitBatch(r) \/ Finalize(r)
      BY <3>2 DEF EmbedStage, CoWrite, CommitBatch, Finalize, RowGone, indexVars
    <3> QED
      BY <1>9, <3>1, <3>2
  <2> QED
    BY <1>3, <2>1, <2>2, <2>3, WorkIsSeen DEF Life!Next
<1>10. CASE Settle(r)
  <2>1. doc' = pc[r] /\ pc[r] \in {"ready", "failed"} /\ UNCHANGED <<store, job>>
    BY <1>10 DEF Settle, RowGone, indexVars
  <2>2. doc \in InProcess
    BY <1>2, <2>1
  <2>3. CASE pc[r] = "failed"
    BY <1>3, <2>1, <2>2, <2>3, WorkIsSeen DEF Life!Next
  <2>4. CASE pc[r] = "ready"
    <3>1. Accounted
      BY <1>2, <2>4
    <3>2. Lifetime = "accepted" /\ Lifetime' = "ready"
      BY <1>3, <2>1, <2>2, <2>4 DEF Lifetime, InProcess
    <3>3. HasRow'
      BY <2>1 DEF HasRow
    <3>4. Life!Finish
      BY <1>3, <2>1, <3>1, <3>2, <3>3 DEF Life!Finish, Accounted
    <3> QED
      BY <3>4 DEF Life!Next
  <2> QED
    BY <2>1, <2>3, <2>4
<1>11. CASE Raise(r)
  <2>1. /\ pc[r] \in {"parse", "status", "embed", "batch"}
        /\ doc' = "failed" /\ job' = Flushed(r)
        /\ store \subseteq store' /\ (pc[r] # "batch" => store' = store)
    BY <1>11 DEF Raise
  <2>2. CASE doc \in InProcess
    <3>1. doc' \in InProcess \cup {"failed"}
      BY <2>1
    <3> QED
      BY <1>3, <2>1, <2>2, <3>1, WorkIsSeen DEF Life!Next
  <2>3. CASE doc \notin InProcess
    <3>1. pc[r] = "status" /\ doc = "failed"
      BY <1>2, <1>5, <2>1, <2>3
    <3>2. loc[r].done = 0 /\ loc[r].bad = {}
      BY <1>2, <3>1 DEF Working
    <3>3. job'.failed = job.failed
      BY <1>1, <2>1, <3>2, FlushedFields
    <3>4. UNCHANGED <<file, doc, store>>
      BY <1>3, <2>1, <3>1 DEF Working
    <3> QED
      BY <3>3, <3>4, LooksTheSame
  <2> QED
    BY <2>2, <2>3
<1> QED
  BY <1>6, <1>7, <1>8, <1>9, <1>10, <1>11 DEF Step

\* Every step is one of the document's life, or is not seen from outside.
LEMMA LifeStep ==
    ASSUME LifeInv, TypeOK', [Next]_vars
    PROVE  Life!Next \/ UNCHANGED <<Lifetime, KeptNow, GivenUpNow>>
<1>1. TypeOK /\ FileGoesFirst /\ RowLife /\ NotYet
  BY DEF LifeInv, ResumeInv
<1>2. CASE UNCHANGED vars \/ AbandonJob
  <2>1. UNCHANGED <<file, doc, store, job>>
    BY <1>2 DEF vars, AbandonJob, webVars, indexVars
  <2> QED
    BY <2>1, LooksTheSame
<1>3. CASE AssignBackend \/ Enqueue \/ UploadAborts \/ DeleteLexical \/ DeleteCrash
           \/ \E r \in Runs : RunInline(r)
  <2>1. UNCHANGED <<file, doc, store, job>>
    BY <1>3 DEF AssignBackend, Enqueue, UploadAborts, DeleteLexical, DeleteCrash, RunInline,
                indexVars
  <2> QED
    BY <2>1, LooksTheSame
<1>4. CASE SaveFile
  <2>1. doc = "absent" /\ doc' = doc
    BY <1>1, <1>4 DEF SaveFile, RowLife
  <2> QED
    BY <2>1 DEF Lifetime, KeptNow, GivenUpNow, HasRow
<1>5. CASE InsertDocument
  <2>1. /\ doc = "absent" /\ file /\ store = {} /\ job = NoJob
        /\ doc' = "uploaded" /\ UNCHANGED <<file, store, job>>
    BY <1>1, <1>5 DEF InsertDocument, RowLife, NotYet, indexVars
  <2>2. NoJob.failed = {}
    BY DEF NoJob
  <2>3. Life!Accept
    BY <2>1, <2>2 DEF Life!Accept, Lifetime, HasRow
  <2> QED
    BY <2>3 DEF Life!Next
<1>6. CASE DeleteFile
  <2>1. HasRow /\ ~file' /\ UNCHANGED <<doc, store, job>>
    BY <1>6 DEF DeleteFile, indexVars
  <2>2. CASE file
    <3>1. Lifetime \in {"accepted", "ready", "failed"} /\ Lifetime' = "withdrawn"
      BY <2>1, <2>2 DEF Lifetime, HasRow
    <3>2. Life!Withdraw
      BY <2>1, <3>1 DEF Life!Withdraw
    <3> QED
      BY <3>2 DEF Life!Next
  <2>3. CASE ~file
    BY <2>1, <2>3 DEF Lifetime, KeptNow, GivenUpNow, HasRow
  <2> QED
    BY <2>2, <2>3
<1>7. CASE DeleteVectors
  BY <1>1, <1>7 DEF DeleteVectors, FileGoesFirst, Lifetime, KeptNow, GivenUpNow, HasRow
<1>8. CASE DeleteRow
  <2>1. ~file /\ HasRow /\ doc' = "deleted" /\ file' = file
    BY <1>1, <1>8 DEF DeleteRow, FileGoesFirst, RowLife
  <2>2. Lifetime = "withdrawn" /\ Lifetime' = "deleted"
    BY <2>1 DEF Lifetime, HasRow
  <2>3. Life!Remove
    BY <2>1, <2>2 DEF Life!Remove
  <2> QED
    BY <2>3 DEF Life!Next
<1>9. ASSUME NEW r \in Runs, StartJob(r) \/ Crash(r) \/ Shutdown(r) \/ Timeout(r) \/ Ack(r)
      PROVE  UNCHANGED <<Lifetime, KeptNow, GivenUpNow>>
  <2>1. UNCHANGED <<file, doc, store, job>>
    BY <1>9, QueueUnseen DEF Unseen, webVars, indexVars
  <2> QED
    BY <2>1, LooksTheSame
<1>10. ASSUME NEW r \in Runs, Step(r) \/ Raise(r), ~Ack(r)
       PROVE  Life!Next \/ UNCHANGED <<Lifetime, KeptNow, GivenUpNow>>
  <2>1. CASE HasRow /\ file
    BY <1>10, <2>1, RunIsSeen
  <2>2. CASE ~(HasRow /\ file)
    <3>1. file' = file
      BY <1>10, StepMoves DEF webVars
    <3>2. doc' = doc \/ (HasRow /\ HasRow')
      BY <1>10, NoRowNoWrite
    <3> QED
      BY <2>2, <3>1, <3>2 DEF Lifetime, KeptNow, GivenUpNow, HasRow
  <2> QED
    BY <2>1, <2>2
<1> QED
  BY <1>2, <1>3, <1>4, <1>5, <1>6, <1>7, <1>8, <1>9, <1>10 DEF Next, Step, Web

\* When the runs of a document do not overlap, the pipeline implements the life that
\* DocumentLife describes, whatever crashes, times out, is retried or deleted.
THEOREM DocumentsLiveAsPromised ==
    ASSUME Overlap = FALSE, "inline" \notin Modes
    PROVE  Spec => LivesAsPromised
<1>1. Init => LifeInv
  <2>1. Init => ResumeInv
    BY ResumeInit
  <2>2. Init => RowLife /\ NotYet /\ Shown
    BY DEF Init, RowLife, HasRow, NotYet, Shown
  <2> QED
    BY <2>1, <2>2 DEF LifeInv
<1>2. LifeInv /\ [Next]_vars => LifeInv'
  <2> SUFFICES ASSUME LifeInv, [Next]_vars PROVE LifeInv'
    OBVIOUS
  <2>1. ResumeInv'
    BY ResumeNext DEF LifeInv
  <2>2. RowLife'
    BY RowLifeNext DEF LifeInv
  <2>3. NotYet'
    BY NotYetNext DEF LifeInv, ResumeInv
  <2>4. Shown'
    BY ShownNext DEF LifeInv, ResumeInv
  <2> QED
    BY <2>1, <2>2, <2>3, <2>4 DEF LifeInv
<1>3. Init => Life!Init
  BY DEF Init, Life!Init, Lifetime, HasRow
<1>4. LifeInv /\ LifeInv' /\ [Next]_vars => [Life!Next]_(Life!vars)
  <2> SUFFICES ASSUME LifeInv, LifeInv', [Next]_vars PROVE [Life!Next]_(Life!vars)
    OBVIOUS
  <2>1. TypeOK'
    BY DEF LifeInv, ResumeInv
  <2>2. Life!Next \/ UNCHANGED <<Lifetime, KeptNow, GivenUpNow>>
    BY <2>1, LifeStep
  <2> QED
    BY <2>2 DEF Life!vars, KeptNow, GivenUpNow
<1> QED
  BY <1>1, <1>2, <1>3, <1>4, PTL DEF Spec, LivesAsPromised, Life!Spec

=============================================================================
