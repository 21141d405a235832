--------------------------- MODULE BM25StoreProofs ---------------------------
(***************************************************************************)
(* Proofs about BM25Store, for every set of chunks, processes and threads, *)
(* when the threads that write share a process, and so a lock.             *)
(***************************************************************************)
EXTENDS BM25Store, TLAPS

\* The hypothesis of what follows: the run bm25_two_writers refutes it without.
OneProcessWrites == \A t, u \in Writers : Home[t] = Home[u]

Holding == {"load", "open", "dump", "swap", "stat", "read"}
Writing == {"load", "open", "dump", "swap"}
Changed == {"open", "dump", "swap"}

\* The calls by where their threads are, and who has the lock.
Calls ==
    /\ \A t \in Threads :
          /\ pc[t] = "idle" => op[t] = Promise!NoCall
          /\ pc[t] = "wait" =>
                op[t] = Promise!Query \/ (op[t] \in Promise!Writes /\ t \in Writers)
          /\ pc[t] \in Writing => op[t] \in Promise!Writes /\ t \in Writers
          /\ pc[t] \in {"stat", "read"} => op[t] = Promise!Query
          /\ pc[t] \in Holding => lock[Home[t]] = {t}

\* The two files: the one that is read is never half written, the other one is the open
\* file of the writer with the lock, or what it finished.
FilesInv ==
    /\ path.state \in {"missing", "whole"} /\ path.corpus \subseteq Chunks
    /\ \A t \in Threads :
          /\ pc[t] \in Changed => mem[t] = Promise!Result(op[t], path.corpus)
          /\ at[t] = IF pc[t] = "dump" THEN "temp" ELSE "none"
          /\ pc[t] = "swap" => temp = Whole(mem[t])

\* An entry under an mtime that holds is the corpus, unless a load is on its way.
CacheInv ==
    \A p \in Procs :
        cache[p].has /\ current[p] =>
            \/ cache[p].corpus = path.corpus
            \/ \E t \in Threads : Home[t] = p /\ pc[t] = "read"

StoreInv == TypeOK /\ Calls /\ FilesInv /\ CacheInv

-----------------------------------------------------------------------------
LEMMA CallKinds ==
    /\ Promise!Query \notin Promise!Writes /\ Promise!NoCall \notin Promise!Writes
    /\ Promise!Query # Promise!NoCall
BY DEF Promise!Query, Promise!Writes, Promise!NoCall

LEMMA Results ==
    ASSUME NEW w \in Promise!Writes, NEW c \in SUBSET Chunks
    PROVE  Promise!Result(w, c) \in SUBSET Chunks
BY DEF Promise!Writes, Promise!Result

LEMMA FileKinds ==
    /\ Missing \in Files /\ Torn \in Files
    /\ \A c \in SUBSET Chunks : Whole(c) \in Files /\ Whole(c).corpus = c /\ Whole(c).state = "whole"
                                  /\ Whole(c) # Missing
BY DEF Files, Missing, Torn, Whole

\* The writers share a lock, so that one of them at most has it.
LEMMA OneHolder ==
    ASSUME StoreInv, OneProcessWrites, NEW t \in Threads, NEW u \in Threads,
           pc[t] \in Writing, pc[u] \in Writing
    PROVE  t = u
BY DEF StoreInv, Calls, OneProcessWrites, Writing, Holding

LEMMA StoreInit == Init => StoreInv
<1> SUFFICES ASSUME Init PROVE StoreInv
  OBVIOUS
<1>1. TypeOK
  BY FileKinds DEF Init, TypeOK, Entries
<1>2. Calls
  BY DEF Init, Calls, Writing, Holding
<1>3. FilesInv
  BY DEF Init, FilesInv, Changed, Missing
<1>4. CacheInv
  BY DEF Init, CacheInv
<1> QED
  BY <1>1, <1>2, <1>3, <1>4 DEF StoreInv

-----------------------------------------------------------------------------
\* What a step leaves alone, in the terms of the promise.
Stutters == UNCHANGED <<path.corpus, op, seen>>

LEMMA BeginStep ==
    ASSUME StoreInv, NEW t \in Threads, Begin(t)
    PROVE  StoreInv' /\ Promise!Invoke(t)
<1> USE DEF StoreInv, Begin, Goto, fileVars, cacheVars
<1>0. PICK w \in {Promise!Query} \cup (IF t \in Writers THEN Promise!Writes ELSE {}) :
          op' = [op EXCEPT ![t] = w]
  OBVIOUS
<1>1. TypeOK'
  BY <1>0 DEF TypeOK
<1>2. Calls'
  BY <1>0 DEF TypeOK, Calls, Writing, Holding
<1>3. FilesInv'
  BY <1>0 DEF TypeOK, FilesInv, Changed
<1>4. CacheInv'
  BY DEF TypeOK, CacheInv
<1>5. Promise!Invoke(t)
  BY <1>0 DEF Promise!Invoke, Calls
<1> QED
  BY <1>1, <1>2, <1>3, <1>4, <1>5

LEMMA AcquireStep ==
    ASSUME StoreInv, NEW t \in Threads, Acquire(t)
    PROVE  StoreInv' /\ Stutters
<1> USE DEF StoreInv, Acquire, Goto, fileVars, cacheVars
<1>1. TypeOK'
  BY DEF TypeOK
<1>2. Calls'
  BY HomeAssumption, CallKinds DEF TypeOK, Calls, Writing, Holding
<1>3. FilesInv'
  BY DEF TypeOK, FilesInv, Changed
<1>4. CacheInv'
  BY DEF TypeOK, CacheInv
<1> QED
  BY <1>1, <1>2, <1>3, <1>4 DEF Stutters

\* The load of a write: the lock stays, unless nothing is to be removed.
LEMMA LoadStep ==
    ASSUME StoreInv, NEW t \in Threads, Load(t)
    PROVE  StoreInv' /\ (Stutters \/ Promise!Apply(t))
<1> USE DEF StoreInv, Load, Goto, fileVars, cacheVars
<1> DEFINE new == Promise!Result(op[t], path.corpus)
<1>0. /\ op[t] \in Promise!Writes /\ t \in Writers
      /\ lock[Home[t]] = {t} /\ path.corpus \in SUBSET Chunks
  BY DEF Calls, FilesInv, Writing, Holding
<1>1. new \in SUBSET Chunks
  BY <1>0, Results
<1>2. CASE op[t].kind = "remove" /\ new = path.corpus
  <2>0. Release(t) /\ UNCHANGED <<fileVars, cacheVars, seen>>
    BY <1>2
  <2>1. TypeOK'
    BY <2>0, HomeAssumption DEF TypeOK, Release
  <2>2. Calls'
    BY <2>0, <1>0, HomeAssumption DEF TypeOK, Calls, Writing, Holding, Release
  <2>3. FilesInv'
    BY <2>0 DEF TypeOK, FilesInv, Changed, Release
  <2>4. CacheInv'
    BY <2>0 DEF TypeOK, CacheInv, Release
  <2>5. Promise!Apply(t)
    BY <2>0, <1>0, <1>2 DEF Promise!Apply, Release
  <2> QED
    BY <2>1, <2>2, <2>3, <2>4, <2>5
<1>3. CASE ~(op[t].kind = "remove" /\ new = path.corpus)
  <2>0. /\ mem' = [mem EXCEPT ![t] = new] /\ Goto(t, "open")
        /\ UNCHANGED <<lock, op, fileVars, cacheVars, seen>>
    BY <1>3
  <2>1. TypeOK'
    BY <2>0, <1>1 DEF TypeOK
  <2>2. Calls'
    BY <2>0, <1>0 DEF TypeOK, Calls, Writing, Holding
  <2>3. FilesInv'
    BY <2>0 DEF TypeOK, FilesInv, Changed
  <2>4. CacheInv'
    BY <2>0 DEF TypeOK, CacheInv
  <2> QED
    BY <2>0, <2>1, <2>2, <2>3, <2>4 DEF Stutters
<1> QED
  BY <1>2, <1>3

\* The temporary file of the only writer is opened, which no one else has open.
LEMMA OpenStep ==
    ASSUME StoreInv, OneProcessWrites, NEW t \in Threads, Open(t)
    PROVE  StoreInv' /\ Stutters
<1> USE DEF StoreInv, Open, Goto, fileVars, cacheVars
<1>0. \A u \in Threads : pc[u] \in Writing => u = t
  BY OneHolder DEF Writing
<1>1. TypeOK'
  BY FileKinds DEF TypeOK
<1>2. Calls'
  BY DEF TypeOK, Calls, Writing, Holding
<1>3. FilesInv'
  BY <1>0 DEF TypeOK, FilesInv, Changed, Writing
<1>4. CacheInv'
  BY DEF TypeOK, CacheInv
<1> QED
  BY <1>1, <1>2, <1>3, <1>4 DEF Stutters

LEMMA DumpStep ==
    ASSUME StoreInv, OneProcessWrites, NEW t \in Threads, Dump(t)
    PROVE  StoreInv' /\ Stutters
<1> USE DEF StoreInv
<1>0. /\ at[t] = "temp" /\ pc[t] = "dump" /\ mem[t] \in SUBSET Chunks
  BY DEF Dump, FilesInv, TypeOK
<1>1. /\ temp' = Whole(mem[t]) /\ UNCHANGED <<path, current>>
      /\ at' = [at EXCEPT ![t] = "none"] /\ pc' = [pc EXCEPT ![t] = "swap"]
      /\ UNCHANGED <<lock, cache, op, mem, seen>>
  BY <1>0 DEF Dump, Goto
<1>2. \A u \in Threads : pc[u] \in Writing => u = t
  BY <1>0, OneHolder DEF Writing
<1>3. TypeOK'
  BY <1>0, <1>1, FileKinds DEF TypeOK
<1>4. Calls'
  BY <1>0, <1>1 DEF TypeOK, Calls, Writing, Holding
<1>5. FilesInv'
  BY <1>0, <1>1, <1>2 DEF TypeOK, FilesInv, Changed, Writing
<1>6. CacheInv'
  BY <1>0, <1>1 DEF TypeOK, CacheInv
<1> QED
  BY <1>1, <1>3, <1>4, <1>5, <1>6 DEF Stutters

LEMMA WriteFailsStep ==
    ASSUME StoreInv, NEW t \in Threads, WriteFails(t)
    PROVE  StoreInv' /\ Promise!Fail
<1> USE DEF StoreInv, WriteFails, Release, Goto, cacheVars
<1>0. lock[Home[t]] = {t}
  BY DEF Calls, Holding
<1>1. TypeOK'
  BY HomeAssumption DEF TypeOK
<1>2. Calls'
  BY <1>0, HomeAssumption DEF TypeOK, Calls, Writing, Holding
<1>3. FilesInv'
  BY DEF TypeOK, FilesInv, Changed
<1>4. CacheInv'
  BY DEF TypeOK, CacheInv
<1>5. Promise!Fail
  <2>1. op' = [u \in Threads |-> IF u \in {t} THEN Promise!NoCall ELSE op[u]]
    BY DEF TypeOK
  <2> QED
    BY <2>1 DEF Promise!Fail
<1> QED
  BY <1>1, <1>2, <1>3, <1>4, <1>5

\* What is swapped in is the corpus the writer loaded under the lock it still holds, with
\* its change: no one has written since.
LEMMA SwapStep ==
    ASSUME StoreInv, OneProcessWrites, NEW t \in Threads, Swap(t)
    PROVE  StoreInv' /\ Promise!Apply(t)
<1> USE DEF StoreInv
<1>0. /\ pc[t] = "swap" /\ temp = Whole(mem[t]) /\ mem[t] \in SUBSET Chunks
      /\ mem[t] = Promise!Result(op[t], path.corpus)
      /\ op[t] \in Promise!Writes /\ lock[Home[t]] = {t}
  BY DEF Swap, FilesInv, Calls, TypeOK, Changed, Writing, Holding
<1>1. \A u \in Threads : pc[u] \in Writing => u = t
  BY <1>0, OneHolder DEF Writing
<1>2. \A u \in Threads : at[u] = "none"
  BY <1>0, <1>1 DEF FilesInv, Writing
<1>3. /\ path' = Whole(mem[t]) /\ temp' = Missing /\ at' = [u \in Threads |-> "none"]
      /\ current' = [p \in Procs |-> FALSE]
      /\ cache' = [cache EXCEPT ![Home[t]] = NoEntry]
      /\ UNCHANGED seen
  BY <1>0, <1>2, FileKinds DEF Swap, Touch
<1>4. /\ pc' = [pc EXCEPT ![t] = "idle"] /\ op' = [op EXCEPT ![t] = Promise!NoCall]
      /\ mem' = [mem EXCEPT ![t] = {}] /\ lock' = [lock EXCEPT ![Home[t]] = {}]
  BY DEF Swap, Release, Goto
<1>5. TypeOK'
  BY <1>0, <1>3, <1>4, FileKinds, HomeAssumption DEF TypeOK, Entries
<1>6. Calls'
  BY <1>0, <1>4, HomeAssumption DEF TypeOK, Calls, Writing, Holding
<1>7. FilesInv'
  BY <1>0, <1>1, <1>3, <1>4, FileKinds DEF TypeOK, FilesInv, Changed, Writing
<1>8. CacheInv'
  BY <1>3 DEF CacheInv
<1>9. Promise!Apply(t)
  BY <1>0, <1>3, <1>4, FileKinds DEF Promise!Apply
<1> QED
  BY <1>5, <1>6, <1>7, <1>8, <1>9

\* An entry that is used is the corpus: the thread has the lock, so that no load of its
\* process is on its way.
LEMMA StatStep ==
    ASSUME StoreInv, NEW t \in Threads, Stat(t)
    PROVE  StoreInv' /\ (Stutters \/ Promise!Answer(t))
<1> USE DEF StoreInv, fileVars
<1> DEFINE p == Home[t]
<1>0. /\ pc[t] = "stat" /\ op[t] = Promise!Query /\ lock[p] = {t} /\ p \in Procs
      /\ UNCHANGED <<path, temp, at, cache>>
  BY HomeAssumption DEF Stat, Calls, Holding
<1>1. CASE cache[p].has /\ current[p]
  <2>0. /\ seen' = [seen EXCEPT ![t] = cache[p].corpus] /\ UNCHANGED current
        /\ pc' = [pc EXCEPT ![t] = "idle"] /\ op' = [op EXCEPT ![t] = Promise!NoCall]
        /\ mem' = [mem EXCEPT ![t] = {}] /\ lock' = [lock EXCEPT ![p] = {}]
    BY <1>1 DEF Stat, Release, Goto
  <2>1. cache[p].corpus = path.corpus
    BY <1>0, <1>1 DEF CacheInv, Calls, Holding
  <2>2. TypeOK'
    BY <1>0, <2>0, <2>1 DEF TypeOK, FilesInv
  <2>3. Calls'
    BY <1>0, <2>0, HomeAssumption DEF TypeOK, Calls, Writing, Holding
  <2>4. FilesInv'
    BY <1>0, <2>0 DEF TypeOK, FilesInv, Changed
  <2>5. CacheInv'
    BY <1>0, <2>0 DEF TypeOK, CacheInv
  <2>6. Promise!Answer(t)
    BY <1>0, <2>0, <2>1 DEF Promise!Answer
  <2> QED
    BY <2>2, <2>3, <2>4, <2>5, <2>6
<1>2. CASE ~(cache[p].has /\ current[p])
  <2>0. /\ current' = [current EXCEPT ![p] = TRUE] /\ pc' = [pc EXCEPT ![t] = "read"]
        /\ UNCHANGED <<seen, op, mem, lock>>
    BY <1>2 DEF Stat, Goto
  <2>1. TypeOK'
    BY <1>0, <2>0 DEF TypeOK
  <2>2. Calls'
    BY <1>0, <2>0 DEF TypeOK, Calls, Writing, Holding
  <2>3. FilesInv'
    BY <1>0, <2>0 DEF TypeOK, FilesInv, Changed
  <2>4. CacheInv'
    BY <1>0, <2>0 DEF TypeOK, CacheInv
  <2> QED
    BY <1>0, <2>0, <2>1, <2>2, <2>3, <2>4 DEF Stutters
<1> QED
  BY <1>1, <1>2

LEMMA ReadStep ==
    ASSUME StoreInv, NEW t \in Threads, Read(t)
    PROVE  StoreInv' /\ Promise!Answer(t)
<1> USE DEF StoreInv, fileVars
<1> DEFINE p == Home[t]
           entry == [has |-> TRUE, corpus |-> path.corpus]
<1>0. /\ pc[t] = "read" /\ op[t] = Promise!Query /\ lock[p] = {t} /\ p \in Procs
      /\ UNCHANGED <<path, temp, at, current>>
      /\ cache' = [cache EXCEPT ![p] = entry]
      /\ seen' = [seen EXCEPT ![t] = path.corpus]
      /\ pc' = [pc EXCEPT ![t] = "idle"] /\ op' = [op EXCEPT ![t] = Promise!NoCall]
      /\ mem' = [mem EXCEPT ![t] = {}] /\ lock' = [lock EXCEPT ![p] = {}]
  BY HomeAssumption DEF Read, Release, Goto, Calls, Holding
<1>1. path.corpus \in SUBSET Chunks /\ entry \in Entries
  BY DEF FilesInv, Entries
<1>2. TypeOK'
  BY <1>0, <1>1 DEF TypeOK
<1>3. Calls'
  BY <1>0, HomeAssumption DEF TypeOK, Calls, Writing, Holding
<1>4. FilesInv'
  BY <1>0 DEF TypeOK, FilesInv, Changed
<1>5. CacheInv'
  BY <1>0 DEF TypeOK, CacheInv
<1>6. Promise!Answer(t)
  BY <1>0 DEF Promise!Answer
<1> QED
  BY <1>2, <1>3, <1>4, <1>5, <1>6

LEMMA CrashStep ==
    ASSUME StoreInv, NEW p \in Procs, Crash(p)
    PROVE  StoreInv' /\ Promise!Fail
<1> USE DEF StoreInv, Crash
<1>1. TypeOK'
  BY DEF TypeOK, Entries
<1>2. Calls'
  BY HomeAssumption DEF TypeOK, Calls, Writing, Holding
<1>3. FilesInv'
  BY DEF TypeOK, FilesInv, Changed
<1>4. CacheInv'
  BY DEF TypeOK, CacheInv, NoEntry
<1>5. Promise!Fail
  BY DEF Promise!Fail
<1> QED
  BY <1>1, <1>2, <1>3, <1>4, <1>5

-----------------------------------------------------------------------------
\* Every step keeps the invariant and is a step of the promise, or none of its business.
LEMMA StoreNext ==
    ASSUME StoreInv, OneProcessWrites, [Next]_vars
    PROVE  StoreInv' /\ [Promise!Next]_(Promise!vars)
<1> USE DEF Stutters, Promise!Next, Promise!vars
<1>1. ASSUME NEW t \in Threads, Begin(t) PROVE StoreInv' /\ [Promise!Next]_(Promise!vars)
  BY <1>1, BeginStep
<1>2. ASSUME NEW t \in Threads, Acquire(t) PROVE StoreInv' /\ [Promise!Next]_(Promise!vars)
  BY <1>2, AcquireStep
<1>3. ASSUME NEW t \in Threads, Load(t) PROVE StoreInv' /\ [Promise!Next]_(Promise!vars)
  BY <1>3, LoadStep
<1>4. ASSUME NEW t \in Threads, Open(t) PROVE StoreInv' /\ [Promise!Next]_(Promise!vars)
  BY <1>4, OpenStep
<1>5. ASSUME NEW t \in Threads, Dump(t) PROVE StoreInv' /\ [Promise!Next]_(Promise!vars)
  BY <1>5, DumpStep
<1>6. ASSUME NEW t \in Threads, WriteFails(t) PROVE StoreInv' /\ [Promise!Next]_(Promise!vars)
  BY <1>6, WriteFailsStep
<1>7. ASSUME NEW t \in Threads, Swap(t) PROVE StoreInv' /\ [Promise!Next]_(Promise!vars)
  BY <1>7, SwapStep
<1>8. ASSUME NEW t \in Threads, Stat(t) PROVE StoreInv' /\ [Promise!Next]_(Promise!vars)
  BY <1>8, StatStep
<1>9. ASSUME NEW t \in Threads, Read(t) PROVE StoreInv' /\ [Promise!Next]_(Promise!vars)
  BY <1>9, ReadStep
<1>10. ASSUME NEW p \in Procs, Crash(p) PROVE StoreInv' /\ [Promise!Next]_(Promise!vars)
  BY <1>10, CrashStep
<1>11. CASE UNCHANGED vars
  BY <1>11 DEF StoreInv, TypeOK, Calls, FilesInv, CacheInv,
               vars, fileVars, cacheVars, threadVars
<1> QED
  BY <1>1, <1>2, <1>3, <1>4, <1>5, <1>6, <1>7, <1>8, <1>9, <1>10, <1>11 DEF Next

LEMMA StoreInvariant ==
    ASSUME OneProcessWrites
    PROVE  Spec => []StoreInv
<1>1. StoreInv /\ [Next]_vars => StoreInv'
  BY StoreNext
<1> QED
  BY <1>1, StoreInit, PTL DEF Spec

-----------------------------------------------------------------------------
(* What needs no hypothesis on the writers: the types, and who is where.    *)

\* A corpus on disk is one of the user's chunks, whatever is swapped in.
LEMMA FileCorpus ==
    ASSUME TypeOK
    PROVE  path.corpus \in SUBSET Chunks
BY DEF TypeOK, Files, Missing, Torn, Whole

LEMMA EntryKinds ==
    /\ NoEntry \in Entries
    /\ \A c \in SUBSET Chunks : [has |-> TRUE, corpus |-> c] \in Entries
    /\ \A e \in Entries : e.corpus \in SUBSET Chunks
<1>1. NoEntry \in Entries /\ NoEntry.corpus \in SUBSET Chunks
  BY DEF Entries, NoEntry
<1>2. \A c \in SUBSET Chunks : [has |-> TRUE, corpus |-> c] \in Entries
  BY DEF Entries
<1>3. \A e \in [has : {TRUE}, corpus : SUBSET Chunks] : e.corpus \in SUBSET Chunks
  OBVIOUS
<1> QED
  BY <1>1, <1>2, <1>3 DEF Entries

LEMMA LoadTyped ==
    ASSUME TypeOK, Calls, NEW t \in Threads, Load(t)
    PROVE  TypeOK' /\ Calls'
<1> DEFINE new == Promise!Result(op[t], path.corpus)
<1>0. /\ op[t] \in Promise!Writes /\ t \in Writers /\ pc[t] = "load"
      /\ lock[Home[t]] = {t} /\ new \in SUBSET Chunks
      /\ UNCHANGED <<fileVars, cacheVars, seen>>
  BY FileCorpus, Results DEF Load, Calls, Writing, Holding
<1>1. CASE Release(t)
  <2>1. TypeOK'
    BY <1>0, <1>1, HomeAssumption DEF TypeOK, Release, Goto, fileVars, cacheVars
  <2>2. Calls'
    BY <1>0, <1>1, HomeAssumption DEF TypeOK, Calls, Writing, Holding, Release, Goto
  <2> QED
    BY <2>1, <2>2
<1>2. CASE mem' = [mem EXCEPT ![t] = new] /\ Goto(t, "open") /\ UNCHANGED <<lock, op>>
  <2> HIDE DEF new
  <2>1. TypeOK'
    BY <1>0, <1>2 DEF TypeOK, Goto, fileVars, cacheVars
  <2>2. Calls'
    BY <1>0, <1>2 DEF TypeOK, Calls, Writing, Holding, Goto
  <2> QED
    BY <2>1, <2>2
<1> QED
  BY <1>1, <1>2 DEF Load

\* A writer writes into the file it opened, wherever another one has moved it.
LEMMA DumpTyped ==
    ASSUME TypeOK, Calls, NEW t \in Threads, Dump(t)
    PROVE  TypeOK' /\ Calls'
<1>1. /\ pc[t] = "dump" /\ pc' = [pc EXCEPT ![t] = "swap"]
      /\ at' = [at EXCEPT ![t] = "none"] /\ UNCHANGED <<lock, cache, op, mem, seen>>
  BY DEF Dump, Goto
<1>2. Whole(mem[t]) \in Files
  BY FileKinds DEF TypeOK
<1>3. path' \in Files /\ temp' \in Files /\ current' \in [Procs -> BOOLEAN]
  BY <1>2 DEF Dump, Touch, TypeOK
<1>4. TypeOK'
  BY <1>1, <1>3 DEF TypeOK
<1>5. Calls'
  BY <1>1 DEF TypeOK, Calls, Writing, Holding
<1> QED
  BY <1>4, <1>5

LEMMA SwapTyped ==
    ASSUME TypeOK, Calls, NEW t \in Threads, Swap(t)
    PROVE  TypeOK' /\ Calls'
<1>1. /\ pc[t] = "swap" /\ op[t] \in Promise!Writes /\ lock[Home[t]] = {t}
      /\ Release(t) /\ UNCHANGED seen
  BY DEF Swap, Calls, Writing, Holding
<1>2. /\ path' \in Files /\ temp' \in Files
      /\ at' \in [Threads -> {"none", "temp", "path", "gone"}]
  <2>1. CASE temp = Missing
    BY <2>1 DEF Swap, TypeOK, fileVars
  <2>2. CASE temp # Missing
    BY <2>2, FileKinds DEF Swap, TypeOK
  <2> QED
    BY <2>1, <2>2
<1>3. cache' \in [Procs -> Entries] /\ current' \in [Procs -> BOOLEAN]
  <2>1. CASE temp = Missing
    BY <2>1 DEF Swap, TypeOK, cacheVars
  <2>2. CASE temp # Missing
    <3>1. /\ cache' = [cache EXCEPT ![Home[t]] = NoEntry]
          /\ current' = [p \in Procs |-> FALSE]
      BY <2>2 DEF Swap, Touch
    <3> QED
      BY <3>1, EntryKinds DEF TypeOK
  <2> QED
    BY <2>1, <2>2
<1>4. TypeOK'
  BY <1>1, <1>2, <1>3, HomeAssumption DEF TypeOK, Release, Goto
<1>5. Calls'
  BY <1>1, HomeAssumption DEF TypeOK, Calls, Writing, Holding, Release, Goto
<1> QED
  BY <1>4, <1>5

LEMMA WriteFailsTyped ==
    ASSUME TypeOK, Calls, NEW t \in Threads, WriteFails(t)
    PROVE  TypeOK' /\ Calls'
<1> USE DEF WriteFails, Release, Goto
<1>0. lock[Home[t]] = {t}
  BY DEF Calls, Holding
<1>1. TypeOK'
  BY HomeAssumption DEF TypeOK, cacheVars
<1>2. Calls'
  BY <1>0, HomeAssumption DEF TypeOK, Calls, Writing, Holding
<1> QED
  BY <1>1, <1>2

\* The steps of a query, which writes no file.
LEMMA QueryTyped ==
    ASSUME TypeOK, Calls, NEW t \in Threads, Stat(t) \/ Read(t)
    PROVE  TypeOK' /\ Calls'
<1>0. /\ pc[t] \in {"stat", "read"} /\ op[t] = Promise!Query /\ lock[Home[t]] = {t}
      /\ Home[t] \in Procs /\ UNCHANGED <<path, temp, at>> /\ path.corpus \in SUBSET Chunks
  BY HomeAssumption, FileCorpus DEF Stat, Read, Calls, Holding, fileVars
<1>1. cache[Home[t]].corpus \in SUBSET Chunks
  BY <1>0, EntryKinds DEF TypeOK
<1>2. CASE Release(t)
  <2>1. seen' \in [Threads -> SUBSET Chunks]
    BY <1>0, <1>1, <1>2 DEF Stat, Read, TypeOK
  <2>2. cache' \in [Procs -> Entries] /\ current' \in [Procs -> BOOLEAN]
    <3>1. CASE Stat(t)
      BY <1>0, <3>1 DEF Stat, TypeOK
    <3>2. CASE Read(t)
      <4> DEFINE entry == [has |-> TRUE, corpus |-> path.corpus]
      <4>1. entry \in Entries
        BY <1>0, EntryKinds
      <4>2. cache' = [cache EXCEPT ![Home[t]] = entry] /\ UNCHANGED current
        BY <3>2 DEF Read
      <4> HIDE DEF entry
      <4> QED
        BY <4>1, <4>2 DEF TypeOK
    <3> QED
      BY <3>1, <3>2
  <2>3. TypeOK'
    BY <1>0, <1>2, <2>1, <2>2 DEF TypeOK, Release, Goto
  <2>4. Calls'
    BY <1>0, <1>2, HomeAssumption DEF TypeOK, Calls, Writing, Holding, Release, Goto
  <2> QED
    BY <2>3, <2>4
<1>3. CASE /\ current' = [current EXCEPT ![Home[t]] = TRUE] /\ pc' = [pc EXCEPT ![t] = "read"]
           /\ UNCHANGED <<seen, op, mem, lock, cache>>
  <2>1. TypeOK'
    BY <1>0, <1>3 DEF TypeOK
  <2>2. Calls'
    BY <1>0, <1>3 DEF TypeOK, Calls, Writing, Holding
  <2> QED
    BY <2>1, <2>2
<1> QED
  BY <1>2, <1>3 DEF Stat, Read, Goto

LEMMA TypedNext ==
    ASSUME TypeOK, Calls, [Next]_vars
    PROVE  TypeOK' /\ Calls'
<1>1. ASSUME NEW t \in Threads, Begin(t) PROVE TypeOK' /\ Calls'
  BY <1>1 DEF TypeOK, Calls, Begin, Goto, fileVars, cacheVars, Writing, Holding
<1>2. ASSUME NEW t \in Threads, Acquire(t) PROVE TypeOK' /\ Calls'
  BY <1>2, HomeAssumption, CallKinds
  DEF TypeOK, Calls, Acquire, Goto, fileVars, cacheVars, Writing, Holding
<1>3. ASSUME NEW t \in Threads, Open(t) PROVE TypeOK' /\ Calls'
  BY <1>3, FileKinds DEF TypeOK, Calls, Open, Goto, cacheVars, Writing, Holding
<1>4. ASSUME NEW t \in Threads,
             \/ Load(t) \/ Dump(t) \/ WriteFails(t) \/ Swap(t) \/ Stat(t) \/ Read(t)
      PROVE  TypeOK' /\ Calls'
  BY <1>4, LoadTyped, DumpTyped, WriteFailsTyped, SwapTyped, QueryTyped
<1>5. ASSUME NEW p \in Procs, Crash(p) PROVE TypeOK' /\ Calls'
  <2>1. TypeOK'
    BY <1>5 DEF TypeOK, Crash, Entries
  <2>2. Calls'
    BY <1>5, HomeAssumption DEF TypeOK, Calls, Crash, Writing, Holding
  <2> QED
    BY <2>1, <2>2
<1>6. CASE UNCHANGED vars
  BY <1>6 DEF TypeOK, Calls, vars, fileVars, cacheVars, threadVars
<1> QED
  BY <1>1, <1>2, <1>3, <1>4, <1>5, <1>6 DEF Next

\* The state of the index keeps its types, and a thread past "wait" holds its process's
\* lock, in however many processes there are writers (BM25Index).
THEOREM StoreTypeCorrect == Spec => []TypeOK
<1>1. Init => TypeOK /\ Calls
  BY StoreInit DEF StoreInv
<1>2. TypeOK /\ Calls /\ [Next]_vars => (TypeOK /\ Calls)'
  BY TypedNext
<1> QED
  BY <1>1, <1>2, PTL DEF Spec

\* When all writers share a process, the file that is read is never half written
\* (_save_corpus), whatever the readers of other processes and the crashes do.
THEOREM FileIsWhole ==
    ASSUME OneProcessWrites
    PROVE  Spec => []NeverHalfWritten
<1>1. StoreInv => NeverHalfWritten
  BY DEF StoreInv, FilesInv, NeverHalfWritten
<1> QED
  BY <1>1, StoreInvariant, PTL

\* When all writers share a process, a cache entry whose mtime holds is the corpus of the
\* file, in every process (_load_corpus_cached).
THEOREM CacheIsSound ==
    ASSUME OneProcessWrites
    PROVE  Spec => []CacheSound
<1>1. StoreInv => CacheSound
  BY DEF StoreInv, CacheInv, Calls, Holding, CacheSound
<1> QED
  BY <1>1, StoreInvariant, PTL

\* When all writers share a process, the store implements LexicalCorpus: each call takes
\* effect at once or not at all, and each query is answered from the corpus as it is
\* (upsert_many, delete, delete_chunks, query).
THEOREM PromiseIsKept ==
    ASSUME OneProcessWrites
    PROVE  Spec => KeepsPromise
<1>1. Init => Promise!Init
  BY DEF Init, Promise!Init, Missing
<1>2. StoreInv /\ [Next]_vars => [Promise!Next]_(Promise!vars)
  BY StoreNext
<1> QED
  BY <1>1, <1>2, StoreInvariant, PTL DEF Spec, KeepsPromise, Promise!Spec

=============================================================================
