------------------------------ MODULE BM25Store ------------------------------
(***************************************************************************)
(* The lexical index of one user: a pickle file that the web process and   *)
(* the worker both load, change and swap, each under a lock that only its  *)
(* own threads see, with a read cache per process keyed by the file's      *)
(* mtime.  Tokens and scores are left out: a corpus is its set of chunks.  *)
(***************************************************************************)
EXTENDS FiniteSets

CONSTANTS
    Chunks,     \* the chunks of the user's documents
    Procs,      \* the processes that hold a BM25Index
    Threads,    \* their threads
    Home,       \* the process each thread belongs to
    Writers     \* the threads that call upsert_many, delete or delete_chunks

ASSUME HomeAssumption == Home \in [Threads -> Procs] /\ Writers \subseteq Threads

VARIABLES
    path,       \* the file bm25_<user>.pkl
    temp,       \* the file bm25_<user>.pkl.tmp, one name for all writers
    at,         \* the file each thread holds open for writing
    lock,       \* _lock of each process: {} or the thread that holds it
    cache,      \* _cache of each process
    current,    \* does the mtime each process last looked at still hold?
    pc,         \* where each thread is
    op,         \* the call it executes
    mem,        \* the corpus it has loaded and changed
    seen        \* the corpus its last call, if a query, was answered from

fileVars   == <<path, temp, at>>
cacheVars  == <<cache, current>>
threadVars == <<pc, op, mem, seen>>
vars == <<fileVars, lock, cacheVars, threadVars>>

\* The calls of BM25Index, what a write makes of a corpus, and its promise.
Promise == INSTANCE LexicalCorpus WITH corpus <- path.corpus, call <- op, seen <- seen

-----------------------------------------------------------------------------
\* A file is missing, half written, or a whole pickle; its corpus is what
\* _load_corpus makes of it, so that only a whole file has one.
Missing  == [state |-> "missing", corpus |-> {}]
Torn     == [state |-> "torn", corpus |-> {}]
Whole(c) == [state |-> "whole", corpus |-> c]
Files    == {Missing, Torn} \cup {Whole(c) : c \in SUBSET Chunks}

NoEntry  == [has |-> FALSE, corpus |-> {}]
Entries  == {NoEntry} \cup [has : {TRUE}, corpus : SUBSET Chunks]

TypeOK ==
    /\ path \in Files /\ temp \in Files
    /\ at \in [Threads -> {"none", "temp", "path", "gone"}]
    /\ lock \in [Procs -> {{}} \cup {{t} : t \in Threads}]
    /\ cache \in [Procs -> Entries] /\ current \in [Procs -> BOOLEAN]
    /\ pc \in [Threads -> {"idle", "wait", "load", "open", "dump", "swap", "stat", "read"}]
    /\ op \in [Threads -> Promise!Writes \cup {Promise!Query, Promise!NoCall}]
    /\ mem \in [Threads -> SUBSET Chunks] /\ seen \in [Threads -> SUBSET Chunks]

Init ==
    /\ path = Missing /\ temp = Missing
    /\ at = [t \in Threads |-> "none"]
    /\ lock = [p \in Procs |-> {}]
    /\ cache = [p \in Procs |-> NoEntry] /\ current = [p \in Procs |-> FALSE]
    /\ pc = [t \in Threads |-> "idle"]
    /\ op = [t \in Threads |-> Promise!NoCall]
    /\ mem = [t \in Threads |-> {}] /\ seen = [t \in Threads |-> {}]

-----------------------------------------------------------------------------
Goto(t, label) == pc' = [pc EXCEPT ![t] = label]

\* The call ends, by a return or an exception: the with statement frees the lock.
Release(t) ==
    /\ Goto(t, "idle")
    /\ op' = [op EXCEPT ![t] = Promise!NoCall]
    /\ mem' = [mem EXCEPT ![t] = {}]
    /\ lock' = [lock EXCEPT ![Home[t]] = {}]

\* The file at path becomes another one: no mtime that was looked at holds.
Touch == current' = [p \in Procs |-> FALSE]

\* A call begins; the ones without items return before they take the lock.
Begin(t) ==
    /\ pc[t] = "idle"
    /\ \E w \in {Promise!Query} \cup (IF t \in Writers THEN Promise!Writes ELSE {}) :
          op' = [op EXCEPT ![t] = w]
    /\ Goto(t, "wait")
    /\ seen' = [seen EXCEPT ![t] = {}]
    /\ UNCHANGED <<fileVars, lock, cacheVars, mem>>

\* Fault: the lock is not waited for.
AcquireAnyway(t) ==
    /\ pc[t] = "wait"
    /\ lock' = [lock EXCEPT ![Home[t]] = @ \cup {t}]
    /\ Goto(t, IF op[t] = Promise!Query THEN "stat" ELSE "load")
    /\ UNCHANGED <<fileVars, cacheVars, op, mem, seen>>

Acquire(t) ==
    /\ pc[t] = "wait" /\ lock[Home[t]] = {}
    /\ lock' = [lock EXCEPT ![Home[t]] = {t}]
    /\ Goto(t, IF op[t] = Promise!Query THEN "stat" ELSE "load")
    /\ UNCHANGED <<fileVars, cacheVars, op, mem, seen>>

\* A write loads the corpus and changes it in memory.  A missing or unreadable file
\* counts as empty; a removal that removes nothing saves nothing.
Load(t) ==
    LET new == Promise!Result(op[t], path.corpus)
    IN  /\ pc[t] = "load"
        /\ IF op[t].kind = "remove" /\ new = path.corpus
           THEN Release(t)
           ELSE /\ mem' = [mem EXCEPT ![t] = new] /\ Goto(t, "open")
                /\ UNCHANGED <<lock, op>>
        /\ UNCHANGED <<fileVars, cacheVars, seen>>

\* Fault: the corpus is written in place.
OpenInPlace(t) ==
    /\ pc[t] = "open"
    /\ path' = Torn /\ at' = [at EXCEPT ![t] = "path"] /\ Touch
    /\ Goto(t, "dump")
    /\ UNCHANGED <<temp, lock, cache, op, mem, seen>>

\* open(tmp, "wb") truncates the file another writer may have under this name.
Open(t) ==
    /\ pc[t] = "open"
    /\ temp' = Torn /\ at' = [at EXCEPT ![t] = "temp"]
    /\ Goto(t, "dump")
    /\ UNCHANGED <<path, lock, cacheVars, op, mem, seen>>

\* The pickle reaches the file that was opened, wherever that is by now; a load stops
\* at the pickle's end and so ignores what a longer one left behind.
Dump(t) ==
    /\ pc[t] = "dump"
    /\ IF at[t] = "temp" THEN temp' = Whole(mem[t]) ELSE UNCHANGED temp
    /\ IF at[t] = "path" THEN path' = Whole(mem[t]) /\ Touch ELSE UNCHANGED <<path, current>>
    /\ at' = [at EXCEPT ![t] = "none"]
    /\ Goto(t, "swap")
    /\ UNCHANGED <<lock, cache, op, mem, seen>>

\* The disk is full or the directory is gone: the exception goes to the caller, which
\* swallows it, and the half-written file stays under its name.
WriteFails(t) ==
    /\ pc[t] \in {"open", "dump"}
    /\ at' = [at EXCEPT ![t] = "none"]
    /\ Release(t)
    /\ UNCHANGED <<path, temp, cacheVars, seen>>

\* os.replace moves the file, and with it those who hold it open, and fails when the
\* name is gone.  The writer's process forgets its cache entry.
Swap(t) ==
    /\ pc[t] = "swap"
    /\ IF temp = Missing
       THEN UNCHANGED <<fileVars, cacheVars>>
       ELSE /\ path' = temp /\ temp' = Missing
            /\ at' = [u \in Threads |-> IF at[u] = "temp" THEN "path"
                                        ELSE IF at[u] = "path" THEN "gone" ELSE at[u]]
            /\ Touch
            /\ cache' = [cache EXCEPT ![Home[t]] = NoEntry]
    /\ Release(t)
    /\ UNCHANGED seen

\* Fault: whatever is cached is used.
StatIgnored(t) ==
    LET p == Home[t]
    IN  /\ pc[t] = "stat"
        /\ IF cache[p].has
           THEN seen' = [seen EXCEPT ![t] = cache[p].corpus] /\ Release(t) /\ UNCHANGED current
           ELSE /\ current' = [current EXCEPT ![p] = TRUE] /\ Goto(t, "read")
                /\ UNCHANGED <<seen, op, mem, lock>>
        /\ UNCHANGED <<fileVars, cache>>

\* A query looks at the mtime first: an entry loaded under it is used as it is.
Stat(t) ==
    LET p == Home[t]
    IN  /\ pc[t] = "stat"
        /\ IF cache[p].has /\ current[p]
           THEN seen' = [seen EXCEPT ![t] = cache[p].corpus] /\ Release(t) /\ UNCHANGED current
           ELSE /\ current' = [current EXCEPT ![p] = TRUE] /\ Goto(t, "read")
                /\ UNCHANGED <<seen, op, mem, lock>>
        /\ UNCHANGED <<fileVars, cache>>

\* Fault: an outdated entry is given the new mtime and kept.
RefreshMtime(t) ==
    LET p == Home[t]
    IN  /\ pc[t] = "read"
        /\ cache' = [cache EXCEPT ![p] =
                        IF @.has THEN @ ELSE [has |-> TRUE, corpus |-> path.corpus]]
        /\ seen' = [seen EXCEPT ![t] = cache'[p].corpus]
        /\ Release(t)
        /\ UNCHANGED <<fileVars, current>>

\* The load of a query that found no entry; the corpus it got is scored as it is.
Read(t) ==
    /\ pc[t] = "read"
    /\ cache' = [cache EXCEPT ![Home[t]] = [has |-> TRUE, corpus |-> path.corpus]]
    /\ seen' = [seen EXCEPT ![t] = path.corpus]
    /\ Release(t)
    /\ UNCHANGED <<fileVars, current>>

\* A process dies and is started again, with a free lock and an empty cache.
Crash(p) ==
    LET mine == {t \in Threads : Home[t] = p}
    IN  /\ pc' = [t \in Threads |-> IF t \in mine THEN "idle" ELSE pc[t]]
        /\ op' = [t \in Threads |-> IF t \in mine THEN Promise!NoCall ELSE op[t]]
        /\ mem' = [t \in Threads |-> IF t \in mine THEN {} ELSE mem[t]]
        /\ at' = [t \in Threads |-> IF t \in mine THEN "none" ELSE at[t]]
        /\ lock' = [lock EXCEPT ![p] = {}]
        /\ cache' = [cache EXCEPT ![p] = NoEntry]
        /\ current' = [current EXCEPT ![p] = FALSE]
        /\ UNCHANGED <<path, temp, seen>>

Next ==
    \/ \E t \in Threads :
          \/ Begin(t) \/ Acquire(t)
          \/ Load(t) \/ Open(t) \/ Dump(t) \/ WriteFails(t) \/ Swap(t)
          \/ Stat(t) \/ Read(t)
    \/ \E p \in Procs : Crash(p)

Spec == Init /\ [][Next]_vars

-----------------------------------------------------------------------------
(* Properties.                                                             *)

\* As long as all writers share a process and so a lock, the index keeps its promise:
\* no update is lost, and no query is answered from an outdated cache (bm25_index.py).
KeepsPromise == Promise!Spec

\* The swap of a finished file is atomic, so that a reader never finds the file half
\* written, which _load_corpus would take for an empty corpus (_save_corpus).
NeverHalfWritten == path.state # "torn"

\* A cache entry whose mtime still holds is the corpus of the file: a write by another
\* process between the stat and the load never leaves an old corpus under a new mtime.
CacheSound ==
    \A p \in Procs :
        lock[p] = {} /\ cache[p].has /\ current[p] => cache[p].corpus = path.corpus

=============================================================================
