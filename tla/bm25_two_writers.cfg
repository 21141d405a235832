\* The worker indexes a document while the web process deletes another one: two
\* processes write, each under a lock of its own.
CONSTANTS
    c1 = c1
    c2 = c2
    Chunks = {c1, c2}
    worker = worker
    web = web
    t1 = t1
    t2 = t2
    t3 = t3
    Procs = {worker, web}
    Threads = {t1, t2, t3}
    Home <- MCHome
    Writers = {t1, t3}
SPECIFICATION Spec
INVARIANTS
    NeverHalfWritten
