\* Two threads of the worker write and query, the web process queries; either process
\* may die at any moment.
CONSTANTS
    c1 = c1
    c2 = c2
    Chunks = {c1, c2}
    worker = worker
    web = web
    t1 = t1
    t2 = t2
    t3 = t3
    Procs = {worker, web}
    Threads = {t1, t2, t3}
    Home <- MCHome
    Writers = {t1, t2}
SYMMETRY ChunkSymmetry
SPECIFICATION Spec
INVARIANTS
    TypeOK
    NeverHalfWritten
    CacheSound
PROPERTIES
    KeepsPromise
