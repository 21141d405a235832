---------------------------- MODULE VectorRegistry ----------------------------
(***************************************************************************)
(* The clients of the vector backends (core/vector_registry.py): one per   *)
(* backend and process, built on first use under a lock that is looked     *)
(* past when the client is there, and asked for by the threads that serve  *)
(* a user's reads (get_read_chroma).  The tracer of observability is built *)
(* in the same way.                                                        *)
(***************************************************************************)
EXTENDS Integers, FiniteSets

CONSTANTS
    Backends,       \* pgvector, pinecone, chroma
    Default,        \* vector_backend
    Threads,        \* the threads that serve reads
    MaxBuilds       \* bound: how many clients are ever built

NotBuilt == 0

\* Who holds a lock that nobody holds.
Free == "free"

ASSUME RegistryAssumption ==
    Default \in Backends /\ MaxBuilds \in Nat /\ Free \notin Threads

VARIABLES
    clients,    \* the cached client of each backend, by the number of its build
    builds,     \* how many clients were built
    lock,       \* the thread that holds the lock, or Free
    reader      \* each thread: where it is, what it still wants, what it has

registryVars == <<clients, builds, lock, reader>>

-----------------------------------------------------------------------------
Readers == [at : {"start", "look", "wait", "locked", "build", "routed", "fallback"},
            wants : SUBSET Backends, has : [Backends -> 0 .. MaxBuilds]]

RegistryTypeOK ==
    /\ clients \in [Backends -> 0 .. MaxBuilds]
    /\ builds \in 0 .. MaxBuilds
    /\ lock \in Threads \cup {Free}
    /\ reader \in [Threads -> Readers]

RegistryInit ==
    /\ clients = [b \in Backends |-> NotBuilt]
    /\ builds = 0 /\ lock = Free
    /\ reader = [t \in Threads |-> [at |-> "start", wants |-> {},
                                    has |-> [b \in Backends |-> NotBuilt]]]

\* The backend a thread wants next: they are sorted.
Next1(t) == CHOOSE b \in reader[t].wants : TRUE

\* Where a thread goes that has everything it wants but b.
After(t, b) == IF reader[t].wants = {b} THEN "routed" ELSE "look"

-----------------------------------------------------------------------------
\* The backends of the user's ready documents; when that is the default one, or none,
\* the process-wide client is used.
Resolve(t) ==
    /\ reader[t].at = "start"
    /\ \E found \in SUBSET Backends :
          reader' = [reader EXCEPT ![t] =
                        [at |-> IF found \subseteq {Default} THEN "routed" ELSE "look",
                         wants |-> IF found \subseteq {Default} THEN {} ELSE found,
                         has |-> reader[t].has]]
    /\ UNCHANGED <<clients, builds, lock>>

Take(t, b, client) ==
    reader' = [reader EXCEPT ![t] = [at |-> After(t, b), wants |-> reader[t].wants \ {b},
                                     has |-> [reader[t].has EXCEPT ![b] = client]]]

\* get_client: the look without the lock.
LookUp(t) ==
    /\ reader[t].at = "look"
    /\ LET b == Next1(t)
       IN  IF clients[b] # NotBuilt THEN Take(t, b, clients[b])
           ELSE reader' = [reader EXCEPT ![t].at = "wait"]
    /\ UNCHANGED <<clients, builds, lock>>

AcquireLock(t) ==
    /\ reader[t].at = "wait" /\ lock = Free
    /\ lock' = t
    /\ reader' = [reader EXCEPT ![t].at = "locked"]
    /\ UNCHANGED <<clients, builds>>

\* Fault: with the lock held, the client is built without a second look.
BuildAtOnce(t) ==
    /\ reader[t].at = "locked"
    /\ reader' = [reader EXCEPT ![t].at = "build"]
    /\ UNCHANGED <<clients, builds, lock>>

\* The second look, with the lock held.
LookAgain(t) ==
    /\ reader[t].at = "locked"
    /\ LET b == Next1(t)
       IN  IF clients[b] # NotBuilt
           THEN Take(t, b, clients[b]) /\ lock' = Free
           ELSE reader' = [reader EXCEPT ![t].at = "build"] /\ UNCHANGED lock
    /\ UNCHANGED <<clients, builds>>

\* The client is built, cached and handed out, and the lock released.
Build(t) ==
    /\ reader[t].at = "build" /\ builds < MaxBuilds
    /\ builds' = builds + 1
    /\ clients' = [clients EXCEPT ![Next1(t)] = builds']
    /\ Take(t, Next1(t), builds')
    /\ lock' = Free

\* A client that cannot be built releases the lock, and the read falls back to the
\* process-wide client.
BuildFails(t) ==
    /\ reader[t].at = "build"
    /\ reader' = [reader EXCEPT ![t].at = "fallback", ![t].wants = {}]
    /\ lock' = Free
    /\ UNCHANGED <<clients, builds>>

\* The read is served, and the thread takes another.
NextRead(t) ==
    /\ reader[t].at \in {"routed", "fallback"}
    /\ reader' = [reader EXCEPT ![t].at = "start",
                                ![t].has = [b \in Backends |-> NotBuilt]]
    /\ UNCHANGED <<clients, builds, lock>>

RegistryNext ==
    \E t \in Threads : \/ Resolve(t) \/ LookUp(t) \/ AcquireLock(t) \/ LookAgain(t)
                       \/ Build(t) \/ BuildFails(t) \/ NextRead(t)

RegistrySpec == RegistryInit /\ [][RegistryNext]_registryVars

-----------------------------------------------------------------------------
(* Properties.                                                             *)

\* Threads that ask for a backend at the same time get the same client of it, whether or
\* not they found it cached, and a failed build leaves no lock behind (get_client).
OneClientPerBackend ==
    /\ \A t \in Threads, b \in Backends :
          reader[t].has[b] # NotBuilt => reader[t].has[b] = clients[b]
    /\ \A t \in Threads : lock = t <=> reader[t].at \in {"locked", "build"}

=============================================================================
