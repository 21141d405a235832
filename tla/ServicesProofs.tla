---------------------------- MODULE ServicesProofs ----------------------------
(***************************************************************************)
(* Proofs about the vector registry, for every set of backends and of      *)
(* threads, about the tracing of requests, for every set of requests and   *)
(* every bound, about what is said of an answer, for every vocabulary,     *)
(* about the vector stores, for every set of chunks and every limit, and   *)
(* about the services together, which share no state: the agent, the chat  *)
(* sessions and the accounts have modules of their own.                    *)
(***************************************************************************)
EXTENDS MCServices, AgentLoopProofs, UsersProofs, FunctionProofs,
        SequenceTheorems, TLAPS

-----------------------------------------------------------------------------
(* The vector registry.                                                    *)

Inside == {"look", "wait", "locked", "build"}

\* A thread that asks for a client wants one, and the one that builds a client holds the
\* lock and builds what is not there.
Asking ==
    \A t \in Threads :
        /\ reader[t].at \in Inside => reader[t].wants # {}
        /\ reader[t].at = "build" => clients[Next1(t)] = NotBuilt

RegistryInv == RegistryTypeOK /\ OneClientPerBackend /\ Asking

LEMMA NextWanted ==
    ASSUME RegistryTypeOK, NEW t \in Threads, reader[t].wants # {}
    PROVE  Next1(t) \in reader[t].wants /\ Next1(t) \in Backends
BY DEF RegistryTypeOK, Readers, Next1

\* What a thread holds after it took a client of the backend it wanted next.
LEMMA TakeFacts ==
    ASSUME RegistryTypeOK, NEW t \in Threads, reader[t].wants # {},
           NEW c \in 0 .. MaxBuilds, Take(t, Next1(t), c)
    PROVE  /\ reader' \in [Threads -> Readers]
           /\ \A u \in Threads \ {t} : reader'[u] = reader[u]
           /\ reader'[t].at \in {"routed", "look"}
           /\ reader'[t].at = "look" => reader'[t].wants # {}
           /\ \A b \in Backends : reader'[t].has[b] =
                 IF b = Next1(t) THEN c ELSE reader[t].has[b]
<1>1. Next1(t) \in reader[t].wants /\ Next1(t) \in Backends
  BY NextWanted
<1>2. reader[t] \in Readers
  BY DEF RegistryTypeOK
<1>3. /\ After(t, Next1(t)) \in {"routed", "look"}
      /\ After(t, Next1(t)) = "look" => reader[t].wants # {Next1(t)}
  BY DEF After
<1>4. [reader[t].has EXCEPT ![Next1(t)] = c] \in [Backends -> 0 .. MaxBuilds]
  BY <1>2 DEF Readers
<1>5. \A b \in Backends : [reader[t].has EXCEPT ![Next1(t)] = c][b] =
                              IF b = Next1(t) THEN c ELSE reader[t].has[b]
  BY <1>2 DEF Readers
<1>6. reader[t].wants \ {Next1(t)} \in SUBSET Backends
  BY <1>2 DEF Readers
<1> DEFINE has == [reader[t].has EXCEPT ![Next1(t)] = c]
           wants == reader[t].wants \ {Next1(t)}
           after == After(t, Next1(t))
<1>7. reader' = [reader EXCEPT ![t] = [at |-> after, wants |-> wants, has |-> has]]
  BY DEF Take
<1> HIDE DEF has, wants, after
<1>8. [at |-> after, wants |-> wants, has |-> has] \in Readers
  BY <1>3, <1>4, <1>6 DEF Readers, has, wants, after
<1>9. /\ reader' \in [Threads -> Readers]
      /\ \A u \in Threads \ {t} : reader'[u] = reader[u]
      /\ reader'[t] = [at |-> after, wants |-> wants, has |-> has]
  BY <1>7, <1>8 DEF RegistryTypeOK
<1>10. reader'[t].at = after /\ reader'[t].wants = wants /\ reader'[t].has = has
  BY <1>9
<1>11. after = "look" => wants # {}
  BY <1>1, <1>3 DEF wants, after
<1> QED
  BY <1>3, <1>5, <1>9, <1>10, <1>11 DEF has, after

\* Facts about the other threads when only one of them moves, and nothing of the cache.
LEMMA Undisturbed ==
    ASSUME RegistryInv, NEW t \in Threads, NEW u \in Threads \ {t},
           reader'[u] = reader[u], UNCHANGED clients
    PROVE  /\ reader'[u].at \in Inside => reader'[u].wants # {}
           /\ reader'[u].at = "build" => clients'[Next1(u)'] = NotBuilt
           /\ \A b \in Backends :
                 reader'[u].has[b] # NotBuilt => reader'[u].has[b] = clients'[b]
BY DEF RegistryInv, Asking, OneClientPerBackend, Next1

-----------------------------------------------------------------------------
(* Every step keeps the invariant.                                         *)

LEMMA InitKeeps == RegistryInit => RegistryInv
<1> SUFFICES ASSUME RegistryInit PROVE RegistryInv
  OBVIOUS
<1>1. RegistryTypeOK
  BY RegistryAssumption DEF RegistryInit, RegistryTypeOK, Readers, NotBuilt
<1>2. OneClientPerBackend
  BY RegistryAssumption DEF RegistryInit, OneClientPerBackend
<1>3. Asking
  BY DEF RegistryInit, Asking, Inside
<1> QED
  BY <1>1, <1>2, <1>3 DEF RegistryInv

LEMMA ResolveKeeps ==
    ASSUME RegistryInv, NEW t \in Threads, Resolve(t)
    PROVE  RegistryInv'
<1>1. PICK found \in SUBSET Backends :
         reader' = [reader EXCEPT ![t] =
                        [at |-> IF found \subseteq {Default} THEN "routed" ELSE "look",
                         wants |-> IF found \subseteq {Default} THEN {} ELSE found,
                         has |-> reader[t].has]]
  BY DEF Resolve
<1> DEFINE at == IF found \subseteq {Default} THEN "routed" ELSE "look"
           wants == IF found \subseteq {Default} THEN {} ELSE found
<1>2. /\ reader' \in [Threads -> Readers]
      /\ \A u \in Threads \ {t} : reader'[u] = reader[u]
      /\ reader'[t].at \in {"routed", "look"}
      /\ reader'[t].at = "look" => reader'[t].wants # {}
      /\ reader'[t].has = reader[t].has
  <2>1. reader[t] \in Readers
    BY DEF RegistryInv, RegistryTypeOK
  <2>2. at \in {"routed", "look"} /\ wants \in SUBSET Backends /\ (at = "look" => wants # {})
    OBVIOUS
  <2>3. reader' = [reader EXCEPT ![t] = [at |-> at, wants |-> wants, has |-> reader[t].has]]
    BY <1>1
  <2> HIDE DEF at, wants
  <2>4. [at |-> at, wants |-> wants, has |-> reader[t].has] \in Readers
    BY <2>1, <2>2 DEF Readers
  <2>5. /\ reader' \in [Threads -> Readers]
        /\ \A u \in Threads \ {t} : reader'[u] = reader[u]
        /\ reader'[t] = [at |-> at, wants |-> wants, has |-> reader[t].has]
    BY <2>3, <2>4 DEF RegistryInv, RegistryTypeOK
  <2> QED
    BY <2>2, <2>5
<1>3. reader[t].at = "start" /\ UNCHANGED <<clients, builds, lock>>
  BY DEF Resolve
<1>4. RegistryTypeOK'
  BY <1>2, <1>3 DEF RegistryInv, RegistryTypeOK
<1>5. OneClientPerBackend'
  BY <1>2, <1>3 DEF RegistryInv, OneClientPerBackend
<1>6. Asking'
  BY <1>2, <1>3, Undisturbed DEF Asking, Inside
<1> QED
  BY <1>4, <1>5, <1>6 DEF RegistryInv

LEMMA LookUpKeeps ==
    ASSUME RegistryInv, NEW t \in Threads, LookUp(t)
    PROVE  RegistryInv'
<1>1. /\ reader[t].at = "look" /\ UNCHANGED <<clients, builds, lock>>
      /\ reader[t].wants # {} /\ RegistryTypeOK
  BY DEF LookUp, RegistryInv, Asking, Inside
<1>2. CASE clients[Next1(t)] # NotBuilt
  <2>1. Next1(t) \in Backends /\ clients[Next1(t)] \in 0 .. MaxBuilds
    BY <1>1, NextWanted DEF RegistryTypeOK
  <2>2. Take(t, Next1(t), clients[Next1(t)])
    BY <1>2 DEF LookUp
  <2>3. /\ reader' \in [Threads -> Readers]
        /\ \A u \in Threads \ {t} : reader'[u] = reader[u]
        /\ reader'[t].at \in {"routed", "look"}
        /\ reader'[t].at = "look" => reader'[t].wants # {}
        /\ \A b \in Backends : reader'[t].has[b] =
              IF b = Next1(t) THEN clients[Next1(t)] ELSE reader[t].has[b]
    BY <1>1, <2>1, <2>2, TakeFacts
  <2>4. RegistryTypeOK'
    BY <1>1, <2>3 DEF RegistryTypeOK
  <2>5. OneClientPerBackend'
    BY <1>1, <2>3 DEF RegistryInv, OneClientPerBackend
  <2>6. Asking'
    BY <1>1, <2>3, Undisturbed DEF Asking, Inside
  <2> QED
    BY <2>4, <2>5, <2>6 DEF RegistryInv
<1>3. CASE clients[Next1(t)] = NotBuilt
  <2>1. reader' = [reader EXCEPT ![t].at = "wait"]
    BY <1>3 DEF LookUp
  <2>2. RegistryTypeOK'
    BY <1>1, <2>1 DEF RegistryTypeOK, Readers
  <2>3. OneClientPerBackend'
    BY <1>1, <2>1 DEF RegistryInv, OneClientPerBackend, RegistryTypeOK, Readers
  <2>4. Asking'
    BY <1>1, <2>1, Undisturbed DEF Asking, Inside, RegistryTypeOK, Readers
  <2> QED
    BY <2>2, <2>3, <2>4 DEF RegistryInv
<1> QED
  BY <1>2, <1>3

LEMMA AcquireLockKeeps ==
    ASSUME RegistryInv, NEW t \in Threads, AcquireLock(t)
    PROVE  RegistryInv'
<1>1. /\ reader[t].at = "wait" /\ lock = Free /\ lock' = t
      /\ reader' = [reader EXCEPT ![t].at = "locked"] /\ UNCHANGED <<clients, builds>>
      /\ reader[t].wants # {} /\ RegistryTypeOK
  BY DEF AcquireLock, RegistryInv, Asking, Inside
<1>2. RegistryTypeOK'
  BY <1>1 DEF RegistryTypeOK, Readers
<1>3. OneClientPerBackend'
  BY <1>1, RegistryAssumption DEF RegistryInv, OneClientPerBackend, RegistryTypeOK, Readers
<1>4. Asking'
  BY <1>1, Undisturbed DEF Asking, Inside, RegistryTypeOK, Readers
<1> QED
  BY <1>2, <1>3, <1>4 DEF RegistryInv

LEMMA LookAgainKeeps ==
    ASSUME RegistryInv, NEW t \in Threads, LookAgain(t)
    PROVE  RegistryInv'
<1>1. /\ reader[t].at = "locked" /\ UNCHANGED <<clients, builds>>
      /\ reader[t].wants # {} /\ RegistryTypeOK /\ lock = t
  BY DEF LookAgain, RegistryInv, Asking, Inside, OneClientPerBackend
<1>2. CASE clients[Next1(t)] # NotBuilt
  <2>1. Next1(t) \in Backends /\ clients[Next1(t)] \in 0 .. MaxBuilds
    BY <1>1, NextWanted DEF RegistryTypeOK
  <2>2. Take(t, Next1(t), clients[Next1(t)]) /\ lock' = Free
    BY <1>2 DEF LookAgain
  <2>3. /\ reader' \in [Threads -> Readers]
        /\ \A u \in Threads \ {t} : reader'[u] = reader[u]
        /\ reader'[t].at \in {"routed", "look"}
        /\ reader'[t].at = "look" => reader'[t].wants # {}
        /\ \A b \in Backends : reader'[t].has[b] =
              IF b = Next1(t) THEN clients[Next1(t)] ELSE reader[t].has[b]
    BY <1>1, <2>1, <2>2, TakeFacts
  <2>4. RegistryTypeOK'
    BY <1>1, <2>2, <2>3 DEF RegistryTypeOK
  <2>5. OneClientPerBackend'
    BY <1>1, <2>2, <2>3, RegistryAssumption DEF RegistryInv, OneClientPerBackend
  <2>6. Asking'
    BY <1>1, <2>3, Undisturbed DEF Asking, Inside
  <2> QED
    BY <2>4, <2>5, <2>6 DEF RegistryInv
<1>3. CASE clients[Next1(t)] = NotBuilt
  <2>1. reader' = [reader EXCEPT ![t].at = "build"] /\ UNCHANGED lock
    BY <1>3 DEF LookAgain
  <2>2. RegistryTypeOK'
    BY <1>1, <2>1 DEF RegistryTypeOK, Readers
  <2>3. OneClientPerBackend'
    BY <1>1, <2>1 DEF RegistryInv, OneClientPerBackend, RegistryTypeOK, Readers
  <2>4. Next1(t)' = Next1(t)
    BY <1>1, <2>1 DEF Next1, RegistryTypeOK, Readers
  <2>5. Asking'
    BY <1>1, <1>3, <2>1, <2>4, Undisturbed DEF Asking, Inside, RegistryTypeOK, Readers
  <2> QED
    BY <2>2, <2>3, <2>5 DEF RegistryInv
<1> QED
  BY <1>2, <1>3

\* Only the thread with the lock builds, and nobody has a client of what is not there.
LEMMA BuildKeeps ==
    ASSUME RegistryInv, NEW t \in Threads, Build(t)
    PROVE  RegistryInv'
<1> DEFINE b == Next1(t)
<1>1. /\ reader[t].at = "build" /\ lock = t /\ lock' = Free /\ RegistryTypeOK
      /\ builds' = builds + 1 /\ builds' \in 0 .. MaxBuilds /\ builds' # NotBuilt
      /\ reader[t].wants # {} /\ clients[b] = NotBuilt
      /\ clients' = [clients EXCEPT ![b] = builds'] /\ Take(t, b, builds')
  BY RegistryAssumption
  DEF Build, RegistryInv, Asking, Inside, OneClientPerBackend, RegistryTypeOK, NotBuilt
<1>2. b \in Backends
  BY <1>1, NextWanted
<1>3. /\ reader' \in [Threads -> Readers]
      /\ \A u \in Threads \ {t} : reader'[u] = reader[u]
      /\ reader'[t].at \in {"routed", "look"}
      /\ reader'[t].at = "look" => reader'[t].wants # {}
      /\ \A x \in Backends : reader'[t].has[x] = IF x = b THEN builds' ELSE reader[t].has[x]
  BY <1>1, TakeFacts
<1> HIDE DEF b
<1>4. /\ clients' \in [Backends -> 0 .. MaxBuilds]
      /\ clients'[b] = builds'
      /\ \A x \in Backends \ {b} : clients'[x] = clients[x]
  BY <1>1, <1>2 DEF RegistryTypeOK
<1>5. RegistryTypeOK'
  BY <1>1, <1>3, <1>4 DEF RegistryTypeOK
<1>6. \A u \in Threads, x \in Backends :
         reader'[u].has[x] # NotBuilt => reader'[u].has[x] = clients'[x]
  <2> SUFFICES ASSUME NEW u \in Threads, NEW x \in Backends, reader'[u].has[x] # NotBuilt
               PROVE  reader'[u].has[x] = clients'[x]
    OBVIOUS
  <2>1. reader[u].has[x] # NotBuilt => reader[u].has[x] = clients[x]
    BY DEF RegistryInv, OneClientPerBackend
  <2>2. CASE x = b
    BY <1>1, <1>3, <1>4, <2>1, <2>2
  <2>3. CASE x # b
    BY <1>3, <1>4, <2>1, <2>3
  <2> QED
    BY <2>2, <2>3
<1>7. \A u \in Threads : lock' = u <=> reader'[u].at \in {"locked", "build"}
  BY <1>1, <1>3, RegistryAssumption DEF RegistryInv, OneClientPerBackend
<1>8. Asking'
  <2> SUFFICES ASSUME NEW u \in Threads
               PROVE  /\ reader'[u].at \in Inside => reader'[u].wants # {}
                      /\ reader'[u].at = "build" => FALSE
    BY DEF Asking
  <2>1. reader'[u].at # "build"
    BY <1>7, <1>1, RegistryAssumption
  <2> QED
    BY <1>3, <2>1 DEF RegistryInv, Asking, Inside
<1> QED
  BY <1>5, <1>6, <1>7, <1>8 DEF RegistryInv, OneClientPerBackend

LEMMA BuildFailsKeeps ==
    ASSUME RegistryInv, NEW t \in Threads, BuildFails(t)
    PROVE  RegistryInv'
<1>1. /\ reader[t].at = "build" /\ lock = t /\ lock' = Free /\ UNCHANGED <<clients, builds>>
      /\ reader' = [reader EXCEPT ![t].at = "fallback", ![t].wants = {}] /\ RegistryTypeOK
  BY DEF BuildFails, RegistryInv, OneClientPerBackend
<1>2. RegistryTypeOK'
  BY <1>1 DEF RegistryTypeOK, Readers
<1>3. OneClientPerBackend'
  BY <1>1, RegistryAssumption DEF RegistryInv, OneClientPerBackend, RegistryTypeOK, Readers
<1>4. Asking'
  BY <1>1, Undisturbed DEF Asking, Inside, RegistryTypeOK, Readers
<1> QED
  BY <1>2, <1>3, <1>4 DEF RegistryInv

LEMMA NextReadKeeps ==
    ASSUME RegistryInv, NEW t \in Threads, NextRead(t)
    PROVE  RegistryInv'
<1> DEFINE none == [b \in Backends |-> NotBuilt]
<1>1. /\ reader[t].at \in {"routed", "fallback"} /\ UNCHANGED <<clients, builds, lock>>
      /\ reader' = [reader EXCEPT ![t].at = "start", ![t].has = none] /\ RegistryTypeOK
  BY DEF NextRead, RegistryInv
<1>2. none \in [Backends -> 0 .. MaxBuilds] /\ \A b \in Backends : none[b] = NotBuilt
  BY RegistryAssumption DEF NotBuilt
<1> HIDE DEF none
<1>3. RegistryTypeOK'
  BY <1>1, <1>2 DEF RegistryTypeOK, Readers
<1>4. OneClientPerBackend'
  BY <1>1, <1>2 DEF RegistryInv, OneClientPerBackend, RegistryTypeOK, Readers
<1>5. Asking'
  BY <1>1, Undisturbed DEF Asking, Inside, RegistryTypeOK, Readers
<1> QED
  BY <1>3, <1>4, <1>5 DEF RegistryInv

-----------------------------------------------------------------------------
LEMMA RegistryInvariant == RegistrySpec => []RegistryInv
<1>1. RegistryInv /\ [RegistryNext]_registryVars => RegistryInv'
  <2> SUFFICES ASSUME RegistryInv, [RegistryNext]_registryVars PROVE RegistryInv'
    OBVIOUS
  <2>1. CASE UNCHANGED registryVars
    BY <2>1 DEF registryVars, RegistryInv, RegistryTypeOK, OneClientPerBackend, Asking, Next1
  <2>2. ASSUME NEW t \in Threads,
               \/ Resolve(t) \/ LookUp(t) \/ AcquireLock(t) \/ LookAgain(t)
               \/ Build(t) \/ BuildFails(t) \/ NextRead(t)
        PROVE  RegistryInv'
    BY <2>2, ResolveKeeps, LookUpKeeps, AcquireLockKeeps, LookAgainKeeps, BuildKeeps,
       BuildFailsKeeps, NextReadKeeps
  <2> QED
    BY <2>1, <2>2 DEF RegistryNext
<1> QED
  BY <1>1, InitKeeps, PTL DEF RegistrySpec

\* However many threads ask for however many backends, they hold one client of each, and
\* the lock is held by the thread that looks again or builds and by no other: what the
\* two looks of get_client are for.
THEOREM OneClient == RegistrySpec => []OneClientPerBackend
<1>1. RegistryInv => OneClientPerBackend
  BY DEF RegistryInv
<1> QED
  BY <1>1, RegistryInvariant, PTL

\* The clients of the registry and what its readers hold keep their types (get_client).
THEOREM RegistryTypeCorrect == RegistrySpec => []RegistryTypeOK
<1>1. RegistryInv => RegistryTypeOK
  BY DEF RegistryInv
<1> QED
  BY <1>1, RegistryInvariant, PTL

-----------------------------------------------------------------------------
(* The tracing of requests.                                                *)

SpanRecords == [request : TraceRequests, parent : Int, trace : Nat]
Contexts == [stack : Seq(Nat), trace : Nat]

\* Span k, if it was recorded, is one of request r under trace id tid.
Mine(r, k, tid, spans) ==
    /\ k \in 0 .. Len(spans)
    /\ k # Unrecorded => spans[k].request = r /\ spans[k].trace = tid

\* A context that request r can be in when it is inside of n spans.
ContextAt(r, c, n, spans, m) ==
    /\ c \in Contexts /\ Len(c.stack) = n
    /\ IF n = 0 THEN c = Empty ELSE c.trace \in 1 .. m
    /\ \A i \in 1 .. n : Mine(r, c.stack[i], c.trace, spans)

\* The recorded spans: every child hangs under a span of its request and its trace, and
\* no two roots share a request or a trace id.
Forest(spans, m) ==
    /\ \A i \in 1 .. Len(spans) :
          /\ spans[i].trace \in 1 .. m
          /\ spans[i].parent # NoParent =>
                /\ spans[i].parent \in 1 .. Len(spans)
                /\ spans[spans[i].parent].request = spans[i].request
                /\ spans[spans[i].parent].trace = spans[i].trace
    /\ \A i, j \in 1 .. Len(spans) :
          (spans[i].parent = NoParent /\ spans[j].parent = NoParent /\ i # j) =>
              spans[i].request # spans[j].request /\ spans[i].trace # spans[j].trace

\* A request's context and the saved ones fit how deep it is inside of spans; before its
\* first span nothing is recorded of it, and from then on it has a root to take up.
Nested(r) ==
    /\ ContextAt(r, context[r], Len(open[r]), traced, minted)
    /\ \A k \in 1 .. Len(open[r]) : ContextAt(r, open[r][k], k - 1, traced, minted)
    /\ phase[r] = "done" => open[r] = << >>
    /\ IF phase[r] = "endpoint" /\ open[r] = << >>
       THEN \A i \in 1 .. Len(traced) : traced[i].request # r
       ELSE /\ adopted[r].trace \in 1 .. minted
            /\ Mine(r, adopted[r].span, adopted[r].trace, traced)

TraceTyped ==
    /\ minted \in Nat /\ traced \in Seq(SpanRecords)
    /\ context \in [TraceRequests -> Contexts]
    /\ open \in [TraceRequests -> Seq(Contexts)]
    /\ phase \in [TraceRequests -> {"endpoint", "stream", "done"}]
    /\ adopted \in [TraceRequests -> [span : Nat, trace : Nat]]

TraceInv == TraceTyped /\ Forest(traced, minted) /\ \A r \in TraceRequests : Nested(r)

-----------------------------------------------------------------------------
(* What a recorded span, a minted id and a pushed one leave true.           *)

LEMMA Appended ==
    ASSUME NEW S, NEW s \in Seq(S), NEW x \in S
    PROVE  /\ Append(s, x) \in Seq(S) /\ Len(s) \in Nat /\ Len(Append(s, x)) = Len(s) + 1
           /\ Append(s, x)[Len(s) + 1] = x
           /\ \A i \in 1 .. Len(s) : Append(s, x)[i] = s[i]
OBVIOUS

LEMMA Shortened ==
    ASSUME NEW S, NEW s \in Seq(S), Len(s) > 0
    PROVE  LET t == SubSeq(s, 1, Len(s) - 1)
           IN  /\ t \in Seq(S) /\ Len(t) = Len(s) - 1
               /\ \A i \in 1 .. Len(s) - 1 : t[i] = s[i]
               /\ t = << >> <=> Len(s) = 1
<1> DEFINE n == Len(s) - 1
           t == SubSeq(s, 1, n)
<1>1. n \in Nat /\ n < Len(s)
  OBVIOUS
<1>2. \A i \in 1 .. n : s[i] \in S
  BY <1>1
<1>3. n \in Int /\ 1 \in Int
  BY <1>1
<1>4. /\ t \in Seq(S) /\ Len(t) = (IF 1 <= n THEN n - 1 + 1 ELSE 0)
      /\ \A i \in 1 .. n - 1 + 1 : t[i] = s[1 + i - 1]
  BY <1>2, <1>3, SubSeqProperties
<1>5. n = 0 <=> Len(s) = 1
  BY <1>1
<1> HIDE DEF n, t
<1>6. Len(t) = n
  BY <1>1, <1>4
<1>7. ASSUME NEW i \in 1 .. n PROVE t[i] = s[i]
  <2>1. i \in 1 .. n - 1 + 1 /\ 1 + i - 1 = i
    BY <1>1
  <2> QED
    BY <1>4, <2>1
<1>8. t = << >> <=> Len(t) = 0
  BY <1>4
<1> QED
  BY <1>4, <1>5, <1>6, <1>7, <1>8 DEF t, n

LEMMA MineGrows ==
    ASSUME NEW r, NEW tid, NEW spans \in Seq(SpanRecords), NEW e \in SpanRecords, NEW k,
           Mine(r, k, tid, spans)
    PROVE  Mine(r, k, tid, Append(spans, e))
BY DEF Mine, Unrecorded

LEMMA ContextGrows ==
    ASSUME NEW r, NEW c, NEW n \in Nat, NEW spans \in Seq(SpanRecords),
           NEW grown \in Seq(SpanRecords), NEW e \in SpanRecords,
           grown = spans \/ grown = Append(spans, e),
           NEW m \in Nat, NEW m2 \in Nat, m <= m2, ContextAt(r, c, n, spans, m)
    PROVE  ContextAt(r, c, n, grown, m2)
<1>1. \A i \in 1 .. n : Mine(r, c.stack[i], c.trace, grown)
  BY MineGrows DEF ContextAt
<1>2. (IF n = 0 THEN c = Empty ELSE c.trace \in 1 .. m2)
  BY DEF ContextAt
<1> QED
  BY <1>1, <1>2 DEF ContextAt

\* A span under the last one, or a root of a request that has none and mints its id.
LEMMA ForestGrows ==
    ASSUME NEW spans \in Seq(SpanRecords), NEW e \in SpanRecords, NEW m \in Nat, NEW m2 \in Nat,
           m <= m2, Forest(spans, m), e.trace \in 1 .. m2,
           \/ /\ e.parent \in 1 .. Len(spans)
              /\ spans[e.parent].request = e.request /\ spans[e.parent].trace = e.trace
           \/ /\ e.parent = NoParent /\ e.trace = m + 1
              /\ \A i \in 1 .. Len(spans) : spans[i].request # e.request
    PROVE  Forest(Append(spans, e), m2)
<1> DEFINE grown == Append(spans, e)
           L == Len(spans)
<1>1. /\ L \in Nat /\ Len(grown) = L + 1 /\ grown[L + 1] = e
      /\ \A i \in 1 .. L : grown[i] = spans[i] /\ spans[i] \in SpanRecords
  OBVIOUS
<1>2. \A i \in 1 .. L : spans[i].parent \in Int /\ spans[i].trace \in Nat
  BY <1>1 DEF SpanRecords
<1>3. \A i \in 1 .. L : spans[i].trace \in 1 .. m
  BY DEF Forest
<1> HIDE DEF grown, L
<1>4. ASSUME NEW i \in 1 .. L + 1
      PROVE  /\ grown[i].trace \in 1 .. m2
             /\ grown[i].parent # NoParent =>
                   /\ grown[i].parent \in 1 .. L + 1
                   /\ grown[grown[i].parent].request = grown[i].request
                   /\ grown[grown[i].parent].trace = grown[i].trace
  <2>1. CASE i = L + 1
    BY <1>1, <2>1 DEF L
  <2>2. CASE i \in 1 .. L
    <3>1. grown[i].trace \in 1 .. m2
      BY <1>1, <1>2, <1>3, <2>2
    <3>2. spans[i].parent # NoParent =>
             /\ spans[i].parent \in 1 .. L
             /\ spans[spans[i].parent].request = spans[i].request
             /\ spans[spans[i].parent].trace = spans[i].trace
      BY <2>2 DEF Forest, L
    <3> QED
      BY <1>1, <2>2, <3>1, <3>2
  <2> QED
    BY <1>1, <2>1, <2>2
<1>5. ASSUME NEW i \in 1 .. L + 1, NEW j \in 1 .. L + 1,
             grown[i].parent = NoParent, grown[j].parent = NoParent, i # j
      PROVE  grown[i].request # grown[j].request /\ grown[i].trace # grown[j].trace
  <2>1. CASE i \in 1 .. L /\ j \in 1 .. L
    BY <1>1, <1>5, <2>1 DEF Forest, L
  <2>2. ASSUME NEW k \in 1 .. L, e.parent = NoParent
        PROVE  spans[k].request # e.request /\ spans[k].trace # e.trace
    <3>1. e.trace = m + 1 /\ \A x \in 1 .. L : spans[x].request # e.request
      BY <2>2 DEF NoParent, L
    <3> QED
      BY <1>1, <1>3, <3>1
  <2>3. CASE i = L + 1
    <3>1. j \in 1 .. L /\ grown[i] = e
      BY <1>1, <1>5, <2>3
    <3> QED
      BY <1>1, <1>5, <2>2, <3>1
  <2>4. CASE j = L + 1
    <3>1. i \in 1 .. L /\ grown[j] = e
      BY <1>1, <1>5, <2>4
    <3> QED
      BY <1>1, <1>5, <2>2, <3>1
  <2> QED
    BY <1>1, <2>1, <2>3, <2>4
<1> QED
  BY <1>1, <1>4, <1>5 DEF Forest, grown

LEMMA ForestOfMore ==
    ASSUME NEW spans \in Seq(SpanRecords), NEW m \in Nat, NEW m2 \in Nat, m <= m2, Forest(spans, m)
    PROVE  Forest(spans, m2)
BY DEF Forest

-----------------------------------------------------------------------------
(* Every step keeps the invariant.                                         *)

\* The requests that do not move, when spans and ids are only added.
LEMMA OthersNested ==
    ASSUME TraceInv, NEW o \in TraceRequests, minted' \in Nat, minted <= minted',
           NEW e \in SpanRecords, traced' = traced \/ traced' = Append(traced, e),
           traced' # traced => e.request # o,
           context'[o] = context[o], open'[o] = open[o], phase'[o] = phase[o],
           adopted'[o] = adopted[o]
    PROVE  Nested(o)'
<1>0. /\ traced \in Seq(SpanRecords) /\ open[o] \in Seq(Contexts) /\ Nested(o)
      /\ minted \in Nat /\ adopted[o] \in [span : Nat, trace : Nat]
  BY DEF TraceInv, TraceTyped
<1>1. traced' \in Seq(SpanRecords) /\ Len(open[o]) \in Nat /\ Nested(o)
  <2>1. Append(traced, e) \in Seq(SpanRecords)
    BY <1>0
  <2>2. Len(open[o]) \in Nat
    BY <1>0
  <2> QED
    BY <1>0, <2>1, <2>2
<1>2. ContextAt(o, context[o], Len(open[o]), traced', minted')
  BY <1>0, <1>1, ContextGrows DEF Nested
<1>3. ASSUME NEW k \in 1 .. Len(open[o])
      PROVE  ContextAt(o, open[o][k], k - 1, traced', minted')
  <2>1. k - 1 \in Nat /\ ContextAt(o, open[o][k], k - 1, traced, minted)
    BY <1>1 DEF Nested
  <2> QED
    BY <1>0, <1>1, <2>1, ContextGrows
<1>4. CASE phase[o] = "endpoint" /\ open[o] = << >>
  <2>1. \A i \in 1 .. Len(traced) : traced[i].request # o
    BY <1>1, <1>4 DEF Nested
  <2>2. \A i \in 1 .. Len(traced') : traced'[i].request # o
    BY <1>1, <2>1
  <2> QED
    BY <1>1, <1>2, <1>3, <1>4, <2>2 DEF Nested
<1>5. CASE ~(phase[o] = "endpoint" /\ open[o] = << >>)
  <2>1. /\ adopted[o].trace \in 1 .. minted
        /\ Mine(o, adopted[o].span, adopted[o].trace, traced)
    BY <1>1, <1>5 DEF Nested
  <2>2. /\ adopted[o].trace \in 1 .. minted'
        /\ Mine(o, adopted[o].span, adopted[o].trace, traced')
    <3>1. adopted[o].trace \in 1 .. minted'
      BY <1>0, <2>1
    <3>2. CASE traced' = traced
      BY <2>1, <3>1, <3>2
    <3>3. CASE traced' = Append(traced, e)
      BY <1>0, <2>1, <3>1, <3>3, MineGrows
    <3> QED
      BY <3>2, <3>3
  <2> QED
    BY <1>1, <1>2, <1>3, <1>5, <2>2 DEF Nested
<1> QED
  BY <1>4, <1>5

\* Where a request stands when a span opens: before its root, or under a span of its own.
LEMMA Standing ==
    ASSUME TraceInv, NEW r \in TraceRequests,
           phase[r] = "stream" => open[r] # << >>, phase[r] # "done"
    PROVE  \/ /\ open[r] = << >> /\ phase[r] = "endpoint" /\ context[r] = Empty
              /\ Current(r) = NoParent /\ context[r].trace = NoTrace
              /\ \A i \in 1 .. Len(traced) : traced[i].request # r
           \/ /\ open[r] # << >> /\ Len(open[r]) > 0 /\ Current(r) # NoParent
              /\ context[r].trace \in 1 .. minted
              /\ Mine(r, Current(r), context[r].trace, traced)
<1> USE DEF TraceInv, TraceTyped
<1>1. open[r] \in Seq(Contexts) /\ Nested(r) /\ context[r].stack \in Seq(Nat)
  BY DEF Contexts
<1>2. CASE open[r] = << >>
  <2>1. context[r] = Empty
    BY <1>1, <1>2 DEF Nested, ContextAt
  <2>2. context[r].stack = << >> /\ context[r].trace = NoTrace
    BY <2>1 DEF Empty
  <2>3. phase[r] = "endpoint"
    BY <1>2
  <2> QED
    BY <1>1, <1>2, <2>1, <2>2, <2>3 DEF Current, Nested
<1>3. CASE open[r] # << >>
  <2> DEFINE n == Len(open[r])
  <2>1. n \in Nat \ {0}
    BY <1>1, <1>3
  <2>2. /\ Len(context[r].stack) = n /\ context[r].trace \in 1 .. minted
        /\ Mine(r, context[r].stack[n], context[r].trace, traced)
    BY <1>1, <2>1 DEF Nested, ContextAt
  <2>3. Current(r) = context[r].stack[n]
    BY <1>1, <2>1, <2>2 DEF Current
  <2>4. Current(r) # NoParent
    BY <2>2, <2>3 DEF Mine, NoParent
  <2> QED
    BY <1>3, <2>1, <2>2, <2>3, <2>4
<1> QED
  BY <1>2, <1>3

\* The step of OpenSpan, by its parts: the trace id, what is recorded, the span's name.
Opened(r, tid, e, span) ==
    /\ minted' \in Nat /\ minted <= minted'
    /\ e.request = r /\ e.trace = tid /\ e.parent = Current(r)
    /\ \/ span = Unrecorded /\ traced' = traced
       \/ /\ span = Len(traced) + 1 /\ traced' = Append(traced, e)
          /\ Current(r) # Unrecorded
    /\ \/ Current(r) = NoParent /\ context[r].trace = NoTrace /\ tid = minted + 1
       \/ /\ ~(Current(r) = NoParent /\ context[r].trace = NoTrace)
          /\ tid = context[r].trace
    /\ open' = [open EXCEPT ![r] = Append(open[r], context[r])]
    /\ context' = [context EXCEPT ![r] =
                      [stack |-> Append(context[r].stack, span), trace |-> tid]]
    /\ adopted' = IF open[r] = << >> /\ phase[r] = "endpoint"
                  THEN [adopted EXCEPT ![r] = [span |-> span, trace |-> tid]]
                  ELSE adopted
    /\ UNCHANGED phase

LEMMA OpenedSpan ==
    ASSUME TraceInv, NEW r \in TraceRequests, EnterSpan(r)
    PROVE  \E tid \in 1 .. minted' : \E e \in SpanRecords : \E span \in Nat : Opened(r, tid, e, span)
<1> USE DEF TraceInv, TraceTyped
<1> DEFINE fresh == Current(r) = NoParent /\ context[r].trace = NoTrace
           tid   == IF fresh THEN minted + 1 ELSE context[r].trace
           e     == [request |-> r, parent |-> Current(r), trace |-> tid]
<1>1. PICK recorded \in BOOLEAN :
         /\ recorded => Current(r) # Unrecorded /\ Len(traced) < MaxSpans
         /\ traced' = IF recorded THEN Append(traced, e) ELSE traced
         /\ LET span == IF recorded THEN Len(traced) + 1 ELSE Unrecorded
            IN  /\ open' = [open EXCEPT ![r] = Append(@, context[r])]
                /\ context' = [context EXCEPT ![r] =
                                  [stack |-> Push(@.stack, span), trace |-> tid]]
                /\ adopted' = IF open[r] = << >> /\ phase[r] = "endpoint"
                              THEN [adopted EXCEPT ![r] = [span |-> span, trace |-> tid]]
                              ELSE adopted
  BY DEF EnterSpan, OpenSpan
<1> DEFINE span == IF recorded THEN Len(traced) + 1 ELSE Unrecorded
<1>2. /\ minted' = (IF fresh THEN minted + 1 ELSE minted) /\ UNCHANGED phase
      /\ phase[r] = "stream" => open[r] # << >>
      /\ phase[r] # "done"
  BY DEF EnterSpan, OpenSpan
<1>3. tid \in 1 .. minted' /\ minted' \in Nat /\ minted <= minted' /\ Current(r) \in Int
  <2>1. CASE open[r] = << >>
    <3>1. fresh
      BY <1>2, <2>1, Standing
    <3> QED
      BY <1>2, <3>1 DEF NoParent
  <2>2. CASE open[r] # << >>
    <3>1. ~fresh /\ context[r].trace \in 1 .. minted /\ Mine(r, Current(r), context[r].trace, traced)
      BY <1>2, <2>2, Standing
    <3> QED
      BY <1>2, <3>1 DEF Mine
  <2> QED
    BY <2>1, <2>2
<1>4. e \in SpanRecords /\ e.request = r /\ e.trace = tid /\ e.parent = Current(r)
  <2> HIDE DEF tid
  <2> QED
    BY <1>3 DEF SpanRecords
<1>5. span \in Nat
  BY DEF Unrecorded
<1>6. \/ span = Unrecorded /\ traced' = traced
      \/ /\ span = Len(traced) + 1 /\ traced' = Append(traced, e) /\ Current(r) # Unrecorded
  BY <1>1
<1>7. \/ fresh /\ tid = minted + 1
      \/ ~fresh /\ tid = context[r].trace
  OBVIOUS
<1>8. /\ open' = [open EXCEPT ![r] = Append(open[r], context[r])]
      /\ context' = [context EXCEPT ![r] =
                        [stack |-> Append(context[r].stack, span), trace |-> tid]]
      /\ adopted' = IF open[r] = << >> /\ phase[r] = "endpoint"
                    THEN [adopted EXCEPT ![r] = [span |-> span, trace |-> tid]]
                    ELSE adopted
  BY <1>1 DEF Push
<1> HIDE DEF tid, e, span
<1> QED
  BY <1>2, <1>3, <1>4, <1>5, <1>6, <1>7, <1>8 DEF Opened

LEMMA EnterSpanKeeps ==
    ASSUME TraceInv, NEW r \in TraceRequests, EnterSpan(r)
    PROVE  TraceInv'
<1> DEFINE n == Len(open[r])
<1>0. /\ traced \in Seq(SpanRecords) /\ minted \in Nat /\ open \in [TraceRequests -> Seq(Contexts)]
      /\ context \in [TraceRequests -> Contexts] /\ context[r].stack \in Seq(Nat)
      /\ adopted \in [TraceRequests -> [span : Nat, trace : Nat]]
      /\ phase \in [TraceRequests -> {"endpoint", "stream", "done"}]
      /\ Forest(traced, minted) /\ Nested(r) /\ n \in Nat /\ open[r] \in Seq(Contexts)
  BY DEF TraceInv, TraceTyped, Contexts
<1>1. phase[r] # "done" /\ (phase[r] = "stream" => open[r] # << >>)
  BY DEF EnterSpan
<1>2. PICK tid \in 1 .. minted' : \E e \in SpanRecords : \E span \in Nat : Opened(r, tid, e, span)
  BY OpenedSpan
<1>3. PICK e \in SpanRecords : \E span \in Nat : Opened(r, tid, e, span)
  BY <1>2
<1>4. PICK span \in Nat : Opened(r, tid, e, span)
  BY <1>3
<1> DEFINE now   == [stack |-> Append(context[r].stack, span), trace |-> tid]
           stack == Append(context[r].stack, span)
           inner == Append(open[r], context[r])
<1>5. /\ traced' \in Seq(SpanRecords) /\ (traced' = traced \/ traced' = Append(traced, e))
      /\ minted' \in Nat /\ minted <= minted' /\ tid \in Nat
  <2>1. Append(traced, e) \in Seq(SpanRecords)
    BY <1>0, Appended
  <2>2. minted' \in Nat /\ minted <= minted' /\ (traced' = traced \/ traced' = Append(traced, e))
    BY <1>4 DEF Opened
  <2>3. traced' \in Seq(SpanRecords)
    BY <1>0, <2>1, <2>2
  <2>4. tid \in Nat
    BY <2>2
  <2> QED
    BY <2>2, <2>3, <2>4
<1>6. \/ /\ open[r] = << >> /\ phase[r] = "endpoint" /\ Current(r) = NoParent
         /\ context[r].trace = NoTrace /\ context[r] = Empty
         /\ \A i \in 1 .. Len(traced) : traced[i].request # r
      \/ /\ open[r] # << >> /\ Current(r) # NoParent
         /\ context[r].trace \in 1 .. minted
         /\ Mine(r, Current(r), context[r].trace, traced)
  BY <1>1, Standing
<1>7. /\ Len(context[r].stack) = n
      /\ \A i \in 1 .. n : Mine(r, context[r].stack[i], context[r].trace, traced)
      /\ ContextAt(r, context[r], n, traced, minted)
      /\ \A k \in 1 .. n : ContextAt(r, open[r][k], k - 1, traced, minted)
  BY <1>0 DEF Nested, ContextAt
<1>8. Mine(r, span, tid, traced')
  <2>1. CASE span = Unrecorded
    <3>1. Len(traced') \in Nat
      BY <1>5
    <3> QED
      BY <2>1, <3>1 DEF Mine, Unrecorded
  <2>2. CASE span = Len(traced) + 1 /\ traced' = Append(traced, e)
    BY <1>0, <1>4, <2>2 DEF Mine, Opened
  <2> QED
    BY <1>4, <2>1, <2>2 DEF Opened
<1>9. stack \in Seq(Nat) /\ Len(stack) = n + 1 /\ stack[n + 1] = span
      /\ \A i \in 1 .. n : stack[i] = context[r].stack[i]
  BY <1>0, <1>7, Appended
<1>10. /\ inner \in Seq(Contexts) /\ Len(inner) = n + 1 /\ inner[n + 1] = context[r]
       /\ \A i \in 1 .. n : inner[i] = open[r][i]
  BY <1>0
<1>11. now \in Contexts /\ now.stack = stack /\ now.trace = tid
  BY <1>5, <1>9 DEF Contexts
<1>12. open[r] # << >> => tid = context[r].trace
  BY <1>4, <1>6 DEF Opened
<1>13. /\ open' = [open EXCEPT ![r] = inner] /\ context' = [context EXCEPT ![r] = now]
       /\ open' \in [TraceRequests -> Seq(Contexts)] /\ open'[r] = inner
       /\ context' \in [TraceRequests -> Contexts] /\ context'[r] = now
       /\ \A o \in TraceRequests \ {r} : open'[o] = open[o] /\ context'[o] = context[o]
  <2>1. open' = [open EXCEPT ![r] = inner] /\ context' = [context EXCEPT ![r] = now]
    BY <1>4 DEF Opened
  <2> HIDE DEF inner, now
  <2> QED
    BY <1>0, <1>10, <1>11, <2>1
<1> HIDE DEF now, stack, inner, n
<1>14. TraceTyped'
  <2>1. adopted' \in [TraceRequests -> [span : Nat, trace : Nat]]
    <3>1. [span |-> span, trace |-> tid] \in [span : Nat, trace : Nat]
      BY <1>5
    <3> QED
      BY <1>0, <1>4, <3>1 DEF Opened
  <2> QED
    BY <1>0, <1>4, <1>5, <1>13, <2>1 DEF TraceTyped, Opened
<1>15. Forest(traced', minted')
  <2>1. Forest(traced, minted')
    BY <1>0, <1>5, ForestOfMore
  <2>2. CASE traced' = traced
    BY <2>1, <2>2
  <2>3. CASE span = Len(traced) + 1 /\ traced' = Append(traced, e) /\ Current(r) # Unrecorded
    <3>1. \/ /\ e.parent \in 1 .. Len(traced)
             /\ traced[e.parent].request = e.request /\ traced[e.parent].trace = e.trace
          \/ /\ e.parent = NoParent /\ e.trace = minted + 1
             /\ \A i \in 1 .. Len(traced) : traced[i].request # e.request
      <4>1. CASE open[r] = << >>
        BY <1>4, <1>6, <4>1 DEF Opened
      <4>2. CASE open[r] # << >>
        <5>1. Mine(r, Current(r), tid, traced) /\ Current(r) # Unrecorded
          BY <1>6, <1>12, <2>3, <4>2
        <5>2. Current(r) \in 1 .. Len(traced)
          BY <1>0, <5>1 DEF Mine, Unrecorded
        <5> QED
          BY <1>4, <5>1, <5>2 DEF Mine, Opened
      <4> QED
        BY <4>1, <4>2
    <3>2. e.trace \in 1 .. minted'
      BY <1>4 DEF Opened
    <3>3. Forest(Append(traced, e), minted')
      BY <1>0, <1>5, <3>1, <3>2, ForestGrows
    <3> QED
      BY <2>3, <3>3
  <2> QED
    BY <1>4, <2>2, <2>3 DEF Opened
<1>16. Nested(r)'
  <2>1. ContextAt(r, now, n + 1, traced', minted')
    <3>1. ASSUME NEW i \in 1 .. n + 1 PROVE Mine(r, now.stack[i], now.trace, traced')
      <4>1. CASE i = n + 1
        BY <1>8, <1>9, <1>11, <4>1
      <4>2. CASE i \in 1 .. n
        <5>1. open[r] # << >>
          BY <1>0, <4>2 DEF n
        <5>2. Mine(r, context[r].stack[i], tid, traced)
          BY <1>7, <1>12, <4>2, <5>1
        <5>3. Mine(r, context[r].stack[i], tid, traced')
          <6>1. CASE traced' = traced
            BY <5>2, <6>1
          <6>2. CASE traced' = Append(traced, e)
            BY <1>0, <5>2, <6>2, MineGrows
          <6> QED
            BY <1>5, <6>1, <6>2
        <5> QED
          BY <1>9, <1>11, <4>2, <5>3
      <4> QED
        BY <1>0, <4>1, <4>2
    <3>2. n + 1 # 0
      BY <1>0
    <3>3. Len(now.stack) = n + 1
      BY <1>9, <1>11
    <3> QED
      BY <1>11, <3>1, <3>2, <3>3 DEF ContextAt
  <2>2. ASSUME NEW k \in 1 .. n + 1
        PROVE  ContextAt(r, inner[k], k - 1, traced', minted')
    <3>1. ContextAt(r, inner[k], k - 1, traced, minted)
      <4>1. CASE k = n + 1
        <5>1. k - 1 = n
          BY <1>0, <4>1
        <5> QED
          BY <1>7, <1>10, <4>1, <5>1
      <4>2. CASE k \in 1 .. n
        BY <1>7, <1>10, <4>2
      <4> QED
        BY <1>0, <4>1, <4>2
    <3>2. k - 1 \in Nat
      BY <1>0
    <3> QED
      BY <1>0, <1>5, <3>1, <3>2, ContextGrows
  <2>3. phase'[r] # "done" /\ open'[r] # << >>
    <3>1. inner # << >>
      BY <1>0, <1>10
    <3> QED
      BY <1>1, <1>4, <1>13, <3>1 DEF Opened
  <2>4. adopted'[r].trace \in 1 .. minted' /\ Mine(r, adopted'[r].span, adopted'[r].trace, traced')
    <3>1. CASE open[r] = << >>
      <4>1. adopted' = [adopted EXCEPT ![r] = [span |-> span, trace |-> tid]]
        BY <1>4, <1>6, <3>1 DEF Opened
      <4>2. adopted'[r].span = span /\ adopted'[r].trace = tid
        BY <1>0, <4>1
      <4> QED
        BY <1>4, <1>8, <4>2 DEF Opened
    <3>2. CASE open[r] # << >>
      <4>1. adopted' = adopted
        BY <1>4, <3>2 DEF Opened
      <4>2. adopted[r].trace \in 1 .. minted /\ Mine(r, adopted[r].span, adopted[r].trace, traced)
        BY <1>0, <3>2 DEF Nested
      <4>3. adopted[r].trace \in 1 .. minted'
        BY <1>0, <1>5, <4>2
      <4>4. CASE traced' = traced
        BY <4>1, <4>2, <4>3, <4>4
      <4>5. CASE traced' = Append(traced, e)
        BY <1>0, <4>1, <4>2, <4>3, <4>5, MineGrows
      <4> QED
        BY <1>5, <4>4, <4>5
    <3> QED
      BY <3>1, <3>2
  <2> QED
    BY <1>10, <1>13, <2>1, <2>2, <2>3, <2>4 DEF Nested
<1>17. ASSUME NEW o \in TraceRequests \ {r} PROVE Nested(o)'
  <2>1. adopted'[o] = adopted[o] /\ phase' = phase /\ e.request # o
    BY <1>0, <1>4 DEF Opened
  <2> QED
    BY <1>5, <1>13, <2>1, OthersNested
<1> QED
  BY <1>14, <1>15, <1>16, <1>17 DEF TraceInv

\* The steps that record nothing: the context of the request goes back or to its root.
LEMMA QuietKeeps ==
    ASSUME TraceInv, NEW r \in TraceRequests, UNCHANGED <<traced, minted, adopted>>,
           NEW now \in Contexts, NEW inner \in Seq(Contexts),
           NEW p \in {"endpoint", "stream", "done"},
           context' = [context EXCEPT ![r] = now], open' = [open EXCEPT ![r] = inner],
           phase' = [phase EXCEPT ![r] = p],
           ContextAt(r, now, Len(inner), traced, minted),
           \A k \in 1 .. Len(inner) : ContextAt(r, inner[k], k - 1, traced, minted),
           p = "done" => inner = << >>,
           adopted[r].trace \in 1 .. minted,
           Mine(r, adopted[r].span, adopted[r].trace, traced),
           p = "endpoint" => inner # << >>
    PROVE  TraceInv'
<1>0. TraceTyped /\ Forest(traced, minted) /\ \A o \in TraceRequests : Nested(o)
  BY DEF TraceInv
<1>1. TraceTyped'
  BY <1>0 DEF TraceTyped
<1>2. Nested(r)'
  <2>1. context'[r] = now /\ open'[r] = inner /\ phase'[r] = p
    BY <1>0 DEF TraceTyped
  <2> QED
    BY <2>1 DEF Nested
<1>3. ASSUME NEW o \in TraceRequests \ {r} PROVE Nested(o)'
  <2>1. context'[o] = context[o] /\ open'[o] = open[o] /\ phase'[o] = phase[o]
    BY <1>0 DEF TraceTyped
  <2> QED
    BY <1>0, <2>1 DEF Nested
<1> QED
  BY <1>0, <1>1, <1>2, <1>3 DEF TraceInv

LEMMA ExitSpanKeeps ==
    ASSUME TraceInv, NEW r \in TraceRequests, ExitSpan(r)
    PROVE  TraceInv'
<1> DEFINE n == Len(open[r])
           now == open[r][n]
           inner == SubSeq(open[r], 1, n - 1)
<1>0. /\ open \in [TraceRequests -> Seq(Contexts)] /\ open[r] \in Seq(Contexts)
      /\ phase \in [TraceRequests -> {"endpoint", "stream", "done"}] /\ Nested(r)
  BY DEF TraceInv, TraceTyped
<1>1. /\ open[r] # << >> /\ (phase[r] = "stream" => n > 1)
      /\ context' = [context EXCEPT ![r] = now] /\ open' = [open EXCEPT ![r] = inner]
      /\ IF n > 1 THEN phase' = phase
         ELSE \E p \in {"stream", "done"} : phase' = [phase EXCEPT ![r] = p]
      /\ UNCHANGED <<traced, minted, adopted>>
  BY DEF ExitSpan, Restore
<1>2. n \in Nat /\ n > 0
  BY <1>0, <1>1
<1>3. now \in Contexts /\ ContextAt(r, now, n - 1, traced, minted)
  <2>1. n \in 1 .. n
    BY <1>2
  <2> QED
    BY <1>0, <2>1 DEF Nested
<1>4. /\ inner \in Seq(Contexts) /\ Len(inner) = n - 1
      /\ \A k \in 1 .. n - 1 : inner[k] = open[r][k]
      /\ inner = << >> <=> n = 1
  BY <1>0, <1>2, Shortened
<1>5. \A k \in 1 .. Len(inner) : ContextAt(r, inner[k], k - 1, traced, minted)
  <2>1. \A k \in 1 .. n - 1 : k \in 1 .. n
    BY <1>2
  <2> QED
    BY <1>0, <1>4, <2>1 DEF Nested
<1>6. /\ phase[r] # "done" /\ adopted[r].trace \in 1 .. minted
      /\ Mine(r, adopted[r].span, adopted[r].trace, traced)
  BY <1>0, <1>1 DEF Nested
<1> HIDE DEF n, now, inner
<1>7. PICK p \in {"endpoint", "stream", "done"} :
         /\ phase' = [phase EXCEPT ![r] = p]
         /\ p = "done" => n = 1
         /\ p = "endpoint" => n > 1
  <2>1. CASE n > 1
    <3>1. phase' = [phase EXCEPT ![r] = phase[r]]
      BY <1>0, <1>1, <2>1
    <3> QED
      BY <1>0, <1>6, <2>1, <3>1
  <2>2. CASE ~(n > 1)
    <3>1. PICK p \in {"stream", "done"} : phase' = [phase EXCEPT ![r] = p]
      BY <1>1, <2>2
    <3>2. n = 1
      BY <1>2, <2>2
    <3> QED
      BY <3>1, <3>2
  <2> QED
    BY <2>1, <2>2
<1>8. (p = "done" => inner = << >>) /\ (p = "endpoint" => inner # << >>)
  BY <1>2, <1>4, <1>7
<1> QED
  BY <1>1, <1>3, <1>4, <1>5, <1>6, <1>7, <1>8, QuietKeeps

LEMMA AdoptKeeps ==
    ASSUME TraceInv, NEW r \in TraceRequests, Adopt(r)
    PROVE  TraceInv'
<1> DEFINE now == [stack |-> << adopted[r].span >>, trace |-> adopted[r].trace]
           inner == << context[r] >>
<1>0. /\ context[r] \in Contexts /\ adopted[r] \in [span : Nat, trace : Nat] /\ Nested(r)
      /\ phase \in [TraceRequests -> {"endpoint", "stream", "done"}]
  BY DEF TraceInv, TraceTyped
<1>1. /\ phase[r] = "stream" /\ open[r] = << >> /\ open' = [open EXCEPT ![r] = inner]
      /\ context' = [context EXCEPT ![r] =
            [stack |-> Append(context[r].stack, adopted[r].span), trace |-> adopted[r].trace]]
      /\ phase' = [phase EXCEPT ![r] = "stream"]
      /\ UNCHANGED <<traced, minted, adopted>>
  BY <1>0 DEF Adopt, Push
<1>2. context[r] = Empty /\ ContextAt(r, context[r], 0, traced, minted)
  BY <1>0, <1>1 DEF Nested, ContextAt
<1>3. context' = [context EXCEPT ![r] = now]
  <2>1. context[r].stack = << >>
    BY <1>2 DEF Empty
  <2>2. Append(<< >>, adopted[r].span) = << adopted[r].span >>
    BY <1>0
  <2> QED
    BY <1>1, <2>1, <2>2
<1>4. now \in Contexts /\ now.stack = << adopted[r].span >> /\ now.trace = adopted[r].trace
  BY <1>0 DEF Contexts
<1>5. /\ adopted[r].trace \in 1 .. minted
      /\ Mine(r, adopted[r].span, adopted[r].trace, traced)
  BY <1>0, <1>1 DEF Nested
<1>6. inner \in Seq(Contexts) /\ Len(inner) = 1 /\ inner[1] = context[r] /\ inner # << >>
  BY <1>0
<1> HIDE DEF now, inner
<1>7. ContextAt(r, now, 1, traced, minted)
  <2>1. Len(now.stack) = 1 /\ now.stack[1] = adopted[r].span
    BY <1>4
  <2>2. \A i \in 1 .. 1 : i = 1
    OBVIOUS
  <2> QED
    BY <1>4, <1>5, <2>1, <2>2 DEF ContextAt
<1>8. \A k \in 1 .. Len(inner) : ContextAt(r, inner[k], k - 1, traced, minted)
  <2>1. \A k \in 1 .. Len(inner) : k = 1 /\ k - 1 = 0
    BY <1>6
  <2> QED
    BY <1>2, <1>6, <2>1
<1>9. ContextAt(r, now, Len(inner), traced, minted)
  BY <1>6, <1>7
<1> QED
  BY <1>1, <1>3, <1>4, <1>5, <1>6, <1>8, <1>9, QuietKeeps

LEMMA EndAdoptKeeps ==
    ASSUME TraceInv, NEW r \in TraceRequests, EndAdopt(r)
    PROVE  TraceInv'
<1> DEFINE now == open[r][1]
           inner == << >>
<1>0. /\ Nested(r) /\ open[r] \in Seq(Contexts)
  BY DEF TraceInv, TraceTyped
<1>1. /\ phase[r] = "stream" /\ Len(open[r]) = 1 /\ context' = [context EXCEPT ![r] = now]
      /\ open' = [open EXCEPT ![r] = inner] /\ phase' = [phase EXCEPT ![r] = "done"]
      /\ UNCHANGED <<traced, minted, adopted>>
  BY DEF EndAdopt, Restore
<1>2. now \in Contexts /\ ContextAt(r, now, 0, traced, minted)
  <2>1. 1 \in 1 .. Len(open[r]) /\ 1 - 1 = 0
    BY <1>1
  <2> QED
    BY <1>0, <2>1 DEF Nested
<1>3. /\ adopted[r].trace \in 1 .. minted
      /\ Mine(r, adopted[r].span, adopted[r].trace, traced)
  BY <1>0, <1>1 DEF Nested
<1>4. /\ inner \in Seq(Contexts) /\ Len(inner) = 0
      /\ \A k \in 1 .. Len(inner) : ContextAt(r, inner[k], k - 1, traced, minted)
  <2>1. \A k \in 1 .. Len(inner) : FALSE
    OBVIOUS
  <2> QED
    BY <2>1
<1> HIDE DEF now
<1> QED
  BY <1>1, <1>2, <1>3, <1>4, QuietKeeps

LEMMA TraceInvariant == TracingSpec => []TraceInv
<1>1. TracingInit => TraceInv
  <2> SUFFICES ASSUME TracingInit PROVE TraceInv
    OBVIOUS
  <2>1. Empty \in Contexts /\ << >> \in Seq(Contexts) /\ Len(<< >>) = 0 /\ << >> \in Seq(SpanRecords)
    BY DEF Empty, Contexts, NoTrace
  <2>2. \A i \in 1 .. Len(<< >>) : FALSE
    OBVIOUS
  <2>3. TraceTyped
    BY <2>1 DEF TracingInit, TraceTyped, Unrecorded, NoTrace
  <2>4. Forest(traced, minted)
    BY <2>2 DEF TracingInit, Forest
  <2>5. ASSUME NEW r \in TraceRequests PROVE Nested(r)
    <3>1. context[r] = Empty /\ open[r] = << >> /\ phase[r] = "endpoint" /\ traced = << >>
      BY DEF TracingInit
    <3>2. ContextAt(r, context[r], Len(open[r]), traced, minted)
      <4>1. Empty.stack = << >>
        BY DEF Empty
      <4>2. \A i \in 1 .. 0 : FALSE
        OBVIOUS
      <4> QED
        BY <2>1, <3>1, <4>1, <4>2 DEF ContextAt
    <3> QED
      BY <2>2, <3>1, <3>2 DEF Nested
  <2> QED
    BY <2>3, <2>4, <2>5 DEF TraceInv
<1>2. TraceInv /\ [TracingNext]_tracingVars => TraceInv'
  <2> SUFFICES ASSUME TraceInv, [TracingNext]_tracingVars PROVE TraceInv'
    OBVIOUS
  <2>1. CASE UNCHANGED tracingVars
    BY <2>1 DEF tracingVars, TraceInv, TraceTyped, Nested
  <2>2. ASSUME NEW r \in TraceRequests,
               EnterSpan(r) \/ ExitSpan(r) \/ Adopt(r) \/ EndAdopt(r)
        PROVE  TraceInv'
    BY <2>2, EnterSpanKeeps, ExitSpanKeeps, AdoptKeeps, EndAdoptKeeps
  <2> QED
    BY <2>1, <2>2 DEF TracingNext
<1> QED
  BY <1>1, <1>2, PTL DEF TracingSpec

\* Whatever the tracer fails to record, and however requests and streams interleave, the
\* spans of a request hang together under one root and one trace id of its own, and a
\* request that is over leaves no context behind (span, adopt).
THEOREM OneTree == TracingSpec => []OneTreePerRequest
<1>1. TraceInv => OneTreePerRequest
  <2> SUFFICES ASSUME TraceInv PROVE OneTreePerRequest
    OBVIOUS
  <2>1. /\ traced \in Seq(SpanRecords) /\ Forest(traced, minted)
        /\ \A r \in TraceRequests : Nested(r)
    BY DEF TraceInv, TraceTyped
  <2>2. DOMAIN traced = 1 .. Len(traced)
    BY <2>1
  <2>3. ASSUME NEW r \in TraceRequests, phase[r] = "done" PROVE context[r] = Empty
    <3>1. open[r] = << >> /\ ContextAt(r, context[r], Len(open[r]), traced, minted)
      BY <2>1, <2>3 DEF Nested
    <3>2. ContextAt(r, context[r], 0, traced, minted)
      BY <3>1
    <3> QED
      BY <3>2 DEF ContextAt
  <2>4. /\ \A i \in DOMAIN traced : traced[i].parent # NoParent =>
              LET p == traced[traced[i].parent]
              IN  p.request = traced[i].request /\ p.trace = traced[i].trace
        /\ \A i, j \in DOMAIN traced :
              (traced[i].parent = NoParent /\ traced[j].parent = NoParent /\ i # j) =>
                  traced[i].request # traced[j].request /\ traced[i].trace # traced[j].trace
    BY <2>1, <2>2 DEF Forest
  <2> QED
    BY <2>3, <2>4 DEF OneTreePerRequest
<1> QED
  BY <1>1, TraceInvariant, PTL

\* The context variables and the recorded spans keep their types: a stack names recorded
\* spans only (push_span, set_trace_id).
THEOREM TracingTypeCorrect == TracingSpec => []TracingTypeOK
<1>1. TraceInv => TracingTypeOK
  <2> SUFFICES ASSUME TraceInv PROVE TracingTypeOK
    OBVIOUS
  <2>1. /\ traced \in Seq(SpanRecords) /\ Forest(traced, minted) /\ minted \in Nat
        /\ phase \in [TraceRequests -> {"endpoint", "stream", "done"}]
    BY DEF TraceInv, TraceTyped
  <2>2. ASSUME NEW r \in TraceRequests
        PROVE  /\ context[r].trace \in 0 .. minted
               /\ \A i \in DOMAIN context[r].stack : context[r].stack[i] \in 0 .. Len(traced)
    <3> DEFINE n == Len(open[r])
    <3>1. /\ Nested(r) /\ n \in Nat /\ context[r].stack \in Seq(Nat)
      BY DEF TraceInv, TraceTyped, Contexts
    <3>2. ContextAt(r, context[r], n, traced, minted)
      BY <3>1 DEF Nested
    <3> HIDE DEF n
    <3>3. context[r].trace \in 0 .. minted
      <4>1. CASE n = 0
        BY <2>1, <3>2, <4>1 DEF ContextAt, Empty, NoTrace
      <4>2. CASE n # 0
        BY <2>1, <3>2, <4>2 DEF ContextAt
      <4> QED
        BY <4>1, <4>2
    <3>4. DOMAIN context[r].stack = 1 .. n
      BY <3>1, <3>2 DEF ContextAt
    <3> QED
      BY <3>2, <3>3, <3>4 DEF ContextAt, Mine
  <2>3. ASSUME NEW i \in DOMAIN traced PROVE traced[i].parent \in -1 .. Len(traced)
    <3>1. Len(traced) \in Nat /\ i \in 1 .. Len(traced)
      BY <2>1
    <3>2. traced[i].parent # NoParent => traced[i].parent \in 1 .. Len(traced)
      BY <2>1, <3>1 DEF Forest
    <3> QED
      BY <3>1, <3>2 DEF NoParent
  <2> QED
    BY <2>1, <2>2, <2>3 DEF TracingTypeOK
<1> QED
  BY <1>1, TraceInvariant, PTL

-----------------------------------------------------------------------------
(* The services together.                                                  *)

\* What runs beside it changes nothing of the agent.
LEMMA AgentRuns == Spec => AgentSpec
<1>1. Init => AgentInit
  BY DEF Init
<1>2. [Next]_vars => [AgentNext]_agentVars
  BY DEF Next, vars, AgentPart, agentVars
<1> QED
  BY <1>1, <1>2, PTL DEF Spec, AgentSpec

LEMMA ChatsRun == Spec => ChatSpec
<1>1. Init => ChatInit
  BY DEF Init
<1>2. [Next]_vars => [ChatNext]_chatVars
  BY DEF Next, vars, AgentPart, chatVars
<1> QED
  BY <1>1, <1>2, PTL DEF Spec, ChatSpec

LEMMA AccountsRun == Spec => AccountsSpec
<1>1. Init => AccountsInit
  BY DEF Init
<1>2. [Next]_vars => [AccountsNext]_accountVars
  BY DEF Next, vars, AgentPart, accountVars
<1> QED
  BY <1>1, <1>2, PTL DEF Spec, AccountsSpec

LEMMA TracingRuns == Spec => TracingSpec
<1>1. Init => TracingInit
  BY DEF Init
<1>2. [Next]_vars => [TracingNext]_tracingVars
  BY DEF Next, vars, AgentPart, tracingVars
<1> QED
  BY <1>1, <1>2, PTL DEF Spec, TracingSpec

LEMMA RegistryRuns == Spec => RegistrySpec
<1>1. Init => RegistryInit
  BY DEF Init
<1>2. [Next]_vars => [RegistryNext]_registryVars
  BY DEF Next, vars, AgentPart, registryVars
<1> QED
  BY <1>1, <1>2, PTL DEF Spec, RegistrySpec

\* Whichever service runs, the state of all of them keeps its types: each has variables
\* of its own, and keeps them by itself.
THEOREM ServicesTypeCorrect == Spec => []ServicesTypeOK
<1>1. AgentTypeOK /\ ChatTypeOK /\ AccountsTypeOK /\ TracingTypeOK /\ RegistryTypeOK
         => ServicesTypeOK
  BY DEF ServicesTypeOK
<1> QED
  BY <1>1, AgentRuns, ChatsRun, AccountsRun, TracingRuns, RegistryRuns,
     AgentTypeCorrect, ChatTypeCorrect, AccountsTypeCorrect, TracingTypeCorrect,
     RegistryTypeCorrect, PTL

-----------------------------------------------------------------------------
(* What an answer is checked for.                                          *)

\* The numbers of a token; there is one at least.
TokenKinds == Seq(Nat) \ {<< >>}

SentenceKinds == [marker : Seq(TokenKinds), facts : SUBSET Facts, words : SUBSET Vocabulary]

ChunkKinds == [facts : SUBSET Facts, words : SUBSET Vocabulary]

\* What the proofs use of a call.
AnswerChecked(c) ==
    /\ c.answer.text \in Seq(SentenceKinds)
    /\ c.answer.abstains \in BOOLEAN
    /\ c.chunks \in Seq(ChunkKinds)
    /\ c.judge.reply \in JudgeReplies
    /\ c.lines \in Seq(Lines)
    /\ c.relevance \in {<<1, 2>>, <<1, 1>>}

LEMMA SequencesWiden ==
    ASSUME NEW S, NEW T, S \subseteq T
    PROVE  Seq(S) \subseteq Seq(T)
OBVIOUS

LEMMA SentencesAreKinds ==
    SentenceShapes \subseteq SentenceKinds
<1> SUFFICES ASSUME NEW s \in SentenceShapes PROVE s \in SentenceKinds
  OBVIOUS
<1>1. PICK m \in BoundedSeq(CitedTokens, 1), t \in Said :
          s = [marker |-> m, facts |-> t.facts, words |-> t.words]
  BY DEF SentenceShapes
<1>2. CitedTokens \subseteq TokenKinds
  BY VerificationAssumption DEF TokenKinds
<1>3. m \in Seq(CitedTokens)
  BY BoundedIsSeq
<1>4. m \in Seq(TokenKinds)
  BY <1>2, <1>3, SequencesWiden
<1>5. t.facts \in SUBSET Facts /\ t.words \in SUBSET Vocabulary
  BY DEF Said
<1> QED
  BY <1>1, <1>4, <1>5 DEF SentenceKinds

\* The calls that TLC enumerates are of this kind, for all values of the constants.
LEMMA CallsAreChecked ==
    ASSUME NEW c \in VerificationCalls
    PROVE  AnswerChecked(c)
<1> DEFINE plain == [marker |-> << <<1>> >>, facts |-> {}, words |-> {}]
           bare == {[facts |-> {}, words |-> {}]}
           some == [function : {"build_answer_response"},
                    answer : [text : BoundedSeq(SentenceShapes, MaxSentences),
                              abstains : {FALSE}],
                    chunks : BoundedSeq(Said, MaxChunks),
                    judge : {JudgeSays({"supported"}), JudgeSays({"not_mentioned"})},
                    lines : {<<"claim">>}, relevance : {<<1, 2>>}]
           single == [function : {"build_answer_response"},
                      answer : [text : BoundedSeq(SentenceShapes, 1), abstains : BOOLEAN],
                      chunks : BoundedSeq(Said, MaxChunks), judge : Judges,
                      lines : {<<"claim">>}, relevance : {<<1, 2>>}]
           others == [function : {"build_answer_response"},
                      answer : [text : BoundedSeq({plain}, MaxSentences), abstains : BOOLEAN],
                      chunks : BoundedSeq(bare, MaxChunks),
                      judge : {JudgeSays({"not_mentioned"}), JudgeOff},
                      lines : BoundedSeq(Lines, MaxLines), relevance : {<<1, 2>>, <<1, 1>>}]
<1>1. MaxSentences \in Nat /\ MaxChunks \in Nat /\ MaxLines \in Nat
  BY VerificationAssumption
<1>2. c \in some \/ c \in single \/ c \in others
  BY DEF VerificationCalls
<1>3. SentenceShapes \subseteq SentenceKinds /\ Said \subseteq ChunkKinds
  BY SentencesAreKinds DEF Said, ChunkKinds
<1>4. <<1>> \in TokenKinds
  BY DEF TokenKinds
<1>5. plain \in SentenceKinds
  BY <1>4 DEF SentenceKinds
<1>6. /\ BoundedSeq(SentenceShapes, MaxSentences) \subseteq Seq(SentenceKinds)
      /\ BoundedSeq(SentenceShapes, 1) \subseteq Seq(SentenceKinds)
  BY <1>1, <1>3, BoundedIsSeq, SequencesWiden
<1>7. BoundedSeq({plain}, MaxSentences) \subseteq Seq(SentenceKinds)
  <2> HIDE DEF plain
  <2>1. {plain} \subseteq SentenceKinds
    BY <1>5
  <2> QED
    BY <2>1, <1>1, BoundedIsSeq, SequencesWiden
<1>8. BoundedSeq(Said, MaxChunks) \subseteq Seq(ChunkKinds)
  BY <1>1, <1>3, BoundedIsSeq, SequencesWiden
<1>9. BoundedSeq(bare, MaxChunks) \subseteq Seq(ChunkKinds)
  <2>1. bare \subseteq ChunkKinds
    BY DEF ChunkKinds
  <2> HIDE DEF bare
  <2> QED
    BY <2>1, <1>1, BoundedIsSeq, SequencesWiden
<1>10. BoundedSeq(Lines, MaxLines) \subseteq Seq(Lines)
  BY <1>1, BoundedIsSeq
<1>11. /\ JudgeOff.reply \in JudgeReplies
       /\ \A reply \in JudgeReplies : JudgeSays(reply).reply \in JudgeReplies
  BY DEF JudgeOff, JudgeSays, JudgeReplies
<1>12. {"supported"} \in JudgeReplies /\ {"not_mentioned"} \in JudgeReplies
  BY DEF JudgeReplies
<1>13. <<"claim">> \in Seq(Lines)
  BY DEF Lines
<1>14. CASE c \in some
  <2>1. /\ c.answer.text \in BoundedSeq(SentenceShapes, MaxSentences)
        /\ c.answer.abstains \in BOOLEAN /\ c.chunks \in BoundedSeq(Said, MaxChunks)
        /\ c.judge \in {JudgeSays({"supported"}), JudgeSays({"not_mentioned"})}
        /\ c.lines = <<"claim">> /\ c.relevance = <<1, 2>>
    BY <1>14
  <2>2. c.judge.reply \in JudgeReplies
    BY <2>1, <1>11, <1>12
  <2> QED
    BY <2>1, <2>2, <1>6, <1>8, <1>13 DEF AnswerChecked
<1>15. CASE c \in single
  <2>1. /\ c.answer.text \in BoundedSeq(SentenceShapes, 1)
        /\ c.answer.abstains \in BOOLEAN /\ c.chunks \in BoundedSeq(Said, MaxChunks)
        /\ c.judge \in Judges /\ c.lines = <<"claim">> /\ c.relevance = <<1, 2>>
    BY <1>15
  <2>2. c.judge.reply \in JudgeReplies
    BY <2>1, <1>11 DEF Judges
  <2> QED
    BY <2>1, <2>2, <1>6, <1>8, <1>13 DEF AnswerChecked
<1>16. CASE c \in others
  <2>1. /\ c.answer.text \in BoundedSeq({plain}, MaxSentences)
        /\ c.answer.abstains \in BOOLEAN /\ c.chunks \in BoundedSeq(bare, MaxChunks)
        /\ c.judge \in {JudgeSays({"not_mentioned"}), JudgeOff}
        /\ c.lines \in BoundedSeq(Lines, MaxLines)
        /\ c.relevance \in {<<1, 2>>, <<1, 1>>}
    BY <1>16
  <2>2. c.judge.reply \in JudgeReplies
    BY <2>1, <1>11, <1>12
  <2> QED
    BY <2>1, <2>2, <1>7, <1>9, <1>10 DEF AnswerChecked
<1> QED
  BY <1>2, <1>14, <1>15, <1>16

LEMMA FinitelyLong ==
    ASSUME NEW S, NEW s \in Seq(S)
    PROVE  IsFiniteSet(DOMAIN s)
<1>1. DOMAIN s = 1 .. Len(s) /\ Len(s) \in Nat
  OBVIOUS
<1>2. 1 \in Int /\ Len(s) \in Int
  BY <1>1
<1>3. IsFiniteSet(1 .. Len(s))
  BY <1>2, FS_Interval
<1> QED
  BY <1>1, <1>3

\* An answer cites finitely many numbers.
LEMMA CitesFinite ==
    ASSUME NEW s \in SentenceKinds
    PROVE  IsFiniteSet(Cites(s))
<1> DEFINE ranges == [i \in DOMAIN s.marker |-> Expand(s.marker[i])]
           sets == {Expand(s.marker[i]) : i \in DOMAIN s.marker}
<1>1. s.marker \in Seq(TokenKinds)
  BY DEF SentenceKinds
<1>3. IsFiniteSet(DOMAIN s.marker)
  BY <1>1, FinitelyLong
<1>4. ranges \in Surjection(DOMAIN s.marker, sets)
  BY DEF Surjection
<1>5. IsFiniteSet(sets)
  BY <1>3, <1>4, FS_Surjection
<1>6. \A i \in DOMAIN s.marker : IsFiniteSet(Expand(s.marker[i]))
  <2> SUFFICES ASSUME NEW i \in DOMAIN s.marker PROVE IsFiniteSet(Expand(s.marker[i]))
    OBVIOUS
  <2> DEFINE token == s.marker[i]
             a == AtLeastOf(token[1], token[Len(token)])
             b == AtMostOf(token[1], token[Len(token)])
  <2>1. token \in Seq(Nat) /\ token # << >>
    BY <1>1 DEF TokenKinds
  <2>2. a \in Int /\ b \in Int
    <3> HIDE DEF token
    <3>1. token[1] \in Nat /\ token[Len(token)] \in Nat
      BY <2>1
    <3> QED
      BY <3>1 DEF AtLeastOf, AtMostOf
  <2>3. Expand(s.marker[i]) = a .. b
    BY DEF Expand
  <2> HIDE DEF a, b
  <2> QED
    BY <2>2, <2>3, FS_Interval
<1>7. IsFiniteSet(UNION sets)
  BY <1>5, <1>6, FS_UNION
<1>8. Cites(s) \in SUBSET UNION sets
  BY DEF Cites
<1> QED
  BY <1>7, <1>8, FS_Subset

LEMMA ParsedFinite ==
    ASSUME NEW answer, answer.text \in Seq(SentenceKinds)
    PROVE  IsFiniteSet(ParseCitations(answer))
<1> DEFINE cites == [i \in DOMAIN answer.text |-> Cites(answer.text[i])]
           sets == {Cites(answer.text[i]) : i \in DOMAIN answer.text}
<1>2. IsFiniteSet(DOMAIN answer.text)
  BY FinitelyLong
<1>3. cites \in Surjection(DOMAIN answer.text, sets)
  BY DEF Surjection
<1>4. IsFiniteSet(sets)
  BY <1>2, <1>3, FS_Surjection
<1>5. \A i \in DOMAIN answer.text : IsFiniteSet(Cites(answer.text[i]))
  BY CitesFinite
<1> QED
  BY <1>4, <1>5, FS_UNION DEF ParseCitations

\* The judge's words hold "support" and no phrase of contradiction or absence.
Confirms(reply) == reply # {} /\ reply \subseteq {"supported", "denies"}

\* What a verdict of support and one of rejection rest on.
LEMMA VerdictMeans ==
    ASSUME NEW c, AnswerChecked(c), NEW n \in DOMAIN ValidateCitations(c)
    PROVE  LET verdict == ValidateCitations(c)[n]
               claim == ClaimForIndex(c.answer, n)
           IN  /\ n \in ParseCitations(c.answer)
               /\ verdict = "supported" =>
                     /\ n \in DOMAIN c.chunks
                     /\ \/ ClearlySupported(c.answer, claim, c.chunks[n])
                        \/ c.judge.answers /\ Confirms(c.judge.reply)
               /\ verdict \in {"contradicted", "not_mentioned"} =>
                     /\ c.judge.answers
                     /\ c.judge.reply \cap {"contradicted", "not_mentioned"} # {}
<1> DEFINE verdict == ValidateCitations(c)[n]
           claim == ClaimForIndex(c.answer, n)
           clear == ClearlySupported(c.answer, claim, c.chunks[n])
           assessed == Assess(c.answer, claim, c.chunks[n], c.judge)
<1>1. n \in ParseCitations(c.answer)
  BY DEF ValidateCitations
<1>2. verdict = IF n \notin DOMAIN c.chunks THEN "invalid" ELSE assessed
  BY DEF ValidateCitations
<1>3. assessed = CASE clear -> "supported"
                   [] ~clear /\ c.judge.answers -> ParseJudge(c.judge.reply)
                   [] OTHER -> "unverified"
  BY DEF Assess
<1>4. c.judge.reply \in SUBSET {"contradicted", "not_mentioned", "supported", "denies"}
  BY DEF AnswerChecked, JudgeReplies
<1>5. ParseJudge(c.judge.reply) = "supported" => Confirms(c.judge.reply)
  BY <1>4 DEF ParseJudge, SaysSupport, Confirms
<1>6. ParseJudge(c.judge.reply) \in {"contradicted", "not_mentioned"}
         => c.judge.reply \cap {"contradicted", "not_mentioned"} # {}
  BY <1>4 DEF ParseJudge, SaysSupport
<1>7. assessed = "supported" => clear \/ (c.judge.answers /\ Confirms(c.judge.reply))
  <2> HIDE DEF assessed, clear
  <2> QED
    BY <1>3, <1>5
<1>8. assessed \in {"contradicted", "not_mentioned"}
         => c.judge.answers /\ c.judge.reply \cap {"contradicted", "not_mentioned"} # {}
  <2> HIDE DEF assessed, clear
  <2> QED
    BY <1>3, <1>6
<1> HIDE DEF assessed
<1> QED
  BY <1>1, <1>2, <1>7, <1>8

\* What is clear without the judge.
LEMMA ClearMeans ==
    ASSUME NEW c, AnswerChecked(c), NEW n \in DOMAIN c.chunks,
           ClearlySupported(c.answer, ClaimForIndex(c.answer, n), c.chunks[n])
    PROVE  LET chunk == c.chunks[n]
               claim == ClaimForIndex(c.answer, n)
               said == Asserted(c.answer, claim, WordsOf)
           IN  /\ \A i \in claim : \A f \in c.answer.text[i].facts :
                     \E g \in chunk.facts : f = g \/ <<f, g>> \in Within
               /\ \/ \E i \in claim : c.answer.text[i].facts # {}
                  \/ 5 * Cardinality(said \ chunk.words) <= 2 * Cardinality(said)
<1> DEFINE chunk == c.chunks[n]
           claim == ClaimForIndex(c.answer, n)
           facts == UNION {c.answer.text[i].facts : i \in claim}
           said == UNION {c.answer.text[i].words : i \in claim}
<1>1. Asserted(c.answer, claim, FactsOf) = facts /\ Asserted(c.answer, claim, WordsOf) = said
  BY DEF Asserted, FactsOf, WordsOf
<1>2. facts \subseteq FoundIn(chunk) /\ (facts # {} \/ Overlaps60(said, chunk))
  <2> HIDE DEF facts, said, chunk, claim
  <2> QED
    BY <1>1 DEF ClearlySupported, chunk, claim
<1>3. \A i \in claim : \A f \in c.answer.text[i].facts :
          \E g \in chunk.facts : f = g \/ <<f, g>> \in Within
  BY <1>2 DEF FoundIn
<1>4. CASE facts # {}
  BY <1>1, <1>3, <1>4
<1>5. CASE Overlaps60(said, chunk)
  <2>1. said \in SUBSET Vocabulary
    <3> SUFFICES ASSUME NEW i \in claim PROVE c.answer.text[i].words \subseteq Vocabulary
      OBVIOUS
    <3>1. c.answer.text[i] \in SentenceKinds
      BY DEF AnswerChecked, ClaimForIndex
    <3> QED
      BY <3>1 DEF SentenceKinds
  <2>2. IsFiniteSet(said)
    BY <2>1, VerificationAssumption, FS_Subset
  <2> HIDE DEF said, chunk
  <2>3. /\ Cardinality(said \ chunk.words)
             = Cardinality(said) - Cardinality(said \cap chunk.words)
        /\ IsFiniteSet(said \ chunk.words)
    BY <2>2, FS_Difference
  <2>4. /\ Cardinality(said) \in Nat /\ Cardinality(said \cap chunk.words) \in Nat
        /\ Cardinality(said \ chunk.words) \in Nat
    BY <2>2, <2>3, FS_CardinalityType, FS_Intersection
  <2>5. said = {} => Cardinality(said) = 0 /\ Cardinality(said \ chunk.words) = 0
    BY FS_EmptySet
  <2>6. 5 * Cardinality(said \ chunk.words) <= 2 * Cardinality(said)
    BY <1>5, <2>3, <2>4, <2>5 DEF Overlaps60
  <2> QED
    BY <1>1, <1>3, <2>6 DEF chunk
<1> QED
  BY <1>2, <1>4, <1>5

\* The response of a call keeps what it promises of citations.
LEMMA CitationsAreEarned ==
    ASSUME AnswerChecked(call), result = BuildAnswerResponse(call)
    PROVE  CitationsEarned /\ DroppedByJudge
<1> DEFINE verdicts == ValidateCitations(call)
<1>1. /\ result.verdicts = verdicts
      /\ result.cited = Judged(verdicts, {"supported"})
      /\ result.dropped = Judged(verdicts, {"contradicted", "not_mentioned"})
  BY DEF BuildAnswerResponse
<1>2. ~call.answer.abstains => DOMAIN verdicts = ParseCitations(call.answer)
  BY DEF ValidateCitations, ParseCitations
<1>3. \A n \in result.cited : n \in DOMAIN verdicts /\ verdicts[n] = "supported"
  BY <1>1 DEF Judged
<1>4. \A n \in result.dropped :
          n \in DOMAIN verdicts /\ verdicts[n] \in {"contradicted", "not_mentioned"}
  BY <1>1 DEF Judged
<1>5. ASSUME NEW n \in result.cited
      PROVE  LET chunk == call.chunks[n]
                 claim == ClaimForIndex(call.answer, n)
                 said == Asserted(call.answer, claim, WordsOf)
             IN  /\ n \in DOMAIN call.chunks
                 /\ claim # {}
                 /\ \/ call.judge.answers /\ Confirms(call.judge.reply)
                    \/ /\ \A i \in claim : \A f \in call.answer.text[i].facts :
                             \E g \in chunk.facts : f = g \/ <<f, g>> \in Within
                       /\ \/ \E i \in claim : call.answer.text[i].facts # {}
                          \/ 5 * Cardinality(said \ chunk.words) <= 2 * Cardinality(said)
  <2>1. n \in DOMAIN verdicts /\ verdicts[n] = "supported"
    BY <1>3
  <2>2. /\ n \in ParseCitations(call.answer) /\ n \in DOMAIN call.chunks
        /\ \/ ClearlySupported(call.answer, ClaimForIndex(call.answer, n), call.chunks[n])
           \/ call.judge.answers /\ Confirms(call.judge.reply)
    BY <2>1, VerdictMeans
  <2>3. ClaimForIndex(call.answer, n) # {}
    BY <2>2 DEF ParseCitations, ClaimForIndex
  <2> QED
    BY <2>2, <2>3, ClearMeans
<1>6. CitationsEarned
  <2> HIDE DEF verdicts
  <2>1. result.cited \subseteq DOMAIN call.chunks
    BY <1>5
  <2> QED
    BY <1>1, <1>2, <1>5, <2>1 DEF CitationsEarned, Confirms
<1>7. DroppedByJudge
  BY <1>4, VerdictMeans DEF DroppedByJudge
<1> QED
  BY <1>6, <1>7

\* What cannot be parsed has a token of three numbers.
LEMMA UnreadableIsLong ==
    ASSUME AnswerChecked(call), ParsingRaises(call.answer)
    PROVE  RaisesOnTokensOnly
<1>1. PICK i \in DOMAIN call.answer.text : \E j \in DOMAIN call.answer.text[i].marker :
          ~Readable(call.answer.text[i].marker[j])
  BY DEF ParsingRaises
<1>2. PICK j \in DOMAIN call.answer.text[i].marker :
          ~Readable(call.answer.text[i].marker[j])
  BY <1>1
<1> DEFINE token == call.answer.text[i].marker[j]
<1>3. call.answer.text[i] \in SentenceKinds
  BY DEF AnswerChecked
<1>4. call.answer.text[i].marker \in Seq(TokenKinds)
  BY <1>3 DEF SentenceKinds
<1>5. token \in Seq(Nat)
  BY <1>4 DEF TokenKinds
<1>6. Len(token) >= 3
  BY <1>2, <1>5 DEF Readable
<1>7. token \in {call.answer.text[i].marker[k] : k \in DOMAIN call.answer.text[i].marker}
  OBVIOUS
<1> HIDE DEF token
<1> QED
  BY <1>6, <1>7 DEF RaisesOnTokensOnly

\* How many claims the verifier listed.
LEMMA FindingsCount ==
    ASSUME NEW c, AnswerChecked(c)
    PROVE  /\ Cardinality(Unsupported(c.lines)) \in Nat
           /\ Cardinality(Unsupported(c.lines)) = 0
                 <=> ~\E i \in DOMAIN c.lines : c.lines[i] = "claim"
<1>2. IsFiniteSet(DOMAIN c.lines)
  BY FinitelyLong DEF AnswerChecked
<1>3. Unsupported(c.lines) \in SUBSET DOMAIN c.lines
  BY DEF Unsupported
<1>4. IsFiniteSet(Unsupported(c.lines))
  BY <1>2, <1>3, FS_Subset
<1>5. Unsupported(c.lines) = {} <=> ~\E i \in DOMAIN c.lines : c.lines[i] = "claim"
  BY DEF Unsupported
<1> QED
  BY <1>4, <1>5, FS_CardinalityType, FS_EmptySet

\* What a check says, by what the verifier wrote.
CheckEarned(check, c) ==
    /\ check.verified \in BOOLEAN /\ check.grounded \in BOOLEAN
    /\ check.confidence \in Nat \X Nat /\ check.confidence[1] <= check.confidence[2]
    /\ ~check.verified => ~check.grounded /\ check.confidence[1] = 0
    /\ c.lines = << >> => ~check.verified
    /\ check.unsupported > 0 => ~check.grounded /\ Exceeds(<<1, 1>>, check.confidence)
    /\ c.lines # << >> /\ ~GroundedOutright(Head(c.lines))
          /\ (\E i \in DOMAIN c.lines : c.lines[i] = "claim") => ~check.grounded

LEMMA ChecksAreEarned ==
    ASSUME NEW c, AnswerChecked(c)
    PROVE  CheckEarned(GroundednessCheck(c), c)
<1> DEFINE findings == Cardinality(Unsupported(c.lines))
           total == AtMostOf(Len(c.answer.text), 1)
           check == GroundednessCheck(c)
           found == [grounded |-> FALSE, confidence |-> <<AtMostOf(total - findings, 0), total>>,
                     unsupported |-> findings, verified |-> TRUE]
           clean == [grounded |-> TRUE, confidence |-> <<85, 100>>, unsupported |-> 0,
                     verified |-> TRUE]
           whole == [grounded |-> TRUE, confidence |-> <<1, 1>>, unsupported |-> 0,
                     verified |-> TRUE]
<1>1. findings \in Nat /\ (findings = 0 <=> ~\E i \in DOMAIN c.lines : c.lines[i] = "claim")
  BY FindingsCount
<1>2. total \in Nat /\ total >= 1
  <2>1. Len(c.answer.text) \in Nat
    BY DEF AnswerChecked
  <2> QED
    BY <2>1 DEF AtMostOf
<1>3. check = CASE c.lines = << >> -> FailClosed
                [] c.lines # << >> /\ GroundedOutright(Head(c.lines)) -> whole
                [] c.lines # << >> /\ ~GroundedOutright(Head(c.lines)) /\ findings = 0 -> clean
                [] OTHER -> found
  BY DEF GroundednessCheck
<1>4. CASE c.lines = << >>
  <2>1. check = FailClosed
    <3> HIDE DEF check, findings, whole, clean, found
    <3> QED
      BY <1>3, <1>4
  <2> HIDE DEF check
  <2> QED
    BY <2>1, <1>4 DEF CheckEarned, FailClosed, check
<1>5. CASE c.lines # << >> /\ GroundedOutright(Head(c.lines))
  <2>1. check = whole
    <3> HIDE DEF check, findings, whole, clean, found
    <3> QED
      BY <1>3, <1>5
  <2> HIDE DEF check
  <2> QED
    BY <2>1, <1>5 DEF CheckEarned, check
<1>6. CASE c.lines # << >> /\ ~GroundedOutright(Head(c.lines)) /\ findings = 0
  <2>1. check = clean
    <3> HIDE DEF check, findings, whole, clean, found
    <3> QED
      BY <1>3, <1>6
  <2> HIDE DEF check
  <2> QED
    BY <2>1, <1>6, <1>1 DEF CheckEarned, check
<1>7. CASE c.lines # << >> /\ ~GroundedOutright(Head(c.lines)) /\ findings # 0
  <2>1. check = found
    <3> HIDE DEF check, findings, whole, clean, found
    <3> QED
      BY <1>3, <1>7
  <2>2. /\ AtMostOf(total - findings, 0) \in Nat
        /\ AtMostOf(total - findings, 0) < total
    <3> HIDE DEF total, findings
    <3> QED
      BY <1>1, <1>2, <1>7 DEF AtMostOf
  <2>3. Exceeds(<<1, 1>>, check.confidence)
    <3> DEFINE left == AtMostOf(total - findings, 0)
    <3>1. check.confidence = <<left, total>>
      BY <2>1
    <3> HIDE DEF left, total, check
    <3> QED
      BY <3>1, <2>2, <1>2 DEF Exceeds, left
  <2> HIDE DEF check, findings, total
  <2> QED
    BY <2>1, <2>2, <2>3, <1>2, <1>7 DEF CheckEarned, check
<1> QED
  BY <1>4, <1>5, <1>6, <1>7

\* The check of a response is that of its call, or that of an abstention.
LEMMA ResponseCheck ==
    ASSUME AnswerChecked(call), result = BuildAnswerResponse(call)
    PROVE  /\ result.abstained = call.answer.abstains
           /\ call.answer.abstains
                 => result.check = [grounded |-> FALSE, confidence |-> <<0, 1>>,
                                    unsupported |-> 0, verified |-> TRUE]
           /\ ~call.answer.abstains => result.check = GroundednessCheck(call)
<1>1. [FailClosed EXCEPT !.verified = TRUE] =
          [grounded |-> FALSE, confidence |-> <<0, 1>>, unsupported |-> 0, verified |-> TRUE]
  <2> DEFINE closed == [FailClosed EXCEPT !.verified = TRUE]
  <2>1. FailClosed \in [grounded : {FALSE}, confidence : {<<0, 1>>}, unsupported : {0},
                        verified : BOOLEAN]
    BY DEF FailClosed
  <2>2. \A kinds : \A f \in [grounded : {FALSE}, confidence : kinds, unsupported : {0},
                               verified : BOOLEAN] :
            [f EXCEPT !.verified = TRUE] \in
                [grounded : {FALSE}, confidence : kinds, unsupported : {0}, verified : {TRUE}]
    OBVIOUS
  <2>3. closed \in [grounded : {FALSE}, confidence : {<<0, 1>>}, unsupported : {0},
                    verified : {TRUE}]
    BY <2>1, <2>2
  <2> HIDE DEF closed
  <2>4. closed = [grounded |-> FALSE, confidence |-> <<0, 1>>, unsupported |-> 0,
                  verified |-> TRUE]
    BY <2>3
  <2> QED
    BY <2>4 DEF closed
<1>2. /\ result.abstained = call.answer.abstains
      /\ result.check = IF call.answer.abstains THEN [FailClosed EXCEPT !.verified = TRUE]
                        ELSE GroundednessCheck(call)
  BY DEF BuildAnswerResponse
<1> QED
  BY <1>1, <1>2

LEMMA ConfidenceIsEarned ==
    ASSUME AnswerChecked(call), result = BuildAnswerResponse(call)
    PROVE  ConfidenceEarned
<1> DEFINE check == result.check
<1>1. result.abstained = call.answer.abstains /\ call.answer.abstains \in BOOLEAN
  BY ResponseCheck DEF AnswerChecked
<1>2. CASE call.answer.abstains
  <2>1. check = [grounded |-> FALSE, confidence |-> <<0, 1>>, unsupported |-> 0,
                 verified |-> TRUE]
    BY <1>2, ResponseCheck
  <2> QED
    BY <2>1, <1>1, <1>2 DEF ConfidenceEarned
<1>3. CASE ~call.answer.abstains
  <2>1. CheckEarned(check, call)
    BY <1>3, ResponseCheck, ChecksAreEarned
  <2> HIDE DEF check
  <2>2. check.confidence[1] <= check.confidence[2]
    BY <2>1 DEF CheckEarned
  <2> QED
    BY <2>1, <2>2, <1>1, <1>3 DEF ConfidenceEarned, CheckEarned, check, GroundedOutright
<1> QED
  BY <1>2, <1>3

LEMMA ThinEvidenceIsMarked ==
    ASSUME AnswerChecked(call), result = BuildAnswerResponse(call)
    PROVE  ThinEvidenceMarked
<1> DEFINE verdicts == ValidateCitations(call)
           valid == Judged(verdicts, {"supported"})
           dropped == Judged(verdicts, {"contradicted", "not_mentioned"})
           cited == Cardinality(valid \cup dropped)
           coverage == IF cited = 0 THEN <<0, 1>> ELSE <<Cardinality(valid), cited>>
           retrieval == IF call.chunks = << >> THEN <<0, 1>> ELSE call.relevance
           check == result.check
<1> SUFFICES ASSUME valid = {}, check.verified, check.confidence[1] > 0
             PROVE  Exceeds(check.confidence, LowerOf(retrieval, coverage))
  <2>1. result.cited = valid
    BY DEF BuildAnswerResponse
  <2>2. result.signals.capped =
            (check.verified /\ Exceeds(check.confidence, LowerOf(retrieval, coverage)))
    BY DEF BuildAnswerResponse, Signals
  <2> HIDE DEF valid, retrieval, coverage, check
  <2> QED
    BY <2>1, <2>2 DEF ThinEvidenceMarked, check
<1>1. PICK a, b \in Nat : check.confidence = <<a, b>>
  <2>1. CASE call.answer.abstains
    BY <2>1, ResponseCheck
  <2>2. CASE ~call.answer.abstains
    BY <2>2, ResponseCheck, ChecksAreEarned DEF CheckEarned
  <2> QED
    BY <2>1, <2>2
<1>2. a > 0
  BY <1>1
<1>3. cited \in Nat
  <2>1. DOMAIN verdicts \in SUBSET ParseCitations(call.answer)
    BY DEF ValidateCitations
  <2>2. IsFiniteSet(DOMAIN verdicts)
    BY <2>1, ParsedFinite, FS_Subset DEF AnswerChecked
  <2>3. valid \cup dropped \in SUBSET DOMAIN verdicts
    BY DEF Judged
  <2> QED
    BY <2>2, <2>3, FS_Subset, FS_CardinalityType
<1>4. \E k \in Nat \ {0} : coverage = <<0, k>>
  <2>1. Cardinality(valid) = 0
    BY FS_EmptySet
  <2> HIDE DEF valid, cited
  <2> QED
    BY <2>1, <1>3
<1>5. retrieval \in {<<0, 1>>, <<1, 2>>, <<1, 1>>}
  BY DEF AnswerChecked
<1>6. \E k \in Nat \ {0} : LowerOf(retrieval, coverage) = <<0, k>>
  <2>1. PICK k \in Nat \ {0} : coverage = <<0, k>>
    BY <1>4
  <2> HIDE DEF retrieval, coverage
  <2>2. CASE retrieval = <<0, 1>>
    BY <2>1, <2>2 DEF LowerOf, Exceeds
  <2>3. CASE retrieval = <<1, 2>>
    BY <2>1, <2>3 DEF LowerOf, Exceeds
  <2>4. CASE retrieval = <<1, 1>>
    BY <2>1, <2>4 DEF LowerOf, Exceeds
  <2> QED
    BY <1>5, <2>2, <2>3, <2>4
<1>7. PICK k \in Nat \ {0} : LowerOf(retrieval, coverage) = <<0, k>>
  BY <1>6
<1>8. a * k > 0 * b
  <2>1. \A x, y \in Nat \ {0} : x * y > 0
    OBVIOUS
  <2> QED
    BY <2>1, <1>1, <1>2, <1>7
<1> HIDE DEF check, retrieval, coverage
<1> QED
  BY <1>1, <1>7, <1>8 DEF Exceeds

-----------------------------------------------------------------------------
(* The vector stores: what a write leaves.                                 *)

StoreStates == [Owners -> [Ids -> Texts \cup {Vacant}]]

WriteOutcomes == [store : StoreStates, ok : BOOLEAN]

\* The owner's chunks in W have the texts, and nothing else differs.
Wrote(before, after, owner, W, texts) ==
    /\ after \in StoreStates
    /\ \A o \in Owners, i \in Ids :
          after[o][i] = IF o = owner /\ i \in W THEN texts[i] ELSE before[o][i]

\* The owner's chunks in W are gone, and nothing else differs.
Cleared(before, after, owner, W) ==
    /\ after \in StoreStates
    /\ \A o \in Owners, i \in Ids :
          after[o][i] = IF o = owner /\ i \in W THEN Vacant ELSE before[o][i]

LEMMA RewrittenMeans ==
    ASSUME NEW store \in StoreStates, NEW owner \in Owners, NEW W, NEW texts,
           \A i \in W \cap Ids : texts[i] \in Texts \cup {Vacant}
    PROVE  Wrote(store, Rewritten(store, owner, W, texts), owner, W, texts)
<1> DEFINE mine == [i \in Ids |-> IF i \in W THEN texts[i] ELSE store[owner][i]]
<1>1. Rewritten(store, owner, W, texts) = [store EXCEPT ![owner] = mine]
  BY DEF Rewritten, StoreStates
<1>2. mine \in [Ids -> Texts \cup {Vacant}]
  BY DEF StoreStates
<1>3. \A i \in Ids : mine[i] = IF i \in W THEN texts[i] ELSE store[owner][i]
  OBVIOUS
<1> HIDE DEF mine
<1> QED
  BY <1>1, <1>2, <1>3 DEF Wrote, StoreStates

LEMMA RemovedMeans ==
    ASSUME NEW store \in StoreStates, NEW owner \in Owners, NEW W \in SUBSET Ids
    PROVE  Cleared(store, Removed(store, owner, W), owner, W)
<1> DEFINE none == [i \in W |-> Vacant]
<1>1. \A i \in W : none[i] = Vacant
  OBVIOUS
<1>2. Removed(store, owner, W) = Rewritten(store, owner, W, none)
  BY DEF Removed
<1> HIDE DEF none
<1>3. Wrote(store, Removed(store, owner, W), owner, W, none)
  BY <1>1, <1>2, RewrittenMeans
<1> QED
  BY <1>1, <1>3 DEF Wrote, Cleared

LEMMA NothingWritten ==
    ASSUME NEW store \in StoreStates, NEW owner, NEW texts
    PROVE  Wrote(store, store, owner, {}, texts)
BY DEF Wrote

\* An outcome in which all of a batch was written, and one in which some of it was.
LEMMA SuccessOf ==
    ASSUME NEW store, NEW after, NEW owner, NEW texts, NEW all,
           Wrote(store, after, owner, all, texts),
           NEW o, o = [store |-> after, ok |-> TRUE]
    PROVE  /\ o \in WriteOutcomes
           /\ \E V \in SUBSET all : Wrote(store, o.store, owner, V, texts) /\ (o.ok => V = all)
<1>1. after \in StoreStates
  BY DEF Wrote
<1> QED
  BY <1>1 DEF WriteOutcomes

LEMMA FailureOf ==
    ASSUME NEW store, NEW after, NEW owner, NEW texts, NEW all, NEW W \in SUBSET all,
           Wrote(store, after, owner, W, texts),
           NEW o, o = [store |-> after, ok |-> FALSE]
    PROVE  /\ o \in WriteOutcomes
           /\ \E V \in SUBSET all : Wrote(store, o.store, owner, V, texts) /\ (o.ok => V = all)
<1>1. after \in StoreStates
  BY DEF Wrote
<1>2. o.store = after /\ ~o.ok
  OBVIOUS
<1>3. o \in WriteOutcomes
  BY <1>1 DEF WriteOutcomes
<1>4. \E V \in SUBSET all : Wrote(store, o.store, owner, V, texts)
  BY <1>2
<1> QED
  BY <1>2, <1>3, <1>4

\* Both drivers write some of a batch, and all of it unless they fail.
LEMMA UpsertMeans ==
    ASSUME NEW kind, NEW store \in StoreStates, NEW owner \in Owners, NEW batch \in Seq(Ids),
           NEW texts, \A i \in ToSet(batch) : texts[i] \in Texts,
           NEW o \in Upsert(kind, store, owner, batch, texts)
    PROVE  /\ o \in WriteOutcomes
           /\ \E W \in SUBSET ToSet(batch) :
                 Wrote(store, o.store, owner, W, texts) /\ (o.ok => W = ToSet(batch))
<1>1. \A W \in SUBSET ToSet(batch) :
          Wrote(store, Rewritten(store, owner, W, texts), owner, W, texts)
  BY RewrittenMeans
<1>2. Wrote(store, store, owner, {}, texts)
  BY NothingWritten
<1>3. CASE batch = << >>
  <2>1. o = [store |-> store, ok |-> TRUE] /\ ToSet(batch) = {}
    BY <1>3 DEF Upsert, ToSet
  <2> QED
    BY <2>1, <1>2, SuccessOf
<1>4. CASE batch # << >> /\ kind = "pgvector"
  <2> DEFINE done == Rewritten(store, owner, ToSet(batch), texts)
  <2>1. o \in {[store |-> done, ok |-> TRUE], [store |-> done, ok |-> FALSE],
               [store |-> store, ok |-> FALSE]}
    BY <1>4 DEF Upsert, PgUpsert, Attempted
  <2>2. Wrote(store, done, owner, ToSet(batch), texts)
    BY <1>1
  <2> HIDE DEF done
  <2>3. CASE o = [store |-> done, ok |-> TRUE]
    BY <2>2, <2>3, SuccessOf
  <2>4. CASE o = [store |-> done, ok |-> FALSE]
    BY <2>2, <2>4, FailureOf
  <2>5. CASE o = [store |-> store, ok |-> FALSE]
    <3>1. {} \in SUBSET ToSet(batch)
      OBVIOUS
    <3> QED
      BY <3>1, <2>5, <1>2, FailureOf
  <2> QED
    BY <2>1, <2>3, <2>4, <2>5
<1>5. CASE batch # << >> /\ kind # "pgvector"
  <2> DEFINE Part(n) == ToSet(SubSeq(batch, 1, n))
             done(n) == Rewritten(store, owner, Part(n), texts)
             all == Rewritten(store, owner, ToSet(batch), texts)
  <2>1. \/ o = [store |-> all, ok |-> TRUE]
        \/ \E n \in 0 .. Len(batch) : o = [store |-> done(n), ok |-> FALSE]
    BY <1>5 DEF Upsert, PineconeUpsert
  <2>2. ASSUME NEW n \in 0 .. Len(batch) PROVE Part(n) \subseteq ToSet(batch)
    <3>1. \A i \in 1 .. n : SubSeq(batch, 1, n)[i] = batch[i] /\ i \in DOMAIN batch
      OBVIOUS
    <3>2. DOMAIN SubSeq(batch, 1, n) = 1 .. n
      OBVIOUS
    <3> QED
      BY <3>1, <3>2 DEF ToSet
  <2>3. Wrote(store, all, owner, ToSet(batch), texts)
    BY <1>1
  <2>4. \A n \in 0 .. Len(batch) : Wrote(store, done(n), owner, Part(n), texts)
    BY <1>1, <2>2
  <2> HIDE DEF done, all, Part
  <2>5. CASE o = [store |-> all, ok |-> TRUE]
    BY <2>5, <2>3, SuccessOf
  <2>6. ASSUME NEW n \in 0 .. Len(batch), o = [store |-> done(n), ok |-> FALSE]
        PROVE  /\ o \in WriteOutcomes
               /\ \E W \in SUBSET ToSet(batch) :
                     Wrote(store, o.store, owner, W, texts) /\ (o.ok => W = ToSet(batch))
    BY <2>6, <2>2, <2>4, FailureOf
  <2> QED
    BY <2>1, <2>5, <2>6
<1> QED
  BY <1>3, <1>4, <1>5

\* What a call of a driver's delete names: the ids, or else the document.
Chosen(ids, doc) == IF ids # {} THEN ids ELSE {i \in Ids : Passes(i, {}, doc)}

\* Both drivers delete all of that and nothing else, or fail and delete nothing.
LEMMA DeleteMeans ==
    ASSUME NEW kind, NEW store \in StoreStates, NEW owner \in Owners,
           NEW ids \in SUBSET Ids, NEW doc, ids = {} \/ doc = Vacant,
           NEW o \in Delete(kind, store, owner, ids, doc)
    PROVE  /\ o \in WriteOutcomes
           /\ Cleared(store, o.store, owner, Chosen(ids, doc)) \/ (~o.ok /\ o.store = store)
<1> DEFINE chosen == Chosen(ids, doc)
           done == Removed(store, owner, chosen)
<1>1. chosen \in SUBSET Ids
  BY DEF Chosen
<1>2. Cleared(store, done, owner, chosen)
  BY <1>1, RemovedMeans
<1>3. o \in Attempted(store, done)
          => /\ o \in WriteOutcomes
             /\ Cleared(store, o.store, owner, chosen) \/ (~o.ok /\ o.store = store)
  <2>1. done \in StoreStates
    BY <1>2 DEF Cleared
  <2> HIDE DEF done, chosen
  <2>2. CASE o = [store |-> done, ok |-> TRUE]
    BY <1>2, <2>1, <2>2 DEF WriteOutcomes
  <2>3. CASE o = [store |-> done, ok |-> FALSE]
    BY <1>2, <2>1, <2>3 DEF WriteOutcomes
  <2>4. CASE o = [store |-> store, ok |-> FALSE]
    <3>1. ~o.ok /\ o.store = store
      BY <2>4
    <3> QED
      BY <3>1, <2>4 DEF WriteOutcomes
  <2> QED
    BY <2>2, <2>3, <2>4 DEF Attempted
<1>4. CASE kind = "pgvector"
  <2>1. {i \in Ids : Passes(i, ids, doc)} = chosen
    BY DEF Passes, Chosen
  <2>2. o \in Attempted(store, done)
    BY <1>4, <2>1 DEF Delete, PgDelete
  <2> QED
    BY <2>2, <1>3
<1>5. CASE kind # "pgvector" /\ Held(store, owner) = {}
  <2>1. o = [store |-> store, ok |-> TRUE]
    BY <1>5 DEF Delete, PineconeDelete
  <2>2. \A i \in Ids : store[owner][i] = Vacant
    BY <1>5 DEF Held
  <2>3. Cleared(store, store, owner, chosen)
    BY <2>2 DEF Cleared
  <2>4. o \in WriteOutcomes /\ o.store = store
    BY <2>1 DEF WriteOutcomes
  <2> QED
    BY <2>3, <2>4
<1>6. CASE kind # "pgvector" /\ Held(store, owner) # {}
  <2>1. o \in Attempted(store, done)
    BY <1>6 DEF Delete, PineconeDelete, Chosen
  <2> QED
    BY <2>1, <1>3
<1> HIDE DEF chosen
<1> QED
  BY <1>4, <1>5, <1>6 DEF chosen

\* What the calls are made with.
LEMMA StoreCallsTyped ==
    /\ TheOwner \in Owners /\ TheText \in Texts
    /\ Stores(TheOwner, TheDoc) \subseteq StoreStates
<1>1. TheOwner \in Owners /\ TheText \in Texts
  BY StoresAssumption DEF TheOwner, TheText
<1> DEFINE Mix(own, t) == [o \in Owners |-> [i \in Ids |->
                 IF o = TheOwner /\ DocOf[i] = TheDoc THEN own[i] ELSE t]]
           Owned == [{i \in Ids : DocOf[i] = TheDoc} -> Maybe]
<1>2. ASSUME NEW own \in Owned, NEW t \in {TheText, Vacant}
      PROVE  Mix(own, t) \in StoreStates
  <2> DEFINE F(o) == [i \in Ids |->
                 IF o = TheOwner /\ DocOf[i] = TheDoc THEN own[i] ELSE t]
  <2>1. \A o \in Owners : F(o) \in [Ids -> Texts \cup {Vacant}]
    BY <1>1, <1>2 DEF Maybe
  <2>2. Mix(own, t) = [o \in Owners |-> F(o)]
    OBVIOUS
  <2> HIDE DEF F, Mix
  <2> QED
    BY <2>1, <2>2 DEF StoreStates
<1>3. Stores(TheOwner, TheDoc) = {Mix(own, t) : own \in Owned, t \in {TheText, Vacant}}
  BY DEF Stores
<1> HIDE DEF Mix, Owned
<1> QED
  BY <1>1, <1>2, <1>3

\* What a read may find.
LEMMA ViewsMean ==
    ASSUME NEW kind, NEW store \in StoreStates, NEW owner \in Owners,
           NEW was \in [Ids -> Texts \cup {Vacant}], NEW seen \in Views(kind, store, was, owner)
    PROVE  /\ seen \in StoreStates
           /\ kind = "pgvector" => seen = store
           /\ \A o \in Owners, i \in Ids :
                 \/ seen[o][i] = store[o][i]
                 \/ o = owner /\ kind # "pgvector" /\ seen[o][i] = was[i]
<1>1. CASE kind = "pgvector"
  BY <1>1 DEF Views
<1>2. CASE kind # "pgvector"
  <2>1. PICK late \in SUBSET {i \in Ids : was[i] # store[owner][i]} :
            seen = Rewritten(store, owner, late, was)
    BY <1>2 DEF Views
  <2>2. \A i \in late \cap Ids : was[i] \in Texts \cup {Vacant}
    OBVIOUS
  <2>3. Wrote(store, seen, owner, late, was)
    BY <2>1, <2>2, RewrittenMeans
  <2> QED
    BY <1>2, <2>3 DEF Wrote
<1> QED
  BY <1>1, <1>2

LEMMA ElsewhereMeans ==
    ASSUME NEW store \in StoreStates, NEW owner, NEW doc
    PROVE  /\ Elsewhere(store, owner, doc) \in StoreStates
           /\ \A o \in Owners, i \in Ids : Elsewhere(store, owner, doc)[o][i] =
                 IF o = owner /\ DocOf[i] = doc THEN Vacant ELSE store[o][i]
<1> DEFINE rest(o) == [i \in Ids |-> IF o = owner /\ DocOf[i] = doc THEN Vacant
                                     ELSE store[o][i]]
<1>1. Elsewhere(store, owner, doc) = [o \in Owners |-> rest(o)]
  BY DEF Elsewhere
<1>2. \A o \in Owners : rest(o) \in [Ids -> Texts \cup {Vacant}]
  BY DEF StoreStates
<1>3. \A o \in Owners, i \in Ids : rest(o)[i] =
          IF o = owner /\ DocOf[i] = doc THEN Vacant ELSE store[o][i]
  OBVIOUS
<1> HIDE DEF rest
<1> QED
  BY <1>1, <1>2, <1>3 DEF StoreStates

\* Two stores that agree everywhere are the same.
LEMMA SameStores ==
    ASSUME NEW a \in StoreStates, NEW b \in StoreStates,
           \A o \in Owners, i \in Ids : a[o][i] = b[o][i]
    PROVE  a = b
<1>1. \A o \in Owners : /\ a[o] \in [Ids -> Texts \cup {Vacant}]
                         /\ b[o] \in [Ids -> Texts \cup {Vacant}]
  BY DEF StoreStates
<1>2. \A o \in Owners : a[o] = b[o]
  BY <1>1
<1> QED
  BY <1>2 DEF StoreStates

LEMMA DeletesAreExact ==
    ASSUME call \in DeleteCalls,
           result \in Delete(call.kind, call.store, call.owner, {}, call.doc)
    PROVE  \/ result.store = Elsewhere(call.store, call.owner, call.doc)
           \/ ~result.ok /\ result.store = call.store
<1>1. call.store \in StoreStates /\ call.owner \in Owners /\ call.doc \in Docs
  BY StoreCallsTyped DEF DeleteCalls
<1>2. Chosen({}, call.doc) = {i \in Ids : DocOf[i] = call.doc}
  BY <1>1, StoresAssumption DEF Chosen, Passes, Docs
<1>3. /\ result \in WriteOutcomes
      /\ \/ Cleared(call.store, result.store, call.owner, Chosen({}, call.doc))
         \/ ~result.ok /\ result.store = call.store
  BY <1>1, DeleteMeans
<1>4. ASSUME Cleared(call.store, result.store, call.owner, Chosen({}, call.doc))
      PROVE  result.store = Elsewhere(call.store, call.owner, call.doc)
  <2>1. \A o \in Owners, i \in Ids :
            result.store[o][i] = Elsewhere(call.store, call.owner, call.doc)[o][i]
    BY <1>1, <1>2, <1>4, ElsewhereMeans DEF Cleared
  <2> QED
    BY <2>1, <1>1, <1>4, ElsewhereMeans, SameStores DEF Cleared
<1> QED
  BY <1>3, <1>4

-----------------------------------------------------------------------------
(* The vector stores: the batches of a document.                           *)

\* The sequence that a set is put into has its members.
LEMMA SetOrder ==
    ASSUME NEW S, IsFiniteSet(S)
    PROVE  SetToSeq(S) \in Seq(S) /\ ToSet(SetToSeq(S)) = S
<1> DEFINE n == Cardinality(S)
           f == SetToSeq(S)
<1>1. n \in Nat /\ ExistsBijection(1 .. n, S)
  BY FS_CardinalityType
<1>2. \E g \in [1 .. n -> S] : IsInjective(g)
  BY <1>1 DEF ExistsBijection, Bijection, Injection, IsInjective
<1>3. f \in [1 .. n -> S] /\ IsInjective(f)
  BY <1>2 DEF SetToSeq
<1>4. f \in Injection(1 .. n, S)
  BY <1>3 DEF Injection, IsInjective
<1>5. Cardinality(1 .. n) = n
  <2>1. 1 \in Int /\ n \in Int
    BY <1>1
  <2>2. Cardinality(1 .. n) = IF 1 > n THEN 0 ELSE n - 1 + 1
    BY <2>1, FS_Interval
  <2> HIDE DEF n
  <2> QED
    BY <2>2, <1>1
<1>6. f \in Surjection(1 .. n, S)
  BY <1>4, <1>5, FS_Injection
<1>7. f \in Seq(S) /\ DOMAIN f = 1 .. n
  BY <1>1, <1>3
<1>8. ToSet(f) = S
  BY <1>3, <1>6, <1>7 DEF Surjection, ToSet
<1> QED
  BY <1>7, <1>8

\* What a piece of a sequence holds.
LEMMA PieceOf ==
    ASSUME NEW S, NEW s \in Seq(S), NEW m \in Nat \ {0}, NEW n \in 0 .. Len(s)
    PROVE  /\ SubSeq(s, m, n) \in Seq(S)
           /\ ToSet(SubSeq(s, m, n)) = {s[j] : j \in m .. n}
<1> DEFINE t == SubSeq(s, m, n)
           size == IF m <= n THEN n - m + 1 ELSE 0
<1>1. size \in Nat /\ Len(s) \in Nat
  OBVIOUS
<1>2. t = [i \in 1 .. size |-> s[i + m - 1]]
  OBVIOUS
<1>3. \A i \in 1 .. size : i + m - 1 \in m .. n /\ i + m - 1 \in 1 .. Len(s)
  OBVIOUS
<1>4. \A j \in m .. n : j - m + 1 \in 1 .. size /\ (j - m + 1) + m - 1 = j
  OBVIOUS
<1>5. \A i \in 1 .. size : s[i + m - 1] \in S
  BY <1>3
<1> HIDE DEF size, t
<1>6. t \in [1 .. size -> S]
  BY <1>2, <1>5
<1>7. t \in Seq(S) /\ DOMAIN t = 1 .. size
  BY <1>1, <1>6
<1>8. \A i \in 1 .. size : t[i] = s[i + m - 1]
  BY <1>2
<1>9. ToSet(t) \subseteq {s[j] : j \in m .. n}
  BY <1>3, <1>7, <1>8 DEF ToSet
<1>10. ASSUME NEW j \in m .. n PROVE s[j] \in ToSet(t)
  <2>1. t[j - m + 1] = s[j] /\ j - m + 1 \in DOMAIN t
    BY <1>4, <1>7, <1>8
  <2> QED
    BY <2>1 DEF ToSet
<1>11. {s[j] : j \in m .. n} \subseteq ToSet(t)
  BY <1>10
<1>12. ToSet(t) = {s[j] : j \in m .. n}
  BY <1>9, <1>11
<1> QED
  BY <1>7, <1>12 DEF t

\* So many batches are enough.
LEMMA EnoughBatches ==
    ASSUME NEW n \in Nat, NEW c \in Nat \ {0}
    PROVE  (n + c - 1) \div c \in 0 .. n /\ c * ((n + c - 1) \div c) >= n
<1> DEFINE a == n + c - 1
           k == a \div c
<1>1. a \in Nat /\ k \in Int /\ c * k <= a /\ a < c * k + c
  OBVIOUS
<1>2. c * k >= n
  BY <1>1
<1>3. k >= 0
  <2>1. k < 0 => c * k <= 0 - c
    BY <1>1
  <2> HIDE DEF k
  <2> QED
    BY <1>1, <2>1
<1>4. k <= n
  <2>1. k > n => c * k >= c * (n + 1)
    BY <1>1
  <2>2. c * (n + 1) >= n + c
    OBVIOUS
  <2> HIDE DEF k
  <2> QED
    BY <1>1, <2>1, <2>2
<1> QED
  BY <1>1, <1>2, <1>3, <1>4

LEMMA WritesCompose ==
    ASSUME NEW a, NEW b, NEW c, NEW owner, NEW texts, NEW V, NEW W,
           Wrote(a, b, owner, V, texts), Wrote(b, c, owner, W, texts)
    PROVE  Wrote(a, c, owner, V \cup W, texts)
BY DEF Wrote

\* The k-th batch of batch_upsert_sink.
BatchOf(order, k) ==
    SubSeq(order, SinkCap * (k - 1) + 1,
           IF SinkCap * k < Len(order) THEN SinkCap * k ELSE Len(order))

\* The recursion of Sink.
Sinking(kind, store, owner, order, texts, after) ==
    after = [k \in 0 .. Len(order) |->
                IF k = 0 THEN {[store |-> store, ok |-> TRUE]}
                ELSE UNION {IF o.ok THEN Upsert(kind, o.store, owner, BatchOf(order, k), texts)
                            ELSE {o} : o \in after[k - 1]}]

LEMMA BatchTyped ==
    ASSUME NEW S, NEW order \in Seq(S), NEW k \in Nat \ {0}
    PROVE  /\ BatchOf(order, k) \in Seq(S)
           /\ ToSet(BatchOf(order, k)) = {order[j] : j \in SinkCap * (k - 1) + 1 ..
                 (IF SinkCap * k < Len(order) THEN SinkCap * k ELSE Len(order))}
<1> DEFINE m == SinkCap * (k - 1) + 1
           n == IF SinkCap * k < Len(order) THEN SinkCap * k ELSE Len(order)
<1>1. SinkCap \in Nat \ {0}
  BY StoresAssumption
<1>2. SinkCap * (k - 1) \in Nat /\ SinkCap * k \in Nat
  BY <1>1
<1>3. m \in Nat \ {0} /\ n \in 0 .. Len(order)
  BY <1>2
<1> HIDE DEF m, n
<1> QED
  BY <1>3, PieceOf DEF BatchOf, m, n

\* There is such a function.
LEMMA SinkingExists ==
    ASSUME NEW kind, NEW store \in StoreStates, NEW owner \in Owners,
           NEW chunks \in SUBSET Ids, NEW order \in Seq(chunks), NEW texts,
           \A i \in chunks : texts[i] \in Texts
    PROVE  \E after : Sinking(kind, store, owner, order, texts, after)
<1> DEFINE n == Len(order)
           base == {[store |-> store, ok |-> TRUE]}
           More(k, outcomes) ==
               UNION {IF o.ok THEN Upsert(kind, o.store, owner, BatchOf(order, k), texts)
                      ELSE {o} : o \in outcomes}
           step == [p \in (1 .. n) \X SUBSET WriteOutcomes |-> More(p[1], p[2])]
<1>1. n \in Nat
  OBVIOUS
<1>2. base \in SUBSET WriteOutcomes
  BY DEF WriteOutcomes
<1>3. ASSUME NEW k \in 1 .. n, NEW outcomes \in SUBSET WriteOutcomes
      PROVE  More(k, outcomes) \in SUBSET WriteOutcomes
  <2> SUFFICES ASSUME NEW o \in outcomes,
                      NEW p \in IF o.ok
                                THEN Upsert(kind, o.store, owner, BatchOf(order, k), texts)
                                ELSE {o}
               PROVE  p \in WriteOutcomes
    OBVIOUS
  <2>1. o \in WriteOutcomes /\ o.store \in StoreStates
    BY DEF WriteOutcomes
  <2>2. CASE ~o.ok
    BY <2>1, <2>2
  <2>3. CASE o.ok
    <3>1. order \in Seq(Ids) /\ k \in Nat \ {0}
      BY <1>1
    <3>2. BatchOf(order, k) \in Seq(Ids) /\ BatchOf(order, k) \in Seq(chunks)
      BY <3>1, BatchTyped
    <3>3. \A i \in ToSet(BatchOf(order, k)) : texts[i] \in Texts
      BY <3>2 DEF ToSet
    <3>4. p \in Upsert(kind, o.store, owner, BatchOf(order, k), texts)
      BY <2>3
    <3> QED
      BY <2>1, <3>2, <3>3, <3>4, UpsertMeans
  <2> QED
    BY <2>2, <2>3
<1>4. step \in [(1 .. n) \X SUBSET WriteOutcomes -> SUBSET WriteOutcomes]
  <2>1. ASSUME NEW p \in (1 .. n) \X SUBSET WriteOutcomes
        PROVE  More(p[1], p[2]) \in SUBSET WriteOutcomes
    BY <1>3
  <2> HIDE DEF n, More
  <2> QED
    BY <2>1
<1>5. PICK f : Upto(n, f, SUBSET WriteOutcomes, base, step)
  <2> HIDE DEF n, step, base
  <2> QED
    BY <1>1, <1>2, <1>4, RecursiveFunction
<1>6. /\ f \in [0 .. n -> SUBSET WriteOutcomes] /\ f[0] = base
      /\ \A i \in 1 .. n : f[i] = step[<<i, f[i - 1]>>]
  BY <1>5 DEF Upto
<1>7. ASSUME NEW i \in 0 .. n
      PROVE  f[i] = IF i = 0 THEN base ELSE More(i, f[i - 1])
  <2>1. CASE i = 0
    BY <1>6, <2>1
  <2>2. CASE i # 0
    <3>1. i \in 1 .. n /\ i - 1 \in 0 .. n
      BY <1>1, <2>2
    <3>2. <<i, f[i - 1]>> \in (1 .. n) \X SUBSET WriteOutcomes
      BY <1>6, <3>1
    <3>3. f[i] = step[<<i, f[i - 1]>>]
      BY <1>6, <3>1
    <3> HIDE DEF n, More, base
    <3> QED
      BY <2>2, <3>2, <3>3
  <2> QED
    BY <2>1, <2>2
<1>8. f = [i \in 0 .. n |-> IF i = 0 THEN base ELSE More(i, f[i - 1])]
  <2> HIDE DEF More, base, n
  <2> QED
    BY <1>6, <1>7
<1> QED
  BY <1>8 DEF Sinking

\* What the batches written so far leave: some of the chunks are written, and when none of
\* the batches failed, all of these batches.
LEMMA BatchesMean ==
    ASSUME NEW kind, NEW store \in StoreStates, NEW owner \in Owners,
           NEW chunks \in SUBSET Ids, NEW order \in Seq(chunks), NEW texts,
           \A i \in chunks : texts[i] \in Texts,
           NEW after, Sinking(kind, store, owner, order, texts, after),
           NEW k \in 0 .. Len(order), NEW o \in after[k]
    PROVE  /\ o \in WriteOutcomes
           /\ \E V \in SUBSET chunks :
                 /\ Wrote(store, o.store, owner, V, texts)
                 /\ o.ok => \A j \in 1 .. Len(order) : j <= SinkCap * k => order[j] \in V
<1> DEFINE n == Len(order)
           Holds(i, p) ==
               /\ p \in WriteOutcomes
               /\ \E V \in SUBSET chunks :
                     /\ Wrote(store, p.store, owner, V, texts)
                     /\ p.ok => \A j \in 1 .. n : j <= SinkCap * i => order[j] \in V
           T == {i \in 0 .. n : \A p \in after[i] : Holds(i, p)}
<1>1. n \in Nat /\ SinkCap \in Nat \ {0}
  BY StoresAssumption
<1>2. 0 \in T
  <2>1. after[0] = {[store |-> store, ok |-> TRUE]}
    BY <1>1 DEF Sinking
  <2>2. Wrote(store, store, owner, {}, texts)
    BY NothingWritten
  <2>3. \A j \in 1 .. n : ~(j <= SinkCap * 0)
    BY <1>1
  <2>4. ASSUME NEW p \in after[0] PROVE Holds(0, p)
    <3>1. p = [store |-> store, ok |-> TRUE]
      BY <2>1, <2>4
    <3>2. p.store = store
      BY <3>1
    <3>3. p \in WriteOutcomes
      BY <3>1 DEF WriteOutcomes
    <3> HIDE DEF n
    <3> QED
      BY <2>2, <2>3, <3>2, <3>3
  <2> HIDE DEF Holds
  <2> QED
    BY <1>1, <2>4
<1>3. ASSUME NEW i \in 0 .. n - 1, i \in T
      PROVE  i + 1 \in T
  <2> DEFINE batch == BatchOf(order, i + 1)
  <2>1. i + 1 \in 0 .. n /\ i + 1 # 0 /\ (i + 1) - 1 = i /\ i \in 0 .. n
           /\ i + 1 \in Nat \ {0} /\ i \in Nat
    BY <1>1
  <2>2. after[i + 1] = UNION {IF p.ok THEN Upsert(kind, p.store, owner, batch, texts)
                              ELSE {p} : p \in after[i]}
    BY <2>1 DEF Sinking
  <2>3. ASSUME NEW q \in after[i + 1]
        PROVE  Holds(i + 1, q)
    <3>1. PICK p \in after[i] :
              q \in IF p.ok THEN Upsert(kind, p.store, owner, batch, texts) ELSE {p}
      BY <2>2, <2>3
    <3>2. Holds(i, p)
      BY <1>3
    <3>3. PICK V \in SUBSET chunks :
              /\ Wrote(store, p.store, owner, V, texts)
              /\ p.ok => \A j \in 1 .. n : j <= SinkCap * i => order[j] \in V
      BY <3>2
    <3>4. CASE ~p.ok
      <4>1. q = p
        BY <3>1, <3>4
      <4> QED
        BY <4>1, <3>2, <3>3, <3>4
    <3>5. CASE p.ok
      <4>1. q \in Upsert(kind, p.store, owner, batch, texts)
        BY <3>1, <3>5
      <4>2. p.store \in StoreStates
        BY <3>2 DEF WriteOutcomes
      <4>3. order \in Seq(Ids)
        OBVIOUS
      <4>4. batch \in Seq(Ids) /\ batch \in Seq(chunks)
        BY <2>1, <4>3, BatchTyped
      <4>5. ToSet(batch) \subseteq chunks
        BY <4>4 DEF ToSet
      <4>6. \A x \in ToSet(batch) : texts[x] \in Texts
        BY <4>5
      <4>7. /\ q \in WriteOutcomes
            /\ \E W \in SUBSET ToSet(batch) :
                  Wrote(p.store, q.store, owner, W, texts) /\ (q.ok => W = ToSet(batch))
        <5> HIDE DEF batch
        <5> QED
          BY <4>1, <4>2, <4>4, <4>6, UpsertMeans
      <4>8. PICK W \in SUBSET ToSet(batch) :
                Wrote(p.store, q.store, owner, W, texts) /\ (q.ok => W = ToSet(batch))
        BY <4>7
      <4>9. Wrote(store, q.store, owner, V \cup W, texts)
        BY <3>3, <4>8, WritesCompose
      <4>10. ASSUME q.ok, NEW j \in 1 .. n, j <= SinkCap * (i + 1)
             PROVE  order[j] \in V \cup W
        <5> DEFINE a == SinkCap * i
        <5>1. a \in Nat /\ SinkCap * (i + 1) = a + SinkCap
          BY <1>1, <2>1
        <5>2. CASE j <= a
          BY <3>3, <3>5, <5>2
        <5>3. CASE j > a
          <6>1. ToSet(batch) = {order[x] : x \in a + 1 ..
                    (IF SinkCap * (i + 1) < n THEN SinkCap * (i + 1) ELSE n)}
            BY <2>1, BatchTyped
          <6>2. j \in a + 1 .. (IF SinkCap * (i + 1) < n THEN SinkCap * (i + 1) ELSE n)
            <7> HIDE DEF a, n
            <7> QED
              BY <4>10, <5>1, <5>3, <1>1
          <6>3. order[j] \in ToSet(batch)
            BY <6>1, <6>2
          <6> QED
            BY <6>3, <4>8, <4>10
        <5> HIDE DEF a
        <5> QED
          BY <5>1, <5>2, <5>3, <1>1
      <4>11. V \cup W \in SUBSET chunks
        BY <4>5
      <4> HIDE DEF n
      <4> QED
        BY <4>7, <4>9, <4>10, <4>11
    <3> HIDE DEF Holds
    <3> QED
      BY <3>4, <3>5
  <2> HIDE DEF Holds
  <2> QED
    BY <2>1, <2>3
<1>4. 0 .. n \subseteq T
  <2> HIDE DEF T, n
  <2> QED
    BY <1>1, <1>2, <1>3, Induction
<1>5. k \in T
  BY <1>4
<1> QED
  BY <1>5

\* What the sink leaves of a document's chunks.
LEMMA SinkMeans ==
    ASSUME NEW kind, NEW store \in StoreStates, NEW owner \in Owners,
           NEW chunks \in SUBSET Ids, NEW texts, \A i \in chunks : texts[i] \in Texts,
           NEW o \in Sink(kind, store, owner, chunks, texts)
    PROVE  /\ o \in WriteOutcomes
           /\ \E V \in SUBSET chunks :
                 Wrote(store, o.store, owner, V, texts) /\ (o.ok => V = chunks)
<1> DEFINE order == SetToSeq(chunks)
           n == Len(order)
           last == (n + SinkCap - 1) \div SinkCap
           after == CHOOSE f : Sinking(kind, store, owner, order, texts, f)
<1>1. IsFiniteSet(chunks)
  BY StoresAssumption, FS_Subset
<1>2. order \in Seq(chunks) /\ ToSet(order) = chunks
  BY <1>1, SetOrder
<1>3. Sinking(kind, store, owner, order, texts, after)
  <2> HIDE DEF order
  <2> QED
    BY <1>2, SinkingExists
<1>4. Sink(kind, store, owner, chunks, texts) = after[last]
  BY DEF Sink, Sinking, Then, BatchOf
<1>5. n \in Nat /\ SinkCap \in Nat \ {0}
  BY <1>2, StoresAssumption
<1>6. last \in 0 .. n /\ SinkCap * last >= n
  <2> HIDE DEF n
  <2> QED
    BY <1>5, EnoughBatches
<1> HIDE DEF after, last
<1>7. /\ o \in WriteOutcomes
      /\ \E V \in SUBSET chunks :
            /\ Wrote(store, o.store, owner, V, texts)
            /\ o.ok => \A j \in 1 .. n : j <= SinkCap * last => order[j] \in V
  <2>1. o \in after[last] /\ last \in 0 .. Len(order)
    BY <1>4, <1>6
  <2>2. /\ o \in WriteOutcomes
        /\ \E V \in SUBSET chunks :
              /\ Wrote(store, o.store, owner, V, texts)
              /\ o.ok => \A j \in 1 .. Len(order) : j <= SinkCap * last => order[j] \in V
    <3> HIDE DEF order
    <3> QED
      BY <1>2, <1>3, <2>1, BatchesMean
  <2> QED
    BY <2>2
<1>8. PICK V \in SUBSET chunks :
          /\ Wrote(store, o.store, owner, V, texts)
          /\ o.ok => \A j \in 1 .. n : j <= SinkCap * last => order[j] \in V
  BY <1>7
<1>9. ASSUME o.ok PROVE V = chunks
  <2>1. \A j \in 1 .. n : j <= SinkCap * last
    <3>1. SinkCap * last \in Int
      BY <1>5, <1>6
    <3> HIDE DEF n
    <3> QED
      BY <1>5, <1>6, <3>1
  <2>2. DOMAIN order = 1 .. n
    BY <1>2
  <2>3. \A x \in chunks : x \in V
    <3> HIDE DEF order
    <3> QED
      BY <1>2, <1>8, <1>9, <2>1, <2>2 DEF ToSet
  <2> QED
    BY <2>3
<1> QED
  BY <1>7, <1>8, <1>9

-----------------------------------------------------------------------------
(* The vector stores: indexing a document anew.                            *)

\* What a store holds of a document.
Own(store, owner, doc) == {i \in Ids : DocOf[i] = doc /\ store[owner][i] # Vacant}

\* A read by document returns chunks of the document, and all unless they are too many.
LEMMA ReadsMean ==
    ASSUME NEW kind, NEW store, NEW owner, NEW doc, doc \in Docs \/ Ids = {},
           NEW read \in Get(kind, store, owner, {}, doc)
    PROVE  /\ read \subseteq Own(store, owner, doc)
           /\ kind = "pgvector" \/ Cardinality(Own(store, owner, doc)) <= ReadCap =>
                 read = Own(store, owner, doc)
<1>1. {i \in Held(store, owner) : Passes(i, {}, doc)} = Own(store, owner, doc)
  BY StoresAssumption DEF Held, Passes, Own, Docs
<1> DEFINE own == Own(store, owner, doc)
<1>2. CASE kind = "pgvector"
  BY <1>1, <1>2 DEF Get, PgGet
<1>3. CASE kind # "pgvector"
  <2>1. read \in IF Cardinality(own) <= ReadCap THEN {own} ELSE kSubset(ReadCap, own)
    BY <1>1, <1>3 DEF Get, PineconeGet
  <2> HIDE DEF own
  <2>2. read \subseteq own /\ (Cardinality(own) <= ReadCap => read = own)
    BY <2>1 DEF kSubset
  <2> QED
    BY <1>3, <2>2 DEF own
<1> QED
  BY <1>2, <1>3

\* What one run leaves of the document's chunks, by what it has read.
Indexed(kind, before, seen, o, owner, doc, new) ==
    /\ o \in WriteOutcomes
    /\ \A u \in Owners, i \in Ids :
          (u = owner /\ DocOf[i] = doc) \/ o.store[u][i] = before[u][i]
    /\ \A i \in DOMAIN new :
          /\ o.store[owner][i] = new[i] \/ o.store[owner][i] = before[owner][i]
          /\ o.ok => o.store[owner][i] = new[i] \/ seen[owner][i] = new[i]
    /\ \A i \in Ids \ DOMAIN new :
          /\ o.store[owner][i] = Vacant \/ o.store[owner][i] = before[owner][i]
          /\ o.ok /\ DocOf[i] = doc =>
                \/ o.store[owner][i] = Vacant
                \/ seen[owner][i] = Vacant
                \/ kind # "pgvector" /\ ~(Cardinality(Own(seen, owner, doc)) <= ReadCap)

\* What was stored and is no longer wanted, of what was read.
Clearing(kind, store, owner, ghosts) ==
    IF ghosts = {} THEN {[store |-> store, ok |-> TRUE]}
    ELSE Delete(kind, store, owner, ghosts, Vacant)

LEMMA ClearingMeans ==
    ASSUME NEW kind, NEW store \in StoreStates, NEW owner \in Owners,
           NEW ghosts \in SUBSET Ids, NEW c \in Clearing(kind, store, owner, ghosts)
    PROVE  /\ c \in WriteOutcomes
           /\ \E G \in SUBSET ghosts :
                 Cleared(store, c.store, owner, G) /\ (c.ok => G = ghosts)
<1>1. Cleared(store, store, owner, {})
  BY DEF Cleared
<1>2. CASE ghosts = {}
  <2>1. c = [store |-> store, ok |-> TRUE]
    BY <1>2 DEF Clearing
  <2> QED
    BY <1>1, <1>2, <2>1 DEF WriteOutcomes
<1>3. CASE ghosts # {}
  <2>1. c \in Delete(kind, store, owner, ghosts, Vacant) /\ Chosen(ghosts, Vacant) = ghosts
    BY <1>3 DEF Clearing, Chosen
  <2>2. /\ c \in WriteOutcomes
        /\ Cleared(store, c.store, owner, ghosts) \/ (~c.ok /\ c.store = store)
    BY <2>1, DeleteMeans
  <2>3. CASE Cleared(store, c.store, owner, ghosts)
    BY <2>2, <2>3
  <2>4. CASE ~c.ok /\ c.store = store
    <3>1. Cleared(store, c.store, owner, {}) /\ {} \in SUBSET ghosts
      BY <1>1, <2>4
    <3> QED
      BY <2>2, <2>4, <3>1
  <2> QED
    BY <2>2, <2>3, <2>4
<1> QED
  BY <1>2, <1>3

LEMMA ReindexMeans ==
    ASSUME NEW kind, NEW store \in StoreStates, NEW owner \in Owners, NEW seen,
           NEW doc, doc \in Docs \/ Ids = {},
           NEW new, \A i \in DOMAIN new : i \in Ids /\ DocOf[i] = doc /\ new[i] \in Texts,
           NEW o \in ReindexAs(seen, kind, store, owner, doc, new)
    PROVE  Indexed(kind, store, seen, o, owner, doc, new)
<1> DEFINE own == Own(seen, owner, doc)
<1>1. PICK read \in Get(kind, seen, owner, {}, doc), c \in WriteOutcomes :
          /\ c \in Clearing(kind, store, owner, read \ DOMAIN new)
          /\ o \in IF c.ok
                   THEN Sink(kind, c.store, owner, Changed(read, seen, owner, new), new)
                   ELSE {c}
  <2>1. ReindexAs(seen, kind, store, owner, doc, new) =
            UNION {UNION {IF c.ok
                          THEN Sink(kind, c.store, owner,
                                    Changed(read, seen, owner, new), new)
                          ELSE {c} : c \in Clearing(kind, store, owner, read \ DOMAIN new)} :
                   read \in Get(kind, seen, owner, {}, doc)}
    BY DEF ReindexAs, Then, Clearing
  <2>2. PICK read \in Get(kind, seen, owner, {}, doc) :
            \E c \in Clearing(kind, store, owner, read \ DOMAIN new) :
               o \in IF c.ok
                     THEN Sink(kind, c.store, owner, Changed(read, seen, owner, new), new)
                     ELSE {c}
    BY <2>1
  <2>3. read \ DOMAIN new \in SUBSET Ids
    BY ReadsMean DEF Own
  <2> QED
    BY <2>2, <2>3, ClearingMeans
<1> DEFINE ghosts == read \ DOMAIN new
           todo == Changed(read, seen, owner, new)
<1>2. read \subseteq own /\ own \subseteq Ids
         /\ (kind = "pgvector" \/ Cardinality(own) <= ReadCap => read = own)
  BY ReadsMean DEF Own
<1>3. PICK G \in SUBSET ghosts : Cleared(store, c.store, owner, G) /\ (c.ok => G = ghosts)
  <2>1. ghosts \in SUBSET Ids /\ c \in Clearing(kind, store, owner, ghosts)
    BY <1>1, <1>2
  <2> HIDE DEF ghosts, own
  <2> QED
    BY <2>1, ClearingMeans
<1>4. todo \in SUBSET DOMAIN new /\ DOMAIN new \in SUBSET Ids
  BY DEF Changed
<1>5. /\ o \in WriteOutcomes
      /\ o.ok => c.ok
      /\ \E V \in SUBSET todo : Wrote(c.store, o.store, owner, V, new) /\ (o.ok => V = todo)
  <2>1. c.store \in StoreStates
    BY DEF WriteOutcomes
  <2>2. CASE c.ok
    <3>1. o \in Sink(kind, c.store, owner, todo, new)
      BY <1>1, <2>2
    <3>2. todo \in SUBSET Ids /\ \A i \in todo : new[i] \in Texts
      BY <1>4
    <3> HIDE DEF todo
    <3> QED
      BY <2>1, <2>2, <3>1, <3>2, SinkMeans
  <2>3. CASE ~c.ok
    <3>1. o = c
      BY <1>1, <2>3
    <3>2. Wrote(c.store, o.store, owner, {}, new) /\ {} \in SUBSET todo
      BY <2>1, <3>1, NothingWritten
    <3> HIDE DEF todo
    <3> QED
      BY <2>3, <3>1, <3>2
  <2> QED
    BY <2>2, <2>3
<1>6. PICK V \in SUBSET todo : Wrote(c.store, o.store, owner, V, new) /\ (o.ok => V = todo)
  BY <1>5
<1>7. \A u \in Owners, i \in Ids : o.store[u][i] =
          IF u = owner /\ i \in V THEN new[i]
          ELSE IF u = owner /\ i \in G THEN Vacant ELSE store[u][i]
  BY <1>3, <1>6 DEF Wrote, Cleared
<1>8. o.ok => V = todo /\ G = ghosts
  BY <1>3, <1>5, <1>6
<1>9. G \subseteq read \ DOMAIN new /\ V \subseteq DOMAIN new
  BY <1>4
<1>10. \A i \in DOMAIN new : i \in todo \/ seen[owner][i] = new[i]
  BY DEF Changed
<1> HIDE DEF todo
<1>11. \A u \in Owners, i \in Ids :
          (u = owner /\ DocOf[i] = doc) \/ o.store[u][i] = store[u][i]
  BY <1>2, <1>7, <1>9 DEF Own
<1>12. ASSUME NEW i \in DOMAIN new
       PROVE  /\ o.store[owner][i] = new[i] \/ o.store[owner][i] = store[owner][i]
              /\ o.ok => o.store[owner][i] = new[i] \/ seen[owner][i] = new[i]
  BY <1>4, <1>7, <1>8, <1>9, <1>10
<1>13. ASSUME NEW i \in Ids \ DOMAIN new
       PROVE  /\ o.store[owner][i] = Vacant \/ o.store[owner][i] = store[owner][i]
              /\ o.ok /\ DocOf[i] = doc =>
                    \/ o.store[owner][i] = Vacant
                    \/ seen[owner][i] = Vacant
                    \/ kind # "pgvector" /\ ~(Cardinality(own) <= ReadCap)
  <2>1. o.store[owner][i] = IF i \in G THEN Vacant ELSE store[owner][i]
    BY <1>7, <1>9
  <2>2. ASSUME o.ok, i \in read PROVE o.store[owner][i] = Vacant
    BY <1>8, <2>1, <2>2
  <2>3. ASSUME i \notin read, DocOf[i] = doc, read = own PROVE seen[owner][i] = Vacant
    BY <2>3 DEF Own
  <2> HIDE DEF own
  <2> QED
    BY <1>2, <2>1, <2>2, <2>3
<1> QED
  BY <1>5, <1>11, <1>12, <1>13 DEF Indexed

\* A store in which some of the new chunks have replaced some of the old ones.
Between(store, middle, owner, doc, new) ==
    /\ middle \in StoreStates
    /\ \A u \in Owners, i \in Ids :
          (u = owner /\ DocOf[i] = doc) \/ middle[u][i] = store[u][i]
    /\ \A i \in DOMAIN new :
          middle[owner][i] = new[i] \/ middle[owner][i] = store[owner][i]
    /\ \A i \in Ids \ DOMAIN new :
          middle[owner][i] = Vacant \/ middle[owner][i] = store[owner][i]

\* What a read finds after an attempt that left this, if late.
Late(kind, store, was, middle, owner, seen) ==
    \A i \in Ids :
       \/ seen[owner][i] = middle[owner][i]
       \/ kind # "pgvector" /\ (seen[owner][i] = store[owner][i] \/ seen[owner][i] = was[i])

LEMMA StillBetween ==
    ASSUME NEW kind, NEW store, NEW middle, NEW seen, NEW owner \in Owners, NEW doc, NEW new,
           DOMAIN new \subseteq Ids, Between(store, middle, owner, doc, new),
           NEW o, Indexed(kind, middle, seen, o, owner, doc, new)
    PROVE  Between(store, o.store, owner, doc, new)
<1>1. o.store \in StoreStates
  BY DEF Indexed, WriteOutcomes
<1>2. \A u \in Owners, i \in Ids :
          (u = owner /\ DocOf[i] = doc) \/ o.store[u][i] = store[u][i]
  BY DEF Indexed, Between
<1>3. \A i \in DOMAIN new : o.store[owner][i] = new[i] \/ o.store[owner][i] = store[owner][i]
  BY DEF Indexed, Between
<1>4. \A i \in Ids \ DOMAIN new :
          o.store[owner][i] = Vacant \/ o.store[owner][i] = store[owner][i]
  BY DEF Indexed, Between
<1> QED
  BY <1>1, <1>2, <1>3, <1>4 DEF Between

\* What the document's chunks are in the end.
InSight(store, was, owner, doc, new) ==
    {i \in Ids : DocOf[i] = doc /\ (store[owner][i] # Vacant \/ was[i] # Vacant)}
        \cup DOMAIN new

Converged(kind, store, was, after, owner, doc, new) ==
    /\ \A i \in DOMAIN new :
          \/ after[owner][i] = new[i]
          \/ /\ kind # "pgvector" /\ was[i] = new[i]
             /\ after[owner][i] = store[owner][i]
    /\ \A i \in Ids \ DOMAIN new : DocOf[i] = doc =>
          \/ after[owner][i] = Vacant
          \/ /\ after[owner][i] = store[owner][i] /\ kind # "pgvector"
             /\ \/ was[i] = Vacant
                \/ ~(Cardinality(InSight(store, was, owner, doc, new)) <= ReadCap)

\* A run that succeeds, after another that did not or after none.
LEMMA RunConverges ==
    ASSUME NEW kind, NEW store, NEW was, NEW middle, NEW seen, NEW owner \in Owners,
           NEW doc, NEW new, DOMAIN new \subseteq Ids,
           Between(store, middle, owner, doc, new),
           Late(kind, store, was, middle, owner, seen),
           NEW o, o.ok, Indexed(kind, middle, seen, o, owner, doc, new)
    PROVE  Converged(kind, store, was, o.store, owner, doc, new)
<1> DEFINE all == InSight(store, was, owner, doc, new)
           own == Own(seen, owner, doc)
<1>1. Between(store, o.store, owner, doc, new)
  BY StillBetween
<1>2. own \in SUBSET all
  BY DEF Own, Between, Late, InSight
<1>3. Cardinality(all) <= ReadCap => Cardinality(own) <= ReadCap
  <2>1. all \in SUBSET Ids
    BY DEF InSight
  <2> HIDE DEF all, own
  <2>2. IsFiniteSet(all)
    BY <2>1, StoresAssumption, FS_Subset
  <2>3. Cardinality(own) <= Cardinality(all) /\ Cardinality(own) \in Nat
           /\ Cardinality(all) \in Nat
    BY <1>2, <2>2, FS_Subset, FS_CardinalityType
  <2> QED
    BY <2>3, StoresAssumption
<1> HIDE DEF all, own
<1>4. ASSUME NEW i \in DOMAIN new, o.store[owner][i] # new[i]
      PROVE  /\ kind # "pgvector" /\ was[i] = new[i]
             /\ o.store[owner][i] = store[owner][i]
  <2>1. /\ i \in Ids /\ o.store[owner][i] = store[owner][i]
        /\ o.store[owner][i] = middle[owner][i] /\ seen[owner][i] = new[i]
    BY <1>1, <1>4 DEF Between, Indexed
  <2> QED
    BY <1>4, <2>1 DEF Late
<1>5. ASSUME NEW i \in Ids \ DOMAIN new, DocOf[i] = doc, o.store[owner][i] # Vacant
      PROVE  /\ o.store[owner][i] = store[owner][i] /\ kind # "pgvector"
             /\ was[i] = Vacant \/ ~(Cardinality(all) <= ReadCap)
  <2>1. /\ o.store[owner][i] = store[owner][i] /\ o.store[owner][i] = middle[owner][i]
        /\ \/ seen[owner][i] = Vacant
           \/ kind # "pgvector" /\ ~(Cardinality(own) <= ReadCap)
    BY <1>1, <1>5 DEF Between, Indexed, own
  <2>2. CASE seen[owner][i] = Vacant
    BY <1>5, <2>1, <2>2 DEF Late
  <2>3. CASE kind # "pgvector" /\ ~(Cardinality(own) <= ReadCap)
    BY <1>3, <2>1, <2>3
  <2> QED
    BY <2>1, <2>2, <2>3
<1> QED
  BY <1>4, <1>5 DEF Converged, all

LEMMA ReindexesConverge ==
    ASSUME call \in ReindexCalls, result \in ReindexTwice(call), Of("reindex")
    PROVE  ReindexConverges
<1> DEFINE kind == call.kind
           store == call.store
           was == call.was
           owner == call.owner
           doc == call.doc
           new == call.new
           last == result[Len(result)]
           all == InSight(store, was, owner, doc, new)
<1>1. /\ store \in StoreStates /\ owner \in Owners /\ (doc \in Docs \/ Ids = {})
      /\ kind \in Kinds /\ was \in [Ids -> Texts \cup {Vacant}]
  <2>1. /\ store \in StoreStates /\ owner \in Owners /\ doc = TheDoc
        /\ kind \in Kinds
    BY StoreCallsTyped DEF ReindexCalls
  <2>2. Ids # {} => Docs # {}
    BY DEF Docs
  <2>3. was \in {[i \in Ids |-> t] : t \in Maybe}
    BY DEF ReindexCalls
  <2>4. was \in [Ids -> Texts \cup {Vacant}]
    BY <2>3 DEF Maybe
  <2> QED
    BY <2>1, <2>2, <2>4 DEF TheDoc
<1>2. \A i \in DOMAIN new : i \in Ids /\ DocOf[i] = doc /\ new[i] \in Texts
  BY DEF ReindexCalls
<1> HIDE DEF kind, store, owner, doc, new, was
<1>0. PICK seen \in Views(kind, store, was, owner) :
          \E first \in ReindexAs(seen, kind, store, owner, doc, new) :
          \/ first.ok /\ result = <<first>>
          \/ \E before \in Views(kind, store, was, owner) :
             \E later \in Views(kind, first.store, before[owner], owner) :
             \E second \in ReindexAs(later, kind, first.store, owner, doc, new) :
                second.ok /\ result = <<first, second>>
  BY DEF ReindexTwice, RunAgain, Reindex, kind, store, owner, doc, new, was
<1>3. PICK first \in ReindexAs(seen, kind, store, owner, doc, new) :
          \/ first.ok /\ result = <<first>>
          \/ \E before \in Views(kind, store, was, owner) :
             \E later \in Views(kind, first.store, before[owner], owner) :
             \E second \in ReindexAs(later, kind, first.store, owner, doc, new) :
                second.ok /\ result = <<first, second>>
  BY <1>0
<1>4. Indexed(kind, store, seen, first, owner, doc, new)
  BY <1>1, <1>2, ReindexMeans
<1>5. first.store \in StoreStates
  BY <1>4 DEF Indexed, WriteOutcomes
<1>6. Between(store, store, owner, doc, new) /\ DOMAIN new \subseteq Ids
  BY <1>1, <1>2 DEF Between
<1>7. Late(kind, store, was, store, owner, seen)
  <2>1. \A i \in Ids : \/ seen[owner][i] = store[owner][i]
                       \/ kind # "pgvector" /\ seen[owner][i] = was[i]
    BY <1>1, ViewsMean
  <2> QED
    BY <2>1 DEF Late
<1>8. Between(store, first.store, owner, doc, new)
  BY <1>1, <1>4, <1>6, StillBetween
<1>9. /\ last.ok
      /\ Converged(kind, store, was, last.store, owner, doc, new)
      /\ \A k \in DOMAIN result : Between(store, result[k].store, owner, doc, new)
  <2>1. CASE first.ok /\ result = <<first>>
    <3>1. last = first /\ \A k \in DOMAIN result : result[k] = first
      BY <2>1
    <3> HIDE DEF last
    <3> QED
      BY <1>1, <1>4, <1>6, <1>7, <1>8, <2>1, <3>1, RunConverges
  <2>2. ASSUME NEW before \in Views(kind, store, was, owner),
               NEW later \in Views(kind, first.store, before[owner], owner),
               NEW second \in ReindexAs(later, kind, first.store, owner, doc, new),
               second.ok, result = <<first, second>>
        PROVE  <1>9!1 /\ <1>9!2 /\ <1>9!3
    <3>1. Indexed(kind, first.store, later, second, owner, doc, new)
      BY <1>1, <1>2, <1>5, ReindexMeans
    <3>2. last = second /\ \A k \in DOMAIN result : result[k] = first \/ result[k] = second
      BY <2>2
    <3>3. /\ before[owner] \in [Ids -> Texts \cup {Vacant}]
          /\ \A i \in Ids : before[owner][i] = store[owner][i] \/ before[owner][i] = was[i]
      BY <1>1, ViewsMean DEF StoreStates
    <3>4. Late(kind, store, was, first.store, owner, later)
      <4>1. \A i \in Ids : \/ later[owner][i] = first.store[owner][i]
                           \/ kind # "pgvector" /\ later[owner][i] = before[owner][i]
        BY <1>1, <1>5, <3>3, ViewsMean
      <4> QED
        BY <3>3, <4>1 DEF Late
    <3>5. Between(store, second.store, owner, doc, new)
      BY <1>1, <1>6, <1>8, <3>1, StillBetween
    <3>6. Converged(kind, store, was, second.store, owner, doc, new)
      BY <1>1, <1>6, <1>8, <2>2, <3>1, <3>4, RunConverges
    <3> HIDE DEF last
    <3> QED
      BY <1>8, <2>2, <3>2, <3>5, <3>6
  <2> QED
    BY <1>3, <2>1, <2>2
<1>10. ASSUME NEW k \in DOMAIN result
       PROVE  Elsewhere(result[k].store, owner, doc) = Elsewhere(store, owner, doc)
  <2> DEFINE s == result[k].store
  <2>1. Between(store, s, owner, doc, new)
    BY <1>9
  <2> HIDE DEF s
  <2>2. s \in StoreStates /\ \A u \in Owners, i \in Ids :
            (u = owner /\ DocOf[i] = doc) \/ s[u][i] = store[u][i]
    BY <2>1 DEF Between
  <2>3. Elsewhere(s, owner, doc) = Elsewhere(store, owner, doc)
    BY <1>1, <2>2, ElsewhereMeans, SameStores
  <2> QED
    BY <2>3 DEF s
<1>11. ~(Cardinality(all) <= ReadCap) => Cardinality(all) > ReadCap
  <2>1. all \in SUBSET Ids
    BY <1>2 DEF InSight
  <2> HIDE DEF all
  <2>2. Cardinality(all) \in Nat
    BY <2>1, StoresAssumption, FS_Subset, FS_CardinalityType
  <2> QED
    BY <2>2, StoresAssumption
<1>12. kind # "pgvector" => kind = "pinecone"
  BY <1>1 DEF Kinds
<1>13. \A i \in {i \in Ids : DocOf[i] = doc} \ DOMAIN new :
          \/ last.store[owner][i] = Vacant
          \/ /\ last.store[owner][i] = store[owner][i]
             /\ \/ kind = "pinecone" /\ was[i] = Vacant
                \/ kind = "pinecone" /\ Cardinality(all) > ReadCap
  <2> HIDE DEF last
  <2> QED
    BY <1>9, <1>11, <1>12 DEF Converged
<1>14. \A i \in DOMAIN new :
          \/ last.store[owner][i] = new[i]
          \/ /\ kind = "pinecone" /\ was[i] = new[i]
             /\ last.store[owner][i] = store[owner][i]
  <2> HIDE DEF last
  <2> QED
    BY <1>9, <1>12 DEF Converged
<1> QED
  BY <1>9, <1>10, <1>13, <1>14 DEF ReindexConverges, InSight, kind, store, owner, doc, new, was

-----------------------------------------------------------------------------
(* The vector stores: what several of them answer.                         *)

\* An answer of a store that has these chunks.
IsAnswer(a, chunks, n) ==
    /\ \E m \in Nat : /\ DOMAIN a = 1 .. m /\ m <= n /\ m <= Cardinality(chunks)
                      /\ m = n \/ m = Cardinality(chunks)
    /\ \A k \in DOMAIN a :
          a[k].id \in chunks /\ a[k].distance = Exact - Similarity[a[k].id]
    /\ \A j, k \in DOMAIN a : a[j].id = a[k].id => j = k
    /\ \A k \in DOMAIN a : \A x \in chunks :
          (\E j \in 1 .. k : x = a[j].id) \/ Similarity[x] <= Similarity[a[k].id]

\* Of the chunks the n most like the question, the most like first.
IsBest(s, chunks, n) ==
    /\ \E m \in Nat : /\ s \in [1 .. m -> chunks]
                      /\ m = IF n < Cardinality(chunks) THEN n ELSE Cardinality(chunks)
    /\ \A j, k \in DOMAIN s : s[j] = s[k] => j = k
    /\ \A k \in DOMAIN s : \A x \in chunks :
          (\E j \in 1 .. k : x = s[j]) \/ Similarity[x] <= Similarity[s[k]]

LEMMA LikenessTyped ==
    ASSUME NEW x \in Ids
    PROVE  Similarity[x] \in Int /\ Exact \in Int
<1>1. Similarity \in [Ids -> 0 .. Exact] /\ Exact \in Nat
  BY StoresAssumption
<1> QED
  BY <1>1

Closest(chunks, n) == Best(chunks, n, LAMBDA x, y : Similarity[x] > Similarity[y])

LEMMA BestMeans ==
    ASSUME NEW chunks \in SUBSET Ids, NEW n \in Nat, NEW s
    PROVE  s \in Closest(chunks, n) <=> IsBest(s, chunks, n)
<1> DEFINE m == IF n < Cardinality(chunks) THEN n ELSE Cardinality(chunks)
<1>1. IsFiniteSet(chunks) /\ Cardinality(chunks) \in Nat
  BY StoresAssumption, FS_Subset, FS_CardinalityType
<1>2. m \in Nat
  BY <1>1
<1>3. ASSUME s \in [1 .. m -> chunks]
      PROVE  (\A k \in DOMAIN s : \A x \in chunks \ {s[j] : j \in 1 .. k} :
                 ~(Similarity[x] > Similarity[s[k]]))
             <=> \A k \in DOMAIN s : \A x \in chunks :
                    (\E j \in 1 .. k : x = s[j]) \/ Similarity[x] <= Similarity[s[k]]
  <2>1. ASSUME NEW k \in DOMAIN s, NEW x \in chunks
        PROVE  /\ ~(Similarity[x] > Similarity[s[k]]) <=> Similarity[x] <= Similarity[s[k]]
               /\ x \in chunks \ {s[j] : j \in 1 .. k} <=> ~\E j \in 1 .. k : x = s[j]
    <3>1. s[k] \in Ids /\ x \in Ids
      BY <1>3
    <3> QED
      BY <3>1, LikenessTyped
  <2> HIDE DEF m
  <2> QED
    BY <2>1, Zenon
<1>4. s \in Closest(chunks, n)
         <=> /\ s \in [1 .. m -> chunks]
             /\ \A j, k \in DOMAIN s : s[j] = s[k] => j = k
             /\ \A k \in DOMAIN s : \A x \in chunks \ {s[j] : j \in 1 .. k} :
                   ~(Similarity[x] > Similarity[s[k]])
  BY DEF Best, Closest
<1>5. IsBest(s, chunks, n)
         <=> /\ s \in [1 .. m -> chunks]
             /\ \A j, k \in DOMAIN s : s[j] = s[k] => j = k
             /\ \A k \in DOMAIN s : \A x \in chunks :
                   (\E j \in 1 .. k : x = s[j]) \/ Similarity[x] <= Similarity[s[k]]
  BY <1>2 DEF IsBest
<1> HIDE DEF m
<1> QED
  BY <1>3, <1>4, <1>5

\* A store's answer with its distances, of a best choice of its chunks.
LEMMA AnswerOfBest ==
    ASSUME NEW chunks \in SUBSET Ids, NEW n \in Nat, NEW s, IsBest(s, chunks, n),
           NEW a, a = [k \in DOMAIN s |-> [id |-> s[k], distance |-> Exact - Similarity[s[k]]]]
    PROVE  IsAnswer(a, chunks, n)
<1>1. IsFiniteSet(chunks) /\ Cardinality(chunks) \in Nat
  BY StoresAssumption, FS_Subset, FS_CardinalityType
<1>2. PICK m \in Nat : /\ s \in [1 .. m -> chunks]
                       /\ m = IF n < Cardinality(chunks) THEN n ELSE Cardinality(chunks)
  BY DEF IsBest
<1>3. DOMAIN a = 1 .. m /\ m <= n /\ m <= Cardinality(chunks)
         /\ (m = n \/ m = Cardinality(chunks))
  BY <1>1, <1>2
<1>4. \A k \in 1 .. m : /\ a[k].id = s[k] /\ a[k].distance = Exact - Similarity[s[k]]
                        /\ s[k] \in chunks
  BY <1>2
<1>5. \A k \in 1 .. m : \A j \in 1 .. k : j \in 1 .. m
  OBVIOUS
<1>6. \A j, k \in DOMAIN a : a[j].id = a[k].id => j = k
  BY <1>2, <1>3, <1>4 DEF IsBest
<1>7. \A k \in DOMAIN a : \A x \in chunks :
          (\E j \in 1 .. k : x = a[j].id) \/ Similarity[x] <= Similarity[a[k].id]
  BY <1>2, <1>3, <1>4, <1>5 DEF IsBest
<1> QED
  BY <1>3, <1>4, <1>6, <1>7 DEF IsAnswer

\* What a store answers with are chunks that it has and that pass, the most like first.
LEMMA QueryMeans ==
    ASSUME NEW kind, NEW store, NEW owner, NEW doc, NEW n \in Nat,
           NEW a \in Query(kind, store, owner, doc, n)
    PROVE  LET told == {a[k].id : k \in DOMAIN a}
           IN  /\ told \subseteq {i \in Held(store, owner) : Passes(i, {}, doc)}
               /\ IsAnswer(a, told, n)
<1> DEFINE chunks == {i \in Held(store, owner) : Passes(i, {}, doc)}
           told == {a[k].id : k \in DOMAIN a}
           Told(s) == [k \in DOMAIN s |->
                          [id |-> s[k], distance |-> Exact - Similarity[s[k]]]]
<1> SUFFICES told \subseteq chunks /\ IsAnswer(a, told, n)
  OBVIOUS
<1>1. chunks \in SUBSET Ids
  BY DEF Held
<1>2. \A x, y \in chunks :
          Exact - Similarity[x] < Exact - Similarity[y] <=> Similarity[x] > Similarity[y]
  BY <1>1, LikenessTyped
<1>3. \E some \in SUBSET chunks : /\ Cardinality(some) <= n
                                  /\ \E s \in Closest(some, n) : a = Told(s)
  <2>1. CASE kind = "pgvector"
    <3> DEFINE m(some) == IF n < Cardinality(some) THEN n ELSE Cardinality(some)
    <3>0. PICK some \in SUBSET chunks : Cardinality(some) <= n /\ \E s \in [1 .. m(some) -> some] :
              /\ a = Told(s)
              /\ \A i, j \in DOMAIN s : s[i] = s[j] => i = j
              /\ \A i \in DOMAIN s : \A x \in some \ {s[j] : j \in 1 .. i} :
                    ~(Exact - Similarity[x] < Exact - Similarity[s[i]])
      BY <2>1 DEF Query, PgQuery, Nearest, Best
    <3>1. PICK s \in [1 .. m(some) -> some] :
              /\ a = Told(s)
              /\ \A i, j \in DOMAIN s : s[i] = s[j] => i = j
              /\ \A i \in DOMAIN s : \A x \in some \ {s[j] : j \in 1 .. i} :
                    ~(Exact - Similarity[x] < Exact - Similarity[s[i]])
      BY <3>0
    <3>2. s \in Closest(some, n)
      <4> HIDE DEF chunks, m
      <4>1. \A i \in DOMAIN s : \A x \in some \ {s[j] : j \in 1 .. i} :
                ~(Similarity[x] > Similarity[s[i]])
        BY <1>2, <3>1
      <4> QED
        BY <3>1, <4>1 DEF Closest, Best, m
    <3> HIDE DEF chunks, m, Told
    <3> QED
      BY <3>0, <3>1, <3>2
  <2>2. CASE kind # "pgvector"
    <3>1. Query(kind, store, owner, doc, n) =
              {Told(s) : s \in UNION {Closest(some, n) :
                                         some \in {t \in SUBSET chunks : Cardinality(t) <= n}}}
      BY <2>2 DEF Query, PineconeQuery, ScoreToDistance, Nearest, Closest
    <3> HIDE DEF Told, chunks
    <3> QED
      BY <3>1
  <2> QED
    BY <2>1, <2>2
<1>4. PICK some \in SUBSET chunks :
          Cardinality(some) <= n /\ \E s \in Closest(some, n) : a = Told(s)
  BY <1>3
<1>5. PICK s \in Closest(some, n) : a = Told(s)
  BY <1>4
<1>6. some \in SUBSET Ids /\ IsFiniteSet(some) /\ Cardinality(some) \in Nat
  BY <1>1, StoresAssumption, FS_Subset, FS_CardinalityType
<1>7. IsBest(s, some, n)
  BY <1>6, BestMeans
<1>8. s \in [1 .. Cardinality(some) -> some]
  <2>1. (IF n < Cardinality(some) THEN n ELSE Cardinality(some)) = Cardinality(some)
    BY <1>4, <1>6
  <2> QED
    BY <1>7, <2>1 DEF IsBest
<1>9. \A x \in some : \E k \in 1 .. Cardinality(some) : s[k] = x
  BY <1>6, <1>7, <1>8, AllCounted DEF IsBest
<1>10. told = some
  <2>1. DOMAIN a = 1 .. Cardinality(some)
           /\ \A k \in 1 .. Cardinality(some) : a[k].id = s[k] /\ s[k] \in some
    BY <1>5, <1>8
  <2> HIDE DEF chunks
  <2> QED
    BY <1>9, <2>1
<1>11. IsAnswer(a, some, n)
  BY <1>5, <1>6, <1>7, AnswerOfBest
<1> HIDE DEF chunks
<1> QED
  BY <1>10, <1>11

\* The stores asked, what of the chunks each has, and what each answers.
Answered(answers, kinds, chunks, n) ==
    /\ kinds \subseteq Kinds /\ DOMAIN answers = kinds /\ chunks \in [kinds -> SUBSET Ids]
    /\ \A j, k \in kinds : j = k \/ chunks[j] \cap chunks[k] = {}
    /\ \A k \in kinds : IsAnswer(answers[k], chunks[k], n)

\* A store and a place in its answer.
Hits(answers) ==
    UNION {{<<kind, k>> : k \in DOMAIN answers[kind]} : kind \in DOMAIN answers}

HitId(answers, h) == answers[h[1]][h[2]].id

HitDistance(answers, h) == answers[h[1]][h[2]].distance

Order(answers) == {p \in Hits(answers) \X Hits(answers) : ComesFirst(answers, p[1], p[2])}

AllOf(kinds, chunks) == UNION {chunks[k] : k \in kinds}

LEMMA HitsMean ==
    ASSUME NEW answers, NEW kinds, NEW chunks, NEW n \in Nat,
           Answered(answers, kinds, chunks, n), NEW h \in Hits(answers)
    PROVE  /\ h = <<h[1], h[2]>> /\ h[1] \in kinds /\ h[1] \in Kinds
           /\ h[2] \in DOMAIN answers[h[1]] /\ h[2] \in 1 .. n
           /\ HitId(answers, h) \in chunks[h[1]] /\ HitId(answers, h) \in Ids
           /\ HitId(answers, h) \in AllOf(kinds, chunks)
           /\ HitDistance(answers, h) = Exact - Similarity[HitId(answers, h)]
           /\ HitDistance(answers, h) \in Int
<1>1. h = <<h[1], h[2]>> /\ h[1] \in kinds /\ h[2] \in DOMAIN answers[h[1]]
  BY DEF Hits, Answered
<1>2. IsAnswer(answers[h[1]], chunks[h[1]], n) /\ h[1] \in Kinds
         /\ chunks[h[1]] \subseteq Ids
  BY <1>1 DEF Answered
<1>3. PICK m \in Nat : DOMAIN answers[h[1]] = 1 .. m /\ m <= n
  BY <1>2 DEF IsAnswer
<1>4. h[2] \in 1 .. n
  BY <1>1, <1>3
<1>5. /\ HitId(answers, h) \in chunks[h[1]]
      /\ HitDistance(answers, h) = Exact - Similarity[HitId(answers, h)]
  BY <1>1, <1>2 DEF IsAnswer, HitId, HitDistance
<1>6. HitId(answers, h) \in Ids /\ HitId(answers, h) \in AllOf(kinds, chunks)
  BY <1>1, <1>2, <1>5 DEF AllOf
<1>7. HitDistance(answers, h) \in Int
  BY <1>5, <1>6, LikenessTyped
<1> QED
  BY <1>1, <1>2, <1>4, <1>5, <1>6, <1>7

\* A chunk is a hit once.
LEMMA HitsDiffer ==
    ASSUME NEW answers, NEW kinds, NEW chunks, NEW n \in Nat,
           Answered(answers, kinds, chunks, n),
           NEW g \in Hits(answers), NEW h \in Hits(answers),
           HitId(answers, g) = HitId(answers, h)
    PROVE  g = h
<1>1. /\ g = <<g[1], g[2]>> /\ g[1] \in kinds /\ g[2] \in DOMAIN answers[g[1]]
      /\ HitId(answers, g) \in chunks[g[1]]
      /\ h = <<h[1], h[2]>> /\ h[1] \in kinds /\ h[2] \in DOMAIN answers[h[1]]
      /\ HitId(answers, h) \in chunks[h[1]]
  BY HitsMean
<1>2. g[1] = h[1]
  BY <1>1 DEF Answered
<1>3. IsAnswer(answers[h[1]], chunks[h[1]], n)
  BY <1>1 DEF Answered
<1>4. g[2] = h[2]
  BY <1>1, <1>2, <1>3 DEF IsAnswer, HitId
<1> QED
  BY <1>1, <1>2, <1>4

LEMMA HitsFinite ==
    ASSUME NEW answers, NEW kinds, NEW chunks, NEW n \in Nat,
           Answered(answers, kinds, chunks, n)
    PROVE  /\ IsFiniteSet(AllOf(kinds, chunks)) /\ AllOf(kinds, chunks) \in SUBSET Ids
           /\ Cardinality(AllOf(kinds, chunks)) \in Nat
           /\ IsFiniteSet(Hits(answers)) /\ Cardinality(Hits(answers)) \in Nat
           /\ Cardinality(Hits(answers)) <= Cardinality(AllOf(kinds, chunks))
           /\ Cardinality(Hits(answers)) = Cardinality(AllOf(kinds, chunks)) =>
                 \A x \in AllOf(kinds, chunks) : \E h \in Hits(answers) : HitId(answers, h) = x
<1> DEFINE all == AllOf(kinds, chunks)
           hits == Hits(answers)
           f == [h \in hits |-> HitId(answers, h)]
<1>1. all \in SUBSET Ids
  BY DEF AllOf, Answered
<1>2. IsFiniteSet(all)
  BY <1>1, StoresAssumption, FS_Subset
<1>3. f \in Injection(hits, all)
  <2>1. \A h \in hits : HitId(answers, h) \in all
    BY HitsMean
  <2>2. \A g, h \in hits : HitId(answers, g) = HitId(answers, h) => g = h
    BY HitsDiffer
  <2> HIDE DEF hits, all
  <2> QED
    BY <2>1, <2>2 DEF Injection, IsInjective
<1>4. /\ IsFiniteSet(hits) /\ Cardinality(hits) <= Cardinality(all)
      /\ Cardinality(hits) = Cardinality(all) <=> f \in Surjection(hits, all)
  <2> HIDE DEF hits, all, f
  <2> QED
    BY <1>2, <1>3, FS_Injection
<1>5. f \in Surjection(hits, all) => \A x \in all : \E h \in hits : HitId(answers, h) = x
  <2> HIDE DEF hits, all
  <2> QED
    BY DEF Surjection
<1> HIDE DEF hits, all, f
<1>6. Cardinality(hits) \in Nat /\ Cardinality(all) \in Nat
  BY <1>2, <1>4, FS_CardinalityType
<1> QED
  BY <1>1, <1>2, <1>4, <1>5, <1>6 DEF hits, all

\* Any two hits come one before the other.
LEMMA HitsInOrder ==
    ASSUME NEW answers, NEW kinds, NEW chunks, NEW n \in Nat,
           Answered(answers, kinds, chunks, n)
    PROVE  StrictlyOrdered(Hits(answers), Order(answers))
<1> DEFINE hits == Hits(answers)
           d(h) == HitDistance(answers, h)
<1>1. \A h \in hits : /\ h = <<h[1], h[2]>> /\ h[1] \in {"pgvector", "pinecone"}
                      /\ h[2] \in Int /\ d(h) \in Int
  BY HitsMean DEF Kinds
<1>2. \A x, y \in hits : <<x, y>> \in Order(answers) <=>
          \/ d(x) < d(y)
          \/ d(x) = d(y) /\ x[1] = "pgvector" /\ y[1] = "pinecone"
          \/ d(x) = d(y) /\ x[1] = y[1] /\ x[2] < y[2]
  BY DEF Order, ComesFirst, HitDistance
<1> HIDE DEF hits, d
<1>3. \A x \in hits : <<x, x>> \notin Order(answers)
  BY <1>1, <1>2
<1>4. ASSUME NEW x \in hits, NEW y \in hits, NEW z \in hits,
             <<x, y>> \in Order(answers), <<y, z>> \in Order(answers)
      PROVE  <<x, z>> \in Order(answers)
  <2>1. d(x) \in Int /\ d(y) \in Int /\ d(z) \in Int
           /\ x[2] \in Int /\ y[2] \in Int /\ z[2] \in Int
    BY <1>1
  <2>2. \/ d(x) < d(y)
        \/ d(x) = d(y) /\ x[1] = "pgvector" /\ y[1] = "pinecone"
        \/ d(x) = d(y) /\ x[1] = y[1] /\ x[2] < y[2]
    BY <1>2, <1>4
  <2>3. \/ d(y) < d(z)
        \/ d(y) = d(z) /\ y[1] = "pgvector" /\ z[1] = "pinecone"
        \/ d(y) = d(z) /\ y[1] = z[1] /\ y[2] < z[2]
    BY <1>2, <1>4
  <2>4. \/ d(x) < d(z)
        \/ d(x) = d(z) /\ x[1] = "pgvector" /\ z[1] = "pinecone"
        \/ d(x) = d(z) /\ x[1] = z[1] /\ x[2] < z[2]
    BY <2>1, <2>2, <2>3
  <2> QED
    BY <1>2, <2>4
<1>5. ASSUME NEW x \in hits, NEW y \in hits, x # y
      PROVE  <<x, y>> \in Order(answers) \/ <<y, x>> \in Order(answers)
  <2>1. d(x) \in Int /\ d(y) \in Int /\ x[2] \in Int /\ y[2] \in Int
           /\ x[1] \in {"pgvector", "pinecone"} /\ y[1] \in {"pgvector", "pinecone"}
    BY <1>1
  <2>2. x[1] # y[1] \/ x[2] # y[2]
    BY <1>1, <1>5
  <2> QED
    BY <1>2, <2>1, <2>2
<1> QED
  BY <1>3, <1>4, <1>5 DEF hits, StrictlyOrdered

\* A chunk that no store answered with was beaten by all that its store answered with.
LEMMA NotAnswered ==
    ASSUME NEW answers, NEW kinds, NEW chunks, NEW n \in Nat,
           Answered(answers, kinds, chunks, n), NEW kind \in kinds, NEW x \in chunks[kind],
           \A h \in Hits(answers) : HitId(answers, h) # x
    PROVE  /\ DOMAIN answers[kind] = 1 .. n
           /\ \A k \in 1 .. n : <<kind, k>> \in Hits(answers)
                                   /\ Similarity[x] <= Similarity[answers[kind][k].id]
<1> DEFINE a == answers[kind]
           mine == chunks[kind]
<1>1. IsAnswer(a, mine, n) /\ mine \in SUBSET Ids
  BY DEF Answered
<1>2. PICK m \in Nat : /\ DOMAIN a = 1 .. m /\ m <= n /\ m <= Cardinality(mine)
                       /\ m = n \/ m = Cardinality(mine)
  BY <1>1 DEF IsAnswer
<1>3. \A k \in DOMAIN a : <<kind, k>> \in Hits(answers)
  BY DEF Hits, Answered
<1>4. \A k \in DOMAIN a : a[k].id # x
  BY <1>3 DEF HitId
<1>5. m = n
  <2> SUFFICES ASSUME m = Cardinality(mine) PROVE FALSE
    BY <1>2
  <2> DEFINE f == [k \in 1 .. m |-> a[k].id]
  <2>1. IsFiniteSet(mine)
    BY <1>1, StoresAssumption, FS_Subset
  <2>2. f \in [1 .. m -> mine] /\ \A k \in 1 .. m : f[k] = a[k].id
    BY <1>1, <1>2 DEF IsAnswer
  <2>3. \A j, k \in 1 .. m : f[j] = f[k] => j = k
    BY <1>1, <1>2, <2>2 DEF IsAnswer
  <2> HIDE DEF f, mine
  <2>4. \E k \in 1 .. m : f[k] = x
    BY <2>1, <2>2, <2>3, AllCounted DEF mine
  <2> QED
    BY <1>2, <1>4, <2>2, <2>4
<1>6. \A k \in 1 .. n : \A j \in 1 .. k : j \in 1 .. n
  OBVIOUS
<1>7. \A k \in 1 .. n : Similarity[x] <= Similarity[a[k].id]
  BY <1>1, <1>2, <1>4, <1>5, <1>6 DEF IsAnswer
<1> QED
  BY <1>2, <1>3, <1>5, <1>7

\* The merged answers are what one store would answer that had all of the chunks.
LEMMA MergeIsBest ==
    ASSUME NEW answers, NEW kinds, NEW chunks, NEW n \in Nat,
           Answered(answers, kinds, chunks, n)
    PROVE  IsBest(Merge(answers, n), AllOf(kinds, chunks), n)
<1> DEFINE all == AllOf(kinds, chunks)
           hits == Hits(answers)
           R == Order(answers)
           size == Cardinality(hits)
           m == IF n < size THEN n ELSE size
           nth(p) == CHOOSE x \in hits : Rank(hits, R, x) = p - 1
           found == Merge(answers, n)
<1>1. /\ IsFiniteSet(all) /\ all \in SUBSET Ids /\ Cardinality(all) \in Nat
      /\ IsFiniteSet(hits) /\ size \in Nat /\ size <= Cardinality(all)
      /\ size = Cardinality(all) => \A x \in all : \E h \in hits : HitId(answers, h) = x
  BY HitsFinite
<1>2. /\ \A x \in hits : Rank(hits, R, x) \in 0 .. size - 1
      /\ \A x, y \in hits : <<x, y>> \in R => Rank(hits, R, x) < Rank(hits, R, y)
      /\ \A x, y \in hits : Rank(hits, R, x) = Rank(hits, R, y) => x = y
      /\ \A p \in 0 .. size - 1 : \E x \in hits : Rank(hits, R, x) = p
  <2>1. StrictlyOrdered(hits, R)
    BY HitsInOrder
  <2> HIDE DEF hits, R
  <2> QED
    BY <1>1, <2>1, RanksAreTaken
<1>3. \A x \in hits : Rank(hits, R, x) = Cardinality({y \in hits : ComesFirst(answers, y, x)})
  <2>1. ASSUME NEW x \in hits
        PROVE  Preceding(hits, R, x) = {y \in hits : ComesFirst(answers, y, x)}
    BY DEF Preceding, Order
  <2> HIDE DEF hits, R
  <2> QED
    BY <2>1 DEF Rank
<1>4. \A p \in 1 .. m : nth(p) \in hits /\ Rank(hits, R, nth(p)) = p - 1
  <2> SUFFICES ASSUME NEW p \in 1 .. m PROVE nth(p) \in hits /\ Rank(hits, R, nth(p)) = p - 1
    OBVIOUS
  <2>1. p - 1 \in 0 .. size - 1
    <3> HIDE DEF size
    <3> QED
      BY <1>1
  <2> HIDE DEF hits, R
  <2> QED
    BY <1>2, <2>1
<1>5. found = [p \in 1 .. m |-> HitId(answers, nth(p))]
  <2> DEFINE pick(p) == CHOOSE x \in hits :
                 Cardinality({y \in hits : ComesFirst(answers, y, x)}) = p - 1
  <2>1. found = [p \in 1 .. m |-> answers[pick(p)[1]][pick(p)[2]].id]
    BY DEF Merge, Hits
  <2>2. \A p \in 1 .. m : pick(p) = nth(p)
    <3> HIDE DEF hits, R
    <3> QED
      BY <1>3
  <2> HIDE DEF pick, nth, m
  <2> QED
    BY <2>1, <2>2 DEF HitId
<1>6. m \in Nat /\ m <= n
  BY <1>1
<1>7. ASSUME NEW x \in all, \A h \in hits : HitId(answers, h) # x
      PROVE  /\ size >= n
             /\ \E kind \in kinds : \A k \in 1 .. n :
                   <<kind, k>> \in hits /\ Similarity[x] <= Similarity[answers[kind][k].id]
  <2>1. PICK kind \in kinds : x \in chunks[kind]
    BY DEF AllOf
  <2>2. \A k \in 1 .. n :
            <<kind, k>> \in hits /\ Similarity[x] <= Similarity[answers[kind][k].id]
    BY <1>7, <2>1, NotAnswered
  <2> DEFINE T == {<<kind, k>> : k \in 1 .. n}
             f == [k \in 1 .. n |-> <<kind, k>>]
  <2>3. f \in [1 .. n -> T] /\ (\A j, k \in 1 .. n : f[j] = f[k] => j = k)
           /\ \A t \in T : \E k \in 1 .. n : f[k] = t
    OBVIOUS
  <2>4. IsFiniteSet(T) /\ Cardinality(T) = n
    <3> HIDE DEF f, T
    <3> QED
      BY <2>3, CountOf
  <2>5. T \in SUBSET hits
    BY <2>2
  <2>6. Cardinality(T) <= Cardinality(hits)
    <3> HIDE DEF T, hits
    <3> QED
      BY <1>1, <2>5, FS_Subset
  <2>7. size >= n
    <3> HIDE DEF T
    <3> QED
      BY <1>1, <2>4, <2>6
  <2> QED
    BY <2>1, <2>2, <2>7
<1>8. m = IF n < Cardinality(all) THEN n ELSE Cardinality(all)
  <2>1. CASE size = Cardinality(all)
    BY <2>1
  <2>2. CASE size # Cardinality(all)
    <3>1. \E x \in all : \A h \in hits : HitId(answers, h) # x
      <4> SUFFICES ASSUME \A x \in all : \E h \in hits : HitId(answers, h) = x
                   PROVE  FALSE
        OBVIOUS
      <4> DEFINE g == [h \in hits |-> HitId(answers, h)]
      <4>1. \A h \in hits : HitId(answers, h) \in all
        BY HitsMean
      <4>2. g \in Surjection(hits, all)
        <5> HIDE DEF hits, all
        <5> QED
          BY <4>1 DEF Surjection
      <4>3. Cardinality(all) <= size
        <5> HIDE DEF hits, all, g
        <5> QED
          BY <1>1, <4>2, FS_Surjection
      <4> HIDE DEF size, all
      <4> QED
        BY <1>1, <2>2, <4>3
    <3>2. size >= n
      BY <1>7, <3>1
    <3> HIDE DEF size, all
    <3> QED
      BY <1>1, <2>2, <3>2
  <2> QED
    BY <2>1, <2>2
<1>9. \A p \in 1 .. m : found[p] = HitId(answers, nth(p))
                       /\ found[p] \in all /\ found[p] \in Ids
                           /\ HitDistance(answers, nth(p)) = Exact - Similarity[found[p]]
  <2>1. \A p \in 1 .. m : found[p] = HitId(answers, nth(p))
    <3> HIDE DEF nth, m, found
    <3> QED
      BY <1>5
  <2>2. \A p \in 1 .. m : nth(p) \in hits
    BY <1>4
  <2> HIDE DEF nth, m, found
  <2> QED
    BY <2>1, <2>2, HitsMean
<1>10. found \in [1 .. m -> all]
  <2> HIDE DEF nth, m, all
  <2>1. \A p \in 1 .. m : HitId(answers, nth(p)) \in all
    BY <1>9
  <2> HIDE DEF found
  <2> QED
    BY <1>5, <2>1
<1>11. ASSUME NEW j \in 1 .. m, NEW k \in 1 .. m, found[j] = found[k]
       PROVE  j = k
  <2>1. nth(j) \in hits /\ nth(k) \in hits
    BY <1>4
  <2>2. HitId(answers, nth(j)) = HitId(answers, nth(k))
    BY <1>9, <1>11
  <2>3. Rank(hits, R, nth(j)) = j - 1 /\ Rank(hits, R, nth(k)) = k - 1
    BY <1>4
  <2> HIDE DEF nth, hits, R, found, m
  <2>4. nth(j) = nth(k)
    BY <2>1, <2>2, HitsDiffer DEF hits
  <2>5. j - 1 = k - 1
    BY <2>3, <2>4
  <2> QED
    BY <2>5, <1>6
<1>12. ASSUME NEW k \in 1 .. m, NEW x \in all, Similarity[x] > Similarity[found[k]]
       PROVE  \E j \in 1 .. k : x = found[j]
  <2> DEFINE h == nth(k)
  <2>1. h \in hits /\ Rank(hits, R, h) = k - 1
    BY <1>4
  <2>2. /\ HitDistance(answers, h) = Exact - Similarity[found[k]]
        /\ found[k] \in Ids /\ x \in Ids
    BY <1>1, <1>9
  <2>3. Similarity[x] \in Int /\ Similarity[found[k]] \in Int /\ Exact \in Int
    BY <2>2, LikenessTyped
  <2> HIDE DEF found, h
  <2>4. ASSUME NEW g \in hits, Similarity[x] <= Similarity[HitId(answers, g)]
        PROVE  <<g, h>> \in R
    <3>1. /\ HitDistance(answers, g) = Exact - Similarity[HitId(answers, g)]
          /\ HitId(answers, g) \in Ids
      BY HitsMean
    <3>2. Similarity[HitId(answers, g)] \in Int
      BY <3>1, LikenessTyped
    <3>3. HitDistance(answers, g) < HitDistance(answers, h)
      BY <1>12, <2>2, <2>3, <2>4, <3>1, <3>2
    <3> QED
      BY <2>1, <3>3 DEF Order, ComesFirst, HitDistance
  <2>5. CASE \E g \in hits : HitId(answers, g) = x
    <3>1. PICK g \in hits : HitId(answers, g) = x
      BY <2>5
    <3>2. <<g, h>> \in R
      BY <2>3, <2>4, <3>1
    <3>3. Rank(hits, R, g) < k - 1 /\ Rank(hits, R, g) \in 0 .. size - 1
      BY <1>2, <2>1, <3>2
    <3> DEFINE j == Rank(hits, R, g) + 1
    <3>4. j \in 1 .. k /\ j \in 1 .. m /\ Rank(hits, R, g) = j - 1
      <4> HIDE DEF hits, R, size, m
      <4> QED
        BY <1>6, <3>3
    <3> HIDE DEF j
    <3>5. nth(j) \in hits /\ Rank(hits, R, nth(j)) = Rank(hits, R, g)
      BY <1>4, <3>4
    <3>6. nth(j) = g
      <4> HIDE DEF nth, hits, R
      <4> QED
        BY <1>2, <3>5
    <3>7. found[j] = x
      <4> HIDE DEF nth, hits, R, m
      <4> QED
        BY <1>9, <3>1, <3>4, <3>6
    <3> QED
      BY <3>4, <3>7
  <2>6. CASE \A g \in hits : HitId(answers, g) # x
    <3>1. PICK kind \in kinds : \A i \in 1 .. n :
              <<kind, i>> \in hits /\ Similarity[x] <= Similarity[answers[kind][i].id]
      BY <1>7, <2>6
    <3> DEFINE T == {<<kind, i>> : i \in 1 .. n}
               f == [i \in 1 .. n |-> <<kind, i>>]
    <3>2. f \in [1 .. n -> T] /\ (\A i, j \in 1 .. n : f[i] = f[j] => i = j)
             /\ \A t \in T : \E i \in 1 .. n : f[i] = t
      OBVIOUS
    <3>3. Cardinality(T) = n
      <4> HIDE DEF f, T
      <4> QED
        BY <3>2, CountOf
    <3>4. \A i \in 1 .. n : <<<<kind, i>>, h>> \in R
      BY <2>4, <3>1 DEF HitId
    <3>5. T \in SUBSET Preceding(hits, R, h)
      BY <3>1, <3>4 DEF Preceding
    <3>6. Preceding(hits, R, h) \in SUBSET hits
      BY DEF Preceding
    <3>7. Cardinality(T) <= Rank(hits, R, h)
      <4> HIDE DEF T, hits, R
      <4>1. IsFiniteSet(Preceding(hits, R, h))
        BY <1>1, <3>6, FS_Subset
      <4> QED
        BY <3>5, <4>1, FS_Subset DEF Rank
    <3>8. n <= k - 1
      <4> HIDE DEF T, hits, R
      <4> QED
        BY <2>1, <3>3, <3>7
    <3> HIDE DEF m
    <3> QED
      BY <1>6, <3>8
  <2> QED
    BY <2>5, <2>6
<1>13. ASSUME NEW k \in 1 .. m, NEW x \in all
       PROVE  (\E j \in 1 .. k : x = found[j]) \/ Similarity[x] <= Similarity[found[k]]
  <2>1. Similarity[x] \in Int /\ Similarity[found[k]] \in Int
    BY <1>1, <1>9, LikenessTyped
  <2> HIDE DEF found, m, all
  <2> QED
    BY <1>12, <2>1
<1> HIDE DEF found, m, all
<1> QED
  BY <1>6, <1>8, <1>10, <1>11, <1>13 DEF IsBest, found, all

\* A read returns what passes, and all unless it is too much.
LEMMA GetMeans ==
    ASSUME NEW kind, NEW store, NEW owner, NEW ids \in SUBSET Ids, NEW doc,
           ids = {} \/ doc = Vacant, NEW read \in Get(kind, store, owner, ids, doc)
    PROVE  LET want == {i \in Held(store, owner) : Passes(i, ids, doc)}
           IN  read \in SUBSET want /\ (Cardinality(want) <= ReadCap => read = want)
<1> DEFINE want == {i \in Held(store, owner) : Passes(i, ids, doc)}
<1> SUFFICES read \in SUBSET want /\ (Cardinality(want) <= ReadCap => read = want)
  OBVIOUS
<1>1. CASE kind = "pgvector"
  BY <1>1 DEF Get, PgGet
<1>2. CASE kind # "pgvector" /\ ids # {}
  <2>1. want = ids \cap Held(store, owner)
    BY <1>2 DEF Passes, Held
  <2> QED
    BY <1>2, <2>1 DEF Get, PineconeGet
<1>3. CASE kind # "pgvector" /\ ids = {}
  <2>1. read \in IF Cardinality(want) <= ReadCap THEN {want} ELSE kSubset(ReadCap, want)
    BY <1>3 DEF Get, PineconeGet
  <2> HIDE DEF want
  <2> QED
    BY <2>1 DEF kSubset
<1> QED
  BY <1>1, <1>2, <1>3

\* What a read of a store may find: what is there, but for a chunk of which the last write
\* is late.
LEMMA FoundMeans ==
    ASSUME NEW c, c.owner \in Owners, NEW kind \in Kinds,
           \A i \in c.pending : c.place[i] # "pgvector",
           NEW seen \in Found(c, kind)
    PROVE  /\ Held(seen, c.owner) \subseteq
                 {i \in Ids : \/ c.place[i] = kind
                              \/ kind = "pinecone" /\ i \in c.pending /\ c.place[i] = Vacant}
           /\ {i \in Ids : c.place[i] = kind} \ c.pending \subseteq Held(seen, c.owner)
<1> DEFINE store == StoreOf(c, kind)
           owner == c.owner
           was == [i \in Ids |-> IF i \notin c.pending THEN store[c.owner][i]
                                 ELSE IF c.place[i] = Vacant THEN TheText ELSE Vacant]
<1>1. TheText \in Texts /\ TheText # Vacant
  BY StoreCallsTyped, StoresAssumption
<1>2. store \in StoreStates
      /\ \A i \in Ids : store[owner][i] = IF c.place[i] = kind THEN TheText ELSE Vacant
  <2> DEFINE F(o) == [i \in Ids |->
                 IF (IF o = c.owner THEN c.place[i] ELSE c.others) = kind
                 THEN TheText ELSE Vacant]
  <2>1. \A o \in Owners : F(o) \in [Ids -> Texts \cup {Vacant}]
    BY <1>1
  <2>2. \A i \in Ids : F(owner)[i] = IF c.place[i] = kind THEN TheText ELSE Vacant
    OBVIOUS
  <2>3. store = [o \in Owners |-> F(o)]
    BY DEF StoreOf
  <2> HIDE DEF F, store
  <2> QED
    BY <2>1, <2>2, <2>3 DEF StoreStates
<1>3. /\ was \in [Ids -> Texts \cup {Vacant}]
      /\ \A i \in Ids : was[i] = IF i \notin c.pending THEN store[owner][i]
                                 ELSE IF c.place[i] = Vacant THEN TheText ELSE Vacant
  <2> HIDE DEF store
  <2> QED
    BY <1>1, <1>2 DEF StoreStates
<1>4. seen \in Views(kind, store, was, owner)
  BY DEF Found
<1> HIDE DEF store, was
<1>5. \A i \in Ids : \/ seen[owner][i] = store[owner][i]
                     \/ kind # "pgvector" /\ seen[owner][i] = was[i]
  BY <1>2, <1>3, <1>4, ViewsMean
<1>6. kind = "pgvector" \/ kind = "pinecone"
  BY DEF Kinds
<1>7. ASSUME NEW i \in Ids, seen[owner][i] # Vacant
      PROVE  \/ c.place[i] = kind
             \/ kind = "pinecone" /\ i \in c.pending /\ c.place[i] = Vacant
  BY <1>2, <1>3, <1>5, <1>6, <1>7
<1>8. ASSUME NEW i \in Ids, c.place[i] = kind, i \notin c.pending
      PROVE  seen[owner][i] # Vacant
  BY <1>1, <1>2, <1>3, <1>5, <1>8
<1> QED
  BY <1>7, <1>8 DEF Held

LEMMA SearchesAsOne ==
    ASSUME call \in SearchCalls, result \in Search(call)
    PROVE  /\ result.returned \subseteq Holding(call, {}) \cup Lingering(call, {})
           /\ result.found \in
                 Best(result.returned, call.n, LAMBDA x, y : Similarity[x] > Similarity[y])
<1> DEFINE kinds == Kinds \ call.failing
           owner == call.owner
           doc == call.doc
           n == call.n
           Q(k) == UNION {Query(k, s, owner, doc, n) : s \in Found(call, k)}
           A == {f \in [kinds -> UNION {Q(k) : k \in kinds}] : \A k \in kinds : f[k] \in Q(k)}
<1>1. /\ owner \in Owners /\ n \in Nat
      /\ \A i \in call.pending : call.place[i] # "pgvector"
  BY StoreCallsTyped, StoresAssumption DEF SearchCalls, Sited
<1>2. PICK a \in A :
          result = [found |-> Merge(a, n),
                    returned |-> UNION {{a[k][j].id : j \in DOMAIN a[k]} : k \in kinds}]
  <2>1. Search(call) =
            {[found |-> Merge(a, n),
              returned |-> UNION {{a[k][j].id : j \in DOMAIN a[k]} : k \in kinds}] : a \in A}
    BY DEF Search, OneOfEach, Answering
  <2> HIDE DEF A, kinds, n
  <2> QED
    BY <2>1
<1> DEFINE Told(k) == {a[k][j].id : j \in DOMAIN a[k]}
           chunks == [k \in kinds |-> Told(k)]
           May(k) == {i \in Ids : /\ \/ call.place[i] = k
                                     \/ /\ k = "pinecone" /\ i \in call.pending
                                        /\ call.place[i] = Vacant
                                  /\ Passes(i, {}, doc)}
<1>3. DOMAIN a = kinds /\ result.found = Merge(a, n)
         /\ result.returned = UNION {Told(k) : k \in kinds}
  BY <1>2
<1>4. ASSUME NEW k \in kinds
      PROVE  Told(k) \subseteq May(k) /\ IsAnswer(a[k], Told(k), n)
  <2>1. PICK s \in Found(call, k) : a[k] \in Query(k, s, owner, doc, n)
    BY <1>2
  <2>2. /\ Told(k) \subseteq {i \in Held(s, owner) : Passes(i, {}, doc)}
        /\ IsAnswer(a[k], Told(k), n)
    <3> HIDE DEF owner, doc, n, A
    <3>1. ASSUME NEW b \in Query(k, s, owner, doc, n)
          PROVE  /\ {b[j].id : j \in DOMAIN b}
                       \subseteq {i \in Held(s, owner) : Passes(i, {}, doc)}
                 /\ IsAnswer(b, {b[j].id : j \in DOMAIN b}, n)
      BY <1>1, QueryMeans
    <3> QED
      BY <2>1, <3>1
  <2>3. Held(s, owner) \subseteq
            {i \in Ids : \/ call.place[i] = k
                         \/ k = "pinecone" /\ i \in call.pending /\ call.place[i] = Vacant}
    BY <1>1, FoundMeans
  <2> HIDE DEF Told
  <2> QED
    BY <2>2, <2>3
<1> HIDE DEF Told, Q, A, owner, n
<1>5. Answered(a, kinds, chunks, n)
  <2>1. chunks \in [kinds -> SUBSET Ids] /\ \A k \in kinds : chunks[k] = Told(k)
    BY <1>4
  <2>2. \A j, k \in kinds : j = k \/ Told(j) \cap Told(k) = {}
    <3>1. \A j, k \in Kinds : j = k \/ May(j) \cap May(k) = {}
      BY <1>1 DEF Kinds
    <3> HIDE DEF May
    <3> QED
      BY <1>4, <3>1
  <2>3. kinds \subseteq Kinds
    OBVIOUS
  <2> HIDE DEF chunks, kinds
  <2> QED
    BY <1>3, <1>4, <2>1, <2>2, <2>3 DEF Answered
<1>6. AllOf(kinds, chunks) = result.returned
  BY <1>3 DEF AllOf
<1>7. result.returned \subseteq Holding(call, {}) \cup Lingering(call, {})
  <2> SUFFICES ASSUME NEW k \in kinds, NEW i \in Told(k)
               PROVE  i \in Holding(call, {}) \cup Lingering(call, {})
    BY <1>3
  <2>1. i \in May(k)
    BY <1>4
  <2> QED
    BY <2>1 DEF Holding, Lingering
<1>8. result.found \in Closest(result.returned, n)
  <2>1. IsBest(Merge(a, n), AllOf(kinds, chunks), n)
    <3> HIDE DEF kinds, chunks
    <3> QED
      BY <1>1, <1>5, MergeIsBest
  <2>2. AllOf(kinds, chunks) \in SUBSET Ids
    BY <1>6, <1>7 DEF Holding, Lingering
  <2> HIDE DEF kinds, chunks
  <2> QED
    BY <1>1, <1>3, <1>6, <2>1, <2>2, BestMeans
<1> QED
  BY <1>7, <1>8 DEF Closest, n

LEMMA ReadsAsOne ==
    ASSUME call \in ReadCalls, result \in Read(call)
    PROVE  LET there == Holding(call, call.ids)
               seen == there \cup Lingering(call, call.ids)
           IN  /\ result.read \subseteq seen
               /\ Cardinality(seen) <= ReadCap => there \ call.pending \subseteq result.read
<1> DEFINE kinds == Kinds \ call.failing
           owner == call.owner
           doc == call.doc
           ids == call.ids
           there == Holding(call, ids)
           seen == there \cup Lingering(call, ids)
           G(k) == UNION {Get(k, s, owner, ids, doc) : s \in Found(call, k)}
           B == {f \in [kinds -> UNION {G(k) : k \in kinds}] : \A k \in kinds : f[k] \in G(k)}
<1> SUFFICES /\ result.read \subseteq seen
             /\ Cardinality(seen) <= ReadCap => there \ call.pending \subseteq result.read
  OBVIOUS
<1>1. /\ owner \in Owners /\ ids \in SUBSET Ids /\ (ids = {} \/ doc = Vacant)
      /\ \A i \in call.pending : call.place[i] # "pgvector"
  BY StoreCallsTyped DEF ReadCalls, Sited
<1>2. PICK r \in B : result = [read |-> UNION {r[k] : k \in kinds}]
  <2>1. Read(call) = {[read |-> UNION {r[k] : k \in kinds}] : r \in B}
    BY DEF Read, OneOfEach, Answering
  <2> HIDE DEF B, kinds
  <2> QED
    BY <2>1
<1>3. seen \in SUBSET Ids
  BY DEF Holding, Lingering
<1>4. ASSUME NEW k \in kinds
      PROVE  /\ r[k] \subseteq seen
             /\ Cardinality(seen) <= ReadCap =>
                   {i \in there : call.place[i] = k} \ call.pending \subseteq r[k]
  <2>1. PICK s \in Found(call, k) : r[k] \in Get(k, s, owner, ids, doc)
    BY <1>2
  <2> DEFINE want == {i \in Held(s, owner) : Passes(i, ids, doc)}
  <2>2. r[k] \in SUBSET want /\ (Cardinality(want) <= ReadCap => r[k] = want)
    <3> HIDE DEF owner, doc, ids
    <3> QED
      BY <1>1, <2>1, GetMeans
  <2>3. /\ Held(s, owner) \subseteq
              {i \in Ids : \/ call.place[i] = k
                           \/ k = "pinecone" /\ i \in call.pending /\ call.place[i] = Vacant}
        /\ {i \in Ids : call.place[i] = k} \ call.pending \subseteq Held(s, owner)
    BY <1>1, FoundMeans
  <2>4. want \in SUBSET seen
    BY <2>3 DEF Holding, Lingering
  <2>5. {i \in there : call.place[i] = k} \ call.pending \subseteq want
    BY <2>3 DEF Holding
  <2>6. Cardinality(seen) <= ReadCap => Cardinality(want) <= ReadCap
    <3> HIDE DEF want, seen
    <3>1. IsFiniteSet(seen)
      BY <1>3, StoresAssumption, FS_Subset
    <3>2. Cardinality(want) <= Cardinality(seen) /\ Cardinality(want) \in Nat
             /\ Cardinality(seen) \in Nat
      BY <2>4, <3>1, FS_Subset, FS_CardinalityType
    <3> QED
      BY <3>2, StoresAssumption
  <2> HIDE DEF want, seen, there
  <2> QED
    BY <2>2, <2>4, <2>5, <2>6
<1>5. \A i \in there : call.place[i] \in kinds
  BY DEF Holding
<1>6. result.read = UNION {r[k] : k \in kinds}
  BY <1>2
<1> HIDE DEF seen, there, kinds
<1> QED
  BY <1>4, <1>5, <1>6

-----------------------------------------------------------------------------
(* Calls of functions.                                                     *)

\* What was called and what it returned, of the functions that the theorems are about.
CallsInv ==
    /\ call.function = "chunk_document" =>
          call \in ChunkingCalls /\ (returned => result = ChunkDocument(call))
    /\ call.function = "expand_context" =>
          /\ call \in ExpansionCalls
          /\ returned =>
                result = ExpandContext(Target(call.target, call.doc), call.doc, call.window)
    /\ call.function = "build_grounded_prompt" =>
          call \in PromptCalls /\ (returned => result = BuildPrompt(call))
    /\ call.function = "build_answer_response" =>
          call \in VerificationCalls /\ (returned => result = Respond(call))
    /\ call.function = "reindex" =>
          call \in ReindexCalls /\ (returned => result \in ReindexTwice(call))
    /\ call.function = "delete_document" =>
          /\ call \in DeleteCalls
          /\ returned => result \in Delete(call.kind, call.store, call.owner, {}, call.doc)
    /\ call.function = "search" =>
          call \in SearchCalls /\ (returned => result \in Search(call))
    /\ call.function = "get" =>
          call \in ReadCalls /\ (returned => result \in Read(call))
    /\ call.function = "hybrid_search" =>
          call \in HybridCalls /\ (returned => result = HybridSearch(call, call.top))
    /\ call.function = "expanded_search" =>
          call \in ExpandedCalls /\ (returned => result = ExpandedSearch(call))
    /\ call.function = "semantic_search" =>
          call \in SemanticCalls /\ (returned => result = SemanticSearch(call))
    /\ call.function = "mmr_rerank" =>
          call \in MmrCalls /\ (returned => result = MmrRerank(call))
    /\ call.function = "retrieve" =>
          call \in RetrieveCalls /\ (returned => result = RetrieveEvidence(call))
    /\ call.function = "evaluate_query" =>
          call \in EvaluateCalls /\ (returned => result = EvaluateQuery(call))
    /\ call.function = "check_gate" =>
          call \in GateCalls /\ (returned => result = CheckGate(call))
    /\ call.function = "generate" =>
          call \in SurrogateCalls /\ (returned => result = LexicalJudge(call))
    /\ call.function = "pace" =>
          call \in PaceCalls /\ (returned => result = Pace(call))

\* Each set of calls is of the function it is named for.
LEMMA FunctionNames ==
    /\ \A c \in ChunkingCalls : c.function = "chunk_document"
    /\ \A c \in ExpansionCalls : c.function = "expand_context"
    /\ \A c \in PromptCalls : c.function = "build_grounded_prompt"
    /\ \A c \in VerificationCalls : c.function = "build_answer_response"
    /\ \A c \in HybridCalls : c.function = "hybrid_search"
    /\ \A c \in SemanticCalls : c.function = "semantic_search"
    /\ \A c \in ExpandedCalls : c.function = "expanded_search"
    /\ \A c \in MmrCalls : c.function = "mmr_rerank"
    /\ \A c \in RetrieveCalls : c.function = "retrieve"
    /\ \A c \in ReindexCalls : c.function = "reindex"
    /\ \A c \in DeleteCalls : c.function = "delete_document"
    /\ \A c \in SearchCalls : c.function = "search"
    /\ \A c \in ReadCalls : c.function = "get"
    /\ \A c \in EvaluateCalls : c.function = "evaluate_query"
    /\ \A c \in GateCalls : c.function = "check_gate"
    /\ \A c \in SurrogateCalls : c.function = "generate"
    /\ \A c \in PaceCalls : c.function = "pace"
<1>1. \A c \in ChunkingCalls : c.function = "chunk_document"
  BY DEF ChunkingCalls
<1>2. \A c \in ExpansionCalls : c.function = "expand_context"
  BY DEF ExpansionCalls
<1>3. \A c \in PromptCalls : c.function = "build_grounded_prompt"
  BY DEF PromptCalls
<1>4. \A c \in VerificationCalls : c.function = "build_answer_response"
  BY DEF VerificationCalls
<1>5. \A c \in HybridCalls : c.function = "hybrid_search"
  BY DEF HybridCalls
<1>6. \A c \in SemanticCalls : c.function = "semantic_search"
  BY DEF SemanticCalls
<1>7. \A c \in ExpandedCalls : c.function = "expanded_search"
  BY DEF ExpandedCalls
<1>8. \A c \in MmrCalls : c.function = "mmr_rerank"
  BY DEF MmrCalls
<1>9. \A c \in RetrieveCalls : c.function = "retrieve"
  BY DEF RetrieveCalls
<1>10. \A c \in ReindexCalls : c.function = "reindex"
  BY DEF ReindexCalls
<1>11. \A c \in DeleteCalls : c.function = "delete_document"
  BY DEF DeleteCalls
<1>12. \A c \in SearchCalls : c.function = "search"
  BY DEF SearchCalls, Sited
<1>13. \A c \in EvaluateCalls : c.function = "evaluate_query"
  BY DEF EvaluateCalls
<1>14. \A c \in GateCalls : c.function = "check_gate"
  BY DEF GateCalls
<1>15. \A c \in SurrogateCalls : c.function = "generate"
  BY DEF SurrogateCalls
<1>16. \A c \in PaceCalls : c.function = "pace"
  BY DEF PaceCalls
<1>17. \A c \in ReadCalls : c.function = "get"
  BY DEF ReadCalls, Sited
<1> QED
  BY <1>1, <1>2, <1>3, <1>4, <1>5, <1>6, <1>7, <1>8, <1>9, <1>10, <1>11, <1>12, <1>13,
     <1>14, <1>15, <1>16, <1>17

LEMMA CallsBegin == Init => CallsInv
<1> SUFFICES ASSUME Init PROVE CallsInv
  OBVIOUS
<1>1. CASE NoCall
  BY <1>1 DEF NoCall, Pick, CallsInv
<1>2. CASE ACall
  <2>1. returned = FALSE
    BY <1>2 DEF ACall, Pick
  <2>2. \/ call \in ChunkingCalls \/ call \in ExpansionCalls \/ call \in PromptCalls
        \/ call \in VerificationCalls \/ call \in HybridCalls \/ call \in SemanticCalls
        \/ call \in ExpandedCalls \/ call \in MmrCalls \/ call \in RetrieveCalls
        \/ call \in ReindexCalls \/ call \in DeleteCalls \/ call \in SearchCalls
        \/ call \in EvaluateCalls \/ call \in GateCalls \/ call \in SurrogateCalls
        \/ call \in PaceCalls \/ call \in ReadCalls
    BY <1>2 DEF ACall, Pick
  <2> QED
    BY <2>1, <2>2, FunctionNames DEF CallsInv
<1> QED
  BY <1>1, <1>2 DEF Init

LEMMA CallsNext == CallsInv /\ [Next]_vars => CallsInv'
<1> SUFFICES ASSUME CallsInv, [Next]_vars PROVE CallsInv'
  OBVIOUS
<1>1. CASE UNCHANGED callVars
  BY <1>1 DEF CallsInv, callVars
<1>2. CASE CallReturns
  <2>1. /\ call' = call /\ returned' = TRUE
        /\ \/ /\ call.function = "build_answer_response"
              /\ result' \in {Respond(call)}
           \/ call.function = "chunk_document" /\ result' \in {ChunkDocument(call)}
           \/ /\ call.function = "expand_context"
              /\ result' \in {ExpandContext(Target(call.target, call.doc), call.doc,
                                            call.window)}
           \/ call.function = "build_grounded_prompt" /\ result' \in {BuildPrompt(call)}
           \/ call.function = "reindex" /\ result' \in ReindexTwice(call)
           \/ /\ call.function = "delete_document"
              /\ result' \in Delete(call.kind, call.store, call.owner, {}, call.doc)
           \/ call.function = "search" /\ result' \in Search(call)
           \/ call.function = "get" /\ result' \in Read(call)
           \/ call.function = "hybrid_search" /\ result' \in {HybridSearch(call, call.top)}
           \/ call.function = "expanded_search" /\ result' \in {ExpandedSearch(call)}
           \/ call.function = "semantic_search" /\ result' \in {SemanticSearch(call)}
           \/ call.function = "mmr_rerank" /\ result' \in {MmrRerank(call)}
           \/ call.function = "retrieve" /\ result' \in {RetrieveEvidence(call)}
           \/ call.function = "evaluate_query" /\ result' \in {EvaluateQuery(call)}
           \/ call.function = "check_gate" /\ result' \in {CheckGate(call)}
           \/ call.function = "generate" /\ result' \in {LexicalJudge(call)}
           \/ call.function = "pace" /\ result' \in {Pace(call)}
    BY <1>2 DEF CallReturns, Return, ChunkingReturns, ExpansionReturns, PromptReturns,
                VerificationReturns, HybridReturns, SemanticReturns, ExpandedReturns,
                MmrReturns, RetrieveReturns, ReindexReturns, DeleteReturns, SearchReturns,
                ReadReturns, EvaluateReturns, GateReturns, SurrogateReturns, PaceReturns
  <2> QED
    BY <2>1 DEF CallsInv
<1>3. UNCHANGED callVars \/ CallReturns
  BY DEF Next, vars, AgentPart
<1> QED
  BY <1>1, <1>2, <1>3

LEMMA CallsInvariant == Spec => []CallsInv
BY CallsBegin, CallsNext, PTL DEF Spec

\* Whatever the verifier and the judge write, or if they are away, what the reader is told
\* of an answer is what was found out about it: no answer fails but for a token of three
\* numbers, and what the replies may be misread for is named in the property
\* (_build_answer_response, parse_citations, validate_citations, groundedness_check).
THEOREM VerdictsAreEarned == Spec => []VerdictsEarned
<1>1. CallsInv => VerdictsEarned
  <2> SUFFICES ASSUME CallsInv, returned, call.function = "build_answer_response"
               PROVE  /\ RaisesOnTokensOnly
                      /\ ~result.raised => CitationsEarned /\ DroppedByJudge
                                              /\ ConfidenceEarned /\ ThinEvidenceMarked
    BY DEF VerdictsEarned, Of
  <2>1. call \in VerificationCalls /\ result = Respond(call)
    BY DEF CallsInv
  <2>2. AnswerChecked(call)
    BY <2>1, CallsAreChecked
  <2>3. CASE ParsingRaises(call.answer)
    <3>1. result.raised
      BY <2>1, <2>3 DEF Respond
    <3> QED
      BY <3>1, <2>2, <2>3, UnreadableIsLong
  <2>4. CASE ~ParsingRaises(call.answer)
    <3>1. result = BuildAnswerResponse(call)
      BY <2>1, <2>4 DEF Respond
    <3>2. ~result.raised
      BY <3>1 DEF BuildAnswerResponse
    <3> QED
      BY <3>1, <3>2, <2>2, CitationsAreEarned, ConfidenceIsEarned, ThinEvidenceIsMarked
         DEF RaisesOnTokensOnly
  <2> QED
    BY <2>3, <2>4
<1> QED
  BY <1>1, CallsInvariant, PTL

\* Whichever of the vector stores holds a user's chunks, or if both do, indexing a document
\* anew ends with its new chunks, a delete takes the document and nothing else, and several
\* stores answer as one would with what they returned.  Late reads of Pinecone and its limit
\* make the differences that the property names, and no others (the two drivers,
\* MultiBackendCollection, reconcile_document, batch_upsert_sink).
THEOREM StoresAreAlike == Spec => []StoresAlike
<1>1. CallsInv => ReindexConverges
  <2> SUFFICES ASSUME CallsInv, Of("reindex") PROVE ReindexConverges
    BY DEF ReindexConverges
  <2>1. call \in ReindexCalls /\ result \in ReindexTwice(call)
    BY DEF CallsInv, Of
  <2> QED
    BY <2>1, ReindexesConverge
<1>2. CallsInv => DeletesExactly
  <2> SUFFICES ASSUME CallsInv, Of("delete_document")
               PROVE  \/ result.store = Elsewhere(call.store, call.owner, call.doc)
                      \/ ~result.ok /\ result.store = call.store
    BY DEF DeletesExactly
  <2>1. call \in DeleteCalls
           /\ result \in Delete(call.kind, call.store, call.owner, {}, call.doc)
    BY DEF CallsInv, Of
  <2> QED
    BY <2>1, DeletesAreExact
<1>3. CallsInv => StoresAsOne
  <2> SUFFICES ASSUME CallsInv PROVE StoresAsOne
    OBVIOUS
  <2>1. Of("search") => call \in SearchCalls /\ result \in Search(call)
    BY DEF CallsInv, Of
  <2>2. Of("get") => call \in ReadCalls /\ result \in Read(call)
    BY DEF CallsInv, Of
  <2> QED
    BY <2>1, <2>2, SearchesAsOne, ReadsAsOne DEF StoresAsOne
<1>4. CallsInv => StoresAlike
  BY <1>1, <1>2, <1>3 DEF StoresAlike
<1> QED
  BY <1>4, CallsInvariant, PTL

\* What a question is answered from is what it asks for, best first: no leg and no phrasing
\* that fails takes away what another found, the second order is of all that was fetched,
\* diversity passes over only who is less relevant or more alike, and a whole document is
\* read from its beginning (hybrid_search, fuse_ranked_lists, semantic_search, mmr_rerank,
\* generate_answer_endpoint).
THEOREM RetrievalIsSound == Spec => []RetrievalSound
<1>1. CallsInv => RetrievalSound
  <2> SUFFICES ASSUME CallsInv PROVE RetrievalSound
    OBVIOUS
  <2>1. /\ Of("hybrid_search") => call \in HybridCalls /\ result = HybridSearch(call, call.top)
        /\ Of("expanded_search") => call \in ExpandedCalls /\ result = ExpandedSearch(call)
        /\ Of("semantic_search") => call \in SemanticCalls /\ result = SemanticSearch(call)
        /\ Of("mmr_rerank") => call \in MmrCalls /\ result = MmrRerank(call)
        /\ Of("retrieve") => call \in RetrieveCalls /\ result = RetrieveEvidence(call)
    BY DEF CallsInv, Of
  <2> QED
    BY <2>1, RetrievalIsGood
<1> QED
  BY <1>1, CallsInvariant, PTL

\* What an evaluation reports is what was measured: the metrics of a question say where its
\* evidence came, a report passes the gate only within the ceilings, what the offline
\* generator says is in the chunks, and the calls of a provider keep their distance
\* (evaluate_gen_query, check_gate, ExtractiveGenerator, LexicalJudge, _SharedPacer).
THEOREM EvaluationIsSound == Spec => []EvaluationSound
<1>1. CallsInv => EvaluationSound
  <2> SUFFICES ASSUME CallsInv PROVE EvaluationSound
    OBVIOUS
  <2>1. /\ Of("evaluate_query") => call \in EvaluateCalls /\ result = EvaluateQuery(call)
        /\ Of("check_gate") => call \in GateCalls /\ result = CheckGate(call)
        /\ Of("generate") => call \in SurrogateCalls /\ result = LexicalJudge(call)
        /\ Of("pace") => call \in PaceCalls /\ result = Pace(call)
    BY DEF CallsInv, Of
  <2> QED
    BY <2>1, EvaluationIsGood
<1> QED
  BY <1>1, CallsInvariant, PTL

\* What the model reads is the document: a retrieved chunk is widened to a text that reads
\* as the document does, with all of the chunk in it, and the budgets of the context and of
\* the prompt cut the lowest ranks first and are kept, as far as the texts can be cut
\* (expand_context, build_grounded_prompt, apply_token_budget, _enforce_input_budget).
THEOREM ContextIsSound == Spec => []ContextSound
<1>1. CallsInv => ContextSound
  <2> SUFFICES ASSUME CallsInv PROVE ContextSound
    OBVIOUS
  <2>1. /\ Of("expand_context") =>
              /\ call \in ExpansionCalls
              /\ result = ExpandContext(Target(call.target, call.doc), call.doc, call.window)
        /\ Of("build_grounded_prompt") => call \in PromptCalls /\ result = BuildPrompt(call)
    BY DEF CallsInv, Of
  <2> QED
    BY <2>1, ContextIsGood
<1> QED
  BY <1>1, CallsInvariant, PTL

\* Chunking loses nothing and can be traced, whatever the tokenizer: every written character
\* is in a chunk, a chunk lies in the text and names its pages in order, one that is longer in
\* tokens than the embedding model reads begins inside a word, and no two have one id unless
\* tokens cut them (chunk_document).
THEOREM ChunksAreSound == Spec => []ChunksSound
<1>1. CallsInv => ChunksSound
  <2> SUFFICES ASSUME CallsInv PROVE ChunksSound
    OBVIOUS
  <2>1. Of("chunk_document") => call \in ChunkingCalls /\ result = ChunkDocument(call)
    BY DEF CallsInv, Of
  <2> QED
    BY <2>1, ChunksAreGood
<1> QED
  BY <1>1, CallsInvariant, PTL

=============================================================================
