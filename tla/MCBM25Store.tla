----------------------------- MODULE MCBM25Store -----------------------------
(* Instances of BM25Store for TLC: two threads of the worker, one of the web *)
(* process.                                                                  *)
EXTENDS BM25Store, TLC

CONSTANTS worker, web, t1, t2, t3, c1, c2

MCHome == (t1 :> worker) @@ (t2 :> worker) @@ (t3 :> web)
ChunkSymmetry == Permutations(Chunks) \cup Permutations({t1, t2})
=============================================================================
