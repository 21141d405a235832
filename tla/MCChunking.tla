------------------------------ MODULE MCChunking ------------------------------
(***************************************************************************)
(* The chunker alone, for the ids of its chunks: a chunk's id is made from *)
(* the document and the chunk's place in it (make_chunk_id), and it is the *)
(* primary key of the chunk's row.                                         *)
(***************************************************************************)
EXTENDS Chunking

PageShapes == UNION {[len : {n}, blank : SUBSET (0 .. n - 1)] : n \in 0 .. 4}
TokenizersHere == {[kind |-> "model", cuts |-> {1}]}

Init == Pick(ChunkingCalls)

Spec == Init /\ [][ChunkingReturns]_callVars

\* "Deterministic chunk_ids (Part 0) mean a re-run reproduces the same rows, so
\* delete-then-insert avoids duplicate-key errors" (orchestrator.py:202): the rows that one
\* run inserts have different keys.
ChunkIdsUnique ==
    Of("chunk_document") =>
        \A i, j \in DOMAIN result : result[i].span = result[j].span => i = j

===============================================================================
