---------------------------- MODULE DocumentLife ----------------------------
(***************************************************************************)
(* What the pipeline promises to whoever looks at a document's status: as  *)
(* long as it is in process its vectors only grow in number, it is ready   *)
(* only when every chunk has one or is named as failed, and whatever is    *)
(* ready or failed rests, until a failed document is tried again or its    *)
(* owner takes it back.                                                    *)
(***************************************************************************)
CONSTANT Chunks

VARIABLES
    life,       \* none, accepted, ready, failed, withdrawn or deleted
    kept,       \* the chunks that can be found
    givenUp     \* the chunks that are reported as failed

vars == <<life, kept, givenUp>>

Init == life = "none" /\ kept = {} /\ givenUp = {}

Accept ==
    /\ life = "none" /\ life' = "accepted"
    /\ UNCHANGED <<kept, givenUp>>

\* A piece of work: no chunk that was kept is lost by it.
Work ==
    /\ life = "accepted" /\ life' \in {"accepted", "failed"}
    /\ kept \subseteq kept' /\ kept' \subseteq Chunks
    /\ givenUp' \subseteq Chunks

Finish ==
    /\ life = "accepted" /\ Chunks \subseteq kept \cup givenUp
    /\ life' = "ready"
    /\ UNCHANGED <<kept, givenUp>>

Retry ==
    /\ life = "failed" /\ life' = "accepted"
    /\ UNCHANGED <<kept, givenUp>>

\* The owner deletes the document: from now on nothing is promised of its chunks.
Withdraw ==
    /\ life \in {"accepted", "ready", "failed"}
    /\ life' = "withdrawn" /\ kept' = {} /\ givenUp' = {}

Remove ==
    /\ life = "withdrawn" /\ life' = "deleted"
    /\ UNCHANGED <<kept, givenUp>>

Next == Accept \/ Work \/ Finish \/ Retry \/ Withdraw \/ Remove

Spec == Init /\ [][Next]_vars

=============================================================================
