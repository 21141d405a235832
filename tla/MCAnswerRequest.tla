--------------------------- MODULE MCAnswerRequest ---------------------------
(* Instances of AnswerRequest for TLC. *)
EXTENDS AnswerRequest, TLC

\* Sound where no liveness is checked: requests differ in name only.
RequestSymmetry == Permutations(Requests)
=============================================================================
