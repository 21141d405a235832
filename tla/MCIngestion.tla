---------------------------- MODULE MCIngestion ----------------------------
(* Instances of Ingestion for TLC.  With 5 chunks in batches of 2, a first  *)
(* attempt is LARGE and what a crash leaves over can be of every tier.      *)
EXTENDS Ingestion, TLC

RunSymmetry == Permutations(Runs)
=============================================================================
