----------------------------- MODULE MCIngestion -----------------------------
(***************************************************************************)
(* Small instances of Ingestion.                                            *)
(***************************************************************************)
EXTENDS Ingestion, TLC

Perms == Permutations(Items) \cup Permutations(Dispatches)
=============================================================================
