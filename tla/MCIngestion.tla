---------------------------- MODULE MCIngestion ----------------------------
(***************************************************************************)
(* Small instances of Ingestion: interchangeable documents and workers.    *)
(***************************************************************************)
EXTENDS Ingestion, TLC

Symmetry == Permutations(Docs) \union Permutations(Workers)

=============================================================================
