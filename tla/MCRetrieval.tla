---------------------------- MODULE MCRetrieval ----------------------------
(***************************************************************************)
(* Small instances of Retrieval.                                           *)
(***************************************************************************)
EXTENDS Retrieval, TLC

Symmetry == Permutations(Chunks)

=============================================================================
