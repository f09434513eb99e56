---------------------------- MODULE MCBm25Cache ----------------------------
(***************************************************************************)
(* Small instances of Bm25Cache.                                           *)
(***************************************************************************)
EXTENDS Bm25Cache, TLC

Symmetry == Permutations(Workspaces) \union Permutations(Chunks)
              \union Permutations(Procs) \union Permutations(Slots)
              \union Permutations(Writers)

=============================================================================
