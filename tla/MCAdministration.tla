-------------------------- MODULE MCAdministration --------------------------
(***************************************************************************)
(* Small instances of Administration: all initial superusers are alike.    *)
(***************************************************************************)
EXTENDS Administration, TLC

Symmetry == Permutations(Superusers) \union Permutations(AdminRequests)

=============================================================================
