---------------------------- MODULE MCMembership ----------------------------
(***************************************************************************)
(* Small instances of Membership.                                          *)
(***************************************************************************)
EXTENDS Membership, TLC

Symmetry == Permutations(Requests)

=============================================================================
