---------------------------- MODULE MCAuthClient ----------------------------
(***************************************************************************)
(* Small instances of AuthClient: the requests follow from the tabs.       *)
(***************************************************************************)
EXTENDS AuthClient, TLC

CONSTANT t1

OneTab         == {t1}
OneTabRequests == OneTab \X {"login", "refresh"}

Symmetry == Permutations(Calls)

=============================================================================
