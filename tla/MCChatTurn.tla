----------------------------- MODULE MCChatTurn -----------------------------
(***************************************************************************)
(* Small instances of ChatTurn.                                            *)
(***************************************************************************)
EXTENDS ChatTurn, TLC

Symmetry == Permutations(Turns) \union Permutations(Convs) \union Permutations(Chunks)

=============================================================================
