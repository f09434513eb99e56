---------------------------- MODULE MCChatClient ----------------------------
(***************************************************************************)
(* Small instances of ChatClient.                                          *)
(***************************************************************************)
EXTENDS ChatClient

=============================================================================
