----------------------------- MODULE MCChatSync -----------------------------
(* A small instance of ChatSync.                                             *)
EXTENDS ChatSync
=============================================================================
