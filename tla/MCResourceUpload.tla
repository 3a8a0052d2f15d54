-------------------------- MODULE MCResourceUpload --------------------------
(* A small instance of ResourceUpload.                                       *)
EXTENDS ResourceUpload
=============================================================================
