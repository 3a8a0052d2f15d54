----------------------------- MODULE MCCSession -----------------------------
(* Two calling threads, a queue of two. *)
EXTENDS CSession, TLC
=============================================================================
