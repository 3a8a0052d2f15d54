-------------------------- MODULE MCConnectionPools --------------------------
(* Small instances of ConnectionPools.                                        *)
EXTENDS ConnectionPools
=============================================================================
