------------------------- MODULE MCBusinessExecutor -------------------------
(* Two lanes, three connections of which two share a lane. *)
EXTENDS BusinessExecutor, TLC

CONSTANTS k1, k2, k3, l1, l2

MCKeys == {k1, k2, k3}
MCLanes == {l1, l2}
MCLaneOf == (k1 :> l1) @@ (k2 :> l1) @@ (k3 :> l2)
=============================================================================
