--------------------------- MODULE MCVerification ---------------------------
(***************************************************************************)
(* Two calls of VerifyServer and two requests at the gates for one         *)
(* address.  One of the calls is only begun while fewer than two codes     *)
(* have been drawn; it may then last for any time, so that the code it     *)
(* holds is overtaken by later ones.                                       *)
(***************************************************************************)
EXTENDS Verification

CONSTANT second

BeginsEarly ==
    issuer[second].at = "idle" /\ issuer'[second].at # "idle" => drawn < 2

\* Fairness asks for some call to be made, which the other one can always do.
EarlyOverlap == Init /\ [][Next /\ BeginsEarly]_vars /\ Fairness
=============================================================================
