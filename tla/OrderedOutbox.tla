---------------------------- MODULE OrderedOutbox ----------------------------
(***************************************************************************)
(* What a connection's sending side promises to the rest of the server:    *)
(* messages leave in the order of their admission, the admission can be    *)
(* shut for good, optionally with a last message, and the stream can be    *)
(* cut for good.  Messages are numbered by their admission.                *)
(***************************************************************************)
EXTENDS Naturals

VARIABLES
    admitted,   \* number of messages admitted
    delivered,  \* number of messages handed to the peer, always the oldest
    shut,       \* no message is admitted any more
    cut         \* no message is delivered any more

outbox == <<admitted, delivered, shut, cut>>

OutboxInit == admitted = 0 /\ delivered = 0 /\ shut = FALSE /\ cut = FALSE

Admit ==
    /\ ~shut
    /\ admitted' = admitted + 1
    /\ shut' \in BOOLEAN          \* the last message shuts the outbox
    /\ UNCHANGED <<delivered, cut>>

Deliver ==
    /\ ~cut /\ delivered < admitted
    /\ delivered' = delivered + 1
    /\ UNCHANGED <<admitted, shut, cut>>

Shut ==
    /\ shut' = TRUE
    /\ UNCHANGED <<admitted, delivered, cut>>

Cut ==
    /\ cut' = TRUE /\ shut' = TRUE
    /\ UNCHANGED <<admitted, delivered>>

OutboxNext == Admit \/ Deliver \/ Shut \/ Cut

OutboxSpec == OutboxInit /\ [][OutboxNext]_outbox
=============================================================================
