----------------------------- MODULE MCVoiceCall -----------------------------
(* Small instances of VoiceCall: two accounts, the second of which may also    *)
(* log in on its phone.                                                        *)
EXTENDS VoiceCall, TLC

CONSTANTS a, b, phone, A, B   \* model values: sessions and accounts

TwoUsers == [s \in Sessions |-> IF s = a THEN A ELSE B]
TwoDevices == [s \in Sessions |-> IF s = phone THEN "android" ELSE "desktop"]

Lost == {s \in Sessions : conn[s] = "closed"}

\* The first call between the desktops is placed by A; the other half is the
\* mirror image.
FirstByA == ~(client[b].state = "Outgoing" /\ client[b].call = 1)

\* After a lost connection or a fault, a request that could not be delivered is
\* about to end its call.
Teardown ==
    /\ faults = 0 \/ Lost = {}
    /\ \E s \in Sessions : work[s] # None /\ work[s].step = "undo"

\* Two calls between the desktops, of which the second is placed in a quiet system
\* or while a request of the first one is torn down; or one call between them with
\* a lost connection and a fault; or, with the phone, one call and one of these;
\* each with all its interleavings, and with two events under way to a client.
Scenarios ==
    /\ \A s \in Sessions : Len(outbox[s]) <= 2
    /\ \/ /\ conn[phone] = "new" /\ FirstByA
          /\ issued <= 1 \/ (faults = 0 /\ Lost = {}) \/ Teardown
       \/ conn[phone] # "new" /\ issued <= 1 /\ (faults = 0 \/ Lost = {})

\* A calls, B does not: for the checks of liveness.
CallsOfA == Init /\ [][Next /\ FirstByA']_vars /\ Fairness
=============================================================================
