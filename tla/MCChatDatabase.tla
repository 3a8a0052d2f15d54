--------------------------- MODULE MCChatDatabase ---------------------------
(* A small instance of ChatDatabase: a message, the same UUID with another    *)
(* content, and a batch that repeats the message after a new one.  The workers *)
(* may change places.                                                          *)
EXTENDS ChatDatabase, TLC

CONSTANTS i1, i2, b1, b2    \* model values: UUIDs and contents

ThreeBatches == {<<[uuid |-> i1, body |-> b1]>>, <<[uuid |-> i1, body |-> b2]>>,
                 <<[uuid |-> i2, body |-> b1], [uuid |-> i1, body |-> b1]>>}

WorkerSymmetry == Permutations(Workers)
=============================================================================
