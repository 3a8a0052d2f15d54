--------------------------- MODULE MCSessionLease ---------------------------
(* Small instances of SessionLease; sessions, nodes, devices and tokens are   *)
(* interchangeable.                                                           *)
EXTENDS SessionLease, TLC

AllSymmetry == Permutations(Sessions) \cup Permutations(Servers)
               \cup Permutations(Tokens) \cup Permutations(Devices)

UsedDevices == {bound[s] : s \in Sessions} \cup {login[s].device : s \in Sessions}
               \cup {d \in Devices : usession[d] # None}
UsedServers == {server[s] : s \in Sessions}

Connected == {s \in Sessions : server[s] # None}

\* The kinds of trouble, each explored with all its interleavings: logins of one
\* device take over from each other between nodes; both devices of a node with
\* two credentials or with a failing Redis; one credential with a failure or a
\* crash, and between two connections with both.
Scenarios ==
    LET oneDevice == Cardinality(UsedDevices \ {None}) <= 1
        oneServer == Cardinality(UsedServers \ {None}) <= 1
        oneToken == Cardinality(issued) <= 1
    IN  \/ oneDevice /\ faults = 0 /\ crashes = 0
        \/ oneServer /\ crashes = 0 /\ (oneToken \/ faults = 0)
        \/ oneDevice /\ oneToken /\ (faults = 0 \/ crashes = 0 \/ Cardinality(Connected) <= 2)
=============================================================================
