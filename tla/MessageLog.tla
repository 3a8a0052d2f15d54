----------------------------- MODULE MessageLog -----------------------------
(***************************************************************************)
(* What the message tables promise to the clients of one conversation,     *)
(* without nodes, transactions, row locks or lost answers: the log only    *)
(* grows at its end, a message that carries a UUID is in it at most once   *)
(* per sender, an acknowledged message is in it, and a reader holds        *)
(* everything up to its cursor.  ChatDatabase.tla is shown to implement    *)
(* this specification.                                                     *)
(***************************************************************************)
EXTENDS Naturals

CONSTANTS
    Readers,    \* clients that follow the conversation
    NoUuid      \* the uuid of a system message, which may occur many times

VARIABLES
    log,        \* the entries written: records with id, sender, uuid, body
    acked,      \* the entries whose sender got a positive answer
    received    \* received[r]: the entries reader r was given

logVars == <<log, acked, received>>

\* The entries of the log up to identifier c.
UpTo(c) == {e \in log : e.id <= c}

\* Two entries that stand for one message of one sender.
SameMessage(e, f) == e.sender = f.sender /\ e.uuid = f.uuid /\ e.uuid # NoUuid

\* The entries E may be written after what is already in the log.
Follows(E) ==
    /\ \A e \in E, f \in log : f.id < e.id
    /\ \A e \in E, f \in log \cup E : e # f => e.id # f.id /\ ~SameMessage(e, f)

\* The log starts with what was written before the readers came.
LogInit ==
    /\ \A e, f \in log : e # f => e.id # f.id /\ ~SameMessage(e, f)
    /\ acked = {}
    /\ received = [r \in Readers |-> {}]

\* A transaction commits; its sender may learn of it at once or never.
Write ==
    /\ log \subseteq log' /\ Follows(log' \ log)
    /\ acked \subseteq acked' /\ acked' \subseteq log'
    /\ UNCHANGED received

\* A reader moves its cursor forward and holds all there is up to it.
Read(r) ==
    \E c \in {e.id : e \in log} :
        /\ received[r] \subseteq UpTo(c)
        /\ received' = [received EXCEPT ![r] = UpTo(c)]
        /\ UNCHANGED <<log, acked>>

LogNext == Write \/ \E r \in Readers : Read(r)

LogSpec == LogInit /\ [][LogNext]_logVars
=============================================================================
