---------------------------- MODULE ChatDatabase ----------------------------
(***************************************************************************)
(* The MySQL transactions of the chat nodes about one pair of accounts:    *)
(* friend applications, friendships, their private conversation and its    *)
(* messages (MysqlDaoContacts.cpp, MysqlDaoMessages.cpp, and the services  *)
(* that call them).                                                        *)
(*                                                                         *)
(* Worker threads of all nodes run transactions concurrently.  A           *)
(* transaction is a sequence of statements, each of which is one action.   *)
(* InnoDB is external: a locking read of an existing row waits for every   *)
(* other holder; a locking read of a missing row takes a gap lock, which   *)
(* others may hold too but behind which nobody else can insert; locks last *)
(* until the transaction ends; AUTO_INCREMENT numbers are given out at     *)
(* once and never taken back; a waiting transaction may be chosen as the   *)
(* victim of a deadlock or time out (1213, 1205); a plain read sees what   *)
(* is committed.  A client asks again with the same UUID when it got no    *)
(* answer, over the same or another node, so any request may come twice.   *)
(***************************************************************************)
EXTENDS Integers, Sequences, FiniteSets

CONSTANTS
    First, Second,  \* the two accounts, First with the smaller uid
    Readers,        \* the accounts whose client follows the history
    Workers,        \* threads that run business tasks, on all nodes
    Uuids,          \* UUIDs the clients give to their messages
    Bodies,         \* message contents
    Batches,        \* the text_array of the requests to send: sequences of both
    NoUuid,         \* the empty unique_id of a greeting
    PageSize,       \* rows of one history page
    MaxAttempts,    \* max_attempts of RunContactTransaction
    MaxRequests,    \* bound: requests
    MaxFaults       \* bound: lost connections and lost answers

ASSUME DatabaseAssumption ==
    /\ First # Second /\ Readers \subseteq {First, Second}
    /\ NoUuid \notin Uuids
    /\ Batches \subseteq Seq([uuid : Uuids, body : Bodies])
    /\ PageSize \in Nat \ {0} /\ MaxAttempts \in Nat \ {0}
    /\ MaxRequests \in Nat /\ MaxFaults \in Nat

VARIABLES
    rows,       \* committed rows of friend_apply, friend and private_chat
    messages,   \* committed rows of chat_message
    nextId,     \* AUTO_INCREMENT of chat_message
    tx,         \* tx[w]: the transaction of worker w
    cursor,     \* cursor[u]: the history cursor of u's client
    received,   \* received[u]: the rows its pages held
    acked,      \* rows whose sender got a positive answer
    credit,     \* credit[k]: requests to accept or delete, less what they changed
    requests, faults

vars == <<rows, messages, nextId, tx, cursor, received, acked, credit, requests,
          faults>>

Users == {First, Second}
Other(u) == IF u = First THEN Second ELSE First

----------------------------------------------------------------------------
(* Rows and statements                                                     *)

ApplyRow(u) == <<"friend_apply", u>>    \* from u, to the other
FriendRow(u) == <<"friend", u>>         \* u lists the other
ChatRow == <<"private_chat", First>>    \* user1_id is the smaller uid

Row == {ApplyRow(u) : u \in Users} \cup {FriendRow(u) : u \in Users} \cup {ChatRow}

Lock(r) == [kind |-> "lock", row |-> r]         \* SELECT ... FOR UPDATE
Require(r) == [kind |-> "require", row |-> r]   \* the same, the row must exist
Insert(r) == [kind |-> "insert", row |-> r]     \* INSERT unless it is there
DeleteAll == [kind |-> "delete"]                \* the four rows of the contact
UnlessFriends(R) == [kind |-> "unless", needs |-> R]  \* what follows is left out
                                                      \* for friends, needs R else
Greet(u) == [kind |-> "greet", sender |-> u]
Store(u, i, b) == [kind |-> "store", sender |-> u, uuid |-> i, body |-> b]

LockApplications == <<Lock(ApplyRow(First)), Lock(ApplyRow(Second))>>
LockFriends == <<Lock(FriendRow(First)), Lock(FriendRow(Second))>>

----------------------------------------------------------------------------
(* The transactions                                                        *)

AddFriendApply(u) == LockApplications \o LockFriends
                     \o <<UnlessFriends({}), Insert(ApplyRow(u))>>

\* The description of the application becomes the first message if there is one.
AddFriend(u, described) ==
    LockApplications \o LockFriends
    \o <<UnlessFriends({ApplyRow(Other(u))}),
         Insert(FriendRow(First)), Insert(FriendRow(Second)),
         Lock(ChatRow), Insert(ChatRow)>>
    \o (IF described THEN <<Greet(Other(u))>> ELSE <<>>)
    \o <<Greet(u)>>

DeleteFriend == LockApplications \o LockFriends \o <<DeleteAll>>

CreatePrivateChat(u) == <<Require(FriendRow(u)), Lock(ChatRow), Insert(ChatRow)>>

\* Faulty variants: only the one row or only the other is locked.
AddChatMsgNoThread(u, batch) ==
    {<<Require(FriendRow(u))>>
     \o [i \in DOMAIN batch |-> Store(u, batch[i].uuid, batch[i].body)]}
AddChatMsgTrusting(u, batch) ==
    {<<Require(ChatRow)>> \o [i \in DOMAIN batch |-> Store(u, batch[i].uuid, batch[i].body)]}

\* The join of private_chat and friend locks its two rows in either order.
AddChatMsg(u, batch) ==
    {locks \o [i \in DOMAIN batch |-> Store(u, batch[i].uuid, batch[i].body)] :
        locks \in {<<Require(ChatRow), Require(FriendRow(u))>>,
                   <<Require(FriendRow(u)), Require(ChatRow)>>}}

Message(n, u, i, b) == [id |-> n, sender |-> u, uuid |-> i, body |-> b]

Idle == [op |-> "idle", plan |-> <<>>, todo |-> <<>>, holds |-> {}, put |-> {},
         drop |-> {}, new |-> {}, result |-> {}, attempt |-> 0]

\* Strangers, former friends or friends: who was accepted was also greeted.
Init ==
    /\ \/ rows = {} /\ messages = {} /\ nextId = 1
       \/ /\ rows \in {{ChatRow}, {FriendRow(First), FriendRow(Second), ChatRow}}
          /\ messages = {Message(1, First, NoUuid, NoUuid)} /\ nextId = 2
    /\ tx = [w \in Workers |-> Idle]
    /\ cursor = [u \in Readers |-> 0] /\ received = [u \in Readers |-> {}]
    /\ acked = {} /\ credit = [accept |-> 0, delete |-> 0]
    /\ requests = 0 /\ faults = 0

----------------------------------------------------------------------------
(* InnoDB                                                                  *)

\* What worker w sees: what is committed and its own changes.
View(w) == (rows \cup tx[w].put) \ tx[w].drop
Present == rows \cup UNION {tx[w].put : w \in Workers}
HeldByOther(w, r) == \E v \in Workers \ {w} : r \in tx[v].holds

Next1(w) == Head(tx[w].todo)
At(w, kinds) == tx[w].todo # <<>> /\ Next1(w).kind \in kinds

\* Only the lock of an existing row excludes other readers of it.
MustWait(w) ==
    \/ /\ At(w, {"lock", "require"})
       /\ Next1(w).row \in Present /\ HeldByOther(w, Next1(w).row)
    \/ /\ At(w, {"insert"})
       /\ Next1(w).row \notin View(w) /\ HeldByOther(w, Next1(w).row)

\* The statement of w is done; change says what it did to the transaction.
Step(w, change) == tx' = [tx EXCEPT ![w] = [change EXCEPT !.todo = Tail(@)]]

\* The transaction ends: its locks are released.
End(w) == tx' = [tx EXCEPT ![w] = Idle]

----------------------------------------------------------------------------
(* Statements                                                              *)

\* SELECT ... FOR UPDATE; the caller returns false when a required row is missing.
LockRow(w) ==
    /\ At(w, {"lock", "require"}) /\ ~MustWait(w)
    /\ IF Next1(w).kind = "require" /\ Next1(w).row \notin View(w)
       THEN End(w)
       ELSE Step(w, [tx[w] EXCEPT !.holds = @ \cup {Next1(w).row}])
    /\ UNCHANGED <<rows, messages, nextId, cursor, received, acked, credit, requests,
                   faults>>

InsertRow(w) ==
    /\ At(w, {"insert"}) /\ ~MustWait(w)
    /\ Step(w, [tx[w] EXCEPT !.holds = @ \cup {Next1(w).row},
                             !.put = @ \cup ({Next1(w).row} \ View(w))])
    /\ UNCHANGED <<rows, messages, nextId, cursor, received, acked, credit, requests,
                   faults>>

DeleteRows(w) ==
    /\ At(w, {"delete"})
    /\ Step(w, [tx[w] EXCEPT !.drop = Row \ {ChatRow}])
    /\ UNCHANGED <<rows, messages, nextId, cursor, received, acked, credit, requests,
                   faults>>

Friends(R) == \A u \in Users : FriendRow(u) \in R

\* Friends stay as they are; an accept of strangers needs the other's application.
CheckFriends(w) ==
    /\ At(w, {"unless"})
    /\ \/ /\ Friends(View(w))
          /\ tx' = [tx EXCEPT ![w].todo = <<>>]
       \/ /\ ~Friends(View(w)) /\ Next1(w).needs \subseteq View(w)
          /\ Step(w, tx[w])
       \/ /\ ~Friends(View(w)) /\ ~(Next1(w).needs \subseteq View(w))
          /\ End(w)
    /\ UNCHANGED <<rows, messages, nextId, cursor, received, acked, credit, requests,
                   faults>>

\* The row of the message in the tables, as w sees them.
Stored(w, s) ==
    {m \in messages \cup tx[w].new : m.sender = s.sender /\ m.uuid = s.uuid}

NewRow(w, u, i, b) ==
    LET m == Message(nextId, u, i, b)
    IN  /\ Step(w, [tx[w] EXCEPT !.new = @ \cup {m}, !.result = @ \cup {m}])
        /\ nextId' = nextId + 1

\* Lookup of the UUID under the locks of the conversation, then insert.
StoreMessage(w) ==
    /\ At(w, {"store"})
    /\ LET s == Next1(w) IN
         \/ /\ Stored(w, s) = {}
            /\ NewRow(w, s.sender, s.uuid, s.body)
         \/ \E m \in Stored(w, s) :
              /\ IF m.body = s.body THEN Step(w, [tx[w] EXCEPT !.result = @ \cup {m}])
                                   ELSE End(w)
              /\ UNCHANGED nextId
    /\ UNCHANGED <<rows, messages, cursor, received, acked, credit, requests,
                   faults>>

GreetFriend(w) ==
    /\ At(w, {"greet"})
    /\ NewRow(w, Next1(w).sender, NoUuid, NoUuid)
    /\ UNCHANGED <<rows, messages, cursor, received, acked, credit, requests,
                   faults>>

----------------------------------------------------------------------------
(* The end of a transaction                                                *)

Committing(w) == tx[w].op # "idle" /\ tx[w].todo = <<>>

Apply(w) ==
    /\ rows' = View(w)
    /\ messages' = messages \cup tx[w].new
    /\ credit' = [accept |-> credit.accept - (IF ~Friends(rows) /\ Friends(rows') THEN 1 ELSE 0),
                  delete |-> credit.delete - (IF Friends(rows) /\ ~Friends(rows') THEN 1 ELSE 0)]

\* COMMIT is answered; a sender gets the identifiers of its messages.
Commit(w) ==
    /\ Committing(w)
    /\ Apply(w)
    /\ acked' = acked \cup tx[w].result
    /\ End(w)
    /\ UNCHANGED <<nextId, cursor, received, requests, faults>>

\* The transaction starts again after its rollback.
Restart(w) ==
    tx' = [tx EXCEPT ![w] = [Idle EXCEPT !.op = tx[w].op, !.plan = tx[w].plan,
                                         !.todo = tx[w].plan, !.attempt = tx[w].attempt + 1]]

\* Faulty variant: an exception of COMMIT is retried like a deadlock.
CommitRetried(w) ==
    /\ Committing(w) /\ faults < MaxFaults
    /\ faults' = faults + 1
    /\ Apply(w) /\ Restart(w)
    /\ UNCHANGED <<nextId, cursor, received, acked, requests>>

\* COMMIT throws: the server may have committed or not, the caller returns false.
CommitUnknown(w) ==
    /\ Committing(w) /\ faults < MaxFaults
    /\ faults' = faults + 1
    /\ Apply(w) \/ UNCHANGED <<rows, messages, credit>>
    /\ End(w)
    /\ UNCHANGED <<nextId, cursor, received, acked, requests>>

\* Any other error: the destructor of the transaction rolls back.
ConnectionLost(w) ==
    /\ tx[w].todo # <<>> /\ faults < MaxFaults
    /\ faults' = faults + 1
    /\ End(w)
    /\ UNCHANGED <<rows, messages, nextId, cursor, received, acked, credit, requests>>

\* Deadlock or lock wait timeout.  The contact transactions start again after a
\* rollback, up to max_attempts times; the others return false.
LockFailure(w) ==
    /\ MustWait(w)
    /\ IF tx[w].op = "contact" /\ tx[w].attempt + 1 < MaxAttempts
       THEN Restart(w)
       ELSE End(w)
    /\ UNCHANGED <<rows, messages, nextId, cursor, received, acked, credit, requests,
                   faults>>

----------------------------------------------------------------------------
(* Requests                                                                *)

Begin(w, op, plan) ==
    /\ tx[w].op = "idle" /\ requests < MaxRequests
    /\ requests' = requests + 1
    /\ tx' = [tx EXCEPT ![w] = [Idle EXCEPT !.op = op, !.plan = plan, !.todo = plan]]
    /\ UNCHANGED <<rows, messages, nextId, cursor, received, acked, faults>>

\* FriendService::Apply, Accept and Delete.
ContactRequest(w, u) ==
    \/ Begin(w, "contact", AddFriendApply(u)) /\ UNCHANGED credit
    \/ /\ \E described \in BOOLEAN : Begin(w, "contact", AddFriend(u, described))
       /\ credit' = [credit EXCEPT !.accept = @ + 1]
    \/ Begin(w, "contact", DeleteFriend) /\ credit' = [credit EXCEPT !.delete = @ + 1]

\* MessageService::Store and CreatePrivate look the friendship up, without a
\* lock, before they start their transaction.
SendRequest(w, u) ==
    /\ FriendRow(u) \in rows
    /\ \E batch \in Batches : \E plan \in AddChatMsg(u, batch) : Begin(w, "send", plan)
    /\ UNCHANGED credit

CreateRequest(w, u) ==
    /\ FriendRow(u) \in rows
    /\ Begin(w, "create", CreatePrivateChat(u))
    /\ UNCHANGED credit

\* The rows after the cursor, at most a page of them, in the order of their ids.
Page(c) ==
    {m \in messages : m.id > c
        /\ Cardinality({n \in messages : c < n.id /\ n.id < m.id}) < PageSize}

\* MessageService::Load, and the client's cursor taken from next_cursor.
LoadHistory(u) ==
    /\ FriendRow(u) \in rows /\ ChatRow \in rows
    /\ \E last \in Page(cursor[u]) :
         /\ \A m \in Page(cursor[u]) : m.id <= last.id
         /\ cursor' = [cursor EXCEPT ![u] = last.id]
    /\ received' = [received EXCEPT ![u] = @ \cup Page(cursor[u])]
    /\ UNCHANGED <<rows, messages, nextId, tx, acked, credit, requests, faults>>

Statement(w) ==
    \/ LockRow(w) \/ InsertRow(w) \/ DeleteRows(w)
    \/ CheckFriends(w) \/ StoreMessage(w) \/ GreetFriend(w)
    \/ Commit(w) \/ CommitUnknown(w) \/ ConnectionLost(w) \/ LockFailure(w)

Next ==
    \/ \E w \in Workers : Statement(w)
    \/ \E w \in Workers, u \in Users :
          ContactRequest(w, u) \/ SendRequest(w, u) \/ CreateRequest(w, u)
    \/ \E u \in Readers : LoadHistory(u)

Spec == Init /\ [][Next]_vars

----------------------------------------------------------------------------
(* Properties                                                              *)

TypeOK ==
    /\ rows \subseteq Row
    /\ messages \subseteq [id : Nat, sender : Users, uuid : Uuids \cup {NoUuid},
                          body : Bodies \cup {NoUuid}]
    /\ acked \subseteq messages
    /\ nextId \in Nat
    /\ \A w \in Workers :
          /\ tx[w].holds \subseteq Row /\ tx[w].put \subseteq Row /\ tx[w].drop \subseteq Row
          /\ tx[w].attempt \in 0..(MaxAttempts - 1)
    /\ cursor \in [Readers -> Nat] /\ received \in [Readers -> SUBSET messages]
    /\ requests \in 0..MaxRequests /\ faults \in 0..MaxFaults

\* The tables implement the log the clients rely on: commits come in the order
\* of the identifiers, so that no reader's cursor ever passes a message that is
\* still to be committed; a message sent twice is stored once; what is
\* acknowledged is stored.  AddChatMsg and AddFriend lock the conversation's row
\* before they take an identifier.
MessageOrder == INSTANCE MessageLog WITH log <- messages
ImplementsMessageLog == MessageOrder!LogSpec

\* A message with a UUID is committed only while its sender still lists the
\* recipient: the check made before the transaction may be stale by then, the
\* one made under the locks of AddChatMsg may not.
SentAmongFriends ==
    [][\A m \in messages' \ messages :
          m.uuid # NoUuid => FriendRow(m.sender) \in rows]_vars

\* No request takes effect twice: there are never more friendships formed than
\* accepts asked for, nor more ended than deletions asked for, although a
\* deadlock starts a transaction again and an exception of COMMIT leaves open
\* whether it took place (RunContactTransaction).
EffectOnce == credit.accept >= 0 /\ credit.delete >= 0
=============================================================================
