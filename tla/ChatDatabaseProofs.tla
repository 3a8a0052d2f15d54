------------------------- MODULE ChatDatabaseProofs -------------------------
(***************************************************************************)
(* Theorems about ChatDatabase: for any number of workers, messages,       *)
(* batches, retries and lost answers the tables implement the message log, *)
(* messages are sent among friends only and no request takes effect twice. *)
(***************************************************************************)
EXTENDS ChatDatabase, FiniteSetTheorems, SequenceTheorems, TLAPS

Messages == [id : Nat, sender : Users, uuid : Uuids \cup {NoUuid}, body : Bodies \cup {NoUuid}]

Statements ==
    {Lock(r) : r \in Row} \cup {Require(r) : r \in Row} \cup {Insert(r) : r \in Row}
    \cup {DeleteAll} \cup {UnlessFriends(R) : R \in SUBSET Row} \cup {Greet(u) : u \in Users}
    \cup [kind : {"store"}, sender : Users, uuid : Uuids, body : Bodies]

Transactions ==
    [op : {"idle", "contact", "send", "create"}, plan : Seq(Statements),
     todo : Seq(Statements), holds : SUBSET Row, put : SUBSET Row, drop : SUBSET Row,
     new : SUBSET Messages, result : SUBSET Messages, attempt : 0..(MaxAttempts - 1)]

TableTypes == rows \subseteq Row /\ messages \subseteq Messages /\ nextId \in Nat \ {0}
TxTypes == tx \in [Workers -> Transactions]
BoundTypes == requests \in 0..MaxRequests /\ faults \in 0..MaxFaults

-----------------------------------------------------------------------------
(* Plans: what a transaction has locked by the time of each statement.      *)

FriendRows == {FriendRow(u) : u \in Users}

Accepts(plan) == \E u \in Users, described \in BOOLEAN : plan = AddFriend(u, described)

\* The plans of an operation.
PlanOf(op, plan) ==
    \/ op = "idle" /\ plan = <<>>
    \/ /\ op = "contact"
       /\ \/ \E u \in Users : plan = AddFriendApply(u)
          \/ Accepts(plan) \/ plan = DeleteFriend
    \/ op = "send" /\ \E u \in Users, batch \in Batches : plan \in AddChatMsg(u, batch)
    \/ op = "create" /\ \E u \in Users : plan = CreatePrivateChat(u)

\* Among the statements of s before the n-th is one that locks r, ...
Locks(s, n, r) ==
    \E m \in 1..(n - 1) : s[m].kind \in {"lock", "require"} /\ s[m].row = r
\* ... requires r, ...
Requires(s, n, r) == \E m \in 1..(n - 1) : s[m].kind = "require" /\ s[m].row = r
\* ... inserts r.
Inserts(s, n, r) == \E m \in 1..(n - 1) : s[m].kind = "insert" /\ s[m].row = r

\* What the n-th statement of transaction t relies on, with the committed rows R:
\* a row is locked before it is inserted or deleted, a sender's two rows are locked
\* and there before it stores a message, and so is the conversation's row before a
\* greeting.
Disciplined(t, R, n) ==
    LET s == t.todo[n] IN
    /\ s.kind = "insert" =>
          /\ t.op # "send" /\ (s.row \in t.holds \/ Locks(t.todo, n, s.row))
          /\ s.row \in FriendRows => Accepts(t.plan)
    /\ s.kind = "delete" =>
          /\ t.plan = DeleteFriend
          /\ \A r \in Row \ {ChatRow} : r \in t.holds \/ Locks(t.todo, n, r)
    /\ s.kind = "store" =>
          /\ t.op = "send"
          /\ \A r \in {ChatRow, FriendRow(s.sender)} :
                r \in t.holds \cap R \/ Requires(t.todo, n, r)
    /\ s.kind = "greet" =>
          \/ ChatRow \in t.holds /\ ChatRow \in R \cup t.put
          \/ Inserts(t.todo, n, ChatRow)

PlansKept ==
    \A w \in Workers :
        /\ PlanOf(tx[w].op, tx[w].plan)
        /\ \A n \in 1..Len(tx[w].todo) : Disciplined(tx[w], rows, n)

-----------------------------------------------------------------------------
(* Locks.                                                                   *)

\* Two transactions hold a row only while there is no such row: InnoDB's gap locks.
LocksExclude ==
    \A v, w \in Workers : \A r \in tx[v].holds \cap tx[w].holds : v # w => r \notin Present

\* What a transaction changes it has locked; who changes friendships was asked to.
ChangesAreLocked ==
    \A w \in Workers :
        /\ tx[w].put \subseteq tx[w].holds /\ tx[w].drop \subseteq tx[w].holds
        /\ ChatRow \notin tx[w].drop
        /\ tx[w].op = "send" => tx[w].put = {}
        /\ tx[w].put \cap FriendRows # {} => Accepts(tx[w].plan)
        /\ tx[w].drop # {} => tx[w].plan = DeleteFriend

\* Whoever has taken an identifier has locked the conversation, and a sender his
\* own friend row.
WritersHoldChat ==
    \A w \in Workers :
        /\ tx[w].new # {} => ChatRow \in tx[w].holds /\ ChatRow \in rows \cup tx[w].put
        /\ \A m \in tx[w].new : m.uuid # NoUuid => FriendRow(m.sender) \in tx[w].holds \cap rows

-----------------------------------------------------------------------------
(* Messages.                                                                *)

\* The messages a transaction sees: ids and messages are unique in them.
Unique(S) == \A e, f \in S : e # f => e.id # f.id /\ ~MessageOrder!SameMessage(e, f)

MessagesInOrder ==
    /\ IsFiniteSet(messages) /\ Unique(messages)
    /\ \A m \in messages : 0 < m.id /\ m.id < nextId
    /\ \A w \in Workers :
          /\ IsFiniteSet(tx[w].new) /\ Unique(messages \cup tx[w].new)
          /\ \A m \in tx[w].new : m.id < nextId /\ 0 < m.id /\ \A f \in messages : f.id < m.id

ResultsAreStored ==
    acked \subseteq messages /\ \A w \in Workers : tx[w].result \subseteq messages \cup tx[w].new

\* A reader holds all there is up to its cursor.
ReadersHoldAll ==
    /\ cursor \in [Readers -> Nat] /\ received \in [Readers -> SUBSET Messages]
    /\ \A u \in Readers :
          /\ received[u] = {m \in messages : m.id <= cursor[u]}
          /\ cursor[u] = 0 \/ \E m \in messages : m.id = cursor[u]

-----------------------------------------------------------------------------
(* Requests.                                                                *)

Accepting == {w \in Workers : Accepts(tx[w].plan)}
Deleting == {w \in Workers : tx[w].plan = DeleteFriend}

\* The credit covers the requests that are still under way.
CreditCovers ==
    /\ credit \in [accept : Int, delete : Int]
    /\ IsFiniteSet(Accepting) /\ Cardinality(Accepting) <= credit.accept
    /\ IsFiniteSet(Deleting) /\ Cardinality(Deleting) <= credit.delete

\* The inductive invariant.
DatabaseInv ==
    /\ TableTypes /\ TxTypes /\ BoundTypes
    /\ PlansKept /\ LocksExclude /\ ChangesAreLocked /\ WritersHoldChat
    /\ MessagesInOrder /\ ResultsAreStored /\ ReadersHoldAll /\ CreditCovers

-----------------------------------------------------------------------------
(* The plans keep the discipline.                                           *)

LEMMA RowTypes ==
  /\ ChatRow \in Row /\ \A u \in Users : ApplyRow(u) \in Row /\ FriendRow(u) \in Row
  /\ First \in Users /\ Second \in Users /\ \A u \in Users : Other(u) \in Users
  /\ \A u \in Users : FriendRow(u) # ChatRow /\ ApplyRow(u) # ChatRow
  /\ \A u, v \in Users : FriendRow(u) # ApplyRow(v)
  BY DEF Row, Users, Other, ChatRow, ApplyRow, FriendRow

LEMMA StatementTypes ==
  /\ \A r \in Row : Lock(r) \in Statements /\ Require(r) \in Statements /\ Insert(r) \in Statements
  /\ DeleteAll \in Statements /\ \A u \in Users : Greet(u) \in Statements
  /\ \A R \in SUBSET Row : UnlessFriends(R) \in Statements
  /\ \A u \in Users, i \in Uuids, b \in Bodies : Store(u, i, b) \in Statements
<1>1. \A u \in Users, i \in Uuids, b \in Bodies : Store(u, i, b) \in Statements
  BY DEF Statements, Store
<1>. QED  BY <1>1 DEF Statements

LEMMA LockPrefix ==
  ASSUME NEW p, p = LockApplications \o LockFriends
  PROVE  /\ p \in Seq(Statements) /\ Len(p) = 4
         /\ p[1] = Lock(ApplyRow(First)) /\ p[2] = Lock(ApplyRow(Second))
         /\ p[3] = Lock(FriendRow(First)) /\ p[4] = Lock(FriendRow(Second))
<1>1. LockApplications \in Seq(Statements) /\ LockFriends \in Seq(Statements)
  BY RowTypes, StatementTypes DEF LockApplications, LockFriends
<1>2. Len(LockApplications) = 2 /\ Len(LockFriends) = 2
  BY DEF LockApplications, LockFriends
<1>3. /\ p \in Seq(Statements) /\ Len(p) = 4
      /\ p[1] = LockApplications[1] /\ p[2] = LockApplications[2]
      /\ p[3] = LockFriends[1] /\ p[4] = LockFriends[2]
  <2>1. /\ p \in Seq(Statements) /\ Len(p) = Len(LockApplications) + Len(LockFriends)
        /\ \A i \in 1..Len(LockApplications) + Len(LockFriends) :
              p[i] = IF i <= Len(LockApplications) THEN LockApplications[i]
                                                   ELSE LockFriends[i - Len(LockApplications)]
    BY <1>1, ConcatProperties
  <2>2. Len(p) = 4 /\ \A i \in 1..4 : p[i] = IF i <= 2 THEN LockApplications[i] ELSE LockFriends[i - 2]
    BY <1>2, <2>1
  <2>. QED  BY <2>1, <2>2
<1>. QED  BY <1>3 DEF LockApplications, LockFriends

\* The elements of a concatenation.
LEMMA Concatenated ==
  ASSUME NEW S, NEW s \in Seq(S), NEW t \in Seq(S), NEW p, p = s \o t
  PROVE  /\ p \in Seq(S) /\ Len(p) = Len(s) + Len(t)
         /\ \A i \in 1..Len(s) : p[i] = s[i]
         /\ \A i \in 1..Len(t) : p[Len(s) + i] = t[i]
  OBVIOUS

LEMMA ApplyPlan ==
  ASSUME NEW u \in Users, NEW p, p = AddFriendApply(u)
  PROVE  /\ p \in Seq(Statements) /\ Len(p) = 6
         /\ p[1] = Lock(ApplyRow(First)) /\ p[2] = Lock(ApplyRow(Second))
         /\ p[3] = Lock(FriendRow(First)) /\ p[4] = Lock(FriendRow(Second))
         /\ p[5] = UnlessFriends({}) /\ p[6] = Insert(ApplyRow(u))
<1>. DEFINE q == LockApplications \o LockFriends
            t == <<UnlessFriends({}), Insert(ApplyRow(u))>>
<1>1. q \in Seq(Statements) /\ Len(q) = 4
      /\ q[1] = Lock(ApplyRow(First)) /\ q[2] = Lock(ApplyRow(Second))
      /\ q[3] = Lock(FriendRow(First)) /\ q[4] = Lock(FriendRow(Second))
  BY LockPrefix
<1>2. t \in Seq(Statements) /\ Len(t) = 2 /\ t[1] = UnlessFriends({}) /\ t[2] = Insert(ApplyRow(u))
  BY RowTypes, StatementTypes
<1>3. p = q \o t
  BY DEF AddFriendApply
<1>. HIDE DEF q, t
<1>4. /\ p \in Seq(Statements) /\ Len(p) = 4 + Len(t)
      /\ \A i \in 1..4 : p[i] = q[i]
      /\ \A i \in 1..Len(t) : p[4 + i] = t[i]
  <2>1. /\ p \in Seq(Statements) /\ Len(p) = Len(q) + Len(t)
        /\ \A i \in 1..Len(q) : p[i] = q[i]
        /\ \A i \in 1..Len(t) : p[Len(q) + i] = t[i]
    <3>1. q \in Seq(Statements) /\ t \in Seq(Statements)
      BY <1>1, <1>2
    <3>. QED  BY <3>1, <1>3, Concatenated
  <2>. QED  BY <1>1, <2>1
<1>5. p[4 + 1] = t[1] /\ p[4 + 2] = t[2] /\ Len(p) = 6
  BY <1>2, <1>4
<1>. QED  BY <1>1, <1>2, <1>4, <1>5

LEMMA DeletePlan ==
  ASSUME NEW p, p = DeleteFriend
  PROVE  /\ p \in Seq(Statements) /\ Len(p) = 5
         /\ p[1] = Lock(ApplyRow(First)) /\ p[2] = Lock(ApplyRow(Second))
         /\ p[3] = Lock(FriendRow(First)) /\ p[4] = Lock(FriendRow(Second))
         /\ p[5] = DeleteAll
<1>. DEFINE q == LockApplications \o LockFriends
            t == <<DeleteAll>>
<1>1. q \in Seq(Statements) /\ Len(q) = 4
      /\ q[1] = Lock(ApplyRow(First)) /\ q[2] = Lock(ApplyRow(Second))
      /\ q[3] = Lock(FriendRow(First)) /\ q[4] = Lock(FriendRow(Second))
  BY LockPrefix
<1>2. t \in Seq(Statements) /\ Len(t) = 1 /\ t[1] = DeleteAll
  BY StatementTypes
<1>3. p = q \o t
  BY DEF DeleteFriend
<1>. HIDE DEF q, t
<1>4. /\ p \in Seq(Statements) /\ Len(p) = 4 + Len(t)
      /\ \A i \in 1..4 : p[i] = q[i]
      /\ \A i \in 1..Len(t) : p[4 + i] = t[i]
  <2>1. /\ p \in Seq(Statements) /\ Len(p) = Len(q) + Len(t)
        /\ \A i \in 1..Len(q) : p[i] = q[i]
        /\ \A i \in 1..Len(t) : p[Len(q) + i] = t[i]
    <3>1. q \in Seq(Statements) /\ t \in Seq(Statements)
      BY <1>1, <1>2
    <3>. QED  BY <3>1, <1>3, Concatenated
  <2>. QED  BY <1>1, <2>1
<1>5. p[4 + 1] = t[1] /\ Len(p) = 5
  BY <1>2, <1>4
<1>. QED  BY <1>1, <1>2, <1>4, <1>5

LEMMA AcceptPlan ==
  ASSUME NEW u \in Users, NEW described \in BOOLEAN, NEW p, p = AddFriend(u, described)
  PROVE  /\ p \in Seq(Statements)
         /\ p[1] = Lock(ApplyRow(First)) /\ p[2] = Lock(ApplyRow(Second))
         /\ p[3] = Lock(FriendRow(First)) /\ p[4] = Lock(FriendRow(Second))
         /\ p[5] = UnlessFriends({ApplyRow(Other(u))})
         /\ p[6] = Insert(FriendRow(First)) /\ p[7] = Insert(FriendRow(Second))
         /\ p[8] = Lock(ChatRow) /\ p[9] = Insert(ChatRow)
         /\ Len(p) >= 9 /\ \A n \in 10..Len(p) : p[n].kind = "greet"
<1>. DEFINE q == LockApplications \o LockFriends
            t == <<UnlessFriends({ApplyRow(Other(u))}),
                   Insert(FriendRow(First)), Insert(FriendRow(Second)),
                   Lock(ChatRow), Insert(ChatRow)>>
            g == IF described THEN <<Greet(Other(u))>> ELSE <<>>
            h == <<Greet(u)>>
<1>1. q \in Seq(Statements) /\ Len(q) = 4
      /\ q[1] = Lock(ApplyRow(First)) /\ q[2] = Lock(ApplyRow(Second))
      /\ q[3] = Lock(FriendRow(First)) /\ q[4] = Lock(FriendRow(Second))
  BY LockPrefix
<1>2. /\ t \in Seq(Statements) /\ Len(t) = 5
      /\ t[1] = UnlessFriends({ApplyRow(Other(u))})
      /\ t[2] = Insert(FriendRow(First)) /\ t[3] = Insert(FriendRow(Second))
      /\ t[4] = Lock(ChatRow) /\ t[5] = Insert(ChatRow)
  <2>1. {ApplyRow(Other(u))} \in SUBSET Row
    BY RowTypes
  <2>2. UnlessFriends({ApplyRow(Other(u))}) \in Statements
    BY <2>1, StatementTypes
  <2>. QED  BY <2>2, RowTypes, StatementTypes
<1>3. /\ g \in Seq(Statements) /\ \A i \in 1..Len(g) : g[i].kind = "greet"
      /\ h \in Seq(Statements) /\ Len(h) = 1 /\ h[1].kind = "greet"
  <2>1. \A v \in Users : Greet(v) \in Statements /\ Greet(v).kind = "greet"
    BY StatementTypes DEF Greet
  <2>. QED  BY <2>1, RowTypes
<1>. DEFINE qt == q \o t
            qtg == qt \o g
<1>4. qt = q \o t /\ qtg = qt \o g /\ p = qtg \o h
  BY DEF AddFriend
<1>. HIDE DEF q, t, g, h, qt, qtg
<1>5. /\ qt \in Seq(Statements) /\ Len(qt) = 9
      /\ \A i \in 1..4 : qt[i] = q[i]
      /\ \A i \in 1..5 : qt[4 + i] = t[i]
  <2>1. q \in Seq(Statements) /\ t \in Seq(Statements)
    BY <1>1, <1>2
  <2>2. /\ qt \in Seq(Statements) /\ Len(qt) = Len(q) + Len(t)
        /\ \A i \in 1..Len(q) : qt[i] = q[i]
        /\ \A i \in 1..Len(t) : qt[Len(q) + i] = t[i]
    BY <1>4, <2>1, Concatenated
  <2>3. Len(q) = 4 /\ Len(t) = 5
    BY <1>1, <1>2
  <2>. QED  BY <2>2, <2>3
<1>6. /\ qtg \in Seq(Statements) /\ Len(qtg) = 9 + Len(g)
      /\ \A i \in 1..9 : qtg[i] = qt[i]
      /\ \A i \in 1..Len(g) : qtg[9 + i] = g[i]
  <2>1. qt \in Seq(Statements) /\ g \in Seq(Statements)
    BY <1>3, <1>5
  <2>2. /\ qtg \in Seq(Statements) /\ Len(qtg) = Len(qt) + Len(g)
        /\ \A i \in 1..Len(qt) : qtg[i] = qt[i]
        /\ \A i \in 1..Len(g) : qtg[Len(qt) + i] = g[i]
    BY <1>4, <2>1, Concatenated
  <2>3. Len(qt) = 9
    BY <1>5
  <2>. QED  BY <2>2, <2>3
<1>7. Len(g) \in Nat /\ 9 + Len(g) \in Nat
  BY <1>3
<1>8. /\ p \in Seq(Statements) /\ Len(p) = (9 + Len(g)) + 1
      /\ \A i \in 1..(9 + Len(g)) : p[i] = qtg[i]
      /\ p[(9 + Len(g)) + 1] = h[1]
  <2>1. qtg \in Seq(Statements) /\ h \in Seq(Statements)
    BY <1>3, <1>6
  <2>2. /\ p \in Seq(Statements) /\ Len(p) = Len(qtg) + Len(h)
        /\ \A i \in 1..Len(qtg) : p[i] = qtg[i]
        /\ \A i \in 1..Len(h) : p[Len(qtg) + i] = h[i]
    BY <1>4, <2>1, Concatenated
  <2>3. Len(qtg) = 9 + Len(g) /\ Len(h) = 1
    BY <1>3, <1>6
  <2>. QED  BY <2>2, <2>3
<1>9. \A i \in 1..9 : p[i] = qt[i]
  <2>1. \A i \in 1..9 : i \in 1..(9 + Len(g))
    BY <1>7
  <2>. QED  BY <1>6, <1>8, <2>1
<1>10. /\ p[1] = q[1] /\ p[2] = q[2] /\ p[3] = q[3] /\ p[4] = q[4]
       /\ p[4 + 1] = t[1] /\ p[4 + 2] = t[2] /\ p[4 + 3] = t[3]
       /\ p[4 + 4] = t[4] /\ p[4 + 5] = t[5]
  <2>1. \A i \in 1..5 : 4 + i \in 1..9 /\ qt[4 + i] = t[i]
    BY <1>5
  <2>2. \A i \in 1..4 : i \in 1..9 /\ qt[i] = q[i]
    BY <1>5
  <2>3. (\A i \in 1..5 : p[4 + i] = t[i]) /\ \A i \in 1..4 : p[i] = q[i]
    BY <1>9, <2>1, <2>2
  <2>. QED  BY <2>3
<1>11. ASSUME NEW n \in 10..Len(p) PROVE p[n].kind = "greet"
  <2>1. CASE n = (9 + Len(g)) + 1
    BY <1>3, <1>8, <2>1
  <2>2. CASE n # (9 + Len(g)) + 1
    <3>1. n - 9 \in 1..Len(g) /\ n = 9 + (n - 9) /\ n \in 1..(9 + Len(g))
      BY <1>7, <1>8, <2>2
    <3>2. p[n] = g[n - 9]
      BY <1>6, <1>8, <3>1
    <3>. QED  BY <1>3, <3>1, <3>2
  <2>. QED  BY <2>1, <2>2
<1>12. Len(p) >= 9
  BY <1>7, <1>8
<1>. QED  BY <1>1, <1>2, <1>8, <1>10, <1>11, <1>12

LEMMA CreatePlan ==
  ASSUME NEW u \in Users, NEW p, p = CreatePrivateChat(u)
  PROVE  /\ p \in Seq(Statements) /\ Len(p) = 3
         /\ p[1] = Require(FriendRow(u)) /\ p[2] = Lock(ChatRow) /\ p[3] = Insert(ChatRow)
  BY RowTypes, StatementTypes DEF CreatePrivateChat

LEMMA SendPlan ==
  ASSUME NEW u \in Users, NEW batch \in Batches, NEW p \in AddChatMsg(u, batch)
  PROVE  /\ p \in Seq(Statements) /\ Len(p) >= 2
         /\ \/ p[1] = Require(ChatRow) /\ p[2] = Require(FriendRow(u))
            \/ p[1] = Require(FriendRow(u)) /\ p[2] = Require(ChatRow)
         /\ \A n \in 3..Len(p) : p[n].kind = "store" /\ p[n].sender = u
<1>. DEFINE stores == [i \in DOMAIN batch |-> Store(u, batch[i].uuid, batch[i].body)]
<1>1. PICK locks \in {<<Require(ChatRow), Require(FriendRow(u))>>,
                      <<Require(FriendRow(u)), Require(ChatRow)>>} : p = locks \o stores
  BY DEF AddChatMsg
<1>2. /\ locks \in Seq(Statements) /\ Len(locks) = 2
      /\ \/ locks[1] = Require(ChatRow) /\ locks[2] = Require(FriendRow(u))
         \/ locks[1] = Require(FriendRow(u)) /\ locks[2] = Require(ChatRow)
  <2>1. Require(ChatRow) \in Statements /\ Require(FriendRow(u)) \in Statements
    BY RowTypes, StatementTypes
  <2>2. CASE locks = <<Require(ChatRow), Require(FriendRow(u))>>
    BY <2>1, <2>2
  <2>3. CASE locks = <<Require(FriendRow(u)), Require(ChatRow)>>
    BY <2>1, <2>3
  <2>. QED  BY <2>2, <2>3
<1>3. batch \in Seq([uuid : Uuids, body : Bodies])
  BY DatabaseAssumption
<1>4. /\ stores \in Seq(Statements)
      /\ \A i \in 1..Len(stores) : stores[i].kind = "store" /\ stores[i].sender = u
  <2>1. DOMAIN batch = 1..Len(batch) /\ Len(batch) \in Nat
    BY <1>3
  <2>2. ASSUME NEW i \in 1..Len(batch)
        PROVE  /\ Store(u, batch[i].uuid, batch[i].body) \in Statements
               /\ Store(u, batch[i].uuid, batch[i].body).kind = "store"
               /\ Store(u, batch[i].uuid, batch[i].body).sender = u
    <3>1. batch[i] \in [uuid : Uuids, body : Bodies]
      BY <1>3, ElementOfSeq
    <3>2. batch[i].uuid \in Uuids /\ batch[i].body \in Bodies
      BY <3>1
    <3>. QED  BY <3>2, StatementTypes DEF Store
  <2>3. stores \in [1..Len(batch) -> Statements]
    BY <2>1, <2>2
  <2>4. stores \in Seq(Statements)
    BY <2>1, <2>3, SeqDef
  <2>5. Len(stores) = Len(batch)
    BY <2>1, <2>3, <2>4
  <2>. QED  BY <2>1, <2>2, <2>4, <2>5
<1>. HIDE DEF stores
<1>5. /\ p \in Seq(Statements) /\ Len(p) = 2 + Len(stores)
      /\ \A i \in 1..2 : p[i] = locks[i]
      /\ \A i \in 1..Len(stores) : p[2 + i] = stores[i]
  <2>1. /\ p \in Seq(Statements) /\ Len(p) = Len(locks) + Len(stores)
        /\ \A i \in 1..Len(locks) : p[i] = locks[i]
        /\ \A i \in 1..Len(stores) : p[Len(locks) + i] = stores[i]
    <3>1. locks \in Seq(Statements) /\ stores \in Seq(Statements)
      BY <1>2, <1>4
    <3>. QED  BY <1>1, <3>1, Concatenated
  <2>. QED  BY <1>2, <2>1
<1>6. Len(stores) \in Nat
  BY <1>4
<1>7. ASSUME NEW n \in 3..Len(p) PROVE p[n].kind = "store" /\ p[n].sender = u
  <2>1. n - 2 \in 1..Len(stores) /\ n = 2 + (n - 2)
    BY <1>5, <1>6
  <2>. QED  BY <1>4, <1>5, <2>1
<1>. QED  BY <1>2, <1>5, <1>6, <1>7

LEMMA Kinds ==
  /\ \A r : Lock(r).kind = "lock" /\ Lock(r).row = r
  /\ \A r : Require(r).kind = "require" /\ Require(r).row = r
  /\ \A r : Insert(r).kind = "insert" /\ Insert(r).row = r
  /\ DeleteAll.kind = "delete" /\ \A R : UnlessFriends(R).kind = "unless"
  /\ \A u : Greet(u).kind = "greet" /\ Greet(u).sender = u
  BY DEF Lock, Require, Insert, DeleteAll, UnlessFriends, Greet

\* The four rows of a contact are locked by the first four statements.
LEMMA PrefixLocks ==
  ASSUME NEW p, p[1] = Lock(ApplyRow(First)), p[2] = Lock(ApplyRow(Second)),
         p[3] = Lock(FriendRow(First)), p[4] = Lock(FriendRow(Second)),
         NEW n \in Nat, n >= 5
  PROVE  /\ \A r \in Row \ {ChatRow} : Locks(p, n, r)
         /\ \A m \in 1..4 : p[m].kind = "lock"
<1>1. /\ p[1].kind = "lock" /\ p[1].row = ApplyRow(First)
      /\ p[2].kind = "lock" /\ p[2].row = ApplyRow(Second)
      /\ p[3].kind = "lock" /\ p[3].row = FriendRow(First)
      /\ p[4].kind = "lock" /\ p[4].row = FriendRow(Second)
  BY Kinds
<1>2. 1 \in 1..(n - 1) /\ 2 \in 1..(n - 1) /\ 3 \in 1..(n - 1) /\ 4 \in 1..(n - 1)
  OBVIOUS
<1>3. /\ Locks(p, n, ApplyRow(First)) /\ Locks(p, n, ApplyRow(Second))
      /\ Locks(p, n, FriendRow(First)) /\ Locks(p, n, FriendRow(Second))
  BY <1>1, <1>2 DEF Locks
<1>4. \A r \in Row \ {ChatRow} : \/ r = ApplyRow(First) \/ r = ApplyRow(Second)
                                 \/ r = FriendRow(First) \/ r = FriendRow(Second)
  BY DEF Row, Users
<1>5. \A m \in 1..4 : m = 1 \/ m = 2 \/ m = 3 \/ m = 4
  OBVIOUS
<1>. QED  BY <1>1, <1>3, <1>4, <1>5

\* A transaction that begins, or begins again, relies on nothing it does not lock.
LEMMA PlanDiscipline ==
  ASSUME NEW t, t.todo = t.plan, PlanOf(t.op, t.plan), NEW R
  PROVE  t.plan \in Seq(Statements) /\ \A n \in 1..Len(t.todo) : Disciplined(t, R, n)
<1>. DEFINE p == t.plan
<1>1. CASE p = <<>>
  BY <1>1
<1>2. ASSUME NEW u \in Users, p = AddFriendApply(u), t.op = "contact"
      PROVE  p \in Seq(Statements) /\ \A n \in 1..Len(p) : Disciplined(t, R, n)
  <2>1. /\ p \in Seq(Statements) /\ Len(p) = 6
        /\ p[1] = Lock(ApplyRow(First)) /\ p[2] = Lock(ApplyRow(Second))
        /\ p[3] = Lock(FriendRow(First)) /\ p[4] = Lock(FriendRow(Second))
        /\ p[5] = UnlessFriends({}) /\ p[6] = Insert(ApplyRow(u))
    BY <1>2, ApplyPlan
  <2>2. /\ \A r \in Row \ {ChatRow} : Locks(p, 6, r)
        /\ \A m \in 1..4 : p[m].kind = "lock"
    BY <2>1, PrefixLocks
  <2>3. ApplyRow(u) \in Row \ {ChatRow} /\ ApplyRow(u) \notin FriendRows
    BY RowTypes DEF FriendRows
  <2>4. p[5].kind = "unless" /\ p[6].kind = "insert" /\ p[6].row = ApplyRow(u)
    BY <2>1, Kinds
  <2>5. \A n \in 1..6 : n \in 1..4 \/ n = 5 \/ n = 6
    OBVIOUS
  <2>6. \A n \in 1..5 : p[n].kind \in {"lock", "unless"}
    BY <2>2, <2>4
  <2>7. \A n \in 1..5 : Disciplined(t, R, n)
    BY <2>6 DEF Disciplined
  <2>8. Disciplined(t, R, 6)
    BY <1>2, <2>2, <2>3, <2>4 DEF Disciplined
  <2>. QED  BY <2>1, <2>5, <2>7, <2>8
<1>3. ASSUME p = DeleteFriend, t.op = "contact"
      PROVE  p \in Seq(Statements) /\ \A n \in 1..Len(p) : Disciplined(t, R, n)
  <2>1. /\ p \in Seq(Statements) /\ Len(p) = 5
        /\ p[1] = Lock(ApplyRow(First)) /\ p[2] = Lock(ApplyRow(Second))
        /\ p[3] = Lock(FriendRow(First)) /\ p[4] = Lock(FriendRow(Second))
        /\ p[5] = DeleteAll
    BY <1>3, DeletePlan
  <2>2. /\ \A r \in Row \ {ChatRow} : Locks(p, 5, r)
        /\ \A m \in 1..4 : p[m].kind = "lock"
    BY <2>1, PrefixLocks
  <2>3. p[5].kind = "delete"
    BY <2>1, Kinds
  <2>4. \A n \in 1..4 : Disciplined(t, R, n)
    BY <2>2 DEF Disciplined
  <2>5. Disciplined(t, R, 5)
    BY <1>3, <2>2, <2>3 DEF Disciplined
  <2>6. \A n \in 1..5 : n \in 1..4 \/ n = 5
    OBVIOUS
  <2>. QED  BY <2>1, <2>4, <2>5, <2>6
<1>4. ASSUME NEW u \in Users, NEW described \in BOOLEAN, p = AddFriend(u, described),
             t.op = "contact"
      PROVE  p \in Seq(Statements) /\ \A n \in 1..Len(p) : Disciplined(t, R, n)
  <2>1. /\ p \in Seq(Statements)
        /\ p[1] = Lock(ApplyRow(First)) /\ p[2] = Lock(ApplyRow(Second))
        /\ p[3] = Lock(FriendRow(First)) /\ p[4] = Lock(FriendRow(Second))
        /\ p[5] = UnlessFriends({ApplyRow(Other(u))})
        /\ p[6] = Insert(FriendRow(First)) /\ p[7] = Insert(FriendRow(Second))
        /\ p[8] = Lock(ChatRow) /\ p[9] = Insert(ChatRow)
        /\ Len(p) >= 9 /\ \A n \in 10..Len(p) : p[n].kind = "greet"
    BY <1>4, AcceptPlan
  <2>2. Accepts(p)
    BY <1>4 DEF Accepts
  <2>3. /\ \A n \in Nat : n >= 5 => \A r \in Row \ {ChatRow} : Locks(p, n, r)
        /\ \A m \in 1..4 : p[m].kind = "lock"
    BY <2>1, PrefixLocks
  <2>4. /\ p[5].kind = "unless" /\ p[8].kind = "lock" /\ p[8].row = ChatRow
        /\ p[6].kind = "insert" /\ p[6].row = FriendRow(First)
        /\ p[7].kind = "insert" /\ p[7].row = FriendRow(Second)
        /\ p[9].kind = "insert" /\ p[9].row = ChatRow
    BY <2>1, Kinds
  <2>5. \A n \in 1..4 : Disciplined(t, R, n)
    BY <2>3 DEF Disciplined
  <2>6. Disciplined(t, R, 5) /\ Disciplined(t, R, 8)
    BY <2>4 DEF Disciplined
  <2>7. Disciplined(t, R, 6) /\ Disciplined(t, R, 7)
    <3>1. FriendRow(First) \in Row \ {ChatRow} /\ FriendRow(Second) \in Row \ {ChatRow}
      BY RowTypes
    <3>2. Locks(p, 6, FriendRow(First)) /\ Locks(p, 7, FriendRow(Second))
      BY <2>3, <3>1
    <3>. QED  BY <1>4, <2>2, <2>4, <3>2 DEF Disciplined
  <2>8. Disciplined(t, R, 9)
    <3>1. 8 \in 1..(9 - 1)
      OBVIOUS
    <3>2. Locks(p, 9, ChatRow)
      BY <2>4, <3>1 DEF Locks
    <3>3. ChatRow \notin FriendRows
      BY RowTypes DEF FriendRows
    <3>. QED  BY <1>4, <2>4, <3>2, <3>3 DEF Disciplined
  <2>9. ASSUME NEW n \in 10..Len(p) PROVE Disciplined(t, R, n)
    <3>1. 9 \in 1..(n - 1)
      OBVIOUS
    <3>2. Inserts(p, n, ChatRow)
      BY <2>4, <3>1 DEF Inserts
    <3>3. p[n].kind = "greet"
      BY <2>1
    <3>. QED  BY <3>2, <3>3 DEF Disciplined
  <2>10. \A n \in 1..Len(p) : n \in 1..4 \/ n = 5 \/ n = 6 \/ n = 7 \/ n = 8 \/ n = 9
                              \/ n \in 10..Len(p)
    BY <2>1
  <2>. QED  BY <2>1, <2>5, <2>6, <2>7, <2>8, <2>9, <2>10
<1>5. ASSUME NEW u \in Users, p = CreatePrivateChat(u), t.op = "create"
      PROVE  p \in Seq(Statements) /\ \A n \in 1..Len(p) : Disciplined(t, R, n)
  <2>1. /\ p \in Seq(Statements) /\ Len(p) = 3
        /\ p[1] = Require(FriendRow(u)) /\ p[2] = Lock(ChatRow) /\ p[3] = Insert(ChatRow)
    BY <1>5, CreatePlan
  <2>2. /\ p[1].kind = "require" /\ p[2].kind = "lock" /\ p[2].row = ChatRow
        /\ p[3].kind = "insert" /\ p[3].row = ChatRow
    BY <2>1, Kinds
  <2>3. Disciplined(t, R, 1) /\ Disciplined(t, R, 2)
    BY <2>2 DEF Disciplined
  <2>4. 2 \in 1..(3 - 1) /\ ChatRow \notin FriendRows
    BY RowTypes DEF FriendRows
  <2>5. Locks(p, 3, ChatRow)
    BY <2>2, <2>4 DEF Locks
  <2>6. Disciplined(t, R, 3)
    BY <1>5, <2>2, <2>4, <2>5 DEF Disciplined
  <2>. QED  BY <2>1, <2>3, <2>6
<1>6. ASSUME NEW u \in Users, NEW batch \in Batches, p \in AddChatMsg(u, batch), t.op = "send"
      PROVE  p \in Seq(Statements) /\ \A n \in 1..Len(p) : Disciplined(t, R, n)
  <2>1. /\ p \in Seq(Statements) /\ Len(p) >= 2
        /\ \/ p[1] = Require(ChatRow) /\ p[2] = Require(FriendRow(u))
           \/ p[1] = Require(FriendRow(u)) /\ p[2] = Require(ChatRow)
        /\ \A n \in 3..Len(p) : p[n].kind = "store" /\ p[n].sender = u
    BY <1>6, SendPlan
  <2>2. p[1].kind = "require" /\ p[2].kind = "require"
    BY <2>1, Kinds
  <2>3. \A r \in {ChatRow, FriendRow(u)} : p[1].row = r \/ p[2].row = r
    BY <2>1, Kinds
  <2>4. Disciplined(t, R, 1) /\ Disciplined(t, R, 2)
    BY <2>2 DEF Disciplined
  <2>5. ASSUME NEW n \in 3..Len(p) PROVE Disciplined(t, R, n)
    <3>1. 1 \in 1..(n - 1) /\ 2 \in 1..(n - 1)
      OBVIOUS
    <3>2. \A r \in {ChatRow, FriendRow(u)} : Requires(p, n, r)
      BY <2>2, <2>3, <3>1 DEF Requires
    <3>3. p[n].kind = "store" /\ p[n].sender = u
      BY <2>1
    <3>. QED  BY <1>6, <3>2, <3>3 DEF Disciplined
  <2>6. \A n \in 1..Len(p) : n = 1 \/ n = 2 \/ n \in 3..Len(p)
    BY <2>1
  <2>. QED  BY <2>1, <2>4, <2>5, <2>6
<1>. QED  BY <1>1, <1>2, <1>3, <1>4, <1>5, <1>6 DEF PlanOf, Accepts

-----------------------------------------------------------------------------
(* What the actions do to a transaction.                                    *)

\* A transaction that has done nothing yet.
Fresh(t) ==
    /\ t.todo = t.plan /\ PlanOf(t.op, t.plan)
    /\ t.holds = {} /\ t.put = {} /\ t.drop = {} /\ t.new = {} /\ t.result = {}

\* The transaction of w begins, begins again or is over.
Refreshes(w) ==
    /\ TxTypes' /\ Fresh(tx'[w]) /\ \A v \in Workers \ {w} : tx'[v] = tx[v]

\* The first statement of w is done: s is what it was.
Advances(w, s) ==
    /\ TxTypes' /\ \A v \in Workers \ {w} : tx'[v] = tx[v]
    /\ tx[w].todo # <<>> /\ s = Head(tx[w].todo) /\ s \in Statements
    /\ tx'[w].todo = Tail(tx[w].todo)
    /\ tx'[w].op = tx[w].op /\ tx'[w].plan = tx[w].plan

LEMMA IdleType == Idle \in Transactions /\ Fresh(Idle)
<1>1. 0 \in 0..(MaxAttempts - 1)
  BY DatabaseAssumption
<1>2. Idle \in Transactions
  BY <1>1 DEF Idle, Transactions
<1>. QED  BY <1>2 DEF Fresh, PlanOf, Idle

LEMMA EndRefreshes ==
  ASSUME TxTypes, NEW w \in Workers, End(w)
  PROVE  Refreshes(w) /\ tx'[w] = Idle
  BY IdleType DEF TxTypes, End, Refreshes

LEMMA PlanType ==
  ASSUME NEW op, NEW plan, PlanOf(op, plan)
  PROVE  plan \in Seq(Statements)
<1>1. PICK t : t = [op |-> op, plan |-> plan, todo |-> plan]
  OBVIOUS
<1>2. t.op = op /\ t.plan = plan /\ t.todo = plan
  BY <1>1
<1>. QED  BY <1>2, PlanDiscipline

LEMMA RestartRefreshes ==
  ASSUME TxTypes, NEW w \in Workers, PlanOf(tx[w].op, tx[w].plan),
         tx[w].attempt + 1 < MaxAttempts, Restart(w)
  PROVE  Refreshes(w) /\ tx'[w].plan = tx[w].plan
<1>1. PICK op, plan, n : op = tx[w].op /\ plan = tx[w].plan /\ n = tx[w].attempt + 1
  OBVIOUS
<1>2. PICK t : t = [Idle EXCEPT !.op = op, !.plan = plan, !.todo = plan, !.attempt = n]
  OBVIOUS
<1>3. op \in {"idle", "contact", "send", "create"} /\ tx[w].attempt \in 0..(MaxAttempts - 1)
  BY <1>1 DEF TxTypes, Transactions
<1>4. n \in 0..(MaxAttempts - 1) /\ plan \in Seq(Statements)
  BY <1>1, <1>3, PlanType, DatabaseAssumption
<1>5. t \in Transactions
  BY <1>2, <1>3, <1>4, IdleType DEF Transactions
<1>6. /\ t.op = op /\ t.plan = plan /\ t.todo = plan /\ t.holds = {} /\ t.put = {}
      /\ t.drop = {} /\ t.new = {} /\ t.result = {}
  BY <1>2 DEF Idle
<1>7. tx' = [tx EXCEPT ![w] = t]
  BY <1>1, <1>2 DEF Restart
<1>8. TxTypes' /\ tx'[w] = t /\ \A v \in Workers \ {w} : tx'[v] = tx[v]
  BY <1>5, <1>7 DEF TxTypes
<1>. QED  BY <1>1, <1>6, <1>8 DEF Refreshes, Fresh

LEMMA BeginRefreshes ==
  ASSUME TxTypes, NEW w \in Workers, NEW op \in {"contact", "send", "create"}, NEW plan,
         PlanOf(op, plan), Begin(w, op, plan)
  PROVE  Refreshes(w) /\ tx'[w].plan = plan
<1>1. PICK t : t = [Idle EXCEPT !.op = op, !.plan = plan, !.todo = plan]
  OBVIOUS
<1>2. t \in Transactions
  BY <1>1, IdleType, PlanType DEF Transactions
<1>3. /\ t.op = op /\ t.plan = plan /\ t.todo = plan /\ t.holds = {} /\ t.put = {}
      /\ t.drop = {} /\ t.new = {} /\ t.result = {}
  BY <1>1 DEF Idle
<1>4. tx' = [tx EXCEPT ![w] = t]
  BY <1>1 DEF Begin
<1>5. TxTypes' /\ tx'[w] = t /\ \A v \in Workers \ {w} : tx'[v] = tx[v]
  BY <1>2, <1>4 DEF TxTypes
<1>. QED  BY <1>3, <1>5 DEF Refreshes, Fresh

\* Step replaces the transaction by change, without its first statement.
LEMMA StepAdvances ==
  ASSUME TxTypes, NEW w \in Workers, tx[w].todo # <<>>, NEW change \in Transactions,
         change.todo = tx[w].todo, change.op = tx[w].op, change.plan = tx[w].plan,
         Step(w, change)
  PROVE  /\ Advances(w, Head(tx[w].todo))
         /\ tx'[w].holds = change.holds /\ tx'[w].put = change.put
         /\ tx'[w].drop = change.drop /\ tx'[w].new = change.new
         /\ tx'[w].result = change.result
<1>. DEFINE t == [change EXCEPT !.todo = Tail(tx[w].todo)]
<1>1. tx[w].todo \in Seq(Statements)
  BY DEF TxTypes, Transactions
<1>2. Head(tx[w].todo) \in Statements /\ Tail(tx[w].todo) \in Seq(Statements)
  BY <1>1, HeadTailProperties
<1>3. /\ t \in Transactions /\ t.todo = Tail(tx[w].todo)
      /\ t.op = change.op /\ t.plan = change.plan
      /\ t.holds = change.holds /\ t.put = change.put /\ t.drop = change.drop
      /\ t.new = change.new /\ t.result = change.result
  BY <1>2 DEF Transactions
<1>4. tx' = [tx EXCEPT ![w] = t]
  BY DEF Step
<1>. HIDE DEF t
<1>5. TxTypes' /\ tx'[w] = t /\ \A v \in Workers \ {w} : tx'[v] = tx[v]
  BY <1>3, <1>4 DEF TxTypes
<1>. QED  BY <1>2, <1>3, <1>5 DEF Advances

\* The fields of a statement.
LEMMA StatementFields ==
  ASSUME NEW s \in Statements
  PROVE  /\ s.kind \in {"lock", "require", "insert"} => s.row \in Row
         /\ s.kind \in {"store", "greet"} => s.sender \in Users
         /\ s.kind = "store" => s.uuid \in Uuids /\ s.body \in Bodies
  BY DEF Statements, Lock, Require, Insert, DeleteAll, UnlessFriends, Greet

LEMMA FirstStatement ==
  ASSUME TxTypes, NEW w \in Workers, tx[w].todo # <<>>
  PROVE  Next1(w) = Head(tx[w].todo) /\ Head(tx[w].todo) \in Statements
<1>1. tx[w].todo \in Seq(Statements)
  BY DEF TxTypes, Transactions
<1>. QED  BY <1>1, HeadTailProperties DEF Next1

\* Statements that lock a row.
LEMMA LockEffect ==
  ASSUME TxTypes, NEW w \in Workers, LockRow(w), ~End(w)
  PROVE  \E s : /\ Advances(w, s) /\ s.kind \in {"lock", "require"}
                /\ s.row \in Present => ~HeldByOther(w, s.row)
                /\ s.kind = "require" => s.row \in View(w)
                /\ tx'[w].holds = tx[w].holds \cup {s.row}
                /\ tx'[w].put = tx[w].put /\ tx'[w].drop = tx[w].drop
                /\ tx'[w].new = tx[w].new /\ tx'[w].result = tx[w].result
<1>1. PICK s : s = Next1(w)
  OBVIOUS
<1>2. /\ tx[w].todo # <<>> /\ s.kind \in {"lock", "require"}
      /\ s.row \in Present => ~HeldByOther(w, s.row)
      /\ s.kind = "require" => s.row \in View(w)
      /\ Step(w, [tx[w] EXCEPT !.holds = @ \cup {s.row}])
  BY <1>1 DEF LockRow, At, MustWait
<1>3. s = Head(tx[w].todo) /\ s \in Statements
  BY <1>1, <1>2, FirstStatement
<1>4. s.row \in Row
  BY <1>2, <1>3, StatementFields
<1>5. PICK c : c = [tx[w] EXCEPT !.holds = tx[w].holds \cup {s.row}]
  OBVIOUS
<1>6. tx[w] \in Transactions
  BY DEF TxTypes
<1>7. /\ c \in Transactions /\ c.todo = tx[w].todo /\ c.op = tx[w].op /\ c.plan = tx[w].plan
      /\ c.holds = tx[w].holds \cup {s.row} /\ c.put = tx[w].put /\ c.drop = tx[w].drop
      /\ c.new = tx[w].new /\ c.result = tx[w].result
  BY <1>4, <1>5, <1>6 DEF Transactions
<1>8. Step(w, c)
  BY <1>2, <1>5
<1>9. /\ Advances(w, s) /\ tx'[w].holds = c.holds /\ tx'[w].put = c.put
      /\ tx'[w].drop = c.drop /\ tx'[w].new = c.new /\ tx'[w].result = c.result
  BY <1>2, <1>3, <1>7, <1>8, StepAdvances
<1>. QED  BY <1>2, <1>7, <1>9

LEMMA InsertEffect ==
  ASSUME TxTypes, NEW w \in Workers, InsertRow(w)
  PROVE  \E s : /\ Advances(w, s) /\ s.kind = "insert"
                /\ s.row \notin View(w) => ~HeldByOther(w, s.row)
                /\ tx'[w].holds = tx[w].holds \cup {s.row}
                /\ tx'[w].put = tx[w].put \cup ({s.row} \ View(w))
                /\ tx'[w].drop = tx[w].drop
                /\ tx'[w].new = tx[w].new /\ tx'[w].result = tx[w].result
<1>1. PICK s, p : s = Next1(w) /\ p = tx[w].put \cup ({s.row} \ View(w))
  OBVIOUS
<1>2. /\ tx[w].todo # <<>> /\ s.kind = "insert"
      /\ s.row \notin View(w) => ~HeldByOther(w, s.row)
      /\ Step(w, [tx[w] EXCEPT !.holds = @ \cup {s.row}, !.put = @ \cup ({s.row} \ View(w))])
  BY <1>1 DEF InsertRow, At, MustWait
<1>3. s = Head(tx[w].todo) /\ s \in Statements
  BY <1>1, <1>2, FirstStatement
<1>4. s.row \in Row
  BY <1>2, <1>3, StatementFields
<1>5. PICK c : c = [tx[w] EXCEPT !.holds = tx[w].holds \cup {s.row}, !.put = p]
  OBVIOUS
<1>6. tx[w] \in Transactions
  BY DEF TxTypes
<1>7. p \subseteq Row
  BY <1>1, <1>4, <1>6 DEF Transactions
<1>8. /\ c \in Transactions /\ c.todo = tx[w].todo /\ c.op = tx[w].op /\ c.plan = tx[w].plan
      /\ c.holds = tx[w].holds \cup {s.row} /\ c.put = p /\ c.drop = tx[w].drop
      /\ c.new = tx[w].new /\ c.result = tx[w].result
  BY <1>4, <1>5, <1>6, <1>7 DEF Transactions
<1>9. Step(w, c)
  BY <1>1, <1>2, <1>5
<1>10. /\ Advances(w, s) /\ tx'[w].holds = c.holds /\ tx'[w].put = c.put
       /\ tx'[w].drop = c.drop /\ tx'[w].new = c.new /\ tx'[w].result = c.result
  BY <1>2, <1>3, <1>8, <1>9, StepAdvances
<1>. QED  BY <1>1, <1>2, <1>8, <1>10

LEMMA DeleteEffect ==
  ASSUME TxTypes, NEW w \in Workers, DeleteRows(w)
  PROVE  \E s : /\ Advances(w, s) /\ s.kind = "delete"
                /\ tx'[w].drop = Row \ {ChatRow}
                /\ tx'[w].holds = tx[w].holds /\ tx'[w].put = tx[w].put
                /\ tx'[w].new = tx[w].new /\ tx'[w].result = tx[w].result
<1>1. PICK s : s = Next1(w)
  OBVIOUS
<1>2. /\ tx[w].todo # <<>> /\ s.kind = "delete"
      /\ Step(w, [tx[w] EXCEPT !.drop = Row \ {ChatRow}])
  BY <1>1 DEF DeleteRows, At
<1>3. s = Head(tx[w].todo) /\ s \in Statements
  BY <1>1, <1>2, FirstStatement
<1>4. PICK c : c = [tx[w] EXCEPT !.drop = Row \ {ChatRow}]
  OBVIOUS
<1>5. tx[w] \in Transactions
  BY DEF TxTypes
<1>6. /\ c \in Transactions /\ c.todo = tx[w].todo /\ c.op = tx[w].op /\ c.plan = tx[w].plan
      /\ c.drop = Row \ {ChatRow} /\ c.holds = tx[w].holds /\ c.put = tx[w].put
      /\ c.new = tx[w].new /\ c.result = tx[w].result
  BY <1>4, <1>5 DEF Transactions
<1>7. Step(w, c)
  BY <1>2, <1>4
<1>8. /\ Advances(w, s) /\ tx'[w].holds = c.holds /\ tx'[w].put = c.put
      /\ tx'[w].drop = c.drop /\ tx'[w].new = c.new /\ tx'[w].result = c.result
  BY <1>2, <1>3, <1>6, <1>7, StepAdvances
<1>. QED  BY <1>2, <1>6, <1>8

\* The rest of the plan goes on or is left out.
LEMMA CheckEffect ==
  ASSUME TxTypes, NEW w \in Workers, CheckFriends(w), ~End(w)
  PROVE  \/ /\ TxTypes' /\ \A v \in Workers \ {w} : tx'[v] = tx[v]
            /\ tx'[w].todo = <<>> /\ tx'[w].op = tx[w].op /\ tx'[w].plan = tx[w].plan
            /\ tx'[w].holds = tx[w].holds /\ tx'[w].put = tx[w].put
            /\ tx'[w].drop = tx[w].drop
            /\ tx'[w].new = tx[w].new /\ tx'[w].result = tx[w].result
         \/ \E s : /\ Advances(w, s) /\ s.kind = "unless"
                   /\ tx'[w].holds = tx[w].holds /\ tx'[w].put = tx[w].put
                   /\ tx'[w].drop = tx[w].drop
                   /\ tx'[w].new = tx[w].new /\ tx'[w].result = tx[w].result
<1>1. PICK s : s = Next1(w)
  OBVIOUS
<1>2. tx[w].todo # <<>> /\ s.kind = "unless"
  BY <1>1 DEF CheckFriends, At
<1>3. s = Head(tx[w].todo) /\ s \in Statements
  BY <1>1, <1>2, FirstStatement
<1>4. tx[w] \in Transactions
  BY DEF TxTypes
<1>5. CASE tx' = [tx EXCEPT ![w].todo = <<>>]
  <2>0. PICK e : e = <<>> /\ e \in Seq(Statements)
    BY EmptySeq
  <2>1. PICK c : c = [tx[w] EXCEPT !.todo = e]
    OBVIOUS
  <2>2. /\ c \in Transactions /\ c.todo = e /\ c.op = tx[w].op /\ c.plan = tx[w].plan
        /\ c.drop = tx[w].drop /\ c.holds = tx[w].holds /\ c.put = tx[w].put
        /\ c.new = tx[w].new /\ c.result = tx[w].result
    <3>1. e \in Seq(Statements)
      BY <2>0
    <3>. QED  BY <1>4, <2>1, <3>1 DEF Transactions
  <2>3. tx' = [tx EXCEPT ![w] = c]
    <3>1. tx' = [tx EXCEPT ![w].todo = e]
      BY <1>5, <2>0
    <3>. QED  BY <2>1, <3>1
  <2>4. TxTypes' /\ tx'[w] = c /\ \A v \in Workers \ {w} : tx'[v] = tx[v]
    BY <2>2, <2>3 DEF TxTypes
  <2>. QED  BY <2>0, <2>2, <2>4
<1>6. CASE Step(w, tx[w])
  <2>1. /\ Advances(w, s) /\ tx'[w].holds = tx[w].holds /\ tx'[w].put = tx[w].put
        /\ tx'[w].drop = tx[w].drop /\ tx'[w].new = tx[w].new /\ tx'[w].result = tx[w].result
    BY <1>2, <1>3, <1>4, <1>6, StepAdvances
  <2>. QED  BY <1>2, <2>1
<1>. QED  BY <1>5, <1>6 DEF CheckFriends

\* A message is written, ...
LEMMA NewRowEffect ==
  ASSUME TxTypes, TableTypes, NEW w \in Workers, tx[w].todo # <<>>, NEW u \in Users,
         NEW i \in Uuids \cup {NoUuid}, NEW b \in Bodies \cup {NoUuid}, NewRow(w, u, i, b)
  PROVE  \E m \in Messages :
            /\ Advances(w, Head(tx[w].todo)) /\ nextId' = nextId + 1
            /\ m.id = nextId /\ m.sender = u /\ m.uuid = i
            /\ tx'[w].new = tx[w].new \cup {m} /\ tx'[w].result = tx[w].result \cup {m}
            /\ tx'[w].holds = tx[w].holds /\ tx'[w].put = tx[w].put
            /\ tx'[w].drop = tx[w].drop
<1>1. PICK m : m = Message(nextId, u, i, b)
  OBVIOUS
<1>2. m \in Messages /\ m.id = nextId /\ m.sender = u /\ m.uuid = i
  BY <1>1 DEF Message, Messages, TableTypes
<1>3. PICK c : c = [tx[w] EXCEPT !.new = tx[w].new \cup {m}, !.result = tx[w].result \cup {m}]
  OBVIOUS
<1>4. tx[w] \in Transactions
  BY DEF TxTypes
<1>5. /\ c \in Transactions /\ c.todo = tx[w].todo /\ c.op = tx[w].op /\ c.plan = tx[w].plan
      /\ c.drop = tx[w].drop /\ c.holds = tx[w].holds /\ c.put = tx[w].put
      /\ c.new = tx[w].new \cup {m} /\ c.result = tx[w].result \cup {m}
  BY <1>2, <1>3, <1>4 DEF Transactions
<1>6. Step(w, c) /\ nextId' = nextId + 1
  BY <1>1, <1>3 DEF NewRow
<1>7. /\ Advances(w, Head(tx[w].todo)) /\ tx'[w].holds = c.holds /\ tx'[w].put = c.put
      /\ tx'[w].drop = c.drop /\ tx'[w].new = c.new /\ tx'[w].result = c.result
  BY <1>5, <1>6, StepAdvances
<1>. QED  BY <1>2, <1>5, <1>6, <1>7

LEMMA GreetEffect ==
  ASSUME TxTypes, TableTypes, NEW w \in Workers, GreetFriend(w)
  PROVE  \E s : \E m \in Messages :
            /\ Advances(w, s) /\ s.kind = "greet" /\ nextId' = nextId + 1
            /\ m.id = nextId /\ m.uuid = NoUuid
            /\ tx'[w].new = tx[w].new \cup {m} /\ tx'[w].result = tx[w].result \cup {m}
            /\ tx'[w].holds = tx[w].holds /\ tx'[w].put = tx[w].put
            /\ tx'[w].drop = tx[w].drop
<1>1. tx[w].todo # <<>> /\ Next1(w).kind = "greet" /\ NewRow(w, Next1(w).sender, NoUuid, NoUuid)
  BY DEF GreetFriend, At
<1>2. Next1(w) = Head(tx[w].todo) /\ Head(tx[w].todo) \in Statements
  BY <1>1, FirstStatement
<1>3. PICK u, none : u = Next1(w).sender /\ none = NoUuid
  OBVIOUS
<1>4. u \in Users /\ none \in Uuids \cup {NoUuid} /\ none \in Bodies \cup {NoUuid}
  BY <1>1, <1>2, <1>3, StatementFields
<1>5. NewRow(w, u, none, none) /\ tx[w].todo # <<>>
  BY <1>1, <1>3
<1>6. \E m \in Messages :
            /\ Advances(w, Head(tx[w].todo)) /\ nextId' = nextId + 1
            /\ m.id = nextId /\ m.sender = u /\ m.uuid = none
            /\ tx'[w].new = tx[w].new \cup {m} /\ tx'[w].result = tx[w].result \cup {m}
            /\ tx'[w].holds = tx[w].holds /\ tx'[w].put = tx[w].put
            /\ tx'[w].drop = tx[w].drop
  BY <1>4, <1>5, NewRowEffect
<1>. QED  BY <1>1, <1>2, <1>3, <1>6

\* ... or found.
LEMMA StoreEffect ==
  ASSUME TxTypes, TableTypes, NEW w \in Workers, StoreMessage(w), ~End(w)
  PROVE  \E s : \E m \in Messages :
            /\ Advances(w, s) /\ s.kind = "store"
            /\ m.sender = s.sender /\ m.uuid = s.uuid /\ m.uuid \in Uuids
            /\ tx'[w].result = tx[w].result \cup {m}
            /\ tx'[w].holds = tx[w].holds /\ tx'[w].put = tx[w].put
            /\ tx'[w].drop = tx[w].drop
            /\ \/ /\ nextId' = nextId + 1 /\ m.id = nextId /\ Stored(w, s) = {}
                  /\ tx'[w].new = tx[w].new \cup {m}
               \/ /\ nextId' = nextId /\ m \in messages \cup tx[w].new
                  /\ tx'[w].new = tx[w].new
<1>1. PICK s : s = Next1(w)
  OBVIOUS
<1>2. tx[w].todo # <<>> /\ s.kind = "store"
  BY <1>1 DEF StoreMessage, At
<1>3. s = Head(tx[w].todo) /\ s \in Statements
  BY <1>1, <1>2, FirstStatement
<1>4. s.sender \in Users /\ s.uuid \in Uuids /\ s.body \in Bodies
  BY <1>2, <1>3, StatementFields
<1>5. CASE Stored(w, s) = {} /\ NewRow(w, s.sender, s.uuid, s.body)
  BY <1>2, <1>3, <1>4, <1>5, NewRowEffect
<1>6. ASSUME NEW m \in Stored(w, s), UNCHANGED nextId,
             Step(w, [tx[w] EXCEPT !.result = @ \cup {m}])
      PROVE  /\ m \in Messages /\ Advances(w, s)
             /\ m.sender = s.sender /\ m.uuid = s.uuid /\ m \in messages \cup tx[w].new
             /\ tx'[w].result = tx[w].result \cup {m}
             /\ tx'[w].holds = tx[w].holds /\ tx'[w].put = tx[w].put
             /\ tx'[w].drop = tx[w].drop /\ tx'[w].new = tx[w].new
  <2>1. tx[w] \in Transactions
    BY DEF TxTypes
  <2>2. /\ m \in messages \cup tx[w].new /\ m.sender = s.sender /\ m.uuid = s.uuid
        /\ m \in Messages
    BY <2>1 DEF Stored, TableTypes, Transactions
  <2>3. PICK c : c = [tx[w] EXCEPT !.result = tx[w].result \cup {m}]
    OBVIOUS
  <2>4. /\ c \in Transactions /\ c.todo = tx[w].todo /\ c.op = tx[w].op /\ c.plan = tx[w].plan
        /\ c.drop = tx[w].drop /\ c.holds = tx[w].holds /\ c.put = tx[w].put
        /\ c.new = tx[w].new /\ c.result = tx[w].result \cup {m}
    BY <2>1, <2>2, <2>3 DEF Transactions
  <2>5. Step(w, c)
    BY <1>6, <2>3
  <2>6. /\ Advances(w, s) /\ tx'[w].holds = c.holds /\ tx'[w].put = c.put
        /\ tx'[w].drop = c.drop /\ tx'[w].new = c.new /\ tx'[w].result = c.result
    BY <1>2, <1>3, <2>4, <2>5, StepAdvances
  <2>. QED  BY <2>2, <2>4, <2>6
<1>7. \/ Stored(w, s) = {} /\ NewRow(w, s.sender, s.uuid, s.body)
      \/ \E m \in Stored(w, s) : Step(w, [tx[w] EXCEPT !.result = @ \cup {m}]) /\ UNCHANGED nextId
  BY <1>1 DEF StoreMessage
<1>. QED  BY <1>2, <1>4, <1>5, <1>6, <1>7

-----------------------------------------------------------------------------
(* The kinds of steps: every step of Next is one of them (StepKinds below). *)

\* Nothing is committed and nothing is read.
Quiet == UNCHANGED <<rows, messages, cursor, received, acked, credit>>

\* The changes of w stay as they are, apart from what is named.
Keeps(w) ==
    /\ tx'[w].put = tx[w].put /\ tx'[w].drop = tx[w].drop
    /\ tx'[w].new = tx[w].new /\ tx'[w].result = tx[w].result

Locked(w, s) ==
    /\ Quiet /\ nextId' = nextId /\ Advances(w, s) /\ s.kind \in {"lock", "require"}
    /\ s.row \in Present => ~HeldByOther(w, s.row)
    /\ s.kind = "require" => s.row \in View(w)
    /\ tx'[w].holds = tx[w].holds \cup {s.row} /\ Keeps(w)

Inserted(w, s) ==
    /\ Quiet /\ nextId' = nextId /\ Advances(w, s) /\ s.kind = "insert"
    /\ s.row \notin View(w) => ~HeldByOther(w, s.row)
    /\ tx'[w].holds = tx[w].holds \cup {s.row}
    /\ tx'[w].put = tx[w].put \cup ({s.row} \ View(w)) /\ tx'[w].drop = tx[w].drop
    /\ tx'[w].new = tx[w].new /\ tx'[w].result = tx[w].result

Deleted(w, s) ==
    /\ Quiet /\ nextId' = nextId /\ Advances(w, s) /\ s.kind = "delete"
    /\ tx'[w].holds = tx[w].holds /\ tx'[w].put = tx[w].put
    /\ tx'[w].drop = Row \ {ChatRow}
    /\ tx'[w].new = tx[w].new /\ tx'[w].result = tx[w].result

Checked(w, s) ==
    /\ Quiet /\ nextId' = nextId /\ Advances(w, s) /\ s.kind = "unless"
    /\ tx'[w].holds = tx[w].holds /\ Keeps(w)

\* The rest of the plan is left out.
Skipped(w) ==
    /\ Quiet /\ nextId' = nextId /\ TxTypes' /\ \A v \in Workers \ {w} : tx'[v] = tx[v]
    /\ tx'[w].todo = <<>> /\ tx'[w].op = tx[w].op /\ tx'[w].plan = tx[w].plan
    /\ tx'[w].holds = tx[w].holds /\ Keeps(w)

\* s gives the message m to w: a new one, ...
Written(w, s, m) ==
    /\ Quiet /\ nextId' = nextId + 1 /\ Advances(w, s) /\ m \in Messages /\ m.id = nextId
    /\ \/ s.kind = "greet" /\ m.uuid = NoUuid
       \/ s.kind = "store" /\ m.sender = s.sender /\ m.uuid = s.uuid /\ Stored(w, s) = {}
    /\ tx'[w].holds = tx[w].holds /\ tx'[w].put = tx[w].put /\ tx'[w].drop = tx[w].drop
    /\ tx'[w].new = tx[w].new \cup {m} /\ tx'[w].result = tx[w].result \cup {m}

\* ... or one that was there.
Found(w, s, m) ==
    /\ Quiet /\ nextId' = nextId /\ Advances(w, s) /\ s.kind = "store"
    /\ m \in messages \cup tx[w].new
    /\ tx'[w].holds = tx[w].holds /\ tx'[w].put = tx[w].put /\ tx'[w].drop = tx[w].drop
    /\ tx'[w].new = tx[w].new /\ tx'[w].result = tx[w].result \cup {m}

\* The transaction of w is rolled back; it may start again.
RolledBack(w) ==
    /\ Quiet /\ nextId' = nextId /\ Refreshes(w)
    /\ tx'[w].plan \in {<<>>, tx[w].plan}

\* A request comes to the idle worker w.
Begun(w) ==
    /\ UNCHANGED <<rows, messages, cursor, received, acked>> /\ nextId' = nextId
    /\ Refreshes(w) /\ tx[w].op = "idle"
    /\ \/ /\ Accepts(tx'[w].plan)
          /\ credit' = [credit EXCEPT !.accept = @ + 1]
       \/ /\ tx'[w].plan = DeleteFriend
          /\ credit' = [credit EXCEPT !.delete = @ + 1]
       \/ /\ ~Accepts(tx'[w].plan) /\ tx'[w].plan # DeleteFriend
          /\ UNCHANGED credit

\* The transaction of w is committed; the answer may be lost.
Committed(w) ==
    /\ Apply(w) /\ Refreshes(w) /\ tx'[w] = Idle /\ nextId' = nextId
    /\ acked' \in {acked, acked \cup tx[w].result} /\ UNCHANGED <<cursor, received>>

StepOf(w) ==
    \/ RolledBack(w) \/ Begun(w) \/ Committed(w) \/ Skipped(w)
    \/ \E s : Locked(w, s) \/ Inserted(w, s) \/ Deleted(w, s) \/ Checked(w, s)
    \/ \E s : \E m \in Messages : Written(w, s, m) \/ Found(w, s, m)

\* The plans of accepts and deletions are plans of nothing else.
LEMMA PlansDiffer ==
  /\ ~Accepts(<<>>) /\ DeleteFriend # <<>> /\ ~Accepts(DeleteFriend)
  /\ \A u \in Users : AddFriendApply(u) # DeleteFriend /\ ~Accepts(AddFriendApply(u))
  /\ \A u \in Users : CreatePrivateChat(u) # DeleteFriend /\ ~Accepts(CreatePrivateChat(u))
  /\ \A u \in Users, batch \in Batches : \A p \in AddChatMsg(u, batch) :
        p # DeleteFriend /\ ~Accepts(p)
<1>1. ASSUME NEW p, Accepts(p)
      PROVE  Len(p) >= 9 /\ p[1].kind = "lock" /\ Len(p) \in Nat
  <2>1. PICK u \in Users, described \in BOOLEAN : p = AddFriend(u, described)
    BY <1>1 DEF Accepts
  <2>2. p \in Seq(Statements) /\ Len(p) >= 9 /\ p[1] = Lock(ApplyRow(First))
    BY <2>1, AcceptPlan
  <2>. QED  BY <2>2, Kinds
<1>2. Len(DeleteFriend) = 5 /\ DeleteFriend[1].kind = "lock"
  <2>1. Len(DeleteFriend) = 5 /\ DeleteFriend[1] = Lock(ApplyRow(First))
    BY DeletePlan
  <2>. QED  BY <2>1, Kinds
<1>3. ASSUME NEW u \in Users PROVE Len(AddFriendApply(u)) = 6
  BY ApplyPlan
<1>4. ASSUME NEW u \in Users PROVE Len(CreatePrivateChat(u)) = 3
  BY CreatePlan
<1>5. ASSUME NEW u \in Users, NEW batch \in Batches, NEW p \in AddChatMsg(u, batch)
      PROVE  p[1].kind = "require"
  <2>1. \/ p[1] = Require(ChatRow) \/ p[1] = Require(FriendRow(u))
    BY SendPlan
  <2>. QED  BY <2>1, Kinds
<1>6. ASSUME NEW p, NEW k \in {0, 3, 5, 6}, Len(p) = k PROVE ~Accepts(p)
  <2>1. SUFFICES ASSUME Accepts(p) PROVE FALSE
    OBVIOUS
  <2>2. Len(p) >= 9
    BY <1>1, <2>1
  <2>3. k >= 9
    BY <1>6, <2>2
  <2>. QED  BY <2>3
<1>7. ~Accepts(<<>>) /\ DeleteFriend # <<>> /\ ~Accepts(DeleteFriend)
  <2>1. PICK p, d : p = <<>> /\ d = DeleteFriend
    OBVIOUS
  <2>2. Len(p) = 0 /\ Len(d) = 5
    BY <1>2, <2>1
  <2>3. ~Accepts(p) /\ ~Accepts(d) /\ p # d
    BY <1>6, <2>2
  <2>. QED  BY <2>1, <2>3
<1>8. ASSUME NEW u \in Users PROVE AddFriendApply(u) # DeleteFriend /\ ~Accepts(AddFriendApply(u))
  <2>1. PICK p, d : p = AddFriendApply(u) /\ d = DeleteFriend
    OBVIOUS
  <2>2. Len(p) = 6 /\ Len(d) = 5
    BY <1>2, <1>3, <2>1
  <2>3. ~Accepts(p)
    BY <1>6, <2>2
  <2>4. p # d
    BY <2>2
  <2>. QED  BY <2>1, <2>3, <2>4
<1>9. ASSUME NEW u \in Users
      PROVE  CreatePrivateChat(u) # DeleteFriend /\ ~Accepts(CreatePrivateChat(u))
  <2>1. PICK p, d : p = CreatePrivateChat(u) /\ d = DeleteFriend
    OBVIOUS
  <2>2. Len(p) = 3 /\ Len(d) = 5
    BY <1>2, <1>4, <2>1
  <2>3. ~Accepts(p)
    BY <1>6, <2>2
  <2>4. p # d
    BY <2>2
  <2>. QED  BY <2>1, <2>3, <2>4
<1>10. ASSUME NEW u \in Users, NEW batch \in Batches, NEW p \in AddChatMsg(u, batch)
       PROVE  p # DeleteFriend /\ ~Accepts(p)
  BY <1>1, <1>2, <1>5
<1>. QED  BY <1>7, <1>8, <1>9, <1>10

\* A statement is one of the kinds.
LEMMA StatementKinds ==
  ASSUME TxTypes, TableTypes, NEW w \in Workers, PlanOf(tx[w].op, tx[w].plan), Statement(w)
  PROVE  StepOf(w)
<1>1. ASSUME End(w), Quiet, nextId' = nextId PROVE RolledBack(w)
  <2>1. Refreshes(w) /\ tx'[w] = Idle
    BY <1>1, EndRefreshes
  <2>. QED  BY <1>1, <2>1 DEF RolledBack, Idle
<1>2. CASE LockRow(w)
  <2>1. Quiet /\ nextId' = nextId
    BY <1>2 DEF LockRow, Quiet
  <2>2. CASE ~End(w)
    <3>1. \E s : Locked(w, s)
      BY <1>2, <2>1, <2>2, LockEffect DEF Locked, Keeps
    <3>. QED  BY <3>1 DEF StepOf
  <2>. QED  BY <1>1, <2>1, <2>2 DEF StepOf
<1>3. CASE InsertRow(w)
  <2>1. Quiet /\ nextId' = nextId
    BY <1>3 DEF InsertRow, Quiet
  <2>2. \E s : Inserted(w, s)
    BY <1>3, <2>1, InsertEffect DEF Inserted
  <2>. QED  BY <2>2 DEF StepOf
<1>4. CASE DeleteRows(w)
  <2>1. Quiet /\ nextId' = nextId
    BY <1>4 DEF DeleteRows, Quiet
  <2>2. \E s : Deleted(w, s)
    BY <1>4, <2>1, DeleteEffect DEF Deleted
  <2>. QED  BY <2>2 DEF StepOf
<1>5. CASE CheckFriends(w)
  <2>1. Quiet /\ nextId' = nextId
    BY <1>5 DEF CheckFriends, Quiet
  <2>2. CASE ~End(w)
    <3>1. Skipped(w) \/ \E s : Checked(w, s)
      BY <1>5, <2>1, <2>2, CheckEffect DEF Skipped, Checked, Keeps
    <3>. QED  BY <3>1 DEF StepOf
  <2>. QED  BY <1>1, <2>1, <2>2 DEF StepOf
<1>6. CASE StoreMessage(w)
  <2>1. Quiet
    BY <1>6 DEF StoreMessage, Quiet
  <2>2. CASE ~End(w)
    <3>1. \E s : \E m \in Messages : Written(w, s, m) \/ Found(w, s, m)
      BY <1>6, <2>1, <2>2, StoreEffect DEF Written, Found
    <3>. QED  BY <3>1 DEF StepOf
  <2>3. CASE End(w)
    <3>1. CASE nextId' = nextId
      BY <1>1, <2>1, <2>3, <3>1 DEF StepOf
    <3>2. CASE nextId' # nextId
      <4>1. PICK s : s = Next1(w)
        OBVIOUS
      <4>2. tx[w].todo # <<>> /\ s.kind = "store" /\ Stored(w, s) = {}
            /\ NewRow(w, s.sender, s.uuid, s.body)
        BY <1>6, <3>2, <4>1 DEF StoreMessage, At
      <4>3. s = Head(tx[w].todo) /\ s \in Statements
        BY <4>1, <4>2, FirstStatement
      <4>4. s.sender \in Users /\ s.uuid \in Uuids /\ s.body \in Bodies
        BY <4>2, <4>3, StatementFields
      <4>5. \E m \in Messages : Written(w, s, m)
        BY <2>1, <4>2, <4>3, <4>4, NewRowEffect DEF Written
      <4>. QED  BY <4>5 DEF StepOf
    <3>. QED  BY <3>1, <3>2
  <2>. QED  BY <2>2, <2>3
<1>7. CASE GreetFriend(w)
  <2>1. Quiet
    BY <1>7 DEF GreetFriend, Quiet
  <2>2. \E s : \E m \in Messages : Written(w, s, m)
    BY <1>7, <2>1, GreetEffect DEF Written
  <2>. QED  BY <2>2 DEF StepOf
<1>8. ASSUME End(w), Apply(w), nextId' = nextId, UNCHANGED <<cursor, received>>,
             acked' \in {acked, acked \cup tx[w].result}
      PROVE  Committed(w)
  <2>1. Refreshes(w) /\ tx'[w] = Idle
    BY <1>8, EndRefreshes
  <2>. QED  BY <1>8, <2>1 DEF Committed
<1>9. CASE Commit(w)
  BY <1>8, <1>9 DEF Commit, StepOf
<1>10. CASE CommitUnknown(w)
  <2>1. CASE Apply(w)
    BY <1>8, <1>10, <2>1 DEF CommitUnknown, StepOf
  <2>2. CASE UNCHANGED <<rows, messages, credit>>
    BY <1>1, <1>10, <2>2 DEF CommitUnknown, StepOf, Quiet
  <2>. QED  BY <1>10, <2>1, <2>2 DEF CommitUnknown
<1>11. CASE ConnectionLost(w)
  BY <1>1, <1>11 DEF ConnectionLost, StepOf, Quiet
<1>12. CASE LockFailure(w)
  <2>1. Quiet /\ nextId' = nextId
    BY <1>12 DEF LockFailure, Quiet
  <2>2. CASE End(w)
    BY <1>1, <2>1, <2>2 DEF StepOf
  <2>3. CASE Restart(w) /\ tx[w].attempt + 1 < MaxAttempts
    BY <2>1, <2>3, RestartRefreshes DEF RolledBack, StepOf
  <2>. QED  BY <1>12, <2>2, <2>3 DEF LockFailure
<1>. QED  BY <1>2, <1>3, <1>4, <1>5, <1>6, <1>7, <1>9, <1>10, <1>11, <1>12 DEF Statement

\* A request is one of the kinds.
LEMMA RequestKinds ==
  ASSUME TxTypes, NEW w \in Workers, NEW u \in Users,
         ContactRequest(w, u) \/ SendRequest(w, u) \/ CreateRequest(w, u)
  PROVE  StepOf(w)
<1>1. ASSUME NEW op \in {"contact", "send", "create"}, NEW plan, PlanOf(op, plan),
             Begin(w, op, plan),
             \/ Accepts(plan) /\ credit' = [credit EXCEPT !.accept = @ + 1]
             \/ plan = DeleteFriend /\ credit' = [credit EXCEPT !.delete = @ + 1]
             \/ ~Accepts(plan) /\ plan # DeleteFriend /\ UNCHANGED credit
      PROVE  StepOf(w)
  <2>1. Refreshes(w) /\ tx'[w].plan = plan
    BY <1>1, BeginRefreshes
  <2>2. /\ tx[w].op = "idle" /\ nextId' = nextId
        /\ UNCHANGED <<rows, messages, cursor, received, acked>>
    BY <1>1 DEF Begin
  <2>3. Begun(w)
    BY <1>1, <2>1, <2>2 DEF Begun
  <2>. QED  BY <2>3 DEF StepOf
<1>2. CASE ContactRequest(w, u)
  <2>1. CASE Begin(w, "contact", AddFriendApply(u)) /\ UNCHANGED credit
    <3>1. PICK plan : plan = AddFriendApply(u)
      OBVIOUS
    <3>2. PlanOf("contact", plan) /\ ~Accepts(plan) /\ plan # DeleteFriend
      BY <3>1, PlansDiffer DEF PlanOf
    <3>. QED  BY <1>1, <2>1, <3>1, <3>2
  <2>2. CASE /\ \E described \in BOOLEAN : Begin(w, "contact", AddFriend(u, described))
             /\ credit' = [credit EXCEPT !.accept = @ + 1]
    <3>1. PICK described \in BOOLEAN : Begin(w, "contact", AddFriend(u, described))
      BY <2>2
    <3>2. PICK plan : plan = AddFriend(u, described)
      OBVIOUS
    <3>3. Accepts(plan)
      BY <3>2 DEF Accepts
    <3>4. PlanOf("contact", plan)
      BY <3>3 DEF PlanOf
    <3>. QED  BY <1>1, <2>2, <3>1, <3>2, <3>3, <3>4
  <2>3. CASE Begin(w, "contact", DeleteFriend) /\ credit' = [credit EXCEPT !.delete = @ + 1]
    <3>1. PlanOf("contact", DeleteFriend)
      BY DEF PlanOf
    <3>. QED  BY <1>1, <2>3, <3>1
  <2>. QED  BY <1>2, <2>1, <2>2, <2>3 DEF ContactRequest
<1>3. CASE SendRequest(w, u)
  <2>1. PICK batch \in Batches : \E plan \in AddChatMsg(u, batch) : Begin(w, "send", plan)
    BY <1>3 DEF SendRequest
  <2>2. PICK plan \in AddChatMsg(u, batch) : Begin(w, "send", plan)
    BY <2>1
  <2>3. PlanOf("send", plan) /\ ~Accepts(plan) /\ plan # DeleteFriend
    BY PlansDiffer DEF PlanOf
  <2>4. UNCHANGED credit
    BY <1>3 DEF SendRequest
  <2>. QED  BY <1>1, <2>2, <2>3, <2>4
<1>4. CASE CreateRequest(w, u)
  <2>1. PICK plan : plan = CreatePrivateChat(u)
    OBVIOUS
  <2>2. PlanOf("create", plan) /\ ~Accepts(plan) /\ plan # DeleteFriend
    BY <2>1, PlansDiffer DEF PlanOf
  <2>3. Begin(w, "create", plan) /\ UNCHANGED credit
    BY <1>4, <2>1 DEF CreateRequest
  <2>. QED  BY <1>1, <2>2, <2>3
<1>. QED  BY <1>2, <1>3, <1>4

LEMMA StepKinds ==
  ASSUME TxTypes, TableTypes, PlansKept, [Next]_vars
  PROVE  \/ UNCHANGED vars
         \/ \E w \in Workers : StepOf(w)
         \/ \E u \in Readers : LoadHistory(u)
<1>1. CASE \E w \in Workers : Statement(w)
  BY <1>1, StatementKinds DEF PlansKept
<1>2. CASE \E w \in Workers, u \in Users :
              ContactRequest(w, u) \/ SendRequest(w, u) \/ CreateRequest(w, u)
  BY <1>2, RequestKinds
<1>. QED  BY <1>1, <1>2 DEF Next

-----------------------------------------------------------------------------
(* The discipline of the plans.                                             *)

\* The first statement is done, and left what the others rely on.
LEMMA TailDiscipline ==
  ASSUME NEW t, NEW t2, NEW R, NEW s, t.todo \in Seq(Statements), t.todo # <<>>,
         s = Head(t.todo), t2.todo = Tail(t.todo), t2.op = t.op, t2.plan = t.plan,
         t.holds \subseteq t2.holds, t.put \subseteq t2.put,
         s.kind \in {"lock", "require"} => s.row \in t2.holds,
         s.kind = "require" /\ t.op = "send" => s.row \in R,
         s.kind = "insert" => s.row \in t2.holds /\ s.row \in R \cup t2.put,
         \A n \in 1..Len(t.todo) : Disciplined(t, R, n)
  PROVE  \A n \in 1..Len(t2.todo) : Disciplined(t2, R, n)
<1>. DEFINE p == t.todo
            q == t2.todo
<1>1. /\ Len(p) \in Nat /\ Len(q) = Len(p) - 1 /\ s = p[1]
      /\ \A n \in 1..Len(q) : n + 1 \in 1..Len(p) /\ q[n] = p[n + 1]
  OBVIOUS
<1>. HIDE DEF p, q
<1>2. SUFFICES ASSUME NEW n \in 1..Len(q) PROVE Disciplined(t2, R, n)
  BY DEF q
<1>3. n + 1 \in 1..Len(p) /\ q[n] = p[n + 1] /\ n \in Nat
  BY <1>1
<1>4. Disciplined(t, R, n + 1)
  BY <1>3 DEF p
<1>5. ASSUME NEW m \in 1..((n + 1) - 1), m # 1
      PROVE  m - 1 \in 1..(n - 1) /\ q[m - 1] = p[m]
  <2>1. m - 1 \in 1..(n - 1) /\ m - 1 \in 1..Len(q) /\ (m - 1) + 1 = m
    BY <1>1, <1>3, <1>5
  <2>. QED  BY <1>1, <2>1
<1>6. ASSUME NEW r, Locks(p, n + 1, r) PROVE r \in t2.holds \/ Locks(q, n, r)
  <2>1. PICK m \in 1..((n + 1) - 1) : p[m].kind \in {"lock", "require"} /\ p[m].row = r
    BY <1>6 DEF Locks
  <2>2. CASE m = 1
    BY <1>1, <2>1, <2>2
  <2>3. CASE m # 1
    BY <1>5, <2>1, <2>3 DEF Locks
  <2>. QED  BY <2>2, <2>3
<1>7. ASSUME NEW r, Requires(p, n + 1, r), t.op = "send"
      PROVE  r \in t2.holds \cap R \/ Requires(q, n, r)
  <2>1. PICK m \in 1..((n + 1) - 1) : p[m].kind = "require" /\ p[m].row = r
    BY <1>7 DEF Requires
  <2>2. CASE m = 1
    BY <1>1, <1>7, <2>1, <2>2
  <2>3. CASE m # 1
    BY <1>5, <2>1, <2>3 DEF Requires
  <2>. QED  BY <2>2, <2>3
<1>8. ASSUME NEW r, Inserts(p, n + 1, r)
      PROVE  (r \in t2.holds /\ r \in R \cup t2.put) \/ Inserts(q, n, r)
  <2>1. PICK m \in 1..((n + 1) - 1) : p[m].kind = "insert" /\ p[m].row = r
    BY <1>8 DEF Inserts
  <2>2. CASE m = 1
    BY <1>1, <2>1, <2>2
  <2>3. CASE m # 1
    BY <1>5, <2>1, <2>3 DEF Inserts
  <2>. QED  BY <2>2, <2>3
<1>9. PICK k : k = n + 1
  OBVIOUS
<1>10. /\ p = t.todo /\ q = t2.todo /\ q[n] = p[k] /\ Disciplined(t, R, k)
       /\ \A r : Locks(p, k, r) => r \in t2.holds \/ Locks(q, n, r)
       /\ t.op = "send" => \A r : Requires(p, k, r) => r \in t2.holds \cap R \/ Requires(q, n, r)
       /\ \A r : Inserts(p, k, r) => (r \in t2.holds /\ r \in R \cup t2.put) \/ Inserts(q, n, r)
  BY <1>3, <1>4, <1>6, <1>7, <1>8, <1>9 DEF p, q
<1>11. PICK x : x = p[k]
  OBVIOUS
<1>12. x = t.todo[k] /\ x = t2.todo[n]
  BY <1>10, <1>11
<1>13. ASSUME x.kind = "insert"
       PROVE  /\ t2.op # "send" /\ (x.row \in t2.holds \/ Locks(q, n, x.row))
              /\ x.row \in FriendRows => Accepts(t2.plan)
  BY <1>10, <1>12, <1>13 DEF Disciplined
<1>14. ASSUME x.kind = "delete"
       PROVE  /\ t2.plan = DeleteFriend
              /\ \A r \in Row \ {ChatRow} : r \in t2.holds \/ Locks(q, n, r)
  BY <1>10, <1>12, <1>14 DEF Disciplined
<1>15. ASSUME x.kind = "store"
       PROVE  /\ t2.op = "send"
              /\ \A r \in {ChatRow, FriendRow(x.sender)} :
                    r \in t2.holds \cap R \/ Requires(q, n, r)
  <2>1. /\ t.op = "send"
        /\ \A r \in {ChatRow, FriendRow(x.sender)} :
              r \in t.holds \cap R \/ Requires(p, k, r)
    BY <1>10, <1>12, <1>15 DEF Disciplined
  <2>. QED  BY <1>10, <2>1
<1>16. ASSUME x.kind = "greet"
       PROVE  \/ ChatRow \in t2.holds /\ ChatRow \in R \cup t2.put
              \/ Inserts(q, n, ChatRow)
  BY <1>10, <1>12, <1>16 DEF Disciplined
<1>. QED  BY <1>10, <1>12, <1>13, <1>14, <1>15, <1>16 DEF Disciplined

\* Others commit, but what the transaction holds stays.
LEMMA HeldDiscipline ==
  ASSUME NEW t, NEW R, NEW R2, NEW n, t.holds \cap R \subseteq R2, Disciplined(t, R, n)
  PROVE  Disciplined(t, R2, n)
  BY DEF Disciplined

\* What the statement at hand relies on holds now.
LEMMA FirstDiscipline ==
  ASSUME TxTypes, PlansKept, NEW w \in Workers, tx[w].todo # <<>>, NEW s, s = Head(tx[w].todo)
  PROVE  /\ s.kind = "insert" =>
               /\ tx[w].op # "send" /\ s.row \in tx[w].holds
               /\ s.row \in FriendRows => Accepts(tx[w].plan)
         /\ s.kind = "delete" => tx[w].plan = DeleteFriend /\ Row \ {ChatRow} \subseteq tx[w].holds
         /\ s.kind = "store" =>
               /\ tx[w].op = "send" /\ ChatRow \in tx[w].holds \cap rows
               /\ FriendRow(s.sender) \in tx[w].holds \cap rows
         /\ s.kind = "greet" => ChatRow \in tx[w].holds /\ ChatRow \in rows \cup tx[w].put
<1>1. tx[w].todo \in Seq(Statements)
  BY DEF TxTypes, Transactions
<1>2. 1 \in 1..Len(tx[w].todo) /\ s = tx[w].todo[1]
  BY <1>1
<1>3. Disciplined(tx[w], rows, 1)
  BY <1>2 DEF PlansKept
<1>4. \A p, r : ~Locks(p, 1, r) /\ ~Requires(p, 1, r) /\ ~Inserts(p, 1, r)
  BY DEF Locks, Requires, Inserts
<1>. QED  BY <1>2, <1>3, <1>4 DEF Disciplined

LEMMA TodoType ==
  ASSUME TxTypes, NEW w \in Workers
  PROVE  tx[w].todo \in Seq(Statements)
  BY DEF TxTypes, Transactions

\* A statement was done: what it had to leave for the discipline.
LEMMA AdvancePlans ==
  ASSUME TxTypes, PlansKept, NEW w \in Workers, NEW s, Advances(w, s), rows' = rows,
         tx[w].holds \subseteq tx'[w].holds, tx[w].put \subseteq tx'[w].put,
         s.kind \in {"lock", "require"} => s.row \in tx'[w].holds,
         s.kind = "require" /\ tx[w].op = "send" => s.row \in rows,
         s.kind = "insert" => s.row \in tx'[w].holds /\ s.row \in rows \cup tx'[w].put
  PROVE  PlansKept'
<1>1. PICK t, t2 : t = tx[w] /\ t2 = tx'[w]
  OBVIOUS
<1>2. /\ t.todo # <<>> /\ s = Head(t.todo) /\ t2.todo = Tail(t.todo)
      /\ t2.op = t.op /\ t2.plan = t.plan
      /\ \A v \in Workers \ {w} : tx'[v] = tx[v]
  BY <1>1 DEF Advances
<1>3. t.todo \in Seq(Statements)
  BY <1>1, TodoType
<1>4. PlanOf(t.op, t.plan) /\ \A n \in 1..Len(t.todo) : Disciplined(t, rows, n)
  BY <1>1 DEF PlansKept
<1>5. \A n \in 1..Len(t2.todo) : Disciplined(t2, rows, n)
  BY <1>1, <1>2, <1>3, <1>4, TailDiscipline
<1>6. PlanOf(t2.op, t2.plan)
  BY <1>2, <1>4
<1>7. ASSUME NEW v \in Workers
      PROVE  /\ PlanOf(tx'[v].op, tx'[v].plan)
             /\ \A n \in 1..Len(tx'[v].todo) : Disciplined(tx'[v], rows', n)
  <2>1. CASE v = w
    BY <1>1, <1>5, <1>6, <2>1
  <2>2. CASE v # w
    BY <1>2, <2>2 DEF PlansKept
  <2>. QED  BY <2>1, <2>2
<1>. QED  BY <1>7 DEF PlansKept

\* What a committing transaction removes nobody else holds.
LEMMA HeldStays ==
  ASSUME LocksExclude, ChangesAreLocked, NEW v \in Workers, NEW w \in Workers, v # w
  PROVE  tx[v].holds \cap rows \subseteq View(w)
<1>1. ASSUME NEW r \in tx[v].holds, r \in rows, r \in tx[w].drop PROVE FALSE
  <2>1. r \in tx[w].holds
    BY <1>1 DEF ChangesAreLocked
  <2>2. r \in Present
    BY <1>1 DEF Present
  <2>. QED  BY <1>1, <2>1, <2>2 DEF LocksExclude
<1>. QED  BY <1>1 DEF View

\* The transaction of w is new, and the others keep the rows they hold.
LEMMA RefreshPlans ==
  ASSUME TxTypes, PlansKept, NEW w \in Workers, Refreshes(w),
         \A v \in Workers \ {w} : tx[v].holds \cap rows \subseteq rows'
  PROVE  PlansKept'
<1>1. ASSUME NEW v \in Workers
      PROVE  /\ PlanOf(tx'[v].op, tx'[v].plan)
             /\ \A n \in 1..Len(tx'[v].todo) : Disciplined(tx'[v], rows', n)
  <2>1. CASE v = w
    <3>1. PICK t : t = tx'[w]
      OBVIOUS
    <3>2. t.todo = t.plan /\ PlanOf(t.op, t.plan)
      BY <3>1 DEF Refreshes, Fresh
    <3>3. \A n \in 1..Len(t.todo) : Disciplined(t, rows', n)
      BY <3>2, PlanDiscipline
    <3>. QED  BY <2>1, <3>1, <3>2, <3>3
  <2>2. CASE v # w
    <3>1. tx'[v] = tx[v] /\ tx[v].holds \cap rows \subseteq rows'
      BY <2>2 DEF Refreshes
    <3>2. PlanOf(tx[v].op, tx[v].plan) /\ \A n \in 1..Len(tx[v].todo) : Disciplined(tx[v], rows, n)
      BY DEF PlansKept
    <3>3. \A n \in 1..Len(tx[v].todo) : Disciplined(tx[v], rows', n)
      BY <3>1, <3>2, HeldDiscipline
    <3>. QED  BY <3>1, <3>2, <3>3
  <2>. QED  BY <2>1, <2>2
<1>. QED  BY <1>1 DEF PlansKept

\* The discipline is kept.
LEMMA PlansStay ==
  ASSUME TxTypes, PlansKept, LocksExclude, ChangesAreLocked, NEW w \in Workers, StepOf(w)
  PROVE  PlansKept'
<1>1. CASE RolledBack(w) \/ Begun(w)
  <2>1. Refreshes(w) /\ rows' = rows
    BY <1>1 DEF RolledBack, Begun, Quiet
  <2>. QED  BY <2>1, RefreshPlans
<1>2. CASE Committed(w)
  <2>1. Refreshes(w) /\ rows' = View(w)
    BY <1>2 DEF Committed, Apply
  <2>. QED  BY <2>1, HeldStays, RefreshPlans
<1>3. CASE Skipped(w)
  <2>1. /\ tx'[w].todo = <<>> /\ tx'[w].op = tx[w].op /\ tx'[w].plan = tx[w].plan
        /\ \A v \in Workers \ {w} : tx'[v] = tx[v] /\ rows' = rows
    BY <1>3 DEF Skipped, Quiet
  <2>2. ASSUME NEW v \in Workers
        PROVE  /\ PlanOf(tx'[v].op, tx'[v].plan)
               /\ \A n \in 1..Len(tx'[v].todo) : Disciplined(tx'[v], rows', n)
    <3>1. CASE v = w
      <4>1. 1..Len(tx'[w].todo) = {}
        BY <2>1
      <4>. QED  BY <2>1, <3>1, <4>1 DEF PlansKept
    <3>2. CASE v # w
      BY <2>1, <3>2 DEF PlansKept
    <3>. QED  BY <3>1, <3>2
  <2>. QED  BY <2>2 DEF PlansKept
<1>4. ASSUME NEW s, Locked(w, s) PROVE PlansKept'
  <2>1. /\ Advances(w, s) /\ rows' = rows /\ s.kind \in {"lock", "require"}
        /\ tx'[w].holds = tx[w].holds \cup {s.row} /\ tx'[w].put = tx[w].put
        /\ s.kind = "require" => s.row \in View(w)
    BY <1>4 DEF Locked, Quiet, Keeps
  <2>2. s.kind = "require" /\ tx[w].op = "send" => s.row \in rows
    BY <2>1 DEF View, ChangesAreLocked
  <2>. QED  BY <2>1, <2>2, AdvancePlans
<1>5. ASSUME NEW s, Inserted(w, s) PROVE PlansKept'
  <2>1. /\ Advances(w, s) /\ rows' = rows /\ s.kind = "insert"
        /\ tx'[w].holds = tx[w].holds \cup {s.row}
        /\ tx'[w].put = tx[w].put \cup ({s.row} \ View(w))
    BY <1>5 DEF Inserted, Quiet
  <2>2. s.row \in rows \cup tx'[w].put
    BY <2>1 DEF View
  <2>3. s.row \in tx'[w].holds /\ tx[w].holds \subseteq tx'[w].holds /\ tx[w].put \subseteq tx'[w].put
    BY <2>1
  <2>. QED  BY <2>1, <2>2, <2>3, AdvancePlans
<1>6. ASSUME NEW s, NEW m, Deleted(w, s) \/ Checked(w, s) \/ Written(w, s, m) \/ Found(w, s, m)
      PROVE  PlansKept'
  <2>1. /\ Advances(w, s) /\ rows' = rows /\ s.kind \notin {"lock", "require", "insert"}
        /\ tx'[w].holds = tx[w].holds /\ tx'[w].put = tx[w].put
    BY <1>6 DEF Deleted, Checked, Written, Found, Quiet, Keeps
  <2>. QED  BY <2>1, AdvancePlans
<1>. QED  BY <1>1, <1>2, <1>3, <1>4, <1>5, <1>6 DEF StepOf

-----------------------------------------------------------------------------
(* The locks.                                                               *)

LEMMA PresentRows ==
  /\ \A r : r \in Present <=> r \in rows \/ \E w \in Workers : r \in tx[w].put
  /\ \A r : r \in Present' <=> r \in rows' \/ \E w \in Workers : r \in tx'[w].put
  BY DEF Present

\* Locks exclude each other.
LEMMA LocksStay ==
  ASSUME TxTypes, PlansKept, LocksExclude, ChangesAreLocked, NEW w \in Workers, StepOf(w)
  PROVE  LocksExclude'
<1>1. ASSUME \A v \in Workers \ {w} : tx'[v] = tx[v], Present' \subseteq Present,
             tx'[w].holds \subseteq tx[w].holds
      PROVE  LocksExclude'
  <2>1. \A v \in Workers : tx'[v].holds \subseteq tx[v].holds
    BY <1>1
  <2>2. ASSUME NEW v \in Workers, NEW x \in Workers, NEW r \in tx'[v].holds \cap tx'[x].holds, v # x
        PROVE  r \notin Present'
    <3>1. r \in tx[v].holds \cap tx[x].holds
      BY <2>1
    <3>. QED  BY <1>1, <2>2, <3>1 DEF LocksExclude
  <2>. QED  BY <2>2 DEF LocksExclude
<1>2. ASSUME \A v \in Workers \ {w} : tx'[v] = tx[v], rows' \subseteq rows \cup tx[w].put,
             tx'[w].put \subseteq tx[w].put
      PROVE  Present' \subseteq Present
  <2>1. ASSUME NEW r \in Present' PROVE r \in Present
    <3>1. r \in rows' \/ \E v \in Workers : r \in tx'[v].put
      BY PresentRows
    <3>2. r \in rows \/ \E v \in Workers : r \in tx[v].put
      BY <1>2, <3>1
    <3>. QED  BY <3>2, PresentRows
  <2>. QED  BY <2>1
<1>3. CASE RolledBack(w) \/ Begun(w) \/ Committed(w)
  <2>1. Refreshes(w) /\ rows' \subseteq rows \cup tx[w].put
    BY <1>3 DEF RolledBack, Begun, Committed, Quiet, Apply, View
  <2>2. /\ \A v \in Workers \ {w} : tx'[v] = tx[v]
        /\ tx'[w].put = {} /\ tx'[w].holds = {}
    BY <2>1 DEF Refreshes, Fresh
  <2>. QED  BY <1>1, <1>2, <2>1, <2>2
<1>4. ASSUME NEW s, NEW m,
             Skipped(w) \/ Deleted(w, s) \/ Checked(w, s) \/ Written(w, s, m) \/ Found(w, s, m)
      PROVE  LocksExclude'
  <2>1. /\ \A v \in Workers \ {w} : tx'[v] = tx[v] /\ rows' = rows
        /\ tx'[w].put = tx[w].put /\ tx'[w].holds = tx[w].holds
    BY <1>4 DEF Skipped, Deleted, Checked, Written, Found, Quiet, Keeps, Advances
  <2>2. rows' = rows
    BY <1>4 DEF Skipped, Deleted, Checked, Written, Found, Quiet
  <2>. QED  BY <1>1, <1>2, <2>1, <2>2
<1>5. ASSUME NEW s, Locked(w, s) PROVE LocksExclude'
  <2>1. /\ \A v \in Workers \ {w} : tx'[v] = tx[v]
        /\ rows' = rows /\ tx'[w].put = tx[w].put
        /\ tx'[w].holds = tx[w].holds \cup {s.row}
        /\ s.row \in Present => ~HeldByOther(w, s.row)
    BY <1>5 DEF Locked, Quiet, Keeps, Advances
  <2>2. Present' \subseteq Present
    BY <1>2, <2>1
  <2>3. ASSUME NEW v \in Workers \ {w}, NEW r \in tx'[v].holds \cap tx'[w].holds
        PROVE  r \notin Present
    <3>1. r \in tx[v].holds /\ (r \in tx[w].holds \/ r = s.row)
      BY <2>1
    <3>2. CASE r = s.row
      BY <2>1, <3>1, <3>2 DEF HeldByOther
    <3>3. CASE r \in tx[w].holds
      BY <3>1, <3>3 DEF LocksExclude
    <3>. QED  BY <3>1, <3>2, <3>3
  <2>4. ASSUME NEW v \in Workers, NEW x \in Workers, NEW r \in tx'[v].holds \cap tx'[x].holds, v # x
        PROVE  r \notin Present'
    <3>1. CASE v = w \/ x = w
      BY <2>2, <2>3, <2>4, <3>1
    <3>2. CASE v # w /\ x # w
      <4>1. r \in tx[v].holds \cap tx[x].holds
        BY <2>1, <3>2
      <4>. QED  BY <2>2, <2>4, <4>1 DEF LocksExclude
    <3>. QED  BY <3>1, <3>2
  <2>. QED  BY <2>4 DEF LocksExclude
<1>6. ASSUME NEW s, Inserted(w, s) PROVE LocksExclude'
  <2>1. /\ \A v \in Workers \ {w} : tx'[v] = tx[v]
        /\ rows' = rows /\ tx'[w].put = tx[w].put \cup ({s.row} \ View(w))
        /\ tx'[w].holds = tx[w].holds \cup {s.row}
        /\ s.row \notin View(w) => ~HeldByOther(w, s.row)
        /\ tx[w].todo # <<>> /\ s = Head(tx[w].todo) /\ s.kind = "insert"
    BY <1>6 DEF Inserted, Quiet, Advances
  <2>2. s.row \in tx[w].holds
    BY <2>1, FirstDiscipline
  <2>3. \A v \in Workers : tx'[v].holds = tx[v].holds
    BY <2>1, <2>2
  <2>4. ASSUME NEW r \in Present' PROVE r \in Present \/ (r = s.row /\ s.row \notin View(w))
    <3>1. r \in rows' \/ \E v \in Workers : r \in tx'[v].put
      BY PresentRows
    <3>2. \/ r \in rows \/ \E v \in Workers : r \in tx[v].put
          \/ r = s.row /\ s.row \notin View(w)
      BY <2>1, <3>1
    <3>3. (r \in rows \/ \E v \in Workers : r \in tx[v].put) => r \in Present
      BY PresentRows
    <3>. QED  BY <3>2, <3>3
  <2>5. ASSUME NEW v \in Workers, NEW x \in Workers, NEW r \in tx'[v].holds \cap tx'[x].holds, v # x,
               r \in Present'
        PROVE  FALSE
    <3>1. r \in tx[v].holds /\ r \in tx[x].holds
      BY <2>3
    <3>2. r \notin Present
      BY <2>5, <3>1 DEF LocksExclude
    <3>3. r = s.row /\ ~HeldByOther(w, s.row)
      BY <2>1, <2>4, <2>5, <3>2
    <3>. QED  BY <2>5, <3>1, <3>3 DEF HeldByOther
  <2>. QED  BY <2>5 DEF LocksExclude
<1>. QED  BY <1>3, <1>4, <1>5, <1>6 DEF StepOf

\* What is changed is locked.
LEMMA ChangesStay ==
  ASSUME TxTypes, PlansKept, ChangesAreLocked, NEW w \in Workers, StepOf(w)
  PROVE  ChangesAreLocked'
<1>. DEFINE Changes(t) ==
              /\ t.put \subseteq t.holds /\ t.drop \subseteq t.holds
              /\ ChatRow \notin t.drop
              /\ t.op = "send" => t.put = {}
              /\ t.put \cap FriendRows # {} => Accepts(t.plan)
              /\ t.drop # {} => t.plan = DeleteFriend
<1>1. \A v \in Workers : Changes(tx[v])
  BY DEF ChangesAreLocked
<1>2. \A v \in Workers \ {w} : tx'[v] = tx[v]
  BY DEF StepOf, RolledBack, Begun, Committed, Skipped, Locked, Inserted, Deleted, Checked,
         Written, Found, Refreshes, Advances
<1>3. SUFFICES Changes(tx'[w])
  <2>1. ASSUME NEW v \in Workers PROVE Changes(tx'[v])
    <3>1. CASE v = w
      BY <1>3, <3>1
    <3>2. CASE v # w
      <4>1. tx'[v] = tx[v] /\ Changes(tx[v])
        BY <1>1, <1>2, <3>2
      <4>. HIDE DEF Changes
      <4>. QED  BY <4>1
    <3>. QED  BY <3>1, <3>2
  <2>. QED  BY <2>1 DEF ChangesAreLocked
<1>4. CASE RolledBack(w) \/ Begun(w) \/ Committed(w)
  <2>1. tx'[w].put = {} /\ tx'[w].drop = {}
    BY <1>4 DEF RolledBack, Begun, Committed, Refreshes, Fresh
  <2>. QED  BY <2>1
<1>5. ASSUME NEW s, NEW m,
             Skipped(w) \/ Locked(w, s) \/ Checked(w, s) \/ Written(w, s, m) \/ Found(w, s, m)
      PROVE  Changes(tx'[w])
  <2>1. /\ tx'[w].op = tx[w].op /\ tx'[w].plan = tx[w].plan
        /\ tx'[w].put = tx[w].put /\ tx'[w].drop = tx[w].drop
        /\ tx[w].holds \subseteq tx'[w].holds
    BY <1>5 DEF Skipped, Locked, Checked, Written, Found, Keeps, Advances
  <2>. QED  BY <1>1, <2>1
<1>6. ASSUME NEW s, Inserted(w, s) PROVE Changes(tx'[w])
  <2>1. /\ tx'[w].op = tx[w].op /\ tx'[w].plan = tx[w].plan
        /\ tx'[w].put = tx[w].put \cup ({s.row} \ View(w)) /\ tx'[w].drop = tx[w].drop
        /\ tx'[w].holds = tx[w].holds \cup {s.row}
        /\ tx[w].todo # <<>> /\ s = Head(tx[w].todo) /\ s.kind = "insert"
    BY <1>6 DEF Inserted, Advances
  <2>2. tx[w].op # "send" /\ (s.row \in FriendRows => Accepts(tx[w].plan))
    BY <2>1, FirstDiscipline
  <2>3. tx'[w].put \subseteq tx[w].put \cup {s.row}
    BY <2>1
  <2>4. tx'[w].put \cap FriendRows # {} => Accepts(tx[w].plan)
    BY <1>1, <2>2, <2>3
  <2>. QED  BY <1>1, <2>1, <2>2, <2>3, <2>4
<1>7. ASSUME NEW s, Deleted(w, s) PROVE Changes(tx'[w])
  <2>1. /\ tx'[w].op = tx[w].op /\ tx'[w].plan = tx[w].plan
        /\ tx'[w].put = tx[w].put /\ tx'[w].drop = Row \ {ChatRow}
        /\ tx'[w].holds = tx[w].holds
        /\ tx[w].todo # <<>> /\ s = Head(tx[w].todo) /\ s.kind = "delete"
    BY <1>7 DEF Deleted, Advances
  <2>2. tx[w].plan = DeleteFriend /\ Row \ {ChatRow} \subseteq tx[w].holds
    BY <2>1, FirstDiscipline
  <2>. QED  BY <1>1, <2>1, <2>2
<1>. QED  BY <1>4, <1>5, <1>6, <1>7 DEF StepOf

\* Writers have locked the conversation, and a sender his friend row.
LEMMA WritersStay ==
  ASSUME TxTypes, PlansKept, LocksExclude, ChangesAreLocked, WritersHoldChat,
         NEW w \in Workers, StepOf(w)
  PROVE  WritersHoldChat'
<1>. DEFINE Writer(t, R) ==
              /\ t.new # {} => ChatRow \in t.holds /\ ChatRow \in R \cup t.put
              /\ \A m \in t.new : m.uuid # NoUuid => FriendRow(m.sender) \in t.holds \cap R
<1>1. \A v \in Workers : Writer(tx[v], rows)
  BY DEF WritersHoldChat
<1>2. \A v \in Workers \ {w} : tx'[v] = tx[v]
  BY DEF StepOf, RolledBack, Begun, Committed, Skipped, Locked, Inserted, Deleted, Checked,
         Written, Found, Refreshes, Advances
<1>3. ASSUME NEW v \in Workers \ {w} PROVE tx[v].holds \cap rows \subseteq rows'
  <2>1. CASE Committed(w)
    <3>1. rows' = View(w)
      BY <2>1 DEF Committed, Apply
    <3>. QED  BY <3>1, HeldStays
  <2>2. CASE ~Committed(w)
    BY <2>2 DEF StepOf, RolledBack, Begun, Skipped, Locked, Inserted, Deleted, Checked,
                Written, Found, Quiet
  <2>. QED  BY <2>1, <2>2
<1>4. ASSUME NEW v \in Workers \ {w} PROVE Writer(tx'[v], rows')
  <2>1. PICK t : t = tx[v]
    OBVIOUS
  <2>2. tx'[v] = t /\ Writer(t, rows) /\ t.holds \cap rows \subseteq rows'
    BY <1>1, <1>2, <1>3, <2>1
  <2>3. Writer(t, rows')
    BY <2>2
  <2>. HIDE DEF Writer
  <2>. QED  BY <2>2, <2>3
<1>5. SUFFICES Writer(tx'[w], rows')
  <2>1. \A v \in Workers : Writer(tx'[v], rows')
    BY <1>4, <1>5
  <2>. QED  BY <2>1 DEF WritersHoldChat
<1>6. CASE RolledBack(w) \/ Begun(w) \/ Committed(w)
  <2>1. tx'[w].new = {}
    BY <1>6 DEF RolledBack, Begun, Committed, Refreshes, Fresh
  <2>. QED  BY <2>1
<1>7. ASSUME NEW s, NEW m,
             \/ Skipped(w) \/ Locked(w, s) \/ Inserted(w, s) \/ Deleted(w, s) \/ Checked(w, s)
             \/ Found(w, s, m)
      PROVE  Writer(tx'[w], rows')
  <2>1. /\ tx'[w].new = tx[w].new /\ rows' = rows
        /\ tx[w].put \subseteq tx'[w].put /\ tx[w].holds \subseteq tx'[w].holds
    BY <1>7 DEF Skipped, Locked, Inserted, Deleted, Checked, Found, Keeps, Quiet
  <2>. QED  BY <1>1, <2>1
<1>8. ASSUME NEW s, NEW m, Written(w, s, m) PROVE Writer(tx'[w], rows')
  <2>1. /\ tx'[w].new = tx[w].new \cup {m} /\ rows' = rows
        /\ tx'[w].put = tx[w].put /\ tx'[w].holds = tx[w].holds
        /\ tx[w].todo # <<>> /\ s = Head(tx[w].todo)
        /\ \/ s.kind = "greet" /\ m.uuid = NoUuid
           \/ s.kind = "store" /\ m.sender = s.sender
    BY <1>8 DEF Written, Quiet, Advances
  <2>2. /\ s.kind = "store" => /\ ChatRow \in tx[w].holds \cap rows
                               /\ FriendRow(s.sender) \in tx[w].holds \cap rows
        /\ s.kind = "greet" => ChatRow \in tx[w].holds /\ ChatRow \in rows \cup tx[w].put
    BY <2>1, FirstDiscipline
  <2>3. ChatRow \in tx[w].holds /\ ChatRow \in rows \cup tx[w].put
    BY <2>1, <2>2
  <2>4. m.uuid # NoUuid => FriendRow(m.sender) \in tx[w].holds \cap rows
    BY <2>1, <2>2
  <2>. QED  BY <1>1, <2>1, <2>3, <2>4
<1>. QED  BY <1>6, <1>7, <1>8 DEF StepOf

-----------------------------------------------------------------------------
(* The messages.                                                            *)

\* At most one transaction has messages to commit.
LEMMA OneWriter ==
  ASSUME LocksExclude, WritersHoldChat, NEW v \in Workers, NEW w \in Workers, v # w
  PROVE  tx[v].new = {} \/ tx[w].new = {}
<1>1. SUFFICES ASSUME tx[v].new # {}, tx[w].new # {} PROVE FALSE
  OBVIOUS
<1>2. ChatRow \in tx[v].holds \cap tx[w].holds /\ (ChatRow \in rows \/ ChatRow \in tx[v].put)
  BY <1>1 DEF WritersHoldChat
<1>3. ChatRow \in Present
  BY <1>2, PresentRows
<1>. QED  BY <1>2, <1>3 DEF LocksExclude

\* Identifiers and messages stay unique and come in the order of the commits.
LEMMA OrderStays ==
  ASSUME TxTypes, TableTypes, LocksExclude, WritersHoldChat, MessagesInOrder,
         NEW w \in Workers, StepOf(w)
  PROVE  MessagesInOrder'
<1>. DEFINE Ordered(N, M, k) ==
              /\ IsFiniteSet(N) /\ Unique(M \cup N)
              /\ \A m \in N : m.id < k /\ 0 < m.id /\ \A f \in M : f.id < m.id
            Log(M, k) == IsFiniteSet(M) /\ Unique(M) /\ \A m \in M : 0 < m.id /\ m.id < k
<1>1. Log(messages, nextId) /\ \A v \in Workers : Ordered(tx[v].new, messages, nextId)
  BY DEF MessagesInOrder
<1>2. \A v \in Workers \ {w} : tx'[v] = tx[v]
  BY DEF StepOf, RolledBack, Begun, Committed, Skipped, Locked, Inserted, Deleted, Checked,
         Written, Found, Refreshes, Advances
<1>3. SUFFICES Log(messages', nextId') /\ \A v \in Workers : Ordered(tx'[v].new, messages', nextId')
  BY DEF MessagesInOrder
<1>4. ASSUME Log(messages, nextId) PROVE Ordered({}, messages, nextId)
  <2>1. messages \cup {} = messages
    OBVIOUS
  <2>2. IsFiniteSet({})
    BY FS_EmptySet
  <2>. QED  BY <1>4, <2>1, <2>2
<1>5. CASE RolledBack(w) \/ Begun(w)
  <2>1. tx'[w].new = {} /\ messages' = messages /\ nextId' = nextId
    BY <1>5 DEF RolledBack, Begun, Refreshes, Fresh, Quiet
  <2>. HIDE DEF Ordered, Log
  <2>2. Ordered(tx'[w].new, messages, nextId)
    BY <1>1, <1>4, <2>1
  <2>. QED  BY <1>1, <1>2, <2>1, <2>2
<1>6. ASSUME NEW s, NEW m,
             \/ Skipped(w) \/ Locked(w, s) \/ Inserted(w, s) \/ Deleted(w, s) \/ Checked(w, s)
             \/ Found(w, s, m)
      PROVE  Log(messages', nextId') /\ \A v \in Workers : Ordered(tx'[v].new, messages', nextId')
  <2>1. tx'[w].new = tx[w].new /\ messages' = messages /\ nextId' = nextId
    BY <1>6 DEF Skipped, Locked, Inserted, Deleted, Checked, Found, Keeps, Quiet
  <2>2. \A v \in Workers : tx'[v].new = tx[v].new
    BY <1>2, <2>1
  <2>. HIDE DEF Ordered, Log
  <2>. QED  BY <1>1, <2>1, <2>2
<1>7. CASE Committed(w)
  <2>1. tx'[w].new = {} /\ messages' = messages \cup tx[w].new /\ nextId' = nextId
    BY <1>7 DEF Committed, Refreshes, Fresh, Apply
  <2>2. Log(messages', nextId')
    <3>1. IsFiniteSet(messages')
      BY <1>1, <2>1, FS_Union
    <3>. QED  BY <1>1, <2>1, <3>1
  <2>3. ASSUME NEW v \in Workers PROVE Ordered(tx'[v].new, messages', nextId')
    <3>1. CASE tx[w].new = {}
      <4>1. messages' = messages
        BY <2>1, <3>1
      <4>2. tx'[v].new = tx[v].new
        BY <1>2, <2>1, <3>1
      <4>. HIDE DEF Ordered
      <4>. QED  BY <1>1, <2>1, <4>1, <4>2
    <3>2. CASE tx[w].new # {}
      <4>1. tx'[v].new = {}
        BY <1>2, <2>1, <3>2, OneWriter
      <4>2. messages' \cup {} = messages' /\ IsFiniteSet({})
        BY FS_EmptySet
      <4>. QED  BY <2>2, <4>1, <4>2
    <3>. QED  BY <3>1, <3>2
  <2>. QED  BY <2>2, <2>3
<1>8. ASSUME NEW s, NEW m, Written(w, s, m)
      PROVE  Log(messages', nextId') /\ \A v \in Workers : Ordered(tx'[v].new, messages', nextId')
  <2>1. /\ tx'[w].new = tx[w].new \cup {m} /\ messages' = messages /\ nextId' = nextId + 1
        /\ m \in Messages /\ m.id = nextId
        /\ \/ s.kind = "greet" /\ m.uuid = NoUuid
           \/ s.kind = "store" /\ m.sender = s.sender /\ m.uuid = s.uuid /\ Stored(w, s) = {}
    BY <1>8 DEF Written, Quiet
  <2>2. nextId \in Nat /\ 0 < nextId /\ messages \subseteq Messages
    BY DEF TableTypes
  <2>3. \A v \in Workers : tx[v].new \subseteq Messages
    BY DEF TxTypes, Transactions
  <2>4. \A e \in Messages : e.id \in Nat
    BY DEF Messages
  <2>5. Log(messages', nextId')
    BY <1>1, <2>1, <2>2, <2>4
  <2>6. ASSUME NEW v \in Workers, v # w PROVE Ordered(tx'[v].new, messages', nextId')
    <3>1. tx'[v].new = tx[v].new
      BY <1>2, <2>6
    <3>2. \A e \in tx[v].new : e.id \in Nat
      BY <2>3, <2>4
    <3>. QED  BY <1>1, <2>1, <2>2, <3>1, <3>2
  <2>7. ASSUME NEW e \in messages \cup tx[w].new
        PROVE  /\ e.id < nextId /\ e.id \in Nat
               /\ ~MessageOrder!SameMessage(e, m) /\ ~MessageOrder!SameMessage(m, e)
    <3>1. e.id < nextId /\ e.id \in Nat
      BY <1>1, <2>2, <2>3, <2>4
    <3>2. CASE m.uuid = NoUuid
      BY <3>1, <3>2 DEF MessageOrder!SameMessage
    <3>3. CASE m.sender = s.sender /\ m.uuid = s.uuid /\ Stored(w, s) = {}
      <4>1. ~(e.sender = s.sender /\ e.uuid = s.uuid)
        BY <3>3 DEF Stored
      <4>. QED  BY <3>1, <3>3, <4>1 DEF MessageOrder!SameMessage
    <3>. QED  BY <2>1, <3>2, <3>3
  <2>8. Unique(messages \cup tx[w].new)
    BY <1>1
  <2>9. Unique(messages \cup tx'[w].new)
    <3>1. ASSUME NEW e \in messages \cup tx'[w].new, NEW f \in messages \cup tx'[w].new, e # f
          PROVE  e.id # f.id /\ ~MessageOrder!SameMessage(e, f)
      <4>1. CASE e # m /\ f # m
        BY <2>1, <2>8, <3>1, <4>1 DEF Unique
      <4>2. CASE e = m
        BY <2>1, <2>2, <2>7, <3>1, <4>2
      <4>3. CASE f = m
        BY <2>1, <2>2, <2>7, <3>1, <4>3
      <4>. QED  BY <4>1, <4>2, <4>3
    <3>. QED  BY <3>1 DEF Unique
  <2>10. IsFiniteSet(tx'[w].new)
    BY <1>1, <2>1, FS_AddElement
  <2>11. ASSUME NEW e \in tx'[w].new
         PROVE  e.id < nextId' /\ 0 < e.id /\ \A f \in messages : f.id < e.id
    <3>1. CASE e = m
      BY <2>1, <2>2, <2>7, <3>1
    <3>2. CASE e \in tx[w].new
      <4>1. e.id < nextId /\ 0 < e.id /\ \A f \in messages : f.id < e.id
        BY <1>1, <3>2
      <4>. QED  BY <2>1, <2>2, <2>7, <3>2, <4>1
    <3>. QED  BY <2>1, <3>1, <3>2
  <2>12. Ordered(tx'[w].new, messages', nextId')
    BY <2>1, <2>9, <2>10, <2>11
  <2>. HIDE DEF Ordered, Log
  <2>. QED  BY <2>5, <2>6, <2>12
<1>. HIDE DEF Ordered, Log
<1>. QED  BY <1>5, <1>6, <1>7, <1>8 DEF StepOf

\* What is answered is stored.
LEMMA ResultsStay ==
  ASSUME ResultsAreStored, NEW w \in Workers, StepOf(w)
  PROVE  ResultsAreStored'
<1>1. \A v \in Workers \ {w} : tx'[v] = tx[v]
  BY DEF StepOf, RolledBack, Begun, Committed, Skipped, Locked, Inserted, Deleted, Checked,
         Written, Found, Refreshes, Advances
<1>2. messages \subseteq messages'
  BY DEF StepOf, RolledBack, Begun, Committed, Skipped, Locked, Inserted, Deleted, Checked,
         Written, Found, Quiet, Apply
<1>3. acked' \subseteq messages'
  <2>1. CASE Committed(w)
    <3>1. messages' = messages \cup tx[w].new /\ acked' \in {acked, acked \cup tx[w].result}
      BY <2>1 DEF Committed, Apply
    <3>. QED  BY <3>1 DEF ResultsAreStored
  <2>2. CASE ~Committed(w)
    <3>1. acked' = acked
      BY <2>2 DEF StepOf, RolledBack, Begun, Skipped, Locked, Inserted, Deleted, Checked,
                  Written, Found, Quiet
    <3>. QED  BY <1>2, <3>1 DEF ResultsAreStored
  <2>. QED  BY <2>1, <2>2
<1>4. tx'[w].result \subseteq messages' \cup tx'[w].new
  <2>1. CASE RolledBack(w) \/ Begun(w) \/ Committed(w)
    <3>1. tx'[w].result = {}
      BY <2>1 DEF RolledBack, Begun, Committed, Refreshes, Fresh
    <3>. QED  BY <3>1
  <2>2. ASSUME NEW s, NEW m,
               \/ Skipped(w) \/ Locked(w, s) \/ Inserted(w, s) \/ Deleted(w, s) \/ Checked(w, s)
        PROVE  tx'[w].result \subseteq messages' \cup tx'[w].new
    <3>1. tx'[w].result = tx[w].result /\ tx'[w].new = tx[w].new
      BY <2>2 DEF Skipped, Locked, Inserted, Deleted, Checked, Keeps
    <3>. QED  BY <1>2, <3>1 DEF ResultsAreStored
  <2>3. ASSUME NEW s, NEW m, Written(w, s, m) \/ Found(w, s, m)
        PROVE  tx'[w].result \subseteq messages' \cup tx'[w].new
    <3>1. /\ tx'[w].result = tx[w].result \cup {m} /\ tx[w].new \subseteq tx'[w].new
          /\ m \in messages \cup tx'[w].new
      BY <2>3 DEF Written, Found
    <3>. QED  BY <1>2, <3>1 DEF ResultsAreStored
  <2>. QED  BY <2>1, <2>2, <2>3 DEF StepOf
<1>5. ASSUME NEW v \in Workers PROVE tx'[v].result \subseteq messages' \cup tx'[v].new
  <2>1. CASE v = w
    BY <1>4, <2>1
  <2>2. CASE v # w
    BY <1>1, <1>2, <2>2 DEF ResultsAreStored
  <2>. QED  BY <2>1, <2>2
<1>. QED  BY <1>3, <1>5 DEF ResultsAreStored

-----------------------------------------------------------------------------
(* The readers.                                                             *)

\* A page ends where its last row is: all that is between is in it.
LEMMA PageIsNext ==
  ASSUME messages \subseteq Messages, IsFiniteSet(messages), NEW c \in Nat,
         NEW last \in Page(c), \A m \in Page(c) : m.id <= last.id
  PROVE  /\ last \in messages /\ c < last.id
         /\ {m \in messages : m.id <= last.id} = {m \in messages : m.id <= c} \cup Page(c)
<1>. DEFINE Between(k) == {n \in messages : c < n.id /\ n.id < k}
<1>1. \A m : m \in Page(c) <=> m \in messages /\ m.id > c /\ Cardinality(Between(m.id)) < PageSize
  BY DEF Page
<1>2. \A m \in messages : m.id \in Nat
  BY DEF Messages
<1>3. ASSUME NEW m \in messages, m.id <= last.id, c < m.id PROVE m \in Page(c)
  <2>1. last \in messages /\ Cardinality(Between(last.id)) < PageSize
    BY <1>1
  <2>2. m.id \in Nat /\ last.id \in Nat
    BY <1>2, <2>1
  <2>3. Between(m.id) \subseteq Between(last.id) /\ Between(last.id) \subseteq messages
    BY <1>2, <1>3, <2>2
  <2>. HIDE DEF Between
  <2>4. IsFiniteSet(Between(last.id))
    BY <2>3, FS_Subset
  <2>5. IsFiniteSet(Between(m.id)) /\ Cardinality(Between(m.id)) <= Cardinality(Between(last.id))
    BY <2>3, <2>4, FS_Subset
  <2>6. Cardinality(Between(m.id)) \in Nat /\ Cardinality(Between(last.id)) \in Nat
    BY <2>4, <2>5, FS_CardinalityType
  <2>7. Cardinality(Between(m.id)) < PageSize
    BY <2>1, <2>5, <2>6, DatabaseAssumption
  <2>. QED  BY <1>1, <1>3, <2>2, <2>7
<1>. HIDE DEF Between
<1>4. last \in messages /\ last.id \in Nat /\ c < last.id
  BY <1>1, <1>2
<1>5. ASSUME NEW m \in messages, m.id <= last.id PROVE m.id <= c \/ m \in Page(c)
  BY <1>2, <1>3, <1>5
<1>6. ASSUME NEW m \in messages, m.id <= c PROVE m.id <= last.id
  BY <1>2, <1>4, <1>6
<1>7. \A m \in Page(c) : m \in messages /\ m.id <= last.id
  BY <1>1
<1>. QED  BY <1>4, <1>5, <1>6, <1>7

\* A reader's page: the cursor it moves to and what the reader then has.
LEMMA ReadEffect ==
  ASSUME TableTypes, MessagesInOrder, ReadersHoldAll, NEW u \in Readers, LoadHistory(u)
  PROVE  \E last \in messages :
            /\ cursor' = [cursor EXCEPT ![u] = last.id]
            /\ received' = [received EXCEPT ![u] = {m \in messages : m.id <= last.id}]
            /\ received[u] \subseteq {m \in messages : m.id <= last.id}
<1>1. PICK last \in Page(cursor[u]) :
             /\ \A m \in Page(cursor[u]) : m.id <= last.id
             /\ cursor' = [cursor EXCEPT ![u] = last.id]
  BY DEF LoadHistory
<1>2. received' = [received EXCEPT ![u] = received[u] \cup Page(cursor[u])]
  BY DEF LoadHistory
<1>3. cursor[u] \in Nat /\ received[u] = {m \in messages : m.id <= cursor[u]}
  BY DEF ReadersHoldAll
<1>4. messages \subseteq Messages /\ IsFiniteSet(messages)
  BY DEF TableTypes, MessagesInOrder
<1>5. /\ last \in messages
      /\ {m \in messages : m.id <= last.id} = received[u] \cup Page(cursor[u])
  BY <1>1, <1>3, <1>4, PageIsNext
<1>. QED  BY <1>1, <1>2, <1>5

\* A reader holds all there is up to its cursor.
LEMMA ReadersStay ==
  ASSUME TableTypes, TxTypes, MessagesInOrder, ReadersHoldAll,
         \/ \E w \in Workers : StepOf(w)
         \/ \E u \in Readers : LoadHistory(u)
  PROVE  ReadersHoldAll'
<1>1. \A m \in messages : m.id \in Nat /\ m \in Messages
  BY DEF TableTypes, Messages
<1>2. ASSUME NEW w \in Workers, StepOf(w) PROVE ReadersHoldAll'
  <2>1. cursor' = cursor /\ received' = received
    BY <1>2 DEF StepOf, RolledBack, Begun, Committed, Skipped, Locked, Inserted, Deleted, Checked,
                Written, Found, Quiet
  <2>2. messages \subseteq messages' /\ messages' \subseteq messages \cup tx[w].new
    BY <1>2 DEF StepOf, RolledBack, Begun, Committed, Skipped, Locked, Inserted, Deleted, Checked,
                Written, Found, Quiet, Apply
  <2>3. /\ \A m \in tx[w].new : 0 < m.id /\ \A f \in messages : f.id < m.id
        /\ \A m \in tx[w].new : m.id \in Nat
    <3>1. \A m \in tx[w].new : 0 < m.id /\ \A f \in messages : f.id < m.id
      BY DEF MessagesInOrder
    <3>2. tx[w].new \subseteq Messages
      BY DEF TxTypes, Transactions
    <3>3. \A m \in Messages : m.id \in Nat
      BY DEF Messages
    <3>. QED  BY <3>1, <3>2, <3>3
  <2>4. ASSUME NEW u \in Readers
        PROVE  /\ received[u] = {m \in messages' : m.id <= cursor[u]}
               /\ cursor[u] = 0 \/ \E m \in messages' : m.id = cursor[u]
    <3>1. /\ received[u] = {m \in messages : m.id <= cursor[u]} /\ cursor[u] \in Nat
          /\ cursor[u] = 0 \/ \E m \in messages : m.id = cursor[u]
      BY DEF ReadersHoldAll
    <3>2. \A m \in tx[w].new : cursor[u] < m.id
      BY <2>3, <3>1
    <3>3. ASSUME NEW m \in messages', m.id <= cursor[u] PROVE m \in messages
      BY <2>2, <2>3, <3>1, <3>2, <3>3
    <3>. QED  BY <2>2, <3>1, <3>3
  <2>. QED  BY <2>1, <2>4 DEF ReadersHoldAll
<1>3. ASSUME NEW u \in Readers, LoadHistory(u) PROVE ReadersHoldAll'
  <2>1. PICK last \in messages :
            /\ cursor' = [cursor EXCEPT ![u] = last.id]
            /\ received' = [received EXCEPT ![u] = {m \in messages : m.id <= last.id}]
    BY <1>3, ReadEffect
  <2>2. messages' = messages
    BY <1>3 DEF LoadHistory
  <2>3. cursor \in [Readers -> Nat] /\ received \in [Readers -> SUBSET Messages]
    BY DEF ReadersHoldAll
  <2>4. PICK S : S = {m \in messages : m.id <= last.id}
    OBVIOUS
  <2>5. S \in SUBSET Messages /\ last.id \in Nat
    BY <1>1, <2>4
  <2>6. cursor' \in [Readers -> Nat] /\ received' \in [Readers -> SUBSET Messages]
    BY <2>1, <2>3, <2>4, <2>5
  <2>7. ASSUME NEW x \in Readers
        PROVE  /\ received'[x] = {m \in messages : m.id <= cursor'[x]}
               /\ cursor'[x] = 0 \/ \E m \in messages : m.id = cursor'[x]
    <3>1. CASE x = u
      <4>1. received'[x] = S /\ cursor'[x] = last.id
        BY <2>1, <2>3, <2>4, <3>1
      <4>. QED  BY <2>4, <4>1
    <3>2. CASE x # u
      <4>1. received'[x] = received[x] /\ cursor'[x] = cursor[x]
        BY <2>1, <2>3, <3>2
      <4>. QED  BY <4>1 DEF ReadersHoldAll
    <3>. QED  BY <3>1, <3>2
  <2>. QED  BY <2>2, <2>6, <2>7 DEF ReadersHoldAll
<1>. QED  BY <1>2, <1>3

-----------------------------------------------------------------------------
(* The requests.                                                            *)

\* A count of transactions and the number that covers it.
LEMMA CountStays ==
  ASSUME NEW A, IsFiniteSet(A), NEW A2, NEW w, NEW k \in Int, NEW k2 \in Int,
         Cardinality(A) <= k,
         \/ A2 \subseteq A /\ k2 = k
         \/ A2 = A \ {w} /\ w \in A /\ k2 = k - 1
         \/ A2 = A \cup {w} /\ k2 = k + 1
  PROVE  IsFiniteSet(A2) /\ Cardinality(A2) <= k2
<1>1. Cardinality(A) \in Nat
  BY FS_CardinalityType
<1>2. CASE A2 \subseteq A /\ k2 = k
  <2>1. IsFiniteSet(A2) /\ Cardinality(A2) <= Cardinality(A)
    BY <1>2, FS_Subset
  <2>2. Cardinality(A2) \in Nat
    BY <2>1, FS_CardinalityType
  <2>. QED  BY <1>1, <1>2, <2>1, <2>2
<1>3. CASE A2 = A \ {w} /\ w \in A /\ k2 = k - 1
  <2>1. IsFiniteSet(A2) /\ Cardinality(A2) = Cardinality(A) - 1
    BY <1>3, FS_RemoveElement
  <2>. QED  BY <1>1, <1>3, <2>1
<1>4. CASE A2 = A \cup {w} /\ k2 = k + 1
  <2>1. IsFiniteSet(A2) /\ (Cardinality(A2) = Cardinality(A) \/ Cardinality(A2) = Cardinality(A) + 1)
    BY <1>4, FS_AddElement
  <2>. QED  BY <1>1, <1>4, <2>1
<1>. QED  BY <1>2, <1>3, <1>4

\* A friendship is formed only by an accept and ended only by a deletion.
LEMMA ChangeOfFriends ==
  ASSUME ChangesAreLocked, NEW w \in Workers, NEW R, R = View(w)
  PROVE  /\ ~Friends(rows) /\ Friends(R) => Accepts(tx[w].plan)
         /\ Friends(rows) /\ ~Friends(R) => tx[w].plan = DeleteFriend
<1>1. ASSUME ~Friends(rows), Friends(R) PROVE Accepts(tx[w].plan)
  <2>1. PICK u \in Users : FriendRow(u) \notin rows /\ FriendRow(u) \in R
    BY <1>1 DEF Friends
  <2>2. FriendRow(u) \in tx[w].put /\ FriendRow(u) \in FriendRows
    BY <2>1 DEF View, FriendRows
  <2>. QED  BY <2>2 DEF ChangesAreLocked
<1>2. ASSUME Friends(rows), ~Friends(R) PROVE tx[w].plan = DeleteFriend
  <2>1. PICK u \in Users : FriendRow(u) \in rows /\ FriendRow(u) \notin R
    BY <1>2 DEF Friends
  <2>2. FriendRow(u) \in tx[w].drop
    BY <2>1 DEF View
  <2>. QED  BY <2>2 DEF ChangesAreLocked
<1>. QED  BY <1>1, <1>2

LEMMA CreditStays ==
  ASSUME PlansKept, ChangesAreLocked, CreditCovers, NEW w \in Workers, StepOf(w)
  PROVE  CreditCovers'
<1>. DEFINE A == Accepting
            A2 == Accepting'
            D == Deleting
            D2 == Deleting'
<1>1. \A v \in Workers \ {w} : tx'[v] = tx[v]
  BY DEF StepOf, RolledBack, Begun, Committed, Skipped, Locked, Inserted, Deleted, Checked,
         Written, Found, Refreshes, Advances
<1>2. /\ \A v : v \in A <=> v \in Workers /\ Accepts(tx[v].plan)
      /\ \A v : v \in A2 <=> v \in Workers /\ Accepts(tx'[v].plan)
      /\ \A v : v \in D <=> v \in Workers /\ tx[v].plan = DeleteFriend
      /\ \A v : v \in D2 <=> v \in Workers /\ tx'[v].plan = DeleteFriend
  BY DEF Accepting, Deleting
<1>3. /\ credit.accept \in Int /\ credit.delete \in Int /\ credit \in [accept : Int, delete : Int]
      /\ IsFiniteSet(A) /\ Cardinality(A) <= credit.accept
      /\ IsFiniteSet(D) /\ Cardinality(D) <= credit.delete
  BY DEF CreditCovers
<1>. HIDE DEF A, A2, D, D2
<1>4. SUFFICES /\ credit' \in [accept : Int, delete : Int]
               /\ IsFiniteSet(A2) /\ Cardinality(A2) <= credit'.accept
               /\ IsFiniteSet(D2) /\ Cardinality(D2) <= credit'.delete
  BY DEF CreditCovers, A2, D2
<1>5. \A v \in Workers \ {w} : (v \in A2 <=> v \in A) /\ (v \in D2 <=> v \in D)
  BY <1>1, <1>2
<1>6. ASSUME tx'[w].plan \in {<<>>, tx[w].plan} PROVE A2 \subseteq A /\ D2 \subseteq D
  <2>1. w \in A2 => w \in A
    BY <1>2, <1>6, PlansDiffer
  <2>2. w \in D2 => w \in D
    BY <1>2, <1>6, PlansDiffer
  <2>. QED  BY <1>2, <1>5, <2>1, <2>2
<1>7. ASSUME A2 \subseteq A, D2 \subseteq D, credit' = credit
      PROVE  /\ credit' \in [accept : Int, delete : Int]
             /\ IsFiniteSet(A2) /\ Cardinality(A2) <= credit'.accept
             /\ IsFiniteSet(D2) /\ Cardinality(D2) <= credit'.delete
  BY <1>3, <1>7, CountStays
<1>8. CASE RolledBack(w)
  <2>1. tx'[w].plan \in {<<>>, tx[w].plan} /\ credit' = credit
    BY <1>8 DEF RolledBack, Quiet
  <2>. QED  BY <1>6, <1>7, <2>1
<1>9. ASSUME NEW s, NEW m,
             \/ Skipped(w) \/ Locked(w, s) \/ Inserted(w, s) \/ Deleted(w, s) \/ Checked(w, s)
             \/ Written(w, s, m) \/ Found(w, s, m)
      PROVE  /\ credit' \in [accept : Int, delete : Int]
             /\ IsFiniteSet(A2) /\ Cardinality(A2) <= credit'.accept
             /\ IsFiniteSet(D2) /\ Cardinality(D2) <= credit'.delete
  <2>1. tx'[w].plan \in {<<>>, tx[w].plan} /\ credit' = credit
    BY <1>9 DEF Skipped, Locked, Inserted, Deleted, Checked, Written, Found, Quiet, Advances
  <2>. QED  BY <1>6, <1>7, <2>1
<1>10. CASE Begun(w)
  <2>1. tx[w].plan = <<>>
    BY <1>10 DEF Begun, PlansKept, PlanOf
  <2>2. w \notin A /\ w \notin D
    BY <1>2, <2>1, PlansDiffer
  <2>3. CASE Accepts(tx'[w].plan) /\ credit' = [credit EXCEPT !.accept = @ + 1]
    <3>1. tx'[w].plan # DeleteFriend
      BY <2>3, PlansDiffer
    <3>2. A2 = A \cup {w} /\ D2 \subseteq D
      BY <1>2, <1>5, <2>3, <3>1
    <3>3. /\ credit' \in [accept : Int, delete : Int]
          /\ credit'.accept = credit.accept + 1 /\ credit'.delete = credit.delete
          /\ credit'.accept \in Int /\ credit'.delete \in Int
      BY <1>3, <2>3
    <3>4. IsFiniteSet(A2) /\ Cardinality(A2) <= credit'.accept
      BY <1>3, <3>2, <3>3, CountStays
    <3>5. IsFiniteSet(D2) /\ Cardinality(D2) <= credit'.delete
      BY <1>3, <3>2, <3>3, CountStays
    <3>. QED  BY <3>3, <3>4, <3>5
  <2>4. CASE tx'[w].plan = DeleteFriend /\ credit' = [credit EXCEPT !.delete = @ + 1]
    <3>1. ~Accepts(tx'[w].plan)
      BY <2>4, PlansDiffer
    <3>2. A2 \subseteq A /\ D2 = D \cup {w}
      BY <1>2, <1>5, <2>4, <3>1
    <3>3. /\ credit' \in [accept : Int, delete : Int]
          /\ credit'.accept = credit.accept /\ credit'.delete = credit.delete + 1
          /\ credit'.accept \in Int /\ credit'.delete \in Int
      BY <1>3, <2>4
    <3>4. IsFiniteSet(A2) /\ Cardinality(A2) <= credit'.accept
      BY <1>3, <3>2, <3>3, CountStays
    <3>5. IsFiniteSet(D2) /\ Cardinality(D2) <= credit'.delete
      BY <1>3, <3>2, <3>3, CountStays
    <3>. QED  BY <3>3, <3>4, <3>5
  <2>5. CASE ~Accepts(tx'[w].plan) /\ tx'[w].plan # DeleteFriend /\ UNCHANGED credit
    <3>1. A2 \subseteq A /\ D2 \subseteq D
      BY <1>2, <1>5, <2>5
    <3>. QED  BY <1>7, <2>5, <3>1
  <2>. QED  BY <1>10, <2>3, <2>4, <2>5 DEF Begun
<1>11. CASE Committed(w)
  <2>1. tx'[w].plan = <<>>
    BY <1>11 DEF Committed, Idle
  <2>2. w \notin A2 /\ w \notin D2
    BY <1>2, <2>1, PlansDiffer
  <2>3. A2 = A \ {w} /\ D2 = D \ {w}
    BY <1>2, <1>5, <2>2
  <2>4. PICK a, d : /\ a = (IF ~Friends(rows) /\ Friends(rows') THEN 1 ELSE 0)
                    /\ d = (IF Friends(rows) /\ ~Friends(rows') THEN 1 ELSE 0)
    OBVIOUS
  <2>5. rows' = View(w) /\ credit' = [accept |-> credit.accept - a, delete |-> credit.delete - d]
    BY <1>11, <2>4 DEF Committed, Apply
  <2>6. PICK R : R = rows'
    OBVIOUS
  <2>7. /\ ~Friends(rows) /\ Friends(R) => Accepts(tx[w].plan)
        /\ Friends(rows) /\ ~Friends(R) => tx[w].plan = DeleteFriend
    BY <2>5, <2>6, ChangeOfFriends
  <2>8. (a = 0 \/ (a = 1 /\ w \in A)) /\ (d = 0 \/ (d = 1 /\ w \in D))
    BY <1>2, <2>4, <2>6, <2>7
  <2>9. PICK k, l : k = credit.accept - a /\ l = credit.delete - d
    OBVIOUS
  <2>10. k \in Int /\ l \in Int
    BY <1>3, <2>8, <2>9
  <2>11. credit' \in [accept : Int, delete : Int] /\ credit'.accept = k /\ credit'.delete = l
    BY <2>5, <2>9, <2>10
  <2>12. /\ \/ A2 \subseteq A /\ k = credit.accept
            \/ A2 = A \ {w} /\ w \in A /\ k = credit.accept - 1
         /\ \/ D2 \subseteq D /\ l = credit.delete
            \/ D2 = D \ {w} /\ w \in D /\ l = credit.delete - 1
    BY <1>3, <2>3, <2>8, <2>9
  <2>13. IsFiniteSet(A2) /\ Cardinality(A2) <= k
    BY <1>3, <2>10, <2>12, CountStays
  <2>14. IsFiniteSet(D2) /\ Cardinality(D2) <= l
    BY <1>3, <2>10, <2>12, CountStays
  <2>. QED  BY <2>11, <2>13, <2>14
<1>. QED  BY <1>8, <1>9, <1>10, <1>11 DEF StepOf

-----------------------------------------------------------------------------
(* The invariant.                                                           *)

LEMMA TypesStay ==
  ASSUME TxTypes, TableTypes, NEW w \in Workers, StepOf(w)
  PROVE  TxTypes' /\ TableTypes'
<1>1. TxTypes'
  BY DEF StepOf, RolledBack, Begun, Committed, Skipped, Locked, Inserted, Deleted, Checked,
         Written, Found, Refreshes, Advances
<1>2. tx[w].put \subseteq Row /\ tx[w].new \subseteq Messages
  BY DEF TxTypes, Transactions
<1>3. rows' \subseteq rows \cup tx[w].put /\ messages' \subseteq messages \cup tx[w].new
  BY DEF StepOf, RolledBack, Begun, Committed, Skipped, Locked, Inserted, Deleted, Checked,
         Written, Found, Quiet, Apply, View
<1>4. nextId' = nextId \/ nextId' = nextId + 1
  BY DEF StepOf, RolledBack, Begun, Committed, Skipped, Locked, Inserted, Deleted, Checked,
         Written, Found
<1>5. nextId' \in Nat \ {0}
  BY <1>4 DEF TableTypes
<1>. QED  BY <1>1, <1>2, <1>3, <1>5 DEF TableTypes

LEMMA BoundsStay ==
  ASSUME BoundTypes, [Next]_vars
  PROVE  BoundTypes'
<1>1. ASSUME UNCHANGED <<requests, faults>> PROVE BoundTypes'
  BY <1>1 DEF BoundTypes
<1>2. ASSUME faults < MaxFaults, faults' = faults + 1, requests' = requests PROVE BoundTypes'
  BY <1>2, DatabaseAssumption DEF BoundTypes
<1>3. ASSUME requests < MaxRequests, requests' = requests + 1, faults' = faults PROVE BoundTypes'
  BY <1>3, DatabaseAssumption DEF BoundTypes
<1>4. ASSUME NEW w \in Workers, Statement(w) PROVE BoundTypes'
  <2>1. CASE LockRow(w) \/ InsertRow(w) \/ DeleteRows(w)
    BY <1>1, <2>1 DEF LockRow, InsertRow, DeleteRows
  <2>2. CASE CheckFriends(w) \/ StoreMessage(w) \/ GreetFriend(w)
    BY <1>1, <2>2 DEF CheckFriends, StoreMessage, GreetFriend
  <2>3. CASE Commit(w) \/ LockFailure(w)
    BY <1>1, <2>3 DEF Commit, LockFailure
  <2>4. CASE CommitUnknown(w) \/ ConnectionLost(w)
    BY <1>2, <2>4 DEF CommitUnknown, ConnectionLost
  <2>. QED  BY <1>4, <2>1, <2>2, <2>3, <2>4 DEF Statement
<1>5. ASSUME NEW w \in Workers, NEW u \in Users,
             ContactRequest(w, u) \/ SendRequest(w, u) \/ CreateRequest(w, u)
      PROVE  BoundTypes'
  <2>1. \E op, plan : Begin(w, op, plan)
    BY <1>5 DEF ContactRequest, SendRequest, CreateRequest
  <2>. QED  BY <1>3, <2>1 DEF Begin
<1>6. ASSUME NEW u \in Readers, LoadHistory(u) PROVE BoundTypes'
  BY <1>1, <1>6 DEF LoadHistory
<1>7. CASE UNCHANGED vars
  BY <1>1, <1>7 DEF vars
<1>. QED  BY <1>4, <1>5, <1>6, <1>7 DEF Next

LEMMA InitialState == Init => DatabaseInv
<1>1. SUFFICES ASSUME Init PROVE DatabaseInv
  OBVIOUS
<1>2. PICK m : m = Message(1, First, NoUuid, NoUuid)
  OBVIOUS
<1>3. m \in Messages /\ m.id = 1
  BY <1>2, RowTypes DEF Message, Messages
<1>4. /\ messages \in {{}, {m}} /\ nextId \in Nat \ {0}
      /\ nextId \in {1, 2} /\ (messages = {m} => nextId = 2)
      /\ rows \subseteq Row
  BY <1>1, <1>2, RowTypes DEF Init
<1>5. /\ tx = [w \in Workers |-> Idle]
      /\ cursor = [u \in Readers |-> 0] /\ received = [u \in Readers |-> {}]
      /\ acked = {} /\ credit = [accept |-> 0, delete |-> 0]
      /\ requests = 0 /\ faults = 0
  BY <1>1 DEF Init
<1>6. \A w \in Workers : tx[w] = Idle
  BY <1>5
<1>7. /\ Idle.op = "idle" /\ Idle.plan = <<>> /\ Idle.todo = <<>> /\ Idle.holds = {}
      /\ Idle.put = {} /\ Idle.drop = {} /\ Idle.new = {} /\ Idle.result = {}
  BY DEF Idle
<1>8. TableTypes /\ BoundTypes
  BY <1>3, <1>4, <1>5, DatabaseAssumption DEF TableTypes, BoundTypes
<1>9. TxTypes
  BY <1>5, IdleType DEF TxTypes
<1>10. PlansKept
  <2>1. PlanOf(Idle.op, Idle.plan)
    BY <1>7 DEF PlanOf
  <2>2. 1..Len(Idle.todo) = {}
    BY <1>7
  <2>. QED  BY <1>6, <2>1, <2>2 DEF PlansKept
<1>11. LocksExclude
  BY <1>6, <1>7 DEF LocksExclude
<1>12. ChangesAreLocked
  BY <1>6, <1>7 DEF ChangesAreLocked
<1>13. WritersHoldChat
  BY <1>6, <1>7 DEF WritersHoldChat
<1>14. MessagesInOrder
  <2>1. IsFiniteSet(messages) /\ IsFiniteSet({})
    <3>1. IsFiniteSet({m}) /\ IsFiniteSet({})
      BY FS_EmptySet, FS_Singleton
    <3>2. messages = {} \/ messages = {m}
      BY <1>4
    <3>. QED  BY <3>1, <3>2
  <2>2. Unique(messages)
    BY <1>4 DEF Unique
  <2>3. \A e \in messages : 0 < e.id /\ e.id < nextId
    BY <1>3, <1>4
  <2>4. messages \cup {} = messages
    OBVIOUS
  <2>5. \A w \in Workers : tx[w].new = {}
    BY <1>6, <1>7
  <2>. QED  BY <2>1, <2>2, <2>3, <2>4, <2>5 DEF MessagesInOrder
<1>15. ResultsAreStored
  BY <1>5, <1>6, <1>7 DEF ResultsAreStored
<1>16. ReadersHoldAll
  <2>1. cursor \in [Readers -> Nat] /\ received \in [Readers -> SUBSET Messages]
    BY <1>5
  <2>2. {e \in messages : e.id <= 0} = {}
    BY <1>3, <1>4
  <2>3. \A u \in Readers : cursor[u] = 0 /\ received[u] = {}
    BY <1>5
  <2>. QED  BY <2>1, <2>2, <2>3 DEF ReadersHoldAll
<1>17. CreditCovers
  <2>1. Accepting = {} /\ Deleting = {}
    BY <1>6, <1>7, PlansDiffer DEF Accepting, Deleting
  <2>2. IsFiniteSet({}) /\ Cardinality({}) = 0
    BY FS_EmptySet
  <2>3. credit \in [accept : Int, delete : Int] /\ credit.accept = 0 /\ credit.delete = 0
    BY <1>5
  <2>. QED  BY <2>1, <2>2, <2>3 DEF CreditCovers
<1>. QED
  BY <1>8, <1>9, <1>10, <1>11, <1>12, <1>13, <1>14, <1>15, <1>16, <1>17 DEF DatabaseInv

LEMMA StepsKeepInv == DatabaseInv /\ [Next]_vars => DatabaseInv'
<1>1. SUFFICES ASSUME DatabaseInv, [Next]_vars PROVE DatabaseInv'
  OBVIOUS
<1>2. /\ TableTypes /\ TxTypes /\ BoundTypes
      /\ PlansKept /\ LocksExclude /\ ChangesAreLocked /\ WritersHoldChat
      /\ MessagesInOrder /\ ResultsAreStored /\ ReadersHoldAll /\ CreditCovers
  BY <1>1 DEF DatabaseInv
<1>3. BoundTypes'
  BY <1>1, <1>2, BoundsStay
<1>4. ASSUME NEW w \in Workers, StepOf(w) PROVE DatabaseInv'
  <2>1. TableTypes' /\ TxTypes'
    BY <1>2, <1>4, TypesStay
  <2>2. PlansKept' /\ LocksExclude' /\ ChangesAreLocked'
    BY <1>2, <1>4, PlansStay, LocksStay, ChangesStay
  <2>3. WritersHoldChat' /\ MessagesInOrder'
    BY <1>2, <1>4, WritersStay, OrderStays
  <2>4. ResultsAreStored' /\ ReadersHoldAll' /\ CreditCovers'
    BY <1>2, <1>4, ResultsStay, ReadersStay, CreditStays
  <2>. QED  BY <1>3, <2>1, <2>2, <2>3, <2>4 DEF DatabaseInv
<1>5. ASSUME UNCHANGED <<rows, messages, nextId, tx, acked, credit>>
      PROVE  /\ TableTypes' /\ TxTypes' /\ PlansKept' /\ LocksExclude' /\ ChangesAreLocked'
             /\ WritersHoldChat' /\ MessagesInOrder' /\ ResultsAreStored' /\ CreditCovers'
  <2>1. TableTypes' /\ TxTypes' /\ PlansKept'
    BY <1>2, <1>5 DEF TableTypes, TxTypes, PlansKept
  <2>2. LocksExclude' /\ ChangesAreLocked' /\ WritersHoldChat'
    BY <1>2, <1>5 DEF LocksExclude, Present, ChangesAreLocked, WritersHoldChat
  <2>3. MessagesInOrder' /\ ResultsAreStored'
    BY <1>2, <1>5 DEF MessagesInOrder, ResultsAreStored
  <2>4. CreditCovers'
    BY <1>2, <1>5 DEF CreditCovers, Accepting, Deleting
  <2>. QED  BY <2>1, <2>2, <2>3, <2>4
<1>6. ASSUME NEW u \in Readers, LoadHistory(u) PROVE DatabaseInv'
  <2>1. UNCHANGED <<rows, messages, nextId, tx, acked, credit>>
    BY <1>6 DEF LoadHistory
  <2>2. ReadersHoldAll'
    BY <1>2, <1>6, ReadersStay
  <2>. QED  BY <1>3, <1>5, <2>1, <2>2 DEF DatabaseInv
<1>7. CASE UNCHANGED vars
  <2>1. UNCHANGED <<rows, messages, nextId, tx, acked, credit>>
    BY <1>7 DEF vars
  <2>2. ReadersHoldAll'
    BY <1>2, <1>7 DEF vars, ReadersHoldAll
  <2>. QED  BY <1>3, <1>5, <2>1, <2>2 DEF DatabaseInv
<1>. QED  BY <1>1, <1>2, <1>4, <1>6, <1>7, StepKinds

LEMMA DatabaseInvariant == Spec => []DatabaseInv
  BY InitialState, StepsKeepInv, PTL DEF Spec

-----------------------------------------------------------------------------
(* The theorems.                                                            *)

\* The tables, the transactions and the readers keep their types; among others, what
\* is acknowledged or was received is stored (AddChatMsg, LoadPrivateChatMsg).
THEOREM DatabaseTypes == Spec => []TypeOK
<1>1. DatabaseInv => TypeOK
  <2>1. SUFFICES ASSUME DatabaseInv PROVE TypeOK
    OBVIOUS
  <2>2. TableTypes /\ TxTypes /\ BoundTypes /\ ResultsAreStored /\ ReadersHoldAll
    BY <2>1 DEF DatabaseInv
  <2>3. /\ rows \subseteq Row /\ messages \subseteq Messages /\ acked \subseteq messages
        /\ nextId \in Nat /\ requests \in 0..MaxRequests /\ faults \in 0..MaxFaults
    BY <2>2 DEF TableTypes, BoundTypes, ResultsAreStored
  <2>4. \A w \in Workers :
          /\ tx[w].holds \subseteq Row /\ tx[w].put \subseteq Row /\ tx[w].drop \subseteq Row
          /\ tx[w].attempt \in 0..(MaxAttempts - 1)
    BY <2>2 DEF TxTypes, Transactions
  <2>5. cursor \in [Readers -> Nat] /\ received \in [Readers -> SUBSET messages]
    <3>1. \A u \in Readers : received[u] \in SUBSET messages
      BY <2>2 DEF ReadersHoldAll
    <3>. QED  BY <2>2, <3>1 DEF ReadersHoldAll
  <2>. QED  BY <2>3, <2>4, <2>5 DEF TypeOK, Messages
<1>. QED  BY <1>1, DatabaseInvariant, PTL

\* No request takes effect twice: however often a deadlock starts an accept or a
\* deletion again, and whether or not the answer of COMMIT is lost, there are never
\* more friendships formed or ended than were asked for (RunContactTransaction).
THEOREM EffectsOnce == Spec => []EffectOnce
<1>1. DatabaseInv => EffectOnce
  <2>1. SUFFICES ASSUME DatabaseInv PROVE EffectOnce
    OBVIOUS
  <2>2. /\ credit \in [accept : Int, delete : Int]
        /\ IsFiniteSet(Accepting) /\ Cardinality(Accepting) <= credit.accept
        /\ IsFiniteSet(Deleting) /\ Cardinality(Deleting) <= credit.delete
    BY <2>1 DEF DatabaseInv, CreditCovers
  <2>3. Cardinality(Accepting) \in Nat /\ Cardinality(Deleting) \in Nat
    BY <2>2, FS_CardinalityType
  <2>4. credit.accept \in Int /\ credit.delete \in Int
    BY <2>2
  <2>. QED  BY <2>2, <2>3, <2>4 DEF EffectOnce
<1>. QED  BY <1>1, DatabaseInvariant, PTL

\* A message is committed only while its sender lists the recipient as a friend, for
\* any number of workers that send, accept and delete at the same time (AddChatMsg).
THEOREM SendersAreFriends == Spec => SentAmongFriends
<1>. DEFINE Sent == \A m \in messages' \ messages :
                       m.uuid # NoUuid => FriendRow(m.sender) \in rows
<1>1. DatabaseInv /\ [Next]_vars => [Sent]_vars
  <2>1. SUFFICES ASSUME DatabaseInv, [Next]_vars PROVE Sent
    OBVIOUS
  <2>2. TxTypes /\ TableTypes /\ PlansKept /\ WritersHoldChat
    BY <2>1 DEF DatabaseInv
  <2>3. CASE messages' = messages
    BY <2>3
  <2>4. ASSUME NEW w \in Workers, StepOf(w) PROVE messages' \subseteq messages \cup tx[w].new
    BY <2>4 DEF StepOf, RolledBack, Begun, Committed, Skipped, Locked, Inserted, Deleted, Checked,
                Written, Found, Quiet, Apply
  <2>5. CASE \E w \in Workers : StepOf(w)
    BY <2>2, <2>4, <2>5 DEF WritersHoldChat
  <2>. QED  BY <2>1, <2>2, <2>3, <2>5, StepKinds DEF vars, LoadHistory
<1>. QED  BY <1>1, DatabaseInvariant, PTL DEF Spec, SentAmongFriends

\* The tables implement the log that the clients rely on: a commit appends to the
\* log, with identifiers above all that were committed before, so that no cursor ever
\* passes a message that is still to come (AddChatMsg, AddFriend, LoadPrivateChatMsg).
THEOREM TablesImplementLog == Spec => ImplementsMessageLog
<1>1. Init => MessageOrder!LogInit
  <2>1. SUFFICES ASSUME Init PROVE MessageOrder!LogInit
    OBVIOUS
  <2>2. Unique(messages)
    BY <2>1, InitialState DEF DatabaseInv, MessagesInOrder
  <2>. QED  BY <2>1, <2>2 DEF Init, Unique, MessageOrder!LogInit
<1>2. DatabaseInv /\ [Next]_vars => [MessageOrder!LogNext]_(MessageOrder!logVars)
  <2>1. SUFFICES ASSUME DatabaseInv, [Next]_vars
                 PROVE  MessageOrder!LogNext \/ UNCHANGED <<messages, acked, received>>
    BY DEF MessageOrder!logVars
  <2>2. /\ TxTypes /\ TableTypes /\ PlansKept /\ MessagesInOrder
        /\ ResultsAreStored /\ ReadersHoldAll
    BY <2>1 DEF DatabaseInv
  <2>3. ASSUME NEW w \in Workers, StepOf(w), ~Committed(w)
        PROVE  UNCHANGED <<messages, acked, received>>
    BY <2>3 DEF StepOf, RolledBack, Begun, Skipped, Locked, Inserted, Deleted, Checked,
                Written, Found, Quiet
  <2>4. ASSUME NEW w \in Workers, Committed(w) PROVE MessageOrder!LogNext
    <3>1. /\ messages' = messages \cup tx[w].new /\ acked' \in {acked, acked \cup tx[w].result}
          /\ received' = received
      BY <2>4 DEF Committed, Apply
    <3>2. acked \subseteq acked' /\ acked' \subseteq messages'
      BY <2>2, <3>1 DEF ResultsAreStored
    <3>3. /\ \A e \in tx[w].new, f \in messages : f.id < e.id
          /\ Unique(messages \cup tx[w].new)
      BY <2>2 DEF MessagesInOrder
    <3>4. PICK E : E = messages' \ messages
      OBVIOUS
    <3>5. E \subseteq tx[w].new
      BY <3>1, <3>4
    <3>6. MessageOrder!Follows(E)
      BY <3>3, <3>5 DEF Unique, MessageOrder!Follows
    <3>7. MessageOrder!Write
      BY <3>1, <3>2, <3>4, <3>6 DEF MessageOrder!Write
    <3>. QED  BY <3>7 DEF MessageOrder!LogNext
  <2>5. ASSUME NEW u \in Readers, LoadHistory(u) PROVE MessageOrder!LogNext
    <3>1. PICK last \in messages :
            /\ received' = [received EXCEPT ![u] = {m \in messages : m.id <= last.id}]
            /\ received[u] \subseteq {m \in messages : m.id <= last.id}
      BY <2>2, <2>5, ReadEffect
    <3>2. messages' = messages /\ acked' = acked
      BY <2>5 DEF LoadHistory
    <3>3. last.id \in {e.id : e \in messages}
      OBVIOUS
    <3>4. MessageOrder!UpTo(last.id) = {m \in messages : m.id <= last.id}
      BY DEF MessageOrder!UpTo
    <3>5. MessageOrder!Read(u)
      BY <3>1, <3>2, <3>3, <3>4 DEF MessageOrder!Read
    <3>. QED  BY <3>5 DEF MessageOrder!LogNext
  <2>6. CASE UNCHANGED vars
    BY <2>6 DEF vars
  <2>. QED  BY <2>1, <2>2, <2>3, <2>4, <2>5, <2>6, StepKinds
<1>. QED  BY <1>1, <1>2, DatabaseInvariant, PTL DEF Spec, ImplementsMessageLog, MessageOrder!LogSpec
=============================================================================
