--------------------------- MODULE ChatSyncProofs ---------------------------
(***************************************************************************)
(* Proofs about ChatSync: the local store has everything up to its cursor, *)
(* every message once, and nothing that was erased here.                   *)
(*                                                                         *)
(* The three facts depend on what is under way.  A page that is on its way *)
(* or queued for the store begins at or before the stored cursor, whoever  *)
(* asked for it and however late it comes, and an id that any record       *)
(* carries is the place of its UUID in the server's log.  SyncInv says     *)
(* that of the log, the store, the two queues of the store's thread, the   *)
(* connection and the services.  What the log and the cursor grow by       *)
(* disturbs none of it (OpFitsLater, PacketFitsLater).                     *)
(*                                                                         *)
(* The last part proves that nothing the client waits for is forgotten:    *)
(* every wait has its timer, its callback or its answer under way.         *)
(***************************************************************************)
EXTENDS ChatSync, FiniteSetTheorems, WellFoundedInduction, TLAPS

\* What a sequence holds, and that it is one, whatever it holds.
Elems(s) == {s[i] : i \in DOMAIN s}
IsSeq(s) == s \in Seq(Elems(s))

\* A record with a server id: the id is the place of its UUID in the log L.
Placed(L, m) == m.id \in 1..Len(L) /\ L[m.id] = m.uuid
\* A record with or without one.
PlacedIfAny(L, m) == m.id \in Nat /\ (m.id > 0 => Placed(L, m))

\* A page whose records are those of L from a place at or before c to p.next.
PageFits(L, c, p) ==
    /\ p.next \in 0..Len(L)
    /\ \A m \in p.records : m = Row(m.uuid, m.id) /\ Placed(L, m)
    /\ \E from \in 0..c : \A i \in (from + 1)..p.next : Row(L[i], i) \in p.records

\* An operation queued for the store's thread, when the log is L and the
\* stored cursor is c.
SaveFits(L, o) ==
    /\ o.kind = "save"
    /\ o = [kind |-> "save", by |-> o.by, records |-> o.records, live |-> o.live]
    /\ \E m \in o.records :
         o.records = {m} /\ PlacedIfAny(L, m) /\ (o.by = "live" => m.id > 0)
PageOpFits(L, c, o) ==
    /\ o.kind = "page"
    /\ o = [kind |-> "page", records |-> o.records, next |-> o.next, more |-> o.more,
            live |-> o.live]
    /\ PageFits(L, c, o)
OtherOp(o) ==
    \/ o.kind = "thread" /\ o = [kind |-> "thread", last |-> o.last, live |-> o.live]
       /\ o.last \in Nat
    \/ o.kind = "delete" /\ o = [kind |-> "delete", id |-> o.id, live |-> o.live]
    \/ o.kind \in {"clear", "read", "open"} /\ o = [kind |-> o.kind, live |-> o.live]
OpFits(L, c, o) == SaveFits(L, o) \/ PageOpFits(L, c, o) \/ OtherOp(o)

\* A callback: of a page that was stored, the cursor is at its end or further.
DoneFits(L, c, d) ==
    /\ OpFits(L, c, d.op)
    /\ d.cursor \in 0..c
    /\ (d.ok /\ d.op.kind = "page") => d.op.next <= c

\* Packets of the two directions.
RequestFits(c, r) ==
    r.kind = "load" => /\ r = [kind |-> "load", from |-> r.from, current |-> r.current]
                       /\ r.from \in 0..c
PacketFits(L, c, m) ==
    /\ m.kind = "live" => Placed(L, m)
    /\ m.kind = "page" => /\ m = [kind |-> "page", next |-> m.next, more |-> m.more,
                                  current |-> m.current, records |-> m.records]
                          /\ PageFits(L, c, m)
    /\ m.kind = "threads" => m.last \in Nat

\* The parts of the inductive invariant.
LogIsSequence ==
    /\ IsSeq(log)
    /\ \A i, j \in 1..Len(log) : log[i] = log[j] => i = j
StoreTypes ==
    /\ store = [rows |-> store.rows, cursor |-> store.cursor, last |-> store.last,
                hidden |-> store.hidden, deleted |-> store.deleted]
    /\ store.cursor \in 0..Len(log) /\ store.last \in Nat /\ store.hidden \in Nat
RowsArePlaced == \A r \in store.rows : PlacedIfAny(log, r)
StoreIsSound == SyncIsComplete /\ OneRowPerMessage /\ ErasedStaysErased
OpsFit == IsSeq(ops) /\ \A o \in Elems(ops) : OpFits(log, store.cursor, o)
DoneFit == IsSeq(done) /\ \A d \in Elems(done) : DoneFits(log, store.cursor, d)
RequestsFit == IsSeq(toServer) /\ \A r \in Elems(toServer) : RequestFits(store.cursor, r)
PacketsFit == IsSeq(toClient) /\ \A m \in Elems(toClient) : PacketFits(log, store.cursor, m)
ConfirmedIsWritten ==
    DOMAIN pending = Mine /\ \A u \in Mine : pending[u] = "confirmed" => u \in Elems(log)
QueueIsSequence == {"queue", "upload", "timer"} \subseteq DOMAIN sender /\ IsSeq(sender.queue)
CursorIsStored == "cursor" \in DOMAIN sync /\ sync.cursor \in 0..store.cursor

\* The inductive invariant.
SyncInv ==
    /\ LogIsSequence /\ StoreTypes /\ RowsArePlaced /\ StoreIsSound
    /\ OpsFit /\ DoneFit /\ RequestsFit /\ PacketsFit
    /\ ConfirmedIsWritten /\ QueueIsSequence /\ CursorIsStored

----------------------------------------------------------------------------
(* Sequences, whatever they hold                                           *)

LEMMA EmptySequence == IsSeq(<<>>) /\ Elems(<<>>) = {}
BY DEF IsSeq, Elems

LEMMA SequenceDomain ==
  ASSUME NEW s, IsSeq(s)
  PROVE  Len(s) \in Nat /\ DOMAIN s = 1..Len(s)
BY DEF IsSeq

LEMMA AppendSequence ==
  ASSUME NEW s, IsSeq(s), NEW e
  PROVE  /\ IsSeq(Append(s, e)) /\ Elems(Append(s, e)) = Elems(s) \cup {e}
         /\ Len(Append(s, e)) = Len(s) + 1 /\ Append(s, e)[Len(s) + 1] = e
         /\ \A i \in 1..Len(s) : Append(s, e)[i] = s[i]
<1>1. PICK S : S = Elems(s) \cup {e}
  OBVIOUS
<1>2. s \in Seq(S) /\ e \in S /\ Len(s) \in Nat
  BY <1>1 DEF IsSeq
<1>3. PICK t : t = Append(s, e)
  OBVIOUS
<1>4. /\ t \in Seq(S) /\ Len(t) = Len(s) + 1 /\ t[Len(s) + 1] = e
      /\ \A i \in 1..Len(s) : t[i] = s[i]
  BY <1>2, <1>3
<1>5. DOMAIN t = 1..(Len(s) + 1) /\ DOMAIN s = 1..Len(s)
  BY <1>2, <1>4
<1>6. Elems(t) = S
  BY <1>1, <1>2, <1>4, <1>5 DEF Elems
<1>. QED  BY <1>1, <1>3, <1>4, <1>6 DEF IsSeq

LEMMA TailSequence ==
  ASSUME NEW s, IsSeq(s), s # <<>>
  PROVE  /\ IsSeq(Tail(s)) /\ Elems(Tail(s)) \subseteq Elems(s)
         /\ Head(s) \in Elems(s)
<1>1. PICK S : S = Elems(s)
  OBVIOUS
<1>2. s \in Seq(S) /\ Len(s) \in Nat /\ Len(s) # 0
  BY <1>1 DEF IsSeq
<1>3. PICK t : t = Tail(s)
  OBVIOUS
<1>4. t \in Seq(S) /\ Len(t) = Len(s) - 1 /\ \A i \in 1..Len(t) : t[i] = s[i + 1]
  BY <1>2, <1>3
<1>5. DOMAIN t = 1..Len(t) /\ DOMAIN s = 1..Len(s)
  BY <1>2, <1>4
<1>6. Elems(t) \subseteq S
  BY <1>1, <1>2, <1>4, <1>5 DEF Elems
<1>7. t \in Seq(Elems(t))
  BY <1>4, <1>5 DEF Elems
<1>8. Head(s) \in S
  BY <1>2
<1>. QED  BY <1>1, <1>3, <1>6, <1>7, <1>8 DEF IsSeq

LEMMA ConcatSequences ==
  ASSUME NEW s, IsSeq(s), NEW t, IsSeq(t)
  PROVE  IsSeq(s \o t) /\ Elems(s \o t) = Elems(s) \cup Elems(t)
<1>1. PICK S : S = Elems(s) \cup Elems(t)
  OBVIOUS
<1>2. s \in Seq(S) /\ t \in Seq(S) /\ Len(s) \in Nat /\ Len(t) \in Nat
  BY <1>1 DEF IsSeq
<1>3. PICK w : w = s \o t
  OBVIOUS
<1>4. /\ w \in Seq(S) /\ Len(w) = Len(s) + Len(t)
      /\ \A i \in 1..Len(s) : w[i] = s[i]
      /\ \A i \in 1..Len(t) : w[Len(s) + i] = t[i]
  BY <1>2, <1>3
<1>5. DOMAIN w = 1..(Len(s) + Len(t)) /\ DOMAIN s = 1..Len(s) /\ DOMAIN t = 1..Len(t)
  BY <1>2, <1>4
<1>6. Elems(w) \subseteq S
  <2>1. \A i \in 1..(Len(s) + Len(t)) : w[i] \in S
    BY <1>2, <1>4, <1>5
  <2>. QED  BY <2>1, <1>5 DEF Elems
<1>7. \A i \in 1..Len(t) : Len(s) + i \in 1..(Len(s) + Len(t))
  BY <1>2
<1>8. \A i \in 1..Len(s) : i \in 1..(Len(s) + Len(t))
  BY <1>2
<1>9. S \subseteq Elems(w)
  BY <1>1, <1>4, <1>5, <1>7, <1>8 DEF Elems
<1>. QED  BY <1>1, <1>3, <1>4, <1>6, <1>9 DEF IsSeq

\* A sequence rewritten place by place.
LEMMA MappedSequence ==
  ASSUME NEW s, IsSeq(s), NEW t, DOMAIN t = DOMAIN s, t = [i \in DOMAIN s |-> t[i]]
  PROVE  IsSeq(t)
<1>1. Len(s) \in Nat /\ DOMAIN s = 1..Len(s)
  BY SequenceDomain
<1>2. \A i \in 1..Len(s) : t[i] \in Elems(t)
  BY <1>1 DEF Elems
<1>3. t \in [1..Len(s) -> Elems(t)]
  BY <1>1, <1>2
<1>. QED  BY <1>1, <1>3 DEF IsSeq

----------------------------------------------------------------------------
(* The largest of a bounded set of numbers                                 *)

LEMMA LeastExists ==
  ASSUME NEW S \in SUBSET Nat, S # {}
  PROVE  \E n \in S : \A m \in S : n <= m
<1>1. PICK R : R = OpToRel(<, Nat)
  OBVIOUS
<1>2. IsWellFoundedOn(R, Nat)
  BY <1>1, NatLessThanWellFounded, Zenon
<1>3. PICK x \in S : \A y \in S : ~(<<y, x>> \in R)
  BY <1>2, WFMin, Zenon
<1>4. \A x1, y \in Nat : y < x1 => <<y, x1>> \in R
  BY <1>1 DEF OpToRel
<1>5. \A y \in S : ~(y < x)
  BY <1>3, <1>4
<1>6. \A y \in S : x <= y
  <2>. HIDE <1>1
  <2>. QED  BY <1>5
<1>. QED  BY <1>6

LEMMA LargestIsMax ==
  ASSUME NEW S \in SUBSET Nat, NEW x \in S, NEW b \in Nat, \A n \in S : n <= b
  PROVE  Largest(S) \in S /\ \A n \in S : n <= Largest(S)
<1>1. PICK T : T = {b - n : n \in S}
  OBVIOUS
<1>2. T \in SUBSET Nat /\ T # {}
  BY <1>1
<1>3. PICK t \in T : \A m \in T : t <= m
  BY <1>2, LeastExists
<1>4. PICK n \in S : t = b - n
  BY <1>1
<1>5. \A m \in S : m <= n
  BY <1>1, <1>3, <1>4
<1>. QED  BY <1>5 DEF Largest

----------------------------------------------------------------------------
(* What fits a log and a cursor fits a longer log and a later cursor       *)

Grows(L, K) ==
    /\ Len(L) \in Nat /\ Len(K) \in Nat /\ Len(L) <= Len(K)
    /\ DOMAIN L = 1..Len(L) /\ DOMAIN K = 1..Len(K)
    /\ \A i \in 1..Len(L) : K[i] = L[i]

LEMMA PlacedLater ==
  ASSUME NEW L, NEW K, Grows(L, K), NEW m
  PROVE  /\ Placed(L, m) => Placed(K, m)
         /\ PlacedIfAny(L, m) => PlacedIfAny(K, m)
BY DEF Grows, Placed, PlacedIfAny

LEMMA PageFitsLater ==
  ASSUME NEW L, NEW K, Grows(L, K), NEW c \in Nat, NEW d \in Nat, c <= d,
         NEW p, PageFits(L, c, p)
  PROVE  PageFits(K, d, p)
<1>1. p.next \in 0..Len(L) /\ p.next \in 0..Len(K)
  BY DEF PageFits, Grows
<1>2. \A m \in p.records : m = Row(m.uuid, m.id) /\ Placed(K, m)
  BY PlacedLater DEF PageFits
<1>3. PICK from \in 0..c : \A i \in (from + 1)..p.next : Row(L[i], i) \in p.records
  BY DEF PageFits
<1>4. \A i \in (from + 1)..p.next : K[i] = L[i]
  BY <1>1, <1>3 DEF Grows
<1>5. from \in 0..d /\ \A i \in (from + 1)..p.next : Row(K[i], i) \in p.records
  BY <1>3, <1>4
<1>. QED  BY <1>1, <1>2, <1>5 DEF PageFits

LEMMA OpFitsLater ==
  ASSUME NEW L, NEW K, Grows(L, K), NEW c \in Nat, NEW d \in Nat, c <= d,
         NEW o, OpFits(L, c, o)
  PROVE  OpFits(K, d, o)
<1>1. SaveFits(L, o) => SaveFits(K, o)
  BY PlacedLater DEF SaveFits
<1>2. PageOpFits(L, c, o) => PageOpFits(K, d, o)
  BY PageFitsLater DEF PageOpFits
<1>. QED  BY <1>1, <1>2 DEF OpFits

LEMMA DoneFitsLater ==
  ASSUME NEW L, NEW K, Grows(L, K), NEW c \in Nat, NEW d \in Nat, c <= d,
         NEW e, DoneFits(L, c, e)
  PROVE  DoneFits(K, d, e)
<1>1. OpFits(K, d, e.op)
  BY OpFitsLater DEF DoneFits
<1>2. e.cursor \in 0..d
  BY DEF DoneFits
<1>3. ASSUME e.ok, e.op.kind = "page"
      PROVE  e.op.next <= d
  <2>1. e.op.next \in Nat /\ e.op.next <= c
    BY <1>3 DEF DoneFits, OpFits, SaveFits, PageOpFits, PageFits, OtherOp
  <2>. QED  BY <2>1
<1>. QED  BY <1>1, <1>2, <1>3 DEF DoneFits

LEMMA PacketFitsLater ==
  ASSUME NEW L, NEW K, Grows(L, K), NEW c \in Nat, NEW d \in Nat, c <= d,
         NEW m, PacketFits(L, c, m)
  PROVE  PacketFits(K, d, m)
BY PlacedLater, PageFitsLater DEF PacketFits

\* The log and the cursor of the next state, and everything that is only left
\* where it is.
LEMMA FitsLater ==
  ASSUME SyncInv, Grows(log, log'), store.cursor <= store'.cursor,
         store'.cursor \in Nat
  PROVE  /\ UNCHANGED ops => OpsFit'
         /\ UNCHANGED done => DoneFit'
         /\ UNCHANGED toServer => RequestsFit'
         /\ UNCHANGED toClient => PacketsFit'
         /\ UNCHANGED sync => CursorIsStored'
         /\ UNCHANGED pending => ConfirmedIsWritten'
         /\ UNCHANGED sender => QueueIsSequence'
<1>. DEFINE K == log'
            d == store'.cursor
<1>1. store.cursor \in Nat /\ store.cursor <= d /\ d \in Nat /\ Grows(log, K)
  BY DEF SyncInv, StoreTypes
<1>. HIDE DEF K, d
<1>2. UNCHANGED ops => OpsFit'
  <2>1. \A o \in Elems(ops) : OpFits(K, d, o)
    BY <1>1, OpFitsLater DEF SyncInv, OpsFit
  <2>. QED  BY <2>1 DEF SyncInv, OpsFit, K, d
<1>3. UNCHANGED done => DoneFit'
  <2>1. \A e \in Elems(done) : DoneFits(K, d, e)
    BY <1>1, DoneFitsLater DEF SyncInv, DoneFit
  <2>. QED  BY <2>1 DEF SyncInv, DoneFit, K, d
<1>4. UNCHANGED toServer => RequestsFit'
  <2>1. \A r \in Elems(toServer) : RequestFits(d, r)
    BY <1>1 DEF SyncInv, RequestsFit, RequestFits
  <2>. QED  BY <2>1 DEF SyncInv, RequestsFit, d
<1>5. UNCHANGED toClient => PacketsFit'
  <2>1. \A m \in Elems(toClient) : PacketFits(K, d, m)
    BY <1>1, PacketFitsLater DEF SyncInv, PacketsFit
  <2>. QED  BY <2>1 DEF SyncInv, PacketsFit, K, d
<1>6. UNCHANGED sync => CursorIsStored'
  BY <1>1 DEF SyncInv, CursorIsStored, d
<1>7. UNCHANGED pending => ConfirmedIsWritten'
  <2>1. Elems(log) \subseteq Elems(K)
    BY <1>1 DEF Grows, Elems
  <2>. QED  BY <2>1 DEF SyncInv, ConfirmedIsWritten, K
<1>8. UNCHANGED sender => QueueIsSequence'
  BY DEF SyncInv, QueueIsSequence
<1>. QED  BY <1>2, <1>3, <1>4, <1>5, <1>6, <1>7, <1>8

----------------------------------------------------------------------------
(* MessageSender                                                           *)

LEMMA ReadyInQueue ==
  ASSUME NEW s, NEW q, IsSeq(q)
  PROVE  Ready(s, q) \in 0..Len(q)
<1>1. PICK S : S = {0} \cup {i \in 1..Len(q) : \A j \in 1..i : content[q[j]] = "text"}
  OBVIOUS
<1>2. Len(q) \in Nat
  BY SequenceDomain
<1>3. S \in SUBSET Nat /\ 0 \in S /\ \A n \in S : n <= Len(q)
  BY <1>1, <1>2
<1>4. Largest(S) \in S
  BY <1>2, <1>3, LargestIsMax
<1>5. S \subseteq 0..Len(q)
  BY <1>2, <1>3
<1>. QED  BY <1>1, <1>3, <1>4, <1>5 DEF Ready

LEMMA RequestsAreSends ==
  ASSUME NEW q, IsSeq(q)
  PROVE  /\ IsSeq(Requests(q))
         /\ \A r \in Elems(Requests(q)) : r.kind = "send"
<1>. DEFINE open == {i \in 1..Len(q) : pending'[q[i]] # "confirmed"}
            nth(k) == CHOOSE i \in open : Cardinality({j \in open : j <= i}) = k
            n == Cardinality(open)
            t == [k \in 1..n |-> [kind |-> "send", uuid |-> q[nth(k)]]]
<1>1. n \in Nat
  <2>1. Len(q) \in Nat
    BY SequenceDomain
  <2>2. IsFiniteSet(1..Len(q))
    BY <2>1, FS_Interval
  <2>. QED  BY <2>2, FS_Subset, FS_CardinalityType
<1>2. Requests(q) = t
  BY DEF Requests
<1>. HIDE DEF open, n
<1>3. DOMAIN t = 1..n /\ \A k \in 1..n : t[k].kind = "send" /\ t[k] \in Elems(t)
  BY DEF Elems
<1>4. \A r \in Elems(t) : r.kind = "send"
  BY <1>3 DEF Elems
<1>5. t \in [1..n -> Elems(t)]
  BY <1>3
<1>. HIDE DEF t
<1>6. t \in Seq(Elems(t))
  BY <1>1, <1>5
<1>. QED  BY <1>2, <1>4, <1>6 DEF IsSeq

\* A part of a sequence.
LEMMA PartSequence ==
  ASSUME NEW q, IsSeq(q), NEW a \in 1..(Len(q) + 1), NEW b \in (a - 1)..Len(q)
  PROVE  IsSeq(SubSeq(q, a, b))
<1>1. PICK S : S = Elems(q)
  OBVIOUS
<1>2. q \in Seq(S) /\ Len(q) \in Nat
  BY <1>1 DEF IsSeq
<1>3. PICK t : t = SubSeq(q, a, b)
  OBVIOUS
<1>4. t \in Seq(S)
  BY <1>2, <1>3
<1>5. t \in Seq(Elems(t))
  BY <1>4 DEF Elems
<1>. QED  BY <1>3, <1>5 DEF IsSeq

LEMMA SendNextKeeps ==
  ASSUME SyncInv, NEW s, {"queue", "upload", "timer"} \subseteq DOMAIN s,
         NEW first, IsSeq(first), NEW q, IsSeq(q),
         SendNextMessage(s, first, q), UNCHANGED store
  PROVE  QueueIsSequence' /\ RequestsFit'
<1>. DEFINE n == Ready(s, q)
            starts == s.upload = None /\ ~s.committing /\ n < Len(q)
            out == Requests(first \o SubSeq(q, 1, n))
            rest == SubSeq(q, IF starts THEN n + 2 ELSE n + 1, Len(q))
<1>1. /\ sender' = [s EXCEPT !.queue = rest,
                             !.upload = IF starts THEN q[n + 1] ELSE @,
                             !.timer = @ \cup {out[i].uuid : i \in 1..Len(out)}]
      /\ toServer' = toServer \o out
  BY DEF SendNextMessage
<1>2. n \in 0..Len(q) /\ Len(q) \in Nat
  BY ReadyInQueue, SequenceDomain
<1>. HIDE DEF n
<1>3. IsSeq(rest)
  <2>1. PICK a : a = IF starts THEN n + 2 ELSE n + 1
    OBVIOUS
  <2>2. a \in 1..(Len(q) + 1) /\ Len(q) \in (a - 1)..Len(q)
    BY <1>2, <2>1
  <2>3. IsSeq(SubSeq(q, a, Len(q)))
    BY <2>2, PartSequence
  <2>. QED  BY <2>1, <2>3
<1>4. IsSeq(out) /\ \A r \in Elems(out) : r.kind = "send"
  <2>1. 1 \in 1..(Len(q) + 1) /\ n \in (1 - 1)..Len(q)
    BY <1>2
  <2>2. IsSeq(SubSeq(q, 1, n))
    BY <2>1, PartSequence
  <2>3. IsSeq(first \o SubSeq(q, 1, n))
    BY <2>2, ConcatSequences
  <2>. QED  BY <2>3, RequestsAreSends
<1>. HIDE DEF rest, out, starts
<1>5. QueueIsSequence'
  <2>1. sender'.queue = rest /\ DOMAIN sender' = DOMAIN s
    BY <1>1
  <2>. QED  BY <1>3, <2>1 DEF QueueIsSequence
<1>6. IsSeq(toServer') /\ Elems(toServer') = Elems(toServer) \cup Elems(out)
  BY <1>1, <1>4, ConcatSequences DEF SyncInv, RequestsFit
<1>7. \A r \in Elems(toServer') : RequestFits(store'.cursor, r)
  BY <1>4, <1>6 DEF SyncInv, RequestsFit, RequestFits
<1>. QED  BY <1>5, <1>6, <1>7 DEF RequestsFit

----------------------------------------------------------------------------
(* SQLite                                                                  *)

\* The rows a transaction with the records M leaves.
Merged(M) ==
    {r \in store.rows : /\ \A m \in Accepted(M) : ~Same(r, m)
                        /\ ~(r.id = 0 /\ \E m \in M : Hidden(m) /\ r.uuid = m.uuid)}
    \cup Accepted(M)

\* The records of one transaction are of different messages.
Distinct(M) ==
    \A r, q \in M : r # q => r.uuid # q.uuid /\ (r.id = 0 \/ r.id # q.id)

\* Message i is in the store or was erased here.
HasOrErased(i) ==
    \/ i <= store.hidden \/ i \in store.deleted
    \/ \E r \in store.rows : r.id = i /\ r.uuid = log[i]

LEMMA MergeKeeps ==
  ASSUME SyncInv, NEW M, \A m \in M : PlacedIfAny(log, m), Distinct(M),
         store'.rows = Merged(M), store'.hidden = store.hidden,
         store'.deleted = store.deleted, UNCHANGED log
  PROVE  /\ RowsArePlaced' /\ OneRowPerMessage' /\ ErasedStaysErased'
         /\ \A i \in 1..store.cursor : HasOrErased(i)'
         /\ \A m \in M : m.id > 0 => HasOrErased(m.id)'
<1>1. \A m \in Accepted(M) : m \in M /\ PlacedIfAny(log, m) /\ ~Suppressed(m)
  BY DEF Accepted
<1>2. RowsArePlaced'
  BY <1>1 DEF SyncInv, RowsArePlaced, Merged
<1>3. OneRowPerMessage'
  <2>1. SUFFICES ASSUME NEW r \in Merged(M), NEW q \in Merged(M), r # q
                 PROVE  r.uuid # q.uuid /\ (r.id = 0 \/ r.id # q.id)
    BY DEF OneRowPerMessage
  <2>2. r.id \in Nat /\ q.id \in Nat
    BY <1>1 DEF SyncInv, RowsArePlaced, Merged, PlacedIfAny
  <2>3. CASE r \in Accepted(M) /\ q \in Accepted(M)
    BY <1>1, <2>1, <2>3 DEF Distinct
  <2>4. CASE r \in Accepted(M) /\ q \notin Accepted(M)
    BY <2>2, <2>4 DEF Merged, Same
  <2>5. CASE r \notin Accepted(M) /\ q \in Accepted(M)
    BY <2>2, <2>5 DEF Merged, Same
  <2>6. CASE r \notin Accepted(M) /\ q \notin Accepted(M)
    BY <2>1, <2>6 DEF Merged, SyncInv, StoreIsSound, OneRowPerMessage
  <2>. QED  BY <2>3, <2>4, <2>5, <2>6
<1>4. ErasedStaysErased'
  <2>1. \A m \in Accepted(M) : m.id > 0 => m.id > store.hidden /\ m.id \notin store.deleted
    BY <1>1 DEF Suppressed, Hidden, PlacedIfAny, SyncInv, StoreTypes
  <2>. QED  BY <2>1 DEF Merged, ErasedStaysErased, SyncInv, StoreIsSound
<1>5. ASSUME NEW i \in 1..store.cursor
      PROVE  HasOrErased(i)'
  <2>1. HasOrErased(i) /\ i \in 1..Len(log) /\ i > 0
    BY DEF HasOrErased, SyncInv, StoreIsSound, SyncIsComplete, StoreTypes
  <2>2. CASE i <= store.hidden \/ i \in store.deleted
    BY <2>2 DEF HasOrErased
  <2>3. CASE \E r \in store.rows : r.id = i /\ r.uuid = log[i]
    <3>1. PICK r \in store.rows : r.id = i /\ r.uuid = log[i]
      BY <2>3
    <3>2. CASE r \in Merged(M)
      BY <3>1, <3>2 DEF HasOrErased
    <3>3. CASE r \notin Merged(M)
      <4>1. PICK m \in Accepted(M) : Same(r, m)
        BY <2>1, <3>1, <3>3 DEF Merged
      <4>2. m.id > 0 /\ Placed(log, m)
        BY <1>1, <2>1, <3>1, <4>1 DEF Accepted, PlacedIfAny
      <4>3. m.id = i
        <5>1. CASE r.uuid = m.uuid
          BY <2>1, <3>1, <4>2, <5>1 DEF Placed, SyncInv, LogIsSequence
        <5>2. CASE r.uuid # m.uuid
          BY <3>1, <4>1, <5>2 DEF Same
        <5>. QED  BY <5>1, <5>2
      <4>4. m \in Merged(M) /\ m.uuid = log[i]
        BY <4>1, <4>2, <4>3 DEF Placed, Merged
      <4>. QED  BY <4>3, <4>4 DEF HasOrErased
    <3>. QED  BY <3>2, <3>3
  <2>. QED  BY <2>1, <2>2, <2>3 DEF HasOrErased
<1>6. ASSUME NEW m \in M, m.id > 0
      PROVE  HasOrErased(m.id)'
  <2>1. Placed(log, m) /\ m.id # 0
    BY <1>6 DEF PlacedIfAny
  <2>2. CASE Suppressed(m)
    BY <2>2 DEF Suppressed, Hidden, HasOrErased
  <2>3. CASE ~Suppressed(m)
    <3>1. m \in Accepted(M)
      BY <2>1, <2>3 DEF Accepted
    <3>2. m \in Merged(M) /\ m.uuid = log[m.id]
      BY <2>1, <3>1 DEF Merged, Placed
    <3>. QED  BY <3>2 DEF HasOrErased
  <2>. QED  BY <2>2, <2>3
<1>. QED  BY <1>2, <1>3, <1>4, <1>5, <1>6

\* The other fields of the store after a save.
LEMMA SavedFields ==
  ASSUME SyncInv, NEW M, \A m \in M : PlacedIfAny(log, m), NEW w, w = Saved(M)
  PROVE  /\ w = [rows |-> w.rows, cursor |-> w.cursor, last |-> w.last,
                 hidden |-> w.hidden, deleted |-> w.deleted]
         /\ w.rows = Merged(M) /\ w.cursor = store.cursor /\ w.last \in Nat
         /\ w.hidden = store.hidden /\ w.deleted = store.deleted
<1>. DEFINE x == Largest({store.last} \cup Ids(Accepted(M)))
            R == Merged(M)
<1>1. x \in Nat
  <2>1. PICK S : S = {store.last} \cup Ids(Accepted(M))
    OBVIOUS
  <2>2. Len(log) \in Nat /\ store.last \in Nat
    BY SequenceDomain DEF SyncInv, LogIsSequence, StoreTypes
  <2>3. \A n \in Ids(Accepted(M)) : n \in Nat /\ n <= Len(log)
    BY <2>2 DEF Ids, Accepted, PlacedIfAny, Placed
  <2>4. PICK b : b = store.last + Len(log)
    OBVIOUS
  <2>5. b \in Nat /\ S \in SUBSET Nat /\ store.last \in S /\ \A n \in S : n <= b
    BY <2>1, <2>2, <2>3, <2>4
  <2>6. Largest(S) \in S
    BY <2>5, LargestIsMax
  <2>. QED  BY <2>1, <2>5, <2>6
<1>2. w = [store EXCEPT !.rows = R, !.last = x]
  BY DEF Saved, Merged
<1>. HIDE DEF x, R
<1>3. /\ w = [rows |-> w.rows, cursor |-> w.cursor, last |-> w.last,
              hidden |-> w.hidden, deleted |-> w.deleted]
      /\ w.rows = R /\ w.cursor = store.cursor /\ w.last = x
      /\ w.hidden = store.hidden /\ w.deleted = store.deleted
  BY <1>2 DEF SyncInv, StoreTypes
<1>. QED  BY <1>1, <1>3 DEF R

\* What a step of the store's thread must establish of the store.
StoreKept == /\ (StoreTypes /\ RowsArePlaced /\ StoreIsSound)'
             /\ store.cursor <= store'.cursor

LEMMA SaveKeepsStore ==
  ASSUME SyncInv, NEW o, SaveFits(log, o), store' = Saved(o.records), UNCHANGED log
  PROVE  StoreKept
<1>1. PICK m \in o.records : o.records = {m} /\ PlacedIfAny(log, m)
  BY DEF SaveFits
<1>2. (\A r \in o.records : PlacedIfAny(log, r)) /\ Distinct(o.records)
  BY <1>1 DEF Distinct
<1>3. /\ store' = [rows |-> store'.rows, cursor |-> store'.cursor, last |-> store'.last,
                   hidden |-> store'.hidden, deleted |-> store'.deleted]
      /\ store'.rows = Merged(o.records) /\ store'.cursor = store.cursor
      /\ store'.last \in Nat
      /\ store'.hidden = store.hidden /\ store'.deleted = store.deleted
  BY <1>2, SavedFields
<1>4. /\ RowsArePlaced' /\ OneRowPerMessage' /\ ErasedStaysErased'
      /\ \A i \in 1..store.cursor : HasOrErased(i)'
  BY <1>2, <1>3, MergeKeeps
<1>5. StoreTypes' /\ store.cursor <= store'.cursor
  BY <1>3 DEF SyncInv, StoreTypes
<1>6. SyncIsComplete'
  BY <1>3, <1>4 DEF SyncIsComplete, HasOrErased
<1>. QED  BY <1>4, <1>5, <1>6 DEF StoreKept, StoreIsSound

LEMMA PageKeepsStore ==
  ASSUME SyncInv, NEW o, PageOpFits(log, store.cursor, o),
         store' = SavedPage(o.records, o.next), UNCHANGED log
  PROVE  StoreKept /\ o.next <= store'.cursor
<1>1. /\ o.next \in 0..Len(log)
      /\ \A m \in o.records : m = Row(m.uuid, m.id) /\ Placed(log, m)
  BY DEF PageOpFits, PageFits
<1>2. PICK from \in 0..store.cursor :
         \A i \in (from + 1)..o.next : Row(log[i], i) \in o.records
  BY DEF PageOpFits, PageFits
<1>3. \A m \in o.records : PlacedIfAny(log, m)
  BY <1>1 DEF Placed, PlacedIfAny
<1>4. Distinct(o.records)
  BY <1>1 DEF Distinct, Placed, SyncInv, LogIsSequence
<1>5. store.cursor \in Nat /\ Len(log) \in Nat /\ store.cursor <= Len(log) /\ o.next \in Nat
  BY <1>1, SequenceDomain DEF SyncInv, StoreTypes, LogIsSequence
<1>6. PICK c : c = Largest({store.cursor, o.next})
  OBVIOUS
<1>7. c \in {store.cursor, o.next} /\ store.cursor <= c /\ o.next <= c
  <2>1. PICK S : S = {store.cursor, o.next}
    OBVIOUS
  <2>2. S \in SUBSET Nat /\ store.cursor \in S /\ o.next \in S /\ \A n \in S : n <= Len(log)
    BY <1>1, <1>5, <2>1
  <2>3. Largest(S) \in S /\ \A n \in S : n <= Largest(S)
    BY <1>5, <2>2, LargestIsMax
  <2>. QED  BY <1>6, <2>1, <2>2, <2>3
<1>8. PICK w : w = Saved(o.records)
  OBVIOUS
<1>9. /\ w = [rows |-> w.rows, cursor |-> w.cursor, last |-> w.last,
              hidden |-> w.hidden, deleted |-> w.deleted]
      /\ w.rows = Merged(o.records) /\ w.cursor = store.cursor /\ w.last \in Nat
      /\ w.hidden = store.hidden /\ w.deleted = store.deleted
  BY <1>3, <1>8, SavedFields
<1>10. store' = [w EXCEPT !.cursor = c]
  BY <1>6, <1>8, <1>9 DEF SavedPage
<1>11. /\ store' = [rows |-> store'.rows, cursor |-> store'.cursor, last |-> store'.last,
                    hidden |-> store'.hidden, deleted |-> store'.deleted]
       /\ store'.rows = Merged(o.records) /\ store'.cursor = c /\ store'.last \in Nat
       /\ store'.hidden = store.hidden /\ store'.deleted = store.deleted
  BY <1>9, <1>10
<1>12. /\ RowsArePlaced' /\ OneRowPerMessage' /\ ErasedStaysErased'
       /\ \A i \in 1..store.cursor : HasOrErased(i)'
       /\ \A m \in o.records : m.id > 0 => HasOrErased(m.id)'
  BY <1>3, <1>4, <1>11, MergeKeeps
<1>13. StoreTypes' /\ store.cursor <= store'.cursor /\ o.next <= store'.cursor
  BY <1>1, <1>5, <1>7, <1>11 DEF SyncInv, StoreTypes
<1>14. ASSUME NEW i \in 1..store'.cursor
       PROVE  HasOrErased(i)'
  <2>1. CASE i <= store.cursor
    BY <1>5, <1>7, <1>11, <1>12, <2>1
  <2>2. CASE ~(i <= store.cursor)
    <3>1. i \in (from + 1)..o.next /\ i > 0
      BY <1>2, <1>5, <1>7, <1>11, <2>2
    <3>2. PICK m \in o.records : m = Row(log[i], i)
      BY <1>2, <3>1
    <3>3. m.id = i
      BY <3>2 DEF Row
    <3>. QED  BY <1>12, <3>1, <3>2, <3>3
  <2>. QED  BY <2>1, <2>2
<1>15. SyncIsComplete'
  BY <1>14 DEF SyncIsComplete, HasOrErased
<1>. QED  BY <1>12, <1>13, <1>15 DEF StoreKept, StoreIsSound

LEMMA ClearKeepsStore ==
  ASSUME SyncInv, store' = Cleared, UNCHANGED log
  PROVE  StoreKept
<1>1. PICK S : S = {store.hidden, store.last} \cup Ids(store.rows)
  OBVIOUS
<1>2. PICK h : h = Largest(S)
  OBVIOUS
<1>3. PICK R : R = {r \in store.rows : r.id = 0}
  OBVIOUS
<1>4. h \in Nat /\ \A n \in S : n <= h
  <2>1. Len(log) \in Nat /\ store.last \in Nat /\ store.hidden \in Nat
    BY SequenceDomain DEF SyncInv, LogIsSequence, StoreTypes
  <2>2. \A n \in Ids(store.rows) : n \in Nat /\ n <= Len(log)
    BY <2>1 DEF SyncInv, Ids, RowsArePlaced, PlacedIfAny, Placed
  <2>3. PICK b : b = store.last + store.hidden + Len(log)
    OBVIOUS
  <2>4. b \in Nat /\ S \in SUBSET Nat /\ store.last \in S /\ \A n \in S : n <= b
    BY <1>1, <2>1, <2>2, <2>3
  <2>5. Largest(S) \in S /\ \A n \in S : n <= Largest(S)
    BY <2>4, LargestIsMax
  <2>. QED  BY <1>2, <2>4, <2>5
<1>5. store' = [store EXCEPT !.hidden = h, !.rows = R]
  BY <1>1, <1>2, <1>3 DEF Cleared
<1>6. /\ store' = [rows |-> store'.rows, cursor |-> store'.cursor, last |-> store'.last,
                   hidden |-> store'.hidden, deleted |-> store'.deleted]
      /\ store'.rows = R /\ store'.cursor = store.cursor /\ store'.last = store.last
      /\ store'.hidden = h /\ store'.deleted = store.deleted
  BY <1>5 DEF SyncInv, StoreTypes
<1>7. StoreTypes' /\ store.cursor <= store'.cursor
  BY <1>4, <1>6 DEF SyncInv, StoreTypes
<1>8. RowsArePlaced'
  BY <1>3, <1>6 DEF SyncInv, RowsArePlaced
<1>9. OneRowPerMessage'
  BY <1>3, <1>6 DEF SyncInv, StoreIsSound, OneRowPerMessage
<1>10. ErasedStaysErased'
  BY <1>3, <1>6 DEF ErasedStaysErased
<1>11. SyncIsComplete'
  <2>1. SUFFICES ASSUME NEW i \in 1..store.cursor
                 PROVE  i <= h \/ i \in store.deleted
    BY <1>6 DEF SyncIsComplete
  <2>2. \/ i <= store.hidden \/ i \in store.deleted
        \/ \E r \in store.rows : r.id = i
    BY DEF SyncInv, StoreIsSound, SyncIsComplete
  <2>3. store.hidden \in S /\ store.hidden \in Nat /\ i \in Nat
    BY <1>1 DEF SyncInv, StoreTypes
  <2>4. (\E r \in store.rows : r.id = i) => i \in S
    BY <1>1 DEF Ids
  <2>. QED  BY <1>4, <2>2, <2>3, <2>4
<1>. QED  BY <1>7, <1>8, <1>9, <1>10, <1>11 DEF StoreKept, StoreIsSound

LEMMA DeleteKeepsStore ==
  ASSUME SyncInv, NEW n, store' = Deleted(n), UNCHANGED log
  PROVE  StoreKept
<1>1. PICK R : R = {r \in store.rows : r.id # n}
  OBVIOUS
<1>2. PICK D : D = store.deleted \cup {n}
  OBVIOUS
<1>3. store' = [store EXCEPT !.deleted = D, !.rows = R]
  BY <1>1, <1>2 DEF Deleted
<1>4. /\ store' = [rows |-> store'.rows, cursor |-> store'.cursor, last |-> store'.last,
                   hidden |-> store'.hidden, deleted |-> store'.deleted]
      /\ store'.rows = R /\ store'.cursor = store.cursor /\ store'.last = store.last
      /\ store'.hidden = store.hidden /\ store'.deleted = D
  BY <1>3 DEF SyncInv, StoreTypes
<1>5. StoreTypes' /\ store.cursor <= store'.cursor
  BY <1>4 DEF SyncInv, StoreTypes
<1>6. RowsArePlaced'
  BY <1>1, <1>4 DEF SyncInv, RowsArePlaced
<1>7. OneRowPerMessage'
  BY <1>1, <1>4 DEF SyncInv, StoreIsSound, OneRowPerMessage
<1>8. ErasedStaysErased'
  BY <1>1, <1>2, <1>4 DEF SyncInv, StoreIsSound, ErasedStaysErased
<1>9. SyncIsComplete'
  BY <1>1, <1>2, <1>4 DEF SyncInv, StoreIsSound, SyncIsComplete
<1>. QED  BY <1>5, <1>6, <1>7, <1>8, <1>9 DEF StoreKept, StoreIsSound

\* An operation that leaves the rows, the cursor and what was erased.
LEMMA PlainKeepsStore ==
  ASSUME SyncInv, NEW n \in Nat,
         store' = [store EXCEPT !.last = n] \/ UNCHANGED store, UNCHANGED log
  PROVE  StoreKept
<1>1. /\ store' = [rows |-> store'.rows, cursor |-> store'.cursor, last |-> store'.last,
                   hidden |-> store'.hidden, deleted |-> store'.deleted]
      /\ store'.rows = store.rows /\ store'.cursor = store.cursor /\ store'.last \in Nat
      /\ store'.hidden = store.hidden /\ store'.deleted = store.deleted
  BY DEF SyncInv, StoreTypes
<1>2. StoreTypes' /\ store.cursor <= store'.cursor
  BY <1>1 DEF SyncInv, StoreTypes
<1>3. (RowsArePlaced /\ StoreIsSound)'
  BY <1>1 DEF SyncInv, RowsArePlaced, StoreIsSound, SyncIsComplete, OneRowPerMessage,
              ErasedStaysErased
<1>. QED  BY <1>2, <1>3 DEF StoreKept

LEMMA ThreadKeepsStore ==
  ASSUME SyncInv, NEW n \in Nat,
         store' = [store EXCEPT !.last = Largest({@, n})], UNCHANGED log
  PROVE  StoreKept
<1>1. PICK S : S = {store.last, n}
  OBVIOUS
<1>2. store.last \in Nat /\ store.last + n \in Nat
  BY DEF SyncInv, StoreTypes
<1>3. S \in SUBSET Nat /\ n \in S /\ \A m \in S : m <= store.last + n
  BY <1>1, <1>2
<1>4. Largest(S) \in Nat
  BY <1>2, <1>3, LargestIsMax
<1>5. store' = [store EXCEPT !.last = Largest(S)]
  BY <1>1
<1>. QED  BY <1>4, <1>5, PlainKeepsStore

LEMMA EffectKeepsStore ==
  ASSUME SyncInv, NEW o, OpFits(log, store.cursor, o), store' = Effect(o), UNCHANGED log
  PROVE  StoreKept /\ (o.kind = "page" => o.next <= store'.cursor)
<1>1. CASE SaveFits(log, o)
  <2>1. o.kind = "save"
    BY <1>1 DEF SaveFits
  <2>2. store' = Saved(o.records)
    BY <2>1 DEF Effect
  <2>. QED  BY <1>1, <2>1, <2>2, SaveKeepsStore
<1>2. CASE PageOpFits(log, store.cursor, o)
  <2>1. o.kind = "page"
    BY <1>2 DEF PageOpFits
  <2>2. store' = SavedPage(o.records, o.next)
    BY <2>1 DEF Effect
  <2>. QED  BY <1>2, <2>1, <2>2, PageKeepsStore
<1>3. CASE OtherOp(o)
  <2>1. CASE o.kind = "thread" /\ o.last \in Nat
    <3>1. store' = [store EXCEPT !.last = Largest({@, o.last})]
      BY <2>1 DEF Effect
    <3>. QED  BY <2>1, <3>1, ThreadKeepsStore
  <2>2. CASE o.kind = "delete"
    <3>1. store' = Deleted(o.id)
      BY <2>2 DEF Effect
    <3>. QED  BY <2>2, <3>1, DeleteKeepsStore
  <2>3. CASE o.kind = "clear"
    <3>1. store' = Cleared
      BY <2>3 DEF Effect
    <3>. QED  BY <2>3, <3>1, ClearKeepsStore
  <2>4. CASE o.kind \in {"read", "open"}
    <3>1. store' = store
      BY <2>4 DEF Effect
    <3>. QED  BY <2>4, <3>1, PlainKeepsStore
  <2>. QED  BY <1>3, <2>1, <2>2, <2>3, <2>4 DEF OtherOp
<1>. QED  BY <1>1, <1>2, <1>3 DEF OpFits

LEMMA RunOpKeeps ==
  ASSUME SyncInv, RunOp
  PROVE  SyncInv'
<1>. DEFINE o == Head(ops)
<1>1. /\ ops # <<>> /\ ops' = Tail(ops)
      /\ UNCHANGED <<log, late, toServer, toClient, session, pending, sender, sync>>
  BY DEF RunOp, netVars, clientVars
<1>2. /\ IsSeq(ops') /\ Elems(ops') \subseteq Elems(ops) /\ o \in Elems(ops)
      /\ OpFits(log, store.cursor, o)
  BY <1>1, TailSequence DEF SyncInv, OpsFit
<1>3. \/ store' = Effect(o)
      \/ UNCHANGED store
  BY DEF RunOp
<1>4. StoreKept
  <2>1. CASE store' = Effect(o)
    BY <1>1, <1>2, <2>1, EffectKeepsStore
  <2>2. CASE UNCHANGED store
    BY <1>1, <2>2, PlainKeepsStore
  <2>. QED  BY <1>3, <2>1, <2>2
<1>5. Grows(log, log') /\ store.cursor \in Nat /\ store'.cursor \in Nat
      /\ store.cursor <= store'.cursor
  BY <1>1, <1>4, SequenceDomain DEF Grows, SyncInv, LogIsSequence, StoreKept, StoreTypes
<1>6. /\ RequestsFit' /\ PacketsFit' /\ ConfirmedIsWritten' /\ QueueIsSequence'
      /\ CursorIsStored' /\ LogIsSequence'
      /\ (StoreTypes /\ RowsArePlaced /\ StoreIsSound)'
  BY <1>1, <1>4, <1>5, FitsLater DEF StoreKept, SyncInv, LogIsSequence
<1>. DEFINE c == store'.cursor
<1>7. \A x : OpFits(log, store.cursor, x) => OpFits(log, c, x)
  BY <1>1, <1>5, OpFitsLater
<1>8. OpsFit'
  BY <1>1, <1>2, <1>7 DEF SyncInv, OpsFit
<1>9. DoneFit'
  <2>1. CASE UNCHANGED done
    BY <1>5, <2>1, FitsLater
  <2>2. CASE ~UNCHANGED done
    <3>1. PICK d : /\ done' = Append(done, d)
                   /\ d.op = o /\ d.cursor = store.cursor
                   /\ d.ok => store' = Effect(o)
      <4>1. CASE store' = Effect(o) /\ done' = Append(done, [op |-> o, ok |-> TRUE,
                              gone |-> IF o.kind \in {"save", "page"}
                                       THEN {m.uuid : m \in {x \in o.records : Suppressed(x)}}
                                       ELSE {},
                              rows |-> IF o.kind = "read" THEN store.rows ELSE {},
                              cursor |-> store.cursor])
        BY <4>1
      <4>2. CASE done' = Append(done, [op |-> o, ok |-> FALSE, gone |-> {},
                                       rows |-> {}, cursor |-> store.cursor])
        BY <4>2
      <4>. QED  BY <2>2, <4>1, <4>2 DEF RunOp
    <3>2. (d.ok /\ o.kind = "page") => o.next <= c
      BY <1>1, <1>2, <3>1, EffectKeepsStore
    <3>3. DoneFits(log, c, d)
      BY <1>2, <1>5, <1>7, <3>1, <3>2 DEF DoneFits
    <3>4. IsSeq(done') /\ Elems(done') = Elems(done) \cup {d}
      BY <3>1, AppendSequence DEF SyncInv, DoneFit
    <3>5. \A x \in Elems(done) : DoneFits(log, c, x)
      BY <1>1, <1>5, DoneFitsLater DEF SyncInv, DoneFit
    <3>6. \A x \in Elems(done') : DoneFits(log, c, x)
      BY <3>3, <3>4, <3>5
    <3>. QED  BY <1>1, <3>4, <3>6 DEF DoneFit
  <2>. QED  BY <2>1, <2>2
<1>. QED  BY <1>6, <1>8, <1>9 DEF SyncInv

----------------------------------------------------------------------------
(* Steps that leave the log and the store                                  *)

Standing == UNCHANGED <<log, store>>

LEMMA StandingKeeps ==
  ASSUME SyncInv, Standing
  PROVE  /\ (LogIsSequence /\ StoreTypes /\ RowsArePlaced /\ StoreIsSound)'
         /\ UNCHANGED ops => OpsFit'
         /\ UNCHANGED done => DoneFit'
         /\ UNCHANGED toServer => RequestsFit'
         /\ UNCHANGED toClient => PacketsFit'
         /\ UNCHANGED sync => CursorIsStored'
         /\ UNCHANGED pending => ConfirmedIsWritten'
         /\ UNCHANGED sender => QueueIsSequence'
<1>1. (LogIsSequence /\ StoreTypes /\ RowsArePlaced)'
  BY DEF SyncInv, Standing, LogIsSequence, StoreTypes, RowsArePlaced
<1>2. StoreIsSound'
  BY DEF SyncInv, Standing, StoreIsSound, SyncIsComplete, OneRowPerMessage, ErasedStaysErased
<1>3. Grows(log, log') /\ store.cursor <= store'.cursor /\ store'.cursor \in Nat
  BY SequenceDomain DEF SyncInv, Standing, LogIsSequence, StoreTypes, Grows
<1>. QED  BY <1>1, <1>2, <1>3, FitsLater

LEMMA QueueOp ==
  ASSUME SyncInv, Standing, NEW o, OpFits(log, store.cursor, o), ops' = Append(ops, o)
  PROVE  OpsFit'
<1>1. IsSeq(ops') /\ Elems(ops') = Elems(ops) \cup {o}
  BY AppendSequence DEF SyncInv, OpsFit
<1>. QED  BY <1>1 DEF SyncInv, OpsFit, Standing

LEMMA OwnSaveFits ==
  ASSUME NEW u, NEW by, by # "live"
  PROVE  OpFits(log, store.cursor, SaveOp(by, {Row(u, 0)}))
<1>1. PICK m : m = Row(u, 0)
  OBVIOUS
<1>2. PICK o : o = SaveOp(by, {m})
  OBVIOUS
<1>3. m.id = 0 /\ PlacedIfAny(log, m)
  BY <1>1 DEF Row, PlacedIfAny
<1>4. o.kind = "save" /\ o.by = by /\ o.records = {m}
      /\ o = [kind |-> "save", by |-> o.by, records |-> o.records, live |-> o.live]
  BY <1>2 DEF SaveOp
<1>5. SaveFits(log, o)
  BY <1>3, <1>4 DEF SaveFits
<1>. QED  BY <1>1, <1>2, <1>5 DEF OpFits

LEMMA PlacedSaveFits ==
  ASSUME NEW u, NEW n, NEW by, n \in 1..Len(log), log[n] = u
  PROVE  OpFits(log, store.cursor, SaveOp(by, {Row(u, n)}))
<1>1. PICK m : m = Row(u, n)
  OBVIOUS
<1>2. PICK o : o = SaveOp(by, {m})
  OBVIOUS
<1>3. m.id > 0 /\ PlacedIfAny(log, m)
  BY <1>1 DEF Row, PlacedIfAny, Placed
<1>4. o.kind = "save" /\ o.by = by /\ o.records = {m}
      /\ o = [kind |-> "save", by |-> o.by, records |-> o.records, live |-> o.live]
  BY <1>2 DEF SaveOp
<1>5. SaveFits(log, o)
  BY <1>3, <1>4 DEF SaveFits
<1>. QED  BY <1>1, <1>2, <1>5 DEF OpFits

LEMMA AskKeeps ==
  ASSUME SyncInv, Standing, NEW c \in 0..store.cursor, Ask(c)
  PROVE  RequestsFit'
<1>1. PICK r : r = [kind |-> "load", from |-> c, current |-> TRUE]
  OBVIOUS
<1>2. RequestFits(store.cursor, r)
  BY <1>1 DEF RequestFits
<1>3. toServer' = Append(toServer, r)
  BY <1>1 DEF Ask
<1>4. IsSeq(toServer') /\ Elems(toServer') = Elems(toServer) \cup {r}
  BY <1>3, AppendSequence DEF SyncInv, RequestsFit
<1>. QED  BY <1>2, <1>4 DEF SyncInv, RequestsFit, Standing

LEMMA PendingKeeps ==
  ASSUME SyncInv, Standing, DOMAIN pending' = Mine,
         \A u \in Mine : pending'[u] = "confirmed" => pending[u] = "confirmed" \/ u \in Elems(log)
  PROVE  ConfirmedIsWritten'
BY DEF SyncInv, ConfirmedIsWritten, Standing

LEMMA FailedKeeps ==
  ASSUME SyncInv, Standing, NEW U, pending' = Failed(U)
  PROVE  ConfirmedIsWritten'
<1>1. DOMAIN pending' = Mine /\ \A u \in Mine : pending'[u] \in {"failed", pending[u]}
  BY DEF Failed
<1>. QED  BY <1>1, PendingKeeps

LEMMA SendKeeps ==
  ASSUME SyncInv, NEW u \in Mine, Send(u)
  PROVE  SyncInv'
<1>1. /\ Standing /\ UNCHANGED <<toServer, toClient, pending, sync, done>>
      /\ sender' = [sender EXCEPT !.saving = TRUE]
      /\ ops' = Append(ops, SaveOp("send", {Row(u, 0)}))
  BY DEF Send, Standing, netVars
<1>2. QueueIsSequence'
  BY <1>1 DEF SyncInv, QueueIsSequence
<1>3. OpsFit'
  BY <1>1, OwnSaveFits, QueueOp
<1>. QED  BY <1>1, <1>2, <1>3, StandingKeeps DEF SyncInv

LEMMA RetryMessageKeeps ==
  ASSUME SyncInv, NEW u \in Mine, RetryMessage(u)
  PROVE  SyncInv'
<1>1. /\ Standing /\ UNCHANGED <<toServer, toClient, sync, done>>
      /\ pending' = [pending EXCEPT ![u] = "sending"]
      /\ sender' = [sender EXCEPT !.retrying = @ \cup {u}]
      /\ ops' = Append(ops, SaveOp("retry", {Row(u, 0)}))
  BY DEF RetryMessage, Standing, netVars
<1>2. QueueIsSequence'
  BY <1>1 DEF SyncInv, QueueIsSequence
<1>3. OpsFit'
  BY <1>1, OwnSaveFits, QueueOp
<1>4. DOMAIN pending' = Mine /\ \A v \in Mine : pending'[v] \in {"sending", pending[v]}
  BY <1>1 DEF SyncInv, ConfirmedIsWritten
<1>5. ConfirmedIsWritten'
  BY <1>1, <1>4, PendingKeeps
<1>. QED  BY <1>1, <1>2, <1>3, <1>5, StandingKeeps DEF SyncInv

LEMMA SendTimeoutKeeps ==
  ASSUME SyncInv, NEW u \in Mine, SendTimeout(u)
  PROVE  SyncInv'
<1>1. /\ Standing /\ UNCHANGED <<toServer, toClient, sync, ops, done>>
      /\ pending' = Failed({u}) \/ UNCHANGED pending
      /\ sender' = [sender EXCEPT !.timer = @ \ {u}]
  BY DEF SendTimeout, Standing, netVars, storeVars
<1>2. QueueIsSequence'
  BY <1>1 DEF SyncInv, QueueIsSequence
<1>3. ConfirmedIsWritten'
  BY <1>1, FailedKeeps, StandingKeeps
<1>. QED  BY <1>1, <1>2, <1>3, StandingKeeps DEF SyncInv

LEMMA UploadFinishedKeeps ==
  ASSUME SyncInv, NEW u \in Mine, UploadFinished(u)
  PROVE  SyncInv'
<1>1. Standing /\ UNCHANGED <<toClient, sync, done>>
  BY DEF UploadFinished, Standing
<1>2. CASE /\ sender' = [sender EXCEPT !.upload = None, !.committing = TRUE]
           /\ ops' = Append(ops, SaveOp("upload",
                {IF pending[u] = "confirmed"
                 THEN Row(u, CHOOSE n \in DOMAIN log : log[n] = u)
                 ELSE Row(u, 0)}))
           /\ UNCHANGED <<pending, toServer, incidents>>
  <2>1. QueueIsSequence'
    BY <1>2 DEF SyncInv, QueueIsSequence
  <2>2. OpsFit'
    <3>1. CASE pending[u] = "confirmed"
      <4>1. PICK n : n = CHOOSE k \in DOMAIN log : log[k] = u
        OBVIOUS
      <4>2. \E k \in DOMAIN log : log[k] = u
        BY <3>1 DEF SyncInv, ConfirmedIsWritten, Elems
      <4>3. n \in 1..Len(log) /\ log[n] = u
        BY <4>1, <4>2, SequenceDomain DEF SyncInv, LogIsSequence
      <4>4. ops' = Append(ops, SaveOp("upload", {Row(u, n)}))
        BY <1>2, <3>1, <4>1
      <4>. QED  BY <1>1, <4>3, <4>4, PlacedSaveFits, QueueOp
    <3>2. CASE pending[u] # "confirmed"
      <4>1. ops' = Append(ops, SaveOp("upload", {Row(u, 0)}))
        BY <1>2, <3>2
      <4>. QED  BY <1>1, <4>1, OwnSaveFits, QueueOp
    <3>. QED  BY <3>1, <3>2
  <2>. QED  BY <1>1, <1>2, <2>1, <2>2, StandingKeeps DEF SyncInv
<1>3. CASE /\ pending' = Failed({u})
           /\ SendNextMessage([sender EXCEPT !.upload = None], <<>>, sender.queue)
           /\ UNCHANGED ops
  <2>1. PICK s : s = [sender EXCEPT !.upload = None]
    OBVIOUS
  <2>2. {"queue", "upload", "timer"} \subseteq DOMAIN s /\ IsSeq(sender.queue) /\ IsSeq(<<>>)
    BY <2>1, EmptySequence DEF SyncInv, QueueIsSequence
  <2>3. SendNextMessage(s, <<>>, sender.queue) /\ UNCHANGED store
    BY <1>1, <1>3, <2>1 DEF Standing
  <2>4. QueueIsSequence' /\ RequestsFit'
    BY <2>2, <2>3, SendNextKeeps
  <2>5. ConfirmedIsWritten'
    BY <1>1, <1>3, FailedKeeps
  <2>. QED  BY <1>1, <1>3, <2>4, <2>5, StandingKeeps DEF SyncInv
<1>. QED  BY <1>2, <1>3 DEF UploadFinished

----------------------------------------------------------------------------
(* Callbacks                                                               *)

LEMMA CallbackTakes ==
  ASSUME SyncInv, Standing, NEW kind, NEW by, Callback(kind, by)
  PROVE  /\ DoneFit' /\ DoneFits(log, store.cursor, Head(done))
         /\ Head(done).op.kind = kind
         /\ kind = "save" => Head(done).op.by = by
<1>1. done # <<>> /\ done' = Tail(done)
  BY DEF Callback
<1>2. IsSeq(done') /\ Elems(done') \subseteq Elems(done) /\ Head(done) \in Elems(done)
  BY <1>1, TailSequence DEF SyncInv, DoneFit
<1>. QED  BY <1>2 DEF Callback, SyncInv, DoneFit, Standing

LEMMA SettledKeeps ==
  ASSUME SyncInv, Standing, NEW d, \A m \in d.op.records : Placed(log, m),
         pending' = Settled(d)
  PROVE  ConfirmedIsWritten'
<1>1. DOMAIN pending' = Mine
  BY DEF Settled
<1>2. ASSUME NEW u \in Mine, pending'[u] = "confirmed", pending[u] # "confirmed"
      PROVE  u \in Elems(log)
  <2>1. PICK m \in d.op.records : m.uuid = u
    BY <1>2 DEF Settled
  <2>2. m.id \in DOMAIN log /\ log[m.id] = u
    BY <2>1, SequenceDomain DEF SyncInv, LogIsSequence, Placed
  <2>. QED  BY <2>2 DEF Elems
<1>. QED  BY <1>1, <1>2, PendingKeeps

LEMMA SendSavedKeeps ==
  ASSUME SyncInv, SendSaved
  PROVE  SyncInv'
<1>1. Standing /\ UNCHANGED <<toClient, sync, ops>>
  BY DEF SendSaved, Standing
<1>2. DoneFit'
  BY <1>1, CallbackTakes DEF SendSaved
<1>3. PICK u : u = UuidOf(Head(done))
  OBVIOUS
<1>4. PICK s : s = [sender EXCEPT !.saving = FALSE]
  OBVIOUS
<1>5. {"queue", "upload", "timer"} \subseteq DOMAIN s /\ s.queue = sender.queue /\ IsSeq(s.queue)
  BY <1>4 DEF SyncInv, QueueIsSequence
<1>6. CASE /\ pending' = [pending EXCEPT ![u] = "sending"]
           /\ SendNextMessage(s, <<>>, Append(sender.queue, u))
  <2>1. IsSeq(<<>>) /\ IsSeq(Append(sender.queue, u))
    BY <1>5, EmptySequence, AppendSequence
  <2>2. QueueIsSequence' /\ RequestsFit'
    BY <1>1, <1>5, <1>6, <2>1, SendNextKeeps DEF Standing
  <2>3. DOMAIN pending' = Mine /\ \A v \in Mine : pending'[v] \in {"sending", pending[v]}
    BY <1>6 DEF SyncInv, ConfirmedIsWritten
  <2>4. ConfirmedIsWritten'
    BY <1>1, <2>3, PendingKeeps
  <2>. QED  BY <1>1, <1>2, <2>2, <2>4, StandingKeeps DEF SyncInv
<1>7. CASE sender' = s /\ UNCHANGED <<pending, toServer>>
  <2>1. QueueIsSequence'
    BY <1>5, <1>7 DEF QueueIsSequence
  <2>. QED  BY <1>1, <1>2, <1>7, <2>1, StandingKeeps DEF SyncInv
<1>. QED  BY <1>3, <1>4, <1>6, <1>7 DEF SendSaved

LEMMA RetrySavedKeeps ==
  ASSUME SyncInv, RetrySaved
  PROVE  SyncInv'
<1>1. Standing /\ UNCHANGED <<toClient, sync, ops>>
  BY DEF RetrySaved, Standing
<1>2. DoneFit'
  BY <1>1, CallbackTakes DEF RetrySaved
<1>3. PICK u : u = UuidOf(Head(done))
  OBVIOUS
<1>4. PICK s : s = [sender EXCEPT !.retrying = @ \ {u}]
  OBVIOUS
<1>5. {"queue", "upload", "timer"} \subseteq DOMAIN s /\ s.queue = sender.queue /\ IsSeq(s.queue)
  BY <1>4 DEF SyncInv, QueueIsSequence
<1>6. CASE SendNextMessage(s, <<>>, Append(s.queue, u)) /\ UNCHANGED pending
  <2>1. IsSeq(<<>>) /\ IsSeq(Append(s.queue, u))
    BY <1>5, EmptySequence, AppendSequence
  <2>2. QueueIsSequence' /\ RequestsFit'
    BY <1>1, <1>5, <1>6, <2>1, SendNextKeeps DEF Standing
  <2>. QED  BY <1>1, <1>2, <1>6, <2>2, StandingKeeps DEF SyncInv
<1>7. CASE pending' = Failed({u}) /\ sender' = s /\ UNCHANGED toServer
  <2>1. QueueIsSequence'
    BY <1>5, <1>7 DEF QueueIsSequence
  <2>2. ConfirmedIsWritten'
    BY <1>1, <1>7, FailedKeeps
  <2>. QED  BY <1>1, <1>2, <1>7, <2>1, <2>2, StandingKeeps DEF SyncInv
<1>. QED  BY <1>3, <1>4, <1>6, <1>7 DEF RetrySaved

LEMMA UploadSavedKeeps ==
  ASSUME SyncInv, UploadSaved
  PROVE  SyncInv'
<1>1. Standing /\ UNCHANGED <<toClient, sync, ops>>
  BY DEF UploadSaved, Standing
<1>2. DoneFit'
  BY <1>1, CallbackTakes DEF UploadSaved
<1>3. PICK u : u = UuidOf(Head(done))
  OBVIOUS
<1>4. PICK s : s = [sender EXCEPT !.committing = FALSE]
  OBVIOUS
<1>5. {"queue", "upload", "timer"} \subseteq DOMAIN s /\ s.queue = sender.queue /\ IsSeq(s.queue)
  BY <1>4 DEF SyncInv, QueueIsSequence
<1>6. PICK one : one = <<u>>
  OBVIOUS
<1>7. IsSeq(<<>>) /\ IsSeq(one)
  <2>1. one = Append(<<>>, u)
    BY <1>6
  <2>. QED  BY <2>1, EmptySequence, AppendSequence
<1>8. \/ SendNextMessage(s, one, s.queue) /\ UNCHANGED pending
      \/ SendNextMessage(s, <<>>, s.queue) /\ pending' = Failed({u})
  BY <1>3, <1>4, <1>6 DEF UploadSaved
<1>9. QueueIsSequence' /\ RequestsFit'
  BY <1>1, <1>5, <1>7, <1>8, SendNextKeeps DEF Standing
<1>10. ConfirmedIsWritten'
  BY <1>1, <1>8, FailedKeeps, StandingKeeps
<1>. QED  BY <1>1, <1>2, <1>9, <1>10, StandingKeeps DEF SyncInv

LEMMA LiveSavedKeeps ==
  ASSUME SyncInv, LiveSaved
  PROVE  SyncInv'
<1>1. Standing /\ UNCHANGED <<toServer, toClient, sender, sync, ops>>
  BY DEF LiveSaved, Standing, netVars
<1>2. PICK d : d = Head(done)
  OBVIOUS
<1>3. DoneFit' /\ DoneFits(log, store.cursor, d) /\ d.op.kind = "save" /\ d.op.by = "live"
  BY <1>1, <1>2, CallbackTakes DEF LiveSaved
<1>4. \A m \in d.op.records : Placed(log, m)
  BY <1>3 DEF DoneFits, OpFits, SaveFits, PageOpFits, OtherOp, PlacedIfAny
<1>5. pending' = Settled(d) \/ UNCHANGED pending
  BY <1>2 DEF LiveSaved
<1>6. ConfirmedIsWritten'
  BY <1>1, <1>4, <1>5, SettledKeeps, StandingKeeps
<1>. QED  BY <1>1, <1>3, <1>6, StandingKeeps DEF SyncInv

LEMMA PageSavedKeeps ==
  ASSUME SyncInv, PageSaved
  PROVE  SyncInv'
<1>1. Standing /\ UNCHANGED <<toClient, sender, ops>>
  BY DEF PageSaved, Standing
<1>2. PICK d : d = Head(done)
  OBVIOUS
<1>3. DoneFit' /\ DoneFits(log, store.cursor, d) /\ d.op.kind = "page"
  BY <1>1, <1>2, CallbackTakes DEF PageSaved
<1>4. CASE /\ d.ok /\ pending' = Settled(d)
           /\ sync' = [sync EXCEPT !.cursor = d.op.next,
                                   !.complete = @ \/ ~d.op.more,
                                   !.hist = IF d.op.more THEN "asked" ELSE "idle"]
           /\ IF d.op.more THEN Ask(d.op.next) ELSE UNCHANGED toServer
  <2>1. PageFits(log, store.cursor, d.op)
    BY <1>3 DEF DoneFits, OpFits, SaveFits, PageOpFits, OtherOp
  <2>2. \A m \in d.op.records : Placed(log, m)
    BY <2>1 DEF PageFits
  <2>3. d.op.next \in 0..store.cursor
    BY <1>3, <1>4, <2>1 DEF DoneFits, PageFits, SyncInv, StoreTypes
  <2>4. ConfirmedIsWritten'
    BY <1>1, <1>4, <2>2, SettledKeeps
  <2>5. "cursor" \in DOMAIN sync' /\ sync'.cursor = d.op.next
    BY <1>4 DEF SyncInv, CursorIsStored
  <2>6. CursorIsStored'
    BY <1>1, <2>3, <2>5 DEF CursorIsStored, Standing
  <2>7. RequestsFit'
    BY <1>1, <1>4, <2>3, AskKeeps, StandingKeeps
  <2>. QED  BY <1>1, <1>3, <2>4, <2>6, <2>7, StandingKeeps DEF SyncInv
<1>5. CASE sync' = [sync EXCEPT !.hist = "idle"] /\ UNCHANGED <<pending, toServer>>
  <2>1. CursorIsStored'
    BY <1>1, <1>5 DEF SyncInv, CursorIsStored, Standing
  <2>. QED  BY <1>1, <1>3, <1>5, <2>1, StandingKeeps DEF SyncInv
<1>. QED  BY <1>2, <1>4, <1>5 DEF PageSaved

LEMMA LocalReadKeeps ==
  ASSUME SyncInv, LocalRead
  PROVE  SyncInv'
<1>1. Standing /\ UNCHANGED <<toServer, toClient, sender, sync, ops>>
  BY DEF LocalRead, Standing, netVars
<1>2. DoneFit'
  BY <1>1, CallbackTakes DEF LocalRead
<1>3. DOMAIN pending' = Mine /\ \A u \in Mine : pending'[u] \in {"failed", pending[u]}
  BY DEF LocalRead
<1>4. ConfirmedIsWritten'
  BY <1>1, <1>3, PendingKeeps
<1>. QED  BY <1>1, <1>2, <1>4, StandingKeeps DEF SyncInv

LEMMA SessionOpenedKeeps ==
  ASSUME SyncInv, SessionOpened
  PROVE  SyncInv'
<1>1. /\ Standing /\ UNCHANGED <<toClient, pending, sender>>
      /\ sync' = [sync EXCEPT !.cursor = Head(done).cursor]
      /\ ops' = Append(ops, Plain("read"))
      /\ toServer' = Append(toServer, [kind |-> "threads"])
  BY DEF SessionOpened, Standing
<1>2. DoneFit' /\ DoneFits(log, store.cursor, Head(done))
  BY <1>1, CallbackTakes DEF SessionOpened
<1>3. CursorIsStored'
  BY <1>1, <1>2 DEF SyncInv, CursorIsStored, DoneFits, Standing
<1>4. OpFits(log, store.cursor, Plain("read"))
  BY DEF OpFits, OtherOp, Plain
<1>5. OpsFit'
  BY <1>1, <1>4, QueueOp
<1>6. PICK r : r = [kind |-> "threads"]
  OBVIOUS
<1>7. RequestFits(store.cursor, r)
  BY <1>6 DEF RequestFits
<1>8. IsSeq(toServer') /\ Elems(toServer') = Elems(toServer) \cup {r}
  BY <1>1, <1>6, AppendSequence DEF SyncInv, RequestsFit
<1>9. RequestsFit'
  BY <1>1, <1>7, <1>8 DEF SyncInv, RequestsFit, Standing
<1>. QED  BY <1>1, <1>2, <1>3, <1>5, <1>9, StandingKeeps DEF SyncInv

----------------------------------------------------------------------------
(* Timers and the session                                                  *)

LEMMA RefreshKeeps ==
  ASSUME SyncInv, Refresh
  PROVE  SyncInv'
<1>1. /\ Standing /\ UNCHANGED <<toClient, pending, sender, ops, done>>
      /\ sync' = [sync EXCEPT !.complete = FALSE, !.hist = "asked"]
      /\ Ask(sync.cursor)
  BY DEF Refresh, Standing, storeVars
<1>2. CursorIsStored'
  BY <1>1 DEF SyncInv, CursorIsStored, Standing
<1>3. RequestsFit'
  BY <1>1, AskKeeps DEF SyncInv, CursorIsStored
<1>. QED  BY <1>1, <1>2, <1>3, StandingKeeps DEF SyncInv

LEMMA HistoryTimeoutKeeps ==
  ASSUME SyncInv, HistoryTimeout
  PROVE  SyncInv'
<1>1. /\ Standing /\ UNCHANGED <<pending, sender, ops, done>>
      /\ sync' = [sync EXCEPT !.hist = "idle"]
      /\ toServer' = [i \in DOMAIN toServer |->
            IF toServer[i].kind = "load" THEN [toServer[i] EXCEPT !.current = FALSE]
                                         ELSE toServer[i]]
      /\ toClient' = [i \in DOMAIN toClient |->
            IF toClient[i].kind = "page" THEN [toClient[i] EXCEPT !.current = FALSE]
                                         ELSE toClient[i]]
  BY DEF HistoryTimeout, Standing, storeVars
<1>2. CursorIsStored'
  BY <1>1 DEF SyncInv, CursorIsStored, Standing
<1>3. RequestsFit'
  <2>1. IsSeq(toServer')
    BY <1>1, MappedSequence DEF SyncInv, RequestsFit
  <2>2. ASSUME NEW i \in DOMAIN toServer
        PROVE  RequestFits(store.cursor, toServer'[i])
    <3>1. PICK r : r = toServer[i]
      OBVIOUS
    <3>2. RequestFits(store.cursor, r)
      BY <3>1 DEF SyncInv, RequestsFit, Elems
    <3>3. CASE r.kind = "load"
      <4>1. PICK w : w = [r EXCEPT !.current = FALSE]
        OBVIOUS
      <4>2. w = [kind |-> "load", from |-> r.from, current |-> FALSE] /\ r.from \in 0..store.cursor
        BY <3>2, <3>3, <4>1 DEF RequestFits
      <4>3. RequestFits(store.cursor, w)
        BY <4>2 DEF RequestFits
      <4>. QED  BY <1>1, <3>1, <3>3, <4>1, <4>3
    <3>4. CASE r.kind # "load"
      BY <1>1, <3>1, <3>2, <3>4
    <3>. QED  BY <3>3, <3>4
  <2>. QED  BY <1>1, <2>1, <2>2 DEF RequestsFit, Elems, Standing
<1>4. PacketsFit'
  <2>1. IsSeq(toClient')
    BY <1>1, MappedSequence DEF SyncInv, PacketsFit
  <2>2. ASSUME NEW i \in DOMAIN toClient
        PROVE  PacketFits(log, store.cursor, toClient'[i])
    <3>1. PICK m : m = toClient[i]
      OBVIOUS
    <3>2. PacketFits(log, store.cursor, m)
      BY <3>1 DEF SyncInv, PacketsFit, Elems
    <3>3. CASE m.kind = "page"
      <4>1. PICK w : w = [m EXCEPT !.current = FALSE]
        OBVIOUS
      <4>2. /\ w = [kind |-> "page", next |-> m.next, more |-> m.more,
                    current |-> FALSE, records |-> m.records]
            /\ PageFits(log, store.cursor, m)
        BY <3>2, <3>3, <4>1 DEF PacketFits
      <4>3. w.kind = "page" /\ w.next = m.next /\ w.records = m.records
            /\ w = [kind |-> "page", next |-> w.next, more |-> w.more,
                    current |-> w.current, records |-> w.records]
        BY <4>2
      <4>4. PacketFits(log, store.cursor, w)
        BY <4>2, <4>3 DEF PacketFits, PageFits
      <4>. QED  BY <1>1, <3>1, <3>3, <4>1, <4>4
    <3>4. CASE m.kind # "page"
      BY <1>1, <3>1, <3>2, <3>4
    <3>. QED  BY <3>3, <3>4
  <2>. QED  BY <1>1, <2>1, <2>2 DEF PacketsFit, Elems, Standing
<1>. QED  BY <1>1, <1>2, <1>3, <1>4, StandingKeeps DEF SyncInv

LEMMA LoginKeeps ==
  ASSUME SyncInv, Login
  PROVE  SyncInv'
<1>1. /\ Standing /\ UNCHANGED <<toServer, toClient, pending, sender, sync, done>>
      /\ ops' = Append(ops, Plain("open"))
  BY DEF Login, Standing, netVars
<1>2. OpFits(log, store.cursor, Plain("open"))
  BY DEF OpFits, OtherOp, Plain
<1>3. OpsFit'
  BY <1>1, <1>2, QueueOp
<1>. QED  BY <1>1, <1>3, StandingKeeps DEF SyncInv

LEMMA EraseKeeps ==
  ASSUME SyncInv, Erase
  PROVE  SyncInv'
<1>1. /\ Standing /\ UNCHANGED <<toServer, toClient, pending, sender, sync, done>>
  BY DEF Erase, Standing, netVars, clientVars
<1>2. PICK o : ops' = Append(ops, o) /\ OtherOp(o)
  <2>1. CASE ops' = Append(ops, [kind |-> "clear", live |-> FALSE])
    <3>1. OtherOp([kind |-> "clear", live |-> FALSE])
      BY DEF OtherOp
    <3>. QED  BY <2>1, <3>1
  <2>2. CASE \E r \in store.rows :
                ops' = Append(ops, [kind |-> "delete", id |-> r.id, live |-> FALSE])
    <3>1. PICK r \in store.rows :
             ops' = Append(ops, [kind |-> "delete", id |-> r.id, live |-> FALSE])
      BY <2>2
    <3>2. OtherOp([kind |-> "delete", id |-> r.id, live |-> FALSE])
      BY DEF OtherOp
    <3>. QED  BY <3>1, <3>2
  <2>. QED  BY <2>1, <2>2 DEF Erase
<1>3. OpsFit'
  BY <1>1, <1>2, QueueOp DEF OpFits
<1>. QED  BY <1>1, <1>3, StandingKeeps DEF SyncInv

\* A queued operation whose session is gone.
LEMMA OrphanFits ==
  ASSUME NEW L, NEW c, NEW o, OpFits(L, c, o), NEW w, w = [o EXCEPT !.live = FALSE]
  PROVE  OpFits(L, c, w)
<1>1. CASE SaveFits(L, o)
  <2>1. w = [kind |-> "save", by |-> o.by, records |-> o.records, live |-> FALSE]
    BY <1>1 DEF SaveFits
  <2>2. w.kind = "save" /\ w.by = o.by /\ w.records = o.records /\ w.live = FALSE
    BY <2>1
  <2>3. SaveFits(L, w)
    BY <1>1, <2>1, <2>2 DEF SaveFits
  <2>. QED  BY <2>3 DEF OpFits
<1>2. CASE PageOpFits(L, c, o)
  <2>1. w = [kind |-> "page", records |-> o.records, next |-> o.next, more |-> o.more,
             live |-> FALSE]
    BY <1>2 DEF PageOpFits
  <2>2. /\ w.kind = "page" /\ w.next = o.next /\ w.records = o.records
        /\ w.more = o.more /\ w.live = FALSE
    BY <2>1
  <2>3. PageOpFits(L, c, w)
    BY <1>2, <2>1, <2>2 DEF PageOpFits, PageFits
  <2>. QED  BY <2>3 DEF OpFits
<1>3. CASE OtherOp(o)
  <2>1. CASE o.kind = "thread"
    BY <1>3, <2>1 DEF OtherOp, OpFits
  <2>2. CASE o.kind = "delete"
    BY <1>3, <2>2 DEF OtherOp, OpFits
  <2>3. CASE o.kind \in {"clear", "read", "open"}
    BY <1>3, <2>3 DEF OtherOp, OpFits
  <2>. QED  BY <1>3, <2>1, <2>2, <2>3 DEF OtherOp
<1>. QED  BY <1>1, <1>2, <1>3 DEF OpFits

LEMMA EndSessionKeeps ==
  ASSUME SyncInv, EndSession
  PROVE  SyncInv'
<1>1. /\ Standing /\ toServer' = <<>> /\ toClient' = <<>> /\ done' = <<>>
      /\ pending' = [u \in Mine |-> "none"] /\ sender' = FreshSender /\ sync' = FreshSync
  BY DEF EndSession, Standing
<1>2. DoneFit' /\ RequestsFit' /\ PacketsFit'
  BY <1>1, EmptySequence DEF DoneFit, RequestsFit, PacketsFit
<1>3. ConfirmedIsWritten'
  BY <1>1 DEF ConfirmedIsWritten
<1>4. QueueIsSequence'
  BY <1>1, EmptySequence DEF QueueIsSequence, FreshSender
<1>5. CursorIsStored'
  BY <1>1 DEF CursorIsStored, FreshSync, SyncInv, StoreTypes, Standing
<1>6. OpsFit'
  <2>1. CASE ops' = <<>>
    BY <2>1, EmptySequence DEF OpsFit
  <2>2. CASE ops' = [i \in DOMAIN ops |-> [ops[i] EXCEPT !.live = FALSE]]
    <3>1. IsSeq(ops')
      BY <2>2, MappedSequence DEF SyncInv, OpsFit
    <3>2. ASSUME NEW i \in DOMAIN ops
          PROVE  OpFits(log, store.cursor, ops'[i])
      <4>1. PICK o : o = ops[i]
        OBVIOUS
      <4>2. OpFits(log, store.cursor, o) /\ ops'[i] = [o EXCEPT !.live = FALSE]
        BY <2>2, <4>1 DEF SyncInv, OpsFit, Elems
      <4>. QED  BY <4>2, OrphanFits
    <3>. QED  BY <1>1, <2>2, <3>1, <3>2 DEF OpsFit, Elems, Standing
  <2>. QED  BY <2>1, <2>2 DEF EndSession
<1>. QED  BY <1>1, <1>2, <1>3, <1>4, <1>5, <1>6, StandingKeeps DEF SyncInv

LEMMA ReceiveKeeps ==
  ASSUME SyncInv, Receive
  PROVE  SyncInv'
<1>1. /\ Standing /\ UNCHANGED <<sender, done>>
      /\ toClient # <<>> /\ toClient' = Tail(toClient)
  BY DEF Receive, Standing
<1>2. PICK m : m = Head(toClient)
  OBVIOUS
<1>3. /\ IsSeq(toClient') /\ Elems(toClient') \subseteq Elems(toClient)
      /\ m \in Elems(toClient)
  BY <1>1, <1>2, TailSequence DEF SyncInv, PacketsFit
<1>4. PacketsFit' /\ PacketFits(log, store.cursor, m)
  BY <1>1, <1>3 DEF SyncInv, PacketsFit, Standing
<1>5. CASE m.kind = "live" /\ ReceiveMessages(m)
  <2>1. /\ UNCHANGED <<pending, sync, toServer>>
        /\ UNCHANGED ops \/ ops' = Append(ops, SaveOp("live", {Row(m.uuid, m.id)}))
    BY <1>5 DEF ReceiveMessages
  <2>2. m.id \in 1..Len(log) /\ log[m.id] = m.uuid
    BY <1>4, <1>5 DEF PacketFits, Placed
  <2>3. OpFits(log, store.cursor, SaveOp("live", {Row(m.uuid, m.id)}))
    BY <2>2, PlacedSaveFits
  <2>4. OpsFit'
    BY <1>1, <2>1, <2>3, QueueOp, StandingKeeps
  <2>. QED  BY <1>1, <1>4, <2>1, <2>4, StandingKeeps DEF SyncInv
<1>6. CASE ReceiveRefusal
  <2>1. UNCHANGED <<sync, ops, toServer>>
    BY <1>6 DEF ReceiveRefusal
  <2>2. ConfirmedIsWritten'
    BY <1>1, <1>6, FailedKeeps DEF ReceiveRefusal
  <2>. QED  BY <1>1, <1>4, <2>1, <2>2, StandingKeeps DEF SyncInv
<1>7. CASE m.kind = "page" /\ ReceiveHistory(m)
  <2>1. UNCHANGED <<pending, toServer>>
    BY <1>7 DEF ReceiveHistory
  <2>2. CASE /\ sync' = [sync EXCEPT !.hist = "saving"]
             /\ ops' = Append(ops, PageOp(m.records, m.next, m.more))
    <3>1. CursorIsStored'
      BY <1>1, <2>2 DEF SyncInv, CursorIsStored, Standing
    <3>2. PICK o : o = PageOp(m.records, m.next, m.more)
      OBVIOUS
    <3>3. o.kind = "page" /\ o.next = m.next /\ o.records = m.records
          /\ o = [kind |-> "page", records |-> o.records, next |-> o.next, more |-> o.more,
                  live |-> o.live]
      BY <3>2 DEF PageOp
    <3>4. PageFits(log, store.cursor, o)
      BY <1>4, <1>7, <3>3 DEF PacketFits, PageFits
    <3>5. OpsFit'
      BY <1>1, <2>2, <3>2, <3>3, <3>4, QueueOp DEF OpFits, PageOpFits
    <3>. QED  BY <1>1, <1>4, <2>1, <3>1, <3>5, StandingKeeps DEF SyncInv
  <2>3. CASE UNCHANGED <<sync, ops>>
    BY <1>1, <1>4, <2>1, <2>3, StandingKeeps DEF SyncInv
  <2>. QED  BY <1>7, <2>2, <2>3 DEF ReceiveHistory
<1>8. CASE m.kind = "threads" /\ ReceiveThreads(m)
  <2>1. UNCHANGED pending
    BY <1>8 DEF ReceiveThreads
  <2>2. PICK o : o = [kind |-> "thread", last |-> m.last, live |-> FALSE]
    OBVIOUS
  <2>3. OpFits(log, store.cursor, o)
    BY <1>4, <1>8, <2>2 DEF PacketFits, OpFits, OtherOp
  <2>4. OpsFit'
    BY <1>1, <1>8, <2>2, <2>3, QueueOp DEF ReceiveThreads
  <2>5. \/ sync' = [sync EXCEPT !.hist = "asked"] /\ Ask(sync.cursor)
        \/ UNCHANGED <<sync, toServer>>
    BY <1>8 DEF ReceiveThreads
  <2>6. CursorIsStored'
    BY <1>1, <2>5 DEF SyncInv, CursorIsStored, Standing
  <2>7. RequestsFit'
    BY <1>1, <2>5, AskKeeps, StandingKeeps DEF SyncInv, CursorIsStored
  <2>. QED  BY <1>1, <1>4, <2>1, <2>4, <2>6, <2>7, StandingKeeps DEF SyncInv
<1>. QED  BY <1>2, <1>5, <1>6, <1>7, <1>8 DEF Receive

----------------------------------------------------------------------------
(* The server                                                              *)

\* Whatever the server does, the log keeps what it has and gets nothing twice.
WritesAtMost(u, K) == K = log \/ (u \notin Written /\ K = Append(log, u))

LEMMA WritingKeeps ==
  ASSUME SyncInv, NEW u, WritesAtMost(u, log'),
         UNCHANGED <<pending, sender, sync, store, ops, done>>
  PROVE  /\ Grows(log, log')
         /\ (LogIsSequence /\ StoreTypes /\ RowsArePlaced /\ StoreIsSound)'
         /\ (OpsFit /\ DoneFit /\ ConfirmedIsWritten /\ QueueIsSequence /\ CursorIsStored)'
         /\ \A m : PacketFits(log, store.cursor, m) => PacketFits(log', store.cursor, m)
<1>1. Written = Elems(log)
  BY DEF Written, Elems
<1>2. IsSeq(log) /\ Len(log) \in Nat /\ DOMAIN log = 1..Len(log)
  BY SequenceDomain DEF SyncInv, LogIsSequence
<1>3. Grows(log, log') /\ LogIsSequence'
  <2>1. CASE log' = log
    BY <1>2, <2>1 DEF Grows, SyncInv, LogIsSequence
  <2>2. CASE u \notin Elems(log) /\ log' = Append(log, u)
    <3>1. /\ IsSeq(log') /\ Len(log') = Len(log) + 1 /\ log'[Len(log) + 1] = u
          /\ \A i \in 1..Len(log) : log'[i] = log[i]
      BY <1>2, <2>2, AppendSequence
    <3>2. DOMAIN log' = 1..Len(log')
      BY <3>1, SequenceDomain
    <3>3. Grows(log, log')
      BY <1>2, <3>1, <3>2 DEF Grows
    <3>4. \A i \in 1..Len(log) : log[i] # u
      BY <1>2, <2>2 DEF Elems
    <3>5. \A i, j \in 1..Len(log') : log'[i] = log'[j] => i = j
      BY <1>2, <3>1, <3>4 DEF SyncInv, LogIsSequence
    <3>. QED  BY <3>1, <3>3, <3>5 DEF LogIsSequence
  <2>. QED  BY <1>1, <2>1, <2>2 DEF WritesAtMost
<1>4. store.cursor <= store'.cursor /\ store'.cursor \in Nat /\ store.cursor \in Nat
  BY DEF SyncInv, StoreTypes
<1>5. (OpsFit /\ DoneFit /\ ConfirmedIsWritten /\ QueueIsSequence /\ CursorIsStored)'
  BY <1>3, <1>4, FitsLater
<1>6. StoreTypes'
  BY <1>3 DEF SyncInv, StoreTypes, Grows
<1>7. RowsArePlaced'
  <2>. DEFINE K == log'
  <2>1. \A r \in store.rows : PlacedIfAny(K, r)
    BY <1>3, PlacedLater DEF SyncInv, RowsArePlaced
  <2>. QED  BY <2>1 DEF RowsArePlaced
<1>8. StoreIsSound'
  <2>1. \A i \in 1..store.cursor : log'[i] = log[i]
    BY <1>3, <1>4 DEF SyncInv, StoreTypes, Grows
  <2>2. SyncIsComplete'
    BY <2>1 DEF SyncInv, StoreIsSound, SyncIsComplete
  <2>. QED  BY <2>2 DEF SyncInv, StoreIsSound, OneRowPerMessage, ErasedStaysErased
<1>9. \A m : PacketFits(log, store.cursor, m) => PacketFits(log', store.cursor, m)
  <2>. DEFINE K == log'
  <2>1. \A m : PacketFits(log, store.cursor, m) => PacketFits(K, store.cursor, m)
    BY <1>3, <1>4, PacketFitsLater
  <2>. QED  BY <2>1
<1>. QED  BY <1>3, <1>5, <1>6, <1>7, <1>8, <1>9

LEMMA LiveFits ==
  ASSUME NEW K, DOMAIN K = 1..Len(K), NEW u, u \in Elems(K), NEW c
  PROVE  PacketFits(K, c, Live(K, u))
<1>1. PICK m : m = Live(K, u)
  OBVIOUS
<1>2. PICK n : n = IdOf(K, u)
  OBVIOUS
<1>3. n \in 1..Len(K) /\ K[n] = u
  BY <1>2 DEF IdOf, Elems
<1>4. m = [kind |-> "live", uuid |-> u, id |-> n]
  BY <1>1, <1>2 DEF Live
<1>5. m.kind = "live" /\ m.uuid = u /\ m.id = n
  BY <1>4
<1>. QED  BY <1>1, <1>3, <1>5 DEF PacketFits, Placed

\* Packets added behind those under way.
LEMMA PacketsFitWith ==
  ASSUME SyncInv, NEW u, WritesAtMost(u, log'),
         UNCHANGED <<pending, sender, sync, store, ops, done>>,
         NEW t, IsSeq(t), \A m \in Elems(t) : PacketFits(log', store.cursor, m),
         toClient' = toClient \o t
  PROVE  PacketsFit'
<1>1. IsSeq(toClient') /\ Elems(toClient') = Elems(toClient) \cup Elems(t)
  BY ConcatSequences DEF SyncInv, PacketsFit
<1>2. \A m \in Elems(toClient) : PacketFits(log', store.cursor, m)
  BY WritingKeeps DEF SyncInv, PacketsFit
<1>. QED  BY <1>1, <1>2 DEF PacketsFit

LEMMA PacketsFitAppend ==
  ASSUME SyncInv, NEW u, WritesAtMost(u, log'),
         UNCHANGED <<pending, sender, sync, store, ops, done>>,
         NEW m, PacketFits(log', store.cursor, m), toClient' = Append(toClient, m)
  PROVE  PacketsFit'
<1>1. IsSeq(toClient') /\ Elems(toClient') = Elems(toClient) \cup {m}
  BY AppendSequence DEF SyncInv, PacketsFit
<1>2. \A x \in Elems(toClient) : PacketFits(log', store.cursor, x)
  BY WritingKeeps DEF SyncInv, PacketsFit
<1>. QED  BY <1>1, <1>2 DEF PacketsFit

LEMMA ServeSendKeeps ==
  ASSUME SyncInv, NEW u, ServeSend(u),
         UNCHANGED <<pending, sender, sync, store, ops, done>>
  PROVE  WritesAtMost(u, log') /\ PacketsFit'
<1>1. PICK L : L = IF u \in Written THEN log ELSE Append(log, u)
  OBVIOUS
<1>2. PICK m : m = Live(L, u)
  OBVIOUS
<1>3. WritesAtMost(u, L) /\ WritesAtMost(u, log)
  BY <1>1 DEF WritesAtMost
<1>4. IsSeq(L) /\ u \in Elems(L)
  <2>1. IsSeq(log)
    BY DEF SyncInv, LogIsSequence
  <2>2. Written = Elems(log)
    BY DEF Written, Elems
  <2>. QED  BY <1>1, <2>1, <2>2, AppendSequence
<1>5. PacketFits(L, store.cursor, m)
  BY <1>2, <1>4, LiveFits, SequenceDomain
<1>6. CASE log' = L /\ toClient' = Append(toClient, m)
  BY <1>3, <1>5, <1>6, PacketsFitAppend
<1>7. CASE log' = L /\ toClient' = toClient \o <<m, m>>
  <2>1. PICK t : t = <<m, m>>
    OBVIOUS
  <2>2. t \in Seq({m}) /\ DOMAIN t = 1..2 /\ t[1] = m /\ t[2] = m
    BY <2>1
  <2>3. \A i \in 1..2 : t[i] = m
    BY <2>2
  <2>4. IsSeq(t) /\ Elems(t) = {m}
    BY <2>2, <2>3 DEF IsSeq, Elems
  <2>. QED  BY <1>3, <1>5, <1>7, <2>1, <2>4, PacketsFitWith
<1>8. CASE log' \in {log, L} /\ toClient' = Append(toClient, Refusal)
  <2>1. PacketFits(log', store.cursor, Refusal)
    BY DEF PacketFits, Refusal
  <2>. QED  BY <1>3, <1>8, <2>1, PacketsFitAppend
<1>. QED  BY <1>1, <1>2, <1>6, <1>7, <1>8 DEF ServeSend

LEMMA ServeLoadKeeps ==
  ASSUME SyncInv, NEW r, r.from \in 0..store.cursor, ServeLoad(r),
         UNCHANGED <<pending, sender, sync, store, ops, done>>
  PROVE  UNCHANGED log /\ PacketsFit'
<1>1. PICK last : last = IF r.from + PageSize < Len(log) THEN r.from + PageSize ELSE Len(log)
  OBVIOUS
<1>2. PICK M : M = {Row(log[i], i) : i \in (r.from + 1)..last}
  OBVIOUS
<1>3. PICK more : more = (last < Len(log))
  OBVIOUS
<1>4. PICK p : p = [kind |-> "page", next |-> last, more |-> more, current |-> r.current,
                    records |-> M]
  OBVIOUS
<1>5. toClient' = Append(toClient, p) /\ UNCHANGED log
  BY <1>1, <1>2, <1>3, <1>4 DEF ServeLoad
<1>6. /\ store.cursor \in Nat /\ store.cursor <= Len(log) /\ Len(log) \in Nat
      /\ r.from \in Nat /\ PageSize \in Nat
  BY SyncAssumption, SequenceDomain DEF SyncInv, StoreTypes, LogIsSequence
<1>7. last \in 0..Len(log)
  BY <1>1, <1>6
<1>8. \A m \in M : m = Row(m.uuid, m.id) /\ Placed(log, m)
  BY <1>2, <1>6, <1>7 DEF Row, Placed
<1>9. p.kind = "page" /\ p.next = last /\ p.records = M
      /\ p = [kind |-> "page", next |-> p.next, more |-> p.more,
              current |-> p.current, records |-> p.records]
  BY <1>4
<1>10. \A i \in (r.from + 1)..last : Row(log[i], i) \in M
  BY <1>2
<1>11. PacketFits(log, store.cursor, p)
  <2>1. PageFits(log, store.cursor, p)
    BY <1>7, <1>8, <1>9, <1>10 DEF PageFits
  <2>. QED  BY <1>9, <2>1 DEF PacketFits
<1>12. WritesAtMost(None, log')
  BY <1>5 DEF WritesAtMost
<1>. QED  BY <1>5, <1>11, <1>12, PacketsFitAppend

LEMMA ServeKeeps ==
  ASSUME SyncInv, Serve
  PROVE  SyncInv'
<1>1. /\ toServer # <<>> /\ toServer' = Tail(toServer)
      /\ UNCHANGED <<pending, sender, sync, store, ops, done>>
  BY DEF Serve, clientVars, storeVars
<1>2. PICK r : r = Head(toServer)
  OBVIOUS
<1>3. /\ IsSeq(toServer') /\ Elems(toServer') \subseteq Elems(toServer)
      /\ r \in Elems(toServer)
  BY <1>1, <1>2, TailSequence DEF SyncInv, RequestsFit
<1>4. RequestsFit' /\ RequestFits(store.cursor, r)
  BY <1>1, <1>3 DEF SyncInv, RequestsFit
<1>5. (\E u : WritesAtMost(u, log')) /\ PacketsFit'
  <2>1. CASE ServeSend(r.uuid)
    BY <1>1, <2>1, ServeSendKeeps
  <2>2. CASE r.kind = "load" /\ ServeLoad(r)
    <3>1. r.from \in 0..store.cursor
      BY <1>4, <2>2 DEF RequestFits
    <3>. QED  BY <1>1, <2>2, <3>1, ServeLoadKeeps DEF WritesAtMost
  <2>3. CASE ServeThreads
    <3>1. PICK m : m = [kind |-> "threads", last |-> Len(log)]
      OBVIOUS
    <3>2. toClient' = Append(toClient, m) /\ UNCHANGED log
      BY <2>3, <3>1 DEF ServeThreads
    <3>3. PacketFits(log', store.cursor, m)
      BY <3>1, <3>2, SequenceDomain DEF PacketFits, SyncInv, LogIsSequence
    <3>4. WritesAtMost(None, log')
      BY <3>2 DEF WritesAtMost
    <3>. QED  BY <1>1, <3>2, <3>3, <3>4, PacketsFitAppend
  <2>. QED  BY <1>2, <2>1, <2>2, <2>3 DEF Serve
<1>. QED  BY <1>1, <1>4, <1>5, WritingKeeps DEF SyncInv

LEMMA ServeLateKeeps ==
  ASSUME SyncInv, NEW u, ServeLate(u)
  PROVE  SyncInv'
<1>1. /\ UNCHANGED <<toServer, toClient, pending, sender, sync, store, ops, done>>
      /\ WritesAtMost(u, log')
  BY DEF ServeLate, WritesAtMost, clientVars, storeVars
<1>2. /\ (LogIsSequence /\ StoreTypes /\ RowsArePlaced /\ StoreIsSound)'
      /\ (OpsFit /\ DoneFit /\ ConfirmedIsWritten /\ QueueIsSequence /\ CursorIsStored)'
      /\ Grows(log, log')
  BY <1>1, WritingKeeps
<1>3. RequestsFit' /\ PacketsFit'
  BY <1>1, <1>2, FitsLater DEF SyncInv, StoreTypes
<1>. QED  BY <1>2, <1>3 DEF SyncInv

LEMMA PeerSendsKeeps ==
  ASSUME SyncInv, NEW u, PeerSends(u)
  PROVE  SyncInv'
<1>1. /\ UNCHANGED <<toServer, pending, sender, sync, store, ops, done>>
      /\ WritesAtMost(u, log') /\ log' = Append(log, u)
  BY DEF PeerSends, WritesAtMost, clientVars, storeVars
<1>2. /\ (LogIsSequence /\ StoreTypes /\ RowsArePlaced /\ StoreIsSound)'
      /\ (OpsFit /\ DoneFit /\ ConfirmedIsWritten /\ QueueIsSequence /\ CursorIsStored)'
      /\ Grows(log, log')
  BY <1>1, WritingKeeps
<1>3. RequestsFit' /\ (UNCHANGED toClient => PacketsFit')
  BY <1>1, <1>2, FitsLater DEF SyncInv, StoreTypes
<1>4. ASSUME toClient' = Append(toClient, Live(log', u))
      PROVE  PacketsFit'
  <2>. DEFINE K == log'
  <2>1. DOMAIN K = 1..Len(K) /\ u \in Elems(K)
    BY <1>1, <1>2, AppendSequence DEF SyncInv, LogIsSequence, Grows
  <2>. HIDE DEF K
  <2>2. PacketFits(K, store.cursor, Live(K, u))
    BY <2>1, LiveFits
  <2>3. PICK m : m = Live(K, u)
    OBVIOUS
  <2>4. PacketFits(log', store.cursor, m) /\ toClient' = Append(toClient, m)
    BY <1>4, <2>2, <2>3 DEF K
  <2>. QED  BY <1>1, <2>4, PacketsFitAppend
<1>. QED  BY <1>2, <1>3, <1>4 DEF SyncInv, PeerSends

----------------------------------------------------------------------------
(* The theorems                                                            *)

LEMMA SyncInvInit == Init => SyncInv
<1>1. SUFFICES ASSUME Init PROVE SyncInv
  OBVIOUS
<1>2. /\ log = <<>> /\ toServer = <<>> /\ toClient = <<>> /\ ops = <<>> /\ done = <<>>
      /\ pending = [u \in Mine |-> "none"] /\ sender = FreshSender /\ sync = FreshSync
      /\ store = [rows |-> {}, cursor |-> 0, last |-> 0, hidden |-> 0, deleted |-> {}]
  BY <1>1 DEF Init
<1>3. Len(log) = 0
  BY <1>2
<1>4. LogIsSequence
  BY <1>2, <1>3, EmptySequence DEF LogIsSequence
<1>5. OpsFit /\ DoneFit /\ RequestsFit /\ PacketsFit
  BY <1>2, EmptySequence DEF OpsFit, DoneFit, RequestsFit, PacketsFit
<1>6. StoreTypes /\ RowsArePlaced
  BY <1>2, <1>3 DEF StoreTypes, RowsArePlaced
<1>7. StoreIsSound
  BY <1>2 DEF StoreIsSound, SyncIsComplete, OneRowPerMessage, ErasedStaysErased
<1>8. ConfirmedIsWritten /\ CursorIsStored
  BY <1>2 DEF ConfirmedIsWritten, CursorIsStored, FreshSync
<1>9. QueueIsSequence
  BY <1>2, EmptySequence DEF QueueIsSequence, FreshSender
<1>. QED  BY <1>4, <1>5, <1>6, <1>7, <1>8, <1>9 DEF SyncInv

LEMMA SyncInvNext == SyncInv /\ [Next]_vars => SyncInv'
<1>. SUFFICES ASSUME SyncInv, [Next]_vars PROVE SyncInv'
  OBVIOUS
<1>1. CASE UNCHANGED vars
  <2>1. /\ Standing
        /\ UNCHANGED <<toServer, toClient, pending, sender, sync, ops, done>>
    BY <1>1 DEF vars, netVars, clientVars, storeVars, Standing
  <2>. QED  BY <2>1, StandingKeeps DEF SyncInv
<1>2. CASE CallbackStep
  BY <1>2, SendSavedKeeps, RetrySavedKeeps, UploadSavedKeeps, LiveSavedKeeps,
     PageSavedKeeps, LocalReadKeeps, SessionOpenedKeeps DEF CallbackStep
<1>3. CASE RunOp \/ Receive \/ Refresh \/ HistoryTimeout \/ Login \/ EndSession \/ Erase
  BY <1>3, RunOpKeeps, ReceiveKeeps, RefreshKeeps, HistoryTimeoutKeeps, LoginKeeps,
     EndSessionKeeps, EraseKeeps
<1>4. CASE \E u \in Mine : Send(u) \/ RetryMessage(u) \/ SendTimeout(u) \/ UploadFinished(u)
  BY <1>4, SendKeeps, RetryMessageKeeps, SendTimeoutKeeps, UploadFinishedKeeps
<1>5. CASE Serve \/ (\E u \in Mine : ServeLate(u)) \/ (\E u \in Theirs : PeerSends(u))
  BY <1>5, ServeKeeps, ServeLateKeeps, PeerSendsKeeps
<1>. QED  BY <1>1, <1>2, <1>3, <1>4, <1>5 DEF Next

\* The inductive invariant holds in every state: every id that a record carries
\* is its place in the server's log, and every page under way begins at or
\* before the stored cursor (ReceiveHistory, SaveMessages, EndSession).
THEOREM SyncInvariant == Spec => []SyncInv
BY SyncInvInit, SyncInvNext, PTL DEF Spec

\* Everything of the server's log up to the stored cursor is in the local store
\* or was erased here: live messages, late pages, lost connections and crashes
\* never let the cursor pass a message (ChatStore::SaveMessages).
THEOREM SyncStaysComplete == Spec => []SyncIsComplete
<1>1. SyncInv => SyncIsComplete
  BY DEF SyncInv, StoreIsSound
<1>. QED  BY <1>1, SyncInvariant, PTL

\* A message has one row, however its own copy, the reply, the notification and
\* the history page are ordered (ChatStore's saveMessage).
THEOREM RowsStayUnique == Spec => []OneRowPerMessage
<1>1. SyncInv => OneRowPerMessage
  BY DEF SyncInv, StoreIsSound
<1>. QED  BY <1>1, SyncInvariant, PTL

\* What was cleared or deleted here is not written again by anything that was
\* under way (ClearLocalHistory, DeleteLocalMessages).
THEOREM ErasedIsFinal == Spec => []ErasedStaysErased
<1>1. SyncInv => ErasedStaysErased
  BY DEF SyncInv, StoreIsSound
<1>. QED  BY <1>1, SyncInvariant, PTL

----------------------------------------------------------------------------
(* Every wait of the client has its end under way                          *)

\* The operations whose callback will run: queued in this session, or done.
Coming == {o \in Elems(ops) : o.live} \cup {d.op : d \in Elems(done)}

Saves(o, by, u) == o.kind = "save" /\ o.by = by /\ \E m \in o.records : m.uuid = u
OwnSave(o) == o.kind = "save" /\ o.by # "live"

\* The services' fields are there, and name messages of this user only.
FieldsAreOurs ==
    /\ DOMAIN sender = DOMAIN FreshSender /\ DOMAIN sync = DOMAIN FreshSync
    /\ Elems(sender.queue) \subseteq Mine /\ sender.upload \in Mine \cup {None}
    /\ \A o \in Coming : OwnSave(o) => \A m \in o.records : m.uuid \in Mine

\* A session that opens, a composer that is locked, a retry and an upload that
\* are being saved wait for a callback that will run.
OpeningIsTended == session = "opening" => \E o \in Coming : o.kind = "open"
SavingIsTended ==
    /\ sender.saving => \E o \in Coming : \E u \in Mine : Saves(o, "send", u)
    /\ \A u \in sender.retrying : \E o \in Coming : Saves(o, "retry", u)
    /\ sender.committing => \E o \in Coming : \E u \in Mine : Saves(o, "upload", u)

\* The queue waits for an upload or for its result to be saved.
QueueMoves == sender.queue # <<>> => sender.upload # None \/ sender.committing

\* A message shown as being sent has a timer, or waits in the queue, or is
\* being uploaded, or waits for a callback.
SendingIsTended ==
    \A u \in Mine : pending[u] = "sending" =>
        \/ u \in sender.timer \/ u \in Elems(sender.queue) \/ u = sender.upload
        \/ \E o \in Coming : Saves(o, "retry", u) \/ Saves(o, "upload", u)

\* A history request has its answer under way, and a page its callback.
FetchIsTended ==
    /\ sync.hist = "asked" => \/ \E r \in Elems(toServer) : r.kind = "load" /\ r.current
                              \/ \E m \in Elems(toClient) : m.kind = "page" /\ m.current
    /\ sync.hist = "saving" => \E o \in Coming : o.kind = "page"

WaitsAreTended ==
    /\ FieldsAreOurs /\ OpeningIsTended /\ SavingIsTended
    /\ QueueMoves /\ SendingIsTended /\ FetchIsTended

LEMMA TailOf ==
  ASSUME NEW s, IsSeq(s), s # <<>>
  PROVE  Elems(s) = Elems(Tail(s)) \cup {Head(s)}
<1>1. PICK S : S = Elems(s)
  OBVIOUS
<1>2. s \in Seq(S) /\ Len(s) \in Nat /\ Len(s) # 0
  BY <1>1 DEF IsSeq
<1>3. PICK t : t = Tail(s)
  OBVIOUS
<1>4. /\ t \in Seq(S) /\ Len(t) = Len(s) - 1 /\ \A i \in 1..Len(t) : t[i] = s[i + 1]
      /\ Head(s) = s[1]
  BY <1>2, <1>3
<1>5. DOMAIN t = 1..Len(t) /\ DOMAIN s = 1..Len(s)
  BY <1>2, <1>4
<1>6. ASSUME NEW i \in 1..Len(s)
      PROVE  s[i] \in Elems(t) \cup {s[1]}
  <2>1. CASE i # 1
    <3>1. i - 1 \in 1..Len(t) /\ t[i - 1] = s[i]
      BY <1>2, <1>4, <2>1
    <3>. QED  BY <1>5, <3>1 DEF Elems
  <2>. QED  BY <2>1
<1>7. S \subseteq Elems(t) \cup {s[1]}
  BY <1>1, <1>5, <1>6 DEF Elems
<1>. QED  BY <1>1, <1>3, <1>4, <1>7, TailSequence

\* Every open message of q gets a request.
LEMMA RequestsCover ==
  ASSUME NEW q, IsSeq(q), NEW u \in Elems(q), pending'[u] # "confirmed"
  PROVE  \E k \in 1..Len(Requests(q)) : Requests(q)[k].uuid = u
<1>. DEFINE open == {i \in 1..Len(q) : pending'[q[i]] # "confirmed"}
            upTo(i) == {j \in open : j <= i}
            rank(i) == Cardinality(upTo(i))
            nth(k) == CHOOSE i \in open : rank(i) = k
            n == Cardinality(open)
            t == [k \in 1..n |-> [kind |-> "send", uuid |-> q[nth(k)]]]
<1>1. Len(q) \in Nat /\ DOMAIN q = 1..Len(q)
  BY SequenceDomain
<1>2. PICK i \in 1..Len(q) : q[i] = u
  BY <1>1 DEF Elems
<1>3. i \in open /\ open \subseteq Nat
  BY <1>1, <1>2
<1>4. IsFiniteSet(open) /\ n \in Nat
  <2>1. IsFiniteSet(1..Len(q)) /\ open \in SUBSET (1..Len(q))
    BY <1>1, FS_Interval
  <2>2. IsFiniteSet(open)
    BY <2>1, FS_Subset
  <2>. QED  BY <2>2, FS_CardinalityType
<1>5. Requests(q) = t
  BY DEF Requests
<1>. HIDE DEF open
<1>6. \A a \in open : IsFiniteSet(upTo(a)) /\ rank(a) \in Nat /\ rank(a) <= n
  BY <1>4, FS_Subset, FS_CardinalityType
<1>7. ASSUME NEW a \in open, NEW b \in open, a < b
      PROVE  rank(a) # rank(b)
  <2>1. upTo(a) \in SUBSET upTo(b) /\ b \in upTo(b) /\ b \notin upTo(a)
    <3>1. \A j \in open : j \in Nat
      BY <1>3
    <3>2. a \in Nat /\ b \in Nat /\ b <= b /\ ~(b <= a)
      BY <1>7, <3>1
    <3>3. \A j \in open : j <= a => j <= b
      BY <1>7, <3>1, <3>2
    <3>. QED  BY <3>2, <3>3
  <2>. QED  BY <1>6, <2>1, FS_Subset
<1>8. rank(i) \in 1..n
  <2>1. i \in upTo(i)
    BY <1>3
  <2>2. rank(i) # 0
    BY <1>3, <1>6, <2>1, FS_EmptySet
  <2>. QED  BY <1>3, <1>4, <1>6, <2>2
<1>9. nth(rank(i)) = i
  <2>1. nth(rank(i)) \in open /\ rank(nth(rank(i))) = rank(i)
    BY <1>3
  <2>. HIDE DEF nth, rank
  <2>2. PICK a : a = nth(rank(i))
    OBVIOUS
  <2>3. ~(a < i) /\ ~(i < a) /\ a \in Nat /\ i \in Nat
    BY <1>3, <1>7, <2>1, <2>2
  <2>. QED  BY <2>2, <2>3
<1>. HIDE DEF nth, rank, n
<1>10. t[rank(i)].uuid = u /\ rank(i) \in DOMAIN t
  BY <1>2, <1>8, <1>9
<1>11. DOMAIN t = 1..n
  OBVIOUS
<1>. HIDE DEF t
<1>12. IsSeq(t)
  BY <1>5, RequestsAreSends
<1>. QED  BY <1>5, <1>10, <1>12, SequenceDomain

\* What leaves the front of a queue, what is next, and the rest are all of it.
LEMMA QueueParts ==
  ASSUME NEW q, IsSeq(q), NEW n \in 0..Len(q), NEW a \in {n + 1, n + 2}, a <= Len(q) + 1
  PROVE  /\ IsSeq(SubSeq(q, 1, n)) /\ IsSeq(SubSeq(q, a, Len(q)))
         /\ \A u \in Elems(q) : \/ u \in Elems(SubSeq(q, 1, n)) \/ u = q[n + 1]
                                \/ u \in Elems(SubSeq(q, a, Len(q)))
         /\ a = n + 1 => \A u \in Elems(q) : \/ u \in Elems(SubSeq(q, 1, n))
                                             \/ u \in Elems(SubSeq(q, a, Len(q)))
         /\ Elems(SubSeq(q, a, Len(q))) \subseteq Elems(q)
         /\ a = Len(q) + 1 => SubSeq(q, a, Len(q)) = <<>>
<1>1. PICK S : S = Elems(q)
  OBVIOUS
<1>2. q \in Seq(S) /\ Len(q) \in Nat /\ DOMAIN q = 1..Len(q) /\ n \in Nat /\ a \in Nat
  BY <1>1, SequenceDomain DEF IsSeq
<1>3. PICK f : f = SubSeq(q, 1, n)
  OBVIOUS
<1>4. PICK r : r = SubSeq(q, a, Len(q))
  OBVIOUS
<1>5. IsSeq(f) /\ IsSeq(r)
  <2>1. 1 \in 1..(Len(q) + 1) /\ n \in (1 - 1)..Len(q)
    BY <1>2
  <2>2. a \in 1..(Len(q) + 1) /\ Len(q) \in (a - 1)..Len(q)
    BY <1>2
  <2>. QED  BY <1>3, <1>4, <2>1, <2>2, PartSequence
<1>6. f \in Seq(S) /\ Len(f) = n /\ \A i \in 1..n : f[i] = q[i]
  BY <1>2, <1>3
<1>7. /\ r \in Seq(S) /\ Len(r) = Len(q) - a + 1
      /\ \A i \in 1..(Len(q) - a + 1) : r[i] = q[a + i - 1]
  BY <1>2, <1>4
<1>8. DOMAIN f = 1..n /\ DOMAIN r = 1..(Len(q) - a + 1)
  BY <1>2, <1>6, <1>7
<1>9. ASSUME NEW i \in 1..Len(q), i <= n PROVE q[i] \in Elems(f)
  BY <1>2, <1>6, <1>8, <1>9 DEF Elems
<1>10. ASSUME NEW i \in 1..Len(q), i >= a PROVE q[i] \in Elems(r)
  <2>1. i - a + 1 \in 1..(Len(q) - a + 1) /\ a + (i - a + 1) - 1 = i
    BY <1>2, <1>10
  <2>2. r[i - a + 1] = q[i]
    BY <1>7, <2>1
  <2>. QED  BY <1>8, <2>1, <2>2 DEF Elems
<1>11. \A u \in Elems(q) : u \in Elems(f) \/ u = q[n + 1] \/ u \in Elems(r)
  BY <1>2, <1>9, <1>10 DEF Elems
<1>12. a = n + 1 => \A u \in Elems(q) : u \in Elems(f) \/ u \in Elems(r)
  BY <1>2, <1>9, <1>10 DEF Elems
<1>13. Elems(r) \subseteq Elems(q)
  BY <1>1, <1>7, <1>8 DEF Elems
<1>14. a = Len(q) + 1 => r = <<>>
  BY <1>2, <1>7
<1>. QED  BY <1>3, <1>4, <1>5, <1>11, <1>12, <1>13, <1>14

LEMMA SendNextTends ==
  ASSUME NEW s, DOMAIN s = DOMAIN FreshSender, s.upload \in Mine \cup {None},
         NEW first, IsSeq(first), NEW q, IsSeq(q), Elems(q) \subseteq Mine, IsSeq(toServer),
         SendNextMessage(s, first, q)
  PROVE  /\ DOMAIN sender' = DOMAIN FreshSender
         /\ sender'.saving = s.saving /\ sender'.retrying = s.retrying
         /\ sender'.committing = s.committing
         /\ Elems(sender'.queue) \subseteq Mine /\ sender'.upload \in Mine \cup {None}
         /\ s.upload # None => sender'.upload = s.upload
         /\ s.timer \subseteq sender'.timer
         /\ \A u \in Elems(first) : pending'[u] = "confirmed" \/ u \in sender'.timer
         /\ \A u \in Elems(q) : \/ pending'[u] = "confirmed" \/ u \in sender'.timer
                                \/ u \in Elems(sender'.queue) \/ u = sender'.upload
         /\ sender'.queue # <<>> => sender'.upload # None \/ sender'.committing
         /\ Elems(toServer) \subseteq Elems(toServer')
<1>1. PICK n : n = Ready(s, q)
  OBVIOUS
<1>2. PICK starts : starts = (s.upload = None /\ ~s.committing /\ n < Len(q))
  OBVIOUS
<1>3. PICK a : a = IF starts THEN n + 2 ELSE n + 1
  OBVIOUS
<1>4. PICK front : front = SubSeq(q, 1, n)
  OBVIOUS
<1>5. PICK rest : rest = SubSeq(q, a, Len(q))
  OBVIOUS
<1>6. PICK out : out = Requests(first \o front)
  OBVIOUS
<1>7. /\ sender' = [s EXCEPT !.queue = rest, !.upload = IF starts THEN q[n + 1] ELSE @,
                             !.timer = @ \cup {out[i].uuid : i \in 1..Len(out)}]
      /\ toServer' = toServer \o out
  BY <1>1, <1>2, <1>3, <1>4, <1>5, <1>6 DEF SendNextMessage
<1>8. n \in 0..Len(q) /\ Len(q) \in Nat /\ DOMAIN q = 1..Len(q)
  BY <1>1, ReadyInQueue, SequenceDomain
<1>0. (starts => n < Len(q)) /\ (starts => s.upload = None)
  BY <1>2, Zenon
<1>9. a \in {n + 1, n + 2} /\ a <= Len(q) + 1 /\ (~starts => a = n + 1)
  BY <1>0, <1>3, <1>8
<1>10. /\ IsSeq(front) /\ IsSeq(rest) /\ Elems(rest) \subseteq Elems(q)
       /\ \A u \in Elems(q) : u \in Elems(front) \/ u = q[n + 1] \/ u \in Elems(rest)
       /\ ~starts => \A u \in Elems(q) : u \in Elems(front) \/ u \in Elems(rest)
       /\ a = Len(q) + 1 => rest = <<>>
  BY <1>4, <1>5, <1>8, <1>9, QueueParts
<1>11. /\ DOMAIN sender' = DOMAIN s /\ sender'.saving = s.saving
       /\ sender'.retrying = s.retrying /\ sender'.committing = s.committing
       /\ sender'.queue = rest /\ sender'.upload = (IF starts THEN q[n + 1] ELSE s.upload)
       /\ sender'.timer = s.timer \cup {out[i].uuid : i \in 1..Len(out)}
  BY <1>7 DEF FreshSender
<1>12. IsSeq(first \o front) /\ Elems(first \o front) = Elems(first) \cup Elems(front)
  BY <1>10, ConcatSequences
<1>13. \A u \in Elems(first) \cup Elems(front) :
          pending'[u] = "confirmed" \/ u \in sender'.timer
  BY <1>6, <1>11, <1>12, RequestsCover
<1>14. starts => n + 1 \in 1..Len(q) /\ q[n + 1] \in Elems(q) /\ q[n + 1] # None
  <2>1. starts => n + 1 \in 1..Len(q)
    BY <1>0, <1>8
  <2>2. starts => q[n + 1] \in Elems(q)
    BY <1>8, <2>1 DEF Elems
  <2>. QED  BY <2>1, <2>2, SyncAssumption
<1>15. Elems(toServer) \subseteq Elems(toServer')
  BY <1>6, <1>7, <1>12, RequestsAreSends, ConcatSequences
<1>16. sender'.queue # <<>> => sender'.upload # None \/ sender'.committing
  <2>1. CASE starts
    BY <1>11, <1>14, <2>1
  <2>2. CASE ~starts /\ s.upload = None /\ ~s.committing
    <3>1. ~(n < Len(q)) /\ a = n + 1
      BY <1>2, <1>3, <2>2
    <3>2. a = Len(q) + 1
      BY <1>8, <3>1
    <3>. QED  BY <1>10, <1>11, <3>2
  <2>. QED  BY <1>11, <2>1, <2>2
<1>17. \A u \in Elems(q) : \/ pending'[u] = "confirmed" \/ u \in sender'.timer
                           \/ u \in Elems(sender'.queue) \/ u = sender'.upload
  BY <1>10, <1>11, <1>13
<1>18. sender'.upload \in Mine \cup {None} /\ (s.upload # None => sender'.upload = s.upload)
  BY <1>2, <1>11, <1>14
<1>. QED  BY <1>10, <1>11, <1>13, <1>15, <1>16, <1>17, <1>18

----------------------------------------------------------------------------
(* What a step that leaves most of it alone cannot disturb                 *)

LEMMA TendedFrame ==
  ASSUME WaitsAreTended, NEW X, Coming \ X \subseteq Coming'
  PROVE  /\ (UNCHANGED session /\ \A x \in X : x.kind # "open") => OpeningIsTended'
         /\ (UNCHANGED sender /\ \A x \in X : ~OwnSave(x)) => SavingIsTended'
         /\ UNCHANGED sender => QueueMoves'
         /\ (/\ UNCHANGED sender /\ \A x \in X : ~OwnSave(x)
             /\ \A u \in Mine : pending'[u] = "sending" => pending[u] = "sending")
               => SendingIsTended'
         /\ (/\ UNCHANGED sync /\ \A x \in X : x.kind # "page"
             /\ Elems(toServer) \subseteq Elems(toServer')
             /\ Elems(toClient) \subseteq Elems(toClient')) => FetchIsTended'
         /\ (/\ UNCHANGED sender /\ DOMAIN sync' = DOMAIN sync
             /\ \A o \in Coming' : o \in Coming \/ ~OwnSave(o)) => FieldsAreOurs'
<1>1. (UNCHANGED session /\ \A x \in X : x.kind # "open") => OpeningIsTended'
  BY DEF WaitsAreTended, OpeningIsTended
<1>2. ASSUME NEW o \in Coming, NEW by, by # "live", NEW u, Saves(o, by, u),
             \A x \in X : ~OwnSave(x)
      PROVE  o \in Coming'
  BY <1>2 DEF Saves, OwnSave
<1>3. (UNCHANGED sender /\ \A x \in X : ~OwnSave(x)) => SavingIsTended'
  <2>. SUFFICES ASSUME UNCHANGED sender, \A x \in X : ~OwnSave(x) PROVE SavingIsTended'
    OBVIOUS
  <2>1. sender.saving => \E o \in Coming' : \E u \in Mine : Saves(o, "send", u)
    BY <1>2 DEF WaitsAreTended, SavingIsTended
  <2>2. \A u \in sender.retrying : \E o \in Coming' : Saves(o, "retry", u)
    BY <1>2 DEF WaitsAreTended, SavingIsTended
  <2>3. sender.committing => \E o \in Coming' : \E u \in Mine : Saves(o, "upload", u)
    BY <1>2 DEF WaitsAreTended, SavingIsTended
  <2>. QED  BY <2>1, <2>2, <2>3 DEF SavingIsTended
<1>4. UNCHANGED sender => QueueMoves'
  BY DEF WaitsAreTended, QueueMoves
<1>5. (/\ UNCHANGED sender /\ \A x \in X : ~OwnSave(x)
       /\ \A u \in Mine : pending'[u] = "sending" => pending[u] = "sending")
         => SendingIsTended'
  <2>. SUFFICES ASSUME UNCHANGED sender, \A x \in X : ~OwnSave(x),
                       NEW u \in Mine, pending[u] = "sending"
                PROVE  \/ u \in sender.timer \/ u \in Elems(sender.queue) \/ u = sender.upload
                       \/ \E o \in Coming' : Saves(o, "retry", u) \/ Saves(o, "upload", u)
    BY DEF SendingIsTended
  <2>. QED  BY <1>2 DEF WaitsAreTended, SendingIsTended
<1>6. (/\ UNCHANGED sync /\ \A x \in X : x.kind # "page"
       /\ Elems(toServer) \subseteq Elems(toServer')
       /\ Elems(toClient) \subseteq Elems(toClient')) => FetchIsTended'
  BY DEF WaitsAreTended, FetchIsTended
<1>7. (/\ UNCHANGED sender /\ DOMAIN sync' = DOMAIN sync
       /\ \A o \in Coming' : o \in Coming \/ ~OwnSave(o)) => FieldsAreOurs'
  BY DEF WaitsAreTended, FieldsAreOurs
<1>. QED  BY <1>1, <1>3, <1>4, <1>5, <1>6, <1>7

LEMMA GrowingFrame ==
  ASSUME WaitsAreTended, Coming \subseteq Coming'
  PROVE  /\ UNCHANGED session => OpeningIsTended'
         /\ UNCHANGED sender => SavingIsTended' /\ QueueMoves'
         /\ (/\ UNCHANGED sender
             /\ \A u \in Mine : pending'[u] = "sending" => pending[u] = "sending")
               => SendingIsTended'
         /\ (/\ UNCHANGED sync /\ Elems(toServer) \subseteq Elems(toServer')
             /\ Elems(toClient) \subseteq Elems(toClient')) => FetchIsTended'
         /\ (/\ UNCHANGED sender /\ DOMAIN sync' = DOMAIN sync
             /\ \A o \in Coming' : o \in Coming \/ ~OwnSave(o)) => FieldsAreOurs'
<1>1. PICK X : X = {}
  OBVIOUS
<1>2. Coming \ X \subseteq Coming' /\ \A x \in X : FALSE
  BY <1>1
<1>. HIDE <1>1
<1>. QED  BY <1>2, TendedFrame

\* An operation that saves one of the user's own messages.
LEMMA OwnOp ==
  ASSUME NEW u \in Mine, NEW by, by # "live", NEW n, NEW o, o = SaveOp(by, {Row(u, n)})
  PROVE  o.live /\ OwnSave(o) /\ Saves(o, by, u) /\ \A m \in o.records : m.uuid \in Mine
<1>1. PICK m : m = Row(u, n)
  OBVIOUS
<1>2. o.kind = "save" /\ o.by = by /\ o.live = TRUE /\ o.records = {m}
  BY <1>1 DEF SaveOp
<1>3. m.uuid = u
  BY <1>1 DEF Row
<1>. QED  BY <1>2, <1>3 DEF OwnSave, Saves

LEMMA ComingQueued ==
  ASSUME SyncInv, NEW o, ops' = Append(ops, o), UNCHANGED done
  PROVE  /\ Coming \subseteq Coming' /\ Coming' \subseteq Coming \cup {o}
         /\ o.live => o \in Coming'
         /\ ~o.live => Coming' = Coming
<1>1. Elems(ops') = Elems(ops) \cup {o}
  BY AppendSequence DEF SyncInv, OpsFit
<1>. QED  BY <1>1 DEF Coming

LEMMA ComingRun ==
  ASSUME SyncInv, RunOp
  PROVE  Coming' = Coming
<1>1. PICK o : o = Head(ops)
  OBVIOUS
<1>2. Elems(ops) = Elems(ops') \cup {o}
  BY <1>1, TailOf DEF SyncInv, OpsFit, RunOp
<1>3. CASE o.live
  <2>1. PICK d : done' = Append(done, d) /\ d.op = o
    <3>1. CASE done' = Append(done, [op |-> o, ok |-> TRUE,
                              gone |-> IF o.kind \in {"save", "page"}
                                       THEN {m.uuid : m \in {x \in o.records : Suppressed(x)}}
                                       ELSE {},
                              rows |-> IF o.kind = "read" THEN store.rows ELSE {},
                              cursor |-> store.cursor])
      BY <3>1
    <3>2. CASE done' = Append(done, [op |-> o, ok |-> FALSE, gone |-> {},
                                     rows |-> {}, cursor |-> store.cursor])
      BY <3>2
    <3>. QED  BY <1>1, <1>3, <3>1, <3>2 DEF RunOp
  <2>2. Elems(done') = Elems(done) \cup {d}
    BY <2>1, AppendSequence DEF SyncInv, DoneFit
  <2>. QED  BY <1>2, <1>3, <2>1, <2>2 DEF Coming
<1>4. CASE ~o.live
  <2>1. UNCHANGED done
    BY <1>1, <1>4 DEF RunOp
  <2>. QED  BY <1>2, <1>4, <2>1 DEF Coming
<1>. QED  BY <1>3, <1>4

LEMMA ComingTaken ==
  ASSUME SyncInv, NEW kind, NEW by, Callback(kind, by), UNCHANGED ops
  PROVE  /\ Coming \ {Head(done).op} \subseteq Coming' /\ Coming' \subseteq Coming
         /\ Head(done).op \in Coming
<1>1. Elems(done) = Elems(done') \cup {Head(done)}
  BY TailOf DEF SyncInv, DoneFit, Callback
<1>. QED  BY <1>1 DEF Coming

----------------------------------------------------------------------------
(* The store's thread, the user and the timers                             *)

LEMMA RunOpTends ==
  ASSUME SyncInv, WaitsAreTended, RunOp
  PROVE  WaitsAreTended'
<1>1. UNCHANGED <<session, pending, sender, sync, toServer, toClient>>
  BY DEF RunOp, netVars, clientVars
<1>2. Coming' = Coming
  BY ComingRun
<1>. QED  BY <1>1, <1>2, GrowingFrame DEF WaitsAreTended

LEMMA SendTends ==
  ASSUME SyncInv, WaitsAreTended, NEW u \in Mine, Send(u)
  PROVE  WaitsAreTended'
<1>1. PICK o : o = SaveOp("send", {Row(u, 0)})
  OBVIOUS
<1>2. o.live /\ OwnSave(o) /\ Saves(o, "send", u) /\ \A m \in o.records : m.uuid \in Mine
  BY <1>1, OwnOp
<1>3. /\ UNCHANGED <<session, pending, sync, toServer, toClient, done>>
      /\ ops' = Append(ops, o) /\ sender' = [sender EXCEPT !.saving = TRUE]
  BY <1>1 DEF Send, netVars
<1>4. /\ Coming \subseteq Coming' /\ Coming' \subseteq Coming \cup {o} /\ o \in Coming'
  BY <1>2, <1>3, ComingQueued
<1>5. /\ sender'.retrying = sender.retrying /\ sender'.queue = sender.queue
      /\ sender'.upload = sender.upload /\ sender'.committing = sender.committing
      /\ sender'.timer = sender.timer /\ DOMAIN sender' = DOMAIN sender
  BY <1>3
<1>6. OpeningIsTended' /\ FetchIsTended'
  BY <1>3, <1>4, GrowingFrame
<1>7. FieldsAreOurs'
  BY <1>2, <1>3, <1>4, <1>5 DEF WaitsAreTended, FieldsAreOurs
<1>8. SavingIsTended'
  BY <1>2, <1>4, <1>5 DEF WaitsAreTended, SavingIsTended
<1>9. QueueMoves' /\ SendingIsTended'
  BY <1>3, <1>4, <1>5 DEF WaitsAreTended, QueueMoves, SendingIsTended
<1>. QED  BY <1>6, <1>7, <1>8, <1>9 DEF WaitsAreTended

LEMMA RetryMessageTends ==
  ASSUME SyncInv, WaitsAreTended, NEW u \in Mine, RetryMessage(u)
  PROVE  WaitsAreTended'
<1>1. PICK o : o = SaveOp("retry", {Row(u, 0)})
  OBVIOUS
<1>2. o.live /\ OwnSave(o) /\ Saves(o, "retry", u) /\ \A m \in o.records : m.uuid \in Mine
  BY <1>1, OwnOp
<1>3. /\ UNCHANGED <<session, sync, toServer, toClient, done>>
      /\ ops' = Append(ops, o) /\ sender' = [sender EXCEPT !.retrying = @ \cup {u}]
      /\ \A v \in Mine : v # u => pending'[v] = pending[v]
  BY <1>1 DEF RetryMessage, netVars, SyncInv, ConfirmedIsWritten
<1>4. /\ Coming \subseteq Coming' /\ Coming' \subseteq Coming \cup {o} /\ o \in Coming'
  BY <1>2, <1>3, ComingQueued
<1>5. /\ sender'.saving = sender.saving /\ sender'.queue = sender.queue
      /\ sender'.upload = sender.upload /\ sender'.committing = sender.committing
      /\ sender'.timer = sender.timer /\ DOMAIN sender' = DOMAIN sender
      /\ sender'.retrying = sender.retrying \cup {u}
  BY <1>3 DEF WaitsAreTended, FieldsAreOurs, FreshSender
<1>6. OpeningIsTended' /\ FetchIsTended'
  BY <1>3, <1>4, GrowingFrame
<1>7. FieldsAreOurs'
  BY <1>2, <1>3, <1>4, <1>5 DEF WaitsAreTended, FieldsAreOurs
<1>8. SavingIsTended'
  BY <1>2, <1>4, <1>5 DEF WaitsAreTended, SavingIsTended
<1>9. QueueMoves'
  BY <1>5 DEF WaitsAreTended, QueueMoves
<1>10. SendingIsTended'
  BY <1>2, <1>3, <1>4, <1>5 DEF WaitsAreTended, SendingIsTended
<1>. QED  BY <1>6, <1>7, <1>8, <1>9, <1>10 DEF WaitsAreTended

LEMMA SendTimeoutTends ==
  ASSUME SyncInv, WaitsAreTended, NEW u \in Mine, SendTimeout(u)
  PROVE  WaitsAreTended'
<1>1. /\ UNCHANGED <<session, sync, toServer, toClient, ops, done>>
      /\ sender' = [sender EXCEPT !.timer = @ \ {u}]
      /\ pending' = IF Pending(u) THEN Failed({u}) ELSE pending
  BY DEF SendTimeout, netVars, storeVars
<1>2. Coming' = Coming
  BY <1>1 DEF Coming
<1>3. /\ pending'[u] # "sending"
      /\ \A v \in Mine : v # u => pending'[v] = pending[v]
  BY <1>1 DEF Pending, Failed
<1>4. /\ sender'.saving = sender.saving /\ sender'.queue = sender.queue
      /\ sender'.upload = sender.upload /\ sender'.committing = sender.committing
      /\ sender'.retrying = sender.retrying /\ DOMAIN sender' = DOMAIN sender
      /\ sender'.timer = sender.timer \ {u}
  BY <1>1 DEF WaitsAreTended, FieldsAreOurs, FreshSender
<1>5. OpeningIsTended' /\ FetchIsTended'
  BY <1>1, <1>2, GrowingFrame
<1>6. FieldsAreOurs' /\ SavingIsTended' /\ QueueMoves'
  BY <1>1, <1>2, <1>4 DEF WaitsAreTended, FieldsAreOurs, SavingIsTended, QueueMoves
<1>7. SendingIsTended'
  BY <1>2, <1>3, <1>4 DEF WaitsAreTended, SendingIsTended
<1>. QED  BY <1>5, <1>6, <1>7 DEF WaitsAreTended

LEMMA UploadFinishedTends ==
  ASSUME SyncInv, WaitsAreTended, NEW u \in Mine, UploadFinished(u)
  PROVE  WaitsAreTended'
<1>1. sender.upload = u /\ UNCHANGED <<session, sync, toClient, done>>
  BY DEF UploadFinished
<1>2. CASE /\ sender' = [sender EXCEPT !.upload = None, !.committing = TRUE]
           /\ ops' = Append(ops, SaveOp("upload",
                {IF pending[u] = "confirmed"
                 THEN Row(u, CHOOSE n \in DOMAIN log : log[n] = u)
                 ELSE Row(u, 0)}))
           /\ UNCHANGED <<pending, toServer, incidents>>
  <2>1. PICK n : (IF pending[u] = "confirmed"
                  THEN Row(u, CHOOSE k \in DOMAIN log : log[k] = u) ELSE Row(u, 0)) = Row(u, n)
    OBVIOUS
  <2>2. PICK o : o = SaveOp("upload", {Row(u, n)})
    OBVIOUS
  <2>3. o.live /\ OwnSave(o) /\ Saves(o, "upload", u) /\ \A m \in o.records : m.uuid \in Mine
    BY <2>2, OwnOp
  <2>4. ops' = Append(ops, o)
    BY <1>2, <2>1, <2>2
  <2>5. /\ Coming \subseteq Coming' /\ Coming' \subseteq Coming \cup {o} /\ o \in Coming'
    BY <1>1, <2>3, <2>4, ComingQueued
  <2>6. /\ sender'.saving = sender.saving /\ sender'.queue = sender.queue
        /\ sender'.upload = None /\ sender'.committing = TRUE
        /\ sender'.retrying = sender.retrying /\ DOMAIN sender' = DOMAIN sender
        /\ sender'.timer = sender.timer
    BY <1>2 DEF WaitsAreTended, FieldsAreOurs, FreshSender
  <2>7. OpeningIsTended' /\ FetchIsTended'
    BY <1>1, <1>2, <2>5, GrowingFrame
  <2>8. FieldsAreOurs'
    BY <1>1, <2>3, <2>5, <2>6 DEF WaitsAreTended, FieldsAreOurs
  <2>9. SavingIsTended' /\ QueueMoves'
    BY <2>3, <2>5, <2>6 DEF WaitsAreTended, SavingIsTended, QueueMoves
  <2>10. SendingIsTended'
    BY <1>1, <1>2, <2>3, <2>5, <2>6 DEF WaitsAreTended, SendingIsTended
  <2>. QED  BY <2>7, <2>8, <2>9, <2>10 DEF WaitsAreTended
<1>3. CASE /\ pending' = Failed({u})
           /\ SendNextMessage([sender EXCEPT !.upload = None], <<>>, sender.queue)
           /\ UNCHANGED ops
  <2>1. PICK s : s = [sender EXCEPT !.upload = None]
    OBVIOUS
  <2>2. /\ DOMAIN s = DOMAIN FreshSender /\ s.upload = None /\ s.saving = sender.saving
        /\ s.retrying = sender.retrying /\ s.committing = sender.committing
        /\ s.timer = sender.timer /\ Elems(sender.queue) \subseteq Mine
    BY <2>1 DEF WaitsAreTended, FieldsAreOurs, FreshSender
  <2>3. IsSeq(<<>>) /\ IsSeq(sender.queue) /\ IsSeq(toServer)
    BY EmptySequence DEF SyncInv, QueueIsSequence, RequestsFit
  <2>4. /\ DOMAIN sender' = DOMAIN FreshSender
        /\ sender'.saving = sender.saving /\ sender'.retrying = sender.retrying
        /\ sender'.committing = sender.committing
        /\ Elems(sender'.queue) \subseteq Mine /\ sender'.upload \in Mine \cup {None}
        /\ sender.timer \subseteq sender'.timer
        /\ \A v \in Elems(sender.queue) :
              \/ pending'[v] = "confirmed" \/ v \in sender'.timer
              \/ v \in Elems(sender'.queue) \/ v = sender'.upload
        /\ sender'.queue # <<>> => sender'.upload # None \/ sender'.committing
        /\ Elems(toServer) \subseteq Elems(toServer')
    BY <1>3, <2>1, <2>2, <2>3, SendNextTends
  <2>5. Coming' = Coming
    BY <1>1, <1>3 DEF Coming
  <2>6. /\ pending'[u] # "sending"
        /\ \A v \in Mine : v # u => pending'[v] = pending[v]
    BY <1>3 DEF Failed
  <2>7. OpeningIsTended' /\ FetchIsTended'
    BY <1>1, <2>4, <2>5, GrowingFrame
  <2>8. FieldsAreOurs' /\ SavingIsTended' /\ QueueMoves'
    BY <1>1, <2>4, <2>5 DEF WaitsAreTended, FieldsAreOurs, SavingIsTended, QueueMoves
  <2>9. SendingIsTended'
    BY <1>1, <2>4, <2>5, <2>6 DEF WaitsAreTended, SendingIsTended
  <2>. QED  BY <2>7, <2>8, <2>9 DEF WaitsAreTended
<1>. QED  BY <1>2, <1>3 DEF UploadFinished

----------------------------------------------------------------------------
(* Callbacks                                                               *)

\* The callback of a save is about one message, and it is no longer under way.
LEMMA SaveTaken ==
  ASSUME SyncInv, WaitsAreTended, NEW by, by # "live", Callback("save", by), UNCHANGED ops,
         Standing, NEW o, o = Head(done).op, NEW u, u = UuidOf(Head(done))
  PROVE  /\ u \in Mine /\ o.kind = "save" /\ o.by = by /\ \A v : Saves(o, by, v) => v = u
         /\ Coming \ {o} \subseteq Coming' /\ Coming' \subseteq Coming
         /\ UNCHANGED session => OpeningIsTended'
         /\ (/\ UNCHANGED sync /\ Elems(toServer) \subseteq Elems(toServer')
             /\ Elems(toClient) \subseteq Elems(toClient')) => FetchIsTended'
<1>1. /\ OpFits(log, store.cursor, o) /\ o.kind = "save" /\ o.by = by
  BY CallbackTakes DEF DoneFits
<1>2. PICK m \in o.records : o.records = {m}
  BY <1>1 DEF OpFits, SaveFits, PageOpFits, OtherOp
<1>3. u = m.uuid
  BY <1>2 DEF UuidOf
<1>4. Coming \ {o} \subseteq Coming' /\ Coming' \subseteq Coming /\ o \in Coming
  BY ComingTaken
<1>5. u \in Mine
  BY <1>1, <1>2, <1>3, <1>4 DEF WaitsAreTended, FieldsAreOurs, OwnSave
<1>6. \A v : Saves(o, by, v) => v = u
  BY <1>2, <1>3 DEF Saves
<1>7. PICK X : X = {o}
  OBVIOUS
<1>8. Coming \ X \subseteq Coming' /\ \A x \in X : x.kind = "save"
  BY <1>1, <1>4, <1>7
<1>9. \A x \in X : x.kind # "open" /\ x.kind # "page"
  BY <1>8
<1>. HIDE <1>7
<1>10. /\ UNCHANGED session => OpeningIsTended'
       /\ (/\ UNCHANGED sync /\ Elems(toServer) \subseteq Elems(toServer')
           /\ Elems(toClient) \subseteq Elems(toClient')) => FetchIsTended'
  BY <1>8, <1>9, TendedFrame
<1>. QED  BY <1>1, <1>4, <1>5, <1>6, <1>10

\* The other saves are still under way.
LEMMA OthersStay ==
  ASSUME NEW o, NEW by, NEW u, o.kind = "save", o.by = by,
         \A v : Saves(o, by, v) => v = u, Coming \ {o} \subseteq Coming'
  PROVE  /\ by # "send" => ((\E p \in Coming : \E v \in Mine : Saves(p, "send", v))
                             => \E p \in Coming' : \E v \in Mine : Saves(p, "send", v))
         /\ by # "upload" => ((\E p \in Coming : \E v \in Mine : Saves(p, "upload", v))
                               => \E p \in Coming' : \E v \in Mine : Saves(p, "upload", v))
         /\ \A v : (by # "retry" \/ v # u) => ((\E p \in Coming : Saves(p, "retry", v))
                                                => \E p \in Coming' : Saves(p, "retry", v))
         /\ \A v : (by # "upload" \/ v # u) => ((\E p \in Coming : Saves(p, "upload", v))
                                                 => \E p \in Coming' : Saves(p, "upload", v))
<1>1. ASSUME NEW p \in Coming, NEW c, NEW v, Saves(p, c, v), c # by \/ v # u
      PROVE  p \in Coming'
  <2>1. p # o
    BY <1>1 DEF Saves
  <2>. QED  BY <2>1
<1>. QED  BY <1>1

LEMMA SendSavedTends ==
  ASSUME SyncInv, WaitsAreTended, SendSaved
  PROVE  WaitsAreTended'
<1>1. Standing /\ UNCHANGED <<toClient, session, sync, ops>> /\ Callback("save", "send")
  BY DEF SendSaved, Standing
<1>2. PICK u : u = UuidOf(Head(done))
  OBVIOUS
<1>3. PICK o : o = Head(done).op
  OBVIOUS
<1>4. /\ u \in Mine /\ o.kind = "save" /\ o.by = "send" /\ \A v : Saves(o, "send", v) => v = u
      /\ Coming \ {o} \subseteq Coming' /\ Coming' \subseteq Coming
      /\ OpeningIsTended'
      /\ Elems(toServer) \subseteq Elems(toServer') => FetchIsTended'
  BY <1>1, <1>2, <1>3, SaveTaken
<1>5. /\ (\E p \in Coming : \E v \in Mine : Saves(p, "upload", v))
            => \E p \in Coming' : \E v \in Mine : Saves(p, "upload", v)
      /\ \A v : ((\E p \in Coming : Saves(p, "retry", v))
                   => \E p \in Coming' : Saves(p, "retry", v))
      /\ \A v : ((\E p \in Coming : Saves(p, "upload", v))
                   => \E p \in Coming' : Saves(p, "upload", v))
  BY <1>4, OthersStay
<1>6. PICK s : s = [sender EXCEPT !.saving = FALSE]
  OBVIOUS
<1>7. /\ DOMAIN s = DOMAIN FreshSender /\ s.upload = sender.upload /\ s.saving = FALSE
      /\ s.retrying = sender.retrying /\ s.committing = sender.committing
      /\ s.timer = sender.timer /\ s.queue = sender.queue
      /\ sender.upload \in Mine \cup {None} /\ Elems(sender.queue) \subseteq Mine
  BY <1>6 DEF WaitsAreTended, FieldsAreOurs, FreshSender
<1>8. IsSeq(<<>>) /\ IsSeq(sender.queue) /\ IsSeq(toServer)
  BY EmptySequence DEF SyncInv, QueueIsSequence, RequestsFit
<1>9. CASE /\ pending' = [pending EXCEPT ![u] = "sending"]
           /\ SendNextMessage(s, <<>>, Append(sender.queue, u))
  <2>1. IsSeq(Append(sender.queue, u))
        /\ Elems(Append(sender.queue, u)) = Elems(sender.queue) \cup {u}
    BY <1>8, AppendSequence
  <2>2. PICK q : q = Append(sender.queue, u)
    OBVIOUS
  <2>3. /\ DOMAIN sender' = DOMAIN FreshSender
        /\ sender'.saving = FALSE /\ sender'.retrying = sender.retrying
        /\ sender'.committing = sender.committing
        /\ Elems(sender'.queue) \subseteq Mine /\ sender'.upload \in Mine \cup {None}
        /\ sender.upload # None => sender'.upload = sender.upload
        /\ sender.timer \subseteq sender'.timer
        /\ \A v \in Elems(q) :
              \/ pending'[v] = "confirmed" \/ v \in sender'.timer
              \/ v \in Elems(sender'.queue) \/ v = sender'.upload
        /\ sender'.queue # <<>> => sender'.upload # None \/ sender'.committing
        /\ Elems(toServer) \subseteq Elems(toServer')
    BY <1>4, <1>7, <1>8, <1>9, <2>1, <2>2, SendNextTends
  <2>4. \A v \in Mine : v # u => pending'[v] = pending[v]
    BY <1>9 DEF SyncInv, ConfirmedIsWritten
  <2>5. FieldsAreOurs' /\ QueueMoves'
    BY <1>1, <1>4, <2>3 DEF WaitsAreTended, FieldsAreOurs, QueueMoves
  <2>6. SavingIsTended'
    BY <1>5, <2>3 DEF WaitsAreTended, SavingIsTended
  <2>7. SendingIsTended'
    <3>. SUFFICES ASSUME NEW v \in Mine, pending'[v] = "sending"
                  PROVE  \/ v \in sender'.timer \/ v \in Elems(sender'.queue)
                         \/ v = sender'.upload
                         \/ \E p \in Coming' : Saves(p, "retry", v) \/ Saves(p, "upload", v)
      BY DEF SendingIsTended
    <3>1. CASE v \in Elems(q)
      BY <2>3, <3>1
    <3>2. CASE v \notin Elems(q)
      <4>1. pending[v] = "sending" /\ v \notin Elems(sender.queue)
        BY <2>1, <2>2, <2>4, <3>2
      <4>2. \/ v \in sender.timer \/ v = sender.upload
            \/ \E p \in Coming : Saves(p, "retry", v) \/ Saves(p, "upload", v)
        BY <4>1 DEF WaitsAreTended, SendingIsTended
      <4>. QED  BY <1>5, <2>3, <4>2, SyncAssumption
    <3>. QED  BY <3>1, <3>2
  <2>. QED  BY <1>4, <2>3, <2>5, <2>6, <2>7 DEF WaitsAreTended
<1>10. CASE sender' = s /\ UNCHANGED <<pending, toServer>>
  <2>1. FieldsAreOurs' /\ QueueMoves'
    BY <1>1, <1>4, <1>7, <1>10 DEF WaitsAreTended, FieldsAreOurs, QueueMoves
  <2>2. SavingIsTended'
    BY <1>5, <1>7, <1>10 DEF WaitsAreTended, SavingIsTended
  <2>3. SendingIsTended'
    BY <1>5, <1>7, <1>10 DEF WaitsAreTended, SendingIsTended
  <2>. QED  BY <1>4, <1>10, <2>1, <2>2, <2>3 DEF WaitsAreTended
<1>. QED  BY <1>2, <1>6, <1>9, <1>10 DEF SendSaved

LEMMA RetrySavedTends ==
  ASSUME SyncInv, WaitsAreTended, RetrySaved
  PROVE  WaitsAreTended'
<1>1. Standing /\ UNCHANGED <<toClient, session, sync, ops>> /\ Callback("save", "retry")
  BY DEF RetrySaved, Standing
<1>2. PICK u : u = UuidOf(Head(done))
  OBVIOUS
<1>3. PICK o : o = Head(done).op
  OBVIOUS
<1>4. /\ u \in Mine /\ o.kind = "save" /\ o.by = "retry" /\ \A v : Saves(o, "retry", v) => v = u
      /\ Coming \ {o} \subseteq Coming' /\ Coming' \subseteq Coming
      /\ OpeningIsTended'
      /\ Elems(toServer) \subseteq Elems(toServer') => FetchIsTended'
  BY <1>1, <1>2, <1>3, SaveTaken
<1>5. /\ (\E p \in Coming : \E v \in Mine : Saves(p, "send", v))
            => \E p \in Coming' : \E v \in Mine : Saves(p, "send", v)
      /\ (\E p \in Coming : \E v \in Mine : Saves(p, "upload", v))
            => \E p \in Coming' : \E v \in Mine : Saves(p, "upload", v)
      /\ \A v : v # u => ((\E p \in Coming : Saves(p, "retry", v))
                   => \E p \in Coming' : Saves(p, "retry", v))
      /\ \A v : ((\E p \in Coming : Saves(p, "upload", v))
                   => \E p \in Coming' : Saves(p, "upload", v))
  BY <1>4, OthersStay
<1>6. PICK s : s = [sender EXCEPT !.retrying = @ \ {u}]
  OBVIOUS
<1>7. /\ DOMAIN s = DOMAIN FreshSender /\ s.upload = sender.upload /\ s.saving = sender.saving
      /\ s.retrying = sender.retrying \ {u} /\ s.committing = sender.committing
      /\ s.timer = sender.timer /\ s.queue = sender.queue
      /\ sender.upload \in Mine \cup {None} /\ Elems(sender.queue) \subseteq Mine
  BY <1>6 DEF WaitsAreTended, FieldsAreOurs, FreshSender
<1>8. IsSeq(<<>>) /\ IsSeq(s.queue) /\ IsSeq(toServer)
  BY <1>7, EmptySequence DEF SyncInv, QueueIsSequence, RequestsFit
<1>9. CASE UNCHANGED pending /\ SendNextMessage(s, <<>>, Append(s.queue, u))
  <2>1. IsSeq(Append(s.queue, u)) /\ Elems(Append(s.queue, u)) = Elems(sender.queue) \cup {u}
    BY <1>7, <1>8, AppendSequence
  <2>2. PICK q : q = Append(s.queue, u)
    OBVIOUS
  <2>3. /\ DOMAIN sender' = DOMAIN FreshSender
        /\ sender'.saving = sender.saving /\ sender'.retrying = sender.retrying \ {u}
        /\ sender'.committing = sender.committing
        /\ Elems(sender'.queue) \subseteq Mine /\ sender'.upload \in Mine \cup {None}
        /\ sender.upload # None => sender'.upload = sender.upload
        /\ sender.timer \subseteq sender'.timer
        /\ \A v \in Elems(q) :
              \/ pending'[v] = "confirmed" \/ v \in sender'.timer
              \/ v \in Elems(sender'.queue) \/ v = sender'.upload
        /\ sender'.queue # <<>> => sender'.upload # None \/ sender'.committing
        /\ Elems(toServer) \subseteq Elems(toServer')
    BY <1>4, <1>7, <1>8, <1>9, <2>1, <2>2, SendNextTends
  <2>4. FieldsAreOurs' /\ QueueMoves'
    BY <1>1, <1>4, <2>3 DEF WaitsAreTended, FieldsAreOurs, QueueMoves
  <2>5. SavingIsTended'
    BY <1>5, <2>3 DEF WaitsAreTended, SavingIsTended
  <2>6. SendingIsTended'
    <3>. SUFFICES ASSUME NEW v \in Mine, pending[v] = "sending"
                  PROVE  \/ v \in sender'.timer \/ v \in Elems(sender'.queue)
                         \/ v = sender'.upload
                         \/ \E p \in Coming' : Saves(p, "retry", v) \/ Saves(p, "upload", v)
      BY <1>9 DEF SendingIsTended
    <3>1. CASE v \in Elems(q)
      BY <1>9, <2>3, <3>1
    <3>2. CASE v \notin Elems(q)
      <4>1. v \notin Elems(sender.queue) /\ v # u
        BY <2>1, <2>2, <3>2
      <4>2. \/ v \in sender.timer \/ v = sender.upload
            \/ \E p \in Coming : Saves(p, "retry", v) \/ Saves(p, "upload", v)
        BY <4>1 DEF WaitsAreTended, SendingIsTended
      <4>. QED  BY <1>5, <2>3, <4>1, <4>2, SyncAssumption
    <3>. QED  BY <3>1, <3>2
  <2>. QED  BY <1>4, <2>3, <2>4, <2>5, <2>6 DEF WaitsAreTended
<1>10. CASE pending' = Failed({u}) /\ sender' = s /\ UNCHANGED toServer
  <2>1. pending'[u] # "sending" /\ \A v \in Mine : v # u => pending'[v] = pending[v]
    BY <1>4, <1>10 DEF Failed
  <2>2. FieldsAreOurs' /\ QueueMoves'
    BY <1>1, <1>4, <1>7, <1>10 DEF WaitsAreTended, FieldsAreOurs, QueueMoves
  <2>3. SavingIsTended'
    BY <1>5, <1>7, <1>10 DEF WaitsAreTended, SavingIsTended
  <2>4. SendingIsTended'
    BY <1>5, <1>7, <1>10, <2>1 DEF WaitsAreTended, SendingIsTended
  <2>. QED  BY <1>4, <1>10, <2>2, <2>3, <2>4 DEF WaitsAreTended
<1>. QED  BY <1>2, <1>6, <1>9, <1>10 DEF RetrySaved

LEMMA UploadSavedTends ==
  ASSUME SyncInv, WaitsAreTended, UploadSaved
  PROVE  WaitsAreTended'
<1>1. Standing /\ UNCHANGED <<toClient, session, sync, ops>> /\ Callback("save", "upload")
  BY DEF UploadSaved, Standing
<1>2. PICK u : u = UuidOf(Head(done))
  OBVIOUS
<1>3. PICK o : o = Head(done).op
  OBVIOUS
<1>4. /\ u \in Mine /\ o.kind = "save" /\ o.by = "upload"
      /\ \A v : Saves(o, "upload", v) => v = u
      /\ Coming \ {o} \subseteq Coming' /\ Coming' \subseteq Coming
      /\ OpeningIsTended'
      /\ Elems(toServer) \subseteq Elems(toServer') => FetchIsTended'
  BY <1>1, <1>2, <1>3, SaveTaken
<1>5. /\ (\E p \in Coming : \E v \in Mine : Saves(p, "send", v))
            => \E p \in Coming' : \E v \in Mine : Saves(p, "send", v)
      /\ \A v : ((\E p \in Coming : Saves(p, "retry", v))
                   => \E p \in Coming' : Saves(p, "retry", v))
      /\ \A v : v # u => ((\E p \in Coming : Saves(p, "upload", v))
                   => \E p \in Coming' : Saves(p, "upload", v))
  BY <1>4, OthersStay
<1>6. PICK s : s = [sender EXCEPT !.committing = FALSE]
  OBVIOUS
<1>7. /\ DOMAIN s = DOMAIN FreshSender /\ s.upload = sender.upload /\ s.saving = sender.saving
      /\ s.retrying = sender.retrying /\ s.committing = FALSE
      /\ s.timer = sender.timer /\ s.queue = sender.queue
      /\ sender.upload \in Mine \cup {None} /\ Elems(sender.queue) \subseteq Mine
  BY <1>6 DEF WaitsAreTended, FieldsAreOurs, FreshSender
<1>8. IsSeq(s.queue) /\ IsSeq(toServer)
  BY <1>7 DEF SyncInv, QueueIsSequence, RequestsFit
<1>9. PICK first : /\ IsSeq(first) /\ SendNextMessage(s, first, s.queue)
                   /\ u \in Elems(first) \/ pending'[u] # "sending"
                   /\ \A v \in Mine : v # u => pending'[v] = pending[v]
  <2>1. PICK one : one = <<u>>
    OBVIOUS
  <2>2. one = Append(<<>>, u)
    BY <2>1
  <2>3. IsSeq(<<>>) /\ IsSeq(one) /\ u \in Elems(one)
    <3>1. PICK none : none = <<>>
      OBVIOUS
    <3>2. IsSeq(none) /\ one = Append(none, u)
      BY <2>2, <3>1, EmptySequence
    <3>3. IsSeq(one) /\ Elems(one) = Elems(none) \cup {u}
      BY <3>2, AppendSequence
    <3>. QED  BY <3>3, EmptySequence
  <2>4. \/ SendNextMessage(s, one, s.queue) /\ UNCHANGED pending
        \/ SendNextMessage(s, <<>>, s.queue) /\ pending' = Failed({u})
    BY <1>2, <1>6, <2>1 DEF UploadSaved
  <2>5. CASE SendNextMessage(s, one, s.queue) /\ UNCHANGED pending
    BY <2>3, <2>5
  <2>6. CASE SendNextMessage(s, <<>>, s.queue) /\ pending' = Failed({u})
    <3>1. pending'[u] # "sending" /\ \A v \in Mine : v # u => pending'[v] = pending[v]
      BY <1>4, <2>6 DEF Failed
    <3>. QED  BY <2>3, <2>6, <3>1
  <2>. QED  BY <2>4, <2>5, <2>6
<1>10. /\ DOMAIN sender' = DOMAIN FreshSender
       /\ sender'.saving = sender.saving /\ sender'.retrying = sender.retrying
       /\ sender'.committing = FALSE
       /\ Elems(sender'.queue) \subseteq Mine /\ sender'.upload \in Mine \cup {None}
       /\ sender.upload # None => sender'.upload = sender.upload
       /\ sender.timer \subseteq sender'.timer
       /\ \A v \in Elems(first) : pending'[v] = "confirmed" \/ v \in sender'.timer
       /\ \A v \in Elems(sender.queue) :
             \/ pending'[v] = "confirmed" \/ v \in sender'.timer
             \/ v \in Elems(sender'.queue) \/ v = sender'.upload
       /\ sender'.queue # <<>> => sender'.upload # None \/ sender'.committing
       /\ Elems(toServer) \subseteq Elems(toServer')
  BY <1>7, <1>8, <1>9, SendNextTends
<1>11. FieldsAreOurs' /\ QueueMoves'
  BY <1>1, <1>4, <1>10 DEF WaitsAreTended, FieldsAreOurs, QueueMoves
<1>12. SavingIsTended'
  BY <1>5, <1>10 DEF WaitsAreTended, SavingIsTended
<1>13. SendingIsTended'
  <2>. SUFFICES ASSUME NEW v \in Mine, pending'[v] = "sending"
                PROVE  \/ v \in sender'.timer \/ v \in Elems(sender'.queue)
                       \/ v = sender'.upload
                       \/ \E p \in Coming' : Saves(p, "retry", v) \/ Saves(p, "upload", v)
    BY DEF SendingIsTended
  <2>1. CASE v = u
    BY <1>9, <1>10, <2>1
  <2>2. CASE v # u
    <3>1. \/ v \in sender.timer \/ v \in Elems(sender.queue) \/ v = sender.upload
          \/ \E p \in Coming : Saves(p, "retry", v) \/ Saves(p, "upload", v)
      BY <1>9, <2>2 DEF WaitsAreTended, SendingIsTended
    <3>. QED  BY <1>5, <1>10, <2>2, <3>1, SyncAssumption
  <2>. QED  BY <2>1, <2>2
<1>. QED  BY <1>4, <1>10, <1>11, <1>12, <1>13 DEF WaitsAreTended

\* The callback of anything else disturbs no wait for a save.
LEMMA OtherTaken ==
  ASSUME SyncInv, WaitsAreTended, NEW kind, NEW by, kind # "save" \/ by = "live",
         Callback(kind, by), UNCHANGED sender, DOMAIN sync' = DOMAIN sync,
         Elems(ops) \subseteq Elems(ops'),
         \A o \in Elems(ops') : o \in Elems(ops) \/ ~OwnSave(o)
  PROVE  /\ FieldsAreOurs' /\ SavingIsTended' /\ QueueMoves'
         /\ (\A u \in Mine : pending'[u] = "sending" => pending[u] = "sending")
               => SendingIsTended'
         /\ (UNCHANGED session /\ kind # "open") => OpeningIsTended'
         /\ (/\ UNCHANGED sync /\ kind # "page" /\ Elems(toServer) \subseteq Elems(toServer')
             /\ Elems(toClient) \subseteq Elems(toClient')) => FetchIsTended'
<1>1. PICK o : o = Head(done).op
  OBVIOUS
<1>2. o.kind = kind /\ ~OwnSave(o)
  BY <1>1 DEF Callback, OwnSave
<1>3. Elems(done) = Elems(done') \cup {Head(done)}
  BY TailOf DEF SyncInv, DoneFit, Callback
<1>4. PICK X : X = {o}
  OBVIOUS
<1>5. Coming \ X \subseteq Coming'
  BY <1>1, <1>3, <1>4 DEF Coming
<1>6. \A p \in Coming' : p \in Coming \/ ~OwnSave(p)
  BY <1>3 DEF Coming
<1>7. \A x \in X : ~OwnSave(x) /\ x.kind = kind
  BY <1>2, <1>4
<1>. HIDE <1>4
<1>8. FieldsAreOurs' /\ SavingIsTended' /\ QueueMoves'
  BY <1>5, <1>6, <1>7, TendedFrame
<1>9. (\A u \in Mine : pending'[u] = "sending" => pending[u] = "sending") => SendingIsTended'
  BY <1>5, <1>7, TendedFrame
<1>10. (UNCHANGED session /\ kind # "open") => OpeningIsTended'
  BY <1>5, <1>7, TendedFrame
<1>11. (/\ UNCHANGED sync /\ kind # "page" /\ Elems(toServer) \subseteq Elems(toServer')
        /\ Elems(toClient) \subseteq Elems(toClient')) => FetchIsTended'
  BY <1>5, <1>7, TendedFrame
<1>. QED  BY <1>8, <1>9, <1>10, <1>11

LEMMA SettledSends ==
  ASSUME NEW d, pending' = Settled(d)
  PROVE  \A u \in Mine : pending'[u] = "sending" => pending[u] = "sending"
BY DEF Settled

LEMMA LiveSavedTends ==
  ASSUME SyncInv, WaitsAreTended, LiveSaved
  PROVE  WaitsAreTended'
<1>1. /\ UNCHANGED <<toServer, toClient, session, sender, sync, ops>>
      /\ Callback("save", "live")
      /\ pending' = Settled(Head(done)) \/ UNCHANGED pending
  BY DEF LiveSaved, netVars
<1>2. \A u \in Mine : pending'[u] = "sending" => pending[u] = "sending"
  BY <1>1, SettledSends
<1>. QED  BY <1>1, <1>2, OtherTaken DEF WaitsAreTended

LEMMA LocalReadTends ==
  ASSUME SyncInv, WaitsAreTended, LocalRead
  PROVE  WaitsAreTended'
<1>1. UNCHANGED <<toServer, toClient, session, sender, sync, ops>> /\ Callback("read", "")
  BY DEF LocalRead, netVars
<1>2. \A u \in Mine : pending'[u] = "sending" => pending[u] = "sending"
  BY DEF LocalRead
<1>3. FieldsAreOurs' /\ SavingIsTended' /\ QueueMoves' /\ SendingIsTended'
  BY <1>1, <1>2, OtherTaken
<1>4. OpeningIsTended' /\ FetchIsTended'
  <2>1. PICK kind : kind = "read"
    OBVIOUS
  <2>2. Callback(kind, "") /\ kind # "save" /\ kind # "open" /\ kind # "page"
    BY <1>1, <2>1
  <2>. HIDE <2>1
  <2>. QED  BY <1>1, <2>2, OtherTaken
<1>. QED  BY <1>3, <1>4 DEF WaitsAreTended

\* A request for history has its answer under way from the start.
LEMMA AskTends ==
  ASSUME SyncInv, NEW c, Ask(c)
  PROVE  /\ \E r \in Elems(toServer') : r.kind = "load" /\ r.current
         /\ Elems(toServer) \subseteq Elems(toServer')
<1>1. PICK r : r = [kind |-> "load", from |-> c, current |-> TRUE]
  OBVIOUS
<1>2. r.kind = "load" /\ r.current
  BY <1>1
<1>3. toServer' = Append(toServer, r)
  BY <1>1 DEF Ask
<1>4. Elems(toServer') = Elems(toServer) \cup {r}
  BY <1>3, AppendSequence DEF SyncInv, RequestsFit
<1>. QED  BY <1>2, <1>4

LEMMA PageSavedTends ==
  ASSUME SyncInv, WaitsAreTended, PageSaved
  PROVE  WaitsAreTended'
<1>1. UNCHANGED <<toClient, session, sender, ops>> /\ Callback("page", "")
  BY DEF PageSaved
<1>2. PICK o : o = Head(done).op
  OBVIOUS
<1>3. \/ /\ pending' = Settled(Head(done))
         /\ sync' = [sync EXCEPT !.cursor = o.next, !.complete = @ \/ ~o.more,
                                 !.hist = IF o.more THEN "asked" ELSE "idle"]
         /\ IF o.more THEN Ask(o.next) ELSE UNCHANGED toServer
      \/ /\ sync' = [sync EXCEPT !.hist = "idle"]
         /\ UNCHANGED <<pending, toServer>>
  BY <1>2 DEF PageSaved
<1>4. "hist" \in DOMAIN sync
  BY DEF WaitsAreTended, FieldsAreOurs, FreshSync
<1>5. /\ DOMAIN sync' = DOMAIN sync
      /\ sync'.hist = "idle" \/ (sync'.hist = "asked" /\ \E c : Ask(c))
  BY <1>3, <1>4
<1>6. \A u \in Mine : pending'[u] = "sending" => pending[u] = "sending"
  BY <1>3, SettledSends
<1>7. FetchIsTended'
  BY <1>5, AskTends DEF FetchIsTended
<1>8. FieldsAreOurs' /\ SavingIsTended' /\ QueueMoves' /\ SendingIsTended'
  BY <1>1, <1>5, <1>6, OtherTaken
<1>9. OpeningIsTended'
  <2>1. PICK kind : kind = "page"
    OBVIOUS
  <2>2. Callback(kind, "") /\ kind # "save" /\ kind # "open"
    BY <1>1, <2>1
  <2>. HIDE <2>1
  <2>. QED  BY <1>1, <1>5, <2>2, OtherTaken
<1>. QED  BY <1>7, <1>8, <1>9 DEF WaitsAreTended

LEMMA SessionOpenedTends ==
  ASSUME SyncInv, WaitsAreTended, SessionOpened
  PROVE  WaitsAreTended'
<1>1. /\ UNCHANGED <<toClient, pending, sender>> /\ Callback("open", "") /\ session' = "on"
      /\ sync' = [sync EXCEPT !.cursor = Head(done).cursor]
      /\ ops' = Append(ops, Plain("read"))
      /\ toServer' = Append(toServer, [kind |-> "threads"])
  BY DEF SessionOpened
<1>2. PICK o : o = Plain("read")
  OBVIOUS
<1>3. ~OwnSave(o)
  BY <1>2 DEF Plain, OwnSave
<1>4. Elems(ops') = Elems(ops) \cup {o}
  BY <1>1, <1>2, AppendSequence DEF SyncInv, OpsFit
<1>5. Elems(toServer) \subseteq Elems(toServer')
  <2>1. PICK r : r = [kind |-> "threads"]
    OBVIOUS
  <2>2. toServer' = Append(toServer, r)
    BY <1>1, <2>1
  <2>. QED  BY <2>2, AppendSequence DEF SyncInv, RequestsFit
<1>6. DOMAIN sync' = DOMAIN sync /\ sync'.hist = sync.hist
  BY <1>1 DEF WaitsAreTended, FieldsAreOurs, FreshSync
<1>7. FieldsAreOurs' /\ SavingIsTended' /\ QueueMoves' /\ SendingIsTended'
  BY <1>1, <1>3, <1>4, <1>6, OtherTaken
<1>8. OpeningIsTended'
  BY <1>1 DEF OpeningIsTended
<1>9. FetchIsTended'
  <2>1. Elems(done) = Elems(done') \cup {Head(done)} /\ Head(done).op.kind = "open"
    BY <1>1, TailOf DEF SyncInv, DoneFit, Callback
  <2>2. \A p \in Coming : p.kind = "page" => p \in Coming'
    BY <1>4, <2>1 DEF Coming
  <2>. QED  BY <1>1, <1>5, <1>6, <2>2 DEF WaitsAreTended, FetchIsTended
<1>. QED  BY <1>7, <1>8, <1>9 DEF WaitsAreTended

----------------------------------------------------------------------------
(* Timers and the session                                                  *)

LEMMA RefreshTends ==
  ASSUME SyncInv, WaitsAreTended, Refresh
  PROVE  WaitsAreTended'
<1>1. /\ UNCHANGED <<toClient, session, pending, sender, ops, done>>
      /\ sync' = [sync EXCEPT !.complete = FALSE, !.hist = "asked"] /\ Ask(sync.cursor)
  BY DEF Refresh, storeVars
<1>2. Coming' = Coming
  BY <1>1 DEF Coming
<1>3. DOMAIN sync' = DOMAIN sync /\ sync'.hist = "asked"
  BY <1>1 DEF WaitsAreTended, FieldsAreOurs, FreshSync
<1>4. FetchIsTended'
  BY <1>1, <1>3, AskTends DEF FetchIsTended
<1>. QED  BY <1>1, <1>2, <1>3, <1>4, GrowingFrame DEF WaitsAreTended

LEMMA HistoryTimeoutTends ==
  ASSUME SyncInv, WaitsAreTended, HistoryTimeout
  PROVE  WaitsAreTended'
<1>1. /\ UNCHANGED <<session, pending, sender, ops, done>>
      /\ sync' = [sync EXCEPT !.hist = "idle"]
  BY DEF HistoryTimeout, storeVars
<1>2. Coming' = Coming
  BY <1>1 DEF Coming
<1>3. DOMAIN sync' = DOMAIN sync /\ sync'.hist = "idle"
  BY <1>1 DEF WaitsAreTended, FieldsAreOurs, FreshSync
<1>4. FetchIsTended'
  BY <1>3 DEF FetchIsTended
<1>. QED  BY <1>1, <1>2, <1>3, <1>4, GrowingFrame DEF WaitsAreTended

\* An operation that is no save of the user's own.
LEMMA OtherOpTends ==
  ASSUME SyncInv, WaitsAreTended, NEW o, ~OwnSave(o), ops' = Append(ops, o),
         UNCHANGED <<done, sender, pending>>, DOMAIN sync' = DOMAIN sync
  PROVE  /\ Coming \subseteq Coming' /\ (o.live => o \in Coming')
         /\ FieldsAreOurs' /\ SavingIsTended' /\ QueueMoves' /\ SendingIsTended'
         /\ UNCHANGED session => OpeningIsTended'
<1>1. Coming \subseteq Coming' /\ Coming' \subseteq Coming \cup {o} /\ (o.live => o \in Coming')
  BY ComingQueued
<1>2. \A p \in Coming' : p \in Coming \/ ~OwnSave(p)
  BY <1>1
<1>. QED  BY <1>1, <1>2, GrowingFrame

LEMMA LoginTends ==
  ASSUME SyncInv, WaitsAreTended, Login
  PROVE  WaitsAreTended'
<1>1. PICK o : o = Plain("open")
  OBVIOUS
<1>2. /\ UNCHANGED <<toServer, toClient, pending, sender, sync, done>>
      /\ ops' = Append(ops, o) /\ session' = "opening"
  BY <1>1 DEF Login, netVars
<1>3. o.kind = "open" /\ o.live /\ ~OwnSave(o)
  BY <1>1 DEF Plain, OwnSave
<1>4. /\ Coming \subseteq Coming' /\ o \in Coming'
      /\ FieldsAreOurs' /\ SavingIsTended' /\ QueueMoves' /\ SendingIsTended'
  BY <1>2, <1>3, OtherOpTends
<1>5. OpeningIsTended'
  BY <1>3, <1>4 DEF OpeningIsTended
<1>6. FetchIsTended'
  BY <1>2, <1>4, GrowingFrame
<1>. QED  BY <1>4, <1>5, <1>6 DEF WaitsAreTended

LEMMA EraseTends ==
  ASSUME SyncInv, WaitsAreTended, Erase
  PROVE  WaitsAreTended'
<1>1. UNCHANGED <<toServer, toClient, session, pending, sender, sync, done>>
  BY DEF Erase, netVars, clientVars
<1>2. PICK o : ops' = Append(ops, o) /\ ~OwnSave(o)
  <2>1. CASE ops' = Append(ops, [kind |-> "clear", live |-> FALSE])
    <3>1. ~OwnSave([kind |-> "clear", live |-> FALSE])
      BY DEF OwnSave
    <3>. QED  BY <2>1, <3>1
  <2>2. CASE \E r \in store.rows :
                ops' = Append(ops, [kind |-> "delete", id |-> r.id, live |-> FALSE])
    <3>1. PICK r \in store.rows :
             ops' = Append(ops, [kind |-> "delete", id |-> r.id, live |-> FALSE])
      BY <2>2
    <3>2. ~OwnSave([kind |-> "delete", id |-> r.id, live |-> FALSE])
      BY DEF OwnSave
    <3>. QED  BY <3>1, <3>2
  <2>. QED  BY <2>1, <2>2 DEF Erase
<1>3. /\ Coming \subseteq Coming' /\ OpeningIsTended'
      /\ FieldsAreOurs' /\ SavingIsTended' /\ QueueMoves' /\ SendingIsTended'
  BY <1>1, <1>2, OtherOpTends
<1>4. FetchIsTended'
  BY <1>1, <1>3, GrowingFrame
<1>. QED  BY <1>3, <1>4 DEF WaitsAreTended

LEMMA EndSessionTends ==
  ASSUME SyncInv, WaitsAreTended, EndSession
  PROVE  WaitsAreTended'
<1>1. /\ sender' = FreshSender /\ sync' = FreshSync /\ session' = "off" /\ done' = <<>>
      /\ pending' = [u \in Mine |-> "none"]
  BY DEF EndSession
<1>2. \A o \in Elems(ops') : o.live = FALSE
  <2>1. CASE ops' = <<>>
    BY <2>1, EmptySequence
  <2>2. CASE ops' = [i \in DOMAIN ops |-> [ops[i] EXCEPT !.live = FALSE]]
    <3>1. ASSUME NEW i \in DOMAIN ops PROVE ops'[i].live = FALSE
      <4>1. PICK o : o = ops[i]
        OBVIOUS
      <4>2. OpFits(log, store.cursor, o) /\ ops'[i] = [o EXCEPT !.live = FALSE]
        BY <2>2, <4>1 DEF SyncInv, OpsFit, Elems
      <4>3. "live" \in DOMAIN o
        <5>1. CASE SaveFits(log, o)
          BY <5>1 DEF SaveFits
        <5>2. CASE PageOpFits(log, store.cursor, o)
          BY <5>2 DEF PageOpFits
        <5>3. CASE OtherOp(o)
          BY <5>3 DEF OtherOp
        <5>. QED  BY <4>2, <5>1, <5>2, <5>3 DEF OpFits
      <4>. QED  BY <4>2, <4>3
    <3>. QED  BY <2>2, <3>1 DEF Elems
  <2>. QED  BY <2>1, <2>2 DEF EndSession
<1>3. \A o \in Coming' : FALSE
  BY <1>1, <1>2, EmptySequence DEF Coming
<1>4. \A u \in Mine : pending'[u] = "none"
  BY <1>1
<1>5. /\ DOMAIN sender' = DOMAIN FreshSender /\ DOMAIN sync' = DOMAIN FreshSync
      /\ sender'.queue = <<>> /\ sender'.upload = None /\ sender'.saving = FALSE
      /\ sender'.retrying = {} /\ sender'.committing = FALSE /\ sync'.hist = "idle"
  BY <1>1 DEF FreshSender, FreshSync
<1>6. FieldsAreOurs'
  BY <1>3, <1>5, EmptySequence DEF FieldsAreOurs
<1>7. OpeningIsTended' /\ SavingIsTended' /\ QueueMoves'
  BY <1>1, <1>5 DEF OpeningIsTended, SavingIsTended, QueueMoves
<1>8. SendingIsTended'
  BY <1>4 DEF SendingIsTended
<1>9. FetchIsTended'
  BY <1>5 DEF FetchIsTended
<1>. QED  BY <1>6, <1>7, <1>8, <1>9 DEF WaitsAreTended

----------------------------------------------------------------------------
(* Packets                                                                 *)

LEMMA ReceiveTends ==
  ASSUME SyncInv, WaitsAreTended, Receive
  PROVE  WaitsAreTended'
<1>1. /\ UNCHANGED <<session, sender, done>> /\ toClient # <<>> /\ toClient' = Tail(toClient)
  BY DEF Receive
<1>2. PICK m : m = Head(toClient)
  OBVIOUS
<1>3. Elems(toClient) = Elems(toClient') \cup {m}
  BY <1>1, <1>2, TailOf DEF SyncInv, PacketsFit
<1>4. CASE m.kind = "live" /\ ReceiveMessages(m)
  <2>1. UNCHANGED <<pending, sync, toServer>>
    BY <1>4 DEF ReceiveMessages
  <2>2. /\ Coming \subseteq Coming'
        /\ FieldsAreOurs' /\ SavingIsTended' /\ QueueMoves' /\ SendingIsTended'
        /\ OpeningIsTended'
    <3>1. CASE UNCHANGED ops
      <4>1. Coming' = Coming
        BY <1>1, <3>1 DEF Coming
      <4>. QED  BY <1>1, <2>1, <4>1, GrowingFrame
    <3>2. CASE ops' = Append(ops, SaveOp("live", {Row(m.uuid, m.id)}))
      <4>1. PICK o : o = SaveOp("live", {Row(m.uuid, m.id)})
        OBVIOUS
      <4>2. ~OwnSave(o) /\ ops' = Append(ops, o)
        BY <3>2, <4>1 DEF OwnSave, SaveOp
      <4>. QED  BY <1>1, <2>1, <4>2, OtherOpTends
    <3>. QED  BY <1>4, <3>1, <3>2 DEF ReceiveMessages
  <2>3. FetchIsTended'
    BY <1>3, <1>4, <2>1, <2>2 DEF WaitsAreTended, FetchIsTended
  <2>. QED  BY <2>2, <2>3 DEF WaitsAreTended
<1>5. CASE m.kind = "error" /\ ReceiveRefusal
  <2>1. UNCHANGED <<sync, ops, toServer>>
        /\ \A u \in Mine : pending'[u] = "sending" => pending[u] = "sending"
    BY <1>5 DEF ReceiveRefusal, Failed
  <2>2. Coming' = Coming
    BY <1>1, <2>1 DEF Coming
  <2>3. /\ FieldsAreOurs' /\ SavingIsTended' /\ QueueMoves' /\ SendingIsTended'
        /\ OpeningIsTended'
    BY <1>1, <2>1, <2>2, GrowingFrame
  <2>4. FetchIsTended'
    BY <1>3, <1>5, <2>1, <2>2 DEF WaitsAreTended, FetchIsTended
  <2>. QED  BY <2>3, <2>4 DEF WaitsAreTended
<1>6. CASE m.kind = "page" /\ ReceiveHistory(m)
  <2>1. UNCHANGED <<pending, toServer>>
    BY <1>6 DEF ReceiveHistory
  <2>2. CASE /\ sync' = [sync EXCEPT !.hist = "saving"]
             /\ ops' = Append(ops, PageOp(m.records, m.next, m.more))
    <3>1. PICK o : o = PageOp(m.records, m.next, m.more)
      OBVIOUS
    <3>2. o.kind = "page" /\ o.live /\ ~OwnSave(o)
      BY <3>1 DEF PageOp, OwnSave
    <3>3. DOMAIN sync' = DOMAIN sync /\ sync'.hist = "saving"
      BY <2>2 DEF WaitsAreTended, FieldsAreOurs, FreshSync
    <3>4. /\ o \in Coming' /\ OpeningIsTended'
          /\ FieldsAreOurs' /\ SavingIsTended' /\ QueueMoves' /\ SendingIsTended'
      BY <1>1, <2>1, <2>2, <3>1, <3>2, <3>3, OtherOpTends
    <3>5. FetchIsTended'
      BY <3>2, <3>3, <3>4 DEF FetchIsTended
    <3>. QED  BY <3>4, <3>5 DEF WaitsAreTended
  <2>3. CASE ~(m.current /\ sync.hist = "asked") /\ UNCHANGED <<sync, ops>>
    <3>1. Coming' = Coming
      BY <1>1, <2>3 DEF Coming
    <3>2. /\ FieldsAreOurs' /\ SavingIsTended' /\ QueueMoves' /\ SendingIsTended'
          /\ OpeningIsTended'
      BY <1>1, <2>1, <2>3, <3>1, GrowingFrame
    <3>3. FetchIsTended'
      BY <1>3, <2>1, <2>3, <3>1 DEF WaitsAreTended, FetchIsTended
    <3>. QED  BY <3>2, <3>3 DEF WaitsAreTended
  <2>. QED  BY <1>6, <2>2, <2>3 DEF ReceiveHistory
<1>7. CASE m.kind = "threads" /\ ReceiveThreads(m)
  <2>1. PICK o : o = [kind |-> "thread", last |-> m.last, live |-> FALSE]
    OBVIOUS
  <2>2. ~OwnSave(o) /\ ops' = Append(ops, o) /\ UNCHANGED pending
    BY <1>7, <2>1 DEF ReceiveThreads, OwnSave
  <2>3. \/ sync' = [sync EXCEPT !.hist = "asked"] /\ Ask(sync.cursor)
        \/ UNCHANGED <<sync, toServer>>
    BY <1>7 DEF ReceiveThreads
  <2>4. DOMAIN sync' = DOMAIN sync
    BY <2>3
  <2>5. /\ Coming \subseteq Coming' /\ OpeningIsTended'
        /\ FieldsAreOurs' /\ SavingIsTended' /\ QueueMoves' /\ SendingIsTended'
    BY <1>1, <2>2, <2>4, OtherOpTends
  <2>6. FetchIsTended'
    <3>1. CASE sync' = [sync EXCEPT !.hist = "asked"] /\ Ask(sync.cursor)
      <4>1. sync'.hist = "asked"
        BY <3>1 DEF WaitsAreTended, FieldsAreOurs, FreshSync
      <4>. QED  BY <3>1, <4>1, AskTends DEF FetchIsTended
    <3>2. CASE UNCHANGED <<sync, toServer>>
      BY <1>3, <1>7, <2>5, <3>2 DEF WaitsAreTended, FetchIsTended
    <3>. QED  BY <2>3, <3>1, <3>2
  <2>. QED  BY <2>5, <2>6 DEF WaitsAreTended
<1>. QED  BY <1>2, <1>4, <1>5, <1>6, <1>7 DEF Receive

LEMMA ServeTends ==
  ASSUME SyncInv, WaitsAreTended, Serve
  PROVE  WaitsAreTended'
<1>1. /\ toServer # <<>> /\ toServer' = Tail(toServer)
      /\ UNCHANGED <<session, pending, sender, sync, ops, done>>
  BY DEF Serve, clientVars, storeVars
<1>2. PICK r : r = Head(toServer)
  OBVIOUS
<1>3. Elems(toServer) = Elems(toServer') \cup {r}
  BY <1>1, <1>2, TailOf DEF SyncInv, RequestsFit
<1>4. Coming' = Coming
  BY <1>1 DEF Coming
<1>5. /\ FieldsAreOurs' /\ SavingIsTended' /\ QueueMoves' /\ SendingIsTended'
      /\ OpeningIsTended'
  BY <1>1, <1>4, GrowingFrame
<1>6. IsSeq(toClient)
  BY DEF SyncInv, PacketsFit
<1>7. /\ Elems(toClient) \subseteq Elems(toClient')
      /\ r.kind = "load" /\ r.current => \E m \in Elems(toClient') : m.kind = "page" /\ m.current
  <2>1. CASE r.kind = "send" /\ ServeSend(r.uuid)
    <3>1. PICK L : L = IF r.uuid \in Written THEN log ELSE Append(log, r.uuid)
      OBVIOUS
    <3>2. PICK m : m = Live(L, r.uuid)
      OBVIOUS
    <3>3. PICK two : two = <<m, m>>
      OBVIOUS
    <3>4. PICK no : no = Refusal
      OBVIOUS
    <3>5. \/ toClient' = Append(toClient, m) \/ toClient' = toClient \o two
          \/ toClient' = Append(toClient, no)
      BY <2>1, <3>1, <3>2, <3>3, <3>4 DEF ServeSend
    <3>6. IsSeq(two)
      <4>1. two \in Seq({m}) /\ DOMAIN two = 1..2 /\ two[1] = m /\ two[2] = m
        BY <3>3
      <4>2. \A i \in 1..2 : two[i] = m
        BY <4>1
      <4>. QED  BY <4>1, <4>2 DEF IsSeq, Elems
    <3>7. Elems(toClient) \subseteq Elems(toClient')
      <4>1. \A e : Elems(toClient) \subseteq Elems(Append(toClient, e))
        BY <1>6, AppendSequence
      <4>2. CASE toClient' = toClient \o two
        BY <1>6, <3>6, <4>2, ConcatSequences
      <4>. QED  BY <3>5, <4>1, <4>2
    <3>. QED  BY <2>1, <3>7
  <2>2. CASE r.kind = "load" /\ ServeLoad(r)
    <3>1. PICK p : toClient' = Append(toClient, p) /\ p.kind = "page" /\ p.current = r.current
      <4>1. PICK last : last = IF r.from + PageSize < Len(log) THEN r.from + PageSize
                                                               ELSE Len(log)
        OBVIOUS
      <4>2. PICK more : more = (last < Len(log))
        OBVIOUS
      <4>3. PICK M : M = {Row(log[i], i) : i \in (r.from + 1)..last}
        OBVIOUS
      <4>4. PICK p : p = [kind |-> "page", next |-> last, more |-> more,
                          current |-> r.current, records |-> M]
        OBVIOUS
      <4>5. toClient' = Append(toClient, p)
        BY <2>2, <4>1, <4>2, <4>3, <4>4 DEF ServeLoad
      <4>. QED  BY <4>4, <4>5
    <3>2. Elems(toClient') = Elems(toClient) \cup {p}
      BY <1>6, <3>1, AppendSequence
    <3>. QED  BY <3>1, <3>2
  <2>3. CASE r.kind = "threads" /\ ServeThreads
    <3>1. PICK m : m = [kind |-> "threads", last |-> Len(log)]
      OBVIOUS
    <3>2. toClient' = Append(toClient, m)
      BY <2>3, <3>1 DEF ServeThreads
    <3>. QED  BY <1>6, <2>3, <3>2, AppendSequence
  <2>. QED  BY <1>2, <2>1, <2>2, <2>3 DEF Serve
<1>8. FetchIsTended'
  BY <1>1, <1>3, <1>4, <1>7 DEF WaitsAreTended, FetchIsTended
<1>. QED  BY <1>5, <1>8 DEF WaitsAreTended

\* What only writes to the log, or adds a packet, leaves every wait as it is.
LEMMA PeerTends ==
  ASSUME SyncInv, WaitsAreTended,
         \/ \E u \in Mine : ServeLate(u)
         \/ \E u \in Theirs : PeerSends(u)
         \/ UNCHANGED vars
  PROVE  WaitsAreTended'
<1>1. /\ UNCHANGED <<toServer, session, pending, sender, sync, ops, done>>
      /\ UNCHANGED toClient \/ \E m : toClient' = Append(toClient, m)
  BY DEF ServeLate, PeerSends, vars, netVars, clientVars, storeVars
<1>2. Coming' = Coming
  BY <1>1 DEF Coming
<1>3. Elems(toClient) \subseteq Elems(toClient')
  <2>1. ASSUME NEW m, toClient' = Append(toClient, m)
        PROVE  Elems(toClient) \subseteq Elems(toClient')
    BY <2>1, AppendSequence DEF SyncInv, PacketsFit
  <2>. QED  BY <1>1, <2>1
<1>. QED  BY <1>1, <1>2, <1>3, GrowingFrame DEF WaitsAreTended

LEMMA TendedInit == Init => WaitsAreTended
<1>. SUFFICES ASSUME Init PROVE WaitsAreTended
  OBVIOUS
<1>1. /\ sender = FreshSender /\ sync = FreshSync /\ session = "off"
      /\ ops = <<>> /\ done = <<>> /\ pending = [u \in Mine |-> "none"]
  BY DEF Init
<1>2. \A o \in Coming : FALSE
  BY <1>1, EmptySequence DEF Coming
<1>3. /\ DOMAIN sender = DOMAIN FreshSender /\ DOMAIN sync = DOMAIN FreshSync
      /\ sender.queue = <<>> /\ sender.upload = None /\ sender.saving = FALSE
      /\ sender.retrying = {} /\ sender.committing = FALSE /\ sync.hist = "idle"
  BY <1>1 DEF FreshSender, FreshSync
<1>4. FieldsAreOurs
  BY <1>2, <1>3, EmptySequence DEF FieldsAreOurs
<1>5. OpeningIsTended /\ SavingIsTended /\ QueueMoves
  BY <1>1, <1>3 DEF OpeningIsTended, SavingIsTended, QueueMoves
<1>6. SendingIsTended
  BY <1>1 DEF SendingIsTended
<1>7. FetchIsTended
  BY <1>3 DEF FetchIsTended
<1>. QED  BY <1>4, <1>5, <1>6, <1>7 DEF WaitsAreTended

LEMMA TendedNext == SyncInv /\ WaitsAreTended /\ [Next]_vars => WaitsAreTended'
<1>. SUFFICES ASSUME SyncInv, WaitsAreTended, [Next]_vars PROVE WaitsAreTended'
  OBVIOUS
<1>1. CASE CallbackStep
  BY <1>1, SendSavedTends, RetrySavedTends, UploadSavedTends, LiveSavedTends,
     PageSavedTends, LocalReadTends, SessionOpenedTends DEF CallbackStep
<1>2. CASE RunOp \/ Receive \/ Refresh \/ HistoryTimeout \/ Login \/ EndSession \/ Erase
  BY <1>2, RunOpTends, ReceiveTends, RefreshTends, HistoryTimeoutTends, LoginTends,
     EndSessionTends, EraseTends
<1>3. CASE \E u \in Mine : Send(u) \/ RetryMessage(u) \/ SendTimeout(u) \/ UploadFinished(u)
  BY <1>3, SendTends, RetryMessageTends, SendTimeoutTends, UploadFinishedTends
<1>4. CASE \/ \E u \in Mine : ServeLate(u)
           \/ \E u \in Theirs : PeerSends(u)
           \/ UNCHANGED vars
  BY <1>4, PeerTends
<1>5. CASE Serve
  BY <1>5, ServeTends
<1>. QED  BY <1>1, <1>2, <1>3, <1>4, <1>5 DEF Next

\* Whatever the client waits for has its end under way, in every state and after
\* every loss of the connection: a message that is being sent has its timer, its
\* place in a queue that moves, its upload or a callback; a locked composer, a
\* retry, an upload and an opening session have their callback; a history
\* request has its answer (MessageSender, ChatSyncService::ReceiveHistory).
THEOREM WaitsEnd == Spec => []WaitsAreTended
BY SyncInvariant, TendedInit, TendedNext, PTL DEF Spec

=============================================================================
