------------------------ MODULE ResourceUploadProofs ------------------------
(***************************************************************************)
(* Theorems about ResourceUpload: for any number of devices, any size of   *)
(* file, chunk and window and any number of crashes and faults, the part   *)
(* is a prefix of the file and what is published is the whole file; every  *)
(* answer a device waits for is under way.                                 *)
(***************************************************************************)
EXTENDS ResourceUpload, SequenceTheorems, WellFoundedInduction, TLAPS

UploadRequests == [kind : {"init", "chunk"}, offset : Nat]
Answers == [ok : BOOLEAN, offset : Nat, complete : BOOLEAN]
WorkSteps == {"begin", "meta", "resume", "verify", "publish"}
Works == [of : Uploaders, request : UploadRequests, live : BOOLEAN, step : WorkSteps]
Tasks == [state : {"idle", "init", "chunks", "failed", "finished"},
          offset : Nat, expected : Seq(Nat)]

DiskTypes ==
    /\ meta \in {"none", "empty", "whole"} /\ part \in Seq(Nat) /\ done \in {<<>>, Whole}
    /\ ready \in BOOLEAN
WorkTypes == work \in Works \cup {None}
NetTypes ==
    /\ requests \in [Uploaders -> Seq(UploadRequests)]
    /\ stale \in [Uploaders -> Seq(UploadRequests)]
    /\ replies \in [Uploaders -> Seq(Answers)]
ClientTypes == client \in [Uploaders -> Tasks]
BoundTypes == crashes \in 0..MaxCrashes /\ faults \in 0..MaxFaults

\* A task that has sent a window waits for an answer to some chunk of it.
WindowIsAwaited ==
    \A u \in Uploaders : client[u].state = "chunks" => client[u].expected # <<>>

UploadTypes ==
    DiskTypes /\ WorkTypes /\ NetTypes /\ ClientTypes /\ BoundTypes /\ WindowIsAwaited

\* A request that has come as far as MarkReady has found or made the whole file.
PublishesWhole == work # None /\ work.step = "publish" => done = Whole

\* An answer that calls the upload complete was sent after MarkReady.
AnswersAreReady ==
    \A u \in Uploaders : \A n \in 1..Len(replies[u]) : replies[u][n].complete => ready

\* The two parts of PublishedIsWhole.
ReadyIsWhole == ready => done = Whole
FinishedIsReady == \A u \in Uploaders : client[u].state = "finished" => ready

\* The inductive invariant.
UploadInv ==
    /\ UploadTypes /\ PartIsPrefix /\ PublishesWhole
    /\ ReadyIsWhole /\ AnswersAreReady /\ FinishedIsReady

-----------------------------------------------------------------------------
(* The chunks of a file.                                                    *)

\* The natural numbers are well founded.
LEMMA LeastNumber ==
  ASSUME NEW T, T \subseteq Nat, T # {}
  PROVE  \E n \in T : \A m \in T : n <= m
<1>1. PICK n \in T : \A m \in T : ~(<<m, n>> \in OpToRel(<, Nat))
  BY WFMin, NatLessThanWellFounded, Zenon
<1>2. \A m \in T : ~(m < n)
  BY <1>1 DEF OpToRel
<1>3. \A m \in T : n <= m
  <2>1. n \in Nat /\ \A m \in T : m \in Nat
    BY <1>1
  <2>. QED  BY <1>2, <2>1
<1>. QED  BY <1>1, <1>3

LEMMA ProductGrows ==
  ASSUME NEW c \in Nat, NEW m \in Nat, NEW n \in Nat, m <= n
  PROVE  m * c <= n * c
<1>1. PICK d \in Nat : n = m + d
  <2>1. n - m \in Nat /\ n = m + (n - m)
    OBVIOUS
  <2>. QED  BY <2>1
<1>2. n * c = m * c + d * c
  BY <1>1
<1>. QED  BY <1>2

\* The chunks of a window are numbered without a gap, the first one is among them
\* while the file is not at its end.
LEMMA WindowIsInterval ==
  ASSUME NEW o \in Nat
  PROVE  \E k \in Nat : WindowAt(o) = 1..k /\ (o < Size => k > 0)
<1>. DEFINE T == {n \in Nat : ~(n + 1 \in WindowAt(o))}
<1>1. Window \in T
  BY UploadAssumption DEF WindowAt
<1>2. PICK k \in T : \A m \in T : k <= m
  <2>1. T \subseteq Nat /\ T # {}
    BY <1>1
  <2>. HIDE DEF T
  <2>. QED  BY <2>1, LeastNumber
<1>3. k \in Nat /\ k + 1 \notin WindowAt(o) /\ k <= Window
  BY <1>1, <1>2
<1>4. ASSUME NEW n \in 1..k PROVE n \in WindowAt(o)
  <2>1. n - 1 \in Nat /\ n - 1 < k /\ (n - 1) + 1 = n
    BY <1>3, <1>4
  <2>. QED  BY <1>2, <2>1
<1>5. ASSUME NEW n \in WindowAt(o), n > k PROVE FALSE
  <2>1. n \in 1..Window /\ o + (n - 1) * ChunkSize < Size
    BY <1>5 DEF WindowAt
  <2>2. k * ChunkSize <= (n - 1) * ChunkSize
    BY <1>3, <1>5, <2>1, ProductGrows, UploadAssumption
  <2>3. k + 1 \in 1..Window
    BY <1>3, <1>5, <2>1, UploadAssumption
  <2>4. (k + 1) - 1 = k /\ k * ChunkSize \in Nat /\ (n - 1) * ChunkSize \in Nat
    BY <1>3, <2>1, UploadAssumption
  <2>5. o + k * ChunkSize < Size
    BY <2>1, <2>2, <2>4, UploadAssumption
  <2>. QED  BY <1>3, <2>3, <2>4, <2>5 DEF WindowAt
<1>6. o < Size => 1 \in WindowAt(o)
  BY UploadAssumption DEF WindowAt
<1>7. WindowAt(o) \subseteq Nat \ {0}
  BY UploadAssumption DEF WindowAt
<1>8. WindowAt(o) = 1..k
  <2>1. \A n \in WindowAt(o) : n \in 1..k
    BY <1>3, <1>5, <1>7
  <2>. QED  BY <1>4, <2>1
<1>. QED  BY <1>3, <1>6, <1>8

\* A window of requests and of the offsets they end at.
LEMMA WindowTypes ==
  ASSUME NEW o \in Nat
  PROVE  /\ Chunks(o) \in Seq(UploadRequests) /\ Ends(o) \in Seq(Nat)
         /\ o < Size => Ends(o) # <<>>
<1>1. PICK k \in Nat : WindowAt(o) = 1..k /\ (o < Size => k > 0)
  BY WindowIsInterval
<1>2. \A n \in 1..k : (n - 1) * ChunkSize \in Nat /\ n * ChunkSize \in Nat
  BY UploadAssumption
<1>3. Chunks(o) \in [1..k -> UploadRequests]
  <2>1. \A n \in 1..k : o + (n - 1) * ChunkSize \in Nat
    BY <1>2
  <2>2. \A b \in Nat : ChunkRequest(b) \in UploadRequests
    BY DEF ChunkRequest, UploadRequests
  <2>. QED  BY <1>1, <2>1, <2>2 DEF Chunks
<1>4. Ends(o) \in [1..k -> Nat]
  BY <1>1, <1>2, UploadAssumption DEF Ends, Least
<1>5. Chunks(o) \in Seq(UploadRequests) /\ Ends(o) \in Seq(Nat)
  BY <1>3, <1>4, SeqDef
<1>6. k > 0 => Ends(o) # <<>>
  BY <1>4
<1>. QED  BY <1>1, <1>5, <1>6

\* A piece of the chunk at offset o: the bytes of the file from there.
LEMMA ChunkPieces ==
  ASSUME NEW o \in 0..Size, NEW n \in 0..Len(Chunk(o))
  PROVE  /\ Chunk(o) \in Seq(Nat) /\ o + Len(Chunk(o)) <= Size
         /\ SubSeq(Chunk(o), 1, n) \in Seq(Nat) /\ Len(SubSeq(Chunk(o), 1, n)) = n
         /\ \A i \in 1..n : SubSeq(Chunk(o), 1, n)[i] = o + i
         /\ \A i \in 1..Len(Chunk(o)) : Chunk(o)[i] = o + i
<1>. DEFINE l == Least(ChunkSize, Size - o)
<1>1. l \in Nat /\ o + l <= Size
  BY UploadAssumption DEF Least
<1>2. Chunk(o) \in [1..l -> Nat] /\ \A i \in 1..l : Chunk(o)[i] = o + i
  BY <1>1 DEF Chunk
<1>3. Chunk(o) \in Seq(Nat)
  BY <1>1, <1>2, SeqDef
<1>4. Len(Chunk(o)) = l
  BY <1>1, <1>2, <1>3
<1>5. n \in Nat /\ n <= l /\ \A i \in 1..n : Chunk(o)[i] = o + i
  BY <1>1, <1>2, <1>4
<1>6. /\ SubSeq(Chunk(o), 1, n) \in Seq(Nat) /\ Len(SubSeq(Chunk(o), 1, n)) = n
      /\ \A i \in 1..n : SubSeq(Chunk(o), 1, n)[i] = o + i
  BY <1>3, <1>4, <1>5
<1>. QED  BY <1>1, <1>2, <1>3, <1>4, <1>6

\* What it is to be a prefix of the file, byte by byte.
LEMMA PrefixByBytes ==
  ASSUME NEW p \in Seq(Nat)
  PROVE  (p = SubSeq(Whole, 1, Len(p)) /\ Len(p) <= Size)
         <=> (Len(p) <= Size /\ \A i \in 1..Len(p) : p[i] = i)
<1>1. Whole \in Seq(Nat) /\ Len(Whole) = Size /\ \A i \in 1..Size : Whole[i] = i
  <2>1. Whole \in [1..Size -> Nat]
    BY UploadAssumption DEF Whole
  <2>2. Whole \in Seq(Nat)
    BY <2>1, SeqDef, UploadAssumption
  <2>. QED  BY <2>1, <2>2, UploadAssumption DEF Whole
<1> SUFFICES ASSUME Len(p) <= Size
             PROVE  p = SubSeq(Whole, 1, Len(p)) <=> \A i \in 1..Len(p) : p[i] = i
  OBVIOUS
<1>2. /\ SubSeq(Whole, 1, Len(p)) \in Seq(Nat) /\ Len(SubSeq(Whole, 1, Len(p))) = Len(p)
      /\ \A i \in 1..Len(p) : SubSeq(Whole, 1, Len(p))[i] = i
  BY <1>1, UploadAssumption
<1>3. (\A i \in 1..Len(p) : p[i] = i) => p = SubSeq(Whole, 1, Len(p))
  BY <1>2, SeqEqual
<1>. QED  BY <1>2, <1>3

\* A piece of the chunk that begins where the part ends keeps it a prefix.
LEMMA PrefixGrows ==
  ASSUME part \in Seq(Nat), PartIsPrefix, NEW n \in 0..Len(Chunk(Len(part)))
  PROVE  LET p == part \o SubSeq(Chunk(Len(part)), 1, n)
         IN  p \in Seq(Nat) /\ p = SubSeq(Whole, 1, Len(p)) /\ Len(p) <= Size
<1>. DEFINE o == Len(part)
            piece == SubSeq(Chunk(o), 1, n)
            p == part \o piece
<1>1. o \in 0..Size /\ \A i \in 1..o : part[i] = i
  BY PrefixByBytes, UploadAssumption DEF PartIsPrefix
<1>2. /\ Len(Chunk(o)) \in Nat /\ o + Len(Chunk(o)) <= Size
      /\ piece \in Seq(Nat) /\ Len(piece) = n /\ \A i \in 1..n : piece[i] = o + i
  BY <1>1, ChunkPieces
<1>3. p \in Seq(Nat) /\ Len(p) = o + n /\ Len(p) <= Size
  BY <1>1, <1>2, UploadAssumption
<1>4. \A i \in 1..Len(p) : p[i] = i
  BY <1>1, <1>2, <1>3, ConcatProperties
<1>. QED  BY <1>3, <1>4, PrefixByBytes

\* The empty part is a prefix; the whole chunk is a piece of itself.
LEMMA PrefixEnds ==
  /\ <<>> \in Seq(Nat) /\ <<>> = SubSeq(Whole, 1, Len(<<>>)) /\ Len(<<>>) <= Size
  /\ \A o \in 0..Size : Chunk(o) = SubSeq(Chunk(o), 1, Len(Chunk(o)))
                        /\ Len(Chunk(o)) \in Nat
<1>1. <<>> \in Seq(Nat) /\ <<>> = SubSeq(Whole, 1, Len(<<>>)) /\ Len(<<>>) <= Size
  BY UploadAssumption
<1>2. ASSUME NEW o \in 0..Size
      PROVE  Chunk(o) = SubSeq(Chunk(o), 1, Len(Chunk(o))) /\ Len(Chunk(o)) \in Nat
  <2>1. Chunk(o) \in [1..Least(ChunkSize, Size - o) -> Nat] /\ Least(ChunkSize, Size - o) \in Nat
    BY UploadAssumption DEF Chunk, Least
  <2>2. Chunk(o) \in Seq(Nat)
    BY <2>1, SeqDef
  <2>. QED  BY <2>2, SubSeqFull
<1>. QED  BY <1>1, <1>2

-----------------------------------------------------------------------------
(* The server.                                                              *)

\* Goto moves the request under way.
LEMMA WorkGoes ==
  ASSUME WorkTypes, work # None, NEW step \in WorkSteps, Goto(step)
  PROVE  WorkTypes' /\ work'.step = step /\ UNCHANGED replies
  BY DEF WorkTypes, Works, Goto

\* Reply ends it and adds an answer.
LEMMA WorkReplies ==
  ASSUME WorkTypes, NetTypes, work # None, NEW r \in Answers, Reply(r)
  PROVE  /\ work' = None
         /\ replies' \in [Uploaders -> Seq(Answers)]
         /\ \A u \in Uploaders : \A n \in 1..Len(replies'[u]) :
               replies'[u][n] = r \/ (n \in 1..Len(replies[u]) /\ replies'[u][n] = replies[u][n])
<1>1. work.of \in Uploaders
  BY DEF WorkTypes, Works
<1>2. CASE replies' = replies
  BY <1>2 DEF NetTypes, Reply
<1>3. CASE replies' = [replies EXCEPT ![work.of] = Append(@, r)]
  <2>1. replies'[work.of] = Append(replies[work.of], r)
    BY <1>1, <1>3 DEF NetTypes
  <2>2. \A u \in Uploaders \ {work.of} : replies'[u] = replies[u]
    BY <1>3 DEF NetTypes
  <2>3. replies[work.of] \in Seq(Answers)
    BY <1>1 DEF NetTypes
  <2>4. /\ replies'[work.of] \in Seq(Answers)
        /\ Len(replies'[work.of]) = Len(replies[work.of]) + 1
        /\ \A n \in 1..Len(replies[work.of]) : replies'[work.of][n] = replies[work.of][n]
        /\ replies'[work.of][Len(replies[work.of]) + 1] = r
    BY <2>1, <2>3, AppendProperties
  <2>5. \A n \in 1..Len(replies'[work.of]) :
           \/ replies'[work.of][n] = r
           \/ n \in 1..Len(replies[work.of]) /\ replies'[work.of][n] = replies[work.of][n]
    BY <2>3, <2>4
  <2>6. replies' \in [Uploaders -> Seq(Answers)]
    BY <1>1, <1>3, <2>1, <2>2, <2>4 DEF NetTypes
  <2>. QED  BY <2>2, <2>5, <2>6 DEF Reply, NetTypes
<1>. QED  BY <1>2, <1>3 DEF Reply

LEMMA AnswerTypes ==
  /\ Error \in Answers /\ ~Error.complete
  /\ \A o \in Nat, c \in BOOLEAN : Ok(o, c) \in Answers /\ Ok(o, c).complete = c
  BY DEF Error, Ok, Answers

\* What a step of the request under way does, seen from outside.
LEMMA ServerMoves ==
  ASSUME DiskTypes, PublishesWhole, ServerStep
  PROVE  /\ work # None /\ UNCHANGED <<requests, stale, client, crashes>>
         /\ meta' \in {"none", "empty", "whole"}
         /\ done' = done \/ done' = Whole
         /\ ready' = ready \/ (done = Whole /\ done' = Whole /\ ready' = TRUE)
         /\ \/ \E step \in WorkSteps : Goto(step) /\ (step = "publish" => done' = Whole)
            \/ \E r \in Answers : Reply(r) /\ (r.complete => ready' = TRUE)
<1>. DEFINE Moves ==
         /\ work # None /\ UNCHANGED <<requests, stale, client, crashes>>
         /\ meta' \in {"none", "empty", "whole"}
         /\ done' = done \/ done' = Whole
         /\ ready' = ready \/ (done = Whole /\ done' = Whole /\ ready' = TRUE)
         /\ \/ \E step \in WorkSteps : Goto(step) /\ (step = "publish" => done' = Whole)
            \/ \E r \in Answers : Reply(r) /\ (r.complete => ready' = TRUE)
<1>0. Len(part) \in Nat /\ Size \in Nat /\ 0 \in Nat
  BY UploadAssumption DEF DiskTypes
<1>1. CASE InitMeta
  BY <1>1, AnswerTypes DEF InitMeta, At, DiskTypes, WorkSteps
<1>2. CASE WriteMeta
  BY <1>2, AnswerTypes DEF WriteMeta, MetaWriteFails, At, DiskTypes, WorkSteps
<1>3. CASE InitResume
  BY <1>0, <1>3, AnswerTypes DEF InitResume, At, DiskTypes, WorkSteps
<1>4. CASE ChunkAppend \/ ChunkCut
  <2>1. CASE ChunkCut
    BY <2>1, AnswerTypes DEF ChunkCut, At, DiskTypes
  <2>2. CASE ChunkAppend
    <3>1. Goto("verify") \/ Reply(Ok(Len(part'), FALSE))
      BY <2>2 DEF ChunkAppend
    <3>2. Len(part') \in Nat
      BY <2>2, PrefixGrows, PrefixEnds DEF ChunkAppend, DiskTypes
    <3>. QED  BY <2>2, <3>1, <3>2, AnswerTypes DEF ChunkAppend, At, DiskTypes, WorkSteps
  <2>. QED  BY <1>4, <2>1, <2>2
<1>5. CASE ChunkRefused
  BY <1>5, AnswerTypes DEF ChunkRefused, At, DiskTypes, diskVars, WorkSteps
<1>6. CASE ChunkVerify
  BY <1>6, AnswerTypes DEF ChunkVerify, At, DiskTypes, WorkSteps
<1>7. CASE MarkReady
  BY <1>0, <1>7, AnswerTypes DEF MarkReady, PublishesWhole, DiskTypes, diskVars
<1>. QED  BY <1>1, <1>2, <1>3, <1>4, <1>5, <1>6, <1>7 DEF ServerStep

\* No step of the server, and no crash, spoils the part.
LEMMA PartStep ==
  ASSUME DiskTypes, PartIsPrefix, ServerStep \/ Crash
  PROVE  (part \in Seq(Nat) /\ PartIsPrefix)'
<1>. DEFINE Good == part' \in Seq(Nat) /\ part' = SubSeq(Whole, 1, Len(part')) /\ Len(part') <= Size
            o == Len(part)
<1> SUFFICES Good
  BY DEF PartIsPrefix
<1>0. part \in Seq(Nat) /\ o \in 0..Size
  BY UploadAssumption DEF DiskTypes, PartIsPrefix
<1>1. CASE part' = part
  BY <1>0, <1>1 DEF PartIsPrefix
<1>2. CASE part' = <<>>
  BY <1>2, PrefixEnds
<1>3. ASSUME NEW n \in 0..Len(Chunk(o)), part' = part \o SubSeq(Chunk(o), 1, n)
      PROVE  Good
  BY <1>0, <1>3, PrefixGrows
<1>4. CASE part' = part \o Chunk(o)
  <2>1. Len(Chunk(o)) \in 0..Len(Chunk(o)) /\ Chunk(o) = SubSeq(Chunk(o), 1, Len(Chunk(o)))
    BY <1>0, PrefixEnds
  <2>. QED  BY <1>3, <1>4, <2>1
<1>5. \/ part' = part \/ part' = <<>> \/ part' = part \o Chunk(o)
      \/ \E n \in 0..Len(Chunk(o)) : part' = part \o SubSeq(Chunk(o), 1, n)
  <2>1. Len(Chunk(o)) \in Nat
    BY <1>0, PrefixEnds
  <2>2. CASE ChunkCut
    <3>1. PICK n \in 0..(Len(Chunk(o)) - 1) : part' = part \o SubSeq(Chunk(o), 1, n)
      BY <2>2 DEF ChunkCut
    <3>2. n \in 0..Len(Chunk(o))
      BY <2>1
    <3>. QED  BY <3>1, <3>2
  <2>3. CASE Crash
    BY <2>3 DEF Crash
  <2>. QED  BY <2>2, <2>3 DEF ServerStep, InitMeta, WriteMeta, InitResume, ChunkAppend,
              ChunkRefused, ChunkVerify, MarkReady, diskVars
<1>. QED  BY <1>1, <1>2, <1>3, <1>4, <1>5

\* What the network and the clients keep: all of the invariant but the disk.
Outside ==
    /\ WorkTypes /\ NetTypes /\ ClientTypes /\ WindowIsAwaited
    /\ PublishesWhole /\ AnswersAreReady /\ FinishedIsReady

LEMMA ServerKeeps ==
  ASSUME DiskTypes, Outside, ReadyIsWhole, ServerStep
  PROVE  (Outside /\ ReadyIsWhole)' /\ done' \in {<<>>, Whole} /\ ready' \in BOOLEAN
<1>1. /\ work # None /\ UNCHANGED <<requests, stale, client, crashes>>
      /\ done' = done \/ done' = Whole
      /\ ready' = ready \/ (done = Whole /\ done' = Whole /\ ready' = TRUE)
      /\ \/ \E step \in WorkSteps : Goto(step) /\ (step = "publish" => done' = Whole)
         \/ \E r \in Answers : Reply(r) /\ (r.complete => ready' = TRUE)
  BY ServerMoves DEF Outside
<1>2. WorkTypes /\ NetTypes
  BY DEF Outside
<1>3. ASSUME NEW step \in WorkSteps, Goto(step), step = "publish" => done' = Whole
      PROVE  (WorkTypes /\ NetTypes /\ PublishesWhole /\ AnswersAreReady)'
  <2>1. WorkTypes' /\ work'.step = step /\ UNCHANGED replies
    BY <1>1, <1>2, <1>3, WorkGoes
  <2>2. PublishesWhole'
    BY <1>3, <2>1 DEF PublishesWhole
  <2>3. AnswersAreReady'
    BY <1>1, <2>1 DEF Outside, AnswersAreReady
  <2>. QED  BY <1>1, <1>2, <2>1, <2>2, <2>3 DEF NetTypes
<1>4. ASSUME NEW r \in Answers, Reply(r), r.complete => ready' = TRUE
      PROVE  (WorkTypes /\ NetTypes /\ PublishesWhole /\ AnswersAreReady)'
  <2>1. /\ work' = None
        /\ replies' \in [Uploaders -> Seq(Answers)]
        /\ \A u \in Uploaders : \A n \in 1..Len(replies'[u]) :
              replies'[u][n] = r \/ (n \in 1..Len(replies[u]) /\ replies'[u][n] = replies[u][n])
    BY <1>1, <1>2, <1>4, WorkReplies
  <2>2. AnswersAreReady'
    BY <1>1, <1>4, <2>1 DEF Outside, AnswersAreReady
  <2>3. NetTypes'
    BY <1>1, <1>2, <2>1 DEF NetTypes
  <2>. QED  BY <2>1, <2>2, <2>3 DEF WorkTypes, PublishesWhole
<1>5. (ClientTypes /\ WindowIsAwaited)'
  BY <1>1 DEF Outside, ClientTypes, WindowIsAwaited
<1>6. FinishedIsReady'
  BY <1>1 DEF Outside, FinishedIsReady
<1>7. ReadyIsWhole'
  BY <1>1 DEF ReadyIsWhole
<1>8. done' \in {<<>>, Whole} /\ ready' \in BOOLEAN
  BY <1>1 DEF DiskTypes
<1>. QED  BY <1>1, <1>3, <1>4, <1>5, <1>6, <1>7, <1>8 DEF Outside

-----------------------------------------------------------------------------
(* The connections and the clients.                                         *)

\* Answers that arrive, or are lost with their connection, add none.
LEMMA AnswersStay ==
  ASSUME NetTypes, AnswersAreReady, UNCHANGED ready, NEW u \in Uploaders,
         \/ replies' = [replies EXCEPT ![u] = <<>>]
         \/ replies[u] # <<>> /\ replies' = [replies EXCEPT ![u] = Tail(@)]
  PROVE  AnswersAreReady' /\ replies' \in [Uploaders -> Seq(Answers)]
<1>1. \A v \in Uploaders \ {u} : replies'[v] = replies[v]
  BY DEF NetTypes
<1>2. replies[u] \in Seq(Answers)
  BY DEF NetTypes
<1>3. CASE replies' = [replies EXCEPT ![u] = <<>>]
  <2>1. replies'[u] = <<>>
    BY <1>3 DEF NetTypes
  <2>2. AnswersAreReady'
    BY <1>1, <2>1 DEF AnswersAreReady
  <2>. QED  BY <1>3, <2>2 DEF NetTypes
<1>4. CASE replies[u] # <<>> /\ replies' = [replies EXCEPT ![u] = Tail(@)]
  <2>1. replies'[u] = Tail(replies[u])
    BY <1>4 DEF NetTypes
  <2>2. /\ Tail(replies[u]) \in Seq(Answers) /\ Len(Tail(replies[u])) = Len(replies[u]) - 1
        /\ \A n \in 1..Len(Tail(replies[u])) : Tail(replies[u])[n] = replies[u][n + 1]
    BY <1>2, <1>4, HeadTailProperties
  <2>3. Len(replies[u]) \in Nat
    BY <1>2
  <2>4. \A n \in 1..Len(replies'[u]) : n + 1 \in 1..Len(replies[u])
    BY <2>1, <2>2, <2>3
  <2>5. AnswersAreReady'
    <3> SUFFICES ASSUME NEW v \in Uploaders, NEW n \in 1..Len(replies'[v]),
                        replies'[v][n].complete
                 PROVE  ready
      BY DEF AnswersAreReady
    <3>1. CASE v = u
      <4>1. n + 1 \in 1..Len(replies[u]) /\ replies[u][n + 1].complete
        BY <2>1, <2>2, <2>4, <3>1
      <4>. QED  BY <4>1 DEF AnswersAreReady
    <3>2. CASE v # u
      BY <1>1, <3>2 DEF AnswersAreReady
    <3>. QED  BY <3>1, <3>2
  <2>6. replies' \in [Uploaders -> Seq(Answers)]
    BY <1>4, <2>2 DEF NetTypes
  <2>. QED  BY <2>5, <2>6
<1>. QED  BY <1>3, <1>4

\* A connection that is closed leaves what the server has received of it.
LEMMA DisconnectKeeps ==
  ASSUME Outside, UNCHANGED <<done, ready>>, NEW u \in Uploaders,
         NEW state \in {"failed", "finished"}, Disconnect(u, state),
         state = "finished" => ready
  PROVE  Outside'
<1>1. /\ client' = [client EXCEPT ![u] = [Idle EXCEPT !.state = state]]
      /\ stale' = [stale EXCEPT ![u] = requests[u]]
      /\ requests' = [requests EXCEPT ![u] = <<>>]
      /\ replies' = [replies EXCEPT ![u] = <<>>]
      /\ work' = IF work # None /\ work.of = u THEN [work EXCEPT !.live = FALSE] ELSE work
  BY DEF Disconnect
<1>2. WorkTypes /\ NetTypes /\ ClientTypes
  BY DEF Outside
<1>3. WorkTypes' /\ (work' # None => work # None /\ work'.step = work.step)
  BY <1>1, <1>2 DEF WorkTypes, Works
<1>4. PublishesWhole'
  BY <1>3 DEF Outside, PublishesWhole
<1>5. AnswersAreReady' /\ NetTypes'
  <2>1. AnswersAreReady' /\ replies' \in [Uploaders -> Seq(Answers)]
    BY <1>1, <1>2, AnswersStay DEF Outside
  <2>2. requests' \in [Uploaders -> Seq(UploadRequests)]
    BY <1>1, <1>2 DEF NetTypes
  <2>3. stale' \in [Uploaders -> Seq(UploadRequests)]
    BY <1>1, <1>2 DEF NetTypes
  <2>. QED  BY <2>1, <2>2, <2>3 DEF NetTypes
<1>6. /\ client'[u].state = state /\ client'[u] \in Tasks
      /\ \A v \in Uploaders \ {u} : client'[v] = client[v]
  <2>1. [Idle EXCEPT !.state = state] = [state |-> state, offset |-> 0, expected |-> <<>>]
    BY DEF Idle
  <2>2. [state |-> state, offset |-> 0, expected |-> <<>>] \in Tasks
    BY DEF Tasks
  <2>. QED  BY <1>1, <1>2, <2>1, <2>2 DEF ClientTypes
<1>7. ClientTypes'
  BY <1>1, <1>2, <1>6 DEF ClientTypes
<1>8. (WindowIsAwaited /\ FinishedIsReady)'
  BY <1>6 DEF Outside, WindowIsAwaited, FinishedIsReady
<1>. QED  BY <1>3, <1>4, <1>5, <1>7, <1>8 DEF Outside

\* The client goes on after an answer.
LEMMA ContinueKeeps ==
  ASSUME Outside, UNCHANGED <<done, ready>>, NEW u \in Uploaders, NEW o \in Nat,
         NEW complete \in BOOLEAN, complete => ready, replies[u] # <<>>,
         Continue(u, o, complete), o < Size => replies' = [replies EXCEPT ![u] = Tail(@)]
  PROVE  Outside'
<1>1. CASE ~(o < Size)
  <2>1. (Disconnect(u, "finished") /\ complete) \/ Disconnect(u, "failed")
    BY <1>1 DEF Continue
  <2>. QED  BY <2>1, DisconnectKeeps
<1>2. CASE o < Size
  <2>1. /\ client' = [client EXCEPT ![u] = [state |-> "chunks", offset |-> o,
                                            expected |-> Ends(o)]]
        /\ requests' = [requests EXCEPT ![u] = Chunks(o)]
        /\ UNCHANGED <<work, stale>>
    BY <1>2 DEF Continue
  <2>2. Chunks(o) \in Seq(UploadRequests) /\ Ends(o) \in Seq(Nat) /\ Ends(o) # <<>>
    BY <1>2, WindowTypes
  <2>3. AnswersAreReady' /\ NetTypes'
    BY <1>2, <2>1, <2>2, AnswersStay DEF Outside, NetTypes
  <2>4. /\ client'[u].state = "chunks" /\ client'[u].expected = Ends(o) /\ client'[u] \in Tasks
        /\ \A v \in Uploaders \ {u} : client'[v] = client[v]
    BY <2>1, <2>2 DEF Outside, ClientTypes, Tasks
  <2>5. ClientTypes'
    BY <2>1, <2>4 DEF Outside, ClientTypes
  <2>6. (WindowIsAwaited /\ FinishedIsReady)'
    BY <2>2, <2>4 DEF Outside, WindowIsAwaited, FinishedIsReady
  <2>7. (WorkTypes /\ PublishesWhole)'
    BY <2>1 DEF Outside, WorkTypes, PublishesWhole
  <2>. QED  BY <2>3, <2>5, <2>6, <2>7 DEF Outside
<1>. QED  BY <1>1, <1>2

\* The answer a client reads.
LEMMA AnswerRead ==
  ASSUME NetTypes, AnswersAreReady, NEW u \in Uploaders, replies[u] # <<>>
  PROVE  /\ Head(replies[u]) \in Answers
         /\ Head(replies[u]).complete => ready
<1>1. replies[u] \in Seq(Answers)
  BY DEF NetTypes
<1>2. 1 \in 1..Len(replies[u]) /\ Head(replies[u]) = replies[u][1]
  BY <1>1
<1>. QED  BY <1>1, <1>2, HeadTailProperties DEF AnswersAreReady

\* A request taken from a connection.
LEMMA HandleKeeps ==
  ASSUME Outside, NEW u \in Uploaders, Handle(u)
  PROVE  Outside'
<1>1. NetTypes /\ UNCHANGED <<done, ready, replies, client>>
  BY DEF Outside, Handle, diskVars
<1>2. \E q \in {requests[u], stale[u]}, live \in BOOLEAN :
         /\ q # <<>>
         /\ work' = [of |-> u, request |-> Head(q), live |-> live, step |-> "begin"]
  BY DEF Handle
<1>3. \A q \in {requests[u], stale[u]} : q # <<>> =>
         Head(q) \in UploadRequests /\ Tail(q) \in Seq(UploadRequests)
  <2>1. requests[u] \in Seq(UploadRequests) /\ stale[u] \in Seq(UploadRequests)
    BY <1>1 DEF NetTypes
  <2>. QED  BY <2>1, HeadTailProperties
<1>4. WorkTypes' /\ work'.step = "begin"
  BY <1>2, <1>3 DEF WorkTypes, Works, WorkSteps
<1>5. NetTypes'
  <2>1. CASE requests[u] # <<>> /\ requests' = [requests EXCEPT ![u] = Tail(@)]
             /\ UNCHANGED stale
    BY <1>1, <1>3, <2>1 DEF NetTypes
  <2>2. CASE stale[u] # <<>> /\ stale' = [stale EXCEPT ![u] = Tail(@)] /\ UNCHANGED requests
    BY <1>1, <1>3, <2>2 DEF NetTypes
  <2>. QED  BY <2>1, <2>2 DEF Handle
<1>6. PublishesWhole'
  BY <1>4 DEF PublishesWhole
<1>7. (ClientTypes /\ WindowIsAwaited /\ AnswersAreReady /\ FinishedIsReady)'
  BY <1>1 DEF Outside, ClientTypes, WindowIsAwaited, AnswersAreReady, FinishedIsReady
<1>. QED  BY <1>4, <1>5, <1>6, <1>7 DEF Outside

LEMMA StartKeeps ==
  ASSUME Outside, NEW u \in Uploaders, StartUpload(u)
  PROVE  Outside'
<1>1. /\ UNCHANGED <<done, ready, work, replies, stale>>
      /\ client' = [client EXCEPT ![u].state = "init"]
      /\ requests' = [requests EXCEPT ![u] = <<InitRequest>>]
  BY DEF StartUpload, diskVars
<1>2. <<InitRequest>> \in Seq(UploadRequests)
  BY DEF InitRequest, UploadRequests
<1>3. NetTypes'
  BY <1>1, <1>2 DEF Outside, NetTypes
<1>4. /\ client'[u].state = "init" /\ client'[u] \in Tasks
      /\ \A v \in Uploaders \ {u} : client'[v] = client[v]
  BY <1>1 DEF Outside, ClientTypes, Tasks
<1>5. ClientTypes'
  BY <1>1, <1>4 DEF Outside, ClientTypes
<1>6. (WindowIsAwaited /\ FinishedIsReady)'
  BY <1>1, <1>4 DEF Outside, WindowIsAwaited, FinishedIsReady
<1>7. (WorkTypes /\ PublishesWhole /\ AnswersAreReady)'
  BY <1>1 DEF Outside, WorkTypes, PublishesWhole, AnswersAreReady
<1>. QED  BY <1>3, <1>5, <1>6, <1>7 DEF Outside

LEMMA ReceiveKeeps ==
  ASSUME Outside, NEW u \in Uploaders, ReceiveInit(u) \/ ReceiveChunk(u)
  PROVE  Outside'
<1>. DEFINE r == Head(replies[u])
<1>1. /\ UNCHANGED <<done, ready>> /\ replies[u] # <<>>
      /\ \/ Disconnect(u, "failed")
         \/ /\ Continue(u, r.offset, r.complete)
            /\ r.offset < Size => replies' = [replies EXCEPT ![u] = Tail(@)]
         \/ /\ client[u].state = "chunks" /\ Tail(client[u].expected) # <<>>
            /\ client' = [client EXCEPT ![u].offset = r.offset,
                                        ![u].expected = Tail(client[u].expected)]
            /\ replies' = [replies EXCEPT ![u] = Tail(@)]
            /\ UNCHANGED <<work, requests, stale>>
  BY DEF ReceiveInit, ReceiveChunk, diskVars
<1>2. r \in Answers /\ (r.complete => ready)
  BY <1>1, AnswerRead DEF Outside
<1>3. r.offset \in Nat /\ r.complete \in BOOLEAN
  BY <1>2 DEF Answers
<1>4. CASE Disconnect(u, "failed")
  BY <1>1, <1>4, DisconnectKeeps
<1>5. CASE /\ Continue(u, r.offset, r.complete)
           /\ r.offset < Size => replies' = [replies EXCEPT ![u] = Tail(@)]
  <2>. HIDE DEF r
  <2>. QED  BY <1>1, <1>2, <1>3, <1>5, ContinueKeeps
<1>6. CASE /\ client[u].state = "chunks" /\ Tail(client[u].expected) # <<>>
           /\ client' = [client EXCEPT ![u].offset = r.offset,
                                       ![u].expected = Tail(client[u].expected)]
           /\ replies' = [replies EXCEPT ![u] = Tail(@)]
           /\ UNCHANGED <<work, requests, stale>>
  <2>1. client[u].expected \in Seq(Nat) /\ client[u].expected # <<>>
    BY <1>6 DEF Outside, ClientTypes, Tasks, WindowIsAwaited
  <2>2. Tail(client[u].expected) \in Seq(Nat)
    BY <2>1, HeadTailProperties
  <2>3. AnswersAreReady' /\ NetTypes'
    BY <1>1, <1>6, AnswersStay DEF Outside, NetTypes
  <2>4. /\ client'[u] \in Tasks /\ client'[u].state = client[u].state
        /\ client'[u].expected = Tail(client[u].expected)
        /\ \A v \in Uploaders \ {u} : client'[v] = client[v]
    <3>. HIDE DEF r
    <3>. QED  BY <1>3, <1>6, <2>2 DEF Outside, ClientTypes, Tasks
  <2>5. ClientTypes'
    BY <1>6, <2>4 DEF Outside, ClientTypes
  <2>6. (WindowIsAwaited /\ FinishedIsReady)'
    BY <1>1, <1>6, <2>4 DEF Outside, WindowIsAwaited, FinishedIsReady
  <2>7. (WorkTypes /\ PublishesWhole)'
    BY <1>1, <1>6 DEF Outside, WorkTypes, PublishesWhole
  <2>. QED  BY <2>3, <2>5, <2>6, <2>7 DEF Outside
<1>. QED  BY <1>1, <1>4, <1>5, <1>6

LEMMA CrashKeeps ==
  ASSUME Outside, Crash
  PROVE  Outside'
<1>1. /\ UNCHANGED <<done, ready>> /\ work' = None
      /\ requests' = [u \in Uploaders |-> <<>>] /\ replies' = [u \in Uploaders |-> <<>>]
      /\ stale' = [u \in Uploaders |-> <<>>]
      /\ client' = [u \in Uploaders |-> IF client[u].state \in {"init", "chunks"}
                                        THEN [Idle EXCEPT !.state = "failed"] ELSE client[u]]
  BY DEF Crash
<1>2. [Idle EXCEPT !.state = "failed"] = [state |-> "failed", offset |-> 0, expected |-> <<>>]
  BY DEF Idle
<1>3. [state |-> "failed", offset |-> 0, expected |-> <<>>] \in Tasks
  BY DEF Tasks
<1>4. ClientTypes'
  BY <1>1, <1>2, <1>3 DEF Outside, ClientTypes
<1>5. (WindowIsAwaited /\ FinishedIsReady)'
  <2>1. \A u \in Uploaders : \/ client'[u] = client[u] /\ client[u].state # "chunks"
                             \/ client'[u].state = "failed"
    BY <1>1, <1>2
  <2>. QED  BY <1>1, <2>1 DEF Outside, WindowIsAwaited, FinishedIsReady
<1>6. (WorkTypes /\ NetTypes /\ PublishesWhole)'
  BY <1>1 DEF WorkTypes, NetTypes, PublishesWhole
<1>7. AnswersAreReady'
  BY <1>1 DEF AnswersAreReady
<1>. QED  BY <1>4, <1>5, <1>6, <1>7 DEF Outside

-----------------------------------------------------------------------------
(* The invariant.                                                           *)

LEMMA BoundStep ==
  ASSUME BoundTypes, [Next]_vars
  PROVE  BoundTypes'
<1>1. UNCHANGED faults \/ Fault
  BY DEF Next, vars, ServerStep, InitMeta, WriteMeta, MetaWriteFails, InitResume,
       ChunkAppend, ChunkCut, ChunkRefused, ChunkVerify, MarkReady, Crash, Handle,
       StartUpload, ReceiveInit, ReceiveChunk, LoseConnection
<1>2. UNCHANGED crashes \/ (crashes < MaxCrashes /\ crashes' = crashes + 1)
  BY DEF Next, vars, ServerStep, InitMeta, WriteMeta, InitResume, ChunkAppend, ChunkCut,
       ChunkRefused, ChunkVerify, MarkReady, Crash, Handle, StartUpload, ReceiveInit,
       ReceiveChunk, LoseConnection
<1>. QED  BY <1>1, <1>2, UploadAssumption DEF BoundTypes, Fault

LEMMA UploadInvStep ==
  ASSUME UploadInv, [Next]_vars
  PROVE  UploadInv'
<1>0. DiskTypes /\ Outside /\ ReadyIsWhole /\ PartIsPrefix
  BY DEF UploadInv, UploadTypes, Outside
<1>1. BoundTypes'
  BY BoundStep DEF UploadInv, UploadTypes
<1>2. CASE ServerStep
  <2>1. (Outside /\ ReadyIsWhole)' /\ done' \in {<<>>, Whole} /\ ready' \in BOOLEAN
    BY <1>0, <1>2, ServerKeeps
  <2>2. meta' \in {"none", "empty", "whole"}
    BY <1>0, <1>2, ServerMoves DEF Outside
  <2>3. (part \in Seq(Nat) /\ PartIsPrefix)'
    BY <1>0, <1>2, PartStep
  <2>. QED  BY <1>1, <2>1, <2>2, <2>3 DEF UploadInv, UploadTypes, Outside, DiskTypes
<1>3. CASE Crash
  <2>1. UNCHANGED <<meta, done, ready>>
    BY <1>3 DEF Crash
  <2>2. (part \in Seq(Nat) /\ PartIsPrefix)'
    BY <1>0, <1>3, PartStep
  <2>3. (DiskTypes /\ ReadyIsWhole)'
    BY <1>0, <2>1, <2>2 DEF DiskTypes, ReadyIsWhole
  <2>4. Outside'
    BY <1>0, <1>3, CrashKeeps
  <2>. QED  BY <1>1, <2>2, <2>3, <2>4 DEF UploadInv, UploadTypes, Outside
<1>4. CASE \/ UNCHANGED vars
           \/ \E u \in Uploaders : \/ Handle(u) \/ StartUpload(u) \/ ReceiveInit(u)
                                   \/ ReceiveChunk(u) \/ LoseConnection(u)
  <2>1. UNCHANGED <<diskVars, ready>>
    BY <1>4 DEF vars, Handle, StartUpload, ReceiveInit, ReceiveChunk, LoseConnection
  <2>2. (DiskTypes /\ ReadyIsWhole /\ PartIsPrefix)'
    BY <1>0, <2>1 DEF diskVars, DiskTypes, ReadyIsWhole, PartIsPrefix
  <2>3. ASSUME NEW u \in Uploaders, LoseConnection(u) PROVE Outside'
    BY <1>0, <2>1, <2>3, DisconnectKeeps DEF diskVars, LoseConnection
  <2>4. ASSUME UNCHANGED vars PROVE Outside'
    BY <1>0, <2>4 DEF vars, diskVars, netVars, Outside, WorkTypes, NetTypes, ClientTypes,
         WindowIsAwaited, PublishesWhole, AnswersAreReady, FinishedIsReady
  <2>5. Outside'
    BY <1>0, <1>4, <2>3, <2>4, HandleKeeps, StartKeeps, ReceiveKeeps
  <2>. QED  BY <1>1, <2>2, <2>5 DEF UploadInv, UploadTypes, Outside
<1>. QED  BY <1>2, <1>3, <1>4 DEF Next

LEMMA UploadInvInit == Init => UploadInv
<1> SUFFICES ASSUME Init PROVE UploadInv
  OBVIOUS
<1>1. part = <<>> /\ part \in Seq(Nat) /\ PartIsPrefix
  BY PrefixEnds DEF Init, PartIsPrefix
<1>2. DiskTypes /\ ReadyIsWhole /\ BoundTypes
  <2>1. ready = FALSE /\ ready \in BOOLEAN
    BY DEF Init
  <2>2. DiskTypes
    BY <1>1, <2>1 DEF Init, DiskTypes
  <2>. QED  BY <2>1, <2>2, UploadAssumption DEF Init, ReadyIsWhole, BoundTypes
<1>3. Idle \in Tasks /\ Idle.state = "idle"
  BY DEF Idle, Tasks
<1>4. ClientTypes /\ WindowIsAwaited /\ FinishedIsReady
  BY <1>3 DEF Init, ClientTypes, WindowIsAwaited, FinishedIsReady
<1>5. WorkTypes /\ NetTypes /\ PublishesWhole
  BY DEF Init, WorkTypes, NetTypes, PublishesWhole
<1>6. AnswersAreReady
  BY DEF Init, AnswersAreReady
<1>. QED  BY <1>1, <1>2, <1>4, <1>5, <1>6 DEF UploadInv, UploadTypes

LEMMA UploadInvHolds == Spec => []UploadInv
<1>1. UploadInv /\ [Next]_vars => UploadInv'
  BY UploadInvStep
<1>. QED  BY <1>1, UploadInvInit, PTL DEF Spec

\* Type correctness of the store, the connections and the upload tasks; a task
\* waiting for answers always expects one.
THEOREM UploadTypesHold == Spec => []UploadTypes
  BY UploadInvHolds, PTL DEF UploadInv

\* For any number of devices and any sizes, retries, late chunks of closed
\* connections, cut writes and crashes leave <id>.part a prefix of the file.
THEOREM PartStaysPrefix == Spec => []PartIsPrefix
  BY UploadInvHolds, PTL DEF UploadInv

\* What MarkReady publishes is the whole file, and a client that reports success
\* has a published file.
THEOREM PublicationIsWhole == Spec => []PublishedIsWhole
<1>1. UploadInv => PublishedIsWhole
  BY DEF UploadInv, ReadyIsWhole, FinishedIsReady, PublishedIsWhole
<1>. QED  BY <1>1, UploadInvHolds, PTL

-----------------------------------------------------------------------------
(* That nobody waits for an answer that does not come, and when metadata is *)
(* lost: what UploadSucceeds needs besides fairness.                        *)

InWork(u) == IF work # None /\ work.of = u /\ work.live THEN 1 ELSE 0

\* The answers a task still reads before it goes on.
Awaited(u) == IF client[u].state = "init" THEN 1
              ELSE IF client[u].state = "chunks" THEN Len(client[u].expected) ELSE 0

\* Every answer a device waits for is on its connection as a request, in work or
\* as an answer, and nothing else is: an attempt never reads the answer to a
\* request of an earlier one, whatever the server still has of that.
Counted(u) == Len(requests[u]) + InWork(u) + Len(replies[u]) = Awaited(u)
AnswersAreCounted == \A u \in Uploaders : Counted(u)

\* The metadata is empty, and not under the request that writes it.
Abandoned == meta = "empty" /\ ~At("init", "meta")

\* A step that leaves the metadata empty behind is a crash, or a write of the
\* metadata that fails.
AbandonedByFailure == Abandoned' /\ ~Abandoned => Crash \/ (WriteMeta /\ Fault)

\* A request under way is not None.
LEMMA WorkIsSomething == None \notin Works
  BY NoneAssumption DEF Works, UploadRequests, WorkSteps

\* The window of requests is as long as the offsets expected in return.
LEMMA WindowLengths ==
  ASSUME NEW o \in Nat
  PROVE  Len(Chunks(o)) = Len(Ends(o)) /\ Len(Ends(o)) \in Nat
<1>1. PICK k \in Nat : WindowAt(o) = 1..k
  BY WindowIsInterval
<1>2. DOMAIN Chunks(o) = 1..k /\ DOMAIN Ends(o) = 1..k
  BY <1>1 DEF Chunks, Ends
<1>3. Chunks(o) \in Seq(UploadRequests) /\ Ends(o) \in Seq(Nat)
  BY WindowTypes
<1>4. Len(Chunks(o)) = k /\ Len(Ends(o)) = k
  BY <1>2, <1>3, LenProperties
<1>. QED  BY <1>4

\* How the three places of a connection add up.
LEMMA SumOne ==
  ASSUME NEW a \in Nat, NEW b \in Nat, NEW c \in Nat, a + b + c = 1, c > 0
  PROVE  a = 0 /\ b = 0 /\ c = 1
  OBVIOUS

LEMMA SumTaken ==
  ASSUME NEW a \in Nat, NEW b \in Nat, NEW c \in Nat
  PROVE  (a - 1) + 1 + c = a + 0 + c /\ a + 0 + (c + 1) = a + 1 + c
  OBVIOUS

\* What a step does not touch of a connection stays counted.
LEMMA CountStays ==
  ASSUME NEW v \in Uploaders, Counted(v), requests'[v] = requests[v], replies'[v] = replies[v],
         client'[v] = client[v], InWork(v)' = InWork(v)
  PROVE  Counted(v)'
  BY DEF Counted, Awaited

\* A closed connection owes nothing.
LEMMA DisconnectCounts ==
  ASSUME Outside, AnswersAreCounted, NEW u \in Uploaders, NEW state \in {"failed", "finished"},
         Disconnect(u, state)
  PROVE  AnswersAreCounted'
<1>1. WorkTypes /\ NetTypes /\ ClientTypes
  BY DEF Outside
<1>2. /\ requests'[u] = <<>> /\ replies'[u] = <<>>
      /\ \A v \in Uploaders \ {u} : requests'[v] = requests[v] /\ replies'[v] = replies[v]
  BY <1>1 DEF Disconnect, NetTypes
<1>3. /\ client'[u].state = state
      /\ \A v \in Uploaders \ {u} : client'[v] = client[v]
  BY <1>1 DEF Disconnect, ClientTypes, Idle
<1>4. /\ InWork(u)' = 0
      /\ \A v \in Uploaders \ {u} : InWork(v)' = InWork(v)
  <2>1. CASE work # None /\ work.of = u
    <3>1. work' = [work EXCEPT !.live = FALSE] /\ work \in Works
      BY <1>1, <2>1 DEF Disconnect, WorkTypes
    <3>2. work'.of = u /\ work'.live = FALSE
      BY <2>1, <3>1 DEF Works
    <3>. QED  BY <2>1, <3>2 DEF InWork
  <2>2. CASE ~(work # None /\ work.of = u)
    <3>1. work' = work
      BY <2>2 DEF Disconnect
    <3>. QED  BY <2>2, <3>1 DEF InWork
  <2>. QED  BY <2>1, <2>2
<1>5. Counted(u)'
  BY <1>2, <1>3, <1>4 DEF Counted, Awaited
<1>6. \A v \in Uploaders \ {u} : Counted(v)'
  BY <1>2, <1>3, <1>4, CountStays DEF AnswersAreCounted
<1>. QED  BY <1>5, <1>6 DEF AnswersAreCounted

\* The next window is asked for when the last answer has been read.
LEMMA ContinueCounts ==
  ASSUME Outside, AnswersAreCounted, NEW u \in Uploaders, NEW o \in Nat,
         NEW complete \in BOOLEAN, replies[u] # <<>>, Awaited(u) = 1,
         Continue(u, o, complete), o < Size => replies' = [replies EXCEPT ![u] = Tail(@)]
  PROVE  AnswersAreCounted'
<1>1. CASE ~(o < Size)
  <2>1. Disconnect(u, "finished") \/ Disconnect(u, "failed")
    BY <1>1 DEF Continue
  <2>. QED  BY <2>1, DisconnectCounts
<1>2. CASE o < Size
  <2>1. /\ client' = [client EXCEPT ![u] = [state |-> "chunks", offset |-> o,
                                            expected |-> Ends(o)]]
        /\ requests' = [requests EXCEPT ![u] = Chunks(o)]
        /\ work' = work /\ replies' = [replies EXCEPT ![u] = Tail(@)]
    BY <1>2 DEF Continue
  <2>2. NetTypes /\ ClientTypes
    BY DEF Outside
  <2>3. /\ requests[u] \in Seq(UploadRequests) /\ replies[u] \in Seq(Answers)
        /\ Len(requests[u]) \in Nat /\ Len(replies[u]) \in Nat /\ Len(replies[u]) > 0
        /\ InWork(u) \in Nat
    BY <2>2 DEF NetTypes, InWork
  <2>4. Len(replies[u]) = 1 /\ InWork(u) = 0
    <3>1. Len(requests[u]) + InWork(u) + Len(replies[u]) = 1
      BY DEF AnswersAreCounted, Counted
    <3>. QED  BY <2>3, <3>1, SumOne
  <2>5. replies'[u] = Tail(replies[u]) /\ Len(Tail(replies[u])) = 0
    BY <2>1, <2>2, <2>3, <2>4 DEF NetTypes
  <2>6. requests'[u] = Chunks(o) /\ client'[u].state = "chunks" /\ client'[u].expected = Ends(o)
    BY <2>1, <2>2 DEF NetTypes, ClientTypes
  <2>7. InWork(u)' = 0
    BY <2>1, <2>4 DEF InWork
  <2>8. Counted(u)'
    <3>1. Len(requests'[u]) = Len(Ends(o)) /\ Len(replies'[u]) = 0 /\ Len(Ends(o)) \in Nat
      BY <2>5, <2>6, WindowLengths
    <3>2. Awaited(u)' = Len(Ends(o))
      BY <2>6 DEF Awaited
    <3>. QED  BY <2>7, <3>1, <3>2 DEF Counted
  <2>9. ASSUME NEW v \in Uploaders \ {u} PROVE Counted(v)'
    <3>1. /\ requests'[v] = requests[v] /\ replies'[v] = replies[v] /\ client'[v] = client[v]
          /\ InWork(v)' = InWork(v)
      BY <2>1, <2>2 DEF NetTypes, ClientTypes, InWork
    <3>. QED  BY <3>1, CountStays DEF AnswersAreCounted
  <2>. QED  BY <2>8, <2>9 DEF AnswersAreCounted
<1>. QED  BY <1>1, <1>2

\* A task reads one answer.
LEMMA ReceiveCounts ==
  ASSUME Outside, AnswersAreCounted, NEW u \in Uploaders, ReceiveInit(u) \/ ReceiveChunk(u)
  PROVE  AnswersAreCounted'
<1>. DEFINE r == Head(replies[u])
<1>0. NetTypes /\ ClientTypes /\ replies[u] # <<>>
  BY DEF Outside, ReceiveInit, ReceiveChunk
<1>1. r.offset \in Nat /\ r.complete \in BOOLEAN
  <2>1. r \in Answers
    BY <1>0, AnswerRead DEF Outside
  <2>. QED  BY <2>1 DEF Answers
<1>2. \/ Disconnect(u, "failed")
      \/ /\ client[u].state = "init" \/ (client[u].state = "chunks" /\ Tail(client[u].expected) = <<>>)
         /\ Continue(u, r.offset, r.complete)
         /\ r.offset < Size => replies' = [replies EXCEPT ![u] = Tail(@)]
      \/ /\ client[u].state = "chunks" /\ Tail(client[u].expected) # <<>>
         /\ client' = [client EXCEPT ![u].offset = r.offset,
                                     ![u].expected = Tail(client[u].expected)]
         /\ replies' = [replies EXCEPT ![u] = Tail(@)]
         /\ UNCHANGED <<work, requests, stale>>
  BY DEF ReceiveInit, ReceiveChunk
<1>3. client[u].state = "chunks" => /\ client[u].expected \in Seq(Nat)
                                    /\ client[u].expected # <<>>
  BY <1>0 DEF Outside, ClientTypes, Tasks, WindowIsAwaited
<1>4. CASE Disconnect(u, "failed")
  BY <1>4, DisconnectCounts
<1>5. CASE /\ client[u].state = "init" \/ (client[u].state = "chunks" /\ Tail(client[u].expected) = <<>>)
           /\ Continue(u, r.offset, r.complete)
           /\ r.offset < Size => replies' = [replies EXCEPT ![u] = Tail(@)]
  <2>1. Awaited(u) = 1
    <3>1. CASE client[u].state = "init"
      BY <3>1 DEF Awaited
    <3>2. CASE client[u].state = "chunks" /\ Tail(client[u].expected) = <<>>
      <4>1. Len(client[u].expected) = 1
        <5>1. Len(Tail(client[u].expected)) = Len(client[u].expected) - 1
          BY <1>3, <3>2
        <5>2. Len(Tail(client[u].expected)) = 0
          <6>1. PICK t : t = Tail(client[u].expected)
            OBVIOUS
          <6>2. t = <<>>
            BY <3>2, <6>1
          <6>3. Len(t) = 0
            BY <6>2
          <6>. QED  BY <6>1, <6>3, Zenon
        <5>3. Len(client[u].expected) \in Nat
          BY <1>3, <3>2
        <5>. QED  BY <5>1, <5>2, <5>3
      <4>. QED  BY <3>2, <4>1 DEF Awaited
    <3>. QED  BY <1>5, <3>1, <3>2
  <2>. HIDE DEF r
  <2>. QED  BY <1>0, <1>1, <1>5, <2>1, ContinueCounts
<1>6. CASE /\ client[u].state = "chunks" /\ Tail(client[u].expected) # <<>>
           /\ client' = [client EXCEPT ![u].offset = r.offset,
                                       ![u].expected = Tail(client[u].expected)]
           /\ replies' = [replies EXCEPT ![u] = Tail(@)]
           /\ UNCHANGED <<work, requests, stale>>
  <2>. HIDE DEF r
  <2>1. /\ client'[u].state = "chunks" /\ client'[u].expected = Tail(client[u].expected)
        /\ \A v \in Uploaders \ {u} : client'[v] = client[v]
    BY <1>0, <1>6 DEF ClientTypes, Tasks
  <2>2. /\ replies'[u] = Tail(replies[u]) /\ replies[u] \in Seq(Answers)
        /\ \A v \in Uploaders \ {u} : replies'[v] = replies[v]
    BY <1>0, <1>6 DEF NetTypes
  <2>3. /\ Len(replies'[u]) = Len(replies[u]) - 1 /\ Len(replies[u]) \in Nat
        /\ Len(client'[u].expected) = Len(client[u].expected) - 1
        /\ Len(client[u].expected) \in Nat
    <3>1. Len(Tail(replies[u])) = Len(replies[u]) - 1 /\ Len(replies[u]) \in Nat
      BY <1>0, <2>2, HeadTailProperties
    <3>2. /\ Len(Tail(client[u].expected)) = Len(client[u].expected) - 1
          /\ Len(client[u].expected) \in Nat
      BY <1>3, <1>6, HeadTailProperties
    <3>. QED  BY <2>1, <2>2, <3>1, <3>2
  <2>4. \A v \in Uploaders : InWork(v)' = InWork(v) /\ InWork(v) \in Nat
    BY <1>6 DEF InWork
  <2>5. Len(requests[u]) \in Nat /\ requests' = requests
    BY <1>0, <1>6 DEF NetTypes
  <2>6. Len(requests[u]) + InWork(u) + Len(replies[u]) = Len(client[u].expected)
    BY <1>6 DEF AnswersAreCounted, Counted, Awaited
  <2>7. Len(requests'[u]) + InWork(u)' + Len(replies'[u]) = Len(client'[u].expected)
    <3>1. Len(requests[u]) + InWork(u) + (Len(replies[u]) - 1) = Len(client[u].expected) - 1
      <4>1. /\ Len(requests[u]) \in Nat /\ InWork(u) \in Nat /\ Len(replies[u]) \in Nat
            /\ Len(client[u].expected) \in Nat
        BY <2>3, <2>4, <2>5
      <4>2. PICK a \in Nat, b \in Nat, c \in Nat, d \in Nat :
               /\ a = Len(requests[u]) /\ b = InWork(u) /\ c = Len(replies[u])
               /\ d = Len(client[u].expected)
        BY <4>1
      <4>3. a + b + c = d
        BY <4>2, <2>6
      <4>4. a + b + (c - 1) = d - 1
        BY <4>3
      <4>. QED  BY <4>2, <4>4
    <3>. QED  BY <2>3, <2>4, <2>5, <3>1
  <2>8. Counted(u)'
    BY <2>1, <2>7 DEF Counted, Awaited
  <2>9. \A v \in Uploaders \ {u} : Counted(v)'
    BY <2>1, <2>2, <2>4, <2>5, CountStays DEF AnswersAreCounted
  <2>. QED  BY <2>8, <2>9 DEF AnswersAreCounted
<1>. QED  BY <1>2, <1>4, <1>5, <1>6

\* The server takes a request of an open connection, or of a closed one.
LEMMA HandleCounts ==
  ASSUME Outside, AnswersAreCounted, NEW u \in Uploaders, Handle(u)
  PROVE  AnswersAreCounted'
<1>1. NetTypes /\ UNCHANGED <<replies, client>> /\ work = None
  BY DEF Outside, Handle
<1>2. \A v \in Uploaders : InWork(v) = 0
  BY <1>1 DEF InWork
<1>3. Len(requests[u]) \in Nat /\ Len(replies[u]) \in Nat /\ requests[u] \in Seq(UploadRequests)
  BY <1>1 DEF NetTypes
<1>4. CASE /\ requests[u] # <<>>
           /\ work' = [of |-> u, request |-> Head(requests[u]), live |-> TRUE, step |-> "begin"]
           /\ requests' = [requests EXCEPT ![u] = Tail(@)]
  <2>1. /\ requests'[u] = Tail(requests[u]) /\ Len(requests'[u]) = Len(requests[u]) - 1
        /\ \A v \in Uploaders \ {u} : requests'[v] = requests[v]
    BY <1>1, <1>3, <1>4 DEF NetTypes
  <2>2. work'.of = u /\ work'.live /\ work' # None
    <3>1. work'.of = u /\ work'.live
      BY <1>4
    <3>2. work' \in Works
      <4>1. WorkTypes'
        BY HandleKeeps DEF Outside
      <4>2. work' \in Works \/ work' = None
        BY <4>1 DEF WorkTypes
      <4>3. [of |-> u, request |-> Head(requests[u]), live |-> TRUE, step |-> "begin"] \in Works
        <5>1. Head(requests[u]) \in UploadRequests
          BY <1>3, <1>4
        <5>. QED  BY <5>1 DEF Works, WorkSteps
      <4>. QED  BY <1>4, <4>3
    <3>. QED  BY <3>1, <3>2, WorkIsSomething
  <2>3. InWork(u)' = 1 /\ \A v \in Uploaders \ {u} : InWork(v)' = 0
    BY <2>2 DEF InWork
  <2>4. Len(requests'[u]) + InWork(u)' + Len(replies'[u])
          = Len(requests[u]) + InWork(u) + Len(replies[u])
    <3>1. (Len(requests[u]) - 1) + 1 + Len(replies[u]) = Len(requests[u]) + 0 + Len(replies[u])
      BY <1>3, SumTaken
    <3>. QED  BY <1>1, <1>2, <2>1, <2>3, <3>1
  <2>5. Counted(u)'
    BY <1>1, <2>4 DEF AnswersAreCounted, Counted, Awaited
  <2>6. \A v \in Uploaders \ {u} : Counted(v)'
    BY <1>1, <1>2, <2>1, <2>3, CountStays DEF AnswersAreCounted
  <2>. QED  BY <2>5, <2>6 DEF AnswersAreCounted
<1>5. CASE /\ UNCHANGED requests
           /\ work' = [of |-> u, request |-> Head(stale[u]), live |-> FALSE, step |-> "begin"]
  <2>1. \A v \in Uploaders : InWork(v)' = 0
    BY <1>5 DEF InWork
  <2>. QED  BY <1>1, <1>2, <1>5, <2>1, CountStays DEF AnswersAreCounted
<1>. QED  BY <1>4, <1>5 DEF Handle

\* A step of the request under way leaves it there or answers it, once.
LEMMA ServerCounts ==
  ASSUME DiskTypes, Outside, AnswersAreCounted, ServerStep
  PROVE  AnswersAreCounted'
<1>1. /\ work # None /\ UNCHANGED <<requests, client>>
      /\ (\E step \in WorkSteps : Goto(step)) \/ (\E r \in Answers : Reply(r))
  BY ServerMoves DEF Outside
<1>2. work \in Works /\ NetTypes
  BY <1>1 DEF Outside, WorkTypes
<1>3. ASSUME NEW step \in WorkSteps, Goto(step) PROVE AnswersAreCounted'
  <2>1. work' = [work EXCEPT !.step = step] /\ replies' = replies
    BY <1>3 DEF Goto
  <2>2. work' \in Works /\ work'.of = work.of /\ work'.live = work.live
    BY <1>2, <2>1 DEF Works
  <2>3. work' # None
    BY <2>2, WorkIsSomething
  <2>4. \A v \in Uploaders : InWork(v)' = InWork(v)
    BY <1>1, <2>2, <2>3 DEF InWork
  <2>. QED  BY <1>1, <2>1, <2>4, CountStays DEF AnswersAreCounted
<1>4. ASSUME NEW r \in Answers, Reply(r) PROVE AnswersAreCounted'
  <2>1. work' = None /\ \A v \in Uploaders : InWork(v)' = 0
    BY <1>4 DEF Reply, InWork
  <2>2. CASE ~work.live
    <3>1. replies' = replies /\ \A v \in Uploaders : InWork(v) = 0
      BY <1>4, <2>2 DEF Reply, InWork
    <3>. QED  BY <1>1, <2>1, <3>1, CountStays DEF AnswersAreCounted
  <2>3. CASE work.live
    <3>1. PICK u \in Uploaders : u = work.of
      BY <1>2 DEF Works
    <3>2. /\ replies'[u] = Append(replies[u], r) /\ replies[u] \in Seq(Answers)
          /\ \A v \in Uploaders \ {u} : replies'[v] = replies[v]
      BY <1>2, <1>4, <2>3, <3>1 DEF Reply, NetTypes
    <3>3. Len(replies'[u]) = Len(replies[u]) + 1 /\ Len(replies[u]) \in Nat
      BY <3>2
    <3>4. InWork(u) = 1 /\ \A v \in Uploaders \ {u} : InWork(v) = 0
      BY <1>1, <2>3, <3>1 DEF InWork
    <3>5. Len(requests[u]) \in Nat
      BY <1>2 DEF NetTypes
    <3>6. Len(requests'[u]) + InWork(u)' + Len(replies'[u])
            = Len(requests[u]) + InWork(u) + Len(replies[u])
      <4>1. Len(requests[u]) + 0 + (Len(replies[u]) + 1) = Len(requests[u]) + 1 + Len(replies[u])
        BY <3>3, <3>5, SumTaken
      <4>. QED  BY <1>1, <2>1, <3>3, <3>4, <4>1
    <3>7. Counted(u)'
      BY <1>1, <3>6 DEF AnswersAreCounted, Counted, Awaited
    <3>8. \A v \in Uploaders \ {u} : Counted(v)'
      BY <1>1, <2>1, <3>2, <3>4, CountStays DEF AnswersAreCounted
    <3>. QED  BY <3>7, <3>8 DEF AnswersAreCounted
  <2>. QED  BY <2>2, <2>3
<1>. QED  BY <1>1, <1>3, <1>4

\* A new attempt sends one request.
LEMMA StartCounts ==
  ASSUME Outside, AnswersAreCounted, NEW u \in Uploaders, StartUpload(u)
  PROVE  AnswersAreCounted'
<1>1. /\ UNCHANGED <<work, replies>> /\ client[u].state \in {"idle", "failed"}
      /\ client' = [client EXCEPT ![u].state = "init"]
      /\ requests' = [requests EXCEPT ![u] = <<InitRequest>>]
      /\ NetTypes /\ ClientTypes
  BY DEF StartUpload, Outside
<1>2. /\ client'[u].state = "init" /\ requests'[u] = <<InitRequest>>
      /\ \A v \in Uploaders \ {u} : client'[v] = client[v] /\ requests'[v] = requests[v]
  BY <1>1 DEF NetTypes, ClientTypes, Tasks
<1>3. /\ \A v \in Uploaders : InWork(v)' = InWork(v)
      /\ InWork(u) \in Nat /\ Len(requests[u]) \in Nat /\ Len(replies[u]) \in Nat
  BY <1>1 DEF InWork, NetTypes
<1>4. Len(requests[u]) + InWork(u) + Len(replies[u]) = 0
  BY <1>1 DEF AnswersAreCounted, Counted, Awaited
<1>5. InWork(u)' = 0 /\ Len(replies'[u]) = 0 /\ Len(requests'[u]) = 1
  BY <1>1, <1>2, <1>3, <1>4
<1>6. Counted(u)'
  BY <1>2, <1>5 DEF Counted, Awaited
<1>7. \A v \in Uploaders \ {u} : Counted(v)'
  BY <1>1, <1>2, <1>3, CountStays DEF AnswersAreCounted
<1>. QED  BY <1>6, <1>7 DEF AnswersAreCounted

\* After a crash nobody waits.
LEMMA CrashCounts ==
  ASSUME Outside, AnswersAreCounted, Crash
  PROVE  AnswersAreCounted'
<1>1. /\ work' = None
      /\ \A u \in Uploaders : requests'[u] = <<>> /\ replies'[u] = <<>>
      /\ \A u \in Uploaders : client'[u].state \notin {"init", "chunks"}
  BY DEF Crash, Idle
<1>2. \A u \in Uploaders :
         Len(requests'[u]) = 0 /\ Len(replies'[u]) = 0 /\ InWork(u)' = 0 /\ Awaited(u)' = 0
  BY <1>1 DEF Awaited, InWork
<1>. QED  BY <1>2 DEF AnswersAreCounted, Counted

\* For any number of devices, sizes, retries, lost connections and crashes, a
\* task that waits for answers has exactly those answers coming.
THEOREM NoAnswerIsMissed == Spec => []AnswersAreCounted
<1>1. Init => AnswersAreCounted
  <2> SUFFICES ASSUME Init, NEW u \in Uploaders PROVE Counted(u)
    BY DEF AnswersAreCounted
  <2>1. requests[u] = <<>> /\ replies[u] = <<>> /\ client[u].state = "idle" /\ work = None
    BY DEF Init, Idle
  <2>2. Len(requests[u]) = 0 /\ Len(replies[u]) = 0 /\ InWork(u) = 0 /\ Awaited(u) = 0
    BY <2>1 DEF Awaited, InWork
  <2>. QED  BY <2>2 DEF Counted
<1>2. UploadInv /\ AnswersAreCounted /\ [Next]_vars => AnswersAreCounted'
  <2> SUFFICES ASSUME UploadInv, AnswersAreCounted, [Next]_vars PROVE AnswersAreCounted'
    OBVIOUS
  <2>0. DiskTypes /\ Outside
    BY DEF UploadInv, UploadTypes, Outside
  <2>1. CASE UNCHANGED vars
    BY <2>1 DEF vars, netVars, AnswersAreCounted, Counted, Awaited, InWork
  <2>2. ASSUME NEW u \in Uploaders, LoseConnection(u) PROVE AnswersAreCounted'
    BY <2>0, <2>2, DisconnectCounts DEF LoseConnection
  <2>. QED  BY <2>0, <2>1, <2>2, ServerCounts, CrashCounts, HandleCounts, StartCounts,
              ReceiveCounts DEF Next
<1>. QED  BY <1>1, <1>2, UploadInvHolds, PTL DEF Spec

\* The state that no retry repairs (MetadataLost) takes a crash between the opening
\* and the writing of <id>.json, or a write that fails: no order of the requests of
\* any number of devices, no lost connection and no error of Redis leaves the
\* metadata empty behind.
THEOREM MetadataNeedsFailure == Spec => [][AbandonedByFailure]_vars
<1>1. UploadInv /\ [Next]_vars => [AbandonedByFailure]_vars
  <2> SUFFICES ASSUME UploadInv, Next, Abandoned', ~Abandoned
               PROVE  Crash \/ (WriteMeta /\ Fault)
    BY DEF AbandonedByFailure
  <2>0. DiskTypes /\ WorkTypes
    BY DEF UploadInv, UploadTypes
  <2>1. CASE InitMeta
    <3>1. At("init", "begin") /\ work \in Works /\ ~At("init", "meta")
      BY <2>0, <2>1 DEF InitMeta, At, WorkTypes
    <3>2. meta = "none" /\ meta' = "empty" /\ work' = [work EXCEPT !.step = "meta"]
      BY <2>1, <3>1 DEF InitMeta, Abandoned, Goto
    <3>3. work'.step = "meta" /\ work'.request = work.request /\ work' \in Works
      BY <3>1, <3>2 DEF Works, WorkSteps
    <3>. QED  BY <3>1, <3>3, WorkIsSomething DEF Abandoned, At
  <2>2. CASE WriteMeta
    BY <2>2 DEF WriteMeta, MetaWriteFails, Abandoned
  <2>3. CASE InitResume \/ ChunkAppend \/ ChunkCut \/ ChunkRefused \/ ChunkVerify \/ MarkReady
    <3>1. meta' = meta
      BY <2>3 DEF InitResume, ChunkAppend, ChunkCut, ChunkRefused, ChunkVerify, MarkReady, diskVars
    <3>2. ~At("init", "meta")
      BY <2>3 DEF InitResume, ChunkAppend, ChunkCut, ChunkRefused, ChunkVerify, MarkReady, At
    <3>. QED  BY <3>1, <3>2 DEF Abandoned
  <2>4. ASSUME NEW u \in Uploaders,
               Handle(u) \/ StartUpload(u) \/ ReceiveInit(u) \/ ReceiveChunk(u) \/ LoseConnection(u)
        PROVE  FALSE
    <3>1. meta' = meta
      BY <2>4 DEF Handle, StartUpload, ReceiveInit, ReceiveChunk, LoseConnection, diskVars
    <3>2. At("init", "meta") /\ work \in Works
      BY <2>0, <3>1 DEF Abandoned, At, WorkTypes
    <3>3. \/ work' = work
          \/ work' = [work EXCEPT !.live = FALSE]
      <4>1. ~Handle(u)
        BY <3>2 DEF Handle, At
      <4>. QED  BY <2>4, <4>1 DEF StartUpload, ReceiveInit, ReceiveChunk, LoseConnection,
                  Disconnect, Continue
    <3>4. work'.step = work.step /\ work'.request = work.request /\ work' \in Works
      BY <3>2, <3>3 DEF Works
    <3>. QED  BY <3>2, <3>4, WorkIsSomething DEF Abandoned, At
  <2>. QED  BY <2>1, <2>2, <2>3, <2>4 DEF Next, ServerStep
<1>. QED  BY <1>1, UploadInvHolds, PTL DEF Spec
=============================================================================
