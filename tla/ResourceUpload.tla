--------------------------- MODULE ResourceUpload ---------------------------
(***************************************************************************)
(* The upload of one file: ResourceStore of the resource server and        *)
(* ResourceMgr::startUpload of the clients that upload it.                 *)
(*                                                                         *)
(* The id of a file is a hash of its owner, its audience and its content,  *)
(* so every attempt, and both devices of an account, upload under the same *)
(* id and continue where the server is.  The server handles one request of *)
(* a file at a time (fileLocks_); a crash may come between any two of its  *)
(* effects on the disk and on Redis.  A client that gives up closes its    *)
(* connection, but the server may still handle what it has received.       *)
(*                                                                         *)
(* Authentication, the membership check of group files and the checks of   *)
(* the metadata, which are the same in every attempt, are left out.  The   *)
(* content is the sequence 1, 2, ..., Size; its SHA256 is right exactly if *)
(* the stored sequence is that one.                                        *)
(***************************************************************************)
EXTENDS Naturals, Sequences

CONSTANTS
    Uploaders,      \* devices that upload the file
    None,           \* no request in progress
    Size,           \* length of the file
    ChunkSize,      \* kChunkSize
    Window,         \* upload_window: chunks sent before their answers arrive
    MaxCrashes,     \* bound: crashes of the server
    MaxFaults       \* bound: lost connections, Redis errors, failed writes

ASSUME UploadAssumption ==
    /\ None \notin Uploaders
    /\ Size \in Nat \ {0} /\ ChunkSize \in Nat \ {0} /\ Window \in Nat \ {0}
    /\ MaxCrashes \in Nat /\ MaxFaults \in Nat

ASSUME NoneAssumption ==
    None \notin [of : Uploaders, request : [kind : {"init", "chunk"}, offset : Nat],
                live : BOOLEAN, step : {"begin", "meta", "resume", "verify", "publish"}]

VARIABLES
    meta,       \* <id>.json: "none", "empty" (opened, not written in full) or "whole"
    part,       \* <id>.part
    done,       \* <id>.bin, empty: not there
    ready,      \* resource_ready_<id> in Redis
    work,       \* the request that holds the file's lock
    requests,   \* requests[u]: received or under way on u's connection
    replies,    \* replies[u]: answers on u's connection
    stale,      \* stale[u]: what the server still has of u's last connection
    client,     \* client[u]: the upload task
    crashes, faults

diskVars == <<meta, part, done>>
netVars == <<requests, replies, stale>>
vars == <<diskVars, ready, work, netVars, client, crashes, faults>>

Whole == [i \in 1..Size |-> i]
Least(a, b) == IF a < b THEN a ELSE b

Idle == [state |-> "idle", offset |-> 0, expected |-> <<>>]

Init ==
    /\ meta = "none" /\ part = <<>> /\ done = <<>> /\ ready = FALSE
    /\ work = None
    /\ requests = [u \in Uploaders |-> <<>>] /\ replies = [u \in Uploaders |-> <<>>]
    /\ stale = [u \in Uploaders |-> <<>>]
    /\ client = [u \in Uploaders |-> Idle]
    /\ crashes = 0 /\ faults = 0

Fault == faults < MaxFaults /\ faults' = faults + 1

----------------------------------------------------------------------------
(* ResourceStore: one request, in the steps a crash can separate           *)

InitRequest == [kind |-> "init", offset |-> 0]
ChunkRequest(o) == [kind |-> "chunk", offset |-> o]

Ok(o, complete) == [ok |-> TRUE, offset |-> o, complete |-> complete]
Error == [ok |-> FALSE, offset |-> 0, complete |-> FALSE]

\* Handle takes the lock for the next request of a connection, open or stale.
Handle(u) ==
    /\ work = None
    /\ \/ /\ requests[u] # <<>>
          /\ work' = [of |-> u, request |-> Head(requests[u]), live |-> TRUE, step |-> "begin"]
          /\ requests' = [requests EXCEPT ![u] = Tail(@)]
          /\ UNCHANGED stale
       \/ /\ stale[u] # <<>>
          /\ work' = [of |-> u, request |-> Head(stale[u]), live |-> FALSE, step |-> "begin"]
          /\ stale' = [stale EXCEPT ![u] = Tail(@)]
          /\ UNCHANGED requests
    /\ UNCHANGED <<diskVars, ready, replies, client, crashes, faults>>

At(kind, step) == work # None /\ work.request.kind = kind /\ work.step = step
Goto(step) == work' = [work EXCEPT !.step = step] /\ UNCHANGED replies

\* The answer; that of a stale connection goes nowhere.
Reply(r) ==
    /\ work' = None
    /\ replies' = IF work.live THEN [replies EXCEPT ![work.of] = Append(@, r)] ELSE replies

\* UploadInit: metadata that does not parse makes the request fail; metadata that
\* is not there is opened, truncating, if the disk allows it.
InitMeta ==
    /\ At("init", "begin")
    /\ \/ meta = "none" /\ meta' = "empty" /\ Goto("meta") /\ UNCHANGED faults
       \/ meta = "none" /\ UNCHANGED meta /\ Reply(Error) /\ Fault
       \/ meta = "empty" /\ UNCHANGED <<meta, faults>> /\ Reply(Error)
       \/ meta = "whole" /\ UNCHANGED <<meta, faults>> /\ Goto("resume")
    /\ UNCHANGED <<part, done, ready, requests, stale, client, crashes>>

\* The disk may fail.  The stream reports it, and the request fails; or what was
\* buffered is lost when the stream is closed, which nobody looks at.
MetaWriteFails ==
    /\ Fault /\ UNCHANGED meta
    /\ Reply(Error) \/ Goto("resume")

WriteMeta ==
    /\ At("init", "meta")
    /\ \/ meta' = "whole" /\ Goto("resume") /\ UNCHANGED faults
       \/ MetaWriteFails
    /\ UNCHANGED <<part, done, ready, requests, stale, client, crashes>>

\* Faulty variant: a complete part is only recognised by its last chunk.
InitResumeByChunk ==
    /\ At("init", "resume")
    /\ IF done # <<>> THEN Goto("publish") ELSE Reply(Ok(Len(part), FALSE))
    /\ UNCHANGED <<diskVars, ready, requests, stale, client, crashes, faults>>

\* A complete part that was not renamed is renamed now, a wrong one removed.
InitResume ==
    /\ At("init", "resume")
    /\ \/ done # <<>> /\ Goto("publish") /\ UNCHANGED <<part, done>>
       \/ /\ done = <<>> /\ Len(part) < Size
          /\ Reply(Ok(Len(part), FALSE)) /\ UNCHANGED <<part, done>>
       \/ /\ done = <<>> /\ Len(part) >= Size
          /\ part' = <<>>
          /\ IF part = Whole THEN done' = part /\ Goto("publish")
                             ELSE UNCHANGED done /\ Reply(Ok(0, FALSE))
    /\ UNCHANGED <<meta, ready, requests, stale, client, crashes, faults>>

\* The bytes of the chunk at offset o.
Chunk(o) == [i \in 1..Least(ChunkSize, Size - o) |-> o + i]

\* Faulty variant: the chunk is appended wherever the file ends.
ChunkAppendAnywhere ==
    /\ At("chunk", "begin") /\ meta = "whole" /\ done = <<>>
    /\ part' = part \o Chunk(work.request.offset)
    /\ IF Len(part') = Size THEN Goto("verify") ELSE Reply(Ok(Len(part'), FALSE))
    /\ UNCHANGED <<meta, done, ready, requests, stale, client, crashes, faults>>

\* UploadChunk appends to the part, if it ends where the chunk begins.
ChunkAppend ==
    /\ At("chunk", "begin") /\ meta = "whole" /\ done = <<>>
    /\ work.request.offset = Len(part)
    /\ part' = part \o Chunk(Len(part))
    /\ IF Len(part') = Size THEN Goto("verify") ELSE Reply(Ok(Len(part'), FALSE))
    /\ UNCHANGED <<meta, done, ready, requests, stale, client, crashes, faults>>

\* The write stops in the middle of the chunk: an error of the disk.
ChunkCut ==
    /\ At("chunk", "begin") /\ meta = "whole" /\ done = <<>>
    /\ work.request.offset = Len(part)
    /\ Fault
    /\ \E n \in 0..(Len(Chunk(Len(part))) - 1) : part' = part \o SubSeq(Chunk(Len(part)), 1, n)
    /\ Reply(Error)
    /\ UNCHANGED <<meta, done, ready, requests, stale, client, crashes>>

\* No metadata, or the part does not end where the chunk begins; a chunk of a
\* file that is complete already is answered for the whole file.
ChunkRefused ==
    /\ At("chunk", "begin")
    /\ \/ meta # "whole" /\ Reply(Error)
       \/ meta = "whole" /\ done # <<>> /\ Goto("publish")
       \/ meta = "whole" /\ done = <<>> /\ work.request.offset # Len(part) /\ Reply(Error)
    /\ UNCHANGED <<diskVars, ready, requests, stale, client, crashes, faults>>

\* Faulty variant: the file is published before it is renamed.
ChunkVerifyPublishing ==
    /\ At("chunk", "verify")
    /\ \/ ~ready /\ ready' = TRUE /\ UNCHANGED <<part, done>> /\ Goto("verify")
       \/ ready /\ part' = <<>> /\ done' = part /\ UNCHANGED ready /\ Goto("publish")
    /\ UNCHANGED <<meta, requests, stale, client, crashes, faults>>

\* The last chunk: the checksum decides between the rename and the removal.
ChunkVerify ==
    /\ At("chunk", "verify")
    /\ part' = <<>>
    /\ IF part = Whole THEN done' = part /\ Goto("publish")
                       ELSE UNCHANGED done /\ Reply(Error)
    /\ UNCHANGED <<meta, ready, requests, stale, client, crashes, faults>>

\* MarkReady; a chat server accepts the message from now on.
MarkReady ==
    /\ work # None /\ work.step = "publish"
    /\ \/ ready' = TRUE /\ Reply(Ok(Size, TRUE)) /\ UNCHANGED faults
       \/ Fault /\ UNCHANGED ready /\ Reply(Error)
    /\ UNCHANGED <<diskVars, requests, stale, client, crashes>>

----------------------------------------------------------------------------
(* ResourceMgr::startUpload                                                *)

\* The chunks of one window from offset o, and the offsets they end at.
WindowAt(o) == {n \in 1..Window : o + (n - 1) * ChunkSize < Size}
Chunks(o) == [n \in WindowAt(o) |-> ChunkRequest(o + (n - 1) * ChunkSize)]
Ends(o) == [n \in WindowAt(o) |-> Least(o + n * ChunkSize, Size)]

\* A failed attempt closes its socket; the server may not have noticed.
Disconnect(u, state) ==
    /\ client' = [client EXCEPT ![u] = [Idle EXCEPT !.state = state]]
    /\ stale' = [stale EXCEPT ![u] = requests[u]]
    /\ requests' = [requests EXCEPT ![u] = <<>>]
    /\ replies' = [replies EXCEPT ![u] = <<>>]
    /\ work' = IF work # None /\ work.of = u THEN [work EXCEPT !.live = FALSE] ELSE work

\* The first attempt, or a retry of the message, on a new connection.
StartUpload(u) ==
    /\ client[u].state \in {"idle", "failed"}
    /\ client' = [client EXCEPT ![u].state = "init"]
    /\ requests' = [requests EXCEPT ![u] = <<InitRequest>>]
    /\ UNCHANGED <<diskVars, ready, work, replies, stale, crashes, faults>>

\* From offset o: the next window, or the end if the server says so.
Continue(u, o, complete) ==
    IF o < Size
    THEN /\ client' = [client EXCEPT ![u] = [state |-> "chunks", offset |-> o,
                                             expected |-> Ends(o)]]
         /\ requests' = [requests EXCEPT ![u] = Chunks(o)]
         /\ UNCHANGED <<work, stale>>
    ELSE Disconnect(u, IF complete THEN "finished" ELSE "failed")

ReceiveInit(u) ==
    /\ client[u].state = "init" /\ replies[u] # <<>>
    /\ LET r == Head(replies[u]) IN
         IF r.ok
         THEN /\ Continue(u, r.offset, r.complete)
              /\ r.offset < Size => replies' = [replies EXCEPT ![u] = Tail(@)]
         ELSE Disconnect(u, "failed")
    /\ UNCHANGED <<diskVars, ready, crashes, faults>>

ReceiveChunk(u) ==
    /\ client[u].state = "chunks" /\ replies[u] # <<>>
    /\ LET r == Head(replies[u])
           rest == Tail(client[u].expected)
       IN  IF ~r.ok \/ r.offset # Head(client[u].expected)
           THEN Disconnect(u, "failed")
           ELSE IF rest # <<>>
           THEN /\ client' = [client EXCEPT ![u].offset = r.offset, ![u].expected = rest]
                /\ replies' = [replies EXCEPT ![u] = Tail(@)]
                /\ UNCHANGED <<work, requests, stale>>
           ELSE /\ Continue(u, r.offset, r.complete)
                /\ r.offset < Size => replies' = [replies EXCEPT ![u] = Tail(@)]
    /\ UNCHANGED <<diskVars, ready, crashes, faults>>

\* The connection breaks, or an answer takes longer than 10 s.
LoseConnection(u) ==
    /\ client[u].state \in {"init", "chunks"} /\ Fault
    /\ Disconnect(u, "failed")
    /\ UNCHANGED <<diskVars, ready, crashes>>

\* A crash of the server: what is on the disk and in Redis remains, a chunk
\* that was being written possibly in part.
Crash ==
    /\ crashes < MaxCrashes /\ crashes' = crashes + 1
    /\ work' = None
    /\ part' \in IF At("chunk", "begin") /\ meta = "whole" /\ done = <<>>
                    /\ work.request.offset = Len(part)
                 THEN {part \o SubSeq(Chunk(Len(part)), 1, n) : n \in 0..Len(Chunk(Len(part)))}
                 ELSE {part}
    /\ requests' = [u \in Uploaders |-> <<>>] /\ replies' = [u \in Uploaders |-> <<>>]
    /\ stale' = [u \in Uploaders |-> <<>>]
    /\ client' = [u \in Uploaders |-> IF client[u].state \in {"init", "chunks"}
                                      THEN [Idle EXCEPT !.state = "failed"] ELSE client[u]]
    /\ UNCHANGED <<meta, done, ready, faults>>

----------------------------------------------------------------------------
ServerStep ==
    \/ InitMeta \/ WriteMeta \/ InitResume
    \/ ChunkAppend \/ ChunkCut \/ ChunkRefused \/ ChunkVerify \/ MarkReady

Next ==
    \/ ServerStep \/ Crash
    \/ \E u \in Uploaders : \/ Handle(u) \/ StartUpload(u) \/ ReceiveInit(u)
                            \/ ReceiveChunk(u) \/ LoseConnection(u)

Spec == Init /\ [][Next]_vars

\* The server's workers serve every connection, answers arrive, and a failed
\* upload is tried again.
Fairness ==
    /\ WF_vars(ServerStep)
    /\ \A u \in Uploaders : /\ SF_vars(Handle(u)) /\ WF_vars(StartUpload(u))
                            /\ WF_vars(ReceiveInit(u)) /\ WF_vars(ReceiveChunk(u))
FairSpec == Spec /\ Fairness

----------------------------------------------------------------------------
(* Properties                                                              *)

\* Two devices, retries and late chunks of closed connections never make a hole
\* or a repetition in the part (the offset check of UploadChunk under the lock).
PartIsPrefix == part = SubSeq(Whole, 1, Len(part)) /\ Len(part) <= Size

\* What is published for the chat servers is the whole file, and a client that
\* reports success has a file that is published, whatever crashed in between.
PublishedIsWhole ==
    /\ ready => done = Whole
    /\ \A u \in Uploaders : client[u].state = "finished" => ready

\* The one state a retry does not repair: the server stopped between opening and
\* writing the metadata, or the write failed.
MetadataLost == meta = "empty" /\ work = None

\* A device that keeps trying succeeds, although the two devices disturb each
\* other's offsets and the server may have stopped after any step.
UploadSucceeds ==
    \A u \in Uploaders : client[u].state = "init" ~> client[u].state = "finished" \/ MetadataLost
=============================================================================
