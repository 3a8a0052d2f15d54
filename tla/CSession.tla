------------------------------ MODULE CSession ------------------------------
(***************************************************************************)
(* One TCP connection of a chat node, CSession.cpp: the bounded send queue *)
(* filled by business, RPC and maintenance threads, the strand that writes *)
(* and closes, the final notice (NotifyOffline), the drain of a shutdown   *)
(* (DrainAndClose) and the drain deadline.                                 *)
(*                                                                         *)
(* A critical section of send_mutex_, an atomic exchange and a post to the *)
(* strand are separate steps of the calling thread.  The strand runs one   *)
(* handler at a time; a handler with several critical sections continues   *)
(* in `running`.  Messages are numbered by their admission.                *)
(***************************************************************************)
EXTENDS Naturals, Sequences

CONSTANTS
    Threads,       \* threads that call Send, NotifyOffline and Close
    MaxSendQueue,  \* MAX_SENDQUE
    RealtimeLimit, \* queue length from which realtime frames are dropped
    MaxMessages,   \* bound: messages offered while the queue accepts them
    MaxDrains      \* bound: calls of DrainAndClose

ASSUME SessionAssumption ==
    /\ MaxSendQueue \in Nat \ {0} /\ RealtimeLimit \in Nat
    /\ MaxMessages \in Nat /\ MaxDrains \in Nat

VARIABLES
    closed,        \* closed_
    retiring,      \* retiring_
    closeAfter,    \* close_after_write_
    queue,         \* send_queue_
    writeActive,   \* write_active_: an async_write is outstanding
    reading,       \* an async_read_some is outstanding
    timer,         \* the drain timer is waiting (drain_timer_active_)
    socketOpen,    \* the socket has not been closed by CloseOnExecutor
    cleanups,      \* number of CServer::CleanupSession calls
    closeHandlers, \* number of close_handlers_ not yet run
    strand,        \* tasks posted to the strand
    running,       \* continuation of the handler the strand is executing
    thread,        \* what each calling thread does next
    admitted,      \* number of messages admitted so far
    notice,        \* number of the final notice, 0 if none
    wire,          \* messages whose write completed
    drains, ran    \* DrainAndClose calls made, on_closed callbacks run

callVars == <<closed, retiring, closeAfter, queue, admitted, notice>>
strandVars == <<writeActive, reading, timer, socketOpen, cleanups, closeHandlers,
                wire, ran>>
vars == <<callVars, strandVars, strand, running, thread, drains>>

Tasks == {"start", "write", "armWrite", "close", "drain"}
Continuations == {"none", "StartWrite", "Close", "CloseOnExecutor", "Drain"}
ThreadSteps == {"idle", "write", "armWrite", "Close", "close"}

Init ==
    /\ closed = FALSE /\ retiring = FALSE /\ closeAfter = FALSE
    /\ queue = <<>> /\ admitted = 0 /\ notice = 0 /\ wire = <<>>
    /\ writeActive = FALSE /\ reading = FALSE /\ timer = FALSE
    /\ socketOpen = TRUE /\ cleanups = 0 /\ closeHandlers = 0
    /\ strand = <<"start">>       \* HandleAccept has called Start
    /\ running = "none"
    /\ thread = [p \in Threads |-> "idle"]
    /\ drains = 0 /\ ran = 0

--------------------------------------------------------------------------------
\* Calling threads.

\* Faulty variant: the flag of the final notice is not looked at.
AdmittingOpenOnly == ~closed

\* QueueSend refuses everything once the connection closes or retires.
Admitting == ~closed /\ ~closeAfter

NotOverloaded == Len(queue) < MaxSendQueue

\* QueueSend, its critical section: the message is admitted; the caller then
\* posts StartWrite if the queue was empty.
Admit(p, final) ==
    /\ thread[p] = "idle" /\ admitted < MaxMessages
    /\ Admitting /\ NotOverloaded
    /\ queue' = Append(queue, admitted + 1)
    /\ admitted' = admitted + 1
    /\ closeAfter' = final
    /\ notice' = IF final THEN admitted + 1 ELSE notice
    /\ retiring' = (retiring \/ final)
    /\ thread' = [thread EXCEPT ![p] = IF final THEN "armWrite"
                                       ELSE IF queue = <<>> THEN "write" ELSE "idle"]
    /\ UNCHANGED <<closed, strandVars, strand, running, drains>>

\* Send of a chat message.
Send(p) == Admit(p, FALSE)

\* Send of an audio or video frame, dropped when the queue is long.
SendRealtime(p) == Len(queue) < RealtimeLimit /\ Admit(p, FALSE)

NotifyOffline(p) == Admit(p, TRUE)

\* QueueSend finds the queue full: the slow consumer is disconnected.
Overload(p) ==
    /\ thread[p] = "idle"
    /\ Admitting /\ ~NotOverloaded
    /\ thread' = [thread EXCEPT ![p] = "Close"]
    /\ UNCHANGED <<callVars, strandVars, strand, running, drains>>

\* The caller of QueueSend posts its task to the strand.
Post(p) ==
    /\ thread[p] \in {"write", "armWrite", "close"}
    /\ strand' = Append(strand, thread[p])
    /\ thread' = [thread EXCEPT ![p] = "idle"]
    /\ UNCHANGED <<callVars, strandVars, running, drains>>

\* Close is called by maintenance (lost lease, heartbeat) or by a handler that
\* failed.
CallClose(p) ==
    /\ thread[p] = "idle" /\ ~closed
    /\ thread' = [thread EXCEPT ![p] = "Close"]
    /\ UNCHANGED <<callVars, strandVars, strand, running, drains>>

\* Close off the strand: the exchange, then the dispatch by the first caller.
ExchangeClosed(p) ==
    /\ thread[p] = "Close"
    /\ thread' = [thread EXCEPT ![p] = IF closed THEN "idle" ELSE "close"]
    /\ closed' = TRUE
    /\ UNCHANGED <<retiring, closeAfter, queue, admitted, notice,
                   strandVars, strand, running, drains>>

\* DrainAndClose by the shutdown or by a login that cannot be answered.
CallDrain ==
    /\ drains < MaxDrains
    /\ drains' = drains + 1
    /\ strand' = Append(strand, "drain")
    /\ UNCHANGED <<callVars, strandVars, running, thread>>

--------------------------------------------------------------------------------
\* The strand.

\* The next task of kind t starts.
Take(t) == running = "none" /\ strand # <<>> /\ Head(strand) = t /\ strand' = Tail(strand)

\* Start: the first read.
RunStart ==
    /\ Take("start")
    /\ reading' = ~closed
    /\ UNCHANGED <<callVars, writeActive, timer, socketOpen, cleanups, closeHandlers,
                   wire, ran, running, thread, drains>>

RunWrite ==
    /\ Take("write")
    /\ running' = "StartWrite"
    /\ UNCHANGED <<callVars, strandVars, thread, drains>>

\* Faulty variant: no deadline for the final notice.
RunUnarmed ==
    /\ Take("armWrite")
    /\ running' = "StartWrite"
    /\ UNCHANGED <<callVars, strandVars, thread, drains>>

\* The task of a final notice: ArmDrainDeadline, then StartWrite.
RunArmWrite ==
    /\ Take("armWrite")
    /\ timer' = (timer \/ ~closed)
    /\ running' = "StartWrite"
    /\ UNCHANGED <<callVars, writeActive, reading, socketOpen, cleanups,
                   closeHandlers, wire, ran, thread, drains>>

RunClose ==
    /\ Take("close")
    /\ running' = "CloseOnExecutor"
    /\ UNCHANGED <<callVars, strandVars, thread, drains>>

\* Faulty variant: a drain that finds the connection closed just returns.
RunDrainForgets ==
    /\ Take("drain")
    /\ closeHandlers' = IF closed THEN closeHandlers ELSE closeHandlers + 1
    /\ running' = IF closed THEN "CloseOnExecutor" ELSE "Drain"
    /\ UNCHANGED <<callVars, writeActive, reading, timer, socketOpen, cleanups,
                   wire, ran, thread, drains>>

\* DrainAndClose on the strand: a closed connection runs CloseOnExecutor and
\* then the callback; otherwise the callback waits in close_handlers_.
RunDrain ==
    /\ Take("drain")
    /\ closeHandlers' = closeHandlers + 1
    /\ running' = IF closed THEN "CloseOnExecutor" ELSE "Drain"
    /\ UNCHANGED <<callVars, writeActive, reading, timer, socketOpen, cleanups,
                   wire, ran, thread, drains>>

\* Rest of DrainAndClose: shut the queue; close it now or after its last write.
Drain ==
    /\ running = "Drain"
    /\ retiring' = TRUE /\ closeAfter' = TRUE
    /\ IF queue = <<>>
       THEN running' = "Close" /\ UNCHANGED timer
       ELSE running' = "StartWrite" /\ timer' = (timer \/ ~closed)
    /\ UNCHANGED <<closed, queue, admitted, notice, writeActive, reading, socketOpen,
                   cleanups, closeHandlers, wire, ran, strand, thread, drains>>

StartWrite ==
    /\ running = "StartWrite"
    /\ writeActive' = (writeActive \/ (~closed /\ queue # <<>>))
    /\ running' = "none"
    /\ UNCHANGED <<callVars, reading, timer, socketOpen, cleanups, closeHandlers,
                   wire, ran, strand, thread, drains>>

\* Close on the strand: dispatch runs CloseOnExecutor in place.
CloseInPlace ==
    /\ running = "Close"
    /\ running' = IF closed THEN "none" ELSE "CloseOnExecutor"
    /\ closed' = TRUE
    /\ UNCHANGED <<retiring, closeAfter, queue, admitted, notice, strandVars, strand,
                   thread, drains>>

\* Faulty variant: the cleanup is not guarded by cleanup_started_.
CleanupAgain == cleanups + 1

\* DealExceptionSession: the first call starts the cleanup.
CleanupOnce == IF cleanups = 0 THEN 1 ELSE cleanups

\* CloseOnExecutor closes the socket, empties the queue, starts the cleanup and
\* runs the handlers.
CloseOnExecutor ==
    /\ running = "CloseOnExecutor"
    /\ timer' = FALSE /\ socketOpen' = FALSE
    /\ queue' = <<>>
    /\ cleanups' = CleanupOnce
    /\ ran' = ran + closeHandlers
    /\ closeHandlers' = 0
    /\ running' = "none"
    /\ UNCHANGED <<closed, retiring, closeAfter, admitted, notice, writeActive,
                   reading, wire, strand, thread, drains>>

\* Faulty variant: the next message waits for the next push.
AfterPopStops(rest) == IF closeAfter /\ rest = <<>> THEN "Close" ELSE "none"

\* HandleWrite decides after the pop.
AfterPop(rest) == IF closeAfter /\ rest = <<>> THEN "Close" ELSE "StartWrite"

\* HandleWrite of a completed write.
HandleWrite ==
    /\ running = "none" /\ writeActive
    /\ writeActive' = FALSE
    /\ IF closed
       THEN UNCHANGED <<queue, wire, running>>
       ELSE /\ queue' = Tail(queue)
            /\ wire' = Append(wire, Head(queue))
            /\ running' = AfterPop(Tail(queue))
    /\ UNCHANGED <<closed, retiring, closeAfter, admitted, notice, reading, timer,
                   socketOpen, cleanups, closeHandlers, ran, strand, thread, drains>>

\* Faulty variant: a failed write is skipped and the next one started.
HandleWriteErrorSkips ==
    /\ running = "none" /\ writeActive
    /\ writeActive' = FALSE
    /\ queue' = IF closed THEN queue ELSE Tail(queue)
    /\ running' = IF closed THEN "none" ELSE "StartWrite"
    /\ UNCHANGED <<closed, retiring, closeAfter, admitted, notice, reading, timer,
                   socketOpen, cleanups, closeHandlers, wire, ran, strand, thread, drains>>

\* HandleWrite of a write that failed or was aborted.
HandleWriteError ==
    /\ running = "none" /\ writeActive
    /\ writeActive' = FALSE
    /\ running' = IF closed THEN "none" ELSE "Close"
    /\ UNCHANGED <<callVars, reading, timer, socketOpen, cleanups, closeHandlers,
                   wire, ran, strand, thread, drains>>

\* A read ends in an error, an invalid header or a request the business
\* executor rejects: HandleReadFailure and its like call Close.
ReadFails ==
    /\ running = "none" /\ reading
    /\ reading' = FALSE
    /\ running' = "Close"
    /\ UNCHANGED <<callVars, writeActive, timer, socketOpen, cleanups, closeHandlers,
                   wire, ran, strand, thread, drains>>

\* A request arrives while the server is stopping: no further read is started.
ReadStops ==
    /\ running = "none" /\ reading /\ ~closed
    /\ reading' = FALSE
    /\ UNCHANGED <<callVars, writeActive, timer, socketOpen, cleanups, closeHandlers,
                   wire, ran, strand, running, thread, drains>>

\* The drain deadline passes.
DrainTimeout ==
    /\ running = "none" /\ timer
    /\ timer' = FALSE
    /\ running' = "Close"
    /\ UNCHANGED <<callVars, writeActive, reading, socketOpen, cleanups,
                   closeHandlers, wire, ran, strand, thread, drains>>

--------------------------------------------------------------------------------
ThreadStep(p) == Post(p) \/ ExchangeClosed(p)

StrandStep ==
    \/ RunStart \/ RunWrite \/ RunArmWrite \/ RunClose \/ RunDrain
    \/ Drain \/ StartWrite \/ CloseInPlace \/ CloseOnExecutor

Next ==
    \/ \E p \in Threads : \/ Send(p) \/ SendRealtime(p) \/ NotifyOffline(p)
                          \/ Overload(p) \/ CallClose(p) \/ ThreadStep(p)
    \/ CallDrain \/ StrandStep
    \/ HandleWrite \/ HandleWriteError \/ ReadFails \/ ReadStops \/ DrainTimeout

Spec == Init /\ [][Next]_vars

\* Threads finish their calls, the io_context runs ready handlers, timers fire,
\* and operations on a closed socket complete.  A peer need not read or answer.
Fairness ==
    /\ \A p \in Threads : WF_vars(ThreadStep(p))
    /\ WF_vars(StrandStep)
    /\ WF_vars(DrainTimeout)
    /\ WF_vars(~socketOpen /\ HandleWriteError)

FairSpec == Spec /\ Fairness

--------------------------------------------------------------------------------
\* Properties.

\* Every variable keeps its type; the queue never exceeds its bound.
TypeOK ==
    /\ closed \in BOOLEAN /\ retiring \in BOOLEAN /\ closeAfter \in BOOLEAN
    /\ queue \in Seq(Nat) /\ Len(queue) <= MaxSendQueue
    /\ writeActive \in BOOLEAN /\ reading \in BOOLEAN /\ timer \in BOOLEAN
    /\ socketOpen \in BOOLEAN
    /\ cleanups \in Nat /\ closeHandlers \in Nat
    /\ strand \in Seq(Tasks) /\ running \in Continuations
    /\ thread \in [Threads -> ThreadSteps]
    /\ admitted \in Nat /\ notice \in Nat
    /\ wire \in Seq(Nat)
    /\ drains \in Nat /\ ran \in Nat

\* Completed writes are the admitted messages in their order, without gap or
\* repetition, and until the connection closes the rest is in the queue, within
\* the limit however many threads push at once.
InOrder ==
    /\ Len(wire) <= admitted /\ \A i \in 1..Len(wire) : wire[i] = i
    /\ ~closed => /\ Len(wire) + Len(queue) = admitted
                  /\ \A i \in 1..Len(queue) : queue[i] = Len(wire) + i
                  /\ Len(queue) <= MaxSendQueue

\* The completion of a write finds the message it wrote at the head of the
\* queue: HandleWrite never pops an empty queue.
PopIsValid == writeActive /\ ~closed => queue # <<>>

\* A task of kind t is posted, or about to be posted.
Coming(t) ==
    (\E i \in 1..Len(strand) : strand[i] = t) \/ (\E p \in Threads : thread[p] = t)

\* Waiting messages always have a writer: no order of a push on an emptying
\* queue, a completion and a post leaves a message behind in the queue.
NothingStranded ==
    ~closed /\ queue # <<>> =>
        \/ writeActive
        \/ running \in {"StartWrite", "Close", "Drain"}
        \/ Coming("write") \/ Coming("armWrite")

\* Nothing is admitted after the final notice.
NoticeIsLast == notice # 0 => admitted = notice /\ closeAfter

\* A physically closed connection holds no message and admits none, has started
\* its cleanup exactly once, and an open one has not started it.
CleanupAfterClose ==
    IF socketOpen THEN cleanups = 0 ELSE closed /\ cleanups = 1 /\ queue = <<>>

Outbox == INSTANCE OrderedOutbox WITH
    delivered <- Len(wire), shut <- closed \/ closeAfter, cut <- closed

\* The connection implements the ordered outbox.
SendsInOrder == Outbox!OutboxSpec

\* A retiring connection is physically closed even if the peer never reads.
RetiringCloses == retiring ~> ~socketOpen

\* Every caller of DrainAndClose gets its callback: CloseSessions returns.
DrainsReturn == \A n \in 1..MaxDrains : drains = n ~> ran >= n
=============================================================================
