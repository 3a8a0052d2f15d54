--------------------------- MODULE CSessionProofs ---------------------------
(***************************************************************************)
(* Proofs about CSession for any number of threads, messages and drains:   *)
(* its invariants and refinement from SessionInv, then ClosesAreTended,    *)
(* that a close once begun has somebody to finish it.                      *)
(***************************************************************************)
EXTENDS CSession, FiniteSetTheorems, FunctionTheorems, TLAPS

\* CloseOnExecutor runs, or is posted, only for a connection whose closed_ flag
\* is set: this is what keeps the queue of an open connection intact.
ClosingIsClosed == running = "CloseOnExecutor" \/ Coming("close") => closed

\* The inductive invariant.
SessionInv ==
    /\ TypeOK /\ InOrder /\ PopIsValid /\ NothingStranded
    /\ NoticeIsLast /\ CleanupAfterClose /\ ClosingIsClosed

\* A task that leaves the head of the strand is the only one that is no longer
\* coming.
LEMMA TakeKeepsOthers ==
    ASSUME TypeOK, NEW t \in Tasks, Take(t), UNCHANGED thread,
           NEW u \in Tasks
    PROVE  /\ strand' \in Seq(Tasks)
           /\ Coming(u)' => Coming(u)
           /\ Coming(u) => Coming(u)' \/ u = t
<1>1. strand' = Tail(strand) /\ strand # <<>> /\ strand \in Seq(Tasks) /\ strand[1] = t
  BY DEF Take, TypeOK
<1>2. Len(strand') = Len(strand) - 1 /\ Len(strand) \in Nat /\ Len(strand) > 0
  BY <1>1
<1>3. \A i \in 1..Len(strand') : strand'[i] = strand[i + 1] /\ i + 1 \in 1..Len(strand)
  BY <1>1, <1>2
<1>4. \A i \in 1..Len(strand) : i = 1 \/ (i - 1 \in 1..Len(strand') /\ strand'[i - 1] = strand[i])
  <2> TAKE i \in 1..Len(strand)
  <2>1. CASE i # 1
    <3>1. i - 1 \in 1..Len(strand') /\ (i - 1) + 1 = i
      BY <1>2, <2>1
    <3> QED BY <3>1, <1>3
  <2> QED BY <2>1
<1>5. Coming(u)' => Coming(u)
  BY <1>3 DEF Coming
<1>6. Coming(u) => Coming(u)' \/ u = t
  BY <1>1, <1>4 DEF Coming
<1> QED BY <1>1, <1>5, <1>6

\* A posted task is coming, and posting it changes nothing for the others.
LEMMA PostKeepsComing ==
    ASSUME TypeOK, NEW p \in Threads, Post(p), NEW u \in Tasks
    PROVE  /\ strand' \in Seq(Tasks)
           /\ Coming(u)' <=> Coming(u)
<1>1. thread[p] \in {"write", "armWrite", "close"} /\ thread[p] \in Tasks
  BY DEF Post, Tasks
<1>2. /\ strand' = Append(strand, thread[p]) /\ strand \in Seq(Tasks)
      /\ thread' = [thread EXCEPT ![p] = "idle"] /\ thread \in [Threads -> ThreadSteps]
  BY DEF Post, TypeOK
<1>3. /\ strand' \in Seq(Tasks) /\ Len(strand') = Len(strand) + 1 /\ Len(strand) \in Nat
      /\ strand'[Len(strand) + 1] = thread[p]
      /\ \A i \in 1..Len(strand) : strand'[i] = strand[i]
  BY <1>1, <1>2
<1>4. \A i \in 1..Len(strand') : i \in 1..Len(strand) \/ i = Len(strand) + 1
  BY <1>3
<1>5. \A i \in 1..Len(strand) : i \in 1..Len(strand')
  BY <1>3
<1>6. Len(strand) + 1 \in 1..Len(strand')
  BY <1>3
<1>7. Coming(u)' => Coming(u)
  <2>1. ASSUME NEW i \in 1..Len(strand'), strand'[i] = u
        PROVE  Coming(u)
    BY <2>1, <1>3, <1>4 DEF Coming
  <2>2. ASSUME NEW q \in Threads, thread'[q] = u
        PROVE  Coming(u)
    BY <2>2, <1>2 DEF Coming, Tasks
  <2> QED BY <2>1, <2>2 DEF Coming
<1>8. Coming(u) => Coming(u)'
  <2>1. ASSUME NEW i \in 1..Len(strand), strand[i] = u
        PROVE  Coming(u)'
    BY <2>1, <1>3, <1>5 DEF Coming
  <2>2. ASSUME NEW q \in Threads, thread[q] = u
        PROVE  Coming(u)'
    <3>1. CASE q = p
      BY <3>1, <2>2, <1>3, <1>6 DEF Coming
    <3>2. CASE q # p
      BY <3>2, <2>2, <1>2 DEF Coming
    <3> QED BY <3>1, <3>2
  <2> QED BY <2>1, <2>2 DEF Coming
<1> QED BY <1>3, <1>7, <1>8

\* A fresh connection satisfies the invariant.
LEMMA InitInv == Init => SessionInv
<1> SUFFICES ASSUME Init PROVE SessionInv
  OBVIOUS
<1> USE DEF Init
<1>1. strand = <<"start">> /\ strand \in Seq(Tasks) /\ Len(strand) = 1
  BY DEF Tasks
<1>2. TypeOK
  <2>1. queue \in Seq(Nat) /\ wire \in Seq(Nat) /\ Len(queue) = 0
    OBVIOUS
  <2>2. Len(queue) <= MaxSendQueue
    BY <2>1, SessionAssumption
  <2>3. thread \in [Threads -> ThreadSteps] /\ running \in Continuations
    BY DEF ThreadSteps, Continuations
  <2> QED BY <1>1, <2>1, <2>2, <2>3 DEF TypeOK
<1>3. ~Coming("close")
  BY <1>1 DEF Coming
<1>4. InOrder
  <2>1. Len(wire) = 0 /\ Len(queue) = 0 /\ 1..0 = {}
    OBVIOUS
  <2>2. Len(queue) <= MaxSendQueue
    BY <1>2 DEF TypeOK
  <2> QED BY <2>1, <2>2 DEF InOrder
<1>5. PopIsValid /\ NothingStranded /\ NoticeIsLast /\ CleanupAfterClose
  BY DEF PopIsValid, NothingStranded, NoticeIsLast, CleanupAfterClose
<1> QED
  BY <1>2, <1>3, <1>4, <1>5 DEF SessionInv, ClosingIsClosed

\* QueueSend admits a message.
LEMMA AdmitInv ==
    ASSUME SessionInv, NEW p \in Threads, NEW final \in BOOLEAN, Admit(p, final)
    PROVE  SessionInv'
<1> USE DEF SessionInv
<1>1. /\ queue \in Seq(Nat) /\ admitted \in Nat /\ admitted + 1 \in Nat
      /\ Len(queue) < MaxSendQueue /\ Len(queue) \in Nat /\ MaxSendQueue \in Nat
      /\ ~closed /\ ~closeAfter
  BY SessionAssumption DEF Admit, Admitting, NotOverloaded, TypeOK
<1>2. /\ queue' \in Seq(Nat) /\ Len(queue') = Len(queue) + 1
      /\ queue'[Len(queue) + 1] = admitted + 1
      /\ \A i \in 1..Len(queue) : queue'[i] = queue[i]
  BY <1>1 DEF Admit
<1>3. TypeOK'
  <2>1. thread' \in [Threads -> ThreadSteps]
    BY DEF Admit, TypeOK, ThreadSteps
  <2> QED
    BY <1>1, <1>2, <2>1 DEF Admit, TypeOK, strandVars
<1>4. InOrder'
  <2>1. /\ wire \in Seq(Nat) /\ Len(wire) \in Nat /\ Len(wire) + Len(queue) = admitted
        /\ \A i \in 1..Len(queue) : queue[i] = Len(wire) + i
        /\ \A i \in 1..Len(wire) : wire[i] = i
        /\ wire' = wire /\ closed' = closed /\ admitted' = admitted + 1
    BY <1>1 DEF InOrder, Admit, TypeOK, strandVars
  <2>2. ASSUME NEW i \in 1..Len(queue') PROVE queue'[i] = Len(wire) + i
    <3>1. CASE i = Len(queue) + 1
      BY <3>1, <1>2, <2>1, <1>1
    <3>2. CASE i # Len(queue) + 1
      <4>1. i \in 1..Len(queue)
        BY <3>2, <1>1, <1>2
      <4> QED BY <4>1, <1>2, <2>1
    <3> QED BY <3>1, <3>2
  <2>3. Len(wire') <= admitted' /\ Len(wire') + Len(queue') = admitted'
    <3>1. Len(wire') = Len(wire) /\ Len(wire) \in Nat /\ Len(wire) + Len(queue) = admitted
      BY <2>1
    <3>2. Len(queue') = Len(queue) + 1 /\ Len(queue) \in Nat /\ admitted' = admitted + 1
      BY <1>1, <1>2, <2>1
    <3> QED BY <3>1, <3>2
  <2>4. Len(queue') <= MaxSendQueue
    BY <1>3 DEF TypeOK
  <2> QED BY <2>1, <2>2, <2>3, <2>4 DEF InOrder
<1>5. PopIsValid'
  BY <1>2 DEF PopIsValid
<1>6. NothingStranded'
  <2>1. CASE thread'[p] # "idle"
    <3>1. thread'[p] \in {"write", "armWrite"}
      BY <2>1 DEF Admit, TypeOK
    <3> QED BY <3>1 DEF NothingStranded, Coming
  <2>2. CASE thread'[p] = "idle"
    <3>1. queue # <<>> /\ thread' = thread /\ strand' = strand
      BY <2>2 DEF Admit, TypeOK
    <3> QED BY <1>1, <3>1 DEF NothingStranded, Coming, Admit, strandVars
  <2> QED BY <2>1, <2>2
<1>7. NoticeIsLast'
  BY <1>1 DEF NoticeIsLast, Admit
<1>8. CleanupAfterClose'
  BY <1>1 DEF CleanupAfterClose, Admit, strandVars
<1>9. ClosingIsClosed'
  <2>1. running # "CloseOnExecutor" /\ ~Coming("close")
    BY <1>1 DEF ClosingIsClosed
  <2>2. running' # "CloseOnExecutor" /\ ~Coming("close")'
    BY <2>1 DEF Coming, Admit, TypeOK
  <2> QED BY <2>2 DEF ClosingIsClosed
<1> QED BY <1>3, <1>4, <1>5, <1>6, <1>7, <1>8, <1>9

\* Steps of the calling threads after, or without, an admission.
LEMMA ThreadInv ==
    ASSUME SessionInv, NEW p \in Threads,
           Overload(p) \/ CallClose(p) \/ Post(p) \/ ExchangeClosed(p)
    PROVE  SessionInv'
<1> USE DEF SessionInv
<1>1. CASE Overload(p) \/ CallClose(p)
  <2>1. /\ UNCHANGED <<callVars, strandVars, strand, running, drains>>
        /\ thread[p] = "idle" /\ thread' = [thread EXCEPT ![p] = "Close"]
        /\ thread \in [Threads -> ThreadSteps]
    BY <1>1 DEF Overload, CallClose, TypeOK
  <2>2. TypeOK'
    BY <2>1 DEF TypeOK, callVars, strandVars, ThreadSteps
  <2>3. Coming("close")' <=> Coming("close")
    BY <2>1 DEF Coming
  <2>4. (Coming("write")' <=> Coming("write")) /\ (Coming("armWrite")' <=> Coming("armWrite"))
    BY <2>1 DEF Coming
  <2> QED
    BY <2>1, <2>2, <2>3, <2>4 DEF InOrder, PopIsValid, NothingStranded, NoticeIsLast,
       CleanupAfterClose, ClosingIsClosed, callVars, strandVars
<1>2. CASE Post(p)
  <2>1. /\ strand' \in Seq(Tasks) /\ (Coming("close")' <=> Coming("close"))
        /\ (Coming("write")' <=> Coming("write")) /\ (Coming("armWrite")' <=> Coming("armWrite"))
    BY <1>2, PostKeepsComing DEF Tasks
  <2>2. UNCHANGED <<callVars, strandVars, running, drains>>
    BY <1>2 DEF Post
  <2>3. TypeOK'
    BY <1>2, <2>1, <2>2 DEF Post, TypeOK, callVars, strandVars, ThreadSteps
  <2> QED
    BY <2>1, <2>2, <2>3 DEF InOrder, PopIsValid, NothingStranded, NoticeIsLast,
       CleanupAfterClose, ClosingIsClosed, callVars, strandVars
<1>3. CASE ExchangeClosed(p)
  <2>1. /\ closed' = TRUE /\ strand' = strand /\ running' = running
        /\ UNCHANGED <<retiring, closeAfter, queue, admitted, notice, strandVars, drains>>
    BY <1>3 DEF ExchangeClosed
  <2>2. TypeOK'
    BY <1>3, <2>1 DEF ExchangeClosed, TypeOK, strandVars, ThreadSteps
  <2> QED
    BY <2>1, <2>2 DEF InOrder, PopIsValid, NothingStranded, NoticeIsLast,
       CleanupAfterClose, ClosingIsClosed, strandVars
<1> QED BY <1>1, <1>2, <1>3

\* Tasks taken from the strand, and DrainAndClose posting one.
LEMMA TaskInv ==
    ASSUME SessionInv,
           CallDrain \/ RunStart \/ RunWrite \/ RunArmWrite \/ RunClose \/ RunDrain
    PROVE  SessionInv'
<1> USE DEF SessionInv
<1>1. CASE CallDrain
  <2>1. strand' = Append(strand, "drain") /\ strand \in Seq(Tasks) /\ "drain" \in Tasks
    BY <1>1 DEF CallDrain, TypeOK, Tasks
  <2>2. /\ strand' \in Seq(Tasks) /\ Len(strand') = Len(strand) + 1 /\ Len(strand) \in Nat
        /\ strand'[Len(strand) + 1] = "drain"
        /\ \A i \in 1..Len(strand) : strand'[i] = strand[i] /\ i \in 1..Len(strand')
        /\ \A i \in 1..Len(strand') : i \in 1..Len(strand) \/ i = Len(strand) + 1
    BY <2>1
  <2>3. ASSUME NEW u \in {"write", "armWrite", "close"}
        PROVE  Coming(u)' <=> Coming(u)
    BY <1>1, <2>2 DEF Coming, CallDrain
  <2>4. TypeOK'
    BY <1>1, <2>2 DEF CallDrain, TypeOK, callVars, strandVars
  <2> QED
    BY <1>1, <2>3, <2>4 DEF CallDrain, InOrder, PopIsValid, NothingStranded, NoticeIsLast,
       CleanupAfterClose, ClosingIsClosed, callVars, strandVars
<1>2. CASE RunStart
  <2>1. Take("start") /\ UNCHANGED <<thread, callVars, running>> /\ "start" \in Tasks
    BY <1>2 DEF RunStart, Tasks
  <2>2. strand' \in Seq(Tasks)
    BY <2>1, TakeKeepsOthers
  <2>3. ASSUME NEW u \in {"write", "armWrite", "close"}
        PROVE  Coming(u)' <=> Coming(u)
    BY <2>1, TakeKeepsOthers DEF Tasks
  <2>4. TypeOK'
    BY <1>2, <2>2 DEF RunStart, TypeOK, callVars
  <2> QED
    BY <1>2, <2>3, <2>4 DEF RunStart, InOrder, PopIsValid, NothingStranded, NoticeIsLast,
       CleanupAfterClose, ClosingIsClosed, callVars
<1>3. CASE RunWrite \/ RunArmWrite
  <2>1. PICK t \in {"write", "armWrite"} : Take(t)
    BY <1>3 DEF RunWrite, RunArmWrite
  <2>2. /\ UNCHANGED <<callVars, writeActive, reading, socketOpen, cleanups, closeHandlers,
                       wire, ran, thread, drains>>
        /\ running' = "StartWrite" /\ timer' \in BOOLEAN
    BY <1>3 DEF RunWrite, RunArmWrite, strandVars, TypeOK
  <2>3. strand' \in Seq(Tasks) /\ (Coming("close")' => Coming("close"))
    BY <2>1, <2>2, TakeKeepsOthers DEF Tasks
  <2>4. TypeOK'
    BY <2>2, <2>3 DEF TypeOK, callVars, Continuations
  <2> QED
    BY <2>2, <2>3, <2>4 DEF InOrder, PopIsValid, NothingStranded, NoticeIsLast,
       CleanupAfterClose, ClosingIsClosed, callVars
<1>4. CASE RunClose
  <2>1. /\ Take("close") /\ UNCHANGED <<callVars, strandVars, thread, drains>>
        /\ running' = "CloseOnExecutor"
    BY <1>4 DEF RunClose
  <2>2. strand \in Seq(Tasks) /\ strand # <<>> /\ strand[1] = "close" /\ 1 \in 1..Len(strand)
    BY <2>1 DEF Take, TypeOK
  <2>3. closed /\ closed'
    BY <2>1, <2>2 DEF ClosingIsClosed, Coming, callVars
  <2>4. strand' \in Seq(Tasks)
    BY <2>1, TakeKeepsOthers DEF Tasks
  <2>5. TypeOK'
    BY <2>1, <2>4 DEF TypeOK, callVars, strandVars, Continuations
  <2> QED
    BY <2>1, <2>3, <2>5 DEF InOrder, PopIsValid, NothingStranded, NoticeIsLast,
       CleanupAfterClose, ClosingIsClosed, callVars, strandVars
<1>5. CASE RunDrain
  <2>1. /\ Take("drain") /\ closeHandlers' = closeHandlers + 1
        /\ running' = IF closed THEN "CloseOnExecutor" ELSE "Drain"
        /\ UNCHANGED <<callVars, writeActive, reading, timer, socketOpen, cleanups,
                       wire, ran, thread, drains>>
    BY <1>5 DEF RunDrain
  <2>2. strand' \in Seq(Tasks) /\ (Coming("close")' => Coming("close"))
    BY <2>1, TakeKeepsOthers DEF Tasks
  <2>3. TypeOK'
    BY <2>1, <2>2 DEF TypeOK, callVars, Continuations
  <2> QED
    BY <2>1, <2>2, <2>3 DEF InOrder, PopIsValid, NothingStranded, NoticeIsLast,
       CleanupAfterClose, ClosingIsClosed, callVars
<1> QED BY <1>1, <1>2, <1>3, <1>4, <1>5

\* The rest of a running handler.
LEMMA HandlerInv ==
    ASSUME SessionInv, Drain \/ StartWrite \/ CloseInPlace \/ CloseOnExecutor
    PROVE  SessionInv'
<1> USE DEF SessionInv
<1>1. UNCHANGED <<strand, thread>>
  BY DEF Drain, StartWrite, CloseInPlace, CloseOnExecutor
<1>2. \A u \in Tasks : Coming(u)' <=> Coming(u)
  BY <1>1 DEF Coming
<1>3. CASE Drain
  <2>1. TypeOK'
    BY <1>3 DEF Drain, TypeOK, Continuations
  <2> QED
    BY <1>2, <1>3, <2>1 DEF Drain, InOrder, PopIsValid, NothingStranded, NoticeIsLast,
       CleanupAfterClose, ClosingIsClosed, Tasks
<1>4. CASE StartWrite
  <2>1. TypeOK'
    BY <1>4 DEF StartWrite, TypeOK, Continuations, callVars
  <2> QED
    BY <1>2, <1>4, <2>1 DEF StartWrite, InOrder, PopIsValid, NothingStranded, NoticeIsLast,
       CleanupAfterClose, ClosingIsClosed, Tasks, callVars
<1>5. CASE CloseInPlace
  <2>1. TypeOK'
    BY <1>5 DEF CloseInPlace, TypeOK, Continuations, strandVars
  <2> QED
    BY <1>2, <1>5, <2>1 DEF CloseInPlace, InOrder, PopIsValid, NothingStranded, NoticeIsLast,
       CleanupAfterClose, ClosingIsClosed, Tasks, strandVars
<1>6. CASE CloseOnExecutor
  <2>1. closed /\ closed' = closed
    BY <1>6 DEF CloseOnExecutor, ClosingIsClosed
  <2>2. cleanups' = 1
    BY <1>6, <2>1 DEF CloseOnExecutor, CleanupOnce, CleanupAfterClose, TypeOK
  <2>3. TypeOK'
    <3>1. queue' \in Seq(Nat) /\ Len(queue') = 0
      BY <1>6 DEF CloseOnExecutor
    <3>2. Len(queue') <= MaxSendQueue
      BY <3>1, SessionAssumption
    <3>3. ran' \in Nat /\ closeHandlers' \in Nat /\ cleanups' \in Nat
      BY <1>6, <2>2 DEF CloseOnExecutor, TypeOK
    <3> QED BY <1>6, <3>1, <3>2, <3>3 DEF CloseOnExecutor, TypeOK, Continuations
  <2> QED
    BY <1>2, <1>6, <2>1, <2>2, <2>3 DEF CloseOnExecutor, InOrder, PopIsValid,
       NothingStranded, NoticeIsLast, CleanupAfterClose, ClosingIsClosed, Tasks
<1> QED BY <1>3, <1>4, <1>5, <1>6

\* Completions: of a write, of a read, of the drain timer.
LEMMA CompletionInv ==
    ASSUME SessionInv,
           HandleWrite \/ HandleWriteError \/ ReadFails \/ ReadStops \/ DrainTimeout
    PROVE  SessionInv'
<1> USE DEF SessionInv
<1>1. UNCHANGED <<strand, thread, closed, retiring, closeAfter, admitted, notice>>
  BY DEF HandleWrite, HandleWriteError, ReadFails, ReadStops, DrainTimeout, callVars
<1>2. \A u \in Tasks : Coming(u)' <=> Coming(u)
  BY <1>1 DEF Coming
<1>3. CASE HandleWrite /\ closed
  <2>1. TypeOK'
    BY <1>1, <1>3 DEF HandleWrite, TypeOK
  <2> QED
    BY <1>1, <1>2, <1>3, <2>1 DEF HandleWrite, InOrder, PopIsValid, NothingStranded,
       NoticeIsLast, CleanupAfterClose, ClosingIsClosed, Tasks
<1>4. CASE HandleWrite /\ ~closed
  <2>1. /\ queue # <<>> /\ queue' = Tail(queue) /\ wire' = Append(wire, Head(queue))
        /\ running' \in {"Close", "StartWrite"} /\ writeActive' = FALSE
        /\ queue \in Seq(Nat) /\ wire \in Seq(Nat)
        /\ UNCHANGED <<reading, timer, socketOpen, cleanups, closeHandlers, ran, drains>>
    BY <1>4 DEF HandleWrite, PopIsValid, TypeOK, AfterPop
  <2>2. /\ Len(queue) \in Nat /\ Len(queue) > 0 /\ Len(wire) \in Nat /\ admitted \in Nat
        /\ Len(wire) + Len(queue) = admitted /\ queue[1] = Len(wire) + 1
        /\ \A i \in 1..Len(queue) : queue[i] = Len(wire) + i
        /\ \A i \in 1..Len(wire) : wire[i] = i
    BY <1>4, <2>1 DEF InOrder, TypeOK
  <2>3. /\ queue' \in Seq(Nat) /\ Len(queue') = Len(queue) - 1
        /\ \A i \in 1..Len(queue') : queue'[i] = queue[i + 1] /\ i + 1 \in 1..Len(queue)
    BY <2>1, <2>2
  <2>4. /\ wire' \in Seq(Nat) /\ Len(wire') = Len(wire) + 1
        /\ wire'[Len(wire) + 1] = Len(wire) + 1
        /\ \A i \in 1..Len(wire) : wire'[i] = wire[i]
    BY <2>1, <2>2
  <2>5. /\ \A i \in 1..Len(wire') : wire'[i] = i
        /\ \A i \in 1..Len(queue') : queue'[i] = Len(wire') + i
        /\ Len(wire') + Len(queue') = admitted /\ Len(wire') <= admitted
    <3>1. ASSUME NEW i \in 1..Len(wire') PROVE wire'[i] = i
      <4>1. CASE i = Len(wire) + 1
        BY <4>1, <2>4
      <4>2. CASE i # Len(wire) + 1
        <5>1. i \in 1..Len(wire)
          BY <4>2, <2>2, <2>4
        <5> QED BY <5>1, <2>2, <2>4
      <4> QED BY <4>1, <4>2
    <3>2. ASSUME NEW i \in 1..Len(queue') PROVE queue'[i] = Len(wire') + i
      <4>1. queue'[i] = Len(wire) + (i + 1)
        BY <2>2, <2>3
      <4> QED BY <4>1, <2>2, <2>4
    <3>3. Len(wire') + Len(queue') = admitted /\ Len(wire') <= admitted
      <4>1. /\ Len(queue) \in Nat /\ Len(queue) > 0 /\ Len(wire) \in Nat
            /\ Len(wire) + Len(queue) = admitted
        BY <2>2
      <4>2. Len(queue') = Len(queue) - 1 /\ Len(wire') = Len(wire) + 1
        BY <2>3, <2>4
      <4> QED BY <4>1, <4>2
    <3> QED BY <3>1, <3>2, <3>3
  <2>6. Len(queue') <= MaxSendQueue
    <3>1. Len(queue) <= MaxSendQueue /\ MaxSendQueue \in Nat
      BY SessionAssumption DEF TypeOK
    <3>2. Len(queue') = Len(queue) - 1 /\ Len(queue) \in Nat
      BY <2>2, <2>3
    <3> QED BY <3>1, <3>2
  <2>7. InOrder'
    BY <1>1, <2>5, <2>6 DEF InOrder
  <2>8. TypeOK'
    BY <1>1, <2>1, <2>3, <2>4, <2>6 DEF TypeOK, Continuations
  <2> QED
    BY <1>1, <1>2, <1>4, <2>1, <2>7, <2>8 DEF PopIsValid, NothingStranded,
       NoticeIsLast, CleanupAfterClose, ClosingIsClosed, Tasks
<1>5. CASE HandleWriteError \/ ReadFails \/ ReadStops \/ DrainTimeout
  <2>1. TypeOK'
    BY <1>1, <1>5 DEF HandleWriteError, ReadFails, ReadStops, DrainTimeout, TypeOK,
       Continuations, callVars
  <2>2. /\ UNCHANGED <<queue, wire, socketOpen, cleanups>>
        /\ running = "none" /\ (running' = "Close" \/ (running' = running /\ (closed \/ UNCHANGED writeActive)))
        /\ writeActive' => writeActive
    BY <1>5 DEF HandleWriteError, ReadFails, ReadStops, DrainTimeout, callVars
  <2> QED
    BY <1>1, <1>2, <2>1, <2>2 DEF InOrder, PopIsValid, NothingStranded,
       NoticeIsLast, CleanupAfterClose, ClosingIsClosed, Tasks
<1> QED BY <1>3, <1>4, <1>5

\* SessionInv is an invariant of every connection.
THEOREM SessionInvariant == Spec => []SessionInv
<1>1. SessionInv /\ [Next]_vars => SessionInv'
  <2> SUFFICES ASSUME SessionInv, [Next]_vars PROVE SessionInv'
    OBVIOUS
  <2>1. CASE \E p \in Threads : Send(p) \/ SendRealtime(p) \/ NotifyOffline(p)
    BY <2>1, AdmitInv DEF Send, SendRealtime, NotifyOffline
  <2>2. CASE \E p \in Threads : Overload(p) \/ CallClose(p) \/ ThreadStep(p)
    BY <2>2, ThreadInv DEF ThreadStep
  <2>3. CASE CallDrain \/ StrandStep
    BY <2>3, TaskInv, HandlerInv DEF StrandStep
  <2>4. CASE HandleWrite \/ HandleWriteError \/ ReadFails \/ ReadStops \/ DrainTimeout
    BY <2>4, CompletionInv
  <2>5. CASE UNCHANGED vars
    BY <2>5 DEF SessionInv, TypeOK, InOrder, PopIsValid, NothingStranded, NoticeIsLast,
       CleanupAfterClose, ClosingIsClosed, Coming, vars, callVars, strandVars
  <2> QED BY <2>1, <2>2, <2>3, <2>4, <2>5 DEF Next
<1> QED BY <1>1, InitInv, PTL DEF Spec

\* The types of a connection's state, and with them the bound of its queue
\* (MAX_SENDQUE), are kept by any number of threads.
THEOREM SessionTypes == Spec => []TypeOK
BY SessionInvariant, PTL DEF SessionInv

\* Completed writes are the admitted messages in order, without gap or repetition.
THEOREM WritesInOrder == Spec => []InOrder
BY SessionInvariant, PTL DEF SessionInv

\* HandleWrite never pops an empty queue.
THEOREM PopsAreValid == Spec => []PopIsValid
BY SessionInvariant, PTL DEF SessionInv

\* A waiting message of an open connection always has a writer coming.
THEOREM MessagesHaveWriters == Spec => []NothingStranded
BY SessionInvariant, PTL DEF SessionInv

\* Nothing is admitted after the final notice of NotifyOffline.
THEOREM FinalNoticeIsLast == Spec => []NoticeIsLast
BY SessionInvariant, PTL DEF SessionInv

\* The cleanup starts exactly once, when the socket has been closed.
THEOREM CleanupStartsOnce == Spec => []CleanupAfterClose
BY SessionInvariant, PTL DEF SessionInv

\* The sending side of the connection implements the ordered outbox.
THEOREM SessionIsOrderedOutbox == Spec => SendsInOrder
<1>1. Init => Outbox!OutboxInit
  BY DEF Init, Outbox!OutboxInit
<1>2. SessionInv /\ [Next]_vars => [Outbox!OutboxNext]_(Outbox!outbox)
  <2> SUFFICES ASSUME SessionInv, [Next]_vars PROVE [Outbox!OutboxNext]_(Outbox!outbox)
    OBVIOUS
  <2> USE DEF Outbox!OutboxNext, Outbox!outbox, SessionInv
  <2>1. ASSUME NEW p \in Threads, NEW final \in BOOLEAN, Admit(p, final)
        PROVE  Outbox!Admit
    BY <2>1 DEF Admit, Admitting, Outbox!Admit, strandVars
  <2>2. CASE \E p \in Threads : Send(p) \/ SendRealtime(p) \/ NotifyOffline(p)
    BY <2>1, <2>2 DEF Send, SendRealtime, NotifyOffline
  <2>3. CASE (\E p \in Threads : ExchangeClosed(p)) \/ CloseInPlace
    BY <2>3 DEF ExchangeClosed, CloseInPlace, Outbox!Cut, strandVars
  <2>4. CASE Drain
    BY <2>4 DEF Drain, Outbox!Shut, Outbox!Cut
  <2>5. CASE HandleWrite
    <3>1. CASE closed
      BY <2>5, <3>1 DEF HandleWrite
    <3>2. CASE ~closed
      <4>1. /\ wire \in Seq(Nat) /\ queue \in Seq(Nat) /\ queue # <<>>
            /\ wire' = Append(wire, Head(queue))
            /\ UNCHANGED <<closed, closeAfter, admitted>>
        BY <2>5, <3>2 DEF HandleWrite, PopIsValid, TypeOK
      <4>2. Len(wire') = Len(wire) + 1 /\ Len(wire) < admitted
        BY <3>2, <4>1 DEF InOrder, TypeOK
      <4> QED BY <3>2, <4>1, <4>2 DEF Outbox!Deliver
    <3> QED BY <3>1, <3>2
  <2>6. CASE \E p \in Threads : Overload(p) \/ CallClose(p) \/ Post(p)
    BY <2>6 DEF Overload, CallClose, Post, callVars, strandVars
  <2>7. CASE CallDrain \/ RunStart \/ RunWrite \/ RunArmWrite \/ RunClose \/ RunDrain
    BY <2>7 DEF CallDrain, RunStart, RunWrite, RunArmWrite, RunClose, RunDrain, callVars, strandVars
  <2>8. CASE StartWrite \/ CloseOnExecutor
    BY <2>8 DEF StartWrite, CloseOnExecutor, callVars
  <2>9. CASE HandleWriteError \/ ReadFails \/ ReadStops \/ DrainTimeout
    BY <2>9 DEF HandleWriteError, ReadFails, ReadStops, DrainTimeout, callVars
  <2>10. CASE UNCHANGED vars
    BY <2>10 DEF vars, callVars, strandVars
  <2> QED
    BY <2>2, <2>3, <2>4, <2>5, <2>6, <2>7, <2>8, <2>9, <2>10 DEF Next, ThreadStep, StrandStep
<1> QED BY <1>1, <1>2, SessionInvariant, PTL DEF Spec, SendsInOrder, Outbox!OutboxSpec

--------------------------------------------------------------------------------
\* That a close under way is never forgotten: what the runs' RetiringCloses and
\* DrainsReturn need besides fairness.

\* A connection with closed_ set and its socket open has CloseOnExecutor coming.
ClosingIsTended == closed /\ socketOpen => running = "CloseOnExecutor" \/ Coming("close")

\* A retiring connection that is not yet closed has its deadline armed, or the
\* task that arms it is coming, or Close is running.
RetiringIsTended ==
    retiring /\ ~closed => timer \/ running = "Close" \/ Coming("armWrite")

\* A waiting on_closed callback belongs to a connection that is still to be
\* closed physically and that retires or is about to, or to a close now running.
HandlersAreTended ==
    closeHandlers > 0 =>
        running = "CloseOnExecutor" \/ (socketOpen /\ (retiring \/ running = "Drain"))

\* The places of a sequence of tasks that hold a drain.
DrainsIn(s) == {i \in 1..Len(s) : s[i] = "drain"}

\* Each call of DrainAndClose is one task in the strand, one waiting callback or
\* one callback that ran.
CallbacksAreKept == drains = ran + closeHandlers + Cardinality(DrainsIn(strand))

ClosesAreTended ==
    ClosingIsTended /\ RetiringIsTended /\ HandlersAreTended /\ CallbacksAreKept

\* The drains in a sequence are finitely many.
LEMMA DrainsAreFinite ==
    ASSUME NEW s \in Seq(Tasks)
    PROVE  IsFiniteSet(DrainsIn(s)) /\ Cardinality(DrainsIn(s)) \in Nat
<1>1. IsFiniteSet(1..Len(s))
  BY FS_Interval
<1>2. DrainsIn(s) \in SUBSET (1..Len(s))
  BY DEF DrainsIn
<1>3. IsFiniteSet(DrainsIn(s))
  BY <1>1, <1>2, FS_Subset
<1> QED BY <1>3, FS_CardinalityType

\* A task posted at the end counts if it is a drain.
LEMMA DrainsOfAppend ==
    ASSUME NEW s \in Seq(Tasks), NEW t \in Tasks
    PROVE  Cardinality(DrainsIn(Append(s, t)))
             = IF t = "drain" THEN Cardinality(DrainsIn(s)) + 1 ELSE Cardinality(DrainsIn(s))
<1>1. PICK r : r = Append(s, t)
  OBVIOUS
<1>2. /\ Len(r) = Len(s) + 1 /\ Len(s) \in Nat /\ r[Len(s) + 1] = t
      /\ \A i \in 1..Len(s) : r[i] = s[i]
  BY <1>1
<1>3. CASE t = "drain"
  <2>1. DrainsIn(r) = DrainsIn(s) \cup {Len(s) + 1} /\ Len(s) + 1 \notin DrainsIn(s)
    BY <1>2, <1>3 DEF DrainsIn
  <2>2. Cardinality(DrainsIn(s) \cup {Len(s) + 1}) = Cardinality(DrainsIn(s)) + 1
    BY <2>1, DrainsAreFinite, FS_AddElement
  <2> QED BY <1>1, <1>3, <2>1, <2>2
<1>4. CASE t # "drain"
  <2>1. DrainsIn(r) = DrainsIn(s)
    BY <1>2, <1>4 DEF DrainsIn
  <2> QED BY <1>1, <1>4, <2>1
<1> QED BY <1>3, <1>4

\* A task taken from the head counted if it was a drain.
LEMMA DrainsOfTail ==
    ASSUME NEW s \in Seq(Tasks), s # <<>>
    PROVE  Cardinality(DrainsIn(s))
             = IF s[1] = "drain" THEN Cardinality(DrainsIn(Tail(s))) + 1
               ELSE Cardinality(DrainsIn(Tail(s)))
<1>1. PICK r : r = Tail(s)
  OBVIOUS
<1>2. /\ r \in Seq(Tasks) /\ Len(r) = Len(s) - 1 /\ Len(s) \in Nat /\ Len(s) > 0
      /\ \A i \in 1..Len(r) : r[i] = s[i + 1]
  BY <1>1
<1> DEFINE D == DrainsIn(r)
           E == DrainsIn(s) \ {1}
           shift == [i \in D |-> i + 1]
<1>3. shift \in Bijection(D, E)
  <2>1. shift \in [D -> E]
    BY <1>2 DEF DrainsIn
  <2>2. \A a, b \in D : shift[a] = shift[b] => a = b
    BY <1>2 DEF DrainsIn
  <2>3. ASSUME NEW e \in E PROVE \E d \in D : shift[d] = e
    <3>1. e \in 1..Len(s) /\ e # 1 /\ s[e] = "drain"
      BY DEF DrainsIn
    <3>2. e - 1 \in 1..Len(r) /\ (e - 1) + 1 = e
      BY <3>1, <1>2
    <3>3. e - 1 \in D
      BY <3>1, <3>2, <1>2 DEF DrainsIn
    <3> QED BY <3>2, <3>3
  <2> HIDE DEF shift, D, E
  <2> QED BY <2>1, <2>2, <2>3, Fun_IsBij
<1>4. IsFiniteSet(D)
  BY <1>2, DrainsAreFinite
<1>5. Cardinality(E) = Cardinality(D)
  <2> HIDE DEF shift, D, E
  <2>1. ExistsBijection(D, E)
    BY <1>3 DEF ExistsBijection
  <2> QED BY <2>1, <1>4, FS_Bijection
<1>6. /\ IsFiniteSet(DrainsIn(s)) /\ Cardinality(DrainsIn(s)) \in Nat
      /\ 1 \in DrainsIn(s) <=> s[1] = "drain"
  BY <1>2, DrainsAreFinite DEF DrainsIn
<1>7. Cardinality(E) = IF 1 \in DrainsIn(s) THEN Cardinality(DrainsIn(s)) - 1
                       ELSE Cardinality(DrainsIn(s))
  BY <1>6, FS_RemoveElement
<1> HIDE DEF shift, D, E
<1>8. Cardinality(DrainsIn(s)) = IF s[1] = "drain" THEN Cardinality(D) + 1 ELSE Cardinality(D)
  BY <1>5, <1>6, <1>7
<1> QED BY <1>1, <1>8 DEF D

\* The calling threads.
LEMMA ThreadsTend ==
    ASSUME SessionInv, ClosesAreTended, NEW p \in Threads,
           \/ Send(p) \/ SendRealtime(p) \/ NotifyOffline(p)
           \/ Overload(p) \/ CallClose(p) \/ ThreadStep(p)
    PROVE  ClosesAreTended'
<1> USE DEF SessionInv, ClosesAreTended
<1>1. ASSUME NEW final \in BOOLEAN, Admit(p, final) PROVE ClosesAreTended'
  <2>1. ~closed /\ ~closed' /\ UNCHANGED <<strandVars, strand, running, drains>>
    BY <1>1 DEF Admit, Admitting
  <2>2. CASE final
    <3>1. thread'[p] = "armWrite" /\ retiring' = TRUE
      BY <1>1, <2>2 DEF Admit, TypeOK
    <3>2. Coming("armWrite")'
      BY <3>1 DEF Coming
    <3> QED
      BY <2>1, <3>1, <3>2 DEF ClosingIsTended, RetiringIsTended, HandlersAreTended,
         CallbacksAreKept, strandVars
  <2>3. CASE ~final
    <3>1. /\ \A q \in Threads : thread[q] = "armWrite" => thread'[q] = "armWrite"
          /\ retiring' = retiring
      BY <1>1, <2>3 DEF Admit, TypeOK
    <3>2. Coming("armWrite") => Coming("armWrite")'
      BY <2>1, <3>1 DEF Coming
    <3> QED
      BY <2>1, <3>1, <3>2 DEF ClosingIsTended, RetiringIsTended, HandlersAreTended,
         CallbacksAreKept, strandVars
  <2> QED BY <2>2, <2>3
<1>2. CASE Send(p) \/ SendRealtime(p) \/ NotifyOffline(p)
  BY <1>1, <1>2 DEF Send, SendRealtime, NotifyOffline
<1>3. CASE Overload(p) \/ CallClose(p)
  <2>1. /\ UNCHANGED <<callVars, strandVars, strand, running, drains>>
        /\ \A q \in Threads : thread[q] \in Tasks => thread'[q] = thread[q]
    BY <1>3 DEF Overload, CallClose, TypeOK, Tasks
  <2>2. /\ Coming("close") => Coming("close")'
        /\ Coming("armWrite") => Coming("armWrite")'
    BY <2>1 DEF Coming, Tasks
  <2> QED
    BY <2>1, <2>2 DEF ClosingIsTended, RetiringIsTended, HandlersAreTended,
       CallbacksAreKept, callVars, strandVars
<1>4. CASE Post(p)
  <2>1. UNCHANGED <<callVars, strandVars, running, drains>>
    BY <1>4 DEF Post
  <2>2. /\ Coming("close") => Coming("close")'
        /\ Coming("armWrite") => Coming("armWrite")'
    BY <1>4, PostKeepsComing DEF Tasks
  <2>3. Cardinality(DrainsIn(strand')) = Cardinality(DrainsIn(strand))
    <3>1. /\ strand \in Seq(Tasks) /\ strand' = Append(strand, thread[p])
          /\ thread[p] \in Tasks /\ thread[p] # "drain"
      BY <1>4 DEF Post, TypeOK, Tasks
    <3> QED BY <3>1, DrainsOfAppend
  <2> QED
    BY <2>1, <2>2, <2>3 DEF ClosingIsTended, RetiringIsTended, HandlersAreTended,
       CallbacksAreKept, callVars, strandVars
<1>5. CASE ExchangeClosed(p)
  <2>1. /\ UNCHANGED <<retiring, strandVars, strand, running, drains>> /\ closed' = TRUE
        /\ ~closed => thread'[p] = "close"
        /\ \A q \in Threads : thread[q] = "close" => thread'[q] = "close"
    BY <1>5 DEF ExchangeClosed, TypeOK
  <2>2. /\ Coming("close") => Coming("close")'
        /\ ~closed => Coming("close")'
    BY <2>1 DEF Coming
  <2> QED
    BY <2>1, <2>2 DEF ClosingIsTended, RetiringIsTended, HandlersAreTended,
       CallbacksAreKept, strandVars
<1> QED BY <1>2, <1>3, <1>4, <1>5 DEF ThreadStep

\* The call of DrainAndClose and the tasks of the strand.
LEMMA TasksTend ==
    ASSUME SessionInv, ClosesAreTended,
           CallDrain \/ RunStart \/ RunWrite \/ RunArmWrite \/ RunClose \/ RunDrain
    PROVE  ClosesAreTended'
<1> USE DEF SessionInv, ClosesAreTended
<1>1. CASE CallDrain
  <2>1. /\ UNCHANGED <<callVars, strandVars, running, thread>> /\ drains' = drains + 1
        /\ strand \in Seq(Tasks) /\ strand' = Append(strand, "drain") /\ "drain" \in Tasks
    BY <1>1 DEF CallDrain, TypeOK, Tasks
  <2>2. /\ Cardinality(DrainsIn(strand')) = Cardinality(DrainsIn(strand)) + 1
        /\ Cardinality(DrainsIn(strand)) \in Nat
    BY <2>1, DrainsOfAppend, DrainsAreFinite
  <2>3. CallbacksAreKept'
    BY <2>1, <2>2 DEF CallbacksAreKept, strandVars, TypeOK
  <2>4. \A i \in 1..Len(strand) : strand'[i] = strand[i] /\ i \in 1..Len(strand')
    BY <2>1
  <2>5. /\ Coming("close") => Coming("close")'
        /\ Coming("armWrite") => Coming("armWrite")'
    BY <2>1, <2>4 DEF Coming
  <2> QED
    BY <2>1, <2>3, <2>5 DEF ClosingIsTended, RetiringIsTended, HandlersAreTended,
       callVars, strandVars
<1>2. ASSUME NEW t \in Tasks, Take(t), UNCHANGED <<callVars, thread>>
      PROVE  /\ t # "close" /\ Coming("close") => Coming("close")'
             /\ t # "armWrite" /\ Coming("armWrite") => Coming("armWrite")'
             /\ Cardinality(DrainsIn(strand)) = IF t = "drain" THEN Cardinality(DrainsIn(strand')) + 1
                                                ELSE Cardinality(DrainsIn(strand'))
             /\ Cardinality(DrainsIn(strand')) \in Nat
             /\ running = "none"
  <2>1. /\ strand \in Seq(Tasks) /\ strand # <<>> /\ strand[1] = t /\ strand' = Tail(strand)
        /\ strand' \in Seq(Tasks) /\ running = "none"
    BY <1>2 DEF Take, TypeOK
  <2>2. /\ t # "close" /\ Coming("close") => Coming("close")'
        /\ t # "armWrite" /\ Coming("armWrite") => Coming("armWrite")'
    BY <1>2, TakeKeepsOthers DEF Tasks
  <2> QED BY <2>1, <2>2, DrainsOfTail, DrainsAreFinite
<1>3. CASE RunStart
  <2>1. /\ Take("start") /\ "start" \in Tasks
        /\ UNCHANGED <<callVars, timer, socketOpen, closeHandlers, ran, running, thread, drains>>
    BY <1>3 DEF RunStart, Tasks
  <2>2. /\ Coming("close") => Coming("close")'
        /\ Coming("armWrite") => Coming("armWrite")'
        /\ Cardinality(DrainsIn(strand)) = Cardinality(DrainsIn(strand'))
    BY <2>1, <1>2
  <2> QED
    BY <2>1, <2>2 DEF ClosingIsTended, RetiringIsTended, HandlersAreTended,
       CallbacksAreKept, callVars
<1>4. CASE RunWrite
  <2>1. /\ Take("write") /\ "write" \in Tasks /\ running' = "StartWrite"
        /\ UNCHANGED <<callVars, strandVars, thread, drains>>
    BY <1>4 DEF RunWrite, Tasks
  <2>2. /\ Coming("close") => Coming("close")'
        /\ Coming("armWrite") => Coming("armWrite")'
        /\ Cardinality(DrainsIn(strand)) = Cardinality(DrainsIn(strand')) /\ running = "none"
    BY <2>1, <1>2
  <2> QED
    BY <2>1, <2>2 DEF ClosingIsTended, RetiringIsTended, HandlersAreTended,
       CallbacksAreKept, callVars, strandVars
<1>5. CASE RunArmWrite
  <2>1. /\ Take("armWrite") /\ "armWrite" \in Tasks /\ running' = "StartWrite"
        /\ timer' = (timer \/ ~closed)
        /\ UNCHANGED <<callVars, socketOpen, closeHandlers, ran, thread, drains>>
    BY <1>5 DEF RunArmWrite, Tasks
  <2>2. /\ Coming("close") => Coming("close")'
        /\ Cardinality(DrainsIn(strand)) = Cardinality(DrainsIn(strand')) /\ running = "none"
    BY <2>1, <1>2
  <2> QED
    BY <2>1, <2>2 DEF ClosingIsTended, RetiringIsTended, HandlersAreTended,
       CallbacksAreKept, callVars
<1>6. CASE RunClose
  <2>1. /\ Take("close") /\ "close" \in Tasks /\ running' = "CloseOnExecutor"
        /\ UNCHANGED <<callVars, strandVars, thread, drains>>
    BY <1>6 DEF RunClose, Tasks
  <2>2. /\ Coming("armWrite") => Coming("armWrite")'
        /\ Cardinality(DrainsIn(strand)) = Cardinality(DrainsIn(strand')) /\ running = "none"
    BY <2>1, <1>2
  <2> QED
    BY <2>1, <2>2 DEF ClosingIsTended, RetiringIsTended, HandlersAreTended,
       CallbacksAreKept, callVars, strandVars
<1>7. CASE RunDrain
  <2>1. /\ Take("drain") /\ "drain" \in Tasks /\ closeHandlers' = closeHandlers + 1
        /\ running' = IF closed THEN "CloseOnExecutor" ELSE "Drain"
        /\ UNCHANGED <<callVars, timer, socketOpen, ran, thread, drains>>
    BY <1>7 DEF RunDrain, Tasks
  <2>2. /\ Coming("close") => Coming("close")'
        /\ Coming("armWrite") => Coming("armWrite")'
        /\ Cardinality(DrainsIn(strand)) = Cardinality(DrainsIn(strand')) + 1
        /\ Cardinality(DrainsIn(strand')) \in Nat /\ running = "none"
    BY <2>1, <1>2
  <2>3. CallbacksAreKept'
    BY <2>1, <2>2 DEF CallbacksAreKept, TypeOK
  <2>4. socketOpen \/ closed
    BY DEF CleanupAfterClose
  <2> QED
    BY <2>1, <2>2, <2>3, <2>4 DEF ClosingIsTended, RetiringIsTended, HandlersAreTended, callVars
<1> QED BY <1>1, <1>3, <1>4, <1>5, <1>6, <1>7

\* The rest of a handler, and the completions.
LEMMA HandlersTend ==
    ASSUME SessionInv, ClosesAreTended,
           \/ Drain \/ StartWrite \/ CloseInPlace \/ CloseOnExecutor
           \/ HandleWrite \/ HandleWriteError \/ ReadFails \/ ReadStops \/ DrainTimeout
    PROVE  ClosesAreTended'
<1> USE DEF SessionInv, ClosesAreTended
<1>1. UNCHANGED <<strand, thread, drains>>
  BY DEF Drain, StartWrite, CloseInPlace, CloseOnExecutor, HandleWrite, HandleWriteError,
     ReadFails, ReadStops, DrainTimeout
<1>2. /\ Coming("close")' <=> Coming("close")
      /\ Coming("armWrite")' <=> Coming("armWrite")
      /\ Cardinality(DrainsIn(strand')) = Cardinality(DrainsIn(strand))
  BY <1>1 DEF Coming
<1>3. CASE CloseOnExecutor
  <2>1. Cardinality(DrainsIn(strand)) \in Nat
    BY DrainsAreFinite DEF TypeOK
  <2>2. /\ ran' = ran + closeHandlers /\ closeHandlers' = 0 /\ ~socketOpen'
        /\ ran \in Nat /\ closeHandlers \in Nat
    BY <1>3 DEF CloseOnExecutor, TypeOK
  <2>3. closed'
    BY <1>3 DEF CloseOnExecutor, ClosingIsClosed
  <2>4. CallbacksAreKept'
    BY <1>1, <1>2, <2>1, <2>2 DEF CallbacksAreKept
  <2> QED
    BY <2>2, <2>3, <2>4 DEF ClosingIsTended, RetiringIsTended, HandlersAreTended
<1>4. CASE Drain
  <2>1. /\ UNCHANGED <<closed, socketOpen, closeHandlers, ran>> /\ retiring' = TRUE
        /\ running = "Drain" /\ running' # "CloseOnExecutor"
        /\ ~closed => timer' \/ running' = "Close"
    BY <1>4 DEF Drain, TypeOK
  <2> QED
    BY <1>1, <1>2, <2>1 DEF ClosingIsTended, RetiringIsTended, HandlersAreTended,
       CallbacksAreKept
<1>5. CASE StartWrite \/ CloseInPlace
  <2>1. /\ UNCHANGED <<retiring, timer, socketOpen, closeHandlers, ran>>
        /\ running \in {"StartWrite", "Close"}
        /\ closed' => (closed \/ running' = "CloseOnExecutor")
        /\ running = "Close" => closed'
    BY <1>5 DEF StartWrite, CloseInPlace, callVars, strandVars
  <2>2. closed => closed'
    BY <1>5 DEF StartWrite, CloseInPlace, callVars
  <2> QED
    BY <1>1, <1>2, <2>1, <2>2 DEF ClosingIsTended, RetiringIsTended, HandlersAreTended,
       CallbacksAreKept
<1>6. CASE HandleWrite \/ HandleWriteError \/ ReadFails \/ ReadStops \/ DrainTimeout
  <2>1. /\ UNCHANGED <<closed, retiring, socketOpen, closeHandlers, ran>>
        /\ running = "none" /\ (timer => timer' \/ running' = "Close")
    BY <1>6 DEF HandleWrite, HandleWriteError, ReadFails, ReadStops, DrainTimeout, callVars
  <2> QED
    BY <1>1, <1>2, <2>1 DEF ClosingIsTended, RetiringIsTended, HandlersAreTended,
       CallbacksAreKept
<1> QED BY <1>3, <1>4, <1>5, <1>6

\* A retirement or a close once begun always has the task, the deadline or the
\* handler under way that ends it, and no caller of DrainAndClose is forgotten:
\* its callback ran, waits for that end, or is still to be registered.
THEOREM ClosesGoOn == Spec => []ClosesAreTended
<1>1. Init => ClosesAreTended
  <2> SUFFICES ASSUME Init PROVE ClosesAreTended
    OBVIOUS
  <2>1. strand = <<"start">> /\ Len(strand) = 1 /\ strand[1] = "start"
    BY DEF Init
  <2>2. DrainsIn(strand) = {}
    BY <2>1 DEF DrainsIn
  <2>3. Cardinality(DrainsIn(strand)) = 0
    BY <2>2, FS_EmptySet
  <2>4. CallbacksAreKept
    BY <2>3 DEF CallbacksAreKept, Init
  <2> QED
    BY <2>4 DEF Init, ClosesAreTended, ClosingIsTended, RetiringIsTended, HandlersAreTended
<1>2. SessionInv /\ ClosesAreTended /\ [Next]_vars => ClosesAreTended'
  <2> SUFFICES ASSUME SessionInv, ClosesAreTended, [Next]_vars PROVE ClosesAreTended'
    OBVIOUS
  <2>1. CASE UNCHANGED vars
    BY <2>1 DEF ClosesAreTended, ClosingIsTended, RetiringIsTended, HandlersAreTended,
       CallbacksAreKept, Coming, vars, callVars, strandVars
  <2> QED BY <2>1, ThreadsTend, TasksTend, HandlersTend DEF Next, StrandStep
<1> QED BY <1>1, <1>2, SessionInvariant, PTL DEF Spec
=============================================================================
