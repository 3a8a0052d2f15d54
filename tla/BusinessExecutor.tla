--------------------------- MODULE BusinessExecutor ---------------------------
(***************************************************************************)
(* ChatServerShared/BusinessExecutor.cpp: a bounded executor with one FIFO *)
(* lane and one worker thread per lane.  A connection key always hashes to *)
(* the same lane.  Every critical section of mutex_ is one action; what    *)
(* the code does outside the mutex (running a task, notifying a condition  *)
(* variable, joining a worker) is an action of its own.                    *)
(*                                                                         *)
(* Tasks are numbered in the order they are accepted.  The lifecycle owner *)
(* either calls Stop() directly (LogicSystem, CServer::StopTimer, the      *)
(* destructor) or BeginStop, WaitIdleUntil and Stop(drained)               *)
(* (CServer::StopCleanup).  `accepted', `finished' and `discarded' are     *)
(* history variables: no guard reads them.                                 *)
(***************************************************************************)
EXTENDS Naturals, Sequences, FiniteSets

CONSTANTS
    Keys,        \* connection keys
    Lanes,       \* worker lanes
    LaneOf,      \* std::hash(key) % lanes_.size(), fixed for the whole run
    QueueLimit,  \* queue_limit_
    NoTask,      \* the worker of a lane runs nothing
    MaxTasks,    \* bound: accepted tasks in a behaviour
    MaxRejected  \* bound: rejected submissions counted

ASSUME ConstantsAssumption ==
    /\ LaneOf \in [Keys -> Lanes]
    /\ QueueLimit \in Nat \ {0}
    /\ MaxTasks \in Nat
    /\ MaxRejected \in Nat
    /\ NoTask \notin Nat
    /\ IsFiniteSet(Lanes)

VARIABLES
    accepting,  \* accepting_
    tasks,      \* tasks[l]: lane.tasks, as task numbers
    running,    \* running[l]: the task popped by the lane's worker, or NoTask
    worker,     \* worker[l]: "awake", "waiting" on lane.ready, or "exited"
    metrics,    \* metrics_ without the latency sums
    owner,      \* where the lifecycle owner is
    drain,      \* the argument of the Stop in progress
    accepted,   \* history: accepted[i] is the key of task i
    finished,   \* history: tasks whose run returned or threw
    discarded   \* history: tasks dropped by Stop(false)

vars == <<accepting, tasks, running, worker, metrics, owner, drain,
          accepted, finished, discarded>>

MetricNames == {"queued", "active", "high_water", "completed", "rejected", "failed"}

OwnerSteps == {"serving", "begun", "waitIdle", "blockedIdle", "stopping", "notifying",
               "joining", "stopped"}

\* The tasks waiting in the lanes.
Waiting == {i \in 1..Len(accepted) :
              \E l \in Lanes : \E n \in DOMAIN tasks[l] : tasks[l][n] = i}

Busy == {l \in Lanes : running[l] # NoTask}

Init ==
    /\ accepting = TRUE
    /\ tasks = [l \in Lanes |-> <<>>]
    /\ running = [l \in Lanes |-> NoTask]
    /\ worker = [l \in Lanes |-> "awake"]
    /\ metrics = [m \in MetricNames |-> 0]
    /\ owner = "serving"
    /\ drain = TRUE
    /\ accepted = <<>>
    /\ finished = {}
    /\ discarded = {}

--------------------------------------------------------------------------------
\* Producers: any thread, at any time.

Full == metrics["queued"] >= QueueLimit

\* lane.ready.notify_one() / notify_all(): the only waiter of a lane's
\* condition variable is that lane's worker.
NotifyLane(w, l) == [w EXCEPT ![l] = IF @ = "waiting" THEN "awake" ELSE @]

NotifyAllLanes(w) == [l \in Lanes |-> IF w[l] = "waiting" THEN "awake" ELSE w[l]]

\* Faulty variant: the task is pushed to any lane, not to the key's own.
SubmitAnyLane(k) ==
    /\ Len(accepted) < MaxTasks
    /\ accepting /\ ~Full
    /\ \E l \in Lanes :
         /\ tasks' = [tasks EXCEPT ![l] = Append(@, Len(accepted) + 1)]
         /\ worker' = NotifyLane(worker, l)
    /\ metrics' = [metrics EXCEPT !["queued"] = @ + 1]
    /\ accepted' = Append(accepted, k)
    /\ UNCHANGED <<accepting, running, owner, drain, finished, discarded>>

\* Faulty variant: the worker of the lane is not notified.
SubmitSilently(k) ==
    /\ Len(accepted) < MaxTasks
    /\ accepting /\ ~Full
    /\ tasks' = [tasks EXCEPT ![LaneOf[k]] = Append(@, Len(accepted) + 1)]
    /\ metrics' = [metrics EXCEPT !["queued"] = @ + 1]
    /\ accepted' = Append(accepted, k)
    /\ UNCHANGED <<accepting, running, worker, owner, drain, finished, discarded>>

\* Submit, accepted branch: push, count and notify under the mutex.
SubmitAccepted(k) ==
    LET l == LaneOf[k]
        i == Len(accepted) + 1
        q == metrics["queued"] + 1
    IN  /\ Len(accepted) < MaxTasks
        /\ accepting /\ ~Full
        /\ tasks' = [tasks EXCEPT ![l] = Append(@, i)]
        /\ metrics' = [metrics EXCEPT
                !["queued"] = q,
                !["high_water"] = IF @ < q THEN q ELSE @]
        /\ worker' = NotifyLane(worker, l)
        /\ accepted' = Append(accepted, k)
        /\ UNCHANGED <<accepting, running, owner, drain, finished, discarded>>

\* Submit, rejected branch.  The rejection of an empty task is left out: no caller
\* passes one.
SubmitRejected(k) ==
    /\ ~accepting \/ Full
    /\ metrics["rejected"] < MaxRejected
    /\ metrics' = [metrics EXCEPT !["rejected"] = @ + 1]
    /\ UNCHANGED <<accepting, tasks, running, worker, owner, drain,
                   accepted, finished, discarded>>

--------------------------------------------------------------------------------
\* RunLane: the worker thread of lane l.

\* lane.ready.wait: the predicate is false, the worker blocks.
LaneWait(l) ==
    /\ worker[l] = "awake" /\ running[l] = NoTask
    /\ accepting /\ tasks[l] = <<>>
    /\ worker' = [worker EXCEPT ![l] = "waiting"]
    /\ UNCHANGED <<accepting, tasks, running, metrics, owner, drain,
                   accepted, finished, discarded>>

\* Faulty variant: a worker leaves its accepted tasks behind when stopping.
LaneExitEarly(l) ==
    /\ worker[l] = "awake" /\ running[l] = NoTask
    /\ ~accepting
    /\ worker' = [worker EXCEPT ![l] = "exited"]
    /\ UNCHANGED <<accepting, tasks, running, metrics, owner, drain,
                   accepted, finished, discarded>>

\* The predicate holds and the lane is empty: the thread returns.
LaneExit(l) ==
    /\ worker[l] = "awake" /\ running[l] = NoTask
    /\ ~accepting /\ tasks[l] = <<>>
    /\ worker' = [worker EXCEPT ![l] = "exited"]
    /\ UNCHANGED <<accepting, tasks, running, metrics, owner, drain,
                   accepted, finished, discarded>>

LaneTake(l) ==
    /\ worker[l] = "awake" /\ running[l] = NoTask
    /\ tasks[l] # <<>>
    /\ running' = [running EXCEPT ![l] = Head(tasks[l])]
    /\ tasks' = [tasks EXCEPT ![l] = Tail(@)]
    /\ metrics' = [metrics EXCEPT !["queued"] = @ - 1, !["active"] = @ + 1]
    /\ UNCHANGED <<accepting, worker, owner, drain, accepted, finished, discarded>>

\* idle_.notify_all(): wakes the owner if it is blocked in WaitIdleUntil.
NotifyIdle(o) == IF o = "blockedIdle" THEN "waitIdle" ELSE o

\* task.run() returned, or threw (failed); the closing critical section.
LaneDone(l, threw) ==
    /\ running[l] # NoTask
    /\ running' = [running EXCEPT ![l] = NoTask]
    /\ metrics' = [metrics EXCEPT
            !["active"] = @ - 1,
            !["completed"] = @ + 1,
            !["failed"] = IF threw THEN @ + 1 ELSE @]
    /\ finished' = finished \cup {running[l]}
    /\ owner' = NotifyIdle(owner)
    /\ UNCHANGED <<accepting, tasks, worker, drain, accepted, discarded>>

--------------------------------------------------------------------------------
\* The lifecycle owner.

\* BeginStop: the critical section, then the notifications outside it.
BeginStop ==
    /\ owner = "serving"
    /\ accepting' = FALSE
    /\ owner' = "begun"
    /\ UNCHANGED <<tasks, running, worker, metrics, drain, accepted, finished, discarded>>

\* Faulty variant: Stop joins the workers without waking them.
StopWithoutNotify ==
    /\ owner = "notifying"
    /\ owner' = "joining"
    /\ UNCHANGED <<accepting, tasks, running, worker, metrics, drain,
                   accepted, finished, discarded>>

BeginStopNotify ==
    /\ owner = "begun"
    /\ worker' = NotifyAllLanes(worker)
    /\ owner' = "waitIdle"
    /\ UNCHANGED <<accepting, tasks, running, metrics, drain, accepted, finished, discarded>>

Idle == metrics["queued"] = 0 /\ metrics["active"] = 0

\* WaitIdleUntil: the predicate is evaluated with the mutex held.
WaitIdleBlock ==
    /\ owner = "waitIdle" /\ ~Idle
    /\ owner' = "blockedIdle"
    /\ UNCHANGED <<accepting, tasks, running, worker, metrics, drain,
                   accepted, finished, discarded>>

\* WaitIdleUntil returns: idle, or the deadline has passed.
WaitIdleReturn ==
    /\ \/ owner = "waitIdle" /\ Idle
       \/ owner = "blockedIdle"
    /\ drain' = Idle
    /\ owner' = "stopping"
    /\ UNCHANGED <<accepting, tasks, running, worker, metrics, accepted, finished, discarded>>

\* An owner that never waits calls Stop() with its default, drain = true.
StopDirect ==
    /\ owner = "serving"
    /\ drain' = TRUE
    /\ owner' = "stopping"
    /\ UNCHANGED <<accepting, tasks, running, worker, metrics, accepted, finished, discarded>>

\* Faulty variant: the discarded tasks stay counted as queued.
StopUncounted ==
    /\ owner = "stopping"
    /\ accepting' = FALSE
    /\ tasks' = IF drain THEN tasks ELSE [l \in Lanes |-> <<>>]
    /\ discarded' = IF drain THEN discarded ELSE discarded \cup Waiting
    /\ owner' = "notifying"
    /\ UNCHANGED <<running, worker, drain, metrics, accepted, finished>>

\* Stop: the critical section.
StopLocked ==
    /\ owner = "stopping"
    /\ accepting' = FALSE
    /\ IF drain
       THEN UNCHANGED <<tasks, metrics, discarded>>
       ELSE /\ tasks' = [l \in Lanes |-> <<>>]
            /\ metrics' = [metrics EXCEPT !["queued"] = @ - Cardinality(Waiting)]
            /\ discarded' = discarded \cup Waiting
    /\ owner' = "notifying"
    /\ UNCHANGED <<running, worker, drain, accepted, finished>>

StopNotify ==
    /\ owner = "notifying"
    /\ worker' = NotifyAllLanes(worker)
    /\ owner' = "joining"
    /\ UNCHANGED <<accepting, tasks, running, metrics, drain, accepted, finished, discarded>>

\* worker.join() for every lane, then Stop returns.
StopJoined ==
    /\ owner = "joining"
    /\ \A l \in Lanes : worker[l] = "exited"
    /\ owner' = "stopped"
    /\ UNCHANGED <<accepting, tasks, running, worker, metrics, drain,
                   accepted, finished, discarded>>

--------------------------------------------------------------------------------
Lane(l) == LaneWait(l) \/ LaneExit(l) \/ LaneTake(l) \/ \E threw \in BOOLEAN : LaneDone(l, threw)

OwnerStop ==
    BeginStopNotify \/ WaitIdleBlock \/ WaitIdleReturn \/ StopLocked \/ StopNotify \/ StopJoined

Next ==
    \/ \E k \in Keys : SubmitAccepted(k) \/ SubmitRejected(k)
    \/ \E l \in Lanes : Lane(l)
    \/ BeginStop
    \/ StopDirect
    \/ OwnerStop

Spec == Init /\ [][Next]_vars

\* Workers are OS threads and handlers return (their Redis, gRPC and MySQL
\* calls are bounded), so a lane that can step does; an owner that started
\* to stop keeps going.  Nobody is obliged to submit or to stop.
Fairness == (\A l \in Lanes : WF_vars(Lane(l))) /\ WF_vars(OwnerStop)

FairSpec == Spec /\ Fairness

--------------------------------------------------------------------------------
\* Properties.

\* The executor's own state has its type; in particular the unsigned counters
\* of BusinessMetrics never wrap below zero.
TypeOK ==
    /\ accepting \in BOOLEAN
    /\ tasks \in [Lanes -> Seq(1..Len(accepted))]
    /\ running \in [Lanes -> (1..Len(accepted)) \cup {NoTask}]
    /\ worker \in [Lanes -> {"awake", "waiting", "exited"}]
    /\ metrics \in [MetricNames -> Nat]
    /\ owner \in OwnerSteps
    /\ drain \in BOOLEAN
    /\ accepted \in Seq(Keys)
    /\ finished \subseteq 1..Len(accepted)
    /\ discarded \subseteq 1..Len(accepted)

\* The counters WaitIdleUntil and Submit decide on are exact after every
\* critical section: queued is the number of waiting tasks and stays within
\* the limit, active the number of busy workers, and no accepted task is
\* unaccounted for.
MetricsExact ==
    /\ metrics["queued"] = Cardinality(Waiting)
    /\ metrics["active"] = Cardinality(Busy)
    /\ metrics["completed"] = Cardinality(finished)
    /\ metrics["high_water"] <= QueueLimit
    /\ Len(accepted) = Cardinality(Waiting) + Cardinality(Busy)
                       + Cardinality(finished) + Cardinality(discarded)

\* When Stop has returned, every accepted task has run or was discarded, no
\* worker is inside a handler, and a draining Stop discarded nothing.
StopLeavesNothing ==
    owner = "stopped" =>
        /\ 1..Len(accepted) = finished \cup discarded
        /\ finished \cap discarded = {}
        /\ Busy = {}
        /\ drain => discarded = {}

\* Where the caller sees task i.
View(i) == IF i \in finished THEN "done"
           ELSE IF i \in discarded THEN "dropped"
           ELSE IF \E l \in Lanes : running[l] = i THEN "active"
           ELSE "pending"

AbstractState == [i \in 1..Len(accepted) |-> View(i)]

Serial == INSTANCE KeyedSerialExecutor WITH state <- AbstractState, open <- accepting

\* A caller sees the serial executor of KeyedSerialExecutor: one task of a
\* connection at a time, in submission order, none lost or run twice.
SerialPerKey == Serial!SerialSpec

\* Every accepted task is eventually run, or discarded by Stop: no wakeup of a
\* worker is lost between its wait and a Submit or a stop.
AcceptedIsServed ==
    \A i \in 1..MaxTasks :
        i <= Len(accepted) ~> i \in finished \cup discarded

\* Stop always returns: neither the idle wait nor a join blocks for ever.
StopReturns == owner # "serving" ~> owner = "stopped"
=============================================================================
