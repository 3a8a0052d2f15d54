----------------------------- MODULE WorkerProofs -----------------------------
(***************************************************************************)
(* Proofs about a chat node's worker threads: the executor that runs them  *)
(* (BusinessExecutor.tla), for every set of keys, every finite set of      *)
(* lanes, every hash function and every queue limit, and the connection    *)
(* pools they borrow from (ConnectionPools.tla), for every finite set of   *)
(* threads and all pool sizes.                                             *)
(***************************************************************************)
EXTENDS BusinessExecutor, ConnectionPools, FiniteSetTheorems, TLAPS

--------------------------------------------------------------------------------
\* The inductive invariant.

\* A lane holds unfinished tasks of its own keys, in acceptance order, behind
\* the task its worker is running.
LaneOrder ==
    \A l \in Lanes :
        /\ \A n \in 1..Len(tasks[l]) :
              /\ LaneOf[accepted[tasks[l][n]]] = l
              /\ tasks[l][n] \notin finished \cup discarded
              /\ \A m \in 1..Len(tasks[l]) : m < n => tasks[l][m] < tasks[l][n]
              /\ running[l] # NoTask => running[l] < tasks[l][n]
        /\ running[l] # NoTask =>
              /\ LaneOf[accepted[running[l]]] = l
              /\ running[l] \notin finished \cup discarded

\* Every accepted task is waiting, running, finished or discarded; a task is
\* not both finished and discarded.
Accounted ==
    /\ \A i \in 1..Len(accepted) :
          \/ i \in finished \cup discarded
          \/ \E l \in Lanes : running[l] = i
          \/ i \in Waiting
    /\ finished \cap discarded = {}

Counted ==
    /\ metrics["queued"] = Cardinality(Waiting)
    /\ metrics["active"] = Cardinality(Busy)
    /\ metrics["completed"] = Cardinality(finished)
    /\ metrics["queued"] <= QueueLimit
    /\ metrics["high_water"] <= QueueLimit
    /\ Len(accepted) = metrics["queued"] + metrics["active"] + metrics["completed"]
                       + Cardinality(discarded)

\* What the stages of the shutdown have established.
Shutdown ==
    /\ owner \notin {"serving", "stopping"} => ~accepting
    /\ owner \notin {"notifying", "joining", "stopped"} => discarded = {}
    /\ discarded # {} => ~drain /\ ~accepting /\ \A l \in Lanes : tasks[l] = <<>>
    /\ \A l \in Lanes : worker[l] = "exited" =>
          ~accepting /\ tasks[l] = <<>> /\ running[l] = NoTask
    /\ owner = "stopped" => \A l \in Lanes : worker[l] = "exited"

ExecutorInv == TypeOK /\ LaneOrder /\ Accounted /\ Counted /\ Shutdown

--------------------------------------------------------------------------------
\* The initial state satisfies the invariant.
LEMMA InitInv == Init => ExecutorInv
<1> SUFFICES ASSUME Init PROVE ExecutorInv
    OBVIOUS
<1> USE ConstantsAssumption DEF Init
<1>1. Len(accepted) = 0 /\ Waiting = {} /\ Busy = {}
    BY DEF Waiting, Busy
<1>2. TypeOK
    BY <1>1 DEF TypeOK, MetricNames, OwnerSteps
<1>3. LaneOrder /\ Accounted /\ Shutdown
    BY <1>1 DEF LaneOrder, Accounted, Shutdown
<1>4. Counted
    BY <1>1, FS_EmptySet DEF Counted, MetricNames
<1> QED
    BY <1>2, <1>3, <1>4 DEF ExecutorInv

\* A sequence of small numbers is a sequence of larger ones.
LEMMA SeqMonotone ==
    ASSUME NEW a \in Nat, NEW b \in Nat, a <= b, NEW q \in Seq(1..a)
    PROVE  q \in Seq(1..b)
<1>1. \A n \in 1..Len(q) : q[n] \in 1..b
    OBVIOUS
<1> QED
    BY <1>1

\* The sets counted by the metrics are finite.
LEMMA CountedSetsFinite ==
    ASSUME TypeOK
    PROVE  /\ Waiting \subseteq 1..Len(accepted) /\ IsFiniteSet(Waiting)
           /\ Busy \subseteq Lanes /\ IsFiniteSet(Busy)
           /\ IsFiniteSet(finished) /\ IsFiniteSet(discarded)
           /\ Cardinality(Waiting) \in Nat /\ Cardinality(discarded) \in Nat
<1>1. Len(accepted) \in Nat /\ IsFiniteSet(1..Len(accepted))
    BY FS_Interval DEF TypeOK
<1>2. Waiting \subseteq 1..Len(accepted) /\ Busy \subseteq Lanes
    BY DEF Waiting, Busy
<1>3. finished \subseteq 1..Len(accepted) /\ discarded \subseteq 1..Len(accepted)
    BY DEF TypeOK
<1> QED
    BY <1>1, <1>2, <1>3, FS_Subset, FS_CardinalityType, ConstantsAssumption

\* A step that leaves the lanes, the running tasks and the history alone keeps
\* every part of the invariant that speaks only of them.
LEMMA QuietStep ==
    ASSUME ExecutorInv,
           UNCHANGED <<tasks, running, accepted, finished, discarded>>
    PROVE  /\ LaneOrder' /\ Accounted'
           /\ Waiting' = Waiting /\ Busy' = Busy
<1>1. Waiting' = Waiting /\ Busy' = Busy
    BY DEF Waiting, Busy
<1>2. LaneOrder'
    BY DEF ExecutorInv, LaneOrder
<1>3. Accounted'
    BY <1>1 DEF ExecutorInv, Accounted
<1> QED
    BY <1>1, <1>2, <1>3

\* The owner's steps and the rejected submissions move no task.
LEMMA OwnerStepsInv ==
    ASSUME ExecutorInv,
           \/ BeginStop \/ BeginStopNotify \/ WaitIdleBlock \/ WaitIdleReturn
           \/ StopDirect \/ StopNotify \/ StopJoined
           \/ \E k \in Keys : SubmitRejected(k)
           \/ \E l \in Lanes : LaneWait(l) \/ LaneExit(l)
           \/ UNCHANGED vars
    PROVE  ExecutorInv'
<1> USE DEF ExecutorInv, NotifyAllLanes
<1>1. UNCHANGED <<tasks, running, accepted, finished, discarded>>
    BY DEF BeginStop, BeginStopNotify, WaitIdleBlock, WaitIdleReturn, StopDirect,
           StopNotify, StopJoined, SubmitRejected, LaneWait, LaneExit, vars
<1>2. LaneOrder' /\ Accounted' /\ Waiting' = Waiting /\ Busy' = Busy
    BY <1>1, QuietStep
<1>3. TypeOK'
  <2>1. CASE BeginStop
    BY <1>1, <2>1 DEF TypeOK, OwnerSteps, MetricNames, Idle, BeginStop
  <2>2. CASE BeginStopNotify
    BY <1>1, <2>2 DEF TypeOK, OwnerSteps, MetricNames, Idle, BeginStopNotify
  <2>3. CASE WaitIdleBlock
    BY <1>1, <2>3 DEF TypeOK, OwnerSteps, MetricNames, Idle, WaitIdleBlock
  <2>4. CASE WaitIdleReturn
    BY <1>1, <2>4 DEF TypeOK, OwnerSteps, MetricNames, Idle, WaitIdleReturn
  <2>5. CASE StopDirect
    BY <1>1, <2>5 DEF TypeOK, OwnerSteps, MetricNames, Idle, StopDirect
  <2>6. CASE StopNotify
    BY <1>1, <2>6 DEF TypeOK, OwnerSteps, MetricNames, Idle, StopNotify
  <2>7. CASE StopJoined
    BY <1>1, <2>7 DEF TypeOK, OwnerSteps, MetricNames, Idle, StopJoined
  <2>8. CASE \E k \in Keys : SubmitRejected(k)
    BY <1>1, <2>8 DEF TypeOK, OwnerSteps, MetricNames, Idle, SubmitRejected
  <2>9. CASE \E l \in Lanes : LaneWait(l)
    BY <1>1, <2>9 DEF TypeOK, OwnerSteps, MetricNames, Idle, LaneWait
  <2>10. CASE \E l \in Lanes : LaneExit(l)
    BY <1>1, <2>10 DEF TypeOK, OwnerSteps, MetricNames, Idle, LaneExit
  <2>11. CASE UNCHANGED vars
    BY <1>1, <2>11 DEF TypeOK, OwnerSteps, MetricNames, Idle, vars
  <2> QED
    BY <2>1, <2>2, <2>3, <2>4, <2>5, <2>6, <2>7, <2>8, <2>9, <2>10, <2>11
<1>4. /\ metrics'["queued"] = metrics["queued"]
      /\ metrics'["active"] = metrics["active"]
      /\ metrics'["completed"] = metrics["completed"]
      /\ metrics'["high_water"] = metrics["high_water"]
    BY DEF TypeOK, MetricNames,
           BeginStop, BeginStopNotify, WaitIdleBlock, WaitIdleReturn, StopDirect,
           StopNotify, StopJoined, SubmitRejected, LaneWait, LaneExit, vars
<1>5. Counted'
    BY <1>1, <1>2, <1>4 DEF Counted
<1>6. Shutdown'
  <2>1. CASE BeginStop
    BY <1>1, <2>1 DEF TypeOK, OwnerSteps, Shutdown, BeginStop
  <2>2. CASE BeginStopNotify
    BY <1>1, <2>2 DEF TypeOK, OwnerSteps, Shutdown, BeginStopNotify
  <2>3. CASE WaitIdleBlock
    BY <1>1, <2>3 DEF TypeOK, OwnerSteps, Shutdown, WaitIdleBlock
  <2>4. CASE WaitIdleReturn
    BY <1>1, <2>4 DEF TypeOK, OwnerSteps, Shutdown, WaitIdleReturn
  <2>5. CASE StopDirect
    BY <1>1, <2>5 DEF TypeOK, OwnerSteps, Shutdown, StopDirect
  <2>6. CASE StopNotify
    BY <1>1, <2>6 DEF TypeOK, OwnerSteps, Shutdown, StopNotify
  <2>7. CASE StopJoined
    BY <1>1, <2>7 DEF TypeOK, OwnerSteps, Shutdown, StopJoined
  <2>8. CASE \E k \in Keys : SubmitRejected(k)
    BY <1>1, <2>8 DEF TypeOK, OwnerSteps, Shutdown, SubmitRejected
  <2>9. CASE \E l \in Lanes : LaneWait(l)
    BY <1>1, <2>9 DEF TypeOK, OwnerSteps, Shutdown, LaneWait
  <2>10. CASE \E l \in Lanes : LaneExit(l)
    BY <1>1, <2>10 DEF TypeOK, OwnerSteps, Shutdown, LaneExit
  <2>11. CASE UNCHANGED vars
    BY <1>1, <2>11 DEF TypeOK, OwnerSteps, Shutdown, vars
  <2> QED
    BY <2>1, <2>2, <2>3, <2>4, <2>5, <2>6, <2>7, <2>8, <2>9, <2>10, <2>11
<1> QED
    BY <1>2, <1>3, <1>5, <1>6

\* An accepted submission appends a new, largest number to its key's lane.
LEMMA SubmitInv ==
    ASSUME ExecutorInv, NEW k \in Keys, SubmitAccepted(k)
    PROVE  ExecutorInv'
<1> DEFINE lane == LaneOf[k]
           new == Len(accepted) + 1
<1> USE ConstantsAssumption DEF ExecutorInv
<1>1. /\ lane \in Lanes /\ Len(accepted) \in Nat /\ new \in Nat
      /\ accepted' = Append(accepted, k) /\ accepted' \in Seq(Keys)
      /\ Len(accepted') = new
      /\ \A i \in 1..Len(accepted) : accepted'[i] = accepted[i]
      /\ accepted'[new] = k
    BY DEF SubmitAccepted, TypeOK
<1>2. /\ tasks' = [tasks EXCEPT ![lane] = Append(tasks[lane], new)]
      /\ \A l \in Lanes : tasks[l] \in Seq(1..Len(accepted))
      /\ DOMAIN tasks = Lanes
      /\ UNCHANGED <<accepting, running, owner, drain, finished, discarded>>
      /\ accepting /\ metrics["queued"] < QueueLimit
    BY DEF SubmitAccepted, TypeOK, Full, MetricNames
<1>3. /\ Len(tasks'[lane]) = Len(tasks[lane]) + 1
      /\ tasks'[lane][Len(tasks[lane]) + 1] = new
      /\ \A n \in 1..Len(tasks[lane]) : tasks'[lane][n] = tasks[lane][n]
      /\ \A l \in Lanes : l # lane => tasks'[l] = tasks[l]
      /\ \A l \in Lanes : Len(tasks[l]) \in Nat
      /\ \A l \in Lanes : DOMAIN tasks[l] = 1..Len(tasks[l])
      /\ \A l \in Lanes : DOMAIN tasks'[l] = 1..Len(tasks'[l])
      /\ \A l \in Lanes : \A n \in 1..Len(tasks[l]) : tasks[l][n] \in 1..Len(accepted)
  <2>1. /\ tasks'[lane] = Append(tasks[lane], new)
        /\ \A l \in Lanes : l # lane => tasks'[l] = tasks[l]
      BY <1>1, <1>2
  <2>2. \A l \in Lanes : /\ Len(tasks[l]) \in Nat /\ DOMAIN tasks[l] = 1..Len(tasks[l])
                         /\ \A n \in 1..Len(tasks[l]) : tasks[l][n] \in 1..Len(accepted)
      BY <1>2
  <2>3. /\ Len(tasks'[lane]) = Len(tasks[lane]) + 1
        /\ DOMAIN tasks'[lane] = 1..Len(tasks'[lane])
        /\ tasks'[lane][Len(tasks[lane]) + 1] = new
        /\ \A n \in 1..Len(tasks[lane]) : tasks'[lane][n] = tasks[lane][n]
      BY <2>1, <1>1, <1>2
  <2> QED
      BY <2>1, <2>2, <2>3
<1>4. TypeOK'
  <2>1. tasks' \in [Lanes -> Seq(1..new)]
    <3>1. \A l \in Lanes : tasks[l] \in Seq(1..new)
        BY <1>1, <1>2, SeqMonotone
    <3>2. Append(tasks[lane], new) \in Seq(1..new)
        BY <3>1, <1>1
    <3> QED
        BY <3>1, <3>2, <1>2
  <2>2. running' \in [Lanes -> (1..new) \cup {NoTask}]
      BY <1>1, <1>2 DEF TypeOK
  <2>3. worker' \in [Lanes -> {"awake", "waiting", "exited"}]
      BY <1>1 DEF TypeOK, SubmitAccepted, NotifyLane
  <2>4. metrics' \in [MetricNames -> Nat]
    <3>1. metrics \in [MetricNames -> Nat] /\ metrics["queued"] + 1 \in Nat
        BY DEF TypeOK, MetricNames
    <3>2. metrics' = [metrics EXCEPT
              !["queued"] = metrics["queued"] + 1,
              !["high_water"] = IF metrics["high_water"] < metrics["queued"] + 1
                                THEN metrics["queued"] + 1 ELSE metrics["high_water"]]
        BY DEF SubmitAccepted
    <3> QED
        BY <3>1, <3>2 DEF MetricNames
  <2>5. finished' \subseteq 1..new /\ discarded' \subseteq 1..new
      BY <1>1, <1>2 DEF TypeOK
  <2> QED
      BY <1>1, <1>2, <2>1, <2>2, <2>3, <2>4, <2>5 DEF TypeOK
<1>5. Waiting' = Waiting \cup {new} /\ new \notin Waiting
  <2>1. new \notin Waiting
      BY <1>1 DEF Waiting
  <2>2. ASSUME NEW i \in Waiting' PROVE i \in Waiting \cup {new}
    <3>1. PICK l \in Lanes : \E n \in 1..Len(tasks'[l]) : tasks'[l][n] = i
        BY <1>1, <1>3 DEF Waiting
    <3>2. PICK n \in 1..Len(tasks'[l]) : tasks'[l][n] = i
        BY <3>1
    <3>3. CASE n \in 1..Len(tasks[l])
        BY <3>2, <3>3, <1>3, <1>1 DEF Waiting
    <3>4. CASE n \notin 1..Len(tasks[l])
        BY <3>2, <3>4, <1>3
    <3> QED
        BY <3>3, <3>4
  <2>3. ASSUME NEW i \in Waiting PROVE i \in Waiting'
    <3>1. PICK l \in Lanes : \E n \in 1..Len(tasks[l]) : tasks[l][n] = i
        BY <1>3 DEF Waiting
    <3>2. PICK n \in 1..Len(tasks[l]) : tasks[l][n] = i
        BY <3>1
    <3>3. n \in 1..Len(tasks'[l]) /\ tasks'[l][n] = i /\ i \in 1..Len(accepted)
      <4>1. CASE l = lane
          BY <3>2, <4>1, <1>3
      <4>2. CASE l # lane
          BY <3>2, <4>2, <1>3
      <4> QED
          BY <4>1, <4>2
    <3>4. i \in 1..Len(accepted') /\ DOMAIN tasks'[l] = 1..Len(tasks'[l])
        BY <3>3, <1>1, <1>3
    <3> QED
        BY <3>3, <3>4 DEF Waiting
  <2>4. new \in Waiting'
      BY <1>1, <1>3 DEF Waiting
  <2> QED
      BY <2>1, <2>2, <2>3, <2>4
<1>6. LaneOrder'
  <2> SUFFICES ASSUME NEW l \in Lanes
               PROVE  /\ \A n \in 1..Len(tasks'[l]) :
                            /\ LaneOf[accepted'[tasks'[l][n]]] = l
                            /\ tasks'[l][n] \notin finished' \cup discarded'
                            /\ \A m \in 1..Len(tasks'[l]) : m < n => tasks'[l][m] < tasks'[l][n]
                            /\ running'[l] # NoTask => running'[l] < tasks'[l][n]
                      /\ running'[l] # NoTask =>
                            /\ LaneOf[accepted'[running'[l]]] = l
                            /\ running'[l] \notin finished' \cup discarded'
      BY DEF LaneOrder
  <2>1. running[l] # NoTask => running[l] \in 1..Len(accepted)
      BY DEF TypeOK
  <2>2. new \notin finished \cup discarded
      BY <1>1 DEF TypeOK
  <2>3. running'[l] # NoTask =>
                            /\ LaneOf[accepted'[running'[l]]] = l
                            /\ running'[l] \notin finished' \cup discarded'
      BY <2>1, <1>1, <1>2 DEF LaneOrder
  <2>4. ASSUME NEW n \in 1..Len(tasks[l])
        PROVE  /\ LaneOf[accepted'[tasks[l][n]]] = l
               /\ tasks[l][n] \notin finished' \cup discarded'
               /\ \A m \in 1..Len(tasks[l]) : m < n => tasks[l][m] < tasks[l][n]
               /\ running'[l] # NoTask => running'[l] < tasks[l][n]
    <3>1. tasks[l][n] \in 1..Len(accepted)
        BY <1>3
    <3>2. accepted'[tasks[l][n]] = accepted[tasks[l][n]]
        BY <3>1, <1>1
    <3> QED
        BY <3>2, <1>2 DEF LaneOrder
  <2>5. CASE l # lane
    <3>1. tasks'[l] = tasks[l]
        BY <2>5, <1>3
    <3> QED
        BY <3>1, <2>3, <2>4
  <2>6. CASE l = lane
    <3>1. Len(tasks'[l]) = Len(tasks[l]) + 1 /\ Len(tasks[l]) \in Nat
        BY <2>6, <1>3
    <3>2. tasks'[l][Len(tasks[l]) + 1] = new
        BY <2>6, <1>3
    <3>3. \A n \in 1..Len(tasks[l]) : tasks'[l][n] = tasks[l][n] /\ tasks[l][n] < new
        BY <2>6, <1>1, <1>3
    <3>4. running'[l] # NoTask => running'[l] < new
        BY <2>1, <1>1, <1>2
    <3>5. LaneOf[accepted'[new]] = l /\ new \notin finished' \cup discarded'
        BY <2>2, <2>6, <1>1, <1>2
    <3> SUFFICES ASSUME NEW n \in 1..Len(tasks'[l])
                 PROVE  /\ LaneOf[accepted'[tasks'[l][n]]] = l
                        /\ tasks'[l][n] \notin finished' \cup discarded'
                        /\ \A m \in 1..Len(tasks'[l]) : m < n => tasks'[l][m] < tasks'[l][n]
                        /\ running'[l] # NoTask => running'[l] < tasks'[l][n]
        BY <2>3
    <3> HIDE DEF new, lane
    <3>6. CASE n \in 1..Len(tasks[l])
      <4>1. tasks'[l][n] = tasks[l][n]
          BY <3>3, <3>6
      <4>2. \A m \in 1..Len(tasks'[l]) : m < n => m \in 1..Len(tasks[l])
          BY <3>1, <3>6
      <4>3. \A m \in 1..Len(tasks'[l]) : m < n => tasks'[l][m] < tasks'[l][n]
          BY <2>4, <3>3, <3>6, <4>1, <4>2
      <4> QED
          BY <2>4, <3>6, <4>1, <4>3
    <3>7. CASE n = Len(tasks[l]) + 1
        BY <3>1, <3>2, <3>3, <3>4, <3>5, <3>7
    <3> QED
        BY <3>1, <3>6, <3>7
  <2> QED
      BY <2>5, <2>6
<1>7. Accounted'
  <2>1. running' = running /\ finished' = finished /\ discarded' = discarded
      BY <1>2
  <2>2. ASSUME NEW i \in 1..Len(accepted')
        PROVE  \/ i \in finished \cup discarded
               \/ \E l \in Lanes : running[l] = i
               \/ i \in Waiting'
    <3>1. CASE i = new
        BY <3>1, <1>5
    <3>2. CASE i # new
      <4>1. i \in 1..Len(accepted)
          BY <1>1, <3>2
      <4> QED
          BY <4>1, <1>5 DEF Accounted
    <3> QED
        BY <3>1, <3>2
  <2> QED
      BY <2>1, <2>2 DEF Accounted
<1>8. Counted'
  <2>1. Cardinality(Waiting') = Cardinality(Waiting) + 1
      BY <1>5, CountedSetsFinite, FS_AddElement
  <2>2. Busy' = Busy
      BY <1>2 DEF Busy
  <2>3. /\ metrics'["queued"] = metrics["queued"] + 1
        /\ metrics'["active"] = metrics["active"]
        /\ metrics'["completed"] = metrics["completed"]
        /\ metrics'["high_water"] \in {metrics["high_water"], metrics["queued"] + 1}
      BY DEF SubmitAccepted, TypeOK, MetricNames
  <2>4. /\ metrics["queued"] \in Nat /\ metrics["active"] \in Nat
        /\ metrics["completed"] \in Nat /\ Cardinality(discarded) \in Nat
      BY CountedSetsFinite DEF TypeOK, MetricNames
  <2>5. metrics'["high_water"] <= QueueLimit
      BY <2>3, <2>4, <1>2 DEF Counted
  <2>6. /\ finished' = finished /\ discarded' = discarded
        /\ Len(accepted') = Len(accepted) + 1 /\ Len(accepted) \in Nat
      BY <1>1, <1>2
  <2>7. /\ metrics["queued"] = Cardinality(Waiting) /\ metrics["active"] = Cardinality(Busy)
        /\ metrics["completed"] = Cardinality(finished)
        /\ Len(accepted) = metrics["queued"] + metrics["active"] + metrics["completed"]
                           + Cardinality(discarded)
      BY DEF Counted
  <2> HIDE DEF new, lane
  <2>8. Len(accepted') = metrics'["queued"] + metrics'["active"] + metrics'["completed"]
                         + Cardinality(discarded')
      BY <2>3, <2>4, <2>6, <2>7
  <2>9. metrics'["queued"] = Cardinality(Waiting') /\ metrics'["active"] = Cardinality(Busy')
      BY <2>1, <2>2, <2>3, <2>7
  <2>10. metrics'["queued"] <= QueueLimit
      BY <2>3, <2>4, <1>2
  <2> QED
      BY <2>3, <2>5, <2>6, <2>7, <2>8, <2>9, <2>10 DEF Counted
<1>9. Shutdown'
  <2>1. discarded = {}
      BY <1>2 DEF Shutdown
  <2> QED
      BY <1>1, <1>2, <2>1 DEF Shutdown, SubmitAccepted, NotifyLane, TypeOK
<1> QED
    BY <1>4, <1>6, <1>7, <1>8, <1>9

\* A worker takes the smallest number of its lane.
LEMMA TakeInv ==
    ASSUME ExecutorInv, NEW l \in Lanes, LaneTake(l)
    PROVE  ExecutorInv'
<1> DEFINE head == Head(tasks[l])
<1> USE ConstantsAssumption DEF ExecutorInv
<1>1. /\ Len(accepted) \in Nat
      /\ tasks[l] \in Seq(1..Len(accepted)) /\ tasks[l] # <<>>
      /\ DOMAIN tasks = Lanes /\ DOMAIN running = Lanes
      /\ running[l] = NoTask /\ worker[l] = "awake"
      /\ tasks' = [tasks EXCEPT ![l] = Tail(tasks[l])]
      /\ running' = [running EXCEPT ![l] = head]
      /\ UNCHANGED <<accepting, worker, owner, drain, accepted, finished, discarded>>
    BY DEF LaneTake, TypeOK
<1>2. /\ Len(tasks[l]) \in Nat \ {0} /\ head = tasks[l][1]
      /\ head \in 1..Len(accepted) /\ head # NoTask
      /\ Tail(tasks[l]) \in Seq(1..Len(accepted))
      /\ Len(tasks'[l]) = Len(tasks[l]) - 1
      /\ \A n \in 1..Len(tasks'[l]) : tasks'[l][n] = tasks[l][n + 1]
      /\ \A m \in Lanes : m # l => tasks'[m] = tasks[m] /\ running'[m] = running[m]
      /\ running'[l] = head
    BY <1>1
<1>3. /\ \A m \in Lanes : tasks[m] \in Seq(1..Len(accepted))
      /\ \A m \in Lanes : tasks'[m] \in Seq(1..Len(accepted))
      /\ \A m \in Lanes : Len(tasks[m]) \in Nat /\ DOMAIN tasks[m] = 1..Len(tasks[m])
      /\ \A m \in Lanes : Len(tasks'[m]) \in Nat /\ DOMAIN tasks'[m] = 1..Len(tasks'[m])
    <2>1. \A m \in Lanes : tasks[m] \in Seq(1..Len(accepted))
        BY DEF TypeOK
    <2>2. \A m \in Lanes : tasks'[m] \in Seq(1..Len(accepted))
        BY <2>1, <1>1, <1>2
    <2> QED
        BY <2>1, <2>2
<1>4. metrics["queued"] \in Nat \ {0} /\ Waiting' = Waiting \ {head} /\ head \in Waiting
  <2>1. head \in Waiting
    <3>1. 1 \in DOMAIN tasks[l] /\ tasks[l][1] = head
        BY <1>2, <1>3
    <3> QED
        BY <3>1, <1>2 DEF Waiting
  <2>2. head \notin Waiting'
    <3> SUFFICES ASSUME NEW m \in Lanes, NEW n \in 1..Len(tasks'[m]), tasks'[m][n] = head
                 PROVE  FALSE
        BY <1>3 DEF Waiting
    <3>1. LaneOf[accepted[head]] = l
        BY <1>2 DEF LaneOrder
    <3>2. CASE m = l
      <4>1. n + 1 \in 1..Len(tasks[l]) /\ 1 \in 1..Len(tasks[l]) /\ 1 < n + 1
          BY <3>2, <1>2
      <4>2. tasks[l][1] < tasks[l][n + 1]
          BY <4>1 DEF LaneOrder
      <4>3. tasks[l][1] \in Nat /\ tasks[l][n + 1] = head
          BY <3>2, <1>2
      <4> QED
          BY <4>2, <4>3, <1>2
    <3>3. CASE m # l
      <4>1. n \in 1..Len(tasks[m]) /\ tasks[m][n] = head
          BY <3>3, <1>2
      <4>2. LaneOf[accepted[tasks[m][n]]] = m
          BY <4>1 DEF LaneOrder
      <4> QED
          BY <3>1, <3>3, <4>1, <4>2
    <3> QED
        BY <3>2, <3>3
  <2>3. ASSUME NEW i \in Waiting' PROVE i \in Waiting
    <3>1. PICK m \in Lanes : \E n \in 1..Len(tasks'[m]) : tasks'[m][n] = i
        BY <1>3 DEF Waiting
    <3>2. PICK n \in 1..Len(tasks'[m]) : tasks'[m][n] = i
        BY <3>1
    <3>3. i \in 1..Len(accepted)
        BY <1>1 DEF Waiting
    <3>4. CASE m = l
      <4>1. n \in 1..Len(tasks'[l]) /\ tasks'[l][n] = i
          BY <3>2, <3>4
      <4>2. n + 1 \in 1..Len(tasks[l]) /\ tasks[l][n + 1] = i
          BY <4>1, <1>2
      <4> QED
          BY <3>3, <4>2, <1>3 DEF Waiting
    <3>5. CASE m # l
        BY <3>2, <3>3, <3>5, <1>2, <1>3 DEF Waiting
    <3> QED
        BY <3>4, <3>5
  <2>4. ASSUME NEW i \in Waiting, i # head PROVE i \in Waiting'
    <3>1. PICK m \in Lanes : \E n \in 1..Len(tasks[m]) : tasks[m][n] = i
        BY <1>3 DEF Waiting
    <3>2. PICK n \in 1..Len(tasks[m]) : tasks[m][n] = i
        BY <3>1
    <3>3. i \in 1..Len(accepted')
        BY <1>1 DEF Waiting
    <3>4. CASE m = l
      <4>0. n \in 1..Len(tasks[l]) /\ tasks[l][n] = i /\ n # 1
          BY <2>4, <3>2, <3>4, <1>2
      <4>1. n - 1 \in 1..Len(tasks'[m]) /\ tasks'[m][n - 1] = i
          BY <4>0, <3>4, <1>2
      <4> QED
          BY <4>1, <3>3, <1>3 DEF Waiting
    <3>5. CASE m # l
      <4>1. n \in DOMAIN tasks'[m] /\ tasks'[m][n] = i
          BY <3>2, <3>5, <1>2, <1>3
      <4> QED
          BY <4>1, <3>3 DEF Waiting
    <3> QED
        BY <3>4, <3>5
  <2>5. metrics["queued"] # 0
    <3>1. Cardinality(Waiting) # 0
        BY <2>1, CountedSetsFinite, FS_EmptySet
    <3> QED
        BY <3>1 DEF Counted
  <2> QED
      BY <2>1, <2>2, <2>3, <2>4, <2>5 DEF TypeOK, MetricNames
<1>5. Busy' = Busy \cup {l} /\ l \notin Busy
    BY <1>1, <1>2 DEF Busy
<1>6. /\ metrics'["queued"] = metrics["queued"] - 1
      /\ metrics'["active"] = metrics["active"] + 1
      /\ metrics'["completed"] = metrics["completed"]
      /\ metrics'["high_water"] = metrics["high_water"]
    BY DEF LaneTake, TypeOK, MetricNames
<1>7. TypeOK'
  <2>1. metrics' \in [MetricNames -> Nat]
    <3>1. /\ metrics \in [MetricNames -> Nat]
          /\ metrics["queued"] - 1 \in Nat /\ metrics["active"] + 1 \in Nat
      <4>1. /\ metrics \in [MetricNames -> Nat]
            /\ "queued" \in MetricNames /\ "active" \in MetricNames
          BY DEF TypeOK, MetricNames
      <4>2. metrics["queued"] \in Nat /\ metrics["active"] \in Nat /\ metrics["queued"] # 0
          BY <4>1, <1>4
      <4> QED
          BY <4>1, <4>2
    <3>2. metrics' = [metrics EXCEPT !["queued"] = metrics["queued"] - 1,
                                     !["active"] = metrics["active"] + 1]
        BY DEF LaneTake
    <3> QED
        BY <3>1, <3>2 DEF MetricNames
  <2>2. tasks' \in [Lanes -> Seq(1..Len(accepted))]
      BY <1>1, <1>2 DEF TypeOK
  <2>3. running' \in [Lanes -> (1..Len(accepted)) \cup {NoTask}]
      BY <1>1, <1>2 DEF TypeOK
  <2> QED
      BY <2>1, <2>2, <2>3, <1>1 DEF TypeOK
<1>8. LaneOrder'
  <2> SUFFICES ASSUME NEW m \in Lanes
               PROVE  /\ \A n \in 1..Len(tasks'[m]) :
                            /\ LaneOf[accepted'[tasks'[m][n]]] = m
                            /\ tasks'[m][n] \notin finished' \cup discarded'
                            /\ \A p \in 1..Len(tasks'[m]) : p < n => tasks'[m][p] < tasks'[m][n]
                            /\ running'[m] # NoTask => running'[m] < tasks'[m][n]
                      /\ running'[m] # NoTask =>
                            /\ LaneOf[accepted'[running'[m]]] = m
                            /\ running'[m] \notin finished' \cup discarded'
      BY DEF LaneOrder
  <2>1. CASE m # l
      BY <2>1, <1>1, <1>2 DEF LaneOrder
  <2>2. CASE m = l
    <3>1. 1 \in 1..Len(tasks[l])
        BY <1>2
    <3>2. LaneOf[accepted[head]] = l /\ head \notin finished \cup discarded
        BY <1>2, <3>1 DEF LaneOrder
    <3>3. ASSUME NEW n \in 1..Len(tasks'[l])
          PROVE  /\ LaneOf[accepted[tasks'[l][n]]] = l
                 /\ tasks'[l][n] \notin finished \cup discarded
                 /\ \A p \in 1..Len(tasks'[l]) : p < n => tasks'[l][p] < tasks'[l][n]
                 /\ head < tasks'[l][n]
      <4>1. n + 1 \in 1..Len(tasks[l]) /\ tasks'[l][n] = tasks[l][n + 1]
          BY <1>2
      <4>2. \A p \in 1..Len(tasks'[l]) : p + 1 \in 1..Len(tasks[l])
                                        /\ tasks'[l][p] = tasks[l][p + 1]
          BY <1>2
      <4>3. tasks[l][1] < tasks[l][n + 1]
          BY <3>1, <4>1 DEF LaneOrder
      <4>4. \A p \in 1..Len(tasks'[l]) : p < n => tasks'[l][p] < tasks'[l][n]
          BY <4>1, <4>2 DEF LaneOrder
      <4> QED
          BY <4>1, <4>3, <4>4, <1>2 DEF LaneOrder
    <3> QED
        BY <3>2, <3>3, <2>2, <1>1, <1>2
  <2> QED
      BY <2>1, <2>2
<1>9. Accounted'
  <2>1. \A i \in 1..Len(accepted') :
          \/ i \in finished' \cup discarded'
          \/ \E m \in Lanes : running'[m] = i
          \/ i \in Waiting'
    <3> SUFFICES ASSUME NEW i \in 1..Len(accepted), i \notin finished \cup discarded,
                        i \notin Waiting'
                 PROVE  \E m \in Lanes : running'[m] = i
        BY <1>1
    <3>1. CASE i \in Waiting
        BY <3>1, <1>2, <1>4
    <3>2. CASE \E m \in Lanes : running[m] = i
        BY <3>2, <1>1, <1>2
    <3> QED
        BY <3>1, <3>2 DEF Accounted
  <2> QED
      BY <2>1, <1>1 DEF Accounted
<1>10. Counted'
  <2>1. Cardinality(Waiting') = Cardinality(Waiting) - 1
      BY <1>4, CountedSetsFinite, FS_RemoveElement
  <2>2. Cardinality(Busy') = Cardinality(Busy) + 1
      BY <1>5, CountedSetsFinite, FS_AddElement
  <2>3. /\ metrics["queued"] \in Nat /\ metrics["active"] \in Nat
        /\ metrics["completed"] \in Nat /\ Cardinality(discarded) \in Nat
      BY CountedSetsFinite DEF TypeOK, MetricNames
  <2>4. metrics["queued"] # 0 /\ UNCHANGED <<accepted, finished, discarded>>
      BY <1>1, <1>4
  <2> QED
      BY <2>1, <2>2, <2>3, <2>4, <1>6 DEF Counted
<1>11. Shutdown'
    BY <1>1, <1>2 DEF Shutdown
<1> QED
    BY <1>7, <1>8, <1>9, <1>10, <1>11

\* A finished handler frees its worker and moves its task to the history.
LEMMA DoneInv ==
    ASSUME ExecutorInv, NEW l \in Lanes, NEW threw \in BOOLEAN, LaneDone(l, threw)
    PROVE  ExecutorInv'
<1> DEFINE task == running[l]
<1> USE ConstantsAssumption DEF ExecutorInv
<1>1. /\ Len(accepted) \in Nat /\ task \in 1..Len(accepted) /\ task # NoTask
      /\ DOMAIN running = Lanes
      /\ running' = [running EXCEPT ![l] = NoTask]
      /\ finished' = finished \cup {task}
      /\ owner' = NotifyIdle(owner)
      /\ UNCHANGED <<accepting, tasks, worker, drain, accepted, discarded>>
    BY DEF LaneDone, TypeOK
<1>2. /\ running'[l] = NoTask
      /\ \A m \in Lanes : m # l => running'[m] = running[m]
      /\ Waiting' = Waiting
    BY <1>1 DEF Waiting
<1>3. Busy' = Busy \ {l} /\ l \in Busy
    BY <1>1, <1>2 DEF Busy
<1>4. metrics["active"] \in Nat \ {0}
  <2>1. Cardinality(Busy) # 0
      BY <1>3, CountedSetsFinite, FS_EmptySet
  <2> QED
      BY <2>1 DEF Counted, TypeOK, MetricNames
<1>5. /\ metrics'["queued"] = metrics["queued"]
      /\ metrics'["active"] = metrics["active"] - 1
      /\ metrics'["completed"] = metrics["completed"] + 1
      /\ metrics'["high_water"] = metrics["high_water"]
    BY DEF LaneDone, TypeOK, MetricNames
<1>6. TypeOK'
  <2>1. metrics' \in [MetricNames -> Nat]
    <3>1. metrics \in [MetricNames -> Nat] /\ metrics["active"] - 1 \in Nat
        BY <1>4 DEF TypeOK
    <3>2. metrics' = [metrics EXCEPT
              !["active"] = metrics["active"] - 1,
              !["completed"] = metrics["completed"] + 1,
              !["failed"] = IF threw THEN metrics["failed"] + 1 ELSE metrics["failed"]]
        BY DEF LaneDone
    <3> QED
        BY <3>1, <3>2 DEF MetricNames
  <2>2. running' \in [Lanes -> (1..Len(accepted)) \cup {NoTask}]
      BY <1>1 DEF TypeOK
  <2>3. owner' \in OwnerSteps
      BY <1>1 DEF TypeOK, NotifyIdle, OwnerSteps
  <2> QED
      BY <2>1, <2>2, <2>3, <1>1 DEF TypeOK
<1>7. ASSUME NEW m \in Lanes
      PROVE  /\ \A n \in 1..Len(tasks[m]) : tasks[m][n] # task
             /\ m # l /\ running[m] # NoTask => running[m] # task
  <2>1. LaneOf[accepted[task]] = l /\ task \notin finished \cup discarded
      BY <1>1 DEF LaneOrder
  <2>2. \A n \in 1..Len(tasks[l]) : task < tasks[l][n]
      BY <1>1 DEF LaneOrder
  <2>3. CASE m = l
      BY <2>2, <2>3, <1>1
  <2>4. CASE m # l
      BY <2>1, <2>4 DEF LaneOrder
  <2> QED
      BY <2>3, <2>4
<1>8. LaneOrder'
    BY <1>1, <1>2, <1>7 DEF LaneOrder
<1>9. Accounted'
  <2>1. task \notin discarded
      BY <1>1 DEF LaneOrder
  <2> QED
      BY <2>1, <1>1, <1>2 DEF Accounted
<1>10. Counted'
  <2>1. Cardinality(Busy') = Cardinality(Busy) - 1
      BY <1>3, CountedSetsFinite, FS_RemoveElement
  <2>2. Cardinality(finished') = Cardinality(finished) + 1
    <3>1. task \notin finished
        BY <1>1 DEF LaneOrder
    <3> QED
        BY <3>1, <1>1, CountedSetsFinite, FS_AddElement
  <2>3. /\ metrics["queued"] \in Nat /\ metrics["active"] \in Nat
        /\ metrics["completed"] \in Nat /\ Cardinality(discarded) \in Nat
      BY CountedSetsFinite DEF TypeOK, MetricNames
  <2> QED
      BY <2>1, <2>2, <2>3, <1>1, <1>2, <1>4, <1>5 DEF Counted
<1>11. Shutdown'
    BY <1>1, <1>2 DEF Shutdown, NotifyIdle, TypeOK, OwnerSteps
<1> QED
    BY <1>6, <1>8, <1>9, <1>10, <1>11

\* Stop's critical section: a draining Stop moves nothing, the other one
\* empties the lanes and takes the discarded tasks out of the count.
LEMMA StopLockedInv ==
    ASSUME ExecutorInv, StopLocked
    PROVE  ExecutorInv'
<1> USE ConstantsAssumption DEF ExecutorInv
<1>1. /\ Len(accepted) \in Nat
      /\ owner = "stopping" /\ owner' = "notifying" /\ accepting' = FALSE
      /\ discarded = {}
      /\ UNCHANGED <<running, worker, drain, accepted, finished>>
    BY DEF StopLocked, Shutdown, TypeOK
<1>2. CASE drain
  <2>1. UNCHANGED <<tasks, metrics, running, accepted, finished, discarded>>
      BY <1>1, <1>2 DEF StopLocked
  <2>2. LaneOrder' /\ Accounted' /\ Waiting' = Waiting /\ Busy' = Busy
      BY <2>1, QuietStep
  <2>3. TypeOK' /\ Counted' /\ Shutdown'
      BY <1>1, <2>1, <2>2 DEF TypeOK, OwnerSteps, Counted, Shutdown
  <2> QED
      BY <2>2, <2>3
<1>3. CASE ~drain
  <2>1. /\ tasks' = [m \in Lanes |-> <<>>]
        /\ metrics' = [metrics EXCEPT !["queued"] = metrics["queued"] - Cardinality(Waiting)]
        /\ discarded' = Waiting
      BY <1>1, <1>3 DEF StopLocked
  <2>2. Waiting' = {} /\ Busy' = Busy
      BY <1>1, <2>1 DEF Waiting, Busy
  <2>3. metrics["queued"] - Cardinality(Waiting) = 0
      BY DEF Counted, TypeOK, MetricNames
  <2>4. /\ metrics' \in [MetricNames -> Nat]
        /\ metrics'["queued"] = 0
        /\ metrics'["active"] = metrics["active"]
        /\ metrics'["completed"] = metrics["completed"]
        /\ metrics'["high_water"] = metrics["high_water"]
    <3>1. metrics' = [metrics EXCEPT !["queued"] = 0] /\ metrics \in [MetricNames -> Nat]
        BY <2>1, <2>3 DEF TypeOK
    <3> QED
        BY <3>1 DEF MetricNames
  <2>5. TypeOK'
    <3>1. tasks' \in [Lanes -> Seq(1..Len(accepted))]
        BY <2>1
    <3>2. discarded' \subseteq 1..Len(accepted)
        BY <2>1 DEF Waiting
    <3> QED
        BY <1>1, <2>4, <3>1, <3>2 DEF TypeOK, OwnerSteps
  <2>6. ASSUME NEW i \in Waiting
        PROVE  /\ i \notin finished
               /\ \A m \in Lanes : running[m] # i
    <3>1. PICK m \in Lanes : \E n \in DOMAIN tasks[m] : tasks[m][n] = i
        BY DEF Waiting
    <3>2. PICK n \in 1..Len(tasks[m]) : tasks[m][n] = i
      <4>1. tasks[m] \in Seq(1..Len(accepted))
          BY DEF TypeOK
      <4> QED
          BY <3>1, <4>1
    <3>3. LaneOf[accepted[i]] = m /\ i \notin finished /\ (running[m] # NoTask => running[m] < i)
        BY <3>2 DEF LaneOrder
    <3>4. i \in 1..Len(accepted) /\ i # NoTask
        BY <1>1 DEF Waiting
    <3>5. ASSUME NEW p \in Lanes, running[p] = i PROVE FALSE
      <4>1. LaneOf[accepted[running[p]]] = p /\ running[p] # NoTask
          BY <3>4, <3>5 DEF LaneOrder
      <4>2. p = m
          BY <4>1, <3>3, <3>5
      <4> QED
          BY <4>1, <4>2, <3>3, <3>4, <3>5
    <3> QED
        BY <3>3, <3>5
  <2>7. LaneOrder'
    <3>1. \A m \in Lanes : Len(tasks'[m]) = 0
        BY <2>1
    <3>2. ASSUME NEW m \in Lanes, running[m] # NoTask
          PROVE  running[m] \notin discarded' /\ running[m] \notin finished
                 /\ LaneOf[accepted[running[m]]] = m
        BY <2>1, <2>6, <3>2 DEF LaneOrder
    <3> QED
        BY <1>1, <3>1, <3>2 DEF LaneOrder
  <2>8. Accounted'
      BY <1>1, <2>1, <2>6 DEF Accounted
  <2>9. Counted'
    <3>1. Cardinality({}) = 0 /\ Cardinality(Waiting) = metrics["queued"]
        BY FS_EmptySet DEF Counted
    <3>2. /\ Cardinality(discarded) = 0 /\ Cardinality(discarded') = metrics["queued"]
          /\ Cardinality(Waiting') = 0
        BY <1>1, <2>1, <2>2, <3>1
    <3>3. metrics["queued"] \in Nat /\ metrics["active"] \in Nat /\ metrics["completed"] \in Nat
        BY DEF TypeOK, MetricNames
    <3> QED
        BY <1>1, <2>2, <2>4, <3>2, <3>3 DEF Counted
  <2>10. Shutdown'
      BY <1>1, <1>3, <2>1 DEF Shutdown
  <2> QED
      BY <2>5, <2>7, <2>8, <2>9, <2>10
<1> QED
    BY <1>2, <1>3

--------------------------------------------------------------------------------
\* Every step preserves the invariant.
LEMMA NextInv == ExecutorInv /\ [Next]_vars => ExecutorInv'
<1> SUFFICES ASSUME ExecutorInv, [Next]_vars PROVE ExecutorInv'
    OBVIOUS
<1>1. CASE \E k \in Keys : SubmitAccepted(k)
    BY <1>1, SubmitInv
<1>2. CASE \E l \in Lanes : LaneTake(l)
    BY <1>2, TakeInv
<1>3. CASE \E l \in Lanes : \E threw \in BOOLEAN : LaneDone(l, threw)
    BY <1>3, DoneInv
<1>4. CASE StopLocked
    BY <1>4, StopLockedInv
<1>5. CASE \/ BeginStop \/ BeginStopNotify \/ WaitIdleBlock \/ WaitIdleReturn
           \/ StopDirect \/ StopNotify \/ StopJoined
           \/ \E k \in Keys : SubmitRejected(k)
           \/ \E l \in Lanes : LaneWait(l) \/ LaneExit(l)
           \/ UNCHANGED vars
    BY <1>5, OwnerStepsInv
<1> QED
    BY <1>1, <1>2, <1>3, <1>4, <1>5 DEF Next, Lane, OwnerStop

\* The executor keeps its invariant whatever the producers, the workers and
\* the lifecycle owner do.
THEOREM ExecutorInvariant == Spec => []ExecutorInv
<1>1. Init => ExecutorInv
    BY InitInv
<1>2. ExecutorInv /\ [Next]_vars => ExecutorInv'
    BY NextInv
<1> QED
    BY <1>1, <1>2, PTL DEF Spec

\* Submit, RunLane, BeginStop, WaitIdleUntil and Stop keep the executor's state
\* well typed: in particular no unsigned metric wraps below zero.
THEOREM TypeCorrect == Spec => []TypeOK
<1>1. ExecutorInv => TypeOK
    BY DEF ExecutorInv
<1> QED
    BY <1>1, ExecutorInvariant, PTL

\* queued, active and completed count exactly the waiting, running and finished
\* tasks, the queue stays within its limit, and no accepted task is unaccounted
\* for: what Submit and WaitIdleUntil decide on is true.
THEOREM MetricsAreExact == Spec => []MetricsExact
<1>1. ExecutorInv => MetricsExact
    BY DEF ExecutorInv, Counted, MetricsExact
<1> QED
    BY <1>1, ExecutorInvariant, PTL

\* When Stop has returned, nothing that Submit accepted is still waiting or
\* running, and a draining Stop has discarded nothing.
THEOREM StopIsComplete == Spec => []StopLeavesNothing
<1>1. ExecutorInv => StopLeavesNothing
  <2> SUFFICES ASSUME ExecutorInv, owner = "stopped"
               PROVE  /\ 1..Len(accepted) = finished \cup discarded
                      /\ finished \cap discarded = {}
                      /\ Busy = {}
                      /\ drain => discarded = {}
      BY DEF StopLeavesNothing
  <2> USE DEF ExecutorInv
  <2>1. \A l \in Lanes : tasks[l] = <<>> /\ running[l] = NoTask
      BY DEF Shutdown
  <2>2. Waiting = {} /\ Busy = {}
      BY <2>1 DEF Waiting, Busy
  <2>3. \A i \in 1..Len(accepted) : \A l \in Lanes : running[l] # i
      BY <2>1, ConstantsAssumption
  <2>4. 1..Len(accepted) = finished \cup discarded
      BY <2>2, <2>3 DEF Accounted, TypeOK
  <2> QED
      BY <2>2, <2>4 DEF Accounted, Shutdown
<1> QED
    BY <1>1, ExecutorInvariant, PTL

--------------------------------------------------------------------------------
\* No wakeup is lost: what the two liveness properties rest on.

\* A worker that waits has nothing to do, and is woken before it is joined; an
\* owner blocked in WaitIdleUntil has a task to wait for.
NoWakeupIsLost ==
    /\ \A l \in Lanes : worker[l] = "waiting" =>
          /\ tasks[l] = <<>> /\ running[l] = NoTask
          /\ accepting \/ owner \in {"begun", "notifying"}
    /\ owner = "blockedIdle" => ~Idle

\* The worker of every unfinished task is up, and Stop joins no waiting worker.
WorkIsTended ==
    /\ \A i \in 1..Len(accepted) :
          i \in finished \cup discarded \/ worker[LaneOf[accepted[i]]] = "awake"
    /\ owner = "joining" => \A l \in Lanes : worker[l] # "waiting"

LEMMA SubmitKeepsWakeups ==
    ASSUME ExecutorInv, NoWakeupIsLost, NEW k \in Keys, SubmitAccepted(k)
    PROVE  NoWakeupIsLost'
<1>1. /\ DOMAIN tasks = Lanes /\ DOMAIN worker = Lanes /\ LaneOf[k] \in Lanes
      /\ metrics["queued"] \in Nat /\ DOMAIN metrics = MetricNames
    BY ConstantsAssumption DEF ExecutorInv, TypeOK, MetricNames
<1>2. /\ worker'[LaneOf[k]] # "waiting"
      /\ \A l \in Lanes : l # LaneOf[k] => worker'[l] = worker[l] /\ tasks'[l] = tasks[l]
      /\ UNCHANGED <<accepting, running, owner>>
    BY <1>1 DEF SubmitAccepted, NotifyLane
<1>3. metrics'["queued"] = metrics["queued"] + 1
    BY <1>1 DEF SubmitAccepted, MetricNames
<1>4. ~Idle'
    BY <1>1, <1>3 DEF Idle
<1> QED
    BY <1>2, <1>4 DEF NoWakeupIsLost

LEMMA TakeKeepsWakeups ==
    ASSUME ExecutorInv, NoWakeupIsLost, NEW l \in Lanes, LaneTake(l)
    PROVE  NoWakeupIsLost'
<1>1. /\ DOMAIN tasks = Lanes /\ DOMAIN running = Lanes
      /\ metrics["active"] \in Nat /\ DOMAIN metrics = MetricNames
    BY DEF ExecutorInv, TypeOK, MetricNames
<1>2. /\ worker[l] # "waiting"
      /\ \A m \in Lanes : m # l => tasks'[m] = tasks[m] /\ running'[m] = running[m]
      /\ UNCHANGED <<accepting, worker, owner>>
    BY <1>1 DEF LaneTake
<1>3. metrics'["active"] = metrics["active"] + 1
    BY <1>1 DEF LaneTake, MetricNames
<1>4. ~Idle'
    BY <1>1, <1>3 DEF Idle
<1> QED
    BY <1>2, <1>4 DEF NoWakeupIsLost

LEMMA DoneKeepsWakeups ==
    ASSUME ExecutorInv, NoWakeupIsLost,
           NEW l \in Lanes, NEW threw \in BOOLEAN, LaneDone(l, threw)
    PROVE  NoWakeupIsLost'
<1>1. /\ \A m \in Lanes : running[m] = NoTask => running'[m] = NoTask
      /\ UNCHANGED <<accepting, tasks, worker>>
      /\ owner' # "blockedIdle"
      /\ owner \in {"begun", "notifying"} => owner' = owner
    BY DEF LaneDone, NotifyIdle, ExecutorInv, TypeOK
<1> QED
    BY <1>1 DEF NoWakeupIsLost

LEMMA OwnerKeepsWakeups ==
    ASSUME ExecutorInv, NoWakeupIsLost,
           \/ BeginStop \/ BeginStopNotify \/ WaitIdleBlock \/ WaitIdleReturn
           \/ StopDirect \/ StopLocked \/ StopNotify \/ StopJoined
    PROVE  NoWakeupIsLost'
<1>1. CASE BeginStop
    BY <1>1 DEF BeginStop, NoWakeupIsLost
<1>2. CASE BeginStopNotify
    BY <1>2 DEF BeginStopNotify, NotifyAllLanes, NoWakeupIsLost
<1>3. CASE WaitIdleBlock
    BY <1>3 DEF WaitIdleBlock, Idle, NoWakeupIsLost
<1>4. CASE WaitIdleReturn
    BY <1>4 DEF WaitIdleReturn, NoWakeupIsLost
<1>5. CASE StopDirect
    BY <1>5 DEF StopDirect, NoWakeupIsLost
<1>6. CASE StopLocked
  <2>1. /\ UNCHANGED <<running, worker>> /\ accepting' = FALSE /\ owner' = "notifying"
        /\ \A l \in Lanes : tasks[l] = <<>> => tasks'[l] = <<>>
      BY <1>6 DEF StopLocked
  <2> QED
      BY <2>1 DEF NoWakeupIsLost
<1>7. CASE StopNotify
    BY <1>7 DEF StopNotify, NotifyAllLanes, NoWakeupIsLost
<1>8. CASE StopJoined
    BY <1>8 DEF StopJoined, NoWakeupIsLost
<1> QED
    BY <1>1, <1>2, <1>3, <1>4, <1>5, <1>6, <1>7, <1>8

LEMMA QuietKeepsWakeups ==
    ASSUME ExecutorInv, NoWakeupIsLost,
           \/ \E k \in Keys : SubmitRejected(k)
           \/ \E l \in Lanes : LaneWait(l) \/ LaneExit(l)
           \/ UNCHANGED vars
    PROVE  NoWakeupIsLost'
<1>1. DOMAIN worker = Lanes /\ DOMAIN metrics = MetricNames
    BY DEF ExecutorInv, TypeOK
<1>2. ASSUME NEW k \in Keys, SubmitRejected(k) PROVE NoWakeupIsLost'
  <2>1. /\ metrics'["queued"] = metrics["queued"] /\ metrics'["active"] = metrics["active"]
        /\ UNCHANGED <<accepting, tasks, running, worker, owner>>
      BY <1>1, <1>2 DEF SubmitRejected, MetricNames
  <2> QED
      BY <2>1 DEF NoWakeupIsLost, Idle
<1>3. ASSUME NEW l \in Lanes, LaneWait(l) PROVE NoWakeupIsLost'
    BY <1>1, <1>3 DEF LaneWait, NoWakeupIsLost, Idle
<1>4. ASSUME NEW l \in Lanes, LaneExit(l) PROVE NoWakeupIsLost'
    BY <1>1, <1>4 DEF LaneExit, NoWakeupIsLost, Idle
<1>5. CASE UNCHANGED vars
    BY <1>5 DEF vars, NoWakeupIsLost, Idle
<1> QED
    BY <1>2, <1>3, <1>4, <1>5

\* Submit notifies under the mutex and RunLane decides to wait under it, so no
\* worker sleeps on a task; BeginStop and Stop notify outside it, and no worker
\* falls asleep in between.
THEOREM WakeupsAreKept == Spec => []NoWakeupIsLost
<1>1. Init => NoWakeupIsLost
    BY DEF Init, NoWakeupIsLost
<1>2. ExecutorInv /\ NoWakeupIsLost /\ [Next]_vars => NoWakeupIsLost'
    BY SubmitKeepsWakeups, TakeKeepsWakeups, DoneKeepsWakeups, OwnerKeepsWakeups,
       QuietKeepsWakeups DEF Next, Lane, OwnerStop
<1> QED
    BY <1>1, <1>2, ExecutorInvariant, PTL DEF Spec

\* While an accepted task is neither finished nor discarded, the worker of its
\* lane is running, and a Stop that joins the workers finds none of them asleep:
\* no state is a deadlock of Submit, RunLane and Stop.
THEOREM UnfinishedWorkIsTended == Spec => []WorkIsTended
<1>1. ExecutorInv /\ NoWakeupIsLost => WorkIsTended
  <2> SUFFICES ASSUME ExecutorInv, NoWakeupIsLost PROVE WorkIsTended
      OBVIOUS
  <2>1. ASSUME NEW i \in 1..Len(accepted), i \notin finished \cup discarded
        PROVE  worker[LaneOf[accepted[i]]] = "awake"
    <3>1. PICK l \in Lanes : LaneOf[accepted[i]] = l
                             /\ (running[l] = i \/ \E n \in DOMAIN tasks[l] : tasks[l][n] = i)
      <4>1. CASE \E l \in Lanes : running[l] = i
          BY <4>1, ConstantsAssumption DEF ExecutorInv, LaneOrder, TypeOK
      <4>2. CASE i \in Waiting
        <5>1. PICK l \in Lanes : \E n \in DOMAIN tasks[l] : tasks[l][n] = i
            BY <4>2 DEF Waiting
        <5>2. DOMAIN tasks[l] = 1..Len(tasks[l])
            BY DEF ExecutorInv, TypeOK
        <5>3. LaneOf[accepted[i]] = l
            BY <5>1, <5>2 DEF ExecutorInv, LaneOrder
        <5> QED
            BY <5>1, <5>3
      <4> QED
          BY <2>1, <4>1, <4>2 DEF ExecutorInv, Accounted
    <3>2. i \in Nat
        OBVIOUS
    <3>3. running[l] # NoTask \/ tasks[l] # <<>>
        BY <3>1, <3>2, ConstantsAssumption
    <3>4. worker[l] # "waiting" /\ worker[l] # "exited"
        BY <3>3 DEF NoWakeupIsLost, ExecutorInv, Shutdown
    <3> QED
        BY <3>1, <3>4 DEF ExecutorInv, TypeOK
  <2>2. ASSUME owner = "joining", NEW l \in Lanes PROVE worker[l] # "waiting"
      BY <2>2 DEF NoWakeupIsLost, ExecutorInv, Shutdown
  <2> QED
      BY <2>1, <2>2 DEF WorkIsTended
<1> QED
    BY <1>1, ExecutorInvariant, WakeupsAreKept, PTL

--------------------------------------------------------------------------------
\* Refinement: the executor implements KeyedSerialExecutor.

TaskNames == {"pending", "active", "done", "dropped"}

\* Two sequences of the same length and elements are equal.
LEMMA SeqEqual ==
    ASSUME NEW S, NEW p \in Seq(S), NEW q \in Seq(S), Len(p) = Len(q),
           \A i \in 1..Len(p) : p[i] = q[i]
    PROVE  p = q
OBVIOUS

\* A step that moves no task and keeps admission as it is stutters.
LEMMA QuietView ==
    ASSUME UNCHANGED <<running, accepted, finished, discarded>>
    PROVE  AbstractState' = AbstractState
BY DEF AbstractState, View

\* The executor starts as an empty keyed serial executor.
LEMMA InitRefines == Init => Serial!SpecInit
<1> SUFFICES ASSUME Init PROVE Serial!SpecInit
    OBVIOUS
<1>1. Len(accepted) = 0 /\ accepted = <<>> /\ accepting = TRUE
    BY DEF Init
<1>2. AbstractState = <<>>
    BY <1>1 DEF AbstractState
<1> QED
    BY <1>1, <1>2 DEF Serial!SpecInit, AbstractState, View

\* An accepted Submit is the abstract submission of its task.
LEMMA SubmitRefines ==
    ASSUME ExecutorInv, NEW k \in Keys, SubmitAccepted(k)
    PROVE  /\ accepting /\ accepting' = accepting
           /\ accepted' = Append(accepted, k)
           /\ AbstractState' = Append(AbstractState, "pending")
<1> USE ConstantsAssumption DEF ExecutorInv
<1>1. /\ accepting /\ UNCHANGED <<accepting, running, finished, discarded>>
      /\ accepted' = Append(accepted, k) /\ accepted \in Seq(Keys)
      /\ Len(accepted) \in Nat /\ Len(accepted') = Len(accepted) + 1
    BY DEF SubmitAccepted, TypeOK
<1>2. ASSUME NEW i \in 1..Len(accepted) PROVE View(i)' = View(i)
    BY <1>1 DEF View
<1>3. ASSUME NEW i \in Nat, i = Len(accepted) + 1 PROVE View(i)' = "pending"
  <2>0. /\ Len(accepted) + 1 \in Nat /\ Len(accepted) + 1 \notin 1..Len(accepted)
        /\ Len(accepted) + 1 # NoTask
      BY <1>1
  <2>1. Len(accepted) + 1 \notin finished \cup discarded
      BY <2>0 DEF TypeOK
  <2>2. \A l \in Lanes : running[l] # Len(accepted) + 1
      BY <2>0 DEF TypeOK
  <2> QED
      BY <1>1, <1>3, <2>1, <2>2 DEF View
<1>4. AbstractState \in Seq(TaskNames) /\ Len(AbstractState) = Len(accepted)
    BY <1>1 DEF AbstractState, View, TaskNames
<1>5. AbstractState' = [i \in 1..(Len(accepted) + 1) |-> View(i)']
    BY <1>1 DEF AbstractState
<1>6. ASSUME NEW i \in 1..(Len(accepted) + 1)
      PROVE  Append(AbstractState, "pending")[i] = View(i)'
  <2>1. CASE i = Len(accepted) + 1
    <3>1. View(i)' = "pending"
        BY <2>1, <1>1, <1>3
    <3>2. Append(AbstractState, "pending")[i] = "pending"
        BY <2>1, <1>4
    <3> QED
        BY <3>1, <3>2
  <2>2. CASE i \in 1..Len(accepted)
    <3>1. Append(AbstractState, "pending")[i] = AbstractState[i]
        BY <2>2, <1>1, <1>4
    <3> QED
        BY <2>2, <3>1, <1>2 DEF AbstractState
  <2>3. i = Len(accepted) + 1 \/ i \in 1..Len(accepted)
      BY <1>1
  <2> QED
      BY <2>1, <2>2, <2>3
<1>7. /\ Append(AbstractState, "pending") \in Seq(TaskNames)
      /\ Len(Append(AbstractState, "pending")) = Len(accepted) + 1
    BY <1>4 DEF TaskNames
<1>8. /\ AbstractState' \in Seq(TaskNames) /\ Len(AbstractState') = Len(accepted) + 1
      /\ \A i \in 1..(Len(accepted) + 1) : AbstractState'[i] = View(i)'
    BY <1>1, <1>5 DEF View, TaskNames
<1>9. AbstractState' = Append(AbstractState, "pending")
    BY <1>6, <1>7, <1>8, SeqEqual
<1> QED
    BY <1>1, <1>9

\* Taking the head of a lane starts a task none of whose predecessors of the
\* same key is unfinished.
LEMMA TakeRefines ==
    ASSUME ExecutorInv, NEW l \in Lanes, LaneTake(l)
    PROVE  \E i \in 1..Len(accepted) :
              /\ View(i) = "pending"
              /\ \A j \in 1..(i - 1) : accepted[j] = accepted[i] => View(j) = "done"
              /\ AbstractState' = [AbstractState EXCEPT ![i] = "active"]
<1> DEFINE head == Head(tasks[l])
<1> USE ConstantsAssumption DEF ExecutorInv
<1>1. /\ Len(accepted) \in Nat
      /\ tasks[l] \in Seq(1..Len(accepted)) /\ tasks[l] # <<>>
      /\ DOMAIN running = Lanes /\ running[l] = NoTask
      /\ running' = [running EXCEPT ![l] = head]
      /\ UNCHANGED <<accepted, finished, discarded>>
    BY DEF LaneTake, TypeOK
<1>2. /\ head = tasks[l][1] /\ 1 \in 1..Len(tasks[l])
      /\ head \in 1..Len(accepted) /\ head \in Nat /\ head # NoTask
    BY <1>1
<1>3. /\ LaneOf[accepted[head]] = l
      /\ head \notin finished \cup discarded
      /\ discarded = {}
    BY <1>1, <1>2 DEF LaneOrder, Shutdown
<1>4. \A m \in Lanes : running[m] # head
  <2> SUFFICES ASSUME NEW m \in Lanes, running[m] = head PROVE FALSE
      OBVIOUS
  <2>1. LaneOf[accepted[running[m]]] = m
      BY <1>2 DEF LaneOrder
  <2> QED
      BY <2>1, <1>1, <1>2, <1>3
<1>5. View(head) = "pending"
    BY <1>3, <1>4 DEF View
<1>6. ASSUME NEW j \in 1..(head - 1), accepted[j] = accepted[head]
      PROVE  View(j) = "done"
  <2>1. j \in 1..Len(accepted) /\ j < head /\ j # NoTask
      BY <1>1, <1>2
  <2>2. ASSUME NEW m \in Lanes, running[m] = j PROVE FALSE
    <3>1. LaneOf[accepted[running[m]]] = m /\ running[m] # NoTask
        BY <2>1, <2>2 DEF LaneOrder
    <3> QED
        BY <3>1, <2>2, <1>1, <1>3, <1>6
  <2>3. ASSUME j \in Waiting PROVE FALSE
    <3>1. PICK m \in Lanes : \E n \in DOMAIN tasks[m] : tasks[m][n] = j
        BY <2>3 DEF Waiting
    <3>2. PICK n \in 1..Len(tasks[m]) : tasks[m][n] = j
      <4>1. tasks[m] \in Seq(1..Len(accepted))
          BY DEF TypeOK
      <4> QED
          BY <3>1, <4>1
    <3>3. LaneOf[accepted[j]] = m
        BY <3>2 DEF LaneOrder
    <3>4. m = l
        BY <3>3, <1>3, <1>6
    <3>5. n = 1 \/ tasks[l][1] < tasks[l][n]
      <4>1. n = 1 \/ 1 < n
          BY <3>2, <1>1
      <4> QED
          BY <3>2, <3>4, <4>1, <1>2 DEF LaneOrder
    <3> QED
        BY <3>2, <3>4, <3>5, <2>1, <1>2
  <2>4. j \in finished
      BY <2>1, <2>2, <2>3, <1>3 DEF Accounted
  <2> QED
      BY <2>4 DEF View
<1>7. ASSUME NEW i \in 1..Len(accepted) PROVE View(i)' = IF i = head THEN "active" ELSE View(i)
  <2>1. (\E m \in Lanes : running'[m] = i) <=> (i = head \/ \E m \in Lanes : running[m] = i)
      BY <1>1, <1>2
  <2> QED
      BY <2>1, <1>1, <1>3 DEF View
<1>8. AbstractState' = [AbstractState EXCEPT ![head] = "active"]
    BY <1>1, <1>2, <1>7 DEF AbstractState
<1> QED
    BY <1>2, <1>5, <1>6, <1>8

\* A worker that finishes a task completes it in the abstract executor.
LEMMA DoneRefines ==
    ASSUME ExecutorInv, NEW l \in Lanes, NEW threw \in BOOLEAN, LaneDone(l, threw)
    PROVE  \E i \in 1..Len(accepted) :
              /\ View(i) = "active"
              /\ AbstractState' = [AbstractState EXCEPT ![i] = "done"]
<1> DEFINE task == running[l]
<1> USE ConstantsAssumption DEF ExecutorInv
<1>1. /\ Len(accepted) \in Nat /\ task \in 1..Len(accepted) /\ task # NoTask
      /\ DOMAIN running = Lanes
      /\ running' = [running EXCEPT ![l] = NoTask]
      /\ finished' = finished \cup {task}
      /\ UNCHANGED <<accepted, discarded>>
    BY DEF LaneDone, TypeOK
<1>2. LaneOf[accepted[task]] = l /\ task \notin finished \cup discarded
    BY <1>1 DEF LaneOrder
<1>3. View(task) = "active"
    BY <1>2 DEF View
<1>4. ASSUME NEW i \in 1..Len(accepted) PROVE View(i)' = IF i = task THEN "done" ELSE View(i)
  <2>1. CASE i = task
      BY <2>1, <1>1 DEF View
  <2>2. CASE i # task
    <3>1. (\E m \in Lanes : running'[m] = i) <=> (\E m \in Lanes : running[m] = i)
        BY <2>2, <1>1
    <3> QED
        BY <2>2, <3>1, <1>1 DEF View
  <2> QED
      BY <2>1, <2>2
<1>5. AbstractState' = [AbstractState EXCEPT ![task] = "done"]
    BY <1>1, <1>4 DEF AbstractState
<1> QED
    BY <1>1, <1>3, <1>5

\* Stop(false) turns exactly the waiting tasks into dropped ones.
LEMMA DiscardRefines ==
    ASSUME ExecutorInv, StopLocked, ~drain
    PROVE  AbstractState' = [i \in 1..Len(accepted) |->
                                IF View(i) = "pending" THEN "dropped" ELSE View(i)]
<1> USE ConstantsAssumption DEF ExecutorInv
<1>1. /\ discarded' = discarded \cup Waiting /\ discarded = {}
      /\ UNCHANGED <<running, accepted, finished>>
    BY DEF StopLocked, Shutdown
<1>2. ASSUME NEW i \in 1..Len(accepted)
      PROVE  View(i)' = IF View(i) = "pending" THEN "dropped" ELSE View(i)
  <2>1. i \in Waiting => i \notin finished /\ \A m \in Lanes : running[m] # i
    <3> SUFFICES ASSUME i \in Waiting
                 PROVE  i \notin finished /\ \A m \in Lanes : running[m] # i
        OBVIOUS
    <3>1. PICK m \in Lanes : \E n \in DOMAIN tasks[m] : tasks[m][n] = i
        BY DEF Waiting
    <3>2. PICK n \in 1..Len(tasks[m]) : tasks[m][n] = i
      <4>1. tasks[m] \in Seq(1..Len(accepted))
          BY DEF TypeOK
      <4> QED
          BY <3>1, <4>1
    <3>3. LaneOf[accepted[i]] = m /\ i \notin finished /\ (running[m] # NoTask => running[m] < i)
        BY <3>2 DEF LaneOrder
    <3>4. ASSUME NEW p \in Lanes, running[p] = i PROVE FALSE
      <4>1. running[p] # NoTask /\ i \in Nat
          BY <3>4 DEF TypeOK
      <4>2. LaneOf[accepted[running[p]]] = p
          BY <4>1 DEF LaneOrder
      <4>3. p = m
          BY <4>2, <3>3, <3>4
      <4> QED
          BY <4>1, <4>3, <3>3, <3>4
    <3> QED
        BY <3>3, <3>4
  <2>2. CASE i \in finished
      BY <2>1, <2>2, <1>1 DEF View
  <2>3. CASE i \notin finished /\ \E m \in Lanes : running[m] = i
      BY <2>1, <2>3, <1>1 DEF View
  <2>4. CASE i \notin finished /\ ~\E m \in Lanes : running[m] = i
    <3>1. i \in Waiting
        BY <2>4, <1>1 DEF Accounted
    <3> QED
        BY <2>4, <3>1, <1>1 DEF View
  <2> QED
      BY <2>2, <2>3, <2>4
<1> QED
    BY <1>1, <1>2 DEF AbstractState

\* Every step of the executor is a step of the serial executor, or a stutter.
LEMMA NextRefines ==
    ExecutorInv /\ [Next]_vars => [Serial!SpecNext]_(Serial!specVars)
<1> SUFFICES ASSUME ExecutorInv, [Next]_vars
             PROVE  [Serial!SpecNext]_(Serial!specVars)
    OBVIOUS
<1> USE DEF Serial!specVars
<1>0. DOMAIN AbstractState = 1..Len(accepted) /\ Len(accepted) \in Nat
      /\ \A i \in 1..Len(accepted) : AbstractState[i] = View(i)
    BY DEF AbstractState, ExecutorInv, TypeOK
<1>1. CASE \E k \in Keys : SubmitAccepted(k)
    BY <1>1, SubmitRefines DEF Serial!SpecNext, Serial!Accept
<1>2. CASE \E l \in Lanes : LaneTake(l)
  <2>1. PICK l \in Lanes : LaneTake(l)
      BY <1>2
  <2>2. PICK i \in 1..Len(accepted) :
              /\ View(i) = "pending"
              /\ \A j \in 1..(i - 1) : accepted[j] = accepted[i] => View(j) = "done"
              /\ AbstractState' = [AbstractState EXCEPT ![i] = "active"]
      BY <2>1, TakeRefines
  <2>3. UNCHANGED <<accepted, accepting>>
      BY <2>1 DEF LaneTake
  <2>4. ASSUME NEW j \in Serial!Earlier(i) PROVE AbstractState[j] = "done"
    <3>1. j \in 1..(i - 1) /\ accepted[j] = accepted[i] /\ j \in 1..Len(accepted)
        BY <1>0 DEF Serial!Earlier
    <3> QED
        BY <3>1, <2>2, <1>0
  <2>5. Serial!Begin(i)
      BY <2>2, <2>3, <2>4, <1>0 DEF Serial!Begin
  <2> QED
      BY <2>5, <1>0 DEF Serial!SpecNext
<1>3. CASE \E l \in Lanes : \E threw \in BOOLEAN : LaneDone(l, threw)
  <2>1. PICK l \in Lanes, threw \in BOOLEAN : LaneDone(l, threw)
      BY <1>3
  <2>2. PICK i \in 1..Len(accepted) :
              /\ View(i) = "active"
              /\ AbstractState' = [AbstractState EXCEPT ![i] = "done"]
      BY <2>1, DoneRefines
  <2>3. UNCHANGED <<accepted, accepting>>
      BY <2>1 DEF LaneDone
  <2>4. Serial!Finish(i)
      BY <2>2, <2>3, <1>0 DEF Serial!Finish
  <2> QED
      BY <2>4, <1>0 DEF Serial!SpecNext
<1>4. CASE StopLocked
  <2>1. CASE drain
    <3>1. AbstractState' = AbstractState /\ accepted' = accepted /\ accepting' = FALSE
        BY <1>4, <2>1, QuietView DEF StopLocked
    <3>2. accepting \in BOOLEAN
        BY DEF ExecutorInv, TypeOK
    <3> QED
        BY <3>1, <3>2 DEF Serial!SpecNext, Serial!CutOff
  <2>2. CASE ~drain
    <3>1. /\ AbstractState' = [i \in 1..Len(accepted) |->
                                 IF View(i) = "pending" THEN "dropped" ELSE View(i)]
          /\ accepting' = FALSE /\ accepted' = accepted
        BY <1>4, <2>2, DiscardRefines DEF StopLocked
    <3>2. Serial!Discard
        BY <3>1, <1>0 DEF Serial!Discard
    <3> QED
        BY <3>2 DEF Serial!SpecNext
  <2> QED
      BY <2>1, <2>2
<1>5. CASE BeginStop
  <2>1. AbstractState' = AbstractState /\ accepted' = accepted /\ accepting' = FALSE
      BY <1>5, QuietView DEF BeginStop
  <2>2. accepting \in BOOLEAN
      BY DEF ExecutorInv, TypeOK
  <2> QED
      BY <2>1, <2>2 DEF Serial!SpecNext, Serial!CutOff
<1>6. CASE \/ BeginStopNotify \/ WaitIdleBlock \/ WaitIdleReturn
           \/ StopDirect \/ StopNotify \/ StopJoined
           \/ \E k \in Keys : SubmitRejected(k)
           \/ \E l \in Lanes : LaneWait(l) \/ LaneExit(l)
           \/ UNCHANGED vars
  <2>1. UNCHANGED <<running, accepted, finished, discarded, accepting>>
      BY <1>6 DEF BeginStopNotify, WaitIdleBlock, WaitIdleReturn, StopDirect,
           StopNotify, StopJoined, SubmitRejected, LaneWait, LaneExit, vars
  <2> QED
      BY <2>1, QuietView
<1> QED
    BY <1>1, <1>2, <1>3, <1>4, <1>5, <1>6 DEF Next, Lane, OwnerStop

\* Tasks of one connection run one at a time in the order Submit accepted them,
\* and an accepted task is run once or discarded once, for every number of
\* connections, lanes and tasks.
THEOREM ExecutorIsSerialPerKey == Spec => SerialPerKey
<1>1. Init => Serial!SpecInit
    BY InitRefines
<1>2. ExecutorInv /\ [Next]_vars => [Serial!SpecNext]_(Serial!specVars)
    BY NextRefines
<1> QED
    BY <1>1, <1>2, ExecutorInvariant, PTL DEF Spec, SerialPerKey, Serial!SerialSpec

--------------------------------------------------------------------------------
\* The connection pools the workers borrow from.

\* Threads that have taken a slot of MySqlPool and not put one back.
Borrowing == {t \in Threads : at[t] \in MySqlSteps}

\* No slot is lost or doubled, however a borrow ends; a closed pool has none.
SlotsAreCounted ==
    IF mysql.stopped THEN mysql.slots = 0
                     ELSE mysql.slots + Cardinality(Borrowing) = MySqlPoolSize

\* The flag of RedisConPool::Close is set before the idle connections are freed.
FlagComesFirst == closing # "no" => redis.stopped

PoolInv == PoolTypes /\ LiveIsExact /\ SlotsAreCounted /\ FlagComesFirst

\* The threads at one of the steps A, before and after a thread moves.
Among(A) == {t \in Threads : at[t] \in A}

LEMMA AmongFinite ==
    ASSUME NEW A
    PROVE  IsFiniteSet(Among(A)) /\ Cardinality(Among(A)) \in Nat
<1>1. Among(A) \subseteq Threads
    BY DEF Among
<1> QED
    BY <1>1, PoolAssumption, FS_Subset, FS_CardinalityType

LEMMA MoveCounts ==
    ASSUME DOMAIN at = Threads, NEW t \in Threads, NEW to,
           at' = [at EXCEPT ![t] = to], NEW A
    PROVE  Cardinality(Among(A))' =
              IF at[t] \in A
              THEN IF to \in A THEN Cardinality(Among(A)) ELSE Cardinality(Among(A)) - 1
              ELSE IF to \in A THEN Cardinality(Among(A)) + 1 ELSE Cardinality(Among(A))
<1>1. at'[t] = to /\ \A u \in Threads : u # t => at'[u] = at[u]
    OBVIOUS
<1>2. IsFiniteSet(Among(A))
    BY AmongFinite
<1>3. CASE at[t] \in A /\ to \in A
  <2>1. Among(A)' = Among(A)
    BY <1>1, <1>3 DEF Among
  <2> QED
    BY <1>3, <2>1
<1>4. CASE at[t] \in A /\ to \notin A
  <2>1. Among(A)' = Among(A) \ {t} /\ t \in Among(A)
    BY <1>1, <1>4 DEF Among
  <2>2. Cardinality(Among(A) \ {t}) = Cardinality(Among(A)) - 1
    BY <1>2, <2>1, FS_RemoveElement
  <2> QED
    BY <1>4, <2>1, <2>2
<1>5. CASE at[t] \notin A /\ to \in A
  <2>1. Among(A)' = Among(A) \cup {t} /\ t \notin Among(A)
    BY <1>1, <1>5 DEF Among
  <2>2. Cardinality(Among(A) \cup {t}) = Cardinality(Among(A)) + 1
    BY <1>2, <2>1, FS_AddElement
  <2> QED
    BY <1>5, <2>1, <2>2
<1>6. CASE at[t] \notin A /\ to \notin A
  <2>1. Among(A)' = Among(A)
    BY <1>1, <1>6 DEF Among
  <2> QED
    BY <1>6, <2>1
<1> QED
    BY <1>3, <1>4, <1>5, <1>6

\* Steps at which a thread holds a connection that is counted.
HoldingSteps == {"redisUse", "redisReturn", "redisBroken", "redisPush"}

\* A thread's move, as seen by the two counts.
LEMMA ThreadMoves ==
    ASSUME PoolInv, NEW t \in Threads, NEW from, NEW to, Goto(t, from, to)
    PROVE  /\ Cardinality(Holding) \in Nat /\ Cardinality(Borrowing) \in Nat
           /\ (from \in HoldingSteps /\ to \in HoldingSteps)
                => Cardinality(Holding)' = Cardinality(Holding)
           /\ (from \in HoldingSteps /\ to \notin HoldingSteps)
                => Cardinality(Holding)' = Cardinality(Holding) - 1
           /\ (from \notin HoldingSteps /\ to \in HoldingSteps)
                => Cardinality(Holding)' = Cardinality(Holding) + 1
           /\ (from \notin HoldingSteps /\ to \notin HoldingSteps)
                => Cardinality(Holding)' = Cardinality(Holding)
           /\ (from \in MySqlSteps /\ to \in MySqlSteps)
                => Cardinality(Borrowing)' = Cardinality(Borrowing)
           /\ (from \in MySqlSteps /\ to \notin MySqlSteps)
                => Cardinality(Borrowing)' = Cardinality(Borrowing) - 1
           /\ (from \notin MySqlSteps /\ to \in MySqlSteps)
                => Cardinality(Borrowing)' = Cardinality(Borrowing) + 1
           /\ (from \notin MySqlSteps /\ to \notin MySqlSteps)
                => Cardinality(Borrowing)' = Cardinality(Borrowing)
           /\ to \in {"away"} \cup RedisSteps \cup MySqlSteps
                => at' \in [Threads -> {"away"} \cup RedisSteps \cup MySqlSteps]
<1>1. DOMAIN at = Threads /\ at[t] = from /\ at' = [at EXCEPT ![t] = to]
      /\ at \in [Threads -> {"away"} \cup RedisSteps \cup MySqlSteps]
    BY DEF PoolInv, PoolTypes, Goto
<1>2. Holding = Among(HoldingSteps) /\ Holding' = Among(HoldingSteps)'
      /\ Borrowing = Among(MySqlSteps) /\ Borrowing' = Among(MySqlSteps)'
    BY DEF Holding, HoldingSteps, Borrowing, Among
<1>3. Cardinality(Among(HoldingSteps))' =
         IF from \in HoldingSteps
         THEN IF to \in HoldingSteps THEN Cardinality(Among(HoldingSteps))
                                     ELSE Cardinality(Among(HoldingSteps)) - 1
         ELSE IF to \in HoldingSteps THEN Cardinality(Among(HoldingSteps)) + 1
                                     ELSE Cardinality(Among(HoldingSteps))
    BY <1>1, MoveCounts
<1>4. Cardinality(Among(MySqlSteps))' =
         IF from \in MySqlSteps
         THEN IF to \in MySqlSteps THEN Cardinality(Among(MySqlSteps))
                                   ELSE Cardinality(Among(MySqlSteps)) - 1
         ELSE IF to \in MySqlSteps THEN Cardinality(Among(MySqlSteps)) + 1
                                   ELSE Cardinality(Among(MySqlSteps))
    BY <1>1, MoveCounts
<1>5. Cardinality(Among(HoldingSteps)) \in Nat /\ Cardinality(Among(MySqlSteps)) \in Nat
    BY AmongFinite
<1>6. to \in {"away"} \cup RedisSteps \cup MySqlSteps
        => at' \in [Threads -> {"away"} \cup RedisSteps \cup MySqlSteps]
    BY <1>1
<1> QED
    BY <1>2, <1>3, <1>4, <1>5, <1>6

\* A move of a thread that RedisConPool has, with what becomes of the pool.
LEMMA RedisMoveKeeps ==
    ASSUME PoolInv, NEW t \in Threads, NEW from, NEW to, Goto(t, from, to),
           from \notin MySqlSteps, to \in {"away"} \cup RedisSteps,
           UNCHANGED <<mysql, closing, up, outages>>,
           NEW i \in Nat, NEW n, NEW s \in BOOLEAN,
           redis' = [idle |-> i, live |-> n, stopped |-> s, limited |-> redis.limited],
           redis.stopped => s, n = i + Cardinality(Holding)'
    PROVE  PoolInv'
<1>1. to \notin MySqlSteps /\ to \in {"away"} \cup RedisSteps \cup MySqlSteps
    BY DEF RedisSteps, MySqlSteps
<1>2. /\ at' \in [Threads -> {"away"} \cup RedisSteps \cup MySqlSteps]
      /\ Cardinality(Borrowing)' = Cardinality(Borrowing)
    BY <1>1, ThreadMoves
<1>3. Cardinality(Holding)' \in Nat
  <2>1. Holding' = Among(HoldingSteps)'
    BY DEF Holding, HoldingSteps, Among
  <2>2. Among(HoldingSteps)' \subseteq Threads
    BY DEF Among
  <2> QED
    BY <2>1, <2>2, PoolAssumption, FS_Subset, FS_CardinalityType
<1>4. redis'.idle = i /\ redis'.live = n /\ redis'.stopped = s /\ n \in Nat
    BY <1>3
<1>5. PoolTypes'
  <2>1. redis' \in [idle : Nat, live : Nat, stopped : BOOLEAN, limited : BOOLEAN]
    BY <1>4 DEF PoolInv, PoolTypes
  <2> QED
    BY <1>2, <2>1 DEF PoolInv, PoolTypes
<1>6. LiveIsExact'
    BY <1>4 DEF LiveIsExact
<1>7. SlotsAreCounted'
    BY <1>2 DEF PoolInv, SlotsAreCounted
<1>8. FlagComesFirst'
    BY <1>4 DEF PoolInv, FlagComesFirst
<1> QED
    BY <1>5, <1>6, <1>7, <1>8 DEF PoolInv

\* The same for MySqlPool.
LEMMA MySqlMoveKeeps ==
    ASSUME PoolInv, NEW t \in Threads, NEW from, NEW to, Goto(t, from, to),
           from \notin HoldingSteps, to \in {"away"} \cup MySqlSteps,
           UNCHANGED <<redis, closing, up, outages>>,
           NEW n \in 0..MySqlPoolSize, NEW s \in BOOLEAN,
           mysql' = [slots |-> n, stopped |-> s],
           IF s THEN n = 0 ELSE n + Cardinality(Borrowing)' = MySqlPoolSize
    PROVE  PoolInv'
<1>1. to \notin HoldingSteps /\ to \in {"away"} \cup RedisSteps \cup MySqlSteps
    BY DEF HoldingSteps, MySqlSteps
<1>2. /\ at' \in [Threads -> {"away"} \cup RedisSteps \cup MySqlSteps]
      /\ Cardinality(Holding)' = Cardinality(Holding)
    BY <1>1, ThreadMoves
<1>3. mysql'.slots = n /\ mysql'.stopped = s
    OBVIOUS
<1>4. PoolTypes'
  <2>1. mysql' \in [slots : 0..MySqlPoolSize, stopped : BOOLEAN]
    OBVIOUS
  <2> QED
    BY <1>2, <2>1 DEF PoolInv, PoolTypes
<1>5. LiveIsExact' /\ FlagComesFirst'
    BY <1>2 DEF PoolInv, LiveIsExact, FlagComesFirst
<1>6. SlotsAreCounted'
    BY <1>3 DEF SlotsAreCounted
<1> QED
    BY <1>4, <1>5, <1>6 DEF PoolInv

\* The two pools as records, and the counts as numbers.
LEMMA PoolRecords ==
    ASSUME PoolInv
    PROVE  /\ redis = [idle |-> redis.idle, live |-> redis.live, stopped |-> redis.stopped,
                        limited |-> redis.limited]
           /\ redis.idle \in Nat /\ redis.live \in Nat /\ redis.stopped \in BOOLEAN
           /\ redis.limited \in BOOLEAN
           /\ redis.live = redis.idle + Cardinality(Holding)
           /\ Cardinality(Holding) \in Nat
           /\ mysql = [slots |-> mysql.slots, stopped |-> mysql.stopped]
           /\ mysql.slots \in 0..MySqlPoolSize /\ mysql.stopped \in BOOLEAN
<1>1. Holding = Among(HoldingSteps)
    BY DEF Holding, HoldingSteps, Among
<1> QED
    BY <1>1, AmongFinite DEF PoolInv, PoolTypes, LiveIsExact

LEMMA RedisStepsKeep ==
    ASSUME PoolInv, NEW t \in Threads,
           \/ RedisGet(t) \/ RedisWait(t) \/ RedisBlock(t) \/ RedisGiveUp(t)
           \/ RedisCommand(t) \/ RedisReturnStopped(t) \/ RedisReturnGood(t)
           \/ RedisReturnBroken(t) \/ CreateConnection(t) \/ RedisCheckLast(t)
           \/ RedisStopPool(t) \/ RedisCountNew(t) \/ RedisPush(t)
    PROVE  PoolInv'
<1> USE PoolRecords DEF RedisStep
<1> DEFINE h == Cardinality(Holding)
           i == redis.idle
           n == redis.live
           s == redis.stopped
           Kept(j, m, f) ==
               redis' = [idle |-> j, live |-> m, stopped |-> f, limited |-> redis.limited]
<1>0. UNCHANGED <<mysql, closing, up, outages>>
    BY DEF RedisGet, RedisWait, RedisBlock, RedisGiveUp, RedisCommand, RedisReturnStopped,
           RedisReturnGood, RedisReturnBroken, CreateConnection, RedisCheckLast,
           RedisStopPool, RedisCountNew, RedisPush
<1>1. CASE RedisGet(t)
  <2>1. Kept(i - 1, n, s) /\ i > 0
    BY <1>1 DEF RedisGet
  <2>2. PICK from \in {"away", "redisWoken", "redisAsleep"} : Goto(t, from, "redisUse")
    BY <1>1 DEF RedisGet, Evaluates, Goto
  <2>3. Cardinality(Holding)' = h + 1
    BY <2>2, ThreadMoves DEF HoldingSteps
  <2>4. i - 1 \in Nat /\ n = (i - 1) + Cardinality(Holding)'
    BY <2>1, <2>3
  <2> QED
    BY <1>0, <2>1, <2>2, <2>4, RedisMoveKeeps DEF RedisSteps, MySqlSteps
<1>2. CASE RedisCommand(t) \/ RedisReturnGood(t)
  <2>1. Kept(i, n, s) /\ \E to \in {"redisReturn", "redisBroken", "redisPush"} :
                            Goto(t, "redisUse", to) \/ Goto(t, "redisReturn", to)
    BY <1>2 DEF RedisCommand, RedisReturnGood
  <2>2. PICK from \in {"redisUse", "redisReturn"}, to \in {"redisReturn", "redisBroken", "redisPush"} :
            Goto(t, from, to)
    BY <2>1
  <2>3. Cardinality(Holding)' = h
    BY <2>2, ThreadMoves DEF HoldingSteps
  <2> QED
    BY <1>0, <2>1, <2>2, <2>3, RedisMoveKeeps DEF RedisSteps, MySqlSteps
<1>3. CASE RedisReturnStopped(t)
  <2>1. Kept(i, n - 1, s)
    BY <1>3 DEF RedisReturnStopped
  <2>2. PICK from \in {"redisReturn", "redisBroken"} : Goto(t, from, "away")
    BY <1>3 DEF RedisReturnStopped
  <2>3. Cardinality(Holding)' = h - 1
    BY <2>2, ThreadMoves DEF HoldingSteps
  <2>4. n - 1 = i + Cardinality(Holding)'
    BY <2>3
  <2> QED
    BY <1>0, <2>1, <2>2, <2>4, RedisMoveKeeps DEF MySqlSteps
<1>4. CASE RedisReturnBroken(t)
  <2>1. Goto(t, "redisBroken", "redisMake") /\ Kept(i, n - 1, s)
    BY <1>4 DEF RedisReturnBroken
  <2>2. Cardinality(Holding)' = h - 1
    BY <2>1, ThreadMoves DEF HoldingSteps
  <2>3. n - 1 = i + Cardinality(Holding)'
    BY <2>2
  <2> QED
    BY <1>0, <2>1, <2>3, RedisMoveKeeps DEF RedisSteps, MySqlSteps
<1>5. CASE \/ CreateConnection(t) \/ RedisCheckLast(t)
           \/ RedisWait(t) \/ RedisBlock(t) \/ RedisGiveUp(t)
  <2>1. Kept(i, n, s)
    BY <1>5 DEF CreateConnection, RedisCheckLast, RedisWait, RedisBlock, RedisGiveUp
  <2>2. PICK from \in {"redisMake", "redisNone", "away", "redisWoken", "redisBlock", "redisAsleep"},
             to \in {"redisMade", "redisNone", "redisStop", "away", "redisBlock", "redisAsleep"} :
             Goto(t, from, to)
    BY <1>5 DEF CreateConnection, RedisCheckLast, RedisWait, RedisBlock, RedisGiveUp
  <2>3. Cardinality(Holding)' = h
    BY <2>2, ThreadMoves DEF HoldingSteps
  <2> QED
    BY <1>0, <2>1, <2>2, <2>3, RedisMoveKeeps DEF RedisSteps, MySqlSteps
<1>6. CASE RedisStopPool(t)
  <2>1. Goto(t, "redisStop", "redisWakeAll") /\ Kept(i, n, TRUE)
    BY <1>6 DEF RedisStopPool
  <2>2. Cardinality(Holding)' = h
    BY <2>1, ThreadMoves DEF HoldingSteps
  <2> QED
    BY <1>0, <2>1, <2>2, RedisMoveKeeps DEF RedisSteps, MySqlSteps
<1>7. CASE RedisCountNew(t)
  <2>1. Goto(t, "redisMade", "redisPush") /\ Kept(i, n + 1, s)
    BY <1>7 DEF RedisCountNew
  <2>2. Cardinality(Holding)' = h + 1
    BY <2>1, ThreadMoves DEF HoldingSteps
  <2>3. n + 1 = i + Cardinality(Holding)'
    BY <2>2
  <2> QED
    BY <1>0, <2>1, <2>3, RedisMoveKeeps DEF RedisSteps, MySqlSteps
<1>8. CASE RedisPush(t)
  <2>1. Kept(i, n - 1, s) \/ Kept(i + 1, n, s)
    BY <1>8 DEF RedisPush
  <2>2. PICK to \in {"away", "redisNotify"} : Goto(t, "redisPush", to)
    BY <1>8 DEF RedisPush
  <2>3. Cardinality(Holding)' = h - 1
    BY <2>2, ThreadMoves DEF HoldingSteps
  <2>4. n - 1 = i + Cardinality(Holding)' /\ n = (i + 1) + Cardinality(Holding)' /\ i + 1 \in Nat
    BY <2>3
  <2> QED
    BY <1>0, <2>1, <2>2, <2>4, RedisMoveKeeps DEF RedisSteps, MySqlSteps
<1> QED
    BY <1>1, <1>2, <1>3, <1>4, <1>5, <1>6, <1>7, <1>8

\* Threads that are woken, and the one that wakes them, hold nothing before and after.
LEMMA WakingKeeps ==
    ASSUME PoolInv, UNCHANGED <<redis, mysql, up, outages>>,
           UNCHANGED closing \/ (closing = "emptied" /\ closing' = "closed"),
           DOMAIN at' = Threads, at' = [u \in Threads |-> at'[u]],
           \A u \in Threads : \/ at'[u] = at[u]
                              \/ /\ at[u] \in {"redisAsleep", "redisWakeAll", "redisNotify"}
                                 /\ at'[u] \in {"away", "redisWoken"}
    PROVE  PoolInv'
<1>1. at' \in [Threads -> {"away"} \cup RedisSteps \cup MySqlSteps]
    BY DEF PoolInv, PoolTypes, RedisSteps
<1>2. Holding' = Holding /\ Borrowing' = Borrowing
    BY DEF Holding, Borrowing, MySqlSteps
<1> QED
    BY <1>1, <1>2 DEF PoolInv, PoolTypes, LiveIsExact, SlotsAreCounted, FlagComesFirst

LEMMA NotificationsKeep ==
    ASSUME PoolInv,
           \/ RedisCloseNotify
           \/ \E t \in Threads : RedisWakeAll(t) \/ RedisNotify(t)
    PROVE  PoolInv'
<1>0. at \in [Threads -> {"away"} \cup RedisSteps \cup MySqlSteps]
    BY DEF PoolInv, PoolTypes
<1>1. CASE RedisCloseNotify
    BY <1>0, <1>1, WakingKeeps DEF RedisCloseNotify, AllWoken
<1>2. ASSUME NEW t \in Threads, RedisWakeAll(t) PROVE PoolInv'
    BY <1>0, <1>2, WakingKeeps DEF RedisWakeAll, RedisStep, AllWoken
<1>3. ASSUME NEW t \in Threads, RedisNotify(t) PROVE PoolInv'
    BY <1>0, <1>3, WakingKeeps DEF RedisNotify, RedisStep
<1> QED
    BY <1>1, <1>2, <1>3

LEMMA MySqlStepsKeep ==
    ASSUME PoolInv, NEW t \in Threads,
           MySqlGet(t) \/ EnsureConnected(t) \/ MySqlFailed(t) \/ MySqlHave(t) \/ MySqlReturn(t)
    PROVE  PoolInv'
<1> USE PoolRecords, PoolAssumption DEF MySqlStep
<1> DEFINE b == Cardinality(Borrowing)
           n == mysql.slots
           s == mysql.stopped
           Kept(m) == mysql' = [slots |-> m, stopped |-> s]
<1>0. UNCHANGED <<redis, closing, up, outages>>
    BY DEF MySqlGet, EnsureConnected, MySqlFailed, MySqlHave, MySqlReturn
<1>a. (IF s THEN n = 0 ELSE n + b = MySqlPoolSize) /\ b \in Nat
  <2>1. Borrowing = Among(MySqlSteps)
    BY DEF Borrowing, Among
  <2> QED
    BY <2>1, AmongFinite DEF PoolInv, SlotsAreCounted
<1>1. CASE MySqlGet(t)
  <2>1. Goto(t, "away", "mysqlCheck") /\ Kept(n - 1) /\ n > 0 /\ ~s
    BY <1>1 DEF MySqlGet
  <2>2. Cardinality(Borrowing)' = b + 1
    BY <2>1, ThreadMoves DEF MySqlSteps
  <2>3. n - 1 \in 0..MySqlPoolSize /\ (n - 1) + Cardinality(Borrowing)' = MySqlPoolSize
    BY <1>a, <2>1, <2>2
  <2> QED
    BY <1>0, <2>1, <2>3, MySqlMoveKeeps DEF MySqlSteps, HoldingSteps
<1>2. CASE EnsureConnected(t) \/ (MySqlHave(t) /\ ~s)
  <2>1. Kept(n)
    BY <1>2 DEF EnsureConnected, MySqlHave
  <2>2. PICK from \in {"mysqlCheck", "mysqlHave"},
             to \in {"mysqlHave", "mysqlFailed", "mysqlUse"} : Goto(t, from, to)
    BY <1>2 DEF EnsureConnected, MySqlHave
  <2>3. Cardinality(Borrowing)' = b
    BY <2>2, ThreadMoves DEF MySqlSteps
  <2> QED
    BY <1>0, <1>a, <2>1, <2>2, <2>3, MySqlMoveKeeps DEF MySqlSteps, HoldingSteps
<1>3. CASE MySqlHave(t) /\ s
  <2>1. Goto(t, "mysqlHave", "away") /\ Kept(n)
    BY <1>3 DEF MySqlHave
  <2> QED
    BY <1>0, <1>3, <1>a, <2>1, MySqlMoveKeeps DEF HoldingSteps
<1>4. CASE MySqlFailed(t) \/ MySqlReturn(t)
  <2>1. Kept(IF s THEN n ELSE n + 1)
    BY <1>4 DEF MySqlFailed, MySqlReturn, SlotBack
  <2>2. PICK from \in {"mysqlFailed", "mysqlUse"} : Goto(t, from, "away")
    BY <1>4 DEF MySqlFailed, MySqlReturn
  <2>3. Cardinality(Borrowing)' = b - 1 /\ Cardinality(Borrowing)' \in Nat
    <3>1. Cardinality(Borrowing)' = b - 1
      BY <2>2, ThreadMoves DEF MySqlSteps
    <3>2. Borrowing' \subseteq Threads
      BY DEF Borrowing
    <3> QED
      BY <3>1, <3>2, FS_Subset, FS_CardinalityType
  <2>4. CASE s
    BY <1>0, <1>a, <2>1, <2>2, <2>4, MySqlMoveKeeps DEF HoldingSteps
  <2>5. CASE ~s
    <3>1. n + 1 \in 0..MySqlPoolSize /\ (n + 1) + Cardinality(Borrowing)' = MySqlPoolSize
      BY <1>a, <2>3, <2>5
    <3> QED
      BY <1>0, <2>1, <2>2, <2>5, <3>1, MySqlMoveKeeps DEF HoldingSteps
  <2> QED
    BY <2>4, <2>5
<1> QED
    BY <1>1, <1>2, <1>3, <1>4

\* The steps of nobody's thread.
LEMMA PoolOwnerStepsKeep ==
    ASSUME PoolInv,
           \/ RedisClose \/ RedisCloseIdle \/ MySqlClose
           \/ \E s \in Services : Outage(s) \/ Restored(s)
           \/ UNCHANGED poolVars
    PROVE  PoolInv'
<1> USE PoolRecords
<1>0. UNCHANGED at /\ Holding' = Holding /\ Borrowing' = Borrowing
    BY DEF RedisClose, RedisCloseIdle, MySqlClose, Outage, Restored, poolVars, Holding, Borrowing
<1>1. CASE RedisClose
  <2>1. /\ redis' = [idle |-> redis.idle, live |-> redis.live, stopped |-> TRUE,
                     limited |-> redis.limited]
        /\ closing' = "flagged" /\ UNCHANGED <<mysql, up, outages>>
    BY <1>1 DEF RedisClose
  <2>2. /\ redis'.idle = redis.idle /\ redis'.live = redis.live /\ redis'.stopped = TRUE
        /\ redis' \in [idle : Nat, live : Nat, stopped : BOOLEAN, limited : BOOLEAN]
    BY <2>1
  <2> QED
    BY <1>0, <2>1, <2>2 DEF PoolInv, PoolTypes, LiveIsExact, SlotsAreCounted, FlagComesFirst
<1>2. CASE RedisCloseIdle
  <2>1. PICK n : n = redis.live - redis.idle
    OBVIOUS
  <2>2. /\ redis' = [idle |-> 0, live |-> n, stopped |-> redis.stopped,
                     limited |-> redis.limited]
        /\ closing = "flagged" /\ closing' = "emptied" /\ UNCHANGED <<mysql, up, outages>>
    BY <1>2, <2>1 DEF RedisCloseIdle
  <2>3. n \in Nat /\ n = 0 + Cardinality(Holding)
    BY <2>1
  <2>4. /\ redis'.idle = 0 /\ redis'.live = n /\ redis'.stopped = redis.stopped
        /\ redis' \in [idle : Nat, live : Nat, stopped : BOOLEAN, limited : BOOLEAN]
    BY <2>2, <2>3
  <2>5. PoolTypes' /\ FlagComesFirst'
    BY <1>0, <2>2, <2>3, <2>4 DEF PoolInv, PoolTypes, FlagComesFirst
  <2>6. LiveIsExact'
    BY <1>0, <2>3, <2>4 DEF LiveIsExact
  <2> QED
    BY <1>0, <2>2, <2>5, <2>6 DEF PoolInv, SlotsAreCounted
<1>3. CASE MySqlClose
  <2>1. mysql' = [slots |-> 0, stopped |-> TRUE] /\ UNCHANGED <<redis, closing, up, outages>>
    BY <1>3 DEF MySqlClose
  <2>2. mysql'.slots = 0 /\ mysql'.stopped = TRUE
    BY <2>1
  <2> QED
    BY <1>0, <2>1, <2>2, PoolAssumption
       DEF PoolInv, PoolTypes, LiveIsExact, SlotsAreCounted, FlagComesFirst
<1>4. CASE (\E s \in Services : Outage(s) \/ Restored(s)) \/ UNCHANGED poolVars
  <2>1. /\ UNCHANGED <<redis, mysql, closing>> /\ up' \subseteq Services
        /\ outages' \in 0..MaxOutages
    BY <1>4, PoolAssumption DEF Outage, Restored, poolVars, PoolInv, PoolTypes
  <2> QED
    BY <1>0, <2>1 DEF PoolInv, PoolTypes, LiveIsExact, SlotsAreCounted, FlagComesFirst
<1> QED
    BY <1>1, <1>2, <1>3, <1>4

LEMMA PoolInitInv == PoolInit => PoolInv
<1> SUFFICES ASSUME PoolInit PROVE PoolInv
    OBVIOUS
<1>1. PICK n \in 0..RedisPoolSize, l \in BOOLEAN :
         redis = [idle |-> n, live |-> n, stopped |-> n = 0, limited |-> l]
    BY DEF PoolInit
<1>2. /\ mysql = [slots |-> MySqlPoolSize, stopped |-> FALSE]
      /\ at = [t \in Threads |-> "away"] /\ closing = "no" /\ up = Services /\ outages = 0
    BY DEF PoolInit
<1>3. Holding = {} /\ Borrowing = {}
    BY <1>2 DEF Holding, Borrowing, MySqlSteps
<1>4. Cardinality(Holding) = 0 /\ Cardinality(Borrowing) = 0
    BY <1>3, FS_EmptySet
<1>5. n \in Nat /\ redis.idle = n /\ redis.live = n /\ redis.stopped = (n = 0)
    BY <1>1, PoolAssumption
<1>6. redis \in [idle : Nat, live : Nat, stopped : BOOLEAN, limited : BOOLEAN]
    BY <1>1, <1>5
<1>7. PoolTypes
    BY <1>2, <1>6, PoolAssumption DEF PoolTypes
<1>8. LiveIsExact
    BY <1>4, <1>5 DEF LiveIsExact
<1>9. SlotsAreCounted /\ FlagComesFirst
    BY <1>2, <1>4, PoolAssumption DEF SlotsAreCounted, FlagComesFirst
<1> QED
    BY <1>7, <1>8, <1>9 DEF PoolInv

LEMMA PoolNextInv == PoolInv /\ [PoolNext]_poolVars => PoolInv'
BY RedisStepsKeep, NotificationsKeep, MySqlStepsKeep, PoolOwnerStepsKeep DEF PoolNext, Proceed

\* The inductive invariant of the pools holds in every state.
THEOREM PoolInvariant == PoolSpec => []PoolInv
BY PoolInitInv, PoolNextInv, PTL DEF PoolSpec

\* _live_connections of RedisConPool is the number of idle and of borrowed open
\* connections at every moment, for any number of threads, connections and
\* outages, although it is changed outside of the mutex.
THEOREM LiveCountIsExact == PoolSpec => []LiveIsExact
<1>1. PoolInv => LiveIsExact
    BY DEF PoolInv
<1> QED
    BY <1>1, PoolInvariant, PTL

\* The slots of MySqlPool that are free and those taken by a thread are as many
\* as the pool has, until it is closed: a failed reconnect, an exception or a
\* close under a borrow loses none.
THEOREM NoSlotIsLost == PoolSpec => []SlotsAreCounted
<1>1. PoolInv => SlotsAreCounted
    BY DEF PoolInv
<1> QED
    BY <1>1, PoolInvariant, PTL

=============================================================================
