------------------------- MODULE KeyedSerialExecutor -------------------------
(***************************************************************************)
(* What a caller of ChatServerShared/BusinessExecutor may rely on, without *)
(* lanes, worker threads, condition variables or metrics: accepted tasks   *)
(* of one connection key run one at a time and in the order they were      *)
(* accepted; a task that was accepted is either run or discarded by Stop,  *)
(* never both; nothing is accepted once admission has been cut off.        *)
(* BusinessExecutor.tla is shown to implement this specification.          *)
(***************************************************************************)
EXTENDS Naturals, Sequences

CONSTANT Keys       \* connection keys (CSession::GetUuid)

VARIABLES accepted, \* accepted[i] is the key of the i-th accepted task
          state,    \* state[i]: where the i-th accepted task is
          open      \* admission is open

specVars == <<accepted, state, open>>

TaskState == {"pending", "active", "done", "dropped"}

\* Tasks of the key of task i that were accepted before it.
Earlier(i) == {j \in 1..(i - 1) : accepted[j] = accepted[i]}

SpecInit == accepted = <<>> /\ state = <<>> /\ open = TRUE

Accept(k) ==
    /\ open
    /\ accepted' = Append(accepted, k)
    /\ state' = Append(state, "pending")
    /\ UNCHANGED open

\* A task starts only when every earlier task of its key is finished.
Begin(i) ==
    /\ state[i] = "pending"
    /\ \A j \in Earlier(i) : state[j] = "done"
    /\ state' = [state EXCEPT ![i] = "active"]
    /\ UNCHANGED <<accepted, open>>

Finish(i) ==
    /\ state[i] = "active"
    /\ state' = [state EXCEPT ![i] = "done"]
    /\ UNCHANGED <<accepted, open>>

CutOff == open /\ open' = FALSE /\ UNCHANGED <<accepted, state>>

\* Stop(false): every waiting task is discarded at once, active ones are not.
Discard ==
    /\ open' = FALSE
    /\ state' = [i \in DOMAIN state |->
                    IF state[i] = "pending" THEN "dropped" ELSE state[i]]
    /\ UNCHANGED accepted

SpecNext ==
    \/ \E k \in Keys : Accept(k)
    \/ \E i \in DOMAIN state : Begin(i) \/ Finish(i)
    \/ CutOff
    \/ Discard

SerialSpec == SpecInit /\ [][SpecNext]_specVars
=============================================================================
