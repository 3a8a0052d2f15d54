--------------------------- MODULE ConnectionPools ---------------------------
(***************************************************************************)
(* The connection pools of a server: RedisConPool and MySqlPool, shared by *)
(* its worker threads.                                                     *)
(*                                                                         *)
(* RedisConPool exists in two versions.  The chat servers and StatusServer *)
(* limit the wait for a connection, the connect and every command to 3 s;  *)
(* GateServer limits none of them (redis.limited).  MySqlPool is one class *)
(* for all servers.                                                        *)
(*                                                                         *)
(* Only the number of idle connections matters: whether an idle connection *)
(* is stale shows when it is used, and MySqlPool keeps a slot for a        *)
(* connection that could not be opened.  A thread that finds MySqlPool     *)
(* empty waits with a time limit and then goes without; a missed           *)
(* notification only lengthens that wait, so waiting is simply not having  *)
(* borrowed.  What is protected by a pool's mutex is one action, except    *)
(* that a thread about to wait for Redis still has the mutex.              *)
(* RedisConPool also reads and writes two atomics, _stopped and            *)
(* _live_connections, outside of it: each access is an action.             *)
(***************************************************************************)
EXTENDS Integers, FiniteSets

CONSTANTS
    Threads,        \* worker threads
    RedisPoolSize, MySqlPoolSize,
    MaxOutages      \* bound: times a service becomes unreachable

ASSUME PoolAssumption ==
    /\ IsFiniteSet(Threads)
    /\ RedisPoolSize \in Nat \ {0} /\ MySqlPoolSize \in Nat \ {0}
    /\ MaxOutages \in Nat

VARIABLES
    redis,      \* _connections (how many), _live_connections, _stopped; which version
    mysql,      \* _connections (how many slots), _stopped
    at,         \* at[t]: where thread t is, in one of the pools or in neither
    closing,    \* RedisConPool::Close
    up,         \* which services answer
    outages

poolVars == <<redis, mysql, at, closing, up, outages>>

\* In GetConnection: about to Block on the condition, Asleep, Woken.  A connection
\* in use; Return with a good or a broken one; Make a new one; it was Made or could
\* not be (None); Stop the pool and WakeAll; Push the connection back and Notify.
RedisSteps == {"redisBlock", "redisAsleep", "redisWoken",
               "redisUse", "redisReturn", "redisBroken", "redisMake", "redisMade",
               "redisNone", "redisStop", "redisWakeAll", "redisPush", "redisNotify"}
\* A slot was taken and is Checked; the check Failed; a connection is at hand; in use.
MySqlSteps == {"mysqlCheck", "mysqlFailed", "mysqlHave", "mysqlUse"}

Services == {"redis", "mysql"}

\* The constructors: RedisConPool keeps what it could open, MySqlPool every slot.
PoolInit ==
    /\ redis \in {[idle |-> n, live |-> n, stopped |-> n = 0, limited |-> l] :
                    n \in 0..RedisPoolSize, l \in BOOLEAN}
    /\ mysql = [slots |-> MySqlPoolSize, stopped |-> FALSE]
    /\ at = [t \in Threads |-> "away"]
    /\ closing = "no"
    /\ up = Services
    /\ outages = 0

Goto(t, from, to) == at[t] = from /\ at' = [at EXCEPT ![t] = to]

----------------------------------------------------------------------------
(* RedisConPool                                                            *)

RedisStep(t) ==
    at[t] \in RedisSteps /\ UNCHANGED <<mysql, closing, up, outages>>

\* Nobody is between finding the pool empty and giving up the mutex.
MutexFree == \A t \in Threads : at[t] # "redisBlock"

\* Where GetConnection evaluates its condition: on entry, woken, or when the time
\* limit ends the sleep, if there is one.  (A spurious wake-up is like a new entry.)
Evaluates == {"away", "redisWoken"} \cup (IF redis.limited THEN {"redisAsleep"} ELSE {})

\* GetConnection hands out an idle connection.
RedisGet(t) ==
    /\ MutexFree
    /\ redis.idle > 0 /\ ~redis.stopped
    /\ at[t] \in Evaluates /\ at' = [at EXCEPT ![t] = "redisUse"]
    /\ redis' = [redis EXCEPT !.idle = @ - 1]
    /\ UNCHANGED <<mysql, closing, up, outages>>

\* There is none: the thread has evaluated its condition and will wait.
RedisWait(t) ==
    /\ MutexFree
    /\ redis.idle = 0 /\ ~redis.stopped
    /\ Goto(t, "away", "redisBlock") \/ Goto(t, "redisWoken", "redisBlock")
    /\ UNCHANGED <<redis, mysql, closing, up, outages>>

\* It sleeps, by which it gives up the mutex.
RedisBlock(t) ==
    /\ RedisStep(t)
    /\ Goto(t, "redisBlock", "redisAsleep")
    /\ UNCHANGED redis

\* GetConnection returns nullptr: the pool was stopped, or the time is over.
RedisGiveUp(t) ==
    /\ RedisStep(t) /\ MutexFree
    /\ \/ redis.stopped /\ Goto(t, "redisWoken", "away")
       \/ redis.limited /\ (redis.stopped \/ redis.idle = 0) /\ Goto(t, "redisAsleep", "away")
    /\ UNCHANGED redis

\* The command; an unreachable server, now or since the last use, breaks it.
RedisCommand(t) ==
    /\ RedisStep(t)
    /\ \/ "redis" \in up /\ Goto(t, "redisUse", "redisReturn")
       \/ outages > 0 /\ Goto(t, "redisUse", "redisBroken")
    /\ UNCHANGED redis

\* ReturnConnection to a stopped pool frees the connection.
RedisReturnStopped(t) ==
    /\ RedisStep(t) /\ redis.stopped
    /\ Goto(t, "redisReturn", "away") \/ Goto(t, "redisBroken", "away")
    /\ redis' = [redis EXCEPT !.live = @ - 1]

RedisReturnGood(t) ==
    /\ RedisStep(t) /\ ~redis.stopped
    /\ Goto(t, "redisReturn", "redisPush")
    /\ UNCHANGED redis

\* Faulty variant: the broken connection stays counted.
RedisReturnBrokenCounted(t) ==
    /\ RedisStep(t) /\ ~redis.stopped
    /\ Goto(t, "redisBroken", "redisMake")
    /\ UNCHANGED redis

\* A broken connection is freed and replaced.
RedisReturnBroken(t) ==
    /\ RedisStep(t) /\ ~redis.stopped
    /\ Goto(t, "redisBroken", "redisMake")
    /\ redis' = [redis EXCEPT !.live = @ - 1]

CreateConnection(t) ==
    /\ RedisStep(t)
    /\ \/ "redis" \in up /\ Goto(t, "redisMake", "redisMade")
       \/ "redis" \notin up /\ Goto(t, "redisMake", "redisNone")
    /\ UNCHANGED redis

\* No replacement: the pool is to be stopped if this was the last connection.
RedisCheckLast(t) ==
    /\ RedisStep(t)
    /\ Goto(t, "redisNone", IF redis.live = 0 THEN "redisStop" ELSE "away")
    /\ UNCHANGED redis

\* The flag is set without the mutex.
RedisStopPool(t) ==
    /\ RedisStep(t)
    /\ Goto(t, "redisStop", "redisWakeAll")
    /\ redis' = [redis EXCEPT !.stopped = TRUE]

\* notify_all: where the threads are when those who are asleep have been woken.
AllWoken == [u \in Threads |-> IF at[u] = "redisAsleep" THEN "redisWoken" ELSE at[u]]

RedisWakeAll(t) ==
    /\ RedisStep(t) /\ at[t] = "redisWakeAll"
    /\ at' = [AllWoken EXCEPT ![t] = "away"]
    /\ UNCHANGED redis

RedisCountNew(t) ==
    /\ RedisStep(t)
    /\ Goto(t, "redisMade", "redisPush")
    /\ redis' = [redis EXCEPT !.live = @ + 1]

\* The connection goes back, unless the pool was stopped meanwhile.
RedisPush(t) ==
    /\ RedisStep(t) /\ MutexFree
    /\ \/ /\ redis.stopped
          /\ Goto(t, "redisPush", "away")
          /\ redis' = [redis EXCEPT !.live = @ - 1]
       \/ /\ ~redis.stopped
          /\ Goto(t, "redisPush", "redisNotify")
          /\ redis' = [redis EXCEPT !.idle = @ + 1]

\* Faulty variant: the connection goes back without notify_one.
RedisNotifyNobody(t) ==
    RedisStep(t) /\ Goto(t, "redisNotify", "away") /\ UNCHANGED redis

\* notify_one: one of those who are asleep, if any.
RedisNotify(t) ==
    /\ RedisStep(t) /\ at[t] = "redisNotify"
    /\ LET asleep == {u \in Threads : at[u] = "redisAsleep"} IN
       \/ asleep = {} /\ at' = [at EXCEPT ![t] = "away"]
       \/ \E u \in asleep : at' = [at EXCEPT ![t] = "away", ![u] = "redisWoken"]
    /\ UNCHANGED redis

\* Close, unless the pool was stopped already: the flag, then the idle connections
\* under the mutex, then notify_all.
RedisClose ==
    /\ closing = "no" /\ ~redis.stopped
    /\ closing' = "flagged"
    /\ redis' = [redis EXCEPT !.stopped = TRUE]
    /\ UNCHANGED <<mysql, at, up, outages>>

RedisCloseIdle ==
    /\ closing = "flagged" /\ MutexFree
    /\ closing' = "emptied"
    /\ redis' = [redis EXCEPT !.idle = 0, !.live = @ - redis.idle]
    /\ UNCHANGED <<mysql, at, up, outages>>

RedisCloseNotify ==
    /\ closing = "emptied"
    /\ closing' = "closed"
    /\ at' = AllWoken
    /\ UNCHANGED <<redis, mysql, up, outages>>

----------------------------------------------------------------------------
(* MySqlPool                                                               *)

MySqlStep(t) ==
    at[t] \in MySqlSteps /\ UNCHANGED <<redis, closing, up, outages>>

\* GetConnection takes a slot, with or without a connection in it.
MySqlGet(t) ==
    /\ mysql.slots > 0 /\ ~mysql.stopped
    /\ Goto(t, "away", "mysqlCheck")
    /\ mysql' = [mysql EXCEPT !.slots = @ - 1]
    /\ UNCHANGED <<redis, closing, up, outages>>

\* EnsureConnected, outside the mutex: the old connection or a new one.
EnsureConnected(t) ==
    /\ MySqlStep(t)
    /\ \/ "mysql" \in up /\ Goto(t, "mysqlCheck", "mysqlHave")
       \/ "mysql" \notin up /\ Goto(t, "mysqlCheck", "mysqlFailed")
    /\ UNCHANGED mysql

SlotBack == [mysql EXCEPT !.slots = IF mysql.stopped THEN @ ELSE @ + 1]

\* Faulty variant: the slot goes away with the connection that was in it.
MySqlFailedKeepsSlot(t) ==
    MySqlStep(t) /\ Goto(t, "mysqlFailed", "away") /\ UNCHANGED mysql

\* An empty slot goes back.
MySqlFailed(t) ==
    MySqlStep(t) /\ Goto(t, "mysqlFailed", "away") /\ mysql' = SlotBack

\* The pool may have been closed while the connection was checked.
MySqlHave(t) ==
    /\ MySqlStep(t)
    /\ Goto(t, "mysqlHave", IF mysql.stopped THEN "away" ELSE "mysqlUse")
    /\ UNCHANGED mysql

\* ReturnConnection, by the guard, however the statements ended.
MySqlReturn(t) ==
    MySqlStep(t) /\ Goto(t, "mysqlUse", "away") /\ mysql' = SlotBack

MySqlClose ==
    /\ ~mysql.stopped
    /\ mysql' = [slots |-> 0, stopped |-> TRUE]
    /\ UNCHANGED <<redis, at, closing, up, outages>>

----------------------------------------------------------------------------
(* The services                                                            *)

Outage(s) ==
    /\ s \in up /\ outages < MaxOutages
    /\ up' = up \ {s}
    /\ outages' = outages + 1
    /\ UNCHANGED <<redis, mysql, at, closing>>

Restored(s) ==
    /\ s \notin up
    /\ up' = up \cup {s}
    /\ UNCHANGED <<redis, mysql, at, closing, outages>>

----------------------------------------------------------------------------
\* What a thread inside a pool operation does next.
Proceed(t) ==
    \/ at[t] # "away" /\ (RedisGet(t) \/ RedisWait(t))
    \/ RedisBlock(t) \/ RedisGiveUp(t)
    \/ RedisCommand(t) \/ RedisReturnStopped(t) \/ RedisReturnGood(t)
    \/ RedisReturnBroken(t) \/ CreateConnection(t) \/ RedisCheckLast(t)
    \/ RedisStopPool(t) \/ RedisWakeAll(t) \/ RedisCountNew(t)
    \/ RedisPush(t) \/ RedisNotify(t)
    \/ EnsureConnected(t) \/ MySqlFailed(t) \/ MySqlHave(t) \/ MySqlReturn(t)

PoolNext ==
    \/ \E t \in Threads : RedisGet(t) \/ RedisWait(t) \/ MySqlGet(t) \/ Proceed(t)
    \/ RedisClose \/ RedisCloseIdle \/ RedisCloseNotify \/ MySqlClose
    \/ \E s \in Services : Outage(s) \/ Restored(s)

PoolSpec == PoolInit /\ [][PoolNext]_poolVars

\* A Redis command or connect of a server without time limits may hang once there
\* has been an outage; everything else returns.
Returns(t) == redis.limited \/ outages = 0 \/ at[t] \notin {"redisUse", "redisMake"}

\* Threads go on, and a Close that was begun is completed.
PoolFairSpec ==
    /\ PoolSpec
    /\ \A t \in Threads : WF_poolVars(Returns(t) /\ Proceed(t))
    /\ WF_poolVars(RedisCloseIdle \/ RedisCloseNotify)

----------------------------------------------------------------------------
(* Properties                                                              *)

PoolTypes ==
    /\ redis \in [idle : Nat, live : Nat, stopped : BOOLEAN, limited : BOOLEAN]
    /\ mysql \in [slots : 0..MySqlPoolSize, stopped : BOOLEAN]
    /\ at \in [Threads -> {"away"} \cup RedisSteps \cup MySqlSteps]
    /\ closing \in {"no", "flagged", "emptied", "closed"}
    /\ up \subseteq Services /\ outages \in 0..MaxOutages

\* Threads that hold an open connection which _live_connections counts.
Holding == {t \in Threads : at[t] \in {"redisUse", "redisReturn", "redisBroken", "redisPush"}}

\* _live_connections, changed without the mutex by borrowers, by reconnects and
\* by Close, is the number of counted connections at every moment: it never wraps,
\* and 0 means that no connection is idle or lent.
LiveIsExact == redis.live = redis.idle + Cardinality(Holding)

\* However long the database was away, slots become available again and again,
\* so a thread that asks can be served, until the pool is closed.
SlotsComeBack == []<>(mysql.stopped \/ mysql.slots > 0)

\* The pool lost its last connection and was stopped by ReturnConnection.
StoppedByLoss == redis.stopped /\ closing = "no"

\* Threads asleep in GetConnection beside an idle connection or in a stopped pool.
\* The exception: where the wait has no limit, ReturnConnection may stop the pool
\* and notify between a thread's test and its sleep.
Oversleeping ==
    {t \in Threads : /\ at[t] = "redisAsleep"
                     /\ redis.idle > 0 \/ redis.stopped
                     /\ redis.limited \/ ~StoppedByLoss}

\* Borrowers of both pools are served: slots of MySqlPool come back, and nobody
\* sleeps on for ever in RedisConPool while there is a connection for him, or
\* after Close.
BorrowersAreServed == SlotsComeBack /\ []<>(Oversleeping = {})

=============================================================================
