----------------------------- MODULE SessionLease -----------------------------
(***************************************************************************)
(* Login, takeover, renewal and cleanup of the chat sessions of ONE        *)
(* account: SessionService::Login, CSession (binding and cleanup),         *)
(* UserMgr, CServer (admission, maintenance, cleanup executor), the Redis  *)
(* scripts of RedisMgr, DistLock, StatusServiceImpl (tokens) and           *)
(* ChatServiceImpl::NotifyKickUser, running on several chat nodes.         *)
(*                                                                         *)
(* Every Redis command or script is atomic and is one action; so is every  *)
(* critical section of login_mutex_, _session_mtx and CServer::mutex_.     *)
(* All keys of the account other than the lock are per device slot, and    *)
(* the lock is per account, so one account shows every interaction.        *)
(* A session is one TCP connection (uuid), used once.                      *)
(***************************************************************************)
EXTENDS Naturals, FiniteSets

CONSTANTS
    Sessions,        \* CSession uuids
    Servers,         \* chat nodes
    Devices,         \* device slots (desktop, android)
    Tokens,          \* login credentials (UUIDs)
    None,            \* an absent key, an empty slot
    Orphan,          \* lock identifier whose SET reply was lost
    MaxConnections,  \* max_connections_ of a node
    MaxFaults,       \* bound: failed Redis commands, lost replies, failed RPCs
    MaxCrashes,      \* bound: node crashes
    MaxLockExpiries  \* bound: lock leases that expire under a running login

ASSUME ConstantsAssumption ==
    /\ None \notin Sessions \cup Servers \cup Devices \cup Tokens
    /\ Orphan \notin Sessions \cup {None}
    /\ MaxConnections \in Nat \ {0}
    /\ MaxFaults \in Nat /\ MaxCrashes \in Nat /\ MaxLockExpiries \in Nat

VARIABLES
    \* Redis
    pending,   \* tokens with a live utoken_<uid>:<token> key
    active,    \* active[d]: resource_token_ of the slot
    usession,  \* usession[d]: session id owning the slot
    uip,       \* uip[d]: node the slot is routed to
    lock,      \* lock:lock_<uid>: identifier of its holder
    health,    \* health[n]: node health lease present
    \* chat nodes
    up,        \* up[n]: the process is running
    server,    \* server[s]: node that accepted connection s
    conn,      \* conn[s]: life cycle of the CSession object
    bound,     \* bound[s]: device of the authenticated user (user_id_ # 0)
    usermgr,   \* usermgr[n][d]: UserMgr's session of the slot on node n
    table,     \* CServer::sessions_ of all nodes
    login,     \* login[s]: progress of SessionService::Login on s
    late,      \* kick RPCs whose caller gave up but which may still execute
    \* environment
    issued,    \* tokens ever issued
    faults, crashes, lockExpiries

redisVars == <<pending, active, usession, uip, lock, health>>
nodeVars  == <<up, server, conn, bound, usermgr, table>>
boundVars == <<issued, faults, crashes, lockExpiries>>
vars == <<redisVars, nodeVars, login, late, boundVars>>

\* conn[s]: "open" until NotifyOffline ("retiring") or Close ("closed", the
\* closed_ flag); "cleaning" once cleanup_started_ is set; "queued" while the
\* cleanup executor owes a ReleaseSession; "gone" when the slot is cleared.
ConnStates == {"none", "open", "retiring", "closed", "cleaning", "queued", "gone"}

LoginSteps == {"idle", "lock", "validate", "route", "retire", "kick", "kicked",
               "register", "bind", "revoke", "unlock"}

LoginRecord == [pc : LoginSteps,
                device : Devices \cup {None},
                token : Tokens \cup {None},
                prev : Servers \cup {None}]

NoLogin == [pc |-> "idle", device |-> None, token |-> None, prev |-> None]

At(s, step) == login[s].pc = step
Goto(s, step) == login' = [login EXCEPT ![s].pc = step]
Fault == faults < MaxFaults /\ faults' = faults + 1

\* A login in progress believes it holds the account lock.
Locked(s) == login[s].pc \notin {"idle", "lock"}

\* Connections of node n that occupy an admission slot.
Admitted(n) == {s \in table : server[s] = n}

Init ==
    /\ pending = {} /\ issued = {}
    /\ active = [d \in Devices |-> None]
    /\ usession = [d \in Devices |-> None]
    /\ uip = [d \in Devices |-> None]
    /\ lock = None
    /\ health = [n \in Servers |-> TRUE]
    /\ up = [n \in Servers |-> TRUE]
    /\ server = [s \in Sessions |-> None]
    /\ conn = [s \in Sessions |-> "none"]
    /\ bound = [s \in Sessions |-> None]
    /\ usermgr = [n \in Servers |-> [d \in Devices |-> None]]
    /\ table = {}
    /\ login = [s \in Sessions |-> NoLogin]
    /\ late = {}
    /\ faults = 0 /\ crashes = 0 /\ lockExpiries = 0

--------------------------------------------------------------------------------
\* Credentials and leases in Redis.

\* StatusServiceImpl::GetChatServer: allocates a healthy node, stores a token.
IssueToken(t) ==
    /\ t \notin issued
    /\ \E n \in Servers : health[n]
    /\ pending' = pending \cup {t}
    /\ issued' = issued \cup {t}
    /\ UNCHANGED <<active, usession, uip, lock, health, nodeVars, login, late,
                   faults, crashes, lockExpiries>>

\* A pending token reaches its TTL (PendingTokenSeconds).
ExpirePending(t) ==
    /\ t \in pending
    /\ pending' = pending \ {t}
    /\ UNCHANGED <<active, usession, uip, lock, health, nodeVars, login, late, boundVars>>

\* The three keys of a slot carry the same TTL and expire together.
ExpireLease(d) ==
    /\ usession[d] # None
    /\ active' = [active EXCEPT ![d] = None]
    /\ usession' = [usession EXCEPT ![d] = None]
    /\ uip' = [uip EXCEPT ![d] = None]
    /\ UNCHANGED <<pending, lock, health, nodeVars, login, late, boundVars>>

\* The lock lease (LOCK_TIME_OUT) expires: its holder is dead or unknown, or
\* is still working and does not notice.
ExpireLock ==
    /\ lock # None
    /\ IF lock \in Sessions /\ Locked(lock)
       THEN lockExpiries < MaxLockExpiries /\ lockExpiries' = lockExpiries + 1
       ELSE UNCHANGED lockExpiries
    /\ lock' = None
    /\ UNCHANGED <<pending, active, usession, uip, health, nodeVars, login, late,
                   issued, faults, crashes>>

\* RedisMgr::PublishNode, called by every maintenance scan.
PublishHealth(n) ==
    /\ up[n] /\ ~health[n]
    /\ health' = [health EXCEPT ![n] = TRUE]
    /\ UNCHANGED <<pending, active, usession, uip, lock, nodeVars, login, late, boundVars>>

\* The health lease expires: the node is down, or its maintenance is behind.
ExpireHealth(n) ==
    /\ health[n]
    /\ IF up[n] THEN Fault ELSE UNCHANGED faults
    /\ health' = [health EXCEPT ![n] = FALSE]
    /\ UNCHANGED <<pending, active, usession, uip, lock, nodeVars, login, late,
                   issued, crashes, lockExpiries>>

--------------------------------------------------------------------------------
\* UserMgr and CSession.

\* Faulty variant: the slot of the session's device is erased whoever holds it.
RmvUserSlot(um, s) ==
    [n \in Servers |-> [d \in Devices |->
        IF n = server[s] /\ d = bound[s] THEN None ELSE um[n][d]]]

\* UserMgr::RmvUserSession compares the session id.
RmvUserSession(um, s) ==
    [n \in Servers |-> [d \in Devices |-> IF um[n][d] = s THEN None ELSE um[n][d]]]

\* CSession::NotifyOffline: admits the final notice unless already closing.  (With
\* a full send queue it closes instead, which Close can do at any time.)
NotifyOffline(s) ==
    conn' = [conn EXCEPT ![s] = IF @ = "open" THEN "retiring" ELSE @]

\* CServer::HandleAccept.
Accept(s, n) ==
    /\ up[n] /\ conn[s] = "none"
    /\ server' = [server EXCEPT ![s] = n]
    /\ IF Cardinality(Admitted(n)) < MaxConnections
       THEN table' = table \cup {s} /\ conn' = [conn EXCEPT ![s] = "open"]
       ELSE UNCHANGED table /\ conn' = [conn EXCEPT ![s] = "closed"]
    /\ UNCHANGED <<redisVars, up, bound, usermgr, login, late, boundVars>>

\* CSession::Close: a read or write error, the peer's disconnect, a heartbeat
\* timeout, a drain, the end or the deadline of a retiring session's last write.
Close(s) ==
    /\ conn[s] \in {"open", "retiring"}
    /\ conn' = [conn EXCEPT ![s] = "closed"]
    /\ UNCHANGED <<redisVars, up, server, bound, usermgr, table, login, late, boundVars>>

\* CSession::DealExceptionSession: sets cleanup_started_ under login_mutex_.
CleanupStart(s) ==
    /\ conn[s] = "closed"
    /\ conn' = [conn EXCEPT ![s] = "cleaning"]
    /\ UNCHANGED <<redisVars, up, server, bound, usermgr, table, login, late, boundVars>>

\* CServer::CleanupSession with the uid read under that mutex.
CleanupSession(s) ==
    /\ conn[s] = "cleaning"
    /\ IF bound[s] = None
       THEN /\ table' = table \ {s}
            /\ conn' = [conn EXCEPT ![s] = "gone"]
            /\ UNCHANGED usermgr
       ELSE /\ usermgr' = RmvUserSession(usermgr, s)
            /\ conn' = [conn EXCEPT ![s] = "queued"]
            /\ UNCHANGED table
    /\ UNCHANGED <<redisVars, up, server, bound, login, late, boundVars>>

\* Faulty variant: the lease of the device is deleted without a comparison.
ReleasedBlindly(s, slots, keys) ==
    [d \in Devices |-> IF d \in slots /\ bound[s] \in {d, None} THEN None ELSE keys[d]]

\* The script of RedisMgr::ReleaseSession: compare and delete.
Released(s, slots, keys) ==
    [d \in Devices |-> IF d \in slots /\ usession[d] = s THEN None ELSE keys[d]]

\* Faulty variant: the route key is not deleted.
ReleaseKeepsRoute(s, slots) ==
    /\ active' = Released(s, slots, active)
    /\ usession' = Released(s, slots, usession)
    /\ UNCHANGED <<pending, uip, lock, health>>

ReleaseSlots(s, slots) ==
    /\ active' = Released(s, slots, active)
    /\ usession' = Released(s, slots, usession)
    /\ uip' = Released(s, slots, uip)
    /\ UNCHANGED <<pending, lock, health>>

\* RedisMgr::ReleaseSession runs the script for one slot after the other and
\* stops at the first that fails, executed or not.
ReleaseSession(s) ==
    \/ ReleaseSlots(s, Devices) /\ UNCHANGED faults
    \/ Fault /\ \E slots \in SUBSET Devices : ReleaseSlots(s, slots)

\* The cleanup task: release the lease, then CServer::ClearSession whatever
\* Redis answered.  (A submission the cleanup executor rejects clears the
\* session too: a release that fails at once.)
CleanupTask(s) ==
    /\ conn[s] = "queued"
    /\ ReleaseSession(s)
    /\ table' = table \ {s}
    /\ usermgr' = RmvUserSession(usermgr, s)
    /\ conn' = [conn EXCEPT ![s] = "gone"]
    /\ UNCHANGED <<up, server, bound, login, late, issued, crashes, lockExpiries>>

\* RedisMgr::RefreshSession succeeds only for the owner of a complete lease.
Refreshed(s) == \E d \in Devices : usession[d] = s /\ active[d] # None

\* Faulty variant: a refused refresh is taken for a Redis error.
MaintainLenient(s) ==
    /\ conn[s] = "open" /\ bound[s] # None
    /\ \A d \in Devices : usession[d] = None
    /\ conn' = [conn EXCEPT ![s] = "closed"]
    /\ UNCHANGED <<redisVars, up, server, bound, usermgr, table, login, late, boundVars>>

\* CServer::MaintainSessions: a bound session whose lease is not its own any
\* more is closed.  (A successful refresh only moves the TTL; a Redis error
\* changes nothing.)
Maintain(s) ==
    /\ conn[s] = "open" /\ bound[s] # None
    /\ ~Refreshed(s)
    /\ conn' = [conn EXCEPT ![s] = "closed"]
    /\ UNCHANGED <<redisVars, up, server, bound, usermgr, table, login, late, boundVars>>

--------------------------------------------------------------------------------
\* SessionService::Login on connection s, run by the connection's lane.

\* Entry checks and StatusServiceImpl::Login: the token is pending, or active
\* in any slot.  A refused login leaves no trace.
LoginStart(s, d, t) ==
    /\ At(s, "idle") /\ conn[s] = "open" /\ bound[s] = None
    /\ t \in pending \/ \E e \in Devices : active[e] = t
    /\ login' = [login EXCEPT ![s] = [pc |-> "lock", device |-> d, token |-> t, prev |-> None]]
    /\ UNCHANGED <<redisVars, nodeVars, late, boundVars>>

\* Faulty variant: SET without NX.
AcquireBlindly(s) ==
    /\ At(s, "lock")
    /\ lock' = s
    /\ Goto(s, "validate")
    /\ UNCHANGED <<pending, active, usession, uip, health, nodeVars, late, boundVars>>

\* DistLock::Acquire: SET NX EX.
AcquireLock(s) ==
    /\ At(s, "lock") /\ lock = None
    /\ lock' = s
    /\ Goto(s, "validate")
    /\ UNCHANGED <<pending, active, usession, uip, health, nodeVars, late, boundVars>>

\* Acquire gives up: its 5 seconds are over, the command failed, or the reply
\* of a successful SET is lost and the key stays until it expires.
AcquireFail(s) ==
    /\ At(s, "lock")
    /\ \/ lock # None /\ UNCHANGED <<lock, faults>>
       \/ Fault /\ UNCHANGED lock
       \/ Fault /\ lock = None /\ lock' = Orphan
    /\ login' = [login EXCEPT ![s] = NoLogin]
    /\ UNCHANGED <<pending, active, usession, uip, health, nodeVars, late,
                   issued, crashes, lockExpiries>>

\* The credential is checked again under the lock, for this device only.
Validate(s) ==
    /\ At(s, "validate")
    /\ IF login[s].token \in pending \/ active[login[s].device] = login[s].token
       THEN Goto(s, "route")
       ELSE Goto(s, "unlock")
    /\ UNCHANGED <<redisVars, nodeVars, late, boundVars>>

\* GET uip_<uid>.
ReadRoute(s) ==
    /\ At(s, "route")
    /\ login' = [login EXCEPT ![s].pc = "retire", ![s].prev = uip[login[s].device]]
    /\ UNCHANGED <<redisVars, nodeVars, late, boundVars>>

\* The previous session is on this node: UserMgr's session of the slot is told
\* to go offline and loses its slot.  (Two critical sections; the second removes
\* that session only, so it commutes with what others do between them.)
RetireLocal(s) ==
    LET n == server[s]
        old == usermgr[n][login[s].device]
    IN  /\ At(s, "retire") /\ login[s].prev = n
        /\ IF old \notin {None, s}
           THEN NotifyOffline(old) /\ usermgr' = RmvUserSession(usermgr, old)
           ELSE UNCHANGED <<conn, usermgr>>
        /\ Goto(s, "register")
        /\ UNCHANGED <<redisVars, up, server, bound, table, late, boundVars>>

\* No route, or the route's node has lost its health lease: take over.
RetireNone(s) ==
    /\ At(s, "retire")
    /\ \/ login[s].prev = None
       \/ /\ login[s].prev \in Servers \ {server[s]}
          /\ ~health[login[s].prev]
    /\ Goto(s, "register")
    /\ UNCHANGED <<redisVars, nodeVars, late, boundVars>>

\* The route's node is healthy: NotifyKickUser is sent.
RetireRemote(s) ==
    /\ At(s, "retire")
    /\ login[s].prev \in Servers \ {server[s]}
    /\ health[login[s].prev]
    /\ Goto(s, "kick")
    /\ UNCHANGED <<redisVars, nodeVars, late, boundVars>>

\* ChatServiceImpl::NotifyKickUser on node n: kicks whoever holds the slot.
Kick(n, d) ==
    IF usermgr[n][d] = None THEN UNCHANGED conn ELSE NotifyOffline(usermgr[n][d])

KickExecute(s) ==
    /\ At(s, "kick") /\ up[login[s].prev]
    /\ Kick(login[s].prev, login[s].device)
    /\ Goto(s, "kicked")
    /\ UNCHANGED <<redisVars, up, server, bound, usermgr, table, late, boundVars>>

KickReturn(s) ==
    /\ At(s, "kicked")
    /\ Goto(s, "register")
    /\ UNCHANGED <<redisVars, nodeVars, late, boundVars>>

\* Faulty variant: without a deadline a call to a dead node does not return.
KickNoDeadline(s) ==
    /\ At(s, "kick") \/ At(s, "kicked")
    /\ up[login[s].prev] /\ Fault
    /\ Goto(s, "unlock")
    /\ UNCHANGED <<redisVars, nodeVars, late, issued, crashes, lockExpiries>>

\* The RPC fails or passes its 3 second deadline; the request may be lost, or
\* may still reach the node after the login has given up.
KickFail(s) ==
    /\ At(s, "kick") \/ At(s, "kicked")
    /\ \/ late' = late
       \/ /\ At(s, "kick") /\ up[login[s].prev]
          /\ late' = late \cup {<<login[s].prev, login[s].device>>}
    /\ IF up[login[s].prev] THEN Fault ELSE UNCHANGED faults
    /\ Goto(s, "unlock")
    /\ UNCHANGED <<redisVars, nodeVars, issued, crashes, lockExpiries>>

KickLate(n, d) ==
    /\ <<n, d>> \in late
    /\ late' = late \ {<<n, d>>}
    /\ Kick(n, d)
    /\ UNCHANGED <<redisVars, up, server, bound, usermgr, table, login, boundVars>>

\* Faulty variant: the pending token is not consumed.
PublishedReusable(s) ==
    LET d == login[s].device
        t == login[s].token
    IN  /\ t \in pending \/ active[d] = t
        /\ active' = [active EXCEPT ![d] = t]
        /\ usession' = [usession EXCEPT ![d] = s]
        /\ uip' = [uip EXCEPT ![d] = server[s]]
        /\ UNCHANGED <<pending, lock, health>>

\* The RegisterSession script: validate, publish, consume the pending token.
Published(s) ==
    LET d == login[s].device
        t == login[s].token
    IN  /\ t \in pending \/ active[d] = t
        /\ active' = [active EXCEPT ![d] = t]
        /\ usession' = [usession EXCEPT ![d] = s]
        /\ uip' = [uip EXCEPT ![d] = server[s]]
        /\ pending' = pending \ {t}
        /\ UNCHANGED <<lock, health>>

Register(s) ==
    /\ At(s, "register")
    /\ Published(s)
    /\ Goto(s, "bind")
    /\ UNCHANGED <<nodeVars, late, boundVars>>

RegisterRefused(s) ==
    /\ At(s, "register")
    /\ login[s].token \notin pending /\ active[login[s].device] # login[s].token
    /\ Goto(s, "unlock")
    /\ UNCHANGED <<redisVars, nodeVars, late, boundVars>>

\* The script ran but its reply was lost: Login returns RedisError.
RegisterLost(s) ==
    /\ At(s, "register") /\ Fault
    /\ Published(s)
    /\ Goto(s, "unlock")
    /\ UNCHANGED <<nodeVars, late, issued, crashes, lockExpiries>>

\* Faulty variant: the connection's state is not looked at again.
BindBlindly(s) ==
    /\ At(s, "bind") /\ bound[s] = None
    /\ bound' = [bound EXCEPT ![s] = login[s].device]
    /\ usermgr' = [usermgr EXCEPT ![server[s]][login[s].device] = s]
    /\ Goto(s, "unlock")
    /\ UNCHANGED <<redisVars, up, server, conn, table, late, boundVars>>

\* CSession::BindAuthenticatedUser, under login_mutex_.
Bind(s) ==
    /\ At(s, "bind")
    /\ conn[s] = "open" /\ bound[s] = None
    /\ bound' = [bound EXCEPT ![s] = login[s].device]
    /\ usermgr' = [usermgr EXCEPT ![server[s]][login[s].device] = s]
    /\ Goto(s, "unlock")
    /\ UNCHANGED <<redisVars, up, server, conn, table, late, boundVars>>

\* Faulty variant: a refused bind just returns.
BindRefusedKeepsLease(s) ==
    /\ At(s, "bind") /\ conn[s] # "open"
    /\ Goto(s, "unlock")
    /\ UNCHANGED <<redisVars, nodeVars, late, boundVars>>

BindRefused(s) ==
    /\ At(s, "bind") /\ conn[s] # "open"
    /\ Goto(s, "revoke")
    /\ UNCHANGED <<redisVars, nodeVars, late, boundVars>>

\* The connection closed under the login: revoke what was just registered.
Revoke(s) ==
    /\ At(s, "revoke")
    /\ ReleaseSession(s)
    /\ Goto(s, "unlock")
    /\ UNCHANGED <<nodeVars, late, issued, crashes, lockExpiries>>

\* A Redis read or script fails before it runs: Login returns RedisError.
LoginError(s) ==
    /\ \/ login[s].pc \in {"validate", "route", "register"}
       \/ At(s, "retire") /\ login[s].prev \notin {None, server[s]}
    /\ Fault
    /\ Goto(s, "unlock")
    /\ UNCHANGED <<redisVars, nodeVars, late, issued, crashes, lockExpiries>>

\* DistLock::Release in the Defer: compare and delete; a failure leaves the
\* key to its lease.
Unlock(s) ==
    /\ At(s, "unlock")
    /\ \/ lock' = (IF lock = s THEN None ELSE lock) /\ UNCHANGED faults
       \/ Fault /\ UNCHANGED lock
    /\ login' = [login EXCEPT ![s] = NoLogin]
    /\ UNCHANGED <<pending, active, usession, uip, health, nodeVars, late,
                   issued, crashes, lockExpiries>>

--------------------------------------------------------------------------------
\* Node failure.

Crash(n) ==
    /\ up[n] /\ crashes < MaxCrashes
    /\ crashes' = crashes + 1
    /\ up' = [up EXCEPT ![n] = FALSE]
    /\ conn' = [s \in Sessions |-> IF server[s] = n THEN "gone" ELSE conn[s]]
    /\ login' = [s \in Sessions |-> IF server[s] = n THEN NoLogin ELSE login[s]]
    /\ table' = table \ Admitted(n)
    /\ usermgr' = [usermgr EXCEPT ![n] = [d \in Devices |-> None]]
    /\ late' = {k \in late : k[1] # n}
    /\ UNCHANGED <<redisVars, server, bound, issued, faults, lockExpiries>>

\* A node starts only if PublishHealth succeeds: while the health lease of its
\* dead instance lasts, the name is taken.
Restart(n) ==
    /\ ~up[n] /\ ~health[n]
    /\ up' = [up EXCEPT ![n] = TRUE]
    /\ health' = [health EXCEPT ![n] = TRUE]
    /\ UNCHANGED <<pending, active, usession, uip, lock, server, conn, bound, usermgr,
                   table, login, late, boundVars>>

--------------------------------------------------------------------------------
LoginStep(s) ==
    \/ AcquireLock(s) \/ AcquireFail(s) \/ Validate(s) \/ ReadRoute(s)
    \/ RetireLocal(s) \/ RetireNone(s) \/ RetireRemote(s)
    \/ KickExecute(s) \/ KickReturn(s) \/ KickFail(s)
    \/ Register(s) \/ RegisterRefused(s) \/ RegisterLost(s)
    \/ Bind(s) \/ BindRefused(s) \/ Revoke(s) \/ LoginError(s) \/ Unlock(s)

CleanupStep(s) == CleanupStart(s) \/ CleanupSession(s) \/ CleanupTask(s)

Next ==
    \/ \E t \in Tokens : IssueToken(t) \/ ExpirePending(t)
    \/ \E d \in Devices : ExpireLease(d)
    \/ ExpireLock
    \/ \E n \in Servers : PublishHealth(n) \/ ExpireHealth(n) \/ Crash(n) \/ Restart(n)
    \/ \E s \in Sessions, n \in Servers : Accept(s, n)
    \/ \E s \in Sessions, d \in Devices, t \in Tokens : LoginStart(s, d, t)
    \/ \E s \in Sessions : Close(s) \/ CleanupStep(s) \/ Maintain(s) \/ LoginStep(s)
    \/ \E n \in Servers, d \in Devices : KickLate(n, d)

Spec == Init /\ [][Next]_vars

\* Lanes, strands, the cleanup executor and the maintenance timer keep running;
\* a retiring session is closed by its drain deadline at the latest; a lock
\* nobody works under expires.  Clients owe nothing.
Fairness ==
    /\ \A s \in Sessions :
          /\ WF_vars(LoginStep(s))
          /\ WF_vars(CleanupStep(s))
          /\ WF_vars(Maintain(s))
          /\ WF_vars(conn[s] = "retiring" /\ Close(s))
    /\ WF_vars(ExpireLock)

FairSpec == Spec /\ Fairness
--------------------------------------------------------------------------------
\* Properties.

RedisTypes ==
    /\ pending \subseteq Tokens /\ issued \subseteq Tokens
    /\ active \in [Devices -> Tokens \cup {None}]
    /\ usession \in [Devices -> Sessions \cup {None}]
    /\ uip \in [Devices -> Servers \cup {None}]
    /\ lock \in Sessions \cup {None, Orphan}
    /\ health \in [Servers -> BOOLEAN]

NodeTypes ==
    /\ up \in [Servers -> BOOLEAN]
    /\ server \in [Sessions -> Servers \cup {None}]
    /\ conn \in [Sessions -> ConnStates]
    /\ bound \in [Sessions -> Devices \cup {None}]
    /\ usermgr \in [Servers -> [Devices -> Sessions \cup {None}]]
    /\ table \subseteq Sessions
    /\ late \subseteq Servers \X Devices

LoginTypes == login \in [Sessions -> LoginRecord]

BoundTypes ==
    /\ faults \in 0..MaxFaults /\ crashes \in 0..MaxCrashes
    /\ lockExpiries \in 0..MaxLockExpiries

\* Every variable keeps its type.
TypeOK == RedisTypes /\ NodeTypes /\ LoginTypes /\ BoundTypes

\* The session that owns the lease of its slot and is still serving is the one
\* its node's UserMgr delivers to: takeovers, kicks and cleanups of other
\* sessions in any order never leave the owner unreachable.
OwnerIsReachable ==
    \A s \in Sessions, d \in Devices :
        usession[d] = s /\ bound[s] = d /\ conn[s] = "open"
            => usermgr[server[s]][d] = s

\* A credential is active in one slot at most: a token replayed concurrently from
\* two devices gains only one of them (SessionService.cpp:82).
OneSlotPerToken ==
    /\ \A d, e \in Devices : active[d] = active[e] /\ active[d] # None => d = e
    /\ \A d \in Devices : active[d] \notin pending

\* The slot's keys always describe one registration: the route is the node of
\* the owner, and the three keys exist together.
LeaseIsWhole ==
    \A d \in Devices :
        /\ usession[d] = None <=> active[d] = None
        /\ usession[d] = None <=> uip[d] = None
        /\ usession[d] # None => uip[d] = server[usession[d]]

\* Only its TTL takes the lease from a session that is still serving; a cleanup
\* of an older connection of the account never does (CServer.cpp:113).
LeaseOutlivesCleanup ==
    [][\A d \in Devices :
          usession[d] # None /\ usession'[d] = None
              => conn[usession[d]] # "open" \/ ExpireLease(d)]_vars

\* UserMgr never keeps a connection whose cleanup has taken its uid snapshot:
\* binding and cleanup exclude each other (login_mutex_).
ClosedIsForgotten ==
    \A n \in Servers, d \in Devices :
        LET s == usermgr[n][d]
        IN  s # None => /\ conn[s] \in {"open", "retiring", "closed", "cleaning"}
                        /\ server[s] = n /\ bound[s] = d

\* A login whose connection closes under it leaves no lease behind, unless a
\* Redis command failed or a node crashed: then the lease has to expire.
NoOrphanLease ==
    faults = 0 /\ crashes = 0 =>
        \A d \in Devices :
            LET s == usession[d]
            IN  s # None /\ conn[s] = "gone" => login[s].pc \in {"bind", "revoke"}

\* An open connection is told to go offline only while a login of its own slot
\* holds the account lock and has checked its credential under it
\* (ChatServerShared/README.md:193), unless a kick is on its way to that slot
\* whose login has given up waiting for the answer.
KickUnderLock ==
    [][\A s \in Sessions :
          conn[s] = "open" /\ conn'[s] = "retiring" /\ <<server[s], bound[s]>> \notin late =>
              \E x \in Sessions : /\ lock = x /\ login[x].device = bound[s]
                                  /\ login[x].pc \notin {"idle", "lock", "validate"}]_vars

\* A bound session that has lost its slot, by takeover, expiry or revocation,
\* and every closed connection, whether or not its lease could be released, is
\* cleaned up and gives back its admission slot.
LeaversAreCleared ==
    \A s \in Sessions :
        (conn[s] = "closed" \/ (bound[s] # None /\ usession[bound[s]] # s))
            ~> (conn[s] = "gone" /\ s \notin table)

\* Every login attempt ends, whatever the contention for the account lock.
LoginEnds == \A s \in Sessions : login[s].pc # "idle" ~> login[s].pc = "idle"
=============================================================================
