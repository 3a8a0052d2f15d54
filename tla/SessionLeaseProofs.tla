-------------------------- MODULE SessionLeaseProofs --------------------------
(***************************************************************************)
(* Proofs about SessionLease for any number of sessions, nodes, devices    *)
(* and tokens, with failures and crashes.  LeaseInv needs no assumption;   *)
(* LockInv holds as long as no lock lease expires under a running login.   *)
(* The last part is about the admission slots of each node.                *)
(***************************************************************************)
EXTENDS SessionLease, FiniteSetTheorems, TLAPS

\* A login runs on an accepted connection with a device and a token.
LoginShape ==
    \A s \in Sessions :
        /\ login[s].pc # "idle" => /\ conn[s] # "none"
                                   /\ login[s].device \in Devices
                                   /\ login[s].token \in Tokens
        /\ login[s].pc \in {"kick", "kicked"} => login[s].prev \in Servers
        /\ login[s].pc = "revoke" => conn[s] # "open"
        /\ login[s].pc \notin {"idle", "unlock"} => bound[s] = None

\* An accepted connection has its node, and only accepted ones are bound or
\* own a lease.
ConnShape ==
    /\ \A s \in Sessions : conn[s] # "none" => server[s] \in Servers
    /\ \A s \in Sessions : bound[s] # None => conn[s] # "none"
    /\ \A d \in Devices : usession[d] # None => conn[usession[d]] # "none"

\* Only issued tokens are pending or active.
TokensIssued ==
    /\ pending \subseteq issued
    /\ \A d \in Devices : active[d] # None => active[d] \in issued

\* The inductive invariant that needs no assumption on the lock.
LeaseInv ==
    /\ TypeOK /\ LoginShape /\ ConnShape /\ TokensIssued
    /\ OneSlotPerToken /\ LeaseIsWhole /\ ClosedIsForgotten

\* Goto moves one login and leaves its data and the other logins alone.
LEMMA GotoMoves ==
    ASSUME LoginTypes, NEW s \in Sessions, NEW step \in LoginSteps, Goto(s, step)
    PROVE  /\ LoginTypes'
           /\ login'[s].pc = step /\ login'[s].device = login[s].device
           /\ login'[s].token = login[s].token /\ login'[s].prev = login[s].prev
           /\ \A x \in Sessions : x # s => login'[x] = login[x]
BY DEF LoginTypes, LoginRecord, Goto

\* The keys in Redis keep their types.
LEMMA RedisTypeStep ==
    ASSUME LeaseInv, Next
    PROVE  RedisTypes'
<1>1. ASSUME \/ (\E n \in Servers : Crash(n))
             \/ (\E s \in Sessions, n \in Servers : Accept(s, n))
             \/ (\E s \in Sessions, d \in Devices, t \in Tokens : LoginStart(s, d, t))
             \/ (\E n \in Servers, d \in Devices : KickLate(n, d))
      PROVE  RedisTypes'
  BY <1>1 DEF Crash, Admitted, Accept, LoginStart, KickLate, Kick, NotifyOffline,
     LeaseInv, TypeOK, RedisTypes, redisVars, boundVars
<1>2. ASSUME NEW s \in Sessions,
             Close(s) \/ CleanupStart(s) \/ CleanupSession(s)
             \/ Maintain(s) \/ Validate(s) \/ ReadRoute(s)
      PROVE  RedisTypes'
  BY <1>2 DEF Close, CleanupStart, CleanupSession, RmvUserSession, Maintain, Validate,
     ReadRoute, LeaseInv, TypeOK, RedisTypes, redisVars, boundVars
<1>3. ASSUME NEW s \in Sessions,
             RetireLocal(s) \/ RetireNone(s) \/ RetireRemote(s)
             \/ KickExecute(s) \/ KickReturn(s) \/ KickFail(s)
      PROVE  RedisTypes'
  BY <1>3 DEF RetireLocal, RmvUserSession, NotifyOffline, RetireNone, RetireRemote,
     KickExecute, Kick, KickReturn, KickFail, Fault, LeaseInv, TypeOK,
     RedisTypes, redisVars, boundVars
<1>4. ASSUME NEW s \in Sessions,
             RegisterRefused(s) \/ Bind(s) \/ BindRefused(s)
             \/ LoginError(s)
      PROVE  RedisTypes'
  BY <1>4 DEF RegisterRefused, Bind, BindRefused, LoginError, Fault, LeaseInv, TypeOK,
     RedisTypes, redisVars, boundVars
<1>5. ASSUME NEW t \in Tokens, IssueToken(t) PROVE RedisTypes'
  BY <1>5 DEF IssueToken, LeaseInv, TypeOK, RedisTypes, redisVars, boundVars
<1>6. ASSUME NEW t \in Tokens, ExpirePending(t) PROVE RedisTypes'
  BY <1>6 DEF ExpirePending, LeaseInv, TypeOK, RedisTypes, redisVars, boundVars
<1>7. ASSUME NEW d \in Devices, ExpireLease(d) PROVE RedisTypes'
  BY <1>7 DEF ExpireLease, LeaseInv, TypeOK, RedisTypes, redisVars, boundVars
<1>8. ASSUME ExpireLock PROVE RedisTypes'
  BY <1>8 DEF ExpireLock, LeaseInv, TypeOK, RedisTypes, redisVars, boundVars
<1>9. ASSUME NEW n \in Servers, PublishHealth(n) PROVE RedisTypes'
  BY <1>9 DEF PublishHealth, LeaseInv, TypeOK, RedisTypes, redisVars, boundVars
<1>10. ASSUME NEW n \in Servers, ExpireHealth(n) PROVE RedisTypes'
  BY <1>10 DEF ExpireHealth, Fault, LeaseInv, TypeOK, RedisTypes, redisVars, boundVars
<1>11. ASSUME NEW n \in Servers, Restart(n) PROVE RedisTypes'
  BY <1>11 DEF Restart, LeaseInv, TypeOK, RedisTypes, redisVars, boundVars
<1>12. ASSUME NEW s \in Sessions, CleanupTask(s) PROVE RedisTypes'
  BY <1>12 DEF CleanupTask, ReleaseSession, ReleaseSlots, Released, RmvUserSession,
     Fault, LeaseInv, TypeOK, RedisTypes, redisVars, boundVars
<1>13. ASSUME NEW s \in Sessions, AcquireLock(s) PROVE RedisTypes'
  BY <1>13 DEF AcquireLock, LeaseInv, TypeOK, RedisTypes, redisVars, boundVars
<1>14. ASSUME NEW s \in Sessions, AcquireFail(s) PROVE RedisTypes'
  BY <1>14 DEF AcquireFail, Fault, NoLogin, LeaseInv, TypeOK, RedisTypes, redisVars,
     boundVars
<1>15. ASSUME NEW s \in Sessions, Register(s) PROVE RedisTypes'
  BY <1>15 DEF Register, Published, LoginTypes, LoginRecord, NodeTypes, LeaseInv, TypeOK,
     RedisTypes, redisVars, boundVars
<1>16. ASSUME NEW s \in Sessions, RegisterLost(s) PROVE RedisTypes'
  BY <1>16 DEF RegisterLost, Published, Fault, LoginTypes, LoginRecord, NodeTypes,
     LeaseInv, TypeOK, RedisTypes, redisVars, boundVars
<1>17. ASSUME NEW s \in Sessions, Revoke(s) PROVE RedisTypes'
  BY <1>17 DEF Revoke, ReleaseSession, ReleaseSlots, Released, Fault, LeaseInv, TypeOK,
     RedisTypes, redisVars, boundVars
<1>18. ASSUME NEW s \in Sessions, Unlock(s) PROVE RedisTypes'
  BY <1>18 DEF Unlock, Fault, NoLogin, LeaseInv, TypeOK, RedisTypes, redisVars,
     boundVars
<1> QED BY <1>1, <1>2, <1>3, <1>4, <1>5, <1>6, <1>7, <1>8, <1>9, <1>10, <1>11,
           <1>12, <1>13, <1>14, <1>15, <1>16, <1>17, <1>18
        DEF Next, LoginStep, CleanupStep

\* The state of the nodes keeps its types.
LEMMA NodeTypeStep ==
    ASSUME LeaseInv, Next
    PROVE  NodeTypes'
<1>1. ASSUME \/ (\E t \in Tokens : IssueToken(t) \/ ExpirePending(t))
             \/ (\E d \in Devices : ExpireLease(d))
             \/ ExpireLock
             \/ (\E n \in Servers : PublishHealth(n) \/ ExpireHealth(n))
      PROVE  NodeTypes'
  BY <1>1 DEF IssueToken, ExpirePending, ExpireLease, ExpireLock, PublishHealth,
     ExpireHealth, Fault, LeaseInv, TypeOK, NodeTypes, ConnStates, nodeVars
<1>2. ASSUME \/ (\E s \in Sessions, d \in Devices, t \in Tokens : LoginStart(s, d, t))
      PROVE  NodeTypes'
  BY <1>2 DEF LoginStart, LeaseInv, TypeOK, NodeTypes, ConnStates, nodeVars
<1>3. ASSUME NEW s \in Sessions,
             AcquireLock(s) \/ AcquireFail(s) \/ Validate(s)
             \/ ReadRoute(s) \/ RetireNone(s) \/ RetireRemote(s)
      PROVE  NodeTypes'
  BY <1>3 DEF AcquireLock, AcquireFail, Fault, Validate, ReadRoute, RetireNone,
     RetireRemote, LeaseInv, TypeOK, NodeTypes, ConnStates, nodeVars
<1>4. ASSUME NEW s \in Sessions,
             KickReturn(s) \/ Register(s) \/ RegisterRefused(s)
             \/ RegisterLost(s) \/ BindRefused(s) \/ Revoke(s)
      PROVE  NodeTypes'
  BY <1>4 DEF KickReturn, Register, Published, RegisterRefused, RegisterLost, Fault,
     BindRefused, Revoke, ReleaseSession, ReleaseSlots, Released, LeaseInv,
     TypeOK, NodeTypes, ConnStates, nodeVars
<1>5. ASSUME NEW s \in Sessions,
             LoginError(s) \/ Unlock(s)
      PROVE  NodeTypes'
  BY <1>5 DEF LoginError, Fault, Unlock, LeaseInv, TypeOK, NodeTypes, ConnStates,
     nodeVars
<1>6. ASSUME NEW n \in Servers, Crash(n) PROVE NodeTypes'
  BY <1>6 DEF Crash, NoLogin, Admitted, LeaseInv, TypeOK, NodeTypes, ConnStates,
     nodeVars
<1>7. ASSUME NEW n \in Servers, Restart(n) PROVE NodeTypes'
  BY <1>7 DEF Restart, LeaseInv, TypeOK, NodeTypes, ConnStates, nodeVars
<1>8. ASSUME NEW s \in Sessions, NEW n \in Servers, Accept(s, n) PROVE NodeTypes'
  BY <1>8 DEF Accept, Admitted, LeaseInv, TypeOK, NodeTypes, ConnStates, nodeVars
<1>9. ASSUME NEW s \in Sessions, Close(s) PROVE NodeTypes'
  BY <1>9 DEF Close, LeaseInv, TypeOK, NodeTypes, ConnStates, nodeVars
<1>10. ASSUME NEW s \in Sessions, CleanupStart(s) PROVE NodeTypes'
  BY <1>10 DEF CleanupStart, LeaseInv, TypeOK, NodeTypes, ConnStates, nodeVars
<1>11. ASSUME NEW s \in Sessions, CleanupSession(s) PROVE NodeTypes'
  BY <1>11 DEF CleanupSession, RmvUserSession, LeaseInv, TypeOK, NodeTypes, ConnStates,
     nodeVars
<1>12. ASSUME NEW s \in Sessions, CleanupTask(s) PROVE NodeTypes'
  BY <1>12 DEF CleanupTask, ReleaseSession, ReleaseSlots, Released, RmvUserSession,
     Fault, LeaseInv, TypeOK, NodeTypes, ConnStates, nodeVars
<1>13. ASSUME NEW s \in Sessions, Maintain(s) PROVE NodeTypes'
  BY <1>13 DEF Maintain, LeaseInv, TypeOK, NodeTypes, ConnStates, nodeVars
<1>14. ASSUME NEW s \in Sessions, RetireLocal(s) PROVE NodeTypes'
  BY <1>14 DEF RetireLocal, RmvUserSession, NotifyOffline, LeaseInv, TypeOK, NodeTypes,
     ConnStates, nodeVars
<1>15. ASSUME NEW s \in Sessions, KickExecute(s) PROVE NodeTypes'
  BY <1>15 DEF KickExecute, Kick, NotifyOffline, LeaseInv, TypeOK, NodeTypes, ConnStates,
     nodeVars
<1>16. ASSUME NEW s \in Sessions, KickFail(s) PROVE NodeTypes'
  BY <1>16 DEF KickFail, Fault, LoginShape, At, LeaseInv, TypeOK, NodeTypes, ConnStates,
     nodeVars
<1>17. ASSUME NEW s \in Sessions, Bind(s) PROVE NodeTypes'
  BY <1>17 DEF Bind, LoginTypes, LoginRecord, RedisTypes, LeaseInv, TypeOK, NodeTypes,
     ConnStates, nodeVars
<1>18. ASSUME NEW n \in Servers, NEW d \in Devices, KickLate(n, d) PROVE NodeTypes'
  BY <1>18 DEF KickLate, Kick, NotifyOffline, LeaseInv, TypeOK, NodeTypes, ConnStates,
     nodeVars
<1> QED BY <1>1, <1>2, <1>3, <1>4, <1>5, <1>6, <1>7, <1>8, <1>9, <1>10, <1>11,
           <1>12, <1>13, <1>14, <1>15, <1>16, <1>17, <1>18
        DEF Next, LoginStep, CleanupStep

\* The logins keep their types.
LEMMA LoginTypeStep ==
    ASSUME LeaseInv, Next
    PROVE  LoginTypes'
<1>1. ASSUME \/ (\E t \in Tokens : IssueToken(t) \/ ExpirePending(t))
             \/ (\E d \in Devices : ExpireLease(d))
             \/ ExpireLock
             \/ (\E n \in Servers : PublishHealth(n) \/ ExpireHealth(n))
      PROVE  LoginTypes'
  BY <1>1 DEF IssueToken, ExpirePending, ExpireLease, ExpireLock, PublishHealth,
     ExpireHealth, Fault, LeaseInv, TypeOK, LoginTypes, LoginSteps
<1>2. ASSUME \/ (\E n \in Servers : Restart(n))
             \/ (\E s \in Sessions, n \in Servers : Accept(s, n))
             \/ (\E n \in Servers, d \in Devices : KickLate(n, d))
      PROVE  LoginTypes'
  BY <1>2 DEF Restart, Accept, Admitted, KickLate, Kick, NotifyOffline, LeaseInv,
     TypeOK, LoginTypes, LoginSteps
<1>3. ASSUME NEW s \in Sessions,
             Close(s) \/ CleanupStart(s) \/ CleanupSession(s)
             \/ CleanupTask(s) \/ Maintain(s)
      PROVE  LoginTypes'
  BY <1>3 DEF Close, CleanupStart, CleanupSession, RmvUserSession, CleanupTask,
     ReleaseSession, ReleaseSlots, Released, Fault, Maintain, LeaseInv, TypeOK,
     LoginTypes, LoginSteps
<1>4. ASSUME NEW n \in Servers, Crash(n) PROVE LoginTypes'
  BY <1>4 DEF Crash, NoLogin, Admitted, LoginRecord, RedisTypes, LeaseInv, TypeOK,
     LoginTypes, LoginSteps
<1>5. ASSUME NEW s \in Sessions, NEW d \in Devices, NEW t \in Tokens, LoginStart(s, d, t) PROVE LoginTypes'
  BY <1>5 DEF LoginStart, LoginRecord, RedisTypes, LeaseInv, TypeOK, LoginTypes,
     LoginSteps
<1>6. ASSUME NEW s \in Sessions, AcquireLock(s) PROVE LoginTypes'
  BY <1>6, GotoMoves DEF AcquireLock, LeaseInv, TypeOK, LoginTypes, LoginSteps
<1>7. ASSUME NEW s \in Sessions, AcquireFail(s) PROVE LoginTypes'
  BY <1>7 DEF AcquireFail, Fault, NoLogin, LoginRecord, RedisTypes, LeaseInv, TypeOK,
     LoginTypes, LoginSteps
<1>8. ASSUME NEW s \in Sessions, Validate(s) PROVE LoginTypes'
  BY <1>8, GotoMoves DEF Validate, LeaseInv, TypeOK, LoginTypes, LoginSteps
<1>9. ASSUME NEW s \in Sessions, ReadRoute(s) PROVE LoginTypes'
  <2>1. uip[login[s].device] \in Servers \cup {None}
    BY <1>9 DEF ReadRoute, At, LeaseInv, LoginShape, TypeOK, RedisTypes
  <2>2. login[s] \in LoginRecord /\ "retire" \in LoginSteps
    BY DEF LeaseInv, TypeOK, LoginTypes, LoginSteps
  <2>3. [login[s] EXCEPT !.pc = "retire", !.prev = uip[login[s].device]] \in LoginRecord
    BY <2>1, <2>2 DEF LoginRecord
  <2>4. login' = [login EXCEPT ![s] = [login[s] EXCEPT !.pc = "retire",
                                                       !.prev = uip[login[s].device]]]
    BY <1>9 DEF ReadRoute
  <2> QED BY <2>3, <2>4 DEF LeaseInv, TypeOK, LoginTypes
<1>10. ASSUME NEW s \in Sessions, RetireLocal(s) PROVE LoginTypes'
  BY <1>10, GotoMoves DEF RetireLocal, LeaseInv, TypeOK, LoginTypes, LoginSteps
<1>11. ASSUME NEW s \in Sessions, RetireNone(s) PROVE LoginTypes'
  BY <1>11, GotoMoves DEF RetireNone, LeaseInv, TypeOK, LoginTypes, LoginSteps
<1>12. ASSUME NEW s \in Sessions, RetireRemote(s) PROVE LoginTypes'
  BY <1>12, GotoMoves DEF RetireRemote, LeaseInv, TypeOK, LoginTypes, LoginSteps
<1>13. ASSUME NEW s \in Sessions, KickExecute(s) PROVE LoginTypes'
  BY <1>13, GotoMoves DEF KickExecute, LeaseInv, TypeOK, LoginTypes, LoginSteps
<1>14. ASSUME NEW s \in Sessions, KickReturn(s) PROVE LoginTypes'
  BY <1>14, GotoMoves DEF KickReturn, LeaseInv, TypeOK, LoginTypes, LoginSteps
<1>15. ASSUME NEW s \in Sessions, KickFail(s) PROVE LoginTypes'
  BY <1>15, GotoMoves DEF KickFail, LeaseInv, TypeOK, LoginTypes, LoginSteps
<1>16. ASSUME NEW s \in Sessions, Register(s) PROVE LoginTypes'
  BY <1>16, GotoMoves DEF Register, LeaseInv, TypeOK, LoginTypes, LoginSteps
<1>17. ASSUME NEW s \in Sessions, RegisterRefused(s) PROVE LoginTypes'
  BY <1>17, GotoMoves DEF RegisterRefused, LeaseInv, TypeOK, LoginTypes, LoginSteps
<1>18. ASSUME NEW s \in Sessions, RegisterLost(s) PROVE LoginTypes'
  BY <1>18, GotoMoves DEF RegisterLost, LeaseInv, TypeOK, LoginTypes, LoginSteps
<1>19. ASSUME NEW s \in Sessions, Bind(s) PROVE LoginTypes'
  BY <1>19, GotoMoves DEF Bind, LeaseInv, TypeOK, LoginTypes, LoginSteps
<1>20. ASSUME NEW s \in Sessions, BindRefused(s) PROVE LoginTypes'
  BY <1>20, GotoMoves DEF BindRefused, LeaseInv, TypeOK, LoginTypes, LoginSteps
<1>21. ASSUME NEW s \in Sessions, Revoke(s) PROVE LoginTypes'
  BY <1>21, GotoMoves DEF Revoke, LeaseInv, TypeOK, LoginTypes, LoginSteps
<1>22. ASSUME NEW s \in Sessions, LoginError(s) PROVE LoginTypes'
  BY <1>22, GotoMoves DEF LoginError, LeaseInv, TypeOK, LoginTypes, LoginSteps
<1>23. ASSUME NEW s \in Sessions, Unlock(s) PROVE LoginTypes'
  BY <1>23 DEF Unlock, Fault, NoLogin, LoginRecord, RedisTypes, LeaseInv, TypeOK,
     LoginTypes, LoginSteps
<1> QED BY <1>1, <1>2, <1>3, <1>4, <1>5, <1>6, <1>7, <1>8, <1>9, <1>10, <1>11,
           <1>12, <1>13, <1>14, <1>15, <1>16, <1>17, <1>18, <1>19, <1>20,
           <1>21, <1>22, <1>23
        DEF Next, LoginStep, CleanupStep

\* The counters stay within their bounds.
LEMMA BoundTypeStep ==
    ASSUME LeaseInv, Next
    PROVE  BoundTypes'
<1>1. ASSUME \/ (\E t \in Tokens : IssueToken(t) \/ ExpirePending(t))
             \/ (\E d \in Devices : ExpireLease(d))
             \/ (\E n \in Servers : PublishHealth(n) \/ Restart(n))
             \/ (\E s \in Sessions, n \in Servers : Accept(s, n))
      PROVE  BoundTypes'
  BY <1>1 DEF IssueToken, ExpirePending, ExpireLease, PublishHealth, Restart, Accept,
     Admitted, LeaseInv, TypeOK, BoundTypes, boundVars
<1>2. ASSUME \/ (\E s \in Sessions, d \in Devices, t \in Tokens : LoginStart(s, d, t))
             \/ (\E n \in Servers, d \in Devices : KickLate(n, d))
      PROVE  BoundTypes'
  BY <1>2 DEF LoginStart, KickLate, Kick, NotifyOffline, LeaseInv, TypeOK, BoundTypes,
     boundVars
<1>3. ASSUME NEW s \in Sessions,
             Close(s) \/ CleanupStart(s) \/ CleanupSession(s)
             \/ Maintain(s) \/ AcquireLock(s) \/ Validate(s)
      PROVE  BoundTypes'
  BY <1>3 DEF Close, CleanupStart, CleanupSession, RmvUserSession, Maintain,
     AcquireLock, Validate, LeaseInv, TypeOK, BoundTypes, boundVars
<1>4. ASSUME NEW s \in Sessions,
             ReadRoute(s) \/ RetireLocal(s) \/ RetireNone(s)
             \/ RetireRemote(s) \/ KickExecute(s) \/ KickReturn(s)
      PROVE  BoundTypes'
  BY <1>4 DEF ReadRoute, RetireLocal, RmvUserSession, NotifyOffline, RetireNone,
     RetireRemote, KickExecute, Kick, KickReturn, LeaseInv, TypeOK, BoundTypes,
     boundVars
<1>5. ASSUME NEW s \in Sessions,
             Register(s) \/ RegisterRefused(s) \/ Bind(s)
             \/ BindRefused(s)
      PROVE  BoundTypes'
  BY <1>5 DEF Register, Published, RegisterRefused, Bind, BindRefused, LeaseInv, TypeOK,
     BoundTypes, boundVars
<1>6. ASSUME ExpireLock PROVE BoundTypes'
  BY <1>6, ConstantsAssumption DEF ExpireLock, LeaseInv, TypeOK, BoundTypes, boundVars
<1>7. ASSUME NEW n \in Servers, ExpireHealth(n) PROVE BoundTypes'
  BY <1>7, ConstantsAssumption DEF ExpireHealth, Fault, LeaseInv, TypeOK, BoundTypes, boundVars
<1>8. ASSUME NEW n \in Servers, Crash(n) PROVE BoundTypes'
  BY <1>8, ConstantsAssumption DEF Crash, NoLogin, Admitted, LeaseInv, TypeOK, BoundTypes, boundVars
<1>9. ASSUME NEW s \in Sessions, CleanupTask(s) PROVE BoundTypes'
  BY <1>9, ConstantsAssumption DEF CleanupTask, ReleaseSession, ReleaseSlots, Released, RmvUserSession,
     Fault, LeaseInv, TypeOK, BoundTypes, boundVars
<1>10. ASSUME NEW s \in Sessions, AcquireFail(s) PROVE BoundTypes'
  BY <1>10, ConstantsAssumption DEF AcquireFail, Fault, NoLogin, LeaseInv, TypeOK, BoundTypes, boundVars
<1>11. ASSUME NEW s \in Sessions, KickFail(s) PROVE BoundTypes'
  BY <1>11, ConstantsAssumption DEF KickFail, Fault, LeaseInv, TypeOK, BoundTypes, boundVars
<1>12. ASSUME NEW s \in Sessions, RegisterLost(s) PROVE BoundTypes'
  BY <1>12, ConstantsAssumption DEF RegisterLost, Published, Fault, LeaseInv, TypeOK, BoundTypes, boundVars
<1>13. ASSUME NEW s \in Sessions, Revoke(s) PROVE BoundTypes'
  BY <1>13, ConstantsAssumption DEF Revoke, ReleaseSession, ReleaseSlots, Released, Fault, LeaseInv, TypeOK,
     BoundTypes, boundVars
<1>14. ASSUME NEW s \in Sessions, LoginError(s) PROVE BoundTypes'
  BY <1>14, ConstantsAssumption DEF LoginError, Fault, LeaseInv, TypeOK, BoundTypes, boundVars
<1>15. ASSUME NEW s \in Sessions, Unlock(s) PROVE BoundTypes'
  BY <1>15, ConstantsAssumption DEF Unlock, Fault, NoLogin, LeaseInv, TypeOK, BoundTypes, boundVars
<1> QED BY <1>1, <1>2, <1>3, <1>4, <1>5, <1>6, <1>7, <1>8, <1>9, <1>10, <1>11,
           <1>12, <1>13, <1>14, <1>15
        DEF Next, LoginStep, CleanupStep

\* Logins keep their shape.
LEMMA LoginShapeStep ==
    ASSUME LeaseInv, Next
    PROVE  LoginShape'
<1>1. ASSUME \/ (\E t \in Tokens : IssueToken(t) \/ ExpirePending(t))
             \/ (\E d \in Devices : ExpireLease(d))
             \/ ExpireLock
             \/ (\E n \in Servers : PublishHealth(n) \/ ExpireHealth(n))
      PROVE  LoginShape'
  BY <1>1 DEF IssueToken, ExpirePending, ExpireLease, ExpireLock, PublishHealth,
     ExpireHealth, Fault, LeaseInv, LoginShape, TypeOK, RedisTypes, NodeTypes,
     LoginTypes, LoginSteps, LoginRecord, nodeVars
<1>2. ASSUME \/ (\E n \in Servers : Restart(n))
      PROVE  LoginShape'
  BY <1>2 DEF Restart, LeaseInv, LoginShape, TypeOK, RedisTypes, NodeTypes, LoginTypes,
     LoginSteps, LoginRecord, nodeVars
<1>3. ASSUME NEW n \in Servers, Crash(n) PROVE LoginShape'
  BY <1>3 DEF Crash, NoLogin, Admitted, LeaseInv, LoginShape, TypeOK, RedisTypes,
     NodeTypes, LoginTypes, LoginSteps, LoginRecord, nodeVars
<1>4. ASSUME NEW s \in Sessions, NEW n \in Servers, Accept(s, n) PROVE LoginShape'
  BY <1>4 DEF Accept, Admitted, LeaseInv, LoginShape, TypeOK, RedisTypes, NodeTypes,
     LoginTypes, LoginSteps, LoginRecord, nodeVars
<1>5. ASSUME NEW s \in Sessions, NEW d \in Devices, NEW t \in Tokens, LoginStart(s, d, t) PROVE LoginShape'
  BY <1>5 DEF LoginStart, LeaseInv, LoginShape, TypeOK, RedisTypes, NodeTypes,
     LoginTypes, LoginSteps, LoginRecord, nodeVars
<1>6. ASSUME NEW s \in Sessions, Close(s) PROVE LoginShape'
  BY <1>6 DEF Close, LeaseInv, LoginShape, TypeOK, RedisTypes, NodeTypes, LoginTypes,
     LoginSteps, LoginRecord, nodeVars
<1>7. ASSUME NEW s \in Sessions, CleanupStart(s) PROVE LoginShape'
  BY <1>7 DEF CleanupStart, LeaseInv, LoginShape, TypeOK, RedisTypes, NodeTypes,
     LoginTypes, LoginSteps, LoginRecord, nodeVars
<1>8. ASSUME NEW s \in Sessions, CleanupSession(s) PROVE LoginShape'
  BY <1>8 DEF CleanupSession, RmvUserSession, LeaseInv, LoginShape, TypeOK, RedisTypes,
     NodeTypes, LoginTypes, LoginSteps, LoginRecord, nodeVars
<1>9. ASSUME NEW s \in Sessions, CleanupTask(s) PROVE LoginShape'
  BY <1>9 DEF CleanupTask, ReleaseSession, ReleaseSlots, Released, RmvUserSession,
     Fault, LeaseInv, LoginShape, TypeOK, RedisTypes, NodeTypes, LoginTypes,
     LoginSteps, LoginRecord, nodeVars
<1>10. ASSUME NEW s \in Sessions, Maintain(s) PROVE LoginShape'
  BY <1>10 DEF Maintain, LeaseInv, LoginShape, TypeOK, RedisTypes, NodeTypes, LoginTypes,
     LoginSteps, LoginRecord, nodeVars
<1>11. ASSUME NEW s \in Sessions, AcquireLock(s) PROVE LoginShape'
  <2>1. /\ LoginTypes' /\ \A x \in Sessions : x # s => login'[x] = login[x]
        /\ login'[s].device = login[s].device /\ login'[s].token = login[s].token
        /\ login'[s].prev = login[s].prev /\ login'[s].pc = "validate"
    BY <1>11, GotoMoves DEF AcquireLock, LeaseInv, TypeOK, LoginSteps
  <2>2. login[s].pc = "lock"
    BY <1>11 DEF AcquireLock, At, LeaseInv, LoginShape, TypeOK, NodeTypes
  <2> QED
    BY <2>1, <2>2, <1>11 DEF AcquireLock, LeaseInv, LoginShape, nodeVars
<1>12. ASSUME NEW s \in Sessions, AcquireFail(s) PROVE LoginShape'
  BY <1>12 DEF AcquireFail, Fault, NoLogin, At, LeaseInv, LoginShape, TypeOK, RedisTypes,
     NodeTypes, LoginTypes, LoginSteps, LoginRecord, nodeVars
<1>13. ASSUME NEW s \in Sessions, Validate(s) PROVE LoginShape'
  <2>1. /\ LoginTypes' /\ \A x \in Sessions : x # s => login'[x] = login[x]
        /\ login'[s].device = login[s].device /\ login'[s].token = login[s].token
        /\ login'[s].prev = login[s].prev /\ login'[s].pc \in {"route", "unlock"}
    BY <1>13, GotoMoves DEF Validate, LeaseInv, TypeOK, LoginSteps
  <2>2. login[s].pc = "validate"
    BY <1>13 DEF Validate, At, LeaseInv, LoginShape, TypeOK, NodeTypes
  <2> QED
    BY <2>1, <2>2, <1>13 DEF Validate, LeaseInv, LoginShape, nodeVars
<1>14. ASSUME NEW s \in Sessions, ReadRoute(s) PROVE LoginShape'
  BY <1>14 DEF ReadRoute, At, LeaseInv, LoginShape, TypeOK, RedisTypes, NodeTypes,
     LoginTypes, LoginSteps, LoginRecord, nodeVars
<1>15. ASSUME NEW s \in Sessions, RetireLocal(s) PROVE LoginShape'
  <2>1. /\ LoginTypes' /\ \A x \in Sessions : x # s => login'[x] = login[x]
        /\ login'[s].device = login[s].device /\ login'[s].token = login[s].token
        /\ login'[s].prev = login[s].prev /\ login'[s].pc = "register"
    BY <1>15, GotoMoves DEF RetireLocal, LeaseInv, TypeOK, LoginSteps
  <2>2. login[s].pc = "retire" /\ \A x \in Sessions : conn'[x] \in {conn[x], "retiring"}
    BY <1>15 DEF RetireLocal, NotifyOffline, At, LeaseInv, LoginShape, TypeOK, NodeTypes
  <2> QED
    BY <2>1, <2>2, <1>15 DEF RetireLocal, LeaseInv, LoginShape, nodeVars
<1>16. ASSUME NEW s \in Sessions, RetireNone(s) PROVE LoginShape'
  <2>1. /\ LoginTypes' /\ \A x \in Sessions : x # s => login'[x] = login[x]
        /\ login'[s].device = login[s].device /\ login'[s].token = login[s].token
        /\ login'[s].prev = login[s].prev /\ login'[s].pc = "register"
    BY <1>16, GotoMoves DEF RetireNone, LeaseInv, TypeOK, LoginSteps
  <2>2. login[s].pc = "retire"
    BY <1>16 DEF RetireNone, At, LeaseInv, LoginShape, TypeOK, NodeTypes
  <2> QED
    BY <2>1, <2>2, <1>16 DEF RetireNone, LeaseInv, LoginShape, nodeVars
<1>17. ASSUME NEW s \in Sessions, RetireRemote(s) PROVE LoginShape'
  <2>1. /\ LoginTypes' /\ \A x \in Sessions : x # s => login'[x] = login[x]
        /\ login'[s].device = login[s].device /\ login'[s].token = login[s].token
        /\ login'[s].prev = login[s].prev /\ login'[s].pc = "kick"
    BY <1>17, GotoMoves DEF RetireRemote, LeaseInv, TypeOK, LoginSteps
  <2>2. login[s].pc = "retire" /\ login[s].prev \in Servers
    BY <1>17 DEF RetireRemote, At, LeaseInv, LoginShape, TypeOK, NodeTypes
  <2> QED
    BY <2>1, <2>2, <1>17 DEF RetireRemote, LeaseInv, LoginShape, nodeVars
<1>18. ASSUME NEW s \in Sessions, KickExecute(s) PROVE LoginShape'
  <2>1. /\ LoginTypes' /\ \A x \in Sessions : x # s => login'[x] = login[x]
        /\ login'[s].device = login[s].device /\ login'[s].token = login[s].token
        /\ login'[s].prev = login[s].prev /\ login'[s].pc = "kicked"
    BY <1>18, GotoMoves DEF KickExecute, LeaseInv, TypeOK, LoginSteps
  <2>2. login[s].pc = "kick" /\ \A x \in Sessions : conn'[x] \in {conn[x], "retiring"}
    BY <1>18 DEF KickExecute, Kick, NotifyOffline, At, LeaseInv, LoginShape, TypeOK, NodeTypes
  <2> QED
    BY <2>1, <2>2, <1>18 DEF KickExecute, LeaseInv, LoginShape, nodeVars
<1>19. ASSUME NEW s \in Sessions, KickReturn(s) PROVE LoginShape'
  <2>1. /\ LoginTypes' /\ \A x \in Sessions : x # s => login'[x] = login[x]
        /\ login'[s].device = login[s].device /\ login'[s].token = login[s].token
        /\ login'[s].prev = login[s].prev /\ login'[s].pc = "register"
    BY <1>19, GotoMoves DEF KickReturn, LeaseInv, TypeOK, LoginSteps
  <2>2. login[s].pc = "kicked"
    BY <1>19 DEF KickReturn, At, LeaseInv, LoginShape, TypeOK, NodeTypes
  <2> QED
    BY <2>1, <2>2, <1>19 DEF KickReturn, LeaseInv, LoginShape, nodeVars
<1>20. ASSUME NEW s \in Sessions, KickFail(s) PROVE LoginShape'
  <2>1. /\ LoginTypes' /\ \A x \in Sessions : x # s => login'[x] = login[x]
        /\ login'[s].device = login[s].device /\ login'[s].token = login[s].token
        /\ login'[s].prev = login[s].prev /\ login'[s].pc = "unlock"
    BY <1>20, GotoMoves DEF KickFail, LeaseInv, TypeOK, LoginSteps
  <2>2. login[s].pc \in {"kick", "kicked"}
    BY <1>20 DEF KickFail, At, LeaseInv, LoginShape, TypeOK, NodeTypes
  <2> QED
    BY <2>1, <2>2, <1>20 DEF KickFail, LeaseInv, LoginShape, nodeVars
<1>21. ASSUME NEW s \in Sessions, Register(s) PROVE LoginShape'
  <2>1. /\ LoginTypes' /\ \A x \in Sessions : x # s => login'[x] = login[x]
        /\ login'[s].device = login[s].device /\ login'[s].token = login[s].token
        /\ login'[s].prev = login[s].prev /\ login'[s].pc = "bind"
    BY <1>21, GotoMoves DEF Register, LeaseInv, TypeOK, LoginSteps
  <2>2. login[s].pc = "register"
    BY <1>21 DEF Register, At, LeaseInv, LoginShape, TypeOK, NodeTypes
  <2> QED
    BY <2>1, <2>2, <1>21 DEF Register, LeaseInv, LoginShape, nodeVars
<1>22. ASSUME NEW s \in Sessions, RegisterRefused(s) PROVE LoginShape'
  <2>1. /\ LoginTypes' /\ \A x \in Sessions : x # s => login'[x] = login[x]
        /\ login'[s].device = login[s].device /\ login'[s].token = login[s].token
        /\ login'[s].prev = login[s].prev /\ login'[s].pc = "unlock"
    BY <1>22, GotoMoves DEF RegisterRefused, LeaseInv, TypeOK, LoginSteps
  <2>2. login[s].pc = "register"
    BY <1>22 DEF RegisterRefused, At, LeaseInv, LoginShape, TypeOK, NodeTypes
  <2> QED
    BY <2>1, <2>2, <1>22 DEF RegisterRefused, LeaseInv, LoginShape, nodeVars
<1>23. ASSUME NEW s \in Sessions, RegisterLost(s) PROVE LoginShape'
  <2>1. /\ LoginTypes' /\ \A x \in Sessions : x # s => login'[x] = login[x]
        /\ login'[s].device = login[s].device /\ login'[s].token = login[s].token
        /\ login'[s].prev = login[s].prev /\ login'[s].pc = "unlock"
    BY <1>23, GotoMoves DEF RegisterLost, LeaseInv, TypeOK, LoginSteps
  <2>2. login[s].pc = "register"
    BY <1>23 DEF RegisterLost, At, LeaseInv, LoginShape, TypeOK, NodeTypes
  <2> QED
    BY <2>1, <2>2, <1>23 DEF RegisterLost, LeaseInv, LoginShape, nodeVars
<1>24. ASSUME NEW s \in Sessions, Bind(s) PROVE LoginShape'
  <2>1. /\ LoginTypes' /\ \A x \in Sessions : x # s => login'[x] = login[x]
        /\ login'[s].device = login[s].device /\ login'[s].token = login[s].token
        /\ login'[s].prev = login[s].prev /\ login'[s].pc = "unlock"
    BY <1>24, GotoMoves DEF Bind, LeaseInv, TypeOK, LoginSteps
  <2>2. login[s].pc = "bind" /\ \A x \in Sessions : x # s => bound'[x] = bound[x]
    BY <1>24 DEF Bind, At, LeaseInv, LoginShape, TypeOK, NodeTypes
  <2> QED
    BY <2>1, <2>2, <1>24 DEF Bind, LeaseInv, LoginShape, nodeVars
<1>25. ASSUME NEW s \in Sessions, BindRefused(s) PROVE LoginShape'
  <2>1. /\ LoginTypes' /\ \A x \in Sessions : x # s => login'[x] = login[x]
        /\ login'[s].device = login[s].device /\ login'[s].token = login[s].token
        /\ login'[s].prev = login[s].prev /\ login'[s].pc = "revoke"
    BY <1>25, GotoMoves DEF BindRefused, LeaseInv, TypeOK, LoginSteps
  <2>2. login[s].pc = "bind" /\ conn[s] # "open"
    BY <1>25 DEF BindRefused, At, LeaseInv, LoginShape, TypeOK, NodeTypes
  <2> QED
    BY <2>1, <2>2, <1>25 DEF BindRefused, LeaseInv, LoginShape, nodeVars
<1>26. ASSUME NEW s \in Sessions, Revoke(s) PROVE LoginShape'
  <2>1. /\ LoginTypes' /\ \A x \in Sessions : x # s => login'[x] = login[x]
        /\ login'[s].device = login[s].device /\ login'[s].token = login[s].token
        /\ login'[s].prev = login[s].prev /\ login'[s].pc = "unlock"
    BY <1>26, GotoMoves DEF Revoke, LeaseInv, TypeOK, LoginSteps
  <2>2. login[s].pc = "revoke"
    BY <1>26 DEF Revoke, At, LeaseInv, LoginShape, TypeOK, NodeTypes
  <2> QED
    BY <2>1, <2>2, <1>26 DEF Revoke, LeaseInv, LoginShape, nodeVars
<1>27. ASSUME NEW s \in Sessions, LoginError(s) PROVE LoginShape'
  <2>1. /\ LoginTypes' /\ \A x \in Sessions : x # s => login'[x] = login[x]
        /\ login'[s].device = login[s].device /\ login'[s].token = login[s].token
        /\ login'[s].prev = login[s].prev /\ login'[s].pc = "unlock"
    BY <1>27, GotoMoves DEF LoginError, LeaseInv, TypeOK, LoginSteps
  <2>2. login[s].pc \in {"validate", "route", "retire", "register"}
    BY <1>27 DEF LoginError, At, LeaseInv, LoginShape, TypeOK, NodeTypes
  <2> QED
    BY <2>1, <2>2, <1>27 DEF LoginError, LeaseInv, LoginShape, nodeVars
<1>28. ASSUME NEW s \in Sessions, Unlock(s) PROVE LoginShape'
  BY <1>28 DEF Unlock, Fault, NoLogin, At, LeaseInv, LoginShape, TypeOK, RedisTypes,
     NodeTypes, LoginTypes, LoginSteps, LoginRecord, nodeVars
<1>29. ASSUME NEW n \in Servers, NEW d \in Devices, KickLate(n, d) PROVE LoginShape'
  BY <1>29 DEF KickLate, Kick, NotifyOffline, LeaseInv, LoginShape, TypeOK, RedisTypes,
     NodeTypes, LoginTypes, LoginSteps, LoginRecord, nodeVars
<1> QED BY <1>1, <1>2, <1>3, <1>4, <1>5, <1>6, <1>7, <1>8, <1>9, <1>10, <1>11,
           <1>12, <1>13, <1>14, <1>15, <1>16, <1>17, <1>18, <1>19, <1>20,
           <1>21, <1>22, <1>23, <1>24, <1>25, <1>26, <1>27, <1>28, <1>29
        DEF Next, LoginStep, CleanupStep

\* Connections keep their shape.
LEMMA ConnShapeStep ==
    ASSUME LeaseInv, Next
    PROVE  ConnShape'
<1>1. ASSUME \/ ExpireLock
             \/ (\E n \in Servers : PublishHealth(n) \/ ExpireHealth(n) \/ Restart(n))
             \/ (\E s \in Sessions, d \in Devices, t \in Tokens : LoginStart(s, d, t))
      PROVE  ConnShape'
  BY <1>1 DEF ExpireLock, PublishHealth, ExpireHealth, Fault, Restart, LoginStart,
     LeaseInv, ConnShape, TypeOK, RedisTypes, NodeTypes, LoginTypes, nodeVars,
     redisVars
<1>2. ASSUME NEW s \in Sessions,
             AcquireLock(s) \/ AcquireFail(s) \/ Validate(s)
             \/ ReadRoute(s) \/ RetireNone(s) \/ RetireRemote(s)
      PROVE  ConnShape'
  BY <1>2 DEF AcquireLock, AcquireFail, Fault, Validate, ReadRoute, RetireNone,
     RetireRemote, LeaseInv, ConnShape, TypeOK, RedisTypes, NodeTypes,
     LoginTypes, nodeVars, redisVars
<1>3. ASSUME NEW s \in Sessions,
             KickReturn(s) \/ KickFail(s) \/ RegisterRefused(s)
             \/ BindRefused(s) \/ LoginError(s) \/ Unlock(s)
      PROVE  ConnShape'
  BY <1>3 DEF KickReturn, KickFail, Fault, RegisterRefused, BindRefused, LoginError,
     Unlock, LeaseInv, ConnShape, TypeOK, RedisTypes, NodeTypes, LoginTypes,
     nodeVars, redisVars
<1>4. ASSUME NEW t \in Tokens, IssueToken(t) PROVE ConnShape'
  BY <1>4 DEF IssueToken, LeaseInv, ConnShape, TypeOK, RedisTypes, NodeTypes,
     LoginTypes, nodeVars, redisVars
<1>5. ASSUME NEW t \in Tokens, ExpirePending(t) PROVE ConnShape'
  BY <1>5 DEF ExpirePending, LeaseInv, ConnShape, TypeOK, RedisTypes, NodeTypes,
     LoginTypes, nodeVars, redisVars
<1>6. ASSUME NEW d \in Devices, ExpireLease(d) PROVE ConnShape'
  BY <1>6 DEF ExpireLease, LeaseInv, ConnShape, TypeOK, RedisTypes, NodeTypes,
     LoginTypes, nodeVars, redisVars
<1>7. ASSUME NEW n \in Servers, Crash(n) PROVE ConnShape'
  BY <1>7 DEF Crash, NoLogin, Admitted, LeaseInv, ConnShape, TypeOK, RedisTypes,
     NodeTypes, LoginTypes, nodeVars, redisVars
<1>8. ASSUME NEW s \in Sessions, NEW n \in Servers, Accept(s, n) PROVE ConnShape'
  BY <1>8 DEF Accept, Admitted, LeaseInv, ConnShape, TypeOK, RedisTypes, NodeTypes,
     LoginTypes, nodeVars, redisVars
<1>9. ASSUME NEW s \in Sessions, Close(s) PROVE ConnShape'
  BY <1>9 DEF Close, LeaseInv, ConnShape, TypeOK, RedisTypes, NodeTypes, LoginTypes,
     nodeVars, redisVars
<1>10. ASSUME NEW s \in Sessions, CleanupStart(s) PROVE ConnShape'
  BY <1>10 DEF CleanupStart, LeaseInv, ConnShape, TypeOK, RedisTypes, NodeTypes,
     LoginTypes, nodeVars, redisVars
<1>11. ASSUME NEW s \in Sessions, CleanupSession(s) PROVE ConnShape'
  BY <1>11 DEF CleanupSession, RmvUserSession, LeaseInv, ConnShape, TypeOK, RedisTypes,
     NodeTypes, LoginTypes, nodeVars, redisVars
<1>12. ASSUME NEW s \in Sessions, CleanupTask(s) PROVE ConnShape'
  BY <1>12 DEF CleanupTask, ReleaseSession, ReleaseSlots, Released, RmvUserSession,
     Fault, LeaseInv, ConnShape, TypeOK, RedisTypes, NodeTypes, LoginTypes,
     nodeVars, redisVars
<1>13. ASSUME NEW s \in Sessions, Maintain(s) PROVE ConnShape'
  BY <1>13 DEF Maintain, LeaseInv, ConnShape, TypeOK, RedisTypes, NodeTypes, LoginTypes,
     nodeVars, redisVars
<1>14. ASSUME NEW s \in Sessions, RetireLocal(s) PROVE ConnShape'
  BY <1>14 DEF RetireLocal, RmvUserSession, NotifyOffline, At, LeaseInv, ConnShape,
     TypeOK, RedisTypes, NodeTypes, LoginTypes, nodeVars, redisVars
<1>15. ASSUME NEW s \in Sessions, KickExecute(s) PROVE ConnShape'
  BY <1>15 DEF KickExecute, Kick, NotifyOffline, At, LeaseInv, ConnShape, TypeOK,
     RedisTypes, NodeTypes, LoginTypes, nodeVars, redisVars
<1>16. ASSUME NEW s \in Sessions, Register(s) PROVE ConnShape'
  BY <1>16 DEF Register, Published, At, LoginShape, LeaseInv, ConnShape, TypeOK,
     RedisTypes, NodeTypes, LoginTypes, nodeVars, redisVars
<1>17. ASSUME NEW s \in Sessions, RegisterLost(s) PROVE ConnShape'
  BY <1>17 DEF RegisterLost, Published, Fault, At, LoginShape, LeaseInv, ConnShape,
     TypeOK, RedisTypes, NodeTypes, LoginTypes, nodeVars, redisVars
<1>18. ASSUME NEW s \in Sessions, Bind(s) PROVE ConnShape'
  BY <1>18 DEF Bind, At, LoginShape, LeaseInv, ConnShape, TypeOK, RedisTypes, NodeTypes,
     LoginTypes, nodeVars, redisVars
<1>19. ASSUME NEW s \in Sessions, Revoke(s) PROVE ConnShape'
  BY <1>19 DEF Revoke, ReleaseSession, ReleaseSlots, Released, Fault, At, LeaseInv,
     ConnShape, TypeOK, RedisTypes, NodeTypes, LoginTypes, nodeVars, redisVars
<1>20. ASSUME NEW n \in Servers, NEW d \in Devices, KickLate(n, d) PROVE ConnShape'
  BY <1>20 DEF KickLate, Kick, NotifyOffline, LeaseInv, ConnShape, TypeOK, RedisTypes,
     NodeTypes, LoginTypes, nodeVars, redisVars
<1> QED BY <1>1, <1>2, <1>3, <1>4, <1>5, <1>6, <1>7, <1>8, <1>9, <1>10, <1>11,
           <1>12, <1>13, <1>14, <1>15, <1>16, <1>17, <1>18, <1>19, <1>20
        DEF Next, LoginStep, CleanupStep

\* Only issued tokens are used, each in one slot.
LEMMA TokensStep ==
    ASSUME LeaseInv, Next
    PROVE  (TokensIssued /\ OneSlotPerToken)'
<1>1. ASSUME \/ ExpireLock
             \/ (\E n \in Servers : PublishHealth(n) \/ ExpireHealth(n) \/ Crash(n) \/ Restart(n))
             \/ (\E s \in Sessions, n \in Servers : Accept(s, n))
      PROVE  (TokensIssued /\ OneSlotPerToken)'
  BY <1>1 DEF ExpireLock, PublishHealth, ExpireHealth, Fault, Crash, Admitted, Restart,
     Accept, LeaseInv, TokensIssued, OneSlotPerToken, TypeOK, RedisTypes,
     redisVars, boundVars
<1>2. ASSUME \/ (\E s \in Sessions, d \in Devices, t \in Tokens : LoginStart(s, d, t))
             \/ (\E n \in Servers, d \in Devices : KickLate(n, d))
      PROVE  (TokensIssued /\ OneSlotPerToken)'
  BY <1>2 DEF LoginStart, KickLate, Kick, NotifyOffline, LeaseInv, TokensIssued,
     OneSlotPerToken, TypeOK, RedisTypes, redisVars, boundVars
<1>3. ASSUME NEW s \in Sessions,
             Close(s) \/ CleanupStart(s) \/ CleanupSession(s)
             \/ Maintain(s) \/ AcquireLock(s) \/ AcquireFail(s)
      PROVE  (TokensIssued /\ OneSlotPerToken)'
  BY <1>3 DEF Close, CleanupStart, CleanupSession, RmvUserSession, Maintain,
     AcquireLock, AcquireFail, Fault, LeaseInv, TokensIssued, OneSlotPerToken,
     TypeOK, RedisTypes, redisVars, boundVars
<1>4. ASSUME NEW s \in Sessions,
             Validate(s) \/ ReadRoute(s) \/ RetireLocal(s)
             \/ RetireNone(s) \/ RetireRemote(s) \/ KickExecute(s)
      PROVE  (TokensIssued /\ OneSlotPerToken)'
  BY <1>4 DEF Validate, ReadRoute, RetireLocal, RmvUserSession, NotifyOffline,
     RetireNone, RetireRemote, KickExecute, Kick, LeaseInv, TokensIssued,
     OneSlotPerToken, TypeOK, RedisTypes, redisVars, boundVars
<1>5. ASSUME NEW s \in Sessions,
             KickReturn(s) \/ KickFail(s) \/ RegisterRefused(s) \/ Bind(s)
             \/ BindRefused(s) \/ LoginError(s)
      PROVE  (TokensIssued /\ OneSlotPerToken)'
  BY <1>5 DEF KickReturn, KickFail, Fault, RegisterRefused, Bind, BindRefused,
     LoginError, LeaseInv, TokensIssued, OneSlotPerToken, TypeOK, RedisTypes,
     redisVars, boundVars
<1>6. ASSUME NEW s \in Sessions,
             Unlock(s)
      PROVE  (TokensIssued /\ OneSlotPerToken)'
  BY <1>6 DEF Unlock, Fault, LeaseInv, TokensIssued, OneSlotPerToken, TypeOK,
     RedisTypes, redisVars, boundVars
<1>7. ASSUME NEW t \in Tokens, IssueToken(t) PROVE (TokensIssued /\ OneSlotPerToken)'
  BY <1>7, ConstantsAssumption DEF IssueToken, LeaseInv, TokensIssued, OneSlotPerToken, TypeOK, RedisTypes,
     redisVars, boundVars
<1>8. ASSUME NEW t \in Tokens, ExpirePending(t) PROVE (TokensIssued /\ OneSlotPerToken)'
  BY <1>8, ConstantsAssumption DEF ExpirePending, LeaseInv, TokensIssued, OneSlotPerToken, TypeOK,
     RedisTypes, redisVars, boundVars
<1>9. ASSUME NEW d \in Devices, ExpireLease(d) PROVE (TokensIssued /\ OneSlotPerToken)'
  BY <1>9, ConstantsAssumption DEF ExpireLease, LeaseInv, TokensIssued, OneSlotPerToken, TypeOK, RedisTypes,
     redisVars, boundVars
<1>10. ASSUME NEW s \in Sessions, CleanupTask(s) PROVE (TokensIssued /\ OneSlotPerToken)'
  BY <1>10, ConstantsAssumption DEF CleanupTask, ReleaseSession, ReleaseSlots, Released, RmvUserSession,
     Fault, LeaseInv, TokensIssued, OneSlotPerToken, TypeOK, RedisTypes,
     redisVars, boundVars
<1>11. ASSUME NEW s \in Sessions, Register(s) PROVE (TokensIssued /\ OneSlotPerToken)'
  BY <1>11, ConstantsAssumption DEF Register, Published, At, LoginShape, LeaseInv, TokensIssued,
     OneSlotPerToken, TypeOK, RedisTypes, redisVars, boundVars
<1>12. ASSUME NEW s \in Sessions, RegisterLost(s) PROVE (TokensIssued /\ OneSlotPerToken)'
  BY <1>12, ConstantsAssumption DEF RegisterLost, Published, Fault, At, LoginShape, LeaseInv, TokensIssued,
     OneSlotPerToken, TypeOK, RedisTypes, redisVars, boundVars
<1>13. ASSUME NEW s \in Sessions, Revoke(s) PROVE (TokensIssued /\ OneSlotPerToken)'
  BY <1>13, ConstantsAssumption DEF Revoke, ReleaseSession, ReleaseSlots, Released, Fault, At, LeaseInv,
     TokensIssued, OneSlotPerToken, TypeOK, RedisTypes, redisVars, boundVars
<1> QED BY <1>1, <1>2, <1>3, <1>4, <1>5, <1>6, <1>7, <1>8, <1>9, <1>10, <1>11,
           <1>12, <1>13
        DEF Next, LoginStep, CleanupStep

\* Every action keeps the keys of a slot together.
LEMMA LeaseIsWholeStep ==
    ASSUME LeaseInv, Next
    PROVE  LeaseIsWhole'
<1>1. ASSUME \/ ExpireLock
             \/ (\E n \in Servers : PublishHealth(n) \/ ExpireHealth(n) \/ Crash(n) \/ Restart(n))
             \/ (\E s \in Sessions, d \in Devices, t \in Tokens : LoginStart(s, d, t))
      PROVE  LeaseIsWhole'
  BY <1>1 DEF ExpireLock, PublishHealth, ExpireHealth, Fault, Crash, Admitted, Restart,
     LoginStart, LeaseInv, LeaseIsWhole, TypeOK, RedisTypes, NodeTypes,
     LoginTypes, nodeVars, redisVars
<1>2. ASSUME \/ (\E n \in Servers, d \in Devices : KickLate(n, d))
      PROVE  LeaseIsWhole'
  BY <1>2 DEF KickLate, Kick, NotifyOffline, LeaseInv, LeaseIsWhole, TypeOK, RedisTypes,
     NodeTypes, LoginTypes, nodeVars, redisVars
<1>3. ASSUME NEW s \in Sessions,
             Close(s) \/ CleanupStart(s) \/ CleanupSession(s)
             \/ Maintain(s) \/ AcquireLock(s) \/ AcquireFail(s)
      PROVE  LeaseIsWhole'
  BY <1>3 DEF Close, CleanupStart, CleanupSession, RmvUserSession, Maintain,
     AcquireLock, AcquireFail, Fault, LeaseInv, LeaseIsWhole, TypeOK,
     RedisTypes, NodeTypes, LoginTypes, nodeVars, redisVars
<1>4. ASSUME NEW s \in Sessions,
             Validate(s) \/ ReadRoute(s) \/ RetireLocal(s)
             \/ RetireNone(s) \/ RetireRemote(s) \/ KickExecute(s)
      PROVE  LeaseIsWhole'
  BY <1>4 DEF Validate, ReadRoute, RetireLocal, RmvUserSession, NotifyOffline,
     RetireNone, RetireRemote, KickExecute, Kick, LeaseInv, LeaseIsWhole,
     TypeOK, RedisTypes, NodeTypes, LoginTypes, nodeVars, redisVars
<1>5. ASSUME NEW s \in Sessions,
             KickReturn(s) \/ KickFail(s) \/ RegisterRefused(s) \/ Bind(s)
             \/ BindRefused(s) \/ LoginError(s)
      PROVE  LeaseIsWhole'
  BY <1>5 DEF KickReturn, KickFail, Fault, RegisterRefused, Bind, BindRefused,
     LoginError, LeaseInv, LeaseIsWhole, TypeOK, RedisTypes, NodeTypes,
     LoginTypes, nodeVars, redisVars
<1>6. ASSUME NEW s \in Sessions,
             Unlock(s)
      PROVE  LeaseIsWhole'
  BY <1>6 DEF Unlock, Fault, LeaseInv, LeaseIsWhole, TypeOK, RedisTypes, NodeTypes,
     LoginTypes, nodeVars, redisVars
<1>7. ASSUME NEW t \in Tokens, IssueToken(t) PROVE LeaseIsWhole'
  BY <1>7, ConstantsAssumption DEF IssueToken, LeaseInv, LeaseIsWhole, TypeOK, RedisTypes, NodeTypes,
     LoginTypes, nodeVars, redisVars
<1>8. ASSUME NEW t \in Tokens, ExpirePending(t) PROVE LeaseIsWhole'
  BY <1>8, ConstantsAssumption DEF ExpirePending, LeaseInv, LeaseIsWhole, TypeOK, RedisTypes, NodeTypes,
     LoginTypes, nodeVars, redisVars
<1>9. ASSUME NEW d \in Devices, ExpireLease(d) PROVE LeaseIsWhole'
  BY <1>9, ConstantsAssumption DEF ExpireLease, LeaseInv, LeaseIsWhole, TypeOK, RedisTypes, NodeTypes,
     LoginTypes, nodeVars, redisVars
<1>10. ASSUME NEW s \in Sessions, NEW n \in Servers, Accept(s, n) PROVE LeaseIsWhole'
  BY <1>10, ConstantsAssumption DEF Accept, Admitted, ConnShape, LeaseInv, LeaseIsWhole, TypeOK, RedisTypes,
     NodeTypes, LoginTypes, nodeVars, redisVars
<1>11. ASSUME NEW s \in Sessions, CleanupTask(s) PROVE LeaseIsWhole'
  BY <1>11, ConstantsAssumption DEF CleanupTask, ReleaseSession, ReleaseSlots, Released, RmvUserSession,
     Fault, LeaseInv, LeaseIsWhole, TypeOK, RedisTypes, NodeTypes, LoginTypes,
     nodeVars, redisVars
<1>12. ASSUME NEW s \in Sessions, Register(s) PROVE LeaseIsWhole'
  BY <1>12, ConstantsAssumption DEF Register, Published, At, LoginShape, ConnShape, LeaseInv, LeaseIsWhole,
     TypeOK, RedisTypes, NodeTypes, LoginTypes, nodeVars, redisVars
<1>13. ASSUME NEW s \in Sessions, RegisterLost(s) PROVE LeaseIsWhole'
  BY <1>13, ConstantsAssumption DEF RegisterLost, Published, Fault, At, LoginShape, ConnShape, LeaseInv,
     LeaseIsWhole, TypeOK, RedisTypes, NodeTypes, LoginTypes, nodeVars,
     redisVars
<1>14. ASSUME NEW s \in Sessions, Revoke(s) PROVE LeaseIsWhole'
  BY <1>14, ConstantsAssumption DEF Revoke, ReleaseSession, ReleaseSlots, Released, Fault, At, LeaseInv,
     LeaseIsWhole, TypeOK, RedisTypes, NodeTypes, LoginTypes, nodeVars,
     redisVars
<1> QED BY <1>1, <1>2, <1>3, <1>4, <1>5, <1>6, <1>7, <1>8, <1>9, <1>10, <1>11,
           <1>12, <1>13, <1>14
        DEF Next, LoginStep, CleanupStep

\* UserMgr keeps no session whose cleanup has passed.
LEMMA ForgottenStep ==
    ASSUME LeaseInv, Next
    PROVE  ClosedIsForgotten'
<1>1. ASSUME \/ (\E t \in Tokens : IssueToken(t) \/ ExpirePending(t))
             \/ (\E d \in Devices : ExpireLease(d))
             \/ ExpireLock
             \/ (\E n \in Servers : PublishHealth(n) \/ ExpireHealth(n))
      PROVE  ClosedIsForgotten'
  BY <1>1 DEF IssueToken, ExpirePending, ExpireLease, ExpireLock, PublishHealth,
     ExpireHealth, Fault, LeaseInv, ClosedIsForgotten, TypeOK, RedisTypes,
     NodeTypes, LoginTypes, nodeVars
<1>2. ASSUME \/ (\E n \in Servers : Restart(n))
             \/ (\E s \in Sessions, d \in Devices, t \in Tokens : LoginStart(s, d, t))
      PROVE  ClosedIsForgotten'
  BY <1>2 DEF Restart, LoginStart, LeaseInv, ClosedIsForgotten, TypeOK, RedisTypes,
     NodeTypes, LoginTypes, nodeVars
<1>3. ASSUME NEW s \in Sessions,
             AcquireLock(s) \/ AcquireFail(s) \/ Validate(s)
             \/ ReadRoute(s) \/ RetireNone(s) \/ RetireRemote(s)
      PROVE  ClosedIsForgotten'
  BY <1>3 DEF AcquireLock, AcquireFail, Fault, Validate, ReadRoute, RetireNone,
     RetireRemote, LeaseInv, ClosedIsForgotten, TypeOK, RedisTypes, NodeTypes,
     LoginTypes, nodeVars
<1>4. ASSUME NEW s \in Sessions,
             KickReturn(s) \/ KickFail(s) \/ Register(s)
             \/ RegisterRefused(s) \/ RegisterLost(s) \/ BindRefused(s)
      PROVE  ClosedIsForgotten'
  BY <1>4 DEF KickReturn, KickFail, Fault, Register, Published, RegisterRefused,
     RegisterLost, BindRefused, LeaseInv, ClosedIsForgotten, TypeOK,
     RedisTypes, NodeTypes, LoginTypes, nodeVars
<1>5. ASSUME NEW s \in Sessions,
             Revoke(s) \/ LoginError(s) \/ Unlock(s)
      PROVE  ClosedIsForgotten'
  BY <1>5 DEF Revoke, ReleaseSession, ReleaseSlots, Released, Fault, LoginError, Unlock,
     LeaseInv, ClosedIsForgotten, TypeOK, RedisTypes, NodeTypes, LoginTypes,
     nodeVars
<1>6. ASSUME NEW n \in Servers, Crash(n) PROVE ClosedIsForgotten'
  BY <1>6, ConstantsAssumption DEF Crash, NoLogin, Admitted, LeaseInv, ClosedIsForgotten, TypeOK, RedisTypes,
     NodeTypes, LoginTypes, nodeVars
<1>7. ASSUME NEW s \in Sessions, NEW n \in Servers, Accept(s, n) PROVE ClosedIsForgotten'
  <2>1. \A m \in Servers, d \in Devices : usermgr[m][d] # s
    BY <1>7, ConstantsAssumption DEF Accept, LeaseInv, ClosedIsForgotten
  <2> QED
    BY <2>1, <1>7 DEF Accept, LeaseInv, ClosedIsForgotten, TypeOK, NodeTypes
<1>8. ASSUME NEW s \in Sessions, Close(s) PROVE ClosedIsForgotten'
  BY <1>8, ConstantsAssumption DEF Close, LeaseInv, ClosedIsForgotten, TypeOK, RedisTypes, NodeTypes,
     LoginTypes, nodeVars
<1>9. ASSUME NEW s \in Sessions, CleanupStart(s) PROVE ClosedIsForgotten'
  BY <1>9, ConstantsAssumption DEF CleanupStart, LeaseInv, ClosedIsForgotten, TypeOK, RedisTypes, NodeTypes,
     LoginTypes, nodeVars
<1>10. ASSUME NEW s \in Sessions, CleanupSession(s) PROVE ClosedIsForgotten'
  <2>1. \A n \in Servers, d \in Devices : usermgr'[n][d] # s \/ usermgr'[n][d] = None
    BY <1>10, ConstantsAssumption DEF CleanupSession, RmvUserSession, LeaseInv, ClosedIsForgotten,
       TypeOK, NodeTypes
  <2>2. \A n \in Servers, d \in Devices : usermgr'[n][d] \in {usermgr[n][d], None}
    BY <1>10 DEF CleanupSession, RmvUserSession
  <2>3. /\ server' = server /\ bound' = bound
        /\ \A x \in Sessions : x # s => conn'[x] = conn[x]
    BY <1>10 DEF CleanupSession, LeaseInv, TypeOK, NodeTypes
  <2> QED
    BY <2>1, <2>2, <2>3, ConstantsAssumption DEF LeaseInv, ClosedIsForgotten, TypeOK, NodeTypes
<1>11. ASSUME NEW s \in Sessions, CleanupTask(s) PROVE ClosedIsForgotten'
  BY <1>11, ConstantsAssumption DEF CleanupTask, ReleaseSession, ReleaseSlots, Released, RmvUserSession,
     Fault, LeaseInv, ClosedIsForgotten, TypeOK, RedisTypes, NodeTypes,
     LoginTypes, nodeVars
<1>12. ASSUME NEW s \in Sessions, Maintain(s) PROVE ClosedIsForgotten'
  BY <1>12, ConstantsAssumption DEF Maintain, LeaseInv, ClosedIsForgotten, TypeOK, RedisTypes, NodeTypes,
     LoginTypes, nodeVars
<1>13. ASSUME NEW s \in Sessions, RetireLocal(s) PROVE ClosedIsForgotten'
  BY <1>13, ConstantsAssumption DEF RetireLocal, RmvUserSession, NotifyOffline, At, LeaseInv,
     ClosedIsForgotten, TypeOK, RedisTypes, NodeTypes, LoginTypes, nodeVars
<1>14. ASSUME NEW s \in Sessions, KickExecute(s) PROVE ClosedIsForgotten'
  BY <1>14, ConstantsAssumption DEF KickExecute, Kick, NotifyOffline, At, LeaseInv, ClosedIsForgotten, TypeOK,
     RedisTypes, NodeTypes, LoginTypes, nodeVars
<1>15. ASSUME NEW s \in Sessions, Bind(s) PROVE ClosedIsForgotten'
  BY <1>15, ConstantsAssumption DEF Bind, At, LoginShape, ConnShape, LeaseInv, ClosedIsForgotten, TypeOK,
     RedisTypes, NodeTypes, LoginTypes, nodeVars
<1>16. ASSUME NEW n \in Servers, NEW d \in Devices, KickLate(n, d) PROVE ClosedIsForgotten'
  BY <1>16, ConstantsAssumption DEF KickLate, Kick, NotifyOffline, LeaseInv, ClosedIsForgotten, TypeOK,
     RedisTypes, NodeTypes, LoginTypes, nodeVars
<1> QED BY <1>1, <1>2, <1>3, <1>4, <1>5, <1>6, <1>7, <1>8, <1>9, <1>10, <1>11,
           <1>12, <1>13, <1>14, <1>15, <1>16
        DEF Next, LoginStep, CleanupStep

\* The initial state satisfies the invariant.
LEMMA LeaseInit == Init => LeaseInv
BY ConstantsAssumption DEF Init, LeaseInv, TypeOK, RedisTypes, NodeTypes, LoginTypes,
   BoundTypes, LoginRecord, LoginSteps, ConnStates, NoLogin, LoginShape, ConnShape,
   TokensIssued, OneSlotPerToken, LeaseIsWhole, ClosedIsForgotten

\* LeaseInv is an invariant, whatever fails.
THEOREM LeaseInvariant == Spec => []LeaseInv
<1>1. ASSUME LeaseInv, Next PROVE LeaseInv'
  BY <1>1, RedisTypeStep, NodeTypeStep, LoginTypeStep, BoundTypeStep, LoginShapeStep,
     ConnShapeStep, TokensStep, LeaseIsWholeStep, ForgottenStep DEF LeaseInv, TypeOK
<1>2. ASSUME LeaseInv, UNCHANGED vars PROVE LeaseInv'
  BY <1>2 DEF LeaseInv, TypeOK, RedisTypes, NodeTypes, LoginTypes, BoundTypes, LoginShape,
     ConnShape, TokensIssued, OneSlotPerToken, LeaseIsWhole, ClosedIsForgotten,
     vars, redisVars, nodeVars, boundVars
<1> QED BY <1>1, <1>2, LeaseInit, PTL DEF Spec

\* Types are kept, with failures, crashes and expiring locks.
THEOREM LeaseTypes == Spec => []TypeOK
BY LeaseInvariant, PTL DEF LeaseInv

\* A credential is active in one device slot at most, even when the account lock
\* expires under a running login: the RegisterSession script alone ensures it.
THEOREM TokenHasOneSlot == Spec => []OneSlotPerToken
BY LeaseInvariant, PTL DEF LeaseInv

\* The keys of a slot always describe one registration.
THEOREM LeasesAreWhole == Spec => []LeaseIsWhole
BY LeaseInvariant, PTL DEF LeaseInv

\* UserMgr never keeps a connection whose cleanup has passed it.
THEOREM ForgottenWhenClosed == Spec => []ClosedIsForgotten
BY LeaseInvariant, PTL DEF LeaseInv

\* No cleanup and no revocation takes the lease of a serving session, with or
\* without the account lock.
THEOREM CleanupSparesOwners == Spec => LeaseOutlivesCleanup
<1> DEFINE Spared == \A d \in Devices :
               usession[d] # None /\ usession'[d] = None
                   => conn[usession[d]] # "open" \/ ExpireLease(d)
<1>1. ASSUME LeaseInv, Next PROVE Spared \/ UNCHANGED vars
  <2>1. ASSUME NEW s \in Sessions, CleanupTask(s) PROVE Spared
    BY <2>1, ConstantsAssumption DEF CleanupTask, ReleaseSession, ReleaseSlots, Released, redisVars
  <2>2. ASSUME NEW s \in Sessions, Revoke(s) PROVE Spared
    <3>1. conn[s] # "open"
      BY <1>1, <2>2 DEF Revoke, At, LeaseInv, LoginShape
    <3>2. \A d \in Devices : usession'[d] = usession[d] \/ usession[d] = s
      BY <1>1, <2>2 DEF Revoke, ReleaseSession, ReleaseSlots, Released, redisVars, LeaseInv, TypeOK, RedisTypes
    <3> QED BY <3>1, <3>2
  <2>3. ASSUME NEW d \in Devices, ExpireLease(d) PROVE Spared
    <3>1. \A e \in Devices : e # d => usession'[e] = usession[e]
      BY <1>1, <2>3 DEF ExpireLease, LeaseInv, TypeOK, RedisTypes
    <3> QED BY <2>3, <3>1
  <2>4. ASSUME NEW s \in Sessions, Register(s) \/ RegisterLost(s) PROVE Spared
    <3>1. \A d \in Devices : usession'[d] = usession[d] \/ usession'[d] = s
      BY <1>1, <2>4 DEF Register, RegisterLost, Published, LeaseInv, TypeOK, RedisTypes
    <3> QED BY <3>1, ConstantsAssumption
  <2>5. ASSUME \/ ExpireLock \/ (\E t \in Tokens : IssueToken(t) \/ ExpirePending(t))
               \/ (\E n \in Servers : PublishHealth(n) \/ ExpireHealth(n) \/ Crash(n) \/ Restart(n))
               \/ (\E s \in Sessions, n \in Servers : Accept(s, n))
               \/ (\E s \in Sessions, d \in Devices, t \in Tokens : LoginStart(s, d, t))
               \/ (\E n \in Servers, d \in Devices : KickLate(n, d))
        PROVE  usession' = usession
    BY <2>5 DEF ExpireLock, IssueToken, ExpirePending, PublishHealth, ExpireHealth, Crash, Restart,
       Accept, LoginStart, KickLate, redisVars
  <2>6. ASSUME NEW s \in Sessions,
               \/ Close(s) \/ CleanupStart(s) \/ CleanupSession(s) \/ Maintain(s)
               \/ AcquireLock(s) \/ AcquireFail(s) \/ Validate(s) \/ ReadRoute(s)
               \/ RetireLocal(s) \/ RetireNone(s) \/ RetireRemote(s)
        PROVE  usession' = usession
    BY <2>6 DEF Close, CleanupStart, CleanupSession, Maintain, AcquireLock, AcquireFail, Validate,
       ReadRoute, RetireLocal, RetireNone, RetireRemote, redisVars
  <2>7. ASSUME NEW s \in Sessions,
               \/ KickExecute(s) \/ KickReturn(s) \/ KickFail(s) \/ RegisterRefused(s)
               \/ Bind(s) \/ BindRefused(s) \/ LoginError(s) \/ Unlock(s)
        PROVE  usession' = usession
    BY <2>7 DEF KickExecute, KickReturn, KickFail, RegisterRefused, Bind, BindRefused, LoginError,
       Unlock, redisVars
  <2>8. usession' = usession => Spared
    OBVIOUS
  <2> HIDE DEF Spared
  <2> QED
    BY <1>1, <2>1, <2>2, <2>3, <2>4, <2>5, <2>6, <2>7, <2>8 DEF Next, LoginStep, CleanupStep
<1>2. LeaseInv /\ [Next]_vars => [Spared]_vars
  BY <1>1
<1> QED BY <1>2, LeaseInvariant, PTL DEF Spec, LeaseOutlivesCleanup

--------------------------------------------------------------------------------
\* While no lock expires under its holder, a login past AcquireLock holds it.
LockHeld == \A s \in Sessions : Locked(s) => lock = s

\* Between Register and Bind nobody else can have registered for the slot.
BindOwns ==
    \A s \in Sessions :
        login[s].pc = "bind" => usession[login[s].device] \in {s, None}

LockInv == LockHeld /\ BindOwns /\ OwnerIsReachable

\* Mutual exclusion of the logins of an account.
LEMMA LockHeldStep ==
    ASSUME LeaseInv, LockInv, MaxLockExpiries = 0, Next
    PROVE  LockHeld'
<1>1. ASSUME \/ (\E s \in Sessions, n \in Servers : Accept(s, n))
             \/ (\E n \in Servers, d \in Devices : KickLate(n, d))
      PROVE  LockHeld'
  BY <1>1 DEF Accept, Admitted, KickLate, Kick, NotifyOffline, LeaseInv, LockInv,
     LockHeld, Locked, redisVars, TypeOK, RedisTypes, NodeTypes, LoginTypes
<1>2. ASSUME NEW s \in Sessions,
             Close(s) \/ CleanupStart(s) \/ CleanupSession(s)
             \/ Maintain(s)
      PROVE  LockHeld'
  BY <1>2 DEF Close, CleanupStart, CleanupSession, RmvUserSession, Maintain, LeaseInv,
     LockInv, LockHeld, Locked, redisVars, TypeOK, RedisTypes, NodeTypes,
     LoginTypes
<1>3. ASSUME NEW t \in Tokens, IssueToken(t) PROVE LockHeld'
  BY <1>3, ConstantsAssumption DEF IssueToken, LeaseInv, LockInv, LockHeld, Locked, redisVars, TypeOK,
     RedisTypes, NodeTypes, LoginTypes
<1>4. ASSUME NEW t \in Tokens, ExpirePending(t) PROVE LockHeld'
  BY <1>4, ConstantsAssumption DEF ExpirePending, LeaseInv, LockInv, LockHeld, Locked, redisVars, TypeOK,
     RedisTypes, NodeTypes, LoginTypes
<1>5. ASSUME NEW d \in Devices, ExpireLease(d) PROVE LockHeld'
  BY <1>5, ConstantsAssumption DEF ExpireLease, LeaseInv, LockInv, LockHeld, Locked, redisVars, TypeOK,
     RedisTypes, NodeTypes, LoginTypes
<1>6. ASSUME ExpireLock PROVE LockHeld'
  BY <1>6, ConstantsAssumption DEF ExpireLock, BoundTypes, LeaseInv, LockInv, LockHeld, Locked, redisVars,
     TypeOK, RedisTypes, NodeTypes, LoginTypes
<1>7. ASSUME NEW n \in Servers, PublishHealth(n) PROVE LockHeld'
  BY <1>7, ConstantsAssumption DEF PublishHealth, LeaseInv, LockInv, LockHeld, Locked, redisVars, TypeOK,
     RedisTypes, NodeTypes, LoginTypes
<1>8. ASSUME NEW n \in Servers, ExpireHealth(n) PROVE LockHeld'
  BY <1>8, ConstantsAssumption DEF ExpireHealth, Fault, LeaseInv, LockInv, LockHeld, Locked, redisVars,
     TypeOK, RedisTypes, NodeTypes, LoginTypes
<1>9. ASSUME NEW n \in Servers, Crash(n) PROVE LockHeld'
  BY <1>9, ConstantsAssumption DEF Crash, NoLogin, Admitted, LeaseInv, LockInv, LockHeld, Locked, redisVars,
     TypeOK, RedisTypes, NodeTypes, LoginTypes
<1>10. ASSUME NEW n \in Servers, Restart(n) PROVE LockHeld'
  BY <1>10, ConstantsAssumption DEF Restart, LeaseInv, LockInv, LockHeld, Locked, redisVars, TypeOK,
     RedisTypes, NodeTypes, LoginTypes
<1>11. ASSUME NEW s \in Sessions, NEW d \in Devices, NEW t \in Tokens, LoginStart(s, d, t) PROVE LockHeld'
  BY <1>11, ConstantsAssumption DEF LoginStart, LeaseInv, LockInv, LockHeld, Locked, redisVars, TypeOK,
     RedisTypes, NodeTypes, LoginTypes
<1>12. ASSUME NEW s \in Sessions, CleanupTask(s) PROVE LockHeld'
  BY <1>12, ConstantsAssumption DEF CleanupTask, ReleaseSession, ReleaseSlots, Released, RmvUserSession,
     Fault, LeaseInv, LockInv, LockHeld, Locked, redisVars, TypeOK, RedisTypes,
     NodeTypes, LoginTypes
<1>13. ASSUME NEW s \in Sessions, AcquireLock(s) PROVE LockHeld'
  <2>1. \A x \in Sessions : x # s => login'[x] = login[x]
    BY <1>13, GotoMoves DEF AcquireLock, LeaseInv, TypeOK, LoginSteps
  <2>2. lock = None /\ lock' = s /\ login[s].pc = "lock"
    BY <1>13 DEF AcquireLock, At, Locked, redisVars
  <2> QED BY <2>1, <2>2, ConstantsAssumption DEF LockInv, LockHeld, Locked
<1>14. ASSUME NEW s \in Sessions, AcquireFail(s) PROVE LockHeld'
  BY <1>14, ConstantsAssumption DEF AcquireFail, Fault, NoLogin, At, LeaseInv, LockInv, LockHeld, Locked,
     redisVars, TypeOK, RedisTypes, NodeTypes, LoginTypes
<1>15. ASSUME NEW s \in Sessions, Validate(s) PROVE LockHeld'
  <2>1. \A x \in Sessions : x # s => login'[x] = login[x]
    BY <1>15, GotoMoves DEF Validate, LeaseInv, TypeOK, LoginSteps
  <2>2. Locked(s) /\ lock' = lock
    BY <1>15 DEF Validate, At, Locked, redisVars
  <2> QED BY <2>1, <2>2, ConstantsAssumption DEF LockInv, LockHeld, Locked
<1>16. ASSUME NEW s \in Sessions, ReadRoute(s) PROVE LockHeld'
  BY <1>16, ConstantsAssumption DEF ReadRoute, At, LeaseInv, LockInv, LockHeld, Locked, redisVars, TypeOK,
     RedisTypes, NodeTypes, LoginTypes
<1>17. ASSUME NEW s \in Sessions, RetireLocal(s) PROVE LockHeld'
  <2>1. \A x \in Sessions : x # s => login'[x] = login[x]
    BY <1>17, GotoMoves DEF RetireLocal, LeaseInv, TypeOK, LoginSteps
  <2>2. Locked(s) /\ lock' = lock
    BY <1>17 DEF RetireLocal, RmvUserSession, NotifyOffline, At, Locked, redisVars
  <2> QED BY <2>1, <2>2, ConstantsAssumption DEF LockInv, LockHeld, Locked
<1>18. ASSUME NEW s \in Sessions, RetireNone(s) PROVE LockHeld'
  <2>1. \A x \in Sessions : x # s => login'[x] = login[x]
    BY <1>18, GotoMoves DEF RetireNone, LeaseInv, TypeOK, LoginSteps
  <2>2. Locked(s) /\ lock' = lock
    BY <1>18 DEF RetireNone, At, Locked, redisVars
  <2> QED BY <2>1, <2>2, ConstantsAssumption DEF LockInv, LockHeld, Locked
<1>19. ASSUME NEW s \in Sessions, RetireRemote(s) PROVE LockHeld'
  <2>1. \A x \in Sessions : x # s => login'[x] = login[x]
    BY <1>19, GotoMoves DEF RetireRemote, LeaseInv, TypeOK, LoginSteps
  <2>2. Locked(s) /\ lock' = lock
    BY <1>19 DEF RetireRemote, At, Locked, redisVars
  <2> QED BY <2>1, <2>2, ConstantsAssumption DEF LockInv, LockHeld, Locked
<1>20. ASSUME NEW s \in Sessions, KickExecute(s) PROVE LockHeld'
  <2>1. \A x \in Sessions : x # s => login'[x] = login[x]
    BY <1>20, GotoMoves DEF KickExecute, LeaseInv, TypeOK, LoginSteps
  <2>2. Locked(s) /\ lock' = lock
    BY <1>20 DEF KickExecute, Kick, NotifyOffline, At, Locked, redisVars
  <2> QED BY <2>1, <2>2, ConstantsAssumption DEF LockInv, LockHeld, Locked
<1>21. ASSUME NEW s \in Sessions, KickReturn(s) PROVE LockHeld'
  <2>1. \A x \in Sessions : x # s => login'[x] = login[x]
    BY <1>21, GotoMoves DEF KickReturn, LeaseInv, TypeOK, LoginSteps
  <2>2. Locked(s) /\ lock' = lock
    BY <1>21 DEF KickReturn, At, Locked, redisVars
  <2> QED BY <2>1, <2>2, ConstantsAssumption DEF LockInv, LockHeld, Locked
<1>22. ASSUME NEW s \in Sessions, KickFail(s) PROVE LockHeld'
  <2>1. \A x \in Sessions : x # s => login'[x] = login[x]
    BY <1>22, GotoMoves DEF KickFail, LeaseInv, TypeOK, LoginSteps
  <2>2. Locked(s) /\ lock' = lock
    BY <1>22 DEF KickFail, Fault, At, Locked, redisVars
  <2> QED BY <2>1, <2>2, ConstantsAssumption DEF LockInv, LockHeld, Locked
<1>23. ASSUME NEW s \in Sessions, Register(s) PROVE LockHeld'
  <2>1. \A x \in Sessions : x # s => login'[x] = login[x]
    BY <1>23, GotoMoves DEF Register, LeaseInv, TypeOK, LoginSteps
  <2>2. Locked(s) /\ lock' = lock
    BY <1>23 DEF Register, Published, At, Locked, redisVars
  <2> QED BY <2>1, <2>2, ConstantsAssumption DEF LockInv, LockHeld, Locked
<1>24. ASSUME NEW s \in Sessions, RegisterRefused(s) PROVE LockHeld'
  <2>1. \A x \in Sessions : x # s => login'[x] = login[x]
    BY <1>24, GotoMoves DEF RegisterRefused, LeaseInv, TypeOK, LoginSteps
  <2>2. Locked(s) /\ lock' = lock
    BY <1>24 DEF RegisterRefused, At, Locked, redisVars
  <2> QED BY <2>1, <2>2, ConstantsAssumption DEF LockInv, LockHeld, Locked
<1>25. ASSUME NEW s \in Sessions, RegisterLost(s) PROVE LockHeld'
  <2>1. \A x \in Sessions : x # s => login'[x] = login[x]
    BY <1>25, GotoMoves DEF RegisterLost, LeaseInv, TypeOK, LoginSteps
  <2>2. Locked(s) /\ lock' = lock
    BY <1>25 DEF RegisterLost, Published, Fault, At, Locked, redisVars
  <2> QED BY <2>1, <2>2, ConstantsAssumption DEF LockInv, LockHeld, Locked
<1>26. ASSUME NEW s \in Sessions, Bind(s) PROVE LockHeld'
  <2>1. \A x \in Sessions : x # s => login'[x] = login[x]
    BY <1>26, GotoMoves DEF Bind, LeaseInv, TypeOK, LoginSteps
  <2>2. Locked(s) /\ lock' = lock
    BY <1>26 DEF Bind, At, Locked, redisVars
  <2> QED BY <2>1, <2>2, ConstantsAssumption DEF LockInv, LockHeld, Locked
<1>27. ASSUME NEW s \in Sessions, BindRefused(s) PROVE LockHeld'
  <2>1. \A x \in Sessions : x # s => login'[x] = login[x]
    BY <1>27, GotoMoves DEF BindRefused, LeaseInv, TypeOK, LoginSteps
  <2>2. Locked(s) /\ lock' = lock
    BY <1>27 DEF BindRefused, At, Locked, redisVars
  <2> QED BY <2>1, <2>2, ConstantsAssumption DEF LockInv, LockHeld, Locked
<1>28. ASSUME NEW s \in Sessions, Revoke(s) PROVE LockHeld'
  <2>1. \A x \in Sessions : x # s => login'[x] = login[x]
    BY <1>28, GotoMoves DEF Revoke, LeaseInv, TypeOK, LoginSteps
  <2>2. Locked(s) /\ lock' = lock
    BY <1>28 DEF Revoke, ReleaseSession, ReleaseSlots, Released, Fault, At, Locked, redisVars
  <2> QED BY <2>1, <2>2, ConstantsAssumption DEF LockInv, LockHeld, Locked
<1>29. ASSUME NEW s \in Sessions, LoginError(s) PROVE LockHeld'
  <2>1. \A x \in Sessions : x # s => login'[x] = login[x]
    BY <1>29, GotoMoves DEF LoginError, LeaseInv, TypeOK, LoginSteps
  <2>2. Locked(s) /\ lock' = lock
    BY <1>29 DEF LoginError, Fault, At, Locked, redisVars
  <2> QED BY <2>1, <2>2, ConstantsAssumption DEF LockInv, LockHeld, Locked
<1>30. ASSUME NEW s \in Sessions, Unlock(s) PROVE LockHeld'
  BY <1>30, ConstantsAssumption DEF Unlock, Fault, NoLogin, At, LeaseInv, LockInv, LockHeld, Locked,
     redisVars, TypeOK, RedisTypes, NodeTypes, LoginTypes
<1> QED BY <1>1, <1>2, <1>3, <1>4, <1>5, <1>6, <1>7, <1>8, <1>9, <1>10, <1>11,
           <1>12, <1>13, <1>14, <1>15, <1>16, <1>17, <1>18, <1>19, <1>20,
           <1>21, <1>22, <1>23, <1>24, <1>25, <1>26, <1>27, <1>28, <1>29,
           <1>30
        DEF Next, LoginStep, CleanupStep

\* The slot of a login about to bind is its own.
LEMMA BindOwnsStep ==
    ASSUME LeaseInv, LockInv, MaxLockExpiries = 0, Next
    PROVE  BindOwns'
<1>1. ASSUME \/ ExpireLock
             \/ (\E n \in Servers : PublishHealth(n) \/ ExpireHealth(n) \/ Restart(n))
             \/ (\E s \in Sessions, n \in Servers : Accept(s, n))
             \/ (\E n \in Servers, d \in Devices : KickLate(n, d))
      PROVE  BindOwns'
  BY <1>1 DEF ExpireLock, PublishHealth, ExpireHealth, Fault, Restart, Accept, Admitted,
     KickLate, Kick, NotifyOffline, LeaseInv, LockInv, BindOwns, TypeOK,
     RedisTypes, NodeTypes, LoginTypes, redisVars
<1>2. ASSUME NEW s \in Sessions,
             Close(s) \/ CleanupStart(s) \/ CleanupSession(s)
             \/ Maintain(s)
      PROVE  BindOwns'
  BY <1>2 DEF Close, CleanupStart, CleanupSession, RmvUserSession, Maintain, LeaseInv,
     LockInv, BindOwns, TypeOK, RedisTypes, NodeTypes, LoginTypes, redisVars
<1>3. ASSUME NEW t \in Tokens, IssueToken(t) PROVE BindOwns'
  BY <1>3, ConstantsAssumption DEF IssueToken, LeaseInv, LockInv, BindOwns, TypeOK, RedisTypes, NodeTypes,
     LoginTypes, redisVars
<1>4. ASSUME NEW t \in Tokens, ExpirePending(t) PROVE BindOwns'
  BY <1>4, ConstantsAssumption DEF ExpirePending, LeaseInv, LockInv, BindOwns, TypeOK, RedisTypes, NodeTypes,
     LoginTypes, redisVars
<1>5. ASSUME NEW d \in Devices, ExpireLease(d) PROVE BindOwns'
  BY <1>5, ConstantsAssumption DEF ExpireLease, LeaseInv, LockInv, BindOwns, TypeOK, RedisTypes, NodeTypes,
     LoginTypes, redisVars
<1>6. ASSUME NEW n \in Servers, Crash(n) PROVE BindOwns'
  BY <1>6, ConstantsAssumption DEF Crash, NoLogin, Admitted, LeaseInv, LockInv, BindOwns, TypeOK, RedisTypes,
     NodeTypes, LoginTypes, redisVars
<1>7. ASSUME NEW s \in Sessions, NEW d \in Devices, NEW t \in Tokens, LoginStart(s, d, t) PROVE BindOwns'
  BY <1>7, ConstantsAssumption DEF LoginStart, LeaseInv, LockInv, BindOwns, TypeOK, RedisTypes, NodeTypes,
     LoginTypes, redisVars
<1>8. ASSUME NEW s \in Sessions, CleanupTask(s) PROVE BindOwns'
  <2>1. \A d \in Devices : usession'[d] \in {usession[d], None}
    BY <1>8 DEF CleanupTask, ReleaseSession, ReleaseSlots, Released, redisVars, LeaseInv, TypeOK, RedisTypes
  <2>2. \A x \in Sessions : login'[x].pc = "bind" => login'[x] = login[x]
    BY <1>8 DEF CleanupTask, LeaseInv, TypeOK, LoginSteps
  <2> QED BY <2>1, <2>2 DEF LeaseInv, LoginShape, LockInv, BindOwns
<1>9. ASSUME NEW s \in Sessions, AcquireLock(s) PROVE BindOwns'
  <2>1. \A d \in Devices : usession'[d] \in {usession[d], None}
    BY <1>9 DEF AcquireLock, ReleaseSession, ReleaseSlots, Released, redisVars, LeaseInv, TypeOK, RedisTypes
  <2>2. \A x \in Sessions : login'[x].pc = "bind" => login'[x] = login[x]
    BY <1>9, GotoMoves DEF AcquireLock, LeaseInv, TypeOK, LoginSteps
  <2> QED BY <2>1, <2>2 DEF LeaseInv, LoginShape, LockInv, BindOwns
<1>10. ASSUME NEW s \in Sessions, AcquireFail(s) PROVE BindOwns'
  BY <1>10, ConstantsAssumption DEF AcquireFail, Fault, NoLogin, At, LeaseInv, LockInv, BindOwns, TypeOK,
     RedisTypes, NodeTypes, LoginTypes, redisVars
<1>11. ASSUME NEW s \in Sessions, Validate(s) PROVE BindOwns'
  <2>1. \A d \in Devices : usession'[d] \in {usession[d], None}
    BY <1>11 DEF Validate, ReleaseSession, ReleaseSlots, Released, redisVars, LeaseInv, TypeOK, RedisTypes
  <2>2. \A x \in Sessions : login'[x].pc = "bind" => login'[x] = login[x]
    BY <1>11, GotoMoves DEF Validate, LeaseInv, TypeOK, LoginSteps
  <2> QED BY <2>1, <2>2 DEF LeaseInv, LoginShape, LockInv, BindOwns
<1>12. ASSUME NEW s \in Sessions, ReadRoute(s) PROVE BindOwns'
  <2>1. usession' = usession
    BY <1>12 DEF ReadRoute, redisVars
  <2>2. \A x \in Sessions : login'[x].pc = "bind" => login'[x] = login[x]
    BY <1>12 DEF ReadRoute, LeaseInv, TypeOK, LoginTypes, LoginRecord
  <2> QED BY <2>1, <2>2 DEF LockInv, BindOwns
<1>13. ASSUME NEW s \in Sessions, RetireLocal(s) PROVE BindOwns'
  <2>1. \A d \in Devices : usession'[d] \in {usession[d], None}
    BY <1>13 DEF RetireLocal, ReleaseSession, ReleaseSlots, Released, redisVars, LeaseInv, TypeOK, RedisTypes
  <2>2. \A x \in Sessions : login'[x].pc = "bind" => login'[x] = login[x]
    BY <1>13, GotoMoves DEF RetireLocal, LeaseInv, TypeOK, LoginSteps
  <2> QED BY <2>1, <2>2 DEF LeaseInv, LoginShape, LockInv, BindOwns
<1>14. ASSUME NEW s \in Sessions, RetireNone(s) PROVE BindOwns'
  <2>1. \A d \in Devices : usession'[d] \in {usession[d], None}
    BY <1>14 DEF RetireNone, ReleaseSession, ReleaseSlots, Released, redisVars, LeaseInv, TypeOK, RedisTypes
  <2>2. \A x \in Sessions : login'[x].pc = "bind" => login'[x] = login[x]
    BY <1>14, GotoMoves DEF RetireNone, LeaseInv, TypeOK, LoginSteps
  <2> QED BY <2>1, <2>2 DEF LeaseInv, LoginShape, LockInv, BindOwns
<1>15. ASSUME NEW s \in Sessions, RetireRemote(s) PROVE BindOwns'
  <2>1. \A d \in Devices : usession'[d] \in {usession[d], None}
    BY <1>15 DEF RetireRemote, ReleaseSession, ReleaseSlots, Released, redisVars, LeaseInv, TypeOK, RedisTypes
  <2>2. \A x \in Sessions : login'[x].pc = "bind" => login'[x] = login[x]
    BY <1>15, GotoMoves DEF RetireRemote, LeaseInv, TypeOK, LoginSteps
  <2> QED BY <2>1, <2>2 DEF LeaseInv, LoginShape, LockInv, BindOwns
<1>16. ASSUME NEW s \in Sessions, KickExecute(s) PROVE BindOwns'
  <2>1. \A d \in Devices : usession'[d] \in {usession[d], None}
    BY <1>16 DEF KickExecute, ReleaseSession, ReleaseSlots, Released, redisVars, LeaseInv, TypeOK, RedisTypes
  <2>2. \A x \in Sessions : login'[x].pc = "bind" => login'[x] = login[x]
    BY <1>16, GotoMoves DEF KickExecute, LeaseInv, TypeOK, LoginSteps
  <2> QED BY <2>1, <2>2 DEF LeaseInv, LoginShape, LockInv, BindOwns
<1>17. ASSUME NEW s \in Sessions, KickReturn(s) PROVE BindOwns'
  <2>1. \A d \in Devices : usession'[d] \in {usession[d], None}
    BY <1>17 DEF KickReturn, ReleaseSession, ReleaseSlots, Released, redisVars, LeaseInv, TypeOK, RedisTypes
  <2>2. \A x \in Sessions : login'[x].pc = "bind" => login'[x] = login[x]
    BY <1>17, GotoMoves DEF KickReturn, LeaseInv, TypeOK, LoginSteps
  <2> QED BY <2>1, <2>2 DEF LeaseInv, LoginShape, LockInv, BindOwns
<1>18. ASSUME NEW s \in Sessions, KickFail(s) PROVE BindOwns'
  <2>1. \A d \in Devices : usession'[d] \in {usession[d], None}
    BY <1>18 DEF KickFail, ReleaseSession, ReleaseSlots, Released, redisVars, LeaseInv, TypeOK, RedisTypes
  <2>2. \A x \in Sessions : login'[x].pc = "bind" => login'[x] = login[x]
    BY <1>18, GotoMoves DEF KickFail, LeaseInv, TypeOK, LoginSteps
  <2> QED BY <2>1, <2>2 DEF LeaseInv, LoginShape, LockInv, BindOwns
<1>19. ASSUME NEW s \in Sessions, Register(s) PROVE BindOwns'
  BY <1>19, GotoMoves, ConstantsAssumption DEF Register, Published, At, LoginSteps, LockHeld, Locked, LoginShape,
     LeaseInv, LockInv, BindOwns, TypeOK, RedisTypes, NodeTypes, LoginTypes,
     redisVars
<1>20. ASSUME NEW s \in Sessions, RegisterRefused(s) PROVE BindOwns'
  <2>1. \A d \in Devices : usession'[d] \in {usession[d], None}
    BY <1>20 DEF RegisterRefused, ReleaseSession, ReleaseSlots, Released, redisVars, LeaseInv, TypeOK, RedisTypes
  <2>2. \A x \in Sessions : login'[x].pc = "bind" => login'[x] = login[x]
    BY <1>20, GotoMoves DEF RegisterRefused, LeaseInv, TypeOK, LoginSteps
  <2> QED BY <2>1, <2>2 DEF LeaseInv, LoginShape, LockInv, BindOwns
<1>21. ASSUME NEW s \in Sessions, RegisterLost(s) PROVE BindOwns'
  BY <1>21, GotoMoves, ConstantsAssumption DEF RegisterLost, Published, Fault, At, LoginSteps, LockHeld, Locked,
     LoginShape, LeaseInv, LockInv, BindOwns, TypeOK, RedisTypes, NodeTypes,
     LoginTypes, redisVars
<1>22. ASSUME NEW s \in Sessions, Bind(s) PROVE BindOwns'
  <2>1. \A d \in Devices : usession'[d] \in {usession[d], None}
    BY <1>22 DEF Bind, ReleaseSession, ReleaseSlots, Released, redisVars, LeaseInv, TypeOK, RedisTypes
  <2>2. \A x \in Sessions : login'[x].pc = "bind" => login'[x] = login[x]
    BY <1>22, GotoMoves DEF Bind, LeaseInv, TypeOK, LoginSteps
  <2> QED BY <2>1, <2>2 DEF LeaseInv, LoginShape, LockInv, BindOwns
<1>23. ASSUME NEW s \in Sessions, BindRefused(s) PROVE BindOwns'
  <2>1. \A d \in Devices : usession'[d] \in {usession[d], None}
    BY <1>23 DEF BindRefused, ReleaseSession, ReleaseSlots, Released, redisVars, LeaseInv, TypeOK, RedisTypes
  <2>2. \A x \in Sessions : login'[x].pc = "bind" => login'[x] = login[x]
    BY <1>23, GotoMoves DEF BindRefused, LeaseInv, TypeOK, LoginSteps
  <2> QED BY <2>1, <2>2 DEF LeaseInv, LoginShape, LockInv, BindOwns
<1>24. ASSUME NEW s \in Sessions, Revoke(s) PROVE BindOwns'
  <2>1. \A d \in Devices : usession'[d] \in {usession[d], None}
    BY <1>24 DEF Revoke, ReleaseSession, ReleaseSlots, Released, Fault, ReleaseSession, ReleaseSlots, Released, redisVars, LeaseInv, TypeOK, RedisTypes
  <2>2. \A x \in Sessions : login'[x].pc = "bind" => login'[x] = login[x]
    BY <1>24, GotoMoves DEF Revoke, LeaseInv, TypeOK, LoginSteps
  <2> QED BY <2>1, <2>2 DEF LeaseInv, LoginShape, LockInv, BindOwns
<1>25. ASSUME NEW s \in Sessions, LoginError(s) PROVE BindOwns'
  <2>1. \A d \in Devices : usession'[d] \in {usession[d], None}
    BY <1>25 DEF LoginError, ReleaseSession, ReleaseSlots, Released, redisVars, LeaseInv, TypeOK, RedisTypes
  <2>2. \A x \in Sessions : login'[x].pc = "bind" => login'[x] = login[x]
    BY <1>25, GotoMoves DEF LoginError, LeaseInv, TypeOK, LoginSteps
  <2> QED BY <2>1, <2>2 DEF LeaseInv, LoginShape, LockInv, BindOwns
<1>26. ASSUME NEW s \in Sessions, Unlock(s) PROVE BindOwns'
  BY <1>26, ConstantsAssumption DEF Unlock, Fault, NoLogin, At, LeaseInv, LockInv, BindOwns, TypeOK,
     RedisTypes, NodeTypes, LoginTypes, redisVars
<1> QED BY <1>1, <1>2, <1>3, <1>4, <1>5, <1>6, <1>7, <1>8, <1>9, <1>10, <1>11,
           <1>12, <1>13, <1>14, <1>15, <1>16, <1>17, <1>18, <1>19, <1>20,
           <1>21, <1>22, <1>23, <1>24, <1>25, <1>26
        DEF Next, LoginStep, CleanupStep

\* The owner of a slot stays reachable.
LEMMA ReachableStep ==
    ASSUME LeaseInv, LockInv, MaxLockExpiries = 0, Next
    PROVE  OwnerIsReachable'
<1>1. ASSUME \/ ExpireLock
             \/ (\E n \in Servers : PublishHealth(n) \/ ExpireHealth(n) \/ Restart(n))
             \/ (\E s \in Sessions, d \in Devices, t \in Tokens : LoginStart(s, d, t))
      PROVE  OwnerIsReachable'
  BY <1>1 DEF ExpireLock, PublishHealth, ExpireHealth, Fault, Restart, LoginStart,
     LeaseInv, LockInv, OwnerIsReachable, TypeOK, RedisTypes, NodeTypes,
     LoginTypes, nodeVars, redisVars
<1>2. ASSUME NEW s \in Sessions,
             AcquireLock(s) \/ AcquireFail(s) \/ Validate(s)
             \/ ReadRoute(s) \/ RetireNone(s) \/ RetireRemote(s)
      PROVE  OwnerIsReachable'
  BY <1>2 DEF AcquireLock, AcquireFail, Fault, Validate, ReadRoute, RetireNone,
     RetireRemote, LeaseInv, LockInv, OwnerIsReachable, TypeOK, RedisTypes,
     NodeTypes, LoginTypes, nodeVars, redisVars
<1>3. ASSUME NEW s \in Sessions,
             KickReturn(s) \/ KickFail(s) \/ RegisterRefused(s)
             \/ BindRefused(s) \/ LoginError(s) \/ Unlock(s)
      PROVE  OwnerIsReachable'
  BY <1>3 DEF KickReturn, KickFail, Fault, RegisterRefused, BindRefused, LoginError,
     Unlock, LeaseInv, LockInv, OwnerIsReachable, TypeOK, RedisTypes,
     NodeTypes, LoginTypes, nodeVars, redisVars
<1>4. ASSUME NEW t \in Tokens, IssueToken(t) PROVE OwnerIsReachable'
  BY <1>4, ConstantsAssumption DEF IssueToken, LeaseInv, LockInv, OwnerIsReachable, TypeOK, RedisTypes,
     NodeTypes, LoginTypes, nodeVars, redisVars
<1>5. ASSUME NEW t \in Tokens, ExpirePending(t) PROVE OwnerIsReachable'
  BY <1>5, ConstantsAssumption DEF ExpirePending, LeaseInv, LockInv, OwnerIsReachable, TypeOK, RedisTypes,
     NodeTypes, LoginTypes, nodeVars, redisVars
<1>6. ASSUME NEW d \in Devices, ExpireLease(d) PROVE OwnerIsReachable'
  BY <1>6, ConstantsAssumption DEF ExpireLease, LeaseInv, LockInv, OwnerIsReachable, TypeOK, RedisTypes,
     NodeTypes, LoginTypes, nodeVars, redisVars
<1>7. ASSUME NEW n \in Servers, Crash(n) PROVE OwnerIsReachable'
  BY <1>7, ConstantsAssumption DEF Crash, NoLogin, Admitted, LeaseInv, LockInv, OwnerIsReachable, TypeOK,
     RedisTypes, NodeTypes, LoginTypes, nodeVars, redisVars
<1>8. ASSUME NEW s \in Sessions, NEW n \in Servers, Accept(s, n) PROVE OwnerIsReachable'
  BY <1>8, ConstantsAssumption DEF Accept, Admitted, ConnShape, LeaseInv, LockInv, OwnerIsReachable, TypeOK,
     RedisTypes, NodeTypes, LoginTypes, nodeVars, redisVars
<1>9. ASSUME NEW s \in Sessions, Close(s) PROVE OwnerIsReachable'
  BY <1>9, ConstantsAssumption DEF Close, LeaseInv, LockInv, OwnerIsReachable, TypeOK, RedisTypes, NodeTypes,
     LoginTypes, nodeVars, redisVars
<1>10. ASSUME NEW s \in Sessions, CleanupStart(s) PROVE OwnerIsReachable'
  BY <1>10, ConstantsAssumption DEF CleanupStart, LeaseInv, LockInv, OwnerIsReachable, TypeOK, RedisTypes,
     NodeTypes, LoginTypes, nodeVars, redisVars
<1>11. ASSUME NEW s \in Sessions, CleanupSession(s) PROVE OwnerIsReachable'
  <2>1. \A x \in Sessions, d \in Devices :
           usermgr[server[x]][d] = x /\ server[x] \in Servers /\ conn'[x] = "open"
               => usermgr'[server[x]][d] = x
    BY <1>11 DEF CleanupSession, RmvUserSession, NotifyOffline, LeaseInv, TypeOK, NodeTypes
  <2>2. /\ server' = server /\ bound' = bound
        /\ \A x \in Sessions : conn'[x] = "open" => conn[x] = "open" /\ server[x] \in Servers
    BY <1>11 DEF CleanupSession, NotifyOffline, LeaseInv, ConnShape, TypeOK, NodeTypes
  <2>3. \A d \in Devices : usession'[d] \in {usession[d], None}
    BY <1>11 DEF CleanupSession, ReleaseSession, ReleaseSlots, Released, redisVars, LeaseInv, TypeOK, RedisTypes
  <2> QED BY <2>1, <2>2, <2>3, ConstantsAssumption DEF LockInv, OwnerIsReachable
<1>12. ASSUME NEW s \in Sessions, CleanupTask(s) PROVE OwnerIsReachable'
  <2>1. \A x \in Sessions, d \in Devices :
           usermgr[server[x]][d] = x /\ server[x] \in Servers /\ conn'[x] = "open"
               => usermgr'[server[x]][d] = x
    BY <1>12 DEF CleanupTask, RmvUserSession, NotifyOffline, LeaseInv, TypeOK, NodeTypes
  <2>2. /\ server' = server /\ bound' = bound
        /\ \A x \in Sessions : conn'[x] = "open" => conn[x] = "open" /\ server[x] \in Servers
    BY <1>12 DEF CleanupTask, NotifyOffline, LeaseInv, ConnShape, TypeOK, NodeTypes
  <2>3. \A d \in Devices : usession'[d] \in {usession[d], None}
    BY <1>12 DEF CleanupTask, ReleaseSession, ReleaseSlots, Released, redisVars, LeaseInv, TypeOK, RedisTypes
  <2> QED BY <2>1, <2>2, <2>3, ConstantsAssumption DEF LockInv, OwnerIsReachable
<1>13. ASSUME NEW s \in Sessions, Maintain(s) PROVE OwnerIsReachable'
  BY <1>13, ConstantsAssumption DEF Maintain, LeaseInv, LockInv, OwnerIsReachable, TypeOK, RedisTypes,
     NodeTypes, LoginTypes, nodeVars, redisVars
<1>14. ASSUME NEW s \in Sessions, RetireLocal(s) PROVE OwnerIsReachable'
  <2>1. \A x \in Sessions, d \in Devices :
           usermgr[server[x]][d] = x /\ server[x] \in Servers /\ conn'[x] = "open"
               => usermgr'[server[x]][d] = x
    BY <1>14 DEF RetireLocal, RmvUserSession, NotifyOffline, LeaseInv, TypeOK, NodeTypes
  <2>2. /\ server' = server /\ bound' = bound
        /\ \A x \in Sessions : conn'[x] = "open" => conn[x] = "open" /\ server[x] \in Servers
    BY <1>14 DEF RetireLocal, NotifyOffline, LeaseInv, ConnShape, TypeOK, NodeTypes
  <2>3. \A d \in Devices : usession'[d] \in {usession[d], None}
    BY <1>14 DEF RetireLocal, ReleaseSession, ReleaseSlots, Released, redisVars, LeaseInv, TypeOK, RedisTypes
  <2> QED BY <2>1, <2>2, <2>3, ConstantsAssumption DEF LockInv, OwnerIsReachable
<1>15. ASSUME NEW s \in Sessions, KickExecute(s) PROVE OwnerIsReachable'
  BY <1>15, ConstantsAssumption DEF KickExecute, Kick, NotifyOffline, At, LeaseInv, LockInv, OwnerIsReachable,
     TypeOK, RedisTypes, NodeTypes, LoginTypes, nodeVars, redisVars
<1>16. ASSUME NEW s \in Sessions, Register(s) PROVE OwnerIsReachable'
  BY <1>16, ConstantsAssumption DEF Register, Published, At, LoginShape, LeaseInv, LockInv, OwnerIsReachable,
     TypeOK, RedisTypes, NodeTypes, LoginTypes, nodeVars, redisVars
<1>17. ASSUME NEW s \in Sessions, RegisterLost(s) PROVE OwnerIsReachable'
  BY <1>17, ConstantsAssumption DEF RegisterLost, Published, Fault, At, LoginShape, LeaseInv, LockInv,
     OwnerIsReachable, TypeOK, RedisTypes, NodeTypes, LoginTypes, nodeVars,
     redisVars
<1>18. ASSUME NEW s \in Sessions, Bind(s) PROVE OwnerIsReachable'
  <2>1. /\ login[s].device \in Devices /\ server[s] \in Servers
        /\ usession[login[s].device] \in {s, None}
    BY <1>18 DEF Bind, At, LeaseInv, LoginShape, ConnShape, LockInv, BindOwns
  <2>2. /\ usession' = usession /\ conn' = conn /\ server' = server
        /\ \A x \in Sessions : x # s => bound'[x] = bound[x]
        /\ bound'[s] = login[s].device /\ usermgr'[server[s]][login[s].device] = s
        /\ \A n \in Servers, d \in Devices :
              d # login[s].device => usermgr'[n][d] = usermgr[n][d]
    BY <2>1, <1>18 DEF Bind, redisVars, LeaseInv, TypeOK, NodeTypes
  <2>3. ASSUME NEW x \in Sessions, NEW d \in Devices,
               usession'[d] = x, bound'[x] = d, conn'[x] = "open"
        PROVE  usermgr'[server'[x]][d] = x
    <3>1. CASE x = s
      BY <2>2, <2>3, <3>1
    <3>2. CASE x # s
      <4>1. d # login[s].device
        BY <2>1, <2>2, <2>3, <3>2, ConstantsAssumption
      <4>2. server[x] \in Servers /\ usermgr[server[x]][d] = x
        BY <2>2, <2>3, <3>2 DEF LockInv, OwnerIsReachable, LeaseInv, ConnShape
      <4> QED BY <4>1, <4>2, <2>2
    <3> QED BY <3>1, <3>2
  <2> QED BY <2>3 DEF OwnerIsReachable
<1>19. ASSUME NEW s \in Sessions, Revoke(s) PROVE OwnerIsReachable'
  BY <1>19, ConstantsAssumption DEF Revoke, ReleaseSession, ReleaseSlots, Released, Fault, At, LeaseInv,
     LockInv, OwnerIsReachable, TypeOK, RedisTypes, NodeTypes, LoginTypes,
     nodeVars, redisVars
<1>20. ASSUME NEW n \in Servers, NEW d \in Devices, KickLate(n, d) PROVE OwnerIsReachable'
  BY <1>20, ConstantsAssumption DEF KickLate, Kick, NotifyOffline, LeaseInv, LockInv, OwnerIsReachable,
     TypeOK, RedisTypes, NodeTypes, LoginTypes, nodeVars, redisVars
<1> QED BY <1>1, <1>2, <1>3, <1>4, <1>5, <1>6, <1>7, <1>8, <1>9, <1>10, <1>11,
           <1>12, <1>13, <1>14, <1>15, <1>16, <1>17, <1>18, <1>19, <1>20
        DEF Next, LoginStep, CleanupStep

\* LockInv is an invariant as long as no lock lease expires under a running login.
THEOREM LockInvariant ==
    ASSUME MaxLockExpiries = 0
    PROVE  Spec => []LockInv
<1>1. Init => LockInv
  BY ConstantsAssumption DEF Init, LockInv, LockHeld, Locked, NoLogin, BindOwns, OwnerIsReachable
<1>2. ASSUME LeaseInv, LockInv, Next PROVE LockInv'
  BY <1>2, LockHeldStep, BindOwnsStep, ReachableStep DEF LockInv
<1>3. ASSUME LockInv, UNCHANGED vars PROVE LockInv'
  BY <1>3 DEF LockInv, LockHeld, Locked, BindOwns, OwnerIsReachable, vars, redisVars, nodeVars
<1> QED BY <1>1, <1>2, <1>3, LeaseInvariant, PTL DEF Spec

\* As long as no lock lease expires under a running login, the session that owns
\* a slot is the one its node delivers to, whatever else fails or crashes.
THEOREM OwnersAreReachable ==
    ASSUME MaxLockExpiries = 0
    PROVE  Spec => []OwnerIsReachable
BY LockInvariant, PTL DEF LockInv

\* What KickUnderLock says of one step.
KickLocked ==
    \A s \in Sessions :
        conn[s] = "open" /\ conn'[s] = "retiring" /\ <<server[s], bound[s]>> \notin late =>
            \E x \in Sessions : /\ lock = x /\ login[x].device = bound[s]
                                /\ login[x].pc \notin {"idle", "lock", "validate"}

\* A step kicks only under the lock, unless it is a late kick.
LEMMA KickLockedStep ==
    ASSUME LeaseInv, LockInv, Next
    PROVE  KickLocked
<1>1. ASSUME \/ (\E t \in Tokens : IssueToken(t) \/ ExpirePending(t))
             \/ (\E d \in Devices : ExpireLease(d))
             \/ ExpireLock
             \/ (\E n \in Servers : PublishHealth(n) \/ ExpireHealth(n))
      PROVE  KickLocked
  BY <1>1 DEF IssueToken, ExpirePending, ExpireLease, ExpireLock, PublishHealth,
     ExpireHealth, Fault, LeaseInv, KickLocked, TypeOK, NodeTypes, nodeVars
<1>2. ASSUME \/ (\E n \in Servers : Restart(n))
             \/ (\E s \in Sessions, d \in Devices, t \in Tokens : LoginStart(s, d, t))
      PROVE  KickLocked
  BY <1>2 DEF Restart, LoginStart, LeaseInv, KickLocked, TypeOK, NodeTypes, nodeVars
<1>3. ASSUME NEW s \in Sessions,
             AcquireLock(s) \/ AcquireFail(s) \/ Validate(s)
             \/ ReadRoute(s) \/ RetireNone(s) \/ RetireRemote(s)
      PROVE  KickLocked
  BY <1>3 DEF AcquireLock, AcquireFail, Fault, Validate, ReadRoute, RetireNone,
     RetireRemote, LeaseInv, KickLocked, TypeOK, NodeTypes, nodeVars
<1>4. ASSUME NEW s \in Sessions,
             KickReturn(s) \/ KickFail(s) \/ Register(s)
             \/ RegisterRefused(s) \/ RegisterLost(s) \/ BindRefused(s)
      PROVE  KickLocked
  BY <1>4 DEF KickReturn, KickFail, Fault, Register, Published, RegisterRefused,
     RegisterLost, BindRefused, LeaseInv, KickLocked, TypeOK, NodeTypes,
     nodeVars
<1>5. ASSUME NEW s \in Sessions,
             Revoke(s) \/ LoginError(s) \/ Unlock(s)
      PROVE  KickLocked
  BY <1>5 DEF Revoke, ReleaseSession, ReleaseSlots, Released, Fault, LoginError, Unlock,
     LeaseInv, KickLocked, TypeOK, NodeTypes, nodeVars
<1>6. ASSUME NEW n \in Servers, Crash(n) PROVE KickLocked
  BY <1>6 DEF Crash, NoLogin, Admitted, LeaseInv, KickLocked, TypeOK, NodeTypes,
     nodeVars
<1>7. ASSUME NEW s \in Sessions, NEW n \in Servers, Accept(s, n) PROVE KickLocked
  BY <1>7 DEF Accept, Admitted, LeaseInv, KickLocked, TypeOK, NodeTypes, nodeVars
<1>8. ASSUME NEW s \in Sessions, Close(s) PROVE KickLocked
  BY <1>8 DEF Close, LeaseInv, KickLocked, TypeOK, NodeTypes, nodeVars
<1>9. ASSUME NEW s \in Sessions, CleanupStart(s) PROVE KickLocked
  BY <1>9 DEF CleanupStart, LeaseInv, KickLocked, TypeOK, NodeTypes, nodeVars
<1>10. ASSUME NEW s \in Sessions, CleanupSession(s) PROVE KickLocked
  BY <1>10 DEF CleanupSession, RmvUserSession, LeaseInv, KickLocked, TypeOK, NodeTypes,
     nodeVars
<1>11. ASSUME NEW s \in Sessions, CleanupTask(s) PROVE KickLocked
  BY <1>11 DEF CleanupTask, ReleaseSession, ReleaseSlots, Released, RmvUserSession,
     Fault, LeaseInv, KickLocked, TypeOK, NodeTypes, nodeVars
<1>12. ASSUME NEW s \in Sessions, Maintain(s) PROVE KickLocked
  BY <1>12 DEF Maintain, LeaseInv, KickLocked, TypeOK, NodeTypes, nodeVars
<1>13. ASSUME NEW s \in Sessions, RetireLocal(s) PROVE KickLocked
  <2>1. lock = s /\ login[s].pc \notin {"idle", "lock", "validate"}
    BY <1>13 DEF RetireLocal, At, LockInv, LockHeld, Locked
  <2>2. \A x \in Sessions : conn[x] = "open" /\ conn'[x] = "retiring"
                                => bound[x] = login[s].device
    BY <1>13, ConstantsAssumption DEF RetireLocal, NotifyOffline, At, LeaseInv, LoginShape, ConnShape,
       ClosedIsForgotten, TypeOK, NodeTypes
  <2> QED BY <2>1, <2>2 DEF KickLocked
<1>14. ASSUME NEW s \in Sessions, KickExecute(s) PROVE KickLocked
  <2>1. lock = s /\ login[s].pc \notin {"idle", "lock", "validate"}
    BY <1>14 DEF KickExecute, At, LockInv, LockHeld, Locked
  <2>2. \A x \in Sessions : conn[x] = "open" /\ conn'[x] = "retiring"
                                => bound[x] = login[s].device
    BY <1>14, ConstantsAssumption DEF KickExecute, Kick, NotifyOffline, At, LeaseInv, LoginShape, ConnShape,
       ClosedIsForgotten, TypeOK, NodeTypes
  <2> QED BY <2>1, <2>2 DEF KickLocked
<1>15. ASSUME NEW s \in Sessions, Bind(s) PROVE KickLocked
  BY <1>15 DEF Bind, LeaseInv, KickLocked, TypeOK, NodeTypes, nodeVars
<1>16. ASSUME NEW n \in Servers, NEW d \in Devices, KickLate(n, d) PROVE KickLocked
  <2>1. ASSUME NEW s \in Sessions, conn[s] = "open", conn'[s] = "retiring"
        PROVE  s = usermgr[n][d]
    BY <1>16, <2>1 DEF KickLate, Kick, NotifyOffline, LeaseInv, TypeOK, NodeTypes
  <2>2. ASSUME NEW s \in Sessions, s = usermgr[n][d]
        PROVE  server[s] = n /\ bound[s] = d
    BY <1>16, <2>2, ConstantsAssumption DEF LeaseInv, ClosedIsForgotten
  <2> QED BY <1>16, <2>1, <2>2 DEF KickLocked, KickLate
<1> QED BY <1>1, <1>2, <1>3, <1>4, <1>5, <1>6, <1>7, <1>8, <1>9, <1>10, <1>11,
           <1>12, <1>13, <1>14, <1>15, <1>16
        DEF Next, LoginStep, CleanupStep

\* Whatever fails or crashes, as long as no lock lease expires under its holder, a
\* connection is kicked only by a login of its own slot that holds the account
\* lock and has validated its credential under it, or by a kick that was late.
THEOREM KicksHoldTheLock ==
    ASSUME MaxLockExpiries = 0
    PROVE  Spec => KickUnderLock
<1>1. ASSUME LeaseInv, LockInv, [Next]_vars PROVE [KickLocked]_vars
  BY <1>1, KickLockedStep
<1>2. Spec => [][KickLocked]_vars
  BY <1>1, LeaseInvariant, LockInvariant, PTL DEF Spec
<1> QED BY <1>2 DEF KickUnderLock, KickLocked

\* The owner of a lease can still give it back: an unbound one is a login that
\* goes on to bind or to revoke, a bound one is a connection not yet cleaned up.
CanRelease(s) ==
    /\ bound[s] = None => login[s].pc \in {"bind", "revoke"}
    /\ bound[s] # None => conn[s] # "gone"

\* Without a failure every lease has an owner that can give it back.
OwnersCanRelease ==
    faults = 0 /\ crashes = 0 =>
        \A d \in Devices : usession[d] # None => CanRelease(usession[d])

\* What a step without a failure keeps: no lease gets a new owner, and an owner
\* that could release can release.
KeepsOwners ==
    /\ \A d \in Devices : usession'[d] \in {usession[d], None}
    /\ \A s \in Sessions : CanRelease(s) => CanRelease(s)'

\* A step that keeps the owners keeps the invariant, unless it counts a failure.
LEMMA KeptOwnersCanRelease ==
    ASSUME LeaseInv, OwnersCanRelease, KeepsOwners,
           faults' = 0 => faults = 0, crashes' = 0 => crashes = 0
    PROVE  OwnersCanRelease'
<1>1. SUFFICES ASSUME faults' = 0, crashes' = 0, NEW d \in Devices, usession'[d] # None
               PROVE  CanRelease(usession[d])' /\ usession'[d] = usession[d]
  BY DEF OwnersCanRelease, CanRelease
<1>2. usession'[d] = usession[d] /\ usession[d] \in Sessions
  BY <1>1 DEF KeepsOwners, LeaseInv, TypeOK, RedisTypes
<1>3. CanRelease(usession[d])
  BY <1>1, <1>2 DEF OwnersCanRelease
<1> QED BY <1>2, <1>3 DEF KeepsOwners, CanRelease

\* Failures are counted, never forgotten.
LEMMA FailuresStay ==
    ASSUME LeaseInv, Next
    PROVE  (faults' = 0 => faults = 0) /\ (crashes' = 0 => crashes = 0)
<1> faults \in Nat /\ crashes \in Nat
  BY ConstantsAssumption DEF LeaseInv, TypeOK, BoundTypes
<1> DEFINE Stay == (faults' = 0 => faults = 0) /\ (crashes' = 0 => crashes = 0)
<1>1. ASSUME \/ (\E t \in Tokens : IssueToken(t) \/ ExpirePending(t))
             \/ (\E d \in Devices : ExpireLease(d))
             \/ ExpireLock
             \/ (\E n \in Servers : PublishHealth(n) \/ ExpireHealth(n) \/ Restart(n) \/ Crash(n))
      PROVE  Stay
  BY <1>1 DEF IssueToken, ExpirePending, ExpireLease, ExpireLock, PublishHealth,
     ExpireHealth, Restart, Crash, Fault, boundVars
<1>2. ASSUME \/ (\E s \in Sessions, n \in Servers : Accept(s, n))
             \/ (\E s \in Sessions, d \in Devices, t \in Tokens : LoginStart(s, d, t))
             \/ (\E n \in Servers, d \in Devices : KickLate(n, d))
      PROVE  Stay
  BY <1>2 DEF Accept, LoginStart, KickLate, boundVars
<1>3. ASSUME NEW s \in Sessions,
             Close(s) \/ CleanupStart(s) \/ CleanupSession(s) \/ CleanupTask(s) \/ Maintain(s)
      PROVE  Stay
  BY <1>3 DEF Close, CleanupStart, CleanupSession, CleanupTask, ReleaseSession, Maintain,
     Fault, boundVars
<1>4. ASSUME NEW s \in Sessions,
             \/ AcquireLock(s) \/ AcquireFail(s) \/ Validate(s) \/ ReadRoute(s)
             \/ RetireLocal(s) \/ RetireNone(s) \/ RetireRemote(s)
             \/ KickExecute(s) \/ KickReturn(s) \/ KickFail(s)
      PROVE  Stay
  BY <1>4 DEF AcquireLock, AcquireFail, Validate, ReadRoute, RetireLocal, RetireNone,
     RetireRemote, KickExecute, KickReturn, KickFail, Fault, boundVars
<1>5. ASSUME NEW s \in Sessions,
             \/ Register(s) \/ RegisterRefused(s) \/ RegisterLost(s) \/ Bind(s)
             \/ BindRefused(s) \/ Revoke(s) \/ LoginError(s) \/ Unlock(s)
      PROVE  Stay
  BY <1>5 DEF Register, RegisterRefused, RegisterLost, Bind, BindRefused, Revoke,
     ReleaseSession, LoginError, Unlock, Fault, boundVars
<1> QED BY <1>1, <1>2, <1>3, <1>4, <1>5 DEF Next, LoginStep, CleanupStep

\* A login that moves on before it registers, or after it has bound, was not
\* the unbound owner of a lease.
LEMMA LoginKeepsOwners ==
    ASSUME LeaseInv, NEW s \in Sessions, login[s].pc \notin {"bind", "revoke"},
           UNCHANGED <<usession, bound>>,
           \A x \in Sessions : conn'[x] = "gone" => conn[x] = "gone",
           \A x \in Sessions : x # s => login'[x] = login[x]
    PROVE  KeepsOwners
BY DEF KeepsOwners, CanRelease

\* The leases keep owners that can release them.
LEMMA OwnersStep ==
    ASSUME LeaseInv, OwnersCanRelease, Next
    PROVE  OwnersCanRelease'
<1>F. (faults' = 0 => faults = 0) /\ (crashes' = 0 => crashes = 0)
  BY FailuresStay
<1>C. faults \in Nat /\ crashes \in Nat
  BY ConstantsAssumption DEF LeaseInv, TypeOK, BoundTypes
<1>T. LoginTypes
  BY DEF LeaseInv, TypeOK
<1>1. ASSUME \/ (\E t \in Tokens : IssueToken(t) \/ ExpirePending(t))
             \/ ExpireLock
             \/ (\E n \in Servers : PublishHealth(n) \/ ExpireHealth(n) \/ Restart(n))
      PROVE  OwnersCanRelease'
  BY <1>1, <1>F, KeptOwnersCanRelease DEF IssueToken, ExpirePending, ExpireLock,
     PublishHealth, ExpireHealth, Restart, nodeVars, KeepsOwners, CanRelease
<1>2. ASSUME NEW d \in Devices, ExpireLease(d) PROVE OwnersCanRelease'
  <2>1. KeepsOwners
    BY <1>2 DEF ExpireLease, nodeVars, KeepsOwners, CanRelease, LeaseInv, TypeOK, RedisTypes
  <2> QED BY <2>1, <1>F, KeptOwnersCanRelease
<1>3. ASSUME NEW n \in Servers, Crash(n) PROVE OwnersCanRelease'
  BY <1>3, <1>C DEF Crash, OwnersCanRelease
<1>4. ASSUME NEW s \in Sessions, NEW n \in Servers, Accept(s, n) PROVE OwnersCanRelease'
  <2>1. KeepsOwners
    BY <1>4 DEF Accept, redisVars, KeepsOwners, CanRelease, LeaseInv, TypeOK, NodeTypes
  <2> QED BY <2>1, <1>F, KeptOwnersCanRelease
<1>5. ASSUME NEW s \in Sessions, Close(s) \/ CleanupStart(s) \/ Maintain(s)
      PROVE  OwnersCanRelease'
  <2>1. KeepsOwners
    BY <1>5 DEF Close, CleanupStart, Maintain, redisVars, KeepsOwners, CanRelease,
       LeaseInv, TypeOK, NodeTypes
  <2> QED BY <2>1, <1>F, KeptOwnersCanRelease
<1>6. ASSUME NEW s \in Sessions, CleanupSession(s) PROVE OwnersCanRelease'
  <2>1. KeepsOwners
    BY <1>6 DEF CleanupSession, redisVars, KeepsOwners, CanRelease, LeaseInv, TypeOK, NodeTypes
  <2> QED BY <2>1, <1>F, KeptOwnersCanRelease
<1>7. ASSUME NEW s \in Sessions, CleanupTask(s) \/ Revoke(s) PROVE OwnersCanRelease'
  <2>1. SUFFICES ASSUME faults' = 0, crashes' = 0, NEW d \in Devices, usession'[d] # None
                 PROVE  CanRelease(usession[d])'
    BY DEF OwnersCanRelease, CanRelease
  <2>2. ReleaseSlots(s, Devices)
    BY <1>7, <2>1, <1>C DEF CleanupTask, Revoke, ReleaseSession, Fault
  <2>3. usession'[d] = usession[d] /\ usession[d] # s /\ usession[d] \in Sessions
    BY <2>1, <2>2 DEF ReleaseSlots, Released, LeaseInv, TypeOK, RedisTypes
  <2>4. CanRelease(usession[d])
    BY <2>1, <2>3, <1>F DEF OwnersCanRelease
  <2>5. /\ bound' = bound
        /\ \A x \in Sessions : x # s => conn'[x] = conn[x] /\ login'[x] = login[x]
    BY <1>7, <1>T, GotoMoves DEF CleanupTask, Revoke, nodeVars, LoginSteps, LeaseInv, TypeOK,
       NodeTypes
  <2> QED BY <2>3, <2>4, <2>5 DEF CanRelease
<1>8. ASSUME NEW s \in Sessions, NEW d \in Devices, NEW t \in Tokens, LoginStart(s, d, t)
      PROVE  OwnersCanRelease'
  <2>1. KeepsOwners
    BY <1>8, <1>T, LoginKeepsOwners DEF LoginStart, At, redisVars, nodeVars, LoginTypes
  <2> QED BY <2>1, <1>F, KeptOwnersCanRelease
<1>9. ASSUME NEW s \in Sessions, AcquireFail(s) \/ Unlock(s) PROVE OwnersCanRelease'
  <2>1. KeepsOwners
    BY <1>9, <1>T, LoginKeepsOwners DEF AcquireFail, Unlock, At, nodeVars, LoginTypes
  <2> QED BY <2>1, <1>F, KeptOwnersCanRelease
<1>10. ASSUME NEW s \in Sessions,
              \/ AcquireLock(s) \/ Validate(s) \/ RetireNone(s) \/ RetireRemote(s)
              \/ KickReturn(s) \/ KickFail(s) \/ RegisterRefused(s) \/ LoginError(s)
       PROVE  OwnersCanRelease'
  <2>1. UNCHANGED <<usession, bound, conn>> /\ login[s].pc \notin {"bind", "revoke"}
    BY <1>10 DEF AcquireLock, Validate, RetireNone, RetireRemote, KickReturn, KickFail,
       RegisterRefused, LoginError, At, redisVars, nodeVars
  <2>2. \A x \in Sessions : x # s => login'[x] = login[x]
    BY <1>10, <1>T DEF AcquireLock, Validate, RetireNone, RetireRemote, KickReturn, KickFail,
       RegisterRefused, LoginError, Goto, LoginTypes
  <2>3. KeepsOwners
    BY <2>1, <2>2, LoginKeepsOwners
  <2> QED BY <2>3, <1>F, KeptOwnersCanRelease
<1>11. ASSUME NEW s \in Sessions, ReadRoute(s) PROVE OwnersCanRelease'
  <2>1. KeepsOwners
    BY <1>11, <1>T, LoginKeepsOwners DEF ReadRoute, At, redisVars, nodeVars, LoginTypes
  <2> QED BY <2>1, <1>F, KeptOwnersCanRelease
<1>12. ASSUME NEW s \in Sessions, RetireLocal(s) \/ KickExecute(s) PROVE OwnersCanRelease'
  <2>1. UNCHANGED <<usession, bound>> /\ login[s].pc \notin {"bind", "revoke"}
    BY <1>12 DEF RetireLocal, KickExecute, At, redisVars
  <2>2. \A x \in Sessions : x # s => login'[x] = login[x]
    BY <1>12, <1>T DEF RetireLocal, KickExecute, Goto, LoginTypes
  <2>3. \A x \in Sessions : conn'[x] = "gone" => conn[x] = "gone"
    BY <1>12 DEF RetireLocal, KickExecute, Kick, NotifyOffline, LeaseInv, TypeOK, NodeTypes
  <2>4. KeepsOwners
    BY <2>1, <2>2, <2>3, LoginKeepsOwners
  <2> QED BY <2>4, <1>F, KeptOwnersCanRelease
<1>13. ASSUME NEW n \in Servers, NEW d \in Devices, KickLate(n, d) PROVE OwnersCanRelease'
  <2>1. KeepsOwners
    BY <1>13 DEF KickLate, Kick, NotifyOffline, redisVars, KeepsOwners, CanRelease,
       LeaseInv, TypeOK, NodeTypes
  <2> QED BY <2>1, <1>F, KeptOwnersCanRelease
<1>14. ASSUME NEW s \in Sessions, Register(s) PROVE OwnersCanRelease'
  <2>1. SUFFICES ASSUME faults' = 0, crashes' = 0, NEW d \in Devices, usession'[d] # None
                 PROVE  CanRelease(usession[d])'
    BY DEF OwnersCanRelease, CanRelease
  <2>2. /\ login'[s].pc = "bind"
        /\ \A x \in Sessions : x # s => login'[x] = login[x]
    BY <1>14, <1>T, GotoMoves DEF Register, LoginSteps
  <2>3. bound[s] = None
    BY <1>14 DEF Register, At, LeaseInv, LoginShape
  <2>4. bound' = bound /\ conn' = conn
    BY <1>14 DEF Register, nodeVars
  <2>5. usession'[d] = s \/ usession'[d] = usession[d]
    BY <1>14 DEF Register, Published, LeaseInv, TypeOK, RedisTypes
  <2>6. CASE usession'[d] = s
    BY <2>2, <2>3, <2>4, <2>6 DEF CanRelease
  <2>7. CASE usession'[d] # s
    <3>1. usession'[d] = usession[d] /\ usession[d] \in Sessions /\ usession[d] # s
      BY <2>1, <2>5, <2>7 DEF LeaseInv, TypeOK, RedisTypes
    <3>2. CanRelease(usession[d])
      BY <2>1, <3>1, <1>F DEF OwnersCanRelease
    <3> QED BY <3>1, <3>2, <2>2, <2>4 DEF CanRelease
  <2> QED BY <2>6, <2>7
<1>15. ASSUME NEW s \in Sessions, RegisterLost(s) PROVE OwnersCanRelease'
  BY <1>15, <1>C DEF RegisterLost, Fault, OwnersCanRelease
<1>16. ASSUME NEW s \in Sessions, Bind(s) PROVE OwnersCanRelease'
  <2>1. login[s].device \in Devices /\ conn[s] = "open"
    BY <1>16 DEF Bind, At, LeaseInv, LoginShape
  <2>2. bound'[s] # None /\ \A x \in Sessions : x # s => bound'[x] = bound[x]
    BY <1>16, <2>1, ConstantsAssumption DEF Bind, LeaseInv, TypeOK, NodeTypes
  <2>3. \A x \in Sessions : x # s => login'[x] = login[x]
    BY <1>16, <1>T DEF Bind, Goto, LoginTypes
  <2>4. usession' = usession /\ conn' = conn
    BY <1>16 DEF Bind, redisVars
  <2>5. KeepsOwners
    BY <2>1, <2>2, <2>3, <2>4 DEF KeepsOwners, CanRelease
  <2> QED BY <2>5, <1>F, KeptOwnersCanRelease
<1>17. ASSUME NEW s \in Sessions, BindRefused(s) PROVE OwnersCanRelease'
  <2>1. /\ login'[s].pc = "revoke"
        /\ \A x \in Sessions : x # s => login'[x] = login[x]
    BY <1>17, <1>T, GotoMoves DEF BindRefused, LoginSteps
  <2>2. bound[s] = None
    BY <1>17 DEF BindRefused, At, LeaseInv, LoginShape
  <2>3. UNCHANGED <<usession, bound, conn>>
    BY <1>17 DEF BindRefused, redisVars, nodeVars
  <2>4. KeepsOwners
    BY <2>1, <2>2, <2>3 DEF KeepsOwners, CanRelease
  <2> QED BY <2>4, <1>F, KeptOwnersCanRelease
<1> QED BY <1>1, <1>2, <1>3, <1>4, <1>5, <1>6, <1>7, <1>8, <1>9, <1>10, <1>11,
           <1>12, <1>13, <1>14, <1>15, <1>16, <1>17
        DEF Next, LoginStep, CleanupStep

\* Without a failed Redis command and without a crash, a connection that is gone
\* has left no lease behind, except while its login is about to revoke it: closing
\* in the middle of a login orphans no slot, however the two are interleaved.
THEOREM NoLeaseIsOrphaned == Spec => []NoOrphanLease
<1>1. Init => OwnersCanRelease
  BY DEF Init, OwnersCanRelease
<1>2. ASSUME LeaseInv, OwnersCanRelease, Next PROVE OwnersCanRelease'
  BY <1>2, OwnersStep
<1>3. ASSUME OwnersCanRelease, UNCHANGED vars PROVE OwnersCanRelease'
  BY <1>3 DEF OwnersCanRelease, CanRelease, vars, redisVars, nodeVars, boundVars
<1>4. ASSUME LeaseInv, OwnersCanRelease PROVE NoOrphanLease
  BY <1>4 DEF OwnersCanRelease, CanRelease, NoOrphanLease
<1>5. Spec => []OwnersCanRelease
  BY <1>1, <1>2, <1>3, LeaseInvariant, PTL DEF Spec
<1> QED BY <1>4, <1>5, LeaseInvariant, PTL

--------------------------------------------------------------------------------
\* The admission slots of CServer: max_connections_ is a bound, and a slot is
\* held by exactly the connections that were admitted and are not cleaned up.

\* No node holds more connections than it may: what HandleAccept compares under
\* the mutex is what it then adds to.
AdmissionIsBounded ==
    /\ IsFiniteSet(table)
    /\ \A n \in Servers : Cardinality(Admitted(n)) <= MaxConnections

\* A connection that is gone has given its slot back, a serving one has its
\* slot, and an authenticated one keeps it until its cleanup has finished.
SlotsAreHeld ==
    \A s \in Sessions :
        /\ conn[s] \in {"none", "gone"} => s \notin table
        /\ conn[s] \in {"open", "retiring"} => s \in table
        /\ bound[s] # None /\ conn[s] # "gone" => s \in table

\* Removing connections keeps the bound.
LEMMA FewerAreBounded ==
    ASSUME AdmissionIsBounded, table' \subseteq table, server' = server
    PROVE  AdmissionIsBounded'
<1>1. IsFiniteSet(table')
  BY FS_Subset DEF AdmissionIsBounded
<1>2. ASSUME NEW n \in Servers PROVE Cardinality(Admitted(n)') <= MaxConnections
  <2>1. Admitted(n)' \in SUBSET Admitted(n) /\ Admitted(n) \in SUBSET table
    BY DEF Admitted
  <2>2. IsFiniteSet(Admitted(n))
    BY <2>1, FS_Subset DEF AdmissionIsBounded
  <2>3. IsFiniteSet(Admitted(n)') /\ Cardinality(Admitted(n)') <= Cardinality(Admitted(n))
    BY <2>1, <2>2, FS_Subset
  <2>4. Cardinality(Admitted(n)') \in Nat /\ Cardinality(Admitted(n)) \in Nat
    BY <2>2, <2>3, FS_CardinalityType
  <2>5. Cardinality(Admitted(n)) <= MaxConnections /\ MaxConnections \in Nat
    BY ConstantsAssumption DEF AdmissionIsBounded
  <2> QED BY <2>3, <2>4, <2>5
<1> QED BY <1>1, <1>2 DEF AdmissionIsBounded

\* HandleAccept, under CServer::mutex_.
LEMMA AcceptAdmits ==
    ASSUME LeaseInv, AdmissionIsBounded, SlotsAreHeld,
           NEW s \in Sessions, NEW n \in Servers, Accept(s, n)
    PROVE  AdmissionIsBounded' /\ SlotsAreHeld'
<1>1. /\ conn[s] = "none" /\ s \notin table /\ bound[s] = None /\ bound' = bound
      /\ server' = [server EXCEPT ![s] = n]
      /\ server \in [Sessions -> Servers \cup {None}] /\ conn \in [Sessions -> ConnStates]
      /\ table \subseteq Sessions
  BY DEF Accept, SlotsAreHeld, LeaseInv, ConnShape, TypeOK, NodeTypes
<1>2. /\ \A x \in Sessions : x # s => server'[x] = server[x]
      /\ server'[s] = n
  BY <1>1
<1>3. CASE Cardinality(Admitted(n)) < MaxConnections
  <2>1. table' = table \cup {s} /\ conn' = [conn EXCEPT ![s] = "open"]
    BY <1>3 DEF Accept
  <2>2. SlotsAreHeld'
    BY <1>1, <2>1 DEF SlotsAreHeld
  <2>3. IsFiniteSet(table')
    BY <2>1, FS_AddElement DEF AdmissionIsBounded
  <2>4. ASSUME NEW m \in Servers PROVE Cardinality(Admitted(m)') <= MaxConnections
    <3>1. CASE m # n
      <4>1. Admitted(m)' = Admitted(m)
        BY <1>1, <1>2, <2>1, <3>1 DEF Admitted
      <4> QED BY <4>1 DEF AdmissionIsBounded
    <3>2. CASE m = n
      <4>1. Admitted(n)' = Admitted(n) \cup {s} /\ s \notin Admitted(n)
        BY <1>1, <1>2, <2>1 DEF Admitted
      <4>2. Admitted(n) \in SUBSET table
        BY DEF Admitted
      <4>3. IsFiniteSet(Admitted(n))
        BY <4>2, FS_Subset DEF AdmissionIsBounded
      <4>4. Cardinality(Admitted(n) \cup {s}) = Cardinality(Admitted(n)) + 1
        BY <4>1, <4>3, FS_AddElement
      <4>5. Cardinality(Admitted(n)) \in Nat /\ MaxConnections \in Nat
        BY <4>3, FS_CardinalityType, ConstantsAssumption
      <4>6. Cardinality(Admitted(n)') <= MaxConnections
        BY <4>1, <4>4, <4>5, <1>3
      <4> QED BY <4>6, <3>2
    <3> QED BY <3>1, <3>2
  <2> QED BY <2>2, <2>3, <2>4 DEF AdmissionIsBounded
<1>4. CASE ~(Cardinality(Admitted(n)) < MaxConnections)
  <2>1. table' = table /\ conn' = [conn EXCEPT ![s] = "closed"]
    BY <1>4 DEF Accept
  <2>2. SlotsAreHeld'
    BY <1>1, <2>1 DEF SlotsAreHeld
  <2>3. ASSUME NEW m \in Servers PROVE Admitted(m)' = Admitted(m)
    BY <1>1, <1>2, <2>1 DEF Admitted
  <2> QED BY <2>1, <2>2, <2>3 DEF AdmissionIsBounded
<1> QED BY <1>3, <1>4

\* A connection that is told to go offline keeps its slot.
LEMMA OfflineKeepsSlot ==
    ASSUME LeaseInv, SlotsAreHeld, NEW x \in Sessions, NotifyOffline(x),
           UNCHANGED <<table, bound>>
    PROVE  SlotsAreHeld'
BY DEF NotifyOffline, SlotsAreHeld, LeaseInv, TypeOK, NodeTypes

\* Closing and cleaning up.
LEMMA CleanupFrees ==
    ASSUME LeaseInv, SlotsAreHeld, NEW s \in Sessions,
           Close(s) \/ Maintain(s) \/ CleanupStart(s) \/ CleanupSession(s) \/ CleanupTask(s)
    PROVE  SlotsAreHeld' /\ table' \subseteq table /\ server' = server
<1>1. conn \in [Sessions -> ConnStates] /\ table \subseteq Sessions
  BY DEF LeaseInv, TypeOK, NodeTypes
<1>2. CASE Close(s) \/ Maintain(s) \/ CleanupStart(s)
  <2>1. /\ conn[s] \in {"open", "retiring", "closed"} /\ UNCHANGED <<table, bound, server>>
        /\ \A x \in Sessions : x # s => conn'[x] = conn[x]
        /\ conn'[s] \in {"closed", "cleaning"}
    BY <1>1, <1>2 DEF Close, Maintain, CleanupStart
  <2> QED BY <2>1 DEF SlotsAreHeld
<1>3. CASE CleanupSession(s) /\ bound[s] # None
  <2>1. /\ conn[s] = "cleaning" /\ UNCHANGED <<table, bound, server>>
        /\ \A x \in Sessions : x # s => conn'[x] = conn[x]
        /\ conn'[s] = "queued"
    BY <1>1, <1>3 DEF CleanupSession
  <2> QED BY <2>1 DEF SlotsAreHeld
<1>4. CASE (CleanupSession(s) /\ bound[s] = None) \/ CleanupTask(s)
  <2>1. /\ table' = table \ {s} /\ UNCHANGED <<bound, server>>
        /\ \A x \in Sessions : x # s => conn'[x] = conn[x]
        /\ conn'[s] = "gone"
    BY <1>1, <1>4 DEF CleanupSession, CleanupTask
  <2> QED BY <2>1 DEF SlotsAreHeld
<1> QED BY <1>2, <1>3, <1>4

\* The steps of a login: only Bind, RetireLocal and KickExecute touch a
\* connection, and none its slot.
LEMMA LoginKeepsSlots ==
    ASSUME LeaseInv, SlotsAreHeld, NEW s \in Sessions, LoginStep(s)
    PROVE  SlotsAreHeld' /\ table' \subseteq table /\ server' = server
<1>1. table' = table /\ server' = server
  BY DEF LoginStep, AcquireLock, AcquireFail, Validate, ReadRoute, RetireLocal, RetireNone,
     RetireRemote, KickExecute, KickReturn, KickFail, Register, RegisterRefused, RegisterLost,
     Bind, BindRefused, Revoke, LoginError, Unlock, nodeVars
<1>2. CASE Bind(s)
  <2>1. /\ conn[s] = "open" /\ conn' = conn
        /\ \A x \in Sessions : x # s => bound'[x] = bound[x]
    BY <1>2 DEF Bind, LeaseInv, TypeOK, NodeTypes
  <2> QED BY <1>1, <2>1 DEF SlotsAreHeld
<1>3. CASE RetireLocal(s)
  <2>1. bound' = bound
    BY <1>3 DEF RetireLocal
  <2>2. PICK x \in Sessions \cup {None} : x = usermgr[server[s]][login[s].device]
    <3>1. /\ usermgr \in [Servers -> [Devices -> Sessions \cup {None}]]
          /\ server[s] \in Servers /\ login[s].device \in Devices
      BY <1>3 DEF RetireLocal, At, LeaseInv, TypeOK, NodeTypes, ConnShape, LoginShape
    <3> QED BY <3>1
  <2>3. CASE x \notin {None, s}
    <3>1. NotifyOffline(x) /\ x \in Sessions
      BY <1>3, <2>2, <2>3 DEF RetireLocal
    <3> QED BY <3>1, <1>1, <2>1, OfflineKeepsSlot
  <2>4. CASE x \in {None, s}
    <3>1. conn' = conn
      BY <1>3, <2>2, <2>4 DEF RetireLocal
    <3> QED BY <3>1, <1>1, <2>1 DEF SlotsAreHeld
  <2> QED BY <1>1, <2>3, <2>4
<1>4. CASE KickExecute(s)
  <2>1. bound' = bound
    BY <1>4 DEF KickExecute
  <2>2. PICK x \in Sessions \cup {None} : x = usermgr[login[s].prev][login[s].device]
    <3>1. /\ usermgr \in [Servers -> [Devices -> Sessions \cup {None}]]
          /\ login[s].prev \in Servers /\ login[s].device \in Devices
      BY <1>4 DEF KickExecute, At, LeaseInv, TypeOK, NodeTypes, LoginShape
    <3> QED BY <3>1
  <2>3. CASE x # None
    <3>1. NotifyOffline(x) /\ x \in Sessions
      BY <1>4, <2>2, <2>3 DEF KickExecute, Kick
    <3> QED BY <3>1, <1>1, <2>1, OfflineKeepsSlot
  <2>4. CASE x = None
    <3>1. conn' = conn
      BY <1>4, <2>2, <2>4 DEF KickExecute, Kick
    <3> QED BY <3>1, <1>1, <2>1 DEF SlotsAreHeld
  <2> QED BY <1>1, <2>3, <2>4
<1>5. CASE ~Bind(s) /\ ~RetireLocal(s) /\ ~KickExecute(s)
  <2>1. UNCHANGED <<conn, bound>>
    BY <1>5 DEF LoginStep, AcquireLock, AcquireFail, Validate, ReadRoute, RetireNone,
       RetireRemote, KickReturn, KickFail, Register, RegisterRefused, RegisterLost,
       BindRefused, Revoke, LoginError, Unlock, nodeVars
  <2> QED BY <1>1, <2>1 DEF SlotsAreHeld
<1> QED BY <1>2, <1>3, <1>4, <1>5

\* The environment: leases, tokens, nodes and late kicks.
LEMMA EnvironmentKeepsSlots ==
    ASSUME LeaseInv, SlotsAreHeld,
           \/ \E t \in Tokens : IssueToken(t) \/ ExpirePending(t)
           \/ \E d \in Devices : ExpireLease(d)
           \/ ExpireLock
           \/ \E n \in Servers : PublishHealth(n) \/ ExpireHealth(n) \/ Crash(n) \/ Restart(n)
           \/ \E s \in Sessions, d \in Devices, t \in Tokens : LoginStart(s, d, t)
           \/ \E n \in Servers, d \in Devices : KickLate(n, d)
    PROVE  SlotsAreHeld' /\ table' \subseteq table /\ server' = server
<1>1. ASSUME NEW n \in Servers, Crash(n)
      PROVE  SlotsAreHeld' /\ table' \subseteq table /\ server' = server
  <2>1. /\ table' = table \ Admitted(n) /\ UNCHANGED <<bound, server>>
        /\ \A x \in Sessions : /\ server[x] = n => conn'[x] = "gone"
                               /\ server[x] # n => conn'[x] = conn[x]
    BY <1>1 DEF Crash
  <2>2. \A x \in Sessions : x \in table' <=> x \in table /\ server[x] # n
    BY <2>1 DEF Admitted
  <2> QED BY <2>1, <2>2 DEF SlotsAreHeld
<1>2. ASSUME NEW n \in Servers, NEW d \in Devices, KickLate(n, d)
      PROVE  SlotsAreHeld' /\ table' \subseteq table /\ server' = server
  <2>1. UNCHANGED <<table, bound, server>>
    BY <1>2 DEF KickLate
  <2>2. usermgr[n][d] \in Sessions \cup {None}
    BY DEF LeaseInv, TypeOK, NodeTypes
  <2>3. CASE usermgr[n][d] # None
    <3>1. NotifyOffline(usermgr[n][d]) /\ usermgr[n][d] \in Sessions
      BY <1>2, <2>2, <2>3 DEF KickLate, Kick
    <3> QED BY <3>1, <2>1, OfflineKeepsSlot
  <2>4. CASE usermgr[n][d] = None
    BY <1>2, <2>1, <2>4 DEF KickLate, Kick, SlotsAreHeld
  <2> QED BY <2>1, <2>3, <2>4
<1>3. ASSUME UNCHANGED <<conn, bound, table, server>>
      PROVE  SlotsAreHeld' /\ table' \subseteq table /\ server' = server
  BY <1>3 DEF SlotsAreHeld
<1>4. CASE \/ \E t \in Tokens : IssueToken(t) \/ ExpirePending(t)
           \/ \E d \in Devices : ExpireLease(d)
           \/ ExpireLock
           \/ \E s \in Sessions, d \in Devices, t \in Tokens : LoginStart(s, d, t)
  BY <1>3, <1>4 DEF IssueToken, ExpirePending, ExpireLease, ExpireLock, LoginStart, nodeVars
<1>5. CASE \E n \in Servers : PublishHealth(n) \/ ExpireHealth(n) \/ Restart(n)
  BY <1>3, <1>5 DEF PublishHealth, ExpireHealth, Restart, nodeVars
<1> QED BY <1>1, <1>2, <1>4, <1>5

\* Whatever connects, logs in, is kicked, fails or crashes, in any order, no
\* chat node ever holds more connections than max_connections_, a connection
\* that is gone holds no slot, and no authenticated one is served without.
THEOREM AdmissionHolds == Spec => [](AdmissionIsBounded /\ SlotsAreHeld)
<1>1. Init => AdmissionIsBounded /\ SlotsAreHeld
  <2> SUFFICES ASSUME Init PROVE AdmissionIsBounded /\ SlotsAreHeld
    OBVIOUS
  <2>1. SlotsAreHeld
    BY DEF Init, SlotsAreHeld
  <2>2. \A n \in Servers : Admitted(n) = {}
    BY DEF Init, Admitted
  <2>3. Cardinality({}) = 0 /\ IsFiniteSet({}) /\ 0 <= MaxConnections
    BY FS_EmptySet, ConstantsAssumption
  <2> QED BY <2>1, <2>2, <2>3 DEF AdmissionIsBounded, Init
<1>2. /\ LeaseInv /\ AdmissionIsBounded /\ SlotsAreHeld /\ [Next]_vars
      => (AdmissionIsBounded /\ SlotsAreHeld)'
  <2> SUFFICES ASSUME LeaseInv, AdmissionIsBounded, SlotsAreHeld, [Next]_vars
               PROVE  AdmissionIsBounded' /\ SlotsAreHeld'
    OBVIOUS
  <2>1. CASE UNCHANGED vars
    BY <2>1, FewerAreBounded DEF SlotsAreHeld, vars, nodeVars
  <2>2. CASE \E s \in Sessions, n \in Servers : Accept(s, n)
    BY <2>2, AcceptAdmits
  <2>3. CASE \E s \in Sessions : Close(s) \/ CleanupStep(s) \/ Maintain(s) \/ LoginStep(s)
    BY <2>3, CleanupFrees, LoginKeepsSlots, FewerAreBounded DEF CleanupStep
  <2>4. CASE \/ \E t \in Tokens : IssueToken(t) \/ ExpirePending(t)
             \/ \E d \in Devices : ExpireLease(d)
             \/ ExpireLock
             \/ \E n \in Servers : PublishHealth(n) \/ ExpireHealth(n) \/ Crash(n) \/ Restart(n)
             \/ \E s \in Sessions, d \in Devices, t \in Tokens : LoginStart(s, d, t)
             \/ \E n \in Servers, d \in Devices : KickLate(n, d)
    BY <2>4, EnvironmentKeepsSlots, FewerAreBounded
  <2> QED BY <2>1, <2>2, <2>3, <2>4 DEF Next
<1> QED BY <1>1, <1>2, LeaseInvariant, PTL DEF Spec
=============================================================================
