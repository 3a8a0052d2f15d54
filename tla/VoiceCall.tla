------------------------------- MODULE VoiceCall -------------------------------
(***************************************************************************)
(* One-to-one calls: the client's VoiceCallService, the server's           *)
(* VoiceCallService::Handle and the Redis script of                        *)
(* RedisMgr::VoiceTransition, over several accounts and devices.           *)
(*                                                                         *)
(* A session is one authenticated connection and its client.  The server   *)
(* runs the requests of a session one at a time (BusinessExecutor), the    *)
(* requests of different sessions concurrently; a request is several Redis *)
(* commands and a delivery, each of which is one action.  Time is left     *)
(* out: a client's deadline may end at any moment, a lease once nobody     *)
(* renews it any more or a stall (a counted fault) keeps them from it.     *)
(*                                                                         *)
(* Sessions come and go as SessionLease allows: a new login of the same    *)
(* device replaces the session key, an old connection closes some time     *)
(* later, and its key goes after that.  Media frames and the camera switch *)
(* are left out: what a frame does to the record (renew its sender, find   *)
(* the peer silent) a ping does too.                                       *)
(***************************************************************************)
EXTENDS Naturals, Sequences, FiniteSets

CONSTANTS
    Sessions,   \* connections, each with its client
    Users,      \* accounts
    UserOf,     \* UserOf[s]: account of the session
    DeviceOf,   \* DeviceOf[s]: "android" or "desktop"
    None,       \* an absent key, no request in work
    MaxCalls,   \* bound: calls started
    MaxCloses,  \* bound: connections lost
    MaxFaults   \* bound: failed commands, lost replies, late relays

Devices == {"android", "desktop"}

ASSUME VoiceAssumption ==
    /\ UserOf \in [Sessions -> Users]
    /\ DeviceOf \in [Sessions -> Devices]
    /\ None \notin Sessions \cup Users
    /\ MaxCalls \in Nat /\ MaxCloses \in Nat /\ MaxFaults \in Nat

VARIABLES
    \* Redis
    voice,      \* voice[u]: the call record under voice:<uid>
    usession,   \* usession[u][d]: session id under usession_<uid>:<device>
    \* chat nodes
    conn,       \* conn[s]: "new", "open" or "closed"
    inbox,      \* inbox[s]: requests of s not yet taken by its lane
    work,       \* work[s]: the request of s in VoiceCallService::Handle
    outbox,     \* outbox[s]: events sent to s and not yet read
    relay,      \* relays whose caller gave up but which may still execute
    \* clients
    client,     \* client[s]: state_, call_ and peer_ of VoiceCallService
    \* history and bounds
    calls,      \* calls[c]: the record the invite of call c created
    accepted,   \* calls whose accept was committed
    issued, faults

redisVars  == <<voice, usession>>
nodeVars   == <<conn, inbox, work, outbox, relay>>
vars == <<redisVars, nodeVars, client, calls, accepted, issued, faults>>

CallIds == 1 .. MaxCalls
Controls == {"invite", "accept", "reject", "cancel", "end", "ping"}
Releases == {"reject", "cancel", "end"}
Codes == {"Success", "VoiceBusy", "VoiceOffline", "VoiceInvalid", "TokenInvalid",
          "VoiceRateLimited", "RedisError", "DatabaseError", "FriendNotFound"}
\* The codes the client treats as temporary.
Temporary == {"DatabaseError", "RedisError", "VoiceRateLimited"}

Record == [id : CallIds, a : Users, b : Users, sa : Sessions, sb : Sessions,
           state : {"ringing", "active"},
           quiet : SUBSET Users]   \* parties silent for longer than TimeoutMs
Request == [op : Controls, call : CallIds, peer : Users]
Event == [op : Controls, call : CallIds, peer : Users, incoming : BOOLEAN,
          code : Codes]

ASSUME NoneAssumption == None \notin Record

IdleClient == [state |-> "Idle", call |-> 0, peer |-> None]

-----------------------------------------------------------------------------
(* The Redis script.                                                          *)

\* The script sees the pair (u, p) from u's side.
First(c, u, p) == c.a = u /\ c.b = p
Pair(c, u, p) == First(c, u, p) \/ First(c, p, u)
Own(c, u) == IF c.a = u THEN c.sa ELSE c.sb
Peer(c, u) == IF c.a = u THEN c.sb ELSE c.sa

\* Faulty variant: the script writes the caller's key only.
BothOwnKey(u, p, c) == [voice EXCEPT ![u] = c]

\* Set or delete the keys of both accounts.
Both(u, p, c) == [voice EXCEPT ![u] = c, ![p] = c]

\* A login check shared by all operations: the caller's session must own its
\* key, and the peer's key must still hold the session read before.
LoginError(s, p, d, target) ==
    IF usession[UserOf[s]][DeviceOf[s]] # s THEN "TokenInvalid"
    ELSE IF usession[p][d] = None THEN "VoiceOffline"
    ELSE IF usession[p][d] # target THEN "TokenInvalid"
    ELSE "Success"

\* The voice-rate key lives for 3 s after an invite of the account.
MayBeLimited(u) == \E c \in CallIds : calls[c] # None /\ calls[c].a = u

\* Results of an invite: [code, voice] pairs.
InviteResults(u, p, s, target, id) ==
    IF voice[u] # None \/ voice[p] # None
    THEN {[code |-> "VoiceBusy", voice |-> voice]}
    ELSE {[code |-> "Success",
           voice |-> Both(u, p, [id |-> id, a |-> u, b |-> p, sa |-> s, sb |-> target,
                                 state |-> "ringing", quiet |-> {}])]}
         \cup (IF MayBeLimited(u) THEN {[code |-> "VoiceRateLimited", voice |-> voice]}
                                  ELSE {})

\* The record and the parties every other operation must match.
MatchError(u, p, s, target, id) ==
    IF voice[u] = None \/ voice[p] = None THEN "VoiceInvalid"
    ELSE IF voice[u].id # id \/ voice[p].id # id \/ ~Pair(voice[u], u, p) THEN "VoiceInvalid"
    ELSE IF Own(voice[u], u) # s \/ Peer(voice[u], u) # target THEN "TokenInvalid"
    ELSE "Success"

\* reject belongs to the callee, cancel to the caller, both while it rings.
MayRelease(op, c, u, p) ==
    \/ op = "end"
    \/ op = "reject" /\ ~First(c, u, p) /\ c.state = "ringing"
    \/ op = "cancel" /\ First(c, u, p) /\ c.state = "ringing"

\* Faulty variant: a ping does not look at the peer's silence.
MatchedResultPatient(u, p, op) ==
    LET c == voice[u] IN
    CASE op \in Releases /\ MayRelease(op, c, u, p) ->
             [code |-> "Success", voice |-> Both(u, p, None)]
      [] op = "accept" /\ ~First(c, u, p) /\ c.state = "ringing" ->
             [code |-> "Success",
              voice |-> Both(u, p, [c EXCEPT !.state = "active", !.quiet = {}])]
      [] op = "ping" /\ c.state = "active" ->
             [code |-> "Success", voice |-> Both(u, p, [c EXCEPT !.quiet = @ \ {u}])]
      [] OTHER -> [code |-> "VoiceInvalid", voice |-> voice]

\* Results of the other operations once record and parties match.
MatchedResult(u, p, op) ==
    LET c == voice[u]
        refused == [code |-> "VoiceInvalid", voice |-> voice]
        gone == Both(u, p, None)
    IN  CASE op \in Releases /\ MayRelease(op, c, u, p) ->
                 [code |-> "Success", voice |-> gone]
          [] op = "accept" /\ ~First(c, u, p) /\ c.state = "ringing" ->
                 [code |-> "Success",
                  voice |-> Both(u, p, [c EXCEPT !.state = "active", !.quiet = {}])]
          [] op = "ping" /\ c.state = "active" /\ p \in c.quiet ->
                 [code |-> "VoiceInvalid", voice |-> gone]
          [] op = "ping" /\ c.state = "active" /\ p \notin c.quiet ->
                 [code |-> "Success",
                  voice |-> Both(u, p, [c EXCEPT !.quiet = @ \ {u}])]
          [] OTHER -> refused

\* RedisMgr::VoiceTransition: what the script may answer, and voice after it.
VoiceTransition(s, p, d, target, op, id) ==
    LET u == UserOf[s]
        login == LoginError(s, p, d, target)
        match == MatchError(u, p, s, target, id)
    IN  IF login # "Success" THEN {[code |-> login, voice |-> voice]}
        ELSE IF op = "invite" THEN InviteResults(u, p, s, target, id)
        ELSE IF match # "Success" THEN {[code |-> match, voice |-> voice]}
        ELSE {MatchedResult(u, p, op)}

\* Commit r, the result of operation op of account u on call id.
Commit(r, op, id, u) ==
    /\ voice' = r.voice
    /\ calls' = IF op = "invite" /\ r.code = "Success"
                THEN [calls EXCEPT ![id] = r.voice[u]] ELSE calls
    /\ accepted' = IF op = "accept" /\ r.code = "Success" THEN accepted \cup {id}
                   ELSE accepted

Fault == faults < MaxFaults /\ faults' = faults + 1
Command(ok) == IF ok THEN UNCHANGED faults ELSE Fault

-----------------------------------------------------------------------------
Init ==
    /\ voice = [u \in Users |-> None]
    /\ usession = [u \in Users |-> [d \in Devices |-> None]]
    /\ conn = [s \in Sessions |-> "new"]
    /\ inbox = [s \in Sessions |-> <<>>]
    /\ work = [s \in Sessions |-> None]
    /\ outbox = [s \in Sessions |-> <<>>]
    /\ relay = {}
    /\ client = [s \in Sessions |-> IdleClient]
    /\ calls = [c \in CallIds |-> None]
    /\ accepted = {}
    /\ issued = 0 /\ faults = 0

-----------------------------------------------------------------------------
(* Sessions and leases, as SessionLease promises them.                        *)

\* RegisterSession: a login takes the slot; the connection it displaces may
\* stay open for a while.
Login(s) ==
    /\ conn[s] = "new"
    /\ conn' = [conn EXCEPT ![s] = "open"]
    /\ usession' = [usession EXCEPT ![UserOf[s]][DeviceOf[s]] = s]
    /\ UNCHANGED <<voice, inbox, work, outbox, relay, client, calls, accepted, issued, faults>>

Closed == Cardinality({s \in Sessions : conn[s] = "closed"})

\* The server's end of the connection closes: queued requests are skipped
\* (HandleMessage) and nothing more is delivered.
Close(s) ==
    /\ conn[s] = "open" /\ Closed < MaxCloses
    /\ conn' = [conn EXCEPT ![s] = "closed"]
    /\ inbox' = [inbox EXCEPT ![s] = <<>>]
    /\ outbox' = [outbox EXCEPT ![s] = <<>>]
    /\ UNCHANGED <<redisVars, work, relay, client, calls, accepted, issued, faults>>

\* ReleaseSession of a closed connection.
Cleanup(s) ==
    /\ conn[s] = "closed" /\ usession[UserOf[s]][DeviceOf[s]] = s
    /\ usession' = [usession EXCEPT ![UserOf[s]][DeviceOf[s]] = None]
    /\ UNCHANGED <<voice, nodeVars, client, calls, accepted, issued, faults>>

\* The client of s is in call c and its connection works.
Attends(s, c) == conn[s] = "open" /\ client[s].state # "Idle" /\ client[s].call = c

\* Both keys are written by one script with one lifetime, so they expire
\* together.  The caller gives up (35 s) before a ringing lease ends (40 s), and
\* a connected client pings (3 s) or gives up (30 s) before an active one does
\* (LeaseMs, 45 s), unless the network or Redis stalls.
LeaseExpires(u) ==
    /\ voice[u] # None
    /\ LET c == voice[u]
           holders == IF c.state = "ringing" THEN {c.sa} ELSE {c.sa, c.sb} IN
       /\ Command(\A s \in holders : ~Attends(s, c.id))
       /\ voice' = Both(c.a, c.b, None)
    /\ UNCHANGED <<usession, nodeVars, client, calls, accepted, issued>>

\* TimeoutMs (30 s) passes since the last sign of life of a party: it has left
\* the call, or the network stalls.
GoesQuiet(u) ==
    /\ voice[u] # None /\ voice[u].state = "active" /\ u \notin voice[u].quiet
    /\ LET c == voice[u] IN
       /\ Command(~Attends(Own(c, u), c.id))
       /\ voice' = Both(c.a, c.b, [c EXCEPT !.quiet = @ \cup {u}])
    /\ UNCHANGED <<usession, nodeVars, client, calls, accepted, issued>>

-----------------------------------------------------------------------------
(* VoiceCallService::Handle.                                                  *)

\* Go on with the request of s at the given step.
Continue(s, step) == work' = [work EXCEPT ![s].step = step]
Answer(s, code) == work' = [work EXCEPT ![s].step = "reply", ![s].code = code]

\* RedisMgr::Get: a failed command looks like an absent key.
Got(ok, value) == IF ok THEN value ELSE None

Working(s, step) == work[s] # None /\ work[s].step = step

\* The lane takes the next request (malformed ones, such as a call to oneself,
\* are answered without looking further and are left out).  Friendship first,
\* then the peer's device: an invite looks for the phone, every other request
\* reads the caller's lease.
FindDevice(s) ==
    /\ conn[s] = "open" /\ work[s] = None /\ inbox[s] # <<>>
    /\ Head(inbox[s]).peer # UserOf[s]
    /\ inbox' = [inbox EXCEPT ![s] = Tail(@)]
    /\ LET r == Head(inbox[s])
           Begin(step, device, code) ==
               work' = [work EXCEPT ![s] =
                          [op |-> r.op, call |-> r.call, peer |-> r.peer, step |-> step,
                           device |-> device, target |-> None, code |-> code]]
       IN
       \/ /\ r.op \in {"invite", "accept", "ping"}
          /\ Fault
          /\ \E code \in {"DatabaseError", "FriendNotFound"} : Begin("reply", "android", code)
       \/ r.op = "invite" /\ Begin("find", "android", "Success") /\ UNCHANGED faults
       \/ /\ r.op # "invite"
          /\ \E ok \in BOOLEAN :
                LET c == Got(ok, voice[UserOf[s]]) IN
                /\ Command(ok)
                /\ IF c # None /\ c.id = r.call
                   THEN Begin("find", DeviceOf[Peer(c, UserOf[s])], "Success")
                   ELSE Begin("reply", "android", "VoiceInvalid")
    /\ UNCHANGED <<redisVars, conn, outbox, relay, client, calls, accepted, issued>>

\* The session key of the peer's device; an invite falls back to the desktop.
FindSession(s) ==
    /\ Working(s, "find")
    /\ \E ok \in BOOLEAN :
       LET w == work[s]
           found == Got(ok, usession[w.peer][w.device]) IN
       /\ Command(ok)
       /\ \/ /\ found # None
             /\ work' = [work EXCEPT ![s].step = "run", ![s].target = found]
          \/ /\ found = None /\ w.op = "invite" /\ w.device = "android"
             /\ work' = [work EXCEPT ![s].device = "desktop"]
          \/ /\ found = None /\ w.op = "invite" /\ w.device = "desktop"
             /\ Answer(s, "VoiceOffline")
          \/ /\ found = None /\ w.op # "invite"
             /\ Answer(s, "VoiceInvalid")
    /\ UNCHANGED <<redisVars, conn, inbox, outbox, relay, client, calls, accepted, issued>>

\* The script; a failed command reports RedisError, executed or not.
Run(s) ==
    /\ Working(s, "run")
    /\ LET w == work[s] IN
       \/ \E r \in VoiceTransition(s, w.peer, w.device, w.target, w.op, w.call) :
             /\ Commit(r, w.op, w.call, UserOf[s])
             /\ \/ /\ UNCHANGED faults
                   /\ IF r.code = "Success" /\ w.op # "ping" THEN Continue(s, "deliver")
                                                             ELSE Answer(s, r.code)
                \/ Fault /\ Answer(s, "RedisError")
       \/ Fault /\ Answer(s, "RedisError") /\ UNCHANGED <<voice, calls, accepted>>
    /\ UNCHANGED <<usession, conn, inbox, outbox, relay, client, issued>>

EventOf(s) == [op |-> work[s].op, call |-> work[s].call, peer |-> UserOf[s],
               incoming |-> TRUE, code |-> "Success"]

Push(s, e) == outbox' = [outbox EXCEPT ![s] = Append(@, e)]

\* Deliver, locally or over RelayVoice, to the session the script checked.
\* A relay may pass its deadline (300 ms) and execute later.
Deliver(s) ==
    /\ Working(s, "deliver")
    /\ LET t == work[s].target IN
       \/ conn[t] = "open" /\ Push(t, EventOf(s)) /\ Answer(s, "Success")
          /\ UNCHANGED <<relay, faults>>
       \/ conn[t] # "open" /\ Continue(s, "undo") /\ UNCHANGED <<outbox, relay, faults>>
       \/ /\ Fault /\ Continue(s, "undo")
          /\ relay' = relay \cup {[to |-> t, event |-> EventOf(s)]}
          /\ UNCHANGED outbox
    /\ UNCHANGED <<redisVars, conn, inbox, client, calls, accepted, issued>>

\* The relay executes after all; it is lost if the connection has gone.
LateRelay(m) ==
    /\ m \in relay
    /\ relay' = relay \ {m}
    /\ IF conn[m.to] = "open" THEN Push(m.to, m.event) ELSE UNCHANGED outbox
    /\ UNCHANGED <<redisVars, conn, inbox, work, client, calls, accepted, issued, faults>>

\* Faulty variant: the teardown deletes both keys, whatever they hold by now.
UndoBlindly(s) ==
    /\ Working(s, "undo")
    /\ voice' = Both(UserOf[s], work[s].peer, None)
    /\ Answer(s, "VoiceOffline")
    /\ UNCHANGED <<usession, conn, inbox, outbox, relay, client, calls, accepted, issued, faults>>

\* An undelivered request ends its call; the result is not looked at.
Undo(s) ==
    /\ Working(s, "undo")
    /\ LET w == work[s] IN
       \/ \E r \in VoiceTransition(s, w.peer, w.device, w.target, "end", w.call) :
             Commit(r, "end", w.call, UserOf[s]) /\ UNCHANGED faults
       \/ Fault /\ UNCHANGED <<voice, calls, accepted>>
    /\ Answer(s, "VoiceOffline")
    /\ UNCHANGED <<usession, conn, inbox, outbox, relay, client, issued>>

Reply(s) ==
    /\ Working(s, "reply")
    /\ work' = [work EXCEPT ![s] = None]
    /\ IF conn[s] = "open"
       THEN Push(s, [op |-> work[s].op, call |-> work[s].call, peer |-> work[s].peer,
                     incoming |-> FALSE, code |-> work[s].code])
       ELSE UNCHANGED outbox
    /\ UNCHANGED <<redisVars, conn, inbox, relay, client, calls, accepted, issued, faults>>

-----------------------------------------------------------------------------
(* The client's VoiceCallService.                                             *)

\* Queue a request on the connection, if it is still there.
Send(s, op, call, peer) ==
    inbox' = IF conn[s] = "open"
             THEN [inbox EXCEPT ![s] = Append(@, [op |-> op, call |-> call, peer |-> peer])]
             ELSE inbox

Start(s, p) ==
    /\ conn[s] = "open" /\ client[s].state = "Idle" /\ p # UserOf[s]
    /\ issued < MaxCalls
    /\ issued' = issued + 1
    /\ client' = [client EXCEPT ![s] = [state |-> "Outgoing", call |-> issued + 1, peer |-> p]]
    /\ Send(s, "invite", issued + 1, p)
    /\ UNCHANGED <<redisVars, conn, work, outbox, relay, calls, accepted, faults>>

Accept(s) ==
    /\ client[s].state = "Incoming"
    /\ client' = [client EXCEPT ![s].state = "Connecting"]
    /\ Send(s, "accept", client[s].call, client[s].peer)
    /\ UNCHANGED <<redisVars, conn, work, outbox, relay, calls, accepted, issued, faults>>

FinishOp(state) == CASE state = "Incoming" -> "reject"
                     [] state = "Outgoing" -> "cancel"
                     [] OTHER -> "end"

\* finish(): back to Idle first, then the request.
FinishCall(s) ==
    /\ client' = [client EXCEPT ![s] = IdleClient]
    /\ Send(s, FinishOp(client[s].state), client[s].call, client[s].peer)

\* The user hangs up, the deadline of a call that is not connected passes, or
\* the keepalive sees no progress.
Finish(s) ==
    /\ client[s].state # "Idle"
    /\ FinishCall(s)
    /\ UNCHANGED <<redisVars, conn, work, outbox, relay, calls, accepted, issued, faults>>

\* The deadline timer: 35 s for a ringing call, 10 s for an accepted one.
Deadline(s) == client[s].state # "Active" /\ Finish(s)

\* The keepalive timer.  Bound: one ping per session at a time.
Ping(s) ==
    /\ client[s].state = "Active" /\ conn[s] = "open"
    /\ inbox[s] = <<>> /\ work[s] = None /\ outbox[s] = <<>>
    /\ Send(s, "ping", client[s].call, client[s].peer)
    /\ UNCHANGED <<redisVars, conn, work, outbox, relay, client, calls, accepted, issued, faults>>

Disconnected(s) ==
    /\ conn[s] = "closed" /\ client[s].state # "Idle"
    /\ client' = [client EXCEPT ![s] = IdleClient]
    /\ UNCHANGED <<redisVars, nodeVars, calls, accepted, issued, faults>>

\* Faulty variant: the client does not compare the call id.
ConcernsAnyCall(s, e) == client[s].state # "Idle" /\ e.peer = client[s].peer

\* An event of another call, or of no call, is ignored.
Concerns(s, e) ==
    client[s].state # "Idle" /\ e.call = client[s].call /\ e.peer = client[s].peer

\* An idle client rings for an incoming invite.
Rings(s, e) ==
    client[s].state = "Idle" /\ e.code = "Success" /\ e.op = "invite" /\ e.incoming

\* A refusal ends the call, except a temporary failure of an active call's ping.
Refused(s, e) ==
    /\ Concerns(s, e) /\ e.code # "Success"
    /\ ~(/\ client[s].state = "Active" /\ ~e.incoming
         /\ e.op = "ping" /\ e.code \in Temporary)

\* The server confirmed the accept, to the caller or to the callee.
Connects(s, e) ==
    /\ Concerns(s, e) /\ e.code = "Success" /\ e.op = "accept"
    /\ client[s].state \in {"Outgoing", "Connecting"}

\* The peer rejected, cancelled or hung up.
HungUp(s, e) == Concerns(s, e) /\ e.code = "Success" /\ e.op \in Releases

Receive(s) ==
    /\ outbox[s] # <<>>
    /\ LET e == Head(outbox[s]) IN
       \/ /\ Rings(s, e)
          /\ client' = [client EXCEPT ![s] = [state |-> "Incoming", call |-> e.call, peer |-> e.peer]]
          /\ UNCHANGED inbox
       \/ Refused(s, e) /\ FinishCall(s)
       \/ /\ Connects(s, e)
          /\ client' = [client EXCEPT ![s].state = "Active"]
          /\ UNCHANGED inbox
       \/ /\ HungUp(s, e)
          /\ client' = [client EXCEPT ![s] = IdleClient]
          /\ UNCHANGED inbox
       \/ /\ ~(Rings(s, e) \/ Refused(s, e) \/ Connects(s, e) \/ HungUp(s, e))
          /\ UNCHANGED <<client, inbox>>
    /\ outbox' = [outbox EXCEPT ![s] = Tail(@)]
    /\ UNCHANGED <<redisVars, conn, work, relay, calls, accepted, issued, faults>>

-----------------------------------------------------------------------------
ServerStep(s) == FindDevice(s) \/ FindSession(s) \/ Run(s) \/ Deliver(s)
                 \/ Undo(s) \/ Reply(s)

Next ==
    \/ \E s \in Sessions : \/ Login(s) \/ Close(s) \/ Cleanup(s)
                           \/ FindDevice(s) \/ FindSession(s) \/ Run(s)
                           \/ Deliver(s) \/ Undo(s) \/ Reply(s)
                           \/ Accept(s) \/ Finish(s) \/ Ping(s)
                           \/ Receive(s) \/ Disconnected(s)
    \/ \E s \in Sessions, p \in Users : Start(s, p)
    \/ \E u \in Users : LeaseExpires(u) \/ GoesQuiet(u)
    \/ \E m \in relay : LateRelay(m)

Spec == Init /\ [][Next]_vars

\* The lanes serve, connections carry what is queued, the client's timers fire
\* and its event loop runs; a party that is in no call any more falls silent.
\* Nobody has to log in, answer or hang up, and no relay has to execute.
Fairness ==
    /\ \A s \in Sessions : /\ WF_vars(ServerStep(s)) /\ WF_vars(Receive(s))
                           /\ WF_vars(Deadline(s)) /\ WF_vars(Ping(s))
                           /\ WF_vars(Disconnected(s))
    /\ \A u \in Users : WF_vars(GoesQuiet(u))

FairSpec == Spec /\ Fairness

-----------------------------------------------------------------------------
(* Properties.                                                                *)

Work == [op : Controls, call : CallIds, peer : Users,
         step : {"find", "run", "deliver", "undo", "reply"},
         device : Devices, target : Sessions \cup {None}, code : Codes]

\* Every key, queue and client of the call service holds a value of its kind.
TypeOK ==
    /\ voice \in [Users -> Record \cup {None}]
    /\ usession \in [Users -> [Devices -> Sessions \cup {None}]]
    /\ conn \in [Sessions -> {"new", "open", "closed"}]
    /\ inbox \in [Sessions -> Seq(Request)]
    /\ work \in [Sessions -> Work \cup {None}]
    /\ outbox \in [Sessions -> Seq(Event)]
    /\ relay \in SUBSET [to : Sessions, event : Event]
    /\ client \in [Sessions -> [state : {"Idle", "Outgoing", "Incoming", "Connecting", "Active"},
                                call : CallIds \cup {0}, peer : Users \cup {None}]]
    /\ calls \in [CallIds -> Record \cup {None}]
    /\ accepted \in SUBSET CallIds
    /\ issued \in 0 .. MaxCalls /\ faults \in 0 .. MaxFaults

\* VoiceTransition, "one atomic state shared by both nodes": the two accounts
\* of a call hold the same record, whoever invites, answers or times out, so
\* an account is in one call at most and never in a call its peer has left.
CallIsShared ==
    \A u \in Users : voice[u] # None =>
        /\ voice[u].a # voice[u].b /\ u \in {voice[u].a, voice[u].b}
        /\ voice[voice[u].a] = voice[u] /\ voice[voice[u].b] = voice[u]

\* A client is connected (and opens its microphone) only in a call it was
\* bound to when the call was created and which the callee accepted: events of
\* earlier calls, of another device or of a late relay never connect anyone.
ActiveIsBound ==
    \A s \in Sessions : client[s].state = "Active" =>
        LET c == client[s].call IN
        /\ c \in accepted /\ s \in {calls[c].sa, calls[c].sb}
        /\ client[s].peer = UserOf[Peer(calls[c], UserOf[s])]

\* A call is released by a request that names it or by its lease: the late
\* teardown of an undelivered request (the "end" of Handle) does not release
\* the call that has taken its place.
OnlyItsOwnEnd ==
    [][\A u \in Users : (voice[u] # None /\ voice'[u] = None) =>
          \/ LeaseExpires(u)
          \/ \E s \in Sessions : /\ work[s] # None /\ work'[s] # work[s]
                                 /\ work[s].call = voice[u].id]_vars

InCall(s, c) == client[s].state # "Idle" /\ client[s].call = c

Alone(s, c) == InCall(s, c) /\ \A t \in Sessions \ {s} : ~InCall(t, c)

\* Nobody stays alone in a call: when the other party left it, however it left
\* (hang up, lost connection, refused request, lost event), or never came,
\* the deadline, the ping and the silence limit end it.
NobodyStaysAlone ==
    \A s \in Sessions, c \in CallIds : Alone(s, c) ~> ~Alone(s, c)

=============================================================================
