# CppChat in TLA+

CppChat is a chat system: a Qt client for desktop and Android, a gate for
registration and login, a status server that allocates chat nodes, several chat
nodes that serve clients over TCP and each other over gRPC, a resource server
for media, and Redis and MySQL behind them. This directory models the parts
whose correctness depends on the order of events: threads inside a chat node,
nodes sharing Redis, clients and nodes exchanging messages. TLC checks the
models on small instances, TLAPS proves the safety properties for all values of
the constants.

Paths below are relative to the repository.

    tlc -workers 2 -config MCLeases.cfg MCSessionLease      # one run
    tlapm SessionLeaseProofs.tla                            # one module of proofs

`PROJECT.json` lists the runs, the source lines behind every definition, the
mutants that show each property can fail, the hazards and the findings.

## 1. The system

| Part | State | Operations | Talks to |
|---|---|---|---|
| Business executor (`ChatServerShared/BusinessExecutor.cpp`) | lanes of tasks, worker threads, counters, accepting flag | Submit, BeginStop, WaitIdleUntil, Stop | LogicSystem (requests of connections), CServer (cleanup, maintenance) |
| TCP connection (`CSession.cpp`) | send queue, closed/retiring/close-after-write flags, timers, strand | Send, NotifyOffline, Close, DrainAndClose, read and write completions | sockets, CServer |
| Login and leases (`SessionService`, `UserMgr`, `RedisMgr`, `DistLock`) | Redis keys of an account per device (credential, session, route), account lock, each node's UserMgr | Login, kick, Refresh, Release, cleanup | status server, other nodes, Redis |
| Connection table (`CServer.cpp`) | admitted connections, maintenance timer, health lease | accept, maintenance scan, CleanupSession, CloseSessions, StopCleanup | executor, connections, Redis |
| Calls (`VoiceCallService.cpp`, client `voicecallservice.cpp`, script in `RedisMgr.cpp`) | one record under the keys of both accounts; client state machine | invite, accept, reject, cancel, end, ping, media | Redis, relay RPC |
| Node RPC (`ChatServiceImpl`, `ChatGrpcClient`) | stub pools | kick, relay, notifications | other nodes |
| Status server | rotation counter | GetChatServer (token), Login (token check) | Redis |
| Dispatch (`LogicSystem.cpp`), contacts, messages, groups, users (`*Service`, `MysqlDao*`) | MySQL tables | one handler per message id | MySQL, Redis, RPC |
| Pools (`RedisConPool`, `MySqlPool`) | idle connections, stopped flag | borrow, return (reconnect), close | servers |
| Gate, verify server, gateway guard | verification codes and their lock in Redis, users in MySQL | code, register, reset, login | status server, mail |
| Resource server | part, done and metadata files | upload init, chunk, download | Redis, node's media authorisation |
| Client network and message services | socket generation, request timers, attempts, local store | request, retry, synchronise | nodes, resource server |
| Start and stop of a node (`ChatServerApp.cpp`) | the objects above | startup, ordered shutdown | all of the node |

What is hard here, and what would make each part correct:

- **Executor.** Producers, workers and the stopping owner share one mutex and two
  kinds of condition variables. Correct: no lost wakeup, requests of one
  connection one at a time and in order, exact counters, a Stop that returns and
  leaves no task unaccounted for.
- **Connection.** Any thread sends, a strand writes; closing comes from sends,
  reads, timers, kicks and shutdown. Correct: ordered delivery without
  gaps, nothing stranded in the queue, nothing behind the final notice, one
  cleanup, every drain answered once.
- **Leases.** A login is a dozen Redis commands and possibly an RPC to the node
  of the connection it displaces. Correct: the keys of a slot describe one
  login, its node delivers to that session, a credential has one slot, cleanups of
  old connections spare new ones, everything left behind is eventually cleared.
- **Calls.** Two clients and two nodes share one record; requests, relays,
  hang-ups and timeouts cross. Correct: both accounts hold the same call, nobody is
  connected outside an accepted call, a late teardown spares the next call, nobody
  stays alone.
- **Messages, contacts, groups.** Retries by UUID, transactions retried after a
  deadlock, notification of the other node. Correct: one stored copy per message,
  symmetric friendship, no send to a group one has left.
- **Pools.** Reconnection outside the lock. Correct: no slot lost, no waiter
  blocked, recovery after an outage.
- **Gate.** A code used once, also when its lease ends under a slow registration.
- **Resources.** Resumed and duplicated chunks, a stop between rename and
  publication. Correct: a published file is complete and authentic.
- **Client requests.** Late answers of earlier requests, attempts or connections.

## 2. Modules

| Module | Models | Role |
|---|---|---|
| `KeyedSerialExecutor` | what a caller of the executor may rely on | abstract specification |
| `BusinessExecutor` | `BusinessExecutor.cpp`, the stop sequences of `CServer` | refines the former |
| `OrderedOutbox` | what a sender on a connection may rely on | abstract specification |
| `CSession` | `CSession.cpp` | refines the former |
| `SessionLease` | login, takeover, kick, renewal, release over several nodes | composition over Redis |
| `VoiceCall` | clients, handler and Redis script of calls | composition over Redis |
| `MessageLog` | what the clients of a conversation may rely on | abstract specification |
| `ChatDatabase` | transactions of contacts and private messages against row locks | refines the former |
| `ChatSync` | the client's sender, history, store and connection, over `MessageLog`'s log | composition of client parts |
| `ResourceUpload` | `ResourceStore` and the upload task of the client | composition of server and clients |
| `Verification` | verify server, gate requests, Redis lease, user | composition over Redis |
| `ConnectionPools` | `RedisConPool`, `MySqlPool` | component |
| `MC*` | instances for TLC | |
| `*Proofs` | theorems | |

Operators introduced as a *faulty variant* are not part of any specification: they
are the mutated forms that `PROJECT.json` lists, each a plausible mistake in the definition that follows.

### BusinessExecutor

Each critical section of `mutex_` is one action: `SubmitAccepted` and
`SubmitRejected`, `LaneWait`/`LaneTake`/`LaneExit`/`LaneDone` of a worker,
`BeginStop`, `WaitIdleBlock`/`WaitIdleReturn`, `StopLocked`. What happens
outside the mutex (notifications, joins) is an action of its own, so that a
signal can fall between a predicate and a wait. A waiting worker continues only
when notified. Tasks are numbered by acceptance; `accepted`, `finished` and
`discarded` are history. Latency sums and the text of failures are left out.
The refinement maps a task to pending, active, done or dropped.

### CSession

Critical sections of `send_mutex_`, atomic exchanges and posts are separate
steps of a calling thread; strand handlers run one at a time and continue in
`running` between their critical sections. A read succeeds, stops (bad frame) or
fails; contents and framing are left out. The refinement exposes how many
messages were admitted and delivered and whether the outbox is shut or cut off.

### SessionLease

One account over several nodes; the lock is per account, everything else per
device slot, so one account shows every interaction. Each Redis command or
script is one action, each critical section of `login_mutex_`, `_session_mtx`
and `CServer::mutex_` too. `login[s].pc` follows `SessionService::Login`: lock,
validate, look for the previous holder locally and by route, kick, register,
bind, unlock. Faults (`MaxFaults`) are commands that fail before or after
execution and RPCs that fail or pass their deadline and execute later;
`MaxCrashes` stops a node with everything in it; `MaxLockExpiries` lets the 30 s
lock end under a login. Leases may expire at any time.

Simplifications: retiring the local holder is one step although it takes two
locks in turn (nothing between them reads what the first changes); a cleanup
that the executor rejects is a release that fails; the plain `utoken_<uid>` key that the
scripts still accept is never written by the status server and is left
out; the heartbeat's reply is left out. A node accepts connections before
it publishes its health lease, as in `ChatServerApp.cpp`.

### VoiceCall

A session is a connection and its client. A request is the steps of
`VoiceCallService::Handle`: friendship and lease (`FindDevice`), the peer's
session key (`FindSession`), the script (`Run`), delivery (`Deliver`),
the teardown of an undelivered request (`Undo`), the answer (`Reply`). A
session's requests run one at a time, as BusinessExecutor guarantees; its events
arrive in order, as CSession guarantees; session keys change as SessionLease allows.
The client is `Start`, `Accept`, `Finish`, `Ping`, `Receive`, `Disconnected`.

Time is abstract. The silence of 30 s (`quiet`) and the end of a lease happen
freely to a party whose client has left the call, and as a counted fault to one
that is still there: the caller gives up (35 s) before a ringing lease ends
(40 s), a connected client pings every 3 s and gives up after 30 s, before its
lease of 45 s ends (`shared/media/callpolicy.h`; the shorter figures in
`CppChat/services/README.md` are older than that file). The
3 s invite limit may or may not still hold. A closing connection loses what
is queued in either direction; a client that still reads something afterwards is
about to be told of the disconnection and resets. Only well-formed
requests are modelled. Media frames, camera and the media type are left out: a
frame renews its sender and notices a silent peer, as a ping does.

### ChatDatabase and MessageLog

One pair of accounts. A transaction is the list of its statements (`Apply`, `Accept`,
`Delete`, `CreatePrivateChat`, `AddChatMsg`), a statement one action. InnoDB is external and modelled by
what the code relies on: `FOR UPDATE` on a row that exists is exclusive, on one
that does not it takes a gap lock that others may share but nobody inserts behind, locks
last until the end, `AUTO_INCREMENT` numbers are handed out at once and never returned.
Contact transactions start again on 1205 and 1213 (`RunContactTransaction`);
sends do not. A `COMMIT` may throw with the transaction done or undone. The same
request may come again, over any node. A client pages through the history with `LoadHistory`.
Groups, tags, remarks and read-only lists are left out. The refinement takes the
committed rows as the log.

### ChatSync

One conversation of one desktop client. Main-thread handlers and store operations
are the actions; the store's thread executes queued operations in order and
queues callbacks, which are dropped when the session they belong to is over. The
server is the log that `ChatDatabase` implements, with replies, pages and
notifications that may be missing, late or double. Left out: several
conversations, drafts, reading a media file before its retry, the memory copy of confirmed messages.

### ResourceUpload

One file id. The server handles one request of a file at a time; between its
effects on disk and Redis it may crash. A chunk answers with the offset the server is at. Clients
send a window of chunks ahead, give up on an error or lost connection, and
try again; what a closed connection had delivered may still be handled. Content
is the sequence 1..Size and its hash is right exactly when all of it is there in order.
Opening the metadata file may fail, and so may writing it once it has been emptied: with an
error, or unnoticed when the stream is closed.

### Verification

One address. `GetVerifyCode` reads, draws, stores and mails; a gate request takes
the lease, compares the code, writes to MySQL, deletes the code and releases the lease by owner.
Every command may fail before or after it took effect. Codes and leases may time
out under a request. `spent` and `cut` are history. The gate's Redis client sets no time
limits: `pool[r]` says whether the pool of the gate that serves `r` works, is silent (a
command or the wait for a connection does not return, though it may do so late) or has
stopped after losing its last connection, from then on refusing every command.

### ConnectionPools

What a mutex protects is one action; each access to the atomics `_stopped` and
`_live_connections` outside of it is another. Connections are counted, not named.
`RedisConPool` exists in two versions: the copies of the chat servers and of the status server
limit the wait for a connection, the connect and every command to 3 s, the gate's copy limits
none of them. `redis.limited` says which one a behaviour is about. A thread that finds the pool
empty has the mutex until it sleeps (`RedisWait`, `RedisBlock`) and goes on when it is notified
or, with limits, when its time is over; `notify_one` and `notify_all` are steps of their own.
`MySqlPool` is one class with limits everywhere, so there waiting is just not having borrowed.

## 3. Runs

| Run | Instance | Shows |
|---|---|---|
| `executor` | 2 lanes, 3 keys, limit 2, 3 tasks, 1 rejection, fair | counters exact, stop complete, serial per key (refinement), every accepted task served, Stop returns |
| `connection` | 2 threads, queue of 2, 3 messages, 2 drains, fair | ordered and bounded queue, nothing stranded, one cleanup, ordered outbox (refinement), retiring and draining end |
| `leases` | 3 connections, 2 nodes, 2 slots, 2 credentials, 1 fault, 1 crash | owner reachable, closed forgotten, no orphan lease, one slot per credential, whole leases, cleanups spare owners, kicks under the lock |
| `session_liveness` | 2 connections, 2 nodes, 1 fault, 1 crash, fair | leavers cleared, logins end |
| `calls` | 2 accounts, one with two devices, 2 calls, 1 close, 1 fault | shared record, connected only by one's own accepted call, a teardown spares the next call, which is placed while the teardown is under way |
| `call_liveness` | 2 accounts, 1 call, 1 close, 1 fault, fair | nobody stays alone in a call |
| `database` | 2 workers, 3 requests, 2 UUIDs, 1 fault, 2 attempts | message log (refinement), sends only among friends, nothing takes effect twice |
| `chat_sync` | one message each way, pages of 1, 1 incident, 1 retry, fair | store complete up to its cursor, no double rows, erased stays erased, nothing waits for ever, the store catches up |
| `upload` | 2 devices, 5 bytes in chunks of 2, window 2, 1 crash, 1 fault, fair | the part is a prefix, published is whole, uploads succeed |
| `pools` | 3 threads, 2 connections and 2 slots, 1 outage, fair | in both versions of `RedisConPool`: live connections counted exactly, slots come back, nobody sleeps on beside a connection or after Close |
| `verification` | 2 issuers, 2 requests, 4 codes, 1 fault, 1 expiry, fair | lease exclusive in its time, a code is spent once, a persistent user gets an account unless his gate has lost Redis |
| `stale_timer` | as `chat_sync` | a violation, see Findings |

**Bounds.** The executor needs two keys on one lane and one on another, a full
queue, and a task in each of the three places (waiting, running, finished). The connection needs a
full queue, a dropped message and a message behind the notice; two threads and
two drains cross every pair of critical sections. A takeover involves the old
holder, the new one and a bystander who arrives during the takeover: three connections; two nodes
separate local from remote. One fault or crash at any place reaches
each error path, and a second one mostly repeats the first. Two calls are what a
stale event or teardown needs. Two workers are enough for a deadlock, a duplicate send and a
deletion between check and send; a third request lets the pair be friends again.
`PageSize` 1 makes every page end before the log does. Five bytes in chunks of
two make a short last chunk and an offset inside the window. Four codes let both
issuers draw again after one of theirs was overwritten. Three threads over two connections
make one wait while the others break theirs; after an outage connections go on breaking, so
one is enough to lose some of them or all.

**Scenarios.** `leases` and `calls` would have some ten million states with
everything at once. Their MC modules keep, by a state constraint, the parts
that belong together and explore each with all its interleavings. For leases: one slot over two
nodes without faults; two slots on one node with two credentials or a fault; one
credential over two nodes with a fault or a crash, and with both between two
connections. For calls: two calls between two desktops, the second placed without trouble or,
after a lost connection or a fault (not both), while an undelivered request of the first is torn down; one call
between them with a lost connection and a fault; one call with the second device and
one of these; always at most two events under way to a client. Invariants and action
properties are checked on every state kept. Of the two mirror images of a first
call between desktops only the one placed by A is kept. `call_liveness` uses the specification `CallsOfA`
for that: it restricts an action no fairness condition mentions, the start of a call.

`verification` uses `EarlyOverlap`: of its two calls for a code one is only begun while fewer than
two codes have been drawn, but may last as long as it likes. Fairness asks for some call to
be made, which the other one can always do.

**Deadlock** is checked in `chat_sync` and `stale_timer`. Elsewhere it is off, because the instances are
finite: once bounds are used up and everybody has left, nothing remains to do.
That nobody waits for ever is stated as liveness instead.

**Fairness.** Workers, strands, io_contexts, timers and the client's event loop
run when they can (operating-system threads and Asio/Qt loops whose handlers
return, because gRPC, the drains, `MySqlPool`'s connections and the Redis clients of the chat,
status and resource servers carry deadlines). The gate's Redis client carries none: no fairness is
assumed of a gate request whose pool is silent, nor of a Redis command or connect of a pool
without limits once there was an outage. The verify server's Redis client reconnects by
itself; its commands, and its mails, are assumed to succeed or fail in the end. A retiring connection is closed by its drain deadline. A lock
nobody works under, a lease whose owner is gone, and the silence of a party that has left a call, follow from
clocks. A connected client asks for its history again on its timer (`Refresh`). Two liveness
properties are about users who persist: a failed upload is tried again,
and a user without an account goes on asking for codes and sending the newest one
(strong fairness, since another request may hold the lease in between);
`UploadSucceeds` and `RegistrationSucceeds` say that nothing left behind stands in
their way. The resource server's workers
take turns among connections (strong fairness of `Handle`). No fairness is assumed of
other users, peers, the network, or of the execution of a late RPC.

**Symmetry** is used in safety runs only: sessions, nodes, slots and tokens are
interchangeable in `leases`, the workers in `database`.

## 4. Findings

1. *stale_timer.* `CppChat/services/README.md`, line 36: the 15 s timer of an
   old attempt cannot make a new attempt of the same message look failed. The number that tells
   attempts apart is drawn when the request is sent. A retry after an error reply first
   writes to the local store, uploads or queues, and during that time the
   old timer still finds its own number and marks the message failed; it is then
   sent all the same, shown as failed until its answer arrives.

Known limits, met while modelling and excluded by an assumption or by the property:

- *Late kick.* A kick RPC names an account and a device. A caller that passes
  the 3 s deadline returns and releases the account lock, and the RPC may still
  execute and retire whoever holds the slot by then (`ChatServiceImpl.cpp:163`). `KickUnderLock` exempts
  exactly these kicks.
- *Lock expiry.* The account lock is a 30 s lease, neither renewed nor checked
  again (`SessionService.cpp:74`). If it ends under a slow login, two logins can register and bind
  crosswise. Hence `MaxLockExpiries = 0` in `OwnerIsReachable` and `KickUnderLock`; `SessionLease` with
  `MaxLockExpiries = 1` violates the former.
- *Cancel meets accept.* A cancel that arrives after the accept was committed is refused
  (`RedisMgr.cpp:539`); the caller is idle, the callee connected, until the callee's ping
  finds 30 s of silence. `NobodyStaysAlone` shows that this ends.
- *Last connection.* A `RedisConPool` whose last live connection fails to reconnect stops for good
  (`RedisConPool.cpp:147`), and the check races with reconnects: it may
  stop while another thread has just opened a connection. A `Close` after that returns at once
  and leaves the idle contexts unfreed.
- *Gate's Redis pool.* `GateServer/RedisConPool.cpp` connects without a time limit (line 60),
  sets none for commands and waits without one (line 107). The comment at lines 147-148 says that the pool stops and
  wakes its waiters when the last connection is lost, lest they wait for ever; but the flag is set and
  `notify_all` called without the mutex (lines 151-152), so a thread between its test and its
  sleep misses both and never returns. TLC finds it when the exception is taken out of `Oversleeping`;
  `BorrowersAreServed` exempts exactly a pool without limits that stopped in this way. A gate whose pool has
  stopped, or hangs, serves no registration until it is restarted: `RegistrationSucceeds` exempts the user's own gate.
- *Metadata.* A crash between opening and writing `<id>.json`, or a write that fails after the
  file was emptied (also one that shows only when the stream is closed, which nobody checks), leaves it
  empty, and no later request for that id succeeds (`ResourceStore.cpp:262`). `UploadSucceeds` exempts this state.
- *Codes.* A code whose deletion failed, or whose lease ended under a slow
  registration, can be spent again (`CodeSpentOnce` counts these); the deletion is not conditional and
  may hit a newer code; two concurrent `GetVerifyCode` calls may mail a code that the other has replaced.

## 5. Proofs

Each safety property is proved from an inductive invariant, by one lemma per
action or per conjunct.

- `WorkerProofs`, the executor: `ExecutorInv` adds to the types that the lanes hold
  increasing task numbers of their own keys (`LaneOrder`), that every accepted task
  is in exactly one place (`Accounted`), that counters are the cardinalities of those
  places (`Counted`) and what each phase of a stop implies (`Shutdown`). It yields
  types, `MetricsExact`, `StopLeavesNothing` and, step by step, the refinement
  `SerialPerKey`. With `NoWakeupIsLost` (a waiting worker has nothing to do, and is
  notified before it is joined) it yields `WorkIsTended`: the worker of every unfinished task is up.
- `WorkerProofs`, the pools: `PoolInv` counts, over the threads, the connections of
  `RedisConPool` (`LiveIsExact`) and the slots of `MySqlPool` (`SlotsAreCounted`); a thread that
  moves changes each set of threads by at most itself, and waking others changes neither (`WakingKeeps`). `Close` frees nothing before its flag is
  set (`FlagComesFirst`). It yields `LiveCountIsExact` and `NoSlotIsLost` for all pool sizes.
  The former says nothing of the race of the *last connection* above.
- `CSessionProofs`: `SessionInv` is the conjunction of the connection's invariants
  and one more, `ClosingIsClosed`: whoever is going to close physically has
  set `closed_` first. Without it the emptying of the queue could hit an open connection. It yields types,
  `InOrder` (with the queue's limit), `NothingStranded`, `CleanupAfterClose`, valid pops,
  the final notice, and the refinement `SendsInOrder`. `ClosesAreTended` says that whoever
  closes or retires the connection is followed by a task, a write or a timer that goes on with it, and
  that no callback of `DrainAndClose` is lost or run twice: their number is that of
  the drains in the strand, the callbacks that wait and those that ran.
- `SessionLeaseProofs`: `LeaseInv` (what a login's step implies about its data and
  connection, which connections exist, which tokens were issued) holds with or without the lock and
  yields types, `OneSlotPerToken`, `LeaseIsWhole`, `ClosedIsForgotten` and
  `LeaseOutlivesCleanup`. `LockInv` (a login past the lock holds it; between
  register and bind nobody else registers) needs `MaxLockExpiries = 0` and yields
  `OwnerIsReachable` and `KickUnderLock`, for any faults and crashes. `NoOrphanLease`
  rests on `OwnersCanRelease`: while nothing failed, the owner of a lease is a login
  before its bind or revocation, or a bound connection whose cleanup is still to come.
  `AdmissionHolds`: no node has more connections than `max_connections_`, and a slot is held by
  exactly the connections that were admitted and are not cleaned up.
- `VoiceCallProofs`: `VoiceInv` (types, the peer's session is known from the script on, a
  busy client knows its call, shared records) yields types, `CallIsShared` and the
  action property `OnlyItsOwnEnd`, for any accounts, devices, calls and faults. `BindInv`
  yields `ActiveIsBound`: it follows the two sessions of a call from its only invite
  (`InvitesOnce`: no call is created twice) over the record in Redis (`VoiceIsCall`) and the
  committed accept (`WorkIsBound`) to the events that connect a client (`EventsAreBound`).
  `CallsConnectTwo` follows: a call connects one device of each of its two accounts.
- `VerificationProofs`: `VerificationInv` adds to `HolderKeepsLease` and
  `CodeSpentOnce` that a late request has lost its lease, that the codes waiting to be
  stored differ, that a code which has not reached Redis is unspent and that a spent code
  is about to be deleted in time or gone, unless the registration was cut short.
  `CodesAreOneTime`: without a failed command, a crash or a timeout nothing is cut short, so a
  code changes the account once.
- `ResourceUploadProofs`: `UploadInv` adds to `PartIsPrefix` and `PublishedIsWhole` that a
  request at its publication has the whole file (`PublishesWhole`) and that an answer which
  calls the upload complete was sent after it (`AnswersAreReady`). That a chunk continues
  the part is a fact about `SubSeq`; that a window ends is one about the chunks of a
  file, proved from the least element of a set of numbers (`LeastNumber`). `NoAnswerIsMissed`
  counts: the answers a device waits for are its requests, the one in work and the replies on
  its connection. `MetadataNeedsFailure`: a step into the dead end of §4 is a crash or a failing write
  of the metadata.
- `ChatDatabaseProofs`: `DatabaseInv` is a lock discipline. Every plan asks for its
  locks before it touches the rows they guard (`PlansKept`), exclusive locks exclude
  (`LocksExclude`), whatever a transaction has changed or relies on is locked until
  it ends (`ChangesAreLocked`, `WritersHoldChat`, `ReadersHoldAll`); so messages are appended
  in order (`MessagesInOrder`), a result is a stored message (`ResultsAreStored`), and each
  change of the contacts was paid for (`CreditCovers`). Every action is first shown to be
  one of ten kinds of step (`StepKinds`), then each conjunct is shown to survive each
  kind. It yields types, `EffectOnce`, `SentAmongFriends` and the refinement
  `ImplementsMessageLog`.
- `ChatSyncProofs`: `SyncInv` says what is under way. The log holds no UUID twice; an id that a
  row, a queued operation, a callback or a packet carries is the place of its UUID in the log;
  a page, from its request to its callback, begins at or before the stored cursor and holds
  every message up to its end; the cursor of the service never passes the stored one. Facts
  about the log and the cursor survive their growth (`FitsLater`), so only the store's own
  steps are hard: `MergeKeeps` shows what `saveMessage` may drop or replace. No type of
  the UUIDs is needed. It yields `SyncIsComplete`, `OneRowPerMessage` and `ErasedStaysErased`.
  TLC also checked `SyncInv` on the instance of the run `chat_sync` and on one with two
  messages of the other side and two incidents (3.8 million states). `WaitsEnd` proves that
  everything the client waits for (opening, saving, sending, a page of history) has its
  timer, callback or answer under way.

TLC checked the strengthenings before they were proved, on the instances of the runs:
`PoolInv` (573924 states, with two outages), `NoWakeupIsLost` and `WorkIsTended` (69470), `ClosesAreTended`
(156268), `AnswersAreCounted` and `AbandonedByFailure` (95238), `WaitsAreTended` (1.7 million);
the bound of `AdmissionHolds` with three connections on a node that admits one (122947).

The assumptions are those on the constants (`ASSUME` in each module): functions
and limits have their types, markers such as `None` are distinct from values, the lanes are finite.

Every invariant that a run checks is a theorem. Only model-checked is what is temporal under
fairness (`AcceptedIsServed`, `StopReturns`, `RetiringCloses`, `DrainsReturn`,
`LeaversAreCleared`, `LoginEnds`, `NobodyStaysAlone`, `NothingWaitsForever`, `CatchesUp`,
`UploadSucceeds`, `BorrowersAreServed`, `RegistrationSucceeds`): the prover handles neither `ENABLED`
nor fairness. What several of them rest on in every state is proved:
`WorkIsTended` for `AcceptedIsServed` and `StopReturns`, `ClosesAreTended` for `RetiringCloses`
and `DrainsReturn`, `SlotsAreCounted` for the MySQL half of `BorrowersAreServed`, `WaitsAreTended` for
`NothingWaitsForever`, `AnswersAreCounted` and `AbandonedByFailure` for `UploadSucceeds`.

## 6. Not modelled

Parts that could still be modelled:

- Groups: membership and dissolution against sends, transactions like those of `ChatDatabase`.
- The order of `ChatServerApp`'s shutdown as one module; its steps are in `BusinessExecutor`, `CSession` and `SessionLease`.
- Request identifiers and the connection generation of the client's `TcpMgr`.
- The split of the login reply into parts, a pure function.
- Media frames of calls (sequence numbers, token buckets), the rate counters of the gateway guard.

Left out for good: user interface, logging, configuration, deployment scripts, SQL schema:
presentation and I/O without concurrent state of their own. Generated protobuf code and
vendored libraries are not modelled either; the generated
`message.pb.*` and `message.grpc.pb.*` of three servers are more than half of the
repository's C++ lines, and the Qt user interface a large part of the rest, so the share of
all lines that the map covers stays small although the parts listed above are covered.
