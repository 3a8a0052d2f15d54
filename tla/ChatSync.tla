------------------------------ MODULE ChatSync ------------------------------
(***************************************************************************)
(* One conversation as the desktop client keeps it: MessageSender sends    *)
(* and retries, ChatSyncService follows the server's history, ChatStore    *)
(* keeps both in SQLite (CppChat/services, CppChat/common).                *)
(*                                                                         *)
(* The client has two threads.  The main thread handles packets, timers,   *)
(* user actions and callbacks; each is one action.  The store's thread     *)
(* executes the operations the main thread queued, in order, each in one   *)
(* SQL transaction, and queues their callbacks.  A lost connection returns *)
(* the client to its login page, which resets both services: queued        *)
(* operations still run, their callbacks do not (generation and revision   *)
(* checks).  A crash loses the queued operations too.                      *)
(*                                                                         *)
(* The server is external here: the log of MessageLog.tla, whose entries   *)
(* are numbered 1, 2, ..., a session whose requests are handled in order,  *)
(* and a live notification that may be missing.  Time is left out: a timer *)
(* may fire at any moment.  The thread list, drafts, the read of a media   *)
(* file before its retry, and the memory copy of confirmed messages are    *)
(* left out; unconfirmed ones are in pending.                              *)
(***************************************************************************)
EXTENDS Naturals, Sequences, FiniteSets

CONSTANTS
    Mine,           \* UUIDs of the messages the user sends here
    Theirs,         \* UUIDs of the messages of the other side
    None,           \* no upload
    PageSize,       \* messages of one history page
    MaxIncidents,   \* bound: lost connections, crashes, error answers, failed
                    \* uploads and writes, slow answers, double answers and
                    \* erasures in all
    MaxRetries      \* bound: retries by the user

ASSUME SyncAssumption ==
    /\ Mine \cap Theirs = {} /\ None \notin Mine
    /\ PageSize \in Nat \ {0}
    /\ MaxIncidents \in Nat /\ MaxRetries \in Nat

VARIABLES
    log,        \* the server's log: log[i] is the UUID of message i
    late,       \* messages a lost connection may still deliver to the server
    toServer, toClient,     \* the connection
    session,    \* "off", "opening" or "on" (_storeReady)
    pending,    \* pending[u]: the message object of u, see Status
    sender,     \* MessageSender
    sync,       \* ChatSyncService
    store,      \* SQLite
    ops,        \* operations queued for the store's thread
    done,       \* callbacks queued for the main thread
    content,    \* content[u]: "text", a "file" to upload first, or "unused"
    incidents, retries  \* used up of the bounds

netVars == <<log, late, toServer, toClient>>
clientVars == <<session, pending, sender, sync>>
storeVars == <<store, ops, done>>
boundVars == <<content, incidents, retries>>
vars == <<netVars, clientVars, storeVars, boundVars>>

\* Not known to this session; waiting for its confirmation (UN_READ or
\* SEND_FAILED, in _msg_unrsp_map); confirmed (GetMsgId() > 0).
Status == {"none", "sending", "failed", "confirmed"}

FreshSender == [saving |-> FALSE, retrying |-> {}, queue |-> <<>>, upload |-> None,
                committing |-> FALSE, timer |-> {}]
FreshSync == [hist |-> "idle", complete |-> FALSE, cursor |-> 0]

Init ==
    /\ log = <<>> /\ late = {} /\ toServer = <<>> /\ toClient = <<>>
    /\ session = "off" /\ pending = [u \in Mine |-> "none"]
    /\ sender = FreshSender /\ sync = FreshSync
    /\ store = [rows |-> {}, cursor |-> 0, last |-> 0, hidden |-> 0, deleted |-> {}]
    /\ ops = <<>> /\ done = <<>>
    /\ content = [u \in Mine |-> "unused"] /\ incidents = 0 /\ retries = 0

Incident == incidents < MaxIncidents /\ incidents' = incidents + 1

----------------------------------------------------------------------------
(* SQLite: rows of messages with their UUID and server id (0: none).  The  *)
(* send_state column, which MarkUnconfirmed and OpenAccount rewrite, only  *)
(* chooses the text shown beside a row without an id.                      *)

Row(u, n) == [uuid |-> u, id |-> n]

Largest(S) == CHOOSE n \in S : \A m \in S : m <= n
Ids(R) == {r.id : r \in R}

\* Faulty variant: the client's own copy is not recognised by its UUID.
SameId(r, m) == m.id > 0 /\ r.id = m.id

\* The row r and the record m are one message: same UUID or same server id.
Same(r, m) == r.uuid = m.uuid \/ (m.id > 0 /\ r.id = m.id)

\* Records at or before the boundary of a local clear, or deleted one by one.
Hidden(m) == m.id > 0 /\ m.id <= store.hidden
\* Faulty variant: the boundary of a clear is not consulted.
SuppressedOneByOne(m) == m.id \in store.deleted
Suppressed(m) == Hidden(m) \/ m.id \in store.deleted

\* saveMessage for the records M of one transaction: a suppressed record is not
\* written, a confirmed row never becomes unconfirmed, the others are merged.
Accepted(M) ==
    {m \in M : ~Suppressed(m) /\ ~(m.id = 0 /\ \E r \in store.rows : Same(r, m) /\ r.id > 0)}

\* Faulty variant: a live message moves the history cursor.
SavedAdvancing(M) ==
    [store EXCEPT !.rows = {r \in @ : \A m \in Accepted(M) : ~Same(r, m)} \cup Accepted(M),
                  !.cursor = Largest({@} \cup Ids(M))]

Saved(M) ==
    [store EXCEPT
        !.rows = {r \in @ : /\ \A m \in Accepted(M) : ~Same(r, m)
                            /\ ~(r.id = 0 /\ \E m \in M : Hidden(m) /\ r.uuid = m.uuid)}
                 \cup Accepted(M),
        !.last = Largest({@} \cup Ids(Accepted(M)))]

\* Faulty variant: the page is stored without its cursor.
SavedPageOnly(M, next) == Saved(M)

\* SaveMessages with a history page also moves the cursor, in one transaction.
SavedPage(M, next) ==
    [Saved(M) EXCEPT !.cursor = Largest({@, next})]

\* ClearLocalHistory keeps what is not confirmed.
Cleared ==
    [store EXCEPT !.hidden = Largest({@, store.last} \cup Ids(store.rows)),
                  !.rows = {r \in @ : r.id = 0}]

\* DeleteLocalMessages: a tombstone keeps the message from coming back.
Deleted(n) ==
    [store EXCEPT !.deleted = @ \cup {n}, !.rows = {r \in @ : r.id # n}]

\* What operation o makes of the store.
Effect(o) ==
    CASE o.kind = "save"   -> Saved(o.records)
      [] o.kind = "page"   -> SavedPage(o.records, o.next)
      [] o.kind = "clear"  -> Cleared
      [] o.kind = "delete" -> Deleted(o.id)
      [] o.kind = "thread" -> [store EXCEPT !.last = Largest({@, o.last})]
      [] OTHER             -> store

SaveOp(by, M) == [kind |-> "save", by |-> by, records |-> M, live |-> TRUE]
PageOp(M, next, more) ==
    [kind |-> "page", records |-> M, next |-> next, more |-> more, live |-> TRUE]
Plain(kind) == [kind |-> kind, live |-> TRUE]

\* The store's thread executes the next operation; a write may fail on the disk.
\* The callback runs later on the main thread, if its session still exists.
RunOp ==
    /\ ops # <<>>
    /\ ops' = Tail(ops)
    /\ LET o == Head(ops) IN
         \/ /\ store' = Effect(o)
            /\ done' = IF o.live
                       THEN Append(done, [op |-> o, ok |-> TRUE,
                              gone |-> IF o.kind \in {"save", "page"}
                                       THEN {m.uuid : m \in {x \in o.records : Suppressed(x)}}
                                       ELSE {},
                              rows |-> IF o.kind = "read" THEN store.rows ELSE {},
                              cursor |-> store.cursor])
                       ELSE done
            /\ UNCHANGED incidents
         \/ /\ o.kind \in {"save", "page"} /\ Incident
            /\ done' = IF o.live THEN Append(done, [op |-> o, ok |-> FALSE, gone |-> {},
                                                    rows |-> {}, cursor |-> store.cursor])
                       ELSE done
            /\ UNCHANGED store
    /\ UNCHANGED <<netVars, clientVars, content, retries>>

----------------------------------------------------------------------------
(* MessageSender                                                           *)

Pending(u) == pending[u] \in {"sending", "failed"}

\* How much of the queue q leaves at once: text up to the first file, nothing
\* while an upload runs or its result is being saved.
Ready(s, q) ==
    IF s.upload # None \/ s.committing THEN 0
    ELSE Largest({0} \cup {i \in 1..Len(q) : \A j \in 1..i : content[q[j]] = "text"})

\* SendStoredMessage: a request and its timer for every one not yet confirmed,
\* in the order of the queue.  It runs after the caller set the messages' states.
Requests(q) ==
    LET open == {i \in 1..Len(q) : pending'[q[i]] # "confirmed"}
        nth(k) == CHOOSE i \in open : Cardinality({j \in open : j <= i}) = k
    IN  [k \in 1..Cardinality(open) |-> [kind |-> "send", uuid |-> q[nth(k)]]]

\* SendNextMessage with the queue q of a sender s; first is sent before it.
SendNextMessage(s, first, q) ==
    LET n == Ready(s, q)
        starts == s.upload = None /\ ~s.committing /\ n < Len(q)
        out == Requests(first \o SubSeq(q, 1, n))
    IN  /\ sender' = [s EXCEPT !.queue = SubSeq(q, IF starts THEN n + 2 ELSE n + 1, Len(q)),
                               !.upload = IF starts THEN q[n + 1] ELSE @,
                               !.timer = @ \cup {out[i].uuid : i \in 1..Len(out)}]
        /\ toServer' = toServer \o out

\* MarkOutgoingFailed for the messages U, unless confirmed meanwhile.
Failed(U) == [u \in Mine |-> IF u \in U /\ pending[u] # "confirmed" THEN "failed"
                                                                    ELSE pending[u]]

\* Send: the message is on the disk before it is anywhere else.
Send(u) ==
    /\ session = "on" /\ ~sender.saving /\ content[u] = "unused"
    /\ content' \in {[content EXCEPT ![u] = k] : k \in {"text", "file"}}
    /\ sender' = [sender EXCEPT !.saving = TRUE]
    /\ ops' = Append(ops, SaveOp("send", {Row(u, 0)}))
    /\ UNCHANGED <<netVars, session, pending, sync, store, done, incidents, retries>>

\* RetryMessage, by the user, of a message that is shown as failed.
RetryMessage(u) ==
    /\ session = "on" /\ pending[u] = "failed"
    /\ retries < MaxRetries /\ retries' = retries + 1
    /\ sender.upload # u /\ u \notin sender.retrying
    /\ pending' = [pending EXCEPT ![u] = "sending"]
    /\ sender' = [sender EXCEPT !.retrying = @ \cup {u}]
    /\ ops' = Append(ops, SaveOp("retry", {Row(u, 0)}))
    /\ UNCHANGED <<netVars, session, sync, store, done, content, incidents>>

\* The timer of the newest attempt ends; those of older attempts do nothing.
SendTimeout(u) ==
    /\ u \in sender.timer
    /\ sender' = [sender EXCEPT !.timer = @ \ {u}]
    /\ pending' = IF Pending(u) THEN Failed({u}) ELSE pending
    /\ UNCHANGED <<netVars, session, sync, storeVars, boundVars>>

\* uploadFinished: the file's name goes to the disk before the message goes out.
UploadFinished(u) ==
    /\ sender.upload = u
    /\ \/ /\ sender' = [sender EXCEPT !.upload = None, !.committing = TRUE]
          /\ ops' = Append(ops, SaveOp("upload",
                {IF pending[u] = "confirmed"
                 THEN Row(u, CHOOSE n \in DOMAIN log : log[n] = u)
                 ELSE Row(u, 0)}))
          /\ UNCHANGED <<pending, toServer, incidents>>
       \/ /\ Incident
          /\ pending' = Failed({u})
          /\ SendNextMessage([sender EXCEPT !.upload = None], <<>>, sender.queue)
          /\ UNCHANGED ops
    /\ UNCHANGED <<log, late, toClient, session, sync, store, done, content, retries>>

----------------------------------------------------------------------------
(* Callbacks of MessageSender                                              *)

Callback(kind, by) ==
    /\ done # <<>> /\ Head(done).op.kind = kind
    /\ kind = "save" => Head(done).op.by = by
    /\ done' = Tail(done)
UuidOf(d) == (CHOOSE m \in d.op.records : TRUE).uuid

\* Send: the draft stays as it is when it could not be saved.
SendSaved ==
    /\ Callback("save", "send")
    /\ LET u == UuidOf(Head(done)) IN
         IF Head(done).ok
         THEN /\ pending' = [pending EXCEPT ![u] = "sending"]
              /\ SendNextMessage([sender EXCEPT !.saving = FALSE], <<>>,
                                 Append(sender.queue, u))
         ELSE /\ sender' = [sender EXCEPT !.saving = FALSE]
              /\ UNCHANGED <<pending, toServer>>
    /\ UNCHANGED <<log, late, toClient, session, sync, store, ops, boundVars>>

RetrySaved ==
    /\ Callback("save", "retry")
    /\ LET u == UuidOf(Head(done))
           s == [sender EXCEPT !.retrying = @ \ {u}]
       IN IF Head(done).ok
          THEN UNCHANGED pending /\ SendNextMessage(s, <<>>, Append(s.queue, u))
          ELSE pending' = Failed({u}) /\ sender' = s /\ UNCHANGED toServer
    /\ UNCHANGED <<log, late, toClient, session, sync, store, ops, boundVars>>

\* Faulty variant: a file name that could not be saved fails nothing.
UploadSavedSilently ==
    /\ Callback("save", "upload")
    /\ UNCHANGED pending
    /\ LET u == UuidOf(Head(done)) IN
         SendNextMessage([sender EXCEPT !.committing = FALSE],
                         IF Head(done).ok THEN <<u>> ELSE <<>>, sender.queue)
    /\ UNCHANGED <<log, late, toClient, session, sync, store, ops, boundVars>>

UploadSaved ==
    /\ Callback("save", "upload")
    /\ LET u == UuidOf(Head(done))
           s == [sender EXCEPT !.committing = FALSE]
       IN IF Head(done).ok
          THEN UNCHANGED pending /\ SendNextMessage(s, <<u>>, s.queue)
          ELSE pending' = Failed({u}) /\ SendNextMessage(s, <<>>, s.queue)
    /\ UNCHANGED <<log, late, toClient, session, sync, store, ops, boundVars>>

----------------------------------------------------------------------------
(* ChatSyncService                                                         *)

\* A confirmed message leaves the pending ones (MoveMsg, ForgetPendingMessage).
Settled(d) ==
    [u \in Mine |->
        IF Pending(u) /\ \E m \in d.op.records : m.uuid = u
        THEN IF u \in d.gone THEN "none" ELSE "confirmed"
        ELSE pending[u]]

\* SendHistoryRequest from cursor c.
Ask(c) == toServer' = Append(toServer, [kind |-> "load", from |-> c, current |-> TRUE])

\* ReceiveMessages, for a notification or a reply; the cursor stays.
LiveSaved ==
    /\ Callback("save", "live")
    /\ IF Head(done).ok
       THEN pending' = Settled(Head(done))
       ELSE UNCHANGED pending
    /\ UNCHANGED <<netVars, session, sender, sync, store, ops, boundVars>>

PageSaved ==
    /\ Callback("page", "")
    /\ LET o == Head(done).op IN
       \/ /\ Head(done).ok
          /\ pending' = Settled(Head(done))
          /\ sync' = [sync EXCEPT !.cursor = o.next,
                                  !.complete = @ \/ ~o.more,
                                  !.hist = IF o.more THEN "asked" ELSE "idle"]
          /\ IF o.more THEN Ask(o.next) ELSE UNCHANGED toServer
       \/ /\ ~Head(done).ok
          /\ sync' = [sync EXCEPT !.hist = "idle"]
          /\ UNCHANGED <<pending, toServer>>
    /\ UNCHANGED <<log, late, toClient, session, sender, store, ops, boundVars>>

\* LoadLocalMessages: rows without a server id are shown as failed unless they
\* are known already.  The reads after each later write only change what is shown.
LocalRead ==
    /\ Callback("read", "")
    /\ pending' = [u \in Mine |->
          IF ~Pending(u) /\ \E r \in Head(done).rows : r.uuid = u /\ r.id = 0
          THEN "failed" ELSE pending[u]]
    /\ UNCHANGED <<netVars, session, sender, sync, store, ops, boundVars>>

\* StartSession, when the account's database is open.
SessionOpened ==
    /\ Callback("open", "")
    /\ session' = "on"
    /\ sync' = [sync EXCEPT !.cursor = Head(done).cursor]
    /\ ops' = Append(ops, Plain("read"))
    /\ toServer' = Append(toServer, [kind |-> "threads"])
    /\ UNCHANGED <<log, late, toClient, pending, sender, store, boundVars>>

\* The 60 s timer: RefreshAllHistory(true).
Refresh ==
    /\ session = "on" /\ sync.hist = "idle"
    /\ sync' = [sync EXCEPT !.complete = FALSE, !.hist = "asked"]
    /\ Ask(sync.cursor)
    /\ UNCHANGED <<log, late, toClient, session, pending, sender, storeVars, boundVars>>

\* No answer within 15 s: failRequest; a later answer does not match any more.
HistoryTimeout ==
    /\ session = "on" /\ sync.hist = "asked" /\ Incident
    /\ sync' = [sync EXCEPT !.hist = "idle"]
    /\ toServer' = [i \in DOMAIN toServer |->
          IF toServer[i].kind = "load" THEN [toServer[i] EXCEPT !.current = FALSE]
                                       ELSE toServer[i]]
    /\ toClient' = [i \in DOMAIN toClient |->
          IF toClient[i].kind = "page" THEN [toClient[i] EXCEPT !.current = FALSE]
                                       ELSE toClient[i]]
    /\ UNCHANGED <<log, late, session, pending, sender, storeVars, content, retries>>

----------------------------------------------------------------------------
(* The server, external                                                    *)

Written == {log[i] : i \in DOMAIN log}
IdOf(L, u) == CHOOSE i \in DOMAIN L : L[i] = u

Live(L, u) == [kind |-> "live", uuid |-> u, id |-> IdOf(L, u)]
Refusal == [kind |-> "error"]

\* MessageService::Store; the sender's own devices are notified before the
\* reply, if they are found.
ServeSend(u) ==
    LET L == IF u \in Written THEN log ELSE Append(log, u) IN
    \/ /\ log' = L
       /\ toClient' = Append(toClient, Live(L, u))
       /\ UNCHANGED incidents
    \/ /\ Incident
       /\ log' = L
       /\ toClient' = toClient \o <<Live(L, u), Live(L, u)>>
    \/ /\ Incident
       /\ log' \in {log, L}              \* refused, or the outcome is not known
       /\ toClient' = Append(toClient, Refusal)

ServeLoad(r) ==
    LET last == IF r.from + PageSize < Len(log) THEN r.from + PageSize ELSE Len(log)
    IN  /\ toClient' = Append(toClient,
              [kind |-> "page", next |-> last, more |-> last < Len(log), current |-> r.current,
               records |-> {Row(log[i], i) : i \in (r.from + 1)..last}])
        /\ UNCHANGED <<log, incidents>>

ServeThreads ==
    /\ toClient' = Append(toClient, [kind |-> "threads", last |-> Len(log)])
    /\ UNCHANGED <<log, incidents>>

Serve ==
    /\ toServer # <<>>
    /\ toServer' = Tail(toServer)
    /\ LET r == Head(toServer) IN
         \/ r.kind = "send" /\ ServeSend(r.uuid)
         \/ r.kind = "load" /\ ServeLoad(r)
         \/ r.kind = "threads" /\ ServeThreads
    /\ UNCHANGED <<late, clientVars, storeVars, content, retries>>

\* A request whose connection is gone is executed, its reply goes nowhere.
ServeLate(u) ==
    /\ u \in late
    /\ late' = late \ {u}
    /\ log' = IF u \in Written THEN log ELSE Append(log, u)
    /\ UNCHANGED <<toServer, toClient, clientVars, storeVars, boundVars>>

\* The other side writes; the notification may fail.
PeerSends(u) ==
    /\ u \in Theirs \ Written
    /\ log' = Append(log, u)
    /\ \/ session # "off" /\ toClient' = Append(toClient, Live(log', u))
       \/ UNCHANGED toClient
    /\ UNCHANGED <<late, toServer, clientVars, storeVars, boundVars>>

----------------------------------------------------------------------------
(* Packets, the session and its end                                        *)

\* ReceiveMessages: nothing is taken before the account's database is open.
ReceiveMessages(m) ==
    /\ ops' = IF session = "on" THEN Append(ops, SaveOp("live", {Row(m.uuid, m.id)}))
                                ELSE ops
    /\ UNCHANGED <<pending, sync, toServer>>

\* An error fails every pending message of the conversation (FailPending).
ReceiveRefusal ==
    /\ pending' = Failed({u \in Mine : Pending(u)})
    /\ UNCHANGED <<sync, ops, toServer>>

\* ReceiveHistory takes the answer to its own request only.
ReceiveHistory(m) ==
    /\ IF m.current /\ sync.hist = "asked"
       THEN /\ sync' = [sync EXCEPT !.hist = "saving"]
            /\ ops' = Append(ops, PageOp(m.records, m.next, m.more))
       ELSE UNCHANGED <<sync, ops>>
    /\ UNCHANGED <<pending, toServer>>

\* ReceiveThreads: the last id of the conversation, then its history.
ReceiveThreads(m) ==
    /\ ops' = Append(ops, [kind |-> "thread", last |-> m.last, live |-> FALSE])
    /\ IF ~sync.complete /\ sync.hist = "idle"
       THEN sync' = [sync EXCEPT !.hist = "asked"] /\ Ask(sync.cursor)
       ELSE UNCHANGED <<sync, toServer>>
    /\ UNCHANGED pending

Receive ==
    /\ toClient # <<>>
    /\ toClient' = Tail(toClient)
    /\ LET m == Head(toClient) IN
         \/ m.kind = "live" /\ ReceiveMessages(m)
         \/ m.kind = "error" /\ ReceiveRefusal
         \/ m.kind = "page" /\ ReceiveHistory(m)
         \/ m.kind = "threads" /\ ReceiveThreads(m)
    /\ UNCHANGED <<log, late, session, sender, store, done, boundVars>>

\* A login: StartSession queues OpenAccount.
Login ==
    /\ session = "off"
    /\ session' = "opening"
    /\ ops' = Append(ops, Plain("open"))
    /\ UNCHANGED <<netVars, pending, sender, sync, store, done, boundVars>>

\* returnToLogin after a lost connection, or the end of the process: callbacks
\* of the old session never run; only a crash also loses what was queued.
EndSession ==
    /\ session # "off" /\ Incident
    /\ session' = "off"
    /\ pending' = [u \in Mine |-> "none"]
    /\ sender' = FreshSender /\ sync' = FreshSync
    /\ late' = late \cup {toServer[i].uuid : i \in {j \in DOMAIN toServer :
                                                       toServer[j].kind = "send"}}
    /\ toServer' = <<>> /\ toClient' = <<>> /\ done' = <<>>
    /\ \/ ops' = <<>>
       \/ ops # <<>> /\ ops' = [i \in DOMAIN ops |-> [ops[i] EXCEPT !.live = FALSE]]
    /\ UNCHANGED <<log, store, content, retries>>

\* The user clears the history or deletes a confirmed message, here only.
Erase ==
    /\ session = "on" /\ Incident
    /\ \/ ops' = Append(ops, [kind |-> "clear", live |-> FALSE])
       \/ \E r \in store.rows :
             r.id > 0 /\ ops' = Append(ops, [kind |-> "delete", id |-> r.id, live |-> FALSE])
    /\ UNCHANGED <<netVars, clientVars, store, done, content, retries>>

CallbackStep ==
    \/ SendSaved \/ RetrySaved \/ UploadSaved \/ LiveSaved \/ PageSaved
    \/ LocalRead \/ SessionOpened

Next ==
    \/ RunOp \/ CallbackStep \/ Receive
    \/ Refresh \/ HistoryTimeout
    \/ Login \/ EndSession \/ Erase
    \/ \E u \in Mine : Send(u) \/ RetryMessage(u) \/ SendTimeout(u) \/ UploadFinished(u)
    \/ Serve \/ \E u \in Mine : ServeLate(u)
    \/ \E u \in Theirs : PeerSends(u)

\* Threads and the server make progress, timers end, the user logs in again;
\* whether the user sends, retries or erases is left open.
Fairness ==
    /\ WF_vars(RunOp) /\ WF_vars(CallbackStep) /\ WF_vars(Receive) /\ WF_vars(Serve)
    /\ WF_vars(Refresh) /\ WF_vars(Login)
    /\ \A u \in Mine : WF_vars(SendTimeout(u)) /\ WF_vars(UploadFinished(u))

Spec == Init /\ [][Next]_vars
FairSpec == Spec /\ Fairness

----------------------------------------------------------------------------
(* Properties                                                              *)

\* Everything the server had up to the stored cursor is in the local store,
\* unless the user erased it here: live messages, which may come before older
\* ones were fetched, do not move the cursor (ReceiveMessages, SaveMessages).
SyncIsComplete ==
    \A i \in 1..store.cursor :
        \/ i <= store.hidden \/ i \in store.deleted
        \/ \E r \in store.rows : r.id = i /\ r.uuid = log[i]

\* A message is stored once, whatever the order in which its own copy, the
\* reply, the notification and the history page arrive (saveMessage).
OneRowPerMessage ==
    \A r, q \in store.rows : r # q => r.uuid # q.uuid /\ (r.id = 0 \/ r.id # q.id)

\* What the user erased here does not come back with a page, a reply or a
\* notification that was under way (ClearLocalHistory, DeleteLocalMessages).
ErasedStaysErased ==
    \A r \in store.rows : r.id > 0 => r.id > store.hidden /\ r.id \notin store.deleted

\* A message shown as being sent is confirmed or shown as failed in the end.
NothingWaitsForever ==
    \A u \in Mine : pending[u] = "sending" ~> pending[u] # "sending"

\* services/README.md: the 15 s timer of an old attempt cannot make a new attempt
\* of the same message look failed.  A retry begins before its request is sent.
OldTimerSparesRetry ==
    [][\A u \in Mine :
          (u \in sender.timer \ sender'.timer /\ pending[u] = "sending" /\ pending'[u] = "failed")
          => u \notin sender.retrying /\ sender.upload # u]_vars

\* Every message of the log reaches the store: what a live notification missed
\* comes with the history.
CatchesUp ==
    \A u \in Mine \cup Theirs :
        u \in Written ~> (\E i \in 1..store.cursor : log[i] = u)
=============================================================================
