---------------------------- MODULE Verification ----------------------------
(****************************************************************************)
(* E-mail verification codes: VerifyServer issues a code for an address and *)
(* keeps it in Redis for three minutes; the gate servers spend it on a      *)
(* registration or a password reset, serialised by a lease in Redis.        *)
(*                                                                          *)
(* One address.  `Issuers' are GetVerifyCode calls under way, `Requests'    *)
(* HTTP requests under way, at any gate; both are used again when they have *)
(* been answered.  Codes are numbered in the order they are drawn: two      *)
(* draws of crypto.randomInt(100000, 1000000) are taken to differ.  A lease *)
(* owner is a fresh UUID per request; the name of the request stands for    *)
(* it, since a lease is only ever compared by the request holding it.       *)
(*                                                                          *)
(* The gate's Redis client sets no time limit (RedisConPool of GateServer): *)
(* a command, or the wait for a connection, may never end, and a pool that  *)
(* lost its last connection stays stopped.  Each request has a pool of its  *)
(* own here; what befalls the pool of several befalls each of them.         *)
(****************************************************************************)
EXTENDS Naturals, FiniteSets

CONSTANTS
    Issuers,        \* concurrent GetVerifyCode calls
    Requests,       \* concurrent /user_register and /reset_pwd requests
    User,           \* the request of a user who does not give up
    None,           \* no lease
    MaxCodes,       \* bound: codes drawn
    MaxFaults,      \* bound: Redis, MySQL or mail commands that fail or do not return,
                    \* gate crashes
    MaxExpiries,    \* bound: codes and leases that time out while in use
    MaxOthers       \* bound: submissions other than that user's registration

ASSUME VerificationAssumption ==
    /\ User \in Requests /\ None \notin Requests
    /\ MaxCodes \in Nat \ {0}
    /\ MaxFaults \in Nat /\ MaxExpiries \in Nat /\ MaxOthers \in Nat

VARIABLES
    code,       \* Redis code_<email>: a code, 0 when absent
    drawn,      \* codes drawn so far
    inbox,      \* the code in the newest mail, 0 before the first
    lease,      \* Redis verification_lock_code_<email>: its owner
    account,    \* there is a row of users with this address
    issuer,     \* each GetVerifyCode call: its step and the code it holds
    request,    \* each request: its step, its operation and the code typed in
    pool,       \* pool[r]: the Redis pool of the gate that serves r
    faults, expiries, others,
    \* Ghost: per code, the account changes made with it, and those of them whose
    \* request was cut short (lease run out, answer lost, code not deleted).
    spent, cut,
    late        \* Ghost: requests under way whose lease ran out

redisVars == <<code, lease>>
counters == <<expiries, others>>
ghostVars == <<spent, cut, late>>
vars == <<code, drawn, inbox, lease, account, issuer, request, pool, faults, expiries,
          others, spent, cut, late>>

Codes == 1..MaxCodes
Operations == {"register", "reset"}
Steps == {"idle", "acquire", "check", "write", "delete", "release"}

\* The steps during which a VerificationLease object that acquired is alive.
Holding(r) == request[r].at \in {"check", "write", "delete", "release"}

CallTypes ==
    /\ code \in 0..MaxCodes /\ drawn \in 0..MaxCodes /\ inbox \in 0..MaxCodes
    /\ issuer \in [Issuers -> [at : {"idle", "set", "mail"}, code : 0..MaxCodes]]
RequestTypes ==
    /\ lease \in Requests \cup {None} /\ late \subseteq Requests
    /\ request \in [Requests -> [at : Steps, op : Operations, code : Codes]]
    /\ pool \in [Requests -> {"works", "silent", "stopped"}]
GhostTypes == spent \in [Codes -> Nat] /\ cut \in [Codes -> Nat]
BoundTypes ==
    /\ faults \in 0..MaxFaults /\ expiries \in 0..MaxExpiries
    /\ others \in 0..MaxOthers

\* Every variable keeps its type.
TypeOK == account \in BOOLEAN /\ CallTypes /\ RequestTypes /\ GhostTypes /\ BoundTypes

NoRequest == [at |-> "idle", op |-> "register", code |-> 1]

Init ==
    /\ code = 0 /\ drawn = 0 /\ inbox = 0 /\ lease = None /\ account = FALSE
    /\ issuer = [i \in Issuers |-> [at |-> "idle", code |-> 0]]
    /\ request = [r \in Requests |-> NoRequest]
    /\ pool = [r \in Requests |-> "works"]
    /\ faults = 0 /\ expiries = 0 /\ others = 0
    /\ spent = [c \in Codes |-> 0] /\ cut = [c \in Codes |-> 0] /\ late = {}

Fault == faults < MaxFaults /\ faults' = faults + 1

----------------------------------------------------------------------------
(* VerifyServer: GetVerifyCode.  Each await is a step.                      *)

IssuerGoes(i, step, c) == issuer' = [issuer EXCEPT ![i] = [at |-> step, code |-> c]]

Draw(i) ==
    /\ drawn < MaxCodes
    /\ drawn' = drawn + 1
    /\ IssuerGoes(i, "set", drawn + 1)

\* The gate's /get_verifycode passes the address on to VerifyServer, which reads
\* the code.  One still there is mailed again; none there, and also a read that
\* failed, which getValue turns into null, has a new one drawn.
GetValue(i) ==
    /\ issuer[i].at = "idle"
    /\ \/ code # 0 /\ IssuerGoes(i, "mail", code) /\ UNCHANGED <<drawn, faults>>
       \/ code = 0 /\ Draw(i) /\ UNCHANGED faults
       \/ Fault /\ Draw(i)
    /\ UNCHANGED <<redisVars, inbox, account, request, pool, counters, ghostVars>>

\* redis.setValueWithExpiration: SET ... EX over whatever is there.  A command
\* that failed may have been executed.
SetValue(i) ==
    /\ issuer[i].at = "set"
    /\ \/ /\ code' = issuer[i].code
          /\ IssuerGoes(i, "mail", issuer[i].code)
          /\ UNCHANGED faults
       \/ /\ Fault
          /\ code' \in {code, issuer[i].code}
          /\ IssuerGoes(i, "idle", 0)
    /\ UNCHANGED <<drawn, inbox, lease, account, request, pool, counters, ghostVars>>

\* email.sendEmail, then the answer.
SendEmail(i) ==
    /\ issuer[i].at = "mail"
    /\ \/ inbox' = issuer[i].code /\ UNCHANGED faults
       \/ Fault /\ UNCHANGED inbox
    /\ IssuerGoes(i, "idle", 0)
    /\ UNCHANGED <<redisVars, drawn, account, request, pool, counters, ghostVars>>

----------------------------------------------------------------------------
(* Gate: /user_register and /reset_pwd.                                     *)

\* Nothing is left of a request that was answered.
RequestGoes(r, step) ==
    request' = [request EXCEPT ![r] = IF step = "idle" THEN NoRequest ELSE [@ EXCEPT !.at = step]]

\* A Redis command of the gate is answered, be it late; it fails, executed or not, by which
\* the pool may lose its last connection; or a stopped pool lends no connection.
Answered(r) ==
    /\ pool[r] # "stopped"
    /\ pool' = [pool EXCEPT ![r] = "works"] /\ UNCHANGED faults
Failed(r) ==
    /\ pool[r] # "stopped" /\ Fault
    /\ pool' \in {pool, [pool EXCEPT ![r] = "stopped"]}
Refused(r) == pool[r] = "stopped" /\ UNCHANGED <<pool, faults>>

\* A form is sent with the code of the newest mail: by the user who has no
\* account yet, as often as he likes, or else at the expense of MaxOthers.  Slow
\* requests carry older codes; a made-up code takes the same path as those.
Submit(r, op) ==
    /\ request[r].at = "idle"
    /\ inbox # 0
    /\ \/ r = User /\ op = "register" /\ ~account /\ UNCHANGED others
       \/ others < MaxOthers /\ others' = others + 1
    /\ request' = [request EXCEPT ![r] = [at |-> "acquire", op |-> op, code |-> inbox]]
    /\ UNCHANGED <<redisVars, drawn, inbox, account, issuer, pool, faults, expiries, ghostVars>>

\* AcquireVerification: SET NX EX 60.  When the command fails the answer is
\* Unavailable and nothing will release what it may have set.
AcquireVerification(r) ==
    /\ request[r].at = "acquire"
    /\ \/ /\ lease = None /\ Answered(r)
          /\ lease' = r /\ RequestGoes(r, "check")
       \/ /\ lease # None /\ Answered(r)
          /\ RequestGoes(r, "idle") /\ UNCHANGED lease
       \/ /\ Failed(r)
          /\ lease' \in {lease} \cup (IF lease = None THEN {r} ELSE {})
          /\ RequestGoes(r, "idle")
       \/ Refused(r) /\ RequestGoes(r, "idle") /\ UNCHANGED lease
    /\ UNCHANGED <<code, drawn, inbox, account, issuer, counters, ghostVars>>

\* RedisMgr::Get of the code and its comparison with the one typed in; a failed
\* read is an absent code.
CheckCode(r) ==
    /\ request[r].at = "check"
    /\ \/ code = request[r].code /\ Answered(r) /\ RequestGoes(r, "write")
       \/ code # request[r].code /\ Answered(r) /\ RequestGoes(r, "release")
       \/ (Failed(r) \/ Refused(r)) /\ RequestGoes(r, "release")
    /\ UNCHANGED <<redisVars, drawn, inbox, account, issuer, counters, ghostVars>>

\* An account change with the request's code; `short' when nobody will delete
\* the code for it or its lease is gone already.
Spend(r, short) ==
    LET c == request[r].code IN
    /\ spent' = [spent EXCEPT ![c] = @ + 1]
    /\ cut' = [cut EXCEPT ![c] = @ + (IF short \/ r \in late THEN 1 ELSE 0)]

\* RegUser: the unique index on the address decides.  CheckEmail and UpdatePwd
\* need the row; they are one step since a row's id and address never change.
RegUserSucceeds == ~account
CheckEmailMatches == account
Possible(op) == IF op = "register" THEN RegUserSucceeds ELSE CheckEmailMatches

\* Faulty variant: the handler ends after the database, as if the code were no
\* one-time code.
WriteAccountOnly(r) ==
    /\ request[r].at = "write"
    /\ LET possible == Possible(request[r].op) IN
       \/ possible /\ account' = TRUE /\ Spend(r, FALSE)
       \/ ~possible /\ UNCHANGED <<account, spent, cut>>
    /\ RequestGoes(r, "release")
    /\ UNCHANGED <<redisVars, drawn, inbox, issuer, pool, faults, counters, late>>

\* What the database does for the request.  A failed statement may have been
\* executed: the code then stays.
WriteAccount(r) ==
    /\ request[r].at = "write"
    /\ LET possible == Possible(request[r].op) IN
       \/ /\ possible
          /\ account' = TRUE /\ Spend(r, FALSE)
          /\ RequestGoes(r, "delete") /\ UNCHANGED faults
       \/ /\ ~possible
          /\ RequestGoes(r, "release") /\ UNCHANGED <<account, spent, cut, faults>>
       \/ /\ Fault
          /\ \/ possible /\ account' = TRUE /\ Spend(r, TRUE)
             \/ UNCHANGED <<account, spent, cut>>
          /\ RequestGoes(r, "release")
    /\ UNCHANGED <<redisVars, drawn, inbox, issuer, pool, counters, late>>

CutShort(r) == cut' = [cut EXCEPT ![request[r].code] = @ + (IF r \in late THEN 0 ELSE 1)]

\* Del of the code, whichever code is stored by now.
DeleteCode(r) ==
    /\ request[r].at = "delete"
    /\ \/ Answered(r) /\ code' = 0 /\ UNCHANGED cut
       \/ Failed(r) /\ code' \in {code, 0} /\ CutShort(r)
       \/ Refused(r) /\ UNCHANGED code /\ CutShort(r)
    /\ RequestGoes(r, "release")
    /\ UNCHANGED <<drawn, inbox, lease, account, issuer, counters, spent, late>>

\* Faulty variant: DEL without comparing the owner.
ReleaseBlindly(r) ==
    /\ request[r].at = "release"
    /\ lease' = None
    /\ RequestGoes(r, "idle")
    /\ late' = late \ {r}
    /\ UNCHANGED <<code, drawn, inbox, account, issuer, pool, faults, counters, spent, cut>>

\* ~VerificationLease: compare and delete, its result ignored.
ReleaseVerification(r) ==
    /\ request[r].at = "release"
    /\ \/ Answered(r) /\ lease' = (IF lease = r THEN None ELSE lease)
       \/ (Failed(r) \/ Refused(r)) /\ UNCHANGED lease
    /\ RequestGoes(r, "idle")
    /\ late' = late \ {r}
    /\ UNCHANGED <<code, drawn, inbox, account, issuer, counters, spent, cut>>

----------------------------------------------------------------------------
(* Time and failure.                                                        *)

\* The three minutes of a code are over.
CodeExpires ==
    /\ code # 0 /\ expiries < MaxExpiries
    /\ code' = 0 /\ expiries' = expiries + 1
    /\ UNCHANGED <<drawn, inbox, lease, account, issuer, request, pool, faults, others, ghostVars>>

\* A Redis command, or the wait for a connection, does not return; it may yet be
\* answered, after any time, or never.
GoesSilent(r) ==
    /\ request[r].at \in {"acquire", "check", "delete", "release"} /\ pool[r] = "works"
    /\ Fault
    /\ pool' = [pool EXCEPT ![r] = "silent"]
    /\ UNCHANGED <<redisVars, drawn, inbox, account, issuer, request, counters, ghostVars>>

\* The 60 s of a lease are over while its request is still at work, or hangs.
LeaseRunsOut(r) ==
    /\ lease = r /\ Holding(r)
    /\ \/ expiries < MaxExpiries /\ expiries' = expiries + 1
       \/ pool[r] = "silent" /\ UNCHANGED expiries
    /\ lease' = None
    /\ late' = late \cup {r}
    /\ IF request[r].at = "delete" THEN CutShort(r) ELSE UNCHANGED cut
    /\ UNCHANGED <<code, drawn, inbox, account, issuer, request, pool, faults, others, spent>>

\* Faulty variant: a lease without a time limit (SET NX without EX).
AbandonedLeaseStays == FALSE /\ UNCHANGED vars

\* The 60 s of a lease nobody will release are over.
AbandonedLeaseExpires ==
    /\ lease # None /\ ~Holding(lease)
    /\ lease' = None
    /\ UNCHANGED <<code, drawn, inbox, account, issuer, request, pool, faults, counters, ghostVars>>

\* A gate process dies with the request; the next one finds a gate with a new pool.
GateCrashes(r) ==
    /\ Holding(r)
    /\ Fault
    /\ RequestGoes(r, "idle") /\ pool' = [pool EXCEPT ![r] = "works"]
    /\ IF request[r].at = "delete" THEN CutShort(r) ELSE UNCHANGED cut
    /\ late' = late \ {r}
    /\ UNCHANGED <<redisVars, drawn, inbox, account, issuer, counters, spent>>

----------------------------------------------------------------------------
IssuerStep(i) == SetValue(i) \/ SendEmail(i)
RequestStep(r) ==
    \/ AcquireVerification(r) \/ CheckCode(r) \/ WriteAccount(r)
    \/ DeleteCode(r) \/ ReleaseVerification(r)

Next ==
    \/ \E i \in Issuers : GetValue(i) \/ IssuerStep(i)
    \/ \E r \in Requests :
          \/ \E op \in Operations : Submit(r, op)
          \/ RequestStep(r) \/ GoesSilent(r) \/ LeaseRunsOut(r) \/ GateCrashes(r)
    \/ CodeExpires \/ AbandonedLeaseExpires

Spec == Init /\ [][Next]_vars

\* The lease ends that nobody will release, or whose request hangs.
LeaseEnds ==
    AbandonedLeaseExpires \/ \E r \in Requests : pool[r] = "silent" /\ LeaseRunsOut(r)

\* Calls go on, since the commands of VerifyServer's client, which reconnects by
\* itself, and its mails are assumed to succeed or fail in the end; requests go on
\* unless their gate hears nothing from Redis; leases end; and a user without an
\* account goes on asking for codes and sending the newest.
Fairness ==
    /\ \A i \in Issuers : WF_vars(IssuerStep(i))
    /\ \A r \in Requests : WF_vars(pool[r] # "silent" /\ RequestStep(r))
    /\ WF_vars(LeaseEnds)
    /\ WF_vars(~account /\ \E i \in Issuers : GetValue(i))
    /\ SF_vars(~account /\ Submit(User, "register"))

----------------------------------------------------------------------------
\* A code makes one change to the account.  It can make another only for a
\* request that was cut short: the lease ran out under it, the answer of the
\* database was lost, or the code could not be deleted.
CodeSpentOnce == \A c \in Codes : spent[c] <= 1 + cut[c]

\* A request at work has the lease to itself until its time is over.
HolderKeepsLease ==
    \A r \in Requests : Holding(r) /\ lease # r => r \in late

\* Whatever a failing command, a crash or a time limit leaves behind, and also a
\* request that hangs under the lease at another gate, a user who keeps asking for
\* codes and sending the newest gets an account; unless the Redis pool of his own
\* gate hangs or has stopped for good, from which that gate does not recover.
RegistrationSucceeds == <>account \/ <>[](pool[User] # "works")
=============================================================================
