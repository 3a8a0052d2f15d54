-------------------------- MODULE VerificationProofs --------------------------
(****************************************************************************)
(* Theorems about Verification: for any number of calls, requests, codes,   *)
(* failures and expiries the lease keeps requests apart while its time is   *)
(* not over, and a code is spent once unless a request was cut short, for   *)
(* which a failure or a timeout is needed.                                  *)
(****************************************************************************)
EXTENDS Verification, TLAPS

\* A request is known to be late only while it is at work, and then some other
\* request, or nobody, has the lease.
LateHaveLost == \A r \in late : Holding(r) /\ lease # r

\* Codes are drawn one after the other, so that a code waiting to be stored is
\* waiting in one call only.
SetCodesDiffer ==
    \A i \in Issuers : issuer[i].at = "set" =>
        /\ issuer[i].code \in 1..drawn
        /\ \A j \in Issuers : issuer[j].at = "set" /\ issuer[j].code = issuer[i].code => j = i

\* A code that has not reached Redis: not drawn yet, or waiting to be stored.
Unused(c) == c > drawn \/ \E i \in Issuers : issuer[i].at = "set" /\ issuer[i].code = c

\* No request has got past the comparison with a code that has not reached Redis.
UnusedIsUnspent ==
    \A c \in Codes : Unused(c) =>
        /\ code # c /\ spent[c] = 0
        /\ \A r \in Requests : request[r].at \in {"write", "delete"} => request[r].code # c

\* A request that is about to delete the code c, within the time of its lease.
DeletesInTime(c) ==
    \E r \in Requests : request[r].at = "delete" /\ request[r].code = c /\ r \notin late

\* Nothing can be done with c any more, except by requests whose time is over.
Gone(c) ==
    /\ code # c
    /\ \A r \in Requests : request[r].at = "write" /\ request[r].code = c => r \in late

\* A code that was spent, and not by a request that was cut short, is about to be
\* deleted under the lease or is gone.
SpentIsGone == \A c \in Codes : spent[c] = 1 + cut[c] => DeletesInTime(c) \/ Gone(c)

\* The inductive invariant.
VerificationInv ==
    /\ TypeOK /\ HolderKeepsLease /\ LateHaveLost
    /\ SetCodesDiffer /\ UnusedIsUnspent /\ SpentIsGone /\ CodeSpentOnce

-----------------------------------------------------------------------------
(* What the steps of calls and requests do.                                 *)

\* IssuerGoes moves one call.
LEMMA CallMoves ==
  ASSUME CallTypes, NEW i \in Issuers, NEW c \in 0..MaxCodes,
         NEW step \in {"idle", "set", "mail"}, IssuerGoes(i, step, c)
  PROVE  /\ issuer' \in [Issuers -> [at : {"idle", "set", "mail"}, code : 0..MaxCodes]]
         /\ issuer'[i].at = step /\ issuer'[i].code = c
         /\ \A j \in Issuers \ {i} : issuer'[j] = issuer[j]
  BY DEF CallTypes, IssuerGoes

\* RequestGoes moves one request, which keeps what it asks for until its answer.
LEMMA RequestMoves ==
  ASSUME RequestTypes, NEW r \in Requests, NEW step \in Steps, RequestGoes(r, step)
  PROVE  /\ request' \in [Requests -> [at : Steps, op : Operations, code : Codes]]
         /\ request'[r].at = step
         /\ step # "idle" => request'[r].code = request[r].code
         /\ \A q \in Requests \ {r} : request'[q] = request[q]
<1>1. NoRequest \in [at : Steps, op : Operations, code : Codes] /\ NoRequest.at = "idle"
  BY VerificationAssumption DEF NoRequest, Steps, Operations, Codes
<1>2. CASE step = "idle"
  BY <1>1, <1>2 DEF RequestTypes, RequestGoes
<1>3. CASE step # "idle"
  BY <1>3 DEF RequestTypes, RequestGoes
<1>. QED  BY <1>2, <1>3

\* Spend counts one change of the account for the code of the request.
LEMMA Spends ==
  ASSUME RequestTypes, GhostTypes, NEW r \in Requests, NEW short \in BOOLEAN, Spend(r, short)
  PROVE  /\ GhostTypes'
         /\ spent'[request[r].code] = spent[request[r].code] + 1
         /\ cut'[request[r].code] =
              cut[request[r].code] + (IF short \/ r \in late THEN 1 ELSE 0)
         /\ \A c \in Codes \ {request[r].code} : spent'[c] = spent[c] /\ cut'[c] = cut[c]
  BY DEF RequestTypes, GhostTypes, Spend

\* CutShort counts a request that was cut short once.
LEMMA Cuts ==
  ASSUME RequestTypes, GhostTypes, NEW r \in Requests, CutShort(r)
  PROVE  /\ cut' \in [Codes -> Nat]
         /\ cut'[request[r].code] = cut[request[r].code] + (IF r \in late THEN 0 ELSE 1)
         /\ \A c \in Codes \ {request[r].code} : cut'[c] = cut[c]
  BY DEF RequestTypes, GhostTypes, CutShort

\* A call leaves the lease, the requests and the account alone.
LEMMA CallFrame ==
  ASSUME NEW i \in Issuers, GetValue(i) \/ IssuerStep(i)
  PROVE  UNCHANGED <<lease, account, request, pool, expiries, others, spent, cut, late>>
  BY DEF GetValue, IssuerStep, SetValue, SendEmail, redisVars, counters, ghostVars

\* What a request does while it is under way, and what may happen to it.
RequestAction(r) == RequestStep(r) \/ GoesSilent(r) \/ LeaseRunsOut(r) \/ GateCrashes(r)

\* A request leaves the calls and the mail alone; it stores no code.
LEMMA RequestFrame ==
  ASSUME NEW r \in Requests, RequestAction(r)
  PROVE  UNCHANGED <<drawn, inbox, issuer, others>> /\ code' \in {code, 0}
  BY DEF RequestAction, RequestStep, AcquireVerification, CheckCode, WriteAccount,
         DeleteCode, ReleaseVerification, GoesSilent, LeaseRunsOut, GateCrashes, redisVars,
         counters

\* A request moves alone and keeps its code until its answer.
LEMMA RequestActionMoves ==
  ASSUME RequestTypes, NEW r \in Requests, RequestAction(r)
  PROVE  /\ request' \in [Requests -> [at : Steps, op : Operations, code : Codes]]
         /\ request'[r].at # "idle" => request'[r].code = request[r].code
         /\ \A q \in Requests \ {r} : request'[q] = request[q]
<1>1. \/ \E step \in Steps : RequestGoes(r, step)
      \/ UNCHANGED request
  BY DEF RequestAction, RequestStep, AcquireVerification, CheckCode, WriteAccount,
         DeleteCode, ReleaseVerification, GoesSilent, LeaseRunsOut, GateCrashes, Steps
<1>2. CASE UNCHANGED request
  BY <1>2 DEF RequestTypes
<1>3. ASSUME NEW step \in Steps, RequestGoes(r, step)
      PROVE  /\ request' \in [Requests -> [at : Steps, op : Operations, code : Codes]]
             /\ request'[r].at # "idle" => request'[r].code = request[r].code
             /\ \A q \in Requests \ {r} : request'[q] = request[q]
  BY <1>3, RequestMoves
<1>. QED  BY <1>1, <1>2, <1>3

\* A request changes the state of its own gate's pool only.
LEMMA PoolMoves ==
  ASSUME RequestTypes, NEW r \in Requests, RequestAction(r)
  PROVE  pool' \in [Requests -> {"works", "silent", "stopped"}]
<1>1. \/ UNCHANGED pool
      \/ \E new \in {"works", "silent", "stopped"} : pool' = [pool EXCEPT ![r] = new]
  BY DEF RequestAction, RequestStep, AcquireVerification, CheckCode, WriteAccount,
         DeleteCode, ReleaseVerification, GoesSilent, LeaseRunsOut, GateCrashes,
         Answered, Failed, Refused
<1>. QED  BY <1>1 DEF RequestTypes

-----------------------------------------------------------------------------
(* Types.                                                                   *)

LEMMA TypeStep ==
  ASSUME TypeOK, [Next]_vars
  PROVE  TypeOK'
<1>1. CallTypes'
  <2>1. ASSUME NEW i \in Issuers, GetValue(i) PROVE CallTypes'
    BY <2>1, CallMoves, VerificationAssumption
       DEF TypeOK, CallTypes, GetValue, Draw, redisVars
  <2>2. ASSUME NEW i \in Issuers, SetValue(i) PROVE CallTypes'
    BY <2>2, CallMoves, VerificationAssumption DEF TypeOK, CallTypes, SetValue
  <2>3. ASSUME NEW i \in Issuers, SendEmail(i) PROVE CallTypes'
    BY <2>3, CallMoves, VerificationAssumption DEF TypeOK, CallTypes, SendEmail, redisVars
  <2>4. ASSUME NEW r \in Requests, RequestAction(r) PROVE CallTypes'
    BY <2>4, RequestFrame, VerificationAssumption DEF TypeOK, CallTypes
  <2>5. CASE \/ \E r \in Requests, op \in Operations : Submit(r, op)
             \/ AbandonedLeaseExpires \/ UNCHANGED vars
    BY <2>5 DEF TypeOK, CallTypes, Submit, AbandonedLeaseExpires, vars, redisVars
  <2>6. CASE CodeExpires
    BY <2>6, VerificationAssumption DEF TypeOK, CallTypes, CodeExpires
  <2>. QED
    BY <2>1, <2>2, <2>3, <2>4, <2>5, <2>6 DEF Next, IssuerStep, RequestAction
<1>2. RequestTypes'
  <2>1. ASSUME NEW i \in Issuers, GetValue(i) \/ IssuerStep(i) PROVE RequestTypes'
    BY <2>1, CallFrame DEF TypeOK, RequestTypes
  <2>2. ASSUME NEW r \in Requests, RequestAction(r) PROVE RequestTypes'
    <3>1. lease' \in Requests \cup {None} /\ late' \subseteq Requests
      BY <2>2 DEF TypeOK, RequestTypes, RequestAction, RequestStep, AcquireVerification,
           CheckCode, WriteAccount, DeleteCode, ReleaseVerification, GoesSilent,
           LeaseRunsOut, GateCrashes, redisVars, ghostVars
    <3>. QED  BY <2>2, <3>1, RequestActionMoves, PoolMoves DEF TypeOK, RequestTypes
  <2>3. ASSUME NEW r \in Requests, NEW op \in Operations, Submit(r, op)
        PROVE  RequestTypes'
    BY <2>3, VerificationAssumption
       DEF TypeOK, CallTypes, RequestTypes, Submit, redisVars, ghostVars, Codes, Steps
  <2>4. CASE CodeExpires \/ AbandonedLeaseExpires \/ UNCHANGED vars
    BY <2>4 DEF TypeOK, RequestTypes, CodeExpires, AbandonedLeaseExpires, ghostVars, vars
  <2>. QED  BY <2>1, <2>2, <2>3, <2>4 DEF Next, RequestAction
<1>3. GhostTypes'
  <2>1. ASSUME NEW i \in Issuers, GetValue(i) \/ IssuerStep(i) PROVE GhostTypes'
    BY <2>1, CallFrame DEF TypeOK, GhostTypes
  <2>2. ASSUME NEW r \in Requests, WriteAccount(r) PROVE GhostTypes'
    <3>1. CASE UNCHANGED <<spent, cut>>
      BY <3>1 DEF TypeOK, GhostTypes
    <3>2. ASSUME NEW short \in BOOLEAN, Spend(r, short) PROVE GhostTypes'
      BY <3>2, Spends DEF TypeOK
    <3>. QED  BY <2>2, <3>1, <3>2 DEF WriteAccount
  <2>3. ASSUME NEW r \in Requests, DeleteCode(r) \/ LeaseRunsOut(r) \/ GateCrashes(r)
        PROVE  GhostTypes'
    <3>1. UNCHANGED spent /\ (UNCHANGED cut \/ CutShort(r))
      BY <2>3 DEF DeleteCode, LeaseRunsOut, GateCrashes
    <3>. QED  BY <3>1, Cuts DEF TypeOK, GhostTypes
  <2>4. CASE \/ \E r \in Requests, op \in Operations : Submit(r, op)
             \/ \E r \in Requests : \/ AcquireVerification(r) \/ CheckCode(r)
                                    \/ ReleaseVerification(r) \/ GoesSilent(r)
             \/ CodeExpires \/ AbandonedLeaseExpires \/ UNCHANGED vars
    BY <2>4 DEF TypeOK, GhostTypes, Submit, AcquireVerification, CheckCode,
         ReleaseVerification, GoesSilent, CodeExpires, AbandonedLeaseExpires, ghostVars, vars
  <2>. QED  BY <2>1, <2>2, <2>3, <2>4 DEF Next, RequestStep
<1>4. BoundTypes'
  <2>1. faults' \in 0..MaxFaults
    <3>1. UNCHANGED faults \/ Fault
      BY DEF Next, vars, GetValue, IssuerStep, SetValue, SendEmail, Submit, RequestStep,
           AcquireVerification, CheckCode, WriteAccount, DeleteCode, ReleaseVerification,
           GoesSilent, LeaseRunsOut, GateCrashes, CodeExpires, AbandonedLeaseExpires,
           Answered, Failed, Refused
    <3>. QED  BY <3>1, VerificationAssumption DEF TypeOK, BoundTypes, Fault
  <2>2. expiries' \in 0..MaxExpiries
    <3>1. UNCHANGED expiries \/ (expiries < MaxExpiries /\ expiries' = expiries + 1)
      BY DEF Next, vars, counters, GetValue, IssuerStep, SetValue, SendEmail, Submit,
           RequestStep, AcquireVerification, CheckCode, WriteAccount, DeleteCode,
           ReleaseVerification, GoesSilent, LeaseRunsOut, GateCrashes, CodeExpires,
           AbandonedLeaseExpires
    <3>. QED  BY <3>1, VerificationAssumption DEF TypeOK, BoundTypes
  <2>3. others' \in 0..MaxOthers
    <3>1. UNCHANGED others \/ (others < MaxOthers /\ others' = others + 1)
      BY DEF Next, vars, counters, GetValue, IssuerStep, SetValue, SendEmail, Submit,
           RequestStep, AcquireVerification, CheckCode, WriteAccount, DeleteCode,
           ReleaseVerification, GoesSilent, LeaseRunsOut, GateCrashes, CodeExpires,
           AbandonedLeaseExpires
    <3>. QED  BY <3>1, VerificationAssumption DEF TypeOK, BoundTypes
  <2>. QED  BY <2>1, <2>2, <2>3 DEF BoundTypes
<1>5. account' \in BOOLEAN
  <2>1. UNCHANGED account \/ account' = TRUE
    BY DEF Next, vars, GetValue, IssuerStep, SetValue, SendEmail, Submit, RequestStep,
         AcquireVerification, CheckCode, WriteAccount, DeleteCode, ReleaseVerification,
         GoesSilent, LeaseRunsOut, GateCrashes, CodeExpires, AbandonedLeaseExpires
  <2>. QED  BY <2>1 DEF TypeOK
<1>. QED  BY <1>1, <1>2, <1>3, <1>4, <1>5 DEF TypeOK

-----------------------------------------------------------------------------
(* The lease.                                                               *)

LEMMA LeaseStep ==
  ASSUME TypeOK, HolderKeepsLease, LateHaveLost, [Next]_vars
  PROVE  (HolderKeepsLease /\ LateHaveLost)'
<1>. USE DEF HolderKeepsLease, LateHaveLost, Holding
<1>0. RequestTypes
  BY DEF TypeOK
<1>1. ASSUME NEW i \in Issuers, GetValue(i) \/ IssuerStep(i)
      PROVE  (HolderKeepsLease /\ LateHaveLost)'
  BY <1>1, CallFrame
<1>2. ASSUME NEW r \in Requests, NEW op \in Operations, Submit(r, op)
      PROVE  (HolderKeepsLease /\ LateHaveLost)'
  BY <1>0, <1>2 DEF RequestTypes, Submit, redisVars, ghostVars
<1>3. ASSUME NEW r \in Requests, AcquireVerification(r)
      PROVE  (HolderKeepsLease /\ LateHaveLost)'
  <2>1. /\ request[r].at = "acquire" /\ UNCHANGED late
        /\ lease' = lease \/ (lease = None /\ lease' = r)
        /\ RequestGoes(r, "idle") \/ (RequestGoes(r, "check") /\ lease' = r)
    BY <1>3 DEF AcquireVerification, ghostVars
  <2>2. /\ request'[r].at = "idle" \/ (request'[r].at = "check" /\ lease' = r)
        /\ \A q \in Requests \ {r} : request'[q] = request[q]
    BY <1>0, <2>1, RequestMoves DEF Steps
  <2>3. None \notin Requests /\ late \subseteq Requests
    BY <1>0, VerificationAssumption DEF RequestTypes
  <2>. QED  BY <2>1, <2>2, <2>3
<1>4. ASSUME NEW r \in Requests, CheckCode(r)
      PROVE  (HolderKeepsLease /\ LateHaveLost)'
  BY <1>0, <1>4, RequestMoves DEF RequestTypes, CheckCode, redisVars, ghostVars, Steps
<1>5. ASSUME NEW r \in Requests, WriteAccount(r)
      PROVE  (HolderKeepsLease /\ LateHaveLost)'
  BY <1>0, <1>5, RequestMoves DEF RequestTypes, WriteAccount, redisVars, Steps
<1>6. ASSUME NEW r \in Requests, DeleteCode(r)
      PROVE  (HolderKeepsLease /\ LateHaveLost)'
  BY <1>0, <1>6, RequestMoves DEF RequestTypes, DeleteCode, Steps
<1>7. ASSUME NEW r \in Requests, ReleaseVerification(r)
      PROVE  (HolderKeepsLease /\ LateHaveLost)'
  BY <1>0, <1>7, RequestMoves, VerificationAssumption
     DEF RequestTypes, ReleaseVerification, Steps
<1>8. ASSUME NEW r \in Requests, LeaseRunsOut(r)
      PROVE  (HolderKeepsLease /\ LateHaveLost)'
  BY <1>0, <1>8, VerificationAssumption DEF RequestTypes, LeaseRunsOut
<1>9. ASSUME NEW r \in Requests, GateCrashes(r)
      PROVE  (HolderKeepsLease /\ LateHaveLost)'
  BY <1>0, <1>9, RequestMoves DEF RequestTypes, GateCrashes, redisVars, Steps
<1>10. CASE \/ \E r \in Requests : GoesSilent(r)
            \/ CodeExpires \/ UNCHANGED vars
  BY <1>10 DEF GoesSilent, CodeExpires, redisVars, ghostVars, vars
<1>11. CASE AbandonedLeaseExpires
  BY <1>0, <1>11, VerificationAssumption DEF RequestTypes, AbandonedLeaseExpires, ghostVars
<1>. QED
  BY <1>1, <1>2, <1>3, <1>4, <1>5, <1>6, <1>7, <1>8, <1>9, <1>10, <1>11
     DEF Next, RequestStep

-----------------------------------------------------------------------------
(* Codes that have not reached Redis.                                       *)

\* Only the calls draw and store codes.
LEMMA OthersFrame ==
  ASSUME \/ \E r \in Requests : RequestAction(r) \/ \E op \in Operations : Submit(r, op)
         \/ CodeExpires \/ AbandonedLeaseExpires \/ UNCHANGED vars
  PROVE  UNCHANGED <<drawn, issuer>> /\ code' \in {code, 0}
  BY RequestFrame DEF Submit, CodeExpires, AbandonedLeaseExpires, redisVars, vars

\* A call that has drawn its code draws no other.
LEMMA StepsOnceDrawn ==
  ASSUME CallTypes, NEW i \in Issuers, IssuerStep(i)
  PROVE  /\ UNCHANGED drawn /\ issuer'[i].at # "set"
         /\ \A j \in Issuers \ {i} : issuer'[j] = issuer[j]
<1>1. 0 \in 0..MaxCodes /\ issuer[i].code \in 0..MaxCodes
  BY VerificationAssumption DEF CallTypes
<1>2. UNCHANGED drawn /\ \/ IssuerGoes(i, "mail", issuer[i].code)
                         \/ IssuerGoes(i, "idle", 0)
  BY DEF IssuerStep, SetValue, SendEmail
<1>. QED  BY <1>1, <1>2, CallMoves

LEMMA DrawStep ==
  ASSUME TypeOK, SetCodesDiffer, [Next]_vars
  PROVE  SetCodesDiffer'
<1>0. CallTypes
  BY DEF TypeOK
<1>1. ASSUME NEW i \in Issuers, GetValue(i) PROVE SetCodesDiffer'
  <2>1. CASE IssuerGoes(i, "mail", code) /\ UNCHANGED drawn
    BY <1>0, <2>1, CallMoves DEF CallTypes, SetCodesDiffer
  <2>2. CASE Draw(i)
    BY <1>0, <2>2, CallMoves, VerificationAssumption DEF CallTypes, SetCodesDiffer, Draw
  <2>. QED  BY <1>1, <2>1, <2>2 DEF GetValue
<1>2. ASSUME NEW i \in Issuers, IssuerStep(i) PROVE SetCodesDiffer'
  BY <1>0, <1>2, StepsOnceDrawn DEF SetCodesDiffer
<1>3. CASE \/ \E r \in Requests : RequestAction(r) \/ \E op \in Operations : Submit(r, op)
           \/ CodeExpires \/ AbandonedLeaseExpires \/ UNCHANGED vars
  BY <1>3, OthersFrame DEF SetCodesDiffer
<1>. QED  BY <1>1, <1>2, <1>3 DEF Next, RequestAction

\* A code stays unspent while it has not reached Redis, if no request gets past a
\* comparison that fails and no account changes with such a code.
LEMMA UnusedKept ==
  ASSUME UnusedIsUnspent, UNCHANGED <<drawn, issuer>>, code' \in {code, 0},
         \A c \in Codes : Unused(c) => spent'[c] = spent[c],
         \A r \in Requests : request'[r].at \in {"write", "delete"} =>
            /\ request'[r].code = request[r].code
            /\ request[r].at \in {"write", "delete"} \/ code = request[r].code
  PROVE  UnusedIsUnspent'
<1> SUFFICES ASSUME NEW c \in Codes, Unused(c)'
             PROVE  /\ code' # c /\ spent'[c] = 0
                    /\ \A r \in Requests : request'[r].at \in {"write", "delete"} =>
                                             request'[r].code # c
  BY DEF UnusedIsUnspent
<1>1. Unused(c)
  BY DEF Unused
<1>2. c # 0
  BY VerificationAssumption DEF Codes
<1>. QED  BY <1>1, <1>2 DEF UnusedIsUnspent

LEMMA UnusedStep ==
  ASSUME TypeOK, SetCodesDiffer, UnusedIsUnspent, [Next]_vars
  PROVE  UnusedIsUnspent'
<1>0. CallTypes /\ RequestTypes /\ GhostTypes
  BY DEF TypeOK
<1>1. ASSUME NEW i \in Issuers, GetValue(i) PROVE UnusedIsUnspent'
  <2>1. UNCHANGED <<code, request, spent>>
    BY <1>1, CallFrame DEF GetValue, redisVars
  <2>2. ASSUME NEW c \in Codes, Unused(c)' PROVE Unused(c)
    <3>1. CASE IssuerGoes(i, "mail", code) /\ UNCHANGED drawn
      BY <1>0, <2>2, <3>1, CallMoves DEF CallTypes, Unused
    <3>2. CASE Draw(i)
      BY <1>0, <2>2, <3>2, CallMoves, VerificationAssumption
         DEF CallTypes, Unused, Draw, Codes
    <3>. QED  BY <1>1, <3>1, <3>2 DEF GetValue
  <2>. QED  BY <2>1, <2>2 DEF UnusedIsUnspent
<1>2. ASSUME NEW i \in Issuers, IssuerStep(i) PROVE UnusedIsUnspent'
  <2>1. UNCHANGED <<drawn, request, spent>>
    BY <1>2, CallFrame DEF IssuerStep, SetValue, SendEmail
  <2>2. code' = code \/ (issuer[i].at = "set" /\ code' = issuer[i].code)
    BY <1>2 DEF IssuerStep, SetValue, SendEmail, redisVars
  <2>3. issuer'[i].at # "set" /\ \A j \in Issuers \ {i} : issuer'[j] = issuer[j]
    BY <1>0, <1>2, StepsOnceDrawn
  <2>4. ASSUME NEW c \in Codes, Unused(c)'
        PROVE  Unused(c) /\ ~(issuer[i].at = "set" /\ issuer[i].code = c)
    BY <1>0, <2>1, <2>3, <2>4, VerificationAssumption
       DEF CallTypes, Unused, SetCodesDiffer, Codes
  <2>. QED  BY <2>1, <2>2, <2>4 DEF UnusedIsUnspent
<1>3. ASSUME NEW r \in Requests, WriteAccount(r) PROVE UnusedIsUnspent'
  <2>1. \A c \in Codes \ {request[r].code} : spent'[c] = spent[c]
    BY <1>0, <1>3, Spends DEF WriteAccount
  <2>2. \A c \in Codes : Unused(c) => request[r].code # c
    BY <1>3 DEF UnusedIsUnspent, WriteAccount
  <2>3. request[r].at = "write" /\ RequestAction(r)
    BY <1>3 DEF WriteAccount, RequestAction, RequestStep
  <2>. QED  BY <1>0, <2>1, <2>2, <2>3, OthersFrame, RequestActionMoves, UnusedKept
<1>4. ASSUME NEW r \in Requests, CheckCode(r) PROVE UnusedIsUnspent'
  <2>1. RequestAction(r) /\ UNCHANGED spent
    BY <1>4 DEF CheckCode, RequestAction, RequestStep, ghostVars
  <2>2. request'[r].at = "write" => code = request[r].code
    BY <1>0, <1>4, RequestMoves DEF CheckCode, Steps
  <2>3. request'[r].at # "delete"
    BY <1>0, <1>4, RequestMoves DEF CheckCode, Steps
  <2>. QED  BY <1>0, <2>1, <2>2, <2>3, OthersFrame, RequestActionMoves, UnusedKept
<1>5. ASSUME NEW r \in Requests,
             \/ AcquireVerification(r) \/ DeleteCode(r) \/ ReleaseVerification(r)
             \/ GoesSilent(r) \/ LeaseRunsOut(r) \/ GateCrashes(r)
      PROVE  UnusedIsUnspent'
  <2>1. RequestAction(r) /\ UNCHANGED spent
    BY <1>5 DEF AcquireVerification, DeleteCode, ReleaseVerification, GoesSilent,
         LeaseRunsOut, GateCrashes, RequestAction, RequestStep, ghostVars
  <2>2. request' = request \/ request'[r].at \notin {"write", "delete"}
    BY <1>0, <1>5, RequestMoves DEF AcquireVerification, DeleteCode, ReleaseVerification,
         GoesSilent, LeaseRunsOut, GateCrashes, Steps
  <2>. QED  BY <1>0, <2>1, <2>2, OthersFrame, RequestActionMoves, UnusedKept
<1>6. ASSUME NEW r \in Requests, NEW op \in Operations, Submit(r, op)
      PROVE  UnusedIsUnspent'
  <2>1. UNCHANGED spent /\ \A q \in Requests :
           request'[q].at \in {"write", "delete"} => request'[q] = request[q]
    BY <1>0, <1>6 DEF RequestTypes, Submit, ghostVars
  <2>. QED  BY <1>6, <2>1, OthersFrame, UnusedKept
<1>7. CASE CodeExpires \/ AbandonedLeaseExpires \/ UNCHANGED vars
  <2>1. UNCHANGED <<spent, request>>
    BY <1>7 DEF CodeExpires, AbandonedLeaseExpires, ghostVars, vars
  <2>. QED  BY <1>7, <2>1, OthersFrame, UnusedKept
<1>. QED  BY <1>1, <1>2, <1>3, <1>4, <1>5, <1>6, <1>7 DEF Next, RequestStep

-----------------------------------------------------------------------------
(* Codes that were spent.                                                   *)

\* A code that was spent stays about to be deleted, or gone.
LEMMA SpentKept ==
  ASSUME SpentIsGone, NEW c \in Codes,
         spent'[c] = 1 + cut'[c] => spent[c] = 1 + cut[c],
         code' = code \/ code' # c,
         \A q \in Requests : request[q].at = "delete" /\ request[q].code = c /\ q \notin late =>
            request'[q].at = "delete" /\ request'[q].code = c /\ q \notin late',
         \A q \in Requests : request'[q].at = "write" /\ request'[q].code = c /\ q \notin late' =>
            request[q].at = "write" /\ request[q].code = c /\ q \notin late
  PROVE  spent'[c] = 1 + cut'[c] => (DeletesInTime(c) \/ Gone(c))'
<1> SUFFICES ASSUME spent[c] = 1 + cut[c] PROVE (DeletesInTime(c) \/ Gone(c))'
  OBVIOUS
<1>1. CASE DeletesInTime(c)
  BY <1>1 DEF DeletesInTime
<1>2. CASE Gone(c)
  BY <1>2 DEF Gone
<1>. QED  BY <1>1, <1>2 DEF SpentIsGone

\* Two requests within the time of their leases are the same request.
LEMMA OneInTime ==
  ASSUME HolderKeepsLease, NEW q \in Requests, NEW r \in Requests,
         Holding(q), Holding(r), q \notin late, r \notin late
  PROVE  q = r
  BY DEF HolderKeepsLease

\* WriteAccount is safe: whoever writes in time finds the code not yet spent.
LEMMA WriteFindsUnspent ==
  ASSUME HolderKeepsLease, SpentIsGone, RequestTypes, GhostTypes, CodeSpentOnce,
         NEW r \in Requests, request[r].at = "write", r \notin late
  PROVE  spent[request[r].code] <= cut[request[r].code]
<1>. DEFINE c == request[r].code
<1>1. c \in Codes /\ spent[c] \in Nat /\ cut[c] \in Nat
  BY DEF RequestTypes, GhostTypes
<1>2. ~Gone(c)
  BY DEF Gone
<1>3. ~DeletesInTime(c)
  BY OneInTime DEF DeletesInTime, Holding
<1>4. spent[c] # 1 + cut[c]
  BY <1>1, <1>2, <1>3 DEF SpentIsGone
<1>. QED  BY <1>1, <1>4 DEF CodeSpentOnce

LEMMA SpentStep ==
  ASSUME VerificationInv, [Next]_vars
  PROVE  (SpentIsGone /\ CodeSpentOnce)'
<1> SUFFICES ASSUME NEW c \in Codes
             PROVE  /\ spent'[c] = 1 + cut'[c] => (DeletesInTime(c) \/ Gone(c))'
                    /\ spent'[c] <= 1 + cut'[c]
  BY DEF SpentIsGone, CodeSpentOnce
<1>. DEFINE Kept == /\ spent'[c] = 1 + cut'[c] => (DeletesInTime(c) \/ Gone(c))'
                    /\ spent'[c] <= 1 + cut'[c]
<1>0. /\ RequestTypes /\ GhostTypes /\ SpentIsGone /\ c # 0
      /\ spent[c] \in Nat /\ cut[c] \in Nat /\ spent[c] <= 1 + cut[c]
  BY VerificationAssumption DEF VerificationInv, TypeOK, GhostTypes, CodeSpentOnce, Codes
<1>1. ASSUME NEW i \in Issuers, GetValue(i) \/ IssuerStep(i) PROVE Kept
  <2>1. UNCHANGED <<request, spent, cut, late>>
    BY <1>1, CallFrame
  <2>2. code' = code \/ (issuer[i].at = "set" /\ code' = issuer[i].code)
    BY <1>1 DEF GetValue, IssuerStep, SetValue, SendEmail, redisVars
  <2>3. spent[c] = 1 + cut[c] => ~Unused(c)
    BY <1>0 DEF VerificationInv, UnusedIsUnspent
  <2>4. CASE spent[c] = 1 + cut[c]
    <3>1. code' = code \/ code' # c
      BY <2>2, <2>3, <2>4 DEF Unused
    <3>. QED  BY <1>0, <2>1, <3>1, SpentKept
  <2>. QED  BY <1>0, <2>1, <2>4
<1>2. ASSUME NEW r \in Requests, NEW op \in Operations, Submit(r, op) PROVE Kept
  <2>1. UNCHANGED <<code, spent, cut, late>>
    BY <1>2 DEF Submit, redisVars, ghostVars
  <2>2. /\ request[r].at = "idle" /\ request'[r].at = "acquire"
        /\ \A q \in Requests \ {r} : request'[q] = request[q]
    BY <1>0, <1>2 DEF RequestTypes, Submit
  <2>. QED  BY <1>0, <2>1, <2>2, SpentKept
<1>3. ASSUME NEW r \in Requests, AcquireVerification(r) PROVE Kept
  <2>1. UNCHANGED <<code, spent, cut, late>> /\ request[r].at = "acquire"
    BY <1>3 DEF AcquireVerification, ghostVars
  <2>2. /\ request'[r].at \in {"idle", "check"}
        /\ \A q \in Requests \ {r} : request'[q] = request[q]
    BY <1>0, <1>3, RequestMoves DEF AcquireVerification, Steps
  <2>. QED  BY <1>0, <2>1, <2>2, SpentKept
<1>4. ASSUME NEW r \in Requests, CheckCode(r) PROVE Kept
  <2>1. UNCHANGED <<code, spent, cut, late>> /\ request[r].at = "check"
    BY <1>4 DEF CheckCode, redisVars, ghostVars
  <2>2. /\ request'[r].at \in {"write", "release"} /\ request'[r].code = request[r].code
        /\ \A q \in Requests \ {r} : request'[q] = request[q]
    BY <1>0, <1>4, RequestMoves DEF CheckCode, Steps
  <2>3. request'[r].at = "write" => code = request[r].code
    BY <1>0, <1>4, RequestMoves DEF CheckCode, Steps
  <2>4. CASE request'[r].at = "write" /\ request[r].code = c
    <3>1. ~Gone(c)
      BY <2>3, <2>4 DEF Gone
    <3>2. DeletesInTime(c) => DeletesInTime(c)'
      BY <2>1, <2>2 DEF DeletesInTime
    <3>. QED  BY <1>0, <2>1, <3>1, <3>2 DEF SpentIsGone
  <2>5. CASE ~(request'[r].at = "write" /\ request[r].code = c)
    BY <1>0, <2>1, <2>2, <2>5, SpentKept
  <2>. QED  BY <2>4, <2>5
<1>5. ASSUME NEW r \in Requests, WriteAccount(r) PROVE Kept
  <2>1. UNCHANGED <<code, late>> /\ request[r].at = "write"
    BY <1>5 DEF WriteAccount, redisVars
  <2>2. /\ request'[r].at \in {"delete", "release"} /\ request'[r].code = request[r].code
        /\ \A q \in Requests \ {r} : request'[q] = request[q]
    BY <1>0, <1>5, RequestMoves DEF WriteAccount, Steps
  <2>3. /\ \A q \in Requests : request[q].at = "delete" => request'[q] = request[q]
        /\ \A q \in Requests : request'[q].at = "write" => request'[q] = request[q]
    BY <2>1, <2>2
  <2>4. CASE UNCHANGED <<spent, cut>>
    BY <1>0, <2>1, <2>3, <2>4, SpentKept
  <2>5. ASSUME NEW short \in BOOLEAN, Spend(r, short), short \/ RequestGoes(r, "delete")
        PROVE  Kept
    <3>1. CASE request[r].code # c
      <4>1. spent'[c] = spent[c] /\ cut'[c] = cut[c]
        BY <1>0, <2>5, <3>1, Spends
      <4>. QED  BY <1>0, <2>1, <2>3, <4>1, SpentKept
    <3>2. CASE request[r].code = c /\ (short \/ r \in late)
      <4>1. spent'[c] = spent[c] + 1 /\ cut'[c] = cut[c] + 1
        BY <1>0, <2>5, <3>2, Spends
      <4>2. spent'[c] = 1 + cut'[c] => spent[c] = 1 + cut[c]
        BY <1>0, <4>1
      <4>3. spent'[c] <= 1 + cut'[c]
        BY <1>0, <4>1
      <4>. QED  BY <1>0, <2>1, <2>3, <4>2, <4>3, SpentKept
    <3>3. CASE request[r].code = c /\ ~short /\ r \notin late
      <4>1. spent'[c] = spent[c] + 1 /\ cut'[c] = cut[c]
        BY <1>0, <2>5, <3>3, Spends
      <4>2. spent[c] <= cut[c]
        BY <1>0, <2>1, <3>3, WriteFindsUnspent DEF VerificationInv
      <4>3. request'[r].at = "delete"
        BY <1>0, <2>5, <3>3, RequestMoves DEF Steps
      <4>4. DeletesInTime(c)'
        BY <2>1, <2>2, <3>3, <4>3 DEF DeletesInTime
      <4>. QED  BY <1>0, <4>1, <4>2, <4>4
    <3>. QED  BY <3>1, <3>2, <3>3
  <2>. QED  BY <1>5, <2>4, <2>5 DEF WriteAccount
<1>6. ASSUME NEW r \in Requests, DeleteCode(r) PROVE Kept
  <2>1. UNCHANGED <<spent, late>> /\ code' \in {code, 0} /\ request[r].at = "delete"
    BY <1>6 DEF DeleteCode
  <2>2. /\ request'[r].at = "release" /\ request'[r].code = request[r].code
        /\ \A q \in Requests \ {r} : request'[q] = request[q]
    BY <1>0, <1>6, RequestMoves DEF DeleteCode, Steps
  <2>3. \A q \in Requests : request'[q].at = "write" => request'[q] = request[q]
    BY <2>2
  <2>4. CASE request[r].code # c \/ r \in late
    <3>1. cut'[c] = cut[c]
      BY <1>0, <1>6, <2>4, Cuts DEF DeleteCode
    <3>. QED  BY <1>0, <2>1, <2>2, <2>3, <2>4, <3>1, SpentKept
  <2>5. CASE request[r].code = c /\ r \notin late
    <3>1. CASE CutShort(r)
      <4>1. cut'[c] = cut[c] + 1
        BY <1>0, <2>5, <3>1, Cuts
      <4>. QED  BY <1>0, <2>1, <4>1
    <3>2. CASE code' = 0 /\ UNCHANGED cut
      <4>1. Gone(c)'
        BY <1>0, <2>1, <2>3, <2>5, <3>2, OneInTime DEF Gone, Holding, VerificationInv
      <4>. QED  BY <1>0, <2>1, <3>2, <4>1
    <3>. QED  BY <1>6, <3>1, <3>2 DEF DeleteCode
  <2>. QED  BY <2>4, <2>5
<1>7. ASSUME NEW r \in Requests, ReleaseVerification(r) PROVE Kept
  <2>1. UNCHANGED <<code, spent, cut>> /\ late' = late \ {r} /\ request[r].at = "release"
    BY <1>7 DEF ReleaseVerification
  <2>2. request'[r].at = "idle" /\ \A q \in Requests \ {r} : request'[q] = request[q]
    BY <1>0, <1>7, RequestMoves DEF ReleaseVerification, Steps
  <2>. QED  BY <1>0, <2>1, <2>2, SpentKept
<1>8. ASSUME NEW r \in Requests, LeaseRunsOut(r) \/ GateCrashes(r) PROVE Kept
  <2>1. /\ UNCHANGED <<code, spent>> /\ late' \in {late \cup {r}, late \ {r}}
        /\ IF request[r].at = "delete" THEN CutShort(r) ELSE UNCHANGED cut
    BY <1>8 DEF LeaseRunsOut, GateCrashes, redisVars
  <2>2. /\ \A q \in Requests \ {r} : request'[q] = request[q]
        /\ r \in late' \/ request'[r].at = "idle"
    BY <1>0, <1>8, RequestMoves DEF LeaseRunsOut, GateCrashes, Steps
  <2>3. CASE request[r].at = "delete" /\ request[r].code = c /\ r \notin late
    <3>1. cut'[c] = cut[c] + 1
      BY <1>0, <2>1, <2>3, Cuts
    <3>. QED  BY <1>0, <2>1, <3>1
  <2>4. CASE ~(request[r].at = "delete" /\ request[r].code = c /\ r \notin late)
    <3>1. cut'[c] = cut[c]
      BY <1>0, <2>1, <2>4, Cuts
    <3>. QED  BY <1>0, <2>1, <2>2, <2>4, <3>1, SpentKept
  <2>. QED  BY <2>3, <2>4
<1>9. CASE \/ \E r \in Requests : GoesSilent(r)
           \/ CodeExpires \/ AbandonedLeaseExpires \/ UNCHANGED vars
  <2>1. UNCHANGED <<request, spent, cut, late>> /\ code' \in {code, 0}
    BY <1>9 DEF GoesSilent, redisVars, CodeExpires, AbandonedLeaseExpires, ghostVars, vars
  <2>. QED  BY <1>0, <2>1, SpentKept
<1>. QED
  BY <1>1, <1>2, <1>3, <1>4, <1>5, <1>6, <1>7, <1>8, <1>9 DEF Next, RequestStep

-----------------------------------------------------------------------------
LEMMA InitInv == Init => VerificationInv
<1> SUFFICES ASSUME Init PROVE VerificationInv
  OBVIOUS
<1>1. TypeOK
  <2>1. CallTypes /\ GhostTypes /\ BoundTypes
    BY VerificationAssumption DEF Init, CallTypes, GhostTypes, BoundTypes
  <2>2. RequestTypes
    BY VerificationAssumption DEF Init, NoRequest, RequestTypes, Codes, Operations, Steps
  <2>3. account \in BOOLEAN
    BY DEF Init
  <2>. QED  BY <2>1, <2>2, <2>3 DEF TypeOK
<1>2. HolderKeepsLease /\ LateHaveLost /\ SetCodesDiffer
  BY DEF Init, HolderKeepsLease, LateHaveLost, SetCodesDiffer, Holding, NoRequest
<1>3. UnusedIsUnspent
  BY VerificationAssumption DEF Init, NoRequest, UnusedIsUnspent, Codes
<1>4. SpentIsGone /\ CodeSpentOnce
  BY DEF Init, SpentIsGone, CodeSpentOnce
<1>. QED  BY <1>1, <1>2, <1>3, <1>4 DEF VerificationInv

LEMMA InvHolds == Spec => []VerificationInv
<1>1. VerificationInv /\ [Next]_vars => VerificationInv'
  BY TypeStep, LeaseStep, DrawStep, UnusedStep, SpentStep DEF VerificationInv
<1>. QED  BY <1>1, InitInv, PTL DEF Spec

\* Type correctness of codes, leases, calls and requests.
THEOREM VerificationTypes == Spec => []TypeOK
  BY InvHolds, PTL DEF VerificationInv

\* For any number of gates, failures and expiries, a request between
\* AcquireVerification and ~VerificationLease has the lease to itself until its
\* time is over.
THEOREM LeaseIsExclusive == Spec => []HolderKeepsLease
  BY InvHolds, PTL DEF VerificationInv

\* For any number of codes, calls and requests, a code changes the account once,
\* and once more only for each request that was cut short.
THEOREM CodesAreSpentOnce == Spec => []CodeSpentOnce
  BY InvHolds, PTL DEF VerificationInv

-----------------------------------------------------------------------------
(* The exception of CodeSpentOnce needs a failure or a timeout.             *)

Undisturbed == faults = 0 /\ expiries = 0

\* Without a failed command, a crash or a timeout every gate can use Redis and no
\* request is cut short.
NothingAmiss ==
    /\ late = {} /\ \A r \in Requests : pool[r] = "works"
    /\ \A c \in Codes : cut[c] = 0
CutsNeedFailure == Undisturbed => NothingAmiss

\* Without a failed command, a crash or a timeout a code changes the account at
\* most once, however many requests send it at the same time: in the good case the
\* lease and the deletion of the code are exact.
OneChangePerCode == Undisturbed => \A c \in Codes : spent[c] <= 1

LEMMA CutsNeedFailureStep ==
  ASSUME TypeOK, CutsNeedFailure, [Next]_vars
  PROVE  CutsNeedFailure'
<1> SUFFICES ASSUME Undisturbed' PROVE NothingAmiss'
  BY DEF CutsNeedFailure
<1>0. faults \in Nat /\ expiries \in Nat /\ faults' = 0 /\ expiries' = 0
  BY VerificationAssumption DEF TypeOK, BoundTypes, Undisturbed
<1>1. ~Fault /\ \A r \in Requests : ~Failed(r)
  BY <1>0 DEF Fault, Failed
<1>2. faults' = faults \/ Fault
  BY DEF Next, IssuerStep, RequestStep, GetValue, SetValue, SendEmail, Submit,
     AcquireVerification, CheckCode, WriteAccount, DeleteCode, ReleaseVerification,
     CodeExpires, GoesSilent, LeaseRunsOut, AbandonedLeaseExpires, GateCrashes, vars,
     Answered, Failed, Refused
<1>3. expiries' = expiries \/ expiries' = expiries + 1
  BY DEF Next, IssuerStep, RequestStep, GetValue, SetValue, SendEmail, Submit,
     AcquireVerification, CheckCode, WriteAccount, DeleteCode, ReleaseVerification,
     CodeExpires, GoesSilent, LeaseRunsOut, AbandonedLeaseExpires, GateCrashes, vars, counters
<1>4. NothingAmiss
  BY <1>0, <1>1, <1>2, <1>3 DEF CutsNeedFailure, Undisturbed
<1>5. ASSUME NEW r \in Requests, Answered(r) PROVE UNCHANGED pool
  BY <1>4, <1>5 DEF NothingAmiss, Answered, TypeOK, RequestTypes
<1>6. ASSUME NEW r \in Requests, Refused(r) PROVE FALSE
  BY <1>4, <1>6 DEF NothingAmiss, Refused
<1>7. ASSUME NEW r \in Requests, WriteAccount(r) PROVE NothingAmiss'
  <2>1. UNCHANGED <<pool, late>> /\ (cut' = cut \/ Spend(r, FALSE))
    BY <1>1, <1>7 DEF WriteAccount
  <2>2. Spend(r, FALSE) => \A c \in Codes : cut'[c] = cut[c]
    <3>1. cut \in [Codes -> Nat] /\ r \notin late
      BY <1>4 DEF TypeOK, GhostTypes, NothingAmiss
    <3>. QED  BY <1>4, <3>1 DEF Spend
  <2>. QED  BY <1>4, <2>1, <2>2 DEF NothingAmiss
<1>8. ASSUME NEW r \in Requests, DeleteCode(r) \/ ReleaseVerification(r)
      PROVE  NothingAmiss'
  <2>1. Answered(r) /\ UNCHANGED cut /\ (late' = late \/ late' = late \ {r})
    BY <1>1, <1>6, <1>8 DEF DeleteCode, ReleaseVerification
  <2>. QED  BY <1>4, <1>5, <2>1 DEF NothingAmiss
<1>9. ASSUME NEW r \in Requests, GoesSilent(r) \/ LeaseRunsOut(r) \/ GateCrashes(r)
      PROVE  FALSE
  BY <1>0, <1>1, <1>4, <1>9 DEF GoesSilent, LeaseRunsOut, GateCrashes, NothingAmiss
<1>10. ASSUME NEW r \in Requests, AcquireVerification(r) \/ CheckCode(r)
       PROVE  NothingAmiss'
  <2>1. Answered(r) /\ UNCHANGED ghostVars
    BY <1>1, <1>6, <1>10 DEF AcquireVerification, CheckCode
  <2>. QED  BY <1>4, <1>5, <2>1 DEF NothingAmiss, ghostVars
<1>11. CASE \/ \E i \in Issuers : GetValue(i) \/ IssuerStep(i)
            \/ \E r \in Requests, op \in Operations : Submit(r, op)
            \/ CodeExpires \/ AbandonedLeaseExpires \/ UNCHANGED vars
  <2>1. UNCHANGED <<pool, ghostVars>>
    BY <1>11 DEF IssuerStep, GetValue, SetValue, SendEmail, Submit, CodeExpires,
       AbandonedLeaseExpires, vars, ghostVars
  <2>. QED  BY <1>4, <2>1 DEF NothingAmiss, ghostVars
<1>. QED  BY <1>7, <1>8, <1>9, <1>10, <1>11 DEF Next, RequestStep

\* For any number of gates and requests a code is spent at most once, as long as no
\* command fails, no gate crashes and no time limit ends under a request.
THEOREM CodesAreOneTime == Spec => []OneChangePerCode
<1>1. Init => CutsNeedFailure
  BY DEF Init, CutsNeedFailure, NothingAmiss
<1>2. TypeOK /\ CutsNeedFailure /\ [Next]_vars => CutsNeedFailure'
  BY CutsNeedFailureStep
<1>3. TypeOK /\ CutsNeedFailure /\ CodeSpentOnce => OneChangePerCode
  <2> SUFFICES ASSUME TypeOK, CutsNeedFailure, CodeSpentOnce, Undisturbed, NEW c \in Codes
               PROVE  spent[c] <= 1
    BY DEF OneChangePerCode
  <2>1. cut[c] = 0 /\ spent[c] <= 1 + cut[c]
    BY DEF CutsNeedFailure, NothingAmiss, CodeSpentOnce
  <2>. QED  BY <2>1
<1>. QED  BY <1>1, <1>2, <1>3, VerificationTypes, CodesAreSpentOnce, PTL DEF Spec
=============================================================================
