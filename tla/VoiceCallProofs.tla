--------------------------- MODULE VoiceCallProofs ---------------------------
(***************************************************************************)
(* Proofs about VoiceCall: its types, that the two accounts of a call hold *)
(* the same record, that a call is released only by a request that names   *)
(* it or by its lease, and that a client is connected only in an accepted  *)
(* call of its own session, for any accounts, sessions, devices and any    *)
(* number of calls, lost connections and faults.                           *)
(*                                                                         *)
(* The script is looked at once (TransitionSound); what the actions add is *)
(* that a request in work has a peer other than its own account, and that  *)
(* a target was found before the script runs.                              *)
(***************************************************************************)
EXTENDS VoiceCall, TLAPS

Voices == [Users -> Record \cup {None}]

\* CallIsShared of any value of voice.
Shared(v) ==
    \A u \in Users : v[u] # None =>
        /\ v[u].a # v[u].b /\ u \in {v[u].a, v[u].b}
        /\ v[v[u].a] = v[u] /\ v[v[u].b] = v[u]

\* A request in work is not a call to oneself, and the peer's session is known
\* from the script on.
WorkIsSound ==
    \A s \in Sessions : work[s] # None =>
        /\ work[s].peer # UserOf[s]
        /\ work[s].step \in {"run", "deliver", "undo"} => work[s].target \in Sessions

\* A client that is not idle knows its call and its peer.
ClientIsSound ==
    \A s \in Sessions : client[s].state # "Idle" =>
        client[s].call \in CallIds /\ client[s].peer \in Users

VoiceInv == TypeOK /\ WorkIsSound /\ ClientIsSound /\ CallIsShared

-----------------------------------------------------------------------------
(* The Redis script.                                                          *)

\* Writing both keys keeps them typed.
LEMMA BothTyped ==
    ASSUME voice \in Voices, NEW u \in Users, NEW p \in Users,
           NEW c \in Record \cup {None}
    PROVE  Both(u, p, c) \in Voices
BY DEF Both, Voices

\* Writing both keys of two free accounts, or of the two accounts of one call,
\* keeps every call shared.
LEMMA BothShared ==
    ASSUME voice \in Voices, Shared(voice),
           NEW u \in Users, NEW p \in Users, u # p,
           \/ voice[u] = None /\ voice[p] = None
           \/ voice[u] # None /\ Pair(voice[u], u, p),
           NEW c \in Record \cup {None}, c = None \/ Pair(c, u, p)
    PROVE  Shared(Both(u, p, c))
<1> DEFINE w == Both(u, p, c)
<1>1. w[u] = c /\ w[p] = c /\ \A v \in Users \ {u, p} : w[v] = voice[v]
    BY DEF Both, Voices
<1>0. voice[u] = voice[p] /\ (voice[u] # None => {voice[u].a, voice[u].b} = {u, p})
    <2>1. CASE voice[u] = None /\ voice[p] = None
        BY <2>1
    <2>2. CASE voice[u] # None /\ Pair(voice[u], u, p)
        <3>1. voice[voice[u].a] = voice[u] /\ voice[voice[u].b] = voice[u]
            BY <2>2 DEF Shared
        <3> QED
            BY <2>2, <3>1 DEF Pair, First
    <2> QED
        BY <2>1, <2>2
<1>2. ASSUME NEW v \in Users, w[v] # None
      PROVE  /\ w[v].a # w[v].b /\ v \in {w[v].a, w[v].b}
             /\ w[w[v].a] = w[v] /\ w[w[v].b] = w[v]
    <2>1. CASE v \in {u, p}
        <3>1. w[v] = c
            BY <1>1, <2>1
        <3>2. {c.a, c.b} = {u, p} /\ c.a # c.b
            BY <3>1, <1>2 DEF Pair, First
        <3> QED
            BY <1>1, <2>1, <3>1, <3>2
    <2>2. CASE v \notin {u, p}
        <3>1. w[v] = voice[v]
            BY <1>1, <2>2
        <3>2. voice[v] \in Record
            BY <3>1, <1>2 DEF Voices
        <3>3. /\ voice[v].a # voice[v].b /\ v \in {voice[v].a, voice[v].b}
              /\ voice[voice[v].a] = voice[v] /\ voice[voice[v].b] = voice[v]
            BY <3>1, <1>2 DEF Shared
        <3>4. voice[v].a \in Users /\ voice[v].b \in Users
            BY <3>2 DEF Record
        <3>5. voice[v].a \notin {u, p}
            BY <1>0, <3>1, <3>3, <1>2, <2>2
        <3>6. voice[v].b \notin {u, p}
            BY <1>0, <3>1, <3>3, <1>2, <2>2
        <3> QED
            BY <1>1, <3>1, <3>3, <3>4, <3>5, <3>6
    <2> QED
        BY <2>1, <2>2
<1> QED
    BY <1>2 DEF Shared

\* Whatever the script answers: voice stays typed and shared, an accepted
\* invite leaves a record, and only the call that was named is released.
LEMMA TransitionSound ==
    ASSUME VoiceInv, VoiceAssumption,
           NEW s \in Sessions, NEW p \in Users, p # UserOf[s], NEW d \in Devices,
           NEW target \in Sessions, NEW op \in Controls, NEW id \in CallIds,
           NEW r \in VoiceTransition(s, p, d, target, op, id)
    PROVE  /\ r.voice \in Voices /\ Shared(r.voice)
           /\ r.code \in Codes
           /\ op = "invite" /\ r.code = "Success" => r.voice[UserOf[s]] \in Record
           /\ \A v \in Users : voice[v] # None /\ r.voice[v] = None => voice[v].id = id
<1> DEFINE u == UserOf[s]
           kept(code) == [code |-> code, voice |-> voice]
<1>1. u \in Users /\ voice \in Voices /\ Shared(voice)
    BY DEF VoiceInv, TypeOK, CallIsShared, Shared, Voices, VoiceAssumption
<1>2. ASSUME NEW code \in Codes, r = kept(code), op # "invite" \/ code # "Success"
      PROVE  /\ r.voice \in Voices /\ Shared(r.voice)
             /\ r.code \in Codes
             /\ op = "invite" /\ r.code = "Success" => r.voice[UserOf[s]] \in Record
             /\ \A v \in Users : voice[v] # None /\ r.voice[v] = None => voice[v].id = id
    BY <1>1, <1>2
<1>3. CASE LoginError(s, p, d, target) # "Success"
    <2>1. r = kept(LoginError(s, p, d, target))
        BY <1>3 DEF VoiceTransition
    <2>2. LoginError(s, p, d, target) \in Codes
        BY DEF LoginError, Codes
    <2> QED
        BY <1>2, <1>3, <2>1, <2>2
<1>4. CASE LoginError(s, p, d, target) = "Success" /\ op = "invite"
    <2>1. r \in InviteResults(u, p, s, target, id)
        BY <1>4 DEF VoiceTransition
    <2>2. CASE voice[u] # None \/ voice[p] # None
        <3>1. r = kept("VoiceBusy")
            BY <2>1, <2>2 DEF InviteResults
        <3> QED
            BY <1>2, <3>1 DEF Codes
    <2>3. CASE voice[u] = None /\ voice[p] = None
        <3> DEFINE c == [id |-> id, a |-> u, b |-> p, sa |-> s, sb |-> target,
                         state |-> "ringing", quiet |-> {}]
        <3>1. r = kept("VoiceRateLimited") \/ r = [code |-> "Success", voice |-> Both(u, p, c)]
            BY <2>1, <2>3 DEF InviteResults
        <3>2. CASE r = kept("VoiceRateLimited")
            BY <1>2, <3>2 DEF Codes
        <3>3. CASE r = [code |-> "Success", voice |-> Both(u, p, c)]
            <4>1. c \in Record /\ Pair(c, u, p)
                BY <1>1 DEF Record, Pair, First
            <4>2. r.voice = Both(u, p, c) /\ r.code = "Success"
                BY <3>3
            <4>3. r.voice \in Voices
                BY <1>1, <4>1, <4>2, BothTyped
            <4>4. Shared(r.voice)
                BY <1>1, <2>3, <4>1, <4>2, BothShared
            <4>5. r.voice[u] = c
                BY <1>1, <4>2 DEF Both, Voices
            <4>6. \A v \in Users : voice[v] # None => r.voice[v] = voice[v]
                BY <1>1, <2>3, <4>2 DEF Both, Voices
            <4> QED
                BY <4>1, <4>2, <4>3, <4>4, <4>5, <4>6 DEF Codes
        <3> QED
            BY <3>1, <3>2, <3>3
    <2> QED
        BY <2>2, <2>3
<1>5. CASE LoginError(s, p, d, target) = "Success" /\ op # "invite"
           /\ MatchError(u, p, s, target, id) # "Success"
    <2>1. r = kept(MatchError(u, p, s, target, id))
        BY <1>5 DEF VoiceTransition
    <2>2. MatchError(u, p, s, target, id) \in Codes
        BY DEF MatchError, Codes
    <2> QED
        BY <1>2, <1>5, <2>1, <2>2
<1>6. CASE LoginError(s, p, d, target) = "Success" /\ op # "invite"
           /\ MatchError(u, p, s, target, id) = "Success"
    <2>1. r = MatchedResult(u, p, op)
        BY <1>6 DEF VoiceTransition
    <2>2. /\ voice[u] # None /\ voice[p] # None /\ Pair(voice[u], u, p)
          /\ voice[u].id = id /\ voice[p].id = id
        BY <1>6 DEF MatchError
    <2>3. voice[u] \in Record
        BY <1>1, <2>2 DEF Voices
    <2> DEFINE active == [voice[u] EXCEPT !.state = "active", !.quiet = {}]
               pinged == [voice[u] EXCEPT !.quiet = @ \ {u}]
    <2>4. \/ r = kept("VoiceInvalid")
          \/ r = [code |-> "Success", voice |-> Both(u, p, None)]
          \/ r = [code |-> "Success", voice |-> Both(u, p, active)]
          \/ r = [code |-> "VoiceInvalid", voice |-> Both(u, p, None)]
          \/ r = [code |-> "Success", voice |-> Both(u, p, pinged)]
        BY <2>1 DEF MatchedResult
    <2>5. CASE r = kept("VoiceInvalid")
        BY <1>2, <1>6, <2>5 DEF Codes
    <2>6. ASSUME NEW c \in Record \cup {None}, c = None \/ Pair(c, u, p),
                 NEW code \in Codes, r = [code |-> code, voice |-> Both(u, p, c)]
          PROVE  /\ r.voice \in Voices /\ Shared(r.voice)
                 /\ r.code \in Codes
                 /\ op = "invite" /\ r.code = "Success" => r.voice[UserOf[s]] \in Record
                 /\ \A v \in Users : voice[v] # None /\ r.voice[v] = None => voice[v].id = id
        <3>1. r.voice = Both(u, p, c) /\ r.code = code
            BY <2>6
        <3>2. r.voice \in Voices
            BY <1>1, <2>6, <3>1, BothTyped
        <3>3. Shared(r.voice)
            BY <1>1, <2>2, <2>6, <3>1, BothShared
        <3>4. \A v \in Users \ {u, p} : r.voice[v] = voice[v]
            BY <1>1, <3>1 DEF Both, Voices
        <3> QED
            BY <1>6, <2>2, <3>1, <3>2, <3>3, <3>4
    <2>7. active \in Record /\ Pair(active, u, p)
        BY <2>2, <2>3 DEF Record, Pair, First
    <2>8. pinged \in Record /\ Pair(pinged, u, p)
        BY <2>2, <2>3 DEF Record, Pair, First
    <2>9. "Success" \in Codes /\ "VoiceInvalid" \in Codes
        BY DEF Codes
    <2> QED
        BY <2>4, <2>5, <2>6, <2>7, <2>8, <2>9
<1> QED
    BY <1>3, <1>4, <1>5, <1>6

-----------------------------------------------------------------------------
(* The actions.                                                               *)

\* What Head, Tail and Append keep.
LEMMA QueueFacts ==
    ASSUME NEW S, NEW q \in Seq(S)
    PROVE  /\ q # <<>> => Head(q) \in S /\ Tail(q) \in Seq(S)
           /\ \A x \in S : Append(q, x) \in Seq(S)
OBVIOUS

\* The fault counter stays within its bound.
LEMMA FaultTyped ==
    ASSUME VoiceAssumption, faults \in 0 .. MaxFaults, Fault \/ UNCHANGED faults
    PROVE  faults' \in 0 .. MaxFaults
BY DEF Fault, VoiceAssumption

\* The request of s moves on: same peer, and a target where one is needed.
WorkMoves(s) ==
    \E w \in Work : /\ work' = [work EXCEPT ![s] = w]
                    /\ w.peer = work[s].peer
                    /\ w.step \in {"run", "deliver", "undo"} => w.target \in Sessions

\* A request that moves on stays sound.
LEMMA WorkMovesSound ==
    ASSUME VoiceInv, NEW s \in Sessions, work[s] # None, WorkMoves(s)
    PROVE  work' \in [Sessions -> Work \cup {None}] /\ WorkIsSound'
BY DEF WorkMoves, VoiceInv, TypeOK, WorkIsSound

\* Going on to a step with a known target moves the request on.
LEMMA ContinueMoves ==
    ASSUME VoiceInv, NEW s \in Sessions, work[s] # None, work[s].target \in Sessions,
           NEW step \in {"run", "deliver", "undo", "reply"}, Continue(s, step)
    PROVE  WorkMoves(s)
<1> DEFINE w == [work[s] EXCEPT !.step = step]
<1>1. work[s] \in Work
    BY DEF VoiceInv, TypeOK
<1>2. w \in Work /\ w.peer = work[s].peer /\ w.target = work[s].target
    BY <1>1 DEF Work
<1>3. work' = [work EXCEPT ![s] = w]
    BY DEF Continue
<1> QED
    BY <1>2, <1>3 DEF WorkMoves

\* Going on to the answer moves the request on.
LEMMA AnswerMoves ==
    ASSUME VoiceInv, NEW s \in Sessions, work[s] # None, NEW code \in Codes, Answer(s, code)
    PROVE  WorkMoves(s)
<1> DEFINE w == [work[s] EXCEPT !.step = "reply", !.code = code]
<1>1. work[s] \in Work
    BY DEF VoiceInv, TypeOK
<1>2. w \in Work /\ w.peer = work[s].peer /\ w.step = "reply"
    BY <1>1 DEF Work
<1>3. work' = [work EXCEPT ![s] = w]
    BY DEF Answer
<1> QED
    BY <1>2, <1>3 DEF WorkMoves

\* Every node, Redis and client starts empty.
LEMMA InitSound == ASSUME VoiceAssumption PROVE Init => VoiceInv
<1> SUFFICES ASSUME Init PROVE VoiceInv
    OBVIOUS
<1>1. TypeOK
    BY DEF Init, TypeOK, IdleClient, VoiceAssumption
<1>2. WorkIsSound /\ ClientIsSound /\ CallIsShared
    BY DEF Init, WorkIsSound, ClientIsSound, CallIsShared, IdleClient
<1> QED
    BY <1>1, <1>2 DEF VoiceInv

\* Login touches the connection and its session key only.
LEMMA LoginSound ==
    ASSUME VoiceInv, VoiceAssumption, NEW s \in Sessions, Login(s)
    PROVE  VoiceInv'
<1>1. TypeOK'
    BY DEF VoiceInv, TypeOK, VoiceAssumption, Login, redisVars, nodeVars
<1>2. WorkIsSound'
    BY DEF VoiceInv, TypeOK, WorkIsSound, Login, redisVars, nodeVars
<1>3. ClientIsSound'
    BY DEF VoiceInv, TypeOK, ClientIsSound, Login, redisVars, nodeVars
<1>4. CallIsShared'
    BY DEF VoiceInv, CallIsShared, Login, redisVars
<1> QED
    BY <1>1, <1>2, <1>3, <1>4 DEF VoiceInv

\* Close empties the queues of one connection.
LEMMA CloseSound ==
    ASSUME VoiceInv, VoiceAssumption, NEW s \in Sessions, Close(s)
    PROVE  VoiceInv'
<1>1. TypeOK'
    BY DEF VoiceInv, TypeOK, VoiceAssumption, Close, redisVars, nodeVars
<1>2. WorkIsSound'
    BY DEF VoiceInv, TypeOK, WorkIsSound, Close, redisVars, nodeVars
<1>3. ClientIsSound'
    BY DEF VoiceInv, TypeOK, ClientIsSound, Close, redisVars, nodeVars
<1>4. CallIsShared'
    BY DEF VoiceInv, CallIsShared, Close, redisVars
<1> QED
    BY <1>1, <1>2, <1>3, <1>4 DEF VoiceInv

\* Cleanup removes one session key.
LEMMA CleanupSound ==
    ASSUME VoiceInv, VoiceAssumption, NEW s \in Sessions, Cleanup(s)
    PROVE  VoiceInv'
<1>1. TypeOK'
    BY DEF VoiceInv, TypeOK, VoiceAssumption, Cleanup, redisVars, nodeVars
<1>2. WorkIsSound'
    BY DEF VoiceInv, TypeOK, WorkIsSound, Cleanup, redisVars, nodeVars
<1>3. ClientIsSound'
    BY DEF VoiceInv, TypeOK, ClientIsSound, Cleanup, redisVars, nodeVars
<1>4. CallIsShared'
    BY DEF VoiceInv, CallIsShared, Cleanup, redisVars
<1> QED
    BY <1>1, <1>2, <1>3, <1>4 DEF VoiceInv

\* The lease takes both keys.
LEMMA LeaseExpiresSound ==
    ASSUME VoiceInv, VoiceAssumption, NEW u \in Users, LeaseExpires(u)
    PROVE  VoiceInv'
<1> DEFINE c == voice[u]
<1>1. voice \in Voices /\ Shared(voice) /\ faults \in 0 .. MaxFaults
    BY DEF VoiceInv, TypeOK, CallIsShared, Shared, Voices
<1>2. c # None /\ c \in Record
    BY <1>1 DEF LeaseExpires, Voices
<1>3. c.a \in Users /\ c.b \in Users /\ c.a # c.b /\ voice[c.a] = c
    BY <1>1, <1>2 DEF Record, Shared
<1> DEFINE n == None
<1>4. voice' = Both(c.a, c.b, n)
    BY DEF LeaseExpires
<1>5. n \in Record \cup {None} /\ (n = None \/ Pair(n, c.a, c.b))
    BY <1>2, <1>3 DEF Record, Pair, First
<1>6. voice' \in Voices
    BY <1>1, <1>3, <1>4, <1>5, BothTyped
<1>7. Shared(voice')
    <2>1. voice[c.a] # None /\ Pair(voice[c.a], c.a, c.b)
        BY <1>2, <1>3 DEF Pair, First
    <2>2. Shared(Both(c.a, c.b, n))
        BY <1>1, <1>3, <1>5, <2>1, BothShared
    <2> QED
        BY <1>4, <2>2
<1>8. faults' \in 0 .. MaxFaults
    BY <1>1, FaultTyped DEF LeaseExpires, Command
<1>9. TypeOK' /\ CallIsShared'
    BY <1>6, <1>7, <1>8 DEF VoiceInv, TypeOK, LeaseExpires, nodeVars, Voices, Shared, CallIsShared
<1>10. WorkIsSound' /\ ClientIsSound'
    BY DEF VoiceInv, WorkIsSound, ClientIsSound, LeaseExpires, nodeVars
<1> QED
    BY <1>9, <1>10 DEF VoiceInv

\* A silent party is marked in both keys.
LEMMA GoesQuietSound ==
    ASSUME VoiceInv, VoiceAssumption, NEW u \in Users, GoesQuiet(u)
    PROVE  VoiceInv'
<1> DEFINE c == voice[u]
<1>1. voice \in Voices /\ Shared(voice) /\ faults \in 0 .. MaxFaults
    BY DEF VoiceInv, TypeOK, CallIsShared, Shared, Voices
<1>2. c # None /\ c \in Record
    BY <1>1 DEF GoesQuiet, Voices
<1>3. c.a \in Users /\ c.b \in Users /\ c.a # c.b /\ voice[c.a] = c
    BY <1>1, <1>2 DEF Record, Shared
<1> DEFINE n == [c EXCEPT !.quiet = @ \cup {u}]
<1>4. voice' = Both(c.a, c.b, n)
    BY DEF GoesQuiet
<1>5. n \in Record \cup {None} /\ (n = None \/ Pair(n, c.a, c.b))
    BY <1>2, <1>3 DEF Record, Pair, First
<1>6. voice' \in Voices
    BY <1>1, <1>3, <1>4, <1>5, BothTyped
<1>7. Shared(voice')
    <2>1. voice[c.a] # None /\ Pair(voice[c.a], c.a, c.b)
        BY <1>2, <1>3 DEF Pair, First
    <2>2. Shared(Both(c.a, c.b, n))
        BY <1>1, <1>3, <1>5, <2>1, BothShared
    <2> QED
        BY <1>4, <2>2
<1>8. faults' \in 0 .. MaxFaults
    BY <1>1, FaultTyped DEF GoesQuiet, Command
<1>9. TypeOK' /\ CallIsShared'
    BY <1>6, <1>7, <1>8 DEF VoiceInv, TypeOK, GoesQuiet, nodeVars, Voices, Shared, CallIsShared
<1>10. WorkIsSound' /\ ClientIsSound'
    BY DEF VoiceInv, WorkIsSound, ClientIsSound, GoesQuiet, nodeVars
<1> QED
    BY <1>9, <1>10 DEF VoiceInv

\* A request enters the handler with a peer that is not the caller.
LEMMA FindDeviceSound ==
    ASSUME VoiceInv, VoiceAssumption, NEW s \in Sessions, FindDevice(s)
    PROVE  VoiceInv'
<1> DEFINE q == Head(inbox[s])
<1>1. q \in Request /\ Tail(inbox[s]) \in Seq(Request) /\ q.peer # UserOf[s]
    BY QueueFacts DEF VoiceInv, TypeOK, FindDevice
<1>2. PICK step \in {"find", "reply"}, device \in Devices, code \in Codes :
        work' = [work EXCEPT ![s] =
                   [op |-> q.op, call |-> q.call, peer |-> q.peer, step |-> step,
                    device |-> device, target |-> None, code |-> code]]
    <2>1. ASSUME NEW c \in Record PROVE DeviceOf[Peer(c, UserOf[s])] \in Devices
        BY DEF Record, Peer, VoiceAssumption
    <2>2. voice[UserOf[s]] \in Record \cup {None}
        BY DEF VoiceInv, TypeOK, VoiceAssumption
    <2> QED
        BY <2>1, <2>2 DEF FindDevice, Got, Devices, Codes
<1>3. faults' \in 0 .. MaxFaults
    BY FaultTyped DEF FindDevice, Command, VoiceInv, TypeOK
<1>4. work' \in [Sessions -> Work \cup {None}]
    BY <1>1, <1>2 DEF VoiceInv, TypeOK, Work, Request
<1>5. TypeOK'
    BY <1>1, <1>3, <1>4 DEF VoiceInv, TypeOK, FindDevice, redisVars
<1>6. WorkIsSound'
    BY <1>1, <1>2 DEF VoiceInv, TypeOK, WorkIsSound
<1>7. ClientIsSound' /\ CallIsShared'
    BY DEF VoiceInv, ClientIsSound, CallIsShared, FindDevice, redisVars
<1> QED
    BY <1>5, <1>6, <1>7 DEF VoiceInv

\* The script runs only with a target.
LEMMA FindSessionSound ==
    ASSUME VoiceInv, VoiceAssumption, NEW s \in Sessions, FindSession(s)
    PROVE  VoiceInv'
<1>1. work[s] \in Work /\ work[s].peer # UserOf[s]
    BY DEF VoiceInv, TypeOK, WorkIsSound, FindSession, Working
<1>2. \A u \in Users, d \in Devices : usession[u][d] \in Sessions \cup {None}
    BY DEF VoiceInv, TypeOK
<1>0. work[s] # None /\ work[s].step = "find"
    BY DEF FindSession, Working
<1>3. WorkMoves(s)
    <2>1. ASSUME NEW f \in Sessions,
                 work' = [work EXCEPT ![s].step = "run", ![s].target = f]
          PROVE  WorkMoves(s)
        <3> DEFINE w == [work[s] EXCEPT !.step = "run", !.target = f]
        <3>1. w \in Work /\ w.peer = work[s].peer /\ w.target \in Sessions
            BY <1>1 DEF Work
        <3>2. work' = [work EXCEPT ![s] = w]
            BY <2>1
        <3> QED
            BY <3>1, <3>2 DEF WorkMoves
    <2>2. ASSUME work' = [work EXCEPT ![s].device = "desktop"] PROVE WorkMoves(s)
        <3> DEFINE w == [work[s] EXCEPT !.device = "desktop"]
        <3>1. w \in Work /\ w.peer = work[s].peer /\ w.step = "find"
            BY <1>0, <1>1 DEF Work, Devices
        <3>2. work' = [work EXCEPT ![s] = w]
            BY <2>2
        <3> QED
            BY <3>1, <3>2 DEF WorkMoves
    <2>3. work[s].peer \in Users /\ work[s].device \in Devices
        BY <1>1 DEF Work
    <2>4. \/ \E f \in Sessions : work' = [work EXCEPT ![s].step = "run", ![s].target = f]
          \/ work' = [work EXCEPT ![s].device = "desktop"]
          \/ \E code \in Codes : Answer(s, code)
        BY <1>2, <2>3 DEF FindSession, Got, Codes
    <2> QED
        BY <1>0, <2>1, <2>2, <2>4, AnswerMoves
<1>4. faults' \in 0 .. MaxFaults
    BY FaultTyped DEF FindSession, Command, VoiceInv, TypeOK
<1>5. work' \in [Sessions -> Work \cup {None}] /\ WorkIsSound'
    BY <1>0, <1>3, WorkMovesSound
<1>6. TypeOK'
    BY <1>4, <1>5 DEF VoiceInv, TypeOK, FindSession, redisVars
<1>8. ClientIsSound' /\ CallIsShared'
    BY DEF VoiceInv, ClientIsSound, CallIsShared, FindSession, redisVars
<1> QED
    BY <1>5, <1>6, <1>8 DEF VoiceInv

\* Committing a result of the script, or nothing, is sound.
LEMMA CommitSound ==
    ASSUME VoiceInv, VoiceAssumption, NEW s \in Sessions, NEW op \in Controls,
           work[s] # None, work[s] \in Work, work[s].peer # UserOf[s],
           work[s].target \in Sessions,
           NEW r \in VoiceTransition(s, work[s].peer, work[s].device, work[s].target, op,
                                     work[s].call),
           Commit(r, op, work[s].call, UserOf[s])
    PROVE  /\ voice' \in Voices /\ Shared(voice')
           /\ calls' \in [CallIds -> Record \cup {None}]
           /\ accepted' \in SUBSET CallIds
           /\ r.code \in Codes
<1>1. work[s].peer \in Users /\ work[s].device \in Devices /\ work[s].call \in CallIds
    BY DEF Work
<1>2. /\ r.voice \in Voices /\ Shared(r.voice) /\ r.code \in Codes
      /\ op = "invite" /\ r.code = "Success" => r.voice[UserOf[s]] \in Record
    BY <1>1, TransitionSound
<1> QED
    BY <1>1, <1>2 DEF Commit, VoiceInv, TypeOK

\* The script runs for a request of s.
LEMMA RunSound ==
    ASSUME VoiceInv, VoiceAssumption, NEW s \in Sessions, Run(s)
    PROVE  VoiceInv'
<1>1. work[s] \in Work /\ work[s].peer # UserOf[s]
    BY DEF VoiceInv, TypeOK, WorkIsSound, Run, Working
<1>2. work[s] # None /\ work[s].target \in Sessions /\ work[s].op \in Controls
    BY <1>1 DEF VoiceInv, WorkIsSound, Run, Working, Work, Controls
<1>3. /\ voice' \in Voices /\ Shared(voice')
      /\ calls' \in [CallIds -> Record \cup {None}] /\ accepted' \in SUBSET CallIds
      /\ WorkMoves(s)
    <2>1. CASE \E r \in VoiceTransition(s, work[s].peer, work[s].device, work[s].target,
                                        work[s].op, work[s].call) :
                 /\ Commit(r, work[s].op, work[s].call, UserOf[s])
                 /\ (Continue(s, "deliver") \/ Answer(s, r.code) \/ Answer(s, "RedisError"))
        <3>1. PICK r \in VoiceTransition(s, work[s].peer, work[s].device, work[s].target,
                                        work[s].op, work[s].call) :
                 /\ Commit(r, work[s].op, work[s].call, UserOf[s])
                 /\ (Continue(s, "deliver") \/ Answer(s, r.code) \/ Answer(s, "RedisError"))
            BY <2>1
        <3>2. /\ voice' \in Voices /\ Shared(voice')
              /\ calls' \in [CallIds -> Record \cup {None}] /\ accepted' \in SUBSET CallIds
              /\ r.code \in Codes
            BY <1>1, <1>2, <3>1, CommitSound
        <3> QED
            BY <1>2, <3>1, <3>2, AnswerMoves, ContinueMoves DEF Codes
    <2>2. CASE Answer(s, "RedisError") /\ UNCHANGED <<voice, calls, accepted>>
        <3>1. WorkMoves(s)
            BY <1>2, <2>2, AnswerMoves DEF Codes
        <3> QED
            BY <2>2, <3>1 DEF VoiceInv, TypeOK, CallIsShared, Shared, Voices
    <2> QED
        BY <2>1, <2>2 DEF Run
<1>4. faults' \in 0 .. MaxFaults
    BY FaultTyped DEF Run, VoiceInv, TypeOK
<1>5. work' \in [Sessions -> Work \cup {None}] /\ WorkIsSound'
    BY <1>2, <1>3, WorkMovesSound
<1>6. TypeOK' /\ CallIsShared'
    BY <1>3, <1>4, <1>5 DEF VoiceInv, TypeOK, Run, Voices, Shared, CallIsShared
<1>8. ClientIsSound'
    BY DEF VoiceInv, ClientIsSound, Run
<1> QED
    BY <1>5, <1>6, <1>8 DEF VoiceInv

\* An undelivered request ends its call.
LEMMA UndoSound ==
    ASSUME VoiceInv, VoiceAssumption, NEW s \in Sessions, Undo(s)
    PROVE  VoiceInv'
<1>1. work[s] \in Work /\ work[s].peer # UserOf[s]
    BY DEF VoiceInv, TypeOK, WorkIsSound, Undo, Working
<1>2. work[s] # None /\ work[s].target \in Sessions /\ "end" \in Controls
    BY <1>1 DEF VoiceInv, WorkIsSound, Undo, Working, Work, Controls
<1>3. /\ voice' \in Voices /\ Shared(voice')
      /\ calls' \in [CallIds -> Record \cup {None}] /\ accepted' \in SUBSET CallIds
      /\ WorkMoves(s)
    <2>1. CASE \E r \in VoiceTransition(s, work[s].peer, work[s].device, work[s].target,
                                        "end", work[s].call) :
                 /\ Commit(r, "end", work[s].call, UserOf[s])
                 /\ Answer(s, "VoiceOffline")
        <3>1. PICK r \in VoiceTransition(s, work[s].peer, work[s].device, work[s].target,
                                        "end", work[s].call) :
                 /\ Commit(r, "end", work[s].call, UserOf[s])
                 /\ Answer(s, "VoiceOffline")
            BY <2>1
        <3>2. /\ voice' \in Voices /\ Shared(voice')
              /\ calls' \in [CallIds -> Record \cup {None}] /\ accepted' \in SUBSET CallIds
              /\ r.code \in Codes
            BY <1>1, <1>2, <3>1, CommitSound
        <3> QED
            BY <1>2, <3>1, <3>2, AnswerMoves, ContinueMoves DEF Codes
    <2>2. CASE Answer(s, "VoiceOffline") /\ UNCHANGED <<voice, calls, accepted>>
        <3>1. WorkMoves(s)
            BY <1>2, <2>2, AnswerMoves DEF Codes
        <3> QED
            BY <2>2, <3>1 DEF VoiceInv, TypeOK, CallIsShared, Shared, Voices
    <2> QED
        BY <2>1, <2>2 DEF Undo
<1>4. faults' \in 0 .. MaxFaults
    BY FaultTyped DEF Undo, VoiceInv, TypeOK
<1>5. work' \in [Sessions -> Work \cup {None}] /\ WorkIsSound'
    BY <1>2, <1>3, WorkMovesSound
<1>6. TypeOK' /\ CallIsShared'
    BY <1>3, <1>4, <1>5 DEF VoiceInv, TypeOK, Undo, Voices, Shared, CallIsShared
<1>8. ClientIsSound'
    BY DEF VoiceInv, ClientIsSound, Undo
<1> QED
    BY <1>5, <1>6, <1>8 DEF VoiceInv

\* An event reaches the target, or the request is undone.
LEMMA DeliverSound ==
    ASSUME VoiceInv, VoiceAssumption, NEW s \in Sessions, Deliver(s)
    PROVE  VoiceInv'
<1>1. work[s] \in Work /\ work[s].peer # UserOf[s]
    BY DEF VoiceInv, TypeOK, WorkIsSound, Deliver, Working
<1>2. work[s].target \in Sessions
    BY DEF VoiceInv, WorkIsSound, Deliver, Working
<1>3. EventOf(s) \in Event
    BY <1>1 DEF EventOf, Event, Work, Codes, VoiceAssumption
<1>4. WorkMoves(s) /\ work[s] # None
    <2>1. work[s] # None /\ (Continue(s, "undo") \/ Answer(s, "Success"))
        BY DEF Deliver, Working
    <2> QED
        BY <1>2, <2>1, AnswerMoves, ContinueMoves DEF Codes
<1>5. outbox' \in [Sessions -> Seq(Event)]
    <2>1. Append(outbox[work[s].target], EventOf(s)) \in Seq(Event)
        BY <1>2, <1>3, QueueFacts DEF VoiceInv, TypeOK
    <2> QED
        BY <1>2, <2>1 DEF Deliver, Push, VoiceInv, TypeOK
<1>6. relay' \in SUBSET [to : Sessions, event : Event]
    BY <1>2, <1>3 DEF Deliver, VoiceInv, TypeOK
<1>7. faults' \in 0 .. MaxFaults
    BY FaultTyped DEF Deliver, VoiceInv, TypeOK
<1>8. work' \in [Sessions -> Work \cup {None}] /\ WorkIsSound'
    BY <1>4, WorkMovesSound
<1>9. TypeOK'
    BY <1>5, <1>6, <1>7, <1>8 DEF VoiceInv, TypeOK, Deliver, redisVars
<1>11. ClientIsSound' /\ CallIsShared'
    BY DEF VoiceInv, ClientIsSound, CallIsShared, Deliver, redisVars
<1> QED
    BY <1>8, <1>9, <1>11 DEF VoiceInv

\* A late relay delivers a stored event.
LEMMA LateRelaySound ==
    ASSUME VoiceInv, VoiceAssumption, NEW m \in relay, LateRelay(m)
    PROVE  VoiceInv'
<1>1. m \in [to : Sessions, event : Event]
    BY DEF VoiceInv, TypeOK
<1>2. outbox' \in [Sessions -> Seq(Event)]
    <2>1. Append(outbox[m.to], m.event) \in Seq(Event)
        BY <1>1, QueueFacts DEF VoiceInv, TypeOK
    <2> QED
        BY <1>1, <2>1 DEF LateRelay, Push, VoiceInv, TypeOK
<1>3. TypeOK'
    BY <1>2 DEF VoiceInv, TypeOK, LateRelay, redisVars
<1>4. WorkIsSound' /\ ClientIsSound' /\ CallIsShared'
    BY DEF VoiceInv, WorkIsSound, ClientIsSound, CallIsShared, LateRelay, redisVars
<1> QED
    BY <1>3, <1>4 DEF VoiceInv

\* The reply ends the request.
LEMMA ReplySound ==
    ASSUME VoiceInv, VoiceAssumption, NEW s \in Sessions, Reply(s)
    PROVE  VoiceInv'
<1>1. work[s] \in Work /\ work[s].peer # UserOf[s]
    BY DEF VoiceInv, TypeOK, WorkIsSound, Reply, Working
<1> DEFINE e == [op |-> work[s].op, call |-> work[s].call, peer |-> work[s].peer,
                 incoming |-> FALSE, code |-> work[s].code]
<1>2. Append(outbox[s], e) \in Seq(Event)
    <2>1. e \in Event
        BY <1>1 DEF Event, Work
    <2> QED
        BY <2>1, QueueFacts DEF VoiceInv, TypeOK
<1>3. outbox' \in [Sessions -> Seq(Event)]
    BY <1>2 DEF Reply, Push, VoiceInv, TypeOK
<1>4. TypeOK'
    BY <1>3 DEF VoiceInv, TypeOK, Reply, redisVars
<1>5. WorkIsSound'
    BY DEF VoiceInv, TypeOK, WorkIsSound, Reply
<1>6. ClientIsSound' /\ CallIsShared'
    BY DEF VoiceInv, ClientIsSound, CallIsShared, Reply, redisVars
<1> QED
    BY <1>4, <1>5, <1>6 DEF VoiceInv

\* A client queues well-formed requests.
LEMMA SendTyped ==
    ASSUME VoiceInv, NEW s \in Sessions, NEW op \in Controls, NEW call \in CallIds,
           NEW peer \in Users, Send(s, op, call, peer)
    PROVE  inbox' \in [Sessions -> Seq(Request)]
<1>1. Append(inbox[s], [op |-> op, call |-> call, peer |-> peer]) \in Seq(Request)
    <2>1. [op |-> op, call |-> call, peer |-> peer] \in Request
        BY DEF Request
    <2> QED
        BY <2>1, QueueFacts DEF VoiceInv, TypeOK
<1> QED
    BY <1>1 DEF Send, VoiceInv, TypeOK

\* Leaving a call: the client is idle, the request well formed.
LEMMA FinishCallTyped ==
    ASSUME VoiceInv, NEW s \in Sessions, client[s].state # "Idle", FinishCall(s)
    PROVE  /\ inbox' \in [Sessions -> Seq(Request)]
           /\ client' = [client EXCEPT ![s] = IdleClient]
<1>1. client[s].call \in CallIds /\ client[s].peer \in Users
    BY DEF VoiceInv, ClientIsSound
<1>2. FinishOp(client[s].state) \in Controls
    BY DEF FinishOp, Controls
<1> QED
    BY <1>1, <1>2, SendTyped DEF FinishCall

\* The clients' values.
Clients == [state : {"Idle", "Outgoing", "Incoming", "Connecting", "Active"},
            call : CallIds \cup {0}, peer : Users \cup {None}]

\* A client step that ends with a typed inbox and a sound client is sound.
LEMMA ClientStepSound ==
    ASSUME VoiceInv, NEW s \in Sessions, inbox' \in [Sessions -> Seq(Request)],
           outbox' \in [Sessions -> Seq(Event)], issued' \in 0 .. MaxCalls,
           NEW k \in Clients, k.state # "Idle" => k.call \in CallIds /\ k.peer \in Users,
           client' = [client EXCEPT ![s] = k],
           UNCHANGED <<redisVars, conn, work, relay, calls, accepted, faults>>
    PROVE  VoiceInv'
<1>1. TypeOK'
    BY DEF VoiceInv, TypeOK, redisVars, Clients
<1>2. WorkIsSound' /\ CallIsShared'
    BY DEF VoiceInv, WorkIsSound, CallIsShared, redisVars
<1>3. ClientIsSound'
    BY DEF VoiceInv, TypeOK, ClientIsSound
<1> QED
    BY <1>1, <1>2, <1>3 DEF VoiceInv

\* An idle client is one of the clients' values.
LEMMA IdleTyped == IdleClient \in Clients /\ IdleClient.state = "Idle"
BY DEF IdleClient, Clients

\* A new call has a fresh id.
LEMMA StartSound ==
    ASSUME VoiceInv, VoiceAssumption, NEW s \in Sessions, NEW p \in Users, Start(s, p)
    PROVE  VoiceInv'
<1> DEFINE k == [state |-> "Outgoing", call |-> issued + 1, peer |-> p]
<1>1. issued + 1 \in CallIds /\ issued' \in 0 .. MaxCalls
    BY DEF Start, CallIds, VoiceInv, TypeOK, VoiceAssumption
<1>2. inbox' \in [Sessions -> Seq(Request)]
    BY <1>1, SendTyped DEF Start, Controls
<1>3. k \in Clients /\ k.call \in CallIds /\ k.peer \in Users
    BY <1>1 DEF Clients
<1>4. client' = [client EXCEPT ![s] = k] /\ outbox' \in [Sessions -> Seq(Event)]
    BY DEF Start, VoiceInv, TypeOK
<1>5. UNCHANGED <<redisVars, conn, work, relay, calls, accepted, faults>>
    BY DEF Start
<1> QED
    BY <1>1, <1>2, <1>3, <1>4, <1>5, ClientStepSound

\* Accepting keeps the call and the peer.
LEMMA AcceptSound ==
    ASSUME VoiceInv, VoiceAssumption, NEW s \in Sessions, Accept(s)
    PROVE  VoiceInv'
<1> DEFINE k == [client[s] EXCEPT !.state = "Connecting"]
<1>1. client[s] \in Clients /\ client[s].call \in CallIds /\ client[s].peer \in Users
    BY DEF Accept, VoiceInv, TypeOK, ClientIsSound, Clients
<1>2. inbox' \in [Sessions -> Seq(Request)]
    BY <1>1, SendTyped DEF Accept, Controls
<1>3. k \in Clients /\ k.call \in CallIds /\ k.peer \in Users
    BY <1>1 DEF Clients
<1>4. /\ client' = [client EXCEPT ![s] = k] /\ outbox' \in [Sessions -> Seq(Event)]
      /\ issued' \in 0 .. MaxCalls
    BY DEF Accept, VoiceInv, TypeOK
<1>5. UNCHANGED <<redisVars, conn, work, relay, calls, accepted, faults>>
    BY DEF Accept
<1> QED
    BY <1>2, <1>3, <1>4, <1>5, ClientStepSound

\* Leaving a call.
LEMMA FinishSound ==
    ASSUME VoiceInv, VoiceAssumption, NEW s \in Sessions, Finish(s)
    PROVE  VoiceInv'
<1>1. inbox' \in [Sessions -> Seq(Request)] /\ client' = [client EXCEPT ![s] = IdleClient]
    BY FinishCallTyped DEF Finish
<1>2. outbox' \in [Sessions -> Seq(Event)] /\ issued' \in 0 .. MaxCalls
    BY DEF Finish, VoiceInv, TypeOK
<1>3. UNCHANGED <<redisVars, conn, work, relay, calls, accepted, faults>>
    BY DEF Finish
<1> QED
    BY <1>1, <1>2, <1>3, IdleTyped, ClientStepSound

\* A ping leaves the client as it is.
LEMMA PingSound ==
    ASSUME VoiceInv, VoiceAssumption, NEW s \in Sessions, Ping(s)
    PROVE  VoiceInv'
<1>1. client[s] \in Clients /\ client[s].call \in CallIds /\ client[s].peer \in Users
    BY DEF Ping, VoiceInv, TypeOK, ClientIsSound, Clients
<1>2. inbox' \in [Sessions -> Seq(Request)]
    BY <1>1, SendTyped DEF Ping, Controls
<1>3. client' = [client EXCEPT ![s] = client[s]]
    BY DEF Ping, VoiceInv, TypeOK
<1>4. outbox' \in [Sessions -> Seq(Event)] /\ issued' \in 0 .. MaxCalls
    BY DEF Ping, VoiceInv, TypeOK
<1>5. UNCHANGED <<redisVars, conn, work, relay, calls, accepted, faults>>
    BY DEF Ping
<1> QED
    BY <1>1, <1>2, <1>3, <1>4, <1>5, ClientStepSound

\* A client that lost its connection is idle.
LEMMA DisconnectedSound ==
    ASSUME VoiceInv, VoiceAssumption, NEW s \in Sessions, Disconnected(s)
    PROVE  VoiceInv'
<1>1. client' = [client EXCEPT ![s] = IdleClient]
    BY DEF Disconnected
<1>2. /\ inbox' \in [Sessions -> Seq(Request)] /\ outbox' \in [Sessions -> Seq(Event)]
      /\ issued' \in 0 .. MaxCalls
    BY DEF Disconnected, VoiceInv, TypeOK, nodeVars
<1>3. UNCHANGED <<redisVars, conn, work, relay, calls, accepted, faults>>
    BY DEF Disconnected, nodeVars
<1> QED
    BY <1>1, <1>2, <1>3, IdleTyped, ClientStepSound

\* An event rings, ends, connects or is ignored.
LEMMA ReceiveSound ==
    ASSUME VoiceInv, VoiceAssumption, NEW s \in Sessions, Receive(s)
    PROVE  VoiceInv'
<1> DEFINE e == Head(outbox[s])
<1>1. e \in Event /\ Tail(outbox[s]) \in Seq(Event)
    BY QueueFacts DEF Receive, VoiceInv, TypeOK
<1>2. outbox' \in [Sessions -> Seq(Event)] /\ issued' \in 0 .. MaxCalls
    BY <1>1 DEF Receive, VoiceInv, TypeOK
<1>3. UNCHANGED <<redisVars, conn, work, relay, calls, accepted, faults>>
    BY DEF Receive
<1>4. client[s] \in Clients /\ inbox \in [Sessions -> Seq(Request)]
    BY DEF VoiceInv, TypeOK, Clients
<1>5. CASE /\ client' = [client EXCEPT ![s] = [state |-> "Incoming", call |-> e.call, peer |-> e.peer]]
           /\ UNCHANGED inbox
    <2> DEFINE k == [state |-> "Incoming", call |-> e.call, peer |-> e.peer]
    <2>1. k \in Clients /\ k.call \in CallIds /\ k.peer \in Users
        BY <1>1 DEF Clients, Event
    <2>2. inbox' \in [Sessions -> Seq(Request)]
        BY <1>4, <1>5
    <2> QED
        BY <1>2, <1>3, <1>5, <2>1, <2>2, ClientStepSound
<1>6. CASE Refused(s, e) /\ FinishCall(s)
    <2>1. client[s].state # "Idle"
        BY <1>6 DEF Refused, Concerns
    <2>2. inbox' \in [Sessions -> Seq(Request)] /\ client' = [client EXCEPT ![s] = IdleClient]
        BY <1>6, <2>1, FinishCallTyped
    <2> QED
        BY <1>2, <1>3, <2>2, IdleTyped, ClientStepSound
<1>7. CASE Connects(s, e) /\ client' = [client EXCEPT ![s].state = "Active"] /\ UNCHANGED inbox
    <2> DEFINE k == [client[s] EXCEPT !.state = "Active"]
    <2>1. client[s].call \in CallIds /\ client[s].peer \in Users
        BY <1>7 DEF VoiceInv, ClientIsSound, Connects, Concerns
    <2>2. k \in Clients /\ k.call \in CallIds /\ k.peer \in Users
        BY <1>4, <2>1 DEF Clients
    <2>3. inbox' \in [Sessions -> Seq(Request)] /\ client' = [client EXCEPT ![s] = k]
        BY <1>4, <1>7
    <2> QED
        BY <1>2, <1>3, <2>2, <2>3, ClientStepSound
<1>8. CASE client' = [client EXCEPT ![s] = IdleClient] /\ UNCHANGED inbox
    <2>1. inbox' \in [Sessions -> Seq(Request)]
        BY <1>4, <1>8
    <2> QED
        BY <1>2, <1>3, <1>8, <2>1, IdleTyped, ClientStepSound
<1>9. CASE UNCHANGED <<client, inbox>>
    <2>1. inbox' \in [Sessions -> Seq(Request)] /\ client' = [client EXCEPT ![s] = client[s]]
        BY <1>4, <1>9 DEF VoiceInv, TypeOK
    <2>2. client[s].state # "Idle" => client[s].call \in CallIds /\ client[s].peer \in Users
        BY DEF VoiceInv, ClientIsSound
    <2> QED
        BY <1>2, <1>3, <1>4, <2>1, <2>2, ClientStepSound
<1> QED
    BY <1>5, <1>6, <1>7, <1>8, <1>9 DEF Receive

-----------------------------------------------------------------------------
(* The theorems.                                                              *)

\* Every step keeps the invariant.
LEMMA StepSound ==
    ASSUME VoiceAssumption, VoiceInv, [Next]_vars PROVE VoiceInv'
<1>1. CASE UNCHANGED vars
    BY <1>1 DEF vars, redisVars, nodeVars, VoiceInv, TypeOK, WorkIsSound, ClientIsSound,
                CallIsShared
<1>2. ASSUME NEW s \in Sessions, ServerStep(s) PROVE VoiceInv'
    BY <1>2, FindDeviceSound, FindSessionSound, RunSound, DeliverSound, UndoSound, ReplySound
       DEF ServerStep
<1>3. ASSUME NEW s \in Sessions, Login(s) \/ Close(s) \/ Cleanup(s) PROVE VoiceInv'
    BY <1>3, LoginSound, CloseSound, CleanupSound
<1>4. ASSUME NEW s \in Sessions,
             Accept(s) \/ Finish(s) \/ Ping(s) \/ Receive(s) \/ Disconnected(s)
      PROVE  VoiceInv'
    BY <1>4, AcceptSound, FinishSound, PingSound, ReceiveSound, DisconnectedSound
<1>5. ASSUME NEW s \in Sessions, NEW p \in Users, Start(s, p) PROVE VoiceInv'
    BY <1>5, StartSound
<1>6. ASSUME NEW u \in Users, LeaseExpires(u) \/ GoesQuiet(u) PROVE VoiceInv'
    BY <1>6, LeaseExpiresSound, GoesQuietSound
<1>7. ASSUME NEW m \in relay, LateRelay(m) PROVE VoiceInv'
    BY <1>7, LateRelaySound
<1> QED
    BY <1>1, <1>2, <1>3, <1>4, <1>5, <1>6, <1>7 DEF Next, ServerStep

\* The invariant holds in every state of the call service.
THEOREM CallInvariant == Spec => []VoiceInv
<1>1. Init => VoiceInv
    BY InitSound, VoiceAssumption
<1>2. VoiceInv /\ [Next]_vars => VoiceInv'
    BY StepSound, VoiceAssumption
<1> QED
    BY <1>1, <1>2, PTL DEF Spec

\* Keys, queues and clients hold values of their kinds.
THEOREM CallTypes == Spec => []TypeOK
BY CallInvariant, PTL DEF VoiceInv

\* The two accounts of a call always hold the same record (VoiceTransition's
\* atomic state), with any number of accounts inviting one another.
THEOREM CallsAreShared == Spec => []CallIsShared
BY CallInvariant, PTL DEF VoiceInv

\* Only a request that names the call, or its lease, releases it: the late
\* teardown of an undelivered request spares every other call.
THEOREM CallsEndThemselves == Spec => OnlyItsOwnEnd
<1> DEFINE A == \A u \in Users : (voice[u] # None /\ voice'[u] = None) =>
                   \/ LeaseExpires(u)
                   \/ \E s \in Sessions : /\ work[s] # None /\ work'[s] # work[s]
                                          /\ work[s].call = voice[u].id
<1>1. ASSUME VoiceInv, [Next]_vars PROVE [A]_vars
  <2> SUFFICES ASSUME NEW u \in Users, voice[u] # None, voice'[u] = None, Next
               PROVE  \/ LeaseExpires(u)
                      \/ \E s \in Sessions : /\ work[s] # None /\ work'[s] # work[s]
                                             /\ work[s].call = voice[u].id
    BY <1>1
  <2>1. ASSUME UNCHANGED voice PROVE FALSE
    BY <2>1
  <2>2. ASSUME NEW s \in Sessions, Run(s) \/ Undo(s)
        PROVE  work[s] # None /\ work'[s] # work[s] /\ work[s].call = voice[u].id
    <3>1. /\ work[s] \in Work /\ work[s] # None /\ work[s].peer # UserOf[s]
          /\ work[s].target \in Sessions /\ work[s].step \in {"run", "undo"}
        BY <1>1, <2>2 DEF VoiceInv, TypeOK, WorkIsSound, Run, Undo, Working
    <3>2. work'[s] # work[s]
        <4>1. work'[s].step \in {"deliver", "reply"}
            BY <1>1, <2>2, <3>1 DEF Run, Undo, Answer, Continue, VoiceInv, TypeOK, Work
        <4> QED
            BY <3>1, <4>1
    <3>3. PICK op \in Controls :
            \E r \in VoiceTransition(s, work[s].peer, work[s].device, work[s].target, op,
                                     work[s].call) : voice' = r.voice
        BY <2>1, <2>2, <3>1 DEF Run, Undo, Commit, Work, Controls
    <3>6. PICK r \in VoiceTransition(s, work[s].peer, work[s].device, work[s].target, op,
                                     work[s].call) : voice' = r.voice
        BY <3>3
    <3>4. work[s].peer \in Users /\ work[s].device \in Devices /\ work[s].call \in CallIds
        BY <3>1 DEF Work
    <3>5. \A v \in Users : voice[v] # None /\ r.voice[v] = None => voice[v].id = work[s].call
        BY <1>1, <3>1, <3>4, VoiceAssumption, TransitionSound
    <3> QED
        BY <3>1, <3>2, <3>5, <3>6
  <2>3. ASSUME NEW v \in Users, LeaseExpires(v) PROVE LeaseExpires(u)
    <3> DEFINE c == voice[v]
    <3>1. voice \in Voices /\ Shared(voice)
        BY <1>1 DEF VoiceInv, TypeOK, CallIsShared, Shared, Voices
    <3>2. c # None /\ c \in Record /\ voice' = Both(c.a, c.b, None)
        BY <2>3, <3>1 DEF LeaseExpires, Voices
    <3>3. c.a \in Users /\ c.b \in Users /\ voice[c.a] = c /\ voice[c.b] = c
        BY <3>1, <3>2, <2>3 DEF Record, Shared
    <3>4. u \in {c.a, c.b}
        BY <3>1, <3>2, <3>3 DEF Both, Voices
    <3>5. voice[u] = c
        BY <3>3, <3>4
    <3> QED
        BY <2>3, <3>5 DEF LeaseExpires
  <2>4. ASSUME NEW v \in Users, GoesQuiet(v) PROVE FALSE
    <3> DEFINE c == voice[v]
               n == [c EXCEPT !.quiet = @ \cup {v}]
    <3>1. voice \in Voices /\ Shared(voice)
        BY <1>1 DEF VoiceInv, TypeOK, CallIsShared, Shared, Voices
    <3>2. c # None /\ c \in Record /\ voice' = Both(c.a, c.b, n) /\ v \notin c.quiet
        BY <2>4, <3>1 DEF GoesQuiet, Voices
    <3>3. n # None
        <4>1. n \in Record
            BY <3>2, <2>4 DEF Record
        <4> QED
            BY <4>1, NoneAssumption
    <3> QED
        BY <3>1, <3>2, <3>3 DEF Both, Voices, Record
  <2>5. ASSUME NEW s \in Sessions,
               \/ Login(s) \/ Close(s) \/ Cleanup(s) \/ FindDevice(s) \/ FindSession(s)
               \/ Deliver(s) \/ Reply(s) \/ Accept(s) \/ Finish(s) \/ Ping(s)
               \/ Receive(s) \/ Disconnected(s)
        PROVE  FALSE
    BY <2>1, <2>5 DEF Login, Close, Cleanup, FindDevice, FindSession, Deliver, Reply, Accept,
                      Finish, Ping, Receive, Disconnected, redisVars
  <2>6. ASSUME NEW s \in Sessions, NEW p \in Users, Start(s, p) PROVE FALSE
    BY <2>1, <2>6 DEF Start, redisVars
  <2>7. ASSUME NEW m \in relay, LateRelay(m) PROVE FALSE
    BY <2>1, <2>7 DEF LateRelay, redisVars
  <2> QED
    BY <2>2, <2>3, <2>4, <2>5, <2>6, <2>7 DEF Next
<1> QED
    BY <1>1, CallInvariant, PTL DEF Spec, OnlyItsOwnEnd

-----------------------------------------------------------------------------
(* Who may be connected.  A call is bound to two sessions when it is invited, *)
(* and to them only: BindInv follows that binding from the invite, of which   *)
(* there is one per call, over the record and the accept to the events that   *)
(* connect a client.                                                          *)

\* Call c was accepted, s is one of its two sessions and p the other's account.
Bound(s, c, p) ==
    /\ c \in accepted /\ calls[c] # None
    /\ s \in {calls[c].sa, calls[c].sb}
    /\ p = UserOf[Peer(calls[c], UserOf[s])]

\* A session key holds a session of its account.
KeysAreOwn ==
    \A u \in Users, d \in Devices : usession[u][d] # None => UserOf[usession[u][d]] = u

\* The i-th queued request of s is the invite of call c.
Queued(s, i, c) ==
    /\ i \in 1 .. Len(inbox[s])
    /\ inbox[s][i].op = "invite" /\ inbox[s][i].call = c

\* The invite of call c is in work and its script has not run.
Inviting(s, c) ==
    /\ work[s] # None /\ work[s].op = "invite" /\ work[s].call = c
    /\ work[s].step \in {"find", "run"}

\* An invite that is still under way has created nothing yet, and there is only
\* one of each call.
InvitesOnce ==
    \A c \in CallIds :
        /\ calls[c] # None => c <= issued
        /\ \A s \in Sessions, i \in Nat : Queued(s, i, c) =>
              /\ c <= issued /\ calls[c] = None
              /\ \A t \in Sessions, j \in Nat : Queued(t, j, c) => t = s /\ j = i
              /\ \A t \in Sessions : ~Inviting(t, c)
        /\ \A s \in Sessions : Inviting(s, c) =>
              /\ c <= issued /\ calls[c] = None
              /\ \A t \in Sessions : Inviting(t, c) => t = s

\* A call belongs to two accounts and a session of each.
CallsAreOwn ==
    \A c \in CallIds : calls[c] # None =>
        /\ calls[c].a # calls[c].b
        /\ UserOf[calls[c].sa] = calls[c].a /\ UserOf[calls[c].sb] = calls[c].b

\* Two records of the same call.
SameCall(c, d) == c.a = d.a /\ c.b = d.b /\ c.sa = d.sa /\ c.sb = d.sb

\* The record in Redis is the one the invite created, but for its state.
VoiceIsCall ==
    \A u \in Users : voice[u] # None =>
        calls[voice[u].id] # None /\ SameCall(calls[voice[u].id], voice[u])

\* An accept that was committed is bound on both sides until it is delivered,
\* and on its own side when it is answered with success.
WorkIsBound ==
    \A s \in Sessions : work[s] # None /\ work[s].op = "accept" =>
        LET w == work[s] IN
        /\ w.step = "deliver" => Bound(s, w.call, w.peer) /\ Bound(w.target, w.call, UserOf[s])
        /\ w.step = "reply" /\ w.code = "Success" => Bound(s, w.call, w.peer)

\* An event that may connect the client of s.
Binding(s, e) == e.op = "accept" /\ e.code = "Success" => Bound(s, e.call, e.peer)

\* Every such event, queued or still to be relayed, is bound.
EventsAreBound ==
    /\ \A s \in Sessions : \A i \in 1 .. Len(outbox[s]) : Binding(s, outbox[s][i])
    /\ \A m \in relay : Binding(m.to, m.event)

\* A connected client is bound: ActiveIsBound, with the call known to exist.
ClientsAreBound ==
    \A s \in Sessions : client[s].state = "Active" =>
        Bound(s, client[s].call, client[s].peer)

BindInv ==
    /\ KeysAreOwn /\ InvitesOnce /\ CallsAreOwn /\ VoiceIsCall
    /\ WorkIsBound /\ EventsAreBound /\ ClientsAreBound

\* What the script may do to the records: nothing; create the invited call
\* between the two sessions it has checked; take the call away; or rewrite it
\* with another state, for an accept in the name of the session it is bound to.
LEMMA TransitionKinds ==
    ASSUME VoiceInv, VoiceAssumption, KeysAreOwn,
           NEW s \in Sessions, NEW u, u = UserOf[s],
           NEW p \in Users, p # u, NEW d \in Devices,
           NEW target \in Sessions, NEW op \in Controls, NEW id \in CallIds,
           NEW r \in VoiceTransition(s, p, d, target, op, id)
    PROVE  \/ r.voice = voice /\ (r.code = "Success" => op \notin {"invite", "accept"})
           \/ /\ op = "invite" /\ r.code = "Success" /\ UserOf[target] = p
              /\ \E c \in Record : /\ c.id = id /\ c.a = u /\ c.b = p /\ c.sa = s
                                   /\ c.sb = target /\ r.voice = Both(u, p, c)
           \/ op \notin {"invite", "accept"} /\ r.voice = Both(u, p, None)
           \/ /\ op # "invite" /\ voice[u] # None /\ voice[u].id = id
              /\ \E c \in Record : /\ c.id = id /\ SameCall(c, voice[u])
                                   /\ r.voice = Both(u, p, c)
              /\ op = "accept" => /\ voice[u].a = p /\ voice[u].b = u
                                  /\ voice[u].sa = target /\ voice[u].sb = s
<1> DEFINE kept(code) == [code |-> code, voice |-> voice]
<1>1. u \in Users /\ voice \in Voices
    BY DEF VoiceInv, TypeOK, Voices, VoiceAssumption
<1>2. CASE LoginError(s, p, d, target) # "Success"
    <2>1. r = kept(LoginError(s, p, d, target))
        BY <1>2 DEF VoiceTransition
    <2> QED
        BY <1>2, <2>1
<1>3. CASE LoginError(s, p, d, target) = "Success" /\ op = "invite"
    <2>1. r \in InviteResults(u, p, s, target, id)
        BY <1>3 DEF VoiceTransition
    <2> DEFINE c == [id |-> id, a |-> u, b |-> p, sa |-> s, sb |-> target,
                     state |-> "ringing", quiet |-> {}]
    <2>2. \/ r = kept("VoiceBusy") \/ r = kept("VoiceRateLimited")
          \/ r = [code |-> "Success", voice |-> Both(u, p, c)]
        BY <2>1 DEF InviteResults
    <2>3. CASE r = kept("VoiceBusy") \/ r = kept("VoiceRateLimited")
        BY <2>3
    <2>4. CASE r = [code |-> "Success", voice |-> Both(u, p, c)]
        <3>1. usession[p][d] = target
            BY <1>3 DEF LoginError
        <3>2. target # None
            BY DEF VoiceAssumption
        <3>3. UserOf[target] = p
            BY <3>1, <3>2 DEF KeysAreOwn
        <3>4. c \in Record /\ c.id = id /\ c.a = u /\ c.b = p /\ c.sa = s /\ c.sb = target
            BY <1>1 DEF Record
        <3>5. r.voice = Both(u, p, c) /\ r.code = "Success"
            BY <2>4
        <3> HIDE DEF c
        <3> QED
            BY <1>3, <3>3, <3>4, <3>5
    <2> QED
        BY <2>2, <2>3, <2>4
<1>4. CASE LoginError(s, p, d, target) = "Success" /\ op # "invite"
           /\ MatchError(u, p, s, target, id) # "Success"
    <2>1. r = kept(MatchError(u, p, s, target, id))
        BY <1>4 DEF VoiceTransition
    <2> QED
        BY <1>4, <2>1
<1>5. CASE LoginError(s, p, d, target) = "Success" /\ op # "invite"
           /\ MatchError(u, p, s, target, id) = "Success"
    <2>1. r = MatchedResult(u, p, op)
        BY <1>5 DEF VoiceTransition
    <2>2. /\ voice[u] # None /\ Pair(voice[u], u, p) /\ voice[u].id = id
          /\ Own(voice[u], u) = s /\ Peer(voice[u], u) = target
        BY <1>5 DEF MatchError
    <2>3. voice[u] \in Record
        BY <1>1, <2>2 DEF Voices
    <2> DEFINE active == [voice[u] EXCEPT !.state = "active", !.quiet = {}]
               pinged == [voice[u] EXCEPT !.quiet = @ \ {u}]
    <2>4. \/ r = kept("VoiceInvalid")
          \/ op \in Releases /\ r = [code |-> "Success", voice |-> Both(u, p, None)]
          \/ /\ op = "accept" /\ ~First(voice[u], u, p)
             /\ r = [code |-> "Success", voice |-> Both(u, p, active)]
          \/ op = "ping" /\ r = [code |-> "VoiceInvalid", voice |-> Both(u, p, None)]
          \/ op = "ping" /\ r = [code |-> "Success", voice |-> Both(u, p, pinged)]
        BY <2>1 DEF MatchedResult
    <2>5. active \in Record /\ active.id = id /\ SameCall(active, voice[u])
        BY <2>2, <2>3 DEF Record, SameCall
    <2>6. pinged \in Record /\ pinged.id = id /\ SameCall(pinged, voice[u])
        BY <2>2, <2>3 DEF Record, SameCall
    <2>7. ~First(voice[u], u, p) => /\ voice[u].a = p /\ voice[u].b = u
                                    /\ voice[u].sa = target /\ voice[u].sb = s
        BY <2>2 DEF Pair, First, Own, Peer
    <2> HIDE DEF active, pinged
    <2>8. CASE r = kept("VoiceInvalid")
        BY <2>8
    <2>9. CASE op \in Releases /\ r = [code |-> "Success", voice |-> Both(u, p, None)]
        BY <2>9 DEF Releases
    <2>10. CASE /\ op = "accept" /\ ~First(voice[u], u, p)
                /\ r = [code |-> "Success", voice |-> Both(u, p, active)]
        <3>1. r.voice = Both(u, p, active)
            BY <2>10
        <3> QED
            BY <2>2, <2>5, <2>7, <2>10, <3>1
    <2>11. CASE op = "ping" /\ r = [code |-> "VoiceInvalid", voice |-> Both(u, p, None)]
        BY <2>11
    <2>12. CASE op = "ping" /\ r = [code |-> "Success", voice |-> Both(u, p, pinged)]
        <3>1. r.voice = Both(u, p, pinged)
            BY <2>12
        <3> QED
            BY <2>2, <2>6, <2>12, <3>1
    <2> QED
        BY <2>4, <2>8, <2>9, <2>10, <2>11, <2>12
<1> QED
    BY <1>2, <1>3, <1>4, <1>5

\* The calls a step leaves alone, and the accepts it keeps.
CallsGrow ==
    /\ \A c \in CallIds : calls[c] # None => calls'[c] = calls[c]
    /\ accepted \subseteq accepted'

\* Writing both keys with nothing, or with a record of a call that exists, keeps
\* every record one of its call.
LEMMA BothIsCall ==
    ASSUME VoiceInv, VoiceIsCall, CallsGrow,
           NEW u \in Users, NEW p \in Users, NEW c \in Record \cup {None},
           c = None \/ (calls'[c.id] # None /\ SameCall(calls'[c.id], c)),
           voice' = Both(u, p, c)
    PROVE  VoiceIsCall'
<1>1. \A v \in Users : voice'[v] = voice[v] \/ voice'[v] = c
    BY DEF Both, VoiceInv, TypeOK
<1>2. ASSUME NEW v \in Users, voice'[v] = voice[v], voice[v] # None
      PROVE  calls'[voice[v].id] # None /\ SameCall(calls'[voice[v].id], voice[v])
    <2>1. voice[v].id \in CallIds
        BY <1>2 DEF VoiceInv, TypeOK, Record
    <2>2. calls[voice[v].id] # None /\ SameCall(calls[voice[v].id], voice[v])
        BY <1>2 DEF VoiceIsCall
    <2> QED
        BY <2>1, <2>2 DEF CallsGrow
<1> QED
    BY <1>1, <1>2 DEF VoiceIsCall, SameCall

\* The request of s keeps what it asks for while its step and code change.
Advances(s) ==
    /\ \A t \in Sessions : t # s => work'[t] = work[t]
    /\ work'[s].op = work[s].op /\ work'[s].call = work[s].call
    /\ work'[s].peer = work[s].peer /\ work'[s].target = work[s].target

\* Going on to a step advances the request.
LEMMA ContinueAdvances ==
    ASSUME VoiceInv, NEW s \in Sessions, work[s] # None, NEW step, Continue(s, step)
    PROVE  Advances(s) /\ work'[s].step = step
<1>1. work[s] \in Work
    BY DEF VoiceInv, TypeOK
<1>2. work' = [work EXCEPT ![s] = [work[s] EXCEPT !.step = step]]
    BY DEF Continue
<1>3. work'[s] = [work[s] EXCEPT !.step = step] /\ \A t \in Sessions : t # s => work'[t] = work[t]
    BY <1>2 DEF VoiceInv, TypeOK
<1> QED
    BY <1>1, <1>3 DEF Advances, Work

\* So does going on to the answer.
LEMMA AnswerAdvances ==
    ASSUME VoiceInv, NEW s \in Sessions, work[s] # None, NEW code, Answer(s, code)
    PROVE  Advances(s) /\ work'[s].step = "reply" /\ work'[s].code = code
<1>1. work[s] \in Work
    BY DEF VoiceInv, TypeOK
<1>2. work' = [work EXCEPT ![s] = [work[s] EXCEPT !.step = "reply", !.code = code]]
    BY DEF Answer
<1>3. /\ work'[s] = [work[s] EXCEPT !.step = "reply", !.code = code]
      /\ \A t \in Sessions : t # s => work'[t] = work[t]
    BY <1>2 DEF VoiceInv, TypeOK
<1> QED
    BY <1>1, <1>3 DEF Advances, Work

\* What committing a result of the script for a request of s does to the calls.
LEMMA CommitBinds ==
    ASSUME VoiceInv, VoiceAssumption, BindInv, NEW s \in Sessions,
           NEW w, w = work[s], w # None, w.target \in Sessions,
           NEW op \in Controls, op = "invite" => Inviting(s, w.call),
           NEW r \in VoiceTransition(s, w.peer, w.device, w.target, op, w.call),
           Commit(r, op, w.call, UserOf[s])
    PROVE  /\ CallsGrow /\ CallsAreOwn' /\ VoiceIsCall'
           /\ \A c \in CallIds : calls'[c] # calls[c] => op = "invite" /\ c = w.call
           /\ op = "accept" /\ r.code = "Success" =>
                Bound(s, w.call, w.peer)' /\ Bound(w.target, w.call, UserOf[s])'
<1>2. PICK u : u = UserOf[s]
    OBVIOUS
<1>3. PICK p, d, target, id : p = w.peer /\ d = w.device /\ target = w.target /\ id = w.call
    OBVIOUS
<1>4. /\ p \in Users /\ d \in Devices /\ target \in Sessions /\ id \in CallIds
      /\ u \in Users /\ p # u
    BY <1>2, <1>3 DEF VoiceInv, TypeOK, WorkIsSound, Work, VoiceAssumption
<1>5. r \in VoiceTransition(s, p, d, target, op, id)
    BY <1>3
<1>6. /\ voice' = r.voice
      /\ calls' = IF op = "invite" /\ r.code = "Success" THEN [calls EXCEPT ![id] = r.voice[u]]
                                                          ELSE calls
      /\ accepted' = IF op = "accept" /\ r.code = "Success" THEN accepted \cup {id} ELSE accepted
    BY <1>2, <1>3 DEF Commit
<1>7. op = "invite" => calls[id] = None
    BY <1>3, <1>4 DEF BindInv, InvitesOnce
<1>8. calls \in [CallIds -> Record \cup {None}] /\ voice \in Voices /\ accepted \subseteq CallIds
    BY DEF VoiceInv, TypeOK, Voices
<1>9. SUFFICES /\ CallsGrow /\ CallsAreOwn' /\ VoiceIsCall'
               /\ \A c \in CallIds : calls'[c] # calls[c] => op = "invite" /\ c = id
               /\ op = "accept" /\ r.code = "Success" =>
                    Bound(s, id, p)' /\ Bound(target, id, u)'
    BY <1>2, <1>3
<1>10. CASE op = "invite" /\ r.code = "Success"
    <2>1. UserOf[target] = p
        BY <1>2, <1>4, <1>5, <1>10, TransitionKinds DEF BindInv
    <2>2. PICK c \in Record : /\ c.id = id /\ c.a = u /\ c.b = p /\ c.sa = s
                              /\ c.sb = target /\ r.voice = Both(u, p, c)
        BY <1>2, <1>4, <1>5, <1>10, TransitionKinds DEF BindInv
    <2>3. r.voice[u] = c
        BY <2>2, <1>4, <1>8 DEF Both, Voices
    <2>4. calls'[id] = c /\ \A k \in CallIds : k # id => calls'[k] = calls[k]
        BY <1>4, <1>6, <1>8, <1>10, <2>3
    <2>5. CallsGrow
        BY <1>6, <1>7, <1>10, <2>4 DEF CallsGrow
    <2>6. CallsAreOwn'
        <3>1. \A k \in CallIds : k # id /\ calls[k] # None =>
                 /\ calls[k].a # calls[k].b
                 /\ UserOf[calls[k].sa] = calls[k].a /\ UserOf[calls[k].sb] = calls[k].b
            BY DEF BindInv, CallsAreOwn
        <3> QED
            BY <1>2, <1>4, <2>1, <2>2, <2>4, <3>1 DEF CallsAreOwn
    <2>7. c # None
        BY <2>2, NoneAssumption
    <2>8. VoiceIsCall'
        BY <1>4, <1>6, <2>2, <2>4, <2>5, <2>7, BothIsCall DEF BindInv, SameCall
    <2> QED
        BY <1>10, <2>4, <2>5, <2>6, <2>8
<1>11. CASE ~(op = "invite" /\ r.code = "Success")
    <2>1. calls' = calls /\ accepted \subseteq accepted'
        BY <1>6, <1>11
    <2>2. CallsGrow /\ CallsAreOwn'
        BY <2>1 DEF CallsGrow, CallsAreOwn, BindInv
    <2>3. VoiceIsCall'
        <3>1. CASE r.voice = voice
            BY <1>6, <2>1, <3>1 DEF VoiceIsCall, BindInv
        <3>2. CASE r.voice = Both(u, p, None)
            BY <1>4, <1>6, <2>2, <3>2, BothIsCall DEF BindInv
        <3>3. CASE /\ voice[u] # None /\ voice[u].id = id
                   /\ \E c \in Record : /\ c.id = id /\ SameCall(c, voice[u])
                                        /\ r.voice = Both(u, p, c)
            <4>1. PICK c \in Record : /\ c.id = id /\ SameCall(c, voice[u])
                                      /\ r.voice = Both(u, p, c)
                BY <3>3
            <4>2. calls[id] # None /\ SameCall(calls[id], voice[u])
                BY <1>4, <3>3 DEF BindInv, VoiceIsCall
            <4>3. calls'[c.id] # None /\ SameCall(calls'[c.id], c)
                BY <2>1, <4>1, <4>2 DEF SameCall
            <4> QED
                BY <1>4, <1>6, <2>2, <4>1, <4>3, BothIsCall DEF BindInv
        <3> QED
            BY <1>2, <1>4, <1>5, <1>11, <3>1, <3>2, <3>3, TransitionKinds DEF BindInv
    <2>4. ASSUME op = "accept", r.code = "Success" PROVE Bound(s, id, p)' /\ Bound(target, id, u)'
        <3>1. /\ voice[u] # None /\ voice[u].id = id
              /\ voice[u].a = p /\ voice[u].b = u /\ voice[u].sa = target /\ voice[u].sb = s
            BY <1>2, <1>4, <1>5, <2>4, TransitionKinds DEF BindInv
        <3>2. calls[id] # None /\ SameCall(calls[id], voice[u])
            BY <1>4, <3>1 DEF BindInv, VoiceIsCall
        <3>3. /\ calls[id].a = p /\ calls[id].b = u
              /\ calls[id].sa = target /\ calls[id].sb = s /\ UserOf[target] = p
            BY <1>4, <3>1, <3>2 DEF SameCall, BindInv, CallsAreOwn
        <3>4. Peer(calls[id], u) = target /\ Peer(calls[id], p) = s
            BY <1>4, <3>3 DEF Peer
        <3>5. id \in accepted'
            BY <1>6, <2>4
        <3> QED
            BY <1>2, <2>1, <3>2, <3>3, <3>4, <3>5 DEF Bound
    <2> QED
        BY <2>1, <2>2, <2>3, <2>4
<1> QED
    BY <1>10, <1>11

\* The script of a request: it may create the call of its invite, and an accept
\* goes on to be delivered only when it was committed.
LEMMA RunBinds ==
    ASSUME VoiceInv, VoiceAssumption, BindInv, NEW s \in Sessions, NEW w, w = work[s], Run(s)
    PROVE  /\ w # None /\ w.step = "run" /\ Advances(s)
           /\ work'[s].step \in {"deliver", "reply"}
           /\ CallsGrow /\ CallsAreOwn' /\ VoiceIsCall'
           /\ \A c \in CallIds : calls'[c] # calls[c] => Inviting(s, c)
           /\ w.op = "accept" /\ work'[s].step = "deliver" =>
                Bound(s, w.call, w.peer)' /\ Bound(w.target, w.call, UserOf[s])'
           /\ w.op = "accept" /\ work'[s].step = "reply" => work'[s].code # "Success"
<1>1. w # None /\ w.step = "run" /\ w.target \in Sessions
    BY DEF Run, Working, VoiceInv, WorkIsSound
<1>2. w.op \in Controls /\ (w.op = "invite" => Inviting(s, w.call))
    BY <1>1 DEF VoiceInv, TypeOK, Work, Inviting
<1>3. CASE \E r \in VoiceTransition(s, w.peer, w.device, w.target, w.op, w.call) :
             /\ Commit(r, w.op, w.call, UserOf[s])
             /\ \/ r.code = "Success" /\ Continue(s, "deliver")
                \/ (r.code # "Success" \/ w.op = "ping") /\ Answer(s, r.code)
                \/ Answer(s, "RedisError")
    <2>1. PICK r \in VoiceTransition(s, w.peer, w.device, w.target, w.op, w.call) :
             /\ Commit(r, w.op, w.call, UserOf[s])
             /\ \/ r.code = "Success" /\ Continue(s, "deliver")
                \/ (r.code # "Success" \/ w.op = "ping") /\ Answer(s, r.code)
                \/ Answer(s, "RedisError")
        BY <1>3
    <2>2. /\ CallsGrow /\ CallsAreOwn' /\ VoiceIsCall'
          /\ \A c \in CallIds : calls'[c] # calls[c] => w.op = "invite" /\ c = w.call
          /\ w.op = "accept" /\ r.code = "Success" =>
               Bound(s, w.call, w.peer)' /\ Bound(w.target, w.call, UserOf[s])'
        BY <1>1, <1>2, <2>1, CommitBinds
    <2>3. CASE r.code = "Success" /\ Continue(s, "deliver")
        BY <1>1, <1>2, <2>2, <2>3, ContinueAdvances
    <2>4. CASE (r.code # "Success" \/ w.op = "ping") /\ Answer(s, r.code)
        BY <1>1, <1>2, <2>2, <2>4, AnswerAdvances
    <2>5. CASE Answer(s, "RedisError")
        BY <1>1, <1>2, <2>2, <2>5, AnswerAdvances
    <2> QED
        BY <2>1, <2>3, <2>4, <2>5
<1>4. CASE Answer(s, "RedisError") /\ UNCHANGED <<voice, calls, accepted>>
    <2>1. CallsGrow /\ CallsAreOwn' /\ VoiceIsCall'
        BY <1>4 DEF BindInv, CallsGrow, CallsAreOwn, VoiceIsCall
    <2> QED
        BY <1>1, <1>4, <2>1, AnswerAdvances
<1> QED
    BY <1>3, <1>4 DEF Run

\* The teardown of an undelivered request creates and accepts nothing.
LEMMA UndoBinds ==
    ASSUME VoiceInv, VoiceAssumption, BindInv, NEW s \in Sessions, Undo(s)
    PROVE  /\ work[s] # None /\ Advances(s)
           /\ work'[s].step = "reply" /\ work'[s].code = "VoiceOffline"
           /\ CallsGrow /\ CallsAreOwn' /\ VoiceIsCall'
           /\ \A c \in CallIds : calls'[c] = calls[c]
<1>1. PICK w : w = work[s]
    OBVIOUS
<1>2. w # None /\ w.target \in Sessions /\ "end" \in Controls
    BY <1>1 DEF Undo, Working, VoiceInv, WorkIsSound, Controls
<1>3. Advances(s) /\ work'[s].step = "reply" /\ work'[s].code = "VoiceOffline"
    BY <1>1, <1>2, AnswerAdvances DEF Undo
<1>4. CASE \E r \in VoiceTransition(s, w.peer, w.device, w.target, "end", w.call) :
             Commit(r, "end", w.call, UserOf[s])
    <2>1. PICK op : op = "end"
        OBVIOUS
    <2>4. op \in Controls /\ (op = "invite" => Inviting(s, w.call))
        BY <1>2, <2>1
    <2>2. PICK r \in VoiceTransition(s, w.peer, w.device, w.target, op, w.call) :
             Commit(r, op, w.call, UserOf[s])
        BY <1>4, <2>1
    <2>3. /\ CallsGrow /\ CallsAreOwn' /\ VoiceIsCall'
          /\ \A c \in CallIds : calls'[c] # calls[c] => op = "invite" /\ c = w.call
        BY <1>1, <1>2, <2>4, <2>2, CommitBinds
    <2> QED
        BY <1>1, <1>2, <1>3, <2>1, <2>3
<1>5. CASE UNCHANGED <<voice, calls, accepted>>
    BY <1>1, <1>2, <1>3, <1>5 DEF BindInv, CallsGrow, CallsAreOwn, VoiceIsCall
<1> QED
    BY <1>1, <1>4, <1>5 DEF Undo

\* Every step keeps the calls it does not create, and the records of Redis are
\* records of calls.
LEMMA CallsStay ==
    ASSUME VoiceInv, VoiceAssumption, BindInv, Next
    PROVE  CallsGrow /\ CallsAreOwn' /\ VoiceIsCall'
<1>1. ASSUME UNCHANGED <<voice, calls, accepted>>
      PROVE  CallsGrow /\ CallsAreOwn' /\ VoiceIsCall'
    BY <1>1 DEF BindInv, CallsGrow, CallsAreOwn, VoiceIsCall
<1>2. ASSUME NEW s \in Sessions,
             \/ Login(s) \/ Close(s) \/ Cleanup(s) \/ FindDevice(s) \/ FindSession(s)
             \/ Deliver(s) \/ Reply(s) \/ Accept(s) \/ Finish(s) \/ Ping(s)
             \/ Receive(s) \/ Disconnected(s)
      PROVE  UNCHANGED <<voice, calls, accepted>>
    BY <1>2 DEF Login, Close, Cleanup, FindDevice, FindSession, Deliver, Reply, Accept,
                Finish, Ping, Receive, Disconnected, redisVars
<1>3. ASSUME NEW s \in Sessions, NEW p \in Users, Start(s, p)
      PROVE  UNCHANGED <<voice, calls, accepted>>
    BY <1>3 DEF Start, redisVars
<1>4. ASSUME NEW m \in relay, LateRelay(m) PROVE UNCHANGED <<voice, calls, accepted>>
    BY <1>4 DEF LateRelay, redisVars
<1>5. ASSUME NEW s \in Sessions, Run(s) \/ Undo(s)
      PROVE  CallsGrow /\ CallsAreOwn' /\ VoiceIsCall'
    BY <1>5, RunBinds, UndoBinds
<1>6. ASSUME NEW u \in Users, LeaseExpires(u) \/ GoesQuiet(u)
      PROVE  CallsGrow /\ CallsAreOwn' /\ VoiceIsCall'
    <2>1. PICK c : c = voice[u]
        OBVIOUS
    <2>2. c # None /\ c \in Record
        BY <1>6, <2>1 DEF LeaseExpires, GoesQuiet, VoiceInv, TypeOK
    <2>3. c.id \in CallIds /\ c.a \in Users /\ c.b \in Users
        BY <2>2 DEF Record
    <2>4. calls[c.id] # None /\ SameCall(calls[c.id], c)
        BY <2>1, <2>2 DEF BindInv, VoiceIsCall
    <2>5. UNCHANGED <<calls, accepted>>
        BY <1>6 DEF LeaseExpires, GoesQuiet
    <2>6. CallsGrow /\ CallsAreOwn'
        BY <2>5 DEF CallsGrow, CallsAreOwn, BindInv
    <2>7. CASE LeaseExpires(u)
        <3>1. voice' = Both(c.a, c.b, None)
            BY <2>1, <2>7 DEF LeaseExpires
        <3> QED
            BY <2>3, <2>6, <3>1, BothIsCall DEF BindInv
    <2>8. CASE GoesQuiet(u)
        <3> DEFINE n == [c EXCEPT !.quiet = @ \cup {u}]
        <3>1. voice' = Both(c.a, c.b, n)
            BY <2>1, <2>8 DEF GoesQuiet
        <3>2. n \in Record /\ n.id = c.id /\ SameCall(n, c)
            BY <2>2 DEF Record, SameCall
        <3> HIDE DEF n
        <3>3. calls'[n.id] # None /\ SameCall(calls'[n.id], n)
            BY <2>4, <2>5, <3>2 DEF SameCall
        <3> QED
            BY <2>3, <2>6, <3>1, <3>2, <3>3, BothIsCall DEF BindInv
    <2> QED
        BY <1>6, <2>6, <2>7, <2>8
<1> QED
    BY <1>1, <1>2, <1>3, <1>4, <1>5, <1>6 DEF Next

\* A login writes its own session into the key of its account.
LEMMA KeysStay ==
    ASSUME VoiceInv, VoiceAssumption, KeysAreOwn, Next
    PROVE  KeysAreOwn'
<1>1. ASSUME UNCHANGED usession PROVE KeysAreOwn'
    BY <1>1 DEF KeysAreOwn
<1>2. ASSUME NEW s \in Sessions, Login(s) \/ Cleanup(s) PROVE KeysAreOwn'
    <2>1. UserOf[s] \in Users /\ DeviceOf[s] \in Devices
        BY DEF VoiceAssumption
    <2>2. \A u \in Users, d \in Devices :
             \/ usession'[u][d] = usession[u][d]
             \/ u = UserOf[s] /\ usession'[u][d] \in {s, None}
        <3>1. CASE Login(s)
            BY <2>1, <3>1 DEF Login, VoiceInv, TypeOK
        <3>2. CASE Cleanup(s)
            BY <2>1, <3>2 DEF Cleanup, VoiceInv, TypeOK
        <3> QED
            BY <1>2, <3>1, <3>2
    <2> QED
        BY <2>2 DEF KeysAreOwn
<1>3. ASSUME NEW s \in Sessions,
             \/ Close(s) \/ FindDevice(s) \/ FindSession(s) \/ Run(s) \/ Undo(s)
             \/ Deliver(s) \/ Reply(s) \/ Accept(s) \/ Finish(s) \/ Ping(s)
             \/ Receive(s) \/ Disconnected(s)
      PROVE  UNCHANGED usession
    BY <1>3 DEF Close, FindDevice, FindSession, Run, Undo, Deliver, Reply, Accept, Finish, Ping,
                Receive, Disconnected, redisVars
<1>4. ASSUME NEW s \in Sessions, NEW p \in Users, Start(s, p) PROVE UNCHANGED usession
    BY <1>4 DEF Start, redisVars
<1>5. ASSUME NEW u \in Users, LeaseExpires(u) \/ GoesQuiet(u) PROVE UNCHANGED usession
    BY <1>5 DEF LeaseExpires, GoesQuiet
<1>6. ASSUME NEW m \in relay, LateRelay(m) PROVE UNCHANGED usession
    BY <1>6 DEF LateRelay, redisVars
<1> QED
    BY <1>1, <1>2, <1>3, <1>4, <1>5, <1>6 DEF Next

\* Bound after the step, of values from before or after it.
BoundNext(s, c, p) ==
    /\ c \in accepted' /\ calls'[c] # None
    /\ s \in {calls'[c].sa, calls'[c].sb}
    /\ p = UserOf[Peer(calls'[c], UserOf[s])]

\* What is bound stays bound.
LEMMA BoundStays ==
    ASSUME CallsGrow, NEW s, NEW c \in CallIds, NEW p, Bound(s, c, p)
    PROVE  BoundNext(s, c, p)
BY DEF CallsGrow, Bound, BoundNext

\* The request of s after a step is bound where it has to be.
WorkBoundNext(s) ==
    work'[s] # None /\ work'[s].op = "accept" =>
        /\ work'[s].step = "deliver" =>
              /\ BoundNext(s, work'[s].call, work'[s].peer)
              /\ BoundNext(work'[s].target, work'[s].call, UserOf[s])
        /\ work'[s].step = "reply" /\ work'[s].code = "Success" =>
              BoundNext(s, work'[s].call, work'[s].peer)

\* A step that moves the request of one session has to bind that one only.
LEMMA WorkKept ==
    ASSUME VoiceInv, WorkIsBound, CallsGrow, NEW s,
           \A t \in Sessions : t # s => work'[t] = work[t],
           s \in Sessions => WorkBoundNext(s)
    PROVE  WorkIsBound'
<1>1. ASSUME NEW t \in Sessions, t # s PROVE WorkBoundNext(t)
    <2>1. work'[t] = work[t]
        BY <1>1
    <2>2. work[t] # None => work[t].call \in CallIds
        BY DEF VoiceInv, TypeOK, Work
    <2> QED
        BY <2>1, <2>2, BoundStays DEF WorkIsBound, WorkBoundNext
<1>2. \A t \in Sessions : WorkBoundNext(t)
    BY <1>1
<1> QED
    BY <1>2 DEF WorkIsBound, WorkBoundNext, Bound, BoundNext

\* The request the lane takes from the queue.
LEMMA FindDeviceTakes ==
    ASSUME VoiceInv, VoiceAssumption, NEW s \in Sessions, FindDevice(s)
    PROVE  /\ \A t \in Sessions : t # s => work'[t] = work[t] /\ inbox'[t] = inbox[t]
           /\ work[s] = None /\ inbox[s] # <<>> /\ inbox'[s] = Tail(inbox[s])
           /\ work'[s].op = Head(inbox[s]).op /\ work'[s].call = Head(inbox[s]).call
           /\ work'[s].step \in {"find", "reply"}
           /\ work'[s].step = "reply" => work'[s].code # "Success"
<1> DEFINE q == Head(inbox[s])
<1>1. PICK step, device, code :
        /\ step \in {"find", "reply"} /\ (step = "reply" => code # "Success")
        /\ work' = [work EXCEPT ![s] =
                      [op |-> q.op, call |-> q.call, peer |-> q.peer, step |-> step,
                       device |-> device, target |-> None, code |-> code]]
    BY DEF FindDevice
<1>2. /\ work[s] = None /\ inbox[s] # <<>>
      /\ inbox' = [inbox EXCEPT ![s] = Tail(inbox[s])]
    BY DEF FindDevice
<1>3. work \in [Sessions -> Work \cup {None}] /\ inbox \in [Sessions -> Seq(Request)]
    BY DEF VoiceInv, TypeOK
<1> HIDE DEF q
<1>4. /\ \A t \in Sessions : t # s => work'[t] = work[t]
      /\ work'[s] = [op |-> q.op, call |-> q.call, peer |-> q.peer, step |-> step,
                     device |-> device, target |-> None, code |-> code]
    BY <1>1, <1>3
<1> QED
    BY <1>1, <1>2, <1>3, <1>4 DEF q

\* Looking up the peer's session keeps the request and commits nothing.
LEMMA FindSessionLooks ==
    ASSUME VoiceInv, NEW s \in Sessions, FindSession(s)
    PROVE  /\ work[s] # None /\ work[s].step = "find"
           /\ \A t \in Sessions : t # s => work'[t] = work[t]
           /\ work'[s].op = work[s].op /\ work'[s].call = work[s].call
           /\ work'[s].step \in {"find", "run", "reply"}
           /\ work'[s].step = "reply" => work'[s].code # "Success"
<1>1. work[s] # None /\ work[s].step = "find" /\ work[s] \in Work
    BY DEF FindSession, Working, VoiceInv, TypeOK
<1>2. \/ \E f : work' = [work EXCEPT ![s] = [work[s] EXCEPT !.step = "run", !.target = f]]
      \/ work' = [work EXCEPT ![s] = [work[s] EXCEPT !.device = "desktop"]]
      \/ \E code \in {"VoiceOffline", "VoiceInvalid"} : Answer(s, code)
    BY DEF FindSession
<1>3. work \in [Sessions -> Work \cup {None}]
    BY DEF VoiceInv, TypeOK
<1>4. ASSUME NEW f, work' = [work EXCEPT ![s] = [work[s] EXCEPT !.step = "run", !.target = f]]
      PROVE  /\ \A t \in Sessions : t # s => work'[t] = work[t]
             /\ work'[s].op = work[s].op /\ work'[s].call = work[s].call
             /\ work'[s].step = "run"
    BY <1>1, <1>3, <1>4 DEF Work
<1>5. ASSUME work' = [work EXCEPT ![s] = [work[s] EXCEPT !.device = "desktop"]]
      PROVE  /\ \A t \in Sessions : t # s => work'[t] = work[t]
             /\ work'[s].op = work[s].op /\ work'[s].call = work[s].call
             /\ work'[s].step = "find"
    BY <1>1, <1>3, <1>5 DEF Work
<1>6. ASSUME NEW code \in {"VoiceOffline", "VoiceInvalid"}, Answer(s, code)
      PROVE  Advances(s) /\ work'[s].step = "reply" /\ work'[s].code # "Success"
    BY <1>1, <1>6, AnswerAdvances
<1> QED
    BY <1>1, <1>2, <1>4, <1>5, <1>6 DEF Advances

\* A delivery is answered with success or undone.
LEMMA DeliverMoves ==
    ASSUME VoiceInv, NEW s \in Sessions, Deliver(s)
    PROVE  /\ work[s] # None /\ work[s].step = "deliver" /\ Advances(s)
           /\ work'[s].step \in {"reply", "undo"}
<1>1. work[s] # None /\ work[s].step = "deliver"
    BY DEF Deliver, Working
<1>2. Answer(s, "Success") \/ Continue(s, "undo")
    BY DEF Deliver
<1> QED
    BY <1>1, <1>2, AnswerAdvances, ContinueAdvances

\* Requests in work stay bound.
LEMMA WorkStays ==
    ASSUME VoiceInv, VoiceAssumption, BindInv, Next
    PROVE  WorkIsBound'
<1>1. CallsGrow /\ WorkIsBound
    BY CallsStay DEF BindInv
<1>2. ASSUME UNCHANGED work PROVE WorkIsBound'
    <2>1. PICK s : s \notin Sessions
        BY VoiceAssumption DEF VoiceAssumption
    <2> QED
        BY <1>1, <1>2, <2>1, WorkKept
<1>3. ASSUME NEW s \in Sessions, FindDevice(s) \/ FindSession(s) PROVE WorkIsBound'
    <2>1. /\ \A t \in Sessions : t # s => work'[t] = work[t]
          /\ work'[s].step \in {"find", "run", "reply"}
          /\ work'[s].step = "reply" => work'[s].code # "Success"
        BY <1>3, FindDeviceTakes, FindSessionLooks
    <2>2. WorkBoundNext(s)
        BY <2>1 DEF WorkBoundNext
    <2> QED
        BY <1>1, <2>1, <2>2, WorkKept
<1>4. ASSUME NEW s \in Sessions, Run(s) PROVE WorkIsBound'
    <2>1. PICK w : w = work[s]
        OBVIOUS
    <2>2. /\ Advances(s) /\ work'[s].step \in {"deliver", "reply"}
          /\ w.op = "accept" /\ work'[s].step = "deliver" =>
               Bound(s, w.call, w.peer)' /\ Bound(w.target, w.call, UserOf[s])'
          /\ w.op = "accept" /\ work'[s].step = "reply" => work'[s].code # "Success"
        BY <1>4, <2>1, RunBinds
    <2>3. WorkBoundNext(s)
        BY <2>1, <2>2 DEF WorkBoundNext, Advances, Bound, BoundNext
    <2> QED
        BY <1>1, <2>2, <2>3, WorkKept DEF Advances
<1>5. ASSUME NEW s \in Sessions, Undo(s) PROVE WorkIsBound'
    <2>1. Advances(s) /\ work'[s].step = "reply" /\ work'[s].code = "VoiceOffline"
        BY <1>5, UndoBinds
    <2>2. WorkBoundNext(s)
        BY <2>1 DEF WorkBoundNext
    <2> QED
        BY <1>1, <2>1, <2>2, WorkKept DEF Advances
<1>6. ASSUME NEW s \in Sessions, Deliver(s) PROVE WorkIsBound'
    <2>1. /\ work[s] # None /\ work[s].step = "deliver" /\ Advances(s)
          /\ work'[s].step \in {"reply", "undo"}
        BY <1>6, DeliverMoves
    <2>2. work[s].call \in CallIds
        BY <2>1 DEF VoiceInv, TypeOK, Work
    <2>3. work[s].op = "accept" => BoundNext(s, work[s].call, work[s].peer)
        BY <1>1, <2>1, <2>2, BoundStays DEF WorkIsBound
    <2>4. WorkBoundNext(s)
        BY <2>1, <2>3 DEF WorkBoundNext, Advances
    <2> QED
        BY <1>1, <2>1, <2>4, WorkKept DEF Advances
<1>7. ASSUME NEW s \in Sessions, Reply(s) PROVE WorkIsBound'
    <2>1. work'[s] = None /\ \A t \in Sessions : t # s => work'[t] = work[t]
        BY <1>7 DEF Reply, VoiceInv, TypeOK
    <2>2. WorkBoundNext(s)
        BY <2>1 DEF WorkBoundNext
    <2> QED
        BY <1>1, <2>1, <2>2, WorkKept
<1>8. ASSUME NEW s \in Sessions,
             \/ Login(s) \/ Close(s) \/ Cleanup(s) \/ Accept(s) \/ Finish(s) \/ Ping(s)
             \/ Receive(s) \/ Disconnected(s)
      PROVE  UNCHANGED work
    BY <1>8 DEF Login, Close, Cleanup, Accept, Finish, Ping, Receive, Disconnected, nodeVars
<1>9. ASSUME NEW s \in Sessions, NEW p \in Users, Start(s, p) PROVE UNCHANGED work
    BY <1>9 DEF Start
<1>10. ASSUME NEW u \in Users, LeaseExpires(u) \/ GoesQuiet(u) PROVE UNCHANGED work
    BY <1>10 DEF LeaseExpires, GoesQuiet, nodeVars
<1>11. ASSUME NEW m \in relay, LateRelay(m) PROVE UNCHANGED work
    BY <1>11 DEF LateRelay
<1> QED
    BY <1>2, <1>3, <1>4, <1>5, <1>6, <1>7, <1>8, <1>9, <1>10, <1>11 DEF Next

\* Binding after the step.
BindingNext(s, e) ==
    e.op = "accept" /\ e.code = "Success" => BoundNext(s, e.call, e.peer)

\* What a step may do to the events queued for s.
OutboxMoves(s) ==
    \/ outbox'[s] = outbox[s]
    \/ outbox'[s] = <<>>
    \/ outbox[s] # <<>> /\ outbox'[s] = Tail(outbox[s])
    \/ \E e \in Event : outbox'[s] = Append(outbox[s], e) /\ BindingNext(s, e)

\* Events that are kept stay bound, and those that are added have to be.
LEMMA EventsKept ==
    ASSUME VoiceInv, EventsAreBound, CallsGrow,
           \A s \in Sessions : OutboxMoves(s),
           \A m \in relay' : m \in relay \/ BindingNext(m.to, m.event)
    PROVE  EventsAreBound'
<1>1. ASSUME NEW s, NEW e \in Event, Binding(s, e) PROVE BindingNext(s, e)
    <2>1. e.call \in CallIds
        BY DEF Event
    <2> QED
        BY <1>1, <2>1, BoundStays DEF Binding, BindingNext
<1>2. ASSUME NEW s \in Sessions, NEW i \in 1 .. Len(outbox'[s])
      PROVE  BindingNext(s, outbox'[s][i])
    <2>1. PICK q : q = outbox[s]
        OBVIOUS
    <2>2. q \in Seq(Event)
        BY <2>1 DEF VoiceInv, TypeOK
    <2>3. \A j \in 1 .. Len(q) : q[j] \in Event /\ BindingNext(s, q[j])
        BY <1>1, <2>1, <2>2 DEF EventsAreBound
    <2>4. CASE outbox'[s] = q
        BY <1>2, <2>3, <2>4
    <2>5. CASE outbox'[s] = <<>>
        BY <1>2, <2>5
    <2>6. CASE q # <<>> /\ outbox'[s] = Tail(q)
        <3>1. i + 1 \in 1 .. Len(q) /\ Tail(q)[i] = q[i + 1]
            BY <1>2, <2>2, <2>6
        <3> QED
            BY <2>3, <2>6, <3>1
    <2>7. CASE \E e \in Event : outbox'[s] = Append(q, e) /\ BindingNext(s, e)
        <3>1. PICK e \in Event : outbox'[s] = Append(q, e) /\ BindingNext(s, e)
            BY <2>7
        <3>2. \/ i \in 1 .. Len(q) /\ outbox'[s][i] = q[i]
              \/ outbox'[s][i] = e
            BY <1>2, <2>2, <3>1
        <3> QED
            BY <2>3, <3>1, <3>2
    <2>8. OutboxMoves(s)
        OBVIOUS
    <2> QED
        BY <2>1, <2>4, <2>5, <2>6, <2>7, <2>8 DEF OutboxMoves
<1>3. ASSUME NEW m \in relay' PROVE BindingNext(m.to, m.event)
    <2>1. m \in relay => m.event \in Event
        BY DEF VoiceInv, TypeOK
    <2> QED
        BY <1>1, <1>3, <2>1 DEF EventsAreBound
<1> QED
    BY <1>2, <1>3 DEF EventsAreBound, Binding, BindingNext, Bound, BoundNext

\* Events stay bound.
LEMMA EventsStay ==
    ASSUME VoiceInv, VoiceAssumption, BindInv, Next
    PROVE  EventsAreBound'
<1>1. CallsGrow /\ EventsAreBound
    BY CallsStay DEF BindInv
<1>2. ASSUME UNCHANGED <<outbox, relay>> PROVE EventsAreBound'
    BY <1>1, <1>2, EventsKept DEF OutboxMoves
<1>3. ASSUME NEW s \in Sessions, Close(s) \/ Receive(s) PROVE EventsAreBound'
    <2>1. relay' = relay
        BY <1>3 DEF Close, Receive
    <2>2. \A t \in Sessions : OutboxMoves(t)
        BY <1>3 DEF Close, Receive, OutboxMoves, VoiceInv, TypeOK
    <2> QED
        BY <1>1, <2>1, <2>2, EventsKept
<1>4. ASSUME NEW t \in Sessions, NEW e \in Event, Push(t, e), BindingNext(t, e)
      PROVE  \A x \in Sessions : OutboxMoves(x)
    <2>1. outbox'[t] = Append(outbox[t], e) /\ \A x \in Sessions : x # t => outbox'[x] = outbox[x]
        BY <1>4 DEF Push, VoiceInv, TypeOK
    <2> QED
        BY <1>4, <2>1 DEF OutboxMoves
<1>5. ASSUME NEW s \in Sessions, Deliver(s) PROVE EventsAreBound'
    <2>1. work[s] # None /\ work[s].step = "deliver" /\ work[s].target \in Sessions /\ work[s] \in Work
        BY <1>5 DEF Deliver, Working, VoiceInv, TypeOK, WorkIsSound
    <2>2. PICK t, e : t = work[s].target /\ e = EventOf(s)
        OBVIOUS
    <2>3. e \in Event
        BY <2>1, <2>2 DEF EventOf, Event, Work, Codes, VoiceAssumption
    <2>4. e.op = work[s].op /\ e.call = work[s].call /\ e.peer = UserOf[s] /\ e.call \in CallIds
        BY <2>1, <2>2 DEF EventOf, Work
    <2>5. BindingNext(t, e)
        <3>1. e.op = "accept" => Bound(t, e.call, e.peer)
            BY <2>1, <2>2, <2>4 DEF BindInv, WorkIsBound
        <3> QED
            BY <1>1, <2>4, <3>1, BoundStays DEF BindingNext
    <2>6. \/ Push(t, e) /\ UNCHANGED relay
          \/ UNCHANGED outbox /\ relay' = relay
          \/ UNCHANGED outbox /\ relay' = relay \cup {[to |-> t, event |-> e]}
        BY <1>5, <2>2 DEF Deliver
    <2>7. \A x \in Sessions : OutboxMoves(x)
        BY <1>4, <2>1, <2>2, <2>3, <2>5, <2>6 DEF OutboxMoves
    <2>8. \A m \in relay' : m \in relay \/ BindingNext(m.to, m.event)
        BY <2>5, <2>6
    <2> QED
        BY <1>1, <2>7, <2>8, EventsKept
<1>6. ASSUME NEW m \in relay, LateRelay(m) PROVE EventsAreBound'
    <2>1. m.to \in Sessions /\ m.event \in Event
        BY DEF VoiceInv, TypeOK
    <2>2. m.event.call \in CallIds
        BY <2>1 DEF Event
    <2>3. BindingNext(m.to, m.event)
        BY <1>1, <2>2, BoundStays DEF EventsAreBound, Binding, BindingNext
    <2>4. relay' \subseteq relay /\ (Push(m.to, m.event) \/ UNCHANGED outbox)
        BY <1>6 DEF LateRelay
    <2>5. \A x \in Sessions : OutboxMoves(x)
        BY <1>4, <2>1, <2>3, <2>4 DEF OutboxMoves
    <2> QED
        BY <1>1, <2>4, <2>5, EventsKept
<1>7. ASSUME NEW s \in Sessions, Reply(s) PROVE EventsAreBound'
    <2>1. work[s] # None /\ work[s].step = "reply" /\ work[s] \in Work
        BY <1>7 DEF Reply, Working, VoiceInv, TypeOK
    <2> DEFINE f == [op |-> work[s].op, call |-> work[s].call, peer |-> work[s].peer,
                     incoming |-> FALSE, code |-> work[s].code]
    <2>2. PICK e : e = f
        OBVIOUS
    <2>3. e \in Event
        BY <2>1, <2>2 DEF Event, Work
    <2>4. /\ e.op = work[s].op /\ e.call = work[s].call /\ e.peer = work[s].peer
          /\ e.code = work[s].code /\ e.call \in CallIds
        BY <2>1, <2>2 DEF Work
    <2>5. relay' = relay /\ (Push(s, e) \/ UNCHANGED outbox)
        BY <1>7, <2>2 DEF Reply
    <2>6. BindingNext(s, e)
        <3>1. e.op = "accept" /\ e.code = "Success" => Bound(s, e.call, e.peer)
            BY <2>1, <2>4 DEF BindInv, WorkIsBound
        <3> QED
            BY <1>1, <2>4, <3>1, BoundStays DEF BindingNext
    <2>7. \A x \in Sessions : OutboxMoves(x)
        BY <1>4, <2>3, <2>5, <2>6 DEF OutboxMoves
    <2> QED
        BY <1>1, <2>5, <2>7, EventsKept
<1>8. ASSUME NEW s \in Sessions,
             \/ Login(s) \/ Cleanup(s) \/ FindDevice(s) \/ FindSession(s) \/ Run(s) \/ Undo(s)
             \/ Accept(s) \/ Finish(s) \/ Ping(s) \/ Disconnected(s)
      PROVE  UNCHANGED <<outbox, relay>>
    BY <1>8 DEF Login, Cleanup, FindDevice, FindSession, Run, Undo, Accept, Finish, Ping,
                Disconnected, nodeVars
<1>9. ASSUME NEW s \in Sessions, NEW p \in Users, Start(s, p) PROVE UNCHANGED <<outbox, relay>>
    BY <1>9 DEF Start
<1>10. ASSUME NEW u \in Users, LeaseExpires(u) \/ GoesQuiet(u) PROVE UNCHANGED <<outbox, relay>>
    BY <1>10 DEF LeaseExpires, GoesQuiet, nodeVars
<1> QED
    BY <1>2, <1>3, <1>5, <1>6, <1>7, <1>8, <1>9, <1>10 DEF Next

\* A client becomes active by an event only, and the event is bound.
LEMMA ClientsStay ==
    ASSUME VoiceInv, VoiceAssumption, BindInv, Next
    PROVE  ClientsAreBound'
<1>1. CallsGrow /\ ClientsAreBound
    BY CallsStay DEF BindInv
<1> DEFINE Moves(s) == \/ client'[s] = client[s]
                       \/ client'[s].state # "Active"
                       \/ BoundNext(s, client'[s].call, client'[s].peer)
<1>2. ASSUME \A s \in Sessions : Moves(s) PROVE ClientsAreBound'
    <2>1. ASSUME NEW s \in Sessions, client'[s].state = "Active"
          PROVE  BoundNext(s, client'[s].call, client'[s].peer)
        <3>1. CASE client'[s] = client[s]
            <4>1. client[s].call \in CallIds
                BY <2>1, <3>1 DEF VoiceInv, ClientIsSound
            <4> QED
                BY <1>1, <2>1, <3>1, <4>1, BoundStays DEF ClientsAreBound
        <3> QED
            BY <1>2, <2>1, <3>1
    <2> QED
        BY <2>1 DEF ClientsAreBound, Bound, BoundNext
<1>3. ASSUME UNCHANGED client PROVE \A s \in Sessions : Moves(s)
    BY <1>3
<1>4. ASSUME NEW s \in Sessions, Finish(s) \/ Disconnected(s) PROVE \A t \in Sessions : Moves(t)
    BY <1>4 DEF Finish, FinishCall, Disconnected, IdleClient, VoiceInv, TypeOK
<1>5. ASSUME NEW s \in Sessions, Accept(s) PROVE \A t \in Sessions : Moves(t)
    <2>1. client' = [client EXCEPT ![s] = [client[s] EXCEPT !.state = "Connecting"]]
        BY <1>5 DEF Accept
    <2>2. client'[s].state = "Connecting" /\ \A t \in Sessions : t # s => client'[t] = client[t]
        BY <2>1 DEF VoiceInv, TypeOK
    <2> QED
        BY <2>2
<1>6. ASSUME NEW s \in Sessions, NEW p \in Users, Start(s, p) PROVE \A t \in Sessions : Moves(t)
    BY <1>6 DEF Start, VoiceInv, TypeOK
<1>7. ASSUME NEW s \in Sessions, Receive(s) PROVE \A t \in Sessions : Moves(t)
    <2>1. PICK e : e = Head(outbox[s])
        OBVIOUS
    <2>2. outbox[s] # <<>> /\ outbox[s] \in Seq(Event)
        BY <1>7 DEF Receive, VoiceInv, TypeOK
    <2>3. e \in Event /\ e = outbox[s][1] /\ 1 \in 1 .. Len(outbox[s])
        BY <2>1, <2>2
    <2>4. Binding(s, e) /\ e.call \in CallIds
        BY <2>3 DEF BindInv, EventsAreBound, Event
    <2>5. \/ client' = [client EXCEPT ![s] = [state |-> "Incoming", call |-> e.call, peer |-> e.peer]]
          \/ client' = [client EXCEPT ![s] = IdleClient]
          \/ Connects(s, e) /\ client' = [client EXCEPT ![s] = [client[s] EXCEPT !.state = "Active"]]
          \/ client' = client
        BY <1>7, <2>1 DEF Receive, FinishCall
    <2>6. CASE client' = [client EXCEPT ![s] = [state |-> "Incoming", call |-> e.call, peer |-> e.peer]]
        BY <2>6 DEF VoiceInv, TypeOK
    <2>7. CASE client' = [client EXCEPT ![s] = IdleClient]
        BY <2>7 DEF VoiceInv, TypeOK, IdleClient
    <2>8. CASE Connects(s, e) /\ client' = [client EXCEPT ![s] = [client[s] EXCEPT !.state = "Active"]]
        <3>1. /\ client'[s].call = client[s].call /\ client'[s].peer = client[s].peer
              /\ \A t \in Sessions : t # s => client'[t] = client[t]
            BY <2>8 DEF VoiceInv, TypeOK
        <3>2. e.op = "accept" /\ e.code = "Success" /\ e.call = client[s].call /\ e.peer = client[s].peer
            BY <2>8 DEF Connects, Concerns
        <3>3. BoundNext(s, e.call, e.peer)
            BY <1>1, <2>4, <3>2, BoundStays DEF Binding
        <3> QED
            BY <3>1, <3>2, <3>3
    <2>9. CASE client' = client
        BY <2>9
    <2> QED
        BY <2>5, <2>6, <2>7, <2>8, <2>9
<1>8. ASSUME NEW s \in Sessions,
             \/ Login(s) \/ Close(s) \/ Cleanup(s) \/ FindDevice(s) \/ FindSession(s) \/ Run(s)
             \/ Undo(s) \/ Deliver(s) \/ Reply(s) \/ Ping(s)
      PROVE  UNCHANGED client
    BY <1>8 DEF Login, Close, Cleanup, FindDevice, FindSession, Run, Undo, Deliver, Reply, Ping
<1>9. ASSUME NEW u \in Users, LeaseExpires(u) \/ GoesQuiet(u) PROVE UNCHANGED client
    BY <1>9 DEF LeaseExpires, GoesQuiet
<1>10. ASSUME NEW m \in relay, LateRelay(m) PROVE UNCHANGED client
    BY <1>10 DEF LateRelay
<1>11. \A s \in Sessions : Moves(s)
    BY <1>3, <1>4, <1>5, <1>6, <1>7, <1>8, <1>9, <1>10 DEF Next
<1> QED
    BY <1>2, <1>11

\* Queued and Inviting after the step.
QueuedNext(s, i, c) ==
    /\ i \in 1 .. Len(inbox'[s])
    /\ inbox'[s][i].op = "invite" /\ inbox'[s][i].call = c

InvitingNext(s, c) ==
    /\ work'[s] # None /\ work'[s].op = "invite" /\ work'[s].call = c
    /\ work'[s].step \in {"find", "run"}

\* InvitesOnce after the step.
LEMMA InvitesNext ==
    ASSUME \A c \in CallIds :
             /\ calls'[c] # None => c <= issued'
             /\ \A s \in Sessions, i \in Nat : QueuedNext(s, i, c) =>
                   /\ c <= issued' /\ calls'[c] = None
                   /\ \A t \in Sessions, j \in Nat : QueuedNext(t, j, c) => t = s /\ j = i
                   /\ \A t \in Sessions : ~InvitingNext(t, c)
             /\ \A s \in Sessions : InvitingNext(s, c) =>
                   /\ c <= issued' /\ calls'[c] = None
                   /\ \A t \in Sessions : InvitingNext(t, c) => t = s
    PROVE  InvitesOnce'
BY DEF InvitesOnce, QueuedNext, InvitingNext, Queued, Inviting

\* A step that adds no invite and creates no call.
LEMMA InvitesKept ==
    ASSUME InvitesOnce, UNCHANGED <<calls, issued>>,
           \A s \in Sessions, i \in Nat, c \in CallIds : QueuedNext(s, i, c) => Queued(s, i, c),
           \A s \in Sessions, c \in CallIds : InvitingNext(s, c) => Inviting(s, c)
    PROVE  InvitesOnce'
BY InvitesNext DEF InvitesOnce

\* Requests that are kept in work are kept.
LEMMA InvitingKept ==
    ASSUME NEW s \in Sessions, work'[s] = work[s]
    PROVE  \A c \in CallIds : InvitingNext(s, c) => Inviting(s, c)
BY DEF InvitingNext, Inviting

\* So are queues that are left alone.
LEMMA QueuedKept ==
    ASSUME NEW s \in Sessions, inbox'[s] = inbox[s]
    PROVE  \A i \in Nat, c \in CallIds : QueuedNext(s, i, c) => Queued(s, i, c)
BY DEF QueuedNext, Queued

\* A client's requests other than the invite add no invite.
LEMMA SendKeepsInvites ==
    ASSUME VoiceInv, NEW s \in Sessions, NEW op, op # "invite", NEW call, NEW peer,
           Send(s, op, call, peer)
    PROVE  \A t \in Sessions, i \in Nat, c \in CallIds : QueuedNext(t, i, c) => Queued(t, i, c)
<1>1. PICK q : q = inbox[s]
    OBVIOUS
<1>2. PICK r : r = [op |-> op, call |-> call, peer |-> peer]
    OBVIOUS
<1>3. q \in Seq(Request) /\ r.op # "invite"
    BY <1>1, <1>2 DEF VoiceInv, TypeOK
<1>4. /\ \A t \in Sessions : t # s => inbox'[t] = inbox[t]
      /\ inbox'[s] = q \/ inbox'[s] = Append(q, r)
    BY <1>1, <1>2 DEF Send, VoiceInv, TypeOK
<1>5. ASSUME NEW i \in Nat, NEW c \in CallIds, QueuedNext(s, i, c) PROVE Queued(s, i, c)
    <2>1. CASE inbox'[s] = q
        BY <1>1, <1>5, <2>1, QueuedKept
    <2>2. CASE inbox'[s] = Append(q, r)
        <3>1. i \in 1 .. Len(q) + 1 /\ inbox'[s][i].op = "invite"
            BY <1>3, <1>5, <2>2 DEF QueuedNext
        <3>2. i # Len(q) + 1
            BY <1>3, <2>2, <3>1
        <3>3. i \in 1 .. Len(q) /\ inbox'[s][i] = q[i]
            BY <1>3, <2>2, <3>1, <3>2
        <3> QED
            BY <1>1, <1>5, <3>3 DEF QueuedNext, Queued
    <2> QED
        BY <1>4, <2>1, <2>2
<1> QED
    BY <1>4, <1>5, QueuedKept

\* There is one invite per call, and it creates its call once.
LEMMA InvitesStay ==
    ASSUME VoiceInv, VoiceAssumption, BindInv, Next
    PROVE  InvitesOnce'
<1> USE DEF BindInv
<1>1. ASSUME UNCHANGED <<calls, issued, work>>,
             \A s \in Sessions, i \in Nat, c \in CallIds : QueuedNext(s, i, c) => Queued(s, i, c)
      PROVE  InvitesOnce'
    BY <1>1, InvitingKept, InvitesKept
<1>2. ASSUME UNCHANGED <<calls, issued, work, inbox>> PROVE InvitesOnce'
    BY <1>1, <1>2, QueuedKept
<1>3. ASSUME NEW s \in Sessions, UNCHANGED <<calls, issued, inbox>>,
             \A t \in Sessions : t # s => work'[t] = work[t],
             \A c \in CallIds : InvitingNext(s, c) => Inviting(s, c)
      PROVE  InvitesOnce'
    BY <1>3, InvitingKept, QueuedKept, InvitesKept
<1>4. ASSUME NEW s \in Sessions, Close(s) PROVE InvitesOnce'
    <2>1. \A t \in Sessions : inbox'[t] = inbox[t] \/ inbox'[t] = <<>>
        BY <1>4 DEF Close, VoiceInv, TypeOK
    <2>2. \A t \in Sessions, i \in Nat, c \in CallIds : QueuedNext(t, i, c) => Queued(t, i, c)
        BY <2>1, QueuedKept DEF QueuedNext
    <2> QED
        BY <1>1, <1>4, <2>2 DEF Close
<1>5. ASSUME NEW s \in Sessions, Accept(s) \/ Finish(s) \/ Ping(s) PROVE InvitesOnce'
    <2>1. \E op, call, peer : op # "invite" /\ Send(s, op, call, peer)
        BY <1>5 DEF Accept, Finish, FinishCall, FinishOp, Ping
    <2>2. \A t \in Sessions, i \in Nat, c \in CallIds : QueuedNext(t, i, c) => Queued(t, i, c)
        BY <2>1, SendKeepsInvites
    <2> QED
        BY <1>1, <1>5, <2>2 DEF Accept, Finish, Ping
<1>6. ASSUME NEW s \in Sessions, Receive(s) PROVE InvitesOnce'
    <2>1. UNCHANGED <<calls, issued, work>> /\ (UNCHANGED inbox \/ FinishCall(s))
        BY <1>6 DEF Receive
    <2>2. CASE UNCHANGED inbox
        BY <1>2, <2>1, <2>2
    <2>3. CASE FinishCall(s)
        <3>1. \E op, call, peer : op # "invite" /\ Send(s, op, call, peer)
            BY <2>3 DEF FinishCall, FinishOp
        <3>2. \A t \in Sessions, i \in Nat, c \in CallIds : QueuedNext(t, i, c) => Queued(t, i, c)
            BY <3>1, SendKeepsInvites
        <3> QED
            BY <1>1, <2>1, <3>2
    <2> QED
        BY <2>1, <2>2, <2>3
<1>7. ASSUME NEW s \in Sessions, FindSession(s) PROVE InvitesOnce'
    <2>1. /\ work[s] # None /\ work[s].step = "find"
          /\ \A t \in Sessions : t # s => work'[t] = work[t]
          /\ work'[s].op = work[s].op /\ work'[s].call = work[s].call
        BY <1>7, FindSessionLooks
    <2>2. \A c \in CallIds : InvitingNext(s, c) => Inviting(s, c)
        BY <2>1 DEF InvitingNext, Inviting
    <2> QED
        BY <1>3, <1>7, <2>1, <2>2 DEF FindSession
<1>8. ASSUME NEW s \in Sessions, Deliver(s) PROVE InvitesOnce'
    <2>1. Advances(s) /\ work'[s].step \in {"reply", "undo"}
        BY <1>8, DeliverMoves
    <2>2. \A c \in CallIds : InvitingNext(s, c) => Inviting(s, c)
        BY <2>1 DEF InvitingNext
    <2> QED
        BY <1>3, <1>8, <2>1, <2>2 DEF Deliver, Advances
<1>9. ASSUME NEW s \in Sessions, Reply(s) PROVE InvitesOnce'
    <2>1. work'[s] = None /\ \A t \in Sessions : t # s => work'[t] = work[t]
        BY <1>9 DEF Reply, VoiceInv, TypeOK
    <2>2. \A c \in CallIds : InvitingNext(s, c) => Inviting(s, c)
        BY <2>1 DEF InvitingNext
    <2> QED
        BY <1>3, <1>9, <2>1, <2>2 DEF Reply
<1>10. ASSUME NEW s \in Sessions, Run(s) \/ Undo(s) PROVE InvitesOnce'
    <2>1. PICK w : w = work[s]
        OBVIOUS
    <2>2. /\ Advances(s) /\ work'[s].step \in {"deliver", "reply"}
          /\ \A c \in CallIds : calls'[c] # calls[c] => Inviting(s, c)
        BY <1>10, <2>1, RunBinds, UndoBinds
    <2>3. issued' = issued /\ inbox' = inbox
        BY <1>10 DEF Run, Undo
    <2>4. \A t \in Sessions, c \in CallIds : InvitingNext(t, c) => Inviting(t, c) /\ t # s
        <3>1. \A c \in CallIds : ~InvitingNext(s, c)
            BY <2>2 DEF InvitingNext
        <3> QED
            BY <2>2, <3>1, InvitingKept DEF Advances
    <2>5. \A t \in Sessions, i \in Nat, c \in CallIds : QueuedNext(t, i, c) => Queued(t, i, c)
        BY <2>3, QueuedKept
    <2>6. ASSUME NEW c \in CallIds, calls'[c] # calls[c]
          PROVE  /\ c <= issued
                 /\ \A t \in Sessions, i \in Nat : ~QueuedNext(t, i, c)
                 /\ \A t \in Sessions : ~InvitingNext(t, c)
        BY <2>2, <2>4, <2>5, <2>6 DEF InvitesOnce
    <2> QED
        BY <2>3, <2>4, <2>5, <2>6, InvitesNext DEF InvitesOnce
<1>11. ASSUME NEW s \in Sessions, FindDevice(s) PROVE InvitesOnce'
    <2>1. /\ \A t \in Sessions : t # s => work'[t] = work[t] /\ inbox'[t] = inbox[t]
          /\ work[s] = None /\ inbox[s] # <<>> /\ inbox'[s] = Tail(inbox[s])
          /\ work'[s].op = Head(inbox[s]).op /\ work'[s].call = Head(inbox[s]).call
        BY <1>11, FindDeviceTakes
    <2>2. calls' = calls /\ issued' = issued
        BY <1>11 DEF FindDevice
    <2>3. inbox[s] \in Seq(Request)
        BY DEF VoiceInv, TypeOK
    <2>4. \A t \in Sessions, i \in Nat, c \in CallIds : t # s /\ QueuedNext(t, i, c) => Queued(t, i, c)
        BY <2>1, QueuedKept
    <2>5. \A i \in Nat, c \in CallIds : QueuedNext(s, i, c) => Queued(s, i + 1, c) /\ i # 0
        <3>1. ASSUME NEW i \in 1 .. Len(inbox'[s])
              PROVE  i + 1 \in 1 .. Len(inbox[s]) /\ inbox'[s][i] = inbox[s][i + 1]
            BY <2>1, <2>3, <3>1
        <3> QED
            BY <3>1 DEF QueuedNext, Queued
    <2>6. \A t \in Sessions, c \in CallIds : t # s /\ InvitingNext(t, c) => Inviting(t, c)
        BY <2>1, InvitingKept
    <2>7. \A c \in CallIds : InvitingNext(s, c) => Queued(s, 1, c)
        <3>1. 1 \in 1 .. Len(inbox[s]) /\ Head(inbox[s]) = inbox[s][1]
            BY <2>1, <2>3
        <3> QED
            BY <2>1, <3>1 DEF InvitingNext, Queued
    <2>8. ASSUME NEW c \in CallIds, NEW x \in Sessions, NEW i \in Nat, QueuedNext(x, i, c)
          PROVE  /\ c <= issued /\ calls[c] = None
                 /\ \A t \in Sessions, j \in Nat : QueuedNext(t, j, c) => t = x /\ j = i
                 /\ \A t \in Sessions : ~InvitingNext(t, c)
        <3>1. PICK k \in Nat : Queued(x, k, c) /\ (x = s => k = i + 1 /\ i # 0) /\ (x # s => k = i)
            BY <2>4, <2>5, <2>8
        <3>2. /\ c <= issued /\ calls[c] = None
              /\ \A t \in Sessions, j \in Nat : Queued(t, j, c) => t = x /\ j = k
              /\ \A t \in Sessions : ~Inviting(t, c)
            BY <3>1 DEF InvitesOnce
        <3>3. ASSUME NEW t \in Sessions, NEW j \in Nat, QueuedNext(t, j, c) PROVE t = x /\ j = i
            <4>1. CASE t = s
                <5>1. Queued(s, j + 1, c) /\ j + 1 \in Nat
                    BY <2>5, <3>3, <4>1
                <5>2. s = x /\ j + 1 = k
                    BY <3>2, <5>1
                <5> QED
                    BY <3>1, <4>1, <5>2
            <4>2. CASE t # s
                <5>1. t = x /\ j = k
                    BY <2>4, <3>2, <3>3, <4>2
                <5> QED
                    BY <3>1, <4>2, <5>1
            <4> QED
                BY <4>1, <4>2
        <3>4. ASSUME NEW t \in Sessions, InvitingNext(t, c) PROVE FALSE
            <4>1. CASE t = s
                <5>1. Queued(s, 1, c)
                    BY <2>7, <3>4, <4>1
                <5>2. s = x /\ k = 1
                    BY <3>2, <5>1
                <5> QED
                    BY <3>1, <5>2
            <4>2. CASE t # s
                BY <2>6, <3>2, <3>4, <4>2
            <4> QED
                BY <4>1, <4>2
        <3> QED
            BY <3>2, <3>3, <3>4
    <2>9. ASSUME NEW c \in CallIds, NEW x \in Sessions, InvitingNext(x, c)
          PROVE  /\ c <= issued /\ calls[c] = None
                 /\ \A t \in Sessions : InvitingNext(t, c) => t = x
        <3>1. CASE x = s
            <4>1. Queued(s, 1, c)
                BY <2>7, <2>9, <3>1
            <4>2. /\ c <= issued /\ calls[c] = None
                  /\ \A t \in Sessions : ~Inviting(t, c)
                BY <4>1 DEF InvitesOnce
            <4> QED
                BY <2>6, <3>1, <4>2
        <3>2. CASE x # s
            <4>1. Inviting(x, c)
                BY <2>6, <2>9, <3>2
            <4>2. /\ c <= issued /\ calls[c] = None
                  /\ \A t \in Sessions : Inviting(t, c) => t = x
                  /\ ~Queued(s, 1, c)
                BY <4>1 DEF InvitesOnce
            <4> QED
                BY <2>6, <2>7, <4>2
        <3> QED
            BY <3>1, <3>2
    <2>10. \A c \in CallIds : calls[c] # None => c <= issued
        BY DEF InvitesOnce
    <2> QED
        BY <2>2, <2>8, <2>9, <2>10, InvitesNext
<1>12. ASSUME NEW s \in Sessions, NEW p \in Users, Start(s, p) PROVE InvitesOnce'
    <2>1. calls' = calls /\ work' = work /\ issued' = issued + 1 /\ issued \in Nat
        BY <1>12 DEF Start, VoiceInv, TypeOK
    <2>2. PICK q : q = inbox[s]
        OBVIOUS
    <2>3. PICK r : r = [op |-> "invite", call |-> issued + 1, peer |-> p]
        OBVIOUS
    <2>4. q \in Seq(Request) /\ r.call = issued + 1
        BY <2>2, <2>3 DEF VoiceInv, TypeOK
    <2>5. inbox'[s] = Append(q, r) /\ \A t \in Sessions : t # s => inbox'[t] = inbox[t]
        BY <1>12, <2>2, <2>3 DEF Start, Send, VoiceInv, TypeOK
    <2>6. \A t \in Sessions, i \in Nat, c \in CallIds : t # s /\ QueuedNext(t, i, c) => Queued(t, i, c)
        BY <2>5, QueuedKept
    <2>7. ASSUME NEW i \in Nat, NEW c \in CallIds, QueuedNext(s, i, c)
          PROVE  Queued(s, i, c) \/ (i = Len(q) + 1 /\ c = issued + 1)
        <3>1. i \in 1 .. Len(q) + 1 /\ inbox'[s][i].op = "invite" /\ inbox'[s][i].call = c
            BY <2>4, <2>5, <2>7 DEF QueuedNext
        <3>2. CASE i = Len(q) + 1
            BY <2>4, <2>5, <3>1, <3>2
        <3>3. CASE i # Len(q) + 1
            <4>1. i \in 1 .. Len(q) /\ inbox'[s][i] = q[i]
                BY <2>4, <2>5, <3>1, <3>3
            <4> QED
                BY <2>2, <3>1, <4>1 DEF Queued
        <3> QED
            BY <3>2, <3>3
    <2>8. \A t \in Sessions, c \in CallIds : InvitingNext(t, c) => Inviting(t, c)
        BY <2>1, InvitingKept
    <2>9. \A c \in CallIds : c \in Nat
        BY DEF CallIds
    <2>10. \A t \in Sessions, i \in Nat, c \in CallIds :
              /\ Queued(t, i, c) \/ Inviting(t, c) => c # issued + 1
              /\ calls[c] # None => c # issued + 1
        BY <2>1, <2>9 DEF InvitesOnce
    <2>11. \A c \in CallIds : c <= issued => c <= issued'
        BY <2>1, <2>9
    <2>12. ASSUME NEW c \in CallIds, c = issued + 1
           PROVE  /\ c <= issued' /\ calls'[c] = None
                  /\ \A t \in Sessions : ~InvitingNext(t, c)
                  /\ \A t \in Sessions, i \in Nat : QueuedNext(t, i, c) => t = s /\ i = Len(q) + 1
        BY <2>1, <2>6, <2>7, <2>8, <2>9, <2>10, <2>12
    <2>13. ASSUME NEW c \in CallIds, c # issued + 1
           PROVE  /\ \A t \in Sessions, i \in Nat : QueuedNext(t, i, c) => Queued(t, i, c)
                  /\ \A t \in Sessions : InvitingNext(t, c) => Inviting(t, c)
        BY <2>6, <2>7, <2>8, <2>13
    <2>14. ASSUME NEW c \in CallIds
           PROVE  /\ calls'[c] # None => c <= issued'
                  /\ \A t \in Sessions, i \in Nat : QueuedNext(t, i, c) =>
                        /\ c <= issued' /\ calls'[c] = None
                        /\ \A x \in Sessions, j \in Nat : QueuedNext(x, j, c) => x = t /\ j = i
                        /\ \A x \in Sessions : ~InvitingNext(x, c)
                  /\ \A t \in Sessions : InvitingNext(t, c) =>
                        /\ c <= issued' /\ calls'[c] = None
                        /\ \A x \in Sessions : InvitingNext(x, c) => x = t
        <3>1. CASE c = issued + 1
            BY <2>12, <3>1
        <3>2. CASE c # issued + 1
            BY <2>1, <2>11, <2>13, <3>2 DEF InvitesOnce
        <3> QED
            BY <3>1, <3>2
    <2> QED
        BY <2>14, InvitesNext
<1>13. ASSUME NEW s \in Sessions, Login(s) \/ Cleanup(s) \/ Disconnected(s)
       PROVE  UNCHANGED <<calls, issued, work, inbox>>
    BY <1>13 DEF Login, Cleanup, Disconnected, nodeVars
<1>14. ASSUME NEW u \in Users, LeaseExpires(u) \/ GoesQuiet(u)
       PROVE  UNCHANGED <<calls, issued, work, inbox>>
    BY <1>14 DEF LeaseExpires, GoesQuiet, nodeVars
<1>15. ASSUME NEW m \in relay, LateRelay(m) PROVE UNCHANGED <<calls, issued, work, inbox>>
    BY <1>15 DEF LateRelay
<1> QED
    BY <1>2, <1>4, <1>5, <1>6, <1>7, <1>8, <1>9, <1>10, <1>11, <1>12, <1>13, <1>14, <1>15
       DEF Next

\* The binding of the calls is an invariant.
THEOREM BindInvariant == Spec => []BindInv
<1>1. Init => BindInv
    <2> SUFFICES ASSUME Init PROVE BindInv
        OBVIOUS
    <2>1. KeysAreOwn /\ CallsAreOwn /\ VoiceIsCall
        BY DEF Init, KeysAreOwn, CallsAreOwn, VoiceIsCall
    <2>2. InvitesOnce
        BY DEF Init, InvitesOnce, Queued, Inviting
    <2>3. WorkIsBound /\ EventsAreBound /\ ClientsAreBound
        BY DEF Init, WorkIsBound, EventsAreBound, ClientsAreBound, IdleClient
    <2> QED
        BY <2>1, <2>2, <2>3 DEF BindInv
<1>2. ASSUME VoiceInv, BindInv, Next PROVE BindInv'
    BY <1>2, VoiceAssumption, KeysStay, InvitesStay, CallsStay, WorkStays, EventsStay, ClientsStay
       DEF BindInv
<1>3. ASSUME BindInv, UNCHANGED vars PROVE BindInv'
    <2>1. UNCHANGED <<voice, usession, inbox, work, outbox, relay, client, calls, accepted, issued>>
        BY <1>3 DEF vars, redisVars, nodeVars
    <2>2. KeysAreOwn' /\ CallsAreOwn' /\ VoiceIsCall'
        BY <1>3, <2>1 DEF BindInv, KeysAreOwn, CallsAreOwn, VoiceIsCall
    <2>3. InvitesOnce'
        BY <1>3, <2>1 DEF BindInv, InvitesOnce, Queued, Inviting
    <2>4. WorkIsBound'
        BY <1>3, <2>1 DEF BindInv, WorkIsBound, Bound
    <2>5. EventsAreBound'
        BY <1>3, <2>1 DEF BindInv, EventsAreBound, Binding, Bound
    <2>6. ClientsAreBound'
        BY <1>3, <2>1 DEF BindInv, ClientsAreBound, Bound
    <2> QED
        BY <2>2, <2>3, <2>4, <2>5, <2>6 DEF BindInv
<1> QED
    BY <1>1, <1>2, <1>3, CallInvariant, PTL DEF Spec

\* A client is connected only in a call that was accepted and that its invite bound
\* to this very session, with the account it thinks it talks to, whatever calls,
\* devices, late relays and lost replies came before.
THEOREM ConnectedAreBound == Spec => []ActiveIsBound
<1>1. ASSUME BindInv PROVE ActiveIsBound
    BY <1>1 DEF BindInv, ClientsAreBound, Bound, ActiveIsBound
<1> QED
    BY <1>1, BindInvariant, PTL

\* A call connects at most one device of each account, and only of its two
\* accounts: wherever an account is logged in, an accepted call opens the
\* microphone of one of its devices.
OneDevicePerCall ==
    \A s, t \in Sessions :
        /\ client[s].state = "Active" /\ client[t].state = "Active"
        /\ client[s].call = client[t].call
        => /\ UserOf[s] = UserOf[t] => s = t
           /\ s # t => client[s].peer = UserOf[t] /\ client[t].peer = UserOf[s]

\* Two connected clients of a call are the two parties of its invite, and each
\* shows the other one, on any number of devices of any number of accounts.
THEOREM CallsConnectTwo == Spec => []OneDevicePerCall
<1>1. ASSUME VoiceInv, BindInv PROVE OneDevicePerCall
    <2> SUFFICES ASSUME NEW s \in Sessions, NEW t \in Sessions,
                        client[s].state = "Active", client[t].state = "Active",
                        client[s].call = client[t].call
                 PROVE  /\ UserOf[s] = UserOf[t] => s = t
                        /\ s # t => client[s].peer = UserOf[t] /\ client[t].peer = UserOf[s]
        BY DEF OneDevicePerCall
    <2>1. PICK c : c = client[s].call
        OBVIOUS
    <2>2. Bound(s, c, client[s].peer) /\ Bound(t, c, client[t].peer)
        BY <1>1, <2>1 DEF BindInv, ClientsAreBound
    <2>3. /\ c \in accepted /\ calls[c] # None
          /\ s \in {calls[c].sa, calls[c].sb} /\ t \in {calls[c].sa, calls[c].sb}
          /\ client[s].peer = UserOf[Peer(calls[c], UserOf[s])]
          /\ client[t].peer = UserOf[Peer(calls[c], UserOf[t])]
        BY <2>2 DEF Bound
    <2>4. /\ calls[c].a # calls[c].b
          /\ UserOf[calls[c].sa] = calls[c].a /\ UserOf[calls[c].sb] = calls[c].b
        <3>1. c \in CallIds
            BY <1>1, <2>3 DEF VoiceInv, TypeOK
        <3> QED
            BY <1>1, <2>3, <3>1 DEF BindInv, CallsAreOwn
    <2> QED
        BY <2>3, <2>4 DEF Peer
<1> QED
    BY <1>1, CallInvariant, BindInvariant, PTL
=============================================================================
