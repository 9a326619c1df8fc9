-------------------------- MODULE RelayCacheProofs --------------------------
(***************************************************************************)
(* What the core says of the relay session, for any number of requests,    *)
(* sessions, starts and faults, whatever configurations it is installed    *)
(* with and whatever runs beside it.                                       *)
(*                                                                         *)
(* The inductive invariant says what a handler may rely on between the     *)
(* steps of a call: what the answer it waits for or holds has to do with   *)
(* the sessions that have been live since the request came.  It rests on   *)
(* the promise of SessionLifecycle that a user has one live session, and   *)
(* that a session that stopped stays stopped.                              *)
(***************************************************************************)
EXTENDS RelayCache, TLAPS

Handled == {"refresh", "start", "stop"}
Ops == {"none", "active", "start", "stop"}
Stages == {"none", "sent", "answered"}
Codes == {0, 200, 201, 204, 500}
CallType == [op: Ops, at: Stages, code: Codes, session: Sessions \cup {NoSession}]

CacheTypes ==
  /\ pc \in [Reqs -> {"idle", "build", "call", "store", "persist", "save", "write", "done"}]
  /\ body \in [Reqs -> Bodies \cup {NoBody} \cup [kind: Handled]]
  /\ reply \in [Reqs -> {"none", "ok", "error"}]
  /\ call \in [Reqs -> CallType]
  /\ answer \in [Reqs -> Sessions \cup {NoSession, NoAnswer}]
  /\ before \in [Reqs -> Sessions \cup {NoSession}]
  /\ during \in [Reqs -> SUBSET (Sessions \cup {NoSession})]
  /\ fresh \subseteq Reqs
  /\ behind \in BOOLEAN

\* The user has one live session at most.
RemoteInv ==
  /\ status \in [Sessions -> {"absent", "provisioning", "stopped"}]
  /\ owner \in [Sessions -> {User, NoUser}]
  /\ \A s \in Live : owner[s] = User
  /\ \A s, t \in Live : s = t

Heard(r) == call[r].at = "answered" /\ call[r].code # 500

\* Program points: who may hold which kind of call, and who has answered.
PointInv(r) ==
  /\ reply[r] = "ok" => pc[r] = "done"
  /\ pc[r] # "done" => answer[r] = NoAnswer
  /\ call[r].op # "none" \/ call[r].at # "none" => pc[r] \in {"call", "done"}
  /\ pc[r] \in {"store", "persist", "save", "write"} => body[r].kind # "stop"
  /\ call[r].op \in {"start", "stop"} => body[r].kind = call[r].op
  /\ r \in fresh => call[r].at # "sent" /\ pc[r] \in {"call", "done"}

\* Answers under way are about sessions seen since the request came.
SeenInv(r) ==
  /\ answer[r] # NoAnswer => answer[r] \in during[r]
  /\ InFlight(r) => LiveSession \in during[r]
  /\ pc[r] = "call" /\ Heard(r) => (IF call[r].op = "stop" THEN NoSession ELSE call[r].session) \in during[r]
  /\ call[r].op = "stop" /\ call[r].at = "sent" => call[r].session # NoSession
  /\ pc[r] = "call" /\ call[r].op = "active" /\ Heard(r) => (call[r].code = 200 <=> call[r].session # NoSession)
  /\ pc[r] = "call" /\ call[r].session # NoSession =>
       \/ call[r].session \in Live
       \/ status[call[r].session] = "stopped" /\ NoSession \in during[r]

\* An answer that is still true says what is live now.
FreshInv(r) ==
  r \in fresh /\ call[r].at = "answered" => LiveSession = IF call[r].op = "stop" THEN NoSession ELSE call[r].session

\* A stop ends the session that was live when it came, or finds it ended.
StopInv(r) ==
  body[r].kind = "stop" /\ before[r] # NoSession =>
    /\ InFlight(r) => before[r] \in Live \/ status[before[r]] = "stopped"
    /\ pc[r] = "call" /\ ((call[r].op = "active" /\ Heard(r)) \/ (call[r].op = "stop" /\ call[r].at = "sent")) =>
         call[r].session = before[r] \/ status[before[r]] = "stopped"
    /\ pc[r] = "call" /\ call[r].op = "stop" /\ Heard(r) => status[before[r]] = "stopped"
    /\ reply[r] = "ok" => status[before[r]] = "stopped"

ReqInv(r) == PointInv(r) /\ SeenInv(r) /\ FreshInv(r) /\ StopInv(r)

CacheInv ==
  /\ CacheTypes
  /\ RemoteInv
  /\ \A r \in Reqs : ReqInv(r)
  /\ CacheCurrent

-----------------------------------------------------------------------------
\* The control plane: one live session, or none.

OneLive ==
  /\ LiveSession \in Live \cup {NoSession}
  /\ \A s \in Live : LiveSession = s
  /\ Live = {} => LiveSession = NoSession
  /\ LiveSession = NoSession => Live = {}

LEMMA LiveIs == RemoteInv => OneLive
<1> SUFFICES ASSUME RemoteInv PROVE OneLive
  OBVIOUS
<1>1. Live = {} => LiveSession = NoSession
  BY Zenon DEF LiveSession
<1>2. ASSUME NEW s \in Live PROVE LiveSession = s /\ s # NoSession
  <2>1. LiveSession = CHOOSE t \in Live : TRUE
    BY <1>2, Zenon DEF LiveSession
  <2>2. (CHOOSE t \in Live : TRUE) \in Live
    BY <1>2, Zenon
  <2>3. s # NoSession
    BY <1>2, SessionAssumption DEF Live
  <2> QED
    BY <1>2, <2>1, <2>2, <2>3 DEF RemoteInv
<1> QED
  BY <1>1, <1>2 DEF OneLive

LEMMA LiveIsNext == RemoteInv' => OneLive'
  BY LiveIs, PTL

\* The live session of another moment: what was stopped is stopped, what was live
\* is stopped now and nothing else is live.
Drift ==
  /\ RemoteInv'
  /\ \A t \in Sessions : status[t] = "stopped" => status'[t] = "stopped"
  /\ \A t \in Live : status'[t] = "stopped" /\ LiveSession' = NoSession

LEMMA Opens ==
  ASSUME RemoteInv, NEW s \in Sessions, Remote!Open(User, s)
  PROVE Drift /\ LiveSession = NoSession /\ LiveSession' = s /\ s \in Live'
<1>1. Live = {}
  BY DEF Remote!Open, Remote!HasLive, Remote!LiveStatus, Live, RemoteInv
<1>2. Live' = {s} /\ RemoteInv'
  BY <1>1 DEF Remote!Open, Remote!HasLive, Remote!LiveStatus, Live, RemoteInv
<1>3. \A t \in Sessions : status[t] = "stopped" => status'[t] = "stopped"
  BY DEF Remote!Open, RemoteInv
<1> QED
  BY <1>1, <1>2, <1>3, LiveIs, LiveIsNext DEF OneLive, Drift

LEMMA Closes ==
  ASSUME RemoteInv, NEW s \in Sessions, Remote!Close(s)
  PROVE Drift /\ LiveSession = s /\ LiveSession' = NoSession /\ status'[s] = "stopped"
<1>1. Live = {s}
  BY DEF Remote!Close, Remote!LiveStatus, Live, RemoteInv
<1>2. Live' = {} /\ RemoteInv' /\ status'[s] = "stopped"
  BY <1>1 DEF Remote!Close, Remote!LiveStatus, Live, RemoteInv
<1>3. \A t \in Sessions : status[t] = "stopped" => status'[t] = "stopped"
  BY DEF Remote!Close, RemoteInv
<1> QED
  BY <1>1, <1>2, <1>3, LiveIs, LiveIsNext DEF OneLive, Drift

LEMMA ChangedIs ==
  ASSUME NEW still, Changed(still)
  PROVE /\ during' = [r \in Reqs |-> IF InFlight(r) THEN during[r] \cup {LiveSession'} ELSE during[r]]
        /\ fresh' = still /\ behind' = TRUE /\ before' = before
  BY Zenon DEF Changed, LiveSession, Live

-----------------------------------------------------------------------------
\* Requests that a step leaves alone, and requests it ends.

Same(x) ==
  /\ pc'[x] = pc[x] /\ body'[x] = body[x] /\ reply'[x] = reply[x]
  /\ call'[x] = call[x] /\ answer'[x] = answer[x] /\ before'[x] = before[x]

Still == status' = status /\ Live' = Live /\ LiveSession' = LiveSession

LEMMA StillIs ==
  ASSUME status' = status PROVE Still
  BY DEF Still, Live, LiveSession

\* Nothing happens to the request or to the control plane.
LEMMA Stays ==
  ASSUME NEW x \in Reqs, ReqInv(x), Still, Same(x), during'[x] = during[x], x \in fresh' => x \in fresh
  PROVE ReqInv(x)'
<1>1. PointInv(x)'
  BY DEF ReqInv, PointInv, Same
<1>2. SeenInv(x)'
  BY DEF ReqInv, SeenInv, Same, Still, InFlight, Heard
<1>3. FreshInv(x)'
  BY DEF ReqInv, FreshInv, Same, Still
<1>4. StopInv(x)'
  BY DEF ReqInv, StopInv, Same, Still, InFlight, Heard
<1> QED
  BY <1>1, <1>2, <1>3, <1>4 DEF ReqInv

\* The live session changes under the request.
LEMMA Drifts ==
  ASSUME CacheTypes, NEW x \in Reqs, ReqInv(x), Drift, Same(x), x \notin fresh',
         during'[x] = IF InFlight(x) THEN during[x] \cup {LiveSession'} ELSE during[x]
  PROVE ReqInv(x)'
<1>0. /\ \A t \in Sessions : status[t] = "stopped" => status'[t] = "stopped"
      /\ \A t \in Live : t \in Sessions /\ status'[t] = "stopped" /\ LiveSession' = NoSession
      /\ call[x].session \in Sessions \cup {NoSession} /\ before[x] \in Sessions \cup {NoSession}
  BY DEF Drift, Live, CacheTypes, CallType
<1>1. PointInv(x)'
  BY DEF ReqInv, PointInv, Same
<1>2. SeenInv(x)'
  BY <1>0 DEF ReqInv, SeenInv, Same, InFlight, Heard
<1>3. FreshInv(x)'
  BY DEF FreshInv
<1>4. StopInv(x)'
  BY <1>0 DEF ReqInv, StopInv, Same, InFlight, Heard
<1> QED
  BY <1>1, <1>2, <1>3, <1>4 DEF ReqInv

\* The request is over without a word about the control plane.
LEMMA Ends ==
  ASSUME NEW x \in Reqs, ReqInv(x), Still, pc'[x] = "done", reply'[x] \in {reply[x], "error"},
         call'[x] \in {call[x], NoCall}, body'[x] = body[x], answer'[x] = answer[x], before'[x] = before[x],
         during'[x] = during[x], fresh' = fresh
  PROVE ReqInv(x)'
<1>0. NoCall.op = "none" /\ NoCall.at = "none" /\ NoCall.session = NoSession
  BY DEF NoCall
<1>1. PointInv(x)'
  BY <1>0 DEF ReqInv, PointInv
<1>2. SeenInv(x)'
  BY <1>0 DEF ReqInv, SeenInv, InFlight
<1>3. FreshInv(x)'
  BY <1>0 DEF ReqInv, FreshInv, Still
<1>4. StopInv(x)'
  BY <1>0 DEF ReqInv, StopInv, Still, InFlight
<1> QED
  BY <1>1, <1>2, <1>3, <1>4 DEF ReqInv

Editing == {"store", "persist", "save", "write"}

\* A request that edits the configuration has nothing to do with the relay.
LEMMA Edits ==
  ASSUME NEW x \in Reqs, ReqInv(x), Still, pc[x] \in {"idle"} \cup Editing, pc'[x] \in Editing \cup {"done"},
         body'[x].kind # "stop", reply'[x] = "ok" => pc'[x] = "done",
         call'[x] = call[x], answer'[x] = answer[x], during'[x] = during[x], fresh' = fresh
  PROVE ReqInv(x)'
<1>0. call[x].op = "none" /\ call[x].at = "none" /\ answer[x] = NoAnswer /\ x \notin fresh
  BY DEF ReqInv, PointInv, Editing
<1>1. PointInv(x)'
  BY <1>0 DEF PointInv, Editing
<1>2. SeenInv(x)'
  BY <1>0 DEF SeenInv, InFlight, Editing
<1>3. FreshInv(x)'
  BY <1>0 DEF FreshInv
<1>4. StopInv(x)'
  BY DEF StopInv
<1> QED
  BY <1>1, <1>2, <1>3, <1>4 DEF ReqInv

-----------------------------------------------------------------------------
\* The handlers' steps.

\* All requests but one.
LEMMA OneMoves ==
  ASSUME CacheInv, NEW r \in Reqs, Still, UNCHANGED <<status, owner>>, CacheTypes',
         \A x \in Reqs \ {r} : Same(x) /\ during'[x] = during[x] /\ (x \in fresh' => x \in fresh),
         ReqInv(r)', CacheCurrent'
  PROVE CacheInv'
<1>1. \A x \in Reqs \ {r} : ReqInv(x)'
  BY Stays DEF CacheInv
<1>2. RemoteInv'
  BY DEF CacheInv, RemoteInv, Still
<1> QED
  BY <1>1, <1>2 DEF CacheInv

LEMMA KindsApart ==
  ASSUME NEW b \in Bodies PROVE b.kind \in {"settings", "names"}
<1>1. b \in Forms \cup Payloads
  BY ConfigAssumption
<1> QED
  BY <1>1 DEF Forms, Payloads

LEMMA AegisRequestStep ==
  ASSUME CacheInv, NEW r \in Reqs, NEW k \in Handled, AegisRequest(r, k) PROVE CacheInv'
<1>0. /\ CacheTypes /\ RemoteInv /\ ReqInv(r) /\ OneLive
  BY LiveIs DEF CacheInv
<1>1. /\ pc[r] = "idle" /\ body' = [body EXCEPT ![r] = [kind |-> k]]
      /\ before' = [before EXCEPT ![r] = IF k = "stop" THEN LiveSession ELSE NoSession]
      /\ during' = [during EXCEPT ![r] = {LiveSession}]
      /\ UNCHANGED <<status, owner, call, cache, answer, fresh, behind>>
  BY DEF AegisRequest, remoteVars, seenVars
<1>2. \/ /\ pc' = [pc EXCEPT ![r] = "done"]
         /\ reply' = [reply EXCEPT ![r] = "error"] \/ (k = "refresh" /\ reply' = [reply EXCEPT ![r] = "ok"])
      \/ pc' = [pc EXCEPT ![r] = "build"] /\ reply' = reply
  BY DEF AegisRequest, Finish
<1>3. Still
  BY <1>1, StillIs
<1>4. LiveSession \in Sessions \cup {NoSession}
  BY <1>0 DEF OneLive, Live
<1>5. CacheTypes'
  <2>1. body' \in [Reqs -> Bodies \cup {NoBody} \cup [kind: Handled]]
    BY <1>0, <1>1 DEF CacheTypes
  <2>2. before' \in [Reqs -> Sessions \cup {NoSession}] /\ during' \in [Reqs -> SUBSET (Sessions \cup {NoSession})]
    BY <1>0, <1>1, <1>4 DEF CacheTypes
  <2>3. pc' \in [Reqs -> {"idle", "build", "call", "store", "persist", "save", "write", "done"}]
        /\ reply' \in [Reqs -> {"none", "ok", "error"}]
    BY <1>0, <1>2 DEF CacheTypes
  <2> QED
    BY <1>0, <1>1, <2>1, <2>2, <2>3 DEF CacheTypes
<1>6. \A x \in Reqs \ {r} : Same(x) /\ during'[x] = during[x]
  BY <1>0, <1>1, <1>2 DEF Same, CacheTypes
<1>7. /\ call[r].op = "none" /\ call[r].at = "none" /\ answer[r] = NoAnswer /\ r \notin fresh /\ reply[r] # "ok"
  BY <1>0, <1>1 DEF ReqInv, PointInv
<1>8. /\ body'[r].kind = k /\ before'[r] = (IF k = "stop" THEN LiveSession ELSE NoSession) /\ during'[r] = {LiveSession}
      /\ pc'[r] \in {"done", "build"} /\ (pc'[r] = "build" => reply'[r] # "ok") /\ (k = "stop" => reply'[r] # "ok")
  BY <1>0, <1>1, <1>2, <1>7 DEF CacheTypes
<1>9. ReqInv(r)'
  <2>1. PointInv(r)'
    BY <1>1, <1>7, <1>8 DEF PointInv
  <2>2. SeenInv(r)'
    BY <1>1, <1>3, <1>7, <1>8 DEF SeenInv, InFlight, Still
  <2>3. FreshInv(r)'
    BY <1>1, <1>7 DEF FreshInv
  <2>4. StopInv(r)'
    BY <1>0, <1>3, <1>8 DEF StopInv, InFlight, Still, OneLive
  <2> QED
    BY <2>1, <2>2, <2>3, <2>4 DEF ReqInv
<1>10. CacheCurrent'
  BY <1>1, <1>3 DEF CacheInv, CacheCurrent, Still
<1> QED
  BY <1>1, <1>3, <1>5, <1>6, <1>9, <1>10, OneMoves

LEMMA BuildClientStep ==
  ASSUME CacheInv, NEW r \in Reqs, BuildClient(r) PROVE CacheInv'
<1>0. CacheTypes /\ ReqInv(r)
  BY DEF CacheInv
<1>1. pc[r] = "build" /\ UNCHANGED <<status, owner, body, cache, answer, before, during, fresh, behind>>
  BY DEF BuildClient, remoteVars, pastVars
<1>2. Still
  BY <1>1, StillIs
<1>3. CacheCurrent'
  BY <1>1, <1>2 DEF CacheInv, CacheCurrent, Still
<1>4. CASE pc' = [pc EXCEPT ![r] = "done"] /\ reply' = [reply EXCEPT ![r] = "error"] /\ UNCHANGED call
  <2>1. CacheTypes'
    BY <1>0, <1>1, <1>4 DEF CacheTypes
  <2>2. ReqInv(r)'
    BY <1>0, <1>1, <1>2, <1>4, Ends DEF CacheTypes
  <2>3. \A x \in Reqs \ {r} : Same(x)
    BY <1>0, <1>1, <1>4 DEF Same, CacheTypes
  <2> QED
    BY <1>1, <1>2, <1>3, <2>1, <2>2, <2>3, OneMoves
<1>5. CASE pc' = [pc EXCEPT ![r] = "call"] /\ call' = [call EXCEPT ![r] = FirstCall(body[r].kind)] /\ UNCHANGED reply
  <2>0. PICK o \in {"start", "active"} : o = IF body[r].kind = "start" THEN "start" ELSE "active"
    OBVIOUS
  <2>1. FirstCall(body[r].kind) = [op |-> o, at |-> "sent", code |-> 0, session |-> NoSession]
    <3>1. FirstCall(body[r].kind) = [NoCall EXCEPT !.op = o, !.at = "sent"]
      BY <2>0 DEF FirstCall
    <3> QED
      BY <3>1 DEF NoCall
  <2>2. FirstCall(body[r].kind) \in CallType
    BY <2>1 DEF CallType, Ops, Stages, Codes
  <2>3. CacheTypes'
    BY <1>0, <1>1, <1>5, <2>2 DEF CacheTypes
  <2>4. \A x \in Reqs \ {r} : Same(x)
    BY <1>0, <1>1, <1>5 DEF Same, CacheTypes
  <2>5. /\ pc'[r] = "call" /\ call'[r].op = (IF body[r].kind = "start" THEN "start" ELSE "active")
        /\ call'[r].at = "sent" /\ call'[r].code = 0 /\ call'[r].session = NoSession
    BY <1>0, <1>5, <2>0, <2>1 DEF CacheTypes
  <2>6. r \notin fresh /\ answer[r] = NoAnswer /\ reply[r] # "ok"
    BY <1>0, <1>1 DEF ReqInv, PointInv
  <2>7. PointInv(r)'
    BY <1>1, <1>5, <2>5, <2>6 DEF PointInv
  <2>8. SeenInv(r)'
    BY <1>0, <1>1, <1>2, <2>5, <2>6 DEF ReqInv, SeenInv, InFlight, Still, Heard
  <2>9. FreshInv(r)'
    BY <1>1, <2>6 DEF FreshInv
  <2>10. StopInv(r)'
    BY <1>0, <1>1, <1>2, <1>5, <2>5, <2>6 DEF ReqInv, StopInv, InFlight, Still, Heard
  <2>11. ReqInv(r)'
    BY <2>7, <2>8, <2>9, <2>10 DEF ReqInv
  <2> QED
    BY <1>1, <1>2, <1>3, <2>3, <2>4, <2>11, OneMoves
<1> QED
  BY <1>4, <1>5 DEF BuildClient, Finish

LEMMA GiveUpStep ==
  ASSUME CacheInv, NEW r \in Reqs, GiveUp(r) PROVE CacheInv'
<1>0. CacheTypes /\ ReqInv(r)
  BY DEF CacheInv
<1>1. /\ pc' = [pc EXCEPT ![r] = "done"] /\ reply' = [reply EXCEPT ![r] = "error"]
      /\ UNCHANGED <<status, owner, body, cache, answer, before, during, fresh, behind>>
  BY DEF GiveUp, Finish, remoteVars, pastVars
<1>2. \E c \in {call[r], NoCall} : call' = [call EXCEPT ![r] = c]
  BY DEF GiveUp
<1>3. NoCall \in CallType
  BY DEF NoCall, CallType, Ops, Stages, Codes
<1>4. Still
  BY <1>1, StillIs
<1>5. CacheTypes'
  BY <1>0, <1>1, <1>2, <1>3 DEF CacheTypes
<1>6. ReqInv(r)'
  BY <1>0, <1>1, <1>2, <1>4, Ends DEF CacheTypes
<1>7. \A x \in Reqs \ {r} : Same(x)
  BY <1>0, <1>1, <1>2 DEF Same, CacheTypes
<1>8. CacheCurrent'
  BY <1>1, <1>4 DEF CacheInv, CacheCurrent, Still
<1> QED
  BY <1>1, <1>4, <1>5, <1>6, <1>7, <1>8, OneMoves

\* A step of a request that edits the configuration.
LEMMA EditStep ==
  ASSUME CacheInv, NEW r \in Reqs, pc[r] \in {"idle"} \cup Editing, UNCHANGED relayVars,
         NEW p \in Editing \cup {"done"}, pc' = [pc EXCEPT ![r] = p],
         reply' = reply \/ reply' = [reply EXCEPT ![r] = "error"] \/ (p = "done" /\ reply' = [reply EXCEPT ![r] = "ok"]),
         \/ pc[r] \in Editing /\ body' = body
         \/ \E b \in Bodies : body' = [body EXCEPT ![r] = b]
  PROVE CacheInv'
<1>0. CacheTypes /\ ReqInv(r)
  BY DEF CacheInv
<1>1. UNCHANGED <<status, owner, call, cache, answer, before, during, fresh, behind>>
  BY DEF relayVars, remoteVars, seenVars, pastVars
<1>2. Still
  BY <1>1, StillIs
<1>3. CacheTypes'
  <2>1. pc' \in [Reqs -> {"idle", "build", "call", "store", "persist", "save", "write", "done"}]
    BY <1>0 DEF CacheTypes, Editing
  <2>2. reply' \in [Reqs -> {"none", "ok", "error"}]
    BY <1>0 DEF CacheTypes
  <2>3. body' \in [Reqs -> Bodies \cup {NoBody} \cup [kind: Handled]]
    BY <1>0 DEF CacheTypes
  <2> QED
    BY <1>0, <1>1, <2>1, <2>2, <2>3 DEF CacheTypes
<1>4. \A x \in Reqs \ {r} : Same(x)
  BY <1>0, <1>1 DEF Same, CacheTypes
<1>5. body'[r].kind # "stop"
  <2>1. CASE pc[r] \in Editing /\ body' = body
    BY <1>0, <2>1 DEF ReqInv, PointInv, Editing
  <2>2. CASE \E b \in Bodies : body' = [body EXCEPT ![r] = b]
    BY <1>0, <2>2, KindsApart DEF CacheTypes
  <2> QED
    BY <2>1, <2>2
<1>6. reply[r] # "ok"
  BY <1>0 DEF ReqInv, PointInv, Editing
<1>7. pc'[r] = p /\ (reply'[r] = "ok" => p = "done")
  BY <1>0, <1>6 DEF CacheTypes
<1>8. ReqInv(r)'
  BY <1>0, <1>1, <1>2, <1>5, <1>7, Edits
<1>9. CacheCurrent'
  BY <1>1, <1>2 DEF CacheInv, CacheCurrent, Still
<1> QED
  BY <1>1, <1>2, <1>3, <1>4, <1>8, <1>9, OneMoves

-----------------------------------------------------------------------------
\* The control plane's answers.

LEMMA Answered ==
  ASSUME CacheTypes, NEW r \in Reqs, NEW c \in {200, 201, 204, 500}, NEW s \in Sessions \cup {NoSession}, Answer(r, c, s)
  PROVE /\ call' \in [Reqs -> CallType] /\ \A x \in Reqs \ {r} : call'[x] = call[x]
        /\ call'[r].op = call[r].op /\ call'[r].at = "answered" /\ call'[r].code = c /\ call'[r].session = s
<1>1. call' = [call EXCEPT ![r] = [call[r] EXCEPT !.at = "answered", !.code = c, !.session = s]]
  BY DEF Answer
<1>2. call[r] \in CallType
  BY DEF CacheTypes
<1> DEFINE k == [call[r] EXCEPT !.at = "answered", !.code = c, !.session = s]
<1>3. k \in CallType /\ k.op = call[r].op /\ k.at = "answered" /\ k.code = c /\ k.session = s
  <2>1. k \in CallType
    <3>1. "answered" \in Stages /\ c \in Codes
      BY DEF Stages, Codes
    <3> QED
      BY <1>2, <3>1 DEF CallType
  <2>2. k.op = call[r].op
    BY <1>2 DEF CallType
  <2>3. k.at = "answered" /\ k.code = c
    BY <1>2 DEF CallType
  <2>4. k.session = s
    BY <1>2 DEF CallType
  <2> QED
    BY <2>1, <2>2, <2>3, <2>4
<1> HIDE DEF k
<1>4. call' = [call EXCEPT ![r] = k]
  BY <1>1 DEF k
<1> QED
  BY <1>3, <1>4 DEF CacheTypes

\* What an answer says to its caller.
Said(r, s) == IF call[r].op = "stop" THEN NoSession ELSE s

\* A request gets an answer, and the live session may change by it.
LEMMA ServedInv ==
  ASSUME CacheTypes, NEW r \in Reqs, ReqInv(r), call[r].at = "sent",
         pc'[r] = pc[r], body'[r] = body[r], reply'[r] = reply[r], answer'[r] = answer[r], before'[r] = before[r],
         NEW c \in {200, 201, 204}, NEW s \in Sessions \cup {NoSession},
         call'[r].op = call[r].op, call'[r].at = "answered", call'[r].code = c, call'[r].session = s,
         during[r] \subseteq during'[r],
         InFlight(r) => LiveSession' \in during'[r] /\ Said(r, s) \in during'[r],
         call[r].op = "active" => (c = 200 <=> s # NoSession),
         pc[r] = "call" /\ s # NoSession => s \in Live' \/ (status'[s] = "stopped" /\ NoSession \in during'[r]),
         r \in fresh' => LiveSession' = Said(r, s),
         \A t \in Sessions : status[t] = "stopped" => status'[t] = "stopped",
         \A t \in Live : t \in Live' \/ status'[t] = "stopped",
         body[r].kind = "stop" /\ pc[r] = "call" /\ before[r] # NoSession =>
                /\ call[r].op = "active" => s = before[r] \/ status'[before[r]] = "stopped"
                /\ call[r].op = "stop" => status'[before[r]] = "stopped"
  PROVE ReqInv(r)'
<1>0. before[r] # NoSession => before[r] \in Sessions
  BY DEF CacheTypes
<1>1. pc[r] \in {"call", "done"}
  BY DEF ReqInv, PointInv
<1>2. PointInv(r)'
  BY <1>1 DEF ReqInv, PointInv
<1>3. SeenInv(r)'
  BY <1>1 DEF ReqInv, SeenInv, InFlight, Heard, Said
<1>4. FreshInv(r)'
  BY DEF FreshInv, Said
<1>5. StopInv(r)'
  BY <1>0, <1>1 DEF ReqInv, StopInv, InFlight, Heard
<1> QED
  BY <1>2, <1>3, <1>4, <1>5 DEF ReqInv

\* The control plane answers and stays as it is.
LEMMA ServeSame ==
  ASSUME CacheInv, NEW r \in Reqs, call[r].at = "sent", UNCHANGED <<pc, body, reply, answer, cache>>,
         UNCHANGED <<status, owner, before, during, behind>>,
         NEW c \in {200, 201, 204}, Answer(r, c, IF call[r].op = "stop" THEN call[r].session ELSE LiveSession),
         call[r].op = "active" => c = IF Live = {} THEN 204 ELSE 200,
         call[r].op = "stop" => status[call[r].session] = "stopped",
         fresh' = fresh \/ (fresh' = fresh \cup {r} /\ (call[r].op = "stop" => Live = {}))
  PROVE CacheInv'
<1> DEFINE s == IF call[r].op = "stop" THEN call[r].session ELSE LiveSession
<1>0. CacheTypes /\ RemoteInv /\ ReqInv(r) /\ OneLive
  BY LiveIs DEF CacheInv
<1>1. Still
  BY StillIs
<1>2. s \in Sessions \cup {NoSession} /\ Live \subseteq Sessions
  BY <1>0 DEF CacheTypes, CallType, OneLive, Live
<1>3. /\ call' \in [Reqs -> CallType] /\ \A x \in Reqs \ {r} : call'[x] = call[x]
      /\ call'[r].op = call[r].op /\ call'[r].at = "answered" /\ call'[r].code = c /\ call'[r].session = s
  BY <1>0, <1>2, Answered
<1>4. CacheTypes'
  BY <1>0, <1>3 DEF CacheTypes
<1>5. \A x \in Reqs \ {r} : Same(x) /\ during'[x] = during[x] /\ (x \in fresh' => x \in fresh)
  BY <1>3 DEF Same
<1>6. pc[r] \in {"call", "done"} /\ r \notin fresh
  BY <1>0 DEF ReqInv, PointInv
<1>7. call[r].op = "stop" => call[r].session \in Sessions
  BY <1>0, <1>2 DEF ReqInv, SeenInv
<1>8. call[r].op = "stop" => call[r].session \notin Live
  BY DEF Live, Remote!LiveStatus
<1>9. InFlight(r) => LiveSession' \in during'[r] /\ Said(r, s) \in during'[r]
  <2>1. InFlight(r) => pc[r] = "call"
    BY <1>6 DEF InFlight
  <2>2. InFlight(r) => LiveSession \in during[r]
    BY <1>0 DEF ReqInv, SeenInv
  <2>3. CASE call[r].op = "stop"
    <3>1. InFlight(r) => NoSession \in during[r]
      BY <1>0, <1>7, <1>8, <2>1, <2>3, SessionAssumption DEF ReqInv, SeenInv
    <3> QED
      BY <1>1, <2>2, <2>3, <3>1 DEF Said, Still
  <2>4. CASE call[r].op # "stop"
    BY <1>1, <2>2, <2>4 DEF Said, Still
  <2> QED
    BY <2>3, <2>4
<1>10. call[r].op = "active" => (c = 200 <=> s # NoSession)
  BY <1>0 DEF OneLive
<1>11. pc[r] = "call" /\ s # NoSession => s \in Live' \/ (status'[s] = "stopped" /\ NoSession \in during'[r])
  <2>1. CASE call[r].op = "stop"
    BY <1>9, <2>1 DEF Said, InFlight
  <2>2. CASE call[r].op # "stop"
    BY <1>0, <1>1, <2>2 DEF OneLive, Still
  <2> QED
    BY <2>1, <2>2
<1>12. r \in fresh' => LiveSession' = Said(r, s)
  BY <1>0, <1>1, <1>6 DEF Said, Still, OneLive
<1>13. ASSUME body[r].kind = "stop", pc[r] = "call", before[r] # NoSession
       PROVE  /\ call[r].op = "active" => s = before[r] \/ status'[before[r]] = "stopped"
              /\ call[r].op = "stop" => status'[before[r]] = "stopped"
  <2>1. before[r] \in Live \/ status[before[r]] = "stopped"
    BY <1>0, <1>13 DEF ReqInv, StopInv, InFlight
  <2>2. call[r].op = "active" => s = before[r] \/ status[before[r]] = "stopped"
    BY <1>0, <2>1 DEF OneLive
  <2>3. call[r].op = "stop" => status[before[r]] = "stopped"
    BY <1>0, <1>13 DEF ReqInv, StopInv
  <2> QED
    BY <2>2, <2>3
<1>14. /\ \A t \in Sessions : status[t] = "stopped" => status'[t] = "stopped"
       /\ \A t \in Live : t \in Live' \/ status'[t] = "stopped"
  BY <1>1 DEF Still
<1>15. ReqInv(r)'
  <2> HIDE DEF s
  <2> QED
    BY <1>0, <1>2, <1>3, <1>9, <1>10, <1>11, <1>12, <1>13, <1>14, ServedInv
<1>16. CacheCurrent'
  BY <1>1 DEF CacheInv, CacheCurrent, Still
<1> QED
  BY <1>1, <1>4, <1>5, <1>15, <1>16, OneMoves

\* The live session changes by nobody's request here.
LEMMA DriftStep ==
  ASSUME CacheInv, Drift, Changed({}), UNCHANGED <<pc, body, reply, call, cache, answer>>
  PROVE CacheInv'
<1>0. CacheTypes
  BY DEF CacheInv
<1>1. /\ during' = [x \in Reqs |-> IF InFlight(x) THEN during[x] \cup {LiveSession'} ELSE during[x]]
      /\ fresh' = {} /\ behind' = TRUE /\ before' = before
  BY ChangedIs
<1>2. LiveSession' \in Sessions \cup {NoSession}
  BY LiveIsNext DEF Drift, OneLive, Live
<1>3. CacheTypes'
  BY <1>0, <1>1, <1>2 DEF CacheTypes
<1>4. \A x \in Reqs : ReqInv(x)'
  BY <1>0, <1>1, Drifts DEF CacheInv, Same
<1>5. CacheCurrent'
  BY <1>1 DEF CacheCurrent
<1> QED
  BY <1>3, <1>4, <1>5 DEF CacheInv, Drift

\* The live session changes by a request that is being answered.
LEMMA ServeChange ==
  ASSUME CacheInv, Drift, NEW r \in Reqs, call[r].at = "sent", Changed({r}),
         UNCHANGED <<pc, body, reply, cache, answer>>,
         NEW c \in {200, 201}, NEW s \in Sessions, Answer(r, c, s),
         \/ call[r].op = "start" /\ LiveSession' = s
         \/ call[r].op = "stop" /\ s = call[r].session /\ s \in Live /\ LiveSession' = NoSession
  PROVE CacheInv'
<1>0. CacheTypes /\ ReqInv(r) /\ RemoteInv'
  BY DEF CacheInv, Drift
<1>1. /\ during' = [x \in Reqs |-> IF InFlight(x) THEN during[x] \cup {LiveSession'} ELSE during[x]]
      /\ fresh' = {r} /\ behind' = TRUE /\ before' = before
  BY ChangedIs
<1>2. LiveSession' \in Sessions \cup {NoSession}
  BY LiveIsNext DEF Drift, OneLive, Live
<1>3. /\ call' \in [Reqs -> CallType] /\ \A x \in Reqs \ {r} : call'[x] = call[x]
      /\ call'[r].op = call[r].op /\ call'[r].at = "answered" /\ call'[r].code = c /\ call'[r].session = s
  BY <1>0, Answered
<1>4. CacheTypes'
  BY <1>0, <1>1, <1>2, <1>3 DEF CacheTypes
<1>5. \A x \in Reqs \ {r} : ReqInv(x)'
  BY <1>0, <1>1, <1>3, Drifts DEF CacheInv, Same
<1>6. during'[r] = IF InFlight(r) THEN during[r] \cup {LiveSession'} ELSE during[r]
  BY <1>1
<1>7. LiveSession' = Said(r, s)
  BY DEF Said
<1>8. /\ \A t \in Sessions : status[t] = "stopped" => status'[t] = "stopped"
      /\ \A t \in Live : t \in Live' \/ status'[t] = "stopped"
  BY DEF Drift
<1>9. call[r].op = "start" => body[r].kind = "start"
  BY <1>0 DEF ReqInv, PointInv
<1>10. pc[r] = "call" => s \in Live' \/ (status'[s] = "stopped" /\ NoSession \in during'[r])
  <2>1. CASE call[r].op = "start" /\ LiveSession' = s
    BY <1>0, <2>1, LiveIsNext, SessionAssumption DEF OneLive
  <2>2. CASE call[r].op = "stop" /\ s \in Live /\ LiveSession' = NoSession
    BY <1>6, <2>2 DEF Drift, InFlight
  <2> QED
    BY <2>1, <2>2
<1>11. body[r].kind = "stop" /\ pc[r] = "call" /\ before[r] # NoSession =>
         /\ call[r].op = "active" => s = before[r] \/ status'[before[r]] = "stopped"
         /\ call[r].op = "stop" => status'[before[r]] = "stopped"
  <2>1. call[r].op # "active"
    OBVIOUS
  <2>2. ASSUME body[r].kind = "stop", pc[r] = "call", before[r] # NoSession, call[r].op = "stop"
        PROVE  status'[before[r]] = "stopped"
    <3>1. call[r].session = before[r] \/ status[before[r]] = "stopped"
      BY <1>0, <2>2 DEF ReqInv, StopInv
    <3>2. s = call[r].session /\ status'[s] = "stopped"
      BY <2>2 DEF Drift
    <3>3. before[r] \in Sessions
      BY <1>0, <2>2 DEF CacheTypes
    <3> QED
      BY <1>8, <3>1, <3>2, <3>3
  <2> QED
    BY <2>1, <2>2
<1>12. call[r].op # "active"
  OBVIOUS
<1>13. ReqInv(r)'
  BY <1>0, <1>1, <1>3, <1>6, <1>7, <1>8, <1>10, <1>11, <1>12, ServedInv
<1>14. CacheCurrent'
  BY <1>1 DEF CacheCurrent
<1> QED
  BY <1>0, <1>4, <1>5, <1>13, <1>14 DEF CacheInv

LEMMA ServeStep ==
  ASSUME CacheInv, NEW r \in Reqs, Serve(r) PROVE CacheInv'
<1>0. CacheTypes /\ RemoteInv /\ ReqInv(r) /\ OneLive
  BY LiveIs DEF CacheInv
<1>1. call[r].at = "sent" /\ UNCHANGED <<pc, body, reply, cache, answer>>
  BY DEF Serve, storeVars, reqVars
<1>2. CASE ServeActive(r)
  <2>1. /\ call[r].op = "active" /\ fresh' = fresh \cup {r} /\ UNCHANGED <<status, owner, before, during, behind>>
        /\ Answer(r, IF Live = {} THEN 204 ELSE 200, LiveSession)
    BY <1>2 DEF ServeActive, remoteVars
  <2>2. PICK c \in {200, 204} : c = IF Live = {} THEN 204 ELSE 200
    OBVIOUS
  <2>3. Answer(r, c, IF call[r].op = "stop" THEN call[r].session ELSE LiveSession)
    BY <2>1, <2>2
  <2> QED
    BY <1>1, <2>1, <2>2, <2>3, ServeSame
<1>3. CASE ServeStart(r)
  <2>1. CASE Live # {} /\ Answer(r, 200, LiveSession) /\ fresh' = fresh \cup {r} /\ UNCHANGED <<remoteVars, before, during, behind>>
    <3>1. call[r].op = "start" /\ UNCHANGED <<status, owner>>
      BY <1>3, <2>1 DEF ServeStart, remoteVars
    <3>2. Answer(r, 200, IF call[r].op = "stop" THEN call[r].session ELSE LiveSession)
      BY <2>1, <3>1
    <3> QED
      BY <1>1, <2>1, <3>1, <3>2, ServeSame
  <2>2. ASSUME NEW s \in Sessions, Remote!Open(User, s), Answer(r, 201, s), Changed({r}) PROVE CacheInv'
    <3>1. Drift /\ LiveSession' = s
      BY <1>0, <2>2, Opens
    <3>2. call[r].op = "start"
      BY <1>3 DEF ServeStart
    <3> QED
      BY <1>1, <2>2, <3>1, <3>2, ServeChange
  <2> QED
    BY <1>3, <2>1, <2>2 DEF ServeStart
<1>4. CASE ServeStop(r)
  <2>1. call[r].op = "stop" /\ Answer(r, 200, call[r].session)
    BY <1>4 DEF ServeStop
  <2>2. call[r].session \in Sessions
    BY <1>0, <1>1, <2>1 DEF ReqInv, SeenInv, CacheTypes, CallType
  <2>3. CASE Remote!Close(call[r].session) /\ Changed({r})
    <3>1. Drift /\ LiveSession = call[r].session /\ LiveSession' = NoSession
      BY <1>0, <2>2, <2>3, Closes
    <3>2. call[r].session \in Live
      BY <2>2, <2>3 DEF Remote!Close, Live
    <3> QED
      BY <1>1, <2>1, <2>2, <2>3, <3>1, <3>2, ServeChange
  <2>4. CASE /\ status[call[r].session] = "stopped"
             /\ fresh' = IF Live = {} THEN fresh \cup {r} ELSE fresh
             /\ UNCHANGED <<remoteVars, before, during, behind>>
    <3>1. UNCHANGED <<status, owner, before, during, behind>>
      BY <2>4 DEF remoteVars
    <3>2. Answer(r, 200, IF call[r].op = "stop" THEN call[r].session ELSE LiveSession)
      BY <2>1
    <3>3. fresh' = fresh \/ (fresh' = fresh \cup {r} /\ Live = {})
      BY <2>4
    <3> QED
      BY <1>1, <2>1, <2>4, <3>1, <3>2, <3>3, ServeSame
  <2> QED
    BY <1>4, <2>3, <2>4 DEF ServeStop
<1> QED
  BY <1>2, <1>3, <1>4 DEF Serve

LEMMA RefuseStep ==
  ASSUME CacheInv, NEW r \in Reqs, Refuse(r) PROVE CacheInv'
<1>0. CacheTypes /\ ReqInv(r)
  BY DEF CacheInv
<1>1. /\ call[r].at = "sent" /\ Answer(r, 500, NoSession)
      /\ UNCHANGED <<pc, body, reply, status, owner, cache, answer, before, during, fresh, behind>>
  BY DEF Refuse, reqVars, remoteVars, pastVars
<1>2. /\ call' \in [Reqs -> CallType] /\ \A x \in Reqs \ {r} : call'[x] = call[x]
      /\ call'[r].op = call[r].op /\ call'[r].at = "answered" /\ call'[r].code = 500 /\ call'[r].session = NoSession
  BY <1>0, <1>1, Answered
<1>3. Still
  BY <1>1, StillIs
<1>4. CacheTypes'
  BY <1>0, <1>1, <1>2 DEF CacheTypes
<1>5. \A x \in Reqs \ {r} : Same(x)
  BY <1>1, <1>2 DEF Same
<1>6. pc[r] \in {"call", "done"} /\ r \notin fresh
  BY <1>0, <1>1 DEF ReqInv, PointInv
<1>7. ReqInv(r)'
  <2>1. PointInv(r)'
    BY <1>0, <1>1, <1>2, <1>6 DEF ReqInv, PointInv
  <2>2. SeenInv(r)'
    BY <1>0, <1>1, <1>2, <1>3 DEF ReqInv, SeenInv, InFlight, Heard, Still
  <2>3. FreshInv(r)'
    BY <1>1, <1>6 DEF FreshInv
  <2>4. StopInv(r)'
    BY <1>0, <1>1, <1>2, <1>3 DEF ReqInv, StopInv, InFlight, Heard, Still
  <2> QED
    BY <2>1, <2>2, <2>3, <2>4 DEF ReqInv
<1>8. CacheCurrent'
  BY <1>1, <1>3 DEF CacheInv, CacheCurrent, Still
<1> QED
  BY <1>1, <1>3, <1>4, <1>5, <1>7, <1>8, OneMoves

-----------------------------------------------------------------------------
\* A handler hears an answer.

\* It reports what the answer says, and the snapshot says the same.
LEMMA TellStep ==
  ASSUME CacheInv, NEW r \in Reqs, pc[r] = "call", Heard(r), Tell(r, Said(r, call[r].session)),
         ~(call[r].op = "active" /\ body[r].kind = "stop" /\ call[r].code = 200), call[r].op # "none",
         fresh' = fresh \ {r}, UNCHANGED <<status, owner, body, before, during>>
  PROVE CacheInv'
<1> DEFINE s == Said(r, call[r].session)
<1>0. CacheTypes /\ ReqInv(r)
  BY DEF CacheInv
<1>1. s \in Sessions \cup {NoSession} /\ NoCall \in CallType
  BY <1>0 DEF CacheTypes, CallType, Said, NoCall, Ops, Stages, Codes
<1>2. /\ pc' = [pc EXCEPT ![r] = "done"] /\ reply' = [reply EXCEPT ![r] = "ok"] /\ cache' = s
      /\ answer' = [answer EXCEPT ![r] = s] /\ behind' = (r \notin fresh) /\ call' = [call EXCEPT ![r] = NoCall]
  BY DEF Tell, Finish
<1>3. s \in during[r] /\ (r \in fresh => LiveSession = s)
  BY <1>0 DEF ReqInv, SeenInv, FreshInv, Heard, Said
<1>4. body[r].kind = "stop" /\ before[r] # NoSession => status[before[r]] = "stopped"
  <2>1. call[r].op = "stop" \/ call[r].op = "active" \/ call[r].op = "start"
    BY <1>0 DEF CacheTypes, CallType, Ops
  <2>2. CASE call[r].op = "stop"
    BY <1>0, <2>2 DEF ReqInv, StopInv
  <2>3. CASE call[r].op = "active"
    BY <1>0, <2>3 DEF ReqInv, StopInv, SeenInv
  <2>4. CASE call[r].op = "start"
    BY <1>0, <2>4 DEF ReqInv, PointInv
  <2> QED
    BY <2>1, <2>2, <2>3, <2>4
<1> HIDE DEF s
<1>5. Still
  BY StillIs
<1>6. CacheTypes'
  <2>1. call' \in [Reqs -> CallType] /\ answer' \in [Reqs -> Sessions \cup {NoSession, NoAnswer}]
    BY <1>0, <1>1, <1>2 DEF CacheTypes
  <2>2. behind' \in BOOLEAN
    BY <1>2
  <2> QED
    BY <1>0, <1>2, <2>1, <2>2 DEF CacheTypes
<1>7. \A x \in Reqs \ {r} : Same(x)
  BY <1>0, <1>2 DEF Same, CacheTypes
<1>8. /\ pc'[r] = "done" /\ answer'[r] = s /\ call'[r].op = "none" /\ call'[r].at = "none"
  BY <1>0, <1>2 DEF CacheTypes, NoCall
<1>9. ReqInv(r)'
  <2>1. PointInv(r)'
    BY <1>8 DEF PointInv
  <2>2. SeenInv(r)'
    BY <1>3, <1>8 DEF SeenInv, InFlight
  <2>3. FreshInv(r)'
    BY <1>8 DEF FreshInv
  <2>4. StopInv(r)'
    BY <1>4, <1>8 DEF StopInv, InFlight
  <2> QED
    BY <2>1, <2>2, <2>3, <2>4 DEF ReqInv
<1>10. CacheCurrent'
  <2>1. ~behind' => r \in fresh
    BY <1>2
  <2> QED
    BY <1>2, <1>3, <1>5, <2>1 DEF CacheCurrent, Still
<1> QED
  BY <1>5, <1>6, <1>7, <1>9, <1>10, OneMoves

\* The lookup of a stop is followed by the stop of what it found.
LEMMA SendStopStep ==
  ASSUME CacheInv, NEW r \in Reqs, pc[r] = "call", Heard(r), SendStop(r),
         fresh' = fresh \ {r}, UNCHANGED <<status, owner, body, before, during>>
  PROVE CacheInv'
<1>0. CacheTypes /\ ReqInv(r)
  BY DEF CacheInv
<1> DEFINE k == [NoCall EXCEPT !.op = "stop", !.at = "sent", !.session = call[r].session]
<1>1. /\ call[r].op = "active" /\ body[r].kind = "stop" /\ call[r].code = 200
      /\ call' = [call EXCEPT ![r] = k] /\ UNCHANGED <<pc, reply, cache, answer, behind>>
  BY DEF SendStop
<1>2. k \in CallType
  <2>1. NoCall \in CallType /\ "stop" \in Ops /\ "sent" \in Stages /\ call[r].session \in Sessions \cup {NoSession}
    BY <1>0 DEF CacheTypes, NoCall, CallType, Ops, Stages, Codes
  <2> QED
    BY <2>1 DEF CallType
<1>3. k.op = "stop" /\ k.at = "sent" /\ k.code = 0 /\ k.session = call[r].session
  BY DEF NoCall
<1> HIDE DEF k
<1>4. Still
  BY StillIs
<1>5. CacheTypes'
  BY <1>0, <1>1, <1>2 DEF CacheTypes
<1>6. \A x \in Reqs \ {r} : Same(x)
  BY <1>0, <1>1 DEF Same, CacheTypes
<1>7. call'[r].op = "stop" /\ call'[r].at = "sent" /\ call'[r].code = 0 /\ call'[r].session = call[r].session
  BY <1>0, <1>1, <1>3 DEF CacheTypes
<1>8. ReqInv(r)'
  <2>1. PointInv(r)'
    BY <1>0, <1>1, <1>7 DEF ReqInv, PointInv
  <2>2. SeenInv(r)'
    BY <1>0, <1>1, <1>4, <1>7 DEF ReqInv, SeenInv, InFlight, Heard, Still
  <2>3. FreshInv(r)'
    BY <1>7 DEF FreshInv
  <2>4. StopInv(r)'
    BY <1>0, <1>1, <1>4, <1>7 DEF ReqInv, StopInv, InFlight, Heard, Still
  <2> QED
    BY <2>1, <2>2, <2>3, <2>4 DEF ReqInv
<1>9. CacheCurrent'
  BY <1>1, <1>4 DEF CacheInv, CacheCurrent, Still
<1> QED
  BY <1>4, <1>5, <1>6, <1>8, <1>9, OneMoves

LEMMA HearStep ==
  ASSUME CacheInv, NEW r \in Reqs, Hear(r) PROVE CacheInv'
<1>1. pc[r] = "call" /\ Heard(r) /\ fresh' = fresh \ {r} /\ UNCHANGED <<status, owner, body, before, during>>
  BY DEF Hear, Heard, remoteVars
<1>2. CASE HearStop(r)
  BY <1>1, <1>2, TellStep DEF HearStop, Said
<1>3. CASE SendStop(r)
  BY <1>1, <1>3, SendStopStep
<1>4. CASE HearSession(r)
  <2>1. call[r].op \in {"active", "start"} /\ Tell(r, call[r].session) /\ ~(body[r].kind = "stop" /\ call[r].code = 200)
    BY <1>4 DEF HearSession
  <2>2. Tell(r, Said(r, call[r].session))
    BY <2>1 DEF Said
  <2> QED
    BY <1>1, <2>1, <2>2, TellStep
<1> QED
  BY <1>2, <1>3, <1>4 DEF Hear

-----------------------------------------------------------------------------
\* The other steps.

LEMMA KillStep ==
  ASSUME CacheInv, KillCore PROVE CacheInv'
<1>0. CacheTypes
  BY DEF CacheInv
<1>1. /\ pc' = [r \in Reqs |-> IF pc[r] = "idle" THEN "idle" ELSE "done"]
      /\ UNCHANGED <<body, reply, status, owner, call, cache, answer, before, during, fresh, behind>>
  BY DEF KillCore, Kill, relayVars, remoteVars, seenVars, pastVars
<1>2. Still
  BY <1>1, StillIs
<1>3. CacheTypes'
  BY <1>0, <1>1 DEF CacheTypes
<1>4. ASSUME NEW r \in Reqs PROVE ReqInv(r)'
  <2>1. CASE pc[r] = "idle"
    BY <1>1, <1>2, <2>1, Stays DEF CacheInv, Same
  <2>2. CASE pc[r] # "idle"
    BY <1>1, <1>2, <2>2, Ends DEF CacheInv
  <2> QED
    BY <2>1, <2>2
<1>5. CacheCurrent' /\ RemoteInv'
  BY <1>1, <1>2 DEF CacheInv, CacheCurrent, RemoteInv, Still
<1> QED
  BY <1>3, <1>4, <1>5 DEF CacheInv

\* Steps that touch no request and no session.
LEMMA QuietStep ==
  ASSUME CacheInv, UNCHANGED <<pc, body, reply, status, owner, call, answer, before, during, fresh>>,
         \/ UNCHANGED <<cache, behind>>
         \/ behind' = TRUE
         \/ behind' = FALSE /\ cache' = LiveSession
  PROVE CacheInv'
<1>1. Still
  BY StillIs
<1>2. CacheTypes'
  BY DEF CacheInv, CacheTypes
<1>3. \A r \in Reqs : ReqInv(r)'
  BY <1>1, Stays DEF CacheInv, Same
<1>4. CacheCurrent' /\ RemoteInv'
  BY <1>1 DEF CacheInv, CacheCurrent, RemoteInv, Still
<1> QED
  BY <1>2, <1>3, <1>4 DEF CacheInv

LEMMA ConfigRequestStep ==
  ASSUME CacheInv, NEW r \in Reqs, ConfigStep(r) \/ (\E b \in Bodies : Submit(r, b) /\ UNCHANGED relayVars)
  PROVE CacheInv'
<1>1. UNCHANGED relayVars
  BY DEF ConfigStep
<1>2. ASSUME NEW b \in Bodies, Submit(r, b) PROVE CacheInv'
  <2>1. /\ pc[r] = "idle" /\ body' = [body EXCEPT ![r] = b]
        /\ \E p \in {"save", "store", "done"} : pc' = [pc EXCEPT ![r] = p]
        /\ reply' = reply \/ reply' = [reply EXCEPT ![r] = "error"]
    BY <1>2 DEF Submit, After
  <2> QED
    BY <1>1, <2>1, EditStep DEF Editing
<1>3. CASE StoreSecret(r) \/ PersistSecret(r) \/ FailSecret(r)
  <2>1. /\ pc[r] \in Editing /\ body' = body
        /\ \E p \in Editing \cup {"done"} : pc' = [pc EXCEPT ![r] = p]
        /\ reply' = reply \/ reply' = [reply EXCEPT ![r] = "error"]
    BY <1>3 DEF StoreSecret, PersistSecret, FailSecret, After, Editing
  <2> QED
    BY <1>1, <2>1, EditStep
<1>4. CASE Save(r)
  <2>1. /\ pc[r] \in Editing /\ body' = body
        /\ \E p \in Editing \cup {"done"} : pc' = [pc EXCEPT ![r] = p]
        /\ reply' = reply \/ reply' = [reply EXCEPT ![r] = "error"]
    BY <1>4 DEF Save, Editing
  <2> QED
    BY <1>1, <2>1, EditStep
<1>5. CASE WriteConfig(r)
  <2>1. /\ pc[r] \in Editing /\ body' = body /\ pc' = [pc EXCEPT ![r] = "done"]
        /\ reply' = [reply EXCEPT ![r] = "ok"] \/ reply' = [reply EXCEPT ![r] = "error"]
    BY <1>5 DEF WriteConfig, Editing
  <2> QED
    BY <1>1, <2>1, EditStep
<1> QED
  BY <1>2, <1>3, <1>4, <1>5 DEF ConfigStep, RequestStep

LEMMA CacheStep ==
  ASSUME CacheInv, [Next]_vars PROVE CacheInv'
<1> USE DEF relayVars, remoteVars, seenVars, pastVars, reqVars
<1>0. RemoteInv
  BY DEF CacheInv
<1>1. CASE StartCore \/ Probe
  BY <1>1, QuietStep DEF StartCore, Start, Probe, PassProbe
<1>2. CASE Boot
  BY <1>2, QuietStep DEF Boot, TakeToken, KeepToken
<1>3. CASE Command
  BY <1>3, QuietStep DEF Command, CliOpen, CliTruncate, CliWrite, ConfigInit, CheckAbsent, EmptyForDefault, WriteDefault, AbandonDefault
<1>4. CASE KillCore
  BY <1>4, KillStep
<1>5. ASSUME NEW r \in Reqs, ConfigStep(r) \/ (\E b \in Bodies : Submit(r, b) /\ UNCHANGED relayVars) PROVE CacheInv'
  BY <1>5, ConfigRequestStep
<1>6. ASSUME NEW r \in Reqs, \E k \in {"refresh", "start", "stop"} : AegisRequest(r, k) PROVE CacheInv'
  BY <1>6, AegisRequestStep DEF Handled
<1>7. ASSUME NEW r \in Reqs, BuildClient(r) \/ Serve(r) \/ Refuse(r) \/ Hear(r) \/ GiveUp(r) PROVE CacheInv'
  BY <1>7, BuildClientStep, ServeStep, RefuseStep, HearStep, GiveUpStep
<1>8. ASSUME NEW s \in Sessions, CloseElsewhere(s) PROVE CacheInv'
  <2>1. Drift /\ Changed({}) /\ UNCHANGED <<pc, body, reply, call, cache, answer>>
    BY <1>0, <1>8, Closes DEF CloseElsewhere, storeVars
  <2> QED
    BY <2>1, DriftStep
<1>9. ASSUME NEW s \in Sessions, CliRelayStart(s) PROVE CacheInv'
  <2>1. Drift /\ Changed({}) /\ UNCHANGED <<pc, body, reply, call, cache, answer>>
    BY <1>0, <1>9, Opens DEF CliRelayStart, storeVars
  <2> QED
    BY <2>1, DriftStep
<1>10. CASE UNCHANGED vars
  BY <1>10, QuietStep DEF vars, storeVars
<1> QED
  BY <1>1, <1>2, <1>3, <1>4, <1>5, <1>6, <1>7, <1>8, <1>9, <1>10 DEF Next

\* What handlers know of the relay session between their steps is so.
THEOREM CacheInvariant == Spec => []CacheInv
<1>1. Init => CacheInv
  <2> SUFFICES ASSUME Init PROVE CacheInv
    OBVIOUS
  <2> USE DEF Init, StoreInit, Remote!Init
  <2>1. Live = {} /\ RemoteInv
    BY DEF Live, RemoteInv, Remote!LiveStatus
  <2>2. NoCall \in CallType /\ NoCall.op = "none" /\ NoCall.at = "none" /\ NoCall.session = NoSession
    BY DEF NoCall, CallType, Ops, Stages, Codes
  <2>3. CacheTypes
    BY <2>2 DEF CacheTypes
  <2>4. \A r \in Reqs : ReqInv(r)
    BY <2>2 DEF ReqInv, PointInv, SeenInv, FreshInv, StopInv, InFlight, Heard, NoBody
  <2>5. CacheCurrent
    BY <2>1, LiveIs DEF CacheCurrent, OneLive
  <2> QED
    BY <2>1, <2>3, <2>4, <2>5 DEF CacheInv
<1> QED
  BY <1>1, CacheStep, PTL DEF Spec

\* What a refresh, a start or a stop reports was so while it was being served.
THEOREM AnswersCurrent == Spec => []AnswersAreCurrent
<1>1. CacheInv => AnswersAreCurrent
  BY DEF CacheInv, ReqInv, SeenInv, AnswersAreCurrent
<1> QED
  BY <1>1, CacheInvariant, PTL

\* An acknowledged stop has ended the session that was live when it came.
THEOREM StopsStop == Spec => []StopStops
<1>1. CacheInv => StopStops
  BY DEF CacheInv, ReqInv, StopInv, StopStops
<1> QED
  BY <1>1, CacheInvariant, PTL

\* The snapshot is what the control plane has, unless something happened that the
\* core was not told of or was told of too late.
THEOREM SnapshotCurrent == Spec => []CacheCurrent
<1>1. CacheInv => CacheCurrent
  BY DEF CacheInv
<1> QED
  BY <1>1, CacheInvariant, PTL
=============================================================================
