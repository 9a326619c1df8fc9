----------------------------- MODULE RelayCache -----------------------------
(***************************************************************************)
(* The relay session the core shows: a snapshot that the startup probe and *)
(* the dashboard's handlers fill from the control plane, each after a call *)
(* during which the others, the command line and the control plane go on.  *)
(*                                                                         *)
(* The handlers run beside those of ConfigStore, load the same file and    *)
(* take their credentials from the same vault.  The control plane is what  *)
(* SessionLifecycle promises of it; an answer may be lost or come late.    *)
(***************************************************************************)
EXTENDS ConfigStore

CONSTANTS
  Sessions, User, NoUser, NoInstance,
  NoSession,
  NoAnswer     \* a request that was told nothing about the control plane

ASSUME SessionAssumption == NoSession \notin Sessions /\ NoAnswer \notin Sessions \cup {NoSession}

VARIABLES
  status, owner, bound,  \* the control plane's sessions
  call,                  \* a handler's request to the control plane
  cache,                 \* aegis_session_snapshot
  answer,                \* the session a handler reports as the control plane's
  before, during,        \* live session when a stop came; the ones since any request came (history)
  fresh, behind          \* answers that are still true; the cache may not be (history)

remoteVars == <<status, owner, bound>>
seenVars == <<call, cache, answer>>
pastVars == <<before, during, fresh, behind>>
relayVars == <<remoteVars, seenVars, pastVars>>
vars == <<storeVars, relayVars>>

Remote == INSTANCE SessionLifecycle WITH Users <- {User}, Instances <- {}

Live == {s \in Sessions : status[s] \in Remote!LiveStatus}
LiveSession == IF Live = {} THEN NoSession ELSE CHOOSE s \in Live : TRUE

NoCall == [op |-> "none", at |-> "none", code |-> 0, session |-> NoSession]
InFlight(r) == pc[r] \in {"build", "call"}

-----------------------------------------------------------------------------
\* The control plane.

\* A change of the live session outdates every answer that is under way.
Changed(still) ==
  LET live == {s \in Sessions : status'[s] \in Remote!LiveStatus}
      now == IF live = {} THEN NoSession ELSE CHOOSE s \in live : TRUE
  IN  /\ during' = [r \in Reqs |-> IF InFlight(r) THEN during[r] \cup {now} ELSE during[r]]
      /\ fresh' = still
      /\ behind' = TRUE
      /\ UNCHANGED before

Answer(r, code, s) == call' = [call EXCEPT ![r] = [@ EXCEPT !.at = "answered", !.code = code, !.session = s]]

\* The control plane serves a call, also one whose caller has given up.
ServeActive(r) ==
  /\ call[r].op = "active"
  /\ Answer(r, IF Live = {} THEN 204 ELSE 200, LiveSession)
  /\ fresh' = fresh \cup {r}
  /\ UNCHANGED <<remoteVars, before, during, behind>>

ServeStart(r) ==
  /\ call[r].op = "start"
  /\ \/ /\ Live # {}
        /\ Answer(r, 200, LiveSession)
        /\ fresh' = fresh \cup {r}
        /\ UNCHANGED <<remoteVars, before, during, behind>>
     \/ \E s \in Sessions :
          /\ Remote!Open(User, s)
          /\ Answer(r, 201, s)
          /\ Changed({r})

ServeStop(r) ==
  /\ call[r].op = "stop"
  /\ Answer(r, 200, call[r].session)
  /\ \/ /\ Remote!Close(call[r].session)
        /\ Changed({r})
     \/ /\ status[call[r].session] = "stopped"
        /\ fresh' = IF Live = {} THEN fresh \cup {r} ELSE fresh
        /\ UNCHANGED <<remoteVars, before, during, behind>>

Serve(r) ==
  /\ call[r].at = "sent"
  /\ ServeActive(r) \/ ServeStart(r) \/ ServeStop(r)
  /\ UNCHANGED <<storeVars, cache, answer>>

\* An error status: the request had no effect.
Refuse(r) ==
  /\ call[r].at = "sent"
  /\ faults < MaxFaults
  /\ faults' = faults + 1
  /\ Answer(r, 500, NoSession)
  /\ UNCHANGED <<env, file, vaultFile, startVars, vault, reqVars, configured, cliVars, histVars>>
  /\ UNCHANGED <<remoteVars, cache, answer, pastVars>>

\* The control plane ends a session, or the user does so on another machine or
\* with aegis-relay-stop; the core does not hear of it.
CloseElsewhere(s) ==
  /\ Remote!Close(s)
  /\ Changed({})
  /\ UNCHANGED <<storeVars, seenVars>>

\* aegis-relay-start on the command line; the core does not hear of it.
CliRelayStart(s) ==
  /\ Loads
  /\ Load.creds
  /\ OpenVault["access_jwt"] # "none"
  /\ Remote!Open(User, s)
  /\ Changed({})
  /\ UNCHANGED <<storeVars, seenVars>>

-----------------------------------------------------------------------------
\* Startup.

BuildsClient(c) == c.creds /\ vault["access_jwt"] # "none"

\* Every start begins with no session cached.
StartCore ==
  /\ Start
  /\ cache' = NoSession
  /\ behind' = TRUE
  /\ UNCHANGED <<remoteVars, call, answer, before, during, fresh>>

\* run_aegis_startup_probe is awaited before anyone can see the snapshot.  It
\* returns at once when the control plane is disabled or no client can be built,
\* and leaves the snapshot alone when its call fails.
Probe ==
  /\ PassProbe
  /\ \/ /\ Load.aegis
        /\ BuildsClient(Load)
        /\ cache' = LiveSession
        /\ behind' = FALSE
     \/ UNCHANGED <<cache, behind>>
  /\ UNCHANGED <<remoteVars, call, answer, before, during, fresh>>

-----------------------------------------------------------------------------
\* Handlers: get_aegis_status, post_aegis_start, post_aegis_stop.

Finish(r, code) ==
  /\ pc' = [pc EXCEPT ![r] = "done"]
  /\ reply' = [reply EXCEPT ![r] = code]

\* The load; then the vault, except for a refresh with the control plane disabled.
\* A status request without refresh changes nothing and is left out.
AegisRequest(r, k) ==
  /\ main = "up"
  /\ pc[r] = "idle"
  /\ body' = [body EXCEPT ![r] = [kind |-> k]]
  /\ before' = [before EXCEPT ![r] = IF k = "stop" THEN LiveSession ELSE NoSession]
  /\ during' = [during EXCEPT ![r] = {LiveSession}]
  /\ IF ~Loads
       THEN Finish(r, "error") /\ UNCHANGED draft
       ELSE IF k = "refresh" /\ ~Load.aegis
         THEN Finish(r, "ok") /\ UNCHANGED draft
         ELSE /\ pc' = [pc EXCEPT ![r] = "build"]
              /\ draft' = [draft EXCEPT ![r] = Load]
              /\ UNCHANGED reply
  /\ UNCHANGED <<env, file, vaultFile, startVars, vault, todo, configured, cliVars, histVars, faults>>
  /\ UNCHANGED <<remoteVars, seenVars, fresh, behind>>

\* A stop goes by the session that is cached.
Bug_FirstCall(k) ==
  IF k = "stop" /\ cache # NoSession
    THEN [NoCall EXCEPT !.op = "stop", !.at = "sent", !.session = cache]
    ELSE [NoCall EXCEPT !.op = IF k = "start" THEN "start" ELSE "active", !.at = "sent"]

\* A start starts; a refresh and a stop first look the live session up.
FirstCall(k) == [NoCall EXCEPT !.op = IF k = "start" THEN "start" ELSE "active", !.at = "sent"]

\* build_aegis_client_from_config under the vault's mutex, and the first call.
BuildClient(r) ==
  /\ pc[r] = "build"
  /\ ~VaultHeld
  /\ draft' = [draft EXCEPT ![r] = Default]
  /\ IF BuildsClient(draft[r])
       THEN /\ pc' = [pc EXCEPT ![r] = "call"]
            /\ call' = [call EXCEPT ![r] = FirstCall(body[r].kind)]
            /\ UNCHANGED reply
       ELSE Finish(r, "error") /\ UNCHANGED call
  /\ UNCHANGED <<env, file, vaultFile, startVars, vault, body, todo, configured, cliVars, histVars, faults>>
  /\ UNCHANGED <<remoteVars, cache, answer, pastVars>>

\* A successful answer: the snapshot is overwritten with what it says.
Tell(r, s) ==
  /\ Finish(r, "ok")
  /\ cache' = s
  /\ answer' = [answer EXCEPT ![r] = s]
  /\ behind' = (r \notin fresh)
  /\ call' = [call EXCEPT ![r] = NoCall]

\* The stop of a session leaves the snapshot alone.
Bug_HearStop(r) ==
  /\ call[r].op = "stop"
  /\ Finish(r, "ok")
  /\ answer' = [answer EXCEPT ![r] = NoSession]
  /\ behind' = (r \notin fresh)
  /\ call' = [call EXCEPT ![r] = NoCall]
  /\ UNCHANGED cache

HearStop(r) == call[r].op = "stop" /\ Tell(r, NoSession)

\* The lookup of a stop found a session, which is stopped by its id.
SendStop(r) ==
  /\ call[r].op = "active"
  /\ body[r].kind = "stop"
  /\ call[r].code = 200
  /\ call' = [call EXCEPT ![r] = [NoCall EXCEPT !.op = "stop", !.at = "sent", !.session = call[r].session]]
  /\ UNCHANGED <<pc, reply, cache, answer, behind>>

\* A refresh answers with the snapshot it found.
Bug_HearSession(r) ==
  /\ call[r].op \in {"active", "start"}
  /\ ~(body[r].kind = "stop" /\ call[r].code = 200)
  /\ Tell(r, IF body[r].kind = "refresh" THEN cache ELSE call[r].session)

\* A refresh, a start, or a stop with nothing to stop.
HearSession(r) ==
  /\ call[r].op \in {"active", "start"}
  /\ ~(body[r].kind = "stop" /\ call[r].code = 200)
  /\ Tell(r, call[r].session)

\* The future of a call resolves with a status the client accepts.
Hear(r) ==
  /\ pc[r] = "call"
  /\ call[r].at = "answered"
  /\ call[r].code # 500
  /\ HearStop(r) \/ SendStop(r) \/ HearSession(r)
  /\ fresh' = fresh \ {r}
  /\ UNCHANGED <<env, file, vaultFile, startVars, vault, body, draft, todo, configured, cliVars, histVars, faults>>
  /\ UNCHANGED <<remoteVars, before, during>>

\* The client waits for an answer as long as it takes.
Bug_GiveUp(r) ==
  /\ pc[r] = "call"
  /\ call[r].code = 500
  /\ Finish(r, "error")
  /\ call' = [call EXCEPT ![r] = NoCall]
  /\ UNCHANGED <<env, file, vaultFile, startVars, vault, body, draft, todo, configured, cliVars, histVars, faults>>
  /\ UNCHANGED <<remoteVars, cache, answer, pastVars>>

\* An error status, an unreadable body or the client's 15 s: 502 and no effect
\* here.  A browser that hangs up drops the handler at the same place.
GiveUp(r) ==
  /\ pc[r] = "call"
  /\ Finish(r, "error")
  /\ call' = [call EXCEPT ![r] = IF @.at = "sent" /\ @.op # "active" THEN @ ELSE NoCall]
  /\ UNCHANGED <<env, file, vaultFile, startVars, vault, body, draft, todo, configured, cliVars, histVars, faults>>
  /\ UNCHANGED <<remoteVars, cache, answer, pastVars>>

KillCore == Kill /\ UNCHANGED relayVars

-----------------------------------------------------------------------------
Init ==
  /\ StoreInit
  /\ Remote!Init
  /\ call = [r \in Reqs |-> NoCall]
  /\ cache = NoSession
  /\ answer = [r \in Reqs |-> NoAnswer]
  /\ before = [r \in Reqs |-> NoSession]
  /\ during = [r \in Reqs |-> {}]
  /\ fresh = {}
  /\ behind = FALSE

ConfigStep(r) == RequestStep(r) /\ UNCHANGED relayVars
Boot == (TakeToken \/ KeepToken) /\ UNCHANGED relayVars
Command ==
  /\ (\E k \in CliKeys : CliOpen(k)) \/ CliTruncate \/ CliWrite \/ ConfigInit
  /\ UNCHANGED relayVars

Next ==
  \/ StartCore
  \/ Probe
  \/ Boot
  \/ Command
  \/ KillCore
  \/ \E r \in Reqs :
       \/ \E b \in Bodies : Submit(r, b) /\ UNCHANGED relayVars
       \/ \E k \in {"refresh", "start", "stop"} : AegisRequest(r, k)
       \/ ConfigStep(r)
       \/ BuildClient(r)
       \/ Serve(r)
       \/ Refuse(r)
       \/ Hear(r)
       \/ GiveUp(r)
  \/ \E s \in Sessions : CloseElsewhere(s) \/ CliRelayStart(s)

Spec == Init /\ [][Next]_vars

(***************************************************************************)
(* A handler that is running goes on, and the HTTP client's timeout ends   *)
(* every call.  Users, commands and the control plane owe nothing.         *)
(***************************************************************************)
FairSpec == Spec /\ \A r \in Reqs : WF_vars(ConfigStep(r)) /\ WF_vars(BuildClient(r)) /\ WF_vars(Hear(r) \/ GiveUp(r))

-----------------------------------------------------------------------------
(***************************************************************************)
(* Properties                                                              *)
(***************************************************************************)

\* What a refresh, a start or a stop reports of the control plane was so at
\* some moment while the request was being served, never before it came.
AnswersAreCurrent == \A r \in Reqs : answer[r] # NoAnswer => answer[r] \in during[r]

\* An acknowledged stop ends the session that was live when the user asked,
\* whatever the snapshot, the other handlers and the command line say of it.
StopStops ==
  \A r \in Reqs :
    body[r].kind = "stop" /\ reply[r] = "ok" /\ before[r] # NoSession => status[before[r]] = "stopped"

\* The snapshot is what the control plane has, unless the control plane changed
\* behind the core's back, an answer was lost or a late one came in last.
CacheCurrent == ~behind => cache = LiveSession

\* Every request is answered: nobody waits for the vault or the control plane for ever.
HandlersAnswer == \A r \in Reqs : pc[r] \notin {"idle", "done"} ~> pc[r] = "done"
=============================================================================
