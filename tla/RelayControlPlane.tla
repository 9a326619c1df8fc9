------------------------- MODULE RelayControlPlane -------------------------
(***************************************************************************)
(* The relay start and stop handlers of the Aegis control plane, the store *)
(* transactions they run and the EC2 instances they launch and terminate.  *)
(*                                                                         *)
(* A request is a process.  One step is one SQL statement whose snapshot   *)
(* matters (PostgreSQL READ COMMITTED: every statement sees the rows       *)
(* committed when it starts) or one provider call.  The last write of a    *)
(* transaction and its commit are one step: until the commit other         *)
(* statements read the old row and other writers of the row wait.          *)
(* Requests share one context for all their calls, so once the client is   *)
(* gone every later call fails, the compensating ones included.            *)
(***************************************************************************)
EXTENDS Naturals, FiniteSets

CONSTANTS
  Users, Keys, Hashes,     \* accounts, idempotency keys, request-body hashes
  Sessions, Instances,     \* pools of session ids and EC2 instance ids
  StartReqs, StopReqs,     \* the HTTP requests of a behaviour
  NoUser, NoKey, NoHash, NoSession, NoInstance,
  MaxFaults                \* how many failures the environment may inject

ASSUME NullsAssumption ==
  /\ NoUser \notin Users
  /\ NoSession \notin Sessions
  /\ NoInstance \notin Instances
  /\ NoKey \notin Keys
  /\ NoHash \notin Hashes

ASSUME RequestsAssumption == StartReqs \cap StopReqs = {}

ASSUME MaxFaultsAssumption == MaxFaults \in Nat

VARIABLES
  status, owner,           \* table sessions: status and user_id of each row
  relayAws, relayState,    \* table relay_instances, by session_id (unique)
  idem,                    \* table idempotency_records, by (user, key)
  cloud, tag,              \* EC2: instance state and its AegisSessionID tag
  pc, user, key, hash,     \* requests: next step and the parsed input
  sid, curr, prov, ctx,    \* requests: session id, last row read, instance, r.Context()
  resp,                    \* requests: the answer written
  cleanupOk,               \* requests: no compensating call has failed (history)
  faults                   \* failures injected so far

dbVars == <<status, owner, relayAws, relayState, idem>>
cloudVars == <<cloud, tag>>
inputVars == <<user, key, hash>>
localVars == <<sid, curr, prov>>
vars == <<dbVars, cloudVars, pc, inputVars, localVars, ctx, resp, cleanupOk, faults>>

Reqs == StartReqs \cup StopReqs

LiveStatus == {"provisioning", "active", "grace"}
Status == LiveStatus \cup {"absent", "stopped"}

\* The part of model.Session that handlers and clients act on.
Snap == [id: Sessions \cup {NoSession}, status: Status, aws: Instances \cup {NoInstance}]
NoSnap == [id |-> NoSession, status |-> "absent", aws |-> NoInstance]

IdemRecord == [hash: Hashes \cup {NoHash}, resp: Snap, ttl: {"none", "live", "expired"}]
NoRecord == [hash |-> NoHash, resp |-> NoSnap, ttl |-> "none"]

StoreSteps == {"idem_lookup", "find_active", "persist_existing", "insert_session",
               "activate", "get_session", "stop_read", "stop_write"}
ProviderSteps == {"run_instances", "wait_running", "comp_deprovision", "deprovision"}
InFlight == StoreSteps \cup ProviderSteps
PC == InFlight \cup {"idle", "done", "dead"}

Code == {0, 200, 201, 400, 404, 409, 500}
NoResp == [code |-> 0, sess |-> NoSnap]


\* What getSessionByIDTx and getActiveSessionTx scan out of the joined row.
Bug_Snapshot(s) == [id |-> s, status |-> relayState[s], aws |-> relayAws[s]]
Snapshot(s) == [id |-> s, status |-> status[s], aws |-> relayAws[s]]

\* The rows getActiveSessionTx can return for a user.
LiveOf(u) == {s \in Sessions : owner[s] = u /\ status[s] \in LiveStatus}

\* sessions_one_active_per_user, the partial unique index, lets the insert through.
Bug_UniqueLiveHolds(u) == TRUE
UniqueLiveHolds(u) == LiveOf(u) = {}

\* The update of ActivateProvisionedSession hits the row.
Bug_Activatable(s) == status[s] # "absent"
Activatable(s) == status[s] = "provisioning"

\* The row exists and belongs to the caller: where s.user_id = $1 and s.id = $2.
Visible(r) == /\ sid[r] \in Sessions
              /\ status[sid[r]] # "absent"
              /\ owner[sid[r]] = user[r]

Init ==
  /\ status = [s \in Sessions |-> "absent"]
  /\ owner = [s \in Sessions |-> NoUser]
  /\ relayAws = [s \in Sessions |-> NoInstance]
  /\ relayState = [s \in Sessions |-> "none"]
  /\ idem = [uk \in Users \X Keys |-> NoRecord]
  /\ cloud = [i \in Instances |-> "none"]
  /\ tag = [i \in Instances |-> NoSession]
  /\ pc = [r \in Reqs |-> "idle"]
  /\ user = [r \in Reqs |-> NoUser]
  /\ key = [r \in StartReqs |-> NoKey]
  /\ hash = [r \in StartReqs |-> NoHash]
  /\ sid = [r \in Reqs |-> NoSession]
  /\ curr = [r \in Reqs |-> NoSnap]
  /\ prov = [r \in Reqs |-> NoInstance]
  /\ ctx = [r \in Reqs |-> "live"]
  /\ resp = [r \in Reqs |-> NoResp]
  /\ cleanupOk = [r \in Reqs |-> TRUE]
  /\ faults = 0

-----------------------------------------------------------------------------
\* Steps of a request, failures and answers.

At(r, step) == pc[r] = step

Goto(r, step) == pc' = [pc EXCEPT ![r] = step] /\ UNCHANGED resp

Respond(r, code, snap) ==
  /\ pc' = [pc EXCEPT ![r] = "done"]
  /\ resp' = [resp EXCEPT ![r] = [code |-> code, sess |-> snap]]

\* A store or provider call can only succeed while the request's context is live.
CallOk(r) == ctx[r] = "live" /\ UNCHANGED faults

\* A call fails because the context is cancelled or because the environment fails it.
CallFails(r) ==
  \/ ctx[r] = "cancelled" /\ UNCHANGED faults
  \/ ctx[r] = "live" /\ faults < MaxFaults /\ faults' = faults + 1

\* A commit takes effect; its acknowledgement may be lost with the connection.
Commit(r, ack) == IF ack THEN CallOk(r) ELSE ctx[r] = "live" /\ CallFails(r)

-----------------------------------------------------------------------------
\* POST /api/v1/relay/start

SubmitStart(r, u, k, h) ==
  /\ At(r, "idle")
  /\ Goto(r, "idem_lookup")
  /\ user' = [user EXCEPT ![r] = u]
  /\ key' = [key EXCEPT ![r] = k]
  /\ hash' = [hash EXCEPT ![r] = h]
  /\ UNCHANGED <<dbVars, cloudVars, localVars, ctx, cleanupOk, faults>>

\* Missing identity, key or body: answered before the store is reached.
RejectInvalid(r) ==
  /\ At(r, "idle")
  /\ Respond(r, 400, NoSnap)
  /\ UNCHANGED <<dbVars, cloudVars, inputVars, localVars, ctx, cleanupOk, faults>>

\* StartOrGetSession, first statement: an unexpired record decides the answer.
StartIdemLookup(r) ==
  LET rec == idem[<<user[r], key[r]>>] IN
  /\ At(r, "idem_lookup")
  /\ CallOk(r)
  /\ \/ rec.ttl = "live" /\ rec.hash # hash[r] /\ Respond(r, 409, NoSnap)
     \/ rec.ttl = "live" /\ rec.hash = hash[r] /\ Respond(r, 200, rec.resp)
     \/ rec.ttl # "live" /\ Goto(r, "find_active")
  /\ UNCHANGED <<dbVars, cloudVars, inputVars, localVars, ctx, cleanupOk>>

\* StartOrGetSession, second statement: getActiveSessionTx.
StartFindActive(r) ==
  /\ At(r, "find_active")
  /\ CallOk(r)
  /\ \/ \E s \in LiveOf(user[r]) :
          /\ curr' = [curr EXCEPT ![r] = Snapshot(s)]
          /\ Goto(r, "persist_existing")
     \/ LiveOf(user[r]) = {} /\ Goto(r, "insert_session") /\ UNCHANGED curr
  /\ UNCHANGED <<dbVars, cloudVars, inputVars, sid, prov, ctx, cleanupOk>>

\* The upsert leaves request_hash and expires_at of an existing record alone.
PersistIdempotencyRecord(r, snap) ==
  idem' = [idem EXCEPT ![<<user[r], key[r]>>] =
             IF @.ttl = "none" THEN [hash |-> hash[r], resp |-> snap, ttl |-> "live"]
                               ELSE [hash |-> @.hash, resp |-> snap, ttl |-> @.ttl]]

\* An existing session is returned as if it had just been created.
Bug_StartPersistExisting(r, ack) ==
  /\ At(r, "persist_existing")
  /\ Commit(r, ack)
  /\ PersistIdempotencyRecord(r, curr[r])
  /\ sid' = [sid EXCEPT ![r] = curr[r].id]
  /\ Goto(r, "run_instances")
  /\ UNCHANGED <<status, owner, relayAws, relayState, cloudVars, inputVars, curr, prov, ctx, cleanupOk>>

StartPersistExisting(r, ack) ==
  /\ At(r, "persist_existing")
  /\ Commit(r, ack)
  /\ PersistIdempotencyRecord(r, curr[r])
  /\ IF ack THEN Respond(r, 200, curr[r]) ELSE Respond(r, 500, NoSnap)
  /\ UNCHANGED <<status, owner, relayAws, relayState, cloudVars, inputVars, localVars, ctx, cleanupOk>>

\* Insert and record in one transaction.  sessions_one_active_per_user makes
\* the insert fail when another start has committed a live session meanwhile.
StartInsert(r, s, ack) ==
  /\ At(r, "insert_session")
  /\ UniqueLiveHolds(user[r])
  /\ status[s] = "absent"
  /\ Commit(r, ack)
  /\ status' = [status EXCEPT ![s] = "provisioning"]
  /\ owner' = [owner EXCEPT ![s] = user[r]]
  /\ PersistIdempotencyRecord(r, [id |-> s, status |-> "provisioning", aws |-> NoInstance])
  /\ IF ack
       THEN sid' = [sid EXCEPT ![r] = s] /\ Goto(r, "run_instances")
       ELSE UNCHANGED sid /\ Respond(r, 500, NoSnap)
  /\ UNCHANGED <<relayAws, relayState, cloudVars, inputVars, curr, prov, ctx, cleanupOk>>

\* The insert is retried until the unique index lets it through.
Bug_StartInsertConflict(r) ==
  /\ At(r, "insert_session")
  /\ ~UniqueLiveHolds(user[r])
  /\ CallOk(r)
  /\ Goto(r, "insert_session")
  /\ UNCHANGED <<dbVars, cloudVars, inputVars, localVars, ctx, cleanupOk>>

StartInsertConflict(r) ==
  /\ At(r, "insert_session")
  /\ ~UniqueLiveHolds(user[r])
  /\ CallOk(r)
  /\ Respond(r, 500, NoSnap)
  /\ UNCHANGED <<dbVars, cloudVars, inputVars, localVars, ctx, cleanupOk>>

\* Provision launches an instance tagged with the session and waits for it.
\* retryAWS repeats the call with one input, whose ClientToken the SDK has
\* filled in at the first attempt, so a retry cannot launch another instance.
RunInstances(r, i) ==
  /\ At(r, "run_instances")
  /\ CallOk(r)
  /\ cloud[i] = "none"
  /\ cloud' = [cloud EXCEPT ![i] = "running"]
  /\ tag' = [tag EXCEPT ![i] = sid[r]]
  /\ prov' = [prov EXCEPT ![r] = i]
  /\ Goto(r, "wait_running")
  /\ UNCHANGED <<dbVars, inputVars, sid, curr, ctx, cleanupOk>>

\* The handler answers before the session is activated.
Bug_InstanceRunning(r) ==
  /\ At(r, "wait_running")
  /\ CallOk(r)
  /\ Respond(r, 201, [id |-> sid[r], status |-> "active", aws |-> prov[r]])
  /\ UNCHANGED <<dbVars, cloudVars, inputVars, localVars, ctx, cleanupOk>>

InstanceRunning(r) ==
  /\ At(r, "wait_running")
  /\ CallOk(r)
  /\ Goto(r, "activate")
  /\ UNCHANGED <<dbVars, cloudVars, inputVars, localVars, ctx, cleanupOk>>

\* Provision returns an error and no instance id, also after the launch; the
\* handler's compensateStop only stops the session.
ProvisionFails(r) ==
  /\ At(r, "run_instances") \/ At(r, "wait_running")
  /\ CallFails(r)
  /\ prov' = [prov EXCEPT ![r] = NoInstance]
  /\ Goto(r, "stop_read")
  /\ UNCHANGED <<dbVars, cloudVars, inputVars, sid, curr, ctx, cleanupOk>>

\* ActivateProvisionedSession: relay row and session row in one transaction;
\* when the session has left 'provisioning' the update hits no row and all is
\* rolled back.
ActivateProvisionedSession(r, ack) ==
  LET s == sid[r] IN
  /\ At(r, "activate")
  /\ Activatable(s)
  /\ Commit(r, ack)
  /\ status' = [status EXCEPT ![s] = "active"]
  /\ relayAws' = [relayAws EXCEPT ![s] = prov[r]]
  /\ relayState' = [relayState EXCEPT ![s] = "running"]
  /\ IF ack THEN Respond(r, 201, [id |-> s, status |-> "active", aws |-> prov[r]])
            ELSE Goto(r, "comp_deprovision")
  /\ UNCHANGED <<owner, idem, cloudVars, inputVars, localVars, ctx, cleanupOk>>

\* ErrNotFound is answered like any other store error, without compensation.
Bug_ActivateNotFound(r) ==
  /\ At(r, "activate")
  /\ ~Activatable(sid[r])
  /\ CallOk(r)
  /\ Respond(r, 500, NoSnap)
  /\ UNCHANGED <<dbVars, cloudVars, inputVars, localVars, ctx, cleanupOk>>

ActivateNotFound(r) ==
  /\ At(r, "activate")
  /\ ~Activatable(sid[r])
  /\ CallOk(r)
  /\ Goto(r, "comp_deprovision")
  /\ UNCHANGED <<dbVars, cloudVars, inputVars, localVars, ctx, cleanupOk>>

\* compensateStop is used where the instance has to go as well.
Bug_ActivateFails(r) ==
  /\ At(r, "activate")
  /\ CallFails(r)
  /\ Goto(r, "stop_read")
  /\ UNCHANGED <<dbVars, cloudVars, inputVars, localVars, ctx, cleanupOk>>

\* Token generation or the activating transaction fails.
ActivateFails(r) ==
  /\ At(r, "activate")
  /\ CallFails(r)
  /\ Goto(r, "comp_deprovision")
  /\ UNCHANGED <<dbVars, cloudVars, inputVars, localVars, ctx, cleanupOk>>

\* compensateRelayStartProvisioned: deprovision, then stop; errors are logged.
CompensateDeprovision(r) ==
  /\ At(r, "comp_deprovision")
  /\ CallOk(r)
  /\ cloud' = [cloud EXCEPT ![prov[r]] = "terminated"]
  /\ Goto(r, "stop_read")
  /\ UNCHANGED <<dbVars, tag, inputVars, localVars, ctx, cleanupOk>>

CompensateDeprovisionFails(r, acted) ==
  /\ At(r, "comp_deprovision")
  /\ CallFails(r)
  /\ cloud' = [cloud EXCEPT ![prov[r]] = IF acted THEN "terminated" ELSE @]
  /\ cleanupOk' = [cleanupOk EXCEPT ![r] = FALSE]
  /\ Goto(r, "stop_read")
  /\ UNCHANGED <<dbVars, tag, inputVars, localVars, ctx>>

-----------------------------------------------------------------------------
\* POST /api/v1/relay/stop

SubmitStop(r, u, s) ==
  /\ At(r, "idle")
  /\ Goto(r, "get_session")
  /\ user' = [user EXCEPT ![r] = u]
  /\ sid' = [sid EXCEPT ![r] = s]
  /\ UNCHANGED <<dbVars, cloudVars, key, hash, curr, prov, ctx, cleanupOk, faults>>

\* GetSessionByID in a transaction of its own decides whether to deprovision.
StopGetSession(r) ==
  /\ At(r, "get_session")
  /\ CallOk(r)
  /\ IF ~Visible(r)
       THEN Respond(r, 404, NoSnap) /\ UNCHANGED <<curr, prov>>
       ELSE LET row == Snapshot(sid[r]) IN
            /\ curr' = [curr EXCEPT ![r] = row]
            /\ IF row.status # "stopped" /\ row.aws # NoInstance
                 THEN prov' = [prov EXCEPT ![r] = row.aws] /\ Goto(r, "deprovision")
                 ELSE UNCHANGED prov /\ Goto(r, "stop_read")
  /\ UNCHANGED <<dbVars, cloudVars, inputVars, sid, ctx, cleanupOk>>

\* TerminateInstances; an instance that is already gone counts as success.
StopDeprovision(r) ==
  /\ At(r, "deprovision")
  /\ CallOk(r)
  /\ cloud' = [cloud EXCEPT ![prov[r]] = "terminated"]
  /\ Goto(r, "stop_read")
  /\ UNCHANGED <<dbVars, tag, inputVars, localVars, ctx, cleanupOk>>

\* A failed terminate call is only logged.
Bug_StopDeprovisionFails(r, acted) ==
  /\ At(r, "deprovision")
  /\ CallFails(r)
  /\ cloud' = [cloud EXCEPT ![prov[r]] = IF acted THEN "terminated" ELSE @]
  /\ Goto(r, "stop_read")
  /\ UNCHANGED <<dbVars, tag, inputVars, localVars, ctx, cleanupOk>>

\* The call fails, before or after EC2 acted on it: 500, the rows are untouched.
StopDeprovisionFails(r, acted) ==
  /\ At(r, "deprovision")
  /\ CallFails(r)
  /\ cloud' = [cloud EXCEPT ![prov[r]] = IF acted THEN "terminated" ELSE @]
  /\ Respond(r, 500, NoSnap)
  /\ UNCHANGED <<dbVars, tag, inputVars, localVars, ctx, cleanupOk>>

-----------------------------------------------------------------------------
\* StopSession, called by the stop handler and by both compensations of start.

\* A start that stops its own session has failed whatever StopSession returns.
StopSessionReturns(r, code, snap) ==
  IF r \in StartReqs THEN Respond(r, 500, NoSnap) ELSE Respond(r, code, snap)

StopSessionRead(r) ==
  /\ At(r, "stop_read")
  /\ CallOk(r)
  /\ \/ ~Visible(r) /\ StopSessionReturns(r, 404, NoSnap) /\ UNCHANGED curr
     \/ /\ Visible(r)
        /\ status[sid[r]] = "stopped"
        /\ StopSessionReturns(r, 200, Snapshot(sid[r]))
        /\ UNCHANGED curr
     \/ /\ Visible(r)
        /\ status[sid[r]] # "stopped"
        /\ curr' = [curr EXCEPT ![r] = Snapshot(sid[r])]
        /\ Goto(r, "stop_write")
  /\ UNCHANGED <<dbVars, cloudVars, inputVars, sid, prov, ctx, cleanupOk>>

\* The update of StopSession hits the row.
Stoppable(r) == Visible(r) /\ status[sid[r]] \in LiveStatus

\* The relay row is marked by what the read saw, not by what the update hits.
StopSessionWrite(r, ack) ==
  LET s == sid[r] IN
  /\ At(r, "stop_write")
  /\ Stoppable(r)
  /\ Commit(r, ack)
  /\ status' = [status EXCEPT ![s] = "stopped"]
  /\ relayState' = [relayState EXCEPT ![s] =
                      IF curr[r].aws # NoInstance THEN "terminated" ELSE @]
  /\ IF ack
       THEN StopSessionReturns(r, 200, [id |-> s, status |-> "stopped", aws |-> relayAws[s]])
       ELSE StopSessionReturns(r, 500, NoSnap)
  /\ UNCHANGED <<owner, relayAws, idem, cloudVars, inputVars, localVars, ctx, cleanupOk>>

\* Another stop won between the read and the update: no row, ErrNotFound.
StopSessionNotFound(r) ==
  /\ At(r, "stop_write")
  /\ ~Stoppable(r)
  /\ CallOk(r)
  /\ StopSessionReturns(r, 404, NoSnap)
  /\ UNCHANGED <<dbVars, cloudVars, inputVars, localVars, ctx, cleanupOk>>

StopSessionFails(r) ==
  /\ At(r, "stop_read") \/ At(r, "stop_write")
  /\ CallFails(r)
  /\ cleanupOk' = [cleanupOk EXCEPT ![r] = FALSE]
  /\ StopSessionReturns(r, 500, NoSnap)
  /\ UNCHANGED <<dbVars, cloudVars, inputVars, localVars, ctx>>

\* Every other failing transaction is rolled back and answered 500.
StoreFails(r) ==
  /\ pc[r] \in {"idem_lookup", "find_active", "persist_existing", "insert_session", "get_session"}
  /\ CallFails(r)
  /\ Respond(r, 500, NoSnap)
  /\ UNCHANGED <<dbVars, cloudVars, inputVars, localVars, ctx, cleanupOk>>

-----------------------------------------------------------------------------
\* The environment: clients that give up, process death, the clock.

\* The client disconnects or times out, or the router's timeout fires.
CancelRequest(r) ==
  /\ pc[r] \in InFlight
  /\ ctx[r] = "live"
  /\ faults < MaxFaults
  /\ faults' = faults + 1
  /\ ctx' = [ctx EXCEPT ![r] = "cancelled"]
  /\ UNCHANGED <<dbVars, cloudVars, pc, inputVars, localVars, resp, cleanupOk>>

\* The API process dies with the requests it serves; open transactions roll back.
ApiCrash ==
  /\ \E r \in Reqs : pc[r] \in InFlight
  /\ faults < MaxFaults
  /\ faults' = faults + 1
  /\ pc' = [r \in Reqs |-> IF pc[r] \in InFlight THEN "dead" ELSE pc[r]]
  /\ UNCHANGED <<dbVars, cloudVars, inputVars, localVars, ctx, resp, cleanupOk>>

\* One hour passes for a record.
ExpireRecord(uk) ==
  /\ idem[uk].ttl = "live"
  /\ idem' = [idem EXCEPT ![uk] = [hash |-> @.hash, resp |-> @.resp, ttl |-> "expired"]]
  /\ UNCHANGED <<status, owner, relayAws, relayState, cloudVars, pc, inputVars, localVars,
                 ctx, resp, cleanupOk, faults>>

\* Job idempotency_ttl_cleanup.
CleanupExpiredIdempotencyRecords ==
  /\ \E uk \in Users \X Keys : idem[uk].ttl = "expired"
  /\ idem' = [uk \in Users \X Keys |-> IF idem[uk].ttl = "expired" THEN NoRecord ELSE idem[uk]]
  /\ UNCHANGED <<status, owner, relayAws, relayState, cloudVars, pc, inputVars, localVars,
                 ctx, resp, cleanupOk, faults>>

-----------------------------------------------------------------------------
StartStep(r) ==
  \/ StartIdemLookup(r)
  \/ StartFindActive(r)
  \/ \E ack \in BOOLEAN : StartPersistExisting(r, ack)
  \/ \E s \in Sessions, ack \in BOOLEAN : StartInsert(r, s, ack)
  \/ StartInsertConflict(r)
  \/ \E i \in Instances : RunInstances(r, i)
  \/ InstanceRunning(r)
  \/ ProvisionFails(r)
  \/ \E ack \in BOOLEAN : ActivateProvisionedSession(r, ack)
  \/ ActivateNotFound(r)
  \/ ActivateFails(r)
  \/ CompensateDeprovision(r)
  \/ \E acted \in BOOLEAN : CompensateDeprovisionFails(r, acted)

StopStep(r) ==
  \/ StopGetSession(r)
  \/ StopDeprovision(r)
  \/ \E acted \in BOOLEAN : StopDeprovisionFails(r, acted)

CommonStep(r) ==
  \/ StopSessionRead(r)
  \/ \E ack \in BOOLEAN : StopSessionWrite(r, ack)
  \/ StopSessionNotFound(r)
  \/ StopSessionFails(r)
  \/ StoreFails(r)

Submit ==
  \/ \E r \in StartReqs, u \in Users, k \in Keys, h \in Hashes : SubmitStart(r, u, k, h)
  \/ \E r \in StopReqs, u \in Users, s \in Sessions : SubmitStop(r, u, s)
  \/ \E r \in Reqs : RejectInvalid(r)

Environment ==
  \/ \E r \in Reqs : CancelRequest(r)
  \/ ApiCrash
  \/ \E uk \in Users \X Keys : ExpireRecord(uk)
  \/ CleanupExpiredIdempotencyRecords

Next ==
  \/ Submit
  \/ \E r \in StartReqs : StartStep(r)
  \/ \E r \in StopReqs : StopStep(r)
  \/ \E r \in Reqs : CommonStep(r)
  \/ Environment

Spec == Init /\ [][Next]_vars

\* net/http runs every accepted request's goroutine until its handler returns.
FairSpec ==
  /\ Spec
  /\ \A r \in StartReqs : WF_vars(StartStep(r) \/ CommonStep(r))
  /\ \A r \in StopReqs : WF_vars(StopStep(r) \/ CommonStep(r))

-----------------------------------------------------------------------------
(***************************************************************************)
(* Properties                                                              *)
(***************************************************************************)

RowsOK ==
  /\ status \in [Sessions -> Status]
  /\ owner \in [Sessions -> Users \cup {NoUser}]
  /\ relayAws \in [Sessions -> Instances \cup {NoInstance}]
  /\ relayState \in [Sessions -> {"none", "running", "terminated"}]
  /\ idem \in [Users \X Keys -> IdemRecord]

CloudOK ==
  /\ cloud \in [Instances -> {"none", "running", "terminated"}]
  /\ tag \in [Instances -> Sessions \cup {NoSession}]

ControlOK ==
  /\ pc \in [Reqs -> PC]
  /\ resp \in [Reqs -> [code: Code, sess: Snap]]

LocalsOK ==
  /\ user \in [Reqs -> Users \cup {NoUser}]
  /\ key \in [StartReqs -> Keys \cup {NoKey}]
  /\ hash \in [StartReqs -> Hashes \cup {NoHash}]
  /\ sid \in [Reqs -> Sessions \cup {NoSession}]
  /\ curr \in [Reqs -> Snap]
  /\ prov \in [Reqs -> Instances \cup {NoInstance}]
  /\ ctx \in [Reqs -> {"live", "cancelled"}]
  /\ cleanupOk \in [Reqs -> BOOLEAN]

InputsOK ==
  /\ \A r \in Reqs : pc[r] \in InFlight => user[r] \in Users
  /\ \A r \in StartReqs : pc[r] \in InFlight => key[r] \in Keys /\ hash[r] \in Hashes

\* Every variable keeps its type, and a request in flight has its input.
TypeOK == RowsOK /\ CloudOK /\ ControlOK /\ LocalsOK /\ InputsOK /\ faults \in 0..MaxFaults

\* What the sessions table shows behaves like the abstract session lifecycle:
\* concurrent starts, stops, replays, compensation, lost commits and crashes
\* never open a second live session for a user, never revive a stopped one and
\* never bind an instance twice or rebind a session.
Lifecycle == INSTANCE SessionLifecycle WITH bound <- relayAws
LifecycleSpec == Lifecycle!Spec

\* No duplicate active relay sessions per user, whatever races StartOrGetSession.
OneLiveSessionPerUser ==
  \A s, t \in Sessions :
    status[s] \in LiveStatus /\ status[t] \in LiveStatus /\ owner[s] = owner[t] => s = t

\* No duplicate provisioning: a session pays for at most one launch, however
\* often start is retried under its key, and however those retries interleave.
AtMostOneLaunchPerSession ==
  \A i, j \in Instances : tag[i] # NoSession /\ tag[i] = tag[j] => i = j

\* A request still working on a session it launched an instance for.
HoldsInstance(r, i) == prov[r] = i /\ pc[r] \in {"wait_running", "activate", "comp_deprovision"}

\* While nothing has failed, a running instance is always reachable: the start
\* that launched it is still at work or its session's relay row names it.
RunningInstanceTracked ==
  faults = 0 =>
    \A i \in Instances :
      cloud[i] = "running" =>
        \/ \E r \in StartReqs : HoldsInstance(r, i)
        \/ tag[i] \in Sessions /\ relayAws[tag[i]] = i

\* A start that fails after its instance came up undoes both halves, the
\* instance and the session, as long as its compensating calls go through,
\* also when a stop raced it or the activating commit was not acknowledged.
FailedStartCompensates ==
  \A r \in StartReqs :
    /\ pc[r] = "done"
    /\ resp[r].code = 500
    /\ prov[r] # NoInstance
    /\ cleanupOk[r]
    => cloud[prov[r]] = "terminated" /\ status[sid[r]] = "stopped"

\* A stop answered 200 has closed the session, and if its first read saw an
\* instance that instance is gone, whoever else stopped the session meanwhile.
StopAnswerIsTrue ==
  \A r \in StopReqs :
    resp[r].code = 200 =>
      /\ status[sid[r]] = "stopped"
      /\ prov[r] # NoInstance => cloud[prov[r]] = "terminated"

\* Without failures every accepted request is answered.
RequestsAnswered == \A r \in Reqs : pc[r] \in InFlight ~> pc[r] = "done"

\* Without failures no session stays in provisioning: it goes live or closes.
ProvisioningSettles == \A s \in Sessions : status[s] = "provisioning" ~> status[s] # "provisioning"

-----------------------------------------------------------------------------
\* A statement of the repository's documents that the code does not keep.

\* aegis-control-plane/README.md: "POST /api/v1/relay/stop triggers provider
\* deprovision and then marks relay/session terminated".
StoppedSessionHasNoInstance ==
  \A s \in Sessions :
    /\ status[s] = "stopped"
    /\ \A r \in Reqs : sid[r] = s => pc[r] \notin InFlight
    => \A i \in Instances : tag[i] = s => cloud[i] # "running"
=============================================================================
