---------------------- MODULE RelayControlPlaneProofs ----------------------
(***************************************************************************)
(* Theorems about RelayControlPlane, for every set of users, keys, ids and *)
(* requests and every number of injected failures.                         *)
(***************************************************************************)
EXTENDS RelayControlPlane, TLAPS

\* The program points, as the facts about them that the proofs use.
LEMMA ProgramPoints ==
  /\ InFlight \subseteq PC
  /\ {"idle", "done", "dead"} \subseteq PC
  /\ "idle" \notin InFlight /\ "done" \notin InFlight /\ "dead" \notin InFlight
  /\ {"idem_lookup", "find_active", "persist_existing", "insert_session", "activate",
      "get_session", "stop_read", "stop_write", "run_instances", "wait_running",
      "comp_deprovision", "deprovision"} \subseteq InFlight
BY DEF PC, InFlight, StoreSteps, ProviderSteps

\* The answer codes and session states that occur in steps.
LEMMA Literals ==
  /\ {0, 200, 201, 400, 404, 409, 500} \subseteq Code
  /\ {"provisioning", "active", "stopped", "absent"} \subseteq Status
  /\ LiveStatus \subseteq Status
BY DEF Code, Status, LiveStatus

\* A call, successful or not, keeps the failure count within its bound.
LEMMA CallBounds ==
  ASSUME NEW r, NEW ack, faults \in 0..MaxFaults, CallOk(r) \/ CallFails(r) \/ Commit(r, ack)
  PROVE  faults' \in 0..MaxFaults
BY MaxFaultsAssumption DEF CallOk, CallFails, Commit

\* A request that moves on stays typed and no other request moves.
LEMMA GotoControl ==
  ASSUME ControlOK, NEW r \in Reqs, NEW step \in InFlight, Goto(r, step)
  PROVE  /\ ControlOK'
         /\ \A q \in Reqs : q # r => pc'[q] = pc[q]
         /\ pc'[r] = step
BY ProgramPoints DEF ControlOK, Goto

\* A request that answers stays typed, leaves flight, and no other request moves.
LEMMA RespondControl ==
  ASSUME ControlOK, NEW r \in Reqs, NEW code \in Code, NEW snap \in Snap, Respond(r, code, snap)
  PROVE  /\ ControlOK'
         /\ \A q \in Reqs : q # r => pc'[q] = pc[q]
         /\ pc'[r] \notin InFlight
BY ProgramPoints DEF ControlOK, Respond

\* What every step of a request in flight has in common: it makes a call and then
\* moves on or answers.
Advances(r) ==
  /\ r \in Reqs
  /\ pc[r] \in InFlight
  /\ \/ \E step \in InFlight : Goto(r, step)
     \/ \E code \in Code, snap \in Snap : Respond(r, code, snap)
  /\ CallOk(r) \/ CallFails(r) \/ (\E ack \in BOOLEAN : Commit(r, ack))

\* A step of a request keeps control, inputs and the failure count well typed.
LEMMA AdvanceTypes ==
  ASSUME TypeOK, NEW r, Advances(r), UNCHANGED inputVars
  PROVE  ControlOK' /\ InputsOK' /\ faults' \in 0..MaxFaults
<1>1. faults' \in 0..MaxFaults
  BY CallBounds DEF TypeOK, Advances
<1>2. ControlOK' /\ \A q \in Reqs : pc'[q] = pc[q] \/ q = r
  BY GotoControl, RespondControl DEF TypeOK, Advances
<1>3. InputsOK'
  BY <1>2 DEF TypeOK, InputsOK, Advances, inputVars, Reqs
<1> QED BY <1>1, <1>2, <1>3

\* A row read from the tables is a well-typed session.
LEMMA SnapshotTypes ==
  ASSUME TypeOK, NEW s \in Sessions
  PROVE  Snapshot(s) \in Snap
BY DEF TypeOK, RowsOK, Snapshot, Snap

\* The null values are well typed.
LEMMA NullTypes == NoSnap \in Snap /\ NoRecord \in IdemRecord /\ NoResp \in [code: Code, sess: Snap]
BY Literals DEF NoSnap, NoRecord, NoResp, Snap, IdemRecord

\* persistIdempotencyRecord keeps the table well formed.
LEMMA PersistTypes ==
  ASSUME TypeOK, NEW r \in StartReqs, NEW snap \in Snap, pc[r] \in InFlight,
         PersistIdempotencyRecord(r, snap)
  PROVE  idem' \in [Users \X Keys -> IdemRecord]
<1>1. user[r] \in Users /\ key[r] \in Keys /\ hash[r] \in Hashes
  BY DEF TypeOK, InputsOK, Reqs
<1>2. idem[<<user[r], key[r]>>] \in IdemRecord
  BY <1>1 DEF TypeOK, RowsOK
<1> QED BY <1>1, <1>2 DEF PersistIdempotencyRecord, IdemRecord, TypeOK, RowsOK

\* Type correctness: every handler step keeps the rows, the requests' locals and
\* the answers within their types, and a request in flight has its input.
THEOREM TypeCorrect == Spec => []TypeOK
<1>1. Init => TypeOK
  <2> SUFFICES ASSUME Init PROVE TypeOK
    OBVIOUS
  <2>1. RowsOK /\ CloudOK
    BY NullTypes, Literals DEF Init, RowsOK, CloudOK
  <2>2. ControlOK /\ InputsOK
    BY NullTypes, ProgramPoints DEF Init, ControlOK, InputsOK, Reqs
  <2>3. LocalsOK /\ faults \in 0..MaxFaults
    BY NullTypes, MaxFaultsAssumption DEF Init, LocalsOK
  <2> QED BY <2>1, <2>2, <2>3 DEF TypeOK
<1>2. ASSUME TypeOK, [Next]_vars
      PROVE  TypeOK'
  <2> USE <1>2
  <2>1. ASSUME NEW r \in StartReqs, NEW u \in Users, NEW k \in Keys, NEW h \in Hashes,
               SubmitStart(r, u, k, h)
        PROVE  TypeOK'
    <3>1. RowsOK' /\ CloudOK' /\ faults' \in 0..MaxFaults
      BY <2>1 DEF SubmitStart, TypeOK, RowsOK, CloudOK, dbVars, cloudVars
    <3>2. LocalsOK'
      BY <2>1 DEF SubmitStart, TypeOK, LocalsOK, localVars, Reqs
    <3>3. ControlOK' /\ \A q \in Reqs : q # r => pc'[q] = pc[q]
      BY <2>1, ProgramPoints, GotoControl DEF SubmitStart, TypeOK, Reqs
    <3>4. InputsOK'
      BY <2>1, <3>3 DEF SubmitStart, TypeOK, InputsOK, LocalsOK, Reqs
    <3> QED BY <3>1, <3>2, <3>3, <3>4 DEF TypeOK
  <2>2. ASSUME NEW r \in StopReqs, NEW u \in Users, NEW s \in Sessions, SubmitStop(r, u, s)
        PROVE  TypeOK'
    <3>1. RowsOK' /\ CloudOK' /\ faults' \in 0..MaxFaults
      BY <2>2 DEF SubmitStop, TypeOK, RowsOK, CloudOK, dbVars, cloudVars
    <3>2. LocalsOK'
      BY <2>2 DEF SubmitStop, TypeOK, LocalsOK, Reqs
    <3>3. ControlOK' /\ \A q \in Reqs : q # r => pc'[q] = pc[q]
      BY <2>2, ProgramPoints, GotoControl DEF SubmitStop, TypeOK, Reqs
    <3>4. InputsOK'
      BY <2>2, <3>3, RequestsAssumption DEF SubmitStop, TypeOK, InputsOK, LocalsOK, Reqs
    <3> QED BY <3>1, <3>2, <3>3, <3>4 DEF TypeOK
  <2>3. ASSUME NEW r \in Reqs, RejectInvalid(r)
        PROVE  TypeOK'
    <3>1. RowsOK' /\ CloudOK' /\ LocalsOK' /\ faults' \in 0..MaxFaults
      BY <2>3 DEF RejectInvalid, TypeOK, RowsOK, CloudOK, LocalsOK, dbVars, cloudVars, inputVars, localVars
    <3>2. ControlOK' /\ \A q \in Reqs : pc'[q] = pc[q] \/ pc'[q] \notin InFlight
      BY <2>3, Literals, NullTypes, RespondControl DEF RejectInvalid, TypeOK
    <3>3. InputsOK'
      BY <2>3, <3>2 DEF RejectInvalid, TypeOK, InputsOK, inputVars, Reqs
    <3> QED BY <3>1, <3>2, <3>3 DEF TypeOK
  <2>4. ASSUME NEW r \in StartReqs, StartIdemLookup(r)
        PROVE  TypeOK'
    <3>0. idem[<<user[r], key[r]>>].resp \in Snap
      BY <2>4, ProgramPoints DEF StartIdemLookup, At, TypeOK, RowsOK, InputsOK, IdemRecord, Reqs
    <3>1. Advances(r) /\ UNCHANGED inputVars
      BY <2>4, ProgramPoints, Literals, NullTypes, <3>0 DEF StartIdemLookup, Advances, At, Reqs
    <3>2. RowsOK' /\ CloudOK' /\ LocalsOK'
      BY <2>4
      DEF StartIdemLookup, TypeOK, RowsOK, CloudOK, LocalsOK,
          dbVars, cloudVars, inputVars, localVars, Reqs
    <3> QED BY <3>1, <3>2, AdvanceTypes DEF TypeOK
  <2>5. ASSUME NEW r \in StartReqs, StartFindActive(r)
        PROVE  TypeOK'
    <3>1. Advances(r) /\ UNCHANGED inputVars
      BY <2>5, ProgramPoints, Literals, NullTypes DEF StartFindActive, Advances, At, Reqs
    <3>2. RowsOK' /\ CloudOK' /\ LocalsOK'
      BY <2>5, SnapshotTypes
      DEF StartFindActive, LiveOf, TypeOK, RowsOK, CloudOK, LocalsOK,
          dbVars, cloudVars, inputVars, localVars, Reqs
    <3> QED BY <3>1, <3>2, AdvanceTypes DEF TypeOK
  <2>6. ASSUME NEW r \in StartReqs, NEW ack \in BOOLEAN, StartPersistExisting(r, ack)
        PROVE  TypeOK'
    <3>0. curr[r] \in Snap
      BY DEF TypeOK, LocalsOK, Reqs
    <3>1. Advances(r) /\ UNCHANGED inputVars
      BY <2>6, ProgramPoints, Literals, NullTypes, <3>0 DEF StartPersistExisting, Advances, At, Reqs
    <3>2. RowsOK' /\ CloudOK' /\ LocalsOK'
      BY <2>6, <3>0, PersistTypes, ProgramPoints
      DEF StartPersistExisting, At, TypeOK, RowsOK, CloudOK, LocalsOK,
          dbVars, cloudVars, inputVars, localVars, Reqs
    <3> QED BY <3>1, <3>2, AdvanceTypes DEF TypeOK
  <2>7. ASSUME NEW r \in StartReqs, NEW s \in Sessions, NEW ack \in BOOLEAN, StartInsert(r, s, ack)
        PROVE  TypeOK'
    <3>0. [id |-> s, status |-> "provisioning", aws |-> NoInstance] \in Snap
      BY Literals DEF Snap
    <3>1. Advances(r) /\ UNCHANGED inputVars
      BY <2>7, ProgramPoints, Literals, NullTypes DEF StartInsert, Advances, At, Reqs
    <3>3. idem' \in [Users \X Keys -> IdemRecord]
      BY <2>7, <3>0, PersistTypes, ProgramPoints DEF StartInsert, At
    <3>2. RowsOK' /\ CloudOK' /\ LocalsOK'
      BY <2>7, <3>3, Literals
      DEF StartInsert, TypeOK, RowsOK, CloudOK, LocalsOK,
          dbVars, cloudVars, inputVars, localVars, Reqs
    <3> QED BY <3>1, <3>2, AdvanceTypes DEF TypeOK
  <2>8. ASSUME NEW r \in StartReqs, StartInsertConflict(r)
        PROVE  TypeOK'
    <3>1. Advances(r) /\ UNCHANGED inputVars
      BY <2>8, ProgramPoints, Literals, NullTypes DEF StartInsertConflict, Advances, At, Reqs
    <3>2. RowsOK' /\ CloudOK' /\ LocalsOK'
      BY <2>8
      DEF StartInsertConflict, TypeOK, RowsOK, CloudOK, LocalsOK,
          dbVars, cloudVars, inputVars, localVars, Reqs
    <3> QED BY <3>1, <3>2, AdvanceTypes DEF TypeOK
  <2>9. ASSUME NEW r \in StartReqs, NEW i \in Instances, RunInstances(r, i)
        PROVE  TypeOK'
    <3>1. Advances(r) /\ UNCHANGED inputVars
      BY <2>9, ProgramPoints, Literals, NullTypes DEF RunInstances, Advances, At, Reqs
    <3>2. RowsOK' /\ CloudOK' /\ LocalsOK'
      BY <2>9
      DEF RunInstances, TypeOK, RowsOK, CloudOK, LocalsOK,
          dbVars, cloudVars, inputVars, localVars, Reqs
    <3> QED BY <3>1, <3>2, AdvanceTypes DEF TypeOK
  <2>10. ASSUME NEW r \in StartReqs, InstanceRunning(r)
        PROVE  TypeOK'
    <3>1. Advances(r) /\ UNCHANGED inputVars
      BY <2>10, ProgramPoints, Literals, NullTypes DEF InstanceRunning, Advances, At, Reqs
    <3>2. RowsOK' /\ CloudOK' /\ LocalsOK'
      BY <2>10
      DEF InstanceRunning, TypeOK, RowsOK, CloudOK, LocalsOK,
          dbVars, cloudVars, inputVars, localVars, Reqs
    <3> QED BY <3>1, <3>2, AdvanceTypes DEF TypeOK
  <2>11. ASSUME NEW r \in StartReqs, ProvisionFails(r)
        PROVE  TypeOK'
    <3>1. Advances(r) /\ UNCHANGED inputVars
      BY <2>11, ProgramPoints, Literals, NullTypes DEF ProvisionFails, Advances, At, Reqs
    <3>2. RowsOK' /\ CloudOK' /\ LocalsOK'
      BY <2>11
      DEF ProvisionFails, TypeOK, RowsOK, CloudOK, LocalsOK,
          dbVars, cloudVars, inputVars, localVars, Reqs
    <3> QED BY <3>1, <3>2, AdvanceTypes DEF TypeOK
  <2>12. ASSUME NEW r \in StartReqs, NEW ack \in BOOLEAN, ActivateProvisionedSession(r, ack)
        PROVE  TypeOK'
    <3>0. [id |-> sid[r], status |-> "active", aws |-> prov[r]] \in Snap
      BY Literals DEF Snap, TypeOK, LocalsOK, Reqs
    <3>1. Advances(r) /\ UNCHANGED inputVars
      BY <2>12, ProgramPoints, Literals, NullTypes, <3>0 DEF ActivateProvisionedSession, Advances, At, Reqs
    <3>2. RowsOK' /\ CloudOK' /\ LocalsOK'
      BY <2>12, Literals
      DEF ActivateProvisionedSession, TypeOK, RowsOK, CloudOK, LocalsOK,
          dbVars, cloudVars, inputVars, localVars, Reqs
    <3> QED BY <3>1, <3>2, AdvanceTypes DEF TypeOK
  <2>13. ASSUME NEW r \in StartReqs, ActivateNotFound(r) \/ ActivateFails(r)
        PROVE  TypeOK'
    <3>1. Advances(r) /\ UNCHANGED inputVars
      BY <2>13, ProgramPoints, Literals, NullTypes DEF ActivateNotFound, ActivateFails, Advances, At, Reqs
    <3>2. RowsOK' /\ CloudOK' /\ LocalsOK'
      BY <2>13
      DEF ActivateNotFound, ActivateFails, TypeOK, RowsOK, CloudOK, LocalsOK,
          dbVars, cloudVars, inputVars, localVars, Reqs
    <3> QED BY <3>1, <3>2, AdvanceTypes DEF TypeOK
  <2>14. ASSUME NEW r \in StartReqs, NEW acted \in BOOLEAN,
               CompensateDeprovision(r) \/ CompensateDeprovisionFails(r, acted)
        PROVE  TypeOK'
    <3>1. Advances(r) /\ UNCHANGED inputVars
      BY <2>14, ProgramPoints, Literals, NullTypes DEF CompensateDeprovision, CompensateDeprovisionFails, Advances, At, Reqs
    <3>2. CloudOK'
      BY <2>14 DEF CompensateDeprovision, CompensateDeprovisionFails, TypeOK, CloudOK
    <3>3. RowsOK'
      BY <2>14 DEF CompensateDeprovision, CompensateDeprovisionFails, TypeOK, RowsOK, dbVars
    <3>4. LocalsOK'
      BY <2>14
      DEF CompensateDeprovision, CompensateDeprovisionFails, TypeOK, LocalsOK, inputVars, localVars, Reqs
    <3> QED BY <3>1, <3>2, <3>3, <3>4, AdvanceTypes DEF TypeOK
  <2>15. ASSUME NEW r \in StopReqs, StopGetSession(r)
        PROVE  TypeOK'
    <3>1. Advances(r) /\ UNCHANGED inputVars
      BY <2>15, ProgramPoints, Literals, NullTypes DEF StopGetSession, Advances, At, Reqs
    <3>2. RowsOK' /\ CloudOK' /\ LocalsOK'
      BY <2>15, SnapshotTypes
      DEF StopGetSession, Visible, Snapshot, TypeOK, RowsOK, CloudOK, LocalsOK,
          dbVars, cloudVars, inputVars, localVars, Reqs
    <3> QED BY <3>1, <3>2, AdvanceTypes DEF TypeOK
  <2>16. ASSUME NEW r \in StopReqs, StopDeprovision(r)
        PROVE  TypeOK'
    <3>1. Advances(r) /\ UNCHANGED inputVars
      BY <2>16, ProgramPoints, Literals, NullTypes DEF StopDeprovision, Advances, At, Reqs
    <3>2. RowsOK' /\ CloudOK' /\ LocalsOK'
      BY <2>16
      DEF StopDeprovision, TypeOK, RowsOK, CloudOK, LocalsOK,
          dbVars, cloudVars, inputVars, localVars, Reqs
    <3> QED BY <3>1, <3>2, AdvanceTypes DEF TypeOK
  <2>17. ASSUME NEW r \in StopReqs, NEW acted \in BOOLEAN, StopDeprovisionFails(r, acted)
        PROVE  TypeOK'
    <3>1. Advances(r) /\ UNCHANGED inputVars
      BY <2>17, ProgramPoints, Literals, NullTypes DEF StopDeprovisionFails, Advances, At, Reqs
    <3>2. RowsOK' /\ CloudOK' /\ LocalsOK'
      BY <2>17
      DEF StopDeprovisionFails, TypeOK, RowsOK, CloudOK, LocalsOK,
          dbVars, cloudVars, inputVars, localVars, Reqs
    <3> QED BY <3>1, <3>2, AdvanceTypes DEF TypeOK
  <2>18. ASSUME NEW r \in Reqs, StopSessionRead(r)
        PROVE  TypeOK'
    <3>1. Advances(r) /\ UNCHANGED inputVars
      BY <2>18, ProgramPoints, Literals, NullTypes, SnapshotTypes DEF StopSessionRead, StopSessionReturns, Visible, Advances, At, Reqs
    <3>2. RowsOK' /\ CloudOK' /\ LocalsOK'
      BY <2>18, SnapshotTypes
      DEF StopSessionRead, Visible, TypeOK, RowsOK, CloudOK, LocalsOK,
          dbVars, cloudVars, inputVars, localVars, Reqs
    <3> QED BY <3>1, <3>2, AdvanceTypes DEF TypeOK
  <2>19. ASSUME NEW r \in Reqs, NEW ack \in BOOLEAN, StopSessionWrite(r, ack)
        PROVE  TypeOK'
    <3>0. [id |-> sid[r], status |-> "stopped", aws |-> relayAws[sid[r]]] \in Snap
      BY <2>19, Literals DEF StopSessionWrite, Stoppable, Visible, Snap, TypeOK, RowsOK
    <3>1. Advances(r) /\ UNCHANGED inputVars
      BY <2>19, ProgramPoints, Literals, NullTypes, <3>0 DEF StopSessionWrite, StopSessionReturns, Advances, At, Reqs
    <3>2. RowsOK' /\ CloudOK' /\ LocalsOK'
      BY <2>19, Literals
      DEF StopSessionWrite, TypeOK, RowsOK, CloudOK, LocalsOK,
          dbVars, cloudVars, inputVars, localVars, Reqs
    <3> QED BY <3>1, <3>2, AdvanceTypes DEF TypeOK
  <2>20. ASSUME NEW r \in Reqs, StopSessionNotFound(r) \/ StopSessionFails(r) \/ StoreFails(r)
        PROVE  TypeOK'
    <3>1. Advances(r) /\ UNCHANGED inputVars
      BY <2>20, ProgramPoints, Literals, NullTypes DEF StopSessionNotFound, StopSessionFails, StoreFails, StopSessionReturns, Advances, At, Reqs
    <3>2. RowsOK' /\ CloudOK' /\ LocalsOK'
      BY <2>20
      DEF StopSessionNotFound, StopSessionFails, StoreFails, TypeOK, RowsOK, CloudOK, LocalsOK,
          dbVars, cloudVars, inputVars, localVars, Reqs
    <3> QED BY <3>1, <3>2, AdvanceTypes DEF TypeOK
  <2>21. ASSUME NEW r \in Reqs, CancelRequest(r)
         PROVE  TypeOK'
    <3>1. RowsOK' /\ CloudOK' /\ ControlOK' /\ InputsOK'
      BY <2>21 DEF CancelRequest, TypeOK, RowsOK, CloudOK, ControlOK, InputsOK, dbVars, cloudVars, inputVars
    <3>2. LocalsOK' /\ faults' \in 0..MaxFaults
      BY <2>21, MaxFaultsAssumption DEF CancelRequest, TypeOK, LocalsOK, inputVars, localVars
    <3> QED BY <3>1, <3>2 DEF TypeOK
  <2>22. CASE ApiCrash
    <3>1. RowsOK' /\ CloudOK' /\ LocalsOK'
      BY <2>22 DEF ApiCrash, TypeOK, RowsOK, CloudOK, LocalsOK, dbVars, cloudVars, inputVars, localVars
    <3>2. ControlOK' /\ InputsOK'
      BY <2>22, ProgramPoints DEF ApiCrash, TypeOK, ControlOK, InputsOK, inputVars, Reqs
    <3>3. faults' \in 0..MaxFaults
      BY <2>22, MaxFaultsAssumption DEF ApiCrash, TypeOK
    <3> QED BY <3>1, <3>2, <3>3 DEF TypeOK
  <2>23. ASSUME NEW uk \in Users \X Keys, ExpireRecord(uk)
         PROVE  TypeOK'
    <3>1. RowsOK'
      BY <2>23 DEF ExpireRecord, TypeOK, RowsOK, IdemRecord
    <3> QED
      BY <2>23, <3>1
      DEF ExpireRecord, TypeOK, CloudOK, ControlOK, LocalsOK, InputsOK, cloudVars, inputVars, localVars
  <2>24. CASE CleanupExpiredIdempotencyRecords
    <3>1. RowsOK'
      BY <2>24, NullTypes DEF CleanupExpiredIdempotencyRecords, TypeOK, RowsOK
    <3> QED
      BY <2>24, <3>1
      DEF CleanupExpiredIdempotencyRecords, TypeOK, CloudOK, ControlOK, LocalsOK, InputsOK,
          cloudVars, inputVars, localVars
  <2>25. CASE UNCHANGED vars
    BY <2>25
    DEF vars, TypeOK, RowsOK, CloudOK, ControlOK, LocalsOK, InputsOK,
        dbVars, cloudVars, inputVars, localVars
  <2> QED
    BY <2>1, <2>2, <2>3, <2>4, <2>5, <2>6, <2>7, <2>8, <2>9, <2>10, <2>11, <2>12, <2>13, <2>14, <2>15,
       <2>16, <2>17, <2>18, <2>19, <2>20, <2>21, <2>22, <2>23, <2>24, <2>25
    DEF Next, Submit, StartStep, StopStep, CommonStep, Environment
<1> QED BY <1>1, <1>2, PTL DEF Spec

-----------------------------------------------------------------------------
(***************************************************************************)
(* The inductive invariant.  None of the safety properties is inductive by *)
(* itself: that an instance is bound to one session only follows from the  *)
(* tag it was launched with, and that a session has one launch only from   *)
(* there being one request that created it.                                *)
(***************************************************************************)
Creating == {"run_instances", "wait_running", "activate"}

\* A session is bound to an instance only by its activation.
RowInv == \A s \in Sessions : status[s] \in {"absent", "provisioning"} => relayAws[s] = NoInstance

\* The instance a session is bound to was launched for it.
BindInv ==
  \A s \in Sessions :
    relayAws[s] # NoInstance => cloud[relayAws[s]] # "none" /\ tag[relayAws[s]] = s

\* Launched instances are tagged, with a session that exists.
TagInv ==
  \A i \in Instances :
    /\ cloud[i] = "none" <=> tag[i] = NoSession
    /\ tag[i] # NoSession => status[tag[i]] # "absent"

\* An instance id in a request's hands is one of a launched instance.
ProvInv == \A r \in Reqs : prov[r] # NoInstance => cloud[prov[r]] # "none"

\* The start that created a session is the only one to work on it, and has
\* launched nothing for it before run_instances.
CreatorInv ==
  /\ \A r \in StartReqs : sid[r] # NoSession => status[sid[r]] # "absent"
  /\ \A r \in StartReqs : pc[r] \in Creating => sid[r] # NoSession
  /\ \A r \in StartReqs :
       pc[r] \in {"wait_running", "activate"} => prov[r] # NoInstance /\ tag[prov[r]] = sid[r]
  /\ \A r \in StartReqs : pc[r] = "run_instances" => \A i \in Instances : tag[i] # sid[r]
  /\ \A q, r \in StartReqs : sid[q] = sid[r] /\ sid[r] # NoSession => q = r

SessionInv ==
  /\ RowInv /\ BindInv /\ TagInv /\ ProvInv /\ CreatorInv
  /\ OneLiveSessionPerUser /\ AtMostOneLaunchPerSession

\* A step that leaves the rows and tags alone, launches nothing, hands out no
\* instance that was not launched, and takes no start to its launch.
Quiet ==
  /\ UNCHANGED <<status, owner, relayAws, tag>>
  /\ \A i \in Instances : cloud'[i] = "none" <=> cloud[i] = "none"
  /\ \A r \in Reqs : prov'[r] # NoInstance => prov'[r] \in Instances /\ cloud[prov'[r]] # "none"
  /\ \A r \in StartReqs :
       /\ sid'[r] = sid[r]
       /\ pc'[r] = "run_instances" => pc[r] = "run_instances"
       /\ pc'[r] \in {"wait_running", "activate"} =>
            pc[r] \in {"wait_running", "activate"} /\ prov'[r] = prov[r]

\* A quiet step keeps the invariant: it touches nothing SessionInv speaks of.
LEMMA QuietPreserves ==
  ASSUME TypeOK, SessionInv, Quiet
  PROVE  SessionInv'
<1>1. RowInv' /\ BindInv' /\ TagInv' /\ ProvInv'
  BY DEF Quiet, SessionInv, RowInv, BindInv, TagInv, ProvInv, TypeOK, RowsOK
<1>2. CreatorInv'
  BY DEF Quiet, SessionInv, CreatorInv, Creating
<1>3. OneLiveSessionPerUser' /\ AtMostOneLaunchPerSession'
  BY DEF Quiet, SessionInv, OneLiveSessionPerUser, AtMostOneLaunchPerSession
<1> QED BY <1>1, <1>2, <1>3 DEF SessionInv

\* The steps that are not quiet: the three writes of a session row and the launch.
Loud ==
  \/ \E r \in StartReqs, s \in Sessions, ack \in BOOLEAN : StartInsert(r, s, ack)
  \/ \E r \in StartReqs, i \in Instances : RunInstances(r, i)
  \/ \E r \in StartReqs, ack \in BOOLEAN : ActivateProvisionedSession(r, ack)
  \/ \E r \in Reqs, ack \in BOOLEAN : StopSessionWrite(r, ack)

\* Every other step of the model is quiet.
LEMMA QuietOrLoud ==
  ASSUME TypeOK, SessionInv, [Next]_vars
  PROVE  Quiet \/ Loud
<1> USE DEF dbVars, cloudVars, localVars, inputVars, TypeOK, CloudOK, ControlOK, LocalsOK, Reqs,
            SessionInv, ProvInv, Quiet, Goto, Respond
<1>1. ASSUME NEW r \in StartReqs, NEW u \in Users, NEW k \in Keys, NEW h \in Hashes,
             SubmitStart(r, u, k, h)
      PROVE  Quiet
  BY <1>1 DEF SubmitStart
<1>2. ASSUME NEW r \in StopReqs, NEW u \in Users, NEW s \in Sessions, SubmitStop(r, u, s)
      PROVE  Quiet
  BY <1>2, RequestsAssumption DEF SubmitStop
<1>3. ASSUME NEW r \in Reqs, RejectInvalid(r)
      PROVE  Quiet
  BY <1>3 DEF RejectInvalid
<1>4. ASSUME NEW r \in StartReqs, StartIdemLookup(r) \/ StartFindActive(r) \/ StartInsertConflict(r)
      PROVE  Quiet
  BY <1>4 DEF StartIdemLookup, StartFindActive, StartInsertConflict
<1>5. ASSUME NEW r \in StartReqs, NEW ack \in BOOLEAN, StartPersistExisting(r, ack)
      PROVE  Quiet
  BY <1>5 DEF StartPersistExisting
<1>6. ASSUME NEW r \in StartReqs, InstanceRunning(r) \/ ActivateNotFound(r) \/ ActivateFails(r)
      PROVE  Quiet
  BY <1>6 DEF InstanceRunning, ActivateNotFound, ActivateFails, At
<1>7. ASSUME NEW r \in StartReqs, ProvisionFails(r)
      PROVE  Quiet
  BY <1>7 DEF ProvisionFails
<1>8. ASSUME NEW r \in StartReqs, CompensateDeprovision(r)
      PROVE  Quiet
  BY <1>8, NullsAssumption DEF CompensateDeprovision
<1>9. ASSUME NEW r \in StartReqs, NEW acted \in BOOLEAN, CompensateDeprovisionFails(r, acted)
      PROVE  Quiet
  BY <1>9, NullsAssumption DEF CompensateDeprovisionFails
<1>10. ASSUME NEW r \in StopReqs, StopGetSession(r)
       PROVE  Quiet
  BY <1>10, RequestsAssumption DEF StopGetSession, Visible, Snapshot, BindInv, RowsOK
<1>11. ASSUME NEW r \in StopReqs, StopDeprovision(r)
       PROVE  Quiet
  BY <1>11, NullsAssumption DEF StopDeprovision
<1>12. ASSUME NEW r \in StopReqs, NEW acted \in BOOLEAN, StopDeprovisionFails(r, acted)
       PROVE  Quiet
  BY <1>12, NullsAssumption DEF StopDeprovisionFails
<1>13. ASSUME NEW r \in Reqs,
              StopSessionRead(r) \/ StopSessionNotFound(r) \/ StopSessionFails(r) \/ StoreFails(r)
       PROVE  Quiet
  BY <1>13 DEF StopSessionRead, StopSessionNotFound, StopSessionFails, StoreFails, StopSessionReturns
<1>14. CASE Environment
  BY <1>14 DEF Environment, CancelRequest, ApiCrash, ExpireRecord, CleanupExpiredIdempotencyRecords
<1>15. CASE UNCHANGED vars
  BY <1>15 DEF vars
<1> QED
  BY <1>1, <1>2, <1>3, <1>4, <1>5, <1>6, <1>7, <1>8, <1>9, <1>10, <1>11, <1>12, <1>13, <1>14, <1>15
  DEF Next, Submit, StartStep, StopStep, CommonStep, Loud

\* Each of the four loud steps keeps the invariant.
LEMMA LoudPreserves ==
  ASSUME TypeOK, SessionInv, Loud
  PROVE  SessionInv'
<1>1. ASSUME NEW r \in StartReqs, NEW s \in Sessions, NEW ack \in BOOLEAN, StartInsert(r, s, ack)
      PROVE  SessionInv'
  <2> USE <1>1 DEF StartInsert, cloudVars
  <2>1. r \in Reqs /\ user[r] \in Users /\ status[s] = "absent"
    BY ProgramPoints DEF At, TypeOK, InputsOK, Reqs
  <2>2. \A t \in Sessions : t # s => status'[t] = status[t] /\ owner'[t] = owner[t]
    BY <2>1 DEF TypeOK, RowsOK
  <2>3. status'[s] = "provisioning" /\ owner'[s] = user[r]
    BY <2>1 DEF TypeOK, RowsOK
  <2>4. RowInv' /\ BindInv' /\ TagInv' /\ ProvInv'
    BY <2>1, <2>2, <2>3 DEF SessionInv, RowInv, BindInv, TagInv, ProvInv, TypeOK, CloudOK
  <2>5. \A q \in StartReqs : q # r => pc'[q] = pc[q] /\ sid'[q] = sid[q]
    BY <2>1 DEF TypeOK, ControlOK, LocalsOK, Goto, Respond, Reqs
  <2>6. \A i \in Instances : tag[i] # s
    BY <2>1, NullsAssumption DEF SessionInv, TagInv
  <2>7. \A q \in StartReqs : sid[q] # s /\ sid[q] \in Sessions \cup {NoSession}
    BY <2>1, NullsAssumption DEF SessionInv, CreatorInv, TypeOK, LocalsOK, Reqs
  <2>8. CreatorInv'
    <3>1. ASSUME ack PROVE CreatorInv'
      <4>1. pc'[r] = "run_instances" /\ sid'[r] = s
        BY <2>1, <3>1 DEF TypeOK, ControlOK, LocalsOK, Goto
      <4> QED
        BY <4>1, <2>2, <2>3, <2>5, <2>6, <2>7, NullsAssumption DEF SessionInv, CreatorInv, Creating
    <3>2. ASSUME ~ack PROVE CreatorInv'
      <4>1. pc'[r] = "done" /\ sid' = sid
        BY <2>1, <3>2 DEF TypeOK, ControlOK, Respond
      <4> QED
        BY <4>1, <2>2, <2>3, <2>5, <2>7 DEF SessionInv, CreatorInv, Creating
    <3> QED BY <3>1, <3>2
  <2>9. OneLiveSessionPerUser' /\ AtMostOneLaunchPerSession'
    BY <2>1, <2>2, <2>3
    DEF SessionInv, OneLiveSessionPerUser, AtMostOneLaunchPerSession, UniqueLiveHolds, LiveOf
  <2> QED BY <2>4, <2>8, <2>9 DEF SessionInv
<1>2. ASSUME NEW r \in StartReqs, NEW i \in Instances, RunInstances(r, i)
      PROVE  SessionInv'
  <2> USE <1>2 DEF RunInstances, dbVars
  <2>1. r \in Reqs /\ sid[r] \in Sessions /\ tag[i] = NoSession
    BY DEF At, SessionInv, CreatorInv, Creating, TagInv, TypeOK, LocalsOK, Reqs
  <2>2. \A j \in Instances : j # i => cloud'[j] = cloud[j] /\ tag'[j] = tag[j]
    BY DEF TypeOK, CloudOK
  <2>3. cloud'[i] = "running" /\ tag'[i] = sid[r] /\ prov'[r] = i /\ pc'[r] = "wait_running"
    BY <2>1 DEF TypeOK, CloudOK, LocalsOK, ControlOK, Goto
  <2>4. \A q \in Reqs : q # r => pc'[q] = pc[q] /\ prov'[q] = prov[q]
    BY <2>1 DEF TypeOK, ControlOK, LocalsOK, Goto
  <2>5. \A j \in Instances : tag[j] # sid[r]
    BY DEF At, SessionInv, CreatorInv
  <2>6. RowInv' /\ BindInv'
    BY <2>2, NullsAssumption DEF SessionInv, RowInv, BindInv, TypeOK, RowsOK
  <2>7. TagInv' /\ ProvInv'
    BY <2>1, <2>2, <2>3, <2>4, NullsAssumption
    DEF SessionInv, TagInv, ProvInv, CreatorInv, TypeOK, LocalsOK, Reqs
  <2>8. CreatorInv'
    BY <2>1, <2>2, <2>3, <2>4, NullsAssumption
    DEF SessionInv, CreatorInv, Creating, ProvInv, TypeOK, LocalsOK, Reqs
  <2>9. OneLiveSessionPerUser' /\ AtMostOneLaunchPerSession'
    BY <2>1, <2>2, <2>3, <2>5 DEF SessionInv, OneLiveSessionPerUser, AtMostOneLaunchPerSession
  <2> QED BY <2>6, <2>7, <2>8, <2>9 DEF SessionInv
<1>3. ASSUME NEW r \in StartReqs, NEW ack \in BOOLEAN, ActivateProvisionedSession(r, ack)
      PROVE  SessionInv'
  <2> USE <1>3 DEF ActivateProvisionedSession, cloudVars, localVars
  <2>1. r \in Reqs /\ sid[r] \in Sessions /\ prov[r] \in Instances
    BY DEF At, SessionInv, CreatorInv, Creating, TypeOK, LocalsOK, Reqs
  <2>2. /\ \A t \in Sessions : t # sid[r] => status'[t] = status[t] /\ relayAws'[t] = relayAws[t]
        /\ status'[sid[r]] = "active" /\ relayAws'[sid[r]] = prov[r]
        /\ status[sid[r]] = "provisioning"
    BY <2>1 DEF TypeOK, RowsOK, Activatable
  <2>3. cloud[prov[r]] # "none" /\ tag[prov[r]] = sid[r]
    BY <2>1, NullsAssumption DEF At, SessionInv, CreatorInv, ProvInv
  <2>4. RowInv' /\ BindInv' /\ ProvInv'
    BY <2>1, <2>2, <2>3 DEF SessionInv, RowInv, BindInv, ProvInv
  <2>5. TagInv'
    BY <2>1, <2>2 DEF SessionInv, TagInv, TypeOK, CloudOK
  <2>6. \A q \in StartReqs : pc'[q] \in Creating => pc'[q] = pc[q]
    BY <2>1 DEF TypeOK, ControlOK, Goto, Respond, Reqs, Creating
  <2>7. CreatorInv'
    BY <2>1, <2>2, <2>6 DEF SessionInv, CreatorInv, Creating, TypeOK, LocalsOK, Reqs
  <2>8. OneLiveSessionPerUser' /\ AtMostOneLaunchPerSession'
    BY <2>1, <2>2 DEF SessionInv, OneLiveSessionPerUser, AtMostOneLaunchPerSession, LiveStatus
  <2> QED BY <2>4, <2>5, <2>7, <2>8 DEF SessionInv
<1>4. ASSUME NEW r \in Reqs, NEW ack \in BOOLEAN, StopSessionWrite(r, ack)
      PROVE  SessionInv'
  <2> USE <1>4 DEF StopSessionWrite, cloudVars, localVars
  <2>1. /\ sid[r] \in Sessions
        /\ \A t \in Sessions : t # sid[r] => status'[t] = status[t]
        /\ status'[sid[r]] = "stopped"
    BY DEF Stoppable, Visible, TypeOK, RowsOK
  <2>2. RowInv' /\ BindInv' /\ ProvInv'
    BY <2>1 DEF SessionInv, RowInv, BindInv, ProvInv
  <2>3. TagInv'
    BY <2>1 DEF SessionInv, TagInv, TypeOK, CloudOK
  <2>4. \A q \in StartReqs : pc'[q] \in Creating => pc'[q] = pc[q]
    BY DEF TypeOK, ControlOK, StopSessionReturns, Respond, Reqs, Creating
  <2>5. CreatorInv'
    BY <2>1, <2>4 DEF SessionInv, CreatorInv, Creating, TypeOK, LocalsOK, Reqs
  <2>6. OneLiveSessionPerUser' /\ AtMostOneLaunchPerSession'
    BY <2>1 DEF SessionInv, OneLiveSessionPerUser, AtMostOneLaunchPerSession, LiveStatus
  <2> QED BY <2>2, <2>3, <2>5, <2>6 DEF SessionInv
<1> QED BY <1>1, <1>2, <1>3, <1>4 DEF Loud

\* The inductive invariant holds of every behaviour.
THEOREM SessionInvariant == Spec => []SessionInv
<1>1. Init => SessionInv
  <2> SUFFICES ASSUME Init PROVE SessionInv
    OBVIOUS
  <2>1. RowInv /\ BindInv /\ TagInv /\ ProvInv
    BY DEF Init, RowInv, BindInv, TagInv, ProvInv
  <2>2. CreatorInv
    BY DEF Init, CreatorInv, Creating, Reqs
  <2>3. OneLiveSessionPerUser /\ AtMostOneLaunchPerSession
    BY DEF Init, OneLiveSessionPerUser, AtMostOneLaunchPerSession, LiveStatus
  <2> QED BY <2>1, <2>2, <2>3 DEF SessionInv
<1>2. TypeOK /\ SessionInv /\ [Next]_vars => SessionInv'
  BY QuietOrLoud, QuietPreserves, LoudPreserves
<1> QED BY <1>1, <1>2, TypeCorrect, PTL DEF Spec

\* Concurrent starts, replays, stops, lost commits and crashes never leave a
\* user with two live sessions.
THEOREM OneLiveSession == Spec => []OneLiveSessionPerUser
<1>1. SessionInv => OneLiveSessionPerUser
  BY DEF SessionInv
<1> QED BY <1>1, SessionInvariant, PTL

\* Retries and replays of start never launch a second instance for a session.
THEOREM OneLaunch == Spec => []AtMostOneLaunchPerSession
<1>1. SessionInv => AtMostOneLaunchPerSession
  BY DEF SessionInv
<1> QED BY <1>1, SessionInvariant, PTL

\* Two sessions are never bound to the same instance.
LEMMA BoundOnce ==
  ASSUME TypeOK, SessionInv, NEW s \in Sessions, NEW i \in Instances,
         tag[i] = s, relayAws[s] = NoInstance
  PROVE  \A t \in Sessions : relayAws[t] # i
BY NullsAssumption DEF SessionInv, BindInv

\* Every step of the control plane is a step of the session lifecycle or leaves
\* the sessions table as the lifecycle sees it unchanged.
LEMMA StepRefines ==
  ASSUME TypeOK, SessionInv, [Next]_vars
  PROVE  [Lifecycle!Next]_(Lifecycle!vars)
<1> USE DEF Lifecycle!Next, Lifecycle!vars
<1>1. CASE Quiet
  BY <1>1 DEF Quiet
<1>2. ASSUME NEW r \in StartReqs, NEW s \in Sessions, NEW ack \in BOOLEAN, StartInsert(r, s, ack)
      PROVE  Lifecycle!Next
  <2>1. user[r] \in Users
    BY <1>2, ProgramPoints DEF StartInsert, At, TypeOK, InputsOK, Reqs
  <2>2. Lifecycle!Open(user[r], s)
    BY <1>2
    DEF StartInsert, UniqueLiveHolds, LiveOf, LiveStatus,
        Lifecycle!Open, Lifecycle!HasLive, Lifecycle!LiveStatus
  <2> QED BY <2>1, <2>2
<1>3. ASSUME NEW r \in StartReqs, NEW i \in Instances, RunInstances(r, i)
      PROVE  UNCHANGED <<status, owner, relayAws>>
  BY <1>3 DEF RunInstances, dbVars
<1>4. ASSUME NEW r \in StartReqs, NEW ack \in BOOLEAN, ActivateProvisionedSession(r, ack)
      PROVE  Lifecycle!Next
  <2>1. sid[r] \in Sessions /\ prov[r] \in Instances /\ tag[prov[r]] = sid[r]
    BY <1>4
    DEF ActivateProvisionedSession, At, SessionInv, CreatorInv, Creating, TypeOK, LocalsOK, Reqs
  <2>2. status[sid[r]] = "provisioning" /\ relayAws[sid[r]] = NoInstance
    BY <1>4, <2>1 DEF ActivateProvisionedSession, Activatable, SessionInv, RowInv
  <2>3. Lifecycle!Activate(sid[r], prov[r])
    BY <1>4, <2>1, <2>2, BoundOnce DEF ActivateProvisionedSession, Lifecycle!Activate
  <2> QED BY <2>1, <2>3
<1>5. ASSUME NEW r \in Reqs, NEW ack \in BOOLEAN, StopSessionWrite(r, ack)
      PROVE  Lifecycle!Next
  <2>1. sid[r] \in Sessions
    BY <1>5 DEF StopSessionWrite, Stoppable, Visible
  <2>2. Lifecycle!Close(sid[r])
    BY <1>5
    DEF StopSessionWrite, Stoppable, LiveStatus, Lifecycle!Close, Lifecycle!LiveStatus
  <2> QED BY <2>1, <2>2
<1> QED BY <1>1, <1>2, <1>3, <1>4, <1>5, QuietOrLoud DEF Loud

\* The handlers and transactions implement the abstract session lifecycle: a
\* session opens only for a user without a live one, is bound once to an
\* instance of its own, and closes for good.
THEOREM Implements == Spec => LifecycleSpec
<1>1. Init => Lifecycle!Init
  BY DEF Init, Lifecycle!Init
<1>2. TypeOK /\ SessionInv /\ [Next]_vars => [Lifecycle!Next]_(Lifecycle!vars)
  BY StepRefines
<1> QED BY <1>1, <1>2, TypeCorrect, SessionInvariant, PTL DEF Spec, LifecycleSpec, Lifecycle!Spec

-----------------------------------------------------------------------------
\* What an answered request claims about rows and instances stays true.

\* What no step undoes: a terminated instance and a stopped session stay so, and
\* a session row keeps its owner.
Settled ==
  /\ \A i \in Instances : cloud[i] = "terminated" => cloud'[i] = "terminated"
  /\ \A s \in Sessions : status[s] = "stopped" => status'[s] = "stopped"
  /\ \A s \in Sessions : status[s] # "absent" => status'[s] # "absent" /\ owner'[s] = owner[s]

\* Every step of the model keeps what is settled.
LEMMA StepsKeepSettled ==
  ASSUME TypeOK, [Next]_vars
  PROVE  Settled
<1> USE DEF dbVars, cloudVars, TypeOK, RowsOK, CloudOK, Settled
<1>1. CASE Submit
  BY <1>1 DEF Submit, SubmitStart, SubmitStop, RejectInvalid
<1>2. ASSUME NEW r \in StartReqs, StartStep(r)
      PROVE  Settled
  <2>1. ASSUME NEW s \in Sessions, NEW ack \in BOOLEAN, StartInsert(r, s, ack)
        PROVE  Settled
    BY <2>1 DEF StartInsert
  <2>2. ASSUME NEW i \in Instances, RunInstances(r, i)
        PROVE  Settled
    BY <2>2 DEF RunInstances
  <2>3. ASSUME NEW ack \in BOOLEAN, ActivateProvisionedSession(r, ack)
        PROVE  Settled
    BY <2>3 DEF ActivateProvisionedSession, Activatable
  <2>4. ASSUME NEW acted \in BOOLEAN, CompensateDeprovision(r) \/ CompensateDeprovisionFails(r, acted)
        PROVE  Settled
    BY <2>4 DEF CompensateDeprovision, CompensateDeprovisionFails
  <2>5. ASSUME NEW ack \in BOOLEAN, StartPersistExisting(r, ack)
        PROVE  Settled
    BY <2>5 DEF StartPersistExisting
  <2>6. ASSUME \/ StartIdemLookup(r) \/ StartFindActive(r) \/ StartInsertConflict(r)
               \/ InstanceRunning(r) \/ ProvisionFails(r) \/ ActivateNotFound(r) \/ ActivateFails(r)
        PROVE  Settled
    BY <2>6
    DEF StartIdemLookup, StartFindActive, StartInsertConflict, InstanceRunning, ProvisionFails,
        ActivateNotFound, ActivateFails
  <2> QED BY <1>2, <2>1, <2>2, <2>3, <2>4, <2>5, <2>6 DEF StartStep
<1>3. ASSUME NEW r \in StopReqs, StopStep(r)
      PROVE  Settled
  BY <1>3 DEF StopStep, StopGetSession, StopDeprovision, StopDeprovisionFails
<1>4. ASSUME NEW r \in Reqs, CommonStep(r)
      PROVE  Settled
  <2>1. ASSUME NEW ack \in BOOLEAN, StopSessionWrite(r, ack)
        PROVE  Settled
    BY <2>1 DEF StopSessionWrite, Stoppable
  <2>2. ASSUME StopSessionRead(r) \/ StopSessionNotFound(r) \/ StopSessionFails(r) \/ StoreFails(r)
        PROVE  Settled
    BY <2>2 DEF StopSessionRead, StopSessionNotFound, StopSessionFails, StoreFails
  <2> QED BY <1>4, <2>1, <2>2 DEF CommonStep
<1>5. CASE Environment
  BY <1>5 DEF Environment, CancelRequest, ApiCrash, ExpireRecord, CleanupExpiredIdempotencyRecords
<1>6. CASE UNCHANGED vars
  BY <1>6 DEF vars
<1> QED BY <1>1, <1>2, <1>3, <1>4, <1>5, <1>6 DEF Next

\* Steps of a start that works on a session of its own.
Working == Creating \cup {"comp_deprovision", "stop_read", "stop_write"}

\* Steps of a start that has launched nothing.
Unlaunched == {"idle", "idem_lookup", "find_active", "persist_existing", "insert_session",
               "run_instances"}

\* A stop request: before the read it holds no instance, past the terminate call
\* the instance it holds is gone, and a 200 has closed the session.
StopInv(r) ==
  /\ pc[r] \in {"idle", "get_session"} => prov[r] = NoInstance
  /\ pc[r] \in {"stop_read", "stop_write"} =>
       prov[r] = NoInstance \/ cloud[prov[r]] = "terminated"
  /\ resp[r].code = 200 =>
       /\ sid[r] \in Sessions
       /\ status[sid[r]] = "stopped"
       /\ prov[r] = NoInstance \/ cloud[prov[r]] = "terminated"

\* A start request: it works on a row it owns, holds no instance before the
\* launch, and fails with both halves undone unless a compensating call failed.
StartInv(r) ==
  /\ pc[r] \in Working =>
       sid[r] \in Sessions /\ status[sid[r]] # "absent" /\ owner[sid[r]] = user[r]
  /\ pc[r] \in Unlaunched => prov[r] = NoInstance
  /\ pc[r] \notin {"get_session", "deprovision"}
  /\ pc[r] \in {"stop_read", "stop_write"} /\ prov[r] # NoInstance /\ cleanupOk[r] =>
       cloud[prov[r]] = "terminated"
  /\ pc[r] = "done" /\ resp[r].code = 500 /\ prov[r] # NoInstance /\ cleanupOk[r] =>
       /\ cloud[prov[r]] = "terminated"
       /\ sid[r] \in Sessions
       /\ status[sid[r]] = "stopped"

\* A request that has answered is done; what each answer claims is true.
OutcomeInv ==
  /\ \A r \in Reqs : resp[r].code # 0 => pc[r] = "done"
  /\ \A r \in StopReqs : StopInv(r)
  /\ \A r \in StartReqs : StartInv(r)

\* A step leaves a request alone.
Untouched(r) ==
  /\ pc'[r] = pc[r] /\ resp'[r] = resp[r] /\ sid'[r] = sid[r] /\ prov'[r] = prov[r]
  /\ user'[r] = user[r] /\ cleanupOk'[r] = cleanupOk[r]

\* A request that is left alone keeps its invariant, whatever the others do.
LEMMA UntouchedKeeps ==
  ASSUME TypeOK, OutcomeInv, Settled, NEW r \in Reqs, Untouched(r)
  PROVE  /\ resp'[r].code # 0 => pc'[r] = "done"
         /\ r \in StopReqs => StopInv(r)'
         /\ r \in StartReqs => StartInv(r)'
<1>1. r \in StopReqs => StopInv(r)'
  BY DEF OutcomeInv, StopInv, Settled, Untouched, TypeOK, LocalsOK
<1>2. r \in StartReqs => StartInv(r)'
  BY DEF OutcomeInv, StartInv, Settled, Untouched, TypeOK, LocalsOK
<1>3. resp'[r].code # 0 => pc'[r] = "done"
  BY DEF OutcomeInv, Untouched
<1> QED BY <1>1, <1>2, <1>3

\* The step of one request: every other one is left alone.
Alone(r) == \A q \in Reqs : q # r => Untouched(q)

\* For the step of one request the invariant need only be shown of that request.
LEMMA StopMoves ==
  ASSUME TypeOK, OutcomeInv, Settled, NEW r \in StopReqs, Alone(r),
         resp'[r].code # 0 => pc'[r] = "done", StopInv(r)'
  PROVE  OutcomeInv'
BY UntouchedKeeps, RequestsAssumption DEF Alone, OutcomeInv, Reqs

LEMMA StartMoves ==
  ASSUME TypeOK, OutcomeInv, Settled, NEW r \in StartReqs, Alone(r),
         resp'[r].code # 0 => pc'[r] = "done", StartInv(r)'
  PROVE  OutcomeInv'
BY UntouchedKeeps, RequestsAssumption DEF Alone, OutcomeInv, Reqs

\* Every step of a start keeps the outcome invariant.
LEMMA StartStepOutcome ==
  ASSUME TypeOK, OutcomeInv, Settled, NEW r \in StartReqs, StartStep(r)
  PROVE  OutcomeInv'
<1> USE DEF TypeOK, ControlOK, LocalsOK, Reqs, localVars, inputVars, Goto, Respond, At
<1>0. r \in Reqs /\ (resp[r].code # 0 => pc[r] = "done") /\ StartInv(r)
  BY DEF OutcomeInv
<1>1. Alone(r)
  <2>1. UNCHANGED user /\ \A q \in Reqs : q # r => pc'[q] = pc[q]
    BY DEF StartStep, StartIdemLookup, StartFindActive, StartPersistExisting,
           StartInsert, StartInsertConflict, RunInstances, InstanceRunning, ProvisionFails,
           ActivateProvisionedSession, ActivateNotFound, ActivateFails, CompensateDeprovision,
           CompensateDeprovisionFails
  <2>3. \A q \in Reqs : q # r => resp'[q] = resp[q]
    <3>1. CASE \/ StartFindActive(r) \/ InstanceRunning(r) \/ ProvisionFails(r)
               \/ ActivateNotFound(r) \/ ActivateFails(r) \/ CompensateDeprovision(r)
               \/ \E i \in Instances : RunInstances(r, i)
               \/ \E acted \in BOOLEAN : CompensateDeprovisionFails(r, acted)
      BY <3>1
      DEF StartFindActive, InstanceRunning, ProvisionFails, ActivateNotFound, ActivateFails,
          CompensateDeprovision, RunInstances, CompensateDeprovisionFails
    <3>2. CASE StartIdemLookup(r) \/ StartInsertConflict(r)
      BY <3>2 DEF StartIdemLookup, StartInsertConflict
    <3>3. ASSUME NEW ack \in BOOLEAN,
                 StartPersistExisting(r, ack) \/ ActivateProvisionedSession(r, ack)
          PROVE  \A q \in Reqs : q # r => resp'[q] = resp[q]
      BY <3>3 DEF StartPersistExisting, ActivateProvisionedSession
    <3>4. ASSUME NEW ack \in BOOLEAN, NEW s \in Sessions, StartInsert(r, s, ack)
          PROVE  \A q \in Reqs : q # r => resp'[q] = resp[q]
      BY <3>4 DEF StartInsert
    <3> QED BY <3>1, <3>2, <3>3, <3>4 DEF StartStep
  <2>2. \A q \in Reqs : q # r => sid'[q] = sid[q] /\ prov'[q] = prov[q] /\ cleanupOk'[q] = cleanupOk[q]
    BY DEF StartStep, StartIdemLookup, StartFindActive, StartPersistExisting,
           StartInsert, StartInsertConflict, RunInstances, InstanceRunning, ProvisionFails,
           ActivateProvisionedSession, ActivateNotFound, ActivateFails, CompensateDeprovision,
           CompensateDeprovisionFails
  <2> QED BY <2>1, <2>2, <2>3 DEF Alone, Untouched
<1>2. resp'[r].code # 0 => pc'[r] = "done"
  BY <1>0
  DEF StartStep, StartIdemLookup, StartFindActive, StartPersistExisting,
      StartInsert, StartInsertConflict, RunInstances, InstanceRunning, ProvisionFails,
      ActivateProvisionedSession, ActivateNotFound, ActivateFails, CompensateDeprovision,
      CompensateDeprovisionFails
<1>3. ASSUME \/ StartIdemLookup(r) \/ StartFindActive(r) \/ StartInsertConflict(r)
             \/ \E ack \in BOOLEAN : StartPersistExisting(r, ack)
      PROVE  StartInv(r)'
  BY <1>0, <1>3
  DEF StartIdemLookup, StartFindActive, StartInsertConflict, StartPersistExisting,
      StartInv, Working, Creating, Unlaunched
<1>4. ASSUME NEW s \in Sessions, NEW ack \in BOOLEAN, StartInsert(r, s, ack)
      PROVE  StartInv(r)'
  BY <1>0, <1>4 DEF StartInsert, RowsOK, StartInv, Working, Creating, Unlaunched
<1>5. ASSUME \/ \E i \in Instances : RunInstances(r, i)
             \/ InstanceRunning(r) \/ ProvisionFails(r) \/ ActivateNotFound(r) \/ ActivateFails(r)
      PROVE  StartInv(r)'
  BY <1>0, <1>5
  DEF RunInstances, InstanceRunning, ProvisionFails, ActivateNotFound, ActivateFails, dbVars,
      StartInv, Working, Creating, Unlaunched
<1>6. ASSUME NEW ack \in BOOLEAN, ActivateProvisionedSession(r, ack)
      PROVE  StartInv(r)'
  BY <1>0, <1>6
  DEF ActivateProvisionedSession, RowsOK, StartInv, Working, Creating, Unlaunched
<1>7. ASSUME CompensateDeprovision(r)
      PROVE  StartInv(r)'
  BY <1>0, <1>7
  DEF CompensateDeprovision, CloudOK, dbVars, StartInv, Working, Creating, Unlaunched
<1>8. ASSUME NEW acted \in BOOLEAN, CompensateDeprovisionFails(r, acted)
      PROVE  StartInv(r)'
  BY <1>0, <1>8
  DEF CompensateDeprovisionFails, dbVars, StartInv, Working, Creating, Unlaunched
<1>9. StartInv(r)'
  BY <1>3, <1>4, <1>5, <1>6, <1>7, <1>8 DEF StartStep
<1> QED BY <1>1, <1>2, <1>9, StartMoves

\* Every step of a stop up to StopSession keeps it.
LEMMA StopStepOutcome ==
  ASSUME TypeOK, OutcomeInv, Settled, NEW r \in StopReqs, StopStep(r)
  PROVE  OutcomeInv'
<1> USE DEF TypeOK, ControlOK, LocalsOK, CloudOK, Reqs, localVars, inputVars, dbVars, cloudVars,
            Goto, Respond, At
<1>0. r \in Reqs /\ (resp[r].code # 0 => pc[r] = "done") /\ StopInv(r)
  BY DEF OutcomeInv
<1>1. Alone(r)
  BY DEF StopStep, Alone, Untouched, StopGetSession, StopDeprovision, StopDeprovisionFails
<1>2. resp'[r].code # 0 => pc'[r] = "done"
  BY <1>0 DEF StopStep, StopGetSession, StopDeprovision, StopDeprovisionFails
<1>3. ASSUME StopGetSession(r)
      PROVE  StopInv(r)'
  BY <1>0, <1>3 DEF StopGetSession, StopInv
<1>4. ASSUME StopDeprovision(r)
      PROVE  StopInv(r)'
  BY <1>0, <1>4 DEF StopDeprovision, StopInv
<1>5. ASSUME NEW acted \in BOOLEAN, StopDeprovisionFails(r, acted)
      PROVE  StopInv(r)'
  BY <1>0, <1>5 DEF StopDeprovisionFails, StopInv
<1>6. StopInv(r)'
  BY <1>3, <1>4, <1>5 DEF StopStep
<1> QED BY <1>1, <1>2, <1>6, StopMoves

\* So does StopSession, called by a stop or by a start that compensates, and
\* every failing transaction.
LEMMA CommonStepOutcome ==
  ASSUME TypeOK, OutcomeInv, Settled, NEW r \in Reqs, CommonStep(r)
  PROVE  OutcomeInv'
<1> USE DEF TypeOK, ControlOK, LocalsOK, RowsOK, Reqs, localVars, inputVars, dbVars, cloudVars,
            Goto, Respond, At, StopSessionReturns
<1>0. resp[r].code # 0 => pc[r] = "done"
  BY DEF OutcomeInv
<1>1. Alone(r)
  BY DEF CommonStep, Alone, Untouched, StopSessionRead, StopSessionWrite, StopSessionNotFound,
         StopSessionFails, StoreFails
<1>2. resp'[r].code # 0 => pc'[r] = "done"
  BY <1>0
  DEF CommonStep, StopSessionRead, StopSessionWrite, StopSessionNotFound, StopSessionFails, StoreFails
<1>3. ASSUME r \in StopReqs
      PROVE  StopInv(r)'
  <2>0. StopInv(r) /\ r \notin StartReqs
    BY <1>3, RequestsAssumption DEF OutcomeInv
  <2>1. CASE StopSessionRead(r)
    BY <1>0, <2>0, <2>1 DEF StopSessionRead, StopInv, Visible
  <2>2. ASSUME NEW ack \in BOOLEAN, StopSessionWrite(r, ack)
        PROVE  StopInv(r)'
    BY <1>0, <2>0, <2>2 DEF StopSessionWrite, StopInv, Stoppable, Visible
  <2>3. CASE StopSessionNotFound(r) \/ StopSessionFails(r) \/ StoreFails(r)
    BY <1>0, <2>0, <2>3 DEF StopSessionNotFound, StopSessionFails, StoreFails, StopInv
  <2> QED BY <2>1, <2>2, <2>3 DEF CommonStep
<1>4. ASSUME r \in StartReqs
      PROVE  StartInv(r)'
  <2>0. StartInv(r)
    BY <1>4 DEF OutcomeInv
  <2>1. CASE StopSessionRead(r)
    <3>1. Visible(r) /\ UNCHANGED <<status, owner, cloud, sid, prov, user, cleanupOk>>
      BY <2>0, <2>1 DEF StopSessionRead, StartInv, Working, Visible
    <3> QED BY <1>4, <2>0, <2>1, <3>1 DEF StopSessionRead, StartInv, Working, Creating, Unlaunched
  <2>2. ASSUME NEW ack \in BOOLEAN, StopSessionWrite(r, ack)
        PROVE  StartInv(r)'
    <3>1. /\ sid[r] \in Sessions /\ status'[sid[r]] = "stopped" /\ pc'[r] = "done"
          /\ UNCHANGED <<owner, cloud, sid, prov, user, cleanupOk>>
      BY <1>4, <2>2 DEF StopSessionWrite, Stoppable, Visible
    <3> QED BY <2>0, <2>2, <3>1 DEF StopSessionWrite, StartInv, Working, Creating, Unlaunched
  <2>3. CASE StopSessionNotFound(r)
    <3>1. Visible(r) /\ status[sid[r]] = "stopped"
      BY <2>0, <2>3 DEF StopSessionNotFound, StartInv, Working, Stoppable, Visible, Status, LiveStatus
    <3> QED BY <1>4, <2>0, <2>3, <3>1
            DEF StopSessionNotFound, StartInv, Working, Creating, Unlaunched, Visible
  <2>4. CASE StopSessionFails(r)
    BY <1>4, <2>0, <2>4 DEF StopSessionFails, StartInv, Working, Creating, Unlaunched
  <2>5. CASE StoreFails(r)
    BY <2>0, <2>5 DEF StoreFails, StartInv, Working, Creating, Unlaunched
  <2> QED BY <2>1, <2>2, <2>3, <2>4, <2>5 DEF CommonStep
<1> QED BY <1>1, <1>2, <1>3, <1>4, StopMoves, StartMoves

\* And every arrival, cancellation, crash and job.
LEMMA OtherStepOutcome ==
  ASSUME TypeOK, OutcomeInv, Settled, Submit \/ Environment \/ UNCHANGED vars
  PROVE  OutcomeInv'
<1> USE DEF TypeOK, ControlOK, LocalsOK, Reqs, localVars, inputVars, dbVars, cloudVars,
            Goto, Respond, At
<1>1. ASSUME NEW r \in StartReqs, NEW u \in Users, NEW k \in Keys, NEW h \in Hashes,
             SubmitStart(r, u, k, h)
      PROVE  OutcomeInv'
  <2>1. r \in Reqs /\ (resp[r].code # 0 => pc[r] = "done") /\ StartInv(r)
    BY DEF OutcomeInv
  <2>2. Alone(r) /\ (resp'[r].code # 0 => pc'[r] = "done")
    BY <1>1, <2>1 DEF SubmitStart, Alone, Untouched
  <2>3. StartInv(r)'
    BY <1>1, <2>1 DEF SubmitStart, StartInv, Working, Creating, Unlaunched
  <2> QED BY <2>2, <2>3, StartMoves
<1>2. ASSUME NEW r \in StopReqs, NEW u \in Users, NEW s \in Sessions, SubmitStop(r, u, s)
      PROVE  OutcomeInv'
  <2>1. r \in Reqs /\ (resp[r].code # 0 => pc[r] = "done") /\ StopInv(r)
    BY DEF OutcomeInv
  <2>2. Alone(r) /\ (resp'[r].code # 0 => pc'[r] = "done")
    BY <1>2, <2>1 DEF SubmitStop, Alone, Untouched
  <2>3. StopInv(r)'
    BY <1>2, <2>1 DEF SubmitStop, StopInv
  <2> QED BY <2>2, <2>3, StopMoves
<1>3. ASSUME NEW r \in Reqs, RejectInvalid(r)
      PROVE  OutcomeInv'
  <2>1. Alone(r) /\ (resp'[r].code # 0 => pc'[r] = "done")
    BY <1>3 DEF RejectInvalid, Alone, Untouched
  <2>2. r \in StopReqs => StopInv(r)'
    BY <1>3 DEF RejectInvalid, OutcomeInv, StopInv
  <2>3. r \in StartReqs => StartInv(r)'
    BY <1>3 DEF RejectInvalid, OutcomeInv, StartInv, Working, Creating, Unlaunched
  <2> QED BY <2>1, <2>2, <2>3, StopMoves, StartMoves
<1>4. CASE ApiCrash
  <2>1. /\ UNCHANGED <<cloud, status, owner, user, sid, prov, resp, cleanupOk>>
        /\ \A r \in Reqs : pc'[r] = pc[r] \/ (pc[r] \in InFlight /\ pc'[r] = "dead")
    BY <1>4 DEF ApiCrash
  <2>2. \A r \in Reqs : resp'[r].code # 0 => pc'[r] = "done"
    BY <2>1, ProgramPoints DEF OutcomeInv
  <2>3. \A r \in StopReqs : StopInv(r)'
    BY <2>1 DEF OutcomeInv, StopInv
  <2>4. \A r \in StartReqs : StartInv(r)'
    BY <2>1 DEF OutcomeInv, StartInv, Working, Creating, Unlaunched
  <2> QED BY <2>2, <2>3, <2>4 DEF OutcomeInv
<1>5. ASSUME \/ \E r \in Reqs : CancelRequest(r)
             \/ \E uk \in Users \X Keys : ExpireRecord(uk)
             \/ CleanupExpiredIdempotencyRecords
             \/ UNCHANGED vars
      PROVE  OutcomeInv'
  <2>1. \A r \in Reqs : Untouched(r)
    BY <1>5 DEF Untouched, CancelRequest, ExpireRecord, CleanupExpiredIdempotencyRecords, vars
  <2> QED BY <2>1, UntouchedKeeps DEF OutcomeInv
<1> QED BY <1>1, <1>2, <1>3, <1>4, <1>5 DEF Submit, Environment

\* What a request has answered about rows and instances holds and keeps holding.
THEOREM OutcomeInvariant == Spec => []OutcomeInv
<1>1. Init => OutcomeInv
  BY DEF Init, NoResp, OutcomeInv, StopInv, StartInv, Working, Creating, Unlaunched, Reqs
<1>2. TypeOK /\ OutcomeInv /\ [Next]_vars => OutcomeInv'
  BY StepsKeepSettled, StartStepOutcome, StopStepOutcome, CommonStepOutcome, OtherStepOutcome
  DEF Next
<1> QED BY <1>1, <1>2, TypeCorrect, PTL DEF Spec

\* A stop answered 200 has closed the session and the instance its first read saw
\* is gone, whatever other starts, stops, failures and crashes do meanwhile.
THEOREM StopAnswers == Spec => []StopAnswerIsTrue
<1>1. OutcomeInv => StopAnswerIsTrue
  BY DEF OutcomeInv, StopInv, StopAnswerIsTrue
<1> QED BY <1>1, OutcomeInvariant, PTL

\* A start that fails after its launch leaves neither instance nor live session
\* behind unless one of its own compensating calls failed.
THEOREM FailedStartsCompensate == Spec => []FailedStartCompensates
<1>1. OutcomeInv => FailedStartCompensates
  BY DEF OutcomeInv, StartInv, FailedStartCompensates
<1> QED BY <1>1, OutcomeInvariant, PTL

-----------------------------------------------------------------------------
\* Without failures no running instance is lost.

\* Nothing has failed: no context is cancelled and running instances are tracked.
TrackInv == (faults = 0 => \A r \in Reqs : ctx[r] = "live") /\ RunningInstanceTracked

\* The failure count never goes down; while it is 0 no call has failed, so none
\* of the steps of a failing call, no cancellation and no crash has happened.
LEMMA NothingFailed ==
  ASSUME TypeOK, TrackInv, [Next]_vars, faults' = 0
  PROVE  /\ faults = 0
         /\ UNCHANGED ctx
         /\ \A r \in Reqs : ctx[r] = "live" /\ ~CallFails(r)
         /\ ~ApiCrash
<1>1. faults \in Nat
  BY MaxFaultsAssumption DEF TypeOK
<1>2. faults = 0
  <2>1. CASE Submit
    BY <2>1 DEF Submit, SubmitStart, SubmitStop, RejectInvalid
  <2>2. ASSUME NEW r \in StartReqs, StartStep(r)
        PROVE  faults = 0
    <3>1. CallOk(r) \/ CallFails(r) \/ \E ack \in BOOLEAN : Commit(r, ack)
      BY <2>2
      DEF StartStep, StartIdemLookup, StartFindActive, StartPersistExisting, StartInsert,
          StartInsertConflict, RunInstances, InstanceRunning, ProvisionFails,
          ActivateProvisionedSession, ActivateNotFound, ActivateFails, CompensateDeprovision,
          CompensateDeprovisionFails
    <3> QED BY <1>1, <3>1 DEF CallOk, CallFails, Commit
  <2>3. ASSUME NEW r \in StopReqs, StopStep(r)
        PROVE  faults = 0
    BY <1>1, <2>3
    DEF StopStep, StopGetSession, StopDeprovision, StopDeprovisionFails, CallOk, CallFails
  <2>4. ASSUME NEW r \in Reqs, CommonStep(r)
        PROVE  faults = 0
    BY <1>1, <2>4
    DEF CommonStep, StopSessionRead, StopSessionWrite, StopSessionNotFound, StopSessionFails,
        StoreFails, CallOk, CallFails, Commit
  <2>5. CASE Environment
    BY <1>1, <2>5
    DEF Environment, CancelRequest, ApiCrash, ExpireRecord, CleanupExpiredIdempotencyRecords
  <2>6. CASE UNCHANGED vars
    BY <2>6 DEF vars
  <2> QED BY <2>1, <2>2, <2>3, <2>4, <2>5, <2>6 DEF Next
<1>3. \A r \in Reqs : ctx[r] = "live"
  BY <1>2 DEF TrackInv
<1>4. (\A r \in Reqs : ~CallFails(r)) /\ ~ApiCrash /\ \A r \in Reqs : ~CancelRequest(r)
  BY <1>2, <1>3 DEF CallFails, ApiCrash, CancelRequest
<1>5. UNCHANGED ctx
  <2>1. CASE Submit
    BY <2>1 DEF Submit, SubmitStart, SubmitStop, RejectInvalid
  <2>2. ASSUME NEW r \in StartReqs, StartStep(r)
        PROVE  UNCHANGED ctx
    BY <2>2
    DEF StartStep, StartIdemLookup, StartFindActive, StartPersistExisting, StartInsert,
        StartInsertConflict, RunInstances, InstanceRunning, ProvisionFails,
        ActivateProvisionedSession, ActivateNotFound, ActivateFails, CompensateDeprovision,
        CompensateDeprovisionFails
  <2>3. ASSUME NEW r \in StopReqs, StopStep(r)
        PROVE  UNCHANGED ctx
    BY <2>3 DEF StopStep, StopGetSession, StopDeprovision, StopDeprovisionFails
  <2>4. ASSUME NEW r \in Reqs, CommonStep(r)
        PROVE  UNCHANGED ctx
    BY <2>4
    DEF CommonStep, StopSessionRead, StopSessionWrite, StopSessionNotFound, StopSessionFails,
        StoreFails
  <2>5. CASE Environment
    BY <1>4, <2>5 DEF Environment, ExpireRecord, CleanupExpiredIdempotencyRecords
  <2>6. CASE UNCHANGED vars
    BY <2>6 DEF vars
  <2> QED BY <2>1, <2>2, <2>3, <2>4, <2>5, <2>6 DEF Next
<1> QED BY <1>2, <1>3, <1>4, <1>5

\* A step that launches nothing, binds nothing and lets go of no instance that
\* it leaves running.
Holding ==
  /\ UNCHANGED <<relayAws, tag>>
  /\ \A i \in Instances : cloud'[i] = "running" => cloud[i] = "running"
  /\ \A q \in StartReqs, i \in Instances :
       HoldsInstance(q, i) => HoldsInstance(q, i)' \/ cloud'[i] = "terminated"

\* Such a step loses track of nothing.
LEMMA HoldingTracks ==
  ASSUME TypeOK, RunningInstanceTracked, faults = 0, Holding
  PROVE  RunningInstanceTracked'
BY DEF RunningInstanceTracked, Holding

\* While nothing fails every step loses track of nothing.
LEMMA StepTracks ==
  ASSUME TypeOK, SessionInv, TrackInv, [Next]_vars
  PROVE  TrackInv'
<1> SUFFICES ASSUME faults' = 0
             PROVE  (\A r \in Reqs : ctx'[r] = "live") /\ RunningInstanceTracked'
  BY DEF TrackInv, RunningInstanceTracked
<1>0. /\ faults = 0 /\ UNCHANGED ctx /\ ~ApiCrash
      /\ \A r \in Reqs : ctx[r] = "live" /\ ~CallFails(r)
  BY NothingFailed
<1>1. RunningInstanceTracked
  BY DEF TrackInv
<1> USE DEF dbVars, cloudVars, localVars, inputVars, TypeOK, CloudOK, ControlOK, LocalsOK, Reqs,
            Goto, Respond, At
<1>2. ASSUME NEW r \in StartReqs, NEW i \in Instances, RunInstances(r, i)
      PROVE  RunningInstanceTracked'
  <2>1. HoldsInstance(r, i)'
    BY <1>2 DEF RunInstances, HoldsInstance
  <2>2. \A j \in Instances : j # i => cloud'[j] = cloud[j] /\ tag'[j] = tag[j]
    BY <1>2 DEF RunInstances
  <2>3. UNCHANGED relayAws
    BY <1>2 DEF RunInstances
  <2>4. \A q \in StartReqs, j \in Instances : HoldsInstance(q, j) => HoldsInstance(q, j)'
    BY <1>2 DEF RunInstances, HoldsInstance
  <2> QED BY <1>0, <1>1, <2>1, <2>2, <2>3, <2>4 DEF RunningInstanceTracked
<1>3. ASSUME NEW r \in StartReqs, NEW ack \in BOOLEAN, ActivateProvisionedSession(r, ack)
      PROVE  RunningInstanceTracked'
  <2>1. ack
    BY <1>0, <1>3 DEF ActivateProvisionedSession, Commit
  <2>2. /\ sid[r] \in Sessions /\ prov[r] \in Instances /\ tag[prov[r]] = sid[r]
        /\ relayAws[sid[r]] = NoInstance
    BY <1>3
    DEF ActivateProvisionedSession, Activatable, SessionInv, CreatorInv, Creating, RowInv
  <2>3. /\ relayAws'[sid[r]] = prov[r]
        /\ \A s \in Sessions : s # sid[r] => relayAws'[s] = relayAws[s]
        /\ UNCHANGED <<cloud, tag>>
    BY <1>3, <2>2 DEF ActivateProvisionedSession, RowsOK
  <2>4. \A q \in StartReqs, j \in Instances :
          q # r /\ HoldsInstance(q, j) => HoldsInstance(q, j)'
    BY <1>3, <2>1 DEF ActivateProvisionedSession, HoldsInstance
  <2>5. ASSUME NEW i \in Instances, cloud'[i] = "running"
        PROVE  (\E q \in StartReqs : HoldsInstance(q, i)') \/ (tag'[i] \in Sessions /\ relayAws'[tag'[i]] = i)
    <3>1. CASE i = prov[r]
      BY <2>2, <2>3, <3>1
    <3>2. CASE i # prov[r]
      <4>1. \A q \in StartReqs : HoldsInstance(q, i) => q # r
        BY <3>2 DEF HoldsInstance
      <4>2. (\E q \in StartReqs : HoldsInstance(q, i)) \/ (tag[i] \in Sessions /\ relayAws[tag[i]] = i)
        BY <1>0, <1>1, <2>3, <2>5 DEF RunningInstanceTracked
      <4> QED BY <2>2, <2>3, <2>4, <4>1, <4>2, NullsAssumption
    <3> QED BY <3>1, <3>2
  <2> QED BY <2>5 DEF RunningInstanceTracked
<1>4. CASE Submit
  <2>1. Holding
    BY <1>4 DEF Submit, SubmitStart, SubmitStop, RejectInvalid, Holding, HoldsInstance
  <2> QED BY <1>0, <1>1, <2>1, HoldingTracks
<1>5. ASSUME NEW r \in StartReqs,
             StartIdemLookup(r) \/ StartFindActive(r) \/ StartInsertConflict(r)
      PROVE  Holding
  BY <1>5 DEF StartIdemLookup, StartFindActive, StartInsertConflict, Holding, HoldsInstance
<1>6. ASSUME NEW r \in StartReqs, NEW ack \in BOOLEAN, StartPersistExisting(r, ack)
      PROVE  Holding
  BY <1>6 DEF StartPersistExisting, Holding, HoldsInstance
<1>7. ASSUME NEW r \in StartReqs, NEW s \in Sessions, NEW ack \in BOOLEAN, StartInsert(r, s, ack)
      PROVE  Holding
  BY <1>7 DEF StartInsert, Holding, HoldsInstance
<1>8. ASSUME NEW r \in StartReqs, InstanceRunning(r) \/ ActivateNotFound(r)
      PROVE  Holding
  BY <1>8 DEF InstanceRunning, ActivateNotFound, Holding, HoldsInstance
<1>9. ASSUME NEW r \in StartReqs, CompensateDeprovision(r)
      PROVE  Holding
  BY <1>9 DEF CompensateDeprovision, Holding, HoldsInstance
<1>10. ASSUME NEW r \in StopReqs, StopGetSession(r) \/ StopDeprovision(r)
       PROVE  Holding
  BY <1>10, RequestsAssumption DEF StopGetSession, StopDeprovision, Holding, HoldsInstance
<1>11. ASSUME NEW r \in Reqs, StopSessionRead(r) \/ StopSessionNotFound(r)
       PROVE  Holding
  BY <1>11 DEF StopSessionRead, StopSessionNotFound, StopSessionReturns, Holding, HoldsInstance
<1>12. ASSUME NEW r \in Reqs, NEW ack \in BOOLEAN, StopSessionWrite(r, ack)
       PROVE  Holding
  BY <1>12 DEF StopSessionWrite, StopSessionReturns, Holding, HoldsInstance
<1>13. ASSUME \/ \E r \in Reqs : CancelRequest(r)
              \/ \E uk \in Users \X Keys : ExpireRecord(uk)
              \/ CleanupExpiredIdempotencyRecords \/ UNCHANGED vars
       PROVE  Holding
  BY <1>13
  DEF CancelRequest, ExpireRecord, CleanupExpiredIdempotencyRecords, vars, Holding, HoldsInstance
<1>14. \A r \in Reqs : /\ ~ProvisionFails(r) /\ ~ActivateFails(r) /\ ~StopSessionFails(r)
                       /\ ~StoreFails(r)
                       /\ \A acted \in BOOLEAN : /\ ~CompensateDeprovisionFails(r, acted)
                                                 /\ ~StopDeprovisionFails(r, acted)
  BY <1>0
  DEF ProvisionFails, ActivateFails, StopSessionFails, StoreFails, CompensateDeprovisionFails,
      StopDeprovisionFails
<1>15. RunningInstanceTracked' \/ Holding
  BY <1>0, <1>2, <1>3, <1>4, <1>5, <1>6, <1>7, <1>8, <1>9, <1>10, <1>11, <1>12, <1>13, <1>14
  DEF Next, StartStep, StopStep, CommonStep, Environment
<1> QED BY <1>0, <1>1, <1>15, HoldingTracks

\* While nothing has failed a running instance is held by the start that launched
\* it or named by its session's relay row: none is lost.
THEOREM InstancesTracked == Spec => []RunningInstanceTracked
<1>1. Init => TrackInv
  BY DEF Init, TrackInv, RunningInstanceTracked
<1>2. TypeOK /\ SessionInv /\ TrackInv /\ [Next]_vars => TrackInv'
  BY StepTracks
<1>3. TrackInv => RunningInstanceTracked
  BY DEF TrackInv
<1> QED BY <1>1, <1>2, <1>3, TypeCorrect, SessionInvariant, PTL DEF Spec
=============================================================================
