-------------------------- MODULE UsageJobsProofs --------------------------
(* Theorems about UsageJobs, for all sessions, clocks, reports and failures. *)
EXTENDS UsageJobs, TLAPS

-----------------------------------------------------------------------------
\* greatest() of two naturals.
LEMMA GreatestNat ==
  ASSUME NEW a \in Nat, NEW b \in Int
  PROVE  Greatest(a, b) \in Nat /\ Greatest(a, b) >= a /\ Greatest(a, b) >= b /\ Greatest(a, b) \in {a, b}
BY DEF Greatest

\* An element of a sequence is in the set the sequence is over.
LEMMA ElementType ==
  ASSUME NEW S, NEW q \in Seq(S), NEW i \in DOMAIN q
  PROVE  q[i] \in S
OBVIOUS

\* A job takes its meters from a report of the session, or from none.
LEMMA LatestIsReported ==
  ASSUME TypeOK, NEW s \in Sessions
  PROVE  /\ LatestUptime(s) \in Nat
         /\ LatestUptime(s) = 0 \/ \E i \in DOMAIN events[s] : LatestUptime(s) = events[s][i].uptime
<1>1. CASE LatestEvents(s) = {}
  BY <1>1 DEF LatestUptime
<1>2. CASE LatestEvents(s) # {}
  <2> DEFINE i == CHOOSE k \in LatestEvents(s) : TRUE
  <2>1. i \in LatestEvents(s)
    BY <1>2
  <2>2. i \in DOMAIN events[s]
    BY <2>1 DEF LatestEvents
  <2>3. LatestUptime(s) = events[s][i].uptime
    BY <1>2 DEF LatestUptime
  <2>4. events[s] \in Seq([at: Nat, uptime: Nat])
    BY DEF TypeOK
  <2>5. events[s][i] \in [at: Nat, uptime: Nat]
    BY <2>2, <2>4, ElementType, Zenon
  <2> QED BY <2>2, <2>3, <2>5
<1> QED BY <1>1, <1>2

-----------------------------------------------------------------------------
LEMMA SessionStepTypes ==
  ASSUME TypeOK, SessionStep
  PROVE  TypeOK'
<1> DEFINE LifeOK ==
      /\ status \in [Sessions -> {"absent", "provisioning", "active", "grace", "stopped"}]
      /\ owner \in [Sessions -> Users \cup {NoUser}]
      /\ bound \in [Sessions -> Instances \cup {NoInstance}]
<1>1. LifeOK'
  <2> USE DEF TypeOK
  <2>1. ASSUME NEW s \in Sessions, NEW u \in Users, Lifecycle!Open(u, s)
        PROVE  LifeOK'
    BY <2>1 DEF Lifecycle!Open
  <2>2. ASSUME NEW s \in Sessions, NEW i \in Instances, Lifecycle!Activate(s, i)
        PROVE  LifeOK'
    BY <2>2 DEF Lifecycle!Activate
  <2>3. ASSUME NEW s \in Sessions, Lifecycle!Close(s)
        PROVE  LifeOK'
    BY <2>3 DEF Lifecycle!Close
  <2> QED BY <2>1, <2>2, <2>3 DEF SessionStep, Lifecycle!Next
<1>2. now \in Nat
  BY MeterBoundsAssumption DEF TypeOK
<1>3. began' \in [Sessions -> Nat]
  <2>1. PICK skew \in 0..Skew :
          began' = [s \in Sessions |-> IF status[s] = "absent" /\ status'[s] # "absent" THEN now + skew ELSE began[s]]
    BY DEF SessionStep
  <2>2. now + skew \in Nat
    BY <1>2, MeterBoundsAssumption
  <2> QED BY <2>1, <2>2 DEF TypeOK
<1>4. closed' \in [Sessions -> Nat]
  BY <1>2 DEF TypeOK, SessionStep
<1> QED BY <1>1, <1>3, <1>4 DEF TypeOK, SessionStep, meterVars, jobVars

\* The meters stay natural numbers: greatest() absorbs the skew of the clocks.
LEMMA MeterTypes ==
  ASSUME TypeOK, [Next]_vars
  PROVE  duration' \in [Sessions -> Nat] /\ reconciled' \in [Sessions -> Nat]
<1>1. CASE RollupLiveSessionDurations
  <2>1. \A s \in Sessions : now - began[s] \in Int
    BY MeterBoundsAssumption DEF TypeOK
  <2> QED BY <1>1, <2>1, GreatestNat DEF TypeOK, RollupLiveSessionDurations
<1>2. CASE ReconcileOutageFromHealth
  <2>1. \A s \in Sessions : LatestUptime(s) \in Nat
    BY LatestIsReported
  <2>2. ASSUME NEW s \in Sessions
        PROVE  /\ Greatest(duration[s], LatestUptime(s)) \in Nat
               /\ Greatest(reconciled[s], LatestUptime(s)) \in Nat
    <3>1. duration[s] \in Nat /\ reconciled[s] \in Nat /\ LatestUptime(s) \in Int
      BY <2>1 DEF TypeOK
    <3> QED BY <3>1, GreatestNat
  <2> QED BY <1>2, <2>2 DEF TypeOK, ReconcileOutageFromHealth
<1>3. CASE UNCHANGED meterVars
  BY <1>3 DEF TypeOK, meterVars
<1> QED BY <1>1, <1>2, <1>3
  DEF Next, vars, JobStep, Tick, SessionStep, RecordRelayHealth, RunJob, JobFails, UpsertSelect, UpsertWrite

LEMMA TypeStep ==
  ASSUME TypeOK, [Next]_vars
  PROVE  TypeOK'
<1> USE DEF TypeOK, lifeVars, meterVars, jobVars
<1>1. CASE Tick
  BY <1>1, MeterBoundsAssumption DEF Tick
<1>2. CASE SessionStep
  BY <1>2, SessionStepTypes
<1>3. ASSUME NEW s \in Sessions, NEW at \in 0..MaxTime, NEW uptime \in 0..MaxUptime, RecordRelayHealth(s, at, uptime)
      PROVE  TypeOK'
  <2>1. [at |-> at, uptime |-> uptime] \in [at: Nat, uptime: Nat]
    BY MeterBoundsAssumption
  <2>2. Append(events[s], [at |-> at, uptime |-> uptime]) \in Seq([at: Nat, uptime: Nat])
    BY <2>1
  <2> QED BY <1>3, <2>2 DEF RecordRelayHealth
<1>4. ASSUME NEW j \in Jobs, RunJob(j) PROVE TypeOK'
  BY <1>4 DEF RunJob
<1>5. NoUsage \in UsageRecord
  BY DEF NoUsage, UsageRecord
<1>6. ASSUME NEW j \in Jobs, JobFails(j) PROVE TypeOK'
  <2>1. faults' \in 0..MaxFaults
    BY <1>6, MeterBoundsAssumption DEF JobFails
  <2> QED BY <1>5, <1>6, <2>1 DEF JobFails, EndJob
<1>7. CASE RollupLiveSessionDurations
  BY <1>7, MeterTypes DEF Next, JobStep, RollupLiveSessionDurations, Jobs
<1>8. CASE ReconcileOutageFromHealth
  BY <1>8, MeterTypes DEF Next, JobStep, ReconcileOutageFromHealth, Jobs
<1>9. ASSUME NEW j \in Jobs, UpsertSelect(j) PROVE TypeOK'
  <2>1. \A s \in Sessions : UsageOf(s) \in UsageRecord
    <3> TAKE s \in Sessions
    <3>1. duration[s] \in Nat /\ reconciled[s] \in Nat /\ reconciled[s] \in Int
      OBVIOUS
    <3>2. Greatest(duration[s], reconciled[s]) \in Nat
      BY <3>1, GreatestNat
    <3> QED BY <3>1, <3>2 DEF UsageOf, UsageRecord
  <2>2. [s \in Sessions |-> IF s \in Billable THEN UsageOf(s) ELSE NoUsage] \in [Sessions -> UsageRecord]
    BY <1>5, <2>1
  <2>3. Billable \in SUBSET Sessions
    BY DEF Billable, Reconcilable
  <2> QED BY <1>9, <2>2, <2>3 DEF UpsertSelect
<1>10. ASSUME NEW j \in Jobs, UpsertWrite(j) PROVE TypeOK'
  BY <1>5, <1>10 DEF UpsertWrite, EndJob
<1>11. CASE UNCHANGED vars
  BY <1>11 DEF vars
<1> QED BY <1>1, <1>2, <1>3, <1>4, <1>6, <1>7, <1>8, <1>9, <1>10, <1>11 DEF Next, JobStep

\* Every reachable state of the metering is well typed.
THEOREM MeteringTypeCorrect == Spec => []TypeOK
<1>1. Init => TypeOK
  BY MeterBoundsAssumption DEF Init, Lifecycle!Init, TypeOK, NoUsage, UsageRecord, Jobs
<1> QED BY <1>1, TypeStep, PTL DEF Spec

-----------------------------------------------------------------------------
\* No statement lowers a meter.
LEMMA MetersRise ==
  ASSUME TypeOK, [Next]_vars, NEW s \in Sessions
  PROVE  /\ duration'[s] >= duration[s]
         /\ reconciled'[s] >= reconciled[s]
<1>1. duration[s] \in Nat /\ reconciled[s] \in Nat
  BY DEF TypeOK
<1>2. CASE RollupLiveSessionDurations
  <2>1. now - began[s] \in Int
    BY MeterBoundsAssumption DEF TypeOK
  <2>2. Greatest(duration[s], now - began[s]) >= duration[s]
    BY <1>1, <2>1, GreatestNat
  <2>3. duration'[s] = IF Metered(s) THEN Greatest(duration[s], now - began[s]) ELSE duration[s]
    BY <1>2 DEF RollupLiveSessionDurations
  <2>4. reconciled'[s] = reconciled[s]
    BY <1>2 DEF RollupLiveSessionDurations
  <2> QED BY <1>1, <2>2, <2>3, <2>4
<1>3. CASE ReconcileOutageFromHealth
  <2>1. LatestUptime(s) \in Int
    BY LatestIsReported
  <2>2. /\ Greatest(duration[s], LatestUptime(s)) >= duration[s]
        /\ Greatest(reconciled[s], LatestUptime(s)) >= reconciled[s]
    BY <1>1, <2>1, GreatestNat
  <2>3. /\ duration'[s] = IF s \in Reconcilable THEN Greatest(duration[s], LatestUptime(s)) ELSE duration[s]
        /\ reconciled'[s] = IF s \in Reconcilable THEN Greatest(reconciled[s], LatestUptime(s)) ELSE reconciled[s]
    BY <1>3 DEF ReconcileOutageFromHealth
  <2> QED BY <1>1, <2>2, <2>3
<1>4. CASE UNCHANGED meterVars
  BY <1>1, <1>4 DEF meterVars
<1> QED BY <1>2, <1>3, <1>4
  DEF Next, vars, JobStep, Tick, SessionStep, RecordRelayHealth, RunJob, JobFails, UpsertSelect, UpsertWrite

\* The meters of a session never go back, in any order of jobs and reports.
THEOREM MetersNeverShrink == Spec => MetersGrow
<1> DEFINE Grow == \A s \in Sessions : duration'[s] >= duration[s] /\ reconciled'[s] >= reconciled[s]
<1>1. TypeOK /\ [Next]_vars => [Grow]_vars
  BY MetersRise
<1> QED BY <1>1, MeteringTypeCorrect, PTL DEF Spec, MetersGrow

-----------------------------------------------------------------------------
\* What an upsert holds in its hands is covered by the meters as well, and what
\* is billed or selected is a session of the cycle, which never leaves it.
BillInv ==
  /\ BillVouched
  /\ \A j \in Jobs, s \in Sessions : seen[j][s].billable <= Greatest(duration[s], reconciled[s])
  /\ \A s \in Sessions : (usage[s] # NoUsage \/ \E j \in Jobs : s \in rows[j]) => status[s] # "absent" /\ InCycle(s)

\* The start and the owner of a session never change once it is open.
LEMMA CycleStays ==
  ASSUME TypeOK, [Next]_vars, NEW s \in Sessions, status[s] # "absent"
  PROVE  status'[s] # "absent" /\ (InCycle(s) => InCycle(s)')
<1>1. CASE SessionStep
  <2>1. PICK skew \in 0..Skew :
          began' = [t \in Sessions |-> IF status[t] = "absent" /\ status'[t] # "absent" THEN now + skew ELSE began[t]]
    BY <1>1 DEF SessionStep
  <2>2. began'[s] = began[s]
    BY <2>1
  <2>3. status'[s] # "absent" /\ owner'[s] = owner[s]
    <3>1. ASSUME NEW t \in Sessions, NEW u \in Users, Lifecycle!Open(u, t) PROVE <2>3
      BY <3>1 DEF Lifecycle!Open, TypeOK
    <3>2. ASSUME NEW t \in Sessions, NEW i \in Instances, Lifecycle!Activate(t, i) PROVE <2>3
      BY <3>2 DEF Lifecycle!Activate, TypeOK
    <3>3. ASSUME NEW t \in Sessions, Lifecycle!Close(t) PROVE <2>3
      BY <3>3 DEF Lifecycle!Close, TypeOK
    <3> QED BY <1>1, <3>1, <3>2, <3>3 DEF SessionStep, Lifecycle!Next
  <2> QED BY <2>2, <2>3 DEF InCycle
<1>2. CASE UNCHANGED <<status, owner, began>>
  BY <1>2 DEF InCycle
<1> QED BY <1>1, <1>2 DEF Next, vars, lifeVars, JobStep, Tick, RecordRelayHealth, RunJob, JobFails, UpsertSelect,
     UpsertWrite, RollupLiveSessionDurations, ReconcileOutageFromHealth

LEMMA CoverRises ==
  ASSUME TypeOK, [Next]_vars, NEW s \in Sessions, NEW b \in Nat, b <= Greatest(duration[s], reconciled[s])
  PROVE  b <= Greatest(duration'[s], reconciled'[s])
<1>1. /\ duration[s] \in Nat /\ reconciled[s] \in Nat
      /\ duration'[s] \in Nat /\ reconciled'[s] \in Nat
  BY MeterTypes DEF TypeOK
<1>2. duration'[s] >= duration[s] /\ reconciled'[s] >= reconciled[s]
  BY MetersRise
<1> QED BY <1>1, <1>2 DEF Greatest

LEMMA BillStep ==
  ASSUME TypeOK, BillInv, [Next]_vars
  PROVE  BillInv'
<1>1. ASSUME NEW s \in Sessions
      PROVE  /\ usage[s].billable <= Greatest(duration'[s], reconciled'[s])
             /\ \A j \in Jobs : seen[j][s].billable <= Greatest(duration'[s], reconciled'[s])
             /\ 0 <= Greatest(duration'[s], reconciled'[s])
             /\ Greatest(duration[s], reconciled[s]) <= Greatest(duration'[s], reconciled'[s])
  <2>1. usage[s].billable \in Nat /\ \A j \in Jobs : seen[j][s].billable \in Nat
    BY DEF TypeOK, UsageRecord
  <2>2. duration[s] \in Nat /\ reconciled[s] \in Nat
    BY DEF TypeOK
  <2>3. Greatest(duration[s], reconciled[s]) \in Nat
    BY <2>2 DEF Greatest
  <2> QED BY <2>1, <2>3, CoverRises DEF BillInv, BillVouched
<1>2. ASSUME NEW s \in Sessions PROVE usage'[s].billable <= Greatest(duration'[s], reconciled'[s])
  <2>1. CASE usage' = usage
    BY <1>1, <2>1
  <2>2. ASSUME NEW j \in Jobs, UpsertWrite(j) PROVE usage'[s] \in {usage[s], seen[j][s]}
    BY <2>2 DEF UpsertWrite
  <2>3. CASE \E j \in Jobs : UpsertWrite(j)
    BY <1>1, <2>2, <2>3
  <2> QED BY <2>1, <2>3 DEF Next, JobStep, vars, Tick, SessionStep, RecordRelayHealth, RunJob, JobFails,
       RollupLiveSessionDurations, ReconcileOutageFromHealth, UpsertSelect
<1>3. ASSUME NEW j \in Jobs, NEW s \in Sessions
      PROVE  seen'[j][s].billable <= Greatest(duration'[s], reconciled'[s])
  <2>1. CASE seen' = seen
    BY <1>1, <2>1
  <2>2. ASSUME NEW k \in Jobs, UpsertSelect(k)
        PROVE  seen'[j][s].billable \in {seen[j][s].billable, Greatest(duration[s], reconciled[s]), 0}
    BY <2>2 DEF UpsertSelect, UsageOf, NoUsage, TypeOK
  <2>3. ASSUME NEW k \in Jobs, EndJob(k)
        PROVE  seen'[j][s].billable \in {seen[j][s].billable, 0}
    BY <2>3 DEF EndJob, NoUsage, TypeOK
  <2>4. CASE \E k \in Jobs : UpsertSelect(k)
    BY <1>1, <2>2, <2>4
  <2>5. CASE \E k \in Jobs : UpsertWrite(k) \/ JobFails(k)
    BY <1>1, <2>3, <2>5 DEF UpsertWrite, JobFails
  <2> QED BY <2>1, <2>4, <2>5 DEF Next, JobStep, vars, jobVars, Tick, SessionStep, RecordRelayHealth, RunJob,
       RollupLiveSessionDurations, ReconcileOutageFromHealth
<1>4. ASSUME NEW s \in Sessions, usage'[s] # NoUsage \/ \E j \in Jobs : s \in rows'[j]
      PROVE  status'[s] # "absent" /\ InCycle(s)'
  <2>1. CASE usage[s] # NoUsage \/ \E j \in Jobs : s \in rows[j]
    BY <2>1, CycleStays DEF BillInv
  <2>2. CASE s \in Billable
    <3>1. status[s] # "absent" /\ InCycle(s)
      BY <2>2 DEF Billable, Reconcilable
    <3> QED BY <3>1, CycleStays
  <2>3. ASSUME NEW j \in Jobs, UpsertSelect(j) PROVE (\E k \in Jobs : s \in rows[k]) \/ s \in Billable \/ usage[s] # NoUsage
    BY <1>4, <2>3 DEF UpsertSelect, TypeOK
  <2>4. ASSUME NEW j \in Jobs, UpsertWrite(j) PROVE (\E k \in Jobs : s \in rows[k]) \/ usage[s] # NoUsage
    BY <1>4, <2>4 DEF UpsertWrite, EndJob, TypeOK
  <2>5. ASSUME NEW j \in Jobs, JobFails(j) PROVE (\E k \in Jobs : s \in rows[k]) \/ usage[s] # NoUsage
    BY <1>4, <2>5 DEF JobFails, EndJob, TypeOK
  <2>6. CASE UNCHANGED <<usage, rows>>
    BY <1>4, <2>1, <2>6
  <2> QED BY <2>1, <2>2, <2>3, <2>4, <2>5, <2>6 DEF Next, JobStep, vars, jobVars, Tick, SessionStep, RecordRelayHealth,
       RunJob, RollupLiveSessionDurations, ReconcileOutageFromHealth
<1> QED BY <1>2, <1>3, <1>4 DEF BillInv, BillVouched

\* No bill is ever ahead of the meters, however old the snapshot behind it.
THEOREM BillsVouched == Spec => []BillVouched
<1>1. Init => BillInv
  BY DEF Init, BillInv, BillVouched, NoUsage, Greatest, Jobs
<1>2. BillInv => BillVouched
  BY DEF BillInv
<1> QED BY <1>1, <1>2, BillStep, MeteringTypeCorrect, PTL DEF Spec

-----------------------------------------------------------------------------
\* One of the reports names at least d.
Reported(reports, d) == \E i \in DOMAIN reports : d <= reports[i].uptime

\* StoppedMeterRests, carried back to the session's birth: nothing is metered
\* before it is live, and while it is live no more than has passed or was reported.
RestInv ==
  \A s \in Sessions :
    /\ status[s] \in {"absent", "provisioning"} => duration[s] = 0
    /\ status[s] \in {"active", "grace"} => duration[s] <= Greatest(now - began[s], 0) \/ Reported(events[s], duration[s])
    /\ status[s] = "stopped" => duration[s] <= Greatest(closed[s] - began[s], 0) \/ Reported(events[s], duration[s])

\* Reports are never withdrawn.
LEMMA ReportsStay ==
  ASSUME TypeOK, [Next]_vars, NEW s \in Sessions, NEW d, Reported(events[s], d)
  PROVE  Reported(events'[s], d)
<1>1. CASE events' = events
  BY <1>1 DEF Reported
<1>2. ASSUME NEW t \in Sessions, NEW at, NEW uptime, RecordRelayHealth(t, at, uptime)
      PROVE  Reported(events'[s], d)
  <2> DEFINE e == [at |-> at, uptime |-> uptime]
  <2>1. PICK i \in DOMAIN events[s] : d <= events[s][i].uptime
    BY DEF Reported
  <2>2. CASE t # s
    BY <1>2, <2>1, <2>2 DEF RecordRelayHealth, Reported, TypeOK
  <2>3. CASE t = s
    <3>1. events[s] \in Seq([at: Nat, uptime: Nat])
      BY DEF TypeOK
    <3>2. i \in DOMAIN Append(events[s], e) /\ Append(events[s], e)[i] = events[s][i]
      BY <2>1, <3>1
    <3>3. events'[s] = Append(events[s], e)
      BY <1>2, <2>3 DEF RecordRelayHealth, TypeOK
    <3> QED BY <2>1, <3>2, <3>3 DEF Reported
  <2> QED BY <2>2, <2>3
<1> QED BY <1>1, <1>2 DEF Next, vars, JobStep, Tick, SessionStep, RunJob, JobFails, UpsertSelect, UpsertWrite,
     RollupLiveSessionDurations, ReconcileOutageFromHealth

\* How one step moves a session.
LEMMA SessionMoves ==
  ASSUME TypeOK, [Next]_vars, NEW s \in Sessions
  PROVE  \/ status'[s] = status[s] /\ began'[s] = began[s] /\ closed'[s] = closed[s]
         \/ /\ SessionStep
            /\ \/ status[s] = "absent" /\ status'[s] = "provisioning"
               \/ status[s] = "provisioning" /\ status'[s] = "active"
               \/ /\ status[s] \in {"provisioning", "active", "grace"}
                  /\ status'[s] = "stopped"
                  /\ began'[s] = began[s]
                  /\ closed'[s] = now
<1>1. CASE SessionStep
  <2>1. PICK skew \in 0..Skew :
          began' = [t \in Sessions |-> IF status[t] = "absent" /\ status'[t] # "absent" THEN now + skew ELSE began[t]]
    BY <1>1 DEF SessionStep
  <2>2. closed' = [t \in Sessions |-> IF status[t] # "stopped" /\ status'[t] = "stopped" THEN now ELSE closed[t]]
    BY <1>1 DEF SessionStep
  <2>3. \/ status'[s] = status[s]
        \/ status[s] = "absent" /\ status'[s] = "provisioning"
        \/ status[s] = "provisioning" /\ status'[s] = "active"
        \/ status[s] \in {"provisioning", "active", "grace"} /\ status'[s] = "stopped"
    <3>1. ASSUME NEW t \in Sessions, NEW u \in Users, Lifecycle!Open(u, t) PROVE <2>3
      BY <3>1 DEF Lifecycle!Open, TypeOK
    <3>2. ASSUME NEW t \in Sessions, NEW i \in Instances, Lifecycle!Activate(t, i) PROVE <2>3
      BY <3>2 DEF Lifecycle!Activate, TypeOK
    <3>3. ASSUME NEW t \in Sessions, Lifecycle!Close(t) PROVE <2>3
      BY <3>3 DEF Lifecycle!Close, Lifecycle!LiveStatus, TypeOK
    <3> QED BY <1>1, <3>1, <3>2, <3>3 DEF SessionStep, Lifecycle!Next
  <2> QED BY <1>1, <2>1, <2>2, <2>3
<1>2. CASE UNCHANGED <<status, began, closed>>
  BY <1>2
<1> QED BY <1>1, <1>2 DEF Next, vars, lifeVars, JobStep, Tick, RecordRelayHealth, RunJob, JobFails, UpsertSelect,
     UpsertWrite, RollupLiveSessionDurations, ReconcileOutageFromHealth

\* How one step moves the duration of a session.
LEMMA DurationMoves ==
  ASSUME TypeOK, [Next]_vars, NEW s \in Sessions
  PROVE  \/ duration'[s] = duration[s]
         \/ ~SessionStep /\ status[s] \in {"active", "grace"} /\ duration'[s] = now - began[s]
         \/ /\ ~SessionStep
            /\ status[s] \in {"active", "grace", "stopped"}
            /\ Reported(events[s], duration'[s])
<1>1. CASE RollupLiveSessionDurations
  <2>1. ~SessionStep
    <3>1. job' # job
      BY <1>1 DEF RollupLiveSessionDurations, TypeOK, Jobs
    <3> QED BY <3>1 DEF SessionStep, jobVars
  <2>2. duration'[s] = IF Metered(s) THEN Greatest(duration[s], now - began[s]) ELSE duration[s]
    BY <1>1 DEF RollupLiveSessionDurations
  <2> QED BY <2>1, <2>2 DEF Metered, Greatest
<1>2. CASE ReconcileOutageFromHealth
  <2>1. ~SessionStep
    <3>1. job' # job
      BY <1>2 DEF ReconcileOutageFromHealth, TypeOK, Jobs
    <3> QED BY <3>1 DEF SessionStep, jobVars
  <2>2. duration'[s] = IF s \in Reconcilable THEN Greatest(duration[s], LatestUptime(s)) ELSE duration[s]
    BY <1>2 DEF ReconcileOutageFromHealth
  <2>3. CASE duration'[s] # duration[s]
    <3>1. s \in Reconcilable /\ duration'[s] = LatestUptime(s)
      BY <2>2, <2>3 DEF Greatest
    <3>2. LatestUptime(s) # 0
      <4>1. duration[s] \in Nat
        BY DEF TypeOK
      <4> QED BY <2>2, <2>3, <4>1 DEF Greatest
    <3>3. PICK i \in DOMAIN events[s] : LatestUptime(s) = events[s][i].uptime
      BY <3>2, LatestIsReported
    <3>4. LatestUptime(s) <= events[s][i].uptime
      BY <3>3, LatestIsReported
    <3> QED BY <2>1, <3>1, <3>4 DEF Reported, Reconcilable
  <2> QED BY <2>3
<1>3. CASE UNCHANGED duration
  BY <1>3
<1> QED BY <1>1, <1>2, <1>3 DEF Next, vars, meterVars, JobStep, Tick, SessionStep, RecordRelayHealth, RunJob,
     JobFails, UpsertSelect, UpsertWrite

\* The clock does not go back, and a session's steps take no time.
LEMMA ClockRises ==
  ASSUME TypeOK, [Next]_vars
  PROVE  now \in Nat /\ now' \in Nat /\ now' >= now /\ (SessionStep => now' = now /\ duration' = duration)
<1>1. now \in Nat /\ (now' = now \/ now' = now + 1)
  <2>1. now \in Nat
    BY MeterBoundsAssumption DEF TypeOK
  <2>2. CASE Tick
    BY <2>1, <2>2 DEF Tick
  <2>3. CASE now' = now
    BY <2>1, <2>3
  <2> QED BY <2>1, <2>2, <2>3 DEF Next, vars, JobStep, SessionStep, RecordRelayHealth, RunJob, JobFails,
       UpsertSelect, UpsertWrite, RollupLiveSessionDurations, ReconcileOutageFromHealth
<1> QED BY <1>1 DEF SessionStep, meterVars

LEMMA RestStep ==
  ASSUME TypeOK, RestInv, [Next]_vars
  PROVE  RestInv'
<1> DEFINE Rests(s) ==
      /\ status[s] \in {"absent", "provisioning"} => duration[s] = 0
      /\ status[s] \in {"active", "grace"} => duration[s] <= Greatest(now - began[s], 0) \/ Reported(events[s], duration[s])
      /\ status[s] = "stopped" => duration[s] <= Greatest(closed[s] - began[s], 0) \/ Reported(events[s], duration[s])
<1>1. SUFFICES ASSUME NEW s \in Sessions PROVE Rests(s)'
  BY DEF RestInv
<1>2. Rests(s)
  BY DEF RestInv
<1>3. /\ duration[s] \in Nat /\ began[s] \in Nat /\ closed[s] \in Nat
      /\ duration'[s] \in Nat /\ began'[s] \in Nat /\ closed'[s] \in Nat
  BY TypeStep DEF TypeOK
<1>4. now \in Nat /\ now' \in Nat /\ now' >= now /\ (SessionStep => now' = now /\ duration' = duration)
  BY ClockRises
<1>5. Reported(events[s], duration[s]) => Reported(events'[s], duration[s])
  BY ReportsStay
<1>6. CASE SessionStep
  <2>1. duration'[s] = duration[s] /\ now' = now
    BY <1>4, <1>6
  <2>2. \/ status'[s] = status[s] /\ began'[s] = began[s] /\ closed'[s] = closed[s]
        \/ status[s] = "absent" /\ status'[s] = "provisioning"
        \/ status[s] = "provisioning" /\ status'[s] = "active"
        \/ /\ status[s] \in {"provisioning", "active", "grace"}
           /\ status'[s] = "stopped"
           /\ began'[s] = began[s]
           /\ closed'[s] = now
    BY SessionMoves
  <2> QED BY <1>2, <1>3, <1>4, <1>5, <2>1, <2>2 DEF Greatest
<1>7. CASE ~SessionStep
  <2>1. status'[s] = status[s] /\ began'[s] = began[s] /\ closed'[s] = closed[s]
    BY <1>7, SessionMoves
  <2>2. CASE duration'[s] = duration[s]
    BY <1>2, <1>3, <1>4, <1>5, <2>1, <2>2 DEF Greatest
  <2>3. CASE status[s] \in {"active", "grace"} /\ duration'[s] = now - began[s]
    BY <1>3, <1>4, <2>1, <2>3 DEF Greatest
  <2>4. CASE status[s] \in {"active", "grace", "stopped"} /\ Reported(events[s], duration'[s])
    <3>1. Reported(events'[s], duration'[s])
      BY <2>4, ReportsStay
    <3> QED BY <2>1, <2>4, <3>1
  <2> QED BY <2>2, <2>3, <2>4, DurationMoves
<1> QED BY <1>6, <1>7

\* A stopped session's meter is moved by reports of its relay only.
THEOREM StoppedMetersRest == Spec => []StoppedMeterRests
<1>1. Init => RestInv
  BY DEF Init, RestInv, Lifecycle!Init
<1>2. RestInv => StoppedMeterRests
  BY DEF RestInv, StoppedMeterRests, Reported
<1> QED BY <1>1, <1>2, RestStep, MeteringTypeCorrect, PTL DEF Spec
=============================================================================
