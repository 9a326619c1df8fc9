----------------------------- MODULE UsageJobs -----------------------------
(***************************************************************************)
(* Metering: the jobs session_usage_rollup and outage_reconciliation of    *)
(* the worker process and the health reports of relays, next to sessions   *)
(* that open, go live and close as SessionLifecycle lets them.             *)
(*                                                                         *)
(* Statements that raise a meter do it with greatest() on the row as it is *)
(* when it is locked, so each is one step.  UpsertUsageRollups is two: it  *)
(* computes its rows from the snapshot of its start and later overwrites   *)
(* what another job wrote meanwhile.  The billing cycle of a user is a     *)
(* constant, since nothing in the repository moves it: a session that      *)
(* started outside it is metered and never billed.                         *)
(***************************************************************************)
EXTENDS Integers, Sequences

CONSTANTS
  Users, Sessions, Instances, NoUser, NoInstance,
  Cycle,       \* cycle_start_at and cycle_end_at of each user
  MaxTime,     \* the clock of the database stops here
  Skew,        \* how far the clock of the API process may be ahead of it
  MaxUptime,   \* largest uptime a relay reports
  MaxEvents,   \* health reports per session
  MaxFaults    \* statements of the jobs that fail

ASSUME MeterBoundsAssumption ==
  MaxTime \in Nat /\ Skew \in Nat /\ MaxUptime \in Nat /\ MaxEvents \in Nat /\ MaxFaults \in Nat

ASSUME CycleAssumption == Cycle \in [Users -> [from: Nat, to: Nat]]

Jobs == {"session_usage_rollup", "outage_reconciliation"}

VARIABLES
  status, owner, bound,  \* sessions: status, user_id, relay_instance_id
  began,                 \* sessions.started_at, by the clock of the API process
  closed,                \* time of the closing commit (history)
  duration, reconciled,  \* sessions.duration_seconds and reconciled_seconds
  events,                \* relay_health_events of a session, by id
  usage,                 \* usage_records of a session, all zero without a row
  job,                   \* jobs: next statement
  rows, seen,            \* jobs: sessions an upsert selected, and the values it computed
  now, faults

lifeVars == <<status, owner, bound>>
meterVars == <<duration, reconciled>>
jobVars == <<job, rows, seen>>
vars == <<lifeVars, began, closed, meterVars, events, usage, jobVars, now, faults>>

Lifecycle == INSTANCE SessionLifecycle

NoUsage == [measured |-> 0, reconciled |-> 0, billable |-> 0]

Greatest(a, b) == IF a >= b THEN a ELSE b

Init ==
  /\ Lifecycle!Init
  /\ began = [s \in Sessions |-> 0]
  /\ closed = [s \in Sessions |-> 0]
  /\ duration = [s \in Sessions |-> 0]
  /\ reconciled = [s \in Sessions |-> 0]
  /\ events = [s \in Sessions |-> <<>>]
  /\ usage = [s \in Sessions |-> NoUsage]
  /\ job = [j \in Jobs |-> "idle"]
  /\ rows = [j \in Jobs |-> {}]
  /\ seen = [j \in Jobs |-> [s \in Sessions |-> NoUsage]]
  /\ now = 0
  /\ faults = 0

-----------------------------------------------------------------------------
\* The world the jobs meter.

Tick ==
  /\ now < MaxTime
  /\ now' = now + 1
  /\ UNCHANGED <<lifeVars, began, closed, meterVars, events, usage, jobVars, faults>>

\* A commit of the relay handlers: a session opens, goes live or closes.
SessionStep ==
  /\ Lifecycle!Next
  /\ \E skew \in 0..Skew :
       began' = [s \in Sessions |-> IF status[s] = "absent" /\ status'[s] # "absent" THEN now + skew ELSE began[s]]
  /\ closed' = [s \in Sessions |-> IF status[s] # "stopped" /\ status'[s] = "stopped" THEN now ELSE closed[s]]
  /\ UNCHANGED <<meterVars, events, usage, jobVars, now, faults>>

\* A report names its own observation time, past or future, and is
\* accepted for every session that has a relay, stopped ones included.
RecordRelayHealth(s, at, uptime) ==
  /\ bound[s] # NoInstance
  /\ Len(events[s]) < MaxEvents
  /\ events' = [events EXCEPT ![s] = Append(@, [at |-> at, uptime |-> uptime])]
  /\ UNCHANGED <<lifeVars, began, closed, meterVars, usage, jobVars, now, faults>>

-----------------------------------------------------------------------------
\* The jobs.

\* The ticker of a job fires.
RunJob(j) ==
  /\ job[j] = "idle"
  /\ job' = [job EXCEPT ![j] = "meter"]
  /\ UNCHANGED <<lifeVars, began, closed, meterVars, events, usage, rows, seen, now, faults>>

\* Stopped sessions are metered on.
Bug_Metered(s) == status[s] \in {"active", "grace", "stopped"} /\ began[s] <= now
Metered(s) == status[s] \in {"active", "grace"} /\ began[s] <= now

\* The difference of the two clocks is stored as it is.
Bug_RollupLiveSessionDurations ==
  /\ job["session_usage_rollup"] = "meter"
  /\ job' = [job EXCEPT !["session_usage_rollup"] = "select"]
  /\ duration' = [s \in Sessions |-> IF status[s] = "active" THEN now - began[s] ELSE duration[s]]
  /\ UNCHANGED <<lifeVars, began, closed, reconciled, events, usage, rows, seen, now, faults>>

RollupLiveSessionDurations ==
  /\ job["session_usage_rollup"] = "meter"
  /\ job' = [job EXCEPT !["session_usage_rollup"] = "select"]
  /\ duration' = [s \in Sessions |->
                    IF Metered(s) THEN Greatest(duration[s], now - began[s]) ELSE duration[s]]
  /\ UNCHANGED <<lifeVars, began, closed, reconciled, events, usage, rows, seen, now, faults>>

\* Of the events of a session the one observed last, the newest id among equals.
LatestEvents(s) ==
  {i \in DOMAIN events[s] :
     \A k \in DOMAIN events[s] :
       events[s][k].at < events[s][i].at \/ (events[s][k].at = events[s][i].at /\ k <= i)}

LatestUptime(s) ==
  IF LatestEvents(s) = {} THEN 0 ELSE events[s][CHOOSE i \in LatestEvents(s) : TRUE].uptime

\* The sessions outages are reconciled for.
Reconcilable == {s \in Sessions : status[s] \in {"active", "grace", "stopped"}}

\* A session whose last report is low has its meters lowered.
Bug_ReconcileOutageFromHealth ==
  /\ job["outage_reconciliation"] = "meter"
  /\ job' = [job EXCEPT !["outage_reconciliation"] = "select"]
  /\ reconciled' = [s \in Sessions |->
                      IF s \in Reconcilable /\ events[s] # <<>> THEN LatestUptime(s) ELSE reconciled[s]]
  /\ duration' = [s \in Sessions |->
                    IF s \in Reconcilable THEN Greatest(duration[s], LatestUptime(s)) ELSE duration[s]]
  /\ UNCHANGED <<lifeVars, began, closed, events, usage, rows, seen, now, faults>>

ReconcileOutageFromHealth ==
  /\ job["outage_reconciliation"] = "meter"
  /\ job' = [job EXCEPT !["outage_reconciliation"] = "select"]
  /\ reconciled' = [s \in Sessions |->
                      IF s \in Reconcilable THEN Greatest(reconciled[s], LatestUptime(s)) ELSE reconciled[s]]
  /\ duration' = [s \in Sessions |->
                    IF s \in Reconcilable THEN Greatest(duration[s], LatestUptime(s)) ELSE duration[s]]
  /\ UNCHANGED <<lifeVars, began, closed, events, usage, rows, seen, now, faults>>

\* Outage time is billed on top of the duration.
Bug_UsageOf(s) ==
  [measured |-> duration[s], reconciled |-> reconciled[s], billable |-> duration[s] + reconciled[s]]
UsageOf(s) ==
  [measured |-> duration[s], reconciled |-> reconciled[s], billable |-> Greatest(duration[s], reconciled[s])]

\* started_at is in the billing cycle of the session's user.
InCycle(s) == owner[s] \in Users /\ Cycle[owner[s]].from <= began[s] /\ began[s] <= Cycle[owner[s]].to

\* Stopped sessions are left out.
Bug_Billable == {s \in Sessions : status[s] \in {"active", "grace"} /\ InCycle(s)}

\* The sessions usage is recorded for.
Billable == {s \in Reconcilable : InCycle(s)}

\* UpsertUsageRollups computes its rows.
UpsertSelect(j) ==
  /\ job[j] = "select"
  /\ job' = [job EXCEPT ![j] = "upsert"]
  /\ rows' = [rows EXCEPT ![j] = Billable]
  /\ seen' = [seen EXCEPT ![j] = [s \in Sessions |-> IF s \in Billable THEN UsageOf(s) ELSE NoUsage]]
  /\ UNCHANGED <<lifeVars, began, closed, meterVars, events, usage, now, faults>>

EndJob(j) ==
  /\ job' = [job EXCEPT ![j] = "idle"]
  /\ rows' = [rows EXCEPT ![j] = {}]
  /\ seen' = [seen EXCEPT ![j] = [s \in Sessions |-> NoUsage]]

\* It inserts them, or overwrites the row it finds.
UpsertWrite(j) ==
  /\ job[j] = "upsert"
  /\ usage' = [s \in Sessions |-> IF s \in rows[j] THEN seen[j][s] ELSE usage[s]]
  /\ EndJob(j)
  /\ UNCHANGED <<lifeVars, began, closed, meterVars, events, now, faults>>

\* A statement fails and the rest of the run is skipped.
JobFails(j) ==
  /\ job[j] # "idle"
  /\ faults < MaxFaults
  /\ faults' = faults + 1
  /\ EndJob(j)
  /\ UNCHANGED <<lifeVars, began, closed, meterVars, events, usage, now>>

-----------------------------------------------------------------------------
JobStep ==
  \/ RollupLiveSessionDurations
  \/ ReconcileOutageFromHealth
  \/ \E j \in Jobs : UpsertSelect(j) \/ UpsertWrite(j)

Next ==
  \/ Tick
  \/ SessionStep
  \/ \E s \in Sessions, at \in 0..MaxTime, uptime \in 0..MaxUptime : RecordRelayHealth(s, at, uptime)
  \/ \E j \in Jobs : RunJob(j) \/ JobFails(j)
  \/ JobStep

Spec == Init /\ [][Next]_vars

\* Tickers fire for as long as the worker lives, and statements end.
FairSpec ==
  /\ Spec
  /\ WF_vars(RollupLiveSessionDurations)
  /\ WF_vars(ReconcileOutageFromHealth)
  /\ \A j \in Jobs : WF_vars(RunJob(j)) /\ WF_vars(UpsertSelect(j)) /\ WF_vars(UpsertWrite(j))

-----------------------------------------------------------------------------
(***************************************************************************)
(* Properties                                                              *)
(***************************************************************************)

UsageRecord == [measured: Nat, reconciled: Nat, billable: Nat]

\* Every variable keeps its type; in particular no meter is ever negative, also
\* when the clock of the API process is ahead of the database's.
TypeOK ==
  /\ status \in [Sessions -> {"absent", "provisioning", "active", "grace", "stopped"}]
  /\ owner \in [Sessions -> Users \cup {NoUser}]
  /\ bound \in [Sessions -> Instances \cup {NoInstance}]
  /\ began \in [Sessions -> Nat] /\ closed \in [Sessions -> Nat]
  /\ duration \in [Sessions -> Nat] /\ reconciled \in [Sessions -> Nat]
  /\ events \in [Sessions -> Seq([at: Nat, uptime: Nat])]
  /\ usage \in [Sessions -> UsageRecord]
  /\ job \in [Jobs -> {"idle", "meter", "select", "upsert"}]
  /\ rows \in [Jobs -> SUBSET Sessions]
  /\ seen \in [Jobs -> [Sessions -> UsageRecord]]
  /\ now \in 0..MaxTime
  /\ faults \in 0..MaxFaults

\* The meters of a session never go back, although reports arrive late and out
\* of order and two jobs write the same columns.
MetersGrow ==
  [][\A s \in Sessions : duration'[s] >= duration[s] /\ reconciled'[s] >= reconciled[s]]_vars

\* No bill is ahead of the meters: billable_seconds is at most the greater of
\* duration and reconciled time, whatever snapshot it was computed from, and
\* nothing is billed for a session that started outside its user's cycle.
BillVouched ==
  \A s \in Sessions :
    /\ usage[s].billable <= Greatest(duration[s], reconciled[s])
    /\ usage[s] # NoUsage => InCycle(s)

\* A stopped session's meter runs on for nothing but a relay's report: it shows
\* no more than the time until it closed or an uptime some report named.
StoppedMeterRests ==
  \A s \in Sessions :
    status[s] = "stopped" =>
      \/ duration[s] <= Greatest(closed[s] - began[s], 0)
      \/ \E i \in DOMAIN events[s] : duration[s] <= events[s][i].uptime

\* Bills of a stopped session that started in its user's cycle settle on the final
\* meters and the last report, although an upsert may overwrite a newer row and a
\* failed run skips its second statement.
UsageSettles ==
  \A s \in Sessions :
    <>[](status[s] = "stopped" /\ InCycle(s) =>
           /\ usage[s].billable = Greatest(duration[s], reconciled[s])
           /\ usage[s].billable >= LatestUptime(s))
=============================================================================
