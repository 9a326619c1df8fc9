---------------------------- MODULE SettingsSync ----------------------------
(***************************************************************************)
(* Dock actions set_mode, set_setting and request_status on their way from *)
(* the dock through the plugin's outgoing queues to the core's session     *)
(* overrides, and back as status snapshots that complete them.             *)
(*                                                                         *)
(* Three threads of the plugin take part: the dock's, which submits, the   *)
(* client worker, which sends and reads, and the OBS thread, whose tick    *)
(* fails overdue actions.  The mode is one more target next to the setting *)
(* keys, with a queue of its own; Values are the Booleans of a setting and *)
(* the modes studio and irl.                                               *)
(***************************************************************************)
EXTENDS Naturals, Sequences, FiniteSets

CONSTANTS
  Actions,    \* request ids of dock actions
  Settings,   \* recognized setting keys
  Asked,      \* what dock actions are about: settings, "mode", "status"
  Values,     \* what a target can be set to
  MaxFaults,  \* sessions the core may end on its own account
  MaxThemes,  \* theme refreshes of the OBS thread
  EvtBound    \* periodic snapshots are pushed while fewer than this wait unread

ASSUME SettingsAssumption == {"mode", "status"} \cap Settings = {} /\ "unset" \notin Values /\ Asked \subseteq Settings \cup {"mode", "status"}
ASSUME BoundsAssumption == MaxFaults \in Nat /\ MaxThemes \in Nat /\ EvtBound \in Nat \ {0}

Unset == "unset"
Targets == Settings \cup {"mode"}
Item == [key: Targets, val: Values]
Ask == Item \cup [key: {"status"}, val: {Unset}]
NoAsk == [key |-> "none", val |-> Unset]

VARIABLES
  step, ask, told,       \* dock thread: where a submit stands, the action, results emitted
  order,                 \* actions in the order their requests were queued (history)
  waiting, overdue,      \* pending set_mode and set_setting actions, and those past 3 s
  statusIds,             \* g_pending_request_status_action_ids
  modeQ, setQ, wantStatus, \* the client's outgoing queues
  client, hello, status, \* worker: program point, handshake_sent_, request_status_sent_
  batch,                 \* the queue being sent
  cmd, evt,              \* pipes: plugin to core, core to plugin
  core, overrides,       \* core: session state and SessionOverrides
  view, fresh,           \* snapshot the dock shows, and whether it is the last one this session sent
  themed, themes,        \* snapshots the OBS thread holds to show again, refreshes so far
  loaded,                \* plugin module loaded
  requeued,              \* a setting could not be sent at its first attempt (history)
  faults

dockVars == <<step, ask, told, order>>
pendVars == <<waiting, overdue, statusIds>>
queueVars == <<modeQ, setQ, wantStatus>>
workVars == <<client, hello, status, batch>>
pipeVars == <<cmd, evt>>
coreVars == <<core, overrides>>
viewVars == <<view, fresh, themed, themes>>
vars == <<dockVars, pendVars, queueVars, workVars, pipeVars, coreVars, viewVars, loaded, requeued, faults>>

NoOverrides == [t \in Targets |-> Unset]

InSession == core # "listen"
ClientOpen == client \notin {"down", "stopped"}
\* FlushFileBuffers returned: the core has read the frame, or is gone.
Flushed == cmd = <<>> \/ ~InSession
Tell(a, result) == told' = [told EXCEPT ![a] = Append(@, result)]

Init ==
  /\ step = [a \in Actions |-> "new"]
  /\ ask = [a \in Actions |-> NoAsk]
  /\ told = [a \in Actions |-> <<>>]
  /\ order = <<>>
  /\ waiting = {}
  /\ overdue = {}
  /\ statusIds = <<>>
  /\ modeQ = <<>>
  /\ setQ = <<>>
  /\ wantStatus = FALSE
  /\ client = "down"
  /\ hello = FALSE
  /\ status = FALSE
  /\ batch = <<>>
  /\ cmd = <<>>
  /\ evt = <<>>
  /\ core = "listen"
  /\ overrides = NoOverrides
  /\ view = NoOverrides
  /\ fresh = FALSE
  /\ themed = {}
  /\ themes = 0
  /\ loaded = TRUE
  /\ requeued = FALSE
  /\ faults = 0

-----------------------------------------------------------------------------
\* Dock thread: aegis_obs_shim_receive_dock_action_json, in its three effects.

\* No handler is running; the Qt thread runs one at a time.
Idle == \A a \in Actions : step[a] \in {"new", "done"}

Track(a, req) ==
  /\ loaded
  /\ Idle
  /\ step[a] = "new"
  /\ step' = [step EXCEPT ![a] = "queue"]
  /\ ask' = [ask EXCEPT ![a] = req]
  /\ IF req.key = "status"
       THEN statusIds' = Append(statusIds, a) /\ UNCHANGED waiting
       ELSE waiting' = waiting \cup {a} /\ UNCHANGED statusIds
  /\ UNCHANGED <<told, order, overdue, queueVars, workVars, pipeVars, coreVars, viewVars, loaded, requeued, faults>>

\* A payload the handler rejects is answered at once.
Reject(a) ==
  /\ loaded
  /\ Idle
  /\ step[a] = "new"
  /\ step' = [step EXCEPT ![a] = "done"]
  /\ Tell(a, "rejected")
  /\ UNCHANGED <<ask, order, pendVars, queueVars, workVars, pipeVars, coreVars, viewVars, loaded, requeued, faults>>

\* A setting whose key is queued already keeps the queued value.
Bug_QueueSetSetting(q, item) ==
  IF \E i \in DOMAIN q : q[i].key = item.key THEN q ELSE Append(q, item)

\* QueueSetSettingRequest writes the value into the first entry of its key.
QueueSetSetting(q, item) ==
  LET same == {i \in DOMAIN q : q[i].key = item.key}
      first == CHOOSE i \in same : \A j \in same : i <= j
  IN  IF same = {} THEN Append(q, item) ELSE [q EXCEPT ![first] = item]

\* QueueSetModeRequest keeps the newest mode only.
QueueSetMode(q, item) == <<item>>

Enqueue(a) ==
  /\ step[a] = "queue"
  /\ step' = [step EXCEPT ![a] = "answer"]
  /\ order' = Append(order, a)
  /\ \/ /\ ask[a].key = "status"
        /\ wantStatus' = TRUE
        /\ UNCHANGED <<modeQ, setQ>>
     \/ /\ ask[a].key = "mode"
        /\ modeQ' = QueueSetMode(modeQ, ask[a])
        /\ UNCHANGED <<setQ, wantStatus>>
     \/ /\ ask[a].key \in Settings
        /\ setQ' = QueueSetSetting(setQ, ask[a])
        /\ UNCHANGED <<modeQ, wantStatus>>
  /\ UNCHANGED <<ask, told, pendVars, workVars, pipeVars, coreVars, viewVars, loaded, requeued, faults>>

Answer(a) ==
  /\ step[a] = "answer"
  /\ step' = [step EXCEPT ![a] = "done"]
  /\ Tell(a, "queued")
  /\ UNCHANGED <<ask, order, pendVars, queueVars, workVars, pipeVars, coreVars, viewVars, loaded, requeued, faults>>

-----------------------------------------------------------------------------
\* OBS thread: the tick and the unload.

\* Only the mode has a deadline.
Bug_ActionOverdue(a) ==
  /\ a \in waiting \ overdue
  /\ ask[a].key = "mode"
  /\ overdue' = overdue \cup {a}
  /\ UNCHANGED <<dockVars, waiting, statusIds, queueVars, workVars, pipeVars, coreVars, viewVars, loaded, requeued, faults>>

\* Three seconds pass for a pending action.
ActionOverdue(a) ==
  /\ a \in waiting \ overdue
  /\ overdue' = overdue \cup {a}
  /\ UNCHANGED <<dockVars, waiting, statusIds, queueVars, workVars, pipeVars, coreVars, viewVars, loaded, requeued, faults>>

\* The actions are failed and stay in the list.
Bug_DrainExpired ==
  /\ loaded
  /\ overdue # {}
  /\ told' = [a \in Actions |-> IF a \in overdue THEN Append(told[a], "failed") ELSE told[a]]
  /\ overdue' = {}
  /\ UNCHANGED <<step, ask, order, waiting, statusIds, queueVars, workVars, pipeVars, coreVars, viewVars, loaded,
                 requeued, faults>>

\* DrainExpiredPendingDockActions.
DrainExpired ==
  /\ loaded
  /\ overdue # {}
  /\ waiting' = waiting \ overdue
  /\ told' = [a \in Actions |-> IF a \in overdue THEN Append(told[a], "failed") ELSE told[a]]
  /\ overdue' = {}
  /\ UNCHANGED <<step, ask, order, statusIds, queueVars, workVars, pipeVars, coreVars, viewVars, loaded,
                 requeued, faults>>

\* ReemitDockStatusSnapshotWithCurrentTheme copies the cached snapshot under the
\* lock and shows the copy without it.
ThemeRead ==
  /\ loaded
  /\ themes < MaxThemes
  /\ view # NoOverrides
  /\ themed = {}
  /\ themed' = {view}
  /\ themes' = themes + 1
  /\ UNCHANGED <<dockVars, pendVars, queueVars, workVars, pipeVars, coreVars, view, fresh, loaded, requeued, faults>>

ThemeEmit ==
  /\ themed # {}
  /\ view' \in themed
  /\ fresh' = (fresh /\ view' = view)
  /\ themed' = {}
  /\ UNCHANGED <<dockVars, pendVars, queueVars, workVars, pipeVars, coreVars, themes, loaded, requeued, faults>>

\* obs_module_unload forgets the pending actions and the cached snapshot; no
\* handler is running then.
Unload ==
  /\ loaded
  /\ Idle
  /\ themed = {}
  /\ loaded' = FALSE
  /\ waiting' = {}
  /\ overdue' = {}
  /\ statusIds' = <<>>
  /\ view' = NoOverrides
  /\ fresh' = FALSE
  /\ UNCHANGED <<dockVars, queueVars, workVars, pipeVars, coreVars, themed, themes, requeued, faults>>

StopClient ==
  /\ ~loaded
  /\ client # "stopped"
  /\ client' = "stopped"
  /\ UNCHANGED <<dockVars, pendVars, queueVars, hello, status, batch, pipeVars, coreVars, viewVars, loaded,
                 requeued, faults>>

-----------------------------------------------------------------------------
\* Client worker: ConnectedSessionLoop.

Connect ==
  /\ core = "listen"
  /\ client = "down"
  /\ core' = "session"
  /\ overrides' = NoOverrides
  /\ client' = "top"
  /\ hello' = FALSE
  /\ status' = FALSE
  /\ cmd' = <<>>
  /\ evt' = <<>>
  /\ fresh' = FALSE
  /\ UNCHANGED <<dockVars, pendVars, queueVars, batch, view, themed, themes, loaded, requeued, faults>>

Send(frame) == InSession /\ cmd' = Append(cmd, frame)

\* The first round sends hello, the second request_status, which also serves
\* a status request queued before it.
Top ==
  /\ client = "top"
  /\ Flushed
  /\ \/ /\ ~hello
        /\ Send([type |-> "hello"])
        /\ hello' = TRUE
        /\ client' = "mode"
        /\ UNCHANGED <<status, wantStatus>>
     \/ /\ hello
        /\ ~status
        /\ Send([type |-> "status"])
        /\ status' = TRUE
        /\ wantStatus' = FALSE
        /\ client' = "mode"
        /\ UNCHANGED hello
     \/ /\ ~InSession
        /\ client' = "down"
        /\ UNCHANGED <<hello, status, wantStatus, cmd>>
  /\ UNCHANGED <<dockVars, pendVars, modeQ, setQ, batch, evt, coreVars, viewVars, loaded, requeued, faults>>

AfterSend == IF client \in {"mode", "send_mode"} THEN "set" ELSE "status"

\* DrainPendingSetModeRequests, then DrainPendingSetSettingRequests.
Drain ==
  /\ Flushed
  /\ \/ client = "mode" /\ batch' = modeQ /\ modeQ' = <<>> /\ UNCHANGED setQ
     \/ client = "set" /\ batch' = setQ /\ setQ' = <<>> /\ UNCHANGED modeQ
  /\ client' = IF batch' = <<>> THEN AfterSend ELSE IF client = "mode" THEN "send_mode" ELSE "send_set"
  /\ UNCHANGED <<dockVars, pendVars, wantStatus, hello, status, pipeVars, coreVars, viewVars, loaded, requeued, faults>>

SendItem ==
  /\ client \in {"send_mode", "send_set"}
  /\ Flushed
  /\ Send([type |-> "set", key |-> Head(batch).key, val |-> Head(batch).val])
  /\ batch' = Tail(batch)
  /\ client' = IF batch' = <<>> THEN AfterSend ELSE client
  /\ UNCHANGED <<dockVars, pendVars, queueVars, hello, status, evt, coreVars, viewVars, loaded, requeued, faults>>

\* What could not be sent goes back in front of what was queued meanwhile.
Requeue ==
  /\ client \in {"send_mode", "send_set"}
  /\ ~InSession
  /\ client' = AfterSend
  /\ batch' = <<>>
  /\ IF client = "send_mode"
       THEN modeQ' = batch \o modeQ /\ UNCHANGED <<setQ, requeued>>
       ELSE setQ' = batch \o setQ /\ requeued' = TRUE /\ UNCHANGED modeQ
  /\ UNCHANGED <<dockVars, pendVars, wantStatus, hello, status, pipeVars, coreVars, viewVars, loaded, faults>>

SendStatus ==
  /\ client = "status"
  /\ Flushed
  /\ IF status /\ wantStatus
       THEN /\ wantStatus' = FALSE
            /\ \/ Send([type |-> "status"]) /\ client' = "read"
               \/ ~InSession /\ client' = "down" /\ UNCHANGED cmd
       ELSE client' = "read" /\ UNCHANGED <<wantStatus, cmd>>
  /\ UNCHANGED <<dockVars, pendVars, modeQ, setQ, hello, status, batch, evt, coreVars, viewVars, loaded, requeued, faults>>

\* The head of the loop has nothing to do once hello and request_status are sent.
NextRound == IF status THEN "mode" ELSE "top"

\* Actions a snapshot completes: the ones whose target it shows at their value.
Shown(snap) == {a \in waiting : snap[ask[a].key] = ask[a].val}

\* EmitDockIpcEnvelopeJson: the dock gets the snapshot, matching actions and
\* one request_status complete.
ReadSnapshot ==
  LET snap == Head(evt)
      answered == IF statusIds = <<>> THEN {} ELSE {Head(statusIds)}
      done == Shown(snap) \cup answered
  IN
  /\ client = "read"
  /\ Flushed
  /\ evt # <<>>
  /\ evt' = Tail(evt)
  /\ client' = NextRound
  /\ view' = snap
  /\ fresh' = TRUE
  /\ waiting' = waiting \ Shown(snap)
  /\ overdue' = overdue \ Shown(snap)
  /\ statusIds' = IF statusIds = <<>> THEN <<>> ELSE Tail(statusIds)
  /\ told' = [a \in Actions |-> IF a \in done THEN Append(told[a], "completed") ELSE told[a]]
  /\ UNCHANGED <<step, ask, order, queueVars, hello, status, batch, cmd, coreVars, themed, themes, loaded, requeued, faults>>

ReadNothing ==
  /\ client = "read"
  /\ Flushed
  /\ \/ evt = <<>> /\ InSession /\ client' = NextRound
     \/ ~InSession /\ client' = "down"
  /\ UNCHANGED <<dockVars, pendVars, queueVars, hello, status, batch, pipeVars, coreVars, viewVars, loaded, requeued, faults>>

-----------------------------------------------------------------------------
\* Core: the session loop of handle_session_io.

\* build_status_snapshot_with_overrides: without an override the mode follows
\* telemetry.
Snapshots(ov) == {[ov EXCEPT !["mode"] = m] : m \in IF ov["mode"] = Unset THEN Values ELSE {ov["mode"]}}

Push(ov) == \E snap \in Snapshots(ov) : evt' = Append(evt, snap)

EndSession == core' = "listen" /\ overrides' = NoOverrides

CoreRead(type) == InSession /\ cmd # <<>> /\ Head(cmd).type = type /\ cmd' = Tail(cmd)

CoreHello ==
  /\ CoreRead("hello")
  /\ IF ClientOpen THEN core' = "shaken" /\ UNCHANGED overrides ELSE EndSession
  /\ UNCHANGED <<dockVars, pendVars, queueVars, workVars, evt, viewVars, loaded, requeued, faults>>

CoreStatus ==
  /\ CoreRead("status")
  /\ IF ClientOpen THEN Push(overrides) /\ UNCHANGED coreVars ELSE EndSession /\ UNCHANGED evt
  /\ UNCHANGED <<dockVars, pendVars, queueVars, workVars, viewVars, loaded, requeued, faults>>

\* The new value is left to the next periodic snapshot.
Bug_CoreSet ==
  /\ CoreRead("set")
  /\ overrides' = [overrides EXCEPT ![Head(cmd).key] = Head(cmd).val]
  /\ UNCHANGED <<dockVars, pendVars, queueVars, workVars, evt, core, viewVars, loaded, requeued, faults>>

\* set_mode_request and set_setting_request: an unchanged value is ignored, a
\* new one is applied and shown at once.
CoreSet ==
  LET item == Head(cmd)
      new == [overrides EXCEPT ![item.key] = item.val]
  IN
  /\ CoreRead("set")
  /\ \/ new = overrides /\ UNCHANGED <<coreVars, evt>>
     \/ new # overrides /\ ClientOpen /\ overrides' = new /\ Push(new) /\ UNCHANGED core
     \/ new # overrides /\ ~ClientOpen /\ EndSession /\ UNCHANGED evt
  /\ UNCHANGED <<dockVars, pendVars, queueVars, workVars, viewVars, loaded, requeued, faults>>

\* Without an override there is nothing to push.
Bug_CorePush ==
  /\ core = "shaken"
  /\ overrides # NoOverrides
  /\ \/ ClientOpen /\ Len(evt) < EvtBound /\ Push(overrides) /\ UNCHANGED coreVars
     \/ ~ClientOpen /\ EndSession /\ UNCHANGED evt
  /\ UNCHANGED <<dockVars, pendVars, queueVars, workVars, cmd, viewVars, loaded, requeued, faults>>

\* STATUS_PUSH_INTERVAL has passed.
CorePush ==
  /\ core = "shaken"
  /\ \/ ClientOpen /\ Len(evt) < EvtBound /\ Push(overrides) /\ UNCHANGED coreVars
     \/ ~ClientOpen /\ EndSession /\ UNCHANGED evt
  /\ UNCHANGED <<dockVars, pendVars, queueVars, workVars, cmd, viewVars, loaded, requeued, faults>>

CoreEof ==
  /\ InSession
  /\ ~ClientOpen
  /\ cmd = <<>>
  /\ EndSession
  /\ UNCHANGED <<dockVars, pendVars, queueVars, workVars, pipeVars, viewVars, loaded, requeued, faults>>

\* Heartbeat timeout, protocol reset or process death.
SessionLost ==
  /\ InSession
  /\ faults < MaxFaults
  /\ faults' = faults + 1
  /\ EndSession
  /\ UNCHANGED <<dockVars, pendVars, queueVars, workVars, pipeVars, viewVars, loaded, requeued>>

-----------------------------------------------------------------------------
Submit(a) == (\E req \in Ask : req.key \in Asked /\ Track(a, req)) \/ Enqueue(a) \/ Answer(a)

ClientStep == Connect \/ Top \/ Drain \/ SendItem \/ Requeue \/ SendStatus \/ ReadSnapshot \/ ReadNothing

CoreReads == CoreHello \/ CoreStatus \/ CoreSet \/ CoreEof

Next ==
  \/ \E a \in Actions : Submit(a) \/ Reject(a) \/ ActionOverdue(a)
  \/ DrainExpired
  \/ ThemeRead
  \/ ThemeEmit
  \/ Unload
  \/ StopClient
  \/ ClientStep
  \/ CoreReads
  \/ CorePush
  \/ SessionLost

Spec == Init /\ [][Next]_vars

\* Worker, session task and OBS tick run, and time passes.
FairSpec ==
  /\ Spec
  /\ WF_vars(ClientStep)
  /\ WF_vars(CoreReads)
  /\ WF_vars(CorePush)
  /\ WF_vars(DrainExpired)
  /\ \A a \in Actions : WF_vars(ActionOverdue(a))

-----------------------------------------------------------------------------
(***************************************************************************)
(* Properties                                                              *)
(***************************************************************************)

Terminal == {"completed", "failed", "rejected"}

\* The dock is told one end of an action at most, although a snapshot on the
\* worker thread and the timeout on the OBS thread compete for it.
OneTerminalResult ==
  \A a \in Actions : Cardinality({i \in DOMAIN told[a] : told[a][i] \in Terminal}) <= 1

\* The last queued request for a target.
Newest(a) ==
  \E i \in DOMAIN order :
    order[i] = a /\ \A j \in DOMAIN order : j > i => ask[order[j]].key # ask[a].key

\* Nothing is on its way to the core.
Drained ==
  /\ modeQ = <<>> /\ setQ = <<>> /\ batch = <<>> /\ cmd = <<>>
  /\ \A a \in Actions : step[a] # "queue"

\* With nothing on its way, an override the core holds is the newest one asked for.
NewestHolds(a) ==
  Newest(a) /\ InSession /\ Drained /\ overrides[ask[a].key] # Unset => overrides[ask[a].key] = ask[a].val

\* The mode is exact whatever fails and is sent again; a setting while no send of
\* a setting has failed.
LatestHolds ==
  \A a \in Actions :
    ask[a].key = "mode" \/ (ask[a].key \in Settings /\ ~requeued) => NewestHolds(a)

\* When the dock shows the last snapshot this session sent, it shows every
\* override the core holds: each change is followed by a snapshot of its own.
ViewIsCurrent ==
  InSession /\ fresh /\ evt = <<>> /\ ClientOpen =>
    \A t \in Targets : overrides[t] # Unset => view[t] = overrides[t]

\* Every accepted action ends, by a snapshot or by its timeout, unless the
\* plugin is unloaded first.
ActionsSettle ==
  []<>(~loaded \/ \A a \in Actions : step[a] = "done" => \E i \in DOMAIN told[a] : told[a][i] \in Terminal)

\* An older snapshot that a theme refresh of the OBS thread put over a newer one
\* does not stay: the periodic push replaces it.
ViewRepaired == []<>(fresh \/ ~loaded)

-----------------------------------------------------------------------------
\* A statement of the repository's documents that the code does not keep.

\* docs/QA_CHECKLIST_OBS_CEF_DOCK_ACTION_LOOP.md: "terminal `completed` on state
\* convergence": a completed setting that nobody changed since is what the core holds.
CompletedSettingHolds ==
  \A a \in Actions :
    ask[a].key \in Settings /\ (\E i \in DOMAIN told[a] : told[a][i] = "completed") => NewestHolds(a)
=============================================================================
