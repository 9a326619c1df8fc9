----------------------------- MODULE Telemetry -----------------------------
(***************************************************************************)
(* The core's run loop: the metrics task that asks OBS every 500 ms, the   *)
(* watch channel that holds its latest frame, the dashboard sockets and    *)
(* the Grafana exporter that read it, and the ways the process ends.       *)
(*                                                                         *)
(* OBS comes, goes and hangs on its own account.  A launch of OBS has a    *)
(* number; a connection is good for the launch it was made to.  Calls to   *)
(* OBS have no timeout, so a hung OBS stops the metrics task where it is.  *)
(***************************************************************************)
EXTENDS Naturals, FiniteSets

CONSTANTS
  Sockets,      \* dashboard connections
  AutoDetect,   \* config.obs.auto_detect_process
  Setups,       \* what the configuration is worth: OBS password and Grafana endpoint good or
                \* not, OBS a process of this machine under obs.process_name or not
  MaxLaunches,  \* launches of OBS
  MaxFaults     \* errors OBS answers although it is up

Setup == [password: BOOLEAN, grafana: {"off", "good", "bad"}, local: BOOLEAN]
ASSUME TelemetryAssumption == Setups \subseteq Setup /\ AutoDetect \in BOOLEAN /\ MaxLaunches \in Nat /\ MaxFaults \in Nat

VARIABLES
  obs, launch,           \* OBS: up, down or hung; number of the last launch
  setup,
  hub,                   \* metrics task: program point
  client, running, due,  \* MetricsHub: connection, obs_process_running, process check due
  draft, frame,          \* what the frame being collected, and the one in the watch channel, say of connected
  lost,                  \* the connection was dead when this collect began (history)
  conn, shown,           \* sockets, and whether the frame each was last sent says connected
  exporter, backoff, exported,
  app, tray, unseen,     \* run(): program point, tray thread, a shutdown not yet noticed
  faults

obsVars == <<obs, launch, setup>>
hubVars == <<hub, client, running, due, draft, lost>>
sockVars == <<conn, shown>>
expVars == <<exporter, backoff, exported>>
appVars == <<app, tray, unseen>>
vars == <<obsVars, hubVars, frame, sockVars, expVars, appVars, faults>>

NoLaunch == 0

\* The process is there: its threads and tasks go on.
Up == app # "exit"

-----------------------------------------------------------------------------
\* OBS.

ObsLaunch ==
  /\ obs = "down"
  /\ launch < MaxLaunches
  /\ obs' = "up"
  /\ launch' = launch + 1
  /\ UNCHANGED <<setup, hubVars, frame, sockVars, expVars, appVars, faults>>

ObsChange(from, to) ==
  /\ obs = from
  /\ obs' = to
  /\ UNCHANGED <<launch, setup, hubVars, frame, sockVars, expVars, appVars, faults>>

ObsStep == Up /\ (ObsLaunch \/ ObsChange("up", "down") \/ ObsChange("hung", "down") \/ ObsChange("up", "hung") \/ ObsChange("hung", "up"))

-----------------------------------------------------------------------------
\* The metrics task: collect() of metrics/mod.rs, one step per call to OBS.

Hub(from, to) == Up /\ hub = from /\ hub' = to

\* A call on the connection returns, well or badly; on a hung OBS it does neither.
Answers == obs = "up" /\ client = launch
Fails ==
  \/ (obs = "down" \/ client # launch) /\ UNCHANGED faults
  \/ obs = "up" /\ client = launch /\ faults < MaxFaults /\ faults' = faults + 1

\* A collect starts from an empty frame and asks for everything anew.
Tick ==
  /\ Hub("tick", "detect")
  /\ draft' = FALSE
  /\ lost' = (client # NoLaunch /\ (obs = "down" \/ client # launch))
  /\ UNCHANGED <<obsVars, client, running, due, frame, sockVars, expVars, appVars, faults>>

\* Two seconds have passed since the last look at the process list.
CheckDue ==
  /\ Up
  /\ ~due
  /\ due' = TRUE
  /\ UNCHANGED <<obsVars, hub, client, running, draft, lost, frame, sockVars, expVars, appVars, faults>>

\* Whether the list of this machine's processes has the configured name: it tells of
\* OBS only if OBS runs here under that name.
Listed == IF setup.local THEN {obs # "down"} ELSE BOOLEAN

\* The process list is looked at only while OBS is thought to run.
Bug_RefreshObsProcess ==
  IF AutoDetect /\ due /\ running
    THEN running' \in Listed /\ due' = FALSE
    ELSE UNCHANGED <<running, due>>

RefreshObsProcess ==
  IF AutoDetect /\ due
    THEN running' \in Listed /\ due' = FALSE
    ELSE UNCHANGED <<running, due>>

\* A connection kept from the last collect counts as connected.
Bug_Detect ==
  /\ Up
  /\ hub = "detect"
  /\ RefreshObsProcess
  /\ hub' = IF client # NoLaunch THEN "list" ELSE IF running' THEN "connect" ELSE "publish"
  /\ draft' = (client # NoLaunch)
  /\ UNCHANGED <<obsVars, client, lost, frame, sockVars, expVars, appVars, faults>>

Detect ==
  /\ Up
  /\ hub = "detect"
  /\ RefreshObsProcess
  /\ hub' = IF client # NoLaunch THEN "list" ELSE IF running' THEN "connect" ELSE "publish"
  /\ UNCHANGED <<obsVars, client, draft, lost, frame, sockVars, expVars, appVars, faults>>

\* try_connect_obs: a failure is slept on, and the frame goes out without OBS.
TryConnect ==
  /\ \/ /\ Hub("connect", "list")
        /\ obs = "up"
        /\ setup.password
        /\ client' = launch
     \/ /\ Hub("connect", "nap")
        /\ obs = "down" \/ (obs = "up" /\ ~setup.password)
        /\ UNCHANGED client
  /\ UNCHANGED <<obsVars, running, due, draft, lost, frame, sockVars, expVars, appVars, faults>>

Nap ==
  /\ Hub("nap", "publish")
  /\ UNCHANGED <<obsVars, client, running, due, draft, lost, frame, sockVars, expVars, appVars, faults>>

\* outputs().list() and the status of each output.
ListOutputs ==
  /\ \/ /\ Hub("list", "status")
        /\ Answers
        /\ UNCHANGED <<client, faults>>
     \/ /\ Hub("list", "publish")
        /\ Fails
        /\ client' = NoLaunch
  /\ UNCHANGED <<obsVars, running, due, draft, lost, frame, sockVars, expVars, appVars>>

\* streaming().status(): only its success makes the frame a connected one.
StreamingStatus ==
  /\ \/ /\ Hub("status", "stats")
        /\ Answers
        /\ draft' = TRUE
        /\ UNCHANGED <<client, faults>>
     \/ /\ Hub("status", "publish")
        /\ Fails
        /\ client' = NoLaunch
        /\ UNCHANGED draft
  /\ UNCHANGED <<obsVars, running, due, lost, frame, sockVars, expVars, appVars>>

\* Statistics, recording and studio mode: whatever comes back is good enough.
Stats ==
  /\ Hub("stats", "publish")
  /\ obs # "hung" \/ client # launch
  /\ UNCHANGED <<obsVars, client, running, due, draft, lost, frame, sockVars, expVars, appVars, faults>>

\* A frame without OBS is not sent.
Bug_Publish ==
  /\ Hub("publish", "tick")
  /\ IF draft THEN frame' = draft ELSE UNCHANGED frame
  /\ UNCHANGED <<obsVars, client, running, due, draft, lost, sockVars, expVars, appVars, faults>>

\* The machine's own figures are read and the frame replaces the last one.
Publish ==
  /\ Hub("publish", "tick")
  /\ frame' = draft
  /\ UNCHANGED <<obsVars, client, running, due, draft, lost, sockVars, expVars, appVars, faults>>

HubStep == Tick \/ Detect \/ TryConnect \/ Nap \/ ListOutputs \/ StreamingStatus \/ Stats \/ Publish

-----------------------------------------------------------------------------
\* Readers of the channel.

SocketOpen(c) ==
  /\ app = "serving"
  /\ conn[c] = "none"
  /\ conn' = [conn EXCEPT ![c] = "open"]
  /\ UNCHANGED <<obsVars, hubVars, frame, shown, expVars, appVars, faults>>

\* handle_socket sends the channel's frame every 500 ms, new or not.
SocketSend(c) ==
  /\ Up
  /\ conn[c] = "open"
  /\ shown' = [shown EXCEPT ![c] = frame]
  /\ UNCHANGED <<obsVars, hubVars, frame, conn, expVars, appVars, faults>>

\* The browser closes the socket, or a send fails.
SocketClose(c) ==
  /\ Up
  /\ conn[c] = "open"
  /\ conn' = [conn EXCEPT ![c] = "closed"]
  /\ UNCHANGED <<obsVars, hubVars, frame, shown, expVars, appVars, faults>>

NextBackoff == IF backoff * 2 > 30000 THEN 30000 ELSE backoff * 2

ExporterNew ==
  /\ Up
  /\ exporter = "init"
  /\ exporter' = IF setup.grafana = "good" THEN "run" ELSE "wait"
  /\ UNCHANGED <<obsVars, hubVars, frame, sockVars, backoff, exported, appVars, faults>>

ExporterRetry ==
  /\ Up
  /\ exporter = "wait"
  /\ exporter' = "init"
  /\ backoff' = NextBackoff
  /\ UNCHANGED <<obsVars, hubVars, frame, sockVars, exported, appVars, faults>>

\* record() of the frame in the channel, every push interval.
ExporterRecord ==
  /\ Up
  /\ exporter = "run"
  /\ exported' = frame
  /\ UNCHANGED <<obsVars, hubVars, frame, sockVars, exporter, backoff, appVars, faults>>

-----------------------------------------------------------------------------
\* run() of app/mod.rs from the first task it spawns to its return.

\* The metrics task and, if Grafana is enabled, the exporter's.
SpawnTasks ==
  /\ app = "boot"
  /\ app' = "tray"
  /\ hub' = "tick"
  /\ exporter' = IF setup.grafana = "off" THEN "off" ELSE "init"
  /\ UNCHANGED <<obsVars, client, running, due, draft, lost, frame, sockVars, backoff, exported, tray, unseen, faults>>

\* Both receivers of the shutdown channel exist before the tray's thread does.
SpawnTray ==
  /\ app = "tray"
  /\ app' = "select"
  /\ tray' = "starting"
  /\ UNCHANGED <<obsVars, hubVars, frame, sockVars, expVars, unseen, faults>>

TrayStarts(ok) ==
  /\ Up
  /\ tray = "starting"
  /\ tray' = IF ok THEN "menu" ELSE "done"
  /\ UNCHANGED <<obsVars, hubVars, frame, sockVars, expVars, app, unseen, faults>>

\* The Quit item sets the flag the tray's loop polls and sends on the channel.
TrayQuit ==
  /\ Up
  /\ tray = "menu"
  /\ tray' = "quit"
  /\ unseen' = TRUE
  /\ UNCHANGED <<obsVars, hubVars, frame, sockVars, expVars, app, faults>>

TrayEnds ==
  /\ Up
  /\ tray = "quit"
  /\ tray' = "done"
  /\ UNCHANGED <<obsVars, hubVars, frame, sockVars, expVars, app, unseen, faults>>

\* server::start binds the port, or fails and ends the process with it.
Bind ==
  /\ app = "select"
  /\ app' \in {"serving", "exit"}
  /\ UNCHANGED <<obsVars, hubVars, frame, sockVars, expVars, tray, unseen, faults>>

\* The server notices the shutdown: no new connections, the open ones go on.
Drain ==
  /\ app = "serving"
  /\ unseen
  /\ app' = "draining"
  /\ UNCHANGED <<obsVars, hubVars, frame, sockVars, expVars, tray, unseen, faults>>

\* run() waits for the server to finish, that is for its open connections.
Bug_Leave ==
  /\ app = "draining"
  /\ \A c \in Sockets : conn[c] # "open"
  /\ app' = "exit"
  /\ UNCHANGED <<obsVars, hubVars, frame, sockVars, expVars, tray, unseen, faults>>

\* run()'s own receiver ends it, and with it the runtime and every task.
Leave ==
  /\ unseen
  /\ app \in {"serving", "draining"}
  /\ app' = "exit"
  /\ UNCHANGED <<obsVars, hubVars, frame, sockVars, expVars, tray, unseen, faults>>

CtrlC ==
  /\ app \in {"serving", "draining"}
  /\ app' = "exit"
  /\ UNCHANGED <<obsVars, hubVars, frame, sockVars, expVars, tray, unseen, faults>>

-----------------------------------------------------------------------------
Init ==
  /\ obs \in {"up", "down"}
  /\ launch = IF obs = "up" THEN 1 ELSE NoLaunch
  /\ setup \in Setups
  /\ hub = "off"
  /\ client = NoLaunch
  /\ running = TRUE
  /\ due = TRUE
  /\ draft = FALSE
  /\ frame = FALSE
  /\ lost = FALSE
  /\ conn = [c \in Sockets |-> "none"]
  /\ shown = [c \in Sockets |-> FALSE]
  /\ exporter = "off"
  /\ backoff = 1000
  /\ exported = FALSE
  /\ app = "boot"
  /\ tray = "none"
  /\ unseen = FALSE
  /\ faults = 0

Next ==
  \/ ObsStep
  \/ CheckDue
  \/ HubStep
  \/ \E c \in Sockets : SocketOpen(c) \/ SocketSend(c) \/ SocketClose(c)
  \/ ExporterNew \/ ExporterRetry \/ ExporterRecord
  \/ SpawnTasks \/ SpawnTray \/ (\E ok \in BOOLEAN : TrayStarts(ok))
  \/ TrayQuit \/ TrayEnds
  \/ Bind \/ Drain \/ Leave \/ CtrlC

Spec == Init /\ [][Next]_vars

(***************************************************************************)
(* Tasks and timers of a running process go on; what OBS, the browser and  *)
(* the user do is up to them.                                              *)
(***************************************************************************)
FairSpec ==
  /\ Spec
  /\ WF_vars(CheckDue)
  /\ WF_vars(HubStep)
  /\ \A c \in Sockets : WF_vars(SocketSend(c))
  /\ WF_vars(ExporterNew \/ ExporterRetry)
  /\ WF_vars(ExporterRecord)
  /\ WF_vars(SpawnTray \/ Bind \/ Leave)

-----------------------------------------------------------------------------
(***************************************************************************)
(* Properties                                                              *)
(***************************************************************************)

\* A frame that says connected is about an OBS that was alive while the frame
\* was being collected, although the connection is kept from frame to frame and
\* OBS may have been closed, or closed and reopened, in between.
ConnectedIsFirsthand == hub = "publish" /\ draft => ~lost

\* When OBS goes away for good the dashboard says so.
OutageShown ==
  \A c \in Sockets :
    <>[](obs = "down" /\ conn[c] = "open" /\ Up) => <>[](~shown[c])

\* When OBS stays up, takes the password and is where the process list shows it (or
\* nobody looks), the exporter gets connected frames, however long OBS was away, hung
\* or not found in the process list before.
RecoveryShown ==
  <>[](obs = "up" /\ setup.password /\ (setup.local \/ ~AutoDetect) /\ Up /\ exporter = "run") => <>[](frame /\ exported)

\* Quit in the tray ends the process whenever it is chosen: before the server
\* is up, while it starts, and with dashboards connected.
QuitEnds == tray = "quit" ~> app = "exit"
=============================================================================
