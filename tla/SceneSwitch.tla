---------------------------- MODULE SceneSwitch ----------------------------
(***************************************************************************)
(* A scene switch from POST /ipc/switch-scene to OBS and back: the command *)
(* bus of the core, its IPC session loop, the two named pipes, the worker  *)
(* thread of the plugin's IPC client and the OBS tick that applies scenes. *)
(*                                                                         *)
(* Four processes interleave: HTTP handlers, the core's session task, the  *)
(* client worker and the OBS thread.  Frames that carry no switch (status, *)
(* ping, pong, notices, settings) change nothing here and are left out.    *)
(* One pair of pipes is enough: a client connects only after it closed its *)
(* old handles and while the core listens, so a new session finds no other *)
(* open.  The evt pipe is taken to hold what one drain of the bus writes.  *)
(***************************************************************************)
EXTENDS Naturals, Sequences, FiniteSets

CONSTANTS
  Posts,       \* switch commands posted over HTTP, named by the request id they get
  DockActions, \* switch_scene actions of the dock, by request id
  BusCap,      \* capacity of the broadcast channel
  MaxFaults    \* crashes, missed heartbeats and cut frames a behaviour may have

ASSUME NamesAssumption == Posts \cap DockActions = {}
ASSUME BoundsAssumption == BusCap \in Nat \ {0} /\ MaxFaults \in Nat

VARIABLES
  reply, posted,            \* HTTP: the answer of each post, and the accepted ones in order
  bus, lagged,              \* the session's receiver: unread commands, and whether it overran
  core, shake, garbled,     \* core session: program point, handshake_complete, stream out of step
  pending, due,             \* pending_switches, and those of them past their deadline
  evt, cmd,                 \* the pipes: core to plugin, plugin to core
  client, results, batch,   \* client worker: program point, pending_scene_results_, drained part
  notice,                   \* an obs_shutdown_notice is queued
  queue, ticking, loaded,   \* plugin: g_pending_switch_requests, drained part, module loaded
  recent,                   \* dock actions seen by the duplicate filter
  applied,                  \* OBS: switches made, in order (history)
  outcome,                  \* fate of a post, as the debug status and the log tell it (history)
  faults

httpVars == <<reply, posted>>
busVars == <<bus, lagged>>
tableVars == <<pending, due>>
coreVars == <<core, shake, garbled>>
pipeVars == <<evt, cmd>>
clientVars == <<client, results, batch, notice>>
obsVars == <<queue, ticking, loaded, recent, applied>>
vars == <<httpVars, busVars, coreVars, tableVars, pipeVars, clientVars, obsVars, outcome, faults>>

Ids == Posts \cup DockActions
Result == [id: Ids, ok: BOOLEAN]
Frame == [type: {"hello", "bye"}] \cup [type: {"result"}, id: Ids, ok: BOOLEAN]

InSession == core # "listen"
ClientOpen == client \notin {"down", "stopped"}

\* WriteFrame ends in FlushFileBuffers: the worker goes on once the core has
\* read the frame or closed its end.
Flushed == cmd = <<>> \/ ~InSession

Elems(s) == {s[i] : i \in DOMAIN s}

Init ==
  /\ reply = [w \in Posts |-> "none"]
  /\ posted = <<>>
  /\ bus = <<>>
  /\ lagged = FALSE
  /\ core = "listen"
  /\ shake = FALSE
  /\ garbled = FALSE
  /\ pending = {}
  /\ due = {}
  /\ evt = <<>>
  /\ cmd = <<>>
  /\ client = "down"
  /\ results = <<>>
  /\ batch = <<>>
  /\ notice = FALSE
  /\ queue = <<>>
  /\ ticking = <<>>
  /\ loaded = TRUE
  /\ recent = {}
  /\ applied = <<>>
  /\ outcome = [w \in Posts |-> "none"]
  /\ faults = 0

Fault == faults < MaxFaults /\ faults' = faults + 1

-----------------------------------------------------------------------------
\* HTTP: post_ipc_switch_scene.

\* The channel has a receiver only while a session runs; without one send fails
\* and the answer is 503.  A full channel forgets its oldest command.
PostSwitch(w) ==
  /\ reply[w] = "none"
  /\ \/ /\ InSession
        /\ reply' = [reply EXCEPT ![w] = "queued"]
        /\ posted' = Append(posted, w)
        /\ IF Len(bus) < BusCap
             THEN bus' = Append(bus, w) /\ UNCHANGED <<lagged, outcome>>
             ELSE /\ bus' = Append(Tail(bus), w)
                  /\ lagged' = TRUE
                  /\ outcome' = [outcome EXCEPT ![Head(bus)] = "discarded"]
     \/ /\ ~InSession
        /\ reply' = [reply EXCEPT ![w] = "unavailable"]
        /\ UNCHANGED <<posted, busVars, outcome>>
  /\ UNCHANGED <<coreVars, tableVars, pipeVars, clientVars, obsVars, faults>>

-----------------------------------------------------------------------------
\* Core: run_named_pipe_server and handle_session_io.

\* Both pipes connect and the session subscribes to the bus, which has nothing for it yet.
Connect ==
  /\ core = "listen"
  /\ client = "down"
  /\ core' = "drain"
  /\ client' = "hello"
  /\ evt' = <<>>
  /\ cmd' = <<>>
  /\ UNCHANGED <<httpVars, busVars, shake, garbled, tableVars, results, batch, notice, obsVars,
                 outcome, faults>>

\* The session's pending switches and unread commands go with it, unreported.
Forget(w) ==
  CASE w \in pending -> "dropped"
    [] w \in Elems(bus) -> "discarded"
    [] OTHER -> outcome[w]

EndSession ==
  /\ core' = "listen"
  /\ shake' = FALSE
  /\ garbled' = FALSE
  /\ bus' = <<>>
  /\ lagged' = FALSE
  /\ pending' = {}
  /\ due' = {}
  /\ outcome' = [w \in Posts |-> Forget(w)]

\* try_recv reports the overrun once, which ends this round's drain.
CoreLagged ==
  /\ core = "drain"
  /\ lagged
  /\ lagged' = FALSE
  /\ core' = "expire"
  /\ UNCHANGED <<httpVars, bus, shake, garbled, tableVars, pipeVars, clientVars, obsVars, outcome, faults>>

\* Commands that arrive before the handshake are dropped.
CoreDropEarly ==
  /\ core = "drain"
  /\ ~lagged
  /\ bus # <<>>
  /\ ~shake
  /\ bus' = Tail(bus)
  /\ outcome' = [outcome EXCEPT ![Head(bus)] = "discarded"]
  /\ UNCHANGED <<httpVars, lagged, coreVars, tableVars, pipeVars, clientVars, obsVars, faults>>

\* The frame is written, then the switch is entered in pending_switches.
CoreEmit ==
  LET w == Head(bus) IN
  /\ core = "drain"
  /\ ~lagged
  /\ bus # <<>>
  /\ shake
  /\ ClientOpen
  /\ bus' = Tail(bus)
  /\ evt' = Append(evt, w)
  /\ pending' = pending \cup {w}
  /\ outcome' = [outcome EXCEPT ![w] = "pending"]
  /\ UNCHANGED <<httpVars, lagged, coreVars, due, cmd, clientVars, obsVars, faults>>

\* The write fails because the plugin closed its end; the error ends the session.
CoreEmitFails ==
  /\ core = "drain"
  /\ ~lagged
  /\ bus # <<>>
  /\ shake
  /\ ~ClientOpen
  /\ EndSession
  /\ UNCHANGED <<httpVars, pipeVars, clientVars, obsVars, faults>>

CoreDrainDone ==
  /\ core = "drain"
  /\ ~lagged
  /\ bus = <<>>
  /\ core' = "expire"
  /\ UNCHANGED <<httpVars, busVars, shake, garbled, tableVars, pipeVars, clientVars, obsVars, outcome, faults>>

\* The deadline of a pending switch passes.
DeadlinePasses(w) ==
  /\ w \in pending \ due
  /\ due' = due \cup {w}
  /\ UNCHANGED <<httpVars, busVars, coreVars, pending, pipeVars, clientVars, obsVars, outcome, faults>>

\* The timeout is reported and the switch stays in the table.
Bug_CoreExpire ==
  /\ core = "expire"
  /\ core' = "read"
  /\ due' = {}
  /\ outcome' = [w \in Posts |-> IF w \in due THEN "timeout" ELSE outcome[w]]
  /\ UNCHANGED <<httpVars, busVars, shake, garbled, pending, pipeVars, clientVars, obsVars, faults>>

\* Every switch past its deadline leaves the table and is reported.  Failed
\* notices are ignored.
CoreExpire ==
  /\ core = "expire"
  /\ core' = "read"
  /\ pending' = pending \ due
  /\ due' = {}
  /\ outcome' = [w \in Posts |-> IF w \in due THEN "timeout" ELSE outcome[w]]
  /\ UNCHANGED <<httpVars, busVars, shake, garbled, pipeVars, clientVars, obsVars, faults>>

\* The periodic status push fails on the closed pipe, whatever is still unread.
CorePushFails ==
  /\ core = "read"
  /\ shake
  /\ ~ClientOpen
  /\ EndSession
  /\ UNCHANGED <<httpVars, pipeVars, clientVars, obsVars, faults>>

\* HEARTBEAT_TIMEOUT without a ping.
HeartbeatTimeout ==
  /\ core = "read"
  /\ shake
  /\ Fault
  /\ EndSession
  /\ UNCHANGED <<httpVars, pipeVars, clientVars, obsVars>>

\* The read waits for a frame.
Bug_CoreReadTimeout ==
  /\ core = "read"
  /\ cmd # <<>>
  /\ garbled
  /\ core' = "drain"
  /\ UNCHANGED <<httpVars, busVars, shake, garbled, tableVars, pipeVars, clientVars, obsVars, outcome, faults>>

\* READ_POLL_TIMEOUT without a frame.
CoreReadTimeout ==
  /\ core = "read"
  /\ cmd = <<>>
  /\ ClientOpen
  /\ core' = "drain"
  /\ UNCHANGED <<httpVars, busVars, shake, garbled, tableVars, pipeVars, clientVars, obsVars, outcome, faults>>

\* The plugin closed its end and everything it wrote is read.
CoreReadEof ==
  /\ core = "read"
  /\ cmd = <<>>
  /\ ~ClientOpen
  /\ EndSession
  /\ UNCHANGED <<httpVars, pipeVars, clientVars, obsVars, faults>>

\* hello_ack fails to be written if the plugin is gone already.
CoreReadHello ==
  /\ core = "read"
  /\ ~garbled
  /\ cmd # <<>>
  /\ Head(cmd).type = "hello"
  /\ cmd' = Tail(cmd)
  /\ IF ClientOpen
       THEN core' = "drain" /\ shake' = TRUE /\ UNCHANGED <<busVars, garbled, pending, due, outcome>>
       ELSE EndSession
  /\ UNCHANGED <<httpVars, evt, clientVars, obsVars, faults>>

\* scene_switch_result: only a switch that is still pending takes the result.
CoreReadResult ==
  LET res == Head(cmd) IN
  /\ core = "read"
  /\ ~garbled
  /\ cmd # <<>>
  /\ res.type = "result"
  /\ cmd' = Tail(cmd)
  /\ core' = "drain"
  /\ IF res.id \in pending
       THEN /\ pending' = pending \ {res.id}
            /\ due' = due \ {res.id}
            /\ outcome' = [outcome EXCEPT ![res.id] = IF res.ok THEN "ok" ELSE "error"]
       ELSE UNCHANGED <<pending, due, outcome>>
  /\ UNCHANGED <<httpVars, busVars, shake, garbled, evt, clientVars, obsVars, faults>>

\* obs_shutdown_notice ends the session.
CoreReadBye ==
  /\ core = "read"
  /\ ~garbled
  /\ cmd # <<>>
  /\ Head(cmd).type = "bye"
  /\ cmd' = Tail(cmd)
  /\ EndSession
  /\ UNCHANGED <<httpVars, evt, clientVars, obsVars, faults>>

\* The poll timeout fires after the length of a frame was read and before its
\* body: read_frame is dropped, and the body is later taken for lengths.
CoreReadCut ==
  /\ core = "read"
  /\ cmd # <<>>
  /\ ~garbled
  /\ Fault
  /\ garbled' = TRUE
  /\ core' = "drain"
  /\ UNCHANGED <<httpVars, busVars, shake, tableVars, pipeVars, clientVars, obsVars, outcome>>

\* Out of step, the stream yields protocol errors, until there are too many of
\* them or the heartbeat is missed.
CoreReadGarbled ==
  /\ core = "read"
  /\ garbled
  /\ \/ /\ cmd # <<>>
        /\ cmd' = Tail(cmd)
        /\ core' = "drain"
        /\ UNCHANGED <<busVars, shake, garbled, pending, due, outcome>>
     \/ EndSession /\ UNCHANGED cmd
  /\ UNCHANGED <<httpVars, evt, clientVars, obsVars, faults>>

\* The core process dies and is started again.
CoreCrash ==
  /\ InSession
  /\ Fault
  /\ EndSession
  /\ UNCHANGED <<httpVars, pipeVars, clientVars, obsVars>>

-----------------------------------------------------------------------------
\* Plugin, client worker: WorkerLoop and ConnectedSessionLoop.

\* A send succeeds while the core holds its end open.
Send(frame) == InSession /\ cmd' = Append(cmd, frame)

ClientHello ==
  /\ client = "hello"
  /\ \/ Send([type |-> "hello"]) /\ client' = "drain"
     \/ ~InSession /\ client' = "down" /\ UNCHANGED cmd
  /\ UNCHANGED <<httpVars, busVars, coreVars, tableVars, evt, results, batch, notice, obsVars, outcome, faults>>

\* DrainPendingSceneSwitchResults takes the whole queue under its lock.
ClientDrain ==
  /\ client = "drain"
  /\ Flushed
  /\ batch' = results
  /\ results' = <<>>
  /\ client' = "send"
  /\ UNCHANGED <<httpVars, busVars, coreVars, tableVars, pipeVars, notice, obsVars, outcome, faults>>

\* One result is sent, or all that are left go back to the front of the queue.
ClientSendResult ==
  /\ client = "send"
  /\ Flushed
  /\ batch # <<>>
  /\ \/ /\ Send([type |-> "result", id |-> Head(batch).id, ok |-> Head(batch).ok])
        /\ batch' = Tail(batch)
        /\ UNCHANGED <<client, results>>
     \/ /\ ~InSession
        /\ results' = batch \o results
        /\ batch' = <<>>
        /\ client' = "read"
        /\ UNCHANGED cmd
  /\ UNCHANGED <<httpVars, busVars, coreVars, tableVars, evt, notice, obsVars, outcome, faults>>

\* DrainPendingShutdownNotices; a notice that cannot be sent stays queued.
ClientSendNotice ==
  /\ client = "send"
  /\ Flushed
  /\ batch = <<>>
  /\ client' = "read"
  /\ IF notice /\ InSession THEN notice' = FALSE /\ Send([type |-> "bye"])
                            ELSE UNCHANGED <<notice, cmd>>
  /\ UNCHANGED <<httpVars, busVars, coreVars, tableVars, evt, results, batch, obsVars, outcome, faults>>

\* The switch is acknowledged when it arrives.
Bug_ClientReadSwitch ==
  /\ client = "read"
  /\ Flushed
  /\ evt # <<>>
  /\ evt' = Tail(evt)
  /\ queue' = Append(queue, Head(evt))
  /\ results' = Append(results, [id |-> Head(evt), ok |-> TRUE])
  /\ client' = "drain"
  /\ UNCHANGED <<httpVars, busVars, coreVars, tableVars, cmd, batch, notice, ticking, loaded,
                 recent, applied, outcome, faults>>

\* HandleIncomingFrame hands a switch to EnqueueSwitchSceneRequest.
ClientReadSwitch ==
  /\ client = "read"
  /\ Flushed
  /\ evt # <<>>
  /\ evt' = Tail(evt)
  /\ queue' = Append(queue, Head(evt))
  /\ client' = "drain"
  /\ UNCHANGED <<httpVars, busVars, coreVars, tableVars, cmd, results, batch, notice, ticking, loaded,
                 recent, applied, outcome, faults>>

ClientReadTimeout ==
  /\ client = "read"
  /\ Flushed
  /\ evt = <<>>
  /\ InSession
  /\ client' = "drain"
  /\ UNCHANGED <<httpVars, busVars, coreVars, tableVars, pipeVars, results, batch, notice, obsVars, outcome, faults>>

\* The core closed its end; events not read yet may be lost.
ClientDisconnected ==
  /\ client = "read"
  /\ ~InSession
  /\ client' = "down"
  /\ UNCHANGED <<httpVars, busVars, coreVars, tableVars, pipeVars, results, batch, notice, obsVars, outcome, faults>>

-----------------------------------------------------------------------------
\* Plugin, OBS side: tick, dock actions, unload.

\* aegis_obs_shim_receive_dock_action_json with type switch_scene; a duplicate
\* is swallowed.
DockSwitch(d) ==
  /\ loaded
  /\ d \notin recent
  /\ recent' = recent \cup {d}
  /\ queue' = Append(queue, d)
  /\ UNCHANGED <<httpVars, busVars, coreVars, tableVars, pipeVars, clientVars, ticking, loaded, applied,
                 outcome, faults>>

\* The newest request is taken first.
Bug_TickDrain ==
  /\ loaded
  /\ ticking = <<>>
  /\ queue # <<>>
  /\ ticking' = [i \in 1..Len(queue) |-> queue[Len(queue) + 1 - i]]
  /\ queue' = <<>>
  /\ UNCHANGED <<httpVars, busVars, coreVars, tableVars, pipeVars, clientVars, loaded, recent, applied,
                 outcome, faults>>

\* DrainSwitchSceneRequestsOnObsThread takes the whole queue under its lock.
TickDrain ==
  /\ loaded
  /\ ticking = <<>>
  /\ queue # <<>>
  /\ ticking' = queue
  /\ queue' = <<>>
  /\ UNCHANGED <<httpVars, busVars, coreVars, tableVars, pipeVars, clientVars, loaded, recent, applied,
                 outcome, faults>>

\* HandleSwitchSceneRequestOnObsThread: the scene is missing, or is set and is
\* or is not the current one afterwards.  A result is queued in every case,
\* for the dock's own switches too.
TickSwitch(ok) ==
  /\ ticking # <<>>
  /\ ticking' = Tail(ticking)
  /\ applied' = IF ok THEN Append(applied, Head(ticking)) ELSE applied
  /\ results' = Append(results, [id |-> Head(ticking), ok |-> ok])
  /\ UNCHANGED <<httpVars, busVars, coreVars, tableVars, pipeVars, client, batch, notice, queue, loaded,
                 recent, outcome, faults>>

\* obs_module_unload, up to its sleep: no tick runs afterwards, but the worker does.
Unload ==
  /\ loaded
  /\ ticking = <<>>
  /\ loaded' = FALSE
  /\ queue' = <<>>
  /\ recent' = {}
  /\ notice' = TRUE
  /\ UNCHANGED <<httpVars, busVars, coreVars, tableVars, pipeVars, client, results, batch, ticking, applied,
                 outcome, faults>>

\* IpcClient::Stop closes the pipes under the worker.
StopClient ==
  /\ ~loaded
  /\ client # "stopped"
  /\ client' = "stopped"
  /\ UNCHANGED <<httpVars, busVars, coreVars, tableVars, pipeVars, results, batch, notice, obsVars, outcome, faults>>

\* OBS dies with the plugin and is started again.
ObsCrash ==
  /\ loaded
  /\ Fault
  /\ client' = "down"
  /\ results' = <<>>
  /\ batch' = <<>>
  /\ queue' = <<>>
  /\ ticking' = <<>>
  /\ recent' = {}
  /\ UNCHANGED <<httpVars, busVars, coreVars, tableVars, pipeVars, notice, loaded, applied, outcome>>

-----------------------------------------------------------------------------
CoreStep ==
  \/ CoreLagged \/ CoreDropEarly \/ CoreEmit \/ CoreEmitFails \/ CoreDrainDone
  \/ CoreExpire \/ CorePushFails
  \/ CoreReadTimeout \/ CoreReadEof \/ CoreReadHello \/ CoreReadResult \/ CoreReadBye \/ CoreReadGarbled

ClientStep ==
  \/ Connect \/ ClientHello \/ ClientDrain \/ ClientSendResult \/ ClientSendNotice
  \/ ClientReadSwitch \/ ClientReadTimeout \/ ClientDisconnected

Next ==
  \/ \E w \in Posts : PostSwitch(w) \/ DeadlinePasses(w)
  \/ CoreStep
  \/ ClientStep
  \/ \E d \in DockActions : DockSwitch(d)
  \/ TickDrain
  \/ \E ok \in BOOLEAN : TickSwitch(ok)
  \/ Unload
  \/ StopClient
  \/ HeartbeatTimeout \/ CoreReadCut \/ CoreCrash \/ ObsCrash

Spec == Init /\ [][Next]_vars

\* The session task and the worker thread run, and time passes.  Nothing is
\* assumed of HTTP clients or of the OBS thread.
FairSpec ==
  /\ Spec
  /\ WF_vars(CoreStep)
  /\ WF_vars(ClientStep)
  /\ \A w \in Posts : WF_vars(DeadlinePasses(w))

-----------------------------------------------------------------------------
(***************************************************************************)
(* Properties                                                              *)
(***************************************************************************)

Settled == {"ok", "error", "timeout", "dropped", "discarded"}

\* "ok" is only ever reported of a switch OBS has made, although results wait
\* in queues, are re-queued after failed sends and cross sessions.
OkMeansSwitched == \A w \in Posts : outcome[w] = "ok" => w \in Elems(applied)

\* docs/IPC_PROTOCOL_v1.md: "`switch_scene` must never be coalesced or
\* reordered": OBS makes the posted switches in the order they were accepted,
\* each at most once, across all queues, threads and reconnects.
SwitchesInOrder ==
  \A i, j \in DOMAIN applied :
    i < j /\ applied[i] \in Posts /\ applied[j] \in Posts =>
      \E a, b \in DOMAIN posted : a < b /\ posted[a] = applied[i] /\ posted[b] = applied[j]

\* A reported outcome is final: a late result never turns a timeout into a
\* success, and a session that ends never takes back a result.
OutcomeFinal == [][\A w \in Posts : outcome[w] \in Settled => outcome'[w] = outcome[w]]_vars

\* Every emitted switch is settled: answered, timed out or lost with its session.
\* There is always a later time at which none is pending.
EmittedSettles == []<>(\A w \in Posts : outcome[w] # "pending")
=============================================================================
